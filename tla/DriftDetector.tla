--------------------------- MODULE DriftDetector ----------------------------
(***************************************************************************)
(* DriftDetector: a window of samples and a baseline for each tool.  A     *)
(* sample is an execution time and an error rate; whether a score passes   *)
(* the threshold is told without division or roots, from the number, the   *)
(* sum and the sum of squares of the samples.                              *)
(***************************************************************************)
EXTENDS Integers, Sequences, FiniteSets, Functions

CONSTANTS
    WatchedTools,
    Times, ErrorRates,      \* what samples may hold
    WindowSize, DriftThreshold, MinSamples

ASSUME SamplesAssumption == Times \subseteq Nat /\ ErrorRates \subseteq Nat
ASSUME WindowAssumption  ==
    WindowSize \in Nat \ {0} /\ DriftThreshold \in Nat /\ MinSamples \in Nat

VARIABLES
    history,        \* _behavior_history
    baselines,      \* _baselines
    drift,          \* the last call of check_drift, and how its scores compare
    samples         \* history: how many samples there were of each tool, to WindowSize

driftVars == <<history, baselines, drift, samples>>

Sample == [time : Times, errors : ErrorRates]

\* _get_stats
Stats(times) == [n |-> Len(times),
                 sum |-> SumFunction(times),
                 squares |-> SumFunction([i \in DOMAIN times |-> times[i] * times[i]])]

TimesOf(window)  == [i \in DOMAIN window |-> window[i].time]
ErrorsOf(window) == [i \in DOMAIN window |-> window[i].errors]

NoBaseline == [time |-> Stats(<<>>), errors |-> Stats(<<>>)]

Figures == [n : 0 .. WindowSize, sum : Nat, squares : Nat]

DriftTypeOK ==
    /\ history \in [WatchedTools -> Seq(Sample)]
    /\ \A t \in WatchedTools : Len(history[t]) <= WindowSize
    /\ baselines \in [WatchedTools -> [time : Figures, errors : Figures]]
    /\ drift.byTime \in BOOLEAN /\ drift.byErrors \in BOOLEAN
    /\ samples \in [WatchedTools -> 0 .. WindowSize]

DriftInit ==
    /\ history = [t \in WatchedTools |-> <<>>]
    /\ baselines = [t \in WatchedTools |-> NoBaseline]
    /\ drift = [tool |-> "none", byTime |-> FALSE, byErrors |-> FALSE]
    /\ samples = [t \in WatchedTools |-> 0]

-----------------------------------------------------------------------------
\* |v - mean| / stdev > DriftThreshold, and 0 where stdev is: stdev is that of a sample.
ZPasses(v, stats) ==
    LET n == stats.n
        spread == n * stats.squares - stats.sum * stats.sum
        off == n * v - stats.sum
    IN n > 1 /\ spread > 0 /\ off * off * (n - 1) > DriftThreshold * DriftThreshold * n * spread

\* |rate - mean| / mean > DriftThreshold
ErrorsPass(rate, stats) ==
    LET off == stats.n * rate - stats.sum IN
    stats.sum > 0 /\ \/ off > DriftThreshold * stats.sum
                     \/ -off > DriftThreshold * stats.sum

\* deque(maxlen)
Pushed(window, s) ==
    IF Len(window) < WindowSize THEN Append(window, s) ELSE Append(Tail(window), s)

\* check_drift: with a baseline, the time is compared with the window, of which it is
\* already part, and the error rate with the baseline.
CheckDrift(t, s) ==
    LET window == Pushed(history[t], s)
        stats  == Stats(TimesOf(window))
    IN /\ history' = [history EXCEPT ![t] = window]
       /\ samples' = [samples EXCEPT ![t] = IF @ < WindowSize THEN @ + 1 ELSE @]
       /\ drift' = [tool |-> t,
            byTime   |-> baselines[t] # NoBaseline /\ stats.n >= MinSamples /\ ZPasses(s.time, stats),
            byErrors |-> baselines[t] # NoBaseline /\ ErrorsPass(s.errors, baselines[t].errors)]
       /\ UNCHANGED baselines

\* Mutant of UpdateBaseline: from a window that is too small.
UpdateBaselineEarly(t) ==
    /\ history[t] # <<>>
    /\ baselines' = [baselines EXCEPT ![t] =
         [time |-> Stats(TimesOf(history[t])), errors |-> Stats(ErrorsOf(history[t]))]]
    /\ UNCHANGED <<history, drift, samples>>

\* update_baseline, from the window as it is.
UpdateBaseline(t) ==
    /\ history[t] # <<>> /\ Len(history[t]) >= MinSamples
    /\ baselines' = [baselines EXCEPT ![t] =
         [time |-> Stats(TimesOf(history[t])), errors |-> Stats(ErrorsOf(history[t]))]]
    /\ UNCHANGED <<history, drift, samples>>

DriftNext ==
    \E t \in WatchedTools :
      UpdateBaseline(t) \/ \E s \in Sample : CheckDrift(t, s)

DriftSpec == DriftInit /\ [][DriftNext]_driftVars

\* detect_anomalies: here the times of the window are compared with the baseline.
Anomalies(t) ==
    IF Len(history[t]) < MinSamples \/ baselines[t] = NoBaseline THEN {}
    ELSE {i \in DOMAIN history[t] : ZPasses(history[t][i].time, baselines[t].time)}

\* get_drift_report, get_behavior_stats
Report(t) == [samples |-> Len(history[t]), stats |-> Stats(TimesOf(history[t])),
              baseline |-> baselines[t]]

-----------------------------------------------------------------------------
(* Properties *)

\* A sample counts in the mean it is compared with, so a time passes only in a window
\* large enough: of n samples none is further off than (n - 1) / sqrt(n) deviations.
\* And only after enough samples for a baseline.
DriftNeedsSamples ==
    \A t \in WatchedTools : drift.tool = t =>
      /\ drift.byTime => (samples[t] - 1) * (samples[t] - 1)
                           > DriftThreshold * DriftThreshold * samples[t]
      /\ drift.byTime \/ drift.byErrors => samples[t] >= MinSamples

\* A baseline taken from the window it is compared with finds at most one anomaly in
\* n / DriftThreshold^2 samples: the detectors agree on what is usual.
AnomaliesAreRare ==
    \A t \in WatchedTools : baselines[t] # NoBaseline /\ Report(t).stats = baselines[t].time =>
      Cardinality(Anomalies(t)) * DriftThreshold * DriftThreshold < Len(history[t])

\* check_drift and detect_anomalies report only what the samples they have can show.
DriftAgrees == DriftNeedsSamples /\ AnomaliesAreRare

-----------------------------------------------------------------------------
(* The inductive invariant behind the theorems of ObservabilityProofs *)

SamplesCounted == \A t \in WatchedTools : samples[t] = Len(history[t])

\* A window that was large enough for a baseline stays so.
BaselinesFounded ==
    \A t \in WatchedTools :
      baselines[t] # NoBaseline => history[t] # <<>> /\ Len(history[t]) >= MinSamples

DriftInv == DriftTypeOK /\ SamplesCounted /\ BaselinesFounded /\ DriftNeedsSamples
=============================================================================
