--------------------------- MODULE MetricsRegistry ---------------------------
(***************************************************************************)
(* MetricsRegistry with a counter, a gauge and a histogram of one name,    *)
(* and holders that get them once and go on using them, as the module      *)
(* level of metrics.py does.  reset empties the registry; a holder keeps   *)
(* the metrics it got before, which are then no longer collected.          *)
(***************************************************************************)
EXTENDS Integers, FiniteSets, Functions

CONSTANTS
    Holders,
    LabelSets,      \* the label sets a value may be given
    NoLabels,
    Buckets,        \* the upper bounds of the buckets a histogram may be asked for with
    Values,         \* the values that are observed
    Levels,         \* the values gauges are set to
    MaxCalls,       \* bound on the uses of metrics
    MaxResets       \* bound on the calls of reset

ASSUME NoLabelsAssumption == NoLabels \notin LabelSets
ASSUME BucketsAssumption  == Buckets \subseteq Nat /\ Values \subseteq Nat
\* So that there is a sum of what was observed.
ASSUME SumsAssumption     == IsFiniteSet(Buckets) /\ IsFiniteSet(Values) /\ IsFiniteSet(LabelSets)
ASSUME ResetsAssumption   == MaxResets \in Nat /\ MaxCalls \in Nat /\ Levels \subseteq Int

VARIABLES
    metrics,        \* the metrics made between one reset and the next
    held,           \* which of them each holder has, 0 for none
    generation,     \* the last of them, which the registry has or is to make
    callsMade,      \* how often a holder used its metrics
    fresh,          \* history: who got its metrics since the last reset
    counted,        \* history: the sum of what those in fresh passed to inc, by labels
    observed        \* history: the calls of observe by those in fresh, by labels and value

metricVars == <<metrics, held, generation, callsMade, fresh, counted, observed>>

Labelled    == LabelSets \cup {NoLabels}
Generations == 1 .. MaxResets + 1

\* Histogram data: one for all observations, one for each label set.
Data == [count : Nat, sum : Nat, buckets : [Buckets -> Nat]]

\* With the bounds of the buckets that its histogram was made with.
Metric == [counter : [Labelled -> Int], gauge : [Labelled -> Int],
           histogram : [Labelled -> Data], bounds : SUBSET Buckets]

MetricsTypeOK ==
    /\ metrics \in [Generations -> Metric]
    /\ held \in [Holders -> Generations \cup {0}]
    /\ generation \in Generations
    /\ callsMade \in 0 .. MaxCalls
    /\ fresh \subseteq Holders
    /\ counted \in [Labelled -> Int]
    /\ observed \in [Labelled \X Values -> Nat]

NoData == [count |-> 0, sum |-> 0, buckets |-> [b \in Buckets |-> 0]]

NewMetric == [counter   |-> [k \in Labelled |-> 0],
              gauge     |-> [k \in Labelled |-> 0],
              histogram |-> [k \in Labelled |-> NoData],
              bounds    |-> {}]

NothingCounted  == [k \in Labelled |-> 0]
NothingObserved == [o \in Labelled \X Values |-> 0]

MetricsInit ==
    /\ metrics = [g \in Generations |-> NewMetric]
    /\ held = [h \in Holders |-> 0]
    /\ generation = 1 /\ callsMade = 0
    /\ fresh = {}
    /\ counted = NothingCounted /\ observed = NothingObserved

-----------------------------------------------------------------------------
\* counter, gauge and histogram: get or create.  The first to ask after a reset has
\* new ones made, the histogram with the buckets it asks for, or with none: that is what
\* histogram() puts in place of no argument.  Those that ask later get what there is.
Get(h, asked) ==
    /\ held' = [held EXCEPT ![h] = generation]
    /\ fresh' = fresh \cup {h}
    /\ metrics' = IF fresh = {} THEN [metrics EXCEPT ![generation].bounds = asked] ELSE metrics
    /\ UNCHANGED <<generation, callsMade, counted, observed>>

\* reset
ResetRegistry ==
    /\ generation <= MaxResets
    /\ generation' = generation + 1
    /\ fresh' = {}
    /\ counted' = NothingCounted /\ observed' = NothingObserved
    /\ UNCHANGED <<metrics, held, callsMade>>

Uses(h) == held[h] # 0 /\ callsMade < MaxCalls /\ callsMade' = callsMade + 1

\* Counter.inc: nothing keeps a counter from going down.  A value with labels counts
\* for its labels only.
Increase(h, labels, by) ==
    /\ Uses(h)
    /\ metrics' = [metrics EXCEPT ![held[h]].counter[labels] = @ + by]
    /\ counted' = IF h \in fresh THEN [counted EXCEPT ![labels] = @ + by] ELSE counted
    /\ UNCHANGED <<held, generation, fresh, observed>>

\* Gauge.inc for 1, Gauge.dec for -1
MoveGauge(h, labels, by) ==
    /\ Uses(h)
    /\ metrics' = [metrics EXCEPT ![held[h]].gauge[labels] = @ + by]
    /\ UNCHANGED <<held, generation, fresh, counted, observed>>

\* Gauge.set
SetGauge(h, labels, to) ==
    /\ Uses(h)
    /\ metrics' = [metrics EXCEPT ![held[h]].gauge[labels] = to]
    /\ UNCHANGED <<held, generation, fresh, counted, observed>>

\* Mutant of Bucketed: the bound is left out of its bucket.
BucketedBelow(d, bounds, v) ==
    [count |-> d.count + 1, sum |-> d.sum + v,
     buckets |-> [b \in Buckets |-> d.buckets[b] + (IF b \in bounds /\ v < b THEN 1 ELSE 0)]]

\* Every bucket whose bound the value does not pass.
Bucketed(d, bounds, v) ==
    [count |-> d.count + 1, sum |-> d.sum + v,
     buckets |-> [b \in Buckets |-> d.buckets[b] + (IF b \in bounds /\ v <= b THEN 1 ELSE 0)]]

\* Histogram.observe, also as TimingContext calls it: a value with labels counts for
\* them and for the whole.
Observe(h, labels, v) ==
    /\ Uses(h)
    /\ LET m == metrics[held[h]] IN
       metrics' = [metrics EXCEPT ![held[h]].histogram =
         [k \in Labelled |-> IF k \in {labels, NoLabels}
                              THEN Bucketed(m.histogram[k], m.bounds, v) ELSE m.histogram[k]]]
    /\ observed' = IF h \in fresh THEN [observed EXCEPT ![<<labels, v>>] = @ + 1] ELSE observed
    /\ UNCHANGED <<held, generation, fresh, counted>>

MetricsNext ==
    \/ ResetRegistry
    \/ \E h \in Holders, asked \in {{}, Buckets} : Get(h, asked)
    \/ \E h \in Holders, labels \in Labelled :
         \/ \E by \in {-1, 1} : Increase(h, labels, by)
         \/ \E by \in {-1, 1} : MoveGauge(h, labels, by)
         \/ \E to \in Levels : SetGauge(h, labels, to)
         \/ \E v \in Values : Observe(h, labels, v)

MetricsSpec == MetricsInit /\ [][MetricsNext]_metricVars

-----------------------------------------------------------------------------
(* What /metrics shows *)

\* Histogram.collect adds up the buckets, which observe has already made cumulative.
CollectedBucket(labels, b) ==
    SumFunctionOnSet(metrics[generation].histogram[labels].buckets, {c \in Buckets : c <= b})

\* Counter.collect: the line of a value, if the value is above 0.
CollectedCounter(labels) == {n \in {metrics[generation].counter[labels]} : n > 0}

-----------------------------------------------------------------------------
(* Properties *)

Observations(labels, vs) ==
    SumFunctionOnSet(observed,
                     {o \in Labelled \X Values : labels \in {o[1], NoLabels} /\ o[2] \in vs})

\* What is registered counts what was passed to inc since the last reset by those that
\* got their metrics since, and nothing of what others pass: one that kept an old metric
\* is not collected, and does not disturb.  Sums that are not above 0 are not shown.
CountersAgree ==
    \A k \in Labelled : CollectedCounter(k) = {n \in {counted[k]} : n > 0}

\* The histogram keeps, of all and of each label set, the number of observations, which is
\* shown as it is, and in each of its buckets the number of those up to its bound.  What
\* is shown of a bucket is another matter: see BucketsShown.
BucketsAgree ==
    \A k \in Labelled :
      LET m == metrics[generation]
      IN /\ m.histogram[k].count = Observations(k, Values)
         /\ \A b \in m.bounds :
              m.histogram[k].buckets[b] = Observations(k, {v \in Values : v <= b})

\* Whatever is kept across a reset and however often it is used, what inc and observe keep
\* in the registered metrics is what was counted and observed since, by those that have
\* them.
MetricsAgree == CountersAgree /\ BucketsAgree

\* What the documentation promises of a histogram, Prometheus format, in which the line of
\* a bucket gives the number of observations up to its bound.  collect adds up what observe
\* has added up before.
BucketsShown ==
    \A k \in Labelled, b \in metrics[generation].bounds :
      CollectedBucket(k, b) = Observations(k, {v \in Values : v <= b})

-----------------------------------------------------------------------------
(* The inductive invariant behind the theorems of ObservabilityProofs *)

\* Who got its metrics since the last reset has the ones that are collected, and nobody
\* else has.
FreshHold == \A h \in Holders : held[h] <= generation /\ (h \in fresh <=> held[h] = generation)

\* What is made after the next reset is new, and so is what nobody has asked for yet.
UnmadeNew ==
    /\ \A g \in Generations : g > generation => metrics[g] = NewMetric
    /\ fresh = {} => metrics[generation] = NewMetric /\ observed = NothingObserved

\* The sums, those not above 0 included.
CountersHold == \A k \in Labelled : metrics[generation].counter[k] = counted[k]

MetricsInv == MetricsTypeOK /\ FreshHold /\ UnmadeNew /\ CountersHold /\ BucketsAgree
=============================================================================
