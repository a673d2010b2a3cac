------------------------- MODULE SiemDispatchProofs -------------------------
(***************************************************************************)
(* Theorems about SiemDispatch, for any thresholds and timeouts, any       *)
(* number of connectors and any set of concurrent dispatches.              *)
(***************************************************************************)
EXTENDS SiemDispatch, TLAPS

-----------------------------------------------------------------------------
(* The circuit breaker as a value *)

\* Every method returns a breaker, and its counters stay within the thresholds.
LEMMA MethodsTyped ==
    ASSUME NEW b \in Breaker
    PROVE  /\ New \in Breaker
           /\ \A s \in States : TransitionTo(b, s) \in Breaker
           /\ RecordSuccess(b) \in Breaker
           /\ RecordFailure(b) \in Breaker
           /\ MaybeHalfOpen(b) \in Breaker
           /\ Elapse(b) \in Breaker
<1> USE ThresholdAssumption, TimeoutAssumption DEF Breaker, States, TripAges
<1>1. New \in Breaker
  BY DEF New
<1>2. ASSUME NEW x \in [state : States, failures : 0 .. FailureThreshold, successes : Nat,
                        failedAgo : TripAges \cup {Never}],
             NEW s \in States, x.state # s
      PROVE  TransitionTo(x, s) \in Breaker
  <2>1. TransitionTo(x, s) =
          [state |-> s, failures |-> IF s = "closed" THEN 0 ELSE x.failures,
           successes |-> 0, failedAgo |-> x.failedAgo]
    BY <1>2 DEF TransitionTo
  <2> QED BY <2>1
<1>3. ASSUME NEW s \in States PROVE TransitionTo(b, s) \in Breaker
  <2>1. CASE b.state = s
    BY <2>1 DEF TransitionTo
  <2>2. CASE b.state # s
    BY <1>2, <2>2
  <2> QED BY <2>1, <2>2
<1>4. RecordSuccess(b) \in Breaker
  <2> DEFINE counted == [b EXCEPT !.successes = @ + 1]
  <2>1. CASE b.state # "half_open"
    BY <2>1 DEF RecordSuccess
  <2>2. CASE b.state = "half_open" /\ counted.successes >= SuccessThreshold
    <3>1. TransitionTo(counted, "closed") \in Breaker
      BY <1>2, <2>2
    <3> QED BY <2>2, <3>1 DEF RecordSuccess
  <2>3. CASE b.state = "half_open" /\ ~(counted.successes >= SuccessThreshold)
    BY <2>3 DEF RecordSuccess
  <2> QED BY <2>1, <2>2, <2>3
<1>5. RecordFailure(b) \in Breaker
  <2> DEFINE count == IF b.failures < FailureThreshold THEN b.failures + 1 ELSE b.failures
             failed == [b EXCEPT !.failures = count, !.failedAgo = 0]
  <2>1. failed \in Breaker /\ failed.state = b.state
    <3>1. count \in 0 .. FailureThreshold /\ 0 \in TripAges
      OBVIOUS
    <3> HIDE DEF count
    <3>2. [b EXCEPT !.failures = count] \in Breaker
      BY <3>1
    <3>3. failed = [[b EXCEPT !.failures = count] EXCEPT !.failedAgo = 0]
      OBVIOUS
    <3> QED BY <3>1, <3>2, <3>3
  <2>2. RecordFailure(b) \in {failed, TransitionTo(failed, "open")}
    BY DEF RecordFailure
  <2> HIDE DEF failed
  <2>3. TransitionTo(failed, "open") \in Breaker
    <3>1. CASE failed.state # "open"
      BY <1>2, <2>1, <3>1
    <3>2. CASE failed.state = "open"
      BY <2>1, <3>2 DEF TransitionTo
    <3> QED BY <3>1, <3>2
  <2> QED BY <2>1, <2>2, <2>3
<1>6. MaybeHalfOpen(b) \in Breaker
  BY <1>3 DEF MaybeHalfOpen
<1>7. Elapse(b) \in Breaker
  BY DEF Elapse, NextAge
<1> QED BY <1>1, <1>3, <1>4, <1>5, <1>6, <1>7

\* Which methods open a breaker, and which make it half-open.
LEMMA MethodsMove ==
    ASSUME NEW b \in Breaker
    PROVE  /\ RecordSuccess(b).state = "half_open" => b.state = "half_open"
           /\ RecordSuccess(b).state = "open" => RecordSuccess(b) = b
           /\ b.state = "closed" => RecordSuccess(b).state = "closed"
           /\ RecordFailure(b).state # "half_open"
           /\ RecordFailure(b).state = "open" => RecordFailure(b).failedAgo = 0
           /\ MaybeHalfOpen(b).state = "half_open" =>
                \/ b.state = "half_open"
                \/ b.state = "open" /\ b.failedAgo \in {Never, Timeout}
           /\ MaybeHalfOpen(b).state = "open" => MaybeHalfOpen(b) = b
           /\ b.state = "closed" => MaybeHalfOpen(b) = b
           /\ Elapse(b).state = b.state
<1> USE DEF Breaker, States, TransitionTo
<1>1. /\ RecordSuccess(b).state = "half_open" => b.state = "half_open"
      /\ RecordSuccess(b).state = "open" => RecordSuccess(b) = b
      /\ b.state = "closed" => RecordSuccess(b).state = "closed"
  BY DEF RecordSuccess
<1>2. /\ RecordFailure(b).state # "half_open"
      /\ RecordFailure(b).state = "open" => RecordFailure(b).failedAgo = 0
  BY DEF RecordFailure
<1>3. /\ MaybeHalfOpen(b).state = "half_open" =>
           \/ b.state = "half_open"
           \/ b.state = "open" /\ b.failedAgo \in {Never, Timeout}
      /\ MaybeHalfOpen(b).state = "open" => MaybeHalfOpen(b) = b
      /\ b.state = "closed" => MaybeHalfOpen(b) = b
  BY DEF MaybeHalfOpen
<1>4. Elapse(b).state = b.state
  BY DEF Elapse
<1> QED BY <1>1, <1>2, <1>3, <1>4

-----------------------------------------------------------------------------
(* Types *)

\* A breaker that becomes another one leaves the rest of the types alone.
LEMMA BecomesTyped ==
    ASSUME SiemTypeOK, NEW c \in Connectors, NEW b \in Breaker,
           NEW by \in {"failures", "operator"}, Becomes(c, b, by)
    PROVE  /\ breakers' \in [Connectors -> Breaker]
           /\ opened' \in [Connectors -> [by : {"no", "failures", "operator"}, ago : TripAges]]
BY TimeoutAssumption DEF Becomes, SiemTypeOK, TripAges

LEMMA LongerTyped ==
    ASSUME NEW run \in [ok : BOOLEAN, n : 0 .. StreakCap], NEW ok \in BOOLEAN
    PROVE  /\ Longer(run, ok) \in [ok : BOOLEAN, n : 0 .. StreakCap]
           /\ Longer(run, ok).n \in Nat
<1>1. StreakCap \in Nat \ {0}
  BY ThresholdAssumption DEF StreakCap
<1> DEFINE n == IF ok # run.ok THEN 1 ELSE IF run.n < StreakCap THEN run.n + 1 ELSE run.n
<1>2. n \in 0 .. StreakCap
  BY <1>1
<1>3. Longer(run, ok) = [ok |-> ok, n |-> n]
  BY DEF Longer
<1> HIDE DEF n
<1> QED BY <1>1, <1>2, <1>3

LEMMA RecordedTyped ==
    ASSUME SiemTypeOK, NEW c \in Connectors, NEW ok \in BOOLEAN, Recorded(c, ok)
    PROVE  /\ streak' \in [Connectors -> [ok : BOOLEAN, n : 0 .. StreakCap]]
           /\ streak'[c] = Longer(streak[c], ok)
           /\ \A x \in Connectors \ {c} : streak'[x] = streak[x]
BY LongerTyped DEF Recorded, SiemTypeOK

\* A dispatch about to turn to a connector is not sending.
LEMMA TurnTyped ==
    ASSUME NEW n \in 0 .. N + 1, NEW delivered \in SUBSET Connectors
    PROVE  Turn(n, delivered) \in Call /\ ~Turn(n, delivered).sending
BY SiemAssumption DEF Turn, Call

\* The loop of a dispatch stays on the connectors or ends just after them.
LEMMA AdvanceTyped ==
    ASSUME SiemTypeOK, NEW d \in Dispatches, calls[d].at \in Connectors,
           NEW delivered \in SUBSET Connectors, Advance(d, delivered)
    PROVE  /\ calls' \in [Dispatches -> Call]
           /\ \A e \in Dispatches : calls'[e].sending => calls'[e].at \in Connectors
<1>1. calls[d].at + 1 \in 0 .. N + 1
  BY SiemAssumption DEF Connectors
<1> QED BY <1>1, TurnTyped DEF Advance, SiemTypeOK

\* A dispatch that starts to wait stays a dispatch, at the same connector.
LEMMA WaitingTyped ==
    ASSUME NEW call \in Call, NEW down \in BOOLEAN
    PROVE  /\ Waiting(call, down) \in Call
           /\ Waiting(call, down).at = call.at
           /\ Waiting(call, down).delivered = call.delivered
           /\ Waiting(call, down).lost = down
BY DEF Waiting, Call

\* Replacing one dispatch by one of the type keeps the dispatches typed.
LEMMA CallsTyped ==
    ASSUME SiemTypeOK, NEW d \in Dispatches, NEW call \in Call,
           call.sending => call.at \in Connectors,
           calls' = [calls EXCEPT ![d] = call]
    PROVE  /\ calls' \in [Dispatches -> Call]
           /\ \A e \in Dispatches : calls'[e].sending => calls'[e].at \in Connectors
BY DEF SiemTypeOK

\* No step leaves the types of the state.
LEMMA TypeStep ==
    ASSUME SiemTypeOK, [SiemNext]_siemVars
    PROVE  SiemTypeOK'
<1>1. ASSUME NEW d \in Dispatches, BeginDispatch(d) PROVE SiemTypeOK'
  <2>1. 1 \in 0 .. N + 1
    BY SiemAssumption
  <2> QED BY <1>1, <2>1, TurnTyped DEF BeginDispatch, SiemTypeOK
<1>2. ASSUME NEW d \in Dispatches, Send(d) PROVE SiemTypeOK'
  <2> DEFINE c == calls[d].at
             b == Admit(breakers[c])
  <2>1. c \in Connectors /\ Becomes(c, b, "failures")
        /\ UNCHANGED <<up, troubled, streak, forced>>
    BY <1>2 DEF Send
  <2>2. b \in Breaker
    BY <2>1, MethodsTyped DEF SiemTypeOK, Admit
  <2>3. CASE Advance(d, calls[d].delivered)
    <3>1. calls[d].delivered \in SUBSET Connectors
      BY DEF SiemTypeOK, Call
    <3> QED BY <2>1, <2>2, <2>3, <3>1, BecomesTyped, AdvanceTyped DEF SiemTypeOK
  <2>4. CASE calls' = [calls EXCEPT ![d] = Waiting(@, c \notin up)]
    <3>1. calls[d] \in Call /\ (c \notin up) \in BOOLEAN
      BY DEF SiemTypeOK
    <3>2. Waiting(calls[d], c \notin up) \in Call
          /\ Waiting(calls[d], c \notin up).at \in Connectors
      BY <2>1, <3>1, WaitingTyped
    <3>3. calls' = [calls EXCEPT ![d] = Waiting(calls[d], c \notin up)]
      BY <2>4
    <3>4. /\ calls' \in [Dispatches -> Call]
          /\ \A e \in Dispatches : calls'[e].sending => calls'[e].at \in Connectors
      BY <3>2, <3>3, CallsTyped
    <3> QED BY <2>1, <2>2, <3>4, BecomesTyped DEF SiemTypeOK
  <2> QED BY <1>2, <2>3, <2>4 DEF Send
<1>3. ASSUME NEW d \in Dispatches, Succeeds(d) \/ Fails(d) \/ TimesOut(d) PROVE SiemTypeOK'
  <2> DEFINE c == calls[d].at
  <2>1. c \in Connectors /\ breakers[c] \in Breaker
    BY <1>3 DEF Succeeds, Fails, TimesOut, SiemTypeOK
  <2>2. PICK b \in {RecordSuccess(breakers[c]), RecordFailure(breakers[c])},
             ok \in BOOLEAN, delivered \in {calls[d].delivered, calls[d].delivered \cup {c}} :
          Becomes(c, b, "failures") /\ Recorded(c, ok) /\ Advance(d, delivered)
    BY <1>3 DEF Succeeds, Fails, TimesOut
  <2>3. b \in Breaker
    BY <2>1, MethodsTyped
  <2>4. delivered \in SUBSET Connectors
    BY <2>1 DEF SiemTypeOK, Call
  <2>5. UNCHANGED <<up, troubled, forced>>
    BY <1>3 DEF Succeeds, Fails, TimesOut
  <2> QED BY <2>1, <2>2, <2>3, <2>4, <2>5, BecomesTyped, RecordedTyped, AdvanceTyped DEF SiemTypeOK
<1>4. ASSUME NEW c \in Connectors, NEW b \in Breaker, Intervene(c, b) PROVE SiemTypeOK'
  BY <1>4, BecomesTyped DEF Intervene, SiemTypeOK
<1>5. ASSUME NEW c \in Connectors, ForceOpen(c) \/ ForceClose(c) \/ ResetBreaker(c) PROVE SiemTypeOK'
  BY <1>4, <1>5, MethodsTyped DEF ForceOpen, ForceClose, ResetBreaker, States, SiemTypeOK
<1>6. ASSUME NEW c \in Connectors, GoesDown(c) \/ GoesUp(c) PROVE SiemTypeOK'
  <2>1. calls' \in [Dispatches -> Call]
        /\ \A e \in Dispatches : calls'[e].sending => calls'[e].at \in Connectors
    <3>1. CASE GoesDown(c)
      <4>1. ASSUME NEW e \in Dispatches
            PROVE  /\ calls'[e] \in Call
                   /\ calls'[e].sending => calls'[e].at \in Connectors
        <5>1. calls[e] \in Call
          BY DEF SiemTypeOK
        <5>2. calls'[e] = IF calls[e].sending /\ calls[e].at = c
                          THEN [calls[e] EXCEPT !.lost = TRUE] ELSE calls[e]
          BY <3>1 DEF GoesDown
        <5> QED BY <5>1, <5>2 DEF Call, SiemTypeOK
      <4>2. calls' = [e \in Dispatches |-> calls'[e]]
        BY <3>1 DEF GoesDown
      <4> QED BY <4>1, <4>2
    <3>2. CASE GoesUp(c)
      BY <3>2 DEF GoesUp, SiemTypeOK
    <3> QED BY <1>6, <3>1, <3>2
  <2> QED BY <1>6, <2>1 DEF GoesDown, GoesUp, SiemTypeOK
<1>7. CASE Elapses
  <2>1. breakers' \in [Connectors -> Breaker]
    BY <1>7, MethodsTyped DEF Elapses, SiemTypeOK
  <2>2. opened' \in [Connectors -> [by : {"no", "failures", "operator"}, ago : TripAges]]
    BY <1>7, TimeoutAssumption DEF Elapses, SiemTypeOK, NextAge, TripAges
  <2>3. calls' \in [Dispatches -> Call]
        /\ \A e \in Dispatches : calls'[e].sending => calls'[e].at \in Connectors
    <3>1. ASSUME NEW e \in Dispatches
          PROVE  /\ calls'[e] \in Call
                 /\ calls'[e].sending => calls'[e].at \in Connectors
      <4>1. calls[e] \in Call
        BY DEF SiemTypeOK
      <4>2. calls'[e] = IF calls[e].sending /\ calls[e].ago < SendTimeout
                        THEN [calls[e] EXCEPT !.ago = calls[e].ago + 1] ELSE calls[e]
        BY <1>7, <4>1 DEF Elapses, Call
      <4>3. /\ calls[e].ago \in 0 .. SendTimeout
            /\ calls[e].ago < SendTimeout => calls[e].ago + 1 \in 0 .. SendTimeout
        BY <4>1, SiemAssumption DEF Call
      <4>4. calls'[e] \in Call
        BY <4>1, <4>2, <4>3 DEF Call
      <4>5. calls'[e].sending = calls[e].sending /\ calls'[e].at = calls[e].at
        BY <4>1, <4>2 DEF Call
      <4> QED BY <4>4, <4>5 DEF SiemTypeOK
    <3>2. calls' = [e \in Dispatches |-> calls'[e]]
      BY <1>7 DEF Elapses
    <3> QED BY <3>1, <3>2
  <2> QED BY <1>7, <2>1, <2>2, <2>3 DEF Elapses, SiemTypeOK
<1>8. CASE UNCHANGED siemVars
  BY <1>8 DEF siemVars, SiemTypeOK
<1> QED BY <1>1, <1>2, <1>3, <1>5, <1>6, <1>7, <1>8 DEF SiemNext

-----------------------------------------------------------------------------
(* How long a breaker stays open *)

\* A breaker may become b if that opens it now, or not at all, or makes it
\* half-open when its own clock says so.
MayBecome(c, b, by) ==
    /\ b.state = "open" =>
         b = breakers[c] \/ b.state # breakers[c].state \/ b.failedAgo = 0
    /\ b.state = "open" /\ breakers[c].state # "open" /\ by = "failures" => b.failedAgo = 0
    /\ b.state = "half_open" =>
         \/ breakers[c].state = "half_open"
         \/ breakers[c].state = "open" /\ breakers[c].failedAgo \in {Never, Timeout}

LEMMA BecomesInTime ==
    ASSUME SiemTypeOK, ClockBehind, TripLasts, NEW c \in Connectors, NEW b \in Breaker,
           NEW by \in {"failures", "operator"}, Becomes(c, b, by), MayBecome(c, b, by)
    PROVE  ClockBehind' /\ TripLasts'
<1>1. /\ \A x \in Connectors \ {c} : breakers'[x] = breakers[x] /\ opened'[x] = opened[x]
      /\ breakers'[c] = b
      /\ opened'[c] = IF b.state = "closed" THEN [by |-> "no", ago |-> 0]
                      ELSE IF b.state = "open" /\ breakers[c].state # "open"
                      THEN [by |-> by, ago |-> 0]
                      ELSE opened[c]
  BY DEF Becomes, SiemTypeOK
<1>2. b.state \in {"closed", "open", "half_open"} /\ breakers[c] \in Breaker
  BY DEF Breaker, States, SiemTypeOK
<1>3. opened[c].ago \in Nat /\ opened[c].ago <= Timeout
  BY TimeoutAssumption DEF SiemTypeOK, TripAges
<1>4. /\ opened'[c].by = "no" <=> b.state = "closed"
      /\ b.state = "open" /\ opened'[c].by = "failures" =>
           b.failedAgo \in Nat /\ b.failedAgo <= opened'[c].ago
      /\ b.state = "half_open" /\ opened'[c].by = "failures" => opened'[c].ago = Timeout
  <2>1. CASE b.state = "closed"
    BY <1>1, <2>1
  <2>2. CASE b.state = "open" /\ breakers[c].state # "open"
    BY <1>1, <2>2 DEF MayBecome
  <2>3. CASE b.state = "open" /\ breakers[c].state = "open"
    BY <1>1, <1>3, <2>3 DEF MayBecome, ClockBehind
  <2>4. CASE b.state = "half_open" /\ breakers[c].state = "half_open"
    BY <1>1, <2>4 DEF ClockBehind, TripLasts
  <2>5. CASE b.state = "half_open" /\ breakers[c].state = "open"
                                   /\ breakers[c].failedAgo \in {Never, Timeout}
    BY <1>1, <1>3, <2>5, TimeoutAssumption DEF ClockBehind
  <2> QED BY <1>2, <2>1, <2>2, <2>3, <2>4, <2>5 DEF MayBecome
<1> QED BY <1>1, <1>4 DEF ClockBehind, TripLasts

\* While a breaker is open its clock, which late failures only set back, is
\* behind the time since it opened.
LEMMA ClockStep ==
    ASSUME SiemTypeOK, ClockBehind, TripLasts, [SiemNext]_siemVars
    PROVE  ClockBehind' /\ TripLasts'
<1>1. ASSUME NEW d \in Dispatches, Send(d) PROVE ClockBehind' /\ TripLasts'
  <2> DEFINE c == calls[d].at
             b == MaybeHalfOpen(breakers[c])
  <2>1. c \in Connectors /\ Becomes(c, b, "failures")
    BY <1>1 DEF Send, Admit
  <2>2. breakers[c] \in Breaker
    BY <2>1 DEF SiemTypeOK
  <2>3. b \in Breaker /\ MayBecome(c, b, "failures")
    BY <2>2, MethodsTyped, MethodsMove DEF MayBecome
  <2> QED BY <2>1, <2>3, BecomesInTime
<1>2. ASSUME NEW d \in Dispatches, Succeeds(d) \/ Fails(d) \/ TimesOut(d)
      PROVE  ClockBehind' /\ TripLasts'
  <2> DEFINE c == calls[d].at
  <2>1. c \in Connectors /\ breakers[c] \in Breaker
    BY <1>2 DEF Succeeds, Fails, TimesOut, SiemTypeOK
  <2>2. PICK b \in {RecordSuccess(breakers[c]), RecordFailure(breakers[c])} :
          Becomes(c, b, "failures")
    BY <1>2 DEF Succeeds, Fails, TimesOut
  <2>3. b \in Breaker
    BY <2>1, <2>2, MethodsTyped
  <2>4. MayBecome(c, RecordSuccess(breakers[c]), "failures")
    BY <2>1, MethodsMove DEF MayBecome
  <2>5. MayBecome(c, RecordFailure(breakers[c]), "failures")
    BY <2>1, MethodsMove DEF MayBecome
  <2>6. MayBecome(c, b, "failures")
    BY <2>2, <2>4, <2>5
  <2> QED BY <2>1, <2>2, <2>3, <2>6, BecomesInTime
<1>3. ASSUME NEW c \in Connectors, ForceOpen(c) \/ ForceClose(c) \/ ResetBreaker(c)
      PROVE  ClockBehind' /\ TripLasts'
  <2>1. breakers[c] \in Breaker
    BY DEF SiemTypeOK
  <2>2. PICK b \in {TransitionTo(breakers[c], "open"), TransitionTo(breakers[c], "closed"), New} :
          Becomes(c, b, "operator")
    BY <1>3 DEF ForceOpen, ForceClose, ResetBreaker, Intervene
  <2>3. b \in Breaker
    BY <2>1, MethodsTyped DEF States
  <2>4. MayBecome(c, b, "operator")
    <3>1. \A s \in States : TransitionTo(breakers[c], s).state = s
      BY <2>1 DEF TransitionTo, Breaker
    <3>2. breakers[c].state = "open" => TransitionTo(breakers[c], "open") = breakers[c]
      BY DEF TransitionTo
    <3>3. New.state = "closed"
      BY DEF New
    <3> QED BY <3>1, <3>2, <3>3 DEF MayBecome, States
  <2> QED BY <2>2, <2>3, <2>4, BecomesInTime
<1>4. CASE Elapses
  <2>1. ASSUME NEW c \in Connectors
        PROVE  /\ opened'[c].by = "no" <=> breakers'[c].state = "closed"
               /\ breakers'[c].state = "open" /\ opened'[c].by = "failures" =>
                    breakers'[c].failedAgo \in Nat /\ breakers'[c].failedAgo <= opened'[c].ago
               /\ breakers'[c].state = "half_open" /\ opened'[c].by = "failures" =>
                    opened'[c].ago = Timeout
    <3>1. /\ breakers[c] \in Breaker
          /\ opened[c] \in [by : {"no", "failures", "operator"}, ago : TripAges]
      BY DEF SiemTypeOK
    <3>2. /\ breakers'[c].state = breakers[c].state
          /\ breakers'[c].failedAgo = NextAge(breakers[c].failedAgo)
      <4>1. breakers'[c] = [breakers[c] EXCEPT !.failedAgo = NextAge(breakers[c].failedAgo)]
        BY <1>4, <3>1 DEF Elapses, Elapse, Breaker
      <4> QED BY <3>1, <4>1 DEF Breaker
    <3>3. /\ opened'[c].by = opened[c].by
          /\ opened[c].by # "no" => opened'[c].ago = NextAge(opened[c].ago)
      BY <1>4, <3>1 DEF Elapses
    <3>4. breakers[c].failedAgo \in TripAges \cup {Never}
      BY <3>1 DEF Breaker
    <3> QED BY <3>1, <3>2, <3>3, <3>4, TimeoutAssumption DEF ClockBehind, TripLasts, NextAge, TripAges
  <2> QED BY <2>1 DEF ClockBehind, TripLasts
<1>5. CASE \/ \E d \in Dispatches : BeginDispatch(d)
           \/ \E c \in Connectors : GoesDown(c) \/ GoesUp(c)
           \/ UNCHANGED siemVars
  BY <1>5 DEF BeginDispatch, GoesDown, GoesUp, siemVars, ClockBehind, TripLasts
<1> QED BY <1>1, <1>2, <1>3, <1>4, <1>5 DEF SiemNext

-----------------------------------------------------------------------------
(* What a service without trouble gets *)

\* Advancing dispatch d, and only it, keeps what is delivered.
LEMMA CalmStep ==
    ASSUME SiemTypeOK, CalmIsClosed, FailuresIsolated, [SiemNext]_siemVars
    PROVE  CalmIsClosed' /\ FailuresIsolated'
<1> USE DEF CalmIsClosed, FailuresIsolated
<1>0. /\ N \in Nat \ {0}
      /\ \A d \in Dispatches : calls[d].at \in 0 .. N + 1
  BY SiemAssumption DEF SiemTypeOK, Call
<1>1. ASSUME NEW d \in Dispatches, BeginDispatch(d) PROVE CalmIsClosed' /\ FailuresIsolated'
  BY <1>0, <1>1 DEF BeginDispatch, Turn, Connectors, SiemTypeOK
<1>2. ASSUME NEW d \in Dispatches, Send(d) PROVE CalmIsClosed' /\ FailuresIsolated'
  <2> DEFINE c == calls[d].at
             b == MaybeHalfOpen(breakers[c])
  <2>1. /\ c \in Connectors /\ breakers[c] \in Breaker
        /\ breakers' = [breakers EXCEPT ![c] = b]
        /\ troubled' = troubled /\ up' = up
    BY <1>2 DEF Send, Admit, Becomes, SiemTypeOK
  <2>2. breakers[c].state = "closed" => b = breakers[c]
    BY <2>1, MethodsMove
  <2>3. \A x \in Connectors \ troubled : x \in up' /\ breakers'[x].state = "closed"
    BY <2>1, <2>2 DEF SiemTypeOK
  <2>4. CASE b.state = "open" /\ Advance(d, calls[d].delivered)
    <3>1. c \in troubled
      BY <2>1, <2>2, <2>4
    <3>2. \A e \in Dispatches \ {d} : calls'[e] = calls[e]
      BY <2>4 DEF Advance, SiemTypeOK
    <3>3. calls'[d] = Turn(c + 1, calls[d].delivered)
      BY <2>4 DEF Advance, SiemTypeOK
    <3>4. ASSUME NEW x \in Connectors \ troubled, calls'[d].at > x
          PROVE  x \in calls'[d].delivered
      BY <2>1, <3>1, <3>3, <3>4 DEF Turn, Connectors
    <3> QED BY <2>1, <2>3, <3>2, <3>3, <3>4 DEF Turn
  <2>5. CASE calls' = [calls EXCEPT ![d] = Waiting(@, c \notin up)]
    <3>1. \A e \in Dispatches \ {d} : calls'[e] = calls[e]
      BY <2>5 DEF SiemTypeOK
    <3>2. calls[d] \in Call /\ (c \notin up) \in BOOLEAN
      BY DEF SiemTypeOK
    <3>3. calls'[d] = Waiting(calls[d], c \notin up)
      BY <2>5 DEF SiemTypeOK
    <3>4. /\ calls'[d].at = c /\ calls'[d].delivered = calls[d].delivered
          /\ calls'[d].lost = (c \notin up)
      BY <3>2, <3>3, WaitingTyped
    <3>6. ASSUME NEW e \in Dispatches, NEW x \in Connectors \ troubled, calls'[e].at > x
          PROVE  x \in calls'[e].delivered
      BY <3>1, <3>4, <3>6
    <3>7. UNCHANGED <<up, troubled>>
      BY <2>1
    <3>8. ASSUME NEW e \in Dispatches, NEW x \in Connectors \ troubled,
                 calls'[e].sending, calls'[e].at = x
          PROVE  ~calls'[e].lost
      BY <2>3, <3>1, <3>4, <3>7, <3>8
    <3> QED BY <2>3, <3>6, <3>7, <3>8
  <2> QED BY <1>2, <2>4, <2>5 DEF Send, Admit
<1>3. ASSUME NEW d \in Dispatches, Succeeds(d) \/ Fails(d) \/ TimesOut(d)
      PROVE  CalmIsClosed' /\ FailuresIsolated'
  <2> DEFINE c == calls[d].at
  <2>1. /\ c \in Connectors /\ breakers[c] \in Breaker
        /\ troubled' = troubled /\ up' = up
    BY <1>3 DEF Succeeds, Fails, TimesOut, SiemTypeOK
  <2>2. PICK b, delivered :
          /\ Becomes(c, b, "failures") /\ Advance(d, delivered)
          /\ \/ b = RecordSuccess(breakers[c]) /\ delivered = calls[d].delivered \cup {c}
             \/ calls[d].lost /\ delivered = calls[d].delivered
    BY <1>3 DEF Succeeds, Fails, TimesOut
  <2>3. calls[d].sending
    BY <1>3 DEF Succeeds, Fails, TimesOut
  <2>4. /\ breakers'[c] = b
        /\ \A x \in Connectors \ {c} : breakers'[x] = breakers[x]
        /\ calls'[d] = Turn(c + 1, delivered)
        /\ \A e \in Dispatches \ {d} : calls'[e] = calls[e]
    BY <2>1, <2>2 DEF Becomes, Advance, SiemTypeOK
  <2>5. c \notin troubled => b.state = "closed" /\ c \in delivered
    BY <2>1, <2>2, <2>3, MethodsMove
  <2>6. calls[d].delivered \subseteq delivered
    BY <2>2
  <2>7. ASSUME NEW x \in Connectors \ troubled, calls'[d].at > x
        PROVE  x \in calls'[d].delivered
    <3>1. x = c \/ c > x
      BY <2>1, <2>4, <2>7 DEF Turn, Connectors
    <3>2. c > x => x \in calls[d].delivered
      OBVIOUS
    <3> QED BY <2>4, <2>5, <2>6, <3>1, <3>2 DEF Turn
  <2>8. ~calls'[d].sending
    BY <2>4 DEF Turn
  <2> QED BY <2>1, <2>4, <2>5, <2>7, <2>8
<1>4. ASSUME NEW c \in Connectors, ForceOpen(c) \/ ForceClose(c) \/ ResetBreaker(c)
      PROVE  CalmIsClosed' /\ FailuresIsolated'
  <2>1. /\ troubled' = troubled \cup {c} /\ up' = up /\ calls' = calls
        /\ \A x \in Connectors \ {c} : breakers'[x] = breakers[x]
    BY <1>4 DEF ForceOpen, ForceClose, ResetBreaker, Intervene, Becomes, SiemTypeOK
  <2> QED BY <2>1
<1>5. ASSUME NEW c \in Connectors, GoesDown(c) PROVE CalmIsClosed' /\ FailuresIsolated'
  <2>1. ASSUME NEW d \in Dispatches
        PROVE  /\ calls'[d].at = calls[d].at /\ calls'[d].delivered = calls[d].delivered
               /\ calls[d].at # c => calls'[d] = calls[d]
               /\ calls'[d].sending = calls[d].sending
    <3>1. calls[d] \in Call
      BY DEF SiemTypeOK
    <3>2. calls'[d] = IF calls[d].sending /\ calls[d].at = c
                      THEN [calls[d] EXCEPT !.lost = TRUE] ELSE calls[d]
      BY <1>5 DEF GoesDown
    <3> QED BY <3>1, <3>2 DEF Call
  <2>2. up' = up \ {c} /\ troubled' = troubled \cup {c} /\ breakers' = breakers
    BY <1>5 DEF GoesDown
  <2> QED BY <2>1, <2>2
<1>6. ASSUME NEW c \in Connectors, GoesUp(c) PROVE CalmIsClosed' /\ FailuresIsolated'
  BY <1>6 DEF GoesUp
<1>7. CASE Elapses
  <2>1. ASSUME NEW d \in Dispatches
        PROVE  /\ calls'[d].at = calls[d].at /\ calls'[d].delivered = calls[d].delivered
               /\ calls'[d].sending = calls[d].sending /\ calls'[d].lost = calls[d].lost
    <3>1. calls[d] \in Call
      BY DEF SiemTypeOK
    <3>2. calls'[d] = IF calls[d].sending /\ calls[d].ago < SendTimeout
                      THEN [calls[d] EXCEPT !.ago = calls[d].ago + 1] ELSE calls[d]
      BY <1>7, <3>1 DEF Elapses, Call
    <3> QED BY <3>1, <3>2 DEF Call
  <2>2. \A x \in Connectors : breakers'[x].state = breakers[x].state
    BY <1>7, MethodsMove DEF Elapses, SiemTypeOK
  <2> QED BY <1>7, <2>1, <2>2 DEF Elapses
<1>8. CASE UNCHANGED siemVars
  BY <1>8 DEF siemVars
<1> QED BY <1>1, <1>2, <1>3, <1>4, <1>5, <1>6, <1>7, <1>8 DEF SiemNext

-----------------------------------------------------------------------------
(* What the counters of a breaker stand for *)

\* One more outcome makes a run of at least one, and of one more than before
\* if it is the same again, up to StreakCap.
LEMMA LongerCounts ==
    ASSUME NEW run \in [ok : BOOLEAN, n : 0 .. StreakCap], NEW ok \in BOOLEAN,
           NEW k \in 0 .. StreakCap, k > 0 => run.ok = ok /\ run.n >= k,
           NEW m \in 1 .. StreakCap, m <= k + 1
    PROVE  Longer(run, ok).ok = ok /\ Longer(run, ok).n >= m
<1>1. StreakCap \in Nat \ {0}
  BY ThresholdAssumption DEF StreakCap
<1> QED BY <1>1 DEF Longer

\* The method called with an outcome leaves counters that the outcomes back, and
\* opens a closed breaker, or closes a half-open one, only at the threshold.
LEMMA FailureEarns ==
    ASSUME NEW b \in Breaker, NEW run \in [ok : BOOLEAN, n : 0 .. StreakCap], Earned(b, run)
    PROVE  /\ Earned(RecordFailure(b), Longer(run, FALSE))
           /\ b.state = "closed" /\ RecordFailure(b).state = "open" =>
                ~Longer(run, FALSE).ok /\ Longer(run, FALSE).n >= FailureThreshold
           /\ b.state = "half_open" => RecordFailure(b).state = "open"
<1> DEFINE count == IF b.failures < FailureThreshold THEN b.failures + 1 ELSE b.failures
           failed == [b EXCEPT !.failures = count, !.failedAgo = 0]
<1>1. /\ FailureThreshold \in 1 .. StreakCap /\ StreakCap \in Nat
      /\ b.state \in {"closed", "open", "half_open"}
      /\ b.failures \in 0 .. StreakCap
      /\ count \in 1 .. StreakCap /\ count <= b.failures + 1
  BY ThresholdAssumption DEF StreakCap, Breaker, States
<1>2. failed.state = b.state /\ failed.failures = count
  BY DEF Breaker
<1>3. /\ b.state = "half_open" => RecordFailure(b) = TransitionTo(failed, "open")
      /\ b.state = "closed" /\ count >= FailureThreshold =>
           RecordFailure(b) = TransitionTo(failed, "open")
      /\ b.state = "closed" /\ ~(count >= FailureThreshold) => RecordFailure(b) = failed
      /\ b.state = "open" => RecordFailure(b) = failed
  BY DEF RecordFailure
<1>4. failed.state # "open" => TransitionTo(failed, "open").state = "open"
  BY DEF TransitionTo, Breaker
<1>5. CASE b.state = "closed"
  <2>1. b.failures > 0 => run.ok = FALSE /\ run.n >= b.failures
    BY <1>5 DEF Earned
  <2>2. ~Longer(run, FALSE).ok /\ Longer(run, FALSE).n >= count
    BY <1>1, <2>1, LongerCounts
  <2>3. count >= FailureThreshold => Longer(run, FALSE).n >= FailureThreshold
    <3>1. Longer(run, FALSE).n \in Nat
      BY LongerTyped
    <3>2. count \in Nat /\ FailureThreshold \in Nat
      BY <1>1
    <3>3. Longer(run, FALSE).n >= count
      BY <2>2
    <3>4. ASSUME NEW x \in Nat, NEW y \in Nat, NEW z \in Nat, x >= y, y >= z PROVE x >= z
      BY <3>4
    <3> HIDE DEF count, failed
    <3> QED BY <3>1, <3>2, <3>3, <3>4
  <2> HIDE DEF failed, count
  <2> QED BY <1>2, <1>3, <1>4, <1>5, <2>2, <2>3 DEF Earned
<1>6. CASE b.state = "half_open"
  <2>1. RecordFailure(b).state = "open"
    BY <1>2, <1>3, <1>4, <1>6
  <2> QED BY <1>6, <2>1 DEF Earned
<1>7. CASE b.state = "open"
  <2> HIDE DEF failed, count
  <2> QED BY <1>2, <1>3, <1>7 DEF Earned
<1> QED BY <1>1, <1>5, <1>6, <1>7

LEMMA SuccessEarns ==
    ASSUME NEW b \in Breaker, NEW run \in [ok : BOOLEAN, n : 0 .. StreakCap], Earned(b, run)
    PROVE  /\ Earned(RecordSuccess(b), Longer(run, TRUE))
           /\ b.state = "half_open" /\ RecordSuccess(b).state = "closed" =>
                Longer(run, TRUE).ok /\ Longer(run, TRUE).n >= SuccessThreshold
<1> DEFINE counted == [b EXCEPT !.successes = @ + 1]
<1>1. /\ SuccessThreshold \in 1 .. SuccessThreshold
      /\ SuccessThreshold \in 1 .. StreakCap /\ StreakCap \in Nat
      /\ b.state \in {"closed", "open", "half_open"}
      /\ b.successes \in 0 .. SuccessThreshold
  BY ThresholdAssumption DEF StreakCap, Breaker, States
<1>2. counted.state = b.state /\ counted.successes = b.successes + 1
  BY DEF Breaker
<1>3. CASE b.state = "half_open"
  <2>1. RecordSuccess(b) = IF counted.successes >= SuccessThreshold
                           THEN TransitionTo(counted, "closed") ELSE counted
    BY <1>3 DEF RecordSuccess
  <2>2. TransitionTo(counted, "closed").failures = 0
        /\ TransitionTo(counted, "closed").state = "closed"
    BY <1>2, <1>3 DEF TransitionTo, Breaker
  <2>3. b.successes > 0 => run.ok = TRUE /\ run.n >= b.successes
    BY <1>3 DEF Earned
  <2>4. ASSUME NEW m \in 1 .. SuccessThreshold, m <= b.successes + 1
        PROVE  Longer(run, TRUE).ok /\ Longer(run, TRUE).n >= m
    <3>1. m \in 1 .. StreakCap /\ b.successes \in 0 .. StreakCap
      BY <1>1, ThresholdAssumption DEF StreakCap
    <3> QED BY <2>3, <2>4, <3>1, LongerCounts
  <2>5. CASE b.successes + 1 >= SuccessThreshold
    <3>1. Longer(run, TRUE).ok /\ Longer(run, TRUE).n >= SuccessThreshold
      BY <1>1, <2>4, <2>5
    <3>2. RecordSuccess(b) = TransitionTo(counted, "closed")
      BY <1>2, <2>1, <2>5
    <3>3. RecordSuccess(b).state = "closed" /\ RecordSuccess(b).failures = 0
      BY <2>2, <3>2
    <3> HIDE DEF counted
    <3>4. Earned(RecordSuccess(b), Longer(run, TRUE))
      BY <3>3 DEF Earned
    <3> QED BY <3>1, <3>4
  <2>6. CASE ~(b.successes + 1 >= SuccessThreshold)
    <3>1. b.successes + 1 \in 1 .. SuccessThreshold /\ b.successes + 1 <= b.successes + 1
      BY <1>1, <2>6
    <3>2. Longer(run, TRUE).ok /\ Longer(run, TRUE).n >= b.successes + 1
      BY <2>4, <3>1
    <3>3. RecordSuccess(b) = counted
      BY <1>2, <2>1, <2>6
    <3> HIDE DEF counted
    <3> QED BY <1>2, <1>3, <3>2, <3>3 DEF Earned
  <2> QED BY <2>5, <2>6
<1>4. CASE b.state = "closed"
  <2>1. RecordSuccess(b) = [b EXCEPT !.failures = 0]
    BY <1>4 DEF RecordSuccess
  <2>2. RecordSuccess(b).state = "closed" /\ RecordSuccess(b).failures = 0
    BY <1>4, <2>1 DEF Breaker
  <2> QED BY <1>4, <2>2 DEF Earned
<1>5. CASE b.state = "open"
  BY <1>5 DEF RecordSuccess, Earned
<1> QED BY <1>1, <1>3, <1>4, <1>5

\* The methods that record nothing forget what they do not keep.
LEMMA TransitionsEarn ==
    ASSUME NEW b \in Breaker, NEW run, Earned(b, run)
    PROVE  /\ Earned(New, run)
           /\ \A s \in States : Earned(TransitionTo(b, s), run)
           /\ Earned(MaybeHalfOpen(b), run)
           /\ Earned(Elapse(b), run)
<1>1. ASSUME NEW s \in States PROVE Earned(TransitionTo(b, s), run)
  BY DEF TransitionTo, Earned, Breaker, States
<1>2. Earned(New, run)
  BY DEF New, Earned
<1>3. Earned(Elapse(b), run)
  BY DEF Elapse, Earned, Breaker
<1> QED BY <1>1, <1>2, <1>3 DEF MaybeHalfOpen, States

\* What a step makes of one connector's breaker and its run of outcomes.
EarnsAndKeeps(c) ==
    /\ Earned(breakers'[c], streak'[c])
    /\ breakers[c].state = "closed" /\ breakers'[c].state = "open" /\ forced' = forced
         => ~streak'[c].ok /\ streak'[c].n >= FailureThreshold
    /\ breakers[c].state = "half_open" /\ breakers'[c].state = "closed" /\ forced' = forced
         => streak'[c].ok /\ streak'[c].n >= SuccessThreshold

LEMMA EarnStep ==
    ASSUME SiemTypeOK, CountsEarned, [SiemNext]_siemVars
    PROVE  \A c \in Connectors : EarnsAndKeeps(c)
<1>0. ASSUME NEW x \in Connectors
      PROVE  /\ breakers[x] \in Breaker /\ breakers[x].state \in States
             /\ streak[x] \in [ok : BOOLEAN, n : 0 .. StreakCap]
             /\ Earned(breakers[x], streak[x])
  BY DEF SiemTypeOK, CountsEarned, Breaker
<1>1. ASSUME NEW x \in Connectors, breakers'[x] = breakers[x], streak'[x] = streak[x]
      PROVE  EarnsAndKeeps(x)
  BY <1>0, <1>1 DEF EarnsAndKeeps
<1>2. ASSUME NEW d \in Dispatches, Send(d) PROVE \A x \in Connectors : EarnsAndKeeps(x)
  <2> DEFINE c == calls[d].at
  <2>1. /\ c \in Connectors /\ streak' = streak
        /\ breakers'[c] = MaybeHalfOpen(breakers[c])
        /\ \A x \in Connectors \ {c} : breakers'[x] = breakers[x]
    BY <1>2 DEF Send, Admit, Becomes, SiemTypeOK
  <2>2. EarnsAndKeeps(c)
    <3>1. Earned(MaybeHalfOpen(breakers[c]), streak[c])
      BY <2>1, <1>0, TransitionsEarn
    <3>2. \/ MaybeHalfOpen(breakers[c]) = breakers[c]
          \/ breakers[c].state = "open"
      BY DEF MaybeHalfOpen
    <3> QED BY <2>1, <3>1, <3>2 DEF EarnsAndKeeps
  <2> QED BY <1>1, <2>1, <2>2
<1>3. ASSUME NEW d \in Dispatches, Succeeds(d) PROVE \A x \in Connectors : EarnsAndKeeps(x)
  <2> DEFINE c == calls[d].at
  <2>1. c \in Connectors /\ Recorded(c, TRUE)
    BY <1>3 DEF Succeeds, SiemTypeOK
  <2>2. /\ breakers'[c] = RecordSuccess(breakers[c])
        /\ \A x \in Connectors \ {c} : breakers'[x] = breakers[x]
    BY <1>3, <2>1 DEF Succeeds, Becomes, SiemTypeOK
  <2>3. /\ streak'[c] = Longer(streak[c], TRUE)
        /\ \A x \in Connectors \ {c} : streak'[x] = streak[x]
    BY <2>1, RecordedTyped
  <2>4. EarnsAndKeeps(c)
    <3>1. breakers[c].state = "closed" => breakers'[c].state = "closed"
      BY <2>1, <2>2, <1>0, MethodsMove
    <3>2. /\ Earned(breakers'[c], streak'[c])
          /\ breakers[c].state = "half_open" /\ breakers'[c].state = "closed" =>
               streak'[c].ok /\ streak'[c].n >= SuccessThreshold
      <4>1. /\ breakers[c] \in Breaker
            /\ streak[c] \in [ok : BOOLEAN, n : 0 .. StreakCap]
            /\ Earned(breakers[c], streak[c])
        BY <2>1, <1>0
      <4>2. /\ Earned(RecordSuccess(breakers[c]), Longer(streak[c], TRUE))
            /\ breakers[c].state = "half_open" /\ RecordSuccess(breakers[c]).state = "closed" =>
                 Longer(streak[c], TRUE).ok /\ Longer(streak[c], TRUE).n >= SuccessThreshold
        BY <4>1, SuccessEarns
      <4> QED BY <2>2, <2>3, <4>2
    <3> QED BY <3>1, <3>2 DEF EarnsAndKeeps
  <2> QED BY <1>1, <2>2, <2>3, <2>4
<1>4. ASSUME NEW d \in Dispatches, Fails(d) \/ TimesOut(d)
      PROVE  \A x \in Connectors : EarnsAndKeeps(x)
  <2> DEFINE c == calls[d].at
  <2>1. c \in Connectors /\ Recorded(c, FALSE)
    BY <1>4 DEF Fails, TimesOut, SiemTypeOK
  <2>2. /\ breakers'[c] = RecordFailure(breakers[c])
        /\ \A x \in Connectors \ {c} : breakers'[x] = breakers[x]
    BY <1>4, <2>1 DEF Fails, TimesOut, Becomes, SiemTypeOK
  <2>3. /\ streak'[c] = Longer(streak[c], FALSE)
        /\ \A x \in Connectors \ {c} : streak'[x] = streak[x]
    BY <2>1, RecordedTyped
  <2>4. EarnsAndKeeps(c)
    <3>1. /\ breakers[c] \in Breaker
          /\ streak[c] \in [ok : BOOLEAN, n : 0 .. StreakCap]
          /\ Earned(breakers[c], streak[c])
      BY <2>1, <1>0
    <3>2. /\ Earned(RecordFailure(breakers[c]), Longer(streak[c], FALSE))
          /\ breakers[c].state = "closed" /\ RecordFailure(breakers[c]).state = "open" =>
               ~Longer(streak[c], FALSE).ok /\ Longer(streak[c], FALSE).n >= FailureThreshold
          /\ breakers[c].state = "half_open" => RecordFailure(breakers[c]).state = "open"
      BY <3>1, FailureEarns
    <3> QED BY <2>2, <2>3, <3>2 DEF EarnsAndKeeps
  <2> QED BY <1>1, <2>2, <2>3, <2>4
<1>5. ASSUME NEW c \in Connectors, ForceOpen(c) \/ ForceClose(c) \/ ResetBreaker(c)
      PROVE  \A x \in Connectors : EarnsAndKeeps(x)
  <2>1. PICK b \in {TransitionTo(breakers[c], "open"), TransitionTo(breakers[c], "closed"), New} :
          Intervene(c, b)
    BY <1>5 DEF ForceOpen, ForceClose, ResetBreaker
  <2>2. /\ breakers'[c] = b /\ streak' = streak /\ forced' # forced
        /\ \A x \in Connectors \ {c} : breakers'[x] = breakers[x]
    BY <2>1 DEF Intervene, Becomes, SiemTypeOK
  <2>3. Earned(b, streak[c])
    BY <1>0, TransitionsEarn DEF States
  <2>4. EarnsAndKeeps(c)
    BY <2>2, <2>3 DEF EarnsAndKeeps
  <2> QED BY <1>1, <2>2, <2>4
<1>6. CASE Elapses
  <2>1. ASSUME NEW c \in Connectors PROVE EarnsAndKeeps(c)
    <3>1. breakers'[c] = Elapse(breakers[c]) /\ streak' = streak
      BY <1>6 DEF Elapses
    <3>2. breakers'[c].state = breakers[c].state
      BY <3>1, <1>0, MethodsMove
    <3>3. Earned(breakers'[c], streak'[c])
      BY <3>1, <1>0, TransitionsEarn
    <3> QED BY <3>2, <3>3 DEF EarnsAndKeeps
  <2> QED BY <2>1
<1>7. CASE \/ \E d \in Dispatches : BeginDispatch(d)
           \/ \E c \in Connectors : GoesDown(c) \/ GoesUp(c)
           \/ UNCHANGED siemVars
  <2>1. UNCHANGED <<breakers, streak>>
    BY <1>7 DEF BeginDispatch, GoesDown, GoesUp, siemVars
  <2> QED BY <1>1, <2>1
<1> QED BY <1>2, <1>3, <1>4, <1>5, <1>6, <1>7 DEF SiemNext

-----------------------------------------------------------------------------
(* Theorems *)

\* The inductive invariant holds at the start ...
LEMMA InitInv == SiemInit => SiemInv
<1> SUFFICES ASSUME SiemInit PROVE SiemInv
  OBVIOUS
<1>1. SiemTypeOK
  <2>1. 0 \in 0 .. N + 1 /\ 0 \in TripAges /\ 0 \in 0 .. StreakCap
    BY SiemAssumption, TimeoutAssumption, ThresholdAssumption DEF TripAges, StreakCap
  <2>2. New \in Breaker
    BY ThresholdAssumption, TimeoutAssumption DEF New, Breaker, States, TripAges
  <2> QED BY <2>1, <2>2, TurnTyped DEF SiemInit, SiemTypeOK
<1>2. ClockBehind /\ TripLasts
  BY DEF SiemInit, ClockBehind, TripLasts, New
<1>3. CalmIsClosed /\ FailuresIsolated
  BY SiemAssumption DEF SiemInit, CalmIsClosed, FailuresIsolated, New, Turn, Connectors
<1>4. CountsEarned
  BY DEF SiemInit, CountsEarned, Earned, New
<1> QED BY <1>1, <1>2, <1>3, <1>4 DEF SiemInv

\* ... and every step preserves it.
LEMMA NextInv == SiemInv /\ [SiemNext]_siemVars => SiemInv'
BY TypeStep, ClockStep, CalmStep, EarnStep DEF SiemInv, CountsEarned, EarnsAndKeeps

\* So it always holds.
THEOREM Invariance == SiemSpec => []SiemInv
BY InitInv, NextInv, PTL DEF SiemSpec

\* The breakers and the dispatches that share them keep their types.
THEOREM TypeCorrect == SiemSpec => []SiemTypeOK
BY Invariance, PTL DEF SiemInv

\* Failures keep a breaker open for timeout_seconds at least.
THEOREM TripsLast == SiemSpec => []TripLasts
BY Invariance, PTL DEF SiemInv

\* What happens to other services costs a service that stays up no event.
THEOREM Isolation == SiemSpec => []FailuresIsolated
BY Invariance, PTL DEF SiemInv

\* Nothing but a run of FailureThreshold failed sends, or an operator, opens a
\* closed breaker, however the dispatches interleave.
THEOREM TripsOnlyOnFailures == SiemSpec => TripsOnFailures
<1>1. SiemInv /\ [SiemNext]_siemVars =>
        [\A c \in Connectors :
           breakers[c].state = "closed" /\ breakers'[c].state = "open" /\ forced' = forced
             => ~streak'[c].ok /\ streak'[c].n >= FailureThreshold]_siemVars
  BY EarnStep DEF SiemInv, EarnsAndKeeps
<1> QED BY <1>1, Invariance, PTL DEF SiemSpec, TripsOnFailures

\* Nothing but a run of SuccessThreshold sends that succeeded, or an operator,
\* closes a half-open breaker.
THEOREM ClosesOnlyOnSuccesses == SiemSpec => ClosesOnSuccesses
<1>1. SiemInv /\ [SiemNext]_siemVars =>
        [\A c \in Connectors :
           breakers[c].state = "half_open" /\ breakers'[c].state = "closed" /\ forced' = forced
             => streak'[c].ok /\ streak'[c].n >= SuccessThreshold]_siemVars
  BY EarnStep DEF SiemInv, EarnsAndKeeps
<1> QED BY <1>1, Invariance, PTL DEF SiemSpec, ClosesOnSuccesses
=============================================================================
