---------------------------- MODULE SiemDispatch ----------------------------
(***************************************************************************)
(* SIEMDispatcher: events sent to every configured connector in turn, each *)
(* send with a timeout and behind the connector's circuit breaker, which   *)
(* concurrent dispatches share.  A send suspends only inside wait_for, so  *)
(* what comes before and after it is one step each.                        *)
(***************************************************************************)
EXTENDS CircuitBreaker

CONSTANTS
    N,              \* how many connectors are configured, in the order 1 .. N
    Dispatches,     \* concurrent calls of dispatch
    SendTimeout,    \* SIEM_SEND_TIMEOUT_SECONDS
    MaxForced       \* bound: how often an operator intervenes

ASSUME SiemAssumption ==
    N \in Nat \ {0} /\ SendTimeout \in Nat \ {0} /\ MaxForced \in Nat

Connectors == 1 .. N

VARIABLES
    breakers,   \* each connector's circuit breaker
    calls,      \* where each dispatch is
    up,         \* the services that answer
    troubled,   \* history: services that were down, or whose breaker was forced
    opened,     \* history: what opened the breaker and how long ago
    streak,     \* history: the last outcomes recorded, as a run of equal ones
    forced      \* history: how often an operator intervened

siemVars == <<breakers, calls, up, troubled, opened, streak, forced>>

StreakCap == IF FailureThreshold > SuccessThreshold THEN FailureThreshold ELSE SuccessThreshold

Call == [at        : 0 .. N + 1,    \* the connector whose turn it is; N + 1 when done
         sending   : BOOLEAN,       \* inside wait_for
         ago       : 0 .. SendTimeout,
         lost      : BOOLEAN,       \* was the service down while this send waited?
         delivered : SUBSET Connectors]

\* A dispatch about to turn to connector n.
Turn(n, delivered) ==
    [at |-> n, sending |-> FALSE, ago |-> 0, lost |-> FALSE, delivered |-> delivered]

\* It now waits for that connector, which may be down.
Waiting(call, down) == [call EXCEPT !.sending = TRUE, !.lost = down]

SiemTypeOK ==
    /\ breakers \in [Connectors -> Breaker]
    /\ calls \in [Dispatches -> Call]
    /\ \A d \in Dispatches : calls[d].sending => calls[d].at \in Connectors
    /\ up \subseteq Connectors
    /\ troubled \subseteq Connectors
    /\ opened \in [Connectors -> [by : {"no", "failures", "operator"}, ago : TripAges]]
    /\ streak \in [Connectors -> [ok : BOOLEAN, n : 0 .. StreakCap]]
    /\ forced \in Nat

SiemInit ==
    /\ breakers = [c \in Connectors |-> New]
    /\ calls = [d \in Dispatches |-> Turn(0, {})]
    /\ up = Connectors
    /\ troubled = {}
    /\ opened = [c \in Connectors |-> [by |-> "no", ago |-> 0]]
    /\ streak = [c \in Connectors |-> [ok |-> TRUE, n |-> 0]]
    /\ forced = 0

-----------------------------------------------------------------------------
\* Connector c's breaker becomes b; "by" is what would have opened it.
Becomes(c, b, by) ==
    /\ breakers' = [breakers EXCEPT ![c] = b]
    /\ opened' = [opened EXCEPT ![c] =
         IF b.state = "closed" THEN [by |-> "no", ago |-> 0]
         ELSE IF b.state = "open" /\ breakers[c].state # "open" THEN [by |-> by, ago |-> 0]
         ELSE @]

\* One more outcome lengthens a run of equal ones, or starts a new one.
Longer(run, ok) ==
    [ok |-> ok,
     n  |-> IF ok # run.ok THEN 1 ELSE IF run.n < StreakCap THEN run.n + 1 ELSE run.n]

Recorded(c, ok) == streak' = [streak EXCEPT ![c] = Longer(@, ok)]

\* The loop goes on to the next connector.
Advance(d, delivered) ==
    calls' = [calls EXCEPT ![d] = Turn(calls[d].at + 1, delivered)]

\* An event is handed to dispatch.
BeginDispatch(d) ==
    /\ calls[d].at \in {0, N + 1}
    /\ calls' = [calls EXCEPT ![d] = Turn(1, {})]
    /\ UNCHANGED <<breakers, up, troubled, opened, streak, forced>>

\* Mutant of Admit: the refusal is raised inside the try block, and recorded.
AdmitCountingRefusals(b) ==
    LET now == MaybeHalfOpen(b) IN IF now.state = "open" THEN RecordFailure(now) ELSE now

\* What send makes of the breaker before it sends.
Admit(b) == MaybeHalfOpen(b)

\* send, up to wait_for.  An open breaker refuses: dispatch catches the
\* CircuitBreakerError and goes on.
Send(d) ==
    LET c == calls[d].at
        b == Admit(breakers[c])
    IN  /\ c \in Connectors /\ ~calls[d].sending
        /\ Becomes(c, b, "failures")
        /\ \/ b.state = "open" /\ Advance(d, calls[d].delivered)
           \/ b.state # "open"
              /\ calls' = [calls EXCEPT ![d] = Waiting(@, c \notin up)]
        /\ UNCHANGED <<up, troubled, streak, forced>>

\* The service answers in time.
Succeeds(d) ==
    LET c == calls[d].at IN
    /\ calls[d].sending /\ c \in up
    /\ Becomes(c, RecordSuccess(breakers[c]), "failures")
    /\ Recorded(c, TRUE)
    /\ Advance(d, calls[d].delivered \cup {c})
    /\ UNCHANGED <<up, troubled, forced>>

\* Mutant of Fails: dispatch does not catch the exception, and ends.
FailsWholeDispatch(d) ==
    LET c == calls[d].at IN
    /\ calls[d].sending /\ calls[d].lost
    /\ Becomes(c, RecordFailure(breakers[c]), "failures")
    /\ Recorded(c, FALSE)
    /\ calls' = [calls EXCEPT ![d] = Turn(N + 1, calls[d].delivered)]
    /\ UNCHANGED <<up, troubled, forced>>

\* It answers with an error, or the connection breaks: send raises, and dispatch
\* logs the exception and goes on.
Fails(d) ==
    LET c == calls[d].at IN
    /\ calls[d].sending /\ calls[d].lost
    /\ Becomes(c, RecordFailure(breakers[c]), "failures")
    /\ Recorded(c, FALSE)
    /\ Advance(d, calls[d].delivered)
    /\ UNCHANGED <<up, troubled, forced>>

\* Mutant of TimesOut: wait_for has no timeout.
TimesOutNever(d) ==
    /\ calls[d].sending /\ calls[d].ago > SendTimeout
    /\ UNCHANGED siemVars

\* wait_for gives up: send returns False.
TimesOut(d) ==
    LET c == calls[d].at IN
    /\ calls[d].sending /\ calls[d].lost /\ calls[d].ago = SendTimeout
    /\ Becomes(c, RecordFailure(breakers[c]), "failures")
    /\ Recorded(c, FALSE)
    /\ Advance(d, calls[d].delivered)
    /\ UNCHANGED <<up, troubled, forced>>

\* force_open, force_close and reset, called by an operator.
Intervene(c, b) ==
    /\ forced < MaxForced
    /\ forced' = forced + 1
    /\ Becomes(c, b, "operator")
    /\ troubled' = troubled \cup {c}
    /\ UNCHANGED <<calls, up, streak>>

ForceOpen(c) == Intervene(c, TransitionTo(breakers[c], "open"))

ForceClose(c) == Intervene(c, TransitionTo(breakers[c], "closed"))

ResetBreaker(c) == Intervene(c, New)

\* A service stops answering; the sends waiting for it may now fail.
GoesDown(c) ==
    /\ c \in up
    /\ up' = up \ {c}
    /\ troubled' = troubled \cup {c}
    /\ calls' = [d \in Dispatches |->
         IF calls[d].sending /\ calls[d].at = c THEN [calls[d] EXCEPT !.lost = TRUE]
         ELSE calls[d]]
    /\ UNCHANGED <<breakers, opened, streak, forced>>

GoesUp(c) ==
    /\ c \notin up
    /\ up' = up \cup {c}
    /\ UNCHANGED <<breakers, calls, troubled, opened, streak, forced>>

Elapses ==
    /\ breakers' = [c \in Connectors |-> Elapse(breakers[c])]
    /\ opened' = [c \in Connectors |->
         IF opened[c].by = "no" THEN opened[c] ELSE [opened[c] EXCEPT !.ago = NextAge(@)]]
    /\ calls' = [d \in Dispatches |->
         IF calls[d].sending /\ calls[d].ago < SendTimeout
         THEN [calls[d] EXCEPT !.ago = @ + 1] ELSE calls[d]]
    /\ UNCHANGED <<up, troubled, streak, forced>>

SiemNext ==
    \/ Elapses
    \/ \E d \in Dispatches : BeginDispatch(d) \/ Send(d) \/ Succeeds(d) \/ Fails(d) \/ TimesOut(d)
    \/ \E c \in Connectors :
         GoesDown(c) \/ GoesUp(c) \/ ForceOpen(c) \/ ForceClose(c) \/ ResetBreaker(c)

SiemSpec == SiemInit /\ [][SiemNext]_siemVars

\* The event loop runs what is ready and its timers, a service that is up
\* answers, and there are always more events.
SiemFairness ==
    /\ WF_siemVars(Elapses)
    /\ \A d \in Dispatches :
         /\ WF_siemVars(BeginDispatch(d)) /\ WF_siemVars(Send(d))
         /\ WF_siemVars(Succeeds(d) \/ TimesOut(d))

SiemFairSpec == SiemSpec /\ SiemFairness

-----------------------------------------------------------------------------
(* Properties *)

\* A breaker that failures opened admits nothing before timeout_seconds are over,
\* also when failures of sends from before keep arriving.
TripLasts ==
    \A c \in Connectors :
        breakers[c].state = "half_open" /\ opened[c].by = "failures" => opened[c].ago = Timeout

\* circuit_breaker.py:9 "OPEN: Service is failing, requests fail immediately" and
\* :204 "Force circuit breaker to open (for maintenance)": the same of a breaker an
\* operator opened.
ForcedOpenLasts ==
    \A c \in Connectors :
        breakers[c].state = "half_open" /\ opened[c].by = "operator" => opened[c].ago = Timeout

\* Only FailureThreshold failures with no success between them open a closed
\* breaker: of sends to that connector, whichever dispatches they belong to.
TripsOnFailures ==
    [][\A c \in Connectors :
         breakers[c].state = "closed" /\ breakers'[c].state = "open" /\ forced' = forced
           => ~streak'[c].ok /\ streak'[c].n >= FailureThreshold]_siemVars

\* Only SuccessThreshold successes with no failure between them close a half-open
\* one, though several sends are in flight and may answer in any order.
ClosesOnSuccesses ==
    [][\A c \in Connectors :
         breakers[c].state = "half_open" /\ breakers'[c].state = "closed" /\ forced' = forced
           => streak'[c].ok /\ streak'[c].n >= SuccessThreshold]_siemVars

\* A service that is never down gets every event, whatever the services before
\* and after it in the loop do.
FailuresIsolated ==
    \A c \in Connectors \ troubled, d \in Dispatches :
        calls[d].at > c => c \in calls[d].delivered

\* A dispatch comes to its end though services hang.
DispatchEnds ==
    \A d \in Dispatches : calls[d].at \in Connectors ~> calls[d].at = N + 1

\* Once a service stays up its breaker closes for good.
Recovers ==
    \A c \in Connectors : <>[](c \in up) => <>[](breakers[c].state = "closed")

-----------------------------------------------------------------------------
(* The inductive invariant behind the theorems of SiemDispatchProofs *)

\* The code's own clock of an open breaker, failedAgo, never runs ahead of opened.
ClockBehind ==
    \A c \in Connectors :
        /\ opened[c].by = "no" <=> breakers[c].state = "closed"
        /\ breakers[c].state = "open" /\ opened[c].by = "failures" =>
             breakers[c].failedAgo \in Nat /\ breakers[c].failedAgo <= opened[c].ago

\* A service without trouble is up, its breaker is closed and no send to it is lost.
CalmIsClosed ==
    \A c \in Connectors \ troubled :
        /\ c \in up
        /\ breakers[c].state = "closed"
        /\ \A d \in Dispatches : calls[d].sending /\ calls[d].at = c => ~calls[d].lost

\* What a breaker has counted since it closed, or became half-open, is backed by
\* the outcomes of its sends.
Earned(b, run) ==
    /\ b.state = "closed" /\ b.failures > 0 => ~run.ok /\ run.n >= b.failures
    /\ b.state = "half_open" /\ b.successes > 0 => run.ok /\ run.n >= b.successes

CountsEarned == \A c \in Connectors : Earned(breakers[c], streak[c])

SiemInv ==
    SiemTypeOK /\ ClockBehind /\ TripLasts /\ CalmIsClosed /\ FailuresIsolated /\ CountsEarned
=============================================================================
