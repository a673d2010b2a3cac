----------------------------- MODULE RateLimiter -----------------------------
(***************************************************************************)
(* SlidingWindowRateLimiter, and the clients of POST /execute that ask it. *)
(* is_allowed never awaits while it holds self._lock: it is one step.      *)
(*                                                                         *)
(* Time is counted in units of which Second make a second, and a timestamp *)
(* is kept as its age.  An age stops at Window, where the code drops it.   *)
(* Nothing depends on the order of a list of timestamps: it is the set of  *)
(* them, each with its age.                                                *)
(***************************************************************************)
EXTENDS Integers, FiniteSets, FiniteSetsExt, Functions

CONSTANTS
    Keys,       \* session ids
    Clients,
    Stamps,     \* what tells one recorded timestamp of a key from another
    RequestsPerWindow,  \* requests_per_window
    Window,     \* window_seconds, in units
    Second,     \* units in a second
    NoKey

ASSUME LimitAssumption  == RequestsPerWindow \in Nat \ {0}
ASSUME WindowAssumption == Window \in Nat \ {0} /\ Second \in Nat \ {0}
ASSUME NoKeyAssumption  == NoKey \notin Keys
\* There is another when the limit is reached.
ASSUME StampsAssumption ==
    \A S \in SUBSET Stamps : IsFiniteSet(S) /\ Cardinality(S) <= RequestsPerWindow => S # Stamps

VARIABLES
    requests,   \* self._requests: the ages of the requests recorded for each key
    admitted,   \* history: the ages, below Window, of those a key was allowed
    refusal     \* history: what each client was last told, and when

limiterVars == <<requests, admitted, refusal>>

Ages == 0 .. Window

\* The longest wait a client can be told, and one second more.
MaxWait == Window + Second

\* "alone": nothing was allowed on the key since, nor was it reset.
Refusal == [key : Keys \cup {NoKey}, told : 0 .. Window, waited : 0 .. MaxWait,
            alone : BOOLEAN]

\* Some timestamps, each with its age.
Times(ages) == UNION {[S -> ages] : S \in {T \in SUBSET Stamps : IsFiniteSet(T)}}

LimiterTypeOK ==
    /\ requests \in [Keys -> Times(Ages)]
    /\ admitted \in [Keys -> Times(Ages \ {Window})]
    /\ refusal \in [Clients -> Refusal]

NoTimes == [s \in {} |-> 0]

NotRefused == [key |-> NoKey, told |-> 0, waited |-> 0, alone |-> FALSE]

LimiterInit ==
    /\ requests = [k \in Keys |-> NoTimes]
    /\ admitted = [k \in Keys |-> NoTimes]
    /\ refusal = [c \in Clients |-> NotRefused]

-----------------------------------------------------------------------------
\* The requests of the last window_seconds: t > window_start.
Fresh(times) == RestrictValues(times, LAMBDA age : age < Window)

\* Mutant of RetryAfter: counted from the newest request.
RetryAfterNewest(times) == (Window - Min(Range(times))) \div Second

\* int(oldest + window_seconds - now)
RetryAfter(times) == (Window - Max(Range(times))) \div Second

\* Nobody whose key is in K can go on to count on its refusal.
Disturb(K) == [c \in Clients |->
    IF refusal[c].key \in K THEN [refusal[c] EXCEPT !.alone = FALSE] ELSE refusal[c]]

\* Now.
NewStamp(k) == CHOOSE s \in Stamps : s \notin DOMAIN requests[k] \cup DOMAIN admitted[k]

With(times, s) == [t \in DOMAIN times \cup {s} |-> IF t = s THEN 0 ELSE times[t]]

Allow(c, k, times) ==
    /\ requests' = [requests EXCEPT ![k] = With(times, NewStamp(k))]
    /\ admitted' = [admitted EXCEPT ![k] = With(admitted[k], NewStamp(k))]
    /\ refusal' = [Disturb({k}) EXCEPT ![c] = NotRefused]

\* Mutant of Refuse: a refused request counts too, in place of the oldest.
RefuseCounting(c, k, times) ==
    /\ requests' = [requests EXCEPT ![k] =
         With(times, CHOOSE s \in DOMAIN times : times[s] = Max(Range(times)))]
    /\ refusal' = [refusal EXCEPT ![c] =
         [key |-> k, told |-> RetryAfter(times), waited |-> 0, alone |-> TRUE]]
    /\ UNCHANGED admitted

Refuse(c, k, times) ==
    /\ requests' = [requests EXCEPT ![k] = times]
    /\ refusal' = [refusal EXCEPT ![c] =
         [key |-> k, told |-> RetryAfter(times), waited |-> 0, alone |-> TRUE]]
    /\ UNCHANGED admitted

\* Mutant of Full: one request too many.
FullAbove(times) == Cardinality(DOMAIN times) > RequestsPerWindow

Full(times) == Cardinality(DOMAIN times) >= RequestsPerWindow

\* is_allowed, called by the handler of POST /execute.
Ask(c, k) ==
    LET times == Fresh(requests[k]) IN
    IF Full(times) THEN Refuse(c, k, times) ELSE Allow(c, k, times)

\* reset and reset_all
Reset(K) ==
    /\ requests' = [k \in Keys |-> IF k \in K THEN NoTimes ELSE requests[k]]
    /\ admitted' = [k \in Keys |-> IF k \in K THEN NoTimes ELSE admitted[k]]
    /\ refusal' = Disturb(K)

Later(times) ==
    [s \in DOMAIN times |-> IF times[s] < Window THEN times[s] + 1 ELSE times[s]]

\* What a client was told stays true of its key.
Waits(r) == IF r.key = NoKey \/ r.waited = MaxWait THEN r ELSE [r EXCEPT !.waited = @ + 1]

Tick ==
    /\ requests' = [k \in Keys |-> Later(requests[k])]
    /\ admitted' = [k \in Keys |-> Fresh(Later(admitted[k]))]
    /\ refusal' = [c \in Clients |-> Waits(refusal[c])]

LimiterNext ==
    \/ Tick
    \/ \E c \in Clients, k \in Keys : Ask(c, k)
    \/ \E k \in Keys : Reset({k})
    \/ Reset(Keys)

LimiterSpec == LimiterInit /\ [][LimiterNext]_limiterVars

\* Time passes, and each session is used again and again.
LimiterFairness == WF_limiterVars(Tick) /\ \A k \in Keys : WF_limiterVars(\E c \in Clients : Ask(c, k))

LimiterFairSpec == LimiterSpec /\ LimiterFairness

-----------------------------------------------------------------------------
(* Properties *)

\* No key is allowed more than RequestsPerWindow requests within any window, unless it is reset.
WindowRespected == \A k \in Keys : Cardinality(DOMAIN admitted[k]) <= RequestsPerWindow

\* What Retry-After tells a client is right to the second: before that time it is
\* refused again, and a second later it is allowed, if no other request took the
\* place.  int() truncates, so a client that waits no longer than told may fail.
RetryAfterRight ==
    [][\A c \in Clients, k \in Keys :
         Ask(c, k) /\ refusal[c].key = k /\ refusal[c].alone =>
           /\ refusal[c].waited < refusal[c].told * Second => UNCHANGED admitted
           /\ refusal[c].waited >= (refusal[c].told + 1) * Second =>
                DOMAIN admitted[k] \subseteq DOMAIN admitted'[k]
                /\ DOMAIN admitted'[k] # DOMAIN admitted[k]]_limiterVars

\* A session whose clients never stop asking is served again and again: refusals
\* cost it nothing.
SessionServed ==
    \A k \in Keys : []<>(\E s \in DOMAIN admitted[k] : admitted[k][s] = 0)

-----------------------------------------------------------------------------
(* The inductive invariant behind the theorems of SecurityProofs *)

\* No more than the limit is recorded.
WithinLimit == \A k \in Keys : Cardinality(DOMAIN requests[k]) <= RequestsPerWindow

\* The limiter forgets nothing that counts: what a key was allowed within the window
\* is what is recorded for it and still counts.
AdmittedRecorded == \A k \in Keys : admitted[k] = Fresh(requests[k])

\* While nobody disturbs a refusal, nothing that counted then has gone before the time
\* that was told; and the oldest of it is gone, or goes within a second of that time.
Stands(r, times) ==
    /\ r.told * Second <= Window
    /\ r.waited < r.told * Second =>
         /\ Full(times)
         /\ \A s \in DOMAIN times : times[s] + r.told * Second <= Window + r.waited
    /\ \/ ~Full(Fresh(times))
       \/ \E s \in DOMAIN times :
            Window + r.waited < times[s] + (r.told + 1) * Second /\ times[s] < Window

RefusalStands ==
    \A c \in Clients :
      refusal[c].key # NoKey /\ refusal[c].alone => Stands(refusal[c], requests[refusal[c].key])

LimiterInv == LimiterTypeOK /\ WithinLimit /\ AdmittedRecorded /\ RefusalStands
=============================================================================
