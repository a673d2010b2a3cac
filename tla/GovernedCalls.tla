---------------------------- MODULE GovernedCalls ----------------------------
(***************************************************************************)
(* What an execution fabric promises those who call tools through it,      *)
(* however its handlers overlap and its ports fail: sessions end by        *)
(* themselves and for good; a call is judged once, by all policies in      *)
(* force at one moment; what then runs is registered and is the tool asked *)
(* for or one that humans taught for such an intent; and the trail tells   *)
(* what became of the call.                                                *)
(***************************************************************************)
CONSTANTS
    Sessions, Tools, Policies, Intents, Requests,
    Relevant,   \* the policies that calls are judged by
    Denied,     \* Denied[p]: the tools p denies
    Close,      \* the pairs of intents one of which may be taken for the other
    ShadowMode, \* tools are never replaced
    NoTool, NoSession, NoIntent

VARIABLES
    session,    \* none, live or over
    registered, \* tools
    inForce,    \* policies
    taught,     \* <<tool, intent>>
    call,       \* how far each request has come
    trail       \* the record of all calls

world    == <<session, registered, inForce, taught>>
governed == <<world, call, trail>>

NoCall == [status |-> "new", session |-> NoSession, asked |-> NoTool, intent |-> NoIntent,
           ran |-> NoTool, answer |-> "none"]

Init ==
    /\ session = [s \in Sessions |-> "none"]
    /\ registered = {} /\ inForce = {} /\ taught = {} /\ trail = {}
    /\ call = [r \in Requests |-> NoCall]

-----------------------------------------------------------------------------
(* What calls depend on *)

Open(s) ==
    /\ session[s] = "none"
    /\ session' = [session EXCEPT ![s] = "live"]
    /\ UNCHANGED <<registered, inForce, taught, call, trail>>

EndSessions ==
    /\ \E S \in SUBSET {s \in Sessions : session[s] = "live"} :
         session' = [s \in Sessions |-> IF s \in S THEN "over" ELSE session[s]]
    /\ UNCHANGED <<registered, inForce, taught, call, trail>>

Register(t) ==
    /\ registered' = registered \cup {t}
    /\ UNCHANGED <<session, inForce, taught, call, trail>>

ChangePolicies(P) ==
    /\ inForce' = P
    /\ UNCHANGED <<session, registered, taught, call, trail>>

Teach(t, i) ==
    /\ taught' = taught \cup {<<t, i>>}
    /\ UNCHANGED <<session, registered, inForce, call, trail>>

-----------------------------------------------------------------------------
(* A call *)

Is(r, status) == call[r].status = status

Goes(r, status) == call' = [call EXCEPT ![r].status = status]

Ends(r, answer) ==
    call' = [call EXCEPT ![r] = [@ EXCEPT !.status = "failed", !.answer = answer]]

Ask(r, s, t, i) ==
    /\ Is(r, "new")
    /\ call' = [call EXCEPT ![r] = [status |-> "asked", session |-> s, asked |-> t,
                                    intent |-> i, ran |-> NoTool, answer |-> "none"]]
    /\ UNCHANGED <<world, trail>>

\* Its session is live, its tool is registered.
Enter(r) ==
    /\ Is(r, "asked") /\ session[call[r].session] = "live"
    /\ Goes(r, "entered")
    /\ UNCHANGED <<world, trail>>

Locate(r) ==
    /\ Is(r, "entered") /\ call[r].asked \in registered
    /\ Goes(r, "located")
    /\ UNCHANGED <<world, trail>>

\* All policies in force judge it at once.
Judge(r) ==
    /\ Is(r, "located")
    /\ Goes(r, IF \E p \in inForce \cap Relevant : call[r].asked \in Denied[p]
               THEN "denied" ELSE "admitted")
    /\ UNCHANGED <<world, trail>>

Suggestions(r) ==
    {t \in Tools : \E i \in Intents : <<t, i>> \in taught /\ <<i, call[r].intent>> \in Close}

\* The trail may say of an admitted call what was suggested and whether it will run.
Explain(r, t, applied) ==
    /\ Is(r, "admitted") /\ t \in Suggestions(r)
    /\ trail' = trail \cup {[type |-> "CLEInterception", req |-> r, suggested |-> t,
                             applied |-> applied]}
    /\ UNCHANGED <<world, call>>

\* An admitted call runs what the trail says it will.
Run(r, t) ==
    /\ Is(r, "admitted") /\ t \in registered
    /\ t # call[r].asked => ~ShadowMode /\ t \in Suggestions(r)
    /\ \A e \in trail : e.type = "CLEInterception" /\ e.req = r =>
         t = IF e.applied THEN e.suggested ELSE call[r].asked
    /\ call' = [call EXCEPT ![r] = [@ EXCEPT !.status = "ran", !.ran = t]]
    /\ UNCHANGED <<world, trail>>

Report(r, corrected) ==
    /\ Is(r, "ran")
    /\ call[r].ran # call[r].asked => corrected
    /\ trail' = trail \cup {[type |-> "ToolCalled", req |-> r, tool |-> call[r].ran,
                             corrected |-> corrected]}
    /\ Goes(r, "returned")
    /\ UNCHANGED world

\* Only a denied call is refused, with a policy that denies it.
Refuse(r, p) ==
    /\ Is(r, "denied") /\ call[r].asked \in Denied[p]
    /\ trail' = trail \cup {[type |-> "PolicyViolation", req |-> r, policy |-> p]}
    /\ Ends(r, "PolicyViolation")
    /\ UNCHANGED world

\* A call fails for a reason; only failing ports may end it at any time.
Fail(r, why) ==
    /\ \/ why = "SessionNotFound" /\ Is(r, "asked") /\ session[call[r].session] = "none"
       \/ why = "SessionExpired" /\ Is(r, "asked") /\ session[call[r].session] = "over"
       \/ why = "ToolNotFound" /\ Is(r, "entered") /\ call[r].asked \notin registered
       \/ /\ why = "PortError"
          /\ call[r].status \in {"asked", "entered", "located", "denied", "admitted", "ran"}
    /\ Ends(r, why)
    /\ UNCHANGED <<world, trail>>

Next ==
    \/ EndSessions \/ \E s \in Sessions : Open(s)
    \/ \E t \in Tools : Register(t) \/ \E i \in Intents : Teach(t, i)
    \/ \E P \in SUBSET Policies : ChangePolicies(P)
    \/ \E r \in Requests :
         \/ \E s \in Sessions, t \in Tools, i \in Intents : Ask(r, s, t, i)
         \/ Enter(r) \/ Locate(r) \/ Judge(r)
         \/ \E t \in Tools : Run(r, t) \/ \E applied \in BOOLEAN : Explain(r, t, applied)
         \/ \E corrected \in BOOLEAN : Report(r, corrected)
         \/ \E p \in Policies : Refuse(r, p)
         \/ \E why \in {"SessionNotFound", "SessionExpired", "ToolNotFound", "PortError"} :
              Fail(r, why)

Spec == Init /\ [][Next]_governed
=============================================================================
