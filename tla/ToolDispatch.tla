---------------------------- MODULE ToolDispatch ----------------------------
(***************************************************************************)
(* The execution fabric: sessions, tool registry, policies, the correction *)
(* loop engine (CLE) and the audit trail, as ExecuteToolCommand.execute    *)
(* drives them.                                                            *)
(*                                                                         *)
(* Every port is an async Protocol, so a handler may be suspended at each  *)
(* of its awaits and other handlers, and time, move on in between.  One    *)
(* action is one port call together with the synchronous code up to the    *)
(* next one.  A port named in Fallible may also raise.  The adapters wired *)
(* today never suspend; their behaviours are those of this module in which *)
(* a request runs without interruption.                                    *)
(***************************************************************************)
EXTENDS Integers

CONSTANTS
    Sessions, Tools, Policies, Intents, Requests,
    Relevant,   \* policies of scope "tool" or "session", the ones evaluated
    Denied,     \* Denied[p]: the tools for which evaluate(p, _) is False
    Match,      \* Match[v][i]: cosine similarity of embedding v with i
    Threshold,  \* CLE_CONFIDENCE_THRESHOLD, on the scale of Match
    TTL,        \* DEFAULT_TTL_SECONDS, in ticks of the clock
    ShadowMode, \* the shadow_mode argument
    CleWired,   \* are a classifier and a correction store passed in?
    Fallible,   \* names of the ports that may raise
    NoTool, NoSession,
    ZeroVector, \* the vector stored when no embedding is given
    MaxClock, MaxEnded, MaxAge          \* bounds

Ports == {"session", "registry", "policy", "audit", "classifier", "store",
          "execution"}

ASSUME RelevantAssumption  == Relevant \subseteq Policies
ASSUME DeniedAssumption    == Denied \in [Policies -> SUBSET Tools]
ASSUME MatchAssumption     == Match \in [Intents -> [Intents -> Nat]]
ASSUME ThresholdAssumption == Threshold \in Nat \ {0}
ASSUME TTLAssumption       == TTL \in Nat \ {0}
ASSUME ModeAssumption      == ShadowMode \in BOOLEAN /\ CleWired \in BOOLEAN
ASSUME FallibleAssumption  == Fallible \subseteq Ports
ASSUME NoneAssumption      == /\ NoTool \notin Tools /\ NoSession \notin Sessions
                              /\ ZeroVector \notin Intents
ASSUME BoundAssumption     == MaxClock \in Nat /\ MaxEnded \in Nat /\ MaxAge \in Nat


VARIABLES
    clock,
    sessions,   \* InMemoryExecutionAdapter._sessions
    tools,      \* names registered in InMemoryToolRegistry
    policies,   \* enabled policies stored in the engine
    patterns,   \* InMemoryCorrectionStore._patterns, keyed by corrected tool
    audit,      \* events written to the audit log
    req,        \* the ExecuteToolCommand in flight for each request
    standing,   \* history: policies stored since before the request, not removed
    learned,    \* history: <<corrected tool, intent>> of each saved correction
    unwritten   \* history: requests whose CLEInterception event could not be written

vars == <<clock, sessions, tools, policies, patterns, audit, req, standing, learned, unwritten>>

-----------------------------------------------------------------------------
(* State *)

\* "ended" counts the SessionEndedEvents the aggregate has accumulated.
SessionState == [status : {"none", "active", "expired"}, expires : Nat, ended : Nat]

\* "age" is the similarity lost to the 30 day half-life decay.
PatternState == [vector : Intents \cup {ZeroVector}, age : Nat, known : BOOLEAN]

Locations == {"idle", "session", "registry", "policies", "evaluate", "violation",
              "embed", "patterns", "suggest", "intercept", "execute", "record",
              "returned", "raised"}

InFlight == Locations \ {"idle", "returned", "raised"}

Errors == {"none", "SessionNotFound", "SessionExpired", "ToolNotFound",
           "PolicyViolation", "PortError"}

Request == [pc : Locations, session : Sessions \cup {NoSession},
            tool : Tools \cup {NoTool}, intent : Intents \cup {ZeroVector},
            arrived : Nat, queue : SUBSET Policies,
            suggested : Tools \cup {NoTool}, effective : Tools \cup {NoTool},
            corrected : BOOLEAN, ran : Tools \cup {NoTool}, error : Errors]

ToolCalledEvent ==
    [type : {"ToolCalled"}, req : Requests, tool : Tools, corrected : BOOLEAN]
PolicyViolationEvent == [type : {"PolicyViolation"}, req : Requests, policy : Policies]
CLEInterceptionEvent ==
    [type : {"CLEInterception"}, req : Requests, suggested : Tools, applied : BOOLEAN]

\* The three event types the dispatcher writes.  A SessionEndedEvent stays in its
\* aggregate: no handler flushes a session it has looked up.
AuditRecord == PolicyViolationEvent \cup CLEInterceptionEvent \cup ToolCalledEvent

TypeOK ==
    /\ clock \in Nat
    /\ sessions \in [Sessions -> SessionState]
    /\ tools \subseteq Tools
    /\ policies \subseteq Policies
    /\ patterns \in [Tools -> PatternState]
    /\ audit \subseteq AuditRecord
    /\ req \in [Requests -> Request]
    /\ standing \in [Requests -> SUBSET Policies]
    /\ learned \subseteq Tools \X Intents
    /\ unwritten \subseteq Requests

IdleRequest ==
    [pc |-> "idle", session |-> NoSession, tool |-> NoTool, intent |-> ZeroVector,
     arrived |-> 0, queue |-> {}, suggested |-> NoTool, effective |-> NoTool,
     corrected |-> FALSE, ran |-> NoTool, error |-> "none"]

Init ==
    /\ clock = 0
    /\ sessions = [s \in Sessions |-> [status |-> "none", expires |-> 0, ended |-> 0]]
    /\ tools = {}
    /\ policies = {}
    /\ patterns = [t \in Tools |-> [vector |-> ZeroVector, age |-> 0, known |-> FALSE]]
    /\ audit = {}
    /\ req = [r \in Requests |-> IdleRequest]
    /\ standing = [r \in Requests |-> {}]
    /\ learned = {}
    /\ unwritten = {}

-----------------------------------------------------------------------------
(* Sessions and time *)

Tick ==
    /\ clock < MaxClock
    /\ clock' = clock + 1
    /\ UNCHANGED <<sessions, tools, policies, patterns, audit, req, standing, learned, unwritten>>

\* Mutant of IsExpired: "now > expires_at", one instant too late.
IsExpiredLate(s) == clock > sessions[s].expires

IsExpired(s) == clock >= sessions[s].expires

IsActive(s) == sessions[s].status = "active" /\ ~IsExpired(s)

\* Mutant of CreateSession: the session is left in SessionStatus.INITIATED.
CreateSessionInitiated(s) ==
    /\ sessions[s].status = "none"
    /\ sessions' = [sessions EXCEPT ![s] =
                      [status |-> "initiated", expires |-> clock + TTL, ended |-> 0]]
    /\ UNCHANGED <<clock, tools, policies, patterns, audit, req, standing, learned, unwritten>>

\* CreateSessionCommand: the new aggregate carries no domain events, so its
\* flush writes nothing.  The command's ttl_seconds is never passed on.
CreateSession(s) ==
    /\ sessions[s].status = "none"
    /\ sessions' = [sessions EXCEPT ![s] =
                      [status |-> "active", expires |-> clock + TTL, ended |-> 0]]
    /\ UNCHANGED <<clock, tools, policies, patterns, audit, req, standing, learned, unwritten>>

\* Mutant of ExpireOnLookup: the lookup expires without asking is_expired.
ExpireOnEveryLookup(s) ==
    sessions' = IF sessions[s].status # "none"
                THEN [sessions EXCEPT ![s].status = "expired", ![s].ended = @ + 1]
                ELSE sessions

\* The adapter's get_session: every lookup of an expired session expires it
\* again, which appends one more SessionEndedEvent.
ExpireOnLookup(s) ==
    sessions' = IF sessions[s].status # "none" /\ IsExpired(s)
                THEN [sessions EXCEPT ![s].status = "expired", ![s].ended = @ + 1]
                ELSE sessions

\* GetSessionQuery (GET /sessions/{id}) and validate_token.
GetSession(s) ==
    /\ sessions[s].status # "none" /\ IsExpired(s)
    /\ sessions[s].ended < MaxEnded
    /\ ExpireOnLookup(s)
    /\ UNCHANGED <<clock, tools, policies, patterns, audit, req, standing, learned, unwritten>>

-----------------------------------------------------------------------------
(* The other writers *)

RegisterTool(t) ==
    /\ t \notin tools
    /\ tools' = tools \cup {t}
    /\ UNCHANGED <<clock, sessions, policies, patterns, audit, req, standing, learned, unwritten>>

AddPolicy(p) ==
    /\ p \notin policies
    /\ policies' = policies \cup {p}
    /\ UNCHANGED <<clock, sessions, tools, patterns, audit, req, standing, learned, unwritten>>

RemovePolicy(p) ==
    /\ p \in policies
    /\ policies' = policies \ {p}
    /\ standing' = [r \in Requests |-> standing[r] \ {p}]
    /\ UNCHANGED <<clock, sessions, tools, patterns, audit, req, learned, unwritten>>

\* CaptureCorrectionCommand followed by save_correction.  v is the embedding of
\* the original intent, or ZeroVector when the caller passes no classifier: then
\* an existing pattern keeps its vector.
CaptureCorrection(t, v) ==
    /\ patterns' = [patterns EXCEPT ![t] =
                      [vector |-> IF v = ZeroVector /\ @.known THEN @.vector ELSE v,
                       age |-> 0, known |-> TRUE]]
    /\ learned' = IF v = ZeroVector THEN learned ELSE learned \cup {<<t, v>>}
    /\ UNCHANGED <<clock, sessions, tools, policies, audit, req, standing, unwritten>>

\* Days pass: a pattern nobody reinforces loses similarity.
PatternDecays(t) ==
    /\ patterns[t].known /\ patterns[t].age < MaxAge
    /\ patterns' = [patterns EXCEPT ![t].age = @ + 1]
    /\ UNCHANGED <<clock, sessions, tools, policies, audit, req, standing, learned, unwritten>>

-----------------------------------------------------------------------------
(* ExecuteToolCommand.execute, one action per port call *)

Begin(r, s, t, i) ==
    /\ req[r].pc = "idle"
    /\ req' = [req EXCEPT ![r] = [IdleRequest EXCEPT
                 !.pc = "session", !.session = s, !.tool = t, !.intent = i,
                 !.arrived = clock, !.effective = t]]
    /\ standing' = [standing EXCEPT ![r] = policies]
    /\ UNCHANGED <<clock, sessions, tools, policies, patterns, audit, learned, unwritten>>

At(r, loc) == req[r].pc = loc

Goto(r, loc) == req' = [req EXCEPT ![r].pc = loc]

Raise(r, err) == req' = [req EXCEPT ![r] = [@ EXCEPT !.pc = "raised", !.error = err]]

Outside == <<clock, tools, policies, patterns, standing, learned>>
World   == <<Outside, unwritten>>

LookupSession(r) ==
    LET s == req[r].session IN
    /\ At(r, "session")
    /\ ExpireOnLookup(s)
    /\ \/ sessions[s].status = "none" /\ Raise(r, "SessionNotFound")
       \/ sessions[s].status # "none" /\ ~IsActive(s) /\ Raise(r, "SessionExpired")
       \/ IsActive(s) /\ Goto(r, "registry")
    /\ UNCHANGED <<World, audit>>

LookupTool(r) ==
    /\ At(r, "registry")
    /\ \/ req[r].tool \notin tools /\ Raise(r, "ToolNotFound")
       \/ req[r].tool \in tools /\ Goto(r, "policies")
    /\ UNCHANGED <<World, sessions, audit>>

AfterPolicies == IF CleWired THEN "embed" ELSE "execute"

\* list_policies; the loop skips the scopes "agent" and "network".
ListPolicies(r) ==
    LET queue == policies \cap Relevant IN
    /\ At(r, "policies")
    /\ req' = [req EXCEPT ![r] = [@ EXCEPT !.queue = queue,
                 !.pc = IF queue = {} THEN AfterPolicies ELSE "evaluate"]]
    /\ UNCHANGED <<World, sessions, audit>>

\* The policies come in dict order; no property depends on it, so any is next.
EvaluatePolicy(r, p) ==
    /\ At(r, "evaluate") /\ p \in req[r].queue
    /\ \/ /\ req[r].tool \in Denied[p]
          /\ req' = [req EXCEPT ![r] = [@ EXCEPT !.pc = "violation", !.queue = {p}]]
       \/ /\ req[r].tool \notin Denied[p]
          /\ req' = [req EXCEPT ![r] = [@ EXCEPT !.queue = req[r].queue \ {p},
                       !.pc = IF req[r].queue = {p} THEN AfterPolicies ELSE "evaluate"]]
    /\ UNCHANGED <<World, sessions, audit>>

AuditViolation(r, p) ==
    /\ At(r, "violation") /\ p \in req[r].queue
    /\ audit' = audit \cup {[type |-> "PolicyViolation", req |-> r, policy |-> p]}
    /\ Raise(r, "PolicyViolation")
    /\ UNCHANGED <<World, sessions>>

GetEmbedding(r) ==
    /\ At(r, "embed")
    /\ Goto(r, "patterns")
    /\ UNCHANGED <<World, sessions, audit>>

\* CorrectionPattern.matches_intent
Similarity(t, i) ==
    LET pat == patterns[t] IN
    IF pat.known /\ pat.vector \in Intents /\ Match[pat.vector][i] >= pat.age
    THEN Match[pat.vector][i] - pat.age ELSE 0

\* Mutant of Best: any similarity above zero is good enough.
BestBelowThreshold(i) ==
    {t \in Tools : /\ Similarity(t, i) > 0
                   /\ \A u \in Tools : Similarity(u, i) <= Similarity(t, i)}

\* The best pattern by strict comparison; dict order breaks ties, here any.
Best(i) == {t \in Tools : /\ Similarity(t, i) >= Threshold
                          /\ \A u \in Tools : Similarity(u, i) <= Similarity(t, i)}

FindPatterns(r) ==
    /\ At(r, "patterns")
    /\ \/ Best(req[r].intent) = {} /\ Goto(r, "execute")
       \/ \E t \in Best(req[r].intent) :
            req' = [req EXCEPT ![r] = [@ EXCEPT !.suggested = t,
                      !.pc = IF ShadowMode THEN "intercept" ELSE "suggest"]]
    /\ UNCHANGED <<World, sessions, audit>>

\* Mutant of ResolveSuggestion: the tool is replaced before the registry is
\* asked whether the suggested one exists.
ResolveSuggestionUnchecked(r) ==
    /\ At(r, "suggest")
    /\ req' = [req EXCEPT ![r] = [@ EXCEPT !.pc = "intercept",
                 !.corrected = req[r].suggested \in tools,
                 !.effective = req[r].suggested]]
    /\ UNCHANGED <<World, sessions, audit>>

\* Mutant of ResolveSuggestion: an applied suggestion skips its audit event.
ResolveSuggestionUnaudited(r) ==
    LET applied == req[r].suggested \in tools IN
    /\ At(r, "suggest")
    /\ req' = [req EXCEPT ![r] = [@ EXCEPT
                 !.pc = IF applied THEN "execute" ELSE "intercept",
                 !.corrected = applied,
                 !.effective = IF applied THEN req[r].suggested ELSE req[r].effective]]
    /\ UNCHANGED <<World, sessions, audit>>

\* Active mode: the suggestion replaces the tool if it is registered.
ResolveSuggestion(r) ==
    LET applied == req[r].suggested \in tools IN
    /\ At(r, "suggest")
    /\ req' = [req EXCEPT ![r] = [@ EXCEPT !.pc = "intercept", !.corrected = applied,
                 !.effective = IF applied THEN req[r].suggested ELSE req[r].effective]]
    /\ UNCHANGED <<World, sessions, audit>>

AuditInterception(r) ==
    /\ At(r, "intercept")
    /\ audit' = audit \cup {[type |-> "CLEInterception", req |-> r,
                             suggested |-> req[r].suggested, applied |-> req[r].corrected]}
    /\ Goto(r, "execute")
    /\ UNCHANGED <<World, sessions>>

ExecuteTool(r) ==
    /\ At(r, "execute")
    /\ req' = [req EXCEPT ![r] = [@ EXCEPT !.pc = "record", !.ran = req[r].effective]]
    /\ UNCHANGED <<World, sessions, audit>>

AuditCall(r) ==
    /\ At(r, "record")
    /\ audit' = audit \cup {[type |-> "ToolCalled", req |-> r, tool |-> req[r].ran,
                             corrected |-> req[r].corrected]}
    /\ Goto(r, "returned")
    /\ UNCHANGED <<World, sessions>>

-----------------------------------------------------------------------------
(* A port raises *)

PortAt == [session |-> "session", registry |-> "registry", policies |-> "policy",
           evaluate |-> "policy", violation |-> "audit", embed |-> "classifier",
           patterns |-> "store", suggest |-> "registry", intercept |-> "audit",
           execute |-> "execution", record |-> "audit"]

InCle == {"embed", "patterns", "suggest", "intercept"}

\* Mutant of PortRaises: a policy engine that fails lets the call through.
PortRaisesFailOpen(r) ==
    /\ req[r].pc \in InFlight
    /\ PortAt[req[r].pc] \in Fallible
    /\ IF req[r].pc \in InCle \cup {"evaluate"}
       THEN Goto(r, "execute") ELSE Raise(r, "PortError")
    /\ UNCHANGED <<World, sessions, audit>>

\* Mutant of PortRaises: a failed audit write is swallowed after the execution.
PortRaisesUnrecorded(r) ==
    /\ req[r].pc \in InFlight
    /\ PortAt[req[r].pc] \in Fallible
    /\ \/ req[r].pc \in InCle /\ Goto(r, "execute")
       \/ req[r].pc = "record" /\ Goto(r, "returned")
       \/ req[r].pc \notin InCle \cup {"record"} /\ Raise(r, "PortError")
    /\ UNCHANGED <<World, sessions, audit>>

\* Mutant of PortRaises: the CLE block has no except clause.
PortRaisesThroughCle(r) ==
    /\ req[r].pc \in InFlight
    /\ PortAt[req[r].pc] \in Fallible
    /\ Raise(r, "PortError")
    /\ UNCHANGED <<World, sessions, audit>>

\* Inside the CLE block "except Exception: pass" goes on with the execution, of a
\* tool that may be substituted already; anywhere else the exception ends the request.
PortRaises(r) ==
    /\ req[r].pc \in InFlight
    /\ PortAt[req[r].pc] \in Fallible
    /\ IF req[r].pc \in InCle THEN Goto(r, "execute") ELSE Raise(r, "PortError")
    /\ unwritten' = unwritten \cup IF At(r, "intercept") THEN {r} ELSE {}
    /\ UNCHANGED <<Outside, sessions, audit>>

-----------------------------------------------------------------------------
Step(r) ==
    \/ LookupSession(r) \/ LookupTool(r) \/ ListPolicies(r)
    \/ \E p \in Policies : EvaluatePolicy(r, p) \/ AuditViolation(r, p)
    \/ GetEmbedding(r) \/ FindPatterns(r) \/ ResolveSuggestion(r)
    \/ AuditInterception(r) \/ ExecuteTool(r) \/ AuditCall(r)

Next ==
    \/ Tick
    \/ \E s \in Sessions : CreateSession(s) \/ GetSession(s)
    \/ \E t \in Tools : RegisterTool(t) \/ PatternDecays(t)
    \/ \E p \in Policies : AddPolicy(p) \/ RemovePolicy(p)
    \/ \E t \in Tools, v \in Intents \cup {ZeroVector} : CaptureCorrection(t, v)
    \/ \E r \in Requests : \/ Step(r) \/ PortRaises(r)
                           \/ \E s \in Sessions, t \in Tools, i \in Intents :
                                Begin(r, s, t, i)

Spec == Init /\ [][Next]_vars

\* The event loop resumes every ready coroutine, and an awaited port answers or
\* raises; it need not succeed.
Fairness == \A r \in Requests : WF_vars(Step(r) \/ PortRaises(r))

FairSpec == Spec /\ Fairness

-----------------------------------------------------------------------------
(* Safety *)

Executed(r) == req[r].ran # NoTool

Events(type) == {e \in audit : e.type = type}

\* A policy that was stored before the request arrived, and is still there,
\* never denies a tool the request has run.  policy.py calls this a hard block;
\* it needs the dispatcher to evaluate every listed policy against the tool that
\* really runs, whatever other handlers add or remove in the meantime.
NoStandingPolicyBypassed ==
    \A r \in Requests : Executed(r) =>
        \A p \in standing[r] \cap Relevant : req[r].ran \notin Denied[p]

\* A request that arrives at or after its session's expiry runs nothing, however
\* the expiry, the lookups of other requests and the session's status interleave.
NoExecutionAfterExpiry ==
    \A r \in Requests : Executed(r) =>
        /\ sessions[req[r].session].status # "none"
        /\ req[r].arrived < sessions[req[r].session].expires

\* The audit trail and what ran agree: a call that returned to its client has
\* its ToolCalled event, naming the tool that ran and whether it was corrected;
\* an event never names a call that did not run; a denied request has its
\* PolicyViolation event, naming a policy that denies its tool, and never ran.
AuditMatchesExecution ==
    /\ \A r \in Requests :
         /\ At(r, "returned") => \E e \in Events("ToolCalled") :
                /\ e.req = r /\ e.tool = req[r].ran
                /\ req[r].ran # req[r].tool => e.corrected
         /\ req[r].error = "PolicyViolation" =>
                \E e \in Events("PolicyViolation") : e.req = r
    /\ \A e \in Events("ToolCalled") : Executed(e.req) /\ req[e.req].ran = e.tool
    /\ \A e \in Events("PolicyViolation") :
         ~Executed(e.req) /\ req[e.req].tool \in Denied[e.policy]

\* What a CLEInterception event says is what the request does: applied means the
\* suggested tool is the one that runs, not applied means the requested one is.
InterceptionHonest ==
    \A e \in Events("CLEInterception") : Executed(e.req) =>
        req[e.req].ran = IF e.applied THEN e.suggested ELSE req[e.req].tool

\* The CLE suggests only what a human taught it: some captured correction led to
\* the suggested tool from an intent close enough to the request's.  Vectors are
\* overwritten by later corrections and decay while requests are in flight.
SuggestionLearned ==
    \A r \in Requests : req[r].suggested # NoTool =>
        \E v \in Intents : /\ <<req[r].suggested, v>> \in learned
                           /\ Match[v][req[r].intent] >= Threshold

\* A corrected call is explained: before the substituted tool ran its CLEInterception
\* event was written, or its own write of that event raised (commands/__init__.py:183
\* swallows that with the tool substituted already), and no other failure than that one
\* loses the event; such a call, once returned, is still marked in its ToolCalled event.
CorrectionExplained ==
    \A r \in Requests : Executed(r) /\ req[r].ran # req[r].tool =>
        \/ \E e \in Events("CLEInterception") :
              e.req = r /\ e.applied /\ e.suggested = req[r].ran
        \/ /\ r \in unwritten /\ "audit" \in Fallible
           /\ At(r, "returned") => \E e \in Events("ToolCalled") :
                e.req = r /\ e.corrected /\ e.tool = req[r].ran

(* Action properties *)

\* A session that ended stays ended: nothing revives it, moves its deadline or
\* takes back an event it raised, and a live one only ends at its deadline.
SessionsOnlyEnd ==
    [][\A s \in Sessions : sessions[s].status # "none" =>
          /\ sessions'[s].expires = sessions[s].expires
          /\ sessions'[s].ended >= sessions[s].ended
          /\ sessions[s].status = "expired" => sessions'[s].status = "expired"
          /\ sessions'[s].status # sessions[s].status =>
                sessions'[s].status = "expired" /\ clock >= sessions[s].expires]_vars

(* What it all comes to *)

\* A session is over from its deadline on, whenever a lookup notices.
SessionSeen(s) ==
    IF sessions[s].status = "none" THEN "none" ELSE IF IsActive(s) THEN "live" ELSE "over"

\* How far a request has come.  The policies decide when they are listed: what the loop
\* then finds is already in its queue.
StatusAt == [idle |-> "new", session |-> "asked", registry |-> "entered",
             policies |-> "located", evaluate |-> "admitted", violation |-> "denied",
             embed |-> "admitted", patterns |-> "admitted", suggest |-> "admitted",
             intercept |-> "admitted", execute |-> "admitted", record |-> "ran",
             returned |-> "returned", raised |-> "failed"]

CallSeen(q) ==
    [status |-> IF q.pc = "evaluate" /\ \E p \in q.queue : q.tool \in Denied[p]
                THEN "denied" ELSE StatusAt[q.pc],
     session |-> q.session, asked |-> q.tool, intent |-> q.intent, ran |-> q.ran,
     answer |-> q.error]

Governed == INSTANCE GovernedCalls WITH
    Close      <- {c \in Intents \X Intents : Match[c[1]][c[2]] >= Threshold},
    NoIntent   <- ZeroVector,
    session    <- [s \in Sessions |-> SessionSeen(s)],
    registered <- tools, inForce <- policies, taught <- learned, trail <- audit,
    call       <- [r \in Requests |-> CallSeen(req[r])]

\* Though each policy is evaluated at an await of its own, while others come and go, and
\* an expired session lives on until it is looked up, every call is what GovernedCalls
\* promises: judged at one moment by all policies then in force, run as explained.
ImplementsGoverned == Governed!Spec

(* Liveness *)

\* commands/__init__.py:184, "CLE failure must never block execution": a request
\* that passed its policies runs a tool, whichever CLE port fails on the way.
CleNeverBlocks ==
    \A r \in Requests : req[r].pc \in InCle ~> Executed(r)

-----------------------------------------------------------------------------
(* The inductive invariant behind the theorems of ToolDispatchProofs *)

\* Past the policy loop, on the way to the execution or after it.
Permitted == InCle \cup {"execute", "record", "returned"}

\* The handler's locals are set in the order of the code.
LocalsSet(r) ==
    LET q == req[r] IN
    /\ q.pc # "idle" => q.session \in Sessions /\ q.tool \in Tools /\ q.effective \in Tools
    /\ q.pc \in {"suggest", "intercept"} => q.suggested \in Tools
    /\ q.effective # q.tool => q.corrected
    /\ q.pc \in InFlight \ {"intercept", "execute", "record"} => q.effective = q.tool
    /\ q.pc \in {"record", "returned"} => q.ran = q.effective
    /\ q.pc \in InFlight \ {"record"} => q.ran = NoTool
    /\ q.pc \in InFlight \cup {"idle", "returned"} => q.error = "none"
    /\ Executed(r) => q.pc \in {"record", "returned", "raised"} /\ q.ran = q.effective

\* In shadow mode the CLE never touches the tool.
ShadowKeepsTool(r) ==
    ShadowMode => req[r].pc # "suggest" /\ req[r].effective = req[r].tool

\* The policies known to deny, or not to deny, the requested tool.
PoliciesChecked(r) ==
    LET q == req[r] IN
    /\ q.pc \in {"session", "registry", "policies"} => standing[r] \subseteq policies
    /\ q.pc = "evaluate" =>
         \A p \in standing[r] \cap Relevant : p \in q.queue \/ q.tool \notin Denied[p]
    /\ q.pc \in Permitted \/ Executed(r) =>
         \A p \in standing[r] \cap Relevant : q.tool \notin Denied[p]
    /\ q.pc = "violation" => \A p \in q.queue : q.tool \in Denied[p]

\* The session was live at some moment since the request arrived.
SessionChecked(r) ==
    LET q == req[r] IN
    /\ q.arrived <= clock
    /\ q.pc \in Permitted \cup {"registry", "policies", "evaluate", "violation"} \/ Executed(r)
         => sessions[q.session].status # "none" /\ q.arrived < sessions[q.session].expires

\* What the audit trail holds for each location of the handlers it names.
AuditedSoFar ==
    /\ \A r \in Requests :
         /\ At(r, "returned") => [type |-> "ToolCalled", req |-> r, tool |-> req[r].ran,
                                  corrected |-> req[r].corrected] \in audit
         /\ req[r].error = "PolicyViolation" =>
                \E e \in Events("PolicyViolation") : e.req = r
    /\ \A e \in Events("ToolCalled") : At(e.req, "returned") /\ req[e.req].ran = e.tool
    /\ \A e \in Events("PolicyViolation") :
         /\ At(e.req, "raised") /\ ~Executed(e.req)
         /\ req[e.req].tool \in Denied[e.policy]

IndInv ==
    /\ TypeOK
    /\ \A r \in Requests : /\ LocalsSet(r) /\ ShadowKeepsTool(r)
                           /\ PoliciesChecked(r) /\ SessionChecked(r)
    /\ AuditedSoFar

\* What patterns say, a human has taught: only age comes between the two.
PatternsLearned ==
    \A t \in Tools : patterns[t].known /\ patterns[t].vector \in Intents =>
                       <<t, patterns[t].vector>> \in learned

\* Up to its audit event the CLE's decision is all in corrected and suggested.
CleDecided(r) ==
    LET q == req[r] IN
    /\ q.pc # "idle" => q.intent \in Intents
    /\ q.pc \in InFlight \ {"intercept", "execute", "record"} => ~q.corrected
    /\ q.pc = "intercept" => q.effective = IF q.corrected THEN q.suggested ELSE q.tool

\* The event is written last, and nothing touches the tool after it.
InterceptionsKept ==
    \A e \in Events("CLEInterception") :
        /\ req[e.req].pc \in {"execute", "record", "returned", "raised"}
        /\ req[e.req].effective = IF e.applied THEN e.suggested ELSE req[e.req].tool

\* Only a request whose own write failed gets a corrected tool past its event.
CorrectionAudited(r) ==
    /\ r \notin unwritten \/ "audit" \notin Fallible
    /\ req[r].pc \in {"execute", "record", "returned"} \/ Executed(r)
    /\ req[r].effective # req[r].tool
    => \E e \in Events("CLEInterception") :
          e.req = r /\ e.applied /\ e.suggested = req[r].effective

\* Past the registry the tool asked for is registered; a tool that replaces it is the one
\* suggested, and registered too.
ToolFound(r) ==
    LET q == req[r] IN
    /\ q.pc \in {"policies", "evaluate", "violation"} \cup Permitted => q.tool \in tools
    /\ q.effective # q.tool => q.effective = q.suggested /\ q.effective \in tools

CleInv ==
    /\ PatternsLearned /\ SuggestionLearned /\ InterceptionsKept
    /\ \A r \in Requests : CleDecided(r) /\ CorrectionAudited(r)
=============================================================================
