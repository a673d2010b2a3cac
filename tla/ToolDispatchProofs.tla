------------------------- MODULE ToolDispatchProofs -------------------------
(***************************************************************************)
(* Theorems about ToolDispatch, for every value of its constants.  All of  *)
(* them follow from IndInv: TypeStep gives its type part, the lemmas on    *)
(* one request at a time the rest.                                         *)
(***************************************************************************)
EXTENDS ToolDispatch, TLAPS

-----------------------------------------------------------------------------
(* Type correctness *)

\* An update of one request keeps the table of requests well typed.
LEMMA UpdateTyped ==
    ASSUME TypeOK, NEW r \in Requests, NEW q \in Request,
           req' = [req EXCEPT ![r] = q]
    PROVE  req' \in [Requests -> Request]
  BY DEF TypeOK

LEMMA RaisedTyped ==
    ASSUME NEW q \in Request, NEW err \in Errors
    PROVE  [q EXCEPT !.pc = "raised", !.error = err] \in Request
<1> DEFINE moved == [q EXCEPT !.pc = "raised"]
<1>1. moved \in Request
  BY DEF Request, Locations
<1>2. [moved EXCEPT !.error = err] \in Request
  <2> HIDE DEF moved
  <2> QED BY <1>1 DEF Request
<1>3. [q EXCEPT !.pc = "raised", !.error = err] = [moved EXCEPT !.error = err]
  BY DEF Request
<1> QED BY <1>2, <1>3

\* A request stays a request when the fields a step sets get values of their types.
LEMMA QueueTyped ==
    ASSUME NEW q \in Request, NEW loc \in Locations, NEW queue \in SUBSET Policies
    PROVE  /\ [q EXCEPT !.queue = queue, !.pc = loc] \in Request
           /\ [q EXCEPT !.pc = loc, !.queue = queue] \in Request
BY DEF Request

LEMMA SuggestedTyped ==
    ASSUME NEW q \in Request, NEW loc \in Locations, NEW t \in Tools
    PROVE  [q EXCEPT !.suggested = t, !.pc = loc] \in Request
BY DEF Request

LEMMA ResolvedTyped ==
    ASSUME NEW q \in Request, NEW loc \in Locations, NEW applied \in BOOLEAN,
           NEW t \in Tools \cup {NoTool}
    PROVE  [q EXCEPT !.pc = loc, !.corrected = applied, !.effective = t] \in Request
BY DEF Request

LEMMA RanTyped ==
    ASSUME NEW q \in Request, NEW loc \in Locations, NEW t \in Tools \cup {NoTool}
    PROVE  [q EXCEPT !.pc = loc, !.ran = t] \in Request
BY DEF Request

\* So do the two commonest updates, moving on and raising.
LEMMA MoveTyped ==
    ASSUME TypeOK, NEW r \in Requests,
           \/ \E loc \in Locations : Goto(r, loc)
           \/ \E err \in Errors : Raise(r, err)
    PROVE  req' \in [Requests -> Request]
<1>1. ASSUME NEW loc \in Locations, Goto(r, loc) PROVE req' \in [Requests -> Request]
  BY <1>1 DEF Goto, TypeOK, Request
<1>2. ASSUME NEW err \in Errors, Raise(r, err) PROVE req' \in [Requests -> Request]
  <2>1. [req[r] EXCEPT !.pc = "raised", !.error = err] \in Request
    BY RaisedTyped DEF TypeOK
  <2> QED BY <1>2, <2>1, UpdateTyped DEF Raise
<1> QED BY <1>1, <1>2

\* A pattern that ages stays one.
LEMMA DecayTyped ==
    ASSUME patterns \in [Tools -> PatternState], NEW t \in Tools, PatternDecays(t)
    PROVE  patterns' \in [Tools -> PatternState]
BY DEF PatternDecays, PatternState

\* No handler leaves the types of the state.
LEMMA TypeStep ==
    ASSUME TypeOK, \A r \in Requests : LocalsSet(r), [Next]_vars
    PROVE  TypeOK'
<1> USE RelevantAssumption, TTLAssumption DEF TypeOK
<1>1. CASE Tick
  BY <1>1 DEF Tick
<1>2. ASSUME NEW s \in Sessions, CreateSession(s) PROVE TypeOK'
  BY <1>2 DEF CreateSession, SessionState
<1>3. ASSUME NEW s \in Sessions, ExpireOnLookup(s)
      PROVE  sessions' \in [Sessions -> SessionState]
  BY <1>3 DEF ExpireOnLookup, SessionState
<1>4. ASSUME NEW s \in Sessions, GetSession(s) PROVE TypeOK'
  BY <1>3, <1>4 DEF GetSession
<1>5. ASSUME NEW t \in Tools, RegisterTool(t) PROVE TypeOK'
  BY <1>5 DEF RegisterTool
<1>6. ASSUME NEW t \in Tools, PatternDecays(t) PROVE TypeOK'
  <2>1. patterns' \in [Tools -> PatternState]
    BY <1>6, DecayTyped
  <2> QED BY <1>6, <2>1 DEF PatternDecays
<1>7. ASSUME NEW p \in Policies, AddPolicy(p) \/ RemovePolicy(p) PROVE TypeOK'
  BY <1>7 DEF AddPolicy, RemovePolicy
<1>8. ASSUME NEW t \in Tools, NEW v \in Intents \cup {ZeroVector}, CaptureCorrection(t, v)
      PROVE  TypeOK'
  BY <1>8 DEF CaptureCorrection, PatternState
<1>9. ASSUME NEW r \in Requests, NEW s \in Sessions, NEW t \in Tools, NEW i \in Intents,
             Begin(r, s, t, i)
      PROVE  TypeOK'
  BY <1>9 DEF Begin, IdleRequest, Request, Locations, Errors
<1>10. ASSUME NEW r \in Requests, Step(r) \/ PortRaises(r) PROVE TypeOK'
  <2>1. CASE LookupSession(r)
    <3>1. req[r].session \in Sessions => sessions' \in [Sessions -> SessionState]
      BY <1>3, <2>1 DEF LookupSession
    <3>2. req[r].session = NoSession => sessions' \in [Sessions -> SessionState]
      BY <2>1, NoneAssumption DEF LookupSession, ExpireOnLookup
    <3>3. req' \in [Requests -> Request]
      BY <2>1, MoveTyped DEF LookupSession, Locations, Errors
    <3> QED BY <2>1, <3>1, <3>2, <3>3 DEF LookupSession, World, Outside, Request
  <2>2. CASE LookupTool(r)
    BY <2>2, MoveTyped DEF LookupTool, World, Outside, Locations, Errors
  <2> AfterPolicies \in Locations
    BY DEF AfterPolicies, Locations
  <2>3. CASE ListPolicies(r)
    <3> DEFINE queue == policies \cap Relevant
               loc == IF queue = {} THEN AfterPolicies ELSE "evaluate"
    <3>1. loc \in Locations /\ queue \subseteq Policies
      BY DEF Locations
    <3>2. req' = [req EXCEPT ![r] = [@ EXCEPT !.queue = queue, !.pc = loc]]
      BY <2>3 DEF ListPolicies
    <3> HIDE DEF queue, loc
    <3>3. [req[r] EXCEPT !.queue = queue, !.pc = loc] \in Request
      <4>1. req[r] \in Request
        OBVIOUS
      <4> QED BY <3>1, <4>1, QueueTyped
    <3> QED BY <2>3, <3>2, <3>3, UpdateTyped DEF ListPolicies, World, Outside
  <2>4. ASSUME NEW p \in Policies, EvaluatePolicy(r, p) PROVE TypeOK'
    <3> DEFINE loc == IF req[r].queue = {p} THEN AfterPolicies ELSE "evaluate"
    <3>1. loc \in Locations /\ "violation" \in Locations
      BY DEF Locations
    <3>2. \/ req' = [req EXCEPT ![r] = [@ EXCEPT !.pc = "violation", !.queue = {p}]]
          \/ req' = [req EXCEPT ![r] = [@ EXCEPT !.queue = req[r].queue \ {p}, !.pc = loc]]
      BY <2>4 DEF EvaluatePolicy
    <3> HIDE DEF loc
    <3>3. /\ [req[r] EXCEPT !.pc = "violation", !.queue = {p}] \in Request
          /\ [req[r] EXCEPT !.queue = req[r].queue \ {p}, !.pc = loc] \in Request
      <4>1. req[r] \in Request
        OBVIOUS
      <4>2. {p} \in SUBSET Policies /\ req[r].queue \ {p} \in SUBSET Policies
        BY <4>1 DEF Request
      <4> QED BY <3>1, <4>1, <4>2, QueueTyped
    <3>4. req' \in [Requests -> Request]
      BY <3>2, <3>3, UpdateTyped
    <3> QED BY <2>4, <3>4 DEF EvaluatePolicy, World, Outside
  <2>5. ASSUME NEW p \in Policies, AuditViolation(r, p) PROVE TypeOK'
    BY <2>5, MoveTyped DEF AuditViolation, World, Outside, Errors, AuditRecord, ToolCalledEvent, PolicyViolationEvent, CLEInterceptionEvent
  <2>6. CASE GetEmbedding(r)
    BY <2>6, MoveTyped DEF GetEmbedding, World, Outside, Locations
  <2>7. CASE FindPatterns(r)
    <3>1. CASE Goto(r, "execute")
      BY <2>7, <3>1, MoveTyped DEF FindPatterns, World, Outside, Locations
    <3>2. CASE ~Goto(r, "execute")
      <4> DEFINE loc == IF ShadowMode THEN "intercept" ELSE "suggest"
      <4>1. PICK t \in Tools :
               req' = [req EXCEPT ![r] = [@ EXCEPT !.suggested = t, !.pc = loc]]
        BY <2>7, <3>2 DEF FindPatterns, Best
      <4>2. loc \in Locations
        BY DEF Locations
      <4> HIDE DEF loc
      <4>3. [req[r] EXCEPT !.suggested = t, !.pc = loc] \in Request
        <5>1. req[r] \in Request
          OBVIOUS
        <5> QED BY <4>2, <5>1, SuggestedTyped
      <4> QED BY <2>7, <4>1, <4>3, UpdateTyped DEF FindPatterns, World, Outside
    <3> QED BY <3>1, <3>2
  <2>8. CASE ResolveSuggestion(r)
    <3> DEFINE applied == req[r].suggested \in tools
               tool == IF applied THEN req[r].suggested ELSE req[r].effective
    <3>1. applied \in BOOLEAN /\ tool \in Tools \cup {NoTool} /\ "intercept" \in Locations
      BY DEF Request, Locations
    <3>2. req' = [req EXCEPT ![r] = [@ EXCEPT !.pc = "intercept", !.corrected = applied,
                                                !.effective = tool]]
      BY <2>8 DEF ResolveSuggestion
    <3> HIDE DEF applied, tool
    <3>3. [req[r] EXCEPT !.pc = "intercept", !.corrected = applied, !.effective = tool]
             \in Request
      <4>1. req[r] \in Request
        OBVIOUS
      <4> QED BY <3>1, <4>1, ResolvedTyped
    <3> QED BY <2>8, <3>2, <3>3, UpdateTyped DEF ResolveSuggestion, World, Outside
  <2>9. CASE AuditInterception(r)
    <3>1. [type |-> "CLEInterception", req |-> r, suggested |-> req[r].suggested,
           applied |-> req[r].corrected] \in AuditRecord
      BY <2>9 DEF AuditInterception, At, LocalsSet, AuditRecord, ToolCalledEvent, PolicyViolationEvent, CLEInterceptionEvent, Request
    <3> QED BY <2>9, <3>1, MoveTyped DEF AuditInterception, World, Outside, Locations
  <2>10. CASE ExecuteTool(r)
    <3>1. req[r].effective \in Tools \cup {NoTool} /\ "record" \in Locations
      BY DEF Request, Locations
    <3>2. [req[r] EXCEPT !.pc = "record", !.ran = req[r].effective] \in Request
      <4>1. req[r] \in Request
        OBVIOUS
      <4> QED BY <3>1, <4>1, RanTyped
    <3> QED BY <2>10, <3>2, UpdateTyped DEF ExecuteTool, World, Outside
  <2>11. CASE AuditCall(r)
    <3>1. [type |-> "ToolCalled", req |-> r, tool |-> req[r].ran,
           corrected |-> req[r].corrected] \in AuditRecord
      BY <2>11 DEF AuditCall, At, LocalsSet, AuditRecord, ToolCalledEvent, PolicyViolationEvent, CLEInterceptionEvent, Request
    <3> QED BY <2>11, <3>1, MoveTyped DEF AuditCall, World, Outside, Locations
  <2>12. CASE PortRaises(r)
    BY <2>12, MoveTyped DEF PortRaises, World, Outside, Locations, Errors
  <2> QED BY <1>10, <2>1, <2>2, <2>3, <2>4, <2>5, <2>6, <2>7, <2>8, <2>9, <2>10, <2>11, <2>12
      DEF Step
<1>11. CASE UNCHANGED vars
  BY <1>11 DEF vars
<1> QED BY <1>1, <1>2, <1>4, <1>5, <1>6, <1>7, <1>8, <1>9, <1>10, <1>11 DEF Next

-----------------------------------------------------------------------------
(* One request at a time *)

\* A step moves at most one request: seen from r, it is a step of r's handler,
\* or it leaves r where it was.
LEMMA OneRequestMoves ==
    ASSUME TypeOK, [Next]_vars, NEW r \in Requests
    PROVE  \/ req'[r] = req[r]
           \/ \E s \in Sessions, t \in Tools, i \in Intents : Begin(r, s, t, i)
           \/ Step(r)
           \/ PortRaises(r)
<1>1. ASSUME NEW q \in Requests, q # r, NEW s \in Sessions, NEW t \in Tools, NEW i \in Intents,
             Begin(q, s, t, i)
      PROVE  req'[r] = req[r]
  BY <1>1 DEF Begin, TypeOK
<1>2. ASSUME NEW q \in Requests, q # r, Step(q) \/ PortRaises(q)
      PROVE  req'[r] = req[r]
  BY <1>2 DEF TypeOK, Step, PortRaises, Goto, Raise, LookupSession, LookupTool, ListPolicies,
              EvaluatePolicy, AuditViolation, GetEmbedding, FindPatterns, ResolveSuggestion,
              AuditInterception, ExecuteTool, AuditCall
<1> QED
  BY <1>1, <1>2 DEF Next, vars, Tick, CreateSession, GetSession, RegisterTool, PatternDecays,
                    AddPolicy, RemovePolicy, CaptureCorrection


\* The two updates of a request that change its location alone, or end it.
Moved(q, n, loc) ==
    /\ n.pc = loc /\ n.error = q.error
    /\ n.session = q.session /\ n.tool = q.tool /\ n.arrived = q.arrived
    /\ n.intent = q.intent
    /\ n.queue = q.queue /\ n.suggested = q.suggested /\ n.effective = q.effective
    /\ n.corrected = q.corrected /\ n.ran = q.ran

LEMMA GotoMoves ==
    ASSUME TypeOK, NEW r \in Requests, NEW loc, Goto(r, loc)
    PROVE  Moved(req[r], req'[r], loc)
  BY DEF TypeOK, Request, Goto, Moved

LEMMA RaiseEnds ==
    ASSUME TypeOK, NEW r \in Requests, NEW err, Raise(r, err)
    PROVE  Moved([req[r] EXCEPT !.error = err], req'[r], "raised")
  BY DEF TypeOK, Request, Raise, Moved


\* Time moves forward; a session, once created, keeps existing and its deadline.
LEMMA WorldMoves ==
    ASSUME TypeOK, \A r \in Requests : LocalsSet(r), [Next]_vars
    PROVE  /\ clock' >= clock
           /\ \A s \in Sessions : sessions[s].status # "none" =>
                sessions'[s].status # "none" /\ sessions'[s].expires = sessions[s].expires
<1> DEFINE SessionsKept == \A s \in Sessions : sessions[s].status # "none" =>
                sessions'[s].status # "none" /\ sessions'[s].expires = sessions[s].expires
<1> USE DEF TypeOK, SessionState
<1>1. ASSUME NEW s \in Sessions, CreateSession(s) \/ GetSession(s)
      PROVE  clock' = clock /\ SessionsKept
  BY <1>1 DEF CreateSession, GetSession, ExpireOnLookup
<1>2. ASSUME NEW r \in Requests, Step(r) \/ PortRaises(r)
      PROVE  clock' = clock /\ SessionsKept
  <2>1. CASE LookupSession(r)
    BY <2>1 DEF LookupSession, ExpireOnLookup, World, Outside, LocalsSet, At
  <2> QED BY <1>2, <2>1 DEF Step, PortRaises, LookupTool, ListPolicies, EvaluatePolicy,
       AuditViolation, GetEmbedding, FindPatterns, ResolveSuggestion, AuditInterception,
       ExecuteTool, AuditCall, World, Outside
<1>3. CASE Tick
  BY <1>3 DEF Tick
<1>4. CASE \/ \E t \in Tools : RegisterTool(t) \/ PatternDecays(t)
           \/ \E p \in Policies : AddPolicy(p) \/ RemovePolicy(p)
           \/ \E t \in Tools, v \in Intents \cup {ZeroVector} : CaptureCorrection(t, v)
           \/ \E r \in Requests, s \in Sessions, t \in Tools, i \in Intents : Begin(r, s, t, i)
           \/ UNCHANGED vars
  <2>1. UNCHANGED <<clock, sessions>>
    BY <1>4 DEF RegisterTool, PatternDecays, AddPolicy, RemovePolicy, CaptureCorrection,
                Begin, vars
  <2> QED BY <2>1
<1> QED
  BY <1>1, <1>2, <1>3, <1>4 DEF Next

ReqInv(r) == LocalsSet(r) /\ ShadowKeepsTool(r) /\ PoliciesChecked(r) /\ SessionChecked(r)

\* A request that does not move keeps its invariant, whatever the others do.
LEMMA BystanderKeeps ==
    ASSUME TypeOK, \A r \in Requests : LocalsSet(r), [Next]_vars,
           NEW r \in Requests, ReqInv(r), req'[r] = req[r]
    PROVE  ReqInv(r)'
<1>1. /\ standing'[r] \subseteq standing[r]
      /\ standing[r] \subseteq policies => standing'[r] \subseteq policies'
  <2>1. ASSUME NEW q \in Requests, Step(q) \/ PortRaises(q)
        PROVE  UNCHANGED <<policies, standing>>
    BY <2>1 DEF Step, PortRaises, LookupSession, LookupTool, ListPolicies, EvaluatePolicy,
       AuditViolation, GetEmbedding, FindPatterns, ResolveSuggestion, AuditInterception,
       ExecuteTool, AuditCall, World, Outside
  <2>2. ASSUME NEW q \in Requests, NEW s \in Sessions, NEW t \in Tools, NEW i \in Intents,
               Begin(q, s, t, i)
        PROVE  policies' = policies /\ standing'[r] = standing[r]
    BY <2>2 DEF Begin, IdleRequest, TypeOK, Request
  <2> QED
    BY <2>1, <2>2 DEF Next, vars, Tick, CreateSession, GetSession, RegisterTool, PatternDecays,
                      AddPolicy, RemovePolicy, CaptureCorrection, TypeOK
<1>2. LocalsSet(r)' /\ ShadowKeepsTool(r)'
  BY DEF ReqInv, LocalsSet, ShadowKeepsTool, Executed
<1>3. PoliciesChecked(r)'
  <2>1. ASSUME NEW p \in standing'[r] \cap Relevant PROVE p \in standing[r] \cap Relevant
    BY <1>1
  <2>2. PoliciesChecked(r)
    BY DEF ReqInv
  <2> QED BY <1>1, <2>1, <2>2 DEF PoliciesChecked, Executed
<1>4. SessionChecked(r)'
  <2>1. req[r].arrived \in Nat /\ clock \in Nat /\ clock' \in Nat
    BY TypeStep DEF TypeOK, Request
  <2>2. req[r].pc # "idle" => req[r].session \in Sessions
    BY DEF ReqInv, LocalsSet
  <2>3. Executed(r) => req[r].pc # "idle"
    BY DEF ReqInv, LocalsSet
  <2>4. \A q \in Sessions : sessions[q].status # "none" =>
          sessions'[q].status # "none" /\ sessions'[q].expires = sessions[q].expires
    BY WorldMoves
  <2>5. clock' >= clock
    BY WorldMoves
  <2>6. SessionChecked(r)
    BY DEF ReqInv
  <2> QED BY <2>1, <2>2, <2>3, <2>4, <2>5, <2>6 DEF SessionChecked, Executed, Permitted, InCle
<1> QED BY <1>2, <1>3, <1>4 DEF ReqInv

\* A request that begins satisfies its invariant.
LEMMA BeginKeeps ==
    ASSUME TypeOK, NEW r \in Requests, NEW s \in Sessions, NEW t \in Tools, NEW i \in Intents,
           Begin(r, s, t, i)
    PROVE  ReqInv(r)'
<1>1. /\ req'[r] = [IdleRequest EXCEPT !.pc = "session", !.session = s, !.tool = t,
                       !.intent = i, !.arrived = clock, !.effective = t]
      /\ standing'[r] = policies /\ UNCHANGED <<clock, policies, sessions>>
  BY DEF Begin, TypeOK
<1>2. LocalsSet(r)' /\ ShadowKeepsTool(r)'
  BY <1>1 DEF IdleRequest, LocalsSet, ShadowKeepsTool, Executed, InFlight, Locations
<1>3. PoliciesChecked(r)' /\ SessionChecked(r)'
  BY <1>1 DEF IdleRequest, PoliciesChecked, SessionChecked, Executed, Permitted, InCle, TypeOK
<1> QED BY <1>2, <1>3 DEF ReqInv

\* A step of the request's own handler, or a port that raises in it, keeps the
\* invariant of the request.
LEMMA OwnStepKeeps ==
    ASSUME TypeOK, \A q \in Requests : LocalsSet(q), [Next]_vars,
           NEW r \in Requests, ReqInv(r), Step(r) \/ PortRaises(r)
    PROVE  ReqInv(r)'
<1> USE DEF ReqInv, LocalsSet, ShadowKeepsTool, PoliciesChecked, SessionChecked, Executed,
            Permitted, InCle, InFlight, Locations, At
<1>0. req[r] \in Request
  BY DEF TypeOK
\* Raising ends the request with nothing run since.
<1>1. ASSUME NEW err \in Errors \ {"none"}, req[r].pc \in InFlight, Raise(r, err),
             UNCHANGED <<clock, standing>>,
             sessions' = sessions \/ req[r].pc = "session"
      PROVE  ReqInv(r)'
  BY <1>1, RaiseEnds, <1>0 DEF Moved, Request
<1>2. CASE LookupSession(r)
  <2>1. ASSUME IsActive(req[r].session), Goto(r, "registry") PROVE ReqInv(r)'
    <3>1. /\ sessions' = sessions
          /\ sessions[req[r].session].status # "none"
          /\ ~(clock >= sessions[req[r].session].expires)
          /\ UNCHANGED <<clock, policies, standing>>
      BY <1>2, <2>1 DEF LookupSession, IsActive, IsExpired, ExpireOnLookup, World, Outside
    <3>2. /\ clock \in Nat /\ req[r].arrived \in Nat
          /\ sessions[req[r].session].expires \in Nat
      BY <1>0, <1>2 DEF TypeOK, SessionState, LookupSession, Request
    <3>3. req[r].arrived < sessions[req[r].session].expires
      BY <3>1, <3>2
    <3> QED BY <1>2, <2>1, <3>1, <3>3, GotoMoves DEF Moved, LookupSession
  <2>2. ASSUME NEW err \in {"SessionNotFound", "SessionExpired"}, Raise(r, err)
        PROVE ReqInv(r)'
    BY <1>1, <1>2, <2>2 DEF LookupSession, World, Outside, Errors
  <2> QED BY <1>2, <2>1, <2>2 DEF LookupSession
<1>3. CASE LookupTool(r)
  <2>1. ASSUME Goto(r, "policies") PROVE ReqInv(r)'
    BY <1>3, <2>1, GotoMoves DEF Moved, LookupTool, World, Outside
  <2> QED BY <1>1, <1>3, <2>1 DEF LookupTool, World, Outside, Errors
<1>4. CASE ListPolicies(r)
  <2> DEFINE queue == policies \cap Relevant
             loc == IF queue = {} THEN AfterPolicies ELSE "evaluate"
  <2>1. req'[r] = [req[r] EXCEPT !.queue = queue, !.pc = loc]
    BY <1>4 DEF ListPolicies, TypeOK
  <2>2. loc \in {"evaluate", "embed", "execute"} /\ (loc # "evaluate" => queue = {})
    BY DEF AfterPolicies
  <2>3. standing[r] \subseteq policies
    BY <1>4 DEF ListPolicies
  <2>4. \A p \in standing[r] \cap Relevant : p \in queue
    BY <2>3
  <2>5. loc # "evaluate" => \A p \in standing[r] \cap Relevant : FALSE
    BY <2>2, <2>4
  <2> HIDE DEF queue, loc
  <2>6. At(r, "policies") /\ UNCHANGED <<clock, policies, standing, sessions>>
    BY <1>4 DEF ListPolicies, World, Outside
  <2>7. LocalsSet(r)' /\ ShadowKeepsTool(r)' /\ SessionChecked(r)'
    BY <1>0, <2>1, <2>2, <2>6 DEF Request
  <2>8. PoliciesChecked(r)'
    BY <1>0, <2>1, <2>2, <2>4, <2>5, <2>6 DEF Request
  <2> QED BY <2>7, <2>8
<1>5. ASSUME NEW p \in Policies, EvaluatePolicy(r, p) PROVE ReqInv(r)'
  <2>1. CASE req[r].tool \in Denied[p]
    <3>1. req'[r] = [req[r] EXCEPT !.pc = "violation", !.queue = {p}]
      BY <1>5, <2>1 DEF EvaluatePolicy, TypeOK
    <3> QED BY <1>0, <1>5, <2>1, <3>1 DEF EvaluatePolicy, World, Outside, Request
  <2>2. CASE req[r].tool \notin Denied[p]
    <3> DEFINE loc == IF req[r].queue = {p} THEN AfterPolicies ELSE "evaluate"
    <3>1. req'[r] = [req[r] EXCEPT !.queue = req[r].queue \ {p}, !.pc = loc]
      BY <1>5, <2>2 DEF EvaluatePolicy, TypeOK
    <3>2. /\ loc \in {"evaluate", "embed", "execute"}
          /\ loc # "evaluate" => req[r].queue = {p}
      BY DEF AfterPolicies
    <3> HIDE DEF loc
    <3>3. \A x \in standing[r] \cap Relevant :
             x \in req[r].queue \ {p} \/ req[r].tool \notin Denied[x]
      BY <1>5, <2>2 DEF EvaluatePolicy
    <3>4. loc # "evaluate" => \A x \in standing[r] \cap Relevant : req[r].tool \notin Denied[x]
      BY <3>2, <3>3
    <3> QED BY <1>0, <1>5, <3>1, <3>2, <3>3, <3>4 DEF EvaluatePolicy, World, Outside, Request
  <2> QED BY <2>1, <2>2
<1>6. ASSUME NEW p \in Policies, AuditViolation(r, p) PROVE ReqInv(r)'
  BY <1>1, <1>6 DEF AuditViolation, World, Outside, Errors
<1>7. CASE GetEmbedding(r)
  BY <1>7, GotoMoves DEF GetEmbedding, Moved, World, Outside
<1>8. CASE FindPatterns(r)
  <2>1. CASE Goto(r, "execute")
    <3>1. At(r, "patterns") /\ UNCHANGED <<clock, policies, standing, sessions>>
      BY <1>8 DEF FindPatterns, World, Outside
    <3> QED BY <2>1, <3>1, GotoMoves DEF Moved
  <2>2. CASE ~Goto(r, "execute")
    <3> DEFINE loc == IF ShadowMode THEN "intercept" ELSE "suggest"
    <3>1. PICK t \in Tools : req' = [req EXCEPT ![r] = [@ EXCEPT !.suggested = t, !.pc = loc]]
      BY <1>8, <2>2 DEF FindPatterns, Best
    <3>2. req'[r] = [req[r] EXCEPT !.suggested = t, !.pc = loc]
      BY <3>1 DEF TypeOK
    <3>3. loc \in {"intercept", "suggest"} /\ (ShadowMode => loc # "suggest")
      OBVIOUS
    <3> HIDE DEF loc
    <3> QED BY <1>0, <1>8, <3>2, <3>3 DEF FindPatterns, World, Outside, Request
  <2> QED BY <2>1, <2>2
<1>9. CASE ResolveSuggestion(r)
  <2> DEFINE applied == req[r].suggested \in tools
             tool == IF applied THEN req[r].suggested ELSE req[r].effective
  <2>1. req'[r] = [req[r] EXCEPT !.pc = "intercept", !.corrected = applied,
                                   !.effective = tool]
    BY <1>9 DEF ResolveSuggestion, TypeOK
  <2>2. tool \in Tools /\ (~applied => tool = req[r].effective)
    BY <1>9 DEF ResolveSuggestion
  <2> HIDE DEF applied, tool
  <2>3. At(r, "suggest") /\ UNCHANGED <<clock, policies, standing, sessions>>
    BY <1>9 DEF ResolveSuggestion, World, Outside
  <2>4. LocalsSet(r)'
    BY <1>0, <2>1, <2>2, <2>3 DEF Request
  <2>5. ShadowKeepsTool(r)' /\ PoliciesChecked(r)' /\ SessionChecked(r)'
    BY <1>0, <2>1, <2>2, <2>3 DEF Request
  <2> QED BY <2>4, <2>5
<1>10. CASE AuditInterception(r)
  BY <1>10, GotoMoves DEF AuditInterception, Moved, World, Outside
<1>11. CASE ExecuteTool(r)
  <2>1. req'[r] = [req[r] EXCEPT !.pc = "record", !.ran = req[r].effective]
    BY <1>11 DEF ExecuteTool, TypeOK
  <2> QED BY <1>0, <1>11, <2>1 DEF ExecuteTool, World, Outside, Request
<1>12. CASE AuditCall(r)
  BY <1>12, GotoMoves DEF AuditCall, Moved, World, Outside
<1>13. CASE PortRaises(r)
  <2>1. CASE req[r].pc \in InCle
    BY <1>13, <2>1, GotoMoves DEF PortRaises, Moved, World, Outside
  <2>2. CASE req[r].pc \notin InCle
    BY <1>1, <1>13, <2>2 DEF PortRaises, World, Outside, Errors
  <2> QED BY <2>1, <2>2
<1> QED
  BY <1>2, <1>3, <1>4, <1>5, <1>6, <1>7, <1>8, <1>9, <1>10, <1>11, <1>12, <1>13 DEF Step

-----------------------------------------------------------------------------
(* The audit trail *)

\* A step that writes no more than CLEInterception events and moves no request that the trail names keeps
\* the trail in accord with the requests.
LEMMA AuditFrame ==
    ASSUME TypeOK, AuditedSoFar, audit \subseteq audit',
           \A e \in audit' : e \in audit \/ e.type = "CLEInterception",
           \A q \in Requests :
              \/ req'[q] = req[q]
              \/ /\ req[q].pc \notin {"returned", "raised"}
                 /\ req'[q].pc # "returned" /\ req'[q].error # "PolicyViolation"
    PROVE  AuditedSoFar'
<1> USE DEF AuditedSoFar, Events, At, Executed
<1>1. \A e \in audit : e.type \in {"ToolCalled", "PolicyViolation"} => e.req \in Requests
  BY DEF TypeOK, AuditRecord, ToolCalledEvent, PolicyViolationEvent, CLEInterceptionEvent
<1>2. ASSUME NEW q \in Requests
      PROVE  /\ At(q, "returned")' => [type |-> "ToolCalled", req |-> q, tool |-> req'[q].ran,
                                       corrected |-> req'[q].corrected] \in audit'
             /\ req'[q].error = "PolicyViolation" =>
                  \E e \in Events("PolicyViolation")' : e.req = q
  OBVIOUS
<1>3. ASSUME NEW e \in Events("ToolCalled")
      PROVE  At(e.req, "returned")' /\ req'[e.req].ran = e.tool
  BY <1>1
<1>4. ASSUME NEW e \in Events("PolicyViolation")
      PROVE  At(e.req, "raised")' /\ ~Executed(e.req)' /\ req'[e.req].tool \in Denied[e.policy]
  BY <1>1
<1> QED BY <1>2, <1>3, <1>4


\* Only AuditCall returns, and only AuditViolation raises PolicyViolation.
LEMMA OtherwiseQuiet ==
    ASSUME TypeOK, NEW r \in Requests, LocalsSet(r), Step(r) \/ PortRaises(r),
           ~AuditCall(r), \A p \in Policies : ~AuditViolation(r, p)
    PROVE  /\ req[r].pc \notin {"returned", "raised"}
           /\ req'[r].pc # "returned" /\ req'[r].error # "PolicyViolation"
<1> DEFINE Quiet == /\ req[r].pc \notin {"returned", "raised"}
                    /\ req'[r].pc # "returned" /\ req'[r].error # "PolicyViolation"
<1>0. req[r] \in Request
  BY DEF TypeOK
<1>1. ASSUME NEW loc \in Locations \ {"returned"}, req[r].pc \in InFlight, Goto(r, loc)
      PROVE  Quiet
  BY <1>1, GotoMoves DEF Moved, LocalsSet, InFlight
<1>2. ASSUME NEW err \in Errors \ {"PolicyViolation"}, req[r].pc \in InFlight, Raise(r, err)
      PROVE  Quiet
  BY <1>0, <1>2, RaiseEnds DEF Moved, InFlight, Request
<1>3. CASE LookupSession(r) \/ LookupTool(r)
  BY <1>1, <1>2, <1>3 DEF LookupSession, LookupTool, At, InFlight, Locations, Errors
<1>4. CASE ListPolicies(r)
  <2> DEFINE loc == IF policies \cap Relevant = {} THEN AfterPolicies ELSE "evaluate"
  <2>1. req'[r] = [req[r] EXCEPT !.queue = policies \cap Relevant, !.pc = loc]
    BY <1>4 DEF ListPolicies, TypeOK
  <2>2. loc \in {"evaluate", "embed", "execute"}
    BY DEF AfterPolicies
  <2> HIDE DEF loc
  <2>3. req[r].pc = "policies" /\ req[r].error = "none"
    BY <1>4 DEF ListPolicies, At, LocalsSet, InFlight, Locations
  <2>4. req'[r].pc \in {"evaluate", "embed", "execute"} /\ req'[r].error = "none"
    BY <1>0, <2>1, <2>2, <2>3 DEF Request
  <2> QED BY <2>3, <2>4
<1>5. ASSUME NEW p \in Policies, EvaluatePolicy(r, p) PROVE Quiet
  <2> DEFINE loc == IF req[r].queue = {p} THEN AfterPolicies ELSE "evaluate"
  <2>1. \/ req'[r] = [req[r] EXCEPT !.pc = "violation", !.queue = {p}]
        \/ req'[r] = [req[r] EXCEPT !.queue = req[r].queue \ {p}, !.pc = loc]
    BY <1>5 DEF EvaluatePolicy, TypeOK
  <2>2. loc \in {"evaluate", "embed", "execute"}
    BY DEF AfterPolicies
  <2> HIDE DEF loc
  <2>3. req[r].pc = "evaluate" /\ req[r].error = "none"
    BY <1>5 DEF EvaluatePolicy, At, LocalsSet, InFlight, Locations
  <2>4. req'[r].pc \in {"violation", "evaluate", "embed", "execute"} /\ req'[r].error = "none"
    BY <1>0, <2>1, <2>2, <2>3 DEF Request
  <2> QED BY <2>3, <2>4
<1>6. CASE GetEmbedding(r) \/ AuditInterception(r)
  BY <1>1, <1>6 DEF GetEmbedding, AuditInterception, At, InFlight, Locations
<1>7. CASE FindPatterns(r)
  <2> DEFINE loc == IF ShadowMode THEN "intercept" ELSE "suggest"
  <2>1. ASSUME NEW t \in Tools, req' = [req EXCEPT ![r] = [@ EXCEPT !.suggested = t, !.pc = loc]]
        PROVE  Quiet
    <3>1. req'[r] = [req[r] EXCEPT !.suggested = t, !.pc = loc]
      BY <2>1 DEF TypeOK
    <3>2. loc \in {"intercept", "suggest"}
      OBVIOUS
    <3> HIDE DEF loc
    <3> QED BY <1>0, <1>7, <3>1, <3>2 DEF FindPatterns, At, LocalsSet, InFlight, Locations, Request
  <2> QED BY <1>1, <1>7, <2>1 DEF FindPatterns, Best, At, InFlight, Locations
<1>8. CASE ResolveSuggestion(r) \/ ExecuteTool(r)
  <2>2. CASE ResolveSuggestion(r)
    <3>1. req'[r].pc = "intercept" /\ req'[r].error = req[r].error
      BY <1>0, <2>2 DEF ResolveSuggestion, TypeOK, Request
    <3> QED BY <2>2, <3>1 DEF ResolveSuggestion, At, LocalsSet, InFlight, Locations
  <2>3. CASE ExecuteTool(r)
    <3>1. req'[r].pc = "record" /\ req'[r].error = req[r].error
      BY <1>0, <2>3 DEF ExecuteTool, TypeOK, Request
    <3> QED BY <2>3, <3>1 DEF ExecuteTool, At, LocalsSet, InFlight, Locations
  <2> QED BY <1>8, <2>2, <2>3
<1>9. CASE PortRaises(r)
  BY <1>1, <1>2, <1>9 DEF PortRaises, InFlight, Locations, Errors
<1> QED BY <1>3, <1>4, <1>5, <1>6, <1>7, <1>8, <1>9 DEF Step

\* No step lets the audit trail and the requests drift apart.
LEMMA AuditStep ==
    ASSUME TypeOK, \A q \in Requests : ReqInv(q), AuditedSoFar, [Next]_vars
    PROVE  AuditedSoFar'
<1>0. \A q \in Requests : LocalsSet(q)
  BY DEF ReqInv
<1>1. ASSUME NEW r \in Requests, AuditCall(r) PROVE AuditedSoFar'
  <2>1. Goto(r, "returned") /\ At(r, "record")
    BY <1>1 DEF AuditCall
  <2>2. \A q \in Requests \ {r} : req'[q] = req[q]
    BY <2>1 DEF Goto, TypeOK
  <2>3. /\ req'[r].pc = "returned" /\ req'[r].ran = req[r].ran
        /\ req'[r].corrected = req[r].corrected /\ req'[r].error = "none"
    BY <1>0, <2>1, GotoMoves DEF Moved, LocalsSet, InFlight, Locations, At
  <2>4. \A e \in audit : e.type \in {"ToolCalled", "PolicyViolation"} =>
           e.req \in Requests \ {r}
    BY <2>1 DEF AuditedSoFar, Events, At, TypeOK, AuditRecord, ToolCalledEvent, PolicyViolationEvent, CLEInterceptionEvent
  <2> DEFINE new == [type |-> "ToolCalled", req |-> r, tool |-> req[r].ran,
                     corrected |-> req[r].corrected]
  <2>5. audit' = audit \cup {new}
    BY <1>1 DEF AuditCall
  <2> QED BY <2>2, <2>3, <2>4, <2>5 DEF AuditedSoFar, Events, At, Executed
<1>2. ASSUME NEW r \in Requests, NEW p \in Policies, AuditViolation(r, p) PROVE AuditedSoFar'
  <2>1. Raise(r, "PolicyViolation") /\ At(r, "violation") /\ p \in req[r].queue
    BY <1>2 DEF AuditViolation
  <2>2. \A q \in Requests \ {r} : req'[q] = req[q]
    BY <2>1 DEF Raise, TypeOK
  <2>3. /\ req'[r].pc = "raised" /\ req'[r].ran = NoTool /\ req'[r].tool = req[r].tool
        /\ req[r].tool \in Denied[p]
    BY <2>1, RaiseEnds DEF Moved, ReqInv, LocalsSet, PoliciesChecked, InFlight, Locations, At,
                           TypeOK, Request
  <2>4. \A e \in audit : e.type \in {"ToolCalled", "PolicyViolation"} =>
           e.req \in Requests \ {r}
    BY <2>1 DEF AuditedSoFar, Events, At, TypeOK, AuditRecord, ToolCalledEvent, PolicyViolationEvent, CLEInterceptionEvent
  <2> DEFINE new == [type |-> "PolicyViolation", req |-> r, policy |-> p]
  <2>5. audit' = audit \cup {new}
    BY <1>2 DEF AuditViolation
  <2> QED BY <2>2, <2>3, <2>4, <2>5 DEF AuditedSoFar, Events, At, Executed
<1>3. CASE /\ \A r \in Requests : ~AuditCall(r)
           /\ \A r \in Requests, p \in Policies : ~AuditViolation(r, p)
  <2>1. /\ audit \subseteq audit'
        /\ \A e \in audit' : e \in audit \/ e.type = "CLEInterception"
    <3>1. ASSUME NEW r \in Requests, Step(r) \/ PortRaises(r)
          PROVE  \/ audit' = audit
                 \/ \E e : audit' = audit \cup {e} /\ e.type = "CLEInterception"
      <4>1. CASE AuditInterception(r)
        BY <4>1 DEF AuditInterception
      <4>2. CASE ~AuditInterception(r)
        BY <1>3, <3>1, <4>2 DEF Step, PortRaises, LookupSession, LookupTool, ListPolicies,
           EvaluatePolicy, GetEmbedding, FindPatterns, ResolveSuggestion, ExecuteTool
      <4> QED BY <4>1, <4>2
    <3>2. CASE \A r \in Requests : ~Step(r) /\ ~PortRaises(r)
      BY <3>2 DEF Next, vars, Tick, CreateSession, GetSession, RegisterTool, PatternDecays,
                  AddPolicy, RemovePolicy, CaptureCorrection, Begin
    <3> QED BY <3>1, <3>2
  <2>2. ASSUME NEW q \in Requests
        PROVE  \/ req'[q] = req[q]
               \/ /\ req[q].pc \notin {"returned", "raised"}
                  /\ req'[q].pc # "returned" /\ req'[q].error # "PolicyViolation"
    <3>1. ASSUME NEW s \in Sessions, NEW t \in Tools, NEW i \in Intents, Begin(q, s, t, i)
          PROVE  /\ req[q].pc = "idle"
                 /\ req'[q].pc = "session" /\ req'[q].error = "none"
      BY <3>1 DEF Begin, IdleRequest, TypeOK
    <3> QED BY <1>0, <1>3, <3>1, OneRequestMoves, OtherwiseQuiet
  <2> QED BY <2>1, <2>2, AuditFrame
<1> QED BY <1>1, <1>2, <1>3

-----------------------------------------------------------------------------
(* The theorems *)

\* IndInv holds initially: no request has begun and the trail is empty.
LEMMA InitInv == Init => IndInv
<1> SUFFICES ASSUME Init PROVE IndInv
  OBVIOUS
<1>1. IdleRequest \in Request
  BY DEF IdleRequest, Request, Locations, Errors
<1>2. TypeOK
  BY <1>1 DEF Init, TypeOK, SessionState, PatternState
<1>3. ASSUME NEW r \in Requests
      PROVE  LocalsSet(r) /\ ShadowKeepsTool(r) /\ PoliciesChecked(r) /\ SessionChecked(r)
  BY DEF Init, IdleRequest, LocalsSet, ShadowKeepsTool, PoliciesChecked, SessionChecked,
         Executed, Permitted, InCle, InFlight, Locations
<1>4. AuditedSoFar
  BY DEF Init, IdleRequest, AuditedSoFar, Events, At, Executed
<1> QED BY <1>2, <1>3, <1>4 DEF IndInv

\* IndInv is inductive.
LEMMA NextInv == IndInv /\ [Next]_vars => IndInv'
<1> SUFFICES ASSUME IndInv, [Next]_vars PROVE IndInv'
  OBVIOUS
<1>1. TypeOK /\ AuditedSoFar /\ \A r \in Requests : LocalsSet(r) /\ ReqInv(r)
  BY DEF IndInv, ReqInv
<1>2. TypeOK'
  BY <1>1, TypeStep
<1>3. ASSUME NEW r \in Requests PROVE ReqInv(r)'
  BY <1>1, OneRequestMoves, BystanderKeeps, BeginKeeps, OwnStepKeeps
<1>4. AuditedSoFar'
  BY <1>1, AuditStep
<1> QED BY <1>2, <1>3, <1>4 DEF IndInv, ReqInv

\* Every reachable state satisfies the inductive invariant.
THEOREM Invariance == Spec => []IndInv
<1>1. Init => IndInv
  BY InitInv
<1>2. IndInv /\ [Next]_vars => IndInv'
  BY NextInv
<1> QED BY <1>1, <1>2, PTL DEF Spec

\* The dispatcher never leaves its types: in particular a substituted tool, an
\* audited tool and a suggestion are always tools, whatever port fails where.
THEOREM TypeCorrect == Spec => []TypeOK
<1>1. IndInv => TypeOK
  BY DEF IndInv
<1> QED BY <1>1, Invariance, PTL

\* In either mode, the tool a client asked for runs, or is replaced, only if no
\* policy that stood since the request's arrival denies it.
THEOREM RequestedToolPermitted ==
    Spec => [](\A r \in Requests : Executed(r) =>
                 \A p \in standing[r] \cap Relevant : req[r].tool \notin Denied[p])
<1>1. IndInv => \A r \in Requests : Executed(r) =>
                 \A p \in standing[r] \cap Relevant : req[r].tool \notin Denied[p]
  BY DEF IndInv, PoliciesChecked
<1> QED BY <1>1, Invariance, PTL

\* In shadow mode, the default, the policies are a hard block: no tool runs that
\* a standing policy denies (policy.py:5), for any number of concurrent requests,
\* policy changes and port failures.
THEOREM ShadowModeHardBlock ==
    ASSUME ShadowMode
    PROVE  Spec => []NoStandingPolicyBypassed
<1>1. IndInv => NoStandingPolicyBypassed
  BY DEF IndInv, NoStandingPolicyBypassed, PoliciesChecked, ShadowKeepsTool, LocalsSet
<1> QED BY <1>1, Invariance, PTL

\* A request that arrives at or after its session's deadline runs nothing.
THEOREM ExpiryRespected == Spec => []NoExecutionAfterExpiry
<1>1. IndInv => NoExecutionAfterExpiry
  BY DEF IndInv, NoExecutionAfterExpiry, SessionChecked
<1> QED BY <1>1, Invariance, PTL

\* The audit trail and the executions agree in both directions.
THEOREM AuditAgrees == Spec => []AuditMatchesExecution
<1>1. ASSUME IndInv PROVE AuditMatchesExecution
  <2>1. ASSUME NEW r \in Requests, At(r, "returned")
        PROVE  \E e \in Events("ToolCalled") : /\ e.req = r /\ e.tool = req[r].ran
                                               /\ req[r].ran # req[r].tool => e.corrected
    <3> DEFINE e == [type |-> "ToolCalled", req |-> r, tool |-> req[r].ran,
                     corrected |-> req[r].corrected]
    <3>1. e \in Events("ToolCalled")
      BY <1>1, <2>1 DEF IndInv, AuditedSoFar, Events
    <3>2. req[r].ran # req[r].tool => req[r].corrected
      BY <1>1, <2>1 DEF IndInv, LocalsSet, At
    <3> QED BY <3>1, <3>2
  <2>2. \A e \in Events("ToolCalled") : Executed(e.req) /\ req[e.req].ran = e.tool
    <3> SUFFICES ASSUME NEW e \in Events("ToolCalled") PROVE req[e.req].ran # NoTool
      BY <1>1 DEF IndInv, AuditedSoFar, Executed
    <3>1. e.req \in Requests /\ e.tool \in Tools /\ req[e.req].ran = e.tool
      BY <1>1 DEF IndInv, AuditedSoFar, TypeOK, Events, AuditRecord, ToolCalledEvent, PolicyViolationEvent, CLEInterceptionEvent
    <3> QED BY <3>1, NoneAssumption
  <2> QED BY <1>1, <2>1, <2>2 DEF IndInv, AuditedSoFar, AuditMatchesExecution
<1> QED BY <1>1, Invariance, PTL

-----------------------------------------------------------------------------
(* What the CLE decides *)

\* Before the execution, and not at the audit write of the CLE.
Early == {"session", "registry", "policies", "evaluate", "violation", "embed", "patterns",
          "suggest"}

\* The event with which the CLE reports what it has decided for request r.
Interception(r) == [type |-> "CLEInterception", req |-> r, suggested |-> req[r].suggested,
                    applied |-> req[r].corrected]

\* A step that leaves the CLE's part of the request alone.
Passes(r, q, n) ==
    /\ n.tool = q.tool /\ n.intent = q.intent /\ n.suggested = q.suggested
    /\ n.effective = q.effective /\ n.corrected = q.corrected
    /\ n.pc = "record" \/ n.ran = q.ran
    /\ \/ q.pc \in Early /\ n.pc \in Early \cup {"execute", "raised"}
       \/ /\ q.pc = "intercept" /\ n.pc = "execute"
          /\ (r \in unwritten' /\ "audit" \in Fallible) \/ Interception(r) \in audit'
       \/ q.pc \in {"execute", "record"} /\ n.pc \in {"record", "returned", "raised"}

\* The two steps that do not: a pattern is found, its tool is taken or not.
Finds(q, n) ==
    /\ q.pc = "patterns" /\ n.pc \in {"suggest", "intercept"}
    /\ n.suggested \in Best(q.intent)
    /\ n.tool = q.tool /\ n.intent = q.intent /\ n.ran = q.ran
    /\ n.effective = q.effective /\ n.corrected = q.corrected

Resolves(q, n) ==
    /\ q.pc = "suggest" /\ n.pc = "intercept"
    /\ n.effective = IF n.corrected THEN q.suggested ELSE q.effective
    /\ n.tool = q.tool /\ n.intent = q.intent /\ n.suggested = q.suggested /\ n.ran = q.ran

LEMMA HandlerMoves ==
    ASSUME TypeOK, NEW r \in Requests, Step(r) \/ PortRaises(r)
    PROVE  \/ Passes(r, req[r], req'[r])
           \/ Finds(req[r], req'[r])
           \/ Resolves(req[r], req'[r])
<1> USE DEF At, Early
<1>0. req[r] \in Request
  BY DEF TypeOK
<1>1. ASSUME NEW loc \in Early \cup {"execute"}, req[r].pc \in Early, Goto(r, loc)
      PROVE  Passes(r, req[r], req'[r])
  BY <1>1, GotoMoves DEF Moved, Passes
<1>2. ASSUME NEW err, req[r].pc \in Early \cup {"execute", "record"}, Raise(r, err)
      PROVE  Passes(r, req[r], req'[r])
  <2>1. Moved([req[r] EXCEPT !.error = err], req'[r], "raised")
    BY <1>2, RaiseEnds
  <2> QED BY <1>0, <1>2, <2>1 DEF Moved, Passes, Request
<1>3. CASE LookupSession(r) \/ LookupTool(r)
  BY <1>1, <1>2, <1>3 DEF LookupSession, LookupTool
<1>4. CASE ListPolicies(r)
  <2> DEFINE loc == IF policies \cap Relevant = {} THEN AfterPolicies ELSE "evaluate"
  <2>1. req'[r] = [req[r] EXCEPT !.queue = policies \cap Relevant, !.pc = loc]
    BY <1>4 DEF ListPolicies, TypeOK
  <2>2. loc \in {"evaluate", "embed", "execute"}
    BY DEF AfterPolicies
  <2> HIDE DEF loc
  <2>3. req[r].pc = "policies"
    BY <1>4 DEF ListPolicies
  <2> QED BY <1>0, <2>1, <2>2, <2>3 DEF Passes, Request
<1>5. ASSUME NEW p \in Policies, EvaluatePolicy(r, p) PROVE Passes(r, req[r], req'[r])
  <2> DEFINE loc == IF req[r].queue = {p} THEN AfterPolicies ELSE "evaluate"
  <2>1. \/ req'[r] = [req[r] EXCEPT !.pc = "violation", !.queue = {p}]
        \/ req'[r] = [req[r] EXCEPT !.queue = req[r].queue \ {p}, !.pc = loc]
    BY <1>5 DEF EvaluatePolicy, TypeOK
  <2>2. loc \in {"evaluate", "embed", "execute"}
    BY DEF AfterPolicies
  <2> HIDE DEF loc
  <2>3. req[r].pc = "evaluate"
    BY <1>5 DEF EvaluatePolicy
  <2> QED BY <1>0, <2>1, <2>2, <2>3 DEF Passes, Request
<1>6. ASSUME NEW p \in Policies, AuditViolation(r, p) PROVE Passes(r, req[r], req'[r])
  BY <1>2, <1>6 DEF AuditViolation
<1>7. CASE GetEmbedding(r)
  BY <1>1, <1>7 DEF GetEmbedding
<1>8. CASE FindPatterns(r)
  <2> DEFINE loc == IF ShadowMode THEN "intercept" ELSE "suggest"
  <2>1. ASSUME NEW t \in Best(req[r].intent),
               req' = [req EXCEPT ![r] = [@ EXCEPT !.suggested = t, !.pc = loc]]
        PROVE  Finds(req[r], req'[r])
    <3>1. req'[r] = [req[r] EXCEPT !.suggested = t, !.pc = loc]
      BY <2>1 DEF TypeOK
    <3>2. loc \in {"intercept", "suggest"}
      OBVIOUS
    <3> HIDE DEF loc
    <3>3. req[r].pc = "patterns"
      BY <1>8 DEF FindPatterns
    <3>4. req'[r].suggested = t /\ req'[r].pc = loc
      BY <1>0, <3>1 DEF Request
    <3>5. /\ req'[r].tool = req[r].tool /\ req'[r].intent = req[r].intent
          /\ req'[r].ran = req[r].ran /\ req'[r].effective = req[r].effective
          /\ req'[r].corrected = req[r].corrected
      BY <1>0, <3>1 DEF Request
    <3> QED BY <3>2, <3>3, <3>4, <3>5 DEF Finds
  <2> QED BY <1>1, <1>8, <2>1 DEF FindPatterns
<1>9. CASE ResolveSuggestion(r)
  <2> DEFINE applied == req[r].suggested \in tools
             tool == IF applied THEN req[r].suggested ELSE req[r].effective
  <2>1. req'[r] = [req[r] EXCEPT !.pc = "intercept", !.corrected = applied, !.effective = tool]
    BY <1>9 DEF ResolveSuggestion, TypeOK
  <2>2. req[r].pc = "suggest"
    BY <1>9 DEF ResolveSuggestion
  <2>3. tool = IF applied THEN req[r].suggested ELSE req[r].effective
    OBVIOUS
  <2> HIDE DEF applied, tool
  <2>4. req'[r].corrected = applied /\ req'[r].effective = tool
    BY <1>0, <2>1 DEF Request
  <2>5. /\ req'[r].pc = "intercept" /\ req'[r].tool = req[r].tool
        /\ req'[r].intent = req[r].intent /\ req'[r].suggested = req[r].suggested
        /\ req'[r].ran = req[r].ran
    BY <1>0, <2>1 DEF Request
  <2> QED BY <2>2, <2>3, <2>4, <2>5 DEF Resolves
<1>10. CASE AuditInterception(r)
  <2>1. /\ req[r].pc = "intercept" /\ Goto(r, "execute")
        /\ Interception(r) \in audit'
    BY <1>10 DEF AuditInterception, Interception
  <2> QED BY <2>1, GotoMoves DEF Moved, Passes
<1>11. CASE ExecuteTool(r)
  <2>1. req'[r] = [req[r] EXCEPT !.pc = "record", !.ran = req[r].effective]
    BY <1>11 DEF ExecuteTool, TypeOK
  <2>2. req[r].pc = "execute"
    BY <1>11 DEF ExecuteTool
  <2> QED BY <1>0, <2>1, <2>2 DEF Passes, Request
<1>12. CASE AuditCall(r)
  BY <1>12, GotoMoves DEF AuditCall, Moved, Passes
<1>13. CASE PortRaises(r)
  <2>1. CASE req[r].pc \in {"embed", "patterns", "suggest"}
    BY <1>1, <1>13, <2>1 DEF PortRaises, InCle
  <2>2. CASE req[r].pc = "intercept"
    <3>1. Goto(r, "execute") /\ "audit" \in Fallible /\ r \in unwritten'
      BY <1>13, <2>2 DEF PortRaises, InCle, PortAt
    <3> QED BY <2>2, <3>1, GotoMoves DEF Moved, Passes
  <2>3. CASE req[r].pc \notin InCle
    BY <1>2, <1>13, <2>3 DEF PortRaises, InCle, InFlight, Locations
  <2> QED BY <2>1, <2>2, <2>3 DEF InCle
<1> QED
  BY <1>3, <1>4, <1>5, <1>6, <1>7, <1>8, <1>9, <1>10, <1>11, <1>12, <1>13 DEF Step

\* Seen from any request, a step is one of these, begins it, or leaves it alone.
AnyMove(r) ==
    \/ req'[r] = req[r]
    \/ \E s \in Sessions, t \in Tools, i \in Intents : Begin(r, s, t, i)
    \/ Passes(r, req[r], req'[r]) \/ Finds(req[r], req'[r]) \/ Resolves(req[r], req'[r])

LEMMA AnyMoves ==
    ASSUME TypeOK, [Next]_vars, NEW r \in Requests
    PROVE  AnyMove(r)
BY OneRequestMoves, HandlerMoves DEF AnyMove

LEMMA BeginsFresh ==
    ASSUME TypeOK, NEW r \in Requests, NEW s \in Sessions, NEW t \in Tools, NEW i \in Intents,
           Begin(r, s, t, i)
    PROVE  /\ req[r].pc = "idle" /\ req'[r].pc = "session"
           /\ req'[r].tool = t /\ req'[r].effective = t /\ req'[r].intent = i
           /\ req'[r].suggested = NoTool /\ req'[r].ran = NoTool /\ ~req'[r].corrected
<1>1. req'[r] = [IdleRequest EXCEPT !.pc = "session", !.session = s, !.tool = t,
                    !.intent = i, !.arrived = clock, !.effective = t]
  BY DEF Begin, TypeOK
<1>2. req[r].pc = "idle"
  BY DEF Begin
<1> QED BY <1>1, <1>2 DEF IdleRequest

\* No step forgets an event, or a lesson; a pattern changes only by one.
LEMMA EventsGrow ==
    ASSUME TypeOK, [Next]_vars
    PROVE  /\ audit \subseteq audit'
           /\ \A e \in audit' \ audit : e.type = "CLEInterception" =>
                \E r \in Requests : AuditInterception(r) /\ e = Interception(r)
<1>1. ASSUME NEW r \in Requests, Step(r) \/ PortRaises(r)
      PROVE  \/ audit' = audit
             \/ AuditInterception(r) /\ audit' = audit \cup {Interception(r)}
             \/ \E e : audit' = audit \cup {e} /\ e.type # "CLEInterception"
  <2>1. CASE AuditInterception(r)
    BY <2>1 DEF AuditInterception, Interception
  <2>2. CASE AuditCall(r)
    BY <2>2 DEF AuditCall
  <2>3. ASSUME NEW p \in Policies, AuditViolation(r, p)
        PROVE  \E e : audit' = audit \cup {e} /\ e.type # "CLEInterception"
    <3> DEFINE e == [type |-> "PolicyViolation", req |-> r, policy |-> p]
    <3>1. audit' = audit \cup {e} /\ e.type # "CLEInterception"
      BY <2>3 DEF AuditViolation
    <3> QED BY <3>1
  <2>4. CASE ~AuditInterception(r) /\ ~AuditCall(r) /\ \A p \in Policies : ~AuditViolation(r, p)
    BY <1>1, <2>4 DEF Step, PortRaises, LookupSession, LookupTool, ListPolicies,
       EvaluatePolicy, GetEmbedding, FindPatterns, ResolveSuggestion, ExecuteTool
  <2> QED BY <2>1, <2>2, <2>3, <2>4
<1>2. CASE \A r \in Requests : ~Step(r) /\ ~PortRaises(r)
  <2>1. audit' = audit
    BY <1>2 DEF Next, vars, Tick, CreateSession, GetSession, RegisterTool, PatternDecays,
                AddPolicy, RemovePolicy, CaptureCorrection, Begin
  <2> QED BY <2>1
<1> QED BY <1>1, <1>2

LEMMA UnwrittenGrows ==
    ASSUME TypeOK, [Next]_vars
    PROVE  unwritten \subseteq unwritten'
<1>1. ASSUME NEW r \in Requests, Step(r) PROVE unwritten' = unwritten
  BY <1>1 DEF Step, LookupSession, LookupTool, ListPolicies, EvaluatePolicy, AuditViolation,
     GetEmbedding, FindPatterns, ResolveSuggestion, AuditInterception, ExecuteTool, AuditCall,
     World
<1>2. ASSUME NEW r \in Requests, PortRaises(r) PROVE unwritten \subseteq unwritten'
  BY <1>2 DEF PortRaises
<1>3. CASE \A r \in Requests : ~Step(r) /\ ~PortRaises(r)
  BY <1>3 DEF Next, vars, Tick, CreateSession, GetSession, RegisterTool, PatternDecays,
              AddPolicy, RemovePolicy, CaptureCorrection, Begin
<1> QED BY <1>1, <1>2, <1>3

LEMMA LessonsKept ==
    ASSUME TypeOK, PatternsLearned, [Next]_vars
    PROVE  PatternsLearned' /\ learned \subseteq learned'
<1> USE DEF PatternsLearned
<1>1. ASSUME NEW t \in Tools, NEW v \in Intents \cup {ZeroVector}, CaptureCorrection(t, v)
      PROVE  PatternsLearned' /\ learned \subseteq learned'
  <2>1. learned' = IF v = ZeroVector THEN learned ELSE learned \cup {<<t, v>>}
    BY <1>1 DEF CaptureCorrection
  <2>2. /\ patterns'[t].vector =
             IF v = ZeroVector /\ patterns[t].known THEN patterns[t].vector ELSE v
        /\ \A u \in Tools \ {t} : patterns'[u] = patterns[u]
    BY <1>1 DEF CaptureCorrection, TypeOK
  <2> QED BY <2>1, <2>2, NoneAssumption
<1>2. ASSUME NEW t \in Tools, PatternDecays(t)
      PROVE  PatternsLearned' /\ learned \subseteq learned'
  <2>1. learned' = learned /\ \A u \in Tools : /\ patterns'[u].known = patterns[u].known
                                              /\ patterns'[u].vector = patterns[u].vector
    BY <1>2 DEF PatternDecays, TypeOK, PatternState
  <2> QED BY <2>1
<1>3. CASE /\ \A t \in Tools, v \in Intents \cup {ZeroVector} : ~CaptureCorrection(t, v)
           /\ \A t \in Tools : ~PatternDecays(t)
  <2>1. ASSUME NEW r \in Requests, Step(r) \/ PortRaises(r)
        PROVE  UNCHANGED <<patterns, learned>>
    BY <2>1 DEF Step, PortRaises, LookupSession, LookupTool, ListPolicies, EvaluatePolicy,
       AuditViolation, GetEmbedding, FindPatterns, ResolveSuggestion, AuditInterception,
       ExecuteTool, AuditCall, World, Outside
  <2>2. UNCHANGED <<patterns, learned>>
    BY <1>3, <2>1 DEF Next, vars, Tick, CreateSession, GetSession, RegisterTool, AddPolicy,
                      RemovePolicy, Begin
  <2> QED BY <2>2
<1> QED BY <1>1, <1>2, <1>3

\* A pattern that is good enough for an intent was learned from one close to it.
LEMMA BestIsLearned ==
    ASSUME TypeOK, PatternsLearned, NEW i \in Intents, NEW t \in Best(i)
    PROVE  \E v \in Intents : <<t, v>> \in learned /\ Match[v][i] >= Threshold
<1> DEFINE v == patterns[t].vector
<1>1. t \in Tools /\ Similarity(t, i) >= Threshold
  BY DEF Best
<1>2. patterns[t].age \in Nat
  BY <1>1 DEF TypeOK, PatternState
<1>3. patterns[t].known /\ v \in Intents /\ Match[v][i] >= patterns[t].age
  BY <1>1, ThresholdAssumption DEF Similarity
<1>4. Match[v][i] \in Nat
  BY <1>3, MatchAssumption
<1>5. Match[v][i] >= Threshold
  BY <1>1, <1>2, <1>3, <1>4, ThresholdAssumption DEF Similarity
<1>6. <<t, v>> \in learned
  BY <1>1, <1>3 DEF PatternsLearned
<1> QED BY <1>3, <1>5, <1>6

LEMMA SuggestionStep ==
    ASSUME TypeOK, PatternsLearned, SuggestionLearned, \A r \in Requests : CleDecided(r),
           [Next]_vars
    PROVE  SuggestionLearned'
<1> DEFINE Taught(t, i, L) ==
        \E v \in Intents : <<t, v>> \in L /\ Match[v][i] >= Threshold
<1>1. ASSUME NEW r \in Requests, req'[r].suggested # NoTool
      PROVE  Taught(req'[r].suggested, req'[r].intent, learned)
  <2>1. CASE req'[r].suggested = req[r].suggested /\ req'[r].intent = req[r].intent
    BY <1>1, <2>1 DEF SuggestionLearned
  <2>2. ASSUME NEW s \in Sessions, NEW t \in Tools, NEW i \in Intents, Begin(r, s, t, i)
        PROVE  FALSE
    BY <1>1, <2>2, BeginsFresh
  <2>3. CASE Finds(req[r], req'[r])
    <3>1. req[r].intent \in Intents /\ req'[r].intent = req[r].intent
          /\ req'[r].suggested \in Best(req[r].intent)
      BY <2>3 DEF Finds, CleDecided
    <3> QED BY <3>1, BestIsLearned
  <2> QED BY <2>1, <2>2, <2>3, AnyMoves DEF AnyMove, Passes, Resolves
<1>2. learned \subseteq learned'
  BY LessonsKept
<1>3. ASSUME NEW t, NEW i, Taught(t, i, learned) PROVE Taught(t, i, learned')
  BY <1>2, <1>3
<1>4. \A r \in Requests : req'[r].suggested # NoTool =>
        Taught(req'[r].suggested, req'[r].intent, learned')
  BY <1>1, <1>3
<1> QED BY <1>4 DEF SuggestionLearned

\* What one request's step makes of the CLE's decision for it.
LEMMA DecisionStep ==
    ASSUME TypeOK, NEW r \in Requests, LocalsSet(r), CleDecided(r), AnyMove(r)
    PROVE  CleDecided(r)'
<1> USE DEF CleDecided, InFlight, Locations
<1>1. CASE req'[r] = req[r]
  BY <1>1
<1>2. ASSUME NEW s \in Sessions, NEW t \in Tools, NEW i \in Intents, Begin(r, s, t, i)
      PROVE  CleDecided(r)'
  BY <1>2, BeginsFresh
<1>3. CASE Passes(r, req[r], req'[r])
  BY <1>3 DEF Passes, Early
<1>4. CASE Finds(req[r], req'[r])
  BY <1>4 DEF Finds, LocalsSet
<1>5. CASE Resolves(req[r], req'[r])
  BY <1>5 DEF Resolves, LocalsSet
<1> QED BY <1>1, <1>2, <1>3, <1>4, <1>5 DEF AnyMove

\* A corrected request gets to its execution only past its event.
LEMMA CorrectionStep ==
    ASSUME TypeOK, NEW r \in Requests, LocalsSet(r), LocalsSet(r)', CleDecided(r),
           CorrectionAudited(r), AnyMove(r), audit \subseteq audit', unwritten \subseteq unwritten'
    PROVE  CorrectionAudited(r)'
<1> DEFINE Audited(A, t) == \E e \in {x \in A : x.type = "CLEInterception"} :
                               e.req = r /\ e.applied /\ e.suggested = t
<1> SUFFICES ASSUME r \notin unwritten' \/ "audit" \notin Fallible,
                    req'[r].pc \in {"execute", "record", "returned"} \/ req'[r].ran # NoTool,
                    req'[r].effective # req'[r].tool
             PROVE  Audited(audit', req'[r].effective)
  BY DEF CorrectionAudited, Executed, Events
<1>1. ASSUME req'[r].effective = req[r].effective, req'[r].tool = req[r].tool,
             req[r].pc \in {"execute", "record", "returned"} \/ req[r].ran # NoTool
      PROVE  Audited(audit', req'[r].effective)
  BY <1>1 DEF CorrectionAudited, Executed, Events
<1>2. CASE req'[r] = req[r]
  BY <1>1, <1>2
<1>3. ASSUME NEW s \in Sessions, NEW t \in Tools, NEW i \in Intents, Begin(r, s, t, i)
      PROVE  FALSE
  BY <1>3, BeginsFresh
<1>4. CASE Passes(r, req[r], req'[r]) /\ req[r].pc \in {"execute", "record"}
  BY <1>1, <1>4 DEF Passes
<1>5. CASE Passes(r, req[r], req'[r]) /\ req[r].pc \in Early
  BY <1>5 DEF Passes, Early, LocalsSet, InFlight, Locations
<1>6. CASE Passes(r, req[r], req'[r]) /\ req[r].pc = "intercept"
  <2>1. /\ Interception(r) \in audit'
        /\ req'[r].effective = req[r].effective /\ req'[r].tool = req[r].tool
    BY <1>6 DEF Passes, Early
  <2>2. req[r].effective = req[r].suggested /\ req[r].corrected
    BY <1>6, <2>1 DEF CleDecided
  <2> QED BY <2>1, <2>2 DEF Interception
<1>7. CASE Finds(req[r], req'[r]) \/ Resolves(req[r], req'[r])
  BY <1>7 DEF Finds, Resolves, LocalsSet, InFlight, Locations
<1> QED BY <1>2, <1>3, <1>4, <1>5, <1>6, <1>7 DEF AnyMove, Passes

\* What an event says of a request stays true of it.
LEMMA InterceptionStep ==
    ASSUME TypeOK, TypeOK', InterceptionsKept, \A r \in Requests : CleDecided(r), [Next]_vars
    PROVE  InterceptionsKept'
<1> DEFINE After(e) ==
        /\ req'[e.req].pc \in {"execute", "record", "returned", "raised"}
        /\ req'[e.req].effective = IF e.applied THEN e.suggested ELSE req'[e.req].tool
<1>1. ASSUME NEW e \in audit, e.type = "CLEInterception" PROVE After(e)
  <2>1. e.req \in Requests
    BY <1>1 DEF TypeOK, AuditRecord, ToolCalledEvent, PolicyViolationEvent, CLEInterceptionEvent
  <2>2. /\ req[e.req].pc \in {"execute", "record", "returned", "raised"}
        /\ req[e.req].effective = IF e.applied THEN e.suggested ELSE req[e.req].tool
    BY <1>1 DEF InterceptionsKept, Events
  <2>3. \/ req'[e.req] = req[e.req]
        \/ Passes(e.req, req[e.req], req'[e.req])
    BY <2>1, <2>2, AnyMoves, BeginsFresh DEF AnyMove, Finds, Resolves
  <2> QED BY <2>2, <2>3 DEF Passes, Early
<1>2. ASSUME NEW r \in Requests, AuditInterception(r) PROVE After(Interception(r))
  <2>1. req[r].pc = "intercept" /\ Goto(r, "execute")
    BY <1>2 DEF AuditInterception, At
  <2>2. /\ req'[r].pc = "execute"
        /\ req'[r].effective = req[r].effective /\ req'[r].tool = req[r].tool
    BY <2>1, GotoMoves DEF Moved
  <2>3. req[r].effective = IF req[r].corrected THEN req[r].suggested ELSE req[r].tool
    BY <2>1 DEF CleDecided
  <2> QED BY <2>2, <2>3 DEF Interception
<1>3. ASSUME NEW e \in audit', e.type = "CLEInterception" PROVE After(e)
  BY <1>1, <1>2, <1>3, EventsGrow
<1> QED BY <1>3 DEF InterceptionsKept, Events

LEMMA CleInit == Init => CleInv
BY DEF Init, IdleRequest, CleInv, PatternsLearned, SuggestionLearned, InterceptionsKept, Events,
       CleDecided, CorrectionAudited, Executed, InFlight

LEMMA CleNext == IndInv /\ IndInv' /\ CleInv /\ [Next]_vars => CleInv'
<1> SUFFICES ASSUME IndInv, IndInv', CleInv, [Next]_vars PROVE CleInv'
  OBVIOUS
<1>1. /\ TypeOK /\ TypeOK'
      /\ \A r \in Requests : LocalsSet(r) /\ LocalsSet(r)'
  BY DEF IndInv
<1>2. /\ PatternsLearned /\ SuggestionLearned /\ InterceptionsKept
      /\ \A r \in Requests : CleDecided(r) /\ CorrectionAudited(r)
  BY DEF CleInv
<1>3. PatternsLearned' /\ SuggestionLearned' /\ InterceptionsKept'
  BY <1>1, <1>2, LessonsKept, SuggestionStep, InterceptionStep
<1>4. ASSUME NEW r \in Requests PROVE CleDecided(r)' /\ CorrectionAudited(r)'
  <2>1. AnyMove(r) /\ audit \subseteq audit' /\ unwritten \subseteq unwritten'
    BY <1>1, AnyMoves, EventsGrow, UnwrittenGrows
  <2> QED BY <1>1, <1>2, <2>1, DecisionStep, CorrectionStep
<1> QED BY <1>3, <1>4 DEF CleInv

\* The CLE's own invariant rests on IndInv.
THEOREM CleInvariance == Spec => []CleInv
BY CleInit, CleNext, Invariance, PTL DEF Spec

\* The CLE's audit events say what ran, in both modes and whichever ports fail.
THEOREM InterceptionsHonest == Spec => []InterceptionHonest
<1>1. IndInv /\ CleInv => InterceptionHonest
  <2> SUFFICES ASSUME IndInv, CleInv, NEW e \in Events("CLEInterception"), Executed(e.req)
               PROVE  req[e.req].ran = IF e.applied THEN e.suggested ELSE req[e.req].tool
    BY DEF InterceptionHonest
  <2>1. e.req \in Requests
    BY DEF IndInv, TypeOK, Events, AuditRecord, ToolCalledEvent, PolicyViolationEvent, CLEInterceptionEvent
  <2> QED BY <2>1 DEF IndInv, CleInv, InterceptionsKept, LocalsSet
<1> QED BY <1>1, Invariance, CleInvariance, PTL

\* The CLE suggests nothing that no human taught it, though the corrections it
\* suggests from are overwritten and decay under it.
THEOREM SuggestionsLearned == Spec => []SuggestionLearned
BY CleInvariance, PTL DEF CleInv

\* Whichever ports fail, a substituted tool runs only when its interception is on
\* record or its own write of it has failed, and then the call's event tells.
THEOREM CorrectionsExplained == Spec => []CorrectionExplained
<1>1. IndInv /\ CleInv => CorrectionExplained
  <2> SUFFICES ASSUME IndInv, CleInv, NEW r \in Requests, Executed(r),
                      req[r].ran # req[r].tool,
                      ~\E e \in Events("CLEInterception") :
                         e.req = r /\ e.applied /\ e.suggested = req[r].ran
               PROVE  /\ r \in unwritten /\ "audit" \in Fallible
                      /\ At(r, "returned") => \E e \in Events("ToolCalled") :
                           e.req = r /\ e.corrected /\ e.tool = req[r].ran
    BY DEF CorrectionExplained
  <2>1. req[r].ran = req[r].effective /\ req[r].corrected
    BY DEF IndInv, LocalsSet
  <2>2. r \in unwritten /\ "audit" \in Fallible
    BY <2>1 DEF CleInv, CorrectionAudited
  <2>3. ASSUME At(r, "returned")
        PROVE  \E e \in Events("ToolCalled") : e.req = r /\ e.corrected /\ e.tool = req[r].ran
    <3> DEFINE e == [type |-> "ToolCalled", req |-> r, tool |-> req[r].ran,
                     corrected |-> req[r].corrected]
    <3>1. e \in Events("ToolCalled")
      BY <2>3 DEF IndInv, AuditedSoFar, Events
    <3> QED BY <2>1, <3>1
  <2> QED BY <2>2, <2>3
<1> QED BY <1>1, Invariance, CleInvariance, PTL

-----------------------------------------------------------------------------
(* How sessions change *)

\* Only the lookup of a session touches it once it exists.
LEMMA LookupEnds ==
    ASSUME TypeOK, NEW s \in Sessions, ExpireOnLookup(s),
           NEW x \in Sessions, sessions[x].status # "none"
    PROVE  /\ sessions'[x].expires = sessions[x].expires
           /\ sessions'[x].ended >= sessions[x].ended
           /\ sessions[x].status = "expired" => sessions'[x].status = "expired"
           /\ sessions'[x].status # sessions[x].status =>
                 sessions'[x].status = "expired" /\ clock >= sessions[x].expires
<1>1. sessions[x] \in SessionState /\ sessions[s] \in SessionState
  BY DEF TypeOK
<1>2. CASE x # s \/ ~IsExpired(s)
  <2>1. sessions'[x] = sessions[x]
    BY <1>2 DEF ExpireOnLookup, TypeOK
  <2> QED BY <1>1, <2>1 DEF SessionState
<1>3. CASE x = s /\ IsExpired(s)
  <2>1. /\ sessions'[s].status = "expired" /\ sessions'[s].expires = sessions[s].expires
        /\ sessions'[s].ended = sessions[s].ended + 1
    BY <1>1, <1>3 DEF ExpireOnLookup, TypeOK, SessionState
  <2> QED BY <1>1, <1>3, <2>1 DEF SessionState, IsExpired
<1> QED BY <1>2, <1>3

\* Sessions only ever end, and only at their deadline.
THEOREM SessionsOnlyExpire == Spec => SessionsOnlyEnd
<1> DEFINE OnlyEnd ==
      \A s \in Sessions : sessions[s].status # "none" =>
          /\ sessions'[s].expires = sessions[s].expires
          /\ sessions'[s].ended >= sessions[s].ended
          /\ sessions[s].status = "expired" => sessions'[s].status = "expired"
          /\ sessions'[s].status # sessions[s].status =>
                sessions'[s].status = "expired" /\ clock >= sessions[s].expires
<1>1. ASSUME IndInv, [Next]_vars PROVE OnlyEnd
  <2>0. TypeOK /\ \A r \in Requests : LocalsSet(r)
    BY <1>1 DEF IndInv
  <2>1. ASSUME sessions' = sessions PROVE OnlyEnd
    <3>1. \A s \in Sessions : sessions[s].ended \in Nat
      BY <2>0 DEF TypeOK, SessionState
    <3> QED BY <2>1, <3>1
  <2>2. ASSUME NEW s \in Sessions, GetSession(s) PROVE OnlyEnd
    <3>1. ExpireOnLookup(s)
      BY <2>2 DEF GetSession
    <3> QED BY <2>0, <3>1, LookupEnds
  <2>3. ASSUME NEW s \in Sessions, CreateSession(s) PROVE OnlyEnd
    <3>1. /\ sessions[s].status = "none"
          /\ \A x \in Sessions \ {s} : sessions'[x] = sessions[x]
          /\ \A x \in Sessions : sessions[x].ended \in Nat
      BY <2>0, <2>3 DEF CreateSession, TypeOK, SessionState
    <3> QED BY <3>1
  <2>4. ASSUME NEW r \in Requests, Step(r) \/ PortRaises(r) PROVE OnlyEnd
    <3>1. CASE LookupSession(r)
      <4>1. req[r].session \in Sessions /\ ExpireOnLookup(req[r].session)
        BY <2>0, <3>1 DEF LookupSession, LocalsSet, At
      <4> QED BY <2>0, <4>1, LookupEnds
    <3>2. CASE ~LookupSession(r)
      <4>1. sessions' = sessions
        BY <2>4, <3>2 DEF Step, PortRaises, LookupTool, ListPolicies, EvaluatePolicy,
           AuditViolation, GetEmbedding, FindPatterns, ResolveSuggestion, AuditInterception,
           ExecuteTool, AuditCall
      <4> QED BY <2>1, <4>1
    <3> QED BY <3>1, <3>2
  <2>5. CASE \/ Tick
             \/ \E t \in Tools : RegisterTool(t) \/ PatternDecays(t)
             \/ \E p \in Policies : AddPolicy(p) \/ RemovePolicy(p)
             \/ \E t \in Tools, v \in Intents \cup {ZeroVector} : CaptureCorrection(t, v)
             \/ \E r \in Requests, s \in Sessions, t \in Tools, i \in Intents : Begin(r, s, t, i)
             \/ UNCHANGED vars
    <3>1. sessions' = sessions
      BY <2>5 DEF Tick, RegisterTool, PatternDecays, AddPolicy, RemovePolicy,
                  CaptureCorrection, Begin, vars
    <3> QED BY <2>1, <3>1
  <2> HIDE DEF OnlyEnd
  <2> QED BY <1>1, <2>2, <2>3, <2>4, <2>5 DEF Next
<1>2. IndInv /\ [Next]_vars => [OnlyEnd]_vars
  BY <1>1
<1> QED BY <1>2, Invariance, PTL DEF Spec, SessionsOnlyEnd

-----------------------------------------------------------------------------
(* The tools that run are registered *)

\* A step that leaves a request's tools alone and does not pass the registry.
LEMMA FoundStays ==
    ASSUME NEW r \in Requests, ToolFound(r), tools \subseteq tools',
           req'[r].tool = req[r].tool, req'[r].effective = req[r].effective,
           req'[r].effective # req'[r].tool => req'[r].suggested = req[r].suggested,
           req'[r].pc \in {"policies", "evaluate", "violation"} \cup Permitted =>
              req[r].pc \in {"policies", "evaluate", "violation"} \cup Permitted
    PROVE  ToolFound(r)'
BY DEF ToolFound

LEMMA ToolsStay ==
    ASSUME [Next]_vars
    PROVE  tools \subseteq tools'
<1>1. ASSUME NEW r \in Requests, Step(r) \/ PortRaises(r) PROVE tools' = tools
  BY <1>1 DEF Step, PortRaises, LookupSession, LookupTool, ListPolicies, EvaluatePolicy,
     AuditViolation, GetEmbedding, FindPatterns, ResolveSuggestion, AuditInterception,
     ExecuteTool, AuditCall, World, Outside
<1> QED BY <1>1 DEF Next, vars, Tick, CreateSession, GetSession, RegisterTool, PatternDecays,
                    AddPolicy, RemovePolicy, CaptureCorrection, Begin

\* The handler's steps: only the registry's answer lets a request go on to its policies, and
\* only ResolveSuggestion replaces a tool.
LEMMA FoundOwnStep ==
    ASSUME TypeOK, NEW r \in Requests, LocalsSet(r), ToolFound(r), Step(r) \/ PortRaises(r)
    PROVE  ToolFound(r)'
<1> DEFINE Found == {"policies", "evaluate", "violation"} \cup Permitted
<1> USE DEF At
<1>0. req[r] \in Request /\ tools' = tools
  BY DEF TypeOK, Step, PortRaises, LookupSession, LookupTool, ListPolicies, EvaluatePolicy,
     AuditViolation, GetEmbedding, FindPatterns, ResolveSuggestion, AuditInterception,
     ExecuteTool, AuditCall, World, Outside
<1>1. ASSUME NEW loc, Goto(r, loc), loc \in Found => req[r].pc \in Found
      PROVE  ToolFound(r)'
  BY <1>0, <1>1, GotoMoves, FoundStays DEF Moved
<1>2. ASSUME NEW err, Raise(r, err) PROVE ToolFound(r)'
  <2>1. Moved([req[r] EXCEPT !.error = err], req'[r], "raised")
    BY <1>2, RaiseEnds
  <2>2. /\ req'[r].tool = req[r].tool /\ req'[r].effective = req[r].effective
        /\ req'[r].suggested = req[r].suggested /\ req'[r].pc = "raised"
    BY <1>0, <2>1 DEF Moved, Request
  <2> QED BY <1>0, <2>2, FoundStays DEF Permitted, InCle
<1>3. CASE LookupSession(r) \/ GetEmbedding(r) \/ AuditInterception(r) \/ AuditCall(r)
  BY <1>1, <1>2, <1>3 DEF LookupSession, GetEmbedding, AuditInterception, AuditCall,
                          Permitted, InCle
<1>4. CASE LookupTool(r)
  <2>1. CASE Goto(r, "policies") /\ req[r].tool \in tools
    <3>1. Moved(req[r], req'[r], "policies")
      BY <2>1, GotoMoves
    <3>2. req'[r].effective = req'[r].tool
      BY <1>4, <3>1 DEF LookupTool, Moved, LocalsSet, InFlight, Locations
    <3> QED BY <1>0, <2>1, <3>1, <3>2 DEF Moved, ToolFound
  <2> QED BY <1>2, <1>4, <2>1 DEF LookupTool
<1>5. CASE ListPolicies(r)
  <2> DEFINE loc == IF policies \cap Relevant = {} THEN AfterPolicies ELSE "evaluate"
  <2>1. req'[r] = [req[r] EXCEPT !.queue = policies \cap Relevant, !.pc = loc]
    BY <1>5 DEF ListPolicies, TypeOK
  <2> HIDE DEF loc
  <2>2. /\ req'[r].tool = req[r].tool /\ req'[r].effective = req[r].effective
        /\ req'[r].suggested = req[r].suggested
    BY <1>0, <2>1 DEF Request
  <2> QED BY <1>0, <1>5, <2>2, FoundStays DEF ListPolicies
<1>6. ASSUME NEW p \in Policies, EvaluatePolicy(r, p) PROVE ToolFound(r)'
  <2> DEFINE loc == IF req[r].queue = {p} THEN AfterPolicies ELSE "evaluate"
  <2>1. \/ req'[r] = [req[r] EXCEPT !.pc = "violation", !.queue = {p}]
        \/ req'[r] = [req[r] EXCEPT !.queue = req[r].queue \ {p}, !.pc = loc]
    BY <1>6 DEF EvaluatePolicy, TypeOK
  <2> HIDE DEF loc
  <2>2. /\ req'[r].tool = req[r].tool /\ req'[r].effective = req[r].effective
        /\ req'[r].suggested = req[r].suggested
    BY <1>0, <2>1 DEF Request
  <2> QED BY <1>0, <1>6, <2>2, FoundStays DEF EvaluatePolicy
<1>7. ASSUME NEW p \in Policies, AuditViolation(r, p) PROVE ToolFound(r)'
  BY <1>2, <1>7 DEF AuditViolation
<1>8. CASE FindPatterns(r)
  <2>1. CASE Goto(r, "execute")
    BY <1>1, <1>8, <2>1 DEF FindPatterns, Permitted, InCle
  <2> DEFINE loc == IF ShadowMode THEN "intercept" ELSE "suggest"
  <2>2. ASSUME NEW t \in Best(req[r].intent),
               req' = [req EXCEPT ![r] = [@ EXCEPT !.suggested = t, !.pc = loc]]
        PROVE  ToolFound(r)'
    <3>1. req'[r] = [req[r] EXCEPT !.suggested = t, !.pc = loc]
      BY <2>2 DEF TypeOK
    <3> HIDE DEF loc
    <3>2. req'[r].tool = req[r].tool /\ req'[r].effective = req[r].effective
      BY <1>0, <3>1 DEF Request
    <3>3. req[r].effective = req[r].tool /\ req[r].pc = "patterns"
      BY <1>8 DEF FindPatterns, LocalsSet, InFlight, Locations
    <3> QED BY <1>0, <3>2, <3>3, FoundStays DEF Permitted, InCle
  <2> QED BY <1>8, <2>1, <2>2 DEF FindPatterns
<1>9. CASE ResolveSuggestion(r)
  <2> DEFINE applied == req[r].suggested \in tools
             tool == IF applied THEN req[r].suggested ELSE req[r].effective
  <2>1. req'[r] = [req[r] EXCEPT !.pc = "intercept", !.corrected = applied, !.effective = tool]
    BY <1>9 DEF ResolveSuggestion, TypeOK
  <2>2. req[r].pc = "suggest" /\ req[r].effective = req[r].tool
    BY <1>9 DEF ResolveSuggestion, LocalsSet, InFlight, Locations
  <2>3. tool # req[r].tool => tool = req[r].suggested /\ tool \in tools
    BY <2>2
  <2> HIDE DEF applied, tool
  <2>4. /\ req'[r].effective = tool /\ req'[r].tool = req[r].tool
        /\ req'[r].suggested = req[r].suggested
    BY <1>0, <2>1 DEF Request
  <2>5. req[r].tool \in tools
    BY <2>2 DEF ToolFound, Permitted, InCle
  <2> QED BY <1>0, <2>3, <2>4, <2>5 DEF ToolFound
<1>10. CASE ExecuteTool(r)
  <2>1. req'[r] = [req[r] EXCEPT !.pc = "record", !.ran = req[r].effective]
    BY <1>10 DEF ExecuteTool, TypeOK
  <2>2. /\ req'[r].tool = req[r].tool /\ req'[r].effective = req[r].effective
        /\ req'[r].suggested = req[r].suggested
    BY <1>0, <2>1 DEF Request
  <2> QED BY <1>0, <1>10, <2>2, FoundStays DEF ExecuteTool, Permitted, InCle
<1>11. CASE PortRaises(r)
  BY <1>1, <1>2, <1>11 DEF PortRaises, Permitted
<1> QED
  BY <1>3, <1>4, <1>5, <1>6, <1>7, <1>8, <1>9, <1>10, <1>11 DEF Step

ToolsFound == \A r \in Requests : ToolFound(r)

LEMMA FoundInit == Init => ToolsFound
BY DEF Init, IdleRequest, ToolsFound, ToolFound, Permitted, InCle

LEMMA FoundNext == IndInv /\ ToolsFound /\ [Next]_vars => ToolsFound'
<1> SUFFICES ASSUME IndInv, ToolsFound, [Next]_vars, NEW r \in Requests PROVE ToolFound(r)'
  BY DEF ToolsFound
<1>1. TypeOK /\ LocalsSet(r) /\ ToolFound(r) /\ tools \subseteq tools'
  BY ToolsStay DEF IndInv, ToolsFound
<1>2. CASE req'[r] = req[r]
  BY <1>1, <1>2, FoundStays
<1>3. ASSUME NEW s \in Sessions, NEW t \in Tools, NEW i \in Intents, Begin(r, s, t, i)
      PROVE  ToolFound(r)'
  BY <1>1, <1>3, BeginsFresh DEF ToolFound, Permitted, InCle
<1> QED BY <1>1, <1>2, <1>3, OneRequestMoves, FoundOwnStep

-----------------------------------------------------------------------------
(* The fabric implements GovernedCalls *)

\* The two parts of the mapping that are functions.
CallsSeen    == [r \in Requests |-> CallSeen(req[r])]
SessionsSeen == [s \in Sessions |-> SessionSeen(s)]

\* A call as it is seen, and its updates.
Call(status, session, asked, intent, ran, answer) ==
    [status |-> status, session |-> session, asked |-> asked, intent |-> intent,
     ran |-> ran, answer |-> answer]

StatusSeen(q) == IF q.pc = "evaluate" /\ \E p \in q.queue : q.tool \in Denied[p]
                 THEN "denied" ELSE StatusAt[q.pc]

LEMMA CallIs ==
    ASSUME NEW q
    PROVE  CallSeen(q) = Call(StatusSeen(q), q.session, q.tool, q.intent, q.ran, q.error)
BY DEF CallSeen, Call, StatusSeen

LEMMA StatusUpdated ==
    ASSUME NEW a, NEW b, NEW c, NEW d, NEW e, NEW f, NEW x
    PROVE  [Call(a, b, c, d, e, f) EXCEPT !.status = x] = Call(x, b, c, d, e, f)
BY DEF Call

Ended(c, answer) == [c EXCEPT !.status = "failed", !.answer = answer]
RanTool(c, t)    == [c EXCEPT !.status = "ran", !.ran = t]

LEMMA EndUpdated ==
    ASSUME NEW a, NEW b, NEW c, NEW d, NEW e, NEW f, NEW y
    PROVE  Ended(Call(a, b, c, d, e, f), y) = Call("failed", b, c, d, e, y)
<1> DEFINE g == [Call(a, b, c, d, e, f) EXCEPT !.status = "failed"]
<1>1. g = Call("failed", b, c, d, e, f)
  BY StatusUpdated
<1>2. [g EXCEPT !.answer = y] = Call("failed", b, c, d, e, y)
  <2> HIDE DEF g
  <2> QED BY <1>1 DEF Call
<1> QED BY <1>2 DEF Ended

LEMMA RanUpdated ==
    ASSUME NEW a, NEW b, NEW c, NEW d, NEW e, NEW f, NEW y
    PROVE  RanTool(Call(a, b, c, d, e, f), y) = Call("ran", b, c, d, y, f)
<1> DEFINE g == [Call(a, b, c, d, e, f) EXCEPT !.status = "ran"]
<1>1. g = Call("ran", b, c, d, e, f)
  BY StatusUpdated
<1>2. [g EXCEPT !.ran = y] = Call("ran", b, c, d, y, f)
  <2> HIDE DEF g
  <2> QED BY <1>1 DEF Call
<1> QED BY <1>2 DEF RanTool

\* A step of one handler shows as a change of its call alone.
LEMMA OneCallSeen ==
    ASSUME TypeOK, NEW r \in Requests, NEW q, req' = [req EXCEPT ![r] = q]
    PROVE  CallsSeen' = [CallsSeen EXCEPT ![r] = CallSeen(q)]
<1>1. \A x \in Requests : req'[x] = IF x = r THEN q ELSE req[x]
  BY DEF TypeOK
<1>2. \A x \in Requests : CallSeen(req'[x]) = IF x = r THEN CallSeen(q) ELSE CallSeen(req[x])
  BY <1>1
<1>3. CallsSeen' = [x \in Requests |-> CallSeen(req'[x])]
  BY DEF CallsSeen, CallSeen
<1> HIDE DEF CallSeen
<1> QED BY <1>2, <1>3 DEF CallsSeen

LEMMA SeenAgain ==
    ASSUME TypeOK, NEW r \in Requests, NEW q, req' = [req EXCEPT ![r] = q],
           CallSeen(q) = CallSeen(req[r])
    PROVE  CallsSeen' = CallsSeen
BY OneCallSeen DEF CallsSeen

\* What the two commonest updates show as.
LEMMA GotoSeen ==
    ASSUME TypeOK, NEW r \in Requests, NEW loc \in Locations \ {"evaluate"}, Goto(r, loc)
    PROVE  CallsSeen' = [CallsSeen EXCEPT ![r].status = StatusAt[loc]]
<1> DEFINE q == [req[r] EXCEPT !.pc = loc]
<1>1. req[r] \in Request
  BY DEF TypeOK
<1>2. /\ q.pc = loc /\ q.session = req[r].session /\ q.tool = req[r].tool
      /\ q.intent = req[r].intent /\ q.ran = req[r].ran /\ q.error = req[r].error
  BY <1>1 DEF Request
<1>3. req' = [req EXCEPT ![r] = q]
  BY DEF Goto
<1> HIDE DEF q
<1>4. StatusSeen(q) = StatusAt[loc]
  BY <1>2 DEF StatusSeen
<1>5. CallSeen(q) = [CallSeen(req[r]) EXCEPT !.status = StatusAt[loc]]
  BY <1>2, <1>4, CallIs, StatusUpdated
<1>6. CallsSeen' = [CallsSeen EXCEPT ![r] = CallSeen(q)]
  BY <1>3, OneCallSeen
<1> QED BY <1>5, <1>6 DEF CallsSeen

LEMMA RaiseSeen ==
    ASSUME TypeOK, NEW r \in Requests, NEW err, Raise(r, err)
    PROVE  CallsSeen' = [CallsSeen EXCEPT ![r] = Ended(@, err)]
<1> DEFINE q == [req[r] EXCEPT !.pc = "raised", !.error = err]
<1>1. req[r] \in Request
  BY DEF TypeOK
<1>2. /\ q.pc = "raised" /\ q.session = req[r].session /\ q.tool = req[r].tool
      /\ q.intent = req[r].intent /\ q.ran = req[r].ran /\ q.error = err
  BY <1>1 DEF Request
<1>3. req' = [req EXCEPT ![r] = q]
  BY DEF Raise
<1> HIDE DEF q
<1>4. StatusSeen(q) = "failed"
  BY <1>2 DEF StatusSeen, StatusAt
<1>5. CallSeen(q) = Ended(CallSeen(req[r]), err)
  BY <1>2, <1>4, CallIs, EndUpdated
<1>6. CallsSeen' = [CallsSeen EXCEPT ![r] = CallSeen(q)]
  BY <1>3, OneCallSeen
<1> QED BY <1>5, <1>6 DEF CallsSeen

\* A lookup that expires a session changes nothing that is seen of it.
LEMMA LookupUnseen ==
    ASSUME TypeOK, NEW s \in Sessions, ExpireOnLookup(s), clock' = clock
    PROVE  SessionsSeen' = SessionsSeen
<1>1. ASSUME NEW x \in Sessions PROVE SessionSeen(x)' = SessionSeen(x)
  <2>1. CASE sessions'[x] = sessions[x]
    BY <2>1 DEF SessionSeen, IsActive, IsExpired
  <2>2. CASE sessions'[x] # sessions[x]
    <3>1. /\ x = s /\ sessions[x].status # "none" /\ IsExpired(x)
          /\ sessions'[x].status = "expired"
      BY <2>2 DEF ExpireOnLookup, TypeOK, SessionState
    <3> QED BY <3>1 DEF SessionSeen, IsActive
  <2> QED BY <2>1, <2>2
<1> QED BY <1>1 DEF SessionsSeen

\* Time takes sessions from live to over, and creation makes one live.
LEMMA TickSeen ==
    ASSUME TypeOK, Tick
    PROVE  \E S \in SUBSET {s \in Sessions : SessionsSeen[s] = "live"} :
             SessionsSeen' = [s \in Sessions |-> IF s \in S THEN "over" ELSE SessionsSeen[s]]
<1> DEFINE S == {s \in Sessions : SessionSeen(s) = "live" /\ ~IsActive(s)'}
<1>1. \A s \in Sessions : SessionSeen(s)' = IF s \in S THEN "over" ELSE SessionSeen(s)
  <2> TAKE s \in Sessions
  <2>1. sessions'[s] = sessions[s] /\ sessions[s].expires \in Nat /\ clock \in Nat
        /\ clock' = clock + 1
    BY DEF Tick, TypeOK, SessionState
  <2>2. IsActive(s)' => IsActive(s)
    BY <2>1 DEF IsActive, IsExpired
  <2> QED BY <2>1, <2>2 DEF SessionSeen
<1>2. SessionsSeen' = [s \in Sessions |-> IF s \in S THEN "over" ELSE SessionsSeen[s]]
  BY <1>1 DEF SessionsSeen
<1>3. S \in SUBSET {s \in Sessions : SessionsSeen[s] = "live"}
  BY DEF SessionsSeen
<1> HIDE DEF S
<1> QED BY <1>2, <1>3

LEMMA CreateSeen ==
    ASSUME TypeOK, NEW s \in Sessions, CreateSession(s)
    PROVE  SessionsSeen[s] = "none" /\ SessionsSeen' = [SessionsSeen EXCEPT ![s] = "live"]
<1>1. /\ sessions[s].status = "none" /\ clock' = clock /\ clock \in Nat
      /\ sessions'[s] = [status |-> "active", expires |-> clock + TTL, ended |-> 0]
      /\ \A x \in Sessions \ {s} : sessions'[x] = sessions[x]
  BY DEF CreateSession, TypeOK
<1>2. SessionSeen(s)' = "live"
  BY <1>1, TTLAssumption DEF SessionSeen, IsActive, IsExpired
<1>3. \A x \in Sessions \ {s} : SessionSeen(x)' = SessionSeen(x)
  BY <1>1 DEF SessionSeen, IsActive, IsExpired
<1>4. SessionSeen(s) = "none"
  BY <1>1 DEF SessionSeen
<1> QED BY <1>2, <1>3, <1>4 DEF SessionsSeen

\* What other handlers and the clock do.
LEMMA WorldRefines ==
    ASSUME TypeOK,
           \/ Tick
           \/ \E s \in Sessions : CreateSession(s) \/ GetSession(s)
           \/ \E t \in Tools : RegisterTool(t) \/ PatternDecays(t)
           \/ \E p \in Policies : AddPolicy(p) \/ RemovePolicy(p)
           \/ \E t \in Tools, v \in Intents \cup {ZeroVector} : CaptureCorrection(t, v)
           \/ UNCHANGED vars
    PROVE  Governed!Next \/ UNCHANGED Governed!governed
<1>0. ASSUME req' = req PROVE CallsSeen' = CallsSeen
  BY <1>0 DEF CallsSeen, CallSeen
<1>1. ASSUME sessions' = sessions, clock' = clock PROVE SessionsSeen' = SessionsSeen
  BY <1>1 DEF SessionsSeen, SessionSeen, IsActive, IsExpired
<1>2. CASE Tick
  <2>1. CallsSeen' = CallsSeen /\ UNCHANGED <<tools, policies, learned, audit>>
    BY <1>0, <1>2 DEF Tick
  <2>2. Governed!EndSessions
    BY <1>2, <2>1, TickSeen DEF Governed!EndSessions, CallsSeen, SessionsSeen
  <2> QED BY <2>2 DEF Governed!Next
<1>3. ASSUME NEW s \in Sessions, CreateSession(s) PROVE Governed!Next
  <2>1. CallsSeen' = CallsSeen /\ UNCHANGED <<tools, policies, learned, audit>>
    BY <1>0, <1>3 DEF CreateSession
  <2>2. Governed!Open(s)
    BY <1>3, <2>1, CreateSeen DEF Governed!Open, CallsSeen, SessionsSeen
  <2> QED BY <2>2 DEF Governed!Next
<1>4. ASSUME NEW s \in Sessions, GetSession(s) PROVE UNCHANGED Governed!governed
  <2>1. CallsSeen' = CallsSeen /\ UNCHANGED <<tools, policies, learned, audit>>
    BY <1>0, <1>4 DEF GetSession
  <2>2. SessionsSeen' = SessionsSeen
    BY <1>4, LookupUnseen DEF GetSession
  <2> QED BY <2>1, <2>2 DEF Governed!governed, Governed!world, CallsSeen, SessionsSeen
<1>5. ASSUME NEW t \in Tools, RegisterTool(t) PROVE Governed!Next
  <2>1. CallsSeen' = CallsSeen /\ SessionsSeen' = SessionsSeen
        /\ UNCHANGED <<policies, learned, audit>>
    BY <1>0, <1>1, <1>5 DEF RegisterTool
  <2>2. Governed!Register(t)
    BY <1>5, <2>1 DEF RegisterTool, Governed!Register, CallsSeen, SessionsSeen
  <2> QED BY <2>2 DEF Governed!Next
<1>6. ASSUME NEW P \in SUBSET Policies, policies' = P,
             UNCHANGED <<clock, sessions, tools, audit, req, learned>>
      PROVE  Governed!Next
  <2>1. CallsSeen' = CallsSeen /\ SessionsSeen' = SessionsSeen
        /\ UNCHANGED <<tools, learned, audit>>
    BY <1>0, <1>1, <1>6
  <2>2. Governed!ChangePolicies(P)
    BY <1>6, <2>1 DEF Governed!ChangePolicies, CallsSeen, SessionsSeen
  <2> QED BY <2>2 DEF Governed!Next
<1>7. ASSUME NEW p \in Policies, AddPolicy(p) \/ RemovePolicy(p) PROVE Governed!Next
  <2>1. policies' \in SUBSET Policies /\ UNCHANGED <<clock, sessions, tools, audit, req, learned>>
    BY <1>7 DEF AddPolicy, RemovePolicy, TypeOK
  <2> QED BY <1>6, <2>1
<1>8. ASSUME NEW t \in Tools, NEW v \in Intents \cup {ZeroVector}, CaptureCorrection(t, v)
      PROVE  Governed!Next \/ UNCHANGED Governed!governed
  <2>1. CallsSeen' = CallsSeen /\ SessionsSeen' = SessionsSeen
        /\ UNCHANGED <<tools, policies, audit>>
    BY <1>0, <1>1, <1>8 DEF CaptureCorrection
  <2>2. CASE v = ZeroVector
    <3>1. learned' = learned
      BY <1>8, <2>2 DEF CaptureCorrection
    <3> QED BY <2>1, <3>1 DEF Governed!governed, Governed!world, CallsSeen, SessionsSeen
  <2>3. CASE v \in Intents
    <3>1. learned' = learned \cup {<<t, v>>}
      BY <1>8, <2>3, NoneAssumption DEF CaptureCorrection
    <3>2. Governed!Teach(t, v)
      BY <2>1, <3>1 DEF Governed!Teach, CallsSeen, SessionsSeen
    <3> QED BY <2>3, <3>2 DEF Governed!Next
  <2> QED BY <2>2, <2>3
<1>9. CASE (\E t \in Tools : PatternDecays(t)) \/ UNCHANGED vars
  <2>1. UNCHANGED <<clock, sessions, req, tools, policies, learned, audit>>
    BY <1>9 DEF PatternDecays, vars
  <2>2. CallsSeen' = CallsSeen /\ SessionsSeen' = SessionsSeen
    BY <1>0, <1>1, <2>1
  <2> QED BY <2>1, <2>2 DEF Governed!governed, Governed!world, CallsSeen, SessionsSeen
<1> QED BY <1>2, <1>3, <1>4, <1>5, <1>7, <1>8, <1>9

\* What is seen of a request, field by field.
LEMMA FieldsSeen ==
    ASSUME NEW r \in Requests
    PROVE  /\ CallsSeen[r].status = StatusSeen(req[r])
           /\ CallsSeen[r].session = req[r].session /\ CallsSeen[r].asked = req[r].tool
           /\ CallsSeen[r].intent = req[r].intent /\ CallsSeen[r].ran = req[r].ran
           /\ req[r].pc # "evaluate" => CallsSeen[r].status = StatusAt[req[r].pc]
<1>1. CallsSeen[r] = Call(StatusSeen(req[r]), req[r].session, req[r].tool, req[r].intent,
                          req[r].ran, req[r].error)
  BY CallIs DEF CallsSeen
<1> QED BY <1>1 DEF Call, StatusSeen

\* A handler that leaves the sessions alone, like the rest of the world.
WorldStays == UNCHANGED <<SessionsSeen, tools, policies, learned>>

LEMMA HandlersStay ==
    ASSUME TypeOK, NEW r \in Requests, LocalsSet(r), Step(r) \/ PortRaises(r)
    PROVE  WorldStays
<1>1. UNCHANGED <<clock, tools, policies, learned>>
  BY DEF Step, PortRaises, LookupSession, LookupTool, ListPolicies, EvaluatePolicy,
     AuditViolation, GetEmbedding, FindPatterns, ResolveSuggestion, AuditInterception,
     ExecuteTool, AuditCall, World, Outside
<1>2. CASE LookupSession(r)
  <2>1. req[r].session \in Sessions /\ ExpireOnLookup(req[r].session)
    BY <1>2 DEF LookupSession, LocalsSet, At
  <2> QED BY <1>1, <2>1, LookupUnseen DEF WorldStays
<1>3. CASE ~LookupSession(r)
  <2>1. sessions' = sessions
    BY <1>3 DEF Step, PortRaises, LookupTool, ListPolicies, EvaluatePolicy,
       AuditViolation, GetEmbedding, FindPatterns, ResolveSuggestion, AuditInterception,
       ExecuteTool, AuditCall
  <2>2. SessionsSeen' = SessionsSeen
    BY <1>1, <2>1 DEF SessionsSeen, SessionSeen, IsActive, IsExpired
  <2> QED BY <1>1, <2>2 DEF WorldStays
<1> QED BY <1>2, <1>3

\* A step of which nothing is seen.
LEMMA Unseen ==
    ASSUME WorldStays, CallsSeen' = CallsSeen, audit' = audit
    PROVE  UNCHANGED Governed!governed
BY DEF WorldStays, Governed!governed, Governed!world, CallsSeen, SessionsSeen

\* An exception outside the CLE block shows as a failure.
LEMMA FailureRefines ==
    ASSUME TypeOK, WorldStays, audit' = audit, NEW r \in Requests, NEW err, Raise(r, err),
           \/ err = "PortError" /\ req[r].pc \in InFlight
           \/ /\ err = "SessionNotFound" /\ req[r].pc = "session"
              /\ SessionsSeen[req[r].session] = "none"
           \/ /\ err = "SessionExpired" /\ req[r].pc = "session"
              /\ SessionsSeen[req[r].session] = "over"
           \/ err = "ToolNotFound" /\ req[r].pc = "registry" /\ req[r].tool \notin tools
    PROVE  Governed!Next
<1>1. CallsSeen' = [CallsSeen EXCEPT ![r] = Ended(@, err)]
  BY RaiseSeen
<1>2. Governed!Ends(r, err)
  BY <1>1 DEF Ended, Governed!Ends, CallsSeen
<1>3. UNCHANGED <<Governed!world, audit>>
  BY DEF WorldStays, Governed!world, SessionsSeen
<1>4. CASE err = "PortError" /\ req[r].pc \in InFlight
  <2>1. StatusSeen(req[r]) \in {"asked", "entered", "located", "denied", "admitted", "ran"}
    BY <1>4 DEF StatusSeen, StatusAt, InFlight, Locations
  <2>2. CallsSeen[r].status \in {"asked", "entered", "located", "denied", "admitted", "ran"}
    BY <2>1, FieldsSeen
  <2>3. Governed!Fail(r, "PortError")
    BY <1>2, <1>3, <1>4, <2>2 DEF Governed!Fail, CallsSeen
  <2> QED BY <2>3 DEF Governed!Next
<1>5. CASE err # "PortError" /\ req[r].pc = "session"
  <2>1. CallsSeen[r].status = "asked" /\ CallsSeen[r].session = req[r].session
    BY <1>5, FieldsSeen DEF StatusAt
  <2>2. \/ err = "SessionNotFound" /\ SessionsSeen[CallsSeen[r].session] = "none"
        \/ err = "SessionExpired" /\ SessionsSeen[CallsSeen[r].session] = "over"
    BY <1>5, <2>1
  <2>3. Governed!Fail(r, err)
    BY <1>2, <1>3, <2>1, <2>2 DEF Governed!Fail, Governed!Is, CallsSeen, SessionsSeen
  <2> QED BY <2>2, <2>3 DEF Governed!Next
<1>6. CASE err # "PortError" /\ req[r].pc = "registry"
  <2>1. CallsSeen[r].status = "entered" /\ CallsSeen[r].asked = req[r].tool
    BY <1>6, FieldsSeen DEF StatusAt
  <2>2. err = "ToolNotFound" /\ CallsSeen[r].asked \notin tools
    BY <1>6, <2>1
  <2>3. Governed!Fail(r, err)
    BY <1>2, <1>3, <2>1, <2>2 DEF Governed!Fail, Governed!Is, CallsSeen
  <2> QED BY <2>2, <2>3 DEF Governed!Next
<1> QED BY <1>4, <1>5, <1>6

\* The session, the tool, the policies.
LEMMA LookupsRefine ==
    ASSUME TypeOK, NEW r \in Requests, LocalsSet(r), WorldStays,
           LookupSession(r) \/ LookupTool(r)
    PROVE  Governed!Next
<1> USE DEF At
<1>0. UNCHANGED <<Governed!world, audit>>
  BY DEF LookupSession, LookupTool, WorldStays, Governed!world, SessionsSeen
<1>1. CASE LookupSession(r)
  <2> DEFINE s == req[r].session
  <2>1. s \in Sessions /\ req[r].pc = "session" /\ audit' = audit
    BY <1>1 DEF LookupSession, LocalsSet
  <2>2. CASE IsActive(s) /\ Goto(r, "registry")
    <3>1. SessionsSeen[s] = "live"
      BY <2>1, <2>2 DEF SessionsSeen, SessionSeen, IsActive
    <3>2. CallsSeen[r].status = "asked" /\ CallsSeen[r].session = s
      BY <2>1, FieldsSeen DEF StatusAt
    <3>3. CallsSeen' = [CallsSeen EXCEPT ![r].status = "entered"]
      BY <2>2, GotoSeen DEF StatusAt, Locations
    <3>4. Governed!Enter(r)
      BY <1>0, <3>1, <3>2, <3>3 DEF Governed!Enter, Governed!Is, Governed!Goes, CallsSeen,
                                    SessionsSeen
    <3> QED BY <3>4 DEF Governed!Next
  <2>3. CASE sessions[s].status = "none" /\ Raise(r, "SessionNotFound")
    <3>1. SessionsSeen[s] = "none"
      BY <2>1, <2>3 DEF SessionsSeen, SessionSeen
    <3> QED BY <2>1, <2>3, <3>1, FailureRefines
  <2>4. CASE sessions[s].status # "none" /\ ~IsActive(s) /\ Raise(r, "SessionExpired")
    <3>1. SessionsSeen[s] = "over"
      BY <2>1, <2>4 DEF SessionsSeen, SessionSeen
    <3> QED BY <2>1, <2>4, <3>1, FailureRefines
  <2> QED BY <1>1, <2>2, <2>3, <2>4 DEF LookupSession
<1>2. CASE LookupTool(r)
  <2>1. req[r].pc = "registry" /\ audit' = audit
    BY <1>2 DEF LookupTool
  <2>2. CASE req[r].tool \notin tools /\ Raise(r, "ToolNotFound")
    BY <2>1, <2>2, FailureRefines
  <2>3. CASE req[r].tool \in tools /\ Goto(r, "policies")
    <3>1. CallsSeen[r].status = "entered" /\ CallsSeen[r].asked = req[r].tool
      BY <2>1, FieldsSeen DEF StatusAt
    <3>2. CallsSeen' = [CallsSeen EXCEPT ![r].status = "located"]
      BY <2>3, GotoSeen DEF StatusAt, Locations
    <3>3. Governed!Locate(r)
      BY <1>0, <2>3, <3>1, <3>2 DEF Governed!Locate, Governed!Is, Governed!Goes, CallsSeen
    <3> QED BY <3>3 DEF Governed!Next
  <2> QED BY <1>2, <2>2, <2>3 DEF LookupTool
<1> QED BY <1>1, <1>2

\* The policies are judged when they are listed; the loop shows nothing, nor does a denial
\* until it is audited.
LEMMA PoliciesRefine ==
    ASSUME TypeOK, NEW r \in Requests, WorldStays,
           \/ ListPolicies(r)
           \/ \E p \in Policies : EvaluatePolicy(r, p)
    PROVE  Governed!Next \/ UNCHANGED Governed!governed
<1> USE DEF At
<1>0. req[r] \in Request /\ audit' = audit
  BY DEF TypeOK, ListPolicies, EvaluatePolicy
<1> DEFINE Denies(queue) == \E p \in queue : req[r].tool \in Denied[p]
<1>1. ASSUME NEW q, req' = [req EXCEPT ![r] = q],
             q.session = req[r].session, q.tool = req[r].tool, q.intent = req[r].intent,
             q.ran = req[r].ran, q.error = req[r].error
      PROVE  CallsSeen' = [CallsSeen EXCEPT ![r].status = StatusSeen(q)]
  <2>1. CallSeen(q) = [CallSeen(req[r]) EXCEPT !.status = StatusSeen(q)]
    BY <1>1, CallIs, StatusUpdated
  <2>2. CallsSeen' = [CallsSeen EXCEPT ![r] = CallSeen(q)]
    BY <1>1, OneCallSeen
  <2> QED BY <2>1, <2>2 DEF CallsSeen
<1>2. AfterPolicies \in {"embed", "execute"}
  BY DEF AfterPolicies
<1>3. CASE ListPolicies(r)
  <2> DEFINE queue == policies \cap Relevant
             loc   == IF queue = {} THEN AfterPolicies ELSE "evaluate"
             q     == [req[r] EXCEPT !.queue = queue, !.pc = loc]
  <2>1. req' = [req EXCEPT ![r] = q] /\ req[r].pc = "policies"
    BY <1>3 DEF ListPolicies
  <2>2. loc \in {"evaluate", "embed", "execute"} /\ (loc # "evaluate" => queue = {})
    BY <1>2
  <2>3. queue = policies \cap Relevant
    OBVIOUS
  <2> HIDE DEF loc, queue
  <2>4. /\ q.session = req[r].session /\ q.tool = req[r].tool /\ q.intent = req[r].intent
        /\ q.ran = req[r].ran /\ q.error = req[r].error
        /\ q.pc = loc /\ q.queue = queue
    BY <1>0 DEF Request
  <2> HIDE DEF q
  <2>5. StatusSeen(q) = IF Denies(queue) THEN "denied" ELSE "admitted"
    BY <2>2, <2>4 DEF StatusSeen, StatusAt
  <2>6. CallsSeen' = [CallsSeen EXCEPT ![r].status = StatusSeen(q)]
    BY <1>1, <2>1, <2>4
  <2>7. CallsSeen[r].status = "located" /\ CallsSeen[r].asked = req[r].tool
    BY <2>1, FieldsSeen DEF StatusAt
  <2>8. Governed!Goes(r, IF \E p \in policies \cap Relevant : CallsSeen[r].asked \in Denied[p]
                         THEN "denied" ELSE "admitted")
    <3>1. StatusSeen(q) = IF \E p \in policies \cap Relevant : CallsSeen[r].asked \in Denied[p]
                          THEN "denied" ELSE "admitted"
      BY <2>3, <2>5, <2>7
    <3> QED BY <2>6, <3>1 DEF Governed!Goes, CallsSeen
  <2>9. Governed!Judge(r)
    BY <1>0, <2>7, <2>8 DEF Governed!Judge, Governed!Is, Governed!world, CallsSeen, WorldStays,
                            SessionsSeen
  <2> QED BY <2>9 DEF Governed!Next
<1>4. ASSUME NEW p \in Policies, EvaluatePolicy(r, p) PROVE UNCHANGED Governed!governed
  <2> DEFINE queue == req[r].queue
             loc   == IF queue = {p} THEN AfterPolicies ELSE "evaluate"
             deny  == [req[r] EXCEPT !.pc = "violation", !.queue = {p}]
             pass  == [req[r] EXCEPT !.queue = queue \ {p}, !.pc = loc]
  <2>1. req[r].pc = "evaluate" /\ p \in queue
    BY <1>4 DEF EvaluatePolicy
  <2>2. StatusSeen(req[r]) = IF Denies(queue) THEN "denied" ELSE "admitted"
    BY <2>1 DEF StatusSeen, StatusAt
  <2>3. CallsSeen[r].status = StatusSeen(req[r])
    BY FieldsSeen
  <2>4. ASSUME CallsSeen' = [CallsSeen EXCEPT ![r].status = StatusSeen(req[r])]
        PROVE  UNCHANGED Governed!governed
    <3>1. CallSeen(req[r]) = [CallSeen(req[r]) EXCEPT !.status = StatusSeen(req[r])]
      BY CallIs, StatusUpdated
    <3>2. CallsSeen' = CallsSeen
      BY <2>4, <3>1 DEF CallsSeen
    <3> QED BY <1>0, <3>2, Unseen
  <2>5. CASE req[r].tool \in Denied[p] /\ req' = [req EXCEPT ![r] = deny]
    <3>1. /\ deny.session = req[r].session /\ deny.tool = req[r].tool
          /\ deny.intent = req[r].intent /\ deny.ran = req[r].ran
          /\ deny.error = req[r].error /\ deny.pc = "violation"
      BY <1>0 DEF Request
    <3> HIDE DEF deny
    <3>2. StatusSeen(deny) = "denied"
      BY <3>1 DEF StatusSeen, StatusAt
    <3>3. StatusSeen(deny) = StatusSeen(req[r])
      BY <2>1, <2>2, <2>5, <3>2
    <3>4. CallsSeen' = [CallsSeen EXCEPT ![r].status = StatusSeen(deny)]
      BY <1>1, <2>5, <3>1
    <3> QED BY <2>4, <3>3, <3>4
  <2>6. CASE req[r].tool \notin Denied[p] /\ req' = [req EXCEPT ![r] = pass]
    <3>1. loc \in {"evaluate", "embed", "execute"} /\ (loc # "evaluate" => queue = {p})
      BY <1>2
    <3>2. queue = req[r].queue
      OBVIOUS
    <3> HIDE DEF loc, queue
    <3>3. /\ pass.session = req[r].session /\ pass.tool = req[r].tool
          /\ pass.intent = req[r].intent /\ pass.ran = req[r].ran
          /\ pass.error = req[r].error /\ pass.pc = loc /\ pass.queue = queue \ {p}
      BY <1>0 DEF Request
    <3> HIDE DEF pass
    <3>4. Denies(queue \ {p}) <=> Denies(queue)
      BY <2>6
    <3>5. StatusSeen(pass) = IF Denies(queue) THEN "denied" ELSE "admitted"
      <4>1. CASE loc = "evaluate"
        BY <3>3, <3>4, <4>1 DEF StatusSeen, StatusAt
      <4>2. CASE loc # "evaluate"
        <5>1. ~Denies(queue)
          BY <2>6, <3>1, <4>2
        <5> QED BY <3>1, <3>3, <4>2, <5>1 DEF StatusSeen, StatusAt
      <4> QED BY <4>1, <4>2
    <3>6. CallsSeen' = [CallsSeen EXCEPT ![r].status = StatusSeen(pass)]
      BY <1>1, <2>6, <3>3
    <3>7. StatusSeen(pass) = StatusSeen(req[r])
      BY <2>2, <3>5 DEF queue
    <3> QED BY <2>4, <3>6, <3>7
  <2> QED BY <1>4, <2>5, <2>6 DEF EvaluatePolicy
<1> QED BY <1>3, <1>4

LEMMA RefusalRefines ==
    ASSUME TypeOK, NEW r \in Requests, PoliciesChecked(r), WorldStays,
           NEW p \in Policies, AuditViolation(r, p)
    PROVE  Governed!Next
<1>1. /\ req[r].pc = "violation" /\ req[r].tool \in Denied[p]
      /\ audit' = audit \cup {[type |-> "PolicyViolation", req |-> r, policy |-> p]}
      /\ Raise(r, "PolicyViolation")
  BY DEF AuditViolation, At, PoliciesChecked
<1>2. CallsSeen' = [CallsSeen EXCEPT ![r] = Ended(@, "PolicyViolation")]
  BY <1>1, RaiseSeen
<1>3. CallsSeen[r].status = "denied" /\ CallsSeen[r].asked = req[r].tool
  BY <1>1, FieldsSeen DEF StatusAt
<1>4. Governed!Ends(r, "PolicyViolation")
  BY <1>2 DEF Governed!Ends, Ended, CallsSeen
<1>5. UNCHANGED Governed!world
  BY DEF WorldStays, Governed!world, SessionsSeen
<1>6. Governed!Refuse(r, p)
  BY <1>1, <1>3, <1>4, <1>5 DEF Governed!Refuse, Governed!Is, CallsSeen
<1> QED BY <1>6 DEF Governed!Next

\* What the CLE may suggest, seen from either side.
LEMMA SuggestionsSeen ==
    ASSUME NEW r \in Requests, SuggestionLearned, CleDecided(r), req[r].pc # "idle",
           req[r].suggested \in Tools
    PROVE  req[r].suggested \in Governed!Suggestions(r)
<1>1. PICK v \in Intents : /\ <<req[r].suggested, v>> \in learned
                           /\ Match[v][req[r].intent] >= Threshold
  BY NoneAssumption DEF SuggestionLearned
<1>2. req[r].intent \in Intents /\ CallsSeen[r].intent = req[r].intent
  BY FieldsSeen DEF CleDecided
<1>3. <<v, CallsSeen[r].intent>> \in {c \in Intents \X Intents : Match[c[1]][c[2]] >= Threshold}
  BY <1>1, <1>2
<1> QED BY <1>1, <1>3 DEF Governed!Suggestions, CallsSeen

\* Nothing of the CLE is seen but its audit event.
LEMMA CleRefines ==
    ASSUME TypeOK, NEW r \in Requests, LocalsSet(r), CleDecided(r), SuggestionLearned, WorldStays,
           \/ GetEmbedding(r) \/ FindPatterns(r) \/ ResolveSuggestion(r) \/ AuditInterception(r)
           \/ PortRaises(r) /\ req[r].pc \in InCle
    PROVE  Governed!Next \/ UNCHANGED Governed!governed
<1> USE DEF At
<1>0. req[r] \in Request
  BY DEF TypeOK
<1>1. req[r].pc \in InCle
  BY DEF GetEmbedding, FindPatterns, ResolveSuggestion, AuditInterception, InCle
<1>2. ASSUME NEW q, req' = [req EXCEPT ![r] = q], q.pc \in InCle \cup {"execute"},
             q.session = req[r].session, q.tool = req[r].tool, q.intent = req[r].intent,
             q.ran = req[r].ran, q.error = req[r].error
      PROVE  CallsSeen' = CallsSeen
  <2>1. StatusSeen(q) = "admitted" /\ StatusSeen(req[r]) = "admitted"
    BY <1>1, <1>2 DEF StatusSeen, StatusAt, InCle
  <2>2. CallSeen(q) = CallSeen(req[r])
    BY <1>2, <2>1, CallIs
  <2> QED BY <1>2, <2>2, SeenAgain
<1>3. ASSUME NEW loc \in InCle \cup {"execute"}, Goto(r, loc) PROVE CallsSeen' = CallsSeen
  <2> DEFINE q == [req[r] EXCEPT !.pc = loc]
  <2>1. /\ q.session = req[r].session /\ q.tool = req[r].tool /\ q.intent = req[r].intent
        /\ q.ran = req[r].ran /\ q.error = req[r].error /\ q.pc = loc
    BY <1>0 DEF Request
  <2>2. req' = [req EXCEPT ![r] = q]
    BY <1>3 DEF Goto
  <2> HIDE DEF q
  <2> QED BY <1>2, <2>1, <2>2
<1>4. CASE GetEmbedding(r)
  BY <1>3, <1>4, Unseen DEF GetEmbedding, InCle
<1>5. CASE FindPatterns(r)
  <2> DEFINE loc == IF ShadowMode THEN "intercept" ELSE "suggest"
  <2>1. ASSUME NEW t, req' = [req EXCEPT ![r] = [@ EXCEPT !.suggested = t, !.pc = loc]]
        PROVE  CallsSeen' = CallsSeen
    <3> DEFINE q == [req[r] EXCEPT !.suggested = t, !.pc = loc]
    <3>1. loc \in InCle
      BY DEF InCle
    <3>2. req' = [req EXCEPT ![r] = q]
      BY <2>1
    <3> HIDE DEF loc
    <3>3. /\ q.session = req[r].session /\ q.tool = req[r].tool /\ q.intent = req[r].intent
          /\ q.ran = req[r].ran /\ q.error = req[r].error /\ q.pc = loc
      BY <1>0 DEF Request
    <3> HIDE DEF q
    <3> QED BY <1>2, <3>1, <3>2, <3>3
  <2>2. CallsSeen' = CallsSeen /\ audit' = audit
    BY <1>3, <1>5, <2>1 DEF FindPatterns
  <2> QED BY <2>2, Unseen
<1>6. CASE ResolveSuggestion(r)
  <2> DEFINE applied == req[r].suggested \in tools
             tool == IF applied THEN req[r].suggested ELSE req[r].effective
             q == [req[r] EXCEPT !.pc = "intercept", !.corrected = applied, !.effective = tool]
  <2>1. req' = [req EXCEPT ![r] = q] /\ audit' = audit
    BY <1>6 DEF ResolveSuggestion
  <2> HIDE DEF applied, tool
  <2>2. /\ q.session = req[r].session /\ q.tool = req[r].tool /\ q.intent = req[r].intent
        /\ q.ran = req[r].ran /\ q.error = req[r].error /\ q.pc \in InCle
    BY <1>0 DEF Request, InCle
  <2> HIDE DEF q
  <2>3. CallsSeen' = CallsSeen
    BY <1>2, <2>1, <2>2
  <2> QED BY <2>1, <2>3, Unseen
<1>7. CASE AuditInterception(r)
  <2> DEFINE e == [type |-> "CLEInterception", req |-> r, suggested |-> req[r].suggested,
                   applied |-> req[r].corrected]
  <2>1. req[r].pc = "intercept" /\ Goto(r, "execute") /\ audit' = audit \cup {e}
    BY <1>7 DEF AuditInterception
  <2>2. CallsSeen' = CallsSeen
    BY <1>3, <2>1
  <2>3. req[r].suggested \in Tools /\ req[r].corrected \in BOOLEAN
    BY <1>0, <2>1 DEF LocalsSet, Request
  <2>4. req[r].suggested \in Governed!Suggestions(r)
    BY <2>1, <2>3, SuggestionsSeen
  <2>5. CallsSeen[r].status = "admitted"
    BY <2>1, FieldsSeen DEF StatusAt
  <2>6. Governed!Explain(r, req[r].suggested, req[r].corrected)
    BY <2>1, <2>2, <2>4, <2>5
       DEF Governed!Explain, Governed!Is, Governed!world, CallsSeen, SessionsSeen, WorldStays
  <2> QED BY <2>3, <2>6 DEF Governed!Next
<1>8. CASE PortRaises(r) /\ req[r].pc \in InCle
  <2>1. Goto(r, "execute") /\ audit' = audit
    BY <1>8 DEF PortRaises
  <2> QED BY <1>3, <2>1, Unseen
<1> QED BY <1>4, <1>5, <1>6, <1>7, <1>8

\* What runs was admitted, is registered, and is what the trail says.
LEMMA ExecutionRefines ==
    ASSUME TypeOK, NEW r \in Requests, LocalsSet(r), ShadowKeepsTool(r), CleDecided(r),
           ToolFound(r), SuggestionLearned, InterceptionsKept, WorldStays,
           ExecuteTool(r)
    PROVE  Governed!Next
<1> DEFINE t == req[r].effective
           q == [req[r] EXCEPT !.pc = "record", !.ran = t]
<1>0. req[r] \in Request
  BY DEF TypeOK
<1>1. req[r].pc = "execute" /\ req' = [req EXCEPT ![r] = q] /\ audit' = audit
  BY DEF ExecuteTool, At
<1>2. t \in Tools /\ t = req[r].effective
  BY <1>1 DEF LocalsSet
<1>3. CallsSeen[r].status = "admitted" /\ CallsSeen[r].asked = req[r].tool
  BY <1>1, FieldsSeen DEF StatusAt
<1>4. t \in tools
  BY <1>1 DEF ToolFound, Permitted, InCle
<1>5. t # req[r].tool => ~ShadowMode /\ t \in Governed!Suggestions(r)
  <2> SUFFICES ASSUME t # req[r].tool PROVE ~ShadowMode /\ t \in Governed!Suggestions(r)
    OBVIOUS
  <2>1. ~ShadowMode /\ t = req[r].suggested
    BY DEF ShadowKeepsTool, ToolFound
  <2> QED BY <1>1, <1>2, <2>1, SuggestionsSeen
<1>6. \A e \in audit : e.type = "CLEInterception" /\ e.req = r =>
         t = IF e.applied THEN e.suggested ELSE req[r].tool
  BY DEF InterceptionsKept, Events
<1> HIDE DEF t
<1>7. CallSeen(q) = RanTool(CallSeen(req[r]), t)
  <2>1. /\ q.session = req[r].session /\ q.tool = req[r].tool /\ q.intent = req[r].intent
        /\ q.ran = t /\ q.error = req[r].error /\ q.pc = "record"
    BY <1>0, <1>2 DEF Request
  <2> HIDE DEF q
  <2>2. StatusSeen(q) = "ran"
    BY <2>1 DEF StatusSeen, StatusAt
  <2> QED BY <2>1, <2>2, CallIs, RanUpdated
<1> HIDE DEF q
<1>8. CallsSeen' = [CallsSeen EXCEPT ![r] = RanTool(@, t)]
  <2>1. CallsSeen' = [CallsSeen EXCEPT ![r] = CallSeen(q)]
    BY <1>1, OneCallSeen
  <2> QED BY <1>7, <2>1 DEF CallsSeen
<1>9. UNCHANGED <<Governed!world, audit>>
  BY <1>1 DEF WorldStays, Governed!world, SessionsSeen
<1>10. Governed!Run(r, t)
  <2>1. CallsSeen[r].status = "admitted" /\ t \in tools
    BY <1>3, <1>4
  <2>2. t # CallsSeen[r].asked => ~ShadowMode /\ t \in Governed!Suggestions(r)
    BY <1>3, <1>5
  <2>3. \A e \in audit : e.type = "CLEInterception" /\ e.req = r =>
           t = IF e.applied THEN e.suggested ELSE CallsSeen[r].asked
    BY <1>3, <1>6
  <2> QED BY <1>8, <1>9, <2>1, <2>2, <2>3 DEF Governed!Run, Governed!Is, RanTool, CallsSeen
<1> QED BY <1>2, <1>10 DEF Governed!Next

LEMMA ReportRefines ==
    ASSUME TypeOK, NEW r \in Requests, LocalsSet(r), WorldStays, AuditCall(r)
    PROVE  Governed!Next
<1>1. /\ req[r].pc = "record" /\ Goto(r, "returned")
      /\ audit' = audit \cup {[type |-> "ToolCalled", req |-> r, tool |-> req[r].ran,
                               corrected |-> req[r].corrected]}
  BY DEF AuditCall, At
<1>2. CallsSeen' = [CallsSeen EXCEPT ![r].status = "returned"]
  BY <1>1, GotoSeen DEF StatusAt, Locations
<1>3. /\ CallsSeen[r].status = "ran" /\ CallsSeen[r].asked = req[r].tool
      /\ CallsSeen[r].ran = req[r].ran
  BY <1>1, FieldsSeen DEF StatusAt
<1>4. req[r].corrected \in BOOLEAN /\ (req[r].ran # req[r].tool => req[r].corrected)
  BY <1>1 DEF TypeOK, Request, LocalsSet
<1>5. CallsSeen[r].ran # CallsSeen[r].asked => req[r].corrected
  BY <1>3, <1>4
<1>6. audit' = audit \cup {[type |-> "ToolCalled", req |-> r, tool |-> CallsSeen[r].ran,
                            corrected |-> req[r].corrected]}
  BY <1>1, <1>3
<1>7. UNCHANGED Governed!world
  BY DEF WorldStays, Governed!world, SessionsSeen
<1>8. Governed!Report(r, req[r].corrected)
  BY <1>2, <1>3, <1>5, <1>6, <1>7 DEF Governed!Report, Governed!Is, Governed!Goes, CallsSeen
<1> QED BY <1>4, <1>8 DEF Governed!Next

LEMMA BeginRefines ==
    ASSUME TypeOK, NEW r \in Requests, NEW s \in Sessions, NEW t \in Tools, NEW i \in Intents,
           Begin(r, s, t, i)
    PROVE  Governed!Next
<1> DEFINE q == [IdleRequest EXCEPT !.pc = "session", !.session = s, !.tool = t,
                                    !.intent = i, !.arrived = clock, !.effective = t]
<1>1. req[r].pc = "idle" /\ req' = [req EXCEPT ![r] = q]
  BY DEF Begin
<1>2. /\ q.pc = "session" /\ q.session = s /\ q.tool = t /\ q.intent = i
      /\ q.ran = NoTool /\ q.error = "none"
  BY DEF IdleRequest
<1> HIDE DEF q
<1>3. CallSeen(q) = Call("asked", s, t, i, NoTool, "none")
  <2>1. StatusSeen(q) = "asked"
    BY <1>2 DEF StatusSeen, StatusAt
  <2> QED BY <1>2, <2>1, CallIs
<1>4. CallsSeen' = [CallsSeen EXCEPT ![r] = Call("asked", s, t, i, NoTool, "none")]
  BY <1>1, <1>3, OneCallSeen
<1>5. CallsSeen[r].status = "new"
  BY <1>1, FieldsSeen DEF StatusAt
<1>6. UNCHANGED <<Governed!world, audit>>
  BY DEF Begin, Governed!world, SessionSeen, IsActive, IsExpired
<1>7. Governed!Ask(r, s, t, i)
  BY <1>4, <1>5, <1>6 DEF Governed!Ask, Governed!Is, Call, CallsSeen
<1> QED BY <1>7 DEF Governed!Next

LEMMA GovernedInit == Init => Governed!Init
<1> SUFFICES ASSUME Init PROVE Governed!Init
  OBVIOUS
<1>1. \A r \in Requests : CallSeen(req[r]) = Governed!NoCall
  BY DEF Init, IdleRequest, CallSeen, StatusAt, Governed!NoCall
<1>2. \A s \in Sessions : SessionSeen(s) = "none"
  BY DEF Init, SessionSeen
<1> QED BY <1>1, <1>2 DEF Init, Governed!Init

LEMMA GovernedStep ==
    ASSUME IndInv, CleInv, ToolsFound, [Next]_vars
    PROVE  Governed!Next \/ UNCHANGED Governed!governed
<1>1. TypeOK /\ SuggestionLearned /\ InterceptionsKept
  BY DEF IndInv, CleInv
<1>2. ASSUME NEW r \in Requests, Step(r) \/ PortRaises(r)
      PROVE  Governed!Next \/ UNCHANGED Governed!governed
  <2>1. /\ LocalsSet(r) /\ ShadowKeepsTool(r) /\ PoliciesChecked(r) /\ CleDecided(r)
        /\ ToolFound(r)
    BY DEF IndInv, CleInv, ToolsFound
  <2>2. WorldStays
    BY <1>1, <1>2, <2>1, HandlersStay
  <2>3. ASSUME NEW p \in Policies, AuditViolation(r, p) PROVE Governed!Next
    BY <1>1, <2>1, <2>2, <2>3, RefusalRefines
  <2>4. CASE PortRaises(r) /\ req[r].pc \notin InCle
    BY <1>1, <2>2, <2>4, FailureRefines DEF PortRaises
  <2>5. CASE \/ GetEmbedding(r) \/ FindPatterns(r) \/ ResolveSuggestion(r)
             \/ AuditInterception(r)
             \/ PortRaises(r) /\ req[r].pc \in InCle
    BY <1>1, <2>1, <2>2, <2>5, CleRefines
  <2>6. CASE LookupSession(r) \/ LookupTool(r)
    BY <1>1, <2>1, <2>2, <2>6, LookupsRefine
  <2>7. CASE ListPolicies(r) \/ \E p \in Policies : EvaluatePolicy(r, p)
    BY <1>1, <2>2, <2>7, PoliciesRefine
  <2>8. CASE ExecuteTool(r)
    BY <1>1, <2>1, <2>2, <2>8, ExecutionRefines
  <2>9. CASE AuditCall(r)
    BY <1>1, <2>1, <2>2, <2>9, ReportRefines
  <2> QED BY <1>2, <2>3, <2>4, <2>5, <2>6, <2>7, <2>8, <2>9 DEF Step
<1>3. ASSUME NEW r \in Requests, NEW s \in Sessions, NEW t \in Tools, NEW i \in Intents,
             Begin(r, s, t, i)
      PROVE  Governed!Next
  BY <1>1, <1>3, BeginRefines
<1> QED BY <1>1, <1>2, <1>3, WorldRefines DEF Next

\* In either mode and whichever ports fail, the handlers, with an await at every port call and
\* for every policy, implement GovernedCalls: each call is judged once, by the policies in force
\* at one moment; what runs is registered, was asked for or taught, and is what the trail
\* says; sessions end at their deadline, not when a lookup finds them expired.
THEOREM FabricImplements == Spec => ImplementsGoverned
<1>1. Spec => []ToolsFound
  BY FoundInit, FoundNext, Invariance, PTL DEF Spec
<1>2. IndInv /\ CleInv /\ ToolsFound /\ [Next]_vars => [Governed!Next]_Governed!governed
  BY GovernedStep
<1> QED BY <1>1, <1>2, GovernedInit, Invariance, CleInvariance, PTL
        DEF Spec, ImplementsGoverned, Governed!Spec
=============================================================================
