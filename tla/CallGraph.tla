------------------------------ MODULE CallGraph ------------------------------
(***************************************************************************)
(* CallGraphService: for each session the graph of its tool calls, kept    *)
(* after the session ends.  Whoever records the calls may do so in any     *)
(* order: it may start a session again, add to one that ended, or report   *)
(* on a node twice.                                                        *)
(***************************************************************************)
EXTENDS Integers, Sequences, FiniteSets

CONSTANTS
    GraphSessions,
    Nodes,          \* the node ids; each is drawn once
    NoNode,         \* no parent_node_id
    NoGraph,        \* no session
    MaxStarts       \* bound on start_session

ASSUME NoNodeAssumption    == NoNode \notin Nodes /\ NoGraph \notin GraphSessions
ASSUME NodesAssumption     == IsFiniteSet(Nodes) /\ IsFiniteSet(GraphSessions)
ASSUME MaxStartsAssumption == MaxStarts \in Nat

VARIABLES
    graphs,         \* _graphs
    activeSessions, \* _active_sessions
    started,        \* how often start_session was called: the order of started_at
    made            \* history: the session, and its start, each node was added to

graphVars == <<graphs, activeSessions, started, made>>

NodeStates == {"absent", "in_progress", "completed", "failed"}

Graph == [status : {"none", "active", "completed"},
          startedAt : 0 .. MaxStarts,
          nodes : [Nodes -> [status : NodeStates, corrected : BOOLEAN]],
          edges : SUBSET (Nodes \X Nodes)]

Origin == [session : GraphSessions \cup {NoGraph}, start : 0 .. MaxStarts]

GraphTypeOK ==
    /\ graphs \in [GraphSessions -> Graph]
    /\ activeSessions \subseteq GraphSessions
    /\ started \in 0 .. MaxStarts
    /\ made \in [Nodes -> Origin]

Absent  == [status |-> "absent", corrected |-> FALSE]
Running == [status |-> "in_progress", corrected |-> FALSE]

NewGraph(status, at) ==
    [status |-> status, startedAt |-> at, nodes |-> [n \in Nodes |-> Absent], edges |-> {}]

GraphInit ==
    /\ graphs = [s \in GraphSessions |-> NewGraph("none", 0)]
    /\ activeSessions = {}
    /\ started = 0
    /\ made = [n \in Nodes |-> [session |-> NoGraph, start |-> 0]]

-----------------------------------------------------------------------------
Known(s) == graphs[s].status # "none"

NodesOf(s) == {n \in Nodes : graphs[s].nodes[n].status # "absent"}

\* Mutant of StartSession: a session that is known keeps its nodes.
StartSessionKeeping(s) ==
    /\ started < MaxStarts
    /\ started' = started + 1
    /\ graphs' = [graphs EXCEPT ![s].status = "active", ![s].startedAt = started + 1]
    /\ activeSessions' = activeSessions \cup {s}
    /\ UNCHANGED made

\* Takes the place of the graph of that session, if there is one.
StartSession(s) ==
    /\ started < MaxStarts
    /\ started' = started + 1
    /\ graphs' = [graphs EXCEPT ![s] = NewGraph("active", started + 1)]
    /\ activeSessions' = activeSessions \cup {s}
    /\ UNCHANGED made

\* Nothing checks the parent: it may be a node of another session, or of an earlier start.
\* Only that an id is drawn at random keeps one that is yet to be drawn from being passed.
Parents == {NoNode} \cup {p \in Nodes : made[p].session # NoGraph}

AddNode(s, n, parent) ==
    /\ Known(s) /\ made[n].session = NoGraph
    /\ graphs' = [graphs EXCEPT ![s].nodes[n] = Running,
         ![s].edges = graphs[s].edges \cup (IF parent = NoNode THEN {} ELSE {<<parent, n>>})]
    /\ made' = [made EXCEPT ![n] = [session |-> s, start |-> graphs[s].startedAt]]
    /\ UNCHANGED <<activeSessions, started>>

\* Also of a node that failed, or was completed before.
CompleteNode(s, n, corrected) ==
    /\ n \in NodesOf(s)
    /\ graphs' = [graphs EXCEPT ![s].nodes[n] = [status |-> "completed", corrected |-> corrected]]
    /\ UNCHANGED <<activeSessions, started, made>>

\* was_corrected stays as it was.
FailNode(s, n) ==
    /\ n \in NodesOf(s)
    /\ graphs' = [graphs EXCEPT ![s].nodes[n].status = "failed"]
    /\ UNCHANGED <<activeSessions, started, made>>

\* Nodes in progress stay in progress.
EndSession(s) ==
    /\ Known(s)
    /\ graphs' = [graphs EXCEPT ![s].status = "completed"]
    /\ activeSessions' = activeSessions \ {s}
    /\ UNCHANGED <<started, made>>

GraphNext ==
    \E s \in GraphSessions :
      \/ StartSession(s) \/ EndSession(s)
      \/ \E n \in Nodes :
           \/ \E p \in Parents : AddNode(s, n, p)
           \/ \E corrected \in BOOLEAN : CompleteNode(s, n, corrected)
           \/ FailNode(s, n)

GraphSpec == GraphInit /\ [][GraphNext]_graphVars

-----------------------------------------------------------------------------
(* What the dashboard reads *)

ActiveSessions == activeSessions

\* get_historical: the latest first.
Historical(limit) ==
    LET ended == {s \in GraphSessions : Known(s) /\ s \notin activeSessions} IN
    {s \in ended : Cardinality({r \in ended : graphs[r].startedAt > graphs[s].startedAt}) < limit}

\* get_correction_overlay
Overlay(s) == {n \in NodesOf(s) : graphs[s].nodes[n].corrected}

CorrectedCalls == UNION {Overlay(s) : s \in GraphSessions}

\* get_statistics
Statistics ==
    LET sessions == {s \in GraphSessions : Known(s)} IN
       [total     |-> Cardinality(sessions),
        active    |-> Cardinality(activeSessions),
        completed |-> Cardinality(sessions) - Cardinality(activeSessions)]

-----------------------------------------------------------------------------
(* Properties *)

\* Every session known is shown as active or as historical and not as both, as its
\* status says, and the statistics count them so; asked for as many as there are, nothing
\* historical is cut off.
SessionsShownOnce ==
    /\ activeSessions = {s \in GraphSessions : graphs[s].status = "active"}
    /\ Historical(Cardinality(GraphSessions)) = {s \in GraphSessions : graphs[s].status = "completed"}
    /\ Statistics.completed = Cardinality({s \in GraphSessions : graphs[s].status = "completed"})

\* A graph has the nodes added since its session was last started, none is in two.
NodesInPlace ==
    \A s \in GraphSessions :
      NodesOf(s) = {n \in Nodes : made[n] = [session |-> s, start |-> graphs[s].startedAt]}

\* Each node has at most one caller, and an edge comes from a node of its graph unless
\* that was drawn for another session or before a restart.  No call is its own caller,
\* however indirectly: among any nodes one is called by none of them.
EdgesInPlace ==
    \A s \in GraphSessions :
      /\ \A e \in graphs[s].edges :
           /\ e[2] \in NodesOf(s)
           /\ \A f \in graphs[s].edges : f[2] = e[2] => f = e
           /\ \/ e[1] \in NodesOf(s)
              \/ made[e[1]].session \in GraphSessions \ {s}
              \/ made[e[1]].session = s /\ made[e[1]].start < graphs[s].startedAt
      /\ \A S \in (SUBSET Nodes) \ {{}} :
           \E n \in S : \A m \in S : <<m, n>> \notin graphs[s].edges

\* However calls are recorded, finished and failed late, or sessions started again, the
\* dashboard shows every session once, its graph holds only its own nodes, and no node is
\* called by two or, however indirectly, by itself.
CallGraphsAgree == SessionsShownOnce /\ NodesInPlace /\ EdgesInPlace
=============================================================================
