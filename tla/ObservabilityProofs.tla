------------------------- MODULE ObservabilityProofs -------------------------
(***************************************************************************)
(* What is shown to operators, proved for any number of sessions, holders, *)
(* tools and samples: the call graphs, the metrics that are collected and  *)
(* the drift that is reported.  Metrics and drift rest on sums, which are  *)
(* recursive: the facts about them come first.                             *)
(***************************************************************************)
EXTENDS CallGraph, MetricsRegistry, DriftDetector, FiniteSetTheorems, SequenceTheorems,
        WellFoundedInduction, TLAPS

(* Sums *)

\* SumFunctionOnSet chooses an element and adds it to the sum of the rest, by a
\* recursive function on the subsets: Adds(g, f, S) says that g is one for f on S.
Chosen(s) == CHOOSE x \in s : TRUE
Summed(g, f, s) == IF s = {} THEN 0 ELSE f[Chosen(s)] + g[s \ {Chosen(s)}]
Adds(g, f, S) == g = [s \in SUBSET S |-> Summed(g, f, s)]
Adder(f, S) == CHOOSE g : Adds(g, f, S)

LEMMA SumIs ==
    ASSUME NEW f, NEW S
    PROVE  SumFunctionOnSet(f, S) = Adder(f, S)[S]
BY DEF SumFunctionOnSet, FoldFunctionOnSet, MapThenFoldSet, Adder, Adds, Summed, Chosen

\* Of sets that are finite, one has fewest elements: induction over data in the form
\* that needs no operator for a parameter.
LEMMA FewestFound ==
    ASSUME NEW B, B # {}, \A s \in B : IsFiniteSet(s)
    PROVE  \E s \in B : \A t \in B : ~(Cardinality(t) < Cardinality(s))
<1> DEFINE less == {x \in Nat \X Nat : x[1] < x[2]}
           T == {Cardinality(s) : s \in B}
<1>1. IsWellFoundedOn(less, Nat)
  <2>1. less = OpToRel(<, Nat)
    BY DEF OpToRel
  <2> QED BY <2>1, NatLessThanWellFounded
<1>2. T \subseteq Nat /\ T # {}
  BY FS_CardinalityType
<1>3. PICK n \in T : \A m \in T : ~(<<m, n>> \in less)
  <2> HIDE DEF less, T
  <2> QED BY <1>1, <1>2, WFMin
<1>4. PICK s \in B : n = Cardinality(s)
  OBVIOUS
<1>5. \A t \in B : ~(Cardinality(t) < Cardinality(s))
  BY <1>2, <1>3, <1>4
<1> QED BY <1>5

\* A smaller set is left when the chosen element is taken out.
LEMMA ChosenOut ==
    ASSUME NEW s, IsFiniteSet(s), s # {}
    PROVE  /\ Chosen(s) \in s /\ s \ {Chosen(s)} \in SUBSET s
           /\ IsFiniteSet(s \ {Chosen(s)}) /\ Cardinality(s \ {Chosen(s)}) < Cardinality(s)
<1>1. Chosen(s) \in s
  BY DEF Chosen
<1>2. IsFiniteSet(s \ {Chosen(s)}) /\ Cardinality(s \ {Chosen(s)}) = Cardinality(s) - 1
  BY <1>1, FS_RemoveElement
<1>3. Cardinality(s) \in Nat
  BY FS_CardinalityType
<1> QED BY <1>1, <1>2, <1>3

\* The function of a larger set adds up a smaller one to the same.
LEMMA AddersAgree ==
    ASSUME NEW f, NEW S, NEW T, IsFiniteSet(S), S \subseteq T, NEW g, NEW h,
           Adds(g, f, S), Adds(h, f, T)
    PROVE  \A s \in SUBSET S : g[s] = h[s]
<1> DEFINE B == {s \in SUBSET S : g[s] # h[s]}
<1> SUFFICES ASSUME B # {} PROVE FALSE
  OBVIOUS
<1>1. \A s \in B : IsFiniteSet(s)
  BY FS_Subset
<1>2. PICK s \in B : \A t \in B : ~(Cardinality(t) < Cardinality(s))
  <2> HIDE DEF B
  <2> QED BY <1>1, FewestFound
<1>3. g[s] = Summed(g, f, s) /\ h[s] = Summed(h, f, s)
  BY <1>2 DEF Adds
<1>4. s # {}
  BY <1>2, <1>3 DEF Summed
<1>5. s \ {Chosen(s)} \in SUBSET S /\ s \ {Chosen(s)} \notin B
  BY <1>1, <1>2, <1>4, ChosenOut
<1> QED BY <1>2, <1>3, <1>4, <1>5 DEF Summed

\* Every finite set has one: of those without, one with fewest elements would have it.
LEMMA AdderAdds ==
    ASSUME NEW f, NEW S, IsFiniteSet(S)
    PROVE  Adds(Adder(f, S), f, S)
<1> DEFINE B == {s \in SUBSET S : ~Adds(Adder(f, s), f, s)}
<1> SUFFICES ASSUME B # {} PROVE FALSE
  OBVIOUS
<1>1. \A s \in SUBSET S : IsFiniteSet(s)
  BY FS_Subset
<1>2. PICK T \in B : \A t \in B : ~(Cardinality(t) < Cardinality(T))
  <2>1. \A s \in B : IsFiniteSet(s)
    BY <1>1
  <2> HIDE DEF B
  <2> QED BY <2>1, FewestFound
<1> DEFINE rest(s) == s \ {Chosen(s)}
           sum(s)  == Adder(f, s)[s]
           g == [s \in SUBSET T |-> IF s = {} THEN 0 ELSE f[Chosen(s)] + sum(rest(s))]
<1>3. ASSUME NEW s \in SUBSET T, s # {}
      PROVE  /\ rest(s) \in SUBSET T /\ Adds(Adder(f, rest(s)), f, rest(s)) 
             /\ IsFiniteSet(rest(s))
  <2>1. IsFiniteSet(s) /\ IsFiniteSet(T) /\ T \in SUBSET S
    BY <1>1, <1>2
  <2>2. Cardinality(s) <= Cardinality(T) /\ Cardinality(s) \in Nat /\ Cardinality(T) \in Nat
    BY <2>1, FS_Subset, FS_CardinalityType
  <2>3. /\ rest(s) \in SUBSET s /\ IsFiniteSet(rest(s)) 
        /\ Cardinality(rest(s)) < Cardinality(s) /\ Cardinality(rest(s)) \in Nat
    BY <1>3, <2>1, ChosenOut, FS_CardinalityType
  <2>4. Cardinality(rest(s)) < Cardinality(T)
    <3> HIDE DEF rest
    <3> QED BY <2>2, <2>3
  <2> HIDE DEF rest
  <2> QED BY <1>2, <2>1, <2>3, <2>4
<1>4. ASSUME NEW s \in SUBSET T, s # {}
      PROVE  sum(rest(s)) = g[rest(s)]
  <2> DEFINE t == rest(s)
  <2>1. t \in SUBSET T /\ Adds(Adder(f, t), f, t) /\ IsFiniteSet(t)
    BY <1>3, <1>4
  <2>2. sum(t) = Summed(Adder(f, t), f, t)
    <3> HIDE DEF t
    <3> QED BY <2>1 DEF Adds
  <2>3. CASE t = {}
    BY <2>2, <2>3 DEF Summed
  <2>4. CASE t # {}
    <3>1. rest(t) \in SUBSET T /\ Adds(Adder(f, rest(t)), f, rest(t)) /\ IsFiniteSet(rest(t))
          /\ rest(t) \subseteq t
      <4> HIDE DEF t
      <4> QED BY <1>3, <2>1, <2>4
    <3>2. Adder(f, rest(t))[rest(t)] = Adder(f, t)[rest(t)]
      <4> HIDE DEF t, rest
      <4> QED BY <2>1, <3>1, AddersAgree
    <3>3. sum(t) = f[Chosen(t)] + sum(rest(t))
      BY <2>2, <2>4, <3>2 DEF Summed
    <3> QED BY <2>1, <2>4, <3>3
  <2> QED BY <2>3, <2>4
<1>5. Adds(g, f, T)
  <2>1. \A s \in SUBSET T : g[s] = Summed(g, f, s)
    <3> SUFFICES ASSUME NEW s \in SUBSET T, s # {} PROVE g[s] = f[Chosen(s)] + g[rest(s)]
      BY DEF Summed
    <3> QED BY <1>4
  <2>2. g = [s \in SUBSET T |-> g[s]]
    OBVIOUS
  <2> HIDE DEF g
  <2> QED BY <2>1, <2>2 DEF Adds
<1>6. Adds(Adder(f, T), f, T)
  <2> HIDE DEF g
  <2> QED BY <1>5 DEF Adder
<1> QED BY <1>2, <1>6

\* A sum is what is chosen and the sum of the rest.
LEMMA SumStep ==
    ASSUME NEW f, NEW S, IsFiniteSet(S)
    PROVE  /\ S = {} => SumFunctionOnSet(f, S) = 0
           /\ S # {} => SumFunctionOnSet(f, S) =
                          f[Chosen(S)] + SumFunctionOnSet(f, S \ {Chosen(S)})
<1>1. SumFunctionOnSet(f, S) = Summed(Adder(f, S), f, S)
  <2>1. Adder(f, S) = [s \in SUBSET S |-> Summed(Adder(f, S), f, s)]
    <3>1. Adds(Adder(f, S), f, S)
      BY AdderAdds
    <3> QED BY <3>1 DEF Adds
  <2>2. S \in SUBSET S
    OBVIOUS
  <2> QED BY <2>1, <2>2, SumIs
<1>2. ASSUME S # {}
      PROVE  SumFunctionOnSet(f, S \ {Chosen(S)}) = Adder(f, S)[S \ {Chosen(S)}]
  <2> DEFINE R == S \ {Chosen(S)}
  <2>1. IsFiniteSet(R) /\ R \subseteq S
    BY <1>2, ChosenOut
  <2>2. Adds(Adder(f, R), f, R) /\ Adds(Adder(f, S), f, S)
    BY <2>1, AdderAdds
  <2>3. Adder(f, R)[R] = Adder(f, S)[R]
    <3> HIDE DEF R
    <3> QED BY <2>1, <2>2, AddersAgree
  <2> QED BY <2>3, SumIs
<1> QED BY <1>1, <1>2 DEF Summed

OneMore(f, o) == [f EXCEPT ![o] = @ + 1]

\* Sums of counts are counts, and one more at one place adds one where it is in.
LEMMA SumBumped ==
    ASSUME NEW D, NEW f \in [D -> Nat], NEW S \in SUBSET D, IsFiniteSet(S),
           NEW o \in D, NEW g, g = OneMore(f, o)
    PROVE  /\ SumFunctionOnSet(f, S) \in Nat
           /\ SumFunctionOnSet(g, S) = SumFunctionOnSet(f, S) + (IF o \in S THEN 1 ELSE 0)
<1> DEFINE Good(s) == /\ SumFunctionOnSet(f, s) \in Nat
                      /\ SumFunctionOnSet(g, s) =
                           SumFunctionOnSet(f, s) + (IF o \in s THEN 1 ELSE 0)
           B == {s \in SUBSET S : ~Good(s)}
<1> SUFFICES ASSUME B # {} PROVE FALSE
  OBVIOUS
<1>1. \A s \in B : IsFiniteSet(s)
  BY FS_Subset
<1>2. PICK s \in B : \A t \in B : ~(Cardinality(t) < Cardinality(s))
  <2> HIDE DEF B
  <2> QED BY <1>1, FewestFound
<1>3. IsFiniteSet(s) /\ s \in SUBSET S
  BY <1>1
<1>4. CASE s = {}
  <2>1. SumFunctionOnSet(f, s) = 0 /\ SumFunctionOnSet(g, s) = 0 /\ o \notin s
    BY <1>3, <1>4, SumStep
  <2> QED BY <1>4, <2>1
<1>5. CASE s # {}
  <2> DEFINE c == Chosen(s)
             r == s \ {c}
  <2>1. c \in s /\ r \in SUBSET S /\ r \notin B
    BY <1>2, <1>3, <1>5, ChosenOut
  <2>2. Good(r)
    BY <2>1
  <2>3. /\ SumFunctionOnSet(f, s) = f[c] + SumFunctionOnSet(f, r)
        /\ SumFunctionOnSet(g, s) = g[c] + SumFunctionOnSet(g, r)
    BY <1>3, <1>5, SumStep
  <2>4. f[c] \in Nat /\ g[c] = (IF c = o THEN f[c] + 1 ELSE f[c])
    BY <2>1 DEF OneMore
  <2>5. o \in s <=> (o = c \/ o \in r)
    BY <2>1
  <2>6. o = c => o \notin r
    OBVIOUS
  <2> HIDE DEF c, r
  <2>7. Good(s)
    BY <2>2, <2>3, <2>4, <2>5, <2>6
  <2> QED BY <2>7
<1> QED BY <1>4, <1>5

\* A sum of zeros is zero.
LEMMA SumOfZeros ==
    ASSUME NEW f, NEW S, IsFiniteSet(S), \A x \in S : f[x] = 0
    PROVE  SumFunctionOnSet(f, S) = 0
<1> DEFINE B == {s \in SUBSET S : SumFunctionOnSet(f, s) # 0}
<1> SUFFICES ASSUME B # {} PROVE FALSE
  OBVIOUS
<1>1. \A s \in B : IsFiniteSet(s)
  BY FS_Subset
<1>2. PICK s \in B : \A t \in B : ~(Cardinality(t) < Cardinality(s))
  <2> HIDE DEF B
  <2> QED BY <1>1, FewestFound
<1>3. IsFiniteSet(s) /\ s \in SUBSET S /\ s # {}
  BY <1>1, SumStep
<1>4. Chosen(s) \in S /\ SumFunctionOnSet(f, s \ {Chosen(s)}) = 0
  BY <1>2, <1>3, ChosenOut
<1> QED BY <1>2, <1>3, <1>4, SumStep

-----------------------------------------------------------------------------
(* The call graphs *)

\* The sessions that are active are those whose status says so.
StatusAgrees == activeSessions = {s \in GraphSessions : graphs[s].status = "active"}

\* A node was added to a session that is known, when it was last started or before.
OriginsPlaced ==
    /\ \A s \in GraphSessions : graphs[s].startedAt <= started
    /\ \A n \in Nodes : made[n].session # NoGraph =>
         /\ Known(made[n].session)
         /\ made[n].start <= graphs[made[n].session].startedAt

\* Without OriginsPlaced a restart could find nodes of its own in the graph it leaves.
GraphInv == GraphTypeOK /\ StatusAgrees /\ OriginsPlaced /\ NodesInPlace /\ EdgesInPlace

-----------------------------------------------------------------------------
(* Graphs, and what an operation makes of one *)

LEMMA NewGraphTyped ==
    ASSUME NEW status \in {"none", "active", "completed"}, NEW at \in 0 .. MaxStarts
    PROVE  /\ NewGraph(status, at) \in Graph
           /\ NewGraph(status, at).status = status
           /\ NewGraph(status, at).startedAt = at
           /\ NewGraph(status, at).edges = {}
           /\ \A n \in Nodes : NewGraph(status, at).nodes[n].status = "absent"
BY DEF NewGraph, Graph, Absent, NodeStates

\* The graph with a node set to v, and with more edges.
WithNode(g, n, v)     == [g EXCEPT !.nodes[n] = v]
WithCall(g, n, edges) == [g EXCEPT !.nodes[n] = Running, !.edges = edges]

LEMMA WithNodeTyped ==
    ASSUME NEW g \in Graph, NEW n \in Nodes,
           NEW v \in [status : NodeStates, corrected : BOOLEAN]
    PROVE  /\ WithNode(g, n, v) \in Graph
           /\ WithNode(g, n, v).status = g.status
           /\ WithNode(g, n, v).startedAt = g.startedAt
           /\ WithNode(g, n, v).edges = g.edges
           /\ WithNode(g, n, v).nodes[n] = v
           /\ \A m \in Nodes \ {n} : WithNode(g, n, v).nodes[m] = g.nodes[m]
BY DEF WithNode, Graph

LEMMA WithCallTyped ==
    ASSUME NEW g \in Graph, NEW n \in Nodes, NEW edges \in SUBSET (Nodes \X Nodes)
    PROVE  /\ WithCall(g, n, edges) \in Graph
           /\ WithCall(g, n, edges).status = g.status
           /\ WithCall(g, n, edges).startedAt = g.startedAt
           /\ WithCall(g, n, edges).edges = edges
           /\ WithCall(g, n, edges).nodes[n].status = "in_progress"
           /\ \A m \in Nodes \ {n} : WithCall(g, n, edges).nodes[m] = g.nodes[m]
BY DEF WithCall, Graph, Running, NodeStates

-----------------------------------------------------------------------------
LEMMA GraphInitInv == GraphInit => GraphInv
<1> SUFFICES ASSUME GraphInit PROVE GraphInv
    OBVIOUS
<1>1. 0 \in 0 .. MaxStarts
    BY MaxStartsAssumption
<1>2. \A s \in GraphSessions : graphs[s] = NewGraph("none", 0)
    BY DEF GraphInit
<1>3. \A s \in GraphSessions :
        /\ graphs[s].status = "none" /\ graphs[s].startedAt = 0 /\ graphs[s].edges = {}
        /\ \A n \in Nodes : graphs[s].nodes[n].status = "absent"
    BY <1>1, <1>2, NewGraphTyped
<1>4. GraphTypeOK
    BY <1>1, <1>2, NewGraphTyped DEF GraphInit, GraphTypeOK, Origin
<1>5. StatusAgrees
    BY <1>3 DEF StatusAgrees, GraphInit
<1>6. OriginsPlaced
    <2>1. \A s \in GraphSessions : graphs[s].startedAt <= started
        BY <1>3 DEF GraphInit
    <2>2. \A n \in Nodes : made[n].session = NoGraph
        BY DEF GraphInit
    <2> QED
        BY <2>1, <2>2 DEF OriginsPlaced
<1>7. NodesInPlace
    BY <1>3, NoNodeAssumption DEF NodesInPlace, NodesOf, GraphInit
<1>8. EdgesInPlace
    BY <1>3 DEF EdgesInPlace
<1> QED
    BY <1>4, <1>5, <1>6, <1>7, <1>8 DEF GraphInv

LEMMA StartSessionKeeps ==
    ASSUME GraphInv, NEW s \in GraphSessions, StartSession(s)
    PROVE  GraphInv'
<1> USE DEF GraphInv
<1>1. started \in Nat /\ started + 1 \in 0 .. MaxStarts
    BY MaxStartsAssumption DEF StartSession, GraphTypeOK
<1>2. graphs' = [graphs EXCEPT ![s] = NewGraph("active", started + 1)]
    BY DEF StartSession
<1>3. /\ graphs' \in [GraphSessions -> Graph]
      /\ graphs'[s].status = "active" /\ graphs'[s].startedAt = started + 1
      /\ graphs'[s].edges = {}
      /\ \A n \in Nodes : graphs'[s].nodes[n].status = "absent"
      /\ \A r \in GraphSessions \ {s} : graphs'[r] = graphs[r]
    <2>1. NewGraph("active", started + 1) \in Graph
        BY <1>1, NewGraphTyped
    <2>2. graphs'[s] = NewGraph("active", started + 1)
        BY <1>2 DEF GraphTypeOK
    <2> QED
        BY <1>1, <1>2, <2>1, <2>2, NewGraphTyped DEF GraphTypeOK
<1>4. /\ started' = started + 1 /\ made' = made
      /\ activeSessions' = activeSessions \cup {s}
    BY DEF StartSession
<1>5. GraphTypeOK'
    BY <1>1, <1>3, <1>4 DEF GraphTypeOK
<1>6. StatusAgrees'
    BY <1>3, <1>4 DEF StatusAgrees
<1>7. \A n \in Nodes : made[n] \in Origin /\ made[n].start \in Nat
    BY DEF GraphTypeOK, Origin
<1>8. \A r \in GraphSessions : graphs[r].startedAt \in Nat /\ graphs[r].startedAt <= started
    BY DEF GraphTypeOK, Graph, OriginsPlaced
<1>9. \A n \in Nodes : made[n].session = s => made[n].start < graphs'[s].startedAt
    BY <1>1, <1>3, <1>7, <1>8, NoNodeAssumption DEF OriginsPlaced
<1>10. OriginsPlaced'
    <2>1. \A r \in GraphSessions : graphs'[r].startedAt <= started'
        BY <1>1, <1>3, <1>4, <1>8
    <2>2. ASSUME NEW n \in Nodes, made[n].session # NoGraph
          PROVE  /\ graphs'[made[n].session].status # "none"
                 /\ made[n].start <= graphs'[made[n].session].startedAt
        <3>1. made[n].session \in GraphSessions
            BY <1>7, <2>2 DEF Origin
        <3>2. CASE made[n].session = s
            BY <1>1, <1>3, <1>7, <1>9, <3>2
        <3>3. CASE made[n].session # s
            BY <1>3, <2>2, <3>1, <3>3 DEF OriginsPlaced, Known
        <3> QED
            BY <3>2, <3>3
    <2> QED
        BY <1>4, <2>1, <2>2 DEF OriginsPlaced, Known
<1>11. NodesInPlace'
    <2>1. {n \in Nodes : graphs'[s].nodes[n].status # "absent"} = {}
        BY <1>3
    <2>2. {n \in Nodes : made[n] = [session |-> s, start |-> graphs'[s].startedAt]} = {}
        BY <1>7, <1>9
    <2>3. \A r \in GraphSessions \ {s} :
            {n \in Nodes : graphs'[r].nodes[n].status # "absent"}
              = {n \in Nodes : made[n] = [session |-> r, start |-> graphs'[r].startedAt]}
        BY <1>3 DEF NodesInPlace, NodesOf
    <2>4. ASSUME NEW r \in GraphSessions
          PROVE  (NodesOf(r) = {n \in Nodes : made[n] = [session |-> r,
                                                        start |-> graphs[r].startedAt]})'
        <3>1. CASE r = s
            BY <1>4, <2>1, <2>2, <3>1 DEF NodesOf
        <3>2. CASE r # s
            BY <1>4, <2>3, <3>2 DEF NodesOf
        <3> QED
            BY <3>1, <3>2
    <2> QED
        BY <2>4 DEF NodesInPlace
<1>12. EdgesInPlace'
    <2>1. \A r \in GraphSessions \ {s} : NodesOf(r)' = NodesOf(r)
        BY <1>3 DEF NodesOf
    <2> QED
        BY <1>3, <1>4, <2>1 DEF EdgesInPlace
<1> QED
    BY <1>5, <1>6, <1>10, <1>11, <1>12

-----------------------------------------------------------------------------
\* What an edge to a new node leaves of the calls: still nothing calls itself.
LEMMA NewCallUncircular ==
    ASSUME NEW edges \in SUBSET (Nodes \X Nodes), NEW n \in Nodes,
           \A e \in edges : e[1] # n /\ e[2] # n,
           \A S \in (SUBSET Nodes) \ {{}} : \E x \in S : \A y \in S : <<y, x>> \notin edges,
           NEW new \in SUBSET (Nodes \X Nodes), \A e \in new : e[1] # n /\ e[2] = n,
           NEW S \in (SUBSET Nodes) \ {{}}
    PROVE  \E x \in S : \A y \in S : <<y, x>> \notin edges \cup new
<1>1. CASE S \subseteq {n}
    <2>1. S = {n}
        BY <1>1
    <2> QED
        BY <2>1
<1>2. CASE ~(S \subseteq {n})
    <2>1. S \ {n} \in (SUBSET Nodes) \ {{}}
        BY <1>2
    <2>2. PICK x \in S \ {n} : \A y \in S \ {n} : <<y, x>> \notin edges
        BY <2>1
    <2>3. <<n, x>> \notin edges /\ \A y \in S : <<y, x>> \notin new
        BY <2>2
    <2> QED
        BY <2>2, <2>3
<1> QED
    BY <1>1, <1>2

LEMMA AddNodeKeeps ==
    ASSUME GraphInv, NEW s \in GraphSessions, NEW n \in Nodes, NEW p \in Parents,
           AddNode(s, n, p)
    PROVE  GraphInv'
<1> DEFINE new   == IF p = NoNode THEN {} ELSE {<<p, n>>}
           edges == graphs[s].edges \cup new
           at    == graphs[s].startedAt
<1>1. /\ Known(s) /\ made[n].session = NoGraph
      /\ graphs' = [graphs EXCEPT ![s] = WithCall(@, n, edges)]
      /\ made' = [made EXCEPT ![n] = [session |-> s, start |-> at]]
      /\ activeSessions' = activeSessions /\ started' = started
    BY DEF AddNode, WithCall, GraphInv, GraphTypeOK
<1>2. p # NoNode => p \in Nodes /\ made[p].session \in GraphSessions
    BY DEF Parents, GraphInv, GraphTypeOK, Origin
<1>3. s # NoGraph /\ (p # NoNode => p # n)
    BY <1>1, <1>2, NoNodeAssumption
<1>4. new \in SUBSET (Nodes \X Nodes) /\ \A e \in new : e[1] = p /\ e[1] # n /\ e[2] = n
    BY <1>2, <1>3
<1>5. graphs[s] \in Graph /\ graphs[s].edges \in SUBSET (Nodes \X Nodes) /\ at \in 0 .. MaxStarts
    BY DEF GraphInv, GraphTypeOK, Graph
<1>6. edges \in SUBSET (Nodes \X Nodes)
    BY <1>4, <1>5
<1> HIDE DEF edges, new, at
<1>7. /\ graphs' \in [GraphSessions -> Graph]
      /\ graphs'[s].status = graphs[s].status /\ graphs'[s].startedAt = at
      /\ graphs'[s].edges = edges
      /\ graphs'[s].nodes[n].status = "in_progress"
      /\ \A m \in Nodes \ {n} : graphs'[s].nodes[m] = graphs[s].nodes[m]
      /\ \A r \in GraphSessions \ {s} : graphs'[r] = graphs[r]
    <2>1. graphs'[s] = WithCall(graphs[s], n, edges)
        BY <1>1 DEF GraphInv, GraphTypeOK
    <2>2. WithCall(graphs[s], n, edges) \in Graph
        BY <1>5, <1>6, WithCallTyped
    <2>3. graphs[s].startedAt = at
        BY DEF at
    <2> QED
        BY <1>1, <1>5, <1>6, <2>1, <2>2, <2>3, WithCallTyped DEF GraphInv, GraphTypeOK
<1>8. /\ made'[n].session = s /\ made'[n].start = at /\ made'[n] = [session |-> s, start |-> at]
      /\ \A m \in Nodes \ {n} : made'[m] = made[m]
    BY <1>1 DEF GraphInv, GraphTypeOK
<1>9. GraphTypeOK'
    <2>1. [session |-> s, start |-> at] \in Origin
        BY <1>5 DEF Origin
    <2> QED
        BY <1>1, <1>7, <2>1 DEF GraphInv, GraphTypeOK
<1>10. StatusAgrees'
    BY <1>1, <1>7 DEF GraphInv, StatusAgrees
<1>11. \A r \in GraphSessions :
         graphs'[r].status = graphs[r].status /\ graphs'[r].startedAt = graphs[r].startedAt
    BY <1>7 DEF at
<1>12. \A m \in Nodes : made[m] \in Origin /\ made'[m] \in Origin
    BY <1>9 DEF GraphInv, GraphTypeOK
<1>13. OriginsPlaced'
    <2>1. \A r \in GraphSessions : graphs'[r].startedAt <= started'
        BY <1>1, <1>11 DEF GraphInv, OriginsPlaced
    <2>2. ASSUME NEW m \in Nodes, made'[m].session # NoGraph
          PROVE  /\ graphs'[made'[m].session].status # "none"
                 /\ made'[m].start <= graphs'[made'[m].session].startedAt
        <3>1. CASE m = n
            BY <1>1, <1>5, <1>7, <1>8, <3>1 DEF Known
        <3>2. CASE m # n
            BY <1>8, <1>11, <1>12, <2>2, <3>2 DEF GraphInv, OriginsPlaced, Known, Origin
        <3> QED
            BY <3>1, <3>2
    <2> QED
        BY <2>1, <2>2 DEF OriginsPlaced, Known
<1>14. NodesInPlace'
    <2>1. ASSUME NEW r \in GraphSessions, NEW m \in Nodes
          PROVE  graphs'[r].nodes[m].status # "absent"
                   <=> made'[m] = [session |-> r, start |-> graphs'[r].startedAt]
        <3>1. graphs[r].nodes[m].status # "absent"
                <=> made[m] = [session |-> r, start |-> graphs[r].startedAt]
            BY DEF GraphInv, NodesInPlace, NodesOf
        <3>2. CASE m # n
            BY <1>7, <1>8, <1>11, <3>1, <3>2
        <3>3. CASE m = n /\ r = s
            BY <1>7, <1>8, <3>3
        <3>4. CASE m = n /\ r # s
            <4>1. made[m].session # r /\ made'[m].session # r
                BY <1>1, <1>8, <3>4, NoNodeAssumption
            <4> QED
                BY <1>7, <3>1, <3>4, <4>1
        <3> QED
            BY <3>2, <3>3, <3>4
    <2> QED
        BY <2>1 DEF NodesInPlace, NodesOf
<1>15. \A r \in GraphSessions : \A e \in graphs[r].edges :
         e \in Nodes \X Nodes /\ e[1] # n /\ e[2] # n
    <2>1. \A r \in GraphSessions : graphs[r].edges \subseteq Nodes \X Nodes
        BY DEF GraphInv, GraphTypeOK, Graph
    <2>2. ASSUME NEW r \in GraphSessions, NEW e \in graphs[r].edges
          PROVE  made[e[1]].session \in GraphSessions /\ made[e[2]].session = r
        <3>1. /\ e[2] \in NodesOf(r)
              /\ e[1] \in NodesOf(r) \/ made[e[1]].session \in GraphSessions
            BY DEF GraphInv, EdgesInPlace
        <3>2. NodesOf(r) = {m \in Nodes : made[m] = [session |-> r, start |-> graphs[r].startedAt]}
            BY DEF GraphInv, NodesInPlace
        <3>3. made[e[2]] = [session |-> r, start |-> graphs[r].startedAt]
            BY <3>1, <3>2
        <3> QED
            BY <3>1, <3>2, <3>3
    <2> QED
        BY <1>1, <2>1, <2>2, NoNodeAssumption
<1>16. \A r \in GraphSessions :
         NodesOf(r)' = IF r = s THEN NodesOf(r) \cup {n} ELSE NodesOf(r)
    BY <1>7 DEF NodesOf
<1>17. EdgesInPlace'
    <2>1. ASSUME NEW r \in GraphSessions, r # s
          PROVE  /\ \A e \in graphs'[r].edges :
                      /\ e[2] \in NodesOf(r)'
                      /\ \A f \in graphs'[r].edges : f[2] = e[2] => f = e
                      /\ \/ e[1] \in NodesOf(r)'
                         \/ made'[e[1]].session \in GraphSessions \ {r}
                         \/ made'[e[1]].session = r /\ made'[e[1]].start < graphs'[r].startedAt
                 /\ \A S \in (SUBSET Nodes) \ {{}} :
                      \E x \in S : \A y \in S : <<y, x>> \notin graphs'[r].edges
        BY <1>7, <1>8, <1>15, <1>16, <2>1 DEF GraphInv, EdgesInPlace
    <2>2. ASSUME NEW e \in edges
          PROVE  /\ e[2] \in NodesOf(s)'
                 /\ \A f \in edges : f[2] = e[2] => f = e
                 /\ \/ e[1] \in NodesOf(s)'
                    \/ made'[e[1]].session \in GraphSessions \ {s}
                    \/ made'[e[1]].session = s /\ made'[e[1]].start < at
        <3>1. CASE e \in graphs[s].edges
            <4>1. e[2] \in NodesOf(s)' /\ e[2] # n /\ e[1] \in Nodes \ {n}
                BY <1>15, <1>16, <3>1 DEF GraphInv, EdgesInPlace
            <4>2. \A f \in edges : f[2] = e[2] => f \in graphs[s].edges
                BY <1>4, <4>1 DEF edges
            <4>3. made'[e[1]] = made[e[1]]
                BY <1>8, <4>1
            <4> QED
                BY <1>16, <3>1, <4>1, <4>2, <4>3 DEF GraphInv, EdgesInPlace, at
        <3>2. CASE e \in new
            <4>1. e = <<p, n>> /\ p \in Nodes \ {n} /\ made[p].session \in GraphSessions
                BY <1>2, <1>3, <3>2 DEF new
            <4>2. \A f \in edges : f[2] = n => f = <<p, n>>
                BY <1>15, <4>1 DEF edges, new
            <4>3. made'[p] = made[p] /\ made[p] \in Origin /\ made[p].start \in Nat
                BY <1>8, <1>12, <4>1 DEF Origin
            <4>4. CASE made[p].session = s /\ made[p].start = at
                <5>1. made[p] = [session |-> s, start |-> at]
                    BY <4>1, <4>3, <4>4 DEF Origin
                <5>2. p \in NodesOf(s)
                    BY <4>1, <5>1 DEF GraphInv, NodesInPlace, at
                <5> QED
                    BY <1>16, <4>1, <4>2, <4>3, <5>2
            <4>5. CASE made[p].session = s /\ made[p].start # at
                <5>1. made[p].start <= at
                    BY <1>3, <4>1, <4>5 DEF GraphInv, OriginsPlaced, at
                <5> QED
                    BY <1>5, <1>16, <4>1, <4>2, <4>3, <4>5, <5>1
            <4>6. CASE made[p].session # s
                BY <1>16, <4>1, <4>2, <4>3, <4>6
            <4> QED
                BY <4>4, <4>5, <4>6
        <3> QED
            BY <3>1, <3>2 DEF edges
    <2>3. \A S \in (SUBSET Nodes) \ {{}} : \E x \in S : \A y \in S : <<y, x>> \notin edges
        <3>1. \A S \in (SUBSET Nodes) \ {{}} :
                \E x \in S : \A y \in S : <<y, x>> \notin graphs[s].edges
            BY DEF GraphInv, EdgesInPlace
        <3> QED
            BY <1>4, <1>5, <1>15, <3>1, NewCallUncircular DEF edges
    <2> QED
        BY <1>7, <2>1, <2>2, <2>3 DEF EdgesInPlace
<1> QED
    BY <1>9, <1>10, <1>13, <1>14, <1>17 DEF GraphInv

\* A report on a node changes its status, and neither adds nor removes any.
LEMMA ReportKeeps ==
    ASSUME GraphInv, NEW s \in GraphSessions, NEW n \in NodesOf(s),
           NEW v \in [status : NodeStates \ {"absent"}, corrected : BOOLEAN],
           graphs' = [graphs EXCEPT ![s] = WithNode(graphs[s], n, v)],
           UNCHANGED <<activeSessions, started, made>>
    PROVE  GraphInv'
<1>1. n \in Nodes /\ graphs[s] \in Graph /\ v \in [status : NodeStates, corrected : BOOLEAN]
    BY DEF NodesOf, GraphInv, GraphTypeOK
<1>2. /\ graphs' \in [GraphSessions -> Graph]
      /\ graphs'[s].nodes[n].status # "absent"
      /\ \A m \in Nodes \ {n} : graphs'[s].nodes[m] = graphs[s].nodes[m]
      /\ \A r \in GraphSessions \ {s} : graphs'[r] = graphs[r]
      /\ \A r \in GraphSessions :
           /\ graphs'[r].status = graphs[r].status /\ graphs'[r].startedAt = graphs[r].startedAt
           /\ graphs'[r].edges = graphs[r].edges
    <2>1. graphs'[s] = WithNode(graphs[s], n, v)
        BY DEF GraphInv, GraphTypeOK
    <2>2. WithNode(graphs[s], n, v) \in Graph
        BY <1>1, WithNodeTyped
    <2> QED
        BY <1>1, <2>1, <2>2, WithNodeTyped DEF GraphInv, GraphTypeOK
<1>3. \A r \in GraphSessions : NodesOf(r)' = NodesOf(r)
    BY <1>2 DEF NodesOf
<1>4. GraphTypeOK'
    BY <1>2 DEF GraphInv, GraphTypeOK
<1>5. StatusAgrees'
    BY <1>2 DEF GraphInv, StatusAgrees
<1>6. OriginsPlaced'
    <2>1. \A m \in Nodes : made[m].session # NoGraph => made[m].session \in GraphSessions
        BY DEF GraphInv, GraphTypeOK, Origin
    <2> QED
        BY <1>2, <2>1 DEF GraphInv, OriginsPlaced, Known
<1>7. NodesInPlace'
    BY <1>2, <1>3 DEF GraphInv, NodesInPlace
<1>8. EdgesInPlace'
    BY <1>2, <1>3 DEF GraphInv, EdgesInPlace
<1> QED
    BY <1>4, <1>5, <1>6, <1>7, <1>8 DEF GraphInv

LEMMA CompleteNodeKeeps ==
    ASSUME GraphInv, NEW s \in GraphSessions, NEW n \in Nodes, NEW corrected \in BOOLEAN,
           CompleteNode(s, n, corrected)
    PROVE  GraphInv'
<1> DEFINE v == [status |-> "completed", corrected |-> corrected]
<1>1. v \in [status : NodeStates \ {"absent"}, corrected : BOOLEAN]
    BY DEF NodeStates
<1>2. graphs' = [graphs EXCEPT ![s] = WithNode(graphs[s], n, v)]
    BY DEF CompleteNode, WithNode
<1>3. n \in NodesOf(s) /\ UNCHANGED <<activeSessions, started, made>>
    BY DEF CompleteNode
<1> HIDE DEF v
<1> QED
    BY <1>1, <1>2, <1>3, ReportKeeps

LEMMA FailNodeKeeps ==
    ASSUME GraphInv, NEW s \in GraphSessions, NEW n \in Nodes, FailNode(s, n)
    PROVE  GraphInv'
<1> DEFINE was == graphs[s].nodes[n]
           v   == [status |-> "failed", corrected |-> was.corrected]
<1>1. was \in [status : NodeStates, corrected : BOOLEAN]
    BY DEF GraphInv, GraphTypeOK, Graph
<1>2. v \in [status : NodeStates \ {"absent"}, corrected : BOOLEAN]
    BY <1>1 DEF NodeStates
<1>3. [was EXCEPT !.status = "failed"] = v
    BY <1>1
<1>4. WithNode(graphs[s], n, v) = [graphs[s] EXCEPT !.nodes[n].status = "failed"]
    <2>1. graphs[s] \in Graph
        BY DEF GraphInv, GraphTypeOK
    <2> QED
        BY <1>3, <2>1 DEF WithNode, Graph
<1>5. graphs' = [graphs EXCEPT ![s] = WithNode(graphs[s], n, v)]
    BY <1>4 DEF FailNode
<1>6. n \in NodesOf(s) /\ UNCHANGED <<activeSessions, started, made>>
    BY DEF FailNode
<1> HIDE DEF v
<1> QED
    BY <1>2, <1>5, <1>6, ReportKeeps

LEMMA EndSessionKeeps ==
    ASSUME GraphInv, NEW s \in GraphSessions, EndSession(s)
    PROVE  GraphInv'
<1>1. /\ graphs' = [graphs EXCEPT ![s].status = "completed"]
      /\ activeSessions' = activeSessions \ {s} /\ started' = started /\ made' = made
    BY DEF EndSession
<1>2. graphs \in [GraphSessions -> Graph]
    BY DEF GraphInv, GraphTypeOK
<1>3. /\ graphs' \in [GraphSessions -> Graph]
      /\ graphs'[s].status = "completed"
      /\ \A r \in GraphSessions \ {s} : graphs'[r] = graphs[r]
      /\ \A r \in GraphSessions :
           /\ graphs'[r].startedAt = graphs[r].startedAt
           /\ graphs'[r].nodes = graphs[r].nodes /\ graphs'[r].edges = graphs[r].edges
    BY <1>1, <1>2 DEF Graph
<1>4. \A r \in GraphSessions : NodesOf(r)' = NodesOf(r)
    BY <1>3 DEF NodesOf
<1>5. GraphTypeOK'
    BY <1>1, <1>3 DEF GraphInv, GraphTypeOK
<1>6. StatusAgrees'
    BY <1>1, <1>3 DEF GraphInv, StatusAgrees
<1>7. OriginsPlaced'
    <2>1. \A m \in Nodes : made[m].session # NoGraph => made[m].session \in GraphSessions
        BY DEF GraphInv, GraphTypeOK, Origin
    <2> QED
        BY <1>1, <1>3, <2>1 DEF GraphInv, OriginsPlaced, Known
<1>8. NodesInPlace'
    BY <1>1, <1>3, <1>4 DEF GraphInv, NodesInPlace
<1>9. EdgesInPlace'
    BY <1>1, <1>3, <1>4 DEF GraphInv, EdgesInPlace
<1> QED
    BY <1>5, <1>6, <1>7, <1>8, <1>9 DEF GraphInv

-----------------------------------------------------------------------------
\* However calls are recorded, and whatever parents are passed, the active sessions are
\* those whose status says so, every node was drawn for a session that is known and for its
\* last start or an earlier one, a graph holds those drawn since the last, each has one
\* caller at most and there is no cycle of calls.
THEOREM GraphInvariance == GraphSpec => []GraphInv
<1>1. ASSUME GraphInv, GraphNext PROVE GraphInv'
    <2>1. ASSUME NEW s \in GraphSessions, StartSession(s) PROVE GraphInv'
        BY <1>1, <2>1, StartSessionKeeps
    <2>2. ASSUME NEW s \in GraphSessions, EndSession(s) PROVE GraphInv'
        BY <1>1, <2>2, EndSessionKeeps
    <2>3. ASSUME NEW s \in GraphSessions, NEW n \in Nodes, NEW p \in Parents, AddNode(s, n, p)
          PROVE  GraphInv'
        BY <1>1, <2>3, AddNodeKeeps
    <2>4. ASSUME NEW s \in GraphSessions, NEW n \in Nodes, NEW corrected \in BOOLEAN,
                 CompleteNode(s, n, corrected)
          PROVE  GraphInv'
        BY <1>1, <2>4, CompleteNodeKeeps
    <2>5. ASSUME NEW s \in GraphSessions, NEW n \in Nodes, FailNode(s, n) PROVE GraphInv'
        BY <1>1, <2>5, FailNodeKeeps
    <2> QED
        BY <1>1, <2>1, <2>2, <2>3, <2>4, <2>5 DEF GraphNext
<1>2. ASSUME GraphInv, UNCHANGED graphVars PROVE GraphInv'
    <2> USE DEF graphVars, Known, NodesOf
    <2>1. GraphTypeOK'
        BY <1>2 DEF GraphInv, GraphTypeOK
    <2>2. StatusAgrees' /\ OriginsPlaced'
        BY <1>2 DEF GraphInv, StatusAgrees, OriginsPlaced
    <2>3. NodesInPlace'
        BY <1>2 DEF GraphInv, NodesInPlace
    <2>4. EdgesInPlace'
        BY <1>2 DEF GraphInv, EdgesInPlace
    <2> QED
        BY <2>1, <2>2, <2>3, <2>4 DEF GraphInv
<1> QED
    BY GraphInitInv, <1>1, <1>2, PTL DEF GraphSpec

\* The graphs keep their type.
THEOREM GraphTypeCorrect == GraphSpec => []GraphTypeOK
<1>1. GraphInv => GraphTypeOK
    BY DEF GraphInv
<1> QED
    BY <1>1, GraphInvariance, PTL

\* With statuses that agree, the sessions are divided into the active and the ended
\* ones, and none of these is past the limit when the limit is their number.
LEMMA ShownOnce ==
    ASSUME GraphTypeOK, StatusAgrees
    PROVE  SessionsShownOnce
<1> DEFINE ended  == {s \in GraphSessions : Known(s) /\ s \notin activeSessions}
           known  == {s \in GraphSessions : Known(s)}
           later(s) == {r \in ended : graphs[r].startedAt > graphs[s].startedAt}
           N == Cardinality(GraphSessions)
<1>1. \A s \in GraphSessions :
        /\ graphs[s].status \in {"none", "active", "completed"}
        /\ graphs[s].startedAt \in Nat
    BY DEF GraphTypeOK, Graph
<1>2. ended = {s \in GraphSessions : graphs[s].status = "completed"}
    BY <1>1 DEF StatusAgrees, Known
<1>3. ASSUME NEW s \in ended PROVE Cardinality(later(s)) < N
    <2>1. later(s) \subseteq GraphSessions \ {s}
        BY <1>1
    <2>2. /\ IsFiniteSet(GraphSessions \ {s})
          /\ Cardinality(GraphSessions \ {s}) = N - 1
        BY NodesAssumption, FS_RemoveElement
    <2>3. /\ IsFiniteSet(later(s))
          /\ Cardinality(later(s)) <= Cardinality(GraphSessions \ {s})
        BY <2>1, <2>2, FS_Subset
    <2>4. N \in Nat /\ Cardinality(later(s)) \in Nat
        BY <2>3, NodesAssumption, FS_CardinalityType
    <2> HIDE DEF later, N
    <2> QED
        BY <2>2, <2>3, <2>4
<1>4. Historical(N) = ended
    BY <1>3 DEF Historical
<1>5. known \ activeSessions = ended /\ known \cap activeSessions = activeSessions
    BY DEF StatusAgrees, Known
<1>6. Cardinality(ended) = Cardinality(known) - Cardinality(activeSessions)
    <2>1. IsFiniteSet(known)
        BY NodesAssumption, FS_Subset
    <2> HIDE DEF known, ended
    <2> QED
        BY <1>5, <2>1, FS_Difference
<1>7. Statistics.completed = Cardinality(known) - Cardinality(activeSessions)
    BY DEF Statistics
<1> QED
    BY <1>2, <1>4, <1>6, <1>7 DEF SessionsShownOnce, StatusAgrees

\* However calls are recorded, late, twice or across a restart, every session is shown
\* once, each graph has its own nodes and no call is its own caller.
THEOREM GraphsAgree == GraphSpec => []CallGraphsAgree
<1>1. GraphInv => CallGraphsAgree
    BY ShownOnce DEF GraphInv, CallGraphsAgree
<1> QED
    BY <1>1, GraphInvariance, PTL

-----------------------------------------------------------------------------
(* The metrics registry *)

LEMMA LabelledFinite == IsFiniteSet(Labelled) /\ IsFiniteSet(Labelled \X Values)
<1>1. IsFiniteSet(Labelled)
  BY SumsAssumption, FS_AddElement DEF Labelled
<1> QED BY <1>1, SumsAssumption, FS_Product

\* The observations that Observations(k, vs) adds up.
Of(k, vs) == {o \in Labelled \X Values : k \in {o[1], NoLabels} /\ o[2] \in vs}

LEMMA OfFinite ==
    ASSUME NEW k, NEW vs
    PROVE  /\ Of(k, vs) \in SUBSET (Labelled \X Values) /\ IsFiniteSet(Of(k, vs))
           /\ Observations(k, vs) = SumFunctionOnSet(observed, Of(k, vs))
           /\ Observations(k, vs)' = SumFunctionOnSet(observed', Of(k, vs))
<1>1. Of(k, vs) \in SUBSET (Labelled \X Values)
  BY DEF Of
<1>2. IsFiniteSet(Of(k, vs))
  BY <1>1, LabelledFinite, FS_Subset
<1> QED BY <1>1, <1>2 DEF Of, Observations

\* What BucketsAgree says of what a metric stores.
Stored(m) ==
    \A k \in Labelled :
      /\ m.histogram[k].count = Observations(k, Values)
      /\ \A b \in m.bounds :
           m.histogram[k].buckets[b] = Observations(k, {v \in Values : v <= b})

LEMMA StoredAgrees == BucketsAgree <=> Stored(metrics[generation])
BY DEF BucketsAgree, Stored

LEMMA NewMetricTyped == NewMetric \in Metric /\ NoData \in Data
<1>1. NoData \in Data
  BY DEF NoData, Data
<1> QED BY <1>1 DEF NewMetric, Metric

\* A metric with which nothing was observed, whatever its buckets, after a reset.
LEMMA NothingStored ==
    ASSUME NEW m \in Metric, m.histogram = NewMetric.histogram, observed = NothingObserved
    PROVE  Stored(m)
<1>1. ASSUME NEW k \in Labelled, NEW vs PROVE Observations(k, vs) = 0
  <2>1. \A o \in Of(k, vs) : observed[o] = 0
    BY OfFinite DEF NothingObserved
  <2> QED BY <2>1, OfFinite, SumOfZeros
<1>2. \A k \in Labelled : m.histogram[k] = NoData
  BY DEF NewMetric
<1>3. m.bounds \subseteq Buckets
  BY DEF Metric
<1>4. NoData.count = 0 /\ \A b \in Buckets : NoData.buckets[b] = 0
  BY DEF NoData
<1> QED BY <1>1, <1>2, <1>3, <1>4 DEF Stored

LEMMA MetricsInitInv == MetricsInit => MetricsInv
<1> SUFFICES ASSUME MetricsInit PROVE MetricsInv
  OBVIOUS
<1> USE DEF MetricsInit
<1>1. MetricsTypeOK
  <2>1. generation \in Generations /\ callsMade \in 0 .. MaxCalls
    BY ResetsAssumption DEF Generations
  <2>2. metrics \in [Generations -> Metric]
    BY NewMetricTyped
  <2>3. counted \in [Labelled -> Int] /\ observed \in [Labelled \X Values -> Nat]
    BY DEF NothingCounted, NothingObserved
  <2> QED BY <2>1, <2>2, <2>3 DEF MetricsTypeOK
<1>2. FreshHold
  BY DEF FreshHold
<1>3. metrics[generation] = NewMetric /\ generation \in Generations
  BY <1>1 DEF MetricsTypeOK
<1>4. UnmadeNew
  BY <1>3 DEF UnmadeNew
<1>5. CountersHold
  BY <1>3 DEF CountersHold, NewMetric, NothingCounted
<1>6. BucketsAgree
  BY <1>3, NewMetricTyped, NothingStored, StoredAgrees
<1> QED BY <1>1, <1>2, <1>4, <1>5, <1>6 DEF MetricsInv

\* What the first to ask makes has the buckets it asks for, and is new in all else.
WithBounds(M, g, asked) == [M EXCEPT ![g].bounds = asked]

LEMMA Bounding ==
    ASSUME NEW M \in [Generations -> Metric], NEW g \in Generations, NEW asked \in {{}, Buckets}
    PROVE  LET N == WithBounds(M, g, asked) IN
           /\ N \in [Generations -> Metric]
           /\ N[g].counter = M[g].counter /\ N[g].histogram = M[g].histogram
           /\ \A i \in Generations \ {g} : N[i] = M[i]
<1> DEFINE m == [M[g] EXCEPT !.bounds = asked]
<1>1. WithBounds(M, g, asked) = [M EXCEPT ![g] = m]
  BY DEF WithBounds
<1>2. m \in Metric /\ m.counter = M[g].counter /\ m.histogram = M[g].histogram
  BY DEF Metric
<1> HIDE DEF m
<1> QED BY <1>1, <1>2

LEMMA GetKeeps ==
    ASSUME MetricsInv, NEW h \in Holders, NEW asked \in {{}, Buckets}, Get(h, asked)
    PROVE  MetricsInv'
<1>1. /\ held' = [held EXCEPT ![h] = generation] /\ fresh' = fresh \cup {h}
      /\ UNCHANGED <<generation, callsMade, counted, observed>>
  BY DEF Get
<1>2. metrics \in [Generations -> Metric] /\ generation \in Generations
  BY DEF MetricsInv, MetricsTypeOK
<1>3. /\ metrics' \in [Generations -> Metric]
      /\ metrics'[generation].counter = metrics[generation].counter
      /\ metrics'[generation].histogram = metrics[generation].histogram
      /\ \A i \in Generations \ {generation} : metrics'[i] = metrics[i]
  <2>1. CASE fresh = {}
    <3>1. metrics' = WithBounds(metrics, generation, asked)
      BY <2>1 DEF Get, WithBounds
    <3> DEFINE N == WithBounds(metrics, generation, asked)
    <3>2. /\ N \in [Generations -> Metric]
          /\ N[generation].counter = metrics[generation].counter
          /\ N[generation].histogram = metrics[generation].histogram
          /\ \A i \in Generations \ {generation} : N[i] = metrics[i]
      BY <1>2, Bounding
    <3>3. metrics' = N
      BY <3>1
    <3> HIDE DEF N
    <3> QED BY <3>2, <3>3
  <2>2. CASE fresh # {}
    BY <1>2, <2>2 DEF Get
  <2> QED BY <2>1, <2>2
<1>4. MetricsTypeOK'
  BY <1>1, <1>3 DEF MetricsInv, MetricsTypeOK
<1>5. FreshHold'
  BY <1>1 DEF MetricsInv, MetricsTypeOK, FreshHold, Generations
<1>6. UnmadeNew'
  <2>1. \A g \in Generations : g > generation => metrics'[g] = NewMetric
    BY <1>2, <1>3 DEF MetricsInv, UnmadeNew, Generations
  <2> QED BY <1>1, <2>1 DEF UnmadeNew
<1>7. CountersHold'
  BY <1>1, <1>3 DEF MetricsInv, CountersHold
<1>8. BucketsAgree'
  <2>1. CASE fresh = {}
    <3>1. metrics[generation] = NewMetric /\ observed = NothingObserved
      BY <2>1 DEF MetricsInv, UnmadeNew
    <3>2. metrics'[generation] \in Metric /\ metrics'[generation].histogram = NewMetric.histogram
      BY <1>2, <1>3, <3>1
    <3>3. Stored(metrics'[generation])
      BY <3>1, <3>2, NothingStored
    <3> QED BY <1>1, <3>3 DEF Stored, BucketsAgree, Observations
  <2>2. CASE fresh # {}
    <3>1. metrics' = metrics
      BY <2>2 DEF Get
    <3> QED BY <1>1, <3>1 DEF MetricsInv, BucketsAgree, Observations
  <2> QED BY <2>1, <2>2
<1> QED BY <1>4, <1>5, <1>6, <1>7, <1>8 DEF MetricsInv

LEMMA ResetKeeps ==
    ASSUME MetricsInv, ResetRegistry
    PROVE  MetricsInv'
<1> USE DEF ResetRegistry
<1>0. generation \in Generations /\ generation' \in Generations /\ generation' = generation + 1
      /\ generation' > generation
  BY ResetsAssumption DEF MetricsInv, MetricsTypeOK, Generations
<1>1. MetricsTypeOK'
  <2>1. counted' \in [Labelled -> Int] /\ observed' \in [Labelled \X Values -> Nat]
    BY DEF NothingCounted, NothingObserved
  <2> QED BY <1>0, <2>1 DEF MetricsInv, MetricsTypeOK
<1>2. FreshHold'
  BY <1>0 DEF MetricsInv, MetricsTypeOK, FreshHold, Generations
<1>3. metrics'[generation'] = NewMetric
  BY <1>0 DEF MetricsInv, UnmadeNew
<1>4. UnmadeNew'
  <2>1. \A g \in Generations : g > generation' => metrics'[g] = NewMetric
    BY <1>0 DEF MetricsInv, UnmadeNew, Generations
  <2> QED BY <1>3, <2>1 DEF UnmadeNew
<1>5. CountersHold'
  BY <1>3 DEF CountersHold, NewMetric, NothingCounted
<1>6. BucketsAgree'
  <2>1. ASSUME NEW k \in Labelled, NEW vs PROVE Observations(k, vs)' = 0
    <3>1. \A o \in Of(k, vs) : observed'[o] = 0
      BY OfFinite DEF NothingObserved
    <3> QED BY <3>1, OfFinite, SumOfZeros
  <2>2. metrics'[generation'].bounds = {}
    BY <1>3 DEF NewMetric
  <2>3. \A k \in Labelled : metrics'[generation'].histogram[k].count = 0
    BY <1>3 DEF NewMetric, NoData
  <2> QED BY <2>1, <2>2, <2>3 DEF BucketsAgree
<1> QED BY <1>1, <1>2, <1>4, <1>5, <1>6 DEF MetricsInv

-----------------------------------------------------------------------------
(* Using a metric *)

WithCount(M, g, k, to) == [M EXCEPT ![g].counter[k] = to]

WithLevel(M, g, k, to) == [M EXCEPT ![g].gauge[k] = to]

WithObserved(M, g, labels, v) ==
    [M EXCEPT ![g].histogram =
      [k \in Labelled |-> IF k \in {labels, NoLabels}
                          THEN Bucketed(M[g].histogram[k], M[g].bounds, v)
                          ELSE M[g].histogram[k]]]

LEMMA Counting ==
    ASSUME NEW M \in [Generations -> Metric], NEW g \in Generations, NEW k \in Labelled,
           NEW to \in Int
    PROVE  LET N == WithCount(M, g, k, to) IN
           /\ N \in [Generations -> Metric]
           /\ \A j \in Labelled : N[g].counter[j] = IF j = k THEN to ELSE M[g].counter[j]
           /\ N[g].histogram = M[g].histogram /\ N[g].bounds = M[g].bounds
           /\ \A i \in Generations \ {g} : N[i] = M[i]
<1>1. M[g] \in Metric /\ M[g].counter \in [Labelled -> Int]
  BY DEF Metric
<1> DEFINE C == [M[g].counter EXCEPT ![k] = to]
           m == [M[g] EXCEPT !.counter = C]
<1>2. WithCount(M, g, k, to) = [M EXCEPT ![g] = m]
  BY DEF WithCount
<1>3. /\ C \in [Labelled -> Int]
      /\ \A j \in Labelled : C[j] = IF j = k THEN to ELSE M[g].counter[j]
  BY <1>1
<1>4. m \in Metric /\ m.counter = C /\ m.histogram = M[g].histogram /\ m.bounds = M[g].bounds
  <2> HIDE DEF C
  <2> QED BY <1>1, <1>3 DEF Metric
<1> HIDE DEF m, C
<1> QED BY <1>2, <1>3, <1>4

LEMMA Setting ==
    ASSUME NEW M \in [Generations -> Metric], NEW g \in Generations, NEW k \in Labelled,
           NEW to \in Int
    PROVE  LET N == WithLevel(M, g, k, to) IN
           /\ N \in [Generations -> Metric]
           /\ N[g].counter = M[g].counter
           /\ N[g].histogram = M[g].histogram /\ N[g].bounds = M[g].bounds
           /\ \A i \in Generations \ {g} : N[i] = M[i]
<1>1. M[g] \in Metric
  OBVIOUS
<1> DEFINE G == [M[g].gauge EXCEPT ![k] = to]
           m == [M[g] EXCEPT !.gauge = G]
<1>2. WithLevel(M, g, k, to) = [M EXCEPT ![g] = m]
  BY DEF WithLevel
<1>3. G \in [Labelled -> Int]
  BY <1>1 DEF Metric
<1>4. /\ m \in Metric /\ m.counter = M[g].counter
      /\ m.histogram = M[g].histogram /\ m.bounds = M[g].bounds
  <2> HIDE DEF G
  <2> QED BY <1>1, <1>3 DEF Metric
<1> HIDE DEF m
<1> QED BY <1>2, <1>4

LEMMA BucketedTyped ==
    ASSUME NEW d \in Data, NEW bounds, NEW v \in Values
    PROVE  Bucketed(d, bounds, v) \in Data
BY BucketsAssumption DEF Bucketed, Data

LEMMA Observing ==
    ASSUME NEW M \in [Generations -> Metric], NEW g \in Generations, NEW labels \in Labelled,
           NEW v \in Values
    PROVE  LET N == WithObserved(M, g, labels, v) IN
           /\ N \in [Generations -> Metric]
           /\ N[g].counter = M[g].counter /\ N[g].bounds = M[g].bounds
           /\ \A k \in Labelled : N[g].histogram[k] =
                IF k \in {labels, NoLabels} THEN Bucketed(M[g].histogram[k], M[g].bounds, v)
                ELSE M[g].histogram[k]
           /\ \A i \in Generations \ {g} : N[i] = M[i]
<1> DEFINE B == M[g].bounds
           H == [k \in Labelled |-> IF k \in {labels, NoLabels}
                                    THEN Bucketed(M[g].histogram[k], B, v)
                                    ELSE M[g].histogram[k]]
<1>1. M[g] \in Metric /\ \A k \in Labelled : M[g].histogram[k] \in Data
  BY DEF Metric
<1>2. H \in [Labelled -> Data]
  BY <1>1, BucketedTyped
<1> DEFINE m == [M[g] EXCEPT !.histogram = H]
<1>3. WithObserved(M, g, labels, v) = [M EXCEPT ![g] = m]
  BY DEF WithObserved
<1>4. \A k \in Labelled : H[k] = IF k \in {labels, NoLabels} THEN Bucketed(M[g].histogram[k], B, v)
                                 ELSE M[g].histogram[k]
  OBVIOUS
<1>5. m \in Metric /\ m.counter = M[g].counter /\ m.histogram = H /\ m.bounds = M[g].bounds
  <2> HIDE DEF H
  <2> QED BY <1>1, <1>2 DEF Metric
<1> HIDE DEF H, m
<1> QED BY <1>3, <1>4, <1>5

\* What a use of a metric changes keeps the rest: only what is counted and shown is
\* left to see to.
LEMMA UseKeeps ==
    ASSUME MetricsInv, NEW h \in Holders, Uses(h), metrics' \in [Generations -> Metric],
           \A i \in Generations \ {held[h]} : metrics'[i] = metrics[i],
           counted' \in [Labelled -> Int], observed' \in [Labelled \X Values -> Nat],
           h \notin fresh => observed' = observed,
           UNCHANGED <<held, generation, fresh>>
    PROVE  MetricsTypeOK' /\ FreshHold' /\ UnmadeNew'
<1>1. MetricsTypeOK'
  BY ResetsAssumption DEF MetricsInv, MetricsTypeOK, Uses
<1>2. FreshHold'
  BY DEF MetricsInv, FreshHold
<1>3. UnmadeNew'
  <2>1. held[h] \in Generations /\ generation \in Generations /\ held[h] <= generation
        /\ (h \in fresh <=> held[h] = generation)
    BY DEF MetricsInv, FreshHold, MetricsTypeOK, Uses
  <2>2. \A g \in Generations : g > generation => metrics'[g] = NewMetric
    BY <2>1 DEF MetricsInv, UnmadeNew, Generations
  <2>3. ASSUME fresh = {} PROVE metrics'[generation] = NewMetric /\ observed' = NothingObserved
    BY <2>1, <2>3 DEF MetricsInv, UnmadeNew
  <2> QED BY <2>2, <2>3 DEF UnmadeNew
<1> QED BY <1>1, <1>2, <1>3

LEMMA Held ==
    ASSUME MetricsInv, NEW h \in Holders, Uses(h)
    PROVE  /\ held[h] \in Generations /\ generation \in Generations
           /\ metrics \in [Generations -> Metric]
           /\ counted \in [Labelled -> Int] /\ observed \in [Labelled \X Values -> Nat]
           /\ h \in fresh <=> held[h] = generation
BY DEF MetricsInv, MetricsTypeOK, FreshHold, Uses

LEMMA StoredKept ==
    ASSUME MetricsInv, observed' = observed, generation' = generation,
           metrics'[generation].histogram = metrics[generation].histogram,
           metrics'[generation].bounds = metrics[generation].bounds
    PROVE  BucketsAgree'
BY DEF MetricsInv, BucketsAgree, Observations

LEMMA IncreaseKeeps ==
    ASSUME MetricsInv, NEW h \in Holders, NEW labels \in Labelled, NEW by \in {-1, 1},
           Increase(h, labels, by)
    PROVE  MetricsInv'
<1> DEFINE g  == held[h]
           to == metrics[g].counter[labels] + by
<1>1. /\ Uses(h) /\ UNCHANGED <<held, generation, fresh, observed>>
      /\ counted' = IF h \in fresh THEN [counted EXCEPT ![labels] = @ + by] ELSE counted
  BY DEF Increase
<1>2. /\ g \in Generations /\ generation \in Generations /\ metrics \in [Generations -> Metric]
      /\ counted \in [Labelled -> Int] /\ observed \in [Labelled \X Values -> Nat]
      /\ h \in fresh <=> g = generation
  BY <1>1, Held
<1>3. metrics' = WithCount(metrics, g, labels, to) /\ to \in Int
  <2>1. metrics[g].counter[labels] \in Int
    BY <1>2 DEF Metric
  <2>2. to \in Int
    BY <2>1
  <2>3. metrics' = WithCount(metrics, g, labels, to)
    BY DEF Increase, WithCount
  <2> QED BY <2>2, <2>3
<1>4. /\ metrics' \in [Generations -> Metric]
      /\ \A j \in Labelled : metrics'[g].counter[j] = IF j = labels THEN to ELSE metrics[g].counter[j]
      /\ metrics'[g].histogram = metrics[g].histogram /\ metrics'[g].bounds = metrics[g].bounds
      /\ \A i \in Generations \ {g} : metrics'[i] = metrics[i]
  <2> HIDE DEF g, to
  <2> QED BY <1>2, <1>3, Counting
<1>5. counted' \in [Labelled -> Int]
  BY <1>1, <1>2
<1>6. MetricsTypeOK' /\ FreshHold' /\ UnmadeNew'
  BY <1>1, <1>2, <1>4, <1>5, UseKeeps
<1>7. CountersHold'
  <2>1. \A j \in Labelled : metrics[generation].counter[j] = counted[j]
    BY DEF MetricsInv, CountersHold
  <2>2. ASSUME NEW j \in Labelled PROVE metrics'[generation].counter[j] = counted'[j]
    BY <1>1, <1>2, <1>4, <2>1
  <2> QED BY <1>1, <2>2 DEF CountersHold
<1>8. BucketsAgree'
  BY <1>1, <1>2, <1>4, StoredKept
<1> QED BY <1>6, <1>7, <1>8 DEF MetricsInv

LEMMA GaugeKeeps ==
    ASSUME MetricsInv, NEW h \in Holders, NEW labels \in Labelled, NEW to \in Int,
           Uses(h), metrics' = WithLevel(metrics, held[h], labels, to),
           UNCHANGED <<held, generation, fresh, counted, observed>>
    PROVE  MetricsInv'
<1> DEFINE g == held[h]
<1>1. /\ g \in Generations /\ generation \in Generations /\ metrics \in [Generations -> Metric]
      /\ counted \in [Labelled -> Int] /\ observed \in [Labelled \X Values -> Nat]
  BY Held
<1>2. /\ metrics' \in [Generations -> Metric]
      /\ metrics'[g].counter = metrics[g].counter /\ metrics'[g].histogram = metrics[g].histogram
      /\ metrics'[g].bounds = metrics[g].bounds
      /\ \A i \in Generations \ {g} : metrics'[i] = metrics[i]
  <2>1. metrics' = WithLevel(metrics, g, labels, to)
    OBVIOUS
  <2> HIDE DEF g
  <2> QED BY <1>1, <2>1, Setting
<1>3. MetricsTypeOK' /\ FreshHold' /\ UnmadeNew'
  BY <1>1, <1>2, UseKeeps
<1>4. CountersHold'
  BY <1>1, <1>2 DEF MetricsInv, CountersHold
<1>5. BucketsAgree'
  BY <1>1, <1>2, StoredKept
<1> QED BY <1>3, <1>4, <1>5 DEF MetricsInv

LEMMA MoveGaugeKeeps ==
    ASSUME MetricsInv, NEW h \in Holders, NEW labels \in Labelled, NEW by \in {-1, 1},
           MoveGauge(h, labels, by)
    PROVE  MetricsInv'
<1> DEFINE to == metrics[held[h]].gauge[labels] + by
<1>1. Uses(h) /\ UNCHANGED <<held, generation, fresh, counted, observed>>
  BY DEF MoveGauge
<1>2. metrics[held[h]].gauge[labels] \in Int
  BY <1>1, Held DEF Metric
<1>3. to \in Int
  BY <1>2
<1>4. metrics' = WithLevel(metrics, held[h], labels, to)
  BY DEF MoveGauge, WithLevel
<1> HIDE DEF to
<1> QED BY <1>1, <1>3, <1>4, GaugeKeeps

LEMMA SetGaugeKeeps ==
    ASSUME MetricsInv, NEW h \in Holders, NEW labels \in Labelled, NEW to \in Levels,
           SetGauge(h, labels, to)
    PROVE  MetricsInv'
<1>1. to \in Int
  BY ResetsAssumption
<1>2. Uses(h) /\ UNCHANGED <<held, generation, fresh, counted, observed>>
  BY DEF SetGauge
<1>3. metrics' = WithLevel(metrics, held[h], labels, to)
  BY DEF SetGauge, WithLevel
<1> QED BY <1>1, <1>2, <1>3, GaugeKeeps

LEMMA ObserveKeeps ==
    ASSUME MetricsInv, NEW h \in Holders, NEW labels \in Labelled, NEW v \in Values,
           Observe(h, labels, v)
    PROVE  MetricsInv'
<1> DEFINE g == held[h]
           o == <<labels, v>>
<1>1. /\ Uses(h) /\ UNCHANGED <<held, generation, fresh, counted>>
      /\ metrics' = WithObserved(metrics, g, labels, v)
      /\ observed' = IF h \in fresh THEN [observed EXCEPT ![o] = @ + 1] ELSE observed
  BY DEF Observe, WithObserved
<1>2. /\ g \in Generations /\ generation \in Generations /\ metrics \in [Generations -> Metric]
      /\ counted \in [Labelled -> Int] /\ observed \in [Labelled \X Values -> Nat]
      /\ h \in fresh <=> g = generation
  BY <1>1, Held
<1>3. /\ metrics' \in [Generations -> Metric]
      /\ metrics'[g].counter = metrics[g].counter /\ metrics'[g].bounds = metrics[g].bounds
      /\ \A k \in Labelled : metrics'[g].histogram[k] =
           IF k \in {labels, NoLabels}
           THEN Bucketed(metrics[g].histogram[k], metrics[g].bounds, v)
           ELSE metrics[g].histogram[k]
      /\ \A i \in Generations \ {g} : metrics'[i] = metrics[i]
  <2> HIDE DEF g
  <2> QED BY <1>1, <1>2, Observing
<1>4. o \in Labelled \X Values /\ o[1] = labels /\ o[2] = v
  OBVIOUS
<1>5. observed' \in [Labelled \X Values -> Nat]
  <2> HIDE DEF o
  <2> QED BY <1>1, <1>2, <1>4
<1>6. MetricsTypeOK' /\ FreshHold' /\ UnmadeNew'
  BY <1>1, <1>2, <1>3, <1>5, UseKeeps
<1>7. CountersHold'
  BY <1>1, <1>2, <1>3 DEF MetricsInv, CountersHold
<1>8. CASE h \notin fresh
  <2>1. BucketsAgree'
    BY <1>1, <1>2, <1>3, <1>8, StoredKept
  <2> QED BY <1>6, <1>7, <2>1 DEF MetricsInv
<1>9. CASE h \in fresh
  <2>1. ASSUME NEW k \in Labelled, NEW vs
        PROVE  Observations(k, vs)' =
                 Observations(k, vs) + (IF k \in {labels, NoLabels} /\ v \in vs THEN 1 ELSE 0)
    <3>1. observed' = OneMore(observed, o)
      BY <1>1, <1>9 DEF OneMore
    <3>2. SumFunctionOnSet(observed', Of(k, vs)) =
            SumFunctionOnSet(observed, Of(k, vs)) + (IF o \in Of(k, vs) THEN 1 ELSE 0)
      <4> HIDE DEF o
      <4>1. /\ observed \in [Labelled \X Values -> Nat] /\ o \in Labelled \X Values
            /\ Of(k, vs) \in SUBSET (Labelled \X Values) /\ IsFiniteSet(Of(k, vs))
        BY <1>2, <1>4, OfFinite
      <4> QED BY <3>1, <4>1, SumBumped
    <3>3. o \in Of(k, vs) <=> k \in {labels, NoLabels} /\ v \in vs
      BY <1>4 DEF Of
    <3> QED BY <3>2, <3>3, OfFinite
  <2>2. ASSUME NEW k \in Labelled
        PROVE  /\ metrics'[g].histogram[k].count = Observations(k, Values)'
               /\ \A b \in metrics'[g].bounds : metrics'[g].histogram[k].buckets[b] =
                    Observations(k, {w \in Values : w <= b})'
    <3> DEFINE d  == metrics[g].histogram[k]
               bs == metrics[g].bounds
    <3>1. d \in Data /\ bs \subseteq Buckets
      BY <1>2 DEF Metric
    <3>2. d.count = Observations(k, Values)
          /\ \A b \in bs : d.buckets[b] = Observations(k, {w \in Values : w <= b})
      BY <1>2, <1>9, StoredAgrees DEF MetricsInv, Stored
    <3>3. \A b \in bs : v \in {w \in Values : w <= b} <=> v <= b
      OBVIOUS
    <3>4. \A b \in bs : Observations(k, {w \in Values : w <= b})' =
            d.buckets[b] + (IF k \in {labels, NoLabels} /\ v <= b THEN 1 ELSE 0)
      BY <2>1, <3>2, <3>3
    <3>5. Observations(k, Values)' = d.count + (IF k \in {labels, NoLabels} THEN 1 ELSE 0)
      BY <2>1, <3>2
    <3>6. metrics'[g].bounds = bs
      BY <1>3
    <3>7. metrics'[g].histogram[k] =
            IF k \in {labels, NoLabels} THEN Bucketed(d, bs, v) ELSE d
      BY <1>3
    <3>8. /\ Bucketed(d, bs, v).count = d.count + 1
          /\ \A b \in bs : Bucketed(d, bs, v).buckets[b] = d.buckets[b] + (IF v <= b THEN 1 ELSE 0)
      <4> HIDE DEF d, bs
      <4> QED BY <3>1 DEF Bucketed
    <3>9. d.count \in Nat /\ \A b \in bs : d.buckets[b] \in Nat
      <4> HIDE DEF d, bs
      <4> QED BY <3>1 DEF Data
    <3> HIDE DEF d, bs
    <3>10. CASE k \in {labels, NoLabels}
      BY <3>4, <3>5, <3>6, <3>7, <3>8, <3>10
    <3>11. CASE k \notin {labels, NoLabels}
      <4>1. Observations(k, Values)' = d.count
        BY <3>5, <3>9, <3>11
      <4>2. \A b \in bs : Observations(k, {w \in Values : w <= b})' = d.buckets[b]
        BY <3>4, <3>9, <3>11
      <4> QED BY <3>6, <3>7, <3>11, <4>1, <4>2
    <3> QED BY <3>10, <3>11
  <2>3. BucketsAgree'
    BY <1>1, <1>2, <1>9, <2>2 DEF BucketsAgree
  <2> QED BY <1>6, <1>7, <2>3 DEF MetricsInv
<1> QED BY <1>8, <1>9

-----------------------------------------------------------------------------
LEMMA MetricsNextInv == MetricsInv /\ [MetricsNext]_metricVars => MetricsInv'
<1> SUFFICES ASSUME MetricsInv, [MetricsNext]_metricVars PROVE MetricsInv'
  OBVIOUS
<1>1. ASSUME ResetRegistry PROVE MetricsInv'
  BY <1>1, ResetKeeps
<1>2. ASSUME NEW h \in Holders, NEW asked \in {{}, Buckets}, Get(h, asked) PROVE MetricsInv'
  BY <1>2, GetKeeps
<1>3. ASSUME NEW h \in Holders, NEW labels \in Labelled, NEW by \in {-1, 1},
             Increase(h, labels, by)
      PROVE  MetricsInv'
  BY <1>3, IncreaseKeeps
<1>4. ASSUME NEW h \in Holders, NEW labels \in Labelled, NEW by \in {-1, 1},
             MoveGauge(h, labels, by)
      PROVE  MetricsInv'
  BY <1>4, MoveGaugeKeeps
<1>5. ASSUME NEW h \in Holders, NEW labels \in Labelled, NEW to \in Levels, SetGauge(h, labels, to)
      PROVE  MetricsInv'
  BY <1>5, SetGaugeKeeps
<1>6. ASSUME NEW h \in Holders, NEW labels \in Labelled, NEW v \in Values, Observe(h, labels, v)
      PROVE  MetricsInv'
  BY <1>6, ObserveKeeps
<1>7. ASSUME UNCHANGED metricVars PROVE MetricsInv'
  <2> USE <1>7 DEF metricVars
  <2>1. MetricsTypeOK' /\ FreshHold'
    BY DEF MetricsInv, MetricsTypeOK, FreshHold
  <2>2. UnmadeNew' /\ CountersHold'
    BY DEF MetricsInv, UnmadeNew, CountersHold
  <2>3. BucketsAgree'
    BY StoredKept
  <2> QED BY <2>1, <2>2, <2>3 DEF MetricsInv
<1> QED BY <1>1, <1>2, <1>3, <1>4, <1>5, <1>6, <1>7 DEF MetricsNext

\* Every step keeps the registered metrics in agreement with what was counted since the
\* reset.
THEOREM MetricsInvariance == MetricsSpec => []MetricsInv
BY MetricsInitInv, MetricsNextInv, PTL DEF MetricsSpec

\* The metrics keep their type.
THEOREM MetricsTypeCorrect == MetricsSpec => []MetricsTypeOK
BY MetricsInvariance, PTL DEF MetricsInv

\* Whatever is kept across resets and however it is used, the counters metrics.py shows are
\* what was passed to inc since the last one, and its histograms keep the number of
\* observations since, and in each bucket the number up to its bound.  It holds for any
\* holders, labels, values and buckets; what a bucket is shown as is not part of it.
THEOREM CountedIsKept == MetricsSpec => []MetricsAgree
<1>1. MetricsInv => MetricsAgree
  BY DEF MetricsInv, CountersHold, MetricsAgree, CountersAgree, CollectedCounter
<1> QED BY <1>1, MetricsInvariance, PTL

-----------------------------------------------------------------------------
(* The drift detector: sums of squares *)

Squares(x) == [i \in DOMAIN x |-> x[i] * x[i]]

\* Sums of numbers are numbers, of counts counts.
LEMMA SumTyped ==
    ASSUME NEW D, NEW S \in SUBSET D, IsFiniteSet(S), NEW x \in [D -> Int]
    PROVE  /\ SumFunctionOnSet(x, S) \in Int
           /\ (\A i \in S : x[i] >= 0) => SumFunctionOnSet(x, S) >= 0
<1> DEFINE Good(s) == /\ SumFunctionOnSet(x, s) \in Int
                      /\ (\A i \in S : x[i] >= 0) => SumFunctionOnSet(x, s) >= 0
           B == {s \in SUBSET S : ~Good(s)}
<1> SUFFICES ASSUME B # {} PROVE FALSE
  OBVIOUS
<1>1. \A s \in B : IsFiniteSet(s)
  BY FS_Subset
<1>2. PICK s \in B : \A t \in B : ~(Cardinality(t) < Cardinality(s))
  <2> HIDE DEF B
  <2> QED BY <1>1, FewestFound
<1>3. IsFiniteSet(s) /\ s \in SUBSET S
  BY <1>1
<1>4. s # {}
  <2> SUFFICES ASSUME s = {} PROVE FALSE
    OBVIOUS
  <2>1. SumFunctionOnSet(x, s) = 0
    BY <1>3, SumStep
  <2>2. Good(s)
    BY <2>1
  <2> QED BY <2>2
<1>5. Chosen(s) \in S /\ s \ {Chosen(s)} \in SUBSET S /\ s \ {Chosen(s)} \notin B
  BY <1>2, <1>3, <1>4, ChosenOut
<1>6. SumFunctionOnSet(x, s) = x[Chosen(s)] + SumFunctionOnSet(x, s \ {Chosen(s)})
  BY <1>3, <1>4, SumStep
<1>7. Good(s \ {Chosen(s)}) /\ x[Chosen(s)] \in Int
  BY <1>5
<1>8. Good(s)
  BY <1>5, <1>6, <1>7
<1> QED BY <1>8

LEMMA SquaresTyped ==
    ASSUME NEW D, NEW S \in SUBSET D, IsFiniteSet(S), NEW x \in [D -> Int]
    PROVE  /\ Squares(x) \in [D -> Int] /\ \A i \in D : Squares(x)[i] = x[i] * x[i]
           /\ SumFunctionOnSet(Squares(x), S) \in Int
<1>1. Squares(x) \in [D -> Int] /\ \A i \in D : Squares(x)[i] = x[i] * x[i]
  BY DEF Squares
<1> QED BY <1>1, SumTyped

\* Any element may be the one that is taken out.
LEMMA SumOut ==
    ASSUME NEW D, NEW S \in SUBSET D, IsFiniteSet(S), NEW x \in [D -> Int], NEW e \in S
    PROVE  SumFunctionOnSet(x, S) = x[e] + SumFunctionOnSet(x, S \ {e})
<1> DEFINE Good(s) == \A i \in s : SumFunctionOnSet(x, s) = x[i] + SumFunctionOnSet(x, s \ {i})
           B == {s \in SUBSET S : ~Good(s)}
<1> SUFFICES ASSUME B # {} PROVE FALSE
  <2>1. Good(S)
    OBVIOUS
  <2> QED BY <2>1
<1>1. \A s \in SUBSET S : IsFiniteSet(s)
  BY FS_Subset
<1>2. PICK s \in B : \A t \in B : ~(Cardinality(t) < Cardinality(s))
  <2>1. \A s \in B : IsFiniteSet(s)
    BY <1>1
  <2> HIDE DEF B
  <2> QED BY <2>1, FewestFound
<1>3. PICK i \in s : SumFunctionOnSet(x, s) # x[i] + SumFunctionOnSet(x, s \ {i})
  BY <1>2
<1> DEFINE c == Chosen(s)
<1>4. /\ IsFiniteSet(s) /\ s \in SUBSET S /\ s # {} /\ c \in s /\ i \in s
      /\ SumFunctionOnSet(x, s) = x[c] + SumFunctionOnSet(x, s \ {c})
  BY <1>1, <1>2, <1>3, ChosenOut, SumStep
<1>5. c # i
  BY <1>3, <1>4
<1>6. ASSUME NEW j \in s PROVE Good(s \ {j})
  <2>1. Cardinality(s \ {j}) < Cardinality(s)
    <3>1. Cardinality(s \ {j}) = Cardinality(s) - 1 /\ Cardinality(s) \in Nat
      BY <1>4, FS_RemoveElement, FS_CardinalityType
    <3> QED BY <3>1
  <2>2. s \ {j} \notin B /\ s \ {j} \in SUBSET S
    BY <1>2, <1>4, <2>1
  <2> QED BY <2>2
<1>7. (s \ {c}) \ {i} = (s \ {i}) \ {c}
  OBVIOUS
<1> DEFINE rest == SumFunctionOnSet(x, (s \ {c}) \ {i})
<1>8. SumFunctionOnSet(x, s \ {c}) = x[i] + rest
  BY <1>4, <1>5, <1>6
<1>9. SumFunctionOnSet(x, s \ {i}) = x[c] + rest
  <2>1. c \in s \ {i} /\ Good(s \ {i})
    BY <1>4, <1>5, <1>6
  <2> HIDE DEF c
  <2> QED BY <1>7, <2>1
<1>10. x[c] \in Int /\ x[i] \in Int /\ rest \in Int
  BY <1>1, <1>4, SumTyped
<1> HIDE DEF c, rest
<1> QED BY <1>3, <1>4, <1>8, <1>9, <1>10

\* How far some numbers are from a/n, squared and added up, from their number, their sum
\* and the sum of their squares.
Off(n, a, x, S) ==
    n * n * SumFunctionOnSet(Squares(x), S) - 2 * n * a * SumFunctionOnSet(x, S)
      + Cardinality(S) * (a * a)

\* How far one of them is, weighted.
Far(n, a, v, w) == (n * v - a) * (n * v - a) * w

LEMMA OffStep ==
    ASSUME NEW D, NEW S \in SUBSET D, IsFiniteSet(S), NEW x \in [D -> Int],
           NEW n \in Int, NEW a \in Int, S # {}
    PROVE  /\ Off(n, a, x, S \ {Chosen(S)}) \in Int
           /\ Off(n, a, x, S) = Off(n, a, x, S \ {Chosen(S)})
                + (n * x[Chosen(S)] - a) * (n * x[Chosen(S)] - a)
<1> DEFINE c == Chosen(S)
           R == S \ {c}
<1>1. c \in S /\ R \in SUBSET D /\ IsFiniteSet(R) /\ x[c] \in Int
  BY ChosenOut
<1>2. Cardinality(S) = Cardinality(R) + 1 /\ Cardinality(R) \in Int
  <2>1. Cardinality(R) = Cardinality(S) - 1
    BY <1>1, FS_RemoveElement
  <2>2. Cardinality(R) \in Nat /\ Cardinality(S) \in Nat
    BY <1>1, FS_CardinalityType
  <2> HIDE DEF R
  <2> QED BY <2>1, <2>2
<1> DEFINE p == SumFunctionOnSet(x, R)
           q == SumFunctionOnSet(Squares(x), R)
           m == Cardinality(R)
           v == x[c]
<1>3. p \in Int /\ q \in Int
  BY <1>1, SumTyped, SquaresTyped
<1>4. SumFunctionOnSet(x, S) = v + p /\ SumFunctionOnSet(Squares(x), S) = v * v + q
  <2>1. Squares(x)[c] = v * v
    BY <1>1, SquaresTyped
  <2>2. SumFunctionOnSet(x, S) = x[c] + p /\ SumFunctionOnSet(Squares(x), S) = Squares(x)[c] + q
    BY SumStep
  <2> QED BY <2>1, <2>2
<1>5. Off(n, a, x, R) = n * n * q - 2 * n * a * p + m * (a * a)
  BY DEF Off
<1>6. Off(n, a, x, S) = n * n * (v * v + q) - 2 * n * a * (v + p) + (m + 1) * (a * a)
  BY <1>2, <1>4 DEF Off
<1>7. m \in Int /\ v \in Int
  BY <1>1, <1>2
<1> HIDE DEF p, q, m, v
<1>8. n * n * (v * v + q) - 2 * n * a * (v + p) + (m + 1) * (a * a)
        = (n * n * q - 2 * n * a * p + m * (a * a)) + (n * v - a) * (n * v - a)
  BY <1>3, <1>7
<1>9. n * n * q - 2 * n * a * p + m * (a * a) \in Int
  BY <1>3, <1>7
<1> QED BY <1>5, <1>6, <1>8, <1>9 DEF v

LEMMA OffIsSquares ==
    ASSUME NEW D, NEW S \in SUBSET D, IsFiniteSet(S), NEW x \in [D -> Int],
           NEW n \in Int, NEW a \in Int, NEW w \in Nat, NEW K \in Nat, NEW A \in SUBSET S,
           \A i \in A : Far(n, a, x[i], w) >= K
    PROVE  Off(n, a, x, S) \in Int /\ Off(n, a, x, S) * w >= Cardinality(A) * K
<1> DEFINE Good(s) == Off(n, a, x, s) \in Int /\ Off(n, a, x, s) * w >= Cardinality(A \cap s) * K
           B == {s \in SUBSET S : ~Good(s)}
<1> SUFFICES ASSUME B # {} PROVE FALSE
  <2>1. Good(S) /\ A \cap S = A
    OBVIOUS
  <2> QED BY <2>1
<1>1. \A s \in SUBSET S : IsFiniteSet(s)
  BY FS_Subset
<1>2. PICK s \in B : \A t \in B : ~(Cardinality(t) < Cardinality(s))
  <2>1. \A s \in B : IsFiniteSet(s)
    BY <1>1
  <2> HIDE DEF B
  <2> QED BY <2>1, FewestFound
<1>3. IsFiniteSet(s) /\ s \in SUBSET S /\ ~Good(s)
  BY <1>1
<1>4. CASE s = {}
  <2>1. Cardinality(s) = 0 /\ Cardinality(A \cap s) = 0
    BY <1>4, FS_EmptySet
  <2>2. SumFunctionOnSet(x, s) = 0 /\ SumFunctionOnSet(Squares(x), s) = 0
    BY <1>3, <1>4, SumStep
  <2>3. Off(n, a, x, s) = 0
    BY <2>1, <2>2 DEF Off
  <2> QED BY <1>3, <2>1, <2>3
<1>5. CASE s # {}
  <2> DEFINE c == Chosen(s)
             r == s \ {c}
             d == (n * x[c] - a) * (n * x[c] - a)
             h == Cardinality(A \cap r)
             o == Off(n, a, x, r)
  <2>1. c \in s /\ r \in SUBSET S /\ r \notin B /\ IsFiniteSet(r)
    BY <1>2, <1>3, <1>5, ChosenOut
  <2>2. o \in Int /\ o * w >= h * K
    BY <2>1
  <2>3. Off(n, a, x, s) = o + d
    <3>1. s \in SUBSET D
      BY <1>3
    <3> QED BY <1>3, <1>5, <3>1, OffStep
  <2>4. d \in Int /\ d >= 0
    <3>1. x[c] \in Int /\ n * x[c] - a \in Int
      BY <2>1
    <3> DEFINE y == n * x[c] - a
    <3>2. \A z \in Int : z * z \in Int /\ z * z >= 0
      OBVIOUS
    <3> HIDE DEF y
    <3> QED BY <3>1, <3>2 DEF y
  <2>5. h \in Nat /\ Cardinality(A \cap s) = IF c \in A THEN h + 1 ELSE h
    <3>1. IsFiniteSet(A \cap r) /\ A \cap r \in SUBSET S
      BY <1>1, <2>1
    <3>2. h \in Nat /\ c \notin A \cap r
      BY <3>1, FS_CardinalityType
    <3>3. A \cap s = IF c \in A THEN (A \cap r) \cup {c} ELSE A \cap r
      BY <2>1
    <3>4. Cardinality((A \cap r) \cup {c}) = h + 1
      BY <3>1, <3>2, FS_AddElement
    <3> QED BY <3>2, <3>3, <3>4
  <2>6. c \in A => d * w >= K
    BY DEF Far
  <2>7. d * w \in Int /\ d * w >= 0 /\ o * w \in Int /\ (o + d) * w = o * w + d * w
    <3> HIDE DEF d, o
    <3> QED BY <2>2, <2>4
  <2>8. h * K \in Int /\ (h + 1) * K = h * K + K
    <3> HIDE DEF h
    <3> QED BY <2>5
  <2> HIDE DEF c, d, o, h
  <2> QED BY <1>3, <2>2, <2>3, <2>4, <2>5, <2>6, <2>7, <2>8
<1> QED BY <1>4, <1>5

\* The square of a sum is at most the number times the sum of the squares.
LEMMA SquareOfSum ==
    ASSUME NEW D, NEW S \in SUBSET D, IsFiniteSet(S), NEW x \in [D -> Int]
    PROVE  SumFunctionOnSet(x, S) * SumFunctionOnSet(x, S)
             <= Cardinality(S) * SumFunctionOnSet(Squares(x), S)
<1> DEFINE p == SumFunctionOnSet(x, S)
           q == SumFunctionOnSet(Squares(x), S)
           n == Cardinality(S)
<1>1. p \in Int /\ q \in Int /\ n \in Nat
  BY SumTyped, SquaresTyped, FS_CardinalityType
<1>2. n * n * q - 2 * n * p * p + n * (p * p) >= 0
  <2>1. Off(n, p, x, S) \in Int /\ Off(n, p, x, S) * 1 >= Cardinality({}) * 0
    <3>1. n \in Int /\ 1 \in Nat /\ 0 \in Nat /\ {} \in SUBSET S
          /\ \A i \in {} : Far(n, p, x[i], 1) >= 0
      BY <1>1
    <3> HIDE DEF n, p
    <3> QED BY <1>1, <3>1, OffIsSquares
  <2>2. Off(n, p, x, S) >= 0
    BY <2>1, FS_EmptySet
  <2> QED BY <2>2 DEF Off
<1>3. CASE n = 0
  <2>1. S = {}
    BY <1>3, FS_EmptySet
  <2>2. p = 0
    BY <2>1, SumStep
  <2> HIDE DEF p, n, q
  <2> QED BY <1>1, <1>3, <2>2 DEF p, q, n
<1>4. CASE n # 0
  <2> HIDE DEF p, q, n
  <2>1. n * n * q - 2 * n * p * p + n * (p * p) = n * (n * q - p * p)
    BY <1>1
  <2>2. n * q - p * p >= 0
    <3>1. \A y \in Int : n * y >= 0 => y >= 0
      BY <1>1, <1>4
    <3> QED BY <1>1, <1>2, <2>1, <3>1
  <2> QED BY <1>1, <2>2 DEF p, q, n
<1> QED BY <1>3, <1>4

\* No number is further from the mean than (n - 1) / sqrt(n) deviations.
LEMMA WithinDeviations ==
    ASSUME NEW D, NEW S \in SUBSET D, IsFiniteSet(S), NEW x \in [D -> Int], NEW e \in S
    PROVE  LET n   == Cardinality(S)
               a   == SumFunctionOnSet(x, S)
               off == n * x[e] - a
           IN  off * off <= (n - 1) * (n * SumFunctionOnSet(Squares(x), S) - a * a)
<1> DEFINE R == S \ {e}
           m == Cardinality(R)
           p == SumFunctionOnSet(x, R)
           q == SumFunctionOnSet(Squares(x), R)
           v == x[e]
<1>1. R \in SUBSET D /\ IsFiniteSet(R)
  BY FS_Subset
<1>2. m \in Nat /\ Cardinality(S) = m + 1
  <2>1. m = Cardinality(S) - 1 /\ Cardinality(S) \in Nat /\ m \in Nat
    BY <1>1, FS_RemoveElement, FS_CardinalityType
  <2> HIDE DEF m
  <2> QED BY <2>1
<1>3. p \in Int /\ q \in Int /\ v \in Int
  BY <1>1, SumTyped, SquaresTyped
<1>4. SumFunctionOnSet(x, S) = v + p
  BY SumOut
<1>5. SumFunctionOnSet(Squares(x), S) = v * v + q
  <2>1. Squares(x) \in [D -> Int] /\ Squares(x)[e] = v * v
    BY SquaresTyped
  <2> DEFINE sq == Squares(x)
  <2>2. sq \in [D -> Int]
    BY <2>1
  <2> HIDE DEF sq, m, p, q, v
  <2>3. SumFunctionOnSet(sq, S) = sq[e] + SumFunctionOnSet(sq, R)
    BY <2>2, SumOut
  <2> QED BY <2>1, <2>3 DEF sq, q
<1>6. p * p <= m * q
  BY <1>1, SquareOfSum
<1> HIDE DEF m, p, q, v, R
<1> DEFINE off == (m + 1) * v - (v + p)
<1>7. off * off <= m * ((m + 1) * (v * v + q) - (v + p) * (v + p))
  <2>1. m * ((m + 1) * (v * v + q) - (v + p) * (v + p)) - off * off = (m + 1) * (m * q - p * p)
    BY <1>2, <1>3
  <2>2. m * q - p * p \in Nat /\ m + 1 \in Nat
    BY <1>2, <1>3, <1>6
  <2>3. (m + 1) * (m * q - p * p) >= 0
    <3>1. \A y, z \in Nat : y * z >= 0
      OBVIOUS
    <3> QED BY <2>2, <3>1
  <2>4. off * off \in Int /\ m * ((m + 1) * (v * v + q) - (v + p) * (v + p)) \in Int
    BY <1>2, <1>3
  <2> HIDE DEF off
  <2> QED BY <2>1, <2>3, <2>4
<1>8. (m + 1) - 1 = m
  BY <1>2
<1> QED BY <1>2, <1>4, <1>5, <1>7, <1>8 DEF v

-----------------------------------------------------------------------------
(* The figures of a window *)

Spread(stats) == stats.n * stats.squares - stats.sum * stats.sum

LEMMA WindowFigures ==
    ASSUME NEW w, NEW x, w \in Seq(Sample), x \in {TimesOf(w), ErrorsOf(w)}
    PROVE  /\ DOMAIN w = 1 .. Len(w) /\ x \in [1 .. Len(w) -> Int] /\ IsFiniteSet(1 .. Len(w))
           /\ \A i \in 1 .. Len(w) : x[i] >= 0
           /\ Cardinality(1 .. Len(w)) = Len(w) /\ Len(w) \in Nat
           /\ Stats(x) = [n       |-> Len(w),
                          sum     |-> SumFunctionOnSet(x, 1 .. Len(w)),
                          squares |-> SumFunctionOnSet(Squares(x), 1 .. Len(w))]
<1>1. DOMAIN w = 1 .. Len(w) /\ Len(w) \in Nat
  OBVIOUS
<1>2. \A i \in 1 .. Len(w) : w[i].time \in Nat /\ w[i].errors \in Nat
  <2>1. \A i \in 1 .. Len(w) : w[i] \in Sample
    BY <1>1
  <2> QED BY <2>1, SamplesAssumption DEF Sample
<1>3. /\ x \in [1 .. Len(w) -> Nat] /\ DOMAIN x = 1 .. Len(w) 
  BY <1>1, <1>2 DEF TimesOf, ErrorsOf
<1>4. Len(x) = Len(w)
  BY <1>1, <1>3, LenProperties
<1>5. IsFiniteSet(1 .. Len(w)) /\ Cardinality(1 .. Len(w)) = Len(w)
  BY <1>1, FS_Interval
<1>6. Squares(x) = [i \in DOMAIN x |-> x[i] * x[i]] /\ DOMAIN Squares(x) = 1 .. Len(w)
  BY <1>3 DEF Squares
<1>7. Stats(x) = [n       |-> Len(w),
                  sum     |-> SumFunctionOnSet(x, 1 .. Len(w)),
                  squares |-> SumFunctionOnSet(Squares(x), 1 .. Len(w))]
  BY <1>3, <1>4, <1>6 DEF Stats, SumFunction
<1> QED BY <1>1, <1>3, <1>5, <1>7

LEMMA FiguresTyped ==
    ASSUME NEW w \in Seq(Sample), NEW x \in {TimesOf(w), ErrorsOf(w)}, Len(w) <= WindowSize
    PROVE  Stats(x) \in Figures
<1> DEFINE D == 1 .. Len(w)
<1>1. /\ x \in [D -> Int] /\ IsFiniteSet(D) /\ \A i \in D : x[i] >= 0
      /\ Len(w) \in 0 .. WindowSize
      /\ Stats(x) = [n |-> Len(w), sum |-> SumFunctionOnSet(x, D),
                     squares |-> SumFunctionOnSet(Squares(x), D)]
  <2>1. x \in {TimesOf(w), ErrorsOf(w)}
    OBVIOUS
  <2>2. Len(w) \in Nat
    OBVIOUS
  <2>3. /\ x \in [D -> Int] /\ IsFiniteSet(D) /\ \A i \in D : x[i] >= 0
        /\ Stats(x) = [n |-> Len(w), sum |-> SumFunctionOnSet(x, D),
                       squares |-> SumFunctionOnSet(Squares(x), D)]
    BY WindowFigures
  <2> QED BY <2>2, <2>3, WindowAssumption
<1>2. SumFunctionOnSet(x, D) \in Nat
  <2>1. D \in SUBSET D
    OBVIOUS
  <2> HIDE DEF D
  <2>2. SumFunctionOnSet(x, D) \in Int /\ SumFunctionOnSet(x, D) >= 0
    BY <1>1, <2>1, SumTyped
  <2> QED BY <2>2
<1>3. SumFunctionOnSet(Squares(x), D) \in Nat
  <2>0. D \in SUBSET D
    OBVIOUS
  <2> HIDE DEF D
  <2>1. Squares(x) \in [D -> Int] /\ \A i \in D : Squares(x)[i] = x[i] * x[i]
    BY <1>1, <2>0, SquaresTyped
  <2>2. \A i \in D : Squares(x)[i] >= 0
    <3>1. \A z \in Int : z * z >= 0
      OBVIOUS
    <3>2. \A i \in D : x[i] \in Int
      BY <1>1
    <3> QED BY <2>1, <3>1, <3>2
  <2>3. SumFunctionOnSet(Squares(x), D) \in Int /\ SumFunctionOnSet(Squares(x), D) >= 0
    BY <1>1, <2>0, <2>1, <2>2, SumTyped
  <2> QED BY <2>3
<1> QED BY <1>1, <1>2, <1>3 DEF Figures

\* A time passes in the window it is part of only if that is large enough.
LEMMA PassesInLarge ==
    ASSUME NEW w \in Seq(Sample), NEW i \in DOMAIN w,
           ZPasses(w[i].time, Stats(TimesOf(w)))
    PROVE  (Len(w) - 1) * (Len(w) - 1) > DriftThreshold * DriftThreshold * Len(w)
<1> DEFINE n == Len(w)
           x == TimesOf(w)
           a == SumFunctionOnSet(x, 1 .. n)
           q == SumFunctionOnSet(Squares(x), 1 .. n)
           spread == n * q - a * a
           off == n * x[i] - a
           T == DriftThreshold * DriftThreshold
<1>1. /\ DOMAIN w = 1 .. n /\ x \in [1 .. n -> Int] /\ IsFiniteSet(1 .. n)
      /\ Cardinality(1 .. n) = n /\ n \in Nat
      /\ Stats(x) = [n |-> n, sum |-> a, squares |-> q]
  BY WindowFigures
<1>2. a \in Int /\ q \in Int /\ x[i] \in Int
  BY <1>1, SumTyped, SquaresTyped
<1>3. x[i] = w[i].time
  BY DEF TimesOf
<1>4. n > 1 /\ spread > 0 /\ off * off * (n - 1) > T * n * spread
  <2>1. Stats(x).n = n /\ Stats(x).sum = a /\ Stats(x).squares = q
    BY <1>1
  <2>2. ZPasses(x[i], Stats(x))
    BY <1>3
  <2> HIDE DEF a, q, x, n
  <2> QED BY <2>1, <2>2 DEF ZPasses
<1>5. off * off <= (n - 1) * spread
  <2>1. i \in 1 .. n /\ 1 .. n \in SUBSET (1 .. n)
    BY <1>1
  <2> QED BY <1>1, <2>1, WithinDeviations
<1>6. off \in Int /\ spread \in Int /\ T \in Nat
  BY <1>1, <1>2, WindowAssumption
<1> HIDE DEF off, spread, T, n
<1>7. (n - 1) * (n - 1) * spread > T * n * spread
  <2> DEFINE s == off * off
             m == n - 1
  <2>1. s \in Int /\ m \in Nat /\ m * spread \in Int
    BY <1>1, <1>4, <1>6
  <2>2. s * m <= (m * spread) * m
    <3> HIDE DEF s, m
    <3>1. \A y, z \in Int, k \in Nat : y <= z => y * k <= z * k
      OBVIOUS
    <3> QED BY <1>5, <2>1, <3>1 DEF s, m
  <2>3. (m * spread) * m = m * m * spread
    BY <1>6, <2>1
  <2>4. s * m \in Int /\ m * m * spread \in Int /\ T * n * spread \in Int
    BY <1>1, <1>6, <2>1
  <2> QED BY <1>4, <2>2, <2>3, <2>4
<1>8. (n - 1) * (n - 1) > T * n
  <2>1. \A y, z \in Int, k \in Nat : k > 0 /\ y * k > z * k => y > z
    OBVIOUS
  <2>2. (n - 1) * (n - 1) \in Int /\ T * n \in Int /\ spread \in Nat
    BY <1>1, <1>4, <1>6
  <2> QED BY <1>4, <1>7, <2>1, <2>2
<1> QED BY <1>8 DEF n, T

\* Few of the times of a window pass in it.
LEMMA FewPass ==
    ASSUME NEW w \in Seq(Sample), Len(w) >= 1,
           NEW A, A = {i \in DOMAIN w : ZPasses(w[i].time, Stats(TimesOf(w)))}
    PROVE  Cardinality(A) * DriftThreshold * DriftThreshold < Len(w)
<1> DEFINE n == Len(w)
           x == TimesOf(w)
           a == SumFunctionOnSet(x, 1 .. n)
           q == SumFunctionOnSet(Squares(x), 1 .. n)
           spread == n * q - a * a
           T == DriftThreshold * DriftThreshold
           X == n * spread
           N == Cardinality(A)
<1>1. /\ DOMAIN w = 1 .. n /\ x \in [1 .. n -> Int] /\ IsFiniteSet(1 .. n)
      /\ Cardinality(1 .. n) = n /\ n \in Nat
      /\ Stats(x) = [n |-> n, sum |-> a, squares |-> q]
  BY WindowFigures
<1>2. a \in Int /\ q \in Int
  BY <1>1, SumTyped, SquaresTyped
<1>3. A \in SUBSET (1 .. n) /\ IsFiniteSet(A) /\ N \in Nat
  BY <1>1, FS_Subset, FS_CardinalityType
<1>4. spread \in Int /\ T \in Nat /\ X \in Int
  BY <1>1, <1>2, WindowAssumption
<1>5. CASE A = {}
  <2>1. N = 0
    BY <1>5, FS_EmptySet
  <2> QED BY <2>1, WindowAssumption, <1>1
<1>6. CASE A # {}
  <2>1. \A i \in A : /\ n > 1 /\ spread > 0 /\ x[i] \in Int
                     /\ (n * x[i] - a) * (n * x[i] - a) * (n - 1) > T * n * spread
    <3> SUFFICES ASSUME NEW i \in A
                 PROVE  /\ n > 1 /\ spread > 0 /\ x[i] \in Int
                        /\ (n * x[i] - a) * (n * x[i] - a) * (n - 1) > T * n * spread
      OBVIOUS
    <3>1. i \in 1 .. n /\ ZPasses(w[i].time, Stats(x)) /\ x[i] = w[i].time /\ x[i] \in Int
      BY <1>1, <1>3 DEF TimesOf
    <3> HIDE DEF a, q, x, n
    <3> QED BY <1>1, <3>1 DEF ZPasses
  <2>2. n > 1 /\ spread > 0 /\ X > 0
    <3>1. n > 1 /\ spread > 0
      BY <1>6, <2>1
    <3> HIDE DEF spread, n
    <3> QED BY <1>1, <1>4, <3>1
  <2>3. T * X \in Nat /\ T * X = T * n * spread
    <3> HIDE DEF spread, T, n
    <3> QED BY <1>1, <1>4, <2>2
  <2>4. \A i \in A : (n * x[i] - a) * (n * x[i] - a) * (n - 1) >= T * X + 1
    <3>1. \A i \in A : (n * x[i] - a) * (n * x[i] - a) * (n - 1) \in Int
      BY <1>1, <1>2, <2>1
    <3> HIDE DEF a, q, x, n, T, X
    <3> QED BY <2>1, <2>3, <3>1
  <2>5. Off(n, a, x, 1 .. n) \in Int /\ Off(n, a, x, 1 .. n) * (n - 1) >= N * (T * X + 1)
    <3> DEFINE D == 1 .. n
               m == n - 1
               K == T * X + 1
    <3>1. n \in Int /\ m \in Nat /\ K \in Nat /\ D \in SUBSET D
      BY <1>1, <2>2, <2>3
    <3>2. /\ x \in [D -> Int] /\ IsFiniteSet(D) /\ A \in SUBSET D /\ a \in Int
          /\ \A i \in A : Far(n, a, x[i], m) >= K
      BY <1>1, <1>2, <1>3, <2>4 DEF Far
    <3> HIDE DEF N, T, X, a, q, x, n, spread, D, m, K
    <3>3. Off(n, a, x, D) \in Int /\ Off(n, a, x, D) * m >= Cardinality(A) * K
      BY <3>1, <3>2, OffIsSquares
    <3> QED BY <3>3 DEF D, m, K, N
  <2>6. Off(n, a, x, 1 .. n) = X
    <3>1. Off(n, a, x, 1 .. n) = n * n * q - 2 * n * a * a + n * (a * a)
      BY <1>1 DEF Off
    <3> HIDE DEF a, q, x, n
    <3> QED BY <1>1, <1>2, <3>1
  <2>7. X * (n - 1) >= N * (T * X + 1)
    BY <2>5, <2>6
  <2> HIDE DEF X, N, T, n
  <2>8. N * T < n
    <3> SUFFICES ASSUME N * T >= n PROVE FALSE
      BY <1>1, <1>3, <1>4
    <3>1. (N * T) * X >= n * X
      <4>1. \A y, z \in Int, k \in Int : k > 0 /\ y >= z => y * k >= z * k
        OBVIOUS
      <4> QED BY <1>1, <1>3, <1>4, <2>2, <4>1
    <3>2. N * (T * X + 1) = (N * T) * X + N /\ X * (n - 1) = n * X - X
      BY <1>1, <1>3, <1>4
    <3>3. (N * T) * X \in Int /\ n * X \in Int
      BY <1>1, <1>3, <1>4
    <3> QED BY <1>3, <1>4, <2>2, <2>7, <3>1, <3>2, <3>3
  <2> QED BY <1>3, <2>8, WindowAssumption DEF N, T, n
<1> QED BY <1>5, <1>6

-----------------------------------------------------------------------------
LEMMA NoBaselineTyped == NoBaseline \in [time : Figures, errors : Figures]
<1>1. <<>> \in Seq(Sample) /\ Len(<<>>) = 0 /\ 0 <= WindowSize
  BY WindowAssumption
<1>2. TimesOf(<<>>) = <<>>
  BY DEF TimesOf
<1>3. Stats(<<>>) \in Figures
  BY <1>1, <1>2, FiguresTyped
<1> QED BY <1>3 DEF NoBaseline

LEMMA DriftInitInv == DriftInit => DriftInv
<1> SUFFICES ASSUME DriftInit PROVE DriftInv
  OBVIOUS
<1>1. DriftTypeOK
  <2>1. \A t \in WatchedTools : history[t] = <<>> /\ Len(history[t]) = 0
    BY DEF DriftInit
  <2>2. history \in [WatchedTools -> Seq(Sample)]
    BY DEF DriftInit
  <2>3. baselines \in [WatchedTools -> [time : Figures, errors : Figures]]
    BY NoBaselineTyped DEF DriftInit
  <2> QED BY <2>1, <2>2, <2>3, WindowAssumption DEF DriftInit, DriftTypeOK
<1>2. SamplesCounted
  BY DEF DriftInit, SamplesCounted
<1>3. BaselinesFounded
  BY DEF DriftInit, BaselinesFounded
<1>4. DriftNeedsSamples
  BY DEF DriftInit, DriftNeedsSamples
<1> QED BY <1>1, <1>2, <1>3, <1>4 DEF DriftInv

\* A sample goes to the end of the window, and the oldest makes room for it.
LEMMA PushedTyped ==
    ASSUME NEW w \in Seq(Sample), NEW s \in Sample, Len(w) <= WindowSize
    PROVE  /\ Pushed(w, s) \in Seq(Sample)
           /\ Len(Pushed(w, s)) = IF Len(w) < WindowSize THEN Len(w) + 1 ELSE Len(w)
           /\ Len(Pushed(w, s)) >= 1 /\ Len(Pushed(w, s)) <= WindowSize
           /\ Pushed(w, s)[Len(Pushed(w, s))] = s
<1>1. WindowSize \in Nat /\ WindowSize >= 1 /\ Len(w) \in Nat
  BY WindowAssumption
<1>2. CASE Len(w) < WindowSize
  <2>1. Pushed(w, s) = Append(w, s)
    BY <1>2 DEF Pushed
  <2>2. /\ Append(w, s) \in Seq(Sample) /\ Len(Append(w, s)) = Len(w) + 1
        /\ Append(w, s)[Len(w) + 1] = s
    BY AppendProperties
  <2> QED BY <1>1, <1>2, <2>1, <2>2
<1>3. CASE Len(w) = WindowSize
  <2>1. Pushed(w, s) = Append(Tail(w), s)
    BY <1>1, <1>3 DEF Pushed
  <2>2. Tail(w) \in Seq(Sample) /\ Len(Tail(w)) = Len(w) - 1
    <3>1. w # <<>>
      BY <1>1, <1>3
    <3> QED BY <3>1, HeadTailProperties
  <2>3. /\ Append(Tail(w), s) \in Seq(Sample) /\ Len(Append(Tail(w), s)) = Len(Tail(w)) + 1
        /\ Append(Tail(w), s)[Len(Tail(w)) + 1] = s
    BY <2>2, AppendProperties
  <2> QED BY <1>1, <1>3, <2>1, <2>2, <2>3
<1> QED BY <1>1, <1>2, <1>3

LEMMA CheckDriftKeeps ==
    ASSUME DriftInv, NEW t \in WatchedTools, NEW s \in Sample, CheckDrift(t, s)
    PROVE  DriftInv'
<1> DEFINE w == Pushed(history[t], s)
           n == Len(w)
<1>1. /\ history' = [history EXCEPT ![t] = w]
      /\ samples' = [samples EXCEPT ![t] = IF samples[t] < WindowSize THEN samples[t] + 1 ELSE samples[t]]
      /\ drift' = [tool |-> t,
           byTime   |-> baselines[t] # NoBaseline /\ Stats(TimesOf(w)).n >= MinSamples
                          /\ ZPasses(s.time, Stats(TimesOf(w))),
           byErrors |-> baselines[t] # NoBaseline /\ ErrorsPass(s.errors, baselines[t].errors)]
      /\ baselines' = baselines
  BY DEF CheckDrift
<1>2. /\ history \in [WatchedTools -> Seq(Sample)] /\ samples \in [WatchedTools -> 0 .. WindowSize]
      /\ history[t] \in Seq(Sample) /\ Len(history[t]) <= WindowSize
      /\ samples[t] = Len(history[t])
  BY DEF DriftInv, DriftTypeOK, SamplesCounted
<1>3. /\ w \in Seq(Sample) /\ n >= 1 /\ n <= WindowSize /\ w[n] = s /\ n \in Nat
      /\ n = (IF Len(history[t]) < WindowSize THEN Len(history[t]) + 1 ELSE Len(history[t]))
      /\ Len(history[t]) \in Nat
  <2>1. /\ w \in Seq(Sample) /\ n >= 1 /\ n <= WindowSize /\ w[n] = s
        /\ n = IF Len(history[t]) < WindowSize THEN Len(history[t]) + 1 ELSE Len(history[t])
    BY <1>2, PushedTyped
  <2>2. n \in Nat /\ Len(history[t]) \in Nat
    BY <1>2, <2>1
  <2> QED BY <2>1, <2>2
<1>4. n \in DOMAIN w /\ Stats(TimesOf(w)).n = n
  <2>1. DOMAIN w = 1 .. n /\ Stats(TimesOf(w)).n = n
    <3>1. TimesOf(w) \in {TimesOf(w), ErrorsOf(w)}
      OBVIOUS
    <3> HIDE DEF w
    <3>2. DOMAIN w = 1 .. Len(w)
      BY <1>3
    <3>3. Stats(TimesOf(w)) = [n |-> Len(w), sum |-> SumFunctionOnSet(TimesOf(w), 1 .. Len(w)),
                               squares |-> SumFunctionOnSet(Squares(TimesOf(w)), 1 .. Len(w))]
      BY <1>3, <3>1, WindowFigures
    <3> QED BY <3>2, <3>3
  <2> QED BY <1>3, <2>1
<1>5. /\ history' \in [WatchedTools -> Seq(Sample)] /\ history'[t] = w
      /\ samples' \in [WatchedTools -> 0 .. WindowSize] /\ samples'[t] = n
      /\ \A u \in WatchedTools \ {t} : history'[u] = history[u] /\ samples'[u] = samples[u]
  <2> HIDE DEF w, n
  <2> QED BY <1>1, <1>2, <1>3 DEF w
<1>6. DriftTypeOK'
  <2>1. \A u \in WatchedTools : Len(history'[u]) <= WindowSize
    BY <1>3, <1>5 DEF DriftInv, DriftTypeOK
  <2>2. drift'.byTime \in BOOLEAN /\ drift'.byErrors \in BOOLEAN
    BY <1>1
  <2> QED BY <1>1, <1>5, <2>1, <2>2 DEF DriftInv, DriftTypeOK
<1>7. SamplesCounted'
  BY <1>5 DEF DriftInv, SamplesCounted
<1>8. BaselinesFounded'
  <2> SUFFICES ASSUME NEW u \in WatchedTools, baselines[u] # NoBaseline
               PROVE  history'[u] # <<>> /\ Len(history'[u]) >= MinSamples
    BY <1>1 DEF BaselinesFounded
  <2>1. history[u] # <<>> /\ Len(history[u]) >= MinSamples
    BY DEF DriftInv, BaselinesFounded
  <2>2. CASE u # t
    BY <1>5, <2>1, <2>2
  <2>3. CASE u = t
    <3>1. history'[u] = w /\ Len(w) >= 1 /\ Len(w) >= Len(history[u])
      BY <1>3, <1>5, <2>3
    <3>2. history'[u] # <<>>
      BY <3>1
    <3> QED BY <1>3, <2>1, <2>3, <3>1, <3>2, WindowAssumption
  <2> QED BY <2>2, <2>3
<1>9. DriftNeedsSamples'
  <2>1. drift'.tool = t
    BY <1>1
  <2>2. ASSUME drift'.byTime
        PROVE  (samples'[t] - 1) * (samples'[t] - 1) > DriftThreshold * DriftThreshold * samples'[t]
    <3>1. ZPasses(w[n].time, Stats(TimesOf(w)))
      BY <1>1, <1>3, <2>2
    <3> HIDE DEF w
    <3> QED BY <1>3, <1>4, <1>5, <3>1, PassesInLarge
  <2>3. ASSUME drift'.byTime \/ drift'.byErrors PROVE samples'[t] >= MinSamples
    <3>1. baselines[t] # NoBaseline
      BY <1>1, <2>3
    <3>2. Len(history[t]) >= MinSamples
      BY <3>1 DEF DriftInv, BaselinesFounded
    <3> QED BY <1>3, <1>5, <3>2, WindowAssumption
  <2> HIDE DEF w, n
  <2> QED BY <2>1, <2>2, <2>3 DEF DriftNeedsSamples
<1> QED BY <1>6, <1>7, <1>8, <1>9 DEF DriftInv

LEMMA UpdateBaselineKeeps ==
    ASSUME DriftInv, NEW t \in WatchedTools, UpdateBaseline(t)
    PROVE  DriftInv'
<1> DEFINE b == [time |-> Stats(TimesOf(history[t])), errors |-> Stats(ErrorsOf(history[t]))]
<1>1. /\ history[t] # <<>> /\ Len(history[t]) >= MinSamples
      /\ baselines' = [baselines EXCEPT ![t] = b] /\ UNCHANGED <<history, drift, samples>>
  BY DEF UpdateBaseline
<1>2. b \in [time : Figures, errors : Figures]
  <2>1. history[t] \in Seq(Sample) /\ Len(history[t]) <= WindowSize
    BY DEF DriftInv, DriftTypeOK
  <2>2. Stats(TimesOf(history[t])) \in Figures /\ Stats(ErrorsOf(history[t])) \in Figures
    BY <2>1, FiguresTyped
  <2> QED BY <2>2
<1> HIDE DEF b
<1>3. DriftTypeOK'
  BY <1>1, <1>2 DEF DriftInv, DriftTypeOK
<1>4. SamplesCounted'
  BY <1>1 DEF DriftInv, SamplesCounted
<1>5. BaselinesFounded'
  BY <1>1 DEF DriftInv, DriftTypeOK, BaselinesFounded
<1>6. DriftNeedsSamples'
  BY <1>1 DEF DriftInv, DriftNeedsSamples
<1> QED BY <1>3, <1>4, <1>5, <1>6 DEF DriftInv

\* Whatever the samples, every sample counts and a baseline has enough of them.
THEOREM DriftInvariance == DriftSpec => []DriftInv
<1>1. ASSUME DriftInv, [DriftNext]_driftVars PROVE DriftInv'
  <2>1. ASSUME NEW t \in WatchedTools, NEW s \in Sample, CheckDrift(t, s) PROVE DriftInv'
    BY <1>1, <2>1, CheckDriftKeeps
  <2>2. ASSUME NEW t \in WatchedTools, UpdateBaseline(t) PROVE DriftInv'
    BY <1>1, <2>2, UpdateBaselineKeeps
  <2>3. ASSUME UNCHANGED driftVars PROVE DriftInv'
    BY <1>1, <2>3 DEF driftVars, DriftInv, DriftTypeOK, SamplesCounted, BaselinesFounded,
                      DriftNeedsSamples
  <2> QED BY <1>1, <2>1, <2>2, <2>3 DEF DriftNext
<1> QED BY DriftInitInv, <1>1, PTL DEF DriftSpec

\* The windows, the baselines and what was last reported keep their types.
THEOREM DriftTypeCorrect == DriftSpec => []DriftTypeOK
BY DriftInvariance, PTL DEF DriftInv

\* With any samples, window, threshold and least number, drift_detector.py's check_drift
\* calls no time drift in a window too small to tell, and detect_anomalies finds few of
\* the times it knows.
THEOREM DriftHolds == DriftSpec => []DriftAgrees
<1>1. DriftInv => DriftAgrees
  <2> SUFFICES ASSUME DriftInv, NEW t \in WatchedTools, baselines[t] # NoBaseline,
                      Report(t).stats = baselines[t].time
               PROVE  Cardinality(Anomalies(t)) * DriftThreshold * DriftThreshold < Len(history[t])
    BY DEF DriftAgrees, AnomaliesAreRare, DriftInv
  <2> DEFINE w == history[t]
             A == {i \in DOMAIN w : ZPasses(w[i].time, Stats(TimesOf(w)))}
  <2>1. w \in Seq(Sample) /\ w # <<>> /\ Len(w) >= MinSamples
    BY DEF DriftInv, DriftTypeOK, BaselinesFounded
  <2>2. baselines[t].time = Stats(TimesOf(w))
    BY DEF Report
  <2>3. Anomalies(t) = A
    BY <2>1, <2>2, WindowAssumption DEF Anomalies
  <2>4. Len(w) >= 1
    BY <2>1
  <2>5. Cardinality(A) * DriftThreshold * DriftThreshold < Len(w)
    <3> HIDE DEF w
    <3> QED BY <2>1, <2>4, FewPass
  <2> QED BY <2>3, <2>5
<1> QED BY <1>1, DriftInvariance, PTL
=============================================================================
