------------------------- MODULE OrchestrationProofs -------------------------
(***************************************************************************)
(* Theorems about DagOrchestrator, for any set of steps and any workflow   *)
(* over them, finite or not, about CleWorkflow, which is one of them, for  *)
(* any patterns, scores and thresholds, and about ChainPlanner, for any    *)
(* dependencies and any tools on offer.                                    *)
(***************************************************************************)
EXTENDS CleWorkflow, ChainPlanner, SequenceTheorems, FiniteSetTheorems, WellFoundedInduction, TLAPS

-----------------------------------------------------------------------------
(* Least elements *)

\* Of things with a measure in Nat one measures least: induction over data in the form
\* that needs no operator for a parameter.
LEMMA LeastFound ==
    ASSUME NEW B, B # {}, NEW m, \A x \in B : m[x] \in Nat
    PROVE  \E x \in B : \A y \in B : ~(m[y] < m[x])
<1> DEFINE less == {x \in Nat \X Nat : x[1] < x[2]}
           T == {m[x] : x \in B}
<1>1. IsWellFoundedOn(less, Nat)
  <2>1. less = OpToRel(<, Nat)
    BY DEF OpToRel
  <2> QED BY <2>1, NatLessThanWellFounded
<1>2. T \subseteq Nat /\ T # {}
  OBVIOUS
<1>3. PICK n \in T : \A k \in T : ~(<<k, n>> \in less)
  <2> HIDE DEF less, T
  <2> QED BY <1>1, <1>2, WFMin
<1>4. PICK x \in B : n = m[x]
  OBVIOUS
<1>5. \A y \in B : ~(m[y] < m[x])
  BY <1>2, <1>3, <1>4
<1> QED BY <1>5

-----------------------------------------------------------------------------
(* The stack *)

\* What is below the top of a sequence.
LEMMA BelowTop ==
    ASSUME NEW S, NEW s \in Seq(S), s # <<>>
    PROVE  LET t == SubSeq(s, 1, Len(s) - 1) IN
           /\ t \in Seq(S) /\ Len(t) = Len(s) - 1
           /\ \A i \in 1 .. Len(t) : t[i] = s[i]
           /\ Len(s) \in 1 .. Len(s)
           /\ t = <<>> \/ Len(t) \in 1 .. Len(t)
<1>1. Len(s) \in Nat \ {0}
  OBVIOUS
<1> DEFINE k == Len(s) - 1
           t == SubSeq(s, 1, k)
<1>2. k \in Nat /\ \A i \in 1 .. k : s[i] \in S
  BY <1>1
<1> HIDE DEF k
<1>3. /\ t \in Seq(S)
      /\ Len(t) = IF 1 <= k THEN k - 1 + 1 ELSE 0
      /\ \A i \in 1 .. k - 1 + 1 : t[i] = s[1 + i - 1]
  BY <1>2, SubSeqProperties
<1>4. Len(t) = k
  BY <1>2, <1>3
<1>5. ASSUME NEW i \in 1 .. Len(t) PROVE t[i] = s[i]
  <2>1. i \in 1 .. k - 1 + 1 /\ 1 + i - 1 = i
    BY <1>2, <1>4
  <2> QED BY <1>3, <2>1
<1> HIDE DEF t
<1>6. t = <<>> \/ Len(t) \in 1 .. Len(t)
  BY <1>3, <1>4
<1> QED BY <1>1, <1>3, <1>4, <1>5, <1>6 DEF k, t

\* The step on top of the stack.
LEMMA TopIsStep ==
    ASSUME TypeOK, PathIsStack, stack # <<>>
    PROVE  /\ Len(stack) \in 1 .. Len(stack)
           /\ Top \in Steps /\ Top \in path
           /\ rank[Top] = 0 /\ Top \in visited
<1>1. Len(stack) \in 1 .. Len(stack)
  BY DEF TypeOK
<1>2. Top \in path
  BY <1>1 DEF Top, PathIsStack
<1> QED BY <1>1, <1>2 DEF TypeOK, PathIsStack, Finished

-----------------------------------------------------------------------------
(* Types *)

\* No step leaves the types of the state.
LEMMA TypeStep ==
    ASSUME TypeOK, PathIsStack, [Next]_vars
    PROVE  TypeOK'
<1> USE DEF TypeOK, searching, executing
<1>1. ASSUME NEW name \in Steps, Enter(name) PROVE TypeOK'
  BY <1>1, AppendProperties DEF Enter
<1>2. ASSUME NEW name \in Names, Skip(name), stack # <<>> PROVE TypeOK'
  BY <1>2 DEF Skip
<1>3. ASSUME NEW why \in Phases, Reject(why) PROVE TypeOK'
  BY <1>3 DEF Reject
<1>4. ASSUME NEW name \in Names, VisitDependency(name) PROVE TypeOK'
  BY <1>1, <1>2, <1>3, <1>4 DEF VisitDependency, Visit, Phases
<1>5. ASSUME NEW name \in Steps, VisitRoot(name) PROVE TypeOK'
  BY <1>1, <1>5 DEF VisitRoot
<1>6. CASE Leave
  <2> DEFINE calls == SubSeq(stack, 1, Len(stack) - 1)
  <2>1. stack # <<>> /\ stack' = calls
    BY <1>6 DEF Leave, Return
  <2>2. calls \in Seq(Steps)
    BY <2>1, BelowTop
  <2>3. todo' \in [Steps -> SUBSET Names]
    BY <1>6 DEF Leave, Return
  <2>4. returned' \in Nat /\ path' \subseteq Steps
    BY <1>6 DEF Leave, Return
  <2>5. rank' \in [Steps -> Nat]
    <3>1. returned + 1 \in Nat /\ rank' = [rank EXCEPT ![Top] = returned + 1]
      BY <1>6 DEF Leave, Return
    <3> QED BY <3>1
  <2> QED BY <1>6, <2>1, <2>2, <2>3, <2>4, <2>5 DEF Leave, Return
<1>7. CASE Accept \/ Finish
  BY <1>7 DEF Accept, Finish, Phases
<1>8. CASE StartBatch \/ CollectBatch
  BY <1>8 DEF StartBatch, CollectBatch, Ready, Batch, Phases
<1>9. ASSUME NEW n \in Steps, StepEnds(n) PROVE TypeOK'
  BY <1>9 DEF StepEnds
<1>10. CASE UNCHANGED vars
  BY <1>10 DEF vars
<1> QED BY <1>4, <1>5, <1>6, <1>7, <1>8, <1>9, <1>10 DEF Next

-----------------------------------------------------------------------------
(* The search *)

\* Entering a step that is neither visited nor in path pushes it.
LEMMA EnterKeeps ==
    ASSUME TypeOK, PathIsStack, RankOrders, NEW name \in Steps \ visited, Enter(name)
    PROVE  PathIsStack' /\ RankOrders'
<1>1. /\ Len(stack') = Len(stack) + 1 /\ Len(stack) \in Nat
      /\ \A i \in 1 .. Len(stack) : stack'[i] = stack[i]
      /\ stack'[Len(stack) + 1] = name
  BY DEF Enter, TypeOK
<1>2. name \notin path /\ name \notin Finished
  BY DEF PathIsStack
<1>3. Finished' = Finished /\ path' = path \cup {name} /\ visited' = visited \cup {name}
  BY DEF Enter, Finished
<1>4. PathIsStack'
  <2>1. \A i \in 1 .. Len(stack') : i \in 1 .. Len(stack) \/ i = Len(stack) + 1
    BY <1>1
  <2>2. \A i \in 1 .. Len(stack') : stack'[i] \in path'
    BY <1>1, <1>3, <2>1 DEF PathIsStack
  <2>3. \A n \in path' : \E i \in 1 .. Len(stack') : stack'[i] = n
    <3>1. \A i \in 1 .. Len(stack) : i \in 1 .. Len(stack')
      BY <1>1
    <3>2. Len(stack) + 1 \in 1 .. Len(stack')
      BY <1>1
    <3> QED BY <1>1, <1>3, <3>1, <3>2 DEF PathIsStack
  <2>4. \A i, j \in 1 .. Len(stack') : stack'[i] = stack'[j] => i = j
    BY <1>1, <1>2, <2>1 DEF PathIsStack
  <2>5. path' = visited' \ Finished' /\ Finished' \subseteq visited'
    BY <1>2, <1>3 DEF PathIsStack
  <2> QED BY <2>2, <2>3, <2>4, <2>5 DEF PathIsStack
<1>5. RankOrders'
  BY <1>2, <1>3 DEF RankOrders, Enter, TypeOK
<1> QED BY <1>4, <1>5

\* Visiting a name that returned before leaves one name less to visit.
LEMMA SkipKeeps ==
    ASSUME TypeOK, PathIsStack, RankOrders, NEW name \in visited \ path, stack # <<>>, Skip(name)
    PROVE  PathIsStack' /\ RankOrders'
<1>1. name \in Finished
  BY DEF PathIsStack
<1>2. PathIsStack'
  BY DEF Skip, PathIsStack, Finished
<1>3. todo' = [todo EXCEPT ![Top] = todo[Top] \ {name}] /\ Top \in Steps
  BY TopIsStep DEF Skip
<1>4. \A n \in path : \A d \in deps[n] \ todo'[n] : d \in Finished
  <2>1. ASSUME NEW n \in path, NEW d \in deps[n] \ todo'[n] PROVE d \in todo[n] => d = name
    <3>1. n \in Steps
      BY DEF TypeOK
    <3>2. todo'[n] = IF n = Top THEN todo[n] \ {name} ELSE todo[n]
      BY <1>3, <3>1 DEF TypeOK
    <3> QED BY <3>2
  <2> QED BY <1>1, <2>1 DEF RankOrders
<1> QED BY <1>2, <1>4 DEF Skip, RankOrders, Finished

\* Returning from the step on top gives it the highest rank.
LEMMA LeaveKeeps ==
    ASSUME TypeOK, PathIsStack, RankOrders, Leave
    PROVE  PathIsStack' /\ RankOrders'
<1> DEFINE calls == SubSeq(stack, 1, Len(stack) - 1)
<1>1. /\ stack # <<>> /\ todo[Top] = {} /\ path' = path \ {Top} /\ stack' = calls
      /\ returned' = returned + 1 /\ visited' = visited /\ deps' = deps
      /\ rank' = [rank EXCEPT ![Top] = returned + 1]
  BY DEF Leave, Return
<1>2. /\ Top \in Steps /\ Top \in path /\ rank[Top] = 0
      /\ Len(stack) \in 1 .. Len(stack) /\ Len(stack) \in Nat
  BY <1>1, TopIsStep
<1>3. /\ stack' \in Seq(Steps) /\ Len(stack') = Len(stack) - 1
      /\ \A i \in 1 .. Len(stack') : stack'[i] = stack[i]
      /\ stack' = <<>> \/ Len(stack') \in 1 .. Len(stack')
  <2>1. /\ calls \in Seq(Steps) /\ Len(calls) = Len(stack) - 1
        /\ \A i \in 1 .. Len(calls) : calls[i] = stack[i]
        /\ calls = <<>> \/ Len(calls) \in 1 .. Len(calls)
    <3>1. stack \in Seq(Steps) /\ stack # <<>>
      BY <1>1 DEF TypeOK
    <3> QED BY <3>1, BelowTop
  <2> QED BY <1>1, <2>1
<1>4. Finished' = Finished \cup {Top}
  BY <1>1, <1>2 DEF Finished, TypeOK
<1>5. \A i \in 1 .. Len(stack') : i \in 1 .. Len(stack) /\ i # Len(stack)
  BY <1>2, <1>3
<1>6. PathIsStack'
  <2>1. \A i \in 1 .. Len(stack') : stack'[i] \in path'
    <3> SUFFICES ASSUME NEW i \in 1 .. Len(stack') PROVE stack'[i] \in path'
      OBVIOUS
    <3>1. i \in 1 .. Len(stack) /\ i # Len(stack) /\ stack'[i] = stack[i]
      BY <1>3, <1>5
    <3>2. stack[i] \in path /\ stack[i] # stack[Len(stack)]
      BY <1>2, <3>1 DEF PathIsStack
    <3> QED BY <1>1, <3>1, <3>2 DEF Top
  <2>2. ASSUME NEW n \in path' PROVE \E i \in 1 .. Len(stack') : stack'[i] = n
    <3>1. PICK i \in 1 .. Len(stack) : stack[i] = n
      BY <1>1, <2>2 DEF PathIsStack
    <3>2. i \in 1 .. Len(stack')
      BY <1>1, <1>2, <1>3, <2>2, <3>1 DEF Top
    <3> QED BY <1>3, <3>1, <3>2
  <2>3. \A i, j \in 1 .. Len(stack') : stack'[i] = stack'[j] => i = j
    BY <1>3, <1>5 DEF PathIsStack
  <2>4. path' = visited' \ Finished' /\ Finished' \subseteq visited'
    BY <1>1, <1>2, <1>4 DEF PathIsStack
  <2> QED BY <2>1, <2>2, <2>3, <2>4 DEF PathIsStack
<1>7. RankOrders'
  <2>1. \A n \in Steps : rank'[n] <= returned'
    BY <1>1, <1>2 DEF RankOrders, TypeOK
  <2>2. \A n \in path' : \A d \in deps'[n] \ todo'[n] : d \in Finished'
    <3>1. todo' = todo
          \/ \E c \in Steps : todo' = [todo EXCEPT ![c] = todo[c] \ {Top}]
      <4>1. CASE calls = <<>>
        BY <4>1 DEF Leave, Return
      <4>2. CASE calls # <<>>
        <5>1. calls[Len(calls)] \in Steps
          BY <1>1, <1>3, <4>2
        <5> QED BY <4>2, <5>1 DEF Leave, Return
      <4> QED BY <4>1, <4>2
    <3>2. \A n \in path : \A d \in deps[n] \ todo'[n] : d \in Finished \/ d = Top
      BY <3>1 DEF RankOrders, TypeOK
    <3> QED BY <1>1, <1>4, <3>2
  <2>3. ASSUME NEW n \in Finished', NEW d \in deps'[n]
        PROVE  d \in Finished' /\ rank'[d] < rank'[n]
    <3>1. CASE n = Top
      <4>1. d \in Finished /\ d # Top
        BY <1>1, <1>2, <2>3, <3>1 DEF RankOrders, Finished
      <4>2. rank'[d] = rank[d] /\ rank'[n] = returned + 1 /\ rank[d] <= returned
        BY <1>1, <1>2, <3>1, <4>1 DEF RankOrders, Finished, TypeOK
      <4> QED BY <1>4, <4>1, <4>2 DEF TypeOK, Finished
    <3>2. CASE n # Top
      <4>1. n \in Finished /\ d \in Finished /\ rank[d] < rank[n]
        BY <1>1, <1>4, <2>3, <3>2 DEF RankOrders
      <4>2. d # Top
        BY <1>2, <4>1 DEF Finished
      <4> QED BY <1>1, <1>4, <3>2, <4>1, <4>2 DEF Finished, TypeOK
    <3> QED BY <3>1, <3>2
  <2> QED BY <2>1, <2>2, <2>3 DEF RankOrders
<1> QED BY <1>6, <1>7

\* Every step of the system keeps the search in order.
LEMMA SearchStep ==
    ASSUME TypeOK, PathIsStack, RankOrders, [Next]_vars
    PROVE  PathIsStack' /\ RankOrders'
<1> DEFINE Quiet == UNCHANGED <<deps, searching>>
<1>1. CASE Quiet
  BY <1>1 DEF PathIsStack, RankOrders, Finished, searching
<1>2. ASSUME NEW name \in Steps, VisitRoot(name) PROVE PathIsStack' /\ RankOrders'
  BY <1>2, EnterKeeps DEF VisitRoot
<1>3. ASSUME NEW name \in Names, VisitDependency(name) PROVE PathIsStack' /\ RankOrders'
  BY <1>1, <1>3, EnterKeeps, SkipKeeps DEF VisitDependency, Visit, Reject
<1>4. CASE Leave
  BY <1>4, LeaveKeeps
<1>5. CASE Accept \/ Finish \/ StartBatch \/ CollectBatch \/ UNCHANGED vars
           \/ \E n \in Steps : StepEnds(n)
  BY <1>1, <1>5 DEF Accept, Finish, StartBatch, CollectBatch, StepEnds, vars
<1> QED BY <1>2, <1>3, <1>4, <1>5 DEF Next

\* Past the search every step has returned, and the search is over.
LEMMA SearchEndsStep ==
    ASSUME TypeOK, PathIsStack, RankOrders, SearchEnds, [Next]_vars
    PROVE  SearchEnds'
<1>1. CASE Accept
  <2>1. path = {}
    <3>1. Len(stack) = 0
      BY <1>1 DEF Accept
    <3> QED BY <3>1 DEF PathIsStack
  <2>2. Finished = Steps
    BY <1>1, <2>1 DEF Accept, PathIsStack, Finished
  <2> QED BY <1>1, <2>2 DEF SearchEnds, Accept, searching, Finished
<1>2. ASSUME NEW name \in Names, VisitDependency(name) PROVE SearchEnds'
  BY <1>2 DEF VisitDependency, Visit, Enter, Skip, Reject, SearchEnds
<1>3. ASSUME NEW name \in Steps, VisitRoot(name) PROVE SearchEnds'
  BY <1>3 DEF VisitRoot, Enter, SearchEnds
<1>4. CASE Leave
  BY <1>4 DEF Leave, Return, SearchEnds
<1>5. CASE Finish \/ StartBatch \/ CollectBatch \/ UNCHANGED vars
           \/ \E n \in Steps : StepEnds(n)
  <2>1. Finished' = Finished /\ (phase' \in {"validate", "cycle", "unknown"} <=>
                                 phase \in {"validate", "cycle", "unknown"})
    BY <1>5 DEF Finish, StartBatch, CollectBatch, StepEnds, vars, searching, Finished
  <2> QED BY <2>1 DEF SearchEnds
<1> QED BY <1>1, <1>2, <1>3, <1>4, <1>5 DEF Next

-----------------------------------------------------------------------------
(* The rejected workflows *)

\* The stack stays a path through the dependencies, and a name found on it closes
\* a cycle: the steps from that name up to the top.
LEMMA LinkedEnter ==
    ASSUME TypeOK, PathIsStack, PathLinked, NEW name \in Steps \ visited, Enter(name),
           stack # <<>> => name \in todo[Top]
    PROVE  PathLinked'
<1>1. /\ Len(stack') = Len(stack) + 1 /\ Len(stack) \in Nat
      /\ \A i \in 1 .. Len(stack) : stack'[i] = stack[i]
      /\ stack'[Len(stack) + 1] = name
  BY DEF Enter, TypeOK
<1>2. deps' = deps /\ path' = path \cup {name} /\ todo' = [todo EXCEPT ![name] = deps[name]]
  BY DEF Enter
<1>3. name \notin path
  BY DEF PathIsStack
<1>4. ASSUME NEW i \in 1 .. Len(stack'), NEW j \in 1 .. Len(stack'), j = i + 1
      PROVE  stack'[j] \in deps'[stack'[i]]
  <2>1. i \in 1 .. Len(stack)
    BY <1>1, <1>4
  <2>2. CASE j \in 1 .. Len(stack)
    BY <1>1, <1>2, <1>4, <2>1, <2>2 DEF PathLinked
  <2>3. CASE j = Len(stack) + 1
    <3>1. i = Len(stack) /\ stack # <<>>
      BY <1>1, <1>4, <2>1, <2>3
    <3>2. Top \in path /\ stack[i] = Top
      BY <3>1, TopIsStep DEF Top
    <3>3. name \in deps[Top]
      BY <3>1, <3>2 DEF PathLinked
    <3> QED BY <1>1, <1>2, <2>1, <2>3, <3>2, <3>3
  <2> QED BY <1>1, <2>2, <2>3
<1>5. \A n \in path' : todo'[n] \subseteq deps'[n]
  BY <1>2, <1>3 DEF PathLinked, TypeOK
<1> QED BY <1>4, <1>5 DEF PathLinked

LEMMA LinkedLeave ==
    ASSUME TypeOK, PathIsStack, PathLinked, Leave
    PROVE  PathLinked'
<1> DEFINE calls == SubSeq(stack, 1, Len(stack) - 1)
<1>1. stack # <<>> /\ path' = path \ {Top} /\ stack' = calls /\ deps' = deps
  BY DEF Leave, Return
<1>2. /\ calls \in Seq(Steps) /\ Len(calls) = Len(stack) - 1
      /\ \A i \in 1 .. Len(calls) : calls[i] = stack[i]
      /\ calls = <<>> \/ Len(calls) \in 1 .. Len(calls)
  <2>1. stack \in Seq(Steps) /\ stack # <<>>
    BY <1>1 DEF TypeOK
  <2> QED BY <2>1, BelowTop
<1>3. todo' = todo \/ \E c \in Steps : todo' = [todo EXCEPT ![c] = todo[c] \ {Top}]
  <2>1. CASE calls = <<>>
    BY <2>1 DEF Leave, Return
  <2>2. CASE calls # <<>>
    <3>1. calls[Len(calls)] \in Steps
      BY <1>2, <2>2
    <3> QED BY <2>2, <3>1 DEF Leave, Return
  <2> QED BY <2>1, <2>2
<1>4. \A n \in Steps : todo'[n] \subseteq todo[n]
  BY <1>3 DEF TypeOK
<1>5. \A n \in path' : todo'[n] \subseteq deps'[n]
  BY <1>1, <1>4 DEF PathLinked, TypeOK
<1>6. \A i \in 1 .. Len(stack') : i \in 1 .. Len(stack)
  <2>1. Len(stack) \in Nat
    BY DEF TypeOK
  <2> QED BY <1>1, <1>2, <2>1
<1>7. ASSUME NEW i \in 1 .. Len(stack'), NEW j \in 1 .. Len(stack'), j = i + 1
      PROVE  stack'[j] \in deps'[stack'[i]]
  <2>1. stack'[i] = stack[i] /\ stack'[j] = stack[j] /\ i \in 1 .. Len(stack)
        /\ j \in 1 .. Len(stack)
    BY <1>1, <1>2, <1>6
  <2> QED BY <1>1, <1>7, <2>1 DEF PathLinked
<1> QED BY <1>5, <1>7 DEF PathLinked

LEMMA CycleOnStack ==
    ASSUME TypeOK, PathIsStack, PathLinked, stack # <<>>,
           NEW name \in path, name \in todo[Top]
    PROVE  \E S \in (SUBSET Steps) \ {{}} : \A n \in S : deps[n] \cap S # {}
<1>1. Len(stack) \in Nat /\ Len(stack) \in 1 .. Len(stack) /\ Top \in path
  BY TopIsStep DEF TypeOK
<1>2. PICK i \in 1 .. Len(stack) : stack[i] = name
  BY DEF PathIsStack
<1> DEFINE S == {stack[j] : j \in i .. Len(stack)}
<1>3. ASSUME NEW j \in i .. Len(stack) PROVE stack[j] \in Steps /\ j \in 1 .. Len(stack)
  BY <1>1, <1>2 DEF TypeOK
<1>4. name \in S
  BY <1>1, <1>2
<1>5. S \in (SUBSET Steps) \ {{}}
  BY <1>3, <1>4
<1>6. ASSUME NEW j \in i .. Len(stack) PROVE deps[stack[j]] \cap S # {}
  <2>1. CASE j = Len(stack)
    <3>1. name \in deps[Top] /\ stack[j] = Top
      BY <1>1, <2>1 DEF PathLinked, Top
    <3> QED BY <1>4, <3>1
  <2>2. CASE j # Len(stack)
    <3>1. j + 1 \in i .. Len(stack) /\ j \in 1 .. Len(stack) /\ j + 1 \in 1 .. Len(stack)
      BY <1>1, <1>2, <2>2
    <3>2. stack[j + 1] \in deps[stack[j]]
      BY <3>1 DEF PathLinked
    <3>3. stack[j + 1] \in S
      BY <3>1
    <3> QED BY <3>2, <3>3
  <2> QED BY <2>1, <2>2
<1>7. \A n \in S : deps[n] \cap S # {}
  BY <1>6
<1> HIDE DEF S
<1> QED BY <1>5, <1>7

LEMMA CycleStep ==
    ASSUME TypeOK, PathIsStack, PathLinked, RejectedIsCyclic, [Next]_vars
    PROVE  PathLinked' /\ RejectedIsCyclic'
<1>1. ASSUME UNCHANGED <<deps, searching>>, phase' = "cycle" => phase = "cycle"
      PROVE  PathLinked' /\ RejectedIsCyclic'
  BY <1>1 DEF PathLinked, RejectedIsCyclic, searching
<1>2. ASSUME NEW name \in Steps, VisitRoot(name) PROVE PathLinked' /\ RejectedIsCyclic'
  <2>1. PathLinked'
    BY <1>2, LinkedEnter DEF VisitRoot
  <2> QED BY <1>2, <2>1 DEF VisitRoot, Enter, RejectedIsCyclic
<1>3. ASSUME NEW name \in Names, VisitDependency(name) PROVE PathLinked' /\ RejectedIsCyclic'
  <2>0. phase = "validate" /\ stack # <<>> /\ name \in todo[Top]
    BY <1>3 DEF VisitDependency
  <2>1. CASE name \in path /\ Reject("cycle")
    <3>1. UNCHANGED <<deps, searching>>
      BY <2>1 DEF Reject
    <3>2. PathLinked'
      BY <3>1 DEF PathLinked, searching
    <3>3. \E S \in (SUBSET Steps) \ {{}} : \A n \in S : deps[n] \cap S # {}
      BY <2>0, <2>1, CycleOnStack
    <3> QED BY <3>1, <3>2, <3>3 DEF RejectedIsCyclic
  <2>2. CASE Skip(name)
    <3>1. /\ Top \in Steps /\ todo' = [todo EXCEPT ![Top] = todo[Top] \ {name}]
          /\ UNCHANGED <<deps, phase, path, stack>>
      BY <2>0, <2>2, TopIsStep DEF Skip
    <3>2. \A n \in Steps : todo'[n] \subseteq todo[n]
      BY <3>1 DEF TypeOK
    <3>3. \A n \in path' : todo'[n] \subseteq deps'[n]
      BY <3>1, <3>2 DEF PathLinked, TypeOK
    <3> QED BY <2>0, <3>1, <3>3 DEF PathLinked, RejectedIsCyclic
  <2>3. CASE Reject("unknown")
    BY <1>1, <2>3 DEF Reject
  <2>4. CASE name \in Steps \ (path \cup visited) /\ Enter(name)
    <3>1. PathLinked'
      BY <2>0, <2>4, LinkedEnter
    <3> QED BY <2>0, <2>4, <3>1 DEF Enter, RejectedIsCyclic
  <2> QED BY <1>3, <2>1, <2>2, <2>3, <2>4 DEF VisitDependency, Visit
<1>4. CASE Leave
  <2>1. PathLinked'
    BY <1>4, LinkedLeave
  <2> QED BY <1>4, <2>1 DEF Leave, Return, RejectedIsCyclic
<1>5. CASE Accept \/ Finish \/ StartBatch \/ CollectBatch \/ UNCHANGED vars
           \/ \E n \in Steps : StepEnds(n)
  BY <1>1, <1>5 DEF Accept, Finish, StartBatch, CollectBatch, StepEnds, vars
<1> QED BY <1>2, <1>3, <1>4, <1>5 DEF Next

-----------------------------------------------------------------------------
(* The batches *)

\* Some step of any returned first.
LEMMA LeastRank ==
    ASSUME NEW T \in SUBSET Steps, T # {}, rank \in [Steps -> Nat]
    PROVE  \E n \in T : \A m \in T : rank[n] <= rank[m]
<1>1. \A n \in T : rank[n] \in Nat
  OBVIOUS
<1>2. PICK n \in T : \A m \in T : ~(rank[m] < rank[n])
  BY <1>1, LeastFound
<1> QED BY <1>1, <1>2

\* While steps are pending one of them, the one that returned first, is ready.
LEMMA SomeReady ==
    ASSUME TypeOK, RankOrders, BatchesInOrder, Finished = Steps, pending # {}
    PROVE  Ready # {}
<1>1. PICK n \in pending : \A m \in pending : rank[n] <= rank[m]
  BY LeastRank DEF TypeOK
<1>2. \A d \in deps[n] : d \in Steps /\ rank[d] < rank[n]
  BY <1>1 DEF RankOrders, Finished, TypeOK
<1>3. \A d \in deps[n] : d \notin pending
  BY <1>1, <1>2 DEF TypeOK
<1>4. deps[n] \subseteq completed
  BY <1>2, <1>3 DEF BatchesInOrder
<1> QED BY <1>1, <1>4 DEF Ready

\* Steps move from pending through running to completed, batch after batch.
LEMMA BatchStep ==
    ASSUME TypeOK, RankOrders, SearchEnds, BatchesInOrder, DependenciesFirst,
           AcceptedIsRunnable, [Next]_vars
    PROVE  BatchesInOrder' /\ DependenciesFirst' /\ AcceptedIsRunnable'
<1> USE DEF BatchesInOrder, DependenciesFirst, AcceptedIsRunnable, executing
<1>1. ASSUME UNCHANGED <<deps, phase, executing>>
      PROVE  BatchesInOrder' /\ DependenciesFirst' /\ AcceptedIsRunnable'
  BY <1>1 DEF Started
<1>2. ASSUME NEW why \in {"cycle", "unknown"}, phase = "validate", Reject(why)
      PROVE  BatchesInOrder' /\ DependenciesFirst' /\ AcceptedIsRunnable'
  BY <1>2 DEF Reject, Started
<1>3. ASSUME NEW name \in Names, VisitDependency(name)
      PROVE  BatchesInOrder' /\ DependenciesFirst' /\ AcceptedIsRunnable'
  BY <1>1, <1>2, <1>3 DEF VisitDependency, Visit, Enter, Skip
<1>4. ASSUME NEW name \in Steps, VisitRoot(name)
      PROVE  BatchesInOrder' /\ DependenciesFirst' /\ AcceptedIsRunnable'
  BY <1>1, <1>4 DEF VisitRoot, Enter
<1>5. CASE Leave
  BY <1>1, <1>5 DEF Leave, Return
<1>6. CASE Accept
  BY <1>6 DEF Accept, Started
<1>7. CASE Finish
  BY <1>7 DEF Finish, Started
<1>8. CASE StartBatch
  <2>1. Ready # {} /\ Finished = Steps
    BY <1>8, SomeReady DEF StartBatch, SearchEnds
  <2>2. /\ phase' = "gather" /\ running' = Ready /\ phase = "execute"
        /\ UNCHANGED <<deps, pending, completed, outcome>>
    BY <1>8, <2>1 DEF StartBatch
  <2>3. Started' = Started \cup Ready
    BY <2>2 DEF Started
  <2>4. \A n \in Ready : \A d \in deps[n] : d \in Steps /\ outcome[d] \in {"ok", "cancelled"}
    BY DEF Ready
  <2>5. \E n \in pending' : n \in Started'
    BY <2>1, <2>2, <2>3 DEF Ready
  <2> QED BY <2>2, <2>3, <2>4, <2>5 DEF Ready
<1>9. ASSUME NEW n \in Steps, StepEnds(n)
      PROVE  BatchesInOrder' /\ DependenciesFirst' /\ AcceptedIsRunnable'
  <2>1. PICK how \in Outcomes \ {"none"} : outcome' = [outcome EXCEPT ![n] = how]
    BY <1>9 DEF StepEnds
  <2>2. /\ n \in running /\ running' = running \ {n} /\ phase = "gather"
        /\ UNCHANGED <<deps, phase, pending, completed>>
    BY <1>9 DEF StepEnds
  <2>3. Started' = Started /\ n \in pending /\ outcome[n] = "none"
    BY <2>1, <2>2 DEF Started, TypeOK
  <2>4. \A m \in Steps \ {n} : outcome'[m] = outcome[m]
    BY <2>1 DEF TypeOK
  <2>5. \A m \in completed : m \in Steps \ {n}
    BY <2>3 DEF TypeOK
  <2>6. BatchesInOrder'
    <3>1. \A m \in completed' : outcome'[m] \in {"ok", "cancelled"}
      BY <2>2, <2>4, <2>5
    <3>2. \A m \in running' : m \in pending' /\ outcome'[m] = "none"
      BY <2>2, <2>4 DEF TypeOK
    <3>3. \A m \in pending' : m \in Started' => deps'[m] \subseteq completed'
      BY <2>2, <2>3
    <3>4. \E m \in pending' : m \in Started'
      BY <2>2, <2>3
    <3> QED BY <2>2, <3>1, <3>2, <3>3, <3>4
  <2>7. \A m \in Started : \A d \in deps[m] : d # n
    BY <2>3
  <2> QED BY <2>2, <2>3, <2>4, <2>6, <2>7
<1>10. CASE CollectBatch
  <2>1. /\ phase = "gather" /\ running = {}
        /\ UNCHANGED <<deps, running, outcome>>
    BY <1>10 DEF CollectBatch
  <2>2. Started' = Started
    BY <2>1 DEF Started
  <2>3. CASE phase' = "failed" /\ UNCHANGED <<pending, completed>>
    BY <2>1, <2>2, <2>3
  <2>4. CASE /\ \A n \in Batch : outcome[n] # "error"
             /\ phase' = "execute" /\ completed' = completed \cup Batch
             /\ pending' = pending \ Batch
    <3>1. \A n \in Batch : n \in pending /\ outcome[n] \in {"ok", "cancelled"}
      BY <2>4 DEF Batch, TypeOK, Outcomes
    <3>2. \A n \in pending' : outcome[n] = "none"
      BY <2>4 DEF Batch, TypeOK
    <3>3. completed' = Steps \ pending'
      BY <2>4, <3>1 DEF TypeOK
    <3> QED BY <2>1, <2>2, <2>4, <3>1, <3>2, <3>3
  <2> QED BY <1>10, <2>3, <2>4 DEF CollectBatch
<1>11. CASE UNCHANGED vars
  BY <1>1, <1>11 DEF vars
<1> QED BY <1>3, <1>4, <1>5, <1>6, <1>7, <1>8, <1>9, <1>10, <1>11 DEF Next

-----------------------------------------------------------------------------
(* Theorems *)

\* The inductive invariant holds at the start ...
LEMMA InitInv == Init => IndInv
<1> SUFFICES ASSUME Init PROVE IndInv
  OBVIOUS
<1>1. TypeOK
  BY DEF Init, TypeOK, Phases, Outcomes
<1>2. PathIsStack /\ RankOrders /\ SearchEnds
  BY DEF Init, PathIsStack, RankOrders, SearchEnds, Finished
<1>4. PathLinked /\ RejectedIsCyclic
  BY DEF Init, PathLinked, RejectedIsCyclic
<1>3. BatchesInOrder /\ DependenciesFirst /\ AcceptedIsRunnable
  BY DEF Init, BatchesInOrder, DependenciesFirst, AcceptedIsRunnable, Started
<1> QED BY <1>1, <1>2, <1>3, <1>4 DEF IndInv

\* ... and every step preserves it.
LEMMA NextInv == IndInv /\ [Next]_vars => IndInv'
BY TypeStep, SearchStep, SearchEndsStep, CycleStep, BatchStep DEF IndInv

\* So it always holds.
THEOREM Invariance == Spec => []IndInv
BY InitInv, NextInv, PTL DEF Spec

\* The search and the execution keep their types: no unknown name gets past the
\* constructor.
THEOREM TypeCorrect == Spec => []TypeOK
BY Invariance, PTL DEF IndInv

\* No step starts before what it depends on has ended without an error.
THEOREM OrderRespected == Spec => []DependenciesFirst
BY Invariance, PTL DEF IndInv

\* execute never raises "Circular dependency detected" on a workflow that the
\* constructor accepted: the order in which visit returned is one to run it in.
THEOREM ValidatedRuns == Spec => []AcceptedIsRunnable
BY Invariance, PTL DEF IndInv

\* The constructor rejects for a cycle only what has one, so no workflow that could
\* be run is turned away by the search's bookkeeping.
THEOREM RejectionJustified == Spec => []RejectedIsCyclic
BY Invariance, PTL DEF IndInv

\* No step runs again, and none starts once one has failed.
THEOREM NoRestart == Spec => StartsOnce
<1>1. IndInv /\ [Next]_vars =>
        [running' \ running # {} =>
           \A n \in Steps :
             outcome[n] # "none" => n \notin running' /\ outcome[n] # "error"]_vars
  <2> SUFFICES ASSUME IndInv, [Next]_vars, running' \ running # {},
                      NEW n \in Steps, outcome[n] # "none"
               PROVE  n \notin running' /\ outcome[n] # "error"
    OBVIOUS
  <2>1. StartBatch
    BY DEF Next, VisitRoot, VisitDependency, Visit, Enter, Skip, Reject, Leave, Return, Accept,
           CollectBatch, Finish, StepEnds, vars, executing
  <2>2. phase = "execute" /\ running' \subseteq pending
    BY <2>1 DEF StartBatch, Ready
  <2> QED BY <2>2 DEF IndInv, BatchesInOrder
<1> QED BY <1>1, Invariance, PTL DEF Spec, StartsOnce

-----------------------------------------------------------------------------
(* Progress *)

\* Taking something out of a finite set leaves less.
LEMMA LessOfIt ==
    ASSUME NEW S, NEW T, IsFiniteSet(T), S \subseteq T, S # T
    PROVE  Cardinality(S) < Cardinality(T)
<1>1. S \in SUBSET T
  OBVIOUS
<1>2. IsFiniteSet(S) /\ Cardinality(S) <= Cardinality(T) /\ (Cardinality(S) = Cardinality(T) => S = T)
  BY <1>1, FS_Subset
<1>3. Cardinality(S) \in Nat /\ Cardinality(T) \in Nat
  BY <1>2, FS_CardinalityType
<1> QED BY <1>2, <1>3

\* The search only gets nearer to its end.
LEMMA SearchNeverRepeats ==
    ASSUME IsFiniteSet(Steps), IndInv, IndInv', phase = "validate", phase' = "validate",
           \/ \E name \in Steps : VisitRoot(name)
           \/ \E name \in Names : VisitDependency(name)
           \/ Leave
    PROVE  LessToDo(LeftToDo', LeftToDo)
<1> DEFINE top == IF stack = <<>> THEN 0 ELSE Cardinality(todo[Top])
           unseen == Steps \ visited
           open == Steps \ Finished
<1>1. LeftToDo = <<2, Cardinality(unseen), Cardinality(open), top>>
  BY DEF LeftToDo
<1>2. LeftToDo' = <<2, Cardinality(unseen'), Cardinality(open'), top'>>
  BY DEF LeftToDo
<1>3. IsFiniteSet(unseen) /\ IsFiniteSet(open)
  BY FS_Subset
<1> HIDE DEF top, unseen, open
<1>4. ASSUME NEW name \in Steps \ visited, Enter(name) PROVE LessToDo(LeftToDo', LeftToDo)
  <2>1. unseen' \subseteq unseen /\ unseen' # unseen
    BY <1>4 DEF Enter, unseen
  <2>2. Cardinality(unseen') < Cardinality(unseen)
    BY <1>3, <2>1, LessOfIt
  <2> QED BY <1>1, <1>2, <2>2 DEF LessToDo
<1>5. CASE \E name \in Steps : VisitRoot(name)
  BY <1>4, <1>5 DEF VisitRoot
<1>6. CASE Leave
  <2>1. Top \in path /\ rank[Top] = 0 /\ Top \in Steps
    BY <1>6, TopIsStep DEF IndInv, Leave, Return
  <2>2. /\ visited' = visited /\ rank' = [rank EXCEPT ![Top] = returned + 1]
        /\ returned \in Nat /\ rank \in [Steps -> Nat]
    BY <1>6 DEF Leave, Return, IndInv, TypeOK
  <2>3. rank'[Top] > 0 /\ \A n \in Steps : rank[n] > 0 => rank'[n] > 0
    BY <2>1, <2>2
  <2>4. open' \subseteq open /\ Top \in open /\ Top \notin open'
    BY <2>1, <2>2, <2>3 DEF open, Finished
  <2>5. Cardinality(open') < Cardinality(open)
    BY <1>3, <2>4, LessOfIt
  <2>6. unseen' = unseen
    BY <2>2 DEF unseen
  <2> QED BY <1>1, <1>2, <2>5, <2>6 DEF LessToDo
<1>7. ASSUME NEW name \in Names, VisitDependency(name) PROVE LessToDo(LeftToDo', LeftToDo)
  <2>1. stack # <<>> /\ name \in todo[Top] /\ Visit(name)
    BY <1>7 DEF VisitDependency
  <2>2. CASE Enter(name) /\ name \in Steps \ visited
    BY <1>4, <2>2
  <2>3. CASE Skip(name)
    <3>1. /\ visited' = visited /\ rank' = rank /\ stack' = stack
          /\ todo' = [todo EXCEPT ![Top] = todo[Top] \ {name}]
      BY <2>3 DEF Skip
    <3>2. Top \in Steps /\ Top' = Top /\ todo \in [Steps -> SUBSET Names]
      BY <2>1, <3>1, TopIsStep DEF IndInv, TypeOK, Top
    <3>3. todo'[Top'] = todo[Top] \ {name}
      BY <3>1, <3>2
    <3>4. IsFiniteSet(Names)
      BY FS_AddElement DEF Names
    <3>5. IsFiniteSet(todo[Top])
      BY <3>2, <3>4, FS_Subset
    <3>6. Cardinality(todo[Top] \ {name}) < Cardinality(todo[Top])
      BY <2>1, <3>5, LessOfIt
    <3>7. top' < top
      BY <2>1, <3>1, <3>3, <3>6 DEF top
    <3>8. unseen' = unseen /\ open' = open
      BY <3>1 DEF unseen, open, Finished
    <3> QED BY <1>1, <1>2, <3>7, <3>8 DEF LessToDo
  <2>4. ~ Reject("cycle") /\ ~ Reject("unknown")
    BY DEF Reject
  <2> QED BY <2>1, <2>2, <2>3, <2>4 DEF Visit
<1> QED BY <1>5, <1>6, <1>7

\* So does the execution: a batch has a step in it, and every batch that ends well takes
\* its steps out of pending.
LEMMA ExecutionNeverRepeats ==
    ASSUME IsFiniteSet(Steps), IndInv, IndInv',
           StartBatch \/ CollectBatch \/ Finish \/ \E n \in Steps : StepEnds(n)
    PROVE  LessToDo(LeftToDo', LeftToDo)
<1> DEFINE left == Cardinality(pending)
           runs == Cardinality(running)
<1>1. IsFiniteSet(pending) /\ IsFiniteSet(running)
  <2>1. pending \in SUBSET Steps /\ running \in SUBSET Steps
    BY DEF IndInv, TypeOK
  <2> QED BY <2>1, FS_Subset
<1>2. phase = "execute" => LeftToDo = <<1, left, 1, 0>>
  BY DEF LeftToDo
<1>3. phase = "gather" => LeftToDo = <<1, left, 0, runs>>
  BY DEF LeftToDo
<1>4. /\ phase' = "execute" => LeftToDo' = <<1, left', 1, 0>>
      /\ phase' = "gather" => LeftToDo' = <<1, left', 0, runs'>>
      /\ phase' \in {"failed", "done"} => LeftToDo' = <<0, 0, 0, 0>>
  BY DEF LeftToDo
<1> HIDE DEF left, runs
<1>5. CASE StartBatch
  <2>1. phase = "execute" /\ phase' = "gather" /\ pending' = pending
    BY <1>5 DEF StartBatch, IndInv, AcceptedIsRunnable
  <2>2. left' = left
    BY <2>1 DEF left
  <2> QED BY <1>2, <1>4, <2>1, <2>2 DEF LessToDo
<1>6. CASE Finish
  <2>1. phase = "execute" /\ phase' = "done"
    BY <1>6 DEF Finish
  <2> QED BY <1>2, <1>4, <2>1 DEF LessToDo
<1>7. CASE CollectBatch
  <2>1. phase = "gather" /\ running = {}
    BY <1>7 DEF CollectBatch
  <2>2. CASE phase' = "failed"
    BY <1>3, <1>4, <2>1, <2>2 DEF LessToDo
  <2>3. CASE phase' # "failed"
    <3>1. phase' = "execute" /\ pending' = pending \ Batch
      BY <1>7, <2>3 DEF CollectBatch
    <3>2. PICK n \in pending : n \in Batch
      BY <2>1 DEF IndInv, BatchesInOrder, Started, Batch
    <3>3. pending' \subseteq pending /\ pending' # pending
      BY <3>1, <3>2
    <3>4. left' < left
      BY <1>1, <3>3, LessOfIt DEF left
    <3> QED BY <1>3, <1>4, <2>1, <3>1, <3>4 DEF LessToDo
  <2> QED BY <2>2, <2>3
<1>8. ASSUME NEW n \in Steps, StepEnds(n) PROVE LessToDo(LeftToDo', LeftToDo)
  <2>1. n \in running /\ running' = running \ {n} /\ phase' = phase /\ pending' = pending
    BY <1>8 DEF StepEnds
  <2>2. phase = "gather"
    BY <2>1 DEF IndInv, BatchesInOrder
  <2>3. running' \subseteq running /\ running' # running
    BY <2>1
  <2>4. runs' < runs
    BY <1>1, <2>3, LessOfIt DEF runs
  <2>5. left' = left
    BY <2>1 DEF left
  <2> QED BY <1>3, <1>4, <2>1, <2>2, <2>4, <2>5 DEF LessToDo
<1> QED BY <1>5, <1>6, <1>7, <1>8

\* Every step of a workflow of finitely many leaves less to do: what brings it to its end
\* once its coroutines end, and the part of WorkflowEnds that is in the code's hands.
THEOREM WorkRunsOut ==
    ASSUME IsFiniteSet(Steps)
    PROVE  Spec => NeverRepeats
<1>1. IndInv /\ IndInv' /\ [Next]_vars => [LessToDo(LeftToDo', LeftToDo)]_vars
  <2> SUFFICES ASSUME IndInv, IndInv', Next PROVE LessToDo(LeftToDo', LeftToDo)
    OBVIOUS
  <2>1. CASE StartBatch \/ CollectBatch \/ Finish \/ \E n \in Steps : StepEnds(n)
    BY <2>1, ExecutionNeverRepeats
  <2>2. CASE \/ \E name \in Steps : VisitRoot(name)
             \/ \E name \in Names : VisitDependency(name)
             \/ Leave
    <3>1. phase = "validate" /\ phase' \in {"validate", "cycle", "unknown"}
      BY <2>2 DEF VisitRoot, VisitDependency, Visit, Enter, Skip, Reject, Leave, Return
    <3>2. CASE phase' = "validate"
      BY <2>2, <3>1, <3>2, SearchNeverRepeats
    <3>3. CASE phase' # "validate"
      <4>1. LeftToDo[1] = 2 /\ LeftToDo'[1] = 0
        BY <3>1, <3>3 DEF LeftToDo
      <4> QED BY <4>1 DEF LessToDo
    <3> QED BY <3>2, <3>3
  <2>3. CASE Accept
    <3>1. LeftToDo[1] = 2 /\ LeftToDo'[1] = 1
      BY <2>3 DEF Accept, LeftToDo
    <3> QED BY <3>1 DEF LessToDo
  <2> QED BY <2>1, <2>2, <2>3 DEF Next
<1> QED BY <1>1, Invariance, PTL DEF Spec, NeverRepeats

-----------------------------------------------------------------------------
(* The abstract specification *)

\* What the orchestrator means by a result is what OrderedWorkflow does.
LEMMA ResultsAgree ==
    ASSUME IndInv, NEW d \in completed
    PROVE  Ordered!HasResult(d)
BY DEF IndInv, TypeOK, BatchesInOrder, Ordered!HasResult

\* A batch starts steps that may start: none has run, and all they depend on is in.
LEMMA BatchStarts ==
    ASSUME IndInv, StartBatch, phase' # "stuck"
    PROVE  Ordered!Start
<1>1. /\ phase = "execute" /\ phase' = "gather" /\ running' = Ready
      /\ deps' = deps /\ outcome' = outcome
  BY DEF StartBatch, executing
<1>2. Verdict = "open" /\ Verdict' = "open"
  BY <1>1 DEF Verdict
<1>3. running = {} /\ \A n \in pending : n \in Steps /\ outcome[n] = "none"
  BY <1>1 DEF IndInv, TypeOK, BatchesInOrder
<1>4. \A n \in Steps : outcome[n] # "error"
  BY <1>1 DEF IndInv, BatchesInOrder
<1>5. ASSUME NEW n \in Ready PROVE n \in Ordered!Startable
  <2>1. n \in pending /\ deps[n] \subseteq completed
    BY DEF Ready
  <2>2. \A d \in deps[n] : Ordered!HasResult(d)
    BY <2>1, ResultsAgree
  <2> QED BY <1>3, <2>1, <2>2 DEF Ordered!Startable
<1>6. Ready \in SUBSET Ordered!Startable /\ running' = running \cup Ready
  BY <1>1, <1>3, <1>5
<1> QED BY <1>1, <1>2, <1>4, <1>6 DEF Ordered!Start

\* A constructor that raises has found a workflow that cannot be ordered: one that names
\* a step it does not have, or a cycle.
LEMMA RejectsUnorderable ==
    ASSUME IndInv, IndInv', phase = "validate", NEW name \in Names, VisitDependency(name),
           phase' \in {"cycle", "unknown"}
    PROVE  Ordered!Reject
<1>1. Reject(phase')
  BY DEF VisitDependency, Visit, Enter, Skip, Reject
<1>2. deps' = deps /\ outcome' = outcome /\ running' = running
  BY <1>1 DEF Reject, executing
<1>3. Verdict = "open" /\ Verdict' = "rejected"
  BY DEF Verdict
<1>4. running = {} /\ \A n \in Steps : outcome[n] = "none"
  BY DEF IndInv, BatchesInOrder
<1>5. Ordered!Unorderable
  <2>1. CASE phase' = "cycle"
    <3>1. \E S \in (SUBSET Steps) \ {{}} : \A n \in S : deps[n] \cap S # {}
      BY <1>2, <2>1 DEF IndInv, RejectedIsCyclic
    <3> QED BY <3>1 DEF Ordered!Unorderable
  <2>2. CASE phase' = "unknown"
    <3>1. name \notin Steps /\ stack # <<>> /\ name \in todo[Top]
      BY <2>2 DEF VisitDependency, Visit, Enter, Skip, Reject
    <3>2. Top \in Steps /\ Top \in path
      BY <3>1, TopIsStep DEF IndInv
    <3>3. name \in deps[Top]
      BY <3>1, <3>2 DEF IndInv, PathLinked
    <3> QED BY <3>1, <3>2, <3>3 DEF Ordered!Unorderable
  <2> QED BY <2>1, <2>2
<1> QED BY <1>2, <1>3, <1>4, <1>5 DEF Ordered!Reject, Ordered!Judge

\* Whatever depends on what and however the steps end, the orchestrator implements
\* OrderedWorkflow: the search and the collection of a good batch are no steps of it,
\* a batch starts its steps at once, and the constructor or execute raises only with a
\* reason.
THEOREM OrchestratorImplements == Spec => ImplementsOrdered
<1>1. Init => Ordered!Init
  BY DEF Init, Ordered!Init, Verdict
<1>2. IndInv /\ IndInv' /\ [Next]_vars => [Ordered!Next]_(Ordered!workflow)
  <2> SUFFICES ASSUME IndInv, IndInv', [Next]_vars PROVE [Ordered!Next]_(Ordered!workflow)
    OBVIOUS
  <2>1. ASSUME deps' = deps, running' = running, outcome' = outcome, Verdict' = Verdict
        PROVE  UNCHANGED Ordered!workflow
    BY <2>1 DEF Ordered!workflow
  <2>2. ASSUME NEW name \in Steps, VisitRoot(name) PROVE [Ordered!Next]_(Ordered!workflow)
    <3>1. deps' = deps /\ running' = running /\ outcome' = outcome /\ Verdict' = Verdict
      BY <2>2 DEF VisitRoot, Enter, executing, Verdict
    <3> QED BY <2>1, <3>1
  <2>3. ASSUME NEW name \in Names, VisitDependency(name) PROVE [Ordered!Next]_(Ordered!workflow)
    <3>1. phase = "validate"
      BY <2>3 DEF VisitDependency
    <3>2. CASE phase' \in {"cycle", "unknown"}
      <4>1. Ordered!Reject
        BY <2>3, <3>1, <3>2, RejectsUnorderable
      <4> QED BY <4>1 DEF Ordered!Next
    <3>3. CASE phase' \notin {"cycle", "unknown"}
      <4>1. deps' = deps /\ running' = running /\ outcome' = outcome /\ phase' = phase
        BY <2>3, <3>3 DEF VisitDependency, Visit, Enter, Skip, Reject, executing
      <4>2. Verdict' = Verdict
        BY <4>1 DEF Verdict
      <4> QED BY <2>1, <4>1, <4>2
    <3> QED BY <3>2, <3>3
  <2>4. CASE Leave \/ Accept
    <3>1. deps' = deps /\ running' = running /\ outcome' = outcome /\ Verdict' = Verdict
      BY <2>4 DEF Leave, Return, Accept, executing, Verdict
    <3> QED BY <2>1, <3>1
  <2>5. CASE StartBatch
    <3>1. phase' # "stuck"
      BY DEF IndInv, AcceptedIsRunnable
    <3>2. Ordered!Start
      BY <2>5, <3>1, BatchStarts
    <3> QED BY <3>2 DEF Ordered!Next
  <2>6. CASE CollectBatch
    <3>1. /\ phase = "gather" /\ running = {} /\ running' = running
          /\ deps' = deps /\ outcome' = outcome
      BY <2>6 DEF CollectBatch
    <3>2. CASE phase' = "execute"
      <4>1. Verdict' = Verdict
        BY <3>1, <3>2 DEF Verdict
      <4> QED BY <2>1, <3>1, <4>1
    <3>3. CASE phase' # "execute"
      <4>1. phase' = "failed" /\ \E n \in Batch : outcome[n] = "error"
        BY <2>6, <3>3 DEF CollectBatch
      <4>2. \E n \in Steps : outcome[n] = "error"
        BY <4>1 DEF Batch, IndInv, TypeOK
      <4>3. Verdict = "open" /\ Verdict' = "failed"
        BY <3>1, <4>1 DEF Verdict
      <4>4. Ordered!Fail
        BY <3>1, <4>2, <4>3 DEF Ordered!Fail, Ordered!Judge
      <4> QED BY <4>4 DEF Ordered!Next
    <3> QED BY <3>2, <3>3
  <2>7. CASE Finish
    <3>1. /\ phase = "execute" /\ phase' = "done" /\ pending = {} /\ deps' = deps
          /\ running' = running /\ outcome' = outcome
      BY <2>7 DEF Finish, executing
    <3>2. running = {} /\ completed = Steps
      BY <3>1 DEF IndInv, BatchesInOrder
    <3>3. \A n \in Steps : Ordered!HasResult(n)
      BY <3>2, ResultsAgree
    <3>4. Verdict = "open" /\ Verdict' = "done"
      BY <3>1 DEF Verdict
    <3>5. Ordered!Finish
      BY <3>1, <3>2, <3>3, <3>4 DEF Ordered!Finish, Ordered!Judge
    <3> QED BY <3>5 DEF Ordered!Next
  <2>8. ASSUME NEW n \in Steps, StepEnds(n) PROVE [Ordered!Next]_(Ordered!workflow)
    <3>1. n \in running /\ running' = running \ {n} /\ deps' = deps /\ phase' = phase
      BY <2>8 DEF StepEnds
    <3>2. \E how \in {"ok", "error", "cancelled"} : outcome' = [outcome EXCEPT ![n] = how]
      BY <2>8 DEF StepEnds, Outcomes
    <3>3. Verdict = "open" /\ Verdict' = Verdict
      BY <3>1 DEF Verdict, IndInv, BatchesInOrder
    <3>4. Ordered!End(n)
      BY <3>1, <3>2, <3>3 DEF Ordered!End
    <3> QED BY <3>4 DEF Ordered!Next
  <2>9. CASE UNCHANGED vars
    <3>1. deps' = deps /\ running' = running /\ outcome' = outcome /\ Verdict' = Verdict
      BY <2>9 DEF vars, executing, Verdict
    <3> QED BY <2>1, <3>1
  <2> QED BY <2>2, <2>3, <2>4, <2>5, <2>6, <2>7, <2>8, <2>9 DEF Next
<1> QED BY <1>1, <1>2, Invariance, PTL DEF Spec, ImplementsOrdered, Ordered!Spec

-----------------------------------------------------------------------------
(* The CLE's workflow, as one of the orchestrator's *)

\* Each of its steps is one of the workflow, and depends on the one before it.
LEMMA WorkflowDepsTyped ==
    /\ WorkflowDeps \in [Steps -> SUBSET Names]
    /\ \A n \in Steps : WorkflowDeps[n] \subseteq Steps
    /\ \A n \in WorkflowSteps : n \in Steps
BY StepsAssumption DEF WorkflowDeps, WorkflowSteps, Names

\* Whatever the workflow does, the orchestrator does.
LEMMA WorkflowStepsOrchestrate ==
    ASSUME [WorkflowNext]_<<vars, workflowVars>>
    PROVE  [Next]_vars
<1>1. \A n \in WorkflowSteps : StepEnds(n) => Next
  BY WorkflowDepsTyped DEF Next
<1>2. ClassifyIntent \/ CheckPatterns \/ ValidateCorrection \/ ExecuteTool => Next
  BY <1>1 DEF WorkflowSteps, ClassifyIntent, CheckPatterns, ValidateCorrection, ExecuteTool
<1>3. Orchestrate => Next
  BY DEF Orchestrate, Next
<1>4. StoreChanges => UNCHANGED vars
  BY DEF StoreChanges
<1> QED BY <1>2, <1>3, <1>4 DEF WorkflowNext, WorkflowStep

\* No steps of it all depend on one of themselves: the first in the row among them
\* depends on none.
LEMMA NoCycleInRow == ~\E S \in (SUBSET Steps) \ {{}} : \A n \in S : WorkflowDeps[n] \cap S # {}
<1> SUFFICES ASSUME NEW S \in (SUBSET Steps) \ {{}}, \A n \in S : WorkflowDeps[n] \cap S # {}
             PROVE  FALSE
  OBVIOUS
<1>1. \A n \in S : n = "check_patterns" \/ n = "validate_correction" \/ n = "execute_tool"
  BY DEF WorkflowDeps
<1>2. "check_patterns" \notin S
  <2>1. "check_patterns" \in S => "classify_intent" \in S
    BY DEF WorkflowDeps
  <2> QED BY <1>1, <2>1
<1>3. "validate_correction" \notin S
  BY <1>2 DEF WorkflowDeps
<1>4. "execute_tool" \notin S
  BY <1>3 DEF WorkflowDeps
<1> QED BY <1>1, <1>2, <1>3, <1>4

\* A constructor given the workflow returns, and execute does not raise for a cycle.
LEMMA AcceptedStep ==
    ASSUME IndInv, IndInv', deps = WorkflowDeps, Accepted, [Next]_vars
    PROVE  deps' = WorkflowDeps /\ Accepted'
<1> USE DEF Accepted
<1>1. deps' = deps => phase' # "cycle" /\ phase' # "stuck"
  BY NoCycleInRow DEF IndInv, RejectedIsCyclic, AcceptedIsRunnable
<1>2. ASSUME NEW name \in Names, VisitDependency(name)
      PROVE  deps' = deps /\ phase' # "unknown"
  <2>1. stack # <<>> /\ name \in todo[Top] /\ Visit(name)
    BY <1>2 DEF VisitDependency
  <2>2. Top \in path /\ Top \in Steps
    BY <2>1, TopIsStep DEF IndInv
  <2>3. name \in Steps
    BY <2>1, <2>2, WorkflowDepsTyped DEF IndInv, PathLinked
  <2> QED BY <2>1, <2>3 DEF Visit, Reject, Skip, Enter
<1>3. CASE (\E name \in Steps : VisitRoot(name)) \/ Leave \/ Accept \/ StartBatch
           \/ CollectBatch \/ Finish \/ (\E n \in Steps : StepEnds(n)) \/ UNCHANGED vars
  <2>1. deps' = deps /\ phase' # "unknown"
    BY <1>3 DEF VisitRoot, Enter, Leave, Return, Accept, StartBatch, CollectBatch, Finish,
                StepEnds, vars
  <2> QED BY <1>1, <2>1
<1> QED BY <1>1, <1>2, <1>3 DEF Next

-----------------------------------------------------------------------------
(* What its steps find and choose *)

\* A step that ends was running and had not ended; no other step's outcome changes.
LEMMA EndsOnce ==
    ASSUME IndInv, NEW n \in Steps, StepEnds(n)
    PROVE  /\ outcome[n] = "none" /\ n \in Started
           /\ \A m \in Steps \ {n} : outcome'[m] = outcome[m]
<1>1. PICK how \in Outcomes \ {"none"} : outcome' = [outcome EXCEPT ![n] = how]
  BY DEF StepEnds
<1>2. n \in running /\ outcome[n] = "none"
  BY DEF StepEnds, IndInv, BatchesInOrder
<1> QED BY <1>1, <1>2 DEF Started, IndInv, TypeOK

\* Outside its steps no outcome changes.
LEMMA OrchestrateKeepsOutcome == Orchestrate \/ StoreChanges => UNCHANGED outcome
BY DEF Orchestrate, StoreChanges, VisitRoot, VisitDependency, Visit, Enter, Skip, Reject, Leave,
       Return, Accept, StartBatch, CollectBatch, Finish, executing, vars

\* Whatever find_patterns returns has a best, or there is no match.
LEMMA BestTyped ==
    ASSUME NEW patterns \in SUBSET Learnable, NEW p \in BestMatch(patterns)
    PROVE  p \in Learnable \cup {NoPattern}
BY DEF BestMatch, Matching

\* The types of what the workflow keeps.
LEMMA WorkflowTypeStep ==
    ASSUME IndInv, WorkflowTypeOK, [WorkflowNext]_<<vars, workflowVars>>
    PROVE  WorkflowTypeOK'
<1> USE DEF WorkflowTypeOK
<1>1. CASE UNCHANGED workflowVars
  BY <1>1 DEF workflowVars, results
<1>2. CASE CheckPatterns
  <2>1. threshold' = threshold /\ known' = known /\ chosen' = chosen
    BY <1>2 DEF CheckPatterns
  <2>2. CASE /\ seen' = known
             /\ \E p \in BestMatch(known) :
                  checked' = [pattern |-> p, should |-> ShouldCorrect(p)]
    <3>1. PICK p \in BestMatch(known) : checked' = [pattern |-> p, should |-> ShouldCorrect(p)]
      BY <2>2
    <3>2. p \in Learnable \cup {NoPattern} /\ ShouldCorrect(p) \in BOOLEAN
      BY <3>1, BestTyped DEF ShouldCorrect
    <3>3. checked' \in [pattern : Learnable \cup {NoPattern}, should : BOOLEAN]
      BY <3>1, <3>2
    <3> QED BY <2>1, <2>2, <3>3
  <2>3. CASE UNCHANGED <<seen, checked>>
    BY <2>1, <2>3
  <2> QED BY <1>2, <2>2, <2>3 DEF CheckPatterns
<1>3. CASE ValidateCorrection
  <2>1. UNCHANGED <<threshold, known, checked, seen>>
    BY <1>3 DEF ValidateCorrection
  <2>2. checked.pattern \in Learnable \cup {NoPattern}
    OBVIOUS
  <2>3. chosen' = Asks \/ (checked.pattern \in Learnable /\
                           chosen' = [tool |-> checked.pattern.to, corrected |-> TRUE])
    BY <1>3, <2>2 DEF ValidateCorrection
  <2>4. chosen' \in Validated
    <3>1. Asks \in Validated
      BY DEF Validated, Asks
    <3>2. checked.pattern \in Learnable =>
            [tool |-> checked.pattern.to, corrected |-> TRUE] \in Validated
      BY DEF Validated
    <3> QED BY <2>3, <3>1, <3>2
  <2> QED BY <2>1, <2>4
<1>4. CASE StoreChanges
  BY <1>4 DEF StoreChanges, results
<1> QED BY <1>1, <1>2, <1>3, <1>4 DEF WorkflowNext, WorkflowStep, Orchestrate, ClassifyIntent,
                                      ExecuteTool

\* Each step reads what the one before it returned, not what it was cancelled with.
LEMMA ChosenStep ==
    ASSUME WorkflowInv, [WorkflowNext]_<<vars, workflowVars>>
    PROVE  CheckedIsBest' /\ ChosenAsChecked'
<1> USE DEF CheckedIsBest, ChosenAsChecked
<1>0. /\ IndInv /\ deps = WorkflowDeps /\ WorkflowTypeOK
      /\ CheckedIsBest /\ ChosenAsChecked
  BY DEF WorkflowInv
<1>1. /\ "classify_intent" \in Steps /\ "check_patterns" \in Steps
      /\ "validate_correction" \in Steps /\ "execute_tool" \in Steps
  BY WorkflowDepsTyped DEF WorkflowSteps
<1>2. CASE UNCHANGED <<outcome, threshold, checked, chosen, seen>>
  BY <1>0, <1>2 DEF ShouldCorrect
<1>3. CASE Orchestrate \/ StoreChanges \/ UNCHANGED <<vars, workflowVars>>
  <2>1. UNCHANGED <<outcome, threshold, checked, chosen, seen>>
    BY <1>3, OrchestrateKeepsOutcome DEF Orchestrate, StoreChanges, workflowVars, results, vars,
                                         executing
  <2> QED BY <1>2, <2>1
<1>4. CASE ClassifyIntent
  <2>1. UNCHANGED <<threshold, checked, chosen, seen>> /\ StepEnds("classify_intent")
    BY <1>4 DEF ClassifyIntent, workflowVars, results
  <2>2. \A m \in Steps \ {"classify_intent"} : outcome'[m] = outcome[m]
    BY <1>0, <1>1, <2>1, EndsOnce
  <2> QED BY <1>0, <1>1, <2>1, <2>2 DEF ShouldCorrect
<1>5. CASE CheckPatterns
  <2>1. UNCHANGED <<threshold, chosen>> /\ StepEnds("check_patterns")
    BY <1>5 DEF CheckPatterns
  <2>2. /\ outcome["check_patterns"] = "none"
        /\ \A m \in Steps \ {"check_patterns"} : outcome'[m] = outcome[m]
    BY <1>0, <1>1, <2>1, EndsOnce
  <2>3. outcome'["validate_correction"] # "ok" /\ outcome'["execute_tool"] # "ok"
    BY <1>0, <1>1, <2>2
  <2>4. CheckedIsBest'
    <3>1. CASE /\ seen' = known
               /\ \E p \in BestMatch(known) :
                    checked' = [pattern |-> p, should |-> ShouldCorrect(p)]
      <4>1. PICK p \in BestMatch(known) : checked' = [pattern |-> p, should |-> ShouldCorrect(p)]
        BY <3>1
      <4>2. checked'.pattern = p /\ checked'.should = ShouldCorrect(p)
        BY <4>1
      <4>3. ShouldCorrect(p)' = ShouldCorrect(p)
        BY <2>1 DEF ShouldCorrect
      <4> QED BY <2>1, <3>1, <4>1, <4>2 DEF ShouldCorrect
    <3>2. CASE outcome'["check_patterns"] # "ok" /\ UNCHANGED <<seen, checked>>
      BY <1>0, <3>2
    <3> QED BY <1>5, <3>1, <3>2 DEF CheckPatterns
  <2> QED BY <2>3, <2>4
<1>6. CASE ValidateCorrection
  <2>1. UNCHANGED <<threshold, checked, seen>> /\ StepEnds("validate_correction")
    BY <1>6 DEF ValidateCorrection
  <2>2. /\ outcome["validate_correction"] = "none" /\ "validate_correction" \in Started
        /\ \A m \in Steps \ {"validate_correction"} : outcome'[m] = outcome[m]
    BY <1>0, <1>1, <2>1, EndsOnce
  <2>3. outcome'["execute_tool"] # "ok"
    BY <1>0, <1>1, <2>2
  <2>4. outcome["check_patterns"] \in {"ok", "cancelled"}
    <3>1. "check_patterns" \in deps["validate_correction"]
      BY <1>0, <1>1 DEF WorkflowDeps
    <3> QED BY <1>0, <2>2, <3>1 DEF IndInv, DependenciesFirst
  <2>5. outcome'["validate_correction"] = "ok" =>
          /\ outcome'["check_patterns"] = "ok"
          /\ chosen' = IF checked.should /\ checked.pattern # NoPattern
                       THEN [tool |-> checked.pattern.to, corrected |-> TRUE] ELSE Asks
    BY <1>1, <1>6, <2>2, <2>4 DEF ValidateCorrection, Reads
  <2>6. CheckedIsBest'
    BY <1>0, <1>1, <2>1, <2>2 DEF ShouldCorrect
  <2> QED BY <2>1, <2>3, <2>5, <2>6
<1>7. CASE ExecuteTool
  <2>1. UNCHANGED <<threshold, checked, chosen, seen>> /\ StepEnds("execute_tool")
    BY <1>7 DEF ExecuteTool, workflowVars, results
  <2>2. /\ "execute_tool" \in Started
        /\ \A m \in Steps \ {"execute_tool"} : outcome'[m] = outcome[m]
    BY <1>0, <1>1, <2>1, EndsOnce
  <2>3. outcome["validate_correction"] \in {"ok", "cancelled"}
    <3>1. "validate_correction" \in deps["execute_tool"]
      BY <1>0, <1>1 DEF WorkflowDeps
    <3> QED BY <1>0, <2>2, <3>1 DEF IndInv, DependenciesFirst
  <2>4. outcome'["execute_tool"] = "ok" => outcome'["validate_correction"] = "ok"
    BY <1>1, <1>7, <2>2, <2>3 DEF ExecuteTool, Reads
  <2> QED BY <1>0, <1>1, <2>1, <2>2, <2>4 DEF ShouldCorrect
<1> QED BY <1>3, <1>4, <1>5, <1>6, <1>7 DEF WorkflowNext, WorkflowStep

\* The best of the patterns all score the same: if one reaches the threshold they do.
LEMMA BestScoreAlike ==
    ASSUME NEW patterns \in SUBSET Learnable, NEW p \in BestMatch(patterns),
           NEW q \in BestMatch(patterns)
    PROVE  (p = NoPattern <=> q = NoPattern) /\ (p # NoPattern => p.score = q.score)
<1>1. CASE Matching(patterns) = {}
  BY <1>1 DEF BestMatch
<1>2. CASE Matching(patterns) # {}
  <2>1. /\ p \in Learnable /\ q \in Learnable
        /\ p.score <= q.score /\ q.score <= p.score
    BY <1>2 DEF BestMatch, Matching
  <2>2. p.score \in Nat /\ q.score \in Nat /\ p # NoPattern /\ q # NoPattern
    BY <2>1, LearnableAssumption
  <2> QED BY <2>1, <2>2
<1> QED BY <1>1, <1>2

-----------------------------------------------------------------------------
(* Theorems about the workflow *)

LEMMA WorkflowInitInv == WorkflowInit => WorkflowInv
<1> SUFFICES ASSUME WorkflowInit PROVE WorkflowInv
  OBVIOUS
<1>1. IndInv /\ deps = WorkflowDeps
  BY InitInv DEF WorkflowInit
<1>2. WorkflowTypeOK
  BY DEF WorkflowInit, WorkflowLocals, WorkflowTypeOK, Validated, Asks
<1>3. Accepted
  BY DEF WorkflowInit, Init, Accepted
<1>4. \A n \in WorkflowSteps : outcome[n] = "none"
  BY WorkflowDepsTyped DEF WorkflowInit, Init
<1>5. CheckedIsBest
  <2>1. BestMatch(seen) = {NoPattern} /\ checked.pattern = NoPattern
    BY DEF WorkflowInit, WorkflowLocals, BestMatch, Matching
  <2> QED BY <1>4, <2>1 DEF CheckedIsBest, WorkflowSteps
<1>6. ChosenAsChecked
  BY <1>4 DEF ChosenAsChecked, WorkflowSteps
<1> QED BY <1>1, <1>2, <1>3, <1>5, <1>6 DEF WorkflowInv

LEMMA WorkflowNextInv == WorkflowInv /\ [WorkflowNext]_<<vars, workflowVars>> => WorkflowInv'
<1> SUFFICES ASSUME WorkflowInv, [WorkflowNext]_<<vars, workflowVars>> PROVE WorkflowInv'
  OBVIOUS
<1>1. IndInv /\ deps = WorkflowDeps /\ WorkflowTypeOK /\ Accepted
  BY DEF WorkflowInv
<1>2. [Next]_vars
  BY WorkflowStepsOrchestrate
<1>3. IndInv'
  BY <1>1, <1>2, NextInv
<1>4. deps' = WorkflowDeps /\ Accepted'
  BY <1>1, <1>2, <1>3, AcceptedStep
<1>5. WorkflowTypeOK'
  BY <1>1, WorkflowTypeStep
<1>6. CheckedIsBest' /\ ChosenAsChecked'
  BY ChosenStep
<1>7. (deps = WorkflowDeps)'
  BY <1>4 DEF WorkflowDeps
<1> QED BY <1>3, <1>4, <1>5, <1>6, <1>7 DEF WorkflowInv

\* In every state the workflow looked only at what its steps have returned, and the
\* pattern it means to run is the best one it was given.
THEOREM WorkflowInvariance == WorkflowSpec => []WorkflowInv
BY WorkflowInitInv, WorkflowNextInv, PTL DEF WorkflowSpec

\* CLEPredictiveDispatchWorkflow is one of the orchestrator's workflows: each of its
\* steps is one of the orchestrator's or leaves it alone.  What is proved of every
\* workflow above holds for it, while patterns come and go and its steps pass on
\* their results.
THEOREM WorkflowImplements == WorkflowSpec => Spec
<1>1. WorkflowInit => Init
  BY DEF WorkflowInit
<1> QED BY <1>1, WorkflowStepsOrchestrate, PTL DEF WorkflowSpec, Spec

\* So it keeps what OrderedWorkflow promises as well: the result a step of the CLE looks
\* up is in before the step starts.
THEOREM WorkflowKeepsOrder == WorkflowSpec => ImplementsOrdered
BY WorkflowImplements, OrchestratorImplements, PTL

\* The constructor of the CLE's workflow never raises, and its execute only when one
\* of the steps does.
THEOREM WorkflowAccepted == WorkflowSpec => []Accepted
BY WorkflowInvariance, PTL DEF WorkflowInv

\* A workflow that ends well ran the best of the patterns that find_patterns returned,
\* if its score reaches the threshold, and what was asked for otherwise: a step that
\* was cancelled, which gather hands on like a result, never decides.
THEOREM CorrectsTheBest == WorkflowSpec => []CorrectsIffConfident
<1>1. WorkflowInv => CorrectsIffConfident
  <2> DEFINE confident == {p \in BestMatch(seen) \ {NoPattern} : p.score >= threshold}
  <2> SUFFICES ASSUME WorkflowInv, outcome["execute_tool"] = "ok"
               PROVE  IF confident = {} THEN chosen = Asks
                      ELSE chosen \in {[tool |-> p.to, corrected |-> TRUE] : p \in confident}
    BY DEF CorrectsIffConfident
  <2>1. /\ chosen = IF checked.should /\ checked.pattern # NoPattern
                    THEN [tool |-> checked.pattern.to, corrected |-> TRUE] ELSE Asks
        /\ checked.should = ShouldCorrect(checked.pattern)
        /\ checked.pattern \in BestMatch(seen) /\ seen \in SUBSET Learnable
    BY DEF WorkflowInv, ChosenAsChecked, CheckedIsBest, WorkflowTypeOK
  <2>2. CASE checked.pattern = NoPattern
    <3>1. confident = {}
      BY <2>1, <2>2, BestScoreAlike
    <3> QED BY <2>1, <2>2, <3>1
  <2>3. CASE checked.pattern # NoPattern /\ ShouldCorrect(checked.pattern)
    <3>1. checked.pattern \in confident
      BY <2>1, <2>3 DEF ShouldCorrect, ScoreOf
    <3> QED BY <2>1, <2>3, <3>1
  <2>4. CASE checked.pattern # NoPattern /\ ~ShouldCorrect(checked.pattern)
    <3>1. ASSUME NEW q \in confident PROVE FALSE
      <4>1. q.score = checked.pattern.score /\ q.score >= threshold
        BY <2>1, <2>4, <3>1, BestScoreAlike
      <4> QED BY <2>4, <4>1 DEF ShouldCorrect, ScoreOf
    <3>2. confident = {} /\ chosen = Asks
      BY <2>1, <2>4, <3>1
    <3> QED BY <3>2
  <2> QED BY <2>2, <2>3, <2>4
<1> QED BY <1>1, WorkflowInvariance, PTL

-----------------------------------------------------------------------------
(* Recursion on a measure *)

\* G has what all that measures less is in G of.
Grows(G, D, m) == \A x \in D : (\A y \in D : m[y] < m[x] => y \in G) => x \in G

\* Induction on a measure, for a set.
LEMMA ByMeasure ==
    ASSUME NEW D, NEW m \in [D -> Nat], NEW G, Grows(G, D, m)
    PROVE  D \subseteq G
<1> DEFINE B == D \ G
<1> SUFFICES ASSUME B # {} PROVE FALSE
  OBVIOUS
<1>1. \A x \in B : m[x] \in Nat
  OBVIOUS
<1>2. PICK x \in B : \A y \in B : ~(m[y] < m[x])
  <2> HIDE DEF B
  <2> QED BY <1>1, LeastFound
<1> QED BY <1>2 DEF Grows

\* g and h agree on what measures less than x.
AgreeBelow(g, h, D, m, x) == \A y \in D : m[y] < m[x] => g[y] = h[y]

\* E[g] is g where the measure is below n.
FixedBelow(g, E, D, m, n) == \A x \in D : m[x] < n => E[g][x] = g[x]

\* What E says of x depends on what measures less only.
Contracts(E, D, R, m) ==
    \A g, h \in [D -> R], x \in D : AgreeBelow(g, h, D, m, x) => E[g][x] = E[h][x]

\* What is fixed below a bound is determined there.
LEMMA FixedOnce ==
    ASSUME NEW D, NEW R, NEW m \in [D -> Nat], NEW E, Contracts(E, D, R, m),
           NEW g \in [D -> R], NEW h \in [D -> R], NEW n \in Nat, NEW k \in Nat,
           FixedBelow(g, E, D, m, n), FixedBelow(h, E, D, m, k)
    PROVE  \A x \in D : m[x] < n /\ m[x] < k => g[x] = h[x]
<1> DEFINE B == {x \in D : m[x] < n /\ m[x] < k /\ g[x] # h[x]}
<1> SUFFICES ASSUME B # {} PROVE FALSE
  OBVIOUS
<1>1. \A x \in B : m[x] \in Nat
  OBVIOUS
<1>2. PICK x \in B : \A y \in B : ~(m[y] < m[x])
  <2> HIDE DEF B
  <2> QED BY <1>1, LeastFound
<1>3. AgreeBelow(g, h, D, m, x)
  BY <1>2 DEF AgreeBelow
<1>4. E[g][x] = E[h][x]
  BY <1>3 DEF Contracts
<1> QED BY <1>4 DEF FixedBelow

\* E defines functions from D to R by recursion on the measure m.
Recursive(E, D, R, m) ==
    R # {} /\ m \in [D -> Nat] /\ E \in [[D -> R] -> [D -> R]] /\ Contracts(E, D, R, m)

\* Such a definition has a function that satisfies it.
LEMMA Recursion ==
    ASSUME NEW D, NEW R, NEW m, NEW E, Recursive(E, D, R, m)
    PROVE  \E g \in [D -> R] : g = E[g]
<1> USE DEF Recursive
<1>1. \A n \in Nat : \E g \in [D -> R] : FixedBelow(g, E, D, m, n)
  <2> DEFINE B == {n \in Nat : ~ \E g \in [D -> R] : FixedBelow(g, E, D, m, n)}
  <2> SUFFICES ASSUME B # {} PROVE FALSE
    OBVIOUS
  <2>1. PICK n \in B : \A k \in B : ~(k < n)
    <3> DEFINE same == [k \in B |-> k]
    <3>1. \A k \in B : same[k] \in Nat /\ same[k] = k
      OBVIOUS
    <3> HIDE DEF same, B
    <3>2. \E n \in B : \A k \in B : ~(same[k] < same[n])
      BY <3>1, LeastFound
    <3> QED BY <3>1, <3>2
  <2>2. n # 0
    <3>1. PICK r \in R : TRUE
      OBVIOUS
    <3>2. [x \in D |-> r] \in [D -> R]
      OBVIOUS
    <3>3. FixedBelow([x \in D |-> r], E, D, m, 0)
      BY DEF FixedBelow
    <3> QED BY <3>2, <3>3
  <2>3. n - 1 \in Nat /\ n - 1 \notin B
    BY <2>1, <2>2
  <2>4. PICK g \in [D -> R] : FixedBelow(g, E, D, m, n - 1)
    BY <2>3
  <2>5. E[g] \in [D -> R]
    OBVIOUS
  <2>6. ASSUME NEW x \in D, m[x] < n PROVE E[E[g]][x] = E[g][x]
    <3>1. m[x] \in Nat /\ \A y \in D : m[y] \in Nat
      OBVIOUS
    <3>2. AgreeBelow(E[g], g, D, m, x)
      BY <2>4, <2>6, <3>1 DEF AgreeBelow, FixedBelow
    <3> QED BY <2>5, <3>2 DEF Contracts
  <2> QED BY <2>5, <2>6 DEF FixedBelow
<1> DEFINE upto(n) == CHOOSE g \in [D -> R] : FixedBelow(g, E, D, m, n)
           glued == [x \in D |-> upto(m[x] + 1)[x]]
<1>2. \A n \in Nat : upto(n) \in [D -> R] /\ FixedBelow(upto(n), E, D, m, n)
  BY <1>1
<1>3. \A x \in D : m[x] \in Nat /\ m[x] + 1 \in Nat
  OBVIOUS
<1> HIDE DEF upto
<1>4. glued \in [D -> R]
  BY <1>2, <1>3
<1>5. ASSUME NEW x \in D PROVE E[glued][x] = glued[x]
  <2> DEFINE g == upto(m[x] + 1)
  <2>1. g \in [D -> R] /\ FixedBelow(g, E, D, m, m[x] + 1)
    BY <1>2, <1>3
  <2>2. ASSUME NEW y \in D, m[y] < m[x] PROVE glued[y] = g[y]
    <3> DEFINE h == upto(m[y] + 1)
    <3>1. h \in [D -> R] /\ FixedBelow(h, E, D, m, m[y] + 1)
      BY <1>2, <1>3
    <3>2. m[y] < m[y] + 1 /\ m[y] < m[x] + 1
      BY <1>3, <2>2
    <3>3. glued[y] = h[y]
      OBVIOUS
    <3> HIDE DEF g, h
    <3> DEFINE i == m[x] + 1
               j == m[y] + 1
    <3>4. /\ i \in Nat /\ FixedBelow(g, E, D, m, i)
          /\ j \in Nat /\ FixedBelow(h, E, D, m, j)
          /\ m[y] < i /\ m[y] < j
      BY <1>3, <2>1, <3>1, <3>2
    <3> HIDE DEF i, j
    <3>5. \A z \in D : m[z] < j /\ m[z] < i => h[z] = g[z]
      BY <2>1, <3>1, <3>4, FixedOnce
    <3> QED BY <3>3, <3>4, <3>5
  <2>3. glued[x] = g[x]
    OBVIOUS
  <2> HIDE DEF g, glued
  <2>4. AgreeBelow(glued, g, D, m, x)
    BY <2>2 DEF AgreeBelow
  <2>5. E[glued][x] = E[g][x]
    BY <1>4, <2>1, <2>4 DEF Contracts
  <2>6. E[g][x] = g[x]
    BY <1>3, <2>1 DEF FixedBelow
  <2> QED BY <2>3, <2>5, <2>6
<1>6. E[glued] \in [D -> R]
  BY <1>4
<1>7. glued = E[glued]
  <2> HIDE DEF glued
  <2> QED BY <1>4, <1>5, <1>6
<1> QED BY <1>4, <1>7

-----------------------------------------------------------------------------
(* Lists put one after another *)

\* The members of the lists up to the i-th.
Members(seqs, i) == UNION {ToSet(seqs[j]) : j \in 1 .. i}

LEMMA ToSetConcat ==
    ASSUME NEW S, NEW s \in Seq(S), NEW t \in Seq(S)
    PROVE  ToSet(s \o t) = ToSet(s) \cup ToSet(t)
<1>1. /\ s \o t \in Seq(S) /\ Len(s \o t) = Len(s) + Len(t)
      /\ \A i \in 1 .. Len(s) + Len(t) : (s \o t)[i] = IF i <= Len(s) THEN s[i] ELSE t[i - Len(s)]
  BY ConcatProperties
<1>2. ASSUME NEW x \in ToSet(s \o t) PROVE x \in ToSet(s) \cup ToSet(t)
  <2>1. PICK i \in 1 .. Len(s) + Len(t) : x = (s \o t)[i]
    BY <1>1 DEF ToSet
  <2> QED BY <1>1, <2>1 DEF ToSet
<1>3. ASSUME NEW x \in ToSet(s) PROVE x \in ToSet(s \o t)
  <2>1. PICK i \in 1 .. Len(s) : x = s[i]
    BY DEF ToSet
  <2> QED BY <1>1, <2>1 DEF ToSet
<1>4. ASSUME NEW x \in ToSet(t) PROVE x \in ToSet(s \o t)
  <2>1. PICK i \in 1 .. Len(t) : x = t[i]
    BY DEF ToSet
  <2>2. Len(s) + i \in 1 .. Len(s) + Len(t) /\ ~(Len(s) + i <= Len(s)) /\ Len(s) + i - Len(s) = i
    OBVIOUS
  <2>3. (s \o t)[Len(s) + i] = x
    BY <1>1, <2>1, <2>2
  <2> QED BY <1>1, <2>2, <2>3 DEF ToSet
<1> QED BY <1>2, <1>3, <1>4

\* FlattenSeq is the last of the lists it builds one from another.
LEMMA FlattenUnfolds ==
    ASSUME NEW seqs, NEW n \in Nat \ {0}, Len(seqs) = n
    PROVE  FlattenSeq(seqs) = (CHOOSE f : f = [i \in 1 .. n |->
             IF i = 1 THEN seqs[i] ELSE f[i - 1] \o seqs[i]])[n]
<1>1. FlattenSeq(seqs) = IF Len(seqs) = 0 THEN seqs ELSE (CHOOSE f : f = [i \in 1 .. Len(seqs) |->
             IF i = 1 THEN seqs[i] ELSE f[i - 1] \o seqs[i]])[Len(seqs)]
  BY Zenon DEF FlattenSeq
<1>2. Len(seqs) # 0
  OBVIOUS
<1> QED BY Zenon, <1>1, <1>2

\* FlattenSeq of lists of S is a list of S with their members.
LEMMA Flattened ==
    ASSUME NEW S, NEW n \in Nat, NEW seqs \in [1 .. n -> Seq(S)]
    PROVE  /\ FlattenSeq(seqs) \in Seq(S)
           /\ ToSet(FlattenSeq(seqs)) = UNION {ToSet(seqs[i]) : i \in 1 .. n}
<1>1. Len(seqs) = n
  OBVIOUS
<1>2. CASE n = 0
  <2>1. FlattenSeq(seqs) = seqs /\ seqs = <<>>
    BY <1>1, <1>2 DEF FlattenSeq
  <2> QED BY <1>2, <2>1 DEF ToSet
<1>3. CASE n # 0
  <2> DEFINE D == 1 .. n
             R == Seq(S)
             m == [i \in D |-> i]
             at(g, i) == IF i = 1 THEN seqs[i] ELSE g[i - 1] \o seqs[i]
             E == [g \in [D -> R] |-> [i \in D |-> at(g, i)]]
             f == CHOOSE g : g = [i \in D |-> at(g, i)]
  <2>1. ASSUME NEW g \in [D -> R], NEW i \in D PROVE at(g, i) \in R
    <3>1. CASE i = 1
      BY <3>1
    <3>2. CASE i # 1
      <4>1. i - 1 \in D
        BY <3>2
      <4>2. g[i - 1] \in Seq(S) /\ seqs[i] \in Seq(S)
        BY <4>1
      <4>3. g[i - 1] \o seqs[i] \in Seq(S)
        BY <4>2, ConcatProperties
      <4> QED BY <3>2, <4>3
    <3> QED BY <3>1, <3>2
  <2>2. ASSUME NEW g, NEW h, NEW i \in D, AgreeBelow(g, h, D, m, i) PROVE at(g, i) = at(h, i)
    <3>1. CASE i = 1
      BY <3>1
    <3>2. CASE i # 1
      <4>1. i - 1 \in D /\ m[i - 1] < m[i]
        BY <3>2
      <4>2. g[i - 1] = h[i - 1]
        BY <2>2, <4>1 DEF AgreeBelow
      <4> QED BY <3>2, <4>2
    <3> QED BY <3>1, <3>2
  <2>3. m \in [D -> Nat] /\ R # {}
    <3>1. seqs[1] \in R
      BY <1>3
    <3> QED BY <3>1
  <2> HIDE DEF at
  <2>4. E \in [[D -> R] -> [D -> R]]
    BY <2>1
  <2>5. Contracts(E, D, R, m)
    <3> SUFFICES ASSUME NEW g \in [D -> R], NEW h \in [D -> R], NEW i \in D, AgreeBelow(g, h, D, m, i)
                 PROVE  E[g][i] = E[h][i]
      BY DEF Contracts
    <3>1. at(g, i) = at(h, i)
      <4> HIDE DEF m
      <4> QED BY <2>2
    <3> QED BY <3>1
  <2>6. PICK g \in [D -> R] : g = E[g]
    <3>1. Recursive(E, D, R, m)
      BY <2>3, <2>4, <2>5 DEF Recursive
    <3> HIDE DEF D, R, m, E, f
    <3>2. \E g \in [D -> R] : g = E[g]
      BY <3>1, Recursion
    <3> QED BY <3>2
  <2>7. g = [i \in D |-> at(g, i)]
    BY <2>6
  <2>8. f = [i \in D |-> at(f, i)]
    <3> DEFINE is(h) == h = [i \in D |-> at(h, i)]
    <3>1. is(g)
      BY <2>7
    <3>2. f = CHOOSE h : is(h)
      OBVIOUS
    <3> HIDE DEF is, f
    <3>3. is(f)
      BY <3>1, <3>2
    <3> QED BY <3>3 DEF is
  <2>9. FlattenSeq(seqs) = f[n]
    <3>1. n \in Nat \ {0}
      BY <1>3
    <3> QED BY Zenon, <1>1, <3>1, FlattenUnfolds DEF at
  <2> HIDE DEF f, E
  <2>10. f = g
    <3> DEFINE B == {i \in D : f[i] # g[i]}
    <3> SUFFICES ASSUME B # {} PROVE FALSE
      BY <2>7, <2>8
    <3>1. \A i \in B : m[i] \in Nat
      OBVIOUS
    <3>2. PICK i \in B : \A j \in B : ~(m[j] < m[i])
      <4> HIDE DEF B, m
      <4> QED BY <3>1, LeastFound
    <3>3. AgreeBelow(f, g, D, m, i)
      <4> HIDE DEF m
      <4> QED BY <3>2 DEF AgreeBelow
    <3>4. at(f, i) = at(g, i)
      <4> HIDE DEF m
      <4> QED BY <2>2, <3>3
    <3> QED BY <2>7, <2>8, <3>4
  <2>11. \A i \in D : ToSet(f[i]) = Members(seqs, i)
    <3> DEFINE B == {i \in D : ToSet(f[i]) # Members(seqs, i)}
    <3> SUFFICES ASSUME B # {} PROVE FALSE
      OBVIOUS
    <3>1. \A i \in B : m[i] \in Nat
      OBVIOUS
    <3>2. PICK i \in B : \A j \in B : ~(m[j] < m[i])
      <4> HIDE DEF B, m
      <4> QED BY <3>1, LeastFound
    <3>3. f[i] = at(f, i)
      BY <2>8
    <3>4. CASE i = 1
      <4>1. f[i] = seqs[i]
        BY <3>3, <3>4 DEF at
      <4> QED BY <3>2, <3>4, <4>1 DEF Members
    <3>5. CASE i # 1
      <4>1. i - 1 \in D /\ m[i - 1] < m[i] /\ i - 1 \notin B
        BY <3>2, <3>5
      <4>2. ToSet(f[i - 1]) = Members(seqs, i - 1)
        BY <4>1
      <4>3. f[i] = f[i - 1] \o seqs[i]
        BY <3>3, <3>5 DEF at
      <4>4. f[i - 1] \in Seq(S) /\ seqs[i] \in Seq(S)
        BY <2>10, <4>1
      <4>5. ToSet(f[i]) = ToSet(f[i - 1]) \cup ToSet(seqs[i])
        BY <4>3, <4>4, ToSetConcat
      <4>6. 1 .. i = 1 .. i - 1 \cup {i}
        OBVIOUS
      <4>7. Members(seqs, i) = Members(seqs, i - 1) \cup ToSet(seqs[i])
        <5> HIDE DEF B, D
        <5> QED BY <4>6 DEF Members
      <4> QED BY <3>2, <4>2, <4>5, <4>7
    <3> QED BY <3>4, <3>5
  <2>12. n \in D /\ f[n] \in Seq(S)
    BY <1>3, <2>10
  <2> QED BY <2>9, <2>11, <2>12 DEF Members
<1> QED BY <1>2, <1>3

-----------------------------------------------------------------------------
(* Lists rearranged *)

\* s has what t has, in another order.
Rearranges(s, t) ==
    /\ DOMAIN s = DOMAIN t
    /\ \E p \in Bijection(DOMAIN t, DOMAIN t) : \A i \in DOMAIN t : s[i] = t[p[i]]

LEMMA RearrangesItself == ASSUME NEW s PROVE Rearranges(s, s)
<1> DEFINE p == [i \in DOMAIN s |-> i]
<1>1. p \in Bijection(DOMAIN s, DOMAIN s)
  BY DEF Bijection, Injection, Surjection, IsInjective
<1>2. \A i \in DOMAIN s : s[i] = s[p[i]]
  OBVIOUS
<1> HIDE DEF p
<1> QED BY <1>1, <1>2 DEF Rearranges

LEMMA RearrangesTwice ==
    ASSUME NEW s, NEW t, NEW u, Rearranges(s, t), Rearranges(t, u)
    PROVE  Rearranges(s, u)
<1> DEFINE D == DOMAIN u
<1>1. DOMAIN s = D /\ DOMAIN t = D
  BY DEF Rearranges
<1>2. PICK p \in Bijection(D, D) : \A i \in D : s[i] = t[p[i]]
  BY <1>1 DEF Rearranges
<1>3. PICK q \in Bijection(D, D) : \A i \in D : t[i] = u[q[i]]
  BY <1>1 DEF Rearranges
<1> HIDE DEF D
<1>4. /\ p \in [D -> D] /\ \A a, b \in D : p[a] = p[b] => a = b
      /\ \A b \in D : \E a \in D : p[a] = b
  BY DEF Bijection, Injection, Surjection, IsInjective
<1>5. /\ q \in [D -> D] /\ \A a, b \in D : q[a] = q[b] => a = b
      /\ \A b \in D : \E a \in D : q[a] = b
  BY DEF Bijection, Injection, Surjection, IsInjective
<1> DEFINE r == [i \in D |-> q[p[i]]]
<1>6. r \in [D -> D] /\ \A a, b \in D : r[a] = r[b] => a = b
  BY <1>4, <1>5
<1>7. ASSUME NEW b \in D PROVE \E a \in D : r[a] = b
  <2>1. PICK c \in D : q[c] = b
    BY <1>5
  <2>2. PICK a \in D : p[a] = c
    BY <1>4
  <2> QED BY <2>1, <2>2
<1>8. \A i \in D : s[i] = u[r[i]]
  BY <1>2, <1>3, <1>4
<1> HIDE DEF r
<1>9. r \in Bijection(D, D)
  BY <1>6, <1>7 DEF Bijection, Injection, Surjection, IsInjective
<1> QED BY <1>1, <1>8, <1>9 DEF Rearranges, D

\* What is left of a list when its i-th is taken out.
LEMMA Removed ==
    ASSUME NEW S, NEW r \in Seq(S), NEW i \in 1 .. Len(r)
    PROVE  /\ RemoveAt(r, i) \in Seq(S) /\ Len(RemoveAt(r, i)) = Len(r) - 1
           /\ \A j \in 1 .. Len(r) - 1 : RemoveAt(r, i)[j] = IF j < i THEN r[j] ELSE r[j + 1]
<1> DEFINE k == Len(r)
           a == SubSeq(r, 1, i - 1)
           b == SubSeq(r, i + 1, k)
<1>1. k \in Nat /\ i \in 1 .. k /\ \A j \in 1 .. k : r[j] \in S
  OBVIOUS
<1> HIDE DEF k
<1>2. /\ a \in Seq(S) /\ Len(a) = IF 1 <= i - 1 THEN i - 1 - 1 + 1 ELSE 0
      /\ \A j \in 1 .. i - 1 - 1 + 1 : a[j] = r[1 + j - 1]
  <2>1. 1 \in Int /\ i - 1 \in Int /\ \A j \in 1 .. i - 1 : r[j] \in S
    BY <1>1
  <2> QED BY <2>1, SubSeqProperties
<1>3. /\ b \in Seq(S) /\ Len(b) = IF i + 1 <= k THEN k - (i + 1) + 1 ELSE 0
      /\ \A j \in 1 .. k - (i + 1) + 1 : b[j] = r[i + 1 + j - 1]
  <2>1. i + 1 \in Int /\ k \in Int /\ \A j \in i + 1 .. k : r[j] \in S
    BY <1>1
  <2> QED BY <2>1, SubSeqProperties
<1> HIDE DEF a, b
<1>4. Len(a) = i - 1 /\ \A j \in 1 .. i - 1 : a[j] = r[j]
  BY <1>1, <1>2
<1>5. Len(b) = k - i /\ \A j \in 1 .. k - i : b[j] = r[i + j]
  BY <1>1, <1>3
<1>6. /\ a \o b \in Seq(S) /\ Len(a \o b) = Len(a) + Len(b)
      /\ \A j \in 1 .. Len(a) + Len(b) : (a \o b)[j] = IF j <= Len(a) THEN a[j] ELSE b[j - Len(a)]
  BY <1>2, <1>3, ConcatProperties
<1>7. ASSUME NEW j \in 1 .. k - 1 PROVE (a \o b)[j] = IF j < i THEN r[j] ELSE r[j + 1]
  <2>1. (a \o b)[j] = IF j <= i - 1 THEN a[j] ELSE b[j - (i - 1)]
    BY <1>1, <1>4, <1>5, <1>6
  <2>2. CASE j < i
    BY <1>1, <1>4, <2>1, <2>2
  <2>3. CASE ~(j < i)
    <3>1. j - (i - 1) \in 1 .. k - i /\ i + (j - (i - 1)) = j + 1 /\ ~(j <= i - 1)
      BY <1>1, <2>3
    <3> QED BY <1>5, <2>1, <2>3, <3>1
  <2> QED BY <2>2, <2>3
<1>8. Len(a \o b) = k - 1
  BY <1>1, <1>4, <1>5, <1>6
<1> QED BY <1>6, <1>7, <1>8 DEF RemoveAt, a, b, k

\* A chain with the next tool, and what is left then.
LEMMA MovedOn ==
    ASSUME NEW S, NEW c \in Seq(S), NEW r \in Seq(S), NEW i \in 1 .. Len(r)
    PROVE  Rearranges(Append(c, r[i]) \o RemoveAt(r, i), c \o r)
<1> DEFINE n == Len(c)
           k == Len(r)
           c1 == Append(c, r[i])
           r1 == RemoveAt(r, i)
           s == c1 \o r1
           t == c \o r
           p == [j \in 1 .. n + k |-> IF j <= n THEN j ELSE IF j = n + 1 THEN n + i
                                      ELSE IF j - n - 1 < i THEN j - 1 ELSE j]
<1>1. n \in Nat /\ k \in Nat /\ i \in 1 .. k /\ r[i] \in S
  OBVIOUS
<1>2. c1 \in Seq(S) /\ Len(c1) = n + 1 /\ c1[n + 1] = r[i] /\ \A j \in 1 .. n : c1[j] = c[j]
  BY <1>1, AppendProperties
<1>3. /\ r1 \in Seq(S) /\ Len(r1) = k - 1
      /\ \A j \in 1 .. k - 1 : r1[j] = IF j < i THEN r[j] ELSE r[j + 1]
  BY Removed
<1>4. /\ t \in Seq(S) /\ Len(t) = n + k
      /\ \A j \in 1 .. n + k : t[j] = IF j <= n THEN c[j] ELSE r[j - n]
  BY ConcatProperties
<1> HIDE DEF c1, r1, n, k
<1>5. /\ s \in Seq(S) /\ Len(s) = Len(c1) + Len(r1)
      /\ \A j \in 1 .. Len(c1) + Len(r1) : s[j] = IF j <= Len(c1) THEN c1[j] ELSE r1[j - Len(c1)]
  BY <1>2, <1>3, ConcatProperties
<1>6. Len(s) = n + k /\ \A j \in 1 .. n + k : s[j] = IF j <= n + 1 THEN c1[j] ELSE r1[j - (n + 1)]
  BY <1>1, <1>2, <1>3, <1>5
<1> HIDE DEF s, t
<1>7. \A j \in 1 .. n + k : p[j] \in 1 .. n + k
  BY <1>1
<1>8. \A a, b \in 1 .. n + k : p[a] = p[b] => a = b
  BY <1>1
<1>9. ASSUME NEW b \in 1 .. n + k PROVE \E a \in 1 .. n + k : p[a] = b
  <2>1. CASE b <= n
    BY <1>1, <2>1
  <2>2. CASE b > n /\ b < n + i
    <3>1. b + 1 \in 1 .. n + k /\ p[b + 1] = b
      BY <1>1, <2>2
    <3> QED BY <3>1
  <2>3. CASE b = n + i
    <3>1. n + 1 \in 1 .. n + k /\ p[n + 1] = b
      BY <1>1, <2>3
    <3> QED BY <3>1
  <2>4. CASE b > n + i
    BY <1>1, <2>4
  <2> QED BY <1>1, <2>1, <2>2, <2>3, <2>4
<1>10. ASSUME NEW j \in 1 .. n + k PROVE s[j] = t[p[j]]
  <2>1. CASE j <= n
    BY <1>1, <1>2, <1>4, <1>6, <2>1
  <2>2. CASE j = n + 1
    <3>1. n + i \in 1 .. n + k /\ p[j] = n + i /\ ~(n + i <= n) /\ n + i - n = i
      BY <1>1, <2>2
    <3> HIDE DEF p
    <3> DEFINE l == n + i
    <3>2. l \in 1 .. n + k /\ p[j] = l /\ ~(l <= n) /\ l - n = i
      BY <1>1, <3>1
    <3> HIDE DEF l
    <3>3. t[l] = r[i]
      BY <1>4, <3>2
    <3> QED BY <1>1, <1>2, <1>6, <2>2, <3>2, <3>3
  <2>3. CASE j > n + 1
    <3>1. j - (n + 1) \in 1 .. k - 1
      BY <1>1, <2>3
    <3>2. s[j] = IF j - (n + 1) < i THEN r[j - (n + 1)] ELSE r[j - (n + 1) + 1]
      <4>1. s[j] = r1[j - (n + 1)]
        BY <1>1, <1>6, <2>3
      <4> QED BY <1>3, <3>1, <4>1
    <3>3. CASE j - (n + 1) < i
      <4>1. p[j] = j - 1 /\ ~(j - 1 <= n) /\ j - 1 - n = j - (n + 1)
        BY <1>1, <2>3, <3>3
      <4>2. t[p[j]] = r[j - (n + 1)]
        BY <1>4, <1>7, <4>1
      <4> QED BY <3>2, <3>3, <4>2
    <3>4. CASE ~(j - (n + 1) < i)
      <4>1. p[j] = j /\ ~(j <= n) /\ j - n = j - (n + 1) + 1
        BY <1>1, <2>3, <3>4
      <4>2. t[p[j]] = r[j - (n + 1) + 1]
        BY <1>4, <1>7, <4>1
      <4> QED BY <3>2, <3>4, <4>2
    <3> QED BY <3>3, <3>4
  <2> QED BY <1>1, <2>1, <2>2, <2>3
<1>11. p \in [1 .. n + k -> 1 .. n + k]
  BY <1>7
<1> HIDE DEF p
<1>12. p \in Bijection(1 .. n + k, 1 .. n + k)
  BY <1>8, <1>9, <1>11 DEF Bijection, Injection, Surjection, IsInjective
<1>13. DOMAIN s = 1 .. n + k /\ DOMAIN t = 1 .. n + k
  BY <1>4, <1>5, <1>6
<1>14. Rearranges(s, t)
  BY <1>10, <1>12, <1>13 DEF Rearranges
<1> QED BY <1>14 DEF s, t, c1, r1

-----------------------------------------------------------------------------
(* The chains of the planner *)

\* The chain is c gone on with tools of r, each after what it depends on, until none
\* of those left has all it depends on.
GoesOn(chain, c, r) ==
    \E left \in Seq(ChainTools) :
      /\ chain \in Seq(ChainTools) /\ Rearranges(chain \o left, c \o r)
      /\ Len(c) <= Len(chain) /\ \A i \in 1 .. Len(c) : chain[i] = c[i]
      /\ \A i \in Len(c) + 1 .. Len(chain) : dependencies[chain[i]] \subseteq ToSet(SubSeq(chain, 1, i - 1))
      /\ \A t \in ToSet(left) : ~ dependencies[t] \subseteq ToSet(chain)

\* The chains from each tool that may come next, and PlanWithTool of f for the shorter plans.
Onward(f, c, r) ==
    [i \in DOMAIN r |-> IF HasDependency(r[i], c) THEN f[<<Append(c, r[i]), RemoveAt(r, i)>>] ELSE <<>>]
Planned(f, plan) ==
    LET longer == FlattenSeq(Onward(f, plan[1], plan[2])) IN IF longer = <<>> THEN << plan[1] >> ELSE longer

Plans == Seq(ChainTools) \X Seq(ChainTools)
Remaining == [plan \in Plans |-> Len(plan[2])]

\* What remains after the next tool is a plan with less remaining.
LEMMA NextPlan ==
    ASSUME NEW plan \in Plans, NEW i \in DOMAIN plan[2]
    PROVE  LET next == <<Append(plan[1], plan[2][i]), RemoveAt(plan[2], i)>> IN
           /\ next \in Plans /\ Remaining[next] < Remaining[plan]
           /\ next[1] = Append(plan[1], plan[2][i]) /\ next[2] = RemoveAt(plan[2], i)
<1> DEFINE c == plan[1]
           r == plan[2]
<1>1. c \in Seq(ChainTools) /\ r \in Seq(ChainTools) /\ i \in 1 .. Len(r) /\ r[i] \in ChainTools
  BY DEF Plans
<1> HIDE DEF c, r
<1>2. Append(c, r[i]) \in Seq(ChainTools)
  BY <1>1, AppendProperties
<1>3. RemoveAt(r, i) \in Seq(ChainTools) /\ Len(RemoveAt(r, i)) = Len(r) - 1
  BY <1>1, Removed
<1>4. Len(RemoveAt(r, i)) < Len(r)
  BY <1>1, <1>3
<1> DEFINE a == Append(c, r[i])
           b == RemoveAt(r, i)
<1> HIDE DEF a, b
<1>5. <<a, b>> \in Plans /\ Remaining[<<a, b>>] = Len(b)
  BY <1>2, <1>3 DEF Plans, Remaining, a, b
<1>6. Remaining[plan] = Len(r)
  BY DEF Remaining, r
<1> QED BY <1>4, <1>5, <1>6 DEF a, b, c, r

\* PlanWithTool is what its definition says, and returns lists of tools.
LEMMA PlanWithToolUnfolds ==
    /\ PlanWithTool \in [Plans -> Seq(Seq(ChainTools))]
    /\ \A plan \in Plans : PlanWithTool[plan] = Planned(PlanWithTool, plan)
<1> DEFINE D == Plans
           R == Seq(Seq(ChainTools))
           m == Remaining
           E == [g \in [D -> R] |-> [plan \in D |-> Planned(g, plan)]]
           is(h) == h = [plan \in D |-> Planned(h, plan)]
<1>1. ASSUME NEW g \in [D -> R], NEW plan \in D PROVE Planned(g, plan) \in R
  <2> DEFINE c == plan[1]
             r == plan[2]
             on == Onward(g, c, r)
  <2>1. c \in Seq(ChainTools) /\ r \in Seq(ChainTools) /\ DOMAIN r = 1 .. Len(r) /\ Len(r) \in Nat
    BY DEF Plans
  <2>2. ASSUME NEW i \in DOMAIN r PROVE on[i] \in R
    <3> DEFINE next == <<Append(c, r[i]), RemoveAt(r, i)>>
    <3>1. next \in D
      BY NextPlan
    <3>2. on[i] = IF HasDependency(r[i], c) THEN g[next] ELSE <<>>
      BY DEF Onward
    <3> HIDE DEF next, on
    <3> QED BY <3>1, <3>2
  <2>3. on \in [1 .. Len(r) -> R]
    BY <2>1, <2>2 DEF Onward
  <2>4. FlattenSeq(on) \in R
    <3> HIDE DEF on
    <3> QED BY <2>1, <2>3, Flattened
  <2>5. <<c>> \in R
    BY <2>1
  <2> QED BY <2>4, <2>5 DEF Planned
<1>2. ASSUME NEW g, NEW h, NEW plan \in D, AgreeBelow(g, h, D, m, plan) PROVE Planned(g, plan) = Planned(h, plan)
  <2> DEFINE c == plan[1]
             r == plan[2]
  <2>1. ASSUME NEW i \in DOMAIN r
        PROVE  g[<<Append(c, r[i]), RemoveAt(r, i)>>] = h[<<Append(c, r[i]), RemoveAt(r, i)>>]
    <3> DEFINE next == <<Append(c, r[i]), RemoveAt(r, i)>>
    <3>1. next \in D /\ m[next] < m[plan]
      BY NextPlan
    <3> HIDE DEF next
    <3>2. g[next] = h[next]
      BY <1>2, <3>1 DEF AgreeBelow
    <3> QED BY <3>2 DEF next
  <2>2. Onward(g, c, r) = Onward(h, c, r)
    BY <2>1 DEF Onward
  <2> QED BY <2>2 DEF Planned
<1>3. m \in [D -> Nat]
  BY DEF Remaining, Plans
<1>4. Recursive(E, D, R, m)
  <2> HIDE DEF R, m, D
  <2>1. E \in [[D -> R] -> [D -> R]]
    BY <1>1
  <2>2. Contracts(E, D, R, m)
    BY <1>2 DEF Contracts
  <2>3. R # {}
    BY EmptySeq DEF R
  <2> QED BY <1>3, <2>1, <2>2, <2>3 DEF Recursive
<1>5. PICK g \in [D -> R] : g = E[g]
  <2> HIDE DEF D, R, m, E
  <2> QED BY <1>4, Recursion
<1>6. is(g)
  BY <1>5
<1>7. PlanWithTool = CHOOSE h : is(h)
  BY Zenon DEF PlanWithTool, Planned, Onward, Plans
<1> HIDE DEF is
<1>8. is(PlanWithTool)
  BY <1>6, <1>7
<1> USE DEF is
<1>9. \A plan \in D : PlanWithTool[plan] = g[plan]
  <2> DEFINE f == PlanWithTool
  <2>1. f = [plan \in D |-> Planned(f, plan)]
    BY <1>8
  <2> HIDE DEF f
  <2> DEFINE G == {plan \in D : f[plan] = g[plan]}
  <2>2. ASSUME NEW plan \in D, \A p \in D : m[p] < m[plan] => p \in G PROVE f[plan] = g[plan]
    <3>1. AgreeBelow(f, g, D, m, plan)
      BY <2>2 DEF AgreeBelow
    <3>2. Planned(f, plan) = Planned(g, plan)
      BY <1>2, <3>1
    <3> QED BY <1>6, <2>1, <3>2
  <2>3. Grows(G, D, m)
    BY <2>2 DEF Grows
  <2>4. D \subseteq G
    <3> HIDE DEF G, D, m
    <3> QED BY <1>3, <2>3, ByMeasure
  <2> QED BY <2>4 DEF f
<1>10. PlanWithTool \in [D -> R]
  <2> DEFINE f == PlanWithTool
  <2>1. f = [plan \in D |-> Planned(f, plan)] /\ \A plan \in D : f[plan] = g[plan]
    BY <1>8, <1>9
  <2> HIDE DEF f, R, D
  <2>2. f \in [D -> R]
    BY <2>1
  <2> QED BY <2>2 DEF f
<1>11. ASSUME NEW plan \in D PROVE PlanWithTool[plan] = Planned(PlanWithTool, plan)
  <2> DEFINE f == PlanWithTool
  <2>1. f = [p \in D |-> Planned(f, p)]
    BY <1>8
  <2> HIDE DEF f, D
  <2>2. f[plan] = Planned(f, plan)
    BY <2>1
  <2> QED BY <2>2 DEF f
<1> QED BY <1>10, <1>11

\* A chain that none of the tools left can follow goes on with none.
LEMMA GoesOnWithNone ==
    ASSUME NEW c \in Seq(ChainTools), NEW r \in Seq(ChainTools), \A i \in DOMAIN r : ~ HasDependency(r[i], c)
    PROVE  GoesOn(c, c, r)
<1>1. Rearranges(c \o r, c \o r)
  BY RearrangesItself
<1>2. \A t \in ToSet(r) : ~ dependencies[t] \subseteq ToSet(c)
  BY DEF ToSet, HasDependency
<1>3. Len(c) + 1 .. Len(c) = {}
  OBVIOUS
<1> QED BY <1>1, <1>2, <1>3 DEF GoesOn

\* A chain that goes on from c and the next tool, which has its dependencies, goes on
\* from c.
LEMMA GoesOnWithNext ==
    ASSUME NEW c \in Seq(ChainTools), NEW r \in Seq(ChainTools), NEW i \in 1 .. Len(r),
           HasDependency(r[i], c), NEW chain, GoesOn(chain, Append(c, r[i]), RemoveAt(r, i))
    PROVE  GoesOn(chain, c, r)
<1> DEFINE c1 == Append(c, r[i])
           r1 == RemoveAt(r, i)
           n == Len(c)
<1>1. n \in Nat /\ c1 \in Seq(ChainTools) /\ Len(c1) = n + 1 /\ c1[n + 1] = r[i] /\ \A j \in 1 .. n : c1[j] = c[j]
  BY AppendProperties
<1>2. Rearranges(c1 \o r1, c \o r)
  BY MovedOn
<1> HIDE DEF c1, r1, n
<1>3. PICK left \in Seq(ChainTools) :
        /\ chain \in Seq(ChainTools) /\ Rearranges(chain \o left, c1 \o r1)
        /\ Len(c1) <= Len(chain) /\ \A j \in 1 .. Len(c1) : chain[j] = c1[j]
        /\ \A j \in Len(c1) + 1 .. Len(chain) : dependencies[chain[j]] \subseteq ToSet(SubSeq(chain, 1, j - 1))
        /\ \A t \in ToSet(left) : ~ dependencies[t] \subseteq ToSet(chain)
  BY DEF GoesOn, c1, r1
<1>4. Rearranges(chain \o left, c \o r)
  BY <1>2, <1>3, RearrangesTwice
<1>5. Len(chain) \in Nat /\ n + 1 <= Len(chain)
  BY <1>1, <1>3
<1>6. chain[n + 1] = r[i] /\ \A j \in 1 .. n : chain[j] = c[j]
  <2>1. n + 1 \in 1 .. Len(c1) /\ 1 .. n \subseteq 1 .. Len(c1)
    BY <1>1
  <2> QED BY <1>1, <1>3, <2>1
<1>7. dependencies[chain[n + 1]] \subseteq ToSet(SubSeq(chain, 1, n))
  <2> DEFINE b == SubSeq(chain, 1, n)
  <2>1. 1 \in Int /\ n \in Int /\ \A j \in 1 .. n : chain[j] \in ChainTools
    BY <1>1, <1>3, <1>5
  <2>2. /\ b \in Seq(ChainTools) /\ Len(b) = IF 1 <= n THEN n - 1 + 1 ELSE 0
        /\ \A j \in 1 .. n - 1 + 1 : b[j] = chain[1 + j - 1]
    BY <2>1, SubSeqProperties
  <2> HIDE DEF b
  <2>3. b \in Seq(ChainTools) /\ Len(b) = n /\ \A j \in 1 .. n : b[j] = chain[j]
    BY <1>1, <2>2
  <2>4. ToSet(c) \subseteq ToSet(b)
    <3>1. ASSUME NEW t \in ToSet(c) PROVE t \in ToSet(b)
      <4>1. PICK j \in 1 .. n : t = c[j]
        BY DEF ToSet, n
      <4>2. j \in DOMAIN b /\ b[j] = t
        BY <1>6, <2>3, <4>1
      <4> QED BY <4>2 DEF ToSet
    <3> QED BY <3>1
  <2> QED BY <1>6, <2>4 DEF HasDependency, b
<1>8. ASSUME NEW j \in n + 1 .. Len(chain) PROVE dependencies[chain[j]] \subseteq ToSet(SubSeq(chain, 1, j - 1))
  <2>1. CASE j = n + 1
    <3>1. j - 1 = n
      BY <1>1, <2>1
    <3> QED BY <1>7, <2>1, <3>1
  <2>2. CASE j # n + 1
    <3>1. j \in Len(c1) + 1 .. Len(chain)
      BY <1>1, <1>5, <2>2
    <3> QED BY <1>3, <3>1
  <2> QED BY <2>1, <2>2
<1>9. n <= Len(chain)
  BY <1>1, <1>5
<1> QED BY <1>3, <1>4, <1>6, <1>8, <1>9 DEF GoesOn, n

\* Every chain _plan_with_tool returns goes on from the one it is given, and it returns
\* at least one: by induction on how many tools remain.
LEMMA PlannedGoOn ==
    ASSUME NEW plan \in Plans
    PROVE  /\ PlanWithTool[plan] # <<>>
           /\ \A chain \in ToSet(PlanWithTool[plan]) : GoesOn(chain, plan[1], plan[2])
<1> DEFINE f == PlanWithTool
           ok(p) == f[p] # <<>> /\ \A chain \in ToSet(f[p]) : GoesOn(chain, p[1], p[2])
           G == {p \in Plans : ok(p)}
<1>1. f \in [Plans -> Seq(Seq(ChainTools))] /\ \A p \in Plans : f[p] = Planned(f, p)
  BY PlanWithToolUnfolds
<1> HIDE DEF f
<1>2. ASSUME NEW p \in Plans, \A q \in Plans : Remaining[q] < Remaining[p] => q \in G
      PROVE  ok(p)
  <2> DEFINE c == p[1]
             r == p[2]
             on == Onward(f, c, r)
             next(i) == <<Append(c, r[i]), RemoveAt(r, i)>>
  <2>1. /\ c \in Seq(ChainTools) /\ r \in Seq(ChainTools)
        /\ DOMAIN r = 1 .. Len(r) /\ Len(r) \in Nat
    BY DEF Plans
  <2>2. ASSUME NEW i \in DOMAIN r, HasDependency(r[i], c)
        PROVE  /\ on[i] = f[next(i)] /\ f[next(i)] \in Seq(Seq(ChainTools)) /\ f[next(i)] # <<>>
               /\ \A chain \in ToSet(f[next(i)]) : GoesOn(chain, Append(c, r[i]), RemoveAt(r, i))
    <3>1. /\ next(i) \in Plans /\ Remaining[next(i)] < Remaining[p]
          /\ next(i)[1] = Append(c, r[i]) /\ next(i)[2] = RemoveAt(r, i)
      BY NextPlan
    <3>2. on[i] = f[next(i)]
      BY <2>2 DEF Onward
    <3> HIDE DEF next, on
    <3>3. ok(next(i))
      BY <1>2, <3>1
    <3> QED BY <1>1, <3>1, <3>2, <3>3
  <2>3. ASSUME NEW i \in DOMAIN r, ~ HasDependency(r[i], c) PROVE on[i] = <<>>
    BY <2>3 DEF Onward
  <2>4. on \in [1 .. Len(r) -> Seq(Seq(ChainTools))]
    <3>1. DOMAIN on = 1 .. Len(r) /\ on = [i \in 1 .. Len(r) |-> on[i]]
      BY <2>1 DEF Onward
    <3>2. <<>> \in Seq(Seq(ChainTools))
      BY EmptySeq
    <3> HIDE DEF on, next, c, r
    <3>3. \A i \in 1 .. Len(r) : on[i] \in Seq(Seq(ChainTools))
      BY <2>1, <2>2, <2>3, <3>2
    <3> QED BY <3>1, <3>3
  <2> DEFINE longer == FlattenSeq(on)
  <2> HIDE DEF on, next
  <2>5. longer \in Seq(Seq(ChainTools)) /\ ToSet(longer) = UNION {ToSet(on[i]) : i \in 1 .. Len(r)}
    <3> HIDE DEF c, r
    <3> QED BY <2>1, <2>4, Flattened
  <2>6. f[p] = IF longer = <<>> THEN <<c>> ELSE longer
    BY <1>1 DEF Planned, on
  <2> HIDE DEF longer
  <2>7. CASE longer = <<>>
    <3>1. f[p] = <<c>> /\ ToSet(f[p]) = {c} /\ f[p] # <<>>
      BY <2>6, <2>7 DEF ToSet
    <3>2. ASSUME NEW i \in DOMAIN r PROVE ~ HasDependency(r[i], c)
      <4> SUFFICES ASSUME HasDependency(r[i], c) PROVE FALSE
        OBVIOUS
      <4> DEFINE s == f[next(i)]
      <4>1. on[i] = s /\ s \in Seq(Seq(ChainTools)) /\ s # <<>>
        BY <2>2
      <4> HIDE DEF s, c, r
      <4>2. s[1] \in ToSet(s)
        BY <4>1 DEF ToSet
      <4>3. s[1] \in ToSet(longer)
        BY <2>1, <2>5, <4>1, <4>2
      <4> QED BY <2>7, <4>3 DEF ToSet
    <3>3. GoesOn(c, c, r)
      <4> HIDE DEF c, r
      <4> QED BY <2>1, <3>2, GoesOnWithNone
    <3> QED BY <3>1, <3>3
  <2>8. CASE longer # <<>>
    <3>1. f[p] = longer
      BY <2>6, <2>8
    <3>2. ASSUME NEW chain \in ToSet(longer) PROVE GoesOn(chain, c, r)
      <4> HIDE DEF c, r
      <4>1. PICK i \in 1 .. Len(r) : chain \in ToSet(on[i])
        BY <2>5
      <4>2. HasDependency(r[i], c)
        BY <2>1, <2>3, <4>1 DEF ToSet
      <4>3. GoesOn(chain, Append(c, r[i]), RemoveAt(r, i))
        BY <2>1, <2>2, <4>1, <4>2
      <4> QED BY <2>1, <4>2, <4>3, GoesOnWithNext
    <3> QED BY <2>8, <3>1, <3>2
  <2> QED BY <2>7, <2>8
<1>3. Remaining \in [Plans -> Nat]
  BY DEF Remaining, Plans
<1>4. Grows(G, Plans, Remaining)
  BY <1>2 DEF Grows
<1>5. Plans \subseteq G
  <2> HIDE DEF G
  <2> QED BY <1>3, <1>4, ByMeasure
<1> QED BY <1>5 DEF f

\* Chains that use each tool as often use the same tools.
LEMMA SameToolsUsed ==
    ASSUME NEW c \in Seq(ChainTools), NEW d \in Seq(ChainTools), SameTools(c, d)
    PROVE  ToSet(c) \subseteq ToSet(d)
<1> SUFFICES ASSUME NEW t \in ToSet(c) PROVE t \in ToSet(d)
  OBVIOUS
<1>1. PICK i \in DOMAIN c : c[i] = t
  BY DEF ToSet
<1>2. t \in ChainTools
  BY <1>1
<1>3. /\ IsFiniteSet(1 .. Len(c)) /\ UsesOf(t, c) \in SUBSET (1 .. Len(c)) /\ UsesOf(t, c) # {}
      /\ IsFiniteSet(1 .. Len(d)) /\ UsesOf(t, d) \in SUBSET (1 .. Len(d))
  <2>1. Len(c) \in Int /\ Len(d) \in Int /\ 1 \in Int
    OBVIOUS
  <2> QED BY <1>1, <2>1, FS_Interval DEF UsesOf
<1>4. IsFiniteSet(UsesOf(t, c)) /\ IsFiniteSet(UsesOf(t, d))
  BY <1>3, FS_Subset
<1>5. Cardinality(UsesOf(t, c)) # 0
  BY <1>3, <1>4, FS_EmptySet
<1>6. Cardinality(UsesOf(t, d)) # 0
  BY <1>2, <1>5 DEF SameTools
<1>7. UsesOf(t, d) # {}
  BY <1>6, FS_EmptySet
<1> QED BY <1>7 DEF UsesOf, ToSet

\* Unique keeps, of every chain, one with the same tools.
LEMMA UniqueKeeps ==
    ASSUME NEW chains \in Seq(Seq(ChainTools))
    PROVE  /\ Unique(chains) \in Seq(Seq(ChainTools)) /\ ToSet(Unique(chains)) \subseteq ToSet(chains)
           /\ \A c \in ToSet(chains) : \E e \in ToSet(Unique(chains)) : ToSet(e) = ToSet(c)
<1> DEFINE n == Len(chains)
           S == Seq(ChainTools)
           again(i) == \E j \in 1 .. i - 1 : SameTools(chains[j], chains[i])
           kept == [i \in DOMAIN chains |-> IF again(i) THEN <<>> ELSE << chains[i] >>]
<1>1. n \in Nat /\ DOMAIN chains = 1 .. n /\ \A i \in 1 .. n : chains[i] \in S
  OBVIOUS
<1>2. /\ kept \in [1 .. n -> Seq(S)]
      /\ \A i \in 1 .. n : kept[i] = IF again(i) THEN <<>> ELSE << chains[i] >>
  <2>1. \A i \in 1 .. n : << chains[i] >> \in Seq(S)
    BY <1>1
  <2>2. <<>> \in Seq(S)
    BY EmptySeq
  <2> HIDE DEF again, S, n
  <2> QED BY <1>1, <2>1, <2>2
<1>3. FlattenSeq(kept) \in Seq(S) /\ ToSet(FlattenSeq(kept)) = UNION {ToSet(kept[i]) : i \in 1 .. n}
  <2> HIDE DEF kept, S, n
  <2> QED BY <1>1, <1>2, Flattened
<1>4. Unique(chains) = FlattenSeq(kept)
  BY Zenon DEF Unique
<1> HIDE DEF kept
<1>5. \A i \in 1 .. n : ToSet(kept[i]) = IF again(i) THEN {} ELSE {chains[i]}
  <2> HIDE DEF again
  <2>1. ToSet(<<>>) = {} /\ \A c : ToSet(<<c>>) = {c}
    BY DEF ToSet
  <2> QED BY <1>2, <2>1
<1>6. ASSUME NEW e \in ToSet(Unique(chains)) PROVE e \in ToSet(chains)
  <2>1. PICK i \in 1 .. n : e \in ToSet(kept[i])
    BY <1>3, <1>4, <1>6
  <2>2. e = chains[i]
    <3> HIDE DEF again
    <3> QED BY <1>5, <2>1
  <2> QED BY <1>1, <2>2 DEF ToSet
<1>7. ASSUME NEW c \in ToSet(chains) PROVE \E e \in ToSet(Unique(chains)) : ToSet(e) = ToSet(c)
  <2> DEFINE same == {i \in 1 .. n : SameTools(chains[i], c)}
             m == [i \in 1 .. n |-> i]
  <2>1. c \in S /\ \E i \in 1 .. n : c = chains[i]
    BY <1>1 DEF ToSet
  <2>2. same # {}
    BY <2>1 DEF SameTools
  <2>3. PICK i \in same : \A j \in same : ~(m[j] < m[i])
    <3>1. \A j \in same : m[j] \in Nat
      OBVIOUS
    <3> HIDE DEF same, m
    <3> QED BY <2>2, <3>1, LeastFound
  <2>4. ~ again(i)
    <3> SUFFICES ASSUME NEW j \in 1 .. i - 1, SameTools(chains[j], chains[i]) PROVE FALSE
      OBVIOUS
    <3>1. j \in 1 .. n /\ m[j] < m[i]
      BY <1>1
    <3>2. SameTools(chains[j], c)
      BY <2>3 DEF SameTools
    <3> QED BY <2>3, <3>1, <3>2
  <2>5. chains[i] \in ToSet(Unique(chains))
    <3> HIDE DEF again, n
    <3> QED BY <1>3, <1>4, <1>5, <2>3, <2>4
  <2>6. SameTools(chains[i], c) /\ SameTools(c, chains[i])
    BY <2>3 DEF SameTools
  <2>7. ToSet(chains[i]) = ToSet(c)
    <3>1. chains[i] \in Seq(ChainTools) /\ c \in Seq(ChainTools)
      BY <1>1, <2>1
    <3> QED BY <2>6, <3>1, SameToolsUsed
  <2> QED BY <2>5, <2>7
<1> QED BY <1>3, <1>4, <1>6, <1>7

\* What the invariant asks of a chain of the planner.
Runs(c, given) ==
    /\ \A i \in 2 .. Len(c) : dependencies[c[i]] \subseteq ToSet(SubSeq(c, 1, i - 1))
    /\ Exhausts(c, given)

\* A chain that goes on from one of the tools given runs, with given tools only.
LEMMA GoesOnRuns ==
    ASSUME NEW a \in Seq(ChainTools), NEW i \in 1 .. Len(a), NEW c,
           GoesOn(c, << a[i] >>, RemoveAt(a, i))
    PROVE  c \in Seq(ChainTools) /\ Runs(c, a) /\ ToSet(c) \subseteq ToSet(a) /\ a[i] \in ToSet(c)
<1> DEFINE c1 == << a[i] >>
           r1 == RemoveAt(a, i)
<1>1. c1 \in Seq(ChainTools) /\ Len(c1) = 1 /\ c1[1] = a[i]
  OBVIOUS
<1>2. Rearranges(c1 \o r1, a)
  <2>1. <<>> \in Seq(ChainTools)
    BY EmptySeq
  <2>2. Rearranges(Append(<<>>, a[i]) \o r1, <<>> \o a)
    BY <2>1, MovedOn
  <2>3. <<>> \o a = a /\ Append(<<>>, a[i]) = c1
    BY ConcatEmptySeq
  <2> HIDE DEF r1, c1
  <2> QED BY <2>2, <2>3
<1> HIDE DEF c1, r1
<1>3. PICK left \in Seq(ChainTools) :
        /\ c \in Seq(ChainTools) /\ Rearranges(c \o left, c1 \o r1)
        /\ Len(c1) <= Len(c) /\ \A j \in 1 .. Len(c1) : c[j] = c1[j]
        /\ \A j \in Len(c1) + 1 .. Len(c) : dependencies[c[j]] \subseteq ToSet(SubSeq(c, 1, j - 1))
        /\ \A t \in ToSet(left) : ~ dependencies[t] \subseteq ToSet(c)
  BY DEF GoesOn, c1, r1
<1> DEFINE s == c \o left
           n == Len(c)
           k == Len(left)
<1>4. Rearranges(s, a)
  BY <1>2, <1>3, RearrangesTwice
<1>5. n \in Nat /\ k \in Nat /\ 1 <= n /\ c[1] = a[i]
  BY <1>1, <1>3
<1>6. /\ s \in Seq(ChainTools) /\ Len(s) = n + k
      /\ \A j \in 1 .. n + k : s[j] = IF j <= n THEN c[j] ELSE left[j - n]
  BY <1>3, ConcatProperties
<1> HIDE DEF s
<1>7. PICK p \in Bijection(DOMAIN a, DOMAIN a) : \A j \in DOMAIN a : s[j] = a[p[j]]
  BY <1>4 DEF Rearranges
<1>8. DOMAIN s = DOMAIN a /\ DOMAIN a = 1 .. Len(a) /\ Len(a) \in Nat /\ Len(a) = n + k
  <2>1. DOMAIN s = DOMAIN a
    BY <1>4 DEF Rearranges
  <2>2. DOMAIN s = 1 .. n + k /\ DOMAIN a = 1 .. Len(a) /\ Len(a) \in Nat
    BY <1>6
  <2>3. Len(a) = n + k
    <3> DEFINE l == Len(a)
    <3> HIDE DEF l, n, k
    <3>1. 1 .. n + k = 1 .. l /\ l \in Nat
      BY <2>1, <2>2 DEF l
    <3>2. n + k \in 1 .. l
      BY <1>5, <3>1
    <3>3. l \in 1 .. n + k
      BY <3>1, <3>2
    <3> QED BY <1>5, <3>2, <3>3 DEF l
  <2> QED BY <2>1, <2>2, <2>3
<1>9. p \in [DOMAIN a -> DOMAIN a]
  BY DEF Bijection, Injection
<1> DEFINE tools == [j \in DOMAIN a |-> a[p[j]]]
<1>10. tools = s
  BY <1>6, <1>7, <1>8
<1> HIDE DEF tools
<1>11. SubSeq(s, 1, n) = c
  <2> DEFINE b == SubSeq(s, 1, n)
  <2>1. 1 \in Int /\ n \in Int /\ \A j \in 1 .. n : s[j] \in ChainTools
    BY <1>5, <1>6
  <2> HIDE DEF n
  <2>2. /\ b \in Seq(ChainTools) /\ Len(b) = IF 1 <= n THEN n - 1 + 1 ELSE 0
        /\ \A j \in 1 .. n - 1 + 1 : b[j] = s[1 + j - 1]
    BY <2>1, SubSeqProperties
  <2> HIDE DEF b
  <2>3. b \in Seq(ChainTools) /\ Len(b) = n /\ \A j \in 1 .. n : b[j] = s[j]
    BY <1>5, <2>2
  <2>4. \A j \in 1 .. n : b[j] = c[j]
    BY <1>5, <1>6, <2>3
  <2>5. Len(b) = Len(c)
    BY <2>3 DEF n
  <2>6. \A j \in 1 .. Len(b) : b[j] = c[j]
    BY <2>3, <2>4
  <2>7. b = c
    BY <1>3, <2>3, <2>5, <2>6, SeqEqual
  <2> QED BY <2>7 DEF b
<1>12. ASSUME NEW j \in n + 1 .. Len(a) PROVE ~ dependencies[s[j]] \subseteq ToSet(c)
  <2>1. j \in 1 .. n + k /\ ~(j <= n) /\ j - n \in 1 .. k
    BY <1>5, <1>8
  <2>2. s[j] = left[j - n] /\ left[j - n] \in ToSet(left)
    BY <1>3, <1>6, <2>1 DEF ToSet
  <2> QED BY <1>3, <2>2
<1>13. Exhausts(c, a)
  BY <1>10, <1>11, <1>12 DEF Exhausts, tools
<1>14. ASSUME NEW j \in 2 .. Len(c) PROVE dependencies[c[j]] \subseteq ToSet(SubSeq(c, 1, j - 1))
  <2>1. j \in Len(c1) + 1 .. Len(c)
    BY <1>1
  <2> QED BY <1>3, <2>1
<1>15. ASSUME NEW t \in ToSet(c) PROVE t \in ToSet(a)
  <2>1. PICK j \in 1 .. n : t = c[j]
    BY <1>3 DEF ToSet
  <2>2. j \in 1 .. n + k /\ s[j] = c[j]
    BY <1>5, <1>6
  <2>3. j \in DOMAIN a /\ p[j] \in DOMAIN a /\ t = a[p[j]]
    BY <1>7, <1>8, <1>9, <2>1, <2>2
  <2> QED BY <2>3 DEF ToSet
<1>16. a[i] \in ToSet(c)
  BY <1>3, <1>5 DEF ToSet
<1> QED BY <1>3, <1>13, <1>14, <1>15, <1>16 DEF Runs

\* The chains from each tool of the offer.
FromEach(a) == [i \in DOMAIN a |-> PlanWithTool[<< << a[i] >>, RemoveAt(a, i) >>]]

LEMMA FromEachRuns ==
    ASSUME NEW a \in Seq(ChainTools)
    PROVE  /\ FlattenSeq(FromEach(a)) \in Seq(Seq(ChainTools))
           /\ \A c \in ToSet(FlattenSeq(FromEach(a))) : Runs(c, a) /\ ToSet(c) \subseteq ToSet(a)
           /\ \A t \in ToSet(a) : \E c \in ToSet(FlattenSeq(FromEach(a))) : t \in ToSet(c)
<1> DEFINE R == Seq(Seq(ChainTools))
           each == FromEach(a)
           all == FlattenSeq(each)
           n == Len(a)
<1>1. n \in Nat /\ DOMAIN a = 1 .. n
  OBVIOUS
<1>2. ASSUME NEW i \in 1 .. n
      PROVE  /\ each[i] \in R /\ each[i] # <<>>
             /\ \A c \in ToSet(each[i]) : Runs(c, a) /\ ToSet(c) \subseteq ToSet(a) /\ a[i] \in ToSet(c)
  <2> DEFINE plan == << << a[i] >>, RemoveAt(a, i) >>
  <2>1. << a[i] >> \in Seq(ChainTools) /\ RemoveAt(a, i) \in Seq(ChainTools)
    BY <1>1, Removed
  <2>2. plan \in Plans /\ plan[1] = << a[i] >> /\ plan[2] = RemoveAt(a, i)
    BY <2>1 DEF Plans
  <2>3. each[i] = PlanWithTool[plan]
    BY <1>1 DEF FromEach
  <2> HIDE DEF plan, each
  <2>4. each[i] \in R
    BY <2>2, <2>3, PlanWithToolUnfolds
  <2>5. each[i] # <<>> /\ \A c \in ToSet(each[i]) : GoesOn(c, << a[i] >>, RemoveAt(a, i))
    BY <2>2, <2>3, PlannedGoOn
  <2>6. ASSUME NEW c \in ToSet(each[i])
        PROVE  Runs(c, a) /\ ToSet(c) \subseteq ToSet(a) /\ a[i] \in ToSet(c)
    BY <2>5, GoesOnRuns
  <2> QED BY <2>4, <2>5, <2>6
<1>3. each \in [1 .. n -> R]
  <2>1. each = [i \in 1 .. n |-> each[i]]
    BY <1>1 DEF FromEach
  <2> HIDE DEF each, n
  <2> QED BY <1>2, <2>1
<1> HIDE DEF each, R, n
<1>4. all \in R /\ ToSet(all) = UNION {ToSet(each[i]) : i \in 1 .. n}
  BY <1>1, <1>3, Flattened DEF R
<1> HIDE DEF all
<1>5. \A c \in ToSet(all) : Runs(c, a) /\ ToSet(c) \subseteq ToSet(a)
  BY <1>2, <1>4
<1>6. ASSUME NEW t \in ToSet(a) PROVE \E c \in ToSet(all) : t \in ToSet(c)
  <2>1. PICK i \in 1 .. n : t = a[i]
    BY <1>1 DEF ToSet
  <2>2. each[i][1] \in ToSet(each[i])
    <3> DEFINE e == each[i]
    <3>1. e \in Seq(Seq(ChainTools)) /\ e # <<>>
      BY <1>2 DEF R
    <3> HIDE DEF e
    <3>2. e[1] \in ToSet(e)
      BY <3>1 DEF ToSet
    <3> QED BY <3>2 DEF e
  <2>3. each[i][1] \in ToSet(all)
    BY <1>4, <2>2
  <2> QED BY <1>2, <2>1, <2>2, <2>3
<1> QED BY <1>4, <1>5, <1>6 DEF all, each, R

\* The chains plan returns are lists of tools; of two tools or more, every one runs and
\* every tool is in one.
LEMMA ChainsRun ==
    ASSUME NEW a \in Seq(ChainTools)
    PROVE  /\ Chains(a) \in Seq(Seq(ChainTools))
           /\ Len(a) > 1 => /\ \A c \in ToSet(Chains(a)) : Runs(c, a)
                            /\ ToSet(a) = UNION {ToSet(c) : c \in ToSet(Chains(a))}
<1>1. CASE Len(a) = 1
  BY <1>1 DEF Chains
<1>2. CASE Len(a) # 1
  <2> DEFINE all == FlattenSeq(FromEach(a))
             kept == Unique(all)
  <2>1. Chains(a) = kept
    BY Zenon, <1>2 DEF Chains, FromEach
  <2>2. /\ all \in Seq(Seq(ChainTools))
        /\ \A c \in ToSet(all) : Runs(c, a) /\ ToSet(c) \subseteq ToSet(a)
        /\ \A t \in ToSet(a) : \E c \in ToSet(all) : t \in ToSet(c)
    BY FromEachRuns
  <2> HIDE DEF all
  <2>3. /\ kept \in Seq(Seq(ChainTools)) /\ ToSet(kept) \subseteq ToSet(all)
        /\ \A c \in ToSet(all) : \E e \in ToSet(kept) : ToSet(e) = ToSet(c)
    BY <2>2, UniqueKeeps
  <2> HIDE DEF kept
  <2>4. ToSet(a) = UNION {ToSet(c) : c \in ToSet(kept)}
    <3>1. ASSUME NEW t \in ToSet(a) PROVE \E c \in ToSet(kept) : t \in ToSet(c)
      BY <2>2, <2>3
    <3>2. ASSUME NEW c \in ToSet(kept) PROVE ToSet(c) \subseteq ToSet(a)
      BY <2>2, <2>3
    <3> QED BY <3>1, <3>2
  <2> QED BY <2>1, <2>2, <2>3, <2>4
<1> QED BY <1>1, <1>2

-----------------------------------------------------------------------------
(* The chains of the matcher *)

\* Chains that use something, and no tool twice.
Trails == {c \in Seq(ChainTools) : c # <<>> /\ IsInjective(c)}

LEMMA ContinuedTrail ==
    ASSUME NEW c \in Trails
    PROVE  Continued(c) \in Seq(Trails)
<1> DEFINE r == Related[Last(c)]
           n == Len(r)
           more == [j \in DOMAIN r |-> IF Contains(c, r[j]) THEN <<>> ELSE <<Append(c, r[j])>>]
<1>1. c \in Seq(ChainTools) /\ c # <<>> /\ Len(c) \in Nat /\ IsInjective(c)
  BY DEF Trails
<1>2. Last(c) \in ChainTools
  BY <1>1 DEF Last
<1>3. r \in Seq(ChainTools)
  BY <1>2, TablesAssumption
<1> HIDE DEF r
<1>4. n \in Nat /\ DOMAIN r = 1 .. n /\ \A j \in 1 .. n : r[j] \in ChainTools
  BY <1>3
<1>5. ASSUME NEW j \in 1 .. n, ~ Contains(c, r[j]) PROVE Append(c, r[j]) \in Trails
  <2> DEFINE d == Append(c, r[j])
  <2>1. /\ d \in Seq(ChainTools) /\ d # <<>> /\ Len(d) = Len(c) + 1 /\ d[Len(c) + 1] = r[j]
        /\ \A i \in 1 .. Len(c) : d[i] = c[i]
    BY <1>1, <1>4, AppendProperties
  <2> HIDE DEF d
  <2>2. \A i \in 1 .. Len(c) : c[i] # r[j]
    BY <1>5 DEF Contains
  <2>3. DOMAIN d = 1 .. Len(c) + 1 /\ DOMAIN c = 1 .. Len(c)
    BY <1>1, <2>1
  <2>4. ASSUME NEW x \in 1 .. Len(c) + 1, NEW y \in 1 .. Len(c) + 1, d[x] = d[y] PROVE x = y
    <3>1. \A i \in 1 .. Len(c) + 1 : i \in 1 .. Len(c) \/ i = Len(c) + 1
      BY <1>1
    <3>2. CASE x = Len(c) + 1 \/ y = Len(c) + 1
      BY <2>1, <2>2, <2>4, <3>1, <3>2
    <3>3. CASE x \in 1 .. Len(c) /\ y \in 1 .. Len(c)
      BY <1>1, <2>1, <2>3, <2>4, <3>3 DEF IsInjective
    <3> QED BY <3>1, <3>2, <3>3
  <2>5. IsInjective(d)
    BY <2>3, <2>4 DEF IsInjective
  <2> QED BY <2>1, <2>5 DEF Trails, d
<1>6. more \in [1 .. n -> Seq(Trails)]
  <2>1. <<>> \in Seq(Trails)
    BY EmptySeq
  <2>2. \A d \in Trails : <<d>> \in Seq(Trails)
    OBVIOUS
  <2>3. ASSUME NEW j \in 1 .. n PROVE (IF Contains(c, r[j]) THEN <<>> ELSE <<Append(c, r[j])>>) \in Seq(Trails)
    <3> HIDE DEF n
    <3> QED BY <1>5, <2>1, <2>2
  <2> QED BY <1>4, <2>3
<1>7. FlattenSeq(more) \in Seq(Trails)
  <2> HIDE DEF more, n
  <2> QED BY <1>4, <1>6, Flattened
<1>8. <<c>> \in Seq(Trails)
  OBVIOUS
<1>9. Continued(c) = IF r = <<>> THEN <<c>> ELSE FlattenSeq(more)
  BY Zenon DEF Continued, r
<1> QED BY <1>7, <1>8, <1>9

LEMMA HopTrails ==
    ASSUME NEW chains \in Seq(Trails)
    PROVE  Hop(chains) \in Seq(Trails)
<1> DEFINE n == Len(chains)
           on == [i \in DOMAIN chains |-> Continued(chains[i])]
<1>1. n \in Nat /\ DOMAIN chains = 1 .. n /\ \A i \in 1 .. n : chains[i] \in Trails
  OBVIOUS
<1> HIDE DEF n
<1>2. on \in [1 .. n -> Seq(Trails)]
  BY <1>1, ContinuedTrail
<1> HIDE DEF on
<1>3. FlattenSeq(on) \in Seq(Trails)
  BY <1>1, <1>2, Flattened
<1> QED BY <1>3 DEF Hop, on

LEMMA HopsTrails ==
    ASSUME NEW primary \in ChainTools
    PROVE  HopsFrom(primary) \in Seq(Trails)
<1> DEFINE D == Nat
           R == Seq(Trails)
           m == [n \in D |-> n]
           first == << <<primary>> >>
           at(g, n) == IF n = 0 THEN first ELSE IF Hop(g[n - 1]) = <<>> THEN g[n - 1] ELSE Hop(g[n - 1])
           E == [g \in [D -> R] |-> [n \in D |-> at(g, n)]]
           is(h) == h = [n \in D |-> at(h, n)]
           f == CHOOSE h : is(h)
<1>1. first \in R
  <2>1. <<primary>> \in Trails
    BY DEF Trails, IsInjective
  <2> QED BY <2>1
<1> HIDE DEF first
<1>2. ASSUME NEW g \in [D -> R], NEW n \in D PROVE at(g, n) \in R
  <2>1. CASE n = 0
    BY <1>1, <2>1
  <2>2. CASE n # 0
    <3>1. g[n - 1] \in R
      BY <2>2
    <3>2. Hop(g[n - 1]) \in R
      BY <3>1, HopTrails
    <3> QED BY <2>2, <3>1, <3>2
  <2> QED BY <2>1, <2>2
<1>3. ASSUME NEW g, NEW h, NEW n \in D, AgreeBelow(g, h, D, m, n) PROVE at(g, n) = at(h, n)
  <2>1. CASE n = 0
    BY <2>1
  <2>2. CASE n # 0
    <3>1. n - 1 \in D /\ m[n - 1] < m[n]
      BY <2>2
    <3>2. g[n - 1] = h[n - 1]
      BY <1>3, <3>1 DEF AgreeBelow
    <3> QED BY <2>2, <3>2
  <2> QED BY <2>1, <2>2
<1> HIDE DEF at
<1>4. Recursive(E, D, R, m)
  <2>1. m \in [D -> Nat] /\ R # {}
    BY <1>1
  <2>2. E \in [[D -> R] -> [D -> R]]
    BY <1>2
  <2>3. Contracts(E, D, R, m)
    <3> SUFFICES ASSUME NEW g \in [D -> R], NEW h \in [D -> R], NEW n \in D, AgreeBelow(g, h, D, m, n)
                 PROVE  E[g][n] = E[h][n]
      BY DEF Contracts
    <3>1. at(g, n) = at(h, n)
      <4> HIDE DEF m
      <4> QED BY <1>3
    <3> QED BY <3>1
  <2> QED BY <2>1, <2>2, <2>3 DEF Recursive
<1>5. PICK g \in [D -> R] : g = E[g]
  <2> HIDE DEF D, R, m, E, f
  <2> QED BY <1>4, Recursion
<1>6. is(g)
  BY <1>5
<1>7. HopsFrom(primary) = f[MaxHops - 1]
  BY Zenon DEF HopsFrom, at, first
<1>8. is(f)
  <2>1. f = CHOOSE h : is(h)
    OBVIOUS
  <2> HIDE DEF f, is
  <2> QED BY <1>6, <2>1
<1> HIDE DEF f
<1>9. \A n \in D : f[n] = g[n]
  <2> DEFINE G == {n \in D : f[n] = g[n]}
  <2>1. ASSUME NEW n \in D, \A k \in D : m[k] < m[n] => k \in G PROVE f[n] = g[n]
    <3>1. AgreeBelow(f, g, D, m, n)
      <4> HIDE DEF m
      <4> QED BY <2>1 DEF AgreeBelow
    <3>2. at(f, n) = at(g, n)
      <4> HIDE DEF m
      <4> QED BY <1>3, <3>1
    <3> QED BY <1>6, <1>8, <3>2
  <2>2. Grows(G, D, m)
    <3> HIDE DEF m
    <3> QED BY <2>1 DEF Grows
  <2>3. m \in [D -> Nat]
    OBVIOUS
  <2>4. D \subseteq G
    <3> HIDE DEF G, D, m
    <3> QED BY <2>2, <2>3, ByMeasure
  <2> QED BY <2>4
<1>10. MaxHops - 1 \in Nat
  BY HopsAssumption
<1> QED BY <1>7, <1>9, <1>10

-----------------------------------------------------------------------------
(* Theorems *)

\* What holds of the planners: the types, and ChainsRunnable, which names the
\* dependencies too, and so needs that they stay as they are while a plan is out.
PlannerInv == PlannerTypeOK /\ ChainsRunnable

LEMMA OffersAreLists == Offers \subseteq Seq(ChainTools) /\ <<>> \in Offers
<1>1. ASSUME NEW s \in Offers PROVE s \in Seq(ChainTools)
  <2>1. PICK n \in 0 .. MaxAvailable : s \in [1 .. n -> ChainTools]
    BY DEF Offers, BoundedSeq, SeqOf
  <2>2. n \in Nat
    BY HopsAssumption
  <2> QED BY <2>1, <2>2
<1>2. <<>> \in [1 .. 0 -> ChainTools] /\ 0 \in 0 .. MaxAvailable
  BY HopsAssumption
<1>3. <<>> \in Offers
  BY <1>2 DEF Offers, BoundedSeq, SeqOf
<1> QED BY <1>1, <1>3

LEMMA PlannerInvInit ==
    ASSUME PlannerInit
    PROVE  PlannerInv
<1>1. <<>> \in Offers /\ <<>> \in Seq(Seq(ChainTools))
  BY OffersAreLists, EmptySeq
<1>2. PlannerTypeOK
  BY <1>1, TablesAssumption DEF PlannerInit, PlannerTypeOK, NoPlan
<1>3. ChainsRunnable
  BY DEF PlannerInit, ChainsRunnable, NoPlan
<1> QED BY <1>2, <1>3 DEF PlannerInv

LEMMA PlannerInvStep ==
    ASSUME PlannerInv, [PlannerNext]_plannerVars
    PROVE  PlannerInv'
<1>1. ASSUME planned' = NoPlan, dependencies' \in [ChainTools -> SUBSET ChainTools] PROVE PlannerInv'
  <2>1. <<>> \in Offers /\ <<>> \in Seq(Seq(ChainTools))
    BY OffersAreLists, EmptySeq
  <2>2. PlannerTypeOK'
    BY <1>1, <2>1 DEF PlannerTypeOK, NoPlan
  <2>3. ChainsRunnable'
    BY <1>1 DEF ChainsRunnable, NoPlan
  <2> QED BY <2>2, <2>3 DEF PlannerInv
<1>2. dependencies \in [ChainTools -> SUBSET ChainTools]
  BY DEF PlannerInv, PlannerTypeOK
<1>3. CASE PutAway
  BY <1>1, <1>2, <1>3 DEF PutAway
<1>4. ASSUME NEW tool \in ChainTools, NEW dependsOn \in ChainTools, AddDependency(tool, dependsOn)
      PROVE  PlannerInv'
  <2>1. planned' = NoPlan
    BY <1>4 DEF AddDependency
  <2>2. dependencies' \in [ChainTools -> SUBSET ChainTools]
    BY <1>2, <1>4 DEF AddDependency
  <2> QED BY <1>1, <2>1, <2>2
<1>5. ASSUME NEW a \in Offers, Plan(a) PROVE PlannerInv'
  <2>1. /\ planned' = [by |-> "planner", given |-> a, chains |-> Chains(a)]
        /\ dependencies' = dependencies
    BY <1>5 DEF Plan
  <2>2. a \in Seq(ChainTools)
    BY OffersAreLists
  <2>3. /\ Chains(a) \in Seq(Seq(ChainTools))
        /\ Len(a) > 1 => /\ \A c \in ToSet(Chains(a)) : Runs(c, a)
                         /\ ToSet(a) = UNION {ToSet(c) : c \in ToSet(Chains(a))}
    BY <2>2, ChainsRun
  <2> DEFINE chains == Chains(a)
  <2> HIDE DEF chains
  <2>4. planned'.by = "planner" /\ planned'.given = a /\ planned'.chains = chains
    BY <2>1 DEF chains
  <2>5. PlannerTypeOK'
    BY <1>2, <2>1, <2>3, <2>4 DEF PlannerTypeOK, chains
  <2>6. \A c \in ToSet(chains) : Runs(c, a)' <=> Runs(c, a)
    BY <2>1 DEF Runs, Exhausts
  <2>7. ChainsRunnable'
    BY <2>3, <2>4, <2>6 DEF ChainsRunnable, Runs, chains
  <2> QED BY <2>5, <2>7 DEF PlannerInv
<1>6. ASSUME NEW similarity \in [ChainTools -> 0 .. 2], PlanChain(similarity) PROVE PlannerInv'
  <2>1. PICK primary \in MatchTool(similarity) :
          planned' = [by |-> "matcher", given |-> <<>>, chains |->
            IF primary = Unknown THEN <<>> ELSE HopsFrom(primary)]
    BY <1>6 DEF PlanChain
  <2>2. dependencies' = dependencies
    BY <1>6 DEF PlanChain
  <2> DEFINE chains == IF primary = Unknown THEN <<>> ELSE HopsFrom(primary)
  <2>3. chains \in Seq(Trails)
    <3>1. CASE primary = Unknown
      BY <3>1, EmptySeq
    <3>2. CASE primary # Unknown
      <4>1. primary \in ChainTools
        BY <2>1, <3>2 DEF MatchTool
      <4> QED BY <3>2, <4>1, HopsTrails
    <3> QED BY <3>1, <3>2
  <2>4. planned'.by = "matcher" /\ planned'.given = <<>> /\ planned'.chains = chains
    BY <2>1
  <2> HIDE DEF chains
  <2>5. chains \in Seq(Seq(ChainTools))
    <3>1. Trails \subseteq Seq(ChainTools)
      BY DEF Trails
    <3> QED BY <2>3, <3>1, SeqMonotonic
  <2>6. \A c \in ToSet(chains) : IsInjective(c)
    BY <2>3 DEF ToSet, Trails
  <2>7. PlannerTypeOK'
    BY <1>2, <2>2, <2>4, <2>5, OffersAreLists DEF PlannerTypeOK
  <2>8. ChainsRunnable'
    BY <2>4, <2>6 DEF ChainsRunnable
  <2> QED BY <2>7, <2>8 DEF PlannerInv
<1>7. CASE UNCHANGED plannerVars
  <2>1. planned' = planned /\ dependencies' = dependencies
    BY <1>7 DEF plannerVars
  <2>2. PlannerTypeOK'
    BY <2>1 DEF PlannerInv, PlannerTypeOK
  <2>3. \A c, given : Exhausts(c, given)' <=> Exhausts(c, given)
    BY <2>1 DEF Exhausts
  <2>4. ChainsRunnable'
    BY <2>1, <2>3 DEF PlannerInv, ChainsRunnable
  <2> QED BY <2>2, <2>4 DEF PlannerInv
<1> QED BY <1>3, <1>4, <1>5, <1>6, <1>7 DEF PlannerNext

\* The invariant holds of every behaviour of the two planners.
THEOREM PlannerInvariance == PlannerSpec => []PlannerInv
<1> QED BY PlannerInvInit, PlannerInvStep, PTL DEF PlannerSpec

\* The state of the planners keeps its type (MultiHopChainPlanner, SemanticToolMatcher).
THEOREM PlannerTypeCorrect == PlannerSpec => []PlannerTypeOK
<1>1. PlannerInv => PlannerTypeOK
  BY DEF PlannerInv
<1> QED BY <1>1, PlannerInvariance, PTL

\* Whatever the dependencies, circular ones included, and whatever is on offer: past its
\* first tool no chain of plan runs a tool before one it depends on, every chain is the
\* offer rearranged up to a point where no tool left can come next, and no offered tool
\* is left out of all chains; no chain of plan_chain repeats a tool.
THEOREM ChainsHold == PlannerSpec => []ChainsRunnable
<1>1. PlannerInv => ChainsRunnable
  BY DEF PlannerInv
<1> QED BY <1>1, PlannerInvariance, PTL
=============================================================================
