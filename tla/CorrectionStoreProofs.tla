------------------------ MODULE CorrectionStoreProofs ------------------------
(***************************************************************************)
(* The counts of the correction store, proved for any number of callers,   *)
(* pairs of tools and rows.                                                *)
(***************************************************************************)
EXTENDS CorrectionStore, FiniteSetTheorems, TLAPS

\* Where a capture is, and what it then knows.
CapturesPlaced ==
    /\ \A c \in Callers :
         /\ caller[c].pc \in {"embed", "insert", "update", "answer"} => caller[c].pair \in Pairs
         /\ caller[c].pc \in {"update", "answer"} => running = c
    /\ running # NoCaller => caller[running].pc \in {"update", "answer"}

\* Updated, and not answered yet.
Answering(p) == running # NoCaller /\ caller[running].pair = p /\ caller[running].pc = "answer"

\* A pattern counts the capture that is about to return besides those that did.
AnswerCounted ==
    \A p \in Pairs : acked[p] + (IF Answering(p) THEN 1 ELSE 0) <= patterns[p].count

\* CountsAgree alone is not inductive: the pattern that is updated must be that of the
\* correction just stored, and an answer must come after it.
IndInv == TypeOK /\ CapturesPlaced /\ AnswerCounted /\ CountsAgree

-----------------------------------------------------------------------------
LEMMA InitInductive == Init => IndInv
<1> SUFFICES ASSUME Init PROVE IndInv
    OBVIOUS
<1>1. TypeOK
    BY DEF Init, TypeOK, Vectors, Capture, NoCapture
<1>2. CapturesPlaced
    BY DEF Init, CapturesPlaced, NoCapture
<1>3. CountsAgree /\ AnswerCounted
    BY DEF Init, CountsAgree, AnswerCounted, Between, Answering
<1> QED
    BY <1>1, <1>2, <1>3 DEF IndInv

LEMMA BeginKeeps ==
    ASSUME IndInv, NEW c \in Callers, NEW p \in Pairs, NEW b \in BOOLEAN, Begin(c, p, b)
    PROVE  IndInv'
<1> USE DEF Begin
<1>1. TypeOK'
    BY DEF IndInv, TypeOK, Vectors, Capture
<1>2. CapturesPlaced'
    BY NoneAssumption DEF IndInv, TypeOK, CapturesPlaced, Capture
<1>3. CountsAgree' /\ AnswerCounted'
    BY DEF IndInv, CountsAgree, AnswerCounted, Between, Answering
<1> QED
    BY <1>1, <1>2, <1>3 DEF IndInv

\* Replacing one caller by one of the type keeps the callers typed.
LEMMA CallerTyped ==
    ASSUME caller \in [Callers -> Capture], NEW c \in Callers, NEW capture \in Capture,
           caller' = [caller EXCEPT ![c] = capture]
    PROVE  caller' \in [Callers -> Capture]
OBVIOUS

\* A caller moved on stays one, and so do the callers when one of them moves on.
LEMMA MovedTyped ==
    ASSUME NEW capture \in Capture,
           NEW pc \in {"idle", "embed", "insert", "update", "answer", "returned", "raised"}
    PROVE  [capture EXCEPT !.pc = pc] \in Capture
BY DEF Capture

LEMMA MovesOn ==
    ASSUME caller \in [Callers -> Capture], NEW c \in Callers,
           NEW pc \in {"idle", "embed", "insert", "update", "answer", "returned", "raised"},
           caller' = [caller EXCEPT ![c].pc = pc]
    PROVE  /\ caller' \in [Callers -> Capture]
           /\ caller'[c].pc = pc /\ caller'[c].pair = caller[c].pair
           /\ \A o \in Callers \ {c} : caller'[o] = caller[o]
<1>1. caller' = [caller EXCEPT ![c] = [caller[c] EXCEPT !.pc = pc]]
  OBVIOUS
<1>2. [caller[c] EXCEPT !.pc = pc] \in Capture
  BY MovedTyped
<1>3. caller'[c] = [caller[c] EXCEPT !.pc = pc]
  BY <1>1
<1>4. caller'[c].pc = pc /\ caller'[c].pair = caller[c].pair
  BY <1>3 DEF Capture
<1> QED BY <1>1, <1>2, <1>4, CallerTyped

LEMMA GetEmbeddingKeeps ==
    ASSUME IndInv, NEW c \in Callers, GetEmbedding(c)
    PROVE  IndInv'
<1> USE DEF GetEmbedding
<1>1. TypeOK'
  <2>1. caller \in [Callers -> Capture] /\ caller[c].pair \in Pairs \cup {NoPair}
    BY DEF IndInv, TypeOK, Capture
  <2>2. caller' \in [Callers -> Capture]
    <3>1. ASSUME NEW v \in Embeddings, caller' = [caller EXCEPT ![c] =
                   [pc |-> "insert", pair |-> caller[c].pair, vector |-> v]]
          PROVE  caller' \in [Callers -> Capture]
      <4>1. [pc |-> "insert", pair |-> caller[c].pair, vector |-> v] \in Capture
        BY <2>1 DEF Capture, Vectors
      <4> QED BY <2>1, <3>1, <4>1, CallerTyped
    <3>2. CASE caller' = [caller EXCEPT ![c].pc = "raised"]
      <4>1. [caller[c] EXCEPT !.pc = "raised"] \in Capture
        BY <2>1, MovedTyped
      <4>2. caller' = [caller EXCEPT ![c] = [caller[c] EXCEPT !.pc = "raised"]]
        BY <3>2
      <4> QED BY <2>1, <4>1, <4>2, CallerTyped
    <3> QED BY <3>1, <3>2
  <2> QED
    BY <2>2 DEF IndInv, TypeOK
<1>2. CapturesPlaced'
    BY NoneAssumption DEF IndInv, TypeOK, CapturesPlaced, Capture
<1>3. CountsAgree' /\ AnswerCounted'
    BY DEF IndInv, CountsAgree, AnswerCounted, Between, Answering
<1> QED
    BY <1>1, <1>2, <1>3 DEF IndInv

LEMMA InsertCorrectionKeeps ==
    ASSUME IndInv, NEW c \in Callers, InsertCorrection(c)
    PROVE  IndInv'
<1> USE DEF InsertCorrection
<1>1. caller[c].pair \in Pairs
    BY DEF IndInv, CapturesPlaced
<1>0. /\ caller' \in [Callers -> Capture]
      /\ caller'[c].pc \in {"update", "raised"} /\ caller'[c].pair = caller[c].pair
      /\ \A o \in Callers \ {c} : caller'[o] = caller[o]
    BY MovesOn DEF IndInv, TypeOK
<1>2. TypeOK'
    BY <1>0, <1>1 DEF IndInv, TypeOK
<1>3. CapturesPlaced'
  <2>1. /\ running = NoCaller /\ NoCaller \notin Callers
        /\ \A o \in Callers : caller[o].pc \notin {"update", "answer"}
    BY NoneAssumption DEF IndInv, CapturesPlaced
  <2>2. CASE running' = c /\ caller'[c].pc = "update"
    BY <1>0, <1>1, <2>1, <2>2 DEF IndInv, CapturesPlaced
  <2>3. CASE running' = running /\ caller'[c].pc = "raised"
    BY <1>0, <2>1, <2>3 DEF IndInv, CapturesPlaced
  <2>4. caller' = [caller EXCEPT ![c].pc = "raised"] => caller'[c].pc = "raised"
    BY MovesOn DEF IndInv, TypeOK
  <2>5. caller' = [caller EXCEPT ![c].pc = "update"] => caller'[c].pc = "update"
    BY MovesOn DEF IndInv, TypeOK
  <2> QED BY <2>2, <2>3, <2>4, <2>5
<1>4. CountsAgree'
  <2>1. \A p \in Pairs : /\ acked[p] <= patterns[p].count
                         /\ corrections[p] = patterns[p].count + cut[p] + 0
                         /\ patterns[p].count \in Nat /\ cut[p] \in Nat
    BY NoneAssumption DEF IndInv, TypeOK, CountsAgree, Between
  <2>2. CASE /\ corrections' = [corrections EXCEPT ![caller[c].pair] = @ + 1]
             /\ running' = c /\ caller'[c].pc = "update"
    <3>1. \A p \in Pairs : corrections'[p] = corrections[p] + IF Between(p)' THEN 1 ELSE 0
      BY <1>0, <2>1, <2>2, NoneAssumption DEF IndInv, TypeOK, Between
    <3> QED BY <2>1, <3>1 DEF CountsAgree
  <2>3. CASE UNCHANGED <<corrections, running>>
    BY <2>1, <2>3 DEF CountsAgree, Between
  <2>4. caller' = [caller EXCEPT ![c].pc = "update"] => caller'[c].pc = "update"
    BY MovesOn DEF IndInv, TypeOK
  <2> QED BY <2>2, <2>3, <2>4
<1>5. AnswerCounted'
    BY <1>0, <1>1, NoneAssumption DEF IndInv, TypeOK, AnswerCounted, Answering
<1> QED
    BY <1>2, <1>3, <1>4, <1>5 DEF IndInv

LEMMA UpdatePatternKeeps ==
    ASSUME IndInv, NEW c \in Callers, UpdatePattern(c)
    PROVE  IndInv'
<1> USE DEF UpdatePattern
<1>1. caller[c].pair \in Pairs /\ running = c /\ c # NoCaller
    BY NoneAssumption DEF IndInv, CapturesPlaced
<1>0. /\ caller' \in [Callers -> Capture]
      /\ caller'[c].pc = "answer" /\ caller'[c].pair = caller[c].pair
      /\ \A o \in Callers \ {c} : caller'[o] = caller[o]
    BY MovesOn DEF IndInv, TypeOK
<1>2. TypeOK'
    BY <1>0, <1>1 DEF IndInv, TypeOK, Vectors, Capture
<1>3. CapturesPlaced'
    BY <1>0, <1>1 DEF IndInv, CapturesPlaced
<1>4. CountsAgree' /\ AnswerCounted'
  <2> SUFFICES ASSUME NEW p \in Pairs
               PROVE  /\ acked'[p] <= patterns'[p].count
                      /\ acked'[p] + (IF Answering(p)' THEN 1 ELSE 0) <= patterns'[p].count
                      /\ corrections'[p] = patterns'[p].count + cut'[p]
                           + IF Between(p)' THEN 1 ELSE 0
    BY DEF CountsAgree, AnswerCounted
  <2>1. /\ acked[p] \in Nat /\ cut[p] \in Nat
        /\ patterns[p].count \in Nat
        /\ acked[p] <= patterns[p].count
        /\ corrections[p] = patterns[p].count + cut[p]
             + IF caller[c].pair = p THEN 1 ELSE 0
    BY <1>1 DEF IndInv, TypeOK, CountsAgree, Between
  <2>2. ~ Between(p)' /\ (Answering(p)' <=> caller[c].pair = p)
    BY <1>0, <1>1 DEF Between, Answering
  <2>3. CASE caller[c].pair = p
    <3>1. patterns'[p].count = patterns[p].count + 1
      BY <2>3 DEF IndInv, TypeOK
    <3> QED
      BY <2>1, <2>2, <2>3, <3>1
  <2>4. CASE caller[c].pair # p
    <3>1. patterns'[p] = patterns[p]
      BY <2>4 DEF IndInv, TypeOK
    <3> QED
      BY <2>1, <2>2, <2>4, <3>1
  <2> QED
    BY <2>3, <2>4
<1> QED
    BY <1>2, <1>3, <1>4 DEF IndInv

LEMMA AnswerKeeps ==
    ASSUME IndInv, NEW c \in Callers, Answer(c)
    PROVE  IndInv'
<1> USE DEF Answer
<1>1. caller[c].pair \in Pairs /\ running = c /\ c # NoCaller
    BY NoneAssumption DEF IndInv, CapturesPlaced
<1>0. /\ caller' \in [Callers -> Capture]
      /\ caller'[c].pc \in {"returned"} /\ caller'[c].pair = caller[c].pair
      /\ \A o \in Callers \ {c} : caller'[o] = caller[o]
    BY MovesOn DEF IndInv, TypeOK
<1>2. TypeOK'
    BY <1>0, <1>1 DEF IndInv, TypeOK
<1>3. CapturesPlaced'
    BY <1>0, NoneAssumption DEF IndInv, TypeOK, CapturesPlaced
<1>4. CountsAgree' /\ AnswerCounted'
    BY <1>1 DEF IndInv, TypeOK, CountsAgree, AnswerCounted, Between, Answering
<1> QED
    BY <1>2, <1>3, <1>4 DEF IndInv

LEMMA UpdateFailsKeeps ==
    ASSUME IndInv, NEW c \in Callers, UpdateFails(c)
    PROVE  IndInv'
<1> USE DEF UpdateFails
<1>1. caller[c].pair \in Pairs
    BY NoneAssumption DEF IndInv, CapturesPlaced
<1>0. /\ caller' \in [Callers -> Capture]
      /\ caller'[c].pc \in {"raised"} /\ caller'[c].pair = caller[c].pair
      /\ \A o \in Callers \ {c} : caller'[o] = caller[o]
    BY MovesOn DEF IndInv, TypeOK
<1>2. TypeOK'
    BY <1>0, <1>1 DEF IndInv, TypeOK
<1>3. CapturesPlaced'
    BY <1>0, NoneAssumption DEF IndInv, TypeOK, CapturesPlaced
<1>4. CountsAgree' /\ AnswerCounted'
    BY <1>0, <1>1, NoneAssumption
       DEF IndInv, TypeOK, CountsAgree, AnswerCounted, Between, Answering
<1> QED
    BY <1>2, <1>3, <1>4 DEF IndInv

LEMMA CrashKeeps ==
    ASSUME IndInv, Crash
    PROVE  IndInv'
<1> USE DEF Crash
<1>2. TypeOK'
    BY DEF IndInv, TypeOK, Vectors, Capture, NoCapture
<1>3. CapturesPlaced'
    BY DEF CapturesPlaced, NoCapture
<1>4. CountsAgree'
    BY DEF IndInv, TypeOK, CountsAgree, Between
<1>5. AnswerCounted'
    BY DEF IndInv, TypeOK, AnswerCounted, Answering
<1> QED
    BY <1>2, <1>3, <1>4, <1>5 DEF IndInv

LEMMA FindPatternsKeeps ==
    ASSUME IndInv, NEW v \in Embeddings, FindPatterns(v)
    PROVE  IndInv'
<1>1. /\ found' \subseteq Pairs
      /\ UNCHANGED <<corrections, patterns, caller, running, acked, cut>>
    BY DEF FindPatterns, Stored
<1> QED
    BY <1>1 DEF IndInv, TypeOK, CapturesPlaced, CountsAgree, AnswerCounted, Between, Answering

LEMMA NextInductive == IndInv /\ [Next]_vars => IndInv'
<1> SUFFICES ASSUME IndInv, [Next]_vars PROVE IndInv'
    OBVIOUS
<1>1. ASSUME NEW c \in Callers, NEW p \in Pairs, NEW b \in BOOLEAN, Begin(c, p, b)
      PROVE  IndInv'
    BY <1>1, BeginKeeps
<1>2. ASSUME NEW c \in Callers, GetEmbedding(c) PROVE IndInv'
    BY <1>2, GetEmbeddingKeeps
<1>3. ASSUME NEW c \in Callers, InsertCorrection(c) PROVE IndInv'
    BY <1>3, InsertCorrectionKeeps
<1>4. ASSUME NEW c \in Callers, UpdatePattern(c) PROVE IndInv'
    BY <1>4, UpdatePatternKeeps
<1>5. ASSUME NEW c \in Callers, UpdateFails(c) PROVE IndInv'
    BY <1>5, UpdateFailsKeeps
<1>9. ASSUME NEW c \in Callers, Answer(c) PROVE IndInv'
    BY <1>9, AnswerKeeps
<1>6. CASE Crash
    BY <1>6, CrashKeeps
<1>7. ASSUME NEW v \in Embeddings, FindPatterns(v) PROVE IndInv'
    BY <1>7, FindPatternsKeeps
<1>8. CASE UNCHANGED vars
    BY <1>8 DEF vars, IndInv, TypeOK, CapturesPlaced, CountsAgree, AnswerCounted, Between, Answering
<1> QED
    BY <1>1, <1>2, <1>3, <1>4, <1>5, <1>6, <1>7, <1>8, <1>9 DEF Next

\* The strengthened invariant holds in every reachable state of the store.
THEOREM Invariance == Spec => []IndInv
    BY InitInductive, NextInductive, PTL DEF Spec

\* The store's state keeps its type.
THEOREM TypeCorrect == Spec => []TypeOK
<1>1. IndInv => TypeOK
    BY DEF IndInv
<1> QED
    BY <1>1, Invariance, PTL

\* Through any crashes, failed statements and retries, each pattern counts every
\* capture that returned and misses exactly those cut off between the statements.
THEOREM CountsHold == Spec => []CountsAgree
<1>1. IndInv => CountsAgree
    BY DEF IndInv
<1> QED
    BY <1>1, Invariance, PTL

-----------------------------------------------------------------------------
\* A row outside the LIMIT is outranked, or tied, by Limit others.
LEMMA OutsideTheLimit ==
    ASSUME TypeOK, NEW S \in SUBSET Stored, IsTop(S), NEW p \in Stored \ S
    PROVE  Cardinality({q \in Stored \ {p} : patterns[q].count >= patterns[p].count})
             >= Limit
<1> DEFINE Above == {q \in Stored \ {p} : patterns[q].count >= patterns[p].count}
<1>1. IsFiniteSet(Stored) /\ IsFiniteSet(Above)
  <2>1. Stored \subseteq Pairs /\ Above \subseteq Pairs
    BY DEF Stored
  <2> QED
    BY <2>1, PairsAssumption, FS_Subset
<1>2. Cardinality(S) < Cardinality(Stored)
  <2>1. S # Stored /\ S \subseteq Stored
    OBVIOUS
  <2> QED
    BY <2>1, <1>1, FS_Subset, FS_CardinalityType
<1>3. Cardinality(S) = Limit
    BY <1>1, <1>2, FS_CardinalityType DEF IsTop
<1>4. S \subseteq Above
  <2> SUFFICES ASSUME NEW q \in S PROVE patterns[q].count >= patterns[p].count
    OBVIOUS
  <2>1. patterns[q].count \in Nat /\ patterns[p].count \in Nat
    BY DEF Stored, TypeOK
  <2>2. ~ (patterns[p].count > patterns[q].count)
    BY DEF IsTop, Outranks
  <2> QED
    BY <2>1, <2>2
<1>5. Cardinality(S) <= Cardinality(Above)
    BY <1>1, <1>4, FS_Subset
<1> QED
    BY <1>3, <1>5

\* find_patterns passes a similar pattern over only when Limit others have been
\* reinforced at least as often, with any number of patterns and any ties.
THEOREM MissesExplained == Spec => MissedOnlyIfCrowdedOut
<1> DEFINE Missed ==
      \A v \in Embeddings : FindPatterns(v) =>
         \A p \in Stored : Similar(v, patterns[p].vector) /\ p \notin found' =>
           Cardinality({q \in Stored \ {p} : patterns[q].count >= patterns[p].count})
             >= Limit
<1>1. TypeOK /\ [Next]_vars => [Missed]_vars
  <2> SUFFICES ASSUME TypeOK, NEW v \in Embeddings, FindPatterns(v),
                      NEW p \in Stored, Similar(v, patterns[p].vector), p \notin found'
               PROVE  Cardinality({q \in Stored \ {p} : patterns[q].count >= patterns[p].count})
                        >= Limit
    OBVIOUS
  <2>1. PICK S \in SUBSET Stored :
          IsTop(S) /\ found' = {q \in S : Similar(v, patterns[q].vector)}
    BY DEF FindPatterns
  <2>2. p \in Stored \ S
    BY <2>1
  <2> QED
    BY <2>1, <2>2, OutsideTheLimit
<1> QED
    BY <1>1, TypeCorrect, PTL DEF Spec, MissedOnlyIfCrowdedOut
=============================================================================
