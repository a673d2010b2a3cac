--------------------------- MODULE CorrectionStore ---------------------------
(***************************************************************************)
(* DuckDBCorrectionStore, and CaptureCorrectionCommand, which writes to it.*)
(*                                                                         *)
(* Each statement is a transaction of its own: commit() finds none to end. *)
(* From the INSERT of a correction to the end of its pattern's update the  *)
(* coroutine never suspends, but the update may raise, and the process may *)
(* die, in between.  The pattern of a pair of tools is its row: pattern_id *)
(* is drawn at random, and the average improvement is left out.            *)
(***************************************************************************)
EXTENDS Integers, FiniteSets

CONSTANTS
    Pairs,              \* the pairs <<original_tool, corrected_tool>>
    Embeddings,
    ZeroVector,         \* [0.0] * EMBEDDING_DIM
    Similar(_, _),      \* cosine similarity > PATTERN_SIMILARITY_THRESHOLD
    Limit,              \* LIMIT 10
    Callers,            \* callers of capture_correction
    NoCaller, NoPair,
    MaxCorrections      \* bound on the rows of corrections for a pair

ASSUME NoneAssumption  == /\ ZeroVector \notin Embeddings
                         /\ NoCaller \notin Callers /\ NoPair \notin Pairs
ASSUME PairsAssumption == IsFiniteSet(Pairs)
ASSUME LimitAssumption == Limit \in Nat \ {0}
ASSUME BoundAssumption == MaxCorrections \in Nat

VARIABLES
    corrections,    \* rows of the table corrections, by pair of tools
    patterns,       \* rows of correction_patterns; a pair with no row counts 0
    caller,         \* the CaptureCorrectionCommand of each caller
    running,        \* the caller between the INSERT and its answer
    found,          \* what find_patterns last returned
    acked,          \* history: captures that returned, by pair
    cut             \* history: captures interrupted between the statements, by pair

vars == <<corrections, patterns, caller, running, found, acked, cut>>

Vectors == Embeddings \cup {ZeroVector}

Capture == [pc : {"idle", "embed", "insert", "update", "answer", "returned",
                   "raised"},
            pair : Pairs \cup {NoPair}, vector : Vectors]

TypeOK ==
    /\ corrections \in [Pairs -> Nat]
    /\ patterns \in [Pairs -> [count : Nat, vector : Vectors]]
    /\ caller \in [Callers -> Capture]
    /\ running \in Callers \cup {NoCaller}
    /\ found \subseteq Pairs
    /\ acked \in [Pairs -> Nat]
    /\ cut \in [Pairs -> Nat]

NoCapture == [pc |-> "idle", pair |-> NoPair, vector |-> ZeroVector]

\* _init_schema: two empty tables.
Init ==
    /\ corrections = [p \in Pairs |-> 0]
    /\ patterns = [p \in Pairs |-> [count |-> 0, vector |-> ZeroVector]]
    /\ caller = [c \in Callers |-> NoCapture]
    /\ running = NoCaller
    /\ found = {}
    /\ acked = [p \in Pairs |-> 0]
    /\ cut = [p \in Pairs |-> 0]

-----------------------------------------------------------------------------
(* Capturing a correction *)

\* "classifier": the intent is not empty and a classifier is passed in, as the
\* correction server does and the Claude Code server does not.
Begin(c, p, classifier) ==
    /\ running = NoCaller
    /\ caller[c].pc \in {"idle", "returned", "raised"}
    /\ corrections[p] < MaxCorrections
    /\ caller' = [caller EXCEPT ![c] =
         [pc |-> IF classifier THEN "embed" ELSE "insert", pair |-> p, vector |-> ZeroVector]]
    /\ UNCHANGED <<corrections, patterns, running, found, acked, cut>>

\* get_embedding returns, or raises before anything is saved.
GetEmbedding(c) ==
    /\ running = NoCaller
    /\ caller[c].pc = "embed"
    /\ \/ \E v \in Embeddings :
            caller' = [caller EXCEPT ![c] =
              [pc |-> "insert", pair |-> caller[c].pair, vector |-> v]]
       \/ caller' = [caller EXCEPT ![c].pc = "raised"]
    /\ UNCHANGED <<corrections, patterns, running, found, acked, cut>>

\* Mutant of InsertCorrection: a failed INSERT is passed over.
InsertCorrectionMaybe(c) ==
    /\ running = NoCaller
    /\ caller[c].pc = "insert"
    /\ \/ corrections' = [corrections EXCEPT ![caller[c].pair] = @ + 1]
       \/ corrections' = corrections
    /\ running' = c
    /\ caller' = [caller EXCEPT ![c].pc = "update"]
    /\ UNCHANGED <<patterns, found, acked, cut>>

\* save_correction: the INSERT, which may raise.
InsertCorrection(c) ==
    /\ running = NoCaller
    /\ caller[c].pc = "insert"
    /\ \/ /\ corrections' = [corrections EXCEPT ![caller[c].pair] = @ + 1]
          /\ running' = c
          /\ caller' = [caller EXCEPT ![c].pc = "update"]
       \/ /\ caller' = [caller EXCEPT ![c].pc = "raised"]
          /\ UNCHANGED <<corrections, running>>
    /\ UNCHANGED <<patterns, found, acked, cut>>

\* _update_pattern_from_correction
UpdatePattern(c) ==
    /\ running = c /\ caller[c].pc = "update"
    /\ patterns' = [patterns EXCEPT ![caller[c].pair] =
         [count |-> patterns[caller[c].pair].count + 1, vector |-> caller[c].vector]]
    /\ caller' = [caller EXCEPT ![c].pc = "answer"]
    /\ UNCHANGED <<corrections, running, found, acked, cut>>

\* execute returns the correction.
Answer(c) ==
    /\ running = c /\ caller[c].pc = "answer"
    /\ acked' = [acked EXCEPT ![caller[c].pair] = @ + 1]
    /\ running' = NoCaller
    /\ caller' = [caller EXCEPT ![c].pc = "returned"]
    /\ UNCHANGED <<corrections, patterns, found, cut>>

\* The update raises.  The correction stays; a caller that tries again adds another.
UpdateFails(c) ==
    /\ running = c /\ caller[c].pc = "update"
    /\ cut' = [cut EXCEPT ![caller[c].pair] = @ + 1]
    /\ running' = NoCaller
    /\ caller' = [caller EXCEPT ![c].pc = "raised"]
    /\ UNCHANGED <<corrections, patterns, found, acked>>

\* Between the two statements of a capture of this pair.
Between(p) == running # NoCaller /\ caller[running].pair = p /\ caller[running].pc = "update"

\* The process dies, and another one opens the same database.  A caller whose pattern was
\* updated already may not know, and try again.
Crash ==
    /\ cut' = [p \in Pairs |-> cut[p] + IF Between(p) THEN 1 ELSE 0]
    /\ caller' = [c \in Callers |-> NoCapture]
    /\ running' = NoCaller
    /\ found' = {}
    /\ UNCHANGED <<corrections, patterns, acked>>

-----------------------------------------------------------------------------
(* Finding patterns *)

Stored == {p \in Pairs : patterns[p].count > 0}

\* Mutant of Outranks: ORDER BY occurrence_count ASC.
OutranksBelow(p, q) == patterns[p].count < patterns[q].count

Outranks(p, q) == patterns[p].count > patterns[q].count

\* ORDER BY occurrence_count DESC LIMIT 10: ties are broken at will.
IsTop(S) ==
    /\ Cardinality(S) = IF Cardinality(Stored) < Limit THEN Cardinality(Stored) ELSE Limit
    /\ \A p \in S, q \in Stored \ S : ~ Outranks(q, p)

FindPatterns(v) ==
    /\ running = NoCaller
    /\ \E S \in SUBSET Stored :
         /\ IsTop(S)
         /\ found' = {p \in S : Similar(v, patterns[p].vector)}
    /\ UNCHANGED <<corrections, patterns, caller, running, acked, cut>>

Next ==
    \/ \E c \in Callers, p \in Pairs, b \in BOOLEAN : Begin(c, p, b)
    \/ \E c \in Callers :
         \/ GetEmbedding(c)
         \/ InsertCorrection(c)
         \/ UpdatePattern(c)
         \/ Answer(c)
         \/ UpdateFails(c)
    \/ Crash
    \/ \E v \in Embeddings : FindPatterns(v)

Spec == Init /\ [][Next]_vars

-----------------------------------------------------------------------------
(* Properties *)

\* Through crashes, failed statements and callers that try again, a pattern counts
\* every capture that returned, and what it misses of the stored corrections is
\* exactly those that were cut off between the two statements.
CountsAgree ==
    \A p \in Pairs :
      /\ acked[p] <= patterns[p].count
      /\ corrections[p] = patterns[p].count + cut[p] + IF Between(p) THEN 1 ELSE 0

\* A similar pattern is passed over by find_patterns only when Limit others have
\* been reinforced at least as often: similarity is asked after the LIMIT.
MissedOnlyIfCrowdedOut ==
    [][\A v \in Embeddings : FindPatterns(v) =>
         \A p \in Stored : Similar(v, patterns[p].vector) /\ p \notin found' =>
           Cardinality({q \in Stored \ {p} : patterns[q].count >= patterns[p].count})
             >= Limit]_vars

\* README.md:236: the store "stores real intent embeddings (not zero vectors)".  A
\* pattern that has an embedding keeps one.
EmbeddingsKept ==
    [][\A p \in Pairs :
         patterns[p].vector # ZeroVector => patterns'[p].vector # ZeroVector]_vars
=============================================================================
