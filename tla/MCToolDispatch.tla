--------------------------- MODULE MCToolDispatch ---------------------------
(* Small instances of ToolDispatch for TLC. *)
EXTENDS ToolDispatch, TLC

CONSTANTS t1, t2, p1

\* Every policy denies t1 and lets t2 through.
MCDenied == [p \in Policies |-> {t1}]

\* Two embeddings are identical or too far apart for the CLE.
MCMatch == [v \in Intents |-> [i \in Intents |-> IF v = i THEN 2 ELSE 1]]

RequestSymmetry == Permutations(Requests)
=============================================================================
