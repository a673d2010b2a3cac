--------------------------- MODULE AppendOnlyLog ---------------------------
(***************************************************************************)
(* What an append-only log promises, whatever it is built of: an entry     *)
(* that entered the log stays, unchanged, and a later entry has a larger   *)
(* sequence number.                                                        *)
(***************************************************************************)
EXTENDS Integers

VARIABLE log    \* the set of entries, each with a sequence number "seq"

Init == log = {}

Append == \E e \in log' :
            /\ e \notin log /\ log' = log \cup {e}
            /\ \A f \in log : f.seq < e.seq

Spec == Init /\ [][Append]_log
=============================================================================
