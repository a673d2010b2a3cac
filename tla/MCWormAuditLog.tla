--------------------------- MODULE MCWormAuditLog ---------------------------
(* A small instance of WormAuditLog for TLC. *)
EXTENDS WormAuditLog, TLC

EventSymmetry == Permutations(Events)
=============================================================================
