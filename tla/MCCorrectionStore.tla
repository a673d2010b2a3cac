------------------------- MODULE MCCorrectionStore --------------------------
(* A small instance of CorrectionStore for TLC. *)
EXTENDS CorrectionStore

CONSTANTS p1, p2, v1, v2, c1

\* Two intents, each similar to itself only; nothing is similar to the zero vector.
MCSimilar(v, w) == v = w
=============================================================================
