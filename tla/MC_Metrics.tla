----------------------------- MODULE MC_Metrics -----------------------------
(* Three threads that make four calls between them.                          *)
EXTENDS Metrics, TLC

CONSTANTS a, b, c

ThreeThreads == {a, b, c}
Symmetry == Permutations(ThreeThreads)
=============================================================================
