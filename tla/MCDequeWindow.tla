--------------------------- MODULE MCDequeWindow ---------------------------
(* DequeWindow with the values its run uses. *)
EXTENDS DequeWindow, TLC

CONSTANTS m1, m2, m3, m4, m5

\* The names of hits are alike.
Symmetry == Permutations({m1, m2, m3, m4, m5})
=============================================================================
