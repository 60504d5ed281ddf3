--------------------------- MODULE MCProductCache ---------------------------
(* ProductCache with the values its runs use. *)
EXTENDS ProductCache, TLC

CONSTANTS r1, r2, w1, w2, s1, s2

Symmetry == Permutations({r1, r2}) \cup Permutations({w1, w2})

OneStore == [h \in Readers \cup Writers |-> s1]
TwoStores == [h \in Readers \cup Writers |-> IF h \in {r1, w1} THEN s1 ELSE s2]
=============================================================================
