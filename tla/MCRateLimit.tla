---------------------------- MODULE MCRateLimit ----------------------------
(* RateLimit with the values its runs use. *)
EXTENDS RateLimit, TLC

CONSTANTS r1, r2, m1, m2, m3, m4, m5

\* Requests are alike, and so are the names of hits.
Symmetry == Permutations({r1, r2}) \cup Permutations({m1, m2, m3, m4, m5})
=============================================================================
