---------------------------- MODULE MCOrderBook ----------------------------
(* OrderBook with the values its run uses. *)
EXTENDS OrderBook, TLC

CONSTANTS r1, r2, u1

Symmetry == Permutations({r1, r2})

OneOf(p) == [product |-> p, quantity |-> 1]

TenEach == [p \in {1, 2, 3} |-> 10]

\* Two products, one of them on two lines; a product still to be created.
Baskets == {<<OneOf(1), OneOf(2), OneOf(1)>>, <<OneOf(3)>>}
=============================================================================
