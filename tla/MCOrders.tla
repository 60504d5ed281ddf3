------------------------------ MODULE MCOrders ------------------------------
(* Orders with the values its runs use. *)
EXTENDS Orders, TLC

CONSTANTS r1, r2, r3

\* The two handlers are interchangeable where they share a menu.
Symmetry == Permutations({r1, r2})

Two == {r1, r2}
Three == {r1, r2, r3}
TwoPrices == {10, 12}
OnePrice == {10}
NoRow == {}
SecondRow == {2}
BothRows == {1, 2}

\* Every payload may name every row, and the id of none.
SharedByTwo == [r \in Two |-> Ids]
SharedByThree == [r \in Three |-> Products]
=============================================================================
