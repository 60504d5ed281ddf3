---------------------------- MODULE StockLedger ----------------------------
(***************************************************************************)
(* What the storefront promises about stock: an order takes its whole       *)
(* basket off the shelf in one step, or takes nothing, so that every unit    *)
(* is on the shelf or sold.  Orders is the code that has to keep this.       *)
(***************************************************************************)
EXTENDS Integers

CONSTANTS Products,     \* rows of the products table
          Quantities,   \* how many units of a row one order may take
          Levels        \* how many units a manager may put on a shelf

VARIABLES stock,        \* units on the shelf, by row
          sold,         \* units in committed orders, by row
          supplied      \* units ever put on the shelf, by row

ledger == <<stock, sold, supplied>>

Init ==
    /\ stock \in [Products -> Levels]
    /\ sold = [p \in Products |-> 0]
    /\ supplied = stock

Taken(need, p) == IF p \in DOMAIN need THEN need[p] ELSE 0

\* An order buys its basket: every line is in stock, and all leave together.
Buy(need) ==
    /\ \A p \in DOMAIN need : need[p] <= stock[p]
    /\ stock' = [p \in Products |-> stock[p] - Taken(need, p)]
    /\ sold' = [p \in Products |-> sold[p] + Taken(need, p)]
    /\ UNCHANGED supplied

\* A manager sets the number of units on the shelf.
Restock(p, units) ==
    /\ stock' = [stock EXCEPT ![p] = units]
    /\ supplied' = [supplied EXCEPT ![p] = @ + units - stock[p]]
    /\ UNCHANGED sold

Next ==
    \/ \E lines \in SUBSET Products :
         \E need \in [lines -> Quantities] : Buy(need)
    \/ \E p \in Products, units \in Levels : Restock(p, units)

Spec == Init /\ [][Next]_ledger
=============================================================================
