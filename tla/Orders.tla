------------------------------- MODULE Orders -------------------------------
(***************************************************************************)
(* The handlers that write rows of the products table while others do the   *)
(* same: POST /orders (services/orders.py, create_order) and                 *)
(* PATCH /products/{id} (services/products.py, update_product).              *)
(*                                                                           *)
(* A handler is one SQLAlchemy session, hence one READ COMMITTED             *)
(* transaction.  It reads its rows with one SELECT, computes in Python, and   *)
(* on commit() the session flushes one UPDATE per changed row, in primary key  *)
(* order.  An UPDATE carries the number Python computed (SET stock = 7, not    *)
(* stock - 1), changes only the columns whose value changed, and waits while    *)
(* another transaction holds the row.                                         *)
(***************************************************************************)
EXTENDS Integers

CONSTANTS Requests,     \* handlers that may be running at the same time
          NumProducts,  \* rows of the products table, numbered by primary key
          Menu,         \* Menu[r]: product ids the payloads of r name
          Editable,     \* rows whose stock a PATCH may set
          MaxQuantity,  \* bound: units of one product in one order
          MaxStock,     \* bound: units a PATCH, or the first import, may set
          Prices,       \* values of the price column
          MaxSold       \* bound: units of one product a trace sells

Products == 1 .. NumProducts
Ids == 1 .. (NumProducts + 1)   \* the last one is the id of no row
Quantities == 1 .. MaxQuantity
Levels == 0 .. MaxStock

ASSUME NumProductsAssumption == NumProducts \in Nat
ASSUME MenuAssumption == Menu \in [Requests -> SUBSET Ids]
ASSUME EditableAssumption == Editable \subseteq Products
ASSUME BoundsAssumption ==
    MaxQuantity \in Nat /\ MaxStock \in Nat /\ MaxSold \in Nat

VARIABLES
    stock,      \* committed products.stock
    price,      \* committed products.price
    sold,       \* sum of order_items.quantity over committed orders, by row
    supplied,   \* history: units ever put on the shelf, by row
    pc,         \* where the handler is: "idle", "writing" or "committed"
    newStock,   \* row -> stock the session will write (changed rows only)
    newPrice,   \* row -> price the session will write (changed rows only)
    bought,     \* row -> quantity of the order being placed
    held,       \* rows whose lock the transaction holds
    stale,      \* history: rows another handler rewrote since r read them
    raced       \* history: rows an order committed over such a rewrite

database == <<stock, price, sold, supplied>>
session == <<newStock, newPrice, bought, held>>
history == <<stale, raced>>
vars == <<database, pc, session, history>>

EmptyRow == [p \in {} |-> 0]
\* Changed cells of one column: a value of S for some of the rows.
Cells(f, S) == f \in [DOMAIN f -> S] /\ DOMAIN f \subseteq Products

\* The rows the handler's flush has to UPDATE, and those it has not reached.
Dirty(r) == DOMAIN newStock[r] \cup DOMAIN newPrice[r]
Pending(r) == Dirty(r) \ held[r]

TypeOK ==
    /\ stock \in [Products -> Int]
    /\ price \in [Products -> Prices]
    /\ sold \in [Products -> Nat]
    /\ supplied \in [Products -> Int]
    /\ pc \in [Requests -> {"idle", "writing", "committed"}]
    /\ DOMAIN newStock = Requests
    /\ DOMAIN newPrice = Requests
    /\ DOMAIN bought = Requests
    /\ \A r \in Requests : /\ Cells(newStock[r], Int)
                            /\ Cells(newPrice[r], Prices)
                            /\ Cells(bought[r], Quantities)
    /\ held \in [Requests -> SUBSET Products]
    /\ stale \in [Requests -> SUBSET Products]
    /\ raced \in SUBSET Products

Init ==
    /\ stock \in [Products -> Levels]
    /\ price \in [Products -> Prices]
    /\ sold = [p \in Products |-> 0]
    /\ supplied = stock
    /\ pc = [r \in Requests |-> "idle"]
    /\ newStock = [r \in Requests |-> EmptyRow]
    /\ newPrice = [r \in Requests |-> EmptyRow]
    /\ bought = [r \in Requests |-> EmptyRow]
    /\ held = [r \in Requests |-> {}]
    /\ stale = [r \in Requests |-> {}]
    /\ raced = {}

-----------------------------------------------------------------------------
\* The request ends with an error before it has changed anything.
Refuse(code) == code \in {"404", "409"} /\ UNCHANGED vars

\* The handler goes on with the changes it has made to its session's objects.
StartWriting(r, stockCells, priceCells, basket) ==
    /\ pc' = [pc EXCEPT ![r] = "writing"]
    /\ newStock' = [newStock EXCEPT ![r] = stockCells]
    /\ newPrice' = [newPrice EXCEPT ![r] = priceCells]
    /\ bought' = [bought EXCEPT ![r] = basket]
    /\ UNCHANGED <<database, held, history>>

\* Variant with a fault: one unit short is let through.
CoversOffByOne(need) == \A p \in DOMAIN need : need[p] <= stock[p] + 1

\* product.stock < quantity, for each line against the row just read.
Covers(need) == \A p \in DOMAIN need : need[p] <= stock[p]

\* What product.stock -= quantity leaves in the session.
Decremented(need) == [p \in DOMAIN need |-> stock[p] - need[p]]

\* Variant with a fault: lines of unknown products are skipped, not refused.
PlaceKnownLines(r, need) ==
    /\ pc[r] = "idle"
    /\ LET known == [p \in DOMAIN need \cap Products |-> need[p]]
       IN  Covers(known) /\ StartWriting(r, Decremented(known), EmptyRow, need)

\* create_order up to its commit: the basket (quantities already added up per
\* product), the SELECT of its rows, the two checks and the decrement.
PlaceOrder(r, need) ==
    /\ pc[r] = "idle"
    /\ \/ /\ ~ DOMAIN need \subseteq Products
          /\ Refuse("404")
       \/ /\ DOMAIN need \subseteq Products
          /\ ~ Covers(need)
          /\ Refuse("409")
       \/ /\ DOMAIN need \subseteq Products
          /\ Covers(need)
          /\ \A p \in DOMAIN need : sold[p] + need[p] <= MaxSold
          /\ StartWriting(r, Decremented(need), EmptyRow, need)

\* Variant with a fault: the session writes every column of the row.
WholeRow(fields, p, column) ==
    [q \in {p} |-> IF q \in DOMAIN fields THEN fields[q] ELSE column[q]]

\* Of the fields a PATCH names, the session writes those that change the row.
Changed(fields, p, column) ==
    [q \in {x \in DOMAIN fields : x = p /\ fields[x] # column[x]} |-> fields[q]]

\* update_product up to its commit: the row, and the fields of the payload.
PatchProduct(r, p, stockField, priceField) ==
    /\ pc[r] = "idle"
    /\ \/ /\ p \notin Products
          /\ Refuse("404")
       \/ /\ p \in Products
          /\ StartWriting(r, Changed(stockField, p, stock),
                             Changed(priceField, p, price), EmptyRow)

\* Variant with a fault: UPDATEs go out in the order of the payload.
AnyOrder(r, p) == p \in Pending(r)

\* The flush sends its UPDATEs sorted by primary key.
NextToLock(r, p) == p \in Pending(r) /\ \A q \in Pending(r) : p <= q

\* One UPDATE of the flush: it waits for the row and keeps it until the end.
UpdateRow(r) ==
    /\ pc[r] = "writing"
    /\ \E p \in Pending(r) :
         /\ NextToLock(r, p)
         /\ \A q \in Requests \ {r} : p \notin held[q]
         /\ held' = [held EXCEPT ![r] = @ \cup {p}]
    /\ UNCHANGED <<database, pc, newStock, newPrice, bought, history>>

Written(cells, column) ==
    [p \in Products |-> IF p \in DOMAIN cells THEN cells[p] ELSE column[p]]

Sold(basket, p) == IF p \in DOMAIN basket THEN basket[p] ELSE 0

\* A PATCH that sets the stock is how units arrive on (or leave) the shelf of an
\* editable row.  A PATCH has no business with the stock of the others.
Delivered(r, p) ==
    IF p \in Editable \cap (DOMAIN newStock[r] \ DOMAIN bought[r])
    THEN newStock[r][p] - stock[p] ELSE 0

\* Variant with a fault: the row locks outlive the transaction.
LeaveLocked(r) ==
    /\ newStock' = [newStock EXCEPT ![r] = EmptyRow]
    /\ newPrice' = [newPrice EXCEPT ![r] = EmptyRow]
    /\ bought' = [bought EXCEPT ![r] = EmptyRow]
    /\ UNCHANGED held

\* The end of a transaction, either way: nothing pending, no lock held.
EndTransaction(r) ==
    /\ newStock' = [newStock EXCEPT ![r] = EmptyRow]
    /\ newPrice' = [newPrice EXCEPT ![r] = EmptyRow]
    /\ bought' = [bought EXCEPT ![r] = EmptyRow]
    /\ held' = [held EXCEPT ![r] = {}]

\* COMMIT: the UPDATEs and the INSERTed lines become visible, the locks go.
Commit(r) ==
    /\ pc[r] = "writing"
    /\ Pending(r) = {}
    /\ pc' = [pc EXCEPT ![r] = "committed"]
    /\ stock' = Written(newStock[r], stock)
    /\ price' = Written(newPrice[r], price)
    /\ sold' = [p \in Products |-> sold[p] + Sold(bought[r], p)]
    /\ supplied' = [p \in Products |-> supplied[p] + Delivered(r, p)]
    /\ EndTransaction(r)
    /\ raced' = raced \cup (DOMAIN bought[r] \cap stale[r])
    /\ stale' = [q \in Requests |->
                   IF q = r THEN {}
                   ELSE stale[q] \cup (DOMAIN newStock[r] \cap DOMAIN newStock[q])]

\* Variant with a fault: UPDATEs already sent survive the rollback.
RollbackTooLate(r) ==
    /\ pc[r] = "writing"
    /\ pc' = [pc EXCEPT ![r] = "idle"]
    /\ stock' = [p \in Products |-> IF p \in held[r] \cap DOMAIN newStock[r]
                                      THEN newStock[r][p] ELSE stock[p]]
    /\ EndTransaction(r)
    /\ stale' = [stale EXCEPT ![r] = {}]
    /\ UNCHANGED <<price, sold, supplied, raced>>

\* The transaction ends without its COMMIT: a database error, a lost
\* connection, a cancelled request or a dead worker.  Nothing was written.
Rollback(r) ==
    /\ pc[r] = "writing"
    /\ pc' = [pc EXCEPT ![r] = "idle"]
    /\ EndTransaction(r)
    /\ stale' = [stale EXCEPT ![r] = {}]
    /\ UNCHANGED <<database, raced>>

\* After the COMMIT the row is read again, the cache is invalidated and the reply
\* is sent.  Should one of these fail the client gets a 500, and the write stands.
Respond(r) ==
    /\ pc[r] = "committed"
    /\ pc' = [pc EXCEPT ![r] = "idle"]
    /\ UNCHANGED <<database, session, history>>

-----------------------------------------------------------------------------
\* The payloads of r: baskets over its menu, and PATCHes of one of its rows
\* that name the stock (where it is editable), the price, both or neither.
Baskets(r) == UNION {[lines -> Quantities] : lines \in (SUBSET Menu[r]) \ {{}}}
Field(rows, S) == {EmptyRow} \cup [rows -> S]

Arrive(r) ==
    \/ \E need \in Baskets(r) : PlaceOrder(r, need)
    \/ \E p \in Menu[r] :
         \E stockField \in Field({p} \cap Editable, Levels),
            priceField \in Field({p} \cap Products, Prices) :
              PatchProduct(r, p, stockField, priceField)

Next ==
    \E r \in Requests :
        Arrive(r) \/ UpdateRow(r) \/ Commit(r) \/ Rollback(r) \/ Respond(r)

\* Nobody has to send a request, but a running handler goes on; PostgreSQL
\* serves the waiters of a row in turn, so a row freed again and again is
\* eventually given to each of them.
Fairness ==
    \A r \in Requests :
        /\ SF_vars(UpdateRow(r))
        /\ WF_vars(Commit(r))
        /\ WF_vars(Respond(r))

Spec == Init /\ [][Next]_vars /\ Fairness

\* No two handlers are about to write the stock of row p.
Alone(p) ==
    \A r, q \in Requests : r # q => p \notin DOMAIN newStock[r] \cap DOMAIN newStock[q]

\* The behaviours in which no row is about to be written by two handlers at once.
\* Nothing in the code enforces it: a request that would contend comes later.
Uncontended == \A p \in Products : Alone(p)
UncontendedSpec == Init /\ [][Next /\ Uncontended']_vars

-----------------------------------------------------------------------------
\* Whatever the interleaving, no order and no PATCH brings a stock below zero:
\* not in the table, and not in a session that is about to write it.
StockNeverNegative ==
    /\ \A p \in Products : stock[p] >= 0
    /\ \A r \in Requests : \A p \in DOMAIN newStock[r] : newStock[r][p] >= 0

\* The books of a row (on the shelf plus sold equals supplied) balance as long
\* as no order committed over a row that was rewritten after its SELECT.  Other
\* interleavings are harmless: an order beside orders of other rows, a PATCH
\* of the price that commits late, a rollback in the middle of the flush.
LedgerUnlessRaced ==
    \A p \in Products \ raced : stock[p] + sold[p] = supplied[p]

\* Racing orders can only sell a unit twice, never lose one: where no PATCH sets
\* the stock, the shelf and the orders account for every unit supplied.
UnitsNeverVanish ==
    \A p \in Products \ Editable : stock[p] + sold[p] >= supplied[p]

Waits(r, q) ==
    pc[r] = "writing" /\ \E p \in held[q] : NextToLock(r, p)

\* No deadlock on row locks: in every group of handlers there is one that waits
\* for none of the group, because all flushes lock rows in the same order.
NoWaitCycle ==
    \A group \in (SUBSET Requests) \ {{}} :
        \E r \in group : \A q \in group : ~ Waits(r, q)

\* A flush that began ends: the handler gets all its rows and commits, or its
\* transaction is rolled back.
FlushEnds ==
    \A r \in Requests : pc[r] = "writing" ~> pc[r] # "writing"

\* As long as no two handlers are about to write the stock of one row, the basket
\* that was checked line by line against one SELECT leaves the shelf whole, as
\* StockLedger says: each order was covered by the stock it took from, and no PATCH
\* or rollback beside it undoes a part of it.
Ledger == INSTANCE StockLedger
LedgerSpec == Ledger!Spec

\* What tests/test_orders.py expects of one order after another (100 units less
\* the 5 ordered leave 95; an order beyond the stock is refused): orders never
\* take more units than were supplied.
NeverOversold == \A p \in Products : sold[p] <= supplied[p]
=============================================================================
