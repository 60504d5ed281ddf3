------------------------------ MODULE OrderBook ------------------------------
(***************************************************************************)
(* The tables orders and order_items: create_order, list_orders and          *)
(* change_order_status (services/orders.py), and what happens around them: a  *)
(* PATCH of a price, a new product, and scripts/seed_demo.py, which deletes    *)
(* the products and the users of a service that may be running.  The foreign   *)
(* keys are those of the migration.  The stock is the subject of Orders.       *)
(*                                                                           *)
(* Orders are numbered as they are committed.  The prices ever committed are   *)
(* kept in a sequence, so that an instant is an index of it.                   *)
(***************************************************************************)
EXTENDS Integers, Sequences

F == INSTANCE Functions
S == INSTANCE SequencesExt

CONSTANTS
    Requests,   \* handlers that may be running at the same time
    Users,      \* ids of users; every one is registered at the start
    Rows,       \* ids of products, used and still to be used
    Stocked,    \* the products of the start
    Payloads,   \* bodies of POST /orders: sequences of lines
    Prices,     \* values of the price column
    Opening,    \* what each product costs until its price is first changed
    Statuses,   \* values of the enum order_status
    MaxTotal,   \* the largest total the NUMERIC column takes
    MaxOrders,  \* bound: orders a trace commits
    MaxQuotes   \* bound: states of the price column in a trace

Numbers == 1 .. MaxOrders

\* A line of a payload: quantity is Field(gt=0, le=1000).
Line == [product : Rows, quantity : 1 .. 1000]

ASSUME RowsAssumption == Rows \subseteq Nat /\ Stocked \subseteq Rows
ASSUME PricesAssumption == Prices \subseteq Nat /\ Opening \in [Rows -> Prices]
ASSUME MaxOrdersAssumption == MaxOrders \in Nat
ASSUME StatusesAssumption == "pending" \in Statuses
ASSUME PayloadsAssumption == Payloads \subseteq Seq(Line)

VARIABLES
    products,  \* committed rows of the products table
    made,      \* ids the products table has ever given
    users,     \* committed rows of the users table
    quotes,    \* history: the price column, from the first state to this one
    placed,    \* every order that was ever committed
    orders,    \* numbers of the orders that are in the table
    status,    \* status column, by number
    req,       \* what each handler is doing
    seed,      \* what the seed script is doing
    seen       \* history: what the status column of the order that a handler
               \* changes has held since the handler read it

book == <<placed, orders, status>>
catalogue == <<products, made, quotes>>
vars == <<catalogue, users, book, req, seed, seen>>

-----------------------------------------------------------------------------
(* Payloads and totals                                                       *)

\* Variant with a fault: a product named twice counts with its last line.
AddLineOver(needed, line) ==
    [p \in DOMAIN needed \cup {line.product} |->
        IF p = line.product THEN line.quantity ELSE needed[p]]

\* needed[id] = needed.get(id, 0) + quantity
AddLine(needed, line) ==
    [p \in DOMAIN needed \cup {line.product} |->
        (IF p \in DOMAIN needed THEN needed[p] ELSE 0)
        + (IF p = line.product THEN line.quantity ELSE 0)]

NoLines == [p \in {} |-> 0]
Needed(items) == S!FoldLeft(AddLine, NoLines, items)

\* total += price * quantity, over the products needed.
Total(needed, unit) ==
    F!SumFunction([p \in DOMAIN needed |-> unit[p] * needed[p]])

-----------------------------------------------------------------------------
(* States                                                                    *)

\* The lines of an order, by product: how many units, and what one of them costs.
Lines == {NoLines} \cup {Needed(items) : items \in Payloads}
Units == UNION {[P -> Prices] : P \in SUBSET Rows}

\* A committed order, with the payload it answers and when its request began.
Order == [user : Users, items : Payloads, since : Nat, lines : Lines, unit : Units,
          total : Int]

\* A handler between two of its steps, by what it is doing.
Idle == [at |-> "idle"]
Placing == [at : {"known", "priced", "writing"}, user : Users, items : Payloads,
            since : Nat, unit : Units, held : SUBSET Rows]
Answering == [at : {"placed"}, order : Numbers]
Listing == [at : {"listing"}, shown : SUBSET Numbers]
Listed == [at : {"listed"}, shown : UNION {[N -> Lines] : N \in SUBSET Numbers}]
Changing == [at : {"changing", "changed"}, order : Numbers, read : Statuses,
             target : Statuses]
Request == {Idle} \cup Placing \cup Answering \cup Listing \cup Listed \cup Changing

\* The script: the statement it is at, the rows this has still to lock, and the
\* rows its transaction has deleted.
Seed == [step : 0 .. 3, todo : SUBSET (Rows \cup Users),
         products : SUBSET Rows, users : SUBSET Users]
NoSeed == [step |-> 0, todo |-> {}, products |-> {}, users |-> {}]

TypeOK ==
    /\ products \in SUBSET Rows
    /\ made \in SUBSET Rows
    /\ users \in SUBSET Users
    /\ quotes \in Seq([Rows -> Prices])
    /\ placed \in Seq(Order)
    /\ orders \in SUBSET (1 .. Len(placed))
    /\ status \in [1 .. Len(placed) -> Statuses]
    /\ req \in [Requests -> Request]
    /\ seed \in Seed
    /\ seen \in [Requests -> SUBSET Statuses]

Init ==
    /\ products = Stocked
    /\ made = Stocked
    /\ users = Users
    /\ quotes = <<Opening>>
    /\ placed = <<>>
    /\ orders = {}
    /\ status = <<>>
    /\ req = [r \in Requests |-> Idle]
    /\ seed = NoSeed
    /\ seen = [r \in Requests |-> {}]

Price == quotes[Len(quotes)]

\* The rows a handler has locked: products it has updated, and the user that the
\* foreign key of its new order needs.
Held(r) == IF req[r].at = "writing" THEN req[r].held ELSE {}
Owner(r) == IF req[r].at = "writing" THEN {req[r].user} ELSE {}

Go(r, next) == req' = [req EXCEPT ![r] = next]

-----------------------------------------------------------------------------
(* POST /orders                                                              *)

\* get_current_user finds the row of the token's user; it is not locked.
PlaceOrder(r, u, items) ==
    /\ req[r].at = "idle"
    /\ u \in users
    /\ Go(r, [at |-> "known", user |-> u, items |-> items, since |-> Len(quotes),
              unit |-> NoLines, held |-> {}])
    /\ UNCHANGED <<catalogue, users, book, seed>>

\* Variant with a fault: the quantity is taken for the price.
PricedByQuantity(r, unit) ==
    [req[r] EXCEPT !.at = "priced",
                   !.unit = [p \in DOMAIN unit |-> Needed(req[r].items)[p]]]

Priced(r, unit) == [req[r] EXCEPT !.at = "priced", !.unit = unit]

\* Variant with a fault: a SELECT for each product, one after the other.
ReadRowByRow(r) ==
    /\ req[r].at = "known"
    /\ LET needed == DOMAIN Needed(req[r].items)
           got == DOMAIN req[r].unit
       IN  IF got = needed THEN Go(r, Priced(r, req[r].unit))
           ELSE \E p \in (needed \cap products) \ got :
                  Go(r, [req[r] EXCEPT !.unit = [q \in got \cup {p} |->
                                         IF q = p THEN Price[p] ELSE req[r].unit[q]]])
    /\ UNCHANGED <<catalogue, users, book, seed>>

\* get_products_by_ids: one SELECT for all of them.  A product that is not there
\* ends the request with a 404.
ReadRows(r) ==
    /\ req[r].at = "known"
    /\ LET needed == DOMAIN Needed(req[r].items)
       IN  IF needed \subseteq products
           THEN Go(r, Priced(r, [p \in needed |-> Price[p]]))
           ELSE Go(r, Idle)
    /\ UNCHANGED <<catalogue, users, book, seed>>

\* Variant with a fault: commit() in place of flush(), before the lines are there.
InsertCommits(r) ==
    /\ req[r].at = "priced"
    /\ req[r].user \in users \ seed.users
    /\ Len(placed) < MaxOrders
    /\ placed' = Append(placed, [user |-> req[r].user, items |-> req[r].items,
                                 since |-> req[r].since, lines |-> NoLines,
                                 unit |-> NoLines, total |-> 0])
    /\ orders' = orders \cup {Len(placed) + 1}
    /\ status' = Append(status, "pending")
    /\ req' = [req EXCEPT ![r].at = "writing"]
    /\ UNCHANGED <<catalogue, users, seed>>

\* flush() of the order.  Its foreign key waits for a script that is deleting the
\* user and locks the row of the user against the next one.
InsertOrder(r) ==
    /\ req[r].at = "priced"
    /\ req[r].user \in users \ seed.users
    /\ req' = [req EXCEPT ![r].at = "writing"]
    /\ UNCHANGED <<catalogue, users, book, seed>>

\* The UPDATE of the next product, which must still be there and be nobody else's.
LockRow(r) ==
    /\ req[r].at = "writing"
    /\ \E p \in DOMAIN Needed(req[r].items) \ req[r].held :
         /\ \A q \in DOMAIN Needed(req[r].items) \ req[r].held : p <= q
         /\ p \in products \ seed.products
         /\ \A q \in Requests \ {r} : p \notin Held(q)
         /\ req' = [req EXCEPT ![r].held = @ \cup {p}]
    /\ UNCHANGED <<catalogue, users, book, seed>>

\* COMMIT of the order, its lines and its total, if the column takes the total.
CommitOrder(r) ==
    /\ req[r].at = "writing"
    /\ Len(placed) < MaxOrders
    /\ LET needed == Needed(req[r].items)
           total == Total(needed, req[r].unit)
       IN  /\ req[r].held = DOMAIN needed
           /\ total <= MaxTotal
           /\ placed' = Append(placed, [user |-> req[r].user, items |-> req[r].items,
                                        since |-> req[r].since, lines |-> needed,
                                        unit |-> req[r].unit, total |-> total])
    /\ orders' = orders \cup {Len(placed) + 1}
    /\ status' = Append(status, "pending")
    /\ Go(r, [at |-> "placed", order |-> Len(placed) + 1])
    /\ UNCHANGED <<catalogue, users, seed>>

-----------------------------------------------------------------------------
(* GET /orders and PATCH /orders/{id}/status                                 *)

\* list_orders, first SELECT: the orders of a user ...
ListOrders(r, u) ==
    /\ req[r].at = "idle"
    /\ u \in users
    /\ Go(r, [at |-> "listing", shown |-> {n \in orders : placed[n].user = u}])
    /\ UNCHANGED <<catalogue, users, book, seed>>

\* ... and second SELECT: the lines of these orders that are there by then.
ListLines(r) ==
    /\ req[r].at = "listing"
    /\ Go(r, [at |-> "listed",
              shown |-> [n \in req[r].shown |->
                           IF n \in orders THEN placed[n].lines ELSE NoLines]])
    /\ UNCHANGED <<catalogue, users, book, seed>>

\* change_order_status reads the order; any status may be asked for.
ReadStatus(r, n, target) ==
    /\ req[r].at = "idle"
    /\ n \in orders
    /\ Go(r, [at |-> "changing", order |-> n, read |-> status[n], target |-> target])
    /\ UNCHANGED <<catalogue, users, book, seed>>

\* Variant with a fault: nobody looks whether the UPDATE found the order.
WriteUnseen(r) ==
    /\ req[r].at = "changing"
    /\ status' = IF req[r].order \in orders
                 THEN [status EXCEPT ![req[r].order] = req[r].target]
                 ELSE status
    /\ req' = [req EXCEPT ![r].at = "changed"]
    /\ UNCHANGED <<catalogue, users, placed, orders, seed>>

\* The session writes the status if it differs from the one it read, and the
\* order must still be there.
WriteStatus(r) ==
    /\ req[r].at = "changing"
    /\ req' = [req EXCEPT ![r].at = "changed"]
    /\ \/ req[r].target = req[r].read /\ UNCHANGED status
       \/ /\ req[r].target # req[r].read
          /\ req[r].order \in orders
          /\ status' = [status EXCEPT ![req[r].order] = req[r].target]
    /\ UNCHANGED <<catalogue, users, placed, orders, seed>>

\* The reply is sent.  After a new order this takes one more SELECT, which may
\* find that the order has disappeared: a 500.
Respond(r) ==
    /\ req[r].at \in {"placed", "listed", "changed"}
    /\ Go(r, Idle)
    /\ UNCHANGED <<catalogue, users, book, seed>>

\* The handler ends with an error: too little stock, a row that is gone, a total
\* that overflows, a deadlock PostgreSQL resolves, a lost connection, a dead worker.
Fail(r) ==
    /\ req[r].at # "idle"
    /\ Go(r, Idle)
    /\ UNCHANGED <<catalogue, users, book, seed>>

-----------------------------------------------------------------------------
(* PATCH /products/{id}, POST /products                                      *)

Reprice(p, amount) ==
    /\ p \in products \ seed.products
    /\ \A r \in Requests : p \notin Held(r)
    /\ amount # Price[p]
    /\ Len(quotes) < MaxQuotes
    /\ quotes' = Append(quotes, [Price EXCEPT ![p] = amount])
    /\ UNCHANGED <<products, made, users, book, req, seed>>

CreateProduct(p) ==
    /\ p \in Rows \ made
    /\ products' = products \cup {p}
    /\ made' = made \cup {p}
    /\ UNCHANGED <<quotes, users, book, req, seed>>

-----------------------------------------------------------------------------
(* scripts/seed_demo.py                                                      *)

\* Variant with a fault: the users, and with them their orders, go first.
UsersFirst == <<"users", "products">>

\* The tables the script empties, one after the other.
Deletes == <<"products", "users">>

Table(name) == IF name = "products" THEN products ELSE users
Deleting == seed.step \in {1, 2}

SeedBegin ==
    /\ seed.step = 0
    /\ seed' = [NoSeed EXCEPT !.step = 1, !.todo = Table(Deletes[1])]
    /\ UNCHANGED <<catalogue, users, book, req>>

\* A DELETE locks the rows its snapshot has, each when nobody else holds it.
DeleteProduct(p) ==
    /\ Deleting
    /\ Deletes[seed.step] = "products"
    /\ p \in seed.todo
    /\ \A r \in Requests : p \notin Held(r)
    /\ seed' = [seed EXCEPT !.todo = @ \ {p}, !.products = @ \cup {p}]
    /\ UNCHANGED <<catalogue, users, book, req>>

DeleteUser(u) ==
    /\ Deleting
    /\ Deletes[seed.step] = "users"
    /\ u \in seed.todo
    /\ \A r \in Requests : u \notin Owner(r)
    /\ seed' = [seed EXCEPT !.todo = @ \ {u}, !.users = @ \cup {u}]
    /\ UNCHANGED <<catalogue, users, book, req>>

\* order_items.product_id refuses the end of a DELETE of products while a line
\* names one of them.  Orders of users deleted before are gone by then.
Referenced ==
    \E n \in orders : /\ placed[n].user \notin seed.users
                      /\ DOMAIN placed[n].lines \cap seed.products # {}

Passes == seed.todo = {} /\ (Deletes[seed.step] = "products" => ~ Referenced)

NextDelete ==
    /\ seed.step = 1
    /\ Passes
    /\ seed' = [seed EXCEPT !.step = 2, !.todo = Table(Deletes[2])]
    /\ UNCHANGED <<catalogue, users, book, req>>

\* COMMIT of both deletes; the orders of a user go with the user.
CommitDeletes ==
    /\ seed.step = 2
    /\ Passes
    /\ products' = products \ seed.products
    /\ users' = users \ seed.users
    /\ orders' = {n \in orders : placed[n].user \notin seed.users}
    /\ seed' = [NoSeed EXCEPT !.step = 3]
    /\ UNCHANGED <<made, quotes, placed, status, req>>

\* A transaction of its own inserts the new catalogue.
CommitInserts(new) ==
    /\ seed.step = 3
    /\ new \subseteq Rows \ made
    /\ products' = products \cup new
    /\ made' = made \cup new
    /\ seed' = NoSeed
    /\ UNCHANGED <<quotes, users, book, req>>

\* The script ends early: a line names a product, a deadlock, a crash.
SeedFails ==
    /\ seed.step # 0
    /\ seed' = NoSeed
    /\ UNCHANGED <<catalogue, users, book, req>>

-----------------------------------------------------------------------------
Steps ==
    \/ \E r \in Requests :
         \/ \E u \in Users : ListOrders(r, u) \/ \E items \in Payloads : PlaceOrder(r, u, items)
         \/ \E n \in orders, target \in Statuses : ReadStatus(r, n, target)
         \/ ReadRows(r) \/ InsertOrder(r) \/ LockRow(r) \/ CommitOrder(r)
         \/ ListLines(r) \/ WriteStatus(r) \/ Respond(r) \/ Fail(r)
    \/ \E p \in Rows : CreateProduct(p) \/ DeleteProduct(p)
                       \/ \E amount \in Prices : Reprice(p, amount)
    \/ \E u \in Users : DeleteUser(u)
    \/ \E new \in SUBSET Rows : CommitInserts(new)
    \/ SeedBegin \/ NextDelete \/ CommitDeletes \/ SeedFails

\* Beside every step the history notes, for a handler that has read its order and
\* not replied yet, what the status column holds after the step, if the order is
\* still in the table.  It looks at the column alone, not at who wrote it.
Changes(state) == state.at \in {"changing", "changed"}

Observe ==
    seen' = [r \in Requests |->
               IF Changes(req'[r])
               THEN (IF Changes(req[r]) THEN seen[r] ELSE {})
                    \cup {status'[n] : n \in orders' \cap {req'[r].order}}
               ELSE {}]

Next == Steps /\ Observe

Spec == Init /\ [][Next]_vars

-----------------------------------------------------------------------------
\* However prices change while a basket is read and written, the customer pays
\* prices of one instant: the unit prices of an order were all in the table
\* together, not before its request began.
BilledTogether ==
    \A n \in 1 .. Len(placed) :
        \E t \in placed[n].since .. Len(quotes) :
            \A p \in DOMAIN placed[n].unit : placed[n].unit[p] = quotes[t][p]

\* The total is what the lines of the payload cost, one by one, a product named
\* in several of them included.
BilledInFull ==
    \A n \in 1 .. Len(placed) :
        LET items == placed[n].items
            cost == [i \in DOMAIN items |->
                       items[i].quantity * placed[n].unit[items[i].product]]
        IN  placed[n].total = F!SumFunction(cost)

\* GET /orders takes two SELECTs, and never shows an order without its lines
\* unless that order vanished between the two.
ListedWhole ==
    \A r \in Requests : req[r].at = "listed" =>
        \A n \in DOMAIN req[r].shown :
            n \notin orders
            \/ req[r].shown[n] = Needed(placed[n].items)

\* A reply of PATCH /orders/{id}/status names a status that the column really
\* held at some instant of the request: also when the session, having read that
\* status already, wrote nothing and others did, and when the seed script took
\* the order away before the UPDATE.
AnsweredStatusHeld ==
    \A r \in Requests : req[r].at = "changed" => req[r].target \in seen[r]

\* The seed script never takes an order with it, although the users it deletes
\* cascade to their orders, unless all products of that order were created
\* after the script's DELETE began.
SeedSparesOrders ==
    [][\A n \in orders \ orders' :
         DOMAIN placed[n].lines \cap seed.products = {}]_vars
=============================================================================
