---------------------------- MODULE OrdersProofs ----------------------------
(***************************************************************************)
(* Proofs about Orders for every set of handlers, number of rows, menus and  *)
(* bounds.                                                                   *)
(***************************************************************************)
EXTENDS Orders, FiniteIntegers

\* A handler that is not writing has an empty session and holds no lock.
Quiet ==
    \A r \in Requests : pc[r] # "writing" =>
        /\ DOMAIN newStock[r] = {} /\ DOMAIN newPrice[r] = {}
        /\ DOMAIN bought[r] = {} /\ held[r] = {} /\ stale[r] = {}

\* An order writes the stock of the rows it buys, and a session that writes the
\* stock of a row without buying it is a PATCH of an editable row.
Wishes ==
    \A r \in Requests :
        /\ DOMAIN bought[r] \subseteq DOMAIN newStock[r]
        /\ DOMAIN newStock[r] \ DOMAIN bought[r] \subseteq Editable

\* Before its decrement the row stood at newStock + bought: the stock it has
\* now, unless the row is stale, and never too little where no PATCH sets it.
ReadBefore ==
    \A r \in Requests : \A p \in DOMAIN bought[r] :
        /\ p \notin stale[r] => newStock[r][p] + bought[r][p] = stock[p]
        /\ p \notin Editable =>
              newStock[r][p] + bought[r][p] + sold[p] >= supplied[p]

\* Locks are taken upwards, by one handler at a time.
LocksAscend ==
    /\ \A r \in Requests : held[r] \subseteq Dirty(r)
    /\ \A r \in Requests : \A h \in held[r], p \in Pending(r) : h < p
    /\ \A r, q \in Requests : r # q => held[r] \cap held[q] = {}

BooksInv ==
    /\ TypeOK
    /\ Quiet
    /\ StockNeverNegative
    /\ Wishes
    /\ ReadBefore
    /\ LedgerUnlessRaced
    /\ UnitsNeverVanish

-----------------------------------------------------------------------------
\* Before any request every book balances and every session is empty.
LEMMA InitBooks == Init => BooksInv
<1> SUFFICES ASSUME Init PROVE BooksInv
  OBVIOUS
<1> USE BoundsAssumption DEF Init
<1>1. TypeOK
  BY DEF TypeOK, Cells, EmptyRow, Levels
<1>2. Quiet /\ Wishes /\ ReadBefore
  BY DEF Quiet, Wishes, ReadBefore, EmptyRow
<1>3. StockNeverNegative
  BY DEF StockNeverNegative, EmptyRow, Levels
<1>4. LedgerUnlessRaced /\ UnitsNeverVanish
  BY DEF LedgerUnlessRaced, UnitsNeverVanish, Levels
<1> QED
  BY <1>1, <1>2, <1>3, <1>4 DEF BooksInv

\* A handler that starts to write keeps the books, provided that its session
\* holds what an order or a PATCH may hold.
LEMMA StartBooks ==
    ASSUME NEW r \in Requests,
           NEW stockCells, NEW priceCells, NEW basket,
           BooksInv, pc[r] = "idle",
           StartWriting(r, stockCells, priceCells, basket),
           Cells(stockCells, Nat), Cells(priceCells, Prices),
           Cells(basket, Quantities),
           DOMAIN basket \subseteq DOMAIN stockCells,
           DOMAIN stockCells \ DOMAIN basket \subseteq Editable,
           \A p \in DOMAIN basket : stockCells[p] + basket[p] = stock[p]
    PROVE  BooksInv'
<1> USE DEF StartWriting, database, history, BooksInv
<1>1. TypeOK'
  BY DEF TypeOK, Cells
<1>2. Quiet'
  BY DEF Quiet, TypeOK
<1>3. StockNeverNegative'
  BY DEF StockNeverNegative, TypeOK, Cells
<1>4. Wishes'
  BY DEF Wishes, TypeOK
<1>5. ReadBefore'
  <2> SUFFICES ASSUME NEW q \in Requests, NEW p \in DOMAIN bought'[q]
               PROVE  /\ p \notin stale'[q] =>
                            newStock'[q][p] + bought'[q][p] = stock'[p]
                      /\ p \notin Editable =>
                            newStock'[q][p] + bought'[q][p] + sold'[p] >= supplied'[p]
    BY DEF ReadBefore
  <2>1. CASE q # r
    BY <2>1 DEF ReadBefore, TypeOK
  <2>2. CASE q = r
    <3>1. p \in Products /\ stockCells[p] + basket[p] = stock[p]
      BY <2>2 DEF Cells, TypeOK
    <3>2. p \notin Editable => stock[p] + sold[p] >= supplied[p]
      BY <3>1 DEF UnitsNeverVanish
    <3> QED
      BY <2>2, <3>1, <3>2 DEF TypeOK
  <2> QED
    BY <2>1, <2>2
<1>6. LedgerUnlessRaced' /\ UnitsNeverVanish'
  BY DEF LedgerUnlessRaced, UnitsNeverVanish
<1> QED
  BY <1>1, <1>2, <1>3, <1>4, <1>5, <1>6

\* A request that arrives is refused or starts to write; the books stay.
LEMMA ArriveBooks ==
    ASSUME NEW r \in Requests, BooksInv, Arrive(r)
    PROVE  BooksInv'
<1>1. CASE UNCHANGED vars
  BY <1>1 DEF BooksInv, TypeOK, Quiet, StockNeverNegative, Wishes, ReadBefore,
     LedgerUnlessRaced, UnitsNeverVanish, vars, database, session, history, Cells
<1>2. ASSUME NEW need \in Baskets(r), PlaceOrder(r, need), ~ UNCHANGED vars
      PROVE  BooksInv'
  <2>1. /\ pc[r] = "idle" /\ DOMAIN need \subseteq Products /\ Covers(need)
        /\ StartWriting(r, Decremented(need), EmptyRow, need)
    BY <1>2 DEF PlaceOrder, Refuse
  <2>2. need \in [DOMAIN need -> Quantities]
    BY DEF Baskets
  <2>3. Cells(need, Quantities)
    BY <2>1, <2>2 DEF Cells
  <2>4. Cells(Decremented(need), Nat)
    BY <2>1, <2>2, BoundsAssumption
       DEF Cells, Decremented, Covers, BooksInv, TypeOK, Quantities
  <2>5. \A p \in DOMAIN need : Decremented(need)[p] + need[p] = stock[p]
    BY <2>1, <2>2, BoundsAssumption DEF Decremented, BooksInv, TypeOK, Quantities
  <2>6. Cells(EmptyRow, Prices)
    BY DEF Cells, EmptyRow
  <2>7. DOMAIN Decremented(need) = DOMAIN need
    BY DEF Decremented
  <2> QED
    BY <2>1, <2>3, <2>4, <2>5, <2>6, <2>7, StartBooks
<1>3. ASSUME NEW p \in Menu[r],
             NEW stockField \in Field({p} \cap Editable, Levels),
             NEW priceField \in Field({p} \cap Products, Prices),
             PatchProduct(r, p, stockField, priceField), ~ UNCHANGED vars
      PROVE  BooksInv'
  <2> DEFINE stockCells == Changed(stockField, p, stock)
             priceCells == Changed(priceField, p, price)
  <2>1. /\ pc[r] = "idle" /\ p \in Products
        /\ StartWriting(r, stockCells, priceCells, EmptyRow)
    BY <1>3 DEF PatchProduct, Refuse
  <2>2. /\ stockField \in [DOMAIN stockField -> Levels]
        /\ DOMAIN stockField \subseteq Editable
        /\ priceField \in [DOMAIN priceField -> Prices]
    BY DEF Field, EmptyRow
  <2>3. Cells(stockCells, Nat) /\ DOMAIN stockCells \subseteq Editable
    BY <2>1, <2>2, BoundsAssumption DEF Cells, Changed, Levels
  <2>4. Cells(priceCells, Prices)
    BY <2>1, <2>2 DEF Cells, Changed
  <2>5. Cells(EmptyRow, Quantities) /\ DOMAIN EmptyRow = {}
    BY DEF Cells, EmptyRow
  <2> HIDE DEF stockCells, priceCells
  <2> QED
    BY <2>1, <2>3, <2>4, <2>5, StartBooks
<1> QED
  BY <1>1, <1>2, <1>3 DEF Arrive

\* What a PATCH or an order commits keeps the books, or the row is raced.
LEMMA CommitBooks ==
    ASSUME NEW r \in Requests, BooksInv, Commit(r)
    PROVE  BooksInv'
<1> USE DEF Commit, EndTransaction, BooksInv
<1>0. Cells(newStock[r], Int) /\ Cells(newPrice[r], Prices) /\ Cells(bought[r], Quantities)
  BY DEF TypeOK
<1>1. \A p \in Products : /\ Sold(bought[r], p) \in Nat
                          /\ Delivered(r, p) \in Int
  BY <1>0, BoundsAssumption DEF Sold, Delivered, Cells, Quantities, TypeOK
<1>2. TypeOK'
  <2>1. stock' \in [Products -> Int] /\ price' \in [Products -> Prices]
    BY <1>0 DEF TypeOK, Written, Cells
  <2>2. sold' \in [Products -> Nat] /\ supplied' \in [Products -> Int]
    BY <1>1 DEF TypeOK
  <2>3. pc' \in [Requests -> {"idle", "writing", "committed"}]
    BY DEF TypeOK
  <2>4. /\ DOMAIN newStock' = Requests /\ DOMAIN newPrice' = Requests
        /\ DOMAIN bought' = Requests
        /\ \A q \in Requests : /\ Cells(newStock'[q], Int)
                               /\ Cells(newPrice'[q], Prices)
                               /\ Cells(bought'[q], Quantities)
    BY DEF TypeOK, Cells, EmptyRow
  <2>5. held' \in [Requests -> SUBSET Products] /\ raced' \in SUBSET Products
    BY <1>0 DEF TypeOK, Cells
  <2>6. stale' \in [Requests -> SUBSET Products]
    BY <1>0 DEF TypeOK, Cells
  <2> QED
    BY <2>1, <2>2, <2>3, <2>4, <2>5, <2>6 DEF TypeOK, Cells
<1>3. Quiet'
  BY DEF Quiet, TypeOK, EmptyRow
<1>4. StockNeverNegative'
  BY <1>0 DEF StockNeverNegative, TypeOK, Written, EmptyRow, Cells
<1>5. Wishes'
  BY DEF Wishes, TypeOK, EmptyRow
<1>6. \A p \in Products :
         /\ p \in DOMAIN bought[r] =>
              /\ stock'[p] = newStock[r][p]
              /\ sold'[p] = sold[p] + bought[r][p]
              /\ supplied'[p] = supplied[p]
         /\ p \in DOMAIN newStock[r] \ DOMAIN bought[r] =>
              /\ stock'[p] = newStock[r][p]
              /\ sold'[p] = sold[p]
              /\ supplied'[p] = supplied[p] + newStock[r][p] - stock[p]
              /\ p \in Editable
         /\ p \notin DOMAIN newStock[r] =>
              /\ stock'[p] = stock[p]
              /\ sold'[p] = sold[p]
              /\ supplied'[p] = supplied[p]
  BY <1>0 DEF Written, Sold, Delivered, Wishes, TypeOK, Cells
<1>7. ReadBefore'
  <2> SUFFICES ASSUME NEW q \in Requests, NEW p \in DOMAIN bought'[q]
               PROVE  /\ p \notin stale'[q] =>
                            newStock'[q][p] + bought'[q][p] = stock'[p]
                      /\ p \notin Editable =>
                            newStock'[q][p] + bought'[q][p] + sold'[p] >= supplied'[p]
    BY DEF ReadBefore
  <2>1. /\ q # r /\ bought'[q] = bought[q] /\ newStock'[q] = newStock[q]
        /\ p \in DOMAIN bought[q] /\ p \in DOMAIN newStock[q] /\ p \in Products
        /\ newStock[q][p] \in Int /\ bought[q][p] \in Int
    BY BoundsAssumption DEF TypeOK, EmptyRow, Wishes, Cells, Quantities
  <2>2. stale'[q] = stale[q] \cup (DOMAIN newStock[r] \cap DOMAIN newStock[q])
    BY <2>1
  <2>3. p \notin stale'[q] => newStock'[q][p] + bought'[q][p] = stock'[p]
    BY <2>1, <2>2, <1>6 DEF ReadBefore
  <2>4. sold'[p] >= sold[p] /\ (p \notin Editable => supplied'[p] = supplied[p])
    BY <2>1, <1>0, <1>6, BoundsAssumption DEF Wishes, TypeOK, Cells, Quantities
  <2>5. p \notin Editable =>
           newStock[q][p] + bought[q][p] + sold[p] >= supplied[p]
    BY <2>1 DEF ReadBefore
  <2> QED
    BY <2>1, <2>3, <2>4, <2>5, <1>2 DEF TypeOK
<1>8. LedgerUnlessRaced'
  <2> SUFFICES ASSUME NEW p \in Products \ raced'
               PROVE  stock'[p] + sold'[p] = supplied'[p]
    BY DEF LedgerUnlessRaced
  <2>1. stock[p] + sold[p] = supplied[p]
    BY DEF LedgerUnlessRaced
  <2>2. p \in DOMAIN bought[r] => newStock[r][p] + bought[r][p] = stock[p]
    BY DEF ReadBefore
  <2> QED
    BY <2>1, <2>2, <1>0, <1>6, BoundsAssumption DEF TypeOK, Cells, Quantities, Wishes
<1>9. UnitsNeverVanish'
  <2> SUFFICES ASSUME NEW p \in Products \ Editable
               PROVE  stock'[p] + sold'[p] >= supplied'[p]
    BY DEF UnitsNeverVanish
  <2>1. stock[p] + sold[p] >= supplied[p]
    BY DEF UnitsNeverVanish
  <2>2. p \in DOMAIN bought[r] =>
           newStock[r][p] + bought[r][p] + sold[p] >= supplied[p]
    BY DEF ReadBefore
  <2> QED
    BY <2>1, <2>2, <1>0, <1>6, BoundsAssumption DEF TypeOK, Cells, Quantities, Wishes
<1> QED
  BY <1>2, <1>3, <1>4, <1>5, <1>7, <1>8, <1>9

\* A rollback drops the session and nothing else.
LEMMA RollbackBooks ==
    ASSUME NEW r \in Requests, BooksInv, Rollback(r)
    PROVE  BooksInv'
<1> USE DEF Rollback, EndTransaction, database, BooksInv
<1>1. TypeOK'
  BY DEF TypeOK, Cells, EmptyRow
<1>2. Quiet' /\ Wishes'
  BY DEF Quiet, Wishes, TypeOK, EmptyRow
<1>3. StockNeverNegative'
  BY DEF StockNeverNegative, TypeOK, EmptyRow
<1>4. ReadBefore'
  BY DEF ReadBefore, TypeOK, EmptyRow
<1>5. LedgerUnlessRaced' /\ UnitsNeverVanish'
  BY DEF LedgerUnlessRaced, UnitsNeverVanish
<1> QED
  BY <1>1, <1>2, <1>3, <1>4, <1>5

\* A lock taken or a reply sent touches no column, session or account.
LEMMA QuietStepBooks ==
    ASSUME NEW r \in Requests, BooksInv, UpdateRow(r) \/ Respond(r)
    PROVE  BooksInv'
<1>1. CASE UpdateRow(r)
  BY <1>1 DEF UpdateRow, Pending, Dirty, database, history, BooksInv, TypeOK, Cells, Quiet,
     StockNeverNegative, Wishes, ReadBefore, LedgerUnlessRaced, UnitsNeverVanish
<1>2. CASE Respond(r)
  BY <1>2 DEF Respond, session, database, history, BooksInv, TypeOK, Cells, Quiet,
     StockNeverNegative, Wishes, ReadBefore, LedgerUnlessRaced, UnitsNeverVanish
<1> QED
  BY <1>1, <1>2

\* BooksInv is inductive: every reachable state satisfies it.
LEMMA BooksStep == BooksInv /\ [Next]_vars => BooksInv'
<1> SUFFICES ASSUME BooksInv, [Next]_vars PROVE BooksInv'
  OBVIOUS
<1>1. CASE UNCHANGED vars
  BY <1>1 DEF BooksInv, TypeOK, Quiet, StockNeverNegative, Wishes, ReadBefore,
     LedgerUnlessRaced, UnitsNeverVanish, vars, database, session, history, Cells
<1>2. CASE Next
  BY <1>2, ArriveBooks, CommitBooks, RollbackBooks, QuietStepBooks DEF Next
<1> QED
  BY <1>1, <1>2

THEOREM BooksInvariant == Spec => []BooksInv
  BY BooksStep, InitBooks, PTL DEF Spec

\* Every variable keeps its type, whatever the handlers do.
THEOREM Typed == Spec => []TypeOK
<1>1. BooksInv => TypeOK
  BY DEF BooksInv
<1> QED
  BY <1>1, BooksInvariant, PTL

\* No interleaving of orders and PATCHes brings a stock below zero.
THEOREM NeverNegative == Spec => []StockNeverNegative
<1>1. BooksInv => StockNeverNegative
  BY DEF BooksInv
<1> QED
  BY <1>1, BooksInvariant, PTL

\* The books of every row balance unless an order overwrote a stale row.
THEOREM Balanced == Spec => []LedgerUnlessRaced
<1>1. BooksInv => LedgerUnlessRaced
  BY DEF BooksInv
<1> QED
  BY <1>1, BooksInvariant, PTL

\* Where no PATCH sets the stock, no interleaving loses a unit.
THEOREM NothingVanishes == Spec => []UnitsNeverVanish
<1>1. BooksInv => UnitsNeverVanish
  BY DEF BooksInv
<1> QED
  BY <1>1, BooksInvariant, PTL

-----------------------------------------------------------------------------
\* LocksAscend is kept by every step of a typed state.
LEMMA LocksStep ==
    ASSUME TypeOK, Quiet, LocksAscend, [Next]_vars
    PROVE  LocksAscend'
<1> USE DEF LocksAscend, Pending, Dirty, TypeOK, Cells
<1>1. CASE UNCHANGED vars
  BY <1>1 DEF vars, session, database, history
<1>2. ASSUME NEW r \in Requests, NEW stockCells, NEW priceCells, NEW basket,
             pc[r] = "idle", StartWriting(r, stockCells, priceCells, basket)
      PROVE  LocksAscend'
  BY <1>2 DEF StartWriting, database, history, Quiet
<1>3. ASSUME NEW r \in Requests, Arrive(r)
      PROVE  LocksAscend'
  BY <1>1, <1>2, <1>3 DEF Arrive, PlaceOrder, PatchProduct, Refuse
<1>4. ASSUME NEW r \in Requests, UpdateRow(r)
      PROVE  LocksAscend'
  <2>1. PICK p \in Pending(r) :
           /\ \A q \in Pending(r) : p <= q
           /\ \A q \in Requests \ {r} : p \notin held[q]
           /\ held' = [held EXCEPT ![r] = @ \cup {p}]
    BY <1>4 DEF UpdateRow, NextToLock
  <2>2. UNCHANGED <<newStock, newPrice>>
    BY <1>4 DEF UpdateRow
  <2>3. \A q \in Requests : held'[q] = IF q = r THEN held[r] \cup {p} ELSE held[q]
    BY <2>1
  <2>4. Pending(r) \subseteq Products
    OBVIOUS
  <2>5. \A h \in held'[r], q \in Pending(r)' : h < q
    <3> SUFFICES ASSUME NEW h \in held'[r], NEW q \in Pending(r)'
                 PROVE  h < q
      OBVIOUS
    <3>1. q \in Pending(r) /\ q # p /\ q \in Products /\ p \in Products
      BY <2>2, <2>3, <2>4
    <3>2. CASE h \in held[r]
      BY <3>1, <3>2
    <3>3. CASE h = p
      BY <3>1, <3>3, <2>1 DEF Products
    <3> QED
      BY <3>2, <3>3, <2>3
  <2>6. \A q \in Requests : held'[q] \subseteq Dirty(q)'
    BY <2>1, <2>2, <2>3
  <2>7. \A q \in Requests \ {r} : \A h \in held'[q], p1 \in Pending(q)' : h < p1
    BY <2>2, <2>3
  <2>8. \A q, s \in Requests : q # s => held'[q] \cap held'[s] = {}
    BY <2>1, <2>3
  <2> QED
    BY <2>5, <2>6, <2>7, <2>8
<1>5. ASSUME NEW r \in Requests, Commit(r) \/ Rollback(r)
      PROVE  LocksAscend'
  <2>1. /\ newStock' = [newStock EXCEPT ![r] = EmptyRow]
        /\ newPrice' = [newPrice EXCEPT ![r] = EmptyRow]
        /\ held' = [held EXCEPT ![r] = {}]
    BY <1>5 DEF Commit, Rollback, EndTransaction
  <2>2. /\ held'[r] = {} /\ DOMAIN newStock'[r] = {} /\ DOMAIN newPrice'[r] = {}
        /\ \A q \in Requests \ {r} : /\ held'[q] = held[q]
                                     /\ newStock'[q] = newStock[q]
                                     /\ newPrice'[q] = newPrice[q]
    BY <2>1 DEF EmptyRow
  <2>3. \A q \in Requests : /\ held'[q] \subseteq Dirty(q)'
                             /\ \A h \in held'[q], p \in Pending(q)' : h < p
    BY <2>2
  <2>4. \A q, s \in Requests : q # s => held'[q] \cap held'[s] = {}
    BY <2>2
  <2> QED
    BY <2>3, <2>4
<1>6. ASSUME NEW r \in Requests, Respond(r)
      PROVE  LocksAscend'
  BY <1>6 DEF Respond, session
<1> QED
  BY <1>1, <1>3, <1>4, <1>5, <1>6 DEF Next

\* Every reachable state takes locks upwards, one holder per row.
THEOREM LockOrder == Spec => []LocksAscend
<1>1. Init => LocksAscend
  BY DEF Init, LocksAscend, Pending, Dirty, EmptyRow
<1>2. BooksInv => TypeOK /\ Quiet
  BY DEF BooksInv
<1>3. TypeOK /\ Quiet /\ LocksAscend /\ [Next]_vars => LocksAscend'
  BY LocksStep
<1> QED
  BY <1>1, <1>2, <1>3, BooksInvariant, PTL DEF Spec

\* In a group where everybody waits for a member, the one that waits for the
\* greatest row waits for a handler that holds it and wants a greater one.
THEOREM NoDeadlock == Spec => []NoWaitCycle
<1>1. ASSUME TypeOK, LocksAscend
      PROVE  NoWaitCycle
  <2> SUFFICES ASSUME NEW group \in SUBSET Requests, group # {},
                      \A r \in group : \E q \in group : Waits(r, q)
               PROVE  FALSE
    BY DEF NoWaitCycle
  <2> DEFINE wanted == {p \in Products : \E r, q \in group :
                           p \in held[q] /\ NextToLock(r, p)}
  <2>1. ASSUME NEW r \in group
        PROVE  \E p \in wanted : NextToLock(r, p)
    BY <1>1 DEF Waits, TypeOK
  <2>2. PICK top \in wanted : \A p \in wanted : p <= top
    <3>1. wanted # {} /\ wanted \subseteq 1 .. NumProducts
      BY <2>1 DEF Products
    <3>2. wanted \subseteq Int
      BY <3>1
    <3>3. IsFiniteSet(wanted)
      <4>1. IsFiniteSet(1 .. NumProducts)
        BY FS_Interval, NumProductsAssumption
      <4> HIDE DEF wanted
      <4> QED
        BY <3>1, <4>1, FS_Subset
    <3> HIDE DEF wanted
    <3> QED
      BY <3>1, <3>2, <3>3, Greatest
  <2>3. PICK q \in group : top \in held[q]
    OBVIOUS
  <2>4. PICK p \in wanted : NextToLock(q, p)
    BY <2>1
  <2>5. top < p
    BY <1>1, <2>3, <2>4 DEF LocksAscend, NextToLock
  <2> QED
    BY <2>2, <2>4, <2>5 DEF Products
<1>2. BooksInv => TypeOK
  BY DEF BooksInv
<1> QED
  BY <1>1, <1>2, BooksInvariant, LockOrder, PTL

\* The flush of q has sent all its UPDATEs, or the next one finds its row free.
Proceeds(q) ==
    /\ pc[q] = "writing"
    /\ \/ Pending(q) = {}
       \/ \E p \in Pending(q) : /\ NextToLock(q, p)
                                /\ \A other \in Requests : p \notin held[other]

SomeFlushProceeds ==
    (\E r \in Requests : pc[r] = "writing") => \E q \in Requests : Proceeds(q)

\* Handlers that write never stand still together: one of them has all its rows
\* and can commit, or its next row is free.
THEOREM FlushesProceed == Spec => []SomeFlushProceeds
<1>1. ASSUME TypeOK, Quiet, NoWaitCycle, NEW r \in Requests, pc[r] = "writing"
      PROVE  \E q \in Requests : Proceeds(q)
  <2> DEFINE group == {q \in Requests : pc[q] = "writing"}
  <2>1. PICK q \in group : \A other \in group : ~ Waits(q, other)
    BY <1>1 DEF NoWaitCycle
  <2>2. CASE Pending(q) = {}
    BY <2>2 DEF Proceeds
  <2>3. CASE Pending(q) # {}
    <3>1. Pending(q) \subseteq 1 .. NumProducts
      BY <1>1 DEF Pending, Dirty, TypeOK, Cells, Products
    <3>2. Pending(q) \subseteq Int
      BY <3>1
    <3>3. IsFiniteSet(Pending(q))
      <4>1. IsFiniteSet(1 .. NumProducts)
        BY FS_Interval, NumProductsAssumption
      <4> QED
        BY <3>1, <4>1, FS_Subset
    <3>4. PICK p \in Pending(q) : \A x \in Pending(q) : p <= x
      BY <2>3, <3>2, <3>3, Least
    <3>5. NextToLock(q, p)
      BY <3>4 DEF NextToLock
    <3>6. \A other \in Requests : p \notin held[other]
      BY <1>1, <2>1, <3>5 DEF Waits, Quiet
    <3> QED
      BY <3>5, <3>6 DEF Proceeds
  <2> QED
    BY <2>2, <2>3
<1>2. BooksInv /\ NoWaitCycle => SomeFlushProceeds
  BY <1>1 DEF BooksInv, SomeFlushProceeds
<1> QED
  BY <1>2, BooksInvariant, NoDeadlock, PTL

-----------------------------------------------------------------------------
(* A row that one handler writes at a time.                                  *)

\* No session has row p as it was before somebody else wrote it, and none ever
\* committed over it.
Intact(p) == p \notin raced /\ \A r \in Requests : p \notin stale[r]

LEMMA IntactStep ==
    ASSUME TypeOK, NEW p \in Products, Alone(p), Intact(p), [Next]_vars
    PROVE  Intact(p)'
<1> USE DEF Intact
<1>1. CASE UNCHANGED vars
  BY <1>1 DEF vars, history
<1>2. ASSUME NEW r \in Requests, Arrive(r)
      PROVE  Intact(p)'
  BY <1>1, <1>2 DEF Arrive, PlaceOrder, PatchProduct, Refuse, StartWriting, history
<1>3. ASSUME NEW r \in Requests, Commit(r)
      PROVE  Intact(p)'
  <2>1. raced' = raced \cup (DOMAIN bought[r] \cap stale[r])
    BY <1>3 DEF Commit
  <2>2. ASSUME NEW q \in Requests
        PROVE  p \notin stale'[q]
    <3>1. stale'[q] = IF q = r THEN {}
                      ELSE stale[q] \cup (DOMAIN newStock[r] \cap DOMAIN newStock[q])
      BY <1>3 DEF Commit
    <3> QED
      BY <3>1 DEF Alone
  <2> QED
    BY <2>1, <2>2
<1>4. ASSUME NEW r \in Requests, Rollback(r)
      PROVE  Intact(p)'
  BY <1>4 DEF Rollback, TypeOK
<1>5. ASSUME NEW r \in Requests, UpdateRow(r) \/ Respond(r)
      PROVE  Intact(p)'
  BY <1>5 DEF UpdateRow, Respond, history
<1> QED
  BY <1>1, <1>2, <1>3, <1>4, <1>5 DEF Next

LEMMA InitIntact == Init => \A p \in Products : Intact(p)
  BY DEF Init, Intact

\* A unit is sold twice only where two handlers write one row at a time: the books
\* of a row balance, and it sells no more than it was supplied, as long as never
\* more than one handler is about to write its stock, whatever others do elsewhere.
THEOREM SoldOnce ==
    ASSUME NEW p \in Products
    PROVE  Spec /\ []Alone(p)
             => [](stock[p] + sold[p] = supplied[p] /\ sold[p] <= supplied[p])
<1>1. Init => Intact(p)
  BY InitIntact
<1>2. TypeOK /\ Alone(p) /\ Intact(p) /\ [Next]_vars => Intact(p)'
  BY IntactStep
<1>3. BooksInv => TypeOK
  BY DEF BooksInv
<1>4. BooksInv /\ Intact(p) => stock[p] + sold[p] = supplied[p] /\ sold[p] <= supplied[p]
  BY DEF BooksInv, TypeOK, Intact, LedgerUnlessRaced, StockNeverNegative
<1> QED
  BY <1>1, <1>2, <1>3, <1>4, BooksInvariant, PTL DEF Spec

\* No row was ever about to be written by two handlers when it mattered.
Untouched == \A p \in Products : Intact(p)

LEMMA UntouchedStep ==
    BooksInv /\ Uncontended /\ Untouched /\ [Next]_vars => Untouched'
<1> SUFFICES ASSUME TypeOK, Uncontended, Untouched, [Next]_vars, NEW p \in Products
             PROVE  Intact(p)'
  BY DEF BooksInv, Untouched
<1>1. Alone(p) /\ Intact(p)
  BY DEF Uncontended, Untouched
<1> QED
  BY <1>1, IntactStep

LEMMA UntouchedInvariant == Spec /\ []Uncontended => [](BooksInv /\ Untouched)
<1>1. Init => Untouched
  BY InitIntact DEF Untouched
<1> QED
  BY <1>1, UntouchedStep, BooksInvariant, PTL DEF Spec

\* What the tests expect of orders that come one after another holds for orders
\* that overlap as well, unless they overlap on a row.
THEOREM NeverOversoldUncontended == Spec /\ []Uncontended => []NeverOversold
<1>1. BooksInv /\ Untouched => NeverOversold
  BY DEF BooksInv, TypeOK, Untouched, Intact, LedgerUnlessRaced, StockNeverNegative, NeverOversold
<1> QED
  BY <1>1, UntouchedInvariant, PTL

-----------------------------------------------------------------------------
(* Orders implements StockLedger where rows are not contended.               *)

\* A session writes the rows of a basket, or the stock of one row.
SessionKinds ==
    \A r \in Requests :
        \/ DOMAIN newStock[r] = DOMAIN bought[r]
        \/ /\ DOMAIN bought[r] = {}
           /\ \E p \in Products : /\ DOMAIN newStock[r] = {p}
                                  /\ newStock[r][p] \in Levels

\* Every session is empty to begin with.
LEMMA InitKinds == Init => SessionKinds
<1>1. DOMAIN EmptyRow = {}
  BY DEF EmptyRow
<1> HIDE DEF EmptyRow
<1> QED
  BY <1>1 DEF Init, SessionKinds

LEMMA KindsStep ==
    ASSUME TypeOK, SessionKinds, [Next]_vars
    PROVE  SessionKinds'
<1> USE DEF SessionKinds
<1>1. CASE UNCHANGED vars
  BY <1>1 DEF vars, session
<1>2. ASSUME NEW r \in Requests, NEW need \in Baskets(r),
             PlaceOrder(r, need), ~ UNCHANGED vars
      PROVE  SessionKinds'
  <2>1. StartWriting(r, Decremented(need), EmptyRow, need)
    BY <1>2 DEF PlaceOrder, Refuse
  <2>2. DOMAIN Decremented(need) = DOMAIN need
    BY DEF Decremented
  <2> QED
    BY <2>1, <2>2 DEF StartWriting, TypeOK
<1>3. ASSUME NEW r \in Requests, NEW p \in Menu[r],
             NEW stockField \in Field({p} \cap Editable, Levels),
             NEW priceField \in Field({p} \cap Products, Prices),
             PatchProduct(r, p, stockField, priceField), ~ UNCHANGED vars
      PROVE  SessionKinds'
  <2> DEFINE cells == Changed(stockField, p, stock)
  <2>1. /\ p \in Products
        /\ StartWriting(r, cells, Changed(priceField, p, price), EmptyRow)
    BY <1>3 DEF PatchProduct, Refuse
  <2>2. stockField \in [DOMAIN stockField -> Levels]
    BY DEF Field, EmptyRow
  <2>3. \/ DOMAIN cells = {}
        \/ DOMAIN cells = {p} /\ cells[p] \in Levels
    BY <2>2 DEF Changed
  <2>4. DOMAIN EmptyRow = {}
    BY DEF EmptyRow
  <2> HIDE DEF cells
  <2> QED
    BY <2>1, <2>3, <2>4 DEF StartWriting, TypeOK
<1>4. ASSUME NEW r \in Requests, Commit(r) \/ Rollback(r)
      PROVE  SessionKinds'
  <2>1. EndTransaction(r) /\ DOMAIN newStock = Requests /\ DOMAIN bought = Requests
    BY <1>4 DEF Commit, Rollback, TypeOK
  <2>2. DOMAIN newStock'[r] = {} /\ DOMAIN bought'[r] = {}
    BY <2>1 DEF EndTransaction, EmptyRow
  <2>3. \A q \in Requests \ {r} : newStock'[q] = newStock[q] /\ bought'[q] = bought[q]
    BY <2>1 DEF EndTransaction
  <2> QED
    BY <2>2, <2>3
<1>5. ASSUME NEW r \in Requests, UpdateRow(r) \/ Respond(r)
      PROVE  SessionKinds'
  BY <1>5 DEF UpdateRow, Respond, session
<1> QED
  BY <1>1, <1>2, <1>3, <1>4, <1>5 DEF Next, Arrive

\* The commit of an order is Buy, that of a stock PATCH is Restock.
LEMMA CommitLedger ==
    ASSUME NEW r \in Requests, BooksInv, SessionKinds, Untouched, Commit(r)
    PROVE  Ledger!Next
<1> USE DEF BooksInv
<1>0. /\ Cells(newStock[r], Int) /\ Cells(bought[r], Quantities)
      /\ stock \in [Products -> Int] /\ sold \in [Products -> Nat]
      /\ supplied \in [Products -> Int]
  BY DEF TypeOK
<1>1. /\ stock' = Written(newStock[r], stock)
      /\ sold' = [p \in Products |-> sold[p] + Sold(bought[r], p)]
      /\ supplied' = [p \in Products |-> supplied[p] + Delivered(r, p)]
  BY DEF Commit
<1>2. CASE DOMAIN newStock[r] = DOMAIN bought[r]
  <2> DEFINE need == bought[r]
  <2>1. \A p \in DOMAIN need : /\ newStock[r][p] + need[p] = stock[p]
                               /\ newStock[r][p] >= 0
    BY <1>0, <1>2 DEF ReadBefore, Untouched, Intact, StockNeverNegative, Cells
  <2>2. \A p \in DOMAIN need :
           p \in Products /\ need[p] \in Int /\ newStock[r][p] \in Int /\ stock[p] \in Int
    BY <1>0, <1>2, BoundsAssumption DEF Cells, Quantities
  <2>3. \A p \in DOMAIN need : need[p] <= stock[p]
    BY <2>1, <2>2
  <2>4. stock' = [p \in Products |-> stock[p] - Ledger!Taken(need, p)]
    <3>1. \A p \in Products :
             (IF p \in DOMAIN newStock[r] THEN newStock[r][p] ELSE stock[p])
             = stock[p] - Ledger!Taken(need, p)
      BY <1>0, <1>2, <2>1, <2>2 DEF Ledger!Taken
    <3> QED
      BY <1>1, <3>1 DEF Written
  <2>5. sold' = [p \in Products |-> sold[p] + Ledger!Taken(need, p)]
    BY <1>1 DEF Sold, Ledger!Taken
  <2>6. supplied' = supplied
    <3>1. \A p \in Products : supplied[p] + Delivered(r, p) = supplied[p]
      BY <1>0, <1>2 DEF Delivered
    <3> QED
      BY <1>0, <1>1, <3>1
  <2>7. Ledger!Buy(need)
    BY <2>3, <2>4, <2>5, <2>6 DEF Ledger!Buy
  <2>8. DOMAIN need \in SUBSET Products /\ need \in [DOMAIN need -> Quantities]
    BY <1>0 DEF Cells
  <2> QED
    BY <2>7, <2>8 DEF Ledger!Next
<1>3. CASE /\ DOMAIN bought[r] = {}
           /\ \E p \in Products : /\ DOMAIN newStock[r] = {p}
                                  /\ newStock[r][p] \in Levels
  <2>1. PICK p \in Products : DOMAIN newStock[r] = {p} /\ newStock[r][p] \in Levels
    BY <1>3
  <2> DEFINE units == newStock[r][p]
  <2>2. stock' = [stock EXCEPT ![p] = units]
    BY <1>0, <1>1, <2>1 DEF Written
  <2>3. supplied' = [supplied EXCEPT ![p] = @ + units - stock[p]]
    <3>1. \A q \in Products : Delivered(r, q) = IF q = p THEN units - stock[p] ELSE 0
      <4>1. p \in Editable
        BY <1>3, <2>1 DEF BooksInv, Wishes
      <4> QED
        BY <1>3, <2>1, <4>1 DEF Delivered
    <3>2. units \in Int /\ stock[p] \in Int
      BY <1>0, <2>1, BoundsAssumption DEF Levels
    <3>3. \A q \in Products :
             supplied'[q] = IF q = p THEN supplied[p] + units - stock[p] ELSE supplied[q]
      BY <1>0, <1>1, <3>1, <3>2
    <3> HIDE DEF units
    <3> QED
      BY <1>0, <1>1, <3>3
  <2>4. sold' = sold
    BY <1>0, <1>1, <1>3 DEF Sold
  <2> QED
    BY <2>1, <2>2, <2>3, <2>4 DEF Ledger!Next, Ledger!Restock
<1> QED
  BY <1>2, <1>3 DEF SessionKinds

\* A step of handlers that have not contended is a step of StockLedger, or none.
LEMMA LedgerStep ==
    ASSUME BooksInv, Untouched, SessionKinds, [Next]_vars
    PROVE  [Ledger!Next]_(Ledger!ledger)
<1> SUFFICES Ledger!Next \/ UNCHANGED Ledger!ledger
  BY DEF Ledger!ledger
<1>1. CASE UNCHANGED vars
  BY <1>1 DEF vars, database, Ledger!ledger
<1>2. ASSUME NEW r \in Requests, Arrive(r)
      PROVE  UNCHANGED Ledger!ledger
  BY <1>2 DEF Arrive, PlaceOrder, PatchProduct, Refuse, StartWriting, vars, database, Ledger!ledger
<1>3. ASSUME NEW r \in Requests, UpdateRow(r) \/ Rollback(r) \/ Respond(r)
      PROVE  UNCHANGED Ledger!ledger
  BY <1>3 DEF UpdateRow, Rollback, Respond, database, Ledger!ledger
<1> QED
  BY <1>1, <1>2, <1>3, CommitLedger DEF Next

\* As long as no two handlers are about to write one row, what they do to the
\* stock is what StockLedger allows: whole baskets, taken at once from the shelf.
THEOREM LedgerUncontended == Spec /\ []Uncontended => LedgerSpec
<1>1. Init => SessionKinds /\ Ledger!Init
  BY InitKinds DEF Init, Ledger!Init
<1>2. BooksInv /\ SessionKinds /\ [Next]_vars => SessionKinds'
  BY KindsStep DEF BooksInv
<1>3. BooksInv /\ Untouched /\ SessionKinds /\ [Next]_vars => [Ledger!Next]_(Ledger!ledger)
  BY LedgerStep
<1> QED
  BY <1>1, <1>2, <1>3, UntouchedInvariant, PTL DEF Spec, LedgerSpec, Ledger!Spec

\* The same for the specification that has only such behaviours, however the menus
\* of the handlers overlap.
THEOREM ImplementsLedger == UncontendedSpec => LedgerSpec
<1>1. Init => /\ BooksInv /\ Untouched /\ Uncontended
              /\ SessionKinds /\ Ledger!Init
  <2> SUFFICES ASSUME Init
               PROVE  Uncontended
    BY InitBooks, InitIntact, InitKinds DEF Untouched, Init, Ledger!Init
  <2> QED
    BY DEF Init, Uncontended, Alone, EmptyRow
<1>2. Uncontended /\ [Next /\ Uncontended']_vars => Uncontended'
  BY DEF vars, session, Uncontended, Alone
<1>3. BooksInv /\ SessionKinds /\ [Next]_vars => SessionKinds'
  BY KindsStep DEF BooksInv
<1>4. BooksInv /\ Untouched /\ SessionKinds /\ [Next]_vars => [Ledger!Next]_(Ledger!ledger)
  BY LedgerStep
<1>5. [Next /\ Uncontended']_vars => [Next]_vars
  OBVIOUS
<1> QED
  BY <1>1, <1>2, <1>3, <1>4, <1>5, BooksStep, UntouchedStep, PTL
     DEF UncontendedSpec, LedgerSpec, Ledger!Spec
=============================================================================
