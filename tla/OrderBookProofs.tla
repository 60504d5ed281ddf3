-------------------------- MODULE OrderBookProofs --------------------------
(***************************************************************************)
(* Proofs about OrderBook for any number of handlers, users, products,       *)
(* payloads and orders.                                                      *)
(***************************************************************************)
EXTENDS OrderBook, Sums, TLAPS

\* A handler that reads or writes began in the past, and a page it shows is of
\* orders that were placed.
Rooted ==
    /\ Len(quotes) \in Nat \ {0}
    /\ Len(placed) <= MaxOrders
    /\ \A r \in Requests :
         /\ req[r] \in Placing => req[r].since \in 1 .. Len(quotes)
         /\ req[r] \in Listing => req[r].shown \subseteq 1 .. Len(placed)
         /\ req[r] \in Listed => DOMAIN req[r].shown \subseteq 1 .. Len(placed)

\* unit is the price column at one instant since then, for the rows needed.
Together(column, unit, items, since) ==
    \E t \in since .. Len(column) :
        unit = [p \in DOMAIN Needed(items) |-> column[t][p]]

PricedTogether ==
    \A r \in Requests : req[r].at \in {"priced", "writing"} =>
        Together(quotes, req[r].unit, req[r].items, req[r].since)

BilledAtOnce ==
    \A n \in 1 .. Len(placed) :
        /\ placed[n].since \in 1 .. Len(quotes)
        /\ placed[n].lines = Needed(placed[n].items)
        /\ Together(quotes, placed[n].unit, placed[n].items, placed[n].since)

\* The types of the tables and of the handlers, without the history of statuses.
BookTyped ==
    /\ products \in SUBSET Rows
    /\ made \in SUBSET Rows
    /\ users \in SUBSET Users
    /\ quotes \in Seq([Rows -> Prices])
    /\ placed \in Seq(Order)
    /\ orders \in SUBSET (1 .. Len(placed))
    /\ status \in [1 .. Len(placed) -> Statuses]
    /\ req \in [Requests -> Request]
    /\ seed \in Seed

BookInv == BookTyped /\ Rooted

-----------------------------------------------------------------------------
\* What a handler is doing tells which record it has.
LEMMA Kinds ==
    ASSUME NEW q \in Request
    PROVE  /\ q.at \in {"known", "priced", "writing"} => q \in Placing
           /\ q.at = "placed" => q \in Answering
           /\ q.at = "listing" => q \in Listing
           /\ q.at = "listed" => q \in Listed
           /\ q.at \in {"changing", "changed"} => q \in Changing
           /\ q \in Placing => q.at \in {"known", "priced", "writing"}
           /\ q \in Answering => q.at = "placed"
           /\ q \in Listing => q.at = "listing"
           /\ q \in Listed => q.at = "listed"
           /\ q \in Changing => q.at \in {"changing", "changed"}
  BY DEF Request, Idle, Placing, Answering, Listing, Listed, Changing

LEMMA OneStep ==
    ASSUME BookTyped, NEW r \in Requests, NEW next \in Request, Go(r, next)
    PROVE  /\ req' \in [Requests -> Request]
           /\ req'[r] = next
           /\ \A q \in Requests \ {r} : req'[q] = req[q]
  BY DEF BookTyped, Go

LEMMA InitBook == Init => BookInv
<1> SUFFICES ASSUME Init PROVE BookInv
  OBVIOUS
<1>1. quotes \in Seq([Rows -> Prices]) /\ Len(quotes) = 1
  BY PricesAssumption DEF Init
<1>2. placed \in Seq(Order) /\ Len(placed) = 0 /\ status \in [1 .. Len(placed) -> Statuses]
  BY DEF Init
<1>3. req \in [Requests -> Request] /\ \A r \in Requests : req[r] = Idle
  BY DEF Init, Request
<1>4. seed \in Seed
  BY DEF Init, Seed, NoSeed
<1>5. Idle \notin Placing /\ Idle \notin Listing /\ Idle \notin Listed
  BY DEF Idle, Placing, Listing, Listed
<1>6. BookTyped
  BY <1>1, <1>2, <1>3, <1>4, RowsAssumption DEF Init, BookTyped
<1>7. Rooted
  BY <1>1, <1>2, <1>3, <1>5, MaxOrdersAssumption DEF Rooted
<1> QED
  BY <1>6, <1>7 DEF BookInv

-----------------------------------------------------------------------------
(* What a payload asks for and what it costs                                 *)

\* Units of some products, finitely many of them.
Counted == UNION {[P -> Nat \ {0}] : P \in {Q \in SUBSET Rows : IsFiniteSet(Q)}}

LEMMA CountedIs ==
    ASSUME NEW needed
    PROVE  needed \in Counted <=> /\ needed \in [DOMAIN needed -> Nat \ {0}]
                                  /\ DOMAIN needed \in SUBSET Rows
                                  /\ IsFiniteSet(DOMAIN needed)
  BY DEF Counted

LEMMA NothingCounted == NoLines \in Counted
<1>1. IsFiniteSet({}) /\ DOMAIN NoLines = {} /\ NoLines \in [DOMAIN NoLines -> Nat \ {0}]
  BY FS_EmptySet DEF NoLines
<1> QED
  BY <1>1, CountedIs

LEMMA LineType ==
    ASSUME NEW line \in Line
    PROVE  line.product \in Rows /\ line.quantity \in Nat \ {0}
  BY DEF Line

\* One line more: what it does to the products, to their units and to the rest.
LEMMA OneLine ==
    ASSUME NEW needed \in Counted, NEW line \in Line
    PROVE  /\ AddLine(needed, line) \in Counted
           /\ DOMAIN AddLine(needed, line) = DOMAIN needed \cup {line.product}
           /\ \A p \in DOMAIN needed \ {line.product} :
                AddLine(needed, line)[p] = needed[p]
           /\ AddLine(needed, line)[line.product] =
                (IF line.product \in DOMAIN needed THEN needed[line.product] ELSE 0)
                + line.quantity
<1>1. /\ needed \in [DOMAIN needed -> Nat \ {0}]
      /\ DOMAIN needed \in SUBSET Rows
      /\ IsFiniteSet(DOMAIN needed)
      /\ line.product \in Rows
      /\ line.quantity \in Nat \ {0}
  BY CountedIs DEF Line
<1> DEFINE more == AddLine(needed, line)
<1>2. /\ DOMAIN more = DOMAIN needed \cup {line.product}
      /\ \A p \in DOMAIN needed \ {line.product} : more[p] = needed[p]
      /\ more[line.product] =
           (IF line.product \in DOMAIN needed THEN needed[line.product] ELSE 0) + line.quantity
  BY <1>1 DEF AddLine
<1>3. IsFiniteSet(DOMAIN needed \cup {line.product})
  BY <1>1, FS_AddElement
<1>4. more = [p \in DOMAIN more |-> more[p]]
  BY DEF AddLine
<1> HIDE DEF more
<1>5. more \in [DOMAIN more -> Nat \ {0}]
  BY <1>1, <1>2, <1>4
<1>6. more \in Counted
  BY <1>1, <1>2, <1>3, <1>5, CountedIs
<1> QED
  BY <1>2, <1>6 DEF more

\* i gives each set of positions what the lines at these positions ask for.
Adds(i, items) ==
    i = [s \in SUBSET (DOMAIN items) |->
           IF s = {} THEN NoLines
           ELSE LET x == S!Max(s) IN AddLine(i[s \ {x}], items[x])]

LEMMA AddsExist ==
    ASSUME NEW items \in Seq(Line)
    PROVE  \E i : i \in [SUBSET (DOMAIN items) -> Counted] /\ Adds(i, items)
<1> DEFINE P == DOMAIN items
           choice == [s \in SUBSET P |-> S!Max(s)]
           step == [xd \in P \X Counted |-> AddLine(xd[2], items[xd[1]])]
<1>1. P \subseteq Int /\ IsFiniteSet(P)
  <2>1. P = 1 .. Len(items) /\ Len(items) \in Nat
    OBVIOUS
  <2> QED
    BY <2>1, FS_Interval
<1>2. \A s \in SUBSET P : s # {} => S!Max(s) \in s
  <2> SUFFICES ASSUME NEW s \in SUBSET P, s # {} PROVE S!Max(s) \in s
    OBVIOUS
  <2>1. s \subseteq Int /\ IsFiniteSet(s)
    BY <1>1, FS_Subset
  <2>2. PICK top \in s : \A x \in s : x <= top
    BY <2>1, Greatest
  <2>3. top \in s /\ \A y \in s : top >= y
    BY <2>1, <2>2
  <2> QED
    BY <2>3 DEF S!Max
<1>3. \A x \in P, d \in Counted : /\ step[<<x, d>>] = AddLine(d, items[x])
                                  /\ step[<<x, d>>] \in Counted
  <2> SUFFICES ASSUME NEW x \in P, NEW d \in Counted
               PROVE  /\ step[<<x, d>>] = AddLine(d, items[x])
                      /\ AddLine(d, items[x]) \in Counted
    OBVIOUS
  <2>1. items[x] \in Line
    OBVIOUS
  <2> QED
    BY <2>1, OneLine
<1> HIDE DEF step
<1>4. PICK i : IsFold(i, choice, step, NoLines, P, Counted)
  <2>1. Folding(choice, step, NoLines, P, Counted)
    BY <1>2, <1>3, NothingCounted DEF Folding
  <2> QED
    BY <1>1, <2>1, SetRecursion
<1>5. ASSUME NEW s \in SUBSET P, s # {}
      PROVE  i[s] = AddLine(i[s \ {S!Max(s)}], items[S!Max(s)])
  <2>1. choice[s] = S!Max(s) /\ S!Max(s) \in P /\ i[s \ {S!Max(s)}] \in Counted
    BY <1>2, <1>4, <1>5 DEF IsFold
  <2>2. i[s] = step[<<choice[s], i[s \ {choice[s]}]>>]
    BY <1>4, <1>5 DEF IsFold
  <2> QED
    BY <1>3, <2>1, <2>2
<1>6. i \in [SUBSET P -> Counted] /\ i[{}] = NoLines
  BY <1>4 DEF IsFold
<1>7. Adds(i, items)
  BY <1>5, <1>6 DEF Adds
<1> QED
  BY <1>6, <1>7

\* What a payload needs, line by line: n[k] is what its first k lines ask for.
ByLine(n, items) ==
    /\ n \in [0 .. Len(items) -> Counted]
    /\ n[0] = NoLines
    /\ \A k \in 1 .. Len(items) : n[k] = AddLine(n[k - 1], items[k])

LEMMA NeededByLine ==
    ASSUME NEW items \in Seq(Line)
    PROVE  \E n : ByLine(n, items) /\ Needed(items) = n[Len(items)]
<1> DEFINE j == CHOOSE j : Adds(j, items)
           m == [k \in 0 .. Len(items) |-> j[1 .. k]]
<1>1. Adds(j, items)
  <2> HIDE DEF Adds
  <2> QED
    BY AddsExist
<1>2. DOMAIN items = 1 .. Len(items) /\ Len(items) \in Nat
  OBVIOUS
<1>3. Needed(items) = j[1 .. Len(items)]
  BY <1>2 DEF Needed, S!FoldLeft, S!MapThenFoldSet, Adds
<1> HIDE DEF j
<1>4. m[0] = NoLines
  <2>1. 1 .. 0 = {} /\ {} \in SUBSET (DOMAIN items)
    OBVIOUS
  <2> QED
    BY <1>1, <1>2, <2>1 DEF Adds
<1>5. ASSUME NEW k \in 1 .. Len(items)
      PROVE  m[k] = AddLine(m[k - 1], items[k])
  <2>1. k \in 1 .. k /\ \A y \in 1 .. k : k >= y
    BY <1>2
  <2>2. S!Max(1 .. k) \in 1 .. k /\ \A y \in 1 .. k : S!Max(1 .. k) >= y
    BY <2>1 DEF S!Max
  <2>3. S!Max(1 .. k) = k
    BY <1>2, <2>1, <2>2
  <2>4. (1 .. k) \ {k} = 1 .. (k - 1) /\ 1 .. k # {} /\ 1 .. k \in SUBSET (DOMAIN items)
    <3>1. (1 .. k) \ {k} = 1 .. (k - 1)
      OBVIOUS
    <3>2. 1 .. k \subseteq 1 .. Len(items)
      BY <1>2
    <3> QED
      BY <1>2, <2>1, <3>1, <3>2
  <2>5. k - 1 \in 0 .. Len(items) /\ k \in 0 .. Len(items)
    BY <1>2
  <2>6. j[1 .. k] = AddLine(j[1 .. (k - 1)], items[k])
    BY <1>1, <2>3, <2>4 DEF Adds
  <2> QED
    BY <2>5, <2>6
<1> DEFINE N == {k \in Nat : k <= Len(items) => m[k] \in Counted}
<1> HIDE DEF m
<1>6. 0 \in N
  BY <1>2, <1>4, NothingCounted
<1>7. ASSUME NEW k \in N
      PROVE  k + 1 \in N
  <2> SUFFICES ASSUME k + 1 <= Len(items) PROVE m[k + 1] \in Counted
    OBVIOUS
  <2>1. k \in Nat /\ k + 1 \in 1 .. Len(items) /\ (k + 1) - 1 = k
    BY <1>2
  <2>2. m[k] \in Counted /\ items[k + 1] \in Line
    BY <1>2, <2>1
  <2>3. m[k + 1] = AddLine(m[k], items[k + 1])
    BY <1>5, <2>1
  <2>4. AddLine(m[k], items[k + 1]) \in Counted
    <3> HIDE DEF N
    <3> QED
      BY <2>2, OneLine
  <2> QED
    BY <2>3, <2>4
<1>8. N = Nat
  <2> HIDE DEF N
  <2>1. N \in SUBSET Nat
    BY DEF N
  <2> QED
    BY <1>6, <1>7, <2>1, Upwards
<1>9. \A k \in 0 .. Len(items) : m[k] \in Counted
  BY <1>2, <1>8
<1>10. m \in [0 .. Len(items) -> Counted] /\ m[Len(items)] = j[1 .. Len(items)]
  BY <1>2, <1>9 DEF m
<1> QED
  BY <1>3, <1>4, <1>5, <1>10 DEF ByLine

\* The products needed are those the lines name.
LEMMA NeededNames ==
    ASSUME NEW items \in Seq(Line), NEW n, ByLine(n, items)
    PROVE  \A k \in 0 .. Len(items) : DOMAIN n[k] = {items[l].product : l \in 1 .. k}
<1> DEFINE named(k) == {items[l].product : l \in 1 .. k}
           N == {k \in Nat : k <= Len(items) => DOMAIN n[k] = named(k)}
<1>1. 0 \in N
  <2>1. named(0) = {} /\ DOMAIN NoLines = {}
    BY DEF NoLines
  <2> QED
    BY <2>1 DEF ByLine
<1>2. ASSUME NEW k \in N
      PROVE  k + 1 \in N
  <2> SUFFICES ASSUME k + 1 <= Len(items) PROVE DOMAIN n[k + 1] = named(k + 1)
    OBVIOUS
  <2>1. k \in Nat /\ k + 1 \in 1 .. Len(items) /\ (k + 1) - 1 = k /\ k \in 0 .. Len(items)
    OBVIOUS
  <2>2. n[k] \in Counted /\ items[k + 1] \in Line /\ DOMAIN n[k] = named(k)
    BY <2>1 DEF ByLine
  <2>3. n[k + 1] = AddLine(n[k], items[k + 1])
    BY <2>1 DEF ByLine
  <2>4. DOMAIN n[k + 1] = named(k) \cup {items[k + 1].product}
    <3> HIDE DEF named
    <3>1. DOMAIN AddLine(n[k], items[k + 1]) = DOMAIN n[k] \cup {items[k + 1].product}
      BY <2>2, OneLine
    <3> QED
      BY <2>2, <2>3, <3>1
  <2>5. 1 .. (k + 1) = (1 .. k) \cup {k + 1}
    BY <2>1
  <2> QED
    BY <2>4, <2>5
<1>3. N = Nat
  <2>1. N \in SUBSET Nat
    OBVIOUS
  <2> HIDE DEF N
  <2> QED
    BY <1>1, <1>2, <2>1, Upwards
<1> QED
  BY <1>3

-----------------------------------------------------------------------------
\* The total of a bill is a sum over the products needed.
LEMMA TotalSums ==
    ASSUME NEW needed, NEW unit
    PROVE  Total(needed, unit) =
             SumFunctionOnSet([p \in DOMAIN needed |-> unit[p] * needed[p]], DOMAIN needed)
  BY DEF Total, F!SumFunction, F!SumFunctionOnSet, F!FoldFunctionOnSet, F!MapThenFoldSet,
         SumFunctionOnSet, FoldFunctionOnSet, MapThenFoldSet

\* unit has a number for each product.
Quoted(unit, names) == \A p \in names : unit[p] \in Int

LEMMA PricesInt ==
    ASSUME NEW unit \in Units
    PROVE  Quoted(unit, DOMAIN unit)
<1>1. unit \in [DOMAIN unit -> Prices]
  BY DEF Units
<1> QED
  BY <1>1, PricesAssumption DEF Quoted

LEMMA TotalType ==
    ASSUME NEW needed \in Counted, NEW unit, Quoted(unit, DOMAIN needed)
    PROVE  Total(needed, unit) \in Int
<1> DEFINE f == [p \in DOMAIN needed |-> unit[p] * needed[p]]
<1>1. IsFiniteSet(DOMAIN needed) /\ needed \in [DOMAIN needed -> Nat \ {0}]
  BY CountedIs
<1>2. Numbered(f, DOMAIN needed)
  BY <1>1 DEF Numbered, Quoted
<1> QED
  BY <1>1, <1>2, SumType, TotalSums

\* One line more adds what this line costs, whether or not its product was named.
LEMMA LineCosts ==
    ASSUME NEW needed \in Counted, NEW line \in Line, NEW unit,
           Quoted(unit, DOMAIN needed \cup {line.product})
    PROVE  Total(AddLine(needed, line), unit)
             = Total(needed, unit) + line.quantity * unit[line.product]
<1> DEFINE more == AddLine(needed, line)
           p == line.product
           q == line.quantity
           f == [x \in DOMAIN needed |-> unit[x] * needed[x]]
           g == [x \in DOMAIN more |-> unit[x] * more[x]]
           rest == DOMAIN needed \ {p}
<1>1. /\ more \in Counted
      /\ DOMAIN more = DOMAIN needed \cup {p}
      /\ \A x \in rest : more[x] = needed[x]
      /\ more[p] = (IF p \in DOMAIN needed THEN needed[p] ELSE 0) + q
  BY OneLine
<1> HIDE DEF more
<1>2. /\ needed \in [DOMAIN needed -> Nat \ {0}] /\ IsFiniteSet(DOMAIN needed)
      /\ more \in [DOMAIN more -> Nat \ {0}] /\ IsFiniteSet(DOMAIN more)
  BY <1>1, CountedIs
<1>3. q \in Int /\ unit[p] \in Int
  BY DEF Line, Quoted
<1>4. Numbered(f, DOMAIN needed) /\ Numbered(g, DOMAIN more)
  BY <1>1, <1>2 DEF Numbered, Quoted
<1>5. /\ Total(needed, unit) = SumFunctionOnSet(f, DOMAIN needed)
      /\ Total(more, unit) = SumFunctionOnSet(g, DOMAIN more)
  BY TotalSums
<1>6. SumFunctionOnSet(f, rest) = SumFunctionOnSet(g, rest)
  <2>1. IsFiniteSet(rest) /\ Numbered(f, rest)
    BY <1>2, <1>4, FS_Subset DEF Numbered
  <2>2. \A x \in rest : f[x] = g[x]
    BY <1>1
  <2> HIDE DEF f, g, rest
  <2> QED
    BY <2>1, <2>2, SumAgrees
<1>7. SumFunctionOnSet(g, DOMAIN more) = g[p] + SumFunctionOnSet(g, rest)
  <2>1. p \in DOMAIN more /\ DOMAIN more \ {p} = rest
    BY <1>1
  <2> HIDE DEF g, rest, p
  <2>2. SumFunctionOnSet(g, DOMAIN more) = g[p] + SumFunctionOnSet(g, DOMAIN more \ {p})
    BY <1>2, <1>4, <2>1, SumSplits
  <2> QED
    BY <2>1, <2>2
<1>8. SumFunctionOnSet(g, rest) \in Int
  <2>1. IsFiniteSet(rest) /\ Numbered(g, rest)
    BY <1>1, <1>2, <1>4, FS_Subset DEF Numbered
  <2> HIDE DEF g, rest
  <2> QED
    BY <2>1, SumType
<1>9. CASE p \in DOMAIN needed
  <2>1. SumFunctionOnSet(f, DOMAIN needed) = f[p] + SumFunctionOnSet(f, rest)
    <3> HIDE DEF f, p
    <3> QED
      BY <1>2, <1>4, <1>9, SumSplits
  <2>2. f[p] = unit[p] * needed[p] /\ needed[p] \in Int
    BY <1>2, <1>9
  <2>3. g[p] = unit[p] * (needed[p] + q)
    BY <1>1, <1>9
  <2>4. \A a, b, c \in Int : a * (b + c) = a * b + c * a
    OBVIOUS
  <2>5. g[p] = f[p] + q * unit[p] /\ f[p] \in Int /\ q * unit[p] \in Int
    BY <1>3, <2>2, <2>3, <2>4
  <2> HIDE DEF f, g, p, q, rest
  <2>6. Total(more, unit) = Total(needed, unit) + q * unit[p]
    BY <1>5, <1>6, <1>7, <1>8, <2>1, <2>5
  <2> QED
    BY <2>6 DEF more, p, q
<1>10. CASE p \notin DOMAIN needed
  <2>1. rest = DOMAIN needed
    BY <1>10
  <2>2. g[p] = unit[p] * (0 + q)
    BY <1>1, <1>10
  <2>3. \A a, c \in Int : a * (0 + c) = c * a
    OBVIOUS
  <2>4. g[p] = q * unit[p] /\ q * unit[p] \in Int
    BY <1>3, <2>2, <2>3
  <2> HIDE DEF f, g, p, q, rest
  <2>5. Total(more, unit) = Total(needed, unit) + q * unit[p]
    BY <1>5, <1>6, <1>7, <1>8, <2>1, <2>4
  <2> QED
    BY <2>5 DEF more, p, q
<1> QED
  BY <1>9, <1>10

LEMMA NeededType ==
    ASSUME NEW items \in Seq(Line)
    PROVE  /\ Needed(items) \in Counted
           /\ DOMAIN Needed(items) = {items[l].product : l \in DOMAIN items}
<1>1. PICK n : ByLine(n, items) /\ Needed(items) = n[Len(items)]
  BY NeededByLine
<1>2. Len(items) \in 0 .. Len(items) /\ DOMAIN items = 1 .. Len(items)
  OBVIOUS
<1>3. DOMAIN n[Len(items)] = {items[l].product : l \in 1 .. Len(items)}
  BY <1>1, <1>2, NeededNames
<1> QED
  BY <1>1, <1>2, <1>3 DEF ByLine

\* What the lines of a payload cost, one by one.
Cost(items, unit) == [i \in DOMAIN items |-> items[i].quantity * unit[items[i].product]]

\* The total over the products is the sum over the lines.
LEMMA TotalIsCost ==
    ASSUME NEW items \in Seq(Line), NEW unit, Quoted(unit, DOMAIN Needed(items))
    PROVE  Total(Needed(items), unit) = F!SumFunction(Cost(items, unit))
<1> DEFINE cost == Cost(items, unit)
<1>1. PICK n : ByLine(n, items) /\ Needed(items) = n[Len(items)]
  BY NeededByLine
<1>2. DOMAIN items = 1 .. Len(items) /\ Len(items) \in Nat
  OBVIOUS
<1>3. ASSUME NEW k \in 1 .. Len(items)
      PROVE  /\ items[k].product \in DOMAIN Needed(items)
             /\ unit[items[k].product] \in Int
             /\ cost[k] = items[k].quantity * unit[items[k].product]
             /\ cost[k] \in Int
  <2>1. items[k] \in Line /\ k \in DOMAIN items
    BY <1>2
  <2>2. items[k].product \in DOMAIN Needed(items)
    BY <2>1, NeededType
  <2>3. unit[items[k].product] \in Int /\ items[k].quantity \in Int
    BY <2>1, <2>2, LineType DEF Quoted
  <2> QED
    BY <2>1, <2>2, <2>3 DEF Cost
<1> HIDE DEF cost
<1> DEFINE upTo(k) == SumFunctionOnSet(cost, 1 .. k)
           N == {k \in Nat : k <= Len(items) => Total(n[k], unit) = upTo(k)}
<1>4. 0 \in N
  <2>1. Total(NoLines, unit) = 0
    <3>1. DOMAIN NoLines = {}
      BY DEF NoLines
    <3> QED
      BY <3>1, TotalSums, SumEmpty
  <2>2. upTo(0) = 0
    <3>1. 1 .. 0 = {}
      OBVIOUS
    <3> QED
      BY <3>1, SumEmpty
  <2>3. n[0] = NoLines
    BY <1>1 DEF ByLine
  <2> QED
    BY <2>1, <2>2, <2>3
<1>5. ASSUME NEW k \in N
      PROVE  k + 1 \in N
  <2> SUFFICES ASSUME k + 1 <= Len(items) PROVE Total(n[k + 1], unit) = upTo(k + 1)
    OBVIOUS
  <2> DEFINE line == items[k + 1]
  <2>1. k \in Nat /\ k + 1 \in 1 .. Len(items) /\ (k + 1) - 1 = k /\ k \in 0 .. Len(items)
    BY <1>2
  <2>2. n[k] \in Counted /\ line \in Line /\ Total(n[k], unit) = upTo(k)
    BY <1>1, <1>2, <2>1 DEF ByLine
  <2>3. n[k + 1] = AddLine(n[k], line)
    BY <1>1, <2>1 DEF ByLine
  <2>4. Quoted(unit, DOMAIN n[k] \cup {line.product})
    <3>1. DOMAIN n[k] = {items[l].product : l \in 1 .. k}
      BY <1>1, <2>1, NeededNames
    <3>2. 1 .. k \subseteq 1 .. Len(items)
      BY <1>2, <2>1
    <3> QED
      BY <1>3, <2>1, <3>1, <3>2 DEF Quoted
  <2>5. Total(n[k + 1], unit) = upTo(k) + cost[k + 1]
    <3>1. Total(AddLine(n[k], line), unit) = Total(n[k], unit) + line.quantity * unit[line.product]
      <4> HIDE DEF line
      <4> QED
        BY <2>2, <2>4, LineCosts
    <3> HIDE DEF upTo
    <3> QED
      BY <1>3, <2>1, <2>2, <2>3, <3>1
  <2>6. upTo(k + 1) = cost[k + 1] + upTo(k)
    <3>1. IsFiniteSet(1 .. (k + 1)) /\ k + 1 \in 1 .. (k + 1)
      BY <2>1, FS_Interval
    <3>2. (1 .. (k + 1)) \ {k + 1} = 1 .. k
      BY <2>1
    <3>3. 1 .. (k + 1) \subseteq 1 .. Len(items)
      BY <1>2, <2>1
    <3>4. Numbered(cost, 1 .. (k + 1))
      BY <1>3, <3>3 DEF Numbered
    <3>5. SumFunctionOnSet(cost, 1 .. (k + 1))
            = cost[k + 1] + SumFunctionOnSet(cost, (1 .. (k + 1)) \ {k + 1})
      BY <3>1, <3>4, SumSplits
    <3> QED
      BY <3>2, <3>5
  <2>7. upTo(k) \in Int /\ cost[k + 1] \in Int
    <3>1. IsFiniteSet(1 .. k) /\ 1 .. k \subseteq 1 .. Len(items)
      BY <1>2, <2>1, FS_Interval
    <3>2. Numbered(cost, 1 .. k)
      BY <1>3, <3>1 DEF Numbered
    <3> QED
      BY <1>3, <2>1, <3>1, <3>2, SumType
  <2> HIDE DEF upTo
  <2> QED
    BY <2>5, <2>6, <2>7
<1>6. N = Nat
  <2>1. N \in SUBSET Nat
    OBVIOUS
  <2> HIDE DEF N
  <2> QED
    BY <1>4, <1>5, <2>1, Upwards
<1>7. Total(Needed(items), unit) = SumFunctionOnSet(cost, 1 .. Len(items))
  BY <1>1, <1>2, <1>6
<1>8. F!SumFunction(cost) = SumFunctionOnSet(cost, DOMAIN cost)
  BY DEF F!SumFunction, F!SumFunctionOnSet, F!FoldFunctionOnSet, F!MapThenFoldSet,
         SumFunctionOnSet, FoldFunctionOnSet, MapThenFoldSet
<1>9. DOMAIN cost = 1 .. Len(items)
  BY <1>2 DEF cost, Cost
<1> QED
  BY <1>7, <1>8, <1>9 DEF cost

-----------------------------------------------------------------------------
(* Type correctness                                                          *)

\* A step that only takes one handler from one record to another.
LEMMA HandlerBook ==
    ASSUME BookInv, NEW r \in Requests, NEW next \in Request, Go(r, next),
           UNCHANGED <<catalogue, users, book, seed>>,
           next \in Placing => next.since \in 1 .. Len(quotes),
           next \in Listing => next.shown \subseteq 1 .. Len(placed),
           next \in Listed => DOMAIN next.shown \subseteq 1 .. Len(placed)
    PROVE  BookInv'
<1>1. /\ req' \in [Requests -> Request]
      /\ req'[r] = next
      /\ \A q \in Requests \ {r} : req'[q] = req[q]
  BY OneStep DEF BookInv
<1>2. /\ products' = products /\ made' = made /\ quotes' = quotes /\ users' = users
      /\ placed' = placed /\ orders' = orders /\ status' = status /\ seed' = seed
  BY DEF catalogue, book
<1>3. BookTyped'
  BY <1>1, <1>2 DEF BookInv, BookTyped
<1>4. Rooted'
  BY <1>1, <1>2 DEF BookInv, Rooted
<1> QED
  BY <1>3, <1>4 DEF BookInv

LEMMA IdleBook ==
    ASSUME BookInv, NEW r \in Requests, Go(r, Idle),
           UNCHANGED <<catalogue, users, book, seed>>
    PROVE  BookInv'
<1>1. Idle \in Request
  BY DEF Request
<1>2. Idle \notin Placing /\ Idle \notin Listing /\ Idle \notin Listed
  BY DEF Idle, Placing, Listing, Listed
<1> QED
  BY <1>1, <1>2, HandlerBook

LEMMA PlaceOrderBook ==
    ASSUME BookInv, NEW r \in Requests, NEW u \in Users, NEW items \in Payloads,
           PlaceOrder(r, u, items)
    PROVE  BookInv'
<1> DEFINE next == [at |-> "known", user |-> u, items |-> items,
                    since |-> Len(quotes), unit |-> NoLines, held |-> {}]
<1>1. NoLines \in Units
  <2>1. NoLines \in [{} -> Prices]
    BY DEF NoLines
  <2> QED
    BY <2>1 DEF Units
<1>2. next \in Placing
  BY <1>1 DEF BookInv, Rooted, Placing
<1>3. next \in Request /\ next \notin Listing /\ next \notin Listed
  BY <1>2 DEF Request, Listing, Listed
<1>4. next.since \in 1 .. Len(quotes)
  BY DEF BookInv, Rooted
<1> QED
  BY <1>3, <1>4, HandlerBook DEF PlaceOrder

LEMMA ReadRowsBook ==
    ASSUME BookInv, NEW r \in Requests, ReadRows(r)
    PROVE  BookInv'
<1> DEFINE needed == DOMAIN Needed(req[r].items)
           unit == [p \in needed |-> Price[p]]
           next == Priced(r, unit)
<1>1. req[r] \in Placing
  BY Kinds DEF BookInv, BookTyped, ReadRows
<1>2. CASE ~ needed \subseteq products
  BY <1>2, IdleBook DEF ReadRows
<1>3. CASE needed \subseteq products
  <2>1. Price \in [Rows -> Prices]
    BY DEF BookInv, BookTyped, Rooted, Price
  <2>2. needed \subseteq Rows
    BY <1>3 DEF BookInv, BookTyped
  <2>3. unit \in [needed -> Prices]
    BY <2>1, <2>2
  <2>4. unit \in Units
    BY <2>2, <2>3 DEF Units
  <2> HIDE DEF unit
  <2>5. next \in Placing
    BY <1>1, <2>4 DEF Placing, Priced
  <2>6. next \in Request /\ next \notin Listing /\ next \notin Listed
    BY <2>5 DEF Request, Placing, Listing, Listed
  <2>7. next.since = req[r].since
    BY <1>1 DEF Priced, Placing
  <2>8. next.since \in 1 .. Len(quotes)
    BY <1>1, <2>7 DEF BookInv, Rooted
  <2>9. Go(r, next) /\ UNCHANGED <<catalogue, users, book, seed>>
    BY <1>3 DEF ReadRows, unit
  <2> QED
    BY <2>6, <2>8, <2>9, HandlerBook
<1> QED
  BY <1>2, <1>3

LEMMA InsertOrderBook ==
    ASSUME BookInv, NEW r \in Requests, InsertOrder(r)
    PROVE  BookInv'
<1> DEFINE next == [req[r] EXCEPT !.at = "writing"]
<1>1. req[r] \in Placing
  BY Kinds DEF BookInv, BookTyped, InsertOrder
<1>2. next \in Placing /\ next.since = req[r].since
  BY <1>1 DEF Placing
<1>3. next \in Request /\ next \notin Listing /\ next \notin Listed
  BY <1>2 DEF Request, Placing, Listing, Listed
<1>4. next.since \in 1 .. Len(quotes)
  BY <1>1, <1>2 DEF BookInv, Rooted
<1>5. Go(r, next) /\ UNCHANGED <<catalogue, users, book, seed>>
  BY DEF InsertOrder, Go
<1> QED
  BY <1>3, <1>4, <1>5, HandlerBook

LEMMA LockRowBook ==
    ASSUME BookInv, NEW r \in Requests, LockRow(r)
    PROVE  BookInv'
<1>1. req[r] \in Placing
  BY Kinds DEF BookInv, BookTyped, LockRow
<1>2. PICK p \in products : req' = [req EXCEPT ![r].held = @ \cup {p}]
  BY DEF LockRow
<1> DEFINE next == [req[r] EXCEPT !.held = @ \cup {p}]
<1>3. next \in Placing /\ next.since = req[r].since
  BY <1>1 DEF Placing, BookInv, BookTyped
<1>4. next \in Request /\ next \notin Listing /\ next \notin Listed
  BY <1>3 DEF Request, Placing, Listing, Listed
<1>5. next.since \in 1 .. Len(quotes)
  BY <1>1, <1>3 DEF BookInv, Rooted
<1>6. Go(r, next) /\ UNCHANGED <<catalogue, users, book, seed>>
  BY <1>2 DEF LockRow, Go
<1> QED
  BY <1>4, <1>5, <1>6, HandlerBook

LEMMA ListOrdersBook ==
    ASSUME BookInv, NEW r \in Requests, NEW u \in Users, ListOrders(r, u)
    PROVE  BookInv'
<1> DEFINE shown == {n \in orders : placed[n].user = u}
           next == [at |-> "listing", shown |-> shown]
<1>1. shown \subseteq 1 .. Len(placed)
  BY DEF BookInv, BookTyped
<1>2. shown \subseteq Numbers
  BY <1>1, MaxOrdersAssumption DEF BookInv, BookTyped, Rooted, Numbers
<1> HIDE DEF shown
<1>3. next \in Listing
  BY <1>2 DEF Listing
<1>4. next \in Request /\ next \notin Placing /\ next \notin Listed
  BY <1>3 DEF Request, Placing, Listing, Listed
<1>5. Go(r, next) /\ UNCHANGED <<catalogue, users, book, seed>>
  BY DEF ListOrders, shown
<1> QED
  BY <1>1, <1>4, <1>5, HandlerBook

LEMMA ListLinesBook ==
    ASSUME BookInv, NEW r \in Requests, ListLines(r)
    PROVE  BookInv'
<1> DEFINE shown == [n \in req[r].shown |->
                       IF n \in orders THEN placed[n].lines ELSE NoLines]
           next == [at |-> "listed", shown |-> shown]
<1>1. req[r] \in Listing
  BY Kinds DEF BookInv, BookTyped, ListLines
<1>2. req[r].shown \subseteq Numbers /\ req[r].shown \subseteq 1 .. Len(placed)
  BY <1>1 DEF Listing, BookInv, Rooted
<1>3. NoLines \in Lines
  BY DEF Lines
<1>4. \A n \in 1 .. Len(placed) : placed[n].lines \in Lines
  <2>1. \A n \in 1 .. Len(placed) : placed[n] \in Order
    BY DEF BookInv, BookTyped
  <2>2. \A o \in Order : o.lines \in Lines
    BY DEF Order
  <2> QED
    BY <2>1, <2>2
<1>5. shown \in [req[r].shown -> Lines]
  BY <1>2, <1>3, <1>4
<1>6. DOMAIN shown = req[r].shown
  OBVIOUS
<1> HIDE DEF shown
<1>7. next \in Listed
  BY <1>2, <1>5 DEF Listed
<1>8. next \in Request /\ next \notin Placing /\ next \notin Listing
  BY <1>7 DEF Request, Placing, Listing, Listed
<1>9. Go(r, next) /\ UNCHANGED <<catalogue, users, book, seed>>
  BY DEF ListLines, shown
<1> QED
  BY <1>2, <1>6, <1>8, <1>9, HandlerBook

LEMMA ReadStatusBook ==
    ASSUME BookInv, NEW r \in Requests, NEW n \in orders, NEW target \in Statuses,
           ReadStatus(r, n, target)
    PROVE  BookInv'
<1> DEFINE next == [at |-> "changing", order |-> n, read |-> status[n],
                    target |-> target]
<1>1. n \in 1 .. Len(placed) /\ n \in Numbers /\ status[n] \in Statuses
  BY MaxOrdersAssumption DEF BookInv, BookTyped, Rooted, Numbers
<1>2. next \in Changing
  BY <1>1 DEF Changing
<1>3. next \in Request /\ next \notin Placing /\ next \notin Listing /\ next \notin Listed
  BY <1>2 DEF Request, Changing, Placing, Listing, Listed
<1> QED
  BY <1>3, HandlerBook DEF ReadStatus

\* WriteStatus moves its own handler and nobody else.
LEMMA OwnChange ==
    ASSUME BookTyped, NEW r \in Requests, WriteStatus(r)
    PROVE  /\ req' \in [Requests -> Request]
           /\ req[r] \in Changing /\ req'[r] \in Changing
           /\ req'[r] = [req[r] EXCEPT !.at = "changed"]
           /\ \A q \in Requests \ {r} : req'[q] = req[q]
<1>1. req[r] \in Changing /\ req \in [Requests -> Request]
  BY Kinds DEF BookTyped, WriteStatus
<1>2. [req[r] EXCEPT !.at = "changed"] \in Changing
  BY <1>1 DEF Changing
<1>3. [req[r] EXCEPT !.at = "changed"] \in Request
  BY <1>2 DEF Request
<1>4. req' = [req EXCEPT ![r] = [req[r] EXCEPT !.at = "changed"]]
  BY DEF WriteStatus
<1> QED
  BY <1>1, <1>2, <1>3, <1>4

LEMMA WriteStatusBook ==
    ASSUME BookInv, NEW r \in Requests, WriteStatus(r)
    PROVE  BookInv'
<1>1. /\ req' \in [Requests -> Request]
      /\ \A q \in Requests : \/ req'[q] = req[q]
                              \/ /\ req[q] \in Changing
                                 /\ req'[q] \in Changing
  BY OwnChange DEF BookInv
<1>2. \A q \in Changing : q \notin Placing /\ q \notin Listing /\ q \notin Listed
  BY DEF Changing, Placing, Listing, Listed
<1>3. UNCHANGED <<products, made, quotes, users, placed, orders, seed>>
  BY DEF WriteStatus, catalogue
<1>4. req[r] \in Changing
  BY Kinds DEF BookInv, BookTyped, WriteStatus
<1>5. status' \in [1 .. Len(placed) -> Statuses]
  <2>1. req[r].target \in Statuses
    BY <1>4 DEF Changing
  <2>2. \/ status' = status
        \/ status' = [status EXCEPT ![req[r].order] = req[r].target]
    BY DEF WriteStatus
  <2> QED
    BY <2>1, <2>2 DEF BookInv, BookTyped
<1>6. BookTyped'
  BY <1>1, <1>3, <1>5 DEF BookInv, BookTyped
<1>7. Rooted'
  BY <1>1, <1>2, <1>3 DEF BookInv, Rooted
<1> QED
  BY <1>6, <1>7 DEF BookInv

\* The order a COMMIT adds to the book.
Bill(r) == [user |-> req[r].user, items |-> req[r].items, since |-> req[r].since,
            lines |-> Needed(req[r].items), unit |-> req[r].unit,
            total |-> Total(Needed(req[r].items), req[r].unit)]

LEMMA Committing ==
    ASSUME BookInv, PricedTogether, NEW r \in Requests, CommitOrder(r)
    PROVE  /\ req[r] \in Placing
           /\ Bill(r) \in Order
           /\ placed' = Append(placed, Bill(r))
           /\ Len(placed') = Len(placed) + 1
           /\ Len(placed) < MaxOrders
           /\ \A n \in 1 .. Len(placed) : placed'[n] = placed[n]
           /\ placed'[Len(placed) + 1] = Bill(r)
           /\ orders' = orders \cup {Len(placed) + 1}
           /\ DOMAIN Bill(r).lines = req[r].held
           /\ DOMAIN req[r].unit = DOMAIN Needed(req[r].items)
<1>1. req[r] \in Placing
  BY Kinds DEF BookInv, BookTyped, CommitOrder
<1>2. DOMAIN req[r].unit = DOMAIN Needed(req[r].items)
  BY DEF CommitOrder, PricedTogether, Together
<1>3. /\ req[r].user \in Users /\ req[r].items \in Payloads /\ req[r].since \in Nat
      /\ req[r].unit \in Units
  BY <1>1 DEF Placing
<1>4. /\ Needed(req[r].items) \in Lines
      /\ Total(Needed(req[r].items), req[r].unit) \in Int
  <2>1. req[r].items \in Seq(Line)
    BY <1>3, PayloadsAssumption
  <2>2. Needed(req[r].items) \in Counted
    BY <2>1, NeededType
  <2>3. Quoted(req[r].unit, DOMAIN Needed(req[r].items))
    BY <1>2, <1>3, PricesInt DEF Units, Quoted
  <2> QED
    BY <1>3, <2>2, <2>3, TotalType DEF Lines
<1>5. Bill(r) \in Order
  BY <1>3, <1>4 DEF Bill, Order
<1>6. /\ placed' = Append(placed, Bill(r)) /\ Len(placed) < MaxOrders
      /\ req[r].held = DOMAIN Needed(req[r].items)
      /\ orders' = orders \cup {Len(placed) + 1}
  BY DEF CommitOrder, Bill
<1>7. Bill(r).lines = Needed(req[r].items)
  BY DEF Bill
<1>8. placed \in Seq(Order)
  BY DEF BookInv, BookTyped
<1>9. /\ Len(placed') = Len(placed) + 1
      /\ \A n \in 1 .. Len(placed) : placed'[n] = placed[n]
      /\ placed'[Len(placed) + 1] = Bill(r)
  BY <1>5, <1>6, <1>8
<1> QED
  BY <1>1, <1>2, <1>5, <1>6, <1>7, <1>9

LEMMA CommitOrderBook ==
    ASSUME BookInv, PricedTogether, NEW r \in Requests, CommitOrder(r)
    PROVE  BookInv'
<1> DEFINE n == Len(placed) + 1
           next == [at |-> "placed", order |-> n]
<1>1. /\ Bill(r) \in Order /\ placed' = Append(placed, Bill(r))
      /\ Len(placed') = n /\ Len(placed) < MaxOrders
      /\ orders' = orders \cup {n}
  BY Committing
<1>2. Len(placed) \in Nat
  BY DEF BookInv, BookTyped
<1>3. next \in Answering
  BY <1>1, <1>2, MaxOrdersAssumption DEF Answering, Numbers
<1>4. next \in Request /\ next \notin Placing /\ next \notin Listing /\ next \notin Listed
  BY <1>3 DEF Request, Answering, Placing, Listing, Listed
<1> HIDE DEF next
<1>5. /\ req' \in [Requests -> Request]
      /\ req'[r] = next
      /\ \A q \in Requests \ {r} : req'[q] = req[q]
  BY <1>4, OneStep DEF BookInv, CommitOrder, next
<1>6. status' \in [1 .. Len(placed') -> Statuses]
  <2>1. status \in Seq(Statuses) /\ Len(status) = Len(placed)
    BY <1>2 DEF BookInv, BookTyped
  <2>2. status' = Append(status, "pending")
    BY DEF CommitOrder
  <2>3. status' \in Seq(Statuses) /\ Len(status') = Len(status) + 1
    BY <2>1, <2>2, StatusesAssumption
  <2>4. status' \in [1 .. Len(status') -> Statuses]
    BY <2>3
  <2> QED
    BY <1>1, <2>1, <2>3, <2>4
<1>7. UNCHANGED <<products, made, quotes, users, seed>>
  BY DEF CommitOrder, catalogue
<1>8. placed' \in Seq(Order) /\ orders' \in SUBSET (1 .. Len(placed'))
  <2>1. placed \in Seq(Order)
    BY DEF BookInv, BookTyped
  <2>2. placed' \in Seq(Order)
    BY <1>1, <2>1
  <2>3. orders \in SUBSET (1 .. Len(placed))
    BY DEF BookInv, BookTyped
  <2>4. 1 .. Len(placed) \subseteq 1 .. n /\ n \in 1 .. n
    BY <1>2
  <2> QED
    BY <1>1, <2>2, <2>3, <2>4
<1>9. BookTyped'
  BY <1>5, <1>6, <1>7, <1>8 DEF BookInv, BookTyped
<1>10. Rooted'
  <2>1. \A m \in 1 .. Len(placed) : m \in 1 .. Len(placed')
    BY <1>1, <1>2
  <2>2. Len(placed') <= MaxOrders /\ Len(quotes') \in Nat \ {0}
    BY <1>1, <1>2, <1>7, MaxOrdersAssumption DEF BookInv, Rooted
  <2> QED
    BY <1>4, <1>5, <1>7, <2>1, <2>2 DEF BookInv, Rooted
<1> QED
  BY <1>9, <1>10 DEF BookInv

-----------------------------------------------------------------------------
(* The manager and the script                                                *)

LEMMA RepriceBook ==
    ASSUME BookInv, NEW p \in Rows, NEW amount \in Prices, Reprice(p, amount)
    PROVE  /\ BookInv'
           /\ Len(quotes') = Len(quotes) + 1
           /\ \A t \in 1 .. Len(quotes) : quotes'[t] = quotes[t]
<1> DEFINE next == [Price EXCEPT ![p] = amount]
<1>1. Price \in [Rows -> Prices]
  BY DEF BookInv, BookTyped, Rooted, Price
<1>2. next \in [Rows -> Prices]
  BY <1>1
<1>3. quotes' = Append(quotes, next)
  BY DEF Reprice
<1> HIDE DEF next
<1>4. quotes \in Seq([Rows -> Prices])
  BY DEF BookInv, BookTyped
<1>5. /\ quotes' \in Seq([Rows -> Prices])
      /\ Len(quotes') = Len(quotes) + 1
      /\ \A t \in 1 .. Len(quotes) : quotes'[t] = quotes[t]
  BY <1>2, <1>3, <1>4
<1>6. UNCHANGED <<products, made, users, placed, orders, status, req, seed>>
  BY DEF Reprice, book
<1>7. BookTyped'
  BY <1>5, <1>6 DEF BookInv, BookTyped
<1>8. Rooted'
  <2>1. Len(quotes) \in Nat
    BY DEF BookInv, Rooted
  <2>2. 1 .. Len(quotes) \subseteq 1 .. Len(quotes') /\ Len(quotes') \in Nat \ {0}
    BY <1>5, <2>1
  <2> QED
    BY <1>6, <2>2 DEF BookInv, Rooted
<1> QED
  BY <1>5, <1>7, <1>8 DEF BookInv

\* Everything else leaves the handlers, the prices and the orders' contents alone.
LEMMA BesideBook ==
    ASSUME BookInv,
           \/ \E p \in Rows : CreateProduct(p) \/ DeleteProduct(p)
           \/ \E u \in Users : DeleteUser(u)
           \/ \E new \in SUBSET Rows : CommitInserts(new)
           \/ SeedBegin \/ NextDelete \/ CommitDeletes \/ SeedFails
           \/ UNCHANGED vars
    PROVE  BookInv' /\ UNCHANGED <<quotes, placed, req>> /\ orders' \subseteq orders
<1>1. UNCHANGED <<quotes, placed, status, req>>
  BY DEF CreateProduct, DeleteProduct, DeleteUser, CommitInserts, SeedBegin, NextDelete,
         CommitDeletes, SeedFails, vars, catalogue, book
<1>2. products' \in SUBSET Rows /\ made' \in SUBSET Rows /\ users' \in SUBSET Users
  BY DEF BookInv, BookTyped, CreateProduct, DeleteProduct, DeleteUser, CommitInserts,
         SeedBegin, NextDelete, CommitDeletes, SeedFails, vars, catalogue
<1>3. orders' \subseteq orders
  BY DEF CreateProduct, DeleteProduct, DeleteUser, CommitInserts, SeedBegin, NextDelete,
         CommitDeletes, SeedFails, vars, book
<1>4. seed' \in Seed
  <2>1. NoSeed \in Seed /\ seed \in Seed
    BY DEF BookInv, BookTyped, Seed, NoSeed
  <2>2. \A name : Table(name) \in SUBSET (Rows \cup Users)
    BY DEF BookInv, BookTyped, Table
  <2>3. ASSUME \/ \E p \in Rows : DeleteProduct(p)
               \/ \E u \in Users : DeleteUser(u)
        PROVE  seed' \in Seed
    <3>1. \A p \in Rows :
            [seed EXCEPT !.todo = @ \ {p}, !.products = @ \cup {p}] \in Seed
      BY <2>1 DEF Seed
    <3>2. \A u \in Users : [seed EXCEPT !.todo = @ \ {u}, !.users = @ \cup {u}] \in Seed
      BY <2>1 DEF Seed
    <3> QED
      BY <2>3, <3>1, <3>2 DEF DeleteProduct, DeleteUser
  <2>4. ASSUME SeedBegin \/ NextDelete
        PROVE  seed' \in Seed
    <3>1. ASSUME NEW old \in Seed, NEW rows \in SUBSET (Rows \cup Users), NEW k \in 0 .. 3
          PROVE  [old EXCEPT !.step = k, !.todo = rows] \in Seed
      BY DEF Seed
    <3>2. CASE SeedBegin
      <4>2. Table(Deletes[1]) \in SUBSET (Rows \cup Users) /\ 1 \in 0 .. 3
        BY <2>2
      <4>1. [NoSeed EXCEPT !.step = 1, !.todo = Table(Deletes[1])] \in Seed
        BY <2>1, <4>2, <3>1
      <4> QED
        BY <3>2, <4>1 DEF SeedBegin
    <3>3. CASE NextDelete
      <4>2. Table(Deletes[2]) \in SUBSET (Rows \cup Users) /\ 2 \in 0 .. 3
        BY <2>2
      <4>1. [seed EXCEPT !.step = 2, !.todo = Table(Deletes[2])] \in Seed
        BY <2>1, <4>2, <3>1, Zenon
      <4> QED
        BY <3>3, <4>1 DEF NextDelete
    <3> QED
      BY <2>4, <3>2, <3>3
  <2>5. ASSUME CommitDeletes \/ SeedFails \/ \E new \in SUBSET Rows : CommitInserts(new)
        PROVE  seed' \in Seed
    <3>1. [NoSeed EXCEPT !.step = 3] \in Seed
      BY <2>1 DEF Seed
    <3>2. seed' = [NoSeed EXCEPT !.step = 3] \/ seed' = NoSeed
      BY <2>5 DEF CommitDeletes, SeedFails, CommitInserts
    <3> QED
      BY <2>1, <3>1, <3>2
  <2>6. ASSUME UNCHANGED vars \/ \E p \in Rows : CreateProduct(p)
        PROVE  seed' \in Seed
    BY <2>1, <2>6 DEF vars, CreateProduct
  <2> QED
    BY <2>3, <2>4, <2>5, <2>6
<1>5. BookTyped'
  BY <1>1, <1>2, <1>3, <1>4 DEF BookInv, BookTyped
<1>6. Rooted'
  BY <1>1 DEF BookInv, Rooted
<1> QED
  BY <1>1, <1>3, <1>5, <1>6 DEF BookInv

-----------------------------------------------------------------------------
(* Prices of one instant                                                     *)

PriceInv == BookInv /\ PricedTogether /\ BilledAtOnce

\* A handler's step from one record to another, no order being committed.
LEMMA HandlerPrices ==
    ASSUME PriceInv, NEW r \in Requests, NEW next \in Request, Go(r, next),
           UNCHANGED <<catalogue, users, book, seed>>,
           next.at \in {"priced", "writing"} => Together(quotes, next.unit, next.items, next.since)
    PROVE  PricedTogether' /\ BilledAtOnce'
<1>1. /\ req'[r] = next
      /\ \A q \in Requests \ {r} : req'[q] = req[q]
  BY OneStep DEF PriceInv, BookInv
<1>2. UNCHANGED <<quotes, placed>>
  BY DEF catalogue, book
<1>3. PricedTogether'
  BY <1>1, <1>2 DEF PriceInv, PricedTogether
<1>4. BilledAtOnce'
  BY <1>2 DEF PriceInv, BilledAtOnce
<1> QED
  BY <1>3, <1>4

LEMMA ReadRowsPrices ==
    ASSUME PriceInv, NEW r \in Requests, ReadRows(r)
    PROVE  PricedTogether' /\ BilledAtOnce'
<1> DEFINE needed == DOMAIN Needed(req[r].items)
           unit == [p \in needed |-> Price[p]]
           next == Priced(r, unit)
<1>1. req[r] \in Placing /\ req \in [Requests -> Request]
  BY Kinds DEF PriceInv, BookInv, BookTyped, ReadRows
<1>2. \/ req' = [req EXCEPT ![r] = Idle]
      \/ req' = [req EXCEPT ![r] = next]
  BY DEF ReadRows, Go
<1>3. UNCHANGED <<quotes, placed>>
  BY DEF ReadRows, catalogue, book
<1>4. BilledAtOnce'
  BY <1>3 DEF PriceInv, BilledAtOnce
<1>5. Together(quotes, unit, req[r].items, req[r].since)
  <2>1. Len(quotes) \in req[r].since .. Len(quotes)
    BY <1>1 DEF PriceInv, BookInv, Rooted
  <2> QED
    BY <2>1 DEF Together, Price
<1>6. /\ next.unit = unit /\ next.items = req[r].items /\ next.since = req[r].since
      /\ Idle.at \notin {"priced", "writing"}
  BY <1>1 DEF Priced, Placing, Idle
<1> HIDE DEF next, unit
<1>7. PricedTogether'
  <2>1. ASSUME NEW q \in Requests, req'[q].at \in {"priced", "writing"}
        PROVE  Together(quotes, req'[q].unit, req'[q].items, req'[q].since)
    BY <1>1, <1>2, <1>5, <1>6, <2>1 DEF PriceInv, PricedTogether
  <2> QED
    BY <1>3, <2>1 DEF PricedTogether
<1> QED
  BY <1>4, <1>7

\* Steps that keep the prices a handler has read.
LEMMA SameUnits ==
    ASSUME PriceInv, NEW r \in Requests, InsertOrder(r) \/ LockRow(r)
    PROVE  PricedTogether' /\ BilledAtOnce'
<1>1. /\ req[r] \in Placing /\ req \in [Requests -> Request]
      /\ req[r].at \in {"priced", "writing"}
  BY Kinds DEF PriceInv, BookInv, BookTyped, InsertOrder, LockRow
<1>2. UNCHANGED <<quotes, placed>>
  BY DEF InsertOrder, LockRow, catalogue, book
<1>3. \/ req' = [req EXCEPT ![r].at = "writing"]
      \/ \E p \in products : req' = [req EXCEPT ![r].held = @ \cup {p}]
  BY DEF InsertOrder, LockRow
<1>4. /\ req'[r].unit = req[r].unit /\ req'[r].items = req[r].items
      /\ req'[r].since = req[r].since
      /\ \A q \in Requests \ {r} : req'[q] = req[q]
  BY <1>1, <1>3 DEF Placing
<1>5. PricedTogether'
  BY <1>1, <1>2, <1>4 DEF PriceInv, PricedTogether
<1>6. BilledAtOnce'
  BY <1>2 DEF PriceInv, BilledAtOnce
<1> QED
  BY <1>5, <1>6

LEMMA CommitOrderPrices ==
    ASSUME PriceInv, NEW r \in Requests, CommitOrder(r)
    PROVE  PricedTogether' /\ BilledAtOnce'
<1>1. /\ req[r] \in Placing
      /\ Len(placed') = Len(placed) + 1
      /\ \A n \in 1 .. Len(placed) : placed'[n] = placed[n]
      /\ placed'[Len(placed) + 1] = Bill(r)
  BY Committing DEF PriceInv
<1>2. UNCHANGED quotes /\ Len(placed) \in Nat
  BY DEF CommitOrder, catalogue, PriceInv, BookInv, BookTyped
<1>3. /\ req'[r].at \notin {"priced", "writing"}
      /\ \A q \in Requests \ {r} : req'[q] = req[q]
  BY DEF CommitOrder, Go, PriceInv, BookInv, BookTyped
<1>4. PricedTogether'
  BY <1>2, <1>3 DEF PriceInv, PricedTogether
<1>5. /\ Bill(r).since \in 1 .. Len(quotes)
      /\ Bill(r).lines = Needed(Bill(r).items)
      /\ Together(quotes, Bill(r).unit, Bill(r).items, Bill(r).since)
  <2>1. req[r].since \in 1 .. Len(quotes)
    BY <1>1 DEF PriceInv, BookInv, Rooted
  <2>2. Together(quotes, req[r].unit, req[r].items, req[r].since)
    BY DEF CommitOrder, PriceInv, PricedTogether
  <2> QED
    BY <2>1, <2>2 DEF Bill
<1>6. ASSUME NEW n \in 1 .. Len(placed')
      PROVE  /\ placed'[n].since \in 1 .. Len(quotes)
             /\ placed'[n].lines = Needed(placed'[n].items)
             /\ Together(quotes, placed'[n].unit, placed'[n].items, placed'[n].since)
  <2>1. CASE n \in 1 .. Len(placed)
    BY <1>1, <2>1 DEF PriceInv, BilledAtOnce
  <2>2. CASE n = Len(placed) + 1
    BY <1>1, <1>5, <2>2
  <2> QED
    BY <1>1, <1>2, <2>1, <2>2
<1>7. BilledAtOnce'
  BY <1>2, <1>6 DEF BilledAtOnce
<1> QED
  BY <1>4, <1>7

LEMMA WriteStatusPrices ==
    ASSUME PriceInv, NEW r \in Requests, WriteStatus(r)
    PROVE  PricedTogether' /\ BilledAtOnce'
<1>1. \A q \in Requests : \/ req'[q] = req[q]
                          \/ req'[q] \in Changing
  BY OwnChange DEF PriceInv, BookInv
<1>2. UNCHANGED <<quotes, placed>>
  BY DEF WriteStatus, catalogue
<1>3. \A q \in Changing : q.at \notin {"priced", "writing"}
  BY DEF Changing
<1>4. PricedTogether'
  BY <1>1, <1>2, <1>3 DEF PriceInv, PricedTogether
<1>5. BilledAtOnce'
  BY <1>2 DEF PriceInv, BilledAtOnce
<1> QED
  BY <1>4, <1>5

LEMMA RepricePrices ==
    ASSUME PriceInv, NEW p \in Rows, NEW amount \in Prices, Reprice(p, amount)
    PROVE  PricedTogether' /\ BilledAtOnce'
<1>1. /\ Len(quotes') = Len(quotes) + 1
      /\ \A t \in 1 .. Len(quotes) : quotes'[t] = quotes[t]
      /\ Len(quotes) \in Nat
  BY RepriceBook DEF PriceInv, BookInv, Rooted
<1>2. UNCHANGED <<req, placed>>
  BY DEF Reprice, book
<1>3. ASSUME NEW unit, NEW items, NEW since \in 1 .. Len(quotes),
             Together(quotes, unit, items, since)
      PROVE  Together(quotes', unit, items, since)
  <2>1. PICK t \in since .. Len(quotes) :
               unit = [x \in DOMAIN Needed(items) |-> quotes[t][x]]
    BY <1>3 DEF Together
  <2>2. t \in since .. Len(quotes') /\ quotes'[t] = quotes[t]
    BY <1>1
  <2> QED
    BY <2>1, <2>2 DEF Together
<1>4. PricedTogether'
  <2>1. ASSUME NEW q \in Requests, req[q].at \in {"priced", "writing"}
        PROVE  /\ req[q].since \in 1 .. Len(quotes)
               /\ Together(quotes, req[q].unit, req[q].items, req[q].since)
    BY <2>1, Kinds DEF PriceInv, BookInv, BookTyped, Rooted, PricedTogether
  <2> QED
    BY <1>2, <1>3, <2>1 DEF PricedTogether
<1>5. BilledAtOnce'
  <2>1. ASSUME NEW n \in 1 .. Len(placed)
        PROVE  /\ placed[n].since \in 1 .. Len(quotes)
               /\ placed[n].lines = Needed(placed[n].items)
               /\ Together(quotes, placed[n].unit, placed[n].items, placed[n].since)
    BY DEF PriceInv, BilledAtOnce
  <2>2. 1 .. Len(quotes) \subseteq 1 .. Len(quotes')
    BY <1>1
  <2> QED
    BY <1>2, <1>3, <2>1, <2>2 DEF BilledAtOnce
<1> QED
  BY <1>4, <1>5

LEMMA Plain ==
    ASSUME PriceInv, NEW r \in Requests,
           \/ \E u \in Users : ListOrders(r, u) \/ \E items \in Payloads : PlaceOrder(r, u, items)
           \/ \E n \in orders, target \in Statuses : ReadStatus(r, n, target)
           \/ ListLines(r) \/ Respond(r) \/ Fail(r)
    PROVE  BookInv' /\ PricedTogether' /\ BilledAtOnce'
<1>1. BookInv'
  BY ListOrdersBook, PlaceOrderBook, ReadStatusBook, ListLinesBook, IdleBook
     DEF PriceInv, Respond, Fail
<1>2. PICK at \in {"idle", "known", "listing", "listed", "changing"} :
         /\ req'[r].at = at
         /\ \A q \in Requests \ {r} : req'[q] = req[q]
  BY DEF ListOrders, PlaceOrder, ReadStatus, ListLines, Respond, Fail, Go, Idle,
         PriceInv, BookInv, BookTyped
<1>3. UNCHANGED <<quotes, placed>>
  BY DEF ListOrders, PlaceOrder, ReadStatus, ListLines, Respond, Fail, catalogue, book
<1>4. PricedTogether'
  BY <1>2, <1>3 DEF PriceInv, PricedTogether
<1>5. BilledAtOnce'
  BY <1>3 DEF PriceInv, BilledAtOnce
<1> QED
  BY <1>1, <1>4, <1>5

LEMMA PriceStep == PriceInv /\ [Next]_vars => PriceInv'
<1> SUFFICES ASSUME PriceInv, [Next]_vars PROVE PriceInv'
  OBVIOUS
<1>1. ASSUME NEW r \in Requests,
             \/ \E u \in Users : \/ ListOrders(r, u)
                                \/ \E items \in Payloads : PlaceOrder(r, u, items)
             \/ \E n \in orders, target \in Statuses : ReadStatus(r, n, target)
             \/ ListLines(r) \/ Respond(r) \/ Fail(r)
      PROVE  PriceInv'
  BY <1>1, Plain DEF PriceInv
<1>2. ASSUME NEW r \in Requests, ReadRows(r)
      PROVE  PriceInv'
  BY <1>2, ReadRowsBook, ReadRowsPrices DEF PriceInv
<1>3. ASSUME NEW r \in Requests, InsertOrder(r) \/ LockRow(r)
      PROVE  PriceInv'
  BY <1>3, InsertOrderBook, LockRowBook, SameUnits DEF PriceInv
<1>4. ASSUME NEW r \in Requests, CommitOrder(r)
      PROVE  PriceInv'
  BY <1>4, CommitOrderBook, CommitOrderPrices DEF PriceInv
<1>5. ASSUME NEW r \in Requests, WriteStatus(r)
      PROVE  PriceInv'
  BY <1>5, WriteStatusBook, WriteStatusPrices DEF PriceInv
<1>6. ASSUME NEW p \in Rows, NEW amount \in Prices, Reprice(p, amount)
      PROVE  PriceInv'
  BY <1>6, RepriceBook, RepricePrices DEF PriceInv
<1>7. ASSUME \/ \E p \in Rows : CreateProduct(p) \/ DeleteProduct(p)
             \/ \E u \in Users : DeleteUser(u)
             \/ \E new \in SUBSET Rows : CommitInserts(new)
             \/ SeedBegin \/ NextDelete \/ CommitDeletes \/ SeedFails
             \/ UNCHANGED vars
      PROVE  PriceInv'
  <2>1. BookInv' /\ UNCHANGED <<quotes, placed, req>>
    BY <1>7, BesideBook DEF PriceInv
  <2>2. PricedTogether'
    BY <2>1 DEF PriceInv, PricedTogether
  <2>3. BilledAtOnce'
    BY <2>1 DEF PriceInv, BilledAtOnce
  <2> QED
    BY <2>1, <2>2, <2>3 DEF PriceInv
<1> QED
  BY <1>1, <1>2, <1>3, <1>4, <1>5, <1>6, <1>7 DEF Next, Steps

LEMMA InitPrices == Init => PriceInv
<1> SUFFICES ASSUME Init PROVE PriceInv
  OBVIOUS
<1>1. \A r \in Requests : req[r].at = "idle"
  BY DEF Init, Idle
<1>2. Len(placed) = 0
  BY DEF Init
<1> QED
  BY <1>1, <1>2, InitBook DEF PriceInv, PricedTogether, BilledAtOnce

\* The prices create_order has read, and those it commits, were in the table
\* together since its request began.
THEOREM PriceInvariant == Spec => []PriceInv
  BY InitPrices, PriceStep, PTL DEF Spec

\* The unit prices of an order were all in the table at one instant of its request.
THEOREM PaysOneInstant == Spec => []BilledTogether
<1>1. PriceInv => BilledTogether
  BY DEF PriceInv, BilledAtOnce, Together, BilledTogether
<1> QED
  BY <1>1, PriceInvariant, PTL

-----------------------------------------------------------------------------
(* Orders in full                                                            *)

\* The total of an order was added up from what it says of its lines.
Totalled ==
    \A n \in 1 .. Len(placed) :
        placed[n].total = Total(placed[n].lines, placed[n].unit)

FullInv == PriceInv /\ Totalled

LEMMA CommitOrderFull ==
    ASSUME FullInv, NEW r \in Requests, CommitOrder(r)
    PROVE  Totalled'
<1>1. /\ Len(placed') = Len(placed) + 1
      /\ \A n \in 1 .. Len(placed) : placed'[n] = placed[n]
      /\ placed'[Len(placed) + 1] = Bill(r)
      /\ Len(placed) \in Nat
  BY Committing DEF FullInv, PriceInv, BookInv, BookTyped
<1>2. Bill(r).total = Total(Bill(r).lines, Bill(r).unit)
  BY DEF Bill
<1> QED
  BY <1>1, <1>2 DEF FullInv, Totalled

LEMMA FullStep == FullInv /\ [Next]_vars => FullInv'
<1> SUFFICES ASSUME FullInv, [Next]_vars PROVE FullInv'
  OBVIOUS
<1>1. PriceInv'
  BY PriceStep DEF FullInv
<1>2. CASE \E r \in Requests : CommitOrder(r)
  BY <1>1, <1>2, CommitOrderFull DEF FullInv
<1>3. CASE ~ \E r \in Requests : CommitOrder(r)
  <2>1. UNCHANGED placed
    BY <1>3 DEF Next, Steps, vars, book, ListOrders, PlaceOrder, ReadStatus, ReadRows, InsertOrder,
       LockRow, ListLines, WriteStatus, Respond, Fail, CreateProduct, DeleteProduct, Reprice,
       DeleteUser, CommitInserts, SeedBegin, NextDelete, CommitDeletes, SeedFails
  <2> QED
    BY <1>1, <2>1 DEF FullInv, Totalled
<1> QED
  BY <1>2, <1>3

LEMMA FullBills == FullInv => BilledInFull
<1> SUFFICES ASSUME FullInv, NEW n \in 1 .. Len(placed)
             PROVE  placed[n].total = F!SumFunction(Cost(placed[n].items, placed[n].unit))
  BY DEF BilledInFull, Cost
<1>1. placed[n] \in Order
  BY DEF FullInv, PriceInv, BookInv, BookTyped
<1>2. placed[n].items \in Seq(Line) /\ placed[n].unit \in Units
  BY <1>1, PayloadsAssumption DEF Order
<1>3. /\ placed[n].lines = Needed(placed[n].items)
      /\ DOMAIN placed[n].unit = DOMAIN Needed(placed[n].items)
  BY DEF FullInv, PriceInv, BilledAtOnce, Together
<1>4. Quoted(placed[n].unit, DOMAIN Needed(placed[n].items))
  BY <1>2, <1>3, PricesInt
<1>5. placed[n].total = Total(Needed(placed[n].items), placed[n].unit)
  BY <1>3 DEF FullInv, Totalled
<1> QED
  BY <1>2, <1>4, <1>5, TotalIsCost

\* The total of every order is what the lines of its payload cost at its prices,
\* added up line by line, however many lines name one product.
THEOREM PaysInFull == Spec => []BilledInFull
<1>1. Init => FullInv
  BY InitPrices DEF FullInv, Totalled, Init
<1>2. Spec => []FullInv
  BY <1>1, FullStep, PTL DEF Spec
<1> QED
  BY <1>2, FullBills, PTL

-----------------------------------------------------------------------------
(* What the readers show                                                     *)

ReadInv == PriceInv /\ ListedWhole

\* A handler's step from one record to another, no order being committed.
LEMMA HandlerReads ==
    ASSUME ReadInv, NEW r \in Requests, NEW next \in Request, Go(r, next),
           UNCHANGED <<placed, orders>>,
           next.at = "listed" => \A n \in DOMAIN next.shown :
                n \notin orders \/ next.shown[n] = Needed(placed[n].items)
    PROVE  ListedWhole'
<1>1. /\ req'[r] = next
      /\ \A q \in Requests \ {r} : req'[q] = req[q]
  BY OneStep DEF ReadInv, PriceInv, BookInv
<1> QED
  BY <1>1 DEF ReadInv, ListedWhole

LEMMA ListLinesReads ==
    ASSUME ReadInv, NEW r \in Requests, ListLines(r)
    PROVE  ListedWhole'
<1> DEFINE shown == [n \in req[r].shown |->
                       IF n \in orders THEN placed[n].lines ELSE NoLines]
           next == [at |-> "listed", shown |-> shown]
<1>1. ListedWhole /\ req \in [Requests -> Request]
  BY DEF ReadInv, PriceInv, BookInv, BookTyped
<1>2. \A n \in DOMAIN shown : n \notin orders \/ shown[n] = Needed(placed[n].items)
  BY DEF ReadInv, PriceInv, BilledAtOnce, BookInv, BookTyped
<1>3. Go(r, next) /\ UNCHANGED <<placed, orders>>
  BY DEF ListLines, book
<1> HIDE DEF shown
<1>4. /\ req'[r] = next
      /\ \A q \in Requests \ {r} : req'[q] = req[q]
  BY <1>1, <1>3 DEF Go
<1>5. next.at = "listed" /\ next.shown = shown
  OBVIOUS
<1> QED
  BY <1>1, <1>2, <1>3, <1>4, <1>5 DEF ListedWhole

LEMMA CommitOrderReads ==
    ASSUME ReadInv, NEW r \in Requests, CommitOrder(r)
    PROVE  ListedWhole'
<1>1. /\ \A n \in 1 .. Len(placed) : placed'[n] = placed[n]
      /\ orders' = orders \cup {Len(placed) + 1}
  BY Committing DEF ReadInv, PriceInv
<1> DEFINE next == [at |-> "placed", order |-> Len(placed) + 1]
<1>2. /\ req'[r] = next
      /\ \A q \in Requests \ {r} : req'[q] = req[q]
  BY DEF CommitOrder, Go, ReadInv, PriceInv, BookInv, BookTyped
<1>3. next.at = "placed"
  OBVIOUS
<1> HIDE DEF next
<1>4. ASSUME NEW q \in Requests, req[q].at = "listed", NEW n \in DOMAIN req[q].shown
      PROVE  \/ n \notin orders'
             \/ req[q].shown[n] = Needed(placed'[n].items)
  <2>1. n \in 1 .. Len(placed) /\ Len(placed) \in Nat
    BY <1>4, Kinds DEF ReadInv, PriceInv, BookInv, BookTyped, Rooted
  <2>2. n # Len(placed) + 1
    BY <2>1
  <2> QED
    BY <1>1, <1>4, <2>1, <2>2 DEF ReadInv, ListedWhole
<1> QED
  BY <1>2, <1>3, <1>4 DEF ListedWhole

LEMMA WriteStatusReads ==
    ASSUME ReadInv, NEW r \in Requests, WriteStatus(r)
    PROVE  ListedWhole'
<1>1. \A q \in Requests : req'[q] = req[q] \/ req'[q] \in Changing
  BY OwnChange DEF ReadInv, PriceInv, BookInv
<1>2. \A q \in Changing : q.at # "listed"
  BY DEF Changing
<1>3. UNCHANGED <<placed, orders>>
  BY DEF WriteStatus
<1> QED
  BY <1>1, <1>2, <1>3 DEF ReadInv, ListedWhole

\* Steps after which the handler shows nothing and has nothing to answer.
Silent(r) ==
    \/ \E u \in Users : ListOrders(r, u) \/ \E items \in Payloads : PlaceOrder(r, u, items)
    \/ ReadRows(r) \/ InsertOrder(r) \/ LockRow(r) \/ Respond(r) \/ Fail(r)

LEMMA SilentMoves ==
    ASSUME BookTyped, NEW r \in Requests, Silent(r)
    PROVE  /\ req'[r].at \in {"idle", "known", "priced", "writing", "listing"}
           /\ \A q \in Requests \ {r} : req'[q] = req[q]
<1>1. req \in [Requests -> Request]
  BY DEF BookTyped
<1>2. CASE ReadRows(r) \/ InsertOrder(r) \/ LockRow(r)
  <2>1. req[r] \in Placing
    BY <1>1, <1>2, Kinds DEF ReadRows, InsertOrder, LockRow
  <2>2. CASE ReadRows(r)
    <3> DEFINE unit == [p \in DOMAIN Needed(req[r].items) |-> Price[p]]
    <3>1. \/ req' = [req EXCEPT ![r] = Idle]
          \/ req' = [req EXCEPT ![r] = Priced(r, unit)]
      BY <2>2 DEF ReadRows, Go
    <3> HIDE DEF unit
    <3>2. Priced(r, unit).at = "priced" /\ Idle.at = "idle"
      BY <2>1 DEF Priced, Placing, Idle
    <3> QED
      BY <1>1, <3>1, <3>2
  <2>3. CASE InsertOrder(r) \/ LockRow(r)
    BY <1>1, <2>1, <2>3 DEF InsertOrder, LockRow, Placing
  <2> QED
    BY <1>2, <2>2, <2>3
<1>3. CASE \/ \E u \in Users : \/ ListOrders(r, u)
                              \/ \E items \in Payloads : PlaceOrder(r, u, items)
           \/ Respond(r) \/ Fail(r)
  BY <1>1, <1>3 DEF ListOrders, PlaceOrder, Respond, Fail, Go, Idle
<1> QED
  BY <1>2, <1>3 DEF Silent

LEMMA SilentReads ==
    ASSUME ReadInv, NEW r \in Requests, Silent(r)
    PROVE  ListedWhole'
<1>1. UNCHANGED <<placed, orders>>
  BY DEF Silent, ListOrders, PlaceOrder, ReadRows, InsertOrder, LockRow, Respond, Fail, book
<1> QED
  BY <1>1, SilentMoves DEF ReadInv, PriceInv, BookInv, ListedWhole

LEMMA ReadStatusReads ==
    ASSUME ReadInv, NEW r \in Requests, NEW n \in orders, NEW target \in Statuses,
           ReadStatus(r, n, target)
    PROVE  ListedWhole'
<1> DEFINE next == [at |-> "changing", order |-> n, read |-> status[n],
                    target |-> target]
<1>1. /\ req'[r] = next
      /\ \A q \in Requests \ {r} : req'[q] = req[q]
  BY DEF ReadStatus, Go, ReadInv, PriceInv, BookInv, BookTyped
<1>2. UNCHANGED <<placed, orders>>
  BY DEF ReadStatus, book
<1>3. next.at = "changing"
  OBVIOUS
<1> HIDE DEF next
<1> QED
  BY <1>1, <1>2, <1>3 DEF ReadInv, ListedWhole

LEMMA ReadStep == ReadInv /\ [Next]_vars => ReadInv'
<1> SUFFICES ASSUME ReadInv, [Next]_vars PROVE ReadInv'
  OBVIOUS
<1>1. PriceInv'
  BY PriceStep DEF ReadInv
<1>2. ASSUME NEW r \in Requests, Silent(r)
      PROVE  ListedWhole'
  BY <1>2, SilentReads
<1>3. ASSUME NEW r \in Requests, \E n \in orders, target \in Statuses : ReadStatus(r, n, target)
      PROVE  ListedWhole'
  BY <1>3, ReadStatusReads
<1>4. ASSUME NEW r \in Requests, ListLines(r) \/ CommitOrder(r) \/ WriteStatus(r)
      PROVE  ListedWhole'
  BY <1>4, ListLinesReads, CommitOrderReads, WriteStatusReads
<1>5. ASSUME NEW p \in Rows, NEW amount \in Prices, Reprice(p, amount)
      PROVE  ListedWhole'
  <2>1. UNCHANGED <<req, placed, orders>>
    BY <1>5 DEF Reprice, book
  <2> QED
    BY <2>1 DEF ReadInv, ListedWhole
<1>6. ASSUME \/ \E p \in Rows : CreateProduct(p) \/ DeleteProduct(p)
             \/ \E u \in Users : DeleteUser(u)
             \/ \E new \in SUBSET Rows : CommitInserts(new)
             \/ SeedBegin \/ NextDelete \/ CommitDeletes \/ SeedFails
             \/ UNCHANGED vars
      PROVE  ListedWhole'
  <2>1. UNCHANGED <<req, placed>> /\ orders' \subseteq orders
    BY <1>6, BesideBook DEF ReadInv, PriceInv
  <2> QED
    BY <2>1 DEF ReadInv, ListedWhole
<1> QED
  BY <1>1, <1>2, <1>3, <1>4, <1>5, <1>6 DEF Next, Steps, Silent, ReadInv

\* What list_orders shows was so while it ran.
THEOREM ReadInvariant == Spec => []ReadInv
<1>1. Init => ReadInv
  <2> SUFFICES ASSUME Init PROVE ReadInv
    OBVIOUS
  <2>1. \A r \in Requests : req[r].at = "idle"
    BY DEF Init, Idle
  <2> QED
    BY <2>1, InitPrices DEF ReadInv, ListedWhole
<1> QED
  BY <1>1, ReadStep, PTL DEF Spec

\* A list never shows an order without its lines, unless the order has vanished.
THEOREM ListsWhole == Spec => []ListedWhole
<1>1. ReadInv => ListedWhole
  BY DEF ReadInv
<1> QED
  BY <1>1, ReadInvariant, PTL

-----------------------------------------------------------------------------
(* What a reply about a status names                                         *)

\* The column held what a handler has read and, once it has written or found that
\* there is nothing to write, what its reply names.
Noticed ==
    \A r \in Requests : Changes(req[r]) =>
        /\ req[r].read \in seen[r]
        /\ req[r].at = "changed" => req[r].target \in seen[r]

SeenInv == PriceInv /\ seen \in [Requests -> SUBSET Statuses] /\ Noticed

\* Only change_order_status makes a handler one that changes a status.
LEMMA OthersChange ==
    ASSUME BookTyped, NEW r \in Requests, Silent(r) \/ ListLines(r) \/ CommitOrder(r),
           NEW q \in Requests, Changes(req'[q])
    PROVE  req'[q] = req[q]
<1>1. ~ Changes(req'[r]) /\ \A p \in Requests \ {r} : req'[p] = req[p]
  <2>1. CASE Silent(r)
    BY <2>1, SilentMoves DEF Changes
  <2>2. CASE ListLines(r)
    <3> DEFINE next == [at |-> "listed",
                        shown |-> [n \in req[r].shown |->
                                     IF n \in orders THEN placed[n].lines ELSE NoLines]]
    <3>1. req' = [req EXCEPT ![r] = next] /\ next.at = "listed"
      BY <2>2 DEF ListLines, Go
    <3> HIDE DEF next
    <3> QED
      BY <3>1 DEF BookTyped, Changes
  <2>3. CASE CommitOrder(r)
    BY <2>3 DEF CommitOrder, Go, BookTyped, Changes
  <2> QED
    BY <2>1, <2>2, <2>3
<1> QED
  BY <1>1

LEMMA SeenStep == SeenInv /\ [Next]_vars => SeenInv'
<1> SUFFICES ASSUME SeenInv, [Next]_vars PROVE SeenInv'
  OBVIOUS
<1>1. PriceInv'
  BY PriceStep DEF SeenInv
<1>2. CASE UNCHANGED vars
  <2>1. UNCHANGED <<req, seen>>
    BY <1>2 DEF vars
  <2> QED
    BY <1>1, <2>1 DEF SeenInv, Noticed
<1>3. CASE Next
  <2>1. BookTyped /\ BookTyped'
    BY <1>1 DEF SeenInv, PriceInv, BookInv
  <2>2. seen' \in [Requests -> SUBSET Statuses]
    <3>1. \A n \in orders' : status'[n] \in Statuses
      BY <2>1 DEF BookTyped
    <3> QED
      BY <1>3, <3>1 DEF Next, Observe, SeenInv
  <2>3. ASSUME NEW r \in Requests, Changes(req'[r])
        PROVE  /\ Changes(req[r]) => seen[r] \subseteq seen'[r]
               /\ req'[r].order \in orders' => status'[req'[r].order] \in seen'[r]
    BY <1>3, <2>3 DEF Next, Observe
  <2>4. ASSUME NEW r \in Requests, Changes(req'[r]), req'[r] = req[r]
        PROVE  /\ req'[r].read \in seen'[r]
               /\ req'[r].at = "changed" => req'[r].target \in seen'[r]
    BY <2>3, <2>4 DEF SeenInv, Noticed
  <2>5. ASSUME NEW r \in Requests, NEW n \in orders, NEW target \in Statuses,
               ReadStatus(r, n, target)
        PROVE  Noticed'
    <3>1. /\ req'[r] = [at |-> "changing", order |-> n, read |-> status[n], target |-> target]
          /\ \A q \in Requests \ {r} : req'[q] = req[q]
          /\ status' = status /\ orders' = orders
      BY <2>1, <2>5 DEF ReadStatus, Go, BookTyped, book
    <3>2. Changes(req'[r]) /\ req'[r].at # "changed" /\ req'[r].read \in seen'[r]
      BY <2>3, <3>1 DEF Changes
    <3> QED
      BY <2>4, <3>1, <3>2 DEF Noticed
  <2>6. ASSUME NEW r \in Requests, WriteStatus(r)
        PROVE  Noticed'
    <3>1. /\ req[r] \in Changing /\ req'[r] = [req[r] EXCEPT !.at = "changed"]
          /\ \A q \in Requests \ {r} : req'[q] = req[q]
      BY <2>1, <2>6, OwnChange
    <3>2. /\ req'[r].at = "changed" /\ req'[r].order = req[r].order
          /\ req'[r].read = req[r].read /\ req'[r].target = req[r].target
      BY <3>1 DEF Changing
    <3>3. Changes(req[r]) /\ Changes(req'[r]) /\ req[r].read \in seen[r]
      BY <3>2, <2>6 DEF WriteStatus, Changes, SeenInv, Noticed
    <3>4. req'[r].read \in seen'[r]
      BY <2>3, <3>2, <3>3
    <3>5. req'[r].target \in seen'[r]
      <4>1. CASE req[r].target = req[r].read
        BY <3>2, <3>4, <4>1
      <4>2. CASE req[r].target # req[r].read
        <5>1. /\ req[r].order \in orders /\ orders' = orders
              /\ status' = [status EXCEPT ![req[r].order] = req[r].target]
          BY <2>6, <4>2 DEF WriteStatus
        <5>2. status'[req[r].order] = req[r].target
          BY <2>1, <5>1 DEF BookTyped
        <5> QED
          BY <2>3, <3>2, <3>3, <5>1, <5>2
      <4> QED
        BY <4>1, <4>2
    <3> QED
      BY <2>4, <3>1, <3>4, <3>5 DEF Noticed
  <2>7. ASSUME NEW r \in Requests, Silent(r) \/ ListLines(r) \/ CommitOrder(r)
        PROVE  Noticed'
    BY <2>1, <2>4, <2>7, OthersChange DEF Noticed
  <2>8. ASSUME UNCHANGED req
        PROVE  Noticed'
    BY <2>4, <2>8 DEF Noticed
  <2>9. \/ \E r \in Requests :
             \/ Silent(r) \/ ListLines(r) \/ CommitOrder(r) \/ WriteStatus(r)
             \/ \E n \in orders, target \in Statuses : ReadStatus(r, n, target)
        \/ UNCHANGED req
    BY <1>3 DEF Next, Steps, Silent, CreateProduct, DeleteProduct, Reprice, DeleteUser,
       CommitInserts, SeedBegin, NextDelete, CommitDeletes, SeedFails
  <2> QED
    BY <1>1, <2>2, <2>5, <2>6, <2>7, <2>8, <2>9 DEF SeenInv
<1> QED
  BY <1>2, <1>3

\* What the status column has held since a handler read it, whoever wrote it.
THEOREM SeenInvariant == Spec => []SeenInv
<1>1. Init => SeenInv
  <2> SUFFICES ASSUME Init PROVE SeenInv
    OBVIOUS
  <2>1. \A r \in Requests : ~ Changes(req[r])
    BY DEF Init, Idle, Changes
  <2> QED
    BY <2>1, InitPrices DEF Init, SeenInv, Noticed
<1> QED
  BY <1>1, SeenStep, PTL DEF Spec

\* The status a reply names is one that the column held while the request ran,
\* also where the session skipped the UPDATE or the seed script deleted orders.
THEOREM AnswersHeld == Spec => []AnsweredStatusHeld
<1>1. SeenInv => AnsweredStatusHeld
  BY DEF SeenInv, Noticed, Changes, AnsweredStatusHeld
<1> QED
  BY <1>1, SeenInvariant, PTL

\* Every variable keeps its type, with any number of handlers, orders and rows.
THEOREM Typed == Spec => []TypeOK
<1>1. SeenInv => TypeOK
  BY DEF SeenInv, PriceInv, BookInv, BookTyped, TypeOK
<1> QED
  BY <1>1, SeenInvariant, PTL

-----------------------------------------------------------------------------
(* The seed script and the orders                                            *)

\* The foreign key of the lines.
LinesKept == \A n \in orders : DOMAIN placed[n].lines \subseteq products

\* No handler holds a row that is gone or that the script is deleting.
LocksKept ==
    \A r \in Requests : /\ \A p \in Held(r) : p \in products /\ p \notin seed.products
                        /\ req[r].at \in {"known", "priced"} => req[r].held = {}

\* What the script's transaction has deleted at each of its statements: once it has
\* passed the foreign key, no order in the table names a row it deleted.
ScriptAt ==
    /\ seed.step = 1 => seed.users = {}
    /\ seed.step \in {0, 3} => seed.products = {}
    /\ seed.step = 2 => \A n \in orders : \A p \in DOMAIN placed[n].lines : p \notin seed.products

SpareInv == PriceInv /\ LinesKept /\ LocksKept /\ ScriptAt

LEMMA InitSpare == Init => SpareInv
<1> SUFFICES ASSUME Init PROVE SpareInv
  OBVIOUS
<1>1. \A r \in Requests : Held(r) = {} /\ req[r].at = "idle"
  BY DEF Init, Idle, Held
<1>2. orders = {} /\ seed.step = 0 /\ seed.products = {} /\ seed.users = {}
  BY DEF Init, NoSeed
<1> QED
  BY <1>1, <1>2, InitPrices DEF SpareInv, LinesKept, LocksKept, ScriptAt

\* A handler's step that commits no order.
LEMMA HandlerSpare ==
    ASSUME SpareInv, NEW r \in Requests, PriceInv',
           UNCHANGED <<products, placed, orders, seed>>,
           \A q \in Requests \ {r} : req'[q] = req[q],
           \A p \in Held(r)' : p \in products /\ p \notin seed.products,
           req'[r].at \in {"known", "priced"} => req'[r].held = {}
    PROVE  SpareInv'
<1>1. \A q \in Requests \ {r} : Held(q)' = Held(q)
  BY DEF Held
<1>2. LocksKept'
  BY <1>1 DEF SpareInv, LocksKept
<1>3. LinesKept' /\ ScriptAt'
  BY DEF SpareInv, LinesKept, ScriptAt
<1> QED
  BY <1>2, <1>3 DEF SpareInv

LEMMA LockRowSpare ==
    ASSUME SpareInv, NEW r \in Requests, PriceInv', LockRow(r)
    PROVE  SpareInv'
<1>1. req[r] \in Placing /\ req \in [Requests -> Request] /\ req[r].at = "writing"
  BY Kinds DEF SpareInv, PriceInv, BookInv, BookTyped, LockRow
<1>2. PICK p \in products \ seed.products : req' = [req EXCEPT ![r].held = @ \cup {p}]
  BY DEF LockRow
<1>3. req'[r].held = req[r].held \cup {p} /\ req'[r].at = "writing"
  BY <1>1, <1>2 DEF Placing
<1>4. \A q \in Requests \ {r} : req'[q] = req[q]
  BY <1>1, <1>2
<1>5. \A x \in Held(r)' : x \in products /\ x \notin seed.products
  <2>1. Held(r) = req[r].held /\ Held(r)' = req[r].held \cup {p}
    BY <1>1, <1>3 DEF Held
  <2> QED
    BY <1>2, <2>1 DEF SpareInv, LocksKept
<1>6. UNCHANGED <<products, placed, orders, seed>>
  BY DEF LockRow, catalogue, book
<1> QED
  BY <1>3, <1>4, <1>5, <1>6, HandlerSpare

LEMMA InsertOrderSpare ==
    ASSUME SpareInv, NEW r \in Requests, PriceInv', InsertOrder(r)
    PROVE  SpareInv'
<1>0. req[r].at = "priced"
  BY DEF InsertOrder
<1>1. req[r] \in Placing /\ req \in [Requests -> Request] /\ req[r].held = {}
  BY <1>0, Kinds DEF SpareInv, PriceInv, BookInv, BookTyped, LocksKept
<1>2. /\ req'[r].held = {} /\ req'[r].at = "writing"
      /\ \A q \in Requests \ {r} : req'[q] = req[q]
  BY <1>1 DEF InsertOrder, Placing
<1>3. Held(r)' = {}
  BY <1>2 DEF Held
<1>4. UNCHANGED <<products, placed, orders, seed>>
  BY DEF InsertOrder, catalogue, book
<1> QED
  BY <1>2, <1>3, <1>4, HandlerSpare

\* A step to a record that holds nothing.
LEMMA GoSpare ==
    ASSUME SpareInv, NEW r \in Requests, PriceInv', NEW next, Go(r, next),
           UNCHANGED <<products, placed, orders, seed>>,
           next.at # "writing",
           next.at \in {"known", "priced"} => next.held = {}
    PROVE  SpareInv'
<1>1. /\ req'[r] = next
      /\ \A q \in Requests \ {r} : req'[q] = req[q]
  BY DEF Go, SpareInv, PriceInv, BookInv, BookTyped
<1>2. Held(r)' = {}
  BY <1>1 DEF Held
<1> QED
  BY <1>1, <1>2, HandlerSpare

LEMMA PlainSpare ==
    ASSUME SpareInv, NEW r \in Requests, PriceInv',
           \/ \E u \in Users : ListOrders(r, u) \/ \E items \in Payloads : PlaceOrder(r, u, items)
           \/ \E n \in orders, target \in Statuses : ReadStatus(r, n, target)
           \/ ListLines(r) \/ Respond(r) \/ Fail(r) \/ ReadRows(r)
    PROVE  SpareInv'
<1>1. UNCHANGED <<products, placed, orders, seed>>
  BY DEF ListOrders, PlaceOrder, ReadStatus, ListLines, Respond, Fail, ReadRows, catalogue, book
<1>2. CASE \E u \in Users : ListOrders(r, u) \/ \E items \in Payloads : PlaceOrder(r, u, items)
  BY <1>1, <1>2, GoSpare DEF ListOrders, PlaceOrder
<1>3. CASE \E n \in orders, target \in Statuses : ReadStatus(r, n, target)
  BY <1>1, <1>3, GoSpare DEF ReadStatus
<1>4. CASE ListLines(r)
  BY <1>1, <1>4, GoSpare DEF ListLines
<1>5. Idle.at = "idle"
  BY DEF Idle
<1>6. CASE Respond(r) \/ Fail(r)
  BY <1>1, <1>5, <1>6, GoSpare DEF Respond, Fail
<1>7. CASE ReadRows(r)
  <2> DEFINE unit == [p \in DOMAIN Needed(req[r].items) |-> Price[p]]
  <2>0. req[r].at = "known"
    BY <1>7 DEF ReadRows
  <2>1. req[r] \in Placing /\ req[r].held = {}
    BY <2>0, Kinds DEF SpareInv, PriceInv, BookInv, BookTyped, LocksKept
  <2>2. Go(r, Idle) \/ Go(r, Priced(r, unit))
    BY <1>7 DEF ReadRows
  <2> HIDE DEF unit
  <2>3. Priced(r, unit).at = "priced" /\ Priced(r, unit).held = {}
    BY <2>1 DEF Priced, Placing
  <2> QED
    BY <1>1, <1>5, <2>2, <2>3, GoSpare
<1> QED
  BY <1>2, <1>3, <1>4, <1>6, <1>7

LEMMA WriteStatusSpare ==
    ASSUME SpareInv, NEW r \in Requests, PriceInv', WriteStatus(r)
    PROVE  SpareInv'
<1>1. \A q \in Requests : \/ req'[q] = req[q]
                          \/ req'[q] \in Changing
  BY OwnChange DEF SpareInv, PriceInv, BookInv
<1>2. \A q \in Changing : q.at \notin {"known", "priced", "writing"}
  BY DEF Changing
<1>3. UNCHANGED <<products, placed, orders, seed>>
  BY DEF WriteStatus, catalogue
<1>4. \A q \in Requests : Held(q)' = Held(q) \/ Held(q)' = {}
  BY <1>1, <1>2 DEF Held
<1>5. LocksKept'
  BY <1>1, <1>2, <1>3, <1>4 DEF SpareInv, LocksKept
<1>6. LinesKept' /\ ScriptAt'
  BY <1>3 DEF SpareInv, LinesKept, ScriptAt
<1> QED
  BY <1>5, <1>6 DEF SpareInv

LEMMA CommitOrderSpare ==
    ASSUME SpareInv, NEW r \in Requests, PriceInv', CommitOrder(r)
    PROVE  SpareInv'
<1>1. /\ \A n \in 1 .. Len(placed) : placed'[n] = placed[n]
      /\ placed'[Len(placed) + 1] = Bill(r)
      /\ orders' = orders \cup {Len(placed) + 1}
      /\ DOMAIN Bill(r).lines = req[r].held
  BY Committing DEF SpareInv, PriceInv
<1>2. Held(r) = req[r].held /\ orders \subseteq 1 .. Len(placed)
  BY DEF CommitOrder, Held, SpareInv, PriceInv, BookInv, BookTyped
<1>3. UNCHANGED <<products, seed>>
  BY DEF CommitOrder, catalogue
<1>4. /\ req'[r].at = "placed"
      /\ \A q \in Requests \ {r} : req'[q] = req[q]
  BY DEF CommitOrder, Go, SpareInv, PriceInv, BookInv, BookTyped
<1>5. \A q \in Requests : Held(q)' = Held(q) \/ Held(q)' = {}
  BY <1>4 DEF Held
<1>6. ASSUME NEW n \in orders', NEW p \in DOMAIN placed'[n].lines
      PROVE  p \in products /\ (seed.step = 2 => p \notin seed.products)
  <2>1. CASE n \in orders
    BY <1>1, <1>2, <1>6, <2>1 DEF SpareInv, LinesKept, ScriptAt
  <2>2. CASE n = Len(placed) + 1
    BY <1>1, <1>2, <1>6, <2>2 DEF SpareInv, LocksKept
  <2> QED
    BY <1>1, <2>1, <2>2
<1>7. LocksKept'
  BY <1>3, <1>4, <1>5 DEF SpareInv, LocksKept
<1>8. LinesKept' /\ ScriptAt'
  BY <1>3, <1>6 DEF SpareInv, LinesKept, ScriptAt
<1> QED
  BY <1>7, <1>8 DEF SpareInv

LEMMA RepriceSpare ==
    ASSUME SpareInv, PriceInv', NEW p \in Rows, NEW amount \in Prices, Reprice(p, amount)
    PROVE  SpareInv'
<1>1. UNCHANGED <<products, req, placed, orders, seed>>
  BY DEF Reprice, book
<1> QED
  BY <1>1 DEF SpareInv, LinesKept, LocksKept, ScriptAt, Held

LEMMA CatalogueSpare ==
    ASSUME SpareInv, PriceInv',
           \/ \E p \in Rows : CreateProduct(p)
           \/ \E new \in SUBSET Rows : CommitInserts(new)
           \/ SeedBegin \/ SeedFails
           \/ UNCHANGED vars
    PROVE  SpareInv'
<1>1. UNCHANGED <<req, placed, orders>> /\ products \subseteq products'
  BY DEF CreateProduct, CommitInserts, SeedBegin, SeedFails, vars, catalogue, book
<1>2. \/ seed' = seed
      \/ /\ seed'.step \in {0, 1}
         /\ seed'.products = {}
         /\ seed'.users = {}
  <2>1. CASE SeedBegin
    <3> DEFINE rows == Table(Deletes[1])
    <3>1. seed' = [NoSeed EXCEPT !.step = 1, !.todo = rows]
      BY <2>1 DEF SeedBegin
    <3> HIDE DEF rows
    <3> QED
      BY <3>1 DEF NoSeed
  <2>2. CASE SeedFails \/ \E new \in SUBSET Rows : CommitInserts(new)
    BY <2>2 DEF CommitInserts, SeedFails, NoSeed
  <2>3. CASE UNCHANGED vars \/ \E p \in Rows : CreateProduct(p)
    BY <2>3 DEF CreateProduct, vars
  <2> QED
    BY <2>1, <2>2, <2>3
<1>3. \A r \in Requests : Held(r)' = Held(r)
  BY <1>1 DEF Held
<1>4. LocksKept' /\ LinesKept'
  BY <1>1, <1>2, <1>3 DEF SpareInv, LinesKept, LocksKept
<1>5. ScriptAt'
  BY <1>1, <1>2 DEF SpareInv, ScriptAt
<1> QED
  BY <1>4, <1>5 DEF SpareInv

LEMMA DeletesInTurn == Deletes[1] = "products" /\ Deletes[2] = "users"
  BY DEF Deletes

LEMMA DeleteSpare ==
    ASSUME SpareInv, PriceInv',
           \/ \E p \in Rows : DeleteProduct(p)
           \/ \E u \in Users : DeleteUser(u)
    PROVE  SpareInv'
<1>1. UNCHANGED <<products, req, placed, orders>> /\ seed \in Seed
  BY DEF DeleteProduct, DeleteUser, catalogue, book, SpareInv, PriceInv, BookInv, BookTyped
<1>2. \A r \in Requests : Held(r)' = Held(r)
  BY <1>1 DEF Held
<1>3. CASE \E p \in Rows : DeleteProduct(p)
  <2>1. PICK p \in Rows : DeleteProduct(p)
    BY <1>3
  <2>2. /\ seed'.step = seed.step /\ seed'.users = seed.users
        /\ seed'.products = seed.products \cup {p}
    BY <1>1, <2>1 DEF DeleteProduct, Seed
  <2>3. seed.step = 1
    BY <2>1, DeletesInTurn DEF DeleteProduct, Deleting
  <2>4. \A r \in Requests : p \notin Held(r)
    BY <2>1 DEF DeleteProduct
  <2>5. LocksKept'
    BY <1>1, <1>2, <2>2, <2>4 DEF SpareInv, LocksKept
  <2>6. LinesKept' /\ ScriptAt'
    BY <1>1, <2>2, <2>3 DEF SpareInv, LinesKept, ScriptAt
  <2> QED
    BY <2>5, <2>6 DEF SpareInv
<1>4. CASE \E u \in Users : DeleteUser(u)
  <2>1. PICK u \in Users : DeleteUser(u)
    BY <1>4
  <2>2. seed'.step = seed.step /\ seed'.products = seed.products
    BY <1>1, <2>1 DEF DeleteUser, Seed
  <2>3. seed.step = 2
    BY <2>1, DeletesInTurn DEF DeleteUser, Deleting
  <2>4. LocksKept'
    BY <1>1, <1>2, <2>2 DEF SpareInv, LocksKept
  <2>5. LinesKept' /\ ScriptAt'
    BY <1>1, <2>2, <2>3 DEF SpareInv, LinesKept, ScriptAt
  <2> QED
    BY <2>4, <2>5 DEF SpareInv
<1> QED
  BY <1>3, <1>4

\* The foreign key lets the script pass only if no order names what it deleted.
LEMMA NextDeleteSpare ==
    ASSUME SpareInv, PriceInv', NextDelete
    PROVE  SpareInv'
<1>1. UNCHANGED <<products, req, placed, orders>> /\ seed \in Seed
  BY DEF NextDelete, catalogue, book, SpareInv, PriceInv, BookInv, BookTyped
<1>2. seed.step = 1 /\ seed.users = {} /\ ~ Referenced
  BY DEF NextDelete, Passes, Deletes, SpareInv, ScriptAt
<1>3. seed'.step = 2 /\ seed'.products = seed.products
  BY <1>1 DEF NextDelete, Seed
<1>4. \A n \in orders : \A p \in DOMAIN placed[n].lines : p \notin seed.products
  BY <1>2 DEF Referenced
<1>5. \A r \in Requests : Held(r)' = Held(r)
  BY <1>1 DEF Held
<1>6. LocksKept' /\ LinesKept'
  BY <1>1, <1>3, <1>5 DEF SpareInv, LocksKept, LinesKept
<1>7. ScriptAt'
  BY <1>1, <1>3, <1>4 DEF ScriptAt
<1> QED
  BY <1>6, <1>7 DEF SpareInv

LEMMA CommitDeletesSpare ==
    ASSUME SpareInv, PriceInv', CommitDeletes
    PROVE  SpareInv'
<1>1. /\ UNCHANGED <<req, placed>> /\ orders' \subseteq orders
      /\ products' = products \ seed.products
      /\ seed.step = 2
  BY DEF CommitDeletes
<1>2. seed'.step = 3 /\ seed'.products = {}
  BY DEF CommitDeletes, NoSeed
<1>3. \A r \in Requests : Held(r)' = Held(r)
  BY <1>1 DEF Held
<1>4. LocksKept'
  BY <1>1, <1>2, <1>3 DEF SpareInv, LocksKept
<1>5. LinesKept'
  BY <1>1 DEF SpareInv, LinesKept, ScriptAt
<1>6. ScriptAt'
  BY <1>2 DEF ScriptAt
<1> QED
  BY <1>4, <1>5, <1>6 DEF SpareInv

LEMMA SpareStep == SpareInv /\ [Next]_vars => SpareInv'
<1> SUFFICES ASSUME SpareInv, [Next]_vars PROVE SpareInv'
  OBVIOUS
<1>1. PriceInv'
  BY PriceStep DEF SpareInv
<1> QED
  BY <1>1, PlainSpare, InsertOrderSpare, LockRowSpare, CommitOrderSpare, WriteStatusSpare,
     RepriceSpare, CatalogueSpare, DeleteSpare, NextDeleteSpare, CommitDeletesSpare DEF Next, Steps

\* No handler updates a row that seed_demo.py deletes, and every line in the table
\* names a product in the table: the foreign key and the row locks see to it.
THEOREM SpareInvariant == Spec => []SpareInv
  BY InitSpare, SpareStep, PTL DEF Spec

\* An order leaves the table only with the seed script, and only if none of its
\* products was there when the script's DELETE began.
THEOREM ScriptSparesOrders == Spec => SeedSparesOrders
<1> DEFINE spares == \A n \in orders \ orders' : DOMAIN placed[n].lines \cap seed.products = {}
<1>1. SpareInv /\ [Next]_vars => [spares]_vars
  <2> SUFFICES ASSUME SpareInv, [Next]_vars, NEW n \in orders, n \notin orders'
               PROVE  DOMAIN placed[n].lines \cap seed.products = {}
    OBVIOUS
  <2>1. CommitDeletes
    BY Committing DEF Next, Steps, vars, book, catalogue, ListOrders, PlaceOrder, ReadStatus, ReadRows,
       InsertOrder, LockRow, CommitOrder, ListLines, WriteStatus, Respond, Fail, CreateProduct,
       DeleteProduct, Reprice, DeleteUser, CommitInserts, SeedBegin, NextDelete, SeedFails
  <2> QED
    BY <2>1 DEF CommitDeletes, SpareInv, ScriptAt
<1> QED
  BY <1>1, SpareInvariant, PTL DEF Spec, SeedSparesOrders
=============================================================================
