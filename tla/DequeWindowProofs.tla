------------------------- MODULE DequeWindowProofs -------------------------
(***************************************************************************)
(* Proofs about DequeWindow for every limit, window and step of the clock:    *)
(* what the deque promises when the clock is stepped, and that on a steady    *)
(* clock it implements RateLimit.                                            *)
(***************************************************************************)
EXTENDS DequeWindow, FiniteIntegers, SequenceTheorems

\* The deque is in the order in which the hits came, whatever their readings, and
\* no name occurs twice.
Ordered ==
    \A i, j \in DOMAIN bucket :
        /\ i < j => bucket[j].came <= bucket[i].came
        /\ bucket[i].id = bucket[j].id => i = j

\* The age of a reading is the true age of its hit, less what the clock has been
\* set back since, or more what it has been set forward.
Drift ==
    \A i \in DOMAIN bucket :
        /\ bucket[i].came + ahead - slack <= bucket[i].age
        /\ bucket[i].age <= bucket[i].came + ahead

\* What was let through within the bound is still in the deque, to be counted.
Remembered ==
    /\ IsFiniteSet(granted)
    /\ \A a, b \in granted : a.id = b.id => a = b
    /\ \A g \in granted : g.since < Window - slack =>
         \E i \in DOMAIN bucket : bucket[i].id = g.id /\ bucket[i].came <= g.since

DequeInv == TypeOK /\ Ordered /\ Drift /\ Remembered

-----------------------------------------------------------------------------
(* What the loop leaves                                                      *)

\* The loop drops the first n readings, all expired, and stops before a live one.
LEMMA LoopLeaves ==
    ASSUME TypeOK
    PROVE  \E n \in 0 .. Len(bucket) :
             /\ Remaining \in Seq(Hits)
             /\ Len(Remaining) = Len(bucket) - n
             /\ \A i \in 1 .. Len(Remaining) : Remaining[i] = bucket[i + n]
             /\ \A i \in 1 .. n : i \notin Live
             /\ n < Len(bucket) => n + 1 \in Live
<1>1. bucket \in Seq(Hits) /\ Len(bucket) \in Nat /\ DOMAIN bucket = 1 .. Len(bucket)
  BY DEF TypeOK
<1>2. CASE Live = {}
  <2>1. Remaining = <<>> /\ Remaining \in Seq(Hits) /\ Len(Remaining) = 0
    BY <1>2 DEF Remaining
  <2>2. Len(bucket) \in 0 .. Len(bucket) /\ Len(Remaining) = Len(bucket) - Len(bucket)
    BY <1>1, <2>1
  <2>3. \A i \in 1 .. Len(Remaining) : Remaining[i] = bucket[i + Len(bucket)]
    BY <2>1
  <2>4. \A i \in 1 .. Len(bucket) : i \notin Live
    BY <1>2
  <2>5. ~ (Len(bucket) < Len(bucket))
    BY <1>1
  <2> HIDE <1>2
  <2> WITNESS Len(bucket) \in 0 .. Len(bucket)
  <2> QED
    BY <2>1, <2>2, <2>3, <2>4, <2>5
<1>3. CASE Live # {}
  <2> DEFINE first == CHOOSE i \in Live : \A j \in Live : i <= j
  <2>1. Live \subseteq 1 .. Len(bucket) /\ Live \subseteq Int
    BY <1>1 DEF Live
  <2>2. \E i \in Live : \A j \in Live : i <= j
    <3>1. IsFiniteSet(1 .. Len(bucket))
      BY <1>1, FS_Interval
    <3> QED
      BY <1>3, <2>1, <3>1, FS_Subset, Least
  <2>3. first \in Live /\ \A j \in Live : first <= j
    BY <2>2
  <2>4. first \in 1 .. Len(bucket)
    BY <1>1, <2>3 DEF Live
  <2>5. Remaining = SubSeq(bucket, first, Len(bucket))
    BY <1>3 DEF Remaining
  <2> HIDE DEF first
  <2>6. /\ Remaining \in Seq(Hits)
        /\ Len(Remaining) = Len(bucket) - first + 1
        /\ \A i \in 1 .. Len(bucket) - first + 1 : Remaining[i] = bucket[first + i - 1]
    BY <1>1, <2>4, <2>5, SubSeqProperties
  <2>7. first - 1 \in 0 .. Len(bucket) /\ \A i \in 1 .. first - 1 : i \notin Live
    BY <1>1, <2>3, <2>4
  <2>8. \A i \in 1 .. Len(Remaining) : Remaining[i] = bucket[i + (first - 1)]
    BY <1>1, <2>4, <2>6
  <2>9. first - 1 < Len(bucket) => (first - 1) + 1 \in Live
    BY <1>1, <2>3, <2>4
  <2>10. Len(Remaining) = Len(bucket) - (first - 1)
    BY <1>1, <2>4, <2>6
  <2> QED
    BY <2>6, <2>7, <2>8, <2>9, <2>10
<1> QED
  BY <1>2, <1>3

\* None of them overstays: a reading behind a live one came after it, and a live
\* one came less than a window and a step ago.
LEMMA LoopIsPrompt == DequeInv => NoneOverstays
<1> SUFFICES ASSUME DequeInv PROVE NoneOverstays
  OBVIOUS
<1>1. bucket \in Seq(Hits) /\ Len(bucket) \in Nat /\ DOMAIN bucket = 1 .. Len(bucket)
  BY DEF DequeInv, TypeOK
<1>2. slack \in Nat /\ ahead \in 0 .. slack
  BY NumbersAssumption DEF DequeInv, TypeOK
<1>3. PICK n \in 0 .. Len(bucket) :
        /\ Remaining \in Seq(Hits)
        /\ Len(Remaining) = Len(bucket) - n
        /\ \A i \in 1 .. Len(Remaining) : Remaining[i] = bucket[i + n]
        /\ n < Len(bucket) => n + 1 \in Live
  BY LoopLeaves DEF DequeInv
<1>4. ASSUME NEW i \in 1 .. Len(Remaining)
      PROVE  Remaining[i].came < Window + slack
  <2>1. n + 1 \in Live /\ n + 1 \in DOMAIN bucket /\ i + n \in DOMAIN bucket
    BY <1>1, <1>3, <1>4
  <2>2. bucket[n + 1] \in Hits /\ bucket[i + n] \in Hits
    BY <1>1, <2>1
  <2>3. bucket[i + n].came <= bucket[n + 1].came
    <3>1. CASE i = 1
      BY <3>1, <1>2, <2>2, NumbersAssumption DEF Hits, OldAge
    <3>2. CASE i > 1
      <4>1. n + 1 < i + n
        BY <3>2, <1>1, <1>3
      <4> QED
        BY <4>1, <2>1 DEF DequeInv, Ordered
    <3> QED
      BY <3>1, <3>2
  <2>4. bucket[n + 1].age < Window
    BY <2>1 DEF Live
  <2>5. bucket[n + 1].came + ahead - slack <= bucket[n + 1].age
    BY <2>1 DEF DequeInv, Drift
  <2>6. bucket[n + 1].came < Window + slack
    BY <1>2, <2>2, <2>4, <2>5, NumbersAssumption DEF Hits, OldAge
  <2>7. Remaining[i] = bucket[i + n]
    BY <1>3
  <2> QED
    BY <1>2, <2>2, <2>3, <2>6, <2>7, NumbersAssumption DEF Hits, OldAge
<1> QED
  BY <1>3, <1>4 DEF NoneOverstays, Elements

-----------------------------------------------------------------------------
(* The invariant                                                             *)

\* Ages stop at old without leaving the bounds of Drift.
LEMMA AgesDrift ==
    ASSUME NEW age \in Int, NEW came \in Int, NEW lead \in Int, NEW lag \in Nat, NEW old \in Nat,
           came >= 0, lead \in 0 .. lag, came + lead - lag <= age, age <= came + lead
    PROVE  /\ AtMost(age, old) \in -lag .. old
           /\ AtMost(came, old) \in 0 .. old
           /\ AtMost(came, old) + lead - lag <= AtMost(age, old)
           /\ AtMost(age, old) <= AtMost(came, old) + lead
<1>1. -lag \in Int /\ -lag <= 0 /\ lead >= 0 /\ lead <= lag
  OBVIOUS
<1> QED
  BY <1>1 DEF AtMost

\* Rounding up adds less than a second.
LEMMA RoundedUpBounds ==
    ASSUME NEW t \in Int
    PROVE  RoundedUp(t) \in Int /\ t <= RoundedUp(t) /\ RoundedUp(t) < t + Second
BY SecondAssumption DEF RoundedUp

LEMMA InitDeque == Init => DequeInv
<1> SUFFICES ASSUME Init PROVE DequeInv
  OBVIOUS
<1>1. slack \in 0 .. MaxStep /\ ahead \in 0 .. slack
  BY NumbersAssumption DEF Init
<1>2. bucket = <<>> /\ bucket \in Seq(Hits) /\ DOMAIN bucket = {}
  BY DEF Init
<1>3. checking \in BOOLEAN /\ patient \in BOOLEAN
  BY DEF Init
<1>4. wait = 0 /\ wait \in 0 .. OldAge + Second - 1 /\ granted = {}
  BY <1>1, SecondAssumption, NumbersAssumption DEF Init, OldAge
<1>5. TypeOK
  BY <1>1, <1>2, <1>3, <1>4 DEF TypeOK
<1>6. Ordered /\ Drift
  BY <1>2 DEF Ordered, Drift
<1>7. Remembered
  BY <1>4, FS_EmptySet DEF Remembered
<1> QED
  BY <1>5, <1>6, <1>7 DEF DequeInv

\* Record appends a hit that came just now to what the loop leaves; what the loop
\* drops is a window old on the clock, and so nearly a window in truth.
LEMMA RecordKeeps ==
    ASSUME DequeInv, Record
    PROVE  DequeInv' /\ (granted' # granted => Cardinality({g \in granted : g.since < Window - slack}) < Limit)
<1> DEFINE Recent == {g \in granted : g.since < Window - slack}
<1>1. bucket \in Seq(Hits) /\ Len(bucket) \in Nat /\ DOMAIN bucket = 1 .. Len(bucket)
  BY DEF DequeInv, TypeOK
<1>2. slack \in Nat /\ ahead \in 0 .. slack /\ slack \in 0 .. MaxStep
  BY NumbersAssumption DEF DequeInv, TypeOK
<1>3. PICK n \in 0 .. Len(bucket) :
        /\ Remaining \in Seq(Hits)
        /\ Len(Remaining) = Len(bucket) - n
        /\ \A i \in 1 .. Len(Remaining) : Remaining[i] = bucket[i + n]
        /\ \A i \in 1 .. n : i \notin Live
        /\ n < Len(bucket) => n + 1 \in Live
  BY LoopLeaves DEF DequeInv
<1>4. PICK id \in Members \ ({h.id : h \in Elements(bucket)} \cup {g.id : g \in granted}) :
        /\ bucket' = Append(Remaining, Hit(id))
        /\ \/ /\ Len(bucket') <= Limit
              /\ granted' = granted \cup {[id |-> id, since |-> 0]}
              /\ wait' = 0
           \/ /\ Len(bucket') > Limit
              /\ wait' = RetryAfter(bucket'[1])
              /\ granted' = granted
        /\ patient' \in BOOLEAN
  BY DEF Record, Pushed
<1>5. Hit(id) \in Hits /\ Hit(id).age = 0 /\ Hit(id).came = 0 /\ Hit(id).id = id
  BY <1>2, <1>4, NumbersAssumption DEF Hit, Hits, OldAge
<1>6. UNCHANGED <<ahead, slack>> /\ checking' = FALSE
  BY DEF Record
<1> DEFINE m == Len(Remaining)
<1>7. m \in Nat /\ m + n = Len(bucket)
  BY <1>1, <1>3
<1>8. /\ bucket' \in Seq(Hits)
      /\ Len(bucket') = m + 1
      /\ \A i \in 1 .. m : bucket'[i] = bucket[i + n]
      /\ bucket'[m + 1] = Hit(id)
      /\ DOMAIN bucket' = 1 .. m + 1
  <2>1. /\ Append(Remaining, Hit(id)) \in Seq(Hits)
        /\ Len(Append(Remaining, Hit(id))) = m + 1
        /\ \A i \in 1 .. m : Append(Remaining, Hit(id))[i] = Remaining[i]
        /\ Append(Remaining, Hit(id))[m + 1] = Hit(id)
    BY <1>3, <1>5, AppendProperties
  <2>2. \A i \in 1 .. m : bucket'[i] = bucket[i + n]
    BY <1>3, <1>4, <2>1
  <2>3. DOMAIN bucket' = 1 .. m + 1
    BY <1>4, <2>1, LenProperties
  <2> QED
    BY <1>4, <2>1, <2>2, <2>3
<1>9. \A i \in 1 .. m : i + n \in DOMAIN bucket /\ bucket[i + n] \in Hits
  BY <1>1, <1>7
<1>10. \A i \in DOMAIN bucket : bucket[i].id # id
  BY <1>4 DEF Elements
<1>11. TypeOK'
  <2>1. Hits' = Hits /\ OldAge' = OldAge
    BY <1>6 DEF Hits, OldAge
  <2>2. wait' \in 0 .. OldAge + Second - 1
    <3>1. bucket'[1] \in Hits
      BY <1>7, <1>8
    <3>2. RetryAfter(bucket'[1]) \in 0 .. OldAge + Second - 1
      <4>1. Window - bucket'[1].age \in Int /\ Window - bucket'[1].age <= OldAge
        BY <1>2, <3>1, NumbersAssumption DEF Hits, OldAge
      <4>2. /\ RoundedUp(Window - bucket'[1].age) \in Int
            /\ RoundedUp(Window - bucket'[1].age) < Window - bucket'[1].age + Second
        BY <4>1, RoundedUpBounds
      <4>3. Second \in Int /\ Second > 0
        BY SecondAssumption
      <4> QED
        BY <1>2, <4>1, <4>2, <4>3, NumbersAssumption DEF RetryAfter, Older, OldAge
    <3>3. 0 \in 0 .. OldAge + Second - 1
      BY <1>2, SecondAssumption, NumbersAssumption DEF OldAge
    <3> QED
      BY <1>4, <3>2, <3>3
  <2>3. granted' \subseteq [id : Members, since : 0 .. Window - 1]
    BY <1>4, NumbersAssumption DEF DequeInv, TypeOK
  <2>4. patient' \in BOOLEAN /\ checking' \in BOOLEAN
    BY <1>4, <1>6
  <2> QED
    BY <1>2, <1>6, <1>8, <2>1, <2>2, <2>3, <2>4 DEF TypeOK
<1>12. Ordered'
  <2> SUFFICES ASSUME NEW i \in 1 .. m + 1, NEW j \in 1 .. m + 1
               PROVE  /\ i < j => bucket'[j].came <= bucket'[i].came
                      /\ bucket'[i].id = bucket'[j].id => i = j
    BY <1>8 DEF Ordered
  <2>1. CASE i \in 1 .. m /\ j \in 1 .. m
    <3>1. bucket'[i] = bucket[i + n] /\ bucket'[j] = bucket[j + n]
      BY <1>8, <2>1
    <3>2. i + n \in DOMAIN bucket /\ j + n \in DOMAIN bucket
      BY <1>9, <2>1
    <3>3. i < j => i + n < j + n
      BY <1>7
    <3>4. i + n = j + n => i = j
      BY <1>7
    <3> QED
      BY <3>1, <3>2, <3>3, <3>4 DEF DequeInv, Ordered
  <2>2. CASE i = m + 1
    <3>1. ~ (i < j)
      BY <1>7, <2>2
    <3>2. ASSUME j # m + 1 PROVE bucket'[i].id # bucket'[j].id
      BY <1>5, <1>7, <1>8, <1>9, <1>10, <2>2, <3>2
    <3> QED
      BY <2>2, <3>1, <3>2
  <2>3. CASE j = m + 1 /\ i \in 1 .. m
    <3>1. bucket'[i] = bucket[i + n] /\ bucket[i + n] \in Hits /\ i + n \in DOMAIN bucket
      BY <1>8, <1>9, <2>3
    <3>2. bucket'[j].came = 0 /\ bucket'[j].id = id
      BY <1>5, <1>8, <2>3
    <3>3. bucket'[i].came >= 0
      BY <1>2, <3>1, NumbersAssumption DEF Hits, OldAge
    <3> QED
      BY <1>10, <3>1, <3>2, <3>3
  <2> QED
    BY <1>7, <2>1, <2>2, <2>3
<1>13. Drift'
  <2> SUFFICES ASSUME NEW i \in 1 .. m + 1
               PROVE  /\ bucket'[i].came + ahead - slack <= bucket'[i].age
                      /\ bucket'[i].age <= bucket'[i].came + ahead
    BY <1>6, <1>8 DEF Drift
  <2>1. CASE i \in 1 .. m
    BY <1>8, <1>9, <2>1 DEF DequeInv, Drift
  <2>2. CASE i = m + 1
    BY <1>2, <1>5, <1>8, <2>2
  <2> QED
    BY <1>7, <2>1, <2>2
<1>14. ASSUME NEW g \in Recent
       PROVE  \E i \in 1 .. m : bucket[i + n].id = g.id /\ bucket[i + n].came <= g.since
  <2>1. PICK k \in DOMAIN bucket : bucket[k].id = g.id /\ bucket[k].came <= g.since
    BY <1>14 DEF DequeInv, Remembered
  <2>2. g.since \in Int /\ bucket[k] \in Hits
    BY <1>1, <2>1, NumbersAssumption DEF DequeInv, TypeOK
  <2>3. bucket[k].age <= bucket[k].came + ahead
    BY <2>1 DEF DequeInv, Drift
  <2>4. bucket[k].age < Window
    BY <1>2, <2>1, <2>2, <2>3, NumbersAssumption DEF Hits, OldAge
  <2>5. k \in Live
    BY <2>1, <2>4 DEF Live
  <2>6. ~ (k \in 1 .. n)
    BY <1>3, <2>5
  <2>7. k - n \in 1 .. m /\ (k - n) + n = k
    BY <1>1, <1>7, <2>1, <2>6
  <2> QED
    BY <2>1, <2>7
<1>15. Remembered'
  <2>1. IsFiniteSet(granted')
    <3>1. IsFiniteSet(granted)
      BY DEF DequeInv, Remembered
    <3>2. IsFiniteSet(granted \cup {[id |-> id, since |-> 0]})
      BY <3>1, FS_AddElement
    <3> QED
      BY <1>4, <3>1, <3>2
  <2>2. ASSUME NEW a \in granted', NEW b \in granted', a.id = b.id PROVE a = b
    BY <1>4, <2>2 DEF DequeInv, Remembered
  <2>3. ASSUME NEW g \in granted', g.since < Window - slack
        PROVE  \E i \in DOMAIN bucket' : bucket'[i].id = g.id /\ bucket'[i].came <= g.since
    <3>1. CASE g \in granted
      <4>1. PICK i \in 1 .. m : bucket[i + n].id = g.id /\ bucket[i + n].came <= g.since
        BY <1>14, <2>3, <3>1
      <4>2. i \in DOMAIN bucket' /\ bucket'[i] = bucket[i + n]
        BY <1>7, <1>8
      <4> QED
        BY <4>1, <4>2
    <3>2. CASE g = [id |-> id, since |-> 0]
      <4>1. m + 1 \in DOMAIN bucket'
        BY <1>7, <1>8
      <4>2. bucket'[m + 1].id = g.id /\ bucket'[m + 1].came <= g.since
        BY <1>5, <1>8, <3>2
      <4> QED
        BY <4>1, <4>2
    <3> QED
      BY <1>4, <3>1, <3>2
  <2> QED
    BY <1>6, <2>1, <2>2, <2>3 DEF Remembered
<1>16. ASSUME granted' # granted PROVE Cardinality(Recent) < Limit
  <2> DEFINE of(g) == CHOOSE i \in 1 .. m : bucket[i + n].id = g.id
             f == [g \in Recent |-> of(g)]
  <2>1. \A g \in Recent : of(g) \in 1 .. m /\ bucket[of(g) + n].id = g.id
    BY <1>14
  <2>2. ASSUME NEW x \in Recent, NEW y \in Recent, of(x) = of(y) PROVE x = y
    <3>1. x.id = y.id
      <4> HIDE DEF of
      <4> QED
        BY <2>1, <2>2
    <3> QED
      BY <3>1 DEF DequeInv, Remembered
  <2>3. f \in Injection(Recent, 1 .. m)
    <3> HIDE DEF of, Recent
    <3> QED
      BY <2>1, <2>2 DEF Injection, IsInjective
  <2>4. IsFiniteSet(1 .. m) /\ Cardinality(1 .. m) = m
    <3>1. m \in Nat
      BY <1>7
    <3> HIDE DEF m
    <3>2. /\ IsFiniteSet(1 .. m)
          /\ Cardinality(1 .. m) = IF 1 > m THEN 0 ELSE m - 1 + 1
      BY <3>1, FS_Interval
    <3> QED
      BY <3>1, <3>2
  <2>5. IsFiniteSet(Recent) /\ Cardinality(Recent) <= m
    <3> HIDE DEF f, Recent, m
    <3> QED
      BY <2>3, <2>4, FS_Injection
  <2>6. Cardinality(Recent) \in Nat
    <3> HIDE DEF Recent
    <3> QED
      BY <2>5, FS_CardinalityType
  <2>7. m + 1 <= Limit
    BY <1>4, <1>8, <1>16
  <2> HIDE DEF Recent, m
  <2> QED
    BY <1>7, <2>5, <2>6, <2>7, NumbersAssumption
<1> QED
  BY <1>11, <1>12, <1>13, <1>15, <1>16 DEF DequeInv

\* A tick makes every hit and its reading a second older.
LEMMA TickKeeps ==
    ASSUME DequeInv, Tick
    PROVE  DequeInv'
<1> DEFINE n == Len(bucket)
           later(g) == [g EXCEPT !.since = @ + 1]
           young == {g \in granted : g.since + 1 < Window}
<1>1. bucket \in Seq(Hits) /\ n \in Nat /\ DOMAIN bucket = 1 .. n
  BY DEF DequeInv, TypeOK
<1>2. slack \in Nat /\ ahead \in 0 .. slack /\ UNCHANGED <<checking, patient, ahead, slack>>
  <2>1. slack \in Nat /\ ahead \in 0 .. slack
    BY NumbersAssumption DEF DequeInv, TypeOK
  <2>2. UNCHANGED <<checking, patient, ahead, slack>>
    BY DEF Tick
  <2> QED
    BY <2>1, <2>2
<1>3. granted' = {later(g) : g \in young}
  BY DEF Tick
<1>4. wait' = IF wait = 0 THEN 0 ELSE wait - 1
  BY DEF Tick
<1>5. /\ DOMAIN bucket' = 1 .. n
      /\ \A i \in 1 .. n :
           bucket'[i] = [bucket[i] EXCEPT !.age = AtMost(@ + 1, OldAge), !.came = AtMost(@ + 1, OldAge)]
  BY <1>1 DEF Tick
<1>6. \A i \in 1 .. n : bucket[i] \in Hits
  BY <1>1
<1>7. \A i \in 1 .. n : /\ bucket'[i].id = bucket[i].id
                       /\ bucket'[i].age = AtMost(bucket[i].age + 1, OldAge)
                       /\ bucket'[i].came = AtMost(bucket[i].came + 1, OldAge)
                       /\ bucket'[i] \in Hits
  <2> SUFFICES ASSUME NEW i \in 1 .. n
               PROVE  /\ bucket'[i].id = bucket[i].id
                      /\ bucket'[i].age = AtMost(bucket[i].age + 1, OldAge)
                      /\ bucket'[i].came = AtMost(bucket[i].came + 1, OldAge)
                      /\ bucket'[i] \in Hits
    OBVIOUS
  <2> DEFINE b == bucket[i]
             age == AtMost(b.age + 1, OldAge)
             came == AtMost(b.came + 1, OldAge)
  <2>1. /\ b \in [id : Members, age : -slack .. OldAge, came : 0 .. OldAge]
        /\ bucket'[i] = [b EXCEPT !.age = age, !.came = came]
    BY <1>5, <1>6 DEF Hits
  <2>2. b.age \in -slack .. OldAge /\ b.came \in 0 .. OldAge /\ b.id \in Members
    BY <2>1
  <2>3. age \in -slack .. OldAge /\ came \in 0 .. OldAge
    <3> HIDE DEF b
    <3> QED
      BY <1>2, <2>2, NumbersAssumption DEF AtMost, OldAge
  <2> HIDE DEF age, came
  <2>4. bucket'[i] = [id |-> b.id, age |-> age, came |-> came]
    BY <2>1
  <2>5. bucket'[i] \in Hits
    BY <2>2, <2>3, <2>4 DEF Hits
  <2> QED
    BY <2>4, <2>5 DEF age, came
<1>8. Hits' = Hits /\ OldAge' = OldAge
  BY <1>2 DEF Hits, OldAge
<1>9. bucket' \in Seq(Hits)
  <2>1. bucket' = [i \in 1 .. n |-> bucket'[i]]
    BY <1>1, <1>5 DEF Tick
  <2> QED
    BY <1>1, <1>7, <2>1
<1>10. \A g \in young : /\ later(g) \in [id : Members, since : 0 .. Window - 1]
                        /\ later(g).id = g.id
                        /\ later(g).since = g.since + 1
  BY NumbersAssumption DEF DequeInv, TypeOK
<1>11. TypeOK'
  <2>1. wait' \in 0 .. OldAge + Second - 1
    BY <1>2, <1>4, SecondAssumption, NumbersAssumption DEF DequeInv, TypeOK, OldAge
  <2>2. granted' \subseteq [id : Members, since : 0 .. Window - 1]
    <3> HIDE DEF young, later
    <3> QED
      BY <1>3, <1>10
  <2> QED
    BY <1>2, <1>8, <1>9, <2>1, <2>2 DEF DequeInv, TypeOK
<1>12. Ordered'
  <2> SUFFICES ASSUME NEW i \in 1 .. n, NEW j \in 1 .. n
               PROVE  /\ i < j => bucket'[j].came <= bucket'[i].came
                      /\ bucket'[i].id = bucket'[j].id => i = j
    BY <1>5 DEF Ordered
  <2>1. i < j => bucket[j].came <= bucket[i].came
    BY <1>1 DEF DequeInv, Ordered
  <2>2. bucket[i].id = bucket[j].id => i = j
    BY <1>1 DEF DequeInv, Ordered
  <2>3. bucket[i] \in Hits /\ bucket[j] \in Hits
    BY <1>6
  <2>4. i < j => bucket'[j].came <= bucket'[i].came
    BY <1>2, <1>7, <2>1, <2>3, NumbersAssumption DEF Hits, AtMost, OldAge
  <2> QED
    BY <1>7, <2>2, <2>4
<1>13. Drift'
  <2> SUFFICES ASSUME NEW i \in 1 .. n
               PROVE  /\ bucket'[i].came + ahead - slack <= bucket'[i].age
                      /\ bucket'[i].age <= bucket'[i].came + ahead
    BY <1>2, <1>5 DEF Drift
  <2>1. /\ bucket[i].came + ahead - slack <= bucket[i].age
        /\ bucket[i].age <= bucket[i].came + ahead
    BY <1>1 DEF DequeInv, Drift
  <2> DEFINE b == bucket[i]
  <2>2. b.age \in -slack .. OldAge /\ b.came \in 0 .. OldAge
    BY <1>6 DEF Hits
  <2>3. bucket'[i].age = AtMost(b.age + 1, OldAge) /\ bucket'[i].came = AtMost(b.came + 1, OldAge)
    BY <1>7
  <2>4. b.came + ahead - slack <= b.age /\ b.age <= b.came + ahead
    BY <2>1
  <2> HIDE DEF b
  <2>5. OldAge \in Nat /\ b.age \in Int /\ b.came \in Int /\ b.came >= 0
    BY <1>2, <2>2, NumbersAssumption DEF OldAge
  <2>6. /\ b.age + 1 \in Int /\ b.came + 1 \in Int /\ b.came + 1 >= 0
        /\ (b.came + 1) + ahead - slack <= b.age + 1
        /\ b.age + 1 <= (b.came + 1) + ahead
    BY <1>2, <2>4, <2>5
  <2>7. ahead \in Int /\ ahead \in 0 .. slack /\ slack \in Nat
    BY <1>2
  <2>8. /\ AtMost(b.came + 1, OldAge) + ahead - slack <= AtMost(b.age + 1, OldAge)
        /\ AtMost(b.age + 1, OldAge) <= AtMost(b.came + 1, OldAge) + ahead
    BY <2>5, <2>6, <2>7, AgesDrift
  <2> QED
    BY <2>3, <2>8
<1>14. Remembered'
  <2>1. IsFiniteSet(granted')
    <3>1. IsFiniteSet(young)
      BY FS_Subset DEF DequeInv, Remembered
    <3> DEFINE age == [g \in young |-> later(g)]
    <3>2. age \in Surjection(young, {later(g) : g \in young})
      BY DEF Surjection
    <3> HIDE DEF age, young
    <3> QED
      BY <1>3, <3>1, <3>2, FS_Surjection
  <2>2. ASSUME NEW a \in granted', NEW b \in granted', a.id = b.id PROVE a = b
    <3>1. PICK x \in young, y \in young : a = later(x) /\ b = later(y)
      BY <1>3
    <3>2. x.id = y.id
      BY <1>10, <2>2, <3>1
    <3>3. x = y
      BY <3>2 DEF DequeInv, Remembered
    <3> QED
      BY <3>1, <3>3
  <2>3. ASSUME NEW x \in granted', x.since < Window - slack
        PROVE  \E i \in 1 .. n : bucket'[i].id = x.id /\ bucket'[i].came <= x.since
    <3>1. PICK g \in young : x = later(g)
      BY <1>3
    <3>2. x.id = g.id /\ x.since = g.since + 1 /\ g.since \in Int
      BY <1>10, <3>1, NumbersAssumption DEF DequeInv, TypeOK
    <3>3. PICK i \in 1 .. n : bucket[i].id = g.id /\ bucket[i].came <= g.since
      BY <1>1, <1>2, <2>3, <3>2, NumbersAssumption DEF DequeInv, Remembered
    <3>4. bucket'[i].came <= x.since
      BY <1>2, <1>6, <1>7, <3>2, <3>3, NumbersAssumption DEF Hits, AtMost, OldAge
    <3> QED
      BY <1>7, <3>2, <3>3, <3>4
  <2> QED
    BY <1>2, <1>5, <2>1, <2>2, <2>3 DEF Remembered
<1> QED
  BY <1>11, <1>12, <1>13, <1>14 DEF DequeInv

\* A step of the clock moves every reading by as much as the advance.
LEMMA SetClockKeeps ==
    ASSUME DequeInv, SetClock
    PROVE  DequeInv'
<1> DEFINE n == Len(bucket)
<1>1. bucket \in Seq(Hits) /\ n \in Nat /\ DOMAIN bucket = 1 .. n
  BY DEF DequeInv, TypeOK
<1>2. /\ slack \in Nat /\ ahead \in 0 .. slack /\ ahead' \in 0 .. slack
      /\ UNCHANGED <<checking, wait, patient, granted, slack>>
  BY NumbersAssumption DEF DequeInv, TypeOK, SetClock
<1>3. /\ DOMAIN bucket' = 1 .. n
      /\ \A i \in 1 .. n :
           bucket'[i] = [bucket[i] EXCEPT !.age = AtMost(@ + ahead' - ahead, OldAge)]
  BY <1>1 DEF SetClock
<1>4. \A i \in 1 .. n :
        /\ bucket[i] \in Hits
        /\ bucket[i].came + ahead - slack <= bucket[i].age
        /\ bucket[i].age <= bucket[i].came + ahead
  BY <1>1 DEF DequeInv, Drift
<1>5. \A i \in 1 .. n : /\ bucket'[i].id = bucket[i].id
                       /\ bucket'[i].age = AtMost(bucket[i].age + ahead' - ahead, OldAge)
                       /\ bucket'[i].came = bucket[i].came
                       /\ bucket'[i] \in Hits
                       /\ bucket'[i].came + ahead' - slack <= bucket'[i].age
                       /\ bucket'[i].age <= bucket'[i].came + ahead'
  <2> SUFFICES ASSUME NEW i \in 1 .. n
               PROVE  /\ bucket'[i].id = bucket[i].id
                      /\ bucket'[i].age = AtMost(bucket[i].age + ahead' - ahead, OldAge)
                      /\ bucket'[i].came = bucket[i].came
                      /\ bucket'[i] \in Hits
                      /\ bucket'[i].came + ahead' - slack <= bucket'[i].age
                      /\ bucket'[i].age <= bucket'[i].came + ahead'
    OBVIOUS
  <2>1. bucket'[i] = [bucket[i] EXCEPT !.age = AtMost(@ + ahead' - ahead, OldAge)]
    BY <1>3
  <2>2. /\ bucket[i] \in Hits
        /\ bucket[i].came + ahead - slack <= bucket[i].age
        /\ bucket[i].age <= bucket[i].came + ahead
    BY <1>4
  <2> DEFINE b == bucket[i]
             age == AtMost(b.age + ahead' - ahead, OldAge)
  <2>3. /\ b \in [id : Members, age : -slack .. OldAge, came : 0 .. OldAge]
        /\ bucket'[i] = [b EXCEPT !.age = age]
    BY <2>1, <2>2 DEF Hits
  <2>4. b.age \in -slack .. OldAge /\ b.came \in 0 .. OldAge /\ b.id \in Members
    BY <2>3
  <2>5. b.came + ahead - slack <= b.age /\ b.age <= b.came + ahead
    BY <2>2
  <2>6. /\ age \in -slack .. OldAge
        /\ b.came + ahead' - slack <= age
        /\ age <= b.came + ahead'
    <3>1. b.age \in Int /\ b.came \in Int /\ b.came >= 0 /\ b.came <= OldAge /\ OldAge \in Nat
      BY <1>2, <2>4, NumbersAssumption DEF OldAge
    <3>2. /\ b.age + ahead' - ahead \in Int
          /\ b.came + ahead' - slack <= b.age + ahead' - ahead
          /\ b.age + ahead' - ahead <= b.came + ahead'
      <4> HIDE DEF b
      <4> QED
        BY <1>2, <2>5, <3>1
    <3>3. AtMost(b.came, OldAge) = b.came
      BY <3>1 DEF AtMost
    <3>4. ahead' \in Int /\ ahead' \in 0 .. slack /\ slack \in Nat
      BY <1>2
    <3> HIDE DEF b
    <3>5. /\ age \in -slack .. OldAge
          /\ AtMost(b.came, OldAge) + ahead' - slack <= age
          /\ age <= AtMost(b.came, OldAge) + ahead'
      BY <3>1, <3>2, <3>4, AgesDrift
    <3> QED
      BY <3>3, <3>5
  <2>7. age = AtMost(b.age + ahead' - ahead, OldAge)
    OBVIOUS
  <2> HIDE DEF age
  <2>8. bucket'[i] = [id |-> b.id, age |-> age, came |-> b.came]
    BY <2>3
  <2>9. bucket'[i] \in Hits
    BY <2>4, <2>6, <2>8 DEF Hits
  <2> QED
    BY <2>6, <2>7, <2>8, <2>9
<1>6. Hits' = Hits /\ OldAge' = OldAge
  BY <1>2 DEF Hits, OldAge
<1>7. bucket' \in Seq(Hits)
  <2>1. bucket' = [i \in 1 .. n |-> bucket'[i]]
    BY <1>1, <1>3 DEF SetClock
  <2> QED
    BY <1>1, <1>5, <2>1
<1>8. TypeOK'
  BY <1>2, <1>6, <1>7 DEF DequeInv, TypeOK
<1>9. Ordered'
  BY <1>1, <1>3, <1>5 DEF DequeInv, Ordered
<1>10. Drift'
  BY <1>2, <1>3, <1>5 DEF Drift
<1>11. Remembered'
  BY <1>1, <1>2, <1>3, <1>5 DEF DequeInv, Remembered
<1> QED
  BY <1>8, <1>9, <1>10, <1>11 DEF DequeInv

LEMMA DequeStep ==
    ASSUME DequeInv, [Next]_vars
    PROVE  DequeInv'
<1>1. CASE UNCHANGED vars
  BY <1>1 DEF vars, DequeInv, TypeOK, Ordered, Drift, Remembered, Hits, OldAge
<1>2. CASE Check
  <2>1. UNCHANGED <<bucket, wait, granted, ahead, slack>>
    BY <1>2 DEF Check
  <2>2. checking' \in BOOLEAN /\ patient' \in BOOLEAN
    BY <1>2 DEF Check
  <2>3. TypeOK'
    BY <2>1, <2>2 DEF DequeInv, TypeOK, Hits, OldAge
  <2> QED
    BY <2>1, <2>3 DEF DequeInv, Ordered, Drift, Remembered
<1>3. CASE Record
  BY <1>3, RecordKeeps
<1>4. CASE Tick
  BY <1>4, TickKeeps
<1>5. CASE SetClock
  BY <1>5, SetClockKeeps
<1>6. CASE Restart
  <2>1. /\ bucket' = <<>> /\ wait' = 0 /\ granted' = {}
        /\ UNCHANGED <<checking, ahead, slack>>
    BY <1>6 DEF Restart
  <2>2. patient' \in BOOLEAN
    BY <1>6 DEF Restart
  <2>3. TypeOK'
    <3>1. OldAge \in Nat /\ OldAge' = OldAge
      BY <2>1, NumbersAssumption DEF DequeInv, TypeOK, OldAge
    <3>2. bucket' \in Seq(Hits')
      BY <2>1
    <3>3. OldAge + Second - 1 \in Nat
      BY <3>1, SecondAssumption
    <3>4. wait' \in 0 .. OldAge' + Second - 1
      BY <2>1, <3>1, <3>3
    <3> QED
      BY <2>1, <2>2, <3>2, <3>4 DEF DequeInv, TypeOK
  <2>4. DOMAIN bucket' = {}
    BY <2>1
  <2>5. Ordered' /\ Drift'
    BY <2>4 DEF Ordered, Drift
  <2>6. Remembered'
    BY <2>1, FS_EmptySet DEF Remembered
  <2> QED
    BY <2>3, <2>5, <2>6 DEF DequeInv
<1> QED
  BY <1>1, <1>2, <1>3, <1>4, <1>5, <1>6 DEF Next

\* However the clock is stepped, the deque keeps the order of arrival, and whoever
\* was let through within the bound is still in it (InMemoryRateLimitStore.record).
THEOREM DequeInvariant == Spec => []DequeInv
<1>1. Init => DequeInv
  BY InitDeque
<1>2. DequeInv /\ [Next]_vars => DequeInv'
  BY DequeStep
<1> QED
  BY <1>1, <1>2, PTL DEF Spec

\* Every variable keeps its type: the wait a client is told is a window at most,
\* or a window and the largest step of the clock rounded up to whole seconds.
THEOREM Typed == Spec => []TypeOK
<1>1. DequeInv => TypeOK
  BY DEF DequeInv
<1> QED
  BY <1>1, DequeInvariant, PTL

\* However the clock is stepped, no hit is counted that came as long ago as a
\* window and the largest step (InMemoryRateLimitStore.record).
THEOREM Prompt == Spec => []NoneOverstays
<1> QED
  BY LoopIsPrompt, DequeInvariant, PTL

\* However the clock is stepped, at most Limit requests are let through in a
\* window less the largest step.
THEOREM StepsShortenTheWindow == Spec => []BoundDespiteSteps
<1> DEFINE Recent == {g \in granted : g.since < Window - slack}
           BoundInv == DequeInv /\ Cardinality(Recent) <= Limit
<1>1. Init => BoundInv
  <2>1. Init => granted = {}
    BY DEF Init
  <2> QED
    BY <2>1, InitDeque, FS_EmptySet, NumbersAssumption
<1>2. ASSUME BoundInv, [Next]_vars PROVE BoundInv'
  <2>1. DequeInv' /\ slack' = slack
    BY <1>2, DequeStep DEF Next, Check, Record, Tick, SetClock, Restart, vars
  <2>2. IsFiniteSet(Recent) /\ Cardinality(Recent) \in Nat
    <3>1. IsFiniteSet(granted) /\ Recent \subseteq granted
      BY <1>2 DEF DequeInv, Remembered
    <3> HIDE DEF Recent
    <3> QED
      BY <3>1, FS_Subset, FS_CardinalityType
  <2>3. ASSUME granted' = granted PROVE BoundInv'
    BY <1>2, <2>1, <2>3
  <2>4. ASSUME Record, granted' # granted PROVE BoundInv'
    <3>1. Cardinality(Recent) < Limit
      BY <1>2, <2>4, RecordKeeps
    <3>2. PICK id \in Members : granted' = granted \cup {[id |-> id, since |-> 0]}
      BY <2>4 DEF Record
    <3> DEFINE grant == [id |-> id, since |-> 0]
    <3>3. Recent' \subseteq Recent \cup {grant}
      BY <2>1, <3>2
    <3> HIDE DEF grant, Recent
    <3>4. /\ IsFiniteSet(Recent \cup {grant})
          /\ Cardinality(Recent \cup {grant}) \in {Cardinality(Recent), Cardinality(Recent) + 1}
      BY <2>2, FS_AddElement
    <3>5. IsFiniteSet(Recent') /\ Cardinality(Recent') <= Cardinality(Recent \cup {grant})
      BY <3>3, <3>4, FS_Subset
    <3>6. Cardinality(Recent') \in Nat
      BY <3>5, FS_CardinalityType
    <3>7. Cardinality(Recent') <= Limit
      BY <2>2, <3>1, <3>4, <3>5, <3>6, NumbersAssumption
    <3> QED
      BY <2>1, <3>7
  <2>5. ASSUME Tick PROVE BoundInv'
    <3> DEFINE before(x) == CHOOSE g \in Recent : g.id = x.id
               f == [x \in Recent' |-> before(x)]
    <3>1. ASSUME NEW x \in Recent' PROVE \E g \in Recent : g.id = x.id
      <4>1. PICK g \in granted : x = [g EXCEPT !.since = @ + 1]
        BY <2>5 DEF Tick
      <4>2. g \in [id : Members, since : 0 .. Window - 1]
        BY <1>2 DEF DequeInv, TypeOK
      <4>3. x.id = g.id /\ x.since = g.since + 1 /\ g.since \in Int
        BY <4>1, <4>2, NumbersAssumption
      <4>4. slack \in Int
        BY <1>2, NumbersAssumption DEF DequeInv, TypeOK
      <4> QED
        BY <2>1, <4>3, <4>4, NumbersAssumption
    <3>2. \A x \in Recent' : before(x) \in Recent /\ before(x).id = x.id
      BY <3>1
    <3>3. ASSUME NEW x \in Recent', NEW y \in Recent', before(x) = before(y)
          PROVE  x = y
      <4>1. x.id = y.id
        <5> HIDE DEF before
        <5> QED
          BY <3>2, <3>3
      <4> QED
        BY <2>1, <4>1 DEF DequeInv, Remembered
    <3>4. f \in Injection(Recent', Recent)
      <4> HIDE DEF before, Recent
      <4> QED
        BY <3>2, <3>3 DEF Injection, IsInjective
    <3>5. IsFiniteSet(Recent') /\ Cardinality(Recent') <= Cardinality(Recent)
      <4> HIDE DEF f, Recent
      <4> QED
        BY <2>2, <3>4, FS_Injection
    <3>6. Cardinality(Recent') \in Nat
      <4> HIDE DEF Recent
      <4> QED
        BY <3>5, FS_CardinalityType
    <3> HIDE DEF Recent
    <3> QED
      BY <1>2, <2>1, <2>2, <3>5, <3>6, NumbersAssumption
  <2>6. ASSUME Restart PROVE BoundInv'
    BY <2>1, <2>6, FS_EmptySet, NumbersAssumption DEF Restart
  <2>7. granted' = granted \/ Tick \/ Restart \/ Record
    BY <1>2 DEF Next, Check, SetClock, vars
  <2> QED
    BY <2>3, <2>4, <2>5, <2>6, <2>7
<1>3. BoundInv => BoundDespiteSteps
  BY DEF BoundDespiteSteps
<1> QED
  BY <1>1, <1>2, <1>3, PTL DEF Spec

-----------------------------------------------------------------------------
(* On a steady clock the deque is the set of RateLimit                       *)

Bar(h) == [id |-> h.id, age |-> h.age]

\* What is the case of every step of a clock that is never stepped.
LEMMA SteadyFacts ==
    ASSUME DequeInv, slack = 0
    PROVE  /\ ahead = 0
           /\ bucket \in Seq(Hits) /\ Len(bucket) \in Nat /\ DOMAIN bucket = 1 .. Len(bucket)
           /\ \A i \in DOMAIN bucket :
                /\ bucket[i] \in Hits
                /\ bucket[i].age \in 0 .. Window
                /\ bucket[i].age = bucket[i].came
           /\ \A i, j \in DOMAIN bucket : i < j => bucket[j].age <= bucket[i].age
<1>1. ahead = 0 /\ bucket \in Seq(Hits) /\ Len(bucket) \in Nat /\ DOMAIN bucket = 1 .. Len(bucket)
  BY DEF DequeInv, TypeOK
<1>2. ASSUME NEW i \in DOMAIN bucket
      PROVE  bucket[i] \in Hits /\ bucket[i].age \in 0 .. Window /\ bucket[i].age = bucket[i].came
  <2> DEFINE b == bucket[i]
  <2>1. b \in Hits
    BY <1>1
  <2>2. b.age \in 0 .. Window /\ b.came \in 0 .. Window
    BY <2>1, NumbersAssumption DEF Hits, OldAge
  <2>3. b.came + ahead - slack <= b.age /\ b.age <= b.came + ahead
    BY DEF DequeInv, Drift
  <2>4. b.age = b.came
    <3> HIDE DEF b
    <3> QED
      BY <1>1, <2>2, <2>3, NumbersAssumption
  <2> QED
    BY <2>1, <2>2, <2>4
<1>3. \A i, j \in DOMAIN bucket : i < j => bucket[j].age <= bucket[i].age
  BY <1>2 DEF DequeInv, Ordered
<1> QED
  BY <1>1, <1>2, <1>3

\* The loop leaves the hits RateLimit would keep, and counting them is taking the
\* length of the deque.
LEMMA LoopIsFilter ==
    ASSUME DequeInv, slack = 0
    PROVE  /\ WindowOf!Surviving(0) = {Bar(Remaining[i]) : i \in 1 .. Len(Remaining)}
           /\ Len(Remaining) \in Nat
           /\ Cardinality(WindowOf!Surviving(0)) = Len(Remaining)
<1> DEFINE m == Len(Remaining)
           kept == {Bar(Remaining[i]) : i \in 1 .. m}
           f == [i \in 1 .. m |-> Bar(Remaining[i])]
<1>1. /\ bucket \in Seq(Hits) /\ Len(bucket) \in Nat /\ DOMAIN bucket = 1 .. Len(bucket)
      /\ \A i \in DOMAIN bucket : bucket[i].age \in 0 .. Window
      /\ \A i, j \in DOMAIN bucket : i < j => bucket[j].age <= bucket[i].age
  BY SteadyFacts
<1>2. PICK n \in 0 .. Len(bucket) :
        /\ Len(Remaining) = Len(bucket) - n
        /\ \A i \in 1 .. Len(Remaining) : Remaining[i] = bucket[i + n]
        /\ \A i \in 1 .. n : i \notin Live
        /\ n < Len(bucket) => n + 1 \in Live
  BY LoopLeaves DEF DequeInv
<1>3. m \in Nat /\ m + n = Len(bucket)
  BY <1>1, <1>2
<1>4. WindowOf!Surviving(0) = {h \in AsSet : h.age < Window + 0}
  BY DEF WindowOf!Surviving, Steady
<1>5. ASSUME NEW h \in AsSet, h.age < Window + 0 PROVE h \in kept
  <2>1. PICK k \in DOMAIN bucket : h = Bar(bucket[k])
    BY DEF AsSet, Elements, Bar
  <2>2. bucket[k].age < Window
    BY <1>1, <1>5, <2>1, NumbersAssumption DEF Bar
  <2>3. k \in Live /\ ~ (k \in 1 .. n)
    BY <1>2, <2>2 DEF Live
  <2>4. k - n \in 1 .. m /\ (k - n) + n = k
    BY <1>1, <1>3, <2>3
  <2>5. Remaining[k - n] = bucket[k]
    BY <1>2, <2>4
  <2> QED
    BY <2>1, <2>4, <2>5
<1>6. ASSUME NEW i \in 1 .. m PROVE Bar(Remaining[i]) \in AsSet /\ Bar(Remaining[i]).age < Window + 0
  <2>1. Remaining[i] = bucket[i + n] /\ i + n \in DOMAIN bucket /\ n + 1 \in DOMAIN bucket
    BY <1>1, <1>2, <1>3
  <2>2. n + 1 \in Live
    BY <1>1, <1>2, <1>3
  <2>3. bucket[n + 1].age < Window
    BY <2>2 DEF Live
  <2>4. bucket[i + n].age <= bucket[n + 1].age
    <3>1. n + 1 < i + n \/ n + 1 = i + n
      BY <1>3
    <3>2. bucket[i + n].age \in Int
      BY <1>1, <2>1
    <3> QED
      BY <1>1, <2>1, <3>1, <3>2
  <2>5. bucket[i + n].age < Window
    BY <1>1, <2>1, <2>3, <2>4, NumbersAssumption
  <2>6. Bar(Remaining[i]) \in AsSet
    BY <2>1 DEF AsSet, Elements, Bar
  <2> QED
    BY <2>1, <2>5, <2>6, NumbersAssumption DEF Bar
<1>7. WindowOf!Surviving(0) = kept
  BY <1>4, <1>5, <1>6
<1>8. ASSUME NEW i \in 1 .. m, NEW j \in 1 .. m, Bar(Remaining[i]) = Bar(Remaining[j])
      PROVE  i = j
  <2>1. bucket[i + n].id = bucket[j + n].id
    BY <1>2, <1>8 DEF Bar
  <2>2. i + n = j + n
    BY <1>1, <1>3, <2>1 DEF DequeInv, Ordered
  <2> QED
    BY <1>3, <2>2
<1>9. f \in Surjection(1 .. m, kept) /\ f \in Injection(1 .. m, kept)
  BY <1>8 DEF Surjection, Injection, IsInjective
<1>10. /\ IsFiniteSet(1 .. m)
       /\ Cardinality(1 .. m) = IF 1 > m THEN 0 ELSE m - 1 + 1
  <2>1. m \in Int
    BY <1>3
  <2> HIDE DEF m
  <2> QED
    BY <2>1, FS_Interval
<1>11. Cardinality(kept) = Cardinality(1 .. m)
  <2> HIDE DEF f, kept, m
  <2> QED
    BY <1>9, <1>10, FS_Surjection
<1>12. Cardinality(kept) = m
  <2> HIDE DEF kept, m
  <2> QED
    BY <1>3, <1>10, <1>11
<1> QED
  BY <1>3, <1>7, <1>12

\* The leftmost reading is the oldest hit RateLimit would find.
LEMMA LeftmostIsOldest ==
    ASSUME DequeInv, slack = 0, NEW id \in Members
    PROVE  WindowOf!RetryAfter(0) = RetryAfter(Pushed(Hit(id))[1])
<1> DEFINE m == Len(Remaining)
           ages == {h.age : h \in WindowOf!Surviving(0)} \cup {0}
           oldest == CHOOSE a \in ages : \A b \in ages : b <= a
           left == Pushed(Hit(id))[1]
<1>1. /\ bucket \in Seq(Hits) /\ Len(bucket) \in Nat /\ DOMAIN bucket = 1 .. Len(bucket)
      /\ \A i \in DOMAIN bucket : bucket[i].age \in 0 .. Window
      /\ \A i, j \in DOMAIN bucket : i < j => bucket[j].age <= bucket[i].age
  BY SteadyFacts
<1>2. PICK n \in 0 .. Len(bucket) :
        /\ Remaining \in Seq(Hits)
        /\ Len(Remaining) = Len(bucket) - n
        /\ \A i \in 1 .. Len(Remaining) : Remaining[i] = bucket[i + n]
  BY LoopLeaves DEF DequeInv
<1>3. m \in Nat /\ m + n = Len(bucket)
  BY <1>1, <1>2
<1>4. WindowOf!Surviving(0) = {Bar(Remaining[i]) : i \in 1 .. m}
  BY LoopIsFilter
<1>5. ages = {Remaining[i].age : i \in 1 .. m} \cup {0}
  <2>1. \A i \in 1 .. m : Bar(Remaining[i]).age = Remaining[i].age
    BY DEF Bar
  <2>2. ages = {h.age : h \in {Bar(Remaining[i]) : i \in 1 .. m}} \cup {0}
    BY <1>4
  <2>3. {h.age : h \in {Bar(Remaining[i]) : i \in 1 .. m}} = {Bar(Remaining[i]).age : i \in 1 .. m}
    OBVIOUS
  <2> HIDE DEF m, ages
  <2> QED
    BY <2>1, <2>2, <2>3
<1>6. \A i \in 1 .. m : /\ Remaining[i].age \in Int /\ 0 <= Remaining[i].age
                       /\ Remaining[i].age <= Remaining[1].age
  <2> SUFFICES ASSUME NEW i \in 1 .. m
               PROVE  /\ Remaining[i].age \in Int /\ 0 <= Remaining[i].age
                      /\ Remaining[i].age <= Remaining[1].age
    OBVIOUS
  <2>1. 1 \in 1 .. m /\ i + n \in DOMAIN bucket /\ 1 + n \in DOMAIN bucket
    BY <1>1, <1>3
  <2>2. Remaining[i] = bucket[i + n] /\ Remaining[1] = bucket[1 + n]
    BY <1>2, <2>1
  <2>3. bucket[i + n].age \in 0 .. Window
    BY <1>1, <2>1
  <2>4. 1 + n < i + n \/ 1 + n = i + n
    BY <1>3
  <2>5. bucket[i + n].age <= bucket[1 + n].age
    BY <1>1, <2>1, <2>3, <2>4
  <2> QED
    BY <2>2, <2>3, <2>5
<1>7. left = IF m = 0 THEN Hit(id) ELSE Remaining[1]
  <2>1. Hit(id) \in Hits
    BY NumbersAssumption DEF Hit, Hits, OldAge
  <2>2. /\ \A i \in 1 .. m : Append(Remaining, Hit(id))[i] = Remaining[i]
        /\ Append(Remaining, Hit(id))[m + 1] = Hit(id)
    BY <1>2, <2>1, AppendProperties
  <2>3. m # 0 => 1 \in 1 .. m
    BY <1>3
  <2> QED
    BY <1>3, <2>2, <2>3 DEF Pushed
<1>8. left.age \in ages /\ \A b \in ages : b <= left.age
  <2>1. CASE m = 0
    <3>1. ages = {0} /\ left.age = 0
      BY <1>5, <1>7, <2>1 DEF Hit
    <3> QED
      BY <3>1
  <2>2. CASE m # 0
    <3>1. 1 \in 1 .. m /\ left = Remaining[1]
      BY <1>3, <1>7, <2>2
    <3> QED
      BY <1>5, <1>6, <3>1
  <2> QED
    BY <2>1, <2>2
<1>9. \A a \in ages : a \in Int
  BY <1>5, <1>6
<1>10. oldest = left.age
  <2> HIDE DEF ages, left
  <2>1. oldest \in ages /\ \A b \in ages : b <= oldest
    BY <1>8
  <2> HIDE DEF oldest
  <2>2. oldest <= left.age /\ left.age <= oldest /\ oldest \in Int /\ left.age \in Int
    BY <1>8, <1>9, <2>1
  <2> QED
    BY <2>2
<1>11. WindowOf!RetryAfter(0) = WindowOf!Older(Second, WindowOf!RoundedUp(Window + 0 - oldest))
  BY DEF WindowOf!RetryAfter
<1>12. RetryAfter(left) = Older(Second, RoundedUp(Window - left.age))
  BY DEF RetryAfter
<1>13. left.age \in Int
  BY <1>8, <1>9
<1> HIDE DEF left, oldest
<1>14. Window + 0 - oldest = Window - left.age
  BY <1>10, <1>13, NumbersAssumption
<1> QED
  BY <1>11, <1>12, <1>14 DEF Older, WindowOf!Older, RoundedUp, WindowOf!RoundedUp, left

\* The two modules count the elements of a set alike.
LEMMA SameCardinality ==
    \A S : WindowOf!Cardinality(S) = Cardinality(S)
  BY Zenon DEF WindowOf!Cardinality, Cardinality

\* A check of the deque is a check of the set.
LEMMA RecordRefines ==
    ASSUME DequeInv, slack = 0, Record
    PROVE  WindowOf!Record(Worker)
<1>1. PICK id \in Members \ ({h.id : h \in Elements(bucket)} \cup {g.id : g \in granted}) :
         /\ bucket' = Pushed(Hit(id))
         /\ \/ /\ Len(Pushed(Hit(id))) <= Limit
               /\ granted' = granted \cup {[id |-> id, since |-> 0]}
               /\ wait' = 0
               /\ patient' = FALSE
            \/ /\ Len(Pushed(Hit(id))) > Limit
               /\ wait' = RetryAfter(Pushed(Hit(id))[1])
               /\ patient' = TRUE
               /\ UNCHANGED granted
  BY DEF Record
<1>2. checking = TRUE /\ checking' = FALSE /\ slack' = slack
  BY DEF Record, DequeInv, TypeOK
<1> DEFINE m == Len(Remaining)
           lagBar == [r \in {Worker} |-> Steady(IF checking THEN 0 ELSE -1, -1)]
<1>3. m \in Nat /\ Cardinality(WindowOf!Surviving(0)) = m
      /\ WindowOf!Surviving(0) = {Bar(Remaining[i]) : i \in 1 .. m}
  BY LoopIsFilter
<1>4. /\ Len(Pushed(Hit(id))) = m + 1
      /\ \A i \in 1 .. m : Pushed(Hit(id))[i] = Remaining[i]
      /\ Pushed(Hit(id))[m + 1] = Hit(id)
      /\ DOMAIN Pushed(Hit(id)) = 1 .. m + 1
  <2>1. Remaining \in Seq(Hits)
    BY LoopLeaves DEF DequeInv
  <2>2. Hit(id) \in Hits
    BY <1>1, NumbersAssumption DEF Hit, Hits, OldAge
  <2>3. Pushed(Hit(id)) \in Seq(Hits)
    BY <2>1, <2>2, AppendProperties DEF Pushed
  <2> QED
    BY <2>1, <2>2, <2>3, AppendProperties, LenProperties DEF Pushed
<1>5. lagBar[Worker] = 0 /\ lagBar' = [lagBar EXCEPT ![Worker] = WindowOf!Idle]
  BY <1>2 DEF Steady, WindowOf!Idle
<1>6. WindowOf!Allowed(0) <=> Len(Pushed(Hit(id))) <= Limit
  <2>1. WindowOf!Count(0) = Cardinality(WindowOf!Surviving(0)) + 1
    BY SameCardinality DEF WindowOf!Count
  <2>2. WindowOf!Count(0) = m + 1
    BY <1>3, <2>1
  <2> QED
    BY <1>4, <2>2 DEF WindowOf!Allowed
<1>7. AsSet' = WindowOf!Surviving(0) \cup {[id |-> id, age |-> 0]}
  <2>1. AsSet' = {Bar(bucket'[i]) : i \in DOMAIN bucket'}
    BY DEF AsSet, Elements, Bar
  <2>2. DOMAIN bucket' = 1 .. m + 1 /\ 1 .. m + 1 = (1 .. m) \cup {m + 1}
    BY <1>1, <1>3, <1>4
  <2>3. Bar(bucket'[m + 1]) = [id |-> id, age |-> 0]
    BY <1>1, <1>4 DEF Bar, Hit
  <2>4. \A i \in 1 .. m : Bar(bucket'[i]) = Bar(Remaining[i])
    BY <1>1, <1>4
  <2> QED
    BY <1>3, <2>1, <2>2, <2>3, <2>4
<1>8. Quiet' = 0
  <2>1. bucket'[Len(bucket')] = Hit(id) /\ bucket' # <<>>
    BY <1>1, <1>3, <1>4
  <2> QED
    BY <2>1, NumbersAssumption DEF Quiet, Hit, AtMost
<1>9. Steady(AsSet, {}) = AsSet /\ Steady(AsSet, {})' = AsSet'
      /\ Steady(granted, {}) = granted /\ Steady(granted, {})' = granted'
      /\ Steady(wait, 0)' = wait' /\ Steady(patient, FALSE)' = patient'
      /\ Steady(Quiet, Window)' = Quiet'
  BY <1>2 DEF Steady
<1>10. id \in Members \ ({h.id : h \in Steady(AsSet, {})} \cup {g.id : g \in Steady(granted, {})})
  <2>1. {h.id : h \in AsSet} = {h.id : h \in Elements(bucket)}
    <3>1. AsSet = {Bar(h) : h \in Elements(bucket)}
      BY DEF AsSet, Bar
    <3>2. \A h \in Elements(bucket) : Bar(h).id = h.id
      BY DEF Bar
    <3>3. {h.id : h \in {Bar(h) : h \in Elements(bucket)}} = {Bar(h).id : h \in Elements(bucket)}
      OBVIOUS
    <3> QED
      BY <3>1, <3>2, <3>3
  <2> QED
    BY <1>1, <1>9, <2>1
<1>11. IF WindowOf!Allowed(0) THEN WindowOf!LetThrough(id) ELSE WindowOf!Deny(0)
  <2>1. CASE Len(Pushed(Hit(id))) <= Limit
    <3>1. granted' = granted \cup {[id |-> id, since |-> 0]} /\ wait' = 0 /\ patient' = FALSE
      BY <1>1, <1>3, <1>4, <2>1, NumbersAssumption
    <3> QED
      BY <1>6, <1>9, <2>1, <3>1 DEF WindowOf!LetThrough
  <2>2. CASE ~ (Len(Pushed(Hit(id))) <= Limit)
    <3>1. wait' = RetryAfter(Pushed(Hit(id))[1]) /\ patient' = TRUE /\ UNCHANGED granted
      BY <1>1, <2>2
    <3>2. WindowOf!RetryAfter(0) = RetryAfter(Pushed(Hit(id))[1])
      BY <1>1, LeftmostIsOldest
    <3> QED
      BY <1>6, <1>9, <2>2, <3>1, <3>2 DEF WindowOf!Deny
  <2> QED
    BY <2>1, <2>2
<1>12. WindowOf!Expire
  BY DEF WindowOf!Expire
<1> DEFINE d == lagBar[Worker]
<1>13. d = 0 /\ d # WindowOf!Idle
  BY <1>5 DEF WindowOf!Idle
<1>14. Steady(Quiet, Window)' = 0
  BY <1>8, <1>9
<1>15. WindowOf!Recorded(Worker, id)
  <2>1. Steady(AsSet, {})' = WindowOf!Surviving(d) \cup {[id |-> id, age |-> d]}
    <3> HIDE DEF lagBar, d
    <3> QED
      BY <1>7, <1>9, <1>13
  <2> QED
    BY <1>5, <1>12, <1>13, <1>14, <2>1 DEF WindowOf!Recorded
<1>16. IF WindowOf!Allowed(d) THEN WindowOf!LetThrough(id) ELSE WindowOf!Deny(d)
  <2> HIDE DEF lagBar, d
  <2> QED
    BY <1>11, <1>13
<1>17. id \in WindowOf!Unused
  BY <1>10 DEF WindowOf!Unused
<1> QED
  BY <1>15, <1>16, <1>17 DEF WindowOf!Record

\* A tick passes for both.
LEMMA TickRefines ==
    ASSUME DequeInv, slack = 0, Tick
    PROVE  WindowOf!Tick
<1> DEFINE n == Len(bucket)
           lagBar == [r \in {Worker} |-> Steady(IF checking THEN 0 ELSE -1, -1)]
<1>1. /\ bucket \in Seq(Hits) /\ n \in Nat /\ DOMAIN bucket = 1 .. n
      /\ \A i \in 1 .. n : bucket[i] \in Hits /\ bucket[i].age \in 0 .. Window
  BY SteadyFacts
<1>2. /\ slack' = slack /\ checking' = checking /\ patient' = patient /\ checking = FALSE
      /\ wait' = IF wait = 0 THEN 0 ELSE wait - 1
      /\ granted' = {[g EXCEPT !.since = @ + 1] : g \in {x \in granted : x.since + 1 < Window}}
  BY DEF Tick, DequeInv, TypeOK
<1>3. /\ DOMAIN bucket' = 1 .. n
      /\ \A i \in 1 .. n :
           bucket'[i] = [bucket[i] EXCEPT !.age = AtMost(@ + 1, OldAge), !.came = AtMost(@ + 1, OldAge)]
  BY <1>1 DEF Tick
<1>4. OldAge = Window
  BY NumbersAssumption DEF OldAge
<1>5. ASSUME NEW i \in 1 .. n
      PROVE  /\ Bar(bucket'[i]) = WindowOf!Aged(Bar(bucket[i]))
             /\ bucket'[i].age = IF bucket[i].age < Window THEN bucket[i].age + 1 ELSE Window
  <2> DEFINE b == bucket[i]
  <2>1. b \in [id : Members, age : -slack .. OldAge, came : 0 .. OldAge] /\ b.age \in 0 .. Window
    BY <1>1 DEF Hits
  <2>2. bucket'[i] = [b EXCEPT !.age = AtMost(b.age + 1, OldAge), !.came = AtMost(b.came + 1, OldAge)]
    BY <1>3
  <2>3. bucket'[i].id = b.id /\ bucket'[i].age = AtMost(b.age + 1, Window)
    <3> HIDE DEF b
    <3> QED
      BY <1>4, <2>1, <2>2
  <2>4. AtMost(b.age + 1, Window) = IF b.age < Window THEN b.age + 1 ELSE b.age
    <3> HIDE DEF b
    <3> QED
      BY <2>1, NumbersAssumption DEF AtMost
  <2>5. Bar(b) = [id |-> b.id, age |-> b.age]
    BY DEF Bar
  <2>6. WindowOf!Aged(Bar(b)) = [id |-> b.id, age |-> IF b.age < Window + 0 THEN b.age + 1 ELSE b.age]
    <3> HIDE DEF b
    <3> QED
      BY <2>5 DEF WindowOf!Aged, WindowOf!OldAge
  <2>7. b.age < Window + 0 <=> b.age < Window
    <3> HIDE DEF b
    <3> QED
      BY <2>1, NumbersAssumption
  <2>8. Bar(bucket'[i]) = [id |-> b.id, age |-> IF b.age < Window THEN b.age + 1 ELSE b.age]
    <3> HIDE DEF b
    <3> QED
      BY <2>3, <2>4 DEF Bar
  <2>9. Bar(bucket'[i]) = WindowOf!Aged(Bar(b))
    <3> HIDE DEF b
    <3> QED
      BY <2>6, <2>7, <2>8
  <2>10. b.age < Window \/ b.age = Window
    <3> HIDE DEF b
    <3> QED
      BY <2>1, NumbersAssumption
  <2> QED
    BY <2>3, <2>4, <2>9, <2>10
<1>6. AsSet' = {WindowOf!Aged(h) : h \in AsSet}
  <2>1. AsSet = {Bar(bucket[i]) : i \in 1 .. n}
    BY <1>1 DEF AsSet, Elements, Bar
  <2>2. AsSet' = {Bar(bucket'[i]) : i \in 1 .. n}
    BY <1>3 DEF AsSet, Elements, Bar
  <2>3. {WindowOf!Aged(h) : h \in {Bar(bucket[i]) : i \in 1 .. n}} = {WindowOf!Aged(Bar(bucket[i])) : i \in 1 .. n}
    OBVIOUS
  <2> HIDE DEF n
  <2> QED
    BY <1>5, <2>1, <2>2, <2>3
<1>7. Quiet' = IF Quiet < Window THEN Quiet + 1 ELSE Window
  <2>1. CASE n = 0
    <3>1. bucket = <<>> /\ bucket' = <<>>
      <4>1. bucket' = [i \in DOMAIN bucket |-> bucket'[i]]
        BY DEF Tick
      <4>2. DOMAIN bucket = {}
        BY <1>1, <2>1
      <4> QED
        BY <1>1, <2>1, <4>1, <4>2
    <3>2. Quiet = Window /\ Quiet' = Window
      BY <3>1 DEF Quiet
    <3> QED
      BY <3>2, NumbersAssumption
  <2>2. CASE n # 0
    <3>1. n \in 1 .. n /\ bucket # <<>> /\ bucket' # <<>>
      <4>1. n \in 1 .. n
        BY <1>1, <2>2
      <4>2. DOMAIN bucket # {} /\ DOMAIN bucket' # {}
        <5> HIDE DEF n
        <5> QED
          BY <1>1, <1>3, <4>1
      <4> QED
        BY <4>1, <4>2
    <3>2. Len(bucket') = n
      <4>1. bucket' = [i \in 1 .. n |-> bucket'[i]]
        BY <1>1, <1>3 DEF Tick
      <4> QED
        BY <1>1, <4>1
    <3>3. Quiet = AtMost(bucket[n].age, Window) /\ Quiet' = AtMost(bucket'[n].age, Window)
      BY <3>1, <3>2 DEF Quiet
    <3>4. bucket[n].age \in 0 .. Window
      BY <1>1, <3>1
    <3>5. bucket'[n].age = IF bucket[n].age < Window THEN bucket[n].age + 1 ELSE Window
      BY <1>5, <3>1
    <3> QED
      BY <3>3, <3>4, <3>5, NumbersAssumption DEF AtMost
  <2> QED
    BY <2>1, <2>2
<1>8. /\ Steady(AsSet, {}) = AsSet /\ Steady(AsSet, {})' = AsSet'
      /\ Steady(granted, {}) = granted /\ Steady(granted, {})' = granted'
      /\ Steady(wait, 0) = wait /\ Steady(wait, 0)' = wait'
      /\ Steady(patient, FALSE) = patient /\ Steady(patient, FALSE)' = patient'
      /\ Steady(Quiet, Window) = Quiet /\ Steady(Quiet, Window)' = Quiet'
  BY <1>2 DEF Steady
<1>9. \A r \in {Worker} : lagBar[r] = WindowOf!Idle /\ lagBar[r] < 0
  BY <1>2 DEF Steady, WindowOf!Idle
<1>10. lagBar' = [r \in {Worker} |-> IF lagBar[r] = WindowOf!Idle THEN WindowOf!Idle ELSE lagBar[r] + 1]
  BY <1>2, <1>9 DEF Steady, WindowOf!Idle
<1>11. AsSet' = IF 0 = 1 THEN {} ELSE {WindowOf!Aged(h) : h \in AsSet}
  BY <1>6
<1>12. 0 = IF 0 = 0 THEN 0 ELSE 0 - 1
  OBVIOUS
<1> QED
  BY <1>2, <1>7, <1>8, <1>9, <1>10, <1>11, <1>12, Zenon DEF WindowOf!Tick

\* The other steps: a check reads the clock, the worker starts again, and a
\* steady clock set to its own reading changes nothing.
LEMMA StepRefines ==
    ASSUME DequeInv, [Next]_vars
    PROVE  [WindowOf!Next]_(WindowOf!vars)
<1>1. slack' = slack
  BY DEF Next, Check, Record, Tick, SetClock, Restart, vars
<1>2. CASE slack # 0
  BY <1>1, <1>2 DEF WindowOf!vars, Steady
<1>3. CASE slack = 0
  <2> USE <1>3
  <2>1. CASE UNCHANGED vars
    BY <2>1 DEF vars, WindowOf!vars, Steady, AsSet, Elements, Quiet
  <2>2. CASE Check
    <3>1. UNCHANGED <<bucket, wait, granted, slack>> /\ checking = FALSE /\ checking' = TRUE /\ patient' = FALSE
      BY <2>2 DEF Check, DequeInv, TypeOK
    <3>2. UNCHANGED <<AsSet, Quiet>>
      BY <3>1 DEF AsSet, Elements, Quiet
    <3>3. WindowOf!Check(Worker)
      BY <3>1, <3>2 DEF WindowOf!Check, WindowOf!Idle, Steady
    <3> QED
      BY <3>3 DEF WindowOf!Next
  <2>3. CASE Record
    BY <2>3, RecordRefines DEF WindowOf!Next
  <2>4. CASE Tick
    BY <2>4, TickRefines DEF WindowOf!Next
  <2>5. CASE SetClock
    <3>1. UNCHANGED <<checking, wait, patient, granted, slack>> /\ ahead' = 0 /\ ahead = 0
      BY <2>5 DEF SetClock, DequeInv, TypeOK
    <3>2. bucket' = bucket
      <4> DEFINE n == Len(bucket)
      <4>1. /\ bucket \in Seq(Hits) /\ n \in Nat /\ DOMAIN bucket = 1 .. n
            /\ \A i \in 1 .. n : bucket[i] \in Hits /\ bucket[i].age \in 0 .. Window
        BY SteadyFacts
      <4>2. bucket' = [i \in 1 .. n |-> [bucket[i] EXCEPT !.age = AtMost(@ + ahead' - ahead, OldAge)]]
        BY <2>5, <4>1 DEF SetClock
      <4>3. ASSUME NEW i \in 1 .. n
            PROVE  [bucket[i] EXCEPT !.age = AtMost(@ + ahead' - ahead, OldAge)] = bucket[i]
        <5> DEFINE b == bucket[i]
        <5>1. b \in [id : Members, age : -slack .. OldAge, came : 0 .. OldAge] /\ b.age \in 0 .. Window
          BY <4>1 DEF Hits
        <5>2. AtMost(b.age + ahead' - ahead, OldAge) = b.age
          <6> HIDE DEF b
          <6> QED
            BY <3>1, <5>1, NumbersAssumption DEF AtMost, OldAge
        <5>3. [b EXCEPT !.age = AtMost(@ + ahead' - ahead, OldAge)] = [b EXCEPT !.age = b.age]
          BY <5>2
        <5>4. [b EXCEPT !.age = b.age] = b
          <6> HIDE DEF b
          <6> QED
            BY <5>1
        <5> QED
          BY <5>3, <5>4
      <4>4. bucket' = [i \in 1 .. n |-> bucket[i]]
        BY <4>2, <4>3
      <4> QED
        BY <4>1, <4>4
    <3>3. UNCHANGED <<AsSet, Quiet>>
      BY <3>2 DEF AsSet, Elements, Quiet
    <3> QED
      BY <3>1, <3>3 DEF WindowOf!vars, Steady
  <2>6. CASE Restart
    <3>1. /\ bucket # <<>> /\ bucket' = <<>> /\ wait' = 0 /\ patient' = FALSE /\ granted' = {}
          /\ UNCHANGED <<checking, slack>>
      BY <2>6 DEF Restart
    <3>2. AsSet # {}
      <4>1. bucket \in Seq(Hits)
        BY DEF DequeInv, TypeOK
      <4>2. 1 \in DOMAIN bucket
        BY <3>1, <4>1
      <4> QED
        BY <4>2 DEF AsSet, Elements
    <3>3. AsSet' = {} /\ Quiet' = Window
      BY <3>1 DEF AsSet, Elements, Quiet
    <3>4. WindowOf!Lose
      BY <3>1, <3>2, <3>3 DEF WindowOf!Lose, Steady
    <3> QED
      BY <3>4 DEF WindowOf!Next
  <2> QED
    BY <2>1, <2>2, <2>3, <2>4, <2>5, <2>6 DEF Next
<1> QED
  BY <1>2, <1>3

\* The deque implements the window: what RateLimitProofs shows of the set of hits
\* holds of the deque of a worker whose clock is never stepped.
THEOREM Implements == Spec => WindowSpec
<1>1. Init => WindowOf!Init
  <2> SUFFICES ASSUME Init PROVE WindowOf!Init
    OBVIOUS
  <2>1. bucket = <<>> /\ checking = FALSE /\ wait = 0 /\ patient = FALSE /\ granted = {}
    BY DEF Init
  <2>2. AsSet = {} /\ Quiet = Window
    BY <2>1 DEF AsSet, Elements, Quiet
  <2> QED
    BY <2>1, <2>2 DEF WindowOf!Init, WindowOf!Idle, Steady
<1>2. DequeInv /\ [Next]_vars => [WindowOf!Next]_(WindowOf!vars)
  BY StepRefines
<1> QED
  BY <1>1, <1>2, DequeInvariant, PTL DEF Spec, WindowSpec, WindowOf!Spec
=============================================================================
