-------------------------- MODULE RateLimitProofs --------------------------
(***************************************************************************)
(* Proofs about RateLimit for every number of requests, limit, window and    *)
(* delay, whatever the hits are called.                                      *)
(***************************************************************************)
EXTENDS RateLimit, FiniteIntegers

\* One hit per name, and a bucket of finitely many.
Named(S) == IsFiniteSet(S) /\ \A a, b \in S : a.id = b.id => a = b

\* EXPIRE was renewed by the last hit, so the bucket outlives it by a window;
\* nothing in the bucket, and nothing let through, is younger than that hit.
Kept ==
    /\ Backend = "memory" => ttl = 0
    /\ Backend = "redis" /\ hits # {} => ttl > 0 /\ ttl + quiet = Window
    /\ \A h \in hits : h.age >= quiet
    /\ \A g \in granted : g.since >= quiet

\* What was let through within the bound is still in the bucket, to be counted.
Remembered ==
    \A g \in granted : g.since < Window - MaxLag =>
        \E h \in hits : h.id = g.id /\ h.age <= g.since + MaxLag

Recent == {g \in granted : g.since < Window - MaxLag}

WindowInv == TypeOK /\ Named(hits) /\ Named(granted) /\ Kept

-----------------------------------------------------------------------------
(* Types                                                                     *)

\* Rounding up adds less than a second, and passes no whole number of seconds:
\* not the window.
LEMMA RoundedUpBounds ==
    ASSUME NEW t \in Int, t <= Window
    PROVE  /\ RoundedUp(t) \in Int
           /\ t <= RoundedUp(t) /\ RoundedUp(t) < t + Second
           /\ RoundedUp(t) <= Window
<1> DEFINE floor == (-t) \div Second
           rest == (-t) % Second
           whole == Window \div Second
<1>1. /\ floor \in Int /\ rest \in Int /\ -t = (Second * floor) + rest
      /\ whole \in Int /\ Window = Second * whole
  BY WholeSeconds, SecondAssumption, NumbersAssumption
<1>2. RoundedUp(t) = Second * (-floor)
  <2>1. RoundedUp(t) = t + rest /\ Second \in Int
    BY SecondAssumption DEF RoundedUp
  <2> HIDE DEF floor, rest
  <2> QED
    BY <1>1, <2>1
<1>3. RoundedUp(t) \in Int /\ t <= RoundedUp(t) /\ RoundedUp(t) < t + Second
  BY SecondAssumption DEF RoundedUp
<1>4. RoundedUp(t) <= Window
  <2>1. Second * (-floor) < Second * (whole + 1)
    <3>1. Second * (whole + 1) = Window + Second
      BY <1>1, SecondAssumption
    <3>2. RoundedUp(t) < Window + Second
      BY <1>3, SecondAssumption, NumbersAssumption
    <3> HIDE DEF floor, whole
    <3> QED
      BY <1>2, <3>1, <3>2
  <2> HIDE DEF floor, whole
  <2>2. -floor <= whole
    BY <1>1, <2>1, SecondAssumption
  <2>3. Second * (-floor) <= Second * whole
    BY <1>1, <2>2, SecondAssumption
  <2> QED
    BY <1>1, <1>2, <2>3
<1> QED
  BY <1>3, <1>4

\* Nor does the least of one second pass the window.
LEMMA SecondFits == Second <= Window
<1> DEFINE whole == Window \div Second
<1>1. whole \in Int /\ Window = Second * whole
  BY WholeSeconds, SecondAssumption, NumbersAssumption
<1> HIDE DEF whole
<1>2. whole >= 1
  BY <1>1, SecondAssumption, NumbersAssumption
<1>3. Second * whole >= Second
  BY <1>1, <1>2, SecondAssumption
<1> QED
  BY <1>1, <1>3

\* The wait lies between a tick and a window.
LEMMA RetryAfterType ==
    ASSUME TypeOK, IsFiniteSet(hits), NEW d \in 0 .. MaxLag
    PROVE  RetryAfter(d) \in 1 .. Window
<1> DEFINE ages == {h.age : h \in Surviving(d)} \cup {d}
           Greater(a) == \A b \in ages : b <= a
           oldest == CHOOSE a \in ages : \A b \in ages : b <= a
<1>1. ages \subseteq Int /\ ages # {} /\ d \in ages
  BY NumbersAssumption DEF TypeOK, Surviving, OldAge
<1>2. IsFiniteSet(ages)
  <2>1. ages \subseteq 0 .. OldAge
    BY NumbersAssumption DEF TypeOK, Surviving, OldAge
  <2>2. IsFiniteSet(0 .. OldAge)
    BY FS_Interval, NumbersAssumption DEF OldAge
  <2> HIDE DEF ages
  <2> QED
    BY <2>1, <2>2, FS_Subset
<1>3. oldest \in ages /\ d <= oldest
  <2>1. \E a \in ages : \A b \in ages : b <= a
    <3> HIDE DEF ages
    <3> QED
      BY <1>1, <1>2, Greatest
  <2> HIDE DEF ages
  <2> QED
    BY <2>1, <1>1
<1>4. oldest < Window + d /\ oldest \in Int
  <2>1. \A a \in ages : a < Window + d /\ a \in Int
    BY NumbersAssumption DEF TypeOK, Surviving, OldAge
  <2> HIDE DEF ages, oldest
  <2> QED
    BY <2>1, <1>3
<1>5. RetryAfter(d) = Older(Second, RoundedUp(Window + d - oldest))
  BY DEF RetryAfter
<1> HIDE DEF oldest, ages
<1>6. d \in Int /\ Window + d - oldest \in Int /\ Window + d - oldest <= Window
  BY <1>3, <1>4, NumbersAssumption
<1>7. RoundedUp(Window + d - oldest) \in 1 .. Window
  BY <1>3, <1>4, <1>6, RoundedUpBounds, NumbersAssumption
<1> QED
  BY <1>5, <1>7, SecondFits, SecondAssumption, NumbersAssumption DEF Older

\* Every bucket starts empty.
LEMMA InitWindow == Init => WindowInv /\ Remembered
<1> SUFFICES ASSUME Init PROVE WindowInv /\ Remembered
  OBVIOUS
<1>1. TypeOK
  <2>1. ttl \in 0 .. Window /\ wait \in 0 .. Window /\ quiet \in 0 .. Window
    BY NumbersAssumption DEF Init
  <2>2. lag \in [Requests -> {Idle} \cup 0 .. MaxLag]
    BY DEF Init
  <2>3. hits = {} /\ granted = {} /\ patient = FALSE
    BY DEF Init
  <2> QED
    BY <2>1, <2>2, <2>3 DEF TypeOK
<1>2. Named(hits) /\ Named(granted)
  BY FS_EmptySet DEF Init, Named
<1>3. Kept /\ Remembered
  BY DEF Init, Kept, Remembered
<1> QED
  BY <1>1, <1>2, <1>3 DEF WindowInv

\* A pipeline that runs adds one hit of a new name, and one grant of that name
\* at most.
LEMMA RecordedKeeps ==
    ASSUME WindowInv, NEW r \in Requests, NEW id \in Unused, Recorded(r, id),
           granted' = granted \cup {[id |-> id, since |-> 0]} \/ granted' = granted,
           wait' \in 0 .. Window, patient' \in BOOLEAN
    PROVE  WindowInv' /\ (Remembered => Remembered')
<1> DEFINE d == lag[r]
<1>1. d \in 0 .. MaxLag
  BY DEF WindowInv, TypeOK, Recorded, Idle
<1>2. /\ id \in Members \ ({h.id : h \in hits} \cup {g.id : g \in granted})
      /\ hits' = Surviving(d) \cup {[id |-> id, age |-> d]}
      /\ granted' = granted \cup {[id |-> id, since |-> 0]} \/ granted' = granted
      /\ wait' \in 0 .. Window /\ patient' \in BOOLEAN
  BY DEF Recorded, Unused
<1>3. ttl' = IF Backend = "redis" THEN Window ELSE 0
  BY DEF Recorded, Expire
<1>4. quiet' = 0 /\ lag' = [lag EXCEPT ![r] = Idle]
  BY DEF Recorded
<1>5. Surviving(d) \subseteq hits /\ \A h \in hits : h.age < Window + d => h \in Surviving(d)
  BY DEF Surviving
<1>7. [id |-> id, age |-> d] \in [id : Members, age : 0 .. OldAge]
  BY <1>1, <1>2, NumbersAssumption DEF OldAge
<1>8. TypeOK'
  <2>1. hits' \subseteq [id : Members, age : 0 .. OldAge]
    BY <1>2, <1>5, <1>7 DEF WindowInv, TypeOK
  <2>2. ttl' \in 0 .. Window /\ wait' \in 0 .. Window /\ quiet' \in 0 .. Window
    BY <1>2, <1>3, <1>4, NumbersAssumption
  <2>3. lag' \in [Requests -> {Idle} \cup 0 .. MaxLag]
    BY <1>4 DEF WindowInv, TypeOK
  <2>4. granted' \subseteq [id : Members, since : 0 .. Window - 1]
    BY <1>2, NumbersAssumption DEF WindowInv, TypeOK
  <2> QED
    BY <1>2, <2>1, <2>2, <2>3, <2>4 DEF TypeOK
<1>9. Named(hits)'
  <2>1. IsFiniteSet(hits')
    BY <1>2, <1>5, FS_Subset, FS_AddElement DEF WindowInv, Named
  <2>2. ASSUME NEW a \in hits', NEW b \in hits', a.id = b.id
        PROVE  a = b
    BY <1>2, <1>5, <2>2 DEF WindowInv, Named
  <2> QED
    BY <2>1, <2>2 DEF Named
<1>10. Named(granted)'
  <2>1. IsFiniteSet(granted \cup {[id |-> id, since |-> 0]})
    BY FS_AddElement DEF WindowInv, Named
  <2>2. ASSUME NEW a \in granted', NEW b \in granted', a.id = b.id
        PROVE  a = b
    BY <1>2, <2>2 DEF WindowInv, Named
  <2>3. IsFiniteSet(granted')
    BY <2>1, <1>2 DEF WindowInv, Named
  <2> QED
    BY <2>2, <2>3 DEF Named
<1>11. Kept'
  <2>1. \A h \in hits' : h.age >= 0
    BY <1>8, NumbersAssumption DEF TypeOK, OldAge
  <2>2. \A g \in granted' : g.since >= 0
    BY <1>8, NumbersAssumption DEF TypeOK
  <2> QED
    BY <2>1, <2>2, <1>3, <1>4, BackendAssumption, NumbersAssumption DEF Kept
<1>12. ASSUME Remembered PROVE Remembered'
  <2> SUFFICES ASSUME NEW g \in granted', g.since < Window - MaxLag
               PROVE  \E h \in hits' : h.id = g.id /\ h.age <= g.since + MaxLag
    BY DEF Remembered
  <2>1. CASE g \in granted
    <3>1. PICK h \in hits : h.id = g.id /\ h.age <= g.since + MaxLag
      BY <2>1, <1>12 DEF Remembered
    <3>2. h.age \in Int /\ g.since \in Int
      BY <2>1, NumbersAssumption DEF WindowInv, TypeOK, OldAge
    <3>3. h.age < Window + d
      BY <3>1, <3>2, <1>1, NumbersAssumption
    <3> QED
      BY <3>1, <3>3, <1>2, <1>5
  <2>2. CASE g = [id |-> id, since |-> 0]
    <3> DEFINE hit == [id |-> id, age |-> d]
    <3>1. hit \in hits' /\ hit.id = g.id
      BY <2>2, <1>2
    <3>2. hit.age <= g.since + MaxLag
      BY <2>2, <1>1, NumbersAssumption
    <3> QED
      BY <3>1, <3>2
  <2> QED
    BY <2>1, <2>2, <1>2
<1> QED
  BY <1>8, <1>9, <1>10, <1>11, <1>12 DEF WindowInv

\* A decision lets the request through or denies it, and either writes down a wait.
LEMMA RecordKeeps ==
    ASSUME WindowInv, NEW r \in Requests, Record(r)
    PROVE  WindowInv' /\ (Remembered => Remembered')
<1>1. PICK id \in Unused :
         /\ Recorded(r, id)
         /\ granted' = granted \cup {[id |-> id, since |-> 0]} \/ granted' = granted
         /\ wait' = 0 \/ wait' = RetryAfter(lag[r])
         /\ patient' \in BOOLEAN
  BY DEF Record, LetThrough, Deny
<1>2. RetryAfter(lag[r]) \in 1 .. Window
  <2>1. lag[r] \in 0 .. MaxLag
    BY <1>1 DEF WindowInv, TypeOK, Recorded, Idle
  <2> QED
    BY <2>1, RetryAfterType DEF WindowInv, Named
<1>3. wait' \in 0 .. Window
  BY <1>1, <1>2, NumbersAssumption
<1> QED
  BY <1>1, <1>3, RecordedKeeps

\* With the answer lost nothing is decided.
LEMMA LoseReplyKeeps ==
    ASSUME WindowInv, NEW r \in Requests, LoseReply(r)
    PROVE  WindowInv' /\ (Remembered => Remembered')
<1>1. PICK id \in Unused : Recorded(r, id)
  BY DEF LoseReply
<1>2. granted' = granted /\ wait' \in 0 .. Window /\ patient' \in BOOLEAN
  BY DEF LoseReply, WindowInv, TypeOK
<1> QED
  BY <1>1, <1>2, RecordedKeeps

\* A tick ages everything at once and forgets what has become too old.
LEMMA TickKeeps ==
    ASSUME WindowInv, Tick
    PROVE  WindowInv' /\ (Remembered => Remembered')
<1> DEFINE later(g) == [g EXCEPT !.since = @ + 1]
           young == {g \in granted : g.since + 1 < Window}
<1>1. granted' = {later(g) : g \in young}
  BY DEF Tick
<1>2. hits' = IF ttl = 1 THEN {} ELSE {Aged(h) : h \in hits}
  BY DEF Tick
<1>3. /\ ttl' = IF ttl = 0 THEN 0 ELSE ttl - 1
      /\ wait' = IF wait = 0 THEN 0 ELSE wait - 1
      /\ quiet' = IF quiet < Window THEN quiet + 1 ELSE Window
      /\ patient' = patient
  BY DEF Tick
<1>4. \A h \in hits : /\ Aged(h) \in [id : Members, age : 0 .. OldAge]
                      /\ Aged(h).id = h.id
                      /\ Aged(h).age = IF h.age < OldAge THEN h.age + 1 ELSE h.age
  BY NumbersAssumption DEF WindowInv, TypeOK, Aged, OldAge
<1>5. \A g \in young : /\ later(g) \in [id : Members, since : 0 .. Window - 1]
                       /\ later(g).id = g.id
                       /\ later(g).since = g.since + 1
  BY NumbersAssumption DEF WindowInv, TypeOK
<1>6. TypeOK'
  <2>1. hits' \subseteq [id : Members, age : 0 .. OldAge]
    BY <1>2, <1>4
  <2>2. ttl' \in 0 .. Window /\ wait' \in 0 .. Window /\ quiet' \in 0 .. Window
    BY <1>3, NumbersAssumption DEF WindowInv, TypeOK
  <2>3. lag' \in [Requests -> {Idle} \cup 0 .. MaxLag]
    BY NumbersAssumption DEF Tick, WindowInv, TypeOK, Idle
  <2>4. granted' \subseteq [id : Members, since : 0 .. Window - 1]
    <3> HIDE DEF young, later
    <3> QED
      BY <1>1, <1>5
  <2>5. patient' \in BOOLEAN
    BY <1>3 DEF WindowInv, TypeOK
  <2> QED
    BY <2>1, <2>2, <2>3, <2>4, <2>5 DEF TypeOK
<1>7. Named(hits)'
  <2>1. IsFiniteSet({Aged(h) : h \in hits})
    <3> DEFINE age == [h \in hits |-> Aged(h)]
    <3>1. age \in Surjection(hits, {Aged(h) : h \in hits})
      BY DEF Surjection
    <3> HIDE DEF age
    <3> QED
      BY <3>1, FS_Surjection DEF WindowInv, Named
  <2>2. IsFiniteSet(hits')
    BY <1>2, <2>1, FS_EmptySet
  <2>3. ASSUME NEW a \in hits', NEW b \in hits', a.id = b.id
        PROVE  a = b
    BY <1>2, <1>4, <2>3 DEF WindowInv, Named
  <2> QED
    BY <2>2, <2>3 DEF Named
<1>8. Named(granted)'
  <2>1. IsFiniteSet({later(g) : g \in young})
    <3>1. IsFiniteSet(young)
      BY FS_Subset DEF WindowInv, Named
    <3> DEFINE age == [g \in young |-> later(g)]
    <3>2. age \in Surjection(young, {later(g) : g \in young})
      BY DEF Surjection
    <3> HIDE DEF age, young
    <3> QED
      BY <3>1, <3>2, FS_Surjection
  <2>2. IsFiniteSet(granted')
    BY <1>1, <2>1
  <2>3. ASSUME NEW a \in granted', NEW b \in granted', a.id = b.id
        PROVE  a = b
    <3>1. PICK x \in young, y \in young : a = later(x) /\ b = later(y)
      BY <1>1
    <3>2. x.id = y.id
      BY <3>1, <1>5, <2>3
    <3>3. x = y
      BY <3>2 DEF WindowInv, Named
    <3> QED
      BY <3>1, <3>3
  <2> QED
    BY <2>2, <2>3 DEF Named
<1>9. Kept'
  <2>1. (Backend = "memory" => ttl = 0)'
    BY <1>3 DEF WindowInv, Kept
  <2>2. (Backend = "redis" /\ hits # {} => ttl > 0 /\ ttl + quiet = Window)'
    BY <1>2, <1>3, NumbersAssumption DEF WindowInv, Kept, TypeOK
  <2>3. \A h \in hits' : h.age >= quiet'
    BY <1>2, <1>3, <1>4, NumbersAssumption DEF WindowInv, Kept, TypeOK, OldAge
  <2>4. \A g \in granted' : g.since >= quiet'
    <3> SUFFICES ASSUME NEW g \in young PROVE later(g).since >= quiet'
      BY <1>1
    <3>1. later(g).since = g.since + 1 /\ g.since >= quiet /\ g.since \in Int
      BY <1>5, NumbersAssumption DEF WindowInv, Kept, TypeOK
    <3> HIDE DEF later
    <3> QED
      BY <3>1, <1>3, NumbersAssumption DEF WindowInv, TypeOK
  <2> QED
    BY <2>1, <2>2, <2>3, <2>4 DEF Kept
<1>10. ASSUME Remembered PROVE Remembered'
  <2> SUFFICES ASSUME NEW x \in young, later(x).since < Window - MaxLag
               PROVE  \E h \in hits' : h.id = later(x).id
                                        /\ h.age <= later(x).since + MaxLag
    BY <1>1 DEF Remembered
  <2>1. /\ later(x).id = x.id /\ later(x).since = x.since + 1
        /\ x.since \in Int /\ x.since + 1 < Window /\ x.since >= quiet
    BY <1>5, NumbersAssumption DEF WindowInv, Kept, TypeOK
  <2>2. PICK h \in hits : h.id = x.id /\ h.age <= x.since + MaxLag
    BY <2>1, <1>10, NumbersAssumption DEF Remembered
  <2>3. ttl # 1
    BY <2>1, <2>2, BackendAssumption, NumbersAssumption DEF WindowInv, Kept, TypeOK
  <2>4. Aged(h) \in hits' /\ Aged(h).id = x.id
    BY <1>2, <1>4, <2>2, <2>3
  <2>5. Aged(h).age <= x.since + 1 + MaxLag
    BY <1>4, <2>1, <2>2, NumbersAssumption DEF WindowInv, TypeOK, OldAge
  <2> QED
    BY <2>1, <2>4, <2>5
<1> QED
  BY <1>6, <1>7, <1>8, <1>9, <1>10 DEF WindowInv

\* The other steps leave the bucket alone, or drop it with its history.
LEMMA WindowStep ==
    ASSUME WindowInv, [Next]_vars
    PROVE  WindowInv' /\ (Remembered => Remembered')
<1>1. CASE UNCHANGED vars
  BY <1>1 DEF vars, WindowInv, TypeOK, Named, Kept, Remembered
<1>2. ASSUME NEW r \in Requests, Check(r) \/ Fail(r)
      PROVE  WindowInv' /\ (Remembered => Remembered')
  <2>1. UNCHANGED <<hits, ttl, wait, granted, quiet>>
    BY <1>2 DEF Check, Fail
  <2>2. patient' \in BOOLEAN
    BY <1>2 DEF Check, Fail, WindowInv, TypeOK
  <2>3. lag' \in [Requests -> {Idle} \cup 0 .. MaxLag]
    BY <1>2, NumbersAssumption DEF Check, Fail, WindowInv, TypeOK
  <2>4. TypeOK'
    BY <2>1, <2>2, <2>3 DEF WindowInv, TypeOK
  <2> QED
    BY <2>1, <2>4 DEF WindowInv, Named, Kept, Remembered
<1>3. ASSUME NEW r \in Requests, Record(r)
      PROVE  WindowInv' /\ (Remembered => Remembered')
  BY <1>3, RecordKeeps
<1>4. ASSUME NEW r \in Requests, LoseReply(r)
      PROVE  WindowInv' /\ (Remembered => Remembered')
  BY <1>4, LoseReplyKeeps
<1>5. CASE Tick
  BY <1>5, TickKeeps
<1>6. CASE Lose
  <2>1. /\ hits' = {} /\ ttl' = 0
        /\ granted' = {} /\ wait' = 0 /\ patient' = FALSE
        /\ quiet' = Window /\ UNCHANGED lag
    BY <1>6 DEF Lose
  <2>2. TypeOK'
    <3>1. ttl' \in 0 .. Window /\ wait' \in 0 .. Window /\ quiet' \in 0 .. Window
      BY <2>1, NumbersAssumption DEF WindowInv, TypeOK
    <3>2. patient' \in BOOLEAN
      BY <2>1
    <3>3. /\ hits' = {} /\ granted' = {}
          /\ lag' \in [Requests -> {Idle} \cup 0 .. MaxLag]
      BY <2>1 DEF WindowInv, TypeOK
    <3> QED
      BY <3>1, <3>2, <3>3 DEF TypeOK
  <2>3. Named(hits)' /\ Named(granted)' /\ Kept' /\ Remembered'
    BY <2>1, FS_EmptySet DEF WindowInv, Named, Kept, Remembered
  <2> QED
    BY <2>1, <2>2, <2>3 DEF WindowInv
<1> QED
  BY <1>1, <1>2, <1>3, <1>4, <1>5, <1>6 DEF Next

\* The inductive invariant, whatever is lost.
THEOREM WindowInvariant == Spec => []WindowInv
<1>1. Init => WindowInv
  BY InitWindow
<1>2. WindowInv /\ [Next]_vars => WindowInv'
  BY WindowStep
<1> QED
  BY <1>1, <1>2, PTL DEF Spec

\* Every variable of the window keeps its type: the wait a client is told never
\* exceeds a window (RedisRateLimitStore.record, check).
THEOREM Typed == Spec => []TypeOK
<1>1. WindowInv => TypeOK
  BY DEF WindowInv
<1> QED
  BY <1>1, WindowInvariant, PTL

-----------------------------------------------------------------------------
(* The next request of a client that stayed away                             *)

\* After a quiet window the bucket is gone (Redis) or every hit in it is purged
\* (memory), so the first request counts itself alone.
THEOREM StartsAfresh == Spec => []Forgives
<1>1. ASSUME WindowInv PROVE Forgives
  <2> SUFFICES ASSUME quiet = Window, Limit > 0,
                      NEW r \in Requests, lag[r] # Idle
               PROVE  Allowed(lag[r])
    BY DEF Forgives
  <2>1. Surviving(lag[r]) = {}
    <3>1. CASE Backend = "redis"
      <4>1. hits = {}
        BY <1>1, <3>1, NumbersAssumption DEF WindowInv, Kept, TypeOK
      <4> QED
        BY <4>1 DEF Surviving
    <3>2. CASE Backend = "memory"
      <4>1. lag[r] = 0
        BY <1>1, <3>2, LagAssumption DEF WindowInv, TypeOK
      <4>2. \A h \in hits : ~ (h.age < Window + lag[r])
        BY <1>1, <4>1, NumbersAssumption DEF WindowInv, Kept, TypeOK, OldAge
      <4> QED
        BY <4>2 DEF Surviving
    <3> QED
      BY <3>1, <3>2, BackendAssumption
  <2> QED
    BY <2>1, FS_EmptySet, NumbersAssumption DEF Allowed, Count
<1> QED
  BY <1>1, WindowInvariant, PTL

-----------------------------------------------------------------------------
(* The bound                                                                 *)

\* The check that lets a request through counts every recent grant, so there
\* are fewer of them than it counts.
LEMMA RecentFit ==
    ASSUME WindowInv, Remembered, NEW d \in 0 .. MaxLag
    PROVE  /\ IsFiniteSet(Recent)
           /\ Cardinality(Recent) <= Cardinality(Surviving(d))
           /\ Cardinality(Surviving(d)) \in Nat
<1> DEFINE of(g) == CHOOSE h \in hits : h.id = g.id /\ h.age <= g.since + MaxLag
           f == [g \in Recent |-> of(g)]
<1>1. IsFiniteSet(Surviving(d)) /\ Cardinality(Surviving(d)) \in Nat
  <2>1. Surviving(d) \subseteq hits /\ IsFiniteSet(hits)
    BY DEF Surviving, WindowInv, Named
  <2> QED
    BY <2>1, FS_Subset, FS_CardinalityType
<1>2. ASSUME NEW g \in Recent
      PROVE  of(g) \in hits /\ of(g).id = g.id /\ of(g).age <= g.since + MaxLag
  BY DEF Recent, Remembered
<1>3. ASSUME NEW g \in Recent
      PROVE  of(g) \in Surviving(d)
  <2>1. g.since \in Int /\ g.since < Window - MaxLag
    BY NumbersAssumption DEF Recent, WindowInv, TypeOK
  <2>2. of(g).age \in Int
    <3> HIDE DEF of
    <3> QED
      BY <1>2, NumbersAssumption DEF WindowInv, TypeOK, OldAge
  <2>3. of(g).age < Window + d
    <3> HIDE DEF of
    <3> QED
      BY <1>2, <2>1, <2>2, NumbersAssumption
  <2> HIDE DEF of
  <2> QED
    BY <1>2, <2>3 DEF Surviving
<1>4. ASSUME NEW x \in Recent, NEW y \in Recent, of(x) = of(y)
      PROVE  x = y
  <2>1. x.id = y.id
    <3> HIDE DEF of
    <3> QED
      BY <1>2, <1>4
  <2> QED
    BY <2>1 DEF Recent, WindowInv, Named
<1>5. f \in Injection(Recent, Surviving(d))
  <2> HIDE DEF of
  <2> QED
    BY <1>3, <1>4 DEF Injection, IsInjective
<1> QED
  <2> HIDE DEF f
  <2> QED
    BY <1>1, <1>5, FS_Injection

BoundInv == WindowInv /\ Remembered /\ LetThroughBound

\* As long as a bucket lives, at most Limit requests are let through in a window
\* less the delay of a pipeline, for every number of requests running at the
\* same time (RedisRateLimitStore.record, check).
THEOREM Bounded == Spec => []LetThroughBound
<1>1. Init => BoundInv
  <2>1. Init => granted = {}
    BY DEF Init
  <2> QED
    BY <2>1, InitWindow, FS_EmptySet, NumbersAssumption DEF BoundInv, LetThroughBound
<1>2. ASSUME BoundInv, [Next]_vars PROVE BoundInv'
  <2>1. WindowInv' /\ Remembered'
    BY <1>2, WindowStep DEF BoundInv
  <2>2. IsFiniteSet(Recent) /\ Cardinality(Recent) \in Nat /\ Cardinality(Recent) <= Limit
    <3>1. IsFiniteSet(granted) /\ Recent \subseteq granted
      BY <1>2 DEF BoundInv, WindowInv, Named, Recent
    <3> QED
      BY <1>2, <3>1, FS_Subset, FS_CardinalityType DEF BoundInv, LetThroughBound, Recent
  <2>3. ASSUME granted' = granted PROVE LetThroughBound'
    BY <1>2, <2>3 DEF BoundInv, LetThroughBound
  <2>4. ASSUME NEW r \in Requests, Record(r), granted' # granted
        PROVE  LetThroughBound'
    <3>1. PICK id \in Members :
             granted' = granted \cup {[id |-> id, since |-> 0]} /\ Allowed(lag[r])
      BY <2>4 DEF Record, Unused, LetThrough, Deny
    <3>2. lag[r] \in 0 .. MaxLag
      BY <1>2, <2>4 DEF BoundInv, WindowInv, TypeOK, Record, Recorded, Idle
    <3>3. Cardinality(Recent) + 1 <= Limit
      BY <1>2, <2>2, <3>1, <3>2, RecentFit, NumbersAssumption DEF BoundInv, Allowed, Count
    <3>4. Recent' \subseteq Recent \cup {[id |-> id, since |-> 0]}
      BY <3>1 DEF Recent
    <3>5. /\ IsFiniteSet(Recent \cup {[id |-> id, since |-> 0]})
          /\ Cardinality(Recent \cup {[id |-> id, since |-> 0]}) \in Nat
          /\ Cardinality(Recent \cup {[id |-> id, since |-> 0]}) <= Cardinality(Recent) + 1
      <4> DEFINE grant == [id |-> id, since |-> 0]
      <4> HIDE DEF grant
      <4>1. IsFiniteSet(Recent \cup {grant})
        BY <2>2, FS_AddElement
      <4>2. Cardinality(Recent \cup {grant}) =
              IF grant \in Recent THEN Cardinality(Recent) ELSE Cardinality(Recent) + 1
        BY <2>2, FS_AddElement
      <4>3. Cardinality(Recent \cup {grant}) \in Nat
            /\ Cardinality(Recent \cup {grant}) <= Cardinality(Recent) + 1
        BY <2>2, <4>2
      <4> QED
        BY <4>1, <4>3 DEF grant
    <3>6. Cardinality(Recent') \in Nat /\ Cardinality(Recent') <= Cardinality(Recent) + 1
      BY <2>2, <3>4, <3>5, FS_Subset, FS_CardinalityType
    <3> QED
      BY <2>2, <3>3, <3>6, NumbersAssumption DEF LetThroughBound, Recent
  <2>5. ASSUME Tick PROVE LetThroughBound'
    <3> DEFINE before(x) == CHOOSE g \in Recent : g.id = x.id
               f == [x \in Recent' |-> before(x)]
    <3>1. ASSUME NEW x \in Recent'
          PROVE  \E g \in Recent : g.id = x.id /\ x.since = g.since + 1
      <4>1. PICK g \in granted : x = [g EXCEPT !.since = @ + 1]
        BY <2>5 DEF Tick, Recent
      <4>2. g \in [id : Members, since : 0 .. Window - 1]
        BY <1>2 DEF BoundInv, WindowInv, TypeOK
      <4>3. x.id = g.id /\ x.since = g.since + 1 /\ g.since \in Int
        BY <4>1, <4>2, NumbersAssumption
      <4>4. x.since < Window - MaxLag
        BY DEF Recent
      <4> QED
        BY <4>3, <4>4, NumbersAssumption DEF Recent
    <3>2. ASSUME NEW x \in Recent'
          PROVE  before(x) \in Recent /\ before(x).id = x.id
      BY <3>1
    <3>3. ASSUME NEW x \in Recent', NEW y \in Recent', before(x) = before(y)
          PROVE  x = y
      <4>1. x.id = y.id
        <5> HIDE DEF before
        <5> QED
          BY <3>2, <3>3
      <4> QED
        BY <2>1, <4>1 DEF WindowInv, Named, Recent
    <3>4. f \in Injection(Recent', Recent)
      <4> HIDE DEF before
      <4> QED
        BY <3>2, <3>3 DEF Injection, IsInjective
    <3>5. IsFiniteSet(Recent') /\ Cardinality(Recent') <= Cardinality(Recent)
      <4> HIDE DEF f
      <4> QED
        BY <2>2, <3>4, FS_Injection
    <3>6. Cardinality(Recent') \in Nat
      BY <3>5, FS_CardinalityType
    <3> QED
      BY <2>2, <3>5, <3>6, NumbersAssumption DEF LetThroughBound, Recent
  <2>6. ASSUME Lose PROVE LetThroughBound'
    BY <2>6, FS_EmptySet, NumbersAssumption DEF Lose, LetThroughBound
  <2>7. granted' = granted \/ Tick \/ Lose \/ \E r \in Requests : Record(r)
    BY <1>2 DEF Next, Check, LoseReply, Fail, vars
  <2> QED
    BY <2>1, <2>3, <2>4, <2>5, <2>6, <2>7 DEF BoundInv
<1>3. BoundInv => LetThroughBound
  BY DEF BoundInv
<1> QED
  BY <1>1, <1>2, <1>3, PTL DEF Spec

-----------------------------------------------------------------------------
(* The wait a 429 asks for                                                   *)

\* The hits that will still be counted by a check at the end of the wait, short
\* of the delay of a pipeline and of the second that rounding may have added.
Outlasting == {h \in hits : h.age + wait < Window + MaxLag + Second}

Wanted == wait >= MaxLag + Second => Cardinality(Outlasting) > Limit

\* A denied check finds more than Limit hits, none older than the one it tells
\* the client to wait for.
LEMMA DenyWants ==
    ASSUME WindowInv, NEW r \in Requests, Record(r)
    PROVE  Wanted'
<1> DEFINE d == lag[r]
           ages == {h.age : h \in Surviving(d)} \cup {d}
           oldest == CHOOSE a \in ages : \A b \in ages : b <= a
<1>1. d \in 0 .. MaxLag
  BY DEF WindowInv, TypeOK, Record, Recorded, Idle
<1>2. PICK id \in Members \ ({h.id : h \in hits} \cup {g.id : g \in granted}) :
         /\ hits' = Surviving(d) \cup {[id |-> id, age |-> d]}
         /\ wait' = 0 \/ (~ Allowed(d) /\ wait' = RetryAfter(d))
  BY DEF Record, Recorded, Unused, LetThrough, Deny
<1>3. CASE wait' = 0
  BY <1>3, SecondAssumption, NumbersAssumption DEF Wanted
<1>4. CASE ~ Allowed(d) /\ wait' = RetryAfter(d)
  <2> DEFINE hit == [id |-> id, age |-> d]
  <2>1. ages \subseteq 0 .. OldAge /\ ages \subseteq Int /\ d \in ages
    BY <1>1, NumbersAssumption DEF WindowInv, TypeOK, Surviving, OldAge
  <2>2. \A a \in ages : a < Window + d
    BY <1>1, NumbersAssumption DEF WindowInv, TypeOK, Surviving, OldAge
  <2>3. oldest \in ages /\ \A b \in ages : b <= oldest
    <3>1. IsFiniteSet(ages)
      <4>1. IsFiniteSet(0 .. OldAge)
        BY FS_Interval, NumbersAssumption DEF OldAge
      <4> HIDE DEF ages
      <4> QED
        BY <4>1, <2>1, FS_Subset
    <3>2. \E a \in ages : \A b \in ages : b <= a
      <4> HIDE DEF ages
      <4> QED
        BY <2>1, <3>1, Greatest
    <3> HIDE DEF ages
    <3> QED
      BY <3>2
  <2>4. wait' = Older(Second, RoundedUp(Window + d - oldest))
    BY <1>4 DEF RetryAfter
  <2>5. \A a \in ages : a \in Int /\ a + wait' < Window + MaxLag + Second
    <3> HIDE DEF oldest, ages, d
    <3>1. /\ oldest \in Int /\ d <= oldest /\ oldest < Window + d
          /\ Window + d - oldest \in Int /\ Window + d - oldest <= Window
      BY <1>1, <2>1, <2>2, <2>3, NumbersAssumption
    <3>2. /\ RoundedUp(Window + d - oldest) \in Int
          /\ RoundedUp(Window + d - oldest) < Window + d - oldest + Second
      BY <3>1, RoundedUpBounds
    <3>3. wait' \in Int /\ wait' < Window + d - oldest + Second
      BY <1>1, <2>4, <3>1, <3>2, SecondAssumption, NumbersAssumption DEF Older
    <3>4. ASSUME NEW a \in ages PROVE a \in Int /\ a <= oldest
      BY <2>1, <2>3
    <3>5. d \in Int /\ d <= MaxLag /\ Window \in Int /\ MaxLag \in Int /\ Second \in Int
      BY <1>1, SecondAssumption, NumbersAssumption
    <3> QED
      BY <3>1, <3>3, <3>4, <3>5
  <2>6. \A h \in hits' : h.age \in ages
    BY <1>2
  <2>7. Outlasting' = hits'
    <3> HIDE DEF ages
    <3> QED
      BY <2>5, <2>6 DEF Outlasting
  <2>8. IsFiniteSet(Surviving(d)) /\ hit \notin Surviving(d)
    <3>1. hit \notin hits
      BY <1>2
    <3>2. IsFiniteSet(hits) /\ Surviving(d) \subseteq hits
      BY DEF Surviving, WindowInv, Named
    <3> QED
      BY <3>1, <3>2, FS_Subset
  <2>9. Cardinality(hits') = Count(d)
    <3> HIDE DEF hit
    <3>1. Cardinality(Surviving(d) \cup {hit}) = Cardinality(Surviving(d)) + 1
      BY <2>8, FS_AddElement
    <3> QED
      BY <3>1, <1>2 DEF Count, hit
  <2>10. Count(d) > Limit
    <3>1. Cardinality(Surviving(d)) \in Nat
      BY <2>8, FS_CardinalityType
    <3> QED
      BY <1>4, <3>1, NumbersAssumption DEF Allowed, Count
  <2> QED
    BY <2>7, <2>9, <2>10 DEF Wanted
<1> QED
  BY <1>2, <1>3, <1>4

\* A lost answer leaves the client its wait, and the hits it waits for are still
\* counted: the late pipeline purges none of them.
LEMMA LoseReplyWants ==
    ASSUME WindowInv, Wanted, NEW r \in Requests, LoseReply(r)
    PROVE  Wanted'
<1> SUFFICES ASSUME wait' >= MaxLag + Second PROVE Cardinality(Outlasting') > Limit
  BY DEF Wanted
<1>1. /\ lag[r] \in 0 .. MaxLag /\ wait' = wait /\ wait \in Int
      /\ Surviving(lag[r]) \subseteq hits'
  BY NumbersAssumption DEF LoseReply, Recorded, WindowInv, TypeOK, Idle
<1>2. Outlasting \subseteq Outlasting'
  <2> SUFFICES ASSUME NEW h \in hits, h.age + wait < Window + MaxLag + Second
               PROVE  h \in hits'
    BY <1>1 DEF Outlasting
  <2>1. h.age < Window + lag[r]
    BY <1>1, SecondAssumption, NumbersAssumption DEF WindowInv, TypeOK, OldAge
  <2> QED
    BY <1>1, <2>1 DEF Surviving
<1>3. IsFiniteSet(Outlasting') /\ Cardinality(Outlasting') \in Nat
  <2>1. WindowInv'
    BY LoseReplyKeeps
  <2>2. Outlasting' \subseteq hits' /\ IsFiniteSet(hits')
    BY <2>1 DEF Outlasting, WindowInv, Named
  <2> QED
    BY <2>2, FS_Subset, FS_CardinalityType
<1>4. Cardinality(Outlasting) <= Cardinality(Outlasting') /\ Cardinality(Outlasting) \in Nat
  BY <1>2, <1>3, FS_Subset, FS_CardinalityType
<1>5. Cardinality(Outlasting) > Limit
  BY <1>1 DEF Wanted
<1> QED
  BY <1>3, <1>4, <1>5, NumbersAssumption

\* A tick comes off the wait and is added to the ages; the bucket that
\* EXPIRE removes leaves nothing to wait for.
LEMMA TickWants ==
    ASSUME WindowInv, Wanted, Tick
    PROVE  Wanted'
<1> SUFFICES ASSUME wait' >= MaxLag + Second PROVE Cardinality(Outlasting') > Limit
  BY DEF Wanted
<1>1. wait \in Int /\ wait' = wait - 1 /\ wait > MaxLag + Second
  BY SecondAssumption, NumbersAssumption DEF Tick, WindowInv, TypeOK
<1>2. IsFiniteSet(Outlasting) /\ Cardinality(Outlasting) \in Nat
  <2>1. Outlasting \subseteq hits /\ IsFiniteSet(hits)
    BY DEF Outlasting, WindowInv, Named
  <2> QED
    BY <2>1, FS_Subset, FS_CardinalityType
<1>3. Cardinality(Outlasting) > Limit
  BY <1>1, SecondAssumption, NumbersAssumption DEF Wanted
<1>4. ttl # 1
  <2> SUFFICES ASSUME ttl = 1 PROVE FALSE
    OBVIOUS
  <2>1. Outlasting # {}
    BY <1>3, FS_EmptySet, NumbersAssumption
  <2>2. PICK h \in hits : h.age + wait < Window + MaxLag + Second
    BY <2>1 DEF Outlasting
  <2>3. h.age \in Int /\ h.age >= Window - 1
    BY <2>2, BackendAssumption, NumbersAssumption DEF WindowInv, Kept, TypeOK, OldAge
  <2> QED
    BY <1>1, <2>2, <2>3, SecondAssumption, NumbersAssumption
<1>5. hits' = {Aged(h) : h \in hits}
  BY <1>4 DEF Tick
<1>6. \A h \in hits : /\ h.age \in Int
                      /\ Aged(h).id = h.id
                      /\ Aged(h).age \in Int /\ Aged(h).age <= h.age + 1
  BY NumbersAssumption DEF WindowInv, TypeOK, Aged, OldAge
<1> DEFINE f == [h \in Outlasting |-> Aged(h)]
<1>7. \A h \in Outlasting : h \in hits /\ Aged(h) \in Outlasting'
  BY <1>1, <1>5, <1>6, SecondAssumption, NumbersAssumption DEF Outlasting
<1>8. \A x, y \in Outlasting : Aged(x) = Aged(y) => x = y
  BY <1>6, <1>7 DEF WindowInv, Named
<1>9. f \in Injection(Outlasting, Outlasting')
  BY <1>7, <1>8 DEF Injection, IsInjective
<1>10. IsFiniteSet(Outlasting') /\ Cardinality(Outlasting') \in Nat
  <2>1. WindowInv'
    BY TickKeeps
  <2>2. Outlasting' \subseteq hits' /\ IsFiniteSet(hits')
    BY <2>1 DEF Outlasting, WindowInv, Named
  <2> QED
    BY <2>2, FS_Subset, FS_CardinalityType
<1>11. Cardinality(Outlasting) <= Cardinality(Outlasting')
  <2> HIDE DEF f
  <2> QED
    BY <1>9, <1>10, FS_Injection
<1> QED
  BY <1>2, <1>3, <1>10, <1>11, NumbersAssumption

\* As long as a second, and the delay of a pipeline, is left of its wait, a denied
\* client would be denied again: rounding up to whole seconds is all the waiting
\* in vain that Retry-After asks for (check, RedisRateLimitStore.record).
THEOREM WaitsForAReason == Spec => []WaitIsNeeded
<1>1. Init => WindowInv /\ Wanted
  BY InitWindow, SecondAssumption, NumbersAssumption DEF Init, Wanted
<1>2. ASSUME WindowInv, Wanted, [Next]_vars PROVE WindowInv' /\ Wanted'
  <2>1. WindowInv'
    BY <1>2, WindowStep
  <2>2. ASSUME UNCHANGED <<hits, wait>> PROVE Wanted'
    BY <1>2, <2>2 DEF Wanted, Outlasting
  <2>3. ASSUME NEW r \in Requests, Record(r) PROVE Wanted'
    BY <1>2, <2>3, DenyWants
  <2>4. ASSUME NEW r \in Requests, LoseReply(r) PROVE Wanted'
    BY <1>2, <2>4, LoseReplyWants
  <2>5. ASSUME Tick PROVE Wanted'
    BY <1>2, <2>5, TickWants
  <2>6. ASSUME Lose PROVE Wanted'
    BY <2>6, SecondAssumption, NumbersAssumption DEF Lose, Wanted
  <2> QED
    BY <1>2, <2>1, <2>2, <2>3, <2>4, <2>5, <2>6 DEF Next, Check, Fail, vars
<1>3. ASSUME WindowInv, Wanted PROVE WaitIsNeeded
  <2> SUFFICES ASSUME wait >= MaxLag + Second PROVE ~ Allowed(0)
    BY DEF WaitIsNeeded
  <2>1. Outlasting \subseteq Surviving(0)
    BY <1>3, SecondAssumption, NumbersAssumption DEF Outlasting, Surviving, WindowInv, TypeOK, OldAge
  <2>2. IsFiniteSet(Surviving(0)) /\ Cardinality(Surviving(0)) \in Nat
    <3>1. Surviving(0) \subseteq hits /\ IsFiniteSet(hits)
      BY <1>3 DEF Surviving, WindowInv, Named
    <3> QED
      BY <3>1, FS_Subset, FS_CardinalityType
  <2>3. Cardinality(Outlasting) <= Cardinality(Surviving(0)) /\ Cardinality(Outlasting) \in Nat
    BY <2>1, <2>2, FS_Subset, FS_CardinalityType
  <2> QED
    BY <1>3, <2>2, <2>3, NumbersAssumption DEF Wanted, Allowed, Count
<1> QED
  BY <1>1, <1>2, <1>3, PTL DEF Spec
=============================================================================
