--------------------------- MODULE FiniteIntegers ---------------------------
(***************************************************************************)
(* Facts the proofs about row locks (OrdersProofs), about the oldest hit of a *)
(* window (RateLimitProofs) and about the first live reading of a deque       *)
(* (DequeWindowProofs) rest on.                                              *)
(***************************************************************************)
EXTENDS Integers, FiniteSetTheorems, TLAPS

\* A finite, non-empty set of integers has a greatest element.
LEMMA Greatest ==
    ASSUME NEW S, S \subseteq Int, IsFiniteSet(S), S # {}
    PROVE  \E top \in S : \A x \in S : x <= top
<1> DEFINE up(x) == {y \in S : x <= y}
           ups == {up(x) : x \in S}
<1>1. IsWellFoundedOn(StrictSubsetOrdering(S), SUBSET S)
  BY FS_StrictSubsetOrderingWellFounded, FS_FiniteSubsetsOfFinite
<1>2. PICK least \in ups :
         \A u \in ups : <<u, least>> \notin StrictSubsetOrdering(S)
  <2>1. ups \subseteq SUBSET S /\ ups # {}
    OBVIOUS
  <2> HIDE DEF ups
  <2> QED
    BY <2>1, <1>1, WFMin
<1>3. PICK top \in S : least = up(top)
  OBVIOUS
<1>4. ASSUME NEW x \in S, top < x
      PROVE  FALSE
  <2>1. up(x) \in SUBSET S /\ least \in SUBSET S
    BY <1>3
  <2>2. x \in Int /\ top \in Int /\ \A y \in S : y \in Int
    OBVIOUS
  <2>3. up(x) \subseteq up(top)
    <3> SUFFICES ASSUME NEW y \in S, x <= y PROVE top <= y
      OBVIOUS
    <3> QED
      BY <1>4, <2>2
  <2>4. top \in up(top) /\ top \notin up(x)
    BY <1>4, <2>2
  <2>5. <<up(x), least>> \in StrictSubsetOrdering(S)
    <3> HIDE DEF up
    <3> QED
      BY <1>3, <2>1, <2>3, <2>4 DEF StrictSubsetOrdering
  <2> QED
    BY <2>5, <1>2
<1> QED
  BY <1>4

\* And a least one.
LEMMA Least ==
    ASSUME NEW S, S \subseteq Int, IsFiniteSet(S), S # {}
    PROVE  \E low \in S : \A x \in S : low <= x
<1> DEFINE T == {-x : x \in S}
           f == [x \in S |-> -x]
<1>1. f \in Surjection(S, T)
  BY DEF Surjection
<1>2. IsFiniteSet(T)
  <2> HIDE DEF f, T
  <2> QED
    BY <1>1, FS_Surjection
<1>3. T \subseteq Int /\ T # {}
  OBVIOUS
<1>4. PICK top \in T : \A y \in T : y <= top
  <2> HIDE DEF T
  <2> QED
    BY <1>2, <1>3, Greatest
<1>5. PICK low \in S : top = -low
  OBVIOUS
<1>6. ASSUME NEW x \in S PROVE low <= x
  <2>1. -x <= top
    BY <1>4
  <2>2. x \in Int /\ low \in Int
    OBVIOUS
  <2> QED
    BY <1>5, <2>1, <2>2
<1> QED
  BY <1>6
=============================================================================
