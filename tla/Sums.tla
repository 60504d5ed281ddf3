-------------------------------- MODULE Sums --------------------------------
(***************************************************************************)
(* Induction over the naturals, and what the folds of the community modules   *)
(* compute on finite sets of any size: that they unfold, that a sum does not   *)
(* depend on the order it is taken in.  The proofs about totals                *)
(* (OrderBookProofs) rest on it.                                             *)
(***************************************************************************)
EXTENDS FiniteIntegers

\* Induction, for the set of numbers for which something holds.
LEMMA Upwards ==
    ASSUME NEW N \in SUBSET Nat, 0 \in N, \A n \in N : n + 1 \in N
    PROVE  N = Nat
<1> SUFFICES ASSUME NEW m \in Nat \ N PROVE FALSE
  OBVIOUS
<1> DEFINE gap == (0 .. m) \ N
<1>1. gap \subseteq Int /\ IsFiniteSet(gap) /\ gap # {}
  <2>1. IsFiniteSet(0 .. m)
    BY FS_Interval
  <2>2. gap \in SUBSET (0 .. m)
    OBVIOUS
  <2>3. IsFiniteSet(gap)
    BY <2>1, <2>2, FS_Subset
  <2> QED
    BY <2>3
<1>2. PICK low \in gap : \A x \in gap : low <= x
  <2> HIDE DEF gap
  <2> QED
    BY <1>1, Least
<1>3. low # 0 /\ low \in Nat
  OBVIOUS
<1>4. low - 1 \in Nat /\ low - 1 \in 0 .. m /\ low - 1 < low
  BY <1>3
<1>5. low - 1 \in N
  BY <1>2, <1>4
<1>6. (low - 1) + 1 = low
  BY <1>3
<1> QED
  BY <1>5, <1>6

\* choice picks an element of each subset, and step adds it to a value of D.
Folding(choice, step, base, S, D) ==
    /\ base \in D
    /\ \A s \in SUBSET S : s # {} => choice[s] \in s
    /\ \A x \in S, d \in D : step[<<x, d>>] \in D

\* i is the fold of each subset, one chosen element after the other.
IsFold(i, choice, step, base, S, D) ==
    /\ i \in [SUBSET S -> D]
    /\ \A s \in SUBSET S :
         i[s] = IF s = {} THEN base ELSE step[<<choice[s], i[s \ {choice[s]}]>>]

\* A fold over a finite set exists.
LEMMA SetRecursion ==
    ASSUME NEW S, IsFiniteSet(S), NEW D, NEW base, NEW choice, NEW step,
           Folding(choice, step, base, S, D)
    PROVE  \E i : IsFold(i, choice, step, base, S, D)
<1> USE DEF Folding
<1> DEFINE small(n) == {s \in SUBSET S : Cardinality(s) <= n}
           grown(i, s) == IF s = {} THEN base ELSE step[<<choice[s], i[s \ {choice[s]}]>>]
           good(n) == \E i \in [small(n) -> D] : \A s \in small(n) : i[s] = grown(i, s)
           N == {n \in Nat : good(n)}
<1>1. \A s \in SUBSET S : /\ IsFiniteSet(s) /\ Cardinality(s) \in Nat
                          /\ Cardinality(s) = 0 <=> s = {}
                          /\ Cardinality(s) <= Cardinality(S)
  BY FS_Subset, FS_CardinalityType, FS_EmptySet
<1>2. \A s \in SUBSET S : s # {} =>
        /\ choice[s] \in s
        /\ s \ {choice[s]} \in SUBSET S
        /\ Cardinality(s \ {choice[s]}) = Cardinality(s) - 1
  BY <1>1, FS_RemoveElement
<1>3. 0 \in N
  <2>1. small(0) = {{}}
    BY <1>1
  <2> DEFINE i == [s \in small(0) |-> base]
  <2>2. i \in [small(0) -> D] /\ \A s \in small(0) : i[s] = grown(i, s)
    BY <2>1
  <2>3. good(0)
    BY <2>2
  <2> QED
    BY <2>3
<1>4. ASSUME NEW n \in N PROVE n + 1 \in N
  <2>1. PICK i \in [small(n) -> D] : \A s \in small(n) : i[s] = grown(i, s)
    OBVIOUS
  <2> DEFINE j == [s \in small(n + 1) |-> IF s \in small(n) THEN i[s] ELSE grown(i, s)]
  <2>2. \A s \in small(n + 1) : s # {} => s \ {choice[s]} \in small(n)
    BY <1>1, <1>2
  <2>3. small(n) \subseteq small(n + 1)
    BY <1>1
  <2>4. ASSUME NEW s \in small(n + 1)
        PROVE  j[s] \in D /\ j[s] = grown(j, s)
    <3>1. grown(j, s) = grown(i, s)
      BY <2>2, <2>3
    <3>2. grown(i, s) \in D
      BY <2>2, <1>2
    <3> QED
      BY <2>1, <3>1, <3>2
  <2>5. j \in [small(n + 1) -> D]
    BY <2>4
  <2>6. good(n + 1)
    <3> HIDE DEF j, grown, small
    <3> QED
      BY <2>4, <2>5
  <2>7. n + 1 \in Nat
    OBVIOUS
  <2> HIDE DEF good
  <2> QED
    BY <2>6, <2>7
<1>5. N = Nat
  <2> HIDE DEF N
  <2>1. N \in SUBSET Nat
    BY DEF N
  <2> QED
    BY <2>1, <1>3, <1>4, Upwards
<1>6. good(Cardinality(S))
  BY <1>5, <1>1
<1>7. small(Cardinality(S)) = SUBSET S
  BY <1>1
<1>8. PICK i \in [small(Cardinality(S)) -> D] :
        \A s \in small(Cardinality(S)) : i[s] = grown(i, s)
  BY <1>6
<1> QED
  BY <1>7, <1>8 DEF IsFold

-----------------------------------------------------------------------------
(* Sums                                                                      *)

\* i gives each subset of S the sum of f over it, taken in the order of CHOOSE.
Sums(i, f, S) ==
    i = [s \in SUBSET S |-> IF s = {} THEN 0
                            ELSE LET x == CHOOSE x \in s : TRUE IN f[x] + i[s \ {x}]]

\* f has a number for each element of S.
Numbered(f, S) == \A x \in S : f[x] \in Int

LEMMA SumsExist ==
    ASSUME NEW S, IsFiniteSet(S), NEW f, Numbered(f, S)
    PROVE  \E i : i \in [SUBSET S -> Int] /\ Sums(i, f, S)
<1> DEFINE choice == [s \in SUBSET S |-> CHOOSE x \in s : TRUE]
           step == [xd \in S \X Int |-> f[xd[1]] + xd[2]]
<1>1. \A s \in SUBSET S : s # {} => choice[s] \in s
  OBVIOUS
<1>2. \A x \in S, d \in Int : step[<<x, d>>] = f[x] + d /\ step[<<x, d>>] \in Int
  BY DEF Numbered
<1>3. PICK i : IsFold(i, choice, step, 0, S, Int)
  <2> HIDE DEF choice, step
  <2>1. Folding(choice, step, 0, S, Int)
    BY <1>1, <1>2 DEF Folding
  <2> QED
    BY <2>1, SetRecursion
<1>4. ASSUME NEW s \in SUBSET S, s # {}
      PROVE  i[s] = f[CHOOSE x \in s : TRUE] + i[s \ {CHOOSE x \in s : TRUE}]
  <2> DEFINE c == CHOOSE x \in s : TRUE
  <2>1. c = choice[s] /\ c \in S /\ i[s \ {c}] \in Int
    BY <1>1, <1>3, <1>4 DEF IsFold
  <2>2. i[s] = step[<<c, i[s \ {c}]>>]
    BY <1>3, <1>4, <2>1 DEF IsFold
  <2> QED
    BY <1>2, <2>1, <2>2
<1>5. i[{}] = 0
  BY <1>3 DEF IsFold
<1>6. i = [s \in SUBSET S |-> i[s]] /\ i \in [SUBSET S -> Int]
  BY <1>3 DEF IsFold
<1>7. Sums(i, f, S)
  <2> DEFINE g == [s \in SUBSET S |->
                     IF s = {} THEN 0
                     ELSE LET x == CHOOSE x \in s : TRUE IN f[x] + i[s \ {x}]]
  <2>1. \A s \in SUBSET S : i[s] = g[s]
    BY <1>4, <1>5
  <2>2. i = g
    BY <1>6, <2>1
  <2> QED
    BY <2>2 DEF Sums
<1> QED
  BY <1>6, <1>7

\* Two such functions agree wherever f and g do.
LEMMA SumsAgree ==
    ASSUME NEW S, IsFiniteSet(S), NEW T, IsFiniteSet(T), NEW f, NEW g,
           NEW i, Sums(i, f, S), NEW j, Sums(j, g, T),
           NEW s \in SUBSET (S \cap T), \A x \in s : f[x] = g[x]
    PROVE  i[s] = j[s]
<1> DEFINE agree(n) == \A u \in SUBSET s : Cardinality(u) = n => i[u] = j[u]
           N == {n \in Nat : agree(n)}
<1>1. \A u \in SUBSET s : IsFiniteSet(u) /\ Cardinality(u) \in Nat
  BY FS_Subset, FS_CardinalityType
<1>2. ASSUME NEW u \in SUBSET s, u = {}
      PROVE  i[u] = j[u]
  BY <1>2 DEF Sums
<1>3. ASSUME NEW n \in N PROVE n + 1 \in N
  <2>1. ASSUME NEW u \in SUBSET s, Cardinality(u) = n + 1
        PROVE  i[u] = j[u]
    <3> DEFINE c == CHOOSE x \in u : TRUE
    <3>0. n \in Nat
      OBVIOUS
    <3> HIDE DEF N
    <3>1. u # {}
      BY <2>1, <3>0, FS_EmptySet
    <3>2. c \in u /\ u \ {c} \in SUBSET s
      BY <3>1
    <3> HIDE DEF c
    <3>3. Cardinality(u \ {c}) = n
      <4>1. Cardinality(u \ {c}) = Cardinality(u) - 1
        BY <1>1, <3>2, FS_RemoveElement
      <4> QED
        BY <4>1, <2>1, <3>0
    <3>4. i[u \ {c}] = j[u \ {c}] /\ f[c] = g[c]
      BY <3>2, <3>3 DEF N
    <3>5. i[u] = f[c] + i[u \ {c}] /\ j[u] = g[c] + j[u \ {c}]
      BY <3>1 DEF Sums, c
    <3> QED
      BY <3>4, <3>5
  <2>2. agree(n + 1) /\ n + 1 \in Nat
    BY <2>1
  <2> HIDE DEF agree
  <2> QED
    BY <2>2
<1>4. 0 \in N
  BY <1>1, <1>2, FS_EmptySet
<1>5. N = Nat
  <2> HIDE DEF N
  <2>1. N \in SUBSET Nat
    BY DEF N
  <2> QED
    BY <2>1, <1>3, <1>4, Upwards
<1>6. Cardinality(s) \in N
  BY <1>1, <1>5
<1> QED
  BY <1>6

\* i gives each subset its sum: SumFunctionOnSet of the module Functions.
SumsUp(i, f, S) ==
    /\ i \in [SUBSET S -> Int]
    /\ Sums(i, f, S)
    /\ \A s \in SUBSET S : SumFunctionOnSet(f, s) = i[s]

LEMMA SumIsSums ==
    ASSUME NEW S, IsFiniteSet(S), NEW f, Numbered(f, S)
    PROVE  \E i : SumsUp(i, f, S)
<1>1. PICK i : i \in [SUBSET S -> Int] /\ Sums(i, f, S)
  BY SumsExist
<1>2. ASSUME NEW s \in SUBSET S
      PROVE  SumFunctionOnSet(f, s) = i[s]
  <2> DEFINE j == CHOOSE j : Sums(j, f, s)
  <2>1. IsFiniteSet(s) /\ Numbered(f, s)
    BY FS_Subset DEF Numbered
  <2>2. \E h : Sums(h, f, s)
    BY <2>1, SumsExist
  <2>3. Sums(j, f, s)
    <3> HIDE DEF Sums
    <3> QED
      BY <2>2
  <2>4. SumFunctionOnSet(f, s) = j[s]
    BY DEF SumFunctionOnSet, FoldFunctionOnSet, MapThenFoldSet, Sums
  <2>5. s \in SUBSET (s \cap S)
    OBVIOUS
  <2> HIDE DEF j
  <2> QED
    BY <1>1, <2>1, <2>3, <2>4, <2>5, SumsAgree
<1> QED
  BY <1>1, <1>2 DEF SumsUp

LEMMA SumType ==
    ASSUME NEW S, IsFiniteSet(S), NEW f, Numbered(f, S)
    PROVE  SumFunctionOnSet(f, S) \in Int
<1>1. PICK i : SumsUp(i, f, S)
  BY SumIsSums
<1> QED
  BY <1>1 DEF SumsUp

LEMMA SumEmpty == ASSUME NEW f PROVE SumFunctionOnSet(f, {}) = 0
<1>1. IsFiniteSet({}) /\ Numbered(f, {}) /\ {} \in SUBSET {}
  BY FS_EmptySet DEF Numbered
<1>2. PICK i : SumsUp(i, f, {})
  BY <1>1, SumIsSums
<1> QED
  BY <1>1, <1>2 DEF SumsUp, Sums

\* Sums of functions that agree on the set are equal.
LEMMA SumAgrees ==
    ASSUME NEW S, IsFiniteSet(S), NEW f, NEW g, Numbered(f, S),
           \A x \in S : f[x] = g[x]
    PROVE  SumFunctionOnSet(f, S) = SumFunctionOnSet(g, S)
<1>1. S \in SUBSET S /\ S \in SUBSET (S \cap S) /\ Numbered(g, S)
  BY DEF Numbered
<1>2. PICK i : SumsUp(i, f, S)
  BY <1>1, SumIsSums
<1>3. PICK j : SumsUp(j, g, S)
  BY <1>1, SumIsSums
<1> QED
  BY <1>1, <1>2, <1>3, SumsAgree DEF SumsUp

\* Any element may be the one taken out.
LEMMA SumSplits ==
    ASSUME NEW S, IsFiniteSet(S), NEW f, Numbered(f, S), NEW a \in S
    PROVE  SumFunctionOnSet(f, S) = f[a] + SumFunctionOnSet(f, S \ {a})
<1>1. PICK i : SumsUp(i, f, S)
  BY SumIsSums
<1> DEFINE splits(n) == \A u \in SUBSET S : Cardinality(u) = n =>
                          \A x \in u : i[u] = f[x] + i[u \ {x}]
           N == {n \in Nat : splits(n)}
<1>2. \A u \in SUBSET S : IsFiniteSet(u) /\ Cardinality(u) \in Nat
  BY FS_Subset, FS_CardinalityType
<1>3. ASSUME NEW n \in N PROVE n + 1 \in N
  <2>1. ASSUME NEW u \in SUBSET S, Cardinality(u) = n + 1, NEW x \in u
        PROVE  i[u] = f[x] + i[u \ {x}]
    <3> DEFINE c == CHOOSE y \in u : TRUE
    <3>1. c \in u
      OBVIOUS
    <3>2. i[u] = f[c] + i[u \ {c}]
      BY <1>1, <3>1 DEF SumsUp, Sums
    <3> HIDE DEF c
    <3>3. CASE x = c
      BY <3>2, <3>3
    <3>4. CASE x # c
      <4>0. n \in Nat
        OBVIOUS
      <4> HIDE DEF N
      <4>1. Cardinality(u \ {c}) = n /\ Cardinality(u \ {x}) = n
        BY <1>2, <2>1, <3>1, <4>0, FS_RemoveElement
      <4> USE DEF N
      <4>2. x \in u \ {c} /\ c \in u \ {x}
        BY <3>1, <3>4
      <4> DEFINE rest == (u \ {c}) \ {x}
      <4>3. rest = (u \ {x}) \ {c} /\ rest \in SUBSET S
        OBVIOUS
      <4>4. i[u \ {c}] = f[x] + i[rest]
        BY <4>1, <4>2
      <4>5. i[u \ {x}] = f[c] + i[rest]
        BY <4>1, <4>2, <4>3
      <4> HIDE DEF rest
      <4>6. f[x] \in Int /\ f[c] \in Int /\ i[rest] \in Int
        BY <3>1, <4>3, <1>1 DEF SumsUp, Numbered
      <4> HIDE DEF N
      <4> QED
        BY <3>2, <4>4, <4>5, <4>6
    <3> QED
      BY <3>3, <3>4
  <2>2. splits(n + 1) /\ n + 1 \in Nat
    BY <2>1
  <2> HIDE DEF splits
  <2> QED
    BY <2>2
<1>4. 0 \in N
  BY <1>2, FS_EmptySet
<1>5. N = Nat
  <2> HIDE DEF N
  <2>1. N \in SUBSET Nat
    BY DEF N
  <2> QED
    BY <2>1, <1>3, <1>4, Upwards
<1>6. splits(Cardinality(S))
  BY <1>2, <1>5
<1> QED
  BY <1>1, <1>6 DEF SumsUp
=============================================================================
