--------------------------- MODULE Places_proofs ---------------------------
(***************************************************************************)
(* Least and greatest places, what concatenation and Picked make of the    *)
(* places of a sequence, and how many more members one set of places has   *)
(* than another.                                                           *)
(***************************************************************************)
EXTENDS Places, FiniteSetsExt, FiniteSetTheorems, SequenceTheorems, WellFoundedInduction, NaturalsInduction, TLAPS

-----------------------------------------------------------------------------
(* Least and greatest *)

LEMMA LeastPlace ==
  ASSUME NEW S \in SUBSET Nat, S # {}
  PROVE  \E k \in S : \A j \in S : k <= j
<1>1. \E k \in S : \A j \in S : ~(<<j, k>> \in OpToRel(<, Nat))
  BY NatLessThanWellFounded, WFMin, Zenon
<1>2. PICK k \in S : \A j \in S : ~(<<j, k>> \in OpToRel(<, Nat))
  BY <1>1
<1>3. ASSUME NEW j \in S PROVE k <= j
  <2>1. ~(j < k)
    BY <1>2, <1>3, Zenon DEF OpToRel
  <2> QED BY <2>1
<1> QED BY <1>3

LEMMA GreatestPlace ==
  ASSUME NEW m \in Nat, NEW S \in SUBSET (1..m), S # {}
  PROVE  \E k \in S : \A j \in S : j <= k
<1> DEFINE T == {m - k : k \in S}
<1>1. T \in SUBSET Nat /\ T # {}
  <2>1. \A k \in S : m - k \in Nat
    OBVIOUS
  <2> QED BY <2>1
<1>2. PICK t \in T : \A u \in T : t <= u
  <2> HIDE DEF T
  <2> QED BY <1>1, LeastPlace
<1>3. PICK k \in S : t = m - k
  OBVIOUS
<1>4. ASSUME NEW j \in S PROVE j <= k
  <2>1. m - k <= m - j
    BY <1>2, <1>3
  <2> QED BY <2>1
<1> QED BY <1>4

LEMMA MinMaxFacts ==
  ASSUME NEW m \in Nat, NEW S \in SUBSET (1..m), S # {}
  PROVE  Min(S) \in S /\ Max(S) \in S
<1>1. \E k \in S : \A j \in S : k <= j
  <2>1. S \in SUBSET Nat
    OBVIOUS
  <2> QED BY <2>1, LeastPlace
<1>2. \E k \in S : \A j \in S : k >= j
  <2>1. PICK k \in S : \A j \in S : j <= k
    BY GreatestPlace
  <2>2. \A j \in S : k >= j
    BY <2>1
  <2> QED BY <2>2
<1> QED BY <1>1, <1>2 DEF Min, Max

LEMMA MinOfOne ==
  ASSUME NEW k \in Nat
  PROVE  Min({k}) = k
BY DEF Min

LEMMA Extremes ==
  ASSUME NEW n \in Nat, NEW S \in SUBSET (1..n), S # {}
  PROVE  /\ Min(S) \in S /\ Max(S) \in S
         /\ \A x \in S : Min(S) <= x /\ x <= Max(S)
<1>1. \E k \in S : \A j \in S : k <= j
  <2>1. S \in SUBSET Nat
    OBVIOUS
  <2> QED BY <2>1, LeastPlace
<1>2. \E k \in S : \A j \in S : k >= j
  <2>1. PICK k \in S : \A j \in S : j <= k
    BY GreatestPlace
  <2>2. \A j \in S : k >= j
    BY <2>1
  <2> QED BY <2>2
<1>3. Min(S) \in S /\ \A x \in S : Min(S) <= x
  BY <1>1 DEF Min
<1>4. Max(S) \in S /\ \A x \in S : Max(S) >= x
  BY <1>2 DEF Max
<1>5. \A x \in S : x \in Nat
  OBVIOUS
<1> QED BY <1>3, <1>4, <1>5

-----------------------------------------------------------------------------
(* Concatenation *)

Joined(s, t) == [i \in 1..(Len(s) + Len(t)) |-> IF i <= Len(s) THEN s[i] ELSE t[i - Len(s)]]

LEMMA ConcatPlaces ==
  ASSUME NEW S, NEW s \in Seq(S), NEW t \in Seq(S)
  PROVE  s \o t = Joined(s, t)
<1> DEFINE u == s \o t
<1>1. /\ u \in Seq(S) /\ Len(u) = Len(s) + Len(t)
      /\ \A i \in 1..(Len(s) + Len(t)) : u[i] = IF i <= Len(s) THEN s[i] ELSE t[i - Len(s)]
  BY ConcatProperties
<1> HIDE DEF u
<1>2. u = [i \in 1..Len(u) |-> u[i]]
  BY <1>1
<1>3. u = [i \in 1..(Len(s) + Len(t)) |-> u[i]]
  BY <1>1, <1>2
<1>4. u = [i \in 1..(Len(s) + Len(t)) |-> IF i <= Len(s) THEN s[i] ELSE t[i - Len(s)]]
  BY <1>1, <1>3
<1> QED BY <1>4 DEF u, Joined

-----------------------------------------------------------------------------
(* Ranks *)

Rank(S, k) == Cardinality({j \in S : j <= k})

\* Counting the places of S up to k numbers S without gaps.
LEMMA RankOnto ==
  ASSUME NEW m \in Nat, NEW S \in SUBSET (1..m)
  PROVE  /\ IsFiniteSet(S)
         /\ Cardinality(S) \in Nat
         /\ \A k \in S : Rank(S, k) \in 1..Cardinality(S)
         /\ \A k, l \in S : k < l => Rank(S, k) < Rank(S, l)
         /\ \A n \in 1..Cardinality(S) : \E k \in S : Rank(S, k) = n
<1> DEFINE C == Cardinality(S)
           Upto(k) == {j \in S : j <= k}
           f == [k \in S |-> Rank(S, k)]
<1>0. \A k \in S : k \in Nat
  OBVIOUS
<1>1. IsFiniteSet(S) /\ C \in Nat
  <2>1. IsFiniteSet(1..m)
    BY FS_Interval
  <2>2. IsFiniteSet(S)
    BY <2>1, FS_Subset
  <2> QED BY <2>2, FS_CardinalityType
<1>2. ASSUME NEW k \in S
      PROVE  /\ IsFiniteSet(Upto(k)) /\ Rank(S, k) \in Nat
             /\ Rank(S, k) <= C /\ Rank(S, k) # 0
  <2>1. Upto(k) \in SUBSET S /\ k \in Upto(k)
    OBVIOUS
  <2>2. IsFiniteSet(Upto(k)) /\ Cardinality(Upto(k)) <= C
    BY <2>1, <1>1, FS_Subset
  <2>3. Cardinality(Upto(k)) \in Nat
    BY <2>2, FS_CardinalityType
  <2>4. Cardinality(Upto(k)) # 0
    <3> HIDE DEF Upto
    <3> QED BY <2>1, <2>2, FS_EmptySet
  <2> QED BY <2>2, <2>3, <2>4 DEF Rank
<1>3. ASSUME NEW k \in S, NEW l \in S, k < l
      PROVE  Rank(S, k) < Rank(S, l)
  <2>0. k \in Nat /\ l \in Nat /\ ~(l <= k)
    BY <1>0, <1>3
  <2>1. Upto(k) \in SUBSET Upto(l) /\ l \in Upto(l) /\ l \notin Upto(k)
    <3>1. ASSUME NEW j \in S, j <= k
          PROVE  j <= l
      BY <1>0, <1>3, <3>1, <2>0
    <3>2. l \in Upto(l) /\ l \notin Upto(k)
      BY <2>0
    <3> QED BY <3>1, <3>2
  <2>2. /\ Cardinality(Upto(k)) <= Cardinality(Upto(l))
        /\ Cardinality(Upto(l)) = Cardinality(Upto(k)) => Upto(l) = Upto(k)
    <3>1. IsFiniteSet(Upto(l))
      BY <1>2
    <3> HIDE DEF Upto
    <3> QED BY <2>1, <3>1, FS_Subset
  <2>3. Cardinality(Upto(k)) # Cardinality(Upto(l))
    BY <2>1, <2>2
  <2>4. Rank(S, k) = Cardinality(Upto(k)) /\ Rank(S, l) = Cardinality(Upto(l))
    BY DEF Rank
  <2> QED BY <2>2, <2>3, <2>4, <1>2
<1>4. f \in Injection(S, 1..C)
  <2>1. f \in [S -> 1..C]
    <3> SUFFICES ASSUME NEW k \in S PROVE Rank(S, k) \in 1..C
      OBVIOUS
    <3> HIDE DEF C, Upto, f
    <3> QED BY <1>1, <1>2
  <2>2. ASSUME NEW k \in S, NEW l \in S, f[k] = f[l]
        PROVE  k = l
    <3>1. Rank(S, k) = Rank(S, l)
      BY <2>2
    <3>2. k \in Nat /\ l \in Nat /\ Rank(S, k) \in Nat
      <4> HIDE DEF C, Upto, f
      <4> QED BY <1>0, <1>2
    <3>3. ~(k < l) /\ ~(l < k)
      BY <1>3, <3>1, <3>2
    <3> QED BY <3>2, <3>3
  <2> HIDE DEF f
  <2> QED BY <2>1, <2>2 DEF Injection, IsInjective
<1>5. f \in Surjection(S, 1..C)
  <2>1. IsFiniteSet(1..C) /\ Cardinality(1..C) = C
    BY <1>1, FS_Interval
  <2> HIDE DEF f, C
  <2> QED BY <1>4, <2>1, FS_Injection DEF C
<1>6. \A n \in 1..C : \E k \in S : f[k] = n
  <2> HIDE DEF f
  <2> QED BY <1>5 DEF Surjection
<1>7. \A k \in S : Rank(S, k) \in 1..C
  <2> HIDE DEF C, Upto, f
  <2> QED BY <1>1, <1>2
<1> QED BY <1>1, <1>3, <1>6, <1>7

\* A set of places that is not empty has a first one.
LEMMA FirstPlace ==
  ASSUME NEW m \in Nat, NEW S \in SUBSET (1..m), S # {}
  PROVE  \E k \in S : \A j \in S : k <= j
<1>1. PICK l \in S : TRUE
  OBVIOUS
<1>2. /\ Cardinality(S) \in Nat
      /\ \A k \in S : Rank(S, k) \in 1..Cardinality(S)
      /\ \A k, j \in S : k < j => Rank(S, k) < Rank(S, j)
      /\ \A n \in 1..Cardinality(S) : \E k \in S : Rank(S, k) = n
  BY RankOnto
<1>3. 1 \in 1..Cardinality(S)
  BY <1>1, <1>2
<1>4. PICK k \in S : Rank(S, k) = 1
  BY <1>2, <1>3
<1>5. ASSUME NEW j \in S
      PROVE  k <= j
  <2>1. ~(j < k)
    BY <1>2, <1>4
  <2> QED BY <2>1
<1> QED BY <1>5

-----------------------------------------------------------------------------
(* What Picked keeps *)

\* p holds the entries of q at the places in S, each once and in their
\* order; f names them.
Picks(f, p, q, S) ==
  /\ f \in [DOMAIN p -> S]
  /\ \A n \in DOMAIN p : p[n] = q[f[n]]
  /\ \A n, l \in DOMAIN p : f[n] = f[l] => n = l
  /\ \A n, l \in DOMAIN p : n < l => f[n] < f[l]
  /\ \A k \in S : \E n \in DOMAIN p : f[n] = k

LEMMA PickedFacts ==
  ASSUME NEW m \in Nat, NEW q, NEW S \in SUBSET (1..m), NEW T,
         \A k \in S : q[k] \in T
  PROVE  Picked(q, S) \in Seq(T) /\ \E f : Picks(f, Picked(q, S), q, S)
<1> DEFINE C == Cardinality(S)
           f == [n \in 1..C |-> CHOOSE k \in S : Rank(S, k) = n]
           p == Picked(q, S)
<1>1. /\ C \in Nat
      /\ \A k \in S : Rank(S, k) \in 1..C
      /\ \A k, l \in S : k < l => Rank(S, k) < Rank(S, l)
      /\ \A n \in 1..C : \E k \in S : Rank(S, k) = n
  BY RankOnto
<1>2. p = [n \in 1..C |-> q[CHOOSE k \in S : Rank(S, k) = n]]
  BY DEF Picked, Rank
<1>3. \A n \in 1..C : f[n] \in S /\ Rank(S, f[n]) = n
  <2> HIDE DEF C
  <2> QED BY <1>1
<1>4. DOMAIN p = 1..C /\ \A n \in 1..C : p[n] = q[f[n]]
  <2> HIDE DEF C, p
  <2> QED BY <1>2
<1>5. p \in Seq(T)
  <2>1. p \in [1..C -> T]
    <3>1. \A n \in 1..C : p[n] \in T
      <4> HIDE DEF C, p, f
      <4> QED BY <1>3, <1>4
    <3> HIDE DEF C
    <3> QED BY <1>2, <3>1
  <2> HIDE DEF C, p
  <2> QED BY <1>1, <2>1, SeqDef
<1>6. f \in [DOMAIN p -> S]
  <2> HIDE DEF C, p
  <2> QED BY <1>3, <1>4
<1>7. \A n, l \in DOMAIN p : f[n] = f[l] => n = l
  <2> HIDE DEF C, p, f
  <2> QED BY <1>3, <1>4
<1>8. ASSUME NEW k \in S
      PROVE  \E n \in DOMAIN p : f[n] = k
  <2>1. Rank(S, k) \in 1..C
    <3> HIDE DEF C
    <3> QED BY <1>1
  <2>2. f[Rank(S, k)] \in S /\ Rank(S, f[Rank(S, k)]) = Rank(S, k)
    <3> HIDE DEF C, f
    <3> QED BY <1>3, <2>1
  <2>3. f[Rank(S, k)] = k
    <3> DEFINE l == f[Rank(S, k)]
    <3>1. l \in S /\ Rank(S, l) = Rank(S, k)
      BY <2>2
    <3>2. l \in Nat /\ k \in Nat /\ Rank(S, k) \in Nat
      <4> HIDE DEF C, f, l
      <4> QED BY <2>1, <3>1, <1>1
    <3>3. ~(l < k) /\ ~(k < l)
      <4> HIDE DEF C, f, l
      <4> QED BY <1>1, <3>1, <3>2
    <3> HIDE DEF C, f, l
    <3>4. l = k
      BY <3>2, <3>3
    <3> QED BY <3>4 DEF l
  <2>4. Rank(S, k) \in DOMAIN p
    <3> HIDE DEF C, p
    <3> QED BY <2>1, <1>4
  <2> HIDE DEF C, p, f
  <2> QED BY <2>3, <2>4
<1>9. \A n \in DOMAIN p : p[n] = q[f[n]]
  <2> HIDE DEF C, p, f
  <2> QED BY <1>4
<1>10. \A n, l \in DOMAIN p : n < l => f[n] < f[l]
  <2>1. SUFFICES ASSUME NEW n \in DOMAIN p, NEW l \in DOMAIN p, n < l PROVE f[n] < f[l]
    OBVIOUS
  <2> DEFINE i == f[n]
             k == f[l]
  <2>2. n \in Nat /\ l \in Nat /\ i \in S /\ k \in S /\ Rank(S, i) = n /\ Rank(S, k) = l
    <3> HIDE DEF C, p, f
    <3> QED BY <1>1, <1>3, <1>4
  <2> HIDE DEF C, p, f, i, k
  <2>3. i \in Nat /\ k \in Nat
    BY <2>2
  <2>4. ~(k < i) /\ ~(k = i)
    BY <1>1, <2>1, <2>2
  <2>5. i < k
    BY <2>3, <2>4
  <2> QED BY <2>5 DEF i, k
<1>11. Picks(f, p, q, S)
  <2> HIDE DEF f, p
  <2> QED BY <1>6, <1>7, <1>8, <1>9, <1>10 DEF Picks
<1> HIDE DEF f
<1> QED BY <1>5, <1>11

-----------------------------------------------------------------------------
(* How many more of one set than of another *)

LEMMA InjectionBound ==
  ASSUME NEW S, NEW D, IsFiniteSet(D), NEW g, \A x \in S : g[x] \in D, \A x, y \in S : g[x] = g[y] => x = y
  PROVE  Cardinality(S) <= Cardinality(D)
<1> DEFINE h == [x \in S |-> g[x]]
<1>1. h \in Injection(S, D)
  BY DEF Injection, IsInjective
<1> HIDE DEF h
<1> QED BY <1>1, FS_Injection

\* How many more of O than of C are from a to b.
Excess(O, C, a, b) == Cardinality({i \in a..b : i \in O}) - Cardinality({i \in a..b : i \in C})

LEMMA ExcessAdds ==
  ASSUME NEW n \in Nat, NEW O \in SUBSET (1..n), NEW C \in SUBSET (1..n),
         NEW a \in 1..n, NEW b \in a..n, NEW c \in b..n
  PROVE  /\ Excess(O, C, a, c) \in Int /\ Excess(O, C, a, b) \in Int /\ Excess(O, C, b + 1, c) \in Int
         /\ Excess(O, C, a, c) = Excess(O, C, a, b) + Excess(O, C, b + 1, c)
<1> DEFINE On(S, x, y) == {i \in x..y : i \in S}
<1>1. \A S, x, y : S \in SUBSET (1..n) => IsFiniteSet(On(S, x, y)) /\ Cardinality(On(S, x, y)) \in Nat
  <2>1. SUFFICES ASSUME NEW S \in SUBSET (1..n), NEW x, NEW y
                 PROVE IsFiniteSet(On(S, x, y)) /\ Cardinality(On(S, x, y)) \in Nat
    OBVIOUS
  <2>2. IsFiniteSet(1..n)
    BY FS_Interval
  <2>3. On(S, x, y) \in SUBSET (1..n)
    OBVIOUS
  <2> HIDE DEF On
  <2>4. IsFiniteSet(On(S, x, y))
    BY <2>2, <2>3, FS_Subset
  <2> QED BY <2>4, FS_CardinalityType
<1>2. ASSUME NEW S \in SUBSET (1..n)
      PROVE  Cardinality(On(S, a, c)) = Cardinality(On(S, a, b)) + Cardinality(On(S, b + 1, c))
  <2>1. a \in Nat /\ b \in Nat /\ c \in Nat /\ a <= b /\ b <= c
    OBVIOUS
  <2>2. On(S, a, c) = On(S, a, b) \cup On(S, b + 1, c)
    <3>1. \A i \in a..c : i \in a..b \/ i \in (b + 1)..c
      BY <2>1
    <3>2. (\A i \in a..b : i \in a..c) /\ (\A i \in (b + 1)..c : i \in a..c)
      BY <2>1
    <3> QED BY <3>1, <3>2
  <2>3. On(S, a, b) \cap On(S, b + 1, c) = {}
    <3>1. \A i \in a..b : i \notin (b + 1)..c
      BY <2>1
    <3> QED BY <3>1
  <2> DEFINE X == On(S, a, b)
             Y == On(S, b + 1, c)
  <2>4. IsFiniteSet(X) /\ IsFiniteSet(Y) /\ Cardinality(X) \in Nat /\ Cardinality(Y) \in Nat
    <3> HIDE DEF On
    <3> QED BY <1>1
  <2>5. Cardinality(X \cup Y) = Cardinality(X) + Cardinality(Y) - Cardinality(X \cap Y)
    <3> HIDE DEF X, Y
    <3> QED BY <2>4, FS_Union
  <2>6. Cardinality(X \cap Y) = 0
    <3>1. X \cap Y = {}
      BY <2>3
    <3> QED BY <3>1, FS_EmptySet
  <2>7. On(S, a, c) = X \cup Y
    BY <2>2
  <2> HIDE DEF X, Y, On
  <2>8. Cardinality(On(S, a, c)) = Cardinality(X) + Cardinality(Y)
    BY <2>4, <2>5, <2>6, <2>7
  <2> QED BY <2>8 DEF X, Y
<1>3. \A x, y : Excess(O, C, x, y) = Cardinality(On(O, x, y)) - Cardinality(On(C, x, y))
  BY DEF Excess
<1> HIDE DEF On
<1>4. \A x, y : Cardinality(On(O, x, y)) \in Nat /\ Cardinality(On(C, x, y)) \in Nat
  BY <1>1
<1>5. \A x, y : Excess(O, C, x, y) \in Int
  BY <1>3, <1>4
<1>6. /\ Cardinality(On(O, a, c)) = Cardinality(On(O, a, b)) + Cardinality(On(O, b + 1, c))
      /\ Cardinality(On(C, a, c)) = Cardinality(On(C, a, b)) + Cardinality(On(C, b + 1, c))
  BY <1>2
<1>7. Excess(O, C, a, c) = Excess(O, C, a, b) + Excess(O, C, b + 1, c)
  <2> DEFINE d == b + 1
  <2>1. /\ Excess(O, C, a, c) = Cardinality(On(O, a, c)) - Cardinality(On(C, a, c))
        /\ Excess(O, C, a, b) = Cardinality(On(O, a, b)) - Cardinality(On(C, a, b))
        /\ Excess(O, C, d, c) = Cardinality(On(O, d, c)) - Cardinality(On(C, d, c))
    BY <1>3
  <2>2. /\ Cardinality(On(O, a, c)) = Cardinality(On(O, a, b)) + Cardinality(On(O, d, c))
        /\ Cardinality(On(C, a, c)) = Cardinality(On(C, a, b)) + Cardinality(On(C, d, c))
    BY <1>6
  <2>3. /\ Cardinality(On(O, a, b)) \in Nat /\ Cardinality(On(O, d, c)) \in Nat
        /\ Cardinality(On(C, a, b)) \in Nat /\ Cardinality(On(C, d, c)) \in Nat
    BY <1>4
  <2> HIDE DEF d
  <2>4. Excess(O, C, a, c) = Excess(O, C, a, b) + Excess(O, C, d, c)
    BY <2>1, <2>2, <2>3
  <2> QED BY <2>4 DEF d
<1> QED BY <1>5, <1>7

=============================================================================
