---------------------------- MODULE Queues_proofs ----------------------------
(***************************************************************************)
(* What sorting a set of numbers and filtering a queue yield.  Both rest   *)
(* on the pigeonhole principle: ranks within a finite set are all          *)
(* different, so every rank below its cardinality is taken.                *)
(***************************************************************************)
EXTENDS Queues, SequenceTheorems, FunctionTheorems, FiniteSetTheorems, TLAPS

(* A smaller element of a finite set has a smaller rank. *)
LEMMA RankMonotone ==
  ASSUME NEW S \in SUBSET Int, IsFiniteSet(S), NEW x \in S, NEW y \in S, x < y
  PROVE  NumBelow(x, S) < NumBelow(y, S)
  <1>. DEFINE X == {z \in S : z < x}
              Y == {z \in S : z < y}
  <1>. S \subseteq Int /\ x \in Int /\ y \in Int
    OBVIOUS
  <1>1. Y \in SUBSET S /\ X \in SUBSET Y
    <2>1. ASSUME NEW z \in S, z < x
          PROVE  z < y
      BY <2>1
    <2>. QED  BY <2>1
  <1>2. x \in Y /\ x \notin X
    OBVIOUS
  <1>3. IsFiniteSet(Y)
    BY <1>1, FS_Subset
  <1>4. /\ Cardinality(X) <= Cardinality(Y)
        /\ Cardinality(Y) = Cardinality(X) => Y = X
        /\ IsFiniteSet(X)
    BY <1>1, <1>3, FS_Subset
  <1>5. Cardinality(X) \in Nat /\ Cardinality(Y) \in Nat
    BY <1>3, <1>4, FS_CardinalityType
  <1>6. Cardinality(X) # Cardinality(Y)
    BY <1>2, <1>4
  <1>. QED  BY <1>4, <1>5, <1>6 DEF NumBelow

(* The ranks of a finite set's elements lie below its cardinality. *)
LEMMA RankBound ==
  ASSUME NEW S \in SUBSET Int, IsFiniteSet(S), NEW x \in S
  PROVE  NumBelow(x, S) \in 0..(Cardinality(S) - 1)
  <1>. DEFINE X == {z \in S : z < x}
  <1>1. X \in SUBSET S /\ x \notin X
    OBVIOUS
  <1>2. /\ IsFiniteSet(X)
        /\ Cardinality(X) <= Cardinality(S)
        /\ Cardinality(S) = Cardinality(X) => S = X
    BY <1>1, FS_Subset
  <1>3. Cardinality(X) \in Nat /\ Cardinality(S) \in Nat
    BY <1>2, FS_CardinalityType
  <1>4. Cardinality(X) # Cardinality(S)
    BY <1>1, <1>2
  <1>. QED  BY <1>2, <1>3, <1>4 DEF NumBelow

(* Every rank below the cardinality of a finite set is some element's. *)
LEMMA RankTaken ==
  ASSUME NEW S \in SUBSET Int, IsFiniteSet(S), NEW i \in 1..Cardinality(S)
  PROVE  \E x \in S : NumBelow(x, S) = i - 1
  <1>. DEFINE n == Cardinality(S)
              T == 0..(n - 1)
              f == [x \in S |-> NumBelow(x, S)]
  <1>1. n \in Nat
    BY FS_CardinalityType
  <1>. HIDE DEF n
  <1>2. IsFiniteSet(T) /\ Cardinality(T) = n
    <2>1. 0 \in Int /\ n - 1 \in Int
      BY <1>1
    <2>2. /\ IsFiniteSet(T)
          /\ Cardinality(T) = IF 0 > n - 1 THEN 0 ELSE n - 1 - 0 + 1
      BY <2>1, FS_Interval
    <2>. QED  BY <1>1, <2>2
  <1>3. f \in [S -> T]
    BY RankBound DEF n
  <1>4. ASSUME NEW x \in S, NEW y \in S, f[x] = f[y]
        PROVE  x = y
    <2>1. NumBelow(x, S) = NumBelow(y, S) /\ NumBelow(x, S) \in Int
      BY <1>4, RankBound
    <2>2. ~(x < y)
      BY <2>1, RankMonotone
    <2>3. ~(y < x)
      BY <2>1, RankMonotone
    <2>. QED  BY <2>2, <2>3
  <1>. HIDE DEF f, T
  <1>5. f \in Injection(S, T)
    <2>1. \A x, y \in S : f[x] = f[y] => x = y
      BY <1>4
    <2>. QED  BY <1>3, <2>1, Fun_IsInj
  <1>6. f \in Surjection(S, T)
    BY <1>2, <1>5, FS_Injection DEF n
  <1>7. i - 1 \in T
    BY <1>1 DEF n, T
  <1>8. \A t \in T : \E x \in S : f[x] = t
    BY <1>6, Zenon, Fun_SurjectionProperties
  <1>9. PICK x \in S : f[x] = i - 1
    BY <1>7, <1>8
  <1>. QED  BY <1>9 DEF f

(* A finite set of numbers has a least element, the one of rank 0. *)
LEMMA LeastElement ==
  ASSUME NEW S \in SUBSET Int, IsFiniteSet(S), S # {}
  PROVE  \E x \in S : \A y \in S : x <= y
  <1>1. 1 \in 1..Cardinality(S)
    <2>1. Cardinality(S) \in Nat /\ Cardinality(S) # 0
      BY FS_CardinalityType, FS_EmptySet
    <2>. QED  BY <2>1
  <1>2. PICK x \in S : NumBelow(x, S) = 0
    <2>1. \E x \in S : NumBelow(x, S) = 1 - 1
      BY <1>1, RankTaken
    <2>. QED  BY <2>1
  <1>3. {y \in S : y < x} = {}
    <2>1. IsFiniteSet({y \in S : y < x})
      BY FS_Subset
    <2>. QED  BY <1>2, <2>1, FS_EmptySet DEF NumBelow
  <1>. QED  BY <1>3

(* A nonempty set of numbers that is bounded has a greatest element. *)
LEMMA GreatestElement ==
  ASSUME NEW n \in Nat, NEW S \in SUBSET (0..n), S # {}
  PROVE  \E x \in S : \A y \in S : x >= y
  <1>. DEFINE T == {m \in 0..n : n - m \in S}
  <1>1. T \in SUBSET (0..n) /\ T \in SUBSET Int
    OBVIOUS
  <1>2. IsFiniteSet(0..n)
    BY FS_Interval
  <1>3. IsFiniteSet(T)
    BY <1>1, <1>2, FS_Subset
  <1>4. \A y \in S : n - y \in T /\ y \in Int
    OBVIOUS
  <1>5. T # {}
    BY <1>4
  <1>. HIDE DEF T
  <1>6. PICK t \in T : \A u \in T : t <= u
    BY <1>1, <1>3, <1>5, LeastElement
  <1>7. n - t \in S /\ t \in Int
    BY <1>1 DEF T
  <1>8. \A y \in S : n - t >= y
    BY <1>4, <1>6, <1>7
  <1>. QED  BY <1>7, <1>8

(* Ascending lists each element of a finite set of numbers once. *)
LEMMA AscendingLists ==
  ASSUME NEW S \in SUBSET Int, IsFiniteSet(S)
  PROVE  /\ Ascending(S) \in Seq(S)
         /\ DOMAIN Ascending(S) = 1..Cardinality(S)
         /\ \A x \in S : \E i \in DOMAIN Ascending(S) : Ascending(S)[i] = x
         /\ IsInjective(Ascending(S))
  <1>. DEFINE n == Cardinality(S)
              s == Ascending(S)
  <1>1. n \in Nat
    BY FS_CardinalityType
  <1>2. DOMAIN s = 1..n
    BY DEF Ascending
  <1>3. ASSUME NEW i \in 1..n
        PROVE  s[i] \in S /\ NumBelow(s[i], S) = i - 1
    <2>1. s[i] = CHOOSE x \in S : NumBelow(x, S) = i - 1
      BY <1>3 DEF Ascending
    <2>. QED  BY <2>1, RankTaken
  <1>4. s \in Seq(S)
    <2>1. s \in [1..n -> S]
      BY <1>3 DEF Ascending
    <2>. QED  BY <1>1, <2>1, SeqDef
  <1>5. ASSUME NEW x \in S
        PROVE  \E i \in DOMAIN s : s[i] = x
    <2>. DEFINE i == NumBelow(x, S) + 1
    <2>1. i \in 1..n /\ i - 1 = NumBelow(x, S) /\ NumBelow(x, S) \in Int
      BY <1>1, RankBound
    <2>2. PICK y \in S : y = s[i] /\ NumBelow(y, S) = NumBelow(x, S)
      BY <1>3, <2>1
    <2>3. ~(y < x)
      BY <2>1, <2>2, RankMonotone
    <2>4. ~(x < y)
      BY <2>1, <2>2, RankMonotone
    <2>5. y = x
      BY <2>3, <2>4
    <2>. QED  BY <1>2, <2>1, <2>2, <2>5
  <1>6. IsInjective(s)
    BY <1>2, <1>3 DEF IsInjective
  <1>. QED  BY <1>2, <1>4, <1>5, <1>6

(* Without keeps the elements that are not in S, each as often as before,   *)
(* in particular at most once where that was so.                           *)
LEMMA WithoutRemoves ==
  ASSUME NEW T, NEW q \in Seq(T), NEW S
  PROVE  /\ Without(q, S) \in Seq(T)
         /\ \A k \in DOMAIN Without(q, S) :
              /\ Without(q, S)[k] \notin S
              /\ \E i \in DOMAIN q : q[i] = Without(q, S)[k]
         /\ \A i \in DOMAIN q : q[i] \notin S =>
              \E k \in DOMAIN Without(q, S) : Without(q, S)[k] = q[i]
         /\ IsInjective(q) => IsInjective(Without(q, S))
  <1>. DEFINE K == {i \in DOMAIN q : q[i] \notin S}
              keep == Ascending(K)
              w == Without(q, S)
  <1>1. Len(q) \in Nat /\ DOMAIN q = 1..Len(q) /\ \A i \in DOMAIN q : q[i] \in T
    BY LenProperties, ElementOfSeq
  <1>2. K \in SUBSET Int /\ K \in SUBSET (1..Len(q))
    BY <1>1
  <1>3. IsFiniteSet(K)
    <2>1. IsFiniteSet(1..Len(q))
      BY <1>1, FS_Interval
    <2>. QED  BY <1>2, <2>1, FS_Subset
  <1>4. /\ keep \in Seq(K)
        /\ DOMAIN keep = 1..Cardinality(K)
        /\ \A x \in K : \E i \in DOMAIN keep : keep[i] = x
        /\ IsInjective(keep)
    BY <1>2, <1>3, AscendingLists
  <1>5. Cardinality(K) \in Nat
    BY <1>3, FS_CardinalityType
  <1>6. \A k \in DOMAIN keep : keep[k] \in K
    <2>1. keep \in [1..Len(keep) -> K]
      BY <1>4, LenProperties
    <2>. QED  BY <2>1
  <1>7. w = [k \in DOMAIN keep |-> q[keep[k]]]
    BY DEF Without, AtPositions
  <1>. HIDE DEF w, keep
  <1>8. DOMAIN w = 1..Cardinality(K) /\ \A k \in DOMAIN keep : w[k] = q[keep[k]]
    BY <1>4, <1>7
  <1>9. w \in Seq(T)
    <2>1. PICK n \in Nat : n = Cardinality(K)
      BY <1>5
    <2>2. w \in [1..n -> T]
      BY <1>1, <1>4, <1>6, <1>7, <2>1
    <2>. HIDE DEF K
    <2>. QED  BY <2>2, SeqDef
  <1>10. \A k \in DOMAIN w : w[k] \notin S /\ \E i \in DOMAIN q : q[i] = w[k]
    BY <1>4, <1>6, <1>8
  <1>11. \A i \in DOMAIN q : q[i] \notin S => \E k \in DOMAIN w : w[k] = q[i]
    BY <1>4, <1>8
  <1>12. IsInjective(q) => IsInjective(w)
    BY <1>4, <1>6, <1>8 DEF IsInjective
  <1>. QED  BY <1>9, <1>10, <1>11, <1>12 DEF w

(* An initial interval without one of its elements *)
LEMMA IntervalWithoutOne ==
  ASSUME NEW n, NEW p, n \in Nat, p \in 1..n
  PROVE  IsFiniteSet((1..n) \ {p}) /\ Cardinality((1..n) \ {p}) = n - 1
  <1>1. IsFiniteSet(1..n) /\ Cardinality(1..n) = n
    BY FS_Interval
  <1>2. ASSUME NEW D, NEW x, NEW c, D = 1..n, x = p, c = n - 1
        PROVE  IsFiniteSet(D \ {x}) /\ Cardinality(D \ {x}) = c
    <2>1. IsFiniteSet(D) /\ x \in D /\ Cardinality(D) - 1 = c
      BY <1>1, <1>2
    <2>. QED  BY ONLY <2>1, FS_RemoveElement
  <1>. QED  BY <1>2

(* Taking one element out of a queue moves up the ones behind it. *)
LEMMA WithoutShifts ==
  ASSUME NEW T, NEW q \in Seq(T), IsInjective(q), NEW p \in 1..Len(q)
  PROVE  /\ DOMAIN Without(q, {q[p]}) = 1..(Len(q) - 1)
         /\ \A k \in 1..(Len(q) - 1) :
              Without(q, {q[p]})[k] = q[IF k < p THEN k ELSE k + 1]
  <1>. DEFINE n == Len(q)
              K == {i \in DOMAIN q : q[i] \notin {q[p]}}
  <1>1. n \in Nat /\ DOMAIN q = 1..n /\ p \in Int /\ p <= n /\ 1 <= p
    BY LenProperties
  <1>2. K = (1..n) \ {p}
    BY <1>1 DEF IsInjective
  <1>3. p \in 1..n
    BY <1>1
  <1>. HIDE DEF K, n
  <1>4. IsFiniteSet(K) /\ Cardinality(K) = n - 1 /\ K \in SUBSET Int
    <2>1. IsFiniteSet((1..n) \ {p}) /\ Cardinality((1..n) \ {p}) = n - 1
      BY <1>1, <1>3, IntervalWithoutOne
    <2>. QED  BY <1>2, <2>1
  <1>5. ASSUME NEW k \in 1..(n - 1)
        PROVE  Ascending(K)[k] = IF k < p THEN k ELSE k + 1
    <2>. DEFINE x == IF k < p THEN k ELSE k + 1
                B == {y \in K : y < x}
    <2>1. x \in K /\ x \in Int /\ k \in Int
      BY <1>1, <1>2
    <2>2. Cardinality(B) = k - 1
      <3>1. CASE k < p
        <4>1. B = 1..(k - 1)
          BY <1>1, <1>2, <2>1, <3>1
        <4>2. Cardinality(1..(k - 1)) = k - 1
          <5>1. 1 \in Int /\ k - 1 \in Int /\ ~(1 > k - 1 /\ k # 1)
            BY <2>1
          <5>2. Cardinality(1..(k - 1)) = IF 1 > k - 1 THEN 0 ELSE (k - 1) - 1 + 1
            BY <5>1, FS_Interval
          <5>. QED  BY <5>1, <5>2
        <4>. QED  BY <4>1, <4>2
      <3>2. CASE ~(k < p)
        <4>1. B = (1..k) \ {p} /\ p \in 1..k
          BY <1>1, <1>2, <2>1, <3>2
        <4>2. k \in Nat
          OBVIOUS
        <4>. QED  BY <4>1, <4>2, IntervalWithoutOne
      <3>. QED  BY <3>1, <3>2
    <2>. HIDE DEF x
    <2>3. NumBelow(x, K) = k - 1
      BY <2>2 DEF NumBelow
    <2>4. ASSUME NEW y \in K, NumBelow(y, K) = k - 1
          PROVE  y = x
      <3>1. y \in Int
        BY <1>4
      <3>2. ~(y < x) /\ ~(x < y)
        <4>1. ASSUME y < x PROVE FALSE
          <5>1. NumBelow(y, K) < NumBelow(x, K)
            BY <1>4, <2>1, <4>1, RankMonotone
          <5>. QED  BY <2>1, <2>3, <2>4, <5>1
        <4>2. ASSUME x < y PROVE FALSE
          <5>1. NumBelow(x, K) < NumBelow(y, K)
            BY <1>4, <2>1, <4>2, RankMonotone
          <5>. QED  BY <2>1, <2>3, <2>4, <5>1
        <4>. QED  BY <4>1, <4>2
      <3>. QED  BY <2>1, <3>1, <3>2
    <2>5. Ascending(K)[k] = CHOOSE y \in K : NumBelow(y, K) = k - 1
      BY <1>4 DEF Ascending
    <2>6. Ascending(K)[k] = x
      BY <2>1, <2>3, <2>4, <2>5
    <2>. QED  BY <2>6 DEF x
  <1>6. DOMAIN Ascending(K) = 1..(n - 1)
    BY <1>4 DEF Ascending
  <1>7. Without(q, {q[p]}) = [k \in DOMAIN Ascending(K) |-> q[Ascending(K)[k]]]
    BY DEF Without, AtPositions, K
  <1>8. /\ DOMAIN Without(q, {q[p]}) = 1..(n - 1)
        /\ \A k \in 1..(n - 1) : Without(q, {q[p]})[k] = q[IF k < p THEN k ELSE k + 1]
    BY <1>5, <1>6, <1>7
  <1>. QED  BY <1>8 DEF n

(* Membership in Units, the finite set that Total counts *)
LEMMA UnitsMember ==
  ASSUME NEW D, NEW f \in [D -> Nat]
  PROVE  /\ \A x \in D : \A j \in 1..f[x] : <<x, j>> \in Units(f)
         /\ \A u \in Units(f) : \E x \in D : \E j \in 1..f[x] : u = <<x, j>>
  BY DEF Units

LEMMA UnitsFinite ==
  ASSUME NEW D, IsFiniteSet(D), NEW f \in [D -> Nat]
  PROVE  IsFiniteSet(Units(f)) /\ Total(f) \in Nat
  <1>. DEFINE U == {{x} \X (1..f[x]) : x \in D}
              g == [x \in D |-> {x} \X (1..f[x])]
  <1>1. g \in [D -> U] /\ \A t \in U : \E x \in D : g[x] = t
    OBVIOUS
  <1>2. g \in Surjection(D, U)
    <2>. HIDE DEF g, U
    <2>. QED  BY <1>1, Fun_IsSurj
  <1>3. IsFiniteSet(U)
    <2>. HIDE DEF g, U
    <2>. QED  BY <1>2, FS_Surjection
  <1>4. ASSUME NEW t \in U
        PROVE  IsFiniteSet(t)
    <2>1. PICK x \in D : t = {x} \X (1..f[x])
      OBVIOUS
    <2>2. IsFiniteSet({x}) /\ IsFiniteSet(1..f[x])
      <3>1. 1 \in Int /\ f[x] \in Int
        OBVIOUS
      <3>. QED  BY <3>1, FS_Singleton, FS_Interval
    <2>. QED  BY <2>1, <2>2, FS_Product
  <1>5. Units(f) = UNION U
    BY DEF Units
  <1>6. IsFiniteSet(Units(f))
    <2>. HIDE DEF U
    <2>. QED  BY <1>3, <1>4, <1>5, FS_UNION
  <1>. QED  BY <1>6, FS_CardinalityType DEF Total

(* One argument can be summed apart. *)
LEMMA TotalSplit ==
  ASSUME NEW D, IsFiniteSet(D), NEW f \in [D -> Nat], NEW x \in D,
         NEW g \in [D \ {x} -> Nat], \A y \in D \ {x} : g[y] = f[y]
  PROVE  Total(f) = f[x] + Total(g)
  <1>. DEFINE X == {x} \X (1..f[x])
  <1>1. IsFiniteSet(D \ {x})
    BY FS_RemoveElement
  <1>2. IsFiniteSet(Units(g)) /\ Total(g) \in Nat /\ IsFiniteSet(Units(f))
    BY <1>1, UnitsFinite
  <1>3. IsFiniteSet(X) /\ Cardinality(X) = f[x]
    <2>1. /\ IsFiniteSet({x}) /\ Cardinality({x}) = 1
          /\ IsFiniteSet(1..f[x]) /\ Cardinality(1..f[x]) = f[x]
      <3>1. /\ IsFiniteSet(1..f[x])
            /\ Cardinality(1..f[x]) = IF 1 > f[x] THEN 0 ELSE f[x] - 1 + 1
        <4>1. 1 \in Int /\ f[x] \in Int
          OBVIOUS
        <4>. QED  BY <4>1, FS_Interval
      <3>2. f[x] \in Nat
        OBVIOUS
      <3>3. Cardinality(1..f[x]) = f[x]
        BY <3>1, <3>2
      <3>. QED  BY <3>1, <3>3, FS_Singleton
    <2>2. IsFiniteSet(X) /\ Cardinality(X) = 1 * Cardinality(1..f[x])
      BY <2>1, FS_Product
    <2>. QED  BY <2>1, <2>2
  <1>4. Units(f) = X \cup Units(g)
    <2>1. \A u \in Units(f) : u \in X \cup Units(g)
      <3>. SUFFICES ASSUME NEW u \in Units(f)
                    PROVE  u \in X \cup Units(g)
        OBVIOUS
      <3>1. PICK y \in D : \E j \in 1..f[y] : u = <<y, j>>
        BY UnitsMember
      <3>1a. PICK j \in 1..f[y] : u = <<y, j>>
        BY <3>1
      <3>2. CASE y = x
        BY <3>1a, <3>2
      <3>3. CASE y # x
        <4>1. y \in D \ {x} /\ j \in 1..g[y]
          BY <3>3
        <4>. QED  BY <3>1a, <4>1, UnitsMember
      <3>. QED  BY <3>2, <3>3
    <2>2. \A u \in Units(g) : u \in Units(f)
      <3>. SUFFICES ASSUME NEW u \in Units(g)
                    PROVE  u \in Units(f)
        OBVIOUS
      <3>1. PICK y \in D \ {x} : \E j \in 1..g[y] : u = <<y, j>>
        BY UnitsMember
      <3>1a. PICK j \in 1..g[y] : u = <<y, j>>
        BY <3>1
      <3>2. y \in D /\ j \in 1..f[y]
        OBVIOUS
      <3>. QED  BY <3>1a, <3>2, UnitsMember
    <2>3. \A u \in X : u \in Units(f)
      BY UnitsMember
    <2>. QED  BY <2>1, <2>2, <2>3
  <1>5. X \cap Units(g) = {}
    <2>. SUFFICES ASSUME NEW u \in X, u \in Units(g)
                  PROVE  FALSE
      OBVIOUS
    <2>1. PICK y \in D \ {x} : \E j \in 1..g[y] : u = <<y, j>>
      BY UnitsMember
    <2>1a. PICK j \in 1..g[y] : u = <<y, j>>
      BY <2>1
    <2>. QED  BY <2>1a
  <1>. HIDE DEF X
  <1>6. Cardinality(Units(f)) = Cardinality(X) + Cardinality(Units(g)) - Cardinality(X \cap Units(g))
    BY <1>2, <1>3, <1>4, FS_Union
  <1>7. Cardinality(X \cap Units(g)) = 0
    BY <1>5, FS_EmptySet
  <1>8. f[x] \in Nat /\ Cardinality(Units(g)) \in Nat
    BY <1>2 DEF Total
  <1>9. Cardinality(Units(f)) = f[x] + Cardinality(Units(g))
    BY <1>3, <1>6, <1>7, <1>8
  <1>. QED  BY <1>9 DEF Total

(* Changing one argument changes the sum by the difference. *)
LEMMA TotalUpdate ==
  ASSUME NEW D, IsFiniteSet(D), NEW f \in [D -> Nat], NEW g \in [D -> Nat],
         NEW x \in D, \A y \in D \ {x} : g[y] = f[y]
  PROVE  Total(g) = Total(f) - f[x] + g[x]
  <1>. DEFINE h == [y \in D \ {x} |-> f[y]]
  <1>1. /\ h \in [D \ {x} -> Nat]
        /\ \A y \in D \ {x} : h[y] = f[y] /\ h[y] = g[y]
    OBVIOUS
  <1>. HIDE DEF h
  <1>2. Total(f) = f[x] + Total(h)
    BY <1>1, TotalSplit
  <1>3. Total(g) = g[x] + Total(h)
    BY <1>1, TotalSplit
  <1>4. IsFiniteSet(D \ {x})
    BY FS_RemoveElement
  <1>5. Total(h) \in Nat
    BY <1>1, <1>4, UnitsFinite
  <1>6. f[x] \in Nat /\ g[x] \in Nat
    OBVIOUS
  <1>. QED  BY <1>2, <1>3, <1>5, <1>6

(* No value exceeds the sum. *)
LEMMA TotalAtLeast ==
  ASSUME NEW D, IsFiniteSet(D), NEW f \in [D -> Nat], NEW x \in D
  PROVE  f[x] <= Total(f)
  <1>. DEFINE h == [y \in D \ {x} |-> f[y]]
  <1>1. h \in [D \ {x} -> Nat] /\ \A y \in D \ {x} : h[y] = f[y]
    OBVIOUS
  <1>. HIDE DEF h
  <1>2. Total(f) = f[x] + Total(h)
    BY <1>1, TotalSplit
  <1>4. IsFiniteSet(D \ {x})
    BY FS_RemoveElement
  <1>5. Total(h) \in Nat
    BY <1>1, <1>4, UnitsFinite
  <1>6. f[x] \in Nat
    OBVIOUS
  <1>. QED  BY <1>2, <1>5, <1>6

(* A sum of zeros *)
LEMMA TotalZero ==
  ASSUME NEW D, NEW f \in [D -> Nat], \A x \in D : f[x] = 0
  PROVE  Total(f) = 0
  <1>1. Units(f) = {}
    <2>. SUFFICES ASSUME NEW u \in Units(f)
                  PROVE  FALSE
      OBVIOUS
    <2>1. PICK x \in D : \E j \in 1..f[x] : u = <<x, j>>
      BY UnitsMember
    <2>1a. PICK j \in 1..f[x] : u = <<x, j>>
      BY <2>1
    <2>2. f[x] = 0
      OBVIOUS
    <2>. QED  BY <2>2
  <1>. QED  BY <1>1, FS_EmptySet DEF Total

(* A sequence that gets one more element *)
LEMMA TotalAppend ==
  ASSUME NEW n \in Nat, NEW f, NEW g,
         f \in [1..n -> Nat], g \in [1..(n + 1) -> Nat],
         \A i \in 1..n : g[i] = f[i]
  PROVE  Total(g) = Total(f) + g[n + 1]
  <1>1. (1..(n + 1)) \ {n + 1} = 1..n /\ n + 1 \in 1..(n + 1)
    OBVIOUS
  <1>2. IsFiniteSet(1..(n + 1)) /\ IsFiniteSet(1..n)
    BY FS_Interval
  <1>3. ASSUME NEW D, NEW m, D = 1..(n + 1), m = n + 1
        PROVE  Total(g) = g[m] + Total(f)
    <2>1. /\ m \in D /\ IsFiniteSet(D) /\ g \in [D -> Nat]
          /\ D \ {m} = 1..n
      BY <1>1, <1>2, <1>3
    <2>2. f \in [D \ {m} -> Nat] /\ \A i \in D \ {m} : f[i] = g[i]
      BY <2>1
    <2>. QED  BY ONLY <2>1, <2>2, TotalSplit
  <1>4. Total(f) \in Nat /\ g[n + 1] \in Nat
    BY <1>1, <1>2, UnitsFinite
  <1>. QED  BY <1>3, <1>4

(* A sequence that loses its head *)
LEMMA TotalTail ==
  \A n, f, g :
    /\ n \in Nat /\ n > 0 /\ f \in [1..n -> Nat] /\ g \in [1..(n - 1) -> Nat]
    /\ \A i \in 1..(n - 1) : g[i] = f[i + 1]
    => Total(f) = f[1] + Total(g)
  <1>. SUFFICES ASSUME NEW n, NEW f, NEW g, n \in Nat, n > 0,
                       f \in [1..n -> Nat], g \in [1..(n - 1) -> Nat],
                       \A i \in 1..(n - 1) : g[i] = f[i + 1]
                PROVE  Total(f) = f[1] + Total(g)
    OBVIOUS
  <1>. DEFINE h == [i \in (1..n) \ {1} |-> f[i]]
              H == [u \in Units(g) |-> <<u[1] + 1, u[2]>>]
  <1>1. 1 \in 1..n /\ IsFiniteSet(1..n) /\ IsFiniteSet(1..(n - 1))
    BY FS_Interval
  <1>2. h \in [(1..n) \ {1} -> Nat] /\ \A i \in (1..n) \ {1} : h[i] = f[i]
    OBVIOUS
  <1>. HIDE DEF h
  <1>3. ASSUME NEW D, NEW m, D = 1..n, m = 1
        PROVE  Total(f) = f[m] + Total(h)
    <2>1. /\ IsFiniteSet(D) /\ m \in D /\ f \in [D -> Nat]
          /\ h \in [D \ {m} -> Nat] /\ \A i \in D \ {m} : h[i] = f[i]
      BY <1>1, <1>2, <1>3
    <2>. QED  BY ONLY <2>1, TotalSplit
  <1>4. IsFiniteSet(Units(g))
    BY <1>1, UnitsFinite
  <1>4a. \A u \in Units(g) : \E x \in 1..(n - 1) : \E j \in 1..g[x] : u = <<x, j>>
    BY DEF Units
  <1>4b. \A u \in Units(h) : \E x \in (1..n) \ {1} : \E j \in 1..h[x] : u = <<x, j>>
    BY <1>2 DEF Units
  <1>5. H \in [Units(g) -> Units(h)]
    <2>. SUFFICES ASSUME NEW u \in Units(g)
                  PROVE  <<u[1] + 1, u[2]>> \in Units(h)
      OBVIOUS
    <2>1. PICK x \in 1..(n - 1) : \E j \in 1..g[x] : u = <<x, j>>
      BY <1>4a
    <2>1a. PICK j \in 1..g[x] : u = <<x, j>>
      BY <2>1
    <2>2. x + 1 \in (1..n) \ {1} /\ j \in 1..h[x + 1]
      BY <1>2
    <2>. QED  BY <1>2, <2>1a, <2>2, UnitsMember
  <1>6. \A u, v \in Units(g) : H[u] = H[v] => u = v
    <2>. SUFFICES ASSUME NEW u \in Units(g), NEW v \in Units(g), H[u] = H[v]
                  PROVE  u = v
      OBVIOUS
    <2>1. PICK x \in 1..(n - 1) : \E j \in 1..g[x] : u = <<x, j>>
      BY <1>4a
    <2>1a. PICK j \in 1..g[x] : u = <<x, j>>
      BY <2>1
    <2>2. PICK y \in 1..(n - 1) : \E k \in 1..g[y] : v = <<y, k>>
      BY <1>4a
    <2>2a. PICK k \in 1..g[y] : v = <<y, k>>
      BY <2>2
    <2>3. H[u] = <<x + 1, j>> /\ H[v] = <<y + 1, k>>
      BY <2>1a, <2>2a
    <2>4. x + 1 = y + 1 /\ j = k
      BY <2>3
    <2>. QED  BY <2>1a, <2>2a, <2>4
  <1>7. \A w \in Units(h) : \E u \in Units(g) : H[u] = w
    <2>. SUFFICES ASSUME NEW w \in Units(h)
                  PROVE  \E u \in Units(g) : H[u] = w
      OBVIOUS
    <2>1. PICK y \in (1..n) \ {1} : \E j \in 1..h[y] : w = <<y, j>>
      BY <1>4b
    <2>1a. PICK j \in 1..h[y] : w = <<y, j>>
      BY <2>1
    <2>. DEFINE x == y - 1
    <2>2. x \in 1..(n - 1) /\ x + 1 = y
      OBVIOUS
    <2>3. j \in 1..g[x]
      BY <1>2, <2>2
    <2>. HIDE DEF x
    <2>4. <<x, j>> \in Units(g)
      BY <2>2, <2>3, UnitsMember
    <2>5. H[<<x, j>>] = w
      BY <2>1a, <2>2, <2>4
    <2>. QED  BY <2>4, <2>5
  <1>. HIDE DEF H
  <1>8. H \in Bijection(Units(g), Units(h))
    <2>1. H \in Injection(Units(g), Units(h))
      BY <1>5, <1>6, Fun_IsInj
    <2>2. H \in Surjection(Units(g), Units(h))
      BY <1>5, <1>7, Fun_IsSurj
    <2>. QED  BY <2>1, <2>2 DEF Bijection
  <1>9. ExistsBijection(Units(g), Units(h))
    BY <1>8, Zenon DEF ExistsBijection
  <1>10. Total(h) = Total(g)
    BY <1>4, <1>9, FS_Bijection DEF Total
  <1>. QED  BY <1>3, <1>10
-----------------------------------------------------------------------------
(* Ascending lists its set in ascending order. *)
LEMMA AscendingOrder ==
  ASSUME NEW S \in SUBSET Int, IsFiniteSet(S)
  PROVE  \A i, j \in 1..Cardinality(S) : i < j => Ascending(S)[i] < Ascending(S)[j]
  <1>. DEFINE n == Cardinality(S)
              s == Ascending(S)
  <1>1. ASSUME NEW i \in 1..n
        PROVE  s[i] \in S /\ NumBelow(s[i], S) = i - 1
    <2>1. s[i] = CHOOSE x \in S : NumBelow(x, S) = i - 1
      BY <1>1 DEF Ascending
    <2>. QED  BY <2>1, RankTaken
  <1>. HIDE DEF s, n
  <1>2. ASSUME NEW i \in 1..n, NEW j \in 1..n, i < j
        PROVE  s[i] < s[j]
    <2>1. s[i] \in S /\ s[j] \in S /\ NumBelow(s[i], S) = i - 1 /\ NumBelow(s[j], S) = j - 1
      BY <1>1
    <2>2. ~(s[j] < s[i])
      <3>1. ASSUME s[j] < s[i] PROVE FALSE
        <4>1. NumBelow(s[j], S) < NumBelow(s[i], S)
          BY <2>1, <3>1, RankMonotone
        <4>. QED  BY <1>2, <2>1, <4>1
      <3>. QED  BY <3>1
    <2>3. s[j] # s[i]
      BY <1>2, <2>1
    <2>4. s[i] \in Int /\ s[j] \in Int
      BY <2>1
    <2>. QED  BY <2>2, <2>3, <2>4
  <1>. QED  BY <1>2 DEF s, n

(* There is only one ascending list of a set. *)
LEMMA AscendingIs ==
  ASSUME NEW n, n \in Nat, NEW S \in SUBSET Int, NEW f, f \in [1..n -> S],
         \A i, j \in 1..n : i < j => f[i] < f[j],
         \A x \in S : \E i \in 1..n : f[i] = x
  PROVE  Ascending(S) = f /\ IsFiniteSet(S) /\ Cardinality(S) = n
  <1>0. \A i \in 1..n : f[i] \in S /\ f[i] \in Int
    <2>1. \A i \in 1..n : f[i] \in S
      OBVIOUS
    <2>2. \A x \in S : x \in Int
      OBVIOUS
    <2>. QED  BY <2>1, <2>2
  <1>1. \A i, j \in 1..n : f[i] = f[j] => i = j
    <2>1. ASSUME NEW i \in 1..n, NEW j \in 1..n, f[i] = f[j]
          PROVE  i = j
      <3>1. ~(i < j) /\ ~(j < i)
        BY <1>0, <2>1
      <3>. QED  BY <3>1
    <2>. QED  BY <2>1
  <1>2. IsFiniteSet(1..n) /\ Cardinality(1..n) = n
    BY FS_Interval
  <1>3. f \in Bijection(1..n, S)
    BY <1>1 DEF Bijection, Injection, Surjection, IsInjective
  <1>4. IsFiniteSet(S) /\ Cardinality(S) = n
    BY <1>2, <1>3, FS_Bijection DEF ExistsBijection
  <1>5. ASSUME NEW i \in 1..n
        PROVE  Ascending(S)[i] = f[i]
    <2>. DEFINE B == {y \in S : y < f[i]}
                D == 1..(i - 1)
                g == [j \in D |-> f[j]]
    <2>1. f[i] \in S /\ f[i] \in Int /\ i \in Nat /\ D \in SUBSET (1..n)
      BY <1>0
    <2>2. ASSUME NEW y \in B PROVE \E j \in D : f[j] = y
      <3>1. PICK j \in 1..n : f[j] = y
        OBVIOUS
      <3>2. ~(i < j) /\ i # j
        BY <3>1, <2>1
      <3>. QED  BY <3>1, <3>2
    <2>3. \A j \in D : f[j] \in B
      BY <2>1
    <2>4. IsFiniteSet(D) /\ Cardinality(D) = i - 1
      <3>1. 1 \in Int /\ i - 1 \in Int /\ ~(1 > i - 1 /\ i # 1)
        BY <2>1
      <3>2. IsFiniteSet(1..(i - 1)) /\ Cardinality(1..(i - 1)) = IF 1 > i - 1 THEN 0 ELSE (i - 1) - 1 + 1
        BY <3>1, FS_Interval
      <3>. QED  BY <3>1, <3>2
    <2>. HIDE DEF B, D
    <2>5. g \in Bijection(D, B)
      BY <1>1, <2>1, <2>2, <2>3 DEF Bijection, Injection, Surjection, IsInjective
    <2>6. Cardinality(B) = i - 1
      BY <2>4, <2>5, FS_Bijection DEF ExistsBijection
    <2>7. NumBelow(f[i], S) = i - 1
      BY <2>6 DEF NumBelow, B
    <2>8. ASSUME NEW y \in S, NumBelow(y, S) = i - 1
          PROVE  y = f[i]
      <3>1. y \in Int
        OBVIOUS
      <3>2. ~(y < f[i])
        <4>1. ASSUME y < f[i] PROVE FALSE
          <5>1. NumBelow(y, S) < NumBelow(f[i], S)
            BY <1>4, <2>1, <4>1, RankMonotone
          <5>. QED  BY <2>1, <2>7, <2>8, <5>1
        <4>. QED  BY <4>1
      <3>3. ~(f[i] < y)
        <4>1. ASSUME f[i] < y PROVE FALSE
          <5>1. NumBelow(f[i], S) < NumBelow(y, S)
            BY <1>4, <2>1, <4>1, RankMonotone
          <5>. QED  BY <2>1, <2>7, <2>8, <5>1
        <4>. QED  BY <4>1
      <3>. QED  BY <2>1, <3>1, <3>2, <3>3
    <2>9. Ascending(S)[i] = CHOOSE y \in S : NumBelow(y, S) = i - 1
      BY <1>4 DEF Ascending
    <2>. QED  BY <2>1, <2>7, <2>8, <2>9
  <1>6. Ascending(S) = [i \in 1..n |-> Ascending(S)[i]]
    BY <1>4 DEF Ascending
  <1>7. f = [i \in 1..n |-> f[i]]
    OBVIOUS
  <1>8. Ascending(S) = f
    <2>. DEFINE h == Ascending(S)
    <2>1. h = [i \in 1..n |-> h[i]] /\ \A i \in 1..n : h[i] = f[i]
      BY <1>5, <1>6
    <2>. HIDE DEF h
    <2>2. h = f
      BY <1>7, <2>1
    <2>. QED  BY <2>2 DEF h
  <1>. QED  BY <1>4, <1>8

(* The ascending list of a set of positions, in the form used below *)
LEMMA AscendingPositions ==
  ASSUME NEW n, n \in Nat, NEW I \in SUBSET (1..n)
  PROVE  /\ IsFiniteSet(I) /\ Cardinality(I) \in Nat /\ I \in SUBSET Int
         /\ Ascending(I) \in [1..Cardinality(I) -> I]
         /\ \A i, j \in 1..Cardinality(I) : i < j => Ascending(I)[i] < Ascending(I)[j]
         /\ \A x \in I : \E i \in 1..Cardinality(I) : Ascending(I)[i] = x
  <1>1. IsFiniteSet(1..n)
    BY FS_Interval
  <1>2. IsFiniteSet(I) /\ Cardinality(I) \in Nat
    BY <1>1, FS_Subset, FS_CardinalityType
  <1>3. I \in SUBSET Int
    OBVIOUS
  <1>4. /\ Ascending(I) \in Seq(I)
        /\ DOMAIN Ascending(I) = 1..Cardinality(I)
        /\ \A x \in I : \E i \in DOMAIN Ascending(I) : Ascending(I)[i] = x
    BY <1>2, <1>3, AscendingLists
  <1>5. \A i, j \in 1..Cardinality(I) : i < j => Ascending(I)[i] < Ascending(I)[j]
    BY <1>2, <1>3, AscendingOrder
  <1>6. Ascending(I) \in [1..Cardinality(I) -> I]
    <2>1. Ascending(I) \in [1..Len(Ascending(I)) -> I] /\ DOMAIN Ascending(I) = 1..Len(Ascending(I))
      BY <1>4, LenProperties
    <2>. QED  BY <1>4, <2>1
  <1>. QED  BY <1>2, <1>3, <1>4, <1>5, <1>6

(* A longer sequence at the same positions, or at its last one too *)
OneLonger(p, q, n, J, I, e, T) ==
  /\ n \in Nat /\ I \in SUBSET (1..n) /\ J = I \cup {n + 1} /\ e = p[n + 1]
  /\ q \in [1..n -> T] /\ p \in [1..(n + 1) -> T] /\ \A i \in 1..n : p[i] = q[i]

LEMMA AtPositionsAppend ==
  ASSUME NEW T, NEW n, NEW I, NEW J, NEW e, NEW q, NEW p, OneLonger(p, q, n, J, I, e, T)
  PROVE  /\ AtPositions(q, I) \in Seq(T)
         /\ AtPositions(p, I) = AtPositions(q, I)
         /\ AtPositions(p, J) = Append(AtPositions(q, I), e)
  <1>. n \in Nat /\ I \in SUBSET (1..n) /\ q \in [1..n -> T] /\ p \in [1..(n + 1) -> T]
    BY DEF OneLonger
  <1>. J = I \cup {n + 1} /\ e = p[n + 1] /\ \A i \in 1..n : p[i] = q[i]
    BY DEF OneLonger
  <1>. DEFINE c == Cardinality(I)
              f == Ascending(I)
              w == AtPositions(q, I)
  <1>1. /\ c \in Nat /\ I \in SUBSET Int /\ f \in [1..c -> I]
        /\ \A i, j \in 1..c : i < j => f[i] < f[j]
        /\ \A x \in I : \E i \in 1..c : f[i] = x
    BY AscendingPositions
  <1>2. w = [k \in 1..c |-> q[f[k]]]
    BY <1>1 DEF AtPositions
  <1>3. AtPositions(p, I) = [k \in 1..c |-> p[f[k]]]
    BY <1>1 DEF AtPositions
  <1>. HIDE DEF c, f, w
  <1>4. \A k \in 1..c : f[k] \in 1..n /\ f[k] \in Int /\ p[f[k]] = q[f[k]] /\ q[f[k]] \in T
    <2>1. \A k \in 1..c : f[k] \in I
      BY <1>1
    <2>2. \A x \in I : x \in 1..n /\ x \in Int
      OBVIOUS
    <2>3. \A x \in 1..n : p[x] = q[x] /\ q[x] \in T
      OBVIOUS
    <2>. QED  BY <2>1, <2>2, <2>3
  <1>5. w \in Seq(T) /\ Len(w) = c
    <2>1. w \in [1..c -> T]
      BY <1>2, <1>4
    <2>. QED  BY <1>1, <2>1, SeqDef, LenProperties
  <1>6. AtPositions(p, I) = w
    BY <1>2, <1>3, <1>4
  <1>7. AtPositions(p, J) = Append(w, e)
    <2>. DEFINE g == [k \in 1..(c + 1) |-> IF k = c + 1 THEN n + 1 ELSE f[k]]
    <2>1. J \in SUBSET Int /\ c + 1 \in Nat
      BY <1>1
    <2>2. g \in [1..(c + 1) -> J]
      <3>1. \A k \in 1..(c + 1) : k # c + 1 => k \in 1..c /\ f[k] \in I
        BY <1>1
      <3>. QED  BY <3>1
    <2>3. ASSUME NEW i \in 1..(c + 1), NEW j \in 1..(c + 1), i < j
          PROVE  g[i] < g[j]
      <3>1. i \in 1..c /\ g[i] = f[i] /\ f[i] < n + 1
        BY <1>1, <1>4, <2>3
      <3>2. CASE j = c + 1
        BY <3>1, <3>2
      <3>3. CASE j # c + 1
        <4>1. j \in 1..c /\ g[j] = f[j]
          BY <1>1, <3>3
        <4>. QED  BY <1>1, <2>3, <3>1, <4>1
      <3>. QED  BY <3>2, <3>3
    <2>4. ASSUME NEW x \in J
          PROVE  \E i \in 1..(c + 1) : g[i] = x
      <3>1. CASE x = n + 1
        <4>1. c + 1 \in 1..(c + 1) /\ g[c + 1] = n + 1
          BY <1>1
        <4>. QED  BY <3>1, <4>1
      <3>2. CASE x \in I
        <4>1. PICK i \in 1..c : f[i] = x
          BY <1>1, <3>2
        <4>2. i \in 1..(c + 1) /\ g[i] = f[i]
          BY <1>1
        <4>. QED  BY <4>1, <4>2
      <3>. QED  BY <3>1, <3>2
    <2>5. DOMAIN g = 1..(c + 1) /\ g[c + 1] = n + 1 /\ \A k \in 1..c : g[k] = f[k]
      BY <1>1
    <2>. HIDE DEF g
    <2>6. Ascending(J) = g
      BY <2>1, <2>2, <2>3, <2>4, AscendingIs
    <2>7. AtPositions(p, J) = [k \in 1..(c + 1) |-> p[g[k]]]
      BY <2>5, <2>6 DEF AtPositions
    <2>8. e \in T
      OBVIOUS
    <2>. DEFINE v == Append(w, e)
    <2>9. /\ v \in Seq(T) /\ Len(v) = c + 1 /\ v[c + 1] = e
          /\ \A k \in 1..c : v[k] = w[k]
      BY <1>5, <2>8, AppendProperties
    <2>10. v = [k \in 1..(c + 1) |-> v[k]]
      BY <2>9, LenProperties
    <2>11. \A k \in 1..(c + 1) : v[k] = p[g[k]]
      <3>1. ASSUME NEW k \in 1..(c + 1) PROVE v[k] = p[g[k]]
        <4>1. CASE k = c + 1
          BY <2>5, <2>9, <4>1
        <4>2. CASE k # c + 1
          <5>1. k \in 1..c
            BY <1>1, <4>2
          <5>2. v[k] = w[k] /\ w[k] = q[f[k]] /\ g[k] = f[k]
            BY <1>2, <2>5, <2>9, <5>1
          <5>. QED  BY <1>4, <5>1, <5>2
        <4>. QED  BY <4>1, <4>2
      <3>. QED  BY <3>1
    <2>. HIDE DEF v
    <2>12. AtPositions(p, J) = v
      BY <2>7, <2>10, <2>11
    <2>. QED  BY <2>12 DEF v
  <1>. QED  BY <1>5, <1>6, <1>7 DEF w

(* A sequence without its head, at the positions that move up *)
OneShorter(p, q, n, J, I, T) ==
  /\ n \in Nat /\ I \in SUBSET (1..(n + 1)) /\ J = {i \in 1..n : i + 1 \in I}
  /\ q \in [1..(n + 1) -> T] /\ p \in [1..n -> T] /\ \A i \in 1..n : p[i] = q[i + 1]

LEMMA AtPositionsTail ==
  ASSUME NEW T, NEW n, NEW I, NEW J, NEW q, NEW p, OneShorter(p, q, n, J, I, T)
  PROVE  /\ 1 \notin I => AtPositions(p, J) = AtPositions(q, I)
         /\ 1 \in I => /\ AtPositions(q, I) # <<>>
                       /\ AtPositions(p, J) = Tail(AtPositions(q, I))
  <1>. DEFINE c == Cardinality(I)
              f == Ascending(I)
              w == AtPositions(q, I)
  <1>. n \in Nat /\ I \in SUBSET (1..(n + 1)) /\ J = {i \in 1..n : i + 1 \in I}
    BY DEF OneShorter
  <1>. q \in [1..(n + 1) -> T] /\ p \in [1..n -> T] /\ \A i \in 1..n : p[i] = q[i + 1]
    BY DEF OneShorter
  <1>1. n + 1 \in Nat
    OBVIOUS
  <1>2. /\ c \in Nat /\ I \in SUBSET Int /\ f \in [1..c -> I]
        /\ \A i, j \in 1..c : i < j => f[i] < f[j]
        /\ \A x \in I : \E i \in 1..c : f[i] = x
    BY <1>1, AscendingPositions
  <1>3. w = [k \in 1..c |-> q[f[k]]]
    BY <1>2 DEF AtPositions
  <1>. HIDE DEF c, f, w
  <1>4. \A k \in 1..c : f[k] \in I /\ f[k] \in 1..(n + 1) /\ f[k] \in Int
    <2>1. \A k \in 1..c : f[k] \in I
      BY <1>2
    <2>2. \A x \in I : x \in 1..(n + 1) /\ x \in Int
      OBVIOUS
    <2>. QED  BY <2>1, <2>2
  <1>5. J \in SUBSET Int /\ J \in SUBSET (1..n) /\ \A x \in I : x # 1 => x - 1 \in J
    OBVIOUS
  <1>6. ASSUME 1 \notin I
        PROVE  AtPositions(p, J) = w
    <2>. DEFINE g == [k \in 1..c |-> f[k] - 1]
    <2>1. g \in [1..c -> J]
      BY <1>4, <1>5, <1>6
    <2>2. \A i, j \in 1..c : i < j => g[i] < g[j]
      BY <1>2, <1>4
    <2>3. ASSUME NEW x \in J PROVE \E i \in 1..c : g[i] = x
      <3>1. x + 1 \in I /\ x \in Int
        BY <1>5
      <3>2. PICK i \in 1..c : f[i] = x + 1
        BY <1>2, <3>1
      <3>3. g[i] = x
        BY <3>1, <3>2
      <3>. QED  BY <3>3
    <2>4. DOMAIN g = 1..c /\ \A k \in 1..c : g[k] = f[k] - 1
      OBVIOUS
    <2>. HIDE DEF g
    <2>5. Ascending(J) = g
      <3>1. c \in Nat
        BY <1>2
      <3>. QED  BY <1>5, <2>1, <2>2, <2>3, <3>1, AscendingIs
    <2>6. AtPositions(p, J) = [k \in 1..c |-> p[g[k]]]
      BY <2>4, <2>5 DEF AtPositions
    <2>7. \A k \in 1..c : p[g[k]] = q[f[k]]
      <3>1. \A k \in 1..c : g[k] \in 1..n /\ g[k] + 1 = f[k]
        <4>1. ASSUME NEW k \in 1..c PROVE g[k] \in 1..n /\ g[k] + 1 = f[k]
          <5>1. g[k] \in J /\ g[k] = f[k] - 1 /\ f[k] \in Int
            BY <1>4, <2>1, <2>4
          <5>. QED  BY <1>5, <5>1
        <4>. QED  BY <4>1
      <3>. QED  BY <3>1
    <2>. QED  BY <1>3, <2>6, <2>7
  <1>7. ASSUME 1 \in I
        PROVE  w # <<>> /\ AtPositions(p, J) = Tail(w)
    <2>1. PICK h \in 1..c : f[h] = 1
      BY <1>2, <1>7
    <2>2. 1 \in 1..c /\ c > 0
      BY <1>2, <2>1
    <2>3. h = 1
      <3>1. ~(1 < h)
        BY <1>2, <1>4, <2>1, <2>2
      <3>. QED  BY <3>1
    <2>4. \A k \in 1..(c - 1) : k + 1 \in 1..c /\ f[k + 1] > 1
      BY <1>2, <1>4, <2>1, <2>2, <2>3
    <2>. DEFINE g == [k \in 1..(c - 1) |-> f[k + 1] - 1]
    <2>5. g \in [1..(c - 1) -> J]
      BY <1>4, <1>5, <2>4
    <2>6. \A i, j \in 1..(c - 1) : i < j => g[i] < g[j]
      <3>1. ASSUME NEW i \in 1..(c - 1), NEW j \in 1..(c - 1), i < j
            PROVE  g[i] < g[j]
        <4>1. i + 1 \in 1..c /\ j + 1 \in 1..c /\ i + 1 < j + 1
          BY <2>4, <3>1
        <4>2. f[i + 1] < f[j + 1] /\ f[i + 1] \in Int /\ f[j + 1] \in Int
          BY <1>2, <1>4, <4>1
        <4>. QED  BY <4>2
      <3>. QED  BY <3>1
    <2>7. ASSUME NEW x \in J PROVE \E i \in 1..(c - 1) : g[i] = x
      <3>1. x + 1 \in I /\ x \in Int /\ x >= 1
        BY <1>5
      <3>2. PICK i \in 1..c : f[i] = x + 1
        BY <1>2, <3>1
      <3>3. i # 1
        BY <2>1, <2>3, <3>1, <3>2
      <3>4. i - 1 \in 1..(c - 1) /\ (i - 1) + 1 = i
        BY <1>2, <3>3
      <3>5. g[i - 1] = f[(i - 1) + 1] - 1
        BY <3>4
      <3>. QED  BY <3>1, <3>2, <3>4, <3>5
    <2>8. DOMAIN g = 1..(c - 1) /\ \A k \in 1..(c - 1) : g[k] = f[k + 1] - 1
      OBVIOUS
    <2>. HIDE DEF g
    <2>9. c - 1 \in Nat
      BY <1>2, <2>2
    <2>10. Ascending(J) = g
      <3>. DEFINE m == c - 1
      <3>1. m \in Nat /\ g \in [1..m -> J] /\ (\A i, j \in 1..m : i < j => g[i] < g[j])
            /\ \A x \in J : \E i \in 1..m : g[i] = x
        BY <2>5, <2>6, <2>7, <2>9
      <3>. HIDE DEF m
      <3>. QED  BY <1>5, <3>1, AscendingIs
    <2>11. AtPositions(p, J) = [k \in 1..(c - 1) |-> p[g[k]]]
      BY <2>8, <2>10 DEF AtPositions
    <2>12. \A k \in 1..(c - 1) : p[g[k]] = q[f[k + 1]]
      <3>1. \A k \in 1..(c - 1) : g[k] \in 1..n /\ g[k] + 1 = f[k + 1]
        BY <1>4, <1>5, <2>4, <2>5, <2>8
      <3>. QED  BY <3>1
    <2>13. w \in Seq(T) /\ Len(w) = c
      <3>1. \A k \in 1..c : q[f[k]] \in T
        BY <1>4
      <3>2. w \in [1..c -> T]
        BY <1>3, <3>1
      <3>. QED  BY <1>2, <3>2, SeqDef, LenProperties
    <2>14. w # <<>>
      BY <2>2, <2>13, EmptySeq
    <2>. DEFINE v == Tail(w)
    <2>15. /\ v \in Seq(T) /\ Len(v) = c - 1
           /\ \A k \in 1..(c - 1) : v[k] = w[k + 1]
      BY <2>13, <2>14, HeadTailProperties
    <2>16. v = [k \in 1..(c - 1) |-> v[k]]
      <3>. HIDE DEF v
      <3>. QED  BY <2>15, LenProperties
    <2>17. \A k \in 1..(c - 1) : v[k] = p[g[k]]
      <3>1. \A k \in 1..(c - 1) : w[k + 1] = q[f[k + 1]]
        BY <1>3, <2>4
      <3>. QED  BY <2>12, <2>15, <3>1
    <2>. HIDE DEF v
    <2>18. AtPositions(p, J) = v
      BY <2>11, <2>16, <2>17
    <2>. QED  BY <2>14, <2>18 DEF v
  <1>. QED  BY <1>6, <1>7 DEF w
=============================================================================
