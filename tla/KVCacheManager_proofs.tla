------------------------ MODULE KVCacheManager_proofs ------------------------
(***************************************************************************)
(* The block pool keeps its books for any requests, pool, block size,      *)
(* drafts, policy and depth of batches: reference counts, free queue and   *)
(* hash table stay exact, and an allocation that was checked succeeds      *)
(* (Inv).  A request writes only blocks nobody else reads (Sharing).  And  *)
(* under the default policy the blocks hold the tokens that their hashes   *)
(* and their tables stand for (Contents).                                  *)
(***************************************************************************)
EXTENDS KVCacheManager, Queues_proofs

(* What is needed of the constants, in the form the provers use *)
LEMMA Numbers ==
  /\ BlockSize \in Nat \ {0} /\ MaxInFlight \in Nat \ {0}
  /\ NumSpec \in Nat /\ NumLookahead \in Nat /\ MaxResets \in Nat /\ MaxModelLen \in Nat
  /\ \A r \in Requests : /\ Prompt[r] \in Seq(Token) /\ MaxTokens[r] \in Nat \ {0}
                         /\ Len(Prompt[r]) \in 1..MaxModelLen - 1 /\ Rank[r] \in Int
  BY KVAssumption

(* Requests and blocks are finitely many. *)
LEMMA Finiteness == IsFiniteSet(Requests) /\ IsFiniteSet(Blocks)
  BY KVAssumption
-----------------------------------------------------------------------------
(* Queues *)

(* The queue q holds the elements of S, once each. *)
Lists(q, S) == q \in Seq(S) /\ IsInjective(q) /\ ToSet(q) = S

(* The same, position by position *)
LEMMA ListsMeans ==
  ASSUME NEW q, NEW S
  PROVE  Lists(q, S) <=>
           /\ Len(q) \in Nat /\ q \in [1..Len(q) -> S] /\ DOMAIN q = 1..Len(q)
           /\ \A i \in 1..Len(q) : q[i] \in S
           /\ \A i, j \in 1..Len(q) : q[i] = q[j] => i = j
           /\ \A x \in S : \E i \in 1..Len(q) : q[i] = x
  <1>1. ASSUME Lists(q, S)
        PROVE  /\ Len(q) \in Nat /\ q \in [1..Len(q) -> S] /\ DOMAIN q = 1..Len(q)
               /\ \A i \in 1..Len(q) : q[i] \in S
               /\ \A i, j \in 1..Len(q) : q[i] = q[j] => i = j
               /\ \A x \in S : \E i \in 1..Len(q) : q[i] = x
    BY <1>1, LenProperties DEF Lists, ToSet, IsInjective
  <1>2. ASSUME /\ Len(q) \in Nat /\ q \in [1..Len(q) -> S]
               /\ \A i, j \in 1..Len(q) : q[i] = q[j] => i = j
               /\ \A x \in S : \E i \in 1..Len(q) : q[i] = x
        PROVE  Lists(q, S)
    <2>1. PICK n \in Nat : n = Len(q)
      BY <1>2
    <2>2. q \in [1..n -> S]
      BY <1>2, <2>1
    <2>3. q \in Seq(S)
      BY ONLY <2>1, <2>2, SeqDef
    <2>4. DOMAIN q = 1..Len(q)
      BY <1>2
    <2>. QED  BY <1>2, <2>3, <2>4 DEF Lists, ToSet, IsInjective
  <1>. QED  BY <1>1, <1>2

(* A queue given by its length and its entries *)
LEMMA ListsOf ==
  ASSUME NEW q, NEW S, NEW n \in Nat, q \in [1..n -> S],
         \A i, j \in 1..n : q[i] = q[j] => i = j,
         \A x \in S : \E i \in 1..n : q[i] = x
  PROVE  Lists(q, S) /\ Len(q) = n
  <1>1. q \in Seq(S) /\ DOMAIN q = 1..n
    BY SeqDef
  <1>2. Len(q) = n
    BY <1>1, LenProperties
  <1>. QED  BY <1>1, <1>2, ListsMeans

(* A sequence without repetitions lists its elements. *)
LEMMA InjectiveLists ==
  ASSUME NEW T, NEW q \in Seq(T), IsInjective(q)
  PROVE  Lists(q, ToSet(q)) /\ ToSet(q) \in SUBSET T
  <1>1. q \in [1..Len(q) -> T] /\ Len(q) \in Nat /\ DOMAIN q = 1..Len(q)
    BY LenProperties
  <1>2. PICK n \in Nat : n = Len(q)
    BY <1>1
  <1>3. q \in [1..n -> ToSet(q)]
    BY <1>1, <1>2 DEF ToSet
  <1>4. q \in Seq(ToSet(q))
    BY ONLY <1>2, <1>3, SeqDef
  <1>. QED  BY <1>1, <1>4 DEF Lists, ToSet

(* A queue is as long as the set it lists is large. *)
LEMMA ListsLength ==
  ASSUME NEW q, NEW S, Lists(q, S)
  PROVE  IsFiniteSet(S) /\ Cardinality(S) = Len(q) /\ Len(q) \in Nat
  <1>. DEFINE n == Len(q)
  <1>1. /\ n \in Nat /\ q \in [1..n -> S]
        /\ \A i, j \in 1..n : q[i] = q[j] => i = j
        /\ \A x \in S : \E i \in 1..n : q[i] = x
    BY ListsMeans
  <1>. HIDE DEF n
  <1>2. q \in Bijection(1..n, S)
    <2>1. q \in Injection(1..n, S)
      BY <1>1 DEF Injection, IsInjective
    <2>2. q \in Surjection(1..n, S)
      BY <1>1 DEF Surjection
    <2>. QED  BY <2>1, <2>2 DEF Bijection
  <1>3. IsFiniteSet(1..n) /\ Cardinality(1..n) = n
    BY <1>1, FS_Interval
  <1>4. ExistsBijection(1..n, S)
    BY <1>2 DEF ExistsBijection
  <1>5. IsFiniteSet(S) /\ Cardinality(1..n) = Cardinality(S)
    BY <1>3, <1>4, FS_Bijection
  <1>. QED  BY <1>1, <1>3, <1>5 DEF n

(* The empty queue lists nothing, and is the only one that does. *)
LEMMA EmptyLists ==
  /\ Lists(<<>>, {})
  /\ \A q : Lists(q, {}) => q = <<>>
  <1>1. Lists(<<>>, {})
    BY DEF Lists, IsInjective, ToSet
  <1>2. ASSUME NEW q, Lists(q, {})
        PROVE  q = <<>>
    <2>1. q \in Seq({}) /\ Len(q) \in Nat
      BY <1>2, LenProperties DEF Lists
    <2>2. 1 \notin 1..Len(q)
      BY <1>2, ListsMeans
    <2>. QED  BY <2>1, <2>2, EmptySeq
  <1>. QED  BY <1>1, <1>2

(* Two queues with nothing in common, one behind the other *)
LEMMA ConcatLists ==
  ASSUME NEW p, NEW S, Lists(p, S), NEW q, NEW T, Lists(q, T), S \cap T = {}
  PROVE  Lists(p \o q, S \cup T)
  <1>. DEFINE m == Len(p)
              n == Len(q)
              w == p \o q
  <1>1. /\ p \in [1..m -> S] /\ q \in [1..n -> T] /\ m \in Nat /\ n \in Nat
        /\ \A i \in 1..m : p[i] \in S
        /\ \A i \in 1..n : q[i] \in T
        /\ \A i, j \in 1..m : p[i] = p[j] => i = j
        /\ \A i, j \in 1..n : q[i] = q[j] => i = j
        /\ \A x \in S : \E i \in 1..m : p[i] = x
        /\ \A x \in T : \E i \in 1..n : q[i] = x
    BY ListsMeans
  <1>2. /\ w \in Seq(S \cup T) /\ DOMAIN w = 1..(m + n)
        /\ \A i \in 1..(m + n) : w[i] = IF i <= m THEN p[i] ELSE q[i - m]
    <2>1. p \in Seq(S \cup T) /\ q \in Seq(S \cup T)
      <3>1. p \in [1..m -> S \cup T] /\ q \in [1..n -> S \cup T]
        BY <1>1
      <3>. QED  BY <1>1, <3>1, SeqDef
    <2>. QED  BY <2>1, ConcatProperties, LenProperties
  <1>3. /\ \A i \in 1..(m + n) : IF i <= m THEN i \in 1..m ELSE i - m \in 1..n
        /\ \A i \in 1..m : i \in 1..(m + n) /\ i <= m
        /\ \A i \in 1..n : i + m \in 1..(m + n) /\ ~(i + m <= m) /\ i + m - m = i
        /\ \A i, j \in 1..(m + n) : i - m = j - m => i = j
        /\ m + n \in Nat
    BY <1>1
  <1>. HIDE DEF m, n, w
  <1>5. \A i \in 1..(m + n) : w[i] \in S \cup T
    BY <1>1, <1>3, <1>2
  <1>6. w \in [1..(m + n) -> S \cup T]
    BY <1>2, <1>5, LenProperties
  <1>7. \A x \in S \cup T : \E i \in 1..(m + n) : w[i] = x
    <2>1. \A x \in S : \E i \in 1..(m + n) : w[i] = x
      BY <1>1, <1>3, <1>2
    <2>2. ASSUME NEW x \in T
          PROVE  \E i \in 1..(m + n) : w[i] = x
      <3>1. PICK i \in 1..n : q[i] = x
        BY <1>1
      <3>. DEFINE k == i + m
      <3>2. k \in 1..(m + n) /\ ~(k <= m) /\ k - m = i
        BY <1>1, <1>3
      <3>. HIDE DEF k
      <3>3. w[k] = q[k - m]
        BY <1>2, <3>2
      <3>. QED  BY <3>1, <3>2, <3>3
    <2>. QED  BY <2>1, <2>2
  <1>8. ASSUME NEW i \in 1..(m + n), NEW j \in 1..(m + n), w[i] = w[j]
        PROVE  i = j
    <2>1. CASE i <= m /\ j <= m
      BY <1>1, <1>3, <1>2, <1>8, <2>1
    <2>2. CASE ~(i <= m) /\ ~(j <= m)
      <3>1. i - m \in 1..n /\ j - m \in 1..n /\ q[i - m] = q[j - m]
        BY <1>3, <1>2, <1>8, <2>2
      <3>2. i - m = j - m
        BY <1>1, <3>1
      <3>. QED  BY <1>3, <3>2
    <2>3. \A k \in 1..(m + n) : (k <= m => w[k] \in S) /\ (~(k <= m) => w[k] \in T)
      BY <1>1, <1>3, <1>2
    <2>4. ~(w[i] \in S /\ w[i] \in T)
      OBVIOUS
    <2>5. CASE i <= m /\ ~(j <= m)
      BY <1>8, <2>3, <2>4, <2>5
    <2>6. CASE ~(i <= m) /\ j <= m
      BY <1>8, <2>3, <2>4, <2>6
    <2>. QED  BY <2>1, <2>2, <2>5, <2>6
  <1>9. ASSUME NEW k \in Nat, k = m + n
        PROVE  Lists(w, S \cup T)
    <2>1. /\ w \in [1..k -> S \cup T]
          /\ \A i, j \in 1..k : w[i] = w[j] => i = j
          /\ \A x \in S \cup T : \E i \in 1..k : w[i] = x
      BY <1>6, <1>7, <1>8, <1>9
    <2>. QED  BY ONLY <2>1, k \in Nat, ListsOf
  <1>. QED  BY <1>3, <1>9 DEF w

(* A queue turned round lists the same. *)
LEMMA ReverseLists ==
  ASSUME NEW q, NEW S, Lists(q, S)
  PROVE  Lists(Reverse(q), S)
  <1>. DEFINE n == Len(q)
              w == Reverse(q)
  <1>1. /\ q \in [1..n -> S] /\ n \in Nat
        /\ \A i \in 1..n : q[i] \in S
        /\ \A x \in S : \E i \in 1..n : q[i] = x
        /\ \A i, j \in 1..n : q[i] = q[j] => i = j
    BY ListsMeans
  <1>2. w = [i \in 1..n |-> q[(n - i) + 1]]
    BY DEF Reverse
  <1>3. /\ \A i \in 1..n : (n - i) + 1 \in 1..n /\ (n - ((n - i) + 1)) + 1 = i
        /\ \A i, j \in 1..n : (n - i) + 1 = (n - j) + 1 => i = j
    BY <1>1
  <1>4. w \in [1..n -> S] /\ \A i \in 1..n : w[i] = q[(n - i) + 1]
    BY <1>1, <1>2, <1>3
  <1>. HIDE DEF w, n
  <1>6. \A x \in S : \E i \in 1..n : w[i] = x
    <2>. SUFFICES ASSUME NEW x \in S
                  PROVE  \E i \in 1..n : w[i] = x
      OBVIOUS
    <2>1. PICK i \in 1..n : q[i] = x
      BY <1>1
    <2>2. w[(n - i) + 1] = q[(n - ((n - i) + 1)) + 1] /\ (n - i) + 1 \in 1..n
      BY <1>3, <1>4
    <2>3. (n - ((n - i) + 1)) + 1 = i
      BY <1>3
    <2>. QED  BY <2>1, <2>2, <2>3
  <1>7. \A i, j \in 1..n : w[i] = w[j] => i = j
    BY <1>1, <1>3, <1>4
  <1>8. Lists(w, S)
    <2>1. PICK k \in Nat : k = n
      BY <1>1
    <2>2. /\ w \in [1..k -> S]
          /\ \A i, j \in 1..k : w[i] = w[j] => i = j
          /\ \A x \in S : \E i \in 1..k : w[i] = x
      BY <1>4, <1>6, <1>7, <2>1
    <2>. QED  BY ONLY <2>2, k \in Nat, ListsOf
  <1>. QED  BY <1>8 DEF w

(* Without takes out exactly what it is given. *)
LEMMA WithoutLists ==
  ASSUME NEW q, NEW S, Lists(q, S), NEW X
  PROVE  Lists(Without(q, X), S \ X)
  <1>. DEFINE w == Without(q, X)
  <1>1. /\ w \in Seq(S)
        /\ \A k \in DOMAIN w : w[k] \notin X /\ \E i \in DOMAIN q : q[i] = w[k]
        /\ \A i \in DOMAIN q : q[i] \notin X => \E k \in DOMAIN w : w[k] = q[i]
        /\ IsInjective(w)
    BY WithoutRemoves DEF Lists
  <1>. HIDE DEF w
  <1>2. ToSet(w) = S \ X
    BY <1>1, SMTT(30) DEF Lists, ToSet
  <1>3. w \in [1..Len(w) -> S \ X] /\ Len(w) \in Nat
    <2>1. DOMAIN w = 1..Len(w) /\ Len(w) \in Nat /\ w \in [1..Len(w) -> S]
      BY <1>1, LenProperties
    <2>2. \A k \in DOMAIN w : w[k] \in S \ X
      BY <1>2 DEF ToSet
    <2>. QED  BY <2>1, <2>2
  <1>4. w \in Seq(S \ X)
    <2>1. PICK n \in Nat : n = Len(w)
      BY <1>3
    <2>2. w \in [1..n -> S \ X]
      BY <1>3, <2>1
    <2>. QED  BY ONLY <2>1, <2>2, SeqDef
  <1>. QED  BY <1>1, <1>2, <1>4 DEF Lists, w

(* The entries of a queue at some positions, in the same order *)
LEMMA AtPositionsLists ==
  ASSUME NEW q, NEW S, Lists(q, S), NEW I \in SUBSET DOMAIN q
  PROVE  Lists(AtPositions(q, I), {q[i] : i \in I})
  <1>. DEFINE n == Len(q)
              c == Cardinality(I)
              keep == Ascending(I)
              w == AtPositions(q, I)
              T == {q[i] : i \in I}
  <1>1. /\ q \in [1..n -> S] /\ n \in Nat /\ DOMAIN q = 1..n
        /\ \A i, j \in 1..n : q[i] = q[j] => i = j
    BY ListsMeans
  <1>2. I \in SUBSET (1..n)
    BY <1>1
  <1>3. /\ c \in Nat /\ keep \in [1..c -> I]
        /\ \A i, j \in 1..c : i < j => keep[i] < keep[j]
        /\ \A x \in I : \E i \in 1..c : keep[i] = x
    BY <1>1, <1>2, AscendingPositions
  <1>4. \A i, j \in 1..c : keep[i] = keep[j] => i = j
    <2>1. \A i, j \in 1..c : i < j \/ j < i \/ i = j
      BY <1>3
    <2>2. \A i \in 1..c : keep[i] \in Int
      BY <1>2, <1>3
    <2>. QED  BY <1>3, <2>1, <2>2
  <1>5. w = [k \in 1..c |-> q[keep[k]]]
    <2>1. w = [k \in DOMAIN keep |-> q[keep[k]]]
      BY DEF AtPositions
    <2>2. DOMAIN keep = 1..c
      BY <1>3
    <2>. QED  BY <2>1, <2>2
  <1>. HIDE DEF w, keep, c, n
  <1>6. \A k \in 1..c : keep[k] \in I /\ w[k] = q[keep[k]]
    BY <1>3, <1>5
  <1>7. w \in [1..c -> T]
    BY <1>5, <1>6
  <1>8. \A i, j \in 1..c : w[i] = w[j] => i = j
    <2>1. \A k \in 1..c : keep[k] \in 1..n
      BY <1>2, <1>6
    <2>. QED  BY <1>1, <1>4, <1>6, <2>1
  <1>9. \A x \in T : \E i \in 1..c : w[i] = x
    BY <1>3, <1>6
  <1>10. Lists(w, T)
    <2>1. PICK k \in Nat : k = c
      BY <1>3
    <2>2. /\ w \in [1..k -> T]
          /\ \A i, j \in 1..k : w[i] = w[j] => i = j
          /\ \A x \in T : \E i \in 1..k : w[i] = x
      BY <1>7, <1>8, <1>9, <2>1
    <2>. HIDE DEF T
    <2>. QED  BY ONLY <2>2, k \in Nat, ListsOf
  <1>. QED  BY <1>10 DEF w

(* A queue cut after its first n entries *)
LEMMA CutLists ==
  ASSUME NEW q, NEW S, Lists(q, S), NEW n \in 0..Len(q)
  PROVE  /\ ToSet(SubSeq(q, 1, n)) \subseteq S
         /\ Lists(SubSeq(q, 1, n), ToSet(SubSeq(q, 1, n)))
         /\ Len(SubSeq(q, 1, n)) = n
         /\ Lists(SubSeq(q, n + 1, Len(q)), S \ ToSet(SubSeq(q, 1, n)))
  <1>. DEFINE m == Len(q)
              k == m - n
              A == {q[i] : i \in 1..n}
              u == [i \in 1..n |-> q[i]]
              v == [i \in 1..k |-> q[i + n]]
  <1>1. /\ q \in [1..m -> S] /\ m \in Nat
        /\ \A i \in 1..m : q[i] \in S
        /\ \A x \in S : \E i \in 1..m : q[i] = x
        /\ \A i, j \in 1..m : q[i] = q[j] => i = j
    BY ListsMeans
  <1>2. n \in Nat /\ k \in Nat /\ n <= m /\ q \in Seq(S)
    BY <1>1 DEF Lists
  <1>3. SubSeq(q, 1, n) = u
    <2>1. SubSeq(q, 1, n) = [i \in 1..(n - 1 + 1) |-> q[i + 1 - 1]]
      BY <1>1, <1>2 DEF SubSeq
    <2>2. n - 1 + 1 = n /\ \A i \in 1..n : i + 1 - 1 = i
      BY <1>2
    <2>. QED  BY <2>1, <2>2
  <1>4. SubSeq(q, n + 1, m) = v
    <2>. DEFINE w == SubSeq(q, n + 1, m)
    <2>1. n + 1 \in Int /\ m \in Int /\ \A i \in n + 1 .. m : q[i] \in S
      BY <1>1, <1>2
    <2>2. /\ w \in Seq(S) /\ Len(w) = IF n + 1 <= m THEN m - (n + 1) + 1 ELSE 0
          /\ \A i \in 1..(m - (n + 1) + 1) : w[i] = q[n + 1 + i - 1]
      BY <2>1, SubSeqProperties
    <2>3. (IF n + 1 <= m THEN m - (n + 1) + 1 ELSE 0) = k /\ m - (n + 1) + 1 = k
          /\ \A i \in 1..k : n + 1 + i - 1 = i + n
      BY <1>1, <1>2
    <2>. HIDE DEF w, k
    <2>4. w \in [1..k -> S] /\ \A i \in 1..k : w[i] = q[i + n]
      BY <2>2, <2>3, LenProperties
    <2>5. w = v
      BY <2>4
    <2>. QED  BY <2>5 DEF w
  <1>5. /\ \A i \in 1..n : i \in 1..m
        /\ \A i \in 1..k : i + n \in 1..m /\ i + n \notin 1..n
        /\ \A i, j \in 1..k : i + n = j + n => i = j
        /\ \A i \in 1..m : i \in 1..n \/ (i - n \in 1..k /\ (i - n) + n = i)
    BY <1>1, <1>2
  <1>. HIDE DEF m, k
  <1>6. Lists(u, A) /\ Len(u) = n
    <2>1. u \in [1..n -> A] /\ \A i \in 1..n : u[i] = q[i]
      OBVIOUS
    <2>2. \A x \in A : \E i \in 1..n : u[i] = x
      OBVIOUS
    <2>3. \A i, j \in 1..n : u[i] = u[j] => i = j
      BY <1>1, <1>5, <2>1
    <2>4. u \in [1..n -> A] /\ n \in Nat
      BY <1>2, <2>1
    <2>. HIDE DEF u, A
    <2>. QED  BY ONLY <2>2, <2>3, <2>4, ListsOf
  <1>7. ToSet(u) = A
    BY <1>6 DEF Lists
  <1>8. Lists(v, S \ A)
    <2>0. \A i \in 1..k : v[i] = q[i + n]
      OBVIOUS
    <2>1. \A i \in 1..k : q[i + n] \in S \ A
      <3>. SUFFICES ASSUME NEW i \in 1..k, q[i + n] \in A
                    PROVE  FALSE
        BY <1>1, <1>5
      <3>1. PICK j \in 1..n : q[j] = q[i + n]
        OBVIOUS
      <3>2. j = i + n
        BY <1>1, <1>5, <3>1
      <3>. QED  BY <1>5, <3>2
    <2>2. v \in [1..k -> S \ A]
      BY <2>1
    <2>3. \A i, j \in 1..k : v[i] = v[j] => i = j
      BY <1>1, <1>5, <2>0
    <2>4. ASSUME NEW x \in S \ A
          PROVE  \E i \in 1..k : v[i] = x
      <3>1. PICK i \in 1..m : q[i] = x
        BY <1>1
      <3>2. i \notin 1..n
        BY <3>1
      <3>3. i - n \in 1..k /\ (i - n) + n = i
        BY <1>5, <3>2
      <3>. QED  BY <2>0, <3>1, <3>3
    <2>. HIDE DEF v, A
    <2>. QED  BY ONLY <1>2, <2>2, <2>3, <2>4, ListsOf
  <1>9. A \subseteq S
    BY <1>1, <1>5
  <1>. HIDE DEF u, v, A
  <1>. QED  BY <1>3, <1>4, <1>6, <1>7, <1>8, <1>9 DEF m
-----------------------------------------------------------------------------
(* The pool: reference counts and the free queue *)

CacheType == UNION {[D -> Seq(Blocks)] : D \in SUBSET Seq(Token)}
PoolType == [free : Seq(Blocks), ref : [Blocks -> Nat], hash : [Blocks -> Seq(Token)],
             cache : CacheType]

(* The free queue holds the blocks without a reference. *)
Unreferenced(ref) == {b \in Blocks : ref[b] = 0}
FreeExact(p) == Lists(p.free, Unreferenced(p.ref))

(* A list of blocks is a sequence of blocks. *)
LEMMA ListsBlocks ==
  ASSUME NEW q, NEW S \in SUBSET Blocks, Lists(q, S)
  PROVE  q \in Seq(Blocks)
  <1>1. q \in [1..Len(q) -> S] /\ Len(q) \in Nat
    BY ListsMeans
  <1>2. PICK n \in Nat : n = Len(q)
    BY <1>1
  <1>3. q \in [1..n -> Blocks]
    BY <1>1, <1>2
  <1>. QED  BY ONLY <1>2, <1>3, SeqDef

(* One more reference to the blocks S *)
LEMMA ReferencedIs ==
  ASSUME NEW ref \in [Blocks -> Nat], NEW S \in SUBSET Blocks
  PROVE  /\ Referenced(ref, S) \in [Blocks -> Nat]
         /\ \A b \in Blocks : Referenced(ref, S)[b] = IF b \in S THEN ref[b] + 1 ELSE ref[b]
         /\ Unreferenced(Referenced(ref, S)) = Unreferenced(ref) \ S
  <1>1. /\ Referenced(ref, S) \in [Blocks -> Nat]
        /\ \A b \in Blocks : Referenced(ref, S)[b] = IF b \in S THEN ref[b] + 1 ELSE ref[b]
    BY DEF Referenced
  <1>2. \A b \in Blocks : ref[b] \in Nat /\ ref[b] + 1 # 0
    OBVIOUS
  <1>. QED  BY <1>1, <1>2 DEF Unreferenced

(* touch takes the hits nobody uses out of the free queue. *)
LEMMA TouchIs ==
  ASSUME NEW p \in PoolType, FreeExact(p), NEW bs, NEW S \in SUBSET Blocks, Lists(bs, S)
  PROVE  /\ Touch(p, bs) \in PoolType /\ FreeExact(Touch(p, bs))
         /\ Touch(p, bs).ref = Referenced(p.ref, S)
         /\ Touch(p, bs).hash = p.hash /\ Touch(p, bs).cache = p.cache
         /\ Touch(p, bs).free = Without(p.free, {b \in S : p.ref[b] = 0})
  <1>. DEFINE X == {b \in S : p.ref[b] = 0}
              f == Without(p.free, X)
              t == Touch(p, bs)
              U == Unreferenced(p.ref)
  <1>1. ToSet(bs) = S
    BY DEF Lists
  <1>2. p.ref \in [Blocks -> Nat] /\ p.free \in Seq(Blocks)
    BY DEF PoolType
  <1>3. t = [p EXCEPT !.free = f, !.ref = Referenced(p.ref, S)]
    BY <1>1 DEF Touch
  <1>4. Lists(f, U \ X)
    BY WithoutLists DEF FreeExact
  <1>5. U \ X = Unreferenced(Referenced(p.ref, S))
    <2>1. Unreferenced(Referenced(p.ref, S)) = U \ S
      BY <1>2, ReferencedIs
    <2>2. U \ S = U \ X
      BY DEF Unreferenced
    <2>. QED  BY <2>1, <2>2
  <1>6. f \in Seq(Blocks)
    <2>1. U \ X \in SUBSET Blocks
      BY DEF Unreferenced
    <2>. QED  BY <1>4, <2>1, ListsBlocks
  <1>7. Referenced(p.ref, S) \in [Blocks -> Nat]
    BY <1>2, ReferencedIs
  <1>. HIDE DEF f, t, X
  <1>8. t \in PoolType /\ t.free = f /\ t.ref = Referenced(p.ref, S)
        /\ t.hash = p.hash /\ t.cache = p.cache
    BY <1>3, <1>6, <1>7 DEF PoolType
  <1>9. FreeExact(t)
    BY <1>4, <1>5, <1>8 DEF FreeExact
  <1>. QED  BY <1>8, <1>9 DEF t, f, X

(* As many blocks leave the free queue by a touch as the check counts. *)
LEMMA TouchLeaves ==
  ASSUME pool \in PoolType, FreeExact(pool), NEW hit, NEW S \in SUBSET Blocks, Lists(hit, S)
  PROVE  /\ Len(Touch(pool, hit).free) = Len(pool.free) - Evictable(hit)
         /\ Evictable(hit) \in Nat /\ Len(pool.free) \in Nat
  <1>. DEFINE X == {b \in S : pool.ref[b] = 0}
              I == {i \in DOMAIN hit : pool.ref[hit[i]] = 0}
              U == Unreferenced(pool.ref)
              f == Without(pool.free, X)
  <1>1. Lists(pool.free, U) /\ Lists(f, U \ X)
    BY WithoutLists DEF FreeExact
  <1>2. /\ IsFiniteSet(U) /\ Cardinality(U) = Len(pool.free) /\ Len(pool.free) \in Nat
        /\ Cardinality(U \ X) = Len(f)
    BY <1>1, ListsLength
  <1>3. Lists(AtPositions(hit, I), {hit[i] : i \in I})
    BY AtPositionsLists
  <1>4. {hit[i] : i \in I} = X
    BY DEF Lists, ToSet
  <1>5. IsFiniteSet(X) /\ Cardinality(X) = Len(AtPositions(hit, I))
    BY <1>3, <1>4, ListsLength
  <1>6. Len(AtPositions(hit, I)) = Cardinality(I) /\ Cardinality(I) \in Nat
    <2>1. DOMAIN hit = 1..Len(hit) /\ Len(hit) \in Nat
      BY ListsMeans
    <2>2. I \in SUBSET (1..Len(hit))
      BY <2>1
    <2>3. Cardinality(I) \in Nat /\ Ascending(I) \in [1..Cardinality(I) -> I]
      BY <2>1, <2>2, AscendingPositions
    <2>4. DOMAIN AtPositions(hit, I) = DOMAIN Ascending(I) /\ DOMAIN Ascending(I) = 1..Cardinality(I)
      BY <2>3 DEF AtPositions
    <2>5. AtPositions(hit, I) \in Seq({hit[i] : i \in I})
      BY <1>3 DEF Lists
    <2>. HIDE DEF I
    <2>. QED  BY <2>3, <2>4, <2>5, LenProperties
  <1>7. Evictable(hit) = Cardinality(I)
    BY DEF Evictable
  <1>8. Cardinality(U \ X) = Cardinality(U) - Cardinality(X)
    <2>1. X \subseteq U
      BY DEF Unreferenced
    <2>2. U \cap X = X
      BY <2>1
    <2>. HIDE DEF X, U
    <2>3. Cardinality(U \ X) = Cardinality(U) - Cardinality(U \cap X)
      BY <1>2, FS_Difference
    <2>. QED  BY <2>2, <2>3
  <1>9. Touch(pool, hit).free = f
    BY TouchIs
  <1>. HIDE DEF X, U, I, f
  <1>. QED  BY <1>2, <1>5, <1>6, <1>7, <1>8, <1>9

(* RemoveCachedBlockHashes leaves the counts and the queue alone. *)
LEMMA RemovedIs ==
  ASSUME NEW p \in PoolType, NEW S \in SUBSET Blocks
  PROVE  LET t == RemoveCachedBlockHashes(p, S)
         IN /\ t \in PoolType
            /\ t.free = p.free /\ t.ref = p.ref
            /\ t.cache = MapPop(p.cache, p.hash, S)
            /\ t.hash = [b \in Blocks |-> IF b \in S THEN NoHash ELSE p.hash[b]]
  <1>. DEFINE c == MapPop(p.cache, p.hash, S)
              h == [b \in Blocks |-> IF b \in S THEN NoHash ELSE p.hash[b]]
              t == RemoveCachedBlockHashes(p, S)
  <1>1. t = [p EXCEPT !.cache = c, !.hash = h]
    BY DEF RemoveCachedBlockHashes
  <1>2. h \in [Blocks -> Seq(Token)]
    <2>1. NoHash \in Seq(Token)
      BY DEF NoHash
    <2>. QED  BY <2>1 DEF PoolType
  <1>3. c \in CacheType
    <2>. DEFINE left == [x \in DOMAIN p.cache |-> Without(p.cache[x], {b \in S : p.hash[b] = x})]
                D == {k \in DOMAIN p.cache : left[k] # <<>>}
    <2>1. p.cache \in CacheType
      BY DEF PoolType
    <2>2. PICK E \in SUBSET Seq(Token) : p.cache \in [E -> Seq(Blocks)]
      BY <2>1 DEF CacheType
    <2>3. \A x \in DOMAIN p.cache : left[x] \in Seq(Blocks)
      <3>. SUFFICES ASSUME NEW x \in DOMAIN p.cache
                    PROVE  Without(p.cache[x], {b \in S : p.hash[b] = x}) \in Seq(Blocks)
        OBVIOUS
      <3>1. p.cache[x] \in Seq(Blocks)
        BY <2>2
      <3>. QED  BY <3>1, WithoutRemoves
    <2>4. c = [x \in D |-> left[x]]
      BY DEF MapPop
    <2>5. D \in SUBSET Seq(Token) /\ \A x \in D : left[x] \in Seq(Blocks)
      BY <2>2, <2>3
    <2>. HIDE DEF left, D, c
    <2>6. c \in [D -> Seq(Blocks)]
      BY <2>4, <2>5
    <2>. QED  BY <2>5, <2>6 DEF CacheType
  <1>. HIDE DEF c, h, t
  <1>4. t \in PoolType /\ t.free = p.free /\ t.ref = p.ref /\ t.cache = c /\ t.hash = h
    BY <1>1, <1>2, <1>3 DEF PoolType
  <1>. QED  BY <1>4 DEF c, h, t

(* get_new_blocks hands out the head of the free queue. *)
LEMMA GetNewBlocksIs ==
  ASSUME NEW p \in PoolType, FreeExact(p), NEW n \in 0..Len(p.free)
  PROVE  LET new == ToSet(NewBlocks(p, n))
             t == GetNewBlocks(p, n)
             cut == RemoveCachedBlockHashes(p, new)
         IN /\ new \in SUBSET Unreferenced(p.ref) /\ Lists(NewBlocks(p, n), new)
            /\ Len(NewBlocks(p, n)) = n
            /\ t \in PoolType /\ FreeExact(t)
            /\ t.ref = Referenced(p.ref, new)
            /\ t.hash = cut.hash /\ t.cache = cut.cache
  <1>. DEFINE new == ToSet(NewBlocks(p, n))
              cut == RemoveCachedBlockHashes(p, new)
              f == SubSeq(p.free, n + 1, Len(p.free))
              t == GetNewBlocks(p, n)
              U == Unreferenced(p.ref)
              g == Referenced(p.ref, new)
  <1>1. Lists(p.free, U)
    BY DEF FreeExact
  <1>2. /\ new \subseteq U /\ Lists(NewBlocks(p, n), new) /\ Len(NewBlocks(p, n)) = n
        /\ Lists(f, U \ new)
    BY <1>1, CutLists DEF NewBlocks
  <1>3. U \in SUBSET Blocks /\ p.ref \in [Blocks -> Nat]
    BY DEF Unreferenced, PoolType
  <1>4. new \in SUBSET Blocks
    BY <1>2, <1>3
  <1>. HIDE DEF new
  <1>5. cut \in PoolType /\ cut.free = p.free /\ cut.ref = p.ref
    BY <1>4, RemovedIs
  <1>6. t = [cut EXCEPT !.free = f, !.ref = g]
    BY <1>5 DEF GetNewBlocks, new
  <1>7. g \in [Blocks -> Nat] /\ Unreferenced(g) = U \ new
    BY <1>3, <1>4, ReferencedIs
  <1>8. f \in Seq(Blocks)
    <2>1. U \ new \in SUBSET Blocks
      BY <1>3
    <2>. QED  BY <1>2, <2>1, ListsBlocks
  <1>. HIDE DEF cut, f, t, g
  <1>9. /\ t \in PoolType /\ t.free = f /\ t.ref = g
        /\ t.hash = cut.hash /\ t.cache = cut.cache
    BY <1>5, <1>6, <1>7, <1>8 DEF PoolType
  <1>10. FreeExact(t)
    BY <1>2, <1>7, <1>9 DEF FreeExact
  <1>. QED  BY <1>2, <1>9, <1>10 DEF cut, t, g, new

(* One reference less to the blocks S *)
Dereferenced(ref, S) == [b \in Blocks |-> IF b \in S THEN ref[b] - 1 ELSE ref[b]]

(* free_blocks returns the blocks that lose their last reference. *)
LEMMA FreeBlocksIs ==
  ASSUME NEW p \in PoolType, FreeExact(p), NEW bs, NEW S \in SUBSET Blocks, Lists(bs, S),
         \A b \in S : p.ref[b] > 0
  PROVE  /\ FreeBlocks(p, bs) \in PoolType /\ FreeExact(FreeBlocks(p, bs))
         /\ FreeBlocks(p, bs).ref = Dereferenced(p.ref, S)
         /\ FreeBlocks(p, bs).hash = p.hash /\ FreeBlocks(p, bs).cache = p.cache
  <1>. DEFINE g == Dereferenced(p.ref, S)
              first == {i \in DOMAIN bs : g[bs[i]] = 0 /\ p.hash[bs[i]] = NoHash}
              last == {i \in DOMAIN bs : g[bs[i]] = 0 /\ p.hash[bs[i]] # NoHash}
              F == {bs[i] : i \in first}
              L == {bs[i] : i \in last}
              U == Unreferenced(p.ref)
              f == AtPositions(bs, first) \o p.free \o AtPositions(bs, last)
              t == FreeBlocks(p, bs)
  <1>1. ToSet(bs) = S /\ (\A i \in DOMAIN bs : bs[i] \in S)
        /\ \A b \in S : \E i \in DOMAIN bs : bs[i] = b
    BY DEF Lists, ToSet
  <1>2. p.ref \in [Blocks -> Nat]
    BY DEF PoolType
  <1>3. g \in [Blocks -> Nat] /\ \A b \in Blocks : g[b] = IF b \in S THEN p.ref[b] - 1 ELSE p.ref[b]
    BY <1>2 DEF Dereferenced
  <1>4. t = [p EXCEPT !.ref = g, !.free = f]
    BY <1>1 DEF FreeBlocks, Dereferenced
  <1>5. Lists(AtPositions(bs, first), F) /\ Lists(AtPositions(bs, last), L)
    <2>1. first \in SUBSET DOMAIN bs /\ last \in SUBSET DOMAIN bs
      OBVIOUS
    <2>. HIDE DEF first, last
    <2>. QED  BY <2>1, AtPositionsLists
  <1>6. Lists(p.free, U)
    BY DEF FreeExact
  <1>. HIDE DEF g
  <1>7. F = {b \in S : g[b] = 0 /\ p.hash[b] = NoHash} /\ L = {b \in S : g[b] = 0 /\ p.hash[b] # NoHash}
    BY <1>1
  <1>. HIDE DEF F, L
  <1>8. F \cap U = {} /\ (F \cup U) \cap L = {}
    <2>1. \A b \in S : p.ref[b] # 0
      BY <1>2
    <2>. QED  BY <1>7, <2>1 DEF Unreferenced
  <1>9. (F \cup U) \cup L = Unreferenced(g)
    <2>1. \A b \in Blocks \ S : g[b] = p.ref[b]
      BY <1>3
    <2>2. \A b \in S : p.ref[b] # 0
      BY <1>2
    <2>. QED  BY <1>7, <2>1, <2>2 DEF Unreferenced
  <1>10. Lists(f, (F \cup U) \cup L)
    <2>1. Lists(AtPositions(bs, first) \o p.free, F \cup U)
      BY <1>5, <1>6, <1>8, ConcatLists
    <2>. QED  BY <1>5, <1>8, <2>1, ConcatLists
  <1>11. f \in Seq(Blocks)
    <2>1. Unreferenced(g) \in SUBSET Blocks
      BY DEF Unreferenced
    <2>. QED  BY <1>9, <1>10, <2>1, ListsBlocks
  <1>. HIDE DEF f, t
  <1>12. t \in PoolType /\ t.free = f /\ t.ref = g /\ t.hash = p.hash /\ t.cache = p.cache
    BY <1>3, <1>4, <1>11 DEF PoolType
  <1>13. FreeExact(t)
    BY <1>9, <1>10, <1>12 DEF FreeExact
  <1>. QED  BY <1>12, <1>13 DEF t, g
-----------------------------------------------------------------------------
(* The pool: the hash table *)

(* The blocks under a hash are those that carry it. *)
Hashed(p) ==
  /\ \A h \in DOMAIN p.cache : p.cache[h] # <<>> /\ IsInjective(p.cache[h])
  /\ \A b \in Blocks, h \in DOMAIN p.cache : b \in ToSet(p.cache[h]) <=> p.hash[b] = h
  /\ \A b \in Blocks : p.hash[b] # NoHash => p.hash[b] \in DOMAIN p.cache
  /\ NoHash \notin DOMAIN p.cache

(* The same: every entry lists the blocks with its hash. *)
LEMMA HashedMeans ==
  ASSUME NEW p \in PoolType
  PROVE  Hashed(p) <=>
           /\ \A h \in DOMAIN p.cache : /\ Lists(p.cache[h], {b \in Blocks : p.hash[b] = h})
                                        /\ \E b \in Blocks : p.hash[b] = h
           /\ \A b \in Blocks : p.hash[b] # NoHash => p.hash[b] \in DOMAIN p.cache
           /\ NoHash \notin DOMAIN p.cache
  <1>1. \A h \in DOMAIN p.cache : p.cache[h] \in Seq(Blocks)
    <2>1. p.cache \in CacheType
      BY DEF PoolType
    <2>2. PICK E \in SUBSET Seq(Token) : p.cache \in [E -> Seq(Blocks)]
      BY <2>1 DEF CacheType
    <2>. QED  BY <2>2
  <1>2. ASSUME NEW h \in DOMAIN p.cache
        PROVE  /\ p.cache[h] # <<>> /\ IsInjective(p.cache[h])
               /\ \A b \in Blocks : b \in ToSet(p.cache[h]) <=> p.hash[b] = h
               <=> /\ Lists(p.cache[h], {b \in Blocks : p.hash[b] = h})
                   /\ \E b \in Blocks : p.hash[b] = h
    <2>. DEFINE q == p.cache[h]
                S == {b \in Blocks : p.hash[b] = h}
    <2>1. q \in Seq(Blocks) /\ Len(q) \in Nat /\ DOMAIN q = 1..Len(q)
          /\ \A i \in 1..Len(q) : q[i] \in Blocks
      BY <1>1, LenProperties, ElementOfSeq
    <2>. HIDE DEF q
    <2>2. ASSUME q # <<>>, IsInjective(q), \A b \in Blocks : b \in ToSet(q) <=> p.hash[b] = h
          PROVE  Lists(q, S) /\ \E b \in Blocks : p.hash[b] = h
      <3>1. ToSet(q) = S
        BY <2>1, <2>2 DEF ToSet
      <3>2. q \in Seq(S)
        <4>1. PICK n \in Nat : n = Len(q)
          BY <2>1
        <4>2. \A i \in 1..n : q[i] \in S
          BY <2>1, <3>1, <4>1 DEF ToSet
        <4>3. q \in [1..n -> S]
          <5>1. q \in [1..Len(q) -> Blocks]
            BY <2>1, LenProperties
          <5>. QED  BY <4>1, <4>2, <5>1
        <4>. HIDE DEF S
        <4>. QED  BY ONLY <4>1, <4>3, SeqDef
      <3>3. 1 \in 1..Len(q)
        BY <2>1, <2>2, EmptySeq
      <3>. QED  BY <2>1, <2>2, <3>1, <3>2, <3>3 DEF Lists, ToSet
    <2>3. ASSUME Lists(q, S), NEW a \in Blocks, p.hash[a] = h
          PROVE  q # <<>> /\ IsInjective(q) /\ \A b \in Blocks : b \in ToSet(q) <=> p.hash[b] = h
      <3>1. IsInjective(q) /\ ToSet(q) = S
        BY <2>3 DEF Lists
      <3>2. q # <<>>
        BY <2>3, <3>1 DEF ToSet
      <3>. QED  BY <3>1, <3>2
    <2>. QED  BY <2>2, <2>3 DEF q
  <1>. QED  BY <1>2 DEF Hashed

(* Blocks that are handed out or renamed leave the hash table. *)
LEMMA RemovedHashed ==
  ASSUME NEW p \in PoolType, Hashed(p), NEW S \in SUBSET Blocks
  PROVE  Hashed(RemoveCachedBlockHashes(p, S))
  <1>. DEFINE t == RemoveCachedBlockHashes(p, S)
              left == [h \in DOMAIN p.cache |-> Without(p.cache[h], {b \in S : p.hash[b] = h})]
              D == {k \in DOMAIN p.cache : left[k] # <<>>}
              Q(h) == {b \in Blocks : p.hash[b] = h}
              N(h) == {b \in Blocks : t.hash[b] = h}
  <1>1. /\ t \in PoolType
        /\ t.cache = MapPop(p.cache, p.hash, S)
        /\ t.hash = [b \in Blocks |-> IF b \in S THEN NoHash ELSE p.hash[b]]
    BY RemovedIs
  <1>2. t.cache = [h \in D |-> left[h]]
    BY <1>1 DEF MapPop
  <1>3. /\ \A h \in DOMAIN p.cache : Lists(p.cache[h], Q(h))
        /\ \A b \in Blocks : p.hash[b] # NoHash => p.hash[b] \in DOMAIN p.cache
        /\ NoHash \notin DOMAIN p.cache
    BY HashedMeans
  <1>4. \A b \in Blocks : t.hash[b] = IF b \in S THEN NoHash ELSE p.hash[b]
    BY <1>1
  <1>. HIDE DEF t
  <1>5. ASSUME NEW h \in DOMAIN p.cache
        PROVE  Lists(left[h], N(h))
    <2>1. Lists(left[h], Q(h) \ {b \in S : p.hash[b] = h})
      BY <1>3, WithoutLists
    <2>2. Q(h) \ {b \in S : p.hash[b] = h} = N(h)
      <3>1. h # NoHash
        BY <1>3
      <3>. QED  BY <1>4, <3>1
    <2>. QED  BY <2>1, <2>2
  <1>6. ASSUME NEW h \in D
        PROVE  Lists(t.cache[h], N(h)) /\ \E b \in Blocks : t.hash[b] = h
    <2>1. t.cache[h] = left[h] /\ left[h] # <<>>
      BY <1>2
    <2>2. N(h) # {}
      BY <1>5, <2>1, EmptyLists
    <2>. QED  BY <1>5, <2>1, <2>2
  <1>7. ASSUME NEW b \in Blocks, t.hash[b] # NoHash
        PROVE  t.hash[b] \in D
    <2>1. b \notin S /\ t.hash[b] = p.hash[b] /\ p.hash[b] \in DOMAIN p.cache
      BY <1>3, <1>4, <1>7
    <2>2. Lists(left[p.hash[b]], N(p.hash[b])) /\ b \in N(p.hash[b])
      BY <1>5, <2>1
    <2>3. left[p.hash[b]] # <<>>
      <3>1. ASSUME NEW q, NEW S1, Lists(q, S1), NEW x \in S1
            PROVE  q # <<>>
        BY <3>1 DEF Lists, ToSet
      <3>. HIDE DEF left, N
      <3>. QED  BY <2>2, <3>1
    <2>. QED  BY <2>1, <2>3
  <1>8. DOMAIN t.cache = D /\ NoHash \notin D
    BY <1>2, <1>3
  <1>. HIDE DEF D
  <1>9. Hashed(t)
    BY <1>1, <1>6, <1>7, <1>8, HashedMeans
  <1>. QED  BY <1>9 DEF t

(* Multiples of the block size *)
LEMMA Multiples ==
  /\ \A i \in Nat \ {0} : i * BlockSize \in Nat \ {0}
  /\ \A i, j \in Int : i <= j => i * BlockSize <= j * BlockSize
  /\ \A i, j \in Int : i * BlockSize <= j * BlockSize => i <= j
  /\ \A i \in Int : i * BlockSize \in Int
  <1>. DEFINE B == BlockSize
  <1>1. B \in Nat \ {0}
    BY Numbers
  <1>. HIDE DEF B
  <1>2. \A i \in Int : i * B \in Int
    BY <1>1
  <1>3. ASSUME NEW i \in Int, NEW j \in Int, i <= j
        PROVE  i * B <= j * B
    <2>1. PICK d \in Nat : j = i + d
      <3>1. j - i \in Nat /\ j = i + (j - i)
        BY <1>3
      <3>. QED  BY <3>1
    <2>2. j * B = i * B + d * B /\ d * B \in Nat
      BY <1>1, <2>1
    <2>. QED  BY <1>2, <2>2
  <1>4. ASSUME NEW i \in Int, NEW j \in Int, j < i
        PROVE  j * B < i * B
    <2>1. PICK d \in Nat : i = j + 1 + d
      <3>1. i - j - 1 \in Nat /\ i = j + 1 + (i - j - 1)
        BY <1>4
      <3>. QED  BY <3>1
    <2>2. i * B = j * B + B + d * B /\ d * B \in Nat
      BY <1>1, <2>1
    <2>. QED  BY <1>1, <1>2, <2>2
  <1>5. \A i \in Nat \ {0} : i * B \in Nat \ {0}
    <2>1. 0 * B = 0
      BY <1>1
    <2>. QED  BY <1>2, <1>4, <2>1
  <1>6. \A i, j \in Int : i * B <= j * B => i <= j
    BY <1>2, <1>4
  <1>. QED  BY <1>2, <1>3, <1>5, <1>6 DEF B

(* The hash of a full block *)
LEMMA BlockHashIs ==
  ASSUME NEW toks \in Seq(Token), NEW i \in Nat \ {0}, i * BlockSize <= Len(toks)
  PROVE  /\ BlockHash(toks, i) \in Seq(Token) /\ BlockHash(toks, i) # NoHash
         /\ Len(BlockHash(toks, i)) = i * BlockSize
  <1>. DEFINE n == i * BlockSize
  <1>1. n \in Nat \ {0} /\ Len(toks) \in Nat /\ n <= Len(toks)
    BY Multiples, LenProperties
  <1>2. BlockHash(toks, i) = SubSeq(toks, 1, n)
    BY DEF BlockHash
  <1>. HIDE DEF n
  <1>3. n \in 1..Len(toks)
    BY <1>1
  <1>4. SubSeq(toks, 1, n) \in Seq(Token) /\ Len(SubSeq(toks, 1, n)) = n
    BY <1>1, <1>3, SubSeqProperties
  <1>5. SubSeq(toks, 1, n) # <<>>
    BY <1>1, <1>4
  <1>. QED  BY <1>2, <1>4, <1>5 DEF NoHash, n

(* The blocks cache_full_blocks gives a hash to *)
Renamed(from, upto) == from + 1 .. upto

(* What may be cached: full blocks of a table without repetitions *)
Cacheable(table, toks, from, upto) ==
  /\ table \in Seq(Blocks) /\ IsInjective(table) /\ toks \in Seq(Token)
  /\ from \in Nat /\ upto \in Int /\ upto <= Len(table) /\ upto * BlockSize <= Len(toks)

LEMMA RenamedAre ==
  ASSUME NEW table, NEW toks, NEW from, NEW upto, Cacheable(table, toks, from, upto)
  PROVE  LET new == Renamed(from, upto)
         IN /\ new \in SUBSET DOMAIN table
            /\ {table[i] : i \in new} \in SUBSET Blocks
            /\ \A i \in new : /\ table[i] \in Blocks
                              /\ BlockHash(toks, i) \in Seq(Token) /\ BlockHash(toks, i) # NoHash
            /\ \A i, j \in new : table[i] = table[j] => i = j
  <1>. DEFINE new == Renamed(from, upto)
  <1>1. /\ table \in Seq(Blocks) /\ Len(table) \in Nat /\ DOMAIN table = 1..Len(table)
        /\ \A i \in 1..Len(table) : table[i] \in Blocks
        /\ \A i, j \in 1..Len(table) : table[i] = table[j] => i = j
    BY LenProperties, ElementOfSeq DEF Cacheable, IsInjective
  <1>2. new \in SUBSET (1..Len(table)) /\ \A i \in new : i \in Nat \ {0} /\ i <= upto
    BY <1>1 DEF Cacheable, Renamed
  <1>. HIDE DEF new
  <1>3. ASSUME NEW i \in new
        PROVE  BlockHash(toks, i) \in Seq(Token) /\ BlockHash(toks, i) # NoHash
    <2>1. i \in Nat \ {0} /\ i <= upto /\ upto \in Int /\ i \in Int
      BY <1>2 DEF Cacheable
    <2>2. i * BlockSize <= upto * BlockSize
      BY <2>1, Multiples
    <2>3. i * BlockSize \in Int /\ upto * BlockSize \in Int /\ upto * BlockSize <= Len(toks)
      BY <2>1, Multiples DEF Cacheable
    <2>4. toks \in Seq(Token) /\ Len(toks) \in Nat
      BY LenProperties DEF Cacheable
    <2>5. i * BlockSize <= Len(toks)
      BY ONLY <2>2, <2>3, <2>4
    <2>. QED  BY <2>1, <2>4, <2>5, BlockHashIs
  <1>4. \A i \in new : table[i] \in Blocks
    BY <1>1, <1>2
  <1>5. {table[i] : i \in new} \in SUBSET Blocks
    BY <1>4
  <1>. QED  BY <1>1, <1>2, <1>3, <1>4, <1>5 DEF new

(* cache_full_blocks as a change of the two maps: the pool t after it *)
WithFullCached(t, p, table, toks, from, upto) ==
  LET new == Renamed(from, upto)
      cut == RemoveCachedBlockHashes(p, {table[i] : i \in new})
  IN /\ t \in PoolType /\ t.free = p.free /\ t.ref = p.ref
     /\ t.cache = MapInsert(cut.cache, table, [i \in new |-> BlockHash(toks, i)])
     /\ \A i \in new : t.hash[table[i]] = BlockHash(toks, i)
     /\ \A b \in Blocks : (\A i \in new : table[i] # b) => t.hash[b] = cut.hash[b]

LEMMA CacheFullIs ==
  ASSUME NEW p \in PoolType, NEW table, NEW toks, NEW from, NEW upto,
         Cacheable(table, toks, from, upto)
  PROVE  WithFullCached(CacheFullBlocks(p, table, toks, from, upto), p, table, toks, from, upto)
  <1>. DEFINE new == Renamed(from, upto)
              cut == RemoveCachedBlockHashes(p, {table[i] : i \in new})
              t == CacheFullBlocks(p, table, toks, from, upto)
              hs == [i \in new |-> BlockHash(toks, i)]
              at(b) == {i \in new : table[i] = b}
              c == MapInsert(cut.cache, table, hs)
              g == [b \in Blocks |-> IF at(b) # {} THEN hs[CHOOSE i \in at(b) : TRUE] ELSE cut.hash[b]]
  <1>1. /\ new \in SUBSET DOMAIN table
        /\ {table[i] : i \in new} \in SUBSET Blocks
        /\ \A i \in new : /\ table[i] \in Blocks
                          /\ BlockHash(toks, i) \in Seq(Token) /\ BlockHash(toks, i) # NoHash
        /\ \A i, j \in new : table[i] = table[j] => i = j
    BY RenamedAre
  <1>2. cut \in PoolType /\ cut.free = p.free /\ cut.ref = p.ref
    BY <1>1, RemovedIs
  <1>3. t = [cut EXCEPT !.cache = c, !.hash = g]
    BY DEF CacheFullBlocks, Renamed
  <1>. HIDE DEF new, cut
  <1>4. \A i \in new : hs[i] = BlockHash(toks, i)
    OBVIOUS
  <1>5. g \in [Blocks -> Seq(Token)]
    <2>1. ASSUME NEW b \in Blocks
          PROVE  g[b] \in Seq(Token)
      <3>1. CASE at(b) # {}
        <4>1. (CHOOSE i \in at(b) : TRUE) \in at(b)
          BY <3>1
        <4>. QED  BY <1>1, <1>4, <3>1, <4>1
      <3>2. CASE at(b) = {}
        BY <1>2, <3>2 DEF PoolType
      <3>. QED  BY <3>1, <3>2
    <2>. QED  BY <2>1
  <1>6. c \in CacheType
    <2>. DEFINE old(h) == IF h \in DOMAIN cut.cache THEN cut.cache[h] ELSE <<>>
                I(h) == {i \in DOMAIN hs : hs[i] = h}
                D == DOMAIN cut.cache \cup {hs[i] : i \in DOMAIN hs}
    <2>1. c = [h \in D |-> old(h) \o AtPositions(table, I(h))]
      BY DEF MapInsert
    <2>2. PICK E \in SUBSET Seq(Token) : cut.cache \in [E -> Seq(Blocks)]
      BY <1>2 DEF PoolType, CacheType
    <2>3. D \in SUBSET Seq(Token)
      BY <1>1, <1>4, <2>2
    <2>4. ASSUME NEW h
          PROVE  old(h) \o AtPositions(table, I(h)) \in Seq(Blocks)
      <3>1. old(h) \in Seq(Blocks)
        BY <2>2
      <3>2. I(h) \in SUBSET DOMAIN table
        BY <1>1
      <3>3. table \in Seq(Blocks) /\ Lists(table, ToSet(table))
        BY InjectiveLists DEF Cacheable
      <3>4. Lists(AtPositions(table, I(h)), {table[i] : i \in I(h)})
        <4>. HIDE DEF I
        <4>. QED  BY <3>2, <3>3, AtPositionsLists
      <3>5. {table[i] : i \in I(h)} \in SUBSET Blocks
        BY <1>1
      <3>6. AtPositions(table, I(h)) \in Seq(Blocks)
        <4>. HIDE DEF I
        <4>. QED  BY <3>4, <3>5, ListsBlocks
      <3>. HIDE DEF old, I
      <3>. QED  BY <3>1, <3>6, ConcatProperties
    <2>. HIDE DEF D, old, I, c
    <2>5. c \in [D -> Seq(Blocks)]
      BY <2>1, <2>4
    <2>. QED  BY <2>3, <2>5 DEF CacheType
  <1>7. /\ \A i \in new : g[table[i]] = BlockHash(toks, i)
        /\ \A b \in Blocks : (\A i \in new : table[i] # b) => g[b] = cut.hash[b]
    <2>1. ASSUME NEW i \in new
          PROVE  g[table[i]] = BlockHash(toks, i)
      <3>1. at(table[i]) = {i} /\ table[i] \in Blocks
        BY <1>1
      <3>2. (CHOOSE j \in at(table[i]) : TRUE) = i
        BY <3>1
      <3>. QED  BY <1>4, <3>1, <3>2
    <2>2. ASSUME NEW b \in Blocks, \A i \in new : table[i] # b
          PROVE  g[b] = cut.hash[b]
      <3>1. at(b) = {}
        BY <2>2
      <3>. QED  BY <3>1
    <2>. QED  BY <2>1, <2>2
  <1>. HIDE DEF g, c, t, hs
  <1>8. t \in PoolType /\ t.free = p.free /\ t.ref = p.ref /\ t.cache = c /\ t.hash = g
    BY <1>2, <1>3, <1>5, <1>6 DEF PoolType
  <1>. QED  BY <1>7, <1>8 DEF WithFullCached, new, cut, t, c, hs

(* It leaves the counts and the free queue alone. *)
LEMMA CacheFullFrame ==
  ASSUME NEW p \in PoolType, NEW table, NEW toks, NEW from, NEW upto,
         Cacheable(table, toks, from, upto)
  PROVE  /\ CacheFullBlocks(p, table, toks, from, upto) \in PoolType
         /\ CacheFullBlocks(p, table, toks, from, upto).free = p.free
         /\ CacheFullBlocks(p, table, toks, from, upto).ref = p.ref
  <1>1. ASSUME NEW t, WithFullCached(t, p, table, toks, from, upto)
        PROVE  t \in PoolType /\ t.free = p.free /\ t.ref = p.ref
    BY <1>1 DEF WithFullCached
  <1>. QED  BY <1>1, CacheFullIs

(* Caching full blocks keeps the two maps in step. *)
LEMMA CacheFullHashed ==
  ASSUME NEW p \in PoolType, Hashed(p), NEW table, NEW toks, NEW from, NEW upto,
         Cacheable(table, toks, from, upto)
  PROVE  Hashed(CacheFullBlocks(p, table, toks, from, upto))
  <1>. DEFINE new == Renamed(from, upto)
              T == {table[i] : i \in new}
              cut == RemoveCachedBlockHashes(p, T)
              t == CacheFullBlocks(p, table, toks, from, upto)
              hs == [i \in new |-> BlockHash(toks, i)]
              old(h) == IF h \in DOMAIN cut.cache THEN cut.cache[h] ELSE <<>>
              I(h) == {i \in new : BlockHash(toks, i) = h}
              N(h) == {table[i] : i \in I(h)}
              Q(h) == {b \in Blocks : cut.hash[b] = h}
              D == DOMAIN cut.cache \cup {BlockHash(toks, i) : i \in new}
  <1>1. /\ new \in SUBSET DOMAIN table
        /\ T \in SUBSET Blocks
        /\ \A i \in new : /\ table[i] \in Blocks
                          /\ BlockHash(toks, i) \in Seq(Token) /\ BlockHash(toks, i) # NoHash
        /\ \A i, j \in new : table[i] = table[j] => i = j
    BY RenamedAre
  <1>2. /\ cut \in PoolType /\ Hashed(cut)
        /\ cut.hash = [b \in Blocks |-> IF b \in T THEN NoHash ELSE p.hash[b]]
    <2>. HIDE DEF T
    <2>. QED  BY <1>1, RemovedIs, RemovedHashed
  <1>3. /\ t \in PoolType
        /\ t.cache = MapInsert(cut.cache, table, hs)
        /\ \A i \in new : t.hash[table[i]] = BlockHash(toks, i)
        /\ \A b \in Blocks : (\A i \in new : table[i] # b) => t.hash[b] = cut.hash[b]
    <2>1. WithFullCached(t, p, table, toks, from, upto)
      BY CacheFullIs
    <2>. QED  BY <2>1 DEF WithFullCached
  <1>4. /\ \A h \in DOMAIN cut.cache : /\ Lists(cut.cache[h], Q(h))
                                       /\ \E b \in Blocks : cut.hash[b] = h
        /\ \A b \in Blocks : cut.hash[b] # NoHash => cut.hash[b] \in DOMAIN cut.cache
        /\ NoHash \notin DOMAIN cut.cache
    BY <1>2, HashedMeans
  <1>. HIDE DEF new, cut, t
  <1>5. t.cache = [h \in D |-> old(h) \o AtPositions(table, I(h))]
    <2>1. DOMAIN hs = new /\ \A i \in new : hs[i] = BlockHash(toks, i)
      OBVIOUS
    <2>2. {hs[i] : i \in DOMAIN hs} = {BlockHash(toks, i) : i \in new}
      BY <2>1
    <2>3. \A h : {i \in DOMAIN hs : hs[i] = h} = I(h)
      BY <2>1
    <2>4. t.cache = [h \in DOMAIN cut.cache \cup {hs[i] : i \in DOMAIN hs} |->
                       old(h) \o AtPositions(table, {i \in DOMAIN hs : hs[i] = h})]
      BY <1>3 DEF MapInsert
    <2>. HIDE DEF hs, old, I
    <2>. QED  BY <2>2, <2>3, <2>4
  <1>6. ASSUME NEW h \in D
        PROVE  /\ Lists(t.cache[h], {b \in Blocks : t.hash[b] = h})
               /\ \E b \in Blocks : t.hash[b] = h
               /\ h # NoHash
    <2>1. h # NoHash
      BY <1>1, <1>4
    <2>2. Lists(old(h), Q(h))
      <3>1. CASE h \in DOMAIN cut.cache
        BY <1>4, <3>1
      <3>2. CASE h \notin DOMAIN cut.cache
        <4>1. Q(h) = {}
          BY <1>4, <2>1, <3>2
        <4>. HIDE DEF Q
        <4>. QED  BY <3>2, <4>1, EmptyLists
      <3>. QED  BY <3>1, <3>2
    <2>3. Lists(AtPositions(table, I(h)), N(h))
      <3>1. Lists(table, ToSet(table))
        BY InjectiveLists DEF Cacheable
      <3>2. I(h) \in SUBSET DOMAIN table
        BY <1>1
      <3>. HIDE DEF I
      <3>. QED  BY <3>1, <3>2, AtPositionsLists
    <2>4. Q(h) \cap N(h) = {}
      <3>1. \A b \in T : cut.hash[b] = NoHash
        BY <1>1, <1>2
      <3>2. N(h) \subseteq T
        OBVIOUS
      <3>. QED  BY <2>1, <3>1, <3>2
    <2>5. Q(h) \cup N(h) = {b \in Blocks : t.hash[b] = h}
      <3>1. ASSUME NEW b \in Blocks
            PROVE  b \in Q(h) \cup N(h) <=> t.hash[b] = h
        <4>1. CASE \E i \in new : table[i] = b
          <5>1. PICK i \in new : table[i] = b
            BY <4>1
          <5>2. t.hash[b] = BlockHash(toks, i) /\ b \in T /\ cut.hash[b] = NoHash
            BY <1>1, <1>2, <1>3, <5>1
          <5>3. b \notin Q(h)
            BY <2>1, <5>2
          <5>4. b \in N(h) <=> BlockHash(toks, i) = h
            BY <1>1, <5>1
          <5>. QED  BY <5>2, <5>3, <5>4
        <4>2. CASE \A i \in new : table[i] # b
          <5>1. t.hash[b] = cut.hash[b]
            BY <1>3, <4>2
          <5>2. b \notin N(h)
            BY <4>2
          <5>. QED  BY <5>1, <5>2
        <4>. QED  BY <4>1, <4>2
      <3>2. Q(h) \cup N(h) \subseteq Blocks
        BY <1>1
      <3>. HIDE DEF Q, N
      <3>. QED  BY <3>1, <3>2
    <2>6. t.cache[h] = old(h) \o AtPositions(table, I(h))
      BY <1>5
    <2>7. Q(h) \cup N(h) # {}
      <3>1. CASE h \in DOMAIN cut.cache
        BY <1>4, <3>1
      <3>2. CASE h \notin DOMAIN cut.cache
        BY <3>2
      <3>. QED  BY <3>1, <3>2
    <2>. HIDE DEF Q, N, old, I
    <2>8. Lists(t.cache[h], Q(h) \cup N(h))
      BY <2>2, <2>3, <2>4, <2>6, ConcatLists
    <2>. QED  BY <2>1, <2>5, <2>7, <2>8
  <1>7. ASSUME NEW b \in Blocks, t.hash[b] # NoHash
        PROVE  t.hash[b] \in D
    <2>1. CASE \E i \in new : table[i] = b
      BY <1>3, <2>1
    <2>2. CASE \A i \in new : table[i] # b
      BY <1>3, <1>4, <1>7, <2>2
    <2>. QED  BY <2>1, <2>2
  <1>8. DOMAIN t.cache = D
    BY <1>5
  <1>. HIDE DEF D
  <1>9. Hashed(t)
    BY <1>3, <1>6, <1>7, <1>8, HashedMeans
  <1>. QED  BY <1>9 DEF t

(* reset_prefix_cache empties both maps, or neither. *)
LEMMA ResetCacheIs ==
  ASSUME NEW p \in PoolType, Hashed(p)
  PROVE  /\ ResetCache(p) \in PoolType /\ Hashed(ResetCache(p))
         /\ ResetCache(p).free = p.free /\ ResetCache(p).ref = p.ref
  <1>. DEFINE g == [b \in Blocks |-> NoHash]
              t == [p EXCEPT !.cache = <<>>, !.hash = g]
  <1>1. g \in [Blocks -> Seq(Token)] /\ \A b \in Blocks : g[b] = NoHash
    BY DEF NoHash
  <1>2. <<>> \in CacheType /\ DOMAIN <<>> = {}
    <2>1. <<>> \in [{} -> Seq(Blocks)] /\ {} \in SUBSET Seq(Token)
      OBVIOUS
    <2>. QED  BY <2>1 DEF CacheType
  <1>. HIDE DEF g
  <1>3. t \in PoolType /\ t.free = p.free /\ t.ref = p.ref /\ t.cache = <<>> /\ t.hash = g
    BY <1>1, <1>2 DEF PoolType
  <1>4. Hashed(t)
    BY <1>1, <1>2, <1>3 DEF Hashed
  <1>5. ResetCache(p) = p \/ ResetCache(p) = t
    BY DEF ResetCache, g
  <1>. HIDE DEF t
  <1>. QED  BY <1>3, <1>4, <1>5
-----------------------------------------------------------------------------
(* Who holds a block *)

HeldBy(tab, b) == {r \in Requests : b \in ToSet(tab[r])}
Awaiting(def, b) == {i \in DOMAIN def : b \in ToSet(def[i])}

(* One or none *)
Count(c) == IF c THEN 1 ELSE 0

(* Holders are counted in finite sets. *)
LEMMA HoldersFinite ==
  ASSUME NEW tab, NEW def \in Seq(Seq(Blocks)), NEW b
  PROVE  /\ IsFiniteSet(HeldBy(tab, b)) /\ Cardinality(HeldBy(tab, b)) \in Nat
         /\ IsFiniteSet(Awaiting(def, b)) /\ Cardinality(Awaiting(def, b)) \in Nat
  <1>1. HeldBy(tab, b) \subseteq Requests
    BY DEF HeldBy
  <1>2. Awaiting(def, b) \subseteq 1..Len(def) /\ IsFiniteSet(1..Len(def))
    <2>1. Len(def) \in Nat /\ DOMAIN def = 1..Len(def)
      BY LenProperties
    <2>2. IsFiniteSet(1..Len(def))
      BY <2>1, FS_Interval
    <2>. QED  BY <2>1, <2>2 DEF Awaiting
  <1>. QED  BY <1>1, <1>2, Finiteness, FS_Subset, FS_CardinalityType

(* A table gets the blocks N. *)
GetsBlocks(tab, more, r, N) ==
  /\ r \in Requests /\ \A s \in Requests \ {r} : more[s] = tab[s]
  /\ ToSet(more[r]) = ToSet(tab[r]) \cup N /\ N \cap ToSet(tab[r]) = {}

LEMMA HeldMore ==
  ASSUME NEW tab, NEW more, NEW r, NEW N, NEW b, GetsBlocks(tab, more, r, N)
  PROVE  Cardinality(HeldBy(more, b)) = Cardinality(HeldBy(tab, b)) + Count(b \in N)
  <1>. DEFINE A == HeldBy(tab, b)
              B == HeldBy(more, b)
  <1>1. IsFiniteSet(A) /\ Cardinality(A) \in Nat
    <2>1. <<>> \in Seq(Seq(Blocks))
      OBVIOUS
    <2>. QED  BY <2>1, HoldersFinite
  <1>2. CASE b \in N
    <2>1. B = A \cup {r} /\ r \notin A
      BY <1>2 DEF HeldBy, GetsBlocks
    <2>. HIDE DEF A, B
    <2>2. Cardinality(A \cup {r}) = Cardinality(A) + 1
      BY <1>1, <2>1, FS_AddElement
    <2>. QED  BY <1>2, <2>1, <2>2 DEF Count, A, B
  <1>3. CASE b \notin N
    <2>1. B = A
      BY <1>3 DEF HeldBy, GetsBlocks
    <2>. QED  BY <1>1, <1>3, <2>1 DEF Count
  <1>. QED  BY <1>2, <1>3

(* A table is given up. *)
LEMMA HeldLess ==
  ASSUME NEW tab \in [Requests -> Seq(Blocks)], NEW r \in Requests, NEW b
  PROVE  Cardinality(HeldBy([tab EXCEPT ![r] = <<>>], b))
           = Cardinality(HeldBy(tab, b)) - Count(b \in ToSet(tab[r]))
  <1>. DEFINE A == HeldBy(tab, b)
              B == HeldBy([tab EXCEPT ![r] = <<>>], b)
  <1>1. IsFiniteSet(A) /\ Cardinality(A) \in Nat
    <2>1. <<>> \in Seq(Seq(Blocks))
      OBVIOUS
    <2>. QED  BY <2>1, HoldersFinite
  <1>0. ToSet(<<>>) = {}
    BY DEF ToSet
  <1>2. CASE b \in ToSet(tab[r])
    <2>1. B = A \ {r} /\ r \in A
      BY <1>0, <1>2 DEF HeldBy
    <2>. HIDE DEF A, B
    <2>2. Cardinality(A \ {r}) = Cardinality(A) - 1
      BY <1>1, <2>1, FS_RemoveElement
    <2>. QED  BY <1>2, <2>1, <2>2 DEF Count, A, B
  <1>3. CASE b \notin ToSet(tab[r])
    <2>1. B = A
      BY <1>0, <1>3 DEF HeldBy
    <2>. QED  BY <1>1, <1>3, <2>1 DEF Count
  <1>. QED  BY <1>2, <1>3

(* A list of blocks is put behind the deferred ones. *)
LEMMA AwaitingMore ==
  ASSUME NEW def \in Seq(Seq(Blocks)), NEW t \in Seq(Blocks), NEW b
  PROVE  Cardinality(Awaiting(Append(def, t), b)) = Cardinality(Awaiting(def, b)) + Count(b \in ToSet(t))
  <1>. DEFINE A == Awaiting(def, b)
              B == Awaiting(Append(def, t), b)
              n == Len(def)
  <1>1. IsFiniteSet(A) /\ Cardinality(A) \in Nat
    BY HoldersFinite
  <1>2. /\ n \in Nat /\ DOMAIN def = 1..n /\ DOMAIN Append(def, t) = 1..(n + 1)
        /\ Append(def, t)[n + 1] = t /\ \A i \in 1..n : Append(def, t)[i] = def[i]
    BY AppendProperties, LenProperties
  <1>3. 1..(n + 1) = (1..n) \cup {n + 1} /\ n + 1 \notin 1..n
    BY <1>2
  <1>. HIDE DEF n
  <1>4. CASE b \in ToSet(t)
    <2>1. B = A \cup {n + 1} /\ n + 1 \notin A
      BY <1>2, <1>3, <1>4 DEF Awaiting
    <2>. HIDE DEF A, B
    <2>2. Cardinality(A \cup {n + 1}) = Cardinality(A) + 1
      BY <1>1, <2>1, FS_AddElement
    <2>. QED  BY <1>4, <2>1, <2>2 DEF Count, A, B
  <1>5. CASE b \notin ToSet(t)
    <2>1. B = A
      BY <1>2, <1>3, <1>5 DEF Awaiting
    <2>. QED  BY <1>1, <1>5, <2>1 DEF Count
  <1>. QED  BY <1>4, <1>5

(* The oldest deferred list is taken out. *)
LEMMA AwaitingLess ==
  ASSUME NEW def \in Seq(Seq(Blocks)), def # <<>>, NEW b
  PROVE  Cardinality(Awaiting(Tail(def), b)) = Cardinality(Awaiting(def, b)) - Count(b \in ToSet(Head(def)))
  <1>. DEFINE A == Awaiting(def, b)
              B == Awaiting(Tail(def), b)
              n == Len(def)
              C == A \ {1}
              f == [i \in B |-> i + 1]
  <1>1. IsFiniteSet(A) /\ Cardinality(A) \in Nat
    BY HoldersFinite
  <1>2. /\ n \in Nat /\ n > 0 /\ DOMAIN def = 1..n /\ Head(def) = def[1]
        /\ DOMAIN Tail(def) = 1..(n - 1) /\ \A i \in 1..(n - 1) : Tail(def)[i] = def[i + 1]
    <2>1. Tail(def) \in Seq(Seq(Blocks)) /\ Len(Tail(def)) = n - 1
      BY EmptySeq, LenProperties
    <2>. QED  BY <2>1, EmptySeq, LenProperties
  <1>. HIDE DEF n
  <1>3. A = {i \in 1..n : b \in ToSet(def[i])} /\ B = {i \in 1..(n - 1) : b \in ToSet(def[i + 1])}
    BY <1>2 DEF Awaiting
  <1>4. /\ \A i \in 1..(n - 1) : i + 1 \in 1..n /\ i + 1 # 1
        /\ \A i \in 1..n : i # 1 => i - 1 \in 1..(n - 1) /\ (i - 1) + 1 = i
        /\ \A i, j \in 1..(n - 1) : i + 1 = j + 1 => i = j
        /\ 1 \in 1..n
    BY <1>2
  <1>. HIDE DEF A, B
  <1>5. \A i \in B : i \in 1..(n - 1) /\ i + 1 \in C /\ f[i] = i + 1
    BY <1>3, <1>4
  <1>6. f \in Bijection(B, C)
    <2>1. f \in [B -> C]
      BY <1>5
    <2>2. f \in Injection(B, C)
      BY <1>4, <1>5, <2>1 DEF Injection, IsInjective
    <2>3. \A x \in C : \E i \in B : f[i] = x
      <3>. SUFFICES ASSUME NEW x \in C
                    PROVE  \E i \in B : f[i] = x
        OBVIOUS
      <3>1. x \in 1..n /\ x # 1 /\ b \in ToSet(def[x])
        BY <1>3
      <3>2. x - 1 \in 1..(n - 1) /\ (x - 1) + 1 = x
        BY <1>4, <3>1
      <3>3. x - 1 \in B
        BY <1>3, <3>1, <3>2
      <3>. QED  BY <1>5, <3>2, <3>3
    <2>4. f \in Surjection(B, C)
      BY <2>1, <2>3 DEF Surjection
    <2>. QED  BY <2>2, <2>4 DEF Bijection
  <1>7. IsFiniteSet(B)
    <2>1. Tail(def) \in Seq(Seq(Blocks))
      BY EmptySeq
    <2>. QED  BY <2>1, HoldersFinite DEF B
  <1>8. Cardinality(B) = Cardinality(C)
    <2>. HIDE DEF f, C
    <2>1. ExistsBijection(B, C)
      BY <1>6 DEF ExistsBijection
    <2>. QED  BY <1>7, <2>1, FS_Bijection
  <1>9. CASE b \in ToSet(Head(def))
    <2>1. 1 \in A
      BY <1>2, <1>3, <1>4, <1>9
    <2>2. Cardinality(C) = Cardinality(A) - 1
      BY <1>1, <2>1, FS_RemoveElement
    <2>. QED  BY <1>8, <1>9, <2>2 DEF Count, A, B
  <1>10. CASE b \notin ToSet(Head(def))
    <2>1. C = A
      BY <1>2, <1>3, <1>10
    <2>2. Count(b \in ToSet(Head(def))) = 0
      BY <1>10 DEF Count
    <2>. HIDE DEF C
    <2>3. Cardinality(B) = Cardinality(A) - 0
      BY <1>1, <1>8, <2>1
    <2>. QED  BY <2>2, <2>3 DEF A, B
  <1>. QED  BY <1>9, <1>10
-----------------------------------------------------------------------------
(* The books of the pool: what the operations of the manager keep *)

BooksOf(p, tab, def, num) ==
  /\ p \in PoolType /\ FreeExact(p) /\ Hashed(p)
  /\ tab \in [Requests -> Seq(Blocks)] /\ \A r \in Requests : IsInjective(tab[r])
  /\ def \in Seq(Seq(Blocks)) /\ \A i \in DOMAIN def : IsInjective(def[i])
  /\ num \in [Requests -> Nat]
  /\ \A b \in Blocks : p.ref[b] = Cardinality(HeldBy(tab, b)) + Cardinality(Awaiting(def, b))

Books == BooksOf(pool, tables, deferred, numCached)

(* Hashed is about the two maps only, FreeExact about the other two. *)
LEMMA SameMaps ==
  ASSUME NEW p, NEW q
  PROVE  /\ Hashed(p) /\ q.hash = p.hash /\ q.cache = p.cache => Hashed(q)
         /\ FreeExact(p) /\ q.free = p.free /\ q.ref = p.ref => FreeExact(q)
  BY DEF Hashed, FreeExact

(* A block in a table, or deferred, has a reference. *)
LEMMA HeldReferenced ==
  ASSUME NEW p, NEW tab, NEW def, NEW num, BooksOf(p, tab, def, num), NEW b \in Blocks
  PROVE  /\ \A r \in Requests : b \in ToSet(tab[r]) => p.ref[b] > 0
         /\ \A i \in DOMAIN def : b \in ToSet(def[i]) => p.ref[b] > 0
  <1>. DEFINE A == HeldBy(tab, b)
              B == Awaiting(def, b)
  <1>1. /\ IsFiniteSet(A) /\ Cardinality(A) \in Nat /\ IsFiniteSet(B) /\ Cardinality(B) \in Nat
        /\ p.ref[b] = Cardinality(A) + Cardinality(B)
    BY HoldersFinite DEF BooksOf
  <1>2. ASSUME NEW r \in Requests, b \in ToSet(tab[r])
        PROVE  p.ref[b] > 0
    <2>1. A # {}
      BY <1>2 DEF HeldBy
    <2>. HIDE DEF A, B
    <2>2. Cardinality(A) # 0
      BY <1>1, <2>1, FS_EmptySet
    <2>. QED  BY <1>1, <2>2
  <1>3. ASSUME NEW i \in DOMAIN def, b \in ToSet(def[i])
        PROVE  p.ref[b] > 0
    <2>1. B # {}
      BY <1>3 DEF Awaiting
    <2>. HIDE DEF A, B
    <2>2. Cardinality(B) # 0
      BY <1>1, <2>1, FS_EmptySet
    <2>. QED  BY <1>1, <2>2
  <1>. QED  BY <1>2, <1>3

(* free, or pop_blocks_for_free, gives up a table. *)
LEMMA ReleaseBooks ==
  ASSUME NEW p, BooksOf(p, tables, deferred, numCached), NEW r \in Requests, NEW flight,
         Release(p, r, flight)
  PROVE  Books' /\ tables' = [tables EXCEPT ![r] = <<>>]
  <1>. DEFINE t == tables[r]
              S == ToSet(t)
              held(b) == Cardinality(HeldBy(tables, b))
              late(b) == Cardinality(Awaiting(deferred, b))
  <1>1. /\ p \in PoolType /\ FreeExact(p) /\ Hashed(p)
        /\ tables \in [Requests -> Seq(Blocks)] /\ (\A s \in Requests : IsInjective(tables[s]))
        /\ deferred \in Seq(Seq(Blocks)) /\ (\A i \in DOMAIN deferred : IsInjective(deferred[i]))
        /\ numCached \in [Requests -> Nat]
        /\ \A b \in Blocks : p.ref[b] = held(b) + late(b)
    BY DEF BooksOf
  <1>2. /\ pool' = Released(p, r, flight) /\ deferred' = deferred \o Postponed(r, flight)
        /\ tables' = [tables EXCEPT ![r] = <<>>] /\ numCached' = [numCached EXCEPT ![r] = 0]
    BY DEF Release
  <1>3. t \in Seq(Blocks) /\ IsInjective(t) /\ Lists(t, S) /\ S \in SUBSET Blocks
    BY <1>1, InjectiveLists
  <1>4. /\ tables' \in [Requests -> Seq(Blocks)] /\ numCached' \in [Requests -> Nat]
        /\ \A s \in Requests : IsInjective(tables'[s])
    <2>1. <<>> \in Seq(Blocks) /\ IsInjective(<<>>)
      BY DEF IsInjective
    <2>. QED  BY <1>1, <1>2, <2>1
  <1>5. ASSUME NEW b \in Blocks
        PROVE  /\ Cardinality(HeldBy(tables', b)) = held(b) - Count(b \in S)
               /\ held(b) \in Nat /\ late(b) \in Nat /\ Count(b \in S) \in Nat
    BY <1>1, <1>2, HeldLess, HoldersFinite DEF Count
  <1>6. CASE Deferrable(flight) /\ t # <<>>
    <2>1. pool' = p /\ deferred' = deferred \o <<t>>
      BY <1>2, <1>6 DEF Released, Postponed
    <2>2. deferred' = Append(deferred, t)
      BY <1>1, <1>3, <2>1
    <2>3. deferred' \in Seq(Seq(Blocks)) /\ \A i \in DOMAIN deferred' : IsInjective(deferred'[i])
      BY <1>1, <1>3, <2>2, AppendProperties, LenProperties
    <2>4. ASSUME NEW b \in Blocks
          PROVE  p.ref[b] = Cardinality(HeldBy(tables', b)) + Cardinality(Awaiting(deferred', b))
      <3>1. Cardinality(Awaiting(deferred', b)) = late(b) + Count(b \in S)
        BY <1>1, <1>3, <2>2, AwaitingMore
      <3>. HIDE DEF held, late, S
      <3>. QED  BY <1>1, <1>5, <3>1
    <2>. QED  BY <1>1, <1>2, <1>4, <2>1, <2>3, <2>4 DEF Books, BooksOf
  <1>7. CASE Deferrable(flight) /\ t = <<>>
    <2>1. pool' = p /\ deferred' = deferred \o <<>>
      BY <1>2, <1>7 DEF Released, Postponed
    <2>2. deferred' = deferred
      BY <1>1, <2>1
    <2>3. S = {}
      BY <1>7 DEF ToSet
    <2>4. ASSUME NEW b \in Blocks
          PROVE  p.ref[b] = Cardinality(HeldBy(tables', b)) + Cardinality(Awaiting(deferred', b))
      <3>1. Count(b \in S) = 0
        BY <2>3 DEF Count
      <3>2. Cardinality(Awaiting(deferred', b)) = late(b)
        BY <2>2
      <3>. HIDE DEF held, late, S
      <3>. QED  BY <1>1, <1>5, <3>1, <3>2
    <2>. QED  BY <1>1, <1>2, <1>4, <2>1, <2>2, <2>4 DEF Books, BooksOf
  <1>8. CASE ~Deferrable(flight)
    <2>1. pool' = FreeBlocks(p, Reverse(t)) /\ deferred' = deferred \o <<>>
      BY <1>2, <1>8 DEF Released, Postponed
    <2>2. deferred' = deferred
      BY <1>1, <2>1
    <2>3. Lists(Reverse(t), S)
      BY <1>3, ReverseLists
    <2>4. \A b \in S : p.ref[b] > 0
      BY <1>3, HeldReferenced
    <2>. HIDE DEF S, t
    <2>5. /\ pool' \in PoolType /\ FreeExact(pool')
          /\ pool'.ref = Dereferenced(p.ref, S)
          /\ pool'.hash = p.hash /\ pool'.cache = p.cache
      BY <1>1, <1>3, <2>1, <2>3, <2>4, FreeBlocksIs
    <2>6. Hashed(pool')
      BY <1>1, <2>5, SameMaps
    <2>7. ASSUME NEW b \in Blocks
          PROVE  pool'.ref[b] = Cardinality(HeldBy(tables', b)) + Cardinality(Awaiting(deferred', b))
      <3>1. pool'.ref[b] = p.ref[b] - Count(b \in S)
        <4>1. p.ref[b] \in Nat
          BY <1>1 DEF PoolType
        <4>. QED  BY <2>5, <4>1 DEF Dereferenced, Count
      <3>2. Cardinality(Awaiting(deferred', b)) = late(b)
        BY <2>2
      <3>. HIDE DEF held, late
      <3>. QED  BY <1>1, <1>5, <3>1, <3>2
    <2>8. deferred' \in Seq(Seq(Blocks)) /\ \A i \in DOMAIN deferred' : IsInjective(deferred'[i])
      BY <1>1, <2>2
    <2>. QED  BY <1>2, <1>4, <2>5, <2>6, <2>7, <2>8 DEF Books, BooksOf
  <1>. QED  BY <1>2, <1>6, <1>7, <1>8

(* _drain_deferred_frees takes one entry. *)
LEMMA DrainBooks ==
  ASSUME Books, DrainDeferredFree
  PROVE  Books'
  <1>. DEFINE t == Head(deferred)
              S == ToSet(t)
              held(b) == Cardinality(HeldBy(tables, b))
              late(b) == Cardinality(Awaiting(deferred, b))
  <1>1. /\ pool \in PoolType /\ FreeExact(pool) /\ Hashed(pool)
        /\ tables \in [Requests -> Seq(Blocks)] /\ (\A s \in Requests : IsInjective(tables[s]))
        /\ deferred \in Seq(Seq(Blocks)) /\ (\A i \in DOMAIN deferred : IsInjective(deferred[i]))
        /\ numCached \in [Requests -> Nat]
        /\ \A b \in Blocks : pool.ref[b] = held(b) + late(b)
    BY DEF Books, BooksOf
  <1>2. /\ deferred # <<>> /\ pool' = FreeBlocks(pool, Reverse(t)) /\ deferred' = Tail(deferred)
        /\ tables' = tables /\ numCached' = numCached
    BY DEF DrainDeferredFree
  <1>3. 1 \in DOMAIN deferred /\ t = deferred[1]
    BY <1>1, <1>2, EmptySeq, LenProperties
  <1>4. t \in Seq(Blocks) /\ Lists(t, S) /\ S \in SUBSET Blocks
    <2>1. t \in Seq(Blocks) /\ IsInjective(t)
      BY <1>1, <1>3, ElementOfSeq, LenProperties
    <2>. QED  BY <2>1, InjectiveLists
  <1>5. Lists(Reverse(t), S)
    BY <1>4, ReverseLists
  <1>6. \A b \in S : pool.ref[b] > 0
    BY <1>3, <1>4, HeldReferenced DEF Books
  <1>7. deferred' \in Seq(Seq(Blocks)) /\ \A i \in DOMAIN deferred' : IsInjective(deferred'[i])
    <2>1. /\ deferred' \in Seq(Seq(Blocks)) /\ Len(deferred') = Len(deferred) - 1
          /\ \A i \in 1..(Len(deferred) - 1) : deferred'[i] = deferred[i + 1]
      BY <1>1, <1>2, EmptySeq, LenProperties
    <2>2. DOMAIN deferred' = 1..(Len(deferred) - 1) /\ DOMAIN deferred = 1..Len(deferred)
          /\ Len(deferred) \in Nat
      BY <1>1, <2>1, LenProperties
    <2>3. \A i \in 1..(Len(deferred) - 1) : i + 1 \in 1..Len(deferred)
      BY <2>2
    <2>. QED  BY <1>1, <2>1, <2>2, <2>3
  <1>8. ASSUME NEW b \in Blocks
        PROVE  /\ Cardinality(Awaiting(deferred', b)) = late(b) - Count(b \in S)
               /\ held(b) \in Nat /\ late(b) \in Nat /\ Count(b \in S) \in Nat
    BY <1>1, <1>2, AwaitingLess, HoldersFinite DEF Count
  <1>. HIDE DEF S, t
  <1>9. /\ pool' \in PoolType /\ FreeExact(pool')
        /\ pool'.ref = Dereferenced(pool.ref, S)
        /\ pool'.hash = pool.hash /\ pool'.cache = pool.cache
    BY <1>1, <1>2, <1>4, <1>5, <1>6, FreeBlocksIs
  <1>10. Hashed(pool')
    BY <1>1, <1>9, SameMaps
  <1>11. ASSUME NEW b \in Blocks
         PROVE  pool'.ref[b] = Cardinality(HeldBy(tables', b)) + Cardinality(Awaiting(deferred', b))
    <2>1. pool'.ref[b] = pool.ref[b] - Count(b \in S)
      <3>1. pool.ref[b] \in Nat
        BY <1>1 DEF PoolType
      <3>. QED  BY <1>9, <3>1 DEF Dereferenced, Count
    <2>2. Cardinality(HeldBy(tables', b)) = held(b)
      BY <1>2
    <2>. HIDE DEF held, late
    <2>. QED  BY <1>1, <1>8, <2>1, <2>2
  <1>. QED  BY <1>1, <1>2, <1>7, <1>9, <1>10, <1>11 DEF Books, BooksOf

(* Whole blocks of a number of tokens *)
LEMMA Division ==
  ASSUME NEW a \in Int
  PROVE  /\ a \div BlockSize \in Int /\ (a \div BlockSize) * BlockSize <= a
         /\ cdiv(a, BlockSize) \in Int /\ a <= cdiv(a, BlockSize) * BlockSize
         /\ a >= 0 => a \div BlockSize >= 0
  <1>1. BlockSize \in Nat \ {0}
    BY Numbers
  <1>2. ASSUME NEW x \in Int, NEW B \in Nat \ {0}
        PROVE  /\ x \div B \in Int /\ x % B \in 0..(B - 1)
               /\ x = B * (x \div B) + (x % B)
    OBVIOUS
  <1>3. ASSUME NEW x \in Int, NEW B \in Nat \ {0}
        PROVE  (x \div B) * B = B * (x \div B)
    BY <1>2
  <1>4. ASSUME NEW x \in Int, NEW B \in Nat \ {0}
        PROVE  /\ x \div B \in Int /\ (x \div B) * B <= x /\ x - B + 1 <= (x \div B) * B
               /\ (x \div B) * B \in Int
    <2>. DEFINE y == (x \div B) * B
    <2>1. x % B \in Int /\ 0 <= x % B /\ x % B <= B - 1
      BY <1>2
    <2>2. y \in Int /\ x = y + (x % B)
      BY <1>2, <1>3
    <2>. HIDE DEF y
    <2>3. y <= x /\ x - B + 1 <= y
      BY <2>1, <2>2
    <2>. QED  BY <1>2, <2>2, <2>3 DEF y
  <1>5. a \div BlockSize \in Int /\ (a \div BlockSize) * BlockSize <= a
    BY <1>1, <1>4
  <1>6. cdiv(a, BlockSize) \in Int /\ a <= cdiv(a, BlockSize) * BlockSize
    <2>. DEFINE x == a + BlockSize - 1
                y == (x \div BlockSize) * BlockSize
    <2>1. x \in Int
      BY <1>1
    <2>2. x \div BlockSize \in Int /\ x - BlockSize + 1 <= y /\ y \in Int
      BY <1>1, <1>4, <2>1
    <2>3. x - BlockSize + 1 = a
      BY <1>1
    <2>. QED  BY <2>2, <2>3 DEF cdiv
  <1>7. a >= 0 => a \div BlockSize >= 0
    <2>. SUFFICES ASSUME a >= 0, ~(a \div BlockSize >= 0)
                  PROVE  FALSE
      BY <1>5
    <2>. DEFINE d == a \div BlockSize
    <2>1. d \in Int /\ d <= -1 /\ a - BlockSize + 1 <= d * BlockSize
      BY <1>1, <1>4, <1>5
    <2>. HIDE DEF d
    <2>2. d * BlockSize <= (-1) * BlockSize
      BY <2>1, Multiples
    <2>3. (-1) * BlockSize = -BlockSize /\ d * BlockSize \in Int
      BY <1>1, <2>1, Multiples
    <2>. QED  BY <1>1, <2>1, <2>2, <2>3
  <1>. QED  BY <1>5, <1>6, <1>7

(* Minimum and maximum *)
LEMMA MinMax ==
  ASSUME NEW a \in Int, NEW b \in Int
  PROVE  /\ MinOf(a, b) \in Int /\ MinOf(a, b) <= a /\ MinOf(a, b) <= b
         /\ MinOf(a, b) = a \/ MinOf(a, b) = b
         /\ MaxOf(a, b) \in Int /\ MaxOf(a, b) >= a /\ MaxOf(a, b) >= b
         /\ MaxOf(a, b) = a \/ MaxOf(a, b) = b
  BY DEF MinOf, MaxOf

(* The blocks a request lacks make up its slots. *)
LEMMA MissingIs ==
  ASSUME NEW r, NEW hit, NEW k \in Int, Len(hit) \in Nat, Len(tables[r]) \in Nat
  PROVE  /\ Missing(r, hit, k) \in Nat
         /\ cdiv(MinOf(k, MaxModelLen), BlockSize)
              <= Len(tables[r]) + Len(hit) + Missing(r, hit, k)
         /\ cdiv(MinOf(k, MaxModelLen), BlockSize) \in Int
         /\ MinOf(k, MaxModelLen) <= cdiv(MinOf(k, MaxModelLen), BlockSize) * BlockSize
         /\ MinOf(k, MaxModelLen) \in Int
  <1>1. MinOf(k, MaxModelLen) \in Int
    BY Numbers DEF MinOf
  <1>. DEFINE c == cdiv(MinOf(k, MaxModelLen), BlockSize)
  <1>2. c \in Int /\ MinOf(k, MaxModelLen) <= c * BlockSize
    BY <1>1, Division
  <1>. HIDE DEF c
  <1>3. Missing(r, hit, k) = MaxOf(c - Len(hit) - Len(tables[r]), 0)
    BY DEF Missing, c
  <1>4. Missing(r, hit, k) \in Nat /\ c <= Len(tables[r]) + Len(hit) + Missing(r, hit, k)
    <2>1. ASSUME NEW x \in Int, NEW h \in Nat, NEW l \in Nat
          PROVE  MaxOf(x - h - l, 0) \in Nat /\ x <= l + h + MaxOf(x - h - l, 0)
      BY DEF MaxOf
    <2>. QED  BY <1>2, <1>3, <2>1
  <1>. QED  BY <1>1, <1>2, <1>4 DEF c

(* What allocate_slots is called with *)
AllocationInput(r, hit, H, computed, n) ==
  /\ H \in SUBSET Blocks /\ Lists(hit, H) /\ H \cap ToSet(tables[r]) = {}
  /\ computed \in Nat /\ n \in Nat
  /\ req[r].tokens \in Seq(Token) /\ Len(req[r].tokens) <= MaxModelLen
  /\ CanAllocate(r, hit, computed + n + NumLookahead)

(* The table a request has after allocate_slots *)
AllocatedTable(r, hit, computed, n) ==
  tables[r] \o hit \o NewBlocks(Touch(pool, hit), Missing(r, hit, computed + n + NumLookahead))

(* Checked, the free queue has the missing blocks even after the touch. *)
LEMMA AllocationFits ==
  ASSUME Books, NEW r \in Requests, NEW hit, NEW H, NEW computed, NEW n,
         AllocationInput(r, hit, H, computed, n)
  PROVE  /\ Missing(r, hit, computed + n + NumLookahead) \in 0..Len(Touch(pool, hit).free)
         /\ Len(Touch(pool, hit).free) \in Nat
  <1>. DEFINE k == computed + n + NumLookahead
              m == Missing(r, hit, k)
              e == Evictable(hit)
              f == Len(pool.free)
              g == Len(Touch(pool, hit).free)
  <1>1. g = f - e /\ e \in Nat /\ f \in Nat
    BY TouchLeaves DEF Books, BooksOf, AllocationInput
  <1>2. m \in Nat
    <2>1. k \in Int
      BY Numbers DEF AllocationInput
    <2>2. Len(hit) \in Nat /\ Len(tables[r]) \in Nat
      BY ListsMeans, LenProperties DEF AllocationInput, Books, BooksOf
    <2>. HIDE DEF k
    <2>. QED  BY <2>1, <2>2, MissingIs
  <1>3. m + e <= f
    BY DEF AllocationInput, CanAllocate, NumBlocksToAllocate
  <1>. HIDE DEF m, e, f, g
  <1>4. m \in 0..g /\ g \in Nat
    BY <1>1, <1>2, <1>3
  <1>. QED  BY <1>4 DEF m, g

(* The new table: what the request had, the hits and the new blocks *)
LEMMA TableIs ==
  ASSUME Books, NEW r \in Requests, NEW hit, NEW H, NEW computed, NEW n,
         AllocationInput(r, hit, H, computed, n)
  PROVE  LET table == AllocatedTable(r, hit, computed, n)
             N == ToSet(NewBlocks(Touch(pool, hit), Missing(r, hit, computed + n + NumLookahead)))
         IN /\ Lists(table, ToSet(tables[r]) \cup (H \cup N))
            /\ N \in SUBSET Blocks /\ N \cap H = {} /\ N \cap ToSet(tables[r]) = {}
            /\ table \in Seq(Blocks) /\ IsInjective(table)
            /\ MinOf(computed + n + NumLookahead, MaxModelLen) <= Len(table) * BlockSize
            /\ Len(table) \in Nat /\ Len(table) >= Len(hit)
  <1>. DEFINE k == computed + n + NumLookahead
              touched == Touch(pool, hit)
              m == Missing(r, hit, k)
              new == NewBlocks(touched, m)
              N == ToSet(new)
              t == tables[r]
              T == ToSet(t)
              table == t \o hit \o new
  <1>0. table = AllocatedTable(r, hit, computed, n)
    BY DEF AllocatedTable
  <1>1. /\ pool \in PoolType /\ FreeExact(pool)
        /\ tables \in [Requests -> Seq(Blocks)] /\ \A s \in Requests : IsInjective(tables[s])
    BY DEF Books, BooksOf
  <1>2. /\ H \in SUBSET Blocks /\ Lists(hit, H) /\ H \cap T = {} /\ k \in Int
    BY Numbers DEF AllocationInput
  <1>3. Lists(t, T) /\ T \in SUBSET Blocks
    BY <1>1, InjectiveLists
  <1>4. /\ touched \in PoolType /\ FreeExact(touched) /\ touched.ref = Referenced(pool.ref, H)
    BY <1>1, <1>2, TouchIs
  <1>5. m \in 0..Len(touched.free)
    BY AllocationFits
  <1>6. N \in SUBSET Unreferenced(touched.ref) /\ Lists(new, N) /\ Len(new) = m
    <2>. HIDE DEF touched, m
    <2>. QED  BY <1>4, <1>5, GetNewBlocksIs
  <1>7. Unreferenced(touched.ref) = Unreferenced(pool.ref) \ H
    BY <1>1, <1>2, <1>4, ReferencedIs, ZenonT(30) DEF PoolType
  <1>8. T \cap Unreferenced(pool.ref) = {}
    <2>1. ASSUME NEW b \in T
          PROVE  b \notin Unreferenced(pool.ref)
      <3>1. b \in Blocks /\ pool.ref[b] > 0
        BY <1>3, HeldReferenced DEF Books
      <3>2. pool.ref[b] \in Nat
        BY <1>1, <3>1 DEF PoolType
      <3>. QED  BY <3>1, <3>2 DEF Unreferenced
    <2>. QED  BY <2>1
  <1>9. N \in SUBSET Blocks /\ N \cap H = {} /\ N \cap T = {}
    BY <1>6, <1>7, <1>8 DEF Unreferenced
  <1>. HIDE DEF N, T, new, m, touched, t
  <1>10. Lists(table, T \cup (H \cup N))
    <2>1. Lists(t \o hit, T \cup H)
      BY <1>2, <1>3, ConcatLists
    <2>2. (T \cup H) \cap N = {}
      BY <1>9
    <2>3. Lists(table, (T \cup H) \cup N)
      BY <1>6, <2>1, <2>2, ConcatLists
    <2>4. (T \cup H) \cup N = T \cup (H \cup N)
      OBVIOUS
    <2>. QED  BY <2>3, <2>4
  <1>11. table \in Seq(Blocks) /\ IsInjective(table)
    <2>1. T \cup (H \cup N) \in SUBSET Blocks
      BY <1>2, <1>3, <1>9
    <2>. QED  BY <1>10, <2>1, ListsBlocks DEF Lists
  <1>12. Len(table) = Len(t) + Len(hit) + m /\ Len(t) \in Nat /\ Len(hit) \in Nat /\ m \in Nat
    <2>1. t \in Seq(Blocks) /\ hit \in Seq(Blocks) /\ new \in Seq(Blocks)
      BY <1>2, <1>3, <1>6, <1>9, ListsBlocks
    <2>2. Len(t) \in Nat /\ Len(hit) \in Nat /\ m \in Nat
      BY <1>6, <2>1, LenProperties
    <2>3. t \o hit \in Seq(Blocks) /\ Len(t \o hit) = Len(t) + Len(hit)
      BY <2>1, ConcatProperties
    <2>4. Len(table) = Len(t \o hit) + Len(new)
      BY <2>1, <2>3, ConcatProperties
    <2>. QED  BY <1>6, <2>2, <2>3, <2>4
  <1>13. MinOf(k, MaxModelLen) <= Len(table) * BlockSize
    <2>. DEFINE c == cdiv(MinOf(k, MaxModelLen), BlockSize)
                x == MinOf(k, MaxModelLen)
    <2>1. c <= Len(t) + Len(hit) + m /\ c \in Int /\ x <= c * BlockSize /\ x \in Int
      <3>. HIDE DEF k
      <3>. QED  BY <1>2, <1>12, MissingIs DEF t, m
    <2>. HIDE DEF c, x, table
    <2>2. Len(table) \in Int /\ c <= Len(table)
      BY <1>12, <2>1
    <2>3. c * BlockSize <= Len(table) * BlockSize /\ c * BlockSize \in Int
          /\ Len(table) * BlockSize \in Int
      BY <2>1, <2>2, Multiples
    <2>4. x <= Len(table) * BlockSize
      BY <2>1, <2>3
    <2>. QED  BY <2>4 DEF x
  <1>14. Len(table) \in Nat /\ Len(table) >= Len(hit)
    <2>. HIDE DEF table
    <2>. QED  BY <1>12
  <1>. HIDE DEF table
  <1>. QED  BY <1>0, <1>9, <1>10, <1>11, <1>13, <1>14 DEF N, T, new, m, touched, t, k

(* Three lists one after the other *)
Joined(t, a, b, c) == t = a \o b \o c

LEMMA ConcatPositions ==
  ASSUME NEW S, NEW a \in Seq(S), NEW b \in Seq(S), NEW c \in Seq(S), NEW t, Joined(t, a, b, c)
  PROVE  /\ Len(t) = Len(a) + Len(b) + Len(c)
         /\ \A i \in 1..Len(a) : t[i] = a[i]
         /\ \A i \in 1..Len(b) : t[Len(a) + i] = b[i]
         /\ \A i \in Len(a) + Len(b) + 1 .. Len(t) : t[i] \in ToSet(c)
  <1>1. Len(a) \in Nat /\ Len(b) \in Nat /\ Len(c) \in Nat /\ DOMAIN c = 1..Len(c)
    BY LenProperties
  <1>. DEFINE d == a \o b
  <1>2. /\ d \in Seq(S) /\ Len(d) = Len(a) + Len(b)
        /\ \A i \in 1..Len(d) : d[i] = IF i <= Len(a) THEN a[i] ELSE b[i - Len(a)]
    BY ConcatProperties
  <1>. HIDE DEF d
  <1>3. /\ Len(d \o c) = Len(d) + Len(c)
        /\ \A i \in 1..Len(d) + Len(c) : (d \o c)[i] = IF i <= Len(d) THEN d[i] ELSE c[i - Len(d)]
    <2>1. d \in Seq(S) /\ c \in Seq(S)
      BY <1>2
    <2>. QED  BY ONLY <2>1, ConcatProperties
  <1>4. Len(d \o c) = Len(a) + Len(b) + Len(c)
    BY <1>1, <1>2, <1>3
  <1>5. \A i \in 1..Len(a) : (d \o c)[i] = a[i]
    BY <1>1, <1>2, <1>3
  <1>6. ASSUME NEW i \in 1..Len(b)
        PROVE  (d \o c)[Len(a) + i] = b[i]
    <2>. DEFINE k == Len(a) + i
    <2>1. k \in 1..Len(d) /\ k \in 1..Len(d) + Len(c) /\ k <= Len(d) /\ ~(k <= Len(a)) /\ k - Len(a) = i
      BY <1>1, <1>2
    <2>. HIDE DEF k
    <2>2. (d \o c)[k] = d[k] /\ d[k] = b[k - Len(a)]
      BY <1>2, <1>3, <2>1
    <2>. QED  BY <2>1, <2>2 DEF k
  <1>7. ASSUME NEW i \in Len(a) + Len(b) + 1 .. Len(d \o c)
        PROVE  (d \o c)[i] \in ToSet(c)
    <2>1. i \in 1..Len(d) + Len(c) /\ ~(i <= Len(d)) /\ i - Len(d) \in 1..Len(c)
      BY <1>1, <1>2, <1>4
    <2>2. (d \o c)[i] = c[i - Len(d)]
      BY <1>3, <2>1
    <2>. QED  BY <1>1, <2>1, <2>2 DEF ToSet
  <1>8. t = d \o c
    BY DEF Joined, d
  <1>. QED  BY <1>4, <1>5, <1>6, <1>7, <1>8

(* allocate_slots step by step: the new blocks N, the pool that gave them, *)
(* the new table, and its blocks with a hash before and after.             *)
Allocation(r, hit, H, computed, n, N, got, table, cached, full) ==
  /\ table = AllocatedTable(r, hit, computed, n)
  /\ Lists(table, ToSet(tables[r]) \cup (H \cup N)) /\ table \in Seq(Blocks) /\ IsInjective(table)
  /\ N \in SUBSET Blocks /\ N \cap H = {} /\ N \cap ToSet(tables[r]) = {}
  /\ \A b \in N : pool.ref[b] = 0
  /\ got \in PoolType /\ FreeExact(got) /\ Hashed(got)
  /\ \A b \in Blocks : /\ got.hash[b] = IF b \in N THEN NoHash ELSE pool.hash[b]
                       /\ got.ref[b] = pool.ref[b] + Count(b \in H \cup N)
  /\ cached = MaxOf(numCached[r], Len(hit)) /\ cached \in Nat
  /\ full = MinOf(computed + n, Len(req[r].tokens)) \div BlockSize /\ full \in Int
  /\ full * BlockSize <= computed + n
  /\ Cacheable(table, req[r].tokens, cached, full)
  /\ MinOf(computed + n, MaxModelLen) <= Len(table) * BlockSize
  /\ pool' = CacheFullBlocks(got, table, req[r].tokens, cached, full)
  /\ tables' = [tables EXCEPT ![r] = table]
  /\ numCached' = [numCached EXCEPT ![r] = MaxOf(cached, full)]
  /\ raised' = raised
  /\ Len(table) >= Len(tables[r]) + Len(hit)
  /\ \A i \in 1..Len(tables[r]) : table[i] = tables[r][i]
  /\ \A i \in 1..Len(hit) : table[Len(tables[r]) + i] = hit[i]
  /\ \A i \in Len(tables[r]) + Len(hit) + 1 .. Len(table) : table[i] \in N

LEMMA AllocateIs ==
  ASSUME Books, NEW r \in Requests, NEW hit, NEW H, NEW computed, NEW n,
         AllocationInput(r, hit, H, computed, n), AllocateSlots(r, hit, computed, n)
  PROVE  \E N, got, table, cached, full :
           Allocation(r, hit, H, computed, n, N, got, table, cached, full)
  <1>. DEFINE k == computed + n + NumLookahead
              touched == Touch(pool, hit)
              m == Missing(r, hit, k)
              got == GetNewBlocks(touched, m)
              N == ToSet(NewBlocks(touched, m))
              T == ToSet(tables[r])
              table == AllocatedTable(r, hit, computed, n)
              toks == req[r].tokens
              cached == MaxOf(numCached[r], Len(hit))
              full == MinOf(computed + n, Len(toks)) \div BlockSize
  <1>1. /\ pool \in PoolType /\ FreeExact(pool) /\ Hashed(pool)
        /\ tables \in [Requests -> Seq(Blocks)] /\ (\A s \in Requests : IsInjective(tables[s]))
        /\ numCached \in [Requests -> Nat]
    BY DEF Books, BooksOf
  <1>2. /\ H \in SUBSET Blocks /\ Lists(hit, H) /\ H \cap T = {}
        /\ computed \in Nat /\ n \in Nat /\ k \in Int /\ toks \in Seq(Token)
        /\ Len(toks) <= MaxModelLen /\ Len(toks) \in Nat
    BY Numbers, LenProperties DEF AllocationInput
  <1>3. m \in 0..Len(touched.free) /\ Len(touched.free) \in Nat
    BY AllocationFits
  <1>4. /\ Lists(table, T \cup (H \cup N))
        /\ N \in SUBSET Blocks /\ N \cap H = {} /\ N \cap T = {}
        /\ table \in Seq(Blocks) /\ IsInjective(table)
        /\ MinOf(k, MaxModelLen) <= Len(table) * BlockSize
        /\ Len(table) \in Nat /\ Len(table) >= Len(hit)
    BY TableIs
  <1>5. /\ pool' = CacheFullBlocks(got, table, toks, cached, full)
        /\ tables' = [tables EXCEPT ![r] = table]
        /\ numCached' = [numCached EXCEPT ![r] = MaxOf(cached, full)]
        /\ raised' = raised
    <2>1. ~(m > Len(touched.free))
      BY <1>3
    <2>. QED  BY <2>1 DEF AllocateSlots, AllocatedTable
  <1>6. /\ touched \in PoolType /\ FreeExact(touched) /\ touched.ref = Referenced(pool.ref, H)
        /\ touched.hash = pool.hash /\ touched.cache = pool.cache
    BY <1>1, <1>2, TouchIs
  <1>7. Hashed(touched)
    BY <1>1, <1>6, SameMaps
  <1>8. /\ got \in PoolType /\ FreeExact(got) /\ got.ref = Referenced(touched.ref, N)
        /\ Hashed(got) /\ N \in SUBSET Unreferenced(touched.ref)
        /\ got.hash = [b \in Blocks |-> IF b \in N THEN NoHash ELSE touched.hash[b]]
    <2>. DEFINE cut == RemoveCachedBlockHashes(touched, N)
    <2>1. /\ got \in PoolType /\ FreeExact(got) /\ got.ref = Referenced(touched.ref, N)
          /\ got.hash = cut.hash /\ got.cache = cut.cache
          /\ N \in SUBSET Unreferenced(touched.ref)
      <3>. HIDE DEF touched, m
      <3>. QED  BY <1>3, <1>6, GetNewBlocksIs
    <2>2. Hashed(cut)
      <3>. HIDE DEF touched, N
      <3>. QED  BY <1>4, <1>6, <1>7, RemovedHashed
    <2>3. cut.hash = [b \in Blocks |-> IF b \in N THEN NoHash ELSE touched.hash[b]]
      <3>. HIDE DEF touched, N
      <3>. QED  BY <1>4, <1>6, RemovedIs
    <2>. HIDE DEF cut, got
    <2>. QED  BY <2>1, <2>2, <2>3, SameMaps
  <1>10. /\ Len(table) >= Len(tables[r]) + Len(hit)
         /\ \A i \in 1..Len(tables[r]) : table[i] = tables[r][i]
         /\ \A i \in 1..Len(hit) : table[Len(tables[r]) + i] = hit[i]
         /\ \A i \in Len(tables[r]) + Len(hit) + 1 .. Len(table) : table[i] \in N
    <2>. DEFINE new == NewBlocks(touched, m)
    <2>1. Lists(new, N)
      <3>. HIDE DEF touched, m
      <3>. QED  BY <1>3, <1>6, GetNewBlocksIs
    <2>2. new \in Seq(Blocks) /\ hit \in Seq(Blocks) /\ tables[r] \in Seq(Blocks)
      BY <1>1, <1>2, <1>4, <2>1, ListsBlocks
    <2>3. table = tables[r] \o hit \o new
      BY DEF AllocatedTable
    <2>4. PICK a : a = tables[r]
      OBVIOUS
    <2>. HIDE DEF new, table
    <2>5. /\ new \in Seq(Blocks) /\ hit \in Seq(Blocks) /\ a \in Seq(Blocks)
          /\ Joined(table, a, hit, new)
      BY <2>2, <2>3, <2>4 DEF Joined
    <2>6. /\ Len(table) = Len(a) + Len(hit) + Len(new)
          /\ \A i \in 1..Len(a) : table[i] = a[i]
          /\ \A i \in 1..Len(hit) : table[Len(a) + i] = hit[i]
          /\ \A i \in Len(a) + Len(hit) + 1 .. Len(table) : table[i] \in ToSet(new)
      BY ONLY <2>5, ConcatPositions
    <2>7. Len(table) >= Len(a) + Len(hit)
      BY <2>5, <2>6, LenProperties
    <2>. QED  BY <2>1, <2>4, <2>6, <2>7 DEF Lists
  <1>. HIDE DEF N, T, table, touched, m, got, toks
  <1>9. /\ Cacheable(table, toks, cached, full) /\ cached \in Nat /\ full \in Int
        /\ full * BlockSize <= computed + n
        /\ MinOf(computed + n, MaxModelLen) <= Len(table) * BlockSize
    <2>. DEFINE x == MinOf(computed + n, Len(toks))
                y == MinOf(k, MaxModelLen)
                z == Len(table) * BlockSize
    <2>1. /\ x \in Int /\ y \in Int /\ x <= Len(toks) /\ x <= y /\ x <= computed + n
          /\ MinOf(computed + n, MaxModelLen) <= y /\ MinOf(computed + n, MaxModelLen) \in Int
      BY <1>2, Numbers DEF MinOf
    <2>2. z \in Int /\ y <= z
      BY <1>4, Multiples
    <2>3. full \in Int /\ full * BlockSize <= x /\ full * BlockSize \in Int
      BY <2>1, Division, Multiples
    <2>4. Len(hit) \in Nat /\ numCached[r] \in Nat
      BY <1>1, <1>2, ListsMeans
    <2>5. cached \in Nat
      BY <2>4 DEF MaxOf
    <2>. HIDE DEF x, y, full, cached
    <2>6. full * BlockSize <= z /\ full * BlockSize <= Len(toks) /\ full * BlockSize <= computed + n
          /\ MinOf(computed + n, MaxModelLen) <= z
      BY <1>2, <2>1, <2>2, <2>3
    <2>7. full <= Len(table)
      BY <1>4, <2>3, <2>6, Multiples
    <2>. QED  BY <1>2, <1>4, <2>3, <2>5, <2>6, <2>7 DEF Cacheable
  <1>. HIDE DEF cached, full
  <1>11. /\ \A b \in N : pool.ref[b] = 0
         /\ \A b \in Blocks : /\ got.hash[b] = IF b \in N THEN NoHash ELSE pool.hash[b]
                              /\ got.ref[b] = pool.ref[b] + Count(b \in H \cup N)
    <2>1. pool.ref \in [Blocks -> Nat] /\ touched.ref \in [Blocks -> Nat]
      BY <1>1, <1>6 DEF PoolType
    <2>2. Unreferenced(touched.ref) = Unreferenced(pool.ref) \ H
      BY <1>2, <1>6, <2>1, ReferencedIs
    <2>3. \A b \in N : pool.ref[b] = 0
      BY <1>8, <2>2 DEF Unreferenced
    <2>4. ASSUME NEW b \in Blocks
          PROVE  got.ref[b] = pool.ref[b] + Count(b \in H \cup N)
      <3>1. touched.ref[b] = IF b \in H THEN pool.ref[b] + 1 ELSE pool.ref[b]
        BY <1>2, <1>6, <2>1, ReferencedIs
      <3>2. got.ref[b] = IF b \in N THEN touched.ref[b] + 1 ELSE touched.ref[b]
        BY <1>8 DEF Referenced
      <3>. QED  BY <1>4, <2>1, <3>1, <3>2 DEF Count
    <2>5. \A b \in Blocks : got.hash[b] = IF b \in N THEN NoHash ELSE pool.hash[b]
      BY <1>6, <1>8
    <2>. QED  BY <2>3, <2>4, <2>5
  <1>12. table = AllocatedTable(r, hit, computed, n)
    BY DEF table
  <1>13. Allocation(r, hit, H, computed, n, N, got, table, cached, full)
    BY <1>4, <1>5, <1>8, <1>9, <1>10, <1>11, <1>12 DEF Allocation, T, toks, cached, full
  <1>. QED  BY <1>13

(* allocate_slots keeps the books and does not raise. *)
LEMMA AllocateBooks ==
  ASSUME Books, NEW r \in Requests, NEW hit, NEW H, NEW computed, NEW n,
         AllocationInput(r, hit, H, computed, n),
         AllocateSlots(r, hit, computed, n), deferred' = deferred
  PROVE  /\ Books' /\ raised' = raised
         /\ tables' = [tables EXCEPT ![r] = AllocatedTable(r, hit, computed, n)]
         /\ MinOf(computed + n, MaxModelLen)
              <= Len(AllocatedTable(r, hit, computed, n)) * BlockSize
  <1>. DEFINE held(b) == Cardinality(HeldBy(tables, b))
              late(b) == Cardinality(Awaiting(deferred, b))
  <1>1. /\ pool \in PoolType
        /\ tables \in [Requests -> Seq(Blocks)] /\ (\A s \in Requests : IsInjective(tables[s]))
        /\ deferred \in Seq(Seq(Blocks)) /\ (\A i \in DOMAIN deferred : IsInjective(deferred[i]))
        /\ numCached \in [Requests -> Nat]
        /\ \A b \in Blocks : pool.ref[b] = held(b) + late(b)
    BY DEF Books, BooksOf
  <1>2. PICK N, got, table, cached, full :
          Allocation(r, hit, H, computed, n, N, got, table, cached, full)
    BY AllocateIs
  <1>3. /\ table = AllocatedTable(r, hit, computed, n)
        /\ Lists(table, ToSet(tables[r]) \cup (H \cup N)) /\ table \in Seq(Blocks) /\ IsInjective(table)
        /\ N \cap ToSet(tables[r]) = {} /\ H \cap ToSet(tables[r]) = {}
        /\ got \in PoolType /\ FreeExact(got) /\ Hashed(got)
        /\ \A b \in Blocks : got.ref[b] = pool.ref[b] + Count(b \in H \cup N)
        /\ cached \in Nat /\ full \in Int
        /\ Cacheable(table, req[r].tokens, cached, full)
        /\ MinOf(computed + n, MaxModelLen) <= Len(table) * BlockSize
        /\ pool' = CacheFullBlocks(got, table, req[r].tokens, cached, full)
        /\ tables' = [tables EXCEPT ![r] = table]
        /\ numCached' = [numCached EXCEPT ![r] = MaxOf(cached, full)]
        /\ raised' = raised
    BY <1>2 DEF Allocation, AllocationInput
  <1>4. pool' \in PoolType /\ pool'.free = got.free /\ pool'.ref = got.ref /\ Hashed(pool')
    <2>. DEFINE q == CacheFullBlocks(got, table, req[r].tokens, cached, full)
    <2>1. q \in PoolType /\ q.free = got.free /\ q.ref = got.ref
      BY <1>3, CacheFullFrame
    <2>2. Hashed(q)
      BY <1>3, CacheFullHashed
    <2>. HIDE DEF q
    <2>3. pool' = q
      BY <1>3 DEF q
    <2>. QED  BY <2>1, <2>2, <2>3
  <1>5. FreeExact(pool')
    BY <1>3, <1>4, SameMaps
  <1>6. /\ tables' \in [Requests -> Seq(Blocks)] /\ \A s \in Requests : IsInjective(tables'[s])
    BY <1>1, <1>3
  <1>7. numCached' \in [Requests -> Nat]
    <2>1. MaxOf(cached, full) \in Nat
      BY <1>3 DEF MaxOf
    <2>. QED  BY <1>1, <1>3, <2>1
  <1>8. ASSUME NEW b \in Blocks
        PROVE  pool'.ref[b] = Cardinality(HeldBy(tables', b)) + Cardinality(Awaiting(deferred', b))
    <2>1. Cardinality(HeldBy(tables', b)) = held(b) + Count(b \in H \cup N)
      <3>1. PICK M : M = H \cup N
        OBVIOUS
      <3>2. /\ ToSet(tables'[r]) = ToSet(tables[r]) \cup M /\ M \cap ToSet(tables[r]) = {}
            /\ \A s \in Requests \ {r} : tables'[s] = tables[s]
        BY <1>1, <1>3, <3>1 DEF Lists
      <3>3. GetsBlocks(tables, tables', r, M)
        BY <3>2 DEF GetsBlocks
      <3>4. Cardinality(HeldBy(tables', b)) = held(b) + Count(b \in M)
        BY <3>3, HeldMore
      <3>. QED  BY <3>1, <3>4
    <2>2. held(b) \in Nat /\ late(b) \in Nat
      BY <1>1, HoldersFinite
    <2>3. pool.ref[b] = held(b) + late(b) /\ Cardinality(Awaiting(deferred', b)) = late(b)
      BY <1>1
    <2>4. pool'.ref[b] = pool.ref[b] + Count(b \in H \cup N)
      BY <1>3, <1>4
    <2>. HIDE DEF held, late
    <2>5. Count(b \in H \cup N) \in Nat
      BY DEF Count
    <2>. QED  BY <2>1, <2>2, <2>3, <2>4, <2>5
  <1>9. deferred' \in Seq(Seq(Blocks)) /\ \A i \in DOMAIN deferred' : IsInjective(deferred'[i])
    BY <1>1
  <1>10. Books'
    BY <1>4, <1>5, <1>6, <1>7, <1>8, <1>9 DEF Books, BooksOf
  <1>. QED  BY <1>3, <1>10
-----------------------------------------------------------------------------
(* Requests *)

FlightType == [gen : Nat, spec : Nat]
ReqType == [status : {"waiting", "running", "finished"}, tokens : Seq(Token), seq : Seq(Token),
            computed : Nat, placeholders : Nat, spec : Nat, flight : Seq(FlightType)]

(* Tokens in flight, and the placeholders they stand for *)
Gens(flight) == [i \in DOMAIN flight |-> flight[i].gen]
Weight(f) == IF f.gen > 0 THEN 1 + f.spec ELSE 0
Weights(flight) == [i \in DOMAIN flight |-> Weight(flight[i])]

(* The counts of a request fit its tokens and what is in flight for it.    *)
Sound(q) ==
  /\ Len(q.tokens) \in 1..MaxModelLen
  /\ \A i \in DOMAIN q.flight : q.flight[i].gen <= q.flight[i].spec + 1
  /\ Len(q.seq) = Len(q.tokens) + Total(Gens(q.flight))
  /\ \A i \in 1..Len(q.tokens) : q.seq[i] = q.tokens[i]
  /\ q.computed - q.placeholders <= Len(q.tokens) - 1
  /\ q.placeholders > 0 => q.computed - q.placeholders = Len(q.tokens) - 1
  /\ IF q.status = "running" THEN q.placeholders = Total(Weights(q.flight))
                             ELSE q.placeholders = 0 /\ q.computed = 0

(* Sums over the outputs in flight are numbers, zero when there are none. *)
LEMMA FlightSums ==
  ASSUME NEW flight \in Seq(FlightType)
  PROVE  /\ Len(flight) \in Nat /\ DOMAIN flight = 1..Len(flight)
         /\ \A i \in 1..Len(flight) : /\ flight[i] \in FlightType /\ flight[i].gen \in Nat
                                      /\ flight[i].spec \in Nat /\ Weight(flight[i]) \in Nat
         /\ Gens(flight) \in [1..Len(flight) -> Nat] /\ Weights(flight) \in [1..Len(flight) -> Nat]
         /\ Total(Gens(flight)) \in Nat /\ Total(Weights(flight)) \in Nat
  <1>. DEFINE n == Len(flight)
  <1>1. n \in Nat /\ DOMAIN flight = 1..n /\ \A i \in 1..n : flight[i] \in FlightType
    BY LenProperties, ElementOfSeq
  <1>2. \A f \in FlightType : f.gen \in Nat /\ f.spec \in Nat /\ Weight(f) \in Nat
    BY DEF FlightType, Weight
  <1>. HIDE DEF n
  <1>3. Gens(flight) \in [1..n -> Nat] /\ Weights(flight) \in [1..n -> Nat]
    BY <1>1, <1>2 DEF Gens, Weights
  <1>4. IsFiniteSet(1..n)
    BY <1>1, FS_Interval
  <1>5. Total(Gens(flight)) \in Nat /\ Total(Weights(flight)) \in Nat
    BY <1>3, <1>4, UnitsFinite
  <1>. QED  BY <1>1, <1>2, <1>3, <1>5 DEF n

LEMMA NoFlight == Total(Gens(<<>>)) = 0 /\ Total(Weights(<<>>)) = 0
  <1>1. Gens(<<>>) = <<>> /\ Weights(<<>>) = <<>>
    BY DEF Gens, Weights
  <1>2. Units(<<>>) = {}
    BY DEF Units
  <1>. QED  BY <1>1, <1>2, FS_EmptySet DEF Total

(* A batch is issued. *)
LEMMA FlightAppend ==
  ASSUME NEW flight \in Seq(FlightType), NEW f \in FlightType
  PROVE  /\ Total(Gens(Append(flight, f))) = Total(Gens(flight)) + f.gen
         /\ Total(Weights(Append(flight, f))) = Total(Weights(flight)) + Weight(f)
  <1>. DEFINE n == Len(flight)
              w == Append(flight, f)
  <1>1. /\ w \in Seq(FlightType) /\ Len(w) = n + 1 /\ n \in Nat /\ w[n + 1] = f
        /\ \A i \in 1..n : w[i] = flight[i]
    BY AppendProperties, LenProperties
  <1>2. /\ DOMAIN flight = 1..n /\ DOMAIN w = 1..(n + 1)
        /\ Gens(flight) \in [1..n -> Nat] /\ Weights(flight) \in [1..n -> Nat]
        /\ Gens(w) \in [1..(n + 1) -> Nat] /\ Weights(w) \in [1..(n + 1) -> Nat]
    BY <1>1, FlightSums
  <1>3. n + 1 \in 1..(n + 1) /\ \A i \in 1..n : i \in 1..(n + 1)
    BY <1>1
  <1>. HIDE DEF n, w
  <1>4. /\ \A i \in 1..n : Gens(w)[i] = Gens(flight)[i] /\ Weights(w)[i] = Weights(flight)[i]
        /\ Gens(w)[n + 1] = f.gen /\ Weights(w)[n + 1] = Weight(f)
    BY <1>1, <1>2, <1>3 DEF Gens, Weights
  <1>5. Total(Gens(w)) = Total(Gens(flight)) + Gens(w)[n + 1]
    BY <1>1, <1>2, <1>4, TotalAppend
  <1>6. Total(Weights(w)) = Total(Weights(flight)) + Weights(w)[n + 1]
    BY <1>1, <1>2, <1>4, TotalAppend
  <1>. QED  BY <1>4, <1>5, <1>6 DEF w

(* The oldest output arrives. *)
LEMMA FlightTail ==
  ASSUME NEW flight \in Seq(FlightType), flight # <<>>
  PROVE  /\ Head(flight) \in FlightType /\ Tail(flight) \in Seq(FlightType)
         /\ 1 \in DOMAIN flight /\ Head(flight) = flight[1]
         /\ \A i \in DOMAIN Tail(flight) : \E j \in DOMAIN flight : Tail(flight)[i] = flight[j]
         /\ Total(Gens(flight)) = Head(flight).gen + Total(Gens(Tail(flight)))
         /\ Total(Weights(flight)) = Weight(Head(flight)) + Total(Weights(Tail(flight)))
  <1>. DEFINE n == Len(flight)
              w == Tail(flight)
  <1>1. /\ w \in Seq(FlightType) /\ Len(w) = n - 1 /\ n \in Nat /\ n > 0 /\ Head(flight) = flight[1]
        /\ \A i \in 1..(n - 1) : w[i] = flight[i + 1]
    BY EmptySeq, LenProperties
  <1>2. /\ DOMAIN flight = 1..n /\ DOMAIN w = 1..(n - 1)
        /\ Gens(flight) \in [1..n -> Nat] /\ Weights(flight) \in [1..n -> Nat]
        /\ Gens(w) \in [1..(n - 1) -> Nat] /\ Weights(w) \in [1..(n - 1) -> Nat]
        /\ \A i \in 1..n : flight[i] \in FlightType
    BY <1>1, FlightSums
  <1>3. 1 \in 1..n /\ \A i \in 1..(n - 1) : i + 1 \in 1..n
    BY <1>1
  <1>. HIDE DEF n, w
  <1>4. /\ \A i \in 1..(n - 1) : Gens(w)[i] = Gens(flight)[i + 1] /\ Weights(w)[i] = Weights(flight)[i + 1]
        /\ Gens(flight)[1] = Head(flight).gen /\ Weights(flight)[1] = Weight(Head(flight))
    BY <1>1, <1>2, <1>3 DEF Gens, Weights
  <1>5. Total(Gens(flight)) = Gens(flight)[1] + Total(Gens(w))
    <2>. DEFINE f == Gens(flight)
                g == Gens(w)
    <2>1. /\ n \in Nat /\ n > 0 /\ f \in [1..n -> Nat] /\ g \in [1..(n - 1) -> Nat]
          /\ \A i \in 1..(n - 1) : g[i] = f[i + 1]
      BY <1>1, <1>2, <1>4
    <2>. HIDE DEF f, g
    <2>2. Total(f) = f[1] + Total(g)
      BY ONLY <2>1, TotalTail
    <2>. QED  BY <2>2 DEF f, g
  <1>6. Total(Weights(flight)) = Weights(flight)[1] + Total(Weights(w))
    <2>. DEFINE f == Weights(flight)
                g == Weights(w)
    <2>1. /\ n \in Nat /\ n > 0 /\ f \in [1..n -> Nat] /\ g \in [1..(n - 1) -> Nat]
          /\ \A i \in 1..(n - 1) : g[i] = f[i + 1]
      BY <1>1, <1>2, <1>4
    <2>. HIDE DEF f, g
    <2>2. Total(f) = f[1] + Total(g)
      BY ONLY <2>1, TotalTail
    <2>. QED  BY <2>2 DEF f, g
  <1>7. \A i \in DOMAIN w : \E j \in DOMAIN flight : w[i] = flight[j]
    BY <1>1, <1>2, <1>3
  <1>8. Head(flight) \in FlightType
    BY <1>1, <1>2, <1>3
  <1>. QED  BY <1>1, <1>2, <1>3, <1>4, <1>5, <1>6, <1>7, <1>8 DEF w

(* _preempt_request *)
LEMMA PreemptedSound ==
  ASSUME NEW q \in ReqType, Sound(q), NEW drop \in BOOLEAN
  PROVE  Preempted(q, drop) \in ReqType /\ Sound(Preempted(q, drop))
         /\ Preempted(q, drop).status = "waiting"
  <1>. DEFINE t == Preempted(q, drop)
              sq == IF drop THEN q.tokens ELSE q.seq
              fl == IF drop THEN <<>> ELSE q.flight
  <1>1. t = [q EXCEPT !.status = "waiting", !.computed = 0, !.placeholders = 0, !.spec = 0,
                      !.seq = sq, !.flight = fl]
    BY DEF Preempted, ReqType
  <1>2. sq \in Seq(Token) /\ fl \in Seq(FlightType)
    BY DEF ReqType
  <1>3. /\ Len(sq) = Len(q.tokens) + Total(Gens(fl))
        /\ \A i \in 1..Len(q.tokens) : sq[i] = q.tokens[i]
        /\ \A i \in DOMAIN fl : fl[i].gen <= fl[i].spec + 1
    <2>1. CASE drop
      <3>1. Len(q.tokens) \in Nat
        BY LenProperties DEF ReqType
      <3>. QED  BY <2>1, <3>1, NoFlight
    <2>2. CASE ~drop
      BY <2>2 DEF Sound
    <2>. QED  BY <2>1, <2>2
  <1>. HIDE DEF t, sq, fl
  <1>4. /\ t \in ReqType /\ t.status = "waiting" /\ t.computed = 0 /\ t.placeholders = 0
        /\ t.seq = sq /\ t.flight = fl /\ t.tokens = q.tokens
    BY <1>1, <1>2 DEF ReqType
  <1>5. Len(q.tokens) \in 1..MaxModelLen
    BY DEF Sound
  <1>6. Sound(t)
    BY <1>3, <1>4, <1>5 DEF Sound
  <1>. QED  BY <1>4, <1>6 DEF t

(* A request that is over: only its tokens matter. *)
LEMMA FinishedSound ==
  ASSUME NEW q, q.tokens \in Seq(Token), Len(q.tokens) \in 1..MaxModelLen,
         NEW C, q \in [status : {"waiting", "running", "finished"}, tokens : Seq(Token),
                       seq : Seq(Token), computed : C, placeholders : C, spec : Nat,
                       flight : Seq(FlightType)]
  PROVE  Finished(q) \in ReqType /\ Sound(Finished(q)) /\ Finished(q).status = "finished"
  <1>. DEFINE t == Finished(q)
  <1>1. t = [q EXCEPT !.status = "finished", !.computed = 0, !.placeholders = 0,
                      !.spec = 0, !.seq = q.tokens, !.flight = <<>>]
    BY DEF Finished
  <1>. HIDE DEF t
  <1>2. /\ t \in ReqType /\ t.status = "finished" /\ t.computed = 0 /\ t.placeholders = 0
        /\ t.seq = q.tokens /\ t.flight = <<>> /\ t.tokens = q.tokens
    <2>1. <<>> \in Seq(FlightType) /\ 0 \in Nat
      OBVIOUS
    <2>. QED  BY <1>1, <2>1 DEF ReqType
  <1>3. Sound(t)
    BY <1>2, NoFlight DEF Sound
  <1>. QED  BY <1>2, <1>3 DEF t

(* An admitted request starts behind its hits. *)
AdmittedAs(t, q, base) == t = [q EXCEPT !.status = "running", !.computed = base]

LEMMA AdmittedSound ==
  ASSUME NEW q \in ReqType, Sound(q), q.status = "waiting", q.flight = <<>>,
         NEW base \in Nat, base <= Len(q.tokens) - 1, NEW t, AdmittedAs(t, q, base)
  PROVE  /\ t \in ReqType /\ Sound(t) /\ t.status = "running"
         /\ t.computed = base /\ t.tokens = q.tokens
  <1>1. /\ t \in ReqType /\ t.status = "running" /\ t.computed = base
        /\ t.placeholders = q.placeholders
        /\ t.seq = q.seq /\ t.flight = <<>> /\ t.tokens = q.tokens
    BY DEF ReqType, AdmittedAs
  <1>2. q.placeholders = 0
    BY DEF Sound
  <1>3. Len(q.tokens) \in Int
    BY LenProperties DEF ReqType
  <1>4. Sound(t)
    BY <1>1, <1>2, <1>3, NoFlight DEF Sound
  <1>. QED  BY <1>1, <1>4

(* An output: the tokens it is about to append are in flight. *)
Answered(q, kept) ==
  /\ q.flight # <<>> /\ kept \in Nat /\ kept <= Head(q.flight).gen
  /\ (kept = 0 <=> Head(q.flight).gen = 0) /\ Len(q.tokens) + kept <= MaxModelLen

(* The tokens and counts after an output *)
LEMMA AfterOutputIs ==
  ASSUME NEW q \in ReqType, Sound(q), NEW kept, Answered(q, kept)
  PROVE  LET t == AfterOutput(q, Head(q.flight), kept)
         IN /\ t \in [status : {"waiting", "running", "finished"}, tokens : Seq(Token),
                      seq : Seq(Token), computed : Nat, placeholders : Int, spec : Nat,
                      flight : Seq(FlightType)]
            /\ t.status = q.status /\ t.seq = q.seq /\ t.flight = Tail(q.flight)
            /\ Len(t.tokens) = Len(q.tokens) + kept /\ Len(t.tokens) \in 1..MaxModelLen
            /\ \A i \in 1..Len(t.tokens) : t.tokens[i] = q.seq[i]
            /\ t.computed <= q.computed
            /\ q.status = "running" =>
                 /\ t.computed - t.placeholders = q.computed - q.placeholders + kept
                 /\ kept <= q.placeholders
                 /\ Head(q.flight).gen = kept =>
                      t.placeholders = q.placeholders - Weight(Head(q.flight))
            /\ q.status # "running" => t.computed = 0 /\ t.placeholders = 0
  <1>. DEFINE f == Head(q.flight)
              live == q.status = "running"
              back == IF live /\ f.gen > 0 THEN f.spec - (f.gen - 1) ELSE 0
              n == Len(q.tokens)
              toks == SubSeq(q.seq, 1, n + kept)
              cm == q.computed - back
              ph == IF live THEN q.placeholders - back - kept ELSE q.placeholders
              t == AfterOutput(q, f, kept)
              rest == Tail(q.flight)
  <1>1. t = [q EXCEPT !.tokens = toks, !.flight = rest, !.computed = cm, !.placeholders = ph]
    BY DEF AfterOutput, ReqType
  <1>2. /\ q.flight \in Seq(FlightType) /\ q.computed \in Nat /\ q.placeholders \in Nat
        /\ q.seq \in Seq(Token) /\ Len(q.seq) \in Nat /\ n \in Nat
    BY LenProperties DEF ReqType
  <1>3. /\ f \in FlightType /\ rest \in Seq(FlightType) /\ 1 \in DOMAIN q.flight /\ f = q.flight[1]
        /\ Total(Gens(q.flight)) = f.gen + Total(Gens(rest))
        /\ Total(Weights(q.flight)) = Weight(f) + Total(Weights(rest))
    BY <1>2, FlightTail DEF Answered
  <1>4. Total(Gens(rest)) \in Nat /\ Total(Weights(rest)) \in Nat
    BY <1>3, FlightSums
  <1>5. f.gen \in Nat /\ f.spec \in Nat /\ f.gen <= f.spec + 1
    BY <1>3 DEF FlightType, Sound
  <1>6. kept \in Nat /\ kept <= f.gen /\ (kept = 0 <=> f.gen = 0) /\ n + kept <= MaxModelLen
    BY DEF Answered
  <1>7. n >= 1 /\ Len(q.seq) = n + Total(Gens(q.flight)) /\ n + kept <= Len(q.seq)
    <2>1. n >= 1 /\ Len(q.seq) = n + Total(Gens(q.flight))
      BY Numbers DEF Sound
    <2>. HIDE DEF n, f, rest
    <2>. QED  BY <1>2, <1>3, <1>4, <1>5, <1>6, <2>1, SMTT(30)
  <1>8. toks \in Seq(Token) /\ Len(toks) = n + kept /\ \A i \in 1..(n + kept) : toks[i] = q.seq[i]
    <2>. DEFINE m == n + kept
    <2>1. m \in Nat /\ m >= 1 /\ m <= Len(q.seq)
      BY <1>2, <1>6, <1>7
    <2>. HIDE DEF m
    <2>2. m \in 1..Len(q.seq)
      BY <1>2, <2>1
    <2>3. SubSeq(q.seq, 1, m) \in Seq(Token) /\ Len(SubSeq(q.seq, 1, m)) = m
          /\ \A i \in 1..m : SubSeq(q.seq, 1, m)[i] = q.seq[i]
      BY <1>2, <2>1, <2>2, SubSeqProperties
    <2>. QED  BY <2>3 DEF m
  <1>9. (live /\ f.gen > 0) => /\ q.placeholders >= 1 + f.spec
                               /\ q.computed - q.placeholders = n - 1
    <2>. SUFFICES ASSUME live, f.gen > 0
                  PROVE  q.placeholders >= 1 + f.spec /\ q.computed - q.placeholders = n - 1
      OBVIOUS
    <2>1. Weight(f) = 1 + f.spec /\ q.placeholders = Total(Weights(q.flight))
      BY DEF Weight, Sound
    <2>. HIDE DEF f, rest
    <2>2. q.placeholders >= 1 + f.spec /\ q.placeholders > 0
      BY <1>3, <1>4, <1>5, <2>1
    <2>. QED  BY <2>2 DEF Sound
  <1>10. /\ cm \in Nat /\ cm <= q.computed /\ ph \in Int
         /\ live => /\ cm - ph = q.computed - q.placeholders + kept
                    /\ kept <= q.placeholders
                    /\ f.gen = kept => ph = q.placeholders - Weight(f)
         /\ ~live => cm = 0 /\ ph = 0
    <2>1. CASE live /\ f.gen > 0
      <3>1. back = f.spec - (f.gen - 1) /\ Weight(f) = 1 + f.spec
        BY <2>1 DEF Weight
      <3>3. ph = q.placeholders - back - kept
        BY <2>1
      <3>4. q.placeholders >= 1 + f.spec /\ q.computed - q.placeholders = n - 1
        BY <1>9, <2>1
      <3>. HIDE DEF f, n, back, ph
      <3>5. /\ q.computed - back \in Nat /\ q.computed - back <= q.computed
            /\ q.placeholders - back - kept \in Int
            /\ (q.computed - back) - (q.placeholders - back - kept) = q.computed - q.placeholders + kept
            /\ kept <= q.placeholders
            /\ f.gen = kept => q.placeholders - back - kept = q.placeholders - (1 + f.spec)
        <4>. DEFINE c == q.computed
                    p == q.placeholders
                    s == f.spec
                    g == f.gen
        <4>1. /\ c \in Nat /\ p \in Nat /\ s \in Nat /\ g \in Nat /\ kept \in Nat /\ n \in Nat
              /\ g <= s + 1 /\ kept <= g /\ g > 0 /\ n >= 1 /\ p >= 1 + s /\ c - p = n - 1
              /\ back = s - (g - 1)
          BY <1>2, <1>5, <1>6, <1>7, <2>1, <3>1, <3>4
        <4>. HIDE DEF c, p, s, g
        <4>2. /\ c - back \in Nat /\ c - back <= c /\ p - back - kept \in Int
              /\ (c - back) - (p - back - kept) = c - p + kept
              /\ kept <= p /\ (g = kept => p - back - kept = p - (1 + s))
          BY ONLY <4>1
        <4>. QED  BY <4>2 DEF c, p, s, g
      <3>. QED  BY <2>1, <3>1, <3>3, <3>5
    <2>2. CASE live /\ ~(f.gen > 0)
      <3>1. back = 0 /\ Weight(f) = 0
        BY <2>2 DEF Weight
      <3>. HIDE DEF f, n, back
      <3>. QED  BY <1>2, <1>5, <1>6, <2>2, <3>1
    <2>3. CASE ~live
      <3>1. back = 0 /\ q.placeholders = 0 /\ q.computed = 0
        BY <2>3 DEF Sound
      <3>. QED  BY <2>3, <3>1
    <2>. QED  BY <2>1, <2>2, <2>3
  <1>. HIDE DEF f, toks, cm, ph, rest, t
  <1>11. /\ t \in [status : {"waiting", "running", "finished"}, tokens : Seq(Token),
                   seq : Seq(Token), computed : Nat, placeholders : Int, spec : Nat,
                   flight : Seq(FlightType)]
         /\ t.status = q.status /\ t.seq = q.seq /\ t.flight = rest
         /\ t.tokens = toks /\ t.computed = cm /\ t.placeholders = ph
    BY <1>1, <1>3, <1>8, <1>10 DEF ReqType
  <1>12. n + kept \in 1..MaxModelLen
    BY <1>2, <1>6, <1>7, Numbers
  <1>. HIDE DEF n
  <1>. QED  BY <1>8, <1>10, <1>11, <1>12 DEF t, n, rest, f

(* An output appended in full leaves the request sound. *)
LEMMA AfterOutputSound ==
  ASSUME NEW q \in ReqType, Sound(q), Answered(q, Head(q.flight).gen)
  PROVE  LET t == AfterOutput(q, Head(q.flight), Head(q.flight).gen)
         IN t \in ReqType /\ Sound(t)
  <1>. DEFINE f == Head(q.flight)
              g == f.gen
              rest == Tail(q.flight)
              n == Len(q.tokens)
              t == AfterOutput(q, f, g)
  <1>1. /\ t \in [status : {"waiting", "running", "finished"}, tokens : Seq(Token),
                  seq : Seq(Token), computed : Nat, placeholders : Int, spec : Nat,
                  flight : Seq(FlightType)]
        /\ t.status = q.status /\ t.seq = q.seq /\ t.flight = rest
        /\ Len(t.tokens) = n + g /\ Len(t.tokens) \in 1..MaxModelLen
        /\ \A i \in 1..Len(t.tokens) : t.tokens[i] = q.seq[i]
        /\ t.computed <= q.computed
        /\ q.status = "running" =>
             /\ t.computed - t.placeholders = q.computed - q.placeholders + g
             /\ g <= q.placeholders
             /\ g = g => t.placeholders = q.placeholders - Weight(f)
        /\ q.status # "running" => t.computed = 0 /\ t.placeholders = 0
    BY AfterOutputIs
  <1>2. q.flight \in Seq(FlightType) /\ q.computed \in Nat /\ q.placeholders \in Nat /\ n \in Nat
    BY LenProperties DEF ReqType
  <1>3. /\ f \in FlightType /\ rest \in Seq(FlightType)
        /\ \A i \in DOMAIN rest : \E j \in DOMAIN q.flight : rest[i] = q.flight[j]
        /\ Total(Gens(q.flight)) = g + Total(Gens(rest))
        /\ Total(Weights(q.flight)) = Weight(f) + Total(Weights(rest))
    BY <1>2, FlightTail DEF Answered
  <1>4. Total(Gens(rest)) \in Nat /\ Total(Weights(rest)) \in Nat /\ g \in Nat /\ Weight(f) \in Nat
    <2>1. \A x \in FlightType : x.gen \in Nat /\ Weight(x) \in Nat
      BY DEF FlightType, Weight
    <2>. QED  BY <1>3, <2>1, FlightSums
  <1>. HIDE DEF f, g, rest, n, t
  <1>5. IF q.status = "running" THEN t.placeholders = Total(Weights(t.flight))
                                ELSE t.placeholders = 0 /\ t.computed = 0
    <2>1. CASE q.status = "running"
      <3>1. q.placeholders = Total(Weights(q.flight))
        BY <2>1 DEF Sound
      <3>. QED  BY <1>1, <1>3, <1>4, <2>1, <3>1
    <2>2. CASE q.status # "running"
      BY <1>1, <2>2
    <2>. QED  BY <2>1, <2>2
  <1>6. t.placeholders \in Nat
    <2>1. CASE q.status = "running"
      BY <1>1, <1>4, <1>5, <2>1
    <2>2. CASE q.status # "running"
      BY <1>1, <2>2
    <2>. QED  BY <2>1, <2>2
  <1>7. t \in ReqType
    BY <1>1, <1>6 DEF ReqType
  <1>8. /\ t.computed - t.placeholders <= Len(t.tokens) - 1
        /\ t.placeholders > 0 => t.computed - t.placeholders = Len(t.tokens) - 1
    <2>1. CASE q.status = "running"
      <3>. DEFINE a == t.computed - t.placeholders
                  b == q.computed - q.placeholders
      <3>1. a \in Int /\ b \in Int
        BY <1>1, <1>2, <1>6, <1>7, SMTT(30) DEF ReqType
      <3>2. a = b + g /\ Len(t.tokens) = n + g /\ t.placeholders <= q.placeholders
        BY <1>1, <1>2, <1>4, <2>1, SMTT(30)
      <3>3. b <= n - 1 /\ (q.placeholders > 0 => b = n - 1)
        BY DEF Sound, n
      <3>. HIDE DEF a, b
      <3>4. a <= Len(t.tokens) - 1 /\ (t.placeholders > 0 => a = Len(t.tokens) - 1)
        BY <1>2, <1>4, <1>6, <3>1, <3>2, <3>3
      <3>. QED  BY <3>4 DEF a
    <2>2. CASE q.status # "running"
      BY <1>1, <2>2, Numbers
    <2>. QED  BY <2>1, <2>2
  <1>9. Len(t.seq) = Len(t.tokens) + Total(Gens(t.flight))
    <2>1. Len(q.seq) = n + Total(Gens(q.flight))
      BY DEF Sound, n
    <2>. QED  BY <1>1, <1>2, <1>3, <1>4, <2>1
  <1>10. \A i \in DOMAIN t.flight : t.flight[i].gen <= t.flight[i].spec + 1
    BY <1>1, <1>3 DEF Sound
  <1>11. Sound(t)
    BY <1>1, <1>5, <1>8, <1>9, <1>10 DEF Sound
  <1>. QED  BY <1>7, <1>11 DEF t, f, g

(* The request goes into a batch of k tokens, d of them drafts, and the    *)
(* workers sample `out`.                                                   *)
IssuedAs(q, k, d, out) ==
  [q EXCEPT !.computed = @ + k,
            !.placeholders = IF out = <<>> THEN @ ELSE @ + 1 + d,
            !.spec = IF out = <<>> THEN 0 ELSE NumSpec,
            !.seq = @ \o out,
            !.flight = Append(@, [gen |-> Len(out), spec |-> d])]

LEMMA IssuedSound ==
  ASSUME NEW q \in ReqType, Sound(q), q.status = "running", NEW k \in Nat \ {0},
         NEW d \in Nat, d = MaxOf(q.computed + k - Len(q.tokens) - q.placeholders, 0),
         NEW out \in Seq(Token), Len(out) <= d + 1,
         out = <<>> <=> ~(q.computed + k >= Len(q.tokens) + q.placeholders)
  PROVE  /\ IssuedAs(q, k, d, out) \in ReqType /\ Sound(IssuedAs(q, k, d, out))
         /\ IssuedAs(q, k, d, out).status = "running"
         /\ IssuedAs(q, k, d, out).computed = q.computed + k
  <1>. DEFINE f == [gen |-> Len(out), spec |-> d]
              cm == q.computed + k
              ph == IF out = <<>> THEN q.placeholders ELSE q.placeholders + 1 + d
              sp == IF out = <<>> THEN 0 ELSE NumSpec
              sq == q.seq \o out
              fl == Append(q.flight, f)
              n == Len(q.tokens)
              t == IssuedAs(q, k, d, out)
  <1>1. t = [q EXCEPT !.computed = cm, !.placeholders = ph, !.spec = sp, !.seq = sq, !.flight = fl]
    BY DEF IssuedAs, ReqType
  <1>2. /\ q.flight \in Seq(FlightType) /\ q.computed \in Nat /\ q.placeholders \in Nat /\ n \in Nat
        /\ q.seq \in Seq(Token) /\ Len(q.seq) \in Nat /\ Len(out) \in Nat
    BY LenProperties DEF ReqType
  <1>3. /\ f \in FlightType /\ fl \in Seq(FlightType) /\ f.gen = Len(out) /\ f.spec = d
    BY <1>2, AppendProperties DEF FlightType
  <1>4. cm \in Nat /\ ph \in Nat /\ sp \in Nat
    <2>1. cm \in Nat
      BY <1>2
    <2>2. q.placeholders \in Nat /\ q.placeholders + 1 + d \in Nat
      BY <1>2, SMTT(30)
    <2>. QED  BY <2>1, <2>2, Numbers
  <1>5. sq \in Seq(Token) /\ Len(sq) = Len(q.seq) + Len(out) /\ \A i \in 1..Len(q.seq) : sq[i] = q.seq[i]
    BY <1>2, ConcatProperties
  <1>6. /\ Total(Gens(fl)) = Total(Gens(q.flight)) + Len(out)
        /\ Total(Weights(fl)) = Total(Weights(q.flight)) + Weight(f)
        /\ Total(Gens(q.flight)) \in Nat /\ Total(Weights(q.flight)) \in Nat
    BY <1>2, <1>3, FlightAppend, FlightSums
  <1>7. Len(out) = 0 <=> out = <<>>
    BY EmptySeq
  <1>8. Weight(f) = IF out = <<>> THEN 0 ELSE 1 + d
    BY <1>2, <1>3, <1>7 DEF Weight
  <1>9. \A i \in DOMAIN fl : fl[i].gen <= fl[i].spec + 1
    <2>. DEFINE m == Len(q.flight)
    <2>1. /\ m \in Nat /\ DOMAIN q.flight = 1..m /\ DOMAIN fl = 1..(m + 1) /\ fl[m + 1] = f
          /\ \A i \in 1..m : fl[i] = q.flight[i]
      BY <1>2, <1>3, AppendProperties, LenProperties
    <2>2. \A i \in 1..(m + 1) : i \in 1..m \/ i = m + 1
      BY <2>1
    <2>3. \A i \in 1..m : q.flight[i].gen <= q.flight[i].spec + 1
      BY <2>1 DEF Sound
    <2>. HIDE DEF m, fl, f
    <2>. QED  BY <1>3, <2>1, <2>2, <2>3
  <1>10. q.placeholders = Total(Weights(q.flight))
    BY DEF Sound
  <1>11. cm - ph <= n - 1 /\ (ph > 0 => cm - ph = n - 1)
    <2>. DEFINE c == q.computed
                p == q.placeholders
    <2>1. c \in Nat /\ p \in Nat /\ n \in Nat /\ c - p <= n - 1 /\ (p > 0 => c - p = n - 1)
      BY <1>2 DEF Sound
    <2>2. CASE out = <<>>
      <3>1. ~(c + k >= n + p) /\ ph = p /\ cm = c + k
        BY <2>2
      <3>. HIDE DEF c, p, n, ph, cm
      <3>. QED  BY <2>1, <3>1
    <2>3. CASE out # <<>>
      <3>1. c + k >= n + p /\ ph = p + 1 + d /\ cm = c + k
        BY <2>3
      <3>2. d = IF c + k - n - p > 0 THEN c + k - n - p ELSE 0
        BY DEF MaxOf
      <3>. HIDE DEF c, p, n, ph, cm
      <3>. QED  BY <2>1, <3>1, <3>2, SMTT(30)
    <2>. QED  BY <2>2, <2>3
  <1>. HIDE DEF f, cm, sp, sq, fl, t
  <1>12. ph = Total(Weights(fl))
    <2>1. CASE out = <<>>
      BY <1>2, <1>6, <1>8, <1>10, <2>1
    <2>2. CASE out # <<>>
      <3>1. ph = q.placeholders + 1 + d /\ Weight(f) = 1 + d
        BY <1>8, <2>2
      <3>. HIDE DEF ph
      <3>. QED  BY <1>2, <1>6, <1>10, <3>1
    <2>. QED  BY <2>1, <2>2
  <1>. HIDE DEF ph
  <1>13. /\ t \in ReqType /\ t.status = "running" /\ t.computed = cm /\ t.placeholders = ph
         /\ t.seq = sq /\ t.flight = fl /\ t.tokens = q.tokens
    BY <1>1, <1>3, <1>4, <1>5 DEF ReqType
  <1>14. /\ n \in 1..MaxModelLen /\ Len(q.seq) = n + Total(Gens(q.flight))
         /\ \A i \in 1..n : q.seq[i] = q.tokens[i]
    BY DEF Sound
  <1>15. Len(sq) = n + Total(Gens(fl)) /\ \A i \in 1..n : sq[i] = q.tokens[i]
    <2>1. \A i \in 1..n : i \in 1..Len(q.seq)
      BY <1>2, <1>6, <1>14
    <2>2. Len(sq) = n + Total(Gens(fl))
      <3>. HIDE DEF n
      <3>. QED  BY <1>2, <1>5, <1>6, <1>14
    <2>3. \A i \in 1..n : sq[i] = q.tokens[i]
      BY <1>5, <1>14, <2>1
    <2>. QED  BY <2>2, <2>3
  <1>16. Sound(t)
    BY <1>9, <1>11, <1>12, <1>13, <1>14, <1>15 DEF Sound, n
  <1>. QED  BY <1>13, <1>16 DEF t, cm
-----------------------------------------------------------------------------
(* The scheduler's side: requests, the running list and the step *)

StepType == [cursor : Nat, want : Nat, toks : [Requests -> Nat],
             preempted : BOOLEAN, resetting : BOOLEAN]

(* A running request has blocks for what it has and will have computed in  *)
(* this step, any other has neither blocks nor tokens in the batch.        *)
Placed(q, table, k) ==
  IF q.status = "running" THEN MinOf(q.computed + k, MaxModelLen) <= Len(table) * BlockSize
                          ELSE table = <<>> /\ k = 0

RunningOf(rq) == {r \in Requests : rq[r].status = "running"}

Lines ==
  /\ req \in [Requests -> ReqType] /\ step \in StepType
  /\ \A r \in Requests : Sound(req[r]) /\ Placed(req[r], tables[r], step.toks[r])
  /\ Lists(running, RunningOf(req))

Inv == Books /\ Lines /\ raised = FALSE

(* Fewer tokens in the batch need no more blocks. *)
LEMMA PlacedLess ==
  ASSUME NEW q \in ReqType, NEW table \in Seq(Blocks), NEW k \in Nat, NEW j \in Nat, j <= k,
         Placed(q, table, k)
  PROVE  Placed(q, table, j)
  <1>1. q.computed \in Nat /\ Len(table) * BlockSize \in Int /\ MaxModelLen \in Nat
    BY LenProperties, Multiples, Numbers DEF ReqType
  <1>2. CASE q.status = "running"
    BY <1>1, <1>2 DEF Placed, MinOf
  <1>3. CASE q.status # "running"
    BY <1>3 DEF Placed
  <1>. QED  BY <1>2, <1>3

(* The entries of the request's tables, in the form used below *)
LEMMA BooksTables ==
  ASSUME Books
  PROVE  /\ tables \in [Requests -> Seq(Blocks)] /\ \A r \in Requests : tables[r] \in Seq(Blocks)
         /\ numCached \in [Requests -> Nat] /\ pool \in PoolType
  BY DEF Books, BooksOf

(* A step that moves one request to `q` and its table to `table` *)
LEMMA OneLine ==
  ASSUME Books, Lines, NEW r \in Requests, NEW q \in ReqType, Sound(q), NEW table, NEW rn,
         req' = [req EXCEPT ![r] = q], tables' = [tables EXCEPT ![r] = table],
         step' \in StepType, \A s \in Requests \ {r} : step'.toks[s] <= step.toks[s],
         Placed(q, table, step'.toks[r]),
         running' = rn, Lists(rn, RunningOf([req EXCEPT ![r] = q]))
  PROVE  Lines'
  <1>1. /\ req \in [Requests -> ReqType] /\ step \in StepType
        /\ \A s \in Requests : Sound(req[s]) /\ Placed(req[s], tables[s], step.toks[s])
    BY DEF Lines
  <1>2. req' \in [Requests -> ReqType] /\ req'[r] = q /\ tables'[r] = table
        /\ \A s \in Requests \ {r} : req'[s] = req[s] /\ tables'[s] = tables[s]
    BY <1>1, BooksTables
  <1>3. ASSUME NEW s \in Requests
        PROVE  Sound(req'[s]) /\ Placed(req'[s], tables'[s], step'.toks[s])
    <2>1. CASE s = r
      BY <1>2, <2>1
    <2>2. CASE s # r
      <3>1. req[s] \in ReqType /\ tables[s] \in Seq(Blocks)
            /\ step.toks[s] \in Nat /\ step'.toks[s] \in Nat /\ step'.toks[s] <= step.toks[s]
        BY <1>1, <2>2, BooksTables DEF StepType
      <3>2. Placed(req[s], tables[s], step'.toks[s])
        BY <1>1, <3>1, PlacedLess
      <3>. QED  BY <1>1, <1>2, <2>2, <3>2
    <2>. QED  BY <2>1, <2>2
  <1>4. Lists(running', RunningOf(req'))
    OBVIOUS
  <1>. QED  BY <1>2, <1>3, <1>4 DEF Lines

(* A request stops running and gives up its table. *)
LEMMA LeaveLine ==
  ASSUME Books, Lines, NEW r \in Requests, NEW q \in ReqType, Sound(q), q.status # "running",
         req' = [req EXCEPT ![r] = q], tables' = [tables EXCEPT ![r] = <<>>],
         step' \in StepType, \A s \in Requests \ {r} : step'.toks[s] <= step.toks[s],
         step'.toks[r] = 0, running' = Without(running, {r})
  PROVE  Lines'
  <1>1. Placed(q, <<>>, step'.toks[r])
    BY DEF Placed
  <1>2. Lists(Without(running, {r}), RunningOf(req) \ {r})
    BY WithoutLists DEF Lines
  <1>3. RunningOf(req) \ {r} = RunningOf([req EXCEPT ![r] = q])
    BY DEF RunningOf, Lines
  <1>4. Lists(Without(running, {r}), RunningOf([req EXCEPT ![r] = q]))
    BY <1>2, <1>3
  <1>. QED  BY <1>1, <1>4, OneLine
-----------------------------------------------------------------------------
(* The actions *)

LEMMA NoStepType == NoStep \in StepType /\ \A r \in Requests : NoStep.toks[r] = 0
  BY DEF NoStep, StepType

(* A free that does not touch anything but the two maps *)
LEMMA SameBooks ==
  ASSUME Books, NEW p \in PoolType, Hashed(p), p.free = pool.free, p.ref = pool.ref
  PROVE  BooksOf(p, tables, deferred, numCached)
  <1>1. FreeExact(p)
    BY SameMaps DEF Books, BooksOf
  <1>. QED  BY <1>1 DEF Books, BooksOf

LEMMA AbortInv ==
  ASSUME Inv, NEW r \in Requests, Abort(r)
  PROVE  Inv'
  <1>1. /\ Books /\ Lines /\ step = NoStep /\ step' = step /\ raised' = raised
        /\ req' = [req EXCEPT ![r] = Finished(req[r])] /\ running' = Without(running, {r})
        /\ Release(pool, r, req[r].flight)
    BY DEF Inv, Abort, Idle
  <1>2. req[r] \in ReqType /\ Sound(req[r])
    BY <1>1 DEF Lines
  <1>3. Finished(req[r]) \in ReqType /\ Sound(Finished(req[r])) /\ Finished(req[r]).status = "finished"
    BY <1>2, FinishedSound DEF ReqType, Sound
  <1>4. Books' /\ tables' = [tables EXCEPT ![r] = <<>>]
    BY <1>1, ReleaseBooks DEF Books
  <1>5. step' \in StepType /\ step'.toks[r] = 0 /\ \A s \in Requests : step'.toks[s] <= step.toks[s]
    BY <1>1, NoStepType
  <1>6. Lines'
    BY <1>1, <1>3, <1>4, <1>5, LeaveLine
  <1>. QED  BY <1>1, <1>4, <1>6 DEF Inv

LEMMA DrainInv ==
  ASSUME Inv, DrainDeferredFree
  PROVE  Inv'
  <1>1. Books' BY DrainBooks DEF Inv
  <1>2. /\ Lines /\ raised = FALSE
        /\ UNCHANGED <<tables, numCached, req, running, step, content, resets, raised>>
    BY DEF Inv, DrainDeferredFree
  <1>. QED  BY <1>1, <1>2 DEF Inv, Lines

LEMMA ResetPrefixCacheInv ==
  ASSUME Inv, ResetPrefixCache
  PROVE  Inv'
  <1>1. /\ Books /\ Lines /\ raised = FALSE /\ pool' = ResetCache(pool) /\ step' = NoStep
        /\ UNCHANGED <<tables, numCached, deferred, req, running, raised>>
    BY DEF Inv, ResetPrefixCache
  <1>2. /\ ResetCache(pool) \in PoolType /\ Hashed(ResetCache(pool))
        /\ ResetCache(pool).free = pool.free /\ ResetCache(pool).ref = pool.ref
    BY <1>1, ResetCacheIs DEF Books, BooksOf
  <1>3. Books'
    <2>1. BooksOf(ResetCache(pool), tables, deferred, numCached)
      BY <1>1, <1>2, SameBooks
    <2>. QED  BY <1>1, <2>1 DEF Books
  <1>4. \A s \in Requests : Placed(req[s], tables[s], step'.toks[s])
    <2>. SUFFICES ASSUME NEW s \in Requests
                  PROVE  Placed(req[s], tables[s], step'.toks[s])
      OBVIOUS
    <2>1. /\ req[s] \in ReqType /\ tables[s] \in Seq(Blocks) /\ step.toks[s] \in Nat
          /\ step'.toks[s] = 0 /\ Placed(req[s], tables[s], step.toks[s])
      BY <1>1, NoStepType, BooksTables DEF Lines, StepType
    <2>. QED  BY <2>1, PlacedLess
  <1>5. Lines'
    BY <1>1, <1>4, NoStepType DEF Lines
  <1>. QED  BY <1>1, <1>3, <1>5 DEF Inv

(* The last of the running requests *)
LEMMA LastRuns ==
  ASSUME Lines, running # <<>>
  PROVE  /\ Last(running) \in Requests /\ req[Last(running)].status = "running"
         /\ Len(running) \in DOMAIN running /\ Last(running) = running[Len(running)]
  <1>1. Lists(running, RunningOf(req)) /\ RunningOf(req) \subseteq Requests
    BY DEF Lines, RunningOf
  <1>2. /\ Len(running) \in Nat /\ \A i \in 1..Len(running) : running[i] \in RunningOf(req)
        /\ DOMAIN running = 1..Len(running)
    BY <1>1, ListsMeans
  <1>3. Len(running) \in 1..Len(running)
    BY <1>1, <1>2, EmptySeq DEF Lists
  <1>. QED  BY <1>1, <1>2, <1>3 DEF Last, RunningOf

LEMMA ResetPreemptInv ==
  ASSUME Inv, ResetPreempt
  PROVE  Inv'
  <1>. DEFINE r == Last(running)
  <1>1. /\ Books /\ Lines /\ raised' = raised /\ raised = FALSE /\ running # <<>>
        /\ req' = [req EXCEPT ![r] = Preempted(req[r], TRUE)] /\ running' = Without(running, {r})
        /\ Release(pool, r, req[r].flight) /\ step' = [NoStep EXCEPT !.resetting = TRUE]
    BY DEF Inv, ResetPreempt
  <1>2. r \in Requests
    BY <1>1, LastRuns
  <1>. HIDE DEF r
  <1>3. req[r] \in ReqType /\ Sound(req[r]) /\ TRUE \in BOOLEAN
    BY <1>1, <1>2 DEF Lines
  <1>. DEFINE q == Preempted(req[r], TRUE)
  <1>4. q \in ReqType /\ Sound(q) /\ q.status = "waiting"
    BY <1>3, PreemptedSound
  <1>. HIDE DEF q
  <1>5. Books' /\ tables' = [tables EXCEPT ![r] = <<>>]
    BY <1>1, <1>2, ReleaseBooks DEF Books
  <1>6. step' \in StepType /\ \A s \in Requests : step'.toks[s] = 0
    BY <1>1 DEF NoStep, StepType
  <1>7. \A s \in Requests : step'.toks[s] <= step.toks[s]
    BY <1>1, <1>6 DEF Lines, StepType
  <1>8. Lines'
    BY <1>1, <1>2, <1>4, <1>5, <1>6, <1>7, LeaveLine DEF q
  <1>. QED  BY <1>1, <1>5, <1>8 DEF Inv

(* The requests of the running list *)
LEMMA RunningIs ==
  ASSUME Lines
  PROVE  /\ Len(running) \in Nat /\ DOMAIN running = 1..Len(running)
         /\ \A i \in 1..Len(running) : running[i] \in Requests /\ req[running[i]].status = "running"
         /\ ToSet(running) = RunningOf(req)
  <1>1. Lists(running, RunningOf(req))
    BY DEF Lines
  <1>2. /\ Len(running) \in Nat /\ DOMAIN running = 1..Len(running)
        /\ \A i \in 1..Len(running) : running[i] \in RunningOf(req)
    BY <1>1, ListsMeans
  <1>. QED  BY <1>1, <1>2 DEF RunningOf, Lists

(* The cursor points at a running request, for at least one new token. *)
LEMMA CurrentIs ==
  ASSUME Lines, InRunningLoop
  PROVE  /\ Current \in Requests /\ req[Current].status = "running"
         /\ step.cursor + 1 \in DOMAIN running /\ Wanted \subseteq Nat \ {0}
  <1>1. step.cursor \in Nat /\ step.want \in Nat /\ step.cursor < Len(running)
    BY DEF Lines, StepType, InRunningLoop
  <1>2. step.cursor + 1 \in 1..Len(running)
    BY <1>1, RunningIs
  <1>3. Wanted \subseteq Nat \ {0}
    <2>1. CASE step.want > 0
      BY <1>1, <2>1 DEF Wanted
    <2>2. CASE ~(step.want > 0)
      BY <2>2 DEF Wanted
    <2>. QED  BY <2>1, <2>2
  <1>. QED  BY <1>2, <1>3, RunningIs DEF Current

(* The victim of a preemption is a running request. *)
LEMMA VictimRuns ==
  ASSUME Lines, InRunningLoop
  PROVE  Victim \in Requests /\ \E i \in DOMAIN running : running[i] = Victim
  <1>1. /\ Len(running) \in Nat /\ DOMAIN running = 1..Len(running)
        /\ \A i \in 1..Len(running) : running[i] \in Requests
    BY RunningIs
  <1>2. Len(running) > 0
    BY <1>1 DEF Lines, StepType, InRunningLoop
  <1>3. CASE ~Priority
    <2>1. Len(running) \in 1..Len(running) /\ Victim = running[Len(running)]
      BY <1>1, <1>2, <1>3 DEF Victim, Last
    <2>. QED  BY <1>1, <2>1
  <1>4. CASE Priority
    <2>. DEFINE S == ToSet(running)
                R == {0 - Rank[r] : r \in S}
                g == [r \in S |-> 0 - Rank[r]]
    <2>1. S \in SUBSET Requests /\ S # {}
      <3>1. 1 \in 1..Len(running)
        BY <1>1, <1>2
      <3>. QED  BY <1>1, <3>1 DEF ToSet
    <2>2. IsFiniteSet(S)
      BY <2>1, Finiteness, FS_Subset
    <2>3. g \in Surjection(S, R)
      BY DEF Surjection
    <2>4. IsFiniteSet(R)
      BY <2>2, <2>3, FS_Surjection
    <2>5. R # {} /\ R \in SUBSET Int
      BY <2>1, Numbers
    <2>6. \E x \in R : \A y \in R : x <= y
      <3>. HIDE DEF R
      <3>. QED  BY <2>4, <2>5, LeastElement
    <2>7. PICK r \in S : \A s \in S : Rank[r] >= Rank[s]
      <3>1. PICK r \in S : \A s \in S : 0 - Rank[r] <= 0 - Rank[s]
        BY <2>6
      <3>2. \A s \in S : Rank[s] \in Int
        BY <2>1, Numbers
      <3>. QED  BY <3>1, <3>2
    <2>8. Victim \in S
      <3>1. Victim = CHOOSE a \in S : \A s \in S : Rank[a] >= Rank[s]
        BY <1>4 DEF Victim
      <3>. QED  BY <2>7, <3>1
    <2>. QED  BY <2>1, <2>8 DEF ToSet
  <1>. QED  BY <1>3, <1>4

LEMMA SkipRunningInv ==
  ASSUME Inv, SkipRunning
  PROVE  Inv'
  <1>1. /\ Books /\ Lines /\ raised = FALSE /\ step' = [step EXCEPT !.cursor = @ + 1]
        /\ UNCHANGED <<pool, tables, numCached, deferred, req, running, content, resets, raised>>
    BY DEF Inv, SkipRunning
  <1>2. step' \in StepType /\ step'.toks = step.toks
    BY <1>1 DEF Lines, StepType
  <1>3. Books'
    BY <1>1 DEF Books
  <1>4. Lines'
    BY <1>1, <1>2 DEF Lines
  <1>. QED  BY <1>1, <1>3, <1>4 DEF Inv

LEMMA PreemptInv ==
  ASSUME Inv, Preempt
  PROVE  Inv'
  <1>. DEFINE v == Victim
              pos == CHOOSE i \in DOMAIN running : running[i] = v
              rest == Without(running, {v})
              c == IF v = Current THEN Len(rest)
                   ELSE IF pos <= step.cursor THEN step.cursor - 1 ELSE step.cursor
              st(n) == [cursor |-> c, want |-> IF v = Current THEN 0 ELSE n,
                        toks |-> [step.toks EXCEPT ![v] = 0], preempted |-> TRUE,
                        resetting |-> FALSE]
  <1>1. /\ Books /\ Lines /\ raised = FALSE /\ raised' = raised /\ InRunningLoop
    BY DEF Inv, Preempt
  <1>2. PICK n \in Wanted :
          /\ Release(pool, v, req[v].flight)
          /\ req' = [req EXCEPT ![v] = Preempted(req[v], FALSE)]
          /\ running' = rest /\ step' = st(n)
    BY DEF Preempt
  <1>3. v \in Requests /\ (\E i \in DOMAIN running : running[i] = v) /\ n \in Nat
    BY <1>1, VictimRuns, CurrentIs
  <1>4. step \in StepType /\ step.cursor \in Nat /\ step.toks \in [Requests -> Nat]
    BY <1>1 DEF Lines, StepType
  <1>5. c \in Nat
    <2>1. Len(rest) \in Nat
      <3>1. Lists(rest, RunningOf(req) \ {v})
        BY <1>1, WithoutLists DEF Lines
      <3>. QED  BY <3>1, ListsMeans
    <2>2. pos \in 1..Len(running)
      BY <1>1, <1>3, RunningIs
    <2>. HIDE DEF pos, rest, v
    <2>. QED  BY <1>4, <2>1, <2>2
  <1>. HIDE DEF v, c, rest
  <1>6. st(n) \in StepType /\ st(n).toks = [step.toks EXCEPT ![v] = 0]
    <2>1. (IF v = Current THEN 0 ELSE n) \in Nat /\ [step.toks EXCEPT ![v] = 0] \in [Requests -> Nat]
      BY <1>3, <1>4
    <2>. QED  BY <1>5, <2>1 DEF StepType
  <1>7. /\ step' \in StepType /\ step'.toks[v] = 0
        /\ \A s \in Requests \ {v} : step'.toks[s] <= step.toks[s]
    <2>1. step'.toks = [step.toks EXCEPT ![v] = 0]
      BY <1>2, <1>6
    <2>. QED  BY <1>2, <1>3, <1>4, <1>6, <2>1
  <1>. DEFINE q == Preempted(req[v], FALSE)
  <1>8. q \in ReqType /\ Sound(q) /\ q.status = "waiting"
    <2>1. req[v] \in ReqType /\ Sound(req[v]) /\ FALSE \in BOOLEAN
      BY <1>1, <1>3 DEF Lines
    <2>. QED  BY <2>1, PreemptedSound
  <1>. HIDE DEF q
  <1>9. Books' /\ tables' = [tables EXCEPT ![v] = <<>>]
    BY <1>1, <1>2, <1>3, ReleaseBooks DEF Books
  <1>10. Lines'
    <2>1. req' = [req EXCEPT ![v] = q] /\ running' = Without(running, {v})
      BY <1>2 DEF q, rest
    <2>. QED  BY <1>1, <1>3, <1>7, <1>8, <1>9, <2>1, LeaveLine
  <1>. QED  BY <1>1, <1>9, <1>10 DEF Inv

(* A running request is given its slots for n tokens. *)
Runs(r, n) ==
  /\ InRunningLoop /\ r = Current /\ r \in Requests /\ req[r].status = "running"
  /\ n \in Wanted /\ n \in Nat \ {0}
  /\ AllocationInput(r, <<>>, {}, req[r].computed, n) /\ AllocateSlots(r, <<>>, req[r].computed, n)
  /\ step' \in StepType /\ step'.toks[r] = n
  /\ \A s \in Requests \ {r} : step'.toks[s] = step.toks[s]
  /\ step'.cursor = step.cursor + 1 /\ step'.want = 0 /\ step'.resetting = step.resetting
  /\ UNCHANGED <<deferred, req, running, content, resets>>

LEMMA ScheduleRunningIs ==
  ASSUME Inv, ScheduleRunning
  PROVE  \E r, n : Runs(r, n)
  <1>. DEFINE r == Current
  <1>1. /\ Books /\ Lines /\ InRunningLoop
        /\ UNCHANGED <<deferred, req, running, content, resets>>
    BY DEF Inv, ScheduleRunning
  <1>2. PICK n \in Wanted :
          /\ CanAllocate(r, <<>>, SlotsFor(r, n))
          /\ AllocateSlots(r, <<>>, req[r].computed, n)
          /\ step' = [step EXCEPT !.cursor = @ + 1, !.want = 0, !.toks[r] = n]
    BY DEF ScheduleRunning
  <1>3. r \in Requests /\ req[r].status = "running" /\ n \in Nat \ {0}
    BY <1>1, CurrentIs
  <1>. HIDE DEF r
  <1>4. AllocationInput(r, <<>>, {}, req[r].computed, n)
    <2>1. req[r] \in ReqType /\ Sound(req[r])
      BY <1>1, <1>3 DEF Lines
    <2>2. req[r].computed \in Nat /\ req[r].tokens \in Seq(Token) /\ Len(req[r].tokens) <= MaxModelLen
      BY <2>1, Numbers DEF ReqType, Sound
    <2>3. {} \in SUBSET Blocks /\ {} \cap ToSet(tables[r]) = {}
      OBVIOUS
    <2>. QED  BY <1>2, <1>3, <2>2, <2>3, EmptyLists DEF AllocationInput, SlotsFor
  <1>5. /\ step' \in StepType /\ step'.toks[r] = n
        /\ \A s \in Requests \ {r} : step'.toks[s] = step.toks[s]
        /\ step'.cursor = step.cursor + 1 /\ step'.want = 0 /\ step'.resetting = step.resetting
    <2>. DEFINE tk == [step.toks EXCEPT ![r] = n]
                cr == step.cursor + 1
    <2>1. step \in StepType /\ step.toks \in [Requests -> Nat] /\ step.cursor \in Nat
      BY <1>1 DEF Lines, StepType
    <2>2. tk \in [Requests -> Nat] /\ tk[r] = n /\ \A s \in Requests \ {r} : tk[s] = step.toks[s]
      BY <1>3, <2>1
    <2>3. step' = [step EXCEPT !.cursor = cr, !.want = 0, !.toks = tk] /\ cr \in Nat
      BY <1>2, <2>1
    <2>. HIDE DEF tk, cr
    <2>4. /\ step' \in StepType /\ step'.toks = tk /\ step'.cursor = cr /\ step'.want = 0
          /\ step'.resetting = step.resetting
      BY <2>1, <2>2, <2>3 DEF StepType
    <2>. QED  BY <2>2, <2>4 DEF cr
  <1>6. r = Current
    BY DEF r
  <1>7. Runs(r, n)
    BY <1>1, <1>2, <1>3, <1>4, <1>5, <1>6 DEF Runs
  <1>. QED  BY <1>7

LEMMA ScheduleRunningInv ==
  ASSUME Inv, ScheduleRunning
  PROVE  Inv'
  <1>1. Books /\ Lines /\ raised = FALSE
    BY DEF Inv
  <1>2. PICK r, n : Runs(r, n)
    BY ScheduleRunningIs
  <1>3. /\ r \in Requests /\ req[r].status = "running" /\ n \in Nat
        /\ AllocationInput(r, <<>>, {}, req[r].computed, n)
        /\ AllocateSlots(r, <<>>, req[r].computed, n)
        /\ step' \in StepType /\ step'.toks[r] = n
        /\ \A s \in Requests \ {r} : step'.toks[s] = step.toks[s]
        /\ UNCHANGED <<deferred, req, running, content, resets>>
    BY <1>2 DEF Runs
  <1>4. req[r] \in ReqType /\ Sound(req[r])
    BY <1>1, <1>3 DEF Lines
  <1>. DEFINE table == AllocatedTable(r, <<>>, req[r].computed, n)
  <1>5. /\ Books' /\ raised' = raised /\ tables' = [tables EXCEPT ![r] = table]
        /\ MinOf(req[r].computed + n, MaxModelLen) <= Len(table) * BlockSize
    BY <1>1, <1>3, AllocateBooks
  <1>. HIDE DEF table
  <1>6. \A s \in Requests \ {r} : step'.toks[s] <= step.toks[s]
    BY <1>1, <1>3 DEF Lines, StepType
  <1>7. Placed(req[r], table, step'.toks[r])
    BY <1>3, <1>5 DEF Placed
  <1>8. Lines'
    <2>1. req' = [req EXCEPT ![r] = req[r]] /\ [req EXCEPT ![r] = req[r]] = req
      BY <1>1, <1>3 DEF Lines
    <2>2. Lists(running, RunningOf([req EXCEPT ![r] = req[r]]))
      BY <1>1, <2>1 DEF Lines
    <2>. QED  BY <1>1, <1>3, <1>4, <1>5, <1>6, <1>7, <2>1, <2>2, OneLine
  <1>. QED  BY <1>1, <1>5, <1>8 DEF Inv

(* The longest hit: blocks without repetition, one for each of the hashes  *)
(* of a run, that leave a token to compute.                                *)
LEMMA LongestHitIs ==
  ASSUME Books, NEW toks \in Seq(Token), Len(toks) >= 1
  PROVE  /\ \E H \in SUBSET Blocks : Lists(LongestHit(toks), H)
         /\ Len(LongestHit(toks)) \in Nat
         /\ Len(LongestHit(toks)) * BlockSize \in Nat
         /\ Len(LongestHit(toks)) * BlockSize <= Len(toks) - 1
         /\ \A i \in 1..Len(LongestHit(toks)) :
              pool.hash[LongestHit(toks)[i]] = BlockHash(toks, i)
  <1>. DEFINE most == (Len(toks) - 1) \div BlockSize
              hits == {n \in 0..most : \A i \in 1..n : BlockHash(toks, i) \in DOMAIN pool.cache}
              m == Max(hits)
              hit == [i \in 1..m |-> Head(pool.cache[BlockHash(toks, i)])]
              H == {hit[i] : i \in 1..m}
  <1>1. pool \in PoolType /\ Hashed(pool) /\ Len(toks) \in Nat
    BY LenProperties DEF Books, BooksOf
  <1>2. most \in Nat /\ most * BlockSize <= Len(toks) - 1
    <2>. DEFINE a == Len(toks) - 1
    <2>1. a \in Int /\ a >= 0
      BY <1>1
    <2>. HIDE DEF a
    <2>2. a \div BlockSize \in Int /\ a \div BlockSize >= 0 /\ (a \div BlockSize) * BlockSize <= a
      BY <2>1, Division
    <2>3. most = a \div BlockSize
      BY DEF a
    <2>. HIDE DEF most
    <2>4. most \in Nat /\ most * BlockSize <= a
      BY <2>2, <2>3
    <2>. QED  BY <2>4 DEF a
  <1>. HIDE DEF most
  <1>3. m \in hits
    <2>1. 0 \in hits /\ hits \in SUBSET (0..most)
      BY <1>2
    <2>. HIDE DEF hits
    <2>2. \E x \in hits : \A y \in hits : x >= y
      BY <1>2, <2>1, GreatestElement
    <2>. QED  BY <2>2 DEF Max
  <1>4. m \in Nat /\ m <= most /\ \A i \in 1..m : BlockHash(toks, i) \in DOMAIN pool.cache
    BY <1>2, <1>3
  <1>5. LongestHit(toks) = hit
    BY DEF LongestHit, most
  <1>. HIDE DEF m, hits
  <1>6. m * BlockSize \in Nat /\ m * BlockSize <= Len(toks) - 1
    <2>0. m \in Int /\ most \in Int /\ m <= most
      BY <1>2, <1>4
    <2>1. m * BlockSize <= most * BlockSize /\ m * BlockSize \in Int /\ most * BlockSize \in Int
      BY <2>0, Multiples
    <2>2. m * BlockSize >= 0
      <3>1. CASE m = 0
        <4>1. 0 * BlockSize = 0
          BY Numbers
        <4>. QED  BY <3>1, <4>1
      <3>2. CASE m # 0
        BY <1>4, <3>2, Multiples
      <3>. QED  BY <3>1, <3>2
    <2>. QED  BY <1>1, <1>2, <2>1, <2>2
  <1>7. ASSUME NEW i \in 1..m
        PROVE  /\ hit[i] \in Blocks /\ pool.hash[hit[i]] = BlockHash(toks, i)
               /\ Len(BlockHash(toks, i)) = i * BlockSize
    <2>. DEFINE h == BlockHash(toks, i)
    <2>1. h \in DOMAIN pool.cache
      BY <1>4
    <2>2. Lists(pool.cache[h], {b \in Blocks : pool.hash[b] = h}) /\ \E b \in Blocks : pool.hash[b] = h
      BY <1>1, <2>1, HashedMeans
    <2>3. PICK c : c = pool.cache[h]
      OBVIOUS
    <2>. DEFINE S == {b \in Blocks : pool.hash[b] = h}
    <2>4. Lists(c, S) /\ S # {}
      BY <2>2, <2>3
    <2>5. Head(c) \in S
      <3>. HIDE DEF S
      <3>1. /\ Len(c) \in Nat /\ (\A j \in 1..Len(c) : c[j] \in S)
            /\ \A x \in S : \E j \in 1..Len(c) : c[j] = x
        BY <2>4, ListsMeans
      <3>2. 1 \in 1..Len(c)
        BY <2>4, <3>1
      <3>3. c \in Seq(S)
        BY <2>4 DEF Lists
      <3>4. Head(c) = c[1]
        BY <3>2, <3>3
      <3>. QED  BY <3>1, <3>2, <3>4
    <2>6. hit[i] = Head(c)
      BY <2>3
    <2>7. Len(h) = i * BlockSize
      <3>1. i \in Nat \ {0} /\ i <= m /\ i \in Int
        BY <1>4
      <3>2. i * BlockSize <= m * BlockSize /\ i * BlockSize \in Int
        BY <1>4, <3>1, Multiples, SMTT(30)
      <3>3. i * BlockSize <= Len(toks)
        BY <1>1, <1>6, <3>2
      <3>. QED  BY <3>1, <3>3, BlockHashIs
    <2>. QED  BY <2>5, <2>6, <2>7
  <1>8. ASSUME NEW i \in 1..m, NEW j \in 1..m, hit[i] = hit[j]
        PROVE  i = j
    <2>1. i * BlockSize = j * BlockSize /\ i \in Int /\ j \in Int
      BY <1>4, <1>7, <1>8
    <2>2. i * BlockSize \in Int /\ j * BlockSize \in Int
      BY <2>1, Multiples
    <2>3. i <= j /\ j <= i
      BY <2>1, <2>2, Multiples
    <2>. QED  BY <2>1, <2>3
  <1>9. H \in SUBSET Blocks /\ hit \in [1..m -> H]
    BY <1>7
  <1>10. Lists(hit, H) /\ Len(hit) = m
    <2>1. \A x \in H : \E i \in 1..m : hit[i] = x
      OBVIOUS
    <2>. HIDE DEF H, hit
    <2>. QED  BY <1>4, <1>8, <1>9, <2>1, ListsOf
  <1>. HIDE DEF hit, H
  <1>. QED  BY <1>4, <1>5, <1>6, <1>7, <1>9, <1>10

(* A waiting request is admitted with the hit for n more tokens. *)
Admits(r, hit, H, base, n) ==
  /\ r \in Requests /\ req[r].status = "waiting" /\ req[r].flight = <<>> /\ tables[r] = <<>>
  /\ ~InRunningLoop /\ ~step.resetting
  /\ req[r] \in ReqType /\ Sound(req[r])
  /\ Len(hit) \in Nat /\ base = Len(hit) * BlockSize /\ base \in Nat
  /\ base <= Len(req[r].tokens) - 1
  /\ \A i \in 1..Len(hit) : pool.hash[hit[i]] = BlockHash(req[r].tokens, i)
  /\ n \in Nat \ {0} /\ n \in AdmitTokens(Len(req[r].tokens) - base, base)
  /\ AllocationInput(r, hit, H, base, n) /\ AllocateSlots(r, hit, base, n)
  /\ req' = [req EXCEPT ![r].status = "running", ![r].computed = base]
  /\ running' = Append(running, r) /\ UNCHANGED <<deferred, content, resets>>
  /\ step' \in StepType /\ step'.toks[r] = n
  /\ \A s \in Requests \ {r} : step'.toks[s] = step.toks[s]
  /\ step'.cursor = step.cursor + 1 /\ step'.want = step.want /\ step'.resetting = step.resetting

LEMMA AdmitWaitingIs ==
  ASSUME Inv, NEW r \in Requests, AdmitWaiting(r)
  PROVE  \E hit, H, base, n : Admits(r, hit, H, base, n)
  <1>. DEFINE toks == req[r].tokens
              hit == LongestHit(toks)
              base == Len(hit) * BlockSize
  <1>1. /\ Books /\ Lines /\ req[r].status = "waiting" /\ req[r].flight = <<>>
        /\ ~InRunningLoop /\ ~step.resetting
        /\ req' = [req EXCEPT ![r].status = "running", ![r].computed = base]
        /\ running' = Append(running, r) /\ UNCHANGED <<deferred, content, resets>>
    BY DEF Inv, AdmitWaiting
  <1>2. PICK n \in AdmitTokens(Len(toks) - base, base) :
          /\ CanAllocate(r, hit, base + n + NumLookahead)
          /\ AllocateSlots(r, hit, base, n)
          /\ step' = [step EXCEPT !.cursor = @ + 1, !.toks[r] = n]
    BY DEF AdmitWaiting
  <1>3. /\ req[r] \in ReqType /\ Sound(req[r]) /\ toks \in Seq(Token) /\ Len(toks) \in 1..MaxModelLen
        /\ MaxModelLen \in Nat /\ tables[r] = <<>>
    BY <1>1, Numbers DEF Lines, ReqType, Sound, Placed
  <1>4. /\ Len(hit) \in Nat /\ base \in Nat /\ base <= Len(toks) - 1
        /\ (\E H \in SUBSET Blocks : Lists(hit, H))
        /\ \A i \in 1..Len(hit) : pool.hash[hit[i]] = BlockHash(toks, i)
    <2>1. toks \in Seq(Token) /\ Len(toks) >= 1
      BY <1>3
    <2>. HIDE DEF toks
    <2>. QED  BY <1>1, <2>1, LongestHitIs
  <1>5. PICK H \in SUBSET Blocks : Lists(hit, H)
    BY <1>4
  <1>6. n \in Nat \ {0}
    BY <1>2, Numbers, SMTT(30) DEF AdmitTokens
  <1>7. base = Len(hit) * BlockSize
    OBVIOUS
  <1>. HIDE DEF hit, base
  <1>8. AllocationInput(r, hit, H, base, n)
    <2>1. ToSet(tables[r]) = {}
      BY <1>3 DEF ToSet
    <2>2. Len(req[r].tokens) <= MaxModelLen
      BY <1>3
    <2>. QED  BY <1>2, <1>3, <1>4, <1>5, <1>6, <2>1, <2>2 DEF AllocationInput
  <1>9. /\ step' \in StepType /\ step'.toks[r] = n
        /\ \A s \in Requests \ {r} : step'.toks[s] = step.toks[s]
        /\ step'.cursor = step.cursor + 1 /\ step'.want = step.want
        /\ step'.resetting = step.resetting
    <2>. DEFINE tk == [step.toks EXCEPT ![r] = n]
                cr == step.cursor + 1
    <2>1. step \in StepType /\ step.toks \in [Requests -> Nat] /\ step.cursor \in Nat
      BY <1>1 DEF Lines, StepType
    <2>2. tk \in [Requests -> Nat] /\ tk[r] = n /\ \A s \in Requests \ {r} : tk[s] = step.toks[s]
      BY <1>6, <2>1
    <2>3. step' = [step EXCEPT !.cursor = cr, !.toks = tk] /\ cr \in Nat
      BY <1>2, <2>1
    <2>. HIDE DEF tk, cr
    <2>4. /\ step' \in StepType /\ step'.toks = tk /\ step'.cursor = cr /\ step'.want = step.want
          /\ step'.resetting = step.resetting
      BY <2>1, <2>2, <2>3 DEF StepType
    <2>. QED  BY <2>2, <2>4 DEF cr
  <1>10. Admits(r, hit, H, base, n)
    BY <1>1, <1>2, <1>3, <1>4, <1>6, <1>7, <1>8, <1>9 DEF Admits
  <1>. QED  BY <1>10

LEMMA AdmitWaitingInv ==
  ASSUME Inv, NEW r \in Requests, AdmitWaiting(r)
  PROVE  Inv'
  <1>1. Books /\ Lines /\ raised = FALSE
    BY DEF Inv
  <1>2. PICK hit, H, base, n : Admits(r, hit, H, base, n)
    BY AdmitWaitingIs
  <1>3. /\ req[r].status = "waiting" /\ req[r].flight = <<>> /\ req[r] \in ReqType /\ Sound(req[r])
        /\ base \in Nat /\ base <= Len(req[r].tokens) - 1 /\ n \in Nat
        /\ AllocationInput(r, hit, H, base, n) /\ AllocateSlots(r, hit, base, n)
        /\ req' = [req EXCEPT ![r].status = "running", ![r].computed = base]
        /\ running' = Append(running, r) /\ UNCHANGED <<deferred, content, resets>>
        /\ step' \in StepType /\ step'.toks[r] = n
        /\ \A s \in Requests \ {r} : step'.toks[s] = step.toks[s]
    BY <1>2 DEF Admits
  <1>. DEFINE table == AllocatedTable(r, hit, base, n)
  <1>4. /\ Books' /\ raised' = raised /\ tables' = [tables EXCEPT ![r] = table]
        /\ MinOf(base + n, MaxModelLen) <= Len(table) * BlockSize
    BY <1>1, <1>3, AllocateBooks
  <1>. HIDE DEF table
  <1>. DEFINE q == [req[r] EXCEPT !.status = "running", !.computed = base]
  <1>5. q \in ReqType /\ Sound(q) /\ q.status = "running" /\ q.computed = base
    <2>1. PICK q0 : q0 = req[r]
      OBVIOUS
    <2>2. /\ q0 \in ReqType /\ Sound(q0) /\ q0.status = "waiting" /\ q0.flight = <<>>
          /\ base \in Nat /\ base <= Len(q0.tokens) - 1
      BY <1>3, <2>1
    <2>3. AdmittedAs(q, q0, base)
      BY <2>1 DEF AdmittedAs
    <2>. HIDE DEF q
    <2>. QED  BY ONLY <2>2, <2>3, AdmittedSound
  <1>6. req' = [req EXCEPT ![r] = q]
    BY <1>1, <1>3 DEF Lines
  <1>. HIDE DEF q
  <1>7. \A s \in Requests \ {r} : step'.toks[s] <= step.toks[s]
    BY <1>1, <1>3 DEF Lines, StepType
  <1>8. Placed(q, table, step'.toks[r])
    BY <1>3, <1>4, <1>5 DEF Placed
  <1>9. Lists(Append(running, r), RunningOf([req EXCEPT ![r] = q]))
    <2>1. Lists(running, RunningOf(req)) /\ RunningOf(req) \cap {r} = {}
      BY <1>1, <1>3 DEF Lines, RunningOf
    <2>2. Lists(<<r>>, {r})
      <3>. DEFINE w == <<r>>
      <3>1. /\ w \in [1..1 -> {r}] /\ (\A i, j \in 1..1 : w[i] = w[j] => i = j) /\ 1 \in Nat
            /\ \A x \in {r} : \E i \in 1..1 : w[i] = x
        OBVIOUS
      <3>2. PICK S : S = {r}
        OBVIOUS
      <3>3. PICK k \in Nat : k = 1
        OBVIOUS
      <3>. HIDE DEF w
      <3>4. /\ k \in Nat /\ w \in [1..k -> S] /\ (\A i, j \in 1..k : w[i] = w[j] => i = j)
            /\ \A x \in S : \E i \in 1..k : w[i] = x
        BY <3>1, <3>2, <3>3
      <3>5. Lists(w, S)
        BY ONLY <3>4, ListsOf
      <3>. QED  BY <3>2, <3>5 DEF w
    <2>3. Lists(running \o <<r>>, RunningOf(req) \cup {r})
      BY <2>1, <2>2, ConcatLists
    <2>4. RunningOf(req) \cup {r} = RunningOf([req EXCEPT ![r] = q])
      BY <1>1, <1>5 DEF RunningOf, Lines
    <2>5. Append(running, r) = running \o <<r>>
      <3>1. running \in Seq(RunningOf(req))
        BY <2>1 DEF Lists
      <3>2. running \in Seq(Requests)
        BY <3>1 DEF RunningOf
      <3>. QED  BY <3>2
    <2>. QED  BY <2>3, <2>4, <2>5
  <1>10. Lines'
    BY <1>1, <1>3, <1>4, <1>5, <1>6, <1>7, <1>8, <1>9, OneLine
  <1>. QED  BY <1>1, <1>4, <1>10 DEF Inv

(* What the workers may sample for a scheduled request *)
LEMMA SampledIs ==
  ASSUME Lines, NEW r \in Requests, NEW out \in Sampled(r)
  PROVE  /\ Drafts(r) \in Nat /\ Drafts(r) = MaxOf(req[r].computed + step.toks[r]
                                              - Len(req[r].tokens) - req[r].placeholders, 0)
         /\ out \in Seq(Token) /\ Len(out) <= Drafts(r) + 1 /\ (out = <<>> <=> ~Samples(r))
  <1>1. /\ req[r].computed \in Nat /\ req[r].placeholders \in Nat /\ req[r].spec \in Nat
        /\ Len(req[r].tokens) \in Nat /\ step.toks[r] \in Nat
    BY LenProperties DEF Lines, ReqType, StepType
  <1>2. Drafts(r) \in Nat /\ Drafts(r) = MaxOf(req[r].computed + step.toks[r]
                                              - Len(req[r].tokens) - req[r].placeholders, 0)
    BY <1>1 DEF Drafts, MaxOf
  <1>3. CASE ~Samples(r)
    <2>1. out = <<>>
      BY <1>3 DEF Sampled
    <2>2. <<>> \in Seq(Token) /\ Len(<<>>) = 0
      OBVIOUS
    <2>. QED  BY <1>2, <1>3, <2>1, <2>2
  <1>4. CASE Samples(r)
    <2>. DEFINE d == Drafts(r)
                x == MinOf(d, req[r].spec)
    <2>1. out \in UNION {[1..k -> Token] : k \in 1..x + 1}
      BY <1>4 DEF Sampled
    <2>2. PICK k \in 1..x + 1 : out \in [1..k -> Token]
      BY <2>1
    <2>3. d \in Nat /\ x \in Int /\ x <= d
      BY <1>1, <1>2 DEF MinOf
    <2>. HIDE DEF d, x
    <2>4. k \in Nat /\ k <= d + 1 /\ k > 0
      BY <2>3
    <2>5. out \in Seq(Token) /\ Len(out) = k
      BY ONLY <2>2, <2>4, SeqDef
    <2>6. out # <<>>
      BY <2>4, <2>5
    <2>. QED  BY <1>2, <1>4, <2>3, <2>4, <2>5, <2>6 DEF d
  <1>. QED  BY <1>3, <1>4

(* A scheduled request goes into the batch. *)
LEMMA IssuedLine ==
  ASSUME Books, Lines, NEW r \in Scheduled, NEW out \in Sampled(r)
  PROVE  /\ Issued(req[r], r, out) \in ReqType /\ Sound(Issued(req[r], r, out))
         /\ req[r].status = "running" /\ Issued(req[r], r, out).status = "running"
         /\ Placed(Issued(req[r], r, out), tables[r], 0)
  <1>1. /\ r \in Requests /\ req[r] \in ReqType /\ Sound(req[r]) /\ step.toks[r] \in Nat \ {0}
        /\ Placed(req[r], tables[r], step.toks[r])
    BY DEF Scheduled, Lines, StepType
  <1>2. req[r].status = "running"
    BY <1>1 DEF Placed
  <1>3. /\ Drafts(r) \in Nat /\ Drafts(r) = MaxOf(req[r].computed + step.toks[r]
                                              - Len(req[r].tokens) - req[r].placeholders, 0)
        /\ out \in Seq(Token) /\ Len(out) <= Drafts(r) + 1 /\ (out = <<>> <=> ~Samples(r))
    BY <1>1, SampledIs
  <1>4. PICK q, k, d : q = req[r] /\ k = step.toks[r] /\ d = Drafts(r)
    OBVIOUS
  <1>5. Samples(r) <=> q.computed + k >= Len(q.tokens) + q.placeholders
    BY <1>4 DEF Samples
  <1>6. Issued(req[r], r, out) = IssuedAs(q, k, d, out)
    BY <1>4 DEF Issued, IssuedAs
  <1>7. /\ q \in ReqType /\ Sound(q) /\ q.status = "running" /\ k \in Nat \ {0} /\ d \in Nat
        /\ d = MaxOf(q.computed + k - Len(q.tokens) - q.placeholders, 0)
        /\ out \in Seq(Token) /\ Len(out) <= d + 1
        /\ (out = <<>> <=> ~(q.computed + k >= Len(q.tokens) + q.placeholders))
    BY <1>1, <1>2, <1>3, <1>4, <1>5
  <1>8. /\ IssuedAs(q, k, d, out) \in ReqType /\ Sound(IssuedAs(q, k, d, out))
        /\ IssuedAs(q, k, d, out).status = "running"
        /\ IssuedAs(q, k, d, out).computed = q.computed + k
    BY ONLY <1>7, IssuedSound
  <1>9. PICK t : t = IssuedAs(q, k, d, out)
    OBVIOUS
  <1>10. Placed(t, tables[r], 0)
    <2>1. MinOf(q.computed + k, MaxModelLen) <= Len(tables[r]) * BlockSize
      BY <1>1, <1>2, <1>4 DEF Placed
    <2>2. t.status = "running" /\ t.computed + 0 = q.computed + k
      <3>1. q.computed \in Nat
        BY <1>7 DEF ReqType
      <3>. QED  BY <1>7, <1>8, <1>9, <3>1
    <2>. QED  BY <2>1, <2>2 DEF Placed
  <1>. QED  BY <1>2, <1>6, <1>8, <1>9, <1>10

LEMMA IssueBatchInv ==
  ASSUME Inv, IssueBatch
  PROVE  Inv'
  <1>1. /\ Books /\ Lines /\ raised = FALSE /\ step' = NoStep
        /\ UNCHANGED <<pool, tables, numCached, deferred, running, resets, raised>>
    BY DEF Inv, IssueBatch
  <1>2. PICK out : /\ \A r \in Scheduled : out[r] \in Sampled(r)
                   /\ req' = [r \in Requests |->
                        IF r \in Scheduled THEN Issued(req[r], r, out[r]) ELSE req[r]]
    BY DEF IssueBatch
  <1>3. ASSUME NEW r \in Requests
        PROVE  /\ req'[r] \in ReqType /\ Sound(req'[r]) /\ req'[r].status = req[r].status
               /\ Placed(req'[r], tables[r], 0)
    <2>1. /\ req[r] \in ReqType /\ Sound(req[r]) /\ step.toks[r] \in Nat /\ tables[r] \in Seq(Blocks)
          /\ Placed(req[r], tables[r], step.toks[r])
      BY <1>1, BooksTables DEF Lines, StepType
    <2>2. CASE r \in Scheduled
      <3>1. req'[r] = Issued(req[r], r, out[r]) /\ out[r] \in Sampled(r)
        BY <1>2, <2>2
      <3>. QED  BY <1>1, <2>2, <3>1, IssuedLine
    <2>3. CASE r \notin Scheduled
      <3>1. req'[r] = req[r]
        BY <1>2, <2>3
      <3>2. Placed(req[r], tables[r], 0)
        <4>1. 0 \in Nat /\ 0 <= step.toks[r]
          BY <2>1
        <4>. QED  BY <2>1, <4>1, PlacedLess
      <3>. QED  BY <2>1, <3>1, <3>2
    <2>. QED  BY <2>2, <2>3
  <1>4. req' \in [Requests -> ReqType]
    <2>1. req' = [r \in Requests |-> req'[r]]
      BY <1>2
    <2>. QED  BY <1>3, <2>1
  <1>5. RunningOf(req') = RunningOf(req)
    BY <1>3 DEF RunningOf
  <1>6. Lines'
    <2>1. \A r \in Requests : Sound(req'[r]) /\ Placed(req'[r], tables'[r], step'.toks[r])
      BY <1>1, <1>3, NoStepType
    <2>2. Lists(running', RunningOf(req'))
      BY <1>1, <1>5 DEF Lines
    <2>. QED  BY <1>1, <1>4, <2>1, <2>2, NoStepType DEF Lines
  <1>7. Books'
    BY <1>1 DEF Books
  <1>. QED  BY <1>1, <1>6, <1>7 DEF Inv

(* What is kept of an output: all of it, unless the request stops *)
LEMMA KeptIs ==
  ASSUME Lines, NEW r \in Requests, req[r].flight # <<>>, NEW k \in Kept(r, Head(req[r].flight))
  PROVE  /\ Answered(req[r], k.n) /\ k.stop \in BOOLEAN
         /\ ~k.stop => k.n = Head(req[r].flight).gen
  <1>. DEFINE g == Head(req[r].flight).gen
              n == Len(req[r].tokens)
              limit == MinOf(MaxModelLen, Len(Prompt[r]) + MaxTokens[r])
              room == limit - n
  <1>1. req[r] \in ReqType /\ Sound(req[r])
    BY DEF Lines
  <1>2. g \in Nat
    <2>1. Head(req[r].flight) \in FlightType
      BY <1>1, FlightTail DEF ReqType
    <2>. QED  BY <2>1 DEF FlightType
  <1>3. n \in Nat /\ n <= MaxModelLen /\ MaxModelLen \in Nat
    BY <1>1, Numbers DEF Sound
  <1>4. limit \in Int /\ limit <= MaxModelLen
    <2>1. Len(Prompt[r]) + MaxTokens[r] \in Int
      BY Numbers
    <2>. QED  BY <1>3, <2>1, MinMax
  <1>. HIDE DEF g, n, limit
  <1>5. CASE g = 0
    <2>1. k = [n |-> 0, stop |-> FALSE]
      BY <1>5 DEF Kept, g
    <2>2. k.n = 0 /\ k.stop = FALSE
      BY <2>1
    <2>3. n + 0 <= MaxModelLen
      BY <1>3
    <2>4. Answered(req[r], 0)
      BY <1>5, <2>3 DEF Answered, g, n
    <2>. QED  BY <1>5, <2>2, <2>4 DEF g
  <1>6. CASE g # 0
    <2>1. /\ k \in [n : 1..MinOf(g, room), stop : BOOLEAN]
          /\ (k.n < g \/ k.n = room) => k.stop
      BY <1>6 DEF Kept, g, n, limit
    <2>2. k.n \in 1..MinOf(g, room) /\ k.stop \in BOOLEAN
      BY <2>1
    <2>3. MinOf(g, room) \in Int /\ MinOf(g, room) <= g /\ MinOf(g, room) <= room /\ room \in Int
      BY <1>2, <1>3, <1>4, MinMax
    <2>4. k.n \in Nat /\ k.n > 0 /\ k.n <= g /\ k.n <= limit - n
      <3>1. PICK i, j : i = k.n /\ j = MinOf(g, room)
        OBVIOUS
      <3>2. i \in 1..j /\ j \in Int /\ j <= g /\ j <= room /\ room \in Int /\ g \in Nat
        BY <1>2, <2>2, <2>3, <3>1
      <3>. HIDE DEF room
      <3>3. i \in Nat /\ i > 0 /\ i <= g /\ i <= room
        BY ONLY <3>2
      <3>. QED  BY <3>1, <3>3 DEF room
    <2>5. n + k.n <= MaxModelLen
      BY <1>3, <1>4, <2>4
    <2>6. ~k.stop => k.n = g
      BY <1>2, <2>1, <2>4
    <2>. QED  BY <1>6, <2>2, <2>4, <2>5, <2>6 DEF Answered, g, n
  <1>. QED  BY <1>5, <1>6

(* The blocks that an output makes full *)
FullAfter(q, kept) ==
  IF q.status = "running" /\ kept > 0 THEN (q.computed - q.placeholders) \div BlockSize ELSE 0

LEMMA OutputCacheable ==
  ASSUME Books, Lines, NEW r \in Requests, step.toks[r] = 0, NEW kept, Answered(req[r], kept),
         NEW q, q = AfterOutput(req[r], Head(req[r].flight), kept)
  PROVE  /\ Cacheable(tables[r], q.tokens, numCached[r], FullAfter(q, kept))
         /\ Placed(q, tables[r], 0) /\ q.status = req[r].status
         /\ q.tokens \in Seq(Token) /\ Len(q.tokens) \in 1..MaxModelLen
         /\ q \in [status : {"waiting", "running", "finished"}, tokens : Seq(Token),
                   seq : Seq(Token), computed : Int, placeholders : Int, spec : Nat,
                   flight : Seq(FlightType)]
  <1>. DEFINE full == FullAfter(q, kept)
              x == q.computed - q.placeholders
              l == Len(tables[r])
  <1>1. /\ req[r] \in ReqType /\ Sound(req[r]) /\ Placed(req[r], tables[r], 0)
        /\ tables[r] \in Seq(Blocks) /\ IsInjective(tables[r]) /\ numCached[r] \in Nat
        /\ kept \in Nat
    BY DEF Lines, Books, BooksOf, Answered
  <1>2. PICK o : o = req[r]
    OBVIOUS
  <1>3. /\ q \in [status : {"waiting", "running", "finished"}, tokens : Seq(Token),
                  seq : Seq(Token), computed : Nat, placeholders : Int, spec : Nat,
                  flight : Seq(FlightType)]
        /\ q.status = o.status
        /\ Len(q.tokens) = Len(o.tokens) + kept /\ Len(q.tokens) \in 1..MaxModelLen
        /\ q.computed <= o.computed
        /\ o.status = "running" =>
             /\ q.computed - q.placeholders = o.computed - o.placeholders + kept
             /\ kept <= o.placeholders
    <2>1. o \in ReqType /\ Sound(o) /\ Answered(o, kept) /\ q = AfterOutput(o, Head(o.flight), kept)
      BY <1>1, <1>2
    <2>. QED  BY ONLY <2>1, AfterOutputIs
  <1>4. /\ o.computed \in Nat /\ o.placeholders \in Nat /\ Len(o.tokens) \in Nat
        /\ q.computed \in Nat /\ q.placeholders \in Int /\ MaxModelLen \in Nat
        /\ o.computed - o.placeholders <= Len(o.tokens) - 1 /\ l \in Nat /\ l * BlockSize \in Int
    <2>1. o \in ReqType /\ Sound(o)
      BY <1>1, <1>2
    <2>2. l \in Nat /\ l * BlockSize \in Int
      BY <1>1, LenProperties, Multiples
    <2>. QED  BY <1>3, <2>1, <2>2, LenProperties, Numbers DEF ReqType, Sound
  <1>. HIDE DEF l
  <1>5. o.status = "running" => MinOf(o.computed, MaxModelLen) <= l * BlockSize
    <2>1. o.computed + 0 = o.computed
      BY <1>4
    <2>. QED  BY <1>1, <1>2, <2>1 DEF Placed, l
  <1>6. Placed(q, tables[r], 0)
    <2>1. CASE q.status = "running"
      <3>1. MinOf(q.computed + 0, MaxModelLen) <= l * BlockSize
        <4>. DEFINE a == o.computed
                    c == q.computed
        <4>1. /\ MinOf(a, MaxModelLen) <= l * BlockSize /\ c <= a /\ a \in Nat /\ c \in Nat
              /\ l * BlockSize \in Int /\ MaxModelLen \in Nat
          BY <1>3, <1>4, <1>5, <2>1
        <4>. HIDE DEF a, c
        <4>2. MinOf(c + 0, MaxModelLen) <= l * BlockSize
          BY <4>1 DEF MinOf
        <4>. QED  BY <4>2 DEF c
      <3>. QED  BY <2>1, <3>1 DEF Placed, l
    <2>2. CASE q.status # "running"
      BY <1>1, <1>2, <1>3, <2>2 DEF Placed
    <2>. QED  BY <2>1, <2>2
  <1>7. full \in Int /\ full <= l /\ full * BlockSize <= Len(q.tokens)
    <2>1. CASE ~(q.status = "running" /\ kept > 0)
      <3>1. full = 0
        BY <2>1 DEF FullAfter
      <3>2. 0 * BlockSize = 0
        BY Numbers
      <3>. QED  BY <1>3, <1>4, <3>1, <3>2
    <2>2. CASE q.status = "running" /\ kept > 0
      <3>1. /\ x \in Int /\ x <= Len(q.tokens) /\ x <= o.computed /\ x <= MaxModelLen
            /\ Len(q.tokens) \in Int
        <4>. DEFINE a == o.computed
                    b == o.placeholders
                    m == Len(o.tokens)
                    c == q.computed
                    d == q.placeholders
                    n == Len(q.tokens)
        <4>1. /\ a \in Nat /\ b \in Nat /\ m \in Nat /\ c \in Nat /\ d \in Int /\ kept \in Nat
              /\ n = m + kept /\ n <= MaxModelLen /\ c - d = a - b + kept /\ kept <= b
              /\ a - b <= m - 1 /\ MaxModelLen \in Nat
          BY <1>1, <1>3, <1>4, <2>2
        <4>. HIDE DEF a, b, m, c, d, n
        <4>2. c - d \in Int /\ c - d <= n /\ c - d <= a /\ c - d <= MaxModelLen /\ n \in Int
          BY ONLY <4>1
        <4>. QED  BY <4>2 DEF a, b, m, c, d, n
      <3>2. full = x \div BlockSize
        BY <2>2 DEF FullAfter
      <3>. HIDE DEF x, full
      <3>3. full \in Int /\ full * BlockSize <= x
        BY <3>1, <3>2, Division
      <3>4. x <= l * BlockSize
        BY <1>3, <1>4, <1>5, <2>2, <3>1 DEF MinOf
      <3>5. full * BlockSize \in Int
        BY <3>3, Multiples
      <3>6. full * BlockSize <= l * BlockSize /\ full * BlockSize <= Len(q.tokens)
        BY <1>4, <3>1, <3>3, <3>4, <3>5
      <3>7. l \in Int
        BY <1>4
      <3>8. full <= l
        BY <3>3, <3>6, <3>7, Multiples
      <3>. QED  BY <3>3, <3>6, <3>8
    <2>. QED  BY <2>1, <2>2
  <1>. HIDE DEF full
  <1>8. q \in [status : {"waiting", "running", "finished"}, tokens : Seq(Token),
               seq : Seq(Token), computed : Int, placeholders : Int, spec : Nat,
               flight : Seq(FlightType)]
        /\ q.tokens \in Seq(Token)
    BY <1>3
  <1>9. Cacheable(tables[r], q.tokens, numCached[r], full)
    BY <1>1, <1>7, <1>8 DEF Cacheable, l
  <1>. QED  BY <1>2, <1>3, <1>6, <1>8, <1>9 DEF full

(* An output is processed: n of its tokens are kept, the request becomes w *)
(* and the pool pl, unless the request stops.                              *)
Answers(r, n, w, pl) ==
  /\ step = NoStep /\ UNCHANGED <<step, content, resets, raised>>
  /\ req[r].flight # <<>> /\ Answered(req[r], n)
  /\ w = AfterOutput(req[r], Head(req[r].flight), n)
  /\ pl = CacheFullBlocks(pool, tables[r], w.tokens, numCached[r], FullAfter(w, n))
  /\ \/ /\ req' = [req EXCEPT ![r] = Finished(w)] /\ running' = Without(running, {r})
        /\ Release(pl, r, w.flight)
     \/ /\ n = Head(req[r].flight).gen
        /\ req' = [req EXCEPT ![r] = w] /\ pool' = pl
        /\ numCached' = [numCached EXCEPT ![r] = MaxOf(numCached[r], FullAfter(w, n))]
        /\ UNCHANGED <<running, tables, deferred>>

LEMMA ProcessOutputIs ==
  ASSUME Inv, NEW r \in Requests, ProcessOutput(r)
  PROVE  \E n, w, pl : Answers(r, n, w, pl)
  <1>. DEFINE f == Head(req[r].flight)
  <1>1. /\ Lines /\ step = NoStep /\ req[r].flight # <<>>
        /\ UNCHANGED <<step, content, resets, raised>>
    BY DEF Inv, ProcessOutput, Idle
  <1>. DEFINE q(k) == AfterOutput(req[r], f, k.n)
              p(k) == CacheFullBlocks(pool, tables[r], q(k).tokens, numCached[r], FullAfter(q(k), k.n))
  <1>2. PICK k \in Kept(r, f) :
          IF k.stop
            THEN /\ req' = [req EXCEPT ![r] = Finished(q(k))]
                 /\ running' = Without(running, {r})
                 /\ Release(p(k), r, q(k).flight)
            ELSE /\ req' = [req EXCEPT ![r] = q(k)]
                 /\ pool' = p(k)
                 /\ numCached' = [numCached EXCEPT ![r] = MaxOf(@, FullAfter(q(k), k.n))]
                 /\ UNCHANGED <<running, tables, deferred>>
    BY DEF ProcessOutput, FullAfter
  <1>3. PICK w : w = q(k)
    OBVIOUS
  <1>4. PICK pl : pl = CacheFullBlocks(pool, tables[r], w.tokens, numCached[r], FullAfter(w, k.n))
    OBVIOUS
  <1>5. pl = p(k)
    BY <1>3, <1>4
  <1>6. /\ Answered(req[r], k.n) /\ k.stop \in BOOLEAN
        /\ ~k.stop => k.n = f.gen
    BY <1>1, KeptIs
  <1>7. CASE k.stop
    <2>1. /\ req' = [req EXCEPT ![r] = Finished(w)] /\ running' = Without(running, {r})
          /\ Release(pl, r, w.flight)
      BY <1>2, <1>3, <1>5, <1>7
    <2>2. Answers(r, k.n, w, pl)
      BY <1>1, <1>3, <1>4, <1>6, <2>1 DEF Answers
    <2>. QED  BY <2>2
  <1>8. CASE ~k.stop
    <2>1. /\ req' = [req EXCEPT ![r] = w] /\ pool' = pl
          /\ numCached' = [numCached EXCEPT ![r] = MaxOf(numCached[r], FullAfter(w, k.n))]
          /\ UNCHANGED <<running, tables, deferred>>
      BY <1>2, <1>3, <1>5, <1>8
    <2>2. Answers(r, k.n, w, pl)
      BY <1>1, <1>3, <1>4, <1>6, <1>8, <2>1 DEF Answers
    <2>. QED  BY <2>2
  <1>. QED  BY <1>6, <1>7, <1>8

LEMMA ProcessOutputInv ==
  ASSUME Inv, NEW r \in Requests, ProcessOutput(r)
  PROVE  Inv'
  <1>1. Books /\ Lines /\ raised = FALSE
    BY DEF Inv
  <1>2. PICK n, w, pl : Answers(r, n, w, pl)
    BY ProcessOutputIs
  <1>3. /\ step = NoStep /\ UNCHANGED <<step, content, resets, raised>>
        /\ req[r].flight # <<>> /\ Answered(req[r], n)
        /\ w = AfterOutput(req[r], Head(req[r].flight), n)
        /\ pl = CacheFullBlocks(pool, tables[r], w.tokens, numCached[r], FullAfter(w, n))
    BY <1>2 DEF Answers
  <1>4. /\ step' \in StepType /\ step.toks[r] = 0 /\ step'.toks[r] = 0
        /\ \A s \in Requests \ {r} : step'.toks[s] <= step.toks[s]
    BY <1>3, NoStepType
  <1>5. /\ Cacheable(tables[r], w.tokens, numCached[r], FullAfter(w, n))
        /\ Placed(w, tables[r], 0) /\ w.status = req[r].status
        /\ w.tokens \in Seq(Token) /\ Len(w.tokens) \in 1..MaxModelLen
        /\ w \in [status : {"waiting", "running", "finished"}, tokens : Seq(Token),
                  seq : Seq(Token), computed : Int, placeholders : Int, spec : Nat,
                  flight : Seq(FlightType)]
    BY <1>1, <1>3, <1>4, OutputCacheable
  <1>6. BooksOf(pl, tables, deferred, numCached)
    <2>1. pool \in PoolType /\ Hashed(pool)
      BY <1>1 DEF Books, BooksOf
    <2>2. pl \in PoolType /\ pl.free = pool.free /\ pl.ref = pool.ref
      BY <1>3, <1>5, <2>1, CacheFullFrame
    <2>3. Hashed(pl)
      BY <1>3, <1>5, <2>1, CacheFullHashed
    <2>. QED  BY <1>1, <2>2, <2>3, SameBooks
  <1>7. CASE /\ req' = [req EXCEPT ![r] = Finished(w)] /\ running' = Without(running, {r})
             /\ Release(pl, r, w.flight)
    <2>1. Books' /\ tables' = [tables EXCEPT ![r] = <<>>]
      BY <1>6, <1>7, ReleaseBooks
    <2>2. PICK t : t = Finished(w)
      OBVIOUS
    <2>3. t \in ReqType /\ Sound(t) /\ t.status # "running"
      <3>1. Finished(w) \in ReqType /\ Sound(Finished(w)) /\ Finished(w).status = "finished"
        BY <1>5, FinishedSound
      <3>. QED  BY <2>2, <3>1
    <2>4. Lines'
      BY <1>1, <1>4, <1>7, <2>1, <2>2, <2>3, LeaveLine
    <2>. QED  BY <1>1, <1>3, <2>1, <2>4 DEF Inv
  <1>8. CASE /\ n = Head(req[r].flight).gen
             /\ req' = [req EXCEPT ![r] = w] /\ pool' = pl
             /\ numCached' = [numCached EXCEPT ![r] = MaxOf(numCached[r], FullAfter(w, n))]
             /\ UNCHANGED <<running, tables, deferred>>
    <2>1. w \in ReqType /\ Sound(w)
      <3>1. req[r] \in ReqType /\ Sound(req[r])
        BY <1>1 DEF Lines
      <3>. QED  BY <1>3, <1>8, <3>1, AfterOutputSound
    <2>2. Books'
      <3>1. MaxOf(numCached[r], FullAfter(w, n)) \in Nat
        <4>1. PICK a, b : a = numCached[r] /\ b = FullAfter(w, n)
          OBVIOUS
        <4>2. a \in Nat /\ b \in Int
          BY <1>5, <4>1 DEF Cacheable
        <4>3. MaxOf(a, b) \in Nat
          BY ONLY <4>2 DEF MaxOf
        <4>. QED  BY <4>1, <4>3
      <3>2. numCached' \in [Requests -> Nat]
        BY <1>1, <1>8, <3>1, BooksTables
      <3>. QED  BY <1>6, <1>8, <3>2 DEF Books, BooksOf
    <2>3. tables' = [tables EXCEPT ![r] = tables[r]]
      BY <1>1, <1>8, BooksTables
    <2>4. Lists(running, RunningOf([req EXCEPT ![r] = w]))
      <3>1. RunningOf([req EXCEPT ![r] = w]) = RunningOf(req)
        BY <1>1, <1>5 DEF RunningOf, Lines
      <3>. QED  BY <1>1, <3>1 DEF Lines
    <2>5. Lines'
      BY <1>1, <1>4, <1>5, <1>8, <2>1, <2>3, <2>4, OneLine
    <2>. QED  BY <1>1, <1>3, <2>2, <2>5 DEF Inv
  <1>. QED  BY <1>2, <1>7, <1>8 DEF Answers
-----------------------------------------------------------------------------
(* The invariant and what follows from it *)

(* A finite set in some order *)
LEMMA SetToSeqLists ==
  ASSUME NEW S, IsFiniteSet(S)
  PROVE  Lists(SetToSeq(S), S)
  <1>. DEFINE n == Cardinality(S)
              D == 1..n
              f == SetToSeq(S)
  <1>1. n \in Nat /\ ExistsBijection(D, S)
    BY FS_CardinalityType
  <1>2. PICK g : g \in Bijection(D, S)
    BY <1>1 DEF ExistsBijection
  <1>3. g \in [D -> S] /\ IsInjective(g)
    BY <1>2 DEF Bijection, Injection, IsInjective
  <1>4. f = CHOOSE h \in [D -> S] : IsInjective(h)
    BY DEF SetToSeq
  <1>5. IsFiniteSet(D) /\ Cardinality(D) = n
    BY <1>1, FS_Interval
  <1>. HIDE DEF f, D, n
  <1>6. f \in [D -> S] /\ IsInjective(f)
    BY <1>3, <1>4
  <1>7. f \in Injection(D, S)
    BY <1>6 DEF Injection, IsInjective
  <1>8. f \in Surjection(D, S)
    BY <1>5, <1>7, FS_Injection DEF n
  <1>9. /\ f \in [1..n -> S] /\ (\A i, j \in 1..n : f[i] = f[j] => i = j)
        /\ \A x \in S : \E i \in 1..n : f[i] = x
    BY <1>6, <1>8 DEF Surjection, IsInjective, D
  <1>10. Lists(f, S)
    BY <1>1, <1>9, ListsOf
  <1>. QED  BY <1>10 DEF f

LEMMA InitInv == Init => Inv
  <1>. SUFFICES ASSUME Init
                PROVE  Inv
    OBVIOUS
  <1>1. /\ pool = [free |-> SetToSeq(Blocks), ref |-> [b \in Blocks |-> 0],
                   hash |-> [b \in Blocks |-> NoHash], cache |-> <<>>]
        /\ tables = [r \in Requests |-> <<>>] /\ numCached = [r \in Requests |-> 0]
        /\ deferred = <<>> /\ running = <<>> /\ step = NoStep /\ raised = FALSE
    BY DEF Init
  <1>2. Lists(pool.free, Blocks) /\ pool.free \in Seq(Blocks)
    BY <1>1, Finiteness, SetToSeqLists DEF Lists
  <1>3. /\ pool.ref \in [Blocks -> Nat] /\ pool.hash \in [Blocks -> Seq(Token)]
        /\ (\A b \in Blocks : pool.ref[b] = 0 /\ pool.hash[b] = NoHash) /\ pool.cache = <<>>
    BY <1>1 DEF NoHash
  <1>4. <<>> \in CacheType /\ DOMAIN <<>> = {}
    <2>1. <<>> \in [{} -> Seq(Blocks)] /\ {} \in SUBSET Seq(Token)
      OBVIOUS
    <2>. QED  BY <2>1 DEF CacheType
  <1>5. pool \in PoolType
    <2>1. PICK f, g, h, c : f = pool.free /\ g = pool.ref /\ h = pool.hash /\ c = pool.cache
      OBVIOUS
    <2>2. pool = [free |-> f, ref |-> g, hash |-> h, cache |-> c]
      BY <1>1, <2>1
    <2>3. f \in Seq(Blocks) /\ g \in [Blocks -> Nat] /\ h \in [Blocks -> Seq(Token)] /\ c \in CacheType
      BY <1>2, <1>3, <1>4, <2>1
    <2>. QED  BY ONLY <2>2, <2>3 DEF PoolType
  <1>6. FreeExact(pool)
    <2>1. Unreferenced(pool.ref) = Blocks
      BY <1>3 DEF Unreferenced
    <2>. QED  BY <1>2, <2>1 DEF FreeExact
  <1>7. Hashed(pool)
    BY <1>3, <1>4 DEF Hashed
  <1>8. ASSUME NEW b \in Blocks
        PROVE  pool.ref[b] = Cardinality(HeldBy(tables, b)) + Cardinality(Awaiting(deferred, b))
    <2>1. HeldBy(tables, b) = {}
      BY <1>1 DEF HeldBy, ToSet
    <2>2. Awaiting(deferred, b) = {}
      BY <1>1 DEF Awaiting
    <2>. QED  BY <1>3, <2>1, <2>2, FS_EmptySet
  <1>9. Books
    <2>1. <<>> \in Seq(Blocks) /\ IsInjective(<<>>) /\ <<>> \in Seq(Seq(Blocks))
      BY DEF IsInjective
    <2>2. /\ tables \in [Requests -> Seq(Blocks)] /\ (\A r \in Requests : IsInjective(tables[r]))
          /\ deferred \in Seq(Seq(Blocks)) /\ (\A i \in DOMAIN deferred : IsInjective(deferred[i]))
          /\ numCached \in [Requests -> Nat]
      BY <1>1, <2>1
    <2>. QED  BY <1>5, <1>6, <1>7, <1>8, <2>2 DEF Books, BooksOf
  <1>10. ASSUME NEW r \in Requests
         PROVE  /\ req[r] \in ReqType /\ Sound(req[r]) /\ req[r].status = "waiting"
                /\ Placed(req[r], tables[r], step.toks[r])
    <2>1. req[r] = [status |-> "waiting", tokens |-> Prompt[r], seq |-> Prompt[r],
                    computed |-> 0, placeholders |-> 0, spec |-> 0, flight |-> <<>>]
      BY DEF Init
    <2>2. Prompt[r] \in Seq(Token) /\ Len(Prompt[r]) \in 1..MaxModelLen /\ Len(Prompt[r]) \in Nat
      BY Numbers
    <2>3. PICK q, pr : q = req[r] /\ pr = Prompt[r]
      OBVIOUS
    <2>4. q = [status |-> "waiting", tokens |-> pr, seq |-> pr,
               computed |-> 0, placeholders |-> 0, spec |-> 0, flight |-> <<>>]
      BY <2>1, <2>3
    <2>5. pr \in Seq(Token) /\ Len(pr) \in 1..MaxModelLen /\ Len(pr) \in Nat
          /\ <<>> \in Seq(FlightType)
      BY <2>2, <2>3
    <2>6. q \in ReqType /\ q.status = "waiting"
      BY ONLY <2>4, <2>5 DEF ReqType
    <2>7. Sound(q)
      BY <2>4, <2>5, NoFlight DEF Sound
    <2>8. Placed(q, tables[r], step.toks[r])
      BY <1>1, <2>6, NoStepType DEF Placed
    <2>. QED  BY <2>3, <2>6, <2>7, <2>8
  <1>11. Lines
    <2>1. req \in [Requests -> ReqType]
      <3>1. req = [r \in Requests |-> req[r]]
        BY DEF Init
      <3>. QED  BY <1>10, <3>1
    <2>2. RunningOf(req) = {}
      BY <1>10 DEF RunningOf
    <2>3. Lists(running, RunningOf(req))
      BY <1>1, <2>2, EmptyLists
    <2>. QED  BY <1>1, <1>10, <2>1, <2>3, NoStepType DEF Lines
  <1>. QED  BY <1>1, <1>9, <1>11 DEF Inv

(* Every step keeps the invariant. *)
LEMMA InvStep == Inv /\ [Next]_vars => Inv'
  <1>. SUFFICES ASSUME Inv, [Next]_vars
                PROVE  Inv'
    OBVIOUS
  <1>1. CASE ScheduleRunning
    BY <1>1, ScheduleRunningInv
  <1>2. CASE SkipRunning
    BY <1>2, SkipRunningInv
  <1>3. CASE Preempt
    BY <1>3, PreemptInv
  <1>4. ASSUME NEW r \in Requests, AdmitWaiting(r) \/ ProcessOutput(r) \/ Abort(r)
        PROVE  Inv'
    BY <1>4, AdmitWaitingInv, ProcessOutputInv, AbortInv
  <1>5. CASE IssueBatch
    BY <1>5, IssueBatchInv
  <1>6. CASE DrainDeferredFree
    BY <1>6, DrainInv
  <1>7. CASE ResetPreempt
    BY <1>7, ResetPreemptInv
  <1>8. CASE ResetPrefixCache
    BY <1>8, ResetPrefixCacheInv
  <1>9. CASE UNCHANGED vars
    BY <1>9 DEF vars, Inv, Books, Lines
  <1>. QED  BY <1>1, <1>2, <1>3, <1>4, <1>5, <1>6, <1>7, <1>8, <1>9 DEF Next

(* The pool keeps its books in every behaviour. *)
THEOREM InvHolds == Spec => []Inv
  <1>. QED  BY InitInv, InvStep, PTL DEF Spec

(* Types, for any constants: in particular the counts of a request, also   *)
(* of one whose output arrives after its preemption, stay natural numbers  *)
(* and its tokens a prefix of what the workers hold for it.                *)
THEOREM TypeCorrect == Spec => []TypeOK
  <1>1. Inv => TypeOK
    <2>. SUFFICES ASSUME Inv
                  PROVE  TypeOK
      OBVIOUS
    <2>1. pool \in PoolType /\ tables \in [Requests -> Seq(Blocks)] /\ numCached \in [Requests -> Nat]
      BY BooksTables DEF Inv
    <2>2. pool.free \in Seq(Blocks) /\ pool.ref \in [Blocks -> Nat] /\ DOMAIN pool.hash = Blocks
      BY <2>1 DEF PoolType
    <2>3. ASSUME NEW r \in Requests
          PROVE  /\ req[r].status \in {"waiting", "running", "finished"}
                 /\ req[r].computed \in Nat /\ req[r].placeholders \in Nat
                 /\ IsPrefix(req[r].tokens, req[r].seq)
      <3>1. req[r] \in ReqType /\ Sound(req[r])
        BY DEF Inv, Lines
      <3>2. PICK s, t, n, m : /\ s = req[r].tokens /\ t = req[r].seq
                              /\ n = Len(s) /\ m = Total(Gens(req[r].flight))
        OBVIOUS
      <3>3. s \in Seq(Token) /\ t \in Seq(Token) /\ n \in Nat /\ n > 0 /\ m \in Nat
        BY <3>1, <3>2, FlightSums, LenProperties DEF ReqType, Sound
      <3>4. Len(t) = n + m /\ \A i \in 1..n : t[i] = s[i]
        BY <3>1, <3>2 DEF Sound
      <3>5. n <= Len(t) /\ Len(t) \in Nat
        BY <3>3, <3>4
      <3>6. SubSeq(s, 1, n) = [i \in 1..n |-> s[i]] /\ SubSeq(t, 1, n) = [i \in 1..n |-> t[i]]
        BY <3>2, <3>3, <3>5
      <3>7. SubSeq(s, 1, n) = SubSeq(t, 1, n)
        BY <3>4, <3>6
      <3>8. IsPrefix(s, t)
        BY <3>2, <3>5, <3>7 DEF IsPrefix
      <3>. QED  BY <3>1, <3>2, <3>8 DEF ReqType
    <2>. QED  BY <2>1, <2>2, <2>3 DEF TypeOK
  <1>. QED  BY <1>1, InvHolds, PTL

(* Reference counts, for any constants: a block's ref_cnt is the number of *)
(* tables and deferred frees it is in, and the free queue holds exactly    *)
(* the blocks without a reference, once each (block_pool.py touch,         *)
(* get_new_blocks, free_blocks).                                           *)
THEOREM CountsExact == Spec => []RefCountsExact
  <1>1. Inv => RefCountsExact
    <2>. SUFFICES ASSUME Inv
                  PROVE  RefCountsExact
      OBVIOUS
    <2>1. \A b \in Blocks : pool.ref[b] = Holders(b)
      BY DEF Inv, Books, BooksOf, HeldBy, Awaiting, Holders
    <2>2. Lists(pool.free, Unreferenced(pool.ref))
      BY DEF Inv, Books, BooksOf, FreeExact
    <2>3. ToSet(pool.free) = Unreferenced(pool.ref)
      BY <2>2 DEF Lists
    <2>4. Len(pool.free) = Cardinality(Unreferenced(pool.ref))
      BY <2>2, ListsLength
    <2>. QED  BY <2>1, <2>3, <2>4 DEF RefCountsExact, Unreferenced
  <1>. QED  BY <1>1, InvHolds, PTL

(* The prefix cache, for any constants: the blocks listed under a hash are *)
(* exactly those that carry it, once each, and no entry is left empty      *)
(* (block_pool.py BlockHashToBlockMap, cache_full_blocks,                  *)
(* _maybe_evict_cached_block, reset_prefix_cache).                         *)
THEOREM CacheExact == Spec => []HashMapExact
  <1>1. Inv => HashMapExact
    BY DEF Inv, Books, BooksOf, Hashed, HashMapExact
  <1>. QED  BY <1>1, InvHolds, PTL

(* get_new_blocks never raises in allocate_slots, for any constants: the   *)
(* check made before it counts the hit blocks that leave the free queue.   *)
THEOREM AllocationSucceeds == Spec => []CheckedAllocationSucceeds
  <1>1. Inv => CheckedAllocationSucceeds
    BY DEF Inv, CheckedAllocationSucceeds
  <1>. QED  BY <1>1, InvHolds, PTL
-----------------------------------------------------------------------------
(* What the hashes of a request's blocks say *)

(* The first m blocks of a table carry the hashes of the tokens, the       *)
(* others none.                                                            *)
Named(g, table, toks, m) ==
  /\ m \in Nat /\ m <= Len(table) /\ m * BlockSize <= Len(toks)
  /\ \A i \in 1..Len(table) : g[table[i]] = IF i <= m THEN BlockHash(toks, i) ELSE NoHash

(* Only a block with a hash is shared. *)
Unshared(p) == \A b \in Blocks : p.hash[b] = NoHash => p.ref[b] <= 1

Names ==
  /\ Unshared(pool)
  /\ \A r \in Requests : Named(pool.hash, tables[r], req[r].tokens, numCached[r])

(* cache_full_blocks names the blocks it is asked to name, no others. *)
LEMMA CacheFullNames ==
  ASSUME NEW p \in PoolType, NEW table, NEW toks, NEW from, NEW upto,
         Cacheable(table, toks, from, upto), Named(p.hash, table, toks, from),
         NEW t, t = CacheFullBlocks(p, table, toks, from, upto)
  PROVE  /\ Named(t.hash, table, toks, MaxOf(from, upto))
         /\ \A b \in Blocks : (\A i \in from + 1 .. upto : table[i] # b) => t.hash[b] = p.hash[b]
         /\ \A b \in Blocks : t.hash[b] = NoHash => p.hash[b] = NoHash
  <1>. DEFINE new == Renamed(from, upto)
              T == {table[i] : i \in new}
              cut == RemoveCachedBlockHashes(p, T)
              m == MaxOf(from, upto)
  <1>1. /\ new \in SUBSET DOMAIN table
        /\ T \in SUBSET Blocks
        /\ \A i \in new : BlockHash(toks, i) # NoHash
    BY RenamedAre
  <1>2. /\ \A i \in new : t.hash[table[i]] = BlockHash(toks, i)
        /\ \A b \in Blocks : (\A i \in new : table[i] # b) => t.hash[b] = cut.hash[b]
    <2>1. WithFullCached(t, p, table, toks, from, upto)
      BY CacheFullIs
    <2>. QED  BY <2>1 DEF WithFullCached
  <1>3. cut.hash = [b \in Blocks |-> IF b \in T THEN NoHash ELSE p.hash[b]]
    <2>. HIDE DEF T
    <2>. QED  BY <1>1, RemovedIs
  <1>4. /\ table \in Seq(Blocks) /\ Len(table) \in Nat /\ DOMAIN table = 1..Len(table)
        /\ \A i \in 1..Len(table) : table[i] \in Blocks
        /\ \A i, j \in 1..Len(table) : table[i] = table[j] => i = j
        /\ from \in Nat /\ upto \in Int /\ upto <= Len(table) /\ upto * BlockSize <= Len(toks)
        /\ Len(toks) \in Nat
    BY LenProperties, ElementOfSeq DEF Cacheable, IsInjective
  <1>5. /\ from <= Len(table) /\ from * BlockSize <= Len(toks)
        /\ \A i \in 1..Len(table) : p.hash[table[i]] = IF i <= from THEN BlockHash(toks, i) ELSE NoHash
    BY DEF Named
  <1>6. new = from + 1 .. upto
    BY DEF Renamed
  <1>. HIDE DEF new, cut
  <1>7. ASSUME NEW b \in Blocks, \A i \in new : table[i] # b
        PROVE  t.hash[b] = p.hash[b]
    <2>1. b \notin T
      BY <1>7
    <2>. QED  BY <1>2, <1>3, <1>7, <2>1
  <1>. HIDE DEF T
  <1>8. ASSUME NEW i \in 1..Len(table)
        PROVE  t.hash[table[i]] = IF i <= m THEN BlockHash(toks, i) ELSE NoHash
    <2>1. CASE i \in new
      <3>1. i <= m
        BY <1>4, <1>6, <2>1 DEF MaxOf
      <3>. QED  BY <1>2, <2>1, <3>1
    <2>2. CASE i \notin new
      <3>1. t.hash[table[i]] = p.hash[table[i]]
        BY <1>1, <1>4, <1>7, <2>2
      <3>2. i <= m <=> i <= from
        BY <1>4, <1>6, <2>2 DEF MaxOf
      <3>. QED  BY <1>5, <3>1, <3>2
    <2>. QED  BY <2>1, <2>2
  <1>9. m \in Nat /\ m <= Len(table) /\ m * BlockSize <= Len(toks)
    BY <1>4, <1>5 DEF MaxOf
  <1>10. Named(t.hash, table, toks, m)
    <2>. HIDE DEF m
    <2>. QED  BY <1>8, <1>9 DEF Named
  <1>11. ASSUME NEW b \in Blocks, t.hash[b] = NoHash
         PROVE  p.hash[b] = NoHash
    <2>1. \A i \in new : table[i] # b
      BY <1>1, <1>2, <1>11
    <2>. QED  BY <1>7, <1>11, <2>1
  <1>. QED  BY <1>6, <1>7, <1>10, <1>11

(* A block in two tables has two references. *)
LEMMA HeldTwice ==
  ASSUME NEW p, NEW tab, NEW def, NEW num, BooksOf(p, tab, def, num), NEW b \in Blocks,
         NEW r \in Requests, NEW s \in Requests, r # s, b \in ToSet(tab[r]), b \in ToSet(tab[s])
  PROVE  p.ref[b] > 1
  <1>. DEFINE A == HeldBy(tab, b)
              B == Awaiting(def, b)
  <1>1. /\ IsFiniteSet(A) /\ Cardinality(A) \in Nat /\ Cardinality(B) \in Nat
        /\ p.ref[b] = Cardinality(A) + Cardinality(B)
    BY HoldersFinite DEF BooksOf
  <1>2. r \in A /\ s \in A \ {r}
    BY DEF HeldBy
  <1>. HIDE DEF A, B
  <1>3. IsFiniteSet(A \ {r}) /\ Cardinality(A \ {r}) = Cardinality(A) - 1
    BY <1>1, <1>2, FS_RemoveElement
  <1>4. Cardinality(A \ {r}) # 0
    BY <1>2, <1>3, FS_EmptySet
  <1>5. Cardinality(A \ {r}) \in Nat
    BY <1>3, FS_CardinalityType
  <1>. QED  BY <1>1, <1>3, <1>4, <1>5

(* free_blocks adds no references and leaves the hashes. *)
LEMMA FreeBlocksLess ==
  ASSUME NEW p \in PoolType, NEW bs
  PROVE  /\ FreeBlocks(p, bs).hash = p.hash
         /\ \A b \in Blocks : FreeBlocks(p, bs).ref[b] <= p.ref[b]
         /\ Unshared(p) => Unshared(FreeBlocks(p, bs))
  <1>. DEFINE g == [b \in Blocks |-> IF b \in ToSet(bs) THEN p.ref[b] - 1 ELSE p.ref[b]]
              first == {i \in DOMAIN bs : g[bs[i]] = 0 /\ p.hash[bs[i]] = NoHash}
              last == {i \in DOMAIN bs : g[bs[i]] = 0 /\ p.hash[bs[i]] # NoHash}
              f == AtPositions(bs, first) \o p.free \o AtPositions(bs, last)
              t == FreeBlocks(p, bs)
  <1>1. t = [p EXCEPT !.ref = g, !.free = f]
    BY DEF FreeBlocks
  <1>2. \A b \in Blocks : p.ref[b] \in Nat /\ g[b] <= p.ref[b] /\ g[b] \in Int
    BY DEF PoolType
  <1>. HIDE DEF g, f, t
  <1>3. t.hash = p.hash /\ t.ref = g
    BY <1>1 DEF PoolType
  <1>4. Unshared(p) => Unshared(t)
    BY <1>2, <1>3 DEF Unshared
  <1>. QED  BY <1>2, <1>3, <1>4 DEF t

(* An empty table has no names. *)
LEMMA NoNames ==
  ASSUME NEW g, NEW toks \in Seq(Token)
  PROVE  Named(g, <<>>, toks, 0)
  <1>1. 0 * BlockSize = 0 /\ Len(toks) \in Nat /\ Len(<<>>) = 0
    BY Numbers, LenProperties
  <1>. QED  BY <1>1 DEF Named

(* free, or pop_blocks_for_free, leaves the hashes. *)
LEMMA ReleaseUnshared ==
  ASSUME NEW p \in PoolType, Unshared(p), NEW r, NEW flight, Release(p, r, flight)
  PROVE  Unshared(pool') /\ pool'.hash = p.hash
  <1>1. pool' = p \/ pool' = FreeBlocks(p, Reverse(tables[r]))
    BY DEF Release, Released
  <1>2. PICK bs : bs = Reverse(tables[r])
    OBVIOUS
  <1>3. FreeBlocks(p, bs).hash = p.hash /\ Unshared(FreeBlocks(p, bs))
    BY FreeBlocksLess
  <1>. QED  BY <1>1, <1>2, <1>3

(* allocate_slots names the blocks that will be full, and no block of      *)
(* another request.                                                        *)
LEMMA AllocateNames ==
  ASSUME Books, Books', Names, NEW r \in Requests, NEW hit, NEW H, NEW computed, NEW n,
         AllocationInput(r, hit, H, computed, n), AllocateSlots(r, hit, computed, n),
         tables[r] = <<>> \/ hit = <<>>, Len(hit) * BlockSize <= Len(req[r].tokens),
         \A i \in 1..Len(hit) : pool.hash[hit[i]] = BlockHash(req[r].tokens, i)
  PROVE  /\ Unshared(pool')
         /\ Named(pool'.hash, tables'[r], req[r].tokens, numCached'[r])
         /\ \A s \in Requests \ {r} : /\ tables'[s] = tables[s] /\ numCached'[s] = numCached[s]
                                      /\ \A b \in ToSet(tables[s]) : pool'.hash[b] = pool.hash[b]
         /\ \A i \in 1..Len(tables[r]) : tables'[r][i] = tables[r][i]
         /\ \A b \in ToSet(tables[r]) : pool'.hash[b] = NoHash => pool.hash[b] = NoHash
         /\ \A b \in Blocks : pool'.hash[b] # NoHash =>
              \/ pool'.hash[b] = pool.hash[b]
              \/ \E i \in numCached[r] + 1 .. numCached'[r] : i > Len(hit) /\ tables'[r][i] = b
         /\ numCached'[r] * BlockSize <= computed + n \/ numCached'[r] <= MaxOf(numCached[r], Len(hit))
         /\ Len(tables'[r]) >= Len(tables[r]) /\ Len(tables[r]) \in Nat
         /\ numCached'[r] >= Len(hit)
  <1>1. PICK N, got, table, cached, full :
          Allocation(r, hit, H, computed, n, N, got, table, cached, full)
    BY AllocateIs
  <1>. DEFINE toks == req[r].tokens
              m == MaxOf(cached, full)
  <1>2. /\ Lists(table, ToSet(tables[r]) \cup (H \cup N)) /\ table \in Seq(Blocks) /\ IsInjective(table)
        /\ N \in SUBSET Blocks /\ N \cap H = {} /\ N \cap ToSet(tables[r]) = {}
        /\ (\A b \in N : pool.ref[b] = 0)
        /\ got \in PoolType
        /\ \A b \in Blocks : /\ got.hash[b] = IF b \in N THEN NoHash ELSE pool.hash[b]
                             /\ got.ref[b] = pool.ref[b] + Count(b \in H \cup N)
    BY <1>1 DEF Allocation
  <1>3. /\ cached = MaxOf(numCached[r], Len(hit)) /\ cached \in Nat /\ full \in Int
        /\ full * BlockSize <= computed + n
        /\ Cacheable(table, toks, cached, full)
        /\ pool' = CacheFullBlocks(got, table, toks, cached, full)
        /\ tables' = [tables EXCEPT ![r] = table]
        /\ numCached' = [numCached EXCEPT ![r] = m]
        /\ Len(table) >= Len(tables[r]) + Len(hit)
        /\ \A i \in 1..Len(tables[r]) : table[i] = tables[r][i]
        /\ \A i \in 1..Len(hit) : table[Len(tables[r]) + i] = hit[i]
        /\ \A i \in Len(tables[r]) + Len(hit) + 1 .. Len(table) : table[i] \in N
    BY <1>1 DEF Allocation
  <1>4. /\ pool \in PoolType /\ tables \in [Requests -> Seq(Blocks)] /\ numCached \in [Requests -> Nat]
        /\ Len(tables[r]) \in Nat /\ DOMAIN tables[r] = 1..Len(tables[r])
        /\ Len(table) \in Nat /\ DOMAIN table = 1..Len(table)
        /\ \A i \in 1..Len(table) : table[i] \in Blocks
        /\ \A s \in Requests : ToSet(tables[s]) \subseteq Blocks
    <2>1. pool \in PoolType /\ tables \in [Requests -> Seq(Blocks)] /\ numCached \in [Requests -> Nat]
      BY BooksTables
    <2>2. ASSUME NEW s \in Requests
          PROVE  ToSet(tables[s]) \subseteq Blocks
      BY <2>1, LenProperties, ElementOfSeq DEF ToSet
    <2>. QED  BY <1>2, <2>1, <2>2, LenProperties, ElementOfSeq
  <1>5. /\ H \in SUBSET Blocks /\ Len(hit) \in Nat /\ toks \in Seq(Token) /\ Len(toks) \in Nat
        /\ (\A i \in 1..Len(hit) : hit[i] \in H) /\ \A x \in H : \E i \in 1..Len(hit) : hit[i] = x
    BY ListsMeans, LenProperties DEF AllocationInput
  <1>6. /\ numCached[r] <= Len(tables[r]) /\ numCached[r] * BlockSize <= Len(toks)
        /\ \A i \in 1..Len(tables[r]) :
             pool.hash[tables[r][i]] = IF i <= numCached[r] THEN BlockHash(toks, i) ELSE NoHash
    BY DEF Names, Named
  <1>. HIDE DEF toks, m
  <1>7. Named(got.hash, table, toks, cached)
    <2>1. CASE hit = <<>>
      <3>1. Len(hit) = 0 /\ numCached[r] \in Nat
        BY <1>4, <2>1
      <3>2. cached = numCached[r]
        BY <1>3, <3>1 DEF MaxOf
      <3>3. ASSUME NEW i \in 1..Len(table)
            PROVE  got.hash[table[i]] = IF i <= cached THEN BlockHash(toks, i) ELSE NoHash
        <4>1. CASE i \in 1..Len(tables[r])
          <5>1. table[i] = tables[r][i] /\ table[i] \in ToSet(tables[r])
            BY <1>3, <1>4, <4>1 DEF ToSet
          <5>2. got.hash[table[i]] = pool.hash[table[i]]
            BY <1>2, <1>4, <5>1
          <5>. QED  BY <1>6, <3>2, <4>1, <5>1, <5>2
        <4>2. CASE ~(i \in 1..Len(tables[r]))
          <5>1. i \in Len(tables[r]) + Len(hit) + 1 .. Len(table) /\ ~(i <= cached)
            BY <1>4, <1>6, <3>1, <3>2, <4>2
          <5>2. table[i] \in N
            BY <1>3, <5>1
          <5>. QED  BY <1>2, <5>1, <5>2
        <4>. QED  BY <4>1, <4>2
      <3>4. cached <= Len(table)
        BY <1>3, <1>4, <1>6, <3>1, <3>2
      <3>. QED  BY <1>3, <1>6, <3>2, <3>3, <3>4 DEF Named
    <2>2. CASE tables[r] = <<>>
      <3>1. Len(tables[r]) = 0 /\ numCached[r] \in Nat
        BY <1>4, <2>2
      <3>2. numCached[r] = 0
        BY <1>6, <3>1
      <3>3. cached = Len(hit)
        BY <1>3, <1>5, <3>2 DEF MaxOf
      <3>4. ASSUME NEW i \in 1..Len(table)
            PROVE  got.hash[table[i]] = IF i <= cached THEN BlockHash(toks, i) ELSE NoHash
        <4>1. CASE i \in 1..Len(hit)
          <5>1. 0 + i = i /\ i <= cached
            BY <3>3, <4>1
          <5>2. table[i] = hit[i]
            BY <1>3, <3>1, <4>1, <5>1
          <5>3. table[i] \in H /\ table[i] \in Blocks
            BY <1>5, <4>1, <5>2
          <5>4. got.hash[table[i]] = pool.hash[table[i]]
            BY <1>2, <5>3
          <5>. QED  BY <4>1, <5>1, <5>2, <5>4 DEF toks
        <4>2. CASE ~(i \in 1..Len(hit))
          <5>1. i \in Len(tables[r]) + Len(hit) + 1 .. Len(table) /\ ~(i <= cached)
            BY <1>4, <1>5, <3>1, <3>3, <4>2
          <5>2. table[i] \in N
            BY <1>3, <5>1
          <5>. QED  BY <1>2, <5>1, <5>2
        <4>. QED  BY <4>1, <4>2
      <3>5. cached <= Len(table)
        BY <1>3, <1>4, <1>5, <3>1, <3>3
      <3>6. cached * BlockSize <= Len(toks)
        BY <3>3 DEF toks
      <3>. QED  BY <1>3, <3>4, <3>5, <3>6 DEF Named
    <2>. QED  BY <2>1, <2>2
  <1>8. Unshared(got)
    <2>. SUFFICES ASSUME NEW b \in Blocks, got.hash[b] = NoHash
                  PROVE  got.ref[b] <= 1
      BY DEF Unshared
    <2>1. pool.ref[b] \in Nat
      BY <1>4 DEF PoolType
    <2>2. CASE b \in N
      BY <1>2, <2>2 DEF Count
    <2>3. CASE b \notin N
      <3>1. pool.hash[b] = NoHash
        BY <1>2, <2>3
      <3>2. pool.ref[b] <= 1
        BY <3>1 DEF Names, Unshared
      <3>3. b \notin H
        <4>. SUFFICES ASSUME b \in H PROVE FALSE
          OBVIOUS
        <4>1. PICK i \in 1..Len(hit) : hit[i] = b
          BY <1>5
        <4>2. i \in Nat \ {0} /\ i <= Len(hit) /\ i \in Int /\ Len(hit) \in Int
          BY <1>5
        <4>3. i * BlockSize <= Len(hit) * BlockSize /\ i * BlockSize \in Int /\ Len(hit) * BlockSize \in Int
          BY <4>2, Multiples
        <4>4. i * BlockSize <= Len(toks)
          BY <1>5, <4>3 DEF toks
        <4>5. BlockHash(toks, i) # NoHash
          BY <1>5, <4>2, <4>4, BlockHashIs
        <4>. QED  BY <3>1, <4>1, <4>5 DEF toks
      <3>. QED  BY <1>2, <2>1, <2>3, <3>2, <3>3 DEF Count
    <2>. QED  BY <2>2, <2>3
  <1>9. PICK t : t = CacheFullBlocks(got, table, toks, cached, full)
    OBVIOUS
  <1>10. /\ Named(t.hash, table, toks, m)
         /\ \A b \in Blocks : (\A i \in cached + 1 .. full : table[i] # b) => t.hash[b] = got.hash[b]
         /\ \A b \in Blocks : t.hash[b] = NoHash => got.hash[b] = NoHash
    BY <1>2, <1>3, <1>7, <1>9, CacheFullNames DEF m
  <1>11. t.ref = got.ref /\ pool' = t
    BY <1>2, <1>3, <1>9, CacheFullFrame
  <1>12. Unshared(pool')
    BY <1>8, <1>10, <1>11 DEF Unshared
  <1>13. /\ tables'[r] = table /\ numCached'[r] = m
         /\ \A s \in Requests \ {r} : tables'[s] = tables[s] /\ numCached'[s] = numCached[s]
    BY <1>3, <1>4
  <1>14. \A i \in cached + 1 .. full : i \in 1..Len(table) /\ got.hash[table[i]] = NoHash
    <2>1. full <= Len(table)
      BY <1>3 DEF Cacheable
    <2>. QED  BY <1>3, <1>4, <1>7, <2>1 DEF Named
  <1>15. ASSUME NEW s \in Requests \ {r}, NEW b \in ToSet(tables[s])
         PROVE  pool'.hash[b] = pool.hash[b]
    <2>1. b \in Blocks
      BY <1>4
    <2>2. CASE b \in ToSet(table)
      <3>1. b \in ToSet(tables'[r]) /\ b \in ToSet(tables'[s])
        BY <1>13, <2>2
      <3>2. BooksOf(pool', tables', deferred', numCached')
        BY DEF Books
      <3>3. pool'.ref[b] > 1
        BY <2>1, <3>1, <3>2, HeldTwice
      <3>4. got.hash[b] # NoHash
        <4>1. got.ref[b] \in Nat
          BY <1>2, <2>1 DEF PoolType
        <4>. QED  BY <1>8, <1>11, <2>1, <3>3, <4>1 DEF Unshared
      <3>5. \A i \in cached + 1 .. full : table[i] # b
        BY <1>14, <3>4
      <3>6. b \notin N
        BY <1>2, <2>1, <3>4
      <3>. QED  BY <1>2, <1>10, <1>11, <2>1, <3>5, <3>6
    <2>3. CASE b \notin ToSet(table)
      <3>1. \A i \in cached + 1 .. full : table[i] # b
        BY <1>4, <1>14, <2>3 DEF ToSet
      <3>2. b \notin N
        BY <1>2, <2>3 DEF Lists
      <3>. QED  BY <1>2, <1>10, <1>11, <2>1, <3>1, <3>2
    <2>. QED  BY <2>2, <2>3
  <1>16. \A b \in ToSet(tables[r]) : pool'.hash[b] = NoHash => pool.hash[b] = NoHash
    BY <1>2, <1>4, <1>10, <1>11
  <1>17. numCached[r] <= cached /\ Len(hit) <= cached /\ numCached[r] \in Nat
    BY <1>3, <1>4, <1>5 DEF MaxOf
  <1>18. ASSUME NEW b \in Blocks, pool'.hash[b] # NoHash
         PROVE  \/ pool'.hash[b] = pool.hash[b]
                \/ \E i \in numCached[r] + 1 .. numCached'[r] : i > Len(hit) /\ tables'[r][i] = b
    <2>1. CASE \E i \in cached + 1 .. full : table[i] = b
      <3>1. PICK i \in cached + 1 .. full : table[i] = b
        BY <2>1
      <3>2. i \in numCached[r] + 1 .. m /\ i > Len(hit)
        BY <1>3, <1>5, <1>17 DEF m, MaxOf
      <3>. QED  BY <1>13, <3>1, <3>2
    <2>2. CASE \A i \in cached + 1 .. full : table[i] # b
      <3>1. pool'.hash[b] = got.hash[b]
        BY <1>10, <1>11, <2>2
      <3>. QED  BY <1>2, <1>18, <3>1
    <2>. QED  BY <2>1, <2>2
  <1>19. m * BlockSize <= computed + n \/ m <= MaxOf(numCached[r], Len(hit))
    <2>1. m = cached \/ m = full
      BY <1>3 DEF m, MaxOf
    <2>2. CASE m = cached
      BY <1>3, <2>2
    <2>3. CASE m = full
      BY <1>3, <2>3
    <2>. QED  BY <2>1, <2>2, <2>3
  <1>20. Len(table) >= Len(tables[r])
    BY <1>3, <1>4, <1>5
  <1>21. m >= Len(hit)
    BY <1>3, <1>5, <1>17 DEF m, MaxOf
  <1>. QED  BY <1>3, <1>4, <1>10, <1>11, <1>12, <1>13, <1>15, <1>16, <1>18, <1>19, <1>20, <1>21 DEF toks

(* Sequences that agree up to the end of a block give it the same hash. *)
LEMMA SameBlockHash ==
  ASSUME NEW toks \in Seq(Token), NEW more \in Seq(Token), NEW i \in Nat \ {0},
         i * BlockSize <= Len(toks), i * BlockSize <= Len(more),
         \A j \in 1..i * BlockSize : toks[j] = more[j]
  PROVE  BlockHash(toks, i) = BlockHash(more, i)
  <1>. DEFINE n == i * BlockSize
              u == SubSeq(toks, 1, n)
              v == SubSeq(more, 1, n)
  <1>1. n \in Nat \ {0} /\ Len(toks) \in Nat /\ Len(more) \in Nat /\ n <= Len(toks) /\ n <= Len(more)
        /\ \A j \in 1..n : toks[j] = more[j]
    BY Multiples, LenProperties
  <1>2. BlockHash(toks, i) = u /\ BlockHash(more, i) = v
    BY DEF BlockHash
  <1>. HIDE DEF n
  <1>3. n \in 1..Len(toks) /\ n \in 1..Len(more) /\ 1 \in 1..Len(toks) /\ 1 \in 1..Len(more)
    BY <1>1
  <1>4. /\ u \in Seq(Token) /\ Len(u) = n /\ \A j \in 1..n : u[j] = toks[j]
        /\ v \in Seq(Token) /\ Len(v) = n /\ \A j \in 1..n : v[j] = more[j]
    BY <1>1, <1>3, SubSeqProperties
  <1>. HIDE DEF u, v
  <1>5. \A j \in 1..n : u[j] = v[j]
    BY <1>1, <1>4
  <1>6. u = v
    BY <1>4, <1>5, SeqEqual
  <1>. QED  BY <1>2, <1>6

(* More tokens leave the names as they are. *)
LEMMA NamedMore ==
  ASSUME NEW g, NEW table, Len(table) \in Nat, NEW toks \in Seq(Token), NEW more \in Seq(Token),
         NEW m, Named(g, table, toks, m), Len(toks) <= Len(more),
         \A j \in 1..Len(toks) : toks[j] = more[j]
  PROVE  Named(g, table, more, m)
  <1>1. /\ m \in Nat /\ m <= Len(table) /\ m * BlockSize <= Len(toks)
        /\ \A i \in 1..Len(table) : g[table[i]] = IF i <= m THEN BlockHash(toks, i) ELSE NoHash
    BY DEF Named
  <1>2. Len(toks) \in Nat /\ Len(more) \in Nat /\ m * BlockSize \in Int
    BY <1>1, LenProperties, Multiples
  <1>3. ASSUME NEW i \in 1..Len(table), i <= m
        PROVE  BlockHash(toks, i) = BlockHash(more, i)
    <2>1. i \in Nat \ {0} /\ i \in Int /\ m \in Int
      BY <1>1
    <2>2. i * BlockSize <= m * BlockSize /\ i * BlockSize \in Nat
      BY <1>3, <2>1, Multiples
    <2>. DEFINE k == i * BlockSize
    <2>3. k <= Len(toks) /\ k <= Len(more) /\ \A j \in 1..k : toks[j] = more[j]
      <3>1. k \in Nat /\ k <= m * BlockSize
        BY <2>2
      <3>. HIDE DEF k
      <3>. QED  BY <1>1, <1>2, <3>1
    <2>. QED  BY <2>1, <2>3, SameBlockHash
  <1>4. m * BlockSize <= Len(more)
    BY <1>1, <1>2
  <1>. QED  BY <1>1, <1>3, <1>4 DEF Named

(* A step that renames no block of another request *)
LEMMA OneNamed ==
  ASSUME Books, Names, Unshared(pool'), NEW r \in Requests,
         Named(pool'.hash, tables'[r], req'[r].tokens, numCached'[r]),
         \A s \in Requests \ {r} : /\ tables'[s] = tables[s] /\ numCached'[s] = numCached[s]
                                   /\ req'[s].tokens = req[s].tokens
                                   /\ \A b \in ToSet(tables[s]) : pool'.hash[b] = pool.hash[b]
  PROVE  Names'
  <1>. SUFFICES ASSUME NEW s \in Requests, s # r
                PROVE  Named(pool'.hash, tables[s], req[s].tokens, numCached[s])
    BY DEF Names
  <1>1. Len(tables[s]) \in Nat /\ DOMAIN tables[s] = 1..Len(tables[s])
    BY BooksTables, LenProperties
  <1>2. \A i \in 1..Len(tables[s]) : pool'.hash[tables[s][i]] = pool.hash[tables[s][i]]
    BY <1>1 DEF ToSet
  <1>3. Named(pool.hash, tables[s], req[s].tokens, numCached[s])
    BY DEF Names
  <1>. QED  BY <1>2, <1>3 DEF Named

(* A request gives up its table. *)
LEMMA ReleaseNames ==
  ASSUME Books, Names, NEW r \in Requests, NEW p \in PoolType, Unshared(p),
         \A s \in Requests \ {r} : \A b \in ToSet(tables[s]) : p.hash[b] = pool.hash[b],
         NEW flight, Release(p, r, flight), req'[r].tokens \in Seq(Token),
         \A s \in Requests \ {r} : req'[s].tokens = req[s].tokens
  PROVE  Names'
  <1>1. Unshared(pool') /\ pool'.hash = p.hash
    BY ReleaseUnshared
  <1>2. /\ tables'[r] = <<>> /\ numCached'[r] = 0
        /\ \A s \in Requests \ {r} : tables'[s] = tables[s] /\ numCached'[s] = numCached[s]
    BY BooksTables DEF Release
  <1>3. Named(pool'.hash, tables'[r], req'[r].tokens, numCached'[r])
    BY <1>2, NoNames
  <1>. QED  BY <1>1, <1>2, <1>3, OneNamed

LEMMA AbortNames ==
  ASSUME Inv, Inv', Names, NEW r \in Requests, Abort(r)
  PROVE  Names'
  <1>1. Books /\ pool \in PoolType /\ Unshared(pool) /\ Release(pool, r, req[r].flight)
    BY BooksTables DEF Inv, Names, Abort
  <1>2. req'[r].tokens \in Seq(Token)
    BY DEF Inv, Lines, ReqType
  <1>3. \A s \in Requests \ {r} : req'[s] = req[s]
    BY DEF Inv, Lines, Abort
  <1>. QED  BY <1>1, <1>2, <1>3, ReleaseNames

LEMMA DrainNames ==
  ASSUME Inv, Names, DrainDeferredFree
  PROVE  Names'
  <1>1. /\ pool \in PoolType /\ pool' = FreeBlocks(pool, Reverse(Head(deferred)))
        /\ UNCHANGED <<tables, numCached, req>>
    BY BooksTables DEF Inv, DrainDeferredFree
  <1>2. PICK bs : bs = Reverse(Head(deferred))
    OBVIOUS
  <1>3. FreeBlocks(pool, bs).hash = pool.hash /\ Unshared(FreeBlocks(pool, bs))
    BY <1>1, FreeBlocksLess DEF Names
  <1>4. pool'.hash = pool.hash /\ Unshared(pool')
    BY <1>1, <1>2, <1>3
  <1>. QED  BY <1>1, <1>4 DEF Names

LEMMA ResetPreemptNames ==
  ASSUME Inv, Inv', Names, ResetPreempt
  PROVE  Names'
  <1>. DEFINE r == Last(running)
  <1>1. /\ Books /\ pool \in PoolType /\ Unshared(pool) /\ Release(pool, r, req[r].flight)
        /\ req' = [req EXCEPT ![r] = Preempted(req[r], TRUE)] /\ running # <<>>
    BY BooksTables DEF Inv, Names, ResetPreempt
  <1>2. r \in Requests
    BY <1>1, LastRuns DEF Inv
  <1>. HIDE DEF r
  <1>3. req'[r].tokens \in Seq(Token) /\ \A s \in Requests \ {r} : req'[s] = req[s]
    BY <1>1, <1>2 DEF Inv, Lines, ReqType
  <1>. QED  BY <1>1, <1>2, <1>3, ReleaseNames

LEMMA PreemptNames ==
  ASSUME Inv, Inv', Names, Preempt
  PROVE  Names'
  <1>. DEFINE v == Victim
  <1>1. /\ Books /\ Lines /\ pool \in PoolType /\ Unshared(pool) /\ InRunningLoop
        /\ Release(pool, v, req[v].flight) /\ req' = [req EXCEPT ![v] = Preempted(req[v], FALSE)]
    BY BooksTables DEF Inv, Names, Preempt
  <1>2. v \in Requests
    BY <1>1, VictimRuns
  <1>. HIDE DEF v
  <1>3. req'[v].tokens \in Seq(Token) /\ \A s \in Requests \ {v} : req'[s] = req[s]
    BY <1>1, <1>2 DEF Inv, Lines, ReqType
  <1>. QED  BY <1>1, <1>2, <1>3, ReleaseNames

LEMMA ScheduleRunningNames ==
  ASSUME Inv, Inv', Names, ScheduleRunning
  PROVE  Names'
  <1>1. PICK r, n : Runs(r, n)
    BY ScheduleRunningIs
  <1>2. /\ Books /\ Books' /\ r \in Requests /\ req' = req
        /\ AllocationInput(r, <<>>, {}, req[r].computed, n)
        /\ AllocateSlots(r, <<>>, req[r].computed, n)
    BY <1>1 DEF Inv, Runs
  <1>3. /\ <<>> = <<>> /\ Len(<<>>) * BlockSize <= Len(req[r].tokens)
        /\ \A i \in 1..Len(<<>>) : pool.hash[<<>>[i]] = BlockHash(req[r].tokens, i)
    <2>1. 0 * BlockSize = 0 /\ Len(req[r].tokens) \in Nat /\ Len(<<>>) = 0 /\ 1..0 = {}
      BY <1>2, Numbers, LenProperties DEF AllocationInput
    <2>. QED  BY <2>1
  <1>4. /\ Unshared(pool')
        /\ Named(pool'.hash, tables'[r], req[r].tokens, numCached'[r])
        /\ \A s \in Requests \ {r} : /\ tables'[s] = tables[s] /\ numCached'[s] = numCached[s]
                                     /\ \A b \in ToSet(tables[s]) : pool'.hash[b] = pool.hash[b]
    BY <1>2, <1>3, AllocateNames
  <1>. QED  BY <1>2, <1>4, OneNamed

LEMMA AdmitWaitingNames ==
  ASSUME Inv, Inv', Names, NEW r \in Requests, AdmitWaiting(r)
  PROVE  Names'
  <1>1. PICK hit, H, base, n : Admits(r, hit, H, base, n)
    BY AdmitWaitingIs
  <1>2. /\ Books /\ Books' /\ Lines /\ tables[r] = <<>> /\ req[r] \in ReqType
        /\ base = Len(hit) * BlockSize /\ base \in Nat /\ base <= Len(req[r].tokens) - 1
        /\ (\A i \in 1..Len(hit) : pool.hash[hit[i]] = BlockHash(req[r].tokens, i))
        /\ AllocationInput(r, hit, H, base, n) /\ AllocateSlots(r, hit, base, n)
        /\ req' = [req EXCEPT ![r].status = "running", ![r].computed = base]
    BY <1>1 DEF Inv, Admits
  <1>3. Len(hit) * BlockSize <= Len(req[r].tokens)
    <2>1. Len(req[r].tokens) \in Nat
      BY <1>2, LenProperties DEF ReqType
    <2>. QED  BY <1>2, <2>1
  <1>4. /\ Unshared(pool')
        /\ Named(pool'.hash, tables'[r], req[r].tokens, numCached'[r])
        /\ \A s \in Requests \ {r} : /\ tables'[s] = tables[s] /\ numCached'[s] = numCached[s]
                                     /\ \A b \in ToSet(tables[s]) : pool'.hash[b] = pool.hash[b]
    BY <1>2, <1>3, AllocateNames
  <1>5. req'[r].tokens = req[r].tokens /\ \A s \in Requests \ {r} : req'[s] = req[s]
    BY <1>2 DEF Lines, ReqType
  <1>. QED  BY <1>2, <1>4, <1>5, OneNamed

(* What an output does to the names *)
LEMMA AnswersNames ==
  ASSUME Inv, Names, NEW r \in Requests, NEW n, NEW w, NEW pl, Answers(r, n, w, pl)
  PROVE  /\ pl \in PoolType /\ Unshared(pl)
         /\ w.tokens \in Seq(Token)
         /\ Named(pl.hash, tables[r], w.tokens, MaxOf(numCached[r], FullAfter(w, n)))
         /\ \A s \in Requests \ {r} : \A b \in ToSet(tables[s]) : pl.hash[b] = pool.hash[b]
         /\ \A b \in Blocks : pl.hash[b] = NoHash => pool.hash[b] = NoHash
         /\ \A b \in Blocks : pl.hash[b] # pool.hash[b] =>
              \E i \in numCached[r] + 1 .. FullAfter(w, n) : i <= Len(tables[r]) /\ tables[r][i] = b
  <1>. DEFINE full == FullAfter(w, n)
  <1>1. /\ Books /\ Lines /\ step = NoStep /\ Answered(req[r], n)
        /\ w = AfterOutput(req[r], Head(req[r].flight), n)
        /\ pl = CacheFullBlocks(pool, tables[r], w.tokens, numCached[r], full)
    BY DEF Answers, Inv
  <1>2. /\ Cacheable(tables[r], w.tokens, numCached[r], full) /\ w.tokens \in Seq(Token)
    <2>1. step.toks[r] = 0
      BY <1>1, NoStepType
    <2>. QED  BY <1>1, <2>1, OutputCacheable
  <1>3. Named(pool.hash, tables[r], w.tokens, numCached[r])
    <2>1. PICK o : o = req[r]
      OBVIOUS
    <2>2. o \in ReqType /\ Sound(o) /\ Answered(o, n) /\ w = AfterOutput(o, Head(o.flight), n)
      BY <1>1, <2>1 DEF Lines
    <2>3. /\ Len(w.tokens) = Len(o.tokens) + n
          /\ \A i \in 1..Len(w.tokens) : w.tokens[i] = o.seq[i]
      BY ONLY <2>2, AfterOutputIs
    <2>4. /\ o.tokens \in Seq(Token) /\ Len(o.tokens) \in Nat /\ n \in Nat
          /\ \A i \in 1..Len(o.tokens) : o.seq[i] = o.tokens[i]
      BY <2>2, LenProperties DEF ReqType, Sound, Answered
    <2>5. Len(o.tokens) <= Len(w.tokens) /\ \A i \in 1..Len(o.tokens) : o.tokens[i] = w.tokens[i]
      BY <2>3, <2>4
    <2>6. Named(pool.hash, tables[r], o.tokens, numCached[r]) /\ Len(tables[r]) \in Nat
      BY <1>1, <2>1, BooksTables, LenProperties DEF Names
    <2>. QED  BY <1>2, <2>4, <2>5, <2>6, NamedMore
  <1>. HIDE DEF full
  <1>4. pool \in PoolType
    BY <1>1, BooksTables
  <1>5. /\ Named(pl.hash, tables[r], w.tokens, MaxOf(numCached[r], full))
        /\ \A b \in Blocks : (\A i \in numCached[r] + 1 .. full : tables[r][i] # b) => pl.hash[b] = pool.hash[b]
        /\ \A b \in Blocks : pl.hash[b] = NoHash => pool.hash[b] = NoHash
    <2>1. PICK tb, tk, m : tb = tables[r] /\ tk = w.tokens /\ m = numCached[r]
      OBVIOUS
    <2>2. /\ Cacheable(tb, tk, m, full) /\ Named(pool.hash, tb, tk, m)
          /\ pl = CacheFullBlocks(pool, tb, tk, m, full)
      BY <1>1, <1>2, <1>3, <2>1
    <2>3. /\ Named(pl.hash, tb, tk, MaxOf(m, full))
          /\ \A b \in Blocks : (\A i \in m + 1 .. full : tb[i] # b) => pl.hash[b] = pool.hash[b]
          /\ \A b \in Blocks : pl.hash[b] = NoHash => pool.hash[b] = NoHash
      BY <1>4, <2>2, CacheFullNames
    <2>. QED  BY <2>1, <2>3
  <1>6. pl \in PoolType /\ pl.ref = pool.ref
    BY <1>1, <1>2, <1>4, CacheFullFrame
  <1>7. Unshared(pl)
    BY <1>5, <1>6 DEF Names, Unshared
  <1>8. full <= Len(tables[r]) /\ full \in Int /\ numCached[r] \in Nat /\ Len(tables[r]) \in Nat
        /\ DOMAIN tables[r] = 1..Len(tables[r])
    BY <1>2, LenProperties DEF Cacheable
  <1>9. ASSUME NEW s \in Requests \ {r}, NEW b \in ToSet(tables[s])
        PROVE  pl.hash[b] = pool.hash[b]
    <2>1. b \in Blocks
      BY <1>1, BooksTables, LenProperties, ElementOfSeq DEF ToSet
    <2>. SUFFICES ASSUME NEW i \in numCached[r] + 1 .. full, tables[r][i] = b
                  PROVE  FALSE
      BY <1>5, <2>1
    <2>2. i \in 1..Len(tables[r]) /\ ~(i <= numCached[r])
      BY <1>8
    <2>3. pool.hash[b] = NoHash /\ b \in ToSet(tables[r])
      BY <1>3, <1>8, <2>2 DEF Named, ToSet
    <2>4. pool.ref[b] > 1
      BY <1>1, <2>1, <2>3, HeldTwice DEF Books
    <2>5. pool.ref[b] <= 1 /\ pool.ref[b] \in Nat
      BY <1>4, <2>1, <2>3 DEF Names, Unshared, PoolType
    <2>. QED  BY <2>4, <2>5
  <1>10. ASSUME NEW b \in Blocks, pl.hash[b] # pool.hash[b]
         PROVE  \E i \in numCached[r] + 1 .. full : i <= Len(tables[r]) /\ tables[r][i] = b
    <2>1. PICK i \in numCached[r] + 1 .. full : tables[r][i] = b
      BY <1>5, <1>10
    <2>2. i <= Len(tables[r])
      BY <1>8
    <2>. QED  BY <2>1, <2>2
  <1>. QED  BY <1>2, <1>5, <1>6, <1>7, <1>9, <1>10 DEF full

LEMMA ProcessOutputNames ==
  ASSUME Inv, Inv', Names, NEW r \in Requests, ProcessOutput(r)
  PROVE  Names'
  <1>1. PICK n, w, pl : Answers(r, n, w, pl)
    BY ProcessOutputIs
  <1>2. /\ pl \in PoolType /\ Unshared(pl)
        /\ Named(pl.hash, tables[r], w.tokens, MaxOf(numCached[r], FullAfter(w, n)))
        /\ \A s \in Requests \ {r} : \A b \in ToSet(tables[s]) : pl.hash[b] = pool.hash[b]
    BY <1>1, AnswersNames
  <1>3. Books /\ Lines /\ req'[r].tokens \in Seq(Token)
    BY DEF Inv, Lines, ReqType
  <1>4. CASE req' = [req EXCEPT ![r] = Finished(w)] /\ Release(pl, r, w.flight)
    <2>1. \A s \in Requests \ {r} : req'[s] = req[s]
      BY <1>3, <1>4 DEF Lines
    <2>. QED  BY <1>2, <1>3, <1>4, <2>1, ReleaseNames
  <1>5. CASE /\ req' = [req EXCEPT ![r] = w] /\ pool' = pl
             /\ numCached' = [numCached EXCEPT ![r] = MaxOf(numCached[r], FullAfter(w, n))]
             /\ UNCHANGED tables
    <2>1. /\ req'[r] = w /\ numCached'[r] = MaxOf(numCached[r], FullAfter(w, n))
          /\ \A s \in Requests \ {r} : req'[s] = req[s] /\ numCached'[s] = numCached[s]
      BY <1>3, <1>5, BooksTables DEF Lines
    <2>2. Named(pool'.hash, tables'[r], req'[r].tokens, numCached'[r]) /\ Unshared(pool')
      BY <1>2, <1>5, <2>1
    <2>3. \A s \in Requests \ {r} : /\ tables'[s] = tables[s] /\ numCached'[s] = numCached[s]
                                    /\ req'[s].tokens = req[s].tokens
                                    /\ \A b \in ToSet(tables[s]) : pool'.hash[b] = pool.hash[b]
      BY <1>2, <1>5, <2>1
    <2>. QED  BY <1>3, <2>2, <2>3, OneNamed
  <1>. QED  BY <1>1, <1>4, <1>5 DEF Answers

(* The batch changes no names. *)
LEMMA IssueBatchNames ==
  ASSUME Inv, Names, IssueBatch
  PROVE  Names'
  <1>1. Lines /\ UNCHANGED <<pool, tables, numCached>>
    BY DEF Inv, IssueBatch
  <1>2. PICK out : req' = [r \in Requests |->
                       IF r \in Scheduled THEN Issued(req[r], r, out[r]) ELSE req[r]]
    BY DEF IssueBatch
  <1>3. ASSUME NEW r \in Requests
        PROVE  req'[r].tokens = req[r].tokens
    <2>1. req[r] \in ReqType
      BY <1>1 DEF Lines
    <2>2. Issued(req[r], r, out[r]).tokens = req[r].tokens
      BY <2>1 DEF Issued, ReqType
    <2>. QED  BY <1>2, <2>2
  <1>. QED  BY <1>1, <1>3 DEF Names

(* A reset that succeeds finds no tables. *)
LEMMA ResetPrefixCacheNames ==
  ASSUME Inv, Names, ResetPrefixCache
  PROVE  Names'
  <1>1. /\ Books /\ Lines /\ running = <<>> /\ pool' = ResetCache(pool)
        /\ UNCHANGED <<tables, numCached, req>>
    BY DEF Inv, ResetPrefixCache
  <1>2. \A r \in Requests : tables[r] = <<>>
    <2>1. RunningOf(req) = {}
      BY <1>1, RunningIs DEF ToSet
    <2>. QED  BY <1>1, <2>1 DEF RunningOf, Lines, Placed
  <1>3. CASE pool' = pool
    BY <1>1, <1>3 DEF Names
  <1>4. CASE pool' # pool
    <2>1. Len(pool.free) = Cardinality(Blocks) /\ pool \in PoolType /\ FreeExact(pool)
      BY <1>1, <1>4 DEF ResetCache, Books, BooksOf
    <2>2. \A b \in Blocks : pool.ref[b] = 0
      <3>1. Cardinality(Unreferenced(pool.ref)) = Cardinality(Blocks)
        BY <2>1, ListsLength DEF FreeExact
      <3>2. Unreferenced(pool.ref) \subseteq Blocks
        BY DEF Unreferenced
      <3>3. Unreferenced(pool.ref) = Blocks
        BY <3>1, <3>2, Finiteness, FS_Subset
      <3>. QED  BY <3>3 DEF Unreferenced
    <2>3. pool'.ref = pool.ref
      BY <1>1, ResetCacheIs DEF Books, BooksOf
    <2>4. Unshared(pool')
      BY <2>2, <2>3 DEF Unshared
    <2>5. ASSUME NEW r \in Requests
          PROVE  Named(pool'.hash, tables'[r], req'[r].tokens, numCached'[r])
      <3>1. tables[r] = <<>> /\ req[r].tokens \in Seq(Token)
        BY <1>1, <1>2 DEF Lines, ReqType
      <3>2. numCached[r] = 0
        <4>1. numCached[r] \in Nat /\ numCached[r] <= Len(tables[r]) /\ Len(<<>>) = 0
          BY DEF Names, Named
        <4>. QED  BY <3>1, <4>1
      <3>. QED  BY <1>1, <3>1, <3>2, NoNames
    <2>. QED  BY <2>4, <2>5 DEF Names
  <1>. QED  BY <1>3, <1>4
-----------------------------------------------------------------------------
(* Whose turn it is in schedule() *)

(* What is cached will be computed in this step, and positions end with    *)
(* the model's length.                                                     *)
Within(q, m, k) ==
  q.status = "running" => m * BlockSize <= q.computed + k /\ q.computed + k <= MaxModelLen

(* The requests after the cursor have no tokens in the batch yet; the      *)
(* number of tokens for which others are preempted is that of the current  *)
(* request.                                                                *)
Turns ==
  /\ \A i \in DOMAIN running : i > step.cursor => step.toks[running[i]] = 0
  /\ step.resetting => \A r \in Requests : step.toks[r] = 0
  /\ step.want > 0 => step.cursor < Len(running) /\ step.want <= NumNewTokens(req[Current])
  /\ \A r \in Requests : Within(req[r], numCached[r], step.toks[r])

(* After the last request of a step *)
LEMMA QuietTurns ==
  ASSUME Inv', step'.want = 0, \A r \in Requests : step'.toks[r] = 0,
         \A r \in Requests : Within(req'[r], numCached'[r], 0)
  PROVE  Turns'
  <1>1. \A i \in DOMAIN running' : running'[i] \in Requests
    <2>1. Lists(running', RunningOf(req')) /\ RunningOf(req') \subseteq Requests
      BY DEF Inv, Lines, RunningOf
    <2>2. DOMAIN running' = 1..Len(running') /\ \A i \in 1..Len(running') : running'[i] \in RunningOf(req')
      BY <2>1, ListsMeans
    <2>. QED  BY <2>1, <2>2
  <1>. QED  BY <1>1 DEF Turns

LEMMA NoStepIs == NoStep.want = 0 /\ NoStep.cursor = 0 /\ \A r \in Requests : NoStep.toks[r] = 0
  BY DEF NoStep

LEMMA AbortTurns ==
  ASSUME Inv, Inv', Turns, NEW r \in Requests, Abort(r)
  PROVE  Turns'
  <1>1. /\ step = NoStep /\ step' = step /\ req' = [req EXCEPT ![r] = Finished(req[r])]
        /\ numCached' = [numCached EXCEPT ![r] = 0] /\ Books /\ Lines
    BY DEF Inv, Abort, Idle, Release
  <1>2. req[r] \in ReqType /\ Finished(req[r]).status = "finished"
    BY <1>1 DEF Lines, Finished, ReqType
  <1>3. ASSUME NEW s \in Requests
        PROVE  Within(req'[s], numCached'[s], 0)
    <2>1. CASE s = r
      BY <1>1, <1>2, <2>1 DEF Within, Lines
    <2>2. CASE s # r
      <3>1. Within(req[s], numCached[s], 0)
        BY <1>1, NoStepIs DEF Turns
      <3>. QED  BY <1>1, <2>2, <3>1, BooksTables DEF Lines
    <2>. QED  BY <2>1, <2>2
  <1>. QED  BY <1>1, <1>3, NoStepIs, QuietTurns

LEMMA ResetPreemptTurns ==
  ASSUME Inv, Inv', Turns, ResetPreempt
  PROVE  Turns'
  <1>. DEFINE r == Last(running)
  <1>1. /\ Books /\ Lines /\ running # <<>> /\ step' = [NoStep EXCEPT !.resetting = TRUE]
        /\ req' = [req EXCEPT ![r] = Preempted(req[r], TRUE)]
        /\ numCached' = [numCached EXCEPT ![r] = 0] /\ (Idle \/ step.resetting)
    BY DEF Inv, ResetPreempt, Release
  <1>2. r \in Requests
    BY <1>1, LastRuns
  <1>. HIDE DEF r
  <1>3. \A s \in Requests : step.toks[s] = 0
    BY <1>1, NoStepIs DEF Turns, Idle
  <1>4. step'.want = 0 /\ \A s \in Requests : step'.toks[s] = 0
    BY <1>1 DEF NoStep
  <1>5. req[r] \in ReqType /\ Preempted(req[r], TRUE).status = "waiting"
    BY <1>1, <1>2 DEF Lines, Preempted, ReqType
  <1>6. ASSUME NEW s \in Requests
        PROVE  Within(req'[s], numCached'[s], 0)
    <2>1. CASE s = r
      BY <1>1, <1>5, <2>1 DEF Within, Lines
    <2>2. CASE s # r
      <3>1. Within(req[s], numCached[s], 0)
        BY <1>3 DEF Turns
      <3>. QED  BY <1>1, <2>2, <3>1, BooksTables DEF Lines
    <2>. QED  BY <2>1, <2>2
  <1>. QED  BY <1>4, <1>6, QuietTurns

LEMMA ResetPrefixCacheTurns ==
  ASSUME Inv, Inv', ResetPrefixCache
  PROVE  Turns'
  <1>1. Lines /\ running = <<>> /\ step' = NoStep /\ UNCHANGED <<numCached, req>>
    BY DEF Inv, ResetPrefixCache
  <1>2. RunningOf(req) = {}
    BY <1>1, RunningIs DEF ToSet
  <1>3. \A s \in Requests : Within(req'[s], numCached'[s], 0)
    BY <1>1, <1>2 DEF RunningOf, Within
  <1>. QED  BY <1>1, <1>3, NoStepIs, QuietTurns

LEMMA SkipRunningTurns ==
  ASSUME Inv, Turns, SkipRunning
  PROVE  Turns'
  <1>1. /\ Lines /\ step.want = 0 /\ step' = [step EXCEPT !.cursor = @ + 1]
        /\ UNCHANGED <<numCached, req, running>>
    BY DEF Inv, SkipRunning
  <1>. DEFINE cr == step.cursor + 1
  <1>2. step' = [step EXCEPT !.cursor = cr] /\ step \in StepType /\ cr \in Nat /\ cr > step.cursor
        /\ step.cursor \in Nat /\ Len(running) \in Nat /\ DOMAIN running = 1..Len(running)
    BY <1>1, RunningIs DEF Lines, StepType
  <1>. HIDE DEF cr
  <1>3. /\ step'.cursor = cr /\ step'.want = 0 /\ step'.toks = step.toks
        /\ step'.resetting = step.resetting
    BY <1>1, <1>2 DEF StepType
  <1>. QED  BY <1>1, <1>2, <1>3 DEF Turns

LEMMA IssueBatchTurns ==
  ASSUME Inv, Inv', Turns, IssueBatch
  PROVE  Turns'
  <1>1. Lines /\ step' = NoStep /\ UNCHANGED <<numCached>>
    BY DEF Inv, IssueBatch
  <1>2. PICK out : req' = [r \in Requests |->
                       IF r \in Scheduled THEN Issued(req[r], r, out[r]) ELSE req[r]]
    BY DEF IssueBatch
  <1>3. ASSUME NEW r \in Requests
        PROVE  Within(req'[r], numCached'[r], 0)
    <2>1. /\ req[r] \in ReqType /\ req[r].computed \in Nat /\ step.toks[r] \in Nat
          /\ Within(req[r], numCached[r], step.toks[r])
      BY <1>1 DEF Lines, ReqType, StepType, Turns
    <2>2. CASE r \in Scheduled
      <3>1. /\ Issued(req[r], r, out[r]).computed = req[r].computed + step.toks[r]
            /\ Issued(req[r], r, out[r]).status = req[r].status
        BY <2>1 DEF Issued, ReqType
      <3>2. req'[r] = Issued(req[r], r, out[r])
        BY <1>2, <2>2
      <3>3. req'[r].computed + 0 = req[r].computed + step.toks[r] /\ req'[r].status = req[r].status
        BY <2>1, <3>1, <3>2
      <3>. QED  BY <1>1, <2>1, <3>3 DEF Within
    <2>3. CASE r \notin Scheduled
      <3>1. step.toks[r] = 0 /\ req'[r] = req[r]
        BY <1>2, <2>1, <2>3 DEF Scheduled
      <3>. QED  BY <1>1, <2>1, <3>1
    <2>. QED  BY <2>2, <2>3
  <1>. QED  BY <1>1, <1>3, NoStepIs, QuietTurns

(* The number of tokens a running request is scheduled for keeps it within *)
(* the model's length.                                                     *)
LEMMA WantedFits ==
  ASSUME Lines, Turns, InRunningLoop, NEW n \in Wanted
  PROVE  /\ n \in Nat \ {0} /\ n <= NumNewTokens(req[Current])
         /\ req[Current].computed + n <= MaxModelLen
  <1>. DEFINE q == req[Current]
              k == NumNewTokens(q)
  <1>1. Current \in Requests /\ n \in Nat \ {0}
    BY CurrentIs
  <1>2. /\ q \in ReqType /\ Len(q.tokens) \in Nat /\ q.spec \in Nat /\ q.placeholders \in Nat
        /\ q.computed \in Nat /\ MaxModelLen \in Nat
    BY <1>1, LenProperties, Numbers DEF Lines, ReqType
  <1>. HIDE DEF q
  <1>3. k \in Int /\ k <= MaxModelLen - q.computed - 1
    <2>. DEFINE x == Len(q.tokens) + q.spec + q.placeholders - q.computed
                y == MaxModelLen - q.computed - 1
    <2>1. x \in Int /\ y \in Int
      BY <1>2
    <2>2. k = MinOf(x, y)
      BY DEF NumNewTokens
    <2>. HIDE DEF x, y, k
    <2>3. k \in Int /\ k <= y
      BY <2>1, <2>2 DEF MinOf
    <2>. QED  BY <2>3 DEF y
  <1>4. n <= k
    <2>1. CASE step.want > 0
      BY <2>1 DEF Wanted, Turns, q
    <2>2. CASE ~(step.want > 0)
      <3>1. n \in 1..k
        BY <2>2 DEF Wanted, q
      <3>. HIDE DEF k
      <3>. QED  BY <1>3, <3>1
    <2>. QED  BY <2>1, <2>2
  <1>. HIDE DEF k
  <1>5. q.computed + n <= MaxModelLen
    BY <1>1, <1>2, <1>3, <1>4
  <1>. QED  BY <1>1, <1>4, <1>5 DEF k, q

LEMMA ScheduleRunningTurns ==
  ASSUME Inv, Inv', Names, Turns, ScheduleRunning
  PROVE  Turns'
  <1>1. PICK r, n : Runs(r, n)
    BY ScheduleRunningIs
  <1>2. /\ Books /\ Lines /\ Books' /\ InRunningLoop /\ r = Current /\ r \in Requests
        /\ n \in Wanted /\ n \in Nat \ {0}
        /\ AllocationInput(r, <<>>, {}, req[r].computed, n)
        /\ AllocateSlots(r, <<>>, req[r].computed, n)
        /\ step' \in StepType /\ step'.toks[r] = n
        /\ (\A s \in Requests \ {r} : step'.toks[s] = step.toks[s])
        /\ step'.cursor = step.cursor + 1 /\ step'.want = 0 /\ step'.resetting = step.resetting
        /\ UNCHANGED <<deferred, req, running, content, resets>>
    BY <1>1 DEF Inv, Runs
  <1>3. /\ Len(running) \in Nat /\ DOMAIN running = 1..Len(running) /\ step.cursor \in Nat
        /\ (\A i \in 1..Len(running) : running[i] \in Requests)
        /\ step.cursor + 1 \in 1..Len(running) /\ r = running[step.cursor + 1]
        /\ \A i, j \in 1..Len(running) : running[i] = running[j] => i = j
    <2>1. Lists(running, RunningOf(req))
      BY <1>2 DEF Lines
    <2>2. \A i, j \in 1..Len(running) : running[i] = running[j] => i = j
      BY <2>1, ListsMeans
    <2>. QED  BY <1>2, <2>2, RunningIs, CurrentIs DEF Current, Lines, StepType
  <1>4. step.toks[r] = 0
    BY <1>3 DEF Turns
  <1>5. ASSUME NEW i \in DOMAIN running', i > step'.cursor
        PROVE  step'.toks[running'[i]] = 0
    <2>1. i \in 1..Len(running) /\ i > step.cursor /\ i # step.cursor + 1
      BY <1>2, <1>3, <1>5
    <2>2. running[i] # r /\ running[i] \in Requests /\ step.toks[running[i]] = 0
      BY <1>3, <2>1 DEF Turns
    <2>. QED  BY <1>2, <2>2
  <1>6. ~step'.resetting
    BY <1>2 DEF InRunningLoop
  <1>7. ASSUME NEW s \in Requests
        PROVE  Within(req'[s], numCached'[s], step'.toks[s])
    <2>1. /\ \A t \in Requests \ {r} : numCached'[t] = numCached[t]
          /\ \/ numCached'[r] * BlockSize <= req[r].computed + n
             \/ numCached'[r] <= MaxOf(numCached[r], Len(<<>>))
      <3>1. /\ <<>> = <<>> /\ Len(<<>>) * BlockSize <= Len(req[r].tokens)
            /\ \A i \in 1..Len(<<>>) : pool.hash[<<>>[i]] = BlockHash(req[r].tokens, i)
        <4>1. 0 * BlockSize = 0 /\ Len(req[r].tokens) \in Nat /\ Len(<<>>) = 0 /\ 1..0 = {}
          BY <1>2, Numbers, LenProperties DEF AllocationInput
        <4>. QED  BY <4>1
      <3>. QED  BY <1>2, <3>1, AllocateNames
    <2>2. CASE s # r
      BY <1>2, <2>1, <2>2 DEF Turns
    <2>3. CASE s = r
      <3>. DEFINE m == numCached'[r]
                  c == req[r].computed
                  o == numCached[r]
      <3>1. m \in Nat /\ o \in Nat /\ c \in Nat /\ o * BlockSize <= c + 0 /\ Len(<<>>) = 0
        <4>1. Within(req[r], o, 0) /\ req[r].status = "running"
          BY <1>2, <1>4, CurrentIs DEF Turns
        <4>. QED  BY <1>2, <4>1, BooksTables DEF Within, Lines, ReqType, Books, BooksOf
      <3>2. m * BlockSize <= c + n \/ m <= o
        BY <2>1, <3>1 DEF MaxOf
      <3>3. c + n <= MaxModelLen
        BY <1>2, WantedFits
      <3>. HIDE DEF m, c, o
      <3>4. m * BlockSize <= c + n
        <4>1. CASE m <= o
          <5>1. m \in Int /\ o \in Int
            BY <3>1
          <5>2. m * BlockSize <= o * BlockSize /\ m * BlockSize \in Int /\ o * BlockSize \in Int
            BY <4>1, <5>1, Multiples
          <5>. QED  BY <1>2, <3>1, <5>2
        <4>. QED  BY <3>2, <4>1
      <3>. QED  BY <1>2, <2>3, <3>3, <3>4 DEF Within, m, c
    <2>. QED  BY <2>2, <2>3
  <1>. QED  BY <1>2, <1>5, <1>6, <1>7 DEF Turns

LEMMA AdmitWaitingTurns ==
  ASSUME Inv, Inv', Names, Turns, NEW r \in Requests, AdmitWaiting(r)
  PROVE  Turns'
  <1>1. PICK hit, H, base, n : Admits(r, hit, H, base, n)
    BY AdmitWaitingIs
  <1>2. /\ Books /\ Lines /\ Books' /\ tables[r] = <<>> /\ ~InRunningLoop /\ ~step.resetting
        /\ req[r] \in ReqType /\ Sound(req[r])
        /\ Len(hit) \in Nat /\ base = Len(hit) * BlockSize /\ base \in Nat
        /\ base <= Len(req[r].tokens) - 1
        /\ (\A i \in 1..Len(hit) : pool.hash[hit[i]] = BlockHash(req[r].tokens, i))
        /\ n \in Nat \ {0} /\ n \in AdmitTokens(Len(req[r].tokens) - base, base)
    BY <1>1 DEF Inv, Admits
  <1>3. /\ AllocationInput(r, hit, H, base, n) /\ AllocateSlots(r, hit, base, n)
        /\ req' = [req EXCEPT ![r].status = "running", ![r].computed = base]
        /\ running' = Append(running, r) /\ UNCHANGED <<deferred, content, resets>>
        /\ step' \in StepType /\ step'.toks[r] = n
        /\ (\A s \in Requests \ {r} : step'.toks[s] = step.toks[s])
        /\ step'.cursor = step.cursor + 1 /\ step'.want = step.want
        /\ step'.resetting = step.resetting
    BY <1>1 DEF Admits
  <1>4. /\ Len(running) \in Nat /\ step.cursor \in Nat /\ step.want \in Nat
        /\ step.cursor >= Len(running)
    BY <1>2, RunningIs DEF Lines, StepType, InRunningLoop
  <1>5. ASSUME NEW i \in DOMAIN running', i > step'.cursor
        PROVE  FALSE
    <2>1. running \in Seq(Requests)
      <3>1. Lists(running, RunningOf(req))
        BY <1>2 DEF Lines
      <3>. QED  BY <3>1 DEF Lists, RunningOf
    <2>2. Len(running') = Len(running) + 1 /\ DOMAIN running' = 1..Len(running')
      BY <1>3, <2>1, AppendProperties, LenProperties
    <2>. QED  BY <1>3, <1>4, <1>5, <2>2
  <1>6. step'.want = 0
    BY <1>3, <1>4 DEF Turns
  <1>7. ASSUME NEW s \in Requests
        PROVE  Within(req'[s], numCached'[s], step'.toks[s])
    <2>. DEFINE l == Len(req[r].tokens)
    <2>0. l \in Nat /\ l <= MaxModelLen /\ MaxModelLen \in Nat
      BY <1>2, LenProperties, Numbers DEF ReqType, Sound
    <2>1. /\ \A t \in Requests \ {r} : numCached'[t] = numCached[t]
          /\ \/ numCached'[r] * BlockSize <= base + n
             \/ numCached'[r] <= MaxOf(numCached[r], Len(hit))
      <3>1. Len(hit) * BlockSize <= l
        BY <1>2, <2>0
      <3>. QED  BY <1>2, <1>3, <3>1, AllocateNames
    <2>2. CASE s # r
      <3>1. req'[s] = req[s]
        BY <1>2, <1>3, <2>2 DEF Lines
      <3>. QED  BY <1>3, <2>1, <2>2, <3>1 DEF Turns
    <2>3. CASE s = r
      <3>. DEFINE m == numCached'[r]
      <3>1. m \in Nat /\ numCached[r] = 0
        <4>1. numCached[r] \in Nat /\ numCached[r] <= Len(tables[r]) /\ Len(<<>>) = 0
          BY DEF Names, Named
        <4>. QED  BY <1>2, <4>1 DEF Books, BooksOf
      <3>2. m * BlockSize <= base + n \/ m <= Len(hit)
        BY <1>2, <2>1, <3>1 DEF MaxOf
      <3>3. base + n <= MaxModelLen
        <4>. HIDE DEF l
        <4>1. n \in AdmitTokens(l - base, base)
          BY <1>2 DEF l
        <4>. QED  BY <1>2, <2>0, <4>1 DEF AdmitTokens
      <3>. HIDE DEF m
      <3>4. m * BlockSize <= base + n
        <4>1. CASE m <= Len(hit)
          <5>1. m \in Int /\ Len(hit) \in Int
            BY <1>2, <3>1
          <5>2. m * BlockSize <= Len(hit) * BlockSize /\ m * BlockSize \in Int
            BY <4>1, <5>1, Multiples
          <5>. QED  BY <1>2, <5>2
        <4>. QED  BY <3>2, <4>1
      <3>5. req'[r].computed = base
        BY <1>2, <1>3 DEF Lines, ReqType
      <3>. QED  BY <1>3, <2>3, <3>3, <3>4, <3>5 DEF Within, m
    <2>. QED  BY <2>2, <2>3
  <1>8. \A i \in DOMAIN running' : i > step'.cursor => step'.toks[running'[i]] = 0
    BY <1>5
  <1>9. ~step'.resetting /\ ~(step'.want > 0)
    BY <1>2, <1>3, <1>6
  <1>. QED  BY <1>7, <1>8, <1>9 DEF Turns

(* A preemption: the victim v, at position p of the running list, leaves,  *)
(* and the cursor stays with the request the preemption is for, which      *)
(* still wants n tokens; when that is the victim, the loop ends.           *)
Preempts(v, p, n) ==
  /\ InRunningLoop /\ v = Victim /\ v \in Requests /\ n \in Wanted
  /\ p \in 1..Len(running) /\ running[p] = v
  /\ Release(pool, v, req[v].flight) /\ req' = [req EXCEPT ![v] = Preempted(req[v], FALSE)]
  /\ running' = Without(running, {v}) /\ UNCHANGED <<content, resets, raised>>
  /\ step'.cursor = (IF v = Current THEN Len(Without(running, {v}))
                     ELSE IF p <= step.cursor THEN step.cursor - 1 ELSE step.cursor)
  /\ step'.want = (IF v = Current THEN 0 ELSE n)
  /\ step'.toks = [step.toks EXCEPT ![v] = 0] /\ step'.resetting = FALSE

LEMMA PreemptIs ==
  ASSUME Inv, Preempt
  PROVE  \E v, p, n : Preempts(v, p, n)
  <1>. DEFINE v == Victim
              p == CHOOSE i \in DOMAIN running : running[i] = v
              rest == Without(running, {v})
              c == IF v = Current THEN Len(rest)
                   ELSE IF p <= step.cursor THEN step.cursor - 1 ELSE step.cursor
              w(n) == IF v = Current THEN 0 ELSE n
              tk == [step.toks EXCEPT ![v] = 0]
  <1>1. Lines /\ InRunningLoop /\ UNCHANGED <<content, resets, raised>>
    BY DEF Inv, Preempt
  <1>2. PICK n \in Wanted :
          /\ Release(pool, v, req[v].flight)
          /\ req' = [req EXCEPT ![v] = Preempted(req[v], FALSE)]
          /\ running' = rest
          /\ step' = [cursor |-> c, want |-> w(n), toks |-> tk, preempted |-> TRUE,
                      resetting |-> FALSE]
    BY DEF Preempt
  <1>3. v \in Requests /\ \E i \in DOMAIN running : running[i] = v
    BY <1>1, VictimRuns
  <1>4. p \in 1..Len(running) /\ running[p] = v
    <2>. HIDE DEF v
    <2>. QED  BY <1>1, <1>3, RunningIs
  <1>. HIDE DEF c, w, tk
  <1>5. /\ step'.cursor = c /\ step'.want = w(n) /\ step'.toks = tk /\ step'.resetting = FALSE
    BY <1>2
  <1>6. Preempts(v, p, n)
    BY <1>1, <1>2, <1>3, <1>4, <1>5 DEF Preempts, c, w, tk
  <1>. QED  BY <1>6

LEMMA PreemptTurns ==
  ASSUME Inv, Inv', Turns, Preempt
  PROVE  Turns'
  <1>1. PICK v, p, n : Preempts(v, p, n)
    BY PreemptIs
  <1>2. /\ Books /\ Lines /\ InRunningLoop /\ v \in Requests /\ n \in Wanted
        /\ p \in 1..Len(running) /\ running[p] = v
        /\ req' = [req EXCEPT ![v] = Preempted(req[v], FALSE)]
        /\ numCached' = [numCached EXCEPT ![v] = 0]
        /\ running' = Without(running, {v})
        /\ step'.toks = [step.toks EXCEPT ![v] = 0] /\ step'.resetting = FALSE
    BY <1>1 DEF Inv, Preempts, Release
  <1>. DEFINE l == Len(running)
              c == step.cursor
              d == step'.cursor
  <1>3. /\ l \in Nat /\ c \in Nat /\ c + 1 <= l /\ DOMAIN running = 1..l
        /\ (\A i \in 1..l : running[i] \in Requests)
        /\ (\A i, j \in 1..l : running[i] = running[j] => i = j)
        /\ running \in Seq(Requests) /\ IsInjective(running)
    <2>1. Lists(running, RunningOf(req)) /\ step.cursor \in Nat /\ step.cursor < Len(running)
      BY <1>2 DEF Lines, StepType, InRunningLoop
    <2>2. \A i, j \in 1..l : running[i] = running[j] => i = j
      BY <2>1, ListsMeans
    <2>3. running \in Seq(Requests) /\ IsInjective(running)
      BY <2>1 DEF Lists, RunningOf
    <2>. QED  BY <1>2, <2>1, <2>2, <2>3, RunningIs
  <1>4. /\ DOMAIN running' = 1..(l - 1)
        /\ \A k \in 1..(l - 1) : running'[k] = running[IF k < p THEN k ELSE k + 1]
    <2>1. /\ DOMAIN Without(running, {running[p]}) = 1..(Len(running) - 1)
          /\ \A k \in 1..(Len(running) - 1) :
               Without(running, {running[p]})[k] = running[IF k < p THEN k ELSE k + 1]
      BY <1>2, <1>3, WithoutShifts
    <2>. QED  BY <1>2, <2>1
  <1>5. Len(running') = l - 1
    <2>1. Lists(Without(running, {v}), RunningOf(req) \ {v})
      BY <1>2, WithoutLists DEF Lines
    <2>2. Len(running') \in Nat /\ DOMAIN running' = 1..Len(running')
      BY <1>2, <2>1, ListsMeans
    <2>3. PICK a, b : a = Len(running') /\ b = l - 1
      OBVIOUS
    <2>. HIDE DEF l
    <2>4. a \in Nat /\ b \in Nat /\ 1..a = 1..b
      BY <1>3, <1>4, <2>2, <2>3
    <2>5. a = b
      BY ONLY <2>4
    <2>. QED  BY <2>3, <2>5
  <1>6. Current = running[c + 1] /\ c + 1 \in 1..l /\ p \in Nat /\ p >= 1 /\ p <= l
    BY <1>2, <1>3 DEF Current
  <1>7. /\ (p = c + 1 => d = l - 1 /\ step'.want = 0)
        /\ (p # c + 1 => step'.want = n)
        /\ (p <= c => d = c - 1) /\ (p > c + 1 => d = c)
    <2>1. v = Current <=> p = c + 1
      BY <1>2, <1>3, <1>6
    <2>2. /\ d = (IF v = Current THEN Len(running') ELSE IF p <= c THEN c - 1 ELSE c)
          /\ step'.want = (IF v = Current THEN 0 ELSE n)
      BY <1>1 DEF Preempts
    <2>. HIDE DEF d, c, l
    <2>. QED  BY <1>3, <1>5, <1>6, <2>1, <2>2
  <1>8. \A s \in Requests : step'.toks[s] = IF s = v THEN 0 ELSE step.toks[s]
    BY <1>2 DEF Lines, StepType
  <1>9. ASSUME NEW i \in DOMAIN running', i > step'.cursor
        PROVE  step'.toks[running'[i]] = 0
    <2>1. i \in 1..(l - 1) /\ i > d
      BY <1>4, <1>9
    <2>2. PICK k : k = (IF i < p THEN i ELSE i + 1)
      OBVIOUS
    <2>3. running'[i] = running[k]
      BY <1>4, <2>1, <2>2
    <2>. HIDE DEF d, c, l
    <2>4. k \in 1..l
      BY <1>3, <2>1, <2>2
    <2>5. k > c
      BY <1>3, <1>6, <1>7, <2>1, <2>2
    <2>6. running[k] \in Requests /\ step.toks[running[k]] = 0
      BY <1>3, <2>4, <2>5 DEF Turns, c
    <2>. QED  BY <1>8, <2>3, <2>6
  <1>10. ASSUME step'.want > 0
         PROVE  step'.cursor < Len(running') /\ step'.want <= NumNewTokens(req'[Current'])
    <2>1. p # c + 1 /\ step'.want = n
      BY <1>7, <1>10
    <2>2. d < l - 1 /\ d + 1 \in 1..(l - 1)
          /\ (IF d + 1 < p THEN d + 1 ELSE (d + 1) + 1) = c + 1
      <3>. HIDE DEF d, c, l
      <3>. QED  BY <1>3, <1>6, <1>7, <2>1
    <2>3. Current' = Current
      <3>1. Current' = running'[d + 1]
        BY DEF Current
      <3>2. running'[d + 1] = running[IF d + 1 < p THEN d + 1 ELSE (d + 1) + 1]
        BY <1>4, <2>2
      <3>. QED  BY <1>6, <2>2, <3>1, <3>2
    <2>4. req'[Current] = req[Current]
      <3>1. Current # v /\ Current \in Requests
        BY <1>2, <1>3, <1>6, <2>1
      <3>. QED  BY <1>2, <3>1 DEF Lines
    <2>5. n <= NumNewTokens(req[Current])
      BY <1>2, WantedFits
    <2>. QED  BY <1>5, <2>1, <2>2, <2>3, <2>4, <2>5
  <1>11. ASSUME NEW s \in Requests
         PROVE  Within(req'[s], numCached'[s], step'.toks[s])
    <2>1. CASE s = v
      <3>1. req[v] \in ReqType /\ Preempted(req[v], FALSE).status = "waiting"
        BY <1>2 DEF Lines, Preempted, ReqType
      <3>. QED  BY <1>2, <2>1, <3>1 DEF Within, Lines
    <2>2. CASE s # v
      BY <1>2, <1>8, <2>2, BooksTables DEF Lines, Turns
    <2>. QED  BY <2>1, <2>2
  <1>. QED  BY <1>2, <1>9, <1>10, <1>11 DEF Turns

LEMMA ProcessOutputTurns ==
  ASSUME Inv, Inv', Names, Turns, NEW r \in Requests, ProcessOutput(r)
  PROVE  Turns'
  <1>1. PICK n, w, pl : Answers(r, n, w, pl)
    BY ProcessOutputIs
  <1>2. /\ Books /\ Lines /\ step = NoStep /\ step' = step /\ Answered(req[r], n)
        /\ w = AfterOutput(req[r], Head(req[r].flight), n)
    BY <1>1 DEF Answers, Inv
  <1>3. step'.want = 0 /\ (\A s \in Requests : step'.toks[s] = 0) /\ \A s \in Requests : step.toks[s] = 0
    BY <1>2, NoStepIs
  <1>4. /\ \A s \in Requests \ {r} : req'[s] = req[s] /\ numCached'[s] = numCached[s]
    <2>1. \E q, m : req' = [req EXCEPT ![r] = q] /\ numCached' = [numCached EXCEPT ![r] = m]
      BY <1>1 DEF Answers, Release
    <2>. QED  BY <1>2, <2>1, BooksTables DEF Lines
  <1>5. Within(req'[r], numCached'[r], 0)
    <2>1. CASE req' = [req EXCEPT ![r] = Finished(w)]
      <3>1. w \in [status : {"waiting", "running", "finished"}, tokens : Seq(Token),
                   seq : Seq(Token), computed : Int, placeholders : Int, spec : Nat,
                   flight : Seq(FlightType)]
        BY <1>2, <1>3, OutputCacheable
      <3>2. req'[r] = Finished(w) /\ Finished(w).status = "finished"
        BY <1>2, <2>1, <3>1 DEF Lines, Finished
      <3>. QED  BY <3>2 DEF Within
    <2>2. CASE /\ n = Head(req[r].flight).gen /\ req' = [req EXCEPT ![r] = w]
               /\ numCached' = [numCached EXCEPT ![r] = MaxOf(numCached[r], FullAfter(w, n))]
      <3>. DEFINE o == req[r]
                  full == FullAfter(w, n)
                  m == numCached[r]
      <3>1. req'[r] = w /\ numCached'[r] = MaxOf(m, full) /\ m \in Nat
        BY <1>2, <2>2, BooksTables DEF Lines
      <3>2. /\ o \in ReqType /\ Sound(o) /\ w \in ReqType /\ Sound(w) /\ Within(o, m, 0)
            /\ m * BlockSize <= Len(o.tokens)
        BY <1>2, <1>3, <3>1 DEF Lines, Turns, Inv, Names, Named
      <3>3. /\ w.status = o.status /\ w.computed <= o.computed
            /\ o.status = "running" => w.computed - w.placeholders = o.computed - o.placeholders + n
            /\ n \in Nat /\ Len(w.tokens) = Len(o.tokens) + n
        <4>1. PICK q : q = o
          OBVIOUS
        <4>2. q \in ReqType /\ Sound(q) /\ Answered(q, n) /\ w = AfterOutput(q, Head(q.flight), n)
          BY <1>2, <3>2, <4>1
        <4>3. /\ w.status = q.status /\ w.computed <= q.computed
              /\ q.status = "running" => w.computed - w.placeholders = q.computed - q.placeholders + n
              /\ Len(w.tokens) = Len(q.tokens) + n
          BY ONLY <4>2, AfterOutputIs
        <4>. QED  BY <4>1, <4>2, <4>3 DEF Answered
      <3>4. CASE w.status # "running"
        BY <3>1, <3>4 DEF Within
      <3>5. CASE w.status = "running"
        <4>1. /\ o.computed \in Nat /\ o.placeholders \in Nat /\ w.computed \in Nat
              /\ w.placeholders \in Nat /\ Len(o.tokens) \in Nat /\ MaxModelLen \in Nat
              /\ m * BlockSize \in Int
          <5>1. o.tokens \in Seq(Token)
            BY <3>2 DEF ReqType
          <5>2. m \in Int
            BY <3>1
          <5>3. m * BlockSize \in Int
            BY <5>2, Multiples
          <5>. QED  BY <3>2, <5>1, <5>3, LenProperties, Numbers DEF ReqType
        <4>2. m * BlockSize <= o.computed + 0 /\ o.computed + 0 <= MaxModelLen
          BY <3>2, <3>3, <3>5 DEF Within
        <4>3. m * BlockSize <= w.computed
          <5>1. CASE n = 0
            <6>1. w.computed = o.computed
              <7>1. Head(o.flight).gen = 0 /\ o.computed - 0 = o.computed
                BY <2>2, <4>1, <5>1
              <7>2. AfterOutput(o, Head(o.flight), n).computed = o.computed
                <8>. DEFINE f == Head(o.flight)
                            live == o.status = "running"
                            back == IF live /\ f.gen > 0 THEN f.spec - (f.gen - 1) ELSE 0
                            tk == SubSeq(o.seq, 1, Len(o.tokens) + n)
                            cm == o.computed - back
                            ph == IF live THEN o.placeholders - back - n ELSE o.placeholders
                <8>1. AfterOutput(o, f, n) =
                        [o EXCEPT !.tokens = tk, !.flight = Tail(o.flight), !.computed = cm,
                                  !.placeholders = ph]
                  BY <3>2 DEF AfterOutput, ReqType
                <8>2. cm = o.computed
                  BY <7>1
                <8>. HIDE DEF f, ph, tk, cm
                <8>3. AfterOutput(o, f, n).computed = cm
                  BY <3>2, <8>1 DEF ReqType
                <8>. QED  BY <8>2, <8>3 DEF f
              <7>. QED  BY <1>2, <7>2
            <6>. QED  BY <4>1, <4>2, <6>1
          <5>2. CASE n > 0
            <6>1. o.computed - o.placeholders = Len(o.tokens) - 1
              <7>1. Head(o.flight).gen > 0 /\ o.flight \in Seq(FlightType) /\ o.flight # <<>>
                BY <1>2, <2>2, <3>2, <5>2 DEF ReqType, Answered
              <7>2. /\ Head(o.flight) \in FlightType /\ Tail(o.flight) \in Seq(FlightType)
                    /\ Total(Weights(o.flight)) = Weight(Head(o.flight)) + Total(Weights(Tail(o.flight)))
                BY <7>1, FlightTail
              <7>3. Weight(Head(o.flight)) > 0 /\ Weight(Head(o.flight)) \in Nat
                BY <7>1, <7>2 DEF Weight, FlightType
              <7>4. Total(Weights(Tail(o.flight))) \in Nat
                BY <7>2, FlightSums
              <7>5. o.placeholders > 0
                BY <3>2, <3>3, <3>5, <7>2, <7>3, <7>4 DEF Sound
              <7>. QED  BY <3>2, <7>5 DEF Sound
            <6>2. w.computed - w.placeholders = Len(o.tokens) - 1 + n
              BY <3>3, <3>5, <6>1
            <6>3. Len(o.tokens) <= w.computed
              BY <3>3, <4>1, <5>2, <6>2
            <6>. QED  BY <3>2, <4>1, <6>3
          <5>. QED  BY <3>3, <5>1, <5>2
        <4>4. full \in Int /\ full * BlockSize <= w.computed
          <5>1. CASE n > 0
            <6>. DEFINE x == w.computed - w.placeholders
            <6>1. full = x \div BlockSize /\ x \in Int /\ x <= w.computed
              BY <3>5, <4>1, <5>1 DEF FullAfter
            <6>. HIDE DEF x, full
            <6>2. full \in Int /\ full * BlockSize <= x
              BY <6>1, Division
            <6>3. full * BlockSize \in Int
              BY <6>2, Multiples
            <6>. QED  BY <4>1, <6>1, <6>2, <6>3
          <5>2. CASE ~(n > 0)
            <6>1. full = 0 /\ 0 * BlockSize = 0
              BY <5>2, Numbers DEF FullAfter
            <6>. QED  BY <4>1, <6>1
          <5>. QED  BY <5>1, <5>2
        <4>. HIDE DEF full, m
        <4>5. MaxOf(m, full) * BlockSize <= w.computed
          BY <3>1, <4>3, <4>4 DEF MaxOf
        <4>6. w.computed + 0 = w.computed /\ w.computed <= MaxModelLen
          BY <3>3, <4>1, <4>2
        <4>. QED  BY <3>1, <4>5, <4>6 DEF Within
      <3>. QED  BY <3>4, <3>5
    <2>. QED  BY <1>1, <2>1, <2>2 DEF Answers
  <1>6. ASSUME NEW s \in Requests
        PROVE  Within(req'[s], numCached'[s], 0)
    <2>1. CASE s = r
      BY <1>5, <2>1
    <2>2. CASE s # r
      <3>1. Within(req[s], numCached[s], 0)
        BY <1>3 DEF Turns
      <3>. QED  BY <1>4, <2>2, <3>1
    <2>. QED  BY <2>1, <2>2
  <1>. QED  BY <1>3, <1>6, QuietTurns
-----------------------------------------------------------------------------
(* Names and turns in every behaviour *)

Sharing == Inv /\ Names /\ Turns

LEMMA InitSharing == Init => Sharing
  <1>. SUFFICES ASSUME Init
                PROVE  Sharing
    OBVIOUS
  <1>1. Inv
    BY InitInv
  <1>2. /\ \A r \in Requests : /\ tables[r] = <<>> /\ numCached[r] = 0
                               /\ req[r].tokens = Prompt[r] /\ req[r].status = "waiting"
        /\ running = <<>> /\ step = NoStep /\ \A b \in Blocks : pool.ref[b] = 0
    BY DEF Init
  <1>3. Names
    <2>1. Unshared(pool)
      BY <1>2 DEF Unshared
    <2>2. \A r \in Requests : Named(pool.hash, <<>>, Prompt[r], 0)
      BY Numbers, NoNames
    <2>. QED  BY <1>2, <2>1, <2>2 DEF Names
  <1>4. Turns
    <2>1. \A r \in Requests : Within(req[r], numCached[r], step.toks[r])
      BY <1>2 DEF Within
    <2>. QED  BY <1>2, <2>1, NoStepIs DEF Turns
  <1>. QED  BY <1>1, <1>3, <1>4 DEF Sharing

LEMMA SharingStep == Sharing /\ [Next]_vars => Sharing'
  <1>. SUFFICES ASSUME Inv, Names, Turns, [Next]_vars
                PROVE  Names' /\ Turns'
    BY InvStep DEF Sharing
  <1>. USE InvStep
  <1>1. CASE ScheduleRunning
    BY <1>1, ScheduleRunningNames, ScheduleRunningTurns
  <1>2. CASE SkipRunning
    <2>1. UNCHANGED <<pool, tables, numCached, req>>
      BY <1>2 DEF SkipRunning
    <2>2. Names'
      BY <2>1 DEF Names
    <2>. QED  BY <1>2, <2>2, SkipRunningTurns
  <1>3. CASE Preempt
    BY <1>3, PreemptNames, PreemptTurns
  <1>4. ASSUME NEW r \in Requests, AdmitWaiting(r)
        PROVE  Names' /\ Turns'
    BY <1>4, AdmitWaitingNames, AdmitWaitingTurns
  <1>5. ASSUME NEW r \in Requests, ProcessOutput(r)
        PROVE  Names' /\ Turns'
    BY <1>5, ProcessOutputNames, ProcessOutputTurns
  <1>6. ASSUME NEW r \in Requests, Abort(r)
        PROVE  Names' /\ Turns'
    BY <1>6, AbortNames, AbortTurns
  <1>7. CASE IssueBatch
    BY <1>7, IssueBatchNames, IssueBatchTurns
  <1>8. CASE DrainDeferredFree
    <2>1. UNCHANGED <<numCached, req, running, step>>
      BY <1>8 DEF DrainDeferredFree
    <2>2. Turns'
      BY <2>1 DEF Turns, Current
    <2>. QED  BY <1>8, <2>2, DrainNames
  <1>9. CASE ResetPreempt
    BY <1>9, ResetPreemptNames, ResetPreemptTurns
  <1>10. CASE ResetPrefixCache
    BY <1>10, ResetPrefixCacheNames, ResetPrefixCacheTurns
  <1>11. CASE UNCHANGED vars
    <2>1. UNCHANGED <<pool, tables, numCached, req, running, step>>
      BY <1>11 DEF vars
    <2>. QED  BY <2>1 DEF Names, Turns, Current
  <1>. QED  BY <1>1, <1>2, <1>3, <1>4, <1>5, <1>6, <1>7, <1>8, <1>9, <1>10, <1>11 DEF Next

(* Hashes and turns, in every behaviour: the first num_cached_block blocks *)
(* of every table carry the hashes of the request's own tokens and the     *)
(* others none, a block without a hash has a single reference, and the     *)
(* requests after schedule()'s cursor have nothing in the batch.           *)
THEOREM SharingHolds == Spec => []Sharing
  <1>. QED  BY InitSharing, SharingStep, PTL DEF Spec

(* Without tokens in flight there are no placeholders. *)
LEMMA NothingInFlight ==
  ASSUME NEW flight \in Seq(FlightType), Total(Gens(flight)) = 0
  PROVE  Total(Weights(flight)) = 0
  <1>. DEFINE n == Len(flight)
              g == Gens(flight)
              w == Weights(flight)
  <1>1. /\ n \in Nat /\ g \in [1..n -> Nat] /\ w \in [1..n -> Nat]
        /\ \A i \in 1..n : g[i] = flight[i].gen /\ w[i] = Weight(flight[i])
    BY FlightSums DEF Gens, Weights
  <1>2. IsFiniteSet(1..n)
    BY <1>1, FS_Interval
  <1>. HIDE DEF n, g, w
  <1>3. Units(g) = {}
    <2>1. IsFiniteSet(Units(g)) /\ Cardinality(Units(g)) = 0
      BY <1>1, <1>2, UnitsFinite DEF Total, g
    <2>. QED  BY <2>1, FS_EmptySet
  <1>4. ASSUME NEW i \in 1..n
        PROVE  g[i] = 0
    <2>1. g[i] \in Nat
      BY <1>1
    <2>2. CASE g[i] # 0
      <3>1. 1 \in 1..g[i] /\ i \in DOMAIN g
        BY <1>1, <2>1, <2>2
      <3>2. <<i, 1>> \in Units(g)
        BY <3>1 DEF Units
      <3>. QED  BY <1>3, <3>2
    <2>. QED  BY <2>2
  <1>5. ASSUME NEW i \in 1..n
        PROVE  w[i] = 0
    <2>1. flight[i].gen = 0 /\ w[i] = Weight(flight[i])
      BY <1>1, <1>4
    <2>2. PICK f : f = flight[i]
      OBVIOUS
    <2>3. Weight(f) = 0
      BY <2>1, <2>2 DEF Weight
    <2>. QED  BY <2>1, <2>2, <2>3
  <1>6. Units(w) = {}
    <2>1. DOMAIN w = 1..n /\ \A i \in 1..n : 1..w[i] = {}
      BY <1>1, <1>5
    <2>. QED  BY <2>1 DEF Units
  <1>. QED  BY <1>6, FS_EmptySet DEF Total, w

(* What a running request has computed of its known tokens will not be     *)
(* written again.                                                          *)
LEMMA KnownWritten ==
  ASSUME NEW q \in ReqType, Sound(q), q.status = "running", NEW x \in Int,
         x <= q.computed, x <= Len(q.tokens)
  PROVE  x <= MinOf(q.computed, Len(q.seq) - 1)
  <1>. DEFINE n == Len(q.tokens)
              l == Len(q.seq)
              g == Total(Gens(q.flight))
              c == q.computed
              p == q.placeholders
  <1>1. n \in Nat /\ l \in Nat /\ c \in Nat /\ p \in Nat /\ q.flight \in Seq(FlightType)
    BY LenProperties DEF ReqType
  <1>2. g \in Nat
    BY <1>1, FlightSums
  <1>3. l = n + g /\ c - p <= n - 1 /\ p = Total(Weights(q.flight))
    BY DEF Sound
  <1>4. g = 0 => p = 0
    BY <1>1, <1>3, NothingInFlight
  <1>. HIDE DEF n, l, g, c, p
  <1>5. x <= l - 1
    BY <1>1, <1>2, <1>3, <1>4 DEF n, c
  <1>. QED  BY <1>1, <1>5 DEF MinOf, l, c

(* A quotient is not short of a whole block. *)
LEMMA DivisionAbove ==
  ASSUME NEW a \in Nat, NEW i \in Int, i >= a \div BlockSize + 1
  PROVE  i * BlockSize > a
  <1>. DEFINE B == BlockSize
              d == a \div B
  <1>1. B \in Nat \ {0}
    BY Numbers
  <1>. HIDE DEF B
  <1>2. d \in Int /\ d * B + B > a
    BY <1>1, SMT
  <1>3. (d + 1) * B = d * B + B /\ d * B \in Int
    BY <1>1, <1>2
  <1>. HIDE DEF d
  <1>4. d + 1 \in Int /\ d + 1 <= i
    BY <1>2 DEF d, B
  <1>5. (d + 1) * B <= i * B /\ i * B \in Int
    BY <1>4, Multiples DEF B
  <1>6. i * B > a
    BY <1>1, <1>2, <1>3, <1>5
  <1>. QED  BY <1>6 DEF B

(* A block that a request still writes has no other holder and no hash:    *)
(* for any pool, policy and depth of batches.                              *)
THEOREM WritesOwn == Spec => []WritesOwnBlocks
  <1>1. Sharing => WritesOwnBlocks
    <2>. SUFFICES ASSUME Inv, Names, Turns, Idle, NEW r \in ToSet(running),
                         NEW i \in WriteFrom(r) \div BlockSize + 1 .. Len(tables[r])
                  PROVE  pool.ref[tables[r][i]] = 1 /\ pool.hash[tables[r][i]] = NoHash
      BY DEF Sharing, WritesOwnBlocks
    <2>. DEFINE q == req[r]
                m == numCached[r]
                b == tables[r][i]
                x == WriteFrom(r)
    <2>1. Books /\ Lines
      BY DEF Inv
    <2>2. r \in Requests /\ q.status = "running"
      BY <2>1, RunningIs DEF RunningOf
    <2>3. /\ q \in ReqType /\ Sound(q) /\ Within(q, m, 0) /\ tables[r] \in Seq(Blocks)
          /\ Named(pool.hash, tables[r], q.tokens, m)
      BY <2>1, <2>2, NoStepIs, BooksTables DEF Lines, Idle, Turns, Names
    <2>4. /\ m \in Nat /\ m * BlockSize <= Len(q.tokens) /\ m * BlockSize <= q.computed
          /\ m * BlockSize \in Int
      <3>1. q.computed + 0 = q.computed /\ m \in Nat
        BY <2>3 DEF ReqType, Named
      <3>2. m \in Int
        BY <3>1
      <3>3. m * BlockSize \in Int
        BY <3>2, Multiples
      <3>. QED  BY <2>2, <2>3, <3>1, <3>3 DEF Within, Named
    <2>5. m * BlockSize <= x /\ x \in Nat
      <3>. DEFINE l == Len(q.seq)
                  c == q.computed
      <3>1. c \in Nat /\ l \in Nat /\ l >= 1
        <4>1. q.flight \in Seq(FlightType) /\ Len(q.tokens) \in 1..MaxModelLen /\ MaxModelLen \in Nat
              /\ l = Len(q.tokens) + Total(Gens(q.flight)) /\ c \in Nat
          BY <2>3, Numbers DEF ReqType, Sound
        <4>2. Total(Gens(q.flight)) \in Nat
          BY <4>1, FlightSums
        <4>. HIDE DEF l
        <4>. QED  BY <4>1, <4>2
      <3>2. x = MinOf(c, l - 1)
        BY DEF WriteFrom
      <3>3. m * BlockSize <= x
        BY <2>2, <2>3, <2>4, <3>2, KnownWritten
      <3>. HIDE DEF l, c, x
      <3>. QED  BY <3>1, <3>2, <3>3 DEF MinOf
    <2>6. Len(tables[r]) \in Nat /\ DOMAIN tables[r] = 1..Len(tables[r])
      BY <2>3, LenProperties
    <2>. HIDE DEF x
    <2>7. i \in Int /\ i >= x \div BlockSize + 1 /\ i <= Len(tables[r])
      BY <2>5, <2>6, Division DEF x
    <2>8. i * BlockSize > x /\ i * BlockSize \in Int
      BY <2>5, <2>7, DivisionAbove, Multiples
    <2>9. i > m
      <3>1. CASE i <= m
        <4>1. m \in Int
          BY <2>4
        <4>2. i * BlockSize <= m * BlockSize
          BY <2>7, <3>1, <4>1, Multiples
        <4>. QED  BY <2>4, <2>5, <2>8, <4>2
      <3>. QED  BY <2>4, <2>7, <3>1
    <2>10. i \in 1..Len(tables[r])
      BY <2>4, <2>6, <2>7, <2>9
    <2>11. b \in Blocks /\ b \in ToSet(tables[r]) /\ pool.hash[b] = NoHash
      <3>1. ~(i <= m)
        BY <2>4, <2>7, <2>9
      <3>. QED  BY <2>3, <2>6, <2>10, <3>1, ElementOfSeq DEF Named, ToSet
    <2>12. pool.ref[b] <= 1 /\ pool.ref[b] \in Nat
      BY <2>1, <2>11, BooksTables DEF Names, Unshared, PoolType
    <2>13. pool.ref[b] > 0
      BY <2>1, <2>2, <2>11, HeldReferenced DEF Books
    <2>. QED  BY <2>11, <2>12, <2>13
  <1>. QED  BY <1>1, SharingHolds, PTL

(* The assertion of cache_full_blocks never fails: no block past           *)
(* num_cached_block has a hash, at any moment of any schedule.             *)
THEOREM CachesOnce == Spec => []CachedOnce
  <1>1. Sharing => CachedOnce
    <2>. SUFFICES ASSUME Names, NEW r \in Requests, NEW i \in 1..Len(tables[r]), i > numCached[r]
                  PROVE  pool.hash[tables[r][i]] = NoHash
      BY DEF Sharing, CachedOnce
    <2>1. Named(pool.hash, tables[r], req[r].tokens, numCached[r])
      BY DEF Names
    <2>2. numCached[r] \in Nat /\ i \in Int
      BY <2>1 DEF Named
    <2>3. ~(i <= numCached[r])
      BY <2>2
    <2>. QED  BY <2>1, <2>3 DEF Named
  <1>. QED  BY <1>1, SharingHolds, PTL
-----------------------------------------------------------------------------
(* What the blocks hold, under the FCFS policy *)

(* Where the workers go on writing *)
From(q) == MinOf(q.computed, Len(q.seq) - 1)

(* The batch being scheduled will write a block cached ahead of it. *)
PendingIn(tab, num, rq, tk, b) ==
  \E r \in Requests : tk[r] > 0 /\ \E i \in 1..num[r] : tab[r][i] = b /\ i * BlockSize > From(rq[r])

(* A block with a hash holds what the hash stands for, or will once the    *)
(* batch is written; a block without one holds its request's own tokens,   *)
(* as far as they are computed.                                            *)
FilledOf(g, tab, num, rq, tk, ct) ==
  /\ \A b \in Blocks : g[b] # NoHash => ct[b] = g[b] \/ PendingIn(tab, num, rq, tk, b)
  /\ \A r \in Requests : \A i \in 1..Len(tab[r]) :
       i * BlockSize <= From(rq[r]) /\ g[tab[r][i]] = NoHash => ct[tab[r][i]] = BlockHash(rq[r].seq, i)

Filled == FilledOf(pool.hash, tables, numCached, req, step.toks, content)

(* A request that is not in the batch gives up its table. *)
LEMMA LeaveFilled ==
  ASSUME NEW g, NEW tab, NEW num, NEW rq, NEW tk, NEW ct, FilledOf(g, tab, num, rq, tk, ct),
         NEW v \in Requests, tk[v] = 0, NEW tab2, NEW num2, NEW rq2, NEW tk2, tab2[v] = <<>>,
         \A s \in Requests \ {v} : /\ tab2[s] = tab[s] /\ num2[s] = num[s]
                                   /\ rq2[s] = rq[s] /\ tk2[s] = tk[s]
  PROVE  FilledOf(g, tab2, num2, rq2, tk2, ct)
  <1>1. ASSUME NEW b \in Blocks, g[b] # NoHash
        PROVE  ct[b] = g[b] \/ PendingIn(tab2, num2, rq2, tk2, b)
    <2>1. CASE ct[b] = g[b]
      BY <2>1
    <2>2. CASE PendingIn(tab, num, rq, tk, b)
      <3>1. PICK s \in Requests :
              tk[s] > 0 /\ \E i \in 1..num[s] : tab[s][i] = b /\ i * BlockSize > From(rq[s])
        BY <2>2 DEF PendingIn
      <3>2. s # v
        BY <3>1
      <3>. QED  BY <3>1, <3>2 DEF PendingIn
    <2>. QED  BY <1>1, <2>1, <2>2 DEF FilledOf
  <1>2. ASSUME NEW s \in Requests, NEW i \in 1..Len(tab2[s]), i * BlockSize <= From(rq2[s]),
               g[tab2[s][i]] = NoHash
        PROVE  ct[tab2[s][i]] = BlockHash(rq2[s].seq, i)
    <2>1. CASE s = v
      <3>1. Len(<<>>) = 0 /\ 1..0 = {}
        OBVIOUS
      <3>. QED  BY <1>2, <2>1, <3>1
    <2>2. CASE s # v
      BY <1>2, <2>2 DEF FilledOf
    <2>. QED  BY <2>1, <2>2
  <1>. QED  BY <1>1, <1>2 DEF FilledOf

(* free, or pop_blocks_for_free, leaves the hashes. *)
LEMMA ReleaseHash ==
  ASSUME pool \in PoolType, NEW r, NEW flight, Release(pool, r, flight)
  PROVE  pool'.hash = pool.hash
  <1>1. pool' = pool \/ pool' = FreeBlocks(pool, Reverse(tables[r]))
    BY DEF Release, Released
  <1>2. PICK bs : bs = Reverse(tables[r])
    OBVIOUS
  <1>3. FreeBlocks(pool, bs).hash = pool.hash
    BY FreeBlocksLess
  <1>. QED  BY <1>1, <1>2, <1>3

LEMMA AbortFilled ==
  ASSUME Inv, Filled, NEW r \in Requests, Abort(r)
  PROVE  Filled'
  <1>1. /\ Books /\ Lines /\ step = NoStep /\ step' = step /\ content' = content
        /\ req' = [req EXCEPT ![r] = Finished(req[r])] /\ Release(pool, r, req[r].flight)
    BY DEF Inv, Abort, Idle
  <1>2. pool'.hash = pool.hash
    BY <1>1, ReleaseHash, BooksTables
  <1>3. /\ tables'[r] = <<>> /\ step.toks[r] = 0
        /\ \A s \in Requests \ {r} : /\ tables'[s] = tables[s] /\ numCached'[s] = numCached[s]
                                     /\ req'[s] = req[s] /\ step'.toks[s] = step.toks[s]
    BY <1>1, BooksTables, NoStepIs DEF Release, Lines
  <1>4. FilledOf(pool.hash, tables', numCached', req', step'.toks, content)
    BY <1>3, LeaveFilled DEF Filled
  <1>. QED  BY <1>1, <1>2, <1>4 DEF Filled

LEMMA DrainFilled ==
  ASSUME Inv, Filled, DrainDeferredFree
  PROVE  Filled'
  <1>1. /\ pool \in PoolType /\ pool' = FreeBlocks(pool, Reverse(Head(deferred)))
        /\ UNCHANGED <<tables, numCached, req, step, content>>
    BY BooksTables DEF Inv, DrainDeferredFree
  <1>2. PICK bs : bs = Reverse(Head(deferred))
    OBVIOUS
  <1>3. FreeBlocks(pool, bs).hash = pool.hash
    BY <1>1, FreeBlocksLess
  <1>4. pool'.hash = pool.hash
    BY <1>1, <1>2, <1>3
  <1>. QED  BY <1>1, <1>4 DEF Filled

LEMMA ResetPreemptFilled ==
  ASSUME Inv, Turns, Filled, ResetPreempt
  PROVE  Filled'
  <1>. DEFINE r == Last(running)
  <1>1. /\ Books /\ Lines /\ running # <<>> /\ step' = [NoStep EXCEPT !.resetting = TRUE]
        /\ req' = [req EXCEPT ![r] = Preempted(req[r], TRUE)] /\ Release(pool, r, req[r].flight)
        /\ (Idle \/ step.resetting) /\ content' = content
    BY DEF Inv, ResetPreempt
  <1>2. r \in Requests
    BY <1>1, LastRuns
  <1>. HIDE DEF r
  <1>3. \A s \in Requests : step.toks[s] = 0
    BY <1>1, NoStepIs DEF Turns, Idle
  <1>4. \A s \in Requests : step'.toks[s] = 0
    BY <1>1 DEF NoStep
  <1>5. pool'.hash = pool.hash
    BY <1>1, ReleaseHash, BooksTables
  <1>6. /\ tables'[r] = <<>> /\ step.toks[r] = 0
        /\ \A s \in Requests \ {r} : /\ tables'[s] = tables[s] /\ numCached'[s] = numCached[s]
                                     /\ req'[s] = req[s] /\ step'.toks[s] = step.toks[s]
    BY <1>1, <1>2, <1>3, <1>4, BooksTables DEF Release, Lines
  <1>7. FilledOf(pool.hash, tables', numCached', req', step'.toks, content)
    BY <1>2, <1>6, LeaveFilled DEF Filled
  <1>. QED  BY <1>1, <1>5, <1>7 DEF Filled

(* The victim is the last of the running requests, which is behind the     *)
(* cursor: nothing of it is in the batch.                                  *)
LEMMA PreemptFilled ==
  ASSUME ~Priority, Inv, Turns, Filled, Preempt
  PROVE  Filled'
  <1>1. PICK v, p, n : Preempts(v, p, n)
    BY PreemptIs
  <1>2. /\ Books /\ Lines /\ InRunningLoop /\ v \in Requests /\ v = Victim
        /\ req' = [req EXCEPT ![v] = Preempted(req[v], FALSE)] /\ Release(pool, v, req[v].flight)
        /\ step'.toks = [step.toks EXCEPT ![v] = 0] /\ content' = content
    BY <1>1 DEF Inv, Preempts
  <1>3. step.toks[v] = 0
    <2>1. /\ Len(running) \in Nat /\ DOMAIN running = 1..Len(running) /\ step.cursor \in Nat
          /\ step.cursor < Len(running)
      BY <1>2, RunningIs DEF InRunningLoop, Lines, StepType
    <2>2. v = running[Len(running)] /\ Len(running) \in DOMAIN running
      BY <1>2, <2>1 DEF Victim, Last
    <2>. QED  BY <2>1, <2>2 DEF Turns
  <1>4. pool'.hash = pool.hash
    BY <1>2, ReleaseHash, BooksTables
  <1>5. /\ tables'[v] = <<>>
        /\ \A s \in Requests \ {v} : /\ tables'[s] = tables[s] /\ numCached'[s] = numCached[s]
                                     /\ req'[s] = req[s] /\ step'.toks[s] = step.toks[s]
    BY <1>2, BooksTables DEF Release, Lines, StepType
  <1>6. v \in Requests
    BY <1>2
  <1>7. FilledOf(pool.hash, tables', numCached', req', step'.toks, content)
    BY <1>3, <1>5, <1>6, LeaveFilled DEF Filled
  <1>. QED  BY <1>2, <1>4, <1>7 DEF Filled

LEMMA ResetPrefixCacheFilled ==
  ASSUME Inv, Turns, Filled, ResetPrefixCache
  PROVE  Filled'
  <1>1. /\ Books /\ Lines /\ running = <<>> /\ pool' = ResetCache(pool) /\ step' = NoStep
        /\ UNCHANGED <<tables, numCached, req, content>>
    BY DEF Inv, ResetPrefixCache
  <1>2. \A r \in Requests : tables[r] = <<>> /\ step.toks[r] = 0
    <2>1. RunningOf(req) = {}
      BY <1>1, RunningIs DEF ToSet
    <2>. QED  BY <1>1, <2>1 DEF RunningOf, Lines, Placed
  <1>3. \A b \in Blocks : pool'.hash[b] # NoHash => pool'.hash[b] = pool.hash[b]
    BY <1>1, BooksTables DEF ResetCache, PoolType
  <1>4. ASSUME NEW b \in Blocks, pool'.hash[b] # NoHash
        PROVE  content'[b] = pool'.hash[b]
    <2>1. ~PendingIn(tables, numCached, req, step.toks, b)
      BY <1>2 DEF PendingIn
    <2>. QED  BY <1>1, <1>3, <1>4, <2>1 DEF Filled, FilledOf
  <1>5. \A r \in Requests : 1..Len(tables'[r]) = {}
    <2>1. Len(<<>>) = 0 /\ 1..0 = {}
      OBVIOUS
    <2>. QED  BY <1>1, <1>2, <2>1
  <1>. QED  BY <1>4, <1>5 DEF Filled, FilledOf

(* Where a request writes on is a position of its tokens. *)
LEMMA FromIs ==
  ASSUME NEW q \in ReqType, Sound(q)
  PROVE  /\ From(q) \in Nat /\ From(q) <= q.computed /\ From(q) <= Len(q.seq) - 1
         /\ Len(q.seq) \in Nat /\ Len(q.tokens) \in Nat /\ Len(q.tokens) <= Len(q.seq)
         /\ q.computed \in Nat
  <1>. DEFINE n == Len(q.tokens)
              l == Len(q.seq)
              g == Total(Gens(q.flight))
  <1>1. n \in Nat /\ l \in Nat /\ q.computed \in Nat /\ q.flight \in Seq(FlightType)
    BY LenProperties DEF ReqType
  <1>2. g \in Nat
    BY <1>1, FlightSums
  <1>3. l = n + g /\ n >= 1
    BY Numbers DEF Sound
  <1>. HIDE DEF n, l, g
  <1>4. n <= l /\ l >= 1
    BY <1>1, <1>2, <1>3
  <1>5. From(q) \in Nat /\ From(q) <= q.computed /\ From(q) <= l - 1
    BY <1>1, <1>4 DEF From, MinOf, l
  <1>. QED  BY <1>1, <1>4, <1>5 DEF n, l

(* The tokens of a request and those the workers hold give the same names. *)
LEMMA SeqBlockHash ==
  ASSUME NEW q \in ReqType, Sound(q), NEW i \in Nat \ {0}, i * BlockSize <= Len(q.tokens)
  PROVE  BlockHash(q.tokens, i) = BlockHash(q.seq, i)
  <1>1. /\ Len(q.seq) \in Nat /\ Len(q.tokens) \in Nat /\ Len(q.tokens) <= Len(q.seq)
        /\ q.tokens \in Seq(Token) /\ q.seq \in Seq(Token)
        /\ \A j \in 1..Len(q.tokens) : q.seq[j] = q.tokens[j]
    BY FromIs DEF ReqType, Sound
  <1>. DEFINE k == i * BlockSize
  <1>2. k \in Nat /\ k <= Len(q.tokens)
    BY Multiples
  <1>. HIDE DEF k
  <1>3. k <= Len(q.seq) /\ \A j \in 1..k : q.tokens[j] = q.seq[j]
    BY <1>1, <1>2
  <1>. QED  BY <1>1, <1>3, SameBlockHash DEF k

(* What is computed is in the table. *)
LEMMA ComputedPlaced ==
  ASSUME NEW q \in ReqType, Sound(q), q.status = "running", NEW table, Len(table) \in Nat,
         NEW k \in Nat, Placed(q, table, k), q.computed + k <= MaxModelLen, NEW i \in Int,
         i * BlockSize <= q.computed + k
  PROVE  i <= Len(table)
  <1>1. q.computed \in Nat /\ MaxModelLen \in Nat /\ Len(table) \in Int /\ i * BlockSize \in Int
    BY Numbers, Multiples DEF ReqType
  <1>2. Len(table) * BlockSize \in Int
    BY <1>1, Multiples
  <1>3. q.computed + k <= Len(table) * BlockSize
    BY <1>1, <1>2 DEF Placed, MinOf
  <1>4. i * BlockSize <= Len(table) * BlockSize
    BY <1>1, <1>2, <1>3
  <1>. QED  BY <1>1, <1>4, Multiples

(* A request r is given blocks. Of the blocks that get their names, those  *)
(* before the position from which it writes hold its tokens, those after   *)
(* will be written.                                                        *)
LEMMA MoreFilled ==
  ASSUME Books', Filled, NEW r \in Requests, content' = content, step.toks[r] = 0,
         step'.toks[r] > 0,
         \A s \in Requests \ {r} : /\ tables'[s] = tables[s] /\ numCached'[s] = numCached[s]
                                   /\ req'[s] = req[s] /\ step'.toks[s] = step.toks[s]
                                   /\ \A b \in ToSet(tables[s]) : pool'.hash[b] = pool.hash[b],
         \A b \in Blocks : pool'.hash[b] # NoHash =>
           \/ pool'.hash[b] = pool.hash[b]
           \/ \E i \in 1..numCached'[r] :
                /\ tables'[r][i] = b
                /\ i * BlockSize <= From(req'[r]) => content[b] = pool'.hash[b],
         \A i \in 1..Len(tables'[r]) :
           i * BlockSize <= From(req'[r]) /\ pool'.hash[tables'[r][i]] = NoHash
             => content[tables'[r][i]] = BlockHash(req'[r].seq, i),
         From(req'[r]) \in Nat
  PROVE  Filled'
  <1>1. ASSUME NEW b \in Blocks, pool'.hash[b] # NoHash
        PROVE  content[b] = pool'.hash[b] \/ PendingIn(tables', numCached', req', step'.toks, b)
    <2>1. CASE pool'.hash[b] = pool.hash[b]
      <3>1. CASE content[b] = pool.hash[b]
        BY <2>1, <3>1
      <3>2. CASE PendingIn(tables, numCached, req, step.toks, b)
        <4>1. PICK s \in Requests :
                /\ step.toks[s] > 0
                /\ \E i \in 1..numCached[s] : tables[s][i] = b /\ i * BlockSize > From(req[s])
          BY <3>2 DEF PendingIn
        <4>2. s # r
          BY <4>1
        <4>3. PICK i \in 1..numCached[s] : tables[s][i] = b /\ i * BlockSize > From(req[s])
          BY <4>1
        <4>4. /\ step'.toks[s] > 0 /\ i \in 1..numCached'[s] /\ tables'[s][i] = b
              /\ i * BlockSize > From(req'[s])
          BY <4>1, <4>2, <4>3
        <4>. QED  BY <4>4 DEF PendingIn
      <3>. QED  BY <1>1, <2>1, <3>1, <3>2 DEF Filled, FilledOf
    <2>2. CASE \E i \in 1..numCached'[r] :
                 /\ tables'[r][i] = b
                 /\ i * BlockSize <= From(req'[r]) => content[b] = pool'.hash[b]
      <3>1. PICK i \in 1..numCached'[r] :
              /\ tables'[r][i] = b
              /\ i * BlockSize <= From(req'[r]) => content[b] = pool'.hash[b]
        BY <2>2
      <3>2. i * BlockSize \in Int
        <4>1. numCached'[r] \in Nat
          BY DEF Books, BooksOf
        <4>2. i \in Int
          BY <4>1
        <4>. QED  BY <4>2, Multiples
      <3>3. CASE i * BlockSize <= From(req'[r])
        BY <3>1, <3>3
      <3>4. CASE i * BlockSize > From(req'[r])
        BY <3>1, <3>4 DEF PendingIn
      <3>. QED  BY <3>2, <3>3, <3>4
    <2>. QED  BY <1>1, <2>1, <2>2
  <1>2. ASSUME NEW s \in Requests, NEW i \in 1..Len(tables'[s]), i * BlockSize <= From(req'[s]),
               pool'.hash[tables'[s][i]] = NoHash
        PROVE  content[tables'[s][i]] = BlockHash(req'[s].seq, i)
    <2>1. CASE s = r
      BY <1>2, <2>1
    <2>2. CASE s # r
      <3>1. tables'[s] = tables[s] /\ req'[s] = req[s] /\ i \in 1..Len(tables[s])
        BY <1>2, <2>2
      <3>2. tables[s][i] \in ToSet(tables[s])
        <4>1. tables'[s] \in Seq(Blocks)
          BY DEF Books, BooksOf
        <4>. QED  BY <3>1, <4>1, LenProperties DEF ToSet
      <3>3. pool.hash[tables[s][i]] = NoHash
        BY <1>2, <2>2, <3>1, <3>2
      <3>. QED  BY <1>2, <3>1, <3>3 DEF Filled, FilledOf
    <2>. QED  BY <2>1, <2>2
  <1>. QED  BY <1>1, <1>2 DEF Filled, FilledOf

LEMMA ScheduleRunningFilled ==
  ASSUME Inv, Inv', Names, Names', Turns, Filled, ScheduleRunning
  PROVE  Filled'
  <1>1. PICK r, n : Runs(r, n)
    BY ScheduleRunningIs
  <1>2. /\ Books /\ Books' /\ Lines /\ r \in Requests /\ r = Current /\ n \in Nat \ {0}
        /\ InRunningLoop /\ req' = req /\ content' = content /\ step'.toks[r] = n
        /\ (\A s \in Requests \ {r} : step'.toks[s] = step.toks[s])
        /\ AllocationInput(r, <<>>, {}, req[r].computed, n) /\ req[r].status = "running"
        /\ AllocateSlots(r, <<>>, req[r].computed, n)
    BY <1>1 DEF Inv, Runs
  <1>. DEFINE q == req[r]
              m == numCached[r]
  <1>3. step.toks[r] = 0
    <2>1. step.cursor + 1 \in DOMAIN running /\ step.cursor \in Nat
      BY <1>2, CurrentIs DEF Lines, StepType
    <2>2. step.cursor + 1 > step.cursor
      BY <2>1
    <2>. QED  BY <1>2, <2>1, <2>2 DEF Current, Turns
  <1>4. /\ \A s \in Requests \ {r} : /\ tables'[s] = tables[s] /\ numCached'[s] = numCached[s]
                                     /\ \A b \in ToSet(tables[s]) : pool'.hash[b] = pool.hash[b]
        /\ \A i \in 1..Len(tables[r]) : tables'[r][i] = tables[r][i]
        /\ \A b \in ToSet(tables[r]) : pool'.hash[b] = NoHash => pool.hash[b] = NoHash
        /\ \A b \in Blocks : pool'.hash[b] # NoHash =>
             \/ pool'.hash[b] = pool.hash[b]
             \/ \E i \in numCached[r] + 1 .. numCached'[r] : i > Len(<<>>) /\ tables'[r][i] = b
    <2>1. /\ <<>> = <<>> /\ Len(<<>>) * BlockSize <= Len(req[r].tokens)
          /\ \A i \in 1..Len(<<>>) : pool.hash[<<>>[i]] = BlockHash(req[r].tokens, i)
      <3>1. 0 * BlockSize = 0 /\ Len(req[r].tokens) \in Nat /\ Len(<<>>) = 0 /\ 1..0 = {}
        BY <1>2, Numbers, LenProperties DEF AllocationInput
      <3>. QED  BY <3>1
    <2>. QED  BY <1>2, <2>1, AllocateNames
  <1>5. /\ q \in ReqType /\ Sound(q) /\ Placed(q, tables[r], 0) /\ Within(q, m, 0)
        /\ tables[r] \in Seq(Blocks) /\ Len(tables[r]) \in Nat /\ DOMAIN tables[r] = 1..Len(tables[r])
        /\ Named(pool.hash, tables[r], q.tokens, m) /\ m \in Nat /\ numCached'[r] \in Nat
    <2>1. q \in ReqType /\ Sound(q) /\ Placed(q, tables[r], 0) /\ Within(q, m, 0)
          /\ tables[r] \in Seq(Blocks) /\ Named(pool.hash, tables[r], q.tokens, m) /\ m \in Nat
          /\ numCached'[r] \in Nat
      BY <1>2, <1>3, BooksTables DEF Lines, Turns, Names, Books, BooksOf
    <2>. QED  BY <2>1, LenProperties
  <1>6. /\ From(q) \in Nat /\ From(q) <= q.computed /\ q.computed \in Nat /\ From(q) <= Len(q.seq) - 1
        /\ Len(q.tokens) \in Nat /\ Len(q.seq) \in Nat
    BY <1>5, FromIs
  <1>. HIDE DEF q, m
  <1>7. ASSUME NEW i \in Nat \ {0}, i * BlockSize <= From(q)
        PROVE  i \in 1..Len(tables[r])
    <2>1. i \in Int /\ i * BlockSize \in Int
      BY Multiples
    <2>2. q.computed + 0 <= MaxModelLen /\ q.status = "running" /\ i * BlockSize <= q.computed + 0
      BY <1>2, <1>5, <1>6, <1>7, <2>1 DEF Within, q
    <2>3. i <= Len(tables[r])
      BY <1>5, <2>1, <2>2, ComputedPlaced
    <2>. QED  BY <1>5, <2>3
  <1>8. ASSUME NEW b \in Blocks, NEW i \in numCached[r] + 1 .. numCached'[r], tables'[r][i] = b,
               i * BlockSize <= From(q)
        PROVE  content[b] = pool'.hash[b]
    <2>1. i \in Nat \ {0} /\ ~(i <= m) /\ i <= numCached'[r]
      BY <1>5 DEF m
    <2>2. i \in 1..Len(tables[r])
      BY <1>7, <1>8, <2>1
    <2>3. tables[r][i] = b /\ pool.hash[b] = NoHash
      BY <1>4, <1>5, <1>8, <2>1, <2>2 DEF Named
    <2>4. content[b] = BlockHash(q.seq, i)
      BY <1>2, <1>8, <2>2, <2>3 DEF Filled, FilledOf, q
    <2>5. pool'.hash[b] = BlockHash(q.tokens, i) /\ i * BlockSize <= Len(q.tokens)
      <3>1. Named(pool'.hash, tables'[r], q.tokens, numCached'[r])
        BY <1>2 DEF Names, q
      <3>2. numCached'[r] <= Len(tables'[r]) /\ numCached'[r] * BlockSize <= Len(q.tokens)
            /\ Len(tables'[r]) \in Nat
        BY <1>2, <3>1, LenProperties DEF Named, Books, BooksOf
      <3>3. i \in 1..Len(tables'[r]) /\ i \in Int /\ numCached'[r] \in Int
        BY <1>5, <2>1, <3>2
      <3>4. i * BlockSize <= numCached'[r] * BlockSize /\ i * BlockSize \in Int
            /\ numCached'[r] * BlockSize \in Int
        BY <2>1, <3>3, Multiples
      <3>5. i * BlockSize <= Len(q.tokens)
        BY <1>6, <3>2, <3>4
      <3>6. pool'.hash[tables'[r][i]] = BlockHash(q.tokens, i)
        BY <2>1, <3>1, <3>3 DEF Named
      <3>. QED  BY <1>8, <3>5, <3>6
    <2>. QED  BY <1>5, <2>1, <2>4, <2>5, SeqBlockHash
  <1>9. ASSUME NEW b \in Blocks, pool'.hash[b] # NoHash
        PROVE  \/ pool'.hash[b] = pool.hash[b]
               \/ \E i \in 1..numCached'[r] :
                    /\ tables'[r][i] = b
                    /\ i * BlockSize <= From(req'[r]) => content[b] = pool'.hash[b]
    <2>1. CASE \E i \in numCached[r] + 1 .. numCached'[r] : tables'[r][i] = b
      <3>1. PICK i \in numCached[r] + 1 .. numCached'[r] : tables'[r][i] = b
        BY <2>1
      <3>2. i \in 1..numCached'[r]
        BY <1>5 DEF m
      <3>3. i * BlockSize <= From(req'[r]) => content[b] = pool'.hash[b]
        BY <1>2, <1>8, <3>1 DEF q
      <3>. QED  BY <3>1, <3>2, <3>3
    <2>. QED  BY <1>4, <1>9, <2>1
  <1>10. ASSUME NEW i \in 1..Len(tables'[r]), i * BlockSize <= From(req'[r]),
                pool'.hash[tables'[r][i]] = NoHash
         PROVE  content[tables'[r][i]] = BlockHash(req'[r].seq, i)
    <2>1. Len(tables'[r]) \in Nat
      BY <1>2, LenProperties DEF Books, BooksOf
    <2>2. i \in Nat \ {0}
      BY <2>1
    <2>3. i \in 1..Len(tables[r])
      BY <1>2, <1>7, <1>10, <2>2 DEF q
    <2>4. tables'[r][i] = tables[r][i] /\ tables[r][i] \in ToSet(tables[r])
      BY <1>4, <1>5, <2>3 DEF ToSet
    <2>5. pool.hash[tables[r][i]] = NoHash
      BY <1>4, <1>10, <2>4
    <2>. QED  BY <1>2, <1>10, <2>3, <2>4, <2>5 DEF Filled, FilledOf
  <1>11. /\ r \in Requests /\ content' = content /\ step'.toks[r] > 0 /\ From(req'[r]) \in Nat
         /\ \A s \in Requests \ {r} : req'[s] = req[s] /\ step'.toks[s] = step.toks[s]
    BY <1>2, <1>6 DEF q
  <1>12. \A s \in Requests \ {r} : /\ tables'[s] = tables[s] /\ numCached'[s] = numCached[s]
                                   /\ req'[s] = req[s] /\ step'.toks[s] = step.toks[s]
                                   /\ \A b \in ToSet(tables[s]) : pool'.hash[b] = pool.hash[b]
    BY <1>4, <1>11
  <1>13. Books'
    BY <1>2
  <1>. QED  BY <1>3, <1>9, <1>10, <1>11, <1>12, <1>13, MoreFilled

(* The blocks of a hit are named; a request admitted with it writes on     *)
(* after them.                                                             *)
LEMMA AdmitWaitingFilled ==
  ASSUME Inv, Inv', Names, Names', Turns, Filled, NEW r \in Requests, AdmitWaiting(r)
  PROVE  Filled'
  <1>1. PICK hit, H, base, n : Admits(r, hit, H, base, n)
    BY AdmitWaitingIs
  <1>2. /\ Books /\ Books' /\ Lines /\ tables[r] = <<>> /\ req[r] \in ReqType /\ Sound(req[r])
        /\ req[r].status = "waiting" /\ n \in Nat \ {0} /\ Len(hit) \in Nat
        /\ base = Len(hit) * BlockSize /\ base \in Nat /\ base <= Len(req[r].tokens) - 1
        /\ (\A i \in 1..Len(hit) : pool.hash[hit[i]] = BlockHash(req[r].tokens, i))
        /\ AllocationInput(r, hit, H, base, n) /\ AllocateSlots(r, hit, base, n)
        /\ req' = [req EXCEPT ![r].status = "running", ![r].computed = base]
        /\ content' = content /\ step'.toks[r] = n
        /\ \A s \in Requests \ {r} : step'.toks[s] = step.toks[s]
    BY <1>1 DEF Inv, Admits
  <1>3. /\ step.toks[r] = 0 /\ \A s \in Requests \ {r} : req'[s] = req[s]
        /\ req'[r].computed = base /\ req'[r].seq = req[r].seq /\ req'[r].tokens = req[r].tokens
    BY <1>2 DEF Lines, Placed, ReqType
  <1>4. /\ \A s \in Requests \ {r} : /\ tables'[s] = tables[s] /\ numCached'[s] = numCached[s]
                                     /\ \A b \in ToSet(tables[s]) : pool'.hash[b] = pool.hash[b]
        /\ \A b \in Blocks : pool'.hash[b] # NoHash =>
             \/ pool'.hash[b] = pool.hash[b]
             \/ \E i \in numCached[r] + 1 .. numCached'[r] : i > Len(hit) /\ tables'[r][i] = b
        /\ numCached'[r] >= Len(hit)
        /\ Named(pool'.hash, tables'[r], req[r].tokens, numCached'[r])
    <2>1. Len(hit) * BlockSize <= Len(req[r].tokens)
      <3>1. Len(req[r].tokens) \in Nat
        BY <1>2, LenProperties DEF ReqType
      <3>. QED  BY <1>2, <3>1
    <2>. QED  BY <1>2, <2>1, AllocateNames
  <1>. DEFINE x == From(req'[r])
              m == numCached'[r]
  <1>5. /\ x \in Nat /\ x <= base /\ Len(req[r].tokens) \in Nat
    <2>1. req'[r] \in ReqType /\ Sound(req'[r])
      BY DEF Inv, Lines
    <2>2. x \in Nat /\ x <= req'[r].computed /\ Len(req'[r].tokens) \in Nat
      BY <2>1, FromIs
    <2>. QED  BY <1>3, <2>2
  <1>6. /\ m \in Nat /\ numCached[r] \in Nat /\ Len(tables'[r]) \in Nat /\ m <= Len(tables'[r])
        /\ m * BlockSize <= Len(req[r].tokens)
    BY <1>2, <1>4, LenProperties DEF Books, BooksOf, Named
  <1>. HIDE DEF x, m
  <1>7. ASSUME NEW i \in Nat \ {0}
        PROVE  i * BlockSize <= x => i <= Len(hit)
    <2>1. i \in Int /\ Len(hit) \in Int
      BY <1>2
    <2>2. i * BlockSize \in Int
      BY <2>1, Multiples
    <2>3. i * BlockSize <= x => i * BlockSize <= Len(hit) * BlockSize
      BY <1>2, <1>5, <2>2
    <2>. QED  BY <2>1, <2>3, Multiples
  <1>8. ASSUME NEW b \in Blocks, pool'.hash[b] # NoHash
        PROVE  \/ pool'.hash[b] = pool.hash[b]
               \/ \E i \in 1..numCached'[r] :
                    /\ tables'[r][i] = b
                    /\ i * BlockSize <= From(req'[r]) => content[b] = pool'.hash[b]
    <2>1. CASE \E i \in numCached[r] + 1 .. numCached'[r] : i > Len(hit) /\ tables'[r][i] = b
      <3>1. PICK i \in numCached[r] + 1 .. numCached'[r] : i > Len(hit) /\ tables'[r][i] = b
        BY <2>1
      <3>2. i \in 1..numCached'[r] /\ i \in Nat \ {0} /\ ~(i <= Len(hit))
        BY <1>2, <1>6, <3>1 DEF m
      <3>3. ~(i * BlockSize <= x)
        BY <1>7, <3>2
      <3>. QED  BY <3>1, <3>2, <3>3 DEF x
    <2>. QED  BY <1>4, <1>8, <2>1
  <1>9. ASSUME NEW i \in 1..Len(tables'[r]), i * BlockSize <= From(req'[r]),
               pool'.hash[tables'[r][i]] = NoHash
        PROVE  FALSE
    <2>1. i \in Nat \ {0}
      BY <1>6
    <2>2. i <= Len(hit)
      BY <1>7, <1>9, <2>1 DEF x
    <2>3. i <= m /\ i \in Int /\ m \in Int
      BY <1>2, <1>4, <1>6, <2>1, <2>2 DEF m
    <2>4. i * BlockSize <= m * BlockSize /\ i * BlockSize \in Int /\ m * BlockSize \in Int
      BY <2>3, Multiples
    <2>5. i * BlockSize <= Len(req[r].tokens) /\ req[r].tokens \in Seq(Token)
      BY <1>2, <1>5, <1>6, <2>4, SMTT(30) DEF ReqType
    <2>6. BlockHash(req[r].tokens, i) # NoHash
      BY <2>1, <2>5, BlockHashIs
    <2>7. pool'.hash[tables'[r][i]] = BlockHash(req[r].tokens, i)
      BY <1>4, <1>9, <2>3 DEF Named, m
    <2>. QED  BY <1>9, <2>6, <2>7
  <1>10. \A s \in Requests \ {r} : /\ tables'[s] = tables[s] /\ numCached'[s] = numCached[s]
                                   /\ req'[s] = req[s] /\ step'.toks[s] = step.toks[s]
                                   /\ \A b \in ToSet(tables[s]) : pool'.hash[b] = pool.hash[b]
    BY <1>2, <1>3, <1>4
  <1>11. Books' /\ content' = content /\ step.toks[r] = 0 /\ step'.toks[r] > 0 /\ From(req'[r]) \in Nat
    BY <1>2, <1>3, <1>5 DEF x
  <1>12. \A i \in 1..Len(tables'[r]) :
           i * BlockSize <= From(req'[r]) /\ pool'.hash[tables'[r][i]] = NoHash
             => content[tables'[r][i]] = BlockHash(req'[r].seq, i)
    BY <1>9
  <1>. QED  BY <1>8, <1>10, <1>11, <1>12, MoreFilled

(* An output names blocks that are written, with the tokens in them. *)
LEMMA ProcessOutputFilled ==
  ASSUME Inv, Names, Filled, NEW r \in Requests, ProcessOutput(r)
  PROVE  Filled'
  <1>1. PICK n, w, pl : Answers(r, n, w, pl)
    BY ProcessOutputIs
  <1>2. /\ Books /\ Lines /\ step = NoStep /\ step' = step /\ content' = content /\ Answered(req[r], n)
        /\ w = AfterOutput(req[r], Head(req[r].flight), n)
    BY <1>1 DEF Inv, Answers
  <1>3. /\ pl \in PoolType /\ w.tokens \in Seq(Token)
        /\ Named(pl.hash, tables[r], w.tokens, MaxOf(numCached[r], FullAfter(w, n)))
        /\ \A s \in Requests \ {r} : \A b \in ToSet(tables[s]) : pl.hash[b] = pool.hash[b]
        /\ \A b \in Blocks : pl.hash[b] = NoHash => pool.hash[b] = NoHash
        /\ \A b \in Blocks : pl.hash[b] # pool.hash[b] =>
             \E i \in numCached[r] + 1 .. FullAfter(w, n) : i <= Len(tables[r]) /\ tables[r][i] = b
    BY <1>1, AnswersNames
  <1>4. PICK o, m, full : o = req[r] /\ m = numCached[r] /\ full = FullAfter(w, n)
    OBVIOUS
  <1>5. o \in ReqType /\ Sound(o) /\ Answered(o, n) /\ w = AfterOutput(o, Head(o.flight), n)
    BY <1>2, <1>4 DEF Lines
  <1>6. /\ w.status = o.status /\ w.seq = o.seq /\ w.computed \in Nat /\ w.placeholders \in Int
        /\ Len(w.tokens) = Len(o.tokens) + n
        /\ \A i \in 1..Len(w.tokens) : w.tokens[i] = o.seq[i]
        /\ w.computed <= o.computed
        /\ o.status = "running" => /\ w.computed - w.placeholders = o.computed - o.placeholders + n
                                   /\ n <= o.placeholders
    BY ONLY <1>5, AfterOutputIs
  <1>7. /\ From(o) \in Nat /\ From(o) <= o.computed /\ From(o) <= Len(o.seq) - 1
        /\ Len(o.seq) \in Nat /\ Len(o.tokens) \in Nat /\ o.computed \in Nat
        /\ o.placeholders \in Nat /\ n \in Nat /\ o.seq \in Seq(Token)
        /\ o.computed - o.placeholders <= Len(o.tokens) - 1
    BY <1>5, FromIs DEF Answered, ReqType, Sound
  <1>8. Len(o.tokens) + n <= Len(o.seq)
    <2>1. o.flight \in Seq(FlightType) /\ o.flight # <<>> /\ n <= Head(o.flight).gen
          /\ Len(o.seq) = Len(o.tokens) + Total(Gens(o.flight))
      BY <1>5 DEF ReqType, Answered, Sound
    <2>2. /\ Head(o.flight) \in FlightType /\ Tail(o.flight) \in Seq(FlightType)
          /\ Total(Gens(o.flight)) = Head(o.flight).gen + Total(Gens(Tail(o.flight)))
      BY <2>1, FlightTail
    <2>3. Head(o.flight).gen \in Nat /\ Total(Gens(Tail(o.flight))) \in Nat
      BY <2>2, FlightSums DEF FlightType
    <2>4. PICK h, t, l, k : /\ h = Head(o.flight).gen /\ t = Total(Gens(Tail(o.flight)))
                            /\ l = Len(o.seq) /\ k = Len(o.tokens)
      OBVIOUS
    <2>5. l = k + (h + t) /\ n <= h /\ h \in Nat /\ t \in Nat /\ l \in Nat /\ k \in Nat /\ n \in Nat
      BY <1>7, <2>1, <2>2, <2>3, <2>4
    <2>6. k + n <= l
      BY ONLY <2>5
    <2>. QED  BY <2>4, <2>6
  <1>9. full \in Int /\ full * BlockSize \in Int /\ (full > 0 => full * BlockSize <= From(o))
    <2>1. CASE w.status = "running" /\ n > 0
      <3>. DEFINE x == w.computed - w.placeholders
      <3>1. full = x \div BlockSize
        BY <1>4, <2>1 DEF FullAfter
      <3>2. x \in Int /\ x <= From(o)
        <4>1. x = o.computed - o.placeholders + n /\ n <= o.placeholders /\ x \in Int
          BY <1>6, <2>1
        <4>. HIDE DEF x
        <4>2. x <= o.computed /\ x <= Len(o.seq) - 1
          BY <1>7, <1>8, <4>1, SMTT(30)
        <4>. QED  BY <1>7, <4>1, <4>2 DEF From, MinOf
      <3>. HIDE DEF x
      <3>3. full \in Int /\ full * BlockSize <= x
        BY <3>1, <3>2, Division
      <3>4. full * BlockSize \in Int
        BY <3>3, Multiples
      <3>. QED  BY <1>7, <3>2, <3>3, <3>4
    <2>2. CASE ~(w.status = "running" /\ n > 0)
      <3>1. full = 0 /\ 0 * BlockSize = 0
        BY <1>4, <2>2, Numbers DEF FullAfter
      <3>. QED  BY <3>1
    <2>. QED  BY <2>1, <2>2
  <1>10. /\ m \in Nat /\ tables[r] \in Seq(Blocks) /\ Len(tables[r]) \in Nat
         /\ DOMAIN tables[r] = 1..Len(tables[r]) /\ Named(pool.hash, tables[r], o.tokens, m)
    BY <1>2, <1>4, BooksTables, LenProperties DEF Names
  <1>11. \A b \in Blocks : ~PendingIn(tables, numCached, req, step.toks, b)
    BY <1>2, NoStepIs DEF PendingIn
  <1>12. ASSUME NEW b \in Blocks, pl.hash[b] # NoHash
         PROVE  content[b] = pl.hash[b]
    <2>1. CASE pl.hash[b] = pool.hash[b]
      BY <1>11, <1>12, <2>1 DEF Filled, FilledOf
    <2>2. CASE pl.hash[b] # pool.hash[b]
      <3>1. PICK i \in m + 1 .. full : i <= Len(tables[r]) /\ tables[r][i] = b
        BY <1>3, <1>4, <2>2
      <3>2. i \in 1..Len(tables[r]) /\ ~(i <= m) /\ i \in Nat \ {0} /\ i <= full /\ i \in Int /\ full > 0
        BY <1>9, <1>10, <3>1
      <3>3. i * BlockSize <= full * BlockSize /\ i * BlockSize \in Int
        BY <1>9, <3>2, Multiples
      <3>4. i * BlockSize <= From(o)
        BY <1>7, <1>9, <3>2, <3>3
      <3>5. pool.hash[b] = NoHash
        BY <1>10, <3>1, <3>2 DEF Named
      <3>6. content[b] = BlockHash(o.seq, i)
        BY <1>4, <3>1, <3>2, <3>4, <3>5 DEF Filled, FilledOf
      <3>7. pl.hash[b] = BlockHash(w.tokens, i) /\ i * BlockSize <= Len(w.tokens)
        <4>. DEFINE k == MaxOf(m, full)
        <4>1. Named(pl.hash, tables[r], w.tokens, k) /\ i <= k /\ k \in Int
          BY <1>3, <1>4, <1>9, <1>10, <3>2 DEF MaxOf
        <4>. HIDE DEF k
        <4>2. i * BlockSize <= k * BlockSize /\ k * BlockSize \in Int
          BY <3>2, <4>1, Multiples
        <4>3. k * BlockSize <= Len(w.tokens) /\ Len(w.tokens) \in Nat
          BY <1>3, <4>1, LenProperties DEF Named
        <4>4. i * BlockSize <= Len(w.tokens)
          BY <3>3, <4>2, <4>3
        <4>. QED  BY <3>1, <3>2, <4>1, <4>4 DEF Named
      <3>8. BlockHash(w.tokens, i) = BlockHash(o.seq, i)
        <4>. DEFINE k == i * BlockSize
        <4>1. k \in Int /\ k <= Len(w.tokens) /\ Len(w.tokens) \in Nat
          BY <1>3, <3>3, <3>7, LenProperties
        <4>. HIDE DEF k
        <4>2. k <= Len(o.seq) /\ \A j \in 1..k : w.tokens[j] = o.seq[j]
          BY <1>6, <1>7, <1>8, <4>1, SMTT(30)
        <4>. QED  BY <1>3, <1>7, <3>2, <4>1, <4>2, SameBlockHash DEF k
      <3>. QED  BY <3>6, <3>7, <3>8
    <2>. QED  BY <2>1, <2>2
  <1>13. ASSUME NEW s \in Requests, NEW i \in 1..Len(tables[s]), i * BlockSize <= From(req[s]),
                pl.hash[tables[s][i]] = NoHash
         PROVE  content[tables[s][i]] = BlockHash(req[s].seq, i)
    <2>1. tables[s][i] \in Blocks
      BY <1>2, BooksTables, ElementOfSeq, LenProperties
    <2>2. pool.hash[tables[s][i]] = NoHash
      BY <1>3, <1>13, <2>1
    <2>. QED  BY <1>13, <2>2 DEF Filled, FilledOf
  <1>14. FilledOf(pl.hash, tables, numCached, req, step.toks, content)
    BY <1>12, <1>13 DEF FilledOf
  <1>15. CASE /\ req' = [req EXCEPT ![r] = Finished(w)] /\ Release(pl, r, w.flight)
    <2>1. pool'.hash = pl.hash
      <3>1. pool' = pl \/ pool' = FreeBlocks(pl, Reverse(tables[r]))
        BY <1>15 DEF Release, Released
      <3>2. PICK bs : bs = Reverse(tables[r])
        OBVIOUS
      <3>3. FreeBlocks(pl, bs).hash = pl.hash
        BY <1>3, FreeBlocksLess
      <3>. QED  BY <3>1, <3>2, <3>3
    <2>2. /\ tables'[r] = <<>> /\ step.toks[r] = 0
          /\ \A s \in Requests \ {r} : /\ tables'[s] = tables[s] /\ numCached'[s] = numCached[s]
                                       /\ req'[s] = req[s] /\ step'.toks[s] = step.toks[s]
      BY <1>2, <1>15, BooksTables, NoStepIs DEF Release, Lines
    <2>3. FilledOf(pl.hash, tables', numCached', req', step'.toks, content)
      BY <1>14, <2>2, LeaveFilled
    <2>. QED  BY <1>2, <2>1, <2>3 DEF Filled
  <1>16. CASE /\ req' = [req EXCEPT ![r] = w] /\ pool' = pl /\ UNCHANGED tables
    <2>1. req'[r] = w /\ \A s \in Requests \ {r} : req'[s] = req[s]
      BY <1>2, <1>16 DEF Lines
    <2>2. ASSUME NEW s \in Requests, NEW i \in 1..Len(tables[s]), i * BlockSize <= From(req'[s]),
                 pl.hash[tables[s][i]] = NoHash
          PROVE  content[tables[s][i]] = BlockHash(req'[s].seq, i)
      <3>1. CASE s = r
        <4>1. From(w) <= From(o) /\ From(w) \in Int
          BY <1>6, <1>7 DEF From, MinOf
        <4>2. Len(tables[r]) \in Nat
          BY <1>10
        <4>3. i \in Int
          BY <3>1, <4>2
        <4>4. i * BlockSize \in Int
          BY <4>3, Multiples
        <4>5. i * BlockSize <= From(req[s])
          BY <1>4, <1>7, <2>1, <2>2, <3>1, <4>1, <4>4
        <4>6. content[tables[s][i]] = BlockHash(req[s].seq, i)
          BY <1>13, <2>2, <4>5
        <4>. QED  BY <1>4, <1>6, <2>1, <3>1, <4>6
      <3>2. CASE s # r
        BY <1>13, <2>1, <2>2, <3>2
      <3>. QED  BY <3>1, <3>2
    <2>. QED  BY <1>2, <1>12, <1>16, <2>2 DEF Filled, FilledOf
  <1>. QED  BY <1>1, <1>15, <1>16 DEF Answers

(* There are at least as many placeholders as tokens in flight. *)
LEMMA GensBelowWeights ==
  ASSUME NEW flight \in Seq(FlightType), \A i \in DOMAIN flight : flight[i].gen <= flight[i].spec + 1
  PROVE  Total(Gens(flight)) <= Total(Weights(flight))
  <1>. DEFINE n == Len(flight)
              g == Gens(flight)
              w == Weights(flight)
  <1>1. /\ n \in Nat /\ g \in [1..n -> Nat] /\ w \in [1..n -> Nat] /\ DOMAIN flight = 1..n
        /\ \A i \in 1..n : /\ g[i] = flight[i].gen /\ w[i] = Weight(flight[i])
                           /\ flight[i].gen \in Nat /\ flight[i].spec \in Nat
    BY FlightSums DEF Gens, Weights
  <1>. HIDE DEF n, g, w
  <1>2. IsFiniteSet(1..n)
    <2>1. n \in Int
      BY <1>1
    <2>. QED  BY ONLY <2>1, FS_Interval
  <1>3. ASSUME NEW i \in 1..n
        PROVE  g[i] <= w[i] /\ g[i] \in Nat /\ w[i] \in Nat
    <2>1. PICK f : f = flight[i]
      OBVIOUS
    <2>2. f.gen \in Nat /\ f.spec \in Nat /\ f.gen <= f.spec + 1 /\ g[i] = f.gen /\ w[i] = Weight(f)
      BY <1>1, <2>1
    <2>3. f.gen <= Weight(f)
      BY <2>2 DEF Weight
    <2>. QED  BY <1>1, <2>2, <2>3
  <1>4. Units(g) \subseteq Units(w)
    <2>1. DOMAIN g = 1..n /\ DOMAIN w = 1..n
      BY <1>1
    <2>2. \A i \in 1..n : 1..g[i] \subseteq 1..w[i]
      BY <1>3
    <2>. QED  BY <2>1, <2>2 DEF Units
  <1>5. IsFiniteSet(Units(w))
    BY <1>1, <1>2, UnitsFinite
  <1>6. Cardinality(Units(g)) <= Cardinality(Units(w))
    BY <1>4, <1>5, FS_Subset
  <1>. QED  BY <1>6 DEF Total, g, w

(* The batch has request r with the output `out`: its sequence grows to    *)
(* `sq`, the workers write its positions up to `to`, and what they write   *)
(* is `wr`.                                                                *)
BatchWrites(r, out, sq, to, wr) ==
  /\ r \in Scheduled /\ out \in Sampled(r) /\ sq = req[r].seq \o out
  /\ to = WriteTo(r, out) /\ wr = Written(r, out)

(* How far the workers write for a request of the batch: no further than   *)
(* its slots, at least to the end of what was cached ahead of the batch,   *)
(* and to where it goes on in the next one.                                *)
LEMMA WriteToIs ==
  ASSUME Lines, NEW r, NEW out, NEW sq, NEW to, NEW wr, BatchWrites(r, out, sq, to, wr)
  PROVE  /\ sq \in Seq(Token) /\ Len(sq) \in Nat /\ Len(req[r].seq) <= Len(sq)
         /\ \A j \in 1..Len(req[r].seq) : sq[j] = req[r].seq[j]
         /\ to \in Nat /\ to <= Len(sq) /\ to <= req[r].computed + step.toks[r]
         /\ MinOf(req[r].computed + step.toks[r], Len(sq) - 1) <= to
         /\ \A x \in Int : x <= req[r].computed + step.toks[r] /\ x <= Len(req[r].tokens) => x <= to
  <1>0. r \in Scheduled /\ out \in Sampled(r) /\ sq = req[r].seq \o out /\ to = WriteTo(r, out)
    BY DEF BatchWrites
  <1>1. PICK q, k : q = req[r] /\ k = step.toks[r]
    OBVIOUS
  <1>2. /\ r \in Requests /\ q \in ReqType /\ Sound(q) /\ k \in Nat \ {0} /\ q.status = "running"
    BY <1>0, <1>1 DEF Scheduled, Lines, StepType, Placed
  <1>3. /\ Drafts(r) \in Nat /\ Drafts(r) = MaxOf(q.computed + k - Len(q.tokens) - q.placeholders, 0)
        /\ out \in Seq(Token) /\ Len(out) <= Drafts(r) + 1 /\ (out = <<>> <=> ~Samples(r))
        /\ (Samples(r) <=> q.computed + k >= Len(q.tokens) + q.placeholders)
    BY <1>0, <1>1, <1>2, SampledIs DEF Samples
  <1>. DEFINE n == Len(q.tokens)
              l == Len(q.seq)
              g == Total(Gens(q.flight))
              c == q.computed
              p == q.placeholders
              d == Drafts(r)
              o == Len(out)
              s == Len(sq)
  <1>4. /\ n \in Nat /\ l \in Nat /\ c \in Nat /\ p \in Nat /\ o \in Nat /\ d \in Nat
        /\ q.flight \in Seq(FlightType) /\ q.seq \in Seq(Token)
    BY <1>2, <1>3, LenProperties DEF ReqType
  <1>5. /\ sq \in Seq(Token) /\ s = l + o
        /\ \A j \in 1..l : sq[j] = q.seq[j]
    <2>1. /\ q.seq \o out \in Seq(Token) /\ Len(q.seq \o out) = Len(q.seq) + Len(out)
          /\ \A j \in 1..(Len(q.seq) + Len(out)) :
               (q.seq \o out)[j] = IF j <= Len(q.seq) THEN q.seq[j] ELSE out[j - Len(q.seq)]
      BY <1>3, <1>4, ConcatProperties
    <2>2. \A j \in 1..l : j \in 1..(l + o) /\ j <= l
      BY <1>4
    <2>. QED  BY <1>0, <1>1, <2>1, <2>2
  <1>6. /\ g \in Nat /\ l = n + g /\ n >= 1 /\ c - p <= n - 1 /\ (p > 0 => c - p = n - 1)
        /\ g <= p
    <2>1. g \in Nat
      BY <1>4, FlightSums
    <2>2. /\ l = n + g /\ n \in 1..MaxModelLen /\ c - p <= n - 1 /\ (p > 0 => c - p = n - 1)
          /\ p = Total(Weights(q.flight))
          /\ \A i \in DOMAIN q.flight : q.flight[i].gen <= q.flight[i].spec + 1
      BY <1>2 DEF Sound
    <2>3. g <= p
      BY <1>4, <2>2, GensBelowWeights
    <2>. QED  BY <2>1, <2>2, <2>3, Numbers
  <1>7. to = IF out = <<>> THEN c + k ELSE l + o - 1
    BY <1>0, <1>1 DEF WriteTo
  <1>8. out = <<>> <=> o = 0
    BY <1>3, EmptySeq
  <1>9. d = MaxOf(c + k - n - p, 0) /\ o <= d + 1 /\ (o = 0 <=> ~(c + k >= n + p))
    BY <1>3, <1>8
  <1>. HIDE DEF n, l, g, c, p, d, o, s
  <1>10. /\ to \in Nat /\ to <= s /\ to <= c + k /\ MinOf(c + k, s - 1) <= to
         /\ \A x \in Int : x <= c + k /\ x <= n => x <= to
    <2>1. CASE o = 0
      <3>1. to = c + k /\ c + k < n + p
        BY <1>2, <1>4, <1>7, <1>8, <1>9, <2>1
      <3>2. to <= n
        BY <1>2, <1>4, <1>6, <3>1
      <3>. QED  BY <1>2, <1>4, <1>5, <1>6, <2>1, <3>1, <3>2 DEF MinOf
    <2>2. CASE o > 0
      <3>1. to = l + o - 1 /\ c + k >= n + p
        BY <1>2, <1>4, <1>7, <1>8, <1>9, <2>2
      <3>2. d = c + k - n - p
        BY <1>2, <1>4, <1>9, <3>1 DEF MaxOf
      <3>3. to <= c + k
        BY <1>2, <1>4, <1>6, <1>9, <3>1, <3>2
      <3>. QED  BY <1>2, <1>4, <1>5, <1>6, <2>2, <3>1, <3>3 DEF MinOf
    <2>. QED  BY <1>4, <2>1, <2>2
  <1>11. s \in Nat /\ l <= s
    BY <1>4, <1>5
  <1>. QED  BY <1>1, <1>5, <1>10, <1>11 DEF n, l, c, s

(* The blocks from the one with position `from` + 1 to the one with        *)
(* position `to`                                                           *)
LEMMA TouchedAre ==
  ASSUME NEW from \in Nat, NEW to \in Nat, NEW i \in Int
  PROVE  /\ i \in from \div BlockSize + 1 .. cdiv(to, BlockSize) =>
              /\ i \in Nat \ {0} /\ i * BlockSize > from
              /\ \A l \in Nat : to <= l * BlockSize => i <= l
         /\ i * BlockSize > from /\ i * BlockSize <= to =>
              i \in from \div BlockSize + 1 .. cdiv(to, BlockSize)
  <1>. DEFINE a == from \div BlockSize
              b == cdiv(to, BlockSize)
  <1>1. /\ a \in Int /\ a * BlockSize <= from /\ a >= 0 /\ b \in Int /\ to <= b * BlockSize
    BY Division
  <1>2. a * BlockSize \in Int /\ b * BlockSize \in Int /\ i * BlockSize \in Int
    BY <1>1, Multiples
  <1>3. b * BlockSize <= to + BlockSize - 1
    <2>. DEFINE x == to + BlockSize - 1
    <2>1. x \in Int
      BY Numbers
    <2>. HIDE DEF x
    <2>2. (x \div BlockSize) * BlockSize <= x
      BY <2>1, Division
    <2>. QED  BY <2>2 DEF x, cdiv
  <1>. HIDE DEF b
  <1>4. ASSUME i \in a + 1 .. b
        PROVE  /\ i \in Nat \ {0} /\ i * BlockSize > from
               /\ \A l \in Nat : to <= l * BlockSize => i <= l
    <2>1. i >= a + 1 /\ i <= b /\ i \in Nat \ {0}
      <3>. HIDE DEF a
      <3>. QED  BY <1>1, <1>4
    <2>2. i * BlockSize > from
      BY <2>1, DivisionAbove
    <2>3. ASSUME NEW l \in Nat, to <= l * BlockSize
          PROVE  i <= l
      <3>. DEFINE B == BlockSize
      <3>1. B \in Nat \ {0} /\ l \in Int /\ l + 1 \in Int
        BY Numbers
      <3>2. l * B \in Int /\ (l + 1) * B \in Int
        BY <3>1, Multiples
      <3>3. (l + 1) * B = l * B + B
        <4>. HIDE DEF B
        <4>. QED  BY <3>1
      <3>4. ~((l + 1) * B <= b * B)
        BY <1>2, <1>3, <2>3, <3>1, <3>2, <3>3
      <3>5. ~(l + 1 <= b)
        BY <1>1, <3>1, <3>4, Multiples
      <3>. QED  BY <1>1, <2>1, <3>1, <3>5
    <2>. QED  BY <2>1, <2>2, <2>3
  <1>5. ASSUME i * BlockSize > from, i * BlockSize <= to
        PROVE  i \in a + 1 .. b
    <2>. HIDE DEF a
    <2>1. i * BlockSize <= b * BlockSize /\ ~(i * BlockSize <= a * BlockSize)
      BY <1>1, <1>2, <1>5
    <2>2. i <= b /\ ~(i <= a)
      BY <1>1, <2>1, Multiples
    <2>. QED  BY <1>1, <2>2
  <1>. QED  BY <1>4, <1>5 DEF b

(* What the batch writes for a request *)
LEMMA WrittenIs ==
  ASSUME Books, Lines, Turns,
         NEW r, NEW out, NEW sq, NEW to, NEW wr, BatchWrites(r, out, sq, to, wr)
  PROVE  /\ \A b \in DOMAIN wr : \E i \in 1..Len(tables[r]) :
              /\ tables[r][i] = b /\ i * BlockSize > From(req[r])
              /\ wr[b] = SubSeq(sq, 1, MinOf(to, i * BlockSize))
         /\ \A i \in 1..Len(tables[r]) : i * BlockSize > From(req[r]) /\ i * BlockSize <= to =>
              tables[r][i] \in DOMAIN wr
  <1>. r \in Scheduled /\ out \in Sampled(r) /\ sq = req[r].seq \o out /\ to = WriteTo(r, out)
       /\ wr = Written(r, out)
    BY DEF BatchWrites
  <1>. DEFINE fr == From(req[r])
              touches == fr \div BlockSize + 1 .. cdiv(to, BlockSize)
              l == Len(tables[r])
  <1>1. r \in Requests /\ step.toks[r] \in Nat \ {0} /\ req[r] \in ReqType /\ Sound(req[r])
        /\ req[r].status = "running" /\ Placed(req[r], tables[r], step.toks[r])
        /\ Within(req[r], numCached[r], step.toks[r])
    BY DEF Scheduled, Lines, StepType, Placed, Turns
  <1>2. fr \in Nat /\ to \in Nat /\ to <= req[r].computed + step.toks[r] /\ l \in Nat
    <2>1. to \in Nat /\ to <= req[r].computed + step.toks[r]
      BY WriteToIs
    <2>2. tables[r] \in Seq(Blocks)
      BY <1>1, BooksTables
    <2>. QED  BY <1>1, <2>1, <2>2, FromIs, LenProperties
  <1>3. to <= l * BlockSize
    <2>1. MinOf(req[r].computed + step.toks[r], MaxModelLen) <= l * BlockSize
          /\ req[r].computed + step.toks[r] <= MaxModelLen
      BY <1>1 DEF Placed, Within
    <2>2. req[r].computed \in Nat /\ MaxModelLen \in Nat /\ l \in Int
      BY <1>1, <1>2, Numbers DEF ReqType
    <2>3. l * BlockSize \in Int
      BY <2>2, Multiples
    <2>4. MinOf(req[r].computed + step.toks[r], MaxModelLen) = req[r].computed + step.toks[r]
      BY <1>1, <2>1, <2>2 DEF MinOf
    <2>. HIDE DEF l
    <2>. QED  BY <1>1, <1>2, <2>1, <2>2, <2>3, <2>4
  <1>4. wr = [b \in {tables[r][i] : i \in touches} |->
               LET i == CHOOSE j \in touches : tables[r][j] = b
               IN SubSeq(sq, 1, MinOf(to, i * BlockSize))]
    BY DEF Written, WriteFrom, From
  <1>. HIDE DEF fr, l
  <1>5. \A i \in touches : i \in 1..l /\ i * BlockSize > fr
    <2>. SUFFICES ASSUME NEW i \in touches
                  PROVE  i \in 1..l /\ i * BlockSize > fr
      OBVIOUS
    <2>1. i \in Int
      BY <1>2, Division
    <2>2. i \in Nat \ {0} /\ i * BlockSize > fr /\ i <= l
      BY <1>2, <1>3, <2>1, TouchedAre
    <2>. QED  BY <1>2, <2>2
  <1>6. \A i \in 1..l : i * BlockSize > fr /\ i * BlockSize <= to => i \in touches
    BY <1>2, TouchedAre
  <1>. HIDE DEF touches
  <1>7. ASSUME NEW b \in DOMAIN wr
        PROVE  \E i \in 1..l : /\ tables[r][i] = b /\ i * BlockSize > fr
                               /\ wr[b] = SubSeq(sq, 1, MinOf(to, i * BlockSize))
    <2>1. b \in {tables[r][i] : i \in touches}
      BY <1>4
    <2>2. PICK i : i = CHOOSE j \in touches : tables[r][j] = b
      OBVIOUS
    <2>3. i \in touches /\ tables[r][i] = b
      BY <2>1, <2>2
    <2>4. wr[b] = SubSeq(sq, 1, MinOf(to, i * BlockSize))
      BY <1>4, <2>1, <2>2
    <2>. QED  BY <1>5, <2>3, <2>4
  <1>8. ASSUME NEW i \in 1..l, i * BlockSize > fr, i * BlockSize <= to
        PROVE  tables[r][i] \in DOMAIN wr
    <2>1. i \in touches
      BY <1>6, <1>8
    <2>. QED  BY <1>4, <2>1
  <1>. QED  BY <1>7, <1>8 DEF fr, l

(* A batch writes into a block with a hash what the hash stands for. *)
LEMMA WrittenNamed ==
  ASSUME Books, Lines, Names, Turns,
         NEW r, NEW out, NEW sq, NEW to, NEW wr, BatchWrites(r, out, sq, to, wr),
         NEW b \in DOMAIN wr, pool.hash[b] # NoHash
  PROVE  wr[b] = pool.hash[b]
  <1>1. PICK q, m : q = req[r] /\ m = numCached[r] /\ r \in Scheduled
    BY DEF BatchWrites
  <1>2. PICK i \in 1..Len(tables[r]) : /\ tables[r][i] = b
                                       /\ wr[b] = SubSeq(sq, 1, MinOf(to, i * BlockSize))
    BY WrittenIs
  <1>3. /\ r \in Requests /\ q \in ReqType /\ Sound(q) /\ q.status = "running" /\ step.toks[r] \in Nat
        /\ Within(q, m, step.toks[r]) /\ Named(pool.hash, tables[r], q.tokens, m)
        /\ Len(tables[r]) \in Nat
    <2>1. /\ r \in Requests /\ q \in ReqType /\ Sound(q) /\ q.status = "running" /\ step.toks[r] \in Nat
          /\ Within(q, m, step.toks[r]) /\ Named(pool.hash, tables[r], q.tokens, m)
      BY <1>1 DEF Scheduled, Lines, StepType, Placed, Turns, Names
    <2>. QED  BY <2>1, BooksTables, LenProperties
  <1>4. i <= m /\ pool.hash[b] = BlockHash(q.tokens, i) /\ m \in Nat /\ m * BlockSize <= Len(q.tokens)
    BY <1>2, <1>3 DEF Named
  <1>5. i \in Nat \ {0} /\ i \in Int /\ m \in Int
    BY <1>3, <1>4
  <1>6. /\ i * BlockSize \in Nat /\ i * BlockSize <= m * BlockSize /\ m * BlockSize \in Int
    BY <1>4, <1>5, Multiples
  <1>7. /\ Len(q.tokens) \in Nat /\ Len(q.seq) \in Nat /\ Len(q.tokens) <= Len(q.seq) /\ q.computed \in Nat
        /\ q.tokens \in Seq(Token) /\ \A j \in 1..Len(q.tokens) : q.seq[j] = q.tokens[j]
    BY <1>3, FromIs DEF ReqType, Sound
  <1>8. /\ sq \in Seq(Token) /\ Len(sq) \in Nat /\ Len(q.seq) <= Len(sq) /\ to \in Nat
        /\ (\A j \in 1..Len(q.seq) : sq[j] = q.seq[j])
        /\ \A x \in Int : x <= q.computed + step.toks[r] /\ x <= Len(q.tokens) => x <= to
    BY <1>1, WriteToIs
  <1>. DEFINE k == i * BlockSize
  <1>9. k \in Nat /\ k <= Len(q.tokens) /\ k <= q.computed + step.toks[r]
    <2>1. m * BlockSize <= q.computed + step.toks[r]
      BY <1>3 DEF Within
    <2>. QED  BY <1>3, <1>4, <1>6, <1>7, <2>1
  <1>10. wr[b] = SubSeq(sq, 1, MinOf(to, k))
    BY <1>2
  <1>11. pool.hash[b] = BlockHash(q.tokens, i) /\ BlockHash(sq, i) = SubSeq(sq, 1, k)
    BY <1>4 DEF BlockHash
  <1>. HIDE DEF k
  <1>12. k <= to /\ k <= Len(sq) /\ \A j \in 1..k : q.tokens[j] = sq[j]
    BY <1>7, <1>8, <1>9
  <1>13. MinOf(to, k) = k
    BY <1>8, <1>9, <1>12 DEF MinOf
  <1>14. BlockHash(q.tokens, i) = BlockHash(sq, i)
    BY <1>5, <1>7, <1>8, <1>9, <1>12, SameBlockHash DEF k
  <1>. QED  BY <1>10, <1>11, <1>13, <1>14

(* A batch writes the block at the end of which it passes. *)
LEMMA WrittenPassed ==
  ASSUME Books, Lines, Turns,
         NEW r, NEW out, NEW sq, NEW to, NEW wr, BatchWrites(r, out, sq, to, wr),
         NEW i \in 1..Len(tables[r]), i * BlockSize > From(req[r]), i * BlockSize <= to
  PROVE  tables[r][i] \in DOMAIN wr /\ wr[tables[r][i]] = BlockHash(sq, i)
  <1>1. PICK b : b = tables[r][i] /\ r \in Scheduled
    BY DEF BatchWrites
  <1>2. b \in DOMAIN wr
    BY <1>1, WrittenIs
  <1>3. PICK j \in 1..Len(tables[r]) : /\ tables[r][j] = b
                                       /\ wr[b] = SubSeq(sq, 1, MinOf(to, j * BlockSize))
    BY <1>2, WrittenIs
  <1>4. tables[r] \in Seq(Blocks) /\ IsInjective(tables[r])
    BY <1>1 DEF Books, BooksOf, Scheduled
  <1>5. DOMAIN tables[r] = 1..Len(tables[r]) /\ Len(tables[r]) \in Nat
    BY <1>4, LenProperties
  <1>6. j = i
    BY <1>1, <1>3, <1>4, <1>5 DEF IsInjective
  <1>7. to \in Nat /\ i \in Int
    BY <1>1, <1>5, WriteToIs
  <1>8. i * BlockSize \in Int
    BY <1>7, Multiples
  <1>9. MinOf(to, i * BlockSize) = i * BlockSize
    BY <1>1, <1>7, <1>8 DEF MinOf
  <1>. QED  BY <1>1, <1>2, <1>3, <1>6, <1>9 DEF BlockHash

(* The batch fills the blocks that were cached ahead of it. *)
LEMMA IssueBatchFilled ==
  ASSUME Inv, Names, Turns, Filled, IssueBatch
  PROVE  Filled'
  <1>1. /\ Books /\ Lines /\ step' = NoStep /\ UNCHANGED <<pool, tables, numCached>>
    BY DEF Inv, IssueBatch
  <1>2. PICK out :
          /\ \A r \in Scheduled : out[r] \in Sampled(r)
          /\ req' = [r \in Requests |->
                       IF r \in Scheduled THEN Issued(req[r], r, out[r]) ELSE req[r]]
          /\ content' = [b \in Blocks |->
               LET ws == {r \in Scheduled : b \in DOMAIN Written(r, out[r])}
               IN IF ws = {} THEN content[b]
                  ELSE Written(CHOOSE r \in ws : TRUE, out[CHOOSE r \in ws : TRUE])[b]]
    BY DEF IssueBatch
  <1>. DEFINE wr(r) == Written(r, out[r])
              writes(r, b) == r \in Scheduled /\ b \in DOMAIN wr(r)
  <1>3. ASSUME NEW b \in Blocks
        PROVE  \/ (\A r \in Scheduled : ~writes(r, b)) /\ content'[b] = content[b]
               \/ \E r \in Scheduled : writes(r, b) /\ content'[b] = wr(r)[b]
    <2>. DEFINE ws == {r \in Scheduled : b \in DOMAIN Written(r, out[r])}
    <2>1. content'[b] = IF ws = {} THEN content[b]
                        ELSE Written(CHOOSE r \in ws : TRUE, out[CHOOSE r \in ws : TRUE])[b]
      BY <1>2
    <2>2. CASE ws = {}
      BY <2>1, <2>2
    <2>3. CASE ws # {}
      <3>1. PICK r : r = CHOOSE s \in ws : TRUE
        OBVIOUS
      <3>2. r \in ws
        BY <2>3, <3>1
      <3>3. content'[b] = wr(r)[b]
        BY <2>1, <2>3, <3>1
      <3>. QED  BY <3>2, <3>3
    <2>. QED  BY <2>2, <2>3
  <1>a. ASSUME NEW r \in Scheduled
        PROVE  BatchWrites(r, out[r], req[r].seq \o out[r], WriteTo(r, out[r]), wr(r))
    BY <1>2 DEF BatchWrites
  <1>4. ASSUME NEW r \in Scheduled, NEW b \in Blocks, writes(r, b), pool.hash[b] # NoHash
        PROVE  wr(r)[b] = pool.hash[b]
    <2>1. PICK o, sq, to, w : BatchWrites(r, o, sq, to, w) /\ w = wr(r)
      BY <1>a
    <2>2. b \in DOMAIN w
      BY <1>4, <2>1
    <2>3. w[b] = pool.hash[b]
      BY <1>1, <1>4, <2>1, <2>2, WrittenNamed
    <2>. QED  BY <2>1, <2>3
  <1>5. ASSUME NEW r \in Scheduled, NEW i \in 1..Len(tables[r]), i * BlockSize > From(req[r]),
               i * BlockSize <= WriteTo(r, out[r])
        PROVE  writes(r, tables[r][i]) /\ wr(r)[tables[r][i]] = BlockHash(req[r].seq \o out[r], i)
    <2>1. PICK o, sq, to, w : BatchWrites(r, o, sq, to, w) /\ w = wr(r) /\ sq = req[r].seq \o out[r]
                              /\ to = WriteTo(r, out[r])
      BY <1>a
    <2>2. tables[r][i] \in DOMAIN w /\ w[tables[r][i]] = BlockHash(sq, i)
      BY <1>1, <1>5, <2>1, WrittenPassed
    <2>. QED  BY <2>1, <2>2
  <1>6. ASSUME NEW r \in Scheduled, NEW b, writes(r, b)
        PROVE  \E i \in 1..Len(tables[r]) : tables[r][i] = b /\ i * BlockSize > From(req[r])
    <2>1. PICK o, sq, to, w : BatchWrites(r, o, sq, to, w) /\ w = wr(r)
      BY <1>a
    <2>2. b \in DOMAIN w
      BY <1>6, <2>1
    <2>. QED  BY <1>1, <2>1, <2>2, WrittenIs
  <1>. HIDE DEF wr, writes
  <1>7. \A r \in Requests : /\ tables[r] \in Seq(Blocks) /\ Len(tables[r]) \in Nat
                            /\ DOMAIN tables[r] = 1..Len(tables[r])
                            /\ \A i \in 1..Len(tables[r]) : tables[r][i] \in Blocks
    BY <1>1, BooksTables, LenProperties, ElementOfSeq
  <1>8. ASSUME NEW b \in Blocks, pool'.hash[b] # NoHash
        PROVE  content'[b] = pool'.hash[b]
    <2>1. pool.hash[b] # NoHash /\ pool'.hash[b] = pool.hash[b]
      BY <1>1, <1>8
    <2>2. CASE \E r \in Scheduled : writes(r, b) /\ content'[b] = wr(r)[b]
      BY <1>4, <2>1, <2>2
    <2>3. CASE (\A r \in Scheduled : ~writes(r, b)) /\ content'[b] = content[b]
      <3>1. CASE PendingIn(tables, numCached, req, step.toks, b)
        <4>1. PICK r \in Requests :
                /\ step.toks[r] > 0
                /\ \E i \in 1..numCached[r] : tables[r][i] = b /\ i * BlockSize > From(req[r])
          BY <3>1 DEF PendingIn
        <4>2. PICK i \in 1..numCached[r] : tables[r][i] = b /\ i * BlockSize > From(req[r])
          BY <4>1
        <4>3. r \in Scheduled
          BY <4>1 DEF Scheduled
        <4>. DEFINE m == numCached[r]
        <4>4. /\ m \in Nat /\ m <= Len(tables[r]) /\ m * BlockSize <= Len(req[r].tokens)
              /\ Within(req[r], m, step.toks[r]) /\ req[r].status = "running"
              /\ req[r] \in ReqType /\ Sound(req[r]) /\ step.toks[r] \in Nat
          BY <1>1, <4>1 DEF Names, Named, Turns, Lines, Placed, StepType
        <4>5. i \in 1..Len(tables[r]) /\ i \in Int /\ i <= m /\ m \in Int
          <5>. HIDE DEF m
          <5>1. i \in 1..m
            BY DEF m
          <5>. QED  BY <1>7, <4>1, <4>4, <5>1
        <4>6. i * BlockSize <= m * BlockSize /\ i * BlockSize \in Int /\ m * BlockSize \in Int
          BY <4>5, Multiples
        <4>7. Len(req[r].tokens) \in Nat /\ req[r].computed \in Nat
          BY <4>4, FromIs
        <4>8. i * BlockSize <= req[r].computed + step.toks[r] /\ i * BlockSize <= Len(req[r].tokens)
          <5>1. m * BlockSize <= req[r].computed + step.toks[r]
            BY <4>4 DEF Within
          <5>. HIDE DEF m
          <5>. QED  BY <4>4, <4>6, <4>7, <5>1
        <4>9. i * BlockSize <= WriteTo(r, out[r])
          <5>1. PICK o, sq, to, w : BatchWrites(r, o, sq, to, w) /\ to = WriteTo(r, out[r])
            BY <1>a, <4>3
          <5>2. \A x \in Int : x <= req[r].computed + step.toks[r] /\ x <= Len(req[r].tokens) => x <= to
            BY <1>1, <5>1, WriteToIs
          <5>. QED  BY <4>6, <4>8, <5>1, <5>2
        <4>10. writes(r, b)
          BY <1>5, <4>2, <4>3, <4>5, <4>9
        <4>. QED  BY <2>3, <4>3, <4>10
      <3>2. CASE content[b] = pool.hash[b]
        BY <2>1, <2>3, <3>2
      <3>. QED  BY <2>1, <3>1, <3>2 DEF Filled, FilledOf
    <2>. QED  BY <1>3, <2>2, <2>3
  <1>9. ASSUME NEW r \in Requests, NEW i \in 1..Len(tables[r]), i * BlockSize <= From(req'[r]),
               pool.hash[tables[r][i]] = NoHash
        PROVE  content'[tables[r][i]] = BlockHash(req'[r].seq, i)
    <2>. DEFINE b == tables[r][i]
    <2>1. b \in Blocks /\ b \in ToSet(tables[r]) /\ i \in Int /\ i \in Nat \ {0}
      BY <1>7 DEF ToSet
    <2>2. i * BlockSize \in Int
      BY <2>1, Multiples
    <2>3. ASSUME NEW s \in Scheduled, writes(s, b)
          PROVE  s = r
      <3>1. PICK j \in 1..Len(tables[s]) : tables[s][j] = b
        BY <1>6, <2>3
      <3>2. s \in Requests /\ b \in ToSet(tables[s])
        BY <1>7, <3>1 DEF Scheduled, ToSet
      <3>3. pool.ref[b] <= 1 /\ pool.ref[b] \in Nat
        BY <1>1, <1>9, <2>1, BooksTables DEF Names, Unshared, PoolType
      <3>4. s # r => pool.ref[b] > 1
        BY <1>1, <2>1, <3>2, HeldTwice DEF Books
      <3>. QED  BY <3>3, <3>4
    <2>4. CASE r \notin Scheduled
      <3>1. req'[r] = req[r] /\ \A s \in Scheduled : ~writes(s, b)
        BY <1>2, <2>3, <2>4
      <3>2. content'[b] = content[b]
        BY <1>3, <2>1, <3>1
      <3>3. content[b] = BlockHash(req[r].seq, i)
        BY <1>9, <3>1 DEF Filled, FilledOf
      <3>. QED  BY <3>1, <3>2, <3>3
    <2>5. CASE r \in Scheduled
      <3>1. PICK o, sq, to, w : BatchWrites(r, o, sq, to, w) /\ sq = req[r].seq \o out[r]
                                /\ to = WriteTo(r, out[r])
        BY <1>a, <2>5
      <3>2. /\ sq \in Seq(Token) /\ Len(sq) \in Nat /\ Len(req[r].seq) <= Len(sq)
            /\ (\A j \in 1..Len(req[r].seq) : sq[j] = req[r].seq[j])
            /\ to \in Nat /\ MinOf(req[r].computed + step.toks[r], Len(sq) - 1) <= to
        <4>1. Lines /\ BatchWrites(r, o, sq, to, w)
          BY <1>1, <3>1
        <4>. QED  BY ONLY <4>1, WriteToIs
      <3>3. req[r] \in ReqType /\ Sound(req[r]) /\ step.toks[r] \in Nat
        BY <1>1 DEF Lines, StepType
      <3>4. /\ From(req[r]) \in Nat /\ From(req[r]) <= Len(req[r].seq) - 1 /\ Len(req[r].seq) \in Nat
            /\ req[r].computed \in Nat /\ req[r].seq \in Seq(Token)
        BY <3>3, FromIs DEF ReqType
      <3>5. req'[r].seq = sq /\ req'[r].computed = req[r].computed + step.toks[r]
        <4>1. req'[r] = Issued(req[r], r, out[r])
          BY <1>2, <2>5
        <4>2. /\ Issued(req[r], r, out[r]).seq = req[r].seq \o out[r]
              /\ Issued(req[r], r, out[r]).computed = req[r].computed + step.toks[r]
          BY <3>3 DEF Issued, ReqType
        <4>. QED  BY <3>1, <4>1, <4>2
      <3>6. i * BlockSize <= to
        <4>1. From(req'[r]) <= to /\ From(req'[r]) \in Int
          <5>1. From(req'[r]) = MinOf(req[r].computed + step.toks[r], Len(sq) - 1)
            BY <3>5 DEF From
          <5>. QED  BY <3>2, <3>3, <3>4, <5>1 DEF MinOf
        <4>. QED  BY <1>9, <2>2, <3>2, <4>1
      <3>7. CASE i * BlockSize > From(req[r])
        <4>1. writes(r, b) /\ wr(r)[b] = BlockHash(sq, i)
          BY <1>5, <2>5, <3>1, <3>6, <3>7
        <4>2. content'[b] = wr(r)[b]
          BY <1>3, <2>1, <2>3, <2>5, <4>1
        <4>. QED  BY <3>5, <4>1, <4>2
      <3>8. CASE i * BlockSize <= From(req[r])
        <4>1. ~writes(r, b)
          <5>. SUFFICES ASSUME writes(r, b) PROVE FALSE
            OBVIOUS
          <5>1. PICK j \in 1..Len(tables[r]) : tables[r][j] = b /\ j * BlockSize > From(req[r])
            BY <1>6, <2>5
          <5>2. j = i
            <6>1. IsInjective(tables[r])
              BY <1>1 DEF Books, BooksOf
            <6>. QED  BY <1>7, <5>1, <6>1 DEF IsInjective
          <5>. QED  BY <2>2, <3>4, <3>8, <5>1, <5>2
        <4>2. content'[b] = content[b]
          BY <1>3, <2>1, <2>3, <4>1
        <4>3. content[b] = BlockHash(req[r].seq, i)
          BY <1>9, <3>8 DEF Filled, FilledOf
        <4>4. BlockHash(req[r].seq, i) = BlockHash(sq, i)
          <5>. DEFINE k == i * BlockSize
          <5>1. k \in Int /\ k <= From(req[r])
            BY <2>2, <3>8
          <5>. HIDE DEF k
          <5>2. k <= Len(req[r].seq) /\ k <= Len(sq) /\ \A j \in 1..k : req[r].seq[j] = sq[j]
            BY <3>2, <3>4, <5>1
          <5>. QED  BY <2>1, <3>2, <3>4, <5>2, SameBlockHash DEF k
        <4>. QED  BY <3>5, <4>2, <4>3, <4>4
      <3>. QED  BY <2>2, <3>4, <3>7, <3>8
    <2>. QED  BY <2>4, <2>5
  <1>. QED  BY <1>1, <1>8, <1>9 DEF Filled, FilledOf

(* Contents: the hashes and turns, and under the default policy the blocks *)
(* hold what their hashes stand for.  The priority policy may preempt a    *)
(* request of the batch being scheduled, whose blocks are then cached and  *)
(* never written.                                                          *)
Contents == Sharing /\ (~Priority => Filled)

LEMMA InitContents == Init => Contents
  <1>. SUFFICES ASSUME Init PROVE Filled
    BY InitSharing DEF Contents
  <1>1. /\ \A b \in Blocks : pool.hash[b] = NoHash
        /\ \A r \in Requests : tables[r] = <<>>
    BY DEF Init
  <1>2. \A r \in Requests : 1..Len(tables[r]) = {}
    BY <1>1
  <1>. QED  BY <1>1, <1>2 DEF Filled, FilledOf

LEMMA FilledStep ==
  ASSUME ~Priority, Sharing, Sharing', Filled, [Next]_vars
  PROVE  Filled'
  <1>. USE DEF Sharing
  <1>1. CASE ScheduleRunning
    BY <1>1, ScheduleRunningFilled
  <1>2. CASE SkipRunning
    <2>1. UNCHANGED <<pool, tables, numCached, req, content>> /\ step'.toks = step.toks
      BY <1>2 DEF SkipRunning, Inv, Lines, StepType
    <2>. QED  BY <2>1 DEF Filled
  <1>3. CASE Preempt
    BY <1>3, PreemptFilled
  <1>4. ASSUME NEW r \in Requests, AdmitWaiting(r)
        PROVE  Filled'
    BY <1>4, AdmitWaitingFilled
  <1>5. ASSUME NEW r \in Requests, ProcessOutput(r)
        PROVE  Filled'
    BY <1>5, ProcessOutputFilled
  <1>6. ASSUME NEW r \in Requests, Abort(r)
        PROVE  Filled'
    BY <1>6, AbortFilled
  <1>7. CASE IssueBatch
    BY <1>7, IssueBatchFilled
  <1>8. CASE DrainDeferredFree
    BY <1>8, DrainFilled
  <1>9. CASE ResetPreempt
    BY <1>9, ResetPreemptFilled
  <1>10. CASE ResetPrefixCache
    BY <1>10, ResetPrefixCacheFilled
  <1>11. CASE UNCHANGED vars
    <2>1. UNCHANGED <<pool, tables, numCached, req, step, content>>
      BY <1>11 DEF vars
    <2>. QED  BY <2>1 DEF Filled
  <1>. QED  BY <1>1, <1>2, <1>3, <1>4, <1>5, <1>6, <1>7, <1>8, <1>9, <1>10, <1>11 DEF Next

LEMMA ContentsStep == Contents /\ [Next]_vars => Contents'
  BY SharingStep, FilledStep DEF Contents

(* The contents of the cache, in every behaviour: under the default policy *)
(* a block that has a hash holds the tokens the hash stands for, or is one *)
(* that allocate_slots cached ahead of the batch that will write it; and a *)
(* table's block that has none holds its request's own tokens as far as    *)
(* they are computed.                                                      *)
THEOREM ContentsHold == Spec => []Contents
  <1>. QED  BY InitContents, ContentsStep, PTL DEF Spec

(* Between two steps nothing is left to be written. *)
LEMMA IdleFilled ==
  ASSUME Filled, Idle, NEW b \in Blocks, pool.hash[b] # NoHash
  PROVE  content[b] = pool.hash[b]
  <1>1. \A r \in Requests : ~(step.toks[r] > 0)
    BY DEF Idle, NoStep
  <1>2. ~PendingIn(tables, numCached, req, step.toks, b)
    BY <1>1 DEF PendingIn
  <1>. QED  BY <1>2 DEF Filled, FilledOf

(* The prefix cache never serves wrong values: between two steps every     *)
(* block that can be hit has been written, with the tokens its hash stands *)
(* for, although allocate_slots caches a block before its batch has run    *)
(* (kv_cache_manager.py), under the default policy.                        *)
THEOREM CachedBlocksFilled ==
  ASSUME ~Priority
  PROVE  Spec => []CacheIntegrity
  <1>1. Contents => CacheIntegrity
    BY IdleFilled DEF Contents, CacheIntegrity
  <1>. QED  BY <1>1, ContentsHold, PTL

(* A running request's table holds the KV of its own sequence as far as it *)
(* is computed, through hits, sharing, eviction and preemption, under the  *)
(* default policy.                                                         *)
THEOREM ReadsOwn ==
  ASSUME ~Priority
  PROVE  Spec => []ReadsOwnTokens
  <1>1. Contents => ReadsOwnTokens
    <2>. SUFFICES ASSUME Inv, Names, Filled, Idle, NEW r \in ToSet(running),
                         NEW i \in 1..Len(tables[r]), i * BlockSize <= WriteFrom(r)
                  PROVE  content[tables[r][i]] = BlockHash(req[r].seq, i)
      BY DEF Contents, Sharing, ReadsOwnTokens
    <2>1. r \in Requests /\ req[r] \in ReqType /\ Sound(req[r])
      BY DEF Inv, Lines, Lists, RunningOf
    <2>2. tables[r] \in Seq(Blocks) /\ Len(tables[r]) \in Nat
      BY <2>1, BooksTables, LenProperties DEF Inv
    <2>3. tables[r][i] \in Blocks /\ i \in Nat \ {0}
      BY <2>2, ElementOfSeq
    <2>4. WriteFrom(r) = From(req[r])
      BY DEF WriteFrom, From
    <2>5. CASE pool.hash[tables[r][i]] = NoHash
      BY <2>1, <2>4, <2>5 DEF Filled, FilledOf
    <2>6. CASE pool.hash[tables[r][i]] # NoHash
      <3>. DEFINE m == numCached[r]
      <3>1. m \in Nat /\ m * BlockSize <= Len(req[r].tokens) /\ i <= m
            /\ pool.hash[tables[r][i]] = BlockHash(req[r].tokens, i)
        BY <2>1, <2>6 DEF Names, Named
      <3>2. i * BlockSize <= m * BlockSize /\ i * BlockSize \in Int /\ m * BlockSize \in Int
        BY <2>3, <3>1, Multiples
      <3>3. i * BlockSize <= Len(req[r].tokens)
        <4>1. Len(req[r].tokens) \in Nat
          BY <2>1, FromIs
        <4>. HIDE DEF m
        <4>. QED  BY <3>1, <3>2, <4>1
      <3>4. BlockHash(req[r].tokens, i) = BlockHash(req[r].seq, i)
        BY <2>1, <2>3, <3>3, SeqBlockHash
      <3>5. content[tables[r][i]] = pool.hash[tables[r][i]]
        BY <2>3, <2>6, IdleFilled
      <3>. QED  BY <3>1, <3>4, <3>5
    <2>. QED  BY <2>5, <2>6
  <1>. QED  BY <1>1, ContentsHold, PTL
==============================================================================
