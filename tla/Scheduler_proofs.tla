-------------------------- MODULE Scheduler_proofs --------------------------
(***************************************************************************)
(* The scheduler keeps its queues, blocks, counters and outputs straight   *)
(* for any requests, pool, batch depth, drafts and policy, through every   *)
(* preemption, abort, stop and reset.                                      *)
(***************************************************************************)
EXTENDS Scheduler, Queues_proofs

(* What is needed of the constants, in the form the provers use *)
LEMMA Numbers ==
  /\ BlockSize \in Nat \ {0} /\ TokenBudget \in Nat \ {0}
  /\ MaxNumSeqs \in Nat \ {0} /\ PPSize \in Nat \ {0}
  /\ NumSpec \in Nat /\ NumLookahead \in Nat /\ WatermarkBlocks \in Nat /\ MaxResets \in Nat
  /\ MaxModelLen \in Nat
  /\ \A r \in Requests : PromptLen[r] \in Nat \ {0} /\ MaxTokens[r] \in Nat \ {0}
  /\ \A r \in Requests : PromptLen[r] <= MaxModelLen - 1
  BY SchedulerAssumption

(* Requests and blocks are finitely many. *)
LEMMA Finiteness == IsFiniteSet(Requests) /\ IsFiniteSet(Blocks)
  BY SchedulerAssumption
-----------------------------------------------------------------------------
(* Queues *)

(* The queue q holds the requests S, once each. *)
Lists(q, S) == q \in Seq(Requests) /\ IsInjective(q) /\ ToSet(q) = S

(* The empty queue holds nobody, and is the only one that does. *)
LEMMA EmptyLists ==
  /\ Lists(<<>>, {})
  /\ \A q : Lists(q, {}) => q = <<>>
  <1>1. Lists(<<>>, {})
    BY DEF Lists, IsInjective, ToSet
  <1>2. ASSUME NEW q, Lists(q, {})
        PROVE  q = <<>>
    <2>1. q \in Seq(Requests) /\ Len(q) \in Nat /\ DOMAIN q = 1..Len(q)
      BY <1>2, LenProperties DEF Lists
    <2>2. 1 \notin DOMAIN q
      BY <1>2 DEF Lists, ToSet
    <2>. QED  BY <2>1, <2>2, EmptySeq
  <1>. QED  BY <1>1, <1>2

(* The heap of the priority queue holds what was put in. *)
LEMMA ByRankLists ==
  ASSUME NEW S \in SUBSET Requests
  PROVE  Lists(ByRank(S), S)
  <1>. DEFINE R == {Rank[r] : r \in S}
              g == [r \in S |-> Rank[r]]
              ranks == Ascending(R)
              w == ByRank(S)
  <1>1. g \in Surjection(S, R) /\ R \in SUBSET Int
    BY SchedulerAssumption DEF Surjection
  <1>2. IsFiniteSet(S)
    BY Finiteness, FS_Subset
  <1>3. IsFiniteSet(R)
    BY <1>1, <1>2, FS_Surjection
  <1>4. /\ ranks \in Seq(R)
        /\ DOMAIN ranks = 1..Cardinality(R)
        /\ \A x \in R : \E i \in DOMAIN ranks : ranks[i] = x
        /\ IsInjective(ranks)
    BY <1>1, <1>3, AscendingLists
  <1>5. Cardinality(R) \in Nat
    BY <1>3, FS_CardinalityType
  <1>6. w = [i \in DOMAIN ranks |-> CHOOSE r \in S : Rank[r] = ranks[i]]
    BY DEF ByRank
  <1>7. ASSUME NEW i \in DOMAIN ranks
        PROVE  w[i] \in S /\ Rank[w[i]] = ranks[i]
    <2>1. ranks[i] \in R
      <3>1. ranks \in [1..Len(ranks) -> R]
        BY <1>4, LenProperties
      <3>. QED  BY <3>1
    <2>2. \E r \in S : Rank[r] = ranks[i]
      BY <2>1
    <2>. QED  BY <1>6, <2>2
  <1>8. \A r, s \in S : Rank[r] = Rank[s] => r = s
    BY SchedulerAssumption
  <1>9. \A r \in S : Rank[r] \in R
    OBVIOUS
  <1>10. DOMAIN w = DOMAIN ranks
    BY <1>6
  <1>. HIDE DEF R, ranks, w
  <1>11. w \in Seq(Requests)
    <2>1. PICK n \in Nat : n = Cardinality(R)
      BY <1>5
    <2>2. w \in [1..n -> Requests]
      BY <1>4, <1>6, <1>7, <1>10, <2>1
    <2>. QED  BY <2>2, SeqDef
  <1>12. IsInjective(w)
    BY <1>4, <1>7, <1>10 DEF IsInjective
  <1>13. ToSet(w) = S
    <2>1. ASSUME NEW r \in S
          PROVE  \E i \in DOMAIN w : w[i] = r
      <3>1. PICK i \in DOMAIN ranks : ranks[i] = Rank[r]
        BY <1>4, <1>9
      <3>. QED  BY <1>7, <1>8, <1>10, <3>1
    <2>. QED  BY <1>7, <1>10, <2>1 DEF ToSet
  <1>. QED  BY <1>11, <1>12, <1>13 DEF Lists, w

(* A request that joins at the end is in the queue once. *)
LEMMA AppendLists ==
  ASSUME NEW q, NEW S, Lists(q, S), NEW r \in Requests, r \notin S
  PROVE  Lists(Append(q, r), S \cup {r})
  <1>1. /\ Append(q, r) \in Seq(Requests) /\ Len(q) \in Nat
        /\ DOMAIN q = 1..Len(q)
        /\ DOMAIN Append(q, r) = 1..(Len(q) + 1)
        /\ Append(q, r)[Len(q) + 1] = r
        /\ \A i \in 1..Len(q) : Append(q, r)[i] = q[i]
    BY AppendProperties, LenProperties DEF Lists
  <1>2. \A i \in 1..(Len(q) + 1) : i \in 1..Len(q) \/ i = Len(q) + 1
    BY <1>1
  <1>3. \A i \in 1..Len(q) : i \in 1..(Len(q) + 1) /\ q[i] \in S /\ q[i] # r
    BY <1>1 DEF Lists, ToSet
  <1>4. IsInjective(Append(q, r))
    BY <1>1, <1>2, <1>3 DEF Lists, IsInjective
  <1>5. ToSet(Append(q, r)) = S \cup {r}
    <2>1. \A x \in S : \E i \in 1..Len(q) : q[i] = x
      BY <1>1 DEF Lists, ToSet
    <2>2. Len(q) + 1 \in 1..(Len(q) + 1)
      BY <1>1
    <2>3. \A x \in S \cup {r} : \E i \in 1..(Len(q) + 1) : Append(q, r)[i] = x
      BY <1>1, <1>3, <2>1, <2>2
    <2>4. \A i \in 1..(Len(q) + 1) : Append(q, r)[i] \in S \cup {r}
      BY <1>1, <1>2, <1>3
    <2>. QED  BY <1>1, <2>3, <2>4 DEF ToSet
  <1>. QED  BY <1>1, <1>4, <1>5 DEF Lists

(* Two queues with nobody in common, one behind the other *)
LEMMA ConcatLists ==
  ASSUME NEW p, NEW S, Lists(p, S), NEW q, NEW T, Lists(q, T), S \cap T = {}
  PROVE  Lists(p \o q, S \cup T)
  <1>. DEFINE m == Len(p)
              n == Len(q)
              w == p \o q
  <1>1. /\ p \in [1..m -> S] /\ q \in [1..n -> T] /\ m \in Nat /\ n \in Nat
        /\ \A x \in S : \E i \in 1..m : p[i] = x
        /\ \A x \in T : \E i \in 1..n : q[i] = x
    BY LenProperties DEF Lists, ToSet
  <1>2. /\ w \in Seq(Requests) /\ DOMAIN w = 1..(m + n)
        /\ \A i \in 1..(m + n) : w[i] = IF i <= m THEN p[i] ELSE q[i - m]
    BY ConcatProperties, LenProperties DEF Lists
  <1>3. /\ \A i \in 1..(m + n) : IF i <= m THEN i \in 1..m ELSE i - m \in 1..n
        /\ \A i \in 1..m : i \in 1..(m + n) /\ i <= m
        /\ \A i \in 1..n : i + m \in 1..(m + n) /\ ~(i + m <= m) /\ i + m - m = i
        /\ \A i, j \in 1..(m + n) : i - m = j - m => i = j
    BY <1>1
  <1>. HIDE DEF m, n, w
  <1>4. \A i \in 1..(m + n) : w[i] \in S \cup T
    BY <1>1, <1>2, <1>3
  <1>5. \A x \in S \cup T : \E i \in 1..(m + n) : w[i] = x
    <2>1. \A x \in S : \E i \in 1..(m + n) : w[i] = x
      BY <1>1, <1>2, <1>3
    <2>2. ASSUME NEW x \in T
          PROVE  \E i \in 1..(m + n) : w[i] = x
      <3>1. PICK i \in 1..n : q[i] = x
        BY <1>1
      <3>. DEFINE k == i + m
      <3>2. k \in 1..(m + n) /\ ~(k <= m) /\ k - m = i
        BY <1>1, <1>3
      <3>. HIDE DEF k
      <3>3. w[k] = q[k - m]
        BY <1>2, <3>2
      <3>. QED  BY <3>1, <3>2, <3>3
    <2>. QED  BY <2>1, <2>2
  <1>6. /\ \A i, j \in 1..m : p[i] = p[j] => i = j
        /\ \A i, j \in 1..n : q[i] = q[j] => i = j
    BY <1>1 DEF Lists, IsInjective
  <1>7. ASSUME NEW i \in 1..(m + n), NEW j \in 1..(m + n), w[i] = w[j]
        PROVE  i = j
    <2>1. CASE i <= m /\ j <= m
      BY <1>2, <1>3, <1>6, <1>7, <2>1
    <2>2. CASE ~(i <= m) /\ ~(j <= m)
      <3>1. i - m \in 1..n /\ j - m \in 1..n /\ q[i - m] = q[j - m]
        BY <1>2, <1>3, <1>7, <2>2
      <3>2. i - m = j - m
        BY <1>6, <3>1
      <3>. QED  BY <1>3, <3>2
    <2>3. \A k \in 1..(m + n) : (k <= m => w[k] \in S) /\ (~(k <= m) => w[k] \in T)
      BY <1>1, <1>2, <1>3
    <2>4. ~(w[i] \in S /\ w[i] \in T)
      OBVIOUS
    <2>5. CASE i <= m /\ ~(j <= m)
      BY <1>7, <2>3, <2>4, <2>5
    <2>6. CASE ~(i <= m) /\ j <= m
      BY <1>7, <2>3, <2>4, <2>6
    <2>. QED  BY <2>1, <2>2, <2>5, <2>6
  <1>8. ToSet(w) = S \cup T
    BY <1>2, <1>4, <1>5 DEF ToSet
  <1>9. IsInjective(w)
    BY <1>2, <1>7 DEF IsInjective
  <1>. QED  BY <1>2, <1>8, <1>9 DEF Lists, w

(* A queue turned round holds the same requests. *)
LEMMA ReverseLists ==
  ASSUME NEW q, NEW S, Lists(q, S)
  PROVE  Lists(Reverse(q), S)
  <1>. DEFINE n == Len(q)
              w == Reverse(q)
  <1>1. /\ q \in [1..n -> Requests] /\ n \in Nat
        /\ \A i \in 1..n : q[i] \in S
        /\ \A x \in S : \E i \in 1..n : q[i] = x
        /\ \A i, j \in 1..n : q[i] = q[j] => i = j
    BY LenProperties DEF Lists, ToSet, IsInjective
  <1>2. w = [i \in 1..n |-> q[(n - i) + 1]]
    BY DEF Reverse
  <1>3. /\ \A i \in 1..n : (n - i) + 1 \in 1..n /\ (n - ((n - i) + 1)) + 1 = i
        /\ \A i, j \in 1..n : (n - i) + 1 = (n - j) + 1 => i = j
    BY <1>1
  <1>4. w \in [1..n -> Requests] /\ \A i \in 1..n : w[i] = q[(n - i) + 1]
    BY <1>1, <1>2, <1>3
  <1>. HIDE DEF w, n
  <1>5. w \in Seq(Requests)
    BY <1>1, <1>4, SeqDef
  <1>6. \A x \in S : \E i \in 1..n : w[i] = x
    <2>. SUFFICES ASSUME NEW x \in S
                  PROVE  \E i \in 1..n : w[i] = x
      OBVIOUS
    <2>1. PICK i \in 1..n : q[i] = x
      BY <1>1
    <2>2. w[(n - i) + 1] = q[(n - ((n - i) + 1)) + 1] /\ (n - i) + 1 \in 1..n
      BY <1>3, <1>4
    <2>3. (n - ((n - i) + 1)) + 1 = i
      BY <1>3
    <2>. QED  BY <2>1, <2>2, <2>3
  <1>7. \A i, j \in 1..n : w[i] = w[j] => i = j
    BY <1>1, <1>3, <1>4
  <1>8. DOMAIN w = 1..n /\ \A i \in 1..n : w[i] \in S
    BY <1>1, <1>3, <1>4
  <1>9. ToSet(w) = S
    BY <1>6, <1>8 DEF ToSet
  <1>. QED  BY <1>5, <1>7, <1>8, <1>9 DEF Lists, IsInjective, w

(* The head leaves the queue, the others stay. *)
LEMMA TailLists ==
  ASSUME NEW q, NEW S, Lists(q, S), q # <<>>
  PROVE  Head(q) \in S /\ Lists(Tail(q), S \ {Head(q)})
  <1>. DEFINE n == Len(q)
              w == Tail(q)
  <1>1. /\ q \in [1..n -> Requests] /\ n \in Nat
        /\ \A i \in 1..n : q[i] \in S
        /\ \A x \in S : \E i \in 1..n : q[i] = x
        /\ \A i, j \in 1..n : q[i] = q[j] => i = j
    BY LenProperties DEF Lists, ToSet, IsInjective
  <1>2. /\ n > 0 /\ Head(q) = q[1] /\ w \in Seq(Requests)
        /\ Len(w) = n - 1 /\ \A i \in 1..(n - 1) : w[i] = q[i + 1]
    BY EmptySeq, LenProperties DEF Lists
  <1>3. DOMAIN w = 1..(n - 1)
    BY <1>2, LenProperties
  <1>. HIDE DEF w, n
  <1>4. 1 \in 1..n /\ \A i \in 1..(n - 1) : i + 1 \in 1..n /\ i + 1 # 1
    BY <1>1, <1>2
  <1>5. \A i \in 1..(n - 1) : w[i] \in S \ {Head(q)}
    BY <1>1, <1>2, <1>4
  <1>6. \A x \in S \ {Head(q)} : \E i \in 1..(n - 1) : w[i] = x
    <2>. SUFFICES ASSUME NEW x \in S \ {Head(q)}
                  PROVE  \E i \in 1..(n - 1) : w[i] = x
      OBVIOUS
    <2>1. PICK i \in 1..n : q[i] = x
      BY <1>1
    <2>2. i # 1
      BY <1>2, <2>1
    <2>3. i - 1 \in 1..(n - 1) /\ (i - 1) + 1 = i
      BY <1>1, <2>2
    <2>. QED  BY <1>2, <2>1, <2>3
  <1>7. \A i, j \in 1..(n - 1) : w[i] = w[j] => i = j
    <2>1. \A i, j \in 1..(n - 1) : i + 1 = j + 1 => i = j
      BY <1>1
    <2>. QED  BY <1>1, <1>2, <1>4, <2>1
  <1>8. Head(q) \in S
    BY <1>1, <1>2, <1>4
  <1>9. ToSet(w) = S \ {Head(q)}
    BY <1>3, <1>5, <1>6 DEF ToSet
  <1>10. IsInjective(w)
    BY <1>3, <1>7 DEF IsInjective
  <1>. QED  BY <1>2, <1>8, <1>9, <1>10 DEF Lists, w

(* Without takes out exactly the requests it is given. *)
LEMMA WithoutLists ==
  ASSUME NEW q, NEW S, Lists(q, S), NEW X
  PROVE  Lists(Without(q, X), S \ X)
  <1>. DEFINE w == Without(q, X)
  <1>1. /\ w \in Seq(Requests)
        /\ \A k \in DOMAIN w : w[k] \notin X /\ \E i \in DOMAIN q : q[i] = w[k]
        /\ \A i \in DOMAIN q : q[i] \notin X => \E k \in DOMAIN w : w[k] = q[i]
        /\ IsInjective(w)
    BY WithoutRemoves DEF Lists
  <1>. HIDE DEF w
  <1>. QED  BY <1>1 DEF Lists, ToSet, w

(* Adding a request to a queue *)
LEMMA AddToLists ==
  ASSUME NEW q, NEW S, Lists(q, S), NEW r \in Requests, r \notin S
  PROVE  Lists(AddTo(q, r), S \cup {r})
  <1>1. CASE Policy = "fcfs"
    BY <1>1, AppendLists DEF AddTo
  <1>2. CASE Policy # "fcfs"
    <2>1. AddTo(q, r) = ByRank(S \cup {r})
      BY <1>2 DEF AddTo, Lists
    <2>2. S \cup {r} \in SUBSET Requests
      BY ElementOfSeq DEF Lists, ToSet
    <2>. QED  BY <2>1, <2>2, ByRankLists
  <1>. QED  BY <1>1, <1>2

(* Returning requests to the front of a queue *)
LEMMA PrependAllLists ==
  ASSUME NEW q, NEW S, Lists(q, S), NEW s, NEW T, Lists(s, T), S \cap T = {}
  PROVE  Lists(PrependAll(q, s), S \cup T)
  <1>1. CASE Policy = "fcfs"
    <2>1. Lists(Reverse(s), T)
      BY ReverseLists
    <2>2. Lists(Reverse(s) \o q, T \cup S)
      BY <2>1, ConcatLists
    <2>3. T \cup S = S \cup T
      OBVIOUS
    <2>. QED  BY <1>1, <2>2, <2>3 DEF PrependAll
  <1>2. CASE Policy # "fcfs"
    <2>1. PrependAll(q, s) = ByRank(S \cup T)
      BY <1>2 DEF PrependAll, Lists
    <2>2. S \cup T \in SUBSET Requests
      BY ElementOfSeq DEF Lists, ToSet
    <2>. QED  BY <2>1, <2>2, ByRankLists
  <1>. QED  BY <1>1, <1>2
-----------------------------------------------------------------------------
(* Blocks *)

DeferredType == [fence : Nat, blocks : SUBSET Blocks]
KVType ==
  [free : SUBSET Blocks, tables : [Requests -> SUBSET Blocks], deferred : Seq(DeferredType)]

(* SetToSeq lists a finite set. *)
LEMMA SetToSeqLists ==
  ASSUME NEW S, IsFiniteSet(S)
  PROVE  /\ SetToSeq(S) \in [1..Cardinality(S) -> S]
         /\ Cardinality(S) \in Nat
         /\ \A i, j \in 1..Cardinality(S) : SetToSeq(S)[i] = SetToSeq(S)[j] => i = j
         /\ \A x \in S : \E i \in 1..Cardinality(S) : SetToSeq(S)[i] = x
  <1>. DEFINE D == 1..Cardinality(S)
              f == SetToSeq(S)
  <1>1. Cardinality(S) \in Nat /\ ExistsBijection(D, S)
    BY FS_CardinalityType
  <1>2. PICK g : g \in Bijection(D, S)
    BY <1>1 DEF ExistsBijection
  <1>3. g \in [D -> S] /\ IsInjective(g)
    BY <1>2 DEF Bijection, Injection, IsInjective
  <1>4. f = CHOOSE h \in [D -> S] : IsInjective(h)
    BY DEF SetToSeq
  <1>. HIDE DEF f, D
  <1>5. f \in [D -> S] /\ IsInjective(f)
    BY <1>3, <1>4
  <1>6. IsFiniteSet(D) /\ Cardinality(D) = Cardinality(S)
    BY <1>1, FS_Interval DEF D
  <1>7. f \in Injection(D, S)
    BY <1>5 DEF Injection, IsInjective
  <1>8. f \in Surjection(D, S)
    BY <1>6, <1>7, FS_Injection
  <1>9. \A x \in S : \E i \in D : f[i] = x
    BY <1>8 DEF Surjection
  <1>10. \A i, j \in D : f[i] = f[j] => i = j
    BY <1>5 DEF IsInjective
  <1>. QED  BY <1>1, <1>5, <1>9, <1>10 DEF D, f

(* The tables that _free_request_blocks queues behind the last step *)
LateOf(k, S, done) == {r \in S : Late(r, done) /\ k.tables[r] # {}}
LateEntries(k, S, done) ==
  LET order == SetToSeq(LateOf(k, S, done))
  IN [i \in DOMAIN order |-> [fence |-> schedSeq, blocks |-> k.tables[order[i]]]]

(* What _free_request_blocks does, field by field *)
LEMMA FreeRequestBlocksIs ==
  ASSUME NEW k, NEW S, NEW done
  PROVE  FreeRequestBlocks(k, S, done) =
           [free     |-> k.free \cup UNION {k.tables[r] : r \in S \ LateOf(k, S, done)},
            tables   |-> [r \in Requests |-> IF r \in S THEN {} ELSE k.tables[r]],
            deferred |-> k.deferred \o LateEntries(k, S, done)]
  BY DEF FreeRequestBlocks, LateOf, LateEntries

(* e lists the tables of L, one each, in the given order. *)
EntriesOf(e, k, L, c, order) ==
  /\ c \in Nat /\ order \in [1..c -> L]
  /\ \A i, j \in 1..c : order[i] = order[j] => i = j
  /\ \A r \in L : \E i \in 1..c : order[i] = r
  /\ e \in Seq(DeferredType) /\ Len(e) = c
  /\ \A i \in 1..c : e[i] = [fence |-> schedSeq, blocks |-> k.tables[order[i]]]

(* The queued entries are the late tables, one each. *)
LEMMA LateEntriesList ==
  ASSUME NEW k \in KVType, NEW S \in SUBSET Requests, NEW done, schedSeq \in Nat
  PROVE  /\ \E c, order : EntriesOf(LateEntries(k, S, done), k, LateOf(k, S, done), c, order)
         /\ LateEntries(k, S, done) \in Seq(DeferredType)
  <1>. DEFINE L == LateOf(k, S, done)
              c == Cardinality(L)
              order == SetToSeq(L)
              e == LateEntries(k, S, done)
  <1>1. L \in SUBSET Requests
    BY DEF LateOf
  <1>2. IsFiniteSet(L)
    BY <1>1, Finiteness, FS_Subset
  <1>. HIDE DEF L
  <1>3. /\ order \in [1..c -> L] /\ c \in Nat
        /\ \A i, j \in 1..c : order[i] = order[j] => i = j
        /\ \A r \in L : \E i \in 1..c : order[i] = r
    BY <1>2, SetToSeqLists
  <1>4. e = [i \in DOMAIN order |-> [fence |-> schedSeq, blocks |-> k.tables[order[i]]]]
    BY DEF LateEntries, L
  <1>. HIDE DEF order, c, e
  <1>5. \A r \in Requests : k.tables[r] \in SUBSET Blocks
    BY DEF KVType
  <1>6. e = [i \in 1..c |-> [fence |-> schedSeq, blocks |-> k.tables[order[i]]]]
    BY <1>3, <1>4
  <1>7. \A i \in 1..c : [fence |-> schedSeq, blocks |-> k.tables[order[i]]] \in DeferredType
    BY <1>1, <1>3, <1>5 DEF DeferredType
  <1>8. /\ e \in [1..c -> DeferredType]
        /\ \A i \in 1..c : e[i] = [fence |-> schedSeq, blocks |-> k.tables[order[i]]]
    BY <1>6, <1>7
  <1>9. e \in Seq(DeferredType) /\ Len(e) = c
    BY <1>3, <1>8, SeqDef, LenProperties
  <1>10. EntriesOf(e, k, L, c, order)
    BY <1>3, <1>8, <1>9 DEF EntriesOf
  <1>. QED  BY <1>9, <1>10 DEF L, e

(* Freeing the blocks of S keeps the types. *)
LEMMA FreeType ==
  ASSUME NEW k \in KVType, NEW S \in SUBSET Requests, NEW done, schedSeq \in Nat
  PROVE  FreeRequestBlocks(k, S, done) \in KVType
  <1>. DEFINE e == LateEntries(k, S, done)
              w == FreeRequestBlocks(k, S, done)
  <1>1. e \in Seq(DeferredType)
    BY LateEntriesList
  <1>2. k.deferred \in Seq(DeferredType) /\ k.free \in SUBSET Blocks
        /\ k.tables \in [Requests -> SUBSET Blocks]
    BY DEF KVType
  <1>. HIDE DEF e
  <1>3. k.deferred \o e \in Seq(DeferredType)
    BY <1>1, <1>2, ConcatProperties
  <1>4. k.free \cup UNION {k.tables[r] : r \in S \ LateOf(k, S, done)} \in SUBSET Blocks
    BY <1>2
  <1>5. [r \in Requests |-> IF r \in S THEN {} ELSE k.tables[r]] \in [Requests -> SUBSET Blocks]
    BY <1>2
  <1>6. w = [free     |-> k.free \cup UNION {k.tables[r] : r \in S \ LateOf(k, S, done)},
             tables   |-> [r \in Requests |-> IF r \in S THEN {} ELSE k.tables[r]],
             deferred |-> k.deferred \o e]
    BY FreeRequestBlocksIs DEF e
  <1>. HIDE DEF w
  <1>7. w \in KVType
    BY <1>3, <1>4, <1>5, <1>6 DEF KVType
  <1>. QED  BY <1>7 DEF w

(* The number of entries that the fence lets go *)
LEMMA NumReadyIs ==
  ASSUME NEW k \in KVType, NEW done \in Nat
  PROVE  /\ NumReady(k, done) \in 0..Len(k.deferred)
         /\ \A i \in 1..NumReady(k, done) : k.deferred[i].fence <= done
         /\ NumReady(k, done) < Len(k.deferred) =>
              ~(k.deferred[NumReady(k, done) + 1].fence <= done)
  <1>. DEFINE n == Len(k.deferred)
              Ready == {m \in 0..n : \A i \in 1..m : k.deferred[i].fence <= done}
  <1>1. n \in Nat
    BY LenProperties DEF KVType
  <1>2. 0 \in Ready /\ Ready \in SUBSET (0..n)
    BY <1>1
  <1>3. \E x \in Ready : \A y \in Ready : x >= y
    <2>. HIDE DEF Ready, n
    <2>. QED  BY <1>1, <1>2, GreatestElement
  <1>4. NumReady(k, done) = CHOOSE x \in Ready : \A y \in Ready : x >= y
    BY DEF NumReady, Max
  <1>. DEFINE m == NumReady(k, done)
  <1>5. m \in Ready /\ \A y \in Ready : m >= y
    <2>. HIDE DEF Ready
    <2>. QED  BY <1>3, <1>4
  <1>6. m \in 0..n /\ m + 1 \notin Ready
    BY <1>1, <1>5
  <1>7. m < n => ~(k.deferred[m + 1].fence <= done)
    <2>. HIDE DEF m
    <2>1. ASSUME m < n, k.deferred[m + 1].fence <= done
          PROVE  FALSE
      <3>1. m + 1 \in 0..n
        BY <1>1, <1>6, <2>1
      <3>2. \A i \in 1..(m + 1) : i = m + 1 \/ i \in 1..m
        BY <1>6
      <3>3. \A i \in 1..(m + 1) : k.deferred[i].fence <= done
        BY <1>5, <2>1, <3>2
      <3>. QED  BY <1>6, <3>1, <3>3
    <2>. QED  BY <2>1
  <1>. QED  BY <1>5, <1>7

(* Draining takes the first entries off the queue. *)
LEMMA DrainIs ==
  ASSUME NEW k \in KVType, NEW done \in Nat
  PROVE  \E m \in 0..Len(k.deferred) :
           /\ \A i \in 1..m : k.deferred[i].fence <= done
           /\ m < Len(k.deferred) => ~(k.deferred[m + 1].fence <= done)
           /\ DrainDeferredFrees(k, done) =
                [free     |-> k.free \cup UNION {k.deferred[i].blocks : i \in 1..m},
                 tables   |-> k.tables,
                 deferred |-> SubSeq(k.deferred, m + 1, Len(k.deferred))]
           /\ SubSeq(k.deferred, m + 1, Len(k.deferred)) \in Seq(DeferredType)
           /\ Len(SubSeq(k.deferred, m + 1, Len(k.deferred))) = Len(k.deferred) - m
           /\ \A i \in 1..(Len(k.deferred) - m) :
                SubSeq(k.deferred, m + 1, Len(k.deferred))[i] = k.deferred[m + i]
           /\ DrainDeferredFrees(k, done) \in KVType
  <1>. DEFINE m == NumReady(k, done)
              d == k.deferred
              n == Len(d)
              t == SubSeq(d, m + 1, n)
              w == DrainDeferredFrees(k, done)
  <1>1. /\ m \in 0..n /\ \A i \in 1..m : d[i].fence <= done
        /\ m < n => ~(d[m + 1].fence <= done)
    BY NumReadyIs
  <1>2. /\ d \in Seq(DeferredType) /\ k.free \in SUBSET Blocks
        /\ k.tables \in [Requests -> SUBSET Blocks]
        /\ k = [free |-> k.free, tables |-> k.tables, deferred |-> d]
    BY DEF KVType
  <1>3. n \in Nat /\ DOMAIN d = 1..n /\ \A i \in 1..n : d[i] \in DeferredType
    BY <1>2, LenProperties, ElementOfSeq
  <1>4. w = [free     |-> k.free \cup UNION {d[i].blocks : i \in 1..m},
             tables   |-> k.tables, deferred |-> t]
    <2>. DEFINE X == k.free \cup UNION {d[i].blocks : i \in 1..m}
    <2>1. w = [k EXCEPT !.free = X, !.deferred = t]
      BY DEF DrainDeferredFrees
    <2>. HIDE DEF X, t, d, w
    <2>2. w = [free |-> X, tables |-> k.tables, deferred |-> t]
      BY <2>1 DEF KVType
    <2>. QED  BY <2>2 DEF X
  <1>. HIDE DEF m, d, n, w
  <1>5. m \in Int /\ m <= n /\ 0 <= m
    BY <1>1, <1>3
  <1>6. /\ t \in Seq(DeferredType) /\ Len(t) = n - m
        /\ \A i \in 1..(n - m) : t[i] = d[m + i]
    <2>1. m + 1 \in Int /\ n \in Int /\ \A i \in (m + 1)..n : d[i] \in DeferredType
      BY <1>3, <1>5
    <2>2. /\ t \in Seq(DeferredType)
          /\ Len(t) = IF m + 1 <= n THEN n - (m + 1) + 1 ELSE 0
          /\ \A i \in 1..(n - (m + 1) + 1) : t[i] = d[m + 1 + i - 1]
      BY <2>1, SubSeqProperties
    <2>3. Len(t) = n - m /\ 1..(n - (m + 1) + 1) = 1..(n - m)
      BY <1>3, <1>5, <2>2
    <2>4. \A i \in 1..(n - m) : m + 1 + i - 1 = m + i
      BY <1>3, <1>5
    <2>. QED  BY <2>2, <2>3, <2>4
  <1>7. k.free \cup UNION {d[i].blocks : i \in 1..m} \in SUBSET Blocks
    <2>1. \A i \in 1..m : d[i].blocks \in SUBSET Blocks
      BY <1>3, <1>5 DEF DeferredType
    <2>. QED  BY <1>2, <2>1
  <1>8. w \in KVType
    BY <1>2, <1>4, <1>6, <1>7 DEF KVType
  <1>. QED  BY <1>1, <1>4, <1>6, <1>8 DEF m, d, n, w
-----------------------------------------------------------------------------
(* Types and queues.  The counters of a request are only integers here:    *)
(* that none goes below zero rests on the counts of the batches in flight. *)

Statuses == {"NONE", "WAITING", "RUNNING", "PREEMPTED", "FINISHED"}

RequestType(seq) ==
  [status : Statuses, tokens : Int, computed : Int, inFlight : Int, stale : Int,
   dropStale : BOOLEAN, placeholders : Int, spec : 0..NumSpec, lastSeq : 0..seq,
   prefillChunk : BOOLEAN, notBefore : 0..PPSize]

LoopType ==
  [idx : Nat, budget : Int, want : Int, toks : [Requests -> Int],
   spec : [Requests -> Int], fresh : [Requests -> Int], seen : SUBSET Requests,
   preempted : BOOLEAN, prefill : BOOLEAN, stepSkipped : Seq(Requests)]

BatchType ==
  [toks : [Requests -> Int], spec : [Requests -> Int], fresh : [Requests -> Int],
   gen : SUBSET Requests, old : SUBSET Requests, uses : [Requests -> SUBSET Blocks]]

Types ==
  /\ req \in [Requests -> RequestType(schedSeq)]
  /\ waiting \in Seq(Requests) /\ skipped \in Seq(Requests) /\ running \in Seq(Requests)
  /\ kv \in KVType
  /\ schedSeq \in Nat /\ procSeq \in Nat
  /\ batchQueue \in Seq(BatchType)
  /\ finishedIds \in SUBSET Requests
  /\ pc \in {"idle", "running", "alloc", "waiting", "end", "process"}
  /\ loop \in LoopType
  /\ resets \in Nat /\ resetFailed \in BOOLEAN
  /\ workerLen \in [Requests -> Int]
  /\ delivered \in [Requests -> Seq(Int)]

(* Where the engine thread is, and how far schedule()'s loop over the      *)
(* running requests has come: its cursor is past exactly the requests it   *)
(* has looked at that still run.                                           *)
Cursor ==
  /\ pc \in {"idle", "process"} => loop = NoLoop
  /\ pc # "waiting" => loop.stepSkipped = <<>>
  /\ pc = "process" => batchQueue # <<>>
  /\ pc # "process" => Len(batchQueue) < BatchQueueSize
  /\ Len(batchQueue) <= BatchQueueSize
  /\ pc \in {"running", "alloc"} =>
       /\ loop.idx <= Len(running)
       /\ loop.seen \cap ToSet(running) = {running[i] : i \in 1..loop.idx}
  /\ pc = "alloc" => loop.idx < Len(running)

Base == Types /\ QueuesMatchStatus /\ Cursor

(* A new request has its type. *)
LEMMA NewRequestType ==
  ASSUME NEW r \in Requests, NEW seq \in Nat
  PROVE  NewRequest(r) \in RequestType(seq)
  BY Numbers DEF NewRequest, RequestType, Statuses

(* What _free_request leaves of a request *)
LEMMA FinishedIs ==
  ASSUME NEW r \in Requests, NEW seq \in Nat, NEW q \in RequestType(seq)
  PROVE  /\ Finished(q, r) \in RequestType(seq)
         /\ Finished(q, r).status = "FINISHED" /\ Finished(q, r).lastSeq = q.lastSeq
         /\ Finished(q, r).tokens = PromptLen[r] /\ Finished(q, r).computed = 0
         /\ Finished(q, r).inFlight = 0 /\ Finished(q, r).stale = 0
         /\ Finished(q, r).placeholders = 0
  <1>1. Finished(q, r) =
          [status |-> "FINISHED", tokens |-> PromptLen[r], computed |-> 0, inFlight |-> 0,
           stale |-> 0, dropStale |-> FALSE, placeholders |-> 0, spec |-> 0,
           lastSeq |-> q.lastSeq, prefillChunk |-> FALSE, notBefore |-> 0]
    <2>. DEFINE n == NewRequest(r)
                w == Finished(q, r)
    <2>1. w = [n EXCEPT !.status = "FINISHED", !.lastSeq = q.lastSeq]
      BY DEF Finished
    <2>2. n = [status |-> "NONE", tokens |-> PromptLen[r], computed |-> 0, inFlight |-> 0,
               stale |-> 0, dropStale |-> FALSE, placeholders |-> 0, spec |-> 0,
               lastSeq |-> 0, prefillChunk |-> FALSE, notBefore |-> 0]
      BY DEF NewRequest
    <2>. HIDE DEF n, w
    <2>3. w = [status |-> "FINISHED", tokens |-> PromptLen[r], computed |-> 0, inFlight |-> 0,
               stale |-> 0, dropStale |-> FALSE, placeholders |-> 0, spec |-> 0,
               lastSeq |-> q.lastSeq, prefillChunk |-> FALSE, notBefore |-> 0]
      BY <2>1, <2>2
    <2>. QED  BY <2>3 DEF w
  <1>2. q.lastSeq \in 0..seq
    BY DEF RequestType
  <1>. QED  BY <1>1, <1>2, Numbers DEF RequestType, Statuses

(* What _preempt_request does to a request, field by field *)
LEMMA PreemptedIs ==
  ASSUME NEW seq, NEW q \in RequestType(seq), NEW drop \in BOOLEAN
  PROVE  Preempted(q, drop) =
           [status |-> "PREEMPTED", tokens |-> q.tokens, computed |-> 0,
            inFlight |-> q.inFlight, stale |-> q.inFlight,
            dropStale |-> drop \/ (q.dropStale /\ q.stale > 0),
            placeholders |-> 0, spec |-> 0, lastSeq |-> q.lastSeq,
            prefillChunk |-> q.prefillChunk, notBefore |-> q.notBefore]
  <1>. DEFINE w == Preempted(q, drop)
              d == drop \/ (q.dropStale /\ q.stale > 0)
  <1>1. w = [q EXCEPT !.status = "PREEMPTED", !.computed = 0, !.spec = 0,
                      !.dropStale = d, !.stale = q.inFlight, !.placeholders = 0]
    BY DEF Preempted
  <1>. HIDE DEF w, d
  <1>2. w = [status |-> "PREEMPTED", tokens |-> q.tokens, computed |-> 0,
             inFlight |-> q.inFlight, stale |-> q.inFlight, dropStale |-> d,
             placeholders |-> 0, spec |-> 0, lastSeq |-> q.lastSeq,
             prefillChunk |-> q.prefillChunk, notBefore |-> q.notBefore]
    BY <1>1 DEF RequestType
  <1>. QED  BY <1>2 DEF w, d

(* A preempted request has its type. *)
LEMMA PreemptedType ==
  ASSUME NEW seq, NEW q \in RequestType(seq), NEW drop \in BOOLEAN
  PROVE  Preempted(q, drop) \in RequestType(seq)
  <1>1. (drop \/ (q.dropStale /\ q.stale > 0)) \in BOOLEAN
    OBVIOUS
  <1>2. 0 \in 0..NumSpec
    BY Numbers
  <1>. QED  BY <1>1, <1>2, PreemptedIs DEF RequestType, Statuses

(* _update_after_schedule, for a request scheduled in this step *)
LEMMA AfterScheduleIs ==
  ASSUME NEW m \in Nat, NEW q \in RequestType(m), NEW n \in Int, NEW spec \in Int,
         NEW seq \in Nat, m <= seq
  PROVE  LET chunk == q.computed + n < q.tokens + q.placeholders IN
         /\ AfterSchedule(q, n, spec, seq) =
              [status |-> q.status, tokens |-> q.tokens, computed |-> q.computed + n,
               inFlight |-> q.inFlight + n, stale |-> q.stale, dropStale |-> q.dropStale,
               placeholders |-> IF chunk THEN q.placeholders ELSE q.placeholders + 1 + spec,
               spec |-> IF chunk THEN q.spec ELSE NumSpec,
               lastSeq |-> IF DeferBlockFree THEN seq ELSE q.lastSeq,
               prefillChunk |-> chunk,
               notBefore |-> IF chunk THEN q.notBefore ELSE PPSize]
         /\ AfterSchedule(q, n, spec, seq) \in RequestType(seq)
  <1>. DEFINE chunk == q.computed + n < q.tokens + q.placeholders
              w == [status |-> q.status, tokens |-> q.tokens, computed |-> q.computed + n,
               inFlight |-> q.inFlight + n, stale |-> q.stale, dropStale |-> q.dropStale,
               placeholders |-> IF chunk THEN q.placeholders ELSE q.placeholders + 1 + spec,
               spec |-> IF chunk THEN q.spec ELSE NumSpec,
               lastSeq |-> IF DeferBlockFree THEN seq ELSE q.lastSeq,
               prefillChunk |-> chunk,
               notBefore |-> IF chunk THEN q.notBefore ELSE PPSize]
  <1>1. AfterSchedule(q, n, spec, seq) = w
    <2>. DEFINE v == AfterSchedule(q, n, spec, seq)
                p == IF chunk THEN q.placeholders ELSE q.placeholders + 1 + spec
                t == IF chunk THEN q.spec ELSE NumSpec
                l == IF DeferBlockFree THEN seq ELSE q.lastSeq
                b == IF chunk THEN q.notBefore ELSE PPSize
    <2>1. v = [q EXCEPT !.computed = q.computed + n, !.inFlight = q.inFlight + n,
                        !.lastSeq = l, !.prefillChunk = chunk, !.placeholders = p,
                        !.spec = t, !.notBefore = b]
      BY DEF AfterSchedule
    <2>. HIDE DEF v, p, t, l, b, chunk
    <2>2. v = [status |-> q.status, tokens |-> q.tokens, computed |-> q.computed + n,
               inFlight |-> q.inFlight + n, stale |-> q.stale, dropStale |-> q.dropStale,
               placeholders |-> p, spec |-> t, lastSeq |-> l, prefillChunk |-> chunk,
               notBefore |-> b]
      BY <2>1 DEF RequestType
    <2>. QED  BY <2>2 DEF v, p, t, l, b
  <1>2. /\ q.computed + n \in Int /\ q.inFlight + n \in Int /\ q.tokens \in Int
        /\ q.placeholders + 1 + spec \in Int /\ q.placeholders \in Int /\ q.stale \in Int
        /\ q.spec \in 0..NumSpec /\ NumSpec \in 0..NumSpec
        /\ seq \in 0..seq /\ q.lastSeq \in 0..seq
        /\ q.notBefore \in 0..PPSize /\ PPSize \in 0..PPSize
        /\ q.status \in Statuses /\ q.dropStale \in BOOLEAN
    BY Numbers DEF RequestType
  <1>3. chunk \in BOOLEAN
    OBVIOUS
  <1>4. w \in RequestType(seq)
    <2>. HIDE DEF chunk
    <2>. QED  BY <1>2, <1>3 DEF RequestType
  <1>. QED  BY <1>1, <1>4

(* The batches in flight after a preemption *)
LEMMA MarkOldIs ==
  ASSUME Types, NEW S \in SUBSET Requests
  PROVE  /\ MarkOld(S) \in Seq(BatchType)
         /\ Len(MarkOld(S)) = Len(batchQueue)
         /\ DOMAIN MarkOld(S) = DOMAIN batchQueue
         /\ \A i \in DOMAIN batchQueue :
              LET b == batchQueue[i] IN
              MarkOld(S)[i] = [toks |-> b.toks, spec |-> b.spec, fresh |-> b.fresh,
                               gen |-> b.gen, old |-> b.old \cup S, uses |-> b.uses]
  <1>. DEFINE n == Len(batchQueue)
              w == MarkOld(S)
  <1>1. n \in Nat /\ DOMAIN batchQueue = 1..n /\ \A i \in 1..n : batchQueue[i] \in BatchType
    BY LenProperties, ElementOfSeq DEF Types
  <1>2. ASSUME NEW b \in BatchType, NEW c, c = [b EXCEPT !.old = @ \cup S]
        PROVE  /\ c = [toks |-> b.toks, spec |-> b.spec, fresh |-> b.fresh,
                       gen |-> b.gen, old |-> b.old \cup S, uses |-> b.uses]
               /\ c \in BatchType
    BY <1>2 DEF BatchType
  <1>3. w = [i \in 1..n |-> [batchQueue[i] EXCEPT !.old = @ \cup S]]
    BY <1>1 DEF MarkOld
  <1>4. w \in [1..n -> BatchType]
    BY <1>1, <1>2, <1>3
  <1>5. \A i \in 1..n : LET b == batchQueue[i] IN
          w[i] = [toks |-> b.toks, spec |-> b.spec, fresh |-> b.fresh,
                  gen |-> b.gen, old |-> b.old \cup S, uses |-> b.uses]
    BY <1>1, <1>2, <1>3
  <1>. HIDE DEF w, n
  <1>6. w \in Seq(BatchType) /\ DOMAIN w = 1..n
    BY <1>1, <1>4, SeqDef
  <1>7. Len(w) = n
    BY <1>1, <1>6, LenProperties
  <1>. QED  BY <1>1, <1>5, <1>6, <1>7 DEF w, n

(* What a returned batch takes off the counts, and what its output adds *)
LEMMA ReturnedIs ==
  ASSUME NEW seq, NEW q \in RequestType(seq), NEW n \in Int
  PROVE  /\ Returned(q, n) =
              [status |-> q.status, tokens |-> q.tokens, computed |-> q.computed,
               inFlight |-> q.inFlight - n, stale |-> IF q.stale > 0 THEN q.stale - n ELSE 0,
               dropStale |-> q.dropStale, placeholders |-> q.placeholders, spec |-> q.spec,
               lastSeq |-> q.lastSeq, prefillChunk |-> q.prefillChunk,
               notBefore |-> q.notBefore]
         /\ Returned(q, n) \in RequestType(seq)
  <1>. DEFINE w == Returned(q, n)
              st == IF q.stale > 0 THEN q.stale - n ELSE 0
  <1>1. w = [q EXCEPT !.inFlight = q.inFlight - n, !.stale = st]
    BY DEF Returned
  <1>2. q.inFlight - n \in Int /\ st \in Int
    BY DEF RequestType
  <1>. HIDE DEF w, st
  <1>3. w = [status |-> q.status, tokens |-> q.tokens, computed |-> q.computed,
             inFlight |-> q.inFlight - n, stale |-> st,
             dropStale |-> q.dropStale, placeholders |-> q.placeholders, spec |-> q.spec,
             lastSeq |-> q.lastSeq, prefillChunk |-> q.prefillChunk,
             notBefore |-> q.notBefore]
    BY <1>1 DEF RequestType
  <1>4. w \in RequestType(seq)
    BY <1>1, <1>2 DEF RequestType
  <1>. QED  BY <1>3, <1>4 DEF w, st

(* What an output does to the counts of its request *)
LEMMA WithOutputIs ==
  ASSUME NEW seq, NEW q \in RequestType(seq), NEW r, Batch.spec[r] \in Int,
         NEW a, a.gen \in Int, a.kept \in Int, NEW isStale \in BOOLEAN
  PROVE  LET rejected == Batch.spec[r] - (a.gen - 1)
             rolls == ~isStale /\ Batch.spec[r] # 0
             held == IF rolls /\ q.placeholders > 0 THEN q.placeholders - rejected
                     ELSE q.placeholders
         IN /\ WithOutput(q, r, a, isStale) =
                 [status |-> q.status, tokens |-> q.tokens + a.kept,
                  computed |-> IF rolls /\ q.computed > 0 THEN q.computed - rejected
                               ELSE q.computed,
                  inFlight |-> q.inFlight, stale |-> q.stale, dropStale |-> q.dropStale,
                  placeholders |-> IF isStale THEN held ELSE held - a.kept,
                  spec |-> q.spec, lastSeq |-> q.lastSeq, prefillChunk |-> q.prefillChunk,
                  notBefore |-> q.notBefore]
            /\ WithOutput(q, r, a, isStale) \in RequestType(seq)
  <1>. DEFINE rejected == Batch.spec[r] - (a.gen - 1)
              rolls == ~isStale /\ Batch.spec[r] # 0
              c == IF rolls /\ q.computed > 0 THEN q.computed - rejected ELSE q.computed
              held == IF rolls /\ q.placeholders > 0 THEN q.placeholders - rejected
                      ELSE q.placeholders
              p == IF isStale THEN held ELSE held - a.kept
              b == RollBack(q, r, rejected, isStale)
              w == WithOutput(q, r, a, isStale)
              x == IF q.computed > 0 THEN q.computed - rejected ELSE q.computed
              y == IF q.placeholders > 0 THEN q.placeholders - rejected ELSE q.placeholders
  <1>1. b = IF isStale \/ Batch.spec[r] = 0 THEN q
            ELSE [q EXCEPT !.computed = x, !.placeholders = y]
    BY DEF RollBack
  <1>2. w = [b EXCEPT !.tokens = b.tokens + a.kept,
                      !.placeholders = IF isStale THEN b.placeholders ELSE b.placeholders - a.kept]
    BY DEF WithOutput
  <1>3. /\ q.computed \in Int /\ q.placeholders \in Int /\ q.tokens \in Int
        /\ q.status \in Statuses /\ q.inFlight \in Int /\ q.stale \in Int
        /\ q.dropStale \in BOOLEAN /\ q.spec \in 0..NumSpec /\ q.lastSeq \in 0..seq
        /\ q.prefillChunk \in BOOLEAN /\ q.notBefore \in 0..PPSize
    BY DEF RequestType
  <1>4. /\ c = IF isStale \/ Batch.spec[r] = 0 THEN q.computed ELSE x
        /\ held = IF isStale \/ Batch.spec[r] = 0 THEN q.placeholders ELSE y
    OBVIOUS
  <1>5. rejected \in Int /\ c \in Int /\ held \in Int /\ p \in Int /\ q.tokens + a.kept \in Int
    <2>1. rejected \in Int
      OBVIOUS
    <2>. HIDE DEF rejected
    <2>. QED  BY <1>3, <2>1
  <1>. HIDE DEF b, w, x, y, c, held, rejected, rolls
  <1>6. b = [status |-> q.status, tokens |-> q.tokens, computed |-> c,
             inFlight |-> q.inFlight, stale |-> q.stale, dropStale |-> q.dropStale,
             placeholders |-> held, spec |-> q.spec, lastSeq |-> q.lastSeq,
             prefillChunk |-> q.prefillChunk, notBefore |-> q.notBefore]
    <2>1. CASE isStale \/ Batch.spec[r] = 0
      BY <1>1, <1>4, <2>1 DEF RequestType
    <2>2. CASE ~(isStale \/ Batch.spec[r] = 0)
      <3>1. b = [q EXCEPT !.computed = c, !.placeholders = held]
        BY <1>1, <1>4, <2>2
      <3>. QED  BY <3>1 DEF RequestType
    <2>. QED  BY <2>1, <2>2
  <1>7. p = IF isStale THEN b.placeholders ELSE b.placeholders - a.kept
    BY <1>6
  <1>. HIDE DEF p
  <1>8. w = [b EXCEPT !.tokens = q.tokens + a.kept, !.placeholders = p]
    BY <1>2, <1>6, <1>7
  <1>9. w = [status |-> q.status, tokens |-> q.tokens + a.kept, computed |-> c,
             inFlight |-> q.inFlight, stale |-> q.stale, dropStale |-> q.dropStale,
             placeholders |-> p, spec |-> q.spec, lastSeq |-> q.lastSeq,
             prefillChunk |-> q.prefillChunk, notBefore |-> q.notBefore]
    BY <1>6, <1>8
  <1>10. w \in RequestType(seq)
    BY <1>3, <1>5, <1>9 DEF RequestType
  <1>. QED  BY <1>9, <1>10 DEF w, c, p, held, rejected, rolls

(* The step that processes the output of the oldest batch, for the answers a *)
Done == IF DeferBlockFree /\ InBatch # {} THEN procSeq + 1 ELSE procSeq
Stopped(a) == {r \in DOMAIN a : a[r].stop}

Outcome(a) ==
  /\ pc = "process" /\ pc' = "idle"
  /\ DOMAIN a = Live \cap Batch.gen
  /\ \A r \in Live \cap Batch.gen : a[r] \in Answers(r)
  /\ procSeq' = Done
  /\ kv' = FreeRequestBlocks(DrainDeferredFrees(kv, Done), Stopped(a), Done)
  /\ req' = [r \in Requests |-> UpdateRequest(r, a)]
  /\ LeaveQueues(Stopped(a))
  /\ finishedIds' = finishedIds \cup Stopped(a)
  /\ workerLen' = [r \in Requests |->
       IF r \notin InBatch THEN workerLen[r]
       ELSE WorkerBase(r) + IF r \in DOMAIN a THEN a[r].gen ELSE 0]
  /\ delivered' = [r \in Requests |->
       IF r \in DOMAIN a
         THEN delivered[r] \o [i \in 1..a[r].kept |-> WorkerBase(r) + i]
         ELSE delivered[r]]
  /\ batchQueue' = Tail(batchQueue)
  /\ schedSeq' = schedSeq /\ loop' = loop /\ resets' = resets /\ resetFailed' = resetFailed

(* A step of update_from_output has an outcome in this sense. *)
LEMMA UpdateHasOutcome ==
  ASSUME UpdateFromOutput
  PROVE  \E a : Outcome(a)
  <1>1. PICK a \in {f \in [Live \cap Batch.gen -> UNION {Answers(r) : r \in Live}] :
                      \A r \in DOMAIN f : f[r] \in Answers(r)} :
       LET done    == IF DeferBlockFree /\ InBatch # {} THEN procSeq + 1 ELSE procSeq
           stopped == {r \in DOMAIN a : a[r].stop}
       IN /\ procSeq' = done
          /\ kv' = FreeRequestBlocks(DrainDeferredFrees(kv, done), stopped, done)
          /\ req' = [r \in Requests |-> UpdateRequest(r, a)]
          /\ LeaveQueues(stopped)
          /\ finishedIds' = finishedIds \cup stopped
          /\ workerLen' = [r \in Requests |->
               IF r \notin InBatch THEN workerLen[r]
               ELSE WorkerBase(r) + IF r \in DOMAIN a THEN a[r].gen ELSE 0]
          /\ delivered' = [r \in Requests |->
               IF r \in DOMAIN a
                 THEN delivered[r] \o [i \in 1..a[r].kept |-> WorkerBase(r) + i]
                 ELSE delivered[r]]
    BY DEF UpdateFromOutput
  <1>2. DOMAIN a = Live \cap Batch.gen
    OBVIOUS
  <1>3. \A r \in Live \cap Batch.gen : a[r] \in Answers(r)
    BY <1>2
  <1>4. /\ pc = "process" /\ pc' = "idle" /\ batchQueue' = Tail(batchQueue)
        /\ schedSeq' = schedSeq /\ loop' = loop /\ resets' = resets
        /\ resetFailed' = resetFailed
    BY DEF UpdateFromOutput
  <1>5. Outcome(a)
    BY <1>1, <1>2, <1>3, <1>4 DEF Outcome, Done, Stopped
  <1>. QED  BY <1>5

(* An answer in numbers *)
LEMMA AnswersAre ==
  ASSUME NEW r, Batch.spec[r] \in Int, Room(r) \in Int, NEW a \in Answers(r)
  PROVE  /\ a.gen \in Nat /\ a.kept \in Nat /\ a.gen >= 1 /\ a.kept >= 1
         /\ a.gen <= Batch.spec[r] + 1 /\ a.stop \in BOOLEAN
         /\ Batch.fresh[r] > 0 => a.gen = 1
         /\ a.kept <= a.gen /\ a.kept <= Room(r)
         /\ ~a.stop => a.kept = a.gen /\ a.kept < Room(r)
  <1>1. /\ a.gen \in 1..Batch.spec[r] + 1 /\ a.kept \in 1..NumSpec + 1 /\ a.stop \in BOOLEAN
        /\ Batch.fresh[r] > 0 => a.gen = 1
        /\ a.kept <= MinOf(a.gen, Room(r))
        /\ a.kept < MinOf(a.gen, Room(r)) => a.stop
        /\ a.kept = Room(r) => a.stop
    BY DEF Answers
  <1>2. a.gen \in Int /\ a.kept \in Int /\ 1 <= a.gen /\ 1 <= a.kept /\ a.gen <= Batch.spec[r] + 1
    BY <1>1, Numbers
  <1>3. a.kept <= a.gen /\ a.kept <= Room(r)
    BY <1>1, <1>2 DEF MinOf
  <1>4. ~a.stop => a.kept = a.gen /\ a.kept < Room(r)
    BY <1>1, <1>2, <1>3 DEF MinOf
  <1>. QED  BY <1>1, <1>2, <1>3, <1>4
-----------------------------------------------------------------------------
(* The types and the queues, action by action *)

(* QueuesMatchStatus in terms of what each queue lists *)
LEMMA QueuesList ==
  ASSUME Base
  PROVE  /\ Lists(waiting, ToSet(waiting)) /\ Lists(skipped, ToSet(skipped))
         /\ Lists(loop.stepSkipped, ToSet(loop.stepSkipped)) /\ Lists(running, ToSet(running))
         /\ ToSet(waiting) \cap ToSet(skipped) = {}
         /\ (ToSet(waiting) \cup ToSet(skipped)) \cap ToSet(loop.stepSkipped) = {}
         /\ ToSet(waiting) \cup ToSet(skipped) \cup ToSet(loop.stepSkipped)
              = {r \in Requests : req[r].status \in {"WAITING", "PREEMPTED"}}
         /\ ToSet(running) = {r \in Requests : req[r].status = "RUNNING"}
  <1>1. loop.stepSkipped \in Seq(Requests)
    BY DEF Base, Types, LoopType
  <1>. QED  BY <1>1 DEF Base, Types, QueuesMatchStatus, Lists

(* The same for the queues after the step *)
LEMMA QueuesNext ==
  ASSUME NEW W, NEW K, NEW P, NEW R,
         Lists(waiting', W), Lists(skipped', K), Lists(loop'.stepSkipped, P), Lists(running', R),
         W \cap K = {}, (W \cup K) \cap P = {},
         W \cup K \cup P = {r \in Requests : req'[r].status \in {"WAITING", "PREEMPTED"}},
         R = {r \in Requests : req'[r].status = "RUNNING"}
  PROVE  /\ QueuesMatchStatus'
         /\ waiting' \in Seq(Requests) /\ skipped' \in Seq(Requests) /\ running' \in Seq(Requests)
  BY DEF QueuesMatchStatus, Lists

(* A request that moves from one queue to another *)
LEMMA StatusUpdate ==
  ASSUME Types, NEW r \in Requests, NEW st \in Statuses,
         req' = [req EXCEPT ![r].status = st]
  PROVE  /\ req' \in [Requests -> RequestType(schedSeq)]
         /\ req'[r].status = st
         /\ req'[r] = [status |-> st, tokens |-> req[r].tokens, computed |-> req[r].computed,
              inFlight |-> req[r].inFlight, stale |-> req[r].stale,
              dropStale |-> req[r].dropStale, placeholders |-> req[r].placeholders,
              spec |-> req[r].spec, lastSeq |-> req[r].lastSeq,
              prefillChunk |-> req[r].prefillChunk, notBefore |-> req[r].notBefore]
         /\ \A s \in Requests \ {r} : req'[s] = req[s]
  <1>. DEFINE q == req[r]
              w == req'[r]
  <1>1. req \in [Requests -> RequestType(schedSeq)]
    BY DEF Types
  <1>2. /\ q \in RequestType(schedSeq) /\ w = [q EXCEPT !.status = st]
        /\ req' = [req EXCEPT ![r] = w]
    BY <1>1
  <1>. HIDE DEF q, w
  <1>3. w = [status |-> st, tokens |-> q.tokens, computed |-> q.computed,
             inFlight |-> q.inFlight, stale |-> q.stale, dropStale |-> q.dropStale,
             placeholders |-> q.placeholders, spec |-> q.spec, lastSeq |-> q.lastSeq,
             prefillChunk |-> q.prefillChunk, notBefore |-> q.notBefore]
    BY <1>2 DEF RequestType
  <1>4. w \in RequestType(schedSeq)
    BY <1>2 DEF RequestType
  <1>5. w.status = st
    BY <1>3
  <1>6. \A s \in Requests \ {r} : req'[s] = req[s]
    BY <1>1, <1>2
  <1>7. req' \in [Requests -> RequestType(schedSeq)]
    BY <1>1, <1>2, <1>4
  <1>. QED  BY <1>3, <1>5, <1>6, <1>7 DEF q, w

(* add_request keeps Base. *)
LEMMA AddRequestBase ==
  ASSUME Base, NEW r \in Requests, AddRequest(r)
  PROVE  Base'
  <1>1. Types /\ Cursor
    BY DEF Base
  <1>2. /\ pc = "idle" /\ req[r].status = "NONE"
        /\ req' = [req EXCEPT ![r].status = "WAITING"]
        /\ waiting' = AddTo(waiting, r)
        /\ UNCHANGED <<skipped, running, kv, schedSeq, procSeq, batchQueue, finishedIds,
                       pc, loop, resets, resetFailed, workerLen, delivered>>
    BY DEF AddRequest
  <1>3. /\ req' \in [Requests -> RequestType(schedSeq)] /\ req'[r].status = "WAITING"
        /\ \A s \in Requests \ {r} : req'[s] = req[s]
    BY <1>1, <1>2, StatusUpdate DEF Statuses
  <1>4. r \notin ToSet(waiting) \cup ToSet(skipped) \cup ToSet(loop.stepSkipped)
    BY <1>2, QueuesList
  <1>5. Lists(waiting', ToSet(waiting) \cup {r})
    BY <1>2, <1>4, QueuesList, AddToLists
  <1>6. Lists(skipped', ToSet(skipped)) /\ Lists(running', ToSet(running))
        /\ Lists(loop'.stepSkipped, ToSet(loop.stepSkipped))
    BY <1>2, QueuesList
  <1>7. /\ (ToSet(waiting) \cup {r}) \cup ToSet(skipped) \cup ToSet(loop.stepSkipped)
             = {s \in Requests : req'[s].status \in {"WAITING", "PREEMPTED"}}
        /\ ToSet(running) = {s \in Requests : req'[s].status = "RUNNING"}
        /\ (ToSet(waiting) \cup {r}) \cap ToSet(skipped) = {}
        /\ ((ToSet(waiting) \cup {r}) \cup ToSet(skipped)) \cap ToSet(loop.stepSkipped) = {}
    BY <1>2, <1>3, <1>4, QueuesList
  <1>8. QueuesMatchStatus' /\ waiting' \in Seq(Requests)
    BY <1>5, <1>6, <1>7, QueuesNext
  <1>9. Types'
    BY <1>1, <1>2, <1>3, <1>8 DEF Types
  <1>10. Cursor'
    BY <1>1, <1>2 DEF Cursor
  <1>. QED  BY <1>8, <1>9, <1>10 DEF Base

(* Requests that finish leave every queue. *)
LEMMA QueuesLeft ==
  ASSUME Base, NEW X \in SUBSET Requests,
         LeaveQueues(X), loop' = loop, loop.stepSkipped = <<>>,
         \A r \in X : req'[r].status = "FINISHED",
         \A r \in Requests \ X : req'[r].status = req[r].status
  PROVE  /\ QueuesMatchStatus'
         /\ waiting' \in Seq(Requests) /\ skipped' \in Seq(Requests) /\ running' \in Seq(Requests)
  <1>. DEFINE W == ToSet(waiting)
              K == ToSet(skipped)
              R == ToSet(running)
              Ran == {r \in X : req[r].status = "RUNNING"}
  <1>0. /\ running' = Without(running, Ran)
        /\ waiting' = Without(waiting, X \ Ran) /\ skipped' = Without(skipped, X \ Ran)
    BY DEF LeaveQueues
  <1>1. /\ Lists(waiting, W) /\ Lists(skipped, K) /\ Lists(running, R)
        /\ W \cap K = {} /\ Lists(loop.stepSkipped, {})
        /\ W \cup K = {r \in Requests : req[r].status \in {"WAITING", "PREEMPTED"}}
        /\ R = {r \in Requests : req[r].status = "RUNNING"}
    BY QueuesList, EmptyLists DEF ToSet
  <1>1a. R \ Ran = R \ X /\ W \ (X \ Ran) = W \ X /\ K \ (X \ Ran) = K \ X
    BY <1>1
  <1>. HIDE DEF W, K, R, Ran
  <1>2. /\ Lists(waiting', W \ X) /\ Lists(skipped', K \ X) /\ Lists(running', R \ X)
        /\ Lists(loop'.stepSkipped, {})
    <2>1. /\ Lists(waiting', W \ (X \ Ran)) /\ Lists(skipped', K \ (X \ Ran))
          /\ Lists(running', R \ Ran)
      BY <1>0, <1>1, WithoutLists
    <2>. QED  BY <1>1, <1>1a, <2>1
  <1>3. /\ (W \ X) \cup (K \ X) \cup {} =
             {r \in Requests : req'[r].status \in {"WAITING", "PREEMPTED"}}
        /\ R \ X = {r \in Requests : req'[r].status = "RUNNING"}
        /\ (W \ X) \cap (K \ X) = {} /\ ((W \ X) \cup (K \ X)) \cap {} = {}
    BY <1>1
  <1>. QED  BY <1>2, <1>3, QueuesNext

(* finish_requests keeps Base. *)
LEMMA FinishRequestBase ==
  ASSUME Base, NEW r \in Requests, FinishRequest(r)
  PROVE  Base'
  <1>1. Types /\ Cursor
    BY DEF Base
  <1>2. /\ pc \in {"idle", "process"} /\ Known(r)
        /\ LeaveQueues({r})
        /\ req' = [req EXCEPT ![r] = Finished(@, r)]
        /\ kv' = FreeRequestBlocks(kv, {r}, procSeq)
        /\ finishedIds' = finishedIds \cup {r}
        /\ UNCHANGED <<schedSeq, procSeq, batchQueue, pc, loop, resets, resetFailed,
                       workerLen, delivered>>
    BY DEF FinishRequest
  <1>3. Finished(req[r], r) \in RequestType(schedSeq) /\ Finished(req[r], r).status = "FINISHED"
    BY <1>1, FinishedIs DEF Types
  <1>4. /\ req' \in [Requests -> RequestType(schedSeq)] /\ req'[r].status = "FINISHED"
        /\ \A s \in Requests \ {r} : req'[s] = req[s]
    BY <1>1, <1>2, <1>3 DEF Types
  <1>5. loop.stepSkipped = <<>> /\ loop = NoLoop
    BY <1>1, <1>2 DEF Cursor
  <1>6. QueuesMatchStatus' /\ waiting' \in Seq(Requests) /\ skipped' \in Seq(Requests)
        /\ running' \in Seq(Requests)
    <2>1. /\ {r} \in SUBSET Requests /\ \A x \in {r} : req'[x].status = "FINISHED"
          /\ \A x \in Requests \ {r} : req'[x].status = req[x].status
          /\ loop' = loop
      BY <1>2, <1>4
    <2>. QED  BY <1>2, <1>5, <2>1, QueuesLeft
  <1>7. kv' \in KVType
    BY <1>1, <1>2, FreeType DEF Types
  <1>8. Types'
    BY <1>1, <1>2, <1>4, <1>6, <1>7 DEF Types
  <1>9. Cursor'
    BY <1>1, <1>2 DEF Cursor
  <1>. QED  BY <1>6, <1>8, <1>9 DEF Base

(* Preempting the requests S, which run *)
LEMMA PreemptRequestsBase ==
  ASSUME Base, NEW s, NEW S, Lists(s, S), S \subseteq ToSet(running), NEW drop,
         drop \in BOOLEAN, PreemptRequests(s, drop)
  PROVE  /\ kv' \in KVType /\ kv' = FreeRequestBlocks(kv, S, procSeq)
         /\ req' \in [Requests -> RequestType(schedSeq)]
         /\ \A r \in S : req'[r] = Preempted(req[r], drop) /\ req'[r].status = "PREEMPTED"
         /\ \A r \in Requests \ S : req'[r] = req[r]
         /\ Lists(waiting', ToSet(waiting) \cup S)
         /\ S \in SUBSET Requests /\ batchQueue' = MarkOld(S)
         /\ batchQueue' \in Seq(BatchType) /\ Len(batchQueue') = Len(batchQueue)
         /\ S \cap (ToSet(waiting) \cup ToSet(skipped) \cup ToSet(loop.stepSkipped)) = {}
  <1>1. Types /\ ToSet(s) = S /\ req \in [Requests -> RequestType(schedSeq)] /\ schedSeq \in Nat
    BY DEF Base, Types, Lists
  <1>2. /\ kv' = FreeRequestBlocks(kv, S, procSeq)
        /\ req' = [r \in Requests |-> IF r \in S THEN Preempted(req[r], drop) ELSE req[r]]
        /\ waiting' = PrependAll(waiting, Reverse(s))
        /\ batchQueue' = MarkOld(S)
    BY <1>1 DEF PreemptRequests
  <1>3. S \in SUBSET Requests
        /\ S \cap (ToSet(waiting) \cup ToSet(skipped) \cup ToSet(loop.stepSkipped)) = {}
    BY QueuesList
  <1>4. kv' \in KVType
    BY <1>1, <1>2, <1>3, FreeType DEF Types
  <1>5. ASSUME NEW r \in Requests
        PROVE  /\ Preempted(req[r], drop) \in RequestType(schedSeq)
               /\ Preempted(req[r], drop).status = "PREEMPTED"
    BY <1>1, PreemptedType, PreemptedIs
  <1>6. req' \in [Requests -> RequestType(schedSeq)]
    BY <1>1, <1>2, <1>5
  <1>7. \A r \in S : req'[r] = Preempted(req[r], drop) /\ req'[r].status = "PREEMPTED"
    BY <1>2, <1>3, <1>5
  <1>8. \A r \in Requests \ S : req'[r] = req[r]
    BY <1>2
  <1>9. Lists(waiting', ToSet(waiting) \cup S)
    <2>1. Lists(Reverse(s), S)
      BY ReverseLists
    <2>2. Lists(waiting, ToSet(waiting)) /\ ToSet(waiting) \cap S = {}
      BY <1>3, QueuesList
    <2>. QED  BY <1>2, <2>1, <2>2, PrependAllLists
  <1>10. batchQueue' \in Seq(BatchType) /\ Len(batchQueue') = Len(batchQueue)
    BY <1>1, <1>2, <1>3, MarkOldIs
  <1>. QED  BY <1>2, <1>3, <1>4, <1>6, <1>7, <1>8, <1>9, <1>10

(* The requests that are not preempted keep their records. *)
LEMMA PreemptRequestsSpares ==
  ASSUME Base, NEW s, NEW S, Lists(s, S), S \subseteq ToSet(running), NEW drop,
         drop \in BOOLEAN, PreemptRequests(s, drop)
  PROVE  /\ kv' = FreeRequestBlocks(kv, S, procSeq) /\ S \in SUBSET Requests
         /\ \A r \in Requests : r \notin S => req'[r] = req[r]
  <1>1. \A r \in Requests : r \notin S => req'[r] = req[r]
    <2>1. ToSet(s) = S
      BY DEF Lists
    <2>2. req' = [r \in Requests |-> IF r \in S THEN Preempted(req[r], drop) ELSE req[r]]
      BY <2>1 DEF PreemptRequests
    <2>. QED  BY <2>2
  <1>2. kv' = FreeRequestBlocks(kv, S, procSeq) /\ S \in SUBSET Requests
    BY PreemptRequestsBase
  <1>. QED  BY <1>1, <1>2

(* reset_prefix_cache keeps Base. *)
LEMMA ResetBase ==
  ASSUME Base, ResetPrefixCache
  PROVE  Base'
  <1>1. Types /\ Cursor
    BY DEF Base
  <1>2. /\ pc = "idle" /\ resets' = resets + 1 /\ PreemptRequests(running, TRUE)
        /\ running' = <<>> /\ resetFailed' = (kv'.free # Blocks)
        /\ UNCHANGED <<skipped, schedSeq, procSeq, finishedIds, pc, loop, workerLen, delivered>>
    BY DEF ResetPrefixCache
  <1>. DEFINE S == ToSet(running)
  <1>3. Lists(running, S)
    BY QueuesList
  <1>. HIDE DEF S
  <1>4. /\ kv' \in KVType /\ req' \in [Requests -> RequestType(schedSeq)]
        /\ \A r \in S : req'[r].status = "PREEMPTED"
        /\ \A r \in Requests \ S : req'[r] = req[r]
        /\ Lists(waiting', ToSet(waiting) \cup S)
        /\ S \in SUBSET Requests
        /\ batchQueue' \in Seq(BatchType) /\ Len(batchQueue') = Len(batchQueue)
        /\ S \cap (ToSet(waiting) \cup ToSet(skipped) \cup ToSet(loop.stepSkipped)) = {}
    <2>1. S \subseteq ToSet(running) /\ TRUE \in BOOLEAN
      BY DEF S
    <2>. QED  BY <1>2, <1>3, <2>1, PreemptRequestsBase
  <1>5. /\ Lists(skipped', ToSet(skipped)) /\ Lists(running', {})
        /\ Lists(loop'.stepSkipped, ToSet(loop.stepSkipped))
    BY <1>2, QueuesList, EmptyLists
  <1>6. S = {r \in Requests : req[r].status = "RUNNING"}
    BY QueuesList DEF S
  <1>7. /\ (ToSet(waiting) \cup S) \cup ToSet(skipped) \cup ToSet(loop.stepSkipped)
             = {r \in Requests : req'[r].status \in {"WAITING", "PREEMPTED"}}
        /\ {} = {r \in Requests : req'[r].status = "RUNNING"}
        /\ (ToSet(waiting) \cup S) \cap ToSet(skipped) = {}
        /\ ((ToSet(waiting) \cup S) \cup ToSet(skipped)) \cap ToSet(loop.stepSkipped) = {}
    BY <1>4, <1>6, QueuesList
  <1>8. QueuesMatchStatus' /\ waiting' \in Seq(Requests) /\ running' \in Seq(Requests)
    BY <1>4, <1>5, <1>7, QueuesNext
  <1>9. Types'
    BY <1>1, <1>2, <1>4, <1>8 DEF Types
  <1>10. Cursor'
    <2>1. batchQueue # <<>> => batchQueue' # <<>>
      BY <1>1, <1>4, EmptySeq DEF Types
    <2>. QED  BY <1>1, <1>2, <1>4, <2>1 DEF Cursor
  <1>. QED  BY <1>8, <1>9, <1>10 DEF Base

(* The start of schedule() keeps Base. *)
LEMMA StartScheduleBase ==
  ASSUME Base, StartSchedule
  PROVE  Base'
  <1>1. Types /\ Cursor /\ QueuesMatchStatus
    BY DEF Base
  <1>2. /\ pc = "idle" /\ pc' = "running"
        /\ loop' = [NoLoop EXCEPT !.budget = TokenBudget]
        /\ req' = [r \in Requests |-> [req[r] EXCEPT !.notBefore = MaxOf(@ - 1, 0)]]
        /\ UNCHANGED <<waiting, skipped, running, kv, schedSeq, procSeq, batchQueue,
                       finishedIds, resets, resetFailed, workerLen, delivered>>
    BY DEF StartSchedule
  <1>3. loop = NoLoop /\ loop.stepSkipped = <<>> /\ loop \in LoopType
    BY <1>1, <1>2 DEF Cursor, Types
  <1>4. loop' \in LoopType /\ loop'.stepSkipped = <<>> /\ loop'.idx = 0 /\ loop'.seen = {}
    <2>1. loop' = [loop EXCEPT !.budget = TokenBudget] /\ TokenBudget \in Int
      BY <1>2, <1>3, Numbers
    <2>2. loop.idx = 0 /\ loop.seen = {}
      BY <1>3 DEF NoLoop
    <2>. QED  BY <1>3, <2>1, <2>2 DEF LoopType
  <1>5. ASSUME NEW r \in Requests
        PROVE  req'[r] \in RequestType(schedSeq) /\ req'[r].status = req[r].status
    <2>. DEFINE q == req[r]
                w == req'[r]
    <2>1. q \in RequestType(schedSeq)
      BY <1>1 DEF Types
    <2>2. MaxOf(q.notBefore - 1, 0) \in 0..PPSize
      BY <2>1, Numbers DEF MaxOf, RequestType
    <2>3. w = [q EXCEPT !.notBefore = MaxOf(q.notBefore - 1, 0)]
      BY <1>2
    <2>. HIDE DEF q, w
    <2>4. w \in RequestType(schedSeq) /\ w.status = q.status
      BY <2>1, <2>2, <2>3 DEF RequestType
    <2>. QED  BY <2>4 DEF q, w
  <1>6. req' \in [Requests -> RequestType(schedSeq)]
    BY <1>2, <1>5
  <1>7. Types'
    BY <1>1, <1>2, <1>4, <1>6 DEF Types
  <1>8. QueuesMatchStatus'
    BY <1>1, <1>2, <1>3, <1>4, <1>5 DEF QueuesMatchStatus
  <1>9. Cursor'
    <2>1. Len(running) \in Nat
      BY <1>1, LenProperties DEF Types
    <2>2. {running[i] : i \in 1..0} = {}
      OBVIOUS
    <2>. QED  BY <1>1, <1>2, <1>4, <2>1, <2>2 DEF Cursor
  <1>. QED  BY <1>7, <1>8, <1>9 DEF Base

(* Waiting for the last batches keeps Base. *)
LEMMA StartDrainBase ==
  ASSUME Base, StartDrain
  PROVE  Base'
  <1>1. Types /\ Cursor /\ QueuesMatchStatus
    BY DEF Base
  <1>2. /\ pc = "idle" /\ batchQueue # <<>> /\ pc' = "process"
        /\ UNCHANGED <<req, waiting, skipped, running, kv, schedSeq, procSeq, batchQueue,
                 finishedIds, loop, resets, resetFailed, workerLen, delivered>>
    BY DEF StartDrain
  <1>3. Types'
    BY <1>1, <1>2 DEF Types
  <1>4. QueuesMatchStatus'
    BY <1>1, <1>2 DEF QueuesMatchStatus
  <1>5. Cursor'
    BY <1>1, <1>2 DEF Cursor
  <1>. QED  BY <1>3, <1>4, <1>5 DEF Base

(* The running request schedule() is at *)
LEMMA CurrentRuns ==
  ASSUME Base, loop.idx < Len(running)
  PROVE  /\ loop.idx + 1 \in 1..Len(running) /\ loop.idx \in Nat /\ Len(running) \in Nat
         /\ DOMAIN running = 1..Len(running)
         /\ Current \in Requests /\ Current \in ToSet(running) /\ req[Current].status = "RUNNING"
         /\ req[Current] \in RequestType(schedSeq)
  <1>1. loop.idx \in Nat /\ running \in Seq(Requests)
    BY DEF Base, Types, LoopType
  <1>2. Len(running) \in Nat /\ DOMAIN running = 1..Len(running)
    BY <1>1, LenProperties
  <1>3. loop.idx + 1 \in 1..Len(running)
    BY <1>1, <1>2
  <1>4. Current \in ToSet(running)
    BY <1>2, <1>3 DEF Current, ToSet
  <1>5. Current \in Requests /\ req[Current].status = "RUNNING"
    BY <1>4, QueuesList
  <1>. QED  BY <1>1, <1>2, <1>3, <1>4, <1>5 DEF Base, Types

(* The cursor moves past the current request. *)
LEMMA CursorAdvances ==
  ASSUME Base, pc \in {"running", "alloc"}, loop.idx < Len(running), running' = running,
         loop'.idx = loop.idx + 1, loop'.seen = loop.seen \cup {Current}
  PROVE  /\ loop'.idx <= Len(running')
         /\ loop'.seen \cap ToSet(running') = {running'[i] : i \in 1..loop'.idx}
  <1>1. /\ loop.idx + 1 \in 1..Len(running) /\ loop.idx \in Nat /\ Len(running) \in Nat
        /\ Current \in ToSet(running) /\ Current = running[loop.idx + 1]
    BY CurrentRuns DEF Current
  <1>2. loop.seen \cap ToSet(running) = {running[i] : i \in 1..loop.idx}
    BY DEF Base, Cursor
  <1>3. \A i : i \in 1..(loop.idx + 1) <=> i \in 1..loop.idx \/ i = loop.idx + 1
    BY <1>1
  <1>4. {running[i] : i \in 1..(loop.idx + 1)} = {running[i] : i \in 1..loop.idx} \cup {Current}
    BY <1>1, <1>3
  <1>5. (loop.seen \cup {Current}) \cap ToSet(running) = {running[i] : i \in 1..(loop.idx + 1)}
    BY <1>1, <1>2, <1>4
  <1>. QED  BY <1>1, <1>5

(* Passing over a running request keeps Base. *)
LEMMA SkipRunningBase ==
  ASSUME Base, SkipRunning
  PROVE  Base'
  <1>1. Types /\ Cursor /\ QueuesMatchStatus /\ loop \in LoopType
    BY DEF Base, Types
  <1>2. /\ pc = "running" /\ loop.idx < Len(running)
        /\ loop' = [loop EXCEPT !.idx = @ + 1, !.seen = @ \cup {Current}]
        /\ UNCHANGED <<req, waiting, skipped, running, kv, schedSeq, procSeq, batchQueue,
                 finishedIds, pc, resets, resetFailed, workerLen, delivered>>
    BY DEF SkipRunning, InRunningLoop
  <1>3. Current \in Requests
    BY <1>2, CurrentRuns
  <1>4. /\ loop' \in LoopType /\ loop'.idx = loop.idx + 1
        /\ loop'.seen = loop.seen \cup {Current} /\ loop'.stepSkipped = loop.stepSkipped
    <2>. DEFINE i == loop.idx + 1
                seen == loop.seen \cup {Current}
    <2>1. loop' = [loop EXCEPT !.idx = i, !.seen = seen]
      BY <1>2
    <2>2. i \in Nat /\ seen \in SUBSET Requests
      BY <1>1, <1>3 DEF LoopType
    <2>. HIDE DEF i, seen
    <2>3. /\ loop' \in LoopType /\ loop'.idx = i
          /\ loop'.seen = seen /\ loop'.stepSkipped = loop.stepSkipped
      BY <1>1, <2>1, <2>2 DEF LoopType
    <2>. QED  BY <2>3 DEF i, seen
  <1>5. Types'
    BY <1>1, <1>2, <1>4 DEF Types
  <1>6. QueuesMatchStatus'
    BY <1>1, <1>2, <1>4 DEF QueuesMatchStatus
  <1>7. Cursor'
    <2>1. /\ loop'.idx <= Len(running')
          /\ loop'.seen \cap ToSet(running') = {running'[i] : i \in 1..loop'.idx}
      BY <1>2, <1>4, CursorAdvances
    <2>. QED  BY <1>1, <1>2, <1>4, <2>1 DEF Cursor
  <1>. QED  BY <1>5, <1>6, <1>7 DEF Base

(* num_new_tokens is a number. *)
LEMMA NumNewTokensInt ==
  ASSUME Types, NEW q \in RequestType(schedSeq)
  PROVE  NumNewTokens(q) \in Int
  <1>1. /\ q.tokens \in Int /\ q.spec \in Int /\ q.placeholders \in Int /\ q.computed \in Int
        /\ loop.budget \in Int /\ MaxModelLen \in Int
    BY Numbers DEF Types, RequestType, LoopType
  <1>. QED  BY <1>1 DEF NumNewTokens, MinOf

(* Choosing the number of tokens keeps Base. *)
LEMMA PickRunningBase ==
  ASSUME Base, PickRunning
  PROVE  Base'
  <1>1. Types /\ Cursor /\ QueuesMatchStatus /\ loop \in LoopType
    BY DEF Base, Types
  <1>. DEFINE n == NumNewTokens(req[Current])
  <1>2. /\ pc = "running" /\ loop.idx < Len(running) /\ pc' = "alloc"
        /\ loop' = [loop EXCEPT !.want = n]
        /\ UNCHANGED <<req, waiting, skipped, running, kv, schedSeq, procSeq, batchQueue,
                 finishedIds, resets, resetFailed, workerLen, delivered>>
    BY DEF PickRunning, InRunningLoop
  <1>3. n \in Int
    BY <1>1, <1>2, CurrentRuns, NumNewTokensInt
  <1>. HIDE DEF n
  <1>4. /\ loop' \in LoopType /\ loop'.idx = loop.idx
        /\ loop'.seen = loop.seen /\ loop'.stepSkipped = loop.stepSkipped
    BY <1>1, <1>2, <1>3 DEF LoopType
  <1>5. Types'
    BY <1>1, <1>2, <1>4 DEF Types
  <1>6. QueuesMatchStatus'
    BY <1>1, <1>2, <1>4 DEF QueuesMatchStatus
  <1>7. Cursor'
    BY <1>1, <1>2, <1>4 DEF Cursor
  <1>. QED  BY <1>5, <1>6, <1>7 DEF Base

(* Blocks from the pool for one request *)
LEMMA NewBlocksAre ==
  ASSUME Types, NEW r \in Requests, NEW n, GetNewBlocks(r, n)
  PROVE  \E new \in SUBSET kv.free :
           /\ kv' = [free |-> kv.free \ new,
                     tables |-> [kv.tables EXCEPT ![r] = @ \cup new],
                     deferred |-> kv.deferred]
           /\ kv' \in KVType
  <1>1. PICK new \in SUBSET kv.free :
          kv' = [kv EXCEPT !.free = @ \ new, !.tables[r] = @ \cup new]
    BY DEF GetNewBlocks, kSubset
  <1>2. /\ kv \in KVType /\ kv.free \in SUBSET Blocks
        /\ kv.tables \in [Requests -> SUBSET Blocks] /\ kv.deferred \in Seq(DeferredType)
    BY DEF Types, KVType
  <1>. DEFINE f == kv.free \ new
              t == [kv.tables EXCEPT ![r] = @ \cup new]
  <1>3. f \in SUBSET Blocks /\ t \in [Requests -> SUBSET Blocks]
    BY <1>2
  <1>4. kv' = [kv EXCEPT !.free = f, !.tables = t]
    BY <1>1
  <1>. HIDE DEF f, t
  <1>5. kv' = [free |-> f, tables |-> t, deferred |-> kv.deferred]
    BY <1>2, <1>4 DEF KVType
  <1>6. kv' \in KVType
    BY <1>2, <1>3, <1>5 DEF KVType
  <1>. QED  BY <1>5, <1>6 DEF f, t

(* Setting one entry of a table of numbers *)
LEMMA SetEntry ==
  ASSUME NEW f, f \in [Requests -> Int], NEW r \in Requests, NEW n \in Int
  PROVE  /\ [f EXCEPT ![r] = n] \in [Requests -> Int]
         /\ [f EXCEPT ![r] = n][r] = n
         /\ \A s \in Requests \ {r} : [f EXCEPT ![r] = n][s] = f[s]
  OBVIOUS

(* The step that schedules the current running request *)
LEMMA AllocateRunningIs ==
  ASSUME Base, AllocateRunning
  PROVE  LET r == Current
             n == loop.want
             sp == ScheduledSpec(req[r], n)
         IN /\ pc = "alloc" /\ pc' = "running" /\ loop.idx < Len(running)
            /\ GetNewBlocks(r, NumBlocksToAllocate(r, n))
            /\ UNCHANGED <<waiting, skipped, running, schedSeq, procSeq, batchQueue,
                           finishedIds, resets, resetFailed, workerLen, delivered>>
            /\ n \in Int /\ sp \in Int
            /\ loop' \in LoopType
            /\ loop'.idx = loop.idx + 1 /\ loop'.want = 0 /\ loop'.budget = loop.budget - n
            /\ loop'.seen = loop.seen \cup {r} /\ loop'.toks = [loop.toks EXCEPT ![r] = n]
            /\ loop'.spec = [loop.spec EXCEPT ![r] = sp] /\ loop'.fresh = loop.fresh
            /\ loop'.stepSkipped = loop.stepSkipped /\ loop'.preempted = loop.preempted
            /\ req' \in [Requests -> RequestType(schedSeq)]
            /\ req'[r] = [status |-> "RUNNING", tokens |-> req[r].tokens,
                 computed |-> req[r].computed,
                 inFlight |-> req[r].inFlight, stale |-> req[r].stale,
                 dropStale |-> req[r].dropStale, placeholders |-> req[r].placeholders,
                 spec |-> 0, lastSeq |-> req[r].lastSeq,
                 prefillChunk |-> req[r].prefillChunk, notBefore |-> req[r].notBefore]
            /\ \A s \in Requests \ {r} : req'[s] = req[s]
  <1>. DEFINE r == Current
              q == req[r]
              n == loop.want
              sp == ScheduledSpec(q, n)
              i == loop.idx + 1
              bud == loop.budget - n
              seen == loop.seen \cup {r}
              toks == [loop.toks EXCEPT ![r] = n]
              spec == [loop.spec EXCEPT ![r] = sp]
              pre == loop.prefill \/ q.prefillChunk
              w == req'[r]
  <1>1. /\ pc = "alloc" /\ pc' = "running" /\ loop.idx < Len(running)
        /\ GetNewBlocks(r, NumBlocksToAllocate(r, n))
        /\ UNCHANGED <<waiting, skipped, running, schedSeq, procSeq, batchQueue,
                       finishedIds, resets, resetFailed, workerLen, delivered>>
        /\ loop' = [loop EXCEPT !.idx = i, !.want = 0, !.budget = bud,
                                !.seen = seen, !.toks = toks, !.spec = spec,
                                !.prefill = pre]
        /\ req' = [req EXCEPT ![r].spec = 0]
    BY DEF AllocateRunning, Base, Cursor
  <1>2. /\ loop \in LoopType /\ loop.idx \in Nat /\ loop.want \in Int /\ loop.budget \in Int
        /\ loop.toks \in [Requests -> Int] /\ loop.spec \in [Requests -> Int]
        /\ loop.seen \in SUBSET Requests /\ loop.prefill \in BOOLEAN
        /\ req \in [Requests -> RequestType(schedSeq)]
    BY DEF Base, Types, LoopType
  <1>3. /\ r \in Requests /\ q.status = "RUNNING" /\ q \in RequestType(schedSeq)
    BY <1>1, CurrentRuns
  <1>. HIDE DEF r
  <1>4. /\ q.prefillChunk \in BOOLEAN /\ q.spec \in Int /\ q.computed \in Int
        /\ q.tokens \in Int /\ q.placeholders \in Int
    BY <1>3, Numbers DEF RequestType
  <1>5. sp \in Int
    <2>. HIDE DEF q
    <2>. QED  BY <1>2, <1>4 DEF ScheduledSpec, MinOf, MaxOf
  <1>. HIDE DEF sp
  <1>6. /\ i \in Nat /\ bud \in Int /\ seen \in SUBSET Requests
        /\ toks \in [Requests -> Int] /\ spec \in [Requests -> Int] /\ pre \in BOOLEAN
    <2>1. i \in Nat /\ bud \in Int
      BY <1>2
    <2>2. toks \in [Requests -> Int] /\ spec \in [Requests -> Int]
      BY <1>2, <1>3, <1>5, SetEntry
    <2>3. pre \in BOOLEAN /\ seen \in SUBSET Requests
      BY <1>2, <1>3, <1>4
    <2>. QED  BY <2>1, <2>2, <2>3
  <1>7. /\ q \in RequestType(schedSeq) /\ w = [q EXCEPT !.spec = 0]
        /\ req' = [req EXCEPT ![r] = w]
    BY <1>1, <1>2, <1>3
  <1>. HIDE DEF i, bud, seen, toks, spec, pre, w, q, n
  <1>8. loop' = [idx |-> i, budget |-> bud, want |-> 0, toks |-> toks, spec |-> spec,
                 fresh |-> loop.fresh, seen |-> seen, preempted |-> loop.preempted,
                 prefill |-> pre, stepSkipped |-> loop.stepSkipped]
    BY <1>1, <1>2 DEF LoopType
  <1>9. /\ loop' \in LoopType
        /\ loop'.idx = i /\ loop'.want = 0 /\ loop'.budget = bud
        /\ loop'.seen = seen /\ loop'.toks = toks
        /\ loop'.spec = spec /\ loop'.fresh = loop.fresh
        /\ loop'.stepSkipped = loop.stepSkipped /\ loop'.preempted = loop.preempted
    BY <1>2, <1>6, <1>8 DEF LoopType
  <1>10. w = [status |-> q.status, tokens |-> q.tokens, computed |-> q.computed,
              inFlight |-> q.inFlight, stale |-> q.stale, dropStale |-> q.dropStale,
              placeholders |-> q.placeholders, spec |-> 0, lastSeq |-> q.lastSeq,
              prefillChunk |-> q.prefillChunk, notBefore |-> q.notBefore]
    BY <1>7 DEF RequestType
  <1>11. w \in RequestType(schedSeq)
    <2>1. 0 \in 0..NumSpec
      BY Numbers
    <2>. QED  BY <1>7, <2>1 DEF RequestType
  <1>12. req' \in [Requests -> RequestType(schedSeq)]
         /\ \A s \in Requests \ {r} : req'[s] = req[s]
    BY <1>2, <1>3, <1>7, <1>11
  <1>13. loop.want \in Int
    BY <1>2
  <1>. QED  BY <1>1, <1>3, <1>5, <1>9, <1>10, <1>12, <1>13 DEF i, bud, seen, toks, spec, w, q, n, r, sp

(* Scheduling a running request keeps Base. *)
LEMMA AllocateRunningBase ==
  ASSUME Base, AllocateRunning
  PROVE  Base'
  <1>1. Types /\ Cursor /\ QueuesMatchStatus
    BY DEF Base
  <1>. DEFINE r == Current
  <1>2. /\ pc = "alloc" /\ pc' = "running" /\ loop.idx < Len(running)
        /\ GetNewBlocks(r, NumBlocksToAllocate(r, loop.want))
        /\ UNCHANGED <<waiting, skipped, running, schedSeq, procSeq, batchQueue,
                       finishedIds, resets, resetFailed, workerLen, delivered>>
        /\ loop' \in LoopType
        /\ loop'.idx = loop.idx + 1 /\ loop'.seen = loop.seen \cup {r}
        /\ loop'.stepSkipped = loop.stepSkipped
        /\ req' \in [Requests -> RequestType(schedSeq)]
        /\ req'[r].status = "RUNNING"
        /\ \A s \in Requests \ {r} : req'[s] = req[s]
    BY AllocateRunningIs
  <1>3. r \in Requests /\ req[r].status = "RUNNING"
    BY <1>2, CurrentRuns
  <1>4. kv' \in KVType
    BY <1>1, <1>2, <1>3, NewBlocksAre
  <1>5. Types'
    BY <1>1, <1>2, <1>4 DEF Types
  <1>6. QueuesMatchStatus'
    <2>1. \A s \in Requests : req'[s].status = req[s].status
      BY <1>2, <1>3
    <2>. QED  BY <1>1, <1>2, <2>1 DEF QueuesMatchStatus
  <1>7. Cursor'
    <2>1. /\ loop'.idx <= Len(running')
          /\ loop'.seen \cap ToSet(running') = {running'[i] : i \in 1..loop'.idx}
      BY <1>2, CursorAdvances
    <2>. QED  BY <1>1, <1>2, <2>1 DEF Cursor
  <1>. QED  BY <1>5, <1>6, <1>7 DEF Base

(* The victim of a preemption is a running request. *)
LEMMA VictimRuns ==
  ASSUME Base, running # <<>>
  PROVE  Victim \in ToSet(running)
  <1>1. running \in Seq(Requests) /\ Len(running) \in Nat /\ DOMAIN running = 1..Len(running)
    BY LenProperties DEF Base, Types
  <1>2. Len(running) \in 1..Len(running)
    BY <1>1, EmptySeq
  <1>3. CASE Policy # "priority"
    <2>1. Victim = running[Len(running)]
      BY <1>3 DEF Victim, Last
    <2>. QED  BY <1>1, <1>2, <2>1 DEF ToSet
  <1>4. CASE Policy = "priority"
    <2>. DEFINE S == ToSet(running)
                N == {0 - Rank[r] : r \in S}
                g == [r \in S |-> 0 - Rank[r]]
    <2>1. S \in SUBSET Requests /\ running[Len(running)] \in S
      BY <1>1, <1>2, QueuesList DEF ToSet
    <2>2. \A r \in S : Rank[r] \in Int
      BY <2>1, SchedulerAssumption
    <2>3. g \in Surjection(S, N) /\ N \in SUBSET Int /\ N # {}
      <3>. HIDE DEF S
      <3>. QED  BY <2>1, <2>2 DEF Surjection
    <2>4. IsFiniteSet(S)
      BY <2>1, Finiteness, FS_Subset
    <2>5. IsFiniteSet(N)
      BY <2>3, <2>4, FS_Surjection
    <2>6. PICK x \in N : \A y \in N : x <= y
      BY <2>3, <2>5, LeastElement
    <2>7. PICK r \in S : x = 0 - Rank[r]
      OBVIOUS
    <2>8. \A t \in S : Rank[r] >= Rank[t]
      <3>. SUFFICES ASSUME NEW t \in S
                    PROVE  Rank[r] >= Rank[t]
        OBVIOUS
      <3>1. 0 - Rank[r] <= 0 - Rank[t]
        BY <2>6, <2>7
      <3>. QED  BY <2>2, <3>1
    <2>9. Victim = CHOOSE t \in S : \A u \in S : Rank[t] >= Rank[u]
      BY <1>4 DEF Victim
    <2>. HIDE DEF S
    <2>. QED  BY <2>8, <2>9 DEF S
  <1>. QED  BY <1>3, <1>4

(* The step that preempts a running request to make room *)
LEMMA PreemptForRunningIs ==
  ASSUME Base, PreemptForRunning
  PROVE  \E i \in 1..Len(running) : LET v == Victim IN
           /\ running[i] = v /\ v \in Requests /\ v \in ToSet(running)
           /\ pc = "alloc" /\ pc' = IF v = Current THEN "end" ELSE "alloc"
           /\ PreemptRequests(<<v>>, RequiresKVDelivery)
           /\ running' = Without(running, {v})
           /\ UNCHANGED <<skipped, schedSeq, procSeq, finishedIds, resets, resetFailed,
                          workerLen, delivered>>
           /\ loop' \in LoopType
           /\ loop'.idx = IF i <= loop.idx THEN loop.idx - 1 ELSE loop.idx
           /\ loop'.want = loop.want /\ loop'.budget = loop.budget + loop.toks[v]
           /\ loop'.seen = loop.seen /\ loop'.toks = [loop.toks EXCEPT ![v] = 0]
           /\ loop'.spec = [loop.spec EXCEPT ![v] = 0] /\ loop'.fresh = loop.fresh
           /\ loop'.stepSkipped = loop.stepSkipped
  <1>. DEFINE v == Victim
              i == CHOOSE j \in DOMAIN running : running[j] = v
              x == IF i <= loop.idx THEN loop.idx - 1 ELSE loop.idx
              bud == loop.budget + loop.toks[v]
              toks == [loop.toks EXCEPT ![v] = 0]
              spec == [loop.spec EXCEPT ![v] = 0]
  <1>1. /\ pc = "alloc" /\ loop.idx < Len(running)
        /\ PreemptRequests(<<v>>, RequiresKVDelivery)
        /\ running' = Without(running, {v})
        /\ loop' = LoopWithout(v, i)
        /\ pc' = IF v = Current THEN "end" ELSE "alloc"
        /\ UNCHANGED <<skipped, schedSeq, procSeq, finishedIds, resets, resetFailed,
                       workerLen, delivered>>
    BY DEF PreemptForRunning, Base, Cursor
  <1>2. /\ running # <<>> /\ DOMAIN running = 1..Len(running) /\ Len(running) \in Nat
    BY <1>1, CurrentRuns, EmptySeq DEF Base, Types
  <1>3. v \in ToSet(running) /\ v \in Requests
    BY <1>2, VictimRuns, QueuesList
  <1>4. i \in 1..Len(running) /\ running[i] = v
    BY <1>2, <1>3 DEF ToSet
  <1>5. loop' = [loop EXCEPT !.idx = x, !.budget = bud, !.toks = toks, !.spec = spec,
                             !.preempted = TRUE]
    BY <1>1 DEF LoopWithout
  <1>6. /\ loop \in LoopType /\ loop.idx \in Nat /\ loop.budget \in Int
        /\ loop.toks \in [Requests -> Int] /\ loop.spec \in [Requests -> Int]
    BY DEF Base, Types, LoopType
  <1>. HIDE DEF v, i
  <1>7. x \in Nat
    BY <1>2, <1>4, <1>6
  <1>8. bud \in Int /\ toks \in [Requests -> Int] /\ spec \in [Requests -> Int]
    <2>1. loop.toks[v] \in Int /\ 0 \in Int
      BY <1>3, <1>6
    <2>. QED  BY <1>3, <1>6, <2>1, SetEntry
  <1>. HIDE DEF x, bud, toks, spec
  <1>9. loop' = [idx |-> x, budget |-> bud, want |-> loop.want, toks |-> toks, spec |-> spec,
                 fresh |-> loop.fresh, seen |-> loop.seen, preempted |-> TRUE,
                 prefill |-> loop.prefill, stepSkipped |-> loop.stepSkipped]
    BY <1>5, <1>6 DEF LoopType
  <1>10. loop' \in LoopType
    BY <1>6, <1>7, <1>8, <1>9 DEF LoopType
  <1>11. /\ loop'.idx = x /\ loop'.budget = bud /\ loop'.toks = toks /\ loop'.spec = spec
         /\ loop'.want = loop.want /\ loop'.fresh = loop.fresh /\ loop'.seen = loop.seen
         /\ loop'.stepSkipped = loop.stepSkipped
    BY <1>9
  <1>. QED  BY <1>1, <1>3, <1>4, <1>10, <1>11 DEF v, x, bud, toks, spec

(* The cursor stays right, whichever running request is taken out. *)
LEMMA CursorAfterPreemption ==
  ASSUME Base, pc = "alloc", NEW i \in 1..Len(running), NEW v, running[i] = v,
         running' = Without(running, {v}), loop'.seen = loop.seen,
         loop'.idx = IF i <= loop.idx THEN loop.idx - 1 ELSE loop.idx,
         v # Current
  PROVE  /\ loop'.idx < Len(running')
         /\ loop'.seen \cap ToSet(running') = {running'[k] : k \in 1..loop'.idx}
         /\ Current' = Current
  <1>. DEFINE n == Len(running)
              w == Without(running, {v})
              x == loop.idx
              y == IF i <= x THEN x - 1 ELSE x
  <1>1. /\ x \in Nat /\ n \in Nat /\ x < n /\ i \in Int /\ 1 <= i /\ i <= n
        /\ running \in Seq(Requests)
        /\ loop.seen \cap ToSet(running) = {running[k] : k \in 1..x}
        /\ Current = running[x + 1]
    <2>1. loop.idx < Len(running)
      BY DEF Base, Cursor
    <2>2. loop.seen \cap ToSet(running) = {running[k] : k \in 1..x}
      BY DEF Base, Cursor
    <2>3. running \in Seq(Requests) /\ x \in Nat /\ n \in Nat
      BY <2>1, CurrentRuns DEF Base, Types
    <2>. QED  BY <2>1, <2>2, <2>3 DEF Current
  <1>2. i # x + 1
    BY <1>1
  <1>3. IsInjective(running) /\ DOMAIN running = 1..n
    BY <1>1, LenProperties DEF Base, QueuesMatchStatus
  <1>4. /\ DOMAIN w = 1..(n - 1)
        /\ \A k \in 1..(n - 1) : w[k] = running[IF k < i THEN k ELSE k + 1]
    BY <1>1, <1>3, WithoutShifts
  <1>5. Lists(running, ToSet(running)) /\ Lists(w, ToSet(running) \ {v})
    BY QueuesList, WithoutLists
  <1>6. w \in Seq(Requests) /\ ToSet(w) = ToSet(running) \ {v} /\ Len(w) = n - 1
    <2>1. w \in Seq(Requests) /\ ToSet(w) = ToSet(running) \ {v}
      BY <1>5 DEF Lists
    <2>2. DOMAIN w = 1..Len(w) /\ Len(w) \in Nat
      BY <2>1, LenProperties
    <2>3. Len(w) = n - 1
      <3>. HIDE DEF w, n
      <3>. QED  BY <1>1, <1>4, <2>2
    <2>. QED  BY <2>1, <2>3
  <1>. HIDE DEF w, n, x
  <1>7. y \in Nat /\ y < n - 1 /\ y + 1 \in 1..(n - 1)
    BY <1>1, <1>2
  <1>8. w[y + 1] = running[x + 1]
    <2>1. (IF y + 1 < i THEN y + 1 ELSE y + 1 + 1) = x + 1
      BY <1>1, <1>2
    <2>. HIDE DEF y
    <2>. QED  BY <1>4, <1>7, <2>1
  <1>9. {w[k] : k \in 1..y} = {running[k] : k \in 1..x} \ {v}
    <2>1. ASSUME NEW k \in 1..y
          PROVE  \E j \in 1..x : w[k] = running[j] /\ running[j] # v
      <3>. DEFINE j == IF k < i THEN k ELSE k + 1
      <3>1. k \in 1..(n - 1) /\ j \in 1..x /\ j \in 1..n /\ j # i /\ i \in 1..n
        BY <1>1, <1>2, <1>7
      <3>2. running[j] # v
        BY <1>3, <3>1 DEF IsInjective
      <3>. QED  BY <1>4, <3>1, <3>2
    <2>2. ASSUME NEW j \in 1..x, running[j] # v
          PROVE  \E k \in 1..y : w[k] = running[j]
      <3>. DEFINE k == IF j < i THEN j ELSE j - 1
      <3>1. j # i
        BY <2>2
      <3>2. k \in 1..y /\ k \in 1..(n - 1) /\ (IF k < i THEN k ELSE k + 1) = j
        BY <1>1, <1>2, <3>1
      <3>. HIDE DEF k
      <3>. QED  BY <1>4, <3>2
    <2>. QED  BY <2>1, <2>2
  <1>10. loop.seen \cap ToSet(w) = {w[k] : k \in 1..y}
    BY <1>1, <1>6, <1>9
  <1>11. loop'.idx = y /\ running' = w /\ loop'.seen = loop.seen
    BY DEF x, w
  <1>. HIDE DEF y
  <1>12. Current' = w[y + 1]
    BY <1>11 DEF Current
  <1>. QED  BY <1>1, <1>6, <1>7, <1>8, <1>10, <1>11, <1>12

(* A preemption in the running loop keeps Base. *)
LEMMA PreemptForRunningBase ==
  ASSUME Base, PreemptForRunning
  PROVE  Base'
  <1>. DEFINE v == Victim
  <1>1. Types /\ Cursor
    BY DEF Base
  <1>2. PICK i \in 1..Len(running) :
           /\ running[i] = v /\ v \in Requests /\ v \in ToSet(running)
           /\ pc = "alloc" /\ pc' = IF v = Current THEN "end" ELSE "alloc"
           /\ PreemptRequests(<<v>>, RequiresKVDelivery)
           /\ running' = Without(running, {v})
           /\ UNCHANGED <<skipped, schedSeq, procSeq, finishedIds, resets, resetFailed,
                          workerLen, delivered>>
           /\ loop' \in LoopType
           /\ loop'.idx = IF i <= loop.idx THEN loop.idx - 1 ELSE loop.idx
           /\ loop'.seen = loop.seen /\ loop'.stepSkipped = loop.stepSkipped
    BY PreemptForRunningIs
  <1>. HIDE DEF v
  <1>3. /\ kv' \in KVType /\ req' \in [Requests -> RequestType(schedSeq)]
        /\ req'[v].status = "PREEMPTED"
        /\ \A r \in Requests \ {v} : req'[r] = req[r]
        /\ Lists(waiting', ToSet(waiting) \cup {v})
        /\ batchQueue' \in Seq(BatchType) /\ Len(batchQueue') = Len(batchQueue)
        /\ {v} \cap (ToSet(waiting) \cup ToSet(skipped) \cup ToSet(loop.stepSkipped)) = {}
    <2>1. Lists(<<v>>, {v})
      <3>1. Lists(Append(<<>>, v), {} \cup {v})
        BY <1>2, EmptyLists, AppendLists
      <3>2. Append(<<>>, v) = <<v>> /\ {} \cup {v} = {v}
        OBVIOUS
      <3>. QED  BY <3>1, <3>2
    <2>2. {v} \subseteq ToSet(running) /\ RequiresKVDelivery \in BOOLEAN
      BY <1>2, SchedulerAssumption
    <2>3. PreemptRequests(<<v>>, RequiresKVDelivery)
      BY <1>2
    <2>. DEFINE s == <<v>>
                S == {v}
    <2>. HIDE DEF s, S
    <2>4. /\ kv' \in KVType /\ req' \in [Requests -> RequestType(schedSeq)]
          /\ \A r \in S : req'[r].status = "PREEMPTED"
          /\ \A r \in Requests \ S : req'[r] = req[r]
          /\ Lists(waiting', ToSet(waiting) \cup S)
          /\ batchQueue' \in Seq(BatchType) /\ Len(batchQueue') = Len(batchQueue)
          /\ S \cap (ToSet(waiting) \cup ToSet(skipped) \cup ToSet(loop.stepSkipped)) = {}
      <3>1. /\ Lists(s, S) /\ S \subseteq ToSet(running)
            /\ PreemptRequests(s, RequiresKVDelivery)
        BY <2>1, <2>2, <2>3 DEF s, S
      <3>. QED  BY <2>2, <3>1, PreemptRequestsBase
    <2>. QED  BY <2>4 DEF S
  <1>5. /\ Lists(skipped', ToSet(skipped)) /\ Lists(running', ToSet(running) \ {v})
        /\ Lists(loop'.stepSkipped, ToSet(loop.stepSkipped))
    BY <1>2, QueuesList, WithoutLists
  <1>7. /\ (ToSet(waiting) \cup {v}) \cup ToSet(skipped) \cup ToSet(loop.stepSkipped)
             = {r \in Requests : req'[r].status \in {"WAITING", "PREEMPTED"}}
        /\ ToSet(running) \ {v} = {r \in Requests : req'[r].status = "RUNNING"}
        /\ (ToSet(waiting) \cup {v}) \cap ToSet(skipped) = {}
        /\ ((ToSet(waiting) \cup {v}) \cup ToSet(skipped)) \cap ToSet(loop.stepSkipped) = {}
    <2>1. /\ \A r \in Requests \ {v} : req'[r].status = req[r].status
          /\ req[v].status = "RUNNING" /\ req'[v].status = "PREEMPTED" /\ v \in Requests
      BY <1>2, <1>3, QueuesList
    <2>2. (ToSet(waiting) \cup {v}) \cup ToSet(skipped) \cup ToSet(loop.stepSkipped)
             = {r \in Requests : req'[r].status \in {"WAITING", "PREEMPTED"}}
      BY <2>1, QueuesList
    <2>3. ToSet(running) \ {v} = {r \in Requests : req'[r].status = "RUNNING"}
      BY <2>1, QueuesList
    <2>4. /\ (ToSet(waiting) \cup {v}) \cap ToSet(skipped) = {}
          /\ ((ToSet(waiting) \cup {v}) \cup ToSet(skipped)) \cap ToSet(loop.stepSkipped) = {}
      BY <1>3, QueuesList
    <2>. QED  BY <2>2, <2>3, <2>4
  <1>8. QueuesMatchStatus' /\ waiting' \in Seq(Requests) /\ running' \in Seq(Requests)
    BY <1>3, <1>5, <1>7, QueuesNext
  <1>9. Types'
    BY <1>1, <1>2, <1>3, <1>8 DEF Types
  <1>10. Cursor'
    <2>1. CASE v = Current
      BY <1>1, <1>2, <1>3, <2>1 DEF Cursor
    <2>2. CASE v # Current
      <3>1. /\ loop'.idx < Len(running')
            /\ loop'.seen \cap ToSet(running') = {running'[k] : k \in 1..loop'.idx}
        BY <1>2, <2>2, CursorAfterPreemption
      <3>2. loop'.idx \in Nat /\ Len(running') \in Nat
        BY <1>2, <1>8, LenProperties DEF LoopType
      <3>3. loop'.idx <= Len(running')
        BY <3>1, <3>2
      <3>. QED  BY <1>1, <1>2, <1>3, <2>2, <3>1, <3>3 DEF Cursor
    <2>. QED  BY <2>1, <2>2
  <1>. QED  BY <1>8, <1>9, <1>10 DEF Base

(* The end of the running loop keeps Base. *)
LEMMA EndRunningBase ==
  ASSUME Base, EndRunning
  PROVE  Base'
  <1>1. Types /\ Cursor /\ QueuesMatchStatus
    BY DEF Base
  <1>2. /\ pc = "running" /\ pc' \in {"end", "waiting"}
        /\ UNCHANGED <<req, waiting, skipped, running, kv, schedSeq, procSeq, batchQueue,
                 finishedIds, loop, resets, resetFailed, workerLen, delivered>>
    BY DEF EndRunning
  <1>3. Types'
    BY <1>1, <1>2 DEF Types
  <1>4. QueuesMatchStatus'
    BY <1>1, <1>2 DEF QueuesMatchStatus
  <1>5. Cursor'
    BY <1>1, <1>2 DEF Cursor
  <1>. QED  BY <1>3, <1>4, <1>5 DEF Base

(* The request the waiting loop looks at *)
LEMMA NextWaitingWaits ==
  ASSUME Base, InWaitingLoop
  PROVE  /\ NextWaiting \in Requests
         /\ NextWaiting \in ToSet(waiting) \cup ToSet(skipped)
         /\ req[NextWaiting].status \in {"WAITING", "PREEMPTED"}
         /\ TakeFromSkipped => skipped # <<>> /\ NextWaiting = Head(skipped)
         /\ ~TakeFromSkipped => waiting # <<>> /\ NextWaiting = Head(waiting)
  <1>1. /\ TakeFromSkipped => skipped # <<>> /\ NextWaiting = Head(skipped)
        /\ ~TakeFromSkipped => waiting # <<>> /\ NextWaiting = Head(waiting)
    BY DEF InWaitingLoop, TakeFromSkipped, NextWaiting
  <1>2. NextWaiting \in ToSet(waiting) \cup ToSet(skipped)
    <2>1. Lists(waiting, ToSet(waiting)) /\ Lists(skipped, ToSet(skipped))
      BY QueuesList
    <2>2. CASE TakeFromSkipped
      <3>1. Head(skipped) \in ToSet(skipped)
        BY <1>1, <2>1, <2>2, TailLists
      <3>. QED  BY <1>1, <2>2, <3>1
    <2>3. CASE ~TakeFromSkipped
      <3>1. Head(waiting) \in ToSet(waiting)
        BY <1>1, <2>1, <2>3, TailLists
      <3>. QED  BY <1>1, <2>3, <3>1
    <2>. QED  BY <2>2, <2>3
  <1>. QED  BY <1>1, <1>2, QueuesList

(* The next waiting request leaves one of the two queues. *)
LEMMA PoppedLists ==
  ASSUME Base, InWaitingLoop, PopWaiting
  PROVE  \E W, K : /\ Lists(waiting', W) /\ Lists(skipped', K) /\ W \cap K = {}
                   /\ W \cup K = (ToSet(waiting) \cup ToSet(skipped)) \ {NextWaiting}
  <1>. DEFINE W == ToSet(waiting)
              K == ToSet(skipped)
              r == NextWaiting
  <1>1. Lists(waiting, W) /\ Lists(skipped, K) /\ W \cap K = {}
    BY QueuesList
  <1>2. /\ TakeFromSkipped => skipped # <<>> /\ r = Head(skipped)
        /\ ~TakeFromSkipped => waiting # <<>> /\ r = Head(waiting)
    BY NextWaitingWaits
  <1>. HIDE DEF W, K, r
  <1>3. CASE TakeFromSkipped
    <2>1. waiting' = waiting /\ skipped' = Tail(skipped)
      BY <1>3 DEF PopWaiting
    <2>2. Lists(skipped', K \ {r}) /\ r \in K
      BY <1>1, <1>2, <1>3, <2>1, TailLists
    <2>3. W \cap (K \ {r}) = {} /\ W \cup (K \ {r}) = (W \cup K) \ {r}
      BY <1>1, <2>2
    <2>. QED  BY <1>1, <2>1, <2>2, <2>3 DEF W, K, r
  <1>4. CASE ~TakeFromSkipped
    <2>1. waiting' = Tail(waiting) /\ skipped' = skipped
      BY <1>4 DEF PopWaiting
    <2>2. Lists(waiting', W \ {r}) /\ r \in W
      BY <1>1, <1>2, <1>4, <2>1, TailLists
    <2>3. (W \ {r}) \cap K = {} /\ (W \ {r}) \cup K = (W \cup K) \ {r}
      BY <1>1, <2>2
    <2>. QED  BY <1>1, <2>1, <2>2, <2>3 DEF W, K, r
  <1>. QED  BY <1>3, <1>4

(* Skipping a waiting request keeps Base. *)
LEMMA SkipWaitingBase ==
  ASSUME Base, SkipWaiting
  PROVE  Base'
  <1>. DEFINE r == NextWaiting
              P == ToSet(loop.stepSkipped)
              sk == PrependAll(loop.stepSkipped, <<r>>)
  <1>1. Types /\ Cursor /\ loop \in LoopType
    BY DEF Base, Types
  <1>2. /\ pc = "waiting" /\ InWaitingLoop /\ PopWaiting
        /\ loop' = [loop EXCEPT !.stepSkipped = sk]
        /\ UNCHANGED <<req, running, kv, schedSeq, procSeq, batchQueue, finishedIds, pc,
                 resets, resetFailed, workerLen, delivered>>
    BY DEF SkipWaiting
  <1>3. r \in Requests /\ r \in ToSet(waiting) \cup ToSet(skipped)
    BY <1>2, NextWaitingWaits
  <1>4. PICK W, K : /\ Lists(waiting', W) /\ Lists(skipped', K) /\ W \cap K = {}
                    /\ W \cup K = (ToSet(waiting) \cup ToSet(skipped)) \ {r}
    BY <1>2, PoppedLists
  <1>. HIDE DEF r
  <1>5. Lists(sk, P \cup {r})
    <2>1. Lists(<<r>>, {r})
      <3>1. Lists(Append(<<>>, r), {} \cup {r})
        BY <1>3, EmptyLists, AppendLists
      <3>2. Append(<<>>, r) = <<r>> /\ {} \cup {r} = {r}
        OBVIOUS
      <3>. QED  BY <3>1, <3>2
    <2>2. Lists(loop.stepSkipped, P) /\ P \cap {r} = {}
      BY <1>3, QueuesList
    <2>. HIDE DEF P
    <2>. QED  BY <2>1, <2>2, PrependAllLists
  <1>. HIDE DEF sk
  <1>6. sk \in Seq(Requests)
    BY <1>5 DEF Lists
  <1>7. loop' \in LoopType /\ loop'.stepSkipped = sk
    BY <1>1, <1>2, <1>6 DEF LoopType
  <1>8. Lists(loop'.stepSkipped, P \cup {r}) /\ Lists(running', ToSet(running))
    BY <1>2, <1>5, <1>7, QueuesList
  <1>9. /\ W \cup K \cup (P \cup {r})
             = {s \in Requests : req'[s].status \in {"WAITING", "PREEMPTED"}}
        /\ (W \cup K) \cap (P \cup {r}) = {}
        /\ ToSet(running) = {s \in Requests : req'[s].status = "RUNNING"}
    BY <1>2, <1>3, <1>4, QueuesList
  <1>10. QueuesMatchStatus' /\ waiting' \in Seq(Requests) /\ skipped' \in Seq(Requests)
    BY <1>4, <1>8, <1>9, QueuesNext
  <1>11. Types'
    BY <1>1, <1>2, <1>7, <1>10 DEF Types
  <1>12. Cursor'
    BY <1>1, <1>2 DEF Cursor
  <1>. QED  BY <1>10, <1>11, <1>12 DEF Base

(* The step that admits a waiting request *)
LEMMA AdmitWaitingIs ==
  ASSUME Base, AdmitWaiting
  PROVE  LET r == NextWaiting
             n == AdmitTokens(r)
             sp == IF PadSpecDecode(r) THEN NumSpec ELSE 0
         IN /\ pc = "waiting" /\ pc' = pc /\ InWaitingLoop /\ PopWaiting
            /\ r \in Requests /\ req[r].status \in {"WAITING", "PREEMPTED"}
            /\ ~AwaitsStaleOutput(req[r]) /\ CanAdmit(r)
            /\ GetNewBlocks(r, NumBlocksToAllocate(r, n))
            /\ running' = Append(running, r)
            /\ req' = [req EXCEPT ![r].status = "RUNNING"]
            /\ UNCHANGED <<schedSeq, procSeq, batchQueue, finishedIds, resets,
                           resetFailed, workerLen, delivered>>
            /\ n \in Int /\ sp \in Int /\ req[r].tokens \in Int
            /\ loop' \in LoopType
            /\ loop'.budget = loop.budget - n
            /\ loop'.toks = [loop.toks EXCEPT ![r] = n]
            /\ loop'.spec = [loop.spec EXCEPT ![r] = sp]
            /\ loop'.fresh = [loop.fresh EXCEPT ![r] = req[r].tokens]
            /\ loop'.stepSkipped = loop.stepSkipped /\ loop'.want = loop.want
  <1>. DEFINE r == NextWaiting
              n == AdmitTokens(r)
              sp == IF PadSpecDecode(r) THEN NumSpec ELSE 0
              bud == loop.budget - n
              toks == [loop.toks EXCEPT ![r] = n]
              spec == [loop.spec EXCEPT ![r] = sp]
              fresh == [loop.fresh EXCEPT ![r] = req[r].tokens]
  <1>1. /\ pc = "waiting" /\ pc' = pc /\ InWaitingLoop /\ PopWaiting
        /\ ~AwaitsStaleOutput(req[r]) /\ CanAdmit(r)
        /\ GetNewBlocks(r, NumBlocksToAllocate(r, n))
        /\ running' = Append(running, r)
        /\ req' = [req EXCEPT ![r].status = "RUNNING"]
        /\ UNCHANGED <<schedSeq, procSeq, batchQueue, finishedIds, resets,
                       resetFailed, workerLen, delivered>>
        /\ loop' = [loop EXCEPT !.budget = bud, !.toks = toks, !.spec = spec, !.fresh = fresh]
    BY DEF AdmitWaiting
  <1>2. r \in Requests /\ req[r].status \in {"WAITING", "PREEMPTED"}
    BY <1>1, NextWaitingWaits
  <1>3. /\ loop \in LoopType /\ loop.budget \in Int
        /\ loop.toks \in [Requests -> Int] /\ loop.spec \in [Requests -> Int]
        /\ loop.fresh \in [Requests -> Int] /\ req[r].tokens \in Int
    BY <1>2 DEF Base, Types, LoopType, RequestType
  <1>. HIDE DEF r
  <1>4. n \in Int /\ sp \in Int
    <2>1. MinOf(req[r].tokens, loop.budget) \in Int
      BY <1>3 DEF MinOf
    <2>2. 1 + NumSpec \in Int /\ NumSpec \in Int
      BY Numbers
    <2>. QED  BY <2>1, <2>2 DEF AdmitTokens
  <1>. HIDE DEF n, sp
  <1>5. /\ toks \in [Requests -> Int] /\ spec \in [Requests -> Int]
        /\ fresh \in [Requests -> Int] /\ bud \in Int
    <2>1. bud \in Int
      BY <1>3, <1>4
    <2>. QED  BY <1>2, <1>3, <1>4, <2>1, SetEntry
  <1>. HIDE DEF toks, spec, fresh, bud
  <1>6. loop' = [idx |-> loop.idx, budget |-> bud, want |-> loop.want, toks |-> toks,
                 spec |-> spec, fresh |-> fresh, seen |-> loop.seen,
                 preempted |-> loop.preempted, prefill |-> loop.prefill,
                 stepSkipped |-> loop.stepSkipped]
    BY <1>1, <1>3 DEF LoopType
  <1>7. loop' \in LoopType
    BY <1>3, <1>5, <1>6 DEF LoopType
  <1>8. /\ loop'.budget = bud /\ loop'.toks = toks /\ loop'.spec = spec
        /\ loop'.fresh = fresh /\ loop'.stepSkipped = loop.stepSkipped
        /\ loop'.want = loop.want
    BY <1>6
  <1>. QED  BY <1>1, <1>2, <1>3, <1>4, <1>7, <1>8 DEF toks, spec, fresh, bud, r, n, sp

(* Admitting a waiting request keeps Base. *)
LEMMA AdmitWaitingBase ==
  ASSUME Base, AdmitWaiting
  PROVE  Base'
  <1>. DEFINE r == NextWaiting
              n == NumBlocksToAllocate(r, AdmitTokens(r))
  <1>1. Types /\ Cursor
    BY DEF Base
  <1>2. /\ pc = "waiting" /\ pc' = pc /\ InWaitingLoop /\ PopWaiting
        /\ r \in Requests /\ req[r].status \in {"WAITING", "PREEMPTED"}
        /\ GetNewBlocks(r, n)
        /\ running' = Append(running, r)
        /\ req' = [req EXCEPT ![r].status = "RUNNING"]
        /\ UNCHANGED <<schedSeq, procSeq, batchQueue, finishedIds, resets,
                       resetFailed, workerLen, delivered>>
        /\ loop' \in LoopType /\ loop'.stepSkipped = loop.stepSkipped
    BY AdmitWaitingIs
  <1>3. PICK W, K : /\ Lists(waiting', W) /\ Lists(skipped', K) /\ W \cap K = {}
                    /\ W \cup K = (ToSet(waiting) \cup ToSet(skipped)) \ {r}
    BY <1>2, PoppedLists
  <1>4. r \in ToSet(waiting) \cup ToSet(skipped)
    BY <1>2, NextWaitingWaits
  <1>. HIDE DEF r, n
  <1>5. /\ req' \in [Requests -> RequestType(schedSeq)] /\ req'[r].status = "RUNNING"
        /\ \A s \in Requests \ {r} : req'[s] = req[s]
    BY <1>1, <1>2, StatusUpdate DEF Statuses
  <1>6. kv' \in KVType
    BY <1>1, <1>2, NewBlocksAre
  <1>7. Lists(running', ToSet(running) \cup {r}) /\ Lists(loop'.stepSkipped, ToSet(loop.stepSkipped))
    <2>1. Lists(running, ToSet(running)) /\ r \notin ToSet(running)
      BY <1>2, QueuesList
    <2>. QED  BY <1>2, <2>1, QueuesList, AppendLists
  <1>8. /\ W \cup K \cup ToSet(loop.stepSkipped)
             = {s \in Requests : req'[s].status \in {"WAITING", "PREEMPTED"}}
        /\ (W \cup K) \cap ToSet(loop.stepSkipped) = {}
        /\ ToSet(running) \cup {r} = {s \in Requests : req'[s].status = "RUNNING"}
    <2>1. \A s \in Requests \ {r} : req'[s].status = req[s].status
      BY <1>5
    <2>2. (W \cup K) \cap ToSet(loop.stepSkipped) = {} /\ r \notin ToSet(loop.stepSkipped)
      BY <1>3, <1>4, QueuesList
    <2>3. W \cup K \cup ToSet(loop.stepSkipped)
             = {s \in Requests : req'[s].status \in {"WAITING", "PREEMPTED"}}
      BY <1>2, <1>3, <1>5, <2>1, <2>2, QueuesList
    <2>4. ToSet(running) \cup {r} = {s \in Requests : req'[s].status = "RUNNING"}
      BY <1>2, <1>5, <2>1, QueuesList
    <2>. QED  BY <2>2, <2>3, <2>4
  <1>9. QueuesMatchStatus' /\ waiting' \in Seq(Requests) /\ skipped' \in Seq(Requests)
        /\ running' \in Seq(Requests)
    BY <1>3, <1>7, <1>8, QueuesNext
  <1>10. Types'
    BY <1>1, <1>2, <1>5, <1>6, <1>9 DEF Types
  <1>11. Cursor'
    BY <1>1, <1>2 DEF Cursor
  <1>. QED  BY <1>9, <1>10, <1>11 DEF Base

(* The end of the waiting loop keeps Base. *)
LEMMA EndWaitingBase ==
  ASSUME Base, EndWaiting
  PROVE  Base'
  <1>1. Types /\ Cursor /\ loop \in LoopType
    BY DEF Base, Types
  <1>2. /\ pc = "waiting" /\ pc' = "end"
        /\ skipped' = PrependAll(skipped, loop.stepSkipped)
        /\ loop' = [loop EXCEPT !.stepSkipped = <<>>]
        /\ UNCHANGED <<req, waiting, running, kv, schedSeq, procSeq, batchQueue, finishedIds,
                 resets, resetFailed, workerLen, delivered>>
    BY DEF EndWaiting, Requeued
  <1>3. loop' \in LoopType /\ loop'.stepSkipped = <<>>
    <2>. DEFINE e == <<>>
    <2>1. e \in Seq(Requests) /\ loop' = [loop EXCEPT !.stepSkipped = e]
      BY <1>2
    <2>. HIDE DEF e
    <2>2. loop' \in LoopType /\ loop'.stepSkipped = e
      BY <1>1, <2>1 DEF LoopType
    <2>. QED  BY <2>2 DEF e
  <1>4. /\ Lists(skipped', ToSet(skipped) \cup ToSet(loop.stepSkipped))
        /\ Lists(loop'.stepSkipped, {}) /\ Lists(running', ToSet(running))
        /\ Lists(waiting', ToSet(waiting))
    <2>1. /\ Lists(skipped, ToSet(skipped)) /\ Lists(loop.stepSkipped, ToSet(loop.stepSkipped))
          /\ ToSet(skipped) \cap ToSet(loop.stepSkipped) = {}
      BY QueuesList
    <2>2. Lists(skipped', ToSet(skipped) \cup ToSet(loop.stepSkipped))
      BY <1>2, <2>1, PrependAllLists
    <2>. QED  BY <1>2, <1>3, <2>2, QueuesList, EmptyLists
  <1>5. /\ ToSet(waiting) \cup (ToSet(skipped) \cup ToSet(loop.stepSkipped)) \cup {}
             = {s \in Requests : req'[s].status \in {"WAITING", "PREEMPTED"}}
        /\ ToSet(waiting) \cap (ToSet(skipped) \cup ToSet(loop.stepSkipped)) = {}
        /\ (ToSet(waiting) \cup (ToSet(skipped) \cup ToSet(loop.stepSkipped))) \cap {} = {}
        /\ ToSet(running) = {s \in Requests : req'[s].status = "RUNNING"}
    BY <1>2, QueuesList
  <1>6. QueuesMatchStatus' /\ skipped' \in Seq(Requests)
    BY <1>4, <1>5, QueuesNext
  <1>7. Types'
    BY <1>1, <1>2, <1>3, <1>6 DEF Types
  <1>8. Cursor'
    BY <1>1, <1>2, <1>3 DEF Cursor
  <1>. QED  BY <1>6, <1>7, <1>8 DEF Base

(* The batch that schedule() hands to the workers *)
NewBatch ==
  [toks |-> loop.toks, spec |-> loop.spec, fresh |-> loop.fresh,
   gen |-> {r \in Scheduled : ~req'[r].prefillChunk},
   uses |-> [r \in Requests |-> IF r \in Scheduled THEN kv.tables[r] ELSE {}],
   old |-> {}]

(* What the end of schedule() does, field by field *)
LEMMA EndScheduleIs ==
  ASSUME Base, EndSchedule
  PROVE  /\ pc = "end" /\ pc' \in {"idle", "process"}
         /\ Len(batchQueue) + 1 < BatchQueueSize \/ pc' = "process"
         /\ schedSeq' = IF DeferBlockFree /\ Scheduled # {} THEN schedSeq + 1 ELSE schedSeq
         /\ schedSeq' \in Nat /\ schedSeq <= schedSeq'
         /\ req' \in [Requests -> RequestType(schedSeq')]
         /\ \A r \in Scheduled :
              req'[r] = AfterSchedule(req[r], loop.toks[r], loop.spec[r], schedSeq')
         /\ \A r \in Requests \ Scheduled : req'[r] = req[r]
         /\ \A r \in Requests : req'[r].status = req[r].status
         /\ batchQueue' = Append(batchQueue, NewBatch) /\ NewBatch \in BatchType
         /\ batchQueue' \in Seq(BatchType) /\ Len(batchQueue') = Len(batchQueue) + 1
         /\ DOMAIN batchQueue = 1..Len(batchQueue) /\ Len(batchQueue) \in Nat
         /\ DOMAIN batchQueue' = 1..(Len(batchQueue) + 1)
         /\ batchQueue'[Len(batchQueue) + 1] = NewBatch
         /\ \A i \in 1..Len(batchQueue) : batchQueue'[i] = batchQueue[i]
         /\ finishedIds' = {} /\ loop' = NoLoop
         /\ UNCHANGED <<waiting, skipped, running, kv, procSeq, resets, resetFailed,
                        workerLen, delivered>>
  <1>1. /\ pc = "end"
        /\ schedSeq' = IF DeferBlockFree /\ Scheduled # {} THEN schedSeq + 1 ELSE schedSeq
        /\ req' = [r \in Requests |->
             IF r \in Scheduled
               THEN AfterSchedule(req[r], loop.toks[r], loop.spec[r], schedSeq')
               ELSE req[r]]
        /\ batchQueue' = Append(batchQueue, NewBatch)
        /\ finishedIds' = {} /\ loop' = NoLoop
        /\ UNCHANGED <<waiting, skipped, running, kv, procSeq, resets, resetFailed,
                       workerLen, delivered>>
    BY DEF EndSchedule, NewBatch
  <1>2. pc' \in {"idle", "process"} /\ (Len(batchQueue') < BatchQueueSize \/ pc' = "process")
    BY DEF EndSchedule
  <1>3. /\ schedSeq \in Nat /\ req \in [Requests -> RequestType(schedSeq)]
        /\ loop.toks \in [Requests -> Int] /\ loop.spec \in [Requests -> Int]
        /\ loop.fresh \in [Requests -> Int] /\ kv.tables \in [Requests -> SUBSET Blocks]
        /\ batchQueue \in Seq(BatchType)
    BY DEF Base, Types, LoopType, KVType
  <1>4. schedSeq' \in Nat /\ schedSeq <= schedSeq' /\ schedSeq \in Nat
    BY <1>1, <1>3
  <1>5. ASSUME NEW r \in Requests
        PROVE  /\ AfterSchedule(req[r], loop.toks[r], loop.spec[r], schedSeq')
                    \in RequestType(schedSeq')
               /\ AfterSchedule(req[r], loop.toks[r], loop.spec[r], schedSeq').status
                    = req[r].status
               /\ req[r] \in RequestType(schedSeq')
    <2>1. req[r] \in RequestType(schedSeq) /\ loop.toks[r] \in Int /\ loop.spec[r] \in Int
      BY <1>3
    <2>2. AfterSchedule(req[r], loop.toks[r], loop.spec[r], schedSeq').status = req[r].status
          /\ AfterSchedule(req[r], loop.toks[r], loop.spec[r], schedSeq') \in RequestType(schedSeq')
      BY <1>4, <2>1, AfterScheduleIs
    <2>3. \A x \in 0..schedSeq : x \in 0..schedSeq'
      BY <1>4
    <2>4. req[r] \in RequestType(schedSeq')
      BY <2>1, <2>3 DEF RequestType
    <2>. QED  BY <2>2, <2>4
  <1>6. /\ req' \in [Requests -> RequestType(schedSeq')]
        /\ \A r \in Requests : req'[r].status = req[r].status
    BY <1>1, <1>5
  <1>7. Scheduled \in SUBSET Requests
    BY DEF Scheduled
  <1>8. NewBatch \in BatchType
    <2>. DEFINE gen == {r \in Scheduled : ~req'[r].prefillChunk}
                uses == [r \in Requests |-> IF r \in Scheduled THEN kv.tables[r] ELSE {}]
    <2>1. gen \in SUBSET Requests /\ uses \in [Requests -> SUBSET Blocks]
      BY <1>3, <1>7
    <2>2. NewBatch = [toks |-> loop.toks, spec |-> loop.spec, fresh |-> loop.fresh,
                      gen |-> gen, uses |-> uses, old |-> {}]
      BY DEF NewBatch
    <2>. HIDE DEF gen, uses
    <2>. QED  BY <1>3, <2>1, <2>2 DEF BatchType
  <1>9. /\ batchQueue' \in Seq(BatchType) /\ Len(batchQueue') = Len(batchQueue) + 1
        /\ DOMAIN batchQueue = 1..Len(batchQueue) /\ Len(batchQueue) \in Nat
        /\ batchQueue'[Len(batchQueue) + 1] = NewBatch
        /\ \A i \in 1..Len(batchQueue) : batchQueue'[i] = batchQueue[i]
    <2>. DEFINE b == NewBatch
    <2>1. batchQueue' = Append(batchQueue, b) /\ b \in BatchType
      BY <1>1, <1>8
    <2>. HIDE DEF b
    <2>2. /\ batchQueue' \in Seq(BatchType) /\ Len(batchQueue') = Len(batchQueue) + 1
          /\ batchQueue'[Len(batchQueue) + 1] = b
          /\ \A i \in 1..Len(batchQueue) : batchQueue'[i] = batchQueue[i]
      BY <1>3, <2>1, AppendProperties
    <2>3. DOMAIN batchQueue = 1..Len(batchQueue) /\ Len(batchQueue) \in Nat
      BY <1>3, LenProperties
    <2>. QED  BY <2>2, <2>3 DEF b
  <1>10. DOMAIN batchQueue' = 1..(Len(batchQueue) + 1)
    BY <1>9, LenProperties
  <1>11. \A r \in Scheduled :
           req'[r] = AfterSchedule(req[r], loop.toks[r], loop.spec[r], schedSeq')
    BY <1>1, <1>7
  <1>12. \A r \in Requests \ Scheduled : req'[r] = req[r]
    BY <1>1
  <1>. QED  BY <1>1, <1>2, <1>4, <1>6, <1>8, <1>9, <1>10, <1>11, <1>12

(* schedule()'s locals before it starts *)
LEMMA NoLoopType ==
  /\ NoLoop \in LoopType /\ NoLoop.stepSkipped = <<>> /\ NoLoop.toks = Zero
  /\ NoLoop.spec = Zero /\ NoLoop.fresh = Zero /\ NoLoop.budget = 0 /\ NoLoop.want = 0
  <1>1. Zero \in [Requests -> Int] /\ <<>> \in Seq(Requests)
    BY DEF Zero
  <1>. QED  BY <1>1 DEF NoLoop, LoopType

(* The end of schedule() keeps Base. *)
LEMMA EndScheduleBase ==
  ASSUME Base, EndSchedule
  PROVE  Base'
  <1>1. Types /\ Cursor /\ QueuesMatchStatus
    BY DEF Base
  <1>2. /\ pc = "end" /\ pc' \in {"idle", "process"}
        /\ Len(batchQueue) + 1 < BatchQueueSize \/ pc' = "process"
        /\ schedSeq' \in Nat /\ req' \in [Requests -> RequestType(schedSeq')]
        /\ \A r \in Requests : req'[r].status = req[r].status
        /\ batchQueue' \in Seq(BatchType) /\ Len(batchQueue') = Len(batchQueue) + 1
        /\ Len(batchQueue) \in Nat
        /\ finishedIds' = {} /\ loop' = NoLoop
        /\ UNCHANGED <<waiting, skipped, running, kv, procSeq, resets, resetFailed,
                       workerLen, delivered>>
    BY EndScheduleIs
  <1>3. loop.stepSkipped = <<>>
    BY <1>1, <1>2 DEF Cursor
  <1>4. Types'
    BY <1>1, <1>2, NoLoopType DEF Types
  <1>5. QueuesMatchStatus'
    BY <1>1, <1>2, <1>3, NoLoopType DEF QueuesMatchStatus
  <1>6. Cursor'
    <2>1. BatchQueueSize \in Nat /\ Len(batchQueue) < BatchQueueSize
      BY <1>1, <1>2, Numbers DEF BatchQueueSize, Cursor
    <2>2. /\ Len(batchQueue') <= BatchQueueSize
          /\ pc' # "process" => Len(batchQueue') < BatchQueueSize
      BY <1>2, <2>1
    <2>3. batchQueue' # <<>>
      BY <1>2, EmptySeq
    <2>4. BatchQueueSize' = BatchQueueSize /\ NoLoop' = NoLoop
      BY DEF BatchQueueSize, NoLoop, Zero
    <2>. QED  BY <1>2, <2>2, <2>3, <2>4, NoLoopType DEF Cursor
  <1>. QED  BY <1>4, <1>5, <1>6 DEF Base

(* The oldest batch *)
LEMMA BatchFacts ==
  ASSUME Base, pc = "process"
  PROVE  /\ batchQueue \in Seq(BatchType) /\ Len(batchQueue) \in Nat \ {0}
         /\ DOMAIN batchQueue = 1..Len(batchQueue)
         /\ Batch = batchQueue[1] /\ Batch \in BatchType
         /\ Batch.toks \in [Requests -> Int] /\ Batch.spec \in [Requests -> Int]
         /\ Batch.fresh \in [Requests -> Int] /\ Batch.gen \in SUBSET Requests
         /\ Tail(batchQueue) \in Seq(BatchType)
         /\ Len(Tail(batchQueue)) = Len(batchQueue) - 1
         /\ DOMAIN Tail(batchQueue) = 1..(Len(batchQueue) - 1)
         /\ \A i \in 1..(Len(batchQueue) - 1) : Tail(batchQueue)[i] = batchQueue[i + 1]
         /\ InBatch \in SUBSET Requests /\ Live \in SUBSET InBatch
  <1>1. batchQueue \in Seq(BatchType) /\ batchQueue # <<>>
    BY DEF Base, Types, Cursor
  <1>2. Len(batchQueue) \in Nat \ {0} /\ DOMAIN batchQueue = 1..Len(batchQueue)
    BY <1>1, LenProperties, EmptySeq
  <1>3. Batch = batchQueue[1] /\ Batch \in BatchType
    BY <1>1, <1>2, ElementOfSeq DEF Batch
  <1>4. /\ Tail(batchQueue) \in Seq(BatchType)
        /\ Len(Tail(batchQueue)) = Len(batchQueue) - 1
        /\ \A i \in 1..(Len(batchQueue) - 1) : Tail(batchQueue)[i] = batchQueue[i + 1]
    BY <1>1, <1>2, HeadTailProperties
  <1>5. DOMAIN Tail(batchQueue) = 1..(Len(batchQueue) - 1)
    BY <1>4, LenProperties
  <1>6. /\ Batch.toks \in [Requests -> Int] /\ Batch.spec \in [Requests -> Int]
        /\ Batch.fresh \in [Requests -> Int] /\ Batch.gen \in SUBSET Requests
    BY <1>3 DEF BatchType
  <1>7. InBatch \in SUBSET Requests /\ Live \in SUBSET InBatch
    BY DEF InBatch, Live
  <1>. QED  BY <1>1, <1>2, <1>3, <1>4, <1>5, <1>6, <1>7

(* The answer for a request of the batch *)
LEMMA OutcomeAnswer ==
  ASSUME Base, NEW a, Outcome(a), NEW r \in DOMAIN a
  PROVE  /\ r \in Requests /\ r \in InBatch /\ r \in Batch.gen /\ Known(r) /\ r \in Live
         /\ a[r] \in Answers(r)
         /\ a[r].gen \in Nat /\ a[r].kept \in Nat /\ a[r].gen >= 1 /\ a[r].kept >= 1
         /\ a[r].gen <= Batch.spec[r] + 1 /\ a[r].stop \in BOOLEAN
         /\ Batch.fresh[r] > 0 => a[r].gen = 1
         /\ a[r].kept <= a[r].gen /\ a[r].kept <= Room(r)
         /\ ~a[r].stop => a[r].kept = a[r].gen /\ a[r].kept < Room(r)
  <1>1. r \in Live \cap Batch.gen /\ a[r] \in Answers(r) /\ pc = "process"
    BY DEF Outcome
  <1>2. r \in InBatch /\ r \in Requests /\ Known(r) /\ Batch.spec[r] \in Int
    BY <1>1, BatchFacts DEF Live
  <1>3. Room(r) \in Int
    <2>1. req[r].tokens \in Int
      BY <1>2 DEF Base, Types, RequestType
    <2>2. PromptLen[r] + MaxTokens[r] \in Int /\ MaxModelLen \in Int
      BY <1>2, Numbers
    <2>3. MinOf(MaxModelLen, PromptLen[r] + MaxTokens[r]) \in Int
      BY <2>2 DEF MinOf
    <2>. QED  BY <2>1, <2>3 DEF Room
  <1>. DEFINE x == a[r]
  <1>4. /\ x.gen \in Nat /\ x.kept \in Nat /\ x.gen >= 1 /\ x.kept >= 1
        /\ x.gen <= Batch.spec[r] + 1 /\ x.stop \in BOOLEAN
        /\ Batch.fresh[r] > 0 => x.gen = 1
        /\ x.kept <= x.gen /\ x.kept <= Room(r)
        /\ ~x.stop => x.kept = x.gen /\ x.kept < Room(r)
    BY <1>1, <1>2, <1>3, AnswersAre
  <1>. QED  BY <1>1, <1>2, <1>4

(* What processing the oldest batch does to a request *)
LEMMA OutcomeRequest ==
  ASSUME Base, NEW a, Outcome(a), NEW r \in Requests
  PROVE  /\ req'[r] \in RequestType(schedSeq)
         /\ Returned(req[r], Batch.toks[r]) \in RequestType(schedSeq)
         /\ r \notin InBatch \/ ~Known(r) => req'[r] = req[r] /\ r \notin DOMAIN a
         /\ r \in InBatch /\ Known(r) /\ r \notin DOMAIN a =>
              req'[r] = Returned(req[r], Batch.toks[r])
         /\ r \in DOMAIN a /\ a[r].stop =>
              req'[r] = Finished(Returned(req[r], Batch.toks[r]), r)
         /\ r \in DOMAIN a /\ ~a[r].stop =>
              req'[r] = WithOutput(Returned(req[r], Batch.toks[r]), r, a[r], req[r].stale > 0)
         /\ r \in Stopped(a) => req'[r].status = "FINISHED"
         /\ r \notin Stopped(a) => req'[r].status = req[r].status
  <1>. DEFINE q == req[r]
              b == Returned(q, Batch.toks[r])
              f == Finished(b, r)
              o == WithOutput(b, r, a[r], q.stale > 0)
  <1>1. pc = "process" /\ req'[r] = UpdateRequest(r, a)
    BY DEF Outcome
  <1>2. q \in RequestType(schedSeq) /\ schedSeq \in Nat
    BY DEF Base, Types
  <1>3. Batch.toks[r] \in Int /\ Batch.spec[r] \in Int
    BY <1>1, BatchFacts
  <1>4. b \in RequestType(schedSeq) /\ b.status = q.status
    <2>. DEFINE n == Batch.toks[r]
                c == Returned(q, n)
                i == q.inFlight - n
                st == IF q.stale > 0 THEN q.stale - n ELSE 0
    <2>1. q \in RequestType(schedSeq) /\ n \in Int
      BY <1>2, <1>3
    <2>. HIDE DEF q, n
    <2>2. /\ c \in RequestType(schedSeq)
          /\ c = [status |-> q.status, tokens |-> q.tokens, computed |-> q.computed,
                  inFlight |-> i, stale |-> st,
                  dropStale |-> q.dropStale, placeholders |-> q.placeholders, spec |-> q.spec,
                  lastSeq |-> q.lastSeq, prefillChunk |-> q.prefillChunk,
                  notBefore |-> q.notBefore]
      BY <2>1, ReturnedIs
    <2>. HIDE DEF c, i, st
    <2>3. c \in RequestType(schedSeq) /\ c.status = q.status
      BY <2>2
    <2>. QED  BY <2>3 DEF c, q, n
  <1>5. f \in RequestType(schedSeq) /\ f.status = "FINISHED"
    BY <1>2, <1>4, FinishedIs
  <1>6. r \in DOMAIN a => o \in RequestType(schedSeq) /\ o.status = b.status
    <2>. SUFFICES ASSUME r \in DOMAIN a
                  PROVE  o \in RequestType(schedSeq) /\ o.status = b.status
      OBVIOUS
    <2>. DEFINE x == a[r]
                st == q.stale > 0
    <2>1. x.gen \in Int /\ x.kept \in Int
      BY OutcomeAnswer
    <2>2. st \in BOOLEAN
      OBVIOUS
    <2>. HIDE DEF x, st, b
    <2>3. /\ WithOutput(b, r, x, st) \in RequestType(schedSeq)
          /\ WithOutput(b, r, x, st).status = b.status
      BY <1>3, <1>4, <2>1, <2>2, WithOutputIs
    <2>. QED  BY <2>3 DEF x, st, b
  <1>7. r \in DOMAIN a => r \in InBatch /\ Known(r)
    BY OutcomeAnswer
  <1>8. UpdateRequest(r, a) = IF r \notin InBatch \/ ~Known(r) THEN q
                              ELSE IF r \notin DOMAIN a THEN b
                              ELSE IF a[r].stop THEN f ELSE o
    BY DEF UpdateRequest
  <1>9. r \in Stopped(a) <=> r \in DOMAIN a /\ a[r].stop
    BY DEF Stopped
  <1>. HIDE DEF b, f, o
  <1>10. /\ r \notin InBatch \/ ~Known(r) => req'[r] = q /\ r \notin DOMAIN a
         /\ r \in InBatch /\ Known(r) /\ r \notin DOMAIN a => req'[r] = b
         /\ r \in DOMAIN a /\ a[r].stop => req'[r] = f
         /\ r \in DOMAIN a /\ ~a[r].stop => req'[r] = o
    BY <1>1, <1>7, <1>8
  <1>11. req'[r] \in RequestType(schedSeq)
    BY <1>2, <1>4, <1>5, <1>6, <1>7, <1>10
  <1>12. /\ r \in Stopped(a) => req'[r].status = "FINISHED"
         /\ r \notin Stopped(a) => req'[r].status = q.status
    BY <1>4, <1>5, <1>6, <1>7, <1>9, <1>10
  <1>. QED  BY <1>4, <1>10, <1>11, <1>12 DEF b, f, o

(* update_from_output keeps Base. *)
LEMMA UpdateBase ==
  ASSUME Base, NEW a, Outcome(a)
  PROVE  Base'
  <1>1. Types /\ Cursor
    BY DEF Base
  <1>2. /\ pc = "process" /\ pc' = "idle" /\ procSeq' = Done
        /\ kv' = FreeRequestBlocks(DrainDeferredFrees(kv, Done), Stopped(a), Done)
        /\ req' = [r \in Requests |-> UpdateRequest(r, a)]
        /\ LeaveQueues(Stopped(a))
        /\ finishedIds' = finishedIds \cup Stopped(a)
        /\ batchQueue' = Tail(batchQueue)
        /\ schedSeq' = schedSeq /\ loop' = loop /\ resets' = resets
        /\ resetFailed' = resetFailed
    BY DEF Outcome
  <1>3. Done \in Nat
    BY <1>1 DEF Done, Types
  <1>4. Stopped(a) \in SUBSET Requests
    BY OutcomeAnswer DEF Stopped
  <1>5. kv' \in KVType
    <2>1. DrainDeferredFrees(kv, Done) \in KVType
      BY <1>1, <1>3, DrainIs DEF Types
    <2>. QED  BY <1>1, <1>2, <1>4, <2>1, FreeType DEF Types
  <1>6. req' \in [Requests -> RequestType(schedSeq)]
    BY <1>2, OutcomeRequest
  <1>7. loop = NoLoop /\ loop.stepSkipped = <<>>
    BY <1>1, <1>2 DEF Cursor
  <1>8. QueuesMatchStatus' /\ waiting' \in Seq(Requests) /\ skipped' \in Seq(Requests)
        /\ running' \in Seq(Requests)
    <2>1. /\ \A r \in Stopped(a) : req'[r].status = "FINISHED"
          /\ \A r \in Requests \ Stopped(a) : req'[r].status = req[r].status
      BY <1>4, OutcomeRequest
    <2>. DEFINE X == Stopped(a)
    <2>. HIDE DEF X
    <2>2. /\ X \in SUBSET Requests
          /\ LeaveQueues(X) /\ loop' = loop
          /\ \A r \in X : req'[r].status = "FINISHED"
          /\ \A r \in Requests \ X : req'[r].status = req[r].status
      BY <1>2, <1>4, <2>1 DEF X
    <2>. QED  BY <1>7, <2>2, QueuesLeft
  <1>9. workerLen' \in [Requests -> Int] /\ delivered' \in [Requests -> Seq(Int)]
    <2>1. /\ workerLen' = [r \in Requests |->
               IF r \notin InBatch THEN workerLen[r]
               ELSE WorkerBase(r) + IF r \in DOMAIN a THEN a[r].gen ELSE 0]
          /\ delivered' = [r \in Requests |->
               IF r \in DOMAIN a
                 THEN delivered[r] \o [i \in 1..a[r].kept |-> WorkerBase(r) + i]
                 ELSE delivered[r]]
      BY DEF Outcome
    <2>2. ASSUME NEW r \in Requests
          PROVE  WorkerBase(r) \in Int /\ workerLen[r] \in Int /\ delivered[r] \in Seq(Int)
      <3>1. Batch.fresh[r] \in Int /\ workerLen[r] \in Int /\ delivered[r] \in Seq(Int)
        BY <1>1, <1>2, BatchFacts DEF Types
      <3>. QED  BY <3>1 DEF WorkerBase
    <2>3. ASSUME NEW r \in Requests, r \in DOMAIN a
          PROVE  delivered[r] \o [i \in 1..a[r].kept |-> WorkerBase(r) + i] \in Seq(Int)
      <3>. DEFINE k == a[r].kept
                  base == WorkerBase(r)
      <3>1. k \in Nat /\ base \in Int
        BY <2>2, <2>3, OutcomeAnswer
      <3>. HIDE DEF k, base
      <3>2. [i \in 1..k |-> base + i] \in [1..k -> Int]
        BY <3>1
      <3>3. [i \in 1..k |-> base + i] \in Seq(Int)
        BY <3>1, <3>2, SeqDef
      <3>4. delivered[r] \o [i \in 1..k |-> base + i] \in Seq(Int)
        BY <2>2, <3>3, ConcatProperties
      <3>. QED  BY <3>4 DEF k, base
    <2>4. \A r \in DOMAIN a : a[r].gen \in Int
      BY OutcomeAnswer
    <2>5. workerLen' \in [Requests -> Int]
      BY <2>1, <2>2, <2>4
    <2>6. delivered' \in [Requests -> Seq(Int)]
      BY <2>1, <2>2, <2>3
    <2>. QED  BY <2>5, <2>6
  <1>10. finishedIds' \in SUBSET Requests /\ procSeq' \in Nat
    BY <1>1, <1>2, <1>3, <1>4 DEF Types
  <1>11. batchQueue' \in Seq(BatchType) /\ Len(batchQueue') = Len(batchQueue) - 1
    BY <1>2, BatchFacts
  <1>12. Types'
    BY <1>1, <1>2, <1>5, <1>6, <1>8, <1>9, <1>10, <1>11 DEF Types
  <1>13. Cursor'
    <2>1. Len(batchQueue') < BatchQueueSize /\ Len(batchQueue') <= BatchQueueSize
      <3>1. Len(batchQueue) \in Nat /\ Len(batchQueue) <= BatchQueueSize /\ BatchQueueSize \in Nat
        BY <1>1, <1>2, BatchFacts, Numbers DEF Cursor, BatchQueueSize
      <3>. QED  BY <1>11, <3>1
    <2>2. BatchQueueSize' = BatchQueueSize /\ NoLoop' = NoLoop
      BY DEF BatchQueueSize, NoLoop, Zero
    <2>. QED  BY <1>2, <1>7, <2>1, <2>2 DEF Cursor
  <1>. QED  BY <1>8, <1>12, <1>13 DEF Base

(* Base holds at the start. *)
LEMMA InitBase ==
  ASSUME Init
  PROVE  Base
  <1>1. Types
    <2>1. \A r \in Requests : NewRequest(r) \in RequestType(0)
      BY NewRequestType
    <2>2. req \in [Requests -> RequestType(schedSeq)]
      BY <2>1 DEF Init
    <2>3. kv \in KVType
      <3>. DEFINE t == [r \in Requests |-> {}]
                  d == <<>>
      <3>1. t \in [Requests -> SUBSET Blocks] /\ d \in Seq(DeferredType)
            /\ kv = [free |-> Blocks, tables |-> t, deferred |-> d]
        BY DEF Init
      <3>. HIDE DEF t, d
      <3>. QED  BY <3>1 DEF KVType
    <2>4. workerLen \in [Requests -> Int] /\ delivered \in [Requests -> Seq(Int)]
      BY DEF Init, Zero
    <2>5. /\ waiting \in Seq(Requests) /\ skipped \in Seq(Requests)
          /\ running \in Seq(Requests) /\ batchQueue \in Seq(BatchType)
      <3>1. \A T : <<>> \in Seq(T)
        OBVIOUS
      <3>. QED  BY <3>1 DEF Init
    <2>6. /\ schedSeq \in Nat /\ procSeq \in Nat /\ resets \in Nat
          /\ resetFailed \in BOOLEAN /\ finishedIds \in SUBSET Requests /\ pc = "idle"
      BY DEF Init
    <2>7. loop \in LoopType
      BY NoLoopType DEF Init
    <2>. QED  BY <2>2, <2>3, <2>4, <2>5, <2>6, <2>7 DEF Types
  <1>2. QueuesMatchStatus
    <2>1. \A r \in Requests : req[r].status = "NONE"
      BY DEF Init, NewRequest
    <2>2. IsInjective(<<>>) /\ ToSet(<<>>) = {}
      BY DEF IsInjective, ToSet
    <2>. QED  BY <2>1, <2>2, NoLoopType DEF Init, QueuesMatchStatus
  <1>3. Cursor
    <2>1. Len(batchQueue) = 0 /\ BatchQueueSize \in Nat \ {0}
      BY Numbers DEF Init, BatchQueueSize
    <2>. QED  BY <2>1, NoLoopType DEF Init, Cursor
  <1>. QED  BY <1>1, <1>2, <1>3 DEF Base

(* Every step keeps Base. *)
LEMMA BaseStep ==
  ASSUME Base, [Next]_vars
  PROVE  Base'
  <1>1. CASE \E r \in Requests : AddRequest(r) \/ FinishRequest(r)
    BY <1>1, AddRequestBase, FinishRequestBase
  <1>2. CASE ResetPrefixCache
    BY <1>2, ResetBase
  <1>3. CASE StartSchedule \/ StartDrain
    BY <1>3, StartScheduleBase, StartDrainBase
  <1>4. CASE SkipRunning \/ PickRunning \/ AllocateRunning \/ PreemptForRunning \/ EndRunning
    BY <1>4, SkipRunningBase, PickRunningBase, AllocateRunningBase, PreemptForRunningBase,
       EndRunningBase
  <1>5. CASE SkipWaiting \/ AdmitWaiting \/ EndWaiting
    BY <1>5, SkipWaitingBase, AdmitWaitingBase, EndWaitingBase
  <1>6. CASE EndSchedule
    BY <1>6, EndScheduleBase
  <1>7. CASE UpdateFromOutput
    BY <1>7, UpdateHasOutcome, UpdateBase
  <1>8. CASE UNCHANGED vars
    <2>1. Types'
      BY <1>8 DEF Base, Types, vars
    <2>2. QueuesMatchStatus'
      BY <1>8 DEF Base, QueuesMatchStatus, vars
    <2>3. Cursor'
      BY <1>8 DEF Base, Cursor, vars
    <2>. QED  BY <2>1, <2>2, <2>3 DEF Base
  <1>. QED  BY <1>1, <1>2, <1>3, <1>4, <1>5, <1>6, <1>7, <1>8 DEF Next, EngineStep

(* Base is an invariant. *)
LEMMA BaseHolds == Spec => []Base
  BY InitBase, BaseStep, PTL DEF Spec

(* Every request is in exactly one queue, exactly once, and its status     *)
(* says which, however preemptions, aborts, stops and skips follow each    *)
(* other (scheduler.py 1690, 2389-2397, 2874-2880, 1433).                  *)
THEOREM QueuesMatch == Spec => []QueuesMatchStatus
  <1>1. Base => QueuesMatchStatus
    BY DEF Base
  <1>. QED  BY <1>1, BaseHolds, PTL
-----------------------------------------------------------------------------
(* Blocks.  The partition of the pool block by block, for the KV state k. *)

Placed(k) ==
  /\ \A r \in Requests : \A b \in k.tables[r] :
       b \notin k.free /\ \A i \in DOMAIN k.deferred : b \notin k.deferred[i].blocks
  /\ \A r, s \in Requests : \A b \in k.tables[r] : b \in k.tables[s] => r = s
  /\ \A i, j \in DOMAIN k.deferred : \A b \in k.deferred[i].blocks :
       b \notin k.free /\ (b \in k.deferred[j].blocks => i = j)
  /\ \A b \in Blocks : \/ b \in k.free
                       \/ \E r \in Requests : b \in k.tables[r]
                       \/ \E i \in DOMAIN k.deferred : b \in k.deferred[i].blocks

(* The blocks of k are placed as BlocksPartitioned says. *)
LEMMA PlacedPartitioned ==
  ASSUME kv \in KVType
  PROVE  Placed(kv) <=> BlocksPartitioned
  <1>1. /\ kv.free \in SUBSET Blocks /\ kv.tables \in [Requests -> SUBSET Blocks]
        /\ \A i \in DOMAIN kv.deferred : kv.deferred[i].blocks \in SUBSET Blocks
    <2>1. kv.deferred \in Seq(DeferredType)
      BY DEF KVType
    <2>2. \A i \in DOMAIN kv.deferred : kv.deferred[i] \in DeferredType
      BY <2>1
    <2>. QED  BY <2>2 DEF KVType, DeferredType
  <1>2. /\ DeferredBlocks \in SUBSET Blocks
        /\ \A b : b \in DeferredBlocks <=> \E i \in DOMAIN kv.deferred : b \in kv.deferred[i].blocks
    BY <1>1 DEF DeferredBlocks
  <1>3. ASSUME Placed(kv)  PROVE BlocksPartitioned
    <2>1. \A r \in Requests : kv.tables[r] \cap (kv.free \cup DeferredBlocks) = {}
      BY <1>2, <1>3 DEF Placed
    <2>2. \A r, s \in Requests : r # s => kv.tables[r] \cap kv.tables[s] = {}
      BY <1>3 DEF Placed
    <2>3. \A i, j \in DOMAIN kv.deferred :
            i # j => kv.deferred[i].blocks \cap kv.deferred[j].blocks = {}
      BY <1>3 DEF Placed
    <2>4. kv.free \cap DeferredBlocks = {}
      BY <1>2, <1>3 DEF Placed
    <2>5. Blocks = kv.free \cup DeferredBlocks \cup UNION {kv.tables[r] : r \in Requests}
      BY <1>1, <1>2, <1>3 DEF Placed
    <2>. QED  BY <2>1, <2>2, <2>3, <2>4, <2>5 DEF BlocksPartitioned
  <1>4. ASSUME BlocksPartitioned  PROVE Placed(kv)
    <2>1. \A r \in Requests : \A b \in kv.tables[r] :
            b \notin kv.free /\ \A i \in DOMAIN kv.deferred : b \notin kv.deferred[i].blocks
      BY <1>2, <1>4 DEF BlocksPartitioned
    <2>2. \A r, s \in Requests : \A b \in kv.tables[r] : b \in kv.tables[s] => r = s
      BY <1>4 DEF BlocksPartitioned
    <2>3. \A i, j \in DOMAIN kv.deferred : \A b \in kv.deferred[i].blocks :
            b \notin kv.free /\ (b \in kv.deferred[j].blocks => i = j)
      BY <1>2, <1>4 DEF BlocksPartitioned
    <2>4. \A b \in Blocks : \/ b \in kv.free
                            \/ \E r \in Requests : b \in kv.tables[r]
                            \/ \E i \in DOMAIN kv.deferred : b \in kv.deferred[i].blocks
      BY <1>2, <1>4 DEF BlocksPartitioned
    <2>. QED  BY <2>1, <2>2, <2>3, <2>4 DEF Placed
  <1>. QED  BY <1>3, <1>4

(* Freeing the blocks of some requests, now or behind a fence, loses none. *)
LEMMA FreePlaced ==
  ASSUME NEW k \in KVType, NEW S \in SUBSET Requests, NEW done, schedSeq \in Nat, Placed(k)
  PROVE  /\ Placed(FreeRequestBlocks(k, S, done))
         /\ FreeRequestBlocks(k, S, done).tables
              = [r \in Requests |-> IF r \in S THEN {} ELSE k.tables[r]]
  <1>. DEFINE e == LateEntries(k, S, done)
              w == FreeRequestBlocks(k, S, done)
              L == LateOf(k, S, done)
              d == k.deferred
              n == Len(d)
  <1>1. PICK c, order : EntriesOf(e, k, L, c, order)
    BY LateEntriesList
  <1>2. /\ c \in Nat /\ order \in [1..c -> L]
        /\ \A i, j \in 1..c : order[i] = order[j] => i = j
        /\ \A r \in L : \E i \in 1..c : order[i] = r
        /\ e \in Seq(DeferredType) /\ Len(e) = c
        /\ \A i \in 1..c : e[i] = [fence |-> schedSeq, blocks |-> k.tables[order[i]]]
    BY <1>1 DEF EntriesOf
  <1>3. d \in Seq(DeferredType) /\ n \in Nat /\ DOMAIN d = 1..n
    BY DEF KVType
  <1>4. w = [free     |-> k.free \cup UNION {k.tables[r] : r \in S \ L},
             tables   |-> [r \in Requests |-> IF r \in S THEN {} ELSE k.tables[r]],
             deferred |-> d \o e]
    BY FreeRequestBlocksIs
  <1>5. L \in SUBSET S
    BY DEF LateOf
  <1>. HIDE DEF e, w, L, d, n
  <1>6. /\ w.tables = [r \in Requests |-> IF r \in S THEN {} ELSE k.tables[r]]
        /\ w.deferred = d \o e
        /\ \A b : b \in w.free <=> b \in k.free \/ \E r \in S \ L : b \in k.tables[r]
    BY <1>4
  <1>7. /\ DOMAIN (d \o e) = 1..(n + c)
        /\ \A i \in 1..n : (d \o e)[i] = d[i]
        /\ \A i \in 1..c : (d \o e)[n + i] = e[i]
    <2>1. d \in Seq(DeferredType) /\ e \in Seq(DeferredType) /\ Len(e) = c /\ Len(d) = n
      BY <1>2, <1>3 DEF n
    <2>2. /\ d \o e \in Seq(DeferredType) /\ Len(d \o e) = n + c
          /\ \A i \in 1..(n + c) : (d \o e)[i] = IF i <= n THEN d[i] ELSE e[i - n]
      BY <2>1, ConcatProperties
    <2>3. \A i \in 1..n : i \in 1..(n + c) /\ i <= n
      BY <1>2, <1>3
    <2>4. \A i \in 1..c : n + i \in 1..(n + c) /\ ~(n + i <= n) /\ (n + i) - n = i
      BY <1>2, <1>3
    <2>. HIDE DEF n
    <2>5. \A i \in 1..n : (d \o e)[i] = d[i]
      BY <2>2, <2>3
    <2>6. \A i \in 1..c : (d \o e)[n + i] = e[i]
      <3>. TAKE i \in 1..c
      <3>1. (d \o e)[n + i] = IF n + i <= n THEN d[n + i] ELSE e[(n + i) - n]
        BY <2>2, <2>4
      <3>. QED  BY <2>4, <3>1
    <2>7. DOMAIN (d \o e) = 1..(n + c)
      BY <2>2
    <2>. QED  BY <2>5, <2>6, <2>7
  <1>8. \A i \in 1..c : e[i].blocks = k.tables[order[i]] /\ order[i] \in L
    BY <1>2
  <1>9. \A i \in 1..(n + c) : \/ i \in 1..n /\ w.deferred[i].blocks = d[i].blocks
                              \/ \E j \in 1..c : /\ i = n + j /\ i \notin 1..n
                                                 /\ w.deferred[i].blocks = k.tables[order[j]]
    <2>. SUFFICES ASSUME NEW i \in 1..(n + c)
                  PROVE  \/ i \in 1..n /\ w.deferred[i].blocks = d[i].blocks
                         \/ \E j \in 1..c : /\ i = n + j /\ i \notin 1..n
                                            /\ w.deferred[i].blocks = k.tables[order[j]]
      OBVIOUS
    <2>1. CASE i <= n
      BY <1>3, <1>6, <1>7, <2>1
    <2>2. CASE i > n
      <3>1. i - n \in 1..c /\ i = n + (i - n) /\ i \notin 1..n
        BY <1>2, <1>3, <2>2
      <3>2. PICK j \in 1..c : i = n + j
        BY <3>1
      <3>3. w.deferred[n + j] = e[j]
        BY <1>6, <1>7
      <3>4. w.deferred[i].blocks = k.tables[order[j]]
        BY <1>8, <3>2, <3>3
      <3>. QED  BY <3>1, <3>2, <3>4
    <2>. QED  BY <1>2, <1>3, <2>1, <2>2
  <1>10. /\ \A i \in 1..n : i \in 1..(n + c) /\ w.deferred[i].blocks = d[i].blocks
         /\ \A j \in 1..c : n + j \in 1..(n + c) /\ w.deferred[n + j].blocks = k.tables[order[j]]
    <2>1. \A i \in 1..n : i \in 1..(n + c)
      BY <1>2, <1>3
    <2>2. \A j \in 1..c : n + j \in 1..(n + c)
      BY <1>2, <1>3
    <2>3. \A i \in 1..n : w.deferred[i] = d[i]
      BY <1>6, <1>7
    <2>4. \A j \in 1..c : w.deferred[n + j] = e[j]
      BY <1>6, <1>7
    <2>. QED  BY <1>8, <2>1, <2>2, <2>3, <2>4
  <1>11. DOMAIN w.deferred = 1..(n + c)
    BY <1>6, <1>7
  <1>12. \A r \in Requests : w.tables[r] = IF r \in S THEN {} ELSE k.tables[r]
    BY <1>6
  <1>13. /\ \A r \in Requests : \A b \in k.tables[r] :
              b \notin k.free /\ \A i \in 1..n : b \notin d[i].blocks
         /\ \A r, s \in Requests : \A b \in k.tables[r] : b \in k.tables[s] => r = s
         /\ \A i, j \in 1..n : \A b \in d[i].blocks :
              b \notin k.free /\ (b \in d[j].blocks => i = j)
         /\ \A b \in Blocks : \/ b \in k.free
                              \/ \E r \in Requests : b \in k.tables[r]
                              \/ \E i \in 1..n : b \in d[i].blocks
    BY <1>3 DEF Placed, d
  <1>14. \A r \in Requests : \A b \in w.tables[r] :
           b \notin w.free /\ \A i \in DOMAIN w.deferred : b \notin w.deferred[i].blocks
    <2>. SUFFICES ASSUME NEW r \in Requests, NEW b \in w.tables[r]
                  PROVE  b \notin w.free /\ \A i \in 1..(n + c) : b \notin w.deferred[i].blocks
      BY <1>11
    <2>1. r \notin S /\ b \in k.tables[r]
      BY <1>12
    <2>2. b \notin k.free /\ (\A s \in S : b \notin k.tables[s]) /\ \A i \in 1..n : b \notin d[i].blocks
      BY <1>13, <2>1
    <2>3. b \notin w.free
      BY <1>6, <2>2
    <2>4. \A j \in 1..c : b \notin k.tables[order[j]]
      BY <1>5, <1>8, <2>2
    <2>. QED  BY <1>9, <2>2, <2>3, <2>4
  <1>15. \A r, s \in Requests : \A b \in w.tables[r] : b \in w.tables[s] => r = s
    BY <1>12, <1>13
  <1>16. \A i, j \in DOMAIN w.deferred : \A b \in w.deferred[i].blocks :
           b \notin w.free /\ (b \in w.deferred[j].blocks => i = j)
    <2>. SUFFICES ASSUME NEW i \in 1..(n + c), NEW j \in 1..(n + c), NEW b \in w.deferred[i].blocks
                  PROVE  b \notin w.free /\ (b \in w.deferred[j].blocks => i = j)
      BY <1>11
    <2>1. CASE i \in 1..n /\ w.deferred[i].blocks = d[i].blocks
      <3>1. b \in d[i].blocks /\ b \notin k.free /\ \A r \in Requests : b \notin k.tables[r]
        BY <1>13, <2>1
      <3>2. b \notin w.free
        BY <1>6, <3>1
      <3>3. \A m \in 1..c : b \notin k.tables[order[m]]
        BY <1>5, <1>8, <3>1
      <3>4. \A m \in 1..n : b \in d[m].blocks => i = m
        BY <1>13, <2>1, <3>1
      <3>. QED  BY <1>9, <3>2, <3>3, <3>4
    <2>2. CASE \E m \in 1..c : i = n + m /\ w.deferred[i].blocks = k.tables[order[m]]
      <3>1. PICK m \in 1..c : i = n + m /\ w.deferred[i].blocks = k.tables[order[m]]
        BY <2>2
      <3>2. order[m] \in L /\ order[m] \in Requests /\ b \in k.tables[order[m]]
        BY <1>5, <1>8, <3>1
      <3>3. b \notin k.free /\ \A x \in 1..n : b \notin d[x].blocks
        BY <1>13, <3>2
      <3>4. \A r \in Requests : b \in k.tables[r] => r = order[m]
        BY <1>13, <3>2
      <3>5. b \notin w.free
        BY <1>6, <3>2, <3>3, <3>4
      <3>6. \A x \in 1..c : b \in k.tables[order[x]] => x = m
        BY <1>2, <1>5, <1>8, <3>4
      <3>. QED  BY <1>9, <3>1, <3>3, <3>5, <3>6
    <2>. QED  BY <1>9, <2>1, <2>2
  <1>17. \A b \in Blocks : \/ b \in w.free
                           \/ \E r \in Requests : b \in w.tables[r]
                           \/ \E i \in DOMAIN w.deferred : b \in w.deferred[i].blocks
    <2>. SUFFICES ASSUME NEW b \in Blocks, NEW r \in Requests, b \in k.tables[r]
                  PROVE  \/ b \in w.free
                         \/ \E s \in Requests : b \in w.tables[s]
                         \/ \E i \in DOMAIN w.deferred : b \in w.deferred[i].blocks
      BY <1>6, <1>10, <1>11, <1>13
    <2>1. CASE r \notin S
      BY <1>12, <2>1
    <2>2. CASE r \in S \ L
      BY <1>6, <2>2
    <2>3. CASE r \in L
      <3>1. PICK m \in 1..c : order[m] = r
        BY <1>2, <2>3
      <3>. QED  BY <1>10, <1>11, <3>1
    <2>. QED  BY <2>1, <2>2, <2>3
  <1>18. Placed(w)
    BY <1>14, <1>15, <1>16, <1>17 DEF Placed
  <1>. QED  BY <1>6, <1>18 DEF w

(* Draining returns the blocks of the oldest entries to the pool. *)
LEMMA DrainPlaced ==
  ASSUME NEW k \in KVType, NEW done \in Nat, Placed(k)
  PROVE  /\ Placed(DrainDeferredFrees(k, done))
         /\ DrainDeferredFrees(k, done).tables = k.tables
         /\ DrainDeferredFrees(k, done) \in KVType
  <1>. DEFINE w == DrainDeferredFrees(k, done)
              d == k.deferred
              n == Len(d)
  <1>1. PICK m \in 0..n :
           LET t == SubSeq(d, m + 1, n) IN
            /\ w = [free     |-> k.free \cup UNION {d[i].blocks : i \in 1..m},
                  tables   |-> k.tables,
                  deferred |-> t]
            /\ t \in Seq(DeferredType) /\ Len(t) = n - m
            /\ \A i \in 1..(n - m) : t[i] = d[m + i]
            /\ w \in KVType
    BY DrainIs
  <1>2. d \in Seq(DeferredType) /\ n \in Nat /\ DOMAIN d = 1..n
    BY DEF KVType
  <1>. HIDE DEF w, d, n
  <1>3. /\ w.tables = k.tables
        /\ \A b : b \in w.free <=> b \in k.free \/ \E i \in 1..m : b \in d[i].blocks
        /\ DOMAIN w.deferred = 1..(n - m)
        /\ \A i \in 1..(n - m) : w.deferred[i] = d[m + i]
    <2>. DEFINE t == SubSeq(d, m + 1, n)
    <2>1. /\ w = [free |-> k.free \cup UNION {d[i].blocks : i \in 1..m},
                  tables |-> k.tables, deferred |-> t]
          /\ t \in Seq(DeferredType) /\ Len(t) = n - m
          /\ \A i \in 1..(n - m) : t[i] = d[m + i]
      BY <1>1
    <2>. HIDE DEF t
    <2>2. DOMAIN t = 1..(n - m)
      BY <2>1
    <2>. QED  BY <2>1, <2>2
  <1>4. /\ \A i \in 1..(n - m) : m + i \in 1..n /\ m + i \notin 1..m
        /\ \A i \in 1..m : i \in 1..n
        /\ \A i, j \in 1..(n - m) : m + i = m + j => i = j
        /\ \A i \in 1..n : i \in 1..m \/ (i - m \in 1..(n - m) /\ m + (i - m) = i)
    BY <1>1, <1>2
  <1>5. /\ \A r \in Requests : \A b \in k.tables[r] :
              b \notin k.free /\ \A i \in 1..n : b \notin d[i].blocks
        /\ \A r, s \in Requests : \A b \in k.tables[r] : b \in k.tables[s] => r = s
        /\ \A i, j \in 1..n : \A b \in d[i].blocks :
             b \notin k.free /\ (b \in d[j].blocks => i = j)
        /\ \A b \in Blocks : \/ b \in k.free
                             \/ \E r \in Requests : b \in k.tables[r]
                             \/ \E i \in 1..n : b \in d[i].blocks
    BY <1>2 DEF Placed, d
  <1>6. \A r \in Requests : \A b \in w.tables[r] :
          b \notin w.free /\ \A i \in DOMAIN w.deferred : b \notin w.deferred[i].blocks
    BY <1>3, <1>4, <1>5
  <1>7. \A r, s \in Requests : \A b \in w.tables[r] : b \in w.tables[s] => r = s
    BY <1>3, <1>5
  <1>8. \A i, j \in DOMAIN w.deferred : \A b \in w.deferred[i].blocks :
          b \notin w.free /\ (b \in w.deferred[j].blocks => i = j)
    BY <1>3, <1>4, <1>5
  <1>9. \A b \in Blocks : \/ b \in w.free
                          \/ \E r \in Requests : b \in w.tables[r]
                          \/ \E i \in DOMAIN w.deferred : b \in w.deferred[i].blocks
    <2>. SUFFICES ASSUME NEW b \in Blocks, NEW i \in 1..n, b \in d[i].blocks
                  PROVE  \/ b \in w.free
                         \/ \E j \in DOMAIN w.deferred : b \in w.deferred[j].blocks
      BY <1>3, <1>5
    <2>1. CASE i \in 1..m
      BY <1>3, <2>1
    <2>2. CASE i - m \in 1..(n - m) /\ m + (i - m) = i
      <3>1. w.deferred[i - m] = d[i]
        BY <1>3, <2>2
      <3>. QED  BY <1>3, <2>2, <3>1
    <2>. QED  BY <1>4, <2>1, <2>2
  <1>10. Placed(w)
    BY <1>6, <1>7, <1>8, <1>9 DEF Placed
  <1>. QED  BY <1>1, <1>3, <1>10 DEF w

(* Allocating takes free blocks. *)
LEMMA NewPlaced ==
  ASSUME Types, Placed(kv), NEW r \in Requests, NEW n, GetNewBlocks(r, n)
  PROVE  /\ Placed(kv') /\ kv' \in KVType
         /\ \A s \in Requests \ {r} : kv'.tables[s] = kv.tables[s]
  <1>1. PICK new \in SUBSET kv.free :
            /\ kv' = [free |-> kv.free \ new,
                      tables |-> [kv.tables EXCEPT ![r] = @ \cup new],
                      deferred |-> kv.deferred]
            /\ kv' \in KVType
    BY NewBlocksAre
  <1>. DEFINE t == [kv.tables EXCEPT ![r] = @ \cup new]
  <1>2. kv.tables \in [Requests -> SUBSET Blocks] /\ kv.free \in SUBSET Blocks
    BY DEF Types, KVType
  <1>3. /\ \A s \in Requests \ {r} : t[s] = kv.tables[s]
        /\ t[r] = kv.tables[r] \cup new
    BY <1>2
  <1>. HIDE DEF t
  <1>4. kv'.free = kv.free \ new /\ kv'.tables = t /\ kv'.deferred = kv.deferred
    BY <1>1 DEF t
  <1>5. Placed(kv')
    <2>. DEFINE w == kv'
    <2>1. w.free = kv.free \ new /\ w.tables = t /\ w.deferred = kv.deferred
      BY <1>4
    <2>. HIDE DEF w
    <2>2. \A s \in Requests : \A b \in w.tables[s] :
            b \notin w.free /\ \A i \in DOMAIN w.deferred : b \notin w.deferred[i].blocks
      BY <1>3, <2>1 DEF Placed
    <2>3. \A s, u \in Requests : \A b \in w.tables[s] : b \in w.tables[u] => s = u
      BY <1>3, <2>1 DEF Placed
    <2>4. \A i, j \in DOMAIN w.deferred : \A b \in w.deferred[i].blocks :
            b \notin w.free /\ (b \in w.deferred[j].blocks => i = j)
      BY <2>1 DEF Placed
    <2>5. \A b \in Blocks : \/ b \in w.free
                            \/ \E s \in Requests : b \in w.tables[s]
                            \/ \E i \in DOMAIN w.deferred : b \in w.deferred[i].blocks
      BY <1>3, <2>1 DEF Placed
    <2>6. Placed(w)
      BY <2>2, <2>3, <2>4, <2>5 DEF Placed
    <2>. QED  BY <2>6 DEF w
  <1>. QED  BY <1>1, <1>3, <1>4, <1>5

Held == Placed(kv) /\ OnlyRunningHold

(* A step that frees the blocks of S and changes no other request's status *)
LEMMA FreeHeld ==
  ASSUME Types, Held, NEW S \in SUBSET Requests, NEW done,
         kv' = FreeRequestBlocks(kv, S, done),
         \A r \in Requests \ S : req[r].status = "RUNNING" => req'[r].status = "RUNNING"
  PROVE  Held'
  <1>1. /\ Placed(kv')
        /\ kv'.tables = [r \in Requests |-> IF r \in S THEN {} ELSE kv.tables[r]]
    <2>. DEFINE w == FreeRequestBlocks(kv, S, done)
    <2>1. kv \in KVType /\ schedSeq \in Nat /\ Placed(kv)
      BY DEF Types, Held
    <2>2. Placed(w) /\ w.tables = [r \in Requests |-> IF r \in S THEN {} ELSE kv.tables[r]]
      BY <2>1, FreePlaced
    <2>. HIDE DEF w
    <2>3. kv' = w
      BY DEF w
    <2>. QED  BY <2>2, <2>3
  <1>2. OnlyRunningHold'
    BY <1>1 DEF Held, OnlyRunningHold
  <1>3. Placed(kv)'
    BY <1>1 DEF Placed
  <1>. QED  BY <1>2, <1>3 DEF Held

(* A step that leaves the blocks alone *)
LEMMA KeepHeld ==
  ASSUME Held, kv' = kv,
         \A r \in Requests : req[r].status = "RUNNING" => req'[r].status = "RUNNING"
  PROVE  Held'
  BY DEF Held, OnlyRunningHold, Placed

(* A step that allocates blocks to a request that runs *)
LEMMA AllocateHeld ==
  ASSUME Types, Held, NEW r \in Requests, NEW n, GetNewBlocks(r, n),
         req'[r].status = "RUNNING",
         \A s \in Requests \ {r} : req'[s].status = req[s].status
  PROVE  Held'
  <1>1. Placed(kv') /\ \A s \in Requests \ {r} : kv'.tables[s] = kv.tables[s]
    BY NewPlaced DEF Held
  <1>2. OnlyRunningHold'
    BY <1>1 DEF Held, OnlyRunningHold
  <1>3. Placed(kv)'
    BY <1>1 DEF Placed
  <1>. QED  BY <1>2, <1>3 DEF Held

(* update_from_output keeps Held. *)
LEMMA UpdateHeld ==
  ASSUME Base, Held, NEW a, Outcome(a)
  PROVE  Held'
  <1>. DEFINE k == DrainDeferredFrees(kv, Done)
              S == Stopped(a)
              w == FreeRequestBlocks(k, S, Done)
  <1>1. kv' = w
    BY DEF Outcome
  <1>2. S \in SUBSET Requests /\ \A r \in S : req'[r].status = "FINISHED"
    <2>1. S \in SUBSET DOMAIN a
      BY DEF Stopped
    <2>. QED  BY <2>1, OutcomeAnswer, OutcomeRequest
  <1>3. \A r \in Requests \ S : req'[r].status = req[r].status
    BY OutcomeRequest
  <1>4. Done \in Nat /\ kv \in KVType /\ schedSeq \in Nat /\ Placed(kv)
    BY DEF Done, Base, Types, Held
  <1>5. Placed(k) /\ k.tables = kv.tables /\ k \in KVType
    BY <1>4, DrainPlaced
  <1>. HIDE DEF k, S
  <1>6. Placed(w) /\ w.tables = [r \in Requests |-> IF r \in S THEN {} ELSE k.tables[r]]
    BY <1>2, <1>4, <1>5, FreePlaced
  <1>. HIDE DEF w
  <1>7. OnlyRunningHold'
    BY <1>1, <1>2, <1>3, <1>5, <1>6 DEF Held, OnlyRunningHold
  <1>8. Placed(kv)'
    BY <1>1, <1>6 DEF Placed
  <1>. QED  BY <1>7, <1>8 DEF Held

(* Every step keeps Held. *)
LEMMA HeldStep ==
  ASSUME Base, Held, [Next]_vars
  PROVE  Held'
  <1>. USE DEF Base
  <1>1. ASSUME NEW r \in Requests, AddRequest(r)  PROVE Held'
    <2>1. req'[r].status = "WAITING" /\ \A s \in Requests \ {r} : req'[s] = req[s]
      BY <1>1, StatusUpdate DEF AddRequest, Statuses
    <2>2. req[r].status = "NONE" /\ kv' = kv
      BY <1>1 DEF AddRequest
    <2>. QED  BY <2>1, <2>2, KeepHeld
  <1>2. ASSUME NEW r \in Requests, FinishRequest(r)  PROVE Held'
    <2>. DEFINE S == {r}
    <2>1. S \in SUBSET Requests /\ kv' = FreeRequestBlocks(kv, S, procSeq)
      BY <1>2 DEF FinishRequest
    <2>2. \A s \in Requests \ S : req'[s] = req[s]
      BY <1>2 DEF FinishRequest, Types
    <2>. HIDE DEF S
    <2>. QED  BY <2>1, <2>2, FreeHeld
  <1>3. CASE ResetPrefixCache
    <2>1. Lists(running, ToSet(running)) /\ PreemptRequests(running, TRUE)
      BY <1>3, QueuesList DEF ResetPrefixCache
    <2>. DEFINE S == ToSet(running)
    <2>. HIDE DEF S
    <2>2. /\ kv' = FreeRequestBlocks(kv, S, procSeq) /\ S \in SUBSET Requests
          /\ \A r \in Requests \ S : req'[r] = req[r]
      BY <2>1, PreemptRequestsBase DEF S
    <2>. QED  BY <2>2, FreeHeld
  <1>4. CASE StartSchedule
    <2>1. kv' = kv /\ \A r \in Requests : req'[r].status = req[r].status
      <3>1. /\ kv' = kv
            /\ req' = [r \in Requests |-> [req[r] EXCEPT !.notBefore = MaxOf(@ - 1, 0)]]
        BY <1>4 DEF StartSchedule
      <3>2. \A r \in Requests : req[r] \in RequestType(schedSeq)
        BY DEF Types
      <3>. QED  BY <3>1, <3>2 DEF RequestType
    <2>. QED  BY <2>1, KeepHeld
  <1>5. CASE StartDrain \/ SkipRunning \/ PickRunning \/ EndRunning \/ SkipWaiting \/ EndWaiting
    <2>1. kv' = kv /\ req' = req
      BY <1>5 DEF StartDrain, SkipRunning, PickRunning, EndRunning, SkipWaiting, EndWaiting
    <2>. QED  BY <2>1, KeepHeld
  <1>6. CASE AllocateRunning
    <2>. DEFINE r == Current
                n == NumBlocksToAllocate(r, loop.want)
    <2>1. /\ loop.idx < Len(running) /\ GetNewBlocks(r, n)
          /\ \A s \in Requests \ {r} : req'[s] = req[s]
      BY <1>6, AllocateRunningIs
    <2>2. req'[r].status = "RUNNING"
      BY <1>6, AllocateRunningIs
    <2>3. r \in Requests
      BY <2>1, CurrentRuns
    <2>. HIDE DEF r, n
    <2>. QED  BY <2>1, <2>2, <2>3, AllocateHeld
  <1>7. CASE PreemptForRunning
    <2>. DEFINE v == Victim
                s == <<v>>
                S == {v}
    <2>1. v \in Requests /\ v \in ToSet(running) /\ PreemptRequests(s, RequiresKVDelivery)
      BY <1>7, PreemptForRunningIs
    <2>. HIDE DEF v
    <2>2. Lists(s, S)
      BY <2>1 DEF Lists, IsInjective, ToSet
    <2>3. S \subseteq ToSet(running) /\ RequiresKVDelivery \in BOOLEAN
      BY <2>1, SchedulerAssumption
    <2>. HIDE DEF s, S
    <2>4. /\ kv' = FreeRequestBlocks(kv, S, procSeq) /\ S \in SUBSET Requests
          /\ \A r \in Requests \ S : req'[r] = req[r]
      <3>1. /\ kv' = FreeRequestBlocks(kv, S, procSeq) /\ S \in SUBSET Requests
            /\ \A r \in Requests : r \notin S => req'[r] = req[r]
        BY <2>1, <2>2, <2>3, PreemptRequestsSpares
      <3>. QED  BY <3>1
    <2>. QED  BY <2>4, FreeHeld
  <1>8. CASE AdmitWaiting
    <2>. DEFINE r == NextWaiting
                n == NumBlocksToAllocate(r, AdmitTokens(r))
    <2>1. /\ r \in Requests /\ GetNewBlocks(r, n)
          /\ req' = [req EXCEPT ![r].status = "RUNNING"]
      BY <1>8, AdmitWaitingIs
    <2>. HIDE DEF r, n
    <2>2. req'[r].status = "RUNNING" /\ \A s \in Requests \ {r} : req'[s] = req[s]
      BY <2>1, StatusUpdate DEF Statuses
    <2>. QED  BY <2>1, <2>2, AllocateHeld
  <1>9. CASE EndSchedule
    <2>1. kv' = kv /\ \A r \in Requests : req'[r].status = req[r].status
      BY <1>9, EndScheduleIs
    <2>. QED  BY <2>1, KeepHeld
  <1>10. CASE UpdateFromOutput
    BY <1>10, UpdateHasOutcome, UpdateHeld
  <1>11. CASE UNCHANGED vars
    BY <1>11, KeepHeld DEF vars
  <1>. QED  BY <1>1, <1>2, <1>3, <1>4, <1>5, <1>6, <1>7, <1>8, <1>9, <1>10, <1>11
            DEF Next, EngineStep

(* Held holds at the start. *)
LEMMA InitHeld ==
  ASSUME Init
  PROVE  Held
  <1>. DEFINE t == [r \in Requests |-> {}]
              d == <<>>
  <1>1. kv = [free |-> Blocks, tables |-> t, deferred |-> d]
    BY DEF Init
  <1>2. (\A r \in Requests : t[r] = {}) /\ DOMAIN d = {}
    OBVIOUS
  <1>. HIDE DEF t, d
  <1>. QED  BY <1>1, <1>2 DEF Held, Placed, OnlyRunningHold

(* Held is an invariant. *)
LEMMA HeldHolds == Spec => [](Base /\ Held)
  BY InitBase, BaseStep, InitHeld, HeldStep, PTL DEF Spec

(* A request holds blocks only while it runs: whatever stops, aborts,      *)
(* preempts or resets it gives its blocks up in the same step              *)
(* (scheduler.py 1654-1690, 2380-2412, 2947-2960).                         *)
THEOREM OnlyRunningHoldBlocks == Spec => []OnlyRunningHold
  <1>1. Held => OnlyRunningHold
    BY DEF Held
  <1>. QED  BY <1>1, HeldHolds, PTL

(* Every block of the pool is free, in exactly one block table or in       *)
(* exactly one deferred free, for every pool and every interleaving        *)
(* (scheduler.py 2947-2986).                                               *)
THEOREM NoBlockLost == Spec => []BlocksPartitioned
  <1>1. Base /\ Held => BlocksPartitioned
    BY PlacedPartitioned DEF Base, Types, Held
  <1>. QED  BY <1>1, HeldHolds, PTL
-----------------------------------------------------------------------------
(* Output after the end *)

(* A sequence is a prefix of every extension of it. *)
LEMMA PrefixOfConcat ==
  ASSUME NEW s \in Seq(Int), NEW t \in Seq(Int)
  PROVE  IsPrefix(s, s \o t) /\ IsPrefix(s, s)
  <1>1. s \o t \in Seq(Int) /\ Len(s \o t) = Len(s) + Len(t) /\ Len(s) \in Nat /\ Len(t) \in Nat
    BY ConcatProperties
  <1>2. Len(s) <= Len(s \o t)
    BY <1>1
  <1>3. SubSeq(s, 1, Len(s)) = SubSeq(s \o t, 1, Len(s))
    <2>1. CASE s = <<>>
      <3>1. Len(s) = 0 /\ 0 \in Int /\ 1 \in Int /\ 0 < 1
        BY <2>1
      <3>. QED  BY <3>1, SubSeqEmpty
    <2>2. CASE s # <<>>
      <3>1. 1 \in 1..Len(s) /\ Len(s) \in 1..Len(s)
        BY <1>1, <2>2, EmptySeq
      <3>. QED  BY <3>1, SubSeqOfConcat1
    <2>. QED  BY <2>1, <2>2
  <1>. QED  BY <1>1, <1>2, <1>3 DEF IsPrefix

(* The output sent with the oldest batch is appended. *)
LEMMA OutcomeDelivers ==
  ASSUME Base, NEW a, Outcome(a), NEW r \in Requests
  PROVE  /\ r \notin DOMAIN a => delivered'[r] = delivered[r]
         /\ r \in DOMAIN a => \E t \in Seq(Int) :
              /\ delivered'[r] = delivered[r] \o t /\ Len(t) = a[r].kept
              /\ \A i \in 1..a[r].kept : t[i] = WorkerBase(r) + i
  <1>1. delivered'[r] = IF r \in DOMAIN a
                          THEN delivered[r] \o [i \in 1..a[r].kept |-> WorkerBase(r) + i]
                          ELSE delivered[r]
    BY DEF Outcome
  <1>2. ASSUME r \in DOMAIN a
        PROVE  \E t \in Seq(Int) :
                 /\ delivered'[r] = delivered[r] \o t /\ Len(t) = a[r].kept
                 /\ \A i \in 1..a[r].kept : t[i] = WorkerBase(r) + i
    <2>. DEFINE m == a[r].kept
                w == WorkerBase(r)
                t == [i \in 1..m |-> w + i]
    <2>1. m \in Nat
      BY <1>2, OutcomeAnswer
    <2>2. w \in Int
      <3>1. workerLen[r] \in Int /\ Batch.fresh[r] \in Int
        BY BatchFacts DEF Base, Types, Outcome
      <3>. QED  BY <3>1 DEF WorkerBase
    <2>3. delivered'[r] = delivered[r] \o t
      BY <1>1, <1>2
    <2>. HIDE DEF m, w
    <2>4. t \in [1..m -> Int] /\ \A i \in 1..m : t[i] = w + i
      BY <2>1, <2>2
    <2>. HIDE DEF t
    <2>5. t \in Seq(Int) /\ Len(t) = m
      BY <2>1, <2>4, SeqDef, LenProperties
    <2>. QED  BY <2>3, <2>4, <2>5 DEF m, w
  <1>. QED  BY <1>1, <1>2

(* One step: output only grows, and not once the request is finished. *)
LEMMA FinishedStays ==
  ASSUME Base, [Next]_vars, NEW r \in Requests
  PROVE  /\ IsPrefix(delivered[r], delivered'[r])
         /\ req[r].status = "FINISHED" => /\ req'[r].status = "FINISHED"
                                          /\ delivered'[r] = delivered[r]
  <1>. USE DEF Base
  <1>1. delivered[r] \in Seq(Int)
    BY DEF Types
  <1>2. CASE UpdateFromOutput
    <2>1. PICK a : Outcome(a)
      BY <1>2, UpdateHasOutcome
    <2>2. req[r].status = "FINISHED" => r \notin DOMAIN a /\ req'[r].status = "FINISHED"
      BY <2>1, OutcomeAnswer, OutcomeRequest DEF Known
    <2>3. IsPrefix(delivered[r], delivered'[r])
      <3>1. CASE r \in DOMAIN a
        <4>1. PICK t \in Seq(Int) : delivered'[r] = delivered[r] \o t
          BY <2>1, <3>1, OutcomeDelivers
        <4>. QED  BY <1>1, <4>1, PrefixOfConcat
      <3>2. CASE r \notin DOMAIN a
        BY <1>1, <2>1, <3>2, OutcomeDelivers, PrefixOfConcat
      <3>. QED  BY <3>1, <3>2
    <2>. QED  BY <2>1, <2>2, <2>3, OutcomeDelivers
  <1>. DEFINE Stays == delivered' = delivered /\ (req[r].status = "FINISHED" => req'[r].status = "FINISHED")
  <1>3. Stays => /\ IsPrefix(delivered[r], delivered'[r])
                 /\ req[r].status = "FINISHED" => /\ req'[r].status = "FINISHED"
                                                  /\ delivered'[r] = delivered[r]
    BY <1>1, PrefixOfConcat
  <1>4. ASSUME NEW s \in Requests, AddRequest(s)  PROVE Stays
    <2>1. req'[s].status = "WAITING" /\ \A u \in Requests \ {s} : req'[u] = req[u]
      BY <1>4, StatusUpdate DEF AddRequest, Statuses
    <2>2. req[s].status = "NONE" /\ delivered' = delivered
      BY <1>4 DEF AddRequest
    <2>. QED  BY <2>1, <2>2
  <1>5. ASSUME NEW s \in Requests, FinishRequest(s)  PROVE Stays
    <2>1. delivered' = delivered /\ Known(s) /\ req' = [req EXCEPT ![s] = Finished(req[s], s)]
      BY <1>5 DEF FinishRequest
    <2>2. \A u \in Requests \ {s} : req'[u] = req[u]
      BY <2>1 DEF Types
    <2>. QED  BY <2>1, <2>2 DEF Known
  <1>6. ASSUME ResetPrefixCache
       PROVE  Stays
    <2>1. Lists(running, ToSet(running)) /\ PreemptRequests(running, TRUE) /\ delivered' = delivered
      BY <1>6, QueuesList DEF ResetPrefixCache
    <2>2. \A u \in Requests \ ToSet(running) : req'[u] = req[u]
      BY <2>1, PreemptRequestsBase
    <2>. QED  BY <2>1, <2>2, QueuesList
  <1>7. ASSUME StartSchedule
       PROVE  Stays
    <2>1. /\ delivered' = delivered
          /\ req' = [u \in Requests |-> [req[u] EXCEPT !.notBefore = MaxOf(@ - 1, 0)]]
      BY <1>7 DEF StartSchedule
    <2>2. \A u \in Requests : req[u] \in RequestType(schedSeq)
      BY DEF Types
    <2>3. \A u \in Requests : req'[u].status = req[u].status
      BY <2>1, <2>2 DEF RequestType
    <2>. QED  BY <2>1, <2>3
  <1>8. ASSUME StartDrain \/ SkipRunning \/ PickRunning \/ EndRunning \/ SkipWaiting \/ EndWaiting
       PROVE  Stays
    BY <1>8 DEF StartDrain, SkipRunning, PickRunning, EndRunning, SkipWaiting, EndWaiting
  <1>9. ASSUME AllocateRunning
       PROVE  Stays
    <2>. DEFINE s == Current
    <2>1. /\ loop.idx < Len(running) /\ delivered' = delivered
          /\ \A u \in Requests \ {s} : req'[u] = req[u]
      BY <1>9, AllocateRunningIs
    <2>2. req[s].status = "RUNNING"
      BY <2>1, CurrentRuns
    <2>. QED  BY <2>1, <2>2
  <1>10. ASSUME PreemptForRunning
        PROVE  Stays
    <2>. DEFINE v == Victim
                s == <<v>>
                S == {v}
    <2>1. /\ v \in Requests /\ v \in ToSet(running) /\ PreemptRequests(s, RequiresKVDelivery)
          /\ delivered' = delivered
      BY <1>10, PreemptForRunningIs
    <2>. HIDE DEF v
    <2>2. Lists(s, S)
      BY <2>1 DEF Lists, IsInjective, ToSet
    <2>3. S \subseteq ToSet(running) /\ RequiresKVDelivery \in BOOLEAN
      BY <2>1, SchedulerAssumption
    <2>. HIDE DEF s, S
    <2>4. \A u \in Requests \ S : req'[u] = req[u]
      <3>1. \A u \in Requests : u \notin S => req'[u] = req[u]
        BY <2>1, <2>2, <2>3, PreemptRequestsSpares
      <3>. QED  BY <3>1
    <2>. QED  BY <2>1, <2>3, <2>4, QueuesList
  <1>11. ASSUME AdmitWaiting
        PROVE  Stays
    <2>. DEFINE s == NextWaiting
    <2>1. /\ s \in Requests /\ req[s].status \in {"WAITING", "PREEMPTED"}
          /\ req' = [req EXCEPT ![s].status = "RUNNING"] /\ delivered' = delivered
      BY <1>11, AdmitWaitingIs
    <2>. HIDE DEF s
    <2>2. \A u \in Requests \ {s} : req'[u] = req[u]
      BY <2>1, StatusUpdate DEF Statuses
    <2>. QED  BY <2>1, <2>2
  <1>12. ASSUME EndSchedule
        PROVE  Stays
    BY <1>12, EndScheduleIs
  <1>13. ASSUME UNCHANGED vars
        PROVE  Stays
    BY <1>13 DEF vars
  <1>. HIDE DEF Stays
  <1>. QED  BY <1>2, <1>3, <1>4, <1>5, <1>6, <1>7, <1>8, <1>9, <1>10, <1>11, <1>12, <1>13
            DEF Next, EngineStep

(* No step lengthens a finished request's output, revives the request or   *)
(* takes back a token that was sent: whatever of it is still in flight     *)
(* when it ends is thrown away (scheduler.py 2153-2162).                   *)
THEOREM FinishedIsFinal == Spec => NoOutputAfterFinish
  <1>1. Base /\ [Next]_vars =>
          [\A r \in Requests : /\ IsPrefix(delivered[r], delivered'[r])
                               /\ req[r].status = "FINISHED" =>
                                    /\ req'[r].status = "FINISHED"
                                    /\ delivered'[r] = delivered[r]]_vars
    BY FinishedStays
  <1>. QED  BY <1>1, BaseHolds, PTL DEF Spec, NoOutputAfterFinish
-----------------------------------------------------------------------------
(* The lease discipline.  The blocks behind a fence, and their fences, for *)
(* the KV state k; what the non-empty batches of the queue Q use.          *)

LimboIn(k) == UNION {k.deferred[i].blocks : i \in DOMAIN k.deferred}
FenceIn(k, b) ==
  IF b \in LimboIn(k)
    THEN k.deferred[CHOOSE i \in DOMAIN k.deferred : b \in k.deferred[i].blocks].fence
    ELSE 0
NonEmptyIn(Q) == {i \in DOMAIN Q : \E r \in Requests : Q[i].toks[r] > 0}
UsesIn(Q) == AtPositions([i \in DOMAIN Q |-> Q[i].uses], NonEmptyIn(Q))

(* The state of BlockLease in these terms *)
LEMMA LeaseState ==
  /\ DeferredBlocks = LimboIn(kv) /\ (DeferredBlocks = LimboIn(kv))'
  /\ \A b : FenceOf(b) = FenceIn(kv, b)
  /\ \A b : FenceOf(b)' = FenceIn(kv', b)
  /\ UsesInFlight = UsesIn(batchQueue) /\ (UsesInFlight = UsesIn(batchQueue))'
  BY DEF DeferredBlocks, LimboIn, FenceOf, FenceIn, UsesInFlight, UsesIn, NonEmpty, NonEmptyIn

(* A block has the fence of the one entry it is in. *)
LEMMA FenceIs ==
  ASSUME NEW k \in KVType, Placed(k)
  PROVE  /\ \A i \in DOMAIN k.deferred : \A b \in k.deferred[i].blocks :
              b \in LimboIn(k) /\ FenceIn(k, b) = k.deferred[i].fence
         /\ \A b : b \notin LimboIn(k) => FenceIn(k, b) = 0
         /\ \A b : b \in LimboIn(k) <=> \E i \in DOMAIN k.deferred : b \in k.deferred[i].blocks
  <1>1. ASSUME NEW i \in DOMAIN k.deferred, NEW b \in k.deferred[i].blocks
        PROVE  b \in LimboIn(k) /\ FenceIn(k, b) = k.deferred[i].fence
    <2>. DEFINE j == CHOOSE l \in DOMAIN k.deferred : b \in k.deferred[l].blocks
    <2>1. b \in LimboIn(k)
      BY DEF LimboIn
    <2>2. j \in DOMAIN k.deferred /\ b \in k.deferred[j].blocks
      OBVIOUS
    <2>3. FenceIn(k, b) = k.deferred[j].fence
      BY <2>1 DEF FenceIn
    <2>. HIDE DEF j
    <2>4. i = j
      BY <2>2 DEF Placed
    <2>. QED  BY <2>1, <2>3, <2>4
  <1>2. \A b : b \notin LimboIn(k) => FenceIn(k, b) = 0
    BY DEF FenceIn
  <1>3. \A b : b \in LimboIn(k) <=> \E i \in DOMAIN k.deferred : b \in k.deferred[i].blocks
    BY DEF LimboIn
  <1>. QED  BY <1>1, <1>2, <1>3

(* What is queued when blocks are freed: the old entries, then one for each *)
(* late table, behind the last step                                        *)
QueuedBehind(w, k, L) ==
  /\ DOMAIN k.deferred \subseteq DOMAIN w.deferred
  /\ \A i \in DOMAIN k.deferred : w.deferred[i] = k.deferred[i]
  /\ \A i \in DOMAIN w.deferred \ DOMAIN k.deferred :
       /\ \A j \in DOMAIN k.deferred : j < i
       /\ \E r \in L : w.deferred[i] = [fence |-> schedSeq, blocks |-> k.tables[r]]
  /\ \A r \in L : \E i \in DOMAIN w.deferred \ DOMAIN k.deferred :
       w.deferred[i] = [fence |-> schedSeq, blocks |-> k.tables[r]]

(* Freed late, blocks are queued behind the last step. *)
LEMMA FreeQueues ==
  ASSUME NEW k \in KVType, NEW S \in SUBSET Requests, NEW done, schedSeq \in Nat
  PROVE  QueuedBehind(FreeRequestBlocks(k, S, done), k, LateOf(k, S, done))
  <1>. DEFINE e == LateEntries(k, S, done)
              w == FreeRequestBlocks(k, S, done)
              L == LateOf(k, S, done)
              d == k.deferred
              n == Len(d)
  <1>1. PICK c, order : EntriesOf(e, k, L, c, order)
    BY LateEntriesList
  <1>2. w.deferred = d \o e
    BY FreeRequestBlocksIs
  <1>3. d \in Seq(DeferredType) /\ n \in Nat /\ DOMAIN d = 1..n
    BY LenProperties DEF KVType
  <1>. HIDE DEF e, w, L, d, n
  <1>4. e \in Seq(DeferredType) /\ Len(e) = c /\ c \in Nat
    BY <1>1 DEF EntriesOf
  <1>5. /\ w.deferred \in Seq(DeferredType) /\ Len(w.deferred) = n + c
        /\ \A i \in 1..(n + c) : w.deferred[i] = IF i <= n THEN d[i] ELSE e[i - n]
    <2>1. /\ d \o e \in Seq(DeferredType) /\ Len(d \o e) = Len(d) + Len(e)
          /\ \A i \in 1..(Len(d) + Len(e)) :
               (d \o e)[i] = IF i <= Len(d) THEN d[i] ELSE e[i - Len(d)]
      BY <1>3, <1>4, ConcatProperties
    <2>2. Len(d) = n
      BY DEF n
    <2>. QED  BY <1>2, <1>4, <2>1, <2>2
  <1>6. DOMAIN w.deferred = 1..(n + c)
    BY <1>5, LenProperties
  <1>7. \A i \in 1..n : i \in 1..(n + c) /\ w.deferred[i] = d[i]
    BY <1>3, <1>4, <1>5
  <1>8. ASSUME NEW i \in (1..(n + c)) \ (1..n)
        PROVE  /\ \A j \in 1..n : j < i
               /\ \E r \in L : w.deferred[i] = [fence |-> schedSeq, blocks |-> k.tables[r]]
    <2>1. i - n \in 1..c /\ i > n
      BY <1>3, <1>4
    <2>2. w.deferred[i] = e[i - n]
      BY <1>3, <1>5, <2>1
    <2>3. order[i - n] \in L /\ e[i - n] = [fence |-> schedSeq, blocks |-> k.tables[order[i - n]]]
      BY <1>1, <2>1 DEF EntriesOf
    <2>. QED  BY <1>3, <2>1, <2>2, <2>3
  <1>9. ASSUME NEW r \in L
        PROVE  \E i \in (1..(n + c)) \ (1..n) :
                 w.deferred[i] = [fence |-> schedSeq, blocks |-> k.tables[r]]
    <2>1. PICK j \in 1..c : order[j] = r
      BY <1>1 DEF EntriesOf
    <2>2. e[j] = [fence |-> schedSeq, blocks |-> k.tables[r]]
      BY <1>1, <2>1 DEF EntriesOf
    <2>3. n + j \in (1..(n + c)) \ (1..n) /\ (n + j) - n = j /\ ~(n + j <= n)
      BY <1>3, <1>4
    <2>4. w.deferred[n + j] = e[j]
      BY <1>5, <2>3
    <2>. QED  BY <2>2, <2>3, <2>4
  <1>10. QueuedBehind(w, k, L)
    BY <1>3, <1>6, <1>7, <1>8, <1>9 DEF QueuedBehind, d
  <1>. QED  BY <1>10 DEF w, L

(* The blocks of S come back, at once or behind a fence: w is what the     *)
(* state k becomes.                                                        *)
GivenBack(w, k, S, done) ==
  LET busy == {r \in S : req[r].lastSeq > done}
      late == UNION {k.tables[r] : r \in busy}
  IN /\ w.free = k.free \cup UNION {k.tables[r] : r \in S \ busy}
     /\ w.tables = [r \in Requests |-> IF r \in S THEN {} ELSE k.tables[r]]
     /\ LimboIn(w) = LimboIn(k) \cup late
     /\ \A b \in Blocks : FenceIn(w, b) = IF b \in late THEN schedSeq ELSE FenceIn(k, b)

(* Freeing the blocks of S, as BlockLease sees it *)
LEMMA FreeLease ==
  ASSUME NEW k \in KVType, NEW S \in SUBSET Requests, NEW done, schedSeq \in Nat,
         Placed(k), DeferBlockFree
  PROVE  GivenBack(FreeRequestBlocks(k, S, done), k, S, done)
  <1>. DEFINE w == FreeRequestBlocks(k, S, done)
              L == LateOf(k, S, done)
              busy == {r \in S : req[r].lastSeq > done}
              late == UNION {k.tables[r] : r \in busy}
  <1>1. /\ w.free = k.free \cup UNION {k.tables[r] : r \in S \ L}
        /\ w.tables = [r \in Requests |-> IF r \in S THEN {} ELSE k.tables[r]]
    BY FreeRequestBlocksIs
  <1>2. L \subseteq busy /\ \A r \in busy : r \in L \/ k.tables[r] = {}
    BY DEF LateOf, Late
  <1>3. UNION {k.tables[r] : r \in S \ L} = UNION {k.tables[r] : r \in S \ busy}
    BY <1>2
  <1>4. Placed(w) /\ w \in KVType /\ QueuedBehind(w, k, L)
    BY FreePlaced, FreeType, FreeQueues
  <1>5. \A b : b \in late <=> \E r \in L : b \in k.tables[r]
    BY <1>2
  <1>. HIDE DEF w, L, late
  <1>6. /\ \A i \in DOMAIN k.deferred : \A b \in k.deferred[i].blocks :
             b \in LimboIn(k) /\ FenceIn(k, b) = k.deferred[i].fence
        /\ \A b : b \notin LimboIn(k) => FenceIn(k, b) = 0
        /\ \A b : b \in LimboIn(k) <=> \E i \in DOMAIN k.deferred : b \in k.deferred[i].blocks
    BY FenceIs
  <1>7. /\ \A i \in DOMAIN w.deferred : \A b \in w.deferred[i].blocks :
             b \in LimboIn(w) /\ FenceIn(w, b) = w.deferred[i].fence
        /\ \A b : b \notin LimboIn(w) => FenceIn(w, b) = 0
        /\ \A b : b \in LimboIn(w) <=> \E i \in DOMAIN w.deferred : b \in w.deferred[i].blocks
    BY <1>4, FenceIs
  <1>8. ASSUME NEW b, b \in late
        PROVE  b \in LimboIn(w) /\ FenceIn(w, b) = schedSeq
    <2>1. PICK r \in L : b \in k.tables[r]
      BY <1>5, <1>8
    <2>2. PICK i \in DOMAIN w.deferred : w.deferred[i] = [fence |-> schedSeq, blocks |-> k.tables[r]]
      BY <1>4, <2>1 DEF QueuedBehind
    <2>. QED  BY <1>7, <2>1, <2>2
  <1>9. ASSUME NEW b, b \in LimboIn(k)
        PROVE  b \in LimboIn(w) /\ FenceIn(w, b) = FenceIn(k, b)
    <2>1. PICK i \in DOMAIN k.deferred : b \in k.deferred[i].blocks
      BY <1>6, <1>9
    <2>2. i \in DOMAIN w.deferred /\ w.deferred[i] = k.deferred[i]
      BY <1>4 DEF QueuedBehind
    <2>. QED  BY <1>6, <1>7, <2>1, <2>2
  <1>10. ASSUME NEW b, b \in LimboIn(w)
         PROVE  b \in LimboIn(k) \/ b \in late
    <2>1. PICK i \in DOMAIN w.deferred : b \in w.deferred[i].blocks
      BY <1>7, <1>10
    <2>2. CASE i \in DOMAIN k.deferred
      BY <1>4, <1>6, <2>1, <2>2 DEF QueuedBehind
    <2>3. CASE i \notin DOMAIN k.deferred
      <3>1. PICK r \in L : w.deferred[i] = [fence |-> schedSeq, blocks |-> k.tables[r]]
        BY <1>4, <2>3 DEF QueuedBehind
      <3>. QED  BY <1>5, <2>1, <3>1
    <2>. QED  BY <2>2, <2>3
  <1>11. LimboIn(w) = LimboIn(k) \cup late
    BY <1>8, <1>9, <1>10
  <1>12. \A b \in Blocks : FenceIn(w, b) = IF b \in late THEN schedSeq ELSE FenceIn(k, b)
    BY <1>6, <1>7, <1>8, <1>9, <1>11
  <1>13. GivenBack(w, k, S, done)
    BY <1>1, <1>3, <1>11, <1>12 DEF GivenBack, late
  <1>. QED  BY <1>13 DEF w

(* Fences come in ascending order and are still to be reached. *)
Fenced(k, done, seq) ==
  /\ \A i \in DOMAIN k.deferred : done < k.deferred[i].fence /\ k.deferred[i].fence <= seq
  /\ \A i, j \in DOMAIN k.deferred : i < j => k.deferred[i].fence <= k.deferred[j].fence

(* Freeing blocks keeps the fences in order and ahead. *)
LEMMA FreeFenced ==
  ASSUME Types, NEW k \in KVType, NEW S \in SUBSET Requests, NEW done \in Nat,
         Fenced(k, done, schedSeq)
  PROVE  Fenced(FreeRequestBlocks(k, S, done), done, schedSeq)
  <1>. DEFINE w == FreeRequestBlocks(k, S, done)
              L == LateOf(k, S, done)
  <1>1. schedSeq \in Nat /\ \A r \in Requests : req[r].lastSeq \in 0..schedSeq
    BY DEF Types, RequestType
  <1>2. \A r \in L : r \in Requests /\ req[r].lastSeq > done
    BY DEF LateOf, Late
  <1>3. L # {} => done < schedSeq
    BY <1>1, <1>2
  <1>4. QueuedBehind(w, k, L) /\ w \in KVType
    BY <1>1, FreeQueues, FreeType
  <1>. HIDE DEF w, L
  <1>5. \A i \in DOMAIN w.deferred : i \in Int /\ w.deferred[i].fence \in Nat
    <2>1. w.deferred \in Seq(DeferredType)
      BY <1>4 DEF KVType
    <2>2. DOMAIN w.deferred = 1..Len(w.deferred) /\ Len(w.deferred) \in Nat
          /\ \A i \in 1..Len(w.deferred) : w.deferred[i] \in DeferredType
      BY <2>1, LenProperties, ElementOfSeq
    <2>. QED  BY <2>2 DEF DeferredType
  <1>6. ASSUME NEW i \in DOMAIN w.deferred, i \notin DOMAIN k.deferred
        PROVE  w.deferred[i].fence = schedSeq /\ done < schedSeq /\ \A j \in DOMAIN k.deferred : j < i
    <2>1. PICK r \in L : w.deferred[i] = [fence |-> schedSeq, blocks |-> k.tables[r]]
      BY <1>4, <1>6 DEF QueuedBehind
    <2>2. \A j \in DOMAIN k.deferred : j < i
      BY <1>4, <1>6 DEF QueuedBehind
    <2>. QED  BY <1>3, <2>1, <2>2
  <1>7. \A i \in DOMAIN k.deferred : i \in DOMAIN w.deferred /\ w.deferred[i] = k.deferred[i]
    BY <1>4 DEF QueuedBehind
  <1>8. \A i \in DOMAIN w.deferred : done < w.deferred[i].fence /\ w.deferred[i].fence <= schedSeq
    BY <1>1, <1>6, <1>7 DEF Fenced
  <1>9. ASSUME NEW i \in DOMAIN w.deferred, NEW j \in DOMAIN w.deferred, i < j
        PROVE  w.deferred[i].fence <= w.deferred[j].fence
    <2>1. CASE j \in DOMAIN k.deferred
      <3>1. i \in DOMAIN k.deferred
        <4>1. ASSUME i \notin DOMAIN k.deferred PROVE FALSE
          <5>1. j < i
            BY <1>6, <2>1, <4>1
          <5>. QED  BY <1>5, <1>9, <5>1
        <4>. QED  BY <4>1
      <3>. QED  BY <1>7, <1>9, <2>1, <3>1 DEF Fenced
    <2>2. CASE j \notin DOMAIN k.deferred
      BY <1>6, <1>8, <2>2
    <2>. QED  BY <2>1, <2>2
  <1>10. Fenced(w, done, schedSeq)
    BY <1>8, <1>9 DEF Fenced
  <1>. QED  BY <1>10 DEF w

(* The blocks D leave limbo for the pool: w is what the state k becomes. *)
Drained(D, w, k, done) ==
  /\ D \in SUBSET Blocks
  /\ \A b \in D : b \in LimboIn(k) /\ FenceIn(k, b) <= done
  /\ w.free = k.free \cup D /\ w.tables = k.tables
  /\ LimboIn(w) = LimboIn(k) \ D
  /\ \A b \in Blocks : FenceIn(w, b) = IF b \in D THEN 0 ELSE FenceIn(k, b)

(* Draining, as BlockLease sees it *)
LEMMA DrainLease ==
  ASSUME NEW k \in KVType, Placed(k), NEW old \in Nat, NEW done \in Nat, NEW seq \in Nat,
         Fenced(k, old, seq)
  PROVE  /\ \E D : Drained(D, DrainDeferredFrees(k, done), k, done) /\ (old = done => D = {})
         /\ Fenced(DrainDeferredFrees(k, done), done, seq)
  <1>. DEFINE w == DrainDeferredFrees(k, done)
              d == k.deferred
              n == Len(d)
  <1>1. PICK m \in 0..n :
           LET t == SubSeq(d, m + 1, n) IN
            /\ \A i \in 1..m : d[i].fence <= done
            /\ m < n => ~(d[m + 1].fence <= done)
            /\ w = [free     |-> k.free \cup UNION {d[i].blocks : i \in 1..m},
                  tables   |-> k.tables,
                  deferred |-> t]
            /\ t \in Seq(DeferredType) /\ Len(t) = n - m
            /\ \A i \in 1..(n - m) : t[i] = d[m + i]
            /\ w \in KVType
    BY DrainIs
  <1>2. /\ d \in Seq(DeferredType) /\ n \in Nat /\ DOMAIN d = 1..n
        /\ \A i \in 1..n : d[i].blocks \in SUBSET Blocks /\ d[i].fence \in Nat
    <2>1. d \in Seq(DeferredType)
      BY DEF KVType
    <2>2. n \in Nat /\ DOMAIN d = 1..n /\ \A i \in 1..n : d[i] \in DeferredType
      BY <2>1, LenProperties, ElementOfSeq
    <2>. QED  BY <2>1, <2>2 DEF DeferredType
  <1>3. Placed(w) /\ w \in KVType
    BY DrainPlaced
  <1>4. /\ \A i \in DOMAIN w.deferred : \A b \in w.deferred[i].blocks :
             b \in LimboIn(w) /\ FenceIn(w, b) = w.deferred[i].fence
        /\ \A b : b \notin LimboIn(w) => FenceIn(w, b) = 0
        /\ \A b : b \in LimboIn(w) <=> \E i \in DOMAIN w.deferred : b \in w.deferred[i].blocks
    BY <1>3, FenceIs
  <1>. DEFINE D == UNION {d[i].blocks : i \in 1..m}
  <1>. HIDE DEF w
  <1>5. /\ w.tables = k.tables /\ w.free = k.free \cup D
        /\ DOMAIN w.deferred = 1..(n - m)
        /\ \A i \in 1..(n - m) : w.deferred[i] = d[m + i]
    <2>. DEFINE t == SubSeq(d, m + 1, n)
    <2>. HIDE DEF d, n, D
    <2>1. /\ w = [free |-> k.free \cup UNION {d[i].blocks : i \in 1..m},
                  tables |-> k.tables, deferred |-> t]
          /\ t \in Seq(DeferredType) /\ Len(t) = n - m
          /\ \A i \in 1..(n - m) : t[i] = d[m + i]
      BY <1>1
    <2>. HIDE DEF t
    <2>2. DOMAIN t = 1..(n - m)
      BY <2>1
    <2>3. UNION {d[i].blocks : i \in 1..m} = D
      BY DEF D
    <2>. QED  BY <2>1, <2>2, <2>3
  <1>6. /\ \A i \in 1..n : \A b \in d[i].blocks : b \in LimboIn(k) /\ FenceIn(k, b) = d[i].fence
        /\ \A b : b \notin LimboIn(k) => FenceIn(k, b) = 0
        /\ \A b : b \in LimboIn(k) <=> \E i \in 1..n : b \in d[i].blocks
    BY <1>2, FenceIs
  <1>7. /\ \A i, j \in 1..n : \A b \in d[i].blocks : b \in d[j].blocks => i = j
        /\ \A i \in 1..n : old < d[i].fence /\ d[i].fence <= seq
        /\ \A i, j \in 1..n : i < j => d[i].fence <= d[j].fence
    BY <1>2 DEF Placed, Fenced
  <1>8. /\ \A i \in 1..m : d[i].fence <= done /\ i \in 1..n
        /\ m < n => ~(d[m + 1].fence <= done)
        /\ m \in Nat /\ m <= n
    BY <1>1, <1>2
  <1>9. \A b : b \in D <=> \E i \in 1..m : b \in d[i].blocks
    OBVIOUS
  <1>. HIDE DEF d, n, D
  <1>10. /\ \A i \in 1..(n - m) : m + i \in 1..n /\ m + i \notin 1..m
         /\ \A i \in 1..n : i \in 1..m \/ (i - m \in 1..(n - m) /\ m + (i - m) = i)
    BY <1>2, <1>8
  <1>11. \A b \in D : b \in Blocks /\ b \in LimboIn(k) /\ FenceIn(k, b) <= done /\ b \notin LimboIn(w)
    <2>1. ASSUME NEW b \in D
          PROVE  b \in Blocks /\ b \in LimboIn(k) /\ FenceIn(k, b) <= done /\ b \notin LimboIn(w)
      <3>1. PICK i \in 1..m : b \in d[i].blocks
        BY <1>9
      <3>2. i \in 1..n /\ d[i].fence <= done
        BY <1>8
      <3>3. b \notin LimboIn(w)
        <4>1. ASSUME NEW j \in 1..(n - m), b \in w.deferred[j].blocks PROVE FALSE
          <5>1. b \in d[m + j].blocks /\ m + j \in 1..n /\ m + j \notin 1..m
            BY <1>5, <1>10, <4>1
          <5>2. i = m + j
            BY <1>7, <3>1, <3>2, <5>1
          <5>. QED  BY <5>1, <5>2
        <4>. QED  BY <1>4, <1>5, <4>1
      <3>. QED  BY <1>2, <1>6, <3>1, <3>2, <3>3
    <2>. QED  BY <2>1
  <1>12. \A b \in LimboIn(k) : b \in D \/ (b \in LimboIn(w) /\ FenceIn(w, b) = FenceIn(k, b))
    <2>1. ASSUME NEW b \in LimboIn(k), b \notin D
          PROVE  b \in LimboIn(w) /\ FenceIn(w, b) = FenceIn(k, b)
      <3>1. PICK i \in 1..n : b \in d[i].blocks
        BY <1>6
      <3>2. i - m \in 1..(n - m) /\ m + (i - m) = i
        BY <1>9, <1>10, <2>1, <3>1
      <3>3. w.deferred[i - m] = d[i] /\ i - m \in DOMAIN w.deferred
        BY <1>5, <3>2
      <3>. QED  BY <1>4, <1>6, <3>1, <3>3
    <2>. QED  BY <2>1
  <1>13. \A b \in LimboIn(w) : b \in LimboIn(k)
    BY <1>4, <1>5, <1>6, <1>10
  <1>14. LimboIn(w) = LimboIn(k) \ D
    BY <1>11, <1>12, <1>13
  <1>15. \A b \in Blocks : FenceIn(w, b) = IF b \in D THEN 0 ELSE FenceIn(k, b)
    BY <1>4, <1>6, <1>11, <1>12, <1>14
  <1>16. Drained(D, w, k, done)
    BY <1>5, <1>11, <1>14, <1>15 DEF Drained
  <1>17. ASSUME old = done PROVE D = {}
    <2>1. \A i \in 1..m : FALSE
      BY <1>2, <1>7, <1>8, <1>17
    <2>. QED  BY <1>9, <2>1
  <1>18. Fenced(w, done, seq)
    <2>1. ASSUME NEW i \in 1..(n - m)
          PROVE  done < d[m + i].fence /\ d[m + i].fence <= seq
      <3>1. m + i \in 1..n /\ m + 1 \in 1..n /\ m < n
        BY <1>2, <1>8, <1>10
      <3>2. done < d[m + 1].fence
        BY <1>2, <1>8, <3>1
      <3>3. d[m + 1].fence <= d[m + i].fence
        <4>1. CASE i = 1
          BY <1>2, <3>1, <4>1
        <4>2. CASE i # 1
          <5>1. m + 1 < m + i
            BY <1>8, <4>2
          <5>. QED  BY <1>7, <3>1, <5>1
        <4>. QED  BY <4>1, <4>2
      <3>. QED  BY <1>2, <1>7, <3>1, <3>2, <3>3
    <2>2. \A i, j \in 1..(n - m) : i < j => d[m + i].fence <= d[m + j].fence
      <3>1. ASSUME NEW i \in 1..(n - m), NEW j \in 1..(n - m), i < j
            PROVE  d[m + i].fence <= d[m + j].fence
        <4>1. m + i \in 1..n /\ m + j \in 1..n /\ m + i < m + j
          BY <1>8, <1>10, <3>1
        <4>. QED  BY <1>7, <4>1
      <3>. QED  BY <3>1
    <2>. QED  BY <1>5, <2>1, <2>2 DEF Fenced
  <1>. QED  BY <1>16, <1>17, <1>18 DEF w

(* The uses of a queue of batches, and where they are *)
LEMMA UsesType ==
  ASSUME NEW Q \in Seq(BatchType)
  PROVE  /\ Len(Q) \in Nat /\ DOMAIN Q = 1..Len(Q)
         /\ \A i \in 1..Len(Q) : Q[i] \in BatchType
         /\ [i \in DOMAIN Q |-> Q[i].uses] \in [1..Len(Q) -> [Requests -> SUBSET Blocks]]
         /\ NonEmptyIn(Q) \in SUBSET (1..Len(Q))
  <1>1. /\ Len(Q) \in Nat /\ DOMAIN Q = 1..Len(Q)
        /\ \A i \in 1..Len(Q) : Q[i] \in BatchType
    BY LenProperties, ElementOfSeq
  <1>2. \A i \in 1..Len(Q) : Q[i].uses \in [Requests -> SUBSET Blocks]
    BY <1>1 DEF BatchType
  <1>. QED  BY <1>1, <1>2 DEF NonEmptyIn

(* A batch joins the queue: only a non-empty one counts. *)
LEMMA UsesAppend ==
  ASSUME NEW Q \in Seq(BatchType), NEW P \in Seq(BatchType), Len(P) = Len(Q) + 1,
         \A i \in 1..Len(Q) : P[i] = Q[i]
  PROVE  /\ (\E r \in Requests : P[Len(Q) + 1].toks[r] > 0) =>
              UsesIn(P) = Append(UsesIn(Q), P[Len(Q) + 1].uses)
         /\ ~(\E r \in Requests : P[Len(Q) + 1].toks[r] > 0) => UsesIn(P) = UsesIn(Q)
  <1>. DEFINE n == Len(Q)
              q == [i \in DOMAIN Q |-> Q[i].uses]
              p == [i \in DOMAIN P |-> P[i].uses]
              I == NonEmptyIn(Q)
              J == NonEmptyIn(P)
              T == [Requests -> SUBSET Blocks]
              full == \E r \in Requests : P[n + 1].toks[r] > 0
  <1>1. n \in Nat /\ DOMAIN Q = 1..n /\ q \in [1..n -> T] /\ I \in SUBSET (1..n)
    BY UsesType
  <1>2. DOMAIN P = 1..(n + 1) /\ p \in [1..(n + 1) -> T] /\ J \in SUBSET (1..(n + 1))
    BY UsesType
  <1>3. \A i \in 1..n : i \in 1..(n + 1) /\ P[i] = Q[i]
    BY <1>1
  <1>4. \A i \in 1..n : p[i] = q[i]
    BY <1>1, <1>2, <1>3
  <1>5. n + 1 \in 1..(n + 1) /\ n + 1 \notin 1..n /\ \A i \in 1..(n + 1) : i = n + 1 \/ i \in 1..n
    BY <1>1
  <1>6. p[n + 1] = P[n + 1].uses
    BY <1>2, <1>5
  <1>7. \A i \in 1..n : i \in J <=> i \in I
    BY <1>1, <1>2, <1>3 DEF NonEmptyIn
  <1>8. n + 1 \in J <=> full
    BY <1>2, <1>5 DEF NonEmptyIn
  <1>9. UsesIn(P) = AtPositions(p, J) /\ UsesIn(Q) = AtPositions(q, I)
    BY DEF UsesIn
  <1>. HIDE DEF n, q, p, I, J, full, T
  <1>. DEFINE M == I \cup {n + 1}
              e == p[n + 1]
  <1>10. (full => J = M) /\ (~full => J = I)
    BY <1>1, <1>2, <1>5, <1>7, <1>8
  <1>11. OneLonger(p, q, n, M, I, e, T)
    BY <1>1, <1>2, <1>4 DEF OneLonger
  <1>12. e = P[n + 1].uses
    BY <1>6
  <1>. HIDE DEF M, e
  <1>13. AtPositions(p, I) = AtPositions(q, I) /\ AtPositions(p, M) = Append(AtPositions(q, I), e)
    BY <1>11, AtPositionsAppend
  <1>. QED  BY <1>9, <1>10, <1>12, <1>13 DEF full, n

(* The oldest batch leaves the queue. *)
LEMMA UsesTail ==
  ASSUME NEW Q \in Seq(BatchType), NEW P \in Seq(BatchType), Len(Q) = Len(P) + 1,
         \A i \in 1..Len(P) : P[i] = Q[i + 1]
  PROVE  /\ (\E r \in Requests : Q[1].toks[r] > 0) =>
              UsesIn(Q) # <<>> /\ UsesIn(P) = Tail(UsesIn(Q))
         /\ ~(\E r \in Requests : Q[1].toks[r] > 0) => UsesIn(P) = UsesIn(Q)
  <1>. DEFINE n == Len(P)
              q == [i \in DOMAIN Q |-> Q[i].uses]
              p == [i \in DOMAIN P |-> P[i].uses]
              I == NonEmptyIn(Q)
              J == NonEmptyIn(P)
              T == [Requests -> SUBSET Blocks]
              full == \E r \in Requests : Q[1].toks[r] > 0
  <1>1. n \in Nat /\ DOMAIN P = 1..n /\ p \in [1..n -> T] /\ J \in SUBSET (1..n)
    BY UsesType
  <1>2. DOMAIN Q = 1..(n + 1) /\ q \in [1..(n + 1) -> T] /\ I \in SUBSET (1..(n + 1))
    BY UsesType
  <1>3. 1 \in 1..(n + 1) /\ \A i \in 1..n : i + 1 \in 1..(n + 1) /\ P[i] = Q[i + 1]
    BY <1>1
  <1>4. \A i \in 1..n : p[i] = q[i + 1]
    BY <1>1, <1>2, <1>3
  <1>5. \A i \in 1..n : i \in J <=> i + 1 \in I
    BY <1>1, <1>2, <1>3 DEF NonEmptyIn
  <1>6. 1 \in I <=> full
    BY <1>2, <1>3 DEF NonEmptyIn
  <1>7. UsesIn(P) = AtPositions(p, J) /\ UsesIn(Q) = AtPositions(q, I)
    BY DEF UsesIn
  <1>. HIDE DEF n, q, p, I, J, full, T
  <1>8. J = {i \in 1..n : i + 1 \in I}
    BY <1>1, <1>5
  <1>9. /\ 1 \notin I => AtPositions(p, J) = AtPositions(q, I)
        /\ 1 \in I => AtPositions(q, I) # <<>> /\ AtPositions(p, J) = Tail(AtPositions(q, I))
    <2>1. OneShorter(p, q, n, J, I, T)
      BY <1>1, <1>2, <1>4, <1>8 DEF OneShorter
    <2>. QED  BY <2>1, AtPositionsTail
  <1>. QED  BY <1>6, <1>7, <1>9 DEF full

(* A preemption changes neither what the batches use nor which are empty. *)
LEMMA UsesMarked ==
  ASSUME NEW Q, NEW P, DOMAIN P = DOMAIN Q,
         \A i \in DOMAIN Q : P[i].toks = Q[i].toks /\ P[i].uses = Q[i].uses
  PROVE  UsesIn(P) = UsesIn(Q)
  <1>1. NonEmptyIn(P) = NonEmptyIn(Q)
    BY DEF NonEmptyIn
  <1>2. [i \in DOMAIN P |-> P[i].uses] = [i \in DOMAIN Q |-> Q[i].uses]
    OBVIOUS
  <1>. QED  BY <1>1, <1>2 DEF UsesIn

(* What BlockLease does not speak of may change. *)
LEMMA LeaseStutter ==
  ASSUME kv' = kv, schedSeq' = schedSeq, procSeq' = procSeq,
         \A r \in Requests : req'[r].lastSeq = req[r].lastSeq,
         UsesIn(batchQueue') = UsesIn(batchQueue)
  PROVE  UNCHANGED Lease!leaseVars
  <1>1. [b \in Blocks |-> FenceOf(b)]' = [b \in Blocks |-> FenceOf(b)]
    BY LeaseState
  <1>2. UsesInFlight' = UsesInFlight /\ DeferredBlocks' = DeferredBlocks
    BY LeaseState
  <1>3. [r \in Requests |-> req[r].lastSeq]' = [r \in Requests |-> req[r].lastSeq]
    OBVIOUS
  <1>. QED  BY <1>1, <1>2, <1>3 DEF Lease!leaseVars

(* Preemption, abort and reset give blocks back. *)
LEMMA LeaseReturn ==
  ASSUME Base, Held, DeferBlockFree, NEW S \in SUBSET Requests,
         kv' = FreeRequestBlocks(kv, S, procSeq), schedSeq' = schedSeq, procSeq' = procSeq,
         \A r \in Requests : req'[r].lastSeq = req[r].lastSeq,
         UsesIn(batchQueue') = UsesIn(batchQueue)
  PROVE  Lease!Next
  <1>. DEFINE busy == {r \in S : req[r].lastSeq > procSeq}
              late == UNION {kv.tables[r] : r \in busy}
  <1>1. kv \in KVType /\ Placed(kv) /\ schedSeq \in Nat
    BY DEF Base, Types, Held
  <1>2. /\ kv'.free = kv.free \cup UNION {kv.tables[r] : r \in S \ busy}
        /\ kv'.tables = [r \in Requests |-> IF r \in S THEN {} ELSE kv.tables[r]]
        /\ LimboIn(kv') = LimboIn(kv) \cup late
        /\ \A b \in Blocks : FenceIn(kv', b) = IF b \in late THEN schedSeq ELSE FenceIn(kv, b)
    <2>. DEFINE w == FreeRequestBlocks(kv, S, procSeq)
    <2>1. GivenBack(w, kv, S, procSeq)
      BY <1>1, FreeLease
    <2>2. kv' = w
      OBVIOUS
    <2>. HIDE DEF w
    <2>. QED  BY <2>1, <2>2 DEF GivenBack
  <1>3. Lease!Busy(S, procSeq) = busy
    BY DEF Lease!Busy
  <1>4. Lease!Freed(busy) = late /\ Lease!Freed(S \ busy) = UNION {kv.tables[r] : r \in S \ busy}
    BY DEF Lease!Freed
  <1>. HIDE DEF busy, late
  <1>5. DeferredBlocks' = (DeferredBlocks \ {}) \cup late
    BY <1>2, LeaseState
  <1>6. [b \in Blocks |-> FenceOf(b)]' =
          [b \in Blocks |-> IF b \in late THEN schedSeq
                            ELSE IF b \in {} THEN 0 ELSE [c \in Blocks |-> FenceOf(c)][b]]
    BY <1>2, LeaseState
  <1>7. Lease!GiveBack(S, procSeq, {})
    BY <1>2, <1>3, <1>4, <1>5, <1>6 DEF Lease!GiveBack
  <1>8. UsesInFlight' = UsesInFlight
    BY LeaseState
  <1>9. [r \in Requests |-> req[r].lastSeq]' = [r \in Requests |-> req[r].lastSeq]
    OBVIOUS
  <1>10. Lease!Return(S)
    BY <1>7, <1>8, <1>9 DEF Lease!Return
  <1>. QED  BY <1>10 DEF Lease!Next

(* An allocation takes blocks, or none. *)
LEMMA LeaseTake ==
  ASSUME Base, NEW r \in Requests, NEW n, GetNewBlocks(r, n), schedSeq' = schedSeq,
         procSeq' = procSeq, \A s \in Requests : req'[s].lastSeq = req[s].lastSeq,
         batchQueue' = batchQueue
  PROVE  Lease!Next \/ UNCHANGED Lease!leaseVars
  <1>1. PICK new \in SUBSET kv.free :
            /\ kv' = [free |-> kv.free \ new,
                      tables |-> [kv.tables EXCEPT ![r] = @ \cup new],
                      deferred |-> kv.deferred]
            /\ kv' \in KVType
    BY NewBlocksAre DEF Base
  <1>2. kv.free \in SUBSET Blocks /\ kv.tables \in [Requests -> SUBSET Blocks] /\ kv \in KVType
    BY DEF Base, Types, KVType
  <1>3. kv'.free = kv.free \ new /\ kv'.tables = [kv.tables EXCEPT ![r] = @ \cup new]
        /\ kv'.deferred = kv.deferred
    BY <1>1
  <1>4. LimboIn(kv') = LimboIn(kv) /\ \A b : FenceIn(kv', b) = FenceIn(kv, b)
    BY <1>3 DEF LimboIn, FenceIn
  <1>5. /\ [b \in Blocks |-> FenceOf(b)]' = [b \in Blocks |-> FenceOf(b)]
        /\ UsesInFlight' = UsesInFlight /\ DeferredBlocks' = DeferredBlocks
        /\ [s \in Requests |-> req[s].lastSeq]' = [s \in Requests |-> req[s].lastSeq]
    BY <1>4, LeaseState
  <1>6. CASE new # {}
    <2>1. Lease!Take(r, new)
      BY <1>3, <1>5, <1>6 DEF Lease!Take
    <2>2. new \in SUBSET Blocks
      BY <1>2
    <2>. QED  BY <2>1, <2>2 DEF Lease!Next
  <1>7. CASE new = {}
    <2>1. kv'.free = kv.free
      BY <1>3, <1>7
    <2>2. kv'.tables = kv.tables
      BY <1>2, <1>3, <1>7
    <2>. QED  BY <1>5, <2>1, <2>2 DEF Lease!leaseVars
  <1>. QED  BY <1>6, <1>7

(* The fences of the deferred frees are ahead of what is processed. *)
Fences == Fenced(kv, procSeq, schedSeq)

(* What every step does: it is one of BlockLease or leaves it alone. *)
Leased == (Lease!Next \/ UNCHANGED Lease!leaseVars) /\ Fences'

(* A step that leaves the blocks, the stamps and the batches alone *)
LEMMA StutterLeased ==
  ASSUME Fences, kv' = kv, schedSeq' = schedSeq, procSeq' = procSeq,
         \A r \in Requests : req'[r].lastSeq = req[r].lastSeq,
         UsesIn(batchQueue') = UsesIn(batchQueue)
  PROVE  Leased
  <1>1. UNCHANGED Lease!leaseVars
    BY LeaseStutter
  <1>2. Fences'
    BY DEF Fences, Fenced
  <1>. QED  BY <1>1, <1>2 DEF Leased

(* A step in which the requests S give their blocks back *)
LEMMA ReturnLeased ==
  ASSUME Base, Held, Fences, DeferBlockFree, NEW S \in SUBSET Requests,
         kv' = FreeRequestBlocks(kv, S, procSeq), schedSeq' = schedSeq, procSeq' = procSeq,
         \A r \in Requests : req'[r].lastSeq = req[r].lastSeq,
         UsesIn(batchQueue') = UsesIn(batchQueue)
  PROVE  Leased
  <1>1. Lease!Next
    BY LeaseReturn
  <1>2. Fences'
    <2>. DEFINE w == FreeRequestBlocks(kv, S, procSeq)
    <2>1. kv \in KVType /\ procSeq \in Nat /\ Types
      BY DEF Base, Types
    <2>2. Fenced(w, procSeq, schedSeq)
      BY <2>1, FreeFenced DEF Fences
    <2>3. kv' = w
      OBVIOUS
    <2>. HIDE DEF w
    <2>. QED  BY <2>2, <2>3 DEF Fences, Fenced
  <1>. QED  BY <1>1, <1>2 DEF Leased

(* A step in which a request takes blocks *)
LEMMA TakeLeased ==
  ASSUME Base, Fences, NEW r \in Requests, NEW n, GetNewBlocks(r, n), schedSeq' = schedSeq,
         procSeq' = procSeq, \A s \in Requests : req'[s].lastSeq = req[s].lastSeq,
         batchQueue' = batchQueue
  PROVE  Leased
  <1>1. Lease!Next \/ UNCHANGED Lease!leaseVars
    BY LeaseTake
  <1>2. Fences'
    <2>1. PICK new \in SUBSET kv.free :
              kv' = [free |-> kv.free \ new,
                     tables |-> [kv.tables EXCEPT ![r] = @ \cup new],
                     deferred |-> kv.deferred]
      BY NewBlocksAre DEF Base
    <2>2. kv'.deferred = kv.deferred
      BY <2>1
    <2>. QED  BY <2>2 DEF Fences, Fenced
  <1>. QED  BY <1>1, <1>2 DEF Leased

(* Issuing a batch and retiring one are steps of BlockLease. *)
LEMMA LeaseIsStep ==
  /\ \A S \in SUBSET Requests : Lease!Issue(S) => Lease!Next
  /\ \A S \in SUBSET Requests, D \in SUBSET Blocks : Lease!Retire(S, D) => Lease!Next
  BY DEF Lease!Next

(* The end of schedule(): a non-empty batch is issued. *)
LEMMA IssueLeased ==
  ASSUME Base, Fences, DeferBlockFree, EndSchedule
  PROVE  Leased
  <1>0. PICK S : S = Scheduled
    OBVIOUS
  <1>. DEFINE n == Len(batchQueue)
              u == [r \in Requests |-> IF r \in S THEN kv.tables[r] ELSE {}]
              P == batchQueue'
              Q == batchQueue
  <1>1. Types /\ batchQueue \in Seq(BatchType) /\ schedSeq \in Nat /\ kv \in KVType
    BY DEF Base, Types
  <1>2. /\ schedSeq' = IF S # {} THEN schedSeq + 1 ELSE schedSeq
        /\ schedSeq' \in Nat /\ schedSeq <= schedSeq'
        /\ P \in Seq(BatchType) /\ Len(P) = n + 1
        /\ P[n + 1] = NewBatch
        /\ \A i \in 1..n : P[i] = Q[i]
        /\ kv' = kv /\ procSeq' = procSeq
        /\ \A r \in Requests \ S : req'[r] = req[r]
    BY <1>0, EndScheduleIs
  <1>3. \A r \in S : r \in Requests /\ req'[r].lastSeq = schedSeq'
    <2>1. ASSUME NEW r \in S  PROVE r \in Requests /\ req'[r].lastSeq = schedSeq'
      <3>. DEFINE m == loop.toks[r]
                  sp == loop.spec[r]
                  q == req[r]
                  seq == schedSeq'
      <3>1. r \in Requests
        BY <1>0 DEF Scheduled
      <3>2. q \in RequestType(schedSeq) /\ m \in Int /\ sp \in Int
        BY <1>1, <3>1 DEF Types, LoopType
      <3>3. req'[r] = AfterSchedule(q, m, sp, seq)
        BY <1>0, EndScheduleIs
      <3>4. seq \in Nat /\ schedSeq <= seq
        BY <1>2
      <3>. HIDE DEF m, sp, q, seq
      <3>5. AfterSchedule(q, m, sp, seq).lastSeq = seq
        BY <1>1, <3>2, <3>4, AfterScheduleIs
      <3>. QED  BY <3>1, <3>3, <3>5 DEF seq
    <2>. QED  BY <2>1
  <1>4. NewBatch.uses = u /\ NewBatch.toks = loop.toks
    BY <1>0 DEF NewBatch
  <1>5. (\E r \in Requests : loop.toks[r] > 0) <=> S # {}
    BY <1>0 DEF Scheduled
  <1>6. S \in SUBSET Requests
    BY <1>0 DEF Scheduled
  <1>. HIDE DEF u, P, Q, n
  <1>7. /\ S # {} => UsesIn(P) = Append(UsesIn(Q), u)
        /\ S = {} => UsesIn(P) = UsesIn(Q)
    <2>1. P[n + 1].uses = u /\ P[n + 1].toks = loop.toks
      BY <1>2, <1>4
    <2>2. n = Len(Q) /\ Q \in Seq(BatchType)
      BY <1>1 DEF n, Q
    <2>. QED  BY <1>2, <1>5, <2>1, <2>2, UsesAppend
  <1>8. Fences'
    <2>1. \A i \in DOMAIN kv.deferred : kv.deferred[i].fence \in Nat
      <3>1. kv.deferred \in Seq(DeferredType)
        BY <1>1 DEF KVType
      <3>2. \A i \in DOMAIN kv.deferred : kv.deferred[i] \in DeferredType
        BY <3>1
      <3>. QED  BY <3>2 DEF DeferredType
    <2>2. \A i \in DOMAIN kv.deferred : kv.deferred[i].fence <= schedSeq'
      <3>1. \A i \in DOMAIN kv.deferred : kv.deferred[i].fence <= schedSeq
        BY DEF Fences, Fenced
      <3>. QED  BY <1>1, <1>2, <2>1, <3>1
    <2>. QED  BY <1>2, <2>2 DEF Fences, Fenced
  <1>9. CASE S # {}
    <2>1. schedSeq' = schedSeq + 1 /\ schedSeq + 1 \in Nat
      BY <1>1, <1>2, <1>9
    <2>2. UsesInFlight' = Append(UsesInFlight, u)
      BY <1>7, <1>9, LeaseState DEF P, Q
    <2>3. [b \in Blocks |-> FenceOf(b)]' = [b \in Blocks |-> FenceOf(b)]
          /\ DeferredBlocks' = DeferredBlocks
      BY <1>2, LeaseState
    <2>4. [r \in Requests |-> req[r].lastSeq]' =
            [r \in Requests |-> IF r \in S THEN schedSeq + 1
                                ELSE [s \in Requests |-> req[s].lastSeq][r]]
      BY <1>2, <1>3, <2>1
    <2>5. Lease!Issue(S)
      BY <1>2, <1>9, <2>1, <2>2, <2>3, <2>4 DEF Lease!Issue, u
    <2>6. Lease!Next
      BY <1>6, <2>5, LeaseIsStep
    <2>. QED  BY <1>8, <2>6 DEF Leased
  <1>10. CASE S = {}
    <2>1. schedSeq' = schedSeq /\ \A r \in Requests : req'[r].lastSeq = req[r].lastSeq
      BY <1>2, <1>10
    <2>2. UsesIn(batchQueue') = UsesIn(batchQueue)
      BY <1>7, <1>10 DEF P, Q
    <2>. QED  BY <1>2, <2>1, <2>2, StutterLeased
  <1>. QED  BY <1>9, <1>10

(* Processing a batch changes no stamp. *)
LEMMA StampsStay ==
  ASSUME Base, NEW a, Outcome(a), NEW r \in Requests
  PROVE  req'[r].lastSeq = req[r].lastSeq
  <1>. DEFINE q == req[r]
              n == Batch.toks[r]
              x == a[r]
              old == q.stale > 0
              back == Returned(q, n)
  <1>1. q \in RequestType(schedSeq) /\ schedSeq \in Nat /\ pc = "process"
    BY DEF Base, Types, Outcome
  <1>2. Batch.spec[r] \in Int /\ n \in Int
    BY <1>1, BatchFacts
  <1>3. back.lastSeq = q.lastSeq /\ back \in RequestType(schedSeq)
    <2>. HIDE DEF q, n
    <2>. QED  BY <1>1, <1>2, ReturnedIs
  <1>4. req'[r] = UpdateRequest(r, a)
    BY DEF Outcome
  <1>5. r \in DOMAIN a => x.gen \in Int /\ x.kept \in Int
    BY OutcomeAnswer
  <1>6. old \in BOOLEAN
    OBVIOUS
  <1>7. req'[r] = q \/ req'[r] = back \/ req'[r] = Finished(back, r)
        \/ (r \in DOMAIN a /\ req'[r] = WithOutput(back, r, x, old))
    BY <1>4 DEF UpdateRequest
  <1>. HIDE DEF back, q, n, x, old
  <1>8. Finished(back, r).lastSeq = q.lastSeq
    BY <1>1, <1>3, FinishedIs
  <1>9. r \in DOMAIN a => WithOutput(back, r, x, old).lastSeq = q.lastSeq
    BY <1>2, <1>3, <1>5, <1>6, WithOutputIs
  <1>. QED  BY <1>3, <1>7, <1>8, <1>9 DEF q

(* update_from_output: a non-empty batch is retired, after which blocks    *)
(* leave limbo and the requests that stopped give theirs back.             *)
LEMMA RetireLeased ==
  ASSUME Base, Held, Fences, DeferBlockFree, NEW a, Outcome(a)
  PROVE  Leased
  <1>1. PICK S : S = Stopped(a)
    OBVIOUS
  <1>2. PICK k : k = DrainDeferredFrees(kv, Done)
    OBVIOUS
  <1>3. PICK w : w = FreeRequestBlocks(k, S, Done)
    OBVIOUS
  <1>4. PICK done : done = Done
    OBVIOUS
  <1>5. /\ kv' = w /\ procSeq' = done /\ schedSeq' = schedSeq
        /\ batchQueue' = Tail(batchQueue) /\ pc = "process"
    BY <1>1, <1>2, <1>3, <1>4 DEF Outcome
  <1>6. /\ procSeq \in Nat /\ schedSeq \in Nat /\ kv \in KVType /\ Placed(kv) /\ Types
        /\ done \in Nat /\ done = IF InBatch # {} THEN procSeq + 1 ELSE procSeq
    BY <1>4 DEF Base, Types, Held, Done
  <1>7. S \in SUBSET Requests /\ (InBatch = {} => S = {})
    <2>1. \A r \in S : r \in DOMAIN a
      BY <1>1 DEF Stopped
    <2>2. \A r \in S : r \in Requests /\ r \in InBatch
      BY <2>1, OutcomeAnswer
    <2>. QED  BY <2>2
  <1>8. /\ \E D : Drained(D, k, kv, done) /\ (procSeq = done => D = {})
        /\ Fenced(k, done, schedSeq)
    <2>1. /\ \E D : Drained(D, DrainDeferredFrees(kv, done), kv, done) /\ (procSeq = done => D = {})
          /\ Fenced(DrainDeferredFrees(kv, done), done, schedSeq)
      BY <1>6, DrainLease DEF Fences
    <2>. QED  BY <1>2, <1>4, <2>1
  <1>9. PICK D : Drained(D, k, kv, done) /\ (procSeq = done => D = {})
    BY <1>8
  <1>10. k \in KVType /\ Placed(k)
    BY <1>2, <1>4, <1>6, DrainPlaced
  <1>11. GivenBack(w, k, S, done) /\ Fenced(w, done, schedSeq)
    BY <1>3, <1>4, <1>6, <1>7, <1>8, <1>10, FreeLease, FreeFenced
  <1>12. Fences'
    BY <1>5, <1>11 DEF Fences, Fenced
  <1>. DEFINE busy == {r \in S : req[r].lastSeq > done}
              late == UNION {kv.tables[r] : r \in busy}
              now == UNION {kv.tables[r] : r \in S \ busy}
  <1>13. /\ D \in SUBSET Blocks
         /\ \A b \in D : b \in LimboIn(kv) /\ FenceIn(kv, b) <= done
         /\ k.free = kv.free \cup D /\ k.tables = kv.tables
         /\ LimboIn(k) = LimboIn(kv) \ D
         /\ \A b \in Blocks : FenceIn(k, b) = IF b \in D THEN 0 ELSE FenceIn(kv, b)
    BY <1>9 DEF Drained
  <1>14. /\ w.free = k.free \cup now
         /\ w.tables = [r \in Requests |-> IF r \in S THEN {} ELSE kv.tables[r]]
         /\ LimboIn(w) = LimboIn(k) \cup late
         /\ \A b \in Blocks : FenceIn(w, b) = IF b \in late THEN schedSeq ELSE FenceIn(k, b)
    BY <1>11, <1>13 DEF GivenBack
  <1>15. \A r \in Requests : req'[r].lastSeq = req[r].lastSeq
    BY StampsStay
  <1>16. /\ InBatch # {} => UsesIn(batchQueue) # <<>> /\ UsesIn(batchQueue') = Tail(UsesIn(batchQueue))
         /\ InBatch = {} => UsesIn(batchQueue') = UsesIn(batchQueue)
    <2>. DEFINE Q == batchQueue
                P == Tail(batchQueue)
    <2>1. /\ Q \in Seq(BatchType) /\ P \in Seq(BatchType)
          /\ Len(P) = Len(Q) - 1 /\ Len(Q) \in Nat
          /\ \A i \in 1..(Len(Q) - 1) : P[i] = Q[i + 1]
          /\ Batch = Q[1]
      BY <1>5, BatchFacts
    <2>2. (\E r \in Requests : Q[1].toks[r] > 0) <=> InBatch # {}
      BY <2>1 DEF InBatch
    <2>3. batchQueue' = P
      BY <1>5
    <2>4. Q = batchQueue
      OBVIOUS
    <2>. HIDE DEF P, Q
    <2>5. Len(Q) = Len(P) + 1 /\ \A i \in 1..Len(P) : P[i] = Q[i + 1]
      BY <2>1
    <2>6. /\ InBatch # {} => UsesIn(Q) # <<>> /\ UsesIn(P) = Tail(UsesIn(Q))
          /\ InBatch = {} => UsesIn(P) = UsesIn(Q)
      BY <2>1, <2>2, <2>5, UsesTail
    <2>. QED  BY <2>3, <2>4, <2>6
  <1>17. CASE InBatch # {}
    <2>1. done = procSeq + 1 /\ procSeq' = procSeq + 1
      BY <1>5, <1>6, <1>17
    <2>2. Lease!Busy(S, procSeq + 1) = busy
      BY <1>7, <2>1 DEF Lease!Busy
    <2>3. Lease!Freed(busy) = late /\ Lease!Freed(S \ busy) = now
      BY DEF Lease!Freed
    <2>. HIDE DEF busy, late, now
    <2>4. DeferredBlocks' = (DeferredBlocks \ D) \cup late
      BY <1>5, <1>13, <1>14, LeaseState
    <2>5. [b \in Blocks |-> FenceOf(b)]' =
            [b \in Blocks |-> IF b \in late THEN schedSeq
                              ELSE IF b \in D THEN 0 ELSE [c \in Blocks |-> FenceOf(c)][b]]
      BY <1>5, <1>13, <1>14, LeaseState
    <2>6. kv'.free = kv.free \cup D \cup now
      BY <1>5, <1>13, <1>14
    <2>7. kv'.tables = [r \in Requests |-> IF r \in S THEN {} ELSE kv.tables[r]]
      BY <1>5, <1>14
    <2>8. Lease!GiveBack(S, procSeq + 1, D)
      BY <2>2, <2>3, <2>4, <2>5, <2>6, <2>7 DEF Lease!GiveBack
    <2>9. UsesInFlight # <<>> /\ UsesInFlight' = Tail(UsesInFlight)
      BY <1>16, <1>17, LeaseState
    <2>10. [r \in Requests |-> req[r].lastSeq]' = [r \in Requests |-> req[r].lastSeq]
      BY <1>15
    <2>11. D \subseteq {b \in DeferredBlocks : [c \in Blocks |-> FenceOf(c)][b] <= procSeq + 1}
      BY <1>13, <2>1, LeaseState
    <2>12. Lease!Retire(S, D)
      BY <1>5, <2>1, <2>8, <2>9, <2>10, <2>11 DEF Lease!Retire
    <2>. QED  BY <1>7, <1>12, <1>13, <2>12, LeaseIsStep DEF Leased
  <1>18. CASE InBatch = {}
    <2>1. S = {} /\ D = {} /\ procSeq' = procSeq
      BY <1>5, <1>6, <1>7, <1>9, <1>18
    <2>2. late = {} /\ now = {}
      BY <2>1
    <2>3. kv.tables \in [Requests -> SUBSET Blocks]
      BY <1>6 DEF KVType
    <2>. HIDE DEF late, now
    <2>4. kv'.free = kv.free /\ kv'.tables = kv.tables
      BY <1>5, <1>13, <1>14, <2>1, <2>2, <2>3
    <2>5. DeferredBlocks' = DeferredBlocks
      BY <1>5, <1>13, <1>14, <2>1, <2>2, LeaseState
    <2>6. [b \in Blocks |-> FenceOf(b)]' = [b \in Blocks |-> FenceOf(b)]
      BY <1>5, <1>13, <1>14, <2>1, <2>2, LeaseState
    <2>7. UsesInFlight' = UsesInFlight
      BY <1>16, <1>18, LeaseState
    <2>8. [r \in Requests |-> req[r].lastSeq]' = [r \in Requests |-> req[r].lastSeq]
      BY <1>15
    <2>9. UNCHANGED Lease!leaseVars
      BY <1>5, <2>1, <2>4, <2>5, <2>6, <2>7, <2>8 DEF Lease!leaseVars
    <2>. QED  BY <1>12, <2>9 DEF Leased
  <1>. QED  BY <1>17, <1>18

(* Preemption: the requests S go back to the waiting queue. *)
LEMMA PreemptLeased ==
  ASSUME Base, Held, Fences, DeferBlockFree, NEW s, NEW S, Lists(s, S),
         S \subseteq ToSet(running), NEW drop, drop \in BOOLEAN,
         PreemptRequests(s, drop), schedSeq' = schedSeq, procSeq' = procSeq
  PROVE  Leased
  <1>1. /\ kv' = FreeRequestBlocks(kv, S, procSeq) /\ S \in SUBSET Requests
        /\ \A r \in Requests \ S : req'[r] = req[r]
        /\ batchQueue' = MarkOld(S)
    <2>1. ToSet(s) = S
      BY DEF Lists
    <2>2. /\ kv' = FreeRequestBlocks(kv, S, procSeq) /\ batchQueue' = MarkOld(S)
          /\ req' = [r \in Requests |-> IF r \in S THEN Preempted(req[r], drop) ELSE req[r]]
      BY <2>1 DEF PreemptRequests
    <2>3. ToSet(running) \subseteq Requests
      BY DEF Base, QueuesMatchStatus
    <2>. QED  BY <2>2, <2>3
  <1>2. ASSUME NEW r \in S  PROVE req'[r].lastSeq = req[r].lastSeq
    <2>. DEFINE q == req[r]
    <2>1. r \in Requests /\ q \in RequestType(schedSeq)
      BY <1>1 DEF Base, Types
    <2>2. req'[r] = Preempted(q, drop)
      <3>1. req' = [x \in Requests |-> IF x \in ToSet(s) THEN Preempted(req[x], drop) ELSE req[x]]
        BY DEF PreemptRequests
      <3>. QED  BY <2>1, <3>1 DEF Lists
    <2>. HIDE DEF q
    <2>3. Preempted(q, drop).lastSeq = q.lastSeq
      BY <2>1, PreemptedIs
    <2>. QED  BY <2>2, <2>3 DEF q
  <1>3. \A r \in Requests : req'[r].lastSeq = req[r].lastSeq
    BY <1>1, <1>2
  <1>4. UsesIn(batchQueue') = UsesIn(batchQueue)
    <2>. DEFINE P == MarkOld(S)
                Q == batchQueue
    <2>1. Types
      BY DEF Base
    <2>2. /\ DOMAIN P = DOMAIN Q
          /\ \A i \in DOMAIN Q :
               P[i] = [toks |-> Q[i].toks, spec |-> Q[i].spec, fresh |-> Q[i].fresh,
                       gen |-> Q[i].gen, old |-> Q[i].old \cup S, uses |-> Q[i].uses]
      BY <1>1, <2>1, MarkOldIs
    <2>3. batchQueue' = P
      BY <1>1
    <2>4. batchQueue = Q
      OBVIOUS
    <2>. HIDE DEF P, Q
    <2>5. \A i \in DOMAIN Q : P[i].toks = Q[i].toks /\ P[i].uses = Q[i].uses
      BY <2>2
    <2>6. UsesIn(P) = UsesIn(Q)
      BY <2>2, <2>5, UsesMarked
    <2>. QED  BY <2>3, <2>4, <2>6
  <1>. QED  BY <1>1, <1>3, <1>4, ReturnLeased

(* Every step is one of BlockLease or leaves it alone, and keeps Fences. *)
LEMMA LeasedStep ==
  ASSUME Base, Held, Fences, DeferBlockFree, [Next]_vars
  PROVE  Leased
  <1>0. Types /\ req \in [Requests -> RequestType(schedSeq)] /\ schedSeq \in Nat
    BY DEF Base, Types
  <1>a. \A r \in Requests : req[r] \in RequestType(schedSeq)
    BY <1>0
  <1>1. ASSUME NEW r \in Requests, AddRequest(r)  PROVE Leased
    <2>1. \A s \in Requests : req'[s].lastSeq = req[s].lastSeq
      BY <1>0, <1>1, <1>a DEF AddRequest, RequestType
    <2>2. UNCHANGED <<kv, schedSeq, procSeq, batchQueue>>
      BY <1>1 DEF AddRequest
    <2>. QED  BY <2>1, <2>2, StutterLeased
  <1>2. ASSUME NEW r \in Requests, FinishRequest(r)  PROVE Leased
    <2>. DEFINE S == {r}
    <2>1. S \in SUBSET Requests /\ kv' = FreeRequestBlocks(kv, S, procSeq)
          /\ UNCHANGED <<schedSeq, procSeq, batchQueue>>
      BY <1>2 DEF FinishRequest
    <2>2. \A s \in Requests : req'[s].lastSeq = req[s].lastSeq
      <3>. DEFINE q == req[r]
      <3>1. req'[r] = Finished(q, r) /\ \A s \in Requests \ {r} : req'[s] = req[s]
        BY <1>0, <1>2 DEF FinishRequest
      <3>2. q \in RequestType(schedSeq)
        BY <1>a
      <3>. HIDE DEF q
      <3>3. Finished(q, r).lastSeq = q.lastSeq
        BY <1>0, <3>2, FinishedIs
      <3>. QED  BY <3>1, <3>3 DEF q
    <2>. HIDE DEF S
    <2>. QED  BY <2>1, <2>2, ReturnLeased
  <1>4. CASE ResetPrefixCache
    <2>1. Lists(running, ToSet(running)) /\ PreemptRequests(running, TRUE)
          /\ UNCHANGED <<schedSeq, procSeq>>
      BY <1>4, QueuesList DEF ResetPrefixCache, Base
    <2>2. PICK s : s = running
      OBVIOUS
    <2>3. PICK S : S = ToSet(running)
      OBVIOUS
    <2>. QED  BY <2>1, <2>2, <2>3, PreemptLeased
  <1>5. CASE StartSchedule
    <2>1. UNCHANGED <<kv, schedSeq, procSeq, batchQueue>>
          /\ req' = [r \in Requests |-> [req[r] EXCEPT !.notBefore = MaxOf(@ - 1, 0)]]
      BY <1>5 DEF StartSchedule
    <2>2. \A r \in Requests : req'[r].lastSeq = req[r].lastSeq
      BY <1>a, <2>1 DEF RequestType
    <2>. QED  BY <2>1, <2>2, StutterLeased
  <1>6. CASE StartDrain \/ SkipRunning \/ PickRunning \/ EndRunning \/ SkipWaiting \/ EndWaiting
    <2>1. UNCHANGED <<kv, req, schedSeq, procSeq, batchQueue>>
      BY <1>6 DEF StartDrain, SkipRunning, PickRunning, EndRunning, SkipWaiting, EndWaiting
    <2>. QED  BY <2>1, StutterLeased
  <1>7. CASE AllocateRunning
    <2>. DEFINE r == Current
                n == NumBlocksToAllocate(r, loop.want)
    <2>1. /\ loop.idx < Len(running) /\ GetNewBlocks(r, n)
          /\ UNCHANGED <<schedSeq, procSeq, batchQueue>>
      BY <1>7, AllocateRunningIs
    <2>2. req' = [req EXCEPT ![r].spec = 0]
      BY <1>7 DEF AllocateRunning
    <2>3. r \in Requests
      BY <2>1, CurrentRuns
    <2>. HIDE DEF r, n
    <2>4. \A s \in Requests : req'[s].lastSeq = req[s].lastSeq
      BY <1>0, <1>a, <2>2, <2>3 DEF RequestType
    <2>. QED  BY <2>1, <2>3, <2>4, TakeLeased
  <1>8. CASE PreemptForRunning
    <2>1. PICK v : v = Victim
      OBVIOUS
    <2>. DEFINE s == <<v>>
                S == {v}
    <2>2. /\ v \in Requests /\ v \in ToSet(running) /\ PreemptRequests(s, RequiresKVDelivery)
          /\ UNCHANGED <<schedSeq, procSeq>>
      BY <1>8, <2>1, PreemptForRunningIs
    <2>3. Lists(s, S)
      BY <2>2 DEF Lists, IsInjective, ToSet
    <2>4. S \subseteq ToSet(running) /\ RequiresKVDelivery \in BOOLEAN
      BY <2>2, SchedulerAssumption
    <2>. HIDE DEF s, S
    <2>. QED  BY <2>2, <2>3, <2>4, PreemptLeased
  <1>9. CASE AdmitWaiting
    <2>. DEFINE r == NextWaiting
                n == NumBlocksToAllocate(r, AdmitTokens(r))
    <2>1. /\ r \in Requests /\ GetNewBlocks(r, n)
          /\ req' = [req EXCEPT ![r].status = "RUNNING"]
          /\ UNCHANGED <<schedSeq, procSeq, batchQueue>>
      BY <1>9, AdmitWaitingIs
    <2>. HIDE DEF r, n
    <2>2. \A s \in Requests : req'[s].lastSeq = req[s].lastSeq
      BY <1>0, <1>a, <2>1 DEF RequestType
    <2>. QED  BY <2>1, <2>2, TakeLeased
  <1>10. CASE EndSchedule
    BY <1>10, IssueLeased
  <1>11. CASE UpdateFromOutput
    BY <1>11, UpdateHasOutcome, RetireLeased
  <1>12. CASE UNCHANGED vars
    <2>1. UNCHANGED <<kv, req, schedSeq, procSeq, batchQueue>>
      BY <1>12 DEF vars
    <2>. QED  BY <2>1, StutterLeased
  <1>. QED  BY <1>1, <1>2, <1>4, <1>5, <1>6, <1>7, <1>8, <1>9, <1>10, <1>11, <1>12
            DEF Next, EngineStep

(* The initial state is one of BlockLease. *)
LEMMA InitLeased ==
  ASSUME Init
  PROVE  Lease!Init /\ Fences
  <1>. DEFINE t == [r \in Requests |-> {}]
              d == <<>>
  <1>1. /\ kv = [free |-> Blocks, tables |-> t, deferred |-> d]
        /\ req = [r \in Requests |-> NewRequest(r)]
        /\ schedSeq = 0 /\ procSeq = 0 /\ batchQueue = <<>>
    BY DEF Init
  <1>2. DOMAIN d = {} /\ t = Lease!NoUse
    BY DEF Lease!NoUse
  <1>. HIDE DEF t, d
  <1>3. Fences
    BY <1>1, <1>2 DEF Fences, Fenced
  <1>4. DeferredBlocks = {}
    BY <1>1, <1>2 DEF DeferredBlocks
  <1>5. [b \in Blocks |-> FenceOf(b)] = [b \in Blocks |-> 0]
    BY <1>4 DEF FenceOf
  <1>6. [r \in Requests |-> req[r].lastSeq] = [r \in Requests |-> 0]
    BY <1>1 DEF NewRequest
  <1>7. UsesInFlight = <<>>
    <2>1. NonEmpty = {}
      BY <1>1 DEF NonEmpty
    <2>. DEFINE I == NonEmpty
    <2>. HIDE DEF I
    <2>2. Ascending(I) = <<>>
      <3>1. Cardinality(I) = 0
        BY <2>1, FS_EmptySet DEF I
      <3>. QED  BY <3>1 DEF Ascending
    <2>. QED  BY <2>2 DEF UsesInFlight, AtPositions, I
  <1>. QED  BY <1>1, <1>2, <1>3, <1>4, <1>5, <1>6, <1>7 DEF Lease!Init

(* The scheduler's block bookkeeping implements BlockLease, for every      *)
(* number of requests and blocks, every policy, bound and configuration    *)
(* with defer_block_free: every step of schedule(), update_from_output,    *)
(* preemption, abort and reset is a step of the lease or leaves it alone.  *)
THEOREM ImplementsBlockLease ==
  ASSUME DeferBlockFree
  PROVE  Spec => LeaseSpec
  <1>1. Init => Lease!Init /\ Fences
    BY InitLeased
  <1>2. Base /\ Held /\ Fences /\ [Next]_vars => Leased
    BY LeasedStep
  <1>3. Leased => [Lease!Next]_(Lease!leaseVars) /\ Fences'
    BY DEF Leased
  <1>. QED  BY <1>1, <1>2, <1>3, HeldHolds, PTL DEF Spec, LeaseSpec, Lease!Spec

(* The theorems about BlockLease, about the scheduler's state *)
LeaseProofs == INSTANCE BlockLease_proofs WITH
  Owners <- Requests, Steps <- Nat,
  free <- kv.free, held <- kv.tables, limbo <- DeferredBlocks,
  fence <- [b \in Blocks |-> FenceOf(b)],
  lastSeq <- [r \in Requests |-> req[r].lastSeq],
  issued <- schedSeq, retired <- procSeq, inflight <- UsesInFlight

(* No block that a batch in flight reads or writes is free or in another   *)
(* request's table, through aborts, preemptions, resets and stops that     *)
(* overtake it (scheduler.py 2947-2986): the lease's guarantee, carried    *)
(* over to the scheduler by the refinement.                                *)
THEOREM NoBatchUsesAFreedBlock ==
  ASSUME DeferBlockFree
  PROVE  Spec => []Lease!NoUseAfterFree
  <1>1. LeaseProofs!Spec => []LeaseProofs!NoUseAfterFree
    BY LeaseProofs!LeaseNoUseAfterFree
  <1>2. Lease!Init => LeaseProofs!Init
    BY DEF Lease!Init, LeaseProofs!Init, Lease!NoUse, LeaseProofs!NoUse
  <1>3. [Lease!Next]_(Lease!leaseVars) => [LeaseProofs!Next]_(LeaseProofs!leaseVars)
    <2>1. ASSUME NEW o \in Requests, NEW S \in SUBSET Blocks, Lease!Take(o, S)
          PROVE  LeaseProofs!Take(o, S)
      BY <2>1 DEF Lease!Take, LeaseProofs!Take
    <2>2. ASSUME NEW O \in SUBSET Requests, Lease!Issue(O)
          PROVE  LeaseProofs!Issue(O)
      BY <2>2 DEF Lease!Issue, LeaseProofs!Issue
    <2>3. ASSUME NEW O, NEW done, NEW D, Lease!GiveBack(O, done, D)
          PROVE  LeaseProofs!GiveBack(O, done, D)
      BY <2>3 DEF Lease!GiveBack, LeaseProofs!GiveBack, Lease!Freed, LeaseProofs!Freed,
                  Lease!Busy, LeaseProofs!Busy
    <2>4. ASSUME NEW O \in SUBSET Requests, Lease!Return(O)
          PROVE  LeaseProofs!Return(O)
      BY <2>3, <2>4 DEF Lease!Return, LeaseProofs!Return
    <2>5. ASSUME NEW O \in SUBSET Requests, NEW D \in SUBSET Blocks, Lease!Retire(O, D)
          PROVE  LeaseProofs!Retire(O, D)
      BY <2>3, <2>5 DEF Lease!Retire, LeaseProofs!Retire
    <2>6. Lease!leaseVars = LeaseProofs!leaseVars /\ (Lease!leaseVars = LeaseProofs!leaseVars)'
      BY DEF Lease!leaseVars, LeaseProofs!leaseVars
    <2>7. Lease!Next => LeaseProofs!Next
      BY <2>1, <2>2, <2>4, <2>5 DEF Lease!Next, LeaseProofs!Next
    <2>. QED  BY <2>6, <2>7
  <1>4. LeaseProofs!NoUseAfterFree => Lease!NoUseAfterFree
    BY DEF LeaseProofs!NoUseAfterFree, Lease!NoUseAfterFree
  <1>. QED  BY <1>1, <1>2, <1>3, <1>4, ImplementsBlockLease, PTL
       DEF LeaseSpec, Lease!Spec, LeaseProofs!Spec
-----------------------------------------------------------------------------
(***************************************************************************)
(* What the scheduler counts is what is in flight, and what it delivers is *)
(* the sequence the client asked for.  Three layers on top of the queues   *)
(* and blocks above:                                                       *)
(*                                                                         *)
(*   Counts     the counters of each request against the batch queue, and  *)
(*              the cursor and budget of schedule() against the batch it   *)
(*              is building;                                               *)
(*   Numbered   the numbers of the steps against the batches in flight;    *)
(*   AllInSync  the worker's copy of each sequence against the             *)
(*              scheduler's.                                               *)
(***************************************************************************)

(* The batches in flight of the queue Q: what they hold of r *)
SentOf(Q, r) == [i \in DOMAIN Q |-> Q[i].toks[r]]
StaleOf(Q, r) == [i \in DOMAIN Q |-> IF r \in Q[i].old THEN Q[i].toks[r] ELSE 0]
OutsOf(Q, r) == [i \in DOMAIN Q |-> IF r \in Q[i].gen \ Q[i].old THEN 1 + Q[i].spec[r] ELSE 0]

(* A batch that schedule() can make *)
BatchOK(b) ==
  /\ b \in BatchType
  /\ b.toks \in [Requests -> Nat] /\ b.spec \in [Requests -> Nat] /\ b.fresh \in [Requests -> Nat]
  /\ \A r \in b.gen : b.toks[r] > 0

(* Batches leave the queue in the order they were made, so that a batch of *)
(* an earlier life of a request is in front of every batch of a later one. *)
QueueOK(Q) ==
  /\ Q \in Seq(BatchType)
  /\ \A i \in DOMAIN Q : BatchOK(Q[i])
  /\ \A i, j \in DOMAIN Q : i < j => Q[j].old \subseteq Q[i].old

(* The sums over the batches are natural numbers. *)
LEMMA SumsType ==
  ASSUME NEW Q, QueueOK(Q), NEW r \in Requests
  PROVE  /\ DOMAIN Q = 1..Len(Q) /\ Len(Q) \in Nat /\ IsFiniteSet(1..Len(Q))
         /\ SentOf(Q, r) \in [1..Len(Q) -> Nat] /\ StaleOf(Q, r) \in [1..Len(Q) -> Nat]
         /\ OutsOf(Q, r) \in [1..Len(Q) -> Nat]
         /\ Total(SentOf(Q, r)) \in Nat /\ Total(StaleOf(Q, r)) \in Nat
         /\ Total(OutsOf(Q, r)) \in Nat
  <1>1. DOMAIN Q = 1..Len(Q) /\ Len(Q) \in Nat
    BY DEF QueueOK
  <1>2. IsFiniteSet(1..Len(Q))
    BY <1>1, FS_Interval
  <1>3. \A i \in 1..Len(Q) : Q[i].toks[r] \in Nat /\ Q[i].spec[r] \in Nat
    BY <1>1 DEF QueueOK, BatchOK
  <1>4. SentOf(Q, r) \in [1..Len(Q) -> Nat]
    BY <1>1, <1>3 DEF SentOf
  <1>5. StaleOf(Q, r) \in [1..Len(Q) -> Nat]
    BY <1>1, <1>3 DEF StaleOf
  <1>6. OutsOf(Q, r) \in [1..Len(Q) -> Nat]
    BY <1>1, <1>3 DEF OutsOf
  <1>. DEFINE D == 1..Len(Q)
  <1>. HIDE DEF D
  <1>7. \A f : f \in [D -> Nat] => Total(f) \in Nat
    BY <1>2, UnitsFinite DEF D
  <1>. QED  BY <1>1, <1>2, <1>4, <1>5, <1>6, <1>7 DEF D

(* A request that is marked has only outputs of an earlier life in flight. *)
LEMMA SumsMark ==
  ASSUME NEW Q, QueueOK(Q), NEW P, NEW S \in SUBSET Requests,
         P \in Seq(BatchType), DOMAIN P = DOMAIN Q,
         \A i \in DOMAIN Q :
           P[i] = [toks |-> Q[i].toks, spec |-> Q[i].spec, fresh |-> Q[i].fresh,
                   gen |-> Q[i].gen, old |-> Q[i].old \cup S, uses |-> Q[i].uses]
  PROVE  /\ QueueOK(P)
         /\ \A r \in Requests : SentOf(P, r) = SentOf(Q, r)
         /\ \A r \in S : StaleOf(P, r) = SentOf(Q, r) /\ Total(OutsOf(P, r)) = 0
         /\ \A r \in Requests \ S : StaleOf(P, r) = StaleOf(Q, r) /\ OutsOf(P, r) = OutsOf(Q, r)
  <1>1. \A i \in DOMAIN Q : /\ P[i].toks = Q[i].toks /\ P[i].spec = Q[i].spec
                            /\ P[i].fresh = Q[i].fresh /\ P[i].gen = Q[i].gen
                            /\ P[i].old = Q[i].old \cup S
    OBVIOUS
  <1>2. QueueOK(P)
    <2>1. \A i \in DOMAIN P : P[i] \in BatchType
      OBVIOUS
    <2>2. \A i \in DOMAIN P : BatchOK(P[i])
      BY <1>1, <2>1 DEF QueueOK, BatchOK
    <2>3. \A i, j \in DOMAIN P : i < j => P[j].old \subseteq P[i].old
      BY <1>1 DEF QueueOK
    <2>. QED  BY <2>2, <2>3 DEF QueueOK
  <1>3. \A r \in Requests : SentOf(P, r) = SentOf(Q, r)
    BY <1>1 DEF SentOf
  <1>4. ASSUME NEW r \in S  PROVE StaleOf(P, r) = SentOf(Q, r) /\ Total(OutsOf(P, r)) = 0
    <2>1. \A i \in DOMAIN Q : r \in P[i].old
      BY <1>1
    <2>2. StaleOf(P, r) = SentOf(Q, r)
      BY <1>1, <2>1 DEF SentOf, StaleOf
    <2>. DEFINE D == 1..Len(P)
                f == OutsOf(P, r)
    <2>3. f \in [D -> Nat]
      BY <1>2, SumsType
    <2>4. \A i \in D : f[i] = 0
      BY <1>2, <2>1, SumsType DEF OutsOf
    <2>. HIDE DEF D, f
    <2>5. Total(f) = 0
      BY <2>3, <2>4, TotalZero
    <2>. QED  BY <2>2, <2>5 DEF f
  <1>5. ASSUME NEW r \in Requests \ S
        PROVE  StaleOf(P, r) = StaleOf(Q, r) /\ OutsOf(P, r) = OutsOf(Q, r)
    <2>1. \A i \in DOMAIN Q : r \in P[i].old <=> r \in Q[i].old
      BY <1>1
    <2>2. StaleOf(P, r) = StaleOf(Q, r)
      BY <1>1, <2>1 DEF StaleOf
    <2>3. OutsOf(P, r) = OutsOf(Q, r)
      BY <1>1, <2>1 DEF OutsOf
    <2>. QED  BY <2>2, <2>3
  <1>. QED  BY <1>2, <1>3, <1>4, <1>5

(* A new batch adds what it holds. *)
LEMMA SumsAppend ==
  ASSUME NEW Q, QueueOK(Q), NEW b, BatchOK(b), b.old = {}, NEW P, P \in Seq(BatchType),
         Len(P) = Len(Q) + 1, \A i \in 1..Len(Q) : P[i] = Q[i], P[Len(Q) + 1] = b
  PROVE  /\ QueueOK(P)
         /\ \A r \in Requests :
              /\ Total(SentOf(P, r)) = Total(SentOf(Q, r)) + b.toks[r]
              /\ Total(StaleOf(P, r)) = Total(StaleOf(Q, r))
              /\ Total(OutsOf(P, r)) = Total(OutsOf(Q, r))
                                         + IF r \in b.gen THEN 1 + b.spec[r] ELSE 0
  <1>. DEFINE n == Len(Q)
  <1>1. DOMAIN Q = 1..n /\ n \in Nat /\ DOMAIN P = 1..(n + 1)
    BY DEF QueueOK
  <1>2. \A i \in 1..(n + 1) : i \in 1..n \/ i = n + 1
    BY <1>1
  <1>3. QueueOK(P)
    <2>1. \A i \in DOMAIN P : BatchOK(P[i])
      BY <1>1, <1>2 DEF QueueOK
    <2>2. \A i, j \in DOMAIN P : i < j => P[j].old \subseteq P[i].old
      <3>. SUFFICES ASSUME NEW i \in 1..(n + 1), NEW j \in 1..(n + 1), i < j
                    PROVE  P[j].old \subseteq P[i].old
        BY <1>1
      <3>1. CASE j = n + 1
        BY <3>1
      <3>2. CASE j # n + 1
        <4>1. i \in 1..n /\ j \in 1..n
          BY <1>1, <3>2
        <4>. QED  BY <1>1, <4>1 DEF QueueOK
      <3>. QED  BY <3>1, <3>2
    <2>. QED  BY <2>1, <2>2 DEF QueueOK
  <1>4. n + 1 \in 1..(n + 1) /\ \A i \in 1..n : i \in 1..(n + 1)
    BY <1>1
  <1>5. ASSUME NEW r \in Requests
        PROVE  /\ Total(SentOf(P, r)) = Total(SentOf(Q, r)) + b.toks[r]
               /\ Total(StaleOf(P, r)) = Total(StaleOf(Q, r))
               /\ Total(OutsOf(P, r)) = Total(OutsOf(Q, r))
                                          + IF r \in b.gen THEN 1 + b.spec[r] ELSE 0
    <2>1. /\ SentOf(Q, r) \in [1..n -> Nat] /\ StaleOf(Q, r) \in [1..n -> Nat]
          /\ OutsOf(Q, r) \in [1..n -> Nat] /\ Total(StaleOf(Q, r)) \in Nat
      BY SumsType
    <2>2. /\ SentOf(P, r) \in [1..(n + 1) -> Nat] /\ StaleOf(P, r) \in [1..(n + 1) -> Nat]
          /\ OutsOf(P, r) \in [1..(n + 1) -> Nat]
      BY <1>1, <1>3, SumsType
    <2>3. /\ \A i \in 1..n : SentOf(P, r)[i] = SentOf(Q, r)[i]
          /\ SentOf(P, r)[n + 1] = b.toks[r]
      BY <1>1, <1>4 DEF SentOf
    <2>4. /\ \A i \in 1..n : StaleOf(P, r)[i] = StaleOf(Q, r)[i]
          /\ StaleOf(P, r)[n + 1] = 0
      BY <1>1, <1>4 DEF StaleOf
    <2>5. /\ \A i \in 1..n : OutsOf(P, r)[i] = OutsOf(Q, r)[i]
          /\ OutsOf(P, r)[n + 1] = IF r \in b.gen THEN 1 + b.spec[r] ELSE 0
      BY <1>1, <1>4 DEF OutsOf
    <2>. HIDE DEF n
    <2>6. Total(SentOf(P, r)) = Total(SentOf(Q, r)) + SentOf(P, r)[n + 1]
      BY ONLY <1>1, <2>1, <2>2, <2>3, TotalAppend
    <2>7. Total(StaleOf(P, r)) = Total(StaleOf(Q, r)) + StaleOf(P, r)[n + 1]
      BY ONLY <1>1, <2>1, <2>2, <2>4, TotalAppend
    <2>8. Total(OutsOf(P, r)) = Total(OutsOf(Q, r)) + OutsOf(P, r)[n + 1]
      BY ONLY <1>1, <2>1, <2>2, <2>5, TotalAppend
    <2>. QED  BY <2>1, <2>3, <2>4, <2>5, <2>6, <2>7, <2>8
  <1>. QED  BY <1>3, <1>5

(* The oldest batch takes away what it held. *)
LEMMA SumsTail ==
  ASSUME NEW Q, QueueOK(Q), Len(Q) > 0, NEW P, P \in Seq(BatchType),
         Len(P) = Len(Q) - 1, \A i \in 1..(Len(Q) - 1) : P[i] = Q[i + 1]
  PROVE  /\ QueueOK(P)
         /\ \A r \in Requests :
              /\ Total(SentOf(Q, r)) = Q[1].toks[r] + Total(SentOf(P, r))
              /\ Total(StaleOf(Q, r)) = (IF r \in Q[1].old THEN Q[1].toks[r] ELSE 0)
                                          + Total(StaleOf(P, r))
              /\ Total(OutsOf(Q, r)) = (IF r \in Q[1].gen \ Q[1].old THEN 1 + Q[1].spec[r] ELSE 0)
                                         + Total(OutsOf(P, r))
  <1>. DEFINE n == Len(Q)
  <1>1. DOMAIN Q = 1..n /\ n \in Nat /\ n > 0 /\ DOMAIN P = 1..(n - 1)
    BY DEF QueueOK
  <1>2. 1 \in 1..n /\ \A i \in 1..(n - 1) : i + 1 \in 1..n
    BY <1>1
  <1>3. QueueOK(P)
    <2>1. \A i \in DOMAIN P : BatchOK(P[i])
      BY <1>1, <1>2 DEF QueueOK
    <2>2. \A i, j \in DOMAIN P : i < j => P[j].old \subseteq P[i].old
      <3>. SUFFICES ASSUME NEW i \in 1..(n - 1), NEW j \in 1..(n - 1), i < j
                    PROVE  P[j].old \subseteq P[i].old
        BY <1>1
      <3>1. i + 1 \in 1..n /\ j + 1 \in 1..n /\ i + 1 < j + 1
        BY <1>1
      <3>. QED  BY <1>1, <3>1 DEF QueueOK
    <2>. QED  BY <2>1, <2>2 DEF QueueOK
  <1>4. ASSUME NEW r \in Requests
        PROVE  /\ Total(SentOf(Q, r)) = Q[1].toks[r] + Total(SentOf(P, r))
               /\ Total(StaleOf(Q, r)) = (IF r \in Q[1].old THEN Q[1].toks[r] ELSE 0)
                                           + Total(StaleOf(P, r))
               /\ Total(OutsOf(Q, r)) = (IF r \in Q[1].gen \ Q[1].old THEN 1 + Q[1].spec[r] ELSE 0)
                                          + Total(OutsOf(P, r))
    <2>1. /\ SentOf(Q, r) \in [1..n -> Nat] /\ StaleOf(Q, r) \in [1..n -> Nat]
          /\ OutsOf(Q, r) \in [1..n -> Nat]
      BY SumsType
    <2>2. /\ SentOf(P, r) \in [1..(n - 1) -> Nat] /\ StaleOf(P, r) \in [1..(n - 1) -> Nat]
          /\ OutsOf(P, r) \in [1..(n - 1) -> Nat]
      BY <1>1, <1>3, SumsType
    <2>3. /\ \A i \in 1..(n - 1) : SentOf(P, r)[i] = SentOf(Q, r)[i + 1]
          /\ SentOf(Q, r)[1] = Q[1].toks[r]
      BY <1>1, <1>2 DEF SentOf
    <2>4. /\ \A i \in 1..(n - 1) : StaleOf(P, r)[i] = StaleOf(Q, r)[i + 1]
          /\ StaleOf(Q, r)[1] = IF r \in Q[1].old THEN Q[1].toks[r] ELSE 0
      BY <1>1, <1>2 DEF StaleOf
    <2>5. /\ \A i \in 1..(n - 1) : OutsOf(P, r)[i] = OutsOf(Q, r)[i + 1]
          /\ OutsOf(Q, r)[1] = IF r \in Q[1].gen \ Q[1].old THEN 1 + Q[1].spec[r] ELSE 0
      BY <1>1, <1>2 DEF OutsOf
    <2>. HIDE DEF n
    <2>6. Total(SentOf(Q, r)) = SentOf(Q, r)[1] + Total(SentOf(P, r))
      <3>. DEFINE f == SentOf(Q, r)
                  g == SentOf(P, r)
      <3>1. /\ n \in Nat /\ n > 0 /\ f \in [1..n -> Nat] /\ g \in [1..(n - 1) -> Nat]
            /\ \A i \in 1..(n - 1) : g[i] = f[i + 1]
        BY <1>1, <2>1, <2>2, <2>3
      <3>. HIDE DEF f, g
      <3>2. Total(f) = f[1] + Total(g)
        BY ONLY <3>1, TotalTail
      <3>. QED  BY <3>2 DEF f, g
    <2>7. Total(StaleOf(Q, r)) = StaleOf(Q, r)[1] + Total(StaleOf(P, r))
      <3>. DEFINE f == StaleOf(Q, r)
                  g == StaleOf(P, r)
      <3>1. /\ n \in Nat /\ n > 0 /\ f \in [1..n -> Nat] /\ g \in [1..(n - 1) -> Nat]
            /\ \A i \in 1..(n - 1) : g[i] = f[i + 1]
        BY <1>1, <2>1, <2>2, <2>4
      <3>. HIDE DEF f, g
      <3>2. Total(f) = f[1] + Total(g)
        BY ONLY <3>1, TotalTail
      <3>. QED  BY <3>2 DEF f, g
    <2>8. Total(OutsOf(Q, r)) = OutsOf(Q, r)[1] + Total(OutsOf(P, r))
      <3>. DEFINE f == OutsOf(Q, r)
                  g == OutsOf(P, r)
      <3>1. /\ n \in Nat /\ n > 0 /\ f \in [1..n -> Nat] /\ g \in [1..(n - 1) -> Nat]
            /\ \A i \in 1..(n - 1) : g[i] = f[i + 1]
        BY <1>1, <2>1, <2>2, <2>5
      <3>. HIDE DEF f, g
      <3>2. Total(f) = f[1] + Total(g)
        BY ONLY <3>1, TotalTail
      <3>. QED  BY <3>2 DEF f, g
    <2>. QED  BY <2>3, <2>4, <2>5, <2>6, <2>7, <2>8
  <1>. QED  BY <1>3, <1>4

(* While a request counts stale tokens, the oldest batch that holds it is  *)
(* one of them; when it counts none, no batch that holds it is stale.      *)
LEMMA HeadIsStale ==
  ASSUME NEW Q, QueueOK(Q), Len(Q) > 0, NEW r \in Requests, Q[1].toks[r] > 0
  PROVE  r \in Q[1].old <=> Total(StaleOf(Q, r)) > 0
  <1>. DEFINE n == Len(Q)
              D == 1..n
              f == StaleOf(Q, r)
  <1>1. DOMAIN Q = D /\ n \in Nat /\ n > 0 /\ IsFiniteSet(D) /\ f \in [D -> Nat] /\ Total(f) \in Nat
    BY SumsType
  <1>2. 1 \in D /\ \A i \in D : i = 1 \/ 1 < i
    BY <1>1
  <1>3. \A i \in D : f[i] = IF r \in Q[i].old THEN Q[i].toks[r] ELSE 0
    BY <1>1 DEF StaleOf
  <1>4. \A i \in D : Q[i].old \subseteq Q[1].old
    BY <1>1, <1>2 DEF QueueOK
  <1>. HIDE DEF D, f, n
  <1>5. ASSUME r \in Q[1].old  PROVE Total(f) > 0
    <2>1. f[1] = Q[1].toks[r] /\ f[1] \in Nat
      BY <1>1, <1>2, <1>3, <1>5
    <2>2. f[1] <= Total(f)
      BY ONLY <1>1, <1>2, TotalAtLeast
    <2>. QED  BY <1>1, <2>1, <2>2
  <1>6. ASSUME r \notin Q[1].old  PROVE Total(f) = 0
    <2>1. \A i \in D : f[i] = 0
      BY <1>3, <1>4, <1>6
    <2>. QED  BY ONLY <1>1, <2>1, TotalZero
  <1>. QED  BY <1>1, <1>5, <1>6 DEF f
-----------------------------------------------------------------------------
(* The counters of the request r.  Its batches in flight hold `sent`       *)
(* tokens, `stale` of them of an earlier life, and `outs` outputs of the   *)
(* present one; the current call of schedule() gives it n tokens, spec of  *)
(* them drafts.                                                            *)
Counted(q, r, n, spec, sent, stale, outs) ==
  /\ q.tokens \in Nat /\ q.computed \in Nat /\ q.inFlight \in Nat /\ q.stale \in Nat
  /\ q.placeholders \in Nat
  /\ q.status = "NONE" => q = NewRequest(r) /\ sent = 0 /\ stale = 0 /\ outs = 0
  /\ q.status # "RUNNING" => n = 0
  /\ q.status \in {"WAITING", "PREEMPTED", "RUNNING"} =>
       /\ PromptLen[r] <= q.tokens /\ q.tokens < MaxModelLen
       /\ q.tokens < PromptLen[r] + MaxTokens[r]
       /\ q.inFlight = sent /\ q.stale = stale /\ q.placeholders = outs
  /\ q.status \in {"WAITING", "PREEMPTED"} =>
       q.computed = 0 /\ q.spec = 0 /\ q.placeholders = 0 /\ sent = stale
  /\ q.status = "RUNNING" =>
       /\ q.stale = 0 \/ q.dropStale
       /\ q.computed + n <= MaxModelLen - 1
       /\ n = 0 => IF q.prefillChunk
                     THEN q.computed < q.tokens /\ q.placeholders = 0
                     ELSE q.computed = q.tokens + q.placeholders - 1
       /\ n # 0 => \/ q.computed + n < q.tokens /\ q.placeholders = 0 /\ spec = 0
                   \/ q.computed + n = q.tokens + q.placeholders + spec

Sent(r) == Total(SentOf(batchQueue, r))
Stale(r) == Total(StaleOf(batchQueue, r))
Outs(r) == Total(OutsOf(batchQueue, r))
CountedNow(r) ==
  Counted(req[r], r, loop.toks[r], loop.spec[r], Sent(r), Stale(r), Outs(r))

(* What PickRunning has decided stays possible until it is allocated. *)
WantFits ==
  LET q == req[Current] IN
  /\ loop.want \in Nat /\ 1 <= loop.want /\ loop.want <= loop.budget
  /\ loop.want <= q.tokens + q.spec + q.placeholders - q.computed
  /\ q.computed + loop.want <= MaxModelLen - 1

LoopExact ==
  /\ loop.budget \in Nat
  /\ loop.toks \in [Requests -> Nat] /\ loop.spec \in [Requests -> Nat]
  /\ loop.fresh \in [Requests -> Nat]
  /\ pc \in {"running", "alloc"} =>
       \A r \in Requests : loop.fresh[r] = 0 /\ (loop.toks[r] > 0 => r \in loop.seen)
  /\ pc = "alloc" => WantFits
  /\ pc \notin {"idle", "process"} => Total(loop.toks) + loop.budget = TokenBudget

Counts == QueueOK(batchQueue) /\ LoopExact /\ \A r \in Requests : CountedNow(r)

(* A request that a step does not touch *)
LEMMA KeepCounted ==
  ASSUME NEW r \in Requests, CountedNow(r), req'[r] = req[r],
         loop'.toks[r] = loop.toks[r], loop'.spec[r] = loop.spec[r],
         Sent(r)' = Sent(r), Stale(r)' = Stale(r), Outs(r)' = Outs(r)
  PROVE  CountedNow(r)'
  BY DEF CountedNow

(* A step that leaves the batches in flight alone *)
LEMMA KeepSums ==
  ASSUME batchQueue' = batchQueue
  PROVE  /\ \A r \in Requests : Sent(r)' = Sent(r) /\ Stale(r)' = Stale(r) /\ Outs(r)' = Outs(r)
         /\ QueueOK(batchQueue) => QueueOK(batchQueue')
  BY DEF Sent, Stale, Outs

(* Between the calls of schedule() *)
LEMMA NoLoopExact ==
  ASSUME Base, pc \in {"idle", "process"}
  PROVE  /\ loop = NoLoop /\ \A r \in Requests : loop.toks[r] = 0 /\ loop.spec[r] = 0 /\ loop.fresh[r] = 0
         /\ loop.toks = Zero /\ loop.spec = Zero /\ loop.fresh = Zero /\ loop.budget = 0
  <1>1. loop = NoLoop
    BY DEF Base, Cursor
  <1>. QED  BY <1>1, NoLoopType DEF Zero

(* Between two calls of schedule() there is no loop to be exact about. *)
LEMMA KeepNoLoop ==
  ASSUME Base, LoopExact, pc \in {"idle", "process"}, pc' \in {"idle", "process"}, loop' = loop
  PROVE  LoopExact'
  BY DEF LoopExact

(* add_request keeps Counts. *)
LEMMA AddRequestCounts ==
  ASSUME Base, Counts, NEW r \in Requests, AddRequest(r)
  PROVE  Counts'
  <1>1. /\ pc = "idle" /\ pc' = "idle" /\ loop' = loop /\ batchQueue' = batchQueue
        /\ req[r].status = "NONE" /\ req' = [req EXCEPT ![r].status = "WAITING"]
    BY DEF AddRequest
  <1>2. Types /\ QueueOK(batchQueue) /\ LoopExact /\ \A s \in Requests : CountedNow(s)
    BY DEF Base, Counts
  <1>3. \A s \in Requests \ {r} : req'[s] = req[s]
    BY <1>1, <1>2, StatusUpdate DEF Statuses
  <1>4. \A s \in Requests \ {r} : CountedNow(s)'
    BY <1>1, <1>2, <1>3, KeepSums, KeepCounted
  <1>5. CountedNow(r)'
    <2>. DEFINE q == req[r]
                w == req'[r]
    <2>1. w = [status |-> "WAITING", tokens |-> q.tokens, computed |-> q.computed,
              inFlight |-> q.inFlight, stale |-> q.stale,
              dropStale |-> q.dropStale, placeholders |-> q.placeholders,
              spec |-> q.spec, lastSeq |-> q.lastSeq,
              prefillChunk |-> q.prefillChunk, notBefore |-> q.notBefore]
      BY <1>1, <1>2, StatusUpdate DEF Statuses
    <2>2. q.status = "NONE" /\ Counted(q, r, loop.toks[r], loop.spec[r], Sent(r), Stale(r), Outs(r))
      BY <1>1, <1>2 DEF CountedNow
    <2>. HIDE DEF q, w
    <2>3. q = NewRequest(r) /\ Sent(r) = 0 /\ Stale(r) = 0 /\ Outs(r) = 0 /\ loop.toks[r] = 0
      BY <2>2 DEF Counted
    <2>4. /\ w.status = "WAITING" /\ w.tokens = PromptLen[r] /\ w.computed = 0 /\ w.inFlight = 0
          /\ w.stale = 0 /\ w.placeholders = 0 /\ w.spec = 0
      BY <2>1, <2>3 DEF NewRequest
    <2>5. PromptLen[r] \in Nat /\ MaxTokens[r] \in Nat \ {0} /\ PromptLen[r] <= MaxModelLen - 1
          /\ MaxModelLen \in Nat
      BY Numbers
    <2>6. Counted(w, r, 0, loop.spec[r], 0, 0, 0)
      BY <2>4, <2>5 DEF Counted
    <2>. QED  BY <1>1, <2>3, <2>6, KeepSums DEF CountedNow, w
  <1>6. LoopExact'
    BY <1>1, <1>2, KeepNoLoop
  <1>. QED  BY <1>1, <1>2, <1>4, <1>5, <1>6, KeepSums DEF Counts

(* A request that has ended counts nothing. *)
LEMMA FinishedCounted ==
  ASSUME NEW r \in Requests, NEW seq \in Nat, NEW q \in RequestType(seq), NEW spec, NEW sent,
         NEW stale, NEW outs
  PROVE  Counted(Finished(q, r), r, 0, spec, sent, stale, outs)
  <1>. DEFINE w == Finished(q, r)
  <1>1. /\ w.status = "FINISHED" /\ w.tokens = PromptLen[r] /\ w.computed = 0 /\ w.inFlight = 0
        /\ w.stale = 0 /\ w.placeholders = 0
    BY FinishedIs
  <1>2. PromptLen[r] \in Nat
    BY Numbers
  <1>. HIDE DEF w
  <1>3. Counted(w, r, 0, spec, sent, stale, outs)
    BY <1>1, <1>2 DEF Counted
  <1>. QED  BY <1>3 DEF w

(* finish_requests keeps Counts. *)
LEMMA FinishRequestCounts ==
  ASSUME Base, Counts, NEW r \in Requests, FinishRequest(r)
  PROVE  Counts'
  <1>1. /\ pc \in {"idle", "process"} /\ pc' = pc /\ loop' = loop /\ batchQueue' = batchQueue
        /\ req' = [req EXCEPT ![r] = Finished(req[r], r)]
    BY DEF FinishRequest
  <1>2. Types /\ QueueOK(batchQueue) /\ LoopExact /\ \A s \in Requests : CountedNow(s)
    BY DEF Base, Counts
  <1>3. req'[r] = Finished(req[r], r) /\ \A s \in Requests \ {r} : req'[s] = req[s]
    BY <1>1, <1>2 DEF Types
  <1>4. \A s \in Requests \ {r} : CountedNow(s)'
    BY <1>1, <1>2, <1>3, KeepSums, KeepCounted
  <1>5. CountedNow(r)'
    <2>. DEFINE q == req[r]
    <2>1. q \in RequestType(schedSeq) /\ schedSeq \in Nat
      BY <1>2 DEF Types
    <2>. HIDE DEF q
    <2>2. Counted(Finished(q, r), r, 0, loop.spec[r], Sent(r), Stale(r), Outs(r))
      BY <2>1, FinishedCounted
    <2>3. loop.toks[r] = 0 /\ req'[r] = Finished(q, r)
      BY <1>1, <1>3, NoLoopExact DEF q
    <2>. QED  BY <1>1, <2>2, <2>3, KeepSums DEF CountedNow
  <1>6. LoopExact'
    BY <1>1, <1>2, KeepNoLoop
  <1>. QED  BY <1>1, <1>2, <1>4, <1>5, <1>6, KeepSums DEF Counts

(* A preempted request has only stale tokens in flight. *)
LEMMA PreemptedCounted ==
  ASSUME NEW r \in Requests, NEW seq, NEW q \in RequestType(seq), NEW drop, drop \in BOOLEAN,
         NEW n, NEW spec, NEW spec2, NEW sent, NEW stale, NEW outs, q.status = "RUNNING",
         Counted(q, r, n, spec, sent, stale, outs)
  PROVE  Counted(Preempted(q, drop), r, 0, spec2, sent, sent, 0)
  <1>. DEFINE w == Preempted(q, drop)
              d == drop \/ (q.dropStale /\ q.stale > 0)
  <1>1. w = [status |-> "PREEMPTED", tokens |-> q.tokens, computed |-> 0,
             inFlight |-> q.inFlight, stale |-> q.inFlight, dropStale |-> d,
             placeholders |-> 0, spec |-> 0, lastSeq |-> q.lastSeq,
             prefillChunk |-> q.prefillChunk, notBefore |-> q.notBefore]
    BY PreemptedIs
  <1>. HIDE DEF w, d
  <1>2. /\ w.status = "PREEMPTED" /\ w.tokens = q.tokens /\ w.computed = 0
        /\ w.inFlight = q.inFlight /\ w.stale = q.inFlight /\ w.placeholders = 0 /\ w.spec = 0
    BY <1>1
  <1>3. Counted(w, r, 0, spec2, sent, sent, 0)
    BY <1>2 DEF Counted
  <1>. QED  BY <1>3 DEF w

(* What preempting the requests S does to the counts *)
LEMMA PreemptRequestsCounts ==
  ASSUME Base, Counts, NEW s, NEW S, Lists(s, S), S \subseteq ToSet(running), NEW drop,
         drop \in BOOLEAN, PreemptRequests(s, drop), loop' \in LoopType,
         \A r \in S : loop'.toks[r] = 0,
         \A r \in Requests \ S : loop'.toks[r] = loop.toks[r] /\ loop'.spec[r] = loop.spec[r]
  PROVE  QueueOK(batchQueue') /\ \A r \in Requests : CountedNow(r)'
  <1>1. /\ \A r \in S : req'[r] = Preempted(req[r], drop) /\ req[r].status = "RUNNING"
        /\ \A r \in Requests \ S : req'[r] = req[r]
        /\ S \in SUBSET Requests /\ batchQueue' = MarkOld(S) /\ batchQueue' \in Seq(BatchType)
    <2>0. /\ Base /\ Lists(s, S) /\ S \subseteq ToSet(running) /\ drop \in BOOLEAN
          /\ PreemptRequests(s, drop)
      OBVIOUS
    <2>1. /\ S = ToSet(s) /\ S \in SUBSET Requests
          /\ batchQueue' = MarkOld(S) /\ batchQueue' \in Seq(BatchType)
      BY <2>0, PreemptRequestsBase DEF Lists
    <2>1a. req' = [r \in Requests |-> IF r \in S THEN Preempted(req[r], drop) ELSE req[r]]
      BY <2>1 DEF PreemptRequests
    <2>2. \A r \in ToSet(running) : req[r].status = "RUNNING"
      BY QueuesList
    <2>. QED  BY <2>1, <2>1a, <2>2
  <1>2. Types /\ QueueOK(batchQueue) /\ \A r \in Requests : CountedNow(r)
    BY DEF Base, Counts
  <1>. DEFINE Q == batchQueue
              P == batchQueue'
  <1>3. /\ DOMAIN P = DOMAIN Q
        /\ \A i \in DOMAIN Q :
             P[i] = [toks |-> Q[i].toks, spec |-> Q[i].spec, fresh |-> Q[i].fresh,
                     gen |-> Q[i].gen, old |-> Q[i].old \cup S, uses |-> Q[i].uses]
    BY <1>1, <1>2, MarkOldIs
  <1>3a. QueueOK(Q) /\ P \in Seq(BatchType) /\ S \in SUBSET Requests
    BY <1>1, <1>2
  <1>. HIDE DEF Q, P
  <1>4. /\ QueueOK(P)
        /\ \A r \in Requests : SentOf(P, r) = SentOf(Q, r)
        /\ \A r \in S : StaleOf(P, r) = SentOf(Q, r) /\ Total(OutsOf(P, r)) = 0
        /\ \A r \in Requests \ S : StaleOf(P, r) = StaleOf(Q, r) /\ OutsOf(P, r) = OutsOf(Q, r)
    BY ONLY <1>3, <1>3a, SumsMark
  <1>5. /\ \A r \in S : Sent(r)' = Sent(r) /\ Stale(r)' = Sent(r) /\ Outs(r)' = 0
        /\ \A r \in Requests \ S : Sent(r)' = Sent(r) /\ Stale(r)' = Stale(r) /\ Outs(r)' = Outs(r)
    BY <1>1, <1>4 DEF P, Q, Sent, Stale, Outs
  <1>6. \A r \in Requests \ S : CountedNow(r)'
    BY <1>1, <1>2, <1>5, KeepCounted
  <1>7. ASSUME NEW r \in S  PROVE CountedNow(r)'
    <2>. DEFINE q == req[r]
    <2>1. /\ q \in RequestType(schedSeq) /\ r \in Requests /\ q.status = "RUNNING"
          /\ Counted(q, r, loop.toks[r], loop.spec[r], Sent(r), Stale(r), Outs(r))
      BY <1>1, <1>2 DEF Types, CountedNow
    <2>. HIDE DEF q
    <2>2. Counted(Preempted(q, drop), r, 0, loop'.spec[r], Sent(r), Sent(r), 0)
      BY <2>1, PreemptedCounted
    <2>3. req'[r] = Preempted(q, drop) /\ loop'.toks[r] = 0
      BY <1>1 DEF q
    <2>. QED  BY <1>5, <2>2, <2>3 DEF CountedNow
  <1>. QED  BY <1>4, <1>6, <1>7 DEF P

(* reset_prefix_cache keeps Counts. *)
LEMMA ResetCounts ==
  ASSUME Base, Counts, ResetPrefixCache
  PROVE  Counts'
  <1>1. /\ pc = "idle" /\ pc' = pc /\ loop' = loop /\ PreemptRequests(running, TRUE)
        /\ Lists(running, ToSet(running)) /\ loop \in LoopType
    BY QueuesList DEF ResetPrefixCache, Base, Types
  <1>. DEFINE S == ToSet(running)
  <1>2. /\ \A r \in S : loop'.toks[r] = 0
        /\ \A r \in Requests \ S : loop'.toks[r] = loop.toks[r] /\ loop'.spec[r] = loop.spec[r]
    BY <1>1, NoLoopExact, QueuesList
  <1>3. QueueOK(batchQueue') /\ \A r \in Requests : CountedNow(r)'
    BY <1>1, <1>2, PreemptRequestsCounts
  <1>4. LoopExact'
    BY <1>1, KeepNoLoop DEF Counts
  <1>. QED  BY <1>3, <1>4 DEF Counts

(* An empty batch has no tokens. *)
LEMMA TotalOfZero == Zero \in [Requests -> Nat] /\ Total(Zero) = 0
  <1>1. Zero \in [Requests -> Nat] /\ \A r \in Requests : Zero[r] = 0
    BY DEF Zero
  <1>. DEFINE f == Zero
  <1>. HIDE DEF f
  <1>2. f \in [Requests -> Nat] /\ \A r \in Requests : f[r] = 0
    BY <1>1 DEF f
  <1>3. Total(f) = 0
    BY ONLY <1>2, TotalZero
  <1>. QED  BY <1>1, <1>3 DEF f

(* A step that keeps the requests and the batches, and what the loop has   *)
(* given to each request                                                   *)
LEMMA KeepAllCounted ==
  ASSUME Counts, req' = req, batchQueue' = batchQueue, loop'.toks = loop.toks,
         loop'.spec = loop.spec
  PROVE  QueueOK(batchQueue') /\ \A r \in Requests : CountedNow(r)'
  BY KeepSums, KeepCounted DEF Counts

(* The start of schedule() keeps Counts. *)
LEMMA StartScheduleCounts ==
  ASSUME Base, Counts, StartSchedule
  PROVE  Counts'
  <1>1. Types /\ QueueOK(batchQueue) /\ LoopExact /\ \A s \in Requests : CountedNow(s)
    BY DEF Base, Counts
  <1>2. /\ pc = "idle" /\ pc' = "running" /\ loop = NoLoop /\ loop \in LoopType
        /\ loop' = [loop EXCEPT !.budget = TokenBudget]
        /\ req' = [r \in Requests |-> [req[r] EXCEPT !.notBefore = MaxOf(@ - 1, 0)]]
        /\ batchQueue' = batchQueue
    BY <1>1, NoLoopExact DEF StartSchedule, Types
  <1>3. /\ loop'.budget = TokenBudget /\ loop'.toks = loop.toks /\ loop'.spec = loop.spec
        /\ loop'.fresh = loop.fresh
    BY <1>2 DEF LoopType
  <1>4. ASSUME NEW r \in Requests  PROVE CountedNow(r)'
    <2>. DEFINE q == req[r]
                w == req'[r]
                m == MaxOf(q.notBefore - 1, 0)
    <2>1. q \in RequestType(schedSeq) /\ w = [q EXCEPT !.notBefore = m]
      BY <1>1, <1>2 DEF Types
    <2>2. CountedNow(r)
      BY <1>1
    <2>3. q.status # "NONE" \/ (m = 0 /\ q = NewRequest(r))
      BY <2>2 DEF CountedNow, Counted, NewRequest, MaxOf
    <2>. HIDE DEF q, w, m
    <2>4. /\ w.status = q.status /\ w.tokens = q.tokens /\ w.computed = q.computed
          /\ w.inFlight = q.inFlight /\ w.stale = q.stale /\ w.placeholders = q.placeholders
          /\ w.spec = q.spec /\ w.dropStale = q.dropStale /\ w.prefillChunk = q.prefillChunk
      BY <2>1 DEF RequestType
    <2>5. q.status = "NONE" => w = NewRequest(r)
      <3>1. q.status = "NONE" => q = NewRequest(r) /\ m = 0
        BY <2>3
      <3>2. NewRequest(r).notBefore = 0
        BY DEF NewRequest
      <3>3. q.notBefore = m => w = q
        BY <2>1 DEF RequestType
      <3>. QED  BY <3>1, <3>2, <3>3
    <2>6. Counted(q, r, loop.toks[r], loop.spec[r], Sent(r), Stale(r), Outs(r))
      BY <2>2 DEF CountedNow, q
    <2>7. Counted(w, r, loop.toks[r], loop.spec[r], Sent(r), Stale(r), Outs(r))
      BY <2>4, <2>5, <2>6 DEF Counted
    <2>. QED  BY <1>2, <1>3, <2>7, KeepSums DEF CountedNow, w
  <1>5. LoopExact'
    <2>1. /\ loop.toks = Zero /\ loop.spec = Zero /\ loop.fresh = Zero
          /\ \A r \in Requests : loop.toks[r] = 0 /\ loop.fresh[r] = 0
      BY <1>2, NoLoopExact
    <2>2. TokenBudget \in Nat /\ Total(Zero) = 0 /\ Zero \in [Requests -> Nat] /\ 0 + TokenBudget = TokenBudget
      BY Numbers, TotalOfZero
    <2>. QED  BY <1>2, <1>3, <2>1, <2>2 DEF LoopExact
  <1>. QED  BY <1>1, <1>2, <1>4, <1>5, KeepSums DEF Counts

(* Waiting for the last batches keeps Counts. *)
LEMMA StartDrainCounts ==
  ASSUME Base, Counts, StartDrain
  PROVE  Counts'
  <1>1. pc = "idle" /\ pc' = "process" /\ req' = req /\ batchQueue' = batchQueue /\ loop' = loop
    BY DEF StartDrain
  <1>2. QueueOK(batchQueue') /\ \A r \in Requests : CountedNow(r)'
    BY <1>1, KeepAllCounted
  <1>3. LoopExact'
    BY <1>1, KeepNoLoop DEF Counts
  <1>. QED  BY <1>2, <1>3 DEF Counts

(* The loop has not scheduled the request it is looking at. *)
LEMMA CurrentUnscheduled ==
  ASSUME Base, LoopExact, pc \in {"running", "alloc"}, loop.idx < Len(running)
  PROVE  loop.toks[Current] = 0 /\ Current \notin loop.seen
  <1>1. /\ loop.idx + 1 \in 1..Len(running) /\ loop.idx \in Nat /\ DOMAIN running = 1..Len(running)
        /\ Current \in Requests /\ Current \in ToSet(running) /\ Len(running) \in Nat
    BY CurrentRuns
  <1>2. IsInjective(running)
    BY QueuesList DEF Lists
  <1>3. \A i \in 1..loop.idx : running[i] # Current
    <2>. SUFFICES ASSUME NEW i \in 1..loop.idx, running[i] = running[loop.idx + 1]  PROVE FALSE
      BY DEF Current
    <2>1. i \in DOMAIN running /\ loop.idx + 1 \in DOMAIN running /\ i # loop.idx + 1
      BY <1>1
    <2>. QED  BY <1>2, <2>1 DEF IsInjective
  <1>4. loop.seen \cap ToSet(running) = {running[i] : i \in 1..loop.idx}
    BY DEF Base, Cursor
  <1>5. Current \notin loop.seen
    BY <1>1, <1>3, <1>4
  <1>. QED  BY <1>1, <1>5 DEF LoopExact

(* Passing over a running request keeps Counts. *)
LEMMA SkipRunningCounts ==
  ASSUME Base, Counts, SkipRunning
  PROVE  Counts'
  <1>1. loop \in LoopType /\ LoopExact
    BY DEF Base, Types, Counts
  <1>. DEFINE i == loop.idx + 1
              seen == loop.seen \cup {Current}
  <1>2. /\ pc = "running" /\ pc' = pc /\ req' = req /\ batchQueue' = batchQueue
        /\ loop' = [loop EXCEPT !.idx = i, !.seen = seen]
    BY DEF SkipRunning
  <1>3. loop.seen \subseteq seen
    OBVIOUS
  <1>. HIDE DEF i, seen
  <1>4. /\ loop'.toks = loop.toks /\ loop'.spec = loop.spec /\ loop'.fresh = loop.fresh
        /\ loop'.budget = loop.budget /\ loop'.seen = seen
    BY <1>1, <1>2 DEF LoopType
  <1>5. QueueOK(batchQueue') /\ \A r \in Requests : CountedNow(r)'
    BY <1>2, <1>4, KeepAllCounted
  <1>6. LoopExact'
    BY <1>1, <1>2, <1>3, <1>4 DEF LoopExact
  <1>. QED  BY <1>5, <1>6 DEF Counts

(* num_new_tokens is never negative: the counts of a running request are   *)
(* ahead of its tokens by exactly what is in flight.                       *)
LEMMA PickRunningCounts ==
  ASSUME Base, Counts, PickRunning
  PROVE  Counts'
  <1>1. loop \in LoopType /\ LoopExact /\ Types /\ \A r \in Requests : CountedNow(r)
    BY DEF Base, Types, Counts
  <1>. DEFINE r == Current
              q == req[r]
              n == NumNewTokens(q)
  <1>2. /\ pc = "running" /\ pc' = "alloc" /\ req' = req /\ batchQueue' = batchQueue
        /\ loop.idx < Len(running) /\ loop.budget > 0 /\ n # 0
        /\ loop' = [loop EXCEPT !.want = n] /\ running' = running
    BY DEF PickRunning, InRunningLoop, NothingToRun
  <1>3. /\ r \in Requests /\ q.status = "RUNNING" /\ q \in RequestType(schedSeq)
        /\ loop.toks[r] = 0
    BY <1>1, <1>2, CurrentRuns, CurrentUnscheduled
  <1>4. Counted(q, r, 0, loop.spec[r], Sent(r), Stale(r), Outs(r))
    BY <1>1, <1>3 DEF CountedNow
  <1>5. n = MinOf(MinOf(q.tokens + q.spec + q.placeholders - q.computed, loop.budget),
                  MaxModelLen - q.computed - 1)
    BY DEF NumNewTokens
  <1>6. loop.budget \in Nat /\ MaxModelLen \in Nat /\ q.spec \in Nat
    BY <1>1, <1>3, Numbers DEF LoopExact, RequestType
  <1>. HIDE DEF q, n
  <1>7. /\ q.tokens \in Nat /\ q.placeholders \in Nat /\ q.computed \in Nat
        /\ q.computed <= MaxModelLen - 1
        /\ q.tokens + q.placeholders - q.computed >= 1
    BY <1>3, <1>4 DEF Counted
  <1>8. /\ n \in Nat /\ 1 <= n /\ n <= loop.budget
        /\ n <= q.tokens + q.spec + q.placeholders - q.computed
        /\ q.computed + n <= MaxModelLen - 1
    <2>. DEFINE x == q.tokens + q.spec + q.placeholders - q.computed
                y == MaxModelLen - q.computed - 1
                b == loop.budget
    <2>0. b > 0
      BY <1>2
    <2>1. /\ x \in Int /\ y \in Int /\ b \in Int /\ x >= 1 /\ y >= 0 /\ b >= 1
          /\ q.computed \in Nat /\ MaxModelLen \in Nat
      BY <2>0, <1>6, <1>7
    <2>2. n = MinOf(MinOf(x, b), y) /\ n # 0
      BY <1>2, <1>5
    <2>3. n \in Nat /\ 1 <= n /\ n <= b /\ n <= x /\ q.computed + n <= MaxModelLen - 1
      <3>. DEFINE c == q.computed
      <3>1. y = MaxModelLen - c - 1 /\ c \in Nat /\ MaxModelLen \in Nat
        BY <2>1
      <3>. HIDE DEF x, y, b, c
      <3>2. n \in Int /\ n >= 1 /\ n <= b /\ n <= x /\ n <= y
        BY <2>1, <2>2 DEF MinOf
      <3>. QED  BY <3>1, <3>2 DEF c
    <2>. QED  BY <2>3
  <1>9. /\ loop'.toks = loop.toks /\ loop'.spec = loop.spec /\ loop'.fresh = loop.fresh
        /\ loop'.budget = loop.budget /\ loop'.seen = loop.seen /\ loop'.idx = loop.idx
        /\ loop'.want = n
    BY <1>1, <1>2 DEF LoopType
  <1>10. QueueOK(batchQueue') /\ \A s \in Requests : CountedNow(s)'
    BY <1>2, <1>9, KeepAllCounted
  <1>11. WantFits'
    <2>1. Current' = r /\ req'[r] = q
      BY <1>2, <1>9 DEF Current, q
    <2>. HIDE DEF r
    <2>. QED  BY <1>8, <1>9, <2>1 DEF WantFits
  <1>12. LoopExact'
    BY <1>1, <1>2, <1>9, <1>11 DEF LoopExact
  <1>. QED  BY <1>10, <1>12 DEF Counts

(* The end of the running loop keeps Counts. *)
LEMMA EndRunningCounts ==
  ASSUME Base, Counts, EndRunning
  PROVE  Counts'
  <1>1. pc = "running" /\ pc' \in {"end", "waiting"} /\ req' = req /\ batchQueue' = batchQueue /\ loop' = loop
    BY DEF EndRunning
  <1>2. QueueOK(batchQueue') /\ \A r \in Requests : CountedNow(r)'
    BY <1>1, KeepAllCounted
  <1>3. LoopExact'
    BY <1>1 DEF Counts, LoopExact
  <1>. QED  BY <1>2, <1>3 DEF Counts

(* Skipping a waiting request, or ending the loop, keeps Counts. *)
LEMMA SkipWaitingCounts ==
  ASSUME Base, Counts, SkipWaiting \/ EndWaiting
  PROVE  Counts'
  <1>1. loop \in LoopType /\ LoopExact
    BY DEF Base, Types, Counts
  <1>2. PICK sk : loop' = [loop EXCEPT !.stepSkipped = sk]
    BY DEF SkipWaiting, EndWaiting
  <1>3. pc = "waiting" /\ pc' \in {"end", "waiting"} /\ req' = req /\ batchQueue' = batchQueue
    BY DEF SkipWaiting, EndWaiting
  <1>4. /\ loop'.toks = loop.toks /\ loop'.spec = loop.spec /\ loop'.fresh = loop.fresh
        /\ loop'.budget = loop.budget
    BY <1>1, <1>2 DEF LoopType
  <1>5. QueueOK(batchQueue') /\ \A r \in Requests : CountedNow(r)'
    BY <1>3, <1>4, KeepAllCounted
  <1>6. LoopExact'
    BY <1>1, <1>3, <1>4 DEF LoopExact
  <1>. QED  BY <1>5, <1>6 DEF Counts

(* What the loop gives to one request changes the sum of what it gives. *)
LEMMA TotalSet ==
  ASSUME NEW f, f \in [Requests -> Nat], NEW r \in Requests, NEW n \in Nat
  PROVE  /\ [f EXCEPT ![r] = n] \in [Requests -> Nat]
         /\ [f EXCEPT ![r] = n][r] = n
         /\ \A s \in Requests \ {r} : [f EXCEPT ![r] = n][s] = f[s]
         /\ Total([f EXCEPT ![r] = n]) = Total(f) - f[r] + n
         /\ Total(f) \in Nat /\ f[r] \in Nat /\ f[r] <= Total(f)
  <1>. DEFINE g == [f EXCEPT ![r] = n]
  <1>1. /\ g \in [Requests -> Nat] /\ g[r] = n /\ \A s \in Requests \ {r} : g[s] = f[s]
        /\ IsFiniteSet(Requests) /\ f[r] \in Nat
    BY Finiteness
  <1>. HIDE DEF g
  <1>2. Total(g) = Total(f) - f[r] + g[r]
    BY <1>1, TotalUpdate
  <1>3. Total(f) \in Nat /\ f[r] <= Total(f)
    BY <1>1, UnitsFinite, TotalAtLeast
  <1>. QED  BY <1>1, <1>2, <1>3 DEF g

(* A running request that gets n more tokens reaches exactly the end of    *)
(* what it has, with the drafts that fit, or stays in its prompt.          *)
LEMMA AllocatedCounted ==
  ASSUME NEW r \in Requests, NEW seq, NEW q \in RequestType(seq), NEW w, NEW n \in Nat, n >= 1,
         n <= q.tokens + q.spec + q.placeholders - q.computed,
         q.computed + n <= MaxModelLen - 1,
         NEW spec, NEW sent, NEW stale, NEW outs, q.status = "RUNNING",
         Counted(q, r, 0, spec, sent, stale, outs),
         w = [status |-> "RUNNING", tokens |-> q.tokens, computed |-> q.computed,
              inFlight |-> q.inFlight, stale |-> q.stale,
              dropStale |-> q.dropStale, placeholders |-> q.placeholders,
              spec |-> 0, lastSeq |-> q.lastSeq,
              prefillChunk |-> q.prefillChunk, notBefore |-> q.notBefore]
  PROVE  /\ Counted(w, r, n, ScheduledSpec(q, n), sent, stale, outs)
         /\ ScheduledSpec(q, n) \in Nat
  <1>. DEFINE sp == ScheduledSpec(q, n)
              t == q.tokens
              c == q.computed
              p == q.placeholders
              d == q.spec
  <1>1. /\ t \in Nat /\ c \in Nat /\ p \in Nat /\ d \in Nat /\ c + n <= MaxModelLen - 1
        /\ MaxModelLen \in Nat
    BY Numbers DEF Counted, RequestType
  <1>2. IF q.prefillChunk THEN c < t /\ p = 0 ELSE c = t + p - 1
    BY DEF Counted
  <1>3. sp = IF d = 0 THEN 0 ELSE MinOf(d, MaxOf(n + c - t - p, 0))
    BY DEF ScheduledSpec
  <1>4. n <= t + d + p - c
    OBVIOUS
  <1>5. /\ w.status = "RUNNING" /\ w.tokens = t /\ w.computed = c /\ w.placeholders = p
        /\ w.inFlight = q.inFlight /\ w.stale = q.stale /\ w.dropStale = q.dropStale
    OBVIOUS
  <1>. HIDE DEF sp, t, c, p, d
  <1>6. sp \in Nat /\ ((c + n < t /\ p = 0 /\ sp = 0) \/ c + n = t + p + sp)
    <2>. DEFINE x == n + c - t - p
    <2>1. x \in Int /\ x <= d /\ x = n + c - t - p
      BY <1>1, <1>4
    <2>2. (x < 0 /\ p = 0 /\ c + n < t) \/ x >= 0
      BY <1>1, <1>2, <1>4
    <2>3. c + n = t + p + x
      BY <1>1
    <2>. HIDE DEF x
    <2>4. CASE x >= 0
      <3>1. sp = x
        BY <1>1, <1>3, <2>1, <2>4 DEF MinOf, MaxOf
      <3>. QED  BY <2>1, <2>3, <2>4, <3>1
    <2>5. CASE x < 0 /\ p = 0 /\ c + n < t
      <3>1. sp = 0
        BY <1>1, <1>3, <2>1, <2>5 DEF MinOf, MaxOf
      <3>. QED  BY <2>5, <3>1
    <2>. QED  BY <2>2, <2>4, <2>5
  <1>7. Counted(w, r, n, sp, sent, stale, outs)
    BY <1>1, <1>5, <1>6 DEF Counted, t, c, p
  <1>. QED  BY <1>6, <1>7 DEF sp

(* Scheduling a running request keeps Counts. *)
LEMMA AllocateRunningCounts ==
  ASSUME Base, Counts, AllocateRunning
  PROVE  Counts'
  <1>. DEFINE r == Current
              q == req[r]
              w == req'[r]
              n == loop.want
              sp == ScheduledSpec(q, n)
  <1>1. loop \in LoopType /\ LoopExact /\ Types /\ QueueOK(batchQueue) /\ \A s \in Requests : CountedNow(s)
    BY DEF Base, Types, Counts
  <1>2. /\ pc = "alloc" /\ pc' = "running" /\ loop.idx < Len(running)
        /\ batchQueue' = batchQueue
        /\ loop'.budget = loop.budget - n
        /\ loop'.seen = loop.seen \cup {r} /\ loop'.toks = [loop.toks EXCEPT ![r] = n]
        /\ loop'.spec = [loop.spec EXCEPT ![r] = sp] /\ loop'.fresh = loop.fresh
        /\ w = [status |-> "RUNNING", tokens |-> q.tokens,
                 computed |-> q.computed,
                 inFlight |-> q.inFlight, stale |-> q.stale,
                 dropStale |-> q.dropStale, placeholders |-> q.placeholders,
                 spec |-> 0, lastSeq |-> q.lastSeq,
                 prefillChunk |-> q.prefillChunk, notBefore |-> q.notBefore]
        /\ \A s \in Requests \ {r} : req'[s] = req[s]
    BY AllocateRunningIs
  <1>3. /\ r \in Requests /\ q.status = "RUNNING" /\ q \in RequestType(schedSeq)
        /\ loop.toks[r] = 0
    BY <1>1, <1>2, CurrentRuns, CurrentUnscheduled
  <1>4. Counted(q, r, 0, loop.spec[r], Sent(r), Stale(r), Outs(r))
    BY <1>1, <1>3 DEF CountedNow
  <1>5. /\ n \in Nat /\ 1 <= n /\ n <= loop.budget
        /\ n <= q.tokens + q.spec + q.placeholders - q.computed
        /\ q.computed + n <= MaxModelLen - 1
    BY <1>1, <1>2 DEF LoopExact, WantFits
  <1>. HIDE DEF r, q, w, n
  <1>6. Counted(w, r, n, sp, Sent(r), Stale(r), Outs(r)) /\ sp \in Nat
    BY <1>2, <1>3, <1>4, <1>5, AllocatedCounted
  <1>. HIDE DEF sp
  <1>. DEFINE T == [loop.toks EXCEPT ![r] = n]
              P == [loop.spec EXCEPT ![r] = sp]
  <1>7. /\ T \in [Requests -> Nat] /\ T[r] = n /\ \A s \in Requests \ {r} : T[s] = loop.toks[s]
        /\ Total(T) = Total(loop.toks) + n /\ Total(loop.toks) \in Nat
    BY <1>1, <1>3, <1>5, TotalSet DEF LoopExact
  <1>8. P \in [Requests -> Nat] /\ P[r] = sp /\ \A s \in Requests \ {r} : P[s] = loop.spec[s]
    BY <1>1, <1>3, <1>6, TotalSet DEF LoopExact
  <1>. HIDE DEF T, P
  <1>9. loop'.toks = T /\ loop'.spec = P
    BY <1>2 DEF T, P
  <1>10. \A s \in Requests : s = r => CountedNow(s)'
    <2>1. req'[r] = w /\ loop'.toks[r] = n /\ loop'.spec[r] = sp
      BY <1>7, <1>8, <1>9 DEF w
    <2>2. \A s \in Requests : Sent(s)' = Sent(s) /\ Stale(s)' = Stale(s) /\ Outs(s)' = Outs(s)
      BY <1>2, KeepSums
    <2>3. \A s \in Requests : CountedNow(s)' <=>
            Counted(req'[s], s, loop'.toks[s], loop'.spec[s], Sent(s)', Stale(s)', Outs(s)')
      BY DEF CountedNow
    <2>. QED  BY <1>3, <1>6, <2>1, <2>2, <2>3
  <1>11. \A s \in Requests \ {r} : CountedNow(s)'
    BY <1>1, <1>2, <1>7, <1>8, <1>9, KeepSums, KeepCounted
  <1>12. LoopExact'
    <2>1. loop'.budget \in Nat /\ Total(loop'.toks) + loop'.budget = TokenBudget
      <3>1. Total(loop.toks) + loop.budget = TokenBudget /\ loop.budget \in Nat
        BY <1>1, <1>2 DEF LoopExact
      <3>. DEFINE b == loop.budget
                  X == Total(loop.toks)
      <3>2. b \in Nat /\ X \in Nat /\ X + b = TokenBudget /\ n \in Nat /\ n <= b
        BY <1>5, <1>7, <3>1
      <3>3. loop'.budget = b - n /\ Total(loop'.toks) = X + n
        BY <1>2, <1>7, <1>9
      <3>. HIDE DEF b, X
      <3>. QED  BY <3>2, <3>3
    <2>2. \A s \in Requests : loop'.fresh[s] = 0 /\ (loop'.toks[s] > 0 => s \in loop'.seen)
      BY <1>1, <1>2, <1>7, <1>9 DEF LoopExact
    <2>. QED  BY <1>1, <1>2, <1>7, <1>8, <1>9, <2>1, <2>2 DEF LoopExact
  <1>. QED  BY <1>1, <1>2, <1>10, <1>11, <1>12, KeepSums DEF Counts

(* A preemption in the running loop keeps Counts. *)
LEMMA PreemptForRunningCounts ==
  ASSUME Base, Counts, PreemptForRunning
  PROVE  Counts'
  <1>. DEFINE v == Victim
              s == <<v>>
              S == {v}
              c == Current
  <1>1. loop \in LoopType /\ LoopExact /\ Types
    BY DEF Base, Types, Counts
  <1>2. PICK i \in 1..Len(running) :
           /\ running[i] = v /\ v \in Requests /\ v \in ToSet(running)
           /\ pc = "alloc" /\ pc' = IF v = c THEN "end" ELSE "alloc"
           /\ PreemptRequests(s, RequiresKVDelivery)
           /\ running' = Without(running, {v})
           /\ loop' \in LoopType
           /\ loop'.idx = IF i <= loop.idx THEN loop.idx - 1 ELSE loop.idx
           /\ loop'.want = loop.want /\ loop'.budget = loop.budget + loop.toks[v]
           /\ loop'.seen = loop.seen /\ loop'.toks = [loop.toks EXCEPT ![v] = 0]
           /\ loop'.spec = [loop.spec EXCEPT ![v] = 0] /\ loop'.fresh = loop.fresh
    BY PreemptForRunningIs
  <1>3. v # c => Current' = c
    BY <1>2, CursorAfterPreemption
  <1>4. c \in Requests
    BY <1>2, CurrentRuns DEF Base, Cursor
  <1>5. WantFits
    BY <1>1, <1>2 DEF LoopExact
  <1>6. /\ loop.want \in Nat /\ 1 <= loop.want /\ loop.want <= loop.budget
        /\ loop.want <= req[c].tokens + req[c].spec + req[c].placeholders - req[c].computed
        /\ req[c].computed + loop.want <= MaxModelLen - 1
    BY <1>5 DEF WantFits
  <1>. HIDE DEF v, c
  <1>7. Lists(s, S)
    BY <1>2 DEF Lists, IsInjective, ToSet
  <1>8. S \subseteq ToSet(running) /\ RequiresKVDelivery \in BOOLEAN
    BY <1>2, SchedulerAssumption
  <1>. DEFINE T == [loop.toks EXCEPT ![v] = 0]
              P == [loop.spec EXCEPT ![v] = 0]
  <1>9. /\ T \in [Requests -> Nat] /\ T[v] = 0 /\ \A u \in Requests \ {v} : T[u] = loop.toks[u]
        /\ Total(T) = Total(loop.toks) - loop.toks[v] + 0 /\ Total(loop.toks) \in Nat
        /\ loop.toks[v] \in Nat
    <2>1. loop.toks \in [Requests -> Nat] /\ v \in Requests /\ 0 \in Nat
      BY <1>1, <1>2 DEF LoopExact
    <2>. QED  BY ONLY <2>1, TotalSet
  <1>10. P \in [Requests -> Nat] /\ P[v] = 0 /\ \A u \in Requests \ {v} : P[u] = loop.spec[u]
    <2>1. loop.spec \in [Requests -> Nat] /\ v \in Requests /\ 0 \in Nat
      BY <1>1, <1>2 DEF LoopExact
    <2>. QED  BY ONLY <2>1, TotalSet
  <1>. HIDE DEF T, P
  <1>11. loop'.toks = T /\ loop'.spec = P
    BY <1>2 DEF T, P
  <1>12. /\ \A u \in S : loop'.toks[u] = 0
         /\ \A u \in Requests \ S : loop'.toks[u] = loop.toks[u] /\ loop'.spec[u] = loop.spec[u]
    BY <1>9, <1>10, <1>11
  <1>. HIDE DEF s, S
  <1>13. QueueOK(batchQueue') /\ \A r \in Requests : CountedNow(r)'
    BY <1>2, <1>7, <1>8, <1>12, PreemptRequestsCounts
  <1>14. /\ loop'.budget \in Nat /\ Total(loop'.toks) + loop'.budget = TokenBudget
         /\ loop.budget <= loop'.budget
    <2>. DEFINE b == loop.budget
                X == Total(loop.toks)
                n == loop.toks[v]
    <2>1. b \in Nat /\ X \in Nat /\ X + b = TokenBudget /\ n \in Nat
      BY <1>1, <1>2, <1>9 DEF LoopExact
    <2>2. loop'.budget = b + n /\ Total(loop'.toks) = X - n + 0
      BY <1>2, <1>9, <1>11
    <2>. HIDE DEF b, X, n
    <2>3. loop'.budget \in Nat /\ Total(loop'.toks) + loop'.budget = TokenBudget /\ b <= loop'.budget
      BY <2>1, <2>2
    <2>. QED  BY <2>3 DEF b
  <1>15. \A u \in Requests : loop'.fresh[u] = 0 /\ (loop'.toks[u] > 0 => u \in loop'.seen)
    BY <1>1, <1>2, <1>9, <1>11 DEF LoopExact
  <1>16. v # c => WantFits'
    <2>. SUFFICES ASSUME v # c  PROVE WantFits'
      OBVIOUS
    <2>1. req'[c] = req[c]
      <3>1. Base /\ Lists(s, S) /\ S \subseteq ToSet(running) /\ PreemptRequests(s, RequiresKVDelivery)
        BY <1>2, <1>7, <1>8
      <3>2. \A u \in Requests : u \notin S => req'[u] = req[u]
        BY <1>8, <3>1, PreemptRequestsSpares
      <3>. QED  BY <1>4, <3>2 DEF S
    <2>2. \A x \in Requests : x = Current' => req'[x] = req[c]
      BY <1>3, <2>1
    <2>3. /\ loop'.want = loop.want /\ loop'.want \in Nat /\ loop.budget \in Nat /\ Current' = c
      BY <1>1, <1>2, <1>3, <1>6 DEF LoopExact
    <2>4. loop'.want <= loop'.budget
      BY <1>6, <1>14, <2>3
    <2>. DEFINE q == req'[c]
    <2>5. /\ loop'.want \in Nat /\ 1 <= loop'.want /\ loop'.want <= loop'.budget
          /\ loop'.want <= q.tokens + q.spec + q.placeholders - q.computed
          /\ q.computed + loop'.want <= MaxModelLen - 1
      BY <1>6, <2>1, <2>3, <2>4
    <2>6. q = req'[Current']
      BY <2>3
    <2>. HIDE DEF q
    <2>. QED  BY <2>5, <2>6 DEF WantFits
  <1>17. LoopExact'
    BY <1>1, <1>2, <1>9, <1>10, <1>11, <1>14, <1>15, <1>16 DEF LoopExact
  <1>. QED  BY <1>13, <1>17 DEF Counts

(* A waiting request has no counts of its own: its first tokens end at its *)
(* last token, with the padded drafts, or inside its prompt.               *)
LEMMA AdmittedCounted ==
  ASSUME NEW r \in Requests, NEW seq, NEW q \in RequestType(seq), NEW w, NEW n \in Nat,
         NEW sp \in Nat, NEW pad, pad \in BOOLEAN, NEW b \in Nat,
         b > 0, pad => q.tokens = 1 /\ n = 1 + NumSpec /\ sp = NumSpec /\ 2 + NumSpec <= MaxModelLen,
         ~pad => n = MinOf(q.tokens, b) /\ sp = 0,
         NEW spec, NEW sent, NEW stale, NEW outs, q.status \in {"WAITING", "PREEMPTED"},
         ~AwaitsStaleOutput(q), Counted(q, r, 0, spec, sent, stale, outs),
         w = [status |-> "RUNNING", tokens |-> q.tokens, computed |-> q.computed,
              inFlight |-> q.inFlight, stale |-> q.stale,
              dropStale |-> q.dropStale, placeholders |-> q.placeholders,
              spec |-> q.spec, lastSeq |-> q.lastSeq,
              prefillChunk |-> q.prefillChunk, notBefore |-> q.notBefore]
  PROVE  Counted(w, r, n, sp, sent, stale, outs) /\ n >= 1
  <1>. DEFINE t == q.tokens
  <1>1. /\ t \in Nat /\ t >= 1 /\ t < MaxModelLen /\ MaxModelLen \in Nat /\ NumSpec \in Nat
        /\ q.computed = 0 /\ q.placeholders = 0 /\ q.stale \in Nat
    BY Numbers DEF Counted
  <1>2. /\ w.status = "RUNNING" /\ w.tokens = t /\ w.computed = q.computed
        /\ w.placeholders = q.placeholders
        /\ w.inFlight = q.inFlight /\ w.stale = q.stale /\ w.dropStale = q.dropStale
    OBVIOUS
  <1>3. w.stale = 0 \/ w.dropStale
    BY <1>1, <1>2 DEF AwaitsStaleOutput
  <1>. HIDE DEF t
  <1>4. n >= 1 /\ n <= MaxModelLen - 1 /\ ((n < t /\ sp = 0) \/ n = t + sp)
    <2>1. CASE pad
      BY <1>1, <2>1 DEF t
    <2>2. CASE ~pad
      <3>1. n = MinOf(t, b) /\ sp = 0
        BY <2>2 DEF t
      <3>. QED  BY <1>1, <3>1 DEF MinOf
    <2>. QED  BY <2>1, <2>2
  <1>5. 0 + n = n /\ t + 0 + sp = t + sp /\ n # 0
    BY <1>1, <1>4
  <1>6. Counted(w, r, n, sp, sent, stale, outs)
    BY <1>1, <1>2, <1>3, <1>4, <1>5 DEF Counted, t
  <1>. QED  BY <1>4, <1>6

(* Admitting a waiting request keeps Counts. *)
LEMMA AdmitWaitingCounts ==
  ASSUME Base, Counts, AdmitWaiting
  PROVE  Counts'
  <1>. DEFINE r == NextWaiting
              q == req[r]
              w == req'[r]
              pad == PadSpecDecode(r)
              n == AdmitTokens(r)
              sp == IF pad THEN NumSpec ELSE 0
              b == loop.budget
  <1>1. loop \in LoopType /\ LoopExact /\ Types /\ QueueOK(batchQueue) /\ \A s \in Requests : CountedNow(s)
    BY DEF Base, Types, Counts
  <1>2. /\ pc = "waiting" /\ pc' = pc /\ batchQueue' = batchQueue /\ r \in Requests
        /\ q.status \in {"WAITING", "PREEMPTED"} /\ ~AwaitsStaleOutput(q) /\ CanAdmit(r)
        /\ req' = [req EXCEPT ![r].status = "RUNNING"]
        /\ loop'.budget = b - n
        /\ loop'.toks = [loop.toks EXCEPT ![r] = n]
        /\ loop'.spec = [loop.spec EXCEPT ![r] = sp]
        /\ loop'.fresh = [loop.fresh EXCEPT ![r] = q.tokens]
    BY AdmitWaitingIs
  <1>3. b \in Nat /\ b > 0 /\ q \in RequestType(schedSeq) /\ NumSpec \in Nat
    BY <1>1, <1>2, Numbers DEF AdmitWaiting, InWaitingLoop, LoopExact, Types
  <1>4. /\ pad \in BOOLEAN /\ (pad => q.tokens = 1 /\ 2 + NumSpec <= MaxModelLen /\ 1 + NumSpec <= b)
        /\ n = IF pad THEN 1 + NumSpec ELSE MinOf(q.tokens, b)
    BY <1>2 DEF PadSpecDecode, AdmitTokens, CanAdmit
  <1>5. Counted(q, r, 0, loop.spec[r], Sent(r), Stale(r), Outs(r)) /\ loop.toks[r] = 0
    <2>1. Counted(q, r, loop.toks[r], loop.spec[r], Sent(r), Stale(r), Outs(r))
      BY <1>1, <1>2 DEF CountedNow
    <2>2. loop.toks[r] = 0
      BY <1>2, <2>1 DEF Counted
    <2>. QED  BY <2>1, <2>2
  <1>6. /\ w = [status |-> "RUNNING", tokens |-> q.tokens, computed |-> q.computed,
                inFlight |-> q.inFlight, stale |-> q.stale,
                dropStale |-> q.dropStale, placeholders |-> q.placeholders,
                spec |-> q.spec, lastSeq |-> q.lastSeq,
                prefillChunk |-> q.prefillChunk, notBefore |-> q.notBefore]
        /\ \A s \in Requests \ {r} : req'[s] = req[s]
    <2>. HIDE DEF r
    <2>. QED  BY <1>1, <1>2, StatusUpdate DEF Statuses
  <1>. HIDE DEF r, q, w, pad, n, b
  <1>7. q.tokens \in Nat /\ n \in Nat /\ n <= b /\ sp \in Nat
    <2>1. q.tokens \in Nat
      BY <1>5 DEF Counted
    <2>. QED  BY <1>3, <1>4, <2>1 DEF MinOf
  <1>8. /\ pad => q.tokens = 1 /\ n = 1 + NumSpec /\ sp = NumSpec /\ 2 + NumSpec <= MaxModelLen
        /\ ~pad => n = MinOf(q.tokens, b) /\ sp = 0
    BY <1>4
  <1>. HIDE DEF sp
  <1>9. Counted(w, r, n, sp, Sent(r), Stale(r), Outs(r)) /\ n >= 1
    BY <1>2, <1>3, <1>4, <1>5, <1>6, <1>7, <1>8, AdmittedCounted
  <1>. DEFINE T == [loop.toks EXCEPT ![r] = n]
              P == [loop.spec EXCEPT ![r] = sp]
              F == [loop.fresh EXCEPT ![r] = q.tokens]
  <1>10. /\ T \in [Requests -> Nat] /\ T[r] = n /\ \A s \in Requests \ {r} : T[s] = loop.toks[s]
         /\ Total(T) = Total(loop.toks) - 0 + n /\ Total(loop.toks) \in Nat
    BY <1>1, <1>2, <1>5, <1>7, TotalSet DEF LoopExact
  <1>11. P \in [Requests -> Nat] /\ P[r] = sp /\ \A s \in Requests \ {r} : P[s] = loop.spec[s]
    BY <1>1, <1>2, <1>7, TotalSet DEF LoopExact
  <1>12. F \in [Requests -> Nat]
    BY <1>1, <1>2, <1>7, TotalSet DEF LoopExact
  <1>. HIDE DEF T, P, F
  <1>13. loop'.toks = T /\ loop'.spec = P /\ loop'.fresh = F
    BY <1>2 DEF T, P, F
  <1>14. \A s \in Requests : s = r => CountedNow(s)'
    <2>1. req'[r] = w /\ loop'.toks[r] = n /\ loop'.spec[r] = sp
      BY <1>10, <1>11, <1>13 DEF w
    <2>2. \A s \in Requests : Sent(s)' = Sent(s) /\ Stale(s)' = Stale(s) /\ Outs(s)' = Outs(s)
      BY <1>2, KeepSums
    <2>3. \A s \in Requests : CountedNow(s)' <=>
            Counted(req'[s], s, loop'.toks[s], loop'.spec[s], Sent(s)', Stale(s)', Outs(s)')
      BY DEF CountedNow
    <2>. QED  BY <1>2, <1>9, <2>1, <2>2, <2>3
  <1>15. \A s \in Requests \ {r} : CountedNow(s)'
    BY <1>1, <1>2, <1>6, <1>10, <1>11, <1>13, KeepSums, KeepCounted
  <1>16. LoopExact'
    <2>1. loop'.budget \in Nat /\ Total(loop'.toks) + loop'.budget = TokenBudget
      <3>. DEFINE X == Total(loop.toks)
      <3>1. b \in Nat /\ X \in Nat /\ X + b = TokenBudget /\ n \in Nat /\ n <= b
        BY <1>1, <1>2, <1>3, <1>7, <1>10 DEF LoopExact, b
      <3>2. loop'.budget = b - n /\ Total(loop'.toks) = X - 0 + n
        BY <1>2, <1>10, <1>13
      <3>. HIDE DEF X
      <3>. QED  BY <3>1, <3>2
    <2>. QED  BY <1>2, <1>10, <1>11, <1>12, <1>13, <2>1 DEF LoopExact
  <1>. QED  BY <1>1, <1>2, <1>14, <1>15, <1>16, KeepSums DEF Counts

(* _update_after_schedule moves the counts by what the new batch holds. *)
LEMMA AfterScheduleCounted ==
  ASSUME NEW r \in Requests, NEW m \in Nat, NEW q \in RequestType(m), NEW n \in Nat, n > 0,
         NEW sp \in Nat, NEW seq \in Nat, m <= seq,
         NEW sent \in Nat, NEW stale \in Nat, NEW outs \in Nat, q.status = "RUNNING",
         Counted(q, r, n, sp, sent, stale, outs), NEW w, w = AfterSchedule(q, n, sp, seq), NEW sp2
  PROVE  Counted(w, r, 0, sp2, sent + n, stale, outs + IF w.prefillChunk THEN 0 ELSE 1 + sp)
  <1>. DEFINE t == q.tokens
              c == q.computed
              p == q.placeholders
              chunk == c + n < t + p
              p2 == IF chunk THEN p ELSE p + 1 + sp
              d2 == IF chunk THEN q.spec ELSE NumSpec
              l2 == IF DeferBlockFree THEN seq ELSE q.lastSeq
              e2 == IF chunk THEN q.notBefore ELSE PPSize
              c2 == c + n
              f2 == q.inFlight + n
  <1>1. w = [q EXCEPT !.computed = c2, !.inFlight = f2, !.lastSeq = l2, !.prefillChunk = chunk,
                      !.placeholders = p2, !.spec = d2, !.notBefore = e2]
    BY DEF AfterSchedule
  <1>2. /\ t \in Nat /\ c \in Nat /\ p \in Nat /\ q.inFlight = sent /\ q.stale = stale /\ p = outs
        /\ c + n <= MaxModelLen - 1 /\ (q.stale = 0 \/ q.dropStale)
        /\ (c + n < t /\ p = 0 /\ sp = 0) \/ c + n = t + p + sp
        /\ PromptLen[r] <= t /\ t < MaxModelLen /\ t < PromptLen[r] + MaxTokens[r]
    BY DEF Counted
  <1>3. chunk \in BOOLEAN /\ MaxModelLen \in Nat
    BY Numbers
  <1>4. /\ c2 = c + n /\ f2 = sent + n /\ p2 = IF chunk THEN p ELSE p + 1 + sp
        /\ chunk => c + n < t /\ p = 0
        /\ ~chunk => c + n = t + p + sp
    BY <1>2
  <1>. HIDE DEF p2, d2, l2, e2, c2, f2, chunk
  <1>5. /\ w.status = "RUNNING" /\ w.tokens = t /\ w.computed = c2 /\ w.inFlight = f2
        /\ w.stale = q.stale /\ w.dropStale = q.dropStale /\ w.placeholders = p2
        /\ w.prefillChunk = chunk
    BY <1>1 DEF RequestType, t
  <1>. DEFINE x == outs + IF w.prefillChunk THEN 0 ELSE 1 + sp
  <1>6. p2 = x /\ p2 \in Nat /\ c2 \in Nat /\ f2 \in Nat /\ c2 + 0 <= MaxModelLen - 1
    BY <1>2, <1>3, <1>4, <1>5
  <1>7. IF chunk THEN c2 < t /\ p2 = 0 ELSE c2 = t + p2 - 1
    BY <1>2, <1>3, <1>4
  <1>. HIDE DEF x, t, c, p
  <1>8. Counted(w, r, 0, sp2, f2, stale, x)
    BY <1>2, <1>5, <1>6, <1>7 DEF Counted
  <1>. QED  BY <1>4, <1>8 DEF x

(* The end of schedule() keeps Counts. *)
LEMMA EndScheduleCounts ==
  ASSUME Base, Counts, EndSchedule
  PROVE  Counts'
  <1>1. LoopExact /\ Types /\ QueueOK(batchQueue) /\ \A s \in Requests : CountedNow(s)
    BY DEF Base, Counts
  <1>. DEFINE Q == batchQueue
              P == batchQueue'
              b == NewBatch
  <1>2. /\ pc' \in {"idle", "process"}
        /\ schedSeq' \in Nat /\ schedSeq <= schedSeq' /\ schedSeq \in Nat
        /\ \A r \in Scheduled :
             req'[r] = AfterSchedule(req[r], loop.toks[r], loop.spec[r], schedSeq')
        /\ \A r \in Requests \ Scheduled : req'[r] = req[r]
        /\ b \in BatchType
        /\ P \in Seq(BatchType) /\ Len(P) = Len(Q) + 1
        /\ P[Len(Q) + 1] = b
        /\ \A i \in 1..Len(Q) : P[i] = Q[i]
        /\ loop' = NoLoop
    BY <1>1, EndScheduleIs DEF Types
  <1>3. /\ b.toks = loop.toks /\ b.spec = loop.spec /\ b.fresh = loop.fresh /\ b.old = {}
        /\ b.gen = {r \in Scheduled : ~req'[r].prefillChunk}
    BY DEF NewBatch
  <1>4. \A r \in Requests : r \in Scheduled <=> loop.toks[r] > 0
    BY DEF Scheduled
  <1>4a. Scheduled \in SUBSET Requests
    BY DEF Scheduled
  <1>. HIDE DEF Q, P, b
  <1>5. BatchOK(b)
    BY <1>1, <1>2, <1>3, <1>4, <1>4a DEF BatchOK, LoopExact
  <1>6. /\ QueueOK(P)
        /\ \A r \in Requests :
             /\ Total(SentOf(P, r)) = Total(SentOf(Q, r)) + b.toks[r]
             /\ Total(StaleOf(P, r)) = Total(StaleOf(Q, r))
             /\ Total(OutsOf(P, r)) = Total(OutsOf(Q, r))
                                        + IF r \in b.gen THEN 1 + b.spec[r] ELSE 0
    <2>1. QueueOK(Q) /\ BatchOK(b) /\ b.old = {} /\ P \in Seq(BatchType)
          /\ Len(P) = Len(Q) + 1 /\ (\A i \in 1..Len(Q) : P[i] = Q[i]) /\ P[Len(Q) + 1] = b
      BY <1>1, <1>2, <1>3, <1>5 DEF Q
    <2>. QED  BY ONLY <2>1, SumsAppend
  <1>7. \A r \in Requests :
           /\ Sent(r)' = Sent(r) + loop.toks[r] /\ Stale(r)' = Stale(r)
           /\ Outs(r)' = Outs(r) + IF r \in b.gen THEN 1 + loop.spec[r] ELSE 0
    BY <1>3, <1>6 DEF P, Q, Sent, Stale, Outs
  <1>8. \A r \in Requests : /\ Sent(r) \in Nat /\ Stale(r) \in Nat /\ Outs(r) \in Nat
                            /\ loop.toks[r] \in Nat /\ loop.spec[r] \in Nat
    BY <1>1, SumsType DEF Sent, Stale, Outs, LoopExact
  <1>9. loop'.toks = Zero /\ loop'.spec = Zero /\ loop'.fresh = Zero /\ loop'.budget = 0
    BY <1>2, NoLoopType
  <1>10. \A r \in Requests : loop'.toks[r] = 0 /\ loop'.spec[r] = 0
    BY <1>9 DEF Zero
  <1>11. ASSUME NEW r \in Requests  PROVE CountedNow(r)'
    <2>1. Counted(req[r], r, loop.toks[r], loop.spec[r], Sent(r), Stale(r), Outs(r))
      BY <1>1 DEF CountedNow
    <2>2. CASE r \notin Scheduled
      <3>1. loop.toks[r] = 0 /\ r \notin b.gen /\ req'[r] = req[r]
        BY <1>2, <1>3, <1>4, <1>8, <2>2
      <3>2. Sent(r)' = Sent(r) /\ Stale(r)' = Stale(r) /\ Outs(r)' = Outs(r)
        BY <1>7, <1>8, <3>1
      <3>3. Counted(req[r], r, 0, 0, Sent(r), Stale(r), Outs(r))
        BY <2>1, <3>1 DEF Counted
      <3>. QED  BY <1>10, <3>1, <3>2, <3>3 DEF CountedNow
    <2>3. CASE r \in Scheduled
      <3>. DEFINE q == req[r]
                  w == req'[r]
                  n == loop.toks[r]
                  sp == loop.spec[r]
                  seq == schedSeq'
                  sent == Sent(r)
                  stale == Stale(r)
                  outs == Outs(r)
      <3>1. /\ q \in RequestType(schedSeq) /\ n \in Nat /\ n > 0 /\ sp \in Nat
            /\ sent \in Nat /\ stale \in Nat /\ outs \in Nat /\ seq \in Nat
            /\ w = AfterSchedule(q, n, sp, seq) /\ schedSeq \in Nat /\ schedSeq <= seq
            /\ Counted(q, r, n, sp, sent, stale, outs)
        BY <1>1, <1>2, <1>4, <1>8, <2>1, <2>3 DEF Types
      <3>2. r \in b.gen <=> ~w.prefillChunk
        BY <1>3, <2>3
      <3>3. /\ Sent(r)' = sent + n /\ Stale(r)' = stale
            /\ Outs(r)' = outs + IF w.prefillChunk THEN 0 ELSE 1 + sp
        BY <1>7, <3>2
      <3>. HIDE DEF q, w, n, sp, seq, sent, stale, outs
      <3>4. q.status = "RUNNING"
        BY <3>1 DEF Counted
      <3>5. Counted(w, r, 0, 0, sent + n, stale, outs + IF w.prefillChunk THEN 0 ELSE 1 + sp)
        BY <3>1, <3>4, AfterScheduleCounted
      <3>6. req'[r] = w
        BY DEF w
      <3>. QED  BY <1>10, <3>3, <3>5, <3>6 DEF CountedNow
    <2>. QED  BY <2>2, <2>3
  <1>12. LoopExact'
    BY <1>2, <1>9, TotalOfZero DEF LoopExact
  <1>. QED  BY <1>6, <1>11, <1>12 DEF Counts, P

(* A batch that comes back takes what it held off the counts. *)
LEMMA ReturnedCounted ==
  ASSUME NEW r \in Requests, NEW seq, NEW q \in RequestType(seq), NEW n \in Nat, NEW sp, NEW sp2,
         NEW sent \in Nat, NEW stale \in Nat, NEW outs \in Nat,
         NEW sent2 \in Nat, NEW stale2 \in Nat, n > 0,
         Counted(q, r, 0, sp, sent, stale, outs), q.status \in {"WAITING", "PREEMPTED", "RUNNING"},
         sent = n + sent2, stale = (IF stale > 0 THEN n ELSE 0) + stale2
  PROVE  Counted(Returned(q, n), r, 0, sp2, sent2, stale2, outs)
  <1>. DEFINE w == Returned(q, n)
              i == q.inFlight - n
              st == IF q.stale > 0 THEN q.stale - n ELSE 0
  <1>1. w = [status |-> q.status, tokens |-> q.tokens, computed |-> q.computed,
             inFlight |-> i, stale |-> st, dropStale |-> q.dropStale,
             placeholders |-> q.placeholders, spec |-> q.spec, lastSeq |-> q.lastSeq,
             prefillChunk |-> q.prefillChunk, notBefore |-> q.notBefore]
    <2>1. q \in RequestType(seq) /\ n \in Int
      OBVIOUS
    <2>. QED  BY ONLY <2>1, ReturnedIs
  <1>2. q.inFlight = sent /\ q.stale = stale
    BY DEF Counted
  <1>3. i = sent2 /\ st = stale2
    BY <1>2
  <1>. HIDE DEF w, i, st
  <1>4. /\ w.status = q.status /\ w.tokens = q.tokens /\ w.computed = q.computed
        /\ w.inFlight = sent2 /\ w.stale = stale2 /\ w.dropStale = q.dropStale
        /\ w.placeholders = q.placeholders /\ w.spec = q.spec /\ w.prefillChunk = q.prefillChunk
    BY <1>1, <1>3
  <1>5. q.status \in {"WAITING", "PREEMPTED"} => sent2 = stale2
    BY DEF Counted
  <1>6. q.status = "RUNNING" => stale2 = 0 \/ q.dropStale
    <2>1. q.status = "RUNNING" => q.stale = 0 \/ q.dropStale
      BY DEF Counted
    <2>2. q.stale = 0 => stale2 = 0
      BY <1>2
    <2>. QED  BY <2>1, <2>2
  <1>7. Counted(w, r, 0, sp2, sent2, stale2, outs)
    BY <1>4, <1>5, <1>6 DEF Counted
  <1>. QED  BY <1>7 DEF w

(* An output of an earlier life adds tokens and leaves the counts alone. *)
LEMMA StaleOutputCounted ==
  ASSUME NEW r \in Requests, NEW seq, NEW q \in RequestType(seq), Batch.spec[r] \in Nat,
         NEW a, a.gen \in Nat, a.kept \in Nat, NEW sp, NEW sent, NEW stale, NEW outs,
         Counted(q, r, 0, sp, sent, stale, outs), q.status \in {"WAITING", "PREEMPTED"},
         q.tokens + a.kept < MaxModelLen, q.tokens + a.kept < PromptLen[r] + MaxTokens[r]
  PROVE  Counted(WithOutput(q, r, a, TRUE), r, 0, sp, sent, stale, outs)
  <1>. DEFINE w == WithOutput(q, r, a, TRUE)
              t == q.tokens + a.kept
  <1>1. /\ w.status = q.status /\ w.tokens = t /\ w.computed = q.computed
        /\ w.inFlight = q.inFlight /\ w.stale = q.stale
        /\ w.placeholders = q.placeholders /\ w.spec = q.spec
    <2>. DEFINE st == TRUE
                x == WithOutput(q, r, a, st)
                rejected == Batch.spec[r] - (a.gen - 1)
                rolls == ~st /\ Batch.spec[r] # 0
                c == IF rolls /\ q.computed > 0 THEN q.computed - rejected ELSE q.computed
                held == IF rolls /\ q.placeholders > 0 THEN q.placeholders - rejected
                        ELSE q.placeholders
                p == IF st THEN held ELSE held - a.kept
    <2>1. q \in RequestType(seq) /\ Batch.spec[r] \in Int /\ a.gen \in Int /\ a.kept \in Int
          /\ st \in BOOLEAN
      OBVIOUS
    <2>1a. st
      OBVIOUS
    <2>. HIDE DEF st
    <2>2. x = [status |-> q.status, tokens |-> q.tokens + a.kept, computed |-> c,
               inFlight |-> q.inFlight, stale |-> q.stale, dropStale |-> q.dropStale,
               placeholders |-> p, spec |-> q.spec, lastSeq |-> q.lastSeq,
               prefillChunk |-> q.prefillChunk, notBefore |-> q.notBefore]
      BY <2>1, WithOutputIs
    <2>3. x = w
      BY DEF st
    <2>4. c = q.computed /\ p = q.placeholders
      BY <2>1a
    <2>. HIDE DEF x, w, c, p
    <2>. QED  BY <2>2, <2>3, <2>4
  <1>2. PromptLen[r] \in Nat /\ q.tokens \in Nat /\ PromptLen[r] <= q.tokens
    BY Numbers DEF Counted
  <1>3. t \in Nat /\ PromptLen[r] <= t /\ t < MaxModelLen /\ t < PromptLen[r] + MaxTokens[r]
    BY <1>2
  <1>. HIDE DEF w, t
  <1>4. Counted(w, r, 0, sp, sent, stale, outs)
    BY <1>1, <1>3 DEF Counted
  <1>. QED  BY <1>4 DEF w

(* An output of the present life turns its placeholders into tokens, and   *)
(* the rejected drafts are taken back.                                     *)
LEMMA OutputCounted ==
  ASSUME NEW r \in Requests, NEW seq, NEW q \in RequestType(seq), Batch.spec[r] \in Nat,
         NEW a, a.gen \in Nat, a.kept = a.gen, a.gen >= 1, a.gen <= Batch.spec[r] + 1,
         NEW sp, NEW sent, NEW stale, NEW outs \in Nat, NEW outs2 \in Nat,
         outs = 1 + Batch.spec[r] + outs2,
         Counted(q, r, 0, sp, sent, stale, outs), q.status = "RUNNING",
         q.tokens + a.kept < MaxModelLen, q.tokens + a.kept < PromptLen[r] + MaxTokens[r]
  PROVE  Counted(WithOutput(q, r, a, FALSE), r, 0, sp, sent, stale, outs2)
  <1>. DEFINE w == WithOutput(q, r, a, FALSE)
              t == q.tokens + a.kept
              s == Batch.spec[r]
              g == a.gen
              rejected == s - (g - 1)
              rolls == s # 0
              c == IF rolls /\ q.computed > 0 THEN q.computed - rejected ELSE q.computed
              held == IF rolls /\ q.placeholders > 0 THEN q.placeholders - rejected
                      ELSE q.placeholders
              p == held - a.kept
  <1>1. /\ w.status = q.status /\ w.tokens = t /\ w.computed = c
        /\ w.inFlight = q.inFlight /\ w.stale = q.stale /\ w.dropStale = q.dropStale
        /\ w.placeholders = p /\ w.spec = q.spec /\ w.prefillChunk = q.prefillChunk
    <2>. DEFINE st == FALSE
                x == WithOutput(q, r, a, st)
    <2>1. q \in RequestType(seq) /\ Batch.spec[r] \in Int /\ a.gen \in Int /\ a.kept \in Int
          /\ st \in BOOLEAN /\ ~st
      OBVIOUS
    <2>. HIDE DEF st
    <2>2. x = [status |-> q.status, tokens |-> q.tokens + a.kept, computed |-> c,
               inFlight |-> q.inFlight, stale |-> q.stale, dropStale |-> q.dropStale,
               placeholders |-> p, spec |-> q.spec, lastSeq |-> q.lastSeq,
               prefillChunk |-> q.prefillChunk, notBefore |-> q.notBefore]
      BY <2>1, WithOutputIs
    <2>3. x = w
      BY DEF st
    <2>. HIDE DEF x, w, c, p
    <2>. QED  BY <2>2, <2>3
  <1>2. /\ PromptLen[r] \in Nat /\ PromptLen[r] >= 1 /\ q.tokens \in Nat
        /\ PromptLen[r] <= q.tokens /\ MaxModelLen \in Nat
    BY Numbers DEF Counted
  <1>3. /\ q.computed \in Nat /\ q.placeholders = outs /\ q.computed + 0 <= MaxModelLen - 1
        /\ q.stale = 0 \/ q.dropStale
        /\ IF q.prefillChunk THEN q.computed < q.tokens /\ q.placeholders = 0
           ELSE q.computed = q.tokens + q.placeholders - 1
    BY DEF Counted
  <1>4. ~q.prefillChunk /\ q.computed = q.tokens + outs - 1 /\ q.computed > 0 /\ outs > 0
    <2>1. outs > 0
      OBVIOUS
    <2>2. ~q.prefillChunk /\ q.computed = q.tokens + q.placeholders - 1
      BY <1>3, <2>1
    <2>3. q.placeholders = outs /\ q.tokens \in Nat /\ q.tokens >= 1
      BY <1>2, <1>3
    <2>4. q.computed = q.tokens + outs - 1
      BY <2>2, <2>3
    <2>5. q.computed > 0
      BY <2>1, <2>3, <2>4
    <2>. QED  BY <2>1, <2>2, <2>4, <2>5
  <1>5. /\ t \in Nat /\ PromptLen[r] <= t /\ t < MaxModelLen /\ t < PromptLen[r] + MaxTokens[r]
        /\ t = q.tokens + g
    BY <1>2
  <1>6. p = outs2 /\ c = t + outs2 - 1 /\ c \in Nat /\ c <= q.computed
    <2>1. CASE s = 0
      BY <1>2, <1>3, <1>4, <2>1
    <2>2. CASE s # 0
      <3>1. c = q.computed - rejected /\ held = outs - rejected /\ rejected >= 0 /\ rejected \in Nat
        BY <1>3, <1>4, <2>2
      <3>2. t >= 1
        BY <1>2, <1>5
      <3>. QED  BY <1>2, <1>3, <1>4, <1>5, <3>1, <3>2
    <2>. QED  BY <2>1, <2>2
  <1>7. c + 0 <= MaxModelLen - 1
    BY <1>2, <1>3, <1>6
  <1>. HIDE DEF w, t, c, p, rolls, held, rejected, s, g
  <1>8. Counted(w, r, 0, sp, sent, stale, outs2)
    BY <1>1, <1>3, <1>4, <1>5, <1>6, <1>7 DEF Counted
  <1>. QED  BY <1>8 DEF w

(* The queue without its oldest batch *)
LEMMA OutcomeSums ==
  ASSUME Base, Counts, NEW a, Outcome(a)
  PROVE  /\ QueueOK(batchQueue') /\ BatchOK(Batch)
         /\ \A r \in Requests :
              /\ Sent(r) \in Nat /\ Stale(r) \in Nat /\ Outs(r) \in Nat
              /\ Sent(r)' \in Nat /\ Stale(r)' \in Nat /\ Outs(r)' \in Nat
              /\ Sent(r) = Batch.toks[r] + Sent(r)'
              /\ Stale(r) = (IF r \in Batch.old THEN Batch.toks[r] ELSE 0) + Stale(r)'
              /\ Outs(r) = (IF r \in Batch.gen \ Batch.old THEN 1 + Batch.spec[r] ELSE 0)
                             + Outs(r)'
              /\ Batch.toks[r] > 0 => (r \in Batch.old <=> Stale(r) > 0)
  <1>. DEFINE Q == batchQueue
              P == batchQueue'
  <1>1. /\ QueueOK(Q) /\ Len(Q) > 0 /\ P \in Seq(BatchType) /\ Len(P) = Len(Q) - 1
        /\ (\A i \in 1..(Len(Q) - 1) : P[i] = Q[i + 1]) /\ Batch = Q[1]
    <2>1. pc = "process" /\ P = Tail(Q)
      BY DEF Outcome
    <2>. QED  BY <2>1, BatchFacts DEF Counts
  <1>. HIDE DEF Q, P
  <1>2. /\ QueueOK(P)
        /\ \A r \in Requests :
             /\ Total(SentOf(Q, r)) = Q[1].toks[r] + Total(SentOf(P, r))
             /\ Total(StaleOf(Q, r)) = (IF r \in Q[1].old THEN Q[1].toks[r] ELSE 0)
                                         + Total(StaleOf(P, r))
             /\ Total(OutsOf(Q, r)) = (IF r \in Q[1].gen \ Q[1].old THEN 1 + Q[1].spec[r] ELSE 0)
                                        + Total(OutsOf(P, r))
    BY ONLY <1>1, SumsTail
  <1>3. \A r \in Requests :
          /\ Total(SentOf(Q, r)) \in Nat /\ Total(StaleOf(Q, r)) \in Nat
          /\ Total(OutsOf(Q, r)) \in Nat /\ Total(SentOf(P, r)) \in Nat
          /\ Total(StaleOf(P, r)) \in Nat /\ Total(OutsOf(P, r)) \in Nat
    BY <1>1, <1>2, SumsType
  <1>4. \A r \in Requests : Q[1].toks[r] > 0 => (r \in Q[1].old <=> Total(StaleOf(Q, r)) > 0)
    BY <1>1, HeadIsStale
  <1>5. BatchOK(Q[1])
    <2>1. Len(Q) \in Nat /\ DOMAIN Q = 1..Len(Q)
      BY <1>1 DEF QueueOK
    <2>2. 1 \in DOMAIN Q
      BY <1>1, <2>1
    <2>. QED  BY <1>1, <2>2 DEF QueueOK
  <1>6. \A r \in Requests :
          /\ Sent(r) = Total(SentOf(Q, r)) /\ Stale(r) = Total(StaleOf(Q, r))
          /\ Outs(r) = Total(OutsOf(Q, r))
          /\ Sent(r)' = Total(SentOf(P, r)) /\ Stale(r)' = Total(StaleOf(P, r))
          /\ Outs(r)' = Total(OutsOf(P, r))
    BY DEF Sent, Stale, Outs, Q, P
  <1>. QED  BY <1>1, <1>2, <1>3, <1>4, <1>5, <1>6 DEF P

(* Room for one token more than was kept: neither length is reached. *)
LEMMA RoomLeft ==
  ASSUME NEW r \in Requests, NEW k \in Nat, req[r].tokens \in Nat, k < Room(r)
  PROVE  /\ req[r].tokens + k < MaxModelLen
         /\ req[r].tokens + k < PromptLen[r] + MaxTokens[r]
  <1>. DEFINE t == req[r].tokens
              m == PromptLen[r] + MaxTokens[r]
  <1>1. t \in Nat /\ m \in Nat /\ MaxModelLen \in Nat
    BY Numbers
  <1>2. k < (IF MaxModelLen < m THEN MaxModelLen ELSE m) - t
    BY DEF Room, MinOf
  <1>. HIDE DEF t, m
  <1>3. t + k < MaxModelLen /\ t + k < m
    BY <1>1, <1>2
  <1>. QED  BY <1>3 DEF t, m

(* update_from_output keeps Counts. *)
LEMMA UpdateCounts ==
  ASSUME Base, Counts, NEW a, Outcome(a)
  PROVE  Counts'
  <1>1. /\ pc = "process" /\ pc' = "idle" /\ loop' = loop /\ Types /\ QueueOK(batchQueue)
        /\ LoopExact /\ \A r \in Requests : CountedNow(r)
    BY DEF Base, Counts, Outcome
  <1>2. LoopExact'
    BY <1>1, KeepNoLoop
  <1>3. \A r \in Requests : /\ loop.toks[r] = 0 /\ loop.spec[r] = 0
                            /\ loop'.toks[r] = 0 /\ loop'.spec[r] = 0
    BY <1>1, NoLoopExact
  <1>4. ASSUME NEW r \in Requests  PROVE CountedNow(r)'
    <2>. DEFINE q == req[r]
                w == req'[r]
                n == Batch.toks[r]
                s == Batch.spec[r]
                back == Returned(q, n)
                sent == Sent(r)
                stale == Stale(r)
                outs == Outs(r)
                sent2 == Sent(r)'
                stale2 == Stale(r)'
                outs2 == Outs(r)'
    <2>1. /\ q \in RequestType(schedSeq) /\ schedSeq \in Nat
          /\ Counted(q, r, 0, 0, sent, stale, outs)
      BY <1>1, <1>3 DEF Types, CountedNow
    <2>2. /\ sent \in Nat /\ stale \in Nat /\ outs \in Nat
          /\ sent2 \in Nat /\ stale2 \in Nat /\ outs2 \in Nat
          /\ sent = n + sent2 /\ stale = (IF r \in Batch.old THEN n ELSE 0) + stale2
          /\ outs = (IF r \in Batch.gen \ Batch.old THEN 1 + s ELSE 0) + outs2
          /\ n > 0 => (r \in Batch.old <=> stale > 0)
      BY OutcomeSums
    <2>3. n \in Nat /\ s \in Nat /\ (r \in Batch.gen => n > 0) /\ (r \in InBatch <=> n > 0)
      BY OutcomeSums DEF BatchOK, InBatch
    <2>4. /\ back \in RequestType(schedSeq)
          /\ r \notin InBatch \/ ~Known(r) => w = q /\ r \notin DOMAIN a
          /\ r \in InBatch /\ Known(r) /\ r \notin DOMAIN a => w = back
          /\ r \in DOMAIN a /\ a[r].stop => w = Finished(back, r)
          /\ r \in DOMAIN a /\ ~a[r].stop => w = WithOutput(back, r, a[r], q.stale > 0)
      BY OutcomeRequest
    <2>5. Known(r) <=> q.status \in {"WAITING", "PREEMPTED", "RUNNING"}
      BY <2>1 DEF Known, RequestType, Statuses
    <2>6. CountedNow(r)' <=> Counted(w, r, 0, 0, sent2, stale2, outs2)
      BY <1>3 DEF CountedNow
    <2>7. r \in DOMAIN a <=> n > 0 /\ Known(r) /\ ~(q.stale > 0 /\ q.dropStale) /\ r \in Batch.gen
      BY <2>3 DEF Outcome, Live
    <2>8. r \in DOMAIN a => a[r].stop \in BOOLEAN
      BY OutcomeAnswer
    <2>9. q.tokens \in Nat /\ q.stale \in Nat
      BY <2>1 DEF Counted
    <2>10. ASSUME r \in DOMAIN a, ~a[r].stop
           PROVE  /\ a[r].gen \in Nat /\ a[r].kept = a[r].gen /\ a[r].gen >= 1
                  /\ a[r].gen <= s + 1
                  /\ q.tokens + a[r].kept < MaxModelLen
                  /\ q.tokens + a[r].kept < PromptLen[r] + MaxTokens[r]
      <3>1. /\ a[r].gen \in Nat /\ a[r].kept = a[r].gen /\ a[r].gen >= 1 /\ a[r].kept \in Nat
            /\ a[r].gen <= s + 1 /\ a[r].kept < Room(r)
        BY <2>10, OutcomeAnswer
      <3>2. /\ req[r].tokens + a[r].kept < MaxModelLen
            /\ req[r].tokens + a[r].kept < PromptLen[r] + MaxTokens[r]
        BY <2>9, <3>1, RoomLeft
      <3>. QED  BY <3>1, <3>2
    <2>11. back.tokens = q.tokens /\ back.status = q.status
      <3>. DEFINE x == Returned(q, n)
                  i == q.inFlight - n
                  st == IF q.stale > 0 THEN q.stale - n ELSE 0
      <3>1. q \in RequestType(schedSeq) /\ n \in Int
        BY <2>1, <2>3
      <3>. HIDE DEF q, n
      <3>2. x = [status |-> q.status, tokens |-> q.tokens, computed |-> q.computed,
                 inFlight |-> i, stale |-> st, dropStale |-> q.dropStale,
                 placeholders |-> q.placeholders, spec |-> q.spec, lastSeq |-> q.lastSeq,
                 prefillChunk |-> q.prefillChunk, notBefore |-> q.notBefore]
        BY ONLY <3>1, ReturnedIs
      <3>. HIDE DEF x, i, st
      <3>3. x.tokens = q.tokens /\ x.status = q.status
        BY <3>2
      <3>. QED  BY <3>3 DEF x
    <2>. HIDE DEF q, w, n, s, back, sent, stale, outs, sent2, stale2, outs2
    <2>12. ASSUME n > 0, Known(r)  PROVE Counted(back, r, 0, 0, sent2, stale2, outs)
      <3>1. q.status \in {"WAITING", "PREEMPTED", "RUNNING"} /\ stale = (IF stale > 0 THEN n ELSE 0) + stale2
        BY <2>2, <2>5, <2>12
      <3>2. Counted(Returned(q, n), r, 0, 0, sent2, stale2, outs)
        BY <2>1, <2>2, <2>3, <2>12, <3>1, ReturnedCounted
      <3>. QED  BY <3>2 DEF back
    <2>13. CASE ~(n > 0)
      <3>1. sent2 = sent /\ stale2 = stale /\ outs2 = outs /\ w = q
        BY <2>2, <2>3, <2>4, <2>13
      <3>. QED  BY <2>1, <2>6, <3>1
    <2>14. CASE n > 0 /\ ~Known(r)
      <3>1. q.status # "NONE"
        BY <2>1, <2>2, <2>3, <2>14 DEF Counted
      <3>2. q.status = "FINISHED" /\ w = q
        BY <2>1, <2>3, <2>4, <2>5, <2>14, <3>1 DEF RequestType, Statuses
      <3>3. Counted(q, r, 0, 0, sent2, stale2, outs2)
        BY <2>1, <3>2 DEF Counted
      <3>. QED  BY <2>6, <3>2, <3>3
    <2>15. CASE n > 0 /\ Known(r) /\ r \notin DOMAIN a
      <3>1. w = back
        BY <2>3, <2>4, <2>15
      <3>2. r \in Batch.gen => q.stale > 0
        BY <2>7, <2>15
      <3>3. q.stale = stale
        BY <2>1, <2>5, <2>15 DEF Counted
      <3>4. outs2 = outs
        BY <2>2, <2>15, <3>2, <3>3
      <3>. QED  BY <2>6, <2>12, <2>15, <3>1, <3>4
    <2>16. CASE r \in DOMAIN a /\ a[r].stop
      <3>1. Counted(Finished(back, r), r, 0, 0, sent2, stale2, outs2)
        BY <2>1, <2>4, FinishedCounted
      <3>. QED  BY <2>4, <2>6, <2>16, <3>1
    <2>17. CASE r \in DOMAIN a /\ ~a[r].stop /\ q.stale > 0
      <3>. DEFINE x == a[r]
      <3>1. q.stale = stale /\ (q.status = "RUNNING" => q.stale = 0 \/ q.dropStale)
        BY <2>1, <2>5, <2>7, <2>17 DEF Counted
      <3>2. q.status \in {"WAITING", "PREEMPTED"} /\ outs2 = outs
        BY <2>2, <2>5, <2>7, <2>9, <2>17, <3>1
      <3>3. /\ back \in RequestType(schedSeq) /\ Batch.spec[r] \in Nat /\ x.gen \in Nat /\ x.kept \in Nat
            /\ Counted(back, r, 0, 0, sent2, stale2, outs) /\ back.status \in {"WAITING", "PREEMPTED"}
            /\ back.tokens + x.kept < MaxModelLen
            /\ back.tokens + x.kept < PromptLen[r] + MaxTokens[r]
        BY <2>3, <2>4, <2>7, <2>10, <2>11, <2>12, <2>17, <3>2 DEF s
      <3>4. w = WithOutput(back, r, x, TRUE)
        BY <2>4, <2>17
      <3>. HIDE DEF x
      <3>5. Counted(WithOutput(back, r, x, TRUE), r, 0, 0, sent2, stale2, outs)
        BY <3>3, StaleOutputCounted
      <3>. QED  BY <2>6, <3>2, <3>4, <3>5
    <2>18. CASE r \in DOMAIN a /\ ~a[r].stop /\ ~(q.stale > 0)
      <3>. DEFINE x == a[r]
      <3>1. q.stale = stale /\ (q.status # "RUNNING" => sent = stale)
        BY <2>1, <2>5, <2>7, <2>18 DEF Counted
      <3>2. q.status = "RUNNING" /\ outs = 1 + s + outs2
        BY <2>2, <2>3, <2>5, <2>7, <2>9, <2>18, <3>1
      <3>3. /\ back \in RequestType(schedSeq) /\ Batch.spec[r] \in Nat /\ x.gen \in Nat
            /\ x.kept = x.gen /\ x.gen >= 1 /\ x.gen <= Batch.spec[r] + 1
            /\ outs \in Nat /\ outs2 \in Nat /\ outs = 1 + Batch.spec[r] + outs2
            /\ Counted(back, r, 0, 0, sent2, stale2, outs) /\ back.status = "RUNNING"
            /\ back.tokens + x.kept < MaxModelLen
            /\ back.tokens + x.kept < PromptLen[r] + MaxTokens[r]
        BY <2>2, <2>3, <2>4, <2>7, <2>10, <2>11, <2>12, <2>18, <3>2 DEF s
      <3>3a. (q.stale > 0) = FALSE
        BY <2>9, <2>18
      <3>4. w = WithOutput(back, r, x, FALSE)
        BY <2>4, <2>18, <3>3a
      <3>. HIDE DEF x
      <3>5. Counted(WithOutput(back, r, x, FALSE), r, 0, 0, sent2, stale2, outs2)
        BY <3>3, OutputCounted
      <3>. QED  BY <2>6, <3>4, <3>5
    <2>. QED  BY <2>3, <2>7, <2>8, <2>13, <2>14, <2>15, <2>16, <2>17, <2>18
  <1>. QED  BY <1>2, <1>4, OutcomeSums DEF Counts

(* Counts holds at the start. *)
LEMMA InitCounts ==
  ASSUME Init
  PROVE  Counts
  <1>1. loop = NoLoop /\ pc = "idle" /\ batchQueue = <<>> /\ req = [r \in Requests |-> NewRequest(r)]
    BY DEF Init
  <1>2. LoopExact
    BY <1>1, NoLoopType, TotalOfZero DEF LoopExact
  <1>. DEFINE Q == batchQueue
  <1>3. Q \in Seq(BatchType) /\ DOMAIN Q = {} /\ 1..Len(Q) = {}
    BY <1>1
  <1>. HIDE DEF Q
  <1>4. QueueOK(Q)
    BY <1>3 DEF QueueOK
  <1>5. \A r \in Requests : Sent(r) = 0 /\ Stale(r) = 0 /\ Outs(r) = 0
    <2>. SUFFICES ASSUME NEW r \in Requests
                  PROVE  Sent(r) = 0 /\ Stale(r) = 0 /\ Outs(r) = 0
      OBVIOUS
    <2>. DEFINE f == SentOf(Q, r)
                g == StaleOf(Q, r)
                h == OutsOf(Q, r)
                D == 1..Len(Q)
    <2>1. f \in [D -> Nat] /\ g \in [D -> Nat] /\ h \in [D -> Nat] /\ D = {}
      BY <1>3, <1>4, SumsType
    <2>. HIDE DEF f, g, h, D
    <2>2. Total(f) = 0
      BY <2>1, TotalZero
    <2>3. Total(g) = 0
      BY <2>1, TotalZero
    <2>4. Total(h) = 0
      BY <2>1, TotalZero
    <2>. QED  BY <2>2, <2>3, <2>4 DEF f, g, h, Q, Sent, Stale, Outs
  <1>6. ASSUME NEW r \in Requests  PROVE CountedNow(r)
    <2>. DEFINE q == req[r]
    <2>1. q = NewRequest(r) /\ loop.toks[r] = 0
      BY <1>1, NoLoopType DEF Zero
    <2>2. PromptLen[r] \in Nat
      BY Numbers
    <2>. HIDE DEF q
    <2>3. /\ q.status = "NONE" /\ q.tokens = PromptLen[r] /\ q.computed = 0 /\ q.inFlight = 0
          /\ q.stale = 0 /\ q.placeholders = 0
      BY <2>1 DEF NewRequest
    <2>4. Counted(q, r, 0, loop.spec[r], 0, 0, 0)
      BY <2>1, <2>2, <2>3 DEF Counted
    <2>. QED  BY <1>5, <2>1, <2>4 DEF CountedNow, q
  <1>. QED  BY <1>2, <1>4, <1>6 DEF Counts, Q

(* Every step keeps Counts. *)
LEMMA CountsStep ==
  ASSUME Base, Counts, [Next]_vars
  PROVE  Counts'
  <1>1. CASE \E r \in Requests : AddRequest(r) \/ FinishRequest(r)
    BY <1>1, AddRequestCounts, FinishRequestCounts
  <1>2. CASE ResetPrefixCache
    BY <1>2, ResetCounts
  <1>3. CASE StartSchedule \/ StartDrain
    BY <1>3, StartScheduleCounts, StartDrainCounts
  <1>4. CASE SkipRunning \/ PickRunning \/ AllocateRunning \/ PreemptForRunning \/ EndRunning
    BY <1>4, SkipRunningCounts, PickRunningCounts, AllocateRunningCounts,
       PreemptForRunningCounts, EndRunningCounts
  <1>5. CASE SkipWaiting \/ AdmitWaiting \/ EndWaiting
    BY <1>5, SkipWaitingCounts, AdmitWaitingCounts
  <1>6. CASE EndSchedule
    BY <1>6, EndScheduleCounts
  <1>7. CASE UpdateFromOutput
    BY <1>7, UpdateHasOutcome, UpdateCounts
  <1>8. CASE UNCHANGED vars
    <2>1. req' = req /\ batchQueue' = batchQueue /\ loop' = loop /\ pc' = pc /\ running' = running
      BY <1>8 DEF vars
    <2>2. LoopExact'
      BY <2>1 DEF Counts, LoopExact, WantFits, Current
    <2>. QED  BY <2>1, <2>2, KeepAllCounted DEF Counts
  <1>. QED  BY <1>1, <1>2, <1>3, <1>4, <1>5, <1>6, <1>7, <1>8 DEF Next, EngineStep

(* Counts is an invariant. *)
LEMMA CountsHold == Spec => [](Base /\ Counts)
  <1>1. Init => Base /\ Counts
    BY InitBase, InitCounts
  <1>2. Base /\ Counts /\ [Next]_vars => (Base /\ Counts)'
    BY BaseStep, CountsStep
  <1>. QED  BY <1>1, <1>2, PTL DEF Spec

(* The counters of a request are exactly what its batches in flight make   *)
(* them, so that update_from_output can tell from the counters alone       *)
(* whether an output is stale (scheduler.py 1673-1683, 2139-2149).         *)
THEOREM CountersMatch == Spec => []CountersMatchBatches
  <1>1. Base /\ Counts => CountersMatchBatches
    <2>. SUFFICES ASSUME Base, Counts, NEW r \in Requests, Known(r)
                  PROVE  /\ req[r].inFlight = TokensInFlight(r)
                         /\ req[r].stale = StaleInFlight(r)
                         /\ req[r].placeholders = OutputsInFlight(r)
      BY DEF CountersMatchBatches
    <2>1. req[r].status \in {"WAITING", "PREEMPTED", "RUNNING"}
      BY DEF Known, Base, Types, RequestType, Statuses
    <2>2. Counted(req[r], r, loop.toks[r], loop.spec[r], Sent(r), Stale(r), Outs(r))
      BY DEF Counts, CountedNow
    <2>3. req[r].inFlight = Sent(r) /\ req[r].stale = Stale(r) /\ req[r].placeholders = Outs(r)
      BY <2>1, <2>2 DEF Counted
    <2>4. TokensInFlight(r) = Sent(r) /\ StaleInFlight(r) = Stale(r) /\ OutputsInFlight(r) = Outs(r)
      BY DEF TokensInFlight, StaleInFlight, OutputsInFlight, Sent, Stale, Outs, SentOf, StaleOf,
             OutsOf
    <2>. QED  BY <2>3, <2>4
  <1>. QED  BY <1>1, CountsHold, PTL

(* A running request past its prompt has computed everything but its last  *)
(* token, so that num_new_tokens of schedule() never is negative and never *)
(* schedules a position twice (scheduler.py 779-783).                      *)
THEOREM ComputedStaysAhead == Spec => []ComputedAhead
  <1>1. Base /\ Counts => ComputedAhead
    <2>. SUFFICES ASSUME Base, Counts, NEW r \in Requests, req[r].status = "RUNNING",
                         loop.toks[r] = 0
                  PROVE  IF req[r].prefillChunk
                           THEN req[r].computed < req[r].tokens /\ req[r].placeholders = 0
                           ELSE req[r].computed = req[r].tokens + req[r].placeholders - 1
      BY DEF ComputedAhead
    <2>1. Counted(req[r], r, loop.toks[r], loop.spec[r], Sent(r), Stale(r), Outs(r))
      BY DEF Counts, CountedNow
    <2>. QED  BY <2>1 DEF Counted
  <1>. QED  BY <1>1, CountsHold, PTL

(* Preemption inside the running loop leaves the cursor past exactly the   *)
(* requests already looked at, and the budget at what the batch has not    *)
(* used (scheduler.py 872-907).                                            *)
THEOREM PreemptionKeepsTheLoop == Spec => []PreemptionKeepsLoop
  <1>1. Base /\ Counts => PreemptionKeepsLoop
    <2>. SUFFICES ASSUME Base, Counts, pc \in {"running", "alloc", "waiting"}
                  PROVE  /\ Total(loop.toks) + loop.budget = TokenBudget
                         /\ pc # "waiting" =>
                              loop.seen \cap ToSet(running) = ToSet(SubSeq(running, 1, loop.idx))
      BY DEF PreemptionKeepsLoop
    <2>1. Total(loop.toks) + loop.budget = TokenBudget
      BY DEF Counts, LoopExact
    <2>2. ASSUME pc # "waiting"
          PROVE  loop.seen \cap ToSet(running) = ToSet(SubSeq(running, 1, loop.idx))
      <3>. DEFINE n == loop.idx
                  s == SubSeq(running, 1, n)
      <3>1. /\ running \in Seq(Requests) /\ n \in Nat /\ n <= Len(running)
            /\ loop.seen \cap ToSet(running) = {running[i] : i \in 1..n}
        BY <2>2 DEF Base, Types, Cursor, LoopType
      <3>. HIDE DEF n
      <3>2. Len(s) = n /\ s \in Seq(Requests) /\ \A i \in 1..n : s[i] = running[i]
        BY <3>1, SubSeqProperties
      <3>3. DOMAIN s = 1..n
        BY <3>2, LenProperties
      <3>. HIDE DEF s
      <3>4. ToSet(s) = {running[i] : i \in 1..n}
        BY <3>2, <3>3 DEF ToSet
      <3>. QED  BY <3>1, <3>4 DEF s, n
    <2>. QED  BY <2>1, <2>2
  <1>. QED  BY <1>1, CountsHold, PTL
-----------------------------------------------------------------------------
(* The sequence numbers: every batch that schedules something takes one,   *)
(* and gives it back when its output is processed.                         *)

Counts1(b) == IF \E r \in Requests : b.toks[r] > 0 THEN 1 ELSE 0
NumbersOf(Q) == [i \in DOMAIN Q |-> Counts1(Q[i])]
Numbered ==
  /\ loop.want \in Nat
  /\ schedSeq = procSeq + IF DeferBlockFree THEN Total(NumbersOf(batchQueue)) ELSE 0

(* The number of non-empty batches is a natural number. *)
LEMMA NumbersType ==
  ASSUME NEW Q, Q \in Seq(BatchType)
  PROVE  /\ DOMAIN Q = 1..Len(Q) /\ Len(Q) \in Nat
         /\ NumbersOf(Q) \in [1..Len(Q) -> Nat] /\ Total(NumbersOf(Q)) \in Nat
  <1>1. DOMAIN Q = 1..Len(Q) /\ Len(Q) \in Nat
    BY LenProperties
  <1>2. IsFiniteSet(1..Len(Q))
    BY <1>1, FS_Interval
  <1>. DEFINE D == 1..Len(Q)
              f == NumbersOf(Q)
  <1>3. f \in [D -> Nat]
    BY <1>1 DEF NumbersOf, Counts1
  <1>4. IsFiniteSet(D)
    BY <1>2
  <1>. HIDE DEF D, f
  <1>5. Total(f) \in Nat
    BY <1>3, <1>4, UnitsFinite
  <1>. QED  BY <1>1, <1>3, <1>5 DEF D, f

(* A preemption leaves the number of batches alone. *)
LEMMA MarkedNumbers ==
  ASSUME Base, Counts, Numbered, NEW S \in SUBSET Requests, batchQueue' = MarkOld(S),
         schedSeq' = schedSeq, procSeq' = procSeq, loop'.want = loop.want
  PROVE  Numbered'
  <1>. DEFINE Q == batchQueue
              P == batchQueue'
  <1>1. Types
    BY DEF Base
  <1>2. /\ DOMAIN P = DOMAIN Q
        /\ \A i \in DOMAIN Q :
             P[i] = [toks |-> Q[i].toks, spec |-> Q[i].spec, fresh |-> Q[i].fresh,
                     gen |-> Q[i].gen, old |-> Q[i].old \cup S, uses |-> Q[i].uses]
    BY <1>1, MarkOldIs
  <1>2a. \A i \in DOMAIN Q : P[i].toks = Q[i].toks
    BY <1>2
  <1>. HIDE DEF Q, P
  <1>3. NumbersOf(P) = NumbersOf(Q)
    BY <1>2, <1>2a DEF NumbersOf, Counts1
  <1>. QED  BY <1>3 DEF Numbered, Q, P

(* A non-empty batch gets the next number. *)
LEMMA EndScheduleNumbers ==
  ASSUME Base, Numbered, EndSchedule
  PROVE  Numbered'
  <1>. DEFINE Q == batchQueue
              P == batchQueue'
              b == NewBatch
              n == Len(Q)
              f == NumbersOf(Q)
              g == NumbersOf(P)
  <1>1. /\ b \in BatchType /\ Q \in Seq(BatchType) /\ P \in Seq(BatchType) /\ Len(P) = n + 1
        /\ P[n + 1] = b /\ (\A i \in 1..n : P[i] = Q[i]) /\ loop' = NoLoop
    BY EndScheduleIs DEF Base, Types
  <1>2. /\ DOMAIN Q = 1..n /\ n \in Nat /\ f \in [1..n -> Nat] /\ Total(f) \in Nat
    BY <1>1, NumbersType
  <1>3. /\ DOMAIN P = 1..(n + 1) /\ g \in [1..(n + 1) -> Nat]
    BY <1>1, NumbersType
  <1>4. n + 1 \in 1..(n + 1) /\ \A i \in 1..n : i \in 1..(n + 1)
    BY <1>2
  <1>5. (\A i \in 1..n : g[i] = f[i]) /\ g[n + 1] = Counts1(b)
    BY <1>1, <1>2, <1>3, <1>4 DEF NumbersOf
  <1>6. b.toks = loop.toks /\ (Counts1(b) = IF Scheduled # {} THEN 1 ELSE 0)
    BY DEF NewBatch, Counts1, Scheduled
  <1>7. /\ schedSeq' = IF DeferBlockFree /\ Scheduled # {} THEN schedSeq + 1 ELSE schedSeq
        /\ procSeq' = procSeq
    BY DEF EndSchedule
  <1>8. NoLoop.want = 0 /\ schedSeq \in Nat /\ procSeq \in Nat
    BY DEF NoLoop, Base, Types
  <1>8a. schedSeq = procSeq + IF DeferBlockFree THEN Total(f) ELSE 0
    BY DEF Numbered
  <1>. HIDE DEF b, n, f, g
  <1>9. Total(g) = Total(f) + g[n + 1]
    BY ONLY <1>2, <1>3, <1>5, TotalAppend
  <1>10. Total(g) = Total(f) + IF Scheduled # {} THEN 1 ELSE 0
    BY <1>5, <1>6, <1>9
  <1>11. schedSeq' = procSeq' + IF DeferBlockFree THEN Total(g) ELSE 0
    BY <1>2, <1>7, <1>8, <1>8a, <1>10
  <1>. QED  BY <1>1, <1>8, <1>11 DEF Numbered, g

(* A non-empty batch that is processed takes its number with it. *)
LEMMA UpdateNumbers ==
  ASSUME Base, Counts, Numbered, NEW a, Outcome(a)
  PROVE  Numbered'
  <1>. DEFINE Q == batchQueue
              P == batchQueue'
              n == Len(Q)
              f == NumbersOf(Q)
              g == NumbersOf(P)
  <1>1. /\ Q \in Seq(BatchType) /\ P \in Seq(BatchType) /\ n > 0 /\ Len(P) = n - 1
        /\ (\A i \in 1..(n - 1) : P[i] = Q[i + 1]) /\ Batch = Q[1]
    <2>1. pc = "process" /\ P = Tail(Q)
      BY DEF Outcome
    <2>. QED  BY <2>1, BatchFacts
  <1>2. DOMAIN Q = 1..n /\ n \in Nat /\ f \in [1..n -> Nat]
    BY <1>1, NumbersType
  <1>3. DOMAIN P = 1..(n - 1) /\ g \in [1..(n - 1) -> Nat] /\ Total(g) \in Nat
    BY <1>1, NumbersType
  <1>4. 1 \in 1..n /\ \A i \in 1..(n - 1) : i + 1 \in 1..n
    BY <1>1, <1>2
  <1>5. (\A i \in 1..(n - 1) : g[i] = f[i + 1]) /\ f[1] = Counts1(Batch)
    BY <1>1, <1>2, <1>3, <1>4 DEF NumbersOf
  <1>6. Counts1(Batch) = IF InBatch # {} THEN 1 ELSE 0
    BY DEF InBatch, Counts1
  <1>7. /\ procSeq' = IF DeferBlockFree /\ InBatch # {} THEN procSeq + 1 ELSE procSeq
        /\ schedSeq' = schedSeq /\ loop' = loop
    BY DEF Outcome, Done
  <1>8. schedSeq \in Nat /\ procSeq \in Nat
    BY DEF Base, Types
  <1>8a. schedSeq = procSeq + IF DeferBlockFree THEN Total(f) ELSE 0
    BY DEF Numbered
  <1>. HIDE DEF n, f, g
  <1>9. Total(f) = f[1] + Total(g)
    BY ONLY <1>1, <1>2, <1>3, <1>5, TotalTail
  <1>10. Total(f) = (IF InBatch # {} THEN 1 ELSE 0) + Total(g)
    BY <1>5, <1>6, <1>9
  <1>11. schedSeq' = procSeq' + IF DeferBlockFree THEN Total(g) ELSE 0
    BY <1>3, <1>7, <1>8, <1>8a, <1>10
  <1>. QED  BY <1>7, <1>11 DEF Numbered, g

(* Every step keeps Numbered. *)
LEMMA NumberedStep ==
  ASSUME Base, Counts, Numbered, [Next]_vars
  PROVE  Numbered'
  <1>0. loop \in LoopType /\ loop.want \in Nat
    BY DEF Base, Types, Numbered
  <1>1. CASE \/ \E r \in Requests : AddRequest(r) \/ FinishRequest(r)
             \/ StartDrain \/ EndRunning \/ UNCHANGED vars
    BY <1>1 DEF AddRequest, FinishRequest, StartDrain, EndRunning, vars, Numbered
  <1>2. CASE ResetPrefixCache
    <2>1. /\ PreemptRequests(running, TRUE) /\ loop' = loop /\ schedSeq' = schedSeq
          /\ procSeq' = procSeq
      BY <1>2 DEF ResetPrefixCache
    <2>2. ToSet(running) \in SUBSET Requests /\ batchQueue' = MarkOld(ToSet(running))
      BY <2>1, QueuesList DEF PreemptRequests
    <2>. QED  BY <2>1, <2>2, MarkedNumbers
  <1>3. CASE StartSchedule
    <2>1. /\ loop' = [NoLoop EXCEPT !.budget = TokenBudget] /\ schedSeq' = schedSeq
          /\ procSeq' = procSeq /\ batchQueue' = batchQueue
      BY <1>3 DEF StartSchedule
    <2>2. loop'.want = 0
      BY <2>1 DEF NoLoop
    <2>. QED  BY <2>1, <2>2 DEF Numbered
  <1>4. CASE SkipRunning
    <2>. DEFINE i == loop.idx + 1
                seen == loop.seen \cup {Current}
    <2>1. /\ loop' = [loop EXCEPT !.idx = i, !.seen = seen]
          /\ schedSeq' = schedSeq /\ procSeq' = procSeq /\ batchQueue' = batchQueue
      BY <1>4 DEF SkipRunning
    <2>. HIDE DEF i, seen
    <2>2. loop'.want = loop.want
      BY <1>0, <2>1 DEF LoopType
    <2>. QED  BY <2>1, <2>2 DEF Numbered
  <1>5. CASE PickRunning
    <2>1. /\ pc' = "alloc" /\ schedSeq' = schedSeq /\ procSeq' = procSeq
          /\ batchQueue' = batchQueue
      BY <1>5 DEF PickRunning
    <2>2. LoopExact'
      BY <1>5, PickRunningCounts DEF Counts
    <2>3. loop'.want \in Nat
      BY <2>1, <2>2 DEF LoopExact, WantFits
    <2>. QED  BY <2>1, <2>3 DEF Numbered
  <1>6. CASE AllocateRunning
    <2>1. /\ loop'.want = 0 /\ schedSeq' = schedSeq /\ procSeq' = procSeq
          /\ batchQueue' = batchQueue
      BY <1>6, AllocateRunningIs
    <2>. QED  BY <2>1 DEF Numbered
  <1>7. CASE PreemptForRunning
    <2>. DEFINE v == Victim
                s == <<v>>
    <2>1. /\ v \in Requests /\ PreemptRequests(s, RequiresKVDelivery) /\ loop'.want = loop.want
          /\ schedSeq' = schedSeq /\ procSeq' = procSeq
      BY <1>7, PreemptForRunningIs
    <2>2. ToSet(s) = {v}
      BY DEF ToSet
    <2>. HIDE DEF v, s
    <2>3. {v} \in SUBSET Requests /\ batchQueue' = MarkOld({v})
      BY <2>1, <2>2 DEF PreemptRequests
    <2>. QED  BY <2>1, <2>3, MarkedNumbers
  <1>8. CASE SkipWaiting \/ EndWaiting
    <2>1. PICK sk : loop' = [loop EXCEPT !.stepSkipped = sk]
      BY <1>8 DEF SkipWaiting, EndWaiting
    <2>2. schedSeq' = schedSeq /\ procSeq' = procSeq /\ batchQueue' = batchQueue
      BY <1>8 DEF SkipWaiting, EndWaiting
    <2>3. loop'.want = loop.want
      BY <1>0, <2>1 DEF LoopType
    <2>. QED  BY <2>2, <2>3 DEF Numbered
  <1>9. CASE AdmitWaiting
    <2>1. /\ loop'.want = loop.want /\ schedSeq' = schedSeq /\ procSeq' = procSeq
          /\ batchQueue' = batchQueue
      BY <1>9, AdmitWaitingIs
    <2>. QED  BY <2>1 DEF Numbered
  <1>10. CASE EndSchedule
    BY <1>10, EndScheduleNumbers
  <1>11. CASE UpdateFromOutput
    BY <1>11, UpdateHasOutcome, UpdateNumbers
  <1>. QED  BY <1>1, <1>2, <1>3, <1>4, <1>5, <1>6, <1>7, <1>8, <1>9, <1>10, <1>11
            DEF Next, EngineStep

(* Numbered holds at the start. *)
LEMMA InitNumbered ==
  ASSUME Init
  PROVE  Numbered
  <1>. DEFINE Q == batchQueue
              f == NumbersOf(Q)
              D == 1..Len(Q)
  <1>1. Q \in Seq(BatchType) /\ D = {} /\ schedSeq = 0 /\ procSeq = 0 /\ loop.want = 0
    BY DEF Init, NoLoop
  <1>2. f \in [D -> Nat]
    BY <1>1, NumbersType
  <1>. HIDE DEF f, D
  <1>3. Total(f) = 0
    BY <1>1, <1>2, TotalZero
  <1>. QED  BY <1>1, <1>3 DEF Numbered, f

(* Numbered is an invariant. *)
LEMMA NumberedHolds == Spec => [](Base /\ Counts /\ Numbered)
  <1>1. Init => Base /\ Counts /\ Numbered
    BY InitBase, InitCounts, InitNumbered
  <1>2. Base /\ Counts /\ Numbered /\ [Next]_vars => (Base /\ Counts /\ Numbered)'
    BY BaseStep, CountsStep, NumberedStep
  <1>. QED  BY <1>1, <1>2, PTL DEF Spec

(* Types: none of the counters that update_from_output decrements goes     *)
(* below zero (the assertion of async_scheduler.py 112), and the token     *)
(* budget stays within its bounds (scheduler.py 1442).                     *)
THEOREM TypeCorrect == Spec => []TypeOK
  <1>1. Base /\ Counts /\ Numbered => TypeOK
    <2>. SUFFICES ASSUME Base, Counts, Numbered  PROVE TypeOK
      OBVIOUS
    <2>1. Types /\ Cursor /\ LoopExact /\ \A r \in Requests : CountedNow(r)
      BY DEF Base, Counts
    <2>2. req \in [Requests ->
       [status : {"NONE", "WAITING", "RUNNING", "PREEMPTED", "FINISHED"},
        tokens : Nat, computed : Nat, inFlight : Nat, stale : Nat,
        dropStale : BOOLEAN, placeholders : Nat, spec : 0..NumSpec,
        lastSeq : 0..schedSeq, prefillChunk : BOOLEAN, notBefore : 0..PPSize]]
      <3>1. req \in [Requests -> RequestType(schedSeq)]
        BY <2>1 DEF Types
      <3>2. ASSUME NEW r \in Requests
            PROVE  req[r] \in
              [status : {"NONE", "WAITING", "RUNNING", "PREEMPTED", "FINISHED"},
               tokens : Nat, computed : Nat, inFlight : Nat, stale : Nat,
               dropStale : BOOLEAN, placeholders : Nat, spec : 0..NumSpec,
               lastSeq : 0..schedSeq, prefillChunk : BOOLEAN, notBefore : 0..PPSize]
        <4>. DEFINE q == req[r]
        <4>1. q \in RequestType(schedSeq)
          BY <3>1
        <4>2. /\ q.tokens \in Nat /\ q.computed \in Nat /\ q.inFlight \in Nat /\ q.stale \in Nat
              /\ q.placeholders \in Nat
          BY <2>1 DEF CountedNow, Counted
        <4>. HIDE DEF q
        <4>3. q \in
              [status : {"NONE", "WAITING", "RUNNING", "PREEMPTED", "FINISHED"},
               tokens : Nat, computed : Nat, inFlight : Nat, stale : Nat,
               dropStale : BOOLEAN, placeholders : Nat, spec : 0..NumSpec,
               lastSeq : 0..schedSeq, prefillChunk : BOOLEAN, notBefore : 0..PPSize]
          BY <4>1, <4>2 DEF RequestType, Statuses
        <4>. QED  BY <4>3 DEF q
      <3>. QED  BY <3>1, <3>2
    <2>3. \A q \in {waiting, skipped, running, loop.stepSkipped} : q \in Seq(Requests)
      BY <2>1 DEF Types, LoopType
    <2>4. kv.free \subseteq Blocks /\ kv.tables \in [Requests -> SUBSET Blocks]
      BY <2>1 DEF Types, KVType
    <2>5. schedSeq \in Nat /\ procSeq \in 0..schedSeq
      <3>1. schedSeq \in Nat /\ procSeq \in Nat /\ batchQueue \in Seq(BatchType)
        BY <2>1 DEF Types
      <3>. DEFINE n == Total(NumbersOf(batchQueue))
      <3>2. n \in Nat /\ schedSeq = procSeq + IF DeferBlockFree THEN n ELSE 0
        BY <3>1, NumbersType DEF Numbered
      <3>. HIDE DEF n
      <3>. QED  BY <3>1, <3>2
    <2>6. loop.budget \in 0..TokenBudget
      <3>1. pc \in {"idle", "process"} => loop.budget = 0
        BY NoLoopExact
      <3>. DEFINE n == Total(loop.toks)
      <3>2. /\ loop.budget \in Nat /\ TokenBudget \in Nat /\ loop.toks \in [Requests -> Nat]
            /\ pc \notin {"idle", "process"} => n + loop.budget = TokenBudget
        BY <2>1, Numbers DEF LoopExact
      <3>3. n \in Nat
        <4>. DEFINE f == loop.toks
        <4>1. f \in [Requests -> Nat]
          BY <3>2
        <4>. HIDE DEF f
        <4>2. Total(f) \in Nat
          BY <4>1, Finiteness, UnitsFinite
        <4>. QED  BY <4>2 DEF f
      <3>. HIDE DEF n
      <3>. QED  BY <3>1, <3>2, <3>3
    <2>. QED  BY <2>1, <2>2, <2>3, <2>4, <2>5, <2>6 DEF TypeOK, Types, Cursor, Numbered
  <1>. QED  BY <1>1, NumberedHolds, PTL
-----------------------------------------------------------------------------
(* What the client is sent *)

(* The batch b returns an output of r that will not be dropped. *)
Gives(b, q, r) == b.toks[r] > 0 /\ ~(r \in b.old /\ q.dropStale)
(* ... and the worker got the whole sequence of r with it. *)
Pending(Q, q, r) == \E i \in DOMAIN Q : Gives(Q[i], q, r) /\ Q[i].fresh[r] > 0

(* The sequence that the worker holds when it answers for r is the one     *)
(* that the scheduler holds.  n tokens of r are being sent with the        *)
(* current call of schedule(); len is the worker's length.                 *)
Synced(Q, q, r, n, len) ==
  /\ q.status \in {"WAITING", "PREEMPTED"} =>
       \A i \in DOMAIN Q : Q[i].toks[r] > 0 => r \in Q[i].old
  /\ \A i \in DOMAIN Q : Gives(Q[i], q, r) /\ Q[i].fresh[r] > 0 =>
       /\ Q[i].fresh[r] = q.tokens
       /\ \A j \in DOMAIN Q : j < i => ~Gives(Q[j], q, r)
  /\ ~Pending(Q, q, r) /\ n = 0 /\ (q.status = "RUNNING" \/ \E i \in DOMAIN Q : Gives(Q[i], q, r))
       => len = q.tokens
  /\ n > 0 => n = q.tokens /\ \A i \in DOMAIN Q : ~Gives(Q[i], q, r)
  /\ q.status = "RUNNING" /\ q.stale > 0 /\ q.dropStale => n > 0 \/ Pending(Q, q, r)

(* A request whose life a step does not touch *)
LEMMA KeepSynced ==
  ASSUME NEW Q, NEW q, NEW w, NEW r, NEW n, NEW len, Synced(Q, q, r, n, len),
         w.status = q.status, w.tokens = q.tokens, w.stale = q.stale, w.dropStale = q.dropStale
  PROVE  Synced(Q, w, r, n, len)
  <1>1. \A b : Gives(b, w, r) <=> Gives(b, q, r)
    BY DEF Gives
  <1>2. Pending(Q, w, r) <=> Pending(Q, q, r)
    BY <1>1 DEF Pending
  <1>. QED  BY <1>1, <1>2 DEF Synced

(* Nothing is in flight, or nothing of it is stale. *)
LEMMA NoneSent ==
  ASSUME NEW Q, QueueOK(Q), NEW r \in Requests
  PROVE  /\ Total(SentOf(Q, r)) = 0 => \A i \in DOMAIN Q : ~(Q[i].toks[r] > 0)
         /\ Total(StaleOf(Q, r)) = 0 => \A i \in DOMAIN Q : Q[i].toks[r] > 0 => r \notin Q[i].old
  <1>. DEFINE D == 1..Len(Q)
              f == SentOf(Q, r)
              g == StaleOf(Q, r)
  <1>1. /\ DOMAIN Q = D /\ IsFiniteSet(D) /\ f \in [D -> Nat] /\ g \in [D -> Nat]
        /\ Total(f) \in Nat /\ Total(g) \in Nat
    BY SumsType
  <1>2. \A i \in D : f[i] = Q[i].toks[r] /\ g[i] = IF r \in Q[i].old THEN Q[i].toks[r] ELSE 0
    BY <1>1 DEF SentOf, StaleOf
  <1>. HIDE DEF D, f, g
  <1>3. \A i \in D : f[i] <= Total(f) /\ f[i] \in Nat
    BY ONLY <1>1, TotalAtLeast
  <1>4. \A i \in D : g[i] <= Total(g) /\ g[i] \in Nat
    BY ONLY <1>1, TotalAtLeast
  <1>5. Total(f) = 0 => \A i \in DOMAIN Q : ~(Q[i].toks[r] > 0)
    BY <1>1, <1>2, <1>3
  <1>6. Total(g) = 0 => \A i \in DOMAIN Q : Q[i].toks[r] > 0 => r \notin Q[i].old
    BY <1>1, <1>2, <1>4
  <1>. QED  BY <1>5, <1>6 DEF f, g

(* A request with nothing in flight that does not run *)
LEMMA IdleSynced ==
  ASSUME NEW Q, NEW q, NEW r, NEW len, \A i \in DOMAIN Q : ~(Q[i].toks[r] > 0),
         q.status # "RUNNING"
  PROVE  Synced(Q, q, r, 0, len)
  BY DEF Synced, Gives, Pending

(* The preempted request keeps its outputs in flight, or drops them all. *)
LEMMA PreemptedSynced ==
  ASSUME NEW Q, NEW P, NEW q, NEW w, NEW r, NEW len, Synced(Q, q, r, 0, len),
         q.status = "RUNNING", q.stale \in Nat, q.stale = 0 \/ q.dropStale,
         q.stale = 0 => \A i \in DOMAIN Q : Q[i].toks[r] > 0 => r \notin Q[i].old,
         DOMAIN P = DOMAIN Q,
         \A i \in DOMAIN Q : /\ P[i].toks = Q[i].toks /\ P[i].fresh = Q[i].fresh
                             /\ r \in P[i].old,
         w.status = "PREEMPTED", w.tokens = q.tokens,
         w.dropStale \/ ~(q.dropStale /\ q.stale > 0)
  PROVE  Synced(P, w, r, 0, len)
  <1>1. \A i \in DOMAIN P : P[i].toks[r] > 0 => r \in P[i].old
    OBVIOUS
  <1>2. CASE w.dropStale
    <2>1. \A i \in DOMAIN P : ~Gives(P[i], w, r)
      BY <1>2 DEF Gives
    <2>. QED  BY <1>1, <2>1 DEF Synced, Pending
  <1>3. CASE ~w.dropStale
    <2>1. q.stale = 0
      BY <1>3
    <2>2. \A i \in DOMAIN Q : Gives(P[i], w, r) <=> Gives(Q[i], q, r)
      BY <1>3, <2>1 DEF Gives
    <2>3. Pending(P, w, r) <=> Pending(Q, q, r)
      BY <2>2 DEF Pending
    <2>. QED  BY <1>1, <2>2, <2>3 DEF Synced
  <1>. QED  BY <1>2, <1>3

(* Marking other requests changes nothing for r. *)
LEMMA MarkedSynced ==
  ASSUME NEW Q, NEW P, NEW q, NEW r, NEW n, NEW len, Synced(Q, q, r, n, len),
         DOMAIN P = DOMAIN Q,
         \A i \in DOMAIN Q : /\ P[i].toks = Q[i].toks /\ P[i].fresh = Q[i].fresh
                             /\ r \in P[i].old <=> r \in Q[i].old
  PROVE  Synced(P, q, r, n, len)
  <1>1. \A i \in DOMAIN Q : Gives(P[i], q, r) <=> Gives(Q[i], q, r)
    BY DEF Gives
  <1>2. Pending(P, q, r) <=> Pending(Q, q, r)
    BY <1>1 DEF Pending
  <1>. QED  BY <1>1, <1>2 DEF Synced

(* A request is admitted only when nothing of it that is in flight will be *)
(* delivered, and the whole of it is sent to the worker.                   *)
LEMMA AdmittedSynced ==
  ASSUME NEW Q, NEW q, NEW w, NEW r, NEW n, NEW len, NEW m, Synced(Q, q, r, n, len),
         q.status \in {"WAITING", "PREEMPTED"}, q.stale \in Nat, q.stale = 0 \/ q.dropStale,
         q.stale = 0 => \A i \in DOMAIN Q : ~(Q[i].toks[r] > 0),
         w.status = "RUNNING", w.tokens = q.tokens, w.dropStale = q.dropStale,
         m = q.tokens, q.tokens \in Nat, q.tokens > 0
  PROVE  Synced(Q, w, r, m, len)
  <1>1. \A i \in DOMAIN Q : ~Gives(Q[i], w, r)
    BY DEF Gives, Synced
  <1>. QED  BY <1>1 DEF Synced, Pending

(* The batch that schedule() makes *)
LEMMA ScheduledSynced ==
  ASSUME NEW Q, NEW P, NEW q, NEW w, NEW r, NEW n \in Nat, NEW len, Synced(Q, q, r, n, len),
         Len(Q) \in Nat, DOMAIN Q = 1..Len(Q), DOMAIN P = 1..(Len(Q) + 1),
         \A i \in 1..Len(Q) : P[i] = Q[i],
         NEW b, P[Len(Q) + 1] = b, b.fresh[r] = n, b.old = {}, n > 0 => b.toks[r] > 0,
         b.toks[r] > 0 => q.status = "RUNNING",
         w.status = q.status, w.tokens = q.tokens, w.stale = q.stale, w.dropStale = q.dropStale
  PROVE  Synced(P, w, r, 0, len)
  <1>. DEFINE k == Len(Q)
  <1>0. k + 1 \in DOMAIN P /\ \A i \in DOMAIN P : i \in DOMAIN Q \/ i = k + 1
    OBVIOUS
  <1>1. \A i \in DOMAIN Q : i \in DOMAIN P /\ (Gives(P[i], w, r) <=> Gives(Q[i], q, r))
    BY DEF Gives
  <1>2. Gives(b, w, r) <=> b.toks[r] > 0
    BY DEF Gives
  <1>3. Pending(P, w, r) <=> Pending(Q, q, r) \/ n > 0
    <2>1. Pending(Q, q, r) => Pending(P, w, r)
      BY <1>1 DEF Pending
    <2>2. n > 0 => Pending(P, w, r)
      BY <1>0, <1>2 DEF Pending
    <2>3. Pending(P, w, r) => Pending(Q, q, r) \/ n > 0
      BY <1>0, <1>1, <1>2 DEF Pending
    <2>. QED  BY <2>1, <2>2, <2>3
  <1>4. w.status \in {"WAITING", "PREEMPTED"} =>
          \A i \in DOMAIN P : P[i].toks[r] > 0 => r \in P[i].old
    BY <1>0 DEF Synced
  <1>5. ASSUME NEW i \in DOMAIN P, Gives(P[i], w, r), P[i].fresh[r] > 0
        PROVE  P[i].fresh[r] = w.tokens /\ \A j \in DOMAIN P : j < i => ~Gives(P[j], w, r)
    <2>1. CASE i = k + 1
      <3>1. n > 0 /\ n = q.tokens /\ \A j \in DOMAIN Q : ~Gives(Q[j], q, r)
        BY <1>5, <2>1 DEF Synced
      <3>2. \A j \in DOMAIN P : j < i => j \in DOMAIN Q
        BY <1>0, <2>1
      <3>. QED  BY <1>1, <2>1, <3>1, <3>2
    <2>2. CASE i \in DOMAIN Q
      <3>1. Gives(Q[i], q, r) /\ Q[i].fresh[r] > 0
        BY <1>1, <1>5, <2>2
      <3>2. Q[i].fresh[r] = q.tokens /\ \A j \in DOMAIN Q : j < i => ~Gives(Q[j], q, r)
        BY <2>2, <3>1 DEF Synced
      <3>3. \A j \in DOMAIN P : j < i => j \in DOMAIN Q
        BY <1>0, <2>2
      <3>. QED  BY <1>1, <2>2, <3>2, <3>3
    <2>. QED  BY <1>0, <2>1, <2>2
  <1>6. ~Pending(P, w, r) /\ (w.status = "RUNNING" \/ \E i \in DOMAIN P : Gives(P[i], w, r))
          => len = w.tokens
    BY <1>0, <1>1, <1>2, <1>3 DEF Synced
  <1>7. w.status = "RUNNING" /\ w.stale > 0 /\ w.dropStale => Pending(P, w, r)
    BY <1>3 DEF Synced
  <1>. QED  BY <1>4, <1>5, <1>6, <1>7 DEF Synced

(* The worker's answer starts where the scheduler's sequence ends. *)
LEMMA HeadBase ==
  ASSUME NEW Q, NEW q, NEW r, NEW len, Synced(Q, q, r, 0, len), Len(Q) \in Nat, Len(Q) > 0,
         DOMAIN Q = 1..Len(Q), Gives(Q[1], q, r), Q[1].fresh[r] \in Nat
  PROVE  /\ (IF Q[1].fresh[r] > 0 THEN Q[1].fresh[r] ELSE len) = q.tokens
         /\ \A i \in DOMAIN Q : 1 < i => ~(Gives(Q[i], q, r) /\ Q[i].fresh[r] > 0)
  <1>1. 1 \in DOMAIN Q /\ \A i \in DOMAIN Q : i = 1 \/ 1 < i
    OBVIOUS
  <1>2. \A i \in DOMAIN Q : 1 < i => ~(Gives(Q[i], q, r) /\ Q[i].fresh[r] > 0)
    BY <1>1 DEF Synced
  <1>3. CASE Q[1].fresh[r] > 0
    BY <1>1, <1>2, <1>3 DEF Synced
  <1>4. CASE ~(Q[1].fresh[r] > 0)
    <2>1. ~Pending(Q, q, r)
      BY <1>1, <1>2, <1>4 DEF Pending
    <2>2. len = q.tokens
      BY <1>1, <2>1 DEF Synced
    <2>. QED  BY <1>2, <1>4, <2>2
  <1>. QED  BY <1>3, <1>4

(* The oldest batch has no output of r to deliver. *)
LEMMA PassedSynced ==
  ASSUME NEW Q, NEW P, NEW q, NEW w, NEW r, NEW len, NEW len2, Synced(Q, q, r, 0, len),
         Len(Q) \in Nat, Len(Q) > 0, DOMAIN Q = 1..Len(Q), DOMAIN P = 1..(Len(Q) - 1),
         \A i \in 1..(Len(Q) - 1) : P[i] = Q[i + 1], ~Gives(Q[1], q, r),
         len2 = len \/ (q.stale > 0 /\ q.dropStale /\ q.status \in {"WAITING", "PREEMPTED", "RUNNING"}),
         w.status = q.status, w.tokens = q.tokens, w.stale > 0 => q.stale > 0,
         w.dropStale = q.dropStale
  PROVE  Synced(P, w, r, 0, len2)
  <1>1. /\ \A i \in DOMAIN P : i + 1 \in DOMAIN Q /\ P[i] = Q[i + 1]
        /\ \A i \in DOMAIN Q : i = 1 \/ (i - 1 \in DOMAIN P /\ P[i - 1] = Q[i])
    <2>1. \A i \in DOMAIN P : i + 1 \in DOMAIN Q /\ P[i] = Q[i + 1]
      OBVIOUS
    <2>2. ASSUME NEW i \in DOMAIN Q, i # 1  PROVE i - 1 \in DOMAIN P /\ P[i - 1] = Q[i]
      <3>1. i - 1 \in 1..(Len(Q) - 1) /\ (i - 1) + 1 = i
        BY <2>2
      <3>. QED  BY <3>1
    <2>. QED  BY <2>1, <2>2
  <1>2. \A b : Gives(b, w, r) <=> Gives(b, q, r)
    BY DEF Gives
  <1>3. Pending(P, w, r) <=> Pending(Q, q, r)
    BY <1>1, <1>2 DEF Pending
  <1>4. (\E i \in DOMAIN P : Gives(P[i], w, r)) <=> \E i \in DOMAIN Q : Gives(Q[i], q, r)
    BY <1>1, <1>2
  <1>5. w.status \in {"WAITING", "PREEMPTED"} =>
          \A i \in DOMAIN P : P[i].toks[r] > 0 => r \in P[i].old
    BY <1>1 DEF Synced
  <1>6. ASSUME NEW i \in DOMAIN P, Gives(P[i], w, r), P[i].fresh[r] > 0
        PROVE  P[i].fresh[r] = w.tokens /\ \A j \in DOMAIN P : j < i => ~Gives(P[j], w, r)
    <2>1. i + 1 \in DOMAIN Q /\ Gives(Q[i + 1], q, r) /\ Q[i + 1].fresh[r] > 0
      BY <1>1, <1>2, <1>6
    <2>2. /\ Q[i + 1].fresh[r] = q.tokens
          /\ \A j \in DOMAIN Q : j < i + 1 => ~Gives(Q[j], q, r)
      BY <2>1 DEF Synced
    <2>3. \A j \in DOMAIN P : j < i => j + 1 < i + 1 /\ j + 1 \in DOMAIN Q
      OBVIOUS
    <2>. QED  BY <1>1, <1>2, <2>2, <2>3
  <1>7. ~Pending(P, w, r) /\ (w.status = "RUNNING" \/ \E i \in DOMAIN P : Gives(P[i], w, r))
          => len2 = w.tokens
    <2>1. CASE len2 = len
      BY <1>3, <1>4, <2>1 DEF Synced
    <2>2. CASE q.stale > 0 /\ q.dropStale /\ q.status = "RUNNING"
      BY <1>3, <2>2 DEF Synced
    <2>3. CASE q.dropStale /\ q.status \in {"WAITING", "PREEMPTED"}
      <3>1. \A i \in DOMAIN Q : ~Gives(Q[i], q, r)
        BY <2>3 DEF Synced, Gives
      <3>. QED  BY <1>4, <2>3, <3>1
    <2>. QED  BY <2>1, <2>2, <2>3
  <1>8. w.status = "RUNNING" /\ w.stale > 0 /\ w.dropStale => Pending(P, w, r)
    BY <1>3 DEF Synced
  <1>. QED  BY <1>5, <1>6, <1>7, <1>8 DEF Synced

(* The oldest batch has delivered its output of r. *)
LEMMA GivenSynced ==
  ASSUME NEW Q, NEW P, NEW q, NEW w, NEW r, NEW len, NEW len2, Synced(Q, q, r, 0, len),
         Len(Q) \in Nat, Len(Q) > 0, DOMAIN Q = 1..Len(Q), DOMAIN P = 1..(Len(Q) - 1),
         \A i \in 1..(Len(Q) - 1) : P[i] = Q[i + 1], Gives(Q[1], q, r), Q[1].fresh[r] \in Nat,
         ~(w.stale > 0 /\ w.dropStale), w.status = q.status, len2 = w.tokens,
         w.dropStale = q.dropStale
  PROVE  Synced(P, w, r, 0, len2)
  <1>1. \A i \in DOMAIN P : i + 1 \in DOMAIN Q /\ P[i] = Q[i + 1] /\ 1 < i + 1
    OBVIOUS
  <1>2. \A b : Gives(b, w, r) <=> Gives(b, q, r)
    BY DEF Gives
  <1>3. \A i \in DOMAIN Q : 1 < i => ~(Gives(Q[i], q, r) /\ Q[i].fresh[r] > 0)
    BY HeadBase
  <1>4. \A i \in DOMAIN P : ~(Gives(P[i], w, r) /\ P[i].fresh[r] > 0)
    BY <1>1, <1>2, <1>3
  <1>5. w.status \in {"WAITING", "PREEMPTED"} =>
          \A i \in DOMAIN P : P[i].toks[r] > 0 => r \in P[i].old
    BY <1>1 DEF Synced
  <1>. QED  BY <1>4, <1>5 DEF Synced

(* The output of r is its sequence after the prompt, in order. *)
Orderly(d, q, r) ==
  /\ q.status # "FINISHED" => Len(d) = q.tokens - PromptLen[r]
  /\ \A i \in DOMAIN d : d[i] = PromptLen[r] + i

(* The next tokens continue the output where it ends. *)
LEMMA MoreOrderly ==
  ASSUME NEW r \in Requests, NEW d \in Seq(Int), NEW e, NEW q, NEW w, NEW t \in Seq(Int), e = d \o t,
         Orderly(d, q, r), q.status # "FINISHED", q.tokens \in Nat,
         \A i \in 1..Len(t) : t[i] = q.tokens + i,
         w.status = "FINISHED" \/ w.tokens = q.tokens + Len(t)
  PROVE  Orderly(e, w, r)
  <1>. DEFINE n == Len(d)
              m == Len(t)
              p == PromptLen[r]
  <1>1. n \in Nat /\ m \in Nat /\ p \in Nat /\ n = q.tokens - p
    BY LenProperties, Numbers DEF Orderly
  <1>2. /\ Len(e) = n + m /\ e \in Seq(Int) /\ (\A i \in 1..n : e[i] = d[i])
        /\ \A i \in 1..m : e[n + i] = t[i]
    BY ConcatProperties
  <1>3. DOMAIN d = 1..n /\ DOMAIN e = 1..(n + m)
    BY <1>2, LenProperties
  <1>4. \A i \in 1..n : d[i] = p + i
    BY <1>3 DEF Orderly
  <1>5. \A i \in 1..m : t[i] = q.tokens + i
    OBVIOUS
  <1>. HIDE DEF n, m, p
  <1>6. ASSUME NEW i \in 1..(n + m)  PROVE e[i] = p + i
    <2>1. CASE i <= n
      BY <1>1, <1>2, <1>4, <2>1
    <2>2. CASE ~(i <= n)
      <3>. DEFINE j == i - n
      <3>0. i \in Int /\ 1 <= i /\ i <= n + m /\ n < i
        BY <1>1, <1>6, <2>2
      <3>1. j \in 1..m /\ n + j = i /\ j \in Int
        BY ONLY <1>1, <3>0
      <3>. HIDE DEF j
      <3>2. e[i] = t[j] /\ t[j] = q.tokens + j
        BY <1>2, <1>5, <3>1
      <3>3. n = q.tokens - p /\ q.tokens \in Int /\ n \in Int /\ p \in Int
        BY <1>1
      <3>. DEFINE x == q.tokens
      <3>4. n + j = i /\ n = x - p /\ x \in Int /\ n \in Int /\ p \in Int /\ j \in Int
        BY ONLY <3>1, <3>3
      <3>. HIDE DEF x
      <3>5. x + j = p + i
        BY ONLY <3>4
      <3>. QED  BY ONLY <3>2, <3>5 DEF x
    <2>. QED  BY <2>1, <2>2
  <1>7. w.status # "FINISHED" => Len(e) = w.tokens - p
    BY <1>1, <1>2 DEF m
  <1>. QED  BY <1>3, <1>6, <1>7 DEF Orderly, p

InSync(r) ==
  /\ Known(r) => Synced(batchQueue, req[r], r, loop.fresh[r], workerLen[r])
  /\ Orderly(delivered[r], req[r], r)
  /\ loop.fresh[r] > 0 => loop.toks[r] > 0
AllInSync == \A r \in Requests : InSync(r)

(* A step that leaves what InSync speaks of alone keeps it. *)
LEMMA KeepInSync ==
  ASSUME NEW r \in Requests, InSync(r), batchQueue' = batchQueue, loop'.fresh[r] = loop.fresh[r],
         workerLen' = workerLen, delivered' = delivered,
         loop'.toks[r] = loop.toks[r] \/ loop.fresh[r] = 0,
         req'[r].status = req[r].status, req'[r].tokens = req[r].tokens,
         req'[r].stale = req[r].stale, req'[r].dropStale = req[r].dropStale
  PROVE  InSync(r)'
  <1>. DEFINE q == req[r]
              w == req'[r]
  <1>1. Known(r)' <=> Known(r)
    BY DEF Known
  <1>2. w.status = q.status /\ w.tokens = q.tokens /\ w.stale = q.stale /\ w.dropStale = q.dropStale
    OBVIOUS
  <1>3. /\ Known(r) => Synced(batchQueue, q, r, loop.fresh[r], workerLen[r])
        /\ Orderly(delivered[r], q, r)
    BY DEF InSync
  <1>. HIDE DEF q, w
  <1>4. Known(r) => Synced(batchQueue, w, r, loop.fresh[r], workerLen[r])
    BY <1>2, <1>3, KeepSynced
  <1>5. Orderly(delivered[r], w, r)
    BY <1>2, <1>3 DEF Orderly
  <1>. QED  BY <1>1, <1>4, <1>5 DEF InSync, w

(* add_request keeps AllInSync. *)
LEMMA AddRequestSync ==
  ASSUME Base, Counts, AllInSync, NEW r \in Requests, AddRequest(r)
  PROVE  AllInSync'
  <1>1. /\ pc = "idle" /\ loop' = loop /\ batchQueue' = batchQueue
        /\ req[r].status = "NONE" /\ req' = [req EXCEPT ![r].status = "WAITING"]
        /\ workerLen' = workerLen /\ delivered' = delivered
    BY DEF AddRequest
  <1>2. Types /\ QueueOK(batchQueue) /\ CountedNow(r)
    BY DEF Base, Counts
  <1>3. \A s \in Requests \ {r} : req'[s] = req[s]
    BY <1>1, <1>2, StatusUpdate DEF Statuses
  <1>4. \A s \in Requests \ {r} : InSync(s)'
    BY <1>1, <1>3, KeepInSync DEF AllInSync
  <1>5. InSync(r)'
    <2>. DEFINE q == req[r]
                w == req'[r]
    <2>1. w = [status |-> "WAITING", tokens |-> q.tokens, computed |-> q.computed,
              inFlight |-> q.inFlight, stale |-> q.stale,
              dropStale |-> q.dropStale, placeholders |-> q.placeholders,
              spec |-> q.spec, lastSeq |-> q.lastSeq,
              prefillChunk |-> q.prefillChunk, notBefore |-> q.notBefore]
      BY <1>1, <1>2, StatusUpdate DEF Statuses
    <2>2. Sent(r) = 0
      BY <1>1, <1>2 DEF CountedNow, Counted
    <2>3. \A i \in DOMAIN batchQueue : ~(batchQueue[i].toks[r] > 0)
      BY <1>2, <2>2, NoneSent DEF Sent
    <2>4. loop.fresh[r] = 0
      BY <1>1, NoLoopExact
    <2>5. Orderly(delivered[r], q, r) /\ q.status = "NONE"
      BY <1>1 DEF AllInSync, InSync
    <2>. HIDE DEF q, w
    <2>6. w.status = "WAITING" /\ w.tokens = q.tokens
      BY <2>1
    <2>7. Synced(batchQueue, w, r, 0, workerLen[r])
      BY <2>3, <2>6, IdleSynced
    <2>8. Orderly(delivered[r], w, r)
      BY <2>5, <2>6 DEF Orderly
    <2>. QED  BY <1>1, <2>4, <2>7, <2>8 DEF InSync, w
  <1>. QED  BY <1>4, <1>5 DEF AllInSync

(* finish_requests keeps AllInSync. *)
LEMMA FinishRequestSync ==
  ASSUME Base, AllInSync, NEW r \in Requests, FinishRequest(r)
  PROVE  AllInSync'
  <1>1. /\ pc \in {"idle", "process"} /\ loop' = loop /\ batchQueue' = batchQueue
        /\ req' = [req EXCEPT ![r] = Finished(req[r], r)]
        /\ workerLen' = workerLen /\ delivered' = delivered
    BY DEF FinishRequest
  <1>2. Types
    BY DEF Base
  <1>3. req'[r] = Finished(req[r], r) /\ \A s \in Requests \ {r} : req'[s] = req[s]
    BY <1>1, <1>2 DEF Types
  <1>4. \A s \in Requests \ {r} : InSync(s)'
    BY <1>1, <1>3, KeepInSync DEF AllInSync
  <1>5. req'[r].status = "FINISHED"
    <2>. DEFINE q == req[r]
    <2>1. q \in RequestType(schedSeq) /\ schedSeq \in Nat
      BY <1>2 DEF Types
    <2>. HIDE DEF q
    <2>2. Finished(q, r).status = "FINISHED"
      BY <2>1, FinishedIs
    <2>. QED  BY <1>3, <2>2 DEF q
  <1>6. loop.fresh[r] = 0
    BY <1>1, NoLoopExact
  <1>7. ~Known(r)' /\ Orderly(delivered[r], req'[r], r)
    BY <1>5 DEF Known, Orderly, AllInSync, InSync
  <1>8. InSync(r)'
    BY <1>1, <1>6, <1>7 DEF InSync
  <1>. QED  BY <1>4, <1>8 DEF AllInSync

(* Preemption: what is in flight is kept or dropped as a whole. *)
LEMMA PreemptRequestsSync ==
  ASSUME Base, Counts, AllInSync, NEW s, NEW S, Lists(s, S), S \subseteq ToSet(running), NEW drop,
         drop \in BOOLEAN, PreemptRequests(s, drop), workerLen' = workerLen, delivered' = delivered,
         \A r \in S : loop'.fresh[r] = 0 /\ loop.fresh[r] = 0,
         \A r \in Requests \ S : loop'.toks[r] = loop.toks[r] /\ loop'.fresh[r] = loop.fresh[r]
  PROVE  AllInSync'
  <1>1. /\ \A r \in S : req'[r] = Preempted(req[r], drop) /\ req[r].status = "RUNNING"
        /\ \A r \in Requests \ S : req'[r] = req[r]
        /\ S \in SUBSET Requests /\ batchQueue' = MarkOld(S)
    <2>0. /\ Base /\ Lists(s, S) /\ S \subseteq ToSet(running) /\ drop \in BOOLEAN
          /\ PreemptRequests(s, drop)
      OBVIOUS
    <2>1. /\ S = ToSet(s) /\ S \in SUBSET Requests /\ batchQueue' = MarkOld(S)
      BY <2>0, PreemptRequestsBase DEF Lists
    <2>1a. req' = [r \in Requests |-> IF r \in S THEN Preempted(req[r], drop) ELSE req[r]]
      BY <2>1 DEF PreemptRequests
    <2>2. \A r \in ToSet(running) : req[r].status = "RUNNING"
      BY QueuesList
    <2>. QED  BY <2>1, <2>1a, <2>2
  <1>2. Types /\ QueueOK(batchQueue) /\ \A r \in Requests : CountedNow(r)
    BY DEF Base, Counts
  <1>. DEFINE Q == batchQueue
              P == batchQueue'
  <1>3. /\ DOMAIN P = DOMAIN Q
        /\ \A i \in DOMAIN Q :
             P[i] = [toks |-> Q[i].toks, spec |-> Q[i].spec, fresh |-> Q[i].fresh,
                     gen |-> Q[i].gen, old |-> Q[i].old \cup S, uses |-> Q[i].uses]
    BY <1>1, <1>2, MarkOldIs
  <1>4. /\ DOMAIN P = DOMAIN Q
        /\ \A i \in DOMAIN Q : /\ P[i].toks = Q[i].toks /\ P[i].fresh = Q[i].fresh
                               /\ P[i].old = Q[i].old \cup S
    BY <1>3
  <1>. HIDE DEF P
  <1>5. ASSUME NEW r \in Requests \ S  PROVE InSync(r)'
    <2>1. /\ Known(r) => Synced(Q, req[r], r, loop.fresh[r], workerLen[r])
          /\ Orderly(delivered[r], req[r], r) /\ (loop.fresh[r] > 0 => loop.toks[r] > 0)
      BY <1>5 DEF AllInSync, InSync
    <2>2. \A i \in DOMAIN Q : r \in P[i].old <=> r \in Q[i].old
      BY <1>4, <1>5
    <2>. DEFINE q == req[r]
    <2>. HIDE DEF q, Q
    <2>3. Known(r) => Synced(P, q, r, loop.fresh[r], workerLen[r])
      BY <1>4, <2>1, <2>2, MarkedSynced DEF q
    <2>4. req'[r] = req[r] /\ (Known(r)' <=> Known(r))
      BY <1>1, <1>5 DEF Known
    <2>. QED  BY <1>5, <2>1, <2>3, <2>4 DEF InSync, P, q
  <1>6. ASSUME NEW r \in S  PROVE InSync(r)'
    <2>. DEFINE q == req[r]
                w == req'[r]
                len == workerLen[r]
                d == drop \/ (q.dropStale /\ q.stale > 0)
    <2>1. /\ q \in RequestType(schedSeq) /\ r \in Requests /\ q.status = "RUNNING"
          /\ Counted(q, r, loop.toks[r], loop.spec[r], Sent(r), Stale(r), Outs(r))
          /\ w = Preempted(q, drop)
      BY <1>1, <1>2 DEF Types, CountedNow
    <2>2. Synced(Q, q, r, 0, len) /\ Orderly(delivered[r], q, r)
      BY <1>6, <2>1 DEF AllInSync, InSync, Known
    <2>. HIDE DEF q, w, len
    <2>3. q.stale \in Nat /\ (q.stale = 0 \/ q.dropStale) /\ q.stale = Stale(r)
      BY <2>1 DEF Counted
    <2>4. q.stale = 0 => \A i \in DOMAIN Q : Q[i].toks[r] > 0 => r \notin Q[i].old
      BY <1>2, <2>1, <2>3, NoneSent DEF Stale
    <2>5. w = [status |-> "PREEMPTED", tokens |-> q.tokens, computed |-> 0,
             inFlight |-> q.inFlight, stale |-> q.inFlight, dropStale |-> d,
             placeholders |-> 0, spec |-> 0, lastSeq |-> q.lastSeq,
             prefillChunk |-> q.prefillChunk, notBefore |-> q.notBefore]
      BY <2>1, PreemptedIs
    <2>6. (q.dropStale /\ q.stale > 0) => d
      OBVIOUS
    <2>. HIDE DEF d
    <2>7. w.status = "PREEMPTED" /\ w.tokens = q.tokens /\ w.dropStale = d
      BY <2>5
    <2>8. w.dropStale \/ ~(q.dropStale /\ q.stale > 0)
      BY <2>6, <2>7
    <2>9. \A i \in DOMAIN Q : /\ P[i].toks = Q[i].toks /\ P[i].fresh = Q[i].fresh
                              /\ r \in P[i].old
      BY <1>4, <1>6
    <2>. HIDE DEF Q
    <2>10. Synced(P, w, r, 0, len)
      BY <1>4, <2>1, <2>2, <2>3, <2>4, <2>7, <2>8, <2>9, PreemptedSynced
    <2>11. Orderly(delivered[r], w, r)
      BY <2>1, <2>2, <2>7 DEF Orderly
    <2>. QED  BY <1>6, <2>10, <2>11 DEF InSync, P, w, len
  <1>. QED  BY <1>5, <1>6 DEF AllInSync

(* reset_prefix_cache keeps AllInSync. *)
LEMMA ResetSync ==
  ASSUME Base, Counts, AllInSync, ResetPrefixCache
  PROVE  AllInSync'
  <1>. DEFINE S == ToSet(running)
  <1>1. /\ pc = "idle" /\ loop' = loop /\ PreemptRequests(running, TRUE) /\ Lists(running, S)
        /\ workerLen' = workerLen /\ delivered' = delivered
    BY QueuesList DEF ResetPrefixCache
  <1>2. /\ \A r \in S : loop'.fresh[r] = 0 /\ loop.fresh[r] = 0
        /\ \A r \in Requests \ S : loop'.toks[r] = loop.toks[r] /\ loop'.fresh[r] = loop.fresh[r]
    BY <1>1, NoLoopExact, QueuesList
  <1>. QED  BY <1>1, <1>2, PreemptRequestsSync

(* A preemption in the running loop keeps AllInSync. *)
LEMMA PreemptForRunningSync ==
  ASSUME Base, Counts, AllInSync, PreemptForRunning
  PROVE  AllInSync'
  <1>. DEFINE v == Victim
              s == <<v>>
              S == {v}
  <1>1. loop \in LoopType /\ LoopExact
    BY DEF Base, Types, Counts
  <1>2. /\ v \in Requests /\ v \in ToSet(running) /\ pc = "alloc"
        /\ PreemptRequests(s, RequiresKVDelivery)
        /\ loop'.toks = [loop.toks EXCEPT ![v] = 0] /\ loop'.fresh = loop.fresh
        /\ workerLen' = workerLen /\ delivered' = delivered
    BY PreemptForRunningIs
  <1>. HIDE DEF v
  <1>3. Lists(s, S) /\ S \subseteq ToSet(running) /\ RequiresKVDelivery \in BOOLEAN
    BY <1>2, SchedulerAssumption DEF Lists, IsInjective, ToSet
  <1>4. \A r \in Requests : loop.fresh[r] = 0 /\ loop'.fresh[r] = 0
    BY <1>1, <1>2 DEF LoopExact
  <1>5. \A r \in Requests \ S : loop'.toks[r] = loop.toks[r]
    BY <1>1, <1>2 DEF LoopType
  <1>6. \A r \in S : loop'.fresh[r] = 0 /\ loop.fresh[r] = 0
    BY <1>2, <1>4
  <1>. HIDE DEF s, S
  <1>. QED  BY <1>2, <1>3, <1>4, <1>5, <1>6, PreemptRequestsSync

(* A step that leaves the requests, the batches and what the worker and    *)
(* the client hold alone *)
LEMMA KeepAllInSync ==
  ASSUME AllInSync, batchQueue' = batchQueue, loop'.fresh = loop.fresh, loop'.toks = loop.toks,
         workerLen' = workerLen, delivered' = delivered, req' = req
  PROVE  AllInSync'
  BY KeepInSync DEF AllInSync

(* The start of schedule() keeps AllInSync. *)
LEMMA StartScheduleSync ==
  ASSUME Base, AllInSync, StartSchedule
  PROVE  AllInSync'
  <1>1. /\ pc = "idle" /\ loop = NoLoop /\ loop \in LoopType /\ Types
        /\ loop' = [loop EXCEPT !.budget = TokenBudget]
        /\ req' = [r \in Requests |-> [req[r] EXCEPT !.notBefore = MaxOf(@ - 1, 0)]]
        /\ batchQueue' = batchQueue /\ workerLen' = workerLen /\ delivered' = delivered
    BY NoLoopExact DEF StartSchedule, Types, Base
  <1>2. loop'.toks = loop.toks /\ loop'.fresh = loop.fresh
    BY <1>1 DEF LoopType
  <1>3. ASSUME NEW r \in Requests
        PROVE  /\ req'[r].status = req[r].status /\ req'[r].tokens = req[r].tokens
               /\ req'[r].stale = req[r].stale /\ req'[r].dropStale = req[r].dropStale
    <2>. DEFINE q == req[r]
                w == req'[r]
                m == MaxOf(q.notBefore - 1, 0)
    <2>1. q \in RequestType(schedSeq) /\ w = [q EXCEPT !.notBefore = m]
      BY <1>1 DEF Types
    <2>. HIDE DEF q, w, m
    <2>2. /\ w.status = q.status /\ w.tokens = q.tokens /\ w.stale = q.stale
          /\ w.dropStale = q.dropStale
      BY <2>1 DEF RequestType
    <2>. QED  BY <2>2 DEF q, w
  <1>. QED  BY <1>1, <1>2, <1>3, KeepInSync DEF AllInSync

(* Scheduling a running request keeps AllInSync. *)
LEMMA AllocateRunningSync ==
  ASSUME Base, Counts, AllInSync, AllocateRunning
  PROVE  AllInSync'
  <1>. DEFINE r == Current
              q == req[r]
              w == req'[r]
  <1>1. loop \in LoopType /\ LoopExact /\ Types
    BY DEF Base, Types, Counts
  <1>2. /\ pc = "alloc" /\ batchQueue' = batchQueue /\ workerLen' = workerLen
        /\ delivered' = delivered /\ loop.idx < Len(running)
        /\ loop'.toks = [loop.toks EXCEPT ![r] = loop.want] /\ loop'.fresh = loop.fresh
        /\ w = [status |-> "RUNNING", tokens |-> q.tokens,
                computed |-> q.computed,
                inFlight |-> q.inFlight, stale |-> q.stale,
                dropStale |-> q.dropStale, placeholders |-> q.placeholders,
                spec |-> 0, lastSeq |-> q.lastSeq,
                prefillChunk |-> q.prefillChunk, notBefore |-> q.notBefore]
        /\ \A s \in Requests \ {r} : req'[s] = req[s]
    BY AllocateRunningIs
  <1>3. r \in Requests /\ q.status = "RUNNING"
    BY <1>2, CurrentRuns
  <1>4. \A s \in Requests : loop.fresh[s] = 0 /\ loop'.fresh[s] = 0
    BY <1>1, <1>2 DEF LoopExact
  <1>5. /\ w.status = q.status /\ w.tokens = q.tokens /\ w.stale = q.stale
        /\ w.dropStale = q.dropStale
    <2>. HIDE DEF q, w
    <2>. QED  BY <1>2, <1>3
  <1>6. \A s \in Requests : /\ req'[s].status = req[s].status /\ req'[s].tokens = req[s].tokens
                            /\ req'[s].stale = req[s].stale /\ req'[s].dropStale = req[s].dropStale
    <2>. HIDE DEF r
    <2>. QED  BY <1>2, <1>5
  <1>. QED  BY <1>2, <1>4, <1>6, KeepInSync DEF AllInSync

(* Admitting a waiting request keeps AllInSync. *)
LEMMA AdmitWaitingSync ==
  ASSUME Base, Counts, AllInSync, AdmitWaiting
  PROVE  AllInSync'
  <1>. DEFINE r == NextWaiting
              q == req[r]
              w == req'[r]
              n == AdmitTokens(r)
              b == loop.budget
  <1>1. loop \in LoopType /\ LoopExact /\ Types /\ QueueOK(batchQueue) /\ \A s \in Requests : CountedNow(s)
    BY DEF Base, Types, Counts
  <1>2. /\ pc = "waiting" /\ batchQueue' = batchQueue /\ r \in Requests
        /\ q.status \in {"WAITING", "PREEMPTED"} /\ ~AwaitsStaleOutput(q)
        /\ req' = [req EXCEPT ![r].status = "RUNNING"]
        /\ loop'.toks = [loop.toks EXCEPT ![r] = n]
        /\ loop'.fresh = [loop.fresh EXCEPT ![r] = q.tokens]
        /\ workerLen' = workerLen /\ delivered' = delivered /\ b > 0
    BY AdmitWaitingIs DEF InWaitingLoop
  <1>3. /\ w = [status |-> "RUNNING", tokens |-> q.tokens, computed |-> q.computed,
                inFlight |-> q.inFlight, stale |-> q.stale,
                dropStale |-> q.dropStale, placeholders |-> q.placeholders,
                spec |-> q.spec, lastSeq |-> q.lastSeq,
                prefillChunk |-> q.prefillChunk, notBefore |-> q.notBefore]
        /\ \A s \in Requests \ {r} : req'[s] = req[s]
    <2>. HIDE DEF r
    <2>. QED  BY <1>1, <1>2, StatusUpdate DEF Statuses
  <1>4. Counted(q, r, loop.toks[r], loop.spec[r], Sent(r), Stale(r), Outs(r))
    BY <1>1, <1>2 DEF CountedNow
  <1>. DEFINE pad == PadSpecDecode(r)
  <1>5. n = IF pad THEN 1 + NumSpec ELSE MinOf(q.tokens, b)
    BY DEF AdmitTokens
  <1>6. Synced(batchQueue, q, r, loop.fresh[r], workerLen[r]) /\ Orderly(delivered[r], q, r)
    BY <1>2 DEF AllInSync, InSync, Known
  <1>6a. \A s \in Requests : InSync(s)
    BY DEF AllInSync
  <1>. HIDE DEF r, q, w, n, b, pad
  <1>7. /\ q.tokens \in Nat /\ q.tokens >= 1 /\ q.stale \in Nat /\ q.stale = Stale(r)
        /\ Sent(r) = Stale(r) /\ NumSpec \in Nat
    BY <1>2, <1>4, Numbers DEF Counted
  <1>8. b \in Nat
    BY <1>1 DEF LoopExact, b
  <1>9. n \in Nat /\ n >= 1
    BY <1>2, <1>5, <1>7, <1>8 DEF MinOf
  <1>10. q.stale = 0 \/ q.dropStale
    BY <1>2, <1>7 DEF AwaitsStaleOutput
  <1>11. q.stale = 0 => \A i \in DOMAIN batchQueue : ~(batchQueue[i].toks[r] > 0)
    BY <1>1, <1>2, <1>7, NoneSent DEF Sent
  <1>12. w.status = "RUNNING" /\ w.tokens = q.tokens /\ w.dropStale = q.dropStale
    BY <1>3
  <1>13. Synced(batchQueue, w, r, q.tokens, workerLen[r])
    <2>. DEFINE len == workerLen[r]
                m == q.tokens
                k == loop.fresh[r]
    <2>1. Synced(batchQueue, q, r, k, len) /\ m = q.tokens /\ q.tokens > 0
      BY <1>6, <1>7
    <2>. HIDE DEF len, m, k
    <2>2. Synced(batchQueue, w, r, m, len)
      BY <1>2, <1>7, <1>10, <1>11, <1>12, <2>1, AdmittedSynced
    <2>. QED  BY <2>2 DEF len, m
  <1>14. Orderly(delivered[r], w, r)
    BY <1>2, <1>6, <1>12 DEF Orderly
  <1>15. /\ loop'.toks[r] = n /\ loop'.fresh[r] = q.tokens
         /\ \A s \in Requests \ {r} : loop'.toks[s] = loop.toks[s] /\ loop'.fresh[s] = loop.fresh[s]
    BY <1>1, <1>2 DEF LoopType
  <1>16. \A s \in Requests \ {r} : InSync(s)'
    BY <1>2, <1>3, <1>6a, <1>15, KeepInSync
  <1>17. \A s \in Requests : s = r => InSync(s)'
    <2>1. \A s \in Requests : InSync(s)' <=>
            /\ Known(s)' => Synced(batchQueue', req'[s], s, loop'.fresh[s], workerLen'[s])
            /\ Orderly(delivered'[s], req'[s], s)
            /\ loop'.fresh[s] > 0 => loop'.toks[s] > 0
      BY DEF InSync
    <2>2. req'[r] = w /\ loop'.toks[r] > 0
      BY <1>9, <1>15 DEF w
    <2>. QED  BY <1>2, <1>13, <1>14, <1>15, <2>1, <2>2
  <1>. QED  BY <1>16, <1>17 DEF AllInSync

(* The end of schedule() keeps AllInSync. *)
LEMMA EndScheduleSync ==
  ASSUME Base, Counts, AllInSync, EndSchedule
  PROVE  AllInSync'
  <1>1. LoopExact /\ Types /\ QueueOK(batchQueue) /\ \A s \in Requests : CountedNow(s)
    BY DEF Base, Counts
  <1>. DEFINE Q == batchQueue
              P == batchQueue'
              b == NewBatch
  <1>2. /\ schedSeq' \in Nat /\ schedSeq <= schedSeq' /\ schedSeq \in Nat
        /\ \A r \in Scheduled :
             req'[r] = AfterSchedule(req[r], loop.toks[r], loop.spec[r], schedSeq')
        /\ \A r \in Requests \ Scheduled : req'[r] = req[r]
        /\ P \in Seq(BatchType) /\ Len(P) = Len(Q) + 1
        /\ P[Len(Q) + 1] = b
        /\ \A i \in 1..Len(Q) : P[i] = Q[i]
        /\ loop' = NoLoop
    BY <1>1, EndScheduleIs DEF Types
  <1>2a. workerLen' = workerLen /\ delivered' = delivered
    BY DEF EndSchedule
  <1>3. b.toks = loop.toks /\ b.fresh = loop.fresh /\ b.old = {}
    BY DEF NewBatch
  <1>4. \A r \in Requests : r \in Scheduled <=> loop.toks[r] > 0
    BY DEF Scheduled
  <1>5. Len(Q) \in Nat /\ DOMAIN Q = 1..Len(Q) /\ DOMAIN P = 1..(Len(Q) + 1)
    BY <1>1, <1>2, LenProperties DEF QueueOK
  <1>6. \A r \in Requests : loop'.fresh[r] = 0
    BY <1>2, NoLoopType DEF Zero
  <1>. HIDE DEF Q, P, b
  <1>7. ASSUME NEW r \in Requests  PROVE InSync(r)'
    <2>. DEFINE q == req[r]
                w == req'[r]
                n == loop.fresh[r]
                len == workerLen[r]
    <2>1. /\ Counted(q, r, loop.toks[r], loop.spec[r], Sent(r), Stale(r), Outs(r))
          /\ q \in RequestType(schedSeq) /\ loop.toks[r] \in Nat /\ n \in Nat /\ loop.spec[r] \in Nat
      BY <1>1 DEF CountedNow, LoopExact, Types
    <2>2. /\ Known(r) => Synced(Q, q, r, n, len)
          /\ Orderly(delivered[r], q, r) /\ (n > 0 => loop.toks[r] > 0)
      BY DEF AllInSync, InSync, Q
    <2>3. /\ w.status = q.status /\ w.tokens = q.tokens /\ w.stale = q.stale
          /\ w.dropStale = q.dropStale
      <3>1. CASE r \notin Scheduled
        BY <1>2, <3>1
      <3>2. CASE r \in Scheduled
        <4>. DEFINE k == loop.toks[r]
                    sp == loop.spec[r]
                    seq == schedSeq'
                    c2 == q.computed + k
                    f2 == q.inFlight + k
                    chunk == q.computed + k < q.tokens + q.placeholders
                    p2 == IF chunk THEN q.placeholders ELSE q.placeholders + 1 + sp
                    d2 == IF chunk THEN q.spec ELSE NumSpec
                    l2 == IF DeferBlockFree THEN seq ELSE q.lastSeq
                    e2 == IF chunk THEN q.notBefore ELSE PPSize
        <4>1. w = AfterSchedule(q, k, sp, seq)
          BY <1>2, <3>2
        <4>. HIDE DEF q, w
        <4>2. w = [q EXCEPT !.computed = c2, !.inFlight = f2, !.lastSeq = l2,
                            !.prefillChunk = chunk, !.placeholders = p2, !.spec = d2,
                            !.notBefore = e2]
          BY <4>1 DEF AfterSchedule
        <4>. HIDE DEF c2, f2, l2, chunk, p2, d2, e2
        <4>. QED  BY <2>1, <4>2 DEF RequestType
      <3>. QED  BY <3>1, <3>2
    <2>4. loop.toks[r] > 0 => q.status = "RUNNING"
      BY <2>1 DEF Counted
    <2>5. Known(r)' <=> Known(r)
      BY <2>3 DEF Known
    <2>6. b.fresh[r] = n /\ b.toks[r] = loop.toks[r]
      BY <1>3
    <2>. HIDE DEF q, w, n, len
    <2>7. Known(r) => Synced(P, w, r, 0, len)
      <3>1. b.toks[r] > 0 => q.status = "RUNNING"
        BY <2>4, <2>6
      <3>2. n > 0 => b.toks[r] > 0
        BY <2>2, <2>6
      <3>. QED  BY <1>2, <1>3, <1>5, <2>1, <2>2, <2>3, <2>6, <3>1, <3>2, ScheduledSynced
    <2>8. Orderly(delivered[r], w, r)
      BY <2>2, <2>3 DEF Orderly
    <2>. QED  BY <1>2a, <1>6, <2>5, <2>7, <2>8 DEF InSync, P, w, len
  <1>. QED  BY <1>7 DEF AllInSync

(* update_from_output keeps AllInSync. *)
LEMMA UpdateSync ==
  ASSUME Base, Counts, AllInSync, NEW a, Outcome(a)
  PROVE  AllInSync'
  <1>. DEFINE Q == batchQueue
              P == batchQueue'
  <1>1. /\ pc = "process" /\ loop' = loop /\ Types /\ P = Tail(Q)
        /\ \A r \in Requests : CountedNow(r)
    BY DEF Base, Counts, Outcome
  <1>2. /\ Len(Q) \in Nat /\ Len(Q) > 0 /\ DOMAIN Q = 1..Len(Q) /\ Batch = Q[1]
        /\ DOMAIN P = 1..(Len(Q) - 1) /\ \A i \in 1..(Len(Q) - 1) : P[i] = Q[i + 1]
    BY <1>1, BatchFacts
  <1>3. \A r \in Requests : loop.fresh[r] = 0 /\ loop.toks[r] = 0 /\ loop'.fresh[r] = 0
    BY <1>1, NoLoopExact
  <1>4. \A r \in Requests : Batch.toks[r] \in Nat /\ Batch.fresh[r] \in Nat
    BY OutcomeSums DEF BatchOK
  <1>. HIDE DEF Q, P
  <1>5. ASSUME NEW r \in Requests  PROVE InSync(r)'
    <2>. DEFINE q == req[r]
                w == req'[r]
                n == Batch.toks[r]
                back == Returned(q, n)
                len == workerLen[r]
                len2 == workerLen'[r]
                d == delivered[r]
                e == delivered'[r]
                base == WorkerBase(r)
    <2>1. /\ q \in RequestType(schedSeq) /\ schedSeq \in Nat /\ n \in Nat
          /\ Counted(q, r, 0, loop.spec[r], Sent(r), Stale(r), Outs(r))
      BY <1>1, <1>3, <1>4 DEF Types, CountedNow
    <2>2. /\ (Known(r) => Synced(Q, q, r, 0, len)) /\ Orderly(d, q, r)
      BY <1>3 DEF AllInSync, InSync, Q
    <2>3. /\ w \in RequestType(schedSeq) /\ back \in RequestType(schedSeq)
          /\ r \notin InBatch \/ ~Known(r) => w = q /\ r \notin DOMAIN a
          /\ r \in InBatch /\ Known(r) /\ r \notin DOMAIN a => w = back
          /\ r \in DOMAIN a /\ a[r].stop => w = Finished(back, r)
          /\ r \in DOMAIN a /\ ~a[r].stop => w = WithOutput(back, r, a[r], q.stale > 0)
          /\ r \in Stopped(a) => w.status = "FINISHED"
          /\ r \notin Stopped(a) => w.status = q.status
      BY OutcomeRequest
    <2>4. /\ r \in Stopped(a) <=> r \in DOMAIN a /\ a[r].stop
          /\ r \in InBatch <=> n > 0
          /\ r \in DOMAIN a <=> n > 0 /\ Known(r) /\ ~(q.stale > 0 /\ q.dropStale) /\ r \in Batch.gen
      BY DEF Stopped, InBatch, Outcome, Live
    <2>5. /\ len2 = IF r \notin InBatch THEN len
                    ELSE base + IF r \in DOMAIN a THEN a[r].gen ELSE 0
          /\ base = IF Batch.fresh[r] > 0 THEN Batch.fresh[r] ELSE len
      BY DEF Outcome, WorkerBase
    <2>6. /\ r \notin DOMAIN a => e = d
          /\ r \in DOMAIN a => \E t \in Seq(Int) :
               /\ e = d \o t /\ Len(t) = a[r].kept
               /\ \A i \in 1..a[r].kept : t[i] = base + i
      BY OutcomeDelivers
    <2>7. InSync(r)' <=> /\ Known(r)' => Synced(P, w, r, 0, len2)
                         /\ Orderly(e, w, r)
      BY <1>3 DEF InSync, P
    <2>8. (Known(r)' <=> w.status \notin {"NONE", "FINISHED"}) /\ (Known(r) <=> q.status \notin {"NONE", "FINISHED"})
      BY DEF Known
    <2>9. n > 0 => (r \in Batch.old <=> Stale(r) > 0)
      BY OutcomeSums
    <2>10. /\ back.status = q.status /\ back.tokens = q.tokens /\ back.dropStale = q.dropStale
           /\ back.stale = IF q.stale > 0 THEN q.stale - n ELSE 0
      <3>. DEFINE x == Returned(q, n)
                  i == q.inFlight - n
                  st == IF q.stale > 0 THEN q.stale - n ELSE 0
      <3>1. q \in RequestType(schedSeq) /\ n \in Int
        BY <2>1
      <3>. HIDE DEF q, n
      <3>2. x = [status |-> q.status, tokens |-> q.tokens, computed |-> q.computed,
                 inFlight |-> i, stale |-> st, dropStale |-> q.dropStale,
                 placeholders |-> q.placeholders, spec |-> q.spec, lastSeq |-> q.lastSeq,
                 prefillChunk |-> q.prefillChunk, notBefore |-> q.notBefore]
        BY ONLY <3>1, ReturnedIs
      <3>. HIDE DEF x, i, st
      <3>3. x.status = q.status /\ x.tokens = q.tokens /\ x.dropStale = q.dropStale /\ x.stale = st
        BY <3>2
      <3>. QED  BY <3>3 DEF x, st
    <2>11. ASSUME r \in DOMAIN a
           PROVE  /\ a[r].gen \in Nat /\ a[r].kept \in Nat /\ a[r].stop \in BOOLEAN
                  /\ Batch.spec[r] \in Int /\ (~a[r].stop => a[r].kept = a[r].gen)
      BY <1>1, <2>11, OutcomeAnswer, BatchFacts
    <2>12. ASSUME r \in DOMAIN a, ~a[r].stop
           PROVE  /\ w.tokens = q.tokens + a[r].kept /\ w.dropStale = q.dropStale
                  /\ w.stale = back.stale
      <3>. DEFINE x == a[r]
                  st == q.stale > 0
                  rejected == Batch.spec[r] - (x.gen - 1)
                  rolls == ~st /\ Batch.spec[r] # 0
                  c == IF rolls /\ back.computed > 0 THEN back.computed - rejected ELSE back.computed
                  held == IF rolls /\ back.placeholders > 0 THEN back.placeholders - rejected
                          ELSE back.placeholders
                  p == IF st THEN held ELSE held - x.kept
      <3>1. /\ back \in RequestType(schedSeq) /\ Batch.spec[r] \in Int /\ x.gen \in Int
            /\ x.kept \in Int /\ st \in BOOLEAN
        BY <2>3, <2>11, <2>12
      <3>2. w = WithOutput(back, r, x, st)
        BY <2>3, <2>12
      <3>. HIDE DEF back, x, st, w
      <3>3. w = [status |-> back.status, tokens |-> back.tokens + x.kept, computed |-> c,
                 inFlight |-> back.inFlight, stale |-> back.stale, dropStale |-> back.dropStale,
                 placeholders |-> p, spec |-> back.spec, lastSeq |-> back.lastSeq,
                 prefillChunk |-> back.prefillChunk, notBefore |-> back.notBefore]
        BY <3>1, <3>2, WithOutputIs
      <3>. HIDE DEF c, p
      <3>4. w.tokens = back.tokens + x.kept /\ w.dropStale = back.dropStale /\ w.stale = back.stale
        BY <3>3
      <3>. QED  BY <2>10, <3>4 DEF x
    <2>. HIDE DEF q, w, n, back, len, len2, d, e, base
    <2>13. q.tokens \in Nat /\ q.stale \in Nat /\ (Known(r) => q.stale = Stale(r))
           /\ (q.status = "NONE" => Sent(r) = 0)
           /\ (Known(r) <=> q.status \in {"WAITING", "PREEMPTED", "RUNNING"})
      BY <2>1, <2>8 DEF Counted, RequestType, Statuses
    <2>14. Q[1].toks[r] = n /\ Q[1].old = Batch.old /\ Q[1].fresh = Batch.fresh /\ Q[1].fresh[r] \in Nat
      BY <1>2, <1>4 DEF n
    <2>15. CASE ~Known(r)
      <3>1. w = q /\ e = d /\ ~Known(r)'
        BY <2>3, <2>6, <2>8, <2>15
      <3>. QED  BY <2>2, <2>7, <3>1
    <2>16. CASE Known(r) /\ ~Gives(Q[1], q, r)
      <3>1. n > 0 => q.stale > 0 /\ q.dropStale
        BY <2>9, <2>13, <2>14, <2>16 DEF Gives
      <3>2. r \notin DOMAIN a /\ e = d
        BY <2>4, <2>6, <3>1
      <3>3. /\ w.status = q.status /\ w.tokens = q.tokens /\ w.dropStale = q.dropStale
            /\ (w.stale > 0 => q.stale > 0)
        <4>1. CASE n > 0
          <5>1. w = back
            BY <2>3, <2>4, <2>16, <3>2, <4>1
          <5>. QED  BY <2>10, <3>1, <4>1, <5>1
        <4>2. CASE ~(n > 0)
          BY <2>3, <2>4, <4>2
        <4>. QED  BY <4>1, <4>2
      <3>4. len2 = len \/ (q.stale > 0 /\ q.dropStale /\ q.status \in {"WAITING", "PREEMPTED", "RUNNING"})
        BY <2>4, <2>5, <2>13, <2>16, <3>1
      <3>5. Synced(P, w, r, 0, len2)
        BY <1>2, <2>2, <2>16, <3>3, <3>4, PassedSynced
      <3>6. Orderly(e, w, r)
        BY <2>2, <3>2, <3>3 DEF Orderly
      <3>. QED  BY <2>7, <3>5, <3>6
    <2>17. CASE Known(r) /\ Gives(Q[1], q, r)
      <3>1. n > 0 /\ ~(q.stale > 0 /\ q.dropStale) /\ Synced(Q, q, r, 0, len)
        BY <2>2, <2>9, <2>13, <2>14, <2>17 DEF Gives
      <3>2. base = q.tokens
        BY <1>2, <2>5, <2>14, <2>17, <3>1, HeadBase
      <3>3. CASE r \notin DOMAIN a
        <4>1. w = back /\ e = d /\ len2 = q.tokens
          BY <2>3, <2>4, <2>5, <2>6, <2>13, <2>17, <3>1, <3>2, <3>3
        <4>2. ~(w.stale > 0 /\ w.dropStale) /\ w.status = q.status /\ len2 = w.tokens
              /\ w.dropStale = q.dropStale /\ w.tokens = q.tokens
          BY <2>10, <3>1, <4>1
        <4>3. Synced(P, w, r, 0, len2)
          BY <1>2, <2>14, <2>17, <3>1, <4>2, GivenSynced
        <4>4. Orderly(e, w, r)
          BY <2>2, <4>1, <4>2 DEF Orderly
        <4>. QED  BY <2>7, <4>3, <4>4
      <3>4. CASE r \in DOMAIN a
        <4>1. PICK t \in Seq(Int) : /\ e = d \o t /\ Len(t) = a[r].kept
                                    /\ \A i \in 1..a[r].kept : t[i] = base + i
          BY <2>6, <3>4
        <4>2. w.status = "FINISHED" \/ w.tokens = q.tokens + Len(t)
          BY <2>3, <2>4, <2>11, <2>12, <3>4, <4>1
        <4>3. d \in Seq(Int)
          BY <1>1 DEF Types, d
        <4>4. Orderly(e, w, r)
          BY <2>2, <2>13, <2>17, <3>2, <4>1, <4>2, <4>3, MoreOrderly
        <4>5. CASE a[r].stop
          BY <2>3, <2>4, <2>7, <2>8, <3>4, <4>4, <4>5
        <4>6. CASE ~a[r].stop
          <5>1. /\ len2 = q.tokens + a[r].gen /\ w.tokens = q.tokens + a[r].gen
                /\ w.dropStale = q.dropStale /\ w.status = q.status
                /\ w.stale = back.stale
            BY <2>3, <2>4, <2>5, <2>11, <2>12, <3>2, <3>4, <4>6
          <5>2. ~(w.stale > 0 /\ w.dropStale) /\ len2 = w.tokens
            BY <2>10, <3>1, <5>1
          <5>3. Synced(P, w, r, 0, len2)
            BY <1>2, <2>14, <2>17, <3>1, <5>1, <5>2, GivenSynced
          <5>. QED  BY <2>7, <4>4, <5>3
        <4>. QED  BY <2>11, <3>4, <4>5, <4>6
      <3>. QED  BY <3>3, <3>4
    <2>. QED  BY <2>15, <2>16, <2>17
  <1>. QED  BY <1>5 DEF AllInSync

(* Every step keeps AllInSync. *)
LEMMA SyncStep ==
  ASSUME Base, Counts, AllInSync, [Next]_vars
  PROVE  AllInSync'
  <1>0. loop \in LoopType
    BY DEF Base, Types
  <1>1. CASE \E r \in Requests : AddRequest(r) \/ FinishRequest(r)
    BY <1>1, AddRequestSync, FinishRequestSync
  <1>2. CASE ResetPrefixCache
    BY <1>2, ResetSync
  <1>3. CASE StartSchedule
    BY <1>3, StartScheduleSync
  <1>4. CASE StartDrain \/ EndRunning \/ UNCHANGED vars
    BY <1>4, KeepAllInSync DEF StartDrain, EndRunning, vars
  <1>5. CASE SkipRunning
    <2>. DEFINE i == loop.idx + 1
                seen == loop.seen \cup {Current}
    <2>1. /\ loop' = [loop EXCEPT !.idx = i, !.seen = seen] /\ req' = req
          /\ workerLen' = workerLen /\ delivered' = delivered /\ batchQueue' = batchQueue
      BY <1>5 DEF SkipRunning
    <2>. HIDE DEF i, seen
    <2>2. loop'.toks = loop.toks /\ loop'.fresh = loop.fresh
      BY <1>0, <2>1 DEF LoopType
    <2>. QED  BY <2>1, <2>2, KeepAllInSync
  <1>6. CASE PickRunning
    <2>. DEFINE n == NumNewTokens(req[Current])
    <2>1. /\ loop' = [loop EXCEPT !.want = n] /\ req' = req
          /\ workerLen' = workerLen /\ delivered' = delivered /\ batchQueue' = batchQueue
      BY <1>6 DEF PickRunning
    <2>. HIDE DEF n
    <2>2. loop'.toks = loop.toks /\ loop'.fresh = loop.fresh
      BY <1>0, <2>1 DEF LoopType
    <2>. QED  BY <2>1, <2>2, KeepAllInSync
  <1>7. CASE AllocateRunning
    BY <1>7, AllocateRunningSync
  <1>8. CASE PreemptForRunning
    BY <1>8, PreemptForRunningSync
  <1>9. CASE SkipWaiting \/ EndWaiting
    <2>1. PICK sk : loop' = [loop EXCEPT !.stepSkipped = sk]
      BY <1>9 DEF SkipWaiting, EndWaiting
    <2>2. /\ req' = req /\ workerLen' = workerLen /\ delivered' = delivered
          /\ batchQueue' = batchQueue
      BY <1>9 DEF SkipWaiting, EndWaiting
    <2>3. loop'.toks = loop.toks /\ loop'.fresh = loop.fresh
      BY <1>0, <2>1 DEF LoopType
    <2>. QED  BY <2>2, <2>3, KeepAllInSync
  <1>10. CASE AdmitWaiting
    BY <1>10, AdmitWaitingSync
  <1>11. CASE EndSchedule
    BY <1>11, EndScheduleSync
  <1>12. CASE UpdateFromOutput
    BY <1>12, UpdateHasOutcome, UpdateSync
  <1>. QED  BY <1>1, <1>2, <1>3, <1>4, <1>5, <1>6, <1>7, <1>8, <1>9, <1>10, <1>11, <1>12
            DEF Next, EngineStep

(* AllInSync holds at the start. *)
LEMMA InitSync ==
  ASSUME Init
  PROVE  AllInSync
  <1>. SUFFICES ASSUME NEW r \in Requests  PROVE InSync(r)
    BY DEF AllInSync
  <1>1. req[r] = NewRequest(r) /\ delivered[r] = <<>> /\ loop = NoLoop
    BY DEF Init
  <1>2. req[r].status = "NONE" /\ req[r].tokens = PromptLen[r]
    BY <1>1 DEF NewRequest
  <1>3. ~Known(r) /\ loop.fresh[r] = 0
    BY <1>1, <1>2, NoLoopType DEF Known, Zero
  <1>4. Len(delivered[r]) = 0 /\ DOMAIN delivered[r] = {} /\ PromptLen[r] - PromptLen[r] = 0
    BY <1>1, Numbers
  <1>5. Orderly(delivered[r], req[r], r)
    BY <1>2, <1>4 DEF Orderly
  <1>. QED  BY <1>3, <1>5 DEF InSync

(* AllInSync is an invariant. *)
LEMMA SyncHolds == Spec => [](Base /\ Counts /\ AllInSync)
  <1>1. Init => Base /\ Counts /\ AllInSync
    BY InitBase, InitCounts, InitSync
  <1>2. Base /\ Counts /\ AllInSync /\ [Next]_vars => (Base /\ Counts /\ AllInSync)'
    BY BaseStep, CountsStep, SyncStep
  <1>. QED  BY <1>1, <1>2, PTL DEF Spec

(* The client gets the tokens of each request once each and in order,      *)
(* through preemptions, resets, rejected drafts and outputs that arrive    *)
(* after the request was preempted (scheduler.py 1016-1025, 2163-2165).    *)
THEOREM OutputInOrder == Spec => []DeliveredInOrder
  <1>1. AllInSync => DeliveredInOrder
    BY DEF AllInSync, InSync, Orderly, DeliveredInOrder
  <1>. QED  BY <1>1, SyncHolds, PTL
=============================================================================
