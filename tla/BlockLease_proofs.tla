-------------------------- MODULE BlockLease_proofs --------------------------
(***************************************************************************)
(* The lease discipline is safe for every set of owners and blocks and any *)
(* number of batches in flight: IInv is inductive and implies              *)
(* NoUseAfterFree.                                                         *)
(***************************************************************************)
EXTENDS BlockLease, TLAPS

(* Initially every block is free and no batch is in flight. *)
LEMMA LeaseInit == Init => IInv
  BY StepsAssumption
  DEF Init, IInv, TypeOK, Partition, CountersInStep, Protected, NoUse

(* get_new_blocks moves blocks from the pool to one table; the blocks that *)
(* batches in flight use are not in the pool, so they are not taken.       *)
LEMMA LeaseTake ==
  ASSUME IInv, NEW o \in Owners, NEW S \in SUBSET Blocks, Take(o, S)
  PROVE  IInv'
<1>1. TypeOK'
  BY DEF IInv, TypeOK, Take
<1>2. Partition'
  BY DEF IInv, TypeOK, Partition, Take
<1>3. CountersInStep'
  BY DEF IInv, TypeOK, CountersInStep, Take
<1>4. Protected'
  BY DEF IInv, TypeOK, Protected, Take
<1> QED
  BY <1>1, <1>2, <1>3, <1>4 DEF IInv

(* A new batch uses blocks its owners hold, and stamps those owners. *)
LEMMA LeaseIssue ==
  ASSUME IInv, NEW O \in SUBSET Owners, Issue(O)
  PROVE  IInv'
<1> DEFINE use == [o \in Owners |-> IF o \in O THEN held[o] ELSE {}]
<1>1. use \in [Owners -> SUBSET Blocks]
  BY DEF IInv, TypeOK
<1>2. inflight' = Append(inflight, use)
  BY DEF Issue
<1> HIDE DEF use
<1>3. TypeOK'
  BY <1>1, <1>2 DEF IInv, TypeOK, Issue
<1>4. Partition'
  BY DEF IInv, Partition, Issue
<1>5. Len(inflight') = Len(inflight) + 1
  BY <1>1, <1>2 DEF IInv, TypeOK
<1>6. CountersInStep'
  BY <1>5 DEF IInv, TypeOK, CountersInStep, Issue
<1>7. Protected'
  <2> SUFFICES ASSUME NEW i \in 1..Len(inflight'), NEW o \in Owners,
                      NEW b \in inflight'[i][o]
               PROVE  \/ b \in held'[o] /\ lastSeq'[o] >= retired' + i
                      \/ b \in limbo' /\ fence'[b] >= retired' + i
    BY DEF Protected
  <2>1. CASE i <= Len(inflight)
    <3>1. inflight'[i] = inflight[i]
      BY <1>1, <1>2, <2>1 DEF IInv, TypeOK
    <3>2. \/ b \in held[o] /\ lastSeq[o] >= retired + i
          \/ b \in limbo /\ fence[b] >= retired + i
      BY <2>1, <3>1 DEF IInv, Protected
    <3>3. lastSeq'[o] >= lastSeq[o]
      BY DEF IInv, TypeOK, CountersInStep, Issue
    <3> QED
      BY <3>2, <3>3 DEF IInv, TypeOK, Issue
  <2>2. CASE i = Len(inflight) + 1
    <3>1. inflight'[i] = use
      BY <1>1, <1>2, <2>2 DEF IInv, TypeOK
    <3>2. o \in O /\ b \in held[o]
      BY <3>1 DEF use
    <3>3. lastSeq'[o] = issued + 1
      BY <3>2 DEF Issue
    <3> QED
      BY <2>2, <3>2, <3>3 DEF IInv, TypeOK, CountersInStep, Issue
  <2> QED
    BY <1>5, <2>1, <2>2 DEF IInv, TypeOK
<1> QED
  BY <1>3, <1>4, <1>6, <1>7 DEF IInv

(* What a group of owners gives back leaves every block in one place,      *)
(* whatever has just been drained from limbo.                              *)
LEMMA GiveBackPartition ==
  ASSUME IInv, NEW O \in SUBSET Owners, NEW done \in Nat,
         NEW D \in SUBSET limbo, GiveBack(O, done, D)
  PROVE  /\ free' \in SUBSET Blocks /\ limbo' \in SUBSET Blocks
         /\ held' \in [Owners -> SUBSET Blocks]
         /\ fence' \in [Blocks -> Nat]
         /\ Partition'
<1> DEFINE late == Freed(Busy(O, done))
           now  == Freed(O \ Busy(O, done))
<1>1. /\ late \in SUBSET Blocks /\ now \in SUBSET Blocks
      /\ late \cap (free \cup limbo) = {}
      /\ now \cap (free \cup limbo) = {}
      /\ late \cap now = {}
  BY DEF Freed, Busy, IInv, TypeOK, Partition
<1>2. ASSUME NEW p \in Owners \ O
      PROVE  held[p] \cap (late \cup now) = {}
  <2>1. \A o \in O : held[p] \cap held[o] = {}
    BY DEF IInv, Partition
  <2>2. \A b \in late \cup now : \E o \in O : b \in held[o]
    BY DEF Freed, Busy
  <2> QED
    BY <2>1, <2>2
<1>3. /\ held' = [o \in Owners |-> IF o \in O THEN {} ELSE held[o]]
      /\ free' = free \cup D \cup now
      /\ limbo' = (limbo \ D) \cup late
      /\ fence' = [b \in Blocks |-> IF b \in late THEN issued
                                    ELSE IF b \in D THEN 0 ELSE fence[b]]
  BY DEF GiveBack
<1> HIDE DEF late, now
<1>4. /\ free' \in SUBSET Blocks /\ limbo' \in SUBSET Blocks
      /\ held' \in [Owners -> SUBSET Blocks]
      /\ fence' \in [Blocks -> Nat]
  BY <1>1, <1>3 DEF IInv, TypeOK
<1>5. Partition'
  <2>1. free' \cap limbo' = {}
    BY <1>1, <1>3 DEF IInv, TypeOK, Partition
  <2>2. ASSUME NEW o \in Owners
        PROVE  held'[o] \cap (free' \cup limbo') = {}
    BY <1>1, <1>2, <1>3 DEF IInv, TypeOK, Partition
  <2>3. ASSUME NEW o \in Owners, NEW p \in Owners, o # p
        PROVE  held'[o] \cap held'[p] = {}
    BY <1>3, <2>3 DEF IInv, TypeOK, Partition
  <2> QED
    BY <2>1, <2>2, <2>3 DEF Partition
<1> QED
  BY <1>4, <1>5

(* A block that was protected up to batch s > done still is after a group  *)
(* of owners gives its blocks back: it stays held, or moves to limbo with  *)
(* the newest batch as its fence, or was in limbo with a fence not reached *)
(* yet and is not drained.                                                 *)
LEMMA GiveBackProtects ==
  ASSUME IInv, NEW O \in SUBSET Owners, NEW done \in Nat,
         NEW D \in SUBSET {b \in limbo : fence[b] <= done},
         GiveBack(O, done, D), lastSeq' = lastSeq,
         NEW o \in Owners, NEW b \in Blocks, NEW s \in Nat,
         s > done, s <= issued,
         \/ b \in held[o] /\ lastSeq[o] >= s
         \/ b \in limbo /\ fence[b] >= s
  PROVE  \/ b \in held'[o] /\ lastSeq'[o] >= s
         \/ b \in limbo' /\ fence'[b] >= s
<1> DEFINE late == Freed(Busy(O, done))
<1>1. /\ held' = [p \in Owners |-> IF p \in O THEN {} ELSE held[p]]
      /\ limbo' = (limbo \ D) \cup late
      /\ fence' = [c \in Blocks |-> IF c \in late THEN issued
                                    ELSE IF c \in D THEN 0 ELSE fence[c]]
  BY DEF GiveBack
<1>2. CASE b \in held[o] /\ lastSeq[o] >= s
  <2>1. CASE o \in O
    <3>1. b \in late
      BY <1>2, <2>1 DEF Freed, Busy, IInv, TypeOK
    <3> HIDE DEF late
    <3> QED
      BY <1>1, <3>1 DEF IInv, TypeOK
  <2>2. CASE o \notin O
    BY <1>1, <1>2, <2>2 DEF IInv, TypeOK
  <2> QED
    BY <2>1, <2>2
<1>3. CASE b \in limbo /\ fence[b] >= s
  <2>1. b \notin D
    BY <1>3 DEF IInv, TypeOK
  <2> HIDE DEF late
  <2> QED
    BY <1>1, <1>3, <2>1 DEF IInv, TypeOK
<1> QED
  BY <1>2, <1>3

(* Every fence in limbo, old or new, is at most the newest batch. *)
LEMMA GiveBackFences ==
  ASSUME IInv, NEW O \in SUBSET Owners, NEW done \in Nat,
         NEW D \in SUBSET limbo, GiveBack(O, done, D)
  PROVE  \A b \in limbo' : fence'[b] <= issued
<1> DEFINE late == Freed(Busy(O, done))
<1>1. late \in SUBSET Blocks
  BY DEF Freed, Busy, IInv, TypeOK
<1>2. /\ limbo' = (limbo \ D) \cup late
      /\ fence' = [c \in Blocks |-> IF c \in late THEN issued
                                    ELSE IF c \in D THEN 0 ELSE fence[c]]
  BY DEF GiveBack
<1> HIDE DEF late
<1> QED
  BY <1>1, <1>2 DEF IInv, TypeOK, CountersInStep

(* Preemption, abort and reset between batches. *)
LEMMA LeaseReturn ==
  ASSUME IInv, NEW O \in SUBSET Owners, Return(O)
  PROVE  IInv'
<1>1. GiveBack(O, retired, {})
  BY DEF Return
<1>2. /\ retired \in Nat /\ {} \in SUBSET limbo
      /\ {} \in SUBSET {b \in limbo : fence[b] <= retired}
  BY DEF IInv, TypeOK
<1>3. UNCHANGED <<lastSeq, issued, retired, inflight>>
  BY DEF Return
<1>4. /\ free' \in SUBSET Blocks /\ limbo' \in SUBSET Blocks
      /\ held' \in [Owners -> SUBSET Blocks]
      /\ fence' \in [Blocks -> Nat]
      /\ Partition'
  BY <1>1, <1>2, GiveBackPartition
<1>5. TypeOK'
  BY <1>3, <1>4 DEF IInv, TypeOK
<1>6. \A b \in limbo' : fence'[b] <= issued
  BY <1>1, <1>2, GiveBackFences
<1>7. CountersInStep'
  BY <1>3, <1>6 DEF IInv, CountersInStep
<1>8. Protected'
  <2> SUFFICES ASSUME NEW i \in 1..Len(inflight), NEW o \in Owners,
                      NEW b \in inflight[i][o]
               PROVE  \/ b \in held'[o] /\ lastSeq'[o] >= retired + i
                      \/ b \in limbo' /\ fence'[b] >= retired + i
    BY <1>3 DEF Protected
  <2>1. /\ retired + i \in Nat /\ retired + i > retired /\ retired + i <= issued
        /\ b \in Blocks
    BY DEF IInv, TypeOK, CountersInStep
  <2>2. \/ b \in held[o] /\ lastSeq[o] >= retired + i
        \/ b \in limbo /\ fence[b] >= retired + i
    BY DEF IInv, Protected
  <2> QED
    BY <1>1, <1>2, <1>3, <2>1, <2>2, GiveBackProtects
<1> QED
  BY <1>4, <1>5, <1>7, <1>8 DEF IInv

(* Processing the oldest batch: only it is now processed, so whatever a    *)
(* later batch uses keeps its protection.                                  *)
LEMMA LeaseRetire ==
  ASSUME IInv, NEW O \in SUBSET Owners, NEW D \in SUBSET Blocks, Retire(O, D)
  PROVE  IInv'
<1>1. /\ GiveBack(O, retired + 1, D)
      /\ D \in SUBSET {b \in limbo : fence[b] <= retired + 1}
      /\ retired' = retired + 1
      /\ lastSeq' = lastSeq /\ issued' = issued
  BY DEF Retire
<1>2. retired + 1 \in Nat /\ D \in SUBSET limbo
  BY <1>1 DEF IInv, TypeOK
<1>3. /\ inflight' \in Seq([Owners -> SUBSET Blocks])
      /\ Len(inflight') = Len(inflight) - 1
      /\ \A i \in 1..Len(inflight') : inflight'[i] = inflight[i + 1]
  <2>1. inflight # <<>> /\ inflight \in Seq([Owners -> SUBSET Blocks])
    BY DEF Retire, IInv, TypeOK
  <2>2. inflight' = Tail(inflight)
    BY DEF Retire
  <2> QED
    BY <2>1, <2>2
<1>4. /\ free' \in SUBSET Blocks /\ limbo' \in SUBSET Blocks
      /\ held' \in [Owners -> SUBSET Blocks]
      /\ fence' \in [Blocks -> Nat]
      /\ Partition'
  BY <1>1, <1>2, GiveBackPartition
<1>5. TypeOK'
  BY <1>1, <1>2, <1>3, <1>4 DEF IInv, TypeOK
<1>6. \A b \in limbo' : fence'[b] <= issued
  BY <1>1, <1>2, GiveBackFences
<1>7. CountersInStep'
  BY <1>1, <1>3, <1>6 DEF IInv, TypeOK, CountersInStep
<1>8. Protected'
  <2> SUFFICES ASSUME NEW i \in 1..Len(inflight'), NEW o \in Owners,
                      NEW b \in inflight'[i][o]
               PROVE  \/ b \in held'[o] /\ lastSeq'[o] >= retired' + i
                      \/ b \in limbo' /\ fence'[b] >= retired' + i
    BY DEF Protected
  <2>1. i + 1 \in 1..Len(inflight) /\ b \in inflight[i + 1][o]
    BY <1>3 DEF IInv, TypeOK
  <2>2. \/ b \in held[o] /\ lastSeq[o] >= retired + (i + 1)
        \/ b \in limbo /\ fence[b] >= retired + (i + 1)
    BY <2>1 DEF IInv, Protected
  <2>3. b \in Blocks
    BY <2>1 DEF IInv, TypeOK
  <2>4. /\ retired' + i \in Nat /\ retired' + i = retired + (i + 1)
        /\ retired' + i > retired + 1 /\ retired' + i <= issued
    BY <1>1, <1>3 DEF IInv, TypeOK, CountersInStep
  <2> QED
    BY <1>1, <1>2, <2>2, <2>3, <2>4, GiveBackProtects
<1> QED
  BY <1>4, <1>5, <1>7, <1>8 DEF IInv

LEMMA LeaseStutter == IInv /\ UNCHANGED leaseVars => IInv'
  BY DEF IInv, TypeOK, Partition, CountersInStep, Protected, leaseVars

(* Every step keeps the inductive invariant. *)
LEMMA LeaseNext == IInv /\ [Next]_leaseVars => IInv'
<1> SUFFICES ASSUME IInv, [Next]_leaseVars PROVE IInv'
  OBVIOUS
<1>1. CASE \E o \in Owners, S \in SUBSET Blocks : Take(o, S)
  BY <1>1, LeaseTake
<1>2. CASE \E O \in SUBSET Owners : Issue(O)
  BY <1>2, LeaseIssue
<1>3. CASE \E O \in SUBSET Owners : Return(O)
  BY <1>3, LeaseReturn
<1>4. CASE \E O \in SUBSET Owners, D \in SUBSET Blocks : Retire(O, D)
  BY <1>4, LeaseRetire
<1>5. CASE UNCHANGED leaseVars
  BY <1>5, LeaseStutter
<1> QED
  BY <1>1, <1>2, <1>3, <1>4, <1>5 DEF Next

(* The inductive invariant: what is in flight is protected by its owner's  *)
(* table or by a fence that is not reached.                                *)
THEOREM LeaseInductive == Spec => []IInv
  BY LeaseInit, LeaseNext, PTL DEF Spec

(* Type correctness of the lease state. *)
THEOREM LeaseTypeOK == Spec => []TypeOK
<1>1. IInv => TypeOK
  BY DEF IInv
<1> QED
  BY <1>1, LeaseInductive, PTL

(* No block is ever in two places (free, in limbo, in a table, in two     *)
(* tables), for any number of owners, blocks and batches.                 *)
THEOREM LeasePartition == Spec => []Partition
<1>1. IInv => Partition
  BY DEF IInv
<1> QED
  BY <1>1, LeaseInductive, PTL

(* _free_request_blocks and _drain_deferred_frees never return to the pool *)
(* or hand to another request a block that a batch in flight may touch.    *)
THEOREM LeaseNoUseAfterFree == Spec => []NoUseAfterFree
<1>1. IInv => NoUseAfterFree
  BY DEF IInv, TypeOK, Partition, Protected, NoUseAfterFree
<1> QED
  BY <1>1, LeaseInductive, PTL
=============================================================================
