----------------------------- MODULE BlockLease -----------------------------
(***************************************************************************)
(* What the scheduler's block bookkeeping promises, without queues, tokens *)
(* or requests' life cycles: every KV block is free, held by one owner, or *)
(* in limbo, and a block comes back to the pool only once every batch that *)
(* may still read or write it has been processed.                          *)
(*                                                                         *)
(* The code is Scheduler._free_request_blocks, _drain_deferred_frees and   *)
(* the two step counters; Scheduler.tla implements this specification.     *)
(***************************************************************************)
EXTENDS Integers, Sequences, FiniteSets

CONSTANTS
  Owners,       \* the requests
  Blocks,       \* the KV blocks of the pool, without the null block
  Steps         \* the numbers non-empty batches may have

ASSUME StepsAssumption == Steps \subseteq Nat

VARIABLES
  free,         \* blocks in the pool's free queue
  held,         \* held[o]: the block table of owner o
  limbo,        \* blocks in Scheduler.deferred_frees
  fence,        \* fence[b]: the fence of b while b is in limbo
  lastSeq,      \* Request.last_sched_seq
  issued,       \* Scheduler.sched_step_seq
  retired,      \* Scheduler.processed_step_seq
  inflight      \* the batches not yet processed, oldest first: what each uses

leaseVars == <<free, held, limbo, fence, lastSeq, issued, retired, inflight>>

NoUse == [o \in Owners |-> {}]

Init ==
  /\ free = Blocks
  /\ held = NoUse
  /\ limbo = {}
  /\ fence = [b \in Blocks |-> 0]
  /\ lastSeq = [o \in Owners |-> 0]
  /\ issued = 0
  /\ retired = 0
  /\ inflight = <<>>

(* BlockPool.get_new_blocks for owner o. *)
Take(o, S) ==
  /\ S \subseteq free
  /\ S # {}
  /\ free' = free \ S
  /\ held' = [held EXCEPT ![o] = @ \cup S]
  /\ UNCHANGED <<limbo, fence, lastSeq, issued, retired, inflight>>

(* A non-empty batch for the owners O leaves the scheduler. *)
(* Mutant: the owners are not stamped. *)
IssueUnstamped(O) ==
  /\ O # {}
  /\ issued + 1 \in Steps
  /\ issued' = issued + 1
  /\ inflight' = Append(inflight, [o \in Owners |-> IF o \in O THEN held[o] ELSE {}])
  /\ UNCHANGED <<free, held, limbo, fence, lastSeq, retired>>
Issue(O) ==
  /\ O # {}
  /\ issued + 1 \in Steps
  /\ issued' = issued + 1
  /\ inflight' = Append(inflight, [o \in Owners |-> IF o \in O THEN held[o] ELSE {}])
  /\ lastSeq' = [o \in Owners |-> IF o \in O THEN issued + 1 ELSE lastSeq[o]]
  /\ UNCHANGED <<free, held, limbo, fence, retired>>

(* The owners whose last batch is not processed when `done` batches are. *)
(* Mutant: one batch too early. *)
BusyLate(O, done) == {o \in O : lastSeq[o] > done + 1}
Busy(O, done) == {o \in O : lastSeq[o] > done}

Freed(O) == UNION {held[o] : o \in O}

(* _free_request_blocks for every owner of O, after `done` batches, given  *)
(* that the blocks `drained` have just left limbo for the pool.            *)
GiveBack(O, done, drained) ==
  LET late == Freed(Busy(O, done))
      now  == Freed(O \ Busy(O, done))
  IN /\ held' = [o \in Owners |-> IF o \in O THEN {} ELSE held[o]]
     /\ free' = free \cup drained \cup now
     /\ limbo' = (limbo \ drained) \cup late
     /\ fence' = [b \in Blocks |-> IF b \in late THEN issued
                                   ELSE IF b \in drained THEN 0 ELSE fence[b]]

(* Preemption, abort, reset: owners give their blocks back between batches. *)
Return(O) ==
  /\ GiveBack(O, retired, {})
  /\ UNCHANGED <<lastSeq, issued, retired, inflight>>

(* The oldest batch is processed: blocks whose fence is reached may leave  *)
(* limbo, then the owners that stopped with this batch give theirs back.   *)
Retire(O, drained) ==
  /\ inflight # <<>>
  /\ drained \subseteq {b \in limbo : fence[b] <= retired + 1}
  /\ retired' = retired + 1
  /\ inflight' = Tail(inflight)
  /\ GiveBack(O, retired + 1, drained)
  /\ UNCHANGED <<lastSeq, issued>>

Next ==
  \/ \E o \in Owners, S \in SUBSET Blocks : Take(o, S)
  \/ \E O \in SUBSET Owners : Issue(O)
  \/ \E O \in SUBSET Owners : Return(O)
  \/ \E O \in SUBSET Owners, D \in SUBSET Blocks : Retire(O, D)

Spec == Init /\ [][Next]_leaseVars
-----------------------------------------------------------------------------
(* Types; in particular the two step counters never go below zero and the  *)
(* queue of batches is a queue of block sets.                              *)
TypeOK ==
  /\ free \in SUBSET Blocks
  /\ held \in [Owners -> SUBSET Blocks]
  /\ limbo \in SUBSET Blocks
  /\ fence \in [Blocks -> Nat]
  /\ lastSeq \in [Owners -> Nat]
  /\ issued \in Nat
  /\ retired \in Nat
  /\ inflight \in Seq([Owners -> SUBSET Blocks])

(* Every block is in exactly one place: free, in limbo, or held by one     *)
(* owner (block_pool.py ref_cnt 0 exactly when in the free queue).         *)
Partition ==
  /\ free \cap limbo = {}
  /\ \A o \in Owners : held[o] \cap (free \cup limbo) = {}
  /\ \A o, p \in Owners : o # p => held[o] \cap held[p] = {}

(* The two counters stay in step with the batch queue: one processed batch *)
(* per issued one, in order (scheduler.py 429-432).                        *)
CountersInStep ==
  /\ issued = retired + Len(inflight)
  /\ \A o \in Owners : lastSeq[o] <= issued
  /\ \A b \in limbo : fence[b] <= issued

(* A block used for o by the i-th batch in flight, whose number is         *)
(* retired + i, is still o's and o remembers a batch at least as late, or  *)
(* it is in limbo behind a fence at least as late.                         *)
Protected ==
  \A i \in 1..Len(inflight) : \A o \in Owners : \A b \in inflight[i][o] :
    \/ b \in held[o] /\ lastSeq[o] >= retired + i
    \/ b \in limbo /\ fence[b] >= retired + i

(* No block that a batch in flight reads or writes is free or in another   *)
(* owner's table: what _free_request_blocks defers for.                    *)
NoUseAfterFree ==
  \A i \in 1..Len(inflight) : \A o \in Owners :
    /\ inflight[i][o] \cap free = {}
    /\ \A p \in Owners \ {o} : inflight[i][o] \cap held[p] = {}

(* The inductive invariant: every block in use is accounted for, in a pool *)
(* whose counters match the batches in flight.                             *)
IInv == TypeOK /\ Partition /\ CountersInStep /\ Protected
=============================================================================
