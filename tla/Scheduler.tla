------------------------------ MODULE Scheduler ------------------------------
(***************************************************************************)
(* The v1 scheduler under async scheduling, with the engine core's batch   *)
(* queue: schedule() may run again before the output of the previous batch *)
(* has been processed, so a request's token counts run ahead of its tokens.*)
(*                                                                         *)
(* The engine core is one thread.  schedule() is cut at its loop           *)
(* iterations: `pc` says where the thread is and `loop` holds schedule()'s *)
(* locals.  Client calls only run where the thread polls its queues.       *)
(*                                                                         *)
(* Configuration: AsyncScheduler with the V2 model runner, so that         *)
(* PPSize + 1 batches are in flight; one full-attention KV group, prefix   *)
(* caching off, text-only requests.  Prefix caching is the subject of      *)
(* KVCacheManager.tla.                                                     *)
(***************************************************************************)
EXTENDS Integers, Sequences, FiniteSets, SequencesExt, Queues

CONSTANTS
  Requests,
  Blocks,                \* the pool's blocks, without the null block
  BlockSize,
  PromptLen, MaxTokens,  \* per request: prompt length, max_tokens
  MaxModelLen,
  TokenBudget,           \* max_num_scheduled_tokens
  MaxNumSeqs,            \* max_num_running_reqs
  PPSize,                \* pipeline_parallel_size
  NumSpec,               \* num_spec_tokens
  NumLookahead,          \* num_lookahead_tokens
  Policy,                \* "fcfs" or "priority"
  Rank,                  \* per request: order of (priority, arrival_time)
  DeferBlockFree,        \* defer_block_free
  RequiresKVDelivery,    \* requires_kv_delivery of the connector
  ReserveFullISL,        \* scheduler_reserve_full_isl
  WatermarkBlocks,       \* watermark_blocks
  MaxResets              \* bound on reset_prefix_cache calls

ASSUME SchedulerAssumption ==
  /\ {BlockSize, TokenBudget, MaxNumSeqs, PPSize} \subseteq Nat \ {0}
  /\ {NumSpec, NumLookahead, WatermarkBlocks, MaxResets} \subseteq Nat
  /\ Policy \in {"fcfs", "priority"}
  /\ {DeferBlockFree, RequiresKVDelivery, ReserveFullISL} \subseteq BOOLEAN
  /\ IsFiniteSet(Requests) /\ IsFiniteSet(Blocks) /\ MaxModelLen \in Nat
  /\ \A r \in Requests : Rank[r] \in Int
  /\ \A r, s \in Requests : Rank[r] = Rank[s] => r = s
  \* the front end rejects longer prompts; start-up checks that one sequence fits
  /\ \A r \in Requests : /\ PromptLen[r] \in 1..MaxModelLen - 1
                         /\ MaxTokens[r] \in Nat \ {0}
  /\ MaxModelLen <= BlockSize * Cardinality(Blocks)

VARIABLES
  req,         \* the Request objects
  waiting, skipped, running,   \* the three queues, head first
  kv,          \* free blocks, block tables and deferred_frees
  schedSeq, procSeq,           \* sched_step_seq, processed_step_seq
  batchQueue,  \* EngineCore.batch_queue, oldest batch first
  finishedIds, \* finished_req_ids
  pc,          \* where the engine thread is
  loop,        \* schedule()'s locals
  resets,      \* number of reset_prefix_cache calls
  resetFailed, \* the last reset raised RuntimeError
  workerLen,   \* the worker's own length of each sequence
  delivered    \* the positions of the output tokens sent to the client

vars == <<req, waiting, skipped, running, kv, schedSeq, procSeq, batchQueue,
          finishedIds, pc, loop, resets, resetFailed, workerLen, delivered>>

cdiv(a, b) == (a + b - 1) \div b
MinOf(a, b) == IF a < b THEN a ELSE b
MaxOf(a, b) == IF a > b THEN a ELSE b
Zero == [r \in Requests |-> 0]

(* VllmConfig.max_concurrent_batches *)
BatchQueueSize == PPSize + 1
-----------------------------------------------------------------------------
(* Requests and their queues *)

NewRequest(r) ==
  [status |-> "NONE", tokens |-> PromptLen[r], computed |-> 0, inFlight |-> 0,
   stale |-> 0, dropStale |-> FALSE, placeholders |-> 0, spec |-> 0,
   lastSeq |-> 0, prefillChunk |-> FALSE, notBefore |-> 0]

(* The request leaves `requests`; only its fence stamp may still matter. *)
Finished(q, r) == [NewRequest(r) EXCEPT !.status = "FINISHED", !.lastSeq = q.lastSeq]

Known(r) == req[r].status \notin {"NONE", "FINISHED"}

(* The priority queue is a heap: it yields its requests in rank order. *)
ByRank(S) ==
  LET ranks == Ascending({Rank[r] : r \in S})
  IN  [i \in DOMAIN ranks |-> CHOOSE r \in S : Rank[r] = ranks[i]]

AddTo(q, r) == IF Policy = "fcfs" THEN Append(q, r) ELSE ByRank(ToSet(q) \cup {r})
(* One after the other, each in front of the one before. *)
PrependAll(q, s) ==
  IF Policy = "fcfs" THEN Reverse(s) \o q ELSE ByRank(ToSet(q) \cup ToSet(s))

(* The queue the waiting loop takes its next request from. *)
TakeFromSkipped ==
  IF Policy = "fcfs" \/ waiting = <<>> \/ skipped = <<>>
    THEN skipped # <<>>
    ELSE Rank[Head(waiting)] > Rank[Head(skipped)]
NextWaiting == Head(IF TakeFromSkipped THEN skipped ELSE waiting)
PopWaiting ==
  /\ waiting' = IF TakeFromSkipped THEN waiting ELSE Tail(waiting)
  /\ skipped' = IF TakeFromSkipped THEN Tail(skipped) ELSE skipped

HasRequests == waiting # <<>> \/ skipped # <<>> \/ running # <<>> \/ finishedIds # {}
-----------------------------------------------------------------------------
(* Freeing blocks *)

(* A batch in flight may still write the blocks of r. *)
Late(r, done) == DeferBlockFree /\ req[r].lastSeq > done

(* _free_request_blocks for the requests S: free now, or queue the blocks  *)
(* behind the last step, all with one fence, so that the order does not    *)
(* matter.  An empty table is not queued.                                  *)
(* Mutant: the tables that are queued are not popped. *)
FreeUnpopped(k, S, done) ==
  LET late  == {r \in S : Late(r, done) /\ k.tables[r] # {}}
      order == SetToSeq(late)
  IN [free     |-> k.free \cup UNION {k.tables[r] : r \in S \ late},
      tables   |-> [r \in Requests |-> IF r \in S \ late THEN {} ELSE k.tables[r]],
      deferred |-> k.deferred \o [i \in DOMAIN order |->
                                    [fence |-> schedSeq, blocks |-> k.tables[order[i]]]]]
FreeRequestBlocks(k, S, done) ==
  LET late  == {r \in S : Late(r, done) /\ k.tables[r] # {}}
      order == SetToSeq(late)
  IN [free     |-> k.free \cup UNION {k.tables[r] : r \in S \ late},
      tables   |-> [r \in Requests |-> IF r \in S THEN {} ELSE k.tables[r]],
      deferred |-> k.deferred \o [i \in DOMAIN order |->
                                    [fence |-> schedSeq, blocks |-> k.tables[order[i]]]]]

(* Number of deferred frees, from the oldest, whose fence is reached. *)
NumReady(k, done) ==
  Max({n \in 0..Len(k.deferred) : \A i \in 1..n : k.deferred[i].fence <= done})

(* Return deferred blocks in FIFO order, up to the first pending fence. *)
(* Mutant: the drained entries stay queued. *)
DrainKeepingEntries(k, done) ==
  [k EXCEPT !.free = @ \cup UNION {k.deferred[i].blocks : i \in 1..NumReady(k, done)}]
DrainDeferredFrees(k, done) ==
  [k EXCEPT !.free = @ \cup UNION {k.deferred[i].blocks : i \in 1..NumReady(k, done)},
            !.deferred = SubSeq(@, NumReady(k, done) + 1, Len(@))]
-----------------------------------------------------------------------------
(* Preemption *)

Preempted(q, drop) ==
  [q EXCEPT !.status = "PREEMPTED", !.computed = 0, !.spec = 0,
            !.dropStale = drop \/ (q.dropStale /\ q.stale > 0),
            !.stale = q.inFlight, !.placeholders = 0]

(* The batches in flight now belong to an earlier life of the requests S. *)
MarkOld(S) == [i \in DOMAIN batchQueue |-> [batchQueue[i] EXCEPT !.old = @ \cup S]]

(* _preempt_request for the requests of the sequence s, last one first. *)
PreemptRequests(s, drop) ==
  LET S == ToSet(s) IN
  /\ kv' = FreeRequestBlocks(kv, S, procSeq)
  /\ req' = [r \in Requests |-> IF r \in S THEN Preempted(req[r], drop) ELSE req[r]]
  /\ waiting' = PrependAll(waiting, Reverse(s))
  /\ batchQueue' = MarkOld(S)

(* Mutant: requests that finish are looked for in the running queue only. *)
LeaveRunningOnly(S) ==
  /\ running' = Without(running, S)
  /\ UNCHANGED <<waiting, skipped>>

(* Requests that finish leave the queue that their status names: running, or *)
(* else both waiting queues are searched.                                  *)
LeaveQueues(S) ==
  LET ran == {r \in S : req[r].status = "RUNNING"}
  IN /\ running' = Without(running, ran)
     /\ waiting' = Without(waiting, S \ ran)
     /\ skipped' = Without(skipped, S \ ran)
-----------------------------------------------------------------------------
(* Calls from the clients *)

(* EngineCore.add_request, from the input queue. *)
AddRequest(r) ==
  /\ pc = "idle"
  /\ req[r].status = "NONE"
  /\ req' = [req EXCEPT ![r].status = "WAITING"]
  /\ waiting' = AddTo(waiting, r)
  /\ UNCHANGED <<skipped, running, kv, schedSeq, procSeq, batchQueue, finishedIds,
                 pc, loop, resets, resetFailed, workerLen, delivered>>

(* finish_requests: an abort is taken from the input queue between steps,  *)
(* or from the aborts queue just before an output is processed.            *)
FinishRequest(r) ==
  /\ pc \in {"idle", "process"}
  /\ Known(r)
  /\ LeaveQueues({r})
  /\ req' = [req EXCEPT ![r] = Finished(@, r)]
  /\ kv' = FreeRequestBlocks(kv, {r}, procSeq)
  /\ finishedIds' = finishedIds \cup {r}
  /\ UNCHANGED <<schedSeq, procSeq, batchQueue, pc, loop, resets, resetFailed,
                 workerLen, delivered>>

(* reset_prefix_cache(reset_running_requests=True): preempt everything,    *)
(* dropping what is in flight, then ask the pool, which refuses while any  *)
(* block is in use.                                                        *)
ResetPrefixCache ==
  /\ pc = "idle"
  /\ resets < MaxResets
  /\ resets' = resets + 1
  /\ PreemptRequests(running, TRUE)
  /\ running' = <<>>
  /\ resetFailed' = (kv'.free # Blocks)
  /\ UNCHANGED <<skipped, schedSeq, procSeq, finishedIds, pc, loop, workerLen, delivered>>
-----------------------------------------------------------------------------
(* step_with_batch_queue and schedule() *)

NoLoop == [idx |-> 0, budget |-> 0, want |-> 0, toks |-> Zero, spec |-> Zero,
           fresh |-> Zero, seen |-> {}, preempted |-> FALSE, prefill |-> FALSE, stepSkipped |-> <<>>]

(* current_step advances; notBefore is next_decode_eligible_step minus it. *)
StartSchedule ==
  /\ pc = "idle"
  /\ HasRequests
  /\ pc' = "running"
  /\ loop' = [NoLoop EXCEPT !.budget = TokenBudget]
  /\ req' = [r \in Requests |-> [req[r] EXCEPT !.notBefore = MaxOf(@ - 1, 0)]]
  /\ UNCHANGED <<waiting, skipped, running, kv, schedSeq, procSeq, batchQueue,
                 finishedIds, resets, resetFailed, workerLen, delivered>>

(* Nothing to schedule: wait for the oldest batch. *)
(* Mutant: the engine goes idle as soon as no request is left. *)
StartDrainNever == FALSE /\ UNCHANGED vars
StartDrain ==
  /\ pc = "idle"
  /\ ~HasRequests
  /\ batchQueue # <<>>
  /\ pc' = "process"
  /\ UNCHANGED <<req, waiting, skipped, running, kv, schedSeq, procSeq, batchQueue,
                 finishedIds, loop, resets, resetFailed, workerLen, delivered>>

InRunningLoop == loop.idx < Len(running) /\ loop.budget > 0
Current == running[loop.idx + 1]

(* The outputs in flight already reach max_tokens, even if every draft is  *)
(* rejected.                                                               *)
ReachesMaxTokens(q, r) ==
  q.placeholders > 0 /\ q.computed + 2 - q.placeholders >= PromptLen[r] + MaxTokens[r]

NumNewTokens(q) ==
  MinOf(MinOf(q.tokens + q.spec + q.placeholders - q.computed, loop.budget),
        MaxModelLen - q.computed - 1)

NothingToRun(q, r) ==
  ReachesMaxTokens(q, r) \/ q.notBefore > 0 \/ NumNewTokens(q) = 0

SkipRunning ==
  /\ pc = "running"
  /\ InRunningLoop
  /\ NothingToRun(req[Current], Current)
  /\ loop' = [loop EXCEPT !.idx = @ + 1, !.seen = @ \cup {Current}]
  /\ UNCHANGED <<req, waiting, skipped, running, kv, schedSeq, procSeq, batchQueue,
                 finishedIds, pc, resets, resetFailed, workerLen, delivered>>

(* The number of tokens is fixed before the allocation loop. *)
PickRunning ==
  /\ pc = "running"
  /\ InRunningLoop
  /\ ~NothingToRun(req[Current], Current)
  /\ loop' = [loop EXCEPT !.want = NumNewTokens(req[Current])]
  /\ pc' = "alloc"
  /\ UNCHANGED <<req, waiting, skipped, running, kv, schedSeq, procSeq, batchQueue,
                 finishedIds, resets, resetFailed, workerLen, delivered>>

BlocksFor(n) == cdiv(MinOf(n, MaxModelLen), BlockSize)

(* get_num_blocks_to_allocate for n more tokens of r. *)
NumBlocksToAllocate(r, n) ==
  MaxOf(BlocksFor(req[r].computed + n + NumLookahead) - Cardinality(kv.tables[r]), 0)

GetNewBlocks(r, n) ==
  \E new \in kSubset(n, kv.free) :
    kv' = [kv EXCEPT !.free = @ \ new, !.tables[r] = @ \cup new]

(* How many of the drafts fit in this batch. *)
ScheduledSpec(q, n) ==
  IF q.spec = 0 THEN 0
  ELSE MinOf(q.spec, MaxOf(n + q.computed - q.tokens - q.placeholders, 0))

AllocateRunning ==
  /\ pc = "alloc"
  /\ LET r == Current
         q == req[r]
     IN /\ NumBlocksToAllocate(r, loop.want) <= Cardinality(kv.free)
        /\ GetNewBlocks(r, NumBlocksToAllocate(r, loop.want))
        /\ loop' = [loop EXCEPT !.idx = @ + 1, !.want = 0, !.budget = @ - loop.want,
                                !.seen = @ \cup {r}, !.toks[r] = loop.want,
                                !.spec[r] = ScheduledSpec(q, loop.want),
                                !.prefill = @ \/ q.prefillChunk]
        /\ req' = [req EXCEPT ![r].spec = 0]
  /\ pc' = "running"
  /\ UNCHANGED <<waiting, skipped, running, schedSeq, procSeq, batchQueue, finishedIds,
                 resets, resetFailed, workerLen, delivered>>

Victim == IF Policy = "priority"
            THEN CHOOSE r \in ToSet(running) : \A s \in ToSet(running) : Rank[r] >= Rank[s]
            ELSE Last(running)

(* The victim may precede the current request and may have been scheduled  *)
(* in this very step: the cursor and the budget are then restored.         *)
(* Mutant: the cursor is not moved back, so a request is passed over. *)
LoopWithoutSkipping(v, idx) ==
  [loop EXCEPT !.budget = @ + loop.toks[v], !.toks[v] = 0, !.spec[v] = 0, !.preempted = TRUE]
LoopWithout(v, idx) ==
  [loop EXCEPT !.idx = IF idx <= loop.idx THEN @ - 1 ELSE @,
               !.budget = @ + loop.toks[v],
               !.toks[v] = 0, !.spec[v] = 0, !.preempted = TRUE]

PreemptForRunning ==
  /\ pc = "alloc"
  /\ NumBlocksToAllocate(Current, loop.want) > Cardinality(kv.free)
  /\ LET v == Victim
         i == CHOOSE j \in DOMAIN running : running[j] = v
     IN /\ PreemptRequests(<<v>>, RequiresKVDelivery)
        /\ running' = Without(running, {v})
        /\ loop' = LoopWithout(v, i)
        /\ pc' = IF v = Current THEN "end" ELSE "alloc"
  /\ UNCHANGED <<skipped, schedSeq, procSeq, finishedIds, resets, resetFailed,
                 workerLen, delivered>>

EndRunning ==
  /\ pc = "running"
  /\ ~InRunningLoop
  /\ pc' = IF loop.preempted THEN "end" ELSE "waiting"
  /\ UNCHANGED <<req, waiting, skipped, running, kv, schedSeq, procSeq, batchQueue,
                 finishedIds, loop, resets, resetFailed, workerLen, delivered>>

InWaitingLoop ==
  /\ waiting # <<>> \/ skipped # <<>>
  /\ loop.budget > 0
  /\ Len(running) < MaxNumSeqs

(* Output of an earlier life will still be delivered: resuming now could   *)
(* sample its positions again.                                             *)
(* Mutant: preempted requests resume at once. *)
AwaitsNoOutput(q) == FALSE
AwaitsStaleOutput(q) == q.stale > 0 /\ ~q.dropStale

SkipWaiting ==
  /\ pc = "waiting"
  /\ InWaitingLoop
  /\ AwaitsStaleOutput(req[NextWaiting])
  /\ loop' = [loop EXCEPT !.stepSkipped = PrependAll(@, <<NextWaiting>>)]
  /\ PopWaiting
  /\ UNCHANGED <<req, running, kv, schedSeq, procSeq, batchQueue, finishedIds, pc,
                 resets, resetFailed, workerLen, delivered>>

(* A one-token prompt joining a decode batch is padded to the batch's      *)
(* uniform 1 + num_spec_tokens rows.                                       *)
PadSpecDecode(r) ==
  /\ NumSpec > 0
  /\ req[r].tokens = 1
  /\ ~loop.prefill
  /\ \E s \in Requests : loop.toks[s] > 0 /\ loop.fresh[s] = 0
  /\ 2 + NumSpec <= MaxModelLen

AdmitTokens(r) == IF PadSpecDecode(r) THEN 1 + NumSpec ELSE MinOf(req[r].tokens, loop.budget)

(* allocate_slots for a waiting request: the whole sequence must fit, with *)
(* the watermark's head room once something is running.                    *)
CanAdmit(r) ==
  LET mark == IF running # <<>> THEN WatermarkBlocks ELSE 0
  IN /\ PadSpecDecode(r) => 1 + NumSpec <= loop.budget
     /\ ReserveFullISL => BlocksFor(req[r].tokens) + mark <= Cardinality(kv.free)
     /\ NumBlocksToAllocate(r, AdmitTokens(r)) + mark <= Cardinality(kv.free)

AdmitWaiting ==
  /\ pc = "waiting"
  /\ InWaitingLoop
  /\ LET r == NextWaiting
         n == AdmitTokens(r)
     IN /\ ~AwaitsStaleOutput(req[r])
        /\ CanAdmit(r)
        /\ GetNewBlocks(r, NumBlocksToAllocate(r, n))
        /\ running' = Append(running, r)
        /\ req' = [req EXCEPT ![r].status = "RUNNING"]
        /\ loop' = [loop EXCEPT !.budget = @ - n, !.toks[r] = n,
                                !.spec[r] = IF PadSpecDecode(r) THEN NumSpec ELSE 0,
                                !.fresh[r] = req[r].tokens]
  /\ PopWaiting
  /\ UNCHANGED <<schedSeq, procSeq, batchQueue, finishedIds, pc, resets, resetFailed,
                 workerLen, delivered>>

(* What the loop skipped goes back in front. *)
(* Mutant: the skipped requests are forgotten. *)
RequeuedNone == skipped
Requeued == PrependAll(skipped, loop.stepSkipped)

(* The waiting loop ends, or breaks at the first request that cannot be    *)
(* admitted.                                                               *)
EndWaiting ==
  /\ pc = "waiting"
  /\ InWaitingLoop => /\ ~AwaitsStaleOutput(req[NextWaiting])
                      /\ ~CanAdmit(NextWaiting)
  /\ skipped' = Requeued
  /\ loop' = [loop EXCEPT !.stepSkipped = <<>>]
  /\ pc' = "end"
  /\ UNCHANGED <<req, waiting, running, kv, schedSeq, procSeq, batchQueue, finishedIds,
                 resets, resetFailed, workerLen, delivered>>

(* _update_after_schedule: the counts move as if every draft were accepted. *)
(* Mutant: the request is not stamped with the step. *)
AfterScheduleUnstamped(q, n, spec, seq) ==
  LET chunk == q.computed + n < q.tokens + q.placeholders
  IN [q EXCEPT !.computed = @ + n, !.inFlight = @ + n, !.prefillChunk = chunk,
               !.placeholders = IF chunk THEN @ ELSE @ + 1 + spec,
               !.spec = IF chunk THEN @ ELSE NumSpec,
               !.notBefore = IF chunk THEN @ ELSE PPSize]
AfterSchedule(q, n, spec, seq) ==
  LET chunk == q.computed + n < q.tokens + q.placeholders
  IN [q EXCEPT !.computed = @ + n, !.inFlight = @ + n,
               !.lastSeq = IF DeferBlockFree THEN seq ELSE @,
               !.prefillChunk = chunk,
               !.placeholders = IF chunk THEN @ ELSE @ + 1 + spec,
               !.spec = IF chunk THEN @ ELSE NumSpec,
               !.notBefore = IF chunk THEN @ ELSE PPSize]

Scheduled == {r \in Requests : loop.toks[r] > 0}

(* The end of schedule(): the batch is sent to the workers and queued; the *)
(* engine only waits for a result when the queue is full or nothing is left.*)
EndSchedule ==
  /\ pc = "end"
  /\ schedSeq' = IF DeferBlockFree /\ Scheduled # {} THEN schedSeq + 1 ELSE schedSeq
  /\ req' = [r \in Requests |->
               IF r \in Scheduled
                 THEN AfterSchedule(req[r], loop.toks[r], loop.spec[r], schedSeq')
                 ELSE req[r]]
  /\ batchQueue' = Append(batchQueue,
       [toks |-> loop.toks, spec |-> loop.spec, fresh |-> loop.fresh,
        gen |-> {r \in Scheduled : ~req'[r].prefillChunk},
        uses |-> [r \in Requests |-> IF r \in Scheduled THEN kv.tables[r] ELSE {}],
        old |-> {}])
  /\ finishedIds' = {}
  /\ pc' = IF /\ Len(batchQueue') < BatchQueueSize
              /\ Scheduled # {} \/ waiting # <<>> \/ skipped # <<>> \/ running # <<>>
             THEN "idle" ELSE "process"
  /\ loop' = NoLoop
  /\ UNCHANGED <<waiting, skipped, running, kv, procSeq, resets, resetFailed,
                 workerLen, delivered>>
-----------------------------------------------------------------------------
(* update_from_output *)

Batch == Head(batchQueue)
InBatch == {r \in Requests : Batch.toks[r] > 0}

(* Tokens r may still append before check_stop's length conditions hold. *)
Room(r) == MinOf(MaxModelLen, PromptLen[r] + MaxTokens[r]) - req[r].tokens

(* The model runner's possible answers: `gen` sampled tokens, of which     *)
(* `kept` are appended before check_stop says stop.  Padded drafts are     *)
(* never accepted.                                                         *)
Answers(r) ==
  {a \in [gen : 1..Batch.spec[r] + 1, kept : 1..NumSpec + 1, stop : BOOLEAN] :
     LET most == MinOf(a.gen, Room(r)) IN
     /\ Batch.fresh[r] > 0 => a.gen = 1
     /\ a.kept <= most
     /\ a.kept < most => a.stop
     /\ a.kept = Room(r) => a.stop}

(* The requests whose output counts: still known, not dropped as stale. *)
(* Mutant: finished requests still get their output. *)
LiveOrFinished == {r \in InBatch : ~(req[r].stale > 0 /\ req[r].dropStale)}
(* Mutant: output dropped by a reset is delivered after all. *)
LiveUndropped == {r \in InBatch : Known(r)}
Live == {r \in InBatch : Known(r) /\ ~(req[r].stale > 0 /\ req[r].dropStale)}

(* What this batch takes off the in-flight and stale counts. *)
Returned(q, n) ==
  [q EXCEPT !.inFlight = @ - n, !.stale = IF @ > 0 THEN @ - n ELSE 0]

(* Rejected drafts roll the counts back, unless the output is from an      *)
(* earlier life: preemption has then reset the counts already.             *)
(* Mutant: only the placeholders are rolled back. *)
RollBackPlaceholders(q, r, rejected, isStale) ==
  IF isStale \/ Batch.spec[r] = 0 THEN q
  ELSE [q EXCEPT !.placeholders = IF @ > 0 THEN @ - rejected ELSE @]
(* Mutant: only the computed tokens are rolled back. *)
RollBackComputed(q, r, rejected, isStale) ==
  IF isStale \/ Batch.spec[r] = 0 THEN q
  ELSE [q EXCEPT !.computed = IF @ > 0 THEN @ - rejected ELSE @]
RollBack(q, r, rejected, isStale) ==
  IF isStale \/ Batch.spec[r] = 0 THEN q
  ELSE [q EXCEPT !.computed = IF @ > 0 THEN @ - rejected ELSE @,
                 !.placeholders = IF @ > 0 THEN @ - rejected ELSE @]

(* The kept tokens turn from placeholders into tokens. *)
(* Mutant: a stale output takes placeholders that preemption has zeroed. *)
WithOutputUnderflow(q, r, a, isStale) ==
  [RollBack(q, r, Batch.spec[r] - (a.gen - 1), isStale) EXCEPT
     !.tokens = @ + a.kept, !.placeholders = @ - a.kept]
WithOutput(q, r, a, isStale) ==
  [RollBack(q, r, Batch.spec[r] - (a.gen - 1), isStale) EXCEPT
     !.tokens = @ + a.kept, !.placeholders = IF isStale THEN @ ELSE @ - a.kept]

UpdateRequest(r, a) ==
  LET q  == Returned(req[r], Batch.toks[r])
      q2 == WithOutput(q, r, a[r], req[r].stale > 0)
  IN IF r \notin InBatch \/ ~Known(r) THEN req[r]
     ELSE IF r \notin DOMAIN a THEN q
     ELSE IF a[r].stop THEN Finished(q, r) ELSE q2

(* The worker samples from the sequence it holds: the tokens sent with the *)
(* request when it was (re)scheduled, plus what it has sampled since.      *)
WorkerBase(r) == IF Batch.fresh[r] > 0 THEN Batch.fresh[r] ELSE workerLen[r]

UpdateFromOutput ==
  /\ pc = "process"
  /\ \E a \in {f \in [Live \cap Batch.gen -> UNION {Answers(r) : r \in Live}] :
                 \A r \in DOMAIN f : f[r] \in Answers(r)} :
       LET done    == IF DeferBlockFree /\ InBatch # {} THEN procSeq + 1 ELSE procSeq
           stopped == {r \in DOMAIN a : a[r].stop}
       IN /\ procSeq' = done
          /\ kv' = FreeRequestBlocks(DrainDeferredFrees(kv, done), stopped, done)
          /\ req' = [r \in Requests |-> UpdateRequest(r, a)]
          /\ LeaveQueues(stopped)
          /\ finishedIds' = finishedIds \cup stopped
          /\ workerLen' = [r \in Requests |->
               IF r \notin InBatch THEN workerLen[r]
               ELSE WorkerBase(r) + IF r \in DOMAIN a THEN a[r].gen ELSE 0]
          /\ delivered' = [r \in Requests |->
               IF r \in DOMAIN a
                 THEN delivered[r] \o [i \in 1..a[r].kept |-> WorkerBase(r) + i]
                 ELSE delivered[r]]
  /\ batchQueue' = Tail(batchQueue)
  /\ pc' = "idle"
  /\ UNCHANGED <<schedSeq, loop, resets, resetFailed>>
-----------------------------------------------------------------------------
Init ==
  /\ req = [r \in Requests |-> NewRequest(r)]
  /\ waiting = <<>> /\ skipped = <<>> /\ running = <<>>
  /\ kv = [free |-> Blocks, tables |-> [r \in Requests |-> {}], deferred |-> <<>>]
  /\ schedSeq = 0 /\ procSeq = 0
  /\ batchQueue = <<>>
  /\ finishedIds = {}
  /\ pc = "idle"
  /\ loop = NoLoop
  /\ resets = 0
  /\ resetFailed = FALSE
  /\ workerLen = Zero
  /\ delivered = [r \in Requests |-> <<>>]

(* One iteration of the engine core's busy loop, cut at schedule()'s loops. *)
EngineStep ==
  \/ StartSchedule \/ StartDrain
  \/ SkipRunning \/ PickRunning \/ AllocateRunning \/ PreemptForRunning \/ EndRunning
  \/ SkipWaiting \/ AdmitWaiting \/ EndWaiting
  \/ EndSchedule
  \/ UpdateFromOutput

Next ==
  \/ \E r \in Requests : AddRequest(r) \/ FinishRequest(r)
  \/ ResetPrefixCache
  \/ EngineStep

Spec == Init /\ [][Next]_vars
FairSpec == Spec /\ WF_vars(EngineStep)
-----------------------------------------------------------------------------
(* Properties *)

(* Types; in particular none of the counters that update_from_output and   *)
(* _update_request_with_output decrement goes below zero, which the code   *)
(* asserts (async_scheduler.py 112), and the budget stays within bounds    *)
(* (scheduler.py 1442).                                                    *)
TypeOK ==
  /\ req \in [Requests ->
       [status : {"NONE", "WAITING", "RUNNING", "PREEMPTED", "FINISHED"},
        tokens : Nat, computed : Nat, inFlight : Nat, stale : Nat,
        dropStale : BOOLEAN, placeholders : Nat, spec : 0..NumSpec,
        lastSeq : 0..schedSeq, prefillChunk : BOOLEAN, notBefore : 0..PPSize]]
  /\ \A q \in {waiting, skipped, running, loop.stepSkipped} : q \in Seq(Requests)
  /\ kv.free \subseteq Blocks
  /\ kv.tables \in [Requests -> SUBSET Blocks]
  /\ schedSeq \in Nat /\ procSeq \in 0..schedSeq
  /\ Len(batchQueue) <= BatchQueueSize
  /\ pc \in {"idle", "running", "alloc", "waiting", "end", "process"}
  /\ loop.budget \in 0..TokenBudget
  /\ loop.want \in Nat

(* A request is in exactly one queue, exactly once, and its status says    *)
(* which: preemption, abort, stop and skipping all move it between them    *)
(* (scheduler.py 1690, 2389-2397, 2874-2880, 1433).                        *)
QueuesMatchStatus ==
  /\ \A q \in {waiting, skipped, loop.stepSkipped, running} : IsInjective(q)
  /\ ToSet(waiting) \cap ToSet(skipped) = {}
  /\ (ToSet(waiting) \cup ToSet(skipped)) \cap ToSet(loop.stepSkipped) = {}
  /\ ToSet(waiting) \cup ToSet(skipped) \cup ToSet(loop.stepSkipped)
       = {r \in Requests : req[r].status \in {"WAITING", "PREEMPTED"}}
  /\ ToSet(running) = {r \in Requests : req[r].status = "RUNNING"}

(* What the batches in flight hold of r: tokens, tokens sent before its    *)
(* last preemption, and outputs of its present life.                       *)
TokensInFlight(r) == Total([i \in DOMAIN batchQueue |-> batchQueue[i].toks[r]])
StaleInFlight(r) ==
  Total([i \in DOMAIN batchQueue |->
           IF r \in batchQueue[i].old THEN batchQueue[i].toks[r] ELSE 0])
OutputsInFlight(r) ==
  Total([i \in DOMAIN batchQueue |->
           IF r \in batchQueue[i].gen \ batchQueue[i].old
             THEN 1 + batchQueue[i].spec[r] ELSE 0])

(* The counters of a request are exactly what its batches in flight make   *)
(* them: in_flight counts all, stale the ones sent before its last         *)
(* preemption, placeholders the outputs the others will return.  This is   *)
(* what update_from_output relies on when it decides, from the counters    *)
(* alone, whether an output is stale (scheduler.py 1673-1683, 2139-2149).  *)
CountersMatchBatches ==
  \A r \in Requests : Known(r) =>
    /\ req[r].inFlight = TokensInFlight(r)
    /\ req[r].stale = StaleInFlight(r)
    /\ req[r].placeholders = OutputsInFlight(r)

(* A running request that is past its prompt has computed everything but   *)
(* its last token, counting outputs in flight as tokens; before that it    *)
(* has no output in flight.  So num_new_tokens of schedule() is never      *)
(* negative and never schedules a position twice (scheduler.py 779-783).   *)
ComputedAhead ==
  \A r \in Requests : req[r].status = "RUNNING" /\ loop.toks[r] = 0 =>
    LET q == req[r] IN
    IF q.prefillChunk
      THEN q.computed < q.tokens /\ q.placeholders = 0
      ELSE q.computed = q.tokens + q.placeholders - 1

(* Preemption inside the running loop leaves the loop's own state exact:   *)
(* the cursor is past exactly the requests already looked at, whichever of *)
(* them was preempted, and the budget is what the batch has not used       *)
(* (scheduler.py 872-907).                                                 *)
PreemptionKeepsLoop ==
  pc \in {"running", "alloc", "waiting"} =>
    /\ Total(loop.toks) + loop.budget = TokenBudget
    /\ pc # "waiting" => loop.seen \cap ToSet(running) = ToSet(SubSeq(running, 1, loop.idx))

(* The client gets the tokens of each request once each and in order,      *)
(* through preemptions, resets, rejected drafts and outputs that arrive    *)
(* after the request was preempted (scheduler.py 1016-1025, 2163-2165).    *)
DeliveredInOrder ==
  \A r \in Requests : \A i \in DOMAIN delivered[r] : delivered[r][i] = PromptLen[r] + i

DeferredBlocks == UNION {kv.deferred[i].blocks : i \in DOMAIN kv.deferred}

(* Every block is in one place, and none is lost (scheduler.py 2947-2986). *)
BlocksPartitioned ==
  /\ \A r \in Requests : kv.tables[r] \cap (kv.free \cup DeferredBlocks) = {}
  /\ \A r, s \in Requests : r # s => kv.tables[r] \cap kv.tables[s] = {}
  /\ \A i, j \in DOMAIN kv.deferred :
       i # j => kv.deferred[i].blocks \cap kv.deferred[j].blocks = {}
  /\ kv.free \cap DeferredBlocks = {}
  /\ Blocks = kv.free \cup DeferredBlocks \cup UNION {kv.tables[r] : r \in Requests}

(* A request holds blocks only while it runs: nothing waiting or finished  *)
(* keeps a block from the others.                                          *)
OnlyRunningHold ==
  \A r \in Requests : req[r].status # "RUNNING" => kv.tables[r] = {}

(* No step of the engine lengthens a finished request's output or takes    *)
(* one back: output of an aborted or stopped request that is still in      *)
(* flight is thrown away (scheduler.py 2153-2162).                         *)
NoOutputAfterFinish ==
  [][\A r \in Requests : /\ IsPrefix(delivered[r], delivered'[r])
                         /\ req[r].status = "FINISHED" =>
                              /\ req'[r].status = "FINISHED"
                              /\ delivered'[r] = delivered[r]]_vars

(* What the comment in reset_prefix_cache says of preempting every running *)
(* request: "we can make sure the reset is successful".                    *)
ResetSucceeds == ~resetFailed

(* Every request that was added finishes, however often it is preempted.   *)
EveryRequestFinishes ==
  \A r \in Requests : req[r].status = "WAITING" ~> req[r].status = "FINISHED"

(* Deferred blocks always come back: the engine keeps stepping while a     *)
(* batch is in flight, even when no request is left.                       *)
DeferredFreesDrain == kv.deferred # <<>> ~> kv.deferred = <<>>

(* The scheduler's state as a state of BlockLease. *)
FenceOf(b) == IF b \in DeferredBlocks
                THEN kv.deferred[CHOOSE i \in DOMAIN kv.deferred :
                                   b \in kv.deferred[i].blocks].fence
                ELSE 0
NonEmpty == {i \in DOMAIN batchQueue : \E r \in Requests : batchQueue[i].toks[r] > 0}
UsesInFlight ==
  AtPositions([i \in DOMAIN batchQueue |-> batchQueue[i].uses], NonEmpty)

Lease == INSTANCE BlockLease WITH
  Owners <- Requests, Steps <- Nat,
  free <- kv.free, held <- kv.tables, limbo <- DeferredBlocks,
  fence <- [b \in Blocks |-> FenceOf(b)],
  lastSeq <- [r \in Requests |-> req[r].lastSeq],
  issued <- schedSeq, retired <- procSeq, inflight <- UsesInFlight

(* The scheduler's blocks obey the lease discipline of BlockLease: every   *)
(* step of schedule(), update_from_output, abort, preemption and reset is  *)
(* a step of it or leaves it alone.                                        *)
LeaseSpec == Lease!Spec
=============================================================================
