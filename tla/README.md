# The vLLM v1 engine, specified in TLA+

These modules specify the engine core of the repository (`src/vllm/v1`) and what it talks to: which
requests run in the next batch and what happens to them while several batches are in flight; who owns
and who may read which KV cache block; loads and saves of KV by a connector; the shared-memory queue
and the remote calls through which the engine drives its workers; and the waves that keep
data-parallel engines in step. TLC checks them on small instances; TLAPS proves, for
every instance, the safety of the scheduler (its queues, counters, order of delivery, and that it
implements the block discipline), the block discipline itself, the message queue with its refinement,
the pairing of calls and responses, the lock step of data-parallel engines, and of KV transfers the
ownership of blocks and that no token is taken from KV that failed to load.
Paths below are relative to `src/vllm/v1` unless they start with `src/` or are bare file names given in
the table.

## 1. The system

| Part | State | Operations | Interacts with |
|---|---|---|---|
| Engine core (`engine/core.py`) | batch queue, input and aborts queues | `step_with_batch_queue`, `_process_aborts_queue`, utility calls | one busy-loop thread calls the scheduler; an I/O thread fills its queues; batches go to the executor as futures |
| Scheduler (`core/sched/scheduler.py`, `async_scheduler.py`) | `requests`, `waiting`, `skipped_waiting`, `running`, step counters, `deferred_frees` | `add_request`, `finish_requests`, `schedule`, `update_from_output`, `_preempt_request`, `reset_prefix_cache` | allocates and frees through the KV cache manager |
| Request queues (`core/sched/request_queue.py`) | deque or heap | add, pop, prepend, remove | used by the scheduler |
| KV cache manager, coordinator, per-type managers | block tables, number of cached blocks | `get_computed_blocks`, `allocate_slots`, `cache_blocks`, `free` | block pool |
| Block pool (`core/block_pool.py`) | `ref_cnt`, LRU free queue, hash to block map | `get_new_blocks`, `touch`, `free_blocks`, `cache_full_blocks`, `reset_prefix_cache` | KV events |
| KV connectors (`src/vllm/distributed/kv_transfer`) | transfers in flight; in the scheduler `_inflight_prefills`, `finished_recving_kv_req_ids`, `failed_recving_kv_req_ids` | remote loads and saves, delayed frees, invalid blocks | scheduler and workers, once per step through `KVConnectorOutput` |
| Message queue (`src/vllm/distributed/device_communicators/shm_broadcast.py`) | chunks with written and read flags in shared memory, overflow socket, notify socket | `enqueue`, `dequeue`, `shutdown` | engine to workers (broadcast) and each worker to the engine (responses) |
| Executor and workers (`executor/multiproc_executor.py`) | futures queue, response queues, worker processes | `collective_rpc`, `FutureWrapper.result`, worker busy loop, monitor thread | message queues; the engine's failure callback |
| DP engines (`engine/core.py`), coordinator (`engine/coordinator.py`), client (`engine/core_client.py`) | wave number, running flag, step counter, pause flags at each of the three | `FIRST_REQ`, `START_DP_WAVE`, wave complete, pause, resume | ZMQ messages and all-reduces |
| Model runner | tensors, its own copy of each sequence | executes batches in order | answers with `ModelRunnerOutput` |
| Encoder cache, structured output, output processor, CPU offloading, front ends | see `PROJECT.json` | | |

What is hard here, and what a test hardly reaches:

* *Run-ahead.* With async scheduling `schedule()` runs before the output of the last batches is
  known. Token counts then include outputs that do not exist yet (placeholders) and drafts that may be
  rejected.
* *Outputs of an earlier life.* A request may be preempted, aborted, reset, resumed or preempted again
  while batches that contain it are in flight. Counters alone tell which output belongs to which life.
* *Blocks under a write.* A freed block may still be written by a batch in flight.
* *Caching ahead.* A block gets its hash when its batch is built, before its KV exists.
* *Exhaustion.* Requests that outgrow the pool together preempt one another; all must still finish.
* *Transfers beside the loop.* A load ends, fails or is reported after its request was aborted; it
  holds blocks without progress, and a delayed free has one single event that can undo it.
* *No lock.* Writer and readers of the ring share flags only; notifications may be lost; shutdown comes
  from another thread.
* *Responses without an id.* Pipelined calls are paired with their responses by order alone, across
  failures, deadlines and dead workers.
* *Lock step.* Every forward pass of data-parallel engines is a collective. Who is awake is known to
  client, coordinator and engines at different times.

Section `hazards` of `PROJECT.json` lists these at their lines, each with the properties that watch it.

## 2. Modules

    BlockLease          what the block bookkeeping promises (abstract)
      BlockLease_proofs   theorems about it
    Scheduler           schedule(), update_from_output(), client calls, batch queue; implements BlockLease
      Scheduler_proofs    theorems about its queues, blocks, counters and output, and the refinement
    KVCacheManager      prefix caching: block pool, tables, hashes, and what the workers wrote
      KVCacheManager_proofs  theorems about its pool, hash table, allocations, sharing and contents
    RemoteKV            loads and saves by a KV connector, as the scheduler sees them
      RemoteKV_proofs     theorems about it
    Queues              filtered queues, sorted sets and sums, by position and by counting
      Queues_proofs       lemmas about them
    BroadcastQueue      what the message queue promises (abstract)
      ShmBroadcast        the lock-free ring, its sockets and its parking; implements BroadcastQueue
        ShmBroadcast_proofs theorems about it, the refinement included
    MultiprocExecutor   remote calls over such queues: futures, deadlines, failing workers
      MultiprocExecutor_proofs  theorems about it
    DPWaves             data-parallel engines, coordinator and clients
      DPWaves_proofs      theorems about it
    MC*.tla, MC*.cfg    instances for TLC

A definition preceded by a comment that starts with "Mutant" is a deliberately wrong variant of the
definition after it. No specification uses it; it is there to show that a property can fail.

### BlockLease

State: the free blocks, what each owner holds, the blocks in limbo (`deferred_frees`) with their
fences, the two step counters, the stamp of each owner's last batch and the batches in flight with the
blocks each uses. Actions: `Take` (get_new_blocks), `Issue` (a non-empty batch leaves), `Return`
(preempt, abort, reset), `Retire` (the oldest batch is processed, fences are opened, stopped requests
give back). The specification allows `Retire` to open any of the fences that are reached; the code opens
a FIFO prefix of them.

### Scheduler

The engine core is one thread, so a step of the model is one step of that thread. `schedule()` is cut at
the iterations of its two loops: `pc` is the place, `loop` its locals. Between steps (`pc = "idle"`)
client calls are taken from the input queue; at `pc = "process"` only aborts are, as in
`_pop_and_process_batch`.

| Code | Definition |
|---|---|
| `Request` fields | `req`: `num_computed_tokens` is `computed`, `num_output_placeholders` is `placeholders`, `num_in_flight_tokens` is `inFlight`, `num_stale_output_tokens` is `stale`, `last_sched_seq` is `lastSeq`, `spec_token_ids` is `spec` (their number), `next_decode_eligible_step` minus the current step is `notBefore` |
| running loop, with preemption | `SkipRunning`, `PickRunning`, `AllocateRunning`, `PreemptForRunning`, `EndRunning` |
| waiting loop | `SkipWaiting`, `AdmitWaiting`, `EndWaiting` |
| end of `schedule()`, `_update_after_schedule`, queueing of the batch | `EndSchedule` |
| `update_from_output`, `_drain_deferred_frees`, removal of stopped requests | `UpdateFromOutput` |
| `_preempt_request`, `_free_request_blocks` | `PreemptRequests`, `FreeRequestBlocks` |
| `add_request`, `finish_requests`, `reset_prefix_cache(reset_running_requests=True)` | `AddRequest`, `FinishRequest`, `ResetPrefixCache` |
| which queue a request that ends is taken from: the status decides, in `finish_requests` as in `update_from_output` | `LeaveQueues` |
| the drain of the batch queue when no request is left | `StartDrain` |

Tokens are counted, not represented: token values do not influence scheduling. The model runner is an
environment: it answers a batch with any number of accepted drafts and may stop a request at any token.
`workerLen` and `delivered` are history: the length of the sequence the worker holds, and the positions
of the tokens handed to the client.

The deques are sequences; a removal is `Without` of Queues, which keeps the order of the rest. The
priority queue is a heap of which only the order in which it yields its requests matters, so it is the
sequence of its requests by rank (`ByRank`). `FreeRequestBlocks` frees the tables of a set of requests: the
entries it queues all have the same fence, so their order among each other has no effect.

Configuration: `AsyncScheduler`, V2 model runner (`PPSize + 1` batches in flight), one full-attention
group, prefix caching off, chunked prefill on, text only.

### KVCacheManager

Prefix caching with the free queue in LRU order, reference counts, the hash table (a hash may have
several blocks), the tables and `num_cached_block`. A chained block hash is represented by what it
identifies, the tokens up to the end of the block; collisions are outside the model. `content` is what
the workers have written to each block in the same terms. Batches execute in the order they are issued,
so a batch writes when it is issued. `schedule()` is cut at its iterations again, because caching happens
at allocation time and preemption may follow in the same call.

Abstractions with respect to Scheduler: the number of new tokens is any that a budget could leave; any
waiting request may be next; outputs return per request in order, in any order across requests; deferred
frees return at any moment, in FIFO order. These allow more behaviours than the code, so invariants that
hold here hold under the finer schedule. Drafts count as in Scheduler; a padded admission
has drafts that are never accepted. The full-sequence admission check is on (its default) and the
watermark is 0.

The code's loops over the blocks of a table are closed forms: `Touch`, `GetNewBlocks`, `FreeBlocks` and
`CacheFullBlocks` say for all blocks at once what count, hash and place in the queue they end with. This is
the same result because the blocks of a table are distinct, which the proofs show. That a block is not
given a hash a second time is an assertion of `cache_full_blocks`; it is the property `CachedOnce`. A forced
reset is cut at the iterations of its loop (`ResetPreempt`, then `ResetPrefixCache`); while
`step.resetting` is set nothing else happens, since the code runs the loop without a break.

### RemoteKV

One engine thread in `step()` (one batch at a time, FCFS, one full-attention group, no local prefix
cache) beside a connector and a worker that transfer blocks. The schedule is cut at its iterations as in
Scheduler; `pc` goes through `idle`, the two loops, `execute` and `output`.

| Code | Definition |
|---|---|
| running loop, preemption | `ScheduleRunning`, `PreemptForRunning`, `EndRunning` |
| a request still loading, or promoted when its receive has finished | `SkipLoading`, `PromoteLoaded` (`_update_waiting_for_remote_kv`) |
| admission with an asynchronous load, or with a synchronous one or none; the break | `AdmitLoad`, `AdmitWaiting`, `EndWaiting` |
| `_inflight_prefill_reserved_blocks`, `allocate_slots` with `reserved_blocks` and `full_sequence_must_fit` | `InflightReserved`, `Fits`, `LoadFits` |
| `_handle_invalid_blocks`, `_update_requests_with_invalid_blocks`, `_update_from_kv_xfer_finished`, sampling and stopping | `UpdateFromOutput`, with `CheckedBlocks`, `InvalidAt`, `Affected`, `Sampled`, `FreesLateLoad` |
| `finish_requests` with a delayed free | `FinishRequest`, `AwaitsLoad` |
| connector (external): what it offers, that it may keep blocks to save them, when transfers end, which blocks fail and whether that is reported with the end of the load or in an earlier pass | `Offers`, `MaySave`, `LoadFails`, `LoadEnds`, `SaveEnds`, `Execute` |

`valid` is history: the blocks that hold the KV of their request. `config` is chosen in `Init`, so that
one run covers both failure policies and both settings of the full-sequence reservation.
`RetriesFailed` says whether a connector offers a load again that has failed. Which free blocks are handed
out does not matter without a prefix cache, so `GetNewBlocks` takes the smallest ones (`Smallest`,
`Ascending` of Queues). Requests leave a queue with `Without`, which keeps the order of the rest. Queues
defines these by the position of each element rather than by recursion over a sequence.

### ShmBroadcast and BroadcastQueue

One step is one flag write, one copy into or out of a chunk, or one socket operation, so that writer
and readers interleave between any two of them; on the code's memory fences rests that these happen in
program order for everyone. `enqueue` is `Enqueue`, `AcquireWrite`, `BeginCopy`, `EndCopy`, `ResetFlag`
(one per reader), `MarkWritten`, `SendOverflow`, `Notify`; the chunk is not whole between `BeginCopy` and `EndCopy`.
`dequeue` is `AcquireRead`, or `Park` and one of the wake-ups (`WakeOnNotify`, `WakeOnCancel`,
`WakeOnRecheck`), then `ReleaseRead` and, for a payload that did not fit, `RecvOverflow` or
`RecvTimeout`. A notification is conflated and may be lost. `BroadcastQueue` counts what is published and
what each reader has released; the mapping is `sent` and `seen`, and the ring's capacity is `MaxChunks`.

### MultiprocExecutor

The engine thread makes calls (`CollectiveRpc`), asks for results in any order (`Result`), drains older
futures first (`PopFuture`), reads the response queues one rank at a time (`Collect`) until the call is
settled (`Return`), its deadline passes (`Deadline`) or the failure flag is seen between two slices
(`AbortFailed`). Workers execute a call and, if they are asked to reply, answer it; they raise (the
failure is the answer, and after a device error the process exits), get stuck in a collective that a failed peer never joins, exit or crash.
The monitor thread notices a death and shuts the rest down.

Workers read the broadcast without a timeout, so for them it is the FIFO queue that ShmBroadcast is
proved to be. The engine reads the response queues with one, and for such a reader ShmBroadcast promises less.
A response queue is therefore kept as what it is: a ring of chunks (`responses`) and a socket
(`payloads`). A large response is announced by its chunk and sent afterwards (`Answer`, then
`SendPayload`; `sending` while it is under way). A slice may end in between (`SliceTimesOut`): the chunk is
gone, nothing is returned, and `lost` remembers for the properties which call met this at which rank. A
failure is told by a short string, which fits a chunk. With async scheduling a thread of its own sends responses,
so `SendPayload` also happens while the worker's main thread is stuck.

### DPWaves

Clients, coordinator and engines with a FIFO channel for each connection. A client sends a request with
its wave number and pings the coordinator when it believes the engines are paused; the coordinator
broadcasts `START_DP_WAVE`, excluding the engine that has the request; an engine with work steps, and
`Forward` is the collective: it is taken when all engines are in it, finishes any set of the requests
being stepped and, every `SyncInterval` steps, decides whether the wave is over and whether a pause has
been agreed on. `PauseScheduler` and `ResumeScheduler` are `pause_generation(mode="keep")` and
`resume_generation`; the front end resumes when the pause has resolved at every rank, which the
`RuntimeError` of `resume_scheduler` asks of it (a pause that a rank has not taken from its input
queue yet has not resolved there). There is one pause at a time, and a resume only after one. `step_counter` is kept modulo the interval (`NextStep`), with the
values below it kept apart. `Forward` is one step of all ranks, because its first collective holds everyone
until the last has come; a rank that would leave the pass early is not represented, so `LockStep` is about the
reset of the counters and about who takes part. `is_sleeping` is not modelled.

## 3. Runs

| Run | Instance | States | Shows |
|---|---|---|---|
| `lease` | 2 owners, 3 blocks, 3 batches, symmetric | 7,235 | the block discipline and the invariant the proofs use |
| `sched_pp2` | 2 requests, 4 blocks of 2 tokens, `PPSize` 2, drafts, lookahead, `max_tokens` 3, deferred frees, 1 reset | 177,127 | counters, order of delivery and termination under run-ahead and rejection, and the refinement `LeaseSpec` |
| `sched_priority` | 3 requests, priority policy, `PPSize` 2, frees at once | 167,367 | queues, cursor and budget when a victim is already in the batch; order when a request could resume before its output is in |
| `sched_reset` | deferred frees, one reset | violation | finding 1 |
| `kv_share` | 2 requests with a common prefix, 2 sampled values, drafts, lookahead, 2 batches in flight, a reset | 586,646 | all properties of KVCacheManager |
| `kv_priority` | priority policy | violation | finding 2 |
| `mq` | 2 readers (one with a timeout), 2 chunks, 4 messages of either size, shutdown of either reader | 285,469 | the ring implements BroadcastQueue; order, flow control, delivery, shutdown |
| `exec` | 2 ranks, 2 calls of any kind, responses of either size, 1 fault | 195,586 | calls get their own responses until one fails, from every rank that lost none; waits end without the help of a deadline |
| `exec_stale` | 2 ranks, 2 utility calls, 1 fault | violation | finding 3 |
| `dp` | 2 engines, 1 client, interval 2, 1 request and its abort, 1 pause | 113,683 | lock step, collectives that never mix, the two-phase pause, service after it |
| `remotekv` | 2 requests, 3 blocks of 2 tokens, 2 failures, reported early or late, both failure policies | 378,464 | who owns blocks under a transfer, that they come back, that no token comes from missing KV, that every request finishes |
| `remotekv_retry` | the same with 1 failure, the connector offers a failed load again | violation | finding 4 |

Why the bounds are enough for the cases of interest. Scheduler: the pool holds one sequence of
maximal length but not two, so preemption is forced; `PPSize` 2 gives three batches in flight, so that
a preempted request can have stale outputs and fresh ones at once; `max_tokens` 3 lets a request go on
after a rejected draft. Ring: four messages go round two chunks twice, so every flag is used in a second
life. Executor: two calls allow one whose result is asked for before its predecessor's, and one made after a
failure or a lost response; that no longer sequence of calls mixes up responses is proved. DP: one request, its abort and one pause already meet every message at every place of the
loops; interval 2 has passes with and without the all-reduce. Remote KV: the two sequences need all
blocks each, so loads compete; a load ends in the middle of a block; of two failures one may be reported while the
load goes on and the other with its end, or after an abort. For every
property a mutant in `PROJECT.json` shows that the run reaches the situation in which a plausible bug
breaks it. Bounds by name: `Steps` (the numbers of the batches of BlockLease: three in its own run, `Nat`,
so no bound at all, in the refinement), `MaxResets`, `MaxInFlight` (batches per
request in KVCacheManager), `MaxMsgs`, `MaxCalls`, `MaxFaults`, `MaxRequests`, `MaxPauses`, `MaxFailures`.
Only `lease` checks deadlock: everywhere else the system may stop, because every request has finished,
every reader is shut down, or a worker is dead, and the thread blocks on its input.

### Properties

* Scheduler: `QueuesMatchStatus`, `CountersMatchBatches` (in-flight, stale and placeholder counters are
  exactly what the batch queue implies), `ComputedAhead`, `PreemptionKeepsLoop`, `DeliveredInOrder` (tokens
  reach the client once and in order), `BlocksPartitioned`, `OnlyRunningHold`, `NoOutputAfterFinish`,
  `LeaseSpec`, `EveryRequestFinishes`, `DeferredFreesDrain`.
* KVCacheManager: `RefCountsExact`, `HashMapExact`, `CacheIntegrity` (a cached block holds the KV its hash
  stands for), `ReadsOwnTokens`, `WritesOwnBlocks`, `CachedOnce` (the assertion of
  `cache_full_blocks`), `PrefixClosed`, `CheckedAllocationSucceeds`.
* RemoteKV: `TransfersKeepBlocks` (a block under a transfer is not free and in nobody else's table),
  `DelayedFreeHasReport` (a finished request that holds blocks has an event outstanding that returns
  them), `SampledFromValidKV`, `EveryLoadFinishes`.
* ShmBroadcast: `UntimedInOrder`, `OverflowBounded` (the ring is the flow control of the overflow socket),
  `QueueSpec`, `Delivery`, `ShutdownStops`.
* MultiprocExecutor: `ResponsesMatchUntilFailure`, for every rank of which no response was lost; `WaitEnds`:
  once a process has died every wait ends, whoever replies, and otherwise waits end unless a response was
  lost or a rank that does not reply raised (`Unheard`). `ResponsesMatchCall` is what the documentation says,
  without conditions.
* DPWaves: `LockStep`, `NoMixedCollectives`, `PauseCompletes`, `ServedAfterResume`.

### Fairness

* Scheduler: weak fairness of `EngineStep` only. The engine core is one thread that loops for ever
  while it has work (`run_busy_loop`), and the executor answers every batch it was given.
* ShmBroadcast: weak fairness of an enqueue under way and of each reader's thread. No ping has to
  arrive: a parked reader rechecks by itself (`SHM_READER_RECHECK_INTERVAL_MS`).
* MultiprocExecutor: weak fairness of the engine in `result()`, of workers that are
  neither stuck nor dead, of a payload under way and of the monitor thread. Deadlines are not fair: no wait may rest on
  one.
* DPWaves: weak fairness of every loop; strong fairness of an engine's input, because the busy loop
  polls it at every turn and a message in a queue is not overtaken for ever; strong fairness of a pass
  that finishes something, because a request that is stepped reaches `max_tokens`.
* RemoteKV: weak fairness of the engine step; strong fairness of the end of a transfer, which runs beside
  the loop while the model takes it between two schedules.

Nothing is assumed of clients: nobody has to add, abort, reset, call, pause, resume or shut down.

## 4. Findings

1. `sched_reset`. `reset_prefix_cache(reset_running_requests=True)` preempts every running request; its
   comment says "thus we can make sure the reset is successful". With `defer_block_free` the blocks of
   a request whose batch is in flight go to `deferred_frees`, the pool refuses to reset and the call
   raises `RuntimeError` after every request was preempted.
2. `kv_priority`. `allocate_slots` caches the blocks a request is about to fill. If, later in the same
   `schedule()`, a request of higher priority needs a block, the victim may be that request: it leaves
   the batch and its blocks are freed, but keep their hashes. A later request with the same prefix hits
   blocks that were never computed. Under FCFS the victim is the last of the running queue, which has not been
   scheduled yet in this step, and `CacheIntegrity` holds (`kv_share`).
3. `exec_stale`. `Executor.collective_rpc` returns "A list containing the results from each worker"
   (`executor/abstract.py:188`). When one rank's response is a failure, `get_response` raises and leaves
   the responses of the other ranks to this call unread. Nothing is thrown away later, so if the caller
   survives the exception, the next utility call takes them for its own. The same follows a deadline.
4. `remotekv_retry`. An asynchronous load is admitted "only if it fits in (free - other in-flight
   reservations), to avoid deadlock" (`core/sched/scheduler.py:1291`). A load that failed from its first block on gives its
   blocks back but stays in `_inflight_prefills`. When the connector offers it again, the request's own
   sequence is counted as a reservation of others; if load and sequence together exceed the pool it is
   never admitted, and the loop stops there for everyone behind it, with all blocks free.

Not findings, since no document of the repository promises otherwise or no run of the project asks
the question, but to be known:

* With a connector that is both consumer (frees are deferred) and
  producer (`requires_kv_delivery`, stale output is dropped) and `PPSize` 2, TLC exhibits behaviours of
  Scheduler in which two requests preempt each other batch after batch (a hundred batches, and as many as
  one likes, without a single token delivered): a preemption releases no block in the same
  step, the cascade therefore also preempts the request that asked, and the output in flight, which would have
  been progress, is dropped. No document promises progress there; `EveryRequestFinishes` is
  checked for settings in which stale output is delivered.
* DP: an engine that is excluded from `START_DP_WAVE` because it has the first request
  (`engine/coordinator.py:366`) may get the abort of that request before it steps. It stays idle while
  the other engines wait for it in a dummy pass, and a request sent to one of those by a client that
  believes the engines are running is served only when a later request wakes the idle engine. A
  `FIRST_REQ` that is delayed until the wave has changed, and is forwarded with the new wave, strands an engine in
  the same way. TLC shows both with `MaxRequests` 2 and the property that a request sent is finished
  unless a pause comes; compare `src/docs/serving/data_parallel_deployment.md:15`.
* DP: a caller that resumes without waiting for the pause to resolve can bring one rank into the
  all-reduce of `resume_scheduler` while another is in a forward pass. The contract is in
  `engine/core.py:2183` and `engine/async_llm.py:921`; the model's front end keeps it.
* Executor: `get_response` scans the response queues in slices of at most a second, in order to "never commit
  to an indefinite blocking wait on a single rank" (`multiproc_executor.py:431-432`). A response too large for a chunk is
  announced by its chunk and sent on a socket afterwards; when the poll for it times out, `dequeue` has
  already released the chunk (`shm_broadcast.py:889-902`), and the scan takes the `TimeoutError` for an
  empty queue. The response is lost. A call without a deadline that all ranks answer then waits for ever
  with every worker alive, which TLC shows with one call and no fault, and the payload, once it is there, is taken
  for the rank's next large response. It takes an I/O thread slower than the slice, and the slice shrinks to
  nothing towards a deadline. `WaitEnds` and `ResponsesMatchUntilFailure` leave exactly this out
  (`lost`), as `UntimedInOrder` and `OverflowBounded` do by speaking of readers without a timeout.
* Executor: a call to which one rank replies, without a deadline (`execute_dummy_batch`,
  `multiproc_executor.py:370`), waits for ever if another rank raises an ordinary exception: that rank
  sends nothing and stays alive. `WaitEnds` leaves this case out.

## 5. Proofs

### The block discipline (`BlockLease_proofs`)

`BlockLease_proofs` proves, for any sets of owners and blocks and any set `Steps` of natural numbers
(`StepsAssumption`, the only assumption):

* `LeaseInductive`: `Spec => []IInv`;
* `LeaseTypeOK`, `LeasePartition`, `LeaseNoUseAfterFree`: what follows from it.

`NoUseAfterFree` is not inductive: it does not say why a block in use is neither free nor in other
hands. The invariant adds `Protected`, that each block used by the i-th batch in flight is still its owner's,
whose stamp is at least that batch's number, or in limbo behind a fence at least as late; `CountersInStep`,
that the i-th batch in flight has number `retired + i`; and `Partition`. One lemma per action:
`Take` takes free blocks, which are in no batch; `Issue` stamps the owners with the new
number; a give-back sends the blocks of owners with a pending stamp to limbo behind `issued`, which
no batch in flight exceeds; `Retire` shifts the numbers by one and only opens fences that are reached.

### The scheduler (`Scheduler_proofs`)

For any requests, blocks, prompt lengths, `max_tokens`, budgets, pipeline depth, number of drafts and
lookahead tokens, either policy, and deferred frees or not (`SchedulerAssumption`: finite sets, positive or
natural numbers, distinct ranks, prompts shorter than the model length, and one sequence of maximal
length fits in the pool; the last two are what the front end and the start-up check enforce):

* `QueuesMatch`, `OnlyRunningHoldBlocks`, `NoBlockLost`, `FinishedIsFinal`: `QueuesMatchStatus`,
  `OnlyRunningHold`, `BlocksPartitioned`, `NoOutputAfterFinish`;
* `ImplementsBlockLease`: with `DeferBlockFree`, `Spec => LeaseSpec`; and from it, with the theorem of
  `BlockLease_proofs`, `NoBatchUsesAFreedBlock`: no block that a batch in flight uses is free or in
  another request's table;
* `CountersMatch`, `ComputedStaysAhead`, `PreemptionKeepsTheLoop`, `TypeCorrect`, `OutputInOrder`:
  `CountersMatchBatches`, `ComputedAhead`, `PreemptionKeepsLoop`, `TypeOK`, `DeliveredInOrder`.

The argument goes up in layers; each layer is an invariant that is inductive given the ones below it.

1. `Base` is `Types`, `QueuesMatchStatus` and `Cursor`. `Types` only says that the counters are integers:
   that they never go below zero is a consequence of what they count, and comes last. `Cursor` says that the loop
   over the running queue is past exactly the requests it has looked at that still run, which
   `PreemptForRunning` needs to know that the current request and the victim are in the queue.
2. `Held` is `OnlyRunningHold` and `Placed`, by which a block is in one table, one deferred entry or the
   free set.
3. `Fences`: the fences of `deferred_frees` ascend, are ahead of the batches processed and not ahead
   of the ones sent. So the prefix that is drained is exactly what is reached, and processing an empty
   batch drains nothing: it must not, because it leaves the abstract counters alone. With it, every
   action is a step of BlockLease or stutters: allocations are `Take` (or nothing, if no block was missing),
   preemption, abort and reset are `Return`, `EndSchedule` of a non-empty batch is `Issue`, and
   `UpdateFromOutput` of one is `Retire` of the drained blocks and the stopped requests. The abstract queue of batches
   is the concrete one without its empty batches, selected by position, so the proof rests on two
   lemmas of Queues_proofs on what appending and taking the head do to such a selection.
4. `Counts`: the three counters are the sums over the batches (`Counted`), a batch of an earlier life is
   in front of every batch of a later one (`QueueOK`), and while a batch is being built its tokens and
   the rest of the budget add up (`LoopExact`, `WantFits`). The order of the lives is why counters alone can tell a stale output:
   the stale tokens are always those of a prefix of the queue.
5. `Numbered`: the step numbers against the batches in flight, for `procSeq <= schedSeq` in `TypeOK`.
6. `AllInSync`: for a known request whose output will be delivered, the worker's copy of the sequence is as long as
   the scheduler's, counting what the batches in front will add. `DeliveredInOrder` follows.

Sums and filtered queues are what kept these proofs out of reach as long as they were folds. `Total` of
Queues counts pairs instead, so adding, removing or changing one entry is a fact about cardinalities.

### The prefix cache (`KVCacheManager_proofs`)

For any requests, prompts, pool, block size, drafts and lookahead, either policy, deferred frees or not, and
any number of batches in flight and resets (`KVAssumption`: finite sets, positive or natural numbers,
prompts shorter than the model length, distinct ranks):

* `CountsExact`: `RefCountsExact`; `CacheExact`: `HashMapExact`; `AllocationSucceeds`:
  `CheckedAllocationSucceeds`; `TypeCorrect`: `TypeOK`.
* `SharingHolds`, `WritesOwn`, `CachesOnce`: `Sharing` holds, and with it `WritesOwnBlocks` and `CachedOnce`.
* `ContentsHold`: `Contents` holds. Under the default policy (`~Priority`), `CachedBlocksFilled`:
  `CacheIntegrity`; `ReadsOwn`: `ReadsOwnTokens`. Under the priority policy `CacheIntegrity` is false
  (finding `kv_priority`), so the hypothesis is needed.

The argument has three layers, each resting on the one before.

`Inv` is `Books` and `Lines`. `Books` is about the pool: counts are holders, the free queue lists the
blocks without a reference, and every entry of the hash table lists the blocks with its hash; for that to
survive an allocation or a free, no table and no deferred free may list a block twice. `Lines` is about the
requests and is there for the arithmetic: a block may only be given a hash if it is in the table and full, so a
running request has blocks for everything it has computed and will have computed in this step (`Placed`), and
its counts fit its tokens and the outputs in flight (`Sound`: the computed tokens without placeholders
are behind the tokens known, and placeholders are exactly what the batches in flight may still
bring, also after rejected drafts). The hits of an admission are distinct because the hashes of a sequence have
different lengths; they and the new blocks are disjoint because touching the hits takes them out
of the free queue; and what is left of the queue has the missing blocks because the check counted the hits
that were free.

`Sharing` adds `Names` and `Turns`. `Names` says that the first `num_cached_block` blocks of a table carry
the hashes of the request's own tokens and the others none, and that a block without a hash has at most one
reference. `Turns` is about schedule() in the middle of a step: the requests after the cursor have no
tokens in the batch, the number of tokens for which others are preempted is one that the current request
may have, and blocks are cached no further than this step computes. So a block that
two tables share is cached, hence full, hence behind the position at which either of them writes next.

`Contents` adds `Filled`, which relates hashes to what the workers have written. allocate_slots gives a block
its hash before its batch has run, so within a step "a block with a hash holds its tokens" is false;
`Filled` says that such a block holds its tokens or is one that a request of the batch will write
(`PendingIn`), and that a table's block without a hash holds the request's own tokens as far as they are
computed. IssueBatch discharges the pending ones: the workers write every block whose end the batch passes
(`WrittenPassed`), what they write into a block with a hash is what the hash stands for, whichever of the
requests that share the block writes last (`WrittenNamed`), and a block without a hash is written by
its own request alone. Preempt is where the policy matters: under FCFS the victim is the last running
request, which is not in the batch yet (`Turns`), so nothing pending is lost.

### The message queue (`ShmBroadcast_proofs`)

For any `NumReaders`, `MaxChunks` and `MaxMsgs` (`RingAssumption`: positive chunks and readers, a
natural number of messages, and which readers wait with a timeout):

* `RingInductive`, `RingTypeOK`: `RingInv` holds, and with it the types.
* `RingRefines`: `Spec => QueueSpec`, the refinement of BroadcastQueue. `MarkWritten` is `Publish`,
  `ReleaseRead` is `Take` of that reader, every other step stutters.
* `SocketInductive`, `MessagesInOrder`, `SocketsBounded`: `UntimedInOrder` and `OverflowBounded`.

Neither promise is inductive, because flags, not counts, decide who may proceed. `RingInv` says what the
flags mean: `Msg(c)` is the number of the message that chunk `c` holds and `At(n)` the chunk of the
message after the n-th, both linear in the writer's index and the number sent, so no modular
arithmetic is needed. `Positions` says that each reader's index is `At` of what it has seen, and that it
is at most one round behind; `Flags` that a chunk is marked written exactly when it is whole, and that a
reader's flag is set exactly when it has seen the chunk's message, except in the chunk that is
being reset. Hence a writer that finds all flags set is a round ahead of nobody, and a reader that finds
its flag clear in a written chunk is at its next message. `SocketInv` adds that the chunk contents belong
to `Msg(c)` and that a reader's overflow socket holds, in order, the payloads of the overflow chunks
it has still to release, plus the one it is waiting for.

### Calls and responses (`MultiprocExecutor_proofs`)

For any set of ranks and any `MaxCalls` and `MaxFaults` (`ExecutorAssumption`):

* `ExecInductive`, `ExecTypeOK`: `ExecInv` holds, and with it the types.
* `ExecResponses`: `ResponsesMatchUntilFailure`.

`InCallOrder` says that broadcasts and futures are queued in the order of the calls, so that a queue's
length tells which call is next; `SettledInOrder` that futures are settled in that order, one at a time, and
that nothing is lost for a call before its turn. `InStep` says that until a call has failed, a rank of which
nothing was lost has in its ring exactly the responses to the calls it has executed and whose responses were not taken (`Answers`), and in
its socket exactly the payloads of the large ones among them (`Payloads`). The second is what a slice that ends too
early destroys. The first needs that a response is only taken of
a call the rank has executed; the proof showed that the invariant is not inductive without it, although
TLC had found it true in all reachable states. Slices may end early at other ranks, and at this rank later on: the
theorem says that no call up to then is affected.

### Lock step (`DPWaves_proofs`)

For any number of engines, clients, requests and pauses and any interval (`WavesAssumption`):

* `WavesInductive`, `WavesTypeOK`: `WavesInv` holds, and with it the types.
* `WavesLockStep`: `LockStep`; `WavesNoMixedCollectives`: `NoMixedCollectives`.

`SameSteps` says that the step counters are equal everywhere: they change in the collective only.
`PauseInv` says of each rank that a resume waits in its queue at most once and ahead of any pause, that a
rank with a resume waiting is stopped (idle, paused and deaf to `START_DP_WAVE`), and that ranks
resume together: as soon as one has a resume waiting or is in the barrier, all are. A rank in a forward pass
has work and no resume waiting, so none is in the barrier. With two pauses the proof fails if
a pause that still waits in a rank's input queue counts as resolved; the model had left that out, which
one pause does not show, and `PauseResolved` now has it.

### Remote loads and saves (`RemoteKV_proofs`, `Queues_proofs`)

For any requests, blocks, prompt and load lengths, budgets and number of failed transfers, with a
connector that offers a failed load again or not (`RemoteAssumption`: finitely many requests, the counts are positive or natural
numbers, a load is no longer than its prompt, each sequence fits in the pool):

* `RemoteInductive`, `RemoteTypeOK`: `RemoteInv` holds, and with it the types.
* `RemoteTransfersKeepBlocks`: `TransfersKeepBlocks`; `RemoteDelayedFree`: `DelayedFreeHasReport`.
* `RemoteKVSound`, `RemoteSampled`: `KVInv` holds, and with it `SampledFromValidKV`.

`RunningOnce` says that the running queue holds requests that run, each once; without it a request that
is preempted, and frees its blocks, might be scheduled again from a second place in the queue. `Owners`
says that every block is free or in exactly one table and that a request the scheduler has forgotten has
no table. `Transfers` ties the transfer of a request and the report of it to the request's status: a load
under way belongs to a request that waits for it or has finished; a request that waits is in
`finished_recving` only when its load is over; a report is about a request whose transfer is over; and a
finished request that is still tracked has a transfer or a report outstanding. The two promises follow
at once, but neither is inductive: an abort must delay the free exactly when a load is under way
(`AwaitsLoad` looks at `finished_recving`, not at the transfer), and a late report must not meet a
request that has been promoted.

`KVInv` is about the tokens that count as computed. `CountedOf` says that a table is long enough for them and
for the batch, across failures that shorten the count. `SoundOf` says of the blocks for them: while the load
is in flight, it will write them, or has failed on them and the failure is known to the worker or on
its way to the scheduler; once it is over, they are valid or in its report; of any other request
they are valid, except that a load within the step is done, or fails, when the batch executes. A failure
reported early truncates or ends the request while the rest of the load goes on, which is why the blocks a
load will still write and the ones it has failed on are kept apart (`fails`). `Listed` says that
every request a failure can affect is in the queue in which `_handle_invalid_blocks` looks for it, and
`Batched` who can be in a batch at all.

`Queues_proofs` shows that `Ascending` lists every element of a finite set of integers once and in
ascending order, and that `Without` keeps exactly the elements it should, still distinct if they were. These
are facts about all finite sets and sequences, and the provers do no induction; the proofs count
instead: ranks are distinct numbers below the cardinality, so by the pigeonhole principle every number
below it is taken.

### Only model-checked

* Liveness (`Delivery`, `ShutdownStops`, `WaitEnds`, `PauseCompletes`, `ServedAfterResume`,
  `EveryLoadFinishes`, `EveryRequestFinishes`, `DeferredFreesDrain`), which TLAPS does not handle.
* `PrefixClosed`, which depends on the order of the free queue: the blocks of a sequence, with all
  duplicates of each hash, would have to be ordered by when they were freed.

## 6. Not modelled

Scheduler: pause states and streaming sessions; encoder inputs and encoder cache; LoRA limits;
structured output and deferred sampling; DP prefill throttling; adaptive draft budgets; the watermark.
KV cache: mamba, sliding window, chunked local, cross attention and hybrid groups; the EAGLE last-block
drop; copy-on-write of partial blocks; `evict_blocks`; KV events. Connectors: what each of them
does inside, an offer that is not known yet (`None`), blocks shared between loads and a local prefix
cache, several batches in flight during a load, hybrid groups. Message queue: remote readers, the
handshake, errors while encoding or decoding. Executor: start-up, several nodes, output aggregation,
Ray. DP: load statistics and load balancing, elastic scaling, shutdown, pause modes other than
`keep`. Sleep mode, front ends, models, kernels and all numerical code, which is the largest part of the
repository by far and out of a model checker's reach. `PROJECT.json` gives the reason for each component.

## 7. Plan

1. Done: BlockLease, Scheduler with its refinement, KVCacheManager, RemoteKV, ShmBroadcast with its
   refinement, MultiprocExecutor, DPWaves; proofs about all of them.
2. KVCacheManager: the order of the free queue, then `PrefixClosed`.
3. Pause states and streaming sessions in Scheduler; KV events replayed against the hash table; CPU
   offload manager; encoder cache manager; parallel sampling in the output processor.
