------------------------------ MODULE RemoteKV ------------------------------
(***************************************************************************)
(* Loads and saves of KV by a connector, as the scheduler sees them:       *)
(* WAITING_FOR_REMOTE_KVS, late and failed loads, frees that wait for a    *)
(* transfer, and the blocks that loads may take from the requests that     *)
(* compute.  The engine loop is step(): one batch at a time, first come    *)
(* first served, one full-attention group, no local prefix cache.          *)
(***************************************************************************)
EXTENDS Integers, Sequences, FiniteSets, FiniteSetsExt, SequencesExt, Queues

CONSTANTS
  Requests,
  NumBlocks,      \* size of the block pool
  BlockSize,
  PromptLen,      \* prompt tokens of each request
  MaxTokens,      \* output tokens of each request
  ExtTokens,      \* numbers of tokens the connector may offer to load
  RetriesFailed,  \* does the connector offer a load that failed again?
  TokenBudget,    \* max_num_scheduled_tokens
  MaxNumSeqs,     \* max_num_running_reqs
  MaxFailures     \* bound on failed transfers

cdiv(a, b) == (a + b - 1) \div b

ASSUME RemoteAssumption ==
  /\ IsFiniteSet(Requests) /\ NumBlocks \in Nat /\ BlockSize \in Nat \ {0}
  /\ TokenBudget \in Nat \ {0} /\ MaxNumSeqs \in Nat \ {0}
  /\ MaxFailures \in Nat /\ RetriesFailed \in BOOLEAN
  /\ \A r \in Requests :
       /\ PromptLen[r] \in Nat \ {0} /\ MaxTokens[r] \in Nat \ {0}
       /\ ExtTokens[r] \subseteq 1..PromptLen[r]
       /\ cdiv(PromptLen[r] + MaxTokens[r], BlockSize) <= NumBlocks

Blocks == 1..NumBlocks

VARIABLES
  status, computed, tokens, blocks, preemptions, \* of each request
  requests,         \* the ids the scheduler still tracks
  free,             \* the pool's free blocks
  running, waiting, skipped,
  inflight_prefills, finished_recving, failed_recving,
  pc, loop,         \* where step() is; the loop variables of schedule()
  config,           \* recompute: kv_load_failure_policy is not "fail";
                    \* reserveFullISL: scheduler_reserve_full_isl
  xfer,             \* a request's transfer at the worker: its blocks, and
                    \* those of them whose load has failed
  bad,              \* blocks whose load failed, not reported yet
  valid,            \* blocks that hold the KV of their request
  report,           \* the KVConnectorOutput of the step
  failed, failures  \* requests with a failed load; number of failures

sched == <<status, computed, tokens, blocks, preemptions, requests, free,
           running, waiting, skipped, inflight_prefills, finished_recving,
           failed_recving>>
worker == <<xfer, bad, valid, report, failed, failures>>
vars == <<sched, pc, loop, config, worker>>

MinOf(a, b) == IF a < b THEN a ELSE b
Table(r) == ToSet(blocks[r])
Zero == [r \in Requests |-> 0]
Transfer(kind, on) == [kind |-> kind, on |-> on, fails |-> {}]
NoTransfer == Transfer("none", {})
NoReport == [recv |-> {}, sent |-> {}, invalid |-> {}]
NoLoop == [idx |-> 0, budget |-> 0, toks |-> Zero, sync |-> {},
           preempted |-> FALSE, stepSkipped |-> <<>>]

Init ==
  /\ status = [r \in Requests |-> "NONE"]
  /\ computed = Zero /\ tokens = [r \in Requests |-> PromptLen[r]]
  /\ blocks = [r \in Requests |-> <<>>]
  /\ preemptions = [r \in Requests |-> FALSE]
  /\ requests = {} /\ free = Blocks
  /\ running = <<>> /\ waiting = <<>> /\ skipped = <<>>
  /\ inflight_prefills = {} /\ finished_recving = {} /\ failed_recving = {}
  /\ pc = "idle" /\ loop = NoLoop
  /\ config \in [recompute : BOOLEAN, reserveFullISL : BOOLEAN]
  /\ xfer = [r \in Requests |-> NoTransfer] /\ bad = {} /\ valid = {}
  /\ report = NoReport /\ failed = {} /\ failures = 0

(***************************************************************************)
(* Calls from the clients                                                  *)
(***************************************************************************)
AddRequest(r) ==
  /\ pc = "idle" /\ status[r] = "NONE"
  /\ status' = [status EXCEPT ![r] = "WAITING"]
  /\ waiting' = Append(waiting, r)
  /\ requests' = requests \cup {r}
  /\ UNCHANGED <<computed, tokens, blocks, preemptions, free, running, skipped,
                 inflight_prefills, finished_recving, failed_recving, pc,
                 loop, config, worker>>

(* Mutant: the blocks of an aborted load are freed at once. *)
FreesLoadAtOnce(r) == FALSE

(* An aborted load keeps its blocks until the worker says it is over. *)
AwaitsLoad(r) ==
  status[r] = "WAITING_FOR_REMOTE_KVS" /\ r \notin finished_recving

(* Return the blocks of the requests S to the pool. *)
FreeBlocks(S) ==
  /\ blocks' = [r \in Requests |-> IF r \in S THEN <<>> ELSE blocks[r]]
  /\ free' = free \cup UNION {Table(r) : r \in S}

(* request_finished: the connector may save the blocks of a request that    *)
(* has run, and then answers for them.                                     *)
MaySave(r) == status[r] = "RUNNING"

(* finish_requests, from the input queue or, while a batch runs, from the   *)
(* aborts queue.                                                           *)
FinishRequest(r, save) ==
  /\ pc \in {"idle", "output"}
  /\ r \in requests /\ status[r] # "FINISHED"
  /\ save => MaySave(r)
  /\ LET delay == AwaitsLoad(r) \/ save IN
     /\ FreeBlocks(IF delay THEN {} ELSE {r})
     /\ requests' = IF delay THEN requests ELSE requests \ {r}
  /\ status' = [status EXCEPT ![r] = "FINISHED"]
  /\ xfer' = IF save THEN [xfer EXCEPT ![r] = Transfer("sending", Table(r))] ELSE xfer
  /\ running' = Without(running, {r})
  /\ waiting' = Without(waiting, {r})
  /\ skipped' = Without(skipped, {r})
  /\ inflight_prefills' = inflight_prefills \ {r}
  /\ finished_recving' = finished_recving \ {r}
  /\ failed_recving' = failed_recving \ {r}
  /\ UNCHANGED <<computed, tokens, preemptions, pc, loop, config, bad,
                 valid, report, failed, failures>>

(***************************************************************************)
(* schedule(): running requests                                            *)
(***************************************************************************)
StartSchedule ==
  /\ pc = "idle" /\ requests # {}
  /\ pc' = "running"
  /\ loop' = [NoLoop EXCEPT !.budget = TokenBudget]
  /\ UNCHANGED <<sched, config, worker>>

(* get_num_blocks_to_allocate for r to hold n tokens *)
BlocksToHold(r, n) == Max({0, cdiv(n, BlockSize) - Len(blocks[r])})

GetNewBlocks(r, n) ==
  LET new == Smallest(n, free)
  IN /\ blocks' = [blocks EXCEPT ![r] = @ \o Ascending(new)]
     /\ free' = free \ new
     /\ valid' = valid \ new

InRunningLoop == loop.idx < Len(running) /\ loop.budget > 0
Current == running[loop.idx + 1]
RunTokens == MinOf(tokens[Current] - computed[Current], loop.budget)
CurrentNeeds == BlocksToHold(Current, computed[Current] + RunTokens)

ScheduleRunning ==
  /\ pc = "running" /\ InRunningLoop
  /\ CurrentNeeds <= Cardinality(free)
  /\ GetNewBlocks(Current, CurrentNeeds)
  /\ loop' = [loop EXCEPT !.idx = @ + 1, !.budget = @ - RunTokens,
                          !.toks[Current] = RunTokens]
  /\ UNCHANGED <<status, computed, tokens, preemptions, requests, running,
                 waiting, skipped, inflight_prefills, finished_recving,
                 failed_recving, pc, config, xfer, bad, report, failed, failures>>

(* _preempt_request of the last running request, until the current one     *)
(* fits or is itself the victim.                                           *)
PreemptForRunning ==
  LET v == Last(running) IN
  /\ pc = "running" /\ InRunningLoop
  /\ CurrentNeeds > Cardinality(free)
  /\ FreeBlocks({v})
  /\ status' = [status EXCEPT ![v] = "PREEMPTED"]
  /\ computed' = [computed EXCEPT ![v] = 0]
  /\ preemptions' = [preemptions EXCEPT ![v] = TRUE]
  /\ inflight_prefills' = inflight_prefills \ {v}
  /\ running' = Front(running)
  /\ waiting' = <<v>> \o waiting
  /\ loop' = [loop EXCEPT !.preempted = TRUE]
  /\ pc' = IF v = Current THEN "end" ELSE "running"
  /\ UNCHANGED <<tokens, requests, skipped, finished_recving, failed_recving,
                 config, worker>>

EndRunning ==
  /\ pc = "running" /\ ~InRunningLoop
  /\ pc' = IF loop.preempted THEN "end" ELSE "waiting"
  /\ UNCHANGED <<sched, loop, config, worker>>

(***************************************************************************)
(* schedule(): waiting requests                                            *)
(***************************************************************************)
InWaitingLoop ==
  /\ waiting # <<>> \/ skipped # <<>>
  /\ loop.budget > 0
  /\ Len(running) < MaxNumSeqs

NextWaiting == Head(IF skipped # <<>> THEN skipped ELSE waiting)
PopWaiting ==
  /\ waiting' = IF skipped # <<>> THEN waiting ELSE Tail(waiting)
  /\ skipped' = IF skipped # <<>> THEN Tail(skipped) ELSE skipped

(* A load that is not finished is passed over. *)
SkipLoading ==
  /\ pc = "waiting" /\ InWaitingLoop
  /\ status[NextWaiting] = "WAITING_FOR_REMOTE_KVS"
  /\ NextWaiting \notin finished_recving
  /\ PopWaiting
  /\ loop' = [loop EXCEPT !.stepSkipped = <<NextWaiting>> \o @]
  /\ UNCHANGED <<status, computed, tokens, blocks, preemptions, requests, free,
                 running, inflight_prefills, finished_recving,
                 failed_recving, pc, config, worker>>

(* _try_promote_blocked_waiting_request and _update_waiting_for_remote_kv: *)
(* a load that failed from its first block on gives its blocks back; after *)
(* a full hit the last token is computed again.                            *)
PromoteLoaded ==
  LET r == NextWaiting
      broken == r \in failed_recving
  IN
  /\ pc = "waiting" /\ InWaitingLoop
  /\ status[r] = "WAITING_FOR_REMOTE_KVS" /\ r \in finished_recving
  /\ FreeBlocks(IF broken /\ computed[r] = 0 THEN {r} ELSE {})
  /\ computed' = [computed EXCEPT ![r] = IF ~broken /\ @ = tokens[r]
                                         THEN @ - 1 ELSE @]
  /\ status' = [status EXCEPT ![r] = IF preemptions[r] THEN "PREEMPTED"
                                                       ELSE "WAITING"]
  /\ finished_recving' = finished_recving \ {r}
  /\ failed_recving' = failed_recving \ {r}
  /\ UNCHANGED <<tokens, preemptions, requests, running, waiting, skipped,
                 inflight_prefills, pc, loop, config, worker>>

Schedulable(r) == status[r] \in {"WAITING", "PREEMPTED"}

(* get_num_new_matched_tokens, asked for requests with nothing computed *)
Offers(r) ==
  IF computed[r] = 0 /\ (RetriesFailed \/ r \notin failed)
    THEN {0} \cup ExtTokens[r] ELSE {0}

(* Mutant: nothing is kept back for the loads in flight. *)
ReservesNothing == 0

(* Blocks that the loads and prefills in flight still need to finish *)
InflightReserved ==
  Total([r \in inflight_prefills |-> BlocksToHold(r, tokens[r])])

(* allocate_slots for n tokens of a waiting request *)
Fits(r, n, reserved) ==
  /\ config.reserveFullISL => BlocksToHold(r, tokens[r]) <= Cardinality(free)
  /\ BlocksToHold(r, n) <= Cardinality(free) - reserved

LoadFits(r, ext) == Fits(r, ext, InflightReserved)

(* An asynchronous load: its blocks are taken, nothing is computed.        *)
AdmitLoad(ext) ==
  LET r == NextWaiting IN
  /\ pc = "waiting" /\ InWaitingLoop
  /\ Schedulable(r) /\ ext \in Offers(r) \ {0}
  /\ LoadFits(r, ext)
  /\ GetNewBlocks(r, BlocksToHold(r, ext))
  /\ PopWaiting
  /\ status' = [status EXCEPT ![r] = "WAITING_FOR_REMOTE_KVS"]
  /\ computed' = [computed EXCEPT ![r] = ext]
  /\ inflight_prefills' = inflight_prefills \cup {r}
  /\ xfer' = [xfer EXCEPT ![r] = Transfer("loading", ToSet(blocks'[r]))]
  /\ loop' = [loop EXCEPT !.stepSkipped = <<r>> \o @]
  /\ UNCHANGED <<tokens, preemptions, requests, running, finished_recving,
                 failed_recving, pc, config, bad, report, failed, failures>>

AdmitTokens(r, ext) == MinOf(tokens[r] - computed[r] - ext, loop.budget)

(* A request that computes now, after a load within the same step if the   *)
(* connector offers one of ext tokens.                                     *)
AdmitWaiting(ext) ==
  LET r == NextWaiting
      n == AdmitTokens(r, ext)
  IN
  /\ pc = "waiting" /\ InWaitingLoop
  /\ Schedulable(r) /\ ext \in Offers(r) /\ n > 0
  /\ Fits(r, computed[r] + ext + n, 0)
  /\ GetNewBlocks(r, BlocksToHold(r, computed[r] + ext + n))
  /\ PopWaiting
  /\ running' = Append(running, r)
  /\ status' = [status EXCEPT ![r] = "RUNNING"]
  /\ computed' = [computed EXCEPT ![r] = @ + ext]
  /\ inflight_prefills' =
       IF computed[r] + ext + n < tokens[r] THEN inflight_prefills \cup {r}
                                            ELSE inflight_prefills
  /\ loop' = [loop EXCEPT !.budget = @ - n, !.toks[r] = n,
                          !.sync = IF ext > 0 THEN @ \cup {r} ELSE @]
  /\ UNCHANGED <<tokens, preemptions, requests, finished_recving,
                 failed_recving, pc, config, xfer, bad, report, failed, failures>>

(* The loop ends, or breaks at the first request that does not fit as the  *)
(* connector offers it.                                                    *)
EndWaiting(ext, load_kv_async) ==
  LET r == NextWaiting
      n == AdmitTokens(r, ext)
  IN
  /\ pc = "waiting"
  /\ InWaitingLoop =>
       /\ Schedulable(r) /\ ext \in Offers(r)
       /\ IF load_kv_async
            THEN ext > 0 /\ ~LoadFits(r, ext)
            ELSE n > 0 /\ ~Fits(r, computed[r] + ext + n, 0)
  /\ skipped' = Reverse(loop.stepSkipped) \o skipped
  /\ loop' = [loop EXCEPT !.stepSkipped = <<>>]
  /\ pc' = "end"
  /\ UNCHANGED <<status, computed, tokens, blocks, preemptions, requests, free,
                 running, waiting, inflight_prefills, finished_recving,
                 failed_recving, config, worker>>

Batch == {r \in Requests : loop.toks[r] > 0}

(* _update_after_schedule *)
EndSchedule ==
  /\ pc = "end"
  /\ computed' = [r \in Requests |-> computed[r] + loop.toks[r]]
  /\ inflight_prefills' =
       inflight_prefills \ {r \in Batch : computed'[r] >= tokens[r]}
  /\ pc' = "execute"
  /\ UNCHANGED <<status, tokens, blocks, preemptions, requests, free, running,
                 waiting, skipped, finished_recving, failed_recving, loop,
                 config, worker>>

(***************************************************************************)
(* The worker and its connector                                            *)
(***************************************************************************)
Scheduling == pc \in {"running", "waiting", "end"}

(* Blocks of a load fail.  The connector reports them with the next pass,  *)
(* while the rest of the load goes on.                                     *)
LoadFails(r, fail) ==
  /\ ~Scheduling
  /\ xfer[r].kind = "loading"
  /\ fail # {} /\ fail \subseteq xfer[r].on \ xfer[r].fails
  /\ failures < MaxFailures
  /\ xfer' = [xfer EXCEPT ![r].fails = @ \cup fail]
  /\ bad' = bad \cup fail
  /\ failed' = failed \cup {r} /\ failures' = failures + 1
  /\ UNCHANGED <<sched, pc, loop, config, valid, report>>

(* A load ends; blocks that failed only now are reported together with its *)
(* end.  It does not matter to the worker whether the request was aborted  *)
(* meanwhile.                                                              *)
LoadEnds(r, fail) ==
  /\ ~Scheduling
  /\ xfer[r].kind = "loading"
  /\ fail \subseteq xfer[r].on \ xfer[r].fails
  /\ fail # {} => failures < MaxFailures
  /\ xfer' = [xfer EXCEPT ![r].kind = "loaded"]
  /\ bad' = bad \cup fail
  /\ valid' = valid \cup (xfer[r].on \ (xfer[r].fails \cup fail))
  /\ failed' = IF fail = {} THEN failed ELSE failed \cup {r}
  /\ failures' = IF fail = {} THEN failures ELSE failures + 1
  /\ UNCHANGED <<sched, pc, loop, config, report>>

SaveEnds(r) ==
  /\ ~Scheduling
  /\ xfer[r].kind = "sending"
  /\ xfer' = [xfer EXCEPT ![r].kind = "sent"]
  /\ UNCHANGED <<sched, pc, loop, config, bad, valid, report, failed, failures>>

(* The blocks of the first n tokens of r *)
FirstBlocks(r, n) == ToSet(SubSeq(blocks[r], 1, cdiv(n, BlockSize)))

ComputedBefore(r) == computed[r] - loop.toks[r]

(* The forward pass: synchronous loads, some of whose blocks may fail, then *)
(* new KV, which is only as good as the KV it is computed from; get_finished *)
(* reports the transfers that are over.                                    *)
Execute(fail) ==
  LET loads == UNION {FirstBlocks(r, ComputedBefore(r)) : r \in loop.sync}
      usable == valid \cup (loads \ fail)
      sound == {r \in Batch : FirstBlocks(r, ComputedBefore(r)) \subseteq usable}
      Over(kind) == {r \in Requests : xfer[r].kind = kind}
  IN
  /\ pc = "execute" /\ pc' = "output"
  /\ fail \subseteq loads /\ (fail # {} => failures < MaxFailures)
  /\ valid' = usable \cup UNION {FirstBlocks(r, computed[r]) : r \in sound}
  /\ report' = [recv |-> Over("loaded"), sent |-> Over("sent"),
                invalid |-> bad \cup fail]
  /\ xfer' = [r \in Requests |->
                IF r \in Over("loaded") \cup Over("sent") THEN NoTransfer
                                                         ELSE xfer[r]]
  /\ bad' = {}
  /\ failed' = failed \cup {r \in loop.sync : Table(r) \cap fail # {}}
  /\ failures' = IF fail = {} THEN failures ELSE failures + 1
  /\ UNCHANGED <<sched, loop, config>>

(***************************************************************************)
(* update_from_output                                                      *)
(***************************************************************************)
(* Mutant: a last, partly loaded block is not checked. *)
CheckedBlocksRoundedDown(r) ==
  MinOf(ComputedBefore(r) \div BlockSize, Len(blocks[r]))

(* Blocks that may hold externally computed tokens *)
CheckedBlocks(r) == MinOf(cdiv(ComputedBefore(r), BlockSize), Len(blocks[r]))

InvalidAt(r) == {i \in 1..CheckedBlocks(r) : blocks[r][i] \in report.invalid}

(* _handle_invalid_blocks: the loads in flight and the running requests     *)
(* with a failed block                                                     *)
Loading == {r \in ToSet(skipped) : status[r] = "WAITING_FOR_REMOTE_KVS"}
Affected == {r \in Loading \cup ToSet(running) : InvalidAt(r) # {}}

(* Requests of the batch that get a token: neither finished meanwhile nor   *)
(* affected, and all their tokens computed                                 *)
Sampled == {r \in Batch : /\ status[r] = "RUNNING" /\ r \notin Affected
                          /\ computed[r] = tokens[r]}

(* Mutant: a late receive of a finished request is only logged. *)
FreesNoLateLoad(S) == {}

(* Finished requests S whose load is over only now: nobody else will free   *)
(* their blocks.                                                           *)
FreesLateLoad(S) == S

UpdateFromOutput(save) ==
  LET errors == IF config.recompute THEN {} ELSE Affected
      stopped == {r \in Sampled : tokens[r] + 1 = PromptLen[r] + MaxTokens[r]}
      ended == stopped \cup errors
      delayed == save \cup {r \in errors : AwaitsLoad(r)}
      tracked == requests \ (ended \ delayed)
      late == {r \in report.recv \cap tracked : status'[r] = "FINISHED"}
      freed == (ended \ delayed) \cup FreesLateLoad(late)
               \cup (report.sent \cap tracked)
  IN
  /\ pc = "output" /\ pc' = "idle"
  /\ save \subseteq {r \in ended : MaySave(r)}
  /\ status' = [r \in Requests |-> IF r \in ended THEN "FINISHED" ELSE status[r]]
  /\ tokens' = [r \in Requests |-> IF r \in Sampled THEN tokens[r] + 1
                                                   ELSE tokens[r]]
  /\ computed' = [r \in Requests |->
                    IF r \in Affected THEN (Min(InvalidAt(r)) - 1) * BlockSize
                                      ELSE computed[r]]
  /\ FreeBlocks(freed)
  /\ requests' = requests \ freed
  /\ running' = Without(running, ended)
  /\ waiting' = Without(waiting, ended)
  /\ skipped' = Without(skipped, ended)
  /\ inflight_prefills' = inflight_prefills \ ended
  /\ finished_recving' =
       (finished_recving \ errors)
         \cup {r \in report.recv \cap tracked :
                 status'[r] = "WAITING_FOR_REMOTE_KVS"}
  /\ failed_recving' =
       (failed_recving \ errors)
         \cup (IF config.recompute THEN Affected \cap Loading ELSE {})
  /\ xfer' = [r \in Requests |->
                IF r \in save THEN Transfer("sending", Table(r)) ELSE xfer[r]]
  /\ loop' = NoLoop /\ report' = NoReport
  /\ UNCHANGED <<preemptions, config, bad, valid, failed, failures>>

Offered == {0} \cup UNION {ExtTokens[r] : r \in Requests}

Step ==
  \/ StartSchedule
  \/ ScheduleRunning
  \/ PreemptForRunning
  \/ EndRunning
  \/ SkipLoading
  \/ PromoteLoaded
  \/ \E ext \in Offered :
       \/ AdmitLoad(ext) \/ AdmitWaiting(ext)
       \/ \E load_kv_async \in BOOLEAN : EndWaiting(ext, load_kv_async)
  \/ EndSchedule
  \/ \E fail \in SUBSET Blocks : Execute(fail)
  \/ \E save \in SUBSET Requests : UpdateFromOutput(save)

TransferEnds(r) == SaveEnds(r) \/ \E fail \in SUBSET Blocks : LoadEnds(r, fail)

Next ==
  \/ Step
  \/ \E r \in Requests :
       \/ AddRequest(r)
       \/ \E save \in BOOLEAN : FinishRequest(r, save)
       \/ \E fail \in SUBSET Blocks : LoadFails(r, fail)
       \/ TransferEnds(r)

(* The engine loop steps while it has requests, and transfers end; they run *)
(* beside the loop, so that ending between two schedules is no restriction. *)
Fairness == WF_vars(Step) /\ \A r \in Requests : SF_vars(TransferEnds(r))

Spec == Init /\ [][Next]_vars /\ Fairness

(***************************************************************************)
(* Properties                                                              *)
(***************************************************************************)

(* A block that a transfer reads or writes is not free and in nobody       *)
(* else's table, also when its request was aborted (finish_requests,        *)
(* _update_waiting_for_remote_kv).                                         *)
TransfersKeepBlocks ==
  \A r \in Requests :
    xfer[r].kind \in {"loading", "sending"} =>
      /\ xfer[r].on \cap free = {}
      /\ \A q \in Requests \ {r} : xfer[r].on \cap Table(q) = {}

(* A finished request that still holds blocks has a transfer or a report    *)
(* outstanding that will free them; there is no other way back to the pool. *)
DelayedFreeHasReport ==
  /\ \A r \in requests : status[r] = "FINISHED" =>
       xfer[r].kind # "none" \/ r \in report.recv \cup report.sent
  /\ \A r \in Requests \ requests : blocks[r] = <<>>
  /\ \A b \in Blocks : b \in free \/ \E r \in Requests : b \in Table(r)

(* A token is taken from a pass only if all KV it was computed from was     *)
(* loaded or computed, whatever failed and whenever that was reported      *)
(* (_update_requests_with_invalid_blocks).                                 *)
SampledFromValidKV ==
  [][\A r \in Requests :
       tokens'[r] > tokens[r] => FirstBlocks(r, computed[r]) \subseteq valid]_vars

(* Loads hold blocks without making progress, but never so many that the    *)
(* requests with loads in flight wait for each other for ever.             *)
EveryLoadFinishes ==
  \A r \in Requests : (status[r] = "WAITING") ~> (status[r] = "FINISHED")
=============================================================================
