------------------------- MODULE MultiprocExecutor -------------------------
(***************************************************************************)
(* collective_rpc of MultiprocExecutor: one engine thread broadcasts calls *)
(* to worker processes, each worker answers on its own response queue, and *)
(* futures are resolved in call order by reading those queues in slices.   *)
(* Workers may raise, get stuck in a collective a failed peer never joins, *)
(* or die; a monitor thread notices deaths.                                *)
(*                                                                         *)
(* A worker reads calls without a timeout, so its side of the broadcast is *)
(* the FIFO queue that ShmBroadcast implements.  The engine reads answers  *)
(* with a timeout: a response queue is kept as what it is, a ring of       *)
(* chunks and a socket for the payloads that do not fit one.               *)
(***************************************************************************)
EXTENDS Integers, Sequences

CONSTANTS
  Workers,      \* ranks
  OutputRank,   \* output_rank
  Kinds,        \* kinds of call: who replies, deadline, model step or not
  MaxCalls,     \* bound on the number of calls
  MaxFaults     \* bound on raised exceptions and crashes

ASSUME ExecutorAssumption ==
  /\ OutputRank \in Workers
  /\ Kinds \subseteq [all : BOOLEAN, timed : BOOLEAN, model : BOOLEAN]
  /\ MaxCalls \in Nat /\ MaxFaults \in Nat

Calls == 1..MaxCalls
NoCall == 0

VARIABLES
  kind,            \* kinds of the calls made so far
  requests,        \* rpc_broadcast_mq as each worker has still to read it
  responses,       \* chunks in the ring of each worker's response_mq
  payloads,        \* payloads too large for a chunk, oldest first
  sending,         \* the worker has still to send the last of them
  futures_queue,   \* calls whose responses have not been asked for yet
  outcome,         \* state of each call's future
  got,             \* got[k][w]: the call whose response k took from w
  collecting,      \* the call whose get_response is running
  pending,         \* ranks that get_response still waits for
  target,          \* the call whose result() the engine is in
  fetched,         \* calls whose result() has returned
  wstate,          \* worker processes
  raised,          \* raised[k]: ranks that failed in call k
  lost,            \* lost[k]: ranks of which k released a chunk for nothing
  faults, is_failed, shutting_down, engine_dead

engine == <<kind, futures_queue, outcome, got, collecting, pending,
            target, fetched, lost, engine_dead>>
replies == <<responses, payloads, sending>>
workers == <<wstate, raised, faults>>
monitor == <<is_failed, shutting_down>>
vars == <<engine, requests, replies, workers, monitor>>

(* What a response tells: which call it answers, and whether it succeeded.  *)
(* Of a large response the chunk itself holds the overflow byte only.       *)
Response == [call : Calls, ok : BOOLEAN]
Chunk == [call : Calls, ok : BOOLEAN, large : BOOLEAN]

TypeOK ==
  /\ kind \in Seq(Kinds) /\ Len(kind) <= MaxCalls
  /\ requests \in [Workers -> Seq(Calls)]
  /\ responses \in [Workers -> Seq(Chunk)]
  /\ payloads \in [Workers -> Seq(Response)]
  /\ sending \in [Workers -> BOOLEAN]
  /\ futures_queue \in Seq(Calls)
  /\ outcome \in [Calls -> {"none", "ok", "error"}]
  /\ got \in [Calls -> [Workers -> Calls \cup {NoCall}]]
  /\ collecting \in Calls \cup {NoCall} /\ target \in Calls \cup {NoCall}
  /\ pending \subseteq Workers /\ fetched \subseteq Calls
  /\ wstate \in [Workers -> {"up", "stuck", "exiting", "dead"}]
  /\ raised \in [Calls -> SUBSET Workers]
  /\ lost \in [Calls -> SUBSET Workers] /\ faults \in 0..MaxFaults
  /\ {is_failed, shutting_down, engine_dead} \subseteq BOOLEAN

Init ==
  /\ kind = <<>>
  /\ requests = [w \in Workers |-> <<>>]
  /\ responses = [w \in Workers |-> <<>>]
  /\ payloads = [w \in Workers |-> <<>>]
  /\ sending = [w \in Workers |-> FALSE]
  /\ futures_queue = <<>>
  /\ outcome = [k \in Calls |-> "none"]
  /\ got = [k \in Calls |-> [w \in Workers |-> NoCall]]
  /\ collecting = NoCall /\ target = NoCall
  /\ pending = {} /\ fetched = {}
  /\ wstate = [w \in Workers |-> "up"]
  /\ raised = [k \in Calls |-> {}] /\ lost = [k \in Calls |-> {}]
  /\ faults = 0
  /\ is_failed = FALSE /\ shutting_down = FALSE /\ engine_dead = FALSE

(***************************************************************************)
(* The engine thread                                                       *)
(***************************************************************************)

(* collective_rpc broadcasts the call and queues a future for it: a model   *)
(* step returns the future (non_block), a utility call waits for it.  Once  *)
(* the executor has failed it raises and changes nothing.                  *)
CollectiveRpc(q) ==
  LET k == Len(kind) + 1 IN
  /\ target = NoCall /\ ~engine_dead /\ ~is_failed
  /\ k \in Calls
  /\ kind' = Append(kind, q)
  /\ requests' = [w \in Workers |-> Append(requests[w], k)]
  /\ futures_queue' = Append(futures_queue, k)
  /\ target' = IF q.model THEN NoCall ELSE k
  /\ UNCHANGED <<replies, outcome, got, collecting, pending, fetched, lost,
                 engine_dead, workers, monitor>>

(* FutureWrapper.result: drain the futures ahead, oldest first. *)
Result(k) ==
  /\ target = NoCall /\ ~engine_dead
  /\ k \in DOMAIN kind \ fetched
  /\ target' = k
  /\ UNCHANGED <<kind, futures_queue, outcome, got, collecting, pending,
                 fetched, lost, engine_dead, requests, replies, workers,
                 monitor>>

ReplyRanks(k) == IF kind[k].all THEN Workers ELSE {OutputRank}

(* Mutant: the newest future is drained first. *)
PopNewestFuture ==
  LET n == Len(futures_queue) IN
  /\ target # NoCall /\ outcome[target] = "none" /\ collecting = NoCall
  /\ collecting' = futures_queue[n]
  /\ pending' = ReplyRanks(futures_queue[n])
  /\ futures_queue' = SubSeq(futures_queue, 1, n - 1)
  /\ UNCHANGED <<kind, outcome, got, target, fetched, lost, engine_dead,
                 requests, replies, workers, monitor>>

PopFuture ==
  /\ target # NoCall /\ outcome[target] = "none" /\ collecting = NoCall
  /\ collecting' = Head(futures_queue)
  /\ pending' = ReplyRanks(Head(futures_queue))
  /\ futures_queue' = Tail(futures_queue)
  /\ UNCHANGED <<kind, outcome, got, target, fetched, lost, engine_dead,
                 requests, replies, workers, monitor>>

(* get_response ends: the future has its result or its exception. *)
Settle(o) ==
  /\ outcome' = [outcome EXCEPT ![collecting] = o]
  /\ collecting' = NoCall /\ pending' = {}

(* The payload for the next large chunk has reached the engine's socket. *)
Arrived(w) == Len(payloads[w]) > IF sending[w] THEN 1 ELSE 0

(* One slice of the scan finds a response of rank w: in the chunk, or, when *)
(* the chunk says so, as the next payload of the socket.                   *)
Collect(w) ==
  LET chunk == Head(responses[w])
      answer == IF chunk.large THEN Head(payloads[w]) ELSE chunk
  IN
  /\ collecting # NoCall /\ w \in pending /\ responses[w] # <<>>
  /\ chunk.large => Arrived(w)
  /\ responses' = [responses EXCEPT ![w] = Tail(@)]
  /\ payloads' = IF chunk.large THEN [payloads EXCEPT ![w] = Tail(@)]
                 ELSE payloads
  /\ \/ /\ ~answer.ok
        /\ Settle("error")
        /\ UNCHANGED got
     \/ /\ answer.ok
        /\ got' = [got EXCEPT ![collecting][w] = answer.call]
        /\ \/ /\ pending = {w}
              /\ Settle("ok")
           \/ /\ pending # {w}
              /\ pending' = pending \ {w}
              /\ UNCHANGED <<outcome, collecting>>
  /\ UNCHANGED <<kind, futures_queue, target, fetched, lost, engine_dead,
                 requests, sending, workers, monitor>>

(* The slice ends while dequeue polls for the payload: the chunk has been   *)
(* released, TimeoutError is caught and the scan goes on.                  *)
SliceTimesOut(w) ==
  /\ collecting # NoCall /\ w \in pending /\ responses[w] # <<>>
  /\ Head(responses[w]).large /\ ~Arrived(w)
  /\ responses' = [responses EXCEPT ![w] = Tail(@)]
  /\ lost' = [lost EXCEPT ![collecting] = @ \cup {w}]
  /\ UNCHANGED <<kind, futures_queue, outcome, got, collecting, pending,
                 target, fetched, engine_dead, requests, payloads, sending,
                 workers, monitor>>

(* The call's deadline passes. *)
Deadline ==
  /\ collecting # NoCall /\ kind[collecting].timed
  /\ Settle("error")
  /\ UNCHANGED <<kind, futures_queue, got, target, fetched, lost,
                 engine_dead, requests, replies, workers, monitor>>

(* Mutant: the wait is not cut short by a failed executor. *)
NeverAbort == FALSE /\ UNCHANGED vars

(* Between slices: a worker has died, or the queues were shut down. *)
AbortFailed ==
  /\ collecting # NoCall /\ is_failed
  /\ Settle("error")
  /\ UNCHANGED <<kind, futures_queue, got, target, fetched, lost,
                 engine_dead, requests, replies, workers, monitor>>

(* result() returns or raises.  A failed model step ends the engine; a      *)
(* failed utility call is reported to its client and the engine goes on.   *)
Return ==
  /\ target # NoCall /\ outcome[target] # "none"
  /\ target' = NoCall /\ fetched' = fetched \cup {target}
  /\ engine_dead' = (outcome[target] = "error" /\ kind[target].model)
  /\ UNCHANGED <<kind, futures_queue, outcome, got, collecting, pending,
                 lost, requests, replies, workers, monitor>>

(***************************************************************************)
(* A worker                                                                *)
(***************************************************************************)
Replies(w, k) == w \in ReplyRanks(k)

(* enqueue_output: the chunk is marked before a large payload is sent. *)
Answer(w, ok, large) ==
  LET k == Head(requests[w]) IN
  /\ wstate[w] = "up" /\ requests[w] # <<>> /\ ~sending[w]
  /\ requests' = [requests EXCEPT ![w] = Tail(@)]
  /\ \/ /\ Replies(w, k)
        /\ responses' = [responses EXCEPT ![w] =
             Append(@, [call |-> k, ok |-> ok, large |-> large])]
        /\ payloads' = IF large
             THEN [payloads EXCEPT ![w] =
                     Append(@, [call |-> k, ok |-> ok])]
             ELSE payloads
        /\ sending' = [sending EXCEPT ![w] = large]
     \/ /\ ~Replies(w, k)
        /\ UNCHANGED replies

Execute(w, large) ==
  /\ Answer(w, TRUE, large)
  /\ UNCHANGED <<engine, workers, monitor>>

SendPayload(w) ==
  /\ wstate[w] # "dead" /\ sending[w]
  /\ sending' = [sending EXCEPT ![w] = FALSE]
  /\ UNCHANGED <<engine, requests, responses, payloads, workers, monitor>>

(* The method raises, which a short response tells; a device-level failure *)
(* also ends the process.                                                  *)
Raise(w, device) ==
  LET k == Head(requests[w]) IN
  /\ faults < MaxFaults
  /\ Answer(w, FALSE, FALSE)
  /\ raised' = [raised EXCEPT ![k] = @ \cup {w}]
  /\ faults' = faults + 1
  /\ wstate' = IF device THEN [wstate EXCEPT ![w] = "exiting"] ELSE wstate
  /\ UNCHANGED <<engine, monitor>>

(* The call waits in a collective that some rank will never join. *)
GetStuck(w) ==
  LET k == Head(requests[w]) IN
  /\ wstate[w] = "up" /\ requests[w] # <<>>
  /\ \E v \in Workers \ {w} : v \in raised[k] \/ wstate[v] = "dead"
  /\ wstate' = [wstate EXCEPT ![w] = "stuck"]
  /\ UNCHANGED <<engine, requests, replies, raised, faults, monitor>>

(* os._exit after the failure response, or an unexpected death *)
Exit(w) ==
  /\ wstate[w] = "exiting"
  /\ wstate' = [wstate EXCEPT ![w] = "dead"]
  /\ UNCHANGED <<engine, requests, replies, raised, faults, monitor>>

Crash(w) ==
  /\ wstate[w] \in {"up", "stuck"} /\ faults < MaxFaults
  /\ wstate' = [wstate EXCEPT ![w] = "dead"]
  /\ faults' = faults + 1
  /\ UNCHANGED <<engine, requests, replies, raised, monitor>>

(***************************************************************************)
(* The monitor thread                                                      *)
(***************************************************************************)
NoticeDeath ==
  /\ ~is_failed /\ ~shutting_down
  /\ \E w \in Workers : wstate[w] = "dead"
  /\ is_failed' = TRUE
  /\ UNCHANGED <<engine, requests, replies, workers, shutting_down>>

(* shutdown: the other workers are told to exit, then terminated. *)
ShutdownWorkers ==
  /\ is_failed /\ ~shutting_down
  /\ shutting_down' = TRUE
  /\ wstate' = [w \in Workers |-> "dead"]
  /\ UNCHANGED <<engine, requests, replies, raised, faults, is_failed>>

EngineStep ==
  \/ PopFuture
  \/ \E w \in Workers : Collect(w)
  \/ AbortFailed
  \/ Return

Next ==
  \/ \E q \in Kinds : CollectiveRpc(q)
  \/ \E k \in Calls : Result(k)
  \/ EngineStep
  \/ Deadline
  \/ \E w \in Workers :
       \/ SliceTimesOut(w)
       \/ \E large \in BOOLEAN : Execute(w, large)
       \/ SendPayload(w)
       \/ \E device \in BOOLEAN : Raise(w, device)
       \/ GetStuck(w)
       \/ Exit(w)
       \/ Crash(w)
  \/ NoticeDeath
  \/ ShutdownWorkers

(* The threads run; nobody has to call, fail or die, and no deadline has to *)
(* be near.                                                                *)
Fairness ==
  /\ WF_vars(EngineStep)
  /\ \A w \in Workers :
       /\ WF_vars(\E large \in BOOLEAN : Execute(w, large))
       /\ WF_vars(SendPayload(w)) /\ WF_vars(Exit(w))
  /\ WF_vars(NoticeDeath) /\ WF_vars(ShutdownWorkers)

Spec == Init /\ [][Next]_vars /\ Fairness

(***************************************************************************)
(* Properties                                                              *)
(***************************************************************************)

(* Of a call that succeeds, rank w's result is w's response to this very   *)
(* call.                                                                   *)
OwnResponse(k, w) ==
  outcome[k] = "ok" /\ w \in ReplyRanks(k) => got[k][w] = k

(* A call that succeeds returns, for every rank it asked, that rank's      *)
(* response to this very call ("A list containing the results from each    *)
(* worker", Executor.collective_rpc).                                      *)
ResponsesMatchCall == \A k \in Calls, w \in Workers : OwnResponse(k, w)

(* Up to call k, no slice ended between rank w's chunk and its payload. *)
NothingLost(k, w) == \A j \in 1..k : w \notin lost[j]

(* As long as no earlier call failed, pipelined calls never mix up the     *)
(* responses of a rank, in whatever order their results are asked for and  *)
(* although other ranks' responses come late or are lost: responses carry  *)
(* no call id, in the ring or on the socket (FutureWrapper.result,         *)
(* get_response, MessageQueue.dequeue).                                    *)
ResponsesMatchUntilFailure ==
  \A k \in Calls, w \in Workers :
    (NothingLost(k, w) /\ \A j \in 1..(k - 1) : outcome[j] # "error")
      => OwnResponse(k, w)

(* Call k or an earlier one released a chunk for nothing, or a rank that   *)
(* does not reply raised in it and told nobody.                            *)
Unheard(k) ==
  \E j \in 1..k : lost[j] # {} \/ \E w \in raised[j] : ~Replies(w, j)

(* get_response does not wait for ever, deadline or not.  Once a process   *)
(* has died it ends whoever replies.  And when the earlier calls           *)
(* succeeded it ends although ranks raise, die or hang in a collective,    *)
(* unless the trouble went unheard.                                        *)
WaitEnds ==
  \A k \in Calls :
    /\ (collecting = k /\ \E w \in Workers : wstate[w] = "dead")
         ~> (outcome[k] # "none")
    /\ (collecting = k /\ \A j \in 1..(k - 1) : outcome[j] = "ok")
         ~> (outcome[k] # "none" \/ Unheard(k))
=============================================================================
