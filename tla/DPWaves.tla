------------------------------ MODULE DPWaves ------------------------------
(***************************************************************************)
(* Request waves of data-parallel engines (DPEngineCoreProc), the          *)
(* coordinator that wakes them (DPCoordinatorProc) and the front ends that *)
(* send them requests (DPAsyncMPClient).  Every forward pass is a          *)
(* collective of all engines, so an engine that steps while another one    *)
(* waits for input hangs until that one is woken too.                      *)
(***************************************************************************)
EXTENDS Integers, Sequences, FiniteSets, FiniteSetsExt, SequencesExt

CONSTANTS
  NumEngines,     \* dp_size
  Clients,        \* front ends
  SyncInterval,   \* dp_sync_interval
  MaxRequests,    \* bound on the requests sent
  MaxPauses       \* bound on pause_scheduler calls

ASSUME WavesAssumption ==
  /\ NumEngines \in Nat \ {0}
  /\ SyncInterval \in Nat \ {0}
  /\ MaxRequests \in Nat
  /\ MaxPauses \in Nat

Engines == 0..(NumEngines - 1)
Requests == 1..MaxRequests        \* numbered in the order they are sent
None == -1

VARIABLES
  cwave, crun,    \* a client's current_wave and engines_running
  first_req,      \* FIRST_REQ pings on their way to its stats task
  sent,           \* number of requests sent so far
  kwave, krun,    \* the coordinator's current_wave and engines_running
  front,          \* messages from each client to the coordinator
  back,           \* messages from each engine to the coordinator
  publish,        \* messages from the coordinator to each client
  input,          \* each engine's messages from clients
  start,          \* each engine's START_DP_WAVE messages
  ewave, erun,    \* an engine's current_wave and engines_running
  was_running,    \* engines_running at the top of the busy loop
  step_counter,
  at,             \* "input", "forward" or "resume": where the engine is
  todo, done,     \* an engine's unfinished requests; requests finished
  paused,         \* the engine's scheduler is PAUSED_ALL
  pending_pause, ignore_start_dp_wave,
  pauses, pausing \* pause calls made; a pause is asked for and not resumed

client == <<cwave, crun, first_req, sent>>
coordinator == <<kwave, krun>>
engine == <<ewave, erun, was_running, step_counter, at, todo, done, paused,
            pending_pause, ignore_start_dp_wave>>
channels == <<front, back, publish, input, start>>
admin == <<pauses, pausing>>
vars == <<client, coordinator, engine, channels, admin>>

Init ==
  /\ cwave = [c \in Clients |-> 0] /\ crun = [c \in Clients |-> FALSE]
  /\ first_req = [c \in Clients |-> <<>>] /\ sent = 0
  /\ kwave = 0 /\ krun = FALSE
  /\ front = [c \in Clients |-> <<>>] /\ publish = [c \in Clients |-> <<>>]
  /\ back = [e \in Engines |-> <<>>] /\ input = [e \in Engines |-> <<>>]
  /\ start = [e \in Engines |-> <<>>]
  /\ ewave = [e \in Engines |-> 0] /\ erun = [e \in Engines |-> FALSE]
  /\ was_running = [e \in Engines |-> FALSE]
  /\ step_counter = [e \in Engines |-> 0]
  /\ at = [e \in Engines |-> "input"]
  /\ todo = [e \in Engines |-> {}] /\ done = {}
  /\ paused = [e \in Engines |-> FALSE]
  /\ pending_pause = [e \in Engines |-> FALSE]
  /\ ignore_start_dp_wave = [e \in Engines |-> FALSE]
  /\ pauses = 0 /\ pausing = FALSE

Send(chan, to, m) == [chan EXCEPT ![to] = Append(@, m)]
Recv(chan, from) == [chan EXCEPT ![from] = Tail(@)]

(***************************************************************************)
(* A front end                                                             *)
(***************************************************************************)

(* add_request_async: the request carries the wave the client knows of, and *)
(* the coordinator is told if the client believes the engines are paused.  *)
AddRequest(c, e) ==
  /\ sent < MaxRequests
  /\ sent' = sent + 1
  /\ input' = Send(input, e,
                   [type |-> "add", req |-> sent', wave |-> cwave[c]])
  /\ first_req' = IF crun[c] THEN first_req ELSE Send(first_req, c, e)
  /\ UNCHANGED <<cwave, crun, coordinator, engine, front, back, publish,
                 start, admin>>

(* The stats task forwards a FIRST_REQ with the wave it knows by now. *)
ForwardFirstReq(c) ==
  /\ first_req[c] # <<>>
  /\ crun' = [crun EXCEPT ![c] = TRUE]
  /\ front' = Send(front, c, [engine |-> Head(first_req[c]),
                              wave |-> cwave[c]])
  /\ first_req' = Recv(first_req, c)
  /\ UNCHANGED <<cwave, sent, coordinator, engine, back, publish, input,
                 start, admin>>

ReadStats(c) ==
  /\ publish[c] # <<>>
  /\ cwave' = [cwave EXCEPT ![c] = Head(publish[c]).wave]
  /\ crun' = [crun EXCEPT ![c] = Head(publish[c]).running]
  /\ publish' = Recv(publish, c)
  /\ UNCHANGED <<first_req, sent, coordinator, engine, front, back, input,
                 start, admin>>

(* An abort follows its request to the engine that has it. *)
Abort(r, e) ==
  /\ \/ r \in todo[e]
     \/ \E i \in DOMAIN input[e] :
          input[e][i].type = "add" /\ input[e][i].req = r
  /\ ~\E i \in DOMAIN input[e] :
        input[e][i].type = "abort" /\ input[e][i].req = r
  /\ input' = Send(input, e, [type |-> "abort", req |-> r, wave |-> 0])
  /\ UNCHANGED <<client, coordinator, engine, front, back, publish, start,
                 admin>>

(* pause_scheduler(mode="keep") and resume_scheduler go to every engine;    *)
(* resume is called when every engine's pause future has resolved.         *)
PauseScheduler ==
  /\ ~pausing /\ pauses < MaxPauses
  /\ pauses' = pauses + 1 /\ pausing' = TRUE
  /\ input' = [e \in Engines |->
                 Append(input[e], [type |-> "pause", req |-> None, wave |-> 0])]
  /\ UNCHANGED <<client, coordinator, engine, front, back, publish, start>>

PauseResolved(e) ==
  /\ paused[e] /\ ~pending_pause[e] /\ ~erun[e]
  /\ \A i \in DOMAIN input[e] : input[e][i].type # "pause"

ResumeScheduler ==
  /\ pausing /\ \A e \in Engines : PauseResolved(e)
  /\ pausing' = FALSE
  /\ input' = [e \in Engines |->
                 Append(input[e],
                        [type |-> "resume", req |-> None, wave |-> 0])]
  /\ UNCHANGED <<client, coordinator, engine, front, back, publish, start,
                 pauses>>

(***************************************************************************)
(* The coordinator                                                         *)
(***************************************************************************)
Broadcast(wave, exclude) ==
  start' = [e \in Engines |->
              Append(start[e], [wave |-> wave, exclude |-> exclude])]

PublishAll(wave, running) ==
  publish' = [c \in Clients |->
                Append(publish[c], [wave |-> wave, running |-> running])]

(* A request sent while the engines are paused: wake them, except the one   *)
(* that has the request - unless the request is of an earlier wave.        *)
OnFirstReq(c) ==
  LET m == Head(front[c]) IN
  /\ front[c] # <<>>
  /\ front' = Recv(front, c)
  /\ IF krun THEN UNCHANGED start
             ELSE Broadcast(kwave, IF m.wave < kwave THEN None ELSE m.engine)
  /\ UNCHANGED <<client, coordinator, engine, back, publish, input, admin>>

OnWaveComplete(e) ==
  LET m == Head(back[e]) IN
  /\ back[e] # <<>> /\ m.type = "complete"
  /\ back' = Recv(back, e)
  /\ \/ /\ kwave <= m.wave
        /\ kwave' = m.wave + 1 /\ krun' = FALSE
        /\ PublishAll(m.wave + 1, FALSE)
     \/ /\ kwave > m.wave
        /\ UNCHANGED <<kwave, krun, publish>>
  /\ UNCHANGED <<client, engine, front, input, start, admin>>

OnStartWave(e) ==
  LET m == Head(back[e]) IN
  /\ back[e] # <<>> /\ m.type = "start"
  /\ back' = Recv(back, e)
  /\ \/ /\ m.wave > kwave \/ (m.wave = kwave /\ ~krun)
        /\ kwave' = m.wave /\ krun' = TRUE
        /\ PublishAll(m.wave, TRUE)
        /\ Broadcast(m.wave, e)
     \/ /\ ~(m.wave > kwave \/ (m.wave = kwave /\ ~krun))
        /\ UNCHANGED <<kwave, krun, publish, start>>
  /\ UNCHANGED <<client, engine, front, input, admin>>

(* The periodic update; one that repeats what the client is about to read   *)
(* or already knows changes nothing.                                       *)
Known(c) ==
  IF publish[c] = <<>> THEN [wave |-> cwave[c], running |-> crun[c]]
                       ELSE Last(publish[c])

PeriodicPublish(c) ==
  /\ Known(c) # [wave |-> kwave, running |-> krun]
  /\ publish' = Send(publish, c, [wave |-> kwave, running |-> krun])
  /\ UNCHANGED <<client, coordinator, engine, front, back, input, start,
                 admin>>

(***************************************************************************)
(* An engine                                                               *)
(***************************************************************************)
Unfinished(e) == IF paused[e] THEN {} ELSE todo[e]

HasWork(e) == erun[e] \/ Unfinished(e) # {}

TakeInput(e, type) ==
  /\ at[e] = "input" /\ input[e] # <<>> /\ Head(input[e]).type = type
  /\ input' = Recv(input, e)

(* add_request: a request of a later wave moves the engine to that wave; a  *)
(* request of a wave that is over starts the next one everywhere.          *)
HandleAdd(e) ==
  LET m == Head(input[e]) IN
  /\ TakeInput(e, "add")
  /\ todo' = [todo EXCEPT ![e] = @ \cup {m.req}]
  /\ \/ /\ m.wave >= ewave[e]
        /\ ewave' = [ewave EXCEPT ![e] = m.wave]
        /\ UNCHANGED <<erun, back>>
     \/ /\ m.wave < ewave[e] /\ ~erun[e] /\ ~paused[e]
        /\ erun' = [erun EXCEPT ![e] = TRUE]
        /\ back' = Send(back, e, [type |-> "start", wave |-> ewave[e]])
        /\ UNCHANGED ewave
     \/ /\ m.wave < ewave[e] /\ (erun[e] \/ paused[e])
        /\ UNCHANGED <<ewave, erun, back>>
  /\ UNCHANGED <<client, coordinator, was_running, step_counter, at, done,
                 paused, pending_pause, ignore_start_dp_wave, front, publish,
                 start, admin>>

HandleAbort(e) ==
  LET r == Head(input[e]).req IN
  /\ TakeInput(e, "abort")
  /\ todo' = [todo EXCEPT ![e] = @ \ {r}]
  /\ done' = done \cup {r}
  /\ UNCHANGED <<client, coordinator, ewave, erun, was_running, step_counter,
                 at, paused, pending_pause, ignore_start_dp_wave, front, back,
                 publish, start, admin>>

(* pause_scheduler and _pause_complete: keep stepping, or start to, until   *)
(* all ranks have seen the pause.                                          *)
HandlePause(e) ==
  /\ TakeInput(e, "pause")
  /\ paused' = [paused EXCEPT ![e] = TRUE]
  /\ pending_pause' = [pending_pause EXCEPT ![e] = TRUE]
  /\ erun' = [erun EXCEPT ![e] = TRUE]
  /\ UNCHANGED <<client, coordinator, ewave, was_running, step_counter, at,
                 todo, done, ignore_start_dp_wave, front, back, publish,
                 start, admin>>

(* resume_scheduler raises or returns while the engine runs; else it waits  *)
(* for all ranks in the all-reduce.                                        *)
HandleResume(e) ==
  LET stopped == ~pending_pause[e] /\ ~erun[e] IN
  /\ TakeInput(e, "resume")
  /\ paused' = [paused EXCEPT ![e] = @ /\ ~stopped]
  /\ ignore_start_dp_wave' = [ignore_start_dp_wave EXCEPT ![e] = @ /\ ~stopped]
  /\ at' = [at EXCEPT ![e] = IF stopped THEN "resume" ELSE @]
  /\ UNCHANGED <<client, coordinator, ewave, erun, was_running, step_counter,
                 todo, done, pending_pause, front, back, publish, start,
                 admin>>

(* Mutant: every rank looks at its own requests only. *)
RunsAfterResumeAlone(e) == Unfinished(e) # {}

RunsAfterResume(e) == \E f \in Engines : Unfinished(f) # {}

(* The all-reduce at the end of resume_scheduler: nobody steps before all   *)
(* have resumed, and then all step if any has work.                        *)
ResumeBarrier ==
  /\ \A e \in Engines : at[e] = "resume"
  /\ at' = [e \in Engines |-> "input"]
  /\ erun' = [e \in Engines |-> RunsAfterResume(e)]
  /\ UNCHANGED <<client, coordinator, ewave, was_running, step_counter, todo,
                 done, paused, pending_pause, ignore_start_dp_wave, channels,
                 admin>>

HandleStart(e) ==
  LET m == Head(start[e])
      heeded == ~ignore_start_dp_wave[e] /\ m.exclude # e
                /\ m.wave >= ewave[e]
  IN
  /\ at[e] = "input" /\ start[e] # <<>>
  /\ start' = Recv(start, e)
  /\ ewave' = IF heeded THEN [ewave EXCEPT ![e] = m.wave] ELSE ewave
  /\ erun' = IF heeded THEN [erun EXCEPT ![e] = TRUE] ELSE erun
  /\ UNCHANGED <<client, coordinator, was_running, step_counter, at, todo,
                 done, paused, pending_pause, ignore_start_dp_wave, front,
                 back, publish, input, admin>>

(* The input queue is drained and there is work: step, with a dummy batch   *)
(* if need be.  Messages still on their way are handled after the step.    *)
BeginStep(e) ==
  /\ at[e] = "input" /\ HasWork(e)
  /\ at' = [at EXCEPT ![e] = "forward"]
  /\ UNCHANGED <<client, coordinator, ewave, erun, was_running, step_counter,
                 todo, done, paused, pending_pause, ignore_start_dp_wave,
                 channels, admin>>

(* _has_global_unfinished_reqs of rank e, given the sums of the all-reduce *)
SyncStep(e) ==
  LET n == step_counter[e] + 1 IN n = 1 \/ n % SyncInterval = 0

(* step_counter + 1, kept small: what SyncStep says of a count beyond one    *)
(* interval it also says of the count one interval earlier.                *)
NextStep(n) == IF n > SyncInterval THEN n + 1 - SyncInterval ELSE n + 1

(* Mutant: only the rank that reports the end of a wave starts over. *)
StepCounterResetByRank0(e, running) ==
  IF ~running /\ e = 0 THEN 0 ELSE NextStep(step_counter[e])

StepCounter(e, running) ==
  IF running THEN NextStep(step_counter[e]) ELSE 0

(* Mutant: a pause seen by some ranks does not keep the others stepping. *)
GlobalUnfinishedWithoutPause(left, pause_count) == left

(* The first of the two values sync_dp_state returns: there is work, or     *)
(* some rank but not every one has seen the pause.                         *)
GlobalUnfinished(left, pause_count) ==
  left \/ pause_count % NumEngines # 0

(* Mutant: START_DP_WAVE is still heeded after the pause. *)
IgnoreStartNever(e, consensus) == ignore_start_dp_wave[e]

IgnoreStart(e, consensus) == ignore_start_dp_wave[e] \/ e \in consensus

(* One forward pass of all engines, in which the requests of fin finish,    *)
(* the all-reduce, and what each rank does at the end of its loop.         *)
Forward(fin) ==
  LET left == \E e \in Engines : Unfinished(e) \ fin # {}
      pause_count == Cardinality({e \in Engines : pending_pause[e]})
      running == [e \in Engines |->
                    SyncStep(e) => GlobalUnfinished(left, pause_count)]
      consensus == {e \in Engines : SyncStep(e) /\ pause_count = NumEngines}
      notice == IF ~running[0]
                THEN <<[type |-> "complete", wave |-> ewave[0]]>>
                ELSE IF ~was_running[0] /\ (~pending_pause[0] \/ 0 \in consensus)
                THEN <<[type |-> "start", wave |-> ewave[0]]>>
                ELSE <<>>
  IN
  /\ \A e \in Engines : at[e] = "forward"
  /\ fin \subseteq UNION {Unfinished(e) : e \in Engines}
  /\ todo' = [e \in Engines |-> todo[e] \ fin]
  /\ done' = done \cup fin
  /\ pending_pause' = [e \in Engines |-> pending_pause[e] /\ e \notin consensus]
  /\ ignore_start_dp_wave' =
       [e \in Engines |-> IgnoreStart(e, consensus)]
  /\ erun' = running /\ was_running' = running
  /\ ewave' = [e \in Engines |-> IF running[e] THEN ewave[e] ELSE ewave[e] + 1]
  /\ step_counter' =
       [e \in Engines |-> StepCounter(e, running[e])]
  /\ back' = [back EXCEPT ![0] = @ \o notice]
  /\ at' = [e \in Engines |-> "input"]
  /\ UNCHANGED <<client, coordinator, paused, front, publish, input, start,
                 admin>>

EngineInput(e) ==
  \/ HandleAdd(e)
  \/ HandleAbort(e)
  \/ HandlePause(e)
  \/ HandleResume(e)
  \/ HandleStart(e)

Coordinator ==
  \/ \E c \in Clients : OnFirstReq(c) \/ PeriodicPublish(c)
  \/ \E e \in Engines : OnWaveComplete(e) \/ OnStartWave(e)

StatsTask(c) == ForwardFirstReq(c) \/ ReadStats(c)

Next ==
  \/ \E c \in Clients, e \in Engines : AddRequest(c, e)
  \/ \E r \in Requests, e \in Engines : Abort(r, e)
  \/ PauseScheduler
  \/ ResumeScheduler
  \/ \E c \in Clients : StatsTask(c)
  \/ Coordinator
  \/ \E e \in Engines : EngineInput(e) \/ BeginStep(e)
  \/ \E fin \in SUBSET Requests : Forward(fin)
  \/ ResumeBarrier

(* Messages arrive, loops run, and a request that is stepped finishes;      *)
(* nobody has to send, abort, pause or resume.                             *)
Fairness ==
  /\ \A c \in Clients : WF_vars(StatsTask(c))
  /\ WF_vars(Coordinator)
  /\ \A e \in Engines : SF_vars(EngineInput(e)) /\ WF_vars(BeginStep(e))
  /\ WF_vars(ResumeBarrier)
  /\ WF_vars(\E fin \in SUBSET Requests : Forward(fin))
  /\ SF_vars(\E fin \in SUBSET Requests : fin # {} /\ Forward(fin))

Spec == Init /\ [][Next]_vars /\ Fairness

(***************************************************************************)
(* Properties                                                              *)
(***************************************************************************)

(* step_counter is identical across the ranks of a forward pass, so they    *)
(* agree on when to enter the all-reduce (_should_throttle_prefills,        *)
(* _has_global_unfinished_reqs).                                           *)
LockStep ==
  \A e, f \in Engines :
    (at[e] = "forward" /\ at[f] = "forward")
      => step_counter[e] = step_counter[f]

(* No rank waits in the all-reduce of resume_scheduler while another waits  *)
(* in a forward pass: the barrier is safe because the engines are stopped.  *)
NoMixedCollectives ==
  ~\E e, f \in Engines : at[e] = "forward" /\ at[f] = "resume"

(* The two-phase pause ends: once a pause is asked for, every rank stops    *)
(* stepping, wherever the messages find it (_pause_complete).              *)
PauseCompletes ==
  pausing ~> (\A e \in Engines : PauseResolved(e))

(* Requests that waited out a pause are served after it, also by ranks      *)
(* whose peers have nothing to do (resume_scheduler), unless a new pause    *)
(* comes.                                                                  *)
ServedAfterResume ==
  \A r \in Requests :
    (\E e \in Engines : r \in todo[e] /\ at[e] = "resume")
      ~> (r \in done \/ pausing)
=============================================================================
