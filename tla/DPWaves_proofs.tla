---------------------------- MODULE DPWaves_proofs ----------------------------
(***************************************************************************)
(* Data-parallel engines enter the same collective, for any number of      *)
(* engines, front ends, requests and pauses: the ranks of a forward pass   *)
(* count the same steps, and none waits in the barrier of resume_scheduler *)
(* while another waits in a forward pass.                                  *)
(***************************************************************************)
EXTENDS DPWaves, SequenceTheorems, TLAPS

Notice == [type : {"complete", "start"}, wave : Nat]
Stats == [wave : Nat, running : BOOLEAN]
FirstReq == [engine : Engines, wave : Nat]
StartWave == [wave : Nat, exclude : Engines \cup {None}]
InputMessage ==
  [type : {"add", "abort"}, req : Requests, wave : Nat]
    \cup [type : {"pause", "resume"}, req : {None}, wave : {0}]

TypeOK ==
  /\ cwave \in [Clients -> Nat] /\ crun \in [Clients -> BOOLEAN]
  /\ first_req \in [Clients -> Seq(Engines)] /\ sent \in 0..MaxRequests
  /\ kwave \in Nat /\ krun \in BOOLEAN
  /\ front \in [Clients -> Seq(FirstReq)]
  /\ back \in [Engines -> Seq(Notice)]
  /\ publish \in [Clients -> Seq(Stats)]
  /\ input \in [Engines -> Seq(InputMessage)]
  /\ start \in [Engines -> Seq(StartWave)]
  /\ ewave \in [Engines -> Nat] /\ erun \in [Engines -> BOOLEAN]
  /\ was_running \in [Engines -> BOOLEAN]
  /\ step_counter \in [Engines -> 0..(SyncInterval + 1)]
  /\ at \in [Engines -> {"input", "forward", "resume"}]
  /\ todo \in [Engines -> SUBSET Requests] /\ done \subseteq Requests
  /\ paused \in [Engines -> BOOLEAN] /\ pending_pause \in [Engines -> BOOLEAN]
  /\ ignore_start_dp_wave \in [Engines -> BOOLEAN]
  /\ pauses \in 0..MaxPauses /\ pausing \in BOOLEAN

(* All ranks count the same steps, whatever they are doing. *)
SameSteps == \A e, f \in Engines : step_counter[e] = step_counter[f]

(* What waits in an input queue q: at most one resume, ahead of any pause *)
Waits(q, type) == \E i \in DOMAIN q : q[i].type = type
OneResume(q) ==
  \A i, j \in DOMAIN q :
    q[i].type = "resume" =>
      /\ q[j].type = "resume" => i = j
      /\ q[j].type = "pause" => i < j

(* A rank that has still to resume is stopped, and nothing wakes it. *)
Stopped(e) ==
  /\ at[e] = "input" /\ paused[e] /\ ignore_start_dp_wave[e]
  /\ ~pending_pause[e] /\ ~erun[e]

(* A pause asked for after a resume waits behind it.  A rank steps only    *)
(* with work, has left the pause when it waits for the others to, and      *)
(* ignores START_DP_WAVE once its pause has completed.                     *)
RankInv(e) ==
  /\ OneResume(input[e])
  /\ pausing /\ Waits(input[e], "resume") => Waits(input[e], "pause")
  /\ at[e] = "forward" => HasWork(e)
  /\ at[e] = "resume" => ~paused[e] /\ ~Waits(input[e], "resume")
  /\ paused[e] /\ ~pending_pause[e] => ignore_start_dp_wave[e]
  /\ Waits(input[e], "resume") => Stopped(e)

(* The ranks resume together: while one has yet to, or waits for the        *)
(* others, each of them has yet to or waits.                               *)
Resuming(e) == Waits(input[e], "resume") \/ at[e] = "resume"
ResumeTogether ==
  (\E f \in Engines : Resuming(f)) => \A e \in Engines : Resuming(e)

PauseInv == (\A e \in Engines : RankInv(e)) /\ ResumeTogether
WavesInv == TypeOK /\ SameSteps /\ PauseInv

(* The constants' sets are what their names say. *)
LEMMA Ranks ==
  /\ NumEngines \in Nat /\ SyncInterval \in Nat /\ SyncInterval >= 1
  /\ MaxRequests \in Nat /\ MaxPauses \in Nat
  /\ 0 \in Engines /\ Engines \subseteq Nat /\ Requests \subseteq Nat
  BY WavesAssumption DEF Engines, Requests

(* Sending on a channel appends to it and leaves the others alone. *)
LEMMA SendChannel ==
  ASSUME NEW S, NEW M, NEW chan \in [S -> Seq(M)], NEW to \in S, NEW m \in M
  PROVE  /\ Send(chan, to, m) \in [S -> Seq(M)]
         /\ Send(chan, to, m)[to] = Append(chan[to], m)
         /\ \A s \in S \ {to} : Send(chan, to, m)[s] = chan[s]
  <1>1. Append(chan[to], m) \in Seq(M)
    BY AppendProperties
  <1>. QED  BY <1>1 DEF Send

(* Receiving takes the oldest message. *)
LEMMA RecvChannel ==
  ASSUME NEW S, NEW M, NEW chan \in [S -> Seq(M)], NEW from \in S,
         chan[from] # <<>>
  PROVE  /\ Recv(chan, from) \in [S -> Seq(M)]
         /\ Head(chan[from]) \in M
         /\ Recv(chan, from)[from] = Tail(chan[from])
         /\ \A s \in S \ {from} : Recv(chan, from)[s] = chan[s]
  <1>1. Tail(chan[from]) \in Seq(M) /\ Head(chan[from]) \in M
    BY HeadTailProperties
  <1>. QED  BY <1>1 DEF Recv

(* Initially every channel is empty and every rank waits for input. *)
LEMMA WavesInit ==
  ASSUME Init
  PROVE  WavesInv
  <1>1. TypeOK
    <2>1. input \in [Engines -> Seq(InputMessage)]
      BY EmptySeq DEF Init
    <2>2. start \in [Engines -> Seq(StartWave)]
      BY EmptySeq DEF Init
    <2>3. back \in [Engines -> Seq(Notice)]
      BY EmptySeq DEF Init
    <2>4. /\ front \in [Clients -> Seq(FirstReq)]
          /\ publish \in [Clients -> Seq(Stats)]
          /\ first_req \in [Clients -> Seq(Engines)]
      BY EmptySeq DEF Init
    <2>. QED  BY <2>1, <2>2, <2>3, <2>4, Ranks DEF Init, TypeOK
  <1>2. SameSteps
    BY DEF Init, SameSteps
  <1>3. ASSUME NEW e \in Engines
        PROVE  RankInv(e) /\ ~Resuming(e)
    <2>1. DOMAIN input[e] = {} /\ at[e] = "input" /\ ~paused[e]
      BY DEF Init
    <2>. QED  BY <2>1 DEF RankInv, Resuming, OneResume, Waits
  <1>5. PauseInv
    BY <1>3 DEF PauseInv, ResumeTogether
  <1>. QED  BY <1>1, <1>2, <1>5 DEF WavesInv

(* The front ends' steps keep the types. *)
LEMMA ClientTypes ==
  ASSUME TypeOK,
         \/ \E c \in Clients, e \in Engines : AddRequest(c, e)
         \/ \E r \in Requests, e \in Engines : Abort(r, e)
         \/ PauseScheduler
         \/ ResumeScheduler
         \/ \E c \in Clients : StatsTask(c)
  PROVE  TypeOK'
  <1>1. ASSUME NEW c \in Clients, NEW e \in Engines, AddRequest(c, e)
        PROVE  TypeOK'
    <2>1. sent' \in 0..MaxRequests /\ sent' \in Requests
      <3>1. sent \in 0..MaxRequests /\ sent < MaxRequests /\ sent' = sent + 1
        BY <1>1 DEF AddRequest, TypeOK
      <3>. QED  BY <3>1, Ranks DEF Requests
    <2>2. [type |-> "add", req |-> sent', wave |-> cwave[c]] \in InputMessage
      BY <2>1 DEF TypeOK, InputMessage
    <2>3. input' \in [Engines -> Seq(InputMessage)]
      <3>1. input \in [Engines -> Seq(InputMessage)]
        BY DEF TypeOK
      <3>2. input' = Send(input, e, [type |-> "add", req |-> sent', wave |-> cwave[c]])
        BY <1>1 DEF AddRequest
      <3>. QED  BY <2>2, <3>1, <3>2, SendChannel
    <2>4. first_req' \in [Clients -> Seq(Engines)]
      BY <1>1, SendChannel DEF AddRequest, TypeOK
    <2>. QED  BY <1>1, <2>1, <2>3, <2>4
              DEF AddRequest, TypeOK, coordinator, engine, admin
  <1>2. ASSUME NEW r \in Requests, NEW e \in Engines, Abort(r, e)
        PROVE  TypeOK'
    <2>1. [type |-> "abort", req |-> r, wave |-> 0] \in InputMessage
      BY DEF InputMessage
    <2>2. input' \in [Engines -> Seq(InputMessage)]
      <3>1. input \in [Engines -> Seq(InputMessage)]
        BY DEF TypeOK
      <3>2. input' = Send(input, e, [type |-> "abort", req |-> r, wave |-> 0])
        BY <1>2 DEF Abort
      <3>. QED  BY <2>1, <3>1, <3>2, SendChannel
    <2>. QED  BY <1>2, <2>2
              DEF Abort, TypeOK, client, coordinator, engine, admin
  <1>3. CASE PauseScheduler
    <2>1. [type |-> "pause", req |-> None, wave |-> 0] \in InputMessage
      BY DEF InputMessage
    <2>2. input' \in [Engines -> Seq(InputMessage)]
      BY <1>3, <2>1, AppendProperties DEF PauseScheduler, TypeOK
    <2>3. pauses' \in 0..MaxPauses /\ pausing' \in BOOLEAN
      BY <1>3, Ranks DEF PauseScheduler, TypeOK
    <2>. QED  BY <1>3, <2>2, <2>3
              DEF PauseScheduler, TypeOK, client, coordinator, engine
  <1>4. CASE ResumeScheduler
    <2>1. [type |-> "resume", req |-> None, wave |-> 0] \in InputMessage
      BY DEF InputMessage
    <2>2. input' \in [Engines -> Seq(InputMessage)]
      BY <1>4, <2>1, AppendProperties DEF ResumeScheduler, TypeOK
    <2>. QED  BY <1>4, <2>2
              DEF ResumeScheduler, TypeOK, client, coordinator, engine
  <1>5. ASSUME NEW c \in Clients, ForwardFirstReq(c)
        PROVE  TypeOK'
    <2>1. Head(first_req[c]) \in Engines
          /\ first_req' \in [Clients -> Seq(Engines)]
      BY <1>5, RecvChannel DEF ForwardFirstReq, TypeOK
    <2>2. [engine |-> Head(first_req[c]), wave |-> cwave[c]] \in FirstReq
      BY <2>1 DEF FirstReq, TypeOK
    <2>3. front' \in [Clients -> Seq(FirstReq)]
      BY <1>5, <2>2, SendChannel DEF ForwardFirstReq, TypeOK
    <2>. QED  BY <1>5, <2>1, <2>3
              DEF ForwardFirstReq, TypeOK, coordinator, engine, admin
  <1>6. ASSUME NEW c \in Clients, ReadStats(c)
        PROVE  TypeOK'
    <2>1. Head(publish[c]) \in Stats /\ publish' \in [Clients -> Seq(Stats)]
      BY <1>6, RecvChannel DEF ReadStats, TypeOK
    <2>2. Head(publish[c]).wave \in Nat /\ Head(publish[c]).running \in BOOLEAN
      BY <2>1 DEF Stats
    <2>. QED  BY <1>6, <2>1, <2>2
              DEF ReadStats, TypeOK, coordinator, engine, admin
  <1>. QED  BY <1>1, <1>2, <1>3, <1>4, <1>5, <1>6 DEF StatsTask

(* The coordinator's steps keep the types. *)
LEMMA CoordinatorTypes ==
  ASSUME TypeOK, Coordinator
  PROVE  TypeOK'
  <1>1. ASSUME NEW wave \in Nat, NEW exclude \in Engines \cup {None},
               Broadcast(wave, exclude)
        PROVE  start' \in [Engines -> Seq(StartWave)]
    <2>1. [wave |-> wave, exclude |-> exclude] \in StartWave
      BY DEF StartWave
    <2>. QED  BY <1>1, <2>1, AppendProperties DEF Broadcast, TypeOK
  <1>2. ASSUME NEW wave \in Nat, NEW running \in BOOLEAN,
               PublishAll(wave, running)
        PROVE  publish' \in [Clients -> Seq(Stats)]
    <2>1. [wave |-> wave, running |-> running] \in Stats
      BY DEF Stats
    <2>. QED  BY <1>2, <2>1, AppendProperties DEF PublishAll, TypeOK
  <1>3. ASSUME NEW c \in Clients, OnFirstReq(c)
        PROVE  TypeOK'
    <2>1. Head(front[c]) \in FirstReq /\ front' \in [Clients -> Seq(FirstReq)]
      BY <1>3, RecvChannel DEF OnFirstReq, TypeOK
    <2>2. (IF Head(front[c]).wave < kwave THEN None ELSE Head(front[c]).engine)
            \in Engines \cup {None}
      BY <2>1 DEF FirstReq
    <2>3. start' \in [Engines -> Seq(StartWave)]
      BY <1>1, <1>3, <2>2 DEF OnFirstReq, TypeOK
    <2>. QED  BY <1>3, <2>1, <2>3
              DEF OnFirstReq, TypeOK, client, coordinator, engine, admin
  <1>4. ASSUME NEW c \in Clients, PeriodicPublish(c)
        PROVE  TypeOK'
    <2>1. [wave |-> kwave, running |-> krun] \in Stats
      BY DEF Stats, TypeOK
    <2>2. publish' \in [Clients -> Seq(Stats)]
      BY <1>4, <2>1, SendChannel DEF PeriodicPublish, TypeOK
    <2>. QED  BY <1>4, <2>2
              DEF PeriodicPublish, TypeOK, client, coordinator, engine, admin
  <1>5. ASSUME NEW e \in Engines, OnWaveComplete(e)
        PROVE  TypeOK'
    <2>1. Head(back[e]) \in Notice /\ back' \in [Engines -> Seq(Notice)]
      BY <1>5, RecvChannel DEF OnWaveComplete, TypeOK
    <2>2. Head(back[e]).wave \in Nat /\ Head(back[e]).wave + 1 \in Nat
      BY <2>1 DEF Notice
    <2>3. publish' \in [Clients -> Seq(Stats)] /\ kwave' \in Nat
          /\ krun' \in BOOLEAN
      BY <1>2, <1>5, <2>2 DEF OnWaveComplete, TypeOK
    <2>. QED  BY <1>5, <2>1, <2>3
              DEF OnWaveComplete, TypeOK, client, engine, admin
  <1>6. ASSUME NEW e \in Engines, OnStartWave(e)
        PROVE  TypeOK'
    <2>1. Head(back[e]) \in Notice /\ back' \in [Engines -> Seq(Notice)]
      BY <1>6, RecvChannel DEF OnStartWave, TypeOK
    <2>2. Head(back[e]).wave \in Nat
      BY <2>1 DEF Notice
    <2>3. publish' \in [Clients -> Seq(Stats)] /\ kwave' \in Nat
          /\ krun' \in BOOLEAN /\ start' \in [Engines -> Seq(StartWave)]
      BY <1>1, <1>2, <1>6, <2>2 DEF OnStartWave, TypeOK
    <2>. QED  BY <1>6, <2>1, <2>3
              DEF OnStartWave, TypeOK, client, engine, admin
  <1>. QED  BY <1>3, <1>4, <1>5, <1>6 DEF Coordinator
(* A rank takes the next message of its input queue. *)
LEMMA TakeTypes ==
  ASSUME TypeOK, NEW e \in Engines, NEW type, TakeInput(e, type)
  PROVE  /\ input' \in [Engines -> Seq(InputMessage)]
         /\ Head(input[e]) \in InputMessage /\ Head(input[e]).type = type
         /\ Head(input[e]).wave \in Nat
         /\ type \in {"add", "abort"} => Head(input[e]).req \in Requests
  <1>1. /\ input' \in [Engines -> Seq(InputMessage)]
        /\ Head(input[e]) \in InputMessage /\ Head(input[e]).type = type
    BY RecvChannel DEF TakeInput, TypeOK
  <1>. QED  BY <1>1 DEF InputMessage

(* The steps of one rank keep the types. *)
LEMMA RankTypes ==
  ASSUME TypeOK, NEW e \in Engines, EngineInput(e) \/ BeginStep(e)
  PROVE  TypeOK'
  <1>1. CASE HandleAdd(e)
    <2>1. /\ input' \in [Engines -> Seq(InputMessage)]
          /\ Head(input[e]).wave \in Nat /\ Head(input[e]).req \in Requests
      BY <1>1, TakeTypes DEF HandleAdd
    <2>2. [type |-> "start", wave |-> ewave[e]] \in Notice
      BY DEF Notice, TypeOK
    <2>3. back' \in [Engines -> Seq(Notice)]
      <3>1. back \in [Engines -> Seq(Notice)]
        BY DEF TypeOK
      <3>2. Send(back, e, [type |-> "start", wave |-> ewave[e]])
              \in [Engines -> Seq(Notice)]
        BY <3>1, <2>2, SendChannel
      <3>. QED  BY <1>1, <3>1, <3>2 DEF HandleAdd
    <2>4. /\ todo' \in [Engines -> SUBSET Requests]
          /\ ewave' \in [Engines -> Nat] /\ erun' \in [Engines -> BOOLEAN]
      BY <1>1, <2>1 DEF HandleAdd, TypeOK
    <2>. QED  BY <1>1, <2>1, <2>3, <2>4
              DEF HandleAdd, TypeOK, client, coordinator, admin
  <1>2. CASE HandleAbort(e)
    <2>1. /\ input' \in [Engines -> Seq(InputMessage)]
          /\ Head(input[e]).req \in Requests
      BY <1>2, TakeTypes DEF HandleAbort
    <2>. QED  BY <1>2, <2>1
              DEF HandleAbort, TypeOK, client, coordinator, admin
  <1>3. CASE HandlePause(e)
    <2>1. input' \in [Engines -> Seq(InputMessage)]
      BY <1>3, TakeTypes DEF HandlePause
    <2>. QED  BY <1>3, <2>1
              DEF HandlePause, TypeOK, client, coordinator, admin
  <1>4. CASE HandleResume(e)
    <2>1. input' \in [Engines -> Seq(InputMessage)]
      BY <1>4, TakeTypes DEF HandleResume
    <2>2. /\ paused' \in [Engines -> BOOLEAN]
          /\ ignore_start_dp_wave' \in [Engines -> BOOLEAN]
          /\ at' \in [Engines -> {"input", "forward", "resume"}]
      BY <1>4 DEF HandleResume, TypeOK
    <2>. QED  BY <1>4, <2>1, <2>2
              DEF HandleResume, TypeOK, client, coordinator, admin
  <1>5. CASE HandleStart(e)
    <2>1. start' \in [Engines -> Seq(StartWave)] /\ Head(start[e]) \in StartWave
      BY <1>5, RecvChannel DEF HandleStart, TypeOK
    <2>2. Head(start[e]).wave \in Nat
      BY <2>1 DEF StartWave
    <2>3. ewave' \in [Engines -> Nat] /\ erun' \in [Engines -> BOOLEAN]
      BY <1>5, <2>2 DEF HandleStart, TypeOK
    <2>. QED  BY <1>5, <2>1, <2>3
              DEF HandleStart, TypeOK, client, coordinator, admin
  <1>6. CASE BeginStep(e)
    BY <1>6 DEF BeginStep, TypeOK, client, coordinator, channels, admin
  <1>. QED  BY <1>1, <1>2, <1>3, <1>4, <1>5, <1>6 DEF EngineInput

(* What the collectives do to the state, without the locals of Forward. *)
LEMMA ForwardStep ==
  ASSUME TypeOK, NEW fin \in SUBSET Requests, Forward(fin)
  PROVE  /\ \A e \in Engines : at[e] = "forward"
         /\ erun' \in [Engines -> BOOLEAN] /\ was_running' = erun'
         /\ \E g \in BOOLEAN :
              erun' = [e \in Engines |-> SyncStep(e) => g]
         /\ step_counter' = [e \in Engines |-> StepCounter(e, erun'[e])]
         /\ \E consensus \in SUBSET Engines :
              /\ pending_pause' =
                   [e \in Engines |-> pending_pause[e] /\ e \notin consensus]
              /\ ignore_start_dp_wave' =
                   [e \in Engines |-> IgnoreStart(e, consensus)]
         /\ ewave' = [e \in Engines |->
                        IF erun'[e] THEN ewave[e] ELSE ewave[e] + 1]
         /\ todo' = [e \in Engines |-> todo[e] \ fin]
         /\ done' = done \cup fin
         /\ at' = [e \in Engines |-> "input"]
         /\ \E notice \in Seq(Notice) : back' = [back EXCEPT ![0] = @ \o notice]
         /\ UNCHANGED <<client, coordinator, paused, front, publish, input,
                        start, admin>>
  <1>. DEFINE left == \E e \in Engines : Unfinished(e) \ fin # {}
              pause_count == Cardinality({e \in Engines : pending_pause[e]})
              g == GlobalUnfinished(left, pause_count)
              running == [e \in Engines |-> SyncStep(e) => g]
              consensus == {e \in Engines :
                              SyncStep(e) /\ pause_count = NumEngines}
              notice == IF ~running[0]
                        THEN <<[type |-> "complete", wave |-> ewave[0]]>>
                        ELSE IF ~was_running[0]
                                /\ (~pending_pause[0] \/ 0 \in consensus)
                        THEN <<[type |-> "start", wave |-> ewave[0]]>>
                        ELSE <<>>
  <1>1. /\ \A e \in Engines : at[e] = "forward"
        /\ todo' = [e \in Engines |-> todo[e] \ fin] /\ done' = done \cup fin
        /\ pending_pause' =
             [e \in Engines |-> pending_pause[e] /\ e \notin consensus]
        /\ ignore_start_dp_wave' =
             [e \in Engines |-> IgnoreStart(e, consensus)]
        /\ erun' = running /\ was_running' = running
        /\ ewave' = [e \in Engines |->
                       IF running[e] THEN ewave[e] ELSE ewave[e] + 1]
        /\ step_counter' = [e \in Engines |-> StepCounter(e, running[e])]
        /\ back' = [back EXCEPT ![0] = @ \o notice]
        /\ at' = [e \in Engines |-> "input"]
        /\ UNCHANGED <<client, coordinator, paused, front, publish, input,
                       start, admin>>
    BY DEF Forward
  <1>2. g \in BOOLEAN
    BY DEF GlobalUnfinished
  <1>3. consensus \in SUBSET Engines
    OBVIOUS
  <1>4. notice \in Seq(Notice)
    <2>1. ewave[0] \in Nat
      BY Ranks DEF TypeOK
    <2>2. /\ [type |-> "complete", wave |-> ewave[0]] \in Notice
          /\ [type |-> "start", wave |-> ewave[0]] \in Notice
      BY <2>1 DEF Notice
    <2>3. \A x \in Notice : <<x>> \in Seq(Notice)
      OBVIOUS
    <2>4. <<>> \in Seq(Notice)
      OBVIOUS
    <2>. HIDE DEF running, consensus
    <2>. QED  BY <2>2, <2>3, <2>4
  <1>5. \A e \in Engines : (SyncStep(e) => g) \in BOOLEAN
    OBVIOUS
  <1>6. running \in [Engines -> BOOLEAN]
    BY <1>5
  <1>. HIDE DEF notice, consensus, g
  <1>7. \E b \in BOOLEAN : erun' = [e \in Engines |-> SyncStep(e) => b]
    BY <1>1, <1>2
  <1>. HIDE DEF running
  <1>. QED  BY <1>1, <1>3, <1>4, <1>6, <1>7

(* The steps of all ranks together keep the types. *)
LEMMA CollectiveTypes ==
  ASSUME TypeOK, (\E fin \in SUBSET Requests : Forward(fin)) \/ ResumeBarrier
  PROVE  TypeOK'
  <1>1. ASSUME NEW fin \in SUBSET Requests, Forward(fin)
        PROVE  TypeOK'
    <2>1. back' \in [Engines -> Seq(Notice)]
      <3>1. PICK notice \in Seq(Notice) : back' = [back EXCEPT ![0] = @ \o notice]
        BY <1>1, ForwardStep
      <3>2. back[0] \o notice \in Seq(Notice)
        BY Ranks, ConcatProperties DEF TypeOK
      <3>. QED  BY <3>1, <3>2 DEF TypeOK
    <2>2. step_counter' \in [Engines -> 0..(SyncInterval + 1)]
      <3>1. step_counter' = [e \in Engines |-> StepCounter(e, erun'[e])]
        BY <1>1, ForwardStep
      <3>2. ASSUME NEW n \in 0..(SyncInterval + 1)
            PROVE  NextStep(n) \in 0..(SyncInterval + 1)
        BY Ranks DEF NextStep
      <3>3. ASSUME NEW e \in Engines
            PROVE  StepCounter(e, erun'[e]) \in 0..(SyncInterval + 1)
        <4>1. step_counter[e] \in 0..(SyncInterval + 1)
          BY DEF TypeOK
        <4>2. 0 \in 0..(SyncInterval + 1)
          BY Ranks
        <4>. QED  BY <4>1, <4>2, <3>2 DEF StepCounter
      <3>. QED  BY <3>1, <3>3
    <2>3. ewave' \in [Engines -> Nat]
      <3>1. ewave' = [e \in Engines |->
                        IF erun'[e] THEN ewave[e] ELSE ewave[e] + 1]
        BY <1>1, ForwardStep
      <3>. QED  BY <3>1 DEF TypeOK
    <2>4. PICK consensus \in SUBSET Engines :
            /\ pending_pause' =
                 [e \in Engines |-> pending_pause[e] /\ e \notin consensus]
            /\ ignore_start_dp_wave' =
                 [e \in Engines |-> IgnoreStart(e, consensus)]
      BY <1>1, ForwardStep
    <2>5. /\ pending_pause' \in [Engines -> BOOLEAN]
          /\ ignore_start_dp_wave' \in [Engines -> BOOLEAN]
      BY <2>4, Zenon DEF TypeOK, IgnoreStart
    <2>6. /\ todo' \in [Engines -> SUBSET Requests] /\ done' \subseteq Requests
          /\ at' \in [Engines -> {"input", "forward", "resume"}]
      BY <1>1, ForwardStep DEF TypeOK
    <2>7. /\ erun' \in [Engines -> BOOLEAN] /\ was_running' = erun'
          /\ UNCHANGED <<client, coordinator, paused, front, publish, input,
                        start, admin>>
      BY <1>1, ForwardStep
    <2>. QED  BY <2>1, <2>2, <2>3, <2>5, <2>6, <2>7
              DEF TypeOK, client, coordinator, admin
  <1>2. CASE ResumeBarrier
    <2>1. \A e \in Engines : RunsAfterResume(e) \in BOOLEAN
      BY DEF RunsAfterResume
    <2>2. /\ erun' \in [Engines -> BOOLEAN]
          /\ at' \in [Engines -> {"input", "forward", "resume"}]
      BY <1>2, <2>1 DEF ResumeBarrier
    <2>. QED  BY <1>2, <2>2
              DEF ResumeBarrier, TypeOK, client, coordinator, channels, admin
  <1>. QED  BY <1>1, <1>2

(* No step takes a variable out of its type. *)
LEMMA WavesTypes ==
  ASSUME TypeOK, [Next]_vars
  PROVE  TypeOK'
  <1>1. CASE UNCHANGED vars
    BY <1>1 DEF TypeOK, vars, client, coordinator, engine, channels, admin
  <1>. QED  BY <1>1, ClientTypes, CoordinatorTypes, RankTypes, CollectiveTypes
            DEF Next
(* All ranks of a forward pass take the same decision about their counter. *)
LEMMA WavesSteps ==
  ASSUME TypeOK, SameSteps, [Next]_vars
  PROVE  SameSteps'
  <1>1. ASSUME NEW fin \in SUBSET Requests, Forward(fin)
        PROVE  SameSteps'
    <2>1. PICK g \in BOOLEAN : erun' = [e \in Engines |-> SyncStep(e) => g]
      BY <1>1, ForwardStep
    <2>2. step_counter' = [e \in Engines |-> StepCounter(e, erun'[e])]
      BY <1>1, ForwardStep
    <2>. SUFFICES ASSUME NEW e \in Engines, NEW f \in Engines
                  PROVE  step_counter'[e] = step_counter'[f]
      BY DEF SameSteps
    <2>3. step_counter[e] = step_counter[f]
      BY DEF SameSteps
    <2>4. erun'[e] = erun'[f]
      BY <2>1, <2>3 DEF SyncStep
    <2>. QED  BY <2>2, <2>3, <2>4 DEF StepCounter
  <1>2. CASE UNCHANGED step_counter
    BY <1>2 DEF SameSteps
  <1>3. CASE \/ \E c \in Clients, e \in Engines : AddRequest(c, e)
             \/ \E r \in Requests, e \in Engines : Abort(r, e)
             \/ PauseScheduler \/ ResumeScheduler
             \/ \E c \in Clients : StatsTask(c)
             \/ Coordinator
    BY <1>2, <1>3 DEF AddRequest, Abort, PauseScheduler, ResumeScheduler,
      StatsTask, ForwardFirstReq, ReadStats, Coordinator, OnFirstReq,
      PeriodicPublish, OnWaveComplete, OnStartWave, engine
  <1>4. CASE \/ \E e \in Engines : EngineInput(e) \/ BeginStep(e)
             \/ ResumeBarrier \/ UNCHANGED vars
    BY <1>2, <1>4 DEF EngineInput, HandleAdd, HandleAbort, HandlePause,
      HandleResume, HandleStart, BeginStep, ResumeBarrier, vars, engine
  <1>. QED  BY <1>1, <1>3, <1>4 DEF Next

(* A message is put behind the others. *)
LEMMA PutMessage ==
  ASSUME NEW q \in Seq(InputMessage), NEW m \in InputMessage
  PROVE  /\ \A type : Waits(Append(q, m), type)
                        <=> Waits(q, type) \/ m.type = type
         /\ OneResume(q)
              /\ (m.type = "resume"
                    => ~Waits(q, "resume") /\ ~Waits(q, "pause"))
              => OneResume(Append(q, m))
  <1>. DEFINE n == Len(q) + 1
              a == Append(q, m)
  <1>1. /\ DOMAIN q = 1..Len(q) /\ DOMAIN a = 1..n /\ Len(q) \in Nat
        /\ \A i \in 1..Len(q) : a[i] = q[i]
        /\ a[n] = m
    BY AppendProperties, LenProperties
  <1>2. DOMAIN a = DOMAIN q \cup {n} /\ n \notin DOMAIN q
        /\ \A i \in DOMAIN q : i < n
    BY <1>1
  <1>. HIDE DEF n, a
  <1>3. ASSUME NEW type
        PROVE  Waits(a, type) <=> Waits(q, type) \/ m.type = type
    BY <1>1, <1>2 DEF Waits
  <1>4. ASSUME OneResume(q),
               m.type = "resume" => ~Waits(q, "resume") /\ ~Waits(q, "pause")
        PROVE  OneResume(a)
    <2>. SUFFICES ASSUME NEW i \in DOMAIN a, NEW j \in DOMAIN a,
                         a[i].type = "resume"
                  PROVE  /\ a[j].type = "resume" => i = j
                         /\ a[j].type = "pause" => i < j
      BY DEF OneResume
    <2>1. CASE i \in DOMAIN q /\ j \in DOMAIN q
      BY <2>1, <1>1, <1>4 DEF OneResume
    <2>2. CASE i = n /\ j \in DOMAIN q
      BY <2>2, <1>1, <1>4 DEF Waits
    <2>3. CASE i \in DOMAIN q /\ j = n
      <3>1. m.type # "resume"
        BY <2>3, <1>1, <1>4 DEF Waits
      <3>. QED  BY <3>1, <2>3, <1>1, <1>2
    <2>4. CASE i = n /\ j = n
      BY <2>4, <1>1
    <2>. QED  BY <2>1, <2>2, <2>3, <2>4, <1>2
  <1>. QED  BY <1>3, <1>4 DEF a

(* The oldest message is taken. *)
LEMMA TakeMessage ==
  ASSUME NEW q \in Seq(InputMessage), q # <<>>
  PROVE  /\ \A type : Waits(q, type)
                        <=> Head(q).type = type \/ Waits(Tail(q), type)
         /\ OneResume(q) =>
              /\ OneResume(Tail(q))
              /\ Head(q).type = "pause" => ~Waits(q, "resume")
              /\ Head(q).type = "resume" => ~Waits(Tail(q), "resume")
  <1>. DEFINE t == Tail(q)
              h == Head(q)
  <1>1. /\ Len(q) \in Nat /\ Len(q) >= 1 /\ h = q[1]
        /\ DOMAIN q = 1..Len(q) /\ DOMAIN t = 1..(Len(q) - 1)
        /\ \A i \in 1..(Len(q) - 1) : t[i] = q[i + 1]
    <2>1. Len(q) >= 1
      BY EmptySeq, LenProperties
    <2>2. t \in Seq(InputMessage) /\ Len(t) = Len(q) - 1 /\ h = q[1]
          /\ \A i \in 1..Len(t) : t[i] = q[i + 1]
      BY HeadTailProperties
    <2>. QED  BY <2>1, <2>2, LenProperties
  <1>. HIDE DEF t, h
  <1>2. ASSUME NEW type
        PROVE  Waits(q, type) <=> h.type = type \/ Waits(t, type)
    <2>1. ASSUME Waits(q, type), h.type # type
          PROVE  Waits(t, type)
      <3>1. PICK i \in DOMAIN q : q[i].type = type
        BY <2>1 DEF Waits
      <3>2. i # 1
        BY <3>1, <2>1, <1>1
      <3>3. i - 1 \in DOMAIN t /\ t[i - 1] = q[i]
        BY <3>1, <3>2, <1>1
      <3>. QED  BY <3>1, <3>3 DEF Waits
    <2>2. ASSUME h.type = type
          PROVE  Waits(q, type)
      BY <2>2, <1>1 DEF Waits
    <2>3. ASSUME Waits(t, type)
          PROVE  Waits(q, type)
      <3>1. PICK i \in DOMAIN t : t[i].type = type
        BY <2>3 DEF Waits
      <3>2. i + 1 \in DOMAIN q /\ t[i] = q[i + 1]
        BY <3>1, <1>1
      <3>. QED  BY <3>1, <3>2 DEF Waits
    <2>. QED  BY <2>1, <2>2, <2>3
  <1>3. ASSUME OneResume(q)
        PROVE  /\ OneResume(t)
               /\ h.type = "pause" => ~Waits(q, "resume")
               /\ h.type = "resume" => ~Waits(t, "resume")
    <2>1. OneResume(t)
      <3>. SUFFICES ASSUME NEW i \in DOMAIN t, NEW j \in DOMAIN t,
                           t[i].type = "resume"
                    PROVE  /\ t[j].type = "resume" => i = j
                           /\ t[j].type = "pause" => i < j
        BY DEF OneResume
      <3>1. /\ i + 1 \in DOMAIN q /\ j + 1 \in DOMAIN q
            /\ t[i] = q[i + 1] /\ t[j] = q[j + 1] /\ i \in Int /\ j \in Int
        BY <1>1
      <3>2. /\ q[j + 1].type = "resume" => i + 1 = j + 1
            /\ q[j + 1].type = "pause" => i + 1 < j + 1
        BY <3>1, <1>3 DEF OneResume
      <3>. QED  BY <3>1, <3>2
    <2>2. ASSUME h.type = "pause", Waits(q, "resume")
          PROVE  FALSE
      <3>1. PICK i \in DOMAIN q : q[i].type = "resume"
        BY <2>2 DEF Waits
      <3>2. 1 \in DOMAIN q
        BY <1>1
      <3>3. i < 1
        BY <3>1, <3>2, <2>2, <1>1, <1>3 DEF OneResume
      <3>. QED  BY <3>1, <3>3, <1>1
    <2>3. ASSUME h.type = "resume", Waits(t, "resume")
          PROVE  FALSE
      <3>1. PICK i \in DOMAIN t : t[i].type = "resume"
        BY <2>3 DEF Waits
      <3>2. i + 1 \in DOMAIN q /\ q[i + 1].type = "resume" /\ 1 \in DOMAIN q
            /\ i >= 1 /\ i \in Int
        BY <3>1, <1>1
      <3>3. i + 1 = 1
        BY <3>2, <2>3, <1>1, <1>3 DEF OneResume
      <3>. QED  BY <3>2, <3>3
    <2>. QED  BY <2>1, <2>2, <2>3
  <1>. QED  BY <1>2, <1>3 DEF t, h
(* Steps that leave the ranks' inputs and states alone. *)
LEMMA PauseUntouched ==
  ASSUME PauseInv,
         UNCHANGED <<input, at, paused, pending_pause, ignore_start_dp_wave,
                     erun, todo, pausing>>
  PROVE  PauseInv'
  BY DEF PauseInv, RankInv, ResumeTogether, Resuming, Stopped, HasWork,
         Unfinished

(* A step of rank e is seen by no other rank. *)
LEMMA PauseOthers ==
  ASSUME PauseInv, NEW e \in Engines, pausing' = pausing,
         \A f \in Engines \ {e} :
           /\ input'[f] = input[f] /\ at'[f] = at[f] /\ paused'[f] = paused[f]
           /\ pending_pause'[f] = pending_pause[f] /\ erun'[f] = erun[f]
           /\ ignore_start_dp_wave'[f] = ignore_start_dp_wave[f]
           /\ todo'[f] = todo[f],
         RankInv(e)', Resuming(e)' <=> Resuming(e)
  PROVE  PauseInv'
  <1>1. \A f \in Engines \ {e} : RankInv(f)' /\ (Resuming(f)' <=> Resuming(f))
    BY DEF PauseInv, RankInv, Resuming, Stopped, HasWork, Unfinished
  <1>. QED  BY <1>1 DEF PauseInv, ResumeTogether

(* A request or an abort is sent to rank e. *)
LEMMA PauseSend ==
  ASSUME TypeOK, PauseInv, NEW e \in Engines, NEW m \in InputMessage,
         m.type \in {"add", "abort"}, input' = Send(input, e, m),
         UNCHANGED <<engine, pausing>>
  PROVE  PauseInv'
  <1>1. /\ input'[e] = Append(input[e], m)
        /\ \A f \in Engines \ {e} : input'[f] = input[f]
    <2>1. input \in [Engines -> Seq(InputMessage)]
      BY DEF TypeOK
    <2>. QED  BY <2>1, SendChannel
  <1>2. input[e] \in Seq(InputMessage)
    BY DEF TypeOK
  <1>3. /\ Waits(input'[e], "resume") <=> Waits(input[e], "resume")
        /\ Waits(input'[e], "pause") <=> Waits(input[e], "pause")
        /\ OneResume(input[e]) => OneResume(input'[e])
    BY <1>1, <1>2, PutMessage
  <1>4. RankInv(e)' /\ (Resuming(e)' <=> Resuming(e))
    BY <1>3 DEF PauseInv, RankInv, Resuming, Stopped, HasWork, Unfinished,
                engine
  <1>. QED  BY <1>1, <1>4, PauseOthers DEF engine

(* A pause is sent to every rank, behind any resume. *)
LEMMA PausePause ==
  ASSUME TypeOK, PauseInv, PauseScheduler
  PROVE  PauseInv'
  <1>. DEFINE m == [type |-> "pause", req |-> None, wave |-> 0]
  <1>1. m \in InputMessage /\ m.type = "pause"
    BY DEF InputMessage
  <1>2. ASSUME NEW e \in Engines
        PROVE  RankInv(e)' /\ (Resuming(e)' <=> Resuming(e))
    <2>1. input[e] \in Seq(InputMessage) /\ input'[e] = Append(input[e], m)
      BY DEF TypeOK, PauseScheduler
    <2>2. /\ Waits(input'[e], "resume") <=> Waits(input[e], "resume")
          /\ Waits(input'[e], "pause")
          /\ OneResume(input[e]) => OneResume(input'[e])
      BY <1>1, <2>1, PutMessage
    <2>. QED  BY <2>2 DEF PauseInv, RankInv, Resuming, Stopped, HasWork,
                         Unfinished, PauseScheduler, engine
  <1>. QED  BY <1>2 DEF PauseInv, ResumeTogether

(* A resume is sent to every rank once all of them have stopped. *)
LEMMA PauseResume ==
  ASSUME TypeOK, PauseInv, ResumeScheduler
  PROVE  PauseInv'
  <1>. DEFINE m == [type |-> "resume", req |-> None, wave |-> 0]
  <1>1. m \in InputMessage /\ m.type = "resume"
    BY DEF InputMessage
  <1>2. ASSUME NEW e \in Engines
        PROVE  RankInv(e)' /\ Resuming(e)'
    <2>1. input[e] \in Seq(InputMessage) /\ input'[e] = Append(input[e], m)
      BY DEF TypeOK, ResumeScheduler
    <2>2. RankInv(e) /\ pausing /\ paused[e] /\ ~pending_pause[e] /\ ~erun[e]
          /\ ~Waits(input[e], "pause") /\ UNCHANGED engine /\ ~pausing'
      BY DEF PauseInv, ResumeScheduler, PauseResolved, Waits
    <2>3. ~Waits(input[e], "resume")
      BY <2>2 DEF RankInv
    <2>4. Waits(input'[e], "resume") /\ OneResume(input'[e])
      BY <1>1, <2>1, <2>2, <2>3, PutMessage DEF RankInv
    <2>5. at[e] = "input" /\ ignore_start_dp_wave[e]
      BY <2>2 DEF RankInv, HasWork, Unfinished, TypeOK
    <2>6. Stopped(e)'
      BY <2>2, <2>5 DEF Stopped, engine
    <2>7. RankInv(e)'
      BY <2>2, <2>4, <2>5, <2>6 DEF RankInv, engine
    <2>. QED  BY <2>4, <2>7 DEF Resuming
  <1>. QED  BY <1>2 DEF PauseInv, ResumeTogether

(* Requests, aborts and pauses are handled by a rank; a rank that has yet  *)
(* to resume stays stopped.                                                *)
LEMMA PauseHandle ==
  ASSUME TypeOK, PauseInv, NEW e \in Engines,
         HandleAdd(e) \/ HandleAbort(e) \/ HandlePause(e)
  PROVE  PauseInv'
  <1>1. /\ at[e] = "input" /\ input[e] # <<>> /\ at' = at
        /\ input' = Recv(input, e) /\ input[e] \in Seq(InputMessage)
        /\ Head(input[e]).type \in {"add", "abort", "pause"}
        /\ ignore_start_dp_wave' = ignore_start_dp_wave /\ pausing' = pausing
    BY DEF HandleAdd, HandleAbort, HandlePause, TakeInput, TypeOK, admin
  <1>2. /\ input'[e] = Tail(input[e])
        /\ \A f \in Engines \ {e} : input'[f] = input[f]
    BY <1>1 DEF Recv, TypeOK
  <1>3. /\ Waits(input'[e], "resume") <=> Waits(input[e], "resume")
        /\ OneResume(input'[e])
        /\ Head(input[e]).type = "pause" => ~Waits(input[e], "resume")
        /\ Head(input[e]).type # "pause" =>
             (Waits(input'[e], "pause") <=> Waits(input[e], "pause"))
    BY <1>1, <1>2, TakeMessage DEF PauseInv, RankInv
  <1>4. RankInv(e)
    BY DEF PauseInv
  <1>5. Resuming(e)' <=> Resuming(e)
    BY <1>1, <1>3 DEF Resuming
  <1>6. CASE HandleAdd(e)
    <2>1. /\ Head(input[e]).type = "add" /\ paused' = paused
          /\ pending_pause' = pending_pause
          /\ paused[e] => erun' = erun
          /\ \A f \in Engines \ {e} : erun'[f] = erun[f] /\ todo'[f] = todo[f]
      BY <1>6 DEF HandleAdd, TakeInput, TypeOK
    <2>2. RankInv(e)'
      BY <1>1, <1>3, <1>4, <2>1 DEF RankInv, Stopped
    <2>. QED  BY <1>1, <1>2, <1>5, <2>1, <2>2, PauseOthers
  <1>7. CASE HandleAbort(e)
    <2>1. /\ Head(input[e]).type = "abort" /\ paused' = paused
          /\ pending_pause' = pending_pause /\ erun' = erun
          /\ \A f \in Engines \ {e} : todo'[f] = todo[f]
      BY <1>7 DEF HandleAbort, TakeInput, TypeOK
    <2>2. RankInv(e)'
      BY <1>1, <1>3, <1>4, <2>1 DEF RankInv, Stopped
    <2>. QED  BY <1>1, <1>2, <1>5, <2>1, <2>2, PauseOthers
  <1>8. CASE HandlePause(e)
    <2>1. /\ Head(input[e]).type = "pause" /\ todo' = todo
          /\ pending_pause'[e]
          /\ \A f \in Engines \ {e} :
               /\ erun'[f] = erun[f] /\ paused'[f] = paused[f]
               /\ pending_pause'[f] = pending_pause[f]
      BY <1>8 DEF HandlePause, TakeInput, TypeOK
    <2>2. RankInv(e)'
      BY <1>1, <1>3, <2>1 DEF RankInv
    <2>. QED  BY <1>1, <1>2, <1>5, <2>1, <2>2, PauseOthers
  <1>. QED  BY <1>6, <1>7, <1>8

(* A resume finds its rank stopped, which then waits for the others. *)
LEMMA PauseHandleResume ==
  ASSUME TypeOK, PauseInv, NEW e \in Engines, HandleResume(e)
  PROVE  PauseInv'
  <1>1. /\ at[e] = "input" /\ input[e] # <<>>
        /\ input' = Recv(input, e) /\ input[e] \in Seq(InputMessage)
        /\ Head(input[e]).type = "resume"
        /\ UNCHANGED <<erun, todo, pending_pause, pausing>>
    BY DEF HandleResume, TakeInput, TypeOK, admin
  <1>2. /\ input'[e] = Tail(input[e])
        /\ \A f \in Engines \ {e} : input'[f] = input[f]
    BY <1>1 DEF Recv, TypeOK
  <1>3. /\ Waits(input[e], "resume") /\ ~Waits(input'[e], "resume")
        /\ OneResume(input'[e])
    BY <1>1, <1>2, TakeMessage DEF PauseInv, RankInv
  <1>4. Stopped(e) /\ RankInv(e)
    BY <1>3 DEF PauseInv, RankInv
  <1>5. /\ ~paused'[e] /\ at'[e] = "resume"
        /\ \A f \in Engines \ {e} :
             /\ at'[f] = at[f] /\ paused'[f] = paused[f]
             /\ ignore_start_dp_wave'[f] = ignore_start_dp_wave[f]
    BY <1>4 DEF HandleResume, Stopped, TypeOK
  <1>6. RankInv(e)'
    BY <1>3, <1>5 DEF RankInv
  <1>7. Resuming(e)' /\ Resuming(e)
    BY <1>3, <1>5 DEF Resuming
  <1>. QED  BY <1>1, <1>2, <1>5, <1>6, <1>7, PauseOthers

(* START_DP_WAVE does not wake a rank that has yet to resume, and such a   *)
(* rank does not step.                                                     *)
LEMMA PauseStart ==
  ASSUME TypeOK, PauseInv, NEW e \in Engines, HandleStart(e) \/ BeginStep(e)
  PROVE  PauseInv'
  <1>1. /\ at[e] = "input" /\ RankInv(e)
        /\ UNCHANGED <<input, todo, paused, pending_pause,
                       ignore_start_dp_wave, pausing>>
    BY DEF PauseInv, HandleStart, BeginStep, channels, admin
  <1>2. CASE HandleStart(e)
    <2>1. /\ at' = at
          /\ ignore_start_dp_wave[e] => erun' = erun
          /\ \A f \in Engines \ {e} : erun'[f] = erun[f]
      BY <1>2 DEF HandleStart, TypeOK
    <2>2. RankInv(e)' /\ (Resuming(e)' <=> Resuming(e))
      BY <1>1, <2>1 DEF RankInv, Stopped, Resuming
    <2>. QED  BY <1>1, <2>1, <2>2, PauseOthers
  <1>3. CASE BeginStep(e)
    <2>1. /\ HasWork(e) /\ erun' = erun /\ at'[e] = "forward"
          /\ \A f \in Engines \ {e} : at'[f] = at[f]
      BY <1>3 DEF BeginStep, TypeOK
    <2>2. ~Stopped(e)
      BY <2>1 DEF Stopped, HasWork, Unfinished
    <2>3. HasWork(e)'
      BY <1>1, <2>1 DEF HasWork, Unfinished
    <2>4. RankInv(e)' /\ (Resuming(e)' <=> Resuming(e))
      BY <1>1, <2>1, <2>2, <2>3 DEF RankInv, Resuming
    <2>. QED  BY <1>1, <2>1, <2>4, PauseOthers
  <1>. QED  BY <1>2, <1>3

(* A forward pass leaves no rank in a collective, and the pass that ends a *)
(* pause makes every rank of it ignore START_DP_WAVE.                      *)
LEMMA PauseForward ==
  ASSUME TypeOK, PauseInv, NEW fin \in SUBSET Requests, Forward(fin)
  PROVE  PauseInv'
  <1>1. /\ \A e \in Engines : at[e] = "forward" /\ at'[e] = "input"
        /\ UNCHANGED <<paused, input, pausing>>
    BY ForwardStep DEF admin
  <1>2. PICK consensus \in SUBSET Engines :
          /\ pending_pause' =
               [e \in Engines |-> pending_pause[e] /\ e \notin consensus]
          /\ ignore_start_dp_wave' =
               [e \in Engines |-> IgnoreStart(e, consensus)]
    BY ForwardStep
  <1>3. ASSUME NEW e \in Engines
        PROVE  RankInv(e)' /\ ~Resuming(e)'
    <2>1. RankInv(e) /\ ~Waits(input[e], "resume")
      BY <1>1 DEF PauseInv, RankInv, Stopped
    <2>2. ~pending_pause'[e] /\ paused[e] => ignore_start_dp_wave'[e]
      BY <1>2, <2>1 DEF RankInv, IgnoreStart
    <2>. QED  BY <1>1, <2>1, <2>2 DEF RankInv, Resuming
  <1>. QED  BY <1>3 DEF PauseInv, ResumeTogether

(* The barrier lets all ranks go at once. *)
LEMMA PauseBarrier ==
  ASSUME TypeOK, PauseInv, ResumeBarrier
  PROVE  PauseInv'
  <1>1. ASSUME NEW e \in Engines
        PROVE  RankInv(e)' /\ ~Resuming(e)'
    <2>1. /\ RankInv(e) /\ at[e] = "resume" /\ at'[e] = "input"
          /\ UNCHANGED <<paused, pending_pause, ignore_start_dp_wave, input,
                         pausing>>
      BY DEF PauseInv, ResumeBarrier, channels, admin
    <2>. QED  BY <2>1 DEF RankInv, Resuming
  <1>. QED  BY <1>1 DEF PauseInv, ResumeTogether

(* No step lets a rank leave a pause before its peers have stopped. *)
LEMMA WavesPause ==
  ASSUME TypeOK, PauseInv, [Next]_vars
  PROVE  PauseInv'
  <1>1. ASSUME NEW c \in Clients, NEW e \in Engines, AddRequest(c, e)
        PROVE  PauseInv'
    <2>. DEFINE m == [type |-> "add", req |-> sent', wave |-> cwave[c]]
    <2>1. sent' \in Requests /\ cwave[c] \in Nat
      <3>1. sent \in 0..MaxRequests /\ sent < MaxRequests /\ sent' = sent + 1
        BY <1>1 DEF AddRequest, TypeOK
      <3>2. sent' \in Requests
        BY <3>1, Ranks DEF Requests
      <3>. QED  BY <3>2 DEF TypeOK
    <2>2. m \in InputMessage /\ m.type = "add"
      BY <2>1 DEF InputMessage
    <2>. HIDE DEF m
    <2>3. input' = Send(input, e, m) /\ UNCHANGED <<engine, pausing>>
      BY <1>1 DEF AddRequest, admin, m
    <2>. QED  BY <2>2, <2>3, PauseSend
  <1>2. ASSUME NEW r \in Requests, NEW e \in Engines, Abort(r, e)
        PROVE  PauseInv'
    <2>1. [type |-> "abort", req |-> r, wave |-> 0] \in InputMessage
      BY DEF InputMessage
    <2>. QED  BY <1>2, <2>1, PauseSend DEF Abort, admin
  <1>3. CASE \E c \in Clients : StatsTask(c)
    BY <1>3, PauseUntouched
       DEF StatsTask, ForwardFirstReq, ReadStats, engine, admin
  <1>4. CASE Coordinator
    BY <1>4, PauseUntouched
       DEF Coordinator, OnFirstReq, PeriodicPublish, OnWaveComplete,
           OnStartWave, engine, admin
  <1>5. CASE UNCHANGED vars
    BY <1>5, PauseUntouched DEF vars, engine, channels, admin
  <1>. QED
    BY <1>1, <1>2, <1>3, <1>4, <1>5, PausePause, PauseResume, PauseHandle,
       PauseHandleResume, PauseStart, PauseForward, PauseBarrier
       DEF Next, EngineInput

(* add_request, pause_scheduler, resume_scheduler, _handle_client_request   *)
(* and run_busy_loop of DPEngineCoreProc keep types, step counters and the *)
(* order of pauses and resumes.                                            *)
THEOREM WavesInductive == Spec => []WavesInv
  <1>1. WavesInv /\ [Next]_vars => WavesInv'
    BY WavesTypes, WavesSteps, WavesPause DEF WavesInv
  <1>. QED  BY <1>1, WavesInit, PTL DEF Spec

(* Every message is of a kind its reader expects and step counters stay    *)
(* within the bound the model keeps them to (NextStep).                    *)
THEOREM WavesTypeOK == Spec => []TypeOK
  <1>1. WavesInv => TypeOK
    BY DEF WavesInv
  <1>. QED  BY <1>1, WavesInductive, PTL

(* The ranks of a forward pass agree on step_counter, hence on when to     *)
(* enter the all-reduce (_has_global_unfinished_reqs).                     *)
THEOREM WavesLockStep == Spec => []LockStep
  <1>1. WavesInv => LockStep
    BY DEF WavesInv, SameSteps, LockStep
  <1>. QED  BY <1>1, WavesInductive, PTL

(* resume_scheduler: "Uses the existing all-reduce which is safe because   *)
(* engines are stopped": no rank is in a forward pass while another waits  *)
(* in that barrier, for any number of ranks and pauses.                    *)
THEOREM WavesNoMixedCollectives == Spec => []NoMixedCollectives
  <1>1. ASSUME WavesInv, NEW e \in Engines, NEW f \in Engines,
               at[e] = "forward", at[f] = "resume"
        PROVE  FALSE
    <2>1. Resuming(e)
      BY <1>1 DEF WavesInv, PauseInv, ResumeTogether, Resuming
    <2>2. Stopped(e)
      BY <1>1, <2>1 DEF WavesInv, PauseInv, RankInv, Resuming
    <2>. QED  BY <1>1, <2>2 DEF Stopped
  <1>2. WavesInv => NoMixedCollectives
    BY <1>1 DEF NoMixedCollectives
  <1>. QED  BY <1>2, WavesInductive, PTL
=============================================================================
