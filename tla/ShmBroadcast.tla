---------------------------- MODULE ShmBroadcast ----------------------------
(***************************************************************************)
(* MessageQueue over ShmRingBuffer: one writer, several local readers, a   *)
(* ring of chunks in shared memory with a written flag and one read flag   *)
(* per reader, a publish socket for payloads that do not fit a chunk, and  *)
(* wake-up notifications that may be lost.  No lock is taken anywhere: a   *)
(* step is one flag write, one payload copy or one socket operation.       *)
(***************************************************************************)
EXTENDS Integers, Sequences

CONSTANTS
  NumReaders,    \* n_reader
  MaxChunks,     \* max_chunks
  MaxMsgs,       \* bound on the number of enqueue calls
  TimedReaders   \* readers that call dequeue with a timeout

ASSUME RingAssumption ==
  /\ NumReaders \in Nat \ {0}
  /\ MaxChunks \in Nat \ {0}
  /\ MaxMsgs \in Nat
  /\ TimedReaders \subseteq 1..NumReaders

Readers == 1..NumReaders
Chunks == 0..(MaxChunks - 1)

VARIABLES
  written,       \* metadata_buffer[0] of each chunk
  read_flag,     \* metadata_buffer[1..n] of each chunk
  data,          \* chunk contents; id 0 while it holds no whole message
  wpc, widx,     \* where the writer is in enqueue; its current_idx
  wbig,          \* the message being enqueued overflows a chunk
  wflag,         \* next read flag to reset
  nmsg,          \* messages enqueue has been called with
  sent,          \* messages whose chunk has been marked written
  rpc, ridx,     \* where each reader is in dequeue; its current_idx
  seen,          \* chunks each reader has released
  last,          \* the last message each reader's dequeue returned
  sock,          \* overflow payloads in each reader's local_socket
  notify,        \* a ping waits in the reader's conflated notify socket
  shutting_down

writer == <<wpc, widx, wbig, wflag, nmsg, sent>>
reader == <<rpc, ridx, seen, last>>
vars == <<written, read_flag, data, writer, reader, sock, notify,
          shutting_down>>

TypeOK ==
  /\ written \in [Chunks -> BOOLEAN]
  /\ read_flag \in [Chunks -> [Readers -> BOOLEAN]]
  /\ data \in [Chunks -> [id : 0..MaxMsgs, overflow : BOOLEAN]]
  /\ wpc \in {"idle", "acquire", "claimed", "copying", "reset", "mark",
             "send", "notify"}
  /\ widx \in Chunks /\ wbig \in BOOLEAN /\ wflag \in 1..(NumReaders + 1)
  /\ nmsg \in 0..MaxMsgs /\ sent \in 0..MaxMsgs
  /\ rpc \in [Readers -> {"check", "parked", "reading", "recv", "stopped"}]
  /\ ridx \in [Readers -> Chunks]
  /\ seen \in [Readers -> 0..MaxMsgs] /\ last \in [Readers -> 0..MaxMsgs]
  /\ sock \in [Readers -> Seq(1..MaxMsgs)]
  /\ notify \in [Readers -> BOOLEAN] /\ shutting_down \in [Readers -> BOOLEAN]

Init ==
  /\ written = [c \in Chunks |-> FALSE]
  /\ read_flag = [c \in Chunks |-> [r \in Readers |-> FALSE]]
  /\ data = [c \in Chunks |-> [id |-> 0, overflow |-> FALSE]]
  /\ wpc = "idle" /\ widx = 0 /\ wbig = FALSE /\ wflag = 1
  /\ nmsg = 0 /\ sent = 0
  /\ rpc = [r \in Readers |-> "check"] /\ ridx = [r \in Readers |-> 0]
  /\ seen = [r \in Readers |-> 0] /\ last = [r \in Readers |-> 0]
  /\ sock = [r \in Readers |-> <<>>]
  /\ notify = [r \in Readers |-> FALSE]
  /\ shutting_down = [r \in Readers |-> FALSE]

(***************************************************************************)
(* The writer.  acquire_write spins until its chunk is free; a timeout     *)
(* there raises before anything is written, so it is a stuttering step.    *)
(***************************************************************************)
Enqueue(big) ==
  /\ wpc = "idle" /\ nmsg < MaxMsgs
  /\ nmsg' = nmsg + 1 /\ wbig' = big
  /\ wpc' = "acquire"
  /\ UNCHANGED <<written, read_flag, data, widx, wflag, sent, reader, sock,
                 notify, shutting_down>>

(* Mutant: one reader of the chunk is enough. *)
CanWriteSomeRead ==
  ~(written[widx] /\ \A r \in Readers : ~read_flag[widx][r])

CanWrite == ~(written[widx] /\ \E r \in Readers : ~read_flag[widx][r])

AcquireWrite ==
  /\ wpc = "acquire" /\ CanWrite
  /\ written' = [written EXCEPT ![widx] = FALSE]
  /\ wpc' = "claimed"
  /\ UNCHANGED <<read_flag, data, widx, wbig, wflag, nmsg, sent, reader, sock,
                 notify, shutting_down>>

(* The caller fills the chunk: it holds a mix of bytes while it is copying, *)
(* then the message, or only the overflow byte when the message is too big. *)
BeginCopy ==
  /\ wpc = "claimed"
  /\ data' = [data EXCEPT ![widx] = [id |-> 0, overflow |-> FALSE]]
  /\ wpc' = "copying"
  /\ UNCHANGED <<written, read_flag, widx, wbig, wflag, nmsg, sent, reader,
                 sock, notify, shutting_down>>

EndCopy ==
  /\ wpc = "copying"
  /\ data' = [data EXCEPT ![widx] =
                [id |-> IF wbig THEN 0 ELSE nmsg, overflow |-> wbig]]
  /\ wpc' = "reset" /\ wflag' = 1
  /\ UNCHANGED <<written, read_flag, widx, wbig, nmsg, sent, reader, sock,
                 notify, shutting_down>>

(* The reader flags go back to 0 one by one, before the chunk is written. *)
ResetFlag ==
  /\ wpc = "reset"
  /\ read_flag' = [read_flag EXCEPT ![widx][wflag] = FALSE]
  /\ wflag' = wflag + 1
  /\ wpc' = IF wflag = NumReaders THEN "mark" ELSE "reset"
  /\ UNCHANGED <<written, data, widx, wbig, nmsg, sent, reader, sock, notify,
                 shutting_down>>

MarkWritten ==
  /\ wpc = "mark"
  /\ written' = [written EXCEPT ![widx] = TRUE]
  /\ widx' = (widx + 1) % MaxChunks
  /\ sent' = sent + 1
  /\ wpc' = IF wbig THEN "send" ELSE "notify"
  /\ UNCHANGED <<read_flag, data, wbig, wflag, nmsg, reader, sock, notify,
                 shutting_down>>

(* A payload that does not fit is published only after its chunk is marked. *)
SendOverflow ==
  /\ wpc = "send"
  /\ sock' = [r \in Readers |-> Append(sock[r], nmsg)]
  /\ wpc' = "notify"
  /\ UNCHANGED <<written, read_flag, data, widx, wbig, wflag, nmsg, sent,
                 reader, notify, shutting_down>>

(* SpinCondition.notify: the publish socket has room for one ping, and may  *)
(* drop it for any reader.                                                 *)
Notify ==
  /\ wpc = "notify"
  /\ \E dropped \in SUBSET Readers :
       notify' = [r \in Readers |-> notify[r] \/ r \notin dropped]
  /\ wpc' = "idle"
  /\ UNCHANGED <<written, read_flag, data, widx, wbig, wflag, nmsg, sent,
                 reader, sock, shutting_down>>

(***************************************************************************)
(* A reader.  While its chunk is not readable it spins, or parks in the    *)
(* poller until a ping, a cancellation or the recheck interval.            *)
(***************************************************************************)
CanRead(r) == written[ridx[r]] /\ ~read_flag[ridx[r]][r]

Ring == <<written, read_flag, data, writer, sock>>

(* Mutant: the chunk is marked read before it is decoded. *)
AcquireReadMarks(r) ==
  /\ rpc[r] = "check" /\ CanRead(r)
  /\ read_flag' = [read_flag EXCEPT ![ridx[r]][r] = TRUE]
  /\ rpc' = [rpc EXCEPT ![r] = "reading"]
  /\ UNCHANGED <<written, data, writer, sock, ridx, seen, last, notify,
                 shutting_down>>

AcquireRead(r) ==
  /\ rpc[r] = "check" /\ CanRead(r)
  /\ rpc' = [rpc EXCEPT ![r] = "reading"]
  /\ UNCHANGED <<Ring, ridx, seen, last, notify, shutting_down>>

Park(r) ==
  /\ rpc[r] = "check" /\ ~CanRead(r)
  /\ rpc' = [rpc EXCEPT ![r] = "parked"]
  /\ UNCHANGED <<Ring, ridx, seen, last, notify, shutting_down>>

(* Mutant: the shutdown flag is not looked at. *)
ResumeAlways(r) == rpc' = [rpc EXCEPT ![r] = "check"]

(* After wait returns, in idle mode or at once in busy mode: raise if the   *)
(* queue is shutting down, otherwise look at the flags again.              *)
Resume(r) ==
  rpc' = [rpc EXCEPT ![r] = IF shutting_down[r] THEN "stopped" ELSE "check"]

SpinCancelled(r) ==
  /\ rpc[r] = "check" /\ ~CanRead(r) /\ shutting_down[r]
  /\ Resume(r)
  /\ UNCHANGED <<Ring, ridx, seen, last, notify, shutting_down>>

WakeOnCancel(r) ==
  /\ rpc[r] = "parked" /\ shutting_down[r]
  /\ Resume(r)
  /\ UNCHANGED <<Ring, ridx, seen, last, notify, shutting_down>>

WakeOnNotify(r) ==
  /\ rpc[r] = "parked" /\ ~shutting_down[r] /\ notify[r]
  /\ notify' = [notify EXCEPT ![r] = FALSE]
  /\ Resume(r)
  /\ UNCHANGED <<Ring, ridx, seen, last, shutting_down>>

(* Mutant: a parked reader waits for the ping. *)
WakeNever(r) == FALSE /\ UNCHANGED vars

WakeOnRecheck(r) ==
  /\ rpc[r] = "parked" /\ ~shutting_down[r] /\ ~notify[r]
  /\ Resume(r)
  /\ UNCHANGED <<Ring, ridx, seen, last, notify, shutting_down>>

(* The caller decodes the chunk in place; leaving the context marks it read *)
(* and moves on.  A message too big for the chunk is still to be received.  *)
ReleaseRead(r) ==
  LET c == ridx[r] IN
  /\ rpc[r] = "reading"
  /\ read_flag' = [read_flag EXCEPT ![c][r] = TRUE]
  /\ ridx' = [ridx EXCEPT ![r] = (c + 1) % MaxChunks]
  /\ seen' = [seen EXCEPT ![r] = @ + 1]
  /\ rpc' = [rpc EXCEPT ![r] = IF data[c].overflow THEN "recv" ELSE "check"]
  /\ last' = [last EXCEPT ![r] = IF data[c].overflow THEN @ ELSE data[c].id]
  /\ UNCHANGED <<written, data, writer, sock, notify, shutting_down>>

RecvOverflow(r) ==
  /\ rpc[r] = "recv" /\ sock[r] # <<>>
  /\ last' = [last EXCEPT ![r] = Head(sock[r])]
  /\ sock' = [sock EXCEPT ![r] = Tail(@)]
  /\ rpc' = [rpc EXCEPT ![r] = "check"]
  /\ UNCHANGED <<written, read_flag, data, writer, ridx, seen, notify,
                 shutting_down>>

(* The poll for the payload times out: dequeue raises, and the caller's     *)
(* next dequeue starts at the next chunk.                                  *)
RecvTimeout(r) ==
  /\ rpc[r] = "recv" /\ r \in TimedReaders /\ sock[r] = <<>>
  /\ rpc' = [rpc EXCEPT ![r] = "check"]
  /\ UNCHANGED <<Ring, ridx, seen, last, notify, shutting_down>>

(* shutdown, called by another thread of the reader's process *)
Shutdown(r) ==
  /\ ~shutting_down[r]
  /\ shutting_down' = [shutting_down EXCEPT ![r] = TRUE]
  /\ UNCHANGED <<Ring, reader, notify>>

WriterStep ==
  \/ AcquireWrite
  \/ BeginCopy
  \/ EndCopy
  \/ ResetFlag
  \/ MarkWritten
  \/ SendOverflow
  \/ Notify

ReaderStep(r) ==
  \/ AcquireRead(r)
  \/ Park(r)
  \/ SpinCancelled(r)
  \/ WakeOnCancel(r)
  \/ WakeOnNotify(r)
  \/ WakeOnRecheck(r)
  \/ ReleaseRead(r)
  \/ RecvOverflow(r)
  \/ RecvTimeout(r)

Next ==
  \/ \E big \in BOOLEAN : Enqueue(big)
  \/ WriterStep
  \/ \E r \in Readers : ReaderStep(r) \/ Shutdown(r)

(* An enqueue under way and the readers' threads keep running; nobody has  *)
(* to call enqueue or shutdown, and no ping has to arrive.                 *)
Fairness ==
  /\ WF_vars(WriterStep)
  /\ \A r \in Readers : WF_vars(ReaderStep(r))

Spec == Init /\ [][Next]_vars /\ Fairness

(***************************************************************************)
(* Properties                                                              *)
(***************************************************************************)

(* Every dequeue of a reader without a timeout returns the next message:   *)
(* none is lost, repeated, overtaken or torn, whether it came through the  *)
(* chunk or through the overflow socket (acquire_write, acquire_read,      *)
(* enqueue, dequeue).                                                      *)
InOrder(r) == last[r] = IF rpc[r] = "recv" THEN seen[r] - 1 ELSE seen[r]

UntimedInOrder == \A r \in Readers \ TimedReaders : InOrder(r)

(* The chunks follow the abstract queue: the writer never reuses a chunk a *)
(* reader has not released, and a reader never takes an unpublished one.   *)
Queue == INSTANCE BroadcastQueue
           WITH Capacity <- MaxChunks, taken <- seen

QueueSpec == Queue!Spec

(* The ring is also the flow control of the overflow socket: a reader that *)
(* waits for its payloads never has more of them queued than the ring has  *)
(* chunks, so the socket's high-water mark cannot drop one.                *)
OverflowBounded ==
  \A r \in Readers \ TimedReaders :
    Len(sock[r]) <= MaxChunks + (IF rpc[r] = "recv" THEN 1 ELSE 0)

(* Whatever pings are lost, a published message reaches every reader that  *)
(* is not shut down, and a writer waiting for a chunk gets one unless some *)
(* reader is shut down (SHM_READER_RECHECK_INTERVAL_MS).                   *)
Delivery ==
  /\ \A r \in Readers :
       (sent > seen[r]) ~> (sent = seen[r] \/ shutting_down[r])
  /\ (nmsg > sent) ~> (nmsg = sent \/ \E q \in Readers : shutting_down[q])

(* A reader told to shut down does stop, even when it is parked and no     *)
(* message will ever come (shutdown, SpinCondition.cancel).                *)
ShutdownStops ==
  \A r \in Readers : shutting_down[r] ~> (rpc[r] = "stopped")
=============================================================================
