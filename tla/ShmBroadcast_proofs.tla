------------------------ MODULE ShmBroadcast_proofs ------------------------
(***************************************************************************)
(* The shared-memory ring is a bounded broadcast queue, for any number of  *)
(* readers, chunks and messages: the flags alone keep the writer out of    *)
(* chunks that are still to be read, and the readers out of chunks that    *)
(* are not whole; payloads on the overflow socket stay in step with them.  *)
(***************************************************************************)
EXTENDS ShmBroadcast, SequenceTheorems, TLAPS

(* The writer owns its chunk. *)
Claimed == wpc \in {"claimed", "copying", "reset", "mark"}

(* The message that chunk c holds, or held before the writer claimed it;   *)
(* not positive when the writer has not come to c yet.                     *)
Msg(c) == sent + 1 - (IF c < widx THEN widx - c ELSE MaxChunks + widx - c)

(* The chunk of the message after the n-th, for n in reach of the ring *)
At(n) == IF sent - n <= widx THEN widx - (sent - n)
                             ELSE widx - (sent - n) + MaxChunks

(* Chunks that hold a whole message *)
Full(c) == Msg(c) >= 1 /\ ~(Claimed /\ c = widx)

(* Readers and writer are at most one round apart; a claimed chunk has     *)
(* been released by all readers.                                           *)
Positions ==
  /\ nmsg = IF wpc \in {"idle", "send", "notify"} THEN sent ELSE sent + 1
  /\ wpc \in {"send", "notify"} => sent >= 1
  /\ \A r \in Readers :
       /\ seen[r] <= sent /\ sent <= seen[r] + MaxChunks
       /\ ridx[r] = At(seen[r])
       /\ Claimed => sent < seen[r] + MaxChunks
       /\ rpc[r] = "reading" => seen[r] < sent

(* The flags say what the counts say, but for the chunk being reset. *)
Flags ==
  /\ \A c \in Chunks : written[c] <=> Full(c)
  /\ \A c \in Chunks, r \in Readers :
       (Msg(c) >= 1 /\ ~(c = widx /\ wpc \in {"reset", "mark"}))
         => (read_flag[c][r] <=> seen[r] >= Msg(c))
  /\ wpc = "reset" => /\ wflag <= NumReaders
                      /\ \A r \in 1..(wflag - 1) : ~read_flag[widx][r]
  /\ wpc = "mark" => \A r \in Readers : ~read_flag[widx][r]

RingInv == TypeOK /\ Positions /\ Flags

(* A whole chunk holds its own message, or says that the payload is on the *)
(* socket.                                                                 *)
Contents ==
  /\ \A c \in Chunks : Full(c) => data[c].overflow \/ data[c].id = Msg(c)
  /\ wpc \in {"reset", "mark"} =>
       /\ data[widx].overflow = wbig
       /\ ~wbig => data[widx].id = nmsg

Owed(r) == IF rpc[r] = "recv" THEN 1 ELSE 0

(* The last message whose payload, if it has one, is on the sockets *)
Posted == IF wpc = "send" THEN sent - 1 ELSE sent

(* The socket of a reader that waits for its payloads holds, in order,      *)
(* those of the messages it has not taken yet, and no others.              *)
Payloads(r) ==
  LET q == sock[r] IN
  /\ \A i, j \in 1..Len(q) : i <= j => q[j] - q[i] >= j - i
  /\ \A i \in 1..Len(q) :
       /\ seen[r] - Owed(r) < q[i] /\ q[i] <= Posted
       /\ seen[r] < q[i] => data[At(q[i] - 1)].overflow
  /\ \A m \in 1..Posted :
       (seen[r] < m /\ data[At(m - 1)].overflow) => \E i \in 1..Len(q) : q[i] = m
  /\ (rpc[r] = "recv" /\ seen[r] <= Posted) => \E i \in 1..Len(q) : q[i] = seen[r]
  /\ seen[r] > Posted => rpc[r] = "recv"

SocketInv ==
  /\ Contents
  /\ wpc = "send" => wbig /\ data[At(sent - 1)].overflow
  /\ \A r \in Readers \ TimedReaders : Payloads(r) /\ InOrder(r)


-----------------------------------------------------------------------------
(* Arithmetic of the ring *)

(* current_idx moves to the next chunk, or back to the first one. *)
LEMMA NextChunk ==
  ASSUME NEW c \in Chunks
  PROVE  (c + 1) % MaxChunks = IF c + 1 = MaxChunks THEN 0 ELSE c + 1
  BY RingAssumption DEF Chunks

(* Chunks hold different messages, of the last round; Msg and At are       *)
(* inverse to each other.                                                  *)
LEMMA RingArithmetic ==
  ASSUME TypeOK
  PROVE  /\ \A c \in Chunks : Msg(c) \in Int /\ Msg(c) <= sent
                              /\ sent < Msg(c) + MaxChunks
         /\ \A c, d \in Chunks : Msg(c) = Msg(d) => c = d
         /\ Msg(widx) = sent + 1 - MaxChunks
         /\ \A n \in Nat : (n <= sent /\ sent <= n + MaxChunks) => At(n) \in Chunks
         /\ \A n \in Nat : (n < sent /\ sent <= n + MaxChunks) => Msg(At(n)) = n + 1
         /\ At(sent) = widx
  BY RingAssumption DEF TypeOK, Chunks, Msg, At

(* When the writer moves on, its chunk becomes the newest and the others    *)
(* keep their messages.                                                    *)
LEMMA RingAdvance ==
  ASSUME TypeOK, sent' = sent + 1, widx' = (widx + 1) % MaxChunks
  PROVE  /\ widx' \in Chunks
         /\ \A c \in Chunks : Msg(c)' = IF c = widx THEN sent + 1 ELSE Msg(c)
         /\ \A n \in Nat : (n <= sent /\ sent < n + MaxChunks) => At(n)' = At(n)
<1>1. widx \in Chunks /\ sent \in Nat /\ MaxChunks \in Nat \ {0}
  BY RingAssumption DEF TypeOK
<1>2. widx' = IF widx + 1 = MaxChunks THEN 0 ELSE widx + 1
  BY <1>1, NextChunk
<1> QED
  BY <1>1, <1>2 DEF Chunks, Msg, At
-----------------------------------------------------------------------------
(* The ring: one lemma for each kind of step *)

(* Nothing is written and nobody has read. *)
LEMMA RingInit == Init => RingInv
<1> SUFFICES ASSUME Init PROVE RingInv
  OBVIOUS
<1>1. TypeOK
  <2>1. <<>> \in Seq(1..MaxMsgs) /\ 0 \in Chunks /\ 0 \in 0..MaxMsgs
        /\ 1 \in 1..(NumReaders + 1)
    BY RingAssumption DEF Chunks
  <2>2. [r \in Readers |-> FALSE] \in [Readers -> BOOLEAN]
    OBVIOUS
  <2> QED
    BY <2>1, <2>2 DEF Init, TypeOK
<1>2. sent = 0 /\ widx = 0 /\ wpc = "idle" /\ nmsg = 0
      /\ seen = [r \in Readers |-> 0] /\ ridx = [r \in Readers |-> 0]
      /\ rpc = [r \in Readers |-> "check"] /\ written = [c \in Chunks |-> FALSE]
  BY DEF Init
<1>3. Positions
  BY <1>2, RingAssumption DEF Positions, At, Claimed
<1>4. \A c \in Chunks : Msg(c) < 1
  BY <1>2, RingAssumption DEF Msg, Chunks
<1>5. Flags
  BY <1>2, <1>4, RingAssumption, RingArithmetic, <1>1 DEF Flags, Full, Claimed
<1> QED
  BY <1>1, <1>3, <1>5 DEF RingInv

(* The steps of enqueue inside a claimed chunk, and the ones that do not    *)
(* touch the flags                                                         *)
LEMMA RingWriter ==
  ASSUME RingInv,
         (\E big \in BOOLEAN : Enqueue(big)) \/ BeginCopy \/ EndCopy
           \/ SendOverflow \/ Notify
  PROVE  RingInv'
<1> USE RingAssumption DEF RingInv
<1>1. TypeOK'
  <2>1. ASSUME NEW big \in BOOLEAN, Enqueue(big) PROVE TypeOK'
    BY <2>1 DEF TypeOK, Enqueue, reader
  <2>2. CASE BeginCopy
    BY <2>2 DEF TypeOK, BeginCopy, reader
  <2>3. CASE EndCopy
    BY <2>3 DEF TypeOK, EndCopy, reader
  <2>4. CASE SendOverflow
    <3>1. nmsg \in 1..MaxMsgs
      BY <2>4 DEF TypeOK, SendOverflow, Positions
    <3> QED
      BY <2>4, <3>1 DEF TypeOK, SendOverflow, reader
  <2>5. CASE Notify
    BY <2>5 DEF TypeOK, Notify, reader
  <2> QED
    BY <2>1, <2>2, <2>3, <2>4, <2>5
<1>2. /\ UNCHANGED <<widx, sent, written, read_flag, reader>>
      /\ Claimed' = Claimed
      /\ wpc' \in {"reset", "mark"} <=> wpc' = "reset"
      /\ wpc' = "reset" => Claimed /\ wflag' = 1
      /\ wpc \notin {"reset", "mark"}
      /\ nmsg' = IF wpc' \in {"idle", "send", "notify"} THEN sent ELSE sent + 1
      /\ wpc' \in {"send", "notify"} => sent >= 1
  BY DEF TypeOK, Positions, Claimed, Enqueue, BeginCopy, EndCopy, SendOverflow,
         Notify
<1>3. Positions'
  BY <1>2 DEF Positions, At, Claimed, reader
<1>4. \A c \in Chunks : Msg(c)' = Msg(c) /\ Full(c)' = Full(c)
  BY <1>2 DEF Msg, Full
<1>5. Flags'
  <2>1. \A c \in Chunks : (written[c] <=> Full(c))'
    BY <1>2, <1>4 DEF Flags
  <2>2. \A c \in Chunks, r \in Readers :
          Msg(c)' >= 1 => (read_flag'[c][r] <=> seen'[r] >= Msg(c)')
    BY <1>2, <1>4 DEF Flags, reader
  <2> QED
    BY <1>2, <2>1, <2>2 DEF Flags
<1> QED
  BY <1>1, <1>3, <1>5

(* acquire_write claims the chunk only if every reader has released it. *)
LEMMA RingAcquireWrite ==
  ASSUME RingInv, AcquireWrite
  PROVE  RingInv'
<1> USE RingAssumption DEF RingInv
<1>1. TypeOK'
  BY DEF TypeOK, AcquireWrite, reader
<1>2. UNCHANGED <<widx, sent, nmsg, read_flag, reader>>
      /\ wpc = "acquire" /\ wpc' = "claimed"
      /\ written' = [written EXCEPT ![widx] = FALSE]
  BY DEF AcquireWrite
<1>3. \A c \in Chunks : Msg(c)' = Msg(c)
  BY <1>2 DEF Msg
<1>4. \A r \in Readers : sent < seen[r] + MaxChunks
  <2>1. Msg(widx) = sent + 1 - MaxChunks /\ widx \in Chunks
    BY RingArithmetic DEF TypeOK
  <2>2. CASE Msg(widx) >= 1
    <3>1. \A r \in Readers : read_flag[widx][r]
      BY <1>2, <2>1, <2>2 DEF AcquireWrite, CanWrite, Flags, Full, Claimed
    <3>2. \A r \in Readers : seen[r] >= Msg(widx)
      BY <1>2, <2>1, <2>2, <3>1 DEF Flags
    <3> QED
      BY <2>1, <3>2 DEF TypeOK
  <2>3. CASE ~(Msg(widx) >= 1)
    BY <2>1, <2>3 DEF TypeOK
  <2> QED
    BY <2>2, <2>3
<1>5. Positions'
  BY <1>2, <1>4 DEF Positions, At, Claimed, reader
<1>6. Flags'
  BY <1>2, <1>3 DEF Flags, Full, Claimed, TypeOK, reader
<1> QED
  BY <1>1, <1>5, <1>6

(* The reader flags of the claimed chunk are reset one by one. *)
LEMMA RingResetFlag ==
  ASSUME RingInv, ResetFlag
  PROVE  RingInv'
<1> USE RingAssumption DEF RingInv
<1>1. /\ wflag \in Readers /\ widx \in Chunks
      /\ wflag \in 1..NumReaders /\ wflag' = wflag + 1
      /\ wpc = "reset" /\ wpc' = IF wflag = NumReaders THEN "mark" ELSE "reset"
      /\ read_flag' = [read_flag EXCEPT ![widx][wflag] = FALSE]
      /\ UNCHANGED <<widx, sent, nmsg, written, reader>>
  BY DEF TypeOK, ResetFlag, Flags, Readers
<1>2. TypeOK'
  <2>1. read_flag' \in [Chunks -> [Readers -> BOOLEAN]]
    BY <1>1 DEF TypeOK
  <2> QED
    BY <1>1, <2>1, SMTT(30) DEF TypeOK, ResetFlag, reader
<1>3. Positions'
  BY <1>1 DEF Positions, At, Claimed, reader
<1>4. \A c \in Chunks : Msg(c)' = Msg(c) /\ Full(c)' = Full(c)
  BY <1>1 DEF Msg, Full, Claimed
<1>5. \A c \in Chunks, r \in Readers :
        read_flag'[c][r] = IF c = widx /\ r = wflag THEN FALSE ELSE read_flag[c][r]
  BY <1>1 DEF TypeOK
<1>6. Flags'
  <2>1. \A c \in Chunks : (written[c] <=> Full(c))'
    BY <1>1, <1>4 DEF Flags
  <2>2. \A c \in Chunks, r \in Readers :
          (Msg(c)' >= 1 /\ c # widx) => (read_flag'[c][r] <=> seen'[r] >= Msg(c)')
    BY <1>1, <1>4, <1>5 DEF Flags, reader
  <2>3. \A r \in 1..wflag : ~read_flag'[widx][r]
    <3> SUFFICES ASSUME NEW r \in 1..wflag PROVE ~read_flag'[widx][r]
      OBVIOUS
    <3>1. r \in Readers /\ (r = wflag \/ r \in 1..(wflag - 1))
      BY <1>1 DEF Readers
    <3>2. r # wflag => ~read_flag[widx][r]
      BY <1>1, <3>1 DEF Flags
    <3> QED
      BY <1>1, <1>5, <3>1, <3>2
  <2> QED
    BY <1>1, <2>1, <2>2, <2>3 DEF Flags, Readers
<1> QED
  BY <1>2, <1>3, <1>6

(* The chunk is published: readers see it with their flags reset. *)
LEMMA RingMarkWritten ==
  ASSUME RingInv, MarkWritten
  PROVE  RingInv'
<1> USE RingAssumption DEF RingInv
<1>1. /\ sent' = sent + 1 /\ widx' = (widx + 1) % MaxChunks
      /\ wpc = "mark" /\ wpc' \in {"send", "notify"} /\ ~Claimed' /\ Claimed
      /\ written' = [written EXCEPT ![widx] = TRUE] /\ widx \in Chunks
      /\ nmsg = sent + 1
      /\ UNCHANGED <<read_flag, nmsg, reader>>
  BY DEF TypeOK, MarkWritten, Claimed, Positions
<1>2. /\ widx' \in Chunks
      /\ \A c \in Chunks : Msg(c)' = IF c = widx THEN sent + 1 ELSE Msg(c)
      /\ \A n \in Nat : (n <= sent /\ sent < n + MaxChunks) => At(n)' = At(n)
  BY <1>1, RingAdvance
<1>3. TypeOK'
  BY <1>1, <1>2 DEF TypeOK, MarkWritten, reader
<1>4. Positions'
  <2>1. ASSUME NEW r \in Readers
        PROVE  /\ seen[r] <= sent + 1 /\ sent + 1 <= seen[r] + MaxChunks
               /\ ridx[r] = At(seen[r])'
               /\ rpc[r] = "reading" => seen[r] < sent + 1
    BY <1>1, <1>2 DEF Positions, TypeOK, reader
  <2> QED
    BY <1>1, <1>3, <2>1 DEF Positions, reader, TypeOK
<1>5. Flags'
  <2>1. \A c \in Chunks : written'[c] <=> Full(c)'
    BY <1>1, <1>2 DEF Flags, Full, TypeOK
  <2>2. ASSUME NEW c \in Chunks, NEW r \in Readers, Msg(c)' >= 1
        PROVE  read_flag'[c][r] <=> seen'[r] >= Msg(c)'
    <3>1. CASE c = widx
      BY <1>1, <1>2, <3>1 DEF Flags, Positions, TypeOK, reader
    <3>2. CASE c # widx
      BY <1>1, <1>2, <2>2, <3>2 DEF Flags, TypeOK, reader
    <3> QED
      BY <3>1, <3>2
  <2> QED
    BY <1>1, <2>1, <2>2 DEF Flags
<1> QED
  BY <1>3, <1>4, <1>5

(* A reader that polls, parks, wakes or waits for a payload leaves the ring *)
(* alone; it starts to read only a message it has not read yet.            *)
Waits(r) ==
  \/ AcquireRead(r) \/ Park(r) \/ SpinCancelled(r) \/ WakeOnCancel(r)
  \/ WakeOnNotify(r) \/ WakeOnRecheck(r) \/ RecvOverflow(r) \/ RecvTimeout(r)

LEMMA RingWaits ==
  ASSUME RingInv, NEW r \in Readers, Waits(r)
  PROVE  RingInv'
<1> USE RingAssumption DEF RingInv
<1>1. TypeOK'
  <2>1. CASE RecvOverflow(r)
    <3>1. sock[r] \in Seq(1..MaxMsgs) /\ sock[r] # <<>>
      BY <2>1 DEF RecvOverflow, TypeOK
    <3>2. Head(sock[r]) \in 1..MaxMsgs /\ Tail(sock[r]) \in Seq(1..MaxMsgs)
      BY <3>1, HeadTailProperties
    <3> QED
      BY <2>1, <3>2, SMTT(30) DEF RecvOverflow, TypeOK, writer
  <2>2. CASE AcquireRead(r) \/ Park(r) \/ RecvTimeout(r)
    BY <2>2 DEF AcquireRead, Park, RecvTimeout, TypeOK, Ring, writer
  <2>3. CASE SpinCancelled(r) \/ WakeOnCancel(r) \/ WakeOnNotify(r) \/ WakeOnRecheck(r)
    BY <2>3 DEF SpinCancelled, WakeOnCancel, WakeOnNotify, WakeOnRecheck, Resume,
                TypeOK, Ring, writer
  <2> QED
    BY <2>1, <2>2, <2>3 DEF Waits
<1>2. /\ UNCHANGED <<written, read_flag, writer, ridx, seen>>
      /\ \A q \in Readers : rpc'[q] = "reading" => rpc[q] = "reading" \/ q = r
      /\ rpc'[r] = "reading" => CanRead(r)
  BY DEF Waits, AcquireRead, Park, SpinCancelled, WakeOnCancel, WakeOnNotify,
         WakeOnRecheck, RecvOverflow, RecvTimeout, Resume, TypeOK, Ring
<1>3. CanRead(r) => seen[r] < sent
  <2> SUFFICES ASSUME CanRead(r), seen[r] = sent PROVE FALSE
    BY DEF Positions, TypeOK
  <2>1. ridx[r] = widx /\ widx \in Chunks /\ Msg(widx) = sent + 1 - MaxChunks
    BY RingArithmetic DEF Positions, TypeOK
  <2>2. Msg(widx) >= 1 /\ ~Claimed
    BY <2>1 DEF CanRead, Flags, Full
  <2>3. ~(seen[r] >= Msg(widx))
    BY <2>1, <2>2 DEF CanRead, Flags, Claimed
  <2> QED
    BY <2>1, <2>3 DEF TypeOK
<1>4. Positions'
  BY <1>2, <1>3 DEF Positions, At, Claimed, writer
<1>5. Flags'
  BY <1>2 DEF Flags, Full, Msg, Claimed, writer
<1> QED
  BY <1>1, <1>4, <1>5

(* Leaving the chunk marks it read: the flag of the message just taken. *)
LEMMA RingReleaseRead ==
  ASSUME RingInv, NEW r \in Readers, ReleaseRead(r)
  PROVE  RingInv'
<1> USE RingAssumption DEF RingInv
<1>1. /\ rpc[r] = "reading" /\ ridx[r] \in Chunks
      /\ read_flag' = [read_flag EXCEPT ![ridx[r]][r] = TRUE]
      /\ ridx' = [ridx EXCEPT ![r] = (ridx[r] + 1) % MaxChunks]
      /\ seen' = [seen EXCEPT ![r] = @ + 1]
      /\ \A q \in Readers : rpc'[q] = "reading" => rpc[q] = "reading" /\ q # r
      /\ UNCHANGED <<written, data, writer, sock, notify, shutting_down>>
  BY DEF ReleaseRead, TypeOK
<1>2. /\ seen[r] < sent /\ sent <= seen[r] + MaxChunks /\ seen[r] \in Nat
      /\ ridx[r] = At(seen[r])
      /\ Claimed => sent < seen[r] + MaxChunks
  BY <1>1 DEF Positions, TypeOK
<1>3. Msg(ridx[r]) = seen[r] + 1
  BY <1>2, RingArithmetic
<1>4. (ridx[r] + 1) % MaxChunks = At(seen[r] + 1)
  <2>1. (ridx[r] + 1) % MaxChunks
          = IF ridx[r] + 1 = MaxChunks THEN 0 ELSE ridx[r] + 1
    BY <1>1, NextChunk
  <2>2. /\ sent \in Nat /\ widx \in 0..(MaxChunks - 1) /\ seen[r] \in Nat
        /\ sent - (seen[r] + 1) = sent - seen[r] - 1
    BY <1>2 DEF TypeOK, Chunks
  <2>3. CASE sent - seen[r] <= widx
    BY <1>2, <2>1, <2>2, <2>3 DEF At
  <2>4. CASE sent - seen[r] = widx + 1
    BY <1>2, <2>1, <2>2, <2>4 DEF At
  <2>5. CASE sent - seen[r] > widx + 1
    BY <1>2, <2>1, <2>2, <2>5 DEF At
  <2> QED
    BY <2>2, <2>3, <2>4, <2>5
<1>5. TypeOK'
  <2>1. At(seen[r] + 1) \in Chunks /\ seen[r] + 1 \in 0..MaxMsgs
    <3>1. /\ sent \in 0..MaxMsgs /\ seen[r] + 1 \in Nat
          /\ seen[r] + 1 <= sent /\ sent <= seen[r] + 1 + MaxChunks
      BY <1>2 DEF TypeOK
    <3> QED
      BY <3>1, RingArithmetic
  <2>2. read_flag' \in [Chunks -> [Readers -> BOOLEAN]]
    BY <1>1 DEF TypeOK
  <2>3. ridx' \in [Readers -> Chunks] /\ seen' \in [Readers -> 0..MaxMsgs]
    BY <1>1, <1>4, <2>1 DEF TypeOK
  <2>4. /\ rpc' \in [Readers -> {"check", "parked", "reading", "recv", "stopped"}]
        /\ last' \in [Readers -> 0..MaxMsgs]
    BY <1>1 DEF ReleaseRead, TypeOK
  <2> QED
    BY <1>1, <2>2, <2>3, <2>4 DEF TypeOK, writer
<1>6. Positions'
  <2>1. ASSUME NEW q \in Readers
        PROVE  /\ seen'[q] <= sent /\ sent <= seen'[q] + MaxChunks
               /\ ridx'[q] = At(seen'[q])
               /\ Claimed => sent < seen'[q] + MaxChunks
               /\ rpc'[q] = "reading" => seen'[q] < sent
    <3>1. CASE q = r
      BY <1>1, <1>2, <1>4, <3>1 DEF TypeOK
    <3>2. CASE q # r
      BY <1>1, <3>2 DEF Positions, TypeOK
    <3> QED
      BY <3>1, <3>2
  <2> QED
    BY <1>1, <2>1 DEF Positions, At, Claimed, writer
<1>7. \A c \in Chunks : Msg(c)' = Msg(c) /\ Full(c)' = Full(c)
  BY <1>1 DEF Msg, Full, Claimed, writer
<1>8. Claimed => ridx[r] # widx
  BY <1>2, <1>3, RingArithmetic DEF TypeOK
<1>9. Flags'
  <2>1. \A c \in Chunks, q \in Readers :
          read_flag'[c][q] = IF c = ridx[r] /\ q = r THEN TRUE ELSE read_flag[c][q]
    BY <1>1 DEF TypeOK
  <2>2. \A c \in Chunks : c # ridx[r] => Msg(c) # seen[r] + 1
    BY <1>1, <1>3, RingArithmetic
  <2>3. ASSUME NEW c \in Chunks, NEW q \in Readers, Msg(c) >= 1,
               ~(c = widx /\ wpc \in {"reset", "mark"})
        PROVE  read_flag'[c][q] <=> seen'[q] >= Msg(c)
    <3>1. read_flag[c][q] <=> seen[q] >= Msg(c)
      BY <2>3 DEF Flags
    <3>2. Msg(c) \in Int /\ seen[q] \in Nat
      <4>1. Msg(c) \in Int
        BY RingArithmetic
      <4>2. seen[q] \in Nat
        BY DEF TypeOK
      <4> QED
        BY <4>1, <4>2
    <3>3. CASE q # r
      BY <1>1, <2>1, <3>1, <3>3 DEF TypeOK
    <3>4. CASE q = r
      BY <1>1, <1>3, <2>1, <2>2, <3>1, <3>2, <3>4 DEF TypeOK
    <3> QED
      BY <3>3, <3>4
  <2>4. wpc \in {"reset", "mark"} =>
          \A q \in Readers : read_flag'[widx][q] = read_flag[widx][q]
    BY <1>8, <2>1 DEF Claimed, TypeOK
  <2>5. \A c \in Chunks : (written[c] <=> Full(c))'
    BY <1>1, <1>7 DEF Flags
  <2>6. wpc = "reset" => /\ wflag <= NumReaders
                         /\ \A q \in 1..(wflag - 1) : ~read_flag'[widx][q]
    <3> SUFFICES ASSUME wpc = "reset"
                 PROVE  /\ wflag <= NumReaders
                        /\ \A q \in 1..(wflag - 1) : ~read_flag'[widx][q]
      OBVIOUS
    <3>1. \A q \in 1..(wflag - 1) : q \in Readers /\ ~read_flag[widx][q]
      BY DEF Flags, Readers, TypeOK
    <3> QED
      BY <2>4, <3>1 DEF Flags
  <2>7. wpc = "mark" => \A q \in Readers : ~read_flag'[widx][q]
    BY <2>4 DEF Flags
  <2>8. wpc' = wpc /\ widx' = widx /\ wflag' = wflag
    BY <1>1 DEF writer
  <2> QED
    BY <1>7, <2>3, <2>5, <2>6, <2>7, <2>8 DEF Flags
<1> QED
  BY <1>5, <1>6, <1>9

(* Shutdown raises a flag of the reader's process, and nothing else. *)
LEMMA RingShutdown ==
  ASSUME RingInv, (\E r \in Readers : Shutdown(r)) \/ UNCHANGED vars
  PROVE  RingInv'
<1>1. /\ UNCHANGED <<Ring, reader, notify>>
      /\ shutting_down' \in [Readers -> BOOLEAN]
  BY DEF Shutdown, vars, Ring, RingInv, TypeOK
<1>2. TypeOK'
  BY <1>1 DEF RingInv, TypeOK, Ring, reader, writer
<1>3. Positions'
  BY <1>1 DEF RingInv, Positions, At, Claimed, Ring, reader, writer
<1>4. Flags'
  BY <1>1 DEF RingInv, Flags, Full, Msg, Claimed, Ring, reader, writer
<1> QED
  BY <1>2, <1>3, <1>4 DEF RingInv

(* Flags and counts agree at every step of writer and readers. *)
LEMMA RingNext == RingInv /\ [Next]_vars => RingInv'
<1> SUFFICES ASSUME RingInv, [Next]_vars PROVE RingInv'
  OBVIOUS
<1>1. CASE (\E big \in BOOLEAN : Enqueue(big)) \/ WriterStep
  BY <1>1, RingWriter, RingAcquireWrite, RingResetFlag, RingMarkWritten
  DEF WriterStep
<1>2. ASSUME NEW r \in Readers, ReaderStep(r) PROVE RingInv'
  BY <1>2, RingWaits, RingReleaseRead DEF ReaderStep, Waits
<1>3. CASE (\E r \in Readers : Shutdown(r)) \/ UNCHANGED vars
  BY <1>3, RingShutdown
<1> QED
  BY <1>1, <1>2, <1>3 DEF Next

(* The flags and the positions of writer and readers agree in every         *)
(* reachable state of MessageQueue, for any number of readers and chunks.   *)
THEOREM RingInductive == Spec => []RingInv
  BY RingInit, RingNext, PTL DEF Spec

(* Type correctness of the ring, its sockets and its readers *)
THEOREM RingTypeOK == Spec => []TypeOK
<1>1. RingInv => TypeOK
  BY DEF RingInv
<1> QED
  BY <1>1, RingInductive, PTL

(* The refinement, step by step: marking a chunk written is Publish,        *)
(* leaving a chunk is Take, everything else stutters.                      *)
LEMMA QueueStep == RingInv /\ [Next]_vars => [Queue!Next]_(Queue!vars)
<1> SUFFICES ASSUME RingInv, [Next]_vars PROVE [Queue!Next]_(Queue!vars)
  OBVIOUS
<1> USE DEF Queue!Next, Queue!vars
<1>1. CASE MarkWritten
  <2>1. \A r \in Readers : sent - seen[r] < MaxChunks
    BY <1>1, RingAssumption DEF MarkWritten, RingInv, Positions, Claimed, TypeOK
  <2> QED
    BY <1>1, <2>1 DEF MarkWritten, Queue!Publish, reader
<1>2. ASSUME NEW r \in Readers, ReleaseRead(r) PROVE [Queue!Next]_(Queue!vars)
  <2>1. seen[r] < sent
    BY <1>2 DEF ReleaseRead, RingInv, Positions
  <2> QED
    BY <1>2, <2>1 DEF ReleaseRead, Queue!Take, writer
<1>3. CASE (\E big \in BOOLEAN : Enqueue(big)) \/ AcquireWrite \/ BeginCopy
             \/ EndCopy \/ ResetFlag \/ SendOverflow \/ Notify
  BY <1>3 DEF Enqueue, AcquireWrite, BeginCopy, EndCopy, ResetFlag,
              SendOverflow, Notify, reader
<1>4. ASSUME NEW r \in Readers, Waits(r) \/ Shutdown(r)
      PROVE  [Queue!Next]_(Queue!vars)
  BY <1>4 DEF Waits, AcquireRead, Park, SpinCancelled, WakeOnCancel,
              WakeOnNotify, WakeOnRecheck, RecvOverflow, RecvTimeout, Shutdown,
              Ring, writer, reader
<1>5. CASE UNCHANGED vars
  BY <1>5 DEF vars, writer, reader
<1> QED
  BY <1>1, <1>2, <1>3, <1>4, <1>5 DEF Next, WriterStep, ReaderStep, Waits

(* The ring implements the bounded broadcast queue: every reader takes every *)
(* message once and in order, and the writer never laps a reader.           *)
THEOREM RingRefines == Spec => QueueSpec
<1>1. Init => Queue!Init
  BY DEF Init, Queue!Init
<1> QED
  BY <1>1, QueueStep, RingInductive, PTL DEF Spec, QueueSpec, Queue!Spec
-----------------------------------------------------------------------------
(* Payloads on the overflow socket *)

(* A message that reader r has still to take is in a chunk of its own, and  *)
(* the writer does not claim that chunk.                                   *)
LEMMA ChunkOfUnread ==
  ASSUME RingInv, NEW r \in Readers, NEW m \in Nat, seen[r] < m, m <= sent
  PROVE  /\ At(m - 1) \in Chunks /\ Msg(At(m - 1)) = m
         /\ Claimed => At(m - 1) # widx
<1>1. /\ m - 1 \in Nat /\ m - 1 < sent /\ sent <= (m - 1) + MaxChunks
      /\ sent \in Nat /\ seen[r] \in Nat /\ MaxChunks \in Nat
      /\ Claimed => sent < seen[r] + MaxChunks
  BY RingAssumption DEF RingInv, TypeOK, Positions
<1>2. At(m - 1) \in Chunks /\ Msg(At(m - 1)) = m
  <2>1. (m - 1) + 1 = m /\ m - 1 <= sent
    BY <1>1
  <2> QED
    BY <1>1, <2>1, RingArithmetic DEF RingInv
<1>3. Msg(widx) = sent + 1 - MaxChunks
  BY RingArithmetic DEF RingInv
<1>4. Claimed => Msg(widx) # m
  BY <1>1, <1>3
<1> QED
  BY <1>2, <1>4

(* What a step has to leave alone for the socket of r to stay in step *)
LEMMA PayloadsKept ==
  ASSUME RingInv, NEW r \in Readers, Payloads(r), InOrder(r),
         sock'[r] = sock[r], seen'[r] = seen[r], last'[r] = last[r],
         rpc'[r] = "recv" <=> rpc[r] = "recv",
         Posted' = Posted,
         \A m \in 1..Posted : seen[r] < m =>
           (data'[At(m - 1)'].overflow <=> data[At(m - 1)].overflow)
  PROVE  Payloads(r)' /\ InOrder(r)'
<1>1. InOrder(r)'
  BY DEF InOrder
<1>2. Owed(r)' = Owed(r)
  BY DEF Owed
<1>3. sock[r] \in Seq(1..MaxMsgs) /\ seen[r] \in Nat /\ Posted \in Int
  BY RingAssumption DEF RingInv, TypeOK, Posted
<1>4. \A i \in 1..Len(sock[r]) : sock[r][i] \in 1..Posted
  <2>1. \A i \in 1..Len(sock[r]) : sock[r][i] \in 1..MaxMsgs
    BY <1>3, ElementOfSeq
  <2>2. \A i \in 1..Len(sock[r]) : sock[r][i] <= Posted
    BY DEF Payloads
  <2> QED
    BY <1>3, <2>1, <2>2, RingAssumption
<1>5. Payloads(r)'
  <2> DEFINE q == sock[r]
  <2>1. \A i, j \in 1..Len(q) : i <= j => q[j] - q[i] >= j - i
    BY DEF Payloads
  <2>2. \A i \in 1..Len(q) :
          /\ seen[r] - Owed(r) < q[i] /\ q[i] <= Posted
          /\ seen[r] < q[i] => data'[At(q[i] - 1)'].overflow
    BY <1>4 DEF Payloads
  <2>3. \A m \in 1..Posted :
          (seen[r] < m /\ data'[At(m - 1)'].overflow) => \E i \in 1..Len(q) : q[i] = m
    BY DEF Payloads
  <2>4. (rpc[r] = "recv" /\ seen[r] <= Posted) => \E i \in 1..Len(q) : q[i] = seen[r]
    BY DEF Payloads
  <2>5. seen[r] > Posted => rpc[r] = "recv"
    BY DEF Payloads
  <2> QED
    BY <1>2, <2>1, <2>2, <2>3, <2>4, <2>5 DEF Payloads
<1> QED
  BY <1>1, <1>5

(* All sockets are empty and no chunk holds a message. *)
LEMMA SocketInit == Init => SocketInv
<1> SUFFICES ASSUME Init PROVE SocketInv
  OBVIOUS
<1>1. RingInv
  BY RingInit
<1>2. \A c \in Chunks : ~Full(c)
  BY <1>1 DEF RingInv, Flags, Init
<1>3. Contents
  BY <1>2 DEF Contents, Init
<1>4. ASSUME NEW r \in Readers PROVE Payloads(r) /\ InOrder(r)
  <2>1. sock[r] = <<>> /\ Len(sock[r]) = 0 /\ rpc[r] = "check" /\ Posted = 0
        /\ last[r] = 0 /\ seen[r] = 0
    BY DEF Init, Posted
  <2> QED
    BY <2>1 DEF Payloads, InOrder
<1> QED
  BY <1>3, <1>4 DEF SocketInv, Init

(* Steps of enqueue that publish nothing: what they write is in the        *)
(* claimed chunk.                                                          *)
LEMMA SocketWriter ==
  ASSUME RingInv, SocketInv,
         (\E big \in BOOLEAN : Enqueue(big)) \/ AcquireWrite \/ BeginCopy
           \/ EndCopy \/ ResetFlag \/ Notify
  PROVE  SocketInv'
<1>1. /\ UNCHANGED <<widx, sent, sock, reader>> /\ widx \in Chunks
      /\ wpc # "send" /\ wpc' # "send"
      /\ Claimed => Claimed'
      /\ \A c \in Chunks : data'[c] # data[c] => c = widx /\ Claimed
  BY DEF Enqueue, AcquireWrite, BeginCopy, EndCopy, ResetFlag, Notify, Claimed,
         RingInv, TypeOK
<1>2. Contents'
  <2>1. \A c \in Chunks : Msg(c)' = Msg(c)
    BY <1>1 DEF Msg
  <2>2. ASSUME NEW c \in Chunks, Full(c)'
        PROVE  (data[c].overflow \/ data[c].id = Msg(c))'
    <3>1. Full(c) /\ data'[c] = data[c]
      BY <1>1, <2>1, <2>2 DEF Full
    <3> QED
      BY <2>1, <3>1 DEF SocketInv, Contents
  <2>3. wpc' \in {"reset", "mark"} =>
          /\ data'[widx].overflow = wbig'
          /\ ~wbig' => data'[widx].id = nmsg'
    <3>1. CASE EndCopy
      BY <1>1, <3>1 DEF EndCopy, RingInv, TypeOK
    <3>2. CASE ResetFlag
      BY <1>1, <3>2 DEF ResetFlag, SocketInv, Contents
    <3>3. CASE ~EndCopy /\ ~ResetFlag
      BY <3>3 DEF Enqueue, AcquireWrite, BeginCopy, Notify
    <3> QED
      BY <3>1, <3>2, <3>3
  <2> QED
    BY <1>1, <2>2, <2>3 DEF Contents
<1>3. ASSUME NEW r \in Readers \ TimedReaders
      PROVE  Payloads(r)' /\ InOrder(r)'
  <2>1. Posted' = Posted /\ Posted = sent
    BY <1>1 DEF Posted
  <2>2. \A m \in 1..Posted : seen[r] < m =>
          (data'[At(m - 1)'].overflow <=> data[At(m - 1)].overflow)
    <3> SUFFICES ASSUME NEW m \in 1..Posted, seen[r] < m
                 PROVE  data'[At(m - 1)'] = data[At(m - 1)]
      OBVIOUS
    <3>1. At(m - 1)' = At(m - 1)
      BY <1>1 DEF At
    <3>2. At(m - 1) \in Chunks /\ (Claimed => At(m - 1) # widx)
      BY <2>1, ChunkOfUnread DEF RingInv, TypeOK
    <3> QED
      BY <1>1, <3>1, <3>2
  <2> QED
    BY <1>1, <2>1, <2>2, PayloadsKept DEF SocketInv, reader
<1> QED
  BY <1>1, <1>2, <1>3 DEF SocketInv

(* A chunk that is published has its message, or its payload comes next. *)
LEMMA SocketMarkWritten ==
  ASSUME RingInv, SocketInv, MarkWritten
  PROVE  SocketInv'
<1>1. /\ sent' = sent + 1 /\ widx' = (widx + 1) % MaxChunks /\ widx \in Chunks
      /\ wpc = "mark" /\ wpc' = (IF wbig THEN "send" ELSE "notify")
      /\ nmsg = sent + 1 /\ sent \in Nat /\ wbig \in BOOLEAN
      /\ UNCHANGED <<data, nmsg, wbig, reader, sock>>
  BY DEF MarkWritten, RingInv, TypeOK, Positions
<1>2. /\ \A c \in Chunks : Msg(c)' = IF c = widx THEN sent + 1 ELSE Msg(c)
      /\ \A n \in Nat : (n <= sent /\ sent < n + MaxChunks) => At(n)' = At(n)
      /\ At(sent) = widx
  BY <1>1, RingAdvance, RingArithmetic DEF RingInv
<1>3. data[widx].overflow = wbig /\ (~wbig => data[widx].id = sent + 1)
  BY <1>1 DEF SocketInv, Contents
<1>4. Contents'
  <2>1. ASSUME NEW c \in Chunks, Full(c)'
        PROVE  data[c].overflow \/ data[c].id = Msg(c)'
    <3>1. CASE c = widx
      BY <1>1, <1>2, <1>3, <3>1
    <3>2. CASE c # widx
      <4>1. Full(c) /\ Msg(c)' = Msg(c)
        BY <1>2, <2>1, <3>2 DEF Full
      <4> QED
        BY <4>1 DEF SocketInv, Contents
    <3> QED
      BY <3>1, <3>2
  <2> QED
    BY <1>1, <2>1 DEF Contents
<1>5. \A m \in Nat : m = sent + 1 => At(m - 1)' = widx
  <2> SUFFICES ASSUME NEW m \in Nat, m = sent + 1 PROVE At(m - 1)' = widx
    OBVIOUS
  <2>1. m - 1 = sent /\ sent <= sent /\ sent < sent + MaxChunks
    BY <1>1, RingAssumption
  <2>2. At(m - 1)' = At(m - 1)
    BY <1>1, <1>2, <2>1
  <2> QED
    BY <1>2, <2>1, <2>2
<1>6. wpc' = "send" => wbig' /\ data'[At(sent - 1)'].overflow
  BY <1>1, <1>3, <1>5
<1>7. ASSUME NEW r \in Readers \ TimedReaders
      PROVE  Payloads(r)' /\ InOrder(r)'
  <2> DEFINE q == sock[r]
  <2>1. /\ Posted = sent /\ Posted' = IF wbig THEN sent ELSE sent + 1
        /\ q \in Seq(1..MaxMsgs) /\ seen[r] \in Nat
        /\ seen[r] <= sent /\ sent < seen[r] + MaxChunks
        /\ Payloads(r) /\ InOrder(r) /\ MaxChunks \in Nat
    BY <1>1, RingAssumption DEF Posted, RingInv, TypeOK, Positions, Claimed, SocketInv
  <2>2. /\ sock'[r] = q /\ seen'[r] = seen[r] /\ last'[r] = last[r]
        /\ rpc'[r] = rpc[r] /\ Owed(r)' = Owed(r) /\ data' = data
    BY <1>1 DEF reader, Owed
  <2>3. InOrder(r)'
    BY <2>1, <2>2 DEF InOrder
  <2>4. \A m \in 1..sent : seen[r] < m => At(m - 1)' = At(m - 1)
    <3> SUFFICES ASSUME NEW m \in 1..sent, seen[r] < m
                 PROVE  At(m - 1)' = At(m - 1)
      OBVIOUS
    <3>1. m - 1 \in Nat /\ m - 1 <= sent /\ sent < (m - 1) + MaxChunks
      BY <1>1, <2>1
    <3> QED
      BY <1>2, <3>1
  <2>6. \A i \in 1..Len(q) : q[i] \in 1..sent
    <3>1. \A i \in 1..Len(q) : q[i] \in 1..MaxMsgs
      BY <2>1, ElementOfSeq
    <3>2. \A i \in 1..Len(q) : q[i] <= sent
      BY <2>1 DEF Payloads
    <3> QED
      BY <1>1, <3>1, <3>2, RingAssumption
  <2>7. \A i, j \in 1..Len(q) : i <= j => q[j] - q[i] >= j - i
    BY <2>1 DEF Payloads
  <2>8. \A i \in 1..Len(q) :
          /\ seen[r] - Owed(r) < q[i] /\ q[i] <= Posted'
          /\ seen[r] < q[i] => data[At(q[i] - 1)'].overflow
    <3>1. \A i \in 1..Len(q) : seen[r] - Owed(r) < q[i]
      BY <2>1 DEF Payloads
    <3>2. \A i \in 1..Len(q) : q[i] <= Posted'
      BY <1>1, <2>1, <2>6
    <3>3. \A i \in 1..Len(q) : seen[r] < q[i] => data[At(q[i] - 1)].overflow
      BY <2>1 DEF Payloads
    <3> QED
      BY <2>2, <2>4, <2>6, <3>1, <3>2, <3>3
  <2>9. ASSUME NEW m \in 1..Posted', seen[r] < m, data[At(m - 1)'].overflow
        PROVE  \E i \in 1..Len(q) : q[i] = m
    <3>1. CASE m <= sent
      <4>1. m \in 1..Posted /\ data[At(m - 1)].overflow
        BY <1>1, <2>1, <2>4, <2>9, <3>1
      <4> QED
        BY <2>1, <2>9, <4>1 DEF Payloads
    <3>2. CASE m > sent
      BY <1>1, <1>3, <1>5, <2>1, <2>9, <3>2
    <3> QED
      BY <1>1, <2>1, <3>1, <3>2
  <2>10. (rpc[r] = "recv" /\ seen[r] <= Posted')
           => \E i \in 1..Len(q) : q[i] = seen[r]
    BY <2>1 DEF Payloads
  <2>11. ~(seen[r] > Posted')
    BY <1>1, <2>1
  <2>12. Payloads(r)'
    BY <2>2, <2>7, <2>8, <2>9, <2>10, <2>11 DEF Payloads
  <2> QED
    BY <2>3, <2>12
<1> QED
  BY <1>4, <1>6, <1>7 DEF SocketInv

(* The payload of the message just published goes to the end of every       *)
(* socket.                                                                 *)
LEMMA SocketSendOverflow ==
  ASSUME RingInv, SocketInv, SendOverflow
  PROVE  SocketInv'
<1>1. /\ wpc = "send" /\ wpc' = "notify" /\ wbig
      /\ sock' = [r \in Readers |-> Append(sock[r], sent)]
      /\ sent \in Nat \ {0} /\ sent \in 1..MaxMsgs
      /\ UNCHANGED <<data, sent, widx, nmsg, wbig, reader>>
  BY RingAssumption DEF SendOverflow, RingInv, TypeOK, Positions, SocketInv
<1>2. Contents'
  BY <1>1 DEF SocketInv, Contents, Full, Msg, Claimed
<1>3. ASSUME NEW r \in Readers \ TimedReaders
      PROVE  Payloads(r)' /\ InOrder(r)'
  <2> DEFINE q == sock[r]
             n == Len(q)
  <2>1. /\ Posted = sent - 1 /\ Posted' = sent
        /\ q \in Seq(1..MaxMsgs) /\ n \in Nat /\ seen[r] \in Nat
        /\ seen[r] <= sent /\ Payloads(r) /\ InOrder(r)
    BY <1>1 DEF Posted, RingInv, TypeOK, Positions, SocketInv
  <2>2. /\ seen'[r] = seen[r] /\ last'[r] = last[r] /\ rpc'[r] = rpc[r]
        /\ Owed(r)' = Owed(r) /\ data' = data /\ Owed(r) \in {0, 1}
    BY <1>1 DEF reader, Owed
  <2>3. InOrder(r)'
    BY <2>1, <2>2 DEF InOrder
  <2>4. \A m : At(m - 1)' = At(m - 1)
    BY <1>1 DEF At
  <2>5. /\ sock'[r] = Append(q, sent) /\ Len(sock'[r]) = n + 1
        /\ \A i \in 1..n : sock'[r][i] = q[i]
        /\ sock'[r][n + 1] = sent
    BY <1>1, <2>1, AppendProperties
  <2>6. \A i \in 1..n : q[i] \in 1..(sent - 1)
    <3>1. \A i \in 1..n : q[i] \in 1..MaxMsgs
      BY <2>1, ElementOfSeq
    <3>2. \A i \in 1..n : q[i] <= sent - 1
      BY <2>1 DEF Payloads
    <3> QED
      BY <1>1, <3>1, <3>2, RingAssumption
  <2>7. \A i, j \in 1..n : i <= j => q[j] - q[i] >= j - i
    BY <2>1 DEF Payloads
  <2> HIDE DEF n, q
  <2>8. ASSUME NEW i \in 1..(n + 1), NEW j \in 1..(n + 1), i <= j
        PROVE  sock'[r][j] - sock'[r][i] >= j - i
    <3>1. CASE j <= n
      BY <2>1, <2>5, <2>7, <2>8, <3>1
    <3>2. CASE j = n + 1 /\ i = n + 1
      BY <1>1, <2>1, <2>5, <3>2
    <3>3. CASE j = n + 1 /\ i <= n
      <4>1. n \in 1..n /\ i \in 1..n
        BY <2>1, <3>3
      <4>2. q[n] - q[i] >= n - i /\ q[n] \in 1..(sent - 1) /\ q[i] \in 1..(sent - 1)
        BY <2>1, <2>6, <2>7, <4>1
      <4>3. sock'[r][j] = sent /\ sock'[r][i] = q[i]
        BY <2>1, <2>5, <3>3, <4>1
      <4>4. n \in Int /\ i \in Int /\ sent \in Int /\ q[n] \in Int /\ q[i] \in Int
        BY <1>1, <2>1, <4>1, <4>2
      <4>5. q[n] <= sent - 1
        BY <4>2, <4>4
      <4>6. sent - q[i] >= (n + 1) - i
        BY <4>2, <4>4, <4>5
      <4> QED
        BY <3>3, <4>3, <4>6
    <3> QED
      BY <2>1, <2>8, <3>1, <3>2, <3>3
  <2>9. \A i \in 1..n : /\ seen[r] - Owed(r) < q[i]
                        /\ seen[r] < q[i] => data[At(q[i] - 1)].overflow
    BY <2>1 DEF Payloads, n, q
  <2>10. data[At(sent - 1)].overflow
    BY <1>1 DEF SocketInv
  <2>11. \A i \in 1..(n + 1) :
           /\ seen[r] - Owed(r) < sock'[r][i] /\ sock'[r][i] <= sent
           /\ seen[r] < sock'[r][i] => (data[At(sock[r][i] - 1)].overflow)'
    <3> SUFFICES ASSUME NEW i \in 1..(n + 1)
                 PROVE  /\ seen[r] - Owed(r) < sock'[r][i] /\ sock'[r][i] <= sent
                        /\ seen[r] < sock'[r][i]
                              => (data[At(sock[r][i] - 1)].overflow)'
      OBVIOUS
    <3>1. CASE i \in 1..n
      BY <1>1, <2>2, <2>4, <2>5, <2>6, <2>9, <3>1
    <3>2. CASE i = n + 1
      <4>1. seen[r] = sent => rpc[r] = "recv"
        BY <1>1, <2>1 DEF Payloads
      <4>2. seen[r] - Owed(r) < sent
        BY <1>1, <2>1, <4>1 DEF Owed
      <4>3. sock'[r][i] = sent
        BY <2>5, <3>2
      <4>4. \A m : m = sent => data'[At(m - 1)'].overflow
        BY <2>2, <2>4, <2>10
      <4>5. (data[At(sock[r][i] - 1)].overflow)'
        BY <4>3, <4>4 DEF At
      <4>6. seen[r] - Owed(r) < sock'[r][i]
        BY <4>2, <4>3
      <4>7. sent <= sent
        BY <1>1
      <4> QED
        BY <4>3, <4>5, <4>6, <4>7
    <3> QED
      BY <2>1, <3>1, <3>2
  <2>12. ASSUME NEW m \in 1..sent, seen[r] < m, data[At(m - 1)].overflow
         PROVE  \E i \in 1..(n + 1) : sock'[r][i] = m
    <3>1. CASE m = sent
      BY <2>1, <2>5, <3>1
    <3>2. CASE m # sent
      <4>1. \E i \in 1..n : q[i] = m
        BY <1>1, <2>1, <2>12, <3>2 DEF Payloads, n, q
      <4> QED
        BY <2>1, <2>5, <4>1
    <3> QED
      BY <3>1, <3>2
  <2>13. rpc[r] = "recv" => \E i \in 1..(n + 1) : sock'[r][i] = seen[r]
    <3>1. CASE seen[r] = sent
      BY <2>1, <2>5, <3>1
    <3>2. CASE rpc[r] = "recv" /\ seen[r] # sent
      <4>1. \E i \in 1..n : q[i] = seen[r]
        BY <1>1, <2>1, <3>2 DEF Payloads, n, q
      <4> QED
        BY <2>1, <2>5, <4>1
    <3> QED
      BY <3>1, <3>2
  <2>14. \A m \in 1..sent : (seen[r] < m /\ data'[At(m - 1)'].overflow)
                              => \E i \in 1..(n + 1) : sock'[r][i] = m
    BY <2>2, <2>4, <2>12
  <2>15. ~(seen[r] > sent)
    BY <1>1, <2>1
  <2>16. Payloads(r)'
    BY <2>1, <2>2, <2>5, <2>8, <2>11, <2>13, <2>14, <2>15 DEF Payloads
  <2> QED
    BY <2>3, <2>16
<1> QED
  BY <1>1, <1>2, <1>3 DEF SocketInv

(* A reader that takes a payload takes the one its chunk announced: the     *)
(* first on the socket.                                                    *)
LEMMA SocketRecvOverflow ==
  ASSUME RingInv, NEW r \in Readers \ TimedReaders, RecvOverflow(r),
         Payloads(r), InOrder(r)
  PROVE  Payloads(r)' /\ InOrder(r)'
<1> DEFINE q == sock[r]
           n == Len(q)
<1>1. /\ rpc[r] = "recv" /\ q # <<>> /\ q \in Seq(1..MaxMsgs) /\ n \in Nat
      /\ rpc'[r] = "check" /\ last'[r] = q[1] /\ sock'[r] = Tail(q)
      /\ Owed(r) = 1 /\ Owed(r)' = 0 /\ seen[r] \in Nat /\ Posted \in Int
      /\ UNCHANGED <<data, writer, seen>>
  BY RingAssumption DEF RecvOverflow, RingInv, TypeOK, Owed, Posted
<1>2. /\ n >= 1 /\ Len(Tail(q)) = n - 1
      /\ \A i \in 1..(n - 1) : Tail(q)[i] = q[i + 1]
      /\ \A i \in 1..n : q[i] \in 1..MaxMsgs
  <2>1. Len(Tail(q)) = n - 1 /\ \A i \in 1..Len(Tail(q)) : Tail(q)[i] = q[i + 1]
    BY <1>1, HeadTailProperties
  <2>2. n # 0
    BY <1>1, EmptySeq
  <2>3. \A i \in 1..n : q[i] \in 1..MaxMsgs
    BY <1>1, ElementOfSeq
  <2> QED
    BY <1>1, <2>1, <2>2, <2>3
<1>3. /\ \A i, j \in 1..n : i <= j => q[j] - q[i] >= j - i
      /\ \A i \in 1..n : seen[r] - 1 < q[i] /\ q[i] <= Posted
      /\ \A i \in 1..n : seen[r] < q[i] => data[At(q[i] - 1)].overflow
      /\ \A m \in 1..Posted :
           (seen[r] < m /\ data[At(m - 1)].overflow) => \E i \in 1..n : q[i] = m
      /\ seen[r] <= Posted => \E i \in 1..n : q[i] = seen[r]
  BY <1>1 DEF Payloads
<1> HIDE DEF n, q
<1>4. q[1] = seen[r] /\ seen[r] <= Posted
  <2>1. 1 \in 1..n /\ q[1] \in Int /\ seen[r] - 1 < q[1] /\ q[1] <= Posted
    BY <1>1, <1>2, <1>3
  <2>2. seen[r] <= Posted
    BY <1>1, <2>1
  <2>3. PICK i \in 1..n : q[i] = seen[r]
    BY <1>3, <2>2
  <2>4. q[i] - q[1] >= i - 1
    BY <1>1, <1>2, <1>3, <2>1, <2>3
  <2> QED
    BY <1>1, <2>1, <2>2, <2>3, <2>4
<1>5. InOrder(r)'
  BY <1>1, <1>4 DEF InOrder
<1>6. \A i \in 2..n : seen[r] < q[i]
  <2> SUFFICES ASSUME NEW i \in 2..n PROVE seen[r] < q[i]
    OBVIOUS
  <2>1. 1 \in 1..n /\ i \in 1..n /\ 1 <= i /\ i - 1 >= 1
    BY <1>1, <1>2
  <2>2. q[i] - q[1] >= i - 1
    BY <1>3, <2>1
  <2>3. q[i] \in Int
    BY <1>2, <2>1
  <2> QED
    BY <1>1, <1>4, <2>1, <2>2, <2>3
<1>7. Posted' = Posted /\ \A m : At(m - 1)' = At(m - 1)
  BY <1>1 DEF Posted, At, writer
<1>8. Payloads(r)'
  <2>1. \A i \in 1..(n - 1) : i + 1 \in 2..n /\ i + 1 \in 1..n
    BY <1>1
  <2>2. ASSUME NEW i \in 1..(n - 1), NEW j \in 1..(n - 1), i <= j
        PROVE  sock'[r][j] - sock'[r][i] >= j - i
    <3>1. q[j + 1] - q[i + 1] >= (j + 1) - (i + 1)
      <4>1. i + 1 \in 1..n /\ j + 1 \in 1..n /\ i + 1 <= j + 1
        BY <1>1, <2>2
      <4> QED
        BY <1>3, <4>1
    <3>2. (j + 1) - (i + 1) = j - i
      BY <1>1
    <3>3. sock'[r][j] = q[j + 1] /\ sock'[r][i] = q[i + 1]
      BY <1>1, <1>2
    <3> QED
      BY <3>1, <3>2, <3>3
  <2>3. \A i \in 1..(n - 1) : \A m \in Int : sock'[r][i] = m =>
          seen[r] < m /\ m <= Posted /\ data'[At(m - 1)'].overflow
    <3> SUFFICES ASSUME NEW i \in 1..(n - 1), NEW m \in Int, sock'[r][i] = m
                 PROVE  seen[r] < m /\ m <= Posted /\ data'[At(m - 1)'].overflow
      OBVIOUS
    <3>1. q[i + 1] = m /\ i + 1 \in 1..n /\ i + 1 \in 2..n
      BY <1>1, <1>2, <2>1
    <3>2. seen[r] < m /\ m <= Posted /\ data[At(m - 1)].overflow
      BY <1>3, <1>6, <3>1
    <3> QED
      BY <1>1, <1>7, <3>2
  <2>4. \A i \in 1..(n - 1) : sock'[r][i] \in Int
    BY <1>1, <1>2, <2>1
  <2>5. \A i \in 1..(n - 1) :
          /\ seen[r] < sock'[r][i] /\ sock'[r][i] <= Posted
          /\ (data[At(sock[r][i] - 1)].overflow)'
    BY <2>3, <2>4 DEF At
  <2>6. ASSUME NEW m \in 1..Posted, seen[r] < m, data[At(m - 1)].overflow
        PROVE  \E i \in 1..(n - 1) : sock'[r][i] = m
    <3>1. PICK k \in 1..n : q[k] = m
      BY <1>3, <2>6
    <3>2. k # 1 /\ k \in Int
      BY <1>1, <1>4, <2>6, <3>1
    <3>3. k - 1 \in 1..(n - 1) /\ (k - 1) + 1 = k
      BY <1>1, <3>2
    <3>4. sock'[r][k - 1] = m
      BY <1>1, <1>2, <3>1, <3>3
    <3> QED
      BY <3>3, <3>4
  <2>7. \A m \in 1..Posted : (seen[r] < m /\ data'[At(m - 1)'].overflow)
                              => \E i \in 1..(n - 1) : sock'[r][i] = m
    BY <1>1, <1>7, <2>6
  <2>8. Len(sock'[r]) = n - 1 /\ seen'[r] = seen[r] /\ seen[r] - 0 = seen[r]
        /\ rpc'[r] # "recv" /\ ~(seen[r] > Posted)
    BY <1>1, <1>2, <1>4
  <2> QED
    BY <1>1, <1>7, <2>2, <2>5, <2>7, <2>8 DEF Payloads
<1> QED
  BY <1>5, <1>8

(* Polling, parking and waking touch neither chunks nor sockets; only       *)
(* readers with a timeout give up a payload.                               *)
LEMMA SocketWaits ==
  ASSUME RingInv, SocketInv, NEW r \in Readers, Waits(r)
  PROVE  SocketInv'
<1>1. /\ UNCHANGED <<data, writer, seen>>
      /\ \A p \in Readers \ {r} :
           sock'[p] = sock[p] /\ rpc'[p] = rpc[p] /\ last'[p] = last[p]
  BY DEF Waits, AcquireRead, Park, SpinCancelled, WakeOnCancel, WakeOnNotify,
         WakeOnRecheck, RecvOverflow, RecvTimeout, Resume, RingInv, TypeOK, Ring
<1>2. /\ Posted' = Posted /\ \A m : At(m - 1)' = At(m - 1)
      /\ Contents' /\ (wpc = "send" => wbig /\ data[At(sent - 1)].overflow)'
  BY <1>1 DEF Posted, At, SocketInv, Contents, Full, Msg, Claimed, writer
<1>3. ASSUME NEW p \in Readers \ TimedReaders
      PROVE  Payloads(p)' /\ InOrder(p)'
  <2>0. Payloads(p) /\ InOrder(p)
    BY DEF SocketInv
  <2>1. CASE p # r
    <3>1. /\ sock'[p] = sock[p] /\ seen'[p] = seen[p] /\ last'[p] = last[p]
          /\ rpc'[p] = "recv" <=> rpc[p] = "recv"
          /\ \A m \in 1..Posted : seen[p] < m =>
               (data'[At(m - 1)'].overflow <=> data[At(m - 1)].overflow)
      BY <1>1, <1>2, <2>1
    <3> QED
      BY <1>2, <2>0, <3>1, PayloadsKept
  <2>2. CASE p = r /\ RecvOverflow(r)
    BY <2>0, <2>2, SocketRecvOverflow
  <2>3. CASE p = r /\ ~RecvOverflow(r)
    <3>1. /\ sock'[r] = sock[r] /\ last'[r] = last[r]
          /\ rpc[r] # "recv" /\ rpc'[r] # "recv"
      BY <2>3 DEF Waits, AcquireRead, Park, SpinCancelled, WakeOnCancel,
                  WakeOnNotify, WakeOnRecheck, RecvTimeout, Resume, RingInv,
                  TypeOK, Ring
    <3> QED
      BY <1>1, <1>2, <2>0, <2>3, <3>1, PayloadsKept
  <2> QED
    BY <2>1, <2>2, <2>3
<1> QED
  BY <1>2, <1>3 DEF SocketInv

(* A reader that leaves a chunk has its message, or owes itself the payload *)
(* with that number.                                                       *)
LEMMA SocketReleaseRead ==
  ASSUME RingInv, SocketInv, NEW r \in Readers, ReleaseRead(r)
  PROVE  SocketInv'
<1> DEFINE c == ridx[r]
           q == sock[r]
           m == seen[r] + 1
<1>1. /\ rpc[r] = "reading" /\ c \in Chunks /\ seen[r] \in Nat /\ sent \in Nat
      /\ seen[r] < sent /\ sent <= seen[r] + MaxChunks /\ c = At(seen[r])
      /\ seen' = [seen EXCEPT ![r] = m] /\ m \in Nat /\ m - 1 = seen[r]
      /\ rpc' = [rpc EXCEPT ![r] = IF data[c].overflow THEN "recv" ELSE "check"]
      /\ last' = [last EXCEPT ![r] = IF data[c].overflow THEN @ ELSE data[c].id]
      /\ UNCHANGED <<written, data, writer, sock>>
  BY DEF ReleaseRead, RingInv, TypeOK, Positions
<1>2. /\ Posted' = Posted /\ \A k : At(k - 1)' = At(k - 1)
      /\ Contents' /\ (wpc = "send" => wbig /\ data[At(sent - 1)].overflow)'
  BY <1>1 DEF Posted, At, SocketInv, Contents, Full, Msg, Claimed, writer
<1>3. seen[r] < m /\ m <= sent /\ At(m - 1) = c
  BY <1>1
<1>4. Msg(c) = m /\ (Claimed => c # widx)
  BY <1>1, <1>3, ChunkOfUnread
<1>5. data[c].overflow \/ data[c].id = m
  BY <1>1, <1>4 DEF SocketInv, Contents, Full
<1>6. ASSUME NEW p \in Readers \ TimedReaders, p # r
      PROVE  Payloads(p)' /\ InOrder(p)'
  <2>1. /\ sock'[p] = sock[p] /\ seen'[p] = seen[p] /\ last'[p] = last[p]
        /\ rpc'[p] = "recv" <=> rpc[p] = "recv"
        /\ \A k \in 1..Posted : seen[p] < k =>
             (data'[At(k - 1)'].overflow <=> data[At(k - 1)].overflow)
    BY <1>1, <1>2, <1>6 DEF RingInv, TypeOK
  <2> QED
    BY <1>2, <2>1, PayloadsKept DEF SocketInv
<1>7. ASSUME r \notin TimedReaders
      PROVE  Payloads(r)' /\ InOrder(r)'
  <2>1. Payloads(r) /\ InOrder(r) /\ Owed(r) = 0 /\ q \in Seq(1..MaxMsgs)
        /\ Posted \in {sent, sent - 1}
    BY <1>1, <1>7 DEF SocketInv, Owed, RingInv, TypeOK, Posted
  <2>2. seen'[r] = m /\ sock'[r] = q
        /\ rpc'[r] = (IF data[c].overflow THEN "recv" ELSE "check")
        /\ last'[r] = (IF data[c].overflow THEN last[r] ELSE m)
        /\ Owed(r)' = (IF data[c].overflow THEN 1 ELSE 0)
    BY <1>1, <1>5 DEF RingInv, TypeOK, Owed
  <2>3. InOrder(r)'
    BY <1>1, <2>1, <2>2 DEF InOrder
  <2> HIDE DEF m, c, q
  <2>4. /\ \A i, j \in 1..Len(q) : i <= j => q[j] - q[i] >= j - i
        /\ \A i \in 1..Len(q) : q[i] \in Int /\ seen[r] < q[i] /\ q[i] <= Posted
                               /\ data[At(q[i] - 1)].overflow
        /\ \A k \in 1..Posted :
             (seen[r] < k /\ data[At(k - 1)].overflow) => \E i \in 1..Len(q) : q[i] = k
    <3>1. \A i \in 1..Len(q) : q[i] \in 1..MaxMsgs
      BY <2>1, ElementOfSeq
    <3>2. \A i \in 1..Len(q) : q[i] \in Int
      BY <3>1
    <3> QED
      BY <1>1, <2>1, <3>2 DEF Payloads, q
  <2>5. ~data[c].overflow => \A i \in 1..Len(q) : q[i] # m
    BY <1>3, <2>4
  <2>6. \A i \in 1..Len(q) : m - Owed(r)' < q[i]
    <3> SUFFICES ASSUME NEW i \in 1..Len(q) PROVE m - Owed(r)' < q[i]
      OBVIOUS
    <3>1. q[i] \in Int /\ seen[r] < q[i] /\ (~data[c].overflow => q[i] # m)
      BY <2>4, <2>5
    <3> QED
      BY <1>1, <2>2, <3>1
  <2>7. \A i \in 1..Len(q) : (data[At(sock[r][i] - 1)].overflow)'
    <3>1. \A i \in 1..Len(q) : \A k \in Int : k = q[i] => data'[At(k - 1)'].overflow
      BY <1>1, <1>2, <2>4
    <3> QED
      BY <2>2, <2>4, <3>1 DEF At
  <2>8. \A k \in 1..Posted : (m < k /\ data'[At(k - 1)'].overflow)
                              => \E i \in 1..Len(q) : q[i] = k
    BY <1>1, <1>2, <2>1, <2>4 DEF m
  <2>9. (data[c].overflow /\ m <= Posted) => \E i \in 1..Len(q) : q[i] = m
    <3>1. m <= Posted => m \in 1..Posted
      BY <1>1, <2>1 DEF m
    <3> QED
      BY <1>3, <2>4, <3>1
  <2>10. m > Posted => data[c].overflow
    <3> SUFFICES ASSUME m > Posted PROVE data[c].overflow
      OBVIOUS
    <3>1. wpc = "send" /\ m = sent
      BY <1>1, <1>3 DEF Posted
    <3> QED
      BY <1>3, <3>1 DEF SocketInv
  <2>11. Payloads(r)'
    BY <1>1, <1>2, <2>2, <2>4, <2>6, <2>7, <2>8, <2>9, <2>10 DEF Payloads
  <2> QED
    BY <2>3, <2>11
<1> QED
  BY <1>2, <1>6, <1>7 DEF SocketInv

(* Steps outside the ring *)
LEMMA SocketShutdown ==
  ASSUME SocketInv, (\E r \in Readers : Shutdown(r)) \/ UNCHANGED vars
  PROVE  SocketInv'
<1>1. UNCHANGED <<Ring, reader>>
  BY DEF Shutdown, vars, Ring
<1>2. /\ Posted' = Posted /\ Claimed' = Claimed
      /\ \A c : Msg(c)' = Msg(c)
      /\ \A k : At(k)' = At(k)
      /\ \A r : Owed(r)' = Owed(r)
  BY <1>1 DEF Posted, Claimed, Msg, At, Owed, Ring, reader, writer
<1>3. \A c : Full(c)' = Full(c)
  BY <1>1, <1>2 DEF Full, Ring, writer
<1>4. Contents'
  BY <1>1, <1>2, <1>3 DEF SocketInv, Contents, Ring, writer
<1>5. (wpc = "send" => wbig /\ data[At(sent - 1)].overflow)'
  BY <1>1, <1>2 DEF SocketInv, Ring, writer
<1>6. ASSUME NEW r \in Readers \ TimedReaders
      PROVE  Payloads(r)' /\ InOrder(r)'
  <2>1. Payloads(r) /\ InOrder(r)
    BY DEF SocketInv
  <2>2. InOrder(r)'
    BY <1>1, <2>1 DEF InOrder, Ring, reader
  <2>3. Payloads(r)'
    BY <1>1, <1>2, <2>1 DEF Payloads, Ring, reader, writer
  <2> QED
    BY <2>2, <2>3
<1> QED
  BY <1>4, <1>5, <1>6 DEF SocketInv

(* Sockets and chunks stay in step at every step of writer and readers. *)
LEMMA SocketNext == RingInv /\ SocketInv /\ [Next]_vars => SocketInv'
<1> SUFFICES ASSUME RingInv, SocketInv, [Next]_vars PROVE SocketInv'
  OBVIOUS
<1>1. CASE (\E big \in BOOLEAN : Enqueue(big)) \/ WriterStep
  BY <1>1, SocketWriter, SocketMarkWritten, SocketSendOverflow DEF WriterStep
<1>2. ASSUME NEW r \in Readers, ReaderStep(r) PROVE SocketInv'
  BY <1>2, SocketWaits, SocketReleaseRead DEF ReaderStep, Waits
<1>3. CASE (\E r \in Readers : Shutdown(r)) \/ UNCHANGED vars
  BY <1>3, SocketShutdown
<1> QED
  BY <1>1, <1>2, <1>3 DEF Next

(* The overflow sockets of readers without a timeout stay in step with the  *)
(* chunks.                                                                 *)
THEOREM SocketInductive == Spec => []SocketInv
  BY SocketInit, SocketNext, RingInductive, PTL DEF Spec

(* dequeue returns every message, in order, whole and once, to every reader *)
(* that waits for its payloads.                                            *)
THEOREM MessagesInOrder == Spec => []UntimedInOrder
<1>1. SocketInv => UntimedInOrder
  BY DEF SocketInv, UntimedInOrder
<1> QED
  BY <1>1, SocketInductive, PTL

(* A reader that waits for its payloads has at most one more of them on its *)
(* socket than the ring has chunks, so a high-water mark above that never   *)
(* drops one.                                                              *)
THEOREM SocketsBounded == Spec => []OverflowBounded
<1>1. RingInv /\ SocketInv => OverflowBounded
  <2> SUFFICES ASSUME RingInv, SocketInv, NEW r \in Readers \ TimedReaders
               PROVE  Len(sock[r]) <= MaxChunks + (IF rpc[r] = "recv" THEN 1 ELSE 0)
    BY DEF OverflowBounded
  <2> DEFINE q == sock[r]
             n == Len(q)
  <2>1. /\ q \in Seq(1..MaxMsgs) /\ n \in Nat /\ seen[r] \in Nat /\ sent \in Nat
        /\ sent <= seen[r] + MaxChunks /\ Posted <= sent /\ Posted \in Int
        /\ MaxChunks \in Nat /\ Payloads(r)
        /\ Owed(r) = (IF rpc[r] = "recv" THEN 1 ELSE 0)
    BY RingAssumption DEF RingInv, SocketInv, TypeOK, Positions, Posted, Owed
  <2>2. CASE n = 0
    BY <2>1, <2>2
  <2>3. CASE n # 0
    <3>1. 1 \in 1..n /\ n \in 1..n /\ 1 <= n
      BY <2>1, <2>3
    <3>2. q[1] \in Int /\ q[n] \in Int
      <4>1. q[1] \in 1..MaxMsgs /\ q[n] \in 1..MaxMsgs
        BY <2>1, <3>1, ElementOfSeq
      <4> QED
        BY <4>1
    <3>3. seen[r] - Owed(r) < q[1] /\ q[n] <= Posted /\ q[n] - q[1] >= n - 1
      BY <2>1, <3>1 DEF Payloads
    <3> HIDE DEF n, q
    <3>4. n <= MaxChunks + Owed(r)
      <4>1. /\ Owed(r) \in Int /\ seen[r] \in Int /\ MaxChunks \in Int
            /\ Posted \in Int /\ n \in Int
            /\ Posted <= seen[r] + MaxChunks
        BY <2>1
      <4>2. n - 1 <= q[n] - q[1]
        BY <3>2, <3>3, <4>1
      <4>3. q[n] - q[1] <= Posted - (seen[r] - Owed(r) + 1)
        BY <3>2, <3>3, <4>1
      <4> QED
        BY <3>2, <4>1, <4>2, <4>3
    <3> QED
      BY <2>1, <3>4 DEF n, q
  <2> QED
    BY <2>2, <2>3
<1> QED
  BY <1>1, RingInductive, SocketInductive, PTL
=============================================================================
