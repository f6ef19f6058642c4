----------------------- MODULE MultiprocExecutor_proofs -----------------------
(***************************************************************************)
(* Responses carry no call id, and still every call gets its own, whatever *)
(* the number of ranks and of calls in flight and in whatever order their  *)
(* results are asked for, until a call fails or the rank's response is     *)
(* lost between its chunk and its payload.                                 *)
(***************************************************************************)
EXTENDS MultiprocExecutor, SequenceTheorems, TLAPS

(* Calls that rank w has executed, calls whose future has left the queue,   *)
(* and calls whose response of rank w has been taken, if they ask for one   *)
Handled(w) == Len(kind) - Len(requests[w])
Popped == Len(kind) - Len(futures_queue)
Taken(w) == IF collecting # NoCall /\ w \in pending THEN Popped - 1 ELSE Popped

(* Broadcasts and futures are queued in the order of the calls. *)
InCallOrder ==
  /\ \A w \in Workers :
       /\ Len(requests[w]) <= Len(kind)
       /\ \A i \in 1..Len(requests[w]) : requests[w][i] = Handled(w) + i
  /\ Len(futures_queue) <= Len(kind)
  /\ \A i \in 1..Len(futures_queue) : futures_queue[i] = Popped + i

(* Futures are settled in the order of the calls, one at a time, and       *)
(* nothing is read for a call before its turn.                             *)
SettledInOrder ==
  /\ collecting # NoCall => collecting = Popped
  /\ \A k \in Calls : outcome[k] = "none" <=> k > Popped \/ k = collecting
  /\ target <= Len(kind)
  /\ collecting # NoCall => pending \subseteq ReplyRanks(collecting)
  /\ \A k \in Calls : k > Popped => lost[k] = {}

(* Rank w's queue holds, in order, its responses to the calls it has        *)
(* executed that were not taken yet; a response is taken only of a call    *)
(* that the rank has executed.                                             *)
Answers(w) ==
  LET q == responses[w] IN
  /\ \A i, j \in 1..Len(q) : i < j => q[i].call < q[j].call
  /\ \A i \in 1..Len(q) :
       /\ Taken(w) < q[i].call /\ q[i].call <= Handled(w)
       /\ w \in ReplyRanks(q[i].call)
  /\ \A k \in 1..Len(kind) :
       (Taken(w) < k /\ k <= Handled(w) /\ w \in ReplyRanks(k))
         => \E i \in 1..Len(q) : q[i].call = k
  /\ \A k \in 1..Len(kind) :
       k <= Taken(w) /\ w \in ReplyRanks(k) => k <= Handled(w)

(* Rank w's payloads are, in order, those of the large chunks in its ring. *)
InOrder(p) == \A i, j \in 1..Len(p) : i < j => p[i].call < p[j].call

Fits(q, p) ==
  /\ InOrder(p)
  /\ \A i \in 1..Len(p) :
       \E j \in 1..Len(q) : q[j].large /\ q[j].call = p[i].call
  /\ \A j \in 1..Len(q) :
       q[j].large => \E i \in 1..Len(p) : p[i].call = q[j].call

Payloads(w) == Fits(responses[w], payloads[w])

NoError == \A k \in Calls : outcome[k] # "error"
Intact(w) == \A k \in Calls : w \notin lost[k]

(* Until a call fails, queues and responses taken so far are in step for   *)
(* every rank of which nothing was lost.                                   *)
InStep ==
  NoError =>
    /\ \A w \in Workers : Intact(w) => Answers(w) /\ Payloads(w)
    /\ collecting # NoCall =>
         \A w \in ReplyRanks(collecting) \ pending :
           Intact(w) => got[collecting][w] = collecting

ExecInv ==
  TypeOK /\ InCallOrder /\ SettledInOrder /\ InStep /\ ResponsesMatchUntilFailure

USE DEF NoCall

(* The queues of calls, whatever they hold, have lengths. *)
LEMMA Lengths ==
  ASSUME TypeOK
  PROVE  /\ Len(kind) \in Nat /\ Len(futures_queue) \in Nat
         /\ Popped \in Int
         /\ \A w \in Workers :
              /\ requests[w] \in Seq(Calls) /\ Len(requests[w]) \in Nat
              /\ responses[w] \in Seq(Chunk) /\ Len(responses[w]) \in Nat
              /\ payloads[w] \in Seq(Response) /\ Len(payloads[w]) \in Nat
              /\ Handled(w) \in Int /\ Taken(w) \in Int
              /\ \A i \in 1..Len(responses[w]) :
                   responses[w][i].call \in Calls
              /\ \A i \in 1..Len(payloads[w]) :
                   payloads[w][i].call \in Calls
         /\ Calls \subseteq Nat /\ MaxCalls \in Nat
  <1>1. Calls \subseteq Nat /\ MaxCalls \in Nat
    BY ExecutorAssumption DEF Calls
  <1>2. Len(kind) \in Nat /\ Len(futures_queue) \in Nat
    BY LenProperties DEF TypeOK
  <1>3. Popped \in Int
    BY <1>2 DEF Popped
  <1>4. ASSUME NEW w \in Workers
        PROVE  /\ requests[w] \in Seq(Calls) /\ Len(requests[w]) \in Nat
               /\ responses[w] \in Seq(Chunk) /\ Len(responses[w]) \in Nat
               /\ payloads[w] \in Seq(Response) /\ Len(payloads[w]) \in Nat
               /\ Handled(w) \in Int /\ Taken(w) \in Int
               /\ \A i \in 1..Len(responses[w]) :
                    responses[w][i].call \in Calls
               /\ \A i \in 1..Len(payloads[w]) :
                    payloads[w][i].call \in Calls
    <2>1. requests[w] \in Seq(Calls)
      BY DEF TypeOK
    <2>2. responses[w] \in Seq(Chunk) /\ payloads[w] \in Seq(Response)
      BY DEF TypeOK
    <2>3. /\ Len(requests[w]) \in Nat /\ Len(responses[w]) \in Nat
          /\ Len(payloads[w]) \in Nat
      BY <2>1, <2>2, LenProperties
    <2>4. Handled(w) \in Int /\ Taken(w) \in Int
      BY <2>3, <1>2, <1>3 DEF Handled, Taken
    <2>5. ASSUME NEW i \in 1..Len(responses[w])
          PROVE  responses[w][i].call \in Calls
      <3>1. responses[w][i] \in Chunk
        BY <2>2, ElementOfSeq
      <3>. QED  BY <3>1 DEF Chunk
    <2>6. ASSUME NEW i \in 1..Len(payloads[w])
          PROVE  payloads[w][i].call \in Calls
      <3>1. payloads[w][i] \in Response
        BY <2>2, ElementOfSeq
      <3>. QED  BY <3>1 DEF Response
    <2>. QED  BY <2>1, <2>2, <2>3, <2>4, <2>5, <2>6
  <1>. QED  BY <1>1, <1>2, <1>3, <1>4

(* The future that result() pops is there, and is the oldest one. *)
LEMMA PopOldest ==
  ASSUME TypeOK, InCallOrder, SettledInOrder,
         target # NoCall, outcome[target] = "none", collecting = NoCall
  PROVE  /\ futures_queue # <<>>
         /\ Head(futures_queue) = Popped + 1
         /\ Popped + 1 \in Calls /\ Popped + 1 <= Len(kind) /\ Popped >= 0
  <1>1. target \in Calls /\ target > Popped /\ target <= Len(kind)
    BY DEF TypeOK, SettledInOrder
  <1>2. Len(futures_queue) >= 1
    BY <1>1, Lengths DEF Popped
  <1>3. futures_queue # <<>>
    BY <1>2, EmptySeq
  <1>4. Head(futures_queue) = futures_queue[1]
    BY <1>3, HeadTailProperties DEF TypeOK
  <1>5. futures_queue[1] = Popped + 1
    BY <1>2, Lengths DEF InCallOrder
  <1>6. Popped >= 0 /\ Popped + 1 <= Len(kind)
    BY <1>2, Lengths DEF InCallOrder, Popped
  <1>7. Popped + 1 \in Calls
    <2>1. Len(kind) <= MaxCalls
      BY DEF TypeOK
    <2>. QED  BY <2>1, <1>6, Lengths DEF Calls
  <1>. QED  BY <1>3, <1>4, <1>5, <1>6, <1>7

(* A call being collected has been made, and is the last one popped. *)
LEMMA CollectingMade ==
  ASSUME TypeOK, SettledInOrder, collecting # NoCall
  PROVE  /\ collecting = Popped /\ collecting \in Calls
         /\ collecting \in 1..Len(kind)
         /\ outcome[collecting] = "none"
  <1>1. collecting = Popped
    BY DEF SettledInOrder
  <1>2. collecting \in Calls
    BY DEF TypeOK
  <1>3. collecting >= 1 /\ collecting \in Nat
    BY <1>2, Lengths DEF Calls
  <1>4. Popped <= Len(kind)
    BY Lengths DEF Popped
  <1>5. outcome[collecting] = "none"
    BY <1>2 DEF SettledInOrder
  <1>. QED  BY <1>1, <1>2, <1>3, <1>4, <1>5, Lengths

(* Initially nothing is queued. *)
LEMMA ExecInit ==
  ASSUME Init
  PROVE  ExecInv
  <1>1. TypeOK
    <2>1. kind \in Seq(Kinds) /\ Len(kind) <= MaxCalls
      BY ExecutorAssumption DEF Init
    <2>2. requests \in [Workers -> Seq(Calls)]
      BY DEF Init
    <2>3. /\ responses \in [Workers -> Seq(Chunk)]
          /\ payloads \in [Workers -> Seq(Response)]
          /\ sending \in [Workers -> BOOLEAN]
      BY DEF Init
    <2>4. futures_queue \in Seq(Calls)
      BY DEF Init
    <2>5. faults \in 0..MaxFaults
      BY ExecutorAssumption DEF Init
    <2>. QED  BY <2>1, <2>2, <2>3, <2>4, <2>5 DEF Init, TypeOK
  <1>2. InCallOrder
    BY DEF Init, InCallOrder
  <1>3. SettledInOrder
    BY DEF Init, SettledInOrder, Popped, Calls
  <1>4. ASSUME NEW w \in Workers
        PROVE  Answers(w) /\ Payloads(w)
    BY DEF Init, Answers, Payloads, Fits, InOrder
  <1>5. InStep
    BY <1>4 DEF Init, InStep
  <1>6. ResponsesMatchUntilFailure
    BY DEF Init, ResponsesMatchUntilFailure, OwnResponse
  <1>. QED  BY <1>1, <1>2, <1>3, <1>5, <1>6 DEF ExecInv
(* Steps of the workers and of the monitor that touch no queue. *)
LEMMA ExecUntouched ==
  ASSUME ExecInv,
         UNCHANGED <<engine, requests, responses, payloads>>,
         sending' \in [Workers -> BOOLEAN],
         wstate' \in [Workers -> {"up", "stuck", "exiting", "dead"}],
         raised' \in [Calls -> SUBSET Workers], faults' \in 0..MaxFaults,
         {is_failed', shutting_down'} \subseteq BOOLEAN
  PROVE  ExecInv'
  <1>1. TypeOK'
    BY DEF ExecInv, TypeOK, engine
  <1>2. InCallOrder'
    BY DEF ExecInv, InCallOrder, Handled, Popped, engine
  <1>3. SettledInOrder'
    BY DEF ExecInv, SettledInOrder, Popped, ReplyRanks, engine
  <1>4. InStep'
    <2>1. \A w \in Workers : Answers(w)' = Answers(w)
      BY DEF Answers, Taken, Handled, Popped, ReplyRanks, engine
    <2>2. \A w \in Workers : Payloads(w)' = Payloads(w)
      BY DEF Payloads
    <2>. QED  BY <2>1, <2>2 DEF ExecInv, InStep, NoError, Intact, ReplyRanks,
                                engine
  <1>5. ResponsesMatchUntilFailure'
    BY DEF ExecInv, ResponsesMatchUntilFailure, NothingLost, OwnResponse,
           ReplyRanks, engine
  <1>. QED  BY <1>1, <1>2, <1>3, <1>4, <1>5 DEF ExecInv

(* A new call goes to the end of every queue. *)
LEMMA ExecRpc ==
  ASSUME ExecInv, NEW q \in Kinds, CollectiveRpc(q)
  PROVE  ExecInv'
  <1>. DEFINE n == Len(kind) + 1
  <1>0. TypeOK /\ InCallOrder /\ SettledInOrder /\ InStep
        /\ ResponsesMatchUntilFailure
    BY DEF ExecInv
  <1>a. /\ n \in Calls
        /\ kind' = Append(kind, q)
        /\ requests' = [w \in Workers |-> Append(requests[w], n)]
        /\ futures_queue' = Append(futures_queue, n)
        /\ target' \in {NoCall, n}
        /\ UNCHANGED <<responses, payloads, sending, outcome, got, collecting,
                       pending, fetched, lost, engine_dead, workers, monitor>>
    BY DEF CollectiveRpc, replies
  <1>b. /\ kind' \in Seq(Kinds) /\ Len(kind') = n
        /\ \A k \in 1..Len(kind) : kind'[k] = kind[k]
    BY <1>0, <1>a, AppendProperties DEF TypeOK
  <1>c. \A w \in Workers :
          /\ requests'[w] \in Seq(Calls)
          /\ Len(requests'[w]) = Len(requests[w]) + 1
          /\ \A i \in 1..Len(requests[w]) : requests'[w][i] = requests[w][i]
          /\ requests'[w][Len(requests[w]) + 1] = n
    BY <1>0, <1>a, Lengths, AppendProperties
  <1>d. /\ futures_queue' \in Seq(Calls)
        /\ Len(futures_queue') = Len(futures_queue) + 1
        /\ \A i \in 1..Len(futures_queue) :
             futures_queue'[i] = futures_queue[i]
        /\ futures_queue'[Len(futures_queue) + 1] = n
    BY <1>0, <1>a, AppendProperties DEF TypeOK
  <1>e. Popped' = Popped /\ \A w \in Workers : Handled(w)' = Handled(w)
    <2>1. Popped' = Popped
      BY <1>0, <1>b, <1>d, Lengths DEF Popped
    <2>2. ASSUME NEW w \in Workers
          PROVE  Handled(w)' = Handled(w)
      <3>1. Len(requests'[w]) = Len(requests[w]) + 1 /\ Len(requests[w]) \in Nat
        BY <1>0, <1>c, Lengths
      <3>2. Len(kind') = Len(kind) + 1 /\ Len(kind) \in Nat
        BY <1>0, <1>b, Lengths
      <3>. QED  BY <3>1, <3>2 DEF Handled
    <2>. QED  BY <2>1, <2>2
  <1>f. \A k \in 1..Len(kind) : ReplyRanks(k)' = ReplyRanks(k)
    BY <1>b DEF ReplyRanks
  <1>g. n \in Nat /\ n <= MaxCalls
    BY <1>a, <1>0, Lengths DEF Calls
  <1>. HIDE DEF n
  <1>1. TypeOK'
    <2>1. requests' \in [Workers -> Seq(Calls)]
      BY <1>a, <1>c
    <2>2. target' \in Calls \cup {NoCall}
      BY <1>a
    <2>. QED  BY <1>0, <1>a, <1>b, <1>d, <1>g, <2>1, <2>2
              DEF TypeOK, workers, monitor
  <1>n. n = Len(kind) + 1
    BY DEF n
  <1>2. InCallOrder'
    <2>1. ASSUME NEW w \in Workers
          PROVE  /\ Len(requests'[w]) <= Len(kind')
                 /\ \A i \in 1..Len(requests'[w]) :
                      requests'[w][i] = Handled(w) + i
      <3>1. Len(requests'[w]) <= Len(kind')
        <4>1. Len(requests[w]) \in Nat /\ Len(kind) \in Nat
          BY <1>0, Lengths
        <4>2. Len(requests[w]) <= Len(kind)
          BY <1>0 DEF InCallOrder
        <4>3. Len(requests'[w]) = Len(requests[w]) + 1 /\ Len(kind') = Len(kind) + 1
          BY <1>b, <1>c, <1>n
        <4>. QED  BY <4>1, <4>2, <4>3
      <3>2. ASSUME NEW i \in 1..Len(requests[w])
            PROVE  requests'[w][i] = Handled(w) + i
        BY <1>0, <1>c DEF InCallOrder
      <3>3. requests'[w][Len(requests[w]) + 1]
              = Handled(w) + (Len(requests[w]) + 1)
        BY <1>0, <1>c, <1>n, Lengths DEF Handled
      <3>4. ASSUME NEW i \in 1..Len(requests'[w])
            PROVE  i \in 1..Len(requests[w]) \/ i = Len(requests[w]) + 1
        <4>1. Len(requests[w]) \in Nat /\ Len(requests'[w]) = Len(requests[w]) + 1
          BY <1>0, <1>c, Lengths
        <4>. QED  BY <4>1
      <3>. QED  BY <3>1, <3>2, <3>3, <3>4
    <2>2. /\ Len(futures_queue') <= Len(kind')
          /\ \A i \in 1..Len(futures_queue') :
               futures_queue'[i] = Popped + i
      <3>1. Len(futures_queue') <= Len(kind')
        BY <1>0, <1>b, <1>d, <1>n, Lengths DEF InCallOrder
      <3>2. ASSUME NEW i \in 1..Len(futures_queue)
            PROVE  futures_queue'[i] = Popped + i
        BY <1>0, <1>d DEF InCallOrder
      <3>3. futures_queue'[Len(futures_queue) + 1]
              = Popped + (Len(futures_queue) + 1)
        BY <1>0, <1>d, <1>n, Lengths DEF Popped
      <3>4. ASSUME NEW i \in 1..Len(futures_queue')
            PROVE  i \in 1..Len(futures_queue) \/ i = Len(futures_queue) + 1
        BY <1>0, <1>d, Lengths
      <3>. QED  BY <3>1, <3>2, <3>3, <3>4
    <2>. QED  BY <2>1, <2>2, <1>e DEF InCallOrder
  <1>3. SettledInOrder'
    <2>1. collecting' # NoCall => collecting' = Popped'
      BY <1>0, <1>a, <1>e DEF SettledInOrder
    <2>2. \A k \in Calls :
            outcome'[k] = "none" <=> k > Popped' \/ k = collecting'
      BY <1>0, <1>a, <1>e DEF SettledInOrder
    <2>3. target' <= Len(kind')
      BY <1>a, <1>b, <1>g
    <2>4. ASSUME collecting' # NoCall
          PROVE  pending' \subseteq ReplyRanks(collecting)'
      <3>2. collecting \in 1..Len(kind)
        BY <2>4, <1>0, <1>a, CollectingMade
      <3>3. ReplyRanks(collecting)' = ReplyRanks(collecting)
        BY <3>2, <1>a, <1>b DEF ReplyRanks
      <3>. QED  BY <3>3, <2>4, <1>0, <1>a DEF SettledInOrder
    <2>5. \A k \in Calls : k > Popped' => lost'[k] = {}
      BY <1>0, <1>a, <1>e DEF SettledInOrder
    <2>. QED  BY <2>1, <2>2, <2>3, <2>4, <2>5 DEF SettledInOrder
  <1>4. InStep'
    <2>. SUFFICES ASSUME NoError
                  PROVE  /\ \A w \in Workers :
                              Intact(w) => Answers(w)' /\ Payloads(w)'
                         /\ collecting' # NoCall =>
                              \A w \in ReplyRanks(collecting)' \ pending' :
                                Intact(w) => got'[collecting'][w] = collecting'
      BY <1>a DEF InStep, NoError, Intact
    <2>1. ASSUME NEW w \in Workers, Intact(w)
          PROVE  Answers(w)' /\ Payloads(w)'
      <3>0. Answers(w) /\ Payloads(w)
        BY <1>0, <2>1 DEF InStep
      <3>00. Payloads(w)'
        BY <3>0, <1>a DEF Payloads
      <3>1. Taken(w)' = Taken(w)
        BY <1>a, <1>e DEF Taken
      <3>2. /\ responses'[w] = responses[w]
            /\ Handled(w)' = Handled(w) /\ Handled(w) \in Int
            /\ Handled(w) <= Len(kind)
        <4>1. Len(requests[w]) \in Nat /\ Len(kind) \in Nat
          BY <1>0, Lengths
        <4>2. Handled(w) \in Int /\ Handled(w) <= Len(kind)
          BY <4>1 DEF Handled
        <4>. QED  BY <4>2, <1>a, <1>e
      <3>3. ASSUME NEW i \in 1..Len(responses[w])
            PROVE  /\ Taken(w) < responses[w][i].call
                   /\ responses[w][i].call <= Handled(w)
                   /\ w \in ReplyRanks(responses[w][i].call)'
        <4>1. responses[w][i].call \in 1..Len(kind)
          <5>1. responses[w][i].call \in Calls /\ Len(kind) \in Nat
            BY <1>0, Lengths
          <5>2. responses[w][i].call <= Handled(w)
            BY <3>0 DEF Answers
          <5>. QED  BY <5>1, <5>2, <3>2 DEF Calls
        <4>2. ReplyRanks(responses[w][i].call)
                = IF kind[responses[w][i].call].all
                  THEN Workers ELSE {OutputRank}
          BY DEF ReplyRanks
        <4>. QED  BY <3>0, <3>2, <4>1, <1>b, <4>2 DEF Answers, ReplyRanks
      <3>4. ASSUME NEW k \in 1..Len(kind'),
                   Taken(w) < k, k <= Handled(w), w \in ReplyRanks(k)'
            PROVE  \E i \in 1..Len(responses[w]) : responses[w][i].call = k
        <4>1. k \in 1..Len(kind)
          BY <3>2, <3>4, <1>0, <1>b, <1>g, Lengths
        <4>2. w \in ReplyRanks(k)
          BY <4>1, <3>4, <1>f
        <4>. QED  BY <4>1, <4>2, <3>4, <3>0 DEF Answers
      <3>5. ASSUME NEW k \in 1..Len(kind'), k <= Taken(w), w \in ReplyRanks(k)'
            PROVE  k <= Handled(w)
        <4>1. Taken(w) <= Len(kind)
          BY <1>0, Lengths DEF Taken, Popped
        <4>2. k \in 1..Len(kind)
          BY <4>1, <3>5, <1>0, <1>b, <1>g, Lengths
        <4>3. w \in ReplyRanks(k)
          BY <4>2, <3>5, <1>f
        <4>. QED  BY <4>2, <4>3, <3>5, <3>0 DEF Answers
      <3>6. Answers(w)'
        BY <3>0, <3>1, <3>2, <3>3, <3>4, <3>5 DEF Answers
      <3>. QED  BY <3>00, <3>6
    <2>2. ASSUME collecting' # NoCall,
                 NEW w \in ReplyRanks(collecting)' \ pending', Intact(w)
          PROVE  got'[collecting'][w] = collecting'
      <3>2. collecting \in 1..Len(kind)
        BY <2>2, <1>0, <1>a, CollectingMade
      <3>3. ReplyRanks(collecting)' = ReplyRanks(collecting)
        BY <3>2, <1>a, <1>b DEF ReplyRanks
      <3>. QED  BY <3>3, <2>2, <1>0, <1>a DEF InStep
    <2>. QED  BY <2>1, <2>2
  <1>5. ResponsesMatchUntilFailure'
    <2>. SUFFICES ASSUME NEW k \in Calls, NEW w \in Workers,
                         NothingLost(k, w),
                         \A j \in 1..(k - 1) : outcome[j] # "error",
                         outcome[k] = "ok", w \in ReplyRanks(k)'
                  PROVE  got[k][w] = k
      BY <1>a DEF ResponsesMatchUntilFailure, OwnResponse, NothingLost
    <2>1. ~(k > Popped)
      BY <1>0 DEF SettledInOrder
    <2>2. k \in 1..Len(kind)
      BY <2>1, <1>0, Lengths DEF Popped, Calls
    <2>3. w \in ReplyRanks(k)
      BY <2>2, <1>f
    <2>. QED  BY <2>3, <1>0 DEF ResponsesMatchUntilFailure, OwnResponse
  <1>. QED  BY <1>1, <1>2, <1>3, <1>4, <1>5 DEF ExecInv
(* result() is called, or returns: only the engine's place changes. *)
LEMMA ExecResult ==
  ASSUME ExecInv,
         \/ \E k \in Calls : Result(k)
         \/ Return
  PROVE  ExecInv'
  <1>0. TypeOK /\ InCallOrder /\ SettledInOrder /\ InStep
        /\ ResponsesMatchUntilFailure
    BY DEF ExecInv
  <1>a. /\ UNCHANGED <<kind, futures_queue, outcome, got, collecting, pending,
                       lost, requests, responses, payloads, sending, workers,
                       monitor>>
        /\ target' \in Calls \cup {NoCall} /\ target' <= Len(kind)
        /\ fetched' \subseteq Calls /\ engine_dead' \in BOOLEAN
    <2>1. Len(kind) \in Nat /\ DOMAIN kind = 1..Len(kind)
      BY <1>0, LenProperties DEF TypeOK
    <2>2. CASE \E k \in Calls : Result(k)
      BY <1>0, <2>1, <2>2 DEF Result, TypeOK, replies
    <2>3. CASE Return
      BY <1>0, <2>1, <2>3 DEF Return, TypeOK, replies
    <2>. QED  BY <2>2, <2>3
  <1>1. TypeOK'
    BY <1>0, <1>a DEF TypeOK, workers, monitor
  <1>2. InCallOrder'
    BY <1>0, <1>a DEF InCallOrder, Handled, Popped
  <1>3. SettledInOrder'
    BY <1>0, <1>a DEF SettledInOrder, Popped, ReplyRanks
  <1>4. InStep'
    <2>1. \A w \in Workers : Answers(w)' = Answers(w)
      BY <1>a DEF Answers, Taken, Handled, Popped, ReplyRanks
    <2>2. \A w \in Workers : Payloads(w)' = Payloads(w)
      BY <1>a DEF Payloads
    <2>. QED  BY <2>1, <2>2, <1>0, <1>a
              DEF InStep, NoError, Intact, ReplyRanks
  <1>5. ResponsesMatchUntilFailure'
    BY <1>0, <1>a DEF ResponsesMatchUntilFailure, NothingLost, OwnResponse,
                      ReplyRanks
  <1>. QED  BY <1>1, <1>2, <1>3, <1>4, <1>5 DEF ExecInv

(* get_response starts for the oldest call whose future is queued. *)
LEMMA ExecPop ==
  ASSUME ExecInv, PopFuture
  PROVE  ExecInv'
  <1>. DEFINE c == Popped + 1
  <1>0. TypeOK /\ InCallOrder /\ SettledInOrder /\ InStep
        /\ ResponsesMatchUntilFailure
    BY DEF ExecInv
  <1>a. /\ target # NoCall /\ outcome[target] = "none" /\ collecting = NoCall
        /\ UNCHANGED <<kind, outcome, got, target, fetched, lost, engine_dead,
                       requests, responses, payloads, sending, workers,
                       monitor>>
    BY DEF PopFuture, replies
  <1>b. /\ futures_queue # <<>> /\ Head(futures_queue) = c
        /\ c \in Calls /\ c <= Len(kind) /\ c >= 1
    BY <1>0, <1>a, PopOldest, Lengths
  <1>c. collecting' = c /\ pending' = ReplyRanks(c)
        /\ futures_queue' = Tail(futures_queue)
    BY <1>b DEF PopFuture
  <1>d. /\ futures_queue' \in Seq(Calls)
        /\ Len(futures_queue') = Len(futures_queue) - 1
        /\ \A i \in 1..Len(futures_queue') :
             futures_queue'[i] = futures_queue[i + 1]
    BY <1>0, <1>b, <1>c, HeadTailProperties DEF TypeOK
  <1>e. Popped' = c
    BY <1>0, <1>a, <1>d, Lengths DEF Popped
  <1>f. \A k : ReplyRanks(k)' = ReplyRanks(k)
    BY <1>a DEF ReplyRanks
  <1>g. c \in Nat /\ Popped \in Nat /\ c = Popped + 1 /\ Calls \subseteq Nat
    BY <1>0, <1>b, Lengths
  <1>. HIDE DEF c
  <1>h. ReplyRanks(c) \subseteq Workers
    BY ExecutorAssumption DEF ReplyRanks
  <1>1. TypeOK'
    BY <1>0, <1>a, <1>b, <1>c, <1>d, <1>h DEF TypeOK, workers, monitor
  <1>2. InCallOrder'
    <2>1. ASSUME NEW i \in 1..Len(futures_queue')
          PROVE  futures_queue'[i] = c + i
      <3>1. i + 1 \in 1..Len(futures_queue)
        BY <1>0, <1>d, Lengths
      <3>2. futures_queue[i + 1] = Popped + (i + 1)
        BY <3>1, <1>0 DEF InCallOrder
      <3>. QED  BY <3>2, <1>d, <1>g
    <2>2. Len(futures_queue') <= Len(kind')
      BY <1>0, <1>a, <1>d, Lengths DEF InCallOrder
    <2>. QED  BY <2>1, <2>2, <1>0, <1>a, <1>e DEF InCallOrder, Handled
  <1>3. SettledInOrder'
    <2>1. ASSUME NEW k \in Calls
          PROVE  outcome'[k] = "none" <=> k > c \/ k = c
      <3>1. outcome[k] = "none" <=> k > Popped \/ k = collecting
        BY <1>0 DEF SettledInOrder
      <3>2. k # 0 /\ k \in Nat
        BY <1>0, Lengths DEF Calls
      <3>. QED  BY <3>1, <3>2, <1>a, <1>g
    <2>2. ASSUME NEW k \in Calls, k > c
          PROVE  lost'[k] = {}
      BY <2>2, <1>0, <1>a, <1>g DEF SettledInOrder
    <2>. QED  BY <2>1, <2>2, <1>0, <1>a, <1>c, <1>e, <1>f DEF SettledInOrder
  <1>4. InStep'
    <2>. SUFFICES ASSUME NoError
                  PROVE  /\ \A w \in Workers :
                              Intact(w) => Answers(w)' /\ Payloads(w)'
                         /\ \A w \in ReplyRanks(c) \ pending' :
                              Intact(w) => got'[c][w] = c
      BY <1>a, <1>c, <1>f DEF InStep, NoError, Intact
    <2>0. ASSUME NEW w \in Workers, Intact(w)
          PROVE  Payloads(w)'
      BY <2>0, <1>0, <1>a DEF InStep, Payloads
    <2>1. ASSUME NEW w \in Workers, Intact(w)
          PROVE  Answers(w)'
      <3>0. Answers(w) /\ Taken(w) = Popped /\ Handled(w) \in Int
        BY <2>1, <1>0, <1>a, Lengths DEF InStep, Taken
      <3>1. /\ responses'[w] = responses[w] /\ Handled(w)' = Handled(w)
            /\ kind' = kind
        BY <1>a DEF Handled
      <3>2. CASE w \in ReplyRanks(c)
        <4>1. Taken(w)' = c - 1
          BY <3>2, <1>c, <1>e, <1>b, <1>g DEF Taken
        <4>2. Taken(w)' = Taken(w)
          BY <4>1, <3>0, <1>g
        <4>. QED  BY <4>2, <3>0, <3>1, <1>f DEF Answers
      <3>3. CASE w \notin ReplyRanks(c)
        <4>1. Taken(w)' = c
          BY <3>3, <1>c, <1>e DEF Taken
        <4>2. ASSUME NEW i \in 1..Len(responses[w])
              PROVE  c < responses[w][i].call
          <5>1. Popped < responses[w][i].call
                /\ w \in ReplyRanks(responses[w][i].call)
            BY <3>0 DEF Answers
          <5>2. responses[w][i].call # c
            BY <5>1, <3>3
          <5>3. responses[w][i].call \in Nat
            BY <1>0, <1>g, Lengths
          <5>. QED  BY <5>1, <5>2, <5>3, <1>g
        <4>3. ASSUME NEW k \in 1..Len(kind),
                     c < k, k <= Handled(w), w \in ReplyRanks(k)
              PROVE  \E i \in 1..Len(responses[w]) : responses[w][i].call = k
          <5>1. Popped < k
            BY <4>3, <1>g
          <5>. QED  BY <5>1, <4>3, <3>0 DEF Answers
        <4>4. ASSUME NEW k \in 1..Len(kind), k <= c, w \in ReplyRanks(k)
              PROVE  k <= Handled(w)
          <5>1. k # c
            BY <4>4, <3>3
          <5>2. k <= Popped
            BY <5>1, <4>4, <1>g
          <5>. QED  BY <5>2, <4>4, <3>0 DEF Answers
        <4>. QED  BY <4>1, <4>2, <4>3, <4>4, <3>0, <3>1, <1>f DEF Answers
      <3>. QED  BY <3>2, <3>3
    <2>. QED  BY <2>0, <2>1, <1>c
  <1>5. ResponsesMatchUntilFailure'
    BY <1>0, <1>a DEF ResponsesMatchUntilFailure, NothingLost, OwnResponse,
                      ReplyRanks
  <1>. QED  BY <1>1, <1>2, <1>3, <1>4, <1>5 DEF ExecInv

(* get_response fails, by a deadline, a failed executor or a rank's         *)
(* exception: from now on nothing is claimed of the queues' contents.      *)
LEMMA ExecFail ==
  ASSUME ExecInv, collecting # NoCall, Settle("error"),
         responses' \in [Workers -> Seq(Chunk)],
         payloads' \in [Workers -> Seq(Response)],
         UNCHANGED <<kind, futures_queue, got, target, fetched, lost,
                     engine_dead, requests, sending, workers, monitor>>
  PROVE  ExecInv'
  <1>0. TypeOK /\ InCallOrder /\ SettledInOrder /\ InStep
        /\ ResponsesMatchUntilFailure
    BY DEF ExecInv
  <1>a. /\ collecting' = NoCall /\ pending' = {}
        /\ outcome' = [outcome EXCEPT ![collecting] = "error"]
    BY DEF Settle
  <1>b. /\ collecting = Popped /\ collecting \in Calls
        /\ outcome[collecting] = "none"
    BY <1>0, CollectingMade
  <1>c. /\ outcome'[collecting] = "error"
        /\ \A k \in Calls \ {collecting} : outcome'[k] = outcome[k]
    BY <1>0, <1>a, <1>b DEF TypeOK
  <1>1. TypeOK'
    BY <1>0, <1>a, <1>b DEF TypeOK, workers, monitor
  <1>2. InCallOrder'
    BY <1>0 DEF InCallOrder, Handled, Popped
  <1>3. SettledInOrder'
    <2>1. Popped' = Popped /\ Popped \in Int /\ Calls \subseteq Nat
      BY <1>0, Lengths DEF Popped
    <2>2. ASSUME NEW k \in Calls
          PROVE  outcome'[k] = "none" <=> k > Popped \/ k = NoCall
      <3>1. outcome[k] = "none" <=> k > Popped \/ k = collecting
        BY <1>0 DEF SettledInOrder
      <3>2. k # 0
        BY DEF Calls
      <3>3. CASE k = collecting
        BY <3>3, <3>2, <1>b, <1>c, <2>1
      <3>4. CASE k # collecting
        BY <3>4, <3>1, <3>2, <1>c
      <3>. QED  BY <3>3, <3>4
    <2>. QED  BY <2>1, <2>2, <1>0, <1>a DEF SettledInOrder
  <1>4. InStep'
    BY <1>b, <1>c DEF InStep, NoError
  <1>5. ResponsesMatchUntilFailure'
    <2>. SUFFICES ASSUME NEW k \in Calls, NEW w \in Workers,
                         NothingLost(k, w),
                         \A j \in 1..(k - 1) : outcome'[j] # "error"
                  PROVE  OwnResponse(k, w)'
      BY DEF ResponsesMatchUntilFailure, NothingLost
    <2>1. CASE k = collecting
      BY <2>1, <1>c DEF OwnResponse
    <2>2. CASE k # collecting
      <3>1. ASSUME NEW j \in 1..(k - 1)
            PROVE  outcome[j] # "error"
        <4>1. j \in Calls
          BY ExecutorAssumption DEF Calls
        <4>. QED  BY <4>1, <1>b, <1>c
      <3>2. OwnResponse(k, w)
        BY <3>1, <1>0 DEF ResponsesMatchUntilFailure
      <3>. QED  BY <3>2, <2>2, <1>c DEF OwnResponse, ReplyRanks
    <2>. QED  BY <2>1, <2>2
  <1>. QED  BY <1>1, <1>2, <1>3, <1>4, <1>5 DEF ExecInv
(* Until a call fails, the next response in the queue of a rank that is    *)
(* waited for is its response to the call being collected.                 *)
LEMMA HeadIsOwn ==
  ASSUME ExecInv, NoError, collecting # NoCall, NEW w \in pending,
         Intact(w), responses[w] # <<>>
  PROVE  /\ w \in Workers /\ Len(responses[w]) >= 1
         /\ Head(responses[w]) = responses[w][1]
         /\ responses[w][1].call = collecting
         /\ \A i \in 2..Len(responses[w]) : responses[w][i].call > collecting
  <1>0. TypeOK /\ InCallOrder /\ SettledInOrder /\ InStep
    BY DEF ExecInv
  <1>1. w \in Workers /\ w \in ReplyRanks(collecting)
    BY <1>0 DEF TypeOK, SettledInOrder
  <1>2. /\ collecting = Popped /\ collecting \in 1..Len(kind)
        /\ Len(kind) \in Nat
    BY <1>0, CollectingMade, Lengths
  <1>3. /\ responses[w] \in Seq(Chunk)
        /\ Handled(w) \in Int /\ Len(responses[w]) \in Nat
        /\ \A i \in 1..Len(responses[w]) : responses[w][i].call \in Nat
    BY <1>0, <1>1, Lengths
  <1>4. Len(responses[w]) >= 1
    BY <1>3, EmptySeq
  <1>5. Head(responses[w]) = responses[w][1]
    BY <1>3, HeadTailProperties
  <1>6. Answers(w) /\ Taken(w) = collecting - 1
    BY <1>0, <1>1, <1>2 DEF InStep, Taken
  <1>7. /\ collecting - 1 < responses[w][1].call
        /\ responses[w][1].call <= Handled(w)
    BY <1>4, <1>3, <1>6 DEF Answers
  <1>8. collecting <= Handled(w) /\ Taken(w) < collecting
    BY <1>7, <1>2, <1>3, <1>4, <1>6
  <1>9. PICK i \in 1..Len(responses[w]) : responses[w][i].call = collecting
    BY <1>8, <1>6, <1>1, <1>2 DEF Answers
  <1>10. \A j \in 2..Len(responses[w]) :
           responses[w][1].call < responses[w][j].call
    BY <1>6, <1>3, <1>4 DEF Answers
  <1>11. responses[w][1].call = collecting
    BY <1>7, <1>9, <1>10, <1>2, <1>3, <1>4
  <1>. QED  BY <1>1, <1>4, <1>5, <1>10, <1>11

(* So is the next payload, when the chunk at hand is large. *)
LEMMA PayloadIsOwn ==
  ASSUME ExecInv, NoError, collecting # NoCall, NEW w \in pending,
         Intact(w), responses[w] # <<>>, Head(responses[w]).large,
         payloads[w] # <<>>
  PROVE  /\ Len(payloads[w]) >= 1
         /\ Head(payloads[w]) = payloads[w][1]
         /\ payloads[w][1].call = collecting
  <1>0. TypeOK /\ InStep
    BY DEF ExecInv
  <1>1. /\ w \in Workers /\ Len(responses[w]) >= 1
        /\ Head(responses[w]) = responses[w][1]
        /\ responses[w][1].call = collecting
        /\ \A i \in 2..Len(responses[w]) : responses[w][i].call > collecting
    BY HeadIsOwn
  <1>2. /\ payloads[w] \in Seq(Response) /\ Len(payloads[w]) \in Nat
        /\ Len(responses[w]) \in Nat /\ collecting \in Nat
        /\ \A i \in 1..Len(payloads[w]) : payloads[w][i].call \in Nat
        /\ \A i \in 1..Len(responses[w]) : responses[w][i].call \in Nat
    BY <1>0, <1>1, Lengths DEF TypeOK
  <1>3. Len(payloads[w]) >= 1 /\ Head(payloads[w]) = payloads[w][1]
    BY <1>2, EmptySeq, HeadTailProperties
  <1>4. Payloads(w)
    BY <1>0, <1>1 DEF InStep
  <1>5. PICK i \in 1..Len(payloads[w]) : payloads[w][i].call = collecting
    <2>1. 1 \in 1..Len(responses[w]) /\ responses[w][1].large
      BY <1>1, <1>2
    <2>. QED  BY <2>1, <1>1, <1>4 DEF Payloads, Fits
  <1>6. PICK j \in 1..Len(responses[w]) :
          responses[w][j].call = payloads[w][1].call
    BY <1>2, <1>3, <1>4 DEF Payloads, Fits
  <1>7. collecting <= payloads[w][1].call
    BY <1>1, <1>2, <1>6
  <1>8. CASE i = 1
    BY <1>3, <1>5, <1>8
  <1>9. CASE i # 1
    <2>1. payloads[w][1].call < payloads[w][i].call
      BY <1>2, <1>3, <1>4, <1>9 DEF Payloads, Fits, InOrder
    <2>. QED  BY <2>1, <1>2, <1>3, <1>5, <1>7
  <1>. QED  BY <1>8, <1>9

(* A response is taken: the queues stay in step. *)
LEMMA CollectAnswers ==
  ASSUME ExecInv, NoError, NEW w \in Workers, Collect(w),
         NEW v \in Workers, Intact(v),
         Taken(v)' = IF v = w THEN Popped ELSE Taken(v)
  PROVE  Answers(v)'
  <1>0. TypeOK /\ InCallOrder /\ SettledInOrder /\ InStep
    BY DEF ExecInv
  <1>a. /\ collecting # NoCall /\ w \in pending /\ responses[w] # <<>>
        /\ responses' = [responses EXCEPT ![w] = Tail(@)]
        /\ kind' = kind /\ requests' = requests
    BY DEF Collect
  <1>b. Handled(v)' = Handled(v) /\ \A k : ReplyRanks(k)' = ReplyRanks(k)
    BY <1>a DEF Handled, ReplyRanks
  <1>c. Answers(v)
    BY <1>0 DEF InStep
  <1>1. CASE v # w
    <2>1. responses'[v] = responses[v] /\ Taken(v)' = Taken(v)
      BY <1>1, <1>0, <1>a DEF TypeOK
    <2>. QED  BY <2>1, <1>a, <1>b, <1>c DEF Answers
  <1>2. CASE v = w
    <2>1. /\ Len(responses[w]) >= 1
          /\ responses[w][1].call = collecting
          /\ \A i \in 2..Len(responses[w]) : responses[w][i].call > collecting
      BY <1>2, <1>a, HeadIsOwn
    <2>2. responses[w] \in Seq(Chunk)
          /\ Len(responses[w]) \in Nat
      BY <1>0, Lengths
    <2>3. responses'[w] = Tail(responses[w])
      BY <1>0, <1>a DEF TypeOK
    <2>4. /\ Len(responses'[w]) = Len(responses[w]) - 1
          /\ \A i \in 1..Len(responses'[w]) :
               responses'[w][i] = responses[w][i + 1]
      BY <2>2, <2>3, <1>a, HeadTailProperties
    <2>5. ASSUME NEW i \in 1..Len(responses'[w])
          PROVE  i + 1 \in 2..Len(responses[w])
      BY <2>2, <2>4
    <2>6. Taken(w)' = collecting /\ Taken(w) = collecting - 1
          /\ collecting \in Nat
      BY <1>2, <1>0, <1>a, CollectingMade DEF Taken
    <2>7. ASSUME NEW i \in 1..Len(responses'[w]),
                 NEW j \in 1..Len(responses'[w]), i < j
          PROVE  responses'[w][i].call < responses'[w][j].call
      <3>1. /\ i + 1 \in 1..Len(responses[w]) /\ j + 1 \in 1..Len(responses[w])
            /\ i + 1 < j + 1
        BY <2>5, <2>7, <2>2, <2>4
      <3>2. responses[w][i + 1].call < responses[w][j + 1].call
        BY <3>1, <1>c, <1>2 DEF Answers
      <3>. QED  BY <3>2, <2>4
    <2>8. ASSUME NEW i \in 1..Len(responses'[w])
          PROVE  /\ collecting < responses'[w][i].call
                 /\ responses'[w][i].call <= Handled(w)
                 /\ w \in ReplyRanks(responses'[w][i].call)
      <3>1. i + 1 \in 1..Len(responses[w]) /\ i + 1 \in 2..Len(responses[w])
        BY <2>5, <2>2, <2>4
      <3>2. responses[w][i + 1].call > collecting
        BY <3>1, <2>1
      <3>3. /\ responses[w][i + 1].call <= Handled(w)
            /\ w \in ReplyRanks(responses[w][i + 1].call)
        BY <3>1, <1>c, <1>2 DEF Answers
      <3>4. responses[w][i + 1].call \in Nat
        BY <3>1, <1>0, Lengths
      <3>. QED  BY <3>2, <3>3, <3>4, <2>4, <2>6
    <2>9. ASSUME NEW k \in 1..Len(kind),
                 collecting < k, k <= Handled(w), w \in ReplyRanks(k)
          PROVE  \E i \in 1..Len(responses'[w]) : responses'[w][i].call = k
      <3>1. PICK i \in 1..Len(responses[w]) : responses[w][i].call = k
        BY <2>9, <2>6, <1>c, <1>2 DEF Answers
      <3>2. i # 1
        BY <3>1, <2>1, <2>9, <2>6
      <3>3. i - 1 \in 1..Len(responses'[w]) /\ (i - 1) + 1 = i
        BY <3>2, <2>2, <2>4
      <3>4. responses'[w][i - 1].call = k
        BY <3>1, <3>3, <2>4
      <3>. QED  BY <3>3, <3>4
    <2>10. ASSUME NEW k \in 1..Len(kind), k <= collecting, w \in ReplyRanks(k)
           PROVE  k <= Handled(w)
      <3>1. CASE k = collecting
        <4>1. responses[w][1].call <= Handled(w)
          BY <1>c, <1>2, <2>1, <2>2 DEF Answers
        <4>. QED  BY <4>1, <3>1, <2>1
      <3>2. CASE k # collecting
        <4>1. k <= Taken(w)
          BY <3>2, <2>10, <2>6
        <4>. QED  BY <4>1, <2>10, <1>c, <1>2 DEF Answers
      <3>. QED  BY <3>1, <3>2
    <2>11. Taken(w)' = collecting /\ Handled(w)' = Handled(w)
      BY <2>6, <1>b, <1>2
    <2>12. Answers(w)'
      <3>1. \A i, j \in 1..Len(responses'[w]) :
              i < j => responses'[w][i].call < responses'[w][j].call
        BY <2>7
      <3>2. \A i \in 1..Len(responses'[w]) :
              /\ collecting < responses'[w][i].call
              /\ responses'[w][i].call <= Handled(w)
              /\ w \in ReplyRanks(responses'[w][i].call)
        BY <2>8
      <3>3. \A k \in 1..Len(kind) :
              (collecting < k /\ k <= Handled(w) /\ w \in ReplyRanks(k))
                => \E i \in 1..Len(responses'[w]) : responses'[w][i].call = k
        BY <2>9
      <3>4. \A k \in 1..Len(kind) :
              k <= collecting /\ w \in ReplyRanks(k) => k <= Handled(w)
        BY <2>10
      <3>. QED  BY <3>1, <3>2, <3>3, <3>4, <2>11, <1>a, <1>b DEF Answers
    <2>. QED  BY <2>12, <1>2
  <1>. QED  BY <1>1, <1>2

LEMMA CollectPayloads ==
  ASSUME ExecInv, NoError, NEW w \in Workers, Collect(w),
         NEW v \in Workers, Intact(v)
  PROVE  Payloads(v)'
  <1>0. TypeOK /\ InStep
    BY DEF ExecInv
  <1>a. /\ collecting # NoCall /\ w \in pending /\ responses[w] # <<>>
        /\ responses' = [responses EXCEPT ![w] = Tail(@)]
        /\ Head(responses[w]).large => Arrived(w)
        /\ payloads' = IF Head(responses[w]).large
                       THEN [payloads EXCEPT ![w] = Tail(@)] ELSE payloads
    BY DEF Collect
  <1>b. /\ responses \in [Workers -> Seq(Chunk)]
        /\ payloads \in [Workers -> Seq(Response)]
    BY <1>0 DEF TypeOK
  <1>c. Payloads(v)
    BY <1>0 DEF InStep
  <1>1. CASE v # w
    <2>1. responses'[v] = responses[v] /\ payloads'[v] = payloads[v]
      BY <1>1, <1>a, <1>b
    <2>. QED  BY <2>1, <1>c DEF Payloads
  <1>2. CASE v = w
    <2>1. /\ Len(responses[w]) >= 1
          /\ Head(responses[w]) = responses[w][1]
          /\ responses[w][1].call = collecting
          /\ \A i \in 2..Len(responses[w]) : responses[w][i].call > collecting
      BY <1>2, <1>a, HeadIsOwn
    <2>2. /\ responses[w] \in Seq(Chunk) /\ Len(responses[w]) \in Nat
          /\ payloads[w] \in Seq(Response) /\ Len(payloads[w]) \in Nat
          /\ collecting \in Nat
          /\ \A i \in 1..Len(payloads[w]) : payloads[w][i].call \in Nat
          /\ \A i \in 1..Len(responses[w]) : responses[w][i].call \in Nat
      <3>1. collecting \in Calls \cup {NoCall}
        BY <1>0 DEF TypeOK
      <3>2. collecting \in Nat
        BY <3>1, <1>0, Lengths
      <3>. QED  BY <3>2, <1>0, Lengths
    <2>3. /\ Len(responses'[w]) = Len(responses[w]) - 1
          /\ \A i \in 1..Len(responses'[w]) :
               responses'[w][i] = responses[w][i + 1]
      <3>1. responses'[w] = Tail(responses[w])
        BY <1>a, <1>b
      <3>. QED  BY <3>1, <2>2, <1>a, HeadTailProperties
    <2>. DEFINE q == responses[w]
                p == payloads[w]
                q1 == responses'[w]
                p1 == payloads'[w]
    <2>4. ASSUME NEW i \in 1..Len(q1)
          PROVE  i + 1 \in 2..Len(q) /\ q1[i] = q[i + 1]
      BY <2>2, <2>3
    <2>5. ASSUME NEW j \in 2..Len(q)
          PROVE  j - 1 \in 1..Len(q1) /\ q1[j - 1] = q[j]
      BY <2>2, <2>3
    <2>6. /\ InOrder(p)
          /\ \A i \in 1..Len(p) :
               \E j \in 1..Len(q) : q[j].large /\ q[j].call = p[i].call
          /\ \A j \in 1..Len(q) :
               q[j].large => \E i \in 1..Len(p) : p[i].call = q[j].call
      BY <1>c, <1>2 DEF Payloads, Fits
    <2>7. CASE ~q[1].large
      <3>1. p1 = p
        BY <2>7, <2>1, <1>a
      <3>2. ASSUME NEW i \in 1..Len(p)
            PROVE  \E j \in 1..Len(q1) : q1[j].large /\ q1[j].call = p[i].call
        <4>1. PICK j \in 1..Len(q) : q[j].large /\ q[j].call = p[i].call
          BY <2>6
        <4>2. j \in 2..Len(q)
          BY <4>1, <2>7, <2>2
        <4>. QED  BY <4>1, <4>2, <2>5
      <3>3. ASSUME NEW j \in 1..Len(q1), q1[j].large
            PROVE  \E i \in 1..Len(p) : p[i].call = q1[j].call
        <4>1. j + 1 \in 1..Len(q) /\ q1[j] = q[j + 1]
          BY <2>2, <2>4
        <4>2. \E i \in 1..Len(p) : p[i].call = q[j + 1].call
          BY <4>1, <3>3, <2>6
        <4>. QED  BY <4>1, <4>2
      <3>. QED  BY <3>1, <3>2, <3>3, <2>6, <1>2 DEF Payloads, Fits
    <2>8. CASE q[1].large
      <3>0. payloads[w] # <<>>
        <4>1. Arrived(w)
          BY <2>8, <2>1, <1>a
        <4>2. sending[w] \in BOOLEAN
          BY <1>0 DEF TypeOK
        <4>3. Len(payloads[w]) > 0
          BY <4>1, <4>2, <2>2 DEF Arrived
        <4>. QED  BY <4>3, <2>2, EmptySeq
      <3>1. p[1].call = collecting /\ Len(p) >= 1
        BY <3>0, <2>8, <2>1, <1>2, <1>a, PayloadIsOwn
      <3>2. /\ Len(p1) = Len(p) - 1
            /\ \A i \in 1..Len(p1) : p1[i] = p[i + 1]
        <4>1. p1 = Tail(p)
          BY <2>8, <2>1, <1>a, <1>b
        <4>. QED  BY <4>1, <3>0, <2>2, HeadTailProperties
      <3>3. ASSUME NEW i \in 1..Len(p1)
            PROVE  /\ i + 1 \in 2..Len(p) /\ i + 1 \in 1..Len(p)
                   /\ p1[i] = p[i + 1]
        BY <2>2, <3>2
      <3>4. ASSUME NEW i \in 2..Len(p)
            PROVE  i - 1 \in 1..Len(p1) /\ p1[i - 1] = p[i]
        BY <2>2, <3>2
      <3>5. ASSUME NEW i \in 1..Len(p1), NEW j \in 1..Len(p1), i < j
            PROVE  p1[i].call < p1[j].call
        <4>1. p[i + 1].call < p[j + 1].call
          BY <3>3, <3>5, <2>2, <2>6 DEF InOrder
        <4>. QED  BY <4>1, <3>3
      <3>6. ASSUME NEW i \in 1..Len(p1)
            PROVE  \E j \in 1..Len(q1) :
                     q1[j].large /\ q1[j].call = p1[i].call
        <4>1. i + 1 \in 1..Len(p) /\ 1 < i + 1 /\ p1[i] = p[i + 1]
          BY <3>3
        <4>2. p[1].call < p[i + 1].call
          <5>1. 1 \in 1..Len(p)
            BY <3>1, <2>2
          <5>. QED  BY <5>1, <4>1, <2>6 DEF InOrder
        <4>3. PICK j \in 1..Len(q) : q[j].large /\ q[j].call = p[i + 1].call
          BY <4>1, <2>6
        <4>4. j # 1
          BY <4>1, <4>2, <4>3, <3>1, <2>1, <2>2
        <4>5. j \in 2..Len(q)
          BY <4>4, <2>2
        <4>. QED  BY <4>1, <4>3, <4>5, <2>5
      <3>7. ASSUME NEW j \in 1..Len(q1), q1[j].large
            PROVE  \E i \in 1..Len(p1) : p1[i].call = q1[j].call
        <4>1. j + 1 \in 2..Len(q) /\ j + 1 \in 1..Len(q) /\ q1[j] = q[j + 1]
          BY <2>2, <2>4
        <4>2. PICK i \in 1..Len(p) : p[i].call = q[j + 1].call
          BY <4>1, <3>7, <2>6
        <4>3. i # 1
          BY <4>1, <4>2, <3>1, <2>1, <2>2
        <4>4. i \in 2..Len(p)
          BY <4>3, <2>2
        <4>. QED  BY <4>1, <4>2, <4>4, <3>4
      <3>. QED  BY <3>5, <3>6, <3>7, <1>2 DEF Payloads, Fits, InOrder
    <2>. QED  BY <2>7, <2>8
  <1>. QED  BY <1>1, <1>2

(* One slice of the scan finds a response. *)
LEMMA ExecCollect ==
  ASSUME ExecInv, NEW w \in Workers, Collect(w)
  PROVE  ExecInv'
  <1>. DEFINE chunk == Head(responses[w])
              answer == IF chunk.large THEN Head(payloads[w]) ELSE chunk
  <1>0. TypeOK /\ InCallOrder /\ SettledInOrder /\ InStep
        /\ ResponsesMatchUntilFailure
    BY DEF ExecInv
  <1>a. /\ collecting # NoCall /\ w \in pending /\ responses[w] # <<>>
        /\ chunk.large => Arrived(w)
        /\ responses' = [responses EXCEPT ![w] = Tail(@)]
        /\ payloads' = IF chunk.large THEN [payloads EXCEPT ![w] = Tail(@)]
                       ELSE payloads
        /\ UNCHANGED <<kind, futures_queue, target, fetched, lost, engine_dead,
                       requests, sending, workers, monitor>>
    BY DEF Collect
  <1>p. ASSUME chunk.large
        PROVE  payloads[w] # <<>>
    <2>1. Arrived(w) /\ sending[w] \in BOOLEAN
      BY <1>p, <1>a, <1>0 DEF TypeOK
    <2>2. payloads[w] \in Seq(Response) /\ Len(payloads[w]) \in Nat
      BY <1>0, Lengths
    <2>3. Len(payloads[w]) > 0
      BY <2>1, <2>2 DEF Arrived
    <2>. QED  BY <2>2, <2>3, EmptySeq
  <1>b. /\ answer.call \in Calls /\ answer.ok \in BOOLEAN
        /\ Tail(responses[w]) \in Seq(Chunk)
        /\ chunk.large => Tail(payloads[w]) \in Seq(Response)
    <2>1. /\ responses[w] \in Seq(Chunk) /\ payloads[w] \in Seq(Response)
      BY <1>0, Lengths
    <2>2. chunk \in Chunk /\ Tail(responses[w]) \in Seq(Chunk)
      BY <2>1, <1>a, HeadTailProperties
    <2>3. CASE chunk.large
      <3>1. /\ Head(payloads[w]) \in Response
            /\ Tail(payloads[w]) \in Seq(Response)
        BY <2>1, <2>3, <1>p, HeadTailProperties
      <3>. QED  BY <3>1, <2>2, <2>3 DEF Response
    <2>4. CASE ~chunk.large
      BY <2>2, <2>4 DEF Chunk
    <2>. QED  BY <2>3, <2>4
  <1>c. /\ responses' \in [Workers -> Seq(Chunk)]
        /\ payloads' \in [Workers -> Seq(Response)]
    <2>. HIDE DEF chunk
    <2>1. /\ responses \in [Workers -> Seq(Chunk)]
          /\ payloads \in [Workers -> Seq(Response)]
      BY <1>0 DEF TypeOK
    <2>. QED  BY <2>1, <1>a, <1>b
  <1>d. /\ collecting = Popped /\ collecting \in Calls
        /\ collecting \in Nat /\ outcome[collecting] = "none"
    BY <1>0, <1>a, CollectingMade
  <1>e. Popped' = Popped /\ Popped \in Int /\ Calls \subseteq Nat
    BY <1>0, <1>a, Lengths DEF Popped
  <1>f. \A k : ReplyRanks(k)' = ReplyRanks(k)
    BY <1>a DEF ReplyRanks
  <1>g. InCallOrder'
    BY <1>0, <1>a DEF InCallOrder, Handled, Popped
  <1>1. CASE ~answer.ok
    BY <1>1, <1>a, <1>c, ExecFail DEF Collect
  <1>2. CASE answer.ok
    <2>1. got' = [got EXCEPT ![collecting][w] = answer.call]
      BY <1>2 DEF Collect
    <2>2. got' \in [Calls -> [Workers -> Calls \cup {NoCall}]]
      BY <2>1, <1>0, <1>b, <1>d DEF TypeOK
    <2>3. /\ got'[collecting][w] = answer.call
          /\ \A v \in Workers \ {w} : got'[collecting][v] = got[collecting][v]
          /\ \A k \in Calls \ {collecting} : got'[k] = got[k]
      BY <2>1, <1>0, <1>d DEF TypeOK
    <2>4. ASSUME NoError,
                 NEW v \in ReplyRanks(collecting) \ (pending \ {w}), Intact(v)
          PROVE  got'[collecting][v] = collecting
      <3>1. CASE v = w
        <4>1. CASE chunk.large
          BY <4>1, <3>1, <2>3, <2>4, <1>a, <1>p, PayloadIsOwn
        <4>2. CASE ~chunk.large
          BY <4>2, <3>1, <2>3, <2>4, <1>a, HeadIsOwn
        <4>. QED  BY <4>1, <4>2
      <3>2. CASE v # w
        <4>1. got[collecting][v] = collecting
          BY <3>2, <2>4, <1>0, <1>a DEF InStep
        <4>2. v \in Workers
          BY ExecutorAssumption DEF ReplyRanks
        <4>. QED  BY <4>1, <4>2, <3>2, <2>3
      <3>. QED  BY <3>1, <3>2
    <2>5. CASE pending = {w}
      <3>1. /\ outcome' = [outcome EXCEPT ![collecting] = "ok"]
            /\ collecting' = NoCall /\ pending' = {}
        BY <1>2, <2>5 DEF Collect, Settle
      <3>2. /\ outcome'[collecting] = "ok"
            /\ \A k \in Calls \ {collecting} : outcome'[k] = outcome[k]
        BY <3>1, <1>0, <1>d DEF TypeOK
      <3>3. TypeOK'
        BY <1>0, <1>a, <1>c, <2>2, <3>1, <1>d DEF TypeOK, workers, monitor
      <3>4. SettledInOrder'
        <4>1. ASSUME NEW k \in Calls
              PROVE  outcome'[k] = "none" <=> k > Popped \/ k = NoCall
          <5>1. outcome[k] = "none" <=> k > Popped \/ k = collecting
            BY <1>0 DEF SettledInOrder
          <5>2. k # 0
            BY DEF Calls
          <5>3. CASE k = collecting
            BY <5>3, <5>2, <1>d, <1>e, <3>2
          <5>4. CASE k # collecting
            BY <5>4, <5>1, <5>2, <3>2
          <5>. QED  BY <5>3, <5>4
        <4>. QED  BY <4>1, <1>0, <1>a, <1>e, <3>1 DEF SettledInOrder
      <3>5. InStep'
        <4>1. ASSUME NoError'
              PROVE  NoError
          BY <4>1, <3>2, <1>d DEF NoError
        <4>2. ASSUME NoError, NEW v \in Workers, Intact(v)
              PROVE  Answers(v)' /\ Payloads(v)'
          <5>1. Taken(v)' = IF v = w THEN Popped ELSE Taken(v)
            BY <3>1, <2>5, <1>a, <1>e DEF Taken
          <5>. QED  BY <4>2, <5>1, CollectAnswers, CollectPayloads
        <4>3. \A v \in Workers : Intact(v)' => Intact(v)
          BY <1>a DEF Intact
        <4>. QED  BY <4>1, <4>2, <4>3, <3>1 DEF InStep
      <3>6. ResponsesMatchUntilFailure'
        <4>. SUFFICES ASSUME NEW k \in Calls, NEW v \in Workers,
                             NothingLost(k, v),
                             \A j \in 1..(k - 1) : outcome'[j] # "error"
                      PROVE  OwnResponse(k, v)'
          BY <1>a DEF ResponsesMatchUntilFailure, NothingLost
        <4>1. ASSUME NEW j \in 1..(k - 1)
              PROVE  outcome[j] # "error" /\ j \in Calls
          <5>1. j \in Calls
            BY ExecutorAssumption DEF Calls
          <5>. QED  BY <5>1, <1>d, <3>2
        <4>2. CASE k = collecting
          <5>1. ASSUME NEW j \in Calls
                PROVE  outcome[j] # "error"
            <6>1. CASE j < k
              <7>1. j \in 1..(k - 1)
                BY <6>1, <1>e DEF Calls
              <7>. QED  BY <7>1, <4>1
            <6>2. CASE ~(j < k)
              <7>1. j > Popped \/ j = collecting
                BY <6>2, <4>2, <1>d, <1>e
              <7>. QED  BY <7>1, <1>0 DEF SettledInOrder
            <6>. QED  BY <6>1, <6>2
          <5>2. NoError
            BY <5>1 DEF NoError
          <5>3. Intact(v)
            <6>1. ASSUME NEW j \in Calls
                  PROVE  v \notin lost[j]
              <7>1. CASE j <= k
                BY <7>1, <1>e DEF NothingLost, Calls
              <7>2. CASE ~(j <= k)
                <8>1. j > Popped
                  BY <7>2, <4>2, <1>d, <1>e
                <8>. QED  BY <8>1, <1>0 DEF SettledInOrder
              <7>. QED  BY <7>1, <7>2
            <6>. QED  BY <6>1 DEF Intact
          <5>. QED  BY <5>2, <5>3, <2>4, <2>5, <4>2, <1>f DEF OwnResponse
        <4>3. CASE k # collecting
          <5>1. OwnResponse(k, v)
            BY <4>1, <1>0 DEF ResponsesMatchUntilFailure
          <5>. QED  BY <5>1, <4>3, <3>2, <2>3, <1>f DEF OwnResponse
        <4>. QED  BY <4>2, <4>3
      <3>. QED  BY <3>3, <1>g, <3>4, <3>5, <3>6 DEF ExecInv
    <2>6. CASE pending # {w}
      <3>1. pending' = pending \ {w} /\ outcome' = outcome
            /\ collecting' = collecting
        BY <1>2, <2>6 DEF Collect
      <3>3. TypeOK'
        BY <1>0, <1>a, <1>c, <2>2, <3>1 DEF TypeOK, workers, monitor
      <3>4. SettledInOrder'
        BY <1>0, <1>a, <1>e, <1>f, <3>1 DEF SettledInOrder
      <3>5. InStep'
        <4>2. ASSUME NoError, NEW v \in Workers, Intact(v)
              PROVE  Answers(v)' /\ Payloads(v)'
          <5>1. Taken(v)' = IF v = w THEN Popped ELSE Taken(v)
            BY <3>1, <1>a, <1>e DEF Taken
          <5>. QED  BY <4>2, <5>1, CollectAnswers, CollectPayloads
        <4>3. /\ NoError' => NoError
              /\ \A v : Intact(v)' <=> Intact(v)
          BY <3>1, <1>a DEF NoError, Intact
        <4>. QED  BY <4>2, <4>3, <3>1, <2>4, <1>f DEF InStep
      <3>6. ResponsesMatchUntilFailure'
        <4>. SUFFICES ASSUME NEW k \in Calls, NEW v \in Workers,
                             NothingLost(k, v),
                             \A j \in 1..(k - 1) : outcome[j] # "error",
                             outcome[k] = "ok", v \in ReplyRanks(k)
                      PROVE  got'[k][v] = k
          BY <3>1, <1>a, <1>f
             DEF ResponsesMatchUntilFailure, NothingLost, OwnResponse
        <4>1. k # collecting
          BY <1>d
        <4>. QED  BY <4>1, <1>0, <2>3
                  DEF ResponsesMatchUntilFailure, OwnResponse
      <3>. QED  BY <3>3, <1>g, <3>4, <3>5, <3>6 DEF ExecInv
    <2>. QED  BY <2>5, <2>6
  <1>. QED  BY <1>1, <1>2
(* A slice ends between a chunk and its payload: nothing is claimed of the *)
(* rank any more, the others stay in step.                                 *)
LEMMA ExecSlice ==
  ASSUME ExecInv, NEW w \in Workers, SliceTimesOut(w)
  PROVE  ExecInv'
  <1>0. TypeOK /\ InCallOrder /\ SettledInOrder /\ InStep
        /\ ResponsesMatchUntilFailure
    BY DEF ExecInv
  <1>a. /\ collecting # NoCall /\ responses[w] # <<>>
        /\ responses' = [responses EXCEPT ![w] = Tail(@)]
        /\ lost' = [lost EXCEPT ![collecting] = @ \cup {w}]
        /\ UNCHANGED <<kind, futures_queue, outcome, got, collecting, pending,
                       target, fetched, engine_dead, requests, payloads,
                       sending, workers, monitor>>
    BY DEF SliceTimesOut
  <1>b. collecting = Popped /\ collecting \in Calls
    BY <1>0, <1>a, CollectingMade
  <1>c. /\ lost' \in [Calls -> SUBSET Workers] /\ w \in lost'[collecting]
        /\ \A k \in Calls : lost[k] \subseteq lost'[k]
        /\ \A k \in Calls \ {collecting} : lost'[k] = lost[k]
    BY <1>0, <1>a, <1>b DEF TypeOK
  <1>d. /\ responses' \in [Workers -> Seq(Chunk)]
        /\ \A v \in Workers \ {w} : responses'[v] = responses[v]
    <2>1. responses \in [Workers -> Seq(Chunk)]
      BY <1>0 DEF TypeOK
    <2>2. Tail(responses[w]) \in Seq(Chunk)
      BY <2>1, <1>a, HeadTailProperties
    <2>. QED  BY <2>1, <2>2, <1>a
  <1>e. Popped' = Popped /\ Popped \in Int /\ Calls \subseteq Nat
    BY <1>0, <1>a, Lengths DEF Popped
  <1>1. TypeOK'
    BY <1>0, <1>a, <1>c, <1>d DEF TypeOK, workers, monitor
  <1>2. InCallOrder'
    BY <1>0, <1>a DEF InCallOrder, Handled, Popped
  <1>3. SettledInOrder'
    <2>1. ASSUME NEW k \in Calls, k > Popped
          PROVE  lost'[k] = {}
      <3>1. k # collecting
        BY <2>1, <1>b, <1>e
      <3>. QED  BY <3>1, <2>1, <1>0, <1>c DEF SettledInOrder
    <2>2. ReplyRanks(collecting)' = ReplyRanks(collecting)
      BY <1>a DEF ReplyRanks
    <2>. QED  BY <2>1, <2>2, <1>0, <1>a, <1>e DEF SettledInOrder
  <1>4. InStep'
    <2>0. \A v : Intact(v)' => Intact(v) /\ v # w
      BY <1>b, <1>c DEF Intact
    <2>1. NoError' => NoError
      BY <1>a DEF NoError
    <2>2. ASSUME NoError, NEW v \in Workers, Intact(v), v # w
          PROVE  Answers(v)' /\ Payloads(v)'
      <3>1. responses'[v] = responses[v]
        BY <2>2, <1>d
      <3>2. Answers(v) /\ Payloads(v)
        BY <2>2, <1>0 DEF InStep
      <3>3. Answers(v)'
        BY <3>1, <3>2, <1>a DEF Answers, Taken, Handled, Popped, ReplyRanks
      <3>4. Payloads(v)'
        BY <3>1, <3>2, <1>a DEF Payloads
      <3>. QED  BY <3>3, <3>4
    <2>3. ReplyRanks(collecting)' = ReplyRanks(collecting)
      BY <1>a DEF ReplyRanks
    <2>. QED  BY <2>0, <2>1, <2>2, <2>3, <1>0, <1>a DEF InStep
  <1>5. ResponsesMatchUntilFailure'
    <2>1. ASSUME NEW k \in Calls, NEW v \in Workers, NothingLost(k, v)'
          PROVE  NothingLost(k, v)
      <3>1. \A j \in 1..k : j \in Calls
        BY ExecutorAssumption DEF Calls
      <3>. QED  BY <3>1, <2>1, <1>c DEF NothingLost
    <2>. QED  BY <2>1, <1>0, <1>a
              DEF ResponsesMatchUntilFailure, OwnResponse, ReplyRanks
  <1>. QED  BY <1>1, <1>2, <1>3, <1>4, <1>5 DEF ExecInv

(* A rank executes the next call and, if it is asked to, answers it. *)
LEMMA ExecAnswer ==
  ASSUME ExecInv, NEW w \in Workers, NEW ok \in BOOLEAN,
         NEW large \in BOOLEAN, Answer(w, ok, large),
         UNCHANGED <<engine, monitor>>,
         wstate' \in [Workers -> {"up", "stuck", "exiting", "dead"}],
         raised' \in [Calls -> SUBSET Workers], faults' \in 0..MaxFaults
  PROVE  ExecInv'
  <1>. DEFINE k == Head(requests[w])
              a == [call |-> k, ok |-> ok, large |-> large]
              b == [call |-> k, ok |-> ok]
  <1>0. TypeOK /\ InCallOrder /\ SettledInOrder /\ InStep
        /\ ResponsesMatchUntilFailure
    BY DEF ExecInv
  <1>a. /\ requests[w] # <<>>
        /\ requests' = [requests EXCEPT ![w] = Tail(@)]
        /\ responses' = IF w \in ReplyRanks(k)
                        THEN [responses EXCEPT ![w] = Append(@, a)]
                        ELSE responses
        /\ payloads' = IF w \in ReplyRanks(k) /\ large
                       THEN [payloads EXCEPT ![w] = Append(@, b)]
                       ELSE payloads
        /\ sending' \in [Workers -> BOOLEAN]
    <2>1. sending \in [Workers -> BOOLEAN]
      BY <1>0 DEF TypeOK
    <2>2. CASE w \in ReplyRanks(k)
      BY <2>1, <2>2 DEF Answer, Replies
    <2>3. CASE w \notin ReplyRanks(k)
      BY <2>1, <2>3 DEF Answer, Replies, replies
    <2>. QED  BY <2>2, <2>3
  <1>b. /\ requests[w] \in Seq(Calls) /\ Len(requests[w]) \in Nat
        /\ Len(kind) \in Nat /\ Handled(w) \in Int
        /\ responses[w] \in Seq(Chunk) /\ Len(responses[w]) \in Nat
        /\ payloads[w] \in Seq(Response) /\ Len(payloads[w]) \in Nat
    BY <1>0, Lengths
  <1>c. /\ k \in Calls /\ k = requests[w][1] /\ Len(requests[w]) >= 1
        /\ Tail(requests[w]) \in Seq(Calls)
        /\ Len(Tail(requests[w])) = Len(requests[w]) - 1
        /\ \A i \in 1..Len(Tail(requests[w])) :
             Tail(requests[w])[i] = requests[w][i + 1]
    <2>1. Len(requests[w]) >= 1
      BY <1>a, <1>b, EmptySeq
    <2>. QED  BY <2>1, <1>a, <1>b, HeadTailProperties
  <1>d. /\ requests'[w] = Tail(requests[w])
        /\ \A v \in Workers \ {w} : requests'[v] = requests[v]
        /\ requests' \in [Workers -> Seq(Calls)]
    BY <1>0, <1>a, <1>c DEF TypeOK
  <1>e. k = Handled(w) + 1
    BY <1>0, <1>b, <1>c DEF InCallOrder
  <1>f. Handled(w)' = Handled(w) + 1
        /\ \A v \in Workers \ {w} : Handled(v)' = Handled(v)
    <2>1. kind' = kind
      BY DEF engine
    <2>2. Handled(w)' = Handled(w) + 1
      <3>1. Len(requests'[w]) = Len(requests[w]) - 1
        BY <1>c, <1>d
      <3>. QED  BY <3>1, <2>1, <1>b DEF Handled
    <2>. QED  BY <2>1, <2>2, <1>d DEF Handled
  <1>g. \A j : ReplyRanks(j)' = ReplyRanks(j)
    BY DEF ReplyRanks, engine
  <1>h. Popped' = Popped /\ \A v \in Workers : Taken(v)' = Taken(v)
    BY DEF Popped, Taken, engine
  <1>i. /\ responses' \in [Workers -> Seq(Chunk)]
        /\ \A v \in Workers \ {w} : responses'[v] = responses[v]
        /\ w \notin ReplyRanks(k) => responses'[w] = responses[w]
        /\ w \in ReplyRanks(k) =>
             /\ Len(responses'[w]) = Len(responses[w]) + 1
             /\ \A i \in 1..Len(responses[w]) :
                  responses'[w][i] = responses[w][i]
             /\ responses'[w][Len(responses[w]) + 1] = a
    <2>1. a \in Chunk /\ a.call = k /\ a.large = large
      BY <1>c DEF Chunk
    <2>2. /\ Append(responses[w], a) \in Seq(Chunk)
          /\ Len(Append(responses[w], a)) = Len(responses[w]) + 1
          /\ \A i \in 1..Len(responses[w]) :
               Append(responses[w], a)[i] = responses[w][i]
          /\ Append(responses[w], a)[Len(responses[w]) + 1] = a
      BY <2>1, <1>b, AppendProperties
    <2>. HIDE DEF a, k
    <2>3. responses \in [Workers -> Seq(Chunk)]
      BY <1>0 DEF TypeOK
    <2>4. CASE w \in ReplyRanks(k)
      <3>1. responses' = [responses EXCEPT ![w] = Append(@, a)]
        BY <2>4, <1>a
      <3>2. responses'[w] = Append(responses[w], a)
        BY <3>1, <2>3
      <3>3. responses' \in [Workers -> Seq(Chunk)]
        BY <3>1, <2>3, <2>2
      <3>4. \A v \in Workers \ {w} : responses'[v] = responses[v]
        BY <3>1, <2>3
      <3>. QED  BY <3>2, <3>3, <3>4, <2>1, <2>2, <2>4
    <2>5. CASE w \notin ReplyRanks(k)
      BY <2>5, <2>3, <1>a
    <2>. QED  BY <2>4, <2>5
  <1>j. /\ payloads' \in [Workers -> Seq(Response)]
        /\ \A v \in Workers \ {w} : payloads'[v] = payloads[v]
        /\ ~(w \in ReplyRanks(k) /\ large) => payloads'[w] = payloads[w]
        /\ w \in ReplyRanks(k) /\ large =>
             /\ Len(payloads'[w]) = Len(payloads[w]) + 1
             /\ \A i \in 1..Len(payloads[w]) : payloads'[w][i] = payloads[w][i]
             /\ payloads'[w][Len(payloads[w]) + 1].call = k
    <2>1. b \in Response /\ b.call = k
      BY <1>c DEF Response
    <2>2. /\ Append(payloads[w], b) \in Seq(Response)
          /\ Len(Append(payloads[w], b)) = Len(payloads[w]) + 1
          /\ \A i \in 1..Len(payloads[w]) :
               Append(payloads[w], b)[i] = payloads[w][i]
          /\ Append(payloads[w], b)[Len(payloads[w]) + 1] = b
      BY <2>1, <1>b, AppendProperties
    <2>. HIDE DEF b, k
    <2>3. payloads \in [Workers -> Seq(Response)]
      BY <1>0 DEF TypeOK
    <2>4. CASE w \in ReplyRanks(k) /\ large
      <3>1. payloads' = [payloads EXCEPT ![w] = Append(@, b)]
        BY <2>4, <1>a
      <3>2. payloads'[w] = Append(payloads[w], b)
        BY <3>1, <2>3
      <3>3. payloads' \in [Workers -> Seq(Response)]
        BY <3>1, <2>3, <2>2
      <3>4. \A v \in Workers \ {w} : payloads'[v] = payloads[v]
        BY <3>1, <2>3
      <3>. QED  BY <3>2, <3>3, <3>4, <2>1, <2>2, <2>4
    <2>5. CASE ~(w \in ReplyRanks(k) /\ large)
      BY <2>5, <2>3, <1>a
    <2>. QED  BY <2>4, <2>5
  <1>k. a.call = k /\ a.large = large
    OBVIOUS
  <1>. HIDE DEF k, a, b
  <1>1. TypeOK'
    BY <1>0, <1>a, <1>d, <1>i, <1>j DEF TypeOK, engine, monitor
  <1>2. InCallOrder'
    <2>1. kind' = kind /\ futures_queue' = futures_queue
      BY DEF engine
    <2>2. /\ Len(requests'[w]) <= Len(kind)
          /\ \A i \in 1..Len(requests'[w]) :
               requests'[w][i] = (Handled(w) + 1) + i
      <3>1. Len(requests'[w]) <= Len(kind)
        BY <1>0, <1>b, <1>c, <1>d DEF InCallOrder
      <3>2. ASSUME NEW i \in 1..Len(requests'[w])
            PROVE  requests'[w][i] = (Handled(w) + 1) + i
        <4>1. i + 1 \in 1..Len(requests[w])
          BY <1>b, <1>c, <1>d
        <4>2. requests[w][i + 1] = Handled(w) + (i + 1)
          BY <4>1, <1>0 DEF InCallOrder
        <4>. QED  BY <4>2, <1>b, <1>c, <1>d
      <3>. QED  BY <3>1, <3>2
    <2>3. ASSUME NEW v \in Workers
          PROVE  /\ Len(requests'[v]) <= Len(kind)
                 /\ \A i \in 1..Len(requests'[v]) :
                      requests'[v][i] = Handled(v)' + i
      <3>1. CASE v = w
        BY <3>1, <2>2, <1>f
      <3>2. CASE v # w
        BY <3>2, <1>0, <1>d, <1>f DEF InCallOrder
      <3>. QED  BY <3>1, <3>2
    <2>. QED  BY <2>1, <2>3, <1>0, <1>h DEF InCallOrder
  <1>3. SettledInOrder'
    BY <1>0, <1>g, <1>h DEF SettledInOrder, engine
  <1>4. InStep'
    <2>. SUFFICES ASSUME NoError
                  PROVE  \A v \in Workers :
                           Intact(v) => Answers(v)' /\ Payloads(v)'
      BY <1>0, <1>g DEF InStep, NoError, Intact, engine
    <2>0. kind' = kind
      BY DEF engine
    <2>1. ASSUME NEW v \in Workers, v # w, Intact(v)
          PROVE  Answers(v)' /\ Payloads(v)'
      <3>1. Answers(v) /\ Payloads(v)
        BY <2>1, <1>0 DEF InStep
      <3>2. responses'[v] = responses[v] /\ Handled(v)' = Handled(v)
            /\ Taken(v)' = Taken(v) /\ payloads'[v] = payloads[v]
        BY <2>1, <1>f, <1>h, <1>i, <1>j
      <3>3. Answers(v)'
        BY <3>1, <3>2, <2>0, <1>g DEF Answers
      <3>4. Payloads(v)'
        <4>1. responses'[v] = responses[v] /\ payloads'[v] = payloads[v]
          BY <3>2
        <4>. QED  BY <4>1, <3>1 DEF Payloads
      <3>. QED  BY <3>3, <3>4
    <2>2. ASSUME Intact(w)
          PROVE  Answers(w)'
      <3>1. Answers(w)
        BY <2>2, <1>0 DEF InStep
      <3>2. /\ Handled(w)' = Handled(w) + 1 /\ Taken(w)' = Taken(w)
            /\ Taken(w) \in Int /\ k \in Nat
            /\ \A i \in 1..Len(responses[w]) : responses[w][i].call \in Nat
        BY <1>0, <1>c, <1>f, <1>h, Lengths
      <3>0. ASSUME NEW j \in 1..Len(kind), j <= Taken(w), w \in ReplyRanks(j)
            PROVE  j <= Handled(w) + 1
        <4>1. j <= Handled(w)
          BY <3>0, <3>1 DEF Answers
        <4>. QED  BY <4>1, <1>b
      <3>3. CASE w \notin ReplyRanks(k)
        <4>1. responses'[w] = responses[w]
          BY <3>3, <1>i
        <4>2. ASSUME NEW i \in 1..Len(responses[w])
              PROVE  /\ Taken(w) < responses[w][i].call
                     /\ responses[w][i].call <= Handled(w) + 1
                     /\ w \in ReplyRanks(responses[w][i].call)
          <5>1. /\ Taken(w) < responses[w][i].call
                /\ responses[w][i].call <= Handled(w)
                /\ w \in ReplyRanks(responses[w][i].call)
            BY <3>1 DEF Answers
          <5>. QED  BY <5>1, <3>2, <1>b
        <4>3. ASSUME NEW j \in 1..Len(kind),
                     Taken(w) < j, j <= Handled(w) + 1, w \in ReplyRanks(j)
              PROVE  \E i \in 1..Len(responses[w]) : responses[w][i].call = j
          <5>1. j # k
            BY <3>3, <4>3
          <5>2. j <= Handled(w)
            BY <5>1, <4>3, <1>b, <1>e
          <5>. QED  BY <5>2, <4>3, <3>1 DEF Answers
        <4>. QED  BY <4>1, <4>2, <4>3, <3>0, <3>1, <3>2, <2>0, <1>g
                  DEF Answers
      <3>4. CASE w \in ReplyRanks(k)
        <4>. DEFINE n == Len(responses[w])
        <4>1. /\ n \in Nat /\ Len(responses'[w]) = n + 1
              /\ \A i \in 1..n : responses'[w][i] = responses[w][i]
              /\ responses'[w][n + 1].call = k
          BY <3>4, <1>b, <1>i, <1>k
        <4>2. \A i \in 1..n : responses[w][i].call <= Handled(w)
          BY <3>1 DEF Answers
        <4>3. k \in 1..Len(kind)
          <5>1. k >= 1 /\ Len(requests[w]) >= 1
            BY <1>c, <3>2 DEF Calls
          <5>. QED  BY <5>1, <1>b, <1>e, <3>2 DEF Handled
        <4>4. Taken(w) < k
          <5>1. ~(k <= Handled(w))
            BY <1>b, <1>e
          <5>2. ~(k <= Taken(w))
            BY <5>1, <4>3, <3>1, <3>4 DEF Answers
          <5>. QED  BY <5>2, <3>2
        <4>5. ASSUME NEW i \in 1..(n + 1), NEW j \in 1..(n + 1), i < j
              PROVE  responses'[w][i].call < responses'[w][j].call
          <5>1. i \in 1..n
            BY <4>5, <4>1
          <5>2. CASE j \in 1..n
            BY <5>1, <5>2, <4>1, <4>5, <3>1 DEF Answers
          <5>3. CASE j = n + 1
            <6>1. responses[w][i].call < k
              BY <5>1, <4>2, <1>b, <1>e, <3>2
            <6>. QED  BY <6>1, <5>1, <5>3, <4>1
          <5>. QED  BY <5>2, <5>3, <4>1
        <4>6. ASSUME NEW i \in 1..(n + 1)
              PROVE  /\ Taken(w) < responses'[w][i].call
                     /\ responses'[w][i].call <= Handled(w) + 1
                     /\ w \in ReplyRanks(responses'[w][i].call)
          <5>1. CASE i \in 1..n
            <6>1. /\ Taken(w) < responses[w][i].call
                  /\ responses[w][i].call <= Handled(w)
                  /\ w \in ReplyRanks(responses[w][i].call)
              BY <5>1, <3>1 DEF Answers
            <6>2. responses'[w][i] = responses[w][i]
              BY <5>1, <4>1
            <6>3. responses[w][i].call \in Nat /\ Handled(w) \in Int
              BY <5>1, <1>0, Lengths
            <6>4. responses[w][i].call <= Handled(w) + 1
              BY <6>1, <6>3
            <6>. QED  BY <6>1, <6>2, <6>4
          <5>2. CASE i = n + 1
            BY <5>2, <4>1, <4>4, <3>4, <1>e, <1>b
          <5>. QED  BY <5>1, <5>2, <4>1
        <4>7. ASSUME NEW j \in 1..Len(kind),
                     Taken(w) < j, j <= Handled(w) + 1, w \in ReplyRanks(j)
              PROVE  \E i \in 1..(n + 1) : responses'[w][i].call = j
          <5>1. CASE j = k
            BY <5>1, <4>1
          <5>2. CASE j # k
            <6>1. j <= Handled(w)
              BY <5>2, <4>7, <1>b, <1>e
            <6>2. PICK i \in 1..Len(responses[w]) : responses[w][i].call = j
              BY <6>1, <4>7, <3>1 DEF Answers
            <6>3. i \in 1..(n + 1) /\ responses'[w][i] = responses[w][i]
              BY <6>2, <4>1
            <6>. QED  BY <6>2, <6>3
          <5>. QED  BY <5>1, <5>2
        <4>. HIDE DEF n
        <4>. QED  BY <4>1, <4>5, <4>6, <4>7, <3>0, <3>2, <2>0, <1>g
                  DEF Answers
      <3>. QED  BY <3>3, <3>4
    <2>3. ASSUME Intact(w)
          PROVE  Payloads(w)'
      <3>. DEFINE q == responses[w]
                  p == payloads[w]
                  q1 == responses'[w]
                  p1 == payloads'[w]
      <3>1. /\ InOrder(p)
            /\ \A i \in 1..Len(p) :
                 \E j \in 1..Len(q) : q[j].large /\ q[j].call = p[i].call
            /\ \A j \in 1..Len(q) :
                 q[j].large => \E i \in 1..Len(p) : p[i].call = q[j].call
        BY <2>3, <1>0 DEF InStep, Payloads, Fits
      <3>2. CASE w \notin ReplyRanks(k)
        <4>1. q1 = q /\ p1 = p
          BY <3>2, <1>i, <1>j
        <4>2. Fits(q, p)
          BY <3>1 DEF Fits
        <4>. QED  BY <4>1, <4>2 DEF Payloads
      <3>3. CASE w \in ReplyRanks(k) /\ ~large
        <4>1. /\ p1 = p /\ Len(q1) = Len(q) + 1 /\ Len(q) \in Nat
              /\ \A i \in 1..Len(q) : q1[i] = q[i] /\ i \in 1..Len(q1)
              /\ ~q1[Len(q) + 1].large
          BY <3>3, <1>b, <1>i, <1>j, <1>k
        <4>2. ASSUME NEW i \in 1..Len(p)
              PROVE  \E j \in 1..Len(q1) : q1[j].large /\ q1[j].call = p[i].call
          <5>1. PICK j \in 1..Len(q) : q[j].large /\ q[j].call = p[i].call
            BY <3>1
          <5>. QED  BY <5>1, <4>1
        <4>3. ASSUME NEW j \in 1..Len(q1), q1[j].large
              PROVE  \E i \in 1..Len(p) : p[i].call = q1[j].call
          <5>1. j \in 1..Len(q)
            BY <4>1, <4>3
          <5>2. q1[j] = q[j]
            BY <5>1, <4>1
          <5>3. \E i \in 1..Len(p) : p[i].call = q[j].call
            BY <5>1, <5>2, <4>3, <3>1
          <5>. QED  BY <5>2, <5>3
        <4>. QED  BY <4>1, <4>2, <4>3, <3>1 DEF Payloads, Fits
      <3>4. CASE w \in ReplyRanks(k) /\ large
        <4>1. /\ Len(q1) = Len(q) + 1 /\ Len(q) \in Nat
              /\ \A i \in 1..Len(q) : q1[i] = q[i] /\ i \in 1..Len(q1)
              /\ q1[Len(q) + 1].large /\ q1[Len(q) + 1].call = k
              /\ Len(q) + 1 \in 1..Len(q1)
          <5>1. /\ Len(q1) = Len(q) + 1 /\ Len(q) \in Nat
                /\ \A i \in 1..Len(q) : q1[i] = q[i]
                /\ q1[Len(q) + 1] = a
            BY <3>4, <1>b, <1>i
          <5>. QED  BY <5>1, <3>4, <1>k
        <4>2. /\ Len(p1) = Len(p) + 1 /\ Len(p) \in Nat
              /\ \A i \in 1..Len(p) : p1[i] = p[i] /\ i \in 1..Len(p1)
              /\ p1[Len(p) + 1].call = k
              /\ Len(p) + 1 \in 1..Len(p1)
          BY <3>4, <1>b, <1>j
        <4>3. ASSUME NEW i \in 1..Len(p)
              PROVE  p[i].call < k
          <5>1. PICK j \in 1..Len(q) : q[j].large /\ q[j].call = p[i].call
            BY <3>1
          <5>2. q[j].call <= Handled(w)
            BY <2>3, <1>0 DEF InStep, Answers
          <5>3. q[j].call \in Nat /\ k \in Nat
            BY <1>0, <1>c, Lengths
          <5>. QED  BY <5>1, <5>2, <5>3, <1>b, <1>e
        <4>4. ASSUME NEW i \in 1..Len(p1), NEW j \in 1..Len(p1), i < j
              PROVE  p1[i].call < p1[j].call
          <5>1. i \in 1..Len(p)
            BY <4>2, <4>4
          <5>2. CASE j \in 1..Len(p)
            BY <5>1, <5>2, <4>2, <4>4, <3>1 DEF InOrder
          <5>3. CASE j = Len(p) + 1
            BY <5>1, <5>3, <4>2, <4>3
          <5>. QED  BY <5>2, <5>3, <4>2
        <4>5. ASSUME NEW i \in 1..Len(p1)
              PROVE  \E j \in 1..Len(q1) :
                       q1[j].large /\ q1[j].call = p1[i].call
          <5>1. CASE i \in 1..Len(p)
            <6>1. PICK j \in 1..Len(q) : q[j].large /\ q[j].call = p[i].call
              BY <5>1, <3>1
            <6>. QED  BY <6>1, <5>1, <4>1, <4>2
          <5>2. CASE i = Len(p) + 1
            BY <5>2, <4>1, <4>2
          <5>. QED  BY <5>1, <5>2, <4>2
        <4>6. ASSUME NEW j \in 1..Len(q1), q1[j].large
              PROVE  \E i \in 1..Len(p1) : p1[i].call = q1[j].call
          <5>1. CASE j \in 1..Len(q)
            <6>1. PICK i \in 1..Len(p) : p[i].call = q[j].call
              BY <5>1, <4>1, <4>6, <3>1
            <6>. QED  BY <6>1, <5>1, <4>1, <4>2
          <5>2. CASE j = Len(q) + 1
            BY <5>2, <4>1, <4>2
          <5>. QED  BY <5>1, <5>2, <4>1
        <4>. QED  BY <4>4, <4>5, <4>6 DEF Payloads, Fits, InOrder
      <3>. QED  BY <3>2, <3>3, <3>4
    <2>. QED  BY <2>1, <2>2, <2>3
  <1>5. ResponsesMatchUntilFailure'
    BY <1>0 DEF ResponsesMatchUntilFailure, NothingLost, OwnResponse,
                ReplyRanks, engine
  <1>. QED  BY <1>1, <1>2, <1>3, <1>4, <1>5 DEF ExecInv
(* The queues stay in call order and, until a call fails, in step. *)
LEMMA ExecNext ==
  ASSUME ExecInv, [Next]_vars
  PROVE  ExecInv'
  <1>0. TypeOK
    BY DEF ExecInv
  <1>1. CASE \E q \in Kinds : CollectiveRpc(q)
    BY <1>1, ExecRpc
  <1>2. CASE (\E k \in Calls : Result(k)) \/ Return
    BY <1>2, ExecResult
  <1>3. CASE PopFuture
    BY <1>3, ExecPop
  <1>4. CASE \E w \in Workers : Collect(w)
    BY <1>4, ExecCollect
  <1>5. CASE AbortFailed \/ Deadline
    BY <1>0, <1>5, ExecFail DEF AbortFailed, Deadline, TypeOK, replies
  <1>6. ASSUME NEW w \in Workers, NEW large \in BOOLEAN, Execute(w, large)
        PROVE  ExecInv'
    BY <1>0, <1>6, ExecAnswer DEF Execute, workers, TypeOK
  <1>12. ASSUME NEW w \in Workers, SliceTimesOut(w)
         PROVE  ExecInv'
    BY <1>12, ExecSlice
  <1>13. ASSUME NEW w \in Workers, SendPayload(w)
         PROVE  ExecInv'
    BY <1>0, <1>13, ExecUntouched
       DEF SendPayload, TypeOK, workers, monitor
  <1>7. ASSUME NEW w \in Workers, NEW device \in BOOLEAN, Raise(w, device)
        PROVE  ExecInv'
    <2>1. Head(requests[w]) \in Calls
      BY <1>0, <1>7, Lengths, HeadTailProperties DEF Raise, Answer
    <2>2. wstate' \in [Workers -> {"up", "stuck", "exiting", "dead"}]
      BY <1>0, <1>7 DEF Raise, TypeOK
    <2>3. raised' \in [Calls -> SUBSET Workers]
      BY <1>0, <1>7, <2>1 DEF Raise, TypeOK
    <2>4. faults' \in 0..MaxFaults
      BY <1>0, <1>7, ExecutorAssumption DEF Raise, TypeOK
    <2>. QED  BY <1>7, <2>2, <2>3, <2>4, ExecAnswer DEF Raise
  <1>8. ASSUME NEW w \in Workers, GetStuck(w) \/ Exit(w)
        PROVE  ExecInv'
    BY <1>0, <1>8, ExecUntouched DEF GetStuck, Exit, TypeOK, monitor, replies
  <1>9. ASSUME NEW w \in Workers, Crash(w)
        PROVE  ExecInv'
    <2>1. faults' \in 0..MaxFaults
      BY <1>0, <1>9, ExecutorAssumption DEF Crash, TypeOK
    <2>. QED  BY <1>0, <1>9, <2>1, ExecUntouched
              DEF Crash, TypeOK, monitor, replies
  <1>10. CASE NoticeDeath \/ ShutdownWorkers
    BY <1>0, <1>10, ExecUntouched
       DEF NoticeDeath, ShutdownWorkers, TypeOK, workers, replies
  <1>11. CASE UNCHANGED vars
    BY <1>0, <1>11, ExecUntouched DEF vars, workers, monitor, replies, TypeOK
  <1>. QED
    BY <1>1, <1>2, <1>3, <1>4, <1>5, <1>6, <1>7, <1>8, <1>9, <1>10, <1>11,
       <1>12, <1>13
       DEF Next, EngineStep

(* collective_rpc, FutureWrapper.result, get_response and worker_busy_loop *)
(* keep every queue in the order of the calls, and, until a call fails,    *)
(* the ring and the socket of each rank of which no chunk was released for *)
(* nothing in step with the calls still to be answered.                    *)
THEOREM ExecInductive == Spec => []ExecInv
  BY ExecInit, ExecNext, PTL DEF Spec

(* The engine pops a future only when one is queued, and no variable ever  *)
(* leaves its type.                                                        *)
THEOREM ExecTypeOK == Spec => []TypeOK
  <1>1. ExecInv => TypeOK
    BY DEF ExecInv
  <1>. QED  BY <1>1, ExecInductive, PTL

(* FutureWrapper.result and get_response: as long as no earlier call       *)
(* failed, a call that succeeds has, of every rank of which no response    *)
(* was lost between chunk and payload up to then, the response to this     *)
(* very call, for any number of ranks and of calls in flight.              *)
THEOREM ExecResponses == Spec => []ResponsesMatchUntilFailure
  <1>1. ExecInv => ResponsesMatchUntilFailure
    BY DEF ExecInv
  <1>. QED  BY <1>1, ExecInductive, PTL
=============================================================================
