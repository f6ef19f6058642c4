--------------------------- MODULE RemoteKV_proofs ---------------------------
(***************************************************************************)
(* Blocks under a transfer stay put, blocks whose free waits for a         *)
(* transfer come back with its report, and a token is taken only from a    *)
(* pass whose KV was loaded or computed, for any requests, blocks, offers  *)
(* of the connector, failures and aborts.                                  *)
(***************************************************************************)
EXTENDS RemoteKV, Queues_proofs

Active == {"WAITING", "RUNNING", "PREEMPTED", "WAITING_FOR_REMOTE_KVS"}

LoopType ==
  [idx : Nat, budget : Int, toks : [Requests -> Int], sync : SUBSET Requests,
   preempted : BOOLEAN, stepSkipped : Seq(Requests)]

TransferType ==
  [kind : {"none", "loading", "loaded", "sending", "sent"}, on : SUBSET Blocks,
   fails : SUBSET Blocks]

ReportType ==
  [recv : SUBSET Requests, sent : SUBSET Requests, invalid : SUBSET Blocks]

(* `valid' is history, and its type is needed nowhere. *)
TypeOK ==
  /\ status \in [Requests -> Active \cup {"NONE", "FINISHED"}]
  /\ computed \in [Requests -> Int] /\ tokens \in [Requests -> Nat]
  /\ blocks \in [Requests -> Seq(Blocks)]
  /\ preemptions \in [Requests -> BOOLEAN]
  /\ requests \subseteq Requests /\ free \subseteq Blocks
  /\ running \in Seq(Requests) /\ waiting \in Seq(Requests)
  /\ skipped \in Seq(Requests)
  /\ inflight_prefills \subseteq Requests
  /\ finished_recving \subseteq Requests /\ failed_recving \subseteq Requests
  /\ pc \in {"idle", "running", "waiting", "end", "execute", "output"}
  /\ loop \in LoopType
  /\ config \in [recompute : BOOLEAN, reserveFullISL : BOOLEAN]
  /\ xfer \in [Requests -> TransferType]
  /\ bad \subseteq Blocks
  /\ report \in ReportType
  /\ failed \subseteq Requests /\ failures \in 0..MaxFailures

(* The running queue holds requests that run, each once. *)
RunningOnce ==
  /\ IsInjective(running)
  /\ \A i \in DOMAIN running : status[running[i]] = "RUNNING"

(* Every block is free or in one table; only tracked requests, which all    *)
(* active ones are, have a table.                                          *)
Partitioned ==
  /\ \A r \in Requests : Table(r) \cap free = {}
  /\ \A r, q \in Requests : r # q => Table(r) \cap Table(q) = {}
  /\ \A b \in Blocks : b \in free \/ \E r \in Requests : b \in Table(r)

Untracked ==
  \A r \in Requests \ requests : blocks[r] = <<>> /\ status[r] \notin Active

Owners == Partitioned /\ Untracked

(* What a transfer of r, or the report of one, says about r *)
TransferOf(r) ==
  /\ xfer[r].kind \in {"loading", "loaded"} =>
       /\ status[r] \in {"WAITING_FOR_REMOTE_KVS", "FINISHED"}
       /\ r \notin finished_recving
  /\ xfer[r].kind \in {"sending", "sent"} => status[r] = "FINISHED"
  /\ xfer[r].kind # "none" => xfer[r].on \subseteq Table(r)
  /\ AwaitsLoad(r) =>
       xfer[r].kind \in {"loading", "loaded"} \/ r \in report.recv
  /\ r \in finished_recving => status[r] = "WAITING_FOR_REMOTE_KVS"
  /\ r \in report.recv =>
       /\ xfer[r].kind = "none" /\ r \notin finished_recving
       /\ status[r] \in {"WAITING_FOR_REMOTE_KVS", "FINISHED"}
  /\ r \in report.sent => xfer[r].kind = "none" /\ status[r] = "FINISHED"
  /\ (r \in requests /\ status[r] = "FINISHED") =>
       xfer[r].kind # "none" \/ r \in report.recv \cup report.sent

Transfers ==
  /\ \A r \in Requests : TransferOf(r)
  /\ pc # "output" => report = NoReport

RemoteInv == TypeOK /\ RunningOnce /\ Owners /\ Transfers

USE DEF Active

(* The numbers among the constants *)
LEMMA Numbers ==
  /\ NumBlocks \in Nat /\ TokenBudget \in Nat /\ MaxFailures \in Nat
  /\ BlockSize \in Nat /\ BlockSize > 0
  /\ \A r \in Requests : PromptLen[r] \in Nat /\ ExtTokens[r] \subseteq Nat
  BY RemoteAssumption

(* The pool is a finite set of numbers. *)
LEMMA BlocksFinite ==
  ASSUME NEW S \in SUBSET Blocks
  PROVE  S \in SUBSET Int /\ IsFiniteSet(S)
  <1>1. IsFiniteSet(Blocks) /\ Blocks \subseteq Int
    BY Numbers, FS_Interval DEF Blocks
  <1>. QED  BY <1>1, FS_Subset

(* Tables list blocks. *)
LEMMA TableType ==
  ASSUME TypeOK, NEW r \in Requests
  PROVE  Table(r) \subseteq Blocks
  <1>1. blocks[r] \in Seq(Blocks)
    BY DEF TypeOK
  <1>2. blocks[r] \in [1..Len(blocks[r]) -> Blocks]
    BY <1>1, LenProperties
  <1>. QED  BY <1>2 DEF Table, ToSet

(* GetNewBlocks moves blocks from the pool to the end of r's table. *)
LEMMA NewBlocks ==
  ASSUME TypeOK, NEW r \in Requests, NEW n, GetNewBlocks(r, n)
  PROVE  /\ blocks' \in [Requests -> Seq(Blocks)]
         /\ free' \subseteq free
         /\ ToSet(blocks'[r]) = ToSet(blocks[r]) \cup (free \ free')
         /\ \A q \in Requests \ {r} : blocks'[q] = blocks[q]
  <1>. DEFINE new == Smallest(n, free)
              asc == Ascending(new)
  <1>1. new \in SUBSET free /\ new \in SUBSET Blocks
    BY DEF Smallest, TypeOK
  <1>2. /\ blocks' = [blocks EXCEPT ![r] = @ \o asc]
        /\ free' = free \ new
    BY DEF GetNewBlocks
  <1>. HIDE DEF new
  <1>3. /\ asc \in Seq(new)
        /\ DOMAIN asc = 1..Cardinality(new)
        /\ \A x \in new : \E i \in DOMAIN asc : asc[i] = x
    BY <1>1, BlocksFinite, AscendingLists
  <1>. HIDE DEF asc
  <1>4. asc \in Seq(Blocks) /\ \A i \in DOMAIN asc : asc[i] \in new
    <2>1. asc \in [1..Len(asc) -> new] /\ Len(asc) \in Nat /\ DOMAIN asc = 1..Len(asc)
      BY <1>3, LenProperties
    <2>2. asc \in [1..Len(asc) -> Blocks]
      BY <1>1, <2>1
    <2>. QED  BY <2>1, <2>2, SeqDef
  <1>5. blocks \in [Requests -> Seq(Blocks)] /\ blocks[r] \in Seq(Blocks)
    BY DEF TypeOK
  <1>6. blocks[r] \o asc \in Seq(Blocks)
    BY <1>4, <1>5, ConcatProperties
  <1>7. ToSet(blocks[r] \o asc) = ToSet(blocks[r]) \cup new
    <2>. DEFINE s == blocks[r]
                c == s \o asc
    <2>1. /\ Len(c) = Len(s) + Len(asc) /\ Len(s) \in Nat /\ Len(asc) \in Nat
          /\ DOMAIN s = 1..Len(s) /\ DOMAIN asc = 1..Len(asc)
          /\ DOMAIN c = 1..(Len(s) + Len(asc))
      BY <1>4, <1>5, <1>6, ConcatProperties, LenProperties
    <2>2. \A i \in 1..(Len(s) + Len(asc)) :
            c[i] = IF i <= Len(s) THEN s[i] ELSE asc[i - Len(s)]
      BY <1>4, <1>5, ConcatProperties
    <2>. HIDE DEF c, s
    <2>3. ASSUME NEW i \in DOMAIN c
          PROVE  c[i] \in ToSet(s) \cup new
      <3>1. CASE i <= Len(s)
        BY <2>1, <2>2, <2>3, <3>1 DEF ToSet
      <3>2. CASE ~(i <= Len(s))
        <4>1. i - Len(s) \in DOMAIN asc
          BY <2>1, <2>3, <3>2
        <4>. QED  BY <1>4, <2>1, <2>2, <2>3, <3>2, <4>1
      <3>. QED  BY <3>1, <3>2
    <2>4. ASSUME NEW i \in DOMAIN s
          PROVE  \E k \in DOMAIN c : c[k] = s[i]
      <3>1. i \in DOMAIN c /\ i \in 1..(Len(s) + Len(asc)) /\ i <= Len(s)
        BY <2>1, <2>4
      <3>. QED  BY <2>2, <3>1
    <2>5. ASSUME NEW x \in new
          PROVE  \E k \in DOMAIN c : c[k] = x
      <3>1. PICK i \in DOMAIN asc : asc[i] = x
        BY <1>3
      <3>2. /\ Len(s) + i \in DOMAIN c /\ Len(s) + i \in 1..(Len(s) + Len(asc))
            /\ ~(Len(s) + i <= Len(s)) /\ (Len(s) + i) - Len(s) = i
        BY <2>1, <3>1
      <3>3. c[Len(s) + i] = x
        BY <2>2, <3>1, <3>2
      <3>. QED  BY <3>2, <3>3
    <2>6. ToSet(c) = ToSet(s) \cup new
      BY <2>3, <2>4, <2>5 DEF ToSet
    <2>. QED  BY <2>6 DEF c, s
  <1>8. blocks'[r] = blocks[r] \o asc
    BY <1>2, <1>5
  <1>9. free \ free' = new
    BY <1>1, <1>2
  <1>10. blocks' \in [Requests -> Seq(Blocks)]
    BY <1>2, <1>5, <1>6
  <1>11. \A q \in Requests \ {r} : blocks'[q] = blocks[q]
    BY <1>2, <1>5
  <1>12. free' \subseteq free
    BY <1>2
  <1>. QED  BY <1>7, <1>8, <1>9, <1>10, <1>11, <1>12

(* Taking blocks from the pool keeps the partition. *)
LEMMA NewBlocksPartition ==
  ASSUME TypeOK, Partitioned, NEW r \in Requests, NEW n, GetNewBlocks(r, n)
  PROVE  Partitioned'
  <1>1. /\ free' \subseteq free
        /\ ToSet(blocks'[r]) = ToSet(blocks[r]) \cup (free \ free')
        /\ \A q \in Requests \ {r} : blocks'[q] = blocks[q]
    BY NewBlocks
  <1>2. \A q \in Requests \ {r} : ToSet(blocks'[q]) = ToSet(blocks[q])
    BY <1>1
  <1>3. \A q \in Requests : ToSet(blocks'[q]) \cap free' = {}
    BY <1>1, <1>2 DEF Partitioned, Table
  <1>4. \A p, q \in Requests : p # q => ToSet(blocks'[p]) \cap ToSet(blocks'[q]) = {}
    BY <1>1, <1>2 DEF Partitioned, Table
  <1>5. ASSUME NEW b \in Blocks
        PROVE  b \in free' \/ \E q \in Requests : b \in ToSet(blocks'[q])
    <2>1. CASE b \in free
      BY <1>1, <2>1
    <2>2. CASE b \notin free
      <3>1. PICK q \in Requests : b \in ToSet(blocks[q])
        BY <2>2 DEF Partitioned, Table
      <3>2. b \in ToSet(blocks'[q])
        BY <1>1, <1>2, <3>1
      <3>. QED  BY <3>2
    <2>. QED  BY <2>1, <2>2
  <1>. QED  BY <1>3, <1>4, <1>5 DEF Partitioned, Table

(* FreeBlocks empties the tables of S into the pool. *)
LEMMA FreedBlocks ==
  ASSUME TypeOK, Partitioned, NEW S \in SUBSET Requests, FreeBlocks(S)
  PROVE  /\ blocks' \in [Requests -> Seq(Blocks)] /\ free' \subseteq Blocks
         /\ \A q \in Requests \ S : blocks'[q] = blocks[q]
         /\ \A q \in S : blocks'[q] = <<>>
         /\ Partitioned'
  <1>1. /\ blocks' = [q \in Requests |-> IF q \in S THEN <<>> ELSE blocks[q]]
        /\ free' = free \cup UNION {ToSet(blocks[q]) : q \in S}
    BY DEF FreeBlocks, Table
  <1>2. blocks' \in [Requests -> Seq(Blocks)]
    BY <1>1, EmptySeq DEF TypeOK
  <1>3. \A q \in Requests : ToSet(blocks[q]) \subseteq Blocks
    BY TableType DEF Table
  <1>4. free' \subseteq Blocks
    BY <1>1, <1>3 DEF TypeOK
  <1>5. /\ \A q \in Requests \ S : blocks'[q] = blocks[q]
        /\ \A q \in S : blocks'[q] = <<>>
    BY <1>1
  <1>6. /\ \A q \in Requests \ S : ToSet(blocks'[q]) = ToSet(blocks[q])
        /\ \A q \in S : ToSet(blocks'[q]) = {}
    <2>1. ToSet(<<>>) = {}
      BY DEF ToSet
    <2>. QED  BY <1>5, <2>1
  <1>7. ASSUME NEW q \in Requests
        PROVE  ToSet(blocks'[q]) \cap free' = {}
    <2>1. CASE q \in S
      BY <1>6, <2>1
    <2>2. CASE q \notin S
      <3>1. ToSet(blocks'[q]) = ToSet(blocks[q])
        BY <1>6, <2>2
      <3>2. ToSet(blocks[q]) \cap free = {}
        BY DEF Partitioned, Table
      <3>3. \A p \in S : ToSet(blocks[q]) \cap ToSet(blocks[p]) = {}
        BY <2>2 DEF Partitioned, Table
      <3>. QED  BY <1>1, <3>1, <3>2, <3>3
    <2>. QED  BY <2>1, <2>2
  <1>8. \A p, q \in Requests : p # q => ToSet(blocks'[p]) \cap ToSet(blocks'[q]) = {}
    BY <1>6 DEF Partitioned, Table
  <1>9. \A b \in Blocks : b \in free' \/ \E q \in Requests : b \in ToSet(blocks'[q])
    BY <1>1, <1>6 DEF Partitioned, Table
  <1>10. Partitioned'
    BY <1>7, <1>8, <1>9 DEF Partitioned, Table
  <1>. QED  BY <1>2, <1>4, <1>5, <1>10

(* What r's transfer says about r still holds when nothing of r changes,    *)
(* except that its table may grow.                                         *)
LEMMA TransferKept ==
  ASSUME NEW r \in Requests, TransferOf(r), xfer'[r] = xfer[r],
         status'[r] = status[r], report' = report,
         r \in finished_recving' <=> r \in finished_recving,
         r \in requests' <=> r \in requests,
         ToSet(blocks[r]) \subseteq ToSet(blocks'[r])
  PROVE  TransferOf(r)'
  BY DEF TransferOf, AwaitsLoad, Table

(* An unchanged running queue, whose members still run *)
LEMMA RunningKept ==
  ASSUME TypeOK, RunningOnce, running' = running,
         \A r \in Requests : status[r] = "RUNNING" => status'[r] = "RUNNING"
  PROVE  RunningOnce'
  <1>1. running \in [1..Len(running) -> Requests]
    BY LenProperties DEF TypeOK
  <1>2. \A i \in DOMAIN running : running[i] \in Requests
    BY <1>1
  <1>. QED  BY <1>2 DEF RunningOnce

(* Requests ended by an abort or an output leave the running queue. *)
LEMMA RunningWithout ==
  ASSUME TypeOK, RunningOnce, NEW S, running' = Without(running, S),
         \A r \in Requests \ S : status'[r] = status[r]
  PROVE  RunningOnce' /\ running' \in Seq(Requests)
  <1>. DEFINE w == Without(running, S)
  <1>1. running \in Seq(Requests)
    BY DEF TypeOK
  <1>2. /\ w \in Seq(Requests)
        /\ \A k \in DOMAIN w : w[k] \notin S /\ \E i \in DOMAIN running : running[i] = w[k]
        /\ IsInjective(running) => IsInjective(w)
    BY <1>1, WithoutRemoves
  <1>3. \A k \in DOMAIN w : w[k] \in Requests
    <2>1. w \in [1..Len(w) -> Requests]
      BY <1>2, LenProperties
    <2>. QED  BY <2>1
  <1>. HIDE DEF w
  <1>4. running' = w
    BY DEF w
  <1>5. \A k \in DOMAIN w : status'[w[k]] = "RUNNING"
    BY <1>2, <1>3 DEF RunningOnce
  <1>. QED  BY <1>2, <1>4, <1>5 DEF RunningOnce

(* Initially there are no requests and all blocks are free. *)
LEMMA RemoteInit ==
  ASSUME Init
  PROVE  RemoteInv
  <1>1. TypeOK
    <2>1. Zero \in [Requests -> Int] /\ tokens \in [Requests -> Nat]
      BY Numbers DEF Init, Zero
    <2>2. NoLoop \in LoopType
      BY <2>1, EmptySeq DEF NoLoop, LoopType
    <2>3. NoTransfer \in TransferType /\ NoReport \in ReportType
      BY DEF NoTransfer, Transfer, TransferType, NoReport, ReportType
    <2>4. blocks \in [Requests -> Seq(Blocks)]
      BY EmptySeq DEF Init
    <2>5. /\ running \in Seq(Requests) /\ waiting \in Seq(Requests)
          /\ skipped \in Seq(Requests)
      BY EmptySeq DEF Init
    <2>. QED  BY <2>1, <2>2, <2>3, <2>4, <2>5, Numbers DEF Init, TypeOK
  <1>2. RunningOnce
    <2>1. DOMAIN running = {}
      BY DEF Init
    <2>. QED  BY <2>1 DEF RunningOnce, IsInjective
  <1>3. Owners
    <2>1. \A r \in Requests : Table(r) = {}
      BY DEF Init, Table, ToSet
    <2>. QED  BY <2>1 DEF Init, Owners, Partitioned, Untracked
  <1>4. Transfers
    BY DEF Init, Transfers, TransferOf, AwaitsLoad, NoTransfer, Transfer, NoReport
  <1>. QED  BY <1>1, <1>2, <1>3, <1>4 DEF RemoteInv

(* add_request: the new request has nothing yet. *)
LEMMA RemoteAdd ==
  ASSUME RemoteInv, NEW r \in Requests, AddRequest(r)
  PROVE  RemoteInv'
  <1>0. TypeOK /\ RunningOnce /\ Owners /\ Transfers
    BY DEF RemoteInv
  <1>1. /\ status[r] = "NONE" /\ status' = [status EXCEPT ![r] = "WAITING"]
        /\ waiting' = Append(waiting, r) /\ requests' = requests \cup {r}
        /\ pc = "idle" /\ UNCHANGED <<computed, tokens, blocks, preemptions,
             free, running, skipped, inflight_prefills, finished_recving,
             failed_recving, pc, loop, config, xfer, bad, valid, report, failed,
             failures>>
    BY DEF AddRequest, worker
  <1>2. TypeOK'
    <2>1. waiting' \in Seq(Requests)
      BY <1>0, <1>1, AppendProperties DEF TypeOK
    <2>2. /\ status' \in [Requests -> Active \cup {"NONE", "FINISHED"}]
          /\ requests' \subseteq Requests
      BY <1>0, <1>1 DEF TypeOK
    <2>. QED  BY <1>0, <1>1, <2>1, <2>2 DEF TypeOK
  <1>3. /\ status'[r] = "WAITING"
        /\ \A q \in Requests \ {r} : status'[q] = status[q]
    BY <1>0, <1>1 DEF TypeOK
  <1>4. RunningOnce'
    BY <1>0, <1>1, <1>3, RunningKept
  <1>5. Owners'
    BY <1>0, <1>1, <1>3 DEF Owners, Partitioned, Untracked, Table
  <1>6. ASSUME NEW q \in Requests
        PROVE  TransferOf(q)'
    <2>0. TransferOf(q)
      BY <1>0 DEF Transfers
    <2>1. CASE q = r
      <3>1. status[r] = "NONE" /\ TransferOf(r)
        BY <1>1, <2>0, <2>1
      <3>2. /\ xfer[r].kind \notin {"loading", "loaded", "sending", "sent"}
            /\ r \notin finished_recving /\ r \notin report.recv
            /\ r \notin report.sent
        BY <3>1 DEF TransferOf
      <3>3. xfer[r].kind = "none"
        BY <1>0, <3>2 DEF TypeOK, TransferType
      <3>. QED  BY <1>1, <1>3, <2>1, <3>2, <3>3 DEF TransferOf, AwaitsLoad
    <2>2. CASE q # r
      BY <1>1, <1>3, <2>0, <2>2, TransferKept
    <2>. QED  BY <2>1, <2>2
  <1>7. Transfers'
    BY <1>0, <1>1, <1>6 DEF Transfers
  <1>. QED  BY <1>2, <1>4, <1>5, <1>7 DEF RemoteInv

(* finish_requests: an unfinished load or a save keeps the blocks. *)
LEMMA RemoteFinish ==
  ASSUME RemoteInv, NEW r \in Requests, NEW save \in BOOLEAN,
         FinishRequest(r, save)
  PROVE  RemoteInv'
  <1>. DEFINE delay == AwaitsLoad(r) \/ save
              S == IF delay THEN {} ELSE {r}
  <1>0. /\ TypeOK /\ RunningOnce /\ Partitioned /\ Untracked /\ Transfers
        /\ TransferOf(r)
    BY DEF RemoteInv, Owners, Transfers
  <1>1. /\ pc \in {"idle", "output"} /\ r \in requests /\ status[r] # "FINISHED"
        /\ save => status[r] = "RUNNING"
        /\ FreeBlocks(S) /\ requests' = requests \ S
        /\ status' = [status EXCEPT ![r] = "FINISHED"]
        /\ xfer' = IF save THEN [xfer EXCEPT ![r] = Transfer("sending", Table(r))]
                            ELSE xfer
        /\ running' = Without(running, {r})
        /\ waiting' = Without(waiting, {r})
        /\ skipped' = Without(skipped, {r})
        /\ inflight_prefills' = inflight_prefills \ {r}
        /\ finished_recving' = finished_recving \ {r}
        /\ failed_recving' = failed_recving \ {r}
        /\ UNCHANGED <<computed, tokens, preemptions, pc, loop, config, bad,
                       valid, report, failed, failures>>
    BY DEF FinishRequest, MaySave
  <1>2. /\ blocks' \in [Requests -> Seq(Blocks)] /\ free' \subseteq Blocks
        /\ \A q \in Requests \ S : blocks'[q] = blocks[q]
        /\ \A q \in S : blocks'[q] = <<>>
        /\ Partitioned'
    BY <1>0, <1>1, FreedBlocks
  <1>3. /\ status'[r] = "FINISHED"
        /\ \A q \in Requests \ {r} : status'[q] = status[q]
        /\ status' \in [Requests -> Active \cup {"NONE", "FINISHED"}]
    BY <1>0, <1>1 DEF TypeOK
  <1>4. RunningOnce' /\ running' \in Seq(Requests)
    BY <1>0, <1>1, <1>3, RunningWithout
  <1>5. waiting' \in Seq(Requests) /\ skipped' \in Seq(Requests)
    BY <1>0, <1>1, WithoutRemoves DEF TypeOK
  <1>6. /\ xfer' \in [Requests -> TransferType]
        /\ \A q \in Requests \ {r} : xfer'[q] = xfer[q]
        /\ xfer'[r] = IF save THEN Transfer("sending", Table(r)) ELSE xfer[r]
    <2>1. Table(r) \subseteq Blocks
      BY <1>0, TableType
    <2>2. Transfer("sending", Table(r)) \in TransferType
      BY <2>1 DEF Transfer, TransferType
    <2>. QED  BY <1>0, <1>1, <2>2 DEF TypeOK
  <1>7. TypeOK'
    BY <1>0, <1>1, <1>2, <1>3, <1>4, <1>5, <1>6 DEF TypeOK
  <1>8. Untracked'
    BY <1>0, <1>1, <1>2, <1>3 DEF Untracked
  <1>9. ASSUME NEW q \in Requests \ {r}
        PROVE  TransferOf(q)'
    <2>1. TransferOf(q) /\ blocks'[q] = blocks[q]
      BY <1>0, <1>2 DEF Transfers
    <2>. QED  BY <1>1, <1>3, <1>6, <2>1, TransferKept
  <1>10. TransferOf(r)'
    <2>1. CASE save
      <3>1. /\ status[r] = "RUNNING" /\ blocks'[r] = blocks[r]
            /\ xfer'[r] = Transfer("sending", Table(r))
        BY <1>1, <1>2, <1>6, <2>1
      <3>2. r \notin report.recv /\ r \notin report.sent
        BY <1>0, <3>1 DEF TransferOf
      <3>. QED  BY <1>1, <1>3, <3>1, <3>2 DEF TransferOf, AwaitsLoad, Transfer, Table
    <2>2. CASE ~save /\ AwaitsLoad(r)
      <3>1. blocks'[r] = blocks[r] /\ xfer'[r] = xfer[r]
        BY <1>2, <1>6, <2>2
      <3>. QED  BY <1>0, <1>1, <1>3, <2>2, <3>1 DEF TransferOf, AwaitsLoad, Table
    <2>3. CASE ~save /\ ~AwaitsLoad(r)
      <3>1. xfer'[r] = xfer[r] /\ r \notin requests'
        BY <1>1, <1>6, <2>3
      <3>2. /\ xfer[r].kind \notin {"loading", "loaded", "sending", "sent"}
            /\ r \notin report.recv /\ r \notin report.sent
        BY <1>0, <1>1, <2>3 DEF TransferOf, AwaitsLoad
      <3>3. xfer[r].kind = "none"
        BY <1>0, <3>2 DEF TypeOK, TransferType
      <3>. QED  BY <1>1, <1>3, <3>1, <3>2, <3>3 DEF TransferOf, AwaitsLoad
    <2>. QED  BY <2>1, <2>2, <2>3
  <1>11. Transfers'
    BY <1>0, <1>1, <1>9, <1>10 DEF Transfers
  <1>. QED  BY <1>2, <1>4, <1>7, <1>8, <1>11 DEF RemoteInv, Owners

(* A step that moves no block and no request, and ends no pass, keeps all   *)
(* but the types.                                                          *)
LEMMA RemoteIdle ==
  ASSUME RemoteInv, TypeOK',
         UNCHANGED <<status, blocks, requests, free, running, finished_recving,
                     xfer, report>>,
         pc' = "output" => pc = "output", pc = "output" => pc' = "output"
  PROVE  RemoteInv'
  <1>0. TypeOK /\ RunningOnce /\ Owners /\ Transfers
    BY DEF RemoteInv
  <1>1. RunningOnce' /\ Owners'
    BY <1>0 DEF RunningOnce, Owners, Partitioned, Untracked, Table
  <1>2. \A r \in Requests : TransferOf(r)'
    BY <1>0, TransferKept DEF Transfers
  <1>3. Transfers'
    BY <1>0, <1>2 DEF Transfers
  <1>. QED  BY <1>1, <1>3 DEF RemoteInv

(* schedule() starts, and its first loop ends. *)
LEMMA RemoteStart ==
  ASSUME RemoteInv, StartSchedule \/ EndRunning
  PROVE  RemoteInv'
  <1>0. TypeOK
    BY DEF RemoteInv
  <1>1. CASE StartSchedule
    <2>1. loop' \in LoopType
      <3>1. Zero \in [Requests -> Int] /\ <<>> \in Seq(Requests)
        BY EmptySeq DEF Zero
      <3>2. loop' = [idx |-> 0, budget |-> TokenBudget, toks |-> Zero, sync |-> {},
                     preempted |-> FALSE, stepSkipped |-> <<>>]
        BY <1>1 DEF StartSchedule, NoLoop
      <3>. QED  BY <3>1, <3>2, Numbers DEF LoopType
    <2>2. pc = "idle" /\ pc' = "running" /\ UNCHANGED <<sched, config, worker>>
      BY <1>1 DEF StartSchedule
    <2>3. TypeOK'
      BY <1>0, <2>1, <2>2 DEF TypeOK, sched, worker
    <2>. QED  BY <2>2, <2>3, RemoteIdle DEF sched, worker
  <1>2. CASE EndRunning
    <2>1. /\ pc = "running" /\ pc' \in {"end", "waiting"}
          /\ UNCHANGED <<sched, loop, config, worker>>
      BY <1>2 DEF EndRunning
    <2>2. TypeOK'
      BY <1>0, <2>1 DEF TypeOK, sched, worker
    <2>. QED  BY <2>1, <2>2, RemoteIdle DEF sched, worker
  <1>. QED  BY <1>1, <1>2

(* The members of a queue are requests. *)
LEMMA Members ==
  ASSUME NEW q \in Seq(Requests)
  PROVE  /\ Len(q) \in Nat /\ DOMAIN q = 1..Len(q)
         /\ \A i \in 1..Len(q) : q[i] \in Requests
  BY LenProperties

(* A running request gets blocks. *)
LEMMA RemoteScheduleRunning ==
  ASSUME RemoteInv, ScheduleRunning
  PROVE  RemoteInv'
  <1>. DEFINE r == Current
  <1>0. TypeOK /\ RunningOnce /\ Partitioned /\ Untracked /\ Transfers
    BY DEF RemoteInv, Owners
  <1>1. /\ pc = "running" /\ GetNewBlocks(r, CurrentNeeds)
        /\ loop' = [loop EXCEPT !.idx = @ + 1, !.budget = @ - RunTokens,
                                !.toks[r] = RunTokens]
        /\ UNCHANGED <<status, computed, tokens, preemptions, requests, running,
                 waiting, skipped, inflight_prefills, finished_recving,
                 failed_recving, pc, config, xfer, bad, report, failed, failures>>
    BY DEF ScheduleRunning
  <1>2. r \in Requests /\ status[r] = "RUNNING"
    <2>1. loop.idx \in Nat /\ loop.idx < Len(running)
      BY <1>0 DEF ScheduleRunning, InRunningLoop, TypeOK, LoopType
    <2>2. running \in Seq(Requests)
      BY <1>0 DEF TypeOK
    <2>3. loop.idx + 1 \in DOMAIN running /\ running[loop.idx + 1] \in Requests
      BY <2>1, <2>2, Members
    <2>. QED  BY <1>0, <2>3 DEF RunningOnce, Current
  <1>3. r \in requests
    BY <1>0, <1>2 DEF Untracked
  <1>4. RunTokens \in Int
    BY <1>0, <1>2 DEF RunTokens, MinOf, TypeOK, LoopType
  <1>. HIDE DEF r
  <1>5. loop' \in LoopType
    <2>1. loop \in LoopType
      BY <1>0 DEF TypeOK
    <2>2. /\ [loop.toks EXCEPT ![r] = RunTokens] \in [Requests -> Int]
          /\ loop.idx + 1 \in Nat /\ loop.budget - RunTokens \in Int
      <3>1. loop.toks \in [Requests -> Int] /\ loop.idx \in Nat /\ loop.budget \in Int
        BY <2>1 DEF LoopType
      <3>2. [loop.toks EXCEPT ![r] = RunTokens] \in [Requests -> Int]
        BY <1>4, <3>1
      <3>. QED  BY <1>4, <3>1, <3>2
    <2>3. loop' = [idx |-> loop.idx + 1, budget |-> loop.budget - RunTokens,
                   toks |-> [loop.toks EXCEPT ![r] = RunTokens],
                   sync |-> loop.sync, preempted |-> loop.preempted,
                   stepSkipped |-> loop.stepSkipped]
      BY <1>1, <2>1 DEF LoopType
    <2>. QED  BY <2>1, <2>2, <2>3 DEF LoopType
  <1>6. /\ blocks' \in [Requests -> Seq(Blocks)]
        /\ free' \subseteq free
        /\ ToSet(blocks'[r]) = ToSet(blocks[r]) \cup (free \ free')
        /\ \A q \in Requests \ {r} : blocks'[q] = blocks[q]
    BY <1>0, <1>1, <1>2, NewBlocks
  <1>7. TypeOK'
    BY <1>0, <1>1, <1>5, <1>6 DEF TypeOK
  <1>8. Partitioned'
    BY <1>0, <1>1, <1>2, NewBlocksPartition
  <1>9. Untracked'
    BY <1>0, <1>1, <1>3, <1>6 DEF Untracked
  <1>10. RunningOnce'
    BY <1>0, <1>1 DEF RunningOnce
  <1>11. ASSUME NEW q \in Requests
         PROVE  TransferOf(q)'
    <2>1. TransferOf(q) /\ ToSet(blocks[q]) \subseteq ToSet(blocks'[q])
      BY <1>0, <1>6 DEF Transfers
    <2>. QED  BY <1>1, <2>1, TransferKept
  <1>12. Transfers'
    BY <1>0, <1>1, <1>11 DEF Transfers
  <1>. QED  BY <1>7, <1>8, <1>9, <1>10, <1>12 DEF RemoteInv, Owners

(* A request whose blocks are freed while it is active has no transfer. *)
LEMMA NoTransferWhileActive ==
  ASSUME TypeOK, NEW r \in Requests, TransferOf(r),
         status[r] \in {"NONE", "WAITING", "RUNNING", "PREEMPTED"}
           \/ r \in finished_recving
  PROVE  /\ xfer[r].kind = "none"
         /\ r \notin report.recv /\ r \notin report.sent
  <1>1. /\ xfer[r].kind \notin {"loading", "loaded", "sending", "sent"}
        /\ r \notin report.recv /\ r \notin report.sent
    BY DEF TransferOf
  <1>2. xfer[r].kind \in {"none", "loading", "loaded", "sending", "sent"}
    BY DEF TypeOK, TransferType
  <1>. QED  BY <1>1, <1>2

(* _preempt_request: a running request has no transfer, so its blocks may   *)
(* be freed.                                                               *)
LEMMA RemotePreempt ==
  ASSUME RemoteInv, PreemptForRunning
  PROVE  RemoteInv'
  <1>. DEFINE v == Last(running)
              n == Len(running)
  <1>0. TypeOK /\ RunningOnce /\ Partitioned /\ Untracked /\ Transfers
    BY DEF RemoteInv, Owners
  <1>1. /\ pc = "running" /\ FreeBlocks({v})
        /\ status' = [status EXCEPT ![v] = "PREEMPTED"]
        /\ computed' = [computed EXCEPT ![v] = 0]
        /\ preemptions' = [preemptions EXCEPT ![v] = TRUE]
        /\ inflight_prefills' = inflight_prefills \ {v}
        /\ running' = Front(running)
        /\ waiting' = <<v>> \o waiting
        /\ loop' = [loop EXCEPT !.preempted = TRUE]
        /\ pc' \in {"end", "running"}
        /\ UNCHANGED <<tokens, requests, skipped, finished_recving,
                       failed_recving, config, xfer, bad, valid, report,
                       failed, failures>>
    BY DEF PreemptForRunning, worker
  <1>2. /\ running \in Seq(Requests) /\ n \in Nat /\ n >= 1 /\ DOMAIN running = 1..n
        /\ \A i \in 1..n : running[i] \in Requests
    <2>1. running \in Seq(Requests) /\ waiting \in Seq(Requests)
      BY <1>0 DEF TypeOK
    <2>2. loop.idx \in Nat /\ loop.idx < n
      BY <1>0 DEF PreemptForRunning, InRunningLoop, TypeOK, LoopType
    <2>. QED  BY <2>1, <2>2, Members
  <1>3. v = running[n] /\ v \in Requests /\ status[v] = "RUNNING" /\ v \in requests
    BY <1>0, <1>2 DEF Last, RunningOnce, Untracked
  <1>4. /\ running' \in Seq(Requests) /\ DOMAIN running' = 1..(n - 1)
        /\ \A i \in 1..(n - 1) : running'[i] = running[i]
    <2>1. running' = SubSeq(running, 1, n - 1)
      BY <1>1 DEF Front
    <2>2. \A i \in 1..(n - 1) : running[i] \in Requests
      BY <1>2
    <2>3. /\ SubSeq(running, 1, n - 1) \in Seq(Requests)
          /\ Len(SubSeq(running, 1, n - 1)) = n - 1
          /\ \A i \in 1..(n - 1) : SubSeq(running, 1, n - 1)[i] = running[i]
      BY <1>2, <2>2, SubSeqProperties
    <2>. QED  BY <2>1, <2>3, Members
  <1>. HIDE DEF v
  <1>5. /\ status'[v] = "PREEMPTED"
        /\ \A q \in Requests \ {v} : status'[q] = status[q]
        /\ status' \in [Requests -> Active \cup {"NONE", "FINISHED"}]
    BY <1>0, <1>1, <1>3 DEF TypeOK
  <1>. HIDE DEF n
  <1>6. RunningOnce'
    <2>1. ASSUME NEW i \in 1..(n - 1)
          PROVE  status'[running'[i]] = "RUNNING"
      <3>1. i \in DOMAIN running /\ n \in DOMAIN running /\ i # n
        BY <1>2
      <3>2. running[i] # v
        BY <1>0, <1>3, <3>1 DEF RunningOnce, IsInjective
      <3>3. running[i] \in Requests /\ status[running[i]] = "RUNNING"
        BY <1>0, <1>2, <3>1 DEF RunningOnce
      <3>. QED  BY <1>4, <1>5, <3>2, <3>3
    <2>2. IsInjective(running')
      <3>1. 1..(n - 1) \subseteq DOMAIN running
        BY <1>2
      <3>. QED  BY <1>0, <1>4, <3>1 DEF RunningOnce, IsInjective
    <2>. QED  BY <1>4, <2>1, <2>2 DEF RunningOnce
  <1>7. /\ blocks' \in [Requests -> Seq(Blocks)] /\ free' \subseteq Blocks
        /\ \A q \in Requests \ {v} : blocks'[q] = blocks[q]
        /\ blocks'[v] = <<>>
        /\ Partitioned'
    <2>1. {v} \in SUBSET Requests
      BY <1>3
    <2>. QED  BY <1>0, <1>1, <2>1, FreedBlocks
  <1>8. TypeOK'
    <2>1. waiting' \in Seq(Requests)
      <3>1. <<v>> \in Seq(Requests) /\ waiting \in Seq(Requests)
        BY <1>0, <1>3 DEF TypeOK
      <3>. QED  BY <1>1, <3>1, ConcatProperties
    <2>2. loop' \in LoopType
      BY <1>0, <1>1 DEF TypeOK, LoopType
    <2>3. computed' \in [Requests -> Int]
      <3>1. computed \in [Requests -> Int] /\ computed' = [computed EXCEPT ![v] = 0]
        BY <1>0, <1>1 DEF TypeOK
      <3>2. ASSUME NEW q \in Requests
            PROVE  computed'[q] \in Int
        <4>1. CASE q = v
          BY <3>1, <4>1
        <4>2. CASE q # v
          BY <3>1, <4>2
        <4>. QED  BY <4>1, <4>2
      <3>3. computed' = [q \in Requests |-> computed'[q]]
        BY <3>1
      <3>. QED  BY <3>2, <3>3
    <2>4. preemptions' \in [Requests -> BOOLEAN]
      BY <1>0, <1>1 DEF TypeOK
    <2>. QED  BY <1>0, <1>1, <1>4, <1>5, <1>7, <2>1, <2>2, <2>3, <2>4 DEF TypeOK
  <1>9. Untracked'
    BY <1>0, <1>1, <1>3, <1>5, <1>7 DEF Untracked
  <1>10. ASSUME NEW q \in Requests
         PROVE  TransferOf(q)'
    <2>0. TransferOf(q)
      BY <1>0 DEF Transfers
    <2>1. CASE q = v
      <3>1. /\ xfer[v].kind = "none" /\ v \notin report.recv /\ v \notin report.sent
        BY <1>0, <1>3, <2>0, <2>1, NoTransferWhileActive
      <3>. QED  BY <1>1, <1>5, <2>0, <2>1, <3>1, <1>3 DEF TransferOf, AwaitsLoad
    <2>2. CASE q # v
      <3>1. blocks'[q] = blocks[q] /\ status'[q] = status[q]
        BY <1>5, <1>7, <2>2
      <3>. QED  BY <1>1, <2>0, <3>1, TransferKept
    <2>. QED  BY <2>1, <2>2
  <1>11. Transfers'
    BY <1>0, <1>1, <1>10 DEF Transfers
  <1>. QED  BY <1>6, <1>7, <1>8, <1>9, <1>11 DEF RemoteInv, Owners

(* Setting one entry of a function to the integers *)
LEMMA SetEntry ==
  ASSUME NEW f \in [Requests -> Int], NEW r \in Requests, NEW x \in Int
  PROVE  [f EXCEPT ![r] = x] \in [Requests -> Int]
  OBVIOUS

(* The next waiting request is one, and is taken from its queue. *)
LEMMA Waiting ==
  ASSUME TypeOK, InWaitingLoop
  PROVE  /\ NextWaiting \in Requests
         /\ PopWaiting => waiting' \in Seq(Requests) /\ skipped' \in Seq(Requests)
  <1>1. waiting \in Seq(Requests) /\ skipped \in Seq(Requests)
    BY DEF TypeOK
  <1>2. CASE skipped # <<>>
    <2>1. Head(skipped) \in Requests /\ Tail(skipped) \in Seq(Requests)
      BY <1>1, <1>2, HeadTailProperties
    <2>. QED  BY <1>1, <1>2, <2>1 DEF NextWaiting, PopWaiting
  <1>3. CASE skipped = <<>>
    <2>1. waiting # <<>>
      BY <1>3 DEF InWaitingLoop
    <2>2. Head(waiting) \in Requests /\ Tail(waiting) \in Seq(Requests)
      BY <1>1, <2>1, HeadTailProperties
    <2>. QED  BY <1>1, <1>3, <2>2 DEF NextWaiting, PopWaiting
  <1>. QED  BY <1>2, <1>3

(* Requests passed over in a step are requests. *)
LEMMA StepSkipped ==
  ASSUME TypeOK, NEW r \in Requests, loop' = [loop EXCEPT !.stepSkipped = <<r>> \o @]
  PROVE  loop' \in LoopType
  <1>1. loop \in LoopType /\ loop.stepSkipped \in Seq(Requests)
    BY DEF TypeOK, LoopType
  <1>2. <<r>> \o loop.stepSkipped \in Seq(Requests)
    BY <1>1, ConcatProperties
  <1>. QED  BY <1>1, <1>2 DEF LoopType

(* A load that is not finished is passed over. *)
LEMMA RemoteSkip ==
  ASSUME RemoteInv, SkipLoading
  PROVE  RemoteInv'
  <1>0. TypeOK
    BY DEF RemoteInv
  <1>1. /\ pc = "waiting" /\ InWaitingLoop /\ PopWaiting
        /\ loop' = [loop EXCEPT !.stepSkipped = <<NextWaiting>> \o @]
        /\ UNCHANGED <<status, computed, tokens, blocks, preemptions, requests, free,
                 running, inflight_prefills, finished_recving,
                 failed_recving, pc, config, xfer, bad, valid, report, failed, failures>>
    BY DEF SkipLoading, worker
  <1>2. NextWaiting \in Requests /\ waiting' \in Seq(Requests) /\ skipped' \in Seq(Requests)
    BY <1>0, <1>1, Waiting
  <1>3. loop' \in LoopType
    BY <1>0, <1>1, <1>2, StepSkipped
  <1>4. TypeOK'
    BY <1>0, <1>1, <1>2, <1>3 DEF TypeOK
  <1>. QED  BY <1>1, <1>4, RemoteIdle

(* _update_waiting_for_remote_kv: the load is over, so the blocks of a      *)
(* request without valid tokens may be freed.                              *)
LEMMA RemotePromote ==
  ASSUME RemoteInv, PromoteLoaded
  PROVE  RemoteInv'
  <1>. DEFINE r == NextWaiting
              S == IF r \in failed_recving /\ computed[r] = 0 THEN {r} ELSE {}
  <1>0. TypeOK /\ RunningOnce /\ Partitioned /\ Untracked /\ Transfers
    BY DEF RemoteInv, Owners
  <1>1. /\ pc = "waiting" /\ InWaitingLoop
        /\ status[r] = "WAITING_FOR_REMOTE_KVS" /\ r \in finished_recving
        /\ FreeBlocks(S)
        /\ computed' = [computed EXCEPT ![r] =
                          IF r \notin failed_recving /\ @ = tokens[r] THEN @ - 1 ELSE @]
        /\ status' = [status EXCEPT ![r] = IF preemptions[r] THEN "PREEMPTED"
                                                             ELSE "WAITING"]
        /\ finished_recving' = finished_recving \ {r}
        /\ failed_recving' = failed_recving \ {r}
        /\ UNCHANGED <<tokens, preemptions, requests, running, waiting, skipped,
                 inflight_prefills, pc, loop, config, xfer, bad, valid, report,
                 failed, failures>>
    BY DEF PromoteLoaded, worker
  <1>2. r \in Requests
    BY <1>0, <1>1, Waiting
  <1>3. /\ blocks' \in [Requests -> Seq(Blocks)] /\ free' \subseteq Blocks
        /\ \A q \in Requests \ S : blocks'[q] = blocks[q]
        /\ \A q \in S : blocks'[q] = <<>>
        /\ Partitioned'
    <2>1. S \in SUBSET Requests
      BY <1>2
    <2>. QED  BY <1>0, <1>1, <2>1, FreedBlocks
  <1>4. r \in requests /\ TransferOf(r)
    BY <1>0, <1>1, <1>2 DEF Untracked, Transfers
  <1>5. \A q \in Requests \ {r} : blocks'[q] = blocks[q]
    BY <1>3
  <1>. HIDE DEF r, S
  <1>6. /\ status'[r] \in {"PREEMPTED", "WAITING"}
        /\ \A q \in Requests \ {r} : status'[q] = status[q]
        /\ status' \in [Requests -> Active \cup {"NONE", "FINISHED"}]
    BY <1>0, <1>1, <1>2 DEF TypeOK
  <1>7. computed' \in [Requests -> Int]
    <2>. DEFINE x == IF r \notin failed_recving /\ computed[r] = tokens[r]
                     THEN computed[r] - 1 ELSE computed[r]
    <2>1. computed \in [Requests -> Int] /\ computed[r] \in Int
      BY <1>0, <1>2 DEF TypeOK
    <2>2. x \in Int /\ computed' = [computed EXCEPT ![r] = x]
      BY <1>1, <2>1
    <2>. HIDE DEF x
    <2>. QED  BY <1>2, <2>1, <2>2, SetEntry
  <1>8. TypeOK'
    BY <1>0, <1>1, <1>3, <1>6, <1>7 DEF TypeOK
  <1>9. RunningOnce'
    BY <1>0, <1>1, <1>6, RunningKept
  <1>10. Untracked'
    BY <1>0, <1>1, <1>4, <1>5, <1>6 DEF Untracked
  <1>11. ASSUME NEW q \in Requests
         PROVE  TransferOf(q)'
    <2>1. CASE q = r
      <3>1. xfer[r].kind = "none" /\ r \notin report.recv /\ r \notin report.sent
        BY <1>0, <1>1, <1>2, <1>4, NoTransferWhileActive
      <3>. QED  BY <1>1, <1>6, <2>1, <3>1 DEF TransferOf, AwaitsLoad
    <2>2. CASE q # r
      <3>1. blocks'[q] = blocks[q] /\ status'[q] = status[q] /\ TransferOf(q)
        BY <1>0, <1>5, <1>6, <2>2 DEF Transfers
      <3>. QED  BY <1>1, <2>2, <3>1, TransferKept
    <2>. QED  BY <2>1, <2>2
  <1>12. Transfers'
    BY <1>0, <1>1, <1>11 DEF Transfers
  <1>. QED  BY <1>3, <1>8, <1>9, <1>10, <1>12 DEF RemoteInv, Owners

(* An asynchronous load takes blocks for a request that has no transfer. *)
LEMMA RemoteAdmitLoad ==
  ASSUME RemoteInv, NEW ext \in Offered, AdmitLoad(ext)
  PROVE  RemoteInv'
  <1>. DEFINE r == NextWaiting
  <1>0. TypeOK /\ RunningOnce /\ Partitioned /\ Untracked /\ Transfers
    BY DEF RemoteInv, Owners
  <1>1. /\ pc = "waiting" /\ InWaitingLoop /\ status[r] \in {"WAITING", "PREEMPTED"}
        /\ GetNewBlocks(r, BlocksToHold(r, ext)) /\ PopWaiting
        /\ status' = [status EXCEPT ![r] = "WAITING_FOR_REMOTE_KVS"]
        /\ computed' = [computed EXCEPT ![r] = ext]
        /\ inflight_prefills' = inflight_prefills \cup {r}
        /\ xfer' = [xfer EXCEPT ![r] = Transfer("loading", ToSet(blocks'[r]))]
        /\ loop' = [loop EXCEPT !.stepSkipped = <<r>> \o @]
        /\ UNCHANGED <<tokens, preemptions, requests, running, finished_recving,
                 failed_recving, pc, config, bad, report, failed, failures>>
    BY DEF AdmitLoad, Schedulable
  <1>2. r \in Requests /\ waiting' \in Seq(Requests) /\ skipped' \in Seq(Requests)
    BY <1>0, <1>1, Waiting
  <1>3. r \in requests /\ TransferOf(r)
    BY <1>0, <1>1, <1>2 DEF Untracked, Transfers
  <1>. HIDE DEF r
  <1>4. /\ blocks' \in [Requests -> Seq(Blocks)]
        /\ free' \subseteq free
        /\ ToSet(blocks'[r]) = ToSet(blocks[r]) \cup (free \ free')
        /\ \A q \in Requests \ {r} : blocks'[q] = blocks[q]
    BY <1>0, <1>1, <1>2, NewBlocks
  <1>5. Partitioned'
    BY <1>0, <1>1, <1>2, NewBlocksPartition
  <1>6. /\ status'[r] = "WAITING_FOR_REMOTE_KVS"
        /\ \A q \in Requests \ {r} : status'[q] = status[q]
        /\ status' \in [Requests -> Active \cup {"NONE", "FINISHED"}]
    BY <1>0, <1>1, <1>2 DEF TypeOK
  <1>7. /\ xfer' \in [Requests -> TransferType]
        /\ xfer'[r] = Transfer("loading", ToSet(blocks'[r]))
        /\ \A q \in Requests \ {r} : xfer'[q] = xfer[q]
    <2>1. ToSet(blocks'[r]) \subseteq Blocks
      <3>1. blocks'[r] \in Seq(Blocks)
        BY <1>2, <1>4
      <3>2. blocks'[r] \in [1..Len(blocks'[r]) -> Blocks]
        BY <3>1, LenProperties
      <3>. QED  BY <3>2 DEF ToSet
    <2>2. Transfer("loading", ToSet(blocks'[r])) \in TransferType
      BY <2>1 DEF Transfer, TransferType
    <2>. QED  BY <1>0, <1>1, <1>2, <2>2 DEF TypeOK
  <1>8. TypeOK'
    <2>1. ext \in Int
      BY Numbers DEF Offered
    <2>2. computed' \in [Requests -> Int]
      <3>1. computed \in [Requests -> Int]
        BY <1>0 DEF TypeOK
      <3>. QED  BY <1>1, <1>2, <2>1, <3>1, SetEntry
    <2>3. loop' \in LoopType
      BY <1>0, <1>1, <1>2, StepSkipped
    <2>. QED  BY <1>0, <1>1, <1>2, <1>4, <1>6, <1>7, <2>2, <2>3 DEF TypeOK
  <1>9. RunningOnce'
    BY <1>0, <1>1, <1>6, RunningKept
  <1>10. Untracked'
    BY <1>0, <1>1, <1>3, <1>4, <1>6 DEF Untracked
  <1>11. ASSUME NEW q \in Requests
         PROVE  TransferOf(q)'
    <2>1. CASE q = r
      <3>1. r \notin report.recv /\ r \notin report.sent
        BY <1>0, <1>1, <1>2, <1>3, NoTransferWhileActive
      <3>2. r \notin finished_recving
        BY <1>1, <1>3 DEF TransferOf
      <3>3. xfer'[r].kind = "loading" /\ xfer'[r].on = ToSet(blocks'[r])
        BY <1>7 DEF Transfer
      <3>. QED  BY <1>1, <1>6, <2>1, <3>1, <3>2, <3>3 DEF TransferOf, AwaitsLoad, Table
    <2>2. CASE q # r
      <3>1. /\ blocks'[q] = blocks[q] /\ status'[q] = status[q] /\ TransferOf(q)
            /\ xfer'[q] = xfer[q]
        BY <1>0, <1>4, <1>6, <1>7, <2>2 DEF Transfers
      <3>. QED  BY <1>1, <3>1, TransferKept
    <2>. QED  BY <2>1, <2>2
  <1>12. Transfers'
    BY <1>0, <1>1, <1>11 DEF Transfers
  <1>. QED  BY <1>5, <1>8, <1>9, <1>10, <1>12 DEF RemoteInv, Owners

(* A waiting request runs: it was not in the running queue. *)
LEMMA RemoteAdmitWaiting ==
  ASSUME RemoteInv, NEW ext \in Offered, AdmitWaiting(ext)
  PROVE  RemoteInv'
  <1>. DEFINE r == NextWaiting
              n == AdmitTokens(r, ext)
              m == Len(running)
  <1>0. TypeOK /\ RunningOnce /\ Partitioned /\ Untracked /\ Transfers
    BY DEF RemoteInv, Owners
  <1>1. /\ pc = "waiting" /\ InWaitingLoop /\ status[r] \in {"WAITING", "PREEMPTED"}
        /\ GetNewBlocks(r, BlocksToHold(r, computed[r] + ext + n)) /\ PopWaiting
        /\ running' = Append(running, r)
        /\ status' = [status EXCEPT ![r] = "RUNNING"]
        /\ computed' = [computed EXCEPT ![r] = @ + ext]
        /\ inflight_prefills' \subseteq inflight_prefills \cup {r}
        /\ loop' = [loop EXCEPT !.budget = @ - n, !.toks[r] = n,
                                !.sync = IF ext > 0 THEN @ \cup {r} ELSE @]
        /\ UNCHANGED <<tokens, preemptions, requests, finished_recving,
                 failed_recving, pc, config, xfer, bad, report, failed, failures>>
    BY DEF AdmitWaiting, Schedulable
  <1>2. r \in Requests /\ waiting' \in Seq(Requests) /\ skipped' \in Seq(Requests)
    BY <1>0, <1>1, Waiting
  <1>3. r \in requests /\ TransferOf(r)
    BY <1>0, <1>1, <1>2 DEF Untracked, Transfers
  <1>. HIDE DEF r
  <1>4. /\ blocks' \in [Requests -> Seq(Blocks)]
        /\ free' \subseteq free
        /\ ToSet(blocks'[r]) = ToSet(blocks[r]) \cup (free \ free')
        /\ \A q \in Requests \ {r} : blocks'[q] = blocks[q]
    BY <1>0, <1>1, <1>2, NewBlocks
  <1>5. Partitioned'
    BY <1>0, <1>1, <1>2, NewBlocksPartition
  <1>6. /\ status'[r] = "RUNNING"
        /\ \A q \in Requests \ {r} : status'[q] = status[q]
        /\ status' \in [Requests -> Active \cup {"NONE", "FINISHED"}]
    BY <1>0, <1>1, <1>2 DEF TypeOK
  <1>7. /\ ext \in Int /\ computed[r] \in Int /\ n \in Int /\ loop \in LoopType
        /\ computed \in [Requests -> Int]
    <2>1. ext \in Int
      BY Numbers DEF Offered
    <2>2. /\ computed[r] \in Int /\ tokens[r] \in Int /\ loop \in LoopType
          /\ loop.budget \in Int /\ computed \in [Requests -> Int]
      BY <1>0, <1>2 DEF TypeOK, LoopType
    <2>3. n \in Int
      BY <2>1, <2>2 DEF AdmitTokens, MinOf
    <2>. QED  BY <2>1, <2>2, <2>3
  <1>. HIDE DEF n
  <1>8. loop' \in LoopType
    <2>1. /\ loop.toks \in [Requests -> Int] /\ loop.budget - n \in Int
          /\ loop.sync \subseteq Requests
      BY <1>7 DEF LoopType
    <2>2. [loop.toks EXCEPT ![r] = n] \in [Requests -> Int]
      BY <1>2, <1>7, <2>1, SetEntry
    <2>3. loop' = [idx |-> loop.idx, budget |-> loop.budget - n,
                   toks |-> [loop.toks EXCEPT ![r] = n],
                   sync |-> IF ext > 0 THEN loop.sync \cup {r} ELSE loop.sync,
                   preempted |-> loop.preempted,
                   stepSkipped |-> loop.stepSkipped]
      BY <1>1, <1>7 DEF LoopType
    <2>. QED  BY <1>2, <1>7, <2>1, <2>2, <2>3 DEF LoopType
  <1>9. computed' \in [Requests -> Int]
    <2>1. computed' = [computed EXCEPT ![r] = computed[r] + ext] /\ computed[r] + ext \in Int
      BY <1>1, <1>7
    <2>. QED  BY <1>2, <1>7, <2>1, SetEntry
  <1>10. /\ running \in Seq(Requests) /\ m \in Nat /\ DOMAIN running = 1..m
         /\ \A i \in 1..m : running[i] \in Requests
    BY <1>0, Members DEF TypeOK
  <1>11. /\ running' \in Seq(Requests) /\ DOMAIN running' = 1..(m + 1)
         /\ \A i \in 1..m : running'[i] = running[i]
         /\ running'[m + 1] = r
    <2>1. /\ Append(running, r) \in Seq(Requests)
          /\ Len(Append(running, r)) = m + 1
          /\ \A i \in 1..m : Append(running, r)[i] = running[i]
          /\ Append(running, r)[m + 1] = r
      BY <1>2, <1>10, AppendProperties
    <2>. QED  BY <1>1, <2>1, Members
  <1>12. RunningOnce'
    <2>. HIDE DEF m
    <2>1. \A i \in 1..m : status[running[i]] = "RUNNING" /\ running[i] # r
      BY <1>0, <1>1, <1>10 DEF RunningOnce
    <2>2. \A i \in 1..m : status'[running[i]] = "RUNNING"
      BY <1>6, <1>10, <2>1
    <2>3. \A i \in 1..(m + 1) : i \in 1..m \/ i = m + 1
      BY <1>10
    <2>4. \A i \in DOMAIN running' : status'[running'[i]] = "RUNNING"
      BY <1>6, <1>11, <2>2, <2>3
    <2>5. IsInjective(running')
      BY <1>0, <1>10, <1>11, <2>1, <2>3 DEF RunningOnce, IsInjective
    <2>. QED  BY <2>4, <2>5 DEF RunningOnce
  <1>13. TypeOK'
    BY <1>0, <1>1, <1>2, <1>4, <1>6, <1>8, <1>9, <1>11 DEF TypeOK
  <1>14. Untracked'
    BY <1>0, <1>1, <1>3, <1>4, <1>6 DEF Untracked
  <1>15. ASSUME NEW q \in Requests
         PROVE  TransferOf(q)'
    <2>1. CASE q = r
      <3>1. xfer[r].kind = "none" /\ r \notin report.recv /\ r \notin report.sent
        BY <1>0, <1>1, <1>2, <1>3, NoTransferWhileActive
      <3>2. r \notin finished_recving
        BY <1>1, <1>3 DEF TransferOf
      <3>. QED  BY <1>1, <1>6, <2>1, <3>1, <3>2 DEF TransferOf, AwaitsLoad
    <2>2. CASE q # r
      <3>1. blocks'[q] = blocks[q] /\ status'[q] = status[q] /\ TransferOf(q)
        BY <1>0, <1>4, <1>6, <2>2 DEF Transfers
      <3>. QED  BY <1>1, <3>1, TransferKept
    <2>. QED  BY <2>1, <2>2
  <1>16. Transfers'
    BY <1>0, <1>1, <1>15 DEF Transfers
  <1>. QED  BY <1>5, <1>12, <1>13, <1>14, <1>16 DEF RemoteInv, Owners

(* The waiting loop ends: requests passed over go back to their queue. *)
LEMMA RemoteEndWaiting ==
  ASSUME RemoteInv, NEW ext, NEW load_kv_async, EndWaiting(ext, load_kv_async)
  PROVE  RemoteInv'
  <1>. DEFINE s == loop.stepSkipped
  <1>0. TypeOK
    BY DEF RemoteInv
  <1>1. /\ pc = "waiting" /\ skipped' = Reverse(s) \o skipped
        /\ loop' = [loop EXCEPT !.stepSkipped = <<>>] /\ pc' = "end"
        /\ UNCHANGED <<status, computed, tokens, blocks, preemptions, requests, free,
                 running, waiting, inflight_prefills, finished_recving,
                 failed_recving, config, xfer, bad, valid, report, failed, failures>>
    BY DEF EndWaiting, worker
  <1>2. s \in Seq(Requests) /\ skipped \in Seq(Requests) /\ loop \in LoopType
    BY <1>0 DEF TypeOK, LoopType
  <1>3. loop' \in LoopType
    BY <1>1, <1>2, EmptySeq DEF LoopType
  <1>. HIDE DEF s
  <1>4. Reverse(s) \in Seq(Requests)
    <2>1. /\ Len(s) \in Nat /\ \A i \in 1..Len(s) : s[i] \in Requests
      BY <1>2, Members
    <2>2. \A i \in 1..Len(s) : (Len(s) - i) + 1 \in 1..Len(s)
      BY <2>1
    <2>3. Reverse(s) \in [1..Len(s) -> Requests]
      BY <2>1, <2>2 DEF Reverse
    <2>. QED  BY <2>1, <2>3, SeqDef
  <1>5. skipped' \in Seq(Requests)
    BY <1>1, <1>2, <1>4, ConcatProperties
  <1>6. TypeOK'
    BY <1>0, <1>1, <1>3, <1>5 DEF TypeOK
  <1>. QED  BY <1>1, <1>6, RemoteIdle

(* _update_after_schedule counts tokens only. *)
LEMMA RemoteEndSchedule ==
  ASSUME RemoteInv, EndSchedule
  PROVE  RemoteInv'
  <1>0. TypeOK
    BY DEF RemoteInv
  <1>1. /\ pc = "end" /\ pc' = "execute"
        /\ computed' = [r \in Requests |-> computed[r] + loop.toks[r]]
        /\ inflight_prefills' \subseteq inflight_prefills
        /\ UNCHANGED <<status, tokens, blocks, preemptions, requests, free, running,
                 waiting, skipped, finished_recving, failed_recving, loop,
                 config, xfer, bad, valid, report, failed, failures>>
    BY DEF EndSchedule, worker
  <1>2. computed \in [Requests -> Int] /\ loop.toks \in [Requests -> Int]
    BY <1>0 DEF TypeOK, LoopType
  <1>3. computed' \in [Requests -> Int]
    BY <1>1, <1>2
  <1>4. TypeOK'
    BY <1>0, <1>1, <1>3 DEF TypeOK
  <1>. QED  BY <1>1, <1>4, RemoteIdle

(* A transfer ends at the worker; its report is still to come. *)
LEMMA RemoteTransferEnds ==
  ASSUME RemoteInv, NEW r \in Requests, TransferEnds(r)
  PROVE  RemoteInv'
  <1>0. TypeOK /\ RunningOnce /\ Owners /\ Transfers
    BY DEF RemoteInv
  <1>1. /\ UNCHANGED <<status, computed, tokens, blocks, preemptions, requests,
              free, running, waiting, skipped, inflight_prefills,
              finished_recving, failed_recving, pc, loop, config, report>>
        /\ \/ xfer[r].kind = "loading" /\ xfer' = [xfer EXCEPT ![r].kind = "loaded"]
           \/ xfer[r].kind = "sending" /\ xfer' = [xfer EXCEPT ![r].kind = "sent"]
    BY DEF TransferEnds, LoadEnds, SaveEnds, sched
  <1>2. /\ bad' \subseteq Blocks /\ failed' \subseteq Requests
        /\ failures' \in 0..MaxFailures
    <2>1. /\ bad \subseteq Blocks /\ failed \subseteq Requests
          /\ failures \in 0..MaxFailures /\ xfer[r].on \subseteq Blocks
      BY <1>0 DEF TypeOK, TransferType
    <2>2. CASE SaveEnds(r)
      BY <2>1, <2>2 DEF SaveEnds
    <2>3. ASSUME NEW fail \in SUBSET Blocks, LoadEnds(r, fail)
          PROVE  /\ bad' \subseteq Blocks
                 /\ failed' \subseteq Requests /\ failures' \in 0..MaxFailures
      BY <2>1, <2>3, Numbers DEF LoadEnds
    <2>. QED  BY <2>2, <2>3 DEF TransferEnds
  <1>3. /\ xfer' \in [Requests -> TransferType]
        /\ xfer'[r].on = xfer[r].on
        /\ \/ xfer[r].kind = "loading" /\ xfer'[r].kind = "loaded"
           \/ xfer[r].kind = "sending" /\ xfer'[r].kind = "sent"
        /\ \A q \in Requests \ {r} : xfer'[q] = xfer[q]
    <2>1. xfer \in [Requests -> TransferType] /\ xfer[r] \in TransferType
      BY <1>0 DEF TypeOK
    <2>. QED  BY <1>1, <2>1 DEF TransferType
  <1>4. TypeOK'
    BY <1>0, <1>1, <1>2, <1>3 DEF TypeOK
  <1>5. RunningOnce' /\ Owners'
    BY <1>0, <1>1 DEF RunningOnce, Owners, Partitioned, Untracked, Table
  <1>6. ASSUME NEW q \in Requests
        PROVE  TransferOf(q)'
    <2>0. TransferOf(q)
      BY <1>0 DEF Transfers
    <2>1. CASE q = r
      BY <1>1, <1>3, <2>0, <2>1 DEF TransferOf, AwaitsLoad, Table
    <2>2. CASE q # r
      BY <1>1, <1>3, <2>0, <2>2, TransferKept
    <2>. QED  BY <2>1, <2>2
  <1>7. Transfers'
    BY <1>0, <1>1, <1>6 DEF Transfers
  <1>. QED  BY <1>4, <1>5, <1>7 DEF RemoteInv

(* Blocks of a load fail; the load goes on. *)
LEMMA RemoteLoadFails ==
  ASSUME RemoteInv, NEW r \in Requests, NEW fail \in SUBSET Blocks, LoadFails(r, fail)
  PROVE  RemoteInv'
  <1>0. TypeOK /\ RunningOnce /\ Owners /\ Transfers
    BY DEF RemoteInv
  <1>1. /\ UNCHANGED <<status, computed, tokens, blocks, preemptions, requests,
              free, running, waiting, skipped, inflight_prefills,
              finished_recving, failed_recving, pc, loop, config, report>>
        /\ xfer' = [xfer EXCEPT ![r].fails = @ \cup fail]
        /\ bad' = bad \cup fail /\ failed' = failed \cup {r}
        /\ failures < MaxFailures /\ failures' = failures + 1
    BY DEF LoadFails, sched
  <1>2. /\ bad' \subseteq Blocks /\ failed' \subseteq Requests
        /\ failures' \in 0..MaxFailures
    BY <1>0, <1>1, Numbers DEF TypeOK
  <1>3. /\ xfer' \in [Requests -> TransferType]
        /\ xfer'[r].on = xfer[r].on /\ xfer'[r].kind = xfer[r].kind
        /\ \A q \in Requests \ {r} : xfer'[q] = xfer[q]
    <2>1. xfer \in [Requests -> TransferType] /\ xfer[r] \in TransferType
      BY <1>0 DEF TypeOK
    <2>. QED  BY <1>1, <2>1 DEF TransferType
  <1>4. TypeOK'
    BY <1>0, <1>1, <1>2, <1>3 DEF TypeOK
  <1>5. RunningOnce' /\ Owners'
    BY <1>0, <1>1 DEF RunningOnce, Owners, Partitioned, Untracked, Table
  <1>6. ASSUME NEW q \in Requests
        PROVE  TransferOf(q)'
    <2>0. TransferOf(q)
      BY <1>0 DEF Transfers
    <2>1. CASE q = r
      BY <1>1, <1>3, <2>0, <2>1 DEF TransferOf, AwaitsLoad, Table
    <2>2. CASE q # r
      BY <1>1, <1>3, <2>0, <2>2, TransferKept
    <2>. QED  BY <2>1, <2>2
  <1>7. Transfers'
    BY <1>0, <1>1, <1>6 DEF Transfers
  <1>. QED  BY <1>4, <1>5, <1>7 DEF RemoteInv

(* The forward pass reports the transfers that are over. *)
LEMMA RemoteExecute ==
  ASSUME RemoteInv, NEW fail \in SUBSET Blocks, Execute(fail)
  PROVE  RemoteInv'
  <1>. DEFINE Over(kind) == {r \in Requests : xfer[r].kind = kind}
  <1>0. TypeOK /\ RunningOnce /\ Owners /\ Transfers /\ report = NoReport
    BY DEF RemoteInv, Transfers, Execute
  <1>1. /\ pc = "execute" /\ pc' = "output"
        /\ fail # {} => failures < MaxFailures
        /\ report' = [recv |-> Over("loaded"), sent |-> Over("sent"),
                      invalid |-> bad \cup fail]
        /\ xfer' = [r \in Requests |->
                      IF r \in Over("loaded") \cup Over("sent") THEN NoTransfer
                                                               ELSE xfer[r]]
        /\ bad' = {}
        /\ failed' \subseteq failed \cup loop.sync
        /\ failures' = IF fail = {} THEN failures ELSE failures + 1
        /\ UNCHANGED <<status, computed, tokens, blocks, preemptions, requests, free,
              running, waiting, skipped, inflight_prefills, finished_recving,
              failed_recving, loop, config>>
    BY DEF Execute, sched
  <1>2. TypeOK'
    <2>1. report' \in ReportType
      BY <1>0, <1>1 DEF TypeOK, ReportType
    <2>2. xfer' \in [Requests -> TransferType]
      <3>1. NoTransfer \in TransferType
        BY DEF NoTransfer, Transfer, TransferType
      <3>. QED  BY <1>0, <1>1, <3>1 DEF TypeOK
    <2>3. failures' \in 0..MaxFailures
      BY <1>0, <1>1, Numbers DEF TypeOK
    <2>4. failed' \subseteq Requests
      BY <1>0, <1>1 DEF TypeOK, LoopType
    <2>. QED  BY <1>0, <1>1, <2>1, <2>2, <2>3, <2>4 DEF TypeOK
  <1>3. RunningOnce' /\ Owners'
    BY <1>0, <1>1 DEF RunningOnce, Owners, Partitioned, Untracked, Table
  <1>4. ASSUME NEW r \in Requests
        PROVE  TransferOf(r)'
    <2>0. /\ TransferOf(r) /\ r \notin report.recv /\ r \notin report.sent
      BY <1>0 DEF Transfers, NoReport
    <2>1. /\ r \in report'.recv <=> xfer[r].kind = "loaded"
          /\ r \in report'.sent <=> xfer[r].kind = "sent"
      BY <1>1
    <2>2. CASE xfer[r].kind \in {"loaded", "sent"}
      <3>1. xfer'[r] = NoTransfer
        BY <1>1, <2>2
      <3>. QED  BY <1>1, <2>0, <2>1, <2>2, <3>1
                DEF TransferOf, AwaitsLoad, NoTransfer, Transfer
    <2>3. CASE xfer[r].kind \notin {"loaded", "sent"}
      <3>1. xfer'[r] = xfer[r]
        BY <1>1, <2>3
      <3>. QED  BY <1>1, <2>0, <2>1, <2>3, <3>1 DEF TransferOf, AwaitsLoad, Table
    <2>. QED  BY <2>2, <2>3
  <1>5. Transfers'
    BY <1>1, <1>4 DEF Transfers
  <1>. QED  BY <1>2, <1>3, <1>5 DEF RemoteInv

(* A failed block is at some position of an affected request's table. *)
LEMMA FirstInvalid ==
  ASSUME TypeOK, NEW r \in Requests, InvalidAt(r) # {}
  PROVE  Min(InvalidAt(r)) \in Int
  <1>. DEFINE c == CheckedBlocks(r)
              S == InvalidAt(r)
  <1>1. c \in Int
    <2>1. /\ computed[r] \in Int /\ loop.toks[r] \in Int
          /\ BlockSize \in Nat /\ BlockSize > 0
      BY Numbers DEF TypeOK, LoopType
    <2>2. cdiv(ComputedBefore(r), BlockSize) \in Int
      BY <2>1 DEF cdiv, ComputedBefore
    <2>3. Len(blocks[r]) \in Int
      <3>1. blocks[r] \in Seq(Blocks)
        BY DEF TypeOK
      <3>. QED  BY <3>1, LenProperties
    <2>. QED  BY <2>2, <2>3 DEF CheckedBlocks, MinOf
  <1>2. S \in SUBSET (1..c)
    BY DEF InvalidAt
  <1>. HIDE DEF c, S
  <1>3. IsFiniteSet(S) /\ S \in SUBSET Int
    <2>1. IsFiniteSet(1..c)
      BY <1>1, FS_Interval
    <2>2. IsFiniteSet(S)
      BY <1>2, <2>1, FS_Subset
    <2>3. \A x \in S : x \in Int
      BY <1>1, <1>2
    <2>. QED  BY <2>2, <2>3
  <1>4. \E x \in S : \A y \in S : x <= y
    BY <1>3, LeastElement DEF S
  <1>5. Min(S) \in S
    BY <1>4 DEF Min
  <1>. QED  BY <1>3, <1>5 DEF S

(* Requests with a failed block load or run. *)
LEMMA AffectedActive ==
  ASSUME TypeOK, RunningOnce, NEW r \in Affected
  PROVE  /\ r \in Requests /\ InvalidAt(r) # {}
         /\ status[r] \in {"RUNNING", "WAITING_FOR_REMOTE_KVS"}
  <1>1. r \in Loading \cup ToSet(running) /\ InvalidAt(r) # {}
    BY DEF Affected
  <1>2. CASE r \in Loading
    <2>1. skipped \in Seq(Requests) /\ r \in ToSet(skipped)
      BY <1>2 DEF Loading, TypeOK
    <2>2. r \in Requests
      BY <2>1, Members DEF ToSet
    <2>. QED  BY <1>1, <1>2, <2>2 DEF Loading
  <1>3. CASE r \in ToSet(running)
    <2>1. running \in Seq(Requests)
      BY DEF TypeOK
    <2>2. PICK i \in DOMAIN running : r = running[i]
      BY <1>3 DEF ToSet
    <2>. QED  BY <1>1, <2>1, <2>2, Members DEF RunningOnce
  <1>. QED  BY <1>1, <1>2, <1>3

(* update_from_output: what it frees is finished and under no transfer, and *)
(* a finished request it does not free has a transfer.                     *)
LEMMA RemoteUpdate ==
  ASSUME RemoteInv, NEW save \in SUBSET Requests, UpdateFromOutput(save)
  PROVE  RemoteInv'
  <1>. DEFINE errors == IF config.recompute THEN {} ELSE Affected
              stopped == {r \in Sampled : tokens[r] + 1 = PromptLen[r] + MaxTokens[r]}
              ended == stopped \cup errors
              delayed == save \cup {r \in errors : AwaitsLoad(r)}
              tracked == requests \ (ended \ delayed)
              late == {r \in report.recv \cap tracked : status'[r] = "FINISHED"}
              freed == (ended \ delayed) \cup late \cup (report.sent \cap tracked)
  <1>0. /\ TypeOK /\ RunningOnce /\ Partitioned /\ Untracked /\ Transfers
        /\ \A r \in Requests : TransferOf(r)
    BY DEF RemoteInv, Owners, Transfers
  <1>1. /\ pc = "output" /\ pc' = "idle"
        /\ save \subseteq {r \in ended : status[r] = "RUNNING"}
        /\ status' = [r \in Requests |-> IF r \in ended THEN "FINISHED" ELSE status[r]]
        /\ tokens' = [r \in Requests |-> IF r \in Sampled THEN tokens[r] + 1
                                                         ELSE tokens[r]]
        /\ computed' = [r \in Requests |->
                          IF r \in Affected THEN (Min(InvalidAt(r)) - 1) * BlockSize
                                            ELSE computed[r]]
        /\ FreeBlocks(freed)
        /\ requests' = requests \ freed
        /\ running' = Without(running, ended)
        /\ waiting' = Without(waiting, ended)
        /\ skipped' = Without(skipped, ended)
        /\ inflight_prefills' = inflight_prefills \ ended
        /\ finished_recving' =
             (finished_recving \ errors)
               \cup {r \in report.recv \cap tracked :
                       status'[r] = "WAITING_FOR_REMOTE_KVS"}
        /\ failed_recving' =
             (failed_recving \ errors)
               \cup (IF config.recompute THEN Affected \cap Loading ELSE {})
        /\ xfer' = [r \in Requests |->
                      IF r \in save THEN Transfer("sending", Table(r)) ELSE xfer[r]]
        /\ loop' = NoLoop /\ report' = NoReport
        /\ UNCHANGED <<preemptions, config, bad, valid, failed, failures>>
    BY DEF UpdateFromOutput, FreesLateLoad, MaySave
  <1>2. /\ errors \subseteq Requests
        /\ \A r \in errors : status[r] \in {"RUNNING", "WAITING_FOR_REMOTE_KVS"}
    BY <1>0, AffectedActive
  <1>3. stopped \subseteq Requests /\ \A r \in stopped : status[r] = "RUNNING"
    BY DEF Sampled, Batch
  <1>. HIDE DEF errors, stopped
  <1>4. /\ ended \subseteq Requests
        /\ \A r \in ended : status[r] \in {"RUNNING", "WAITING_FOR_REMOTE_KVS"}
    BY <1>2, <1>3
  <1>5. /\ status' \in [Requests -> Active \cup {"NONE", "FINISHED"}]
        /\ \A r \in ended : status'[r] = "FINISHED"
        /\ \A r \in Requests \ ended : status'[r] = status[r]
    BY <1>0, <1>1, <1>4 DEF TypeOK
  <1>6. report.recv \subseteq Requests /\ report.sent \subseteq Requests
    BY <1>0 DEF TypeOK, ReportType
  (* ended and not delayed: no transfer, and no report either *)
  <1>7. ASSUME NEW r \in ended \ delayed
        PROVE  /\ xfer[r].kind = "none" /\ r \notin save
    <2>1. r \in Requests /\ TransferOf(r)
      BY <1>0, <1>4
    <2>2. status[r] = "RUNNING" \/ r \in finished_recving
      BY <1>2, <1>3 DEF AwaitsLoad
    <2>. QED  BY <1>0, <2>1, <2>2, NoTransferWhileActive
  <1>8. ASSUME NEW r \in freed
        PROVE  /\ r \in Requests /\ status'[r] = "FINISHED"
               /\ xfer[r].kind = "none" /\ r \notin save
    <2>1. CASE r \in ended \ delayed
      BY <1>4, <1>5, <1>7, <2>1
    <2>2. CASE r \in late
      <3>1. r \in Requests /\ r \in report.recv /\ status'[r] = "FINISHED"
        BY <1>6, <2>2
      <3>2. xfer[r].kind = "none" /\ status[r] # "RUNNING"
        BY <1>0, <3>1 DEF TransferOf
      <3>. QED  BY <1>1, <3>1, <3>2
    <2>3. CASE r \in report.sent \cap tracked
      <3>1. r \in Requests /\ xfer[r].kind = "none" /\ status[r] = "FINISHED"
        BY <1>0, <1>6, <2>3 DEF TransferOf
      <3>2. r \notin ended
        BY <1>4, <3>1
      <3>. QED  BY <1>1, <1>5, <3>1, <3>2
    <2>. QED  BY <2>1, <2>2, <2>3
  (* the reports received are of tracked requests' loads *)
  <1>9. \A r \in report.recv : r \in requests => r \in tracked \/ r \in freed
    OBVIOUS
  <1>10. /\ blocks' \in [Requests -> Seq(Blocks)] /\ free' \subseteq Blocks
         /\ \A q \in Requests \ freed : blocks'[q] = blocks[q]
         /\ \A q \in freed : blocks'[q] = <<>>
         /\ Partitioned'
    <2>1. freed \in SUBSET Requests
      BY <1>8
    <2>. HIDE DEF freed
    <2>. QED  BY <1>0, <1>1, <2>1, FreedBlocks
  <1>11. RunningOnce' /\ running' \in Seq(Requests)
    BY <1>0, <1>1, <1>5, RunningWithout
  <1>12. waiting' \in Seq(Requests) /\ skipped' \in Seq(Requests)
    BY <1>0, <1>1, WithoutRemoves DEF TypeOK
  <1>13. TypeOK'
    <2>1. tokens' \in [Requests -> Nat]
      BY <1>0, <1>1 DEF TypeOK
    <2>2. computed' \in [Requests -> Int]
      <3>1. \A r \in Affected : Min(InvalidAt(r)) \in Int
        BY <1>0, AffectedActive, FirstInvalid
      <3>2. \A r \in Affected : (Min(InvalidAt(r)) - 1) * BlockSize \in Int
        BY <3>1, Numbers
      <3>. QED  BY <1>0, <1>1, <3>2 DEF TypeOK
    <2>3. loop' \in LoopType
      BY <1>1, EmptySeq DEF NoLoop, LoopType, Zero
    <2>4. report' \in ReportType
      BY <1>1 DEF NoReport, ReportType
    <2>5. xfer' \in [Requests -> TransferType]
      <3>1. \A r \in Requests : Table(r) \subseteq Blocks
        BY <1>0, TableType
      <3>2. \A r \in Requests : Transfer("sending", Table(r)) \in TransferType
        BY <3>1 DEF Transfer, TransferType
      <3>. QED  BY <1>0, <1>1, <3>2 DEF TypeOK
    <2>6. /\ requests' \subseteq Requests /\ inflight_prefills' \subseteq Requests
          /\ finished_recving' \subseteq Requests
      BY <1>0, <1>1, <1>6 DEF TypeOK
    <2>7. failed_recving' \subseteq Requests
      <3>1. Affected \subseteq Requests
        BY <1>0, AffectedActive
      <3>. QED  BY <1>0, <1>1, <3>1 DEF TypeOK
    <2>. QED  BY <1>0, <1>1, <1>5, <1>10, <1>11, <1>12, <2>1, <2>2, <2>3, <2>4,
                 <2>5, <2>6, <2>7 DEF TypeOK
  <1>14. Untracked'
    <2>. SUFFICES ASSUME NEW r \in Requests, r \notin requests'
                  PROVE  blocks'[r] = <<>> /\ status'[r] \notin Active
      BY DEF Untracked
    <2>1. CASE r \in freed
      BY <1>8, <1>10, <2>1
    <2>2. CASE r \notin freed
      <3>1. r \notin requests
        BY <1>1, <2>2
      <3>2. blocks[r] = <<>> /\ status[r] \notin Active
        BY <1>0, <3>1 DEF Untracked
      <3>. QED  BY <1>5, <1>10, <2>2, <3>2
    <2>. QED  BY <2>1, <2>2
  <1>15. ASSUME NEW r \in Requests
         PROVE  TransferOf(r)'
    <2>0. TransferOf(r)
      BY <1>0
    <2>1. r \notin report'.recv /\ r \notin report'.sent
      BY <1>1 DEF NoReport
    <2>2. CASE r \in save
      <3>1. /\ status[r] = "RUNNING" /\ status'[r] = "FINISHED" /\ r \notin freed
        BY <1>1, <1>5, <1>8, <2>2
      <3>2. xfer'[r] = Transfer("sending", Table(r)) /\ blocks'[r] = blocks[r]
        BY <1>1, <1>10, <2>2, <3>1
      <3>3. xfer'[r].kind = "sending" /\ xfer'[r].on = Table(r)
        BY <3>2 DEF Transfer
      <3>4. r \notin finished_recving'
        BY <1>1, <2>0, <3>1 DEF TransferOf
      <3>. QED  BY <2>1, <3>1, <3>2, <3>3, <3>4 DEF TransferOf, AwaitsLoad, Table
    <2>3. CASE r \notin save
      <3>1. xfer'[r] = xfer[r]
        BY <1>1, <2>3
      <3>2. xfer[r].kind # "none" => r \notin freed /\ blocks'[r] = blocks[r]
        BY <1>8, <1>10
      <3>3. r \in finished_recving' =>
              /\ status'[r] = "WAITING_FOR_REMOTE_KVS" /\ xfer[r].kind = "none"
        <4>1. CASE r \in report.recv
          BY <1>1, <1>5, <2>0, <4>1 DEF TransferOf
        <4>2. CASE r \notin report.recv
          <5>. SUFFICES ASSUME r \in finished_recving'
                        PROVE  status'[r] = "WAITING_FOR_REMOTE_KVS" /\ xfer[r].kind = "none"
            OBVIOUS
          <5>1. r \in finished_recving /\ r \notin errors
            BY <1>1, <4>2
          <5>2. status[r] = "WAITING_FOR_REMOTE_KVS" /\ r \notin ended
            BY <1>3, <2>0, <5>1 DEF TransferOf
          <5>3. xfer[r].kind = "none"
            BY <1>0, <2>0, <5>1, NoTransferWhileActive
          <5>. QED  BY <1>5, <5>2, <5>3
        <4>. QED  BY <4>1, <4>2
      <3>4. xfer[r].kind \in {"loading", "loaded"} =>
              status'[r] \in {"WAITING_FOR_REMOTE_KVS", "FINISHED"}
        BY <1>5, <2>0 DEF TransferOf
      <3>5. xfer[r].kind \in {"sending", "sent"} => status'[r] = "FINISHED"
        BY <1>5, <2>0 DEF TransferOf
      <3>6. (status'[r] = "WAITING_FOR_REMOTE_KVS" /\ r \notin finished_recving')
              => xfer[r].kind \in {"loading", "loaded"}
        <4>. SUFFICES ASSUME status'[r] = "WAITING_FOR_REMOTE_KVS",
                             r \notin finished_recving'
                      PROVE  xfer[r].kind \in {"loading", "loaded"}
          OBVIOUS
        <4>1. r \notin ended /\ status[r] = "WAITING_FOR_REMOTE_KVS"
          BY <1>5
        <4>2. r \notin finished_recving
          BY <1>1, <4>1
        <4>3. r \in requests
          BY <1>0, <4>1 DEF Untracked
        <4>4. r \notin report.recv
          BY <1>1, <4>1, <4>3
        <4>. QED  BY <2>0, <4>1, <4>2, <4>4 DEF TransferOf, AwaitsLoad
      <3>7. (r \in requests' /\ status'[r] = "FINISHED") => xfer[r].kind # "none"
        <4>. SUFFICES ASSUME r \in requests', status'[r] = "FINISHED"
                      PROVE  xfer[r].kind # "none"
          OBVIOUS
        <4>1. r \in requests /\ r \notin freed
          BY <1>1
        <4>2. r \in tracked /\ r \notin report.recv /\ r \notin report.sent
          BY <4>1
        <4>3. CASE r \in ended
          <5>1. r \in errors /\ AwaitsLoad(r)
            BY <2>3, <4>1, <4>3
          <5>. QED  BY <2>0, <4>2, <5>1 DEF TransferOf
        <4>4. CASE r \notin ended
          BY <1>5, <2>0, <4>1, <4>2, <4>4 DEF TransferOf
        <4>. QED  BY <4>3, <4>4
      <3>. QED  BY <2>0, <2>1, <3>1, <3>2, <3>3, <3>4, <3>5, <3>6, <3>7
                DEF TransferOf, AwaitsLoad, Table
    <2>. QED  BY <2>2, <2>3
  <1>16. Transfers'
    BY <1>1, <1>15 DEF Transfers
  <1>. QED  BY <1>10, <1>11, <1>13, <1>14, <1>16 DEF RemoteInv, Owners

(* Every step keeps the invariant. *)
LEMMA RemoteNext == RemoteInv /\ [Next]_vars => RemoteInv'
  <1>. SUFFICES ASSUME RemoteInv, [Next]_vars
                PROVE  RemoteInv'
    OBVIOUS
  <1>1. CASE Step
    <2>1. CASE StartSchedule \/ EndRunning
      BY <2>1, RemoteStart
    <2>2. CASE ScheduleRunning
      BY <2>2, RemoteScheduleRunning
    <2>3. CASE PreemptForRunning
      BY <2>3, RemotePreempt
    <2>4. CASE SkipLoading
      BY <2>4, RemoteSkip
    <2>5. CASE PromoteLoaded
      BY <2>5, RemotePromote
    <2>6. ASSUME NEW ext \in Offered, AdmitLoad(ext)
          PROVE  RemoteInv'
      BY <2>6, RemoteAdmitLoad
    <2>7. ASSUME NEW ext \in Offered, AdmitWaiting(ext)
          PROVE  RemoteInv'
      BY <2>7, RemoteAdmitWaiting
    <2>8. ASSUME NEW ext \in Offered, NEW load_kv_async \in BOOLEAN,
                 EndWaiting(ext, load_kv_async)
          PROVE  RemoteInv'
      BY <2>8, RemoteEndWaiting
    <2>9. CASE EndSchedule
      BY <2>9, RemoteEndSchedule
    <2>10. ASSUME NEW fail \in SUBSET Blocks, Execute(fail)
           PROVE  RemoteInv'
      BY <2>10, RemoteExecute
    <2>11. ASSUME NEW save \in SUBSET Requests, UpdateFromOutput(save)
           PROVE  RemoteInv'
      BY <2>11, RemoteUpdate
    <2>. QED  BY <1>1, <2>1, <2>2, <2>3, <2>4, <2>5, <2>6, <2>7, <2>8, <2>9, <2>10,
                 <2>11 DEF Step
  <1>2. ASSUME NEW r \in Requests, AddRequest(r)
        PROVE  RemoteInv'
    BY <1>2, RemoteAdd
  <1>3. ASSUME NEW r \in Requests, TransferEnds(r)
        PROVE  RemoteInv'
    BY <1>3, RemoteTransferEnds
  <1>4. ASSUME NEW r \in Requests, NEW save \in BOOLEAN, FinishRequest(r, save)
        PROVE  RemoteInv'
    BY <1>4, RemoteFinish
  <1>5. ASSUME NEW r \in Requests, NEW fail \in SUBSET Blocks, LoadFails(r, fail)
        PROVE  RemoteInv'
    BY <1>5, RemoteLoadFails
  <1>6. CASE UNCHANGED vars
    <2>1. /\ UNCHANGED <<status, computed, tokens, blocks, preemptions, requests,
               free, running, waiting, skipped, inflight_prefills,
               finished_recving, failed_recving>>
          /\ UNCHANGED <<pc, loop, config>>
          /\ UNCHANGED <<xfer, bad, valid, report, failed, failures>>
      BY <1>6 DEF vars, sched, worker
    <2>2. TypeOK'
      BY <2>1 DEF RemoteInv, TypeOK
    <2>. QED  BY <2>1, <2>2, RemoteIdle
  <1>. QED  BY <1>1, <1>2, <1>3, <1>4, <1>5, <1>6 DEF Next

(* The invariant that connects owners, transfers and reports holds in every *)
(* reachable state.                                                        *)
THEOREM RemoteInductive == Spec => []RemoteInv
  <1>1. Init => RemoteInv
    BY RemoteInit
  <1>. QED  BY <1>1, RemoteNext, PTL DEF Spec

(* Type correctness of the remote KV scheduling. *)
THEOREM RemoteTypeOK == Spec => []TypeOK
  <1>1. RemoteInv => TypeOK
    BY DEF RemoteInv
  <1>. QED  BY <1>1, RemoteInductive, PTL

(* A block that a transfer reads or writes is not free and in nobody else's *)
(* table (finish_requests, _update_waiting_for_remote_kv).                 *)
THEOREM RemoteTransfersKeepBlocks == Spec => []TransfersKeepBlocks
  <1>1. RemoteInv => TransfersKeepBlocks
    <2>. SUFFICES ASSUME RemoteInv, NEW r \in Requests,
                         xfer[r].kind \in {"loading", "sending"}
                  PROVE  /\ xfer[r].on \cap free = {}
                         /\ \A q \in Requests \ {r} : xfer[r].on \cap Table(q) = {}
      BY DEF TransfersKeepBlocks
    <2>1. xfer[r].on \subseteq Table(r)
      BY DEF RemoteInv, Transfers, TransferOf
    <2>. QED  BY <2>1 DEF RemoteInv, Owners, Partitioned
  <1>. QED  BY <1>1, RemoteInductive, PTL

(* A finished request that still holds blocks has a transfer or a report    *)
(* outstanding that will free them, and no block is lost                   *)
(* (_update_from_kv_xfer_finished).                                        *)
THEOREM RemoteDelayedFree == Spec => []DelayedFreeHasReport
  <1>1. RemoteInv => DelayedFreeHasReport
    <2>. SUFFICES ASSUME RemoteInv
                  PROVE  DelayedFreeHasReport
      OBVIOUS
    <2>1. \A r \in requests : r \in Requests /\ TransferOf(r)
      BY DEF RemoteInv, TypeOK, Transfers
    <2>2. \A r \in requests : status[r] = "FINISHED" =>
            xfer[r].kind # "none" \/ r \in report.recv \cup report.sent
      BY <2>1 DEF TransferOf
    <2>3. \A r \in Requests \ requests : blocks[r] = <<>>
      BY DEF RemoteInv, Owners, Untracked
    <2>4. \A b \in Blocks : b \in free \/ \E r \in Requests : b \in Table(r)
      BY DEF RemoteInv, Owners, Partitioned
    <2>. QED  BY <2>2, <2>3, <2>4 DEF DelayedFreeHasReport
  <1>. QED  BY <1>1, RemoteInductive, PTL

(***************************************************************************)
(* What a request counts as computed has been loaded or computed.          *)
(***************************************************************************)

(* How far a request was computed before the batch, and how far it is with *)
(* it: computed[r] counts the batch from EndSchedule on.                   *)
Before(r) == IF pc \in {"execute", "output"} THEN computed[r] - loop.toks[r] ELSE computed[r]
Reach(r) == Before(r) + loop.toks[r]

(* The blocks of the first n tokens of a table, by position *)
FirstOf(table, n) == {table[i] : i \in 1..cdiv(n, BlockSize)}
First(r) == FirstOf(blocks[r], Before(r))

(* A request that runs, or waits for its load, is in the queue in which    *)
(* update_from_output looks for the requests that a failed block affects.  *)
Listed ==
  /\ \A r \in Requests : status[r] = "RUNNING" => r \in ToSet(running)
  /\ \A r \in Requests : status[r] = "WAITING_FOR_REMOTE_KVS" =>
       r \in ToSet(skipped) \/ r \in ToSet(loop.stepSkipped)
  /\ pc # "waiting" => loop.stepSkipped = <<>>

(* The batch: nothing between two steps, requests that run, and while the  *)
(* running queue is scheduled none after the position of the loop.         *)
Batched ==
  /\ pc = "idle" => loop.sync = {} /\ \A r \in Requests : loop.toks[r] = 0
  /\ pc = "running" => loop.sync = {}
  /\ pc = "running" => \A i \in DOMAIN running : i > loop.idx => loop.toks[running[i]] = 0
  /\ \A r \in Requests : r \in loop.sync \/ loop.toks[r] # 0 => status[r] \in {"RUNNING", "FINISHED"}

(* Counts: a running request has a token to compute, and a table is long   *)
(* enough for what its request has computed, the batch included.           *)
CountedOf(r) ==
  /\ loop.toks[r] \in Nat /\ Before(r) \in Nat /\ tokens[r] > 0
  /\ status[r] = "NONE" => computed[r] = 0
  /\ status[r] = "RUNNING" => Before(r) < tokens[r] /\ Reach(r) <= tokens[r]
  /\ status[r] \in Active => cdiv(Reach(r), BlockSize) <= Len(blocks[r])

(* The blocks of what a request has computed.  A load under way will write *)
(* them, or has failed on them, which will be, or is, reported; once it is *)
(* over they are valid or reported.  The blocks of any other request are   *)
(* valid, except that a load within the step is done, or fails, when the   *)
(* batch executes.                                                         *)
SoundOf(r) ==
  status[r] \in Active =>
    IF AwaitsLoad(r)
      THEN /\ xfer[r].kind = "loading" =>
                First(r) \subseteq (xfer[r].on \ xfer[r].fails) \cup bad \cup report.invalid
           /\ xfer[r].kind = "loaded" =>
                First(r) \subseteq valid \cup bad \cup report.invalid
           /\ r \in report.recv => First(r) \subseteq valid \cup report.invalid
      ELSE /\ r \notin loop.sync => First(r) \subseteq valid
           /\ pc = "output" =>
                /\ First(r) \subseteq valid \cup report.invalid
                /\ First(r) \cap report.invalid = {} => FirstOf(blocks[r], Reach(r)) \subseteq valid

KVInv == Listed /\ Batched /\ \A r \in Requests : CountedOf(r) /\ SoundOf(r)

(* The blocks for a number of tokens *)
LEMMA BlocksFor ==
  ASSUME NEW a \in Int
  PROVE  /\ cdiv(a, BlockSize) \in Int
         /\ a <= cdiv(a, BlockSize) * BlockSize
         /\ (cdiv(a, BlockSize) - 1) * BlockSize < a
         /\ \A c \in Int : a <= c * BlockSize => cdiv(a, BlockSize) <= c
  <1>. DEFINE B == BlockSize
              x == a + B - 1
              d == x \div B
  <1>1. B \in Nat \ {0}
    BY Numbers
  <1>. HIDE DEF B
  <1>2. x \in Int
    BY <1>1
  <1>. HIDE DEF x
  <1>3. d \in Int /\ d * B <= x /\ d * B + B > x
    BY <1>1, <1>2, SMT
  <1>. HIDE DEF d
  <1>4. d * B \in Int /\ (d - 1) * B = d * B - B
    BY <1>1, <1>3
  <1>5. a <= d * B /\ (d - 1) * B < a
    BY <1>1, <1>3, <1>4 DEF x
  <1>6. ASSUME NEW c \in Int, a <= c * B
        PROVE  d <= c
    <2>. SUFFICES ASSUME c <= d - 1 PROVE FALSE
      BY <1>3
    <2>1. PICK e \in Nat : d - 1 = c + e
      <3>1. (d - 1) - c \in Nat /\ d - 1 = c + ((d - 1) - c)
        BY <1>3
      <3>. QED  BY <3>1
    <2>2. (d - 1) * B = c * B + e * B /\ e * B \in Nat /\ c * B \in Int
      BY <1>1, <2>1
    <2>. QED  BY <1>4, <1>5, <1>6, <2>2
  <1>. QED  BY <1>3, <1>5, <1>6 DEF cdiv, d, x, B

LEMMA BlocksOrder ==
  ASSUME NEW a \in Int, NEW b \in Int, a <= b
  PROVE  cdiv(a, BlockSize) <= cdiv(b, BlockSize)
  <1>. DEFINE c == cdiv(b, BlockSize)
  <1>1. c \in Int /\ b <= c * BlockSize
    BY BlocksFor
  <1>. HIDE DEF c
  <1>2. c * BlockSize \in Int
    BY <1>1, Numbers
  <1>3. a <= c * BlockSize
    BY <1>1, <1>2
  <1>4. cdiv(a, BlockSize) <= c
    BY <1>1, <1>3, BlocksFor
  <1>. QED  BY <1>4 DEF c

LEMMA WholeBlocks ==
  ASSUME NEW m \in Nat
  PROVE  /\ m * BlockSize \in Nat /\ cdiv(m * BlockSize, BlockSize) = m
         /\ cdiv(0, BlockSize) = 0
  <1>. DEFINE B == BlockSize
  <1>0. B \in Nat \ {0}
    BY Numbers
  <1>1. ASSUME NEW k \in Nat
        PROVE  k * BlockSize \in Nat /\ cdiv(k * BlockSize, BlockSize) = k
    <2>. DEFINE a == k * BlockSize
                c == cdiv(a, BlockSize)
    <2>1. a \in Nat
      <3>. HIDE DEF B
      <3>1. k * B \in Nat
        BY <1>0
      <3>. QED  BY <3>1 DEF B
    <2>. HIDE DEF a
    <2>2. c \in Int /\ a <= c * BlockSize /\ \A e \in Int : a <= e * BlockSize => c <= e
      BY <2>1, BlocksFor
    <2>. HIDE DEF c
    <2>3. c <= k
      BY <2>1, <2>2 DEF a
    <2>4. ~(c < k)
      <3>. SUFFICES ASSUME c < k PROVE FALSE
        OBVIOUS
      <3>1. PICK e \in Nat : k = c + 1 + e
        <4>1. k - c - 1 \in Nat /\ k = c + 1 + (k - c - 1)
          BY <2>2
        <4>. QED  BY <4>1
      <3>2. k * B <= c * B
        BY <2>2 DEF a, B
      <3>. HIDE DEF B
      <3>3. k * B = c * B + B + e * B /\ e * B \in Nat /\ c * B \in Int
        BY <1>0, <2>2, <3>1
      <3>. QED  BY <1>0, <3>2, <3>3
    <2>. QED  BY <2>1, <2>2, <2>3, <2>4 DEF a, c
  <1>2. 0 * BlockSize = 0
    BY <1>0
  <1>. QED  BY <1>1, <1>2

(* The n smallest of a set of at least n numbers *)
LEMMA SmallestCount ==
  ASSUME NEW S \in SUBSET Int, IsFiniteSet(S), NEW n \in Nat, n <= Cardinality(S)
  PROVE  Cardinality(Smallest(n, S)) = n
  <1>. DEFINE c == Cardinality(S)
              s == Ascending(S)
              T == Smallest(n, S)
              f == [i \in 1..n |-> s[i]]
  <1>1. c \in Nat /\ T \in SUBSET Int /\ \A x \in T : x \in S /\ NumBelow(x, S) < n
    BY FS_CardinalityType DEF Smallest
  <1>2. ASSUME NEW i \in 1..c
        PROVE  s[i] \in S /\ NumBelow(s[i], S) = i - 1
    <2>1. s[i] = CHOOSE x \in S : NumBelow(x, S) = i - 1
      BY <1>2 DEF Ascending
    <2>. QED  BY <2>1, RankTaken
  <1>3. \A i, j \in 1..c : i < j => s[i] < s[j]
    BY AscendingOrder
  <1>4. \A x \in S : \E i \in 1..c : s[i] = x
    BY AscendingLists
  <1>. HIDE DEF c, s
  <1>5. \A i \in 1..n : i \in 1..c /\ i - 1 < n
    BY <1>1 DEF c
  <1>6. \A i \in 1..n : s[i] \in T
    BY <1>2, <1>5 DEF Smallest
  <1>7. f \in [1..n -> T] /\ \A i \in 1..n : f[i] = s[i]
    BY <1>6
  <1>8. ASSUME NEW x \in T
        PROVE  \E i \in 1..n : f[i] = x
    <2>1. PICK i \in 1..c : s[i] = x
      BY <1>1, <1>4
    <2>2. i - 1 < n /\ i \in Int /\ i >= 1
      BY <1>1, <1>2, <2>1
    <2>3. i \in 1..n
      BY <2>2
    <2>. QED  BY <1>7, <2>1, <2>3
  <1>. HIDE DEF f, T
  <1>9. \A i, j \in 1..n : i < j => f[i] < f[j]
    BY <1>3, <1>5, <1>7
  <1>10. Cardinality(T) = n
    BY <1>1, <1>7, <1>8, <1>9, AscendingIs
  <1>. QED  BY <1>10 DEF T

(* get_num_blocks_to_allocate makes the table long enough. *)
LEMMA HoldIs ==
  ASSUME TypeOK, NEW r \in Requests, NEW n \in Int
  PROVE  /\ BlocksToHold(r, n) \in Nat /\ Len(blocks[r]) \in Nat
         /\ cdiv(n, BlockSize) <= Len(blocks[r]) + BlocksToHold(r, n)
  <1>. DEFINE l == Len(blocks[r])
              x == cdiv(n, BlockSize) - l
  <1>1. l \in Nat
    <2>1. blocks[r] \in Seq(Blocks)
      BY DEF TypeOK
    <2>. QED  BY <2>1, LenProperties
  <1>2. x \in Int /\ cdiv(n, BlockSize) \in Int
    <2>1. cdiv(n, BlockSize) \in Int
      BY BlocksFor
    <2>. HIDE DEF l
    <2>. QED  BY <1>1, <2>1
  <1>3. BlocksToHold(r, n) = Max({0, x})
    BY DEF BlocksToHold
  <1>4. cdiv(n, BlockSize) = x + l
    <2>. HIDE DEF l
    <2>. QED  BY <1>1, <1>2
  <1>. HIDE DEF l, x
  <1>5. \E y \in {0, x} : \A z \in {0, x} : y >= z
    BY <1>2
  <1>6. Max({0, x}) \in {0, x} /\ \A z \in {0, x} : Max({0, x}) >= z
    BY <1>5 DEF Max
  <1>. DEFINE m == Max({0, x})
  <1>7. m \in Nat /\ x <= m
    <2>1. m \in {0, x} /\ m >= 0 /\ m >= x
      BY <1>6
    <2>. HIDE DEF m
    <2>. QED  BY <1>2, <2>1
  <1>. HIDE DEF m
  <1>8. x + l <= l + m
    BY <1>1, <1>2, <1>7
  <1>. QED  BY <1>1, <1>3, <1>4, <1>7, <1>8 DEF l, m

(* GetNewBlocks adds n blocks at the end of a table; no table had them. *)
LEMMA Grown ==
  ASSUME TypeOK, Partitioned, NEW r \in Requests, NEW n \in Nat, n <= Cardinality(free),
         GetNewBlocks(r, n)
  PROVE  /\ Len(blocks'[r]) = Len(blocks[r]) + n
         /\ \A i \in 1..Len(blocks[r]) : blocks'[r][i] = blocks[r][i]
         /\ \A q \in Requests : \A b \in Table(q) : b \in valid => b \in valid'
  <1>. DEFINE new == Smallest(n, free)
              asc == Ascending(new)
  <1>1. free \in SUBSET Int /\ IsFiniteSet(free) /\ free \in SUBSET Blocks
    BY BlocksFinite DEF TypeOK
  <1>2. new \in SUBSET free /\ Cardinality(new) = n
    BY <1>1, SmallestCount DEF Smallest
  <1>3. new \in SUBSET Int /\ IsFiniteSet(new)
    BY <1>1, <1>2, FS_Subset
  <1>4. /\ blocks' = [blocks EXCEPT ![r] = @ \o asc] /\ valid' = valid \ new
    BY DEF GetNewBlocks
  <1>. HIDE DEF new
  <1>5. asc \in Seq(new) /\ Len(asc) = n
    <2>1. asc \in Seq(new) /\ DOMAIN asc = 1..n
      BY <1>2, <1>3, AscendingLists
    <2>. HIDE DEF asc
    <2>2. Len(asc) \in Nat /\ DOMAIN asc = 1..Len(asc)
      BY <2>1, LenProperties
    <2>. QED  BY <2>1, <2>2
  <1>. HIDE DEF asc
  <1>6. asc \in Seq(Blocks)
    <2>1. asc \in [1..n -> new]
      BY <1>5, LenProperties
    <2>2. asc \in [1..n -> Blocks]
      BY <1>1, <1>2, <2>1
    <2>. QED  BY <2>2, SeqDef
  <1>7. blocks[r] \in Seq(Blocks) /\ blocks'[r] = blocks[r] \o asc
    BY <1>4 DEF TypeOK
  <1>8. Len(blocks[r]) \in Nat
    BY <1>7, LenProperties
  <1>9. /\ Len(blocks'[r]) = Len(blocks[r]) + n
        /\ \A i \in 1..(Len(blocks[r]) + n) :
             blocks'[r][i] = IF i <= Len(blocks[r]) THEN blocks[r][i] ELSE asc[i - Len(blocks[r])]
    <2>. DEFINE s == blocks[r]
    <2>1. s \in Seq(Blocks)
      BY <1>7
    <2>. HIDE DEF s
    <2>2. /\ Len(s \o asc) = Len(s) + Len(asc)
          /\ \A i \in 1..(Len(s) + Len(asc)) :
               (s \o asc)[i] = IF i <= Len(s) THEN s[i] ELSE asc[i - Len(s)]
      BY <1>6, <2>1, ConcatProperties
    <2>3. blocks'[r] = s \o asc
      BY <1>7 DEF s
    <2>. QED  BY <1>5, <2>2, <2>3 DEF s
  <1>10. \A i \in 1..Len(blocks[r]) : blocks'[r][i] = blocks[r][i]
    <2>1. \A i \in 1..Len(blocks[r]) : i \in 1..(Len(blocks[r]) + n) /\ i <= Len(blocks[r])
      BY <1>8
    <2>. QED  BY <1>9, <2>1
  <1>11. \A q \in Requests : \A b \in Table(q) : b \in valid => b \in valid'
    BY <1>2, <1>4 DEF Partitioned
  <1>. QED  BY <1>9, <1>10, <1>11

(* The blocks of the first tokens of a table *)
LEMMA FirstOfTable ==
  ASSUME NEW table \in Seq(Blocks), NEW n \in Nat, cdiv(n, BlockSize) <= Len(table)
  PROVE  /\ FirstOf(table, n) \subseteq ToSet(table)
         /\ ToSet(SubSeq(table, 1, cdiv(n, BlockSize))) = FirstOf(table, n)
  <1>. DEFINE c == cdiv(n, BlockSize)
              l == Len(table)
              u == SubSeq(table, 1, c)
  <1>1. c \in Int /\ l \in Nat /\ DOMAIN table = 1..l
    BY BlocksFor, LenProperties
  <1>2. c >= 0
    <2>1. cdiv(0, BlockSize) = 0 /\ cdiv(0, BlockSize) <= cdiv(n, BlockSize)
      BY WholeBlocks, BlocksOrder
    <2>. QED  BY <2>1
  <1>3. c <= l
    OBVIOUS
  <1>. HIDE DEF c, l
  <1>4. \A i \in 1..c : i \in DOMAIN table
    BY <1>1, <1>3
  <1>5. FirstOf(table, n) = {table[i] : i \in 1..c}
    BY DEF FirstOf, c
  <1>6. DOMAIN u = 1..c /\ \A i \in 1..c : u[i] = table[i]
    <2>1. CASE c = 0
      <3>1. u = <<>>
        BY <1>1, <2>1, SMT DEF u
      <3>. QED  BY <2>1, <3>1
    <2>2. CASE c > 0
      <3>1. 1 \in 1..l /\ c \in 1..l
        BY <1>1, <1>3, <2>2
      <3>2. /\ u \in Seq(Blocks) /\ Len(u) = c - 1 + 1
            /\ \A i \in 1..(c - 1 + 1) : u[i] = table[1 + i - 1]
        BY <1>1, <3>1, <2>2, SMT DEF u, l
      <3>3. DOMAIN u = 1..Len(u)
        BY <3>2, LenProperties
      <3>. HIDE DEF u
      <3>4. Len(u) = c
        BY <1>1, <3>2
      <3>5. \A i \in 1..c : i \in 1..(c - 1 + 1) /\ 1 + i - 1 = i
        BY <1>1
      <3>. QED  BY <3>2, <3>3, <3>4, <3>5
    <2>. QED  BY <1>1, <1>2, <2>1, <2>2
  <1>. HIDE DEF u
  <1>7. ToSet(u) = {table[i] : i \in 1..c}
    BY <1>6 DEF ToSet
  <1>8. FirstOf(table, n) \subseteq ToSet(table)
    BY <1>4, <1>5 DEF ToSet
  <1>. QED  BY <1>5, <1>7, <1>8 DEF u, c

LEMMA FirstOfOrder ==
  ASSUME NEW table, NEW a \in Int, NEW b \in Int, a <= b
  PROVE  FirstOf(table, a) \subseteq FirstOf(table, b)
  <1>. DEFINE x == cdiv(a, BlockSize)
              y == cdiv(b, BlockSize)
  <1>1. x \in Int /\ y \in Int /\ x <= y
    BY BlocksFor, BlocksOrder
  <1>. HIDE DEF x, y
  <1>2. 1..x \subseteq 1..y
    BY <1>1
  <1>. QED  BY <1>2 DEF FirstOf, x, y

LEMMA FirstOfNone ==
  ASSUME NEW table
  PROVE  FirstOf(table, 0) = {}
  <1>1. cdiv(0, BlockSize) = 0
    BY WholeBlocks
  <1>2. 1..0 = {}
    OBVIOUS
  <1>. QED  BY <1>1, <1>2 DEF FirstOf

LEMMA FirstOfGrown ==
  ASSUME NEW n \in Int, NEW l \in Nat, cdiv(n, BlockSize) <= l, NEW t, NEW u,
         \A i \in 1..l : u[i] = t[i]
  PROVE  FirstOf(u, n) = FirstOf(t, n)
  <1>. DEFINE c == cdiv(n, BlockSize)
  <1>1. c \in Int /\ c <= l
    BY BlocksFor
  <1>. HIDE DEF c
  <1>2. \A i \in 1..c : u[i] = t[i]
    BY <1>1
  <1>. QED  BY <1>2 DEF FirstOf, c

(* The table of an active request has the blocks of what is computed. *)
LEMMA FirstIs ==
  ASSUME TypeOK, NEW r \in Requests, CountedOf(r), status[r] \in Active
  PROVE  /\ First(r) \subseteq Table(r) /\ FirstOf(blocks[r], Reach(r)) \subseteq Table(r)
         /\ Reach(r) \in Nat /\ Before(r) <= Reach(r) /\ Len(blocks[r]) \in Nat
         /\ cdiv(Before(r), BlockSize) <= Len(blocks[r])
         /\ First(r) \subseteq FirstOf(blocks[r], Reach(r))
  <1>1. blocks[r] \in Seq(Blocks)
    BY DEF TypeOK
  <1>2. /\ loop.toks[r] \in Nat /\ Before(r) \in Nat
        /\ cdiv(Reach(r), BlockSize) <= Len(blocks[r]) /\ Len(blocks[r]) \in Nat
    BY <1>1, LenProperties DEF CountedOf
  <1>3. Reach(r) \in Nat /\ Before(r) <= Reach(r)
    BY <1>2 DEF Reach
  <1>4. cdiv(Before(r), BlockSize) <= Len(blocks[r])
    <2>1. /\ cdiv(Before(r), BlockSize) <= cdiv(Reach(r), BlockSize)
          /\ cdiv(Before(r), BlockSize) \in Int /\ cdiv(Reach(r), BlockSize) \in Int
      BY <1>2, <1>3, BlocksOrder, BlocksFor
    <2>. QED  BY <1>2, <2>1
  <1>5. FirstOf(blocks[r], Before(r)) \subseteq ToSet(blocks[r])
    BY <1>1, <1>2, <1>4, FirstOfTable
  <1>6. FirstOf(blocks[r], Reach(r)) \subseteq ToSet(blocks[r])
    BY <1>1, <1>2, <1>3, FirstOfTable
  <1>7. FirstOf(blocks[r], Before(r)) \subseteq FirstOf(blocks[r], Reach(r))
    BY <1>2, <1>3, FirstOfOrder
  <1>. QED  BY <1>2, <1>3, <1>4, <1>5, <1>6, <1>7 DEF First, Table

(* A step that changes nothing of a request, and takes none of its blocks *)
SameOf(r) ==
  /\ status'[r] = status[r] /\ computed'[r] = computed[r] /\ tokens'[r] = tokens[r]
  /\ blocks'[r] = blocks[r] /\ xfer'[r] = xfer[r] /\ loop'.toks[r] = loop.toks[r]
  /\ r \in loop'.sync <=> r \in loop.sync
  /\ r \in finished_recving' <=> r \in finished_recving
  /\ \A b \in Table(r) : b \in valid => b \in valid'

(* ... within a phase of step() *)
SamePhase ==
  /\ pc' \in {"execute", "output"} <=> pc \in {"execute", "output"}
  /\ pc' = "output" <=> pc = "output"
  /\ report' = report /\ bad \subseteq bad'

LEMMA KVKept ==
  ASSUME TypeOK, NEW r \in Requests, CountedOf(r), SoundOf(r), SameOf(r), SamePhase
  PROVE  CountedOf(r)' /\ SoundOf(r)'
  <1>1. /\ status'[r] = status[r] /\ computed'[r] = computed[r] /\ tokens'[r] = tokens[r]
        /\ blocks'[r] = blocks[r] /\ xfer'[r] = xfer[r] /\ loop'.toks[r] = loop.toks[r]
        /\ (r \in loop'.sync <=> r \in loop.sync) /\ report' = report /\ bad \subseteq bad'
        /\ (r \in finished_recving' <=> r \in finished_recving)
    BY DEF SameOf, SamePhase
  <1>2. Before(r)' = Before(r)
    BY <1>1 DEF Before, SamePhase
  <1>3. Reach(r)' = Reach(r) /\ First(r)' = First(r)
    BY <1>1, <1>2 DEF Reach, First
  <1>4. CountedOf(r)'
    BY <1>1, <1>2, <1>3 DEF CountedOf
  <1>5. ASSUME status[r] \in Active
        PROVE  SoundOf(r)'
    <2>. DEFINE F == First(r)
                G == FirstOf(blocks[r], Reach(r))
    <2>1. F \subseteq Table(r) /\ G \subseteq Table(r)
      BY <1>5, FirstIs
    <2>2. \A b \in Table(r) : b \in valid => b \in valid'
      BY DEF SameOf
    <2>3. FirstOf(blocks[r], Reach(r))' = G
      BY <1>1, <1>3
    <2>4. First(r)' = F
      BY <1>3
    <2>5. AwaitsLoad(r)' <=> AwaitsLoad(r)
      BY <1>1 DEF AwaitsLoad
    <2>6. pc' = "output" <=> pc = "output"
      BY DEF SamePhase
    <2>. HIDE DEF F, G
    <2>7. CASE AwaitsLoad(r)
      <3>1. /\ xfer[r].kind = "loading" =>
                 F \subseteq (xfer[r].on \ xfer[r].fails) \cup bad \cup report.invalid
            /\ xfer[r].kind = "loaded" => F \subseteq valid \cup bad \cup report.invalid
            /\ r \in report.recv => F \subseteq valid \cup report.invalid
        BY <1>5, <2>7 DEF SoundOf, F
      <3>. QED  BY <1>1, <2>1, <2>2, <2>4, <2>5, <2>7, <3>1 DEF SoundOf
    <2>8. CASE ~AwaitsLoad(r)
      <3>1. /\ r \notin loop.sync => F \subseteq valid
            /\ pc = "output" => /\ F \subseteq valid \cup report.invalid
                                /\ F \cap report.invalid = {} => G \subseteq valid
        BY <1>5, <2>8 DEF SoundOf, F, G
      <3>. QED  BY <1>1, <2>1, <2>2, <2>3, <2>4, <2>5, <2>6, <2>8, <3>1 DEF SoundOf
    <2>. QED  BY <2>7, <2>8
  <1>. QED  BY <1>1, <1>4, <1>5 DEF SoundOf

(* A request that waits or is preempted before anything is computed *)
LEMMA NothingComputed ==
  ASSUME NEW r \in Requests, computed'[r] = 0, loop'.toks[r] = 0, tokens'[r] > 0,
         status'[r] # "RUNNING", ~AwaitsLoad(r)', Len(blocks'[r]) \in Nat
  PROVE  CountedOf(r)' /\ SoundOf(r)'
  <1>1. Before(r)' = 0 /\ Reach(r)' = 0
    BY DEF Before, Reach
  <1>2. cdiv(0, BlockSize) = 0
    BY WholeBlocks
  <1>3. CountedOf(r)'
    BY <1>1, <1>2 DEF CountedOf
  <1>4. First(r)' = {} /\ FirstOf(blocks[r], Reach(r))' = {}
    BY <1>1, FirstOfNone DEF First
  <1>. QED  BY <1>3, <1>4 DEF SoundOf

(* Initially nothing is computed. *)
LEMMA KVInit ==
  ASSUME Init
  PROVE  KVInv
  <1>1. /\ loop = NoLoop /\ pc = "idle" /\ \A r \in Requests : status[r] = "NONE" /\ computed[r] = 0
        /\ \A r \in Requests : tokens[r] = PromptLen[r]
    BY DEF Init, Zero
  <1>2. /\ loop.sync = {} /\ loop.stepSkipped = <<>> /\ \A r \in Requests : loop.toks[r] = 0
    BY <1>1 DEF NoLoop, Zero
  <1>3. Listed /\ Batched
    BY <1>1, <1>2 DEF Listed, Batched
  <1>4. ASSUME NEW r \in Requests
        PROVE  CountedOf(r) /\ SoundOf(r)
    <2>1. tokens[r] > 0 /\ status[r] = "NONE" /\ computed[r] = 0 /\ loop.toks[r] = 0
      BY <1>1, <1>2, RemoteAssumption
    <2>2. Before(r) = 0 /\ Reach(r) = 0
      BY <2>1 DEF Before, Reach
    <2>. QED  BY <2>1, <2>2 DEF CountedOf, SoundOf
  <1>. QED  BY <1>3, <1>4 DEF KVInv

(* The parts of a loop record *)
LEMMA LoopParts ==
  ASSUME NEW l \in LoopType
  PROVE  /\ l.idx \in Nat /\ l.budget \in Int /\ l.toks \in [Requests -> Int]
         /\ l.sync \subseteq Requests /\ l.stepSkipped \in Seq(Requests)
  BY DEF LoopType

(* add_request: the new request has nothing computed. *)
LEMMA KVAdd ==
  ASSUME RemoteInv, RemoteInv', KVInv, NEW r \in Requests, AddRequest(r)
  PROVE  KVInv'
  <1>0. TypeOK /\ TypeOK' /\ TransferOf(r)
    BY DEF RemoteInv, Transfers
  <1>1. /\ status[r] = "NONE" /\ status'[r] = "WAITING" /\ pc = "idle"
        /\ \A q \in Requests \ {r} : status'[q] = status[q]
        /\ UNCHANGED <<computed, tokens, blocks, running, skipped, finished_recving, pc, loop,
                       xfer, bad, valid, report>>
    BY <1>0 DEF AddRequest, worker, TypeOK
  <1>2. Listed' /\ Batched'
    BY <1>1 DEF KVInv, Listed, Batched
  <1>3. ASSUME NEW q \in Requests
        PROVE  CountedOf(q)' /\ SoundOf(q)'
    <2>1. CASE q = r
      <3>1. computed'[r] = 0 /\ loop'.toks[r] = 0 /\ tokens'[r] > 0
        BY <1>1 DEF KVInv, CountedOf, Batched
      <3>2. Len(blocks'[r]) \in Nat
        BY <1>0, LenProperties DEF TypeOK
      <3>. QED  BY <1>1, <2>1, <3>1, <3>2, NothingComputed DEF AwaitsLoad
    <2>2. CASE q # r
      <3>1. SameOf(q) /\ SamePhase
        BY <1>1, <2>2 DEF SameOf, SamePhase
      <3>. QED  BY <1>0, <3>1, KVKept DEF KVInv
    <2>. QED  BY <2>1, <2>2
  <1>. QED  BY <1>2, <1>3 DEF KVInv

(* A request that is not taken out of a queue is still in it. *)
LEMMA StillQueued ==
  ASSUME NEW T \in Seq(Requests), NEW S, NEW q \in ToSet(T), q \notin S
  PROVE  q \in ToSet(Without(T, S))
  <1>1. PICK i \in DOMAIN T : T[i] = q
    BY DEF ToSet
  <1>2. \A j \in DOMAIN T : T[j] \notin S => \E k \in DOMAIN Without(T, S) : Without(T, S)[k] = T[j]
    BY WithoutRemoves
  <1>. QED  BY <1>1, <1>2 DEF ToSet

(* Nothing is said of the counts and blocks of a finished request. *)
LEMMA FinishedSound ==
  ASSUME NEW r \in Requests, CountedOf(r), status'[r] = "FINISHED", tokens'[r] = tokens[r],
         loop'.toks[r] = loop.toks[r], Before(r)' = Before(r)
  PROVE  CountedOf(r)' /\ SoundOf(r)'
  BY DEF CountedOf, SoundOf

(* finish_requests *)
LEMMA KVFinish ==
  ASSUME RemoteInv, RemoteInv', KVInv, NEW r \in Requests, NEW save \in BOOLEAN,
         FinishRequest(r, save)
  PROVE  KVInv'
  <1>. DEFINE S == IF AwaitsLoad(r) \/ save THEN {} ELSE {r}
  <1>0. TypeOK /\ TypeOK' /\ Partitioned
    BY DEF RemoteInv, Owners
  <1>1. /\ FreeBlocks(S)
        /\ status' = [status EXCEPT ![r] = "FINISHED"]
        /\ xfer' = IF save THEN [xfer EXCEPT ![r] = Transfer("sending", Table(r))] ELSE xfer
        /\ running' = Without(running, {r}) /\ skipped' = Without(skipped, {r})
        /\ finished_recving' = finished_recving \ {r}
        /\ pc \in {"idle", "output"} /\ status[r] # "FINISHED"
        /\ UNCHANGED <<computed, tokens, pc, loop, bad, valid, report>>
    BY DEF FinishRequest
  <1>2. \A q \in Requests \ {r} : blocks'[q] = blocks[q]
    <2>1. S \in SUBSET Requests
      OBVIOUS
    <2>. QED  BY <1>0, <1>1, <2>1, FreedBlocks
  <1>3. /\ status'[r] = "FINISHED" /\ \A q \in Requests \ {r} : status'[q] = status[q]
        /\ \A q \in Requests \ {r} : xfer'[q] = xfer[q]
    BY <1>0, <1>1 DEF TypeOK
  <1>4. Listed'
    <2>1. ASSUME NEW T \in {running, skipped}, NEW q \in Requests \ {r}, q \in ToSet(T)
          PROVE  q \in ToSet(Without(T, {r}))
      BY <1>0, <2>1, StillQueued DEF TypeOK
    <2>2. \A q \in Requests : status'[q] # "FINISHED" => q # r
      BY <1>3
    <2>. QED  BY <1>1, <1>3, <2>1, <2>2 DEF KVInv, Listed
  <1>5. Batched'
    <2>1. pc' # "running"
      BY <1>1
    <2>. QED  BY <1>1, <1>3, <2>1 DEF KVInv, Batched
  <1>6. ASSUME NEW q \in Requests
        PROVE  CountedOf(q)' /\ SoundOf(q)'
    <2>1. CASE q = r
      <3>1. Before(r)' = Before(r)
        BY <1>1 DEF Before
      <3>. QED  BY <1>1, <1>3, <2>1, <3>1, FinishedSound DEF KVInv
    <2>2. CASE q # r
      <3>1. SameOf(q) /\ SamePhase
        BY <1>1, <1>2, <1>3, <2>2 DEF SameOf, SamePhase
      <3>. QED  BY <1>0, <3>1, KVKept DEF KVInv
    <2>. QED  BY <2>1, <2>2
  <1>. QED  BY <1>4, <1>5, <1>6 DEF KVInv

(* A step of the loop that leaves the requests alone *)
LEMMA KVIdle ==
  ASSUME RemoteInv, KVInv, Listed', Batched', SamePhase,
         UNCHANGED <<status, computed, tokens, blocks, finished_recving, xfer, valid>>,
         loop'.toks = loop.toks, loop'.sync = loop.sync
  PROVE  KVInv'
  <1>1. ASSUME NEW q \in Requests
        PROVE  CountedOf(q)' /\ SoundOf(q)'
    <2>1. SameOf(q)
      BY DEF SameOf
    <2>. QED  BY <2>1, KVKept DEF KVInv, RemoteInv
  <1>. QED  BY <1>1 DEF KVInv

(* The running loop starts or ends. *)
LEMMA KVStart ==
  ASSUME RemoteInv, RemoteInv', KVInv, StartSchedule \/ EndRunning
  PROVE  KVInv'
  <1>0. TypeOK /\ loop \in LoopType
    BY DEF RemoteInv, TypeOK
  <1>1. CASE StartSchedule
    <2>1. /\ pc = "idle" /\ pc' = "running" /\ loop' = [NoLoop EXCEPT !.budget = TokenBudget]
          /\ UNCHANGED <<status, computed, tokens, blocks, running, skipped, finished_recving, xfer,
                         bad, valid, report>>
      BY <1>1 DEF StartSchedule, sched, worker
    <2>2. /\ loop'.toks = Zero /\ loop'.sync = {} /\ loop'.stepSkipped = <<>> /\ loop'.idx = 0
      BY <2>1 DEF NoLoop
    <2>3. loop.sync = {} /\ loop.toks = Zero /\ loop.stepSkipped = <<>>
      <3>1. loop.toks \in [Requests -> Int] /\ \A q \in Requests : loop.toks[q] = 0
        BY <1>0, <2>1, LoopParts DEF KVInv, Batched
      <3>2. loop.toks = Zero
        BY <3>1 DEF Zero
      <3>. QED  BY <2>1, <3>2 DEF KVInv, Batched, Listed
    <2>4. Listed'
      BY <2>1, <2>2, <2>3 DEF KVInv, Listed
    <2>5. Batched'
      <3>1. \A q \in Requests : loop'.toks[q] = 0
        BY <2>2 DEF Zero
      <3>2. \A i \in DOMAIN running' : running'[i] \in Requests
        BY <1>0, <2>1, Members DEF TypeOK
      <3>. QED  BY <2>1, <2>2, <3>1, <3>2 DEF Batched
    <2>6. SamePhase
      BY <2>1 DEF SamePhase
    <2>. QED  BY <2>1, <2>2, <2>3, <2>4, <2>5, <2>6, KVIdle
  <1>2. CASE EndRunning
    <2>1. /\ pc = "running" /\ pc' \in {"end", "waiting"}
          /\ UNCHANGED <<status, computed, tokens, blocks, running, skipped, finished_recving, xfer,
                         bad, valid, report, loop>>
      BY <1>2 DEF EndRunning, sched, worker
    <2>2. Listed' /\ Batched' /\ SamePhase
      BY <2>1 DEF KVInv, Listed, Batched, SamePhase
    <2>. QED  BY <2>1, <2>2, KVIdle
  <1>. QED  BY <1>1, <1>2

(* The next waiting request is the only one that a queue loses ... *)
LEMMA Popped ==
  ASSUME TypeOK, InWaitingLoop, PopWaiting, NEW q \in ToSet(skipped)
  PROVE  q \in ToSet(skipped') \/ q = NextWaiting
  <1>1. CASE skipped # <<>>
    <2>1. skipped \in Seq(Requests) /\ skipped' = Tail(skipped) /\ NextWaiting = Head(skipped)
      BY <1>1 DEF TypeOK, PopWaiting, NextWaiting
    <2>. DEFINE s == skipped
                n == Len(s)
                t == Tail(s)
    <2>2. n \in Nat /\ DOMAIN s = 1..n /\ n > 0
      BY <1>1, <2>1, LenProperties, EmptySeq
    <2>3. t \in Seq(Requests) /\ Len(t) = n - 1 /\ Head(s) = s[1] /\ \A i \in 1..(n - 1) : t[i] = s[i + 1]
      BY <1>1, <2>1, HeadTailProperties, SMT
    <2>4. PICK i \in 1..n : q = s[i]
      BY <2>2 DEF ToSet
    <2>5. DOMAIN t = 1..(n - 1)
      BY <2>3, LenProperties
    <2>. HIDE DEF s, n, t
    <2>6. CASE i = 1
      BY <2>1, <2>3, <2>4, <2>6 DEF s
    <2>7. CASE i # 1
      <3>1. i - 1 \in 1..(n - 1) /\ (i - 1) + 1 = i
        BY <2>2, <2>4, <2>7
      <3>2. t[i - 1] = q
        BY <2>3, <2>4, <3>1
      <3>3. q \in ToSet(t)
        BY <2>5, <3>1, <3>2 DEF ToSet
      <3>. QED  BY <2>1, <3>3 DEF s, t
    <2>. QED  BY <2>6, <2>7
  <1>2. CASE skipped = <<>>
    BY <1>2 DEF PopWaiting
  <1>. QED  BY <1>1, <1>2

(* ... and what is pushed is in front. *)
LEMMA Pushed ==
  ASSUME NEW s \in Seq(Requests), NEW r \in Requests, NEW t, t = <<r>> \o s
  PROVE  r \in ToSet(t) /\ \A q \in ToSet(s) : q \in ToSet(t)
  <1>1. <<r>> \in Seq(Requests) /\ Len(<<r>>) = 1
    OBVIOUS
  <1>2. /\ t \in Seq(Requests) /\ Len(t) = 1 + Len(s) /\ Len(s) \in Nat /\ DOMAIN s = 1..Len(s)
        /\ \A i \in 1..(1 + Len(s)) : t[i] = IF i <= 1 THEN <<r>>[i] ELSE s[i - 1]
    BY <1>1, ConcatProperties, LenProperties
  <1>3. DOMAIN t = 1..(1 + Len(s))
    BY <1>2, LenProperties
  <1>4. 1 \in DOMAIN t /\ t[1] = r
    BY <1>2, <1>3
  <1>5. ASSUME NEW i \in DOMAIN s
        PROVE  i + 1 \in DOMAIN t /\ t[i + 1] = s[i]
    <2>1. i + 1 \in 1..(1 + Len(s)) /\ ~(i + 1 <= 1) /\ (i + 1) - 1 = i
      BY <1>2
    <2>. QED  BY <1>2, <1>3, <2>1
  <1>. QED  BY <1>4, <1>5 DEF ToSet

(* A load that is not finished is passed over. *)
LEMMA KVSkip ==
  ASSUME RemoteInv, KVInv, SkipLoading
  PROVE  KVInv'
  <1>. DEFINE r == NextWaiting
  <1>0. TypeOK /\ loop \in LoopType
    BY DEF RemoteInv, TypeOK
  <1>1. /\ pc = "waiting" /\ pc' = pc /\ InWaitingLoop /\ PopWaiting
        /\ loop' = [loop EXCEPT !.stepSkipped = <<r>> \o @]
        /\ UNCHANGED <<status, computed, tokens, blocks, running, finished_recving, xfer, bad, valid,
                       report>>
    BY DEF SkipLoading, worker
  <1>2. loop'.toks = loop.toks /\ loop'.sync = loop.sync /\ loop'.stepSkipped = <<r>> \o loop.stepSkipped
    BY <1>0, <1>1 DEF LoopType
  <1>3. Listed'
    <2>1. ASSUME NEW q \in Requests, q \in ToSet(skipped) \/ q \in ToSet(loop.stepSkipped)
          PROVE  q \in ToSet(skipped') \/ q \in ToSet(loop'.stepSkipped)
      <3>1. r \in Requests /\ loop.stepSkipped \in Seq(Requests)
        BY <1>0, <1>1, Waiting, LoopParts
      <3>2. r \in ToSet(loop'.stepSkipped) /\ \A p \in ToSet(loop.stepSkipped) : p \in ToSet(loop'.stepSkipped)
        BY <1>2, <3>1, Pushed
      <3>3. q \in ToSet(skipped) => q \in ToSet(skipped') \/ q = r
        BY <1>0, <1>1, Popped
      <3>. QED  BY <2>1, <3>2, <3>3
    <2>. QED  BY <1>1, <2>1 DEF KVInv, Listed
  <1>4. Batched' /\ SamePhase
    BY <1>1, <1>2 DEF KVInv, Batched, SamePhase
  <1>. QED  BY <1>1, <1>2, <1>3, <1>4, KVIdle

(* A running request gets blocks for what it computes in this step. *)
LEMMA KVScheduleRunning ==
  ASSUME RemoteInv, RemoteInv', KVInv, ScheduleRunning
  PROVE  KVInv'
  <1>a. PICK r, k, n : r = Current /\ k = RunTokens /\ n = CurrentNeeds
    OBVIOUS
  <1>0. TypeOK /\ TypeOK' /\ Partitioned /\ RunningOnce /\ loop \in LoopType
    BY DEF RemoteInv, Owners, TypeOK
  <1>1. /\ pc = "running" /\ pc' = pc /\ loop.idx < Len(running) /\ loop.budget > 0
        /\ n <= Cardinality(free) /\ GetNewBlocks(r, n)
        /\ loop' = [loop EXCEPT !.idx = @ + 1, !.budget = @ - k, !.toks[r] = k]
        /\ UNCHANGED <<status, computed, tokens, running, skipped, finished_recving, xfer, bad, report>>
    BY <1>a DEF ScheduleRunning, InRunningLoop
  <1>2. loop.idx \in Nat /\ loop.budget \in Int /\ loop.toks \in [Requests -> Int]
    BY <1>0, LoopParts
  <1>3. /\ Len(running) \in Nat /\ DOMAIN running = 1..Len(running)
        /\ \A i \in 1..Len(running) : running[i] \in Requests
    BY <1>0, Members DEF TypeOK
  <1>4. loop.idx + 1 \in DOMAIN running /\ r = running[loop.idx + 1]
    BY <1>a, <1>1, <1>2, <1>3 DEF Current
  <1>5. r \in Requests /\ status[r] = "RUNNING"
    BY <1>0, <1>3, <1>4 DEF RunningOnce
  <1>6. CountedOf(r) /\ SoundOf(r) /\ Before(r) = computed[r] /\ computed[r] \in Nat
        /\ computed[r] < tokens[r] /\ tokens[r] \in Nat
    BY <1>0, <1>1, <1>5 DEF KVInv, CountedOf, Before, TypeOK
  <1>7. k \in Nat /\ k > 0 /\ computed[r] + k <= tokens[r]
    <2>1. k = MinOf(tokens[r] - computed[r], loop.budget)
      BY <1>a DEF RunTokens
    <2>. QED  BY <1>1, <1>2, <1>6, <2>1 DEF MinOf
  <1>8. n = BlocksToHold(r, computed[r] + k)
    BY <1>a DEF CurrentNeeds
  <1>9. n \in Nat /\ Len(blocks[r]) \in Nat /\ cdiv(computed[r] + k, BlockSize) <= Len(blocks[r]) + n
    <2>1. computed[r] + k \in Int
      BY <1>6, <1>7
    <2>. QED  BY <1>0, <1>5, <1>8, <2>1, HoldIs
  <1>10. /\ Len(blocks'[r]) = Len(blocks[r]) + n
         /\ \A i \in 1..Len(blocks[r]) : blocks'[r][i] = blocks[r][i]
         /\ \A q \in Requests : \A b \in Table(q) : b \in valid => b \in valid'
    BY <1>0, <1>1, <1>5, <1>9, Grown
  <1>11. \A q \in Requests \ {r} : blocks'[q] = blocks[q]
    BY <1>0, <1>1, <1>5, NewBlocks
  <1>12. /\ loop'.toks[r] = k /\ \A q \in Requests \ {r} : loop'.toks[q] = loop.toks[q]
         /\ loop'.sync = loop.sync /\ loop'.stepSkipped = loop.stepSkipped /\ loop'.idx = loop.idx + 1
    BY <1>0, <1>1, <1>2, <1>5 DEF LoopType
  <1>13. Listed'
    BY <1>1, <1>12 DEF KVInv, Listed
  <1>14. Batched'
    <2>1. ASSUME NEW i \in DOMAIN running', i > loop'.idx
          PROVE  loop'.toks[running'[i]] = 0
      <3>1. i \in DOMAIN running /\ i > loop.idx /\ i # loop.idx + 1
        BY <1>1, <1>2, <1>3, <1>12, <2>1
      <3>2. running[i] # r /\ running[i] \in Requests
        BY <1>0, <1>3, <1>4, <3>1 DEF RunningOnce, IsInjective
      <3>3. loop.toks[running[i]] = 0
        BY <1>1, <3>1 DEF KVInv, Batched
      <3>. QED  BY <1>1, <1>12, <3>2, <3>3
    <2>2. ASSUME NEW q \in Requests, q \in loop'.sync \/ loop'.toks[q] # 0
          PROVE  status'[q] \in {"RUNNING", "FINISHED"}
      BY <1>1, <1>5, <1>12, <2>2 DEF KVInv, Batched
    <2>. QED  BY <1>1, <1>12, <2>1, <2>2 DEF KVInv, Batched
  <1>15. CountedOf(r)' /\ SoundOf(r)'
    <2>1. Before(r)' = computed[r] /\ Reach(r)' = computed[r] + k
      BY <1>1, <1>12 DEF Before, Reach
    <2>2. CountedOf(r)'
      BY <1>1, <1>5, <1>6, <1>7, <1>9, <1>10, <1>12, <2>1 DEF CountedOf
    <2>3. /\ ~AwaitsLoad(r) /\ ~AwaitsLoad(r)'
      BY <1>1, <1>5 DEF AwaitsLoad
    <2>4. First(r) \subseteq valid /\ First(r) \subseteq Table(r) /\ r \notin loop'.sync
          /\ cdiv(Before(r), BlockSize) <= Len(blocks[r])
      BY <1>0, <1>1, <1>5, <1>6, <1>12, <2>3, FirstIs DEF SoundOf, KVInv, Batched
    <2>5. First(r)' = First(r)
      <3>1. FirstOf(blocks'[r], computed[r]) = FirstOf(blocks[r], computed[r])
        <4>1. computed[r] \in Int /\ cdiv(computed[r], BlockSize) <= Len(blocks[r]) /\ Len(blocks[r]) \in Nat
          BY <1>6, <1>9, <2>4
        <4>2. \A i \in 1..Len(blocks[r]) : blocks'[r][i] = blocks[r][i]
          BY <1>10
        <4>. QED  BY ONLY <4>1, <4>2, FirstOfGrown
      <3>. QED  BY <1>6, <2>1, <3>1 DEF First
    <2>6. First(r)' \subseteq valid' /\ pc' # "output"
      BY <1>1, <1>5, <1>10, <2>4, <2>5
    <2>. QED  BY <2>2, <2>3, <2>6 DEF SoundOf
  <1>16. ASSUME NEW q \in Requests \ {r}
         PROVE  CountedOf(q)' /\ SoundOf(q)'
    <2>1. SameOf(q) /\ SamePhase
      BY <1>1, <1>10, <1>11, <1>12 DEF SameOf, SamePhase
    <2>. QED  BY <1>0, <2>1, KVKept DEF KVInv
  <1>. QED  BY <1>13, <1>14, <1>15, <1>16 DEF KVInv

(* _preempt_request: the victim was not scheduled yet in this step. *)
LEMMA KVPreempt ==
  ASSUME RemoteInv, RemoteInv', KVInv, PreemptForRunning
  PROVE  KVInv'
  <1>a. PICK v, m : v = Last(running) /\ m = Len(running)
    OBVIOUS
  <1>0. TypeOK /\ TypeOK' /\ Partitioned /\ RunningOnce /\ loop \in LoopType
        /\ \A q \in Requests : TransferOf(q)
    BY DEF RemoteInv, Owners, TypeOK, Transfers
  <1>1. /\ pc = "running" /\ pc' \in {"end", "running"} /\ loop.idx < m
        /\ FreeBlocks({v}) /\ status' = [status EXCEPT ![v] = "PREEMPTED"]
        /\ computed' = [computed EXCEPT ![v] = 0] /\ running' = Front(running)
        /\ loop' = [loop EXCEPT !.preempted = TRUE]
        /\ UNCHANGED <<tokens, skipped, finished_recving, xfer, bad, valid, report>>
    BY <1>a DEF PreemptForRunning, InRunningLoop, worker
  <1>2. /\ loop'.toks = loop.toks /\ loop'.sync = loop.sync /\ loop'.stepSkipped = loop.stepSkipped
        /\ loop'.idx = loop.idx /\ loop.idx \in Nat
    BY <1>0, <1>1 DEF LoopType
  <1>3. /\ m \in Nat /\ DOMAIN running = 1..m /\ \A i \in 1..m : running[i] \in Requests
    BY <1>a, <1>0, Members DEF TypeOK
  <1>4. m \in DOMAIN running /\ v = running[m] /\ m > loop.idx
    <2>1. m \in 1..m /\ m > loop.idx
      BY <1>1, <1>2, <1>3
    <2>. QED  BY <1>a, <1>3, <2>1 DEF Last
  <1>5. v \in Requests /\ status[v] = "RUNNING" /\ loop.toks[v] = 0
    BY <1>0, <1>1, <1>3, <1>4 DEF RunningOnce, KVInv, Batched
  <1>6. Front(running) = [i \in 1..(m - 1) |-> running[i]]
    BY <1>a, <1>1, <1>3, SMT DEF Front
  <1>7. /\ status'[v] = "PREEMPTED" /\ computed'[v] = 0
        /\ \A q \in Requests \ {v} : status'[q] = status[q] /\ computed'[q] = computed[q]
    BY <1>0, <1>1, <1>5 DEF TypeOK
  <1>8. \A q \in Requests \ {v} : blocks'[q] = blocks[q]
    <2>1. {v} \in SUBSET Requests
      BY <1>5
    <2>. QED  BY <1>0, <1>1, <2>1, FreedBlocks
  <1>9. DOMAIN running' = 1..(m - 1) /\ \A i \in 1..(m - 1) : running'[i] = running[i] /\ i \in 1..m
    BY <1>1, <1>3, <1>6
  <1>10. Listed'
    <2>1. ASSUME NEW q \in Requests, status'[q] = "RUNNING"
          PROVE  q \in ToSet(running')
      <3>1. q # v /\ status[q] = "RUNNING"
        BY <1>7, <2>1
      <3>2. PICK i \in 1..m : running[i] = q
        BY <1>3, <3>1 DEF KVInv, Listed, ToSet
      <3>3. i \in 1..(m - 1)
        BY <1>3, <1>4, <3>1, <3>2
      <3>. QED  BY <1>9, <3>2, <3>3 DEF ToSet
    <2>2. \A q \in Requests : status'[q] = "WAITING_FOR_REMOTE_KVS" => status[q] = "WAITING_FOR_REMOTE_KVS"
      BY <1>7
    <2>. QED  BY <1>1, <1>2, <2>1, <2>2 DEF KVInv, Listed
  <1>11. Batched'
    <2>1. ASSUME NEW q \in Requests, q \in loop'.sync \/ loop'.toks[q] # 0
          PROVE  status'[q] \in {"RUNNING", "FINISHED"}
      BY <1>1, <1>2, <1>5, <1>7, <2>1 DEF KVInv, Batched
    <2>. QED  BY <1>1, <1>2, <1>3, <1>9, <2>1 DEF KVInv, Batched
  <1>12. CountedOf(v)' /\ SoundOf(v)'
    <2>1. Len(blocks'[v]) \in Nat
      BY <1>0, <1>5, LenProperties DEF TypeOK
    <2>2. tokens'[v] > 0 /\ loop'.toks[v] = 0
      BY <1>1, <1>2, <1>5 DEF KVInv, CountedOf
    <2>. QED  BY <1>5, <1>7, <2>1, <2>2, NothingComputed DEF AwaitsLoad
  <1>13. ASSUME NEW q \in Requests \ {v}
         PROVE  CountedOf(q)' /\ SoundOf(q)'
    <2>1. SameOf(q) /\ SamePhase
      BY <1>1, <1>2, <1>7, <1>8 DEF SameOf, SamePhase
    <2>. QED  BY <1>0, <2>1, KVKept DEF KVInv
  <1>. QED  BY <1>10, <1>11, <1>12, <1>13 DEF KVInv

(* A request that waits, its load being over, with valid blocks for what   *)
(* it has computed                                                         *)
LEMMA Settled ==
  ASSUME RemoteInv, KVInv, pc \notin {"execute", "output"}, NEW r \in Requests,
         status[r] \in Active \ {"RUNNING"}, ~AwaitsLoad(r)
  PROVE  /\ loop.toks[r] = 0 /\ r \notin loop.sync
         /\ computed[r] \in Nat /\ tokens[r] \in Nat /\ tokens[r] > 0
         /\ Len(blocks[r]) \in Nat /\ cdiv(computed[r], BlockSize) <= Len(blocks[r])
         /\ FirstOf(blocks[r], computed[r]) \subseteq valid
         /\ FirstOf(blocks[r], computed[r]) \subseteq Table(r)
  <1>1. TypeOK /\ CountedOf(r) /\ SoundOf(r)
    BY DEF RemoteInv, KVInv
  <1>2. loop.toks[r] = 0 /\ r \notin loop.sync
    BY DEF KVInv, Batched
  <1>3. Before(r) = computed[r]
    BY DEF Before
  <1>4. computed[r] \in Nat /\ tokens[r] \in Nat /\ tokens[r] > 0
    BY <1>1, <1>3 DEF CountedOf, TypeOK
  <1>5. First(r) \subseteq Table(r) /\ Len(blocks[r]) \in Nat /\ cdiv(Before(r), BlockSize) <= Len(blocks[r])
    BY <1>1, FirstIs
  <1>6. First(r) \subseteq valid
    BY <1>1, <1>2 DEF SoundOf
  <1>. QED  BY <1>2, <1>3, <1>4, <1>5, <1>6 DEF First

(* _update_waiting_for_remote_kv: after a full hit the last token is        *)
(* computed again; blocks are freed only if nothing is computed.           *)
LEMMA KVPromote ==
  ASSUME RemoteInv, RemoteInv', KVInv, PromoteLoaded
  PROVE  KVInv'
  <1>a. PICK r : r = NextWaiting
    OBVIOUS
  <1>b. PICK S : S = IF r \in failed_recving /\ computed[r] = 0 THEN {r} ELSE {}
    OBVIOUS
  <1>c. PICK c : c = IF r \notin failed_recving /\ computed[r] = tokens[r] THEN computed[r] - 1 ELSE computed[r]
    OBVIOUS
  <1>0. TypeOK /\ TypeOK' /\ Partitioned
    BY DEF RemoteInv, Owners
  <1>1. /\ pc = "waiting" /\ pc' = pc /\ InWaitingLoop
        /\ status[r] = "WAITING_FOR_REMOTE_KVS" /\ r \in finished_recving
        /\ FreeBlocks(S)
        /\ computed' = [computed EXCEPT ![r] = c]
        /\ status' = [status EXCEPT ![r] = IF preemptions[r] THEN "PREEMPTED" ELSE "WAITING"]
        /\ finished_recving' = finished_recving \ {r}
        /\ UNCHANGED <<tokens, running, skipped, loop, xfer, bad, valid, report>>
    BY <1>a, <1>b, <1>c DEF PromoteLoaded, worker
  <1>2. r \in Requests
    BY <1>0, <1>1, <1>a, Waiting
  <1>3. /\ loop.toks[r] = 0 /\ r \notin loop.sync
        /\ computed[r] \in Nat /\ tokens[r] \in Nat /\ tokens[r] > 0
        /\ Len(blocks[r]) \in Nat /\ cdiv(computed[r], BlockSize) <= Len(blocks[r])
        /\ FirstOf(blocks[r], computed[r]) \subseteq valid
    BY <1>1, <1>2, Settled DEF AwaitsLoad
  <1>4. c \in Nat /\ c <= computed[r] /\ (S # {} => c = 0)
    BY <1>b, <1>c, <1>3
  <1>5. /\ status'[r] \in {"PREEMPTED", "WAITING"} /\ computed'[r] = c
        /\ \A q \in Requests \ {r} : status'[q] = status[q] /\ computed'[q] = computed[q]
    BY <1>0, <1>1, <1>2 DEF TypeOK
  <1>6. /\ \A q \in Requests \ {r} : blocks'[q] = blocks[q]
        /\ S = {} => blocks'[r] = blocks[r]
    <2>1. S \in SUBSET Requests /\ S \subseteq {r}
      BY <1>b, <1>2
    <2>2. \A q \in Requests \ S : blocks'[q] = blocks[q]
      BY <1>0, <1>1, <2>1, FreedBlocks
    <2>. QED  BY <1>2, <2>1, <2>2
  <1>7. Listed' /\ Batched'
    BY <1>1, <1>3, <1>5 DEF KVInv, Listed, Batched
  <1>8. CountedOf(r)' /\ SoundOf(r)'
    <2>1. Len(blocks'[r]) \in Nat
      BY <1>0, <1>2, LenProperties DEF TypeOK
    <2>2. ~AwaitsLoad(r)'
      BY <1>5 DEF AwaitsLoad
    <2>3. CASE S # {}
      BY <1>1, <1>2, <1>3, <1>4, <1>5, <2>1, <2>2, <2>3, NothingComputed
    <2>4. CASE S = {}
      <3>1. blocks'[r] = blocks[r]
        BY <1>6, <2>4
      <3>2. Before(r)' = c /\ Reach(r)' = c
        BY <1>1, <1>3, <1>4, <1>5 DEF Before, Reach
      <3>3. cdiv(c, BlockSize) <= Len(blocks[r])
        <4>0. c \in Int /\ computed[r] \in Int /\ c <= computed[r]
          BY <1>3, <1>4
        <4>1. cdiv(c, BlockSize) <= cdiv(computed[r], BlockSize)
          BY ONLY <4>0, BlocksOrder
        <4>2. cdiv(c, BlockSize) \in Int /\ cdiv(computed[r], BlockSize) \in Int
          BY ONLY <4>0, BlocksFor
        <4>. QED  BY <1>3, <4>1, <4>2
      <3>4. CountedOf(r)'
        BY <1>1, <1>3, <1>4, <1>5, <3>1, <3>2, <3>3 DEF CountedOf
      <3>5. First(r)' \subseteq valid'
        <4>1. FirstOf(blocks[r], c) \subseteq FirstOf(blocks[r], computed[r])
          BY <1>3, <1>4, FirstOfOrder
        <4>. QED  BY <1>1, <1>3, <3>1, <3>2, <4>1 DEF First
      <3>. QED  BY <1>1, <2>2, <3>4, <3>5 DEF SoundOf
    <2>. QED  BY <2>3, <2>4
  <1>9. ASSUME NEW q \in Requests \ {r}
        PROVE  CountedOf(q)' /\ SoundOf(q)'
    <2>1. SameOf(q) /\ SamePhase
      BY <1>1, <1>5, <1>6 DEF SameOf, SamePhase
    <2>. QED  BY <1>0, <2>1, KVKept DEF KVInv
  <1>. QED  BY <1>7, <1>8, <1>9 DEF KVInv

(* Blocks are reserved in a natural number. *)
LEMMA ReservedIs ==
  ASSUME TypeOK
  PROVE  InflightReserved \in Nat
  <1>. DEFINE D == inflight_prefills
              f == [r \in D |-> BlocksToHold(r, tokens[r])]
  <1>1. D \subseteq Requests /\ \A r \in D : tokens[r] \in Int
    BY DEF TypeOK
  <1>2. IsFiniteSet(D)
    BY <1>1, RemoteAssumption, FS_Subset
  <1>3. \A r \in D : BlocksToHold(r, tokens[r]) \in Nat
    BY <1>1, HoldIs
  <1>4. f \in [D -> Nat]
    BY <1>3
  <1>5. InflightReserved = Total(f)
    BY DEF InflightReserved
  <1>. HIDE DEF D, f
  <1>. QED  BY <1>2, <1>4, <1>5, UnitsFinite

(* What fits can be taken from the pool. *)
LEMMA FitsIs ==
  ASSUME TypeOK, NEW r \in Requests, NEW n \in Int, NEW reserved \in Nat, Fits(r, n, reserved)
  PROVE  BlocksToHold(r, n) \in Nat /\ BlocksToHold(r, n) <= Cardinality(free)
  <1>1. BlocksToHold(r, n) \in Nat
    BY HoldIs
  <1>2. Cardinality(free) \in Nat
    <2>1. IsFiniteSet(free)
      BY BlocksFinite DEF TypeOK
    <2>. QED  BY <2>1, FS_CardinalityType
  <1>3. BlocksToHold(r, n) <= Cardinality(free) - reserved
    BY DEF Fits
  <1>. QED  BY <1>1, <1>2, <1>3

(* An asynchronous load covers the blocks of the tokens it will bring. *)
LEMMA KVAdmitLoad ==
  ASSUME RemoteInv, RemoteInv', KVInv, NEW ext \in Offered, AdmitLoad(ext)
  PROVE  KVInv'
  <1>a. PICK r, n : r = NextWaiting /\ n = BlocksToHold(r, ext)
    OBVIOUS
  <1>0. TypeOK /\ TypeOK' /\ Partitioned /\ loop \in LoopType /\ \A q \in Requests : TransferOf(q)
    BY DEF RemoteInv, Owners, TypeOK, Transfers
  <1>1. /\ pc = "waiting" /\ pc' = pc /\ InWaitingLoop /\ status[r] \in {"WAITING", "PREEMPTED"}
        /\ ext \in Offers(r) \ {0} /\ LoadFits(r, ext)
        /\ GetNewBlocks(r, n) /\ PopWaiting
        /\ status' = [status EXCEPT ![r] = "WAITING_FOR_REMOTE_KVS"]
        /\ computed' = [computed EXCEPT ![r] = ext]
        /\ xfer' = [xfer EXCEPT ![r] = Transfer("loading", ToSet(blocks'[r]))]
        /\ loop' = [loop EXCEPT !.stepSkipped = <<r>> \o @]
        /\ UNCHANGED <<tokens, running, finished_recving, bad, report>>
    BY <1>a DEF AdmitLoad, Schedulable
  <1>2. r \in Requests
    BY <1>0, <1>1, <1>a, Waiting
  <1>3. ext \in Nat
    BY Numbers DEF Offered
  <1>4. n \in Nat /\ n <= Cardinality(free)
    <2>1. Fits(r, ext, InflightReserved) /\ InflightReserved \in Nat /\ ext \in Int
      BY <1>0, <1>1, <1>3, ReservedIs DEF LoadFits
    <2>. QED  BY <1>0, <1>2, <1>a, <2>1, FitsIs
  <1>5. cdiv(ext, BlockSize) <= Len(blocks[r]) + n
    <2>1. ext \in Int
      BY <1>3
    <2>. QED  BY <1>0, <1>2, <1>a, <2>1, HoldIs
  <1>6. /\ Len(blocks'[r]) = Len(blocks[r]) + n
        /\ \A q \in Requests : \A b \in Table(q) : b \in valid => b \in valid'
    BY <1>0, <1>1, <1>2, <1>4, Grown
  <1>7. \A q \in Requests \ {r} : blocks'[q] = blocks[q]
    BY <1>0, <1>1, <1>2, NewBlocks
  <1>8. /\ status'[r] = "WAITING_FOR_REMOTE_KVS" /\ computed'[r] = ext
        /\ xfer'[r] = Transfer("loading", ToSet(blocks'[r]))
        /\ \A q \in Requests \ {r} :
             status'[q] = status[q] /\ computed'[q] = computed[q] /\ xfer'[q] = xfer[q]
    BY <1>0, <1>1, <1>2 DEF TypeOK
  <1>9. loop'.toks = loop.toks /\ loop'.sync = loop.sync /\ loop'.stepSkipped = <<r>> \o loop.stepSkipped
    BY <1>0, <1>1 DEF LoopType
  <1>10. loop.toks[r] = 0 /\ r \notin loop.sync /\ tokens[r] > 0
    BY <1>1, <1>2 DEF KVInv, Batched, CountedOf
  <1>11. Listed'
    <2>0. loop.stepSkipped \in Seq(Requests)
      BY <1>0, LoopParts
    <2>1. r \in ToSet(loop'.stepSkipped) /\ \A p \in ToSet(loop.stepSkipped) : p \in ToSet(loop'.stepSkipped)
      BY <1>2, <1>9, <2>0, Pushed
    <2>2. ASSUME NEW q \in Requests \ {r}, q \in ToSet(skipped) \/ q \in ToSet(loop.stepSkipped)
          PROVE  q \in ToSet(skipped') \/ q \in ToSet(loop'.stepSkipped)
      <3>1. q \in ToSet(skipped) => q \in ToSet(skipped') \/ q = r
        BY <1>0, <1>1, <1>a, Popped
      <3>. QED  BY <2>1, <2>2, <3>1
    <2>. QED  BY <1>1, <1>8, <2>1, <2>2 DEF KVInv, Listed
  <1>12. Batched'
    BY <1>1, <1>8, <1>9, <1>10 DEF KVInv, Batched
  <1>13. CountedOf(r)' /\ SoundOf(r)'
    <2>1. Before(r)' = ext /\ Reach(r)' = ext
      BY <1>1, <1>3, <1>8, <1>9, <1>10 DEF Before, Reach
    <2>2. CountedOf(r)'
      BY <1>1, <1>3, <1>5, <1>6, <1>8, <1>9, <1>10, <2>1 DEF CountedOf
    <2>3. First(r)' \subseteq ToSet(blocks'[r])
      <3>1. blocks'[r] \in Seq(Blocks) /\ cdiv(ext, BlockSize) <= Len(blocks'[r])
        BY <1>0, <1>2, <1>5, <1>6 DEF TypeOK
      <3>2. FirstOf(blocks'[r], ext) \subseteq ToSet(blocks'[r])
        BY ONLY <1>3, <3>1, FirstOfTable
      <3>. QED  BY <2>1, <3>2 DEF First
    <2>4. /\ r \notin finished_recving /\ r \notin report.recv
      <3>1. r \notin report.recv
        BY <1>0, <1>1, <1>2, NoTransferWhileActive
      <3>. QED  BY <1>0, <1>1, <1>2, <3>1 DEF TransferOf
    <2>5. AwaitsLoad(r)' /\ r \notin report'.recv
      BY <1>1, <1>8, <2>4 DEF AwaitsLoad
    <2>6. xfer'[r].kind = "loading" /\ xfer'[r].on = ToSet(blocks'[r]) /\ xfer'[r].fails = {}
      BY <1>8 DEF Transfer
    <2>. QED  BY <2>2, <2>3, <2>5, <2>6 DEF SoundOf
  <1>14. ASSUME NEW q \in Requests \ {r}
         PROVE  CountedOf(q)' /\ SoundOf(q)'
    <2>1. SameOf(q) /\ SamePhase
      BY <1>1, <1>6, <1>7, <1>8, <1>9 DEF SameOf, SamePhase
    <2>. QED  BY <1>0, <2>1, KVKept DEF KVInv
  <1>. QED  BY <1>11, <1>12, <1>13, <1>14 DEF KVInv

(* A request runs: what it has computed is valid, or is loaded in the step. *)
LEMMA KVAdmitWaiting ==
  ASSUME RemoteInv, RemoteInv', KVInv, NEW ext \in Offered, AdmitWaiting(ext)
  PROVE  KVInv'
  <1>a. PICK r : r = NextWaiting
    OBVIOUS
  <1>b. PICK k : k = AdmitTokens(r, ext)
    OBVIOUS
  <1>c. PICK n, m : n = BlocksToHold(r, computed[r] + ext + k) /\ m = Len(running)
    OBVIOUS
  <1>0. TypeOK /\ TypeOK' /\ Partitioned /\ loop \in LoopType /\ \A q \in Requests : TransferOf(q)
    BY DEF RemoteInv, Owners, TypeOK, Transfers
  <1>1. /\ pc = "waiting" /\ pc' = pc /\ InWaitingLoop /\ status[r] \in {"WAITING", "PREEMPTED"}
        /\ ext \in Offers(r) /\ k > 0 /\ Fits(r, computed[r] + ext + k, 0)
        /\ GetNewBlocks(r, n) /\ PopWaiting
        /\ running' = Append(running, r)
        /\ status' = [status EXCEPT ![r] = "RUNNING"]
        /\ computed' = [computed EXCEPT ![r] = @ + ext]
        /\ loop' = [loop EXCEPT !.budget = @ - k, !.toks[r] = k,
                                !.sync = IF ext > 0 THEN @ \cup {r} ELSE @]
        /\ UNCHANGED <<tokens, finished_recving, xfer, bad, report>>
    BY <1>a, <1>b, <1>c DEF AdmitWaiting, Schedulable
  <1>2. r \in Requests
    BY <1>0, <1>1, <1>a, Waiting
  <1>3. /\ loop.toks[r] = 0 /\ r \notin loop.sync
        /\ computed[r] \in Nat /\ tokens[r] \in Nat /\ tokens[r] > 0
        /\ Len(blocks[r]) \in Nat /\ cdiv(computed[r], BlockSize) <= Len(blocks[r])
        /\ FirstOf(blocks[r], computed[r]) \subseteq valid
        /\ FirstOf(blocks[r], computed[r]) \subseteq Table(r)
    BY <1>1, <1>2, Settled DEF AwaitsLoad
  <1>4. ext \in Nat /\ loop.budget \in Int
    BY <1>0, Numbers, LoopParts DEF Offered
  <1>5. k \in Nat /\ k > 0 /\ computed[r] + ext + k <= tokens[r]
    BY <1>b, <1>1, <1>3, <1>4 DEF AdmitTokens, MinOf
  <1>d. PICK c, d : c = computed[r] + ext /\ d = c + k
    OBVIOUS
  <1>6. c \in Nat /\ d \in Nat /\ c < tokens[r] /\ d <= tokens[r] /\ d = computed[r] + ext + k
    BY <1>d, <1>3, <1>4, <1>5
  <1>7. n \in Nat /\ n <= Cardinality(free) /\ cdiv(d, BlockSize) <= Len(blocks[r]) + n
    <2>1. Fits(r, d, 0) /\ d \in Int /\ n = BlocksToHold(r, d)
      BY <1>1, <1>6, <1>c
    <2>2. BlocksToHold(r, d) \in Nat /\ BlocksToHold(r, d) <= Cardinality(free)
      BY <1>0, <1>2, <2>1, FitsIs
    <2>3. cdiv(d, BlockSize) <= Len(blocks[r]) + BlocksToHold(r, d)
      BY <1>0, <1>2, <2>1, HoldIs
    <2>. QED  BY <2>1, <2>2, <2>3
  <1>8. /\ Len(blocks'[r]) = Len(blocks[r]) + n
        /\ \A i \in 1..Len(blocks[r]) : blocks'[r][i] = blocks[r][i]
        /\ \A q \in Requests : \A b \in Table(q) : b \in valid => b \in valid'
    BY <1>0, <1>1, <1>2, <1>7, Grown
  <1>9. \A q \in Requests \ {r} : blocks'[q] = blocks[q]
    BY <1>0, <1>1, <1>2, NewBlocks
  <1>10. /\ status'[r] = "RUNNING" /\ computed'[r] = c
         /\ \A q \in Requests \ {r} : status'[q] = status[q] /\ computed'[q] = computed[q]
    BY <1>0, <1>1, <1>2, <1>d DEF TypeOK
  <1>11. /\ loop'.toks[r] = k /\ \A q \in Requests \ {r} : loop'.toks[q] = loop.toks[q]
         /\ loop'.sync = IF ext > 0 THEN loop.sync \cup {r} ELSE loop.sync
         /\ loop'.stepSkipped = loop.stepSkipped
    <2>1. loop.toks \in [Requests -> Int]
      BY <1>0, LoopParts
    <2>. QED  BY <1>0, <1>1, <1>2, <2>1 DEF LoopType
  <1>12. Listed'
    <2>1. r \in ToSet(running') /\ \A q \in ToSet(running) : q \in ToSet(running')
      <3>0. running \in Seq(Requests) /\ m \in Nat /\ DOMAIN running = 1..m
        BY <1>0, <1>c, Members DEF TypeOK
      <3>1. /\ Append(running, r) \in Seq(Requests)
            /\ Len(Append(running, r)) = m + 1
            /\ \A i \in 1..m : Append(running, r)[i] = running[i]
            /\ Append(running, r)[m + 1] = r
        BY <1>2, <1>c, <3>0, AppendProperties
      <3>2. DOMAIN running' = 1..(m + 1)
        BY <1>1, <3>1, Members
      <3>3. m + 1 \in 1..(m + 1) /\ \A i \in 1..m : i \in 1..(m + 1)
        BY <3>0
      <3>. QED  BY <1>1, <3>0, <3>1, <3>2, <3>3 DEF ToSet
    <2>2. ASSUME NEW q \in Requests, status'[q] = "WAITING_FOR_REMOTE_KVS"
          PROVE  q \in ToSet(skipped') \/ q \in ToSet(loop'.stepSkipped)
      <3>1. q # r /\ status[q] = "WAITING_FOR_REMOTE_KVS"
        BY <1>10, <2>2
      <3>2. q \in ToSet(skipped) => q \in ToSet(skipped') \/ q = r
        BY <1>0, <1>1, <1>a, Popped
      <3>. QED  BY <1>11, <3>1, <3>2 DEF KVInv, Listed
    <2>. QED  BY <1>1, <1>10, <2>1, <2>2 DEF KVInv, Listed
  <1>13. Batched'
    BY <1>1, <1>10, <1>11 DEF KVInv, Batched
  <1>14. CountedOf(r)' /\ SoundOf(r)'
    <2>1. Before(r)' = c /\ Reach(r)' = d
      BY <1>1, <1>d, <1>10, <1>11 DEF Before, Reach
    <2>2. CountedOf(r)'
      <3>1. loop'.toks[r] \in Nat /\ tokens'[r] > 0 /\ tokens'[r] = tokens[r]
        BY <1>1, <1>3, <1>5, <1>11
      <3>2. cdiv(d, BlockSize) <= Len(blocks'[r])
        BY <1>7, <1>8
      <3>. QED  BY <1>6, <1>10, <2>1, <3>1, <3>2 DEF CountedOf
    <2>3. ~AwaitsLoad(r)' /\ pc' # "output"
      BY <1>1, <1>10 DEF AwaitsLoad
    <2>4. CASE ext > 0
      <3>1. r \in loop'.sync
        BY <1>11, <2>4
      <3>. QED  BY <2>2, <2>3, <3>1 DEF SoundOf
    <2>5. CASE ~(ext > 0)
      <3>1. c = computed[r]
        BY <1>d, <1>3, <1>4, <2>5
      <3>2. FirstOf(blocks'[r], computed[r]) = FirstOf(blocks[r], computed[r])
        <4>1. computed[r] \in Int /\ cdiv(computed[r], BlockSize) <= Len(blocks[r]) /\ Len(blocks[r]) \in Nat
          BY <1>3
        <4>2. \A i \in 1..Len(blocks[r]) : blocks'[r][i] = blocks[r][i]
          BY <1>8
        <4>. QED  BY ONLY <4>1, <4>2, FirstOfGrown
      <3>3. First(r)' \subseteq valid'
        BY <1>2, <1>3, <1>8, <2>1, <3>1, <3>2 DEF First
      <3>. QED  BY <2>2, <2>3, <3>3 DEF SoundOf
    <2>. QED  BY <2>4, <2>5
  <1>15. ASSUME NEW q \in Requests \ {r}
         PROVE  CountedOf(q)' /\ SoundOf(q)'
    <2>1. SameOf(q) /\ SamePhase
      BY <1>1, <1>8, <1>9, <1>10, <1>11 DEF SameOf, SamePhase
    <2>. QED  BY <1>0, <2>1, KVKept DEF KVInv
  <1>. QED  BY <1>12, <1>13, <1>14, <1>15 DEF KVInv

(* The waiting loop ends: the requests passed over are in their queue. *)
LEMMA KVEndWaiting ==
  ASSUME RemoteInv, KVInv, NEW ext, NEW load_kv_async, EndWaiting(ext, load_kv_async)
  PROVE  KVInv'
  <1>a. PICK s, t : s = loop.stepSkipped /\ t = skipped
    OBVIOUS
  <1>0. TypeOK /\ loop \in LoopType
    BY DEF RemoteInv, TypeOK
  <1>1. /\ pc = "waiting" /\ skipped' = Reverse(s) \o t
        /\ loop' = [loop EXCEPT !.stepSkipped = <<>>] /\ pc' = "end"
        /\ UNCHANGED <<status, computed, tokens, blocks, running, finished_recving, xfer, bad, valid,
                       report>>
    BY <1>a DEF EndWaiting, worker
  <1>2. loop'.toks = loop.toks /\ loop'.sync = loop.sync /\ loop'.stepSkipped = <<>>
    BY <1>0, <1>1 DEF LoopType
  <1>3. s \in Seq(Requests) /\ t \in Seq(Requests)
    BY <1>0, <1>a, LoopParts DEF TypeOK
  <1>b. PICK m, l, u : m = Len(s) /\ l = Len(t) /\ u = Reverse(s)
    OBVIOUS
  <1>4. /\ m \in Nat /\ DOMAIN s = 1..m /\ \A i \in 1..m : s[i] \in Requests
        /\ l \in Nat /\ DOMAIN t = 1..l
    BY <1>3, <1>b, Members
  <1>5. \A i \in 1..m : (m - i) + 1 \in 1..m /\ (m - ((m - i) + 1)) + 1 = i
    BY <1>4
  <1>6. u = [i \in 1..m |-> s[(m - i) + 1]]
    BY <1>b DEF Reverse
  <1>7. u \in [1..m -> Requests] /\ DOMAIN u = 1..m /\ \A i \in 1..m : u[(m - i) + 1] = s[i]
    BY <1>4, <1>5, <1>6
  <1>8. u \in Seq(Requests) /\ Len(u) = m
    <2>1. u \in Seq(Requests)
      BY <1>4, <1>7, SeqDef
    <2>2. Len(u) \in Nat /\ DOMAIN u = 1..Len(u)
      BY <2>1, LenProperties
    <2>. QED  BY <1>4, <1>7, <2>1, <2>2
  <1>9. /\ u \o t \in Seq(Requests) /\ Len(u \o t) = m + l
        /\ \A i \in 1..(m + l) : (u \o t)[i] = IF i <= m THEN u[i] ELSE t[i - m]
    <2>1. u \in Seq(Requests) /\ t \in Seq(Requests)
      BY <1>3, <1>8
    <2>2. /\ u \o t \in Seq(Requests) /\ Len(u \o t) = Len(u) + Len(t)
          /\ \A i \in 1..(Len(u) + Len(t)) : (u \o t)[i] = IF i <= Len(u) THEN u[i] ELSE t[i - Len(u)]
      BY ONLY <2>1, ConcatProperties
    <2>3. Len(u) = m /\ Len(t) = l
      BY <1>8, <1>b
    <2>. QED  BY ONLY <2>2, <2>3, Zenon
  <1>10. DOMAIN (u \o t) = 1..(m + l)
    BY <1>9, LenProperties
  <1>11. /\ \A i \in 1..m : i \in 1..(m + l) /\ i <= m
         /\ \A i \in 1..l : i + m \in 1..(m + l) /\ ~(i + m <= m) /\ (i + m) - m = i
    BY <1>4
  <1>12. ASSUME NEW q, q \in ToSet(t) \/ q \in ToSet(s)
         PROVE  q \in ToSet(u \o t)
    <2>1. CASE q \in ToSet(s)
      <3>1. PICK i \in 1..m : q = s[i]
        BY <1>4, <2>1 DEF ToSet
      <3>2. (m - i) + 1 \in 1..m /\ q = u[(m - i) + 1]
        BY <1>5, <1>7, <3>1
      <3>. QED  BY <1>9, <1>10, <1>11, <3>2 DEF ToSet
    <2>2. CASE q \in ToSet(t)
      <3>1. PICK i \in 1..l : q = t[i]
        BY <1>4, <2>2 DEF ToSet
      <3>2. i + m \in 1..(m + l) /\ (u \o t)[i + m] = q
        BY <1>9, <1>11, <3>1
      <3>. QED  BY <1>10, <3>2 DEF ToSet
    <2>. QED  BY <1>12, <2>1, <2>2
  <1>13. Listed'
    <2>1. \A q \in Requests : q \in ToSet(skipped) \/ q \in ToSet(loop.stepSkipped) => q \in ToSet(skipped')
      BY <1>a, <1>b, <1>1, <1>12
    <2>. QED  BY <1>1, <1>2, <2>1 DEF KVInv, Listed
  <1>14. Batched' /\ SamePhase
    BY <1>1, <1>2 DEF KVInv, Batched, SamePhase
  <1>. QED  BY <1>1, <1>2, <1>13, <1>14, KVIdle

(* _update_after_schedule: the batch is counted, and not computed yet. *)
LEMMA KVEndSchedule ==
  ASSUME RemoteInv, KVInv, EndSchedule
  PROVE  KVInv'
  <1>0. TypeOK
    BY DEF RemoteInv
  <1>1. /\ pc = "end" /\ pc' = "execute"
        /\ computed' = [r \in Requests |-> computed[r] + loop.toks[r]]
        /\ UNCHANGED <<status, tokens, blocks, running, skipped, finished_recving, loop, xfer, bad,
                       valid, report>>
    BY DEF EndSchedule, worker
  <1>2. Listed' /\ Batched'
    BY <1>1 DEF KVInv, Listed, Batched
  <1>3. ASSUME NEW q \in Requests
        PROVE  CountedOf(q)' /\ SoundOf(q)'
    <2>0. CountedOf(q) /\ SoundOf(q) /\ loop.toks[q] \in Nat /\ computed[q] \in Int
      BY <1>0 DEF KVInv, CountedOf, TypeOK
    <2>1. Before(q)' = Before(q) /\ Reach(q)' = Reach(q)
      <3>1. (computed[q] + loop.toks[q]) - loop.toks[q] = computed[q]
        BY <2>0
      <3>. QED  BY <1>1, <3>1 DEF Before, Reach
    <2>2. First(q)' = First(q)
      BY <1>1, <2>1 DEF First
    <2>3. status[q] = "NONE" => computed'[q] = 0
      <3>1. status[q] = "NONE" => loop.toks[q] = 0 /\ computed[q] = 0
        BY <2>0 DEF KVInv, Batched, CountedOf
      <3>. QED  BY <1>1, <3>1
    <2>4. CountedOf(q)'
      BY <1>1, <2>0, <2>1, <2>3 DEF CountedOf
    <2>5. AwaitsLoad(q)' <=> AwaitsLoad(q)
      BY <1>1 DEF AwaitsLoad
    <2>6. SoundOf(q)'
      BY <1>1, <2>0, <2>2, <2>5 DEF SoundOf
    <2>. QED  BY <2>4, <2>6
  <1>. QED  BY <1>2, <1>3 DEF KVInv

(* A load that ends has written its blocks, or they have failed. *)
LEMMA KVTransferEnds ==
  ASSUME RemoteInv, RemoteInv', KVInv, NEW r \in Requests, TransferEnds(r)
  PROVE  KVInv'
  <1>0. TypeOK /\ TypeOK' /\ TransferOf(r) /\ CountedOf(r) /\ SoundOf(r)
    BY DEF RemoteInv, Transfers, KVInv
  <1>1. /\ UNCHANGED <<status, computed, tokens, blocks, running, skipped, finished_recving, pc, loop,
                       report>>
        /\ pc \notin {"running", "waiting", "end"}
    BY DEF TransferEnds, LoadEnds, SaveEnds, sched, Scheduling
  <1>2. PICK fail : \/ /\ xfer[r].kind = "loading" /\ xfer' = [xfer EXCEPT ![r].kind = "loaded"]
                       /\ bad' = bad \cup fail
                       /\ valid' = valid \cup (xfer[r].on \ (xfer[r].fails \cup fail))
                    \/ /\ xfer[r].kind = "sending" /\ xfer' = [xfer EXCEPT ![r].kind = "sent"]
                       /\ bad' = bad /\ valid' = valid
    BY DEF TransferEnds, LoadEnds, SaveEnds
  <1>3. /\ \A q \in Requests \ {r} : xfer'[q] = xfer[q]
        /\ bad \subseteq bad' /\ valid \subseteq valid'
    BY <1>0, <1>2 DEF TypeOK
  <1>4. Listed' /\ Batched'
    BY <1>1 DEF KVInv, Listed, Batched
  <1>5. CountedOf(r)' /\ SoundOf(r)'
    <2>1. Before(r)' = Before(r)
      BY <1>1 DEF Before
    <2>2. Reach(r)' = Reach(r) /\ First(r)' = First(r)
      BY <1>1, <2>1 DEF Reach, First
    <2>3. CountedOf(r)'
      BY <1>0, <1>1, <2>1, <2>2 DEF CountedOf
    <2>4. CASE xfer[r].kind = "sending"
      BY <1>0, <1>1, <2>3, <2>4 DEF TransferOf, SoundOf
    <2>5. CASE xfer[r].kind = "loading"
      <3>1. /\ status[r] \in {"WAITING_FOR_REMOTE_KVS", "FINISHED"} /\ r \notin finished_recving
            /\ r \notin report.recv
        BY <1>0, <2>5 DEF TransferOf
      <3>2. CASE status[r] = "FINISHED"
        BY <1>1, <2>3, <3>2 DEF SoundOf
      <3>3. CASE status[r] = "WAITING_FOR_REMOTE_KVS"
        <4>1. AwaitsLoad(r) /\ AwaitsLoad(r)'
          BY <1>1, <3>1, <3>3 DEF AwaitsLoad
        <4>2. First(r) \subseteq (xfer[r].on \ xfer[r].fails) \cup bad \cup report.invalid
          BY <1>0, <2>5, <3>3, <4>1 DEF SoundOf
        <4>3. First(r)' \subseteq valid' \cup bad' \cup report'.invalid
          BY <1>1, <1>2, <2>2, <2>5, <4>2
        <4>4. xfer'[r].kind = "loaded"
          <5>1. xfer' = [xfer EXCEPT ![r].kind = "loaded"]
            BY <1>2, <2>5
          <5>2. xfer \in [Requests -> TransferType] /\ xfer[r] \in TransferType
            BY <1>0 DEF TypeOK
          <5>. QED  BY <5>1, <5>2 DEF TransferType
        <4>. QED  BY <1>1, <2>3, <3>1, <4>1, <4>3, <4>4 DEF SoundOf
      <3>. QED  BY <3>1, <3>2, <3>3
    <2>. QED  BY <1>2, <2>4, <2>5
  <1>6. ASSUME NEW q \in Requests \ {r}
        PROVE  CountedOf(q)' /\ SoundOf(q)'
    <2>1. SameOf(q) /\ SamePhase
      BY <1>1, <1>3 DEF SameOf, SamePhase
    <2>. QED  BY <1>0, <2>1, KVKept DEF KVInv
  <1>. QED  BY <1>4, <1>5, <1>6 DEF KVInv

(* What fails while the load goes on is known to fail, and is reported with *)
(* the next pass.                                                          *)
LEMMA KVLoadFails ==
  ASSUME RemoteInv, RemoteInv', KVInv, NEW r \in Requests, NEW fail \in SUBSET Blocks,
         LoadFails(r, fail)
  PROVE  KVInv'
  <1>0. TypeOK /\ TransferOf(r) /\ CountedOf(r) /\ SoundOf(r)
    BY DEF RemoteInv, Transfers, KVInv
  <1>1. /\ UNCHANGED <<status, computed, tokens, blocks, running, skipped, finished_recving, pc, loop,
                       report, valid>>
        /\ xfer[r].kind = "loading" /\ bad' = bad \cup fail
        /\ xfer' = [xfer EXCEPT ![r].fails = @ \cup fail]
    BY DEF LoadFails, sched
  <1>2. /\ \A q \in Requests \ {r} : xfer'[q] = xfer[q]
        /\ xfer'[r].kind = "loading" /\ xfer'[r].on = xfer[r].on
        /\ xfer'[r].fails = xfer[r].fails \cup fail
    <2>1. xfer \in [Requests -> TransferType] /\ xfer[r] \in TransferType
      BY <1>0 DEF TypeOK
    <2>. QED  BY <1>1, <2>1 DEF TransferType
  <1>3. Listed' /\ Batched'
    BY <1>1 DEF KVInv, Listed, Batched
  <1>4. CountedOf(r)' /\ SoundOf(r)'
    <2>1. Before(r)' = Before(r)
      BY <1>1 DEF Before
    <2>2. Reach(r)' = Reach(r) /\ First(r)' = First(r)
      BY <1>1, <2>1 DEF Reach, First
    <2>3. CountedOf(r)'
      BY <1>0, <1>1, <2>1, <2>2 DEF CountedOf
    <2>4. /\ status[r] \in {"WAITING_FOR_REMOTE_KVS", "FINISHED"} /\ r \notin finished_recving
          /\ r \notin report.recv
      BY <1>0, <1>1 DEF TransferOf
    <2>5. CASE status[r] = "FINISHED"
      BY <1>1, <2>3, <2>5 DEF SoundOf
    <2>6. CASE status[r] = "WAITING_FOR_REMOTE_KVS"
      <3>1. AwaitsLoad(r) /\ AwaitsLoad(r)'
        BY <1>1, <2>4, <2>6 DEF AwaitsLoad
      <3>2. First(r) \subseteq (xfer[r].on \ xfer[r].fails) \cup bad \cup report.invalid
        BY <1>0, <1>1, <2>6, <3>1 DEF SoundOf
      <3>3. First(r)' \subseteq (xfer'[r].on \ xfer'[r].fails) \cup bad' \cup report'.invalid
        BY <1>1, <1>2, <2>2, <3>2
      <3>. QED  BY <1>1, <1>2, <2>3, <2>4, <3>1, <3>3 DEF SoundOf
    <2>. QED  BY <2>4, <2>5, <2>6
  <1>5. ASSUME NEW q \in Requests \ {r}
        PROVE  CountedOf(q)' /\ SoundOf(q)'
    <2>1. SameOf(q) /\ SamePhase
      BY <1>1, <1>2 DEF SameOf, SamePhase
    <2>. QED  BY <1>0, <2>1, KVKept DEF KVInv
  <1>. QED  BY <1>3, <1>4, <1>5 DEF KVInv

(* The forward pass: what a request had computed was valid before, or is    *)
(* loaded, or has failed and is reported; what it computes from valid      *)
(* blocks is valid.                                                        *)
LEMMA KVExecute ==
  ASSUME RemoteInv, RemoteInv', KVInv, NEW fail \in SUBSET Blocks, Execute(fail)
  PROVE  KVInv'
  <1>a. PICK loads : loads = UNION {FirstBlocks(r, ComputedBefore(r)) : r \in loop.sync}
    OBVIOUS
  <1>b. PICK usable : usable = valid \cup (loads \ fail)
    OBVIOUS
  <1>c. PICK sound : sound = {r \in Batch : FirstBlocks(r, ComputedBefore(r)) \subseteq usable}
    OBVIOUS
  <1>0. TypeOK /\ TypeOK' /\ report = NoReport
    BY DEF RemoteInv, Transfers, Execute
  <1>1. /\ pc = "execute" /\ pc' = "output"
        /\ valid' = usable \cup UNION {FirstBlocks(r, computed[r]) : r \in sound}
        /\ report' = [recv |-> {r \in Requests : xfer[r].kind = "loaded"},
                      sent |-> {r \in Requests : xfer[r].kind = "sent"},
                      invalid |-> bad \cup fail]
        /\ xfer' = [r \in Requests |->
                      IF xfer[r].kind = "loaded" \/ xfer[r].kind = "sent" THEN NoTransfer ELSE xfer[r]]
        /\ UNCHANGED <<status, computed, tokens, blocks, running, skipped, finished_recving, loop>>
    BY <1>a, <1>b, <1>c DEF Execute, sched
  <1>2. /\ report'.invalid = bad \cup fail /\ \A q \in Requests : q \in report'.recv <=> xfer[q].kind = "loaded"
    BY <1>1
  <1>3. Listed' /\ Batched'
    BY <1>1 DEF KVInv, Listed, Batched
  <1>4. ASSUME NEW q \in Requests
        PROVE  CountedOf(q)' /\ SoundOf(q)'
    <2>0. CountedOf(q) /\ SoundOf(q) /\ loop.toks[q] \in Nat /\ computed[q] \in Int
      BY <1>0 DEF KVInv, CountedOf, TypeOK
    <2>1. Before(q)' = Before(q) /\ Reach(q)' = Reach(q) /\ First(q)' = First(q)
      <3>1. Before(q)' = Before(q)
        BY <1>1 DEF Before
      <3>. QED  BY <1>1, <3>1 DEF Reach, First
    <2>2. CountedOf(q)'
      BY <1>1, <2>0, <2>1 DEF CountedOf
    <2>3. ASSUME status[q] \in Active
          PROVE  SoundOf(q)'
      <3>a. PICK F, G : F = First(q) /\ G = FirstOf(blocks[q], Reach(q))
        OBVIOUS
      <3>1. First(q)' = F /\ FirstOf(blocks[q], Reach(q))' = G /\ (AwaitsLoad(q)' <=> AwaitsLoad(q))
        BY <1>1, <2>1, <3>a DEF AwaitsLoad
      <3>2. CASE AwaitsLoad(q)
        <4>0. report.invalid = {}
          BY <1>0 DEF NoReport
        <4>1. /\ xfer[q].kind = "loading" => F \subseteq (xfer[q].on \ xfer[q].fails) \cup bad
              /\ xfer[q].kind = "loaded" => F \subseteq valid \cup bad
          BY <2>0, <2>3, <3>2, <3>a, <4>0 DEF SoundOf
        <4>2. /\ xfer'[q].kind # "loaded"
              /\ xfer'[q].kind = "loading" => xfer'[q] = xfer[q]
          BY <1>1 DEF NoTransfer, Transfer
        <4>3. q \in report'.recv => F \subseteq valid' \cup report'.invalid
          BY <1>1, <1>2, <1>b, <4>1
        <4>4. xfer'[q].kind = "loading" =>
                F \subseteq (xfer'[q].on \ xfer'[q].fails) \cup bad' \cup report'.invalid
          BY <1>2, <4>1, <4>2
        <4>. QED  BY <1>1, <3>1, <3>2, <4>2, <4>3, <4>4 DEF SoundOf
      <3>3. CASE ~AwaitsLoad(q)
        <4>0. /\ Reach(q) \in Nat /\ Before(q) \in Nat /\ blocks[q] \in Seq(Blocks)
              /\ cdiv(Before(q), BlockSize) <= Len(blocks[q])
              /\ cdiv(Reach(q), BlockSize) <= Len(blocks[q])
          BY <1>0, <2>0, <2>3, FirstIs DEF CountedOf, TypeOK
        <4>1. ComputedBefore(q) = Before(q) /\ computed[q] = Reach(q)
          <5>1. Before(q) = computed[q] - loop.toks[q]
            BY <1>1 DEF Before
          <5>2. computed[q] = Before(q) + loop.toks[q]
            BY <2>0, <5>1
          <5>. QED  BY <5>1, <5>2 DEF ComputedBefore, Reach
        <4>2. FirstBlocks(q, ComputedBefore(q)) = F
          BY <3>a, <4>0, <4>1, FirstOfTable DEF FirstBlocks, First
        <4>3. FirstBlocks(q, computed[q]) = G
          BY <3>a, <4>0, <4>1, FirstOfTable DEF FirstBlocks
        <4>4. q \notin loop.sync => F \subseteq valid
          BY <2>0, <2>3, <3>3, <3>a DEF SoundOf
        <4>5. q \in loop.sync => F \subseteq loads
          BY <1>a, <4>2
        <4>6. F \subseteq usable \cup fail
          BY <1>b, <4>4, <4>5
        <4>7. F \cap (bad \cup fail) = {} => G \subseteq valid'
          <5>. SUFFICES ASSUME F \cap (bad \cup fail) = {}
                        PROVE  G \subseteq valid'
            OBVIOUS
          <5>1. F \subseteq usable
            BY <4>6
          <5>2. CASE loop.toks[q] > 0
            <6>1. q \in sound
              BY <1>c, <4>2, <5>1, <5>2 DEF Batch
            <6>. QED  BY <1>1, <4>3, <6>1
          <5>3. CASE ~(loop.toks[q] > 0)
            <6>1. loop.toks[q] = 0
              BY <2>0, <5>3
            <6>2. Reach(q) = Before(q)
              BY <4>0, <6>1 DEF Reach
            <6>3. G = F
              BY <3>a, <6>2 DEF First
            <6>. QED  BY <1>1, <5>1, <6>3
          <5>. QED  BY <5>2, <5>3
        <4>. QED  BY <1>1, <1>2, <1>b, <3>1, <3>3, <4>4, <4>6, <4>7 DEF SoundOf
      <3>. QED  BY <3>2, <3>3
    <2>. QED  BY <1>1, <2>2, <2>3 DEF SoundOf
  <1>. QED  BY <1>3, <1>4 DEF KVInv

(* _update_requests_with_invalid_blocks: the blocks that are checked are    *)
(* those of what a request had computed before the batch ...               *)
LEMMA Checked ==
  ASSUME TypeOK, pc = "output", NEW q \in Requests, CountedOf(q), status[q] \in Active
  PROVE  CheckedBlocks(q) = cdiv(Before(q), BlockSize) /\ CheckedBlocks(q) \in Int
  <1>1. ComputedBefore(q) = Before(q) /\ Before(q) \in Nat
    BY DEF ComputedBefore, Before, CountedOf
  <1>2. cdiv(Before(q), BlockSize) <= Len(blocks[q]) /\ Len(blocks[q]) \in Nat
    BY FirstIs
  <1>3. cdiv(Before(q), BlockSize) \in Int
    BY <1>1, BlocksFor
  <1>. DEFINE c == cdiv(Before(q), BlockSize)
              l == Len(blocks[q])
  <1>4. CheckedBlocks(q) = MinOf(c, l)
    BY <1>1 DEF CheckedBlocks
  <1>5. c \in Int /\ l \in Nat /\ c <= l
    BY <1>2, <1>3
  <1>. HIDE DEF c, l
  <1>6. MinOf(c, l) = c
    BY <1>5 DEF MinOf
  <1>. QED  BY <1>4, <1>5, <1>6 DEF c

(* ... and if none of them failed ...                                      *)
LEMMA NoneInvalid ==
  ASSUME TypeOK, pc = "output", NEW q \in Requests, CountedOf(q), status[q] \in Active,
         InvalidAt(q) = {}
  PROVE  First(q) \cap report.invalid = {}
  <1>1. CheckedBlocks(q) = cdiv(Before(q), BlockSize)
    BY Checked
  <1>. QED  BY <1>1 DEF InvalidAt, First, FirstOf

(* ... otherwise the request goes back to before the first that failed.    *)
LEMMA Truncated ==
  ASSUME TypeOK, pc = "output", NEW q \in Requests, CountedOf(q), status[q] \in Active,
         InvalidAt(q) # {}, NEW c, c = (Min(InvalidAt(q)) - 1) * BlockSize
  PROVE  /\ c \in Nat /\ c < Before(q) /\ cdiv(c, BlockSize) <= Len(blocks[q])
         /\ FirstOf(blocks[q], c) \subseteq First(q)
         /\ FirstOf(blocks[q], c) \cap report.invalid = {}
  <1>a. PICK m, d, B, b : m = Min(InvalidAt(q)) /\ d = cdiv(Before(q), BlockSize) /\ B = BlockSize
                          /\ b = Before(q)
    OBVIOUS
  <1>1. CheckedBlocks(q) = d /\ d \in Int /\ B \in Nat /\ B > 0 /\ b \in Nat
    BY <1>a, Checked, Numbers DEF CountedOf
  <1>2. d <= Len(blocks[q]) /\ Len(blocks[q]) \in Nat /\ (d - 1) * B < b
    BY <1>a, <1>1, FirstIs, BlocksFor
  <1>3. m \in InvalidAt(q) /\ \A i \in InvalidAt(q) : m <= i
    <2>. DEFINE S == InvalidAt(q)
    <2>1. S \in SUBSET (1..d) /\ S # {}
      BY <1>1 DEF InvalidAt
    <2>. HIDE DEF S
    <2>2. S \in SUBSET Int /\ IsFiniteSet(S)
      <3>1. IsFiniteSet(1..d)
        BY <1>1, FS_Interval
      <3>2. IsFiniteSet(S)
        BY <2>1, <3>1, FS_Subset
      <3>. QED  BY <1>1, <2>1, <3>2
    <2>3. \E x \in S : \A y \in S : x <= y
      BY <2>1, <2>2, LeastElement
    <2>. QED  BY <1>a, <2>3 DEF Min, S
  <1>4. m \in Int /\ 1 <= m /\ m <= d
    BY <1>1, <1>3 DEF InvalidAt
  <1>5. \A i \in 1..(m - 1) : i \in 1..d /\ blocks[q][i] \notin report.invalid
    <2>. SUFFICES ASSUME NEW i \in 1..(m - 1)
                  PROVE  i \in 1..d /\ blocks[q][i] \notin report.invalid
      OBVIOUS
    <2>1. i \in 1..d /\ ~(m <= i)
      BY <1>1, <1>4
    <2>. QED  BY <1>1, <1>3, <2>1 DEF InvalidAt
  <1>6. cdiv(c, BlockSize) = m - 1 /\ c \in Nat
    <2>1. m - 1 \in Nat
      BY <1>4
    <2>. QED  BY <1>a, <1>1, <2>1, WholeBlocks
  <1>7. c < b
    <2>1. PICK e \in Nat : d = m + e
      <3>1. d - m \in Nat /\ d = m + (d - m)
        BY <1>1, <1>4
      <3>. QED  BY <3>1
    <2>2. (d - 1) * B = (m - 1) * B + e * B /\ e * B \in Nat /\ (m - 1) * B \in Int
      <3>1. d - 1 = (m - 1) + e
        BY <1>1, <1>4, <2>1
      <3>. QED  BY <1>1, <1>4, <2>1, <3>1
    <2>3. c = (m - 1) * B
      BY <1>a
    <2>. QED  BY <1>1, <1>2, <1>6, <2>2, <2>3
  <1>8. m - 1 <= Len(blocks[q])
    BY <1>1, <1>2, <1>4
  <1>9. FirstOf(blocks[q], c) = {blocks[q][i] : i \in 1..(m - 1)} /\ First(q) = {blocks[q][i] : i \in 1..d}
    BY <1>a, <1>6 DEF FirstOf, First
  <1>. QED  BY <1>a, <1>5, <1>6, <1>7, <1>8, <1>9

(* update_from_output: what becomes of a request that it does not end *)
LEMMA UpdateOf ==
  ASSUME RemoteInv, RemoteInv', NEW save \in SUBSET Requests, UpdateFromOutput(save),
         NEW q \in Requests, status'[q] \in Active
  PROVE  /\ status'[q] = status[q] /\ blocks'[q] = blocks[q] /\ xfer'[q] = xfer[q]
         /\ status[q] = "WAITING_FOR_REMOTE_KVS" =>
              (q \in finished_recving' <=> q \in finished_recving \/ q \in report.recv)
         /\ \A T \in {running, skipped} : T \in Seq(Requests)
         /\ q \in ToSet(running) => q \in ToSet(running')
         /\ q \in ToSet(skipped) => q \in ToSet(skipped')
  <1>. DEFINE errors == IF config.recompute THEN {} ELSE Affected
              stopped == {r \in Sampled : tokens[r] + 1 = PromptLen[r] + MaxTokens[r]}
              ended == stopped \cup errors
              delayed == save \cup {r \in errors : AwaitsLoad(r)}
              tracked == requests \ (ended \ delayed)
              late == {r \in report.recv \cap tracked : status'[r] = "FINISHED"}
              freed == (ended \ delayed) \cup late \cup (report.sent \cap tracked)
  <1>0. /\ running \in Seq(Requests) /\ skipped \in Seq(Requests)
    BY DEF RemoteInv, TypeOK
  <1>1. /\ save \subseteq ended
        /\ status' = [r \in Requests |-> IF r \in ended THEN "FINISHED" ELSE status[r]]
        /\ blocks' = [r \in Requests |-> IF r \in freed THEN <<>> ELSE blocks[r]]
        /\ requests' = requests \ freed
        /\ running' = Without(running, ended)
        /\ skipped' = Without(skipped, ended)
        /\ finished_recving' =
             (finished_recving \ errors)
               \cup {r \in report.recv \cap tracked : status'[r] = "WAITING_FOR_REMOTE_KVS"}
        /\ xfer' = [r \in Requests |->
                      IF r \in save THEN Transfer("sending", Table(r)) ELSE xfer[r]]
    BY DEF UpdateFromOutput, FreesLateLoad, FreeBlocks
  <1>. HIDE DEF errors, stopped
  <1>2. q \notin ended /\ status'[q] = status[q] /\ q \notin errors /\ q \notin save
    BY <1>1
  <1>3. q \in requests'
    BY DEF RemoteInv, Owners, Untracked
  <1>4. q \in requests /\ q \notin freed /\ q \in tracked
    BY <1>1, <1>2, <1>3
  <1>5. blocks'[q] = blocks[q] /\ xfer'[q] = xfer[q]
    BY <1>1, <1>2, <1>4
  <1>6. status[q] = "WAITING_FOR_REMOTE_KVS" =>
          (q \in finished_recving' <=> q \in finished_recving \/ q \in report.recv)
    BY <1>1, <1>2, <1>4
  <1>. HIDE DEF ended
  <1>7. /\ q \in ToSet(running) => q \in ToSet(running')
        /\ q \in ToSet(skipped) => q \in ToSet(skipped')
    BY <1>0, <1>1, <1>2, StillQueued
  <1>. QED  BY <1>0, <1>2, <1>5, <1>6, <1>7

(* ... and of its counts *)
LEMMA UpdateCounts ==
  ASSUME RemoteInv, KVInv, NEW save \in SUBSET Requests, UpdateFromOutput(save)
  PROVE  /\ pc = "output" /\ pc' = "idle" /\ UNCHANGED <<bad, valid>>
         /\ loop'.sync = {} /\ loop'.stepSkipped = <<>> /\ \A q \in Requests : loop'.toks[q] = 0
         /\ \A q \in Requests : q \notin report'.recv
         /\ \A q \in Requests :
              /\ tokens'[q] = IF q \in Sampled THEN tokens[q] + 1 ELSE tokens[q]
              /\ computed'[q] = IF q \in Affected THEN (Min(InvalidAt(q)) - 1) * BlockSize ELSE computed[q]
              /\ computed[q] = Reach(q) /\ Reach(q) \in Nat
  <1>1. /\ pc = "output" /\ pc' = "idle" /\ UNCHANGED <<bad, valid>>
        /\ loop' = NoLoop /\ report' = NoReport
        /\ tokens' = [q \in Requests |-> IF q \in Sampled THEN tokens[q] + 1 ELSE tokens[q]]
        /\ computed' = [q \in Requests |-> IF q \in Affected THEN (Min(InvalidAt(q)) - 1) * BlockSize
                                                             ELSE computed[q]]
    BY DEF UpdateFromOutput
  <1>2. /\ loop'.sync = {} /\ loop'.stepSkipped = <<>> /\ \A q \in Requests : loop'.toks[q] = 0
        /\ \A q \in Requests : q \notin report'.recv
    BY <1>1 DEF NoLoop, NoReport, Zero
  <1>3. ASSUME NEW q \in Requests
        PROVE  computed[q] = Reach(q) /\ Reach(q) \in Nat
    <2>1. computed[q] \in Int /\ loop.toks[q] \in Nat /\ Before(q) \in Nat
      BY DEF RemoteInv, TypeOK, KVInv, CountedOf
    <2>2. Before(q) = computed[q] - loop.toks[q]
      BY <1>1 DEF Before
    <2>. QED  BY <2>1, <2>2 DEF Reach
  <1>. QED  BY <1>1, <1>2, <1>3

(* update_from_output: requests with a failed block go back to before it,   *)
(* and no other has one.                                                   *)
LEMMA KVUpdate ==
  ASSUME RemoteInv, RemoteInv', KVInv, NEW save \in SUBSET Requests, UpdateFromOutput(save)
  PROVE  KVInv'
  <1>0. TypeOK /\ TypeOK' /\ RunningOnce /\ \A q \in Requests : CountedOf(q) /\ SoundOf(q)
    BY DEF RemoteInv, KVInv
  <1>1. /\ pc = "output" /\ pc' = "idle" /\ UNCHANGED <<bad, valid>>
        /\ loop'.sync = {} /\ loop'.stepSkipped = <<>> /\ \A q \in Requests : loop'.toks[q] = 0
        /\ \A q \in Requests : q \notin report'.recv
    BY UpdateCounts
  <1>2. Listed'
    <2>1. ASSUME NEW q \in Requests, status'[q] = "RUNNING"
          PROVE  q \in ToSet(running')
      <3>1. status[q] = "RUNNING" /\ (q \in ToSet(running) => q \in ToSet(running'))
        BY <2>1, UpdateOf
      <3>. QED  BY <3>1 DEF KVInv, Listed
    <2>2. ASSUME NEW q \in Requests, status'[q] = "WAITING_FOR_REMOTE_KVS"
          PROVE  q \in ToSet(skipped')
      <3>1. status[q] = "WAITING_FOR_REMOTE_KVS" /\ (q \in ToSet(skipped) => q \in ToSet(skipped'))
        BY <2>2, UpdateOf
      <3>2. q \notin ToSet(<<>>) /\ loop.stepSkipped = <<>>
        BY <1>1 DEF KVInv, Listed, ToSet
      <3>. QED  BY <3>1, <3>2 DEF KVInv, Listed
    <2>. QED  BY <1>1, <2>1, <2>2 DEF Listed
  <1>3. Batched'
    BY <1>1 DEF Batched
  <1>4. ASSUME NEW q \in Requests
        PROVE  CountedOf(q)' /\ SoundOf(q)'
    <2>a. PICK c, b, d : c = computed'[q] /\ b = Before(q) /\ d = Reach(q)
      OBVIOUS
    <2>1. /\ tokens'[q] = IF q \in Sampled THEN tokens[q] + 1 ELSE tokens[q]
          /\ c = IF q \in Affected THEN (Min(InvalidAt(q)) - 1) * BlockSize ELSE d
          /\ computed[q] = d /\ d \in Nat /\ b \in Nat /\ tokens[q] \in Nat /\ tokens[q] > 0
          /\ d = b + loop.toks[q] /\ loop.toks[q] \in Nat
      <3>1. /\ tokens'[q] = IF q \in Sampled THEN tokens[q] + 1 ELSE tokens[q]
            /\ c = IF q \in Affected THEN (Min(InvalidAt(q)) - 1) * BlockSize ELSE computed[q]
            /\ computed[q] = d /\ d \in Nat
        BY <2>a, UpdateCounts
      <3>. QED  BY <1>0, <2>a, <3>1 DEF CountedOf, TypeOK, Reach
    <2>2. q \in Affected => InvalidAt(q) # {} /\ status[q] \in {"RUNNING", "WAITING_FOR_REMOTE_KVS"}
      BY <1>0, AffectedActive
    <2>3. q \in Affected => /\ c \in Nat /\ c < b /\ cdiv(c, BlockSize) <= Len(blocks[q])
                            /\ FirstOf(blocks[q], c) \subseteq First(q)
                            /\ FirstOf(blocks[q], c) \cap report.invalid = {}
      <3>. SUFFICES ASSUME q \in Affected
                    PROVE  /\ c \in Nat /\ c < Before(q) /\ cdiv(c, BlockSize) <= Len(blocks[q])
                           /\ FirstOf(blocks[q], c) \subseteq First(q)
                           /\ FirstOf(blocks[q], c) \cap report.invalid = {}
        BY <2>a
      <3>1. c = (Min(InvalidAt(q)) - 1) * BlockSize /\ InvalidAt(q) # {} /\ status[q] \in Active
        BY <2>1, <2>2
      <3>. QED  BY <1>0, <1>1, <3>1, Truncated
    <2>4. c \in Nat /\ Before(q)' = c /\ Reach(q)' = c /\ First(q)' = FirstOf(blocks'[q], c)
      <3>1. c \in Nat
        BY <2>1, <2>3
      <3>2. Before(q)' = c
        BY <1>1, <2>a DEF Before
      <3>3. Reach(q)' = c
        BY <1>1, <3>1, <3>2 DEF Reach
      <3>. QED  BY <3>1, <3>2, <3>3 DEF First
    <2>5. status'[q] \in Active =>
            /\ status'[q] = status[q] /\ blocks'[q] = blocks[q] /\ xfer'[q] = xfer[q]
            /\ status[q] = "WAITING_FOR_REMOTE_KVS" =>
                 (q \in finished_recving' <=> q \in finished_recving \/ q \in report.recv)
      BY UpdateOf
    <2>6. CountedOf(q)'
      <3>1. tokens'[q] > 0 /\ tokens'[q] \in Nat
        BY <2>1
      <3>2. status'[q] = "NONE" => computed'[q] = 0
        <4>. SUFFICES ASSUME status'[q] = "NONE"
                      PROVE  c = 0
          BY <2>a
        <4>1. status[q] = "NONE"
          BY DEF UpdateFromOutput
        <4>. QED  BY <1>0, <2>1, <2>2, <4>1 DEF CountedOf
      <3>3. status'[q] = "RUNNING" => c < tokens'[q]
        <4>. SUFFICES ASSUME status'[q] = "RUNNING"
                      PROVE  c < tokens'[q]
          OBVIOUS
        <4>1. status[q] = "RUNNING" /\ b < tokens[q] /\ d <= tokens[q]
          BY <1>0, <2>5, <2>a DEF CountedOf
        <4>2. CASE q \in Affected
          BY <2>1, <2>3, <4>1, <4>2
        <4>3. CASE q \notin Affected /\ d = tokens[q]
          <5>1. loop.toks[q] > 0
            BY <2>1, <4>1, <4>3
          <5>2. q \in Sampled
            BY <2>1, <4>1, <4>3, <5>1 DEF Sampled, Batch
          <5>. QED  BY <2>1, <4>3, <5>2
        <4>4. CASE q \notin Affected /\ d # tokens[q]
          BY <2>1, <4>1, <4>4
        <4>. QED  BY <4>2, <4>3, <4>4
      <3>4. status'[q] \in Active => cdiv(c, BlockSize) <= Len(blocks'[q])
        <4>. SUFFICES ASSUME status'[q] \in Active
                      PROVE  cdiv(c, BlockSize) <= Len(blocks[q])
          BY <2>5
        <4>1. cdiv(d, BlockSize) <= Len(blocks[q])
          BY <1>0, <2>5, <2>a DEF CountedOf
        <4>. QED  BY <2>1, <2>3, <4>1
      <3>5. c <= tokens'[q] \/ ~(c < tokens'[q])
        BY <2>4, <3>1
      <3>. QED  BY <1>1, <2>4, <3>1, <3>2, <3>3, <3>4, <3>5 DEF CountedOf
    <2>7. ASSUME status'[q] \in Active
          PROVE  SoundOf(q)'
      <3>0. /\ status'[q] = status[q] /\ blocks'[q] = blocks[q] /\ xfer'[q] = xfer[q]
            /\ status[q] = "WAITING_FOR_REMOTE_KVS" =>
                 (q \in finished_recving' <=> q \in finished_recving \/ q \in report.recv)
            /\ status[q] \in Active
        BY <2>5, <2>7
      <3>a. PICK F, H : F = First(q) /\ H = FirstOf(blocks[q], c)
        OBVIOUS
      <3>1. First(q)' = H
        BY <2>4, <3>0, <3>a
      <3>2. status[q] # "RUNNING" => loop.toks[q] = 0 /\ q \notin loop.sync
        BY <3>0 DEF KVInv, Batched
      <3>3. q \notin Affected /\ status[q] # "RUNNING" => H = F
        <4>. SUFFICES ASSUME q \notin Affected, status[q] # "RUNNING"
                      PROVE  H = F
          OBVIOUS
        <4>1. c = b
          BY <2>1, <3>2
        <4>. QED  BY <2>a, <3>a, <4>1 DEF First
      <3>4. q \in Affected => H \subseteq F /\ H \cap report.invalid = {}
        BY <2>3, <3>a
      <3>5. q \in ToSet(running) \/ q \in Loading => q \in Affected \/ F \cap report.invalid = {}
        <4>. SUFFICES ASSUME q \in ToSet(running) \/ q \in Loading, q \notin Affected
                      PROVE  First(q) \cap report.invalid = {}
          BY <3>a
        <4>1. InvalidAt(q) = {}
          BY DEF Affected
        <4>. QED  BY <1>0, <1>1, <3>0, <4>1, NoneInvalid
      <3>6. CASE AwaitsLoad(q)'
        <4>1. AwaitsLoad(q) /\ status[q] # "RUNNING"
          BY <3>0, <3>6 DEF AwaitsLoad
        <4>2. /\ xfer[q].kind = "loading" =>
                   F \subseteq (xfer[q].on \ xfer[q].fails) \cup bad \cup report.invalid
              /\ xfer[q].kind = "loaded" => F \subseteq valid \cup bad \cup report.invalid
          BY <1>0, <3>0, <3>a, <4>1 DEF SoundOf
        <4>a. q \in Loading
          <5>1. q \notin ToSet(<<>>) /\ loop.stepSkipped = <<>>
            BY <1>1 DEF KVInv, Listed, ToSet
          <5>. QED  BY <4>1, <5>1 DEF KVInv, Listed, Loading, AwaitsLoad
        <4>3. H \subseteq F /\ H \cap report.invalid = {}
          BY <3>3, <3>4, <3>5, <4>1, <4>a
        <4>. QED  BY <1>1, <3>0, <3>1, <3>6, <4>2, <4>3 DEF SoundOf
      <3>7. CASE ~AwaitsLoad(q)'
        <4>1. H \subseteq valid
          <5>1. CASE AwaitsLoad(q)
            <6>1. status[q] = "WAITING_FOR_REMOTE_KVS" /\ q \in report.recv
              BY <3>0, <3>7, <5>1 DEF AwaitsLoad
            <6>2. F \subseteq valid \cup report.invalid
              BY <1>0, <3>0, <3>a, <5>1, <6>1 DEF SoundOf
            <6>3. q \in Loading
              <7>1. q \notin ToSet(<<>>) /\ loop.stepSkipped = <<>>
                BY <1>1 DEF KVInv, Listed, ToSet
              <7>. QED  BY <6>1, <7>1 DEF KVInv, Listed, Loading
            <6>. QED  BY <3>3, <3>4, <3>5, <6>1, <6>2, <6>3
          <5>2. CASE ~AwaitsLoad(q) /\ status[q] = "RUNNING"
            <6>1. /\ F \subseteq valid \cup report.invalid
                  /\ F \cap report.invalid = {} => FirstOf(blocks[q], d) \subseteq valid
              BY <1>0, <1>1, <2>a, <3>0, <3>a, <5>2 DEF SoundOf
            <6>2. q \in ToSet(running)
              BY <5>2 DEF KVInv, Listed
            <6>3. CASE q \in Affected
              BY <3>4, <6>1, <6>3
            <6>4. CASE q \notin Affected
              <7>1. c = d
                BY <2>1, <6>4
              <7>. QED  BY <3>5, <3>a, <6>1, <6>2, <6>4, <7>1
            <6>. QED  BY <6>3, <6>4
          <5>3. CASE ~AwaitsLoad(q) /\ status[q] # "RUNNING"
            <6>1. F \subseteq valid
              BY <1>0, <3>0, <3>2, <3>a, <5>3 DEF SoundOf
            <6>. QED  BY <3>3, <3>4, <5>3, <6>1
          <5>. QED  BY <5>1, <5>2, <5>3
        <4>. QED  BY <1>1, <3>1, <3>7, <4>1 DEF SoundOf
      <3>. QED  BY <3>6, <3>7
    <2>. QED  BY <2>6, <2>7 DEF SoundOf
  <1>. QED  BY <1>2, <1>3, <1>4 DEF KVInv

(* Every step keeps the second invariant, given the first. *)
LEMMA KVNext == RemoteInv /\ RemoteInv' /\ KVInv /\ [Next]_vars => KVInv'
  <1>. SUFFICES ASSUME RemoteInv, RemoteInv', KVInv, [Next]_vars
                PROVE  KVInv'
    OBVIOUS
  <1>1. CASE Step
    <2>1. CASE StartSchedule \/ EndRunning
      BY <2>1, KVStart
    <2>2. CASE ScheduleRunning
      BY <2>2, KVScheduleRunning
    <2>3. CASE PreemptForRunning
      BY <2>3, KVPreempt
    <2>4. CASE SkipLoading
      BY <2>4, KVSkip
    <2>5. CASE PromoteLoaded
      BY <2>5, KVPromote
    <2>6. ASSUME NEW ext \in Offered, AdmitLoad(ext)
          PROVE  KVInv'
      BY <2>6, KVAdmitLoad
    <2>7. ASSUME NEW ext \in Offered, AdmitWaiting(ext)
          PROVE  KVInv'
      BY <2>7, KVAdmitWaiting
    <2>8. ASSUME NEW ext \in Offered, NEW load_kv_async \in BOOLEAN,
                 EndWaiting(ext, load_kv_async)
          PROVE  KVInv'
      BY <2>8, KVEndWaiting
    <2>9. CASE EndSchedule
      BY <2>9, KVEndSchedule
    <2>10. ASSUME NEW fail \in SUBSET Blocks, Execute(fail)
           PROVE  KVInv'
      BY <2>10, KVExecute
    <2>11. ASSUME NEW save \in SUBSET Requests, UpdateFromOutput(save)
           PROVE  KVInv'
      BY <2>11, KVUpdate
    <2>. QED  BY <1>1, <2>1, <2>2, <2>3, <2>4, <2>5, <2>6, <2>7, <2>8, <2>9, <2>10,
                 <2>11 DEF Step
  <1>2. ASSUME NEW r \in Requests, AddRequest(r)
        PROVE  KVInv'
    BY <1>2, KVAdd
  <1>3. ASSUME NEW r \in Requests, TransferEnds(r)
        PROVE  KVInv'
    BY <1>3, KVTransferEnds
  <1>4. ASSUME NEW r \in Requests, NEW save \in BOOLEAN, FinishRequest(r, save)
        PROVE  KVInv'
    BY <1>4, KVFinish
  <1>5. ASSUME NEW r \in Requests, NEW fail \in SUBSET Blocks, LoadFails(r, fail)
        PROVE  KVInv'
    BY <1>5, KVLoadFails
  <1>6. CASE UNCHANGED vars
    <2>1. /\ UNCHANGED <<status, computed, tokens, blocks, running, skipped, finished_recving>>
          /\ UNCHANGED <<pc, loop>> /\ UNCHANGED <<xfer, bad, valid, report>>
      BY <1>6 DEF vars, sched, worker
    <2>2. Listed' /\ Batched' /\ SamePhase
      BY <2>1 DEF KVInv, Listed, Batched, SamePhase
    <2>. QED  BY <2>1, <2>2, KVIdle
  <1>. QED  BY <1>1, <1>2, <1>3, <1>4, <1>5, <1>6 DEF Next

(* The counts of computed tokens never run ahead of the blocks that were    *)
(* loaded or computed, except for loads that are still to be reported      *)
(* (schedule, _update_waiting_for_remote_kv, _handle_invalid_blocks).       *)
THEOREM RemoteKVSound == Spec => []KVInv
  <1>1. Init => KVInv
    BY KVInit
  <1>. QED  BY <1>1, KVNext, RemoteInductive, PTL DEF Spec

(* A token is taken from a pass only if all KV it was computed from was     *)
(* loaded or computed, whatever failed and whenever that was reported      *)
(* (_update_requests_with_invalid_blocks).                                 *)
THEOREM RemoteSampled == Spec => SampledFromValidKV
  <1>. DEFINE Valid == \A r \in Requests : tokens'[r] > tokens[r] => FirstBlocks(r, computed[r]) \subseteq valid
  <1>1. RemoteInv /\ RemoteInv' /\ KVInv /\ [Next]_vars => [Valid]_vars
    <2>. SUFFICES ASSUME RemoteInv, RemoteInv', KVInv, Next,
                         NEW r \in Requests, tokens'[r] > tokens[r]
                  PROVE  FirstBlocks(r, computed[r]) \subseteq valid
      OBVIOUS
    <2>0. TypeOK /\ CountedOf(r) /\ SoundOf(r) /\ tokens[r] \in Nat
      BY DEF RemoteInv, KVInv, TypeOK
    <2>1. tokens' # tokens
      BY <2>0
    <2>2. PICK save \in SUBSET Requests : UpdateFromOutput(save)
      BY <2>1 DEF Next, Step, StartSchedule, ScheduleRunning, PreemptForRunning, EndRunning, SkipLoading,
                  PromoteLoaded, AdmitLoad, AdmitWaiting, EndWaiting, EndSchedule, Execute,
                  AddRequest, TransferEnds, SaveEnds, LoadEnds, LoadFails, FinishRequest, sched
    <2>3. /\ pc = "output" /\ computed[r] = Reach(r) /\ Reach(r) \in Nat
          /\ tokens'[r] = IF r \in Sampled THEN tokens[r] + 1 ELSE tokens[r]
      BY <2>2, UpdateCounts
    <2>4. r \in Sampled
      BY <2>0, <2>3
    <2>5. status[r] = "RUNNING" /\ r \notin Affected /\ r \in ToSet(running)
      BY <2>4 DEF Sampled, KVInv, Listed
    <2>6. InvalidAt(r) = {}
      BY <2>5 DEF Affected
    <2>7. First(r) \cap report.invalid = {}
      BY <2>0, <2>3, <2>5, <2>6, NoneInvalid
    <2>8. FirstOf(blocks[r], Reach(r)) \subseteq valid
      BY <2>0, <2>3, <2>5, <2>7 DEF SoundOf, AwaitsLoad
    <2>9. FirstBlocks(r, computed[r]) = FirstOf(blocks[r], Reach(r))
      <3>1. blocks[r] \in Seq(Blocks) /\ cdiv(Reach(r), BlockSize) <= Len(blocks[r])
        BY <2>0, <2>5 DEF TypeOK, CountedOf
      <3>2. ToSet(SubSeq(blocks[r], 1, cdiv(Reach(r), BlockSize))) = FirstOf(blocks[r], Reach(r))
        BY <2>3, <3>1, FirstOfTable
      <3>. QED  BY <2>3, <3>2 DEF FirstBlocks
    <2>. QED  BY <2>8, <2>9
  <1>. QED  BY <1>1, RemoteInductive, RemoteKVSound, PTL DEF Spec, SampledFromValidKV
=============================================================================
