--------------------------- MODULE KVCacheManager ---------------------------
(***************************************************************************)
(* Prefix caching: the block pool with its reference counts, LRU free      *)
(* queue and hash table, the block tables of one full-attention group, and *)
(* the calls the scheduler makes on them in schedule() (running requests   *)
(* first, with preemption, then waiting ones), on model output, on abort   *)
(* and on reset.                                                           *)
(*                                                                         *)
(* A chained block hash is modelled by what it identifies: the tokens from *)
(* the start of the sequence to the end of the block.  `content` is what   *)
(* the workers have written to a block, in the same terms; batches execute *)
(* in the order they are issued, so a batch writes when it is issued.      *)
(*                                                                         *)
(* The queues, budgets and counters of the scheduler are the subject of    *)
(* Scheduler.tla: here the token budget is a choice of the number of new   *)
(* tokens, and any waiting request may be the next one.                    *)
(***************************************************************************)
EXTENDS Integers, Sequences, FiniteSets, SequencesExt, Queues

CONSTANTS
  Requests,
  Blocks,          \* the pool's blocks, without the null block
  BlockSize,
  Token,           \* the tokens the model may sample
  Prompt,          \* per request: its prompt tokens
  MaxTokens,       \* per request: max_tokens
  MaxModelLen,
  NumSpec,         \* num_spec_tokens
  NumLookahead,    \* num_lookahead_tokens
  Priority,        \* TRUE under the priority policy
  Rank,            \* per request: order of (priority, arrival_time)
  DeferBlockFree,  \* defer_block_free
  MaxInFlight,     \* batches in flight per request
  MaxResets        \* bound on reset_prefix_cache calls

ASSUME KVAssumption ==
  /\ {BlockSize, MaxInFlight} \subseteq Nat \ {0}
  /\ {NumSpec, NumLookahead, MaxResets} \subseteq Nat
  /\ IsFiniteSet(Requests) /\ IsFiniteSet(Blocks) /\ MaxModelLen \in Nat
  /\ \A r \in Requests : /\ Prompt[r] \in Seq(Token) /\ MaxTokens[r] \in Nat \ {0}
                         /\ Len(Prompt[r]) \in 1..MaxModelLen - 1 /\ Rank[r] \in Int
  /\ \A r, s \in Requests : Rank[r] = Rank[s] => r = s

VARIABLES
  pool,      \* BlockPool: free queue, ref_cnt, block_hash, hash -> blocks
  tables,    \* req_to_blocks
  numCached, \* num_cached_block
  deferred,  \* the block lists of deferred_frees, oldest first
  req,       \* the requests
  running,   \* Scheduler.running
  step,      \* schedule()'s locals: cursor, tokens wanted and scheduled, preempted
  content,   \* what the workers have written to each block
  resets,    \* number of reset_prefix_cache calls
  raised     \* get_new_blocks raised ValueError

vars == <<pool, tables, numCached, deferred, req, running, step, content, resets, raised>>

NoHash == <<>>
cdiv(a, b) == (a + b - 1) \div b
MinOf(a, b) == IF a < b THEN a ELSE b
MaxOf(a, b) == IF a > b THEN a ELSE b

(* The chained hash of the i-th block of a token sequence. *)
BlockHash(toks, i) == SubSeq(toks, 1, i * BlockSize)
-----------------------------------------------------------------------------
(* BlockPool *)

(* BlockHashToBlockMap: a hash may have several blocks, in insertion order. *)

(* insert, for the blocks of a table at the positions that get a hash, in  *)
(* the order of the table.                                                 *)
MapInsert(c, table, hashes) ==
  [h \in DOMAIN c \cup {hashes[i] : i \in DOMAIN hashes} |->
     (IF h \in DOMAIN c THEN c[h] ELSE <<>>)
       \o AtPositions(table, {i \in DOMAIN hashes : hashes[i] = h})]

(* pop, for the blocks S, each under its own hash; a key goes with its     *)
(* last block.                                                             *)
(* Mutant: the duplicates go with the block. *)
MapPopAll(c, hash, S) == [h \in DOMAIN c \ {hash[b] : b \in S} |-> c[h]]
MapPop(c, hash, S) ==
  LET left == [h \in DOMAIN c |-> Without(c[h], {b \in S : hash[b] = h})]
  IN [h \in {k \in DOMAIN c : left[k] # <<>>} |-> left[h]]

RemoveCachedBlockHashes(p, S) ==
  [p EXCEPT !.cache = MapPop(@, p.hash, S),
            !.hash = [b \in Blocks |-> IF b \in S THEN NoHash ELSE @[b]]]

(* One more reference to each of the blocks S. *)
Referenced(ref, S) == [b \in Blocks |-> IF b \in S THEN ref[b] + 1 ELSE ref[b]]

(* get_new_blocks: the n blocks at the head of the free queue are evicted  *)
(* from the cache and handed out.                                          *)
NewBlocks(p, n) == SubSeq(p.free, 1, n)
(* Mutant: the blocks handed out stay in the hash table. *)
GetNewBlocksCached(p, n) ==
  [p EXCEPT !.free = SubSeq(@, n + 1, Len(@)), !.ref = Referenced(@, ToSet(NewBlocks(p, n)))]
GetNewBlocks(p, n) ==
  LET new == ToSet(NewBlocks(p, n))
  IN [RemoveCachedBlockHashes(p, new) EXCEPT !.free = SubSeq(@, n + 1, Len(@)),
                                             !.ref = Referenced(@, new)]

(* touch: a hit takes a block out of the free queue. *)
(* Mutant: the block stays in the free queue. *)
TouchInQueue(p, bs) == [p EXCEPT !.ref = Referenced(@, ToSet(bs))]
Touch(p, bs) ==
  [p EXCEPT !.free = Without(@, {b \in ToSet(bs) : p.ref[b] = 0}),
            !.ref = Referenced(@, ToSet(bs))]

(* free_blocks: blocks without a hash are reused first, cached blocks last. *)
FreeBlocks(p, bs) ==
  LET ref   == [b \in Blocks |-> IF b \in ToSet(bs) THEN p.ref[b] - 1 ELSE p.ref[b]]
      first == {i \in DOMAIN bs : ref[bs[i]] = 0 /\ p.hash[bs[i]] = NoHash}
      last  == {i \in DOMAIN bs : ref[bs[i]] = 0 /\ p.hash[bs[i]] # NoHash}
  IN [p EXCEPT !.ref = ref, !.free = AtPositions(bs, first) \o @ \o AtPositions(bs, last)]

(* cache_full_blocks for blocks from + 1 .. upto of a table. A block that  *)
(* has a hash leaves the map first; the code asserts that this happens     *)
(* only to partial blocks, so never here (CachedOnce).                     *)
CacheFullBlocks(p, table, toks, from, upto) ==
  LET new    == from + 1 .. upto
      hashes == [i \in new |-> BlockHash(toks, i)]
      at(b)  == {i \in new : table[i] = b}
  IN [RemoveCachedBlockHashes(p, {table[i] : i \in new}) EXCEPT
        !.cache = MapInsert(@, table, hashes),
        !.hash = [b \in Blocks |-> IF at(b) # {} THEN hashes[CHOOSE i \in at(b) : TRUE]
                                                 ELSE @[b]]]

(* reset_prefix_cache: refused while a block is in use. *)
ResetCache(p) ==
  IF Len(p.free) # Cardinality(Blocks) THEN p
  ELSE [p EXCEPT !.cache = <<>>, !.hash = [b \in Blocks |-> NoHash]]
-----------------------------------------------------------------------------
(* KVCacheManager and FullAttentionManager *)

(* find_longest_cache_hit: the blocks of the longest cached run, leaving   *)
(* at least one token to compute.                                          *)
LongestHit(toks) ==
  LET most == (Len(toks) - 1) \div BlockSize
      hits == {n \in 0..most : \A i \in 1..n : BlockHash(toks, i) \in DOMAIN pool.cache}
  IN [i \in 1..Max(hits) |-> Head(pool.cache[BlockHash(toks, i)])]

Evictable(hit) == Cardinality({i \in DOMAIN hit : pool.ref[hit[i]] = 0})

(* Blocks r lacks for n token slots, given the hit. *)
Missing(r, hit, n) ==
  MaxOf(cdiv(MinOf(n, MaxModelLen), BlockSize) - Len(hit) - Len(tables[r]), 0)

(* get_num_blocks_to_allocate: the hit blocks that nobody uses will leave  *)
(* the free queue as well.                                                 *)
(* Mutant: blocks leaving the free queue by a hit are not counted. *)
NumBlocksToAllocateNew(r, hit, n) == Missing(r, hit, n)
NumBlocksToAllocate(r, hit, n) == Missing(r, hit, n) + Evictable(hit)

CanAllocate(r, hit, n) == NumBlocksToAllocate(r, hit, n) <= Len(pool.free)

(* allocate_slots once the check has passed: hits are touched, new blocks  *)
(* taken, and what will be full after this step is cached already, as far  *)
(* as its tokens are known.                                                *)
AllocateSlots(r, hit, computed, n) ==
  LET touched == Touch(pool, hit)
      missing == Missing(r, hit, computed + n + NumLookahead)
      table   == tables[r] \o hit \o NewBlocks(touched, missing)
      cached  == MaxOf(numCached[r], Len(hit))
      full    == MinOf(computed + n, Len(req[r].tokens)) \div BlockSize
  IN IF missing > Len(touched.free)
       THEN /\ raised' = TRUE
            /\ UNCHANGED <<pool, tables, numCached>>
       ELSE /\ pool' = CacheFullBlocks(GetNewBlocks(touched, missing), table,
                                       req[r].tokens, cached, full)
            /\ tables' = [tables EXCEPT ![r] = table]
            /\ numCached' = [numCached EXCEPT ![r] = MaxOf(cached, full)]
            /\ UNCHANGED raised

(* free, or pop_blocks_for_free while batches of r are in flight; tail     *)
(* blocks are freed, hence evicted, first.                                 *)
Deferrable(flight) == DeferBlockFree /\ flight # <<>>
(* Mutant: head blocks are freed first. *)
ReleasedHeadFirst(p, r, flight) ==
  IF Deferrable(flight) THEN p ELSE FreeBlocks(p, tables[r])
Released(p, r, flight) ==
  IF Deferrable(flight) THEN p ELSE FreeBlocks(p, Reverse(tables[r]))
Postponed(r, flight) ==
  IF Deferrable(flight) /\ tables[r] # <<>> THEN <<tables[r]>> ELSE <<>>
Release(p, r, flight) ==
  /\ pool' = Released(p, r, flight)
  /\ deferred' = deferred \o Postponed(r, flight)
  /\ tables' = [tables EXCEPT ![r] = <<>>]
  /\ numCached' = [numCached EXCEPT ![r] = 0]
-----------------------------------------------------------------------------
(* schedule() *)

NoStep == [cursor |-> 0, want |-> 0, toks |-> [r \in Requests |-> 0],
           preempted |-> FALSE, resetting |-> FALSE]
Idle == step = NoStep

InRunningLoop == step.cursor < Len(running) /\ ~step.resetting
Current == running[step.cursor + 1]

(* num_new_tokens before the budget is applied. *)
NumNewTokens(q) ==
  MinOf(Len(q.tokens) + q.spec + q.placeholders - q.computed, MaxModelLen - q.computed - 1)

ReachesMaxTokens(q, r) ==
  q.placeholders > 0 /\ q.computed + 2 - q.placeholders >= Len(Prompt[r]) + MaxTokens[r]

Schedulable(r) == Len(req[r].flight) < MaxInFlight /\ ~ReachesMaxTokens(req[r], r)

(* The numbers of new tokens the budget may leave to the current request;  *)
(* the number is fixed while others are preempted for it.                  *)
Wanted == IF step.want > 0 THEN {step.want} ELSE 1..NumNewTokens(req[Current])

(* Slots the running request r needs for n more tokens. *)
SlotsFor(r, n) == req[r].computed + n + NumLookahead

ScheduleRunning ==
  /\ InRunningLoop
  /\ Schedulable(Current)
  /\ \E n \in Wanted :
       /\ CanAllocate(Current, <<>>, SlotsFor(Current, n))
       /\ AllocateSlots(Current, <<>>, req[Current].computed, n)
       /\ step' = [step EXCEPT !.cursor = @ + 1, !.want = 0, !.toks[Current] = n]
  /\ UNCHANGED <<deferred, req, running, content, resets>>

(* Nothing to run, not eligible yet, or the budget is used up. *)
SkipRunning ==
  /\ InRunningLoop
  /\ step.want = 0
  /\ step' = [step EXCEPT !.cursor = @ + 1]
  /\ UNCHANGED <<pool, tables, numCached, deferred, req, running, content, resets, raised>>

Victim ==
  IF Priority
    THEN CHOOSE r \in ToSet(running) : \A s \in ToSet(running) : Rank[r] >= Rank[s]
    ELSE Last(running)

(* _preempt_request: the output in flight is delivered later, or dropped   *)
(* so that its positions are sampled again.                                *)
Preempted(q, drop) ==
  [q EXCEPT !.status = "waiting", !.computed = 0, !.placeholders = 0, !.spec = 0,
            !.seq = IF drop THEN q.tokens ELSE @, !.flight = IF drop THEN <<>> ELSE @]

(* Under the priority policy the victim may have been scheduled already in *)
(* this step; its tokens are then taken out of the batch.                  *)
Preempt ==
  /\ InRunningLoop
  /\ Schedulable(Current)
  /\ LET v    == Victim
         pos  == CHOOSE i \in DOMAIN running : running[i] = v
         rest == Without(running, {v})
     IN \E n \in Wanted :
        /\ ~CanAllocate(Current, <<>>, SlotsFor(Current, n))
        /\ Release(pool, v, req[v].flight)
        /\ req' = [req EXCEPT ![v] = Preempted(@, FALSE)]
        /\ running' = rest
        /\ step' = [cursor |-> IF v = Current THEN Len(rest)
                               ELSE IF pos <= step.cursor THEN step.cursor - 1 ELSE step.cursor,
                    want |-> IF v = Current THEN 0 ELSE n,
                    toks |-> [step.toks EXCEPT ![v] = 0],
                    preempted |-> TRUE, resetting |-> FALSE]
  /\ UNCHANGED <<content, resets, raised>>

(* Numbers of tokens for a request admitted with `left` tokens to compute: *)
(* a single one may be padded to the size of a decode step with drafts.    *)
AdmitTokens(left, base) ==
  (1..left) \cup {n \in {1 + NumSpec} : left = 1 /\ base + n + 1 <= MaxModelLen}

(* A waiting request is admitted with its longest cache hit, if its whole  *)
(* sequence fits; not before its stale output has been delivered.          *)
AdmitWaiting(r) ==
  LET toks == req[r].tokens
      hit  == LongestHit(toks)
      base == Len(hit) * BlockSize
  IN /\ ~InRunningLoop
     /\ ~step.preempted /\ ~step.resetting
     /\ req[r].status = "waiting"
     /\ req[r].flight = <<>>
     /\ CanAllocate(r, hit, Len(toks))
     /\ \E n \in AdmitTokens(Len(toks) - base, base) :
          /\ CanAllocate(r, hit, base + n + NumLookahead)
          /\ AllocateSlots(r, hit, base, n)
          /\ step' = [step EXCEPT !.cursor = @ + 1, !.toks[r] = n]
     /\ req' = [req EXCEPT ![r].status = "running", ![r].computed = base]
     /\ running' = Append(running, r)
     /\ UNCHANGED <<deferred, content, resets>>
-----------------------------------------------------------------------------
(* The batch goes to the workers *)

(* Drafts of r in the batch: what exceeds the tokens known or in flight. *)
Drafts(r) ==
  MaxOf(req[r].computed + step.toks[r] - Len(req[r].tokens) - req[r].placeholders, 0)

Samples(r) == req[r].computed + step.toks[r] >= Len(req[r].tokens) + req[r].placeholders

(* What the workers may sample for r: nothing in the middle of a prompt,   *)
(* else the accepted drafts, none of which is padding, and one more token. *)
Sampled(r) ==
  IF ~Samples(r) THEN {<<>>}
  ELSE UNION {[1..k -> Token] : k \in 1..MinOf(Drafts(r), req[r].spec) + 1}

(* The workers write the positions after `computed`, which may count       *)
(* drafts they have rejected; the last sampled token is not written yet.   *)
WriteFrom(r) == MinOf(req[r].computed, Len(req[r].seq) - 1)
WriteTo(r, out) ==
  IF out = <<>> THEN req[r].computed + step.toks[r] ELSE Len(req[r].seq) + Len(out) - 1

Written(r, out) ==
  LET toks == req[r].seq \o out
      touches == WriteFrom(r) \div BlockSize + 1 .. cdiv(WriteTo(r, out), BlockSize)
  IN [b \in {tables[r][i] : i \in touches} |->
        LET i == CHOOSE j \in touches : tables[r][j] = b
        IN SubSeq(toks, 1, MinOf(WriteTo(r, out), i * BlockSize))]

Issued(q, r, out) ==
  [q EXCEPT !.computed = @ + step.toks[r],
            !.placeholders = IF out = <<>> THEN @ ELSE @ + 1 + Drafts(r),
            !.spec = IF out = <<>> THEN 0 ELSE NumSpec,
            !.seq = @ \o out,
            !.flight = Append(@, [gen |-> Len(out), spec |-> Drafts(r)])]

Scheduled == {r \in Requests : step.toks[r] > 0}

IssueBatch ==
  /\ ~InRunningLoop
  /\ ~Idle /\ ~step.resetting
  /\ \E out \in {f \in [Scheduled -> UNION {Sampled(r) : r \in Scheduled}] :
                   \A r \in Scheduled : f[r] \in Sampled(r)} :
       /\ req' = [r \in Requests |->
                    IF r \in Scheduled THEN Issued(req[r], r, out[r]) ELSE req[r]]
       /\ content' = [b \in Blocks |->
            LET ws == {r \in Scheduled : b \in DOMAIN Written(r, out[r])}
            IN IF ws = {} THEN content[b]
               ELSE Written(CHOOSE r \in ws : TRUE, out[CHOOSE r \in ws : TRUE])[b]]
  /\ step' = NoStep
  /\ UNCHANGED <<pool, tables, numCached, deferred, running, resets, raised>>
-----------------------------------------------------------------------------
(* Output, abort, reset: between two schedule() calls *)

Finished(q) == [q EXCEPT !.status = "finished", !.computed = 0, !.placeholders = 0,
                         !.spec = 0, !.seq = q.tokens, !.flight = <<>>]

(* The request after `kept` of the tokens of its oldest output f were      *)
(* appended: rejected drafts roll the counts back, unless it was preempted *)
(* meanwhile.                                                              *)
(* Mutant: the rejected drafts stay counted as computed. *)
AfterOutputNoRollback(q, f, kept) ==
  LET live == q.status = "running"
      back == IF live /\ f.gen > 0 THEN f.spec - (f.gen - 1) ELSE 0
  IN [q EXCEPT !.tokens = SubSeq(q.seq, 1, Len(@) + kept), !.flight = Tail(@),
               !.placeholders = IF live THEN @ - back - kept ELSE @]
(* Mutant: a stale output counts against placeholders already zeroed. *)
AfterOutputStale(q, f, kept) ==
  LET back == IF f.gen > 0 THEN f.spec - (f.gen - 1) ELSE 0
  IN [q EXCEPT !.tokens = SubSeq(q.seq, 1, Len(@) + kept), !.flight = Tail(@),
               !.computed = @ - back, !.placeholders = @ - back - kept]
AfterOutput(q, f, kept) ==
  LET live == q.status = "running"
      back == IF live /\ f.gen > 0 THEN f.spec - (f.gen - 1) ELSE 0
  IN [q EXCEPT !.tokens = SubSeq(q.seq, 1, Len(@) + kept), !.flight = Tail(@),
               !.computed = @ - back,
               !.placeholders = IF live THEN @ - back - kept ELSE @]

(* check_stop: the length conditions, or a stop token among the tokens. *)
Kept(r, f) ==
  LET room == MinOf(MaxModelLen, Len(Prompt[r]) + MaxTokens[r]) - Len(req[r].tokens)
  IN IF f.gen = 0 THEN {[n |-> 0, stop |-> FALSE]}
     ELSE {k \in [n : 1..MinOf(f.gen, room), stop : BOOLEAN] :
             (k.n < f.gen \/ k.n = room) => k.stop}

(* One output of r is processed: full blocks are cached, then a stopped    *)
(* request gives its blocks back.                                          *)
ProcessOutput(r) ==
  /\ Idle
  /\ req[r].flight # <<>>
  /\ \E k \in Kept(r, Head(req[r].flight)) :
       LET q    == AfterOutput(req[r], Head(req[r].flight), k.n)
           full == IF q.status = "running" /\ k.n > 0
                     THEN (q.computed - q.placeholders) \div BlockSize ELSE 0
           p    == CacheFullBlocks(pool, tables[r], q.tokens, numCached[r], full)
       IN IF k.stop
            THEN /\ req' = [req EXCEPT ![r] = Finished(q)]
                 /\ running' = Without(running, {r})
                 /\ Release(p, r, q.flight)
            ELSE /\ req' = [req EXCEPT ![r] = q]
                 /\ pool' = p
                 /\ numCached' = [numCached EXCEPT ![r] = MaxOf(@, full)]
                 /\ UNCHANGED <<running, tables, deferred>>
  /\ UNCHANGED <<step, content, resets, raised>>

Abort(r) ==
  /\ Idle
  /\ req[r].status \in {"waiting", "running"}
  /\ req' = [req EXCEPT ![r] = Finished(@)]
  /\ running' = Without(running, {r})
  /\ Release(pool, r, req[r].flight)
  /\ UNCHANGED <<step, content, resets, raised>>

(* _drain_deferred_frees, one entry. *)
DrainDeferredFree ==
  /\ Idle
  /\ deferred # <<>>
  /\ pool' = FreeBlocks(pool, Reverse(Head(deferred)))
  /\ deferred' = Tail(deferred)
  /\ UNCHANGED <<tables, numCached, req, running, step, content, resets, raised>>

(* reset_prefix_cache(reset_running_requests=True): its loop preempts the  *)
(* running requests, the last one first, dropping what is in flight ...    *)
ResetPreempt ==
  /\ Idle \/ step.resetting
  /\ resets < MaxResets
  /\ running # <<>>
  /\ LET r == Last(running)
     IN /\ Release(pool, r, req[r].flight)
        /\ req' = [req EXCEPT ![r] = Preempted(@, TRUE)]
        /\ running' = Without(running, {r})
  /\ step' = [NoStep EXCEPT !.resetting = TRUE]
  /\ UNCHANGED <<content, resets, raised>>

(* ... and then asks the pool. *)
ResetPrefixCache ==
  /\ Idle \/ step.resetting
  /\ resets < MaxResets
  /\ running = <<>>
  /\ pool' = ResetCache(pool)
  /\ resets' = resets + 1
  /\ step' = NoStep
  /\ UNCHANGED <<tables, numCached, deferred, req, running, content, raised>>
-----------------------------------------------------------------------------
Init ==
  /\ pool = [free |-> SetToSeq(Blocks), ref |-> [b \in Blocks |-> 0],
             hash |-> [b \in Blocks |-> NoHash], cache |-> <<>>]
  /\ tables = [r \in Requests |-> <<>>]
  /\ numCached = [r \in Requests |-> 0]
  /\ deferred = <<>>
  /\ req = [r \in Requests |->
              [status |-> "waiting", tokens |-> Prompt[r], seq |-> Prompt[r],
               computed |-> 0, placeholders |-> 0, spec |-> 0, flight |-> <<>>]]
  /\ running = <<>>
  /\ step = NoStep
  /\ content = [b \in Blocks |-> NoHash]
  /\ resets = 0
  /\ raised = FALSE

Next ==
  \/ ScheduleRunning \/ SkipRunning \/ Preempt
  \/ \E r \in Requests : AdmitWaiting(r) \/ ProcessOutput(r) \/ Abort(r)
  \/ IssueBatch
  \/ DrainDeferredFree
  \/ ResetPreempt \/ ResetPrefixCache

Spec == Init /\ [][Next]_vars
-----------------------------------------------------------------------------
(* Properties *)

(* Tables and deferred frees that refer to a block. *)
Holders(b) == Cardinality({r \in Requests : b \in ToSet(tables[r])})
            + Cardinality({i \in DOMAIN deferred : b \in ToSet(deferred[i])})

(* Types; in particular a stale output never takes the counts of a         *)
(* preempted request below zero (scheduler.py 2183, async_scheduler.py     *)
(* 112), and the tokens a request has are a prefix of what the workers     *)
(* hold for it.                                                            *)
TypeOK ==
  /\ pool.free \in Seq(Blocks)
  /\ pool.ref \in [Blocks -> Nat]
  /\ DOMAIN pool.hash = Blocks
  /\ tables \in [Requests -> Seq(Blocks)]
  /\ numCached \in [Requests -> Nat]
  /\ \A r \in Requests : /\ req[r].status \in {"waiting", "running", "finished"}
                         /\ req[r].computed \in Nat /\ req[r].placeholders \in Nat
                         /\ IsPrefix(req[r].tokens, req[r].seq)

(* A block's ref_cnt is the number of tables and deferred frees it is in,  *)
(* and the free queue holds exactly the blocks nobody refers to, once each *)
(* (block_pool.py 710-761): through hits, eviction, preemption and frees.  *)
RefCountsExact ==
  /\ \A b \in Blocks : pool.ref[b] = Holders(b)
  /\ ToSet(pool.free) = {b \in Blocks : pool.ref[b] = 0}
  /\ Len(pool.free) = Cardinality(ToSet(pool.free))

(* The hash table and the blocks' own hashes agree (block_pool.py 583-632). *)
HashMapExact ==
  /\ \A h \in DOMAIN pool.cache : pool.cache[h] # <<>> /\ IsInjective(pool.cache[h])
  /\ \A b \in Blocks, h \in DOMAIN pool.cache : b \in ToSet(pool.cache[h]) <=> pool.hash[b] = h
  /\ \A b \in Blocks : pool.hash[b] # NoHash => pool.hash[b] \in DOMAIN pool.cache

(* Between two steps every cached block holds the KV of the tokens its     *)
(* hash stands for, so that a later hit reads the right values, although   *)
(* allocate_slots caches blocks before their batch has run.                *)
CacheIntegrity ==
  Idle => \A b \in Blocks : pool.hash[b] # NoHash => content[b] = pool.hash[b]

(* A running request's table holds the KV of its own sequence as far as    *)
(* the workers have computed it, whoever shared or reused the blocks.      *)
ReadsOwnTokens ==
  Idle => \A r \in ToSet(running) :
    \A i \in 1..Len(tables[r]) :
      i * BlockSize <= WriteFrom(r) => content[tables[r][i]] = BlockHash(req[r].seq, i)

(* Blocks a request still writes are in no other table and not in the      *)
(* cache: nobody else reads them.                                          *)
WritesOwnBlocks ==
  Idle => \A r \in ToSet(running) :
    \A i \in WriteFrom(r) \div BlockSize + 1 .. Len(tables[r]) :
      pool.ref[tables[r][i]] = 1 /\ pool.hash[tables[r][i]] = NoHash

(* The blocks of a table past num_cached_block have no hash, so the        *)
(* assertion of cache_full_blocks never fails: a block handed out again    *)
(* has lost its old hash, whatever was hit, preempted or reset since.      *)
CachedOnce ==
  \A r \in Requests : \A i \in 1..Len(tables[r]) :
    i > numCached[r] => pool.hash[tables[r][i]] = NoHash

(* A cached block's parent is cached too: eviction takes tails first, so   *)
(* find_longest_cache_hit, which stops at the first miss, loses nothing.   *)
PrefixClosed ==
  \A h \in DOMAIN pool.cache :
    Len(h) > BlockSize => SubSeq(h, 1, Len(h) - BlockSize) \in DOMAIN pool.cache

(* Once allocate_slots has found enough free blocks, get_new_blocks does   *)
(* not raise, although touching the hits takes blocks out of the queue.    *)
CheckedAllocationSucceeds == ~raised
=============================================================================
