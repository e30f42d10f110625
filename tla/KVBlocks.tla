------------------------------ MODULE KVBlocks ------------------------------
(***************************************************************************)
(* The engine's KV cache with pinned requests: KVCacheManager              *)
(* (v1/core/kv_cache_manager.py), SingleTypeKVCacheManager for full        *)
(* attention, BlockPool (v1/core/block_pool.py), and what the Scheduler    *)
(* does to them when a request is scheduled, preempted, finished, aborted  *)
(* or unpinned.                                                            *)
(*                                                                         *)
(* A block hash is the tokens up to the end of the block.  The free queue  *)
(* is a set: which free block is handed out first is left open, and so is  *)
(* which of two blocks with one hash a lookup finds.  The null block, KV   *)
(* connectors and speculative tokens are not modelled.                     *)
(***************************************************************************)
EXTENDS Integers, FiniteSets, Sequences, Functions

CONSTANTS
  Blocks,     \* the blocks of the pool, without the null block
  Requests,
  Tokens,     \* Tokens[r]: the tokens of r when it is finished, without the last
              \* one sampled, which finishes it and never gets a slot
  Prompt,     \* Prompt[r]: how many of them are its prompt
  Pinned,     \* requests made with pinned set
  block_size,
  None        \* block_hash of a block that is not cached

ASSUME BlocksAssumption  == IsFiniteSet(Blocks)
ASSUME RequestsAssumption == IsFiniteSet(Requests)
ASSUME TokensAssumption  ==
  \A r \in Requests : Tokens[r] \in Seq(Nat) /\ Prompt[r] \in 1..Len(Tokens[r])
ASSUME PinnedAssumption  == Pinned \subseteq Requests
ASSUME SizeAssumption    == block_size \in Nat \ {0}
ASSUME NoneAssumption    == None \notin Seq(Nat)

VARIABLES
  ref_cnt, pinned, block_hash,   \* of a block; pinned as a set
  free,                          \* free_block_queue, as a set
  req_to_blocks,
  num_cached_block,
  num_computed_tokens,
  num_tokens,
  status,                        \* "waiting", "running", "finished" or "aborted"
  preempted                      \* requests that were ever preempted (history)

pool == <<ref_cnt, pinned, block_hash, free>>
vars == <<pool, req_to_blocks, num_cached_block, num_computed_tokens, num_tokens,
          status, preempted>>

Init ==
  /\ ref_cnt = [b \in Blocks |-> 0] /\ pinned = {} /\ free = Blocks
  /\ block_hash = [b \in Blocks |-> None]
  /\ req_to_blocks = [r \in Requests |-> <<>>]
  /\ num_cached_block = [r \in Requests |-> 0]
  /\ num_computed_tokens = [r \in Requests |-> 0]
  /\ num_tokens = [r \in Requests |-> Prompt[r]]
  /\ status = [r \in Requests |-> "waiting"]
  /\ preempted = {}

Hash(r, j) == SubSeq(Tokens[r], 1, j * block_size)
cdiv(a, b) == (a + b - 1) \div b
LesserOf(a, b) == IF a <= b THEN a ELSE b

(* find_longest_cache_hit: the last token is computed again in any case.   *)
IsCached(r, j) == \E b \in Blocks : block_hash[b] = Hash(r, j)
HitsAtMost(r) == (num_tokens[r] - 1) \div block_size
IsLongestHit(r, n) ==
  /\ \A j \in 1..n : IsCached(r, j)
  /\ n < HitsAtMost(r) => ~IsCached(r, n + 1)
IsHit(r, hit) == \A j \in DOMAIN hit : block_hash[hit[j]] = Hash(r, j)
Hits(r) ==
  UNION {{hit \in [1..n -> Blocks] : IsHit(r, hit)} :
           n \in {n \in 0..HitsAtMost(r) : IsLongestHit(r, n)}}

(* get_num_blocks_to_allocate. *)
Required(r, hit, n) ==
  cdiv(num_computed_tokens[r] + Len(hit) * block_size + n, block_size)
NewBlocks(r, hit, n) ==
  LET missing == Required(r, hit, n) - Len(hit) - Len(req_to_blocks[r])
  IN  IF missing > 0 THEN missing ELSE 0
get_num_blocks_to_allocate(r, hit, n) ==
  Required(r, hit, n) - Len(hit) - Len(req_to_blocks[r])
    + Cardinality({b \in Range(hit) : ref_cnt[b] = 0})
Fits(r, hit, n) == get_num_blocks_to_allocate(r, hit, n) <= Cardinality(free)

\* Mutant of Touched: the hit blocks stay in the free queue.
TouchedNone(hit) == {}

(* touch: the hit blocks that are in the free queue leave it. *)
Touched(hit) == {b \in Range(hit) : ref_cnt[b] = 0 /\ b \notin pinned}

\* Mutant of Evicted: the old hash stays on the block.
EvictedKept(new) == block_hash

(* get_new_blocks evicts what a block it hands out had cached. *)
Evicted(new) ==
  [b \in Blocks |-> IF b \in Range(new) /\ b \notin pinned THEN None ELSE block_hash[b]]

(* cache_full_blocks, on the blocks of r from number `from` to `to`. *)
Cached(r, blocks, from, to, hash) ==
  [b \in Blocks |-> IF \E j \in from..to : blocks[j] = b
                    THEN Hash(r, CHOOSE j \in from..to : blocks[j] = b)
                    ELSE hash[b]]

(* pin_request, which allocate_slots calls last for a pinned request. *)
NowPinned(r, blocks, hash) ==
  IF r \in Pinned THEN pinned \cup {b \in Range(blocks) : hash[b] # None} ELSE pinned

(* allocate_slots for n more tokens, and the scheduling of r it is for. *)
allocate_slots(r, hit, n) ==
  /\ Fits(r, hit, n)
  /\ \E new \in [1..NewBlocks(r, hit, n) -> free \ Touched(hit)] :
       LET blocks == req_to_blocks[r] \o hit \o new
           computed == num_computed_tokens[r] + Len(hit) * block_size + n
           cached == num_cached_block[r] + Len(hit)
           full == LesserOf(computed, num_tokens[r]) \div block_size
       IN  /\ \A i, j \in DOMAIN new : i # j => new[i] # new[j]
           /\ free' = free \ (Touched(hit) \cup Range(new))
           /\ ref_cnt' = [b \in Blocks |->
                            ref_cnt[b] + (IF b \in Range(hit) \cup Range(new) THEN 1 ELSE 0)]
           /\ block_hash' = Cached(r, blocks, cached + 1, full, Evicted(new))
           /\ pinned' = NowPinned(r, blocks, block_hash')
           /\ req_to_blocks' = [req_to_blocks EXCEPT ![r] = blocks]
           /\ num_cached_block' = [num_cached_block EXCEPT ![r] =
                                     IF full > cached THEN full ELSE cached]
           /\ num_computed_tokens' = [num_computed_tokens EXCEPT ![r] = computed]

(* schedule gives a request n tokens, as many as the token budget of the   *)
(* step allows: first a running one, which does not look in the cache...   *)
ScheduleRunning(r) ==
  /\ status[r] = "running"
  /\ \E n \in 1..(num_tokens[r] - num_computed_tokens[r]) : allocate_slots(r, <<>>, n)
  /\ UNCHANGED <<num_tokens, status, preempted>>

(* ... then one that waits, which does. *)
ScheduleWaiting(r) ==
  /\ status[r] = "waiting"
  /\ \E hit \in Hits(r) :
       \E n \in 1..(num_tokens[r] - Len(hit) * block_size) : allocate_slots(r, hit, n)
  /\ status' = [status EXCEPT ![r] = "running"]
  /\ UNCHANGED <<num_tokens, preempted>>

\* Mutant of BackInQueue: freed while the blocks are still marked pinned.
FreeThenUnpin(r, still) ==
  {b \in Range(req_to_blocks[r]) : ref_cnt[b] = 1 /\ b \notin pinned}

(* KVCacheManager.free and unpin_request, given what stays pinned. *)
BackInQueue(r, still) ==
  {b \in Range(req_to_blocks[r]) : ref_cnt[b] = 1 /\ b \notin still}

free_request(r, still) ==
  /\ pinned' = still
  /\ ref_cnt' = [b \in Blocks |->
                   ref_cnt[b] - (IF b \in Range(req_to_blocks[r]) THEN 1 ELSE 0)]
  /\ free' = free \cup BackInQueue(r, still)
  /\ req_to_blocks' = [req_to_blocks EXCEPT ![r] = <<>>]
  /\ num_cached_block' = [num_cached_block EXCEPT ![r] = 0]
  /\ UNCHANGED block_hash

(* _preempt_request: a running request finds no room for the tokens it is  *)
(* to be given in this step, and a request is preempted, perhaps itself.   *)
(* Its blocks are freed, but not unpinned.                                 *)
Preempt(r) ==
  /\ status[r] = "running"
  /\ \E q \in Requests :
       /\ status[q] = "running"
       /\ \E n \in 1..(num_tokens[q] - num_computed_tokens[q]) : ~Fits(q, <<>>, n)
  /\ free_request(r, pinned)
  /\ num_computed_tokens' = [num_computed_tokens EXCEPT ![r] = 0]
  /\ status' = [status EXCEPT ![r] = "waiting"]
  /\ preempted' = preempted \cup {r}
  /\ UNCHANGED num_tokens

(* _free_request: the blocks of a pinned request are kept. *)
_free_request(r) ==
  IF r \in Pinned THEN UNCHANGED <<pool, req_to_blocks, num_cached_block>>
                  ELSE free_request(r, pinned)

(* The next token is sampled.  It is computed in a later step, or it is    *)
(* the last and the same step finishes the request (Finish).               *)
Sample(r) ==
  /\ status[r] = "running" /\ num_computed_tokens[r] = num_tokens[r]
  /\ num_tokens[r] < Len(Tokens[r])
  /\ num_tokens' = [num_tokens EXCEPT ![r] = @ + 1]
  /\ UNCHANGED <<pool, req_to_blocks, num_cached_block, num_computed_tokens, status, preempted>>

Finish(r) ==
  /\ status[r] = "running" /\ num_computed_tokens[r] = num_tokens[r]
  /\ num_tokens[r] = Len(Tokens[r])
  /\ _free_request(r)
  /\ status' = [status EXCEPT ![r] = "finished"]
  /\ UNCHANGED <<num_computed_tokens, num_tokens, preempted>>

(* finish_requests: the client went away. *)
Abort(r) ==
  /\ status[r] \in {"waiting", "running"}
  /\ _free_request(r)
  /\ status' = [status EXCEPT ![r] = "aborted"]
  /\ UNCHANGED <<num_computed_tokens, num_tokens, preempted>>

(* EngineCore.unpin_request, for a request that ended and was registered.  *)
(* Every block of it is unpinned, whoever pinned it.                       *)
unpin_request(r) ==
  /\ r \in Pinned /\ status[r] = "finished"
  /\ req_to_blocks[r] # <<>>
  /\ free_request(r, pinned \ Range(req_to_blocks[r]))
  /\ UNCHANGED <<num_computed_tokens, num_tokens, status, preempted>>

Next ==
  \E r \in Requests :
    \/ ScheduleRunning(r) \/ ScheduleWaiting(r)
    \/ Preempt(r) \/ Sample(r) \/ Finish(r) \/ Abort(r) \/ unpin_request(r)

Spec == Init /\ [][Next]_vars
-----------------------------------------------------------------------------

(* The free queue holds exactly the blocks nobody references and nobody    *)
(* pinned, through every touch, eviction, free and unpin: no block is      *)
(* handed out while in use, none is queued twice.                          *)
FreeQueueExact == free = {b \in Blocks : ref_cnt[b] = 0 /\ b \notin pinned}

(* ref_cnt counts the requests that have the block in req_to_blocks: a     *)
(* prefix shared by several requests is freed by the last of them only.    *)
Holders(b) == {r \in Requests : b \in Range(req_to_blocks[r])}
RefCountExact == \A b \in Blocks : ref_cnt[b] = Cardinality(Holders(b))

(* A block a request has cached, and computed on, still carries the hash   *)
(* of the request's own tokens, and the rest carry none: no block in use   *)
(* is evicted or given to other tokens, and the assertion of               *)
(* cache_full_blocks (block_hash is None) holds.                           *)
BlocksKeepTheirTokens ==
  \A r \in Requests : \A j \in DOMAIN req_to_blocks[r] :
    block_hash[req_to_blocks[r][j]] =
      IF j <= num_cached_block[r] THEN Hash(r, j) ELSE None

(* Until it is unpinned, a finished pinned request keeps every full block  *)
(* of its tokens cached and out of the free queue, whatever is preempted,  *)
(* aborted or unpinned around it.                                          *)
PinnedPrefixStays ==
  \A r \in Pinned :
    status[r] = "finished" /\ req_to_blocks[r] # <<>> =>
      \A j \in 1..(Len(Tokens[r]) \div block_size) :
        \E b \in Blocks \ free : block_hash[b] = Hash(r, j)

(* When no pinned request was preempted or aborted, unpinning them all     *)
(* gives every block back.                                                 *)
UnpinGivesAllBack ==
  /\ \A r \in Requests : status[r] \in {"finished", "aborted"} /\ req_to_blocks[r] = <<>>
  /\ \A r \in Pinned : status[r] # "aborted" /\ r \notin preempted
  => free = Blocks

=============================================================================
