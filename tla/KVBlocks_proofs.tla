-------------------------- MODULE KVBlocks_proofs --------------------------
(***************************************************************************)
(* The free queue and the reference counts of KVBlocks are exact for any   *)
(* pool, any requests, tokens and pins.  The two need each other, and the  *)
(* fact that a waiting request has no blocks, to be inductive: a block may *)
(* be counted down only by a request that was counted, and counted up only *)
(* by one that was not.  That blocks keep their tokens, that a pinned      *)
(* prefix stays and that unpinning gives all back rests on them and on     *)
(* where a request's blocks are (Places) and whose the pins are            *)
(* (PinsOwned), below.                                                     *)
(***************************************************************************)
EXTENDS KVBlocks, FiniteSetTheorems, SequenceTheorems, TLAPS

\* The leaves are first-order steps for Zenon; those with arithmetic or large records name SMT.
USE Zenon

Types ==
  /\ ref_cnt \in [Blocks -> Nat]
  /\ pinned \subseteq Blocks
  /\ free \subseteq Blocks
  /\ req_to_blocks \in [Requests -> Seq(Blocks)]
  /\ num_computed_tokens \in [Requests -> Int]
  /\ num_tokens \in [Requests -> Int]
  /\ status \in [Requests -> {"waiting", "running", "finished", "aborted"}]

WaitingHasNone == \A r \in Requests : status[r] = "waiting" => req_to_blocks[r] = <<>>

IInv == Types /\ FreeQueueExact /\ RefCountExact /\ WaitingHasNone

\* A request that is added to the holders of a block it did not hold counts once.
LEMMA AddHolder ==
  ASSUME NEW S, IsFiniteSet(S), NEW x, x \notin S
  PROVE  Cardinality(S \cup {x}) = Cardinality(S) + 1
BY FS_AddElement

\* A request that leaves the holders of a block counts once.
LEMMA RemoveHolder ==
  ASSUME NEW S, IsFiniteSet(S), NEW x \in S
  PROVE  /\ Cardinality(S \ {x}) = Cardinality(S) - 1
         /\ Cardinality(S) \in Nat \ {0}
<1>1. Cardinality(S) \in Nat
  BY FS_CardinalityType
<1>2. Cardinality(S) # 0
  BY FS_EmptySet
<1>3. Cardinality(S \ {x}) = Cardinality(S) - 1
  BY FS_RemoveElement
<1> QED
  BY <1>1, <1>2, <1>3

\* Holders are finitely many, and their number is the reference count.
LEMMA HoldersFinite ==
  ASSUME NEW b
  PROVE  IsFiniteSet(Holders(b)) /\ Cardinality(Holders(b)) \in Nat
<1>1. Holders(b) \subseteq Requests
  BY DEF Holders
<1>2. IsFiniteSet(Holders(b))
  BY <1>1, RequestsAssumption, FS_Subset
<1> QED
  BY <1>2, FS_CardinalityType

\* KVCacheManager.free and unpin_request keep the queue and the counts exact.
LEMMA FreeKeeps ==
  ASSUME IInv, NEW r \in Requests, NEW STATE still, still \subseteq pinned,
         pinned \ still \subseteq Range(req_to_blocks[r]),
         free_request(r, still)
  PROVE  /\ ref_cnt' \in [Blocks -> Nat]
         /\ pinned' \subseteq Blocks
         /\ free' \subseteq Blocks
         /\ req_to_blocks' \in [Requests -> Seq(Blocks)]
         /\ req_to_blocks'[r] = <<>>
         /\ \A q \in Requests \ {r} : req_to_blocks'[q] = req_to_blocks[q]
         /\ \A b \in Blocks : Holders(b) \ {r} \subseteq Holders(b)'
         /\ FreeQueueExact' /\ RefCountExact'
<1> DEFINE Mine == Range(req_to_blocks[r])
<1> USE DEF IInv, Types
<1>0. \A b : b \in Mine <=> r \in Holders(b)
  BY DEF Holders
<1>9. pinned \ still \subseteq Mine
  OBVIOUS
<1>1. Mine \subseteq Blocks
  <2>1. req_to_blocks[r] \in Seq(Blocks)
    OBVIOUS
  <2> QED
    BY <2>1, RangeOfSeq
<1>2. \A b \in Mine : ref_cnt[b] \in Nat \ {0} /\ Cardinality(Holders(b) \ {r}) = ref_cnt[b] - 1
  <2> TAKE b \in Mine
  <2>1. r \in Holders(b) /\ b \in Blocks
    BY <1>0, <1>1
  <2>2. Cardinality(Holders(b) \ {r}) = Cardinality(Holders(b)) - 1 /\ Cardinality(Holders(b)) \in Nat \ {0}
    BY <2>1, HoldersFinite, RemoveHolder
  <2> QED
    BY <2>1, <2>2 DEF RefCountExact
<1>3. /\ req_to_blocks' = [req_to_blocks EXCEPT ![r] = <<>>]
      /\ pinned' = still
      /\ free' = free \cup {b \in Mine : ref_cnt[b] = 1 /\ b \notin still}
      /\ \A b \in Blocks : ref_cnt'[b] = IF b \in Mine THEN ref_cnt[b] - 1 ELSE ref_cnt[b]
  BY SMT DEF free_request, BackInQueue
<1>10. ref_cnt' = [b \in Blocks |-> ref_cnt'[b]]
  BY DEF free_request
<1> HIDE DEF Mine
<1>4. ref_cnt' \in [Blocks -> Nat]
  <2>1. \A b \in Blocks : ref_cnt[b] \in Nat
    OBVIOUS
  <2>2. \A b \in Blocks : ref_cnt'[b] \in Nat
    <3> TAKE b \in Blocks
    <3>1. ref_cnt[b] \in Nat
      BY <2>1
    <3>2. b \in Mine => ref_cnt[b] # 0
      BY <1>2
    <3>3. ref_cnt'[b] = IF b \in Mine THEN ref_cnt[b] - 1 ELSE ref_cnt[b]
      BY <1>3
    <3> QED
      BY <3>1, <3>2, <3>3, SMT
  <2> QED
    BY <2>2, <1>10
<1>5. /\ req_to_blocks' \in [Requests -> Seq(Blocks)] /\ req_to_blocks'[r] = <<>>
      /\ \A q \in Requests \ {r} : req_to_blocks'[q] = req_to_blocks[q]
  BY <1>3, SMT
<1>6. \A b \in Blocks : Holders(b)' = IF b \in Mine THEN Holders(b) \ {r} ELSE Holders(b)
  <2> TAKE b \in Blocks
  <2>1. Range(<<>>) = {}
    BY SMT DEF Range
  <2>2. \A q \in Requests : q \in Holders(b)' <=> (q # r /\ q \in Holders(b))
    BY <1>5, <2>1 DEF Holders
  <2>3. Holders(b) \subseteq Requests /\ Holders(b)' \subseteq Requests
    BY DEF Holders
  <2>4. b \notin Mine => r \notin Holders(b)
    BY <1>0
  <2> QED
    BY <2>2, <2>3, <2>4
<1>7. RefCountExact'
  <2> SUFFICES ASSUME NEW b \in Blocks
               PROVE  ref_cnt'[b] = Cardinality(Holders(b)')
    BY DEF RefCountExact
  <2>1. CASE b \in Mine
    BY <2>1, <1>2, <1>3, <1>6
  <2>2. CASE b \notin Mine
    BY <2>2, <1>3, <1>6 DEF RefCountExact
  <2> QED
    BY <2>1, <2>2
<1>8. FreeQueueExact'
  <2> SUFFICES ASSUME NEW b \in Blocks
               PROVE  b \in free' <=> (ref_cnt'[b] = 0 /\ b \notin pinned')
    BY <1>1, <1>3 DEF FreeQueueExact
  <2>1. CASE b \in Mine
    <3>1. ref_cnt[b] \in Nat \ {0} /\ ref_cnt'[b] = ref_cnt[b] - 1
      BY <2>1, <1>2, <1>3
    <3>2. b \notin free
      BY <3>1 DEF FreeQueueExact
    <3>3. b \in free' <=> ref_cnt[b] = 1 /\ b \notin still
      BY <2>1, <3>2, <1>3
    <3> QED
      BY <3>1, <3>3, <1>3, SMT
  <2>2. CASE b \notin Mine
    BY <2>2, <1>3, <1>9 DEF FreeQueueExact
  <2> QED
    BY <2>1, <2>2
<1>11. \A b \in Blocks : Holders(b) \ {r} \subseteq Holders(b)'
  BY <1>6
<1> QED
  BY <1>1, <1>3, <1>4, <1>5, <1>7, <1>8, <1>11

\* What a lookup finds is a sequence of blocks, and only a request without blocks
\* looks.
LEMMA HitIsSeq ==
  ASSUME IInv, NEW r \in Requests, NEW hit,
         \/ status[r] = "running" /\ hit = <<>>
         \/ status[r] = "waiting" /\ hit \in Hits(r)
  PROVE  /\ hit \in Seq(Blocks) /\ Len(hit) \in Nat
         /\ hit = <<>> \/ req_to_blocks[r] = <<>>
         /\ req_to_blocks[r] \in Seq(Blocks) /\ Len(req_to_blocks[r]) \in Nat
<1> USE DEF IInv, Types
<1>1. CASE status[r] = "running" /\ hit = <<>>
  BY <1>1, SMT
<1>2. CASE status[r] = "waiting" /\ hit \in Hits(r)
  <2>1. req_to_blocks[r] = <<>>
    BY <1>2 DEF WaitingHasNone
  <2>2. HitsAtMost(r) \in Int
    BY SizeAssumption, SMT DEF HitsAtMost
  <2>3. PICK m \in 0..HitsAtMost(r) : hit \in [1..m -> Blocks]
    BY <1>2 DEF Hits
  <2>4. m \in Nat
    BY <2>2, SMT
  <2>5. hit \in Seq(Blocks)
    BY <2>3, <2>4, SMT
  <2> QED
    BY <2>1, <2>5, LenProperties
<1> QED
  BY <1>1, <1>2

\* The new blocks of an allocation are a sequence of free blocks.
LEMMA NewIsSeq ==
  ASSUME IInv, NEW r \in Requests, NEW hit \in Seq(Blocks), NEW n \in Int,
         NEW new \in [1..NewBlocks(r, hit, n) -> free \ Touched(hit)]
  PROVE  /\ NewBlocks(r, hit, n) \in Nat
         /\ new \in Seq(Blocks) /\ Len(new) = NewBlocks(r, hit, n)
         /\ Range(new) \subseteq free \ Touched(hit)
<1> USE DEF IInv, Types
<1>1. Len(hit) \in Nat /\ Len(req_to_blocks[r]) \in Nat
  BY LenProperties
<1>2. Required(r, hit, n) \in Int
  <2>1. num_computed_tokens[r] + Len(hit) * block_size + n \in Int
    BY <1>1, SizeAssumption, SMT
  <2> QED
    BY <2>1, SizeAssumption, SMT DEF Required, cdiv
<1>3. NewBlocks(r, hit, n) \in Nat
  BY <1>1, <1>2, SMT DEF NewBlocks
<1>4. new \in [1..NewBlocks(r, hit, n) -> Blocks]
  OBVIOUS
<1>5. new \in Seq(Blocks) /\ Len(new) = NewBlocks(r, hit, n)
  <2> DEFINE m == NewBlocks(r, hit, n)
  <2>1. m \in Nat /\ new \in [1..m -> Blocks]
    BY <1>3, <1>4
  <2> HIDE DEF m
  <2>2. new \in Seq(Blocks) /\ Len(new) = m
    BY <2>1, SMT
  <2> QED
    BY <2>2 DEF m
<1> QED
  BY <1>3, <1>5 DEF Range

\* allocate_slots keeps the queue and the counts exact.
LEMMA AllocateKeeps ==
  ASSUME IInv, NEW r \in Requests, NEW hit, NEW n \in Int, allocate_slots(r, hit, n),
         \/ status[r] = "running" /\ hit = <<>>
         \/ status[r] = "waiting" /\ hit \in Hits(r)
  PROVE  /\ ref_cnt' \in [Blocks -> Nat]
         /\ pinned' \subseteq Blocks
         /\ free' \subseteq Blocks
         /\ req_to_blocks' \in [Requests -> Seq(Blocks)]
         /\ \A q \in Requests \ {r} : req_to_blocks'[q] = req_to_blocks[q]
         /\ num_computed_tokens' \in [Requests -> Int]
         /\ \A b \in Blocks : Holders(b) \subseteq Holders(b)'
         /\ \A b \in pinned' \ pinned : r \in Pinned /\ r \in Holders(b)'
         /\ FreeQueueExact' /\ RefCountExact'
<1> USE DEF IInv, Types
<1>1. /\ hit \in Seq(Blocks)
      /\ hit = <<>> \/ req_to_blocks[r] = <<>>
  BY HitIsSeq
<1>2. Len(hit) \in Nat /\ Len(req_to_blocks[r]) \in Nat /\ req_to_blocks[r] \in Seq(Blocks)
  BY HitIsSeq
<1>4. PICK new \in [1..NewBlocks(r, hit, n) -> free \ Touched(hit)] :
        /\ free' = free \ (Touched(hit) \cup Range(new))
        /\ ref_cnt' = [b \in Blocks |->
                         ref_cnt[b] + (IF b \in Range(hit) \cup Range(new) THEN 1 ELSE 0)]
        /\ pinned' = NowPinned(r, req_to_blocks[r] \o hit \o new, block_hash')
        /\ req_to_blocks' = [req_to_blocks EXCEPT ![r] = req_to_blocks[r] \o hit \o new]
        /\ num_computed_tokens' = [num_computed_tokens EXCEPT ![r] =
                                     num_computed_tokens[r] + Len(hit) * block_size + n]
  BY DEF allocate_slots
<1> DEFINE Old == Range(req_to_blocks[r])
           Hit == Range(hit)
           New == Range(new)
           blocks == req_to_blocks[r] \o hit \o new
<1>5. new \in Seq(Blocks) /\ New \subseteq free \ Touched(hit)
  BY <1>1, <1>4, NewIsSeq
<1>6. blocks \in Seq(Blocks) /\ Range(blocks) = Old \cup Hit \cup New
  <2> DEFINE first == req_to_blocks[r] \o hit
  <2>1. first \in Seq(Blocks)
    BY <1>1, <1>2, ConcatProperties
  <2>2. Range(first) = Old \cup Hit
    BY <1>1, <1>2, RangeConcatenation, SMT
  <2>3. blocks = first \o new
    OBVIOUS
  <2> HIDE DEF first, blocks, Old, Hit, New
  <2>4. first \o new \in Seq(Blocks)
    BY <2>1, <1>5, ConcatProperties
  <2>5. Range(first \o new) = Range(first) \cup Range(new)
    BY <2>1, <1>5, RangeConcatenation, SMT
  <2> QED
    BY <2>2, <2>3, <2>4, <2>5 DEF New
<1>7. Old \subseteq Blocks /\ Hit \subseteq Blocks /\ New \subseteq Blocks
  BY <1>1, <1>2, <1>5, RangeOfSeq
<1>8. Old = {} \/ Hit = {}
  BY <1>1, SMT DEF Range
<1>9. Touched(hit) = {b \in Hit : ref_cnt[b] = 0 /\ b \notin pinned}
  BY DEF Touched
<1>10. \A b \in Blocks : b \in Old <=> r \in Holders(b)
  BY DEF Holders
<1>11. \A b \in Old : ref_cnt[b] # 0
  <2> TAKE b \in Old
  <2>1. r \in Holders(b)
    BY <1>7, <1>10
  <2>2. Cardinality(Holders(b)) # 0
    BY <2>1, HoldersFinite, RemoveHolder
  <2> QED
    BY <2>2, <1>7 DEF RefCountExact
<1>12. \A b \in New : ref_cnt[b] = 0 /\ b \notin Old /\ b \in free
  BY <1>5, <1>11 DEF FreeQueueExact
<1> DEFINE Added == Hit \cup New
<1>13. \A b \in Added : b \in Blocks /\ r \notin Holders(b)
  BY <1>7, <1>8, <1>10, <1>12
<1>14. /\ \A b \in Blocks : ref_cnt'[b] = IF b \in Added THEN ref_cnt[b] + 1 ELSE ref_cnt[b]
       /\ free' = free \ (Touched(hit) \cup New)
       /\ pinned \subseteq pinned'
       /\ pinned' \subseteq pinned \cup Old \cup Added
       /\ req_to_blocks' = [req_to_blocks EXCEPT ![r] = blocks]
  BY <1>4, <1>6, SMT DEF NowPinned
<1>15. ref_cnt' = [b \in Blocks |-> ref_cnt'[b]]
  BY <1>4
<1>16. num_computed_tokens' \in [Requests -> Int]
  BY <1>2, <1>4, SizeAssumption, SMT
<1>17. /\ req_to_blocks' \in [Requests -> Seq(Blocks)] /\ req_to_blocks'[r] = blocks
       /\ \A q \in Requests \ {r} : req_to_blocks'[q] = req_to_blocks[q]
  BY <1>6, <1>14
<1>18. \A b \in Blocks : Holders(b)' = IF b \in Added THEN Holders(b) \cup {r} ELSE Holders(b)
  <2> TAKE b \in Blocks
  <2>1. r \in Holders(b)' <=> b \in Old \cup Added
    BY <1>6, <1>17 DEF Holders
  <2>2. \A q \in Requests \ {r} : q \in Holders(b)' <=> q \in Holders(b)
    BY <1>17 DEF Holders
  <2>3. Holders(b) \subseteq Requests /\ Holders(b)' \subseteq Requests
    BY DEF Holders
  <2> HIDE DEF Old, Added
  <2>4. CASE b \in Added
    BY <2>1, <2>2, <2>3, <2>4, SMT
  <2>5. CASE b \notin Added
    <3>1. r \in Holders(b)' <=> r \in Holders(b)
      BY <2>1, <2>5, <1>10
    <3>2. \A q \in Requests : q \in Holders(b)' <=> q \in Holders(b)
      BY <3>1, <2>2
    <3>3. Holders(b)' = Holders(b)
      BY <3>2, <2>3
    <3> QED
      BY <3>3, <2>5
  <2> QED
    BY <2>4, <2>5
<1>23. \A b \in pinned' \ pinned : r \in Pinned /\ r \in Holders(b)'
  BY <1>4, <1>17 DEF NowPinned, Holders
<1> HIDE DEF Old, Hit, New, Added, blocks
<1>24. \A b \in Blocks : Holders(b) \subseteq Holders(b)'
  BY <1>18
<1>19. \A b \in Blocks : ref_cnt[b] \in Nat
  OBVIOUS
<1>20. ref_cnt' \in [Blocks -> Nat]
  <2>1. \A b \in Blocks : ref_cnt'[b] \in Nat
    <3> TAKE b \in Blocks
    <3>1. ref_cnt[b] \in Nat
      BY <1>19
    <3>2. ref_cnt'[b] = IF b \in Added THEN ref_cnt[b] + 1 ELSE ref_cnt[b]
      BY <1>14
    <3> QED
      BY <3>1, <3>2, SMT
  <2> QED
    BY <2>1, <1>15
<1>21. RefCountExact'
  <2> SUFFICES ASSUME NEW b \in Blocks
               PROVE  ref_cnt'[b] = Cardinality(Holders(b)')
    BY DEF RefCountExact
  <2>1. CASE b \in Added
    <3>1. Cardinality(Holders(b) \cup {r}) = Cardinality(Holders(b)) + 1
      BY <2>1, <1>13, HoldersFinite, AddHolder
    <3> QED
      BY <2>1, <3>1, <1>14, <1>18 DEF RefCountExact
  <2>2. CASE b \notin Added
    BY <2>2, <1>14, <1>18 DEF RefCountExact
  <2> QED
    BY <2>1, <2>2
<1>22. FreeQueueExact'
  <2> SUFFICES ASSUME NEW b \in Blocks
               PROVE  b \in free' <=> (ref_cnt'[b] = 0 /\ b \notin pinned')
    BY <1>14 DEF FreeQueueExact
  <2>1. CASE b \in Added
    <3>1. ref_cnt'[b] # 0
      BY <2>1, <1>14, <1>19, SMT
    <3>2. b \notin free'
      BY <2>1, <1>9, <1>14 DEF FreeQueueExact, Added
    <3> QED
      BY <3>1, <3>2
  <2>2. CASE b \notin Added
    <3>1. ref_cnt'[b] = ref_cnt[b] /\ (b \in free' <=> b \in free)
      BY <2>2, <1>9, <1>14 DEF Added
    <3>2. ref_cnt[b] = 0 => (b \in pinned' <=> b \in pinned)
      BY <2>2, <1>11, <1>14
    <3> QED
      BY <3>1, <3>2 DEF FreeQueueExact
  <2> QED
    BY <2>1, <2>2
<1> QED
  BY <1>7, <1>14, <1>16, <1>17, <1>20, <1>21, <1>22, <1>23, <1>24 DEF Added

(* The invariant holds initially. *)
LEMMA InitHolds == Init => IInv
<1> SUFFICES ASSUME Init PROVE IInv
  OBVIOUS
<1> USE DEF Init
<1>1. Types
  BY TokensAssumption, SMT DEF Types
<1>2. \A b \in Blocks : Holders(b) = {}
  <2>1. Range(<<>>) = {}
    BY SMT DEF Range
  <2> QED
    BY <2>1 DEF Holders
<1>3. RefCountExact
  BY <1>2, FS_EmptySet DEF RefCountExact
<1> QED
  BY <1>1, <1>3 DEF IInv, FreeQueueExact, WaitingHasNone

(* Every step of the scheduler, of a client or of the query processor      *)
(* preserves the invariant.                                                *)
LEMMA StepKeeps == IInv /\ [Next]_vars => IInv'
<1> SUFFICES ASSUME IInv, [Next]_vars PROVE IInv'
  OBVIOUS
<1> USE DEF IInv, Types
<1>1. CASE UNCHANGED vars
  BY <1>1 DEF vars, pool, FreeQueueExact, RefCountExact, Holders, WaitingHasNone
<1>2. ASSUME NEW r \in Requests, NEW hit, NEW n \in Int, allocate_slots(r, hit, n),
             \/ status[r] = "running" /\ hit = <<>>
             \/ status[r] = "waiting" /\ hit \in Hits(r),
             status' = [status EXCEPT ![r] = "running"],
             num_tokens' = num_tokens
      PROVE  IInv'
  <2>4. /\ ref_cnt' \in [Blocks -> Nat]
        /\ pinned' \subseteq Blocks
        /\ free' \subseteq Blocks
        /\ req_to_blocks' \in [Requests -> Seq(Blocks)]
        /\ \A q \in Requests \ {r} : req_to_blocks'[q] = req_to_blocks[q]
        /\ num_computed_tokens' \in [Requests -> Int]
        /\ FreeQueueExact' /\ RefCountExact'
    BY <1>2, AllocateKeeps
  <2>5. WaitingHasNone'
    BY <1>2, <2>4 DEF WaitingHasNone
  <2> QED
    BY <1>2, <2>4, <2>5
<1>3. ASSUME NEW r \in Requests, NEW STATE still, still \subseteq pinned,
             pinned \ still \subseteq Range(req_to_blocks[r]),
             free_request(r, still),
             \A q \in Requests \ {r} : status'[q] = status[q],
             status' \in [Requests -> {"waiting", "running", "finished", "aborted"}],
             num_computed_tokens' \in [Requests -> Int], num_tokens' = num_tokens
      PROVE  IInv'
  <2>1. /\ ref_cnt' \in [Blocks -> Nat]
        /\ pinned' \subseteq Blocks
        /\ free' \subseteq Blocks
        /\ req_to_blocks' \in [Requests -> Seq(Blocks)]
        /\ req_to_blocks'[r] = <<>>
        /\ \A q \in Requests \ {r} : req_to_blocks'[q] = req_to_blocks[q]
        /\ FreeQueueExact' /\ RefCountExact'
    BY <1>3, FreeKeeps
  <2>2. WaitingHasNone'
    BY <1>3, <2>1 DEF WaitingHasNone
  <2> QED
    BY <1>3, <2>1, <2>2
<1>4. ASSUME NEW r \in Requests, ScheduleRunning(r) PROVE IInv'
  <2>1. PICK n \in Int, hit \in {<<>>} : allocate_slots(r, hit, n)
    BY <1>4, SMT DEF ScheduleRunning
  <2>2. status[r] = "running" /\ status' = [status EXCEPT ![r] = "running"]
        /\ num_tokens' = num_tokens
    BY <1>4 DEF ScheduleRunning
  <2> QED
    BY <2>1, <2>2, <1>2
<1>5. ASSUME NEW r \in Requests, ScheduleWaiting(r) PROVE IInv'
  <2>1. PICK hit \in Hits(r) :
          \E n \in 1..(num_tokens[r] - Len(hit) * block_size) : allocate_slots(r, hit, n)
    BY <1>5 DEF ScheduleWaiting
  <2>2. PICK n \in Int : allocate_slots(r, hit, n)
    BY <2>1, SMT
  <2>3. status[r] = "waiting" /\ status' = [status EXCEPT ![r] = "running"]
        /\ num_tokens' = num_tokens
    BY <1>5 DEF ScheduleWaiting
  <2> QED
    BY <2>1, <2>2, <2>3, <1>2
<1>6. ASSUME NEW r \in Requests, Preempt(r) PROVE IInv'
  <2>1. /\ free_request(r, pinned) /\ num_tokens' = num_tokens
        /\ num_computed_tokens' = [num_computed_tokens EXCEPT ![r] = 0]
        /\ status' = [status EXCEPT ![r] = "waiting"]
    BY <1>6 DEF Preempt
  <2>2. /\ status' \in [Requests -> {"waiting", "running", "finished", "aborted"}]
        /\ \A q \in Requests \ {r} : status'[q] = status[q]
    BY <2>1
  <2>3. num_computed_tokens' \in [Requests -> Int]
    BY <2>1, SMT
  <2>4. pinned \subseteq pinned /\ pinned \ pinned \subseteq Range(req_to_blocks[r])
    OBVIOUS
  <2> QED
    BY <2>1, <2>2, <2>3, <2>4, <1>3
<1>7. ASSUME NEW r \in Requests, Sample(r) PROVE IInv'
  BY <1>7, SMT DEF Sample, pool, FreeQueueExact, RefCountExact, Holders, WaitingHasNone
<1>8. ASSUME NEW r \in Requests, NEW s \in {"finished", "aborted"}, _free_request(r),
             status' = [status EXCEPT ![r] = s],
             num_computed_tokens' = num_computed_tokens, num_tokens' = num_tokens
      PROVE  IInv'
  <2>1. CASE r \in Pinned
    <3>1. UNCHANGED <<pool, req_to_blocks, num_cached_block>>
      BY <1>8, <2>1 DEF _free_request
    <3> QED
      BY <1>8, <3>1 DEF pool, FreeQueueExact, RefCountExact, Holders, WaitingHasNone
  <2>2. CASE r \notin Pinned
    <3>1. free_request(r, pinned)
      BY <1>8, <2>2 DEF _free_request
    <3> QED
      BY <1>8, <3>1, <1>3
  <2> QED
    BY <2>1, <2>2
<1>9. ASSUME NEW r \in Requests, Finish(r) PROVE IInv'
  <2>1. _free_request(r) /\ status' = [status EXCEPT ![r] = "finished"]
        /\ num_computed_tokens' = num_computed_tokens /\ num_tokens' = num_tokens
    BY <1>9 DEF Finish
  <2> QED
    BY <2>1, <1>8
<1>10. ASSUME NEW r \in Requests, Abort(r) PROVE IInv'
  <2>1. _free_request(r) /\ status' = [status EXCEPT ![r] = "aborted"]
        /\ num_computed_tokens' = num_computed_tokens /\ num_tokens' = num_tokens
    BY <1>10 DEF Abort
  <2> QED
    BY <2>1, <1>8
<1>11. ASSUME NEW r \in Requests, unpin_request(r) PROVE IInv'
  <2> DEFINE still == pinned \ Range(req_to_blocks[r])
  <2>1. /\ free_request(r, still)
        /\ status' = status /\ num_computed_tokens' = num_computed_tokens
        /\ num_tokens' = num_tokens
    BY <1>11 DEF unpin_request
  <2>2. still \subseteq pinned /\ pinned \ still \subseteq Range(req_to_blocks[r])
    OBVIOUS
  <2>3. status' \in [Requests -> {"waiting", "running", "finished", "aborted"}]
    BY <2>1
  <2> HIDE DEF still
  <2> QED
    BY <2>1, <2>2, <2>3, <1>3
<1> QED
  BY <1>1, <1>4, <1>5, <1>6, <1>7, <1>9, <1>10, <1>11 DEF Next

(* BlockPool: the free queue always holds exactly the blocks that are      *)
(* neither referenced nor pinned, whatever is preempted, aborted, finished *)
(* or unpinned, and in whatever order.                                     *)
THEOREM FreeQueueIsExact == Spec => []FreeQueueExact
<1>1. IInv => FreeQueueExact
  BY DEF IInv
<1> QED
  BY <1>1, InitHolds, StepKeeps, PTL DEF Spec

(* KVCacheBlock.ref_cnt is the number of requests that have the block.     *)
THEOREM RefCountIsExact == Spec => []RefCountExact
<1>1. IInv => RefCountExact
  BY DEF IInv
<1> QED
  BY <1>1, InitHolds, StepKeeps, PTL DEF Spec
-----------------------------------------------------------------------------
(***************************************************************************)
(* What the blocks hold.  A block is never cached under two requests'      *)
(* tokens because a block without a hash has one holder, and a request     *)
(* does not have a block twice; a finished pinned request has cached every *)
(* full block because the cached blocks keep up with the computed tokens.  *)
(***************************************************************************)

Counters ==
  /\ num_cached_block \in [Requests -> Nat]
  /\ \A r \in Requests :
       /\ num_tokens[r] \in 1..Len(Tokens[r])
       /\ num_computed_tokens[r] \in 0..num_tokens[r]
       /\ num_cached_block[r] <= Len(req_to_blocks[r])
       /\ num_cached_block[r] <= Len(Tokens[r]) \div block_size
       /\ status[r] = "waiting" => num_cached_block[r] = 0 /\ num_computed_tokens[r] = 0
       /\ status[r] = "running" =>
            num_computed_tokens[r] \div block_size <= num_cached_block[r]
       /\ status[r] = "finished" /\ req_to_blocks[r] # <<>> =>
            Len(Tokens[r]) \div block_size <= num_cached_block[r]

NoRepeats ==
  \A r \in Requests : \A i, j \in DOMAIN req_to_blocks[r] :
    req_to_blocks[r][i] = req_to_blocks[r][j] => i = j

UncachedAlone ==
  \A b \in Blocks : block_hash[b] = None => \A p, q \in Holders(b) : p = q

Places ==
  /\ block_hash \in [Blocks -> Seq(Nat) \cup {None}]
  /\ Counters /\ NoRepeats /\ UncachedAlone /\ BlocksKeepTheirTokens

\* Integer division by the block size is monotonic.
LEMMA DivMono ==
  ASSUME NEW a \in Nat, NEW b \in Nat, NEW k \in Nat \ {0}, a <= b
  PROVE  a \div k \in Nat /\ a \div k <= b \div k
<1> DEFINE p == a \div k
           q == b \div k
<1>1. p \in Nat /\ q \in Nat /\ k * p <= a /\ b < k * q + k
  BY SMT
<1> HIDE DEF p, q
<1>2. ASSUME p >= q + 1 PROVE FALSE
  <2>1. k * p >= k * (q + 1)
    BY <1>1, <1>2, SMT
  <2>2. k * (q + 1) = k * q + k
    BY <1>1, SMT
  <2> QED
    BY <1>1, <2>1, <2>2, SMT
<1>3. p \in Nat /\ p <= q
  BY <1>1, <1>2, SMT
<1> QED
  BY <1>3 DEF p, q

\* The number of full blocks of a request's tokens is a natural number.
LEMMA TokensLen ==
  ASSUME NEW r \in Requests
  PROVE  Len(Tokens[r]) \in Nat /\ Len(Tokens[r]) \div block_size \in Nat
<1>1. Len(Tokens[r]) \in Nat
  BY TokensAssumption, LenProperties
<1> DEFINE l == Len(Tokens[r])
<1>2. l \in Nat /\ l <= l
  BY <1>1, SMT
<1> HIDE DEF l
<1>3. l \in Nat /\ l \div block_size \in Nat
  BY <1>2, SizeAssumption, DivMono
<1> QED
  BY <1>3 DEF l

\* The hash of a block that ends within the tokens says how far it reaches.
LEMMA HashTells ==
  ASSUME NEW r \in Requests, NEW i \in Nat, NEW j \in Nat,
         i <= Len(Tokens[r]) \div block_size, j <= Len(Tokens[r]) \div block_size
  PROVE  /\ Hash(r, i) \in Seq(Nat) /\ Hash(r, i) # None
         /\ Hash(r, i) = Hash(r, j) => i = j
<1> DEFINE s == Tokens[r]
           q == Len(s) \div block_size
<1>1. s \in Seq(Nat) /\ Len(s) \in Nat
  BY TokensAssumption, LenProperties
<1>2. q \in Nat /\ block_size * q <= Len(s)
  <2> DEFINE l == Len(s)
  <2>1. l \in Nat
    BY <1>1
  <2> HIDE DEF l
  <2>2. l \div block_size \in Nat /\ block_size * (l \div block_size) <= l
    BY <2>1, SizeAssumption, SMT
  <2> QED
    BY <2>2 DEF l
<1>3. ASSUME NEW m \in Nat, m <= q
      PROVE  m * block_size \in 0..Len(s)
  <2> HIDE DEF q, s
  <2>1. m * block_size <= q * block_size
    BY <1>2, <1>3, SizeAssumption, SMT
  <2>2. m * block_size \in Nat /\ q * block_size = block_size * q
    BY <1>2, SizeAssumption, SMT
  <2> QED
    BY <1>1, <1>2, <2>1, <2>2, SizeAssumption, SMT
<1>4. i * block_size \in 0..Len(s) /\ j * block_size \in 0..Len(s)
  BY <1>3
<1> HIDE DEF s, q
<1>5. ASSUME NEW m \in 0..Len(s)
      PROVE  SubSeq(s, 1, m) \in Seq(Nat) /\ Len(SubSeq(s, 1, m)) = m
  BY <1>1, SMT
<1>6. /\ SubSeq(s, 1, i * block_size) \in Seq(Nat)
      /\ Len(SubSeq(s, 1, i * block_size)) = i * block_size
      /\ Len(SubSeq(s, 1, j * block_size)) = j * block_size
  BY <1>4, <1>5
<1>7. i * block_size = j * block_size => i = j
  BY SizeAssumption, SMT
<1> QED
  BY <1>6, <1>7, NoneAssumption DEF Hash, s

\* A block some request has is referenced, and so not in the free queue.
LEMMA HeldNotFree ==
  ASSUME IInv, NEW r \in Requests, NEW b \in Range(req_to_blocks[r])
  PROVE  b \in Blocks /\ r \in Holders(b) /\ ref_cnt[b] # 0 /\ b \notin free
<1>1. req_to_blocks[r] \in Seq(Blocks)
  BY DEF IInv, Types
<1>2. b \in Blocks
  BY <1>1, RangeOfSeq
<1>3. r \in Holders(b)
  BY DEF Holders
<1>4. Cardinality(Holders(b)) # 0
  BY <1>3, HoldersFinite, RemoveHolder
<1> QED
  BY <1>2, <1>3, <1>4 DEF IInv, RefCountExact, FreeQueueExact

\* What a lookup finds carries the hashes of the request's first tokens.
LEMMA HitsCarry ==
  ASSUME IInv, Places, NEW r \in Requests, NEW hit \in Hits(r)
  PROVE  /\ hit \in Seq(Blocks) /\ Len(hit) \in Nat
         /\ Len(hit) <= Len(Tokens[r]) \div block_size
         /\ \A j \in 1..Len(hit) : block_hash[hit[j]] = Hash(r, j)
<1>1. /\ num_tokens[r] - 1 \in Nat /\ Len(Tokens[r]) \in Nat
      /\ num_tokens[r] - 1 <= Len(Tokens[r])
  <2>1. Len(Tokens[r]) \in Nat
    BY TokensAssumption, LenProperties
  <2> QED
    BY <2>1, SMT DEF Places, Counters
<1>2. HitsAtMost(r) \in Nat /\ HitsAtMost(r) <= Len(Tokens[r]) \div block_size
  BY <1>1, SizeAssumption, DivMono DEF HitsAtMost
<1>3. PICK m \in 0..HitsAtMost(r) : hit \in [1..m -> Blocks] /\ IsHit(r, hit)
  BY DEF Hits
<1>4. m \in Nat /\ m <= HitsAtMost(r)
  BY <1>2, <1>3, SMT
<1>5. hit \in Seq(Blocks) /\ Len(hit) = m /\ DOMAIN hit = 1..m
  BY <1>3, <1>4, SMT
<1>6. Len(Tokens[r]) \div block_size \in Int
  BY <1>1, SizeAssumption, SMT
<1>7. Len(hit) <= Len(Tokens[r]) \div block_size
  BY <1>2, <1>4, <1>5, <1>6, SMT
<1> QED
  BY <1>3, <1>4, <1>5, <1>7 DEF IsHit

\* The blocks a request has or finds before it is given new ones: no block twice, the
\* first `cached` of them carry its hashes, the others none and are its own, and none
\* is among the blocks it may be given.
LEMMA FirstBlocks ==
  ASSUME IInv, Places, NEW r \in Requests, NEW hit,
         \/ status[r] = "running" /\ hit = <<>>
         \/ status[r] = "waiting" /\ hit \in Hits(r),
         NEW first, first = req_to_blocks[r] \o hit,
         NEW cached, cached = num_cached_block[r] + Len(hit)
  PROVE  /\ first \in Seq(Blocks) /\ Len(first) = Len(req_to_blocks[r]) + Len(hit)
         /\ cached \in Nat /\ cached <= Len(first)
         /\ cached <= Len(Tokens[r]) \div block_size
         /\ \A i, j \in 1..Len(first) : first[i] = first[j] => i = j
         /\ \A j \in 1..Len(first) :
              block_hash[first[j]] = IF j <= cached THEN Hash(r, j) ELSE None
         /\ \A j \in 1..Len(first) : j > cached => first[j] \in Range(req_to_blocks[r])
         /\ \A j \in 1..Len(first) : first[j] \notin free \ Touched(hit)
<1>1. /\ req_to_blocks[r] \in Seq(Blocks) /\ Len(req_to_blocks[r]) \in Nat
      /\ num_cached_block[r] \in Nat /\ num_cached_block[r] <= Len(req_to_blocks[r])
      /\ num_cached_block[r] <= Len(Tokens[r]) \div block_size
  BY LenProperties DEF IInv, Types, Places, Counters
<1>2. CASE status[r] = "running" /\ hit = <<>>
  <2>1. first = req_to_blocks[r] /\ cached = num_cached_block[r] /\ Len(hit) = 0
    BY <1>1, <1>2, SMT
  <2>2. DOMAIN first = 1..Len(first)
    BY <1>1, <2>1, SMT
  <2>3. \A j \in 1..Len(first) : first[j] \in Range(req_to_blocks[r])
    BY <2>1, <2>2 DEF Range
  <2>4. \A j \in 1..Len(first) : first[j] \notin free
    BY <2>3, HeldNotFree
  <2> QED
    BY <1>1, <2>1, <2>2, <2>3, <2>4, SMT DEF Places, NoRepeats, BlocksKeepTheirTokens
<1>3. CASE status[r] = "waiting" /\ hit \in Hits(r)
  <2>1. req_to_blocks[r] = <<>> /\ num_cached_block[r] = 0
    BY <1>3 DEF IInv, WaitingHasNone, Places, Counters
  <2>2. /\ hit \in Seq(Blocks) /\ Len(hit) \in Nat
        /\ Len(hit) <= Len(Tokens[r]) \div block_size
        /\ \A j \in 1..Len(hit) : block_hash[hit[j]] = Hash(r, j)
    BY <1>3, HitsCarry
  <2>3. first = hit /\ cached = Len(hit) /\ Len(req_to_blocks[r]) = 0
    BY <2>1, <2>2, SMT
  <2>4. DOMAIN hit = 1..Len(hit)
    BY <2>2, SMT
  <2>5. \A j \in 1..Len(hit) : hit[j] \notin free \ Touched(hit)
    <3> TAKE j \in 1..Len(hit)
    <3>1. hit[j] \in Range(hit) /\ hit[j] \in Blocks
      BY <2>2, <2>4, SMT DEF Range
    <3> QED
      BY <3>1 DEF Touched, IInv, FreeQueueExact
  <2>6. \A i, j \in 1..Len(hit) : hit[i] = hit[j] => i = j
    <3> TAKE i, j \in 1..Len(hit)
    <3> HAVE hit[i] = hit[j]
    <3>1. Hash(r, i) = Hash(r, j)
      BY <2>2
    <3>2. Len(Tokens[r]) \div block_size \in Int
      BY TokensLen, SMT
    <3>3. i \in Nat /\ j \in Nat /\ i <= Len(Tokens[r]) \div block_size
          /\ j <= Len(Tokens[r]) \div block_size
      BY <2>2, <3>2, SMT
    <3> QED
      BY <3>1, <3>3, HashTells
  <2> QED
    BY <2>2, <2>3, <2>5, <2>6, SMT
<1> QED
  BY <1>2, <1>3

\* What allocate_slots leaves: the blocks of the request carry its hashes as far as it
\* has cached them, those it caches now were its own, and no one else's block changes.
LEMMA GivenBlocks ==
  ASSUME IInv, Places, NEW r \in Requests, NEW hit,
         \/ status[r] = "running" /\ hit = <<>>
         \/ status[r] = "waiting" /\ hit \in Hits(r),
         NEW n \in 1..(num_tokens[r] - num_computed_tokens[r] - Len(hit) * block_size),
         allocate_slots(r, hit, n)
  PROVE  \E blocks \in Seq(Blocks), cached \in Nat, computed \in Nat, full \in Nat :
           /\ req_to_blocks' = [req_to_blocks EXCEPT ![r] = blocks]
           /\ num_cached_block' = [num_cached_block EXCEPT ![r] =
                                     IF full > cached THEN full ELSE cached]
           /\ num_computed_tokens' = [num_computed_tokens EXCEPT ![r] = computed]
           /\ computed <= num_tokens[r] /\ full = computed \div block_size
           /\ cached <= Len(blocks) /\ cached <= Len(Tokens[r]) \div block_size
           /\ full <= Len(blocks) /\ full <= Len(Tokens[r]) \div block_size
           /\ \A i, j \in 1..Len(blocks) : blocks[i] = blocks[j] => i = j
           /\ \A j \in 1..Len(blocks) : j > cached => Holders(blocks[j]) \subseteq {r}
           /\ \A j \in 1..Len(blocks) :
                block_hash'[blocks[j]] = IF j <= cached \/ j <= full THEN Hash(r, j) ELSE None
           /\ \A b \in Blocks \ Range(blocks) : block_hash'[b] = block_hash[b]
           /\ \A q \in Requests \ {r} : \A b \in Range(req_to_blocks[q]) :
                block_hash'[b] = block_hash[b]
           /\ block_hash' = [b \in Blocks |-> block_hash'[b]]
<1> DEFINE first == req_to_blocks[r] \o hit
           cached == num_cached_block[r] + Len(hit)
           computed == num_computed_tokens[r] + Len(hit) * block_size + n
           full == computed \div block_size
<1>1. /\ hit \in Seq(Blocks) /\ Len(hit) \in Nat
      /\ req_to_blocks[r] \in Seq(Blocks) /\ Len(req_to_blocks[r]) \in Nat
  BY HitIsSeq
<1>2. /\ computed \in Nat /\ computed <= num_tokens[r]
      /\ num_tokens[r] \in Nat /\ Len(Tokens[r]) \in Nat /\ computed <= Len(Tokens[r])
      /\ n \in Int
  <2> DEFINE h == Len(hit) * block_size
  <2>1. h \in Nat
    BY <1>1, SizeAssumption, SMT
  <2>2. Len(Tokens[r]) \in Nat
    BY TokensAssumption, LenProperties
  <2>3. num_tokens[r] \in 1..Len(Tokens[r]) /\ num_computed_tokens[r] \in 0..num_tokens[r]
    BY DEF Places, Counters
  <2>4. n \in 1..(num_tokens[r] - num_computed_tokens[r] - h) /\ computed = num_computed_tokens[r] + h + n
    OBVIOUS
  <2> DEFINE tokens == num_tokens[r]
             all == Len(Tokens[r])
             before == num_computed_tokens[r]
  <2>5. /\ h \in Nat /\ all \in Nat /\ tokens \in 1..all /\ before \in 0..tokens
        /\ n \in 1..(tokens - before - h) /\ computed = before + h + n
    BY <2>1, <2>2, <2>3, <2>4
  <2> HIDE DEF h, computed, tokens, all, before
  <2>6. computed \in Nat /\ computed <= tokens /\ tokens \in Nat /\ computed <= all /\ n \in Int
    BY <2>5, SMT
  <2> QED
    BY <2>2, <2>6 DEF tokens, all
<1>3. LesserOf(computed, num_tokens[r]) = computed
  BY <1>2 DEF LesserOf
<1>4. PICK new \in [1..NewBlocks(r, hit, n) -> free \ Touched(hit)] :
        /\ \A i, j \in DOMAIN new : i # j => new[i] # new[j]
        /\ block_hash' = Cached(r, first \o new, cached + 1, full, Evicted(new))
        /\ req_to_blocks' = [req_to_blocks EXCEPT ![r] = first \o new]
        /\ num_cached_block' = [num_cached_block EXCEPT ![r] =
                                  IF full > cached THEN full ELSE cached]
        /\ num_computed_tokens' = [num_computed_tokens EXCEPT ![r] = computed]
  BY <1>3 DEF allocate_slots
<1> DEFINE blocks == first \o new
<1>5. /\ NewBlocks(r, hit, n) \in Nat
      /\ new \in Seq(Blocks) /\ Len(new) = NewBlocks(r, hit, n)
      /\ Range(new) \subseteq free \ Touched(hit)
      /\ DOMAIN new = 1..Len(new)
  BY <1>1, <1>2, <1>4, NewIsSeq
<1>6. /\ first \in Seq(Blocks) /\ Len(first) = Len(req_to_blocks[r]) + Len(hit)
      /\ cached \in Nat /\ cached <= Len(first)
      /\ cached <= Len(Tokens[r]) \div block_size
      /\ \A i, j \in 1..Len(first) : first[i] = first[j] => i = j
      /\ \A j \in 1..Len(first) :
           block_hash[first[j]] = IF j <= cached THEN Hash(r, j) ELSE None
      /\ \A j \in 1..Len(first) : j > cached => first[j] \in Range(req_to_blocks[r])
      /\ \A j \in 1..Len(first) : first[j] \notin free \ Touched(hit)
  BY FirstBlocks
<1>7. /\ full \in Nat /\ full <= Len(Tokens[r]) \div block_size
      /\ full <= Required(r, hit, n) /\ Required(r, hit, n) \in Nat
  <2> DEFINE up == computed + block_size - 1
  <2>1. up \in Nat /\ computed <= up
    BY <1>2, SizeAssumption, SMT
  <2>2. Required(r, hit, n) = up \div block_size
    BY DEF Required, cdiv
  <2> HIDE DEF computed, up
  <2>3. computed \div block_size \in Nat /\ computed \div block_size <= up \div block_size
    BY <1>2, <2>1, SizeAssumption, DivMono
  <2>4. computed \div block_size <= Len(Tokens[r]) \div block_size
    BY <1>2, SizeAssumption, DivMono
  <2>5. up \div block_size \in Nat
    BY <2>1, SizeAssumption, DivMono, SMT
  <2> QED
    BY <2>2, <2>3, <2>4, <2>5
<1> HIDE DEF first, cached, computed, full
<1>8. /\ blocks \in Seq(Blocks) /\ Len(blocks) = Len(first) + Len(new)
      /\ Len(first) \in Nat /\ Len(new) \in Nat /\ DOMAIN blocks = 1..Len(blocks)
      /\ \A j \in 1..Len(blocks) : j <= Len(first) => blocks[j] = first[j]
      /\ \A j \in 1..Len(blocks) : j > Len(first) => blocks[j] = new[j - Len(first)]
  <2>1. Len(first) \in Nat /\ Len(new) \in Nat
    BY <1>5, <1>6, LenProperties
  <2>2. blocks \in Seq(Blocks) /\ Len(blocks) = Len(first) + Len(new)
    BY <1>5, <1>6, ConcatProperties
  <2>3. DOMAIN blocks = 1..Len(blocks)
    BY <2>2, LenProperties
  <2>4. \A j \in 1..(Len(first) + Len(new)) :
          blocks[j] = IF j <= Len(first) THEN first[j] ELSE new[j - Len(first)]
    <3>1. first \in Seq(Blocks) /\ new \in Seq(Blocks)
      BY <1>5, <1>6
    <3> QED
      BY <3>1, ConcatProperties
  <2> HIDE DEF blocks
  <2>5. \A j \in 1..Len(blocks) : j > Len(first) => ~(j <= Len(first))
    BY <2>1, SMT
  <2> QED
    BY <2>1, <2>2, <2>3, <2>4, <2>5
<1> HIDE DEF blocks
<1>9. full <= Len(blocks) /\ cached <= Len(blocks)
  <2>1. Len(new) >= Required(r, hit, n) - Len(hit) - Len(req_to_blocks[r])
    BY <1>1, <1>5, <1>7, SMT DEF NewBlocks
  <2>2. /\ Len(first) = Len(req_to_blocks[r]) + Len(hit) /\ Len(blocks) = Len(first) + Len(new)
        /\ Len(new) \in Nat /\ Len(hit) \in Nat /\ Len(req_to_blocks[r]) \in Nat
        /\ full \in Nat /\ cached \in Nat /\ cached <= Len(first)
        /\ Required(r, hit, n) \in Nat /\ full <= Required(r, hit, n)
    BY <1>1, <1>6, <1>7, <1>8
  <2> QED
    BY <2>1, <2>2, SMT
<1>10. ASSUME NEW j \in 1..Len(blocks), j > Len(first)
       PROVE  /\ j - Len(first) \in 1..Len(new) /\ blocks[j] = new[j - Len(first)]
              /\ blocks[j] \in Range(new) /\ blocks[j] \in free \ Touched(hit)
  <2>1. j - Len(first) \in 1..Len(new) /\ blocks[j] = new[j - Len(first)]
    BY <1>8, <1>10, SMT
  <2>2. new[j - Len(first)] \in Range(new)
    BY <2>1, <1>5 DEF Range
  <2> QED
    BY <2>1, <2>2, <1>5
<1>11. ASSUME NEW j \in 1..Len(blocks), j <= Len(first)
       PROVE  /\ j \in 1..Len(first) /\ blocks[j] = first[j]
              /\ blocks[j] \notin free \ Touched(hit)
  BY <1>6, <1>8, <1>11, SMT
<1>12. \A i, j \in 1..Len(blocks) : blocks[i] = blocks[j] => i = j
  <2> TAKE i, j \in 1..Len(blocks)
  <2> HAVE blocks[i] = blocks[j]
  <2>1. CASE i <= Len(first) /\ j <= Len(first)
    BY <2>1, <1>6, <1>11
  <2>2. CASE i > Len(first) /\ j > Len(first)
    <3>1. /\ i - Len(first) \in DOMAIN new /\ j - Len(first) \in DOMAIN new
          /\ new[i - Len(first)] = new[j - Len(first)]
      BY <2>2, <1>5, <1>10
    <3>2. i - Len(first) = j - Len(first)
      BY <3>1, <1>4
    <3> QED
      BY <3>2, <1>8, SMT
  <2>3. CASE i <= Len(first) /\ j > Len(first)
    BY <2>3, <1>10, <1>11
  <2>4. CASE i > Len(first) /\ j <= Len(first)
    BY <2>4, <1>10, <1>11
  <2> QED
    BY <2>1, <2>2, <2>3, <2>4, <1>8, SMT
<1>13. \A j \in 1..Len(blocks) : j > cached => Holders(blocks[j]) \subseteq {r}
  <2> SUFFICES ASSUME NEW j \in 1..Len(blocks), j > cached
               PROVE  Holders(blocks[j]) \subseteq {r}
    OBVIOUS
  <2>1. CASE j <= Len(first)
    <3>1. /\ blocks[j] = first[j] /\ first[j] \in Range(req_to_blocks[r])
          /\ block_hash[first[j]] = None
      BY <2>1, <1>6, <1>11, SMT
    <3>2. first[j] \in Blocks /\ r \in Holders(first[j])
      BY <3>1, HeldNotFree
    <3> QED
      BY <3>1, <3>2 DEF Places, UncachedAlone
  <2>2. CASE j > Len(first)
    <3>1. blocks[j] \in free
      BY <2>2, <1>10
    <3>2. \A q \in Requests : blocks[j] \notin Range(req_to_blocks[q])
      BY <3>1, HeldNotFree
    <3> QED
      BY <3>2 DEF Holders
  <2> QED
    BY <2>1, <2>2, <1>8, SMT
<1>14. block_hash' = [b \in Blocks |->
          IF \E j \in (cached + 1)..full : blocks[j] = b
          THEN Hash(r, CHOOSE j \in (cached + 1)..full : blocks[j] = b)
          ELSE IF b \in Range(new) /\ b \notin pinned THEN None ELSE block_hash[b]]
  BY <1>4 DEF Cached, Evicted, blocks
<1>15. \A j \in 1..Len(blocks) :
         block_hash'[blocks[j]] = IF j <= cached \/ j <= full THEN Hash(r, j) ELSE None
  <2> TAKE j \in 1..Len(blocks)
  <2>0. j \in Nat /\ blocks[j] \in Blocks
    BY <1>8, SMT
  <2>a. /\ cached \in Nat /\ full \in Nat /\ Len(first) \in Nat
        /\ cached <= Len(first) /\ full <= Len(blocks) /\ Len(blocks) \in Nat
    BY <1>6, <1>7, <1>8, <1>9, SMT
  <2>1. ASSUME j > cached, j <= full PROVE block_hash'[blocks[j]] = Hash(r, j)
    <3>1. j \in (cached + 1)..full
      BY <2>0, <2>1, <2>a, SMT
    <3>2. \A i \in (cached + 1)..full : i \in 1..Len(blocks)
      BY <2>a, SMT
    <3>3. (CHOOSE i \in (cached + 1)..full : blocks[i] = blocks[j]) = j
      BY <3>1, <3>2, <1>12
    <3> QED
      BY <3>1, <3>3, <2>0, <1>14
  <2>2. ASSUME j <= cached \/ j > full
        PROVE  block_hash'[blocks[j]] =
                 IF blocks[j] \in Range(new) /\ blocks[j] \notin pinned
                 THEN None ELSE block_hash[blocks[j]]
    <3>1. \A i \in (cached + 1)..full : i \in 1..Len(blocks) /\ i # j
      BY <2>0, <2>2, <2>a, SMT
    <3>2. ~\E i \in (cached + 1)..full : blocks[i] = blocks[j]
      BY <3>1, <1>12
    <3> QED
      BY <3>2, <2>0, <1>14
  <2>3. CASE j > cached /\ j <= full
    BY <2>1, <2>3
  <2>4. CASE (j <= cached \/ j > full) /\ j <= Len(first)
    <3>1. /\ blocks[j] = first[j] /\ blocks[j] \notin Range(new)
          /\ block_hash[first[j]] = IF j <= cached THEN Hash(r, j) ELSE None
      BY <2>4, <1>5, <1>6, <1>11
    <3>2. block_hash'[blocks[j]] = IF j <= cached THEN Hash(r, j) ELSE None
      BY <2>2, <2>4, <3>1
    <3>3. (j <= cached \/ j <= full) <=> j <= cached
      BY <2>0, <2>4, <2>a, SMT
    <3> QED
      BY <3>2, <3>3
  <2>5. CASE (j <= cached \/ j > full) /\ j > Len(first)
    <3>1. blocks[j] \in Range(new) /\ blocks[j] \notin pinned
      BY <2>5, <1>10 DEF IInv, FreeQueueExact
    <3>2. block_hash'[blocks[j]] = None
      BY <2>2, <2>5, <3>1
    <3>3. ~(j <= cached \/ j <= full)
      BY <2>0, <2>5, <2>a, SMT
    <3> QED
      BY <3>2, <3>3
  <2> QED
    BY <2>0, <2>3, <2>4, <2>5, <2>a, SMT
<1>16. ASSUME NEW b \in Blocks, b \notin Range(new),
              \A j \in 1..Len(blocks) : j > cached => blocks[j] # b
       PROVE  block_hash'[b] = block_hash[b]
  <2>1. \A i \in (cached + 1)..full : i \in 1..Len(blocks) /\ i > cached
    BY <1>6, <1>7, <1>8, <1>9, SMT
  <2>2. ~\E i \in (cached + 1)..full : blocks[i] = b
    BY <2>1, <1>16
  <2> QED
    BY <2>2, <1>14, <1>16
<1>17. ASSUME NEW b \in Blocks \ Range(blocks) PROVE block_hash'[b] = block_hash[b]
  <2>1. \A j \in 1..Len(blocks) : blocks[j] # b
    BY <1>8, <1>17 DEF Range
  <2>2. Range(blocks) = Range(first) \cup Range(new)
    BY <1>5, <1>6, RangeConcatenation, SMT DEF blocks
  <2> QED
    BY <2>1, <2>2, <1>16
<1>18. ASSUME NEW q \in Requests \ {r}, NEW b \in Range(req_to_blocks[q])
       PROVE  block_hash'[b] = block_hash[b]
  <2>1. b \in Blocks /\ q \in Holders(b) /\ b \notin free
    BY HeldNotFree
  <2>2. b \notin Range(new)
    BY <2>1, <1>5
  <2>3. \A j \in 1..Len(blocks) : j > cached => blocks[j] # b
    BY <2>1, <1>13
  <2> QED
    BY <2>1, <2>2, <2>3, <1>16
<1>19. block_hash' = [b \in Blocks |-> block_hash'[b]]
  BY <1>14
<1>20. /\ req_to_blocks' = [req_to_blocks EXCEPT ![r] = blocks]
       /\ full = computed \div block_size
  BY <1>4 DEF blocks, full
<1> QED
  BY <1>2, <1>4, <1>6, <1>7, <1>8, <1>9, <1>12, <1>13, <1>15, <1>17, <1>18, <1>19, <1>20

\* allocate_slots, for a running or a waiting request, keeps the blocks' places.
LEMMA AllocateKeepsPlaces ==
  ASSUME IInv, Places, NEW r \in Requests, NEW hit,
         \/ status[r] = "running" /\ hit = <<>>
         \/ status[r] = "waiting" /\ hit \in Hits(r),
         NEW n \in 1..(num_tokens[r] - num_computed_tokens[r] - Len(hit) * block_size),
         allocate_slots(r, hit, n),
         status' = [status EXCEPT ![r] = "running"], num_tokens' = num_tokens
  PROVE  Places'
<1>0. /\ req_to_blocks \in [Requests -> Seq(Blocks)]
      /\ status \in [Requests -> {"waiting", "running", "finished", "aborted"}]
      /\ num_computed_tokens \in [Requests -> Int] /\ num_cached_block \in [Requests -> Nat]
  BY DEF IInv, Types, Places, Counters
<1>1. PICK blocks \in Seq(Blocks), cached \in Nat, computed \in Nat, full \in Nat :
        /\ req_to_blocks' = [req_to_blocks EXCEPT ![r] = blocks]
        /\ num_cached_block' = [num_cached_block EXCEPT ![r] =
                                  IF full > cached THEN full ELSE cached]
        /\ num_computed_tokens' = [num_computed_tokens EXCEPT ![r] = computed]
        /\ computed <= num_tokens[r] /\ full = computed \div block_size
        /\ cached <= Len(blocks) /\ cached <= Len(Tokens[r]) \div block_size
        /\ full <= Len(blocks) /\ full <= Len(Tokens[r]) \div block_size
        /\ \A i, j \in 1..Len(blocks) : blocks[i] = blocks[j] => i = j
        /\ \A j \in 1..Len(blocks) : j > cached => Holders(blocks[j]) \subseteq {r}
        /\ \A j \in 1..Len(blocks) :
             block_hash'[blocks[j]] = IF j <= cached \/ j <= full THEN Hash(r, j) ELSE None
        /\ \A b \in Blocks \ Range(blocks) : block_hash'[b] = block_hash[b]
        /\ \A q \in Requests \ {r} : \A b \in Range(req_to_blocks[q]) :
             block_hash'[b] = block_hash[b]
        /\ block_hash' = [b \in Blocks |-> block_hash'[b]]
  BY GivenBlocks
<1> DEFINE top == IF full > cached THEN full ELSE cached
<1>2. /\ req_to_blocks'[r] = blocks /\ num_cached_block'[r] = top
      /\ num_computed_tokens'[r] = computed /\ status'[r] = "running"
      /\ num_tokens'[r] = num_tokens[r]
      /\ \A q \in Requests \ {r} :
           /\ req_to_blocks'[q] = req_to_blocks[q] /\ num_cached_block'[q] = num_cached_block[q]
           /\ num_computed_tokens'[q] = num_computed_tokens[q] /\ status'[q] = status[q]
           /\ num_tokens'[q] = num_tokens[q]
  BY <1>0, <1>1
<1>3. /\ top \in Nat /\ top >= full /\ top <= Len(blocks)
      /\ top <= Len(Tokens[r]) \div block_size
      /\ \A j \in Nat : (j <= cached \/ j <= full) <=> j <= top
  BY <1>1, SMT
<1>4. Len(blocks) \in Nat /\ DOMAIN blocks = 1..Len(blocks)
  BY <1>1, LenProperties
<1> HIDE DEF top
<1>5. Counters'
  <2>1. num_cached_block' \in [Requests -> Nat]
    BY <1>0, <1>1
  <2>2. num_tokens[r] \in 1..Len(Tokens[r]) /\ computed \in 0..num_tokens[r]
    BY <1>1, SMT DEF Places, Counters
  <2>3. computed \div block_size <= top
    BY <1>1, <1>3
  <2> QED
    BY <1>2, <1>3, <2>1, <2>2, <2>3 DEF Places, Counters
<1>6. NoRepeats'
  BY <1>1, <1>2, <1>4, SMT DEF Places, NoRepeats
<1>7. ASSUME NEW j \in 1..Len(blocks)
      PROVE  /\ block_hash'[blocks[j]] = IF j <= top THEN Hash(r, j) ELSE None
             /\ j <= top => Hash(r, j) \in Seq(Nat) /\ Hash(r, j) # None
  <2>1. j \in Nat /\ Len(Tokens[r]) \div block_size \in Int
    BY <1>4, TokensLen, SMT
  <2>2. j <= top => j <= Len(Tokens[r]) \div block_size
    BY <2>1, <1>3, SMT
  <2>3. j <= top => Hash(r, j) \in Seq(Nat) /\ Hash(r, j) # None
    BY <2>1, <2>2, HashTells
  <2> QED
    BY <2>1, <2>3, <1>1, <1>3
<1>8. BlocksKeepTheirTokens'
  <2> SUFFICES ASSUME NEW q \in Requests, NEW j \in DOMAIN req_to_blocks'[q]
               PROVE  block_hash'[req_to_blocks'[q][j]] =
                        IF j <= num_cached_block'[q] THEN Hash(q, j) ELSE None
    BY DEF BlocksKeepTheirTokens, Hash
  <2>1. CASE q = r
    BY <2>1, <1>2, <1>4, <1>7
  <2>2. CASE q # r
    <3>1. req_to_blocks[q][j] \in Range(req_to_blocks[q])
      BY <2>2, <1>2 DEF Range
    <3>2. block_hash'[req_to_blocks[q][j]] = block_hash[req_to_blocks[q][j]]
      BY <2>2, <3>1, <1>1
    <3> QED
      BY <2>2, <3>2, <1>2 DEF Places, BlocksKeepTheirTokens
  <2> QED
    BY <2>1, <2>2
<1>9. UncachedAlone'
  <2> SUFFICES ASSUME NEW b \in Blocks, block_hash'[b] = None,
                      NEW p \in Holders(b)', NEW q \in Holders(b)'
               PROVE  p = q
    BY DEF UncachedAlone
  <2>1. \A x \in Requests \ {r} : x \in Holders(b)' <=> x \in Holders(b)
    BY <1>2 DEF Holders
  <2>2. p \in Requests /\ q \in Requests
    BY DEF Holders
  <2>3. CASE b \in Range(blocks)
    <3>1. PICK j \in 1..Len(blocks) : blocks[j] = b
      BY <2>3, <1>4 DEF Range
    <3>2. ~(j <= top)
      BY <3>1, <1>7
    <3>3. j > cached
      BY <3>1, <3>2, <1>1, <1>3, <1>4, SMT
    <3>4. Holders(b) \subseteq {r}
      BY <3>1, <3>3, <1>1
    <3> QED
      BY <3>4, <2>1, <2>2, SMT
  <2>4. CASE b \notin Range(blocks)
    <3>1. p # r /\ q # r
      BY <2>4, <1>2 DEF Holders
    <3>2. p \in Holders(b) /\ q \in Holders(b)
      BY <3>1, <2>1, <2>2
    <3>3. block_hash[b] = None
      BY <2>4, <1>1
    <3> QED
      BY <3>2, <3>3 DEF Places, UncachedAlone
  <2> QED
    BY <2>3, <2>4
<1>10. block_hash' \in [Blocks -> Seq(Nat) \cup {None}]
  <2>1. ASSUME NEW b \in Blocks PROVE block_hash'[b] \in Seq(Nat) \cup {None}
    <3>1. CASE b \in Range(blocks)
      <4>1. PICK j \in 1..Len(blocks) : blocks[j] = b
        BY <3>1, <1>4 DEF Range
      <4> QED
        BY <4>1, <1>7
    <3>2. CASE b \notin Range(blocks)
      <4>1. block_hash[b] \in Seq(Nat) \cup {None}
        BY DEF Places
      <4> QED
        BY <3>2, <4>1, <1>1
    <3> QED
      BY <3>1, <3>2
  <2> QED
    BY <2>1, <1>1
<1> QED
  BY <1>5, <1>6, <1>8, <1>9, <1>10 DEF Places

\* KVCacheManager.free keeps the places of the others' blocks.
LEMMA FreeKeepsPlaces ==
  ASSUME IInv, Places, NEW r \in Requests, NEW STATE still, free_request(r, still),
         num_tokens' = num_tokens,
         \A q \in Requests \ {r} :
           status'[q] = status[q] /\ num_computed_tokens'[q] = num_computed_tokens[q],
         status'[r] # "running",
         num_computed_tokens'[r] \in 0..num_tokens[r],
         status'[r] = "waiting" => num_computed_tokens'[r] = 0
  PROVE  Places'
<1>1. /\ req_to_blocks \in [Requests -> Seq(Blocks)] /\ num_cached_block \in [Requests -> Nat]
      /\ block_hash' = block_hash
      /\ req_to_blocks' = [req_to_blocks EXCEPT ![r] = <<>>]
      /\ num_cached_block' = [num_cached_block EXCEPT ![r] = 0]
  BY DEF IInv, Types, Places, Counters, free_request
<1>2. /\ req_to_blocks'[r] = <<>> /\ num_cached_block'[r] = 0
      /\ \A q \in Requests \ {r} :
           req_to_blocks'[q] = req_to_blocks[q] /\ num_cached_block'[q] = num_cached_block[q]
  BY <1>1
<1>3. Len(<<>>) = 0 /\ DOMAIN <<>> = {} /\ Range(<<>>) = {}
  BY SMT DEF Range
<1>4. 0 <= Len(Tokens[r]) \div block_size
  BY TokensLen, SMT
<1>5. Counters'
  <2>1. num_cached_block' \in [Requests -> Nat]
    BY <1>1
  <2> QED
    BY <1>2, <1>3, <1>4, <2>1, SMTT(30) DEF Places, Counters
<1>6. NoRepeats'
  BY <1>2, <1>3 DEF Places, NoRepeats
<1>7. BlocksKeepTheirTokens'
  <2> SUFFICES ASSUME NEW q \in Requests, NEW j \in DOMAIN req_to_blocks'[q]
               PROVE  block_hash'[req_to_blocks'[q][j]] =
                        IF j <= num_cached_block'[q] THEN Hash(q, j) ELSE None
    BY DEF BlocksKeepTheirTokens, Hash
  <2>1. q # r
    BY <1>2, <1>3
  <2> QED
    BY <2>1, <1>1, <1>2 DEF Places, BlocksKeepTheirTokens
<1>8. UncachedAlone'
  <2>1. \A b \in Blocks : Holders(b)' \subseteq Holders(b)
    BY <1>2, <1>3 DEF Holders
  <2> QED
    BY <2>1, <1>1 DEF Places, UncachedAlone
<1> QED
  BY <1>1, <1>5, <1>6, <1>7, <1>8 DEF Places

\* Every step keeps the blocks' places.
LEMMA StepKeepsPlaces == IInv /\ Places /\ [Next]_vars => Places'
<1> SUFFICES ASSUME IInv, Places, [Next]_vars PROVE Places'
  OBVIOUS
<1>0. /\ status \in [Requests -> {"waiting", "running", "finished", "aborted"}]
      /\ num_computed_tokens \in [Requests -> Int] /\ num_tokens \in [Requests -> Int]
  BY DEF IInv, Types
<1>1. CASE UNCHANGED vars
  BY <1>1, SMT DEF vars, pool, Places, Counters, NoRepeats, UncachedAlone, Holders,
              BlocksKeepTheirTokens, Hash
<1>2. ASSUME NEW r \in Requests, ScheduleRunning(r) PROVE Places'
  <2>1. Len(<<>>) * block_size = 0 /\ num_tokens[r] \in Int /\ num_computed_tokens[r] \in Int
    BY <1>0, SizeAssumption, SMT
  <2>2. PICK n \in 1..(num_tokens[r] - num_computed_tokens[r]) : allocate_slots(r, <<>>, n)
    BY <1>2 DEF ScheduleRunning
  <2>3. n \in 1..(num_tokens[r] - num_computed_tokens[r] - Len(<<>>) * block_size)
    BY <2>1, <2>2, SMT
  <2>4. /\ status[r] = "running" /\ status' = [status EXCEPT ![r] = "running"]
        /\ num_tokens' = num_tokens
    BY <1>0, <1>2 DEF ScheduleRunning
  <2> QED
    BY <2>2, <2>3, <2>4, AllocateKeepsPlaces
<1>3. ASSUME NEW r \in Requests, ScheduleWaiting(r) PROVE Places'
  <2>1. PICK hit \in Hits(r) :
          \E n \in 1..(num_tokens[r] - Len(hit) * block_size) : allocate_slots(r, hit, n)
    BY <1>3 DEF ScheduleWaiting
  <2>2. PICK n \in 1..(num_tokens[r] - Len(hit) * block_size) : allocate_slots(r, hit, n)
    BY <2>1
  <2>3. /\ status[r] = "waiting" /\ status' = [status EXCEPT ![r] = "running"]
        /\ num_tokens' = num_tokens
    BY <1>3 DEF ScheduleWaiting
  <2>4. num_computed_tokens[r] = 0
    BY <2>3 DEF Places, Counters
  <2>5. n \in 1..(num_tokens[r] - num_computed_tokens[r] - Len(hit) * block_size)
    <3>1. num_tokens[r] \in Int
      BY <1>0
    <3> QED
      BY <2>2, <2>4, <3>1, SMT
  <2> QED
    BY <2>1, <2>2, <2>3, <2>5, AllocateKeepsPlaces
<1>4. ASSUME NEW r \in Requests, Preempt(r) PROVE Places'
  <2>1. /\ free_request(r, pinned) /\ num_tokens' = num_tokens
        /\ num_computed_tokens' = [num_computed_tokens EXCEPT ![r] = 0]
        /\ status' = [status EXCEPT ![r] = "waiting"]
    BY <1>4 DEF Preempt
  <2>2. /\ status'[r] = "waiting" /\ num_computed_tokens'[r] = 0
        /\ \A q \in Requests \ {r} :
             status'[q] = status[q] /\ num_computed_tokens'[q] = num_computed_tokens[q]
    BY <1>0, <2>1
  <2>3. 0 \in 0..num_tokens[r]
    BY SMT DEF Places, Counters
  <2> QED
    BY <2>1, <2>2, <2>3, FreeKeepsPlaces
<1>5. ASSUME NEW r \in Requests, Sample(r) PROVE Places'
  <2>1. /\ UNCHANGED <<block_hash, req_to_blocks, num_cached_block, num_computed_tokens, status>>
        /\ num_tokens[r] < Len(Tokens[r]) /\ num_tokens' = [num_tokens EXCEPT ![r] = @ + 1]
    BY <1>5 DEF Sample, pool
  <2>2. num_tokens'[r] = num_tokens[r] + 1 /\ \A q \in Requests \ {r} : num_tokens'[q] = num_tokens[q]
    BY <1>0, <2>1
  <2>3. /\ num_tokens[r] \in 1..Len(Tokens[r]) /\ num_computed_tokens[r] \in 0..num_tokens[r]
        /\ Len(Tokens[r]) \in Nat
    BY TokensAssumption, LenProperties DEF Places, Counters
  <2>4. num_tokens[r] + 1 \in 1..Len(Tokens[r]) /\ num_computed_tokens[r] \in 0..(num_tokens[r] + 1)
    BY <2>1, <2>3, SMT
  <2>5. Counters'
    BY <2>1, <2>2, <2>4 DEF Places, Counters
  <2> QED
    BY <2>1, <2>5 DEF Places, NoRepeats, UncachedAlone, Holders, BlocksKeepTheirTokens, Hash
<1>6. ASSUME NEW r \in Requests, NEW s \in {"finished", "aborted"}, _free_request(r),
             status' = [status EXCEPT ![r] = s],
             num_computed_tokens' = num_computed_tokens, num_tokens' = num_tokens,
             s = "finished" => Len(Tokens[r]) \div block_size <= num_cached_block[r]
      PROVE  Places'
  <2>0. status'[r] = s /\ \A q \in Requests \ {r} : status'[q] = status[q]
    BY <1>0, <1>6
  <2>1. CASE r \in Pinned
    <3>1. UNCHANGED <<block_hash, req_to_blocks, num_cached_block>>
      BY <1>6, <2>1 DEF _free_request, pool
    <3>2. Counters'
      BY <1>6, <2>0, <3>1 DEF Places, Counters
    <3> QED
      BY <3>1, <3>2 DEF Places, NoRepeats, UncachedAlone, Holders, BlocksKeepTheirTokens, Hash
  <2>2. CASE r \notin Pinned
    <3>1. free_request(r, pinned)
      BY <1>6, <2>2 DEF _free_request
    <3>2. num_computed_tokens[r] \in 0..num_tokens[r]
      BY DEF Places, Counters
    <3> QED
      BY <1>6, <2>0, <3>1, <3>2, FreeKeepsPlaces
  <2> QED
    BY <2>1, <2>2
<1>7. ASSUME NEW r \in Requests, Finish(r) PROVE Places'
  <2>1. /\ _free_request(r) /\ status' = [status EXCEPT ![r] = "finished"]
        /\ num_computed_tokens' = num_computed_tokens /\ num_tokens' = num_tokens
        /\ status[r] = "running" /\ num_computed_tokens[r] = Len(Tokens[r])
    BY <1>7 DEF Finish
  <2>2. Len(Tokens[r]) \div block_size <= num_cached_block[r]
    BY <2>1 DEF Places, Counters
  <2> QED
    BY <2>1, <2>2, <1>6
<1>8. ASSUME NEW r \in Requests, Abort(r) PROVE Places'
  <2>1. /\ _free_request(r) /\ status' = [status EXCEPT ![r] = "aborted"]
        /\ num_computed_tokens' = num_computed_tokens /\ num_tokens' = num_tokens
    BY <1>8 DEF Abort
  <2> QED
    BY <2>1, <1>6
<1>9. ASSUME NEW r \in Requests, unpin_request(r) PROVE Places'
  <2> DEFINE still == pinned \ Range(req_to_blocks[r])
  <2>1. /\ free_request(r, still) /\ status[r] = "finished"
        /\ status' = status /\ num_computed_tokens' = num_computed_tokens
        /\ num_tokens' = num_tokens
    BY <1>9 DEF unpin_request
  <2>2. num_computed_tokens[r] \in 0..num_tokens[r]
    BY DEF Places, Counters
  <2> HIDE DEF still
  <2> QED
    BY <2>1, <2>2, FreeKeepsPlaces
<1> QED
  BY <1>1, <1>2, <1>3, <1>4, <1>5, <1>7, <1>8, <1>9 DEF Next

\* The places hold initially: no request has a block, no block a hash.
LEMMA InitPlaces == Init => Places
<1> SUFFICES ASSUME Init PROVE Places
  OBVIOUS
<1>1. Len(<<>>) = 0 /\ DOMAIN <<>> = {} /\ Range(<<>>) = {}
  BY SMT DEF Range
<1>2. \A r \in Requests : 0 <= Len(Tokens[r]) \div block_size
  BY TokensLen, SMT
<1>3. Counters
  BY <1>1, <1>2, TokensAssumption, SMT DEF Init, Counters
<1>4. \A b \in Blocks : Holders(b) = {}
  BY <1>1 DEF Init, Holders
<1> QED
  BY <1>1, <1>3, <1>4 DEF Init, Places, NoRepeats, UncachedAlone, BlocksKeepTheirTokens

(* BlockPool and cache_full_blocks: whatever is shared, evicted, preempted *)
(* or pinned, a request's cached blocks carry the hashes of its own        *)
(* tokens, and the others carry none.                                      *)
THEOREM BlocksKeepTokens == Spec => []BlocksKeepTheirTokens
<1>1. Places => BlocksKeepTheirTokens
  BY DEF Places
<1> QED
  BY <1>1, InitHolds, StepKeeps, InitPlaces, StepKeepsPlaces, PTL DEF Spec

(* Scheduler._free_request: until it is unpinned, a finished pinned        *)
(* request keeps every full block of its tokens cached and out of the      *)
(* free queue.                                                             *)
THEOREM PinnedPrefixKept == Spec => []PinnedPrefixStays
<1>1. IInv /\ Places => PinnedPrefixStays
  <2> SUFFICES ASSUME IInv, Places, NEW r \in Pinned, status[r] = "finished",
                      req_to_blocks[r] # <<>>,
                      NEW j \in 1..(Len(Tokens[r]) \div block_size)
               PROVE  \E b \in Blocks \ free : block_hash[b] = Hash(r, j)
    BY DEF PinnedPrefixStays
  <2>1. r \in Requests
    BY PinnedAssumption
  <2>2. /\ req_to_blocks[r] \in Seq(Blocks) /\ num_cached_block[r] \in Nat
        /\ num_cached_block[r] <= Len(req_to_blocks[r])
        /\ Len(Tokens[r]) \div block_size <= num_cached_block[r]
    BY <2>1 DEF IInv, Types, Places, Counters
  <2>3. Len(req_to_blocks[r]) \in Nat /\ DOMAIN req_to_blocks[r] = 1..Len(req_to_blocks[r])
    BY <2>2, LenProperties
  <2>4. j \in DOMAIN req_to_blocks[r] /\ j <= num_cached_block[r]
    BY <2>1, <2>2, <2>3, TokensLen, SMT
  <2>5. block_hash[req_to_blocks[r][j]] = Hash(r, j)
    BY <2>1, <2>4 DEF Places, BlocksKeepTheirTokens
  <2>6. req_to_blocks[r][j] \in Range(req_to_blocks[r])
    BY <2>4 DEF Range
  <2> QED
    BY <2>1, <2>5, <2>6, HeldNotFree
<1> QED
  BY <1>1, InitHolds, StepKeeps, InitPlaces, StepKeepsPlaces, PTL DEF Spec

(* What stays pinned is held by a pinned request, unless one was preempted *)
(* (_preempt_request frees the blocks and leaves them pinned).             *)
PinsOwned == \A b \in pinned : \E r \in Pinned : r \in Holders(b) \/ r \in preempted

\* Every step keeps the owners of the pins.
LEMMA StepKeepsPins == IInv /\ PinsOwned /\ [Next]_vars => PinsOwned'
<1> SUFFICES ASSUME IInv, PinsOwned, [Next]_vars PROVE PinsOwned'
  OBVIOUS
<1>0. pinned \subseteq Blocks
  BY DEF IInv, Types
<1>1. CASE UNCHANGED vars
  BY <1>1 DEF vars, pool, PinsOwned, Holders
<1>2. ASSUME NEW r \in Requests, NEW hit, NEW n \in Int, allocate_slots(r, hit, n),
             \/ status[r] = "running" /\ hit = <<>>
             \/ status[r] = "waiting" /\ hit \in Hits(r),
             preempted' = preempted
      PROVE  PinsOwned'
  <2>1. /\ \A b \in Blocks : Holders(b) \subseteq Holders(b)'
        /\ \A b \in pinned' \ pinned : r \in Pinned /\ r \in Holders(b)'
    BY <1>2, AllocateKeeps
  <2> QED
    BY <1>0, <1>2, <2>1 DEF PinsOwned
<1>3. ASSUME NEW r \in Requests, NEW STATE still, still \subseteq pinned,
             pinned \ still \subseteq Range(req_to_blocks[r]),
             free_request(r, still), preempted \subseteq preempted',
             \/ r \notin Pinned
             \/ r \in preempted'
             \/ still \cap Range(req_to_blocks[r]) = {}
      PROVE  PinsOwned'
  <2>1. \A b \in Blocks : Holders(b) \ {r} \subseteq Holders(b)'
    BY <1>3, FreeKeeps
  <2>2. pinned' = still
    BY <1>3 DEF free_request
  <2> SUFFICES ASSUME NEW b \in still
               PROVE  \E q \in Pinned : q \in Holders(b)' \/ q \in preempted'
    BY <2>2 DEF PinsOwned
  <2>3. PICK q \in Pinned : q \in Holders(b) \/ q \in preempted
    BY <1>3 DEF PinsOwned
  <2>4. q # r => q \in Holders(b)' \/ q \in preempted'
    BY <2>1, <2>3, <1>0, <1>3
  <2>5. q = r /\ q \in Holders(b) => q \in preempted'
    BY <1>3 DEF Holders
  <2> QED
    BY <2>3, <2>4, <2>5, <1>3
<1>4. ASSUME NEW r \in Requests, ScheduleRunning(r) PROVE PinsOwned'
  <2>1. PICK n \in Int, hit \in {<<>>} : allocate_slots(r, hit, n)
    BY <1>4, SMT DEF ScheduleRunning
  <2>2. status[r] = "running" /\ preempted' = preempted
    BY <1>4 DEF ScheduleRunning
  <2> QED
    BY <2>1, <2>2, <1>2
<1>5. ASSUME NEW r \in Requests, ScheduleWaiting(r) PROVE PinsOwned'
  <2>1. PICK hit \in Hits(r) :
          \E n \in 1..(num_tokens[r] - Len(hit) * block_size) : allocate_slots(r, hit, n)
    BY <1>5 DEF ScheduleWaiting
  <2>2. PICK n \in Int : allocate_slots(r, hit, n)
    BY <2>1, SMT
  <2>3. status[r] = "waiting" /\ preempted' = preempted
    BY <1>5 DEF ScheduleWaiting
  <2> QED
    BY <2>1, <2>2, <2>3, <1>2
<1>6. ASSUME NEW r \in Requests, Preempt(r) PROVE PinsOwned'
  <2>1. free_request(r, pinned) /\ preempted' = preempted \cup {r}
    BY <1>6 DEF Preempt
  <2>2. pinned \subseteq pinned /\ pinned \ pinned \subseteq Range(req_to_blocks[r])
    OBVIOUS
  <2> QED
    BY <2>1, <2>2, <1>3
<1>7. ASSUME NEW r \in Requests, Sample(r) PROVE PinsOwned'
  BY <1>7 DEF Sample, pool, PinsOwned, Holders
<1>8. ASSUME NEW r \in Requests, _free_request(r), preempted' = preempted PROVE PinsOwned'
  <2>1. CASE r \in Pinned
    BY <1>8, <2>1 DEF _free_request, pool, PinsOwned, Holders
  <2>2. CASE r \notin Pinned
    <3>1. free_request(r, pinned)
      BY <1>8, <2>2 DEF _free_request
    <3> QED
      BY <1>8, <2>2, <3>1, <1>3
  <2> QED
    BY <2>1, <2>2
<1>9. ASSUME NEW r \in Requests, Finish(r) \/ Abort(r) PROVE PinsOwned'
  BY <1>8, <1>9 DEF Finish, Abort
<1>10. ASSUME NEW r \in Requests, unpin_request(r) PROVE PinsOwned'
  <2> DEFINE still == pinned \ Range(req_to_blocks[r])
  <2>1. free_request(r, still) /\ preempted' = preempted
    BY <1>10 DEF unpin_request
  <2>2. /\ still \subseteq pinned /\ pinned \ still \subseteq Range(req_to_blocks[r])
        /\ still \cap Range(req_to_blocks[r]) = {}
    OBVIOUS
  <2> HIDE DEF still
  <2> QED
    BY <2>1, <2>2, <1>3
<1> QED
  BY <1>1, <1>4, <1>5, <1>6, <1>7, <1>9, <1>10 DEF Next

(* unpin_request: once every request is gone and the pinned ones are       *)
(* unpinned, none of them preempted or aborted, every block is free.       *)
THEOREM UnpinGivesBack == Spec => []UnpinGivesAllBack
<1>1. IInv /\ PinsOwned => UnpinGivesAllBack
  <2> SUFFICES ASSUME IInv, PinsOwned,
                      \A r \in Requests : req_to_blocks[r] = <<>>,
                      \A r \in Pinned : r \notin preempted
               PROVE  free = Blocks
    BY DEF UnpinGivesAllBack
  <2>1. \A b : Holders(b) = {}
    BY SMT DEF Holders, Range
  <2>2. pinned = {}
    BY <2>1 DEF PinsOwned
  <2>3. \A b \in Blocks : ref_cnt[b] = 0
    BY <2>1, FS_EmptySet DEF IInv, RefCountExact
  <2> QED
    BY <2>2, <2>3 DEF IInv, FreeQueueExact
<1>2. Init => PinsOwned
  BY DEF Init, PinsOwned
<1> QED
  BY <1>1, <1>2, InitHolds, StepKeeps, StepKeepsPins, PTL DEF Spec
=============================================================================
