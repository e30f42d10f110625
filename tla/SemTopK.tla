------------------------------ MODULE SemTopK ------------------------------
(***************************************************************************)
(* SemTopK (sem_ops/reducers.py): the k best contexts are found by         *)
(* quickselect, whose partition asks a model to compare every context with *)
(* a pivot, and are then ranked by insertion or by merging.                *)
(*                                                                         *)
(* The answer of the model is "A", "B" or neither, which is all the code   *)
(* looks at.  A model that is right compares by an order on the contexts;  *)
(* one that is not may say anything, and not the same thing twice.         *)
(*                                                                         *)
(* The comparisons of a partition are tasks of BlockingExecutor, which     *)
(* returns unless one does not fit the KV cache or no worker is left (see  *)
(* that module); those of the ranking are awaited one by one.              *)
(***************************************************************************)
EXTENDS Integers, FiniteSetsExt, SequencesExt

CONSTANTS
  Ks,                    \* values of self.k
  MERGE_RANK_THRESHOLD,
  concurrency,           \* self.concurrency: the workers of a partition
  MaxRaises              \* bound on the comparisons of a partition that raise

VARIABLES
  n,       \* how many contexts SemTopK is called with
  right,   \* TRUE when the model is right
  fits,    \* TRUE when every comparison's budget fits the KV cache
  k0,      \* self.k
  taken,   \* what the callers of this _quickselect put before its result
  ctxs,    \* its ctxs
  k,       \* its k
  lost,    \* contexts whose comparison raised
  result,  \* what SemTopK returns
  pc       \* "idle", "select", "deserted", "rank", "returned" or "raised"

vars == <<n, right, fits, k0, taken, ctxs, k, lost, result, pc>>

\* The contexts, best first when the model is right.
Contexts == 1..n

RECURSIVE _rank_insertion(_), _merge_ranked(_, _), _rank(_)

(* What the model may answer when a is document A and b is document B. *)
Answers(a, b) ==
  IF right THEN {IF a < b THEN "A" ELSE "B"} ELSE {"A", "B", "neither"}

Orders(S) == {order \in [1..Cardinality(S) -> S] : Range(order) = S}

Init ==
  /\ n = 0 /\ right = FALSE /\ fits = FALSE /\ k0 = 0 /\ k = 0 /\ ctxs = <<>>
  /\ taken = <<>> /\ lost = {} /\ result = <<>>
  /\ pc = "idle"

(* SemTopK is called with m contexts. *)
Call(m) ==
  /\ pc = "idle" /\ n' = m
  /\ right' \in BOOLEAN /\ fits' \in BOOLEAN
  /\ k0' \in Ks /\ k' = k0'
  /\ ctxs' \in Orders(1..m)
  /\ pc' = "select"
  /\ UNCHANGED <<taken, lost, result>>

Reset ==
  /\ n' = 0 /\ right' = FALSE /\ fits' = FALSE /\ k0' = 0 /\ k' = 0 /\ ctxs' = <<>>
  /\ taken' = <<>> /\ lost' = {} /\ result' = <<>>
  /\ pc' = "idle"

\* Mutant of _quickselect: the pivot is forgotten.
PivotDropped(better, worse) ==
  IF Cardinality(better) >= k
  THEN /\ ctxs' \in Orders(better) /\ UNCHANGED <<taken, k>>
  ELSE /\ \E order \in Orders(better) : taken' = taken \o order
       /\ ctxs' \in IF Cardinality(better) + 1 = k THEN {<<>>} ELSE Orders(worse)
       /\ k' = k - Cardinality(better) - 1

(* _quickselect: what the k best still miss is looked for on one side.     *)
(* Each side is in the order its comparisons ended.                        *)
_quickselect(better, worse) ==
  IF Cardinality(better) >= k
  THEN /\ ctxs' \in Orders(better) /\ UNCHANGED <<taken, k>>
  ELSE /\ \E order \in Orders(better) : taken' = taken \o order \o <<ctxs[1]>>
       /\ ctxs' \in IF Cardinality(better) + 1 = k THEN {<<>>} ELSE Orders(worse)
       /\ k' = k - Cardinality(better) - 1

(* _partition: every other context is compared with the pivot.  A          *)
(* comparison that raises leaves its context out and ends its worker.      *)
Others == Range(Tail(ctxs))

Partition ==
  /\ pc = "select" /\ Len(ctxs) > k /\ fits
  /\ \E failed \in SUBSET Others : \E better \in SUBSET (Others \ failed) :
       LET worse == Others \ (failed \cup better) IN
       /\ Cardinality(lost \cup failed) <= MaxRaises /\ Cardinality(failed) <= concurrency
       /\ \A other \in better : "B" \in Answers(ctxs[1], other)
       /\ \A other \in worse : Answers(ctxs[1], other) # {"B"}
       /\ _quickselect(better, worse)
       /\ lost' = lost \cup failed
  /\ UNCHANGED <<n, right, fits, k0, result, pc>>

(* Every worker dies, and comparisons are left. *)
PartitionDeserted ==
  /\ pc = "select" /\ Len(ctxs) > k /\ fits
  /\ Cardinality(Others) > concurrency /\ Cardinality(lost) + concurrency <= MaxRaises
  /\ pc' = "deserted"
  /\ UNCHANGED <<n, right, fits, k0, taken, ctxs, k, lost, result>>

Selected ==
  /\ pc = "select" /\ Len(ctxs) <= k
  /\ taken' = taken \o ctxs
  /\ pc' = "rank"
  /\ UNCHANGED <<n, right, fits, k0, ctxs, k, lost, result>>

(* _rank_insertion puts ctx before the first context it beats. *)
InsertedAt(ranked, ctx, j) == SubSeq(ranked, 1, j - 1) \o <<ctx>> \o SubSeq(ranked, j, Len(ranked))

\* Mutant of Insertions: the model is asked the other way round.
InsertionsSwapped(ranked, ctx) ==
  {InsertedAt(ranked, ctx, j) : j \in
     {j \in 1..(Len(ranked) + 1) :
        /\ \A h \in 1..(j - 1) : Answers(ranked[h], ctx) # {"A"}
        /\ j <= Len(ranked) => "A" \in Answers(ranked[j], ctx)}}

Insertions(ranked, ctx) ==
  {InsertedAt(ranked, ctx, j) : j \in
     {j \in 1..(Len(ranked) + 1) :
        /\ \A h \in 1..(j - 1) : Answers(ctx, ranked[h]) # {"A"}
        /\ j <= Len(ranked) => "A" \in Answers(ctx, ranked[j])}}

(* One context after the other. *)
_rank_insertion(cs) ==
  IF cs = <<>> THEN {<<>>}
  ELSE UNION {Insertions(ranked, Last(cs)) : ranked \in _rank_insertion(Front(cs))}

(* _merge_ranked takes the better of the two heads. *)
_merge_ranked(xs, ys) ==
  IF xs = <<>> \/ ys = <<>> THEN {xs \o ys}
  ELSE LET answers == Answers(xs[1], ys[1]) IN
       (IF "A" \in answers
        THEN {<<xs[1]>> \o m : m \in _merge_ranked(Tail(xs), ys)} ELSE {})
       \cup
       (IF answers # {"A"}
        THEN {<<ys[1]>> \o m : m \in _merge_ranked(xs, Tail(ys))} ELSE {})

(* _rank: the two halves are ranked concurrently and share nothing. *)
_rank(cs) ==
  IF Len(cs) <= 1 THEN {cs}
  ELSE IF Len(cs) < MERGE_RANK_THRESHOLD THEN _rank_insertion(cs)
  ELSE LET mid == Len(cs) \div 2 IN
       UNION {_merge_ranked(xs, ys) : xs \in _rank(SubSeq(cs, 1, mid)),
                                      ys \in _rank(SubSeq(cs, mid + 1, Len(cs)))}

Rank ==
  /\ pc = "rank"
  /\ result' \in _rank(taken)
  /\ pc' = "returned"
  /\ UNCHANGED <<n, right, fits, k0, taken, ctxs, k, lost>>

(* A comparison of _rank is awaited without a handler: one that raises     *)
(* ends SemTopK.                                                           *)
RankRaises ==
  /\ pc = "rank" /\ Len(taken) > 1
  /\ pc' = "raised"
  /\ UNCHANGED <<n, right, fits, k0, taken, ctxs, k, lost, result>>

Next == Partition \/ PartitionDeserted \/ Selected \/ Rank \/ RankRaises

-----------------------------------------------------------------------------

\* A partition that does not fit is never over, and nor is one without workers.
TooLong == pc = "select" /\ Len(ctxs) > k /\ ~fits
Deserted == pc = "deserted"

(* Whatever the model answers, no context is returned twice, and k are     *)
(* returned when there are k, less those whose comparison raised.          *)
EnoughAndOnce ==
  pc = "returned" =>
    /\ Cardinality(Range(result)) = Len(result)
    /\ Len(result) <= k0
    /\ Len(result) >= Min({k0, n}) - Cardinality(lost)

(* When the model is right the result is the best contexts, best first:    *)
(* none that was compared is passed over for a worse one.                  *)
BestInOrder ==
  right /\ pc = "returned" =>
    result = SubSeq(SetToSortSeq(Contexts \ lost, <), 1, Len(result))
=============================================================================
