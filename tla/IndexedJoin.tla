----------------------------- MODULE IndexedJoin -----------------------------
(***************************************************************************)
(* IndexedCartesianProduct and IndexedSearch (sem_ops/joins.py), the       *)
(* vector service that they ask for the rows that go with a tuple          *)
(* (icp/vector_service.py), and the filter that takes the pairs of a       *)
(* product (ICPFilter, SemFilter of sem_ops/filters.py).                   *)
(*                                                                         *)
(* One operator and its calls, one for each context; the service keeps     *)
(* indexes under the operator's cp_id only as far as this model goes, for  *)
(* another cp_id is another index.  Another operator may have the same     *)
(* cp_id: it is given by the query, or made of an id() that is used again. *)
(* A row has a score; order and wording of the rows are left out.          *)
(***************************************************************************)
EXTENDS Integers, FiniteSetsExt, SequencesExt

CONSTANTS
  Tables,      \* the rows of the tables "own", "other" and "wiki"
  Score,       \* the score of each row, for the tuples of this operator
  Matches,     \* the rows the oracle accepts
  Operators,   \* the operators: see Call
  MaxTrouble   \* bound on failed posts, lost indexes and builds of others

VARIABLES
  op,        \* the operator: [kind, table, mode, top_k, low, high]
  backend,   \* "faiss" or "colbert"
  index,     \* the table whose index is under cp_id in cache and table_cache
  call,      \* of each call: where it is, the reply to its post, the rows, the
             \* table they are from, and what went wrong meanwhile
  late,      \* builds whose client gave up that the service has yet to do
  trouble,   \* how often something went wrong
  foreign, lost   \* history: another table had the cp_id; the index was lost

vars == <<op, backend, index, call, late, trouble, foreign, lost>>

Posting == {"query", "build", "retry"}
Over == {"returned", "filtered", "raised"}

NoOp == [kind |-> "none", table |-> "none", mode |-> "top_k", top_k |-> 0, low |-> 0, high |-> 0]

Init ==
  /\ op = NoOp /\ backend = "faiss" /\ index = "none" /\ call = <<>>
  /\ late = 0 /\ trouble = 0 /\ foreign = FALSE /\ lost = FALSE

(* The operator is called with n contexts.  The ColBERT service has one    *)
(* index, built beforehand.                                                *)
Call(n) ==
  /\ op' \in Operators /\ backend' \in {"faiss", "colbert"}
  /\ index' = IF backend' = "colbert" THEN "wiki" ELSE "none"
  /\ call' = [c \in 1..n |->
       [at |-> "new", reply |-> "none", rows |-> {}, from |-> "none", failed |-> FALSE]]
  /\ UNCHANGED <<late, trouble, foreign, lost>>

Reset ==
  /\ op' = NoOp /\ backend' = "faiss" /\ index' = "none" /\ call' = <<>>
  /\ late' = 0 /\ trouble' = 0 /\ foreign' = FALSE /\ lost' = FALSE

-----------------------------------------------------------------------------
(* The service. *)

\* Mutant of build_index: the table that is asked for replaces another.
BuildOver == [ok |-> TRUE, index |-> "own"]

(* VectorDBService.build_index with the operator's table: an index that is *)
(* there is kept, and is an error if it is of another table.               *)
build_index ==
  IF backend = "colbert" THEN [ok |-> TRUE, index |-> index]
  ELSE [ok |-> index \in {"none", "own"}, index |-> IF index = "none" THEN "own" ELSE index]

(* What the service refuses, whatever the backend: one threshold without   *)
(* the other, no rows asked for (top_k missing or not positive, written 0) *)
(* or a range that is none.                                                *)
Refuses ==
  \/ op.mode = "half"
  \/ op.mode = "top_k" /\ op.top_k <= 0
  \/ op.mode = "range" /\ (backend = "colbert" \/ op.low >= op.high)

search_top_k(rows, k) ==
  {r \in rows : Cardinality({s \in rows : Score[s] > Score[r]}) < k}

\* Mutant of search_threshold: what is above the range is found as well.
SearchAbove(rows, low, high) == {r \in rows : low < Score[r]}

(* Strictly between the thresholds: a row above the range is dropped. *)
search_threshold(rows, low, high) == {r \in rows : low < Score[r] /\ Score[r] < high}

(* VectorDBService.query, without a table: the client never sends one. *)
query ==
  LET rows == Tables[index] IN
  IF index = "none" \/ Refuses THEN [ok |-> FALSE, rows |-> {}]
  ELSE [ok |-> TRUE,
        rows |-> IF op.mode = "range" THEN search_threshold(rows, op.low, op.high)
                 ELSE search_top_k(rows, op.top_k)]

(* The service takes a post; its handlers run one at a time. *)
Serve(c) ==
  /\ call[c].at \in Posting /\ call[c].reply = "none"
  /\ IF call[c].at = "build"
     THEN /\ index' = build_index.index
          /\ call' = [call EXCEPT ![c].reply = IF build_index.ok THEN "ok" ELSE "refused"]
     ELSE /\ UNCHANGED index
          /\ call' = [call EXCEPT ![c] = [@ EXCEPT
               !.reply = IF query.ok THEN "ok" ELSE "refused",
               !.rows = query.rows, !.from = index]]
  /\ UNCHANGED <<op, backend, late, trouble, foreign, lost>>

\* A build whose client gave up.
ServeLate ==
  /\ late > 0 /\ late' = late - 1
  /\ index' = build_index.index
  /\ UNCHANGED <<op, backend, call, trouble, foreign, lost>>

Trouble == trouble < MaxTrouble /\ trouble' = trouble + 1

(* An operator with the same cp_id and another table builds its index. *)
OtherBuilds ==
  /\ Trouble
  /\ backend = "faiss" /\ index = "none"
  /\ index' = "other" /\ foreign' = TRUE
  /\ UNCHANGED <<op, backend, call, late, lost>>

(* clear_cp, or a restart of the service: what is cached is gone. *)
clear_cp ==
  /\ Trouble
  /\ backend = "faiss" /\ index # "none"
  /\ index' = "none" /\ lost' = TRUE
  /\ UNCHANGED <<op, backend, call, late, foreign>>

-----------------------------------------------------------------------------
(* The operator. *)

To(c, at) == call' = [call EXCEPT ![c].at = at, ![c].reply = "none"]

(* A product is asked for one context after the other, and its posts block *)
(* the event loop; a search posts in a thread of its own.                  *)
Start(c) ==
  /\ call[c].at = "new"
  /\ op.kind = "join" => \A d \in 1..(c - 1) : call[d].at \in Over
  /\ To(c, "query")
  /\ UNCHANGED <<op, backend, index, late, trouble, foreign, lost>>

Returned(c) == To(c, "returned")

(* A RequestException: a product that has a table goes on with all of it,  *)
(* a search raises.                                                        *)
Failed(c, how) ==
  call' = [call EXCEPT ![c] = [@ EXCEPT
    !.failed = how, !.reply = "none",
    !.at = IF op.kind = "join" /\ op.table = "own" THEN "returned" ELSE "raised",
    !.rows = IF op.kind = "join" /\ op.table = "own" THEN Tables["own"] ELSE {},
    !.from = "fallback"]]

\* Mutant of _query_retrieval: no index is built, the query is only repeated.
RetrievalWithoutBuild(c) ==
  /\ call[c].at \in Posting /\ call[c].reply # "none"
  /\ IF call[c].reply = "ok" THEN Returned(c)
     ELSE IF call[c].at = "query" THEN To(c, "retry")
     ELSE Failed(c, FALSE)
  /\ UNCHANGED <<op, backend, index, late, trouble, foreign, lost>>

(* _query_retrieval: query, and if that is refused build the index (when   *)
(* there is a table) and query once more.                                  *)
_query_retrieval(c) ==
  /\ call[c].at \in Posting /\ call[c].reply # "none"
  /\ IF call[c].at # "build" /\ call[c].reply = "ok" THEN Returned(c)
     ELSE IF call[c].at = "query" THEN To(c, IF op.table = "own" THEN "build" ELSE "retry")
     ELSE IF call[c].at = "build" /\ call[c].reply = "ok" THEN To(c, "retry")
     ELSE Failed(c, FALSE)
  /\ UNCHANGED <<op, backend, index, late, trouble, foreign, lost>>

(* requests.post raises: no connection, or nothing for 60 seconds; the     *)
(* service may have done its part, or do it later.                         *)
PostFails(c) ==
  /\ call[c].at \in Posting
  /\ Trouble
  /\ late' = IF call[c].at = "build" /\ call[c].reply = "none" THEN late + 1 ELSE late
  /\ Failed(c, TRUE)
  /\ UNCHANGED <<op, backend, index, foreign, lost>>

\* The score of a row of call c, as the operator hands it on.
helper_score(c, r) == IF call[c].from = "fallback" THEN 0 ELSE Score[r]

(* ICPFilter: a score at or above high accepts the pair, one at or below   *)
(* low rejects it, and the oracle decides between.                         *)
ICPFilter(c) ==
  {r \in call[c].rows : \/ helper_score(c, r) >= op.high
                        \/ helper_score(c, r) > op.low /\ r \in Matches}

(* The pairs go through the filter that parse_ops put after the product:   *)
(* ICPFilter if both thresholds are given, else SemFilter.                 *)
Filter(c) ==
  /\ call[c].at = "returned" /\ op.kind = "join"
  /\ call' = [call EXCEPT ![c].at = "filtered",
       ![c].rows = IF op.mode = "range" THEN ICPFilter(c) ELSE @ \cap Matches]
  /\ UNCHANGED <<op, backend, index, late, trouble, foreign, lost>>

Done == \A c \in DOMAIN call : call[c].at = IF op.kind = "join" THEN "filtered" ELSE "returned"
Raised == \E c \in DOMAIN call : call[c].at = "raised"

\* How many contexts go on: the pairs of a product, or the contexts of a search.
Out == IF op.kind = "join" THEN MapThenSumSet(LAMBDA c : Cardinality(call[c].rows), DOMAIN call)
       ELSE Len(call)

Next ==
  \/ \E c \in DOMAIN call : Start(c) \/ Serve(c) \/ _query_retrieval(c) \/ PostFails(c) \/ Filter(c)
  \/ ServeLate \/ OtherBuilds \/ clear_cp

-----------------------------------------------------------------------------

Answered(c) == call[c].at \in {"returned", "filtered"} /\ call[c].from # "fallback"

(* All the calls of an operator are answered from one table: builds that   *)
(* come late, twice, or from another operator never replace an index, and  *)
(* only an index that was lost can come back as another.                   *)
OneTable ==
  \A c, d \in DOMAIN call :
    Answered(c) /\ Answered(d) => lost \/ call[c].from = call[d].from

(* An operator that has a table gives up on the index (a product goes on   *)
(* with the whole table, a search raises) only if a post of the call       *)
(* failed, the index was lost, another table has its cp_id, or its         *)
(* arguments are refused; a product that has a table never raises.         *)
GivesUpOnlyThen ==
  op.table = "own" =>
    \A c \in DOMAIN call :
      /\ call[c].from = "fallback" => call[c].failed \/ lost \/ foreign \/ Refuses
      /\ op.kind = "join" => call[c].at # "raised"

(* What a join between two thresholds means: pairs at or above the higher  *)
(* one, and those between that the oracle accepts.                         *)
Reference(rows) ==
  {r \in rows : Score[r] >= op.high \/ (Score[r] > op.low /\ r \in Matches)}

(* No pair is in the answer that the oracle did not accept, unless the     *)
(* call fell back to the whole table, with 0 for a score, and 0 is enough. *)
(* A pair that should be there is missing in two cases only: its score is  *)
(* at or above the higher threshold, so the service left it out; or the    *)
(* call fell back and 0 is at or below the lower threshold.                *)
JoinAnswer ==
  op.kind = "join" /\ op.mode = "range" =>
    \A c \in DOMAIN call :
      call[c].at = "filtered" =>
        LET asked == Reference(Tables[IF Answered(c) THEN call[c].from ELSE "own"]) IN
        /\ call[c].rows \subseteq Matches \/ (~Answered(c) /\ op.high <= 0)
        /\ \A r \in asked \ call[c].rows :
             Score[r] >= op.high \/ (~Answered(c) /\ 0 <= op.low)
=============================================================================
