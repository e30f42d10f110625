---------------------------- MODULE PlanExecutor ----------------------------
(***************************************************************************)
(* PlanExecutor.execute (execution/pipeline_execution.py): the items of a  *)
(* plan one after the other, each with the contexts the one before it      *)
(* gave.  The blocking operators (SemAgg, SemTopK) and the indexed product *)
(* and search (IndexedJoin) are composed here; a segment of other          *)
(* operators is what PipelineExecutor is shown to be, a step that returns  *)
(* some of the contexts its joins make of the ones it is given, or raises. *)
(*                                                                         *)
(* Contexts are counted from item to item; each operator has names of its  *)
(* own for the ones it is called with.                                     *)
(***************************************************************************)
EXTENDS Integers, Sequences

CONSTANTS
  Queries,                          \* the plans and how many contexts they start with
  Ks, MERGE_RANK_THRESHOLD,         \* of SemTopK
  TokenLens, max_tokens,            \* of SemAgg
  instruction_overhead, per_doc_overhead,
  concurrency, Capacity,            \* of SemTopK and SemAgg; the KV cache
  MaxFanout,                        \* bound on the rows a join pairs a context with
  Tables, Score, Matches, Operators,  \* of IndexedJoin
  MaxRaises, MaxTrouble             \* bounds on what goes wrong

ASSUME QueriesAssumption   == \A q \in Queries : q.contexts \in Nat
ASSUME KsAssumption        == Ks \subseteq Nat \ {0}
ASSUME ThresholdAssumption == MERGE_RANK_THRESHOLD \in Nat \ {0, 1}
ASSUME TokensAssumption    == TokenLens \subseteq Nat /\ max_tokens \in Nat
ASSUME RoomAssumption      == concurrency \in Nat \ {0} /\ Capacity \in Nat /\ MaxFanout \in Nat
ASSUME OverheadAssumption  == instruction_overhead \in Nat /\ per_doc_overhead \in Nat
ASSUME TroubleAssumption   == MaxRaises \in Nat /\ MaxTrouble \in Nat

VARIABLES
  plan,     \* the items left, the one that runs included
  ctxs,     \* how many contexts there are
  at,       \* "next", "busy", "returned" or "raised"
  k0, n, right, fits, taken, candidates, k, uncompared, result, topk,
  docs, working_set, i, chunks, current_chunk, current_chunk_tokens,
  calls, reduced, dropped, raises, agg,
  op, backend, index, call, late, trouble, foreign, lost

TopK == INSTANCE SemTopK WITH ctxs <- candidates, lost <- uncompared, pc <- topk
Agg  == INSTANCE SemAgg WITH lost <- dropped, pc <- agg
ICP  == INSTANCE IndexedJoin

topk_vars == <<k0, n, right, fits, taken, candidates, k, uncompared, result, topk>>
agg_vars == <<docs, working_set, i, chunks, current_chunk, current_chunk_tokens,
              calls, reduced, dropped, raises, agg>>
icp_vars == <<op, backend, index, call, late, trouble, foreign, lost>>
vars == <<plan, ctxs, at, topk_vars, agg_vars, icp_vars>>

Init ==
  /\ \E q \in Queries : plan = q.items /\ ctxs = q.contexts
  /\ at = "next"
  /\ TopK!Init /\ Agg!Init /\ ICP!Init

Item(item) == plan # <<>> /\ Head(plan) = item

(* The next item begins. *)
Begin(item) == at = "next" /\ Item(item) /\ at' = "busy" /\ UNCHANGED <<plan, ctxs>>

BeginTopK == Begin("topk") /\ TopK!Call(ctxs) /\ UNCHANGED <<agg_vars, icp_vars>>
BeginAgg  == Begin("agg") /\ Agg!Call(ctxs) /\ UNCHANGED <<topk_vars, icp_vars>>
BeginICP  == Begin("icp") /\ ICP!Call(ctxs) /\ UNCHANGED <<topk_vars, agg_vars>>

(* It is over, and gave m contexts. *)
End(m) == at = "busy" /\ at' = "next" /\ plan' = Tail(plan) /\ ctxs' = m

EndTopK ==
  /\ topk = "returned" /\ End(Len(result))
  /\ TopK!Reset /\ UNCHANGED <<agg_vars, icp_vars>>
EndAgg ==
  /\ agg = "returned" /\ End(Len(working_set))
  /\ Agg!Reset /\ UNCHANGED <<topk_vars, icp_vars>>
EndICP ==
  /\ Item("icp") /\ ICP!Done /\ End(ICP!Out)
  /\ ICP!Reset /\ UNCHANGED <<topk_vars, agg_vars>>

RunTopK == at = "busy" /\ Item("topk") /\ TopK!Next /\ UNCHANGED <<plan, ctxs, at, agg_vars, icp_vars>>
RunAgg  == at = "busy" /\ Item("agg") /\ Agg!Next /\ UNCHANGED <<plan, ctxs, at, topk_vars, icp_vars>>
RunICP  == at = "busy" /\ Item("icp") /\ ICP!Next /\ UNCHANGED <<plan, ctxs, at, topk_vars, agg_vars>>

(* A product by itself: a context for every row of the right table. *)
Product ==
  /\ at = "next" /\ Item("product")
  /\ plan' = Tail(plan) /\ \E rows \in 0..MaxFanout : ctxs' = ctxs * rows
  /\ UNCHANGED <<at, topk_vars, agg_vars, icp_vars>>

(* A segment without an index: its joins fan out, its filters drop. *)
Segment ==
  /\ at = "next" /\ Item("segment")
  /\ plan' = Tail(plan) /\ ctxs' \in 0..(ctxs * MaxFanout)
  /\ UNCHANGED <<at, topk_vars, agg_vars, icp_vars>>

\* Nothing between an item and the query handles an exception.
Raise ==
  /\ \/ topk = "raised" \/ agg = "IndexError" \/ ICP!Raised
     \/ at = "next" /\ Item("segment")
  /\ at \in {"next", "busy"} /\ at' = "raised"
  /\ UNCHANGED <<plan, ctxs, topk_vars, agg_vars, icp_vars>>

Return ==
  /\ at = "next" /\ plan = <<>> /\ at' = "returned"
  /\ UNCHANGED <<plan, ctxs, topk_vars, agg_vars, icp_vars>>

Next ==
  \/ BeginTopK \/ RunTopK \/ EndTopK
  \/ BeginAgg \/ RunAgg \/ EndAgg
  \/ BeginICP \/ RunICP \/ EndICP
  \/ Product \/ Segment \/ Raise \/ Return

Spec == Init /\ [][Next]_vars

(* The loops run on and every model call that runs ends, also by an        *)
(* exception; a post that is not answered times out.  A call of            *)
(* BlockingExecutor that hangs has no step left to be fair to.             *)
FairSpec == Spec /\ WF_vars(Next)

-----------------------------------------------------------------------------

(* SemAgg cuts its contexts into chunks in their order; a chunk of several *)
(* fits max_tokens, and a cut is made only where the next did not fit      *)
(* (_chunk_by_tokens, reducers.py).                                        *)
ChunksFit == Agg!ChunksFit

(* Between two rounds of SemAgg every document it was called with is in    *)
(* exactly one context, unless the call that held it raised.               *)
EveryDocumentOnce == Agg!EveryDocumentOnce

(* SemTopK returns no context twice and k of them when there are k, less   *)
(* those whose comparison raised, whatever the model answers.              *)
EnoughAndOnce == TopK!EnoughAndOnce

(* SemTopK returns the best contexts, best first, when the model compares  *)
(* consistently.                                                           *)
BestInOrder == TopK!BestInOrder

(* The calls of one indexed operator are answered from one table, unless   *)
(* the service lost the index meanwhile: no build replaces another         *)
(* (VectorDBService.build_index).                                          *)
OneTable == ICP!OneTable

(* An indexed operator that has a table gives up on the index only for a   *)
(* reason, and its product never raises (_query_retrieval, joins.py).      *)
GivesUpOnlyThen == ICP!GivesUpOnlyThen

(* A join between two thresholds has no pair the oracle rejects and misses *)
(* only those the service leaves out, or a fallback whose scores are 0     *)
(* (ICPFilter.__call__).                                                   *)
JoinAnswer == ICP!JoinAnswer

\* A blocking operator is left in a call of BlockingExecutor that hangs.
Hangs ==
  at = "busy" /\ (Agg!TooLong \/ Agg!Deserted \/ TopK!TooLong \/ TopK!Deserted)

(* A plan that has the manager to itself returns or raises, whatever the   *)
(* models answer and whatever goes wrong with the index: the rounds of     *)
(* SemAgg and the recursion of SemTopK always get smaller, and no call of  *)
(* an indexed operator waits for ever.  It hangs for two reasons only, and *)
(* then for good: a model call is too long for the KV cache (a pair that   *)
(* SemTopK compares; or all the contexts that SemAgg reduces at once when  *)
(* no two fit max_tokens), or as many calls of one execute_tasks raised as *)
(* it has workers.                                                         *)
Termination == <>[](at \in {"returned", "raised"} \/ Hangs)
=============================================================================
