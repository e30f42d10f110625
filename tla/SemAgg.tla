------------------------------- MODULE SemAgg -------------------------------
(***************************************************************************)
(* SemAgg (sem_ops/reducers.py): the contexts are cut into chunks that fit *)
(* a token limit, each chunk of several contexts is reduced to one by a    *)
(* model call, and the round is repeated until one context is left.        *)
(*                                                                         *)
(* A context is the set of documents it stands for and its length in       *)
(* tokens; how long a model's answer is, is not known.  What               *)
(* BlockingExecutor does with the calls is the contract checked in that    *)
(* module, for a call that has the manager to itself: it returns the       *)
(* results of the calls that did not raise, in the order they end, or      *)
(* never, when a call does not fit the KV cache or no worker is left.      *)
(***************************************************************************)
EXTENDS Integers, FiniteSetsExt, SequencesExt

CONSTANTS
  TokenLens,    \* lengths of a context
  max_tokens,   \* self.max_tokens
  instruction_overhead, per_doc_overhead,
  concurrency,  \* self.concurrency: the workers of a BlockingExecutor call
  Capacity,     \* the tokens the KV cache has room for
  MaxRaises     \* bound on the model calls that raise

VARIABLES
  docs,           \* the documents SemAgg was called with
  working_set,    \* the contexts of this round
  i,              \* the loop variable of _chunk_by_tokens
  chunks,         \* context_chunks
  current_chunk, current_chunk_tokens,
  calls,          \* chunks whose call has not ended
  reduced,        \* results of BlockingExecutor, in the order calls end
  lost,           \* documents of the chunks whose call raised
  raises,         \* how many calls raised
  pc              \* "idle", "while", "chunk", "reduce", "returned" or "IndexError"

chunking == <<i, chunks, current_chunk, current_chunk_tokens>>
calling  == <<calls, reduced, lost, raises>>
vars == <<docs, working_set, chunking, calling, pc>>

Context(ds, n) == [docs |-> ds, tokens |-> n]
DocsOf(ctxs) == UNION {ctxs[c].docs : c \in DOMAIN ctxs}

Init ==
  /\ docs = {} /\ working_set = <<>>
  /\ i = 1 /\ chunks = <<>> /\ current_chunk = <<>> /\ current_chunk_tokens = 0
  /\ calls = {} /\ reduced = <<>> /\ lost = {} /\ raises = 0
  /\ pc = "idle"

(* SemAgg is called with m contexts. *)
Call(m) ==
  /\ pc = "idle" /\ pc' = "while"
  /\ docs' = 1..m
  /\ \E len \in [1..m -> TokenLens] :
       working_set' = [d \in 1..m |-> Context({d}, len[d])]
  /\ UNCHANGED <<chunking, calling>>

Reset ==
  /\ docs' = {} /\ working_set' = <<>>
  /\ i' = 1 /\ chunks' = <<>> /\ current_chunk' = <<>> /\ current_chunk_tokens' = 0
  /\ calls' = {} /\ reduced' = <<>> /\ lost' = {} /\ raises' = 0
  /\ pc' = "idle"

(* The while loop of __call__: another round, or the one context left.     *)
(* With none left working_set[0] raises, unless there was none at first.   *)
StartRound ==
  /\ pc = "while" /\ Len(working_set) > 1
  /\ i' = 1 /\ chunks' = <<>> /\ current_chunk' = <<>>
  /\ current_chunk_tokens' = instruction_overhead
  /\ pc' = "chunk"
  /\ UNCHANGED <<docs, working_set, calling>>

Return ==
  /\ pc = "while" /\ Len(working_set) <= 1
  /\ pc' = IF working_set = <<>> /\ docs # {} THEN "IndexError" ELSE "returned"
  /\ UNCHANGED <<docs, working_set, chunking, calling>>

\* Mutant of Full: the next context is not counted.
FullLate(item) == current_chunk # <<>> /\ current_chunk_tokens > max_tokens

(* One iteration of _chunk_by_tokens. *)
Full(item) == current_chunk # <<>> /\ current_chunk_tokens + item > max_tokens

AddToChunk ==
  /\ pc = "chunk" /\ i <= Len(working_set)
  /\ LET ctx == working_set[i]
         item == ctx.tokens + per_doc_overhead
     IN  IF Full(item)
         THEN /\ chunks' = Append(chunks, current_chunk)
              /\ current_chunk' = <<ctx>>
              /\ current_chunk_tokens' = instruction_overhead + item
         ELSE /\ current_chunk' = Append(current_chunk, ctx)
              /\ current_chunk_tokens' = current_chunk_tokens + item
              /\ UNCHANGED chunks
  /\ i' = i + 1
  /\ UNCHANGED <<docs, working_set, calling, pc>>

(* The chunks are cut: those of several contexts are reduced.  When there  *)
(* is none, all the contexts are reduced by one call.                      *)
Reducible(cs) == {c \in DOMAIN cs : Len(cs[c]) > 1}

\* Mutant of AllTogether: single contexts are never reduced.
AllTogetherNever(cs) == cs

AllTogether(cs) == IF Reducible(cs) = {} THEN <<working_set>> ELSE cs

StartCalls ==
  /\ pc = "chunk" /\ i > Len(working_set)
  /\ chunks' = AllTogether(Append(chunks, current_chunk))
  /\ calls' = Reducible(chunks')
  /\ reduced' = <<>>
  /\ pc' = "reduce"
  /\ UNCHANGED <<docs, working_set, i, current_chunk, current_chunk_tokens, lost, raises>>

TokensOf(chunk) ==
  MapThenSumSet(LAMBDA j : chunk[j].tokens + per_doc_overhead, DOMAIN chunk)
    + instruction_overhead

(* Reducer.budget: what the prompt and the longest answer take. *)
Budget(c) == TokensOf(chunks[c]) + max_tokens

\* The workers of this BlockingExecutor call that did not die of a call that raised.
Workers == concurrency - (Cardinality(Reducible(chunks)) - Cardinality(calls) - Len(reduced))

(* A call runs when it is admitted, beside those before it that have not   *)
(* ended, and a worker is left for it: calls are admitted and taken in     *)
(* their order.                                                            *)
Runs(c) ==
  LET upto == {d \in calls : d <= c}
  IN  /\ Cardinality(upto) <= Workers
      /\ MapThenSumSet(Budget, upto) <= Capacity

(* A call of _reduce_chunk ends, with an answer of any length, or raises. *)
CallEnds(c) ==
  /\ Runs(c)
  /\ calls' = calls \ {c}
  /\ \E n \in TokenLens : reduced' = Append(reduced, Context(DocsOf(chunks[c]), n))
  /\ UNCHANGED <<docs, working_set, chunking, lost, raises, pc>>

CallRaises(c) ==
  /\ Runs(c)
  /\ raises < MaxRaises
  /\ raises' = raises + 1
  /\ calls' = calls \ {c}
  /\ lost' = lost \cup DocsOf(chunks[c])
  /\ UNCHANGED <<docs, working_set, chunking, reduced, pc>>

\* Mutant of Passthrough: the contexts alone in their chunk are dropped.
NoPassthrough == <<>>

(* The next working set: the contexts alone in their chunk, then the       *)
(* results.                                                                *)
Passthrough == FlattenSeq(SelectSeq(chunks, LAMBDA chunk : Len(chunk) = 1))

EndRound ==
  /\ pc = "reduce" /\ calls = {}
  /\ working_set' = Passthrough \o reduced
  /\ pc' = "while"
  /\ UNCHANGED <<docs, chunking, calling>>

Next ==
  \/ StartRound \/ Return \/ AddToChunk \/ StartCalls \/ EndRound
  \/ \E c \in calls : CallEnds(c) \/ CallRaises(c)

-----------------------------------------------------------------------------

\* The two ways in which BlockingExecutor never returns: the call of all the
\* contexts at once is larger than the KV cache (a chunk cannot be, if that has
\* room for a prompt and an answer of max_tokens), or no worker is left.
TooLong ==
  /\ pc = "reduce" /\ calls # {} /\ Budget(Min(calls)) > Capacity
  /\ 2 * max_tokens <= Capacity => chunks = <<working_set>>
Deserted == pc = "reduce" /\ calls # {} /\ Workers = 0

(* _chunk_by_tokens cuts the contexts in order, keeps every chunk of       *)
(* several contexts within max_tokens (so an oversized context is alone,   *)
(* as its comment promises), and cuts only where the next did not fit.     *)
ChunksFit ==
  LET all == Append(chunks, current_chunk) IN
  pc = "chunk" /\ current_chunk # <<>> =>
    /\ FlattenSeq(all) = SubSeq(working_set, 1, i - 1)
    /\ \A c \in DOMAIN all : Len(all[c]) > 1 => TokensOf(all[c]) <= max_tokens
    /\ \A c \in DOMAIN chunks : TokensOf(Append(all[c], all[c + 1][1])) > max_tokens

(* Every document is in exactly one context of the working set, unless the *)
(* call that held it raised: nothing is dropped or counted twice.          *)
EveryDocumentOnce ==
  pc # "reduce" =>
    /\ \A a, b \in DOMAIN working_set :
         a # b => working_set[a].docs \cap working_set[b].docs = {}
    /\ DocsOf(working_set) = docs \ lost
=============================================================================
