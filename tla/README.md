# Kalypso: TLA+ models, model checking and proofs

Kalypso (`src/vllm/kalypso`) runs semantic queries (filters, maps, joins and reductions that call a
language model) inside a modified vLLM server. A query is a list of operators. The planner fuses
them into *stages* and groups stages into *segments*. The pipeline executor runs a segment as a flow
of tuples: each tuple is admitted by an estimate of the KV-cache memory it needs, and the KV blocks
of a tuple whose prefix later tuples share are *pinned* in the engine until they are of no more use.

This directory models the parts where state, concurrency and accounting live, checks the models with
TLC on small instances, and proves the results about six of them for all parameters with TLAPS. Of
vLLM it models what Kalypso changed (pinning in scheduler and KV cache) and the protocol by which
data-parallel engines start and stop together.

- [The system's parts](#the-systems-parts)
- [Modules](#modules): which module models what, and how
- [Runs](#runs): what TLC checks, the bounds and the fairness
- [Proofs](#proofs): what is proved, from what, and how
- [Where code and comments disagree](#where-code-and-comments-disagree)
- [Not modelled](#not-modelled)
- [What could follow](#what-could-follow)

Commands, from this directory: `tlc -config <cfg> <MC module>` for a run, `tlapm <module>` for a
proof module. `PROJECT.json` has the runs, for every definition the source lines it stands for, the
hazards with the properties that guard them, and for every property a mutation of the model that
breaks it.

## The system's parts

Paths are relative to `src/vllm/kalypso/` unless they start with `v1/` or `entrypoints/`, which are
under `src/vllm/`.

| Part | Source | State | Operations |
|---|---|---|---|
| KV memory manager | `budget.py` | per stage: capacity, minimum, maximum, bytes used, tasks in flight; bytes used globally | `register_stage`, `try_allocate_stage`, `force_allocate_stage`, `release_stage`, `rebalance_stage_capacity`, `return_stage_capacity`; `can_admit`, `allocate`, `release` |
| Stage | `controller/stage.py` | sorted waiting list, running tasks, thresholds | `enqueue`, `pop_task`, `clear_tasks`, `accept`, `force_accept`, `run_task`, `release_budget`, `tune_thresholds` |
| Pipeline executor, join trackers | `execution/pipeline_execution.py` | launched coroutines, done set, `JoinTracker`s, results | the loop of `execute_tasks`: rebalance, launch, force, wait, handle |
| Blocking executor | `execution/pipeline_execution.py` | bounded queue, workers, a condition, results | admit, put, work, join, cancel |
| Planner | `controller/plan.py` | operators, segment, stages, pin flags | `parse_ops`, `apply_pin_unpin`, `build`, stage registration |
| Plan executor | `execution/pipeline_execution.py` | the contexts handed from item to item | `PlanExecutor.execute` |
| Reducers | `sem_ops/reducers.py` | contexts of a round; the partition of a selection | `SemAgg`, `SemTopK` |
| Tuple operators | `sem_ops/{base,filters,map,classify,joins}.py` | the tuple, its `pin_req_id` | call the model, pin, unpin, drop, retry, raise, fan out |
| Pin registry, cleanup, monitor | `pin_registry.py`, `execution/vllm_executor.py`, `query_processor.py` | registered ids, confirmation counters, cooldown | register, remove, unpin by tuple, query, monitor or endpoint |
| HTTP endpoints | `sem_ops/endpoint.py`, `entrypoints/openai/api_server.py` | none of their own | `/v1/semantic/pinned/unpin` |
| Engine KV cache with pinning | `v1/core/{kv_cache_manager,single_type_kv_cache_manager,block_pool}.py` | blocks: `ref_cnt`, pin, hash; the free queue; blocks of a request | prefix hit, allocate, cache, evict, pin, free, unpin |
| Engine scheduler | `v1/core/sched/scheduler.py`, `v1/engine/core.py` | waiting and running requests | schedule, preempt, sample, finish, abort, unpin |
| Indexed product and search, vector service | `sem_ops/joins.py`, `icp/vector_service.py`, `ICPFilter` of `sem_ops/filters.py` | indexes by `cp_id` | build, query, clear; query, build and query again; filter by score or oracle |
| Data-parallel waves | `v1/engine/{coordinator,core,core_client}.py` | wave and running flag of every client, engine and the coordinator; messages between them | add, abort, notify, start a wave, step, all-reduce, end a wave |
| Map ratio estimator | `controller/map_estimator.py` | observed ratios | observe, estimate |
| Contexts, data, prompts | `context/`, `data/`, `sem_ops/prompt_utils.py` | none | formatting, file input |
| Legacy pipeline | `controller/pipeline.py` | none | not on the query path |
| Benchmark clients | `benchmark/` | none | send queries |

How they interact, and what is hard about it:

- The **planner** registers every stage of a query with the **manager** and gives the stages to the
  executors. Stage ids start from the same number in every query, so a second query may register an
  id while tasks of the first still hold budgets of it.
- The **pipeline executor** admits the head of each stage's queue against the manager, and moves
  capacity between stages as queues fill and drain. Several tasks may be done at once and are
  handled one by one. A task may pass, be dropped, ask to be retried, raise, or fan out; its budget
  goes back at once, or to a join tracker that keeps it until the last child is through. If every
  stage is full of parents whose children wait, the executor forces tasks past the capacity.
- The **operators** run while the executor waits. One exception ends the executor, but not the
  coroutines it launched.
- The **blocking executor** uses the global part of the manager. Two calls of it share that part but
  not the condition their producers wait on.
- The **plan executor** runs the items of a plan one after another: segments, blocking operators and
  indexed products. A product or search asks the **vector service** for rows, builds the index if it
  is refused, asks again and, if all fails, goes on with the whole table or raises. The service keeps
  one index under each `cp_id`, for whoever uses that id.
- A **pin** is asked for by an operator and given back by the operator chain, a join tracker, the
  cleanup at the end of the query, the stuck monitor or a client of the unpin endpoint. Each of them
  sends the engine a call and awaits its reply; three of them may time out.
- In the **engine** a pinned block is out of the free queue although nobody references it. Requests
  with a common prefix share blocks, pinned or not, and may be preempted or aborted in between.
- **Data-parallel engines** must step together: those that run meet in an all-reduce every 32 steps
  and pause together when none has a request. A request that comes to a paused engine has to wake
  the others: the client tells the coordinator, which sends START_DP_WAVE to all engines but the one
  with the request, while requests, reports and ends of waves are under way.

## Modules

| Module | Stands for | Checked by |
|---|---|---|
| `KVManager` | the manager's methods, as operators on a record of its fields | everything that extends it |
| `Sums` | sums over finite sets, for the properties about bytes | everything that extends it |
| `KVBudget` | the manager as an object shared by any number of tasks | `kv_budget`, `KVBudget_proofs` |
| `PriorityQueue` | what a waiting list promises (abstract) | |
| `StageQueue` | `Stage`'s waiting list | `stage_queue`, `StageQueue_proofs` |
| `Dataflow` | what a segment promises (abstract) | |
| `PipelineTasks` | tasks, queues, join trackers and the moves of capacity, as operators | everything that extends it |
| `PipelineExecutor` | `AsyncPipelineExecutor.execute_tasks`, with the manager, the stages, the operators and the join trackers | `pipeline`, `nested_tracker`, `PipelineExecutor_proofs` |
| `PipelineDataflow` | the executor seen as a `Dataflow` (the refinement mapping) | `pipeline`, `PipelineExecutor_proofs` |
| `Planner` | `SemanticPlan.parse_ops` and `build` | `planner` |
| `BlockingExecutor` | `BlockingExecutor.execute_tasks`, several calls at once | `blocking` |
| `SemAgg`, `SemTopK` | the reducers | `plan` |
| `IndexedJoin` | indexed product and search, both backends of the vector service, the filter after the product | `plan` |
| `PlanExecutor` | `PlanExecutor.execute`, composing the three modules above | `plan` |
| `KVBlocks` | scheduler, KV cache manager and block pool of the engine | `kv_blocks`, `KVBlocks_proofs` |
| `PinLifecycle` | registry, operators' pins, cleanup, monitor, endpoint and the calls between them and the engine | `pins`, `pins_stuck`, `PinLifecycle_proofs` |
| `DPWaves` | clients, coordinator and engines of a data-parallel deployment | `dp_waves`, `dp_abort`, `DPWaves_proofs` |
| `MC*` | the instances for TLC | |

**KVManager, KVBudget.** `kv` is the record of the manager's dictionaries. An action is one method
call; the methods hold the manager's condition and do not suspend inside, so a call is one step. `charge` says which stage and
how many bytes a task holds. `lent` and `restarted` are history: how far a stage was forced over its
capacity, and whether `register_stage` has reset it under tasks that held budgets. The order in which
donors are tried (the hint, then by id) is the code's, and so are the quantum (5% of the capacity)
and the clamps at zero of `release_stage`.

**StageQueue.** `enqueue` inserts before the first task that is later in the order of (priority, task
id); `InsertIndex` is that position. `PriorityQueue` says what that is for: a set of tasks from which
the most urgent, and of those the oldest, is taken.

**PipelineTasks, PipelineExecutor.** `pc` and `cur` are the program counter of the loop: `LoopTop` (rebalance),
`LaunchHead` and `LeaveStage` (one attempt of `launch_ready_tasks`), `ForceLaunch`, `StartWait`,
`Wake` (the set `asyncio.wait` returns), one `Handle...` action for each branch of the handler, and
`Finished`. `RunOp`, `MapRetries` and `OpRaises` are steps of the launched coroutines; they run in
`asyncio.wait`, and on their own once the executor has raised. A handler is one step, with the
capacity moves that end it: what it awaits lets only other coroutines run, which touch their own
context only. A context is named by its place in the fan-out tree, so that lost and repeated tuples
show. A budget is any value of a small set, drawn again at each attempt, as the code estimates again.
`seg` is the segment that runs, one of several in an instance.

`Dataflow` is the promise: every input goes once through each stage, becomes the tuples the join
makes of it, and leaves early only if a predicate rejected it or it has no partner.
`ImplementsDataflow` maps a state of the executor to the set of contexts that are still alive and
those that are out.

**Planner.** The input is any sequence of logical operators; `parse_ops` makes physical ones of them,
`PinStep` runs `apply_pin_unpin` operator by operator, and `FuseOp`, `JoinOp`, `BlockingOp`,
`FlushSegment` and `TailFlush` are the branches of `build`. An operator is its behaviour and flags;
`task_priority` is what `Stage` makes of the offsets `build` gives.

**BlockingExecutor.** For each call: the producer's place (`at`), the queue, what the workers run.
A step is what runs between two awaits that suspend; `can_admit` and `allocate` do not when there is
room, so check and charge are one step. Waiting on the condition and being notified are explicit.

**SemAgg.** A context is its token length and the documents it stands for. A round chunks contexts
by tokens, runs the chunks' calls concurrently and collects the answers in order; an answer has any
length, and a call may raise. `Runs` is what `BlockingExecutor` makes of the calls of one query that has
the manager to itself: they are admitted in their order as far as their budgets fit the KV cache and
workers are left, and a call that raises takes its worker with it. The length of a prompt is what
`_chunk_by_tokens` counts for it.

**SemTopK.** Quickselect, whose pivot is the first context, and a ranking by insertion or merge, the
comparisons being the model's: by a fixed order (`right`) or any answer at all. A partition's
comparisons are one call of `BlockingExecutor`: it is not over if a pair does not fit the KV cache
(`fits`) or more comparisons are left than workers (`PartitionDeserted`).

**IndexedJoin.** One operator, its calls (one for each context) and what the service has under its
`cp_id`. `Serve` is a handler of the service, `_query_retrieval` the client's reaction to a reply,
`PostFails` a post that raises or times out; a build whose client gave up may still be served
(`ServeLate`). `OtherBuilds` is another operator with the same `cp_id`, `clear_cp` a clear or a restart
of the service. `Refuses` is what the service rejects: one threshold without the other, a range that is
none, a `top_k` that is missing or not positive. A row has a score; `Matches` are the rows the oracle accepts. A product asks for one
context after the other and blocks the event loop, a search asks in a thread for each.

**PlanExecutor.** `plan` is what is left of the plan, `ctxs` how many contexts there are, and an item
runs as the module that models it (`INSTANCE`, with the state of the three side by side). A plain
product between two blocking operators is an item of its own (`Product`). A segment is one step that
raises or returns some of the contexts its joins make of the given ones; how it gets there is
`PipelineExecutor`'s matter, and that it makes no others is what `Dataflow` says.

**KVBlocks.** One variable per field of block and request. `allocate_slots` is the whole method:
touch the hit, take new blocks and evict what they cached, cache what became full, pin. A hash is the
sequence of tokens up to the end of the block. `free` is the free queue as a set, which over-approximates
the eviction order. `ScheduleRunning`, `ScheduleWaiting` and `Preempt` are the branches of
`Scheduler.schedule`, with any number of tokens a budget may leave: a request is preempted when some
running one finds no room for the tokens it is given in this step, be it all it lacks or fewer. A
request's tokens are those it computes; the one that is sampled last is never computed, so a request
finishes with all of them computed.

**PinLifecycle.** `inbox` and `replied` carry the calls and their replies; a caller that gives up
leaves its call on the way, and it may still be carried out. The tuple's life is the operators':
a filter's or cascade's single pinned call, a classify's two calls, a map's pin and unpin for a retry.
All of them pin through `chatcomplete`; `complete` can register a pin too, but no operator pins with it.
`late`, `lost`, `forced` and `abandoned` are history: what was registered after its query's end, what
a raised call left behind, what monitor or endpoint took, what a cleanup that timed out left.

**DPWaves.** `client`, `coord` and `engine` hold what each process thinks the wave is and whether the
engines run; each link is a queue of its own. `Notify` is separate from `AddRequest` because another
task of the client sends the notification, with the wave it knows of by then. `Step` is a pass of
`run_busy_loop`; every `SyncSteps` of them an engine goes to the all-reduce, where it stays until
`AllReduce` finds all of them. `excuse` is history: that one of two races happened (see
[below](#where-code-and-comments-disagree)).

## Runs

| Run | Distinct states | Instance |
|---|---|---|
| `kv_budget` | 484,287 | 2 stages, 2 tasks, capacity 40 (quantum 2), budgets 3 and 19; stage 1 registered as the first of two or as the only one |
| `stage_queue` | 911 | 5 tasks at 3 priorities |
| `pipeline` | 171,552 | four segments of 2 stages: the whole queries map, join, filter, search; search, join, filter, map; map, join, icp filter, map; and the first segment of a longer one: classify, join, cascade, join; the first two with 2 inputs, the others with 1; fan-out 0 to 2, budgets 1 and 2 of capacity 3 |
| `nested_tracker` | (violation) | a query with two joins, 1 input |
| `planner` | 25,029 | all queries of up to 5 operators, estimates 0, 2, 4 of capacity 6 |
| `blocking` | 105,436 | 2 calls with up to 4 tasks together, 2 workers each, budgets 1, 2 and 4 of 3, 2 raising tasks |
| `plan` | 140,097 | 9 plans of up to 3 items with up to 6 contexts; lengths 1, 2 and 6 of a limit of 6; k = 1, 3, 4; 2 workers, room for 24 tokens, 2 calls that raise; fan-out 0 to 2; 10 indexed operators, 3 tables, 2 things that go wrong |
| `kv_blocks` | 100,282 | 3 requests with common prefixes, 2 of them pinned, 4 blocks of 2 tokens |
| `pins` | 1,375,920 | 2 tuples of a query, another query, 2 requests, 1 timeout |
| `pins_stuck` | 74,891 | 1 tuple, 2 requests, 2 confirmations, 1 timeout |
| `dp_waves` | 558,258 | 2 engines, 2 clients with a request each, one of which may be aborted; an all-reduce every 2 steps |
| `dp_abort` | (violation) | 2 engines, 1 client, 1 request that may be aborted |

**`kv_budget`.** *UsedExact*, *InflightExact*: the counters are the sums over the tasks that hold
something, and never more than that once `register_stage` has reset a stage under its holders: the
clamps hide nothing else. *OverCommitIsForced*: a stage is over its capacity by no more than was
forced on it. *CapacityMoves*: unless a stage is registered, a stage's capacity
changes only if exactly one other's does, by the same amount in the other direction, by at most a
quantum; the one that loses keeps what it has in use, the one that gains stays within its maximum.
Registration sets a capacity anew, so the sum of all is no invariant of the manager. The grants are what `build` computes for an early, a last and an only stage,
and the capacity is such that a move can be cut short by the donor's need and by the receiver's
maximum.

**`stage_queue`.** *QueueSorted*: strictly sorted at all times. *ImplementsPriorityQueue*: the list is
the abstract queue, so tasks of a priority leave in the order in which they came. Three priorities and
five tasks are enough for an insertion before, between and after equal ones.

**`pipeline`.** *Ledger*: on every path but the raising ones, what the manager charged to a stage is
what its launched tasks and open trackers hold. *PinCovered*: a pinned context runs, has an open
tracker, or waits to run again. *CleanReturn*: on a normal return nothing is charged or pinned. Both
except the results of a query that ends in an index search, which is [so in the
code](#where-code-and-comments-disagree).
*ImplementsDataflow*: no tuple is lost, repeated or passed on without its join. *Termination*: the
segment ends, although parents may hold all the memory their children need. Two inputs with two
children each are the least that has two parents of the same stage compete with their children;
capacity 3 with budgets up to 2 makes heads refused and forced; the last segment pins in both stages,
so that trackers nest, and ends in a join; between them the segments have every kind of operator.

**`nested_tracker`** is expected to fail: see [below](#where-code-and-comments-disagree).

**`planner`.** *OnlyJoinBeforeJoinLost*: the plan has the operators of the query in their order, but
for a join directly before another join, which is lost. *EarlyStagesFanOut*: each stage of a segment
but its last ends in a join, which `PipelineExecutor` relies on. *EveryPinGivenBack*: the flags are computed on the
flat list, and given back by what the fused one becomes. No operator has both; one that pins is the
first of a stage that fans out, whose tracker unpins, or whose last operator unpins; and one that unpins
is the last of a stage without a join whose first operator pins. *GrantsUsable*: each stage is registered with a
positive capacity between its minimum and maximum, none above the whole. *LaterIsMoreUrgent*: of two
tasks the one that is further on in the query has the more urgent priority, also across stages and
segments, so that memory drains towards the end. Five operators
are enough for two joins with an operator before, between and after them.

**`blocking`.** *GlobalUsedExact*: the global counter is the sum of the admitted budgets, also when a
task or a builder raises. *ResultsComplete*: a call that returns has the result of every task
that did not raise, once. *EveryCallEnds*: a call that has the manager to itself ends, unless a budget
is larger than the capacity, when its producer waits for ever, or its exceptions ended all its workers,
when `queue.join` does. *EndsStarvesOrDeserted*: beside another call there is one more way not to end,
to wait for a release that only the other makes, which does not notify it. Budget 4 of a capacity of 3
and as many exceptions as workers make both happen.

**`plan`.** Of `SemAgg`: *ChunksFit*: chunks are cut in order, those of several contexts are within the
token limit, and a cut is made only where the next did not fit. *EveryDocumentOnce*: between two rounds
each document is in one context, but for those of calls that raised. Of `SemTopK`: *EnoughAndOnce*:
min(k, N) distinct contexts whatever the model answers, less those whose comparison raised.
*BestInOrder*: the k best, best first, if the model compares by an order. Of `IndexedJoin`: *OneTable*:
the calls of an operator are answered from one table, unless the index was lost in between, whatever
builds come late, twice or from others. *GivesUpOnlyThen*: an operator with a table does without the
index only if a post failed, the index was lost, another table has the `cp_id` or the arguments are
refused; a product with a table never raises. *JoinAnswer*: what a join between two thresholds may add
to and miss of its reference definition, stated exactly. *Termination*: every plan that
has the manager to itself returns or raises, also if every answer is as long as the limit, unless a
call of `BlockingExecutor` hangs, and then for one of two reasons: a model call is too long for the KV
cache (a pair that `SemTopK` compares, or all the contexts at once, which `SemAgg` reduces when no two
fit its limit), or as many calls raised as there are workers. Both happen in the instance, to either
operator: six contexts of length 6 do not fit 24 tokens, and two raising calls end two workers. What
another query's calls do to this one is the matter of `blocking`. Five contexts reach both rankings with the merge
threshold at 3; the rows have scores at either threshold, between and above them, and the thresholds lie
above, around and below 0, the score of a fallback.

**`kv_blocks`.** *FreeQueueExact*, *RefCountExact*: the free queue is the unreferenced, unpinned blocks;
`ref_cnt` is the number of requests that have the block. *BlocksKeepTheirTokens*: the blocks of a
request hold its tokens. *PinnedPrefixStays*: until it is unpinned, a finished pinned request
keeps all its full blocks cached and out of the free queue, whatever happens to requests that share
them. *UnpinGivesAllBack*: when every request is over and unpinned, every block is free, if no pinned
request was preempted or aborted. Four blocks are too few for three requests of three blocks each, so that eviction,
preemption and sharing all happen.

**`pins`, `pins_stuck`.** *KeptIsKnown*: what the engine keeps is in the registry, awaited, or lost by
a call that raised, whatever times out or crosses. *PinHeld*: no other query's cleanup takes a
tuple's pin. *CleanupLeavesNothing*: a finished query leaves nothing but what was late, lost or
abandoned. *StuckIsRelieved*: if the scheduler never again reports to be well, each registered pin is
given back in the end.

**`dp_waves`.** *WavesAgree*: no two engines differ in their wave, and neither the coordinator nor a
client is ahead of them. *LeftBehindOnlyThen*: no engine stays paused, with nothing under way to wake
it, while another waits for it in the all-reduce, but after one of the two races below. *WavesEnd*: but
for these, every request that was sent ends and all engines come to rest. With two requests a wave can
end, or begin, while the request, the notification or the report of another is under way; an
all-reduce every 2 steps (32 in the code) lets a request come just before, just after and between.
**`dp_abort`** is expected to fail: see [below](#where-code-and-comments-disagree).

**Bounds.** Every bound is a constant: `MaxFanout`, `Inputs`, `MaxTasks`, `MaxOps`, `MaxRaises`,
`MaxTrouble`, `MaxGiveUps`, `MaxNews`, `Abortable`, `Seeds`. `MaxRaises`, `MaxTrouble` and `MaxGiveUps`
bound how often a fault happens, not when; `MaxNews` bounds how many repeated updates are under way. Symmetry is used only where the elements are interchangeable in specification and properties
(tasks of `kv_budget`, blocks of `kv_blocks`, requests and tuples of `pins`), and in no run with liveness.

**Deadlock** is checked where the loop must go on (`PipelineExecutor`, `Planner`, `KVBudget`,
`StageQueue`; their ends are explicit steps), and not where the system may be at rest.

**Fairness.**

| Specification | Fairness | Why the code gives it |
|---|---|---|
| `PipelineExecutor` | weak, of `Next` | one event loop that runs while anything is ready; every model call is answered or raises. Nothing more is needed: no step of a segment repeats for ever |
| `BlockingExecutor` | weak, of each call's producer and of its workers | the event loop is fair to ready coroutines. A producer at the condition is not ready until it is notified |
| `PlanExecutor` | weak, of `Next` | one event loop; a model call that runs ends or raises, and a post that is not answered times out after 60 seconds. A call of `BlockingExecutor` that hangs has no step to be fair to |
| `PinLifecycle` | weak, of the engine's service, the monitor's loop and the end of the cooldown | the engine's input loop, `while True` in the monitor, time. None of operators, queries and endpoint; timeouts are bounded by `MaxGiveUps` |
| `DPWaves` | weak, of the steps of clients' notifications, coordinator, engines and all-reduce together | the loops of the processes go on and ZeroMQ delivers; who goes first is left open, and no more is needed, since finitely many requests cause finitely many of these steps. Nothing of clients sending, aborting or taking news, or of the coordinator's timeout |

## Proofs

Proof modules: `KVBudget_proofs`, `StageQueue_proofs`, `KVBlocks_proofs`, `PinLifecycle_proofs`,
`DPWaves_proofs` and, for the pipeline executor, `PipelineTasks_proofs` (its data), `PipelineSteps_proofs`
(its steps) and `PipelineExecutor_proofs` (its invariant and theorems). Every theorem holds for all values of the constants that satisfy the named
assumptions, which TLC evaluates in the runs.

| Theorem | Says |
|---|---|
| `KVBudget_proofs!TypeCorrect` | counters stay natural numbers, charges well formed |
| `KVBudget_proofs!OnlyForceOverCommits` | no checked admission and no move of capacity overcommits a stage |
| `KVBudget_proofs!CapacityBounded` | borrowing and returning keep a stage within its maximum |
| `KVBudget_proofs!CapacityMovesBalance` | but for registration, what one stage gains exactly one other loses, at most a quantum, not from what is in use and not beyond a maximum |
| `KVBudget_proofs!InflightIsExact` | `inflight` counts the holders, and never more after a restart |
| `KVBudget_proofs!UsedIsExact` | `used` is the sum of the budgets held, and never more after a restart |
| `StageQueue_proofs!StaysSorted` | the waiting list is strictly sorted |
| `StageQueue_proofs!FreshTaskIsLastOfItsPriority` | the tasks before a new one's place are exactly those at least as urgent as it |
| `StageQueue_proofs!StageIsPriorityQueue` | the list implements `PriorityQueue` |
| `PipelineExecutor_proofs!LedgerHolds` | what a stage is charged is what its launched tasks and open trackers hold |
| `PipelineExecutor_proofs!PinCoveredHolds` | a pinned context has somebody left to unpin it |
| `PipelineExecutor_proofs!CleanReturnHolds` | a segment returns the manager empty and leaves nothing pinned |
| `PipelineExecutor_proofs!PipelineIsDataflow` | the executor implements `Dataflow` |
| `KVBlocks_proofs!FreeQueueIsExact` | the free queue is exactly the unreferenced, unpinned blocks |
| `KVBlocks_proofs!RefCountIsExact` | `ref_cnt` is the number of holders |
| `KVBlocks_proofs!BlocksKeepTokens` | the cached blocks of a request carry the hashes of its own tokens |
| `KVBlocks_proofs!PinnedPrefixKept` | a finished pinned request keeps its full blocks until it is unpinned |
| `KVBlocks_proofs!UnpinGivesBack` | once all is over and unpinned, every block is free |
| `PinLifecycle_proofs!KeptIsAlwaysKnown` | what the engine keeps is registered, awaited or lost |
| `PinLifecycle_proofs!PinIsHeld` | nobody but monitor and endpoint takes a pin that a running query's tuple holds |
| `PinLifecycle_proofs!CleanupAlwaysLeavesNothing` | what a finished query may leave behind |
| `DPWaves_proofs!WavesAlwaysAgree` | engines agree on the wave, nobody is ahead of them |
| `DPWaves_proofs!LeftBehindOnlyThenProved` | no engine is left behind, but after the two races |

**KVBudget.** Assumptions: a positive capacity, stage ids in `Nat`, positive budgets, grants with
min <= cap <= max, finitely many tasks. What a method does to the record is stated once per method
(`ChargedType`, `ReleasedType`, `BorrowBounds`, `ReturnBounds`, `MovedType`), and every move of
capacity is shown to be one step of one form (`CapacityEffect`): q of 1..Quantum bytes from d to r,
where d can spare them and r has room. The invariants are then inductive together with `TypeOK`:
`OverCommitIsForced` needs `lent`, since `used <= cap` alone is not preserved by a forced admission.
`UsedIsExact` is about a sum over a set of tasks, which a charge and a release change by one term. What a
sum over a finite set is (`SumAdd`, `SumRemove` and the like, in `PipelineTasks_proofs`, which this
module extends for them) is derived from the definition of `MapThenFoldSet` by the smallest
counterexample: a set of least cardinality among those for which the statement fails has an element to
take away, and what is left is smaller.

**StageQueue.** Assumptions: priorities are integers. The inductive invariant adds to `QueueSorted`
that every queued id has been drawn (`IdsDrawn`): without it a new task could equal a queued one and
the order would not be strict. `InsertIndexProperty` and `InsertKeepsSorted` say where the position is
and what inserting there gives; the refinement then shows each action to be the abstract one, with the set of queued
tasks as the mapping.

**PipelineExecutor.** Assumptions: a segment has a first and a last stage and they are registered with
min <= cap <= max, a chain has an operator, every stage but the last ends in a join, budgets are
positive, fan-out and inputs bounded (by any bound). The invariant `PInv` has these layers:

- `Placed`: a task is in one place, once in the queue of its stage or in the active set.
- `Tree`: of two live contexts none is at or above the other in the fan-out tree, and no live context
  is at or above one that has had a tracker. So a context never comes back, no tracker is overwritten,
  and a task's context tells it apart.
- `Counted`: a tracker counts no more children than there are live tasks that carry it. So no tracker is
  open when no task is left. (It may count fewer: that is `nested_tracker`.)
- `Ledger` itself: with `Tree`, a new tracker takes over exactly the budget its parent held, and a counter
  goes through zero once, in whatever order results come.
- `PinsOwed`: only the first operator of a chain pins; a task that was dropped is not pinned; one that has
  passed and is not to fan out is pinned only after an index search; one that asks for a retry only if the
  operator is not the first.
- `PinCovered` itself and `Returns`: when the segment has returned there are no tasks.

`PipelineTasks_proofs` has the facts about queues, the tree, counters and sums, without any state;
`PipelineSteps_proofs` says of each step that it keeps the types, the first three layers and the books, and
which tasks are left; `PipelineExecutor_proofs` has the pins, the invariant and the refinement. For `PipelineIsDataflow`, `Tree` shows that
a handler takes one tuple away and adds its children, and that a tuple is rejected only once.

**KVBlocks.** Assumptions: finitely many blocks and requests, a positive block size, tokens that are
numbers and are not `None`. The inductive
invariant is both exactness properties, types, and `WaitingHasNone`: a waiting request has no blocks.
That one is what makes a prefix hit sound: the request did not hold the hit blocks yet, so that adding
one to each `ref_cnt` keeps it the number of holders. `AllocateKeeps` and `FreeKeeps` say what the two
methods do; preemption, finish, abort and unpin are all uses of the second. `BlocksKeepTokens` adds
`Places`: a running request has cached what its computed tokens fill, and a finished one all its full
blocks; no request has a block twice; and a block without a hash has one holder at most, so that giving
it one changes nothing for another. `PinnedPrefixKept` follows from both, `UnpinGivesBack` from `PinsOwned`: what is pinned is
held by a pinned request, unless one was preempted.

**PinLifecycle.** Assumptions: every tuple has a query; tuples, queries, monitor and endpoint are
different callers. When a reply arrives its caller strikes what it asked for from the registry; that
is right only if none of it is kept, and none is, because of how calls are made. The inductive
invariant `IInv` says so: a caller waits for one call at a time, the call on its way (or the reply)
carries what the caller waits for, all of it had ended before (and a request ends once, so it is not
kept again after the engine unpinned it), and what is registered had ended too. `PinIsHeld` adds
`Held`: nobody has asked to unpin a request that a tuple of a running query relies on, unless it is
`forced`; for that, a request belongs to one tuple, and its owner is the tuple's query.
`CleanupAlwaysLeavesNothing` adds `Settled`: while a cleanup waits, what its query has in the registry
or the engine is in the list it sent or among the excused. Timeouts are any number.

**DPWaves.** Assumptions: engine 0 exists, every request has a client, at least one step between
all-reduces. `WavesAgree` is not inductive: a START_DP_WAVE of a later wave, or a stale end of a wave,
would break it. The invariant adds that the wave in every request, update and START_DP_WAVE under way is
no later than the coordinator's, and that in every report no later than the engines'; for a
`wave_complete` it is strictly earlier, so that the coordinator, which moves to the wave after it, does
not pass them. Nothing needs to be known of the notifications: their wave is only compared.
`LeftBehindOnlyThenProved` adds `Waking`, what is on its way and what it will do. If an engine is awake,
or will be by a request of this wave, then the coordinator has started the wave or something is on its
way that will make it (`Causes`); once it has, every engine is awake, has a request coming or a
START_DP_WAVE that does not exclude it (`Excluded`). When nothing is on its way, an engine in the
all-reduce means that all are awake. The two races are the two steps that break `Excluded`.

Only model-checked:

- liveness (`Termination`, `EveryCallEnds`, `EndsStarvesOrDeserted`, `StuckIsRelieved`, `WavesEnd`), which
  is out of the prover's reach;
- `Planner`, `SemAgg`, `SemTopK` and `IndexedJoin` with the `PlanExecutor` that composes them: what they
  compute is defined by recursion or folds over sequences, and their properties are about the whole
  sequence. The theorems of induction take an operator as a parameter, which the provers do not
  instantiate; the smallest counterexample, which serves for the sums above, would have to be set up
  for every function anew;
- `BlockingExecutor`: `GlobalUsedExact` and `ResultsComplete` are like `UsedExact` and `Dataflow` and are not
  yet proved.

## Where code and comments disagree

**`nested_tracker`** (`execution/pipeline_execution.py:470`). A tracker is created with the number of
children of its parent (`:473`) and logs what is left as `remaining_children` (`:75`). A task carries
the trackers of all its ancestors, and `finalize_task` (`:189`) counts down every one of them, so a
leaf two joins below counts down its grandparent's tracker too. With two joins in a segment the
counter reaches zero, and the grandparent is unpinned and its budget released, while children of it
are still waiting or running; TLC finds the counterexample with two. Even so each budget is released
once (`Ledger`): an early release, not a double one.

**`dp_abort`** (`v1/engine/coordinator.py:281`). The coordinator sends START_DP_WAVE to all engines but
the one that has the request, which "has already received a request with this wave number and so
doesn't require additional notification" (`:367`). But receiving a request does not make an engine run:
`add_request` (`v1/engine/core.py:1228`) leaves `engines_running` alone, and only the step for the
request sets it. If the client aborts the request so early that the engine finds both messages in its
queue (`:941`), there is nothing to step for, and `run_busy_loop` goes on at `:1285` with the engine
paused, although "Engines will move into running state when receiving a new request"
(`coordinator.py:50`). The other engines step to the all-reduce and wait there, until some later
message wakes the one left behind. `LeftBehindOnlyThen` shows that there is one more way to get there,
without an abort: the notification carries the wave the client knows of when its task comes to send
it (`v1/engine/core_client.py:1124`). If the client meanwhile learned of a new wave, the coordinator takes
a request of the old wave for one of the new and excludes its engine; if that engine had already done
the request, in the old wave, it is paused.

In other places, too, the models follow the code:

- `execution/pipeline_execution.py:220` says "Grow any stage with a saturated queue"; what grows is
  `stages[-1]` (`:227`), the last.
- `test.py` tests a copy of `apply_pin_unpin` of its own (`test.py:63`), which differs from the one in
  use (`controller/plan.py:207`) in two cases. A chain before a blocking operator is pinned and
  unpinned in the test (Case 4, `test.py:168-173`) and gets no flags in the code. A chain of several
  operators after a join, at the end of the query, gets no flags in the test (Case 8,
  `test.py:199-204`) and is pinned and unpinned in the code. Either way every pin is given back:
  `EveryPinGivenBack` holds of the flags in both, and the model follows the code.
- The last operator of a query is given the unpin flag whatever it is (`controller/plan.py:235`), but an
  index search looks at neither flag (`sem_ops/joins.py:250`). What an earlier operator of its chain
  pinned stays pinned, without a budget, until the cleanup at the end of the query
  (`query_processor.py:162`). `PinCovered` and `CleanReturn` allow exactly that.
- `ICPFilter` accepts a pair whose score is at or above the higher threshold
  (`sem_ops/filters.py:215`), but the service has already left such rows out
  (`icp/vector_service.py:152`): of an index's rows none gets there, and the best are missing from the
  join. The scores of a fallback are 0.0 (`sem_ops/joins.py:136`), so `ICPFilter` rejects all its rows
  if the lower threshold is 0 or more. Equal thresholds pass `ICPFilter`'s constructor (`:190`) and are
  refused by the service (`:142`), which means a fallback always. `JoinAnswer` states what remains true.
- A query without a build is answered from whatever index is under its `cp_id`
  (`icp/vector_service.py:211`), be it another table's; `build_index` alone compares (`:180`).
- `v1/core/block_pool.py:377` says that `ref_cnt=0` means a block is in the free list; pinned blocks
  are not (`:403`). `touch` tests both, and `FreeQueueExact` states the exact relation.

## Not modelled

- **Most of vLLM**. `src/` is the whole of vLLM, some 443,000 lines, of which Kalypso is about one in a
  hundred. Models and layers, attention backends and kernels, the model runner, compilation,
  quantisation, multimodal processing, LoRA and platforms are numerical code and tables; tokenizers,
  parsers and servers convert text: there is little state in them for a model checker. Multi-process
  executors, KV connectors and offloading do have protocols of their own; they are not modelled, since
  Kalypso neither changes nor depends on them. So the share of `src/` that these modules stand for is
  about one in a hundred lines, and would stay small with those; of Kalypso's own state they cover
  nearly all that changes it.
- **Of the data-parallel protocol**: load statistics (any engine may be chosen), elastic scaling,
  start-up and the death of a process.
- **Embeddings**: a row has a score, and the tables are given.
- **Map ratio estimator**: numerical; estimates are a free choice wherever they are used. That the end of
  a query clears the ratios and statistics of all (`controller/plan.py:504`) makes estimates worse, and
  is covered by that choice.
- **Prompts, contexts, data sources, cascades' thresholds**: formatting and numbers. What they decide
  (pass, reject, pin or not) is a free choice.
- **Real time**: timeouts and cooldowns may happen at any point. That the indexed product blocks the
  event loop for up to 60 seconds is not visible.
- **The engine beyond pinning**: token budgets and policies (any choice of them), attention types
  other than full attention, encoder inputs, speculative decoding, connectors, events and metrics.
- **Legacy pipeline, benchmark clients, statistics and logging.**
- **Concurrent queries in one pipeline executor model**: their interference is through the manager
  only and is in `KVBudget` (restarts under holders) and `BlockingExecutor` (two calls).

## What could follow

1. `BlockingExecutor`: proofs of `GlobalUsedExact` and `ResultsComplete`, with the lemmas on sums.
2. `Planner`: proofs of `EarlyStagesFanOut` and `LaterIsMoreUrgent`.
3. `KVBlocks`: `FreeKVCacheBlockQueue` as the doubly linked list it is, refining the set `free`.
