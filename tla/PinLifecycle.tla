---------------------------- MODULE PinLifecycle ----------------------------
(***************************************************************************)
(* Who gives a pin back.  An operator asks the engine for a pinned request *)
(* (execution/vllm_executor.py), which is entered in PinnedRequestRegistry *)
(* (pin_registry.py) when its answer arrives and is remembered by the      *)
(* tuple.  It is unpinned by the tuple, by the cleanup at the end of the   *)
(* query, by the stuck monitor (query_processor.py) or by the endpoint     *)
(* /v1/semantic/pinned/unpin.  All four send the engine a utility call,    *)
(* wait for its reply and then remove the entry; all but the first give up *)
(* after a timeout, and the call may still be carried out.                 *)
(*                                                                         *)
(* What blocks a request has is the matter of KVBlocks.  Here the engine   *)
(* keeps a pinned request that ended, also by an abort, until an unpin.    *)
(***************************************************************************)
EXTENDS Integers, Sequences

CONSTANTS
  Queries,
  Tuples,
  QueryOf,     \* the query of a tuple
  Requests,    \* ids of pinned requests
  Monitor, Endpoint,   \* the two callers that belong to no query
  Nobody,      \* sender of a call whose sender gave up
  None,        \* no request
  STUCK_CONFIRMATION_COUNT,
  MaxGiveUps   \* bound on the calls that time out

ASSUME QueryOfAssumption == QueryOf \in [Tuples -> Queries]
ASSUME CountAssumption   == STUCK_CONFIRMATION_COUNT \in Nat \ {0}
ASSUME GiveUpsAssumption == MaxGiveUps \in Nat
ASSUME NoneAssumption    == None \notin Requests \cup Queries

Callers == Tuples \cup Queries \cup {Monitor, Endpoint}

ASSUME CallersAssumption ==
  /\ Tuples \cap Queries = {} /\ {Monitor, Endpoint} \cap (Tuples \cup Queries) = {}
  /\ Monitor # Endpoint /\ Nobody \notin Callers

VARIABLES
  owner,        \* the query a request was made for, or None
  ended,        \* requests that ended in the engine
  kept,         \* requests whose blocks the engine keeps
  entries,      \* ids in PinnedRequestRegistry
  at,           \* where a tuple is
  req,          \* the request the tuple asked for last
  pin_req_id,   \* ctx.state.pin_req_id
  query,        \* "running", "cleaning" or "done"
  inbox,        \* unpin calls on their way to the engine
  replied,      \* callers whose reply is on its way back
  ids,          \* request_ids of a caller
  calling,      \* which of Monitor and Endpoint wait for a reply
  stuck_checks, timeout_checks,   \* _consecutive_stuck_checks and _timeout_checks
  cooling,      \* UNPIN_COOLDOWN_SEC has not passed since _last_unpin_at
  giveups,
  late, lost, forced, abandoned   \* history: see the properties

tuple   == <<at, req, pin_req_id>>
rpc     == <<inbox, replied, ids>>
monitor == <<stuck_checks, timeout_checks, cooling>>
history == <<late, lost, forced, abandoned>>
vars == <<owner, ended, kept, entries, tuple, query, rpc, calling, monitor, giveups, history>>

Init ==
  /\ owner = [r \in Requests |-> None] /\ ended = {} /\ kept = {} /\ entries = {}
  /\ at = [t \in Tuples |-> "idle"] /\ req = [t \in Tuples |-> None]
  /\ pin_req_id = [t \in Tuples |-> None]
  /\ query = [q \in Queries |-> "running"]
  /\ inbox = <<>> /\ replied = {} /\ ids = [c \in Callers |-> {}] /\ calling = {}
  /\ stuck_checks = 0 /\ timeout_checks = 0 /\ cooling = FALSE
  /\ giveups = 0 /\ late = {} /\ lost = {} /\ forced = {} /\ abandoned = {}

-----------------------------------------------------------------------------
(* Utility calls. *)

call_utility_async(c, S) ==
  /\ inbox' = Append(inbox, [from |-> c, ids |-> S])
  /\ ids' = [ids EXCEPT ![c] = S]
  /\ UNCHANGED replied

(* EngineCore.unpin_request and unpin_requests, and the reply. *)
EngineUnpins ==
  /\ inbox # <<>>
  /\ kept' = kept \ Head(inbox).ids
  /\ replied' = replied \cup ({Head(inbox).from} \ {Nobody})
  /\ inbox' = Tail(inbox)
  /\ UNCHANGED <<owner, ended, entries, tuple, query, ids, calling, monitor, giveups, history>>

(* The reply arrives: the caller removes what it asked for. *)
Replied(c) ==
  /\ c \in replied
  /\ replied' = replied \ {c}
  /\ entries' = entries \ ids[c]
  /\ ids' = [ids EXCEPT ![c] = {}]
  /\ UNCHANGED <<owner, ended, kept, inbox, giveups>>

\* Mutant of GiveUp: the entries are removed all the same.
GiveUpRemoving(c) ==
  /\ giveups < MaxGiveUps
  /\ giveups' = giveups + 1
  /\ inbox' = [j \in DOMAIN inbox |->
                 IF inbox[j].from = c THEN [inbox[j] EXCEPT !.from = Nobody] ELSE inbox[j]]
  /\ replied' = replied \ {c}
  /\ entries' = entries \ ids[c]
  /\ ids' = [ids EXCEPT ![c] = {}]
  /\ UNCHANGED <<owner, ended, kept, tuple>>

(* wait_for gives up; the call is not taken back. *)
GiveUp(c) ==
  /\ giveups < MaxGiveUps
  /\ giveups' = giveups + 1
  /\ inbox' = [j \in DOMAIN inbox |->
                 IF inbox[j].from = c THEN [inbox[j] EXCEPT !.from = Nobody] ELSE inbox[j]]
  /\ replied' = replied \ {c}
  /\ ids' = [ids EXCEPT ![c] = {}]
  /\ UNCHANGED <<owner, ended, kept, entries, tuple>>

-----------------------------------------------------------------------------
(* A tuple and its operators. *)

Move(t, to) == at' = [at EXCEPT ![t] = to]

(* VLLMExecutor.execute with pin set; tuples are launched by a query that  *)
(* runs.                                                                   *)
Execute(t, r) ==
  /\ at[t] = "idle" /\ query[QueryOf[t]] = "running"
  /\ owner[r] = None
  /\ owner' = [owner EXCEPT ![r] = QueryOf[t]]
  /\ req' = [req EXCEPT ![t] = r] /\ Move(t, "called")
  /\ UNCHANGED <<ended, kept, entries, pin_req_id, query, rpc, calling, monitor, giveups, history>>

(* A pinned request ends in the engine, by itself or aborted. *)
EngineEnds(r) ==
  /\ owner[r] # None /\ r \notin ended
  /\ ended' = ended \cup {r} /\ kept' = kept \cup {r}
  /\ UNCHANGED <<owner, entries, tuple, query, rpc, calling, monitor, giveups, history>>

(* The answer arrives, and is registered (chatcomplete: the prompts of the *)
(* operators that pin are lists of messages).                              *)
Answered(t) ==
  /\ at[t] = "called" /\ req[t] \in ended
  /\ entries' = entries \cup {req[t]}
  /\ late' = IF query[QueryOf[t]] = "running" THEN late ELSE late \cup {req[t]}
  /\ UNCHANGED <<owner, ended, kept, req, query, calling, monitor, giveups, lost, forced, abandoned>>

\* Filter, cascade and map.
PinAnswered(t) ==
  /\ Answered(t)
  /\ pin_req_id' = [pin_req_id EXCEPT ![t] = req[t]] /\ Move(t, "held")
  /\ UNCHANGED rpc

\* Classify has another call to make before it remembers the pin.
ClassifyAnswered(t) ==
  /\ Answered(t)
  /\ Move(t, "second")
  /\ UNCHANGED <<pin_req_id, rpc>>

\* A map whose answer was cut off unpins it, to be launched again.
MapAnswered(t) ==
  /\ Answered(t)
  /\ call_utility_async(t, {req[t]}) /\ Move(t, "retry")
  /\ UNCHANGED pin_req_id

SecondAnswered(t) ==
  /\ at[t] = "second"
  /\ pin_req_id' = [pin_req_id EXCEPT ![t] = req[t]] /\ Move(t, "held")
  /\ UNCHANGED <<owner, ended, kept, entries, req, query, rpc, calling, monitor, giveups, history>>

(* A call raises: the client went away and the call was cancelled, or the  *)
(* engine failed.  It is the pinned call, whose request may still end in   *)
(* the engine, or that of an operator before or after it.                  *)
CallRaises(t) ==
  /\ \/ at[t] \in {"called", "second", "held"}
     \/ at[t] = "idle" /\ query[QueryOf[t]] = "running"
  /\ lost' = IF at[t] = "called" THEN lost \cup {req[t]} ELSE lost
  /\ Move(t, "raised")
  /\ UNCHANGED <<owner, ended, kept, entries, req, pin_req_id, query, rpc, calling, monitor,
                 giveups, late, forced, abandoned>>

(* VLLMExecutor.unpin, by an operator or a join tracker. *)
unpin(t) ==
  /\ at[t] = "held"
  /\ call_utility_async(t, {pin_req_id[t]}) /\ Move(t, "unpinning")
  /\ UNCHANGED <<owner, ended, kept, entries, req, pin_req_id, query, calling, monitor, giveups, history>>

UnpinDone(t) ==
  /\ Replied(t)
  /\ pin_req_id' = [pin_req_id EXCEPT ![t] = None]
  /\ Move(t, IF at[t] = "retry" THEN "idle" ELSE "done")
  /\ UNCHANGED <<req, query, calling, monitor, history>>

\* No operator unpins: the tuple leaves the query with its pin.
Leave(t) ==
  /\ at[t] \in {"idle", "held"}
  /\ Move(t, "done")
  /\ UNCHANGED <<owner, ended, kept, entries, req, pin_req_id, query, rpc, calling, monitor,
                 giveups, history>>

-----------------------------------------------------------------------------
(* QueryProcessor.execute ends: every tuple is through, or one raised and  *)
(* the others are left to run.                                             *)

\* Mutants of list_by_owner: everybody's; only what tuples remember.
ListAll(q) == entries
ListHeld(q) == {r \in entries : \E t \in Tuples : QueryOf[t] = q /\ pin_req_id[t] = r}
list_by_owner(q) == {r \in entries : owner[r] = q}

PlanEnds(q) ==
  \/ \A t \in Tuples : QueryOf[t] = q => at[t] = "done"
  \/ \E t \in Tuples : QueryOf[t] = q /\ at[t] = "raised"

_cleanup_query_pins(q) ==
  /\ query[q] = "running" /\ PlanEnds(q)
  /\ IF list_by_owner(q) = {}
     THEN query' = [query EXCEPT ![q] = "done"] /\ UNCHANGED rpc
     ELSE /\ query' = [query EXCEPT ![q] = "cleaning"]
          /\ call_utility_async(q, list_by_owner(q))
  /\ UNCHANGED <<owner, ended, kept, entries, tuple, calling, monitor, giveups, history>>

CleanupDone(q) ==
  /\ Replied(q)
  /\ query' = [query EXCEPT ![q] = "done"]
  /\ UNCHANGED <<tuple, calling, monitor, history>>

CleanupTimesOut(q) ==
  /\ query[q] = "cleaning"
  /\ GiveUp(q)
  /\ query' = [query EXCEPT ![q] = "done"]
  /\ abandoned' = abandoned \cup ids[q]
  /\ UNCHANGED <<calling, monitor, late, lost, forced>>

-----------------------------------------------------------------------------
(* The stuck monitor and the endpoint: a set of entries is unpinned.       *)

UnpinSet(c, S) ==
  /\ call_utility_async(c, S)
  /\ calling' = calling \cup {c}
  /\ forced' = forced \cup S
  /\ UNCHANGED <<late, lost, abandoned>>

Capped(n) == IF n < STUCK_CONFIRMATION_COUNT THEN n ELSE STUCK_CONFIRMATION_COUNT

Confirmed(n) == n >= STUCK_CONFIRMATION_COUNT

(* What follows a check that says stuck, or does not come back, for the    *)
(* n-th time.                                                              *)
Relieve(n) ==
  /\ IF Confirmed(n) /\ entries # {} /\ ~cooling
     THEN UnpinSet(Monitor, entries)
     ELSE UNCHANGED <<rpc, calling, history>>
  /\ UNCHANGED <<owner, ended, kept, entries, tuple, query, cooling, giveups>>

CheckFine ==
  /\ Monitor \notin calling
  /\ stuck_checks' = 0 /\ timeout_checks' = 0
  /\ UNCHANGED <<owner, ended, kept, entries, tuple, query, rpc, calling, cooling, giveups, history>>

CheckStuck ==
  /\ Monitor \notin calling
  /\ stuck_checks' = Capped(stuck_checks + 1) /\ timeout_checks' = 0
  /\ Relieve(stuck_checks')

\* Mutant of CheckTimesOut: the checks that said stuck are forgotten.
CheckTimesOutForgets ==
  /\ Monitor \notin calling
  /\ timeout_checks' = Capped(timeout_checks + 1) /\ stuck_checks' = 0
  /\ Relieve(timeout_checks')

CheckTimesOut ==
  /\ Monitor \notin calling
  /\ timeout_checks' = Capped(timeout_checks + 1) /\ UNCHANGED stuck_checks
  /\ Relieve(timeout_checks')

MonitorDone ==
  /\ Replied(Monitor)
  /\ calling' = calling \ {Monitor}
  /\ stuck_checks' = 0 /\ timeout_checks' = 0 /\ cooling' = TRUE
  /\ UNCHANGED <<tuple, query, history>>

CooledDown ==
  /\ cooling /\ cooling' = FALSE
  /\ UNCHANGED <<owner, ended, kept, entries, tuple, query, rpc, calling, stuck_checks,
                 timeout_checks, giveups, history>>

(* unpin_pinned_requests: the ids asked for that are registered. *)
unpin_pinned_requests(S) ==
  /\ Endpoint \notin calling /\ S # {}
  /\ UnpinSet(Endpoint, S)
  /\ UNCHANGED <<owner, ended, kept, entries, tuple, query, monitor, giveups>>

EndpointDone ==
  /\ Replied(Endpoint)
  /\ calling' = calling \ {Endpoint}
  /\ UNCHANGED <<tuple, query, monitor, history>>

UnpinTimesOut(c) ==
  /\ c \in calling
  /\ GiveUp(c)
  /\ calling' = calling \ {c}
  /\ UNCHANGED <<query, monitor, history>>

TupleStep(t) ==
  \/ \E r \in Requests : Execute(t, r)
  \/ PinAnswered(t) \/ ClassifyAnswered(t) \/ MapAnswered(t) \/ SecondAnswered(t)
  \/ CallRaises(t) \/ unpin(t) \/ UnpinDone(t) \/ Leave(t)
QueryStep(q) == _cleanup_query_pins(q) \/ CleanupDone(q) \/ CleanupTimesOut(q)
MonitorStep == CheckFine \/ CheckStuck \/ CheckTimesOut \/ MonitorDone
EndpointStep == EndpointDone \/ \E S \in SUBSET entries : unpin_pinned_requests(S)

Next ==
  \/ EngineUnpins \/ \E r \in Requests : EngineEnds(r)
  \/ \E t \in Tuples : TupleStep(t)
  \/ \E q \in Queries : QueryStep(q)
  \/ MonitorStep \/ CooledDown \/ EndpointStep
  \/ \E c \in {Monitor, Endpoint} : UnpinTimesOut(c)

Spec == Init /\ [][Next]_vars

(* The engine serves its calls, the monitor's loop runs on and time        *)
(* passes.                                                                 *)
FairSpec == Spec /\ WF_vars(EngineUnpins) /\ WF_vars(MonitorStep) /\ WF_vars(CooledDown)

-----------------------------------------------------------------------------

Awaited == {req[t] : t \in {u \in Tuples : at[u] = "called"}}

(* What the engine keeps can be found in the registry, so somebody can     *)
(* unpin it: but for a request whose answer is still awaited and one whose *)
(* call raised.  Timeouts, and unpins that cross each other, do not make   *)
(* the registry forget a request that is kept.                             *)
KeptIsKnown == kept \subseteq entries \cup Awaited \cup lost

(* A tuple of a running query that holds a pin can rely on it, whatever    *)
(* other queries clean up, unless the monitor or the endpoint took it.     *)
PinHeld ==
  \A t \in Tuples :
    at[t] = "held" /\ query[QueryOf[t]] = "running" /\ pin_req_id[t] \notin forced
      => pin_req_id[t] \in kept \cap entries

(* When a query is over, nothing of it is kept or registered, but for what *)
(* is awaited or was registered by tuples left to run, what a raised call  *)
(* lost and what a cleanup that timed out abandoned.                       *)
CleanupLeavesNothing ==
  \A q \in Queries :
    query[q] = "done" =>
      {r \in kept \cup entries : owner[r] = q} \subseteq late \cup Awaited \cup lost \cup abandoned

(* When the checks never again say that all is well, whatever is in the    *)
(* registry is unpinned in the end, also if some unpins time out and the   *)
(* cooldown puts others off.                                               *)
StuckIsRelieved ==
  <>[][~CheckFine]_vars => \A r \in Requests : [](r \in entries => <>(r \notin kept))
=============================================================================
