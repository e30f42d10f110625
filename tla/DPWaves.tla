------------------------------ MODULE DPWaves ------------------------------
(***************************************************************************)
(* The request waves of a data-parallel deployment (v1/engine: DPAsync-    *)
(* MPClient, DPCoordinatorProc, DPEngineCoreProc).  The engines step       *)
(* together: every SyncSteps steps they meet in an all-reduce that tells   *)
(* whether one of them has a request left; if none has they all pause, and *)
(* the wave is over.  A paused engine has to be woken when another gets a  *)
(* request, or that one waits for it in the all-reduce.                    *)
(*                                                                         *)
(* Every link is a queue of its own, so messages of different senders meet *)
(* in any order.  Abstracted: what a request asks for (it needs a number   *)
(* of steps), the load statistics (any engine may be chosen), and scaling. *)
(***************************************************************************)
EXTENDS Integers, Sequences

CONSTANTS
  Engines,    \* 0 is the rank that reports the end of a wave
  Clients,
  Requests,
  Owner,      \* Owner[r]: the client that sends r
  SyncSteps,  \* 32 in _has_global_unfinished_reqs
  Needs,      \* Needs[r]: the steps r needs
  Abortable,  \* the requests whose client may abort them
  MaxNews     \* bound on the updates on their way to a client

ASSUME EnginesAssumption  == Engines \subseteq Nat /\ 0 \in Engines
ASSUME OwnerAssumption    == Owner \in [Requests -> Clients]
ASSUME StepsAssumption    == SyncSteps \in Nat \ {0} /\ Needs \in [Requests -> Nat \ {0}]
ASSUME DPBoundsAssumption == Abortable \subseteq Requests /\ MaxNews \in Nat \ {0}

VARIABLES
  client,   \* of each client: current_wave, engines_running
  coord,    \* of the coordinator: the same
  engine,   \* of each engine: the same, step_counter, and where its loop is
  req,      \* of each request: its state, its engine and the steps it still needs
  notice,   \* FIRST_REQ notes to the task of each client that talks to the coordinator
  news,     \* updates on their way from the coordinator to each client
  first,    \* messages on their way from each client to the coordinator
  report,   \* messages on their way from each engine to the coordinator
  starts,   \* START_DP_WAVE on their way from the coordinator to each engine
  input,    \* ADD and ABORT on their way from each client to each engine
  excuse    \* history: how an engine came to be left out of a wave

queues == <<notice, news, first, report, starts, input>>
vars == <<client, coord, engine, req, queues, excuse>>

None == -1   \* no engine is excluded

Unfinished(e) == {r \in Requests : req[r].state = "in" /\ req[r].eng = e}

Ended(how) == [state |-> how, eng |-> None, left |-> 0]

Init ==
  /\ client = [c \in Clients |-> [wave |-> 0, running |-> FALSE]]
  /\ coord = [wave |-> 0, running |-> FALSE]
  /\ engine = [e \in Engines |-> [wave |-> 0, running |-> FALSE, step |-> 0, at |-> "loop"]]
  /\ req = [r \in Requests |-> [state |-> "new", eng |-> None, left |-> 0]]
  /\ notice = [c \in Clients |-> <<>>] /\ news = [c \in Clients |-> <<>>]
  /\ first = [c \in Clients |-> <<>>] /\ report = [e \in Engines |-> <<>>]
  /\ starts = [e \in Engines |-> <<>>]
  /\ input = [c \in Clients |-> [e \in Engines |-> <<>>]]
  /\ excuse = FALSE

-----------------------------------------------------------------------------
(* The client. *)

(* add_request_async: the request goes to an engine with the wave the      *)
(* client knows of, and the task that talks to the coordinator is told if  *)
(* the engines are thought to be paused.                                   *)
AddRequest(r, e) ==
  LET c == Owner[r] IN
  /\ req[r].state = "new"
  /\ req' = [req EXCEPT ![r] = [state |-> "sent", eng |-> e, left |-> Needs[r]]]
  /\ input' = [input EXCEPT ![c][e] =
       Append(@, [type |-> "ADD", req |-> r, wave |-> client[c].wave])]
  /\ notice' = IF client[c].running THEN notice
               ELSE [notice EXCEPT ![c] = Append(@, [eng |-> e, wave |-> client[c].wave])]
  /\ UNCHANGED <<client, coord, engine, news, first, report, starts, excuse>>

(* abort_requests_async: an ABORT follows the request. *)
AbortRequest(r) ==
  LET c == Owner[r]
      e == req[r].eng
      m == [type |-> "ABORT", req |-> r, wave |-> 0]
  IN
  /\ r \in Abortable /\ req[r].state \in {"sent", "in"}
  /\ \A i \in DOMAIN input[c][e] : input[c][e][i] # m
  /\ input' = [input EXCEPT ![c][e] = Append(@, m)]
  /\ UNCHANGED <<client, coord, engine, req, notice, news, first, report, starts, excuse>>

(* run_engine_stats_update_task, FIRST_REQ: the coordinator is told which  *)
(* engine has the request, and the wave the client knows of by now.        *)
Notify(c) ==
  /\ notice[c] # <<>>
  /\ first' = [first EXCEPT ![c] =
       Append(@, [eng |-> Head(notice[c]).eng, wave |-> client[c].wave])]
  /\ excuse' = (excuse \/ client[c].wave # Head(notice[c]).wave)
  /\ notice' = [notice EXCEPT ![c] = Tail(@)]
  /\ client' = [client EXCEPT ![c].running = TRUE]
  /\ UNCHANGED <<coord, engine, req, news, report, starts, input>>

(* The same task takes over what the coordinator published. *)
TakeNews(c) ==
  /\ news[c] # <<>>
  /\ client' = [client EXCEPT ![c] = Head(news[c])]
  /\ news' = [news EXCEPT ![c] = Tail(@)]
  /\ UNCHANGED <<coord, engine, req, notice, first, report, starts, input, excuse>>

-----------------------------------------------------------------------------
(* The coordinator: process_input_socket. *)

Publish == news' = [c \in Clients |-> Append(news[c], coord')]

_send_start_wave(wave, excluded) ==
  starts' = [e \in Engines |-> Append(starts[e], [wave |-> wave, exclude |-> excluded])]

\* Mutant of OnFirstRequest: a wave that is over excludes the engine as well.
OnFirstRequestStale(c) ==
  /\ first[c] # <<>>
  /\ first' = [first EXCEPT ![c] = Tail(@)]
  /\ IF coord.running THEN UNCHANGED <<coord, starts, news>>
     ELSE /\ coord' = [coord EXCEPT !.running = TRUE]
          /\ _send_start_wave(coord.wave, Head(first[c]).eng)
          /\ Publish
  /\ UNCHANGED <<client, engine, req, notice, report, input, excuse>>

(* From a client: a request was sent while the engines were paused. *)
OnFirstRequest(c) ==
  /\ first[c] # <<>>
  /\ first' = [first EXCEPT ![c] = Tail(@)]
  /\ LET m == Head(first[c]) IN
     IF coord.running THEN UNCHANGED <<coord, starts, news>>
     ELSE /\ coord' = [coord EXCEPT !.running = TRUE]
          /\ _send_start_wave(coord.wave, IF m.wave < coord.wave THEN None ELSE m.eng)
          /\ Publish
  /\ UNCHANGED <<client, engine, req, notice, report, input, excuse>>

(* From rank 0: the engines have paused. *)
OnWaveComplete ==
  /\ report[0] # <<>> /\ Head(report[0]).type = "wave_complete"
  /\ report' = [report EXCEPT ![0] = Tail(@)]
  /\ LET wave == Head(report[0]).wave IN
     IF coord.wave <= wave
     THEN coord' = [wave |-> wave + 1, running |-> FALSE] /\ Publish
     ELSE UNCHANGED <<coord, news>>
  /\ UNCHANGED <<client, engine, req, notice, first, starts, input, excuse>>

(* From an engine that was given a request of an earlier wave. *)
OnStartWave(e) ==
  /\ report[e] # <<>> /\ Head(report[e]).type = "start_wave"
  /\ report' = [report EXCEPT ![e] = Tail(@)]
  /\ LET wave == Head(report[e]).wave IN
     IF wave > coord.wave \/ (wave = coord.wave /\ ~coord.running)
     THEN /\ coord' = [wave |-> wave, running |-> TRUE]
          /\ _send_start_wave(wave, e)
          /\ Publish
     ELSE UNCHANGED <<coord, starts, news>>
  /\ UNCHANGED <<client, engine, req, notice, first, input, excuse>>

(* Nothing came for a while: the state is published again. *)
OnTimeout ==
  /\ \A c \in Clients : Len(news[c]) < MaxNews
  /\ UNCHANGED coord
  /\ Publish
  /\ UNCHANGED <<client, engine, req, notice, first, report, starts, input, excuse>>

-----------------------------------------------------------------------------
(* An engine: run_busy_loop.  Messages are handled between two steps; one  *)
(* that is in the input queue may as well be thought to be on its way.     *)

(* START_DP_WAVE *)
StartWave(e) ==
  /\ engine[e].at = "loop" /\ starts[e] # <<>>
  /\ starts' = [starts EXCEPT ![e] = Tail(@)]
  /\ LET m == Head(starts[e]) IN
     engine' = IF m.exclude # e /\ m.wave >= engine[e].wave
               THEN [engine EXCEPT ![e].wave = m.wave, ![e].running = TRUE]
               ELSE engine
  /\ UNCHANGED <<client, coord, req, notice, news, first, report, input, excuse>>

\* What comes next from client c.
Comes(e, c, type) ==
  /\ engine[e].at = "loop" /\ input[c][e] # <<>> /\ Head(input[c][e]).type = type
  /\ input' = [input EXCEPT ![c][e] = Tail(@)]

\* Mutant of Add: a request of an earlier wave is taken without a word.
AddUnreported(e, c) ==
  /\ Comes(e, c, "ADD")
  /\ LET r == Head(input[c][e]).req
         wave == Head(input[c][e]).wave
     IN /\ engine' = [engine EXCEPT ![e].wave = IF wave > @ THEN wave ELSE @]
        /\ req' = [req EXCEPT ![r].state = "in"]
  /\ UNCHANGED <<client, coord, notice, news, first, report, starts, excuse>>

(* add_request: one that comes after its wave is over has the others woken. *)
Add(e, c) ==
  /\ Comes(e, c, "ADD")
  /\ LET r == Head(input[c][e]).req
         wave == Head(input[c][e]).wave
         late == wave < engine[e].wave /\ ~engine[e].running
     IN /\ engine' = [engine EXCEPT ![e].wave = IF wave > @ THEN wave ELSE @]
        /\ report' = IF late
                     THEN [report EXCEPT ![e] =
                            Append(@, [type |-> "start_wave", wave |-> engine[e].wave])]
                     ELSE report
        /\ req' = [req EXCEPT ![r].state = "in"]
  /\ UNCHANGED <<client, coord, notice, news, first, starts, excuse>>

(* abort_requests: nothing else happens, so an engine that has not made a  *)
(* step for the request stays paused.                                      *)
Abort(e, c) ==
  /\ Comes(e, c, "ABORT")
  /\ LET r == Head(input[c][e]).req IN
     /\ req' = IF req[r].state = "in" THEN [req EXCEPT ![r] = Ended("aborted")] ELSE req
     /\ excuse' = (excuse \/ (req[r].state = "in" /\ ~engine[e].running))
  /\ UNCHANGED <<client, coord, engine, notice, news, first, report, starts>>

(* A step: each request gets one of its steps, and there is a dummy pass   *)
(* if there is none.  Every SyncSteps steps the engine goes to the         *)
(* all-reduce of _has_global_unfinished_reqs; before, it keeps running.    *)
Step(e) ==
  /\ engine[e].at = "loop"
  /\ engine[e].running \/ Unfinished(e) # {}
  /\ req' = [r \in Requests |->
       IF r \notin Unfinished(e) THEN req[r]
       ELSE IF req[r].left = 1 THEN Ended("done")
       ELSE [req[r] EXCEPT !.left = @ - 1]]
  /\ LET step == (engine[e].step + 1) % SyncSteps IN
     engine' = [engine EXCEPT ![e] =
       [wave |-> engine[e].wave, step |-> step,
        running |-> IF step = 0 THEN engine[e].running ELSE TRUE,
        at |-> IF step = 0 THEN "reduce" ELSE "loop"]]
  /\ UNCHANGED <<client, coord, queues, excuse>>

\* Mutant of AllReduce: only the rank that reports the wave counts it.
AllReduceRank0 ==
  LET unfinished == \E e \in Engines : Unfinished(e) # {} IN
  /\ \A e \in Engines : engine[e].at = "reduce"
  /\ engine' = [e \in Engines |-> [engine[e] EXCEPT
       !.at = "loop", !.running = unfinished,
       !.wave = IF unfinished \/ e # 0 THEN @ ELSE @ + 1]]
  /\ report' = IF unfinished THEN report
               ELSE [report EXCEPT ![0] =
                      Append(@, [type |-> "wave_complete", wave |-> engine[0].wave])]
  /\ UNCHANGED <<client, coord, req, notice, news, first, starts, input, excuse>>

(* The all-reduce, once every engine is there, and what each does next. *)
AllReduce ==
  LET unfinished == \E e \in Engines : Unfinished(e) # {} IN
  /\ \A e \in Engines : engine[e].at = "reduce"
  /\ engine' = [e \in Engines |-> [engine[e] EXCEPT
       !.at = "loop", !.running = unfinished,
       !.wave = IF unfinished THEN @ ELSE @ + 1]]
  /\ report' = IF unfinished THEN report
               ELSE [report EXCEPT ![0] =
                      Append(@, [type |-> "wave_complete", wave |-> engine[0].wave])]
  /\ UNCHANGED <<client, coord, req, notice, news, first, starts, input, excuse>>

ClientStep(c) == Notify(c) \/ TakeNews(c)
CoordStep == (\E c \in Clients : OnFirstRequest(c)) \/ OnWaveComplete \/ (\E e \in Engines : OnStartWave(e))
EngineStep(e) == StartWave(e) \/ (\E c \in Clients : Add(e, c) \/ Abort(e, c)) \/ Step(e)

Next ==
  \/ \E r \in Requests : \/ \E e \in Engines : AddRequest(r, e)
                         \/ AbortRequest(r)
  \/ \E c \in Clients : ClientStep(c)
  \/ CoordStep \/ OnTimeout
  \/ \E e \in Engines : EngineStep(e)
  \/ AllReduce

Spec == Init /\ [][Next]_vars

(* As long as an engine has a step to make or a request, a notification, a *)
(* report or a START_DP_WAVE is on its way, something of it happens, in    *)
(* whatever order.  Nothing is assumed of clients sending or aborting      *)
(* requests or taking news, nor that the coordinator ever times out.       *)
Progress ==
  CoordStep \/ AllReduce \/ (\E e \in Engines : EngineStep(e)) \/ (\E c \in Clients : Notify(c))
FairSpec == Spec /\ WF_vars(Progress)

-----------------------------------------------------------------------------

(* Two engines never differ in the number of their wave, although each     *)
(* counts for itself, and the coordinator and the clients are never ahead  *)
(* of them: the end of a wave is one decision, and no message can make an  *)
(* engine skip it.                                                         *)
WavesAgree ==
  \A e \in Engines :
    /\ \A f \in Engines : engine[e].wave = engine[f].wave
    /\ coord.wave <= engine[e].wave
    /\ \A c \in Clients : client[c].wave <= coord.wave

Paused(e) == engine[e].at = "loop" /\ ~engine[e].running /\ Unfinished(e) = {}

(* Nothing is on its way that could wake an engine. *)
Quiet ==
  /\ \A c \in Clients : notice[c] = <<>> /\ first[c] = <<>>
  /\ \A e \in Engines : report[e] = <<>> /\ starts[e] = <<>>
  /\ \A c \in Clients, e \in Engines : input[c][e] = <<>>

(* The engine that START_DP_WAVE excludes "has already received a request  *)
(* with this wave number and so doesn't require additional notification"   *)
(* (_send_start_wave): no engine is left paused, with no message to wake   *)
(* it, while another waits for it in the all-reduce.                       *)
NobodyLeftBehind ==
  Quiet => \A e, f \in Engines : engine[e].at = "reduce" => ~Paused(f)

(* Whatever the order of messages, an engine is left behind only after an  *)
(* abort took away the request of an engine that was not running yet, or a *)
(* client told the coordinator a wave later than the one the request was   *)
(* sent with.                                                              *)
LeftBehindOnlyThen == excuse \/ NobodyLeftBehind

(* But for the same two cases, every request that was sent ends and every  *)
(* engine comes to rest again (excuse, once TRUE, stays so).               *)
Idle ==
  /\ \A r \in Requests : req[r].state \in {"new", "done", "aborted"}
  /\ \A e \in Engines : Paused(e)
WavesEnd == []<>(excuse \/ Idle)
=============================================================================
