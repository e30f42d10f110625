--------------------------- MODULE DPWaves_proofs ---------------------------
(***************************************************************************)
(* The engines of a data-parallel deployment always agree on the number of *)
(* their wave, and neither the coordinator nor a client is ever ahead.     *)
(*                                                                         *)
(* The property is not inductive by itself: an engine takes over the wave  *)
(* of a message if it is later than its own, so no message may hold a      *)
(* later one.  The invariant bounds the wave of every message on its way   *)
(* by that of whoever it can have come from: what clients and engines are  *)
(* told by the coordinator's, what the coordinator is told by the          *)
(* engines', strictly for the report that a wave is complete.              *)
(*                                                                         *)
(* That nobody is left behind needs more: what every message on its way    *)
(* will wake (Waking, below).                                              *)
(***************************************************************************)
EXTENDS DPWaves, TLAPS

\* The leaves are first-order steps for Zenon; those with arithmetic or large records name SMT.
USE Zenon

State(w)   == [wave : 0..w, running : BOOLEAN]
Report(w)  == [type : {"wave_complete"}, wave : 0..(w - 1)] \cup [type : {"start_wave"}, wave : 0..w]
Start(w)   == [wave : 0..w, exclude : Int]
Message(w) == [type : {"ADD", "ABORT"}, req : Requests, wave : 0..w]
Note == [eng : Int, wave : Int]
EngineState == [wave : Nat, running : BOOLEAN, step : Int, at : {"loop", "reduce"}]

(* The inductive invariant. *)
IInv ==
  /\ engine \in [Engines -> EngineState]
  /\ \A e \in Engines : engine[e].wave = engine[0].wave
  /\ coord \in State(engine[0].wave)
  /\ client \in [Clients -> State(coord.wave)]
  /\ news \in [Clients -> Seq(State(coord.wave))]
  /\ first \in [Clients -> Seq(Note)]
  /\ notice \in [Clients -> Seq(Note)]
  /\ report \in [Engines -> Seq(Report(engine[0].wave))]
  /\ starts \in [Engines -> Seq(Start(coord.wave))]
  /\ input \in [Clients -> [Engines -> Seq(Message(coord.wave))]]

(* A sequence over a set is one over any larger set. *)
LEMMA SeqMonotone ==
  ASSUME NEW S, NEW T, S \subseteq T
  PROVE  Seq(S) \subseteq Seq(T)
BY SMT

(* What is bounded by a wave is bounded by a later one. *)
LEMMA BoundsMonotone ==
  ASSUME NEW v \in Nat, NEW w \in Nat, v <= w
  PROVE  /\ State(v) \subseteq State(w)
         /\ Report(v) \subseteq Report(w)
         /\ Start(v) \subseteq Start(w)
         /\ Message(v) \subseteq Message(w)
BY SMT DEF State, Report, Start, Message

(* The same for the queues of messages. *)
LEMMA QueuesMonotone ==
  ASSUME NEW v \in Nat, NEW w \in Nat, v <= w
  PROVE  /\ [Clients -> State(v)] \subseteq [Clients -> State(w)]
         /\ [Clients -> Seq(State(v))] \subseteq [Clients -> Seq(State(w))]
         /\ [Engines -> Seq(Report(v))] \subseteq [Engines -> Seq(Report(w))]
         /\ [Engines -> Seq(Start(v))] \subseteq [Engines -> Seq(Start(w))]
         /\ [Clients -> [Engines -> Seq(Message(v))]] \subseteq [Clients -> [Engines -> Seq(Message(w))]]
<1>1. /\ Seq(State(v)) \subseteq Seq(State(w))
      /\ Seq(Report(v)) \subseteq Seq(Report(w))
      /\ Seq(Start(v)) \subseteq Seq(Start(w))
      /\ Seq(Message(v)) \subseteq Seq(Message(w))
  BY BoundsMonotone, SeqMonotone
<1>2. State(v) \subseteq State(w)
  BY BoundsMonotone
<1> QED
  BY <1>1, <1>2

(* Sending to, and taking from, one of several queues. *)
LEMMA Sending ==
  ASSUME NEW D, NEW S, NEW f \in [D -> Seq(S)], NEW d \in D, NEW x \in S
  PROVE  [f EXCEPT ![d] = Append(@, x)] \in [D -> Seq(S)]
BY SMT

\* Taking the oldest message from one of several queues.
LEMMA Taking ==
  ASSUME NEW D, NEW S, NEW f \in [D -> Seq(S)], NEW d \in D, f[d] # <<>>
  PROVE  /\ Head(f[d]) \in S
         /\ [f EXCEPT ![d] = Tail(@)] \in [D -> Seq(S)]
<1>1. f[d] \in Seq(S)
  OBVIOUS
<1>2. Head(f[d]) \in S /\ Tail(f[d]) \in Seq(S)
  BY <1>1, SMT
<1> QED
  BY <1>2

\* Sending to one of the queues of a pair.
LEMMA SendingTo ==
  ASSUME NEW C, NEW D, NEW S, NEW f \in [C -> [D -> Seq(S)]], NEW c \in C, NEW d, NEW x \in S
  PROVE  [f EXCEPT ![c][d] = Append(@, x)] \in [C -> [D -> Seq(S)]]
<1>1. f[c] \in [D -> Seq(S)]
  OBVIOUS
<1>2. [f[c] EXCEPT ![d] = Append(f[c][d], x)] \in [D -> Seq(S)]
  <2>1. CASE d \in D
    <3>1. Append(f[c][d], x) \in Seq(S)
      BY <1>1, <2>1, SMT
    <3> QED
      BY <1>1, <3>1
  <2>2. CASE d \notin D
    BY <1>1, <2>2
  <2> QED
    BY <2>1, <2>2
<1> QED
  BY <1>2

\* Taking the oldest message from one of the queues of a pair.
LEMMA TakingFrom ==
  ASSUME NEW C, NEW D, NEW S, NEW f \in [C -> [D -> Seq(S)]], NEW c \in C, NEW d \in D, f[c][d] # <<>>
  PROVE  /\ Head(f[c][d]) \in S
         /\ [f EXCEPT ![c][d] = Tail(@)] \in [C -> [D -> Seq(S)]]
<1>1. f[c] \in [D -> Seq(S)]
  OBVIOUS
<1>2. Head(f[c][d]) \in S /\ [f[c] EXCEPT ![d] = Tail(f[c][d])] \in [D -> Seq(S)]
  BY <1>1, Taking
<1> QED
  BY <1>2

\* At the start all waves are 0 and nothing is on its way.
LEMMA InitIInv == Init => IInv
BY EnginesAssumption, SMT DEF Init, IInv, Note, State, Report, Start, Message, EngineState

(* A step of a client keeps the invariant. *)
LEMMA ClientsIInv ==
  ASSUME IInv,
         \/ \E r \in Requests : AbortRequest(r) \/ \E e \in Engines : AddRequest(r, e)
         \/ \E c \in Clients : ClientStep(c)
  PROVE  IInv'
<1>a. coord.wave \in Nat
  BY EnginesAssumption, SMT DEF IInv, State, EngineState
<1>b. client \in [Clients -> [wave : 0..coord.wave, running : BOOLEAN]]
  BY DEF IInv, State
<1>c. input \in [Clients -> [Engines -> Seq(Message(coord.wave))]]
  BY DEF IInv
<1>d. /\ notice \in [Clients -> Seq(Note)]
      /\ first \in [Clients -> Seq(Note)]
  BY DEF IInv
<1>e. news \in [Clients -> Seq(State(coord.wave))]
  BY DEF IInv
<1>1. ASSUME NEW r \in Requests, NEW e \in Engines, AddRequest(r, e) PROVE IInv'
  <2>1. Owner[r] \in Clients /\ e \in Int
    BY OwnerAssumption, EnginesAssumption, SMT
  <2>2. client[Owner[r]].wave \in 0..coord.wave
    BY <1>b, <2>1
  <2>3. [type |-> "ADD", req |-> r, wave |-> client[Owner[r]].wave] \in Message(coord.wave)
    BY <2>2 DEF Message
  <2>4. [input EXCEPT ![Owner[r]][e] =
           Append(@, [type |-> "ADD", req |-> r, wave |-> client[Owner[r]].wave])]
          \in [Clients -> [Engines -> Seq(Message(coord.wave))]]
    BY <1>c, <2>1, <2>3, SendingTo, SMT
  <2>5. [eng |-> e, wave |-> client[Owner[r]].wave] \in Note
    BY <1>a, <2>1, <2>2, SMT DEF Note
  <2>6. [notice EXCEPT ![Owner[r]] = Append(@, [eng |-> e, wave |-> client[Owner[r]].wave])]
          \in [Clients -> Seq(Note)]
    BY <1>d, <2>1, <2>5, Sending, SMT
  <2>7. notice' \in [Clients -> Seq(Note)]
    BY <1>1, <1>d, <2>6 DEF AddRequest
  <2> QED
    BY <1>1, <2>4, <2>7 DEF IInv, AddRequest
<1>2. ASSUME NEW r \in Requests, AbortRequest(r) PROVE IInv'
  <2>1. Owner[r] \in Clients
    BY OwnerAssumption
  <2>2. [type |-> "ABORT", req |-> r, wave |-> 0] \in Message(coord.wave)
    BY <1>a, SMT DEF Message
  <2>3. ASSUME NEW e
        PROVE  [input EXCEPT ![Owner[r]][e] = Append(@, [type |-> "ABORT", req |-> r, wave |-> 0])]
                 \in [Clients -> [Engines -> Seq(Message(coord.wave))]]
    <3> DEFINE M == Message(coord.wave)
               m == [type |-> "ABORT", req |-> r, wave |-> 0]
    <3>1. m \in M /\ input \in [Clients -> [Engines -> Seq(M)]]
      BY <1>c, <2>2
    <3> HIDE DEF M, m
    <3>2. [input EXCEPT ![Owner[r]][e] = Append(@, m)] \in [Clients -> [Engines -> Seq(M)]]
      BY <2>1, <3>1, SendingTo
    <3> QED
      BY <3>2 DEF M, m
  <2> QED
    BY <1>2, <2>3 DEF IInv, AbortRequest
<1>3. ASSUME NEW c \in Clients, Notify(c) PROVE IInv'
  <2>1. notice[c] # <<>>
    BY <1>3 DEF Notify
  <2>2. Head(notice[c]) \in Note
    BY <1>d, <2>1, Taking
  <2>3. [eng |-> Head(notice[c]).eng, wave |-> client[c].wave] \in Note
    BY <1>a, <1>b, <2>2, SMT DEF Note
  <2>4. first' \in [Clients -> Seq(Note)]
    BY <1>3, <1>d, <2>3, Sending, SMT DEF Notify
  <2>5. notice' \in [Clients -> Seq(Note)]
    BY <1>3, <1>d, <2>1, Taking DEF Notify
  <2>6. client' \in [Clients -> State(coord.wave)]
    BY <1>3, <1>b DEF Notify, State
  <2> QED
    BY <1>3, <2>4, <2>5, <2>6 DEF IInv, Notify
<1>4. ASSUME NEW c \in Clients, TakeNews(c) PROVE IInv'
  <2>1. /\ Head(news[c]) \in State(coord.wave)
        /\ [news EXCEPT ![c] = Tail(@)] \in [Clients -> Seq(State(coord.wave))]
    BY <1>4, <1>e, Taking DEF TakeNews
  <2>2. client' \in [Clients -> State(coord.wave)]
    BY <1>4, <2>1 DEF IInv, TakeNews
  <2> QED
    BY <1>4, <2>1, <2>2 DEF IInv, TakeNews
<1> QED
  BY <1>1, <1>2, <1>3, <1>4 DEF ClientStep

(* A step of the coordinator keeps the invariant: its wave only grows, up  *)
(* to the engines', and all that it tells holds its wave.                  *)
LEMMA CoordinatorIInv ==
  ASSUME IInv, CoordStep \/ OnTimeout
  PROVE  IInv'
<1>a. engine[0].wave \in Nat /\ coord.wave \in Nat /\ coord.wave <= engine[0].wave
  BY EnginesAssumption, SMT DEF IInv, State, EngineState
<1>b. coord \in State(engine[0].wave)
  BY DEF IInv
<1>c. first \in [Clients -> Seq(Note)]
  BY DEF IInv
<1>d. report \in [Engines -> Seq(Report(engine[0].wave))]
  BY DEF IInv
\* What is on its way fits a later wave of the coordinator.
<1>e. ASSUME NEW w \in Nat, coord.wave <= w
      PROVE  /\ client \in [Clients -> State(w)]
             /\ news \in [Clients -> Seq(State(w))]
             /\ starts \in [Engines -> Seq(Start(w))]
             /\ input \in [Clients -> [Engines -> Seq(Message(w))]]
  BY <1>a, <1>e, QueuesMonotone DEF IInv
\* What it publishes and sends.
<1>f. ASSUME NEW w \in Nat, coord.wave <= w, coord' \in State(w), Publish
      PROVE  news' \in [Clients -> Seq(State(w))]
  BY <1>e, <1>f, SMT DEF Publish
<1>g. ASSUME NEW w \in Nat, coord.wave <= w, NEW x \in Int, _send_start_wave(w, x)
      PROVE  starts' \in [Engines -> Seq(Start(w))]
  <2>1. [wave |-> w, exclude |-> x] \in Start(w)
    BY SMT DEF Start
  <2> QED
    BY <1>e, <1>g, <2>1, SMT DEF _send_start_wave
<1>1. ASSUME NEW c \in Clients, OnFirstRequest(c) PROVE IInv'
  <2>1. Head(first[c]) \in Note /\ first' \in [Clients -> Seq(Note)]
    BY <1>1, <1>c, Taking DEF OnFirstRequest
  <2>2. CASE coord.running
    BY <1>1, <2>1, <2>2 DEF OnFirstRequest, IInv
  <2>3. CASE ~coord.running
    <3>0. coord' = [coord EXCEPT !.running = TRUE]
      BY <1>1, <2>3 DEF OnFirstRequest
    <3>1. coord' \in State(engine[0].wave) /\ coord' \in State(coord.wave) /\ coord'.wave = coord.wave
      <4>1. coord' = [wave |-> coord.wave, running |-> TRUE]
        BY <1>b, <3>0 DEF State
      <4> QED
        BY <1>a, <4>1, SMT DEF State
    <3>2. Publish /\ \E x \in Int : _send_start_wave(coord.wave, x)
      BY <1>1, <2>1, <2>3, SMT DEF OnFirstRequest, Note, None
    <3>3. news' \in [Clients -> Seq(State(coord.wave))] /\ starts' \in [Engines -> Seq(Start(coord.wave))]
      BY <1>a, <1>f, <1>g, <3>1, <3>2, SMT
    <3> QED
      BY <1>1, <2>1, <3>1, <3>3 DEF OnFirstRequest, IInv
  <2> QED
    BY <2>2, <2>3, <1>b DEF State
<1>2. ASSUME OnWaveComplete PROVE IInv'
  <2>1. /\ Head(report[0]) \in Report(engine[0].wave)
        /\ report' \in [Engines -> Seq(Report(engine[0].wave))]
    BY <1>2, <1>d, EnginesAssumption, Taking, SMT DEF OnWaveComplete
  <2> DEFINE wave == Head(report[0]).wave
  <2>2. wave \in Nat /\ wave + 1 <= engine[0].wave
    BY <1>2, <1>a, <2>1, SMT DEF Report, OnWaveComplete
  <2>3. CASE coord.wave <= wave
    <3>1. coord' = [wave |-> wave + 1, running |-> FALSE] /\ Publish
      BY <1>2, <2>3 DEF OnWaveComplete
    <3>2. coord' \in State(engine[0].wave) /\ coord' \in State(wave + 1) /\ coord'.wave = wave + 1
      BY <1>a, <2>2, <3>1, SMT DEF State
    <3>3. wave + 1 \in Nat /\ coord.wave <= wave + 1
      BY <1>a, <2>2, <2>3, SMT
    <3> HIDE DEF wave
    <3>4. news' \in [Clients -> Seq(State(wave + 1))]
      BY <1>f, <3>1, <3>2, <3>3
    <3> QED
      BY <1>2, <1>e, <2>1, <3>2, <3>3, <3>4 DEF OnWaveComplete, IInv
  <2>4. CASE ~(coord.wave <= wave)
    BY <1>2, <2>1, <2>4 DEF OnWaveComplete, IInv
  <2> QED
    BY <2>3, <2>4
<1>3. ASSUME NEW e \in Engines, OnStartWave(e) PROVE IInv'
  <2>1. /\ Head(report[e]) \in Report(engine[0].wave)
        /\ report' \in [Engines -> Seq(Report(engine[0].wave))]
    BY <1>3, <1>d, Taking, SMT DEF OnStartWave
  <2> DEFINE wave == Head(report[e]).wave
  <2>2. wave \in Nat /\ wave <= engine[0].wave /\ e \in Int
    BY <1>3, <1>a, <2>1, EnginesAssumption, SMT DEF Report, OnStartWave
  <2>3. CASE wave > coord.wave \/ (wave = coord.wave /\ ~coord.running)
    <3>1. coord' = [wave |-> wave, running |-> TRUE] /\ _send_start_wave(wave, e) /\ Publish
      BY <1>3, <2>3 DEF OnStartWave
    <3>2. coord' \in State(engine[0].wave) /\ coord' \in State(wave) /\ coord'.wave = wave
      BY <1>a, <2>2, <3>1, SMT DEF State
    <3>3. coord.wave <= wave
      BY <1>a, <2>2, <2>3, SMT
    <3> HIDE DEF wave
    <3>4. news' \in [Clients -> Seq(State(wave))] /\ starts' \in [Engines -> Seq(Start(wave))]
      BY <1>f, <1>g, <2>2, <3>1, <3>2, <3>3
    <3> QED
      BY <1>3, <1>e, <2>1, <2>2, <3>2, <3>3, <3>4 DEF OnStartWave, IInv
  <2>4. CASE ~(wave > coord.wave \/ (wave = coord.wave /\ ~coord.running))
    BY <1>3, <2>1, <2>4 DEF OnStartWave, IInv
  <2> QED
    BY <2>3, <2>4
<1>4. ASSUME OnTimeout PROVE IInv'
  <2>1. coord' \in State(coord.wave)
    BY <1>4, <1>a, <1>b, SMT DEF OnTimeout, State
  <2>2. news' \in [Clients -> Seq(State(coord.wave))]
    BY <1>4, <1>a, <1>f, <2>1, SMT DEF OnTimeout
  <2> QED
    BY <1>4, <2>2 DEF OnTimeout, IInv
<1> QED
  BY <1>1, <1>2, <1>3, <1>4 DEF CoordStep

(* A step of an engine keeps the invariant: no message takes it past the   *)
(* others, and the all-reduce takes them on together.                      *)
LEMMA EnginesIInv ==
  ASSUME IInv, AllReduce \/ \E e \in Engines : EngineStep(e)
  PROVE  IInv'
<1>a. engine[0].wave \in Nat /\ coord.wave \in Nat /\ coord.wave <= engine[0].wave
  BY EnginesAssumption, SMT DEF IInv, State, EngineState
<1>b. engine \in [Engines -> EngineState] /\ \A e \in Engines : engine[e].wave = engine[0].wave
  BY DEF IInv
<1>c. input \in [Clients -> [Engines -> Seq(Message(coord.wave))]]
  BY DEF IInv
<1>d. report \in [Engines -> Seq(Report(engine[0].wave))]
  BY DEF IInv
<1>e. starts \in [Engines -> Seq(Start(coord.wave))]
  BY DEF IInv
\* Enough for what changes neither a wave nor a queue.
<1>f. ASSUME engine' \in [Engines -> EngineState],
             \A e \in Engines : engine'[e].wave = engine[e].wave
      PROVE  engine'[0].wave = engine[0].wave /\ \A e \in Engines : engine'[e].wave = engine'[0].wave
  BY <1>b, <1>f, EnginesAssumption
<1>1. ASSUME NEW e \in Engines, StartWave(e) PROVE IInv'
  <2>1. Head(starts[e]) \in Start(coord.wave) /\ starts' \in [Engines -> Seq(Start(coord.wave))]
    BY <1>1, <1>e, Taking DEF StartWave
  <2>2. Head(starts[e]).wave \in 0..coord.wave
    BY <2>1 DEF Start
  <2>3. engine[e].wave = engine[0].wave /\ engine[e] \in EngineState
    BY <1>b
  <2>4. CASE Head(starts[e]).exclude # e /\ Head(starts[e]).wave >= engine[e].wave
    <3>1. Head(starts[e]).wave = engine[e].wave
      BY <1>a, <2>2, <2>3, <2>4, SMT
    <3>2. engine' = [engine EXCEPT ![e].wave = engine[e].wave, ![e].running = TRUE]
      BY <1>1, <2>4, <3>1 DEF StartWave
    <3>3. /\ engine' \in [Engines -> EngineState]
          /\ \A f \in Engines : engine'[f].wave = engine[f].wave
      BY <1>b, <2>3, <3>2 DEF EngineState
    <3>4. engine'[0].wave = engine[0].wave /\ \A f \in Engines : engine'[f].wave = engine'[0].wave
      BY <1>f, <3>3
    <3> QED
      BY <1>1, <2>1, <3>3, <3>4 DEF IInv, StartWave
  <2>5. CASE ~(Head(starts[e]).exclude # e /\ Head(starts[e]).wave >= engine[e].wave)
    BY <1>1, <2>1, <2>5 DEF StartWave, IInv
  <2> QED
    BY <2>4, <2>5
<1>2. ASSUME NEW e \in Engines, NEW c \in Clients, Add(e, c) PROVE IInv'
  <2>1. /\ Head(input[c][e]) \in Message(coord.wave)
        /\ input' \in [Clients -> [Engines -> Seq(Message(coord.wave))]]
    BY <1>2, <1>c, TakingFrom DEF Add, Comes
  <2>2. Head(input[c][e]).wave \in 0..coord.wave
    BY <2>1 DEF Message
  <2>3. engine[e].wave = engine[0].wave /\ engine[e] \in EngineState
    BY <1>b
  <2>4. ~(Head(input[c][e]).wave > engine[e].wave)
    BY <1>a, <2>2, <2>3, SMT
  <2>5. engine' = [engine EXCEPT ![e].wave = engine[e].wave]
    BY <1>2, <2>4 DEF Add
  <2>6. engine' = engine
    BY <1>b, <2>3, <2>5 DEF EngineState
  <2>7. [type |-> "start_wave", wave |-> engine[e].wave] \in Report(engine[0].wave)
    BY <1>a, <2>3, SMT DEF Report
  <2>8. [report EXCEPT ![e] = Append(@, [type |-> "start_wave", wave |-> engine[e].wave])]
          \in [Engines -> Seq(Report(engine[0].wave))]
    BY <1>d, <2>7, Sending, SMT
  <2>9. report' \in [Engines -> Seq(Report(engine[0].wave))]
    BY <1>2, <1>d, <2>8 DEF Add
  <2> QED
    BY <1>2, <2>1, <2>6, <2>9 DEF Add, IInv
<1>3. ASSUME NEW e \in Engines, NEW c \in Clients, Abort(e, c) PROVE IInv'
  <2>1. input' \in [Clients -> [Engines -> Seq(Message(coord.wave))]]
    BY <1>3, <1>c, TakingFrom DEF Abort, Comes
  <2> QED
    BY <1>3, <2>1 DEF Abort, IInv
<1>4. ASSUME NEW e \in Engines, Step(e) PROVE IInv'
  <2> DEFINE step == (engine[e].step + 1) % SyncSteps
             running == IF step = 0 THEN engine[e].running ELSE TRUE
             at == IF step = 0 THEN "reduce" ELSE "loop"
             there == [wave |-> engine[e].wave, step |-> step, running |-> running, at |-> at]
  <2>0. engine[e].wave \in Nat /\ engine[e].step \in Int /\ engine[e].running \in BOOLEAN
    BY <1>b DEF EngineState
  <2>1. step \in Int /\ running \in BOOLEAN /\ at \in {"loop", "reduce"}
    <3>1. step \in Int
      BY <2>0, StepsAssumption, SMT
    <3>2. running \in BOOLEAN
      BY <2>0
    <3>3. at \in {"loop", "reduce"}
      OBVIOUS
    <3> QED
      BY <3>1, <3>2, <3>3
  <2>2. engine' = [engine EXCEPT ![e] = there]
    BY <1>4 DEF Step
  <2> HIDE DEF step, running, at
  <2>3. there \in EngineState /\ there.wave = engine[e].wave
    BY <2>0, <2>1 DEF EngineState
  <2> HIDE DEF there
  <2>4. /\ engine' \in [Engines -> EngineState]
        /\ \A f \in Engines : engine'[f].wave = engine[f].wave
    BY <1>b, <2>2, <2>3
  <2>5. engine'[0].wave = engine[0].wave /\ \A f \in Engines : engine'[f].wave = engine'[0].wave
    BY <1>f, <2>4
  <2>6. UNCHANGED <<client, coord, notice, news, first, report, starts, input>>
    BY <1>4 DEF Step, queues
  <2> QED
    BY <2>4, <2>5, <2>6 DEF IInv
<1>5. ASSUME AllReduce PROVE IInv'
  <2> DEFINE unfinished == \E e \in Engines : Unfinished(e) # {}
             w == IF unfinished THEN engine[0].wave ELSE engine[0].wave + 1
  <2>0. ASSUME NEW e \in Engines
        PROVE  engine'[e] \in EngineState /\ engine'[e].wave = w
    <3>1. engine[e] \in EngineState /\ engine[e].wave = engine[0].wave
      BY <1>b
    <3>2. engine'[e] = [engine[e] EXCEPT !.at = "loop", !.running = unfinished,
                          !.wave = IF unfinished THEN engine[e].wave ELSE engine[e].wave + 1]
      BY <1>5 DEF AllReduce
    <3>3. unfinished \in BOOLEAN
      OBVIOUS
    <3> HIDE DEF unfinished
    <3>4. engine'[e] = [wave |-> w, running |-> unfinished, step |-> engine[e].step, at |-> "loop"]
      BY <3>1, <3>2 DEF EngineState
    <3>5. w \in Nat /\ engine[e].step \in Int
      BY <1>a, <3>1, SMT DEF EngineState
    <3> HIDE DEF w
    <3> QED
      BY <3>3, <3>4, <3>5, SMT DEF EngineState
  <2>1. /\ engine' \in [Engines -> EngineState]
        /\ \A e \in Engines : engine'[e].wave = w
    <3>1. engine' = [e \in Engines |-> engine'[e]]
      BY <1>5 DEF AllReduce
    <3> HIDE DEF w
    <3> QED
      BY <2>0, <3>1
  <2>2. engine'[0].wave = w /\ w \in Nat /\ engine[0].wave <= w
    BY <1>a, <2>1, EnginesAssumption, SMT
  <2>3. State(engine[0].wave) \subseteq State(w)
    BY <1>a, <2>2, BoundsMonotone
  <2>4. report \in [Engines -> Seq(Report(w))]
    <3> HIDE DEF w
    <3>1. [Engines -> Seq(Report(engine[0].wave))] \subseteq [Engines -> Seq(Report(w))]
      BY <1>a, <2>2, QueuesMonotone
    <3> QED
      BY <1>d, <3>1
  <2>5. report' \in [Engines -> Seq(Report(w))]
    <3>1. CASE unfinished
      BY <1>5, <2>4, <3>1 DEF AllReduce
    <3>2. CASE ~unfinished
      <4>1. [type |-> "wave_complete", wave |-> engine[0].wave] \in Report(w)
        BY <1>a, <3>2, SMT DEF Report
      <4> HIDE DEF w
      <4>2. [report EXCEPT ![0] = Append(@, [type |-> "wave_complete", wave |-> engine[0].wave])]
              \in [Engines -> Seq(Report(w))]
        BY <2>4, <4>1, EnginesAssumption, Sending, SMT
      <4> QED
        BY <1>5, <3>2, <4>2 DEF AllReduce
    <3> QED
      BY <3>1, <3>2
  <2> HIDE DEF w
  <2> QED
    BY <1>5, <2>1, <2>2, <2>3, <2>5 DEF AllReduce, IInv
<1> QED
  BY <1>1, <1>2, <1>3, <1>4, <1>5 DEF EngineStep

(* The invariant holds in every state. *)
LEMMA Invariance == Spec => []IInv
<1>1. IInv /\ [Next]_vars => IInv'
  <2>1. IInv /\ Next => IInv'
    BY ClientsIInv, CoordinatorIInv, EnginesIInv DEF Next
  <2>2. IInv /\ UNCHANGED vars => IInv'
    BY DEF IInv, vars, queues
  <2> QED
    BY <2>1, <2>2
<1> QED
  BY InitIInv, <1>1, PTL DEF Spec

(* WavesAgree: the engines count their waves alike, and nobody who tells   *)
(* them of one is ahead, for any number of engines, clients and requests.  *)
THEOREM WavesAlwaysAgree == Spec => []WavesAgree
<1>1. IInv => WavesAgree
  <2> SUFFICES ASSUME IInv PROVE WavesAgree
    OBVIOUS
  <2>1. \A e \in Engines : engine[e].wave = engine[0].wave
    BY DEF IInv
  <2>2. coord.wave <= engine[0].wave
    BY SMT DEF IInv, State
  <2>3. ASSUME NEW c \in Clients PROVE client[c].wave <= coord.wave
    <3>1. client[c] \in State(coord.wave)
      BY DEF IInv
    <3> QED
      BY <3>1, SMT DEF State
  <2> QED
    BY <2>1, <2>2, <2>3 DEF WavesAgree
<1> QED
  BY Invariance, <1>1, PTL
-----------------------------------------------------------------------------
(***************************************************************************)
(* Nobody is left behind, but for the two cases of LeftBehindOnlyThen.     *)
(*                                                                         *)
(* In a wave engines only wake up, until the all-reduce that ends it.  If  *)
(* one is awake, or about to be, the coordinator has started the wave or   *)
(* something is on its way that will make it (Causes); and once it has     *)
(* started it, every engine is awake, has a request coming or a            *)
(* START_DP_WAVE that does not exclude it (Excluded).  That the engine a   *)
(* START_DP_WAVE excludes is awake or has a request coming is where the    *)
(* two cases come in: an abort may put an engine back to sleep, and a note *)
(* to the coordinator may have a later wave than the request.              *)
(***************************************************************************)

W == engine[0].wave
In(q) == {q[i] : i \in 1..Len(q)}
Awake(e) == engine[e].running \/ engine[e].at = "reduce" \/ Unfinished(e) # {}
Coming(e) == \E c \in Clients : \E m \in In(input[c][e]) : m.type = "ADD"
Called(e) == \E m \in In(starts[e]) : m.wave = W /\ m.exclude # e
Started == coord.wave = W /\ coord.running
Asked == coord.wave = W /\ \E c \in Clients : notice[c] # <<>> \/ first[c] # <<>>
Told(e) == \E m \in In(report[e]) : m.type = "start_wave" /\ m.wave = W
Trigger == Started \/ Asked \/ \E e \in Engines : Told(e)

ReqState == [state : {"new", "sent", "in", "done", "aborted"}, eng : Int, left : Int]

(* A request that is on its way is so once, and to the engine it is for. *)
OnItsWay(q, c, e) ==
  \A i \in 1..Len(q) : q[i].type = "ADD" =>
    /\ req[q[i].req].state = "sent" /\ req[q[i].req].eng = e /\ c = Owner[q[i].req]
    /\ \A j \in 1..Len(q) : q[j].type = "ADD" /\ q[j].req = q[i].req => i = j

Delivery ==
  /\ req \in [Requests -> ReqState]
  /\ \A c \in Clients, e \in Engines : OnItsWay(input[c][e], c, e)
  /\ \A c \in Clients : \A m \in In(notice[c]) \cup In(first[c]) :
       m.wave \in Int /\ m.wave <= coord.wave /\ m.eng \in Engines

Causes ==
  /\ \A e \in Engines : Awake(e) => Trigger
  /\ \A c \in Clients, e \in Engines : \A m \in In(input[c][e]) :
       m.type = "ADD" /\ m.wave = W => Trigger
  /\ \A c \in Clients : client[c].wave = W /\ client[c].running => Trigger
  /\ \A c \in Clients : \A m \in In(news[c]) : m.wave = W /\ m.running => Started
  /\ \A e \in Engines : \A m \in In(starts[e]) : m.wave = W => Started

Excluded ==
  /\ \A e \in Engines : Told(e) => Awake(e)
  /\ \A c \in Clients : \A m \in In(notice[c]) \cup In(first[c]) :
       m.wave = W => Awake(m.eng) \/ Coming(m.eng)
  /\ Started => \A e \in Engines : Awake(e) \/ Coming(e) \/ Called(e)

Waking == Delivery /\ (excuse \/ (Causes /\ Excluded))

\* What is in a queue after a message is sent, and before one is taken.
LEMMA InAppend ==
  ASSUME NEW S, NEW q \in Seq(S), NEW x \in S
  PROVE  /\ In(Append(q, x)) = In(q) \cup {x} /\ Append(q, x) # <<>>
         /\ Len(Append(q, x)) = Len(q) + 1 /\ Append(q, x)[Len(q) + 1] = x
         /\ \A i \in 1..Len(q) : Append(q, x)[i] = q[i]
<1>1. /\ Len(Append(q, x)) = Len(q) + 1 /\ Append(q, x)[Len(q) + 1] = x
      /\ \A i \in 1..Len(q) : Append(q, x)[i] = q[i]
      /\ Len(q) \in Nat /\ Append(q, x) # <<>>
  BY SMT
<1>2. \A i : i \in 1..(Len(q) + 1) <=> i \in 1..Len(q) \/ i = Len(q) + 1
  BY <1>1, SMT
<1>3. \A y : y \in In(Append(q, x)) <=> y \in In(q) \cup {x}
  BY <1>1, <1>2 DEF In
<1> QED
  BY <1>1, <1>3

\* What is in a queue after any message is sent.
LEMMA InAppendAny ==
  ASSUME NEW S, NEW q \in Seq(S), NEW x
  PROVE  In(Append(q, x)) = In(q) \cup {x}
<1>1. q \in Seq(S \cup {x})
  BY SeqMonotone
<1> QED
  BY <1>1, InAppend, SMT

\* What is in a queue before and after its oldest message is taken.
LEMMA InTail ==
  ASSUME NEW S, NEW q \in Seq(S), q # <<>>
  PROVE  /\ In(q) = In(Tail(q)) \cup {Head(q)} /\ Tail(q) \in Seq(S) /\ Head(q) \in S
         /\ Len(Tail(q)) = Len(q) - 1 /\ Len(q) \in Nat \ {0} /\ Head(q) = q[1]
         /\ \A i \in 1..(Len(q) - 1) : Tail(q)[i] = q[i + 1]
<1>1. /\ Len(Tail(q)) = Len(q) - 1 /\ Len(q) \in Nat \ {0} /\ Head(q) = q[1]
      /\ \A i \in 1..(Len(q) - 1) : Tail(q)[i] = q[i + 1]
      /\ Tail(q) \in Seq(S) /\ Head(q) \in S
  BY SMT
<1>2. ASSUME NEW y \in In(q) PROVE y \in In(Tail(q)) \cup {Head(q)}
  <2>1. PICK i \in 1..Len(q) : y = q[i]
    BY DEF In
  <2>2. CASE i = 1
    BY <1>1, <2>1, <2>2
  <2>3. CASE i # 1
    <3>1. i - 1 \in 1..(Len(q) - 1) /\ (i - 1) + 1 = i
      BY <1>1, <2>1, <2>3, SMT
    <3>2. Tail(q)[i - 1] = y
      BY <1>1, <2>1, <3>1
    <3> QED
      BY <1>1, <3>1, <3>2 DEF In
  <2> QED
    BY <2>2, <2>3
<1>3. ASSUME NEW y \in In(Tail(q)) \cup {Head(q)} PROVE y \in In(q)
  <2>1. CASE y = Head(q)
    BY <1>1, <2>1, SMT DEF In
  <2>2. CASE y \in In(Tail(q))
    <3>1. PICK i \in 1..(Len(q) - 1) : y = Tail(q)[i]
      BY <1>1, <2>2 DEF In
    <3>2. i + 1 \in 1..Len(q) /\ y = q[i + 1]
      BY <1>1, <3>1, SMT
    <3> QED
      BY <3>2 DEF In
  <2> QED
    BY <1>3, <2>1, <2>2
<1> QED
  BY <1>1, <1>2, <1>3

\* A queue has a message if and only if it is not empty.
LEMMA InEmpty ==
  ASSUME NEW S, NEW q \in Seq(S)
  PROVE  /\ In(q) \subseteq S
         /\ In(q) = {} <=> q = <<>>
<1>1. q # <<>> => 1 \in 1..Len(q)
  BY SMT
<1>2. In(q) \subseteq S
  BY SMT DEF In
<1>3. q = <<>> => 1..Len(q) = {}
  BY SMT
<1> QED
  BY <1>1, <1>2, <1>3 DEF In

\* The types the argument needs, by themselves.
LEMMA QueueTypes ==
  ASSUME IInv
  PROVE  /\ W \in Nat /\ coord.wave \in Nat /\ coord.wave <= W /\ coord.running \in BOOLEAN
         /\ \A e \in Engines : engine[e].wave = W /\ engine[e] \in EngineState /\ e \in Int
         /\ \A c \in Clients : /\ notice[c] \in Seq(Note) /\ first[c] \in Seq(Note)
                               /\ news[c] \in Seq(State(coord.wave))
                               /\ client[c] \in State(coord.wave) /\ client[c].wave \in 0..coord.wave
         /\ \A e \in Engines : /\ report[e] \in Seq(Report(W))
                               /\ starts[e] \in Seq(Start(coord.wave))
         /\ \A c \in Clients, e \in Engines : input[c][e] \in Seq(Message(coord.wave))
         /\ 0 \in Engines /\ None \notin Engines
<1>1. /\ W \in Nat /\ coord.wave \in Nat /\ coord.wave <= W /\ coord.running \in BOOLEAN
  BY EnginesAssumption, SMT DEF IInv, State, EngineState, W
<1>2. \A c \in Clients : client[c] \in State(coord.wave) /\ client[c].wave \in 0..coord.wave
  BY DEF IInv, State
<1>3. 0 \in Engines /\ None \notin Engines /\ \A e \in Engines : e \in Int
  BY EnginesAssumption, SMT DEF None
<1> QED
  BY <1>1, <1>2, <1>3, SMT DEF IInv, W

\* What is on its way in a queue stays so when the queue is shortened, or when an ABORT
\* or the ADD of a new request is added.
LEMMA OnItsWayTail ==
  ASSUME NEW S, NEW q \in Seq(S), q # <<>>, NEW c, NEW e, OnItsWay(q, c, e)
  PROVE  /\ OnItsWay(Tail(q), c, e)
         /\ Head(q).type = "ADD" =>
              \A i \in 1..Len(Tail(q)) :
                Tail(q)[i].type = "ADD" => Tail(q)[i].req # Head(q).req
<1>1. /\ Len(Tail(q)) = Len(q) - 1 /\ Len(q) \in Nat \ {0} /\ Head(q) = q[1]
      /\ \A i \in 1..(Len(q) - 1) : Tail(q)[i] = q[i + 1]
  BY InTail
<1>2. \A i \in 1..Len(Tail(q)) : i + 1 \in 1..Len(q) /\ Tail(q)[i] = q[i + 1] /\ i + 1 # 1
  BY <1>1, SMT
<1>3. \A i, j \in 1..Len(Tail(q)) : i + 1 = j + 1 => i = j
  BY <1>1, SMT
<1>4. 1 \in 1..Len(q)
  BY <1>1, SMT
<1>5. OnItsWay(Tail(q), c, e)
  BY <1>2, <1>3, SMT DEF OnItsWay
<1> QED
  BY <1>1, <1>2, <1>4, <1>5 DEF OnItsWay

\* A request that is sent is on its way once, if none of the queue is the same.
LEMMA OnItsWayAppend ==
  ASSUME NEW S, NEW q \in Seq(S), NEW c, NEW e, OnItsWay(q, c, e), NEW m \in S,
         m.type = "ADD" =>
           /\ req[m.req].state = "sent" /\ req[m.req].eng = e /\ c = Owner[m.req]
           /\ \A i \in 1..Len(q) : q[i].type = "ADD" => q[i].req # m.req
  PROVE  OnItsWay(Append(q, m), c, e)
<1> DEFINE p == Append(q, m)
<1>1. /\ Len(p) = Len(q) + 1 /\ p[Len(q) + 1] = m /\ Len(q) \in Nat
      /\ \A i \in 1..Len(q) : p[i] = q[i]
  BY InAppend, SMT
<1> HIDE DEF p
<1>2. \A i \in 1..Len(p) : i \in 1..Len(q) \/ i = Len(q) + 1
  BY <1>1, SMT
<1>3. OnItsWay(p, c, e)
  BY <1>1, <1>2, SMT DEF OnItsWay
<1> QED
  BY <1>3 DEF p

\* Delivery is about requests, the coordinator's wave and three kinds of queue.
LEMMA DeliverySame ==
  ASSUME Delivery, req' = req, input' = input, coord' = coord, notice' = notice, first' = first
  PROVE  Delivery'
<1>1. ASSUME NEW d \in Clients, NEW f \in Engines
      PROVE  OnItsWay(input[d][f], d, f)'
  <2>1. OnItsWay(input'[d][f], d, f)
    BY DEF Delivery
  <2> QED
    BY <2>1 DEF OnItsWay
<1> QED
  BY <1>1 DEF Delivery, In

\* Requests are delivered once: a step of a client.
LEMMA ClientsDeliver ==
  ASSUME IInv, Delivery,
         \/ \E r \in Requests : AbortRequest(r) \/ \E e \in Engines : AddRequest(r, e)
         \/ \E c \in Clients : ClientStep(c)
  PROVE  Delivery'
<1>0. /\ coord.wave \in Nat
      /\ \A c \in Clients : /\ notice[c] \in Seq(Note) /\ first[c] \in Seq(Note)
                            /\ client[c].wave \in 0..coord.wave
      /\ \A c \in Clients, e \in Engines : input[c][e] \in Seq(Message(coord.wave))
  BY QueueTypes
<1>a. /\ input \in [Clients -> [Engines -> Seq(Message(coord.wave))]]
      /\ notice \in [Clients -> Seq(Note)] /\ first \in [Clients -> Seq(Note)]
      /\ req \in [Requests -> ReqState]
  BY DEF IInv, Delivery
<1>1. ASSUME NEW r \in Requests, NEW e \in Engines, AddRequest(r, e) PROVE Delivery'
  <2> DEFINE c == Owner[r]
             m == [type |-> "ADD", req |-> r, wave |-> client[c].wave]
             n == [eng |-> e, wave |-> client[c].wave]
  <2>1. /\ c \in Clients /\ req[r].state = "new"
        /\ req' = [req EXCEPT ![r] = [state |-> "sent", eng |-> e, left |-> Needs[r]]]
        /\ input' = [input EXCEPT ![c][e] = Append(@, m)]
        /\ notice' = IF client[c].running THEN notice ELSE [notice EXCEPT ![c] = Append(@, n)]
        /\ first' = first /\ coord' = coord
    BY <1>1, OwnerAssumption DEF AddRequest
  <2>2. m \in Message(coord.wave) /\ n \in Note /\ e \in Int /\ Needs[r] \in Int
        /\ n.wave \in Int /\ n.wave <= coord.wave /\ n.eng = e
    BY <1>0, <2>1, EnginesAssumption, StepsAssumption, SMT DEF Message, Note
  <2>3. req' \in [Requests -> ReqState]
    BY <1>a, <2>1, <2>2 DEF ReqState
  <2>4. m.type = "ADD" /\ m.req = r
    OBVIOUS
  <2> HIDE DEF m, n, c
  <2>5. ASSUME NEW d \in Clients, NEW f \in Engines
        PROVE  /\ OnItsWay(input[d][f], d, f)'
  <3>1. \A i \in 1..Len(input[d][f]) : input[d][f][i].type = "ADD" =>
          input[d][f][i].req # r /\ input[d][f][i].req \in Requests
      <4>1. OnItsWay(input[d][f], d, f) /\ input[d][f] \in Seq(Message(coord.wave))
        BY <1>0 DEF Delivery
      <4>2. \A i \in 1..Len(input[d][f]) : input[d][f][i] \in Message(coord.wave)
        BY <4>1, SMT
      <4> QED
        BY <2>1, <4>1, <4>2 DEF OnItsWay, Message
    <3>2. \A x \in Requests : x # r => req'[x] = req[x]
      BY <1>a, <2>1
    <3>3. (OnItsWay(input[d][f], d, f)) /\ input[d][f] \in Seq(Message(coord.wave))
      BY <1>0 DEF Delivery
    <3>4. \A i \in 1..Len(input[d][f]) : input[d][f][i].type = "ADD" =>
            /\ req'[input[d][f][i].req].state = "sent" /\ req'[input[d][f][i].req].eng = f
            /\ d = Owner[input[d][f][i].req]
            /\ \A j \in 1..Len(input[d][f]) :
                 input[d][f][j].type = "ADD" /\ input[d][f][j].req = input[d][f][i].req => i = j
      BY <3>1, <3>2, <3>3 DEF OnItsWay
    <3>5. CASE d = c /\ f = e
      <4>1. input'[d][f] = Append(input[d][f], m)
        BY <1>a, <2>1, <3>5
      <4>2. req'[r].state = "sent" /\ req'[r].eng = e
        BY <1>a, <2>1
      <4> DEFINE q == input[d][f]
                 p == Append(q, m)
      <4>3. /\ Len(p) = Len(q) + 1 /\ p[Len(q) + 1] = m /\ Len(q) \in Nat
            /\ \A i \in 1..Len(q) : p[i] = q[i]
        BY <2>2, <3>3, InAppend, SMT
      <4>4. \A i \in 1..Len(p) : i \in 1..Len(q) \/ i = Len(q) + 1
        BY <4>3, SMT
      <4>5. /\ \A i \in 1..Len(q) : q[i].type = "ADD" =>
                 /\ req'[q[i].req].state = "sent" /\ req'[q[i].req].eng = f /\ d = Owner[q[i].req]
                 /\ \A j \in 1..Len(q) : q[j].type = "ADD" /\ q[j].req = q[i].req => i = j
            /\ \A i \in 1..Len(q) : q[i].type = "ADD" => q[i].req # r
        BY <3>1, <3>4
      <4> HIDE DEF p, q
      <4>6. ASSUME NEW i \in 1..Len(p), p[i].type = "ADD"
            PROVE  /\ req'[p[i].req].state = "sent" /\ req'[p[i].req].eng = f
                   /\ d = Owner[p[i].req]
                   /\ \A j \in 1..Len(p) : p[j].type = "ADD" /\ p[j].req = p[i].req => i = j
        <5>1. CASE i = Len(q) + 1
          BY <5>1, <4>2, <4>3, <4>4, <4>5, <2>4, <3>5, SMT DEF c
        <5>2. CASE i \in 1..Len(q)
          BY <5>2, <4>3, <4>4, <4>5, <4>6, <2>4
        <5> QED
          BY <5>1, <5>2, <4>4
      <4>7. input'[d][f] = p
        BY <4>1 DEF p, q
      <4> QED
        BY <4>6, <4>7 DEF OnItsWay
    <3>6. CASE ~(d = c /\ f = e)
      <4>1. input'[d][f] = input[d][f]
        BY <1>a, <2>1, <3>6
      <4> QED
        BY <4>1, <3>4, ZenonT(30) DEF OnItsWay
    <3> QED
      BY <3>5, <3>6
  <2>6. ASSUME NEW d \in Clients, NEW x \in In(notice'[d]) \cup In(first'[d])
        PROVE  x \in In(notice[d]) \cup In(first[d]) \/ x = n
    <3>1. notice[d] \in Seq(Note)
      BY <1>0
    <3>2. notice'[d] = notice[d] \/ notice'[d] = Append(notice[d], n)
      BY <1>a, <2>1
    <3> QED
      BY <2>1, <2>2, <3>1, <3>2, InAppend, SMT
  <2> QED
    BY <2>1, <2>2, <2>3, <2>5, <2>6 DEF Delivery, In
<1>2. ASSUME NEW r \in Requests, AbortRequest(r) PROVE Delivery'
  <2> DEFINE c == Owner[r]
             m == [type |-> "ABORT", req |-> r, wave |-> 0]
             e == req[r].eng
  <2>1. /\ input' = [input EXCEPT ![c][e] = Append(@, m)] /\ req' = req
        /\ notice' = notice /\ first' = first /\ coord' = coord
    BY <1>2 DEF AbortRequest
  <2>2. m \in Message(coord.wave) /\ m.type # "ADD"
    BY <1>0, SMT DEF Message
  <2> HIDE DEF m, e, c
  <2>3. ASSUME NEW d \in Clients, NEW f \in Engines
        PROVE  OnItsWay(input'[d][f], d, f)
    <3>1. input'[d][f] = input[d][f] \/ input'[d][f] = Append(input[d][f], m)
      BY <1>a, <2>1
    <3>2. OnItsWay(input[d][f], d, f) /\ input[d][f] \in Seq(Message(coord.wave))
      BY <1>0 DEF Delivery
    <3>3. OnItsWay(Append(input[d][f], m), d, f)
      BY <2>2, <3>2, OnItsWayAppend
    <3> QED
      BY <3>1, <3>2, <3>3
  <2>4. ASSUME NEW d \in Clients, NEW f \in Engines
        PROVE  OnItsWay(input[d][f], d, f)'
    <3>1. OnItsWay(input'[d][f], d, f) /\ req' = req
      BY <2>1, <2>3
    <3> QED
      BY <3>1 DEF OnItsWay
  <2> QED
    BY <2>1, <2>4, SMT DEF Delivery, In
<1>3. ASSUME NEW c \in Clients, Notify(c) PROVE Delivery'
  <2> DEFINE n == [eng |-> Head(notice[c]).eng, wave |-> client[c].wave]
  <2>1. /\ notice[c] # <<>> /\ first' = [first EXCEPT ![c] = Append(@, n)]
        /\ notice' = [notice EXCEPT ![c] = Tail(@)]
        /\ req' = req /\ input' = input /\ coord' = coord
    BY <1>3 DEF Notify
  <2>2. Head(notice[c]) \in In(notice[c]) /\ Head(notice[c]) \in Note
        /\ In(Tail(notice[c])) \subseteq In(notice[c])
    BY <1>0, <2>1, InTail
  <2>3. n \in Note /\ n.wave \in Int /\ n.wave <= coord.wave /\ n.eng \in Engines
    <3>1. client[c].wave \in Int /\ client[c].wave <= coord.wave
      BY <1>0, SMT
    <3>2. Head(notice[c]).eng \in Engines
      BY <2>2 DEF Delivery
    <3>3. Head(notice[c]).eng \in Int
      BY <2>2 DEF Note
    <3> QED
      BY <3>1, <3>2, <3>3 DEF Note
  <2> HIDE DEF n
  <2>4. ASSUME NEW d \in Clients, NEW x \in In(notice'[d]) \cup In(first'[d])
        PROVE  x \in In(notice[d]) \cup In(first[d]) \/ x = n
    <3>1. /\ notice'[d] = notice[d] \/ (d = c /\ notice'[d] = Tail(notice[c]))
          /\ first'[d] = first[d] \/ first'[d] = Append(first[d], n)
      BY <1>a, <2>1
    <3>2. first[d] \in Seq(Note)
      BY <1>0
    <3>3. In(Append(first[d], n)) = In(first[d]) \cup {n}
      BY <2>3, <3>2, InAppend, SMT
    <3> QED
      BY <2>2, <3>1, <3>3
  <2>5. ASSUME NEW d \in Clients, NEW f \in Engines
        PROVE  OnItsWay(input[d][f], d, f)'
    <3>1. OnItsWay(input'[d][f], d, f) /\ req' = req
      BY <2>1 DEF Delivery
    <3> QED
      BY <3>1 DEF OnItsWay
  <2>6. \A d \in Clients : \A x \in In(notice'[d]) \cup In(first'[d]) :
          x.wave \in Int /\ x.wave <= coord.wave /\ x.eng \in Engines
    BY <2>3, <2>4 DEF Delivery
  <2>7. req' \in [Requests -> ReqState] /\ coord'.wave = coord.wave
    BY <2>1 DEF Delivery
  <2> QED
    BY <2>5, <2>6, <2>7 DEF Delivery, In
<1>4. ASSUME NEW c \in Clients, TakeNews(c) PROVE Delivery'
  <2>1. /\ req' = req /\ input' = input /\ coord' = coord
        /\ notice' = notice /\ first' = first
    BY <1>4 DEF TakeNews
  <2> QED
    BY <2>1, DeliverySame
<1> QED
  BY <1>1, <1>2, <1>3, <1>4 DEF ClientStep

\* A step of the coordinator, which takes a note or has a later wave.
LEMMA CoordinatorDelivers ==
  ASSUME IInv, Delivery, CoordStep \/ OnTimeout
  PROVE  Delivery'
<1>0. /\ coord.wave \in Nat
      /\ \A c \in Clients : first[c] \in Seq(Note)
      /\ first \in [Clients -> Seq(Note)]
  BY QueueTypes DEF IInv
<1>1. /\ req' = req /\ input' = input /\ notice' = notice
      /\ coord'.wave \in Nat /\ coord.wave <= coord'.wave
  <2>1. ASSUME NEW c \in Clients, OnFirstRequest(c)
        PROVE  coord'.wave = coord.wave /\ req' = req /\ input' = input /\ notice' = notice
    <3>1. coord \in State(engine[0].wave)
      BY DEF IInv
    <3> QED
      BY <2>1, <3>1 DEF OnFirstRequest, State
  <2>2. ASSUME OnWaveComplete
        PROVE  /\ req' = req /\ input' = input /\ notice' = notice
               /\ coord'.wave \in Nat /\ coord.wave <= coord'.wave
    <3>1. Head(report[0]) \in Report(W) /\ W \in Nat
      BY <2>2, QueueTypes, InTail DEF OnWaveComplete
    <3>2. Head(report[0]).wave \in Nat
      BY <3>1, SMT DEF Report
    <3> QED
      BY <1>0, <2>2, <3>2, SMT DEF OnWaveComplete
  <2>3. ASSUME NEW e \in Engines, OnStartWave(e)
        PROVE  /\ req' = req /\ input' = input /\ notice' = notice
               /\ coord'.wave \in Nat /\ coord.wave <= coord'.wave
    <3>1. Head(report[e]) \in Report(W) /\ W \in Nat
      BY <2>3, QueueTypes, InTail DEF OnStartWave
    <3>2. Head(report[e]).wave \in Nat
      BY <3>1, SMT DEF Report
    <3> QED
      BY <1>0, <2>3, <3>2, SMT DEF OnStartWave
  <2>4. ASSUME OnTimeout
        PROVE  coord' = coord /\ req' = req /\ input' = input /\ notice' = notice
    BY <2>4 DEF OnTimeout
  <2> QED
    BY <1>0, <2>1, <2>2, <2>3, <2>4, SMT DEF CoordStep
<1>2. \A c \in Clients : In(first'[c]) \subseteq In(first[c])
  <2>1. first' = first \/ \E d \in Clients : first[d] # <<>> /\ first' = [first EXCEPT ![d] = Tail(@)]
    BY DEF CoordStep, OnFirstRequest, OnWaveComplete, OnStartWave, OnTimeout
  <2>2. CASE first' = first
    BY <2>2
  <2>3. CASE \E d \in Clients : first[d] # <<>> /\ first' = [first EXCEPT ![d] = Tail(@)]
    <3>1. PICK d \in Clients : first[d] # <<>> /\ first' = [first EXCEPT ![d] = Tail(@)]
      BY <2>3
    <3>2. In(Tail(first[d])) \subseteq In(first[d])
      BY <1>0, <3>1, InTail
    <3> QED
      BY <1>0, <3>1, <3>2
  <2> QED
    BY <2>1, <2>2, <2>3
<1>3. ASSUME NEW c \in Clients, NEW m \in In(notice'[c]) \cup In(first'[c])
      PROVE  m.wave \in Int /\ m.wave <= coord'.wave /\ m.eng \in Engines
  <2>1. m \in In(notice[c]) \cup In(first[c])
    BY <1>1, <1>2
  <2>2. m.wave \in Int /\ m.wave <= coord.wave /\ m.eng \in Engines
    BY <2>1 DEF Delivery
  <2> QED
    BY <1>0, <1>1, <2>2, SMT
<1>4. ASSUME NEW c \in Clients, NEW e \in Engines PROVE OnItsWay(input[c][e], c, e)'
  <2>1. OnItsWay(input[c][e], c, e) /\ input' = input /\ req' = req
    BY <1>1 DEF Delivery
  <2> QED
    BY <2>1 DEF OnItsWay
<1> QED
  BY <1>1, <1>3, <1>4 DEF Delivery, In

\* A step of an engine: a request it takes was on its way once, and no other is lost.
LEMMA EnginesDeliver ==
  ASSUME IInv, Delivery, AllReduce \/ \E e \in Engines : EngineStep(e)
  PROVE  Delivery'
<1>0. \A c \in Clients, e \in Engines : input[c][e] \in Seq(Message(coord.wave))
  BY QueueTypes
<1>a. /\ input \in [Clients -> [Engines -> Seq(Message(coord.wave))]]
      /\ req \in [Requests -> ReqState]
  BY DEF IInv, Delivery
\* It is enough that the requests still on their way are left as they are.
<1>b. ASSUME req' \in [Requests -> ReqState],
             notice' = notice, first' = first, coord' = coord,
             \A c \in Clients, e \in Engines :
               /\ input'[c][e] = input[c][e] \/ (input[c][e] # <<>> /\ input'[c][e] = Tail(input[c][e]))
               /\ \A i \in 1..Len(input'[c][e]) : input'[c][e][i].type = "ADD" =>
                    req'[input'[c][e][i].req] = req[input'[c][e][i].req]
      PROVE  Delivery'
  <2>1. ASSUME NEW c \in Clients, NEW e \in Engines PROVE OnItsWay(input[c][e], c, e)'
    <3>1. OnItsWay(input[c][e], c, e) /\ input[c][e] \in Seq(Message(coord.wave))
      BY <1>0 DEF Delivery
    <3>2. input[c][e] # <<>> => OnItsWay(Tail(input[c][e]), c, e)
      BY <3>1, OnItsWayTail
    <3>3. OnItsWay(input'[c][e], c, e)
      BY <1>b, <3>1, <3>2
    <3>4. \A i \in 1..Len(input'[c][e]) : input'[c][e][i].type = "ADD" =>
            req'[input'[c][e][i].req] = req[input'[c][e][i].req]
      BY <1>b
    <3> QED
      BY <3>3, <3>4 DEF OnItsWay
  <2> QED
    BY <1>b, <2>1, SMT DEF Delivery, In
\* A request on its way has not come.
<1>c. ASSUME NEW c \in Clients, NEW e \in Engines, NEW i \in 1..Len(input[c][e]),
             input[c][e][i].type = "ADD"
      PROVE  /\ input[c][e][i].req \in Requests /\ req[input[c][e][i].req].state = "sent"
             /\ req[input[c][e][i].req].eng = e /\ c = Owner[input[c][e][i].req]
  <2>1. input[c][e][i] \in Message(coord.wave)
    BY <1>0, SMT
  <2>2. OnItsWay(input[c][e], c, e)
    BY DEF Delivery
  <2> QED
    BY <1>c, <2>1, <2>2 DEF Message, OnItsWay
\* The queues when the head of one is taken: what is left was there before.
<1>d. ASSUME NEW c \in Clients, NEW e \in Engines, input[c][e] # <<>>,
             input' = [input EXCEPT ![c][e] = Tail(@)]
      PROVE  /\ input'[c][e] = Tail(input[c][e]) /\ Head(input[c][e]) \in Message(coord.wave)
             /\ \A d \in Clients, f \in Engines : (d # c \/ f # e) => input'[d][f] = input[d][f]
             /\ \A d \in Clients, f \in Engines : \A i \in 1..Len(input'[d][f]) :
                  \E j \in 1..Len(input[d][f]) : input'[d][f][i] = input[d][f][j]
  <2>1. /\ input'[c][e] = Tail(input[c][e])
        /\ \A d \in Clients, f \in Engines : (d # c \/ f # e) => input'[d][f] = input[d][f]
    BY <1>a, <1>d
  <2>2. /\ Len(Tail(input[c][e])) = Len(input[c][e]) - 1 /\ Len(input[c][e]) \in Nat \ {0}
        /\ \A i \in 1..(Len(input[c][e]) - 1) : Tail(input[c][e])[i] = input[c][e][i + 1]
        /\ Head(input[c][e]) \in Message(coord.wave)
    BY <1>0, <1>d, InTail
  <2>3. \A i \in 1..Len(Tail(input[c][e])) :
          i + 1 \in 1..Len(input[c][e]) /\ Tail(input[c][e])[i] = input[c][e][i + 1]
    BY <2>2, SMT
  <2>4. ASSUME NEW d \in Clients, NEW f \in Engines, NEW i \in 1..Len(input'[d][f])
        PROVE  \E j \in 1..Len(input[d][f]) : input'[d][f][i] = input[d][f][j]
    <3>1. CASE d = c /\ f = e
      BY <2>1, <2>3, <3>1, ZenonT(30)
    <3>2. CASE ~(d = c /\ f = e)
      BY <2>1, <3>2
    <3> QED
      BY <3>1, <3>2
  <2> QED
    BY <2>1, <2>2, <2>4
<1>1. ASSUME NEW e \in Engines, StartWave(e) PROVE Delivery'
  BY <1>1, <1>a, <1>b DEF StartWave
<1>2. ASSUME NEW e \in Engines, NEW c \in Clients, Add(e, c) PROVE Delivery'
  <2> DEFINE r == Head(input[c][e]).req
  <2>1. /\ input[c][e] # <<>> /\ Head(input[c][e]).type = "ADD"
        /\ input' = [input EXCEPT ![c][e] = Tail(@)]
        /\ req' = [req EXCEPT ![r].state = "in"]
        /\ notice' = notice /\ first' = first /\ coord' = coord
    BY <1>2 DEF Add, Comes
  <2>2. /\ input'[c][e] = Tail(input[c][e]) /\ Head(input[c][e]) \in Message(coord.wave)
        /\ \A d \in Clients, f \in Engines : (d # c \/ f # e) => input'[d][f] = input[d][f]
        /\ \A d \in Clients, f \in Engines : \A i \in 1..Len(input'[d][f]) :
             \E j \in 1..Len(input[d][f]) : input'[d][f][i] = input[d][f][j]
    BY <1>d, <2>1
  <2>3. Head(input[c][e]) = input[c][e][1] /\ 1 \in 1..Len(input[c][e])
    BY <1>0, <2>1, InTail, SMT
  <2>4. r \in Requests /\ req[r].eng = e /\ c = Owner[r]
    <3>1. input[c][e][1].type = "ADD"
      BY <2>1, <2>3
    <3>2. /\ input[c][e][1].req \in Requests /\ req[input[c][e][1].req].eng = e
          /\ c = Owner[input[c][e][1].req]
      BY <1>c, <2>3, <3>1, SMT
    <3> QED
      BY <2>3, <3>2
  <2>5. \A x \in Requests : x # r => req'[x] = req[x]
    BY <1>a, <2>1, <2>4
  <2>6. req' \in [Requests -> ReqState]
    BY <1>a, <2>1, <2>4 DEF ReqState
  <2> HIDE DEF r
  <2>7. ASSUME NEW d \in Clients, NEW f \in Engines, NEW i \in 1..Len(input'[d][f]),
               input'[d][f][i].type = "ADD"
        PROVE  input'[d][f][i].req \in Requests \ {r}
    <3>1. PICK j \in 1..Len(input[d][f]) : input'[d][f][i] = input[d][f][j]
      BY <2>2
    <3>2. /\ input'[d][f][i].req \in Requests /\ req[input'[d][f][i].req].eng = f
          /\ d = Owner[input'[d][f][i].req]
      <4>1. input[d][f][j].type = "ADD"
        BY <2>7, <3>1
      <4>2. /\ input[d][f][j].req \in Requests /\ req[input[d][f][j].req].eng = f
            /\ d = Owner[input[d][f][j].req]
        BY <1>c, <4>1, SMTT(30)
      <4> QED
        BY <3>1, <4>2
    <3>3. CASE d = c /\ f = e
      <4>1. OnItsWay(input[c][e], c, e)
        BY DEF Delivery
      <4>2. \A k \in 1..Len(Tail(input[c][e])) :
              Tail(input[c][e])[k].type = "ADD" => Tail(input[c][e])[k].req # Head(input[c][e]).req
        BY <1>0, <2>1, <4>1, OnItsWayTail
      <4> QED
        BY <2>2, <2>7, <3>2, <3>3, <4>2 DEF r
    <3>4. CASE ~(d = c /\ f = e)
      BY <2>4, <3>2, <3>4
    <3> QED
      BY <3>3, <3>4
  <2>8. \A d \in Clients, f \in Engines :
          \/ input'[d][f] = input[d][f]
          \/ input[d][f] # <<>> /\ input'[d][f] = Tail(input[d][f])
    BY <2>1, <2>2
  <2> QED
    BY <1>b, <2>1, <2>5, <2>6, <2>7, <2>8
<1>3. ASSUME NEW e \in Engines, NEW c \in Clients, Abort(e, c) PROVE Delivery'
  <2> DEFINE r == Head(input[c][e]).req
  <2>1. /\ input[c][e] # <<>> /\ input' = [input EXCEPT ![c][e] = Tail(@)]
        /\ req' = IF req[r].state = "in" THEN [req EXCEPT ![r] = Ended("aborted")] ELSE req
        /\ notice' = notice /\ first' = first /\ coord' = coord
    BY <1>3 DEF Abort, Comes
  <2>2. /\ input'[c][e] = Tail(input[c][e]) /\ Head(input[c][e]) \in Message(coord.wave)
        /\ \A d \in Clients, f \in Engines : (d # c \/ f # e) => input'[d][f] = input[d][f]
        /\ \A d \in Clients, f \in Engines : \A i \in 1..Len(input'[d][f]) :
             \E j \in 1..Len(input[d][f]) : input'[d][f][i] = input[d][f][j]
    BY <1>d, <2>1
  <2>3. req' \in [Requests -> ReqState] /\ \A x \in Requests : req[x].state = "sent" => req'[x] = req[x]
    <3>1. Ended("aborted") \in ReqState
      BY SMT DEF Ended, ReqState, None
    <3> QED
      BY <1>a, <2>1, <3>1
  <2> HIDE DEF r
  <2>4. ASSUME NEW d \in Clients, NEW f \in Engines, NEW i \in 1..Len(input'[d][f]),
               input'[d][f][i].type = "ADD"
        PROVE  req'[input'[d][f][i].req] = req[input'[d][f][i].req]
    <3>1. PICK j \in 1..Len(input[d][f]) : input'[d][f][i] = input[d][f][j]
      BY <2>2
    <3>2. input'[d][f][i].req \in Requests /\ req[input'[d][f][i].req].state = "sent"
      <4>1. input[d][f][j].type = "ADD"
        BY <2>4, <3>1
      <4>2. input[d][f][j].req \in Requests /\ req[input[d][f][j].req].state = "sent"
        BY <1>c, <4>1, SMT
      <4> QED
        BY <3>1, <4>2
    <3> QED
      BY <2>3, <3>2
  <2>5. \A d \in Clients, f \in Engines :
          \/ input'[d][f] = input[d][f]
          \/ input[d][f] # <<>> /\ input'[d][f] = Tail(input[d][f])
    BY <2>1, <2>2
  <2>6. \A d \in Clients, f \in Engines :
          /\ input'[d][f] = input[d][f] \/ (input[d][f] # <<>> /\ input'[d][f] = Tail(input[d][f]))
          /\ \A i \in 1..Len(input'[d][f]) : input'[d][f][i].type = "ADD" =>
               req'[input'[d][f][i].req] = req[input'[d][f][i].req]
    BY <2>4, <2>5
  <2> QED
    BY <1>b, <2>1, <2>3, <2>6
<1>4. ASSUME NEW e \in Engines, Step(e) PROVE Delivery'
  <2>1. /\ req' = [r \in Requests |->
             IF r \notin Unfinished(e) THEN req[r]
             ELSE IF req[r].left = 1 THEN Ended("done")
             ELSE [req[r] EXCEPT !.left = @ - 1]]
        /\ notice' = notice /\ first' = first /\ coord' = coord /\ input' = input
    BY <1>4 DEF Step, queues
  <2>2. \A r \in Requests : req[r].state = "sent" => req'[r] = req[r]
    BY <2>1 DEF Unfinished
  <2>3. req' \in [Requests -> ReqState]
    <3>1. ASSUME NEW r \in Requests PROVE req'[r] \in ReqState
      <4>1. req[r] \in ReqState
        BY <1>a
      <4>2. [req[r] EXCEPT !.left = @ - 1] \in ReqState
        BY <4>1, SMT DEF ReqState
      <4>3. Ended("done") \in ReqState
        BY SMT DEF Ended, ReqState, None
      <4> QED
        BY <2>1, <4>1, <4>2, <4>3
    <3> QED
      BY <2>1, <3>1
  <2>4. ASSUME NEW d \in Clients, NEW f \in Engines, NEW i \in 1..Len(input[d][f]),
               input[d][f][i].type = "ADD"
        PROVE  req'[input[d][f][i].req] = req[input[d][f][i].req]
    <3>1. input[d][f][i].req \in Requests /\ req[input[d][f][i].req].state = "sent"
      BY <1>c, <2>4, SMT
    <3> QED
      BY <2>2, <3>1
  <2>6. input' = input
    BY <2>1
  <2>5. \A d \in Clients, f \in Engines :
          /\ input'[d][f] = input[d][f] \/ (input[d][f] # <<>> /\ input'[d][f] = Tail(input[d][f]))
          /\ \A i \in 1..Len(input'[d][f]) : input'[d][f][i].type = "ADD" =>
               req'[input'[d][f][i].req] = req[input'[d][f][i].req]
    BY <2>6, <2>4
  <2> QED
    BY <1>b, <2>1, <2>3, <2>5
<1>5. ASSUME AllReduce PROVE Delivery'
  BY <1>5, <1>a, <1>b DEF AllReduce
<1> QED
  BY <1>1, <1>2, <1>3, <1>4, <1>5 DEF EngineStep

\* An ADD or ABORT is for a request that was sent, and to the engine that has it.
Addressed ==
  \A c \in Clients, e \in Engines : \A m \in In(input[c][e]) :
    /\ req[m.req].state # "new"
    /\ req[m.req].state \in {"sent", "in"} => req[m.req].eng = e

\* Every step keeps the messages addressed.
LEMMA AddressedKept ==
  ASSUME IInv, Delivery, Addressed, Next
  PROVE  Addressed'
<1>a. /\ input \in [Clients -> [Engines -> Seq(Message(coord.wave))]]
      /\ req \in [Requests -> ReqState] /\ coord.wave \in Nat
      /\ \A c \in Clients, e \in Engines : input[c][e] \in Seq(Message(coord.wave))
  BY QueueTypes DEF IInv, Delivery
<1>b. \A c \in Clients, e \in Engines : \A m \in In(input[c][e]) : m.req \in Requests
  <2> TAKE c \in Clients, e \in Engines
  <2>1. In(input[c][e]) \subseteq Message(coord.wave)
    BY <1>a, InEmpty
  <2> QED
    BY <2>1 DEF Message
\* A request that was sent is not given to another engine.
<1>c. ASSUME \A r \in Requests : req[r].state # "new" =>
               /\ req'[r].state # "new"
               /\ req'[r].state \in {"sent", "in"} =>
                    req[r].state \in {"sent", "in"} /\ req'[r].eng = req[r].eng,
             \A c \in Clients, e \in Engines : In(input'[c][e]) \subseteq In(input[c][e])
      PROVE  Addressed'
  <2>1. ASSUME NEW c \in Clients, NEW e \in Engines, NEW m \in In(input'[c][e])
        PROVE  /\ req'[m.req].state # "new"
               /\ req'[m.req].state \in {"sent", "in"} => req'[m.req].eng = e
    <3>1. m \in In(input[c][e]) /\ m.req \in Requests
      BY <1>b, <1>c
    <3> QED
      BY <1>c, <3>1, SMT DEF Addressed
  <2> QED
    BY <2>1 DEF Addressed, In
<1>1. ASSUME NEW r \in Requests, NEW e \in Engines, AddRequest(r, e) PROVE Addressed'
  <2> DEFINE c == Owner[r]
             m == [type |-> "ADD", req |-> r, wave |-> client[c].wave]
  <2>1. /\ c \in Clients /\ req[r].state = "new"
        /\ req' = [req EXCEPT ![r] = [state |-> "sent", eng |-> e, left |-> Needs[r]]]
        /\ input' = [input EXCEPT ![c][e] = Append(@, m)]
    BY <1>1, OwnerAssumption DEF AddRequest
  <2>2. m \in Message(coord.wave) /\ m.req = r
    BY <2>1, QueueTypes DEF Message
  <2> HIDE DEF m, c
  <2>3. ASSUME NEW d \in Clients, NEW f \in Engines, NEW x \in In(input'[d][f])
        PROVE  x \in In(input[d][f]) \/ (f = e /\ x = m)
    <3>1. input'[d][f] = input[d][f] \/ (f = e /\ input'[d][f] = Append(input[d][f], m))
      BY <1>a, <2>1
    <3>2. In(Append(input[d][f], m)) = In(input[d][f]) \cup {m}
      BY <1>a, <2>2, InAppend, SMT
    <3> QED
      BY <3>1, <3>2
  <2>4. req'[r].state = "sent" /\ req'[r].eng = e /\ \A x \in Requests : x # r => req'[x] = req[x]
    BY <1>a, <2>1
  <2>5. ASSUME NEW d \in Clients, NEW f \in Engines, NEW x \in In(input'[d][f])
        PROVE  /\ req'[x.req].state # "new"
               /\ req'[x.req].state \in {"sent", "in"} => req'[x.req].eng = f
    <3>1. CASE x \in In(input[d][f])
      <4>1. x.req \in Requests /\ req[x.req].state # "new"
        BY <1>b, <3>1 DEF Addressed
      <4>2. req'[x.req] = req[x.req]
        BY <2>1, <2>4, <4>1
      <4> QED
        BY <3>1, <4>2, SMT DEF Addressed
    <3>2. CASE f = e /\ x = m
      BY <2>2, <2>4, <3>2
    <3> QED
      BY <2>3, <3>1, <3>2
  <2> QED
    BY <2>5 DEF Addressed, In
<1>2. ASSUME NEW r \in Requests, AbortRequest(r) PROVE Addressed'
  <2> DEFINE c == Owner[r]
             m == [type |-> "ABORT", req |-> r, wave |-> 0]
  <2>1. /\ req[r].state \in {"sent", "in"} /\ req' = req
        /\ input' = [input EXCEPT ![c][req[r].eng] = Append(@, m)]
    BY <1>2 DEF AbortRequest
  <2>2. m \in Message(coord.wave) /\ m.req = r
    BY <1>a, SMT DEF Message
  <2> HIDE DEF m, c
  <2>3. ASSUME NEW d \in Clients, NEW f \in Engines, NEW x \in In(input'[d][f])
        PROVE  x \in In(input[d][f]) \/ (f = req[r].eng /\ x = m)
    <3>1. input'[d][f] = input[d][f] \/ (f = req[r].eng /\ input'[d][f] = Append(input[d][f], m))
      BY <1>a, <2>1
    <3>2. In(Append(input[d][f], m)) = In(input[d][f]) \cup {m}
      BY <1>a, <2>2, InAppend, SMT
    <3> QED
      BY <3>1, <3>2
  <2>4. ASSUME NEW d \in Clients, NEW f \in Engines, NEW x \in In(input'[d][f])
        PROVE  /\ req'[x.req].state # "new"
               /\ req'[x.req].state \in {"sent", "in"} => req'[x.req].eng = f
    <3>1. CASE x \in In(input[d][f])
      BY <2>1, <3>1 DEF Addressed
    <3>2. CASE f = req[r].eng /\ x = m
      BY <2>1, <2>2, <3>2
    <3> QED
      BY <2>3, <3>1, <3>2
  <2> QED
    BY <2>4 DEF Addressed, In
<1>3. ASSUME NEW e \in Engines, NEW c \in Clients, NEW type, Comes(e, c, type)
      PROVE  \A d \in Clients, f \in Engines : In(input'[d][f]) \subseteq In(input[d][f])
  <2>1. input[c][e] # <<>> /\ input' = [input EXCEPT ![c][e] = Tail(@)]
    BY <1>3 DEF Comes
  <2>2. In(Tail(input[c][e])) \subseteq In(input[c][e])
    BY <1>a, <2>1, InTail
  <2>3. \A d \in Clients, f \in Engines :
          input'[d][f] = input[d][f] \/ (d = c /\ f = e /\ input'[d][f] = Tail(input[c][e]))
    BY <1>a, <2>1
  <2> QED
    BY <2>2, <2>3
<1>4. ASSUME NEW e \in Engines, NEW c \in Clients, Add(e, c) PROVE Addressed'
  <2> DEFINE r == Head(input[c][e]).req
  <2>1. /\ Comes(e, c, "ADD") /\ req' = [req EXCEPT ![r].state = "in"]
    BY <1>4 DEF Add
  <2>2. /\ input[c][e] # <<>> /\ Head(input[c][e]).type = "ADD"
    BY <2>1 DEF Comes
  <2>3. Head(input[c][e]) = input[c][e][1] /\ 1 \in 1..Len(input[c][e])
    BY <1>a, <2>2, InTail, SMT
  <2>4. OnItsWay(input[c][e], c, e)
    BY DEF Delivery
  <2>5. req[r].state = "sent"
    BY <2>2, <2>3, <2>4 DEF OnItsWay
  <2> HIDE DEF r
  <2>6. \A x \in Requests : req[x].state # "new" =>
          /\ req'[x].state # "new"
          /\ req'[x].state \in {"sent", "in"} =>
               req[x].state \in {"sent", "in"} /\ req'[x].eng = req[x].eng
    BY <1>a, <2>1, <2>5 DEF ReqState
  <2> QED
    BY <1>c, <1>3, <2>1, <2>6
<1>5. ASSUME NEW e \in Engines, NEW c \in Clients, Abort(e, c) PROVE Addressed'
  <2> DEFINE r == Head(input[c][e]).req
  <2>1. /\ Comes(e, c, "ABORT")
        /\ req' = IF req[r].state = "in" THEN [req EXCEPT ![r] = Ended("aborted")] ELSE req
    BY <1>5 DEF Abort
  <2>2. Ended("aborted").state = "aborted"
    BY DEF Ended
  <2> HIDE DEF r
  <2>3. \A x \in Requests : req[x].state # "new" =>
          /\ req'[x].state # "new"
          /\ req'[x].state \in {"sent", "in"} =>
               req[x].state \in {"sent", "in"} /\ req'[x].eng = req[x].eng
    BY <1>a, <2>1, <2>2
  <2> QED
    BY <1>c, <1>3, <2>1, <2>3
<1>6. ASSUME NEW e \in Engines, Step(e) PROVE Addressed'
  <2>1. /\ req' = [r \in Requests |->
             IF r \notin Unfinished(e) THEN req[r]
             ELSE IF req[r].left = 1 THEN Ended("done")
             ELSE [req[r] EXCEPT !.left = @ - 1]]
        /\ input' = input
    BY <1>6 DEF Step, queues
  <2>2. Ended("done").state = "done"
    BY DEF Ended
  <2>3. ASSUME NEW x \in Requests, req[x].state # "new"
        PROVE  /\ req'[x].state # "new"
               /\ req'[x].state \in {"sent", "in"} =>
                    req[x].state \in {"sent", "in"} /\ req'[x].eng = req[x].eng
    <3>1. req[x] \in ReqState
      BY <1>a
    <3>2. [req[x] EXCEPT !.left = @ - 1].state = req[x].state
          /\ [req[x] EXCEPT !.left = @ - 1].eng = req[x].eng
      BY <3>1 DEF ReqState
    <3> QED
      BY <2>1, <2>2, <2>3, <3>2
  <2>4. \A c \in Clients, f \in Engines : In(input'[c][f]) \subseteq In(input[c][f])
    BY <2>1
  <2> QED
    BY <1>c, <2>3, <2>4
<1>7. ASSUME req' = req, input' = input PROVE Addressed'
  BY <1>7, SMT DEF Addressed, In
<1>8. ASSUME NEW c \in Clients, ClientStep(c) PROVE Addressed'
  BY <1>7, <1>8 DEF ClientStep, Notify, TakeNews
<1>9. ASSUME CoordStep \/ OnTimeout PROVE Addressed'
  BY <1>7, <1>9 DEF CoordStep, OnTimeout, OnFirstRequest, OnWaveComplete, OnStartWave
<1>10. ASSUME AllReduce PROVE Addressed'
  BY <1>7, <1>10 DEF AllReduce
<1>11. ASSUME NEW e \in Engines, StartWave(e) PROVE Addressed'
  BY <1>7, <1>11 DEF StartWave
<1> QED
  BY <1>1, <1>2, <1>4, <1>5, <1>6, <1>8, <1>9, <1>10, <1>11 DEF Next, EngineStep

\* What a step within a wave may change without harm.
LEMMA WithinWave ==
  ASSUME Causes, Excluded, W' = W,
         Started => Started',
         Asked => Trigger',
         \A e \in Engines : Told(e) => Trigger',
         \A e \in Engines : Awake(e) => Awake(e)',
         \A e \in Engines : Coming(e) => Awake(e)' \/ Coming(e)',
         \A e \in Engines : Called(e) => Awake(e)' \/ Called(e)',
         \A e \in Engines : Awake(e)' => Awake(e) \/ Trigger',
         \A c \in Clients, e \in Engines : \A m \in In(input'[c][e]) :
           m.type = "ADD" /\ m.wave = W => m \in In(input[c][e]) \/ Trigger',
         \A c \in Clients : client'[c].wave = W /\ client'[c].running =>
           (client[c].wave = W /\ client[c].running) \/ Trigger',
         \A c \in Clients : \A m \in In(news'[c]) :
           m.wave = W /\ m.running => m \in In(news[c]) \/ Started',
         \A e \in Engines : \A m \in In(starts'[e]) :
           m.wave = W => m \in In(starts[e]) \/ Started',
         \A e \in Engines : Told(e)' => Told(e) \/ Awake(e)',
         \A c \in Clients : \A m \in In(notice'[c]) \cup In(first'[c]) :
           /\ m.eng \in Engines
           /\ m.wave = W => \/ m \in In(notice[c]) \cup In(first[c])
                            \/ Awake(m.eng)' \/ Coming(m.eng)',
         Started' => Started \/ \A e \in Engines : Awake(e)' \/ Coming(e)' \/ Called(e)'
  PROVE  Causes' /\ Excluded'
<1>1. Trigger => Trigger'
  <2>1. Started' => Trigger'
    BY DEF Trigger
  <2> QED
    BY <2>1 DEF Trigger
<1>2. \A e \in Engines : Awake(e)' => Trigger'
  BY <1>1 DEF Causes
<1>3. \A c \in Clients, e \in Engines : \A m \in In(input'[c][e]) :
        m.type = "ADD" /\ m.wave = W => Trigger'
  BY <1>1 DEF Causes
<1>4. \A c \in Clients : client'[c].wave = W /\ client'[c].running => Trigger'
  BY <1>1 DEF Causes
<1>5. \A c \in Clients : \A m \in In(news'[c]) : m.wave = W /\ m.running => Started'
  BY DEF Causes
<1>6. \A e \in Engines : \A m \in In(starts'[e]) : m.wave = W => Started'
  BY DEF Causes
<1>7. Causes'
  BY <1>2, <1>3, <1>4, <1>5, <1>6 DEF Causes, In
<1>8. \A e \in Engines : Told(e)' => Awake(e)'
  BY DEF Excluded
<1>9. \A c \in Clients : \A m \in In(notice'[c]) \cup In(first'[c]) :
        m.wave = W => Awake(m.eng)' \/ Coming(m.eng)'
  <2> TAKE c \in Clients
  <2> TAKE m \in In(notice'[c]) \cup In(first'[c])
  <2> HAVE m.wave = W
  <2>1. CASE m \in In(notice[c]) \cup In(first[c])
    <3>1. Awake(m.eng) \/ Coming(m.eng)
      BY <2>1 DEF Excluded
    <3>2. m.eng \in Engines
      OBVIOUS
    <3> QED
      BY <3>1, <3>2
  <2>2. CASE Awake(m.eng)' \/ Coming(m.eng)'
    BY <2>2
  <2> QED
    BY <2>1, <2>2
<1>10. Started' => \A e \in Engines : Awake(e)' \/ Coming(e)' \/ Called(e)'
  BY DEF Excluded
<1> QED
  BY <1>7, <1>8, <1>9, <1>10 DEF Excluded, In

\* The parts of the argument a step leaves alone with the variables they are about.
LEMMA SameWake ==
  /\ W' = W /\ UNCHANGED <<coord, notice, first, report>> =>
       /\ Started' = Started /\ Asked' = Asked /\ Trigger' = Trigger
       /\ \A e \in Engines : Told(e)' = Told(e)
  /\ W' = W /\ UNCHANGED coord => Started' = Started
  /\ engine' = engine /\ req' = req => \A e \in Engines : Awake(e)' = Awake(e)
  /\ UNCHANGED input => \A e \in Engines : Coming(e)' = Coming(e)
  /\ W' = W /\ UNCHANGED starts => \A e \in Engines : Called(e)' = Called(e)
  /\ W' = W /\ UNCHANGED report => \A e \in Engines : Told(e)' = Told(e)
  /\ engine' = engine => W' = W
<1>1. W' = W /\ UNCHANGED coord => Started' = Started
  BY DEF Started
<1>2. W' = W /\ UNCHANGED <<coord, notice, first>> => Asked' = Asked
  BY DEF Asked
<1>3. W' = W /\ UNCHANGED report => \A e \in Engines : Told(e)' = Told(e)
  BY DEF Told, In
<1>4. W' = W /\ UNCHANGED <<coord, notice, first, report>> => Trigger' = Trigger
  BY <1>1, <1>2, <1>3, SMT DEF Trigger
<1>5. engine' = engine /\ req' = req => \A e \in Engines : Awake(e)' = Awake(e)
  BY DEF Awake, Unfinished
<1>6. UNCHANGED input => \A e \in Engines : Coming(e)' = Coming(e)
  BY DEF Coming, In
<1>7. W' = W /\ UNCHANGED starts => \A e \in Engines : Called(e)' = Called(e)
  BY DEF Called, In
<1>8. engine' = engine => W' = W
  BY DEF W
<1> QED
  BY <1>1, <1>2, <1>3, <1>4, <1>5, <1>6, <1>7, <1>8

\* A wave that no later one is known of is the coordinator's.
LEMMA Between ==
  ASSUME NEW v, NEW w, NEW x, v \in 0..w, w \in Nat, w <= x, x \in Nat
  PROVE  v = x => w = x
  BY SMT

\* A step of a client, unless it is one of the two cases, keeps the causes.
LEMMA ClientsWake ==
  ASSUME IInv, Delivery, Causes, Excluded, ~excuse',
         \/ \E r \in Requests : AbortRequest(r) \/ \E e \in Engines : AddRequest(r, e)
         \/ \E c \in Clients : ClientStep(c)
  PROVE  Causes' /\ Excluded'
<1>0. /\ W \in Nat /\ coord.wave \in Nat /\ coord.wave <= W
      /\ \A c \in Clients : client[c].wave \in 0..coord.wave /\ client[c] \in State(coord.wave)
      /\ \A c \in Clients, e \in Engines : input[c][e] \in Seq(Message(coord.wave))
  BY QueueTypes
<1>a. /\ input \in [Clients -> [Engines -> Seq(Message(coord.wave))]]
      /\ notice \in [Clients -> Seq(Note)] /\ first \in [Clients -> Seq(Note)]
      /\ news \in [Clients -> Seq(State(coord.wave))]
      /\ req \in [Requests -> ReqState]
  BY DEF IInv, Delivery
<1>b. \A c \in Clients : \A m \in In(notice[c]) \cup In(first[c]) : m.eng \in Engines
  BY DEF Delivery
<1>c. \A c \in Clients : client[c].wave = W => coord.wave = W
  <2> TAKE c \in Clients
  <2>1. client[c].wave \in 0..coord.wave /\ coord.wave \in Nat /\ coord.wave <= W /\ W \in Nat
    BY <1>0
  <2> QED
    BY <2>1, Between
<1>1. ASSUME NEW r \in Requests, NEW e \in Engines, AddRequest(r, e) PROVE Causes' /\ Excluded'
  <2> DEFINE c == Owner[r]
             m == [type |-> "ADD", req |-> r, wave |-> client[c].wave]
             n == [eng |-> e, wave |-> client[c].wave]
  <2>1. /\ c \in Clients /\ req[r].state = "new"
        /\ req' = [req EXCEPT ![r] = [state |-> "sent", eng |-> e, left |-> Needs[r]]]
        /\ input' = [input EXCEPT ![c][e] = Append(@, m)]
        /\ notice' = IF client[c].running THEN notice ELSE [notice EXCEPT ![c] = Append(@, n)]
        /\ UNCHANGED <<client, coord, engine, news, first, report, starts>>
    BY <1>1, OwnerAssumption DEF AddRequest
  <2>2. m \in Message(coord.wave) /\ n \in Note /\ m.type = "ADD" /\ m.wave = client[c].wave /\ n.eng = e
    BY <1>0, <2>1, EnginesAssumption, SMT DEF Message, Note
  <2> HIDE DEF m, n, c
  <2>3. /\ W' = W /\ Started' = Started /\ \A f \in Engines : Told(f)' = Told(f) /\ Called(f)' = Called(f)
    BY <2>1, SameWake
  <2>4. \A x \in Requests : req'[x].state = "in" => req'[x] = req[x]
    <3>1. \A x \in Requests : x # r => req'[x] = req[x]
      BY <1>a, <2>1
    <3>2. req'[r].state = "sent"
      BY <1>a, <2>1
    <3> QED
      BY <3>1, <3>2
  <2>5. \A f \in Engines : Awake(f)' = Awake(f)
    <3>1. \A x \in Requests : req[x].state = "in" => req'[x] = req[x]
      BY <1>a, <2>1
    <3> TAKE f \in Engines
    <3>2. Unfinished(f)' = Unfinished(f)
      BY <2>4, <3>1 DEF Unfinished
    <3> QED
      BY <2>1, <3>2 DEF Awake
  <2>6. \A d \in Clients, f \in Engines :
          In(input'[d][f]) = In(input[d][f]) \cup (IF d = c /\ f = e THEN {m} ELSE {})
    <3> TAKE d \in Clients, f \in Engines
    <3>1. input'[d][f] = IF d = c /\ f = e THEN Append(input[d][f], m) ELSE input[d][f]
      BY <1>a, <2>1
    <3>2. In(Append(input[d][f], m)) = In(input[d][f]) \cup {m}
      <4>1. input[d][f] \in Seq(Message(coord.wave)) /\ m \in Message(coord.wave)
        BY <1>0, <2>2
      <4> QED
        BY <4>1, InAppendAny
    <3> QED
      BY <3>1, <3>2
  <2>7. \A f \in Engines : Coming(f) => Coming(f)'
    <3>1. \A f \in Engines : Coming(f)' <=> \E d \in Clients : \E x \in In(input'[d][f]) : x.type = "ADD"
      BY DEF Coming, In
    <3> QED
      BY <2>6, <3>1, SMT DEF Coming
  <2>8. Coming(e)'
    <3>1. m \in In(input'[c][e])
      BY <2>1, <2>6
    <3>2. Coming(e)' <=> \E d \in Clients : \E x \in In(input'[d][e]) : x.type = "ADD"
      BY DEF Coming, In
    <3> QED
      BY <2>1, <2>2, <3>1, <3>2
  <2>9. /\ \A d \in Clients : notice[d] # <<>> => notice'[d] # <<>>
        /\ ~client[c].running => notice'[c] # <<>>
        /\ \A d \in Clients : In(notice'[d]) \subseteq In(notice[d]) \cup {n}
    <3>1. CASE client[c].running
      BY <2>1, <3>1
    <3>2. CASE ~client[c].running
      <4>1. notice' = [notice EXCEPT ![c] = Append(@, n)]
        BY <2>1, <3>2
      <4>2. \A y \in Clients : /\ In(notice'[y]) = In(notice[y]) \cup (IF y = c THEN {n} ELSE {})
                               /\ notice[y] # <<>> \/ y = c => notice'[y] # <<>>
        <5>1. \A y \in Clients : notice'[y] = IF y = c THEN Append(notice[c], n) ELSE notice[y]
          BY <1>a, <2>1, <4>1
        <5>2. In(Append(notice[c], n)) = In(notice[c]) \cup {n} /\ Append(notice[c], n) # <<>>
          <6>1. notice[c] \in Seq(Note) /\ n \in Note
            BY <1>a, <2>1, <2>2
          <6> QED
            BY <6>1, InAppend, SMT
        <5> QED
          BY <5>1, <5>2
      <4> QED
        BY <2>1, <4>2
    <3> QED
      BY <3>1, <3>2
  <2>10. Asked => Asked'
    BY <2>1, <2>3, <2>9 DEF Asked
  <2>11. Trigger => Trigger'
    BY <2>3, <2>10 DEF Trigger
  <2>12. m.wave = W => Trigger'
    <3> HAVE m.wave = W
    <3>1. coord.wave = W
      BY <1>c, <2>1, <2>2
    <3>2. CASE client[c].running
      BY <2>1, <2>2, <2>11, <3>2 DEF Causes
    <3>3. CASE ~client[c].running
      <4>1. Asked'
        BY <2>1, <2>3, <2>9, <3>1, <3>3 DEF Asked
      <4> QED
        BY <4>1 DEF Trigger
    <3> QED
      BY <3>2, <3>3
  <2>13. \A d \in Clients, f \in Engines : \A x \in In(input'[d][f]) :
           x.type = "ADD" /\ x.wave = W => x \in In(input[d][f]) \/ Trigger'
    <3> TAKE d \in Clients, f \in Engines
    <3>1. In(input'[d][f]) \subseteq In(input[d][f]) \cup {m}
      BY <2>6
    <3> QED
      BY <2>12, <3>1
  <2>14. \A d \in Clients : \A x \in In(notice'[d]) \cup In(first'[d]) :
           /\ x.eng \in Engines
           /\ x.wave = W => \/ x \in In(notice[d]) \cup In(first[d])
                            \/ Awake(x.eng)' \/ Coming(x.eng)'
    <3> TAKE d \in Clients
    <3> TAKE x \in In(notice'[d]) \cup In(first'[d])
    <3>1. CASE x \in In(notice[d]) \cup In(first[d])
      BY <1>b, <3>1
    <3>2. CASE x = n
      <4>1. x.eng = e
        BY <2>2, <3>2
      <4> QED
        BY <2>8, <4>1
    <3>3. first' = first
      BY <2>1
    <3> QED
      BY <2>9, <3>1, <3>2, <3>3
  <2>15. /\ \A f \in Engines : Told(f) => Trigger'
         /\ Asked => Trigger'
    BY <2>11 DEF Trigger
  <2>16. client' = client /\ news' = news /\ starts' = starts
    BY <2>1
  <2> QED
    BY <2>3, <2>5, <2>7, <2>13, <2>14, <2>15, <2>16, WithinWave
<1>2. ASSUME NEW r \in Requests, AbortRequest(r) PROVE Causes' /\ Excluded'
  <2> DEFINE c == Owner[r]
             m == [type |-> "ABORT", req |-> r, wave |-> 0]
  <2>1. /\ input' = [input EXCEPT ![c][req[r].eng] = Append(@, m)]
        /\ UNCHANGED <<client, coord, engine, req, notice, news, first, report, starts>>
    BY <1>2 DEF AbortRequest
  <2>2. m \in Message(coord.wave) /\ m.type # "ADD"
    BY <1>0, SMT DEF Message
  <2> HIDE DEF m, c
  <2>3. /\ W' = W /\ Started' = Started /\ Trigger' = Trigger
        /\ \A f \in Engines : Told(f)' = Told(f) /\ Called(f)' = Called(f) /\ Awake(f)' = Awake(f)
    BY <2>1, SameWake
  <2>4. \A d \in Clients, f \in Engines :
          /\ In(input[d][f]) \subseteq In(input'[d][f])
          /\ In(input'[d][f]) \subseteq In(input[d][f]) \cup {m}
    <3> TAKE d \in Clients, f \in Engines
    <3>1. input'[d][f] = input[d][f] \/ input'[d][f] = Append(input[d][f], m)
      BY <1>a, <2>1
    <3>2. In(Append(input[d][f], m)) = In(input[d][f]) \cup {m}
      <4>1. input[d][f] \in Seq(Message(coord.wave)) /\ m \in Message(coord.wave)
        BY <1>0, <2>2
      <4> QED
        BY <4>1, InAppendAny
    <3> QED
      BY <3>1, <3>2
  <2>5. \A f \in Engines : Coming(f) => Coming(f)'
    <3>1. \A f \in Engines : Coming(f)' <=> \E d \in Clients : \E x \in In(input'[d][f]) : x.type = "ADD"
      BY DEF Coming, In
    <3> QED
      BY <2>4, <3>1 DEF Coming
  <2>6. \A d \in Clients, f \in Engines : \A x \in In(input'[d][f]) :
           x.type = "ADD" /\ x.wave = W => x \in In(input[d][f])
    BY <2>2, <2>4
  <2>7. client' = client /\ news' = news /\ starts' = starts /\ notice' = notice /\ first' = first
    BY <2>1
  <2>8. (Asked => Trigger') /\ \A f \in Engines : Told(f) => Trigger'
    BY <2>3 DEF Trigger
  <2> QED
    BY <1>b, <2>3, <2>5, <2>6, <2>7, <2>8, WithinWave
<1>3. ASSUME NEW c \in Clients, Notify(c) PROVE Causes' /\ Excluded'
  <2> DEFINE h == Head(notice[c])
             n == [eng |-> h.eng, wave |-> client[c].wave]
  <2>1. /\ notice[c] # <<>> /\ first' = [first EXCEPT ![c] = Append(@, n)]
        /\ notice' = [notice EXCEPT ![c] = Tail(@)]
        /\ client' = [client EXCEPT ![c].running = TRUE]
        /\ UNCHANGED <<coord, engine, req, news, report, starts, input>>
        /\ client[c].wave = h.wave
    BY <1>3 DEF Notify
  <2>2. /\ \A y \in Clients : In(notice'[y]) \subseteq In(notice[y])
        /\ \A y \in Clients \ {c} : notice'[y] = notice[y]
        /\ h \in In(notice[c]) /\ h \in Note
    <3>1. \A y \in Clients : notice'[y] = IF y = c THEN Tail(notice[c]) ELSE notice[y]
      BY <1>a, <2>1
    <3>2. In(notice[c]) = In(Tail(notice[c])) \cup {Head(notice[c])} /\ Head(notice[c]) \in Note
      BY <1>a, <2>1, InTail
    <3> QED
      BY <3>1, <3>2
  <2>3. n \in Note /\ n.eng = h.eng /\ n.wave = h.wave /\ h.eng \in Engines
    BY <1>0, <1>b, <2>1, <2>2 DEF Note
  <2> HIDE DEF n, h
  <2>4. \A y \in Clients : /\ In(first'[y]) = In(first[y]) \cup (IF y = c THEN {n} ELSE {})
                           /\ first[y] # <<>> \/ y = c => first'[y] # <<>>
    <3>1. \A y \in Clients : first'[y] = IF y = c THEN Append(first[c], n) ELSE first[y]
      BY <1>a, <2>1
    <3>2. In(Append(first[c], n)) = In(first[c]) \cup {n} /\ Append(first[c], n) # <<>>
      <4>1. first[c] \in Seq(Note) /\ n \in Note
        BY <1>a, <2>3
      <4> QED
        BY <4>1, InAppend, SMT
    <3> QED
      BY <3>1, <3>2
  <2>5. /\ W' = W /\ Started' = Started
        /\ \A f \in Engines : /\ Told(f)' = Told(f) /\ Called(f)' = Called(f)
                              /\ Awake(f)' = Awake(f) /\ Coming(f)' = Coming(f)
    BY <2>1, SameWake
  <2>6. coord.wave = W => Asked'
    <3>1. c \in Clients /\ first'[c] # <<>>
      BY <2>4
    <3> QED
      BY <2>1, <2>5, <3>1 DEF Asked
  <2>7. (Asked => Trigger') /\ \A f \in Engines : Told(f) => Trigger'
    <3>1. Asked => Asked'
      BY <2>6 DEF Asked
    <3> QED
      BY <2>5, <3>1 DEF Trigger
  <2>8. \A d \in Clients : client'[d].wave = W /\ client'[d].running =>
           (client[d].wave = W /\ client[d].running) \/ Trigger'
    <3> TAKE d \in Clients
    <3>1. CASE d = c
      <4>1. client'[c].wave = client[c].wave
        BY <1>0, <2>1 DEF State, IInv
      <4>2. client[c].wave = W => Trigger'
        BY <1>c, <2>6 DEF Trigger
      <4> QED
        BY <3>1, <4>1, <4>2
    <3>2. CASE d # c
      BY <2>1, <3>2 DEF IInv
    <3> QED
      BY <3>1, <3>2
  <2>9. \A d \in Clients : \A x \in In(notice'[d]) \cup In(first'[d]) :
           /\ x.eng \in Engines
           /\ x.wave = W => \/ x \in In(notice[d]) \cup In(first[d])
                            \/ Awake(x.eng)' \/ Coming(x.eng)'
    <3> TAKE d \in Clients
    <3> TAKE x \in In(notice'[d]) \cup In(first'[d])
    <3>1. CASE x \in In(notice[d]) \cup In(first[d])
      BY <1>b, <3>1
    <3>2. CASE x = n
      <4>1. x.eng = h.eng /\ x.wave = h.wave /\ x.eng \in Engines
        BY <2>3, <3>2
      <4>2. h.wave = W => Awake(h.eng) \/ Coming(h.eng)
        BY <2>2 DEF Excluded
      <4> QED
        BY <2>5, <4>1, <4>2
    <3> QED
      BY <2>2, <2>4, <3>1, <3>2
  <2>10. input' = input /\ news' = news /\ starts' = starts
    BY <2>1
  <2> QED
    BY <2>5, <2>7, <2>8, <2>9, <2>10, WithinWave
<1>4. ASSUME NEW c \in Clients, TakeNews(c) PROVE Causes' /\ Excluded'
  <2>1. /\ news[c] # <<>> /\ client' = [client EXCEPT ![c] = Head(news[c])]
        /\ news' = [news EXCEPT ![c] = Tail(@)]
        /\ UNCHANGED <<coord, engine, req, notice, first, report, starts, input>>
    BY <1>4 DEF TakeNews
  <2>2. /\ \A y \in Clients : In(news'[y]) \subseteq In(news[y])
        /\ Head(news[c]) \in In(news[c])
    <3>1. \A y \in Clients : news'[y] = IF y = c THEN Tail(news[c]) ELSE news[y]
      BY <1>a, <2>1
    <3>2. In(news[c]) = In(Tail(news[c])) \cup {Head(news[c])} /\ Head(news[c]) \in State(coord.wave)
      BY <1>a, <2>1, InTail
    <3> QED
      BY <3>1, <3>2
  <2>3. /\ W' = W /\ Started' = Started /\ Trigger' = Trigger
        /\ \A f \in Engines : /\ Told(f)' = Told(f) /\ Called(f)' = Called(f)
                              /\ Awake(f)' = Awake(f) /\ Coming(f)' = Coming(f)
    BY <2>1, SameWake
  <2>4. \A d \in Clients : client'[d].wave = W /\ client'[d].running =>
           (client[d].wave = W /\ client[d].running) \/ Trigger'
    <3> TAKE d \in Clients
    <3>1. CASE d = c
      <4>1. client'[c] = Head(news[c])
        BY <2>1 DEF IInv
      <4>2. client'[c].wave = W /\ client'[c].running => Started
        BY <2>2, <4>1 DEF Causes
      <4> QED
        BY <2>3, <3>1, <4>2 DEF Trigger
    <3>2. CASE d # c
      BY <2>1, <3>2 DEF IInv
    <3> QED
      BY <3>1, <3>2
  <2>5. input' = input /\ starts' = starts /\ notice' = notice /\ first' = first
    BY <2>1
  <2>6. (Asked => Trigger') /\ \A f \in Engines : Told(f) => Trigger'
    BY <2>3 DEF Trigger
  <2> QED
    BY <1>b, <2>2, <2>3, <2>4, <2>5, <2>6, WithinWave
<1> QED
  BY <1>1, <1>2, <1>3, <1>4 DEF ClientStep

\* A step of the coordinator keeps the causes: it starts the wave on a note or a report
\* of the wave, and whom it excludes is awake or has a request coming.
LEMMA CoordinatorWakes ==
  ASSUME IInv, Delivery, Causes, Excluded, CoordStep \/ OnTimeout
  PROVE  Causes' /\ Excluded'
<1>0. /\ W \in Nat /\ coord.wave \in Nat /\ coord.wave <= W /\ coord.running \in BOOLEAN
      /\ \A c \in Clients : first[c] \in Seq(Note) /\ news[c] \in Seq(State(coord.wave))
      /\ \A e \in Engines : report[e] \in Seq(Report(W)) /\ starts[e] \in Seq(Start(coord.wave))
      /\ 0 \in Engines /\ None \notin Engines
      /\ first \in [Clients -> Seq(Note)] /\ report \in [Engines -> Seq(Report(W))]
  BY QueueTypes DEF IInv, W
<1>b. \A c \in Clients : \A m \in In(notice[c]) \cup In(first[c]) :
        m.eng \in Engines /\ m.wave \in Int /\ m.wave <= coord.wave
  BY DEF Delivery
<1>c. UNCHANGED <<engine, req, input, client, notice>>
  BY DEF CoordStep, OnTimeout, OnFirstRequest, OnWaveComplete, OnStartWave
<1>d. /\ W' = W
      /\ \A e \in Engines : Awake(e)' = Awake(e) /\ Coming(e)' = Coming(e)
  BY <1>c, SameWake
<1>e. ASSUME Publish PROVE \A c \in Clients : In(news'[c]) = In(news[c]) \cup {coord'}
  BY <1>0, <1>e, InAppendAny DEF Publish
<1>f. ASSUME NEW w, NEW x, _send_start_wave(w, x)
      PROVE  \A e \in Engines : In(starts'[e]) = In(starts[e]) \cup {[wave |-> w, exclude |-> x]}
  BY <1>0, <1>f, InAppendAny DEF _send_start_wave
\* What the start of a wave does to those it calls.
<1>g. ASSUME NEW w, NEW x, _send_start_wave(w, x), NEW e \in Engines
      PROVE  (Called(e) => Called(e)') /\ (w = W /\ x # e => Called(e)')
  <2> DEFINE s == [wave |-> w, exclude |-> x]
  <2>1. In(starts'[e]) = In(starts[e]) \cup {s} /\ s.wave = w /\ s.exclude = x
    BY <1>f, <1>g
  <2> HIDE DEF s
  <2>2. Called(e)' <=> \E m \in In(starts'[e]) : m.wave = W /\ m.exclude # e
    BY <1>d DEF Called, In
  <2> QED
    BY <2>1, <2>2 DEF Called
<1>1. ASSUME NEW c \in Clients, OnFirstRequest(c) PROVE Causes' /\ Excluded'
  <2> DEFINE m == Head(first[c])
             x == IF m.wave < coord.wave THEN None ELSE m.eng
  <2>1. /\ first[c] # <<>> /\ first' = [first EXCEPT ![c] = Tail(@)] /\ report' = report
        /\ IF coord.running THEN UNCHANGED <<coord, starts, news>>
           ELSE /\ coord' = [coord EXCEPT !.running = TRUE]
                /\ _send_start_wave(coord.wave, x) /\ Publish
    BY <1>1 DEF OnFirstRequest
  <2>2. m \in In(first[c]) /\ \A d \in Clients : In(first'[d]) \subseteq In(first[d])
    <3>1. \A y \in Clients : first'[y] = IF y = c THEN Tail(first[c]) ELSE first[y]
      BY <1>0, <2>1
    <3>2. In(first[c]) = In(Tail(first[c])) \cup {m}
      BY <1>0, <2>1, InTail
    <3> QED
      BY <3>1, <3>2
  <2>3. \A e \in Engines : Told(e)' = Told(e)
    BY <1>d, <2>1, SameWake
  <2>4. \A d \in Clients : \A n \in In(notice'[d]) \cup In(first'[d]) :
          n.eng \in Engines /\ n \in In(notice[d]) \cup In(first[d])
    BY <1>b, <1>c, <2>2
  <2>5. \A e \in Engines : Told(e) => Trigger'
    BY <2>3 DEF Trigger
  <2>6. CASE coord.running
    <3>1. UNCHANGED <<coord, starts, news>>
      BY <2>1, <2>6
    <3>2. Started' = Started /\ \A e \in Engines : Called(e)' = Called(e)
      BY <1>d, <3>1, SameWake
    <3>3. Asked => Trigger'
      BY <2>6, <3>2 DEF Asked, Started, Trigger
    <3> QED
      BY <1>c, <1>d, <2>3, <2>4, <2>5, <3>1, <3>2, <3>3, WithinWave
  <2>7. CASE ~coord.running
    <3>1. coord' = [coord EXCEPT !.running = TRUE] /\ _send_start_wave(coord.wave, x) /\ Publish
      BY <2>1, <2>7
    <3>2. coord'.wave = coord.wave /\ coord'.running
      BY <3>1 DEF IInv, State
    <3> HIDE DEF x
    <3>3. ~Started /\ (coord.wave = W => Started') /\ (Started' => coord.wave = W)
      BY <1>d, <2>7, <3>2 DEF Started
    <3>4. Asked => Trigger'
      BY <3>3 DEF Asked, Trigger
    <3>5. \A d \in Clients : \A n \in In(news'[d]) : n.wave = W /\ n.running => n \in In(news[d]) \/ Started'
      BY <1>e, <3>1, <3>2, <3>3
    <3>6. \A e \in Engines : \A n \in In(starts'[e]) : n.wave = W => n \in In(starts[e]) \/ Started'
      <4>1. \A e \in Engines : In(starts'[e]) = In(starts[e]) \cup {[wave |-> coord.wave, exclude |-> x]}
        BY <1>f, <3>1
      <4> TAKE e \in Engines
      <4> TAKE n \in In(starts'[e])
      <4>2. CASE n = [wave |-> coord.wave, exclude |-> x]
        <5>1. n.wave = coord.wave
          BY <4>2
        <5> QED
          BY <3>3, <5>1
      <4> QED
        BY <4>1, <4>2
    <3>7. \A e \in Engines : Called(e) => Called(e)'
      BY <1>g, <3>1
    <3>8. Started' => \A e \in Engines : Awake(e)' \/ Coming(e)' \/ Called(e)'
      <4> HAVE Started'
      <4>1. coord.wave = W
        BY <3>3
      <4> TAKE e \in Engines
      <4>2. CASE x # e
        BY <1>g, <3>1, <4>1, <4>2
      <4>3. CASE x = e
        <5>1. ~(m.wave < coord.wave) /\ m.eng = e
          BY <1>0, <4>3 DEF x
        <5>2. m.wave = W
          BY <1>0, <1>b, <2>2, <4>1, <5>1, SMT
        <5>3. Awake(m.eng) \/ Coming(m.eng)
          BY <2>2, <5>2 DEF Excluded
        <5> QED
          BY <1>d, <5>1, <5>3
      <4> QED
        BY <4>2, <4>3
    <3> QED
      BY <1>c, <1>d, <2>3, <2>4, <2>5, <3>3, <3>4, <3>5, <3>6, <3>7, <3>8, WithinWave
  <2> QED
    BY <1>0, <2>6, <2>7
\* A message taken from an engine's reports.
<1>h. ASSUME NEW e \in Engines, report[e] # <<>>, report' = [report EXCEPT ![e] = Tail(@)]
      PROVE  /\ Head(report[e]) \in Report(W)
             /\ \A f \in Engines : Told(f)' => Told(f)
             /\ \A f \in Engines : Told(f) => \/ Told(f)'
                                              \/ /\ f = e /\ Head(report[e]).type = "start_wave"
                                                 /\ Head(report[e]).wave = W
             /\ Head(report[e]).type = "start_wave" /\ Head(report[e]).wave = W => Told(e)
  <2>1. /\ In(report[e]) = In(Tail(report[e])) \cup {Head(report[e])}
        /\ Head(report[e]) \in Report(W)
    BY <1>0, <1>h, InTail
  <2>2. \A f \in Engines : report'[f] = IF f = e THEN Tail(report[e]) ELSE report[f]
    BY <1>0, <1>h
  <2>3. \A f \in Engines : Told(f)' <=> \E m \in In(report'[f]) : m.type = "start_wave" /\ m.wave = W
    BY <1>d DEF Told, In
  <2> QED
    BY <2>1, <2>2, <2>3 DEF Told
<1>2. ASSUME OnWaveComplete PROVE Causes' /\ Excluded'
  <2> DEFINE m == Head(report[0])
  <2>1. /\ report[0] # <<>> /\ m.type = "wave_complete" /\ report' = [report EXCEPT ![0] = Tail(@)]
        /\ first' = first /\ starts' = starts
        /\ IF coord.wave <= m.wave THEN coord' = [wave |-> m.wave + 1, running |-> FALSE] /\ Publish
           ELSE UNCHANGED <<coord, news>>
    BY <1>2 DEF OnWaveComplete
  <2>2. /\ m \in Report(W) /\ \A f \in Engines : Told(f)' => Told(f)
        /\ \A f \in Engines : Told(f) => Told(f)'
    BY <1>0, <1>h, <2>1
  <2>3. m.wave \in Nat /\ m.wave < W
    BY <1>0, <2>1, <2>2, SMT DEF Report
  <2> HIDE DEF m
  <2>4. \A e \in Engines : Told(e) => Trigger'
    BY <2>2 DEF Trigger
  <2>5. \A e \in Engines : Called(e)' = Called(e)
    BY <1>d, <2>1, SameWake
  <2>6. CASE coord.wave <= m.wave
    <3>1. ~Started /\ ~Asked
      BY <1>0, <2>3, <2>6, SMT DEF Started, Asked
    <3>2. coord' = [wave |-> m.wave + 1, running |-> FALSE] /\ Publish
      BY <2>1, <2>6
    <3>3. ~coord'.running
      BY <3>2
    <3>4. ~Started'
      BY <3>3 DEF Started
    <3>5. \A d \in Clients : \A n \in In(news'[d]) : n.wave = W /\ n.running => n \in In(news[d])
      BY <1>e, <3>2, <3>3, SMT
    <3> QED
      BY <1>b, <1>c, <1>d, <2>1, <2>2, <2>4, <2>5, <3>1, <3>4, <3>5, WithinWave
  <2>7. CASE ~(coord.wave <= m.wave)
    <3>1. UNCHANGED <<coord, news>>
      BY <2>1, <2>7
    <3>2. Started' = Started
      BY <1>d, <3>1, SameWake
    <3>3. Asked => Trigger'
      BY <1>c, <1>d, <2>1, <3>1 DEF Asked, Trigger
    <3> QED
      BY <1>b, <1>c, <1>d, <2>1, <2>2, <2>4, <2>5, <3>1, <3>2, <3>3, WithinWave
  <2> QED
    BY <2>6, <2>7
<1>3. ASSUME NEW e \in Engines, OnStartWave(e) PROVE Causes' /\ Excluded'
  <2> DEFINE m == Head(report[e])
  <2>1. /\ report[e] # <<>> /\ m.type = "start_wave" /\ report' = [report EXCEPT ![e] = Tail(@)]
        /\ first' = first
        /\ IF m.wave > coord.wave \/ (m.wave = coord.wave /\ ~coord.running)
           THEN coord' = [wave |-> m.wave, running |-> TRUE] /\ _send_start_wave(m.wave, e) /\ Publish
           ELSE UNCHANGED <<coord, starts, news>>
    BY <1>3 DEF OnStartWave
  <2>2. /\ m \in Report(W) /\ \A f \in Engines : Told(f)' => Told(f)
        /\ \A f \in Engines : Told(f) => Told(f)' \/ m.wave = W
        /\ m.wave = W => Told(e)
    BY <1>h, <2>1
  <2>3. m.wave \in Nat /\ m.wave <= W
    BY <1>0, <2>1, <2>2, SMT DEF Report
  <2> HIDE DEF m
  <2>4. CASE m.wave > coord.wave \/ (m.wave = coord.wave /\ ~coord.running)
    <3>1. coord' = [wave |-> m.wave, running |-> TRUE] /\ _send_start_wave(m.wave, e) /\ Publish
      BY <2>1, <2>4
    <3>2. coord'.wave = m.wave /\ coord'.running
      BY <3>1
    <3>3. Started' <=> m.wave = W
      BY <1>d, <3>2 DEF Started
    <3>4. ~Started
      BY <1>0, <2>3, <2>4, SMT DEF Started
    <3>5. Asked => Trigger'
      BY <1>0, <2>3, <2>4, <3>3, SMT DEF Asked, Trigger
    <3>6. \A f \in Engines : Told(f) => Trigger'
      BY <2>2, <3>3 DEF Trigger
    <3>7. \A d \in Clients : \A n \in In(news'[d]) : n.wave = W /\ n.running => n \in In(news[d]) \/ Started'
      BY <1>e, <3>1, <3>2, <3>3
    <3>8. \A f \in Engines : \A n \in In(starts'[f]) : n.wave = W => n \in In(starts[f]) \/ Started'
      <4>1. \A f \in Engines : In(starts'[f]) = In(starts[f]) \cup {[wave |-> m.wave, exclude |-> e]}
        BY <1>f, <3>1
      <4> QED
        BY <3>3, <4>1, SMT
    <3>9. \A f \in Engines : Called(f) => Called(f)'
      BY <1>g, <3>1
    <3>10. Started' => \A f \in Engines : Awake(f)' \/ Coming(f)' \/ Called(f)'
      <4> HAVE Started'
      <4>1. m.wave = W
        BY <3>3
      <4>2. Awake(e)'
        BY <1>d, <2>2, <4>1 DEF Excluded
      <4>3. \A f \in Engines : e # f => Called(f)'
        BY <1>g, <3>1, <4>1
      <4> QED
        BY <4>2, <4>3
    <3> QED
      BY <1>b, <1>c, <1>d, <2>1, <2>2, <3>4, <3>5, <3>6, <3>7, <3>8, <3>9, <3>10, WithinWave
  <2>5. CASE ~(m.wave > coord.wave \/ (m.wave = coord.wave /\ ~coord.running))
    <3>1. UNCHANGED <<coord, starts, news>>
      BY <2>1, <2>5
    <3>2. Started' = Started /\ \A f \in Engines : Called(f)' = Called(f)
      BY <1>d, <3>1, SameWake
    <3>3. m.wave = W => Started
      BY <1>0, <2>3, <2>5, SMT DEF Started
    <3>4. Asked => Trigger'
      BY <1>c, <1>d, <2>1, <3>1 DEF Asked, Trigger
    <3>5. \A f \in Engines : Told(f) => Trigger'
      BY <2>2, <3>2, <3>3 DEF Trigger
    <3> QED
      BY <1>b, <1>c, <1>d, <2>1, <2>2, <3>1, <3>2, <3>4, <3>5, WithinWave
  <2> QED
    BY <2>4, <2>5
<1>4. ASSUME OnTimeout PROVE Causes' /\ Excluded'
  <2>1. UNCHANGED <<coord, first, report, starts>> /\ Publish
    BY <1>4 DEF OnTimeout
  <2>2. /\ Started' = Started /\ Trigger' = Trigger
        /\ \A f \in Engines : Called(f)' = Called(f) /\ Told(f)' = Told(f)
    BY <1>c, <1>d, <2>1, SameWake
  <2>3. (Asked => Trigger') /\ \A f \in Engines : Told(f) => Trigger'
    BY <2>2 DEF Trigger
  <2>4. \A d \in Clients : \A n \in In(news'[d]) : n.wave = W /\ n.running => n \in In(news[d]) \/ Started'
    <3>1. coord.wave = W /\ coord.running => Started'
      BY <2>2 DEF Started
    <3> QED
      BY <1>e, <2>1, <3>1, SMT
  <2> QED
    BY <1>b, <1>c, <1>d, <2>1, <2>2, <2>3, <2>4, WithinWave
<1> QED
  BY <1>1, <1>2, <1>3, <1>4 DEF CoordStep

\* A step of an engine, unless it is the abort of one of the two cases, keeps the causes.
LEMMA EnginesWake ==
  ASSUME IInv, Delivery, Addressed, Causes, Excluded, ~excuse',
         \E e \in Engines : EngineStep(e)
  PROVE  Causes' /\ Excluded'
<1>0. /\ W \in Nat /\ coord.wave \in Nat /\ coord.wave <= W
      /\ \A e \in Engines : engine[e].wave = W /\ engine[e] \in EngineState /\ e \in Int
      /\ \A e \in Engines : report[e] \in Seq(Report(W)) /\ starts[e] \in Seq(Start(coord.wave))
      /\ \A c \in Clients, e \in Engines : input[c][e] \in Seq(Message(coord.wave))
      /\ 0 \in Engines /\ None \notin Engines
  BY QueueTypes
<1>a. /\ starts \in [Engines -> Seq(Start(coord.wave))] /\ report \in [Engines -> Seq(Report(W))]
      /\ input \in [Clients -> [Engines -> Seq(Message(coord.wave))]]
      /\ engine \in [Engines -> EngineState] /\ req \in [Requests -> ReqState]
  BY DEF IInv, Delivery, W
<1>b. \A c \in Clients : \A m \in In(notice[c]) \cup In(first[c]) : m.eng \in Engines
  BY DEF Delivery
<1>c. UNCHANGED <<client, coord, notice, news, first>>
  BY DEF EngineStep, StartWave, Add, Abort, Step, queues
\* Enough when no report is sent.
<1>d. ASSUME W' = W, report' = report
      PROVE  /\ Started' = Started /\ Trigger' = Trigger /\ \A f \in Engines : Told(f)' = Told(f)
             /\ Asked => Trigger'
             /\ \A f \in Engines : Told(f) => Trigger'
  <2>1. Started' = Started /\ Trigger' = Trigger /\ \A f \in Engines : Told(f)' = Told(f)
    BY <1>c, <1>d, SameWake
  <2> QED
    BY <2>1 DEF Trigger
\* A message taken from a client.
<1>e. ASSUME NEW e \in Engines, NEW c \in Clients, NEW type, Comes(e, c, type)
      PROVE  /\ Head(input[c][e]) \in Message(coord.wave) /\ Head(input[c][e]) \in In(input[c][e])
             /\ Head(input[c][e]).type = type
             /\ \A d \in Clients, f \in Engines : In(input'[d][f]) \subseteq In(input[d][f])
             /\ \A f \in Engines : Coming(f) => Coming(f)' \/ (f = e /\ type = "ADD")
  <2>1. /\ input[c][e] # <<>> /\ Head(input[c][e]).type = type
        /\ input' = [input EXCEPT ![c][e] = Tail(@)]
    BY <1>e DEF Comes
  <2>2. /\ In(input[c][e]) = In(Tail(input[c][e])) \cup {Head(input[c][e])}
        /\ Head(input[c][e]) \in Message(coord.wave)
    BY <1>0, <2>1, InTail
  <2>3. \A d \in Clients, f \in Engines :
          input'[d][f] = IF d = c /\ f = e THEN Tail(input[c][e]) ELSE input[d][f]
    BY <1>a, <2>1
  <2>4. \A d \in Clients, f \in Engines :
          In(input[d][f]) = In(input'[d][f]) \cup (IF d = c /\ f = e THEN {Head(input[c][e])} ELSE {})
    BY <2>2, <2>3
  <2>5. \A f \in Engines : Coming(f)' <=> \E d \in Clients : \E x \in In(input'[d][f]) : x.type = "ADD"
    BY DEF Coming, In
  <2>6. \A f \in Engines : Coming(f) => Coming(f)' \/ (f = e /\ type = "ADD")
    BY <2>1, <2>4, <2>5, SMT DEF Coming
  <2> QED
    BY <2>1, <2>2, <2>4, <2>6, SMT
<1>1. ASSUME NEW e \in Engines, StartWave(e) PROVE Causes' /\ Excluded'
  <2> DEFINE m == Head(starts[e])
  <2>1. /\ starts[e] # <<>> /\ starts' = [starts EXCEPT ![e] = Tail(@)]
        /\ engine' = IF m.exclude # e /\ m.wave >= engine[e].wave
                     THEN [engine EXCEPT ![e].wave = m.wave, ![e].running = TRUE] ELSE engine
        /\ UNCHANGED <<req, report, input>>
    BY <1>1 DEF StartWave
  <2>2. m \in Start(coord.wave) /\ In(starts[e]) = In(Tail(starts[e])) \cup {m}
    BY <1>0, <2>1, InTail
  <2>3. m.wave \in Nat /\ m.wave <= W
    BY <1>0, <2>2, SMT DEF Start
  <2> HIDE DEF m
  <2>4. \A f \in Engines : starts'[f] = IF f = e THEN Tail(starts[e]) ELSE starts[f]
    BY <1>a, <2>1
  <2>5. \A f \in Engines :
          /\ engine'[f].wave = engine[f].wave /\ engine'[f].at = engine[f].at
          /\ engine'[f].running = (engine[f].running \/ (f = e /\ m.exclude # e /\ m.wave = W))
    <3>1. CASE m.exclude # e /\ m.wave >= engine[e].wave
      <4>1. m.wave = W /\ engine[e].wave = W /\ engine[e] \in EngineState
        BY <1>0, <2>3, <3>1, SMT
      <4>2. engine' = [engine EXCEPT ![e].wave = m.wave, ![e].running = TRUE]
        BY <2>1, <3>1
      <4>3. \A f \in Engines : engine[f].running \in BOOLEAN
        BY <1>a DEF EngineState
      <4>4. \A f \in Engines \ {e} : engine'[f] = engine[f]
        BY <1>a, <4>2
      <4>5. engine'[e].wave = W /\ engine'[e].running = TRUE /\ engine'[e].at = engine[e].at
        BY <1>a, <4>1, <4>2 DEF EngineState
      <4> QED
        BY <3>1, <4>1, <4>3, <4>4, <4>5
    <3>2. CASE ~(m.exclude # e /\ m.wave >= engine[e].wave)
      <4>1. engine' = engine /\ ~(m.exclude # e /\ m.wave = W)
        BY <1>0, <2>1, <2>3, <3>2
      <4>2. \A f \in Engines : engine[f].running \in BOOLEAN
        BY <1>a DEF EngineState
      <4> QED
        BY <4>1, <4>2
    <3> QED
      BY <3>1, <3>2
  <2>6. W' = W
    BY <1>0, <2>5 DEF W
  <2>7. \A f \in Engines : Awake(f)' <=> Awake(f) \/ (f = e /\ m.exclude # e /\ m.wave = W)
    BY <2>1, <2>5 DEF Awake, Unfinished
  <2>8. m.wave = W => Trigger'
    <3>1. m.wave = W => Started
      BY <2>2 DEF Causes
    <3> QED
      BY <1>d, <2>1, <2>6, <3>1 DEF Trigger
  <2>9. \A f \in Engines : Called(f) => Awake(f)' \/ Called(f)'
    <3>1. \A f \in Engines : Called(f)' <=> \E n \in In(starts'[f]) : n.wave = W /\ n.exclude # f
      BY <2>6 DEF Called, In
    <3> QED
      BY <2>2, <2>4, <2>7, <3>1, ZenonT(30) DEF Called
  <2>10. \A f \in Engines : \A n \in In(starts'[f]) : n \in In(starts[f])
    BY <2>2, <2>4
  <2>11. \A f \in Engines : Coming(f)' = Coming(f)
    BY <2>1, SameWake
  <2>12. \A f \in Engines : (Awake(f) => Awake(f)') /\ (Awake(f)' => Awake(f) \/ Trigger')
    BY <2>7, <2>8
  <2>13. /\ Started' = Started /\ \A f \in Engines : Told(f)' = Told(f)
         /\ Asked => Trigger'
         /\ \A f \in Engines : Told(f) => Trigger'
    BY <1>d, <2>1, <2>6
  <2>14. /\ \A f \in Engines : Coming(f) => Awake(f)' \/ Coming(f)'
         /\ \A f \in Engines : Told(f)' => Told(f) \/ Awake(f)'
         /\ \A d \in Clients, f \in Engines : \A x \in In(input'[d][f]) : x \in In(input[d][f])
    BY <2>1, <2>11, <2>13
  <2>15. /\ \A d \in Clients : \A x \in In(notice'[d]) \cup In(first'[d]) :
              x.eng \in Engines /\ x \in In(notice[d]) \cup In(first[d])
         /\ client' = client /\ news' = news
    BY <1>b, <1>c
  <2> QED
    BY <2>6, <2>9, <2>10, <2>12, <2>13, <2>14, <2>15, WithinWave
<1>2. ASSUME NEW e \in Engines, NEW c \in Clients, Add(e, c) PROVE Causes' /\ Excluded'
  <2> DEFINE m == Head(input[c][e])
             late == m.wave < engine[e].wave /\ ~engine[e].running
             n == [type |-> "start_wave", wave |-> engine[e].wave]
  <2>1. /\ Comes(e, c, "ADD") /\ starts' = starts
        /\ engine' = [engine EXCEPT ![e].wave = IF m.wave > @ THEN m.wave ELSE @]
        /\ report' = IF late THEN [report EXCEPT ![e] = Append(@, n)] ELSE report
        /\ req' = [req EXCEPT ![m.req].state = "in"]
    BY <1>2 DEF Add
  <2>2. /\ m \in Message(coord.wave) /\ m \in In(input[c][e]) /\ m.type = "ADD"
        /\ \A d \in Clients, f \in Engines : In(input'[d][f]) \subseteq In(input[d][f])
        /\ \A f \in Engines : Coming(f) => Coming(f)' \/ f = e
    BY <1>e, <2>1
  <2>3. m.wave \in Nat /\ m.wave <= W /\ m.req \in Requests
    <3> HIDE DEF m
    <3>1. m.wave \in 0..coord.wave /\ m.req \in Requests
      BY <2>2 DEF Message
    <3> QED
      BY <1>0, <3>1, SMT
  <2>4. req[m.req].state = "sent" /\ req[m.req].eng = e
    <3> DEFINE q == input[c][e]
    <3> HIDE DEF m
    <3>1. PICK i \in 1..Len(q) : m = q[i]
      BY <2>2 DEF In
    <3>2. OnItsWay(q, c, e)
      BY DEF Delivery
    <3> QED
      BY <2>2, <3>1, <3>2 DEF OnItsWay
  <2>5. n \in Report(W) /\ n.type = "start_wave" /\ n.wave = W
    BY <1>0, SMT DEF Report
  <2> HIDE DEF m, n
  <2>6. engine' = engine
    <3>1. ~(m.wave > engine[e].wave) /\ engine[e] \in EngineState
      BY <1>0, <2>3, SMTT(30)
    <3> QED
      BY <1>a, <2>1, <3>1 DEF EngineState
  <2>7. W' = W
    BY <2>6 DEF W
  <2>8. /\ \A x \in Requests : x # m.req => req'[x] = req[x]
        /\ req'[m.req].state = "in" /\ req'[m.req].eng = e
    BY <1>a, <2>1, <2>3, <2>4 DEF ReqState
  <2>9. \A f \in Engines : (Awake(f) => Awake(f)') /\ (Awake(f)' => Awake(f) \/ f = e)
    <3> TAKE f \in Engines
    <3>1. /\ Unfinished(f) \subseteq Unfinished(f)'
          /\ f # e => Unfinished(f)' = Unfinished(f)
      BY <2>3, <2>4, <2>8 DEF Unfinished
    <3> QED
      BY <2>6, <3>1 DEF Awake
  <2>10. Awake(e)'
    BY <2>3, <2>8 DEF Awake, Unfinished
  <2>11. /\ \A f \in Engines : Told(f) => Told(f)'
         /\ \A f \in Engines : Told(f)' => Told(f) \/ f = e
         /\ late => Told(e)'
    <3>1. \A f \in Engines : Told(f)' <=> \E x \in In(report'[f]) : x.type = "start_wave" /\ x.wave = W
      BY <2>7 DEF Told, In
    <3>2. CASE late
      <4>1. \A f \in Engines : report'[f] = IF f = e THEN Append(report[e], n) ELSE report[f]
        BY <1>a, <2>1, <3>2
      <4>2. In(Append(report[e], n)) = In(report[e]) \cup {n}
        BY <1>0, InAppendAny
      <4> QED
        BY <2>5, <3>1, <4>1, <4>2 DEF Told
    <3>3. CASE ~late
      BY <2>1, <3>1, <3>3 DEF Told
    <3> QED
      BY <3>2, <3>3
  <2>12. Started' = Started /\ Asked' = Asked
    BY <1>c, <2>7 DEF Started, Asked
  <2>13. Trigger => Trigger'
    BY <2>11, <2>12 DEF Trigger
  <2>14. Awake(e) \/ Trigger'
    <3>1. CASE engine[e].running
      BY <3>1 DEF Awake
    <3>2. CASE ~engine[e].running /\ m.wave = W
      BY <2>2, <2>13, <3>2 DEF Causes
    <3>3. CASE ~engine[e].running /\ m.wave # W
      <4>1. late
        BY <1>0, <2>3, <3>3, SMT
      <4> QED
        BY <2>11, <4>1 DEF Trigger
    <3> QED
      BY <3>1, <3>2, <3>3
  <2>15. (Asked => Trigger') /\ \A f \in Engines : Told(f) => Trigger'
    BY <2>13 DEF Trigger
  <2>16. \A f \in Engines : Called(f)' = Called(f)
    BY <2>1, <2>7, SameWake
  <2>17. \A f \in Engines : /\ Awake(f) => Awake(f)'
                            /\ Awake(f)' => Awake(f) \/ Trigger'
                            /\ Coming(f) => Awake(f)' \/ Coming(f)'
                            /\ Told(f)' => Told(f) \/ Awake(f)'
    BY <2>2, <2>9, <2>10, <2>11, <2>14
  <2>18. \A d \in Clients, f \in Engines : \A x \in In(input'[d][f]) : x \in In(input[d][f])
    BY <2>2
  <2> QED
    BY <1>b, <1>c, <2>1, <2>7, <2>12, <2>15, <2>16, <2>17, <2>18, WithinWave
\* Enough for what changes no message but those of clients.
<1>f. ASSUME W' = W, UNCHANGED <<report, starts>>,
             \A f \in Engines : Awake(f)' = Awake(f) \/ (Awake(f) /\ Awake(f)'),
             \A d \in Clients, f \in Engines : In(input'[d][f]) \subseteq In(input[d][f]),
             \A f \in Engines : Coming(f) => Coming(f)'
      PROVE  Causes' /\ Excluded'
  <2>1. \A f \in Engines : Called(f)' = Called(f)
    BY <1>f, SameWake
  <2>2. /\ Started' = Started /\ \A f \in Engines : Told(f)' = Told(f)
        /\ Asked => Trigger'
        /\ \A f \in Engines : Told(f) => Trigger'
    BY <1>d, <1>f
  <2>3. \A f \in Engines : Awake(f) <=> Awake(f)'
    BY <1>f DEF Awake
  <2>4. \A d \in Clients, f \in Engines : \A x \in In(input'[d][f]) : x \in In(input[d][f])
    BY <1>f
  <2>5. /\ \A d \in Clients : \A x \in In(notice'[d]) \cup In(first'[d]) :
             x.eng \in Engines /\ x \in In(notice[d]) \cup In(first[d])
        /\ client' = client /\ news' = news /\ starts' = starts
    BY <1>b, <1>c, <1>f
  <2>6. \A f \in Engines : /\ Coming(f) => Awake(f)' \/ Coming(f)'
                           /\ Told(f)' => Told(f) \/ Awake(f)'
                           /\ Awake(f) => Awake(f)'
                           /\ Awake(f)' => Awake(f) \/ Trigger'
    BY <1>f, <2>2, <2>3
  <2>7. W' = W
    BY <1>f
  <2> QED
    BY <2>1, <2>2, <2>4, <2>5, <2>6, <2>7, WithinWave
<1>3. ASSUME NEW e \in Engines, NEW c \in Clients, Abort(e, c) PROVE Causes' /\ Excluded'
  <2> DEFINE m == Head(input[c][e])
  <2>1. /\ Comes(e, c, "ABORT") /\ UNCHANGED <<engine, report, starts>>
        /\ req' = IF req[m.req].state = "in" THEN [req EXCEPT ![m.req] = Ended("aborted")] ELSE req
        /\ req[m.req].state = "in" => engine[e].running
    BY <1>3 DEF Abort
  <2>2. /\ m \in Message(coord.wave) /\ m \in In(input[c][e])
        /\ \A d \in Clients, f \in Engines : In(input'[d][f]) \subseteq In(input[d][f])
        /\ \A f \in Engines : Coming(f) => Coming(f)'
    BY <1>e, <2>1
  <2>3. m.req \in Requests /\ (req[m.req].state = "in" => req[m.req].eng = e)
    BY <2>2 DEF Message, Addressed
  <2> HIDE DEF m
  <2>4. W' = W
    BY <2>1 DEF W
  <2>5. ASSUME NEW f \in Engines PROVE Awake(f)' = Awake(f) \/ (Awake(f) /\ Awake(f)')
    <3>1. CASE req[m.req].state # "in"
      <4>1. req' = req
        BY <2>1, <3>1
      <4> QED
        BY <2>1, <4>1 DEF Awake, Unfinished
    <3>2. CASE req[m.req].state = "in" /\ f = e
      BY <2>1, <3>2 DEF Awake
    <3>3. CASE req[m.req].state = "in" /\ f # e
      <4>1. req' = [req EXCEPT ![m.req] = Ended("aborted")] /\ req[m.req].eng = e
        BY <2>1, <2>3, <3>3
      <4>2. /\ \A x \in Requests : x # m.req => req'[x] = req[x]
            /\ req'[m.req].state # "in"
        BY <1>a, <2>3, <4>1 DEF Ended
      <4>3. Unfinished(f)' = Unfinished(f)
        BY <3>3, <4>1, <4>2 DEF Unfinished
      <4> QED
        BY <2>1, <4>3 DEF Awake
    <3> QED
      BY <3>1, <3>2, <3>3
  <2> QED
    BY <1>f, <2>1, <2>2, <2>4, <2>5
<1>4. ASSUME NEW e \in Engines, Step(e) PROVE Causes' /\ Excluded'
  <2> DEFINE step == (engine[e].step + 1) % SyncSteps
             there == [wave |-> engine[e].wave, step |-> step,
                       running |-> IF step = 0 THEN engine[e].running ELSE TRUE,
                       at |-> IF step = 0 THEN "reduce" ELSE "loop"]
  <2>1. /\ engine[e].running \/ Unfinished(e) # {}
        /\ req' = [r \in Requests |->
             IF r \notin Unfinished(e) THEN req[r]
             ELSE IF req[r].left = 1 THEN Ended("done")
             ELSE [req[r] EXCEPT !.left = @ - 1]]
        /\ engine' = [engine EXCEPT ![e] = there]
        /\ UNCHANGED <<report, starts, input>>
    BY <1>4 DEF Step, queues
  <2>2. there.wave = engine[e].wave /\ (there.running \/ there.at = "reduce")
    <3> HIDE DEF step
    <3>1. CASE step = 0
      BY <3>1
    <3>2. CASE step # 0
      BY <3>2
    <3> QED
      BY <3>1, <3>2
  <2> HIDE DEF there
  <2>3. W' = W
    BY <1>0, <1>a, <2>1, <2>2 DEF W
  <2>4. Awake(e) /\ Awake(e)'
    BY <1>a, <2>1, <2>2 DEF Awake
  <2>5. ASSUME NEW f \in Engines, f # e PROVE Awake(f)' = Awake(f)
    <3>1. \A r \in Requests : r \notin Unfinished(e) => req'[r] = req[r]
      BY <2>1
    <3>2. \A r \in Unfinished(e) : req[r].eng = e /\ r \in Requests
      BY DEF Unfinished
    <3>3. \A r \in Unfinished(e) : req'[r].eng # f
      <4> TAKE r \in Unfinished(e)
      <4>1. CASE req[r].left = 1
        BY <1>0, <2>1, <3>2, <4>1 DEF Ended
      <4>2. CASE req[r].left # 1
        <5>1. req'[r] = [req[r] EXCEPT !.left = @ - 1] /\ req[r] \in ReqState
          BY <1>a, <2>1, <3>2, <4>2
        <5> QED
          BY <2>5, <3>2, <5>1 DEF ReqState
      <4> QED
        BY <4>1, <4>2
    <3>4. Unfinished(f)' = Unfinished(f)
      <4>1. \A r \in Requests : r \in Unfinished(e) => req[r].eng # f /\ req'[r].eng # f
        BY <2>5, <3>2, <3>3, SMT
      <4> HIDE DEF there
      <4> QED
        BY <3>1, <4>1 DEF Unfinished
    <3>5. engine'[f] = engine[f]
      BY <1>a, <2>1, <2>5
    <3> QED
      BY <3>4, <3>5, SMT DEF Awake
  <2>6. \A f \in Engines : Awake(f)' = Awake(f) \/ (Awake(f) /\ Awake(f)')
    BY <2>4, <2>5
  <2>7. /\ \A d \in Clients, f \in Engines : In(input'[d][f]) \subseteq In(input[d][f])
        /\ \A f \in Engines : Coming(f) => Coming(f)'
    <3>1. \A f \in Engines : Coming(f)' = Coming(f)
      BY <2>1, SameWake
    <3> QED
      BY <2>1, <3>1
  <2> QED
    BY <1>f, <2>1, <2>3, <2>6, <2>7
<1> QED
  BY <1>1, <1>2, <1>3, <1>4 DEF EngineStep

\* The all-reduce keeps the causes: if a request is left all engines go on, and if none
\* is, a wave begins in which nobody is awake and of which no message speaks.
LEMMA AllReduceWakes ==
  ASSUME IInv, Delivery, Causes, Excluded, AllReduce
  PROVE  Causes' /\ Excluded'
<1>0. /\ W \in Nat /\ coord.wave \in Nat /\ coord.wave <= W
      /\ \A c \in Clients : /\ client[c].wave \in 0..coord.wave
                            /\ news[c] \in Seq(State(coord.wave))
      /\ \A e \in Engines : engine[e].wave = W /\ engine[e] \in EngineState
      /\ \A e \in Engines : report[e] \in Seq(Report(W)) /\ starts[e] \in Seq(Start(coord.wave))
      /\ \A c \in Clients, e \in Engines : input[c][e] \in Seq(Message(coord.wave))
      /\ 0 \in Engines
  BY QueueTypes
<1> DEFINE unfinished == \E e \in Engines : Unfinished(e) # {}
<1>1. /\ \A e \in Engines : engine[e].at = "reduce"
      /\ engine' = [e \in Engines |-> [engine[e] EXCEPT
           !.at = "loop", !.running = unfinished, !.wave = IF unfinished THEN @ ELSE @ + 1]]
      /\ report' = IF unfinished THEN report
                   ELSE [report EXCEPT ![0] =
                          Append(@, [type |-> "wave_complete", wave |-> engine[0].wave])]
      /\ UNCHANGED <<client, coord, req, notice, news, first, starts, input>>
  BY DEF AllReduce
<1>2. unfinished \in BOOLEAN
  OBVIOUS
<1>3. ~unfinished => \A e \in Engines : Unfinished(e) = {}
  OBVIOUS
<1> HIDE DEF unfinished
<1>4. \A e \in Engines : /\ engine'[e].running = unfinished /\ engine'[e].at = "loop"
                         /\ engine'[e].wave = IF unfinished THEN W ELSE W + 1
  BY <1>0, <1>1 DEF EngineState
<1>5. CASE unfinished
  <2>1. W' = W /\ report' = report
    BY <1>0, <1>1, <1>4, <1>5 DEF W
  <2>2. \A e \in Engines : Awake(e) /\ Awake(e)'
    BY <1>1, <1>4, <1>5 DEF Awake
  <2>3. /\ Started' = Started /\ Trigger' = Trigger
        /\ \A f \in Engines : Told(f)' = Told(f) /\ Coming(f)' = Coming(f) /\ Called(f)' = Called(f)
    BY <1>1, <2>1, SameWake
  <2>4. (Asked => Trigger') /\ \A f \in Engines : Told(f) => Trigger'
    BY <2>3 DEF Trigger
  <2>5. UNCHANGED <<client, notice, news, first, starts, input>>
    BY <1>1
  <2>6. \A c \in Clients : \A m \in In(notice'[c]) \cup In(first'[c]) :
          m.eng \in Engines /\ m \in In(notice[c]) \cup In(first[c])
    BY <2>5 DEF Delivery
  <2> QED
    BY <2>1, <2>2, <2>3, <2>4, <2>5, <2>6, WithinWave
<1>6. CASE ~unfinished
  <2>1. W' = W + 1
    BY <1>0, <1>4, <1>6 DEF W
  <2>2. \A e \in Engines : ~Awake(e)'
    <3> TAKE e \in Engines
    <3>1. Unfinished(e)' = {}
      BY <1>1, <1>3, <1>6 DEF Unfinished
    <3> QED
      BY <1>4, <1>6, <3>1 DEF Awake
  <2>3. /\ \A c \in Clients, e \in Engines : \A m \in In(input[c][e]) : m.wave # W'
        /\ \A c \in Clients : client[c].wave # W' /\ \A m \in In(news[c]) : m.wave # W'
        /\ \A e \in Engines : \A m \in In(starts[e]) : m.wave # W'
        /\ \A c \in Clients : \A m \in In(notice[c]) \cup In(first[c]) : m.wave # W'
        /\ coord.wave # W'
    <3>1. /\ \A m \in Message(coord.wave) \cup State(coord.wave) \cup Start(coord.wave) : m.wave # W'
      BY <1>0, <2>1, SMT DEF Message, State, Start
    <3>2. /\ \A c \in Clients, e \in Engines : In(input[c][e]) \subseteq Message(coord.wave)
          /\ \A c \in Clients : In(news[c]) \subseteq State(coord.wave)
          /\ \A e \in Engines : In(starts[e]) \subseteq Start(coord.wave)
      BY <1>0, InEmpty
    <3>3. \A c \in Clients : \A m \in In(notice[c]) \cup In(first[c]) : m.wave # W'
      BY <1>0, <2>1, SMT DEF Delivery
    <3>4. coord.wave # W' /\ \A c \in Clients : client[c].wave # W'
      BY <1>0, <2>1, SMT
    <3> QED
      BY <3>1, <3>2, <3>3, <3>4
  <2>4. ~Started'
    BY <1>1, <2>3 DEF Started
  <2>5. ASSUME NEW e \in Engines PROVE ~Told(e)'
    <3> DEFINE n == [type |-> "wave_complete", wave |-> engine[0].wave]
    <3>1. report'[e] = report[e] \/ report'[e] = Append(report[e], n)
      BY <1>1, <1>6 DEF IInv
    <3>2. n.type # "start_wave"
      OBVIOUS
    <3> HIDE DEF n
    <3>3. In(Append(report[e], n)) = In(report[e]) \cup {n}
      BY <1>0, InAppendAny
    <3>4. In(report[e]) \subseteq Report(W)
      BY <1>0, InEmpty
    <3>5. \A m \in Report(W) : m.wave # W'
      BY <1>0, <2>1, SMT DEF Report
    <3>6. \A m \in In(report'[e]) : ~(m.type = "start_wave" /\ m.wave = W')
      BY <3>1, <3>2, <3>3, <3>4, <3>5
    <3> QED
      BY <3>6 DEF Told, In
  <2>6. /\ \A c \in Clients, e \in Engines : \A m \in In(input'[c][e]) : m.wave # W'
        /\ \A c \in Clients : client'[c].wave # W' /\ \A m \in In(news'[c]) : m.wave # W'
        /\ \A e \in Engines : \A m \in In(starts'[e]) : m.wave # W'
        /\ \A c \in Clients : \A m \in In(notice'[c]) \cup In(first'[c]) : m.wave # W'
    BY <1>1, <2>3
  <2>7. Causes'
    BY <2>2, <2>6 DEF Causes, In
  <2>8. Excluded'
    BY <2>4, <2>5, <2>6 DEF Excluded, In
  <2> QED
    BY <2>7, <2>8
<1> QED
  BY <1>5, <1>6

\* At the start nobody is awake and nothing is on its way.
LEMMA InitWaking == Init => Waking /\ Addressed
<1> SUFFICES ASSUME Init PROVE Waking /\ Addressed
  OBVIOUS
<1>1. /\ \A c \in Clients : notice[c] = <<>> /\ first[c] = <<>> /\ news[c] = <<>>
                            /\ client[c].running = FALSE
      /\ \A e \in Engines : report[e] = <<>> /\ starts[e] = <<>> /\ engine[e].running = FALSE
                            /\ engine[e].at = "loop"
      /\ \A c \in Clients, e \in Engines : input[c][e] = <<>>
      /\ coord.running = FALSE
      /\ \A r \in Requests : req[r].state = "new"
  BY DEF Init
<1>2. In(<<>>) = {}
  BY SMT DEF In
<1>3. req \in [Requests -> ReqState]
  <2>1. [state |-> "new", eng |-> None, left |-> 0] \in ReqState
    BY SMT DEF ReqState, None
  <2> QED
    BY <2>1 DEF Init
<1>4. \A c \in Clients, e \in Engines : OnItsWay(input[c][e], c, e)
  BY <1>1, SMT DEF OnItsWay
<1>5. Delivery
  BY <1>1, <1>2, <1>3, <1>4 DEF Delivery
<1>6. \A e \in Engines : ~Awake(e)
  BY <1>1 DEF Awake, Unfinished
<1>7. Causes
  BY <1>1, <1>2, <1>6 DEF Causes
<1>8. Excluded
  BY <1>1, <1>2 DEF Excluded, Told, Started
<1> QED
  BY <1>1, <1>2, <1>5, <1>7, <1>8 DEF Waking, Addressed

\* Every step keeps the invariant.
LEMMA NextWaking ==
  ASSUME IInv, Waking, Addressed, [Next]_vars
  PROVE  Waking' /\ Addressed'
<1>1. CASE Next
  <2>1. Delivery'
    BY <1>1, ClientsDeliver, CoordinatorDelivers, EnginesDeliver DEF Next, Waking
  <2>2. Addressed'
    BY <1>1, AddressedKept DEF Waking
  <2>3. excuse => excuse'
    BY <1>1 DEF Next, AddRequest, AbortRequest, ClientStep, Notify, TakeNews, CoordStep,
         OnFirstRequest, OnWaveComplete, OnStartWave, OnTimeout, EngineStep, StartWave, Add,
         Abort, Step, AllReduce
  <2>4. ASSUME ~excuse' PROVE Causes' /\ Excluded'
    <3>1. Causes /\ Excluded /\ Delivery
      BY <2>3, <2>4 DEF Waking
    <3> QED
      BY <1>1, <2>4, <3>1, ClientsWake, CoordinatorWakes, EnginesWake, AllReduceWakes DEF Next
  <2> QED
    BY <2>1, <2>2, <2>4 DEF Waking
<1>2. CASE UNCHANGED vars
  <2>1. UNCHANGED <<client, coord, engine, req, notice, news, first, report, starts, input, excuse>>
    BY <1>2 DEF vars, queues
  <2>2. Delivery' /\ Addressed'
    <3>1. Delivery'
      BY <2>1, DeliverySame DEF Waking
    <3>2. Addressed'
      <4>1. \A c \in Clients, e \in Engines : \A m \in In(input'[c][e]) :
              /\ req'[m.req].state # "new"
              /\ req'[m.req].state \in {"sent", "in"} => req'[m.req].eng = e
        BY <2>1 DEF Addressed
      <4> QED
        BY <4>1 DEF Addressed, In
    <3> QED
      BY <3>1, <3>2
  <2>3. W' = W
    BY <2>1 DEF W
  <2>4. /\ Started' = Started /\ Trigger' = Trigger
        /\ \A f \in Engines : /\ Told(f)' = Told(f) /\ Coming(f)' = Coming(f)
                              /\ Called(f)' = Called(f) /\ Awake(f)' = Awake(f)
    BY <2>1, <2>3, SameWake
  <2>5. (Asked => Trigger') /\ \A f \in Engines : Told(f) => Trigger'
    BY <2>4 DEF Trigger
  <2>6. Delivery
    BY DEF Waking
  <2>7. \A c \in Clients : \A m \in In(notice'[c]) \cup In(first'[c]) :
          m.eng \in Engines /\ m \in In(notice[c]) \cup In(first[c])
    BY <2>1, <2>6 DEF Delivery
  <2>8. UNCHANGED <<client, news, starts, input>>
    BY <2>1
  <2>9. Causes /\ Excluded => Causes' /\ Excluded'
    BY <2>3, <2>4, <2>5, <2>7, <2>8, WithinWave
  <2> QED
    BY <2>1, <2>2, <2>9 DEF Waking
<1> QED
  BY <1>1, <1>2

(* LeftBehindOnlyThen: with nothing on its way that could wake an engine,  *)
(* none is paused while another waits for it in the all-reduce, unless an  *)
(* abort took the request of an engine not yet running or a client told    *)
(* the coordinator a later wave than it had sent the request with          *)
(* (DPCoordinatorProc.process_input_socket, DPEngineCoreProc), for any     *)
(* number of engines, clients and requests and whatever order messages of  *)
(* different senders come in.                                              *)
THEOREM LeftBehindOnlyThenProved == Spec => []LeftBehindOnlyThen
<1>1. IInv /\ Waking => LeftBehindOnlyThen
  <2> SUFFICES ASSUME IInv, Causes, Excluded, Quiet,
                      NEW e \in Engines, NEW f \in Engines, engine[e].at = "reduce"
               PROVE  ~Paused(f)
    BY DEF LeftBehindOnlyThen, NobodyLeftBehind, Waking
  <2>1. In(<<>>) = {}
    BY SMT DEF In
  <2>2. /\ ~Asked /\ \A g \in Engines : ~Told(g) /\ ~Coming(g) /\ ~Called(g)
    BY <2>1 DEF Quiet, Asked, Told, Coming, Called
  <2>3. Awake(e)
    BY DEF Awake
  <2>4. Started
    BY <2>2, <2>3 DEF Causes, Trigger
  <2>5. Awake(f)
    BY <2>2, <2>4 DEF Excluded
  <2> QED
    BY <2>5 DEF Awake, Paused
<1>2. IInv /\ Waking /\ Addressed /\ [Next]_vars => Waking' /\ Addressed'
  BY NextWaking
<1> QED
  BY Invariance, InitWaking, <1>1, <1>2, PTL DEF Spec
=============================================================================
