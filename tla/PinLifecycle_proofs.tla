------------------------ MODULE PinLifecycle_proofs ------------------------
(***************************************************************************)
(* What the engine keeps is always known to somebody, a tuple can rely on  *)
(* its pin, and a query that is over leaves nothing behind but what it may *)
(* leave.                                                                  *)
(*                                                                         *)
(* The others rest on the first.  A reply makes its caller strike ids from *)
(* the registry, so when it comes none of them may be kept.  That is so    *)
(* because of how calls are made: a caller makes one at a time, what it    *)
(* waits for is what it asked, and a request that ended does not end, and  *)
(* so is not kept, once more.                                              *)
(***************************************************************************)
EXTENDS PinLifecycle, TLAPS

\* The leaves are first-order steps for Zenon; those with arithmetic or large records name SMT.
USE Zenon

Call == [from : Callers \cup {Nobody}, ids : SUBSET Requests]
Places == {"idle", "called", "second", "held", "retry", "unpinning", "done", "raised"}

(* The callers that wait for a reply, by where they are in their code. *)
Busy ==
  {t \in Tuples : at[t] \in {"retry", "unpinning"}} \cup {q \in Queries : query[q] = "cleaning"} \cup calling

Types ==
  /\ owner \in [Requests -> Queries \cup {None}]
  /\ at \in [Tuples -> Places]
  /\ req \in [Tuples -> Requests \cup {None}]
  /\ query \in [Queries -> {"running", "cleaning", "done"}]
  /\ calling \subseteq {Monitor, Endpoint}
  /\ ended \subseteq Requests

(* The calls on their way, and the replies. *)
Protocol ==
  /\ inbox \in Seq(Call)
  /\ replied \subseteq Callers
  /\ ids \in [Callers -> SUBSET Requests]
  /\ \A c \in Callers : ids[c] \subseteq ended
  /\ replied \subseteq Busy
  /\ \A c \in replied : ids[c] \cap kept = {}
  /\ \A j \in 1..Len(inbox) : inbox[j].from # Nobody =>
       /\ inbox[j].from \in Busy
       /\ inbox[j].from \notin replied
       /\ inbox[j].ids = ids[inbox[j].from]
  /\ \A j, k \in 1..Len(inbox) :
       j # k /\ inbox[j].from # Nobody => inbox[j].from # inbox[k].from

(* The registry, and what tuples remember. *)
Registry ==
  /\ entries \subseteq ended
  /\ \A r \in Requests : owner[r] # None => r \in ended \cup Awaited \cup lost
  /\ \A t \in Tuples : at[t] = "second" => req[t] \in ended
  /\ \A t \in Tuples : at[t] = "held" => pin_req_id[t] \in ended
  /\ pin_req_id \in [Tuples -> Requests \cup {None}]

(* The inductive invariant. *)
IInv == Types /\ Protocol /\ Registry /\ KeptIsKnown

-----------------------------------------------------------------------------
(* What the steps do to the calls. *)

(* A step that makes no call and answers none. *)
LEMMA NoCall ==
  ASSUME Protocol, UNCHANGED <<inbox, replied, ids, ended, kept>>, Busy \subseteq Busy'
  PROVE  Protocol'
BY SMT DEF Protocol

(* A call by somebody who waits for none. *)
LEMMA Calling ==
  ASSUME Protocol, NEW c \in Callers, c \notin Busy, NEW S \in SUBSET Requests, S \subseteq ended,
         call_utility_async(c, S), UNCHANGED <<ended, kept>>, Busy \cup {c} \subseteq Busy'
  PROVE  Protocol'
<1>1. [from |-> c, ids |-> S] \in Call
  BY DEF Call
<1>2. inbox' \in Seq(Call) /\ Len(inbox') = Len(inbox) + 1
  BY <1>1, SMT DEF Protocol, call_utility_async
<1>3. ASSUME NEW j \in 1..Len(inbox')
      PROVE  \/ j \in 1..Len(inbox) /\ inbox'[j] = inbox[j]
             \/ j = Len(inbox) + 1 /\ inbox'[j] = [from |-> c, ids |-> S]
  BY <1>1, <1>2, SMT DEF Protocol, call_utility_async
<1>4. replied' = replied /\ ids' = [ids EXCEPT ![c] = S]
  BY DEF call_utility_async
<1>5. c \notin replied /\ \A j \in 1..Len(inbox) : inbox[j].from # c
  BY CallersAssumption DEF Protocol
<1>6. ids' \in [Callers -> SUBSET Requests] /\ \A d \in Callers : ids'[d] = IF d = c THEN S ELSE ids[d]
  BY <1>4 DEF Protocol
<1>7. \A d \in Callers : ids'[d] \subseteq ended'
  BY <1>6 DEF Protocol
<1>8. \A d \in replied' : ids'[d] \cap kept' = {}
  BY <1>4, <1>5, <1>6 DEF Protocol
<1>9. ASSUME NEW j \in 1..Len(inbox'), inbox'[j].from # Nobody
      PROVE  inbox'[j].from \in Busy' /\ inbox'[j].from \notin replied' /\ inbox'[j].ids = ids'[inbox'[j].from]
  <2>1. CASE j \in 1..Len(inbox) /\ inbox'[j] = inbox[j]
    <3>1. inbox[j] \in Call
      BY <2>1, SMT DEF Protocol
    <3>2. inbox[j].from \in Callers /\ inbox[j].from # c
      BY <1>5, <1>9, <2>1, <3>1 DEF Call
    <3> QED
      BY <1>4, <1>6, <1>9, <2>1, <3>2 DEF Protocol
  <2>2. CASE inbox'[j] = [from |-> c, ids |-> S]
    BY <1>4, <1>5, <1>6, <2>2, SMT
  <2> QED
    BY <1>3, <2>1, <2>2
<1>10. ASSUME NEW j \in 1..Len(inbox'), NEW k \in 1..Len(inbox'), j # k, inbox'[j].from # Nobody
       PROVE  inbox'[j].from # inbox'[k].from
  <2>1. CASE j \in 1..Len(inbox) /\ inbox'[j] = inbox[j] /\ k \in 1..Len(inbox) /\ inbox'[k] = inbox[k]
    <3>1. inbox[j].from # Nobody
      BY <1>10, <2>1
    <3>2. inbox[j].from # inbox[k].from
      BY <1>10, <2>1, <3>1 DEF Protocol
    <3> QED
      BY <2>1, <3>2
  <2>2. CASE j = Len(inbox) + 1 /\ inbox'[j] = [from |-> c, ids |-> S]
    <3>1. k \in 1..Len(inbox) /\ inbox'[k] = inbox[k]
      BY <1>3, <1>10, <2>2
    <3> QED
      BY <1>5, <2>2, <3>1, SMT
  <2>3. CASE k = Len(inbox) + 1 /\ inbox'[k] = [from |-> c, ids |-> S]
    <3>1. j \in 1..Len(inbox) /\ inbox'[j] = inbox[j]
      BY <1>3, <1>10, <2>3
    <3> QED
      BY <1>5, <2>3, <3>1, SMT
  <2> QED
    BY <1>3, <2>1, <2>2, <2>3
<1>11. replied' \subseteq Callers /\ replied' \subseteq Busy'
  BY <1>4 DEF Protocol
<1> QED
  BY <1>2, <1>6, <1>7, <1>8, <1>9, <1>10, <1>11 DEF Protocol

(* The engine carries out a call. *)
LEMMA Serving ==
  ASSUME Protocol, EngineUnpins, Busy' = Busy
  PROVE  Protocol'
<1>1. inbox \in Seq(Call) /\ inbox # <<>> /\ inbox' = Tail(inbox)
  BY DEF Protocol, EngineUnpins
<1>2. inbox' \in Seq(Call) /\ Len(inbox') = Len(inbox) - 1 /\ Head(inbox) = inbox[1] /\ 1 \in 1..Len(inbox)
  BY <1>1, SMT
<1>3. \A j \in 1..Len(inbox') : j + 1 \in 1..Len(inbox) /\ inbox'[j] = inbox[j + 1] /\ j + 1 # 1
  BY <1>1, <1>2, SMT
<1> DEFINE c == inbox[1].from
<1>4. inbox[1] \in Call /\ c \in Callers \cup {Nobody}
  <2>1. inbox[1] \in Call
    BY <1>1, <1>2, SMT
  <2> QED
    BY <2>1 DEF Call
<1>5. replied' = replied \cup ({c} \ {Nobody}) /\ kept' = kept \ inbox[1].ids /\ ids' = ids /\ ended' = ended
  BY <1>2 DEF EngineUnpins
<1>6. c # Nobody => c \in Busy /\ inbox[1].ids = ids[c]
  BY <1>2 DEF Protocol
<1>7. \A j \in 1..Len(inbox') : inbox'[j].from # Nobody => inbox'[j].from # c
  BY <1>2, <1>3, SMT DEF Protocol
<1> HIDE DEF c
<1>8. replied' \subseteq Callers /\ replied' \subseteq Busy'
  BY <1>4, <1>5, <1>6 DEF Protocol
<1>9. \A d \in replied' : ids'[d] \cap kept' = {}
  BY <1>5, <1>6 DEF Protocol
<1>10. ASSUME NEW j \in 1..Len(inbox'), inbox'[j].from # Nobody
       PROVE  inbox'[j].from \in Busy' /\ inbox'[j].from \notin replied' /\ inbox'[j].ids = ids'[inbox'[j].from]
  BY <1>3, <1>5, <1>7, <1>10, SMT DEF Protocol
<1>11. ASSUME NEW j \in 1..Len(inbox'), NEW k \in 1..Len(inbox'), j # k, inbox'[j].from # Nobody
       PROVE  inbox'[j].from # inbox'[k].from
  <2>1. j + 1 # k + 1
    BY <1>11, SMT
  <2>2. /\ j + 1 \in 1..Len(inbox) /\ inbox'[j] = inbox[j + 1]
        /\ k + 1 \in 1..Len(inbox) /\ inbox'[k] = inbox[k + 1]
    BY <1>3
  <2>3. \A m, n \in 1..Len(inbox) : m # n /\ inbox[m].from # Nobody => inbox[m].from # inbox[n].from
    BY DEF Protocol
  <2> QED
    BY <1>11, <2>1, <2>2, <2>3
<1> QED
  BY <1>2, <1>5, <1>8, <1>9, <1>10, <1>11 DEF Protocol

(* A caller takes its reply. *)
LEMMA Answering ==
  ASSUME Protocol, NEW c \in Callers, Replied(c), Busy \ {c} \subseteq Busy'
  PROVE  Protocol'
<1>1. c \in replied /\ replied' = replied \ {c} /\ ids' = [ids EXCEPT ![c] = {}]
  BY DEF Replied
<1>2. UNCHANGED <<inbox, ended, kept>>
  BY DEF Replied
<1>3. \A j \in 1..Len(inbox) : inbox[j].from # c
  BY <1>1, CallersAssumption DEF Protocol
<1>4. ids' \in [Callers -> SUBSET Requests] /\ \A d \in Callers : ids'[d] = IF d = c THEN {} ELSE ids[d]
  BY <1>1 DEF Protocol
<1>5. \A d \in Callers : ids'[d] \subseteq ended'
  BY <1>2, <1>4 DEF Protocol
<1>6. \A d \in replied' : ids'[d] \cap kept' = {}
  BY <1>1, <1>2, <1>4 DEF Protocol
<1>7. ASSUME NEW j \in 1..Len(inbox), inbox[j].from # Nobody
      PROVE  inbox[j].from \in Busy' /\ inbox[j].from \notin replied' /\ inbox[j].ids = ids'[inbox[j].from]
  <2>1. inbox[j] \in Call
    BY SMT DEF Protocol
  <2>2. inbox[j].from \in Callers /\ inbox[j].from # c
    BY <1>3, <1>7, <2>1 DEF Call
  <2> QED
    BY <1>1, <1>4, <1>7, <2>2 DEF Protocol
<1>8. replied' \subseteq Callers /\ replied' \subseteq Busy'
  BY <1>1 DEF Protocol
<1>9. /\ inbox' \in Seq(Call)
      /\ \A j, k \in 1..Len(inbox') : j # k /\ inbox'[j].from # Nobody => inbox'[j].from # inbox'[k].from
  BY <1>2 DEF Protocol
<1> QED
  BY <1>2, <1>4, <1>5, <1>6, <1>7, <1>8, <1>9 DEF Protocol

(* A caller gives up: its call stays, as nobody's. *)
LEMMA GivingUp ==
  ASSUME Protocol, NEW c \in Callers, GiveUp(c), Busy \ {c} \subseteq Busy'
  PROVE  Protocol'
<1> DEFINE renamed(m) == IF m.from = c THEN [m EXCEPT !.from = Nobody] ELSE m
<1>1. inbox \in Seq(Call) /\ inbox' = [j \in 1..Len(inbox) |-> renamed(inbox[j])]
  BY SMT DEF GiveUp, Protocol
<1>2. replied' = replied \ {c} /\ ids' = [ids EXCEPT ![c] = {}]
  BY DEF GiveUp
<1>3. UNCHANGED <<ended, kept>>
  BY DEF GiveUp
<1>4. ASSUME NEW j \in 1..Len(inbox)
      PROVE  /\ renamed(inbox[j]) \in Call
             /\ renamed(inbox[j]).from # Nobody =>
                  renamed(inbox[j]) = inbox[j] /\ inbox[j].from \in Callers \ {c}
             /\ renamed(inbox[j]).from \in {inbox[j].from, Nobody}
  <2>1. inbox[j] \in Call
    BY <1>1, SMT
  <2> QED
    BY <2>1 DEF Call
<1> HIDE DEF renamed
<1>5. inbox' \in Seq(Call) /\ Len(inbox') = Len(inbox)
  BY <1>1, <1>4, SMT
<1>6. \A j \in 1..Len(inbox') : inbox'[j] = renamed(inbox[j])
  BY <1>1, <1>5
<1>7. ids' \in [Callers -> SUBSET Requests] /\ \A d \in Callers : ids'[d] = IF d = c THEN {} ELSE ids[d]
  BY <1>2 DEF Protocol
<1>8. \A d \in Callers : ids'[d] \subseteq ended'
  BY <1>3, <1>7 DEF Protocol
<1>9. \A d \in replied' : ids'[d] \cap kept' = {}
  BY <1>2, <1>3, <1>7 DEF Protocol
<1>10. ASSUME NEW j \in 1..Len(inbox'), inbox'[j].from # Nobody
       PROVE  inbox'[j].from \in Busy' /\ inbox'[j].from \notin replied' /\ inbox'[j].ids = ids'[inbox'[j].from]
  <2>1. inbox'[j] = inbox[j] /\ inbox[j].from \in Callers \ {c}
    BY <1>4, <1>5, <1>6, <1>10
  <2> QED
    BY <1>2, <1>5, <1>7, <1>10, <2>1 DEF Protocol
<1>11. ASSUME NEW j \in 1..Len(inbox'), NEW k \in 1..Len(inbox'), j # k, inbox'[j].from # Nobody
       PROVE  inbox'[j].from # inbox'[k].from
  <2>1. inbox'[j] = inbox[j] /\ inbox'[k].from \in {inbox[k].from, Nobody}
    BY <1>4, <1>5, <1>6, <1>11
  <2>2. \A m, n \in 1..Len(inbox) : m # n /\ inbox[m].from # Nobody => inbox[m].from # inbox[n].from
    BY DEF Protocol
  <2> QED
    BY <1>5, <1>11, <2>1, <2>2
<1>12. replied' \subseteq Callers /\ replied' \subseteq Busy'
  BY <1>2 DEF Protocol
<1> QED
  BY <1>5, <1>7, <1>8, <1>9, <1>10, <1>11, <1>12 DEF Protocol

(* A request ends in the engine, for the first time. *)
LEMMA Ending ==
  ASSUME Protocol, NEW r \in Requests, EngineEnds(r), Busy' = Busy
  PROVE  Protocol'
<1>1. /\ ended' = ended \cup {r} /\ kept' = kept \cup {r} /\ r \notin ended
      /\ UNCHANGED <<inbox, replied, ids>>
  BY DEF EngineEnds, rpc
<1>2. \A c \in Callers : ids'[c] \subseteq ended' /\ r \notin ids[c]
  BY <1>1 DEF Protocol
<1>3. \A c \in replied' : ids'[c] \cap kept' = {}
  BY <1>1, <1>2, SMT DEF Protocol
<1> QED
  BY <1>1, <1>2, <1>3 DEF Protocol

-----------------------------------------------------------------------------
(* What the steps of a tuple do to its place. *)

\* A tuple that moves on leaves the others where they are.
LEMMA Moving ==
  ASSUME Types, NEW t \in Tuples, NEW to \in Places, Move(t, to), UNCHANGED <<query, calling>>
  PROVE  /\ at' \in [Tuples -> Places]
         /\ at'[t] = to /\ \A u \in Tuples \ {t} : at'[u] = at[u]
         /\ Busy \ {t} \subseteq Busy'
         /\ at[t] \notin {"retry", "unpinning"} => t \notin Busy
         /\ to \in {"retry", "unpinning"} => t \in Busy'
<1>1. at' \in [Tuples -> Places] /\ at'[t] = to /\ \A u \in Tuples \ {t} : at'[u] = at[u]
  BY DEF Types, Move
<1>2. t \notin Queries /\ t \notin calling
  BY CallersAssumption DEF Types
<1> QED
  BY <1>1, <1>2 DEF Busy

(* Only the tuple that moves can cease to wait for its request. *)
LEMMA Awaiting ==
  ASSUME NEW t \in Tuples, UNCHANGED req, \A u \in Tuples \ {t} : at'[u] = at[u]
  PROVE  Awaited \ {req[t]} \subseteq Awaited' /\ (at[t] # "called" => Awaited \subseteq Awaited')
BY DEF Awaited

(* The invariant of the registry when a request is no longer awaited.  *)
LEMMA StillKnown ==
  ASSUME Registry, KeptIsKnown, UNCHANGED <<owner, ended, kept>>,
         entries \subseteq entries', entries' \subseteq ended, lost \subseteq lost',
         Awaited \subseteq Awaited' \cup lost' \cup (entries' \cap ended)
  PROVE  /\ entries' \subseteq ended' /\ KeptIsKnown'
         /\ \A r \in Requests : owner'[r] # None => r \in ended' \cup Awaited' \cup lost'
BY DEF Registry, KeptIsKnown

(* A step of a tuple keeps the invariant. *)
LEMMA TupleIInv ==
  ASSUME IInv, NEW t \in Tuples, TupleStep(t)
  PROVE  IInv'
<1>a. Types /\ Protocol /\ Registry /\ KeptIsKnown
  BY DEF IInv
<1>b. t \in Callers
  BY DEF Callers
<1>c. entries \subseteq ended /\ ended \subseteq Requests
  BY <1>a DEF Registry, Types
<1>1. ASSUME NEW r \in Requests, Execute(t, r) PROVE IInv'
  <2>1. /\ Move(t, "called") /\ at[t] = "idle"
        /\ UNCHANGED <<query, calling, ended, kept, entries, pin_req_id, inbox, replied, ids, lost>>
        /\ owner' = [owner EXCEPT ![r] = QueryOf[t]] /\ req' = [req EXCEPT ![t] = r]
    BY <1>1 DEF Execute, rpc, history
  <2>2. /\ at' \in [Tuples -> Places] /\ at'[t] = "called" /\ \A u \in Tuples \ {t} : at'[u] = at[u]
        /\ Busy \subseteq Busy'
    BY <1>a, <2>1, Moving DEF Places
  <2>3. owner' \in [Requests -> Queries \cup {None}] /\ req' \in [Tuples -> Requests \cup {None}]
    BY <1>a, <2>1, QueryOfAssumption DEF Types
  <2>4. Types'
    BY <1>a, <2>1, <2>2, <2>3 DEF Types
  <2>5. Protocol'
    BY <1>a, <2>1, <2>2, NoCall
  <2>6. req'[t] = r /\ \A u \in Tuples \ {t} : req'[u] = req[u]
    BY <1>a, <2>1 DEF Types
  <2>7. Awaited \cup {r} \subseteq Awaited'
    BY <2>1, <2>2, <2>6 DEF Awaited
  <2>8. \A x \in Requests \ {r} : owner'[x] = owner[x]
    BY <1>a, <2>1 DEF Types
  <2>9. Registry'
    BY <1>a, <2>1, <2>2, <2>6, <2>7, <2>8, SMT DEF Registry
  <2>10. KeptIsKnown'
    BY <1>a, <2>1, <2>7 DEF KeptIsKnown
  <2> QED
    BY <2>4, <2>5, <2>9, <2>10 DEF IInv
\* An answer, whichever operator gets it.
<1>d. ASSUME Answered(t), NEW to \in {"held", "second", "retry"}, Move(t, to)
      PROVE  /\ Types' /\ req[t] \in ended /\ UNCHANGED <<ended, kept, req>> /\ t \notin Busy
             /\ Busy \subseteq Busy' /\ (to = "retry" => t \in Busy')
             /\ at'[t] = to /\ \A u \in Tuples \ {t} : at'[u] = at[u]
             /\ entries' \subseteq ended' /\ KeptIsKnown'
             /\ \A r \in Requests : owner'[r] # None => r \in ended' \cup Awaited' \cup lost'
  <2>1. /\ at[t] = "called" /\ req[t] \in ended /\ entries' = entries \cup {req[t]}
        /\ UNCHANGED <<owner, ended, kept, req, query, calling, lost>>
    BY <1>d DEF Answered
  <2>2. /\ at' \in [Tuples -> Places] /\ at'[t] = to /\ \A u \in Tuples \ {t} : at'[u] = at[u]
        /\ Busy \ {t} \subseteq Busy' /\ t \notin Busy /\ (to = "retry" => t \in Busy')
    BY <1>a, <1>d, <2>1, Moving DEF Places
  <2>3. Types'
    BY <1>a, <2>1, <2>2 DEF Types
  <2>4. Awaited \ {req[t]} \subseteq Awaited'
    BY <2>1, <2>2, Awaiting
  <2>5. /\ entries' \subseteq ended' /\ KeptIsKnown'
        /\ \A r \in Requests : owner'[r] # None => r \in ended' \cup Awaited' \cup lost'
    BY <1>a, <1>c, <2>1, <2>4, StillKnown
  <2> QED
    BY <2>1, <2>2, <2>3, <2>5
<1>2. ASSUME PinAnswered(t) PROVE IInv'
  <2>1. Answered(t) /\ Move(t, "held") /\ pin_req_id' = [pin_req_id EXCEPT ![t] = req[t]]
    BY <1>2 DEF PinAnswered
  <2>2. UNCHANGED <<inbox, replied, ids>>
    BY <1>2 DEF PinAnswered, rpc
  <2>3. Protocol'
    BY <1>a, <1>d, <2>1, <2>2, NoCall
  <2>4. /\ pin_req_id' \in [Tuples -> Requests \cup {None}] /\ pin_req_id'[t] = req[t]
        /\ \A u \in Tuples \ {t} : pin_req_id'[u] = pin_req_id[u]
    BY <1>a, <2>1 DEF Registry, Types
  <2>5. Registry'
    BY <1>a, <1>d, <2>1, <2>4 DEF Registry
  <2> QED
    BY <1>d, <2>1, <2>3, <2>5 DEF IInv
<1>3. ASSUME ClassifyAnswered(t) PROVE IInv'
  <2>1. Answered(t) /\ Move(t, "second") /\ UNCHANGED pin_req_id
    BY <1>3 DEF ClassifyAnswered
  <2>2. UNCHANGED <<inbox, replied, ids>>
    BY <1>3 DEF ClassifyAnswered, rpc
  <2>3. Protocol'
    BY <1>a, <1>d, <2>1, <2>2, NoCall
  <2>4. Registry'
    BY <1>a, <1>d, <2>1 DEF Registry
  <2> QED
    BY <1>d, <2>1, <2>3, <2>4 DEF IInv
<1>4. ASSUME MapAnswered(t) PROVE IInv'
  <2>1. Answered(t) /\ Move(t, "retry") /\ UNCHANGED pin_req_id /\ call_utility_async(t, {req[t]})
    BY <1>4 DEF MapAnswered
  <2>2. /\ t \notin Busy /\ Busy \cup {t} \subseteq Busy' /\ UNCHANGED <<ended, kept>>
        /\ {req[t]} \subseteq ended /\ {req[t]} \in SUBSET Requests
    BY <1>c, <1>d, <2>1
  <2>3. Protocol'
    BY <1>a, <1>b, <2>1, <2>2, Calling
  <2>4. Registry'
    BY <1>a, <1>d, <2>1 DEF Registry
  <2> QED
    BY <1>d, <2>1, <2>3, <2>4 DEF IInv
<1>5. ASSUME SecondAnswered(t) PROVE IInv'
  <2>1. /\ Move(t, "held") /\ at[t] = "second" /\ pin_req_id' = [pin_req_id EXCEPT ![t] = req[t]]
        /\ UNCHANGED <<owner, ended, kept, entries, req, query, calling, inbox, replied, ids, lost>>
    BY <1>5 DEF SecondAnswered, rpc, history
  <2>2. /\ at' \in [Tuples -> Places] /\ at'[t] = "held" /\ \A u \in Tuples \ {t} : at'[u] = at[u]
        /\ Busy \subseteq Busy'
    BY <1>a, <2>1, Moving DEF Places
  <2>3. Types'
    BY <1>a, <2>1, <2>2 DEF Types
  <2>4. Protocol'
    BY <1>a, <2>1, <2>2, NoCall
  <2>5. Awaited \subseteq Awaited'
    BY <2>1, <2>2, Awaiting
  <2>6. /\ pin_req_id' \in [Tuples -> Requests \cup {None}] /\ pin_req_id'[t] = req[t]
        /\ \A u \in Tuples \ {t} : pin_req_id'[u] = pin_req_id[u]
    BY <1>a, <2>1 DEF Registry, Types
  <2>7. Registry'
    BY <1>a, <2>1, <2>2, <2>5, <2>6 DEF Registry
  <2>8. KeptIsKnown'
    BY <1>a, <2>1, <2>5 DEF KeptIsKnown
  <2> QED
    BY <2>3, <2>4, <2>7, <2>8 DEF IInv
<1>6. ASSUME CallRaises(t) PROVE IInv'
  <2>1. /\ Move(t, "raised") /\ at[t] \in {"called", "second", "held", "idle"}
        /\ lost' = IF at[t] = "called" THEN lost \cup {req[t]} ELSE lost
        /\ UNCHANGED <<owner, ended, kept, entries, req, pin_req_id, query, calling, inbox, replied, ids>>
    BY <1>6 DEF CallRaises, rpc
  <2>2. /\ at' \in [Tuples -> Places] /\ at'[t] = "raised" /\ \A u \in Tuples \ {t} : at'[u] = at[u]
        /\ Busy \subseteq Busy'
    BY <1>a, <2>1, Moving DEF Places
  <2>3. Types'
    BY <1>a, <2>1, <2>2 DEF Types
  <2>4. Protocol'
    BY <1>a, <2>1, <2>2, NoCall
  <2>5. lost \subseteq lost' /\ Awaited \subseteq Awaited' \cup lost'
    BY <2>1, <2>2, Awaiting
  <2>6. /\ entries' \subseteq ended' /\ KeptIsKnown'
        /\ \A r \in Requests : owner'[r] # None => r \in ended' \cup Awaited' \cup lost'
    BY <1>a, <1>c, <2>1, <2>5, StillKnown
  <2>7. Registry'
    BY <1>a, <2>1, <2>2, <2>6 DEF Registry
  <2> QED
    BY <2>3, <2>4, <2>6, <2>7 DEF IInv
<1>7. ASSUME unpin(t) PROVE IInv'
  <2>1. /\ Move(t, "unpinning") /\ at[t] = "held" /\ call_utility_async(t, {pin_req_id[t]})
        /\ UNCHANGED <<owner, ended, kept, entries, req, pin_req_id, query, calling, lost>>
    BY <1>7 DEF unpin, history
  <2>2. /\ at' \in [Tuples -> Places] /\ at'[t] = "unpinning" /\ \A u \in Tuples \ {t} : at'[u] = at[u]
        /\ t \notin Busy /\ Busy \cup {t} \subseteq Busy'
    BY <1>a, <2>1, Moving DEF Places
  <2>3. Types'
    BY <1>a, <2>1, <2>2 DEF Types
  <2>4. {pin_req_id[t]} \subseteq ended /\ {pin_req_id[t]} \in SUBSET Requests
    BY <1>a, <1>c, <2>1 DEF Registry
  <2>5. Protocol'
    BY <1>a, <1>b, <2>1, <2>2, <2>4, Calling
  <2>6. Awaited \subseteq Awaited'
    BY <2>1, <2>2, Awaiting
  <2>7. Registry'
    BY <1>a, <2>1, <2>2, <2>6 DEF Registry
  <2>8. KeptIsKnown'
    BY <1>a, <2>1, <2>6 DEF KeptIsKnown
  <2> QED
    BY <2>3, <2>5, <2>7, <2>8 DEF IInv
<1>8. ASSUME UnpinDone(t) PROVE IInv'
  <2> DEFINE to == IF at[t] = "retry" THEN "idle" ELSE "done"
  <2>1. /\ Replied(t) /\ Move(t, to) /\ pin_req_id' = [pin_req_id EXCEPT ![t] = None]
        /\ UNCHANGED <<req, query, calling, lost>>
    BY <1>8 DEF UnpinDone, history
  <2>2. to \in {"idle", "done"} /\ to \in Places
    BY DEF Places
  <2>3. /\ t \in replied /\ entries' = entries \ ids[t]
        /\ UNCHANGED <<owner, ended, kept>>
    BY <2>1 DEF Replied
  <2> HIDE DEF to
  <2>4. /\ at' \in [Tuples -> Places] /\ at'[t] = to /\ \A u \in Tuples \ {t} : at'[u] = at[u]
        /\ Busy \ {t} \subseteq Busy' /\ (at[t] \notin {"retry", "unpinning"} => t \notin Busy)
    BY <1>a, <2>1, <2>2, Moving
  <2>5. at[t] # "called" /\ ids[t] \cap kept = {}
    BY <1>a, <2>3, <2>4 DEF Protocol
  <2>6. Types'
    BY <1>a, <2>1, <2>3, <2>4 DEF Types
  <2>7. Protocol'
    BY <1>a, <1>b, <2>1, <2>4, Answering
  <2>8. Awaited \subseteq Awaited'
    BY <2>1, <2>4, <2>5, Awaiting
  <2>9. /\ pin_req_id' \in [Tuples -> Requests \cup {None}]
        /\ \A u \in Tuples \ {t} : pin_req_id'[u] = pin_req_id[u]
    BY <1>a, <2>1 DEF Registry
  <2>10. Registry'
    BY <1>a, <2>1, <2>2, <2>3, <2>4, <2>8, <2>9 DEF Registry
  <2>11. KeptIsKnown'
    BY <1>a, <2>1, <2>3, <2>5, <2>8 DEF KeptIsKnown
  <2> QED
    BY <2>6, <2>7, <2>10, <2>11 DEF IInv
<1>9. ASSUME Leave(t) PROVE IInv'
  <2>1. /\ Move(t, "done") /\ at[t] \in {"idle", "held"}
        /\ UNCHANGED <<owner, ended, kept, entries, req, pin_req_id, query, calling, inbox, replied, ids, lost>>
    BY <1>9 DEF Leave, rpc, history
  <2>2. /\ at' \in [Tuples -> Places] /\ at'[t] = "done" /\ \A u \in Tuples \ {t} : at'[u] = at[u]
        /\ Busy \subseteq Busy'
    BY <1>a, <2>1, Moving DEF Places
  <2>3. Types'
    BY <1>a, <2>1, <2>2 DEF Types
  <2>4. Protocol'
    BY <1>a, <2>1, <2>2, NoCall
  <2>5. Awaited \subseteq Awaited'
    BY <2>1, <2>2, Awaiting
  <2>6. Registry'
    BY <1>a, <2>1, <2>2, <2>5 DEF Registry
  <2>7. KeptIsKnown'
    BY <1>a, <2>1, <2>5 DEF KeptIsKnown
  <2> QED
    BY <2>3, <2>4, <2>6, <2>7 DEF IInv
<1> QED
  BY <1>1, <1>2, <1>3, <1>4, <1>5, <1>6, <1>7, <1>8, <1>9 DEF TupleStep

-----------------------------------------------------------------------------
(* The others leave the tuples where they are. *)

(* What becomes of the registry when entries that are not kept are struck. *)
LEMMA Striking ==
  ASSUME Registry, KeptIsKnown, UNCHANGED <<owner, ended, kept, tuple, lost>>,
         NEW S, S \cap kept = {}, entries' = entries \ S
  PROVE  Registry' /\ KeptIsKnown'
<1>1. UNCHANGED <<at, req, pin_req_id>> /\ Awaited' = Awaited
  BY DEF tuple, Awaited
<1>2. Registry'
  BY <1>1 DEF Registry
<1>3. KeptIsKnown'
  BY <1>1 DEF KeptIsKnown
<1> QED
  BY <1>2, <1>3

\* Steps that touch neither the registry nor the engine.
LEMMA SameEntries ==
  ASSUME Registry, KeptIsKnown, UNCHANGED <<owner, ended, kept, entries, tuple, lost>>
  PROVE  Registry' /\ KeptIsKnown'
<1>1. entries' = entries \ {} /\ {} \cap kept = {}
  OBVIOUS
<1> QED
  BY <1>1, Striking

(* A step of the cleanup of a query. *)
LEMMA QueryIInv ==
  ASSUME IInv, NEW q \in Queries, QueryStep(q)
  PROVE  IInv'
<1>a. Types /\ Protocol /\ Registry /\ KeptIsKnown
  BY DEF IInv
<1>b. q \in Callers /\ q \notin Tuples /\ q \notin calling
  BY <1>a, CallersAssumption DEF Callers, Types
<1>c. ASSUME NEW to \in {"cleaning", "done"}, query' = [query EXCEPT ![q] = to],
             UNCHANGED <<owner, tuple, calling, ended>>
      PROVE  /\ Types' /\ Busy \ {q} \subseteq Busy' /\ (to = "cleaning" => q \in Busy')
             /\ (query[q] = "running" => q \notin Busy)
  <2>1. /\ query' \in [Queries -> {"running", "cleaning", "done"}]
        /\ query'[q] = to /\ \A p \in Queries \ {q} : query'[p] = query[p]
    BY <1>a, <1>c DEF Types
  <2>2. UNCHANGED <<at, req, pin_req_id>>
    BY <1>c DEF tuple
  <2> QED
    BY <1>a, <1>b, <1>c, <2>1, <2>2 DEF Types, Busy
<1>1. ASSUME _cleanup_query_pins(q) PROVE IInv'
  <2>1. query[q] = "running" /\ UNCHANGED <<owner, ended, kept, entries, tuple, calling, lost>>
    BY <1>1 DEF _cleanup_query_pins, history
  <2>2. Registry' /\ KeptIsKnown'
    BY <1>a, <2>1, SameEntries
  <2>3. CASE list_by_owner(q) = {}
    <3>1. query' = [query EXCEPT ![q] = "done"] /\ UNCHANGED <<inbox, replied, ids>>
      BY <1>1, <2>3 DEF _cleanup_query_pins, rpc
    <3>2. Types' /\ Busy \subseteq Busy'
      BY <1>c, <2>1, <3>1
    <3>3. Protocol'
      BY <1>a, <2>1, <3>1, <3>2, NoCall
    <3> QED
      BY <2>2, <3>2, <3>3 DEF IInv
  <2>4. CASE list_by_owner(q) # {}
    <3>1. query' = [query EXCEPT ![q] = "cleaning"] /\ call_utility_async(q, list_by_owner(q))
      BY <1>1, <2>4 DEF _cleanup_query_pins
    <3>2. Types' /\ Busy \cup {q} \subseteq Busy' /\ q \notin Busy
      BY <1>c, <2>1, <3>1
    <3>3. list_by_owner(q) \subseteq ended /\ list_by_owner(q) \in SUBSET Requests
      BY <1>a DEF list_by_owner, Registry, Types
    <3> HIDE DEF list_by_owner
    <3>4. Protocol'
      BY <1>a, <1>b, <2>1, <3>1, <3>2, <3>3, Calling
    <3> QED
      BY <2>2, <3>2, <3>4 DEF IInv
  <2> QED
    BY <2>3, <2>4
<1>2. ASSUME CleanupDone(q) PROVE IInv'
  <2>1. Replied(q) /\ query' = [query EXCEPT ![q] = "done"] /\ UNCHANGED <<tuple, calling, lost>>
    BY <1>2 DEF CleanupDone, history
  <2>2. q \in replied /\ entries' = entries \ ids[q] /\ UNCHANGED <<owner, ended, kept>>
    BY <2>1 DEF Replied
  <2>3. Types' /\ Busy \ {q} \subseteq Busy'
    BY <1>c, <2>1, <2>2
  <2>4. Protocol'
    BY <1>a, <1>b, <2>1, <2>3, Answering
  <2>5. ids[q] \cap kept = {}
    BY <1>a, <2>2 DEF Protocol
  <2>6. Registry' /\ KeptIsKnown'
    BY <1>a, <2>1, <2>2, <2>5, Striking
  <2> QED
    BY <2>3, <2>4, <2>6 DEF IInv
<1>3. ASSUME CleanupTimesOut(q) PROVE IInv'
  <2>1. GiveUp(q) /\ query' = [query EXCEPT ![q] = "done"] /\ UNCHANGED <<calling, lost>>
    BY <1>3 DEF CleanupTimesOut
  <2>2. UNCHANGED <<owner, ended, kept, entries, tuple>>
    BY <2>1 DEF GiveUp
  <2>3. Types' /\ Busy \ {q} \subseteq Busy'
    BY <1>c, <2>1, <2>2
  <2>4. Protocol'
    BY <1>a, <1>b, <2>1, <2>3, GivingUp
  <2>5. Registry' /\ KeptIsKnown'
    BY <1>a, <2>1, <2>2, SameEntries
  <2> QED
    BY <2>3, <2>4, <2>5 DEF IInv
<1> QED
  BY <1>1, <1>2, <1>3 DEF QueryStep

(* A step of the monitor or of the endpoint. *)
LEMMA MonitorIInv ==
  ASSUME IInv,
         MonitorStep \/ CooledDown \/ EndpointStep \/ \E c \in {Monitor, Endpoint} : UnpinTimesOut(c)
  PROVE  IInv'
<1>a. Types /\ Protocol /\ Registry /\ KeptIsKnown
  BY DEF IInv
<1>b. Monitor \in Callers /\ Endpoint \in Callers
  BY DEF Callers
<1>c. ASSUME UNCHANGED <<owner, ended, tuple, query>>, calling' \subseteq {Monitor, Endpoint}
      PROVE  Types' /\ Busy' = (Busy \ calling) \cup calling'
  <2>1. UNCHANGED <<at, req, pin_req_id>>
    BY <1>c DEF tuple
  <2>2. calling \cap Tuples = {} /\ calling \cap Queries = {}
    BY <1>a, CallersAssumption DEF Types
  <2> QED
    BY <1>a, <1>c, <2>1, <2>2 DEF Types, Busy
<1>d. ASSUME NEW c \in {Monitor, Endpoint} PROVE c \notin calling => c \notin Busy
  BY CallersAssumption DEF Busy
<1>e. calling \subseteq Busy /\ calling \subseteq {Monitor, Endpoint}
  BY <1>a DEF Busy, Types
\* Nothing of interest changes.
<1>1. ASSUME UNCHANGED <<owner, ended, kept, entries, tuple, query, inbox, replied, ids, calling, lost>>
      PROVE  IInv'
  <2>1. Types' /\ Busy' = Busy
    BY <1>1, <1>c, <1>e
  <2>2. Protocol'
    BY <1>a, <1>1, <2>1, NoCall
  <2> QED
    BY <1>a, <1>1, <2>1, <2>2, SameEntries DEF IInv
\* A set of entries is unpinned.
<1>2. ASSUME NEW c \in {Monitor, Endpoint}, c \notin calling, NEW S \in SUBSET entries, UnpinSet(c, S),
             UNCHANGED <<owner, ended, kept, entries, tuple, query>>
      PROVE  IInv'
  <2>1. call_utility_async(c, S) /\ calling' = calling \cup {c} /\ UNCHANGED lost
    BY <1>2 DEF UnpinSet
  <2>2. Types' /\ Busy' = (Busy \ calling) \cup calling'
    BY <1>2, <1>c, <1>e, <2>1
  <2>3. Busy \cup {c} \subseteq Busy' /\ c \notin Busy
    BY <1>d, <1>2, <2>1, <2>2
  <2>4. S \subseteq ended /\ S \in SUBSET Requests
    BY <1>a DEF Registry, Types
  <2>5. Protocol'
    BY <1>a, <1>b, <1>2, <2>1, <2>3, <2>4, Calling
  <2> QED
    BY <1>a, <1>2, <2>1, <2>2, <2>5, SameEntries DEF IInv
\* The reply to that.
<1>3. ASSUME NEW c \in {Monitor, Endpoint}, Replied(c), calling' = calling \ {c},
             UNCHANGED <<tuple, query, lost>>
      PROVE  IInv'
  <2>1. c \in replied /\ entries' = entries \ ids[c] /\ UNCHANGED <<owner, ended, kept>>
    BY <1>3 DEF Replied
  <2>2. Types' /\ Busy' = (Busy \ calling) \cup calling'
    BY <1>3, <1>c, <1>e, <2>1
  <2>3. Busy \ {c} \subseteq Busy'
    BY <1>3, <2>2
  <2>4. Protocol'
    BY <1>a, <1>b, <1>3, <2>3, Answering
  <2>5. ids[c] \cap kept = {}
    BY <1>a, <2>1 DEF Protocol
  <2> QED
    BY <1>a, <1>3, <2>1, <2>2, <2>4, <2>5, Striking DEF IInv
\* No reply comes in time.
<1>4. ASSUME NEW c \in {Monitor, Endpoint}, UnpinTimesOut(c) PROVE IInv'
  <2>1. GiveUp(c) /\ calling' = calling \ {c} /\ UNCHANGED <<query, lost>>
    BY <1>4 DEF UnpinTimesOut, history
  <2>2. UNCHANGED <<owner, ended, kept, entries, tuple>>
    BY <2>1 DEF GiveUp
  <2>3. Types' /\ Busy' = (Busy \ calling) \cup calling'
    BY <1>c, <1>e, <2>1, <2>2
  <2>4. Busy \ {c} \subseteq Busy'
    BY <2>1, <2>3
  <2>5. Protocol'
    BY <1>a, <1>b, <1>4, <2>1, <2>4, GivingUp
  <2> QED
    BY <1>a, <2>1, <2>2, <2>3, <2>5, SameEntries DEF IInv
<1>5. ASSUME MonitorStep PROVE IInv'
  <2>1. CASE CheckFine
    BY <1>1, <2>1 DEF CheckFine, rpc, history
  <2>2. CASE CheckStuck \/ CheckTimesOut
    <3>1. /\ Monitor \notin calling /\ UNCHANGED <<owner, ended, kept, entries, tuple, query>>
          /\ UnpinSet(Monitor, entries) \/ UNCHANGED <<rpc, calling, history>>
      BY <2>2 DEF CheckStuck, CheckTimesOut, Relieve
    <3>2. CASE UnpinSet(Monitor, entries)
      BY <1>2, <3>1, <3>2
    <3>3. CASE UNCHANGED <<rpc, calling, history>>
      BY <1>1, <3>1, <3>3 DEF rpc, history
    <3> QED
      BY <3>1, <3>2, <3>3
  <2>3. CASE MonitorDone
    BY <1>3, <2>3 DEF MonitorDone, history
  <2> QED
    BY <1>5, <2>1, <2>2, <2>3 DEF MonitorStep
<1>6. ASSUME CooledDown PROVE IInv'
  BY <1>1, <1>6 DEF CooledDown, rpc, history
<1>7. ASSUME EndpointStep PROVE IInv'
  <2>1. CASE EndpointDone
    BY <1>3, <2>1 DEF EndpointDone, history
  <2>2. ASSUME NEW S \in SUBSET entries, unpin_pinned_requests(S) PROVE IInv'
    BY <1>2, <2>2 DEF unpin_pinned_requests
  <2> QED
    BY <1>7, <2>1, <2>2 DEF EndpointStep
<1> QED
  BY <1>4, <1>5, <1>6, <1>7

(* A step of the engine. *)
LEMMA EngineIInv ==
  ASSUME IInv, EngineUnpins \/ \E r \in Requests : EngineEnds(r)
  PROVE  IInv'
<1>a. Types /\ Protocol /\ Registry /\ KeptIsKnown
  BY DEF IInv
<1>b. ASSUME UNCHANGED <<tuple, query, calling>>
      PROVE  UNCHANGED <<at, req, pin_req_id>> /\ Busy' = Busy /\ Awaited' = Awaited
  BY <1>b DEF tuple, Busy, Awaited
<1>1. ASSUME EngineUnpins PROVE IInv'
  <2>1. kept' \subseteq kept /\ UNCHANGED <<owner, ended, entries, tuple, query, calling, lost>>
    BY <1>1 DEF EngineUnpins, history
  <2>2. UNCHANGED <<at, req, pin_req_id>> /\ Busy' = Busy /\ Awaited' = Awaited
    BY <1>b, <2>1
  <2>3. Protocol'
    BY <1>a, <1>1, <2>2, Serving
  <2>4. Types'
    BY <1>a, <2>1, <2>2 DEF Types
  <2>5. Registry'
    BY <1>a, <2>1, <2>2 DEF Registry
  <2>6. KeptIsKnown'
    BY <1>a, <2>1, <2>2 DEF KeptIsKnown
  <2> QED
    BY <2>3, <2>4, <2>5, <2>6 DEF IInv
<1>2. ASSUME NEW r \in Requests, EngineEnds(r) PROVE IInv'
  <2>1. /\ owner[r] # None /\ r \notin ended /\ ended' = ended \cup {r} /\ kept' = kept \cup {r}
        /\ UNCHANGED <<owner, entries, tuple, query, calling, lost>>
    BY <1>2 DEF EngineEnds, history
  <2>2. UNCHANGED <<at, req, pin_req_id>> /\ Busy' = Busy /\ Awaited' = Awaited
    BY <1>b, <2>1
  <2>3. Protocol'
    BY <1>a, <1>2, <2>2, Ending
  <2>4. Types'
    BY <1>a, <2>1, <2>2 DEF Types
  <2>5. Registry'
    BY <1>a, <2>1, <2>2 DEF Registry
  <2>6. r \in Awaited \cup lost
    BY <1>a, <2>1 DEF Registry
  <2>7. KeptIsKnown'
    BY <1>a, <2>1, <2>2, <2>6 DEF KeptIsKnown
  <2> QED
    BY <2>3, <2>4, <2>5, <2>7 DEF IInv
<1> QED
  BY <1>1, <1>2

-----------------------------------------------------------------------------
\* At the start nothing is registered, kept or on its way.
LEMMA InitIInv == Init => IInv
<1> SUFFICES ASSUME Init PROVE IInv
  OBVIOUS
<1>1. Types
  BY DEF Init, Types, Places
<1>2. Protocol
  BY SMT DEF Init, Protocol
<1>3. Registry
  BY DEF Init, Registry
<1>4. KeptIsKnown
  BY DEF Init, KeptIsKnown
<1> QED
  BY <1>1, <1>2, <1>3, <1>4 DEF IInv

\* The invariant holds in every state.
LEMMA Invariance == Spec => []IInv
<1>1. IInv /\ [Next]_vars => IInv'
  <2>1. IInv /\ Next => IInv'
    BY TupleIInv, QueryIInv, MonitorIInv, EngineIInv DEF Next
  <2>2. IInv /\ UNCHANGED vars => IInv'
    <3> SUFFICES ASSUME IInv, UNCHANGED vars PROVE IInv'
      OBVIOUS
    <3>1. /\ UNCHANGED <<owner, ended, kept, entries, query, calling, tuple, lost, inbox, replied, ids>>
          /\ UNCHANGED <<at, req, pin_req_id>>
      BY DEF vars, tuple, rpc, history
    <3>2. Busy' = Busy
      BY <3>1 DEF Busy
    <3>3. Types' /\ Protocol'
      BY <3>1, <3>2, NoCall DEF IInv, Types
    <3> QED
      BY <3>1, <3>3, SameEntries DEF IInv
  <2> QED
    BY <2>1, <2>2
<1> QED
  BY InitIInv, <1>1, PTL DEF Spec

(* KeptIsKnown: whatever times out, and in whatever order calls are made   *)
(* and carried out, the registry forgets no request that the engine keeps, *)
(* for any number of queries, tuples and requests.                         *)
THEOREM KeptIsAlwaysKnown == Spec => []KeptIsKnown
<1>1. IInv => KeptIsKnown
  BY DEF IInv
<1> QED
  BY Invariance, <1>1, PTL

-----------------------------------------------------------------------------
(* That a tuple can rely on its pin.  While it does, nobody has asked for  *)
(* its request to be unpinned: its own call comes later, a cleanup asks    *)
(* for what its own query owns, and a request has one tuple only.          *)

(* What somebody asked for, and may still be carried out or struck. *)
Asked ==
  {r \in Requests : (\E j \in 1..Len(inbox) : r \in inbox[j].ids) \/ (\E c \in Callers : r \in ids[c])}

(* The tuples that count on their request. *)
Relying ==
  {t \in Tuples :
     \/ at[t] = "called"
     \/ at[t] \in {"second", "held"} /\ query[QueryOf[t]] = "running" /\ req[t] \notin forced}

Held ==
  /\ Asked \subseteq ended
  /\ \A r \in ended : owner[r] # None
  /\ \A t \in Tuples : req[t] # None => req[t] \in Requests /\ owner[req[t]] = QueryOf[t]
  /\ \A t, u \in Tuples : req[t] # None /\ req[t] = req[u] => t = u
  /\ \A t \in Tuples : at[t] \in {"called", "second", "held"} => req[t] # None
  /\ \A t \in Tuples : at[t] = "held" => pin_req_id[t] = req[t]
  /\ \A t \in Relying : req[t] \notin Asked /\ (req[t] \in ended => req[t] \in kept)
  /\ \A t \in Relying : at[t] = "called" <=> req[t] \notin entries

(* How the steps of the calls change what is asked for. *)
LEMMA AskedSame ==
  ASSUME UNCHANGED <<inbox, ids>>
  PROVE  Asked' = Asked
BY DEF Asked

\* A call asks for what it carries and for nothing else.
LEMMA AskedCalling ==
  ASSUME Protocol, NEW c \in Callers, NEW S \in SUBSET Requests, call_utility_async(c, S)
  PROVE  Asked' \subseteq Asked \cup S
<1>1. [from |-> c, ids |-> S] \in Call
  BY DEF Call
<1>m. inbox \in Seq(Call) /\ inbox' = Append(inbox, [from |-> c, ids |-> S])
  BY DEF Protocol, call_utility_async
<1>2. Len(inbox') = Len(inbox) + 1
  BY <1>1, <1>m, SMT
<1>3. ASSUME NEW j \in 1..Len(inbox')
      PROVE  (j \in 1..Len(inbox) /\ inbox'[j] = inbox[j]) \/ inbox'[j].ids = S
  BY <1>1, <1>m, <1>2, SMT
<1>4. \A d \in Callers : ids'[d] \in {ids[d], S}
  BY DEF Protocol, call_utility_async
<1>5. ASSUME NEW x \in Asked' PROVE x \in Asked \cup S
  <2>1. (\E j \in 1..Len(inbox') : x \in inbox'[j].ids) \/ \E d \in Callers : x \in ids'[d]
    BY DEF Asked
  <2>2. ASSUME NEW j \in 1..Len(inbox'), x \in inbox'[j].ids PROVE x \in Asked \cup S
    BY <1>3, <2>2 DEF Asked
  <2>3. ASSUME NEW d \in Callers, x \in ids'[d] PROVE x \in Asked \cup S
    BY <1>4, <2>3 DEF Asked
  <2> QED
    BY <2>1, <2>2, <2>3
<1> QED
  BY <1>5

\* The engine unpins what it was asked to and nothing else.
LEMMA AskedServing ==
  ASSUME Protocol, EngineUnpins
  PROVE  Asked' \subseteq Asked /\ kept \ Asked \subseteq kept'
<1>1. inbox \in Seq(Call) /\ inbox # <<>> /\ inbox' = Tail(inbox) /\ ids' = ids
  BY DEF Protocol, EngineUnpins
<1>2. Head(inbox) = inbox[1] /\ 1 \in 1..Len(inbox)
  BY <1>1, SMT
<1>3. \A j \in 1..Len(inbox') : j + 1 \in 1..Len(inbox) /\ inbox'[j] = inbox[j + 1]
  BY <1>1, SMT
<1>4. ASSUME NEW x \in Asked' PROVE x \in Asked
  <2>1. (\E j \in 1..Len(inbox') : x \in inbox'[j].ids) \/ \E d \in Callers : x \in ids'[d]
    BY DEF Asked
  <2>2. ASSUME NEW j \in 1..Len(inbox'), x \in inbox'[j].ids PROVE x \in Asked
    <3>1. PICK k \in 1..Len(inbox) : x \in inbox[k].ids
      BY <1>3, <2>2
    <3> QED
      BY <3>1 DEF Asked
  <2> QED
    BY <1>1, <2>1, <2>2 DEF Asked
<1>5. inbox[1] \in Call
  BY <1>1, <1>2, SMT
<1>6. inbox[1].ids \subseteq Asked /\ kept' = kept \ inbox[1].ids
  BY <1>2, <1>5 DEF Asked, Call, EngineUnpins
<1> QED
  BY <1>4, <1>6

\* A reply strikes from the registry what was asked for and nothing else.
LEMMA AskedAnswering ==
  ASSUME Protocol, NEW c \in Callers, Replied(c)
  PROVE  Asked' \subseteq Asked /\ entries \ Asked \subseteq entries' /\ entries' \subseteq entries
<1>1. inbox' = inbox /\ ids' = [ids EXCEPT ![c] = {}] /\ entries' = entries \ ids[c]
  BY DEF Replied
<1>2. \A d \in Callers : ids'[d] \subseteq ids[d]
  BY <1>1 DEF Protocol
<1>3. Asked' \subseteq Asked
  BY <1>1, <1>2 DEF Asked
<1>4. ids[c] \subseteq Asked
  BY DEF Asked, Protocol
<1> QED
  BY <1>1, <1>3, <1>4

\* A caller that gives up asks for nothing more.
LEMMA AskedGivingUp ==
  ASSUME Protocol, NEW c \in Callers, GiveUp(c)
  PROVE  Asked' \subseteq Asked
<1>1. inbox \in Seq(Call) /\ ids' = [ids EXCEPT ![c] = {}]
  BY DEF Protocol, GiveUp
<1>2. inbox' = [j \in 1..Len(inbox) |->
                  IF inbox[j].from = c THEN [inbox[j] EXCEPT !.from = Nobody] ELSE inbox[j]]
  BY <1>1, SMT DEF GiveUp
<1>3. ASSUME NEW j \in 1..Len(inbox) PROVE inbox'[j].ids = inbox[j].ids
  <2>1. inbox[j] \in Call
    BY <1>1, SMT
  <2> QED
    BY <1>2, <2>1 DEF Call
<1>4. Len(inbox') = Len(inbox)
  BY <1>1, <1>2, SMT
<1>5. \A d \in Callers : ids'[d] \subseteq ids[d]
  BY <1>1 DEF Protocol
<1> QED
  BY <1>3, <1>4, <1>5 DEF Asked

(* No other tuple has the request that a tuple relies on. *)
LEMMA OwnRequest ==
  ASSUME Held, NEW t \in Relying, NEW u \in Tuples, t # u
  PROVE  req[t] # None /\ req[t] # req[u]
BY DEF Held, Relying

(* Enough for a step that makes no request and ends none. *)
LEMMA StillHeld ==
  ASSUME Held, UNCHANGED <<owner, req, ended>>,
         Asked' \subseteq ended, kept \ Asked \subseteq kept',
         \A t \in Tuples : at'[t] \in {"called", "second", "held"} => at[t] \in {"called", "second", "held"},
         \A t \in Tuples : at'[t] = "held" => pin_req_id'[t] = req[t],
         \A t \in Relying' : /\ t \in Relying /\ req[t] \notin Asked'
                             /\ at'[t] = "called" <=> req[t] \notin entries'
  PROVE  Held'
<1>1. /\ Asked' \subseteq ended'
      /\ \A r \in ended' : owner'[r] # None
      /\ \A t \in Tuples : req'[t] # None => req'[t] \in Requests /\ owner'[req'[t]] = QueryOf[t]
      /\ \A t, u \in Tuples : req'[t] # None /\ req'[t] = req'[u] => t = u
  BY DEF Held
<1>2. /\ \A t \in Tuples : at'[t] \in {"called", "second", "held"} => req'[t] # None
      /\ \A t \in Tuples : at'[t] = "held" => pin_req_id'[t] = req'[t]
  BY DEF Held
<1>3. \A t \in Relying' : req'[t] \notin Asked' /\ (req'[t] \in ended' => req'[t] \in kept')
  BY DEF Held
<1>4. \A t \in Relying' : at'[t] = "called" <=> req'[t] \notin entries'
  OBVIOUS
<1> QED
  BY <1>1, <1>2, <1>3, <1>4 DEF Held

(* A step of a tuple. *)
LEMMA TupleHeld ==
  ASSUME IInv, Held, NEW t \in Tuples, TupleStep(t)
  PROVE  Held'
<1>a. Types /\ Protocol /\ Registry
  BY DEF IInv
<1>b. t \in Callers /\ ended \subseteq Requests /\ Asked \subseteq ended
  BY <1>a DEF Callers, Types, Held
<1>c. \A u \in Relying : u \in Tuples /\ req[u] \notin Asked /\ (at[u] = "called" <=> req[u] \notin entries)
  BY DEF Held, Relying
\* The other tuples rely on what they did.
<1>d. ASSUME NEW to \in Places, Move(t, to), UNCHANGED <<query, calling, req>>, forced \subseteq forced'
      PROVE  /\ at'[t] = to /\ \A u \in Tuples \ {t} : at'[u] = at[u]
             /\ \A u \in Relying' : u # t => u \in Relying
             /\ t \in Relying' => to \in {"called", "second", "held"}
  <2>1. at'[t] = to /\ \A u \in Tuples \ {t} : at'[u] = at[u]
    BY <1>a, <1>d, Moving
  <2> QED
    BY <1>d, <2>1 DEF Relying
<1>1. ASSUME NEW r \in Requests, Execute(t, r) PROVE Held'
  <2>1. /\ owner[r] = None /\ owner' = [owner EXCEPT ![r] = QueryOf[t]] /\ req' = [req EXCEPT ![t] = r]
        /\ Move(t, "called")
        /\ UNCHANGED <<ended, kept, entries, pin_req_id, query, calling, inbox, ids, forced>>
    BY <1>1 DEF Execute, rpc, history
  <2>u. UNCHANGED <<ended, kept, entries, pin_req_id, query, forced>>
    BY <2>1
  <2>2. at'[t] = "called" /\ \A u \in Tuples \ {t} : at'[u] = at[u]
    BY <1>a, <2>1, Moving DEF Places
  <2>3. req'[t] = r /\ \A u \in Tuples \ {t} : req'[u] = req[u]
    BY <1>a, <2>1 DEF Types
  <2>4. /\ owner'[r] = QueryOf[t] /\ QueryOf[t] # None /\ \A x \in Requests \ {r} : owner'[x] = owner[x]
        /\ \A u \in Tuples : QueryOf[u] # None
    BY <1>a, <2>1, QueryOfAssumption, NoneAssumption DEF Types
  <2>5. r \notin ended /\ r \notin Asked /\ r \notin entries /\ r # None
    BY <1>a, <1>b, <2>1, NoneAssumption DEF Held, Registry
  <2>6. \A u \in Tuples : req[u] # r
    BY <2>1, <2>4, <2>5, ZenonT(30) DEF Held
  <2>7. Asked' = Asked
    BY <2>1, AskedSame
  <2>8. \A u \in Relying' : u = t \/ u \in Relying
    BY <2>u, <2>2, <2>3 DEF Relying
  <2>9. /\ Asked' \subseteq ended'
        /\ \A x \in ended' : owner'[x] # None
    <3>1. \A x \in ended : x \in Requests \ {r} /\ owner[x] # None
      BY <1>b, <2>5 DEF Held
    <3> QED
      BY <1>b, <2>u, <2>4, <2>7, <3>1
  <2>10. /\ \A u \in Tuples : req'[u] # None => req'[u] \in Requests /\ owner'[req'[u]] = QueryOf[u]
         /\ \A u, v \in Tuples : req'[u] # None /\ req'[u] = req'[v] => u = v
    <3>1. ASSUME NEW u \in Tuples, req'[u] # None
          PROVE  req'[u] \in Requests /\ owner'[req'[u]] = QueryOf[u]
      <4>1. CASE u = t
        BY <2>3, <2>4, <4>1
      <4>2. CASE u # t
        <5>1. req[u] # None /\ req'[u] = req[u] /\ req[u] # r
          BY <2>3, <2>6, <3>1, <4>2
        <5>2. req[u] \in Requests /\ owner[req[u]] = QueryOf[u]
          BY <5>1 DEF Held
        <5> QED
          BY <2>4, <5>1, <5>2
      <4> QED
        BY <4>1, <4>2
    <3>2. ASSUME NEW u \in Tuples, NEW v \in Tuples, req'[u] # None, req'[u] = req'[v]
          PROVE  u = v
      <4>1. CASE u = t \/ v = t
        BY <2>3, <2>6, <3>2, <4>1
      <4>2. CASE u # t /\ v # t
        <5>1. req[u] # None /\ req[u] = req[v]
          BY <2>3, <3>2, <4>2
        <5> QED
          BY <5>1 DEF Held
      <4> QED
        BY <4>1, <4>2
    <3> QED
      BY <3>1, <3>2
  <2>11. /\ \A u \in Tuples : at'[u] \in {"called", "second", "held"} => req'[u] # None
         /\ \A u \in Tuples : at'[u] = "held" => pin_req_id'[u] = req'[u]
    BY <2>u, <2>2, <2>3, <2>5 DEF Held
  <2>12. /\ \A u \in Relying' : req'[u] \notin Asked' /\ (req'[u] \in ended' => req'[u] \in kept')
         /\ \A u \in Relying' : at'[u] = "called" <=> req'[u] \notin entries'
    <3> SUFFICES ASSUME NEW u \in Relying'
                 PROVE  /\ req'[u] \notin Asked' /\ (req'[u] \in ended' => req'[u] \in kept')
                        /\ at'[u] = "called" <=> req'[u] \notin entries'
      OBVIOUS
    <3>1. CASE u = t
      BY <2>u, <2>2, <2>3, <2>5, <2>7, <3>1
    <3>2. CASE u # t
      <4>1. u \in Relying /\ u \in Tuples
        BY <2>8, <3>2 DEF Relying
      <4>2. req'[u] = req[u] /\ at'[u] = at[u]
        BY <2>2, <2>3, <3>2, <4>1
      <4>3. /\ req[u] \notin Asked /\ (req[u] \in ended => req[u] \in kept)
            /\ at[u] = "called" <=> req[u] \notin entries
        BY <4>1 DEF Held
      <4> QED
        BY <2>u, <2>7, <4>2, <4>3
    <3> QED
      BY <3>1, <3>2
  <2> QED
    BY <2>9, <2>10, <2>11, <2>12 DEF Held
\* An answer, whichever operator gets it.
<1>e. ASSUME Answered(t), NEW to \in {"held", "second", "retry"}, Move(t, to)
      PROVE  /\ t \in Relying /\ req[t] \in ended /\ entries' = entries \cup {req[t]}
             /\ UNCHANGED <<owner, req, ended, kept, query, calling, forced>>
             /\ at'[t] = to /\ \A u \in Tuples \ {t} : at'[u] = at[u]
             /\ \A u \in Relying' : u \in Relying /\ (at'[u] = "called" <=> req[u] \notin entries')
             /\ (to = "retry" => t \notin Relying')
  <2>1. /\ at[t] = "called" /\ req[t] \in ended /\ entries' = entries \cup {req[t]}
        /\ UNCHANGED <<owner, req, ended, kept, query, calling, forced>>
    BY <1>e DEF Answered
  <2>2. t \in Relying
    BY <2>1 DEF Relying
  <2>3. /\ at'[t] = to /\ \A u \in Tuples \ {t} : at'[u] = at[u]
        /\ \A u \in Relying' : u # t => u \in Relying
        /\ t \in Relying' => to \in {"called", "second", "held"}
    BY <1>d, <1>e, <2>1 DEF Places
  <2>4. ASSUME NEW u \in Relying' PROVE u \in Relying /\ (at'[u] = "called" <=> req[u] \notin entries')
    <3>1. CASE u = t
      BY <2>1, <2>2, <2>3, <3>1
    <3>2. CASE u # t
      <4>1. u \in Relying /\ req[u] # req[t]
        BY <2>3, <3>2, OwnRequest
      <4> QED
        BY <1>c, <2>1, <2>3, <3>2, <4>1
    <3> QED
      BY <3>1, <3>2
  <2> QED
    BY <2>1, <2>2, <2>3, <2>4
<1>2. ASSUME PinAnswered(t) PROVE Held'
  <2>1. Answered(t) /\ Move(t, "held") /\ pin_req_id' = [pin_req_id EXCEPT ![t] = req[t]]
    BY <1>2 DEF PinAnswered
  <2>2. Asked' = Asked
    BY <1>2, AskedSame DEF PinAnswered, rpc
  <2>3. pin_req_id'[t] = req[t] /\ \A u \in Tuples \ {t} : pin_req_id'[u] = pin_req_id[u]
    BY <1>a, <2>1 DEF Registry
  <2>4. \A u \in Tuples : at'[u] = "held" => pin_req_id'[u] = req[u]
    BY <1>e, <2>1, <2>3 DEF Held
  <2>5. \A u \in Tuples : at'[u] \in {"called", "second", "held"} => at[u] \in {"called", "second", "held"}
    BY <1>e, <2>1 DEF Answered
  <2> QED
    BY <1>b, <1>c, <1>e, <2>1, <2>2, <2>4, <2>5, StillHeld
<1>3. ASSUME ClassifyAnswered(t) PROVE Held'
  <2>1. Answered(t) /\ Move(t, "second") /\ UNCHANGED pin_req_id
    BY <1>3 DEF ClassifyAnswered
  <2>2. Asked' = Asked
    BY <1>3, AskedSame DEF ClassifyAnswered, rpc
  <2>3. \A u \in Tuples : at'[u] = "held" => pin_req_id'[u] = req[u]
    BY <1>e, <2>1 DEF Held
  <2>4. \A u \in Tuples : at'[u] \in {"called", "second", "held"} => at[u] \in {"called", "second", "held"}
    BY <1>e, <2>1 DEF Answered
  <2> QED
    BY <1>b, <1>c, <1>e, <2>1, <2>2, <2>3, <2>4, StillHeld
<1>4. ASSUME MapAnswered(t) PROVE Held'
  <2>1. Answered(t) /\ Move(t, "retry") /\ UNCHANGED pin_req_id /\ call_utility_async(t, {req[t]})
    BY <1>4 DEF MapAnswered
  <2>2. req[t] \in ended /\ {req[t]} \in SUBSET Requests
    BY <1>b, <1>e, <2>1
  <2>3. Asked' \subseteq Asked \cup {req[t]}
    BY <1>a, <1>b, <2>1, <2>2, AskedCalling
  <2>4. \A u \in Tuples : at'[u] = "held" => pin_req_id'[u] = req[u]
    BY <1>e, <2>1 DEF Held
  <2>5. \A u \in Tuples : at'[u] \in {"called", "second", "held"} => at[u] \in {"called", "second", "held"}
    BY <1>e, <2>1
  <2>6. \A u \in Relying' : req[u] \notin Asked'
    BY <1>c, <1>e, <2>1, <2>3, OwnRequest
  <2> QED
    BY <1>b, <1>e, <2>1, <2>2, <2>3, <2>4, <2>5, <2>6, StillHeld
\* A step that keeps the registry, and after which the tuple is as before or does not rely on a pin.
<1>f. ASSUME NEW to \in Places, Move(t, to), UNCHANGED <<owner, req, ended, kept, query, calling, forced>>,
             to = "held" => at[t] \in {"second", "held"} /\ pin_req_id'[t] = req[t],
             to \notin {"called", "second"},
             \A u \in Tuples \ {t} : pin_req_id'[u] = pin_req_id[u],
             Asked' \subseteq ended, entries' \subseteq entries, entries \ Asked \subseteq entries',
             \A u \in Relying : u # t \/ to = "held" => req[u] \notin Asked'
      PROVE  Held'
  <2>1. /\ at'[t] = to /\ \A u \in Tuples \ {t} : at'[u] = at[u]
        /\ \A u \in Relying' : u # t => u \in Relying
        /\ t \in Relying' => to \in {"called", "second", "held"}
    BY <1>d, <1>f
  <2>2. t \in Relying' => t \in Relying /\ to = "held" /\ at[t] # "called"
    BY <1>f, <2>1 DEF Relying
  <2>3. ASSUME NEW u \in Relying' PROVE u \in Relying /\ req[u] \notin Asked' /\ (at'[u] = "called" <=> req[u] \notin entries')
    <3>1. u \in Relying /\ req[u] \notin Asked' /\ (at'[u] = "called" <=> at[u] = "called")
      BY <1>c, <1>f, <2>1, <2>2
    <3> QED
      BY <1>c, <1>f, <3>1
  <2>4. \A u \in Tuples : at'[u] = "held" => pin_req_id'[u] = req[u]
    BY <1>f, <2>1 DEF Held
  <2>5. \A u \in Tuples : at'[u] \in {"called", "second", "held"} => at[u] \in {"called", "second", "held"}
    BY <1>f, <2>1
  <2> QED
    BY <1>f, <2>3, <2>4, <2>5, StillHeld
<1>5. ASSUME SecondAnswered(t) PROVE Held'
  <2>1. /\ Move(t, "held") /\ at[t] = "second" /\ pin_req_id' = [pin_req_id EXCEPT ![t] = req[t]]
        /\ UNCHANGED <<owner, ended, kept, entries, req, query, calling, inbox, ids, forced>>
    BY <1>5 DEF SecondAnswered, rpc, history
  <2>2. pin_req_id'[t] = req[t] /\ \A u \in Tuples \ {t} : pin_req_id'[u] = pin_req_id[u]
    BY <1>a, <2>1 DEF Registry
  <2>3. Asked' = Asked /\ "held" \in Places
    BY <2>1, AskedSame DEF Places
  <2> QED
    BY <1>b, <1>c, <1>f, <2>1, <2>2, <2>3
<1>6. ASSUME CallRaises(t) PROVE Held'
  <2>1. /\ Move(t, "raised")
        /\ UNCHANGED <<owner, ended, kept, entries, req, pin_req_id, query, calling, inbox, ids, forced>>
    BY <1>6 DEF CallRaises, rpc
  <2>2. Asked' = Asked /\ "raised" \in Places
    BY <2>1, AskedSame DEF Places
  <2> QED
    BY <1>b, <1>c, <1>f, <2>1, <2>2
<1>7. ASSUME unpin(t) PROVE Held'
  <2>1. /\ Move(t, "unpinning") /\ at[t] = "held" /\ call_utility_async(t, {pin_req_id[t]})
        /\ UNCHANGED <<owner, ended, kept, entries, req, pin_req_id, query, calling, forced>>
    BY <1>7 DEF unpin, history
  <2>2. pin_req_id[t] = req[t] /\ req[t] \in ended /\ {pin_req_id[t]} \in SUBSET Requests
    BY <1>a, <1>b, <2>1 DEF Held, Registry
  <2>3. Asked' \subseteq Asked \cup {req[t]}
    BY <1>a, <1>b, <2>1, <2>2, AskedCalling
  <2>4. \A u \in Relying : u # t => req[u] \notin Asked'
    BY <1>c, <2>3, OwnRequest
  <2>5. "unpinning" \in Places
    BY DEF Places
  <2> QED
    BY <1>b, <1>f, <2>1, <2>2, <2>3, <2>4, <2>5
<1>8. ASSUME UnpinDone(t) PROVE Held'
  <2> DEFINE to == IF at[t] = "retry" THEN "idle" ELSE "done"
  <2>1. /\ Replied(t) /\ Move(t, to) /\ pin_req_id' = [pin_req_id EXCEPT ![t] = None]
        /\ UNCHANGED <<req, query, calling, forced>>
    BY <1>8 DEF UnpinDone, history
  <2>2. to \in Places /\ to \notin {"called", "second", "held"}
    BY DEF Places
  <2> HIDE DEF to
  <2>3. UNCHANGED <<owner, ended, kept>>
    BY <2>1 DEF Replied
  <2>4. Asked' \subseteq Asked /\ entries \ Asked \subseteq entries' /\ entries' \subseteq entries
    BY <1>a, <1>b, <2>1, AskedAnswering
  <2>5. \A u \in Tuples \ {t} : pin_req_id'[u] = pin_req_id[u]
    BY <1>a, <2>1 DEF Registry
  <2> QED
    BY <1>b, <1>c, <1>f, <2>1, <2>2, <2>3, <2>4, <2>5
<1>9. ASSUME Leave(t) PROVE Held'
  <2>1. /\ Move(t, "done")
        /\ UNCHANGED <<owner, ended, kept, entries, req, pin_req_id, query, calling, inbox, ids, forced>>
    BY <1>9 DEF Leave, rpc, history
  <2>2. Asked' = Asked /\ "done" \in Places
    BY <2>1, AskedSame DEF Places
  <2> QED
    BY <1>b, <1>c, <1>f, <2>1, <2>2
<1> QED
  BY <1>1, <1>2, <1>3, <1>4, <1>5, <1>6, <1>7, <1>8, <1>9 DEF TupleStep

(* A step of anybody else: the tuples stay where they are, and no more of  *)
(* them rely on their request.                                             *)
LEMMA OthersHeld ==
  ASSUME Held, UNCHANGED <<owner, ended, tuple>>,
         \A q \in Queries : query'[q] = "running" => query[q] = "running",
         forced \subseteq forced', kept \ Asked \subseteq kept',
         entries' \subseteq entries, entries \ Asked \subseteq entries',
         Asked' \subseteq ended, \A t \in Relying' : req[t] \notin Asked'
  PROVE  Held'
<1>1. UNCHANGED <<at, req, pin_req_id>>
  BY DEF tuple
<1>2. \A t \in Relying' : t \in Relying /\ (at'[t] = "called" <=> req[t] \notin entries')
  <2> SUFFICES ASSUME NEW t \in Relying'
               PROVE  t \in Relying /\ (at'[t] = "called" <=> req[t] \notin entries')
    OBVIOUS
  <2>1. t \in Tuples /\ QueryOf[t] \in Queries
    BY QueryOfAssumption DEF Relying
  <2>2. t \in Relying
    BY <1>1, <2>1 DEF Relying
  <2>3. req[t] \notin Asked /\ (at[t] = "called" <=> req[t] \notin entries)
    BY <2>2 DEF Held
  <2> QED
    BY <1>1, <2>2, <2>3
<1>3. \A t \in Tuples : at'[t] = "held" => pin_req_id'[t] = req[t]
  BY <1>1 DEF Held
<1> QED
  BY <1>1, <1>2, <1>3, StillHeld

(* The same when no more is asked for. *)
LEMMA NoMoreAsked ==
  ASSUME Held, UNCHANGED <<owner, ended, tuple>>,
         \A q \in Queries : query'[q] = "running" => query[q] = "running",
         forced \subseteq forced', kept \ Asked \subseteq kept',
         entries' \subseteq entries, entries \ Asked \subseteq entries', Asked' \subseteq Asked
  PROVE  Held'
<1>1. UNCHANGED <<at, req>>
  BY DEF tuple
<1>2. \A t \in Relying' : t \in Relying
  BY <1>1, QueryOfAssumption DEF Relying
<1>3. Asked' \subseteq ended /\ \A t \in Relying' : req[t] \notin Asked'
  BY <1>2 DEF Held
<1> QED
  BY <1>3, OthersHeld

\* A query that starts, ends or cleans up takes no pin of a running one.
LEMMA QueryHeld ==
  ASSUME IInv, Held, NEW q \in Queries, QueryStep(q)
  PROVE  Held'
<1>a. Types /\ Protocol /\ Registry
  BY DEF IInv
<1>b. q \in Callers /\ Asked \subseteq ended
  BY DEF Callers, Held
<1>c. ASSUME NEW to \in {"cleaning", "done"}, query' = [query EXCEPT ![q] = to]
      PROVE  query'[q] # "running" /\ \A p \in Queries : query'[p] = "running" => query[p] = "running"
  BY <1>a, <1>c DEF Types
<1>1. ASSUME _cleanup_query_pins(q) PROVE Held'
  <2>1. UNCHANGED <<owner, ended, kept, entries, tuple, forced>>
    BY <1>1 DEF _cleanup_query_pins, history
  <2>2. CASE list_by_owner(q) = {}
    <3>1. query' = [query EXCEPT ![q] = "done"] /\ UNCHANGED <<inbox, ids>>
      BY <1>1, <2>2 DEF _cleanup_query_pins, rpc
    <3> QED
      BY <1>c, <2>1, <3>1, AskedSame, NoMoreAsked
  <2>3. CASE list_by_owner(q) # {}
    <3>1. query' = [query EXCEPT ![q] = "cleaning"] /\ call_utility_async(q, list_by_owner(q))
      BY <1>1, <2>3 DEF _cleanup_query_pins
    <3>2. list_by_owner(q) \subseteq ended /\ list_by_owner(q) \in SUBSET Requests
      BY <1>a DEF list_by_owner, Registry, Types
    <3>3. Asked' \subseteq Asked \cup list_by_owner(q)
      BY <1>a, <1>b, <3>1, <3>2, AskedCalling
    <3>4. UNCHANGED <<at, req>>
      BY <2>1 DEF tuple
    <3>5. ASSUME NEW t \in Relying' PROVE req[t] \notin Asked'
      <4>1. t \in Relying /\ t \in Tuples /\ (at[t] # "called" => query'[QueryOf[t]] = "running")
        BY <1>c, <2>1, <3>1, <3>4, QueryOfAssumption DEF Relying
      <4>2. req[t] \notin Asked /\ req[t] # None /\ owner[req[t]] = QueryOf[t]
        BY <4>1 DEF Held, Relying
      <4>3. CASE at[t] = "called"
        <5>1. req[t] \notin entries
          BY <4>1, <4>3 DEF Held
        <5> QED
          BY <3>3, <4>2, <5>1 DEF list_by_owner
      <4>4. CASE at[t] # "called"
        <5>1. QueryOf[t] # q
          BY <1>c, <3>1, <4>1, <4>4
        <5> QED
          BY <3>3, <4>2, <5>1 DEF list_by_owner
      <4> QED
        BY <4>3, <4>4
    <3>6. Asked' \subseteq ended
      BY <1>b, <3>2, <3>3
    <3> QED
      BY <1>c, <2>1, <3>1, <3>5, <3>6, OthersHeld
  <2> QED
    BY <2>2, <2>3
<1>2. ASSUME CleanupDone(q) PROVE Held'
  <2>1. Replied(q) /\ query' = [query EXCEPT ![q] = "done"] /\ UNCHANGED <<tuple, forced>>
    BY <1>2 DEF CleanupDone, history
  <2>2. UNCHANGED <<owner, ended, kept>>
    BY <2>1 DEF Replied
  <2>3. Asked' \subseteq Asked /\ entries \ Asked \subseteq entries' /\ entries' \subseteq entries
    BY <1>a, <1>b, <2>1, AskedAnswering
  <2> QED
    BY <1>c, <2>1, <2>2, <2>3, NoMoreAsked
<1>3. ASSUME CleanupTimesOut(q) PROVE Held'
  <2>1. GiveUp(q) /\ query' = [query EXCEPT ![q] = "done"] /\ UNCHANGED forced
    BY <1>3 DEF CleanupTimesOut
  <2>2. UNCHANGED <<owner, ended, kept, entries, tuple>>
    BY <2>1 DEF GiveUp
  <2>3. Asked' \subseteq Asked
    BY <1>a, <1>b, <2>1, AskedGivingUp
  <2> QED
    BY <1>c, <2>1, <2>2, <2>3, NoMoreAsked
<1> QED
  BY <1>1, <1>2, <1>3 DEF QueryStep

\* What monitor and endpoint take is forced.
LEMMA MonitorHeld ==
  ASSUME IInv, Held,
         MonitorStep \/ CooledDown \/ EndpointStep \/ \E c \in {Monitor, Endpoint} : UnpinTimesOut(c)
  PROVE  Held'
<1>a. Types /\ Protocol /\ Registry
  BY DEF IInv
<1>b. Monitor \in Callers /\ Endpoint \in Callers /\ Asked \subseteq ended
  BY DEF Callers, Held
<1>1. ASSUME UNCHANGED <<owner, ended, kept, entries, tuple, query, inbox, ids, forced>> PROVE Held'
  BY <1>1, AskedSame, NoMoreAsked
<1>2. ASSUME NEW c \in {Monitor, Endpoint}, NEW S \in SUBSET entries, UnpinSet(c, S),
             UNCHANGED <<owner, ended, kept, entries, tuple, query>>
      PROVE  Held'
  <2>1. call_utility_async(c, S) /\ forced' = forced \cup S
    BY <1>2 DEF UnpinSet
  <2>2. S \subseteq ended /\ S \in SUBSET Requests
    BY <1>a DEF Registry, Types
  <2>3. Asked' \subseteq Asked \cup S
    BY <1>a, <1>b, <2>1, <2>2, AskedCalling
  <2>4. UNCHANGED <<at, req>>
    BY <1>2 DEF tuple
  <2>5. ASSUME NEW t \in Relying' PROVE req[t] \notin Asked'
    <3>1. t \in Relying /\ (at[t] = "called" \/ req[t] \notin forced')
      BY <1>2, <2>1, <2>4 DEF Relying
    <3>2. req[t] \notin Asked /\ (at[t] = "called" => req[t] \notin entries)
      BY <3>1 DEF Held
    <3> QED
      BY <2>1, <2>3, <3>1, <3>2
  <2>6. Asked' \subseteq ended
    BY <1>b, <2>2, <2>3
  <2> QED
    BY <1>2, <2>1, <2>5, <2>6, OthersHeld
<1>3. ASSUME NEW c \in {Monitor, Endpoint}, Replied(c), UNCHANGED <<tuple, query, forced>> PROVE Held'
  <2>1. UNCHANGED <<owner, ended, kept>>
    BY <1>3 DEF Replied
  <2>2. Asked' \subseteq Asked /\ entries \ Asked \subseteq entries' /\ entries' \subseteq entries
    BY <1>a, <1>b, <1>3, AskedAnswering
  <2> QED
    BY <1>3, <2>1, <2>2, NoMoreAsked
<1>4. ASSUME NEW c \in {Monitor, Endpoint}, UnpinTimesOut(c) PROVE Held'
  <2>1. GiveUp(c) /\ UNCHANGED <<query, forced>>
    BY <1>4 DEF UnpinTimesOut, history
  <2>2. UNCHANGED <<owner, ended, kept, entries, tuple>>
    BY <2>1 DEF GiveUp
  <2>3. Asked' \subseteq Asked
    BY <1>a, <1>b, <2>1, AskedGivingUp
  <2> QED
    BY <2>1, <2>2, <2>3, NoMoreAsked
<1>5. ASSUME MonitorStep PROVE Held'
  <2>1. CASE CheckFine
    BY <1>1, <2>1 DEF CheckFine, rpc, history
  <2>2. CASE CheckStuck \/ CheckTimesOut
    <3>1. /\ UNCHANGED <<owner, ended, kept, entries, tuple, query>>
          /\ UnpinSet(Monitor, entries) \/ UNCHANGED <<rpc, calling, history>>
      BY <2>2 DEF CheckStuck, CheckTimesOut, Relieve
    <3>2. CASE UnpinSet(Monitor, entries)
      BY <1>2, <3>1, <3>2
    <3>3. CASE UNCHANGED <<rpc, calling, history>>
      BY <1>1, <3>1, <3>3 DEF rpc, history
    <3> QED
      BY <3>1, <3>2, <3>3
  <2>3. CASE MonitorDone
    BY <1>3, <2>3 DEF MonitorDone, history
  <2> QED
    BY <1>5, <2>1, <2>2, <2>3 DEF MonitorStep
<1>6. ASSUME CooledDown PROVE Held'
  BY <1>1, <1>6 DEF CooledDown, rpc, history
<1>7. ASSUME EndpointStep PROVE Held'
  <2>1. CASE EndpointDone
    BY <1>3, <2>1 DEF EndpointDone, history
  <2>2. ASSUME NEW S \in SUBSET entries, unpin_pinned_requests(S) PROVE Held'
    BY <1>2, <2>2 DEF unpin_pinned_requests
  <2> QED
    BY <1>7, <2>1, <2>2 DEF EndpointStep
<1> QED
  BY <1>4, <1>5, <1>6, <1>7

\* The engine takes only the pins it was asked to.
LEMMA EngineHeld ==
  ASSUME IInv, Held, EngineUnpins \/ \E r \in Requests : EngineEnds(r)
  PROVE  Held'
<1>1. ASSUME EngineUnpins PROVE Held'
  <2>1. UNCHANGED <<owner, ended, entries, tuple, query, forced>>
    BY <1>1 DEF EngineUnpins, history
  <2>2. Asked' \subseteq Asked /\ kept \ Asked \subseteq kept'
    BY <1>1, AskedServing DEF IInv
  <2> QED
    BY <2>1, <2>2, NoMoreAsked
<1>2. ASSUME NEW r \in Requests, EngineEnds(r) PROVE Held'
  <2>1. /\ owner[r] # None /\ ended' = ended \cup {r} /\ kept' = kept \cup {r}
        /\ UNCHANGED <<owner, entries, at, req, pin_req_id, query, forced, inbox, ids>>
    BY <1>2 DEF EngineEnds, tuple, rpc, history
  <2>2. Asked' = Asked /\ Relying' = Relying
    BY <2>1, AskedSame DEF Relying
  <2>3. /\ Asked' \subseteq ended' /\ \A x \in ended' : owner'[x] # None
        /\ \A t \in Relying' : req'[t] \notin Asked' /\ (req'[t] \in ended' => req'[t] \in kept')
    BY <2>1, <2>2 DEF Held
  <2>4. /\ \A t \in Tuples : req'[t] # None => req'[t] \in Requests /\ owner'[req'[t]] = QueryOf[t]
        /\ \A t, u \in Tuples : req'[t] # None /\ req'[t] = req'[u] => t = u
        /\ \A t \in Tuples : at'[t] \in {"called", "second", "held"} => req'[t] # None
        /\ \A t \in Tuples : at'[t] = "held" => pin_req_id'[t] = req'[t]
        /\ \A t \in Relying' : at'[t] = "called" <=> req'[t] \notin entries'
    BY <2>1, <2>2 DEF Held
  <2> QED
    BY <2>3, <2>4 DEF Held
<1> QED
  BY <1>1, <1>2

\* No pin of a running query is asked for, unless it is forced.
LEMMA HeldInvariance == Spec => []Held
<1>1. ASSUME Init PROVE Held
  <2>1. /\ \A t \in Tuples : at[t] = "idle" /\ req[t] = None
        /\ ended = {} /\ inbox = <<>> /\ \A c \in Callers : ids[c] = {}
    BY <1>1 DEF Init
  <2>2. Asked = {}
    BY <2>1, SMT DEF Asked
  <2>3. Relying = {}
    BY <2>1 DEF Relying
  <2> QED
    BY <2>1, <2>2, <2>3 DEF Held
<1>2. IInv /\ Held /\ [Next]_vars => Held'
  <2>1. IInv /\ Held /\ Next => Held'
    BY TupleHeld, QueryHeld, MonitorHeld, EngineHeld DEF Next
  <2>2. ASSUME IInv, Held, UNCHANGED vars PROVE Held'
    <3>1. UNCHANGED <<owner, ended, kept, entries, tuple, query, inbox, ids, forced>>
      BY <2>2 DEF vars, rpc, history
    <3> QED
      BY <2>2, <3>1, AskedSame, NoMoreAsked
  <2> QED
    BY <2>1, <2>2
<1> QED
  BY Invariance, <1>1, <1>2, PTL DEF Spec

(* PinHeld: what a tuple of a running query holds pinned is kept and       *)
(* registered, whatever other queries, raised calls and timeouts do, for   *)
(* any number of queries, tuples and requests.                             *)
THEOREM PinIsHeld == Spec => []PinHeld
<1>1. IInv /\ Held => PinHeld
  <2> SUFFICES ASSUME IInv, Held, NEW t \in Tuples, at[t] = "held", query[QueryOf[t]] = "running",
                      pin_req_id[t] \notin forced
               PROVE  pin_req_id[t] \in kept \cap entries
    BY DEF PinHeld
  <2>1. pin_req_id[t] = req[t] /\ req[t] \in ended
    BY DEF Held, IInv, Registry
  <2>2. t \in Relying
    BY <2>1 DEF Relying
  <2> QED
    BY <2>1, <2>2 DEF Held
<1> QED
  BY Invariance, HeldInvariance, <1>1, PTL

-----------------------------------------------------------------------------
(* That a cleanup leaves nothing behind.  While it waits for its reply, it *)
(* has asked for all that its query has in the registry, but for what is   *)
(* excused; the reply finds none of it kept.                               *)

Excused == late \cup Awaited \cup lost

Settled ==
  /\ kept \subseteq Requests
  /\ \A q \in Queries : \A r \in kept \cup entries : owner[r] = q =>
       /\ query[q] = "cleaning" => r \in ids[q] \cup Excused
       /\ query[q] = "done" => r \in Excused \cup abandoned

(* Enough for a step of nobody's cleanup that makes no request and         *)
(* registers or ends none. *)
LEMMA StillSettled ==
  ASSUME Settled, UNCHANGED <<owner, query>>, kept' \subseteq kept, entries' \subseteq entries,
         \A q \in Queries : ids'[q] = ids[q],
         late \subseteq late', lost \subseteq lost', abandoned \subseteq abandoned',
         Awaited \subseteq Awaited' \cup lost'
  PROVE  Settled'
BY DEF Settled, Excused

(* Only a query sets what the query waits for. *)
LEMMA OthersCall ==
  ASSUME Protocol, NEW c \in Callers \ Queries, NEW S, ids' = [ids EXCEPT ![c] = S]
  PROVE  \A q \in Queries : ids'[q] = ids[q]
BY DEF Protocol, Callers

(* A step of a tuple. *)
LEMMA TupleSettled ==
  ASSUME IInv, Held, Settled, NEW t \in Tuples, TupleStep(t)
  PROVE  Settled'
<1>a. Types /\ Protocol /\ Registry
  BY DEF IInv
<1>b. t \in Callers \ Queries
  BY CallersAssumption DEF Callers
\* A tuple that is not waiting for its request moves.
<1>c. ASSUME NEW to \in Places, Move(t, to), at[t] # "called", UNCHANGED <<query, calling, req>>
      PROVE  Awaited \subseteq Awaited'
  <2>1. \A u \in Tuples \ {t} : at'[u] = at[u]
    BY <1>a, <1>c, Moving
  <2> QED
    BY <1>c, <2>1, Awaiting
<1>1. ASSUME NEW r \in Requests, Execute(t, r) PROVE Settled'
  <2>1. /\ owner' = [owner EXCEPT ![r] = QueryOf[t]] /\ query[QueryOf[t]] = "running"
        /\ Move(t, "called") /\ at[t] = "idle" /\ req' = [req EXCEPT ![t] = r]
        /\ UNCHANGED <<kept, entries, query, calling, ids, late, lost, abandoned>>
    BY <1>1 DEF Execute, rpc, history
  <2>2. owner'[r] = QueryOf[t] /\ \A x \in Requests \ {r} : owner'[x] = owner[x]
    BY <1>a, <2>1 DEF Types
  <2>3. at'[t] = "called" /\ \A u \in Tuples \ {t} : at'[u] = at[u]
    BY <1>a, <2>1, Moving DEF Places
  <2>4. \A u \in Tuples \ {t} : req'[u] = req[u]
    BY <1>a, <2>1 DEF Types
  <2>5. Awaited \subseteq Awaited'
    BY <2>1, <2>3, <2>4 DEF Awaited
  <2>6. kept \cup entries \subseteq Requests
    BY <1>a DEF Registry, Types, Settled
  <2> QED
    BY <2>1, <2>2, <2>5, <2>6 DEF Settled, Excused
\* An answer, whichever operator gets it.
<1>d. ASSUME Answered(t), NEW to \in {"held", "second", "retry"}, Move(t, to),
             \A q \in Queries : ids'[q] = ids[q]
      PROVE  Settled'
  <2>1. /\ at[t] = "called" /\ entries' = entries \cup {req[t]}
        /\ late' = IF query[QueryOf[t]] = "running" THEN late ELSE late \cup {req[t]}
        /\ UNCHANGED <<owner, kept, req, query, calling, lost, abandoned>>
    BY <1>d DEF Answered
  <2>2. \A u \in Tuples \ {t} : at'[u] = at[u]
    BY <1>a, <1>d, <2>1, Moving DEF Places
  <2>3. Awaited \ {req[t]} \subseteq Awaited'
    BY <2>1, <2>2, Awaiting
  <2>4. owner[req[t]] = QueryOf[t]
    BY <2>1 DEF Held
  <2>5. ASSUME NEW q \in Queries, NEW r \in kept' \cup entries', owner'[r] = q, query'[q] # "running"
        PROVE  /\ query'[q] = "cleaning" => r \in ids'[q] \cup Excused'
               /\ query'[q] = "done" => r \in Excused' \cup abandoned'
    <3>1. CASE r = req[t]
      <4>1. req[t] \in late'
        BY <2>1, <2>4, <2>5, <3>1
      <4> QED
        BY <3>1, <4>1 DEF Excused
    <3>2. CASE r # req[t]
      <4>1. r \in kept \cup entries /\ owner[r] = q
        BY <2>1, <2>5, <3>2
      <4>2. r \in Excused => r \in Excused'
        BY <2>1, <2>3, <3>2 DEF Excused
      <4> QED
        BY <1>d, <2>1, <4>1, <4>2 DEF Settled
    <3> QED
      BY <3>1, <3>2
  <2> QED
    BY <2>1, <2>5 DEF Settled
<1>2. ASSUME PinAnswered(t) PROVE Settled'
  BY <1>d, <1>2 DEF PinAnswered, rpc
<1>3. ASSUME ClassifyAnswered(t) PROVE Settled'
  BY <1>d, <1>3 DEF ClassifyAnswered, rpc
<1>4. ASSUME MapAnswered(t) PROVE Settled'
  <2>1. Answered(t) /\ Move(t, "retry") /\ ids' = [ids EXCEPT ![t] = {req[t]}]
    BY <1>4 DEF MapAnswered, call_utility_async
  <2>2. \A q \in Queries : ids'[q] = ids[q]
    BY <1>a, <1>b, <2>1, OthersCall
  <2> QED
    BY <1>d, <2>1, <2>2
<1>5. ASSUME SecondAnswered(t) PROVE Settled'
  <2>1. /\ Move(t, "held") /\ at[t] = "second"
        /\ UNCHANGED <<owner, kept, entries, req, query, calling, ids, late, lost, abandoned>>
    BY <1>5 DEF SecondAnswered, rpc, history
  <2>2. Awaited \subseteq Awaited'
    BY <1>c, <2>1 DEF Places
  <2> QED
    BY <2>1, <2>2, StillSettled
<1>6. ASSUME CallRaises(t) PROVE Settled'
  <2>1. /\ Move(t, "raised") /\ lost' = IF at[t] = "called" THEN lost \cup {req[t]} ELSE lost
        /\ UNCHANGED <<owner, kept, entries, req, query, calling, ids, late, abandoned>>
    BY <1>6 DEF CallRaises, rpc
  <2>2. \A u \in Tuples \ {t} : at'[u] = at[u]
    BY <1>a, <2>1, Moving DEF Places
  <2>3. Awaited \subseteq Awaited' \cup lost'
    BY <2>1, <2>2, Awaiting
  <2> QED
    BY <2>1, <2>3, StillSettled
<1>7. ASSUME unpin(t) PROVE Settled'
  <2>1. /\ Move(t, "unpinning") /\ at[t] = "held" /\ ids' = [ids EXCEPT ![t] = {pin_req_id[t]}]
        /\ UNCHANGED <<owner, kept, entries, req, query, calling, late, lost, abandoned>>
    BY <1>7 DEF unpin, call_utility_async, history
  <2>2. \A q \in Queries : ids'[q] = ids[q]
    BY <1>a, <1>b, <2>1, OthersCall
  <2>3. Awaited \subseteq Awaited'
    BY <1>c, <2>1 DEF Places
  <2> QED
    BY <2>1, <2>2, <2>3, StillSettled
<1>8. ASSUME UnpinDone(t) PROVE Settled'
  <2> DEFINE to == IF at[t] = "retry" THEN "idle" ELSE "done"
  <2>1. Replied(t) /\ Move(t, to) /\ UNCHANGED <<req, query, calling, late, lost, abandoned>>
    BY <1>8 DEF UnpinDone, history
  <2>2. to \in Places
    BY DEF Places
  <2> HIDE DEF to
  <2>3. /\ t \in replied /\ entries' = entries \ ids[t] /\ ids' = [ids EXCEPT ![t] = {}]
        /\ UNCHANGED <<owner, kept>>
    BY <2>1 DEF Replied
  <2>4. at[t] # "called"
    <3>1. t \in Busy
      BY <1>a, <2>3 DEF Protocol
    <3>2. at[t] \notin {"retry", "unpinning"} => t \notin Busy
      BY <1>a, <2>1, <2>2, Moving
    <3> QED
      BY <3>1, <3>2
  <2>5. Awaited \subseteq Awaited'
    BY <1>c, <2>1, <2>2, <2>4
  <2>6. \A q \in Queries : ids'[q] = ids[q]
    BY <1>a, <1>b, <2>3, OthersCall
  <2> QED
    BY <2>1, <2>3, <2>5, <2>6, StillSettled
<1>9. ASSUME Leave(t) PROVE Settled'
  <2>1. /\ Move(t, "done") /\ at[t] # "called"
        /\ UNCHANGED <<owner, kept, entries, req, query, calling, ids, late, lost, abandoned>>
    BY <1>9 DEF Leave, rpc, history
  <2>2. Awaited \subseteq Awaited'
    BY <1>c, <2>1 DEF Places
  <2> QED
    BY <2>1, <2>2, StillSettled
<1> QED
  BY <1>1, <1>2, <1>3, <1>4, <1>5, <1>6, <1>7, <1>8, <1>9 DEF TupleStep

(* A step of the cleanup of a query. *)
LEMMA QuerySettled ==
  ASSUME IInv, Settled, NEW q \in Queries, QueryStep(q)
  PROVE  Settled'
<1>a. Types /\ Protocol /\ Registry /\ KeptIsKnown
  BY DEF IInv
<1>b. q \in Callers /\ Queries \subseteq Callers
  BY DEF Callers
<1>c. ASSUME UNCHANGED <<tuple, late, lost>> PROVE Excused' = Excused
  BY <1>c DEF tuple, Excused, Awaited
<1>d. ASSUME NEW to, query' = [query EXCEPT ![q] = to]
      PROVE  query'[q] = to /\ \A p \in Queries \ {q} : query'[p] = query[p]
  BY <1>a, <1>d DEF Types
<1>e. ASSUME NEW S, ids' = [ids EXCEPT ![q] = S]
      PROVE  ids'[q] = S /\ \A p \in Queries \ {q} : ids'[p] = ids[p]
  BY <1>a, <1>b, <1>e DEF Protocol
<1>1. ASSUME _cleanup_query_pins(q) PROVE Settled'
  <2>1. UNCHANGED <<owner, kept, entries, tuple, late, lost, abandoned>>
    BY <1>1 DEF _cleanup_query_pins, history
  <2>2. Excused' = Excused
    BY <1>c, <2>1
  <2>3. \A r \in kept \cup entries : owner[r] = q => r \in list_by_owner(q) \cup Excused
    BY <1>a DEF list_by_owner, KeptIsKnown, Excused
  <2>4. CASE list_by_owner(q) = {}
    <3>1. query' = [query EXCEPT ![q] = "done"] /\ UNCHANGED ids
      BY <1>1, <2>4 DEF _cleanup_query_pins, rpc
    <3> QED
      BY <1>d, <2>1, <2>2, <2>3, <2>4, <3>1 DEF Settled
  <2>5. CASE list_by_owner(q) # {}
    <3>1. query' = [query EXCEPT ![q] = "cleaning"] /\ ids' = [ids EXCEPT ![q] = list_by_owner(q)]
      BY <1>1, <2>5 DEF _cleanup_query_pins, call_utility_async
    <3>2. query'[q] = "cleaning" /\ ids'[q] = list_by_owner(q)
      BY <1>d, <1>e, <3>1
    <3>3. \A p \in Queries \ {q} : query'[p] = query[p] /\ ids'[p] = ids[p]
      BY <1>d, <1>e, <3>1
    <3> QED
      BY <2>1, <2>2, <2>3, <3>2, <3>3 DEF Settled
  <2> QED
    BY <2>4, <2>5
<1>2. ASSUME CleanupDone(q) PROVE Settled'
  <2>1. Replied(q) /\ query' = [query EXCEPT ![q] = "done"] /\ UNCHANGED <<tuple, late, lost, abandoned>>
    BY <1>2 DEF CleanupDone, history
  <2>2. /\ q \in replied /\ entries' = entries \ ids[q] /\ ids' = [ids EXCEPT ![q] = {}]
        /\ UNCHANGED <<owner, kept>>
    BY <2>1 DEF Replied
  <2>3. ids[q] \cap kept = {} /\ query[q] = "cleaning"
    <3>1. q \in Busy
      BY <1>a, <2>2 DEF Protocol
    <3>2. q \notin Tuples /\ q \notin calling
      BY <1>a, CallersAssumption DEF Types
    <3> QED
      BY <1>a, <2>2, <3>1, <3>2 DEF Protocol, Busy
  <2>4. Excused' = Excused
    BY <1>c, <2>1
  <2>5. query'[q] = "done" /\ \A p \in Queries \ {q} : query'[p] = query[p] /\ ids'[p] = ids[p]
    BY <1>d, <1>e, <2>1, <2>2
  <2> QED
    BY <2>1, <2>2, <2>3, <2>4, <2>5 DEF Settled
<1>3. ASSUME CleanupTimesOut(q) PROVE Settled'
  <2>1. /\ GiveUp(q) /\ query[q] = "cleaning" /\ query' = [query EXCEPT ![q] = "done"]
        /\ abandoned' = abandoned \cup ids[q] /\ UNCHANGED <<late, lost>>
    BY <1>3 DEF CleanupTimesOut
  <2>2. ids' = [ids EXCEPT ![q] = {}] /\ UNCHANGED <<owner, kept, entries, tuple>>
    BY <2>1 DEF GiveUp
  <2>3. Excused' = Excused
    BY <1>c, <2>1, <2>2
  <2>4. query'[q] = "done" /\ \A p \in Queries \ {q} : query'[p] = query[p] /\ ids'[p] = ids[p]
    BY <1>d, <1>e, <2>1, <2>2
  <2> QED
    BY <2>1, <2>2, <2>3, <2>4 DEF Settled
<1> QED
  BY <1>1, <1>2, <1>3 DEF QueryStep

(* A step of the monitor or of the endpoint. *)
LEMMA MonitorSettled ==
  ASSUME IInv, Settled,
         MonitorStep \/ CooledDown \/ EndpointStep \/ \E c \in {Monitor, Endpoint} : UnpinTimesOut(c)
  PROVE  Settled'
<1>a. Protocol /\ {Monitor, Endpoint} \subseteq Callers \ Queries
  BY CallersAssumption DEF IInv, Callers
\* Only the list of the caller changes, and entries may go.
<1>b. ASSUME NEW c \in {Monitor, Endpoint}, NEW S, ids' = [ids EXCEPT ![c] = S] \/ UNCHANGED ids,
             entries' \subseteq entries, UNCHANGED <<owner, query, kept, tuple, late, lost, abandoned>>
      PROVE  Settled'
  <2>1. \A q \in Queries : ids'[q] = ids[q]
    BY <1>a, <1>b, OthersCall
  <2>2. Awaited' = Awaited
    BY <1>b DEF Awaited, tuple
  <2> QED
    BY <1>b, <2>1, <2>2, StillSettled
<1>1. ASSUME NEW c \in {Monitor, Endpoint}, Replied(c), UNCHANGED <<tuple, query, history>> PROVE Settled'
  BY <1>b, <1>1 DEF Replied, history
<1>2. ASSUME NEW c \in {Monitor, Endpoint}, UnpinTimesOut(c) PROVE Settled'
  BY <1>b, <1>2 DEF UnpinTimesOut, GiveUp, history
<1>3. ASSUME NEW n, Relieve(n) PROVE Settled'
  BY <1>b, <1>3 DEF Relieve, UnpinSet, call_utility_async, rpc, history
<1>4. ASSUME CheckFine \/ CooledDown PROVE Settled'
  BY <1>b, <1>4 DEF CheckFine, CooledDown, rpc, history
<1>5. ASSUME EndpointStep PROVE Settled'
  <2>1. ASSUME EndpointDone PROVE Settled'
    BY <1>1, <2>1 DEF EndpointDone
  <2>2. ASSUME NEW S \in SUBSET entries, unpin_pinned_requests(S) PROVE Settled'
    BY <1>b, <2>2 DEF unpin_pinned_requests, UnpinSet, call_utility_async
  <2> QED
    BY <1>5, <2>1, <2>2 DEF EndpointStep
<1>6. ASSUME MonitorStep PROVE Settled'
  <2>1. ASSUME MonitorDone PROVE Settled'
    BY <1>1, <2>1 DEF MonitorDone
  <2> QED
    BY <1>3, <1>4, <1>6, <2>1 DEF MonitorStep, CheckStuck, CheckTimesOut
<1> QED
  BY <1>2, <1>4, <1>5, <1>6

(* A step of the engine: a request that ends now is awaited, or lost. *)
LEMMA EngineSettled ==
  ASSUME IInv, Settled, EngineUnpins \/ \E r \in Requests : EngineEnds(r)
  PROVE  Settled'
<1>1. ASSUME EngineUnpins PROVE Settled'
  <2>1. kept' \subseteq kept /\ UNCHANGED <<owner, query, entries, tuple, ids, late, lost, abandoned>>
    BY <1>1 DEF EngineUnpins, history
  <2>2. Awaited' = Awaited
    BY <2>1 DEF Awaited, tuple
  <2> QED
    BY <2>1, <2>2, StillSettled
<1>2. ASSUME NEW r \in Requests, EngineEnds(r) PROVE Settled'
  <2>1. /\ owner[r] # None /\ r \notin ended /\ kept' = kept \cup {r}
        /\ UNCHANGED <<owner, query, entries, tuple, ids, late, lost, abandoned>>
    BY <1>2 DEF EngineEnds, rpc, history
  <2>2. Excused' = Excused
    BY <2>1 DEF Excused, Awaited, tuple
  <2>3. r \in Excused
    BY <2>1 DEF IInv, Registry, Excused
  <2> QED
    BY <2>1, <2>2, <2>3 DEF Settled
<1> QED
  BY <1>1, <1>2

(* When a query is over, nothing of it is kept or registered, but for what *)
(* is awaited or was registered by tuples left to run, what a raised call  *)
(* lost and what a cleanup that timed out abandoned                        *)
(* (_cleanup_query_pins, query_processor.py): for any number of queries,   *)
(* tuples, requests and timeouts.                                          *)
THEOREM CleanupAlwaysLeavesNothing == Spec => []CleanupLeavesNothing
<1>1. Init => Settled
  BY DEF Init, Settled
<1>2. IInv /\ Held /\ Settled /\ [Next]_vars => Settled'
  <2> SUFFICES ASSUME IInv, Held, Settled, [Next]_vars PROVE Settled'
    OBVIOUS
  <2>1. ASSUME UNCHANGED vars PROVE Settled'
    <3>1. UNCHANGED <<owner, query, kept, entries, tuple, ids, late, lost, abandoned>>
      BY <2>1 DEF vars, rpc, history
    <3>2. Awaited' = Awaited
      BY <3>1 DEF Awaited, tuple
    <3> QED
      BY <3>1, <3>2, StillSettled
  <2> QED
    BY <2>1, TupleSettled, QuerySettled, MonitorSettled, EngineSettled DEF Next
<1>3. Settled => CleanupLeavesNothing
  BY DEF Settled, Excused, CleanupLeavesNothing
<1> QED
  BY <1>1, <1>2, <1>3, Invariance, HeldInvariance, PTL DEF Spec
=============================================================================
