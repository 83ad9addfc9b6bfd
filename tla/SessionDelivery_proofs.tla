----------------------- MODULE SessionDelivery_proofs -----------------------
(***************************************************************************)
(* Lists of events of any length: what the operators of EventTable         *)
(* preserve.  Then the queue discipline of the session engine.  Then that  *)
(* nothing the CPE owes to the ACS gets lost: the session engine           *)
(* implements EventDelivery, keeps changed parameters and reports, and     *)
(* raises again what the file holds; and until the process first ends the  *)
(* records of the file are those of the pending events.  All of it for     *)
(* every set of session addresses, URLs, command keys and parameters and   *)
(* every bound.                                                            *)
(***************************************************************************)
EXTENDS SessionDelivery, SequenceLemmas


-----------------------------------------------------------------------------
(* Lists of events.                                                        *)

(* The fields of a container.                                              *)
LEMMA EventFields ==
    ASSUME NEW e \in Event
    PROVE  /\ e.code \in EventCode /\ e.code \in Nat
           /\ e.key \in Key /\ e.id \in Nat
           /\ e.params \in SUBSET Params /\ e.saved \in BOOLEAN
BY DEF Event, EventCode

(* The scan stops inside the list or just behind it, and every container   *)
(* before the stop has a code that is not larger and does not repeat a     *)
(* SINGLE code.                                                            *)
LEMMA StopProperties ==
    ASSUME NEW es \in Seq(Event), NEW c \in EventCode
    PROVE  /\ Stop(es, c) \in 1 .. Len(es) + 1
           /\ \A j \in 1 .. Len(es) : j < Stop(es, c) =>
                 es[j].code <= c /\ (c \in Single => es[j].code < c)
           /\ Stop(es, c) <= Len(es) =>
                 \/ es[Stop(es, c)].code > c
                 \/ es[Stop(es, c)].code = c /\ c \in Single
<1> DEFINE S == StopsAt(es, c) \union {Len(es) + 1}
<1>0. Len(es) \in Nat /\ \A j \in 1 .. Len(es) : es[j] \in Event
  BY LenProperties, ElementOfSeq
<1>1. \A j \in 1 .. Len(es) : es[j].code \in Nat
  BY <1>0, EventFields
<1>2. S \in SUBSET Nat /\ S # {}
  BY <1>0 DEF StopsAt
<1>3. Min(S) \in S /\ \A y \in S : Min(S) <= y
  BY <1>2, MinNat
<1>4. Stop(es, c) = Min(S)
  BY DEF Stop
<1> HIDE DEF S
<1>5. Stop(es, c) \in S /\ \A y \in S : Stop(es, c) <= y
  BY <1>3, <1>4
<1>6. Stop(es, c) \in 1 .. Len(es) + 1
  BY <1>0, <1>5 DEF S, StopsAt
<1>7. ASSUME NEW j \in 1 .. Len(es), j < Stop(es, c)
      PROVE  es[j].code <= c /\ (c \in Single => es[j].code < c)
  <2>1. j \notin S
    BY <1>0, <1>5, <1>6, <1>7
  <2>2. ~ (es[j].code > c) /\ ~ (es[j].code = c /\ c \in Single)
    BY <2>1 DEF S, StopsAt
  <2>3. es[j].code \in Nat /\ c \in Nat
    BY <1>1, SMTT(60) DEF EventCode
  <2> DEFINE x == es[j].code
  <2> HIDE DEF x
  <2>4. x <= c /\ (c \in Single => x < c)
    <3>1. ~ (x > c) /\ ~ (x = c /\ c \in Single) /\ x \in Nat /\ c \in Nat
      BY <2>2, <2>3 DEF x
    <3> QED
      BY <3>1
  <2> QED
    BY <2>4 DEF x
<1>8. ASSUME Stop(es, c) <= Len(es)
      PROVE  \/ es[Stop(es, c)].code > c
             \/ es[Stop(es, c)].code = c /\ c \in Single
  <2>1. Stop(es, c) # Len(es) + 1
    BY <1>0, <1>6, <1>8
  <2> QED
    BY <1>5, <2>1 DEF S, StopsAt
<1> QED
  BY <1>6, <1>7, <1>8

(* A list under construction.                                              *)
ListState == [evs : Seq(Event), id : Nat, at : Nat]

LEMMA NextIdType ==
    ASSUME NEW id \in Nat
    PROVE  NextId(id) \in Nat
BY MaxIntIdAssumption DEF NextId

LEMMA NewEventType ==
    ASSUME NEW c \in EventCode, NEW k \in Key, NEW id \in Nat
    PROVE  NewEvent(c, k, id) \in Event
BY DEF NewEvent, Event

(* Inserting an event before the first larger code keeps the order.        *)
LEMMA InsertOrdered ==
    ASSUME NEW es \in Seq(Event), NEW e \in Event, NEW p \in 1 .. Len(es) + 1,
           Ordered(es),
           \A j \in 1 .. Len(es) : j < p =>
               es[j].code <= e.code /\ (e.code \in Single => es[j].code < e.code),
           p <= Len(es) => es[p].code > e.code
    PROVE  /\ InsertAt(es, p, e) \in Seq(Event)
           /\ Len(InsertAt(es, p, e)) = Len(es) + 1
           /\ Ordered(InsertAt(es, p, e))
<1> DEFINE new == InsertAt(es, p, e)
           x(j) == es[j].code
           c == e.code
<1>1. /\ new \in Seq(Event) /\ Len(new) = Len(es) + 1
      /\ \A j \in 1 .. Len(es) + 1 :
            new[j] = IF j < p THEN es[j] ELSE IF j = p THEN e ELSE es[j - 1]
  BY InsertAtProperties
<1>2. /\ Len(es) \in Nat /\ c \in Nat
      /\ \A j \in 1 .. Len(es) : x(j) \in Nat
  BY LenProperties, ElementOfSeq, EventFields
<1>3. \A i, j \in 1 .. Len(es) :
          i < j => x(i) < x(j) \/ (x(i) = x(j) /\ x(i) \notin Single)
  BY DEF Ordered
<1>4. \A j \in 1 .. Len(es) : j < p => x(j) <= c /\ (c \in Single => x(j) < c)
  OBVIOUS
<1>5. p <= Len(es) => x(p) > c
  OBVIOUS
<1>6. \A j \in 1 .. Len(es) + 1 :
          new[j].code = IF j < p THEN x(j) ELSE IF j = p THEN c ELSE x(j - 1)
  BY <1>1
<1> HIDE DEF new, x, c
<1>7. \A j \in 1 .. Len(es) : j >= p => x(j) > c
  BY <1>2, <1>3, <1>5
<1>8. ASSUME NEW i \in 1 .. Len(es) + 1, NEW j \in 1 .. Len(es) + 1, i < j
      PROVE  \/ new[i].code < new[j].code
             \/ new[i].code = new[j].code /\ new[i].code \notin Single
  <2>1. CASE j < p
    <3>1. new[i].code = x(i) /\ new[j].code = x(j) /\ i \in 1 .. Len(es) /\ j \in 1 .. Len(es)
      BY <1>2, <1>6, <1>8, <2>1
    <3> QED
      BY <1>3, <1>8, <3>1
  <2>2. CASE j = p
    <3>1. new[i].code = x(i) /\ new[j].code = c /\ i \in 1 .. Len(es) /\ i < p
      BY <1>2, <1>6, <1>8, <2>2
    <3> QED
      BY <1>2, <1>4, <3>1
  <2>3. CASE i < p /\ j > p
    <3>1. /\ new[i].code = x(i) /\ new[j].code = x(j - 1)
          /\ i \in 1 .. Len(es) /\ j - 1 \in 1 .. Len(es) /\ i < j - 1
      BY <1>2, <1>6, <1>8, <2>3
    <3> QED
      BY <1>3, <3>1
  <2>4. CASE i = p
    <3>1. /\ new[i].code = c /\ new[j].code = x(j - 1)
          /\ j - 1 \in 1 .. Len(es) /\ j - 1 >= p
      BY <1>2, <1>6, <1>8, <2>4
    <3> QED
      BY <1>2, <1>7, <3>1
  <2>5. CASE i > p
    <3>1. /\ new[i].code = x(i - 1) /\ new[j].code = x(j - 1)
          /\ i - 1 \in 1 .. Len(es) /\ j - 1 \in 1 .. Len(es) /\ i - 1 < j - 1
      BY <1>2, <1>6, <1>8, <2>5
    <3> QED
      BY <1>3, <3>1
  <2> QED
    BY <1>2, <1>8, <2>1, <2>2, <2>3, <2>4, <2>5
<1>9. Ordered(new)
  BY <1>1, <1>8 DEF Ordered
<1> QED
  BY <1>1, <1>9 DEF new

(* cwmp_add_event_container returns a container of the list it leaves, and *)
(* that list stays sorted, with every SINGLE code at most once.            *)
THEOREM AddEventOrdered ==
    ASSUME NEW st \in ListState, NEW c \in EventCode, NEW k \in Key,
           Ordered(st.evs)
    PROVE  /\ AddEvent(st, c, k) \in ListState
           /\ AddEvent(st, c, k).at \in 1 .. Len(AddEvent(st, c, k).evs)
           /\ Ordered(AddEvent(st, c, k).evs)
<1> DEFINE es == st.evs
           p == Stop(es, c)
           e == NewEvent(c, k, NextId(st.id))
           new == InsertAt(es, p, e)
<1>1. es \in Seq(Event) /\ st.id \in Nat /\ Ordered(es)
  BY DEF ListState
<1>2. NextId(st.id) \in Nat
  BY <1>1, NextIdType
<1>3. e \in Event /\ e.code = c
  BY <1>2, NewEventType DEF NewEvent
<1> HIDE DEF es, e
<1>4. Len(es) \in Nat
  BY <1>1, LenProperties
<1>5. /\ p \in 1 .. Len(es) + 1
      /\ \A j \in 1 .. Len(es) : j < p =>
            es[j].code <= c /\ (c \in Single => es[j].code < c)
      /\ p <= Len(es) => es[p].code > c \/ (es[p].code = c /\ c \in Single)
  BY <1>1, StopProperties
<1>6. CASE Present(es, c)
  <2>1. AddEvent(st, c, k) = [evs |-> es, id |-> st.id, at |-> p]
    BY <1>6 DEF AddEvent, es
  <2>2. p <= Len(es)
    BY <1>6 DEF Present
  <2> HIDE DEF p
  <2>3. p \in Nat /\ p \in 1 .. Len(es)
    BY <1>4, <1>5, <2>2
  <2> QED
    BY <1>1, <2>1, <2>3 DEF ListState
<1>7. CASE ~ Present(es, c)
  <2>1. AddEvent(st, c, k) = [evs |-> new, id |-> NextId(st.id), at |-> p]
    BY <1>7 DEF AddEvent, es, e
  <2>2. p <= Len(es) => es[p].code > c
    BY <1>5, <1>7 DEF Present
  <2> HIDE DEF p
  <2>3. new \in Seq(Event) /\ Len(new) = Len(es) + 1 /\ Ordered(new)
    BY <1>1, <1>3, <1>5, <2>2, InsertOrdered
  <2> HIDE DEF new
  <2>4. p \in Nat /\ p \in 1 .. Len(new)
    BY <1>4, <1>5, <2>3
  <2> QED
    BY <1>2, <2>1, <2>3, <2>4 DEF ListState
<1> QED
  BY <1>6, <1>7

(* Removing a container leaves the list sorted.                            *)
LEMMA RemoveAtOrdered ==
    ASSUME NEW es \in Seq(Event), NEW i \in 1 .. Len(es), Ordered(es)
    PROVE  RemoveAt(es, i) \in Seq(Event) /\ Ordered(RemoveAt(es, i))
<1> DEFINE new == RemoveAt(es, i)
<1>1. /\ new \in Seq(Event) /\ Len(new) = Len(es) - 1
      /\ \A j \in 1 .. Len(es) - 1 : new[j] = IF j < i THEN es[j] ELSE es[j + 1]
  BY RemoveAtProperties
<1>2. Len(es) \in Nat
  BY LenProperties
<1> HIDE DEF new
<1>3. ASSUME NEW a \in 1 .. Len(new), NEW b \in 1 .. Len(new), a < b
      PROVE  \/ new[a].code < new[b].code
             \/ new[a].code = new[b].code /\ new[a].code \notin Single
  <2> DEFINE f(j) == IF j < i THEN j ELSE j + 1
  <2>1. a \in 1 .. Len(es) - 1 /\ b \in 1 .. Len(es) - 1
    BY <1>1
  <2>2. f(a) \in 1 .. Len(es) /\ f(b) \in 1 .. Len(es) /\ f(a) < f(b)
    BY <1>2, <1>3, <2>1
  <2>3. new[a] = es[f(a)] /\ new[b] = es[f(b)]
    BY <1>1, <2>1
  <2> HIDE DEF f
  <2> QED
    BY <2>2, <2>3 DEF Ordered
<1> QED
  BY <1>1, <1>3 DEF Ordered, new

LEMMA TailOrdered ==
    ASSUME NEW es \in Seq(Event), es # <<>>, Ordered(es)
    PROVE  Tail(es) \in Seq(Event) /\ Ordered(Tail(es))
<1>1. /\ Tail(es) \in Seq(Event) /\ Len(Tail(es)) = Len(es) - 1
      /\ \A i \in 1 .. Len(Tail(es)) : Tail(es)[i] = es[i + 1]
  BY HeadTailProperties
<1>2. Len(es) \in Nat
  BY LenProperties
<1>3. ASSUME NEW a \in 1 .. Len(Tail(es)), NEW b \in 1 .. Len(Tail(es)), a < b
      PROVE  \/ Tail(es)[a].code < Tail(es)[b].code
             \/ Tail(es)[a].code = Tail(es)[b].code /\ Tail(es)[a].code \notin Single
  <2>1. /\ Tail(es)[a] = es[a + 1] /\ Tail(es)[b] = es[b + 1]
        /\ a + 1 \in 1 .. Len(es) /\ b + 1 \in 1 .. Len(es) /\ a + 1 < b + 1
    BY <1>1, <1>2, <1>3
  <2> QED
    BY <2>1 DEF Ordered
<1> QED
  BY <1>1, <1>3 DEF Ordered

-----------------------------------------------------------------------------
(* The session engine.                                                     *)

(* Where the scheduler stands, with the session it holds.                  *)
Sending == Exchange \union {"endf", "ended", "close"}
Working == Sending \union Starting

Phase ==
    /\ pc \in Sending => session # NULL /\ send = session
    /\ pc \in {"merge", "mergeRpc"} => session # NULL /\ send = NULL /\ queue # <<>>
    /\ pc = "destroy" => session # NULL
    /\ pc \in {"prepare", "move"} =>
          /\ session # NULL /\ send = NULL
          /\ queue # <<>> /\ queue[1] = session
    /\ pc \in Idle \union {"presleep", "down"} => session = NULL /\ send = NULL
    /\ pc \in Starting => send = session
    /\ pc \in {"load", "boot", "grm", "port"} => send = NULL
    /\ pc \in {"load", "merge", "mergeRpc"} => idx \in Nat \ {0}

(* A queued session's RPCs, and those of the session being sent.           *)
Form(rs) == /\ rs # <<>>
            /\ \A i \in 1 .. Len(rs) : (rs[i].type = "Inform") = (i = 1)
Sent(rs) == \A i \in 2 .. Len(rs) : rs[i].type # "Inform"
SendRpcs == pc \in Working /\ session # NULL => Sent(rpcs[session])

(* InformFirst needs SendRpcs, because a failed session goes back to the   *)
(* queue; QueueShape needs Phase, because only the place of the scheduler  *)
(* says which session it holds.                                            *)
Inv == /\ TypeOK /\ QueueShape /\ Phase
       /\ InformFirst /\ SendRpcs /\ EventsOrdered

-----------------------------------------------------------------------------
(* The operators on lists of events and on the backup tree.                *)

Good(st) == /\ st \in ListState
            /\ st.at \in 1 .. Len(st.evs)
            /\ Ordered(st.evs)

LEMMA GoodAdd ==
    ASSUME NEW st \in ListState, Ordered(st.evs),
           NEW c \in EventCode, NEW k \in Key
    PROVE  Good(AddEvent(st, c, k))
BY AddEventOrdered DEF Good

(* Changing a container without changing its code keeps the list good.     *)
LEMMA GoodExcept ==
    ASSUME NEW st, Good(st), NEW e \in Event, e.code = st.evs[st.at].code
    PROVE  Good([st EXCEPT !.evs = [st.evs EXCEPT ![st.at] = e]])
<1> DEFINE es == [st.evs EXCEPT ![st.at] = e]
<1>1. st.evs \in Seq(Event) /\ st.at \in 1 .. Len(st.evs) /\ Ordered(st.evs)
      /\ st.id \in Nat /\ st.at \in Nat
  BY DEF Good, ListState
<1>2. /\ es \in Seq(Event) /\ Len(es) = Len(st.evs)
      /\ \A j \in 1 .. Len(st.evs) : es[j] = IF j = st.at THEN e ELSE st.evs[j]
  BY <1>1, ExceptSeq
<1> HIDE DEF es
<1>3. \A j \in 1 .. Len(st.evs) : es[j].code = st.evs[j].code
  BY <1>2
<1>4. Ordered(es)
  BY <1>1, <1>2, <1>3 DEF Ordered
<1>5. [st EXCEPT !.evs = es] = [evs |-> es, id |-> st.id, at |-> st.at]
  BY DEF Good, ListState
<1> QED
  BY <1>1, <1>2, <1>4, <1>5 DEF Good, ListState, es

LEMMA GoodAt ==
    ASSUME NEW st, Good(st)
    PROVE  /\ st.evs \in Seq(Event) /\ st.id \in Nat /\ Ordered(st.evs)
           /\ st.at \in 1 .. Len(st.evs)
           /\ st.evs[st.at] \in Event
           /\ st \in ListState
BY ElementOfSeq DEF Good, ListState

LEMMA GoodSaved ==
    ASSUME NEW st, Good(st)
    PROVE  Good(Saved(st))
<1> DEFINE e == [st.evs[st.at] EXCEPT !.saved = TRUE]
<1>1. e \in Event /\ e.code = st.evs[st.at].code
  BY GoodAt DEF Event
<1>2. [st.evs EXCEPT ![st.at].saved = TRUE] = [st.evs EXCEPT ![st.at] = e]
  OBVIOUS
<1> QED
  BY <1>1, <1>2, GoodExcept DEF Saved

LEMMA GoodSpliced ==
    ASSUME NEW st, Good(st), NEW ps \in SUBSET Params
    PROVE  Good(Spliced(st, ps))
<1> DEFINE e == [st.evs[st.at] EXCEPT !.params = @ \union ps]
<1> DEFINE x == st.evs[st.at]
<1>1. e \in Event /\ e.code = st.evs[st.at].code
  <2>1. x \in Event
    BY GoodAt
  <2> HIDE DEF x
  <2>2. /\ [x EXCEPT !.params = @ \union ps] \in Event
        /\ [x EXCEPT !.params = @ \union ps].code = x.code
    BY <2>1 DEF Event
  <2> QED
    BY <2>2 DEF x
<1> HIDE DEF x
<1>2. [st.evs EXCEPT ![st.at].params = @ \union ps] = [st.evs EXCEPT ![st.at] = e]
  OBVIOUS
<1> QED
  BY <1>1, <1>2, GoodExcept DEF Spliced

LEMMA GoodLoaded ==
    ASSUME NEW n \in Node, Here \in ListState, Ordered(Here.evs)
    PROVE  Good(Loaded(n))
<1> DEFINE st == AddEvent(Here, n.code, n.key)
           e == [st.evs[st.at] EXCEPT !.id = n.id, !.saved = TRUE]
<1>0. n.code \in EventCode /\ n.key \in Key /\ n.id \in Nat
  BY DEF Node
<1>1. Good(st)
  BY <1>0, GoodAdd
<1> HIDE DEF st
<1>2. e \in Event /\ e.code = st.evs[st.at].code
  BY <1>0, <1>1, GoodAt DEF Event
<1>3. [st.evs EXCEPT ![st.at].id = n.id, ![st.at].saved = TRUE]
         = [st.evs EXCEPT ![st.at] = e]
  BY <1>1, GoodAt
<1> QED
  BY <1>1, <1>2, <1>3, GoodExcept DEF Loaded, st

LEMMA RemoveFirstOfType ==
    ASSUME NEW S, NEW t \in Seq(S), NEW I \in SUBSET (1 .. Len(t))
    PROVE  RemoveFirstOf(t, I) \in Seq(S)
<1>1. CASE I = {}
  BY <1>1 DEF RemoveFirstOf
<1>2. CASE I # {}
  <2>1. I \in SUBSET Nat
    BY LenProperties
  <2>2. Min(I) \in 1 .. Len(t)
    BY <1>2, <2>1, MinNat
  <2> QED
    BY <1>2, <2>2, RemoveAtProperties DEF RemoveFirstOf
<1> QED
  BY <1>1, <1>2

LEMMA TreeOps ==
    ASSUME NEW t \in Seq(Node)
    PROVE  /\ \A e \in Event : bkp_session_insert_event(t, e) \in Seq(Node)
           /\ \A id, name : bkp_session_delete_event(t, id, name) \in Seq(Node)
           /\ \A c \in EventCode, k \in Key :
                 /\ bkp_session_insert_transfer_complete(t, c, k) \in Seq(Node)
                 /\ bkp_session_delete_transfer_complete(t, c, k) \in Seq(Node)
                 /\ bkp_session_insert_du_state_change_complete(t, k) \in Seq(Node)
           /\ bkp_session_move_inform_to_inform_send(t) \in Seq(Node)
           /\ bkp_session_move_inform_to_inform_queue(t) \in Seq(Node)
<1>0. Len(t) \in Nat /\ \A i \in 1 .. Len(t) : t[i] \in Node
  BY LenProperties, ElementOfSeq
<1>1. ASSUME NEW e \in Event PROVE bkp_session_insert_event(t, e) \in Seq(Node)
  <2>1. [name |-> "queue_event", id |-> e.id, code |-> e.code, key |-> e.key] \in Node
    BY EventFields DEF Node, EventName
  <2> QED
    BY <2>1, AppendProperties DEF bkp_session_insert_event
<1>2. ASSUME NEW id, NEW name
      PROVE  bkp_session_delete_event(t, id, name) \in Seq(Node)
  BY RemoveFirstOfType DEF bkp_session_delete_event, Matches
<1>3. ASSUME NEW c \in EventCode, NEW k \in Key
      PROVE  /\ bkp_session_insert_transfer_complete(t, c, k) \in Seq(Node)
             /\ bkp_session_delete_transfer_complete(t, c, k) \in Seq(Node)
             /\ bkp_session_insert_du_state_change_complete(t, k) \in Seq(Node)
  <2>1. /\ [name |-> "transfer_complete", id |-> 0, code |-> c, key |-> k] \in Node
        /\ [name |-> "transfer_complete", id |-> 0,
            code |-> M_ChangeDUState, key |-> k] \in Node
    BY DEF Node, EventCode, M_ChangeDUState
  <2>2. bkp_session_delete_transfer_complete(t, c, k) \in Seq(Node)
    BY RemoveFirstOfType DEF bkp_session_delete_transfer_complete, Transfers
  <2> QED
    BY <2>1, <2>2, AppendProperties DEF bkp_session_insert_transfer_complete,
       bkp_session_insert_du_state_change_complete
<1>4. ASSUME NEW old, NEW new \in EventName
      PROVE  Rename(t, old, new) \in Seq(Node)
  <2>1. \A i \in 1 .. Len(t) :
           (IF t[i].name = old THEN [t[i] EXCEPT !.name = new] ELSE t[i]) \in Node
    BY <1>0 DEF Node
  <2> QED
    BY <1>0, <2>1 DEF Rename
<1> QED
  BY <1>1, <1>2, <1>3, <1>4 DEF EventName, bkp_session_move_inform_to_inform_send,
     bkp_session_move_inform_to_inform_queue

LEMMA TreeExcept ==
    ASSUME NEW t \in Tree, NEW nodes \in Seq(Node)
    PROVE  [t EXCEPT !.nodes = nodes] \in Tree
BY DEF Tree

-----------------------------------------------------------------------------
(* The queued session before and after a critical section.                 *)

LEMMA HereGood ==
    ASSUME Inv
    PROVE  /\ Here \in ListState /\ Ordered(Here.evs)
           /\ QueuedRpcs \in Seq(Rpc) /\ Form(QueuedRpcs)
<1>1. CASE head = NULL
  <2>1. Inform \in Rpc /\ Inform.type = "Inform"
    BY DEF Inform, Rpc, EventCode, BOOTSTRAP, Key
  <2>2. QueuedEvents = <<>> /\ QueuedRpcs = <<Inform>>
    BY <1>1 DEF QueuedEvents, QueuedRpcs
  <2> QED
    BY <2>1, <2>2 DEF Here, ListState, Ordered, Form, Inv, TypeOK
<1>2. CASE head # NULL
  <2>1. head \in Sid /\ queue # <<>> /\ queue[1] = head /\ queue \in Seq(Sid)
    BY <1>2 DEF Inv, TypeOK, QueueShape
  <2>2. head \in ToSet(queue)
    BY <2>1, LenProperties DEF ToSet
  <2>3. /\ QueuedEvents = events[head] /\ QueuedEvents \in Seq(Event)
        /\ QueuedRpcs = rpcs[head] /\ QueuedRpcs \in Seq(Rpc)
    BY <1>2, <2>1 DEF QueuedEvents, QueuedRpcs, Inv, TypeOK
  <2>4. Ordered(events[head])
    BY <2>2 DEF Inv, EventsOrdered, Live
  <2>5. Form(rpcs[head])
    BY <2>2 DEF Inv, InformFirst, Form
  <2> QED
    BY <2>3, <2>4, <2>5 DEF Here, ListState, Inv, TypeOK
<1> QED
  BY <1>1, <1>2

(* The session of a critical section is queued, alone, and it is another   *)
(* session than the scheduler's - unless the scheduler is about to take it.*)
TargetOK ==
    /\ Target \in Sid
    /\ Target # send
    /\ pc \notin {"prepare", "move"} => Target # session
    /\ head # NULL => Target = head /\ queue = <<Target>>
    /\ head = NULL => queue = <<>> /\ Target # session

LEMMA NonEmpty ==
    ASSUME NEW S, NEW s \in Seq(S), s # <<>>
    PROVE  Len(s) \in Nat \ {0}
BY EmptySeq

LEMMA TargetFacts ==
    ASSUME Inv
    PROVE  TargetOK
<1>1. CASE head = NULL
  <2>1. queue = <<>> /\ ToSet(queue) = {}
    BY <1>1 DEF Inv, QueueShape, ToSet
  <2>2. Sid \ {send, session} # {}
    BY SidAssumption DEF Inv, TypeOK
  <2>3. Target = CHOOSE s \in Sid \ {send, session} : s \notin ToSet(queue)
    BY <1>1 DEF Target
  <2>4. \E s \in Sid \ {send, session} : s \notin ToSet(queue)
    BY <2>1, <2>2
  <2>5. Target \in Sid \ {send, session}
    BY <2>3, <2>4
  <2> QED
    BY <1>1, <2>1, <2>5 DEF TargetOK
<1>2. CASE head # NULL
  <2>1. /\ head \in Sid /\ queue \in Seq(Sid) /\ queue # <<>> /\ Len(queue) <= 1
        /\ queue[1] = head /\ send \notin ToSet(queue)
        /\ pc \notin {"prepare", "move"} => head # session
    BY <1>2 DEF Inv, TypeOK, QueueShape
  <2>2. Len(queue) \in Nat \ {0}
    BY <2>1, NonEmpty
  <2>3. queue = <<head>>
    <3> DEFINE n == Len(queue)
    <3>0. n \in Nat \ {0} /\ n <= 1
      BY <2>1, <2>2
    <3> HIDE DEF n
    <3>1. n = 1
      BY <3>0
    <3> USE DEF n
    <3> QED
      BY <2>1, <3>1
  <2>4. head # send
    BY <2>1, <2>3 DEF ToSet
  <2> QED
    BY <1>2, <2>1, <2>3, <2>4 DEF Target, TargetOK
<1> QED
  BY <1>1, <1>2

LEMMA ToSetSingle ==
    ASSUME NEW x
    PROVE  ToSet(<<x>>) = {x} /\ Len(<<x>>) = 1 /\ <<x>>[1] = x /\ <<x>> # <<>>
<1>1. DOMAIN <<x>> = {1} /\ <<x>>[1] = x
  OBVIOUS
<1> QED
  BY <1>1 DEF ToSet

LEMMA ToSetType ==
    ASSUME NEW S, NEW t \in Seq(S)
    PROVE  \A x \in ToSet(t) : x \in S
<1>1. \A i \in DOMAIN t : t[i] \in S
  BY ElementOfSeq, LenProperties
<1> QED
  BY <1>1 DEF ToSet

QueuedOK(st, rs) ==
    /\ queue' = <<Target>> /\ head' = Target
    /\ events' \in [Sid -> Seq(Event)]
    /\ events'[Target] = st.evs
    /\ \A s \in Sid : s # Target => events'[s] = events[s]
    /\ rpcs' \in [Sid -> Seq(Rpc)]
    /\ rpcs'[Target] = rs
    /\ \A s \in Sid : s # Target => rpcs'[s] = rpcs[s]
    /\ nextId' \in Nat

LEMMA QueuedFacts ==
    ASSUME Inv, NEW st, Good(st), NEW rs \in Seq(Rpc), Form(rs), Queued(st, rs)
    PROVE  QueuedOK(st, rs)
<1>1. st.evs \in Seq(Event) /\ st.id \in Nat
  BY GoodAt
<1>2. TargetOK
  BY TargetFacts
<1>3. queue' = <<Target>> /\ head' = Target
  <2>1. Append(<<>>, Target) = <<Target>>
    OBVIOUS
  <2> QED
    BY <1>2, <2>1 DEF TargetOK, Queued, cwmp_add_queue_session
<1>4. Target \in Sid
  BY <1>2 DEF TargetOK
<1>5. events \in [Sid -> Seq(Event)] /\ rpcs \in [Sid -> Seq(Rpc)]
  BY DEF Inv, TypeOK
<1>6. /\ events' = [events EXCEPT ![Target] = st.evs]
      /\ rpcs' = [rpcs EXCEPT ![Target] = rs] /\ nextId' = st.id
  BY DEF Queued
<1> HIDE DEF Target
<1> QED
  BY <1>1, <1>3, <1>4, <1>5, <1>6 DEF QueuedOK

(* What a step has to establish besides the shape of the queue.            *)
Rest ==
    /\ send \in Sid \union {NULL} /\ session \in Sid \union {NULL}
    /\ ends \in [Sid -> SUBSET EndFlag]
    /\ vc \in SUBSET Param /\ url \in Url
    /\ pc \in Pc /\ pc # "fatal"
    /\ retry \in BOOLEAN /\ err \in {"OK", "RETRY"} /\ crEvent \in {0, 1}
    /\ retryCount \in 0 .. MaxRetry /\ reqs \in 0 .. MaxReq /\ idx \in Nat
    /\ npc \in {"idle", "raise"}
    /\ bkp \in Tree /\ file \in Tree /\ restarts \in Nat

(* Every critical section of a producer, and every step of the scheduler   *)
(* that adds to the queued session, keeps the invariant.                   *)
LEMMA QueuedInv ==
    ASSUME Inv, NEW st, Good(st), NEW rs \in Seq(Rpc), Form(rs), Queued(st, rs),
           send' = send, session' = session,
           Rest', Phase',
           pc \in {"prepare", "move"} => pc' \in {"prepare", "move"},
           pc' \in Working /\ session # NULL => pc \in Working
    PROVE  Inv'
<1>0. QueuedOK(st, rs) /\ TargetOK /\ Ordered(st.evs)
  BY QueuedFacts, TargetFacts, GoodAt
<1>1. /\ queue' = <<Target>> /\ head' = Target /\ Target \in Sid
      /\ ToSet(queue') = {Target} /\ Len(queue') = 1
      /\ queue'[1] = Target /\ queue' # <<>>
  BY <1>0, ToSetSingle DEF QueuedOK, TargetOK
<1>2. TypeOK'
  <2>1. queue' \in Seq(Sid)
    BY <1>1
  <2> QED
    BY <1>0, <1>1, <2>1 DEF QueuedOK, TypeOK, Rest
<1>3. QueueShape'
  <2>1. head' # NULL
    BY <1>1, SidAssumption
  <2>2. send # NULL => send = session
    BY DEF Inv, QueueShape
  <2>3. Target # send /\ (pc' \notin {"prepare", "move"} => Target # session)
    BY <1>0 DEF TargetOK
  <2> QED
    BY <1>1, <2>1, <2>2, <2>3 DEF QueueShape, Rest
<1>4. InformFirst'
  BY <1>0, <1>1 DEF InformFirst, Form, QueuedOK
<1>5. SendRpcs'
  <2> SUFFICES ASSUME pc' \in Working, session # NULL
               PROVE  Sent(rpcs'[session])
    BY DEF SendRpcs
  <2>1. pc \in Working /\ session \in Sid
    BY DEF Inv, TypeOK
  <2>2. session # Target
    BY <1>0, <2>1 DEF TargetOK, Working, Sending, Exchange, Starting
  <2>3. rpcs'[session] = rpcs[session]
    BY <1>0, <2>1, <2>2 DEF QueuedOK
  <2> QED
    BY <2>1, <2>3 DEF Inv, SendRpcs
<1>6. EventsOrdered'
  <2> SUFFICES ASSUME NEW s \in Live' PROVE Ordered(events'[s])
    BY DEF EventsOrdered
  <2>1. CASE s = Target
    BY <1>0, <2>1 DEF QueuedOK
  <2>2. CASE s # Target
    <3>1. s \in {send, session} \ {NULL}
      BY <1>1, <2>2 DEF Live
    <3>2. s \in Live /\ s \in Sid
      BY <3>1 DEF Live, Inv, TypeOK
    <3> QED
      BY <1>0, <2>2, <3>2 DEF Inv, EventsOrdered, QueuedOK
  <2> QED
    BY <2>1, <2>2
<1> QED
  BY <1>2, <1>3, <1>4, <1>5, <1>6 DEF Inv

(* A step that leaves the queue alone.                                     *)
LEMMA SameQueueInv ==
    ASSUME Inv,
           queue' = queue, head' = head, nextId' \in Nat,
           events' \in [Sid -> Seq(Event)], rpcs' \in [Sid -> Seq(Rpc)],
           Rest', Phase',
           send' # NULL => send' = session', send' \notin ToSet(queue),
           queue # <<>> /\ pc' \notin {"prepare", "move"} => head # session',
           \A s \in ToSet(queue) : rpcs'[s] = rpcs[s] \/ Form(rpcs'[s]),
           SendRpcs',
           \A s \in Live' : Ordered(events'[s])
    PROVE  Inv'
<1>1. TypeOK'
  BY DEF TypeOK, Rest, Inv
<1>2. QueueShape'
  BY DEF QueueShape, Inv, Rest
<1>3. InformFirst'
  BY DEF InformFirst, Form, Inv
<1>4. EventsOrdered'
  BY DEF EventsOrdered
<1> QED
  BY <1>1, <1>2, <1>3, <1>4 DEF Inv

(* A step of the scheduler that changes no list and keeps its session.     *)
LEMMA StillInv ==
    ASSUME Inv, UNCHANGED queueVars, send' = send, session' = session,
           Rest', Phase',
           pc \in {"prepare", "move"} => pc' \in {"prepare", "move"},
           pc' \in Working /\ session # NULL => pc \in Working
    PROVE  Inv'
<1>1. /\ queue' = queue /\ head' = head /\ nextId' = nextId
      /\ events' = events /\ rpcs' = rpcs
  BY DEF queueVars
<1>2. /\ nextId \in Nat /\ events \in [Sid -> Seq(Event)] /\ rpcs \in [Sid -> Seq(Rpc)]
      /\ send # NULL => send = session
      /\ send \notin ToSet(queue)
      /\ queue # <<>> /\ pc \notin {"prepare", "move"} => head # session
  BY DEF Inv, TypeOK, QueueShape
<1>3. SendRpcs'
  BY <1>1 DEF SendRpcs, Inv
<1>4. \A s \in Live' : Ordered(events'[s])
  BY <1>1 DEF Live, EventsOrdered, Inv
<1>5. queue # <<>> /\ pc' \notin {"prepare", "move"} => head # session'
  BY <1>2
<1> QED
  BY <1>1, <1>2, <1>3, <1>4, <1>5, SameQueueInv

-----------------------------------------------------------------------------
(* The critical sections.  Raised: the queued session is as Queued leaves  *)
(* it, and the backup is a tree.                                           *)
Raised(rs) == /\ \E st : Good(st) /\ Queued(st, rs)
              /\ bkp' \in Tree /\ file' \in Tree

LEMMA SavedNodesType ==
    ASSUME NEW st, Good(st), NEW nodes \in Seq(Node)
    PROVE  SavedNodes(st, nodes) \in Seq(Node)
BY GoodAt, TreeOps DEF SavedNodes

LEMMA TreeNodes ==
    ASSUME NEW t \in Tree
    PROVE  t.nodes \in Seq(Node) /\ t.acs \in Url \union {NULL}
BY DEF Tree

LEMMA BkpTypes ==
    ASSUME Inv
    PROVE  bkp \in Tree /\ file \in Tree /\ bkp.nodes \in Seq(Node)
BY TreeNodes DEF Inv, TypeOK

LEMMA RaiseSavedOK ==
    ASSUME Inv, NEW c \in EventCode, NEW k \in Key, NEW rs,
           RaiseSaved(c, k, rs)
    PROVE  Raised(rs)
<1> DEFINE st == AddEvent(Here, c, k)
<1>1. Good(st)
  BY HereGood, GoodAdd
<1>2. /\ Queued(Saved(st), rs)
      /\ bkp' = [bkp EXCEPT !.nodes = SavedNodes(st, bkp.nodes)]
      /\ file' = IF Persistent(st) THEN bkp' ELSE file
  BY DEF RaiseSaved
<1> HIDE DEF st
<1>3. Good(Saved(st))
  BY <1>1, GoodSaved
<1>4. bkp' \in Tree
  BY <1>1, <1>2, BkpTypes, SavedNodesType, TreeExcept
<1> QED
  BY <1>2, <1>3, <1>4, BkpTypes DEF Raised

LEMMA AddedOK ==
    ASSUME Inv, NEW c \in EventCode, NEW k \in Key, NEW rs,
           Queued(AddEvent(Here, c, k), rs), bkp' \in Tree, file' \in Tree
    PROVE  Raised(rs)
BY HereGood, GoodAdd DEF Raised

LEMMA RaiseUnsavedOK ==
    ASSUME Inv, NEW c \in EventCode, NEW k \in Key, RaiseUnsaved(c, k)
    PROVE  Raised(QueuedRpcs)
BY AddedOK, BkpTypes DEF RaiseUnsaved

LEMMA TwiceGood ==
    ASSUME Inv, NEW c \in EventCode, NEW k \in Key,
           NEW d \in EventCode, NEW l \in Key
    PROVE  Good(AddEvent(AddEvent(Here, c, k), d, l))
<1>1. Good(AddEvent(Here, c, k))
  BY HereGood, GoodAdd
<1> QED
  BY <1>1, GoodAt, GoodAdd

LEMMA CodeTypes ==
    /\ "" \in Key
    /\ {BOOTSTRAP, BOOT, PERIODIC, SCHEDULED, VALUE_CHANGE, CONNECTION_REQUEST,
        TRANSFER_COMPLETE, DIAGNOSTICS_COMPLETE, DU_STATE_CHANGE_COMPLETE,
        M_Reboot, M_ScheduleInform, M_Download, M_Schedule_Download, M_Upload,
        M_ChangeDUState} \subseteq EventCode
    /\ \A k \in CmdKey : k \in Key
<1>1. "" \in Key /\ \A k \in CmdKey : k \in Key
  BY DEF Key
<1>2. {BOOTSTRAP, BOOT, PERIODIC, SCHEDULED, VALUE_CHANGE, CONNECTION_REQUEST,
       TRANSFER_COMPLETE, DIAGNOSTICS_COMPLETE, DU_STATE_CHANGE_COMPLETE,
       M_Reboot, M_ScheduleInform, M_Download, M_Schedule_Download, M_Upload,
       M_ChangeDUState} \subseteq EventCode
  BY DEF EventCode, BOOTSTRAP, BOOT, PERIODIC, SCHEDULED, VALUE_CHANGE,
     CONNECTION_REQUEST, TRANSFER_COMPLETE, DIAGNOSTICS_COMPLETE,
     DU_STATE_CHANGE_COMPLETE, M_Reboot, M_ScheduleInform, M_Download,
     M_Schedule_Download, M_Upload, M_ChangeDUState
<1> QED
  BY <1>1, <1>2

LEMMA CompleteEventsGood ==
    ASSUME Inv, NEW c \in EventCode, NEW k \in Key
    PROVE  Good(CompleteEvents(c, k))
<1>1. /\ "" \in Key
      /\ DU_STATE_CHANGE_COMPLETE \in EventCode /\ TRANSFER_COMPLETE \in EventCode
  BY CodeTypes
<1> QED
  BY <1>1, TwiceGood DEF CompleteEvents

(* Appending an RPC that is not an Inform keeps the form.                  *)
LEMMA FormAppend ==
    ASSUME NEW rs \in Seq(Rpc), Form(rs), NEW r \in Rpc, r.type # "Inform"
    PROVE  Append(rs, r) \in Seq(Rpc) /\ Form(Append(rs, r))
<1>1. /\ Append(rs, r) \in Seq(Rpc) /\ Len(Append(rs, r)) = Len(rs) + 1
      /\ Len(rs) \in Nat
      /\ \A i \in 1 .. Len(rs) : Append(rs, r)[i] = rs[i]
      /\ Append(rs, r)[Len(rs) + 1] = r
  BY AppendProperties, LenProperties
<1>2. Append(rs, r) # <<>>
  BY <1>1
<1>3. Len(rs) \in Nat \ {0}
  BY NonEmpty DEF Form
<1> QED
  BY <1>1, <1>2, <1>3 DEF Form

LEMMA RpcTypes ==
    /\ Inform \in Rpc /\ GetRPCMethods \in Rpc
    /\ Inform.type = "Inform" /\ GetRPCMethods.type # "Inform"
    /\ \A c \in EventCode, k \in Key :
          /\ CompleteRpc(c, k) \in Rpc
          /\ CompleteRpc(c, k).type # "Inform"
<1>1. BOOTSTRAP \in EventCode /\ "" \in Key
  BY CodeTypes
<1>2. /\ Inform \in Rpc /\ GetRPCMethods \in Rpc
      /\ Inform.type = "Inform" /\ GetRPCMethods.type # "Inform"
  BY <1>1 DEF Rpc, Inform, GetRPCMethods
<1>3. ASSUME NEW c \in EventCode, NEW k \in Key
      PROVE  CompleteRpc(c, k) \in Rpc /\ CompleteRpc(c, k).type # "Inform"
  BY DEF Rpc, CompleteRpc
<1> QED
  BY <1>2, <1>3

LEMMA QueuedRpcsForm ==
    ASSUME Inv
    PROVE  /\ QueuedRpcs \in Seq(Rpc) /\ Form(QueuedRpcs)
           /\ LET rs == Append(QueuedRpcs, GetRPCMethods)
              IN  rs \in Seq(Rpc) /\ Form(rs)
           /\ \A c \in EventCode, k \in Key :
                LET rs == Append(QueuedRpcs, CompleteRpc(c, k))
                IN  rs \in Seq(Rpc) /\ Form(rs)
BY HereGood, RpcTypes, FormAppend

LEMMA RecordType ==
    ASSUME NEW t \in Tree, NEW c \in EventCode, NEW k \in Key
    PROVE  WithRecord(t, c, k) \in Tree /\ WithoutRecord(t, c, k) \in Tree
BY TreeNodes, TreeOps, TreeExcept DEF WithRecord, WithoutRecord

-----------------------------------------------------------------------------
(* Steps of the other threads.                                             *)

(* The scheduler is only ever woken by them.                               *)
Woken == pc' = pc \/ (pc = "wait" /\ pc' = "woken")

LEMMA WokenFacts ==
    ASSUME Inv, Woken
    PROVE  /\ pc' \in Pc /\ pc' # "fatal"
           /\ pc \in {"prepare", "move"} => pc' \in {"prepare", "move"}
           /\ pc' \in Working => pc \in Working
BY DEF Inv, TypeOK, QueueShape, Woken, Pc, Idle, Working, Sending, Exchange, Starting

LEMMA SignalWoken == ASSUME Signal PROVE Woken
BY DEF Signal, Woken

LEMMA InvRest == ASSUME Inv PROVE Rest
BY DEF Inv, TypeOK, QueueShape, Rest

LEMMA ProducerRest ==
    ASSUME Inv, UNCHANGED <<send, url, schedVars, restarts>>,
           ends' \in [Sid -> SUBSET EndFlag], Woken,
           vc' \in SUBSET Param, npc' \in {"idle", "raise"},
           bkp' \in Tree, file' \in Tree
    PROVE  Rest'
BY InvRest, WokenFacts DEF Rest, schedVars

LEMMA ProducerInv ==
    ASSUME Inv, Producer, NEW rs \in Seq(Rpc), Form(rs), Raised(rs), Woken,
           vc' \in SUBSET Param, npc' \in {"idle", "raise"}
    PROVE  Inv'
<1>1. PICK st : Good(st) /\ Queued(st, rs)
  BY DEF Raised
<1>2. /\ UNCHANGED <<send, url, schedVars, restarts>> /\ ends' = ends
      /\ send' = send /\ session' = session /\ idx' = idx
      /\ bkp' \in Tree /\ file' \in Tree
  BY DEF Producer, schedVars, Raised
<1>3. Rest'
  BY <1>2, ProducerRest, InvRest DEF Rest
<1>4. queue' = <<Target>> /\ TargetOK
  BY <1>1, QueuedFacts, TargetFacts DEF QueuedOK
<1>5. queue' # <<>> /\ (queue # <<>> => queue' = queue)
  BY <1>4, ToSetSingle DEF TargetOK
<1>6. Phase'
  BY <1>2, <1>5 DEF Inv, Phase, Woken, Sending, Exchange, Starting, Idle
<1> QED
  BY <1>1, <1>2, <1>3, <1>6, WokenFacts, QueuedInv

(* The other threads' steps that leave the sessions alone.                 *)
LEMMA BystanderInv ==
    ASSUME Inv, UNCHANGED <<queueVars, send, url, schedVars, restarts>>,
           ends' \in [Sid -> SUBSET EndFlag], Woken,
           vc' \in SUBSET Param, npc' \in {"idle", "raise"},
           bkp' \in Tree, file' \in Tree
    PROVE  Inv'
<1>1. Rest'
  BY ProducerRest
<1>2. queue' = queue /\ send' = send /\ session' = session /\ idx' = idx
  BY DEF queueVars, schedVars
<1>3. Phase'
  BY <1>2 DEF Inv, Phase, Woken, Sending, Exchange, Starting, Idle
<1> QED
  BY <1>1, <1>2, <1>3, WokenFacts, StillInv

LEMMA TransferCodes == TransferCode \subseteq EventCode /\ InformCode \subseteq EventCode
BY CodeAssumption, CodeTypes

(* Inv and the sessions unchanged by each producer.                        *)
LEMMA EventProducers ==
    ASSUME Inv
    PROVE  /\ thread_event_periodic => Inv'
           /\ http_success_cr => Inv'
           /\ \A c \in InformCode : cwmp_handle_inform(c) => Inv'
           /\ cwmp_handle_inform_grm => Inv'
           /\ cwmp_root_cause_event_ipdiagnostic => Inv'
           /\ cwmp_add_notification_active => Inv'
<1>0. vc \in SUBSET Param /\ npc \in {"idle", "raise"} /\ "" \in Key
  BY CodeTypes DEF Inv, TypeOK
<1>1. ASSUME NEW rs \in Seq(Rpc), Form(rs), Raised(rs), Producer, Signal,
             vc' = vc, npc' \in {"idle", "raise"}
      PROVE  Inv'
  BY <1>0, <1>1, SignalWoken, ProducerInv
<1>2. ASSUME thread_event_periodic PROVE Inv'
  <2>1. Raised(QueuedRpcs)
    BY <1>0, <1>2, CodeTypes, RaiseSavedOK DEF thread_event_periodic
  <2> QED
    BY <1>0, <1>1, <1>2, <2>1, QueuedRpcsForm DEF thread_event_periodic
<1>3. ASSUME http_success_cr PROVE Inv'
  <2>1. Raised(QueuedRpcs)
    BY <1>0, <1>3, CodeTypes, RaiseUnsavedOK DEF http_success_cr
  <2> QED
    BY <1>0, <1>1, <1>3, <2>1, QueuedRpcsForm DEF http_success_cr
<1>4. ASSUME NEW c \in InformCode, cwmp_handle_inform(c) PROVE Inv'
  <2>1. Raised(QueuedRpcs)
    BY <1>0, <1>4, TransferCodes, RaiseUnsavedOK DEF cwmp_handle_inform
  <2> QED
    BY <1>0, <1>1, <1>4, <2>1, QueuedRpcsForm DEF cwmp_handle_inform
<1>5. ASSUME cwmp_handle_inform_grm PROVE Inv'
  <2>1. Raised(Append(QueuedRpcs, GetRPCMethods))
    BY <1>0, <1>5, CodeTypes, RaiseSavedOK DEF cwmp_handle_inform_grm
  <2> QED
    BY <1>0, <1>1, <1>5, <2>1, QueuedRpcsForm DEF cwmp_handle_inform_grm
<1>6. ASSUME cwmp_root_cause_event_ipdiagnostic PROVE Inv'
  <2>1. Raised(QueuedRpcs)
    BY <1>0, <1>6, CodeTypes, RaiseSavedOK DEF cwmp_root_cause_event_ipdiagnostic
  <2> QED
    BY <1>0, <1>1, <1>6, <2>1, QueuedRpcsForm DEF cwmp_root_cause_event_ipdiagnostic
<1>7. ASSUME cwmp_add_notification_active PROVE Inv'
  <2>1. Raised(QueuedRpcs)
    BY <1>0, <1>7, CodeTypes, RaiseSavedOK DEF cwmp_add_notification_active
  <2> QED
    BY <1>0, <1>1, <1>7, <2>1, QueuedRpcsForm DEF cwmp_add_notification_active
<1> QED
  BY <1>2, <1>3, <1>4, <1>5, <1>6, <1>7

LEMMA TransferProducers ==
    ASSUME Inv, NEW c \in TransferCode, NEW k \in CmdKey
    PROVE  /\ transfer_finished(c, k) => Inv'
           /\ transfer_fault(c, k) => Inv'
           /\ transfer_expired(c, k) => Inv'
           /\ transfer_silent(c, k) => Inv'
<1> DEFINE rs == Append(QueuedRpcs, CompleteRpc(c, k))
<1>0. /\ vc \in SUBSET Param /\ npc \in {"idle", "raise"}
      /\ c \in EventCode /\ k \in Key /\ bkp \in Tree /\ file \in Tree
  BY CodeTypes, TransferCodes DEF Inv, TypeOK
<1>1. ASSUME RootComplete(c, k), bkp' \in Tree, file' \in Tree
      PROVE  Raised(rs)
  BY <1>0, <1>1, CompleteEventsGood DEF RootComplete, Raised
<1>2. rs \in Seq(Rpc) /\ Form(rs)
  BY <1>0, QueuedRpcsForm
<1>3. /\ WithRecord(bkp, c, k) \in Tree
      /\ WithoutRecord(WithRecord(bkp, c, k), c, k) \in Tree
  BY <1>0, RecordType
<1> HIDE DEF rs
<1>4. ASSUME transfer_finished(c, k) PROVE Inv'
  <2>1. Raised(rs) /\ Producer /\ Signal /\ vc' = vc /\ npc' = npc
    BY <1>1, <1>3, <1>4 DEF transfer_finished
  <2> QED
    BY <1>0, <1>2, <2>1, SignalWoken, ProducerInv
<1>5. ASSUME transfer_fault(c, k) PROVE Inv'
  <2>1. Raised(rs) /\ Producer /\ Signal /\ vc' = vc /\ npc' = npc
    BY <1>1, <1>3, <1>5 DEF transfer_fault
  <2> QED
    BY <1>0, <1>2, <2>1, SignalWoken, ProducerInv
<1>6. ASSUME transfer_expired(c, k) PROVE Inv'
  <2>1. Raised(rs) /\ Producer /\ pc' = pc /\ vc' = vc /\ npc' = npc
    BY <1>0, <1>1, <1>3, <1>6 DEF transfer_expired
  <2> QED
    BY <1>0, <1>2, <2>1, ProducerInv DEF Woken
<1>7. ASSUME transfer_silent(c, k) PROVE Inv'
  <2>1. /\ UNCHANGED <<queueVars, send, url, schedVars, restarts>>
        /\ ends' = ends /\ Signal /\ vc' = vc /\ npc' = npc
        /\ bkp' \in Tree /\ file' \in Tree
    BY <1>3, <1>7 DEF transfer_silent, Producer
  <2>2. ends' \in [Sid -> SUBSET EndFlag]
    BY <2>1 DEF Inv, TypeOK
  <2> QED
    BY <1>0, <2>1, <2>2, SignalWoken, BystanderInv
<1> QED
  BY <1>4, <1>5, <1>6, <1>7

LEMMA OtherProducers ==
    ASSUME Inv
    PROVE  /\ connection_request_ip_value_change => Inv'
           /\ \A p \in Param, active \in BOOLEAN :
                 cwmp_add_notification(p, active) => Inv'
           /\ \A k \in CmdKey : scheduleInform_due(k) => Inv'
           /\ \A f \in {"REBOOT", "EXTERNAL_ACTION", "RELOAD"} :
                 cwmp_handle_command(f) => Inv'
<1>0. /\ vc \in SUBSET Param /\ npc \in {"idle", "raise"} /\ "" \in Key
      /\ bkp \in Tree /\ file \in Tree /\ ends \in [Sid -> SUBSET EndFlag]
      /\ VALUE_CHANGE \in EventCode /\ SCHEDULED \in EventCode
      /\ M_ScheduleInform \in EventCode
  BY CodeTypes DEF Inv, TypeOK
<1>1. ASSUME connection_request_ip_value_change PROVE Inv'
  <2>0. /\ Producer /\ vc' = vc /\ npc' = npc /\ bkp' \in Tree /\ file' \in Tree
    BY <1>0, <1>1 DEF connection_request_ip_value_change, AddressSaved
  <2>1. CASE UNCHANGED <<queueVars, pc>>
    BY <1>0, <2>0, <2>1, BystanderInv DEF Producer, Woken
  <2>2. CASE AddressReported /\ Signal
    <3>1. Raised(QueuedRpcs)
      BY <1>0, <2>0, <2>2, AddedOK DEF AddressReported
    <3> QED
      BY <1>0, <2>0, <2>2, <3>1, QueuedRpcsForm, SignalWoken, ProducerInv
  <2> QED
    BY <1>1, <2>1, <2>2 DEF connection_request_ip_value_change
<1>2. ASSUME NEW p \in Param, NEW active \in BOOLEAN, cwmp_add_notification(p, active)
      PROVE  Inv'
  BY <1>0, <1>2, BystanderInv DEF cwmp_add_notification, Woken
<1>3. ASSUME NEW k \in CmdKey, scheduleInform_due(k) PROVE Inv'
  <2> DEFINE s1 == AddEvent(Here, SCHEDULED, "")
             s2 == AddEvent(Saved(s1), M_ScheduleInform, k)
  <2>1. /\ Producer /\ Signal /\ vc' = vc /\ npc' = npc
        /\ Queued(Saved(s2), QueuedRpcs)
        /\ bkp' = [bkp EXCEPT !.nodes = SavedNodes(s2, SavedNodes(s1, bkp.nodes))]
        /\ file' = bkp'
    BY <1>3 DEF scheduleInform_due
  <2>2. Good(s1)
    BY <1>0, HereGood, GoodAdd
  <2>3. Good(Saved(s1)) /\ k \in Key
    BY <2>2, GoodSaved, CodeTypes
  <2>4. Good(s2)
    BY <1>0, <2>3, GoodAt, GoodAdd
  <2> HIDE DEF s1, s2
  <2>5. SavedNodes(s2, SavedNodes(s1, bkp.nodes)) \in Seq(Node)
    BY <2>2, <2>4, BkpTypes, SavedNodesType
  <2>6. bkp' \in Tree /\ file' \in Tree
    BY <1>0, <2>1, <2>5, TreeExcept
  <2>7. Raised(QueuedRpcs)
    BY <2>1, <2>4, <2>6, GoodSaved DEF Raised
  <2> QED
    BY <1>0, <2>1, <2>7, QueuedRpcsForm, SignalWoken, ProducerInv
<1>4. ASSUME NEW f \in {"REBOOT", "EXTERNAL_ACTION", "RELOAD"}, cwmp_handle_command(f)
      PROVE  Inv'
  <2>1. ends' \in [Sid -> SUBSET EndFlag]
    BY <1>0, <1>4 DEF cwmp_handle_command, cwmp_set_end_session, EndFlag
  <2> QED
    BY <1>0, <1>4, <2>1, BystanderInv DEF cwmp_handle_command, cwmp_set_end_session, Woken
<1> QED
  BY <1>1, <1>2, <1>3, <1>4

LEMMA ProduceStep == ASSUME Inv, Produce PROVE Inv'
BY EventProducers, TransferProducers, OtherProducers DEF Produce,
   netlink_new_msg, freecwmp_netlink_interface

-----------------------------------------------------------------------------
(* Steps of the scheduler.                                                 *)

(* The session of the scheduler is not queued, while it is sent or closed. *)
LEMMA SessionFacts ==
    ASSUME Inv, session # NULL, pc \notin {"prepare", "move"}
    PROVE  /\ session \in Sid /\ session \notin ToSet(queue) /\ session \in Live
           /\ events[session] \in Seq(Event) /\ Ordered(events[session])
           /\ rpcs[session] \in Seq(Rpc)
<1>1. session \in Sid
  BY DEF Inv, TypeOK
<1>2. session \in Live
  BY <1>1 DEF Live
<1>3. session \notin ToSet(queue)
  <2>1. CASE head = NULL
    BY <2>1 DEF Inv, QueueShape, ToSet
  <2>2. CASE head # NULL
    BY <2>2, TargetFacts, ToSetSingle DEF TargetOK, Inv, QueueShape
  <2> QED
    BY <2>1, <2>2
<1> QED
  BY <1>1, <1>2, <1>3 DEF Inv, TypeOK, EventsOrdered

(* A step that only changes the lists of the scheduler's session.          *)
LEMMA SessionInv ==
    ASSUME Inv, session # NULL, pc \notin {"prepare", "move"},
           pc' \notin {"prepare", "move"},
           NEW es \in Seq(Event), Ordered(es), NEW rs \in Seq(Rpc),
           queue' = queue, head' = head, nextId' = nextId,
           events' = [events EXCEPT ![session] = es],
           rpcs' = [rpcs EXCEPT ![session] = rs],
           \/ session' = session /\ send' = send
           \/ session' = session /\ send' = NULL
           \/ session' = NULL /\ send' = NULL,
           Rest', Phase',
           pc' \in Working => Sent(rs)
    PROVE  Inv'
<1>1. session \in Sid /\ session \notin ToSet(queue)
  BY SessionFacts
<1>2. /\ events \in [Sid -> Seq(Event)] /\ rpcs \in [Sid -> Seq(Rpc)] /\ nextId \in Nat
      /\ send # NULL => send = session
      /\ send \notin ToSet(queue)
      /\ head # NULL => head # session
  BY DEF Inv, TypeOK, QueueShape
<1>3. /\ events' \in [Sid -> Seq(Event)] /\ rpcs' \in [Sid -> Seq(Rpc)]
      /\ \A s \in ToSet(queue) : rpcs'[s] = rpcs[s]
      /\ events'[session] = es /\ rpcs'[session] = rs
      /\ \A s \in Sid : s # session => events'[s] = events[s]
  <2>1. \A s \in ToSet(queue) : s \in Sid
    BY ToSetType DEF Inv, TypeOK
  <2> QED
    BY <1>1, <1>2, <2>1
<1>4. NULL \notin ToSet(queue) /\ (queue # <<>> => head # NULL)
  <2>1. \A s \in ToSet(queue) : s \in Sid
    BY ToSetType DEF Inv, TypeOK
  <2> QED
    BY <2>1, SidAssumption DEF Inv, QueueShape
<1>5. \A s \in Live' : Ordered(events'[s])
  <2> SUFFICES ASSUME NEW s \in Live' PROVE Ordered(events'[s])
    OBVIOUS
  <2>1. CASE s = session
    BY <1>3, <2>1
  <2>2. CASE s # session
    <3>1. s \in ToSet(queue)
      BY <1>2, <2>2 DEF Live
    <3>2. s \in Sid /\ s \in Live
      BY <3>1, ToSetType DEF Inv, TypeOK, Live
    <3> QED
      BY <1>3, <2>2, <3>2 DEF Inv, EventsOrdered
  <2> QED
    BY <2>1, <2>2
<1>6. SendRpcs'
  BY <1>3 DEF SendRpcs
<1>7. queue # <<>> => head # session'
  BY <1>2, <1>4
<1>8. send' \notin ToSet(queue) /\ (send' # NULL => send' = session')
  BY <1>2, <1>4
<1> QED
  BY <1>2, <1>3, <1>5, <1>6, <1>7, <1>8, SameQueueInv

(* A step after which no session is queued.                                *)
LEMMA EmptyQueueInv ==
    ASSUME queue' = <<>>, head' = NULL, nextId' \in Nat,
           events' \in [Sid -> Seq(Event)], rpcs' \in [Sid -> Seq(Rpc)],
           send' # NULL => send' = session',
           Rest', Phase', SendRpcs',
           \A s \in {send', session'} \ {NULL} : Ordered(events'[s])
    PROVE  Inv'
<1>1. ToSet(<<>>) = {} /\ Len(<<>>) = 0
  BY DEF ToSet
<1>2. TypeOK'
  BY DEF TypeOK, Rest
<1>3. QueueShape'
  BY <1>1 DEF QueueShape, Rest
<1>4. InformFirst'
  BY <1>1 DEF InformFirst
<1>5. EventsOrdered'
  BY <1>1 DEF EventsOrdered, Live
<1> QED
  BY <1>2, <1>3, <1>4, <1>5 DEF Inv

(* A step of the scheduler that raises events.                             *)
LEMMA RaisedInv ==
    ASSUME Inv, NEW rs \in Seq(Rpc), Form(rs), Raised(rs),
           send' = send, session' = session, Rest',
           queue' # <<>> /\ (queue # <<>> => queue' = queue) => Phase',
           pc \in {"prepare", "move"} => pc' \in {"prepare", "move"},
           pc' \in Working /\ session # NULL => pc \in Working
    PROVE  Inv'
<1>1. PICK st : Good(st) /\ Queued(st, rs)
  BY DEF Raised
<1>2. queue' = <<Target>> /\ TargetOK
  BY <1>1, QueuedFacts, TargetFacts DEF QueuedOK
<1>3. queue' # <<>> /\ (queue # <<>> => queue' = queue)
  BY <1>2, ToSetSingle DEF TargetOK
<1> QED
  BY <1>1, <1>3, QueuedInv

LEMMA SingleQueue ==
    ASSUME Inv, queue # <<>>
    PROVE  queue = <<head>> /\ head \in Sid /\ head # NULL /\ ToSet(queue) = {head}
<1>1. head # NULL /\ head \in Sid
  BY DEF Inv, QueueShape, TypeOK
<1>2. queue = <<head>>
  BY <1>1, TargetFacts DEF TargetOK
<1> QED
  BY <1>1, <1>2, ToSetSingle

LEMMA ChooseInv ==
    ASSUME Inv, pc \in Idle, Choose, Still,
           retry' \in BOOLEAN, UNCHANGED <<err, crEvent, retryCount, reqs, idx>>
    PROVE  Inv'
<1>1. /\ queue' = queue /\ head' = head /\ events' = events /\ rpcs' = rpcs
      /\ nextId' = nextId /\ send' = send /\ ends' = ends /\ vc' = vc
      /\ url' = url /\ npc' = npc /\ restarts' = restarts
      /\ bkp' = bkp /\ file' = file
  BY DEF Still, Calm, queueVars
<1>2. session = NULL /\ send = NULL
  BY DEF Inv, Phase
<1>3. CASE queue = <<>>
  <2>1. pc' = "presleep" /\ session' = session
    BY <1>3 DEF Choose
  <2>2. Rest'
    BY <1>1, <2>1, InvRest DEF Rest, Pc
  <2>3. Phase'
    BY <1>1, <1>2, <2>1 DEF Phase, Sending, Exchange, Starting, Idle
  <2> QED
    BY <1>1, <1>2, <2>1, <2>2, <2>3, StillInv DEF queueVars, Idle
<1>4. CASE queue # <<>>
  <2>1. pc' = "prepare" /\ session' = head /\ head \in Sid /\ head # NULL
        /\ ToSet(queue) = {head} /\ queue[1] = head
    BY <1>4, SingleQueue DEF Choose, Inv, QueueShape
  <2>2. Rest'
    BY <1>1, <2>1, InvRest DEF Rest, Pc
  <2>3. Phase'
    BY <1>1, <1>2, <1>4, <2>1 DEF Phase, Sending, Exchange, Starting, Idle
  <2>4. SendRpcs'
    BY <2>1 DEF SendRpcs, Working, Sending, Exchange, Starting
  <2>5. \A s \in Live' : Ordered(events'[s])
    BY <1>1, <1>2, <2>1 DEF Live, Inv, EventsOrdered
  <2>6. send' \notin ToSet(queue)
    BY <1>1 DEF Inv, QueueShape
  <2>7. nextId \in Nat /\ events \in [Sid -> Seq(Event)] /\ rpcs \in [Sid -> Seq(Rpc)]
    BY DEF Inv, TypeOK
  <2> QED
    BY <1>1, <1>2, <2>1, <2>2, <2>3, <2>4, <2>5, <2>6, <2>7, SameQueueInv
<1> QED
  BY <1>3, <1>4

(* A move of the scheduler that changes nothing but its place and counters.*)
LEMMA MoveInv ==
    ASSUME Inv, Still, session' = session,
           pc' \in Pc, pc' # "fatal",
           retry' \in BOOLEAN, err' \in {"OK", "RETRY"}, crEvent' \in {0, 1},
           retryCount' \in 0 .. MaxRetry, reqs' \in 0 .. MaxReq, idx' \in Nat,
           queue' = queue /\ send' = send => Phase',
           pc \in {"prepare", "move"} => pc' \in {"prepare", "move"},
           pc' \in Working /\ session # NULL => pc \in Working
    PROVE  Inv'
<1>1. /\ UNCHANGED queueVars /\ queue' = queue /\ send' = send /\ ends' = ends
      /\ vc' = vc /\ url' = url /\ npc' = npc /\ restarts' = restarts
      /\ bkp' = bkp /\ file' = file
  BY DEF Still, Calm, queueVars
<1>2. Rest'
  BY <1>1, InvRest DEF Rest
<1> QED
  BY <1>1, <1>2, StillInv

LEMMA GotoInv ==
    ASSUME Inv, NEW l \in Pc, l # "fatal", Goto(l),
           queue' = queue /\ send' = send /\ session' = session /\ idx' = idx
              /\ pc' = l => Phase',
           pc \in {"prepare", "move"} => l \in {"prepare", "move"},
           l \in Working /\ session # NULL => pc \in Working
    PROVE  Inv'
<1>1. /\ pc' = l /\ Still /\ session' = session /\ retry' = retry /\ err' = err
      /\ crEvent' = crEvent /\ retryCount' = retryCount /\ reqs' = reqs /\ idx' = idx
  BY DEF Goto, schedVars
<1>2. /\ retry \in BOOLEAN /\ err \in {"OK", "RETRY"} /\ crEvent \in {0, 1}
      /\ retryCount \in 0 .. MaxRetry /\ reqs \in 0 .. MaxReq /\ idx \in Nat
  BY DEF Inv, TypeOK
<1> QED
  BY <1>1, <1>2, MoveInv

LEMMA PrepareInv ==
    ASSUME Inv, cwmp_prepare_value_change
    PROVE  Inv'
<1>1. /\ pc = "prepare" /\ pc' = "move" /\ session' = session /\ send' = send
      /\ ends' = ends /\ url' = url /\ npc' = npc /\ restarts' = restarts
      /\ bkp' = bkp /\ file' = file /\ retry' = retry /\ err' = err
      /\ crEvent' = crEvent /\ retryCount' = retryCount /\ reqs' = reqs
      /\ idx' = idx
  BY DEF cwmp_prepare_value_change, schedVars
<1>2. vc \in SUBSET Param /\ bkp \in Tree /\ file \in Tree
  BY DEF Inv, TypeOK
<1>3. vc' \in SUBSET Param
  BY <1>2 DEF cwmp_prepare_value_change
<1>4. Rest'
  BY <1>1, <1>3, InvRest DEF Rest, Pc
<1>5. queue' = queue => Phase'
  BY <1>1 DEF Inv, Phase, Sending, Exchange, Starting, Idle
<1>6. pc' \notin Working /\ queue # <<>>
  BY <1>1 DEF Working, Sending, Exchange, Starting, Inv, Phase
<1>7. CASE vc = {}
  <2>1. UNCHANGED queueVars
    BY <1>7 DEF cwmp_prepare_value_change
  <2> QED
    BY <1>1, <1>4, <1>5, <1>6, <2>1, StillInv DEF queueVars
<1>8. CASE vc # {}
  <2> DEFINE st == AddEvent(Here, VALUE_CHANGE, "")
  <2>1. Good(st)
    BY HereGood, GoodAdd, CodeTypes
  <2>2. Queued(Spliced(st, vc), QueuedRpcs)
    BY <1>8 DEF cwmp_prepare_value_change
  <2> HIDE DEF st
  <2>3. vc \in SUBSET Params
    BY <1>2 DEF Params
  <2>4. Raised(QueuedRpcs)
    BY <1>1, <1>2, <2>1, <2>2, <2>3, GoodSpliced DEF Raised
  <2> QED
    BY <1>1, <1>4, <1>5, <1>6, <2>4, QueuedRpcsForm, RaisedInv
<1> QED
  BY <1>7, <1>8

LEMMA RenameType ==
    ASSUME Inv
    PROVE  /\ [bkp EXCEPT !.nodes = bkp_session_move_inform_to_inform_send(bkp.nodes)] \in Tree
           /\ [bkp EXCEPT !.nodes = bkp_session_move_inform_to_inform_queue(bkp.nodes)] \in Tree
           /\ [file EXCEPT !.nodes = bkp_session_move_inform_to_inform_queue(file.nodes)] \in Tree
BY BkpTypes, TreeNodes, TreeOps, TreeExcept

LEMMA MoveToSendInv ==
    ASSUME Inv, cwmp_move_session_to_session_send
    PROVE  Inv'
<1> DEFINE I == {i \in 1 .. Len(queue) : queue[i] = session}
<1>1. pc = "move" /\ session # NULL /\ send = NULL /\ queue # <<>> /\ queue[1] = session
  BY DEF cwmp_move_session_to_session_send, Inv, Phase
<1>2. /\ queue = <<session>> /\ session \in Sid /\ ToSet(queue) = {session}
      /\ queue \in Seq(Sid) /\ Len(queue) = 1
  BY <1>1, SingleQueue, ToSetSingle DEF Inv, QueueShape, TypeOK
<1>3. /\ queue' = RemoveFirstOf(queue, I) /\ send' = session /\ head' = NULL
      /\ bkp' = [bkp EXCEPT !.nodes = bkp_session_move_inform_to_inform_send(bkp.nodes)]
      /\ file' = bkp' /\ reqs' = 0 /\ pc' = "init"
      /\ events' = events /\ rpcs' = rpcs /\ nextId' = nextId /\ ends' = ends
      /\ session' = session /\ retry' = retry /\ err' = err
      /\ crEvent' = crEvent /\ retryCount' = retryCount /\ idx' = idx
      /\ vc' = vc /\ url' = url /\ npc' = npc /\ restarts' = restarts
  BY <1>1 DEF cwmp_move_session_to_session_send, Calm
<1>4. queue' = <<>>
  <2>1. I = {1}
    BY <1>1, <1>2
  <2>2. Min({1}) = 1
    BY MinNat
  <2>3. RemoveFirstOf(queue, I) = RemoveAt(queue, 1)
    BY <2>1, <2>2 DEF RemoveFirstOf
  <2>4. RemoveAt(queue, 1) \in Seq(Sid) /\ Len(RemoveAt(queue, 1)) = 0
    <3>1. 1 \in 1 .. Len(queue) /\ Len(queue) - 1 = 0
      BY <1>2
    <3>2. /\ RemoveAt(queue, 1) \in Seq(Sid)
          /\ Len(RemoveAt(queue, 1)) = Len(queue) - 1
      BY <1>2, <3>1, RemoveAtProperties
    <3> QED
      BY <3>1, <3>2
  <2> QED
    BY <1>3, <2>3, <2>4, EmptySeq
<1>5. Rest'
  <2>1. reqs' \in 0 .. MaxReq
    BY <1>3, BoundAssumption
  <2> QED
    BY <1>2, <1>3, <2>1, RenameType, InvRest DEF Rest, Pc, Exchange
<1>6. Phase'
  BY <1>1, <1>3 DEF Phase, Sending, Exchange, Starting, Idle
<1>7. Form(rpcs[session])
  BY <1>2 DEF Inv, InformFirst, Form
<1>8. SendRpcs'
  BY <1>3, <1>7 DEF SendRpcs, Sent, Form
<1>9. \A s \in {send', session'} \ {NULL} : Ordered(events'[s])
  BY <1>2, <1>3 DEF Inv, EventsOrdered, Live
<1> QED
  BY <1>3, <1>4, <1>5, <1>6, <1>8, <1>9, EmptyQueueInv DEF Inv, TypeOK

LEMMA ScheduleStep == ASSUME Inv, Schedule PROVE Inv'
<1>1. ASSUME sched_lock PROVE Inv'
  <2>1. CASE retry
    <3>1. pc = "lock" /\ Goto("presleep")
      BY <1>1, <2>1 DEF sched_lock, Goto, schedVars
    <3> QED
      BY <3>1, GotoInv DEF Inv, Phase, Pc, Working, Sending, Exchange, Starting, Idle
  <2>2. CASE ~retry
    <3>1. pc \in Idle /\ retry' \in BOOLEAN
      BY <1>1 DEF sched_lock, Idle, Inv, TypeOK
    <3>2. Still /\ Choose
      BY <1>1, <2>2 DEF sched_lock
    <3>3. UNCHANGED <<err, crEvent, retryCount, reqs, idx>>
      BY <1>1 DEF sched_lock
    <3> QED
      BY <3>1, <3>2, <3>3, ChooseInv
  <2> QED
    BY <2>1, <2>2 DEF Inv, TypeOK
<1>2. ASSUME sched_sleep PROVE Inv'
  <2>1. pc = "presleep" /\ Goto("wait")
    BY <1>2 DEF sched_sleep, Goto
  <2> QED
    BY <2>1, GotoInv DEF Inv, Phase, Pc, Working, Sending, Exchange, Starting, Idle
<1>3. ASSUME sched_timeout PROVE Inv'
  <2>1. pc = "wait" /\ Goto("woken")
    BY <1>3 DEF sched_timeout, Goto
  <2> QED
    BY <2>1, GotoInv DEF Inv, Phase, Pc, Working, Sending, Exchange, Starting, Idle
<1>4. ASSUME sched_woken PROVE Inv'
  BY <1>4, ChooseInv DEF sched_woken, Idle
<1> QED
  BY <1>1, <1>2, <1>3, <1>4, PrepareInv, MoveToSendInv DEF Schedule

LEMMA TailSent ==
    ASSUME NEW rs \in Seq(Rpc), rs # <<>>, Sent(rs)
    PROVE  /\ Tail(rs) \in Seq(Rpc) /\ Sent(Tail(rs))
           /\ Head(rs) \in Rpc /\ Head(rs) = rs[1]
<1>1. /\ Tail(rs) \in Seq(Rpc) /\ Len(Tail(rs)) = Len(rs) - 1 /\ Len(rs) \in Nat
      /\ \A i \in 1 .. Len(Tail(rs)) : Tail(rs)[i] = rs[i + 1]
      /\ Head(rs) \in Rpc /\ Head(rs) = rs[1]
  BY HeadTailProperties, LenProperties
<1>2. ASSUME NEW i \in 2 .. Len(Tail(rs)) PROVE Tail(rs)[i].type # "Inform"
  <2>1. Tail(rs)[i] = rs[i + 1] /\ i + 1 \in 2 .. Len(rs)
    BY <1>1
  <2> QED
    BY <2>1 DEF Sent
<1> QED
  BY <1>1, <1>2 DEF Sent

LEMMA ExchangeFacts ==
    ASSUME Inv, pc \in Sending
    PROVE  /\ session # NULL /\ session \in Sid /\ send = session
           /\ pc \notin {"prepare", "move"} /\ pc \in Working
           /\ Sent(rpcs[session])
           /\ rpcs[session] \in Seq(Rpc) /\ events[session] \in Seq(Event)
           /\ Ordered(events[session])
           /\ events = [events EXCEPT ![session] = events[session]]
           /\ rpcs = [rpcs EXCEPT ![session] = rpcs[session]]
<1>1. session # NULL /\ send = session /\ session \in Sid
  BY DEF Inv, Phase, TypeOK
<1>2. pc \notin {"prepare", "move"} /\ pc \in Working
  BY DEF Working, Sending, Exchange
<1>3. Sent(rpcs[session])
  BY <1>1, <1>2 DEF Inv, SendRpcs
<1> QED
  BY <1>1, <1>2, <1>3, SessionFacts DEF Inv, TypeOK

LEMMA ExtraCleanType ==
    ASSUME Inv, NEW r \in Rpc, ExtraClean(r)
    PROVE  bkp' \in Tree /\ file' \in Tree
<1>1. r.code \in EventCode /\ r.key \in Key
  BY DEF Rpc
<1> QED
  BY <1>1, BkpTypes, RecordType DEF ExtraClean

LEMMA DropType ==
    ASSUME Inv, NEW e, NEW name
    PROVE  [bkp EXCEPT !.nodes = bkp_session_delete_event(bkp.nodes, e, name)] \in Tree
<1>1. bkp \in Tree /\ bkp.nodes \in Seq(Node)
  BY BkpTypes
<1>2. bkp_session_delete_event(bkp.nodes, e, name) \in Seq(Node)
  BY <1>1, TreeOps
<1> QED
  BY <1>1, <1>2, TreeExcept

LEMMA AckInv ==
    ASSUME Inv, event_remove_all_event_container
    PROVE  Inv'
<1>1. /\ pc = "ack" /\ queue' = queue /\ head' = head /\ nextId' = nextId
      /\ send' = send /\ ends' = ends /\ session' = session /\ retry' = retry
      /\ err' = err /\ crEvent' = crEvent /\ retryCount' = retryCount
      /\ reqs' = reqs /\ idx' = idx
      /\ vc' = vc /\ url' = url /\ npc' = npc /\ restarts' = restarts
  BY DEF event_remove_all_event_container, Calm, schedVars
<1>2. pc \in Sending
  BY <1>1 DEF Sending, Exchange
<1>3. CASE events[session] # <<>>
  <2>1. /\ events' = [events EXCEPT ![session] = Tail(events[session])]
        /\ bkp' = [bkp EXCEPT !.nodes = bkp_session_delete_event(bkp.nodes,
                                            Head(events[session]).id, "send_event")]
        /\ rpcs' = rpcs /\ pc' = pc /\ file' = file
    BY <1>3 DEF event_remove_all_event_container, DropFirstEvent
  <2>2. Tail(events[session]) \in Seq(Event) /\ Ordered(Tail(events[session]))
    BY <1>2, <1>3, ExchangeFacts, TailOrdered
  <2>3. Rest'
    BY <1>1, <2>1, DropType, InvRest DEF Rest
  <2>4. Phase'
    BY <1>1, <2>1 DEF Inv, Phase
  <2> QED
    BY <1>1, <1>2, <2>1, <2>2, <2>3, <2>4, ExchangeFacts, SessionInv
<1>4. CASE events[session] = <<>>
  <2>1. /\ rpcs' = [rpcs EXCEPT ![session] = Tail(rpcs[session])]
        /\ rpcs[session] # <<>>
        /\ pc' \in {"acs", "empty"} /\ file' = bkp /\ events' = events /\ bkp' = bkp
    BY <1>4 DEF event_remove_all_event_container, AfterRpc
  <2>2. Rest'
    BY <1>1, <2>1, InvRest DEF Rest, Pc, Exchange
  <2>3. Phase'
    BY <1>1, <1>2, <2>1, ExchangeFacts DEF Phase, Sending, Exchange, Starting, Idle
  <2>4. Tail(rpcs[session]) \in Seq(Rpc) /\ Sent(Tail(rpcs[session]))
    BY <1>2, <2>1, ExchangeFacts, TailSent
  <2>5. pc' \notin {"prepare", "move"}
    BY <2>1
  <2> QED
    BY <1>1, <1>2, <2>1, <2>2, <2>3, <2>4, <2>5, ExchangeFacts, SessionInv
<1> QED
  BY <1>3, <1>4

(* A move of the scheduler within a session.                               *)
LEMMA SendingInv ==
    ASSUME Inv, pc \in Sending, pc' \in Sending, Still, session' = session,
           retry' \in BOOLEAN, err' \in {"OK", "RETRY"}, crEvent' \in {0, 1},
           retryCount' \in 0 .. MaxRetry, reqs' \in 0 .. MaxReq, idx' \in Nat
    PROVE  Inv'
<1>1. session # NULL /\ send = session /\ pc \in Working
      /\ pc \notin {"prepare", "move"}
  BY ExchangeFacts
<1>2. pc' \in Pc /\ pc' # "fatal"
  BY DEF Sending, Exchange, Pc, Closing
<1>3. queue' = queue /\ send' = send => Phase'
  BY <1>1 DEF Phase, Sending, Exchange, Starting, Idle
<1> QED
  BY <1>1, <1>2, <1>3, MoveInv

LEMMA SendingGoto ==
    ASSUME Inv, pc \in Sending, NEW l \in Sending, Goto(l)
    PROVE  Inv'
<1>1. /\ pc' = l /\ Still /\ session' = session /\ retry' = retry /\ err' = err
      /\ crEvent' = crEvent /\ retryCount' = retryCount /\ reqs' = reqs /\ idx' = idx
  BY DEF Goto, schedVars
<1>2. /\ retry \in BOOLEAN /\ err \in {"OK", "RETRY"} /\ crEvent \in {0, 1}
      /\ retryCount \in 0 .. MaxRetry /\ reqs \in 0 .. MaxReq /\ idx \in Nat
  BY DEF Inv, TypeOK
<1> QED
  BY <1>1, <1>2, SendingInv

LEMMA AnsweredInv ==
    ASSUME Inv, rpc_acs_answered
    PROVE  Inv'
<1>1. /\ pc = "acs" /\ queue' = queue /\ head' = head /\ nextId' = nextId
      /\ events' = events
      /\ send' = send /\ ends' = ends /\ session' = session /\ retry' = retry
      /\ err' = err /\ crEvent' = crEvent /\ retryCount' = retryCount
      /\ reqs' = reqs /\ idx' = idx
      /\ vc' = vc /\ url' = url /\ npc' = npc /\ restarts' = restarts
      /\ rpcs[session] # <<>>
      /\ rpcs' = [rpcs EXCEPT ![session] = Tail(rpcs[session])]
      /\ pc' \in {"acs", "empty"}
      /\ ExtraClean(Head(rpcs[session]))
  BY DEF rpc_acs_answered, AfterRpc, Calm, schedVars
<1>2. pc \in Sending
  BY <1>1 DEF Sending, Exchange
<1>3. Tail(rpcs[session]) \in Seq(Rpc) /\ Sent(Tail(rpcs[session]))
      /\ Head(rpcs[session]) \in Rpc
  BY <1>1, <1>2, ExchangeFacts, TailSent
<1>4. bkp' \in Tree /\ file' \in Tree
  BY <1>1, <1>3, ExtraCleanType
<1>5. Rest'
  BY <1>1, <1>4, InvRest DEF Rest, Pc, Exchange
<1>6. Phase'
  BY <1>1, <1>2, ExchangeFacts DEF Phase, Sending, Exchange, Starting, Idle
<1>7. pc' \notin {"prepare", "move"}
  BY <1>1
<1> QED
  BY <1>1, <1>2, <1>3, <1>5, <1>6, <1>7, ExchangeFacts, SessionInv

LEMMA RemoveFirstOrdered ==
    ASSUME NEW es \in Seq(Event), Ordered(es), NEW I \in SUBSET (1 .. Len(es))
    PROVE  RemoveFirstOf(es, I) \in Seq(Event) /\ Ordered(RemoveFirstOf(es, I))
<1>1. CASE I = {}
  BY <1>1 DEF RemoveFirstOf
<1>2. CASE I # {}
  <2>1. I \in SUBSET Nat
    BY LenProperties
  <2>2. Min(I) \in 1 .. Len(es)
    BY <1>2, <2>1, MinNat
  <2> QED
    BY <1>2, <2>2, RemoveAtOrdered DEF RemoveFirstOf
<1> QED
  BY <1>1, <1>2

LEMMA NoRetryInv ==
    ASSUME Inv, event_remove_noretry_event_container
    PROVE  Inv'
<1> DEFINE I == {i \in 1 .. Len(events[session]) : events[session][i].code \in NoRetry}
<1>1. /\ pc = "fail" /\ queue' = queue /\ head' = head /\ nextId' = nextId
      /\ rpcs' = rpcs
      /\ send' = send /\ ends' = ends /\ session' = session /\ retry' = retry
      /\ retryCount' = retryCount /\ reqs' = reqs /\ idx' = idx
      /\ bkp' = bkp /\ file' = file
      /\ vc' = vc /\ url' = url /\ npc' = npc /\ restarts' = restarts
  BY DEF event_remove_noretry_event_container, Calm
<1>2. pc \in Sending
  BY <1>1 DEF Sending, Exchange
<1>3. CASE I # {}
  <2>1. /\ events' = [events EXCEPT ![session] = RemoveFirstOf(events[session], I)]
        /\ crEvent' \in {crEvent, 1} /\ err' = err /\ pc' = pc
    BY <1>3 DEF event_remove_noretry_event_container
  <2>2. /\ RemoveFirstOf(events[session], I) \in Seq(Event)
        /\ Ordered(RemoveFirstOf(events[session], I))
    <3>1. I \in SUBSET (1 .. Len(events[session]))
      OBVIOUS
    <3> HIDE DEF I
    <3> QED
      BY <1>2, <3>1, ExchangeFacts, RemoveFirstOrdered
  <2> HIDE DEF I
  <2>3. Rest'
    BY <1>1, <2>1, InvRest DEF Rest
  <2>4. Phase'
    BY <1>1, <2>1 DEF Inv, Phase
  <2> QED
    BY <1>1, <1>2, <2>1, <2>2, <2>3, <2>4, ExchangeFacts, SessionInv
<1>4. CASE I = {}
  <2>1. /\ err' = "RETRY" /\ pc' = "endf" /\ events' = events /\ crEvent' = crEvent
    BY <1>4 DEF event_remove_noretry_event_container
  <2>2. Still
    BY <1>1, <2>1 DEF Still, Calm, queueVars
  <2>3. /\ retry \in BOOLEAN /\ crEvent \in {0, 1}
        /\ retryCount \in 0 .. MaxRetry /\ reqs \in 0 .. MaxReq /\ idx \in Nat
    BY DEF Inv, TypeOK
  <2> QED
    BY <1>1, <1>2, <2>1, <2>2, <2>3, SendingInv DEF Sending
<1> QED
  BY <1>3, <1>4

LEMMA RepliesInv ==
    ASSUME Inv, pc \in Sending, AcsReplies, Still,
           UNCHANGED <<session, retry, err, crEvent, retryCount, idx>>
    PROVE  Inv'
<1>1. pc' \in Sending
  BY DEF AcsReplies, xml_handle_message, Sending, Exchange
<1>2. /\ retry \in BOOLEAN /\ err \in {"OK", "RETRY"} /\ crEvent \in {0, 1}
      /\ retryCount \in 0 .. MaxRetry /\ reqs \in 0 .. MaxReq /\ idx \in Nat
      /\ MaxReq \in Nat
  BY BoundAssumption DEF Inv, TypeOK
<1>3. reqs' \in 0 .. MaxReq
  BY <1>2 DEF AcsReplies, xml_handle_message
<1> QED
  BY <1>1, <1>2, <1>3, SendingInv

LEMMA RebootInv ==
    ASSUME Inv, NEW k \in CmdKey, cwmp_handle_rpc_cpe_reboot(k)
    PROVE  Inv'
<1>1. /\ pc = "cpe" /\ pc' = "reply"
      /\ RaiseSaved(M_Reboot, k, QueuedRpcs)
      /\ ends' = [ends EXCEPT ![send] = @ \union {"REBOOT"}]
      /\ send' = send /\ session' = session /\ retry' = retry /\ err' = err
      /\ crEvent' = crEvent /\ retryCount' = retryCount /\ reqs' = reqs
      /\ idx' = idx
      /\ vc' = vc /\ url' = url /\ npc' = npc /\ restarts' = restarts
  BY DEF cwmp_handle_rpc_cpe_reboot, cwmp_set_end_session, Calm, schedVars
<1>2. pc \in Sending
  BY <1>1 DEF Sending, Exchange
<1>3. send \in Sid /\ session # NULL /\ send = session /\ pc \in Working
  BY <1>2, ExchangeFacts
<1>4. Raised(QueuedRpcs)
  BY <1>1, CodeTypes, RaiseSavedOK
<1>5. ends' \in [Sid -> SUBSET EndFlag]
  BY <1>1, <1>3 DEF Inv, TypeOK, EndFlag
<1>6. Rest'
  BY <1>1, <1>4, <1>5, InvRest DEF Rest, Pc, Exchange, Raised
<1>7. Phase'
  BY <1>1, <1>3 DEF Phase, Sending, Exchange, Starting, Idle
<1> QED
  BY <1>1, <1>3, <1>4, <1>6, <1>7, QueuedRpcsForm, RaisedInv

LEMMA FlagInv ==
    ASSUME Inv, NEW f \in EndFlag, cwmp_handle_rpc_cpe_flag(f)
    PROVE  Inv'
<1>1. /\ pc = "cpe" /\ pc' = "reply" /\ UNCHANGED queueVars /\ queue' = queue
      /\ ends' = [ends EXCEPT ![send] = @ \union {f}]
      /\ send' = send /\ session' = session /\ retry' = retry /\ err' = err
      /\ crEvent' = crEvent /\ retryCount' = retryCount /\ reqs' = reqs
      /\ idx' = idx /\ bkp' = bkp /\ file' = file
      /\ vc' = vc /\ url' = url /\ npc' = npc /\ restarts' = restarts
  BY DEF cwmp_handle_rpc_cpe_flag, cwmp_set_end_session, Calm, schedVars, queueVars
<1>2. pc \in Sending
  BY <1>1 DEF Sending, Exchange
<1>3. send \in Sid /\ session # NULL /\ send = session /\ pc \in Working
      /\ pc \notin {"prepare", "move"}
  BY <1>2, ExchangeFacts
<1>4. ends' \in [Sid -> SUBSET EndFlag]
  BY <1>1, <1>3 DEF Inv, TypeOK
<1>5. Rest'
  BY <1>1, <1>4, InvRest DEF Rest, Pc, Exchange
<1>6. Phase'
  BY <1>1, <1>3 DEF Phase, Sending, Exchange, Starting, Idle
<1> QED
  BY <1>1, <1>3, <1>5, <1>6, StillInv

LEMMA ConverseStep == ASSUME Inv, Converse PROVE Inv'
<1>0. {"init", "acs", "ack", "empty", "cpe", "reply", "next", "fail", "endf"}
          \subseteq Sending
  BY DEF Sending, Exchange
<1>1. http_client_init => Inv'
  BY <1>0, SendingGoto DEF http_client_init
<1>2. rpc_acs_failed => Inv'
  BY <1>0, SendingGoto DEF rpc_acs_failed
<1>3. rpc_inform_answered => Inv'
  BY <1>0, SendingGoto DEF rpc_inform_answered
<1>4. rpc_acs_done => Inv'
  BY <1>0, SendingGoto DEF rpc_acs_done
<1>5. cwmp_handle_rpc_cpe_other => Inv'
  BY <1>0, SendingGoto DEF cwmp_handle_rpc_cpe_other, Respond,
     cwmp_handle_rpc_cpe_get_rpc_methods, cwmp_handle_rpc_cpe_fault
<1>6. xml_send_empty \/ xml_send_response => Inv'
  BY <1>0, RepliesInv DEF xml_send_empty, xml_send_response
<1>7. ASSUME rpc_next PROVE Inv'
  <2>1. /\ pc = "next" /\ pc' \in Sending /\ err' \in {"OK", err} /\ Still
        /\ session' = session /\ retry' = retry /\ crEvent' = crEvent
        /\ retryCount' = retryCount /\ reqs' = reqs /\ idx' = idx
    BY <1>0, <1>7 DEF rpc_next
  <2>2. /\ retry \in BOOLEAN /\ err \in {"OK", "RETRY"} /\ crEvent \in {0, 1}
        /\ retryCount \in 0 .. MaxRetry /\ reqs \in 0 .. MaxReq /\ idx \in Nat
    BY DEF Inv, TypeOK
  <2> QED
    BY <1>0, <2>1, <2>2, SendingInv
<1>8. \A f \in {"FACTORY_RESET", "RELOAD"} : cwmp_handle_rpc_cpe_flag(f) => Inv'
  BY FlagInv DEF EndFlag
<1> QED
  BY <1>1, <1>2, <1>3, <1>4, <1>5, <1>6, <1>7, <1>8, AnsweredInv, AckInv,
     NoRetryInv, RebootInv DEF Converse

(* The end of the process.                                                 *)
LEMMA ProcessEndsInv ==
    ASSUME Inv, NEW f \in Tree, ProcessEnds(f)
    PROVE  Inv'
<1>1. /\ pc' = "down"
      /\ queue' = <<>> /\ head' = NULL /\ send' = NULL /\ session' = NULL
      /\ events' = [s \in Sid |-> <<>>]
      /\ rpcs' = [s \in Sid |-> <<>>]
      /\ ends' = [s \in Sid |-> {}]
      /\ nextId' = 0 /\ vc' = {} /\ npc' = "idle"
      /\ retry' = FALSE /\ err' = "OK" /\ crEvent' = 0
      /\ retryCount' = 0 /\ reqs' = 0 /\ idx' = 0
      /\ bkp' = f /\ file' = f
      /\ url' = url /\ restarts' = restarts
  BY DEF ProcessEnds
<1>2. /\ events' \in [Sid -> Seq(Event)] /\ rpcs' \in [Sid -> Seq(Rpc)]
      /\ nextId' \in Nat
  BY <1>1
<1>3. ends' \in [Sid -> SUBSET EndFlag] /\ vc' \in SUBSET Param
  BY <1>1
<1>4. retryCount' \in 0 .. MaxRetry /\ reqs' \in 0 .. MaxReq /\ idx' \in Nat
  BY <1>1, BoundAssumption
<1>5. Rest'
  BY <1>1, <1>3, <1>4, InvRest DEF Rest, Pc
<1>6. Phase' /\ SendRpcs'
  BY <1>1 DEF Phase, SendRpcs, Sending, Exchange, Starting, Idle
<1> QED
  BY <1>1, <1>2, <1>5, <1>6, EmptyQueueInv

LEMMA EmptyTreeType == EmptyTree \in Tree
BY DEF EmptyTree, Tree

LEMMA SessionEndInv ==
    ASSUME Inv
    PROVE  /\ end_factory_reset => Inv'
           /\ end_reboot => Inv'
           /\ end_reload => Inv'
           /\ end_other => Inv'
           /\ end_clear => Inv'
<1>1. end_factory_reset => Inv'
  BY EmptyTreeType, ProcessEndsInv DEF end_factory_reset
<1>2. end_reboot => Inv'
  BY BkpTypes, ProcessEndsInv DEF end_reboot
<1>3. ASSUME end_reload PROVE Inv'
  <2>1. /\ pc = "endf" /\ pc' = "bootstrap" /\ UNCHANGED queueVars /\ queue' = queue
        /\ url' \in Url /\ ends' = ends
        /\ send' = send /\ session' = session /\ retry' = retry /\ err' = err
        /\ crEvent' = crEvent /\ retryCount' = retryCount /\ reqs' = reqs
        /\ idx' = idx /\ bkp' = bkp /\ file' = file
        /\ vc' = vc /\ npc' = npc /\ restarts' = restarts
    BY <1>3 DEF end_reload, schedVars, queueVars
  <2>2. send = session /\ pc \in Working /\ pc \notin {"prepare", "move"}
    BY <2>1, ExchangeFacts DEF Sending
  <2>3. Rest'
    BY <2>1, InvRest DEF Rest, Pc, Starting
  <2>4. Phase'
    BY <2>1, <2>2 DEF Phase, Sending, Exchange, Starting, Idle
  <2> QED
    BY <2>1, <2>2, <2>3, <2>4, StillInv
<1>4. end_other => Inv'
  BY SendingGoto DEF end_other, Sending
<1>5. ASSUME end_clear PROVE Inv'
  <2>1. /\ pc = "ended" /\ pc' = "close" /\ UNCHANGED queueVars /\ queue' = queue
        /\ ends' = [ends EXCEPT ![session] = {}] /\ url' = url
        /\ send' = send /\ session' = session /\ retry' = retry /\ err' = err
        /\ crEvent' = crEvent /\ retryCount' = retryCount /\ reqs' = reqs
        /\ idx' = idx /\ bkp' = bkp /\ file' = file
        /\ vc' = vc /\ npc' = npc /\ restarts' = restarts
    BY <1>5 DEF end_clear, Calm, schedVars, queueVars
  <2>2. send = session /\ session # NULL /\ pc \in Working
        /\ pc \notin {"prepare", "move"} /\ session \in Sid
    BY <2>1, ExchangeFacts DEF Sending
  <2>3. ends' \in [Sid -> SUBSET EndFlag]
    BY <2>1, <2>2 DEF Inv, TypeOK
  <2>4. Rest'
    BY <2>1, <2>3, InvRest DEF Rest, Pc, Closing
  <2>5. Phase'
    BY <2>1, <2>2 DEF Phase, Sending, Exchange, Starting, Idle
  <2> QED
    BY <2>1, <2>2, <2>4, <2>5, StillInv
<1> QED
  BY <1>1, <1>2, <1>3, <1>4, <1>5

LEMMA BumpType == ASSUME Inv PROVE Bump \in 0 .. MaxRetry
BY BoundAssumption DEF Inv, TypeOK, Bump

(* A failed session gets its Inform back.                                  *)
LEMMA EnsureInformForm ==
    ASSUME NEW rs \in Seq(Rpc), Sent(rs)
    PROVE  EnsureInform(rs) \in Seq(Rpc) /\ Form(EnsureInform(rs))
<1>1. CASE rs # <<>> /\ Head(rs).type = "Inform"
  <2>1. Head(rs) = rs[1] /\ Len(rs) \in Nat
    BY <1>1, TailSent, LenProperties
  <2>2. \A i \in 1 .. Len(rs) : (rs[i].type = "Inform") = (i = 1)
    <3> SUFFICES ASSUME NEW i \in 1 .. Len(rs)
                 PROVE  (rs[i].type = "Inform") = (i = 1)
      OBVIOUS
    <3>1. CASE i = 1
      BY <1>1, <2>1, <3>1
    <3>2. CASE i # 1
      <4>1. i \in 2 .. Len(rs)
        BY <2>1, <3>2
      <4> QED
        BY <3>2, <4>1 DEF Sent
    <3> QED
      BY <3>1, <3>2
  <2> QED
    BY <1>1, <2>2 DEF EnsureInform, Form
<1>2. CASE ~(rs # <<>> /\ Head(rs).type = "Inform")
  <2> DEFINE new == <<Inform>> \o rs
  <2>1. EnsureInform(rs) = new
    BY <1>2 DEF EnsureInform
  <2>2. <<Inform>> \in Seq(Rpc) /\ Len(<<Inform>>) = 1 /\ <<Inform>>[1] = Inform
    BY RpcTypes
  <2>3. /\ new \in Seq(Rpc) /\ Len(new) = 1 + Len(rs) /\ Len(rs) \in Nat
        /\ \A i \in 1 .. Len(new) : new[i] = IF i <= 1 THEN <<Inform>>[i] ELSE rs[i - 1]
    BY <2>2, ConcatProperties, LenProperties
  <2>4. new # <<>>
    BY <2>3
  <2> HIDE DEF new
  <2>5. ASSUME NEW j \in 1 .. Len(rs) PROVE rs[j].type # "Inform"
    <3>1. CASE j = 1
      <4>1. rs # <<>>
        BY <3>1, EmptySeq
      <4>2. Head(rs) = rs[1]
        BY <4>1, TailSent
      <4> QED
        BY <1>2, <3>1, <4>1, <4>2
    <3>2. CASE j # 1
      <4>1. j \in 2 .. Len(rs)
        BY <2>3, <3>2
      <4> QED
        BY <4>1 DEF Sent
    <3> QED
      BY <3>1, <3>2
  <2>6. \A i \in 1 .. Len(new) : (new[i].type = "Inform") = (i = 1)
    <3> SUFFICES ASSUME NEW i \in 1 .. Len(new)
                 PROVE  (new[i].type = "Inform") = (i = 1)
      OBVIOUS
    <3>1. CASE i = 1
      BY <2>2, <2>3, <3>1, RpcTypes
    <3>2. CASE i # 1
      <4>1. i - 1 \in 1 .. Len(rs) /\ new[i] = rs[i - 1]
        BY <2>3, <3>2
      <4> QED
        BY <2>5, <3>2, <4>1
    <3> QED
      BY <3>1, <3>2
  <2> QED
    BY <2>1, <2>3, <2>4, <2>6 DEF Form
<1> QED
  BY <1>1, <1>2

LEMMA RequeueInv ==
    ASSUME Inv, requeue_session
    PROVE  Inv'
<1>1. /\ pc = "close" /\ queue = <<>> /\ queue' = <<session>> /\ head' = session
      /\ send' = NULL /\ session' = NULL /\ events' = events /\ nextId' = nextId
      /\ rpcs' = [rpcs EXCEPT ![session] = EnsureInform(rpcs[session])]
      /\ bkp' = [bkp EXCEPT !.nodes = bkp_session_move_inform_to_inform_queue(bkp.nodes)]
      /\ file' = bkp' /\ retryCount' = Bump /\ retry' = TRUE /\ pc' = "lock"
      /\ ends' = ends /\ err' = err /\ crEvent' = crEvent /\ reqs' = reqs /\ idx' = idx
      /\ vc' = vc /\ url' = url /\ npc' = npc /\ restarts' = restarts
  BY DEF requeue_session, Calm
<1>2. /\ session # NULL /\ session \in Sid /\ Sent(rpcs[session])
      /\ rpcs[session] \in Seq(Rpc) /\ Ordered(events[session])
  BY <1>1, ExchangeFacts DEF Sending
<1>3. EnsureInform(rpcs[session]) \in Seq(Rpc) /\ Form(EnsureInform(rpcs[session]))
  BY <1>2, EnsureInformForm
<1>4. /\ rpcs' \in [Sid -> Seq(Rpc)] /\ rpcs'[session] = EnsureInform(rpcs[session])
  BY <1>1, <1>2, <1>3 DEF Inv, TypeOK
<1>5. /\ ToSet(queue') = {session} /\ Len(queue') = 1 /\ queue'[1] = session
      /\ queue' # <<>> /\ queue' \in Seq(Sid)
  BY <1>1, <1>2, ToSetSingle
<1>6. Rest'
  BY <1>1, BumpType, RenameType, InvRest DEF Rest, Pc, Idle
<1>7. Phase' /\ SendRpcs'
  BY <1>1 DEF Phase, SendRpcs, Working, Sending, Exchange, Starting, Idle
<1>8. TypeOK'
  BY <1>1, <1>2, <1>4, <1>5, <1>6 DEF TypeOK, Rest, Inv
<1>9. QueueShape'
  <2>1. NULL \notin ToSet(queue') /\ head' # NULL /\ head' # session'
    BY <1>1, <1>2, <1>5, SidAssumption
  <2>2. pc' # "fatal" /\ send' = NULL /\ Len(queue') <= 1
    BY <1>1, <1>5
  <2>3. queue'[1] = head' /\ queue' # <<>>
    BY <1>1, <1>5
  <2> QED
    BY <2>1, <2>2, <2>3 DEF QueueShape
<1>10. InformFirst'
  <2> SUFFICES ASSUME NEW s \in ToSet(queue') PROVE Form(rpcs'[s])
    BY DEF InformFirst, Form
  <2>1. s = session
    BY <1>5
  <2> QED
    BY <1>3, <1>4, <2>1
<1>11. EventsOrdered'
  BY <1>1, <1>2, <1>5 DEF EventsOrdered, Live
<1> QED
  BY <1>7, <1>8, <1>9, <1>10, <1>11 DEF Inv

LEMMA MergeEventInv ==
    ASSUME Inv, merge_event
    PROVE  Inv'
<1> DEFINE old == events[session][idx]
           st0 == AddEvent(Here, old.code, old.key)
           st == Spliced(st0, old.params)
<1>1. /\ pc = "merge" /\ idx <= Len(events[session]) /\ pc' = pc
      /\ Queued(Saved(st), QueuedRpcs)
      /\ bkp' = [bkp EXCEPT !.nodes = SavedNodes(st, bkp.nodes)]
      /\ file' = IF Persistent(st) THEN bkp' ELSE file
      /\ idx' = idx + 1 /\ send' = send /\ ends' = ends /\ session' = session
      /\ retry' = retry /\ err' = err /\ crEvent' = crEvent
      /\ retryCount' = retryCount /\ reqs' = reqs
      /\ vc' = vc /\ url' = url /\ npc' = npc /\ restarts' = restarts
  BY DEF merge_event, Calm
<1>2. session # NULL /\ send = NULL /\ queue # <<>> /\ idx \in Nat \ {0}
      /\ pc \notin {"prepare", "move"}
  BY <1>1 DEF Inv, Phase
<1>3. events[session] \in Seq(Event)
  BY <1>2, SessionFacts
<1>4. old \in Event
  <2>1. Len(events[session]) \in Nat
    BY <1>3, LenProperties
  <2>2. idx \in 1 .. Len(events[session])
    BY <1>1, <1>2, <2>1
  <2> QED
    BY <1>3, <2>2, ElementOfSeq
<1>5. old.code \in EventCode /\ old.key \in Key /\ old.params \in SUBSET Params
  BY <1>4 DEF Event
<1>6. Good(st0)
  BY <1>5, HereGood, GoodAdd
<1>7. Good(st)
  BY <1>5, <1>6, GoodSpliced
<1> HIDE DEF st, st0
<1>8. Good(Saved(st)) /\ SavedNodes(st, bkp.nodes) \in Seq(Node)
  BY <1>7, GoodSaved, SavedNodesType, BkpTypes
<1>9. bkp' \in Tree /\ file' \in Tree
  BY <1>1, <1>8, BkpTypes, TreeExcept
<1>10. Raised(QueuedRpcs)
  BY <1>1, <1>8, <1>9 DEF Raised
<1>11. Rest'
  BY <1>1, <1>2, <1>9, InvRest DEF Rest
<1>12. queue' # <<>> => Phase'
  BY <1>1, <1>2 DEF Phase, Sending, Exchange, Starting, Idle
<1>13. pc' \notin Working
  BY <1>1 DEF Working, Sending, Exchange, Starting
<1> QED
  BY <1>1, <1>2, <1>10, <1>11, <1>12, <1>13, QueuedRpcsForm, RaisedInv

LEMMA MergeRpcInv ==
    ASSUME Inv, merge_rpc
    PROVE  Inv'
<1> DEFINE r == rpcs[session][idx]
<1>1. /\ pc = "mergeRpc" /\ idx <= Len(rpcs[session]) /\ pc' = pc
      /\ queue' = queue /\ head' = head /\ events' = events /\ nextId' = nextId
      /\ send' = send /\ ends' = ends /\ session' = session
      /\ bkp' = bkp /\ file' = file
      /\ retry' = retry /\ err' = err /\ crEvent' = crEvent
      /\ retryCount' = retryCount /\ reqs' = reqs
      /\ vc' = vc /\ url' = url /\ npc' = npc /\ restarts' = restarts
  BY DEF merge_rpc, Calm
<1>2. session # NULL /\ send = NULL /\ queue # <<>> /\ idx \in Nat \ {0}
      /\ pc \notin {"prepare", "move"}
  BY <1>1 DEF Inv, Phase
<1>3. /\ session \in Sid /\ rpcs[session] \in Seq(Rpc) /\ session \notin ToSet(queue)
      /\ Len(rpcs[session]) \in Nat
  BY <1>2, SessionFacts, LenProperties
<1>4. idx \in 1 .. Len(rpcs[session])
  BY <1>1, <1>2, <1>3
<1>5. r \in Rpc /\ RemoveAt(rpcs[session], idx) \in Seq(Rpc)
  BY <1>3, <1>4, ElementOfSeq, RemoveAtProperties
<1>6. head \in Sid /\ head # session /\ ToSet(queue) = {head} /\ head # NULL
  BY <1>2, <1>3, SingleQueue
<1>7. rpcs[head] \in Seq(Rpc) /\ Form(rpcs[head])
  BY <1>6 DEF Inv, TypeOK, InformFirst, Form
<1>8. idx' \in Nat \ {0} /\ rpcs' \in [Sid -> Seq(Rpc)] /\ Form(rpcs'[head])
  <2>1. CASE Duplicate(r)
    <3>1. idx' = idx + 1 /\ rpcs' = rpcs
      BY <2>1 DEF merge_rpc
    <3> QED
      BY <1>2, <1>7, <3>1 DEF Inv, TypeOK
  <2>2. CASE ~Duplicate(r)
    <3>1. /\ idx' = idx
          /\ rpcs' = [rpcs EXCEPT ![head] = Append(rpcs[head], r),
                                  ![session] = RemoveAt(rpcs[session], idx)]
      BY <1>6, <2>2 DEF merge_rpc
    <3>2. r.type # "Inform"
      <4>1. Len(rpcs[head]) \in Nat \ {0}
        BY <1>7, NonEmpty DEF Form
      <4>2. 1 \in 1 .. Len(rpcs[head])
        BY <4>1
      <4>3. rpcs[head][1].type = "Inform"
        BY <1>7, <4>2 DEF Form
      <4> QED
        BY <2>2, <4>2, <4>3 DEF Duplicate
    <3>3. Append(rpcs[head], r) \in Seq(Rpc) /\ Form(Append(rpcs[head], r))
      BY <1>5, <1>7, <3>2, FormAppend
    <3> HIDE DEF r
    <3>4. rpcs'[head] = Append(rpcs[head], r) /\ rpcs' \in [Sid -> Seq(Rpc)]
      BY <1>3, <1>5, <1>6, <3>1, <3>3 DEF Inv, TypeOK
    <3> QED
      BY <1>2, <3>1, <3>3, <3>4
  <2> QED
    BY <2>1, <2>2
<1>9. Rest'
  BY <1>1, <1>8, InvRest DEF Rest
<1>10. Phase'
  BY <1>1, <1>2, <1>8 DEF Phase, Sending, Exchange, Starting, Idle
<1>11. SendRpcs'
  BY <1>1 DEF SendRpcs, Working, Sending, Exchange, Starting
<1>12. \A s \in Live' : Ordered(events'[s])
  BY <1>1 DEF Live, Inv, EventsOrdered
<1>13. \A s \in ToSet(queue) : Form(rpcs'[s])
  BY <1>6, <1>8
<1>14. send' \notin ToSet(queue) /\ nextId \in Nat /\ events \in [Sid -> Seq(Event)]
  BY <1>1 DEF Inv, QueueShape, TypeOK
<1> QED
  BY <1>1, <1>2, <1>6, <1>8, <1>9, <1>10, <1>11, <1>12, <1>13, <1>14, SameQueueInv

LEMMA MergeInv ==
    ASSUME Inv
    PROVE  /\ merge_begin => Inv'
           /\ merge_events_done => Inv'
           /\ merge_rpcs_done => Inv'
           /\ close_success => Inv'
<1>0. /\ retry \in BOOLEAN /\ err \in {"OK", "RETRY"} /\ crEvent \in {0, 1}
      /\ retryCount \in 0 .. MaxRetry /\ reqs \in 0 .. MaxReq /\ idx \in Nat
  BY DEF Inv, TypeOK
<1>1. ASSUME merge_begin PROVE Inv'
  <2>1. /\ pc = "close" /\ queue # <<>> /\ pc' = "merge"
        /\ queue' = queue /\ head' = head /\ events' = events /\ rpcs' = rpcs
        /\ nextId' = nextId
        /\ send' = NULL /\ ends' = ends /\ session' = session
        /\ bkp' = bkp /\ file' = file
        /\ retry' = retry /\ err' = err /\ crEvent' = crEvent
        /\ retryCount' = Bump /\ reqs' = reqs /\ idx' = 1
        /\ vc' = vc /\ url' = url /\ npc' = npc /\ restarts' = restarts
    BY <1>1 DEF merge_begin, Calm, queueVars
  <2>2. pc \in Sending
    BY <2>1 DEF Sending
  <2>3. Rest'
    BY <2>1, BumpType, InvRest DEF Rest, Pc, Closing
  <2>4. Phase'
    BY <2>1, <2>2, ExchangeFacts DEF Phase, Sending, Exchange, Starting, Idle
  <2>5. pc' \notin Working /\ pc' \notin {"prepare", "move"}
    BY <2>1 DEF Working, Sending, Exchange, Starting
  <2> QED
    BY <2>1, <2>2, <2>3, <2>4, <2>5, ExchangeFacts, SessionInv
<1>2. ASSUME merge_events_done PROVE Inv'
  <2>1. /\ pc = "merge" /\ pc' = "mergeRpc" /\ idx' = 1 /\ Still
        /\ UNCHANGED <<session, retry, err, crEvent, retryCount, reqs>>
    BY <1>2 DEF merge_events_done
  <2>2. queue' = queue /\ send' = send => Phase'
    BY <2>1 DEF Inv, Phase, Sending, Exchange, Starting, Idle
  <2>3. pc' \notin Working
    BY <2>1 DEF Working, Sending, Exchange, Starting
  <2> QED
    BY <1>0, <2>1, <2>2, <2>3, MoveInv DEF Pc, Closing
<1>3. ASSUME merge_rpcs_done PROVE Inv'
  BY <1>3, GotoInv DEF merge_rpcs_done, Pc, Closing, Inv, Phase, Working, Sending,
     Exchange, Starting, Idle
<1>4. ASSUME close_success PROVE Inv'
  BY <1>4, GotoInv DEF close_success, Pc, Closing, Inv, Phase, Working, Sending,
     Exchange, Starting, Idle
<1> QED
  BY <1>1, <1>2, <1>3, <1>4

LEMMA DestroyInv ==
    ASSUME Inv
    PROVE  /\ destroy_event => Inv'
           /\ destroy_rpc => Inv'
           /\ destroy_done => Inv'
<1>0. ASSUME pc = "destroy"
      PROVE  /\ session # NULL /\ session \in Sid /\ pc \notin {"prepare", "move"}
             /\ rpcs[session] \in Seq(Rpc) /\ events[session] \in Seq(Event)
             /\ Ordered(events[session])
             /\ events = [events EXCEPT ![session] = events[session]]
             /\ rpcs = [rpcs EXCEPT ![session] = rpcs[session]]
             /\ pc \notin Working
  <2>1. session # NULL
    BY <1>0 DEF Inv, Phase
  <2>2. pc \notin Working
    BY <1>0 DEF Working, Sending, Exchange, Starting
  <2> QED
    BY <1>0, <2>1, <2>2, SessionFacts DEF Inv, TypeOK
<1>1. ASSUME destroy_event PROVE Inv'
  <2>1. /\ pc = "destroy" /\ pc' = pc /\ queue' = queue /\ head' = head
        /\ nextId' = nextId /\ rpcs' = rpcs /\ events[session] # <<>>
        /\ events' = [events EXCEPT ![session] = Tail(events[session])]
        /\ bkp' = [bkp EXCEPT !.nodes = bkp_session_delete_event(bkp.nodes,
                                            Head(events[session]).id, "send_event")]
        /\ file' = file /\ send' = send /\ ends' = ends /\ session' = session
        /\ retry' = retry /\ err' = err /\ crEvent' = crEvent
        /\ retryCount' = retryCount /\ reqs' = reqs /\ idx' = idx
        /\ vc' = vc /\ url' = url /\ npc' = npc /\ restarts' = restarts
    BY <1>1 DEF destroy_event, DropFirstEvent, Calm, schedVars
  <2>2. Tail(events[session]) \in Seq(Event) /\ Ordered(Tail(events[session]))
    BY <1>0, <2>1, TailOrdered
  <2>3. Rest'
    BY <2>1, DropType, InvRest DEF Rest
  <2>4. Phase'
    BY <2>1 DEF Inv, Phase
  <2> QED
    BY <1>0, <2>1, <2>2, <2>3, <2>4, SessionInv
<1>2. ASSUME destroy_rpc PROVE Inv'
  <2>1. /\ pc = "destroy" /\ pc' = pc /\ queue' = queue /\ head' = head
        /\ nextId' = nextId /\ events' = events /\ rpcs[session] # <<>>
        /\ rpcs' = [rpcs EXCEPT ![session] = Tail(rpcs[session])]
        /\ \/ file' = bkp /\ bkp' = bkp
           \/ ExtraClean(Head(rpcs[session]))
        /\ send' = send /\ ends' = ends /\ session' = session
        /\ retry' = retry /\ err' = err /\ crEvent' = crEvent
        /\ retryCount' = retryCount /\ reqs' = reqs /\ idx' = idx
        /\ vc' = vc /\ url' = url /\ npc' = npc /\ restarts' = restarts
    BY <1>2 DEF destroy_rpc, Calm, schedVars
  <2>2. Tail(rpcs[session]) \in Seq(Rpc) /\ Head(rpcs[session]) \in Rpc
    BY <1>0, <2>1, HeadTailProperties
  <2>3. bkp' \in Tree /\ file' \in Tree
    BY <2>1, <2>2, BkpTypes, ExtraCleanType
  <2>4. Rest'
    BY <2>1, <2>3, InvRest DEF Rest
  <2>5. Phase'
    BY <2>1 DEF Inv, Phase
  <2> QED
    BY <1>0, <2>1, <2>2, <2>4, <2>5, SessionInv
<1>3. ASSUME destroy_done PROVE Inv'
  <2>1. /\ pc = "destroy" /\ pc' = "lock" /\ queue' = queue /\ head' = head
        /\ nextId' = nextId /\ rpcs' = rpcs
        /\ events' = [events EXCEPT ![session] = <<>>]
        /\ ends' = [ends EXCEPT ![session] = {}]
        /\ send' = NULL /\ session' = NULL
        /\ retry' \in {TRUE, retry} /\ retryCount' \in {0, retryCount}
        /\ err' = err /\ crEvent' = crEvent /\ reqs' = reqs /\ idx' = idx
        /\ bkp' = bkp /\ file' = file
        /\ vc' = vc /\ url' = url /\ npc' = npc /\ restarts' = restarts
    BY <1>3 DEF destroy_done, Calm, SuccessCount
  <2>2. <<>> \in Seq(Event) /\ Ordered(<<>>)
    BY DEF Ordered
  <2>3. ends' \in [Sid -> SUBSET EndFlag] /\ retryCount' \in 0 .. MaxRetry
    BY <1>0, <2>1, BoundAssumption DEF Inv, TypeOK
  <2>4. Rest'
    BY <2>1, <2>3, InvRest DEF Rest, Pc, Idle
  <2>5. Phase'
    BY <2>1 DEF Phase, Sending, Exchange, Starting, Idle
  <2>6. pc' \notin Working /\ pc' \notin {"prepare", "move"}
    BY <2>1 DEF Working, Sending, Exchange, Starting
  <2> QED
    BY <1>0, <2>1, <2>2, <2>4, <2>5, <2>6, SessionInv
<1> QED
  BY <1>1, <1>2, <1>3

LEMMA CloseStep == ASSUME Inv, Close PROVE Inv'
BY SessionEndInv, RequeueInv, MergeInv, MergeEventInv, MergeRpcInv, DestroyInv
   DEF Close

(* main: loading the backup and raising the events of the start.           *)
LoadUnchanged ==
    /\ send' = send /\ ends' = ends /\ session' = session /\ retry' = retry
    /\ err' = err /\ crEvent' = crEvent /\ retryCount' = retryCount
    /\ reqs' = reqs /\ vc' = vc /\ url' = url /\ npc' = npc
    /\ restarts' = restarts

LEMMA LoadInv ==
    ASSUME Inv, pc = "load", pc' = pc, idx' = idx + 1, LoadUnchanged,
           NEW rs \in Seq(Rpc), Form(rs), Raised(rs)
    PROVE  Inv'
<1>1. send = NULL /\ session = NULL /\ idx \in Nat \ {0}
  BY DEF Inv, Phase, Starting
<1>2. Rest'
  BY <1>1, InvRest DEF Rest, LoadUnchanged, Raised
<1>3. Phase'
  BY <1>1 DEF Phase, LoadUnchanged, Sending, Exchange, Starting, Idle
<1> QED
  BY <1>1, <1>2, <1>3, RaisedInv DEF LoadUnchanged

LEMMA LoadStep ==
    ASSUME Inv
    PROVE  /\ load_queue_event => Inv'
           /\ load_transfer_complete => Inv'
           /\ load_done => Inv'
<1>1. ASSUME pc = "load", idx <= Len(bkp.nodes)
      PROVE  bkp.nodes[idx] \in Node /\ bkp.nodes[idx].code \in EventCode
             /\ bkp.nodes[idx].key \in Key
  <2>1. idx \in Nat \ {0} /\ bkp.nodes \in Seq(Node)
    BY <1>1, BkpTypes DEF Inv, Phase
  <2>2. Len(bkp.nodes) \in Nat
    BY <2>1, LenProperties
  <2>3. idx \in 1 .. Len(bkp.nodes)
    BY <1>1, <2>1, <2>2
  <2>4. bkp.nodes[idx] \in Node
    BY <2>1, <2>3, ElementOfSeq
  <2> QED
    BY <2>4 DEF Node
<1>2. ASSUME load_queue_event PROVE Inv'
  <2>1. /\ pc = "load" /\ pc' = pc /\ idx <= Len(bkp.nodes) /\ idx' = idx + 1
        /\ LoadUnchanged /\ bkp' = bkp /\ file' = file
        /\ Queued(Loaded(bkp.nodes[idx]), QueuedRpcs)
    BY <1>2 DEF load_queue_event, LoadUnchanged, Calm
  <2>2. Good(Loaded(bkp.nodes[idx]))
    BY <1>1, <2>1, HereGood, GoodLoaded
  <2>3. Raised(QueuedRpcs)
    BY <2>1, <2>2, BkpTypes DEF Raised
  <2> QED
    BY <2>1, <2>3, QueuedRpcsForm, LoadInv
<1>3. ASSUME load_transfer_complete PROVE Inv'
  <2> DEFINE n == bkp.nodes[idx]
             st == CompleteEvents(n.code, n.key)
             rs == Append(QueuedRpcs, CompleteRpc(n.code, n.key))
  <2>1. /\ pc = "load" /\ pc' = pc /\ idx <= Len(bkp.nodes) /\ idx' = idx + 1
        /\ LoadUnchanged /\ bkp' = bkp /\ file' = file
        /\ Queued(st, rs) \/ Queued(AddEvent(st, VALUE_CHANGE, ""), rs)
    BY <1>3 DEF load_transfer_complete, LoadUnchanged, Calm
  <2>2. n.code \in EventCode /\ n.key \in Key
    BY <1>1, <2>1
  <2>3. Good(st)
    BY <2>2, CompleteEventsGood
  <2>4. rs \in Seq(Rpc) /\ Form(rs)
    BY <2>2, QueuedRpcsForm
  <2> HIDE DEF st, rs
  <2>5. Good(AddEvent(st, VALUE_CHANGE, ""))
    BY <2>3, GoodAt, GoodAdd, CodeTypes
  <2>6. Raised(rs)
    BY <2>1, <2>3, <2>5, BkpTypes DEF Raised
  <2> QED
    BY <2>1, <2>4, <2>6, LoadInv
<1>4. ASSUME load_done PROVE Inv'
  BY <1>4, GotoInv DEF load_done, Pc, Starting, Inv, Phase, Working, Sending,
     Exchange, Idle
<1> QED
  BY <1>2, <1>3, <1>4

(* cwmp_root_cause_events.  The session that asked for a reload, if any,   *)
(* stays the one being sent.                                               *)
RootUnchanged ==
    /\ send' = send /\ ends' = ends /\ session' = session /\ retry' = retry
    /\ err' = err /\ retryCount' = retryCount
    /\ reqs' = reqs /\ idx' = idx /\ vc' = vc /\ url' = url /\ npc' = npc
    /\ restarts' = restarts

AfterRoot ==
    \/ pc' \in {"flush", "raise", "urlchange", AfterBootstrap}
    \/ pc' = "boot" /\ send = NULL
    \/ pc' = "grm" /\ send = NULL
    \/ pc' = "port" /\ send = NULL
    \/ pc' = "lock" /\ send = NULL

LEMMA RootRest ==
    ASSUME Inv, pc \in Starting, RootUnchanged, AfterRoot,
           crEvent' \in {0, 1}, bkp' \in Tree, file' \in Tree
    PROVE  /\ Rest' /\ Phase'
           /\ pc \in Working /\ pc \notin {"prepare", "move"}
           /\ pc' \notin {"prepare", "move"}
           /\ send' = send /\ session' = session
<1>1. send = session
  BY DEF Inv, Phase
<1>2. pc \in Working /\ pc \notin {"prepare", "move"}
  BY DEF Working, Starting
<1>3. /\ pc' \in {"flush", "raise", "urlchange", "boot", "ended", "grm", "port", "lock"}
      /\ pc' \in {"boot", "grm", "port", "lock"} => send = NULL
      /\ pc' = "ended" => send # NULL
  BY DEF AfterRoot, AfterBootstrap
<1>4. Rest'
  BY <1>3, InvRest DEF RootUnchanged, Rest, Pc, Starting, Closing, Idle
<1>5. Phase'
  BY <1>1, <1>3 DEF RootUnchanged, Phase, Sending, Exchange, Starting, Idle
<1> QED
  BY <1>2, <1>3, <1>4, <1>5 DEF RootUnchanged

LEMMA RootRaised ==
    ASSUME Inv, pc \in Starting, RootUnchanged, AfterRoot, crEvent' \in {0, 1},
           NEW rs \in Seq(Rpc), Form(rs), Raised(rs)
    PROVE  Inv'
BY RootRest, RaisedInv DEF Raised

LEMMA RootStill ==
    ASSUME Inv, pc \in Starting, RootUnchanged, AfterRoot, crEvent' \in {0, 1},
           bkp' \in Tree, file' \in Tree, UNCHANGED queueVars
    PROVE  Inv'
BY RootRest, StillInv

LEMMA BootstrapStep ==
    ASSUME Inv
    PROVE  /\ cwmp_root_cause_event_bootstrap => Inv'
           /\ bootstrap_flush => Inv'
           /\ bootstrap_flushed => Inv'
           /\ bootstrap_raise => Inv'
           /\ bootstrap_url_changed => Inv'
<1>0. /\ crEvent \in {0, 1} /\ bkp \in Tree /\ file \in Tree /\ url \in Url
      /\ [bkp EXCEPT !.acs = url] \in Tree
  <2>1. crEvent \in {0, 1} /\ bkp \in Tree /\ file \in Tree /\ url \in Url
    BY DEF Inv, TypeOK
  <2> QED
    BY <2>1 DEF Tree
<1>1. ASSUME cwmp_root_cause_event_bootstrap PROVE Inv'
  <2>1. /\ pc \in Starting /\ RootUnchanged /\ AfterRoot /\ crEvent' = crEvent
        /\ UNCHANGED queueVars
    BY <1>1 DEF cwmp_root_cause_event_bootstrap, RootUnchanged, AfterRoot, Calm,
       schedVars, Starting
  <2>2. bkp' \in Tree /\ file' \in Tree
    BY <1>0, <1>1 DEF cwmp_root_cause_event_bootstrap
  <2> QED
    BY <1>0, <2>1, <2>2, RootStill
<1>2. ASSUME bootstrap_flush PROVE Inv'
  <2>1. /\ pc = "flush" /\ pc' = pc /\ head # NULL /\ events[head] # <<>>
        /\ events' = [events EXCEPT ![head] = Tail(events[head])]
        /\ bkp' = [bkp EXCEPT !.nodes = bkp_session_delete_event(bkp.nodes,
                                            Head(events[head]).id, "queue_event")]
        /\ queue' = queue /\ head' = head /\ rpcs' = rpcs /\ nextId' = nextId
        /\ file' = file /\ crEvent' = crEvent
        /\ RootUnchanged
    BY <1>2 DEF bootstrap_flush, Calm, schedVars, RootUnchanged
  <2>2. pc \in Starting /\ AfterRoot /\ bkp' \in Tree
    BY <2>1, DropType DEF Starting, AfterRoot
  <2>3. Rest' /\ Phase' /\ send' = send /\ session' = session
    BY <1>0, <2>1, <2>2, RootRest
  <2>4. head \in Sid /\ head \in Live /\ queue # <<>> /\ head # session
        /\ (send # NULL => send = session) /\ send \notin ToSet(queue)
    <3>1. queue # <<>>
      BY <2>1 DEF Inv, QueueShape
    <3>2. head \in ToSet(queue)
      BY <3>1, SingleQueue
    <3> QED
      BY <2>1, <3>1, <3>2, SingleQueue DEF Live, Inv, QueueShape
  <2>5. Tail(events[head]) \in Seq(Event) /\ Ordered(Tail(events[head]))
    BY <2>1, <2>4, TailOrdered DEF Inv, TypeOK, EventsOrdered
  <2>6. /\ events' \in [Sid -> Seq(Event)] /\ rpcs' \in [Sid -> Seq(Rpc)]
        /\ nextId' \in Nat
        /\ events'[head] = Tail(events[head])
        /\ \A s \in Sid : s # head => events'[s] = events[s]
    BY <2>1, <2>4, <2>5 DEF Inv, TypeOK
  <2>7. \A s \in Live' : Ordered(events'[s])
    <3> SUFFICES ASSUME NEW s \in Live' PROVE Ordered(events'[s])
      OBVIOUS
    <3>1. s \in Live /\ s \in Sid
      BY <2>1, <2>3, ToSetType DEF Live, Inv, TypeOK
    <3> QED
      BY <2>5, <2>6, <3>1 DEF Inv, EventsOrdered
  <2>8. SendRpcs'
    BY <2>1, <2>3 DEF SendRpcs, Inv
  <2> QED
    BY <2>1, <2>3, <2>4, <2>6, <2>7, <2>8, SameQueueInv
<1>3. ASSUME bootstrap_flushed PROVE Inv'
  <2>1. /\ pc \in Starting /\ RootUnchanged /\ AfterRoot /\ crEvent' = crEvent
        /\ UNCHANGED queueVars /\ bkp' = bkp /\ file' \in {file, bkp}
    BY <1>3 DEF bootstrap_flushed, RootUnchanged, AfterRoot, Calm, schedVars, Starting
  <2> QED
    BY <1>0, <2>1, RootStill
<1>4. ASSUME bootstrap_raise PROVE Inv'
  <2>1. /\ pc \in Starting /\ RootUnchanged /\ AfterRoot /\ crEvent' = crEvent
        /\ RaiseSaved(BOOTSTRAP, "", QueuedRpcs)
    BY <1>4 DEF bootstrap_raise, RootUnchanged, AfterRoot, Calm, schedVars, Starting
  <2> QED
    BY <1>0, <2>1, CodeTypes, RaiseSavedOK, QueuedRpcsForm, RootRaised
<1>5. ASSUME bootstrap_url_changed PROVE Inv'
  <2> DEFINE st == AddEvent(Here, VALUE_CHANGE, "")
  <2>1. /\ pc \in Starting /\ RootUnchanged /\ AfterRoot /\ crEvent' = crEvent
        /\ Queued(Spliced(st, {UrlParam}), QueuedRpcs)
        /\ bkp' = [bkp EXCEPT !.acs = url] /\ file' = bkp'
    BY <1>5 DEF bootstrap_url_changed, RootUnchanged, AfterRoot, Calm, schedVars, Starting
  <2>2. Good(st)
    BY HereGood, GoodAdd, CodeTypes
  <2> HIDE DEF st
  <2>3. {UrlParam} \in SUBSET Params
    BY DEF Params
  <2>4. Raised(QueuedRpcs)
    BY <1>0, <2>1, <2>2, <2>3, GoodSpliced DEF Raised
  <2> QED
    BY <1>0, <2>1, <2>4, QueuedRpcsForm, RootRaised
<1> QED
  BY <1>1, <1>2, <1>3, <1>4, <1>5

LEMMA BootStep ==
    ASSUME Inv
    PROVE  /\ cwmp_root_cause_event_boot => Inv'
           /\ cwmp_root_cause_getRPCMethod => Inv'
           /\ connection_request_port_value_change => Inv'
<1>0. /\ crEvent \in {0, 1} /\ bkp \in Tree /\ file \in Tree
      /\ pc \in {"boot", "grm", "port"} => send = NULL /\ pc \in Starting
  BY DEF Inv, TypeOK, Phase, Starting
<1>1. ASSUME cwmp_root_cause_event_boot PROVE Inv'
  <2>1. /\ pc = "boot" /\ pc' = "grm" /\ RootUnchanged /\ crEvent' = crEvent
        /\ \/ UNCHANGED <<queueVars, bkp, file>>
           \/ RaiseSaved(BOOT, "", QueuedRpcs)
    BY <1>1 DEF cwmp_root_cause_event_boot, RootUnchanged, Calm, schedVars
  <2>2. AfterRoot /\ pc \in Starting
    BY <1>0, <2>1 DEF AfterRoot
  <2>3. CASE UNCHANGED <<queueVars, bkp, file>>
    BY <1>0, <2>1, <2>2, <2>3, RootStill
  <2>4. CASE RaiseSaved(BOOT, "", QueuedRpcs)
    BY <1>0, <2>1, <2>2, <2>4, CodeTypes, RaiseSavedOK, QueuedRpcsForm, RootRaised
  <2> QED
    BY <2>1, <2>3, <2>4
<1>2. ASSUME cwmp_root_cause_getRPCMethod PROVE Inv'
  <2>1. /\ pc = "grm" /\ pc' = "port" /\ RootUnchanged /\ crEvent' = crEvent
        /\ \/ UNCHANGED <<queueVars, bkp, file>>
           \/ RaiseSaved(PERIODIC, "", Append(QueuedRpcs, GetRPCMethods))
    BY <1>2 DEF cwmp_root_cause_getRPCMethod, RootUnchanged, Calm, schedVars
  <2>2. AfterRoot /\ pc \in Starting
    BY <1>0, <2>1 DEF AfterRoot
  <2>3. CASE UNCHANGED <<queueVars, bkp, file>>
    BY <1>0, <2>1, <2>2, <2>3, RootStill
  <2>4. CASE RaiseSaved(PERIODIC, "", Append(QueuedRpcs, GetRPCMethods))
    BY <1>0, <2>1, <2>2, <2>4, CodeTypes, RaiseSavedOK, QueuedRpcsForm, RootRaised
  <2> QED
    BY <2>1, <2>3, <2>4
<1>3. ASSUME connection_request_port_value_change PROVE Inv'
  <2>1. /\ pc = "port" /\ pc' = "lock" /\ RootUnchanged /\ crEvent' = 0
        /\ \/ UNCHANGED <<queueVars, bkp, file>>
           \/ AddressSaved /\ UNCHANGED queueVars
           \/ AddressSaved /\ AddressReported
    BY <1>3 DEF connection_request_port_value_change, RootUnchanged, Calm
  <2>2. AfterRoot /\ pc \in Starting /\ bkp' \in Tree /\ file' \in Tree
    BY <1>0, <2>1 DEF AfterRoot, AddressSaved
  <2>3. CASE UNCHANGED queueVars
    BY <1>0, <2>1, <2>2, <2>3, RootStill
  <2>4. CASE AddressReported
    <3>1. Raised(QueuedRpcs)
      BY <2>2, <2>4, CodeTypes, AddedOK DEF AddressReported
    <3> QED
      BY <2>1, <2>2, <3>1, QueuedRpcsForm, RootRaised
  <2> QED
    BY <2>1, <2>3, <2>4
<1> QED
  BY <1>1, <1>2, <1>3

LEMMA RestartInv ==
    ASSUME Inv, restart
    PROVE  Inv'
<1>1. /\ pc = "down" /\ pc' = "load" /\ idx' = 1
      /\ bkp' = [file EXCEPT !.nodes = bkp_session_move_inform_to_inform_queue(file.nodes)]
      /\ file' = bkp' /\ url' \in Url /\ restarts' = restarts + 1
      /\ UNCHANGED queueVars /\ queue' = queue /\ send' = send /\ ends' = ends
      /\ vc' = vc /\ npc' = npc /\ session' = session /\ retry' = retry
      /\ err' = err /\ crEvent' = crEvent /\ retryCount' = retryCount
      /\ reqs' = reqs
  BY DEF restart, queueVars
<1>2. session = NULL /\ send = NULL
  BY <1>1 DEF Inv, Phase
<1>3. Rest'
  BY <1>1, RenameType, InvRest DEF Rest, Pc, Starting
<1>4. Phase'
  BY <1>1, <1>2 DEF Phase, Sending, Exchange, Starting, Idle
<1> QED
  BY <1>1, <1>2, <1>3, <1>4, StillInv

LEMMA StartStep == ASSUME Inv, Start PROVE Inv'
BY RestartInv, LoadStep, BootstrapStep, BootStep DEF Start

LEMMA EndStep ==
    ASSUME Inv
    PROVE  /\ crash => Inv'
           /\ \A c \in TransferCode, k \in CmdKey : transfer_exit(c, k) => Inv'
<1>1. crash => Inv'
  BY BkpTypes, ProcessEndsInv DEF crash
<1>2. ASSUME NEW c \in TransferCode, NEW k \in CmdKey, transfer_exit(c, k)
      PROVE  Inv'
  <2>1. c \in EventCode /\ k \in Key
    BY TransferCodes, CodeTypes
  <2>2. WithRecord(bkp, c, k) \in Tree
    BY <2>1, BkpTypes, RecordType
  <2> QED
    BY <1>2, <2>2, ProcessEndsInv DEF transfer_exit
<1> QED
  BY <1>1, <1>2

-----------------------------------------------------------------------------
LEMMA InitInv == ASSUME Init PROVE Inv
<1>1. /\ queue = <<>> /\ head = NULL /\ send = NULL /\ session = NULL
      /\ events = [s \in Sid |-> <<>>]
      /\ rpcs = [s \in Sid |-> <<>>]
      /\ ends = [s \in Sid |-> {}]
      /\ nextId = 0 /\ vc = {} /\ npc = "idle" /\ url \in Url
      /\ pc = "load" /\ idx = 1
      /\ retry = FALSE /\ err = "OK" /\ crEvent = 0
      /\ retryCount = 0 /\ reqs = 0 /\ bkp = EmptyTree /\ file = EmptyTree
      /\ restarts = 0
  BY DEF Init
<1>2. /\ events \in [Sid -> Seq(Event)] /\ rpcs \in [Sid -> Seq(Rpc)]
      /\ ends \in [Sid -> SUBSET EndFlag] /\ vc \in SUBSET Param
  BY <1>1
<1>3. retryCount \in 0 .. MaxRetry /\ reqs \in 0 .. MaxReq /\ idx \in Nat
      /\ nextId \in Nat /\ restarts \in Nat
  BY <1>1, BoundAssumption
<1>4. TypeOK
  <2>1. queue \in Seq(Sid) /\ pc \in Pc /\ retry \in BOOLEAN
        /\ crEvent \in {0, 1}
    <3>1. <<>> \in Seq(Sid)
      OBVIOUS
    <3>2. "load" \in Pc
      BY DEF Pc, Starting
    <3> QED
      BY <1>1, <3>1, <3>2
  <2>2. bkp \in Tree /\ file \in Tree
    BY <1>1, EmptyTreeType
  <2>3. /\ head \in Sid \union {NULL} /\ send \in Sid \union {NULL}
        /\ session \in Sid \union {NULL}
    BY <1>1
  <2>4. url \in Url /\ err \in {"OK", "RETRY"} /\ npc \in {"idle", "raise"}
    BY <1>1
  <2> QED
    BY <1>2, <1>3, <2>1, <2>2, <2>3, <2>4 DEF TypeOK
<1>5. ToSet(<<>>) = {} /\ Len(<<>>) = 0
  BY DEF ToSet
<1>6. QueueShape /\ InformFirst /\ EventsOrdered
  BY <1>1, <1>5 DEF QueueShape, InformFirst, EventsOrdered, Live
<1>7. Phase /\ SendRpcs
  BY <1>1 DEF Phase, SendRpcs, Sending, Exchange, Starting, Idle
<1> QED
  BY <1>4, <1>6, <1>7 DEF Inv

LEMMA NextInv == ASSUME Inv, [Next]_vars PROVE Inv'
<1>1. ASSUME UNCHANGED vars PROVE Inv'
  <2>1. /\ UNCHANGED queueVars /\ send' = send /\ ends' = ends /\ vc' = vc
        /\ url' = url /\ pc' = pc /\ UNCHANGED schedVars /\ npc' = npc
        /\ bkp' = bkp /\ file' = file /\ restarts' = restarts
    BY <1>1 DEF vars
  <2>2. Rest'
    BY <2>1, InvRest DEF Rest, schedVars
  <2>3. Phase'
    BY <2>1 DEF Inv, Phase, queueVars, schedVars
  <2> QED
    BY <2>1, <2>2, <2>3, StillInv DEF schedVars
<1> QED
  BY <1>1, ProduceStep, ScheduleStep, ConverseStep, CloseStep, StartStep, EndStep
     DEF Next

(* The inductive invariant holds in every reachable state.                 *)
THEOREM Invariant == Spec => []Inv
<1>1. Init => Inv
  BY InitInv
<1>2. Inv /\ [Next]_vars => Inv'
  BY NextInv
<1> QED
  BY <1>1, <1>2, PTL DEF Spec

(* Every variable of the daemon keeps its type (cwmp.h's structures).      *)
THEOREM TypeCorrect == Spec => []TypeOK
<1>1. Inv => TypeOK
  BY DEF Inv
<1> QED
  BY <1>1, Invariant, PTL

(* The queue of sessions never holds more than the session that producers  *)
(* add to, which is not the one being sent: event.c:84-93, cwmp.c:370-472. *)
THEOREM QueueShapeHolds == Spec => []QueueShape
<1>1. Inv => QueueShape
  BY DEF Inv
<1> QED
  BY <1>1, Invariant, PTL

(* A queued session always starts with its one Inform, after any number of *)
(* failures and merges: cwmp.c:388-472.                                    *)
THEOREM InformFirstHolds == Spec => []InformFirst
<1>1. Inv => InformFirst
  BY DEF Inv
<1> QED
  BY <1>1, Invariant, PTL

(* The events of every session stay sorted by code, each SINGLE one at     *)
(* most once: event.c:95-123.                                              *)
THEOREM EventsOrderedHolds == Spec => []EventsOrdered
<1>1. Inv => EventsOrdered
  BY DEF Inv
<1> QED
  BY <1>1, Invariant, PTL

-----------------------------------------------------------------------------
(* The count of failures.                                                  *)

(* retry is set only while the scheduler has yet to wait, and a session    *)
(* that is merged into the queued one, or freed after that, has failed.    *)
Holding == {"lock", "presleep", "wait", "woken"}
Merging == pc \in {"merge", "mergeRpc"} \/ (pc = "destroy" /\ send = NULL)
RetryPart ==
    /\ RetryTimed
    /\ retry => pc \in Holding
    /\ Merging => queue # <<>> /\ retryCount # 0

(* A step that does not touch the count, nor empties the queue.            *)
LEMMA RetryKept ==
    ASSUME RetryPart, retry' = retry, retryCount' = retryCount, send' = send,
           queue # <<>> => queue' # <<>>,
           pc \in Holding => pc' \in Holding,
           Merging' => Merging
    PROVE  RetryPart'
BY DEF RetryPart, RetryTimed

LEMMA QueueGrows ==
    ASSUME Inv, queue # <<>>, queue' = queue \/ cwmp_add_queue_session
    PROVE  queue' # <<>>
<1>1. queue \in Seq(Sid)
  BY DEF Inv, TypeOK
<1>2. CASE cwmp_add_queue_session
  <2>1. queue' = queue
    BY <1>2 DEF cwmp_add_queue_session, Inv, QueueShape
  <2> QED
    BY <2>1
<1> QED
  BY <1>2

LEMMA ProduceRetry == ASSUME Inv, RetryPart, Produce PROVE RetryPart'
<1> DEFINE Fine == /\ retry' = retry /\ retryCount' = retryCount /\ send' = send
                   /\ queue' = queue \/ cwmp_add_queue_session
                   /\ pc' = pc \/ (pc = "wait" /\ pc' = "woken")
<1>1. ASSUME Producer, queue' = queue \/ cwmp_add_queue_session, pc' = pc \/ Signal
      PROVE  Fine
  BY <1>1 DEF Producer, Signal, schedVars
<1>2. (\/ thread_event_periodic \/ http_success_cr \/ cwmp_handle_inform_grm
       \/ cwmp_root_cause_event_ipdiagnostic \/ cwmp_add_notification_active
       \/ netlink_new_msg
       \/ \E c \in InformCode : cwmp_handle_inform(c)
       \/ \E k \in CmdKey : scheduleInform_due(k)) => Fine
  <2>1. (\/ thread_event_periodic \/ http_success_cr \/ cwmp_handle_inform_grm
         \/ cwmp_root_cause_event_ipdiagnostic \/ cwmp_add_notification_active) => Fine
    BY <1>1 DEF thread_event_periodic, http_success_cr, cwmp_handle_inform_grm,
       cwmp_root_cause_event_ipdiagnostic, cwmp_add_notification_active,
       RaiseSaved, RaiseUnsaved, Queued
  <2>2. netlink_new_msg => Fine
    BY <1>1 DEF netlink_new_msg, freecwmp_netlink_interface, AddressReported,
       connection_request_ip_value_change, Queued, queueVars
  <2>3. (\E c \in InformCode : cwmp_handle_inform(c)) => Fine
    BY <1>1 DEF cwmp_handle_inform, RaiseUnsaved, Queued
  <2>4. (\E k \in CmdKey : scheduleInform_due(k)) => Fine
    BY <1>1 DEF scheduleInform_due, Queued
  <2> QED
    BY <2>1, <2>2, <2>3, <2>4
<1>3. ASSUME NEW c \in TransferCode, NEW k \in CmdKey,
             \/ transfer_finished(c, k) \/ transfer_fault(c, k)
             \/ transfer_expired(c, k) \/ transfer_silent(c, k)
      PROVE  Fine
  BY <1>1, <1>3 DEF transfer_finished, transfer_fault, transfer_expired,
     transfer_silent, RootComplete, Queued, queueVars
<1>4. ASSUME NEW p \in Param, NEW active \in BOOLEAN, cwmp_add_notification(p, active)
      PROVE  Fine
  BY <1>4 DEF cwmp_add_notification, queueVars, schedVars
<1>5. ASSUME NEW f \in {"REBOOT", "EXTERNAL_ACTION", "RELOAD"}, cwmp_handle_command(f)
      PROVE  Fine
  BY <1>5 DEF cwmp_handle_command, queueVars, schedVars
<1>6. Fine
  BY <1>2, <1>3, <1>4, <1>5 DEF Produce
<1> QED
  BY <1>6, QueueGrows, RetryKept DEF Holding, Merging

LEMMA ScheduleRetry == ASSUME Inv, RetryPart, Schedule PROVE RetryPart'
<1>1. ASSUME sched_lock \/ sched_sleep \/ sched_timeout PROVE RetryPart'
  BY <1>1
     DEF sched_lock, sched_sleep, sched_timeout, Still, Calm, Choose, queueVars,
         schedVars, Holding, Merging, RetryPart, RetryTimed
<1>2. ASSUME sched_woken PROVE RetryPart'
  BY <1>2 DEF sched_woken, Still, Calm, Choose, queueVars, Holding, Merging,
              RetryPart, RetryTimed
<1>3. ASSUME cwmp_prepare_value_change PROVE RetryPart'
  <2>1. /\ retry' = retry /\ retryCount' = retryCount /\ send' = send
        /\ queue' = queue \/ cwmp_add_queue_session
        /\ pc = "prepare" /\ pc' = "move"
    BY <1>3 DEF cwmp_prepare_value_change, Queued, queueVars, schedVars
  <2> QED
    BY <2>1, QueueGrows, RetryKept DEF Holding, Merging
<1>4. ASSUME cwmp_move_session_to_session_send PROVE RetryPart'
  <2>1. session # NULL /\ send = NULL
    BY <1>4 DEF cwmp_move_session_to_session_send, Inv, Phase
  <2> QED
    BY <1>4, <2>1 DEF cwmp_move_session_to_session_send, Calm, Holding, Merging,
                      RetryPart, RetryTimed
<1> QED
  BY <1>1, <1>2, <1>3, <1>4 DEF Schedule

LEMMA ConverseRetry == ASSUME Inv, RetryPart, Converse PROVE RetryPart'
<1>1. /\ retry' = retry /\ retryCount' = retryCount /\ send' = send
      /\ pc \in Exchange /\ pc' \in Exchange \union {"endf"}
      /\ queue' = queue \/ cwmp_add_queue_session
  <2>1. CASE http_client_init \/ rpc_acs_failed \/ rpc_inform_answered
             \/ rpc_acs_done \/ rpc_next \/ event_remove_noretry_event_container
    BY <2>1 DEF http_client_init, rpc_acs_failed, rpc_inform_answered, rpc_acs_done,
           rpc_next, event_remove_noretry_event_container, Goto, Still, Calm,
           queueVars, schedVars, Exchange
  <2>2. CASE rpc_acs_answered \/ event_remove_all_event_container
    BY <2>2 DEF rpc_acs_answered, event_remove_all_event_container, AfterRpc,
                Still, Calm, queueVars, schedVars, Exchange
  <2>3. CASE xml_send_empty \/ xml_send_response \/ cwmp_handle_rpc_cpe_other
    BY <2>3 DEF xml_send_empty, xml_send_response, AcsReplies, xml_handle_message,
                cwmp_handle_rpc_cpe_other, cwmp_handle_rpc_cpe_get_rpc_methods,
                cwmp_handle_rpc_cpe_fault, Respond, Goto, Still, Calm,
                queueVars, schedVars, Exchange
  <2>4. ASSUME NEW k \in CmdKey, cwmp_handle_rpc_cpe_reboot(k)
        PROVE  /\ retry' = retry /\ retryCount' = retryCount /\ send' = send
               /\ pc \in Exchange /\ pc' \in Exchange \union {"endf"}
               /\ cwmp_add_queue_session
    BY <2>4 DEF cwmp_handle_rpc_cpe_reboot, RaiseSaved, Queued, schedVars, Exchange
  <2>5. ASSUME NEW f \in {"FACTORY_RESET", "RELOAD"}, cwmp_handle_rpc_cpe_flag(f)
        PROVE  /\ retry' = retry /\ retryCount' = retryCount /\ send' = send
               /\ pc \in Exchange /\ pc' \in Exchange \union {"endf"}
               /\ queue' = queue
    BY <2>5 DEF cwmp_handle_rpc_cpe_flag, queueVars, schedVars, Exchange
  <2> QED
    BY <2>1, <2>2, <2>3, <2>4, <2>5 DEF Converse
<1> QED
  BY <1>1, QueueGrows, RetryKept DEF Exchange, Holding, Merging

LEMMA CloseRetry == ASSUME Inv, RetryPart, Close PROVE RetryPart'
<1>1. ASSUME end_factory_reset \/ end_reboot PROVE RetryPart'
  BY <1>1 DEF end_factory_reset, end_reboot, ProcessEnds, RetryPart, RetryTimed, Merging
<1>2. ASSUME end_reload \/ end_other \/ end_clear PROVE RetryPart'
  BY <1>2, RetryKept DEF end_reload, end_other, end_clear, Goto, Still, Calm,
     queueVars, schedVars, Holding, Merging
<1>3. Bump # 0
  BY BoundAssumption DEF Bump, Inv, TypeOK
<1>4. ASSUME requeue_session PROVE RetryPart'
  BY <1>3, <1>4 DEF requeue_session, Holding, Merging, RetryPart, RetryTimed
<1>5. ASSUME merge_begin PROVE RetryPart'
  BY <1>3, <1>5 DEF merge_begin, Calm, queueVars, Holding, Merging, RetryPart, RetryTimed
<1>6. ASSUME merge_event PROVE RetryPart'
  <2>1. /\ retry' = retry /\ retryCount' = retryCount /\ send' = send
        /\ cwmp_add_queue_session /\ pc = "merge" /\ pc' = pc
    BY <1>6 DEF merge_event, Queued, Calm
  <2> QED
    BY <2>1, QueueGrows, RetryKept DEF Merging
<1>7. ASSUME merge_events_done \/ merge_rpc \/ merge_rpcs_done PROVE RetryPart'
  <2>1. /\ retry' = retry /\ retryCount' = retryCount /\ send' = send
        /\ queue' = queue /\ pc \in {"merge", "mergeRpc"} /\ pc' \notin Holding
    BY <1>7 DEF merge_events_done, merge_rpc, merge_rpcs_done, Goto, Still, Calm,
                queueVars, schedVars, Holding
  <2> QED
    BY <2>1, RetryKept DEF Merging, Holding
<1>8. ASSUME close_success PROVE RetryPart'
  <2>1. send # NULL
    BY <1>8 DEF close_success, Inv, Phase, Sending, Exchange
  <2> QED
    BY <1>8, <2>1, RetryKept DEF close_success, Goto, Still, Calm, queueVars,
       schedVars, Holding, Merging
<1>9. ASSUME destroy_event \/ destroy_rpc PROVE RetryPart'
  BY <1>9, RetryKept DEF destroy_event, destroy_rpc, Calm, schedVars, Merging
<1>10. ASSUME destroy_done PROVE RetryPart'
  BY <1>10 DEF destroy_done, SuccessCount, Holding, Merging, RetryPart, RetryTimed
<1> QED
  BY <1>1, <1>2, <1>4, <1>5, <1>6, <1>7, <1>8, <1>9, <1>10 DEF Close

LEMMA StartRetry == ASSUME Inv, RetryPart, Start PROVE RetryPart'
<1> DEFINE Fine == /\ retry' = retry /\ retryCount' = retryCount /\ send' = send
                   /\ queue' = queue \/ cwmp_add_queue_session
                   /\ pc \in Starting \union {"down"}
                   /\ pc' \in Starting \union {"ended", "lock"}
<1>1. (restart \/ load_queue_event \/ load_transfer_complete \/ load_done) => Fine
  BY DEF restart, load_queue_event, load_transfer_complete, load_done, Queued,
         Goto, Still, Calm, queueVars, schedVars, Starting
<1>2. (\/ cwmp_root_cause_event_bootstrap \/ bootstrap_flush \/ bootstrap_flushed
       \/ bootstrap_raise \/ bootstrap_url_changed) => Fine
  BY DEF cwmp_root_cause_event_bootstrap, bootstrap_flush, bootstrap_flushed,
         bootstrap_raise, bootstrap_url_changed, AfterBootstrap, RaiseSaved,
         Queued, Calm, queueVars, schedVars, Starting
<1>3. (\/ cwmp_root_cause_event_boot \/ cwmp_root_cause_getRPCMethod
       \/ connection_request_port_value_change) => Fine
  BY DEF cwmp_root_cause_event_boot, cwmp_root_cause_getRPCMethod,
         connection_request_port_value_change, AddressReported, RaiseSaved,
         Queued, Calm, queueVars, schedVars, Starting
<1>4. Fine
  BY <1>1, <1>2, <1>3 DEF Start
<1> QED
  BY <1>4, QueueGrows, RetryKept DEF Starting, Holding, Merging

(* A scheduler that waits for the retry of a session has one to retry and  *)
(* a wait that times out; the count of failures is not zero only while     *)
(* what failed is queued again or being sent (cwmp.c:183-246, 386-469).    *)
THEOREM RetryTimedHolds == Spec => []RetryTimed
<1>1. Init => RetryPart
  BY DEF Init, RetryPart, RetryTimed, Merging
<1>2. Inv /\ RetryPart /\ [Next]_vars => RetryPart'
  <2> SUFFICES ASSUME Inv, RetryPart, [Next]_vars PROVE RetryPart'
    OBVIOUS
  <2>1. CASE UNCHANGED vars
    BY <2>1, RetryKept DEF vars, queueVars, schedVars, Merging
  <2>2. CASE crash \/ \E c \in TransferCode, k \in CmdKey : transfer_exit(c, k)
    BY <2>2 DEF crash, transfer_exit, ProcessEnds, RetryPart, RetryTimed, Merging
  <2> QED
    BY <2>1, <2>2, ProduceRetry, ScheduleRetry, ConverseRetry, CloseRetry,
       StartRetry DEF Next
<1>3. RetryPart => RetryTimed
  BY DEF RetryPart
<1> QED
  BY <1>1, <1>2, <1>3, Invariant, PTL DEF Spec

-----------------------------------------------------------------------------
(* Lists of events.                                                        *)

(* SINGLE events have no command key, and parameters belong to VALUE       *)
(* CHANGE: an event that is added to a list which has one of its code can  *)
(* be told from it by nothing, and what it carries can be added to it.     *)
KeyOK(c, k) == c \in Single => k = ""
EventOK(e) == KeyOK(e.code, e.key) /\ (e.params # {} => e.code = VALUE_CHANGE)
AllOK(es) == \A e \in ToSet(es) : EventOK(e)

(* The list has an event of this code and key, with these parameters.      *)
Holds(es, c, k, ps) ==
    \E f \in ToSet(es) : f.code = c /\ f.key = k /\ ps \subseteq f.params
Covered(es, fs) == \A e \in ToSet(es) : Holds(fs, e.code, e.key, e.params)

LEMMA CoveredTransitive ==
    ASSUME NEW es, NEW fs, NEW gs, Covered(es, fs), Covered(fs, gs)
    PROVE  Covered(es, gs)
<1> SUFFICES ASSUME NEW e \in ToSet(es)
             PROVE  \E g \in ToSet(gs) : g.code = e.code /\ g.key = e.key /\ e.params \subseteq g.params
  BY DEF Covered, Holds
<1>1. PICK f \in ToSet(fs) : f.code = e.code /\ f.key = e.key /\ e.params \subseteq f.params
  BY DEF Covered, Holds
<1>2. PICK g \in ToSet(gs) : g.code = f.code /\ g.key = f.key /\ f.params \subseteq g.params
  BY DEF Covered, Holds
<1> QED
  BY <1>1, <1>2

LEMMA SubsetCovered ==
    ASSUME NEW es, NEW fs, ToSet(es) \subseteq ToSet(fs)
    PROVE  Covered(es, fs)
BY DEF Covered, Holds

(* The list a critical section builds from the queued one.                 *)
Section(st) == /\ st \in ListState /\ Ordered(st.evs)
               /\ AllOK(st.evs) /\ Covered(QueuedEvents, st.evs)

LEMMA AddedEvents ==
    ASSUME NEW st \in ListState, Ordered(st.evs), AllOK(st.evs),
           NEW c \in EventCode, NEW k \in Key, KeyOK(c, k)
    PROVE  LET new == AddEvent(st, c, k)
           IN  /\ ToSet(st.evs) \subseteq ToSet(new.evs)
               /\ AllOK(new.evs)
               /\ new.evs[new.at].code = c /\ new.evs[new.at].key = k
<1> DEFINE es == st.evs
           p == Stop(es, c)
           e == NewEvent(c, k, NextId(st.id))
           new == AddEvent(st, c, k)
<1>1. es \in Seq(Event) /\ st.id \in Nat /\ p \in 1 .. Len(es) + 1
  BY StopProperties DEF ListState
<1>2. e \in Event /\ e.code = c /\ e.key = k /\ e.params = {}
  BY <1>1, NextIdType, NewEventType DEF NewEvent
<1>3. CASE Present(es, c)
  <2>1. new = [evs |-> es, id |-> st.id, at |-> p]
    BY <1>3 DEF AddEvent
  <2>2. p <= Len(es) /\ es[p].code = c
    BY <1>3 DEF Present
  <2>3. c \in Single
    <3>1. Len(es) \in Nat /\ p \in 1 .. Len(es)
      BY <1>1, <2>2, LenProperties
    <3>2. es[p].code > c \/ (es[p].code = c /\ c \in Single)
      BY <1>1, <2>2, StopProperties
    <3>3. c \in Nat
      BY DEF EventCode
    <3> QED
      BY <2>2, <3>2, <3>3
  <2>4. es[p] \in ToSet(es)
    <3>1. Len(es) \in Nat /\ p \in 1 .. Len(es)
      BY <1>1, <2>2, LenProperties
    <3> QED
      BY <1>1, <3>1, ElementsOf
  <2>5. es[p].key = "" /\ k = ""
    BY <2>2, <2>3, <2>4 DEF AllOK, EventOK, KeyOK
  <2> HIDE DEF p
  <2>6. new.evs = es /\ new.at = p
    BY <2>1
  <2> HIDE DEF new
  <2>7. /\ ToSet(es) \subseteq ToSet(new.evs) /\ AllOK(new.evs)
        /\ new.evs[new.at].code = c /\ new.evs[new.at].key = k
    BY <2>2, <2>5, <2>6
  <2> QED
    BY <2>7 DEF new
<1>4. CASE ~Present(es, c)
  <2>1. new = [evs |-> InsertAt(es, p, e), id |-> NextId(st.id), at |-> p]
    BY <1>4 DEF AddEvent
  <2> HIDE DEF p, e, es
  <2>2. ToSet(InsertAt(es, p, e)) = ToSet(es) \union {e} /\ InsertAt(es, p, e)[p] = e
    <3>1. Len(es) \in Nat
      BY <1>1, LenProperties
    <3> QED
      BY <1>1, <1>2, <3>1, InsertAtProperties, ElementsInserted
  <2>3. EventOK(e)
    BY <1>2 DEF EventOK
  <2>4. AllOK(InsertAt(es, p, e))
    BY <2>2, <2>3 DEF AllOK, es
  <2> QED
    BY <1>2, <2>1, <2>2, <2>4 DEF es
<1> QED
  BY <1>3, <1>4

(* Changing the container at st.at to one of the same code and key that    *)
(* has at least its parameters.                                            *)
LEMMA ExceptCovered ==
    ASSUME NEW st, Good(st), AllOK(st.evs), NEW e \in Event, EventOK(e),
           e.code = st.evs[st.at].code, e.key = st.evs[st.at].key,
           st.evs[st.at].params \subseteq e.params
    PROVE  LET es == [st.evs EXCEPT ![st.at] = e]
           IN  /\ AllOK(es) /\ Covered(st.evs, es)
               /\ es[st.at] = e
<1> DEFINE es == [st.evs EXCEPT ![st.at] = e]
<1>1. st.evs \in Seq(Event) /\ st.at \in 1 .. Len(st.evs)
  BY GoodAt
<1>2. /\ es \in Seq(Event) /\ Len(es) = Len(st.evs)
      /\ \A j \in 1 .. Len(st.evs) : es[j] = IF j = st.at THEN e ELSE st.evs[j]
  BY <1>1, ExceptSeq
<1> HIDE DEF es
<1>3. AllOK(es)
  <2> SUFFICES ASSUME NEW j \in 1 .. Len(st.evs) PROVE EventOK(es[j])
    BY <1>2, ElementsOf DEF AllOK
  <2>1. st.evs[j] \in ToSet(st.evs)
    BY <1>1, ElementsOf
  <2> QED
    BY <1>2, <2>1 DEF AllOK
<1>4. Covered(st.evs, es)
  <2> SUFFICES ASSUME NEW j \in 1 .. Len(st.evs)
               PROVE  Holds(es, st.evs[j].code, st.evs[j].key, st.evs[j].params)
    BY <1>1, ElementsOf DEF Covered
  <2>1. es[j] \in ToSet(es)
    BY <1>2, ElementsOf
  <2>2. es[j].code = st.evs[j].code /\ es[j].key = st.evs[j].key
        /\ st.evs[j].params \subseteq es[j].params
    BY <1>2
  <2> QED
    BY <2>1, <2>2 DEF Holds
<1>5. es[st.at] = e
  BY <1>1, <1>2
<1> QED
  BY <1>3, <1>4, <1>5 DEF es

LEMMA SectionGood ==
    ASSUME NEW st, Good(st), AllOK(st.evs), Covered(QueuedEvents, st.evs)
    PROVE  Section(st)
BY GoodAt DEF Section

(* The calls a critical section is made of.                                *)
LEMMA SectionAdd ==
    ASSUME NEW st, Section(st), NEW c \in EventCode, NEW k \in Key, KeyOK(c, k)
    PROVE  /\ Good(AddEvent(st, c, k)) /\ Section(AddEvent(st, c, k))
           /\ AddEvent(st, c, k).evs[AddEvent(st, c, k).at].code = c
           /\ AddEvent(st, c, k).evs[AddEvent(st, c, k).at].key = k
           /\ ToSet(st.evs) \subseteq ToSet(AddEvent(st, c, k).evs)
<1> DEFINE new == AddEvent(st, c, k)
<1>1. Good(new)
  BY GoodAdd DEF Section
<1>2. /\ ToSet(st.evs) \subseteq ToSet(new.evs) /\ AllOK(new.evs)
      /\ new.evs[new.at].code = c /\ new.evs[new.at].key = k
  BY AddedEvents DEF Section
<1> HIDE DEF new
<1>3. Covered(QueuedEvents, new.evs)
  BY <1>2, SubsetCovered, CoveredTransitive DEF Section
<1> QED
  BY <1>1, <1>2, <1>3, SectionGood DEF new

(* The same with a name for the list that the call leaves.                 *)
LEMMA SectionAdded ==
    ASSUME NEW st, Section(st), NEW c \in EventCode, NEW k \in Key, KeyOK(c, k),
           NEW new, new = AddEvent(st, c, k)
    PROVE  /\ Good(new) /\ Section(new)
           /\ new.evs[new.at].code = c /\ new.evs[new.at].key = k
           /\ ToSet(st.evs) \subseteq ToSet(new.evs)
BY SectionAdd

LEMMA AtOK ==
    ASSUME NEW st, Good(st), Section(st)
    PROVE  st.evs[st.at] \in Event /\ EventOK(st.evs[st.at])
<1>1. st.evs[st.at] \in ToSet(st.evs)
  BY GoodAt, ElementsOf
<1> QED
  BY <1>1, GoodAt DEF Section, AllOK

LEMMA SectionSaved ==
    ASSUME NEW st, Good(st), Section(st)
    PROVE  /\ Good(Saved(st)) /\ Section(Saved(st))
           /\ Saved(st).evs[Saved(st).at].code = st.evs[st.at].code
           /\ Saved(st).evs[Saved(st).at].key = st.evs[st.at].key
           /\ Covered(st.evs, Saved(st).evs)
<1> DEFINE x == st.evs[st.at]
           e == [x EXCEPT !.saved = TRUE]
<1>1. x \in Event /\ EventOK(x)
  BY AtOK
<1> HIDE DEF x
<1>2. e \in Event /\ e.code = x.code /\ e.key = x.key /\ e.params = x.params
  BY <1>1 DEF Event
<1>3. EventOK(e)
  BY <1>1, <1>2 DEF EventOK
<1> HIDE DEF e
<1>4. CASE Persistent(st)
  <2>1. Good(Saved(st))
    BY GoodSaved
  <2>2. Saved(st).evs = [st.evs EXCEPT ![st.at] = e] /\ Saved(st).at = st.at
    <3>1. [st.evs EXCEPT ![st.at].saved = TRUE] = [st.evs EXCEPT ![st.at] = e]
      BY DEF e, x
    <3>2. st \in [evs : Seq(Event), id : Nat, at : Nat]
      BY DEF Good, ListState
    <3> QED
      BY <1>4, <3>1, <3>2 DEF Saved
  <2>3. /\ e.code = st.evs[st.at].code /\ e.key = st.evs[st.at].key
        /\ st.evs[st.at].params \subseteq e.params
    BY <1>2 DEF x
  <2> DEFINE new == Saved(st)
  <2> HIDE DEF new
  <2>4. Good(new) /\ new.evs = [st.evs EXCEPT ![st.at] = e] /\ new.at = st.at
    BY <2>1, <2>2 DEF new
  <2>5. AllOK(new.evs) /\ Covered(st.evs, new.evs) /\ new.evs[new.at] = e
    BY <1>2, <1>3, <2>3, <2>4, ExceptCovered DEF Section
  <2>6. Section(new)
    BY <2>4, <2>5, SectionGood, CoveredTransitive DEF Section
  <2> USE DEF new
  <2> QED
    BY <1>2, <2>1, <2>5, <2>6 DEF x
<1>5. CASE ~Persistent(st)
  BY <1>5, SubsetCovered DEF Saved
<1> QED
  BY <1>4, <1>5

LEMMA SectionSpliced ==
    ASSUME NEW st, Good(st), Section(st), NEW ps \in SUBSET Params,
           ps # {} => st.evs[st.at].code = VALUE_CHANGE
    PROVE  LET new == Spliced(st, ps)
           IN  /\ Good(new) /\ Section(new)
               /\ new.evs[new.at].code = st.evs[st.at].code
               /\ new.evs[new.at].key = st.evs[st.at].key
               /\ ps \subseteq new.evs[new.at].params
<1> DEFINE x == st.evs[st.at]
           e == [x EXCEPT !.params = @ \union ps]
           new == Spliced(st, ps)
<1>1. x \in Event /\ EventOK(x) /\ (ps # {} => x.code = VALUE_CHANGE)
  BY AtOK
<1> HIDE DEF x
<1>2. e \in Event /\ e.code = x.code /\ e.key = x.key /\ e.params = x.params \union ps
  BY <1>1 DEF Event
<1>3. EventOK(e)
  BY <1>1, <1>2 DEF EventOK
<1>4. Good(new)
  BY GoodSpliced
<1>5. new.evs = [st.evs EXCEPT ![st.at] = e] /\ new.at = st.at
  <2>1. [st.evs EXCEPT ![st.at].params = @ \union ps] = [st.evs EXCEPT ![st.at] = e]
    BY DEF x
  <2>2. st \in [evs : Seq(Event), id : Nat, at : Nat]
    BY DEF Good, ListState
  <2> HIDE DEF e
  <2> QED
    BY <2>1, <2>2 DEF Spliced
<1> HIDE DEF e, new
<1>6. Section(new) /\ new.evs[new.at] = e
  <2>1. /\ e.code = st.evs[st.at].code /\ e.key = st.evs[st.at].key
        /\ st.evs[st.at].params \subseteq e.params
    BY <1>2 DEF x
  <2>2. AllOK(new.evs) /\ Covered(st.evs, new.evs) /\ new.evs[new.at] = e
    BY <1>2, <1>3, <1>5, <2>1, ExceptCovered DEF Section
  <2>3. Section(new)
    BY <1>4, <2>2, SectionGood, CoveredTransitive DEF Section
  <2> QED
    BY <2>2, <2>3
<1>7. /\ Good(new) /\ Section(new)
      /\ new.evs[new.at].code = x.code /\ new.evs[new.at].key = x.key
      /\ ps \subseteq new.evs[new.at].params
  BY <1>2, <1>4, <1>6
<1> QED
  BY <1>7 DEF new, x

-----------------------------------------------------------------------------
(* The backup tree.                                                        *)

(* Only events that are kept over a restart are recorded, and transfers    *)
(* under the code of their method.                                         *)
NodeOK(n) == IF n.name \in EventName
             THEN n.code \in RetryAfterReboot /\ KeyOK(n.code, n.key)
             ELSE n.code \notin Single
NodesOK(ns) == \A n \in ToSet(ns) : NodeOK(n)

(* The nodes record an event of this code and key; ns records only what ms *)
(* records.                                                                *)
Recorded(ns, c, k) ==
    \E n \in ToSet(ns) : n.name \in EventName /\ n.code = c /\ n.key = k
Within(ns, ms) ==
    \A n \in ToSet(ns) : n.name \in EventName => Recorded(ms, n.code, n.key)

LEMMA WithinTransitive ==
    ASSUME NEW ns, NEW ms, NEW ls, Within(ns, ms), Within(ms, ls)
    PROVE  Within(ns, ls)
<1> SUFFICES ASSUME NEW n \in ToSet(ns), n.name \in EventName
             PROVE  Recorded(ls, n.code, n.key)
  BY DEF Within
<1>1. PICK m \in ToSet(ms) : m.name \in EventName /\ m.code = n.code /\ m.key = n.key
  BY DEF Within, Recorded
<1>2. Recorded(ls, m.code, m.key)
  BY <1>1 DEF Within
<1> QED
  BY <1>1, <1>2

LEMMA SubsetWithin ==
    ASSUME NEW ns, NEW ms, ToSet(ns) \subseteq ToSet(ms)
    PROVE  Within(ns, ms) /\ (NodesOK(ms) => NodesOK(ns))
BY DEF Within, Recorded, NodesOK

LEMMA InsertedNodes ==
    ASSUME NEW ns \in Seq(Node), NEW e \in Event, e.code \in RetryAfterReboot, EventOK(e)
    PROVE  /\ NodesOK(ns) => NodesOK(bkp_session_insert_event(ns, e))
           /\ Within(ns, bkp_session_insert_event(ns, e))
           /\ \A n \in ToSet(bkp_session_insert_event(ns, e)) :
                 n \in ToSet(ns) \/ (n.code = e.code /\ n.key = e.key)
<1> DEFINE new == bkp_session_insert_event(ns, e)
           rec == [name |-> "queue_event", id |-> e.id, code |-> e.code, key |-> e.key]
<1>1. rec \in Node /\ rec.code = e.code /\ rec.key = e.key /\ rec.name \in EventName
  BY EventFields DEF Node, EventName
<1>2. NodeOK(rec)
  BY <1>1 DEF NodeOK, EventOK
<1>3. new = ns \/ new = Append(ns, rec)
  BY DEF bkp_session_insert_event
<1> HIDE DEF rec, new
<1>4. ToSet(Append(ns, rec)) = ToSet(ns) \union {rec}
  BY <1>1, ElementsAppended
<1>5. ToSet(ns) \subseteq ToSet(new) /\ ToSet(new) \subseteq ToSet(ns) \union {rec}
  BY <1>3, <1>4
<1>6. Within(ns, new)
  BY <1>5, SubsetWithin
<1>7. NodesOK(ns) => NodesOK(new)
  BY <1>2, <1>5 DEF NodesOK
<1>8. \A n \in ToSet(new) : n \in ToSet(ns) \/ (n.code = e.code /\ n.key = e.key)
  BY <1>1, <1>5
<1>9. /\ NodesOK(ns) => NodesOK(new)
      /\ Within(ns, new)
      /\ \A n \in ToSet(new) : n \in ToSet(ns) \/ (n.code = e.code /\ n.key = e.key)
  BY <1>6, <1>7, <1>8
<1> QED
  BY <1>9 DEF new

(* A record is taken out: what it records may still be recorded by another. *)
LEMMA RemovedNodes ==
    ASSUME NEW ns \in Seq(Node), NEW I \in SUBSET (1 .. Len(ns))
    PROVE  LET new == RemoveFirstOf(ns, I)
           IN  /\ ToSet(new) \subseteq ToSet(ns)
               /\ (\A i \in I : ns[i].name \notin EventName) => Within(ns, new)
<1> DEFINE new == RemoveFirstOf(ns, I)
<1>1. CASE I = {}
  <2>1. new = ns
    BY <1>1 DEF RemoveFirstOf
  <2> HIDE DEF new
  <2>2. ToSet(new) \subseteq ToSet(ns) /\ Within(ns, new)
    BY <2>1, SubsetWithin
  <2> QED
    BY <2>2 DEF new
<1>2. CASE I # {}
  <2>1. PICK i \in I : i = Min(I)
    <3>1. I \in SUBSET Nat
      BY LenProperties
    <3> QED
      BY <1>2, <3>1, MinNat
  <2>2. new = RemoveAt(ns, i) /\ i \in 1 .. Len(ns)
    BY <1>2, <2>1 DEF RemoveFirstOf
  <2> HIDE DEF new
  <2>3. /\ ToSet(new) \subseteq ToSet(ns)
        /\ \A x \in ToSet(ns) : x # ns[i] => x \in ToSet(new)
    BY <2>2, ElementsRemoved
  <2>4. ASSUME ns[i].name \notin EventName PROVE Within(ns, new)
    BY <2>3, <2>4 DEF Within, Recorded
  <2> QED
    BY <2>1, <2>3, <2>4 DEF new
<1> QED
  BY <1>1, <1>2

LEMMA DeletedNodes ==
    ASSUME NEW ns \in Seq(Node), NEW id, NEW name
    PROVE  LET new == bkp_session_delete_event(ns, id, name)
           IN  ToSet(new) \subseteq ToSet(ns) /\ Within(new, ns) /\ (NodesOK(ns) => NodesOK(new))
<1>1. Matches(ns, name, id) \in SUBSET (1 .. Len(ns))
  BY DEF Matches
<1>2. ToSet(bkp_session_delete_event(ns, id, name)) \subseteq ToSet(ns)
  BY <1>1, RemovedNodes DEF bkp_session_delete_event
<1> QED
  BY <1>2, SubsetWithin

(* Records of transfers leave those of events alone.                       *)
LEMMA TransferNodes ==
    ASSUME NEW t \in Tree, NodesOK(t.nodes), NEW c \in EventCode, NEW k \in Key,
           c \notin Single
    PROVE  LET with == WithRecord(t, c, k)
               without == WithoutRecord(t, c, k)
           IN  /\ NodesOK(with.nodes) /\ Within(with.nodes, t.nodes) /\ Within(t.nodes, with.nodes)
               /\ NodesOK(without.nodes) /\ Within(without.nodes, t.nodes)
               /\ Within(t.nodes, without.nodes)
<1> DEFINE ns == t.nodes
           n == [name |-> "transfer_complete", id |-> 0, code |-> c, key |-> k]
           with == WithRecord(t, c, k)
           without == WithoutRecord(t, c, k)
<1>1. ns \in Seq(Node)
  BY TreeNodes
<1>2. n \in Node /\ n.name \notin EventName /\ NodeOK(n)
  BY DEF Node, EventName, NodeOK
<1>3. with.nodes = ns \/ with.nodes = Append(ns, n)
  BY DEF WithRecord, Tree, bkp_session_insert_transfer_complete,
         bkp_session_insert_du_state_change_complete
<1>4. without.nodes = bkp_session_delete_transfer_complete(ns, c, k)
  BY DEF WithoutRecord, Tree
<1> HIDE DEF ns, n, with, without
<1>5. NodesOK(with.nodes) /\ Within(with.nodes, ns) /\ Within(ns, with.nodes)
  <2>1. ToSet(Append(ns, n)) = ToSet(ns) \union {n}
    BY <1>1, <1>2, ElementsAppended
  <2>2. ToSet(ns) \subseteq ToSet(with.nodes) /\ ToSet(with.nodes) \subseteq ToSet(ns) \union {n}
    BY <1>3, <2>1
  <2>3. Within(with.nodes, ns)
    BY <1>2, <2>2 DEF Within, Recorded
  <2> QED
    BY <1>2, <2>2, <2>3, SubsetWithin DEF NodesOK, ns
<1>6. NodesOK(without.nodes) /\ Within(without.nodes, ns) /\ Within(ns, without.nodes)
  <2>1. /\ Transfers(ns, c, k) \in SUBSET (1 .. Len(ns))
        /\ \A i \in Transfers(ns, c, k) : ns[i].name \notin EventName
    BY DEF Transfers, EventName
  <2>2. ToSet(without.nodes) \subseteq ToSet(ns) /\ Within(ns, without.nodes)
    BY <1>1, <1>4, <2>1, RemovedNodes DEF bkp_session_delete_transfer_complete
  <2> QED
    BY <2>2, SubsetWithin DEF ns
<1> QED
  BY <1>5, <1>6 DEF ns, with, without

LEMMA RenamedNodes ==
    ASSUME NEW ns \in Seq(Node), NodesOK(ns), NEW old \in EventName, NEW to \in EventName
    PROVE  LET new == Rename(ns, old, to)
           IN  /\ NodesOK(new) /\ Within(ns, new) /\ Within(new, ns)
               /\ old # to => \A n \in ToSet(new) : n.name # old
               /\ \A n \in ToSet(ns) : n.name \notin EventName => n \in ToSet(new)
<1> DEFINE new == Rename(ns, old, to)
<1>1. Len(ns) \in Nat /\ \A i \in 1 .. Len(ns) : ns[i] \in Node
  BY LenProperties, ElementOfSeq
<1>2. \A i \in 1 .. Len(ns) :
        (IF ns[i].name = old THEN [ns[i] EXCEPT !.name = to] ELSE ns[i]) \in Node
  BY <1>1 DEF Node
<1>3. /\ new \in Seq(Node) /\ Len(new) = Len(ns)
      /\ \A i \in 1 .. Len(ns) :
            new[i] = IF ns[i].name = old THEN [ns[i] EXCEPT !.name = to] ELSE ns[i]
  BY <1>1, <1>2 DEF Rename
<1> HIDE DEF new
<1>4. ASSUME NEW i \in 1 .. Len(ns)
      PROVE  /\ new[i].code = ns[i].code /\ new[i].key = ns[i].key
             /\ new[i].name = IF ns[i].name = old THEN to ELSE ns[i].name
             /\ ns[i].name \notin EventName => new[i] = ns[i]
  <2> DEFINE x == ns[i]
  <2>1. x \in Node /\ new[i] = IF x.name = old THEN [x EXCEPT !.name = to] ELSE x
    BY <1>1, <1>3
  <2> HIDE DEF x
  <2>2. /\ new[i].code = x.code /\ new[i].key = x.key
        /\ new[i].name = IF x.name = old THEN to ELSE x.name
        /\ x.name \notin EventName => new[i] = x
    BY <2>1 DEF Node
  <2> QED
    BY <2>2 DEF x
<1>5. /\ \A x : x \in ToSet(ns) <=> \E i \in 1 .. Len(ns) : ns[i] = x
      /\ \A x : x \in ToSet(new) <=> \E i \in 1 .. Len(ns) : new[i] = x
  BY <1>3, ElementsOf
<1>6. NodesOK(new)
  <2> SUFFICES ASSUME NEW i \in 1 .. Len(ns) PROVE NodeOK(new[i])
    BY <1>5 DEF NodesOK
  <2>1. NodeOK(ns[i])
    BY <1>5 DEF NodesOK
  <2> QED
    BY <1>4, <2>1 DEF NodeOK
<1>7. Within(ns, new)
  <2> SUFFICES ASSUME NEW i \in 1 .. Len(ns), ns[i].name \in EventName
               PROVE  Recorded(new, ns[i].code, ns[i].key)
    BY <1>5 DEF Within
  <2>1. new[i] \in ToSet(new) /\ new[i].name \in EventName
    BY <1>4, <1>5
  <2> QED
    BY <1>4, <2>1 DEF Recorded
<1>8. Within(new, ns)
  <2> SUFFICES ASSUME NEW i \in 1 .. Len(ns), new[i].name \in EventName
               PROVE  Recorded(ns, new[i].code, new[i].key)
    BY <1>5 DEF Within
  <2>1. ns[i] \in ToSet(ns) /\ ns[i].name \in EventName
    BY <1>4, <1>5
  <2> QED
    BY <1>4, <2>1 DEF Recorded
<1>9. /\ old # to => \A n \in ToSet(new) : n.name # old
      /\ \A n \in ToSet(ns) : n.name \notin EventName => n \in ToSet(new)
  BY <1>4, <1>5
<1> QED
  BY <1>6, <1>7, <1>8, <1>9 DEF new

-----------------------------------------------------------------------------
(* The invariant.                                                          *)

EventsPart == \A s \in Sid : AllOK(events[s])

(* The file records what the tree records, and nothing else but while the  *)
(* events of a session are being removed.                                  *)
HasInform(rs) == rs # <<>> /\ rs[1].type = "Inform"
Clean == /\ pc # "ack"
         /\ pc = "flush" => head = NULL
         /\ pc = "destroy" => ~HasInform(rpcs[session])
TreePart == /\ NodesOK(bkp.nodes) /\ NodesOK(file.nodes)
            /\ Within(bkp.nodes, file.nodes)
            /\ Clean => Within(file.nodes, bkp.nodes)

(* What the queued session has of the one that failed.                     *)
IsReport(r) == r.type \in {"TransferComplete", "DUStateChangeComplete"}
Held(e) == head # NULL /\ Holds(events[head], e.code, e.key, e.params)

(* A session has its Inform until its events are reported; what a session  *)
(* still has when it is torn down, the queued session has too.             *)
SessionPart ==
    /\ session # NULL =>
          /\ Sent(rpcs[session])
          /\ HasInform(rpcs[session]) \/ events[session] = <<>>
    /\ pc = "ack" => HasInform(rpcs[session])
    /\ pc \in {"endf", "ended", "close"} \union Starting /\ send # NULL /\ err = "OK"
          => rpcs[session] = <<>>
    /\ pc = "merge" =>
          \A i \in 1 .. Len(events[session]) : i < idx => Held(events[session][i])
    /\ pc = "mergeRpc" \/ (pc = "destroy" /\ send = NULL) =>
          /\ queue # <<>>
          /\ \A e \in ToSet(events[session]) : Held(e)
    /\ pc = "mergeRpc" =>
          \A i \in 1 .. Len(rpcs[session]) : i < idx => ~IsReport(rpcs[session][i])
    /\ pc = "destroy" /\ send = NULL => \A r \in ToSet(rpcs[session]) : ~IsReport(r)
    /\ pc = "destroy" /\ send # NULL =>
          events[session] = <<>> /\ (rpcs[session] = <<>> \/ crEvent = 1)

(* What start-up has raised again of the file.                             *)
Back(n) == IF n.name \in EventName THEN Holds(QueuedEvents, n.code, n.key, {})
           ELSE CompleteRpc(n.code, n.key) \in ToSet(QueuedRpcs)
LoadPart ==
    /\ pc = "load" =>
          /\ file = bkp
          /\ \A n \in ToSet(bkp.nodes) : n.name # "send_event"
          /\ \A i \in 1 .. Len(bkp.nodes) : i < idx => Back(bkp.nodes[i])
    /\ pc = "bootstrap" /\ send = NULL => \A n \in ToSet(file.nodes) : Back(n)
    /\ pc = "down" => queue = <<>>

Owing == Inv /\ EventsPart /\ TreePart /\ SessionPart /\ LoadPart

-----------------------------------------------------------------------------
(* What a step keeps of what is owed.  An event that is not retried and    *)
(* has no parameters is owed to nobody.                                    *)
Held2(c, k, ps) == \E t \in Live' : Holds(events'[t], c, k, ps)
EventsKept ==
    \A s \in Live : \A e \in ToSet(events[s]) :
        (e.code \in NoRetry /\ e.params = {}) \/ Held2(e.code, e.key, e.params)
RpcsKept ==
    \A s \in Live : \A r \in ToSet(rpcs[s]) :
        IsReport(r) => \E t \in Live' : r \in ToSet(rpcs'[t])
ChangesKept ==
    \A p \in vc : p \in vc' \/ \E t \in Live' : \E f \in ToSet(events'[t]) : p \in f.params
FileOwed ==
    \A n \in ToSet(file'.nodes) : n.name \in EventName =>
        \/ Recorded(file.nodes, n.code, n.key)
        \/ n.code \notin NoRetry /\ Held2(n.code, n.key, {})

LEMMA OwedFacts ==
    /\ \A c, k : <<c, k>> \in Owed <=>
          c \notin NoRetry /\ \E s \in Live : Holds(events[s], c, k, {})
    /\ \A p : p \in OwedParams <=>
          p \in vc \/ \E s \in Live : \E e \in ToSet(events[s]) : p \in e.params
    /\ \A r : r \in Reports <=> IsReport(r) /\ \E s \in Live : r \in ToSet(rpcs[s])
    /\ \A c, k : <<c, k>> \in Stored <=> Recorded(file.nodes, c, k)
    /\ \A x \in Owed : \E c, k : x = <<c, k>>
    /\ \A x \in Stored : \E c, k : x = <<c, k>>
<1>1. ASSUME NEW c, NEW k
      PROVE  <<c, k>> \in Owed <=>
                c \notin NoRetry /\ \E s \in Live : Holds(events[s], c, k, {})
  BY DEF Owed, Pending, Holds
<1>2. ASSUME NEW p
      PROVE  p \in OwedParams <=>
                p \in vc \/ \E s \in Live : \E e \in ToSet(events[s]) : p \in e.params
  BY DEF OwedParams, Pending
<1>3. ASSUME NEW r
      PROVE  r \in Reports <=> IsReport(r) /\ \E s \in Live : r \in ToSet(rpcs[s])
  BY DEF Reports, IsReport
<1>4. ASSUME NEW c, NEW k
      PROVE  <<c, k>> \in Stored <=> Recorded(file.nodes, c, k)
  BY DEF Stored, Recorded
<1>5. \A x \in Owed : \E c, k : x = <<c, k>>
  BY DEF Owed
<1>6. \A x \in Stored : \E c, k : x = <<c, k>>
  BY DEF Stored
<1> QED
  BY <1>1, <1>2, <1>3, <1>4, <1>5, <1>6

LEMMA OwedNext ==
    /\ \A c, k : <<c, k>> \in Owed' <=> c \notin NoRetry /\ Held2(c, k, {})
    /\ \A p : p \in OwedParams' <=>
          p \in vc' \/ \E s \in Live' : \E e \in ToSet(events'[s]) : p \in e.params
    /\ \A r : r \in Reports' <=> IsReport(r) /\ \E s \in Live' : r \in ToSet(rpcs'[s])
    /\ \A c, k : <<c, k>> \in Stored' <=> Recorded(file'.nodes, c, k)
    /\ \A x \in Owed' : \E c, k : x = <<c, k>>
    /\ \A x \in Stored' : \E c, k : x = <<c, k>>
<1>1. ASSUME NEW c, NEW k
      PROVE  <<c, k>> \in Owed' <=> c \notin NoRetry /\ Held2(c, k, {})
  BY DEF Owed, Pending, Holds, Held2
<1>2. ASSUME NEW p
      PROVE  p \in OwedParams' <=>
                p \in vc' \/ \E s \in Live' : \E e \in ToSet(events'[s]) : p \in e.params
  BY DEF OwedParams, Pending
<1>3. ASSUME NEW r
      PROVE  r \in Reports' <=> IsReport(r) /\ \E s \in Live' : r \in ToSet(rpcs'[s])
  BY DEF Reports, IsReport
<1>4. ASSUME NEW c, NEW k
      PROVE  <<c, k>> \in Stored' <=> Recorded(file'.nodes, c, k)
  BY DEF Stored, Recorded
<1>5. \A x \in Owed' : \E c, k : x = <<c, k>>
  BY DEF Owed
<1>6. \A x \in Stored' : \E c, k : x = <<c, k>>
  BY DEF Stored
<1> QED
  BY <1>1, <1>2, <1>3, <1>4, <1>5, <1>6

LEMMA OwedKept ==
    ASSUME EventsKept
    PROVE  Owed \subseteq Owed'
<1> SUFFICES ASSUME NEW c, NEW k, <<c, k>> \in Owed PROVE <<c, k>> \in Owed'
  BY OwedFacts
<1>1. PICK s \in Live : Holds(events[s], c, k, {})
  BY OwedFacts
<1>2. c \notin NoRetry
  BY OwedFacts
<1>3. PICK e \in ToSet(events[s]) : e.code = c /\ e.key = k
  BY <1>1 DEF Holds
<1>4. Held2(c, k, e.params)
  BY <1>2, <1>3 DEF EventsKept
<1>5. Held2(c, k, {})
  BY <1>4 DEF Held2, Holds
<1> QED
  BY <1>2, <1>5, OwedNext

LEMMA ParamsStay ==
    ASSUME EventsKept, ChangesKept
    PROVE  OwedParams \subseteq OwedParams'
<1> SUFFICES ASSUME NEW p \in OwedParams PROVE p \in OwedParams'
  OBVIOUS
<1>1. p \in vc \/ \E s \in Live : \E e \in ToSet(events[s]) : p \in e.params
  BY OwedFacts
<1>2. CASE p \in vc
  BY <1>2, OwedNext DEF ChangesKept
<1>3. ASSUME NEW s \in Live, NEW e \in ToSet(events[s]), p \in e.params
      PROVE  p \in OwedParams'
  <2>1. Held2(e.code, e.key, e.params)
    BY <1>3 DEF EventsKept
  <2>2. \E t \in Live' : \E f \in ToSet(events'[t]) : p \in f.params
    BY <1>3, <2>1 DEF Held2, Holds
  <2> QED
    BY <2>2, OwedNext
<1> QED
  BY <1>1, <1>2, <1>3

LEMMA ReportsStay ==
    ASSUME RpcsKept
    PROVE  Reports \subseteq Reports'
BY OwedFacts, OwedNext DEF RpcsKept

LEMMA FileFollows ==
    ASSUME FileOwed
    PROVE  Stored' \subseteq Stored \union Owed'
<1> SUFFICES ASSUME NEW c, NEW k, <<c, k>> \in Stored'
             PROVE  <<c, k>> \in Stored \union Owed'
  BY OwedNext
<1>1. PICK n \in ToSet(file'.nodes) : n.name \in EventName /\ n.code = c /\ n.key = k
  BY OwedNext DEF Recorded
<1>2. Recorded(file.nodes, c, k) \/ (c \notin NoRetry /\ Held2(c, k, {}))
  BY <1>1 DEF FileOwed
<1> QED
  BY <1>2, OwedFacts, OwedNext

(* A step that loses nothing.                                              *)
Keeping == /\ EventsKept /\ RpcsKept /\ ChangesKept /\ FileOwed
           /\ pc # "down" /\ pc' # "down" /\ (pc = "load" => pc' = "load")

LEMMA OwedType ==
    ASSUME Inv
    PROVE  Owed \subseteq EventCode \X Key
<1> SUFFICES ASSUME NEW c, NEW k, <<c, k>> \in Owed PROVE c \in EventCode /\ k \in Key
  BY OwedFacts
<1>1. PICK s \in Live : Holds(events[s], c, k, {})
  BY OwedFacts
<1>2. s \in Sid
  <2>1. \A x \in ToSet(queue) : x \in Sid
    BY ToSetType DEF Inv, TypeOK
  <2> QED
    BY <2>1 DEF Live, Inv, TypeOK
<1>3. events[s] \in Seq(Event)
  BY <1>2 DEF Inv, TypeOK
<1>4. PICK e \in ToSet(events[s]) : e.code = c /\ e.key = k
  BY <1>1 DEF Holds
<1>5. e \in Event
  BY <1>3, <1>4, ElementsOf
<1> QED
  BY <1>4, <1>5, EventFields

LEMMA KeepingRaises ==
    ASSUME Keeping, Owed' \subseteq EventCode \X Key
    PROVE  Delivery!Raise
<1>1. Owed \subseteq Owed' /\ Stored' \subseteq Stored \union Owed'
  BY OwedKept, FileFollows DEF Keeping
<1>2. /\ PhaseOf # "down" /\ PhaseOf' # "down" /\ PhaseOf' \in Delivery!Phase
      /\ PhaseOf = "recovering" => PhaseOf' = "recovering"
  BY DEF Keeping, PhaseOf, Delivery!Phase
<1> QED
  BY <1>1, <1>2 DEF Delivery!Raise, Delivery!Move, Delivery!Write

-----------------------------------------------------------------------------
(* Critical sections.                                                      *)

LEMMA OwingFacts ==
    ASSUME Owing
    PROVE  /\ Inv /\ TargetOK /\ Target \in Sid /\ Section(Here)
           /\ send \in Sid \union {NULL} /\ session \in Sid \union {NULL}
           /\ send # NULL => send = session
           /\ bkp \in Tree /\ file \in Tree
           /\ bkp.nodes \in Seq(Node) /\ file.nodes \in Seq(Node)
           /\ Live \subseteq Sid
           /\ vc \in SUBSET Params
<1>1. Inv /\ EventsPart
  BY DEF Owing
<1>2. TargetOK /\ Target \in Sid
  BY <1>1, TargetFacts DEF TargetOK
<1>3. Here \in ListState /\ Ordered(Here.evs) /\ Here.evs = QueuedEvents
  BY <1>1, HereGood DEF Here
<1>4. AllOK(QueuedEvents)
  <2>1. CASE head = NULL
    <3>1. ToSet(<<>>) = {}
      BY DEF ToSet
    <3> QED
      BY <2>1, <3>1 DEF QueuedEvents, AllOK
  <2>2. CASE head # NULL
    BY <1>1, <2>2 DEF QueuedEvents, EventsPart, Inv, TypeOK
  <2> QED
    BY <2>1, <2>2
<1>5. Section(Here)
  BY <1>3, <1>4, SubsetCovered DEF Section
<1>6. Live \subseteq Sid
  <2>1. \A x \in ToSet(queue) : x \in Sid
    BY <1>1, ToSetType DEF Inv, TypeOK
  <2> QED
    BY <1>1, <2>1 DEF Live, Inv, TypeOK
<1>7. vc \in SUBSET Params
  BY <1>1 DEF Inv, TypeOK, Params
<1>8. send # NULL => send = session
  BY <1>1 DEF Inv, QueueShape
<1>9. bkp \in Tree /\ file \in Tree /\ bkp.nodes \in Seq(Node) /\ file.nodes \in Seq(Node)
  BY <1>1, BkpTypes, TreeNodes
<1>10. send \in Sid \union {NULL} /\ session \in Sid \union {NULL}
  BY <1>1 DEF Inv, TypeOK
<1> QED
  BY <1>1, <1>2, <1>5, <1>6, <1>7, <1>8, <1>9, <1>10

(* What a critical section leaves in the sessions.                         *)
SectionLeaves(st, rs) ==
    /\ EventsPart' /\ EventsKept /\ RpcsKept
    /\ head' = Target /\ head' # NULL /\ queue' = <<Target>> /\ Target \in Live'
    /\ events'[Target] = st.evs /\ rpcs'[Target] = rs
    /\ \A s \in Sid : s # Target => events'[s] = events[s] /\ rpcs'[s] = rpcs[s]
    /\ session # NULL =>
          /\ Sent(rpcs'[session])
          /\ HasInform(rpcs'[session]) \/ events'[session] = <<>>

LEMMA SectionStep ==
    ASSUME Owing, NEW st, Good(st), Section(st), NEW rs \in Seq(Rpc), Form(rs),
           ToSet(QueuedRpcs) \subseteq ToSet(rs), Queued(st, rs),
           send' = send, session' = session
    PROVE  SectionLeaves(st, rs)
<1>0. /\ Inv /\ EventsPart /\ SessionPart /\ QueuedOK(st, rs) /\ TargetOK /\ Target \in Sid
      /\ session \in Sid \union {NULL} /\ Live \subseteq Sid
  BY OwingFacts, QueuedFacts DEF Owing
<1>1. /\ head' = Target /\ head' # NULL /\ queue' = <<Target>>
      /\ Live' = {Target} \union ({send, session} \ {NULL})
  BY <1>0, ToSetSingle, SidAssumption DEF QueuedOK, Live
<1>2. /\ events'[Target] = st.evs /\ rpcs'[Target] = rs
      /\ \A s \in Sid : s # Target => events'[s] = events[s] /\ rpcs'[s] = rpcs[s]
  BY <1>0 DEF QueuedOK
<1>3. EventsPart'
  BY <1>0, <1>2 DEF EventsPart, Section
<1>4. \A s \in Live : s \in Live'
  <2>1. CASE head = NULL
    <3>1. ToSet(queue) = {}
      BY <1>0, <2>1 DEF TargetOK, ToSet
    <3> QED
      BY <1>1, <3>1 DEF Live
  <2>2. CASE head # NULL
    <3>1. ToSet(queue) = {Target}
      BY <1>0, <2>2, ToSetSingle DEF TargetOK
    <3> QED
      BY <1>1, <3>1 DEF Live
  <2> QED
    BY <2>1, <2>2
<1>5. Target \in Live => QueuedEvents = events[Target] /\ QueuedRpcs = rpcs[Target]
  <2>1. CASE head = NULL
    <3>1. ToSet(queue) = {} /\ Target # send /\ Target # session
      BY <1>0, <2>1 DEF TargetOK, ToSet
    <3> QED
      BY <3>1 DEF Live
  <2>2. CASE head # NULL
    BY <1>0, <2>2 DEF TargetOK, QueuedEvents, QueuedRpcs
  <2> QED
    BY <2>1, <2>2
<1>6. EventsKept
  <2> SUFFICES ASSUME NEW s \in Live, NEW e \in ToSet(events[s])
               PROVE  Held2(e.code, e.key, e.params)
    BY DEF EventsKept
  <2>1. CASE s = Target
    <3>1. Holds(st.evs, e.code, e.key, e.params)
      BY <1>5, <2>1 DEF Section, Covered
    <3> QED
      BY <1>1, <1>2, <3>1 DEF Held2
  <2>2. CASE s # Target
    <3>1. s \in Live' /\ events'[s] = events[s]
      BY <1>0, <1>2, <1>4, <2>2
    <3>2. Holds(events'[s], e.code, e.key, e.params)
      BY <3>1 DEF Holds
    <3> QED
      BY <3>1, <3>2 DEF Held2
  <2> QED
    BY <2>1, <2>2
<1>7. RpcsKept
  <2> SUFFICES ASSUME NEW s \in Live, NEW r \in ToSet(rpcs[s])
               PROVE  \E t \in Live' : r \in ToSet(rpcs'[t])
    BY DEF RpcsKept
  <2>1. CASE s = Target
    BY <1>1, <1>2, <1>5, <2>1
  <2>2. CASE s # Target
    BY <1>0, <1>2, <1>4, <2>2
  <2> QED
    BY <2>1, <2>2
<1>8. ASSUME session # NULL
      PROVE  Sent(rpcs'[session]) /\ (HasInform(rpcs'[session]) \/ events'[session] = <<>>)
  <2>1. CASE session = Target
    <3>1. Len(rs) \in Nat \ {0}
      BY NonEmpty DEF Form
    <3> QED
      BY <1>2, <2>1, <3>1 DEF Form, Sent, HasInform
  <2>2. CASE session # Target
    BY <1>0, <1>2, <1>8, <2>2 DEF SessionPart
  <2> QED
    BY <2>1, <2>2
<1> QED
  BY <1>1, <1>2, <1>3, <1>6, <1>7, <1>8 DEF SectionLeaves

(* The records a critical section leaves.                                  *)
LEMMA SavedNodesFacts ==
    ASSUME NEW st, Good(st), Section(st), NEW ns \in Seq(Node), NodesOK(ns)
    PROVE  /\ SavedNodes(st, ns) \in Seq(Node) /\ NodesOK(SavedNodes(st, ns))
           /\ Within(ns, SavedNodes(st, ns))
           /\ ~Persistent(st) => SavedNodes(st, ns) = ns
           /\ \A n \in ToSet(SavedNodes(st, ns)) :
                 \/ n \in ToSet(ns)
                 \/ /\ n.code \in RetryAfterReboot
                    /\ n.code = st.evs[st.at].code /\ n.key = st.evs[st.at].key
<1>1. st.evs[st.at] \in Event /\ EventOK(st.evs[st.at])
  BY AtOK
<1>2. SavedNodes(st, ns) \in Seq(Node)
  BY SavedNodesType
<1>3. CASE Persistent(st)
  <2>1. SavedNodes(st, ns) = bkp_session_insert_event(ns, st.evs[st.at])
    BY <1>3 DEF SavedNodes
  <2>2. st.evs[st.at].code \in RetryAfterReboot
    BY <1>3 DEF Persistent
  <2> QED
    BY <1>1, <1>2, <1>3, <2>1, <2>2, InsertedNodes
<1>4. CASE ~Persistent(st)
  <2>1. SavedNodes(st, ns) = ns
    BY <1>4 DEF SavedNodes
  <2> QED
    BY <1>2, <2>1, SubsetWithin
<1> QED
  BY <1>3, <1>4

LEMMA RetriedCode ==
    \A c \in RetryAfterReboot : c \notin NoRetry
BY DEF NoRetry

LEMMA Reflexive ==
    ASSUME NEW ns PROVE Within(ns, ns)
BY SubsetWithin

LEMMA TreeFacts ==
    ASSUME Owing
    PROVE  /\ NodesOK(bkp.nodes) /\ NodesOK(file.nodes) /\ Within(bkp.nodes, file.nodes)
           /\ Clean => Within(file.nodes, bkp.nodes)
           /\ bkp \in Tree /\ file \in Tree
           /\ bkp.nodes \in Seq(Node) /\ file.nodes \in Seq(Node)
BY OwingFacts DEF Owing, TreePart

LEMMA TreeSet ==
    ASSUME NEW t \in Tree, NEW ns
    PROVE  [t EXCEPT !.nodes = ns].nodes = ns
BY DEF Tree

(* Nothing is written.                                                     *)
LEMMA TreeUnchanged ==
    ASSUME Owing, UNCHANGED <<bkp, file>>, Clean' => Clean
    PROVE  TreePart' /\ FileOwed
<1>1. TreePart'
  BY TreeFacts DEF TreePart
<1>2. FileOwed
  BY DEF FileOwed, Recorded
<1> QED
  BY <1>1, <1>2

(* The tree is saved with what it recorded before, and what is owed now.   *)
LEMMA TreeWritten ==
    ASSUME Owing, file' = bkp', NodesOK(bkp'.nodes),
           \A n \in ToSet(bkp'.nodes) : n.name \in EventName =>
               \/ Recorded(bkp.nodes, n.code, n.key)
               \/ n.code \in RetryAfterReboot /\ Held2(n.code, n.key, {})
    PROVE  TreePart' /\ FileOwed
<1>1. TreePart'
  BY Reflexive DEF TreePart
<1>2. ASSUME NEW n \in ToSet(file'.nodes), n.name \in EventName
      PROVE  \/ Recorded(file.nodes, n.code, n.key)
             \/ n.code \notin NoRetry /\ Held2(n.code, n.key, {})
  <2>1. CASE Recorded(bkp.nodes, n.code, n.key)
    <3>1. PICK m \in ToSet(bkp.nodes) : m.name \in EventName /\ m.code = n.code /\ m.key = n.key
      BY <2>1 DEF Recorded
    <3>2. Recorded(file.nodes, m.code, m.key)
      BY <3>1, TreeFacts DEF Within
    <3> QED
      BY <3>1, <3>2
  <2>2. CASE n.code \in RetryAfterReboot /\ Held2(n.code, n.key, {})
    BY <2>2, RetriedCode
  <2> QED
    BY <1>2, <2>1, <2>2
<1> QED
  BY <1>1, <1>2 DEF FileOwed

(* The tree is changed in memory, apart from the events.                   *)
LEMMA TreeTouched ==
    ASSUME Owing, NodesOK(bkp'.nodes), NodesOK(file'.nodes), Clean' => Clean,
           Within(bkp'.nodes, bkp.nodes), Within(bkp.nodes, bkp'.nodes),
           \/ Within(file'.nodes, file.nodes) /\ Within(file.nodes, file'.nodes)
           \/ Within(file'.nodes, bkp.nodes) /\ Within(bkp.nodes, file'.nodes)
    PROVE  TreePart' /\ FileOwed
<1>1. Within(bkp.nodes, file.nodes) /\ (Clean => Within(file.nodes, bkp.nodes))
  BY TreeFacts
<1>2. Within(bkp'.nodes, file'.nodes)
  BY <1>1, WithinTransitive
<1>3. Within(file'.nodes, file.nodes)
  BY <1>1, WithinTransitive
<1>4. Clean' => Within(file'.nodes, bkp'.nodes)
  BY <1>1, WithinTransitive
<1>5. TreePart'
  BY <1>2, <1>4 DEF TreePart
<1>6. FileOwed
  BY <1>3 DEF FileOwed, Within
<1> QED
  BY <1>5, <1>6

(* One event raised and saved: the sessions and the records.               *)
LEMMA SavedStep ==
    ASSUME Owing, NEW st, Good(st), Section(st),
           Target \in Live', NEW fin, events'[Target] = fin.evs, Section(fin), Good(fin),
           fin.evs[fin.at].code = st.evs[st.at].code, fin.evs[fin.at].key = st.evs[st.at].key,
           bkp' = [bkp EXCEPT !.nodes = SavedNodes(st, @)],
           file' = IF Persistent(st) THEN bkp' ELSE file, Clean' => Clean
    PROVE  TreePart' /\ FileOwed
<1>1. bkp'.nodes = SavedNodes(st, bkp.nodes)
  BY TreeFacts, TreeSet
<1>2. /\ NodesOK(bkp'.nodes)
      /\ ~Persistent(st) => bkp'.nodes = bkp.nodes
      /\ \A n \in ToSet(bkp'.nodes) :
            \/ n \in ToSet(bkp.nodes)
            \/ /\ n.code \in RetryAfterReboot
               /\ n.code = st.evs[st.at].code /\ n.key = st.evs[st.at].key
  BY <1>1, TreeFacts, SavedNodesFacts
<1>3. CASE Persistent(st)
  <2>1. fin.evs[fin.at] \in ToSet(fin.evs)
    BY GoodAt, ElementsOf
  <2>2. Held2(fin.evs[fin.at].code, fin.evs[fin.at].key, {})
    BY <2>1 DEF Held2, Holds
  <2>3. \A n \in ToSet(bkp'.nodes) : n.name \in EventName =>
            \/ Recorded(bkp.nodes, n.code, n.key)
            \/ n.code \in RetryAfterReboot /\ Held2(n.code, n.key, {})
    BY <1>2, <2>2 DEF Recorded
  <2> QED
    BY <1>2, <1>3, <2>3, TreeWritten
<1>4. CASE ~Persistent(st)
  <2>1. bkp'.nodes = bkp.nodes /\ file' = file
    BY <1>2, <1>4
  <2> QED
    BY <1>2, <2>1, TreeFacts, TreeTouched, Reflexive
<1> QED
  BY <1>3, <1>4

-----------------------------------------------------------------------------
(* The steps of the other threads.                                         *)

LEMMA WokenPlace ==
    ASSUME Inv, Woken
    PROVE  /\ pc' = pc \/ (pc = "wait" /\ pc' = "woken")
           /\ \A S : "woken" \notin S /\ pc' \in S => pc' = pc
BY DEF Woken

LEMMA ProducerClean ==
    ASSUME Owing, Producer, Woken, NEW st, NEW rs, SectionLeaves(st, rs)
    PROVE  Clean' => Clean
<1>0. /\ Inv /\ TargetOK /\ Target \in Sid /\ session \in Sid \union {NULL}
      /\ send # NULL => send = session
  BY OwingFacts
<1>1. /\ pc \notin {"merge", "mergeRpc", "flush", "raise"} /\ ~(pc = "destroy" /\ send = NULL)
      /\ session' = session /\ send' = send
  BY DEF Producer, QueueFree, schedVars
<1>2. pc = "ack" \/ pc = "destroy" => pc' = pc
  BY <1>0, WokenPlace
<1>3. ASSUME pc = "destroy" PROVE rpcs'[session] = rpcs[session]
  <2>1. session # NULL /\ session \in Sid /\ session # Target
    BY <1>0, <1>1, <1>3 DEF TargetOK, Inv, Phase
  <2> QED
    BY <2>1 DEF SectionLeaves
<1>4. pc' = pc \/ pc = "wait"
  BY <1>0, WokenPlace
<1> QED
  BY <1>1, <1>2, <1>3, <1>4 DEF Clean

LEMMA ProducerOwing ==
    ASSUME Owing, Inv', Producer, Woken, NEW st, NEW rs, SectionLeaves(st, rs),
           TreePart', FileOwed, vc \subseteq vc'
    PROVE  Owing' /\ Keeping
<1>0. /\ Inv /\ TargetOK /\ Target \in Sid /\ session \in Sid \union {NULL}
      /\ send # NULL => send = session /\ SessionPart
  BY OwingFacts DEF Owing
<1>1. /\ pc \notin {"merge", "mergeRpc", "flush", "raise"} /\ ~(pc = "destroy" /\ send = NULL)
      /\ session' = session /\ send' = send /\ err' = err /\ crEvent' = crEvent
      /\ pc \notin {"down", "fatal"} /\ (pc \in Starting => send # NULL)
  BY DEF Producer, QueueFree, schedVars, Up
<1>2. pc' = pc \/ (pc = "wait" /\ pc' = "woken")
  BY <1>0, WokenPlace
<1>3. ASSUME pc \in {"ack", "endf", "ended", "close", "destroy"} \union Starting, send # NULL
      PROVE  rpcs'[session] = rpcs[session] /\ events'[session] = events[session]
  <2>1. session \in Sid /\ session # Target
    BY <1>0, <1>3, SidAssumption DEF TargetOK, Starting
  <2> QED
    BY <2>1 DEF SectionLeaves
<1>4. SessionPart'
  <2>1. session' # NULL =>
          /\ Sent(rpcs'[session'])
          /\ HasInform(rpcs'[session']) \/ events'[session'] = <<>>
    BY <1>1 DEF SectionLeaves
  <2>2. pc' \in {"endf", "ended", "close"} \union Starting /\ send' # NULL /\ err' = "OK"
          => rpcs'[session'] = <<>>
    BY <1>0, <1>1, <1>2, <1>3 DEF SessionPart, Starting
  <2>3. pc' \notin {"merge", "mergeRpc"} /\ ~(pc' = "destroy" /\ send' = NULL)
    BY <1>1, <1>2
  <2>4. pc' = "destroy" /\ send' # NULL =>
          events'[session'] = <<>> /\ (rpcs'[session'] = <<>> \/ crEvent' = 1)
    BY <1>0, <1>1, <1>2, <1>3 DEF SessionPart
  <2>5. pc' = "ack" => HasInform(rpcs'[session'])
    <3>1. ASSUME pc' = "ack" PROVE pc = "ack" /\ send # NULL /\ session # NULL
      BY <1>0, <1>1, <1>2, <3>1 DEF Inv, Phase, Sending, Exchange
    <3> QED
      BY <1>0, <1>1, <1>3, <3>1 DEF SessionPart
  <2> QED
    BY <2>1, <2>2, <2>3, <2>4, <2>5 DEF SessionPart
<1>5. LoadPart'
  <2>1. pc' # "down" /\ pc' # "load" /\ ~(pc' = "bootstrap" /\ send' = NULL)
    <3>1. pc # "load"
      BY <1>0, <1>1 DEF Inv, Phase, Starting
    <3> QED
      BY <1>1, <1>2, <3>1 DEF Starting
  <2> QED
    BY <2>1 DEF LoadPart
<1>6. Keeping
  <2>1. ChangesKept
    BY DEF ChangesKept
  <2>2. pc # "down" /\ pc' # "down" /\ (pc = "load" => pc' = "load")
    BY <1>1, <1>2
  <2> QED
    BY <2>1, <2>2 DEF Keeping, SectionLeaves
<1> QED
  BY <1>4, <1>5, <1>6 DEF Owing, SectionLeaves

LEMMA RaiseSavedOwing ==
    ASSUME Owing, Inv', Producer, Woken, vc \subseteq vc',
           NEW c \in EventCode, NEW k \in Key, KeyOK(c, k),
           NEW rs \in Seq(Rpc), Form(rs), ToSet(QueuedRpcs) \subseteq ToSet(rs),
           RaiseSaved(c, k, rs)
    PROVE  Owing' /\ Keeping
<1> DEFINE st == AddEvent(Here, c, k)
<1>1. Good(st) /\ Section(st)
  BY OwingFacts, SectionAdd
<1>2. /\ Queued(Saved(st), rs)
      /\ bkp' = [bkp EXCEPT !.nodes = SavedNodes(st, bkp.nodes)]
      /\ file' = IF Persistent(st) THEN bkp' ELSE file
  BY DEF RaiseSaved
<1> HIDE DEF st
<1> DEFINE fin == Saved(st)
<1>3. /\ Good(fin) /\ Section(fin)
      /\ fin.evs[fin.at].code = st.evs[st.at].code /\ fin.evs[fin.at].key = st.evs[st.at].key
  BY <1>1, SectionSaved
<1>4. send' = send /\ session' = session
  BY DEF Producer, schedVars
<1> HIDE DEF fin
<1>5. SectionLeaves(fin, rs)
  BY <1>2, <1>3, <1>4, SectionStep DEF fin
<1>6. Clean' => Clean
  BY <1>5, ProducerClean
<1>7. TreePart' /\ FileOwed
  BY <1>1, <1>2, <1>3, <1>5, <1>6, SavedStep DEF SectionLeaves
<1> QED
  BY <1>5, <1>7, ProducerOwing

LEMMA RaiseUnsavedOwing ==
    ASSUME Owing, Inv', Producer, Woken, vc \subseteq vc',
           NEW st, Good(st), Section(st),
           NEW rs \in Seq(Rpc), Form(rs), ToSet(QueuedRpcs) \subseteq ToSet(rs),
           Queued(st, rs),
           (Clean' => Clean) => TreePart' /\ FileOwed
    PROVE  Owing' /\ Keeping
<1>1. send' = send /\ session' = session
  BY DEF Producer, schedVars
<1>2. SectionLeaves(st, rs)
  BY <1>1, SectionStep
<1>3. Clean' => Clean
  BY <1>2, ProducerClean
<1> QED
  BY <1>2, <1>3, ProducerOwing

LEMMA KeysOK ==
    /\ \A c : KeyOK(c, "")
    /\ \A k : /\ KeyOK(M_ScheduleInform, k) /\ KeyOK(M_Reboot, k)
             /\ \A c \in TransferCode : KeyOK(c, k)
    /\ \A c \in TransferCode : c \in EventCode /\ c \notin Single
<1>1. M_ScheduleInform \notin Single /\ M_Reboot \notin Single
  BY DEF M_ScheduleInform, M_Reboot, Single
<1>2. \A c \in TransferCode : c \in EventCode /\ c \notin Single
  BY CodeAssumption DEF M_Download, M_Upload, M_Schedule_Download, M_ChangeDUState,
     Single, EventCode
<1> QED
  BY <1>1, <1>2 DEF KeyOK

(* The RPCs a section adds.                                                *)
LEMMA RpcsGrow ==
    ASSUME Owing
    PROVE  /\ QueuedRpcs \in Seq(Rpc) /\ Form(QueuedRpcs)
           /\ \A r \in Rpc : r.type # "Inform" =>
                /\ Append(QueuedRpcs, r) \in Seq(Rpc) /\ Form(Append(QueuedRpcs, r))
                /\ ToSet(Append(QueuedRpcs, r)) = ToSet(QueuedRpcs) \union {r}
<1>1. QueuedRpcs \in Seq(Rpc) /\ Form(QueuedRpcs)
  BY OwingFacts, HereGood
<1> QED
  BY <1>1, FormAppend, ElementsAppended

LEMMA BystanderOwing ==
    ASSUME Owing, Inv', Up, Woken, UNCHANGED <<queueVars, send, schedVars>>,
           vc \subseteq vc', (Clean' => Clean) => TreePart' /\ FileOwed
    PROVE  Owing' /\ Keeping
<1>0. /\ Inv /\ EventsPart /\ SessionPart /\ LoadPart
      /\ queue' = queue /\ head' = head /\ events' = events /\ rpcs' = rpcs
      /\ session' = session /\ send' = send /\ err' = err /\ crEvent' = crEvent /\ idx' = idx
      /\ pc \notin {"down", "fatal"} /\ (pc \in Starting => send # NULL)
  BY DEF Owing, queueVars, schedVars, Up
<1>1. pc' = pc \/ (pc = "wait" /\ pc' = "woken")
  BY <1>0, WokenPlace
<1>2. Clean' => Clean
  BY <1>0, <1>1 DEF Clean
<1>3. EventsPart'
  BY <1>0 DEF EventsPart
<1>4. SessionPart'
  BY <1>0, <1>1 DEF SessionPart, Held, Starting
<1>5. LoadPart'
  <2>1. pc # "load"
    BY <1>0 DEF Inv, Phase, Starting
  <2>2. pc' # "down" /\ pc' # "load" /\ ~(pc' = "bootstrap" /\ send' = NULL)
    BY <1>0, <1>1, <2>1 DEF Starting
  <2> QED
    BY <2>2 DEF LoadPart
<1>6. Live' = Live
  BY <1>0 DEF Live
<1>7. EventsKept
  <2> SUFFICES ASSUME NEW s \in Live, NEW e \in ToSet(events[s])
               PROVE  Held2(e.code, e.key, e.params)
    BY DEF EventsKept
  <2> QED
    BY <1>0, <1>6 DEF Held2, Holds
<1>8. RpcsKept /\ ChangesKept
  BY <1>0, <1>6 DEF RpcsKept, ChangesKept
<1> QED
  BY <1>0, <1>1, <1>2, <1>3, <1>4, <1>5, <1>7, <1>8 DEF Owing, Keeping

LEMMA EventProducersOwing ==
    ASSUME Owing, Inv'
    PROVE  /\ thread_event_periodic => Owing' /\ Keeping
           /\ http_success_cr => Owing' /\ Keeping
           /\ \A c \in InformCode : cwmp_handle_inform(c) => Owing' /\ Keeping
           /\ cwmp_handle_inform_grm => Owing' /\ Keeping
           /\ cwmp_root_cause_event_ipdiagnostic => Owing' /\ Keeping
           /\ cwmp_add_notification_active => Owing' /\ Keeping
<1>1. /\ QueuedRpcs \in Seq(Rpc) /\ Form(QueuedRpcs) /\ "" \in Key
      /\ Append(QueuedRpcs, GetRPCMethods) \in Seq(Rpc)
      /\ Form(Append(QueuedRpcs, GetRPCMethods))
      /\ ToSet(QueuedRpcs) \subseteq ToSet(Append(QueuedRpcs, GetRPCMethods))
  BY RpcsGrow, RpcTypes, CodeTypes
<1>2. ASSUME NEW c \in EventCode, RaiseSaved(c, "", QueuedRpcs), Producer, Signal, UNCHANGED vc
      PROVE  Owing' /\ Keeping
  BY <1>1, <1>2, KeysOK, SignalWoken, RaiseSavedOwing
<1>3. ASSUME NEW c \in EventCode, RaiseUnsaved(c, ""), Producer, Signal, UNCHANGED vc
      PROVE  Owing' /\ Keeping
  <2> DEFINE st == AddEvent(Here, c, "")
  <2>1. Good(st) /\ Section(st)
    BY <1>1, OwingFacts, KeysOK, SectionAdd
  <2>2. Queued(st, QueuedRpcs) /\ UNCHANGED <<bkp, file>>
    BY <1>3 DEF RaiseUnsaved
  <2> HIDE DEF st
  <2>3. (Clean' => Clean) => TreePart' /\ FileOwed
    BY <2>2, TreeUnchanged
  <2> QED
    BY <1>1, <1>3, <2>1, <2>2, <2>3, SignalWoken, RaiseUnsavedOwing
<1>4. thread_event_periodic => Owing' /\ Keeping
  BY <1>2, CodeTypes DEF thread_event_periodic
<1>5. http_success_cr => Owing' /\ Keeping
  BY <1>3, CodeTypes DEF http_success_cr
<1>6. \A c \in InformCode : cwmp_handle_inform(c) => Owing' /\ Keeping
  BY <1>3, CodeAssumption DEF cwmp_handle_inform
<1>7. cwmp_handle_inform_grm => Owing' /\ Keeping
  BY <1>1, CodeTypes, KeysOK, SignalWoken, RaiseSavedOwing DEF cwmp_handle_inform_grm
<1>8. cwmp_root_cause_event_ipdiagnostic => Owing' /\ Keeping
  BY <1>2, CodeTypes DEF cwmp_root_cause_event_ipdiagnostic
<1>9. cwmp_add_notification_active => Owing' /\ Keeping
  BY <1>2, CodeTypes DEF cwmp_add_notification_active
<1> QED
  BY <1>4, <1>5, <1>6, <1>7, <1>8, <1>9

LEMMA OtherProducersOwing ==
    ASSUME Owing, Inv'
    PROVE  /\ connection_request_ip_value_change => Owing' /\ Keeping
           /\ \A p \in Param, active \in BOOLEAN :
                cwmp_add_notification(p, active) => Owing' /\ Keeping
           /\ \A k \in CmdKey : scheduleInform_due(k) => Owing' /\ Keeping
           /\ \A f : cwmp_handle_command(f) => Owing' /\ Keeping
<1>1. QueuedRpcs \in Seq(Rpc) /\ Form(QueuedRpcs) /\ "" \in Key
  BY RpcsGrow, CodeTypes
<1>2. ASSUME connection_request_ip_value_change PROVE Owing' /\ Keeping
  <2>1. file' = bkp /\ bkp' = bkp /\ Producer /\ vc' = vc
    BY <1>2 DEF connection_request_ip_value_change, AddressSaved
  <2>2. TreePart' /\ FileOwed
    <3>1. NodesOK(bkp.nodes) /\ \A n \in ToSet(bkp.nodes) : n.name \in EventName =>
                                     Recorded(bkp.nodes, n.code, n.key)
      BY TreeFacts DEF Recorded
    <3> QED
      BY <2>1, <3>1, TreeWritten
  <2>3. CASE UNCHANGED <<queueVars, pc>>
    <3>1. Up /\ Woken /\ UNCHANGED <<queueVars, send, schedVars>>
      BY <2>1, <2>3 DEF Producer, Woken
    <3> QED
      BY <2>1, <2>2, <3>1, BystanderOwing
  <2>4. CASE AddressReported /\ Signal
    <3> DEFINE st == AddEvent(Here, VALUE_CHANGE, "")
    <3>1. Good(st) /\ Section(st)
      BY <1>1, OwingFacts, KeysOK, CodeTypes, SectionAdd
    <3>2. Queued(st, QueuedRpcs)
      BY <2>4 DEF AddressReported
    <3> HIDE DEF st
    <3> QED
      BY <1>1, <2>1, <2>2, <2>4, <3>1, <3>2, SignalWoken, RaiseUnsavedOwing
  <2> QED
    BY <1>2, <2>3, <2>4 DEF connection_request_ip_value_change
<1>3. ASSUME NEW p \in Param, NEW active \in BOOLEAN, cwmp_add_notification(p, active)
      PROVE  Owing' /\ Keeping
  <2>1. /\ Up /\ UNCHANGED <<queueVars, send, schedVars>> /\ vc \subseteq vc'
        /\ UNCHANGED <<bkp, file>> /\ pc' = pc
    BY <1>3 DEF cwmp_add_notification
  <2> QED
    BY <2>1, TreeUnchanged, BystanderOwing DEF Woken
<1>4. ASSUME NEW k \in Key, NEW c \in EventCode, NEW d \in EventCode, NEW z \in Key,
             c = SCHEDULED, d = M_ScheduleInform, z = "", scheduleInform_due(k)
      PROVE  Owing' /\ Keeping
  <2> DEFINE s1 == AddEvent(Here, c, z)
             m1 == Saved(s1)
             s2 == AddEvent(m1, d, k)
             fin == Saved(s2)
  <2>0. KeyOK(c, z) /\ KeyOK(d, k)
    BY <1>4, CodeTypes, KeysOK
  <2>a. s1 = AddEvent(Here, c, z) /\ Section(Here)
    BY OwingFacts
  <2> HIDE DEF s1
  <2>1. Good(s1) /\ Section(s1) /\ s1.evs[s1.at].code = c /\ s1.evs[s1.at].key = z
    BY <2>0, <2>a, SectionAdded
  <2>2. Good(m1) /\ Section(m1) /\ m1.evs[m1.at].code = c /\ m1.evs[m1.at].key = z
    BY <2>1, SectionSaved
  <2> HIDE DEF m1
  <2>b. s2 = AddEvent(m1, d, k)
    OBVIOUS
  <2> HIDE DEF s2
  <2>3. /\ Good(s2) /\ Section(s2) /\ s2.evs[s2.at].code = d /\ s2.evs[s2.at].key = k
        /\ ToSet(m1.evs) \subseteq ToSet(s2.evs)
    <3>1. Section(m1)
      BY <2>2
    <3>2. KeyOK(d, k)
      BY <2>0
    <3> QED
      BY <2>b, <3>1, <3>2, SectionAdded
  <2>4. /\ Good(fin) /\ Section(fin)
        /\ fin.evs[fin.at].code = d /\ fin.evs[fin.at].key = k
    BY <2>3, SectionSaved
  <2>5. Covered(s2.evs, fin.evs)
    BY <2>3, SectionSaved
  <2> HIDE DEF fin
  <2>6. Holds(fin.evs, c, z, {}) /\ Holds(fin.evs, d, k, {})
    <3>1. m1.evs[m1.at] \in ToSet(m1.evs) /\ fin.evs[fin.at] \in ToSet(fin.evs)
      <4>1. m1.evs \in Seq(Event) /\ m1.at \in 1 .. Len(m1.evs)
        BY <2>2, GoodAt
      <4>2. fin.evs \in Seq(Event) /\ fin.at \in 1 .. Len(fin.evs)
        BY <2>4, GoodAt
      <4> QED
        BY <4>1, <4>2, ElementsOf
    <3>2. m1.evs[m1.at] \in ToSet(s2.evs)
      BY <2>3, <3>1
    <3>3. Holds(fin.evs, c, z, m1.evs[m1.at].params)
      BY <2>2, <2>5, <3>2 DEF Covered
    <3> QED
      BY <2>4, <3>1, <3>3 DEF Holds
  <2>7. /\ Queued(fin, QueuedRpcs)
        /\ bkp' = [bkp EXCEPT !.nodes = SavedNodes(s2, SavedNodes(s1, bkp.nodes))]
        /\ file' = bkp' /\ Producer /\ Signal /\ vc' = vc
    BY <1>4 DEF scheduleInform_due, s1, m1, s2, fin
  <2>8. send' = send /\ session' = session
    BY <2>7 DEF Producer, schedVars
  <2> HIDE DEF fin
  <2>9. SectionLeaves(fin, QueuedRpcs)
    BY <1>1, <2>4, <2>7, <2>8, SectionStep
  <2> DEFINE n1 == SavedNodes(s1, bkp.nodes)
             n2 == SavedNodes(s2, n1)
  <2>10. /\ n1 \in Seq(Node) /\ NodesOK(n1)
         /\ \A n \in ToSet(n1) : \/ n \in ToSet(bkp.nodes)
                                 \/ n.code \in RetryAfterReboot /\ n.code = c /\ n.key = z
    BY <2>1, TreeFacts, SavedNodesFacts
  <2> HIDE DEF n1
  <2>11. /\ n2 \in Seq(Node) /\ NodesOK(n2)
         /\ \A n \in ToSet(n2) :
               \/ n \in ToSet(n1)
               \/ n.code \in RetryAfterReboot /\ n.code = d /\ n.key = k
    BY <2>3, <2>10, SavedNodesFacts
  <2> HIDE DEF n2
  <2>12. bkp'.nodes = n2
    BY <2>7, TreeFacts, TreeSet DEF n1, n2
  <2>13. Held2(c, z, {}) /\ Held2(d, k, {})
    BY <2>6, <2>9 DEF Held2, SectionLeaves
  <2>14. \A n \in ToSet(bkp'.nodes) : n.name \in EventName =>
            \/ Recorded(bkp.nodes, n.code, n.key)
            \/ n.code \in RetryAfterReboot /\ Held2(n.code, n.key, {})
    BY <2>10, <2>11, <2>12, <2>13 DEF Recorded
  <2>15. TreePart' /\ FileOwed
    BY <2>7, <2>11, <2>12, <2>14, TreeWritten
  <2> QED
    BY <2>7, <2>9, <2>15, SignalWoken, ProducerOwing
<1>5. ASSUME NEW f, cwmp_handle_command(f) PROVE Owing' /\ Keeping
  <2>1. /\ Up /\ UNCHANGED <<queueVars, send, schedVars>> /\ vc' = vc
        /\ UNCHANGED <<bkp, file>> /\ pc' = pc
    BY <1>5 DEF cwmp_handle_command, cwmp_set_end_session
  <2> QED
    BY <2>1, TreeUnchanged, BystanderOwing DEF Woken
<1>6. \A k \in CmdKey : scheduleInform_due(k) => Owing' /\ Keeping
  BY <1>4, CodeTypes
<1> QED
  BY <1>2, <1>3, <1>5, <1>6

(* The two events of a finished transfer.                                  *)
LEMMA CompleteSection ==
    ASSUME Owing, NEW c \in EventCode, NEW k \in Key, KeyOK(c, k)
    PROVE  Good(CompleteEvents(c, k)) /\ Section(CompleteEvents(c, k))
<1>1. ASSUME NEW f \in EventCode, NEW z \in Key, KeyOK(f, z)
      PROVE  /\ Good(AddEvent(AddEvent(Here, f, z), c, k))
             /\ Section(AddEvent(AddEvent(Here, f, z), c, k))
  <2> DEFINE st == AddEvent(Here, f, z)
  <2>1. Section(st)
    BY <1>1, OwingFacts, SectionAdd
  <2> HIDE DEF st
  <2>2. Good(AddEvent(st, c, k)) /\ Section(AddEvent(st, c, k))
    BY <2>1, SectionAdd
  <2> QED
    BY <2>2 DEF st
<1>2. DU_STATE_CHANGE_COMPLETE \in EventCode /\ TRANSFER_COMPLETE \in EventCode /\ "" \in Key
  BY CodeTypes
<1>3. \A f \in EventCode : KeyOK(f, "")
  BY KeysOK
<1>4. CASE c = M_ChangeDUState
  BY <1>1, <1>2, <1>3, <1>4 DEF CompleteEvents
<1>5. CASE c # M_ChangeDUState
  BY <1>1, <1>2, <1>3, <1>5 DEF CompleteEvents
<1> QED
  BY <1>4, <1>5

LEMMA TransferTree ==
    ASSUME Owing, NEW c \in TransferCode, NEW k \in CmdKey, Clean' => Clean,
           \/ bkp' = WithRecord(bkp, c, k) /\ file' \in {bkp', file}
           \/ /\ bkp' = WithoutRecord(WithRecord(bkp, c, k), c, k)
              /\ file' = WithRecord(bkp, c, k)
    PROVE  TreePart' /\ FileOwed
<1> DEFINE with == WithRecord(bkp, c, k)
           without == WithoutRecord(with, c, k)
<1>1. c \in EventCode /\ c \notin Single /\ k \in Key
  BY KeysOK, CodeTypes
<1>2. bkp \in Tree /\ NodesOK(bkp.nodes) /\ NodesOK(file.nodes)
  BY TreeFacts
<1>3. /\ with \in Tree /\ NodesOK(with.nodes)
      /\ Within(with.nodes, bkp.nodes) /\ Within(bkp.nodes, with.nodes)
  BY <1>1, <1>2, RecordType, TransferNodes
<1> HIDE DEF with
<1>4. /\ NodesOK(without.nodes)
      /\ Within(without.nodes, with.nodes) /\ Within(with.nodes, without.nodes)
  BY <1>1, <1>3, TransferNodes
<1> HIDE DEF without
<1>5. Within(without.nodes, bkp.nodes) /\ Within(bkp.nodes, without.nodes)
  BY <1>3, <1>4, WithinTransitive
<1>6. CASE bkp' = with /\ file' = bkp'
  BY <1>3, <1>6, TreeTouched
<1>7. CASE bkp' = with /\ file' = file
  BY <1>2, <1>3, <1>7, TreeTouched, Reflexive
<1>8. CASE bkp' = without /\ file' = with
  BY <1>3, <1>4, <1>5, <1>8, TreeTouched
<1> QED
  BY <1>6, <1>7, <1>8 DEF with, without

LEMMA TransferProducersOwing ==
    ASSUME Owing, Inv', NEW c \in TransferCode, NEW k \in CmdKey
    PROVE  /\ transfer_finished(c, k) => Owing' /\ Keeping
           /\ transfer_fault(c, k) => Owing' /\ Keeping
           /\ transfer_expired(c, k) => Owing' /\ Keeping
           /\ transfer_silent(c, k) => Owing' /\ Keeping
<1> DEFINE st == CompleteEvents(c, k)
           rs == Append(QueuedRpcs, CompleteRpc(c, k))
<1>1. c \in EventCode /\ k \in Key /\ KeyOK(c, k)
  BY KeysOK, CodeTypes
<1>2. Good(st) /\ Section(st)
  BY <1>1, CompleteSection
<1>3. rs \in Seq(Rpc) /\ Form(rs) /\ ToSet(QueuedRpcs) \subseteq ToSet(rs)
  BY <1>1, RpcTypes, RpcsGrow
<1> HIDE DEF st, rs
<1>4. ASSUME Producer, Woken, vc' = vc, Queued(st, rs), (Clean' => Clean) => TreePart' /\ FileOwed
      PROVE  Owing' /\ Keeping
  BY <1>2, <1>3, <1>4, RaiseUnsavedOwing
<1>5. ASSUME transfer_finished(c, k) PROVE Owing' /\ Keeping
  <2>1. /\ Producer /\ Signal /\ vc' = vc /\ Queued(st, rs)
        /\ bkp' = WithRecord(bkp, c, k) /\ file' = bkp'
    BY <1>5 DEF transfer_finished, RootComplete, st, rs
  <2> QED
    BY <1>4, <2>1, SignalWoken, TransferTree
<1>6. ASSUME transfer_fault(c, k) PROVE Owing' /\ Keeping
  <2>1. /\ Producer /\ Signal /\ vc' = vc /\ Queued(st, rs)
        /\ bkp' = WithoutRecord(WithRecord(bkp, c, k), c, k)
        /\ file' = WithRecord(bkp, c, k)
    BY <1>6 DEF transfer_fault, RootComplete, st, rs
  <2> QED
    BY <1>4, <2>1, SignalWoken, TransferTree
<1>7. ASSUME transfer_expired(c, k) PROVE Owing' /\ Keeping
  <2>1. /\ Producer /\ pc' = pc /\ vc' = vc /\ Queued(st, rs)
        /\ bkp' = WithRecord(bkp, c, k) /\ file' = file
    BY <1>7 DEF transfer_expired, RootComplete, st, rs
  <2> QED
    BY <1>4, <2>1, TransferTree DEF Woken
<1>8. ASSUME transfer_silent(c, k) PROVE Owing' /\ Keeping
  <2>1. /\ Up /\ Signal /\ UNCHANGED <<queueVars, send, schedVars>> /\ vc' = vc
        /\ bkp' = WithRecord(bkp, c, k) /\ file' = bkp'
    BY <1>8 DEF transfer_silent, Producer
  <2> QED
    BY <2>1, SignalWoken, TransferTree, BystanderOwing
<1> QED
  BY <1>5, <1>6, <1>7, <1>8

LEMMA ProduceOwing ==
    ASSUME Owing, Inv', Produce
    PROVE  Owing' /\ Keeping
BY EventProducersOwing, OtherProducersOwing, TransferProducersOwing DEF Produce,
   netlink_new_msg, freecwmp_netlink_interface

-----------------------------------------------------------------------------
(* The steps of the scheduler.                                             *)

(* The lists stay as they are.                                             *)
LEMMA SameLists ==
    ASSUME Owing, UNCHANGED <<events, rpcs>>, Live \subseteq Live', vc \subseteq vc'
    PROVE  EventsPart' /\ EventsKept /\ RpcsKept /\ ChangesKept
<1>1. events' = events /\ rpcs' = rpcs
  OBVIOUS
<1>2. EventsPart'
  BY <1>1 DEF Owing, EventsPart
<1>3. EventsKept
  <2> SUFFICES ASSUME NEW s \in Live, NEW e \in ToSet(events[s])
               PROVE  Held2(e.code, e.key, e.params)
    BY DEF EventsKept
  <2> QED
    BY <1>1 DEF Held2, Holds
<1>4. RpcsKept /\ ChangesKept
  BY <1>1 DEF RpcsKept, ChangesKept
<1> QED
  BY <1>2, <1>3, <1>4

(* The scheduler moves on.                                                 *)
LEMMA MoveOn ==
    ASSUME Owing, Inv', UNCHANGED <<events, rpcs, bkp, file>>,
           Live \subseteq Live', vc \subseteq vc', Clean' => Clean,
           SessionPart', LoadPart', pc # "down", pc' # "down", pc = "load" => pc' = "load"
    PROVE  Owing' /\ Keeping
BY SameLists, TreeUnchanged DEF Owing, Keeping

(* While a session is being sent, only its place matters.                  *)
LEMMA SendingOn ==
    ASSUME Owing, Inv', UNCHANGED <<queue, head, events, rpcs, bkp, file, vc, send, session>>,
           pc \in Exchange \union {"endf", "ended"}, pc # "ack",
           pc' \in Exchange \union {"endf", "ended", "close"},
           pc' \in {"endf", "ended", "close"} /\ err' = "OK" => rpcs[session] = <<>>,
           pc' = "ack" => HasInform(rpcs[session])
    PROVE  Owing' /\ Keeping
<1>1. Live' = Live
  BY DEF Live
<1>2. /\ pc \notin {"down", "load"} /\ pc' \notin {"down", "load", "bootstrap"}
      /\ pc' \notin {"merge", "mergeRpc", "destroy"} \union Starting
      /\ Clean' => Clean
  BY DEF Exchange, Starting, Clean
<1>3. SessionPart'
  BY <1>2 DEF Owing, SessionPart
<1>4. LoadPart'
  BY <1>2 DEF LoadPart
<1> QED
  BY <1>1, <1>2, <1>3, <1>4, MoveOn

LEMMA IdleOwing ==
    ASSUME Owing, Inv', UNCHANGED <<queue, head, events, rpcs, bkp, file, vc, send>>,
           pc \in Idle \union {"presleep"}, pc' \in Idle \union {"presleep", "prepare"},
           session' = session \/ (queue # <<>> /\ session' = queue[1])
    PROVE  Owing' /\ Keeping
<1>1. session = NULL
  BY DEF Owing, Inv, Phase
<1>2. Live \subseteq Live'
  BY <1>1 DEF Live
<1>3. /\ pc \notin {"down", "load"} /\ pc' \notin {"down", "load", "bootstrap"}
      /\ pc' \notin {"ack", "merge", "mergeRpc", "destroy", "endf", "ended", "close"} \union Starting
      /\ Clean' => Clean
  BY DEF Idle, Starting, Clean
<1>4. SessionPart'
  <2>1. ASSUME session' # NULL
        PROVE  Sent(rpcs[session']) /\ HasInform(rpcs[session'])
    <3>1. queue # <<>> /\ session' = queue[1]
      BY <1>1, <2>1
    <3>2. session' \in ToSet(queue)
      BY <3>1, SingleQueue DEF Owing, Inv, QueueShape
    <3>3. Form(rpcs[session']) /\ rpcs[session'] \in Seq(Rpc)
      <4>1. session' \in Sid
        BY <2>1 DEF Inv, TypeOK
      <4> QED
        BY <3>2, <4>1 DEF Owing, Inv, InformFirst, Form, TypeOK
    <3>4. Len(rpcs[session']) \in Nat \ {0}
      BY <3>3, NonEmpty DEF Form
    <3> QED
      BY <3>3, <3>4 DEF Form, Sent, HasInform
  <2> QED
    BY <1>3, <2>1 DEF SessionPart
<1>5. LoadPart'
  BY <1>3 DEF LoadPart
<1> QED
  BY <1>2, <1>3, <1>4, <1>5, MoveOn

(* What the properties say of a step.                                      *)
ParamsOK ==
    \A p \in OwedParams : \/ p \in OwedParams'
                          \/ /\ pc = "ack" /\ events[session] # <<>>
                             /\ p \in Head(events[session]).params
                          \/ pc = "flush"
                          \/ pc' = "down"
ReportsOK ==
    \A r \in Reports : \/ r \in Reports'
                       \/ /\ pc = "acs" /\ rpcs[session] # <<>>
                          /\ r = Head(rpcs[session])
                       \/ pc = "destroy" /\ crEvent = 1
                       \/ pc' = "down"
Delivered == Delivery!Next /\ ParamsOK /\ ReportsOK

LEMMA OwedTypeNext ==
    ASSUME Inv'
    PROVE  Owed' \subseteq EventCode \X Key
<1> SUFFICES ASSUME NEW c, NEW k, <<c, k>> \in Owed' PROVE c \in EventCode /\ k \in Key
  BY OwedNext
<1>1. PICK s \in Live' : Holds(events'[s], c, k, {})
  BY OwedNext DEF Held2
<1>2. s \in Sid
  <2>1. \A x \in ToSet(queue') : x \in Sid
    BY ToSetType DEF Inv, TypeOK
  <2> QED
    BY <2>1 DEF Live, Inv, TypeOK
<1>3. events'[s] \in Seq(Event)
  BY <1>2 DEF Inv, TypeOK
<1>4. PICK e \in ToSet(events'[s]) : e.code = c /\ e.key = k
  BY <1>1 DEF Holds
<1>5. e \in Event
  BY <1>3, <1>4, ElementsOf
<1> QED
  BY <1>4, <1>5, EventFields

LEMMA KeepingDelivered ==
    ASSUME Inv', Keeping
    PROVE  Delivered
<1>1. Delivery!Next
  BY OwedTypeNext, KeepingRaises DEF Delivery!Next
<1>2. ParamsOK /\ ReportsOK
  BY ParamsStay, ReportsStay DEF Keeping, ParamsOK, ReportsOK
<1> QED
  BY <1>1, <1>2 DEF Delivered

(* An event with parameters, in the list of a critical section.            *)
LEMMA SplicedSection ==
    ASSUME Owing, NEW c \in EventCode, NEW k \in Key, KeyOK(c, k),
           NEW ps \in SUBSET Params, ps # {} => c = VALUE_CHANGE,
           NEW st, st = Spliced(AddEvent(Here, c, k), ps)
    PROVE  Good(st) /\ Section(st) /\ Holds(st.evs, c, k, ps)
<1> DEFINE s1 == AddEvent(Here, c, k)
<1>1. s1 = AddEvent(Here, c, k) /\ Section(Here)
  BY OwingFacts
<1> HIDE DEF s1
<1>2. Good(s1) /\ Section(s1) /\ s1.evs[s1.at].code = c /\ s1.evs[s1.at].key = k
  BY <1>1, SectionAdded
<1>3. /\ Good(Spliced(s1, ps)) /\ Section(Spliced(s1, ps))
      /\ Spliced(s1, ps).evs[Spliced(s1, ps).at].code = c
      /\ Spliced(s1, ps).evs[Spliced(s1, ps).at].key = k
      /\ ps \subseteq Spliced(s1, ps).evs[Spliced(s1, ps).at].params
  BY <1>2, SectionSpliced
<1>4. st = Spliced(s1, ps)
  BY <1>1
<1>5. /\ Good(st) /\ Section(st) /\ st.evs[st.at].code = c /\ st.evs[st.at].key = k
      /\ ps \subseteq st.evs[st.at].params
  BY <1>3, <1>4
<1>6. st.evs[st.at] \in ToSet(st.evs)
  BY <1>5, GoodAt, ElementsOf
<1> QED
  BY <1>5, <1>6 DEF Holds

(* The scheduler adds to the queued session.                               *)
LEMMA RaiseSection ==
    ASSUME Owing, NEW c \in EventCode, NEW k \in Key, KeyOK(c, k),
           NEW rs \in Seq(Rpc), Form(rs), ToSet(QueuedRpcs) \subseteq ToSet(rs),
           RaiseSaved(c, k, rs), send' = send, session' = session, Clean' => Clean
    PROVE  \E fin : SectionLeaves(fin, rs) /\ TreePart' /\ FileOwed
<1> DEFINE st == AddEvent(Here, c, k)
<1>1. Good(st) /\ Section(st)
  BY OwingFacts, SectionAdd
<1>2. /\ Queued(Saved(st), rs)
      /\ bkp' = [bkp EXCEPT !.nodes = SavedNodes(st, bkp.nodes)]
      /\ file' = IF Persistent(st) THEN bkp' ELSE file
  BY DEF RaiseSaved
<1> HIDE DEF st
<1> DEFINE fin == Saved(st)
<1>3. /\ Good(fin) /\ Section(fin)
      /\ fin.evs[fin.at].code = st.evs[st.at].code /\ fin.evs[fin.at].key = st.evs[st.at].key
  BY <1>1, SectionSaved
<1> HIDE DEF fin
<1>4. SectionLeaves(fin, rs)
  BY <1>2, <1>3, SectionStep DEF fin
<1>5. TreePart' /\ FileOwed
  BY <1>1, <1>2, <1>3, <1>4, SavedStep DEF SectionLeaves
<1> QED
  BY <1>4, <1>5

LEMMA OwnSection ==
    ASSUME Owing, Inv', NEW fin, NEW rs, SectionLeaves(fin, rs),
           send' = send, session' = session, err' = err, TreePart', FileOwed, ChangesKept,
           pc \notin {"down", "load"},
           pc' \notin {"ack", "merge", "mergeRpc", "destroy", "load", "bootstrap", "down"},
           pc' \in {"endf", "ended", "close"} \union Starting => pc \in Starting
    PROVE  Owing' /\ Keeping
<1>1. SessionPart'
  <2>1. ASSUME pc' \in {"endf", "ended", "close"} \union Starting, send' # NULL, err' = "OK"
        PROVE  rpcs'[session'] = <<>>
    <3>1. pc \in Starting /\ send # NULL /\ session \in Sid /\ session # Target
      BY <2>1, OwingFacts DEF TargetOK
    <3>2. rpcs[session] = <<>>
      BY <2>1, <3>1 DEF Owing, SessionPart
    <3> QED
      BY <3>1, <3>2 DEF SectionLeaves
  <2>2. session' # NULL =>
          /\ Sent(rpcs'[session'])
          /\ HasInform(rpcs'[session']) \/ events'[session'] = <<>>
    BY DEF SectionLeaves
  <2> QED
    BY <2>1, <2>2 DEF SessionPart
<1>2. LoadPart'
  BY DEF LoadPart
<1> QED
  BY <1>1, <1>2 DEF Owing, Keeping, SectionLeaves

LEMMA PrepareOwing ==
    ASSUME Owing, Inv', cwmp_prepare_value_change
    PROVE  Owing' /\ Keeping
<1>1. /\ pc = "prepare" /\ pc' = "move" /\ UNCHANGED <<send, session, err, bkp, file>>
  BY DEF cwmp_prepare_value_change, schedVars
<1>2. pc' \notin {"endf", "ended", "close"} \union Starting /\ Clean
  BY <1>1 DEF Starting, Clean
<1>3. CASE vc = {}
  <2>1. UNCHANGED <<queueVars, vc>>
    BY <1>3 DEF cwmp_prepare_value_change
  <2>2. UNCHANGED <<queue, head, events, rpcs>> /\ Live' = Live /\ vc' = vc
    BY <1>1, <2>1 DEF queueVars, Live
  <2>3. SessionPart'
    BY <1>1, <1>2, <2>2 DEF Owing, SessionPart
  <2>4. LoadPart'
    BY <1>1 DEF LoadPart
  <2> QED
    BY <1>1, <1>2, <2>2, <2>3, <2>4, MoveOn
<1>4. CASE vc # {}
  <2> DEFINE st == Spliced(AddEvent(Here, VALUE_CHANGE, ""), vc)
  <2>1. Queued(st, QueuedRpcs)
    BY <1>4 DEF cwmp_prepare_value_change
  <2>2. /\ VALUE_CHANGE \in EventCode /\ "" \in Key /\ KeyOK(VALUE_CHANGE, "")
        /\ vc \in SUBSET Params /\ st = Spliced(AddEvent(Here, VALUE_CHANGE, ""), vc)
    BY CodeTypes, KeysOK, OwingFacts
  <2> HIDE DEF st
  <2>3. Good(st) /\ Section(st) /\ Holds(st.evs, VALUE_CHANGE, "", vc)
    BY <2>2, SplicedSection
  <2>4. SectionLeaves(st, QueuedRpcs)
    BY <1>1, <2>1, <2>3, RpcsGrow, SectionStep
  <2>5. TreePart' /\ FileOwed
    BY <1>1, <1>2, TreeUnchanged
  <2>6. ChangesKept
    <3>1. \E f \in ToSet(st.evs) : vc \subseteq f.params
      BY <2>3 DEF Holds
    <3> QED
      BY <2>4, <3>1 DEF ChangesKept, SectionLeaves
  <2> QED
    BY <1>1, <1>2, <2>4, <2>5, <2>6, OwnSection
<1> QED
  BY <1>3, <1>4

LEMMA MoveToSendOwing ==
    ASSUME Owing, Inv', cwmp_move_session_to_session_send
    PROVE  Owing' /\ Keeping
<1>1. pc = "move" /\ session # NULL /\ send = NULL /\ queue # <<>> /\ queue[1] = session
  BY DEF cwmp_move_session_to_session_send, Owing, Inv, Phase
<1>2. /\ send' = session /\ head' = NULL /\ session' = session
      /\ bkp' = [bkp EXCEPT !.nodes = bkp_session_move_inform_to_inform_send(bkp.nodes)]
      /\ file' = bkp' /\ pc' = "init" /\ events' = events /\ rpcs' = rpcs /\ vc' = vc
  BY <1>1 DEF cwmp_move_session_to_session_send, Calm
<1>3. Live = {session} /\ Live' = {session}
  <2>1. ToSet(queue) = {session}
    BY <1>1, SingleQueue DEF Owing, Inv, QueueShape
  <2>2. queue' = <<>> /\ ToSet(<<>>) = {}
    BY <1>2 DEF Inv, QueueShape, ToSet
  <2> QED
    BY <1>1, <1>2, <2>1, <2>2 DEF Live
<1>4. EventsPart' /\ EventsKept /\ RpcsKept /\ ChangesKept
  BY <1>2, <1>3, SameLists
<1>5. TreePart' /\ FileOwed
  <2>1. bkp'.nodes = Rename(bkp.nodes, "queue_event", "send_event")
    BY <1>2, TreeFacts, TreeSet DEF bkp_session_move_inform_to_inform_send
  <2>2. "queue_event" \in EventName /\ "send_event" \in EventName
    BY DEF EventName
  <2>3. /\ NodesOK(bkp'.nodes) /\ Within(bkp.nodes, bkp'.nodes) /\ Within(bkp'.nodes, bkp.nodes)
    BY <2>1, <2>2, TreeFacts, RenamedNodes
  <2>4. Clean
    BY <1>1 DEF Clean
  <2> QED
    BY <1>2, <2>3, <2>4, TreeTouched
<1>6. SessionPart'
  BY <1>1, <1>2 DEF Owing, SessionPart, Starting
<1>7. LoadPart'
  BY <1>2 DEF LoadPart
<1> QED
  BY <1>1, <1>2, <1>4, <1>5, <1>6, <1>7 DEF Owing, Keeping

LEMMA ScheduleOwing ==
    ASSUME Owing, Inv', Schedule
    PROVE  Owing' /\ Delivered
<1>1. Owing' /\ Keeping
  <2>1. ASSUME sched_lock \/ sched_woken PROVE Owing' /\ Keeping
    <3>1. /\ pc \in Idle /\ UNCHANGED <<queue, head, events, rpcs, bkp, file, vc, send>>
          /\ pc' \in {"presleep", "prepare"}
          /\ session' = session \/ (queue # <<>> /\ session' = queue[1])
      BY <2>1 DEF sched_lock, sched_woken, Choose, Still, Calm, queueVars, Idle
    <3> QED
      BY <3>1, IdleOwing
  <2>2. ASSUME sched_sleep \/ sched_timeout PROVE Owing' /\ Keeping
    <3>1. /\ pc \in {"wait", "presleep"} /\ pc' \in {"wait", "woken"}
          /\ UNCHANGED <<queue, head, events, rpcs, bkp, file, vc, send, session>>
      BY <2>2 DEF sched_sleep, sched_timeout, Still, Calm, queueVars, schedVars
    <3> QED
      BY <3>1, IdleOwing DEF Idle
  <2> QED
    BY <2>1, <2>2, PrepareOwing, MoveToSendOwing DEF Schedule
<1> QED
  BY <1>1, KeepingDelivered

-----------------------------------------------------------------------------
(* The session.                                                            *)

(* The first event of a session that a thread can reach is taken out.      *)
LEMMA FirstDropped ==
    ASSUME Owing, NEW s \in Live, events[s] # <<>>,
           events' = [events EXCEPT ![s] = Tail(events[s])],
           rpcs' = rpcs, vc' = vc, Live' = Live
    PROVE  /\ EventsPart' /\ RpcsKept /\ ChangesKept
           /\ Head(events[s]) \in Event
           /\ \A t \in Live : \A e \in ToSet(events[t]) :
                 e = Head(events[s]) \/ e \in ToSet(events'[t])
           /\ \A t \in Sid : ToSet(events'[t]) \subseteq ToSet(events[t])
           /\ \A t \in Sid : t # s => events'[t] = events[t]
<1>1. s \in Sid /\ Live \subseteq Sid /\ events \in [Sid -> Seq(Event)] /\ EventsPart
  BY OwingFacts DEF Owing, Inv, TypeOK
<1>2. events'[s] = Tail(events[s]) /\ \A t \in Sid : t # s => events'[t] = events[t]
  BY <1>1
<1>3. /\ Head(events[s]) \in Event
      /\ ToSet(events'[s]) \subseteq ToSet(events[s])
      /\ \A e \in ToSet(events[s]) : e # Head(events[s]) => e \in ToSet(events'[s])
  BY <1>1, <1>2, HeadAndTail
<1>4. \A t \in Sid : ToSet(events'[t]) \subseteq ToSet(events[t])
  BY <1>2, <1>3
<1>5. EventsPart'
  BY <1>1, <1>4 DEF EventsPart, AllOK
<1>6. RpcsKept /\ ChangesKept
  BY DEF RpcsKept, ChangesKept
<1>7. \A t \in Live : \A e \in ToSet(events[t]) :
          e = Head(events[s]) \/ e \in ToSet(events'[t])
  <2> SUFFICES ASSUME NEW t \in Live, NEW e \in ToSet(events[t])
               PROVE  e = Head(events[s]) \/ e \in ToSet(events'[t])
    OBVIOUS
  <2>1. CASE t = s
    BY <1>3, <2>1
  <2>2. CASE t # s
    BY <1>1, <1>2, <2>2
  <2> QED
    BY <2>1, <2>2
<1> QED
  BY <1>2, <1>3, <1>4, <1>5, <1>6, <1>7

(* Only that event may be owed no longer.                                  *)
LEMMA DropOwed ==
    ASSUME Owing, NEW s \in Live, events[s] # <<>>,
           events' = [events EXCEPT ![s] = Tail(events[s])],
           rpcs' = rpcs, vc' = vc, Live' = Live
    PROVE  LET x == <<Head(events[s]).code, Head(events[s]).key>>
           IN  /\ x \in EventCode \X Key
               /\ Owed' \subseteq Owed /\ Owed \subseteq Owed' \union {x}
               /\ \A p \in OwedParams : p \in OwedParams' \/ p \in Head(events[s]).params
<1> DEFINE h == Head(events[s])
           x == <<h.code, h.key>>
<1>1. /\ h \in Event
      /\ \A t \in Live : \A e \in ToSet(events[t]) : e = h \/ e \in ToSet(events'[t])
      /\ \A t \in Live : ToSet(events'[t]) \subseteq ToSet(events[t])
  <2>1. Live \subseteq Sid
    BY OwingFacts
  <2> QED
    BY <2>1, FirstDropped
<1> HIDE DEF h
<1>2. x \in EventCode \X Key
  BY <1>1, EventFields
<1>3. Owed' \subseteq Owed
  <2> SUFFICES ASSUME NEW c, NEW k, <<c, k>> \in Owed' PROVE <<c, k>> \in Owed
    BY OwedNext
  <2>1. PICK t \in Live' : Holds(events'[t], c, k, {})
    BY OwedNext DEF Held2
  <2>2. Holds(events[t], c, k, {})
    BY <1>1, <2>1 DEF Holds
  <2> QED
    BY <2>1, <2>2, OwedNext, OwedFacts
<1>4. Owed \subseteq Owed' \union {x}
  <2> SUFFICES ASSUME NEW c, NEW k, <<c, k>> \in Owed, <<c, k>> # x PROVE <<c, k>> \in Owed'
    BY OwedFacts
  <2>1. PICK t \in Live : Holds(events[t], c, k, {})
    BY OwedFacts
  <2>2. PICK e \in ToSet(events[t]) : e.code = c /\ e.key = k
    BY <2>1 DEF Holds
  <2>3. e \in ToSet(events'[t])
    BY <1>1, <2>2
  <2>4. Held2(c, k, {})
    BY <2>2, <2>3 DEF Held2, Holds
  <2> QED
    BY <2>4, OwedFacts, OwedNext
<1>5. \A p \in OwedParams : p \in OwedParams' \/ p \in h.params
  <2> SUFFICES ASSUME NEW p \in OwedParams, p \notin h.params PROVE p \in OwedParams'
    OBVIOUS
  <2>1. CASE p \in vc
    BY <2>1, OwedNext
  <2>2. ASSUME NEW t \in Live, NEW e \in ToSet(events[t]), p \in e.params
        PROVE  p \in OwedParams'
    <3>1. e \in ToSet(events'[t])
      BY <1>1, <2>2
    <3> QED
      BY <2>2, <3>1, OwedNext
  <2> QED
    BY <2>1, <2>2, OwedFacts
<1> QED
  BY <1>2, <1>3, <1>4, <1>5 DEF h

LEMMA DropDelivered ==
    ASSUME Owing, Inv', NEW s \in Live, events[s] # <<>>,
           events' = [events EXCEPT ![s] = Tail(events[s])],
           rpcs' = rpcs, vc' = vc, Live' = Live, file' = file,
           pc' = pc, (pc = "ack" /\ s = session) \/ pc = "flush"
    PROVE  Delivered
<1> DEFINE x == <<Head(events[s]).code, Head(events[s]).key>>
<1>1. /\ x \in EventCode \X Key
      /\ Owed' \subseteq Owed /\ Owed \subseteq Owed' \union {x}
      /\ \A p \in OwedParams : p \in OwedParams' \/ p \in Head(events[s]).params
  BY DropOwed
<1> HIDE DEF x
<1>2. Stored' = Stored
  BY DEF Stored
<1>3. /\ PhaseOf' = PhaseOf /\ PhaseOf # "down" /\ PhaseOf \in Delivery!Phase
      /\ PhaseOf # "recovering"
      /\ PhaseOf = "answered" \/ PhaseOf = "switching"
  BY DEF PhaseOf, Delivery!Phase
<1>4. Delivery!Move
  BY <1>3 DEF Delivery!Move
<1>5. ASSUME x \in Owed' PROVE Delivery!Next
  <2>1. Owed \subseteq Owed' /\ Owed' \subseteq EventCode \X Key
    BY <1>1, <1>5, OwedTypeNext
  <2>2. Delivery!Raise
    BY <1>2, <1>3, <1>4, <2>1 DEF Delivery!Raise, Delivery!Write
  <2> QED
    BY <2>2 DEF Delivery!Next
<1>6. ASSUME x \notin Owed' PROVE Delivery!Next
  <2>1. Owed' = Owed \ {x}
    BY <1>1, <1>6
  <2>2. Delivery!Acknowledge(x) \/ Delivery!Abandon(x)
    BY <1>2, <1>3, <1>4, <2>1 DEF Delivery!Acknowledge, Delivery!Abandon
  <2> QED
    BY <1>1, <2>2 DEF Delivery!Next
<1>7. Delivery!Next
  BY <1>5, <1>6
<1>8. ParamsOK
  BY <1>1 DEF ParamsOK
<1>9. ReportsOK
  <2>1. RpcsKept
    BY FirstDropped
  <2> QED
    BY <2>1, ReportsStay DEF ReportsOK
<1> QED
  BY <1>7, <1>8, <1>9 DEF Delivered

(* Its record is taken out of the tree in memory.                          *)
LEMMA DropTree ==
    ASSUME Owing, NEW id, NEW name, ~Clean', file' = file,
           bkp' = [bkp EXCEPT !.nodes = bkp_session_delete_event(bkp.nodes, id, name)]
    PROVE  TreePart'
<1>1. bkp'.nodes = bkp_session_delete_event(bkp.nodes, id, name)
  BY TreeFacts, TreeSet
<1>2. Within(bkp'.nodes, bkp.nodes) /\ NodesOK(bkp'.nodes)
  BY <1>1, TreeFacts, DeletedNodes
<1>3. Within(bkp'.nodes, file.nodes)
  BY <1>2, TreeFacts, WithinTransitive
<1> QED
  BY <1>2, <1>3, TreeFacts DEF TreePart

(* The first RPC of the session is taken out.                              *)
LEMMA FirstAnswered ==
    ASSUME Owing, NEW s \in Live, rpcs[s] # <<>>, Sent(rpcs[s]),
           rpcs' = [rpcs EXCEPT ![s] = Tail(rpcs[s])],
           events' = events, Live' = Live
    PROVE  /\ Sent(rpcs'[s]) /\ rpcs'[s] = Tail(rpcs[s])
           /\ \A t \in Sid : t # s => rpcs'[t] = rpcs[t]
           /\ Head(rpcs[s]) \in Rpc /\ Head(rpcs[s]) = rpcs[s][1]
           /\ \A t \in Live : \A r \in ToSet(rpcs[t]) :
                 r = Head(rpcs[s]) \/ r \in ToSet(rpcs'[t])
<1>1. s \in Sid /\ Live \subseteq Sid /\ rpcs \in [Sid -> Seq(Rpc)]
  BY OwingFacts DEF Owing, Inv, TypeOK
<1>2. rpcs'[s] = Tail(rpcs[s]) /\ \A t \in Sid : t # s => rpcs'[t] = rpcs[t]
  BY <1>1
<1>3. /\ Head(rpcs[s]) \in Rpc /\ Head(rpcs[s]) = rpcs[s][1]
      /\ \A r \in ToSet(rpcs[s]) : r # Head(rpcs[s]) => r \in ToSet(rpcs'[s])
  BY <1>1, <1>2, HeadAndTail
<1>4. Sent(rpcs'[s])
  BY <1>1, <1>2, TailSent
<1>5. \A t \in Live : \A r \in ToSet(rpcs[t]) :
          r = Head(rpcs[s]) \/ r \in ToSet(rpcs'[t])
  <2> SUFFICES ASSUME NEW t \in Live, NEW r \in ToSet(rpcs[t])
               PROVE  r = Head(rpcs[s]) \/ r \in ToSet(rpcs'[t])
    OBVIOUS
  <2>1. CASE t = s
    BY <1>3, <2>1
  <2>2. CASE t # s
    BY <1>1, <1>2, <2>2
  <2> QED
    BY <2>1, <2>2
<1> QED
  BY <1>2, <1>3, <1>4, <1>5

LEMMA AckOwing ==
    ASSUME Owing, Inv', event_remove_all_event_container
    PROVE  Owing' /\ Delivered
<1>1. /\ pc = "ack" /\ UNCHANGED <<queue, head, send, session, err, crEvent, idx, vc>>
  BY DEF event_remove_all_event_container, Calm, schedVars
<1>2. /\ session # NULL /\ send = session /\ session \in Sid /\ session \in Live
      /\ Live' = Live /\ events \in [Sid -> Seq(Event)]
  <2>1. session # NULL /\ send = session /\ session \in Sid
    BY <1>1, OwingFacts DEF Inv, Phase, Sending, Exchange
  <2> QED
    BY <1>1, <2>1 DEF Live, Owing, Inv, TypeOK
<1>3. Sent(rpcs[session]) /\ HasInform(rpcs[session])
  BY <1>1, <1>2 DEF Owing, SessionPart
<1>4. CASE events[session] # <<>>
  <2>1. /\ events' = [events EXCEPT ![session] = Tail(events[session])]
        /\ bkp' = [bkp EXCEPT !.nodes = bkp_session_delete_event(bkp.nodes,
                                            Head(events[session]).id, "send_event")]
        /\ rpcs' = rpcs /\ pc' = pc /\ file' = file
    BY <1>4 DEF event_remove_all_event_container, DropFirstEvent
  <2>2. TreePart'
    BY <1>1, <2>1, DropTree DEF Clean
  <2>3. EventsPart'
    BY <1>1, <1>2, <1>4, <2>1, FirstDropped
  <2>4. SessionPart' /\ LoadPart'
    BY <1>1, <1>2, <1>3, <2>1 DEF SessionPart, LoadPart, Starting
  <2>5. Delivered
    BY <1>1, <1>2, <1>4, <2>1, DropDelivered
  <2> QED
    BY <2>2, <2>3, <2>4, <2>5 DEF Owing
<1>5. CASE events[session] = <<>>
  <2>1. /\ rpcs' = [rpcs EXCEPT ![session] = Tail(rpcs[session])]
        /\ rpcs[session] # <<>>
        /\ pc' \in {"acs", "empty"} /\ file' = bkp /\ events' = events /\ bkp' = bkp
    BY <1>5 DEF event_remove_all_event_container, AfterRpc
  <2>2. /\ Sent(rpcs'[session]) /\ ~IsReport(Head(rpcs[session]))
        /\ \A t \in Live : \A r \in ToSet(rpcs[t]) :
              r = Head(rpcs[session]) \/ r \in ToSet(rpcs'[t])
    <3>1. /\ Sent(rpcs'[session]) /\ Head(rpcs[session]) = rpcs[session][1]
          /\ \A t \in Live : \A r \in ToSet(rpcs[t]) :
                r = Head(rpcs[session]) \/ r \in ToSet(rpcs'[t])
      BY <1>2, <1>3, <2>1, FirstAnswered
    <3>2. Head(rpcs[session]).type = "Inform"
      BY <1>3, <3>1 DEF HasInform
    <3> QED
      BY <3>1, <3>2 DEF IsReport
  <2>3. RpcsKept
    BY <1>2, <2>2 DEF RpcsKept
  <2>4. EventsPart' /\ EventsKept /\ ChangesKept
    <3>1. events' = events /\ EventsPart
      BY <2>1 DEF Owing
    <3>2. EventsKept
      <4> SUFFICES ASSUME NEW s \in Live, NEW e \in ToSet(events[s])
                   PROVE  Held2(e.code, e.key, e.params)
        BY DEF EventsKept
      <4> QED
        BY <1>2, <3>1 DEF Held2, Holds
    <3> QED
      BY <1>1, <3>1, <3>2 DEF EventsPart, ChangesKept
  <2>5. TreePart' /\ FileOwed
    <3>1. \A n \in ToSet(bkp.nodes) : n.name \in EventName => Recorded(bkp.nodes, n.code, n.key)
      BY DEF Recorded
    <3> QED
      BY <2>1, <3>1, TreeFacts, TreeWritten
  <2>6. SessionPart'
    BY <1>1, <1>2, <1>5, <2>1, <2>2 DEF SessionPart, Starting
  <2>7. LoadPart'
    BY <2>1 DEF LoadPart
  <2>8. Keeping
    BY <1>1, <2>1, <2>3, <2>4, <2>5 DEF Keeping
  <2> QED
    BY <2>4, <2>5, <2>6, <2>7, <2>8, KeepingDelivered DEF Owing
<1> QED
  BY <1>4, <1>5

(* The record of a reported transfer is taken out.                         *)
LEMMA WithoutNodes ==
    ASSUME NEW t \in Tree, NodesOK(t.nodes), NEW c, NEW k
    PROVE  /\ NodesOK(WithoutRecord(t, c, k).nodes)
           /\ Within(WithoutRecord(t, c, k).nodes, t.nodes)
           /\ Within(t.nodes, WithoutRecord(t, c, k).nodes)
<1> DEFINE ns == t.nodes
           new == WithoutRecord(t, c, k).nodes
<1>1. ns \in Seq(Node) /\ new = bkp_session_delete_transfer_complete(ns, c, k)
  BY TreeNodes DEF WithoutRecord, Tree
<1> HIDE DEF ns, new
<1>2. /\ Transfers(ns, c, k) \in SUBSET (1 .. Len(ns))
      /\ \A i \in Transfers(ns, c, k) : ns[i].name \notin EventName
  BY DEF Transfers, EventName
<1>3. ToSet(new) \subseteq ToSet(ns) /\ Within(ns, new)
  BY <1>1, <1>2, RemovedNodes DEF bkp_session_delete_transfer_complete
<1>4. NodesOK(new) /\ Within(new, ns) /\ Within(ns, new)
  BY <1>3, SubsetWithin DEF ns
<1> QED
  BY <1>4 DEF ns, new

LEMMA ExtraCleanTree ==
    ASSUME Owing, NEW r, ExtraClean(r), Clean' => Clean
    PROVE  TreePart' /\ FileOwed
<1>1. CASE UNCHANGED <<bkp, file>>
  BY <1>1, TreeUnchanged
<1>2. CASE bkp' = WithoutRecord(bkp, r.code, r.key) /\ file' = bkp'
  BY <1>2, TreeFacts, WithoutNodes, TreeTouched
<1> QED
  BY <1>1, <1>2 DEF ExtraClean

LEMMA EventsSame ==
    ASSUME Owing, events' = events, Live \subseteq Live', vc' = vc
    PROVE  EventsPart' /\ EventsKept /\ ChangesKept
<1>1. EventsKept
  <2> SUFFICES ASSUME NEW s \in Live, NEW e \in ToSet(events[s])
               PROVE  Held2(e.code, e.key, e.params)
    BY DEF EventsKept
  <2> QED
    BY DEF Held2, Holds
<1> QED
  BY <1>1 DEF Owing, EventsPart, ChangesKept

(* A report is acknowledged.                                               *)
LEMMA EventsDeliveredBy ==
    ASSUME Inv', EventsKept, ChangesKept, FileOwed, pc # "down", pc' # "down",
           pc # "load", ReportsOK
    PROVE  Delivered
<1>1. Owed \subseteq Owed' /\ Stored' \subseteq Stored \union Owed'
  BY OwedKept, FileFollows
<1>2. /\ PhaseOf # "down" /\ PhaseOf' # "down" /\ PhaseOf' \in Delivery!Phase
      /\ PhaseOf # "recovering"
  BY DEF PhaseOf, Delivery!Phase
<1>3. Delivery!Raise
  BY <1>1, <1>2, OwedTypeNext DEF Delivery!Raise, Delivery!Move, Delivery!Write
<1>4. ParamsOK
  BY ParamsStay DEF ParamsOK
<1> QED
  BY <1>3, <1>4 DEF Delivered, Delivery!Next

LEMMA AnsweredOwing ==
    ASSUME Owing, Inv', rpc_acs_answered
    PROVE  Owing' /\ Delivered
<1>1. /\ pc = "acs" /\ UNCHANGED <<queue, head, send, session, err, crEvent, idx, vc>>
      /\ events' = events /\ rpcs[session] # <<>>
      /\ rpcs' = [rpcs EXCEPT ![session] = Tail(rpcs[session])]
      /\ pc' \in {"acs", "empty"} /\ ExtraClean(Head(rpcs[session]))
      /\ Head(rpcs[session]).type # "Inform"
  BY DEF rpc_acs_answered, AfterRpc, Calm, schedVars
<1>2. /\ session # NULL /\ send = session /\ session \in Sid /\ session \in Live
      /\ Live' = Live
  <2>1. session # NULL /\ send = session /\ session \in Sid
    BY <1>1, OwingFacts DEF Inv, Phase, Sending, Exchange
  <2> QED
    BY <1>1, <2>1 DEF Live
<1>3. Sent(rpcs[session])
  BY <1>2 DEF Owing, SessionPart
<1>4. /\ Sent(rpcs'[session]) /\ Head(rpcs[session]) = rpcs[session][1]
      /\ \A t \in Live : \A r \in ToSet(rpcs[t]) :
            r = Head(rpcs[session]) \/ r \in ToSet(rpcs'[t])
  BY <1>1, <1>2, <1>3, FirstAnswered
<1>5. events[session] = <<>>
  <2>1. ~HasInform(rpcs[session])
    BY <1>1, <1>4 DEF HasInform
  <2> QED
    BY <1>2, <2>1 DEF Owing, SessionPart
<1>6. EventsPart' /\ EventsKept /\ ChangesKept
  BY <1>1, <1>2, EventsSame
<1>7. TreePart' /\ FileOwed
  BY <1>1, ExtraCleanTree DEF Clean
<1>8. SessionPart' /\ LoadPart'
  BY <1>1, <1>2, <1>4, <1>5 DEF SessionPart, LoadPart, Starting
<1>9. ReportsOK
  <2> SUFFICES ASSUME NEW r \in Reports, r \notin Reports' PROVE r = Head(rpcs[session])
    BY <1>1 DEF ReportsOK
  <2>1. PICK t \in Live : r \in ToSet(rpcs[t])
    BY OwedFacts
  <2> QED
    BY <1>2, <1>4, <2>1, OwedFacts, OwedNext
<1>10. Delivered
  BY <1>1, <1>6, <1>7, <1>9, EventsDeliveredBy
<1> QED
  BY <1>6, <1>7, <1>8, <1>10 DEF Owing

LEMMA RebootOwing ==
    ASSUME Owing, Inv', NEW k \in CmdKey, cwmp_handle_rpc_cpe_reboot(k)
    PROVE  Owing' /\ Delivered
<1>1. /\ pc = "cpe" /\ pc' = "reply" /\ RaiseSaved(M_Reboot, k, QueuedRpcs)
      /\ UNCHANGED <<send, session, err, vc>>
  BY DEF cwmp_handle_rpc_cpe_reboot, cwmp_set_end_session, Calm, schedVars
<1>2. M_Reboot \in EventCode /\ k \in Key /\ KeyOK(M_Reboot, k)
  BY CodeTypes, KeysOK
<1>3. Clean
  BY <1>1 DEF Clean
<1>4. \E fin : SectionLeaves(fin, QueuedRpcs) /\ TreePart' /\ FileOwed
  BY <1>1, <1>2, <1>3, RpcsGrow, RaiseSection
<1>5. ChangesKept
  BY <1>1 DEF ChangesKept
<1>6. pc' \notin {"endf", "ended", "close"} \union Starting
  BY <1>1 DEF Starting
<1> QED
  BY <1>1, <1>4, <1>5, <1>6, OwnSection, KeepingDelivered

(* Events that are not retried are given up.                               *)
LEMMA NoRetryOwing ==
    ASSUME Owing, Inv', event_remove_noretry_event_container
    PROVE  Owing' /\ Delivered
<1> DEFINE I == {i \in 1 .. Len(events[session]) : events[session][i].code \in NoRetry}
<1>1. /\ pc = "fail" /\ UNCHANGED <<queue, head, rpcs, send, session, bkp, file, vc, idx>>
  BY DEF event_remove_noretry_event_container, Calm
<1>2. /\ session # NULL /\ send = session /\ session \in Sid /\ session \in Live
      /\ Live' = Live /\ Live \subseteq Sid /\ events \in [Sid -> Seq(Event)]
      /\ rpcs' = rpcs /\ EventsPart
  <2>1. session # NULL /\ send = session /\ session \in Sid
    BY <1>1, OwingFacts DEF Inv, Phase, Sending, Exchange
  <2> QED
    BY <1>1, <2>1, OwingFacts DEF Live, Owing, Inv, TypeOK
<1>3. CASE I = {}
  <2>1. events' = events /\ pc' = "endf" /\ err' = "RETRY"
    BY <1>3 DEF event_remove_noretry_event_container
  <2> QED
    BY <1>1, <2>1, SendingOn, KeepingDelivered DEF Exchange
<1>4. CASE I # {}
  <2>1. /\ events' = [events EXCEPT ![session] = RemoveFirstOf(events[session], I)]
        /\ pc' = pc /\ err' = err
    BY <1>4 DEF event_remove_noretry_event_container
  <2>2. PICK i \in 1 .. Len(events[session]) : i = Min(I) /\ events[session][i].code \in NoRetry
    <3>1. I \in SUBSET Nat
      BY <1>2, LenProperties
    <3> QED
      BY <1>4, <3>1, MinNat
  <2>3. events'[session] = RemoveAt(events[session], i)
    BY <1>2, <1>4, <2>1, <2>2 DEF RemoveFirstOf
  <2> HIDE DEF I
  <2> DEFINE d == events[session][i]
  <2>4. /\ events[session] \in Seq(Event) /\ d \in ToSet(events[session])
        /\ ToSet(events'[session]) \subseteq ToSet(events[session])
        /\ \A x \in ToSet(events[session]) : x # d => x \in ToSet(events'[session])
    BY <1>2, <2>3, ElementsRemoved, ElementsOf
  <2>5. d.params = {}
    <3>1. EventOK(d)
      BY <1>2, <2>4 DEF EventsPart, AllOK
    <3>2. VALUE_CHANGE \notin NoRetry
      BY DEF NoRetry, VALUE_CHANGE, RetryAfterTransmitFail, CONNECTION_REQUEST, EventCode
    <3> QED
      BY <2>2, <3>1, <3>2 DEF EventOK
  <2> DEFINE keep == {x \in ToSet(events[session]) : x # d}
  <2>6. d.code \in NoRetry
    BY <2>2
  <2> HIDE DEF d
  <2>7. \A t \in Sid : t # session => events'[t] = events[t]
    BY <1>2, <2>1
  <2>8. EventsPart'
    BY <1>2, <2>4, <2>7 DEF EventsPart, AllOK
  <2>9. EventsKept
    <3> SUFFICES ASSUME NEW s \in Live, NEW e \in ToSet(events[s]),
                        ~(e.code \in NoRetry /\ e.params = {})
                 PROVE  Held2(e.code, e.key, e.params)
      BY DEF EventsKept
    <3>1. e \in ToSet(events'[s])
      BY <1>2, <2>4, <2>5, <2>6, <2>7
    <3> QED
      BY <1>2, <3>1 DEF Held2, Holds
  <2>10. RpcsKept /\ ChangesKept
    BY <1>1, <1>2 DEF RpcsKept, ChangesKept
  <2>11. TreePart' /\ FileOwed
    BY <1>1, TreeUnchanged DEF Clean
  <2>12. SessionPart'
    <3>1. events[session] # <<>>
      BY <2>2
    <3>2. HasInform(rpcs[session]) /\ Sent(rpcs[session])
      BY <1>2, <3>1 DEF Owing, SessionPart
    <3> QED
      BY <1>1, <1>2, <2>1, <3>2 DEF SessionPart, Starting
  <2>13. LoadPart'
    BY <1>1, <2>1 DEF LoadPart
  <2>14. Keeping
    BY <1>1, <2>1, <2>9, <2>10, <2>11 DEF Keeping
  <2> QED
    BY <2>8, <2>11, <2>12, <2>13, <2>14, KeepingDelivered DEF Owing
<1> QED
  BY <1>3, <1>4

LEMMA ConverseOwing ==
    ASSUME Owing, Inv', Converse
    PROVE  Owing' /\ Delivered
<1>1. ASSUME \/ http_client_init \/ rpc_acs_failed \/ rpc_inform_answered \/ rpc_acs_done
             \/ xml_send_empty \/ xml_send_response \/ cwmp_handle_rpc_cpe_other
             \/ \E f \in {"FACTORY_RESET", "RELOAD"} : cwmp_handle_rpc_cpe_flag(f)
             \/ rpc_next
      PROVE  Owing' /\ Keeping
  <2>1. /\ UNCHANGED <<queue, head, events, rpcs, bkp, file, vc, send, session>>
        /\ pc \in Exchange /\ pc # "ack"
        /\ pc' \in Exchange \union {"endf"}
        /\ pc' = "endf" => rpcs[session] = <<>>
    BY <1>1 DEF http_client_init, rpc_acs_failed, rpc_inform_answered, rpc_acs_done,
       xml_send_empty, xml_send_response, AcsReplies, xml_handle_message,
       cwmp_handle_rpc_cpe_other, Respond, cwmp_set_end_session,
       cwmp_handle_rpc_cpe_get_rpc_methods, cwmp_handle_rpc_cpe_fault,
       cwmp_handle_rpc_cpe_flag, rpc_next, Goto, Still, Calm, queueVars, schedVars, Exchange
  <2>2. pc' = "ack" => HasInform(rpcs[session])
    <3>1. ASSUME pc' = "ack" PROVE rpcs[session] # <<>> /\ Head(rpcs[session]).type = "Inform"
      BY <1>1, <3>1 DEF http_client_init, rpc_acs_failed, rpc_inform_answered, rpc_acs_done,
       xml_send_empty, xml_send_response, AcsReplies, xml_handle_message,
       cwmp_handle_rpc_cpe_other, Respond, cwmp_set_end_session,
       cwmp_handle_rpc_cpe_get_rpc_methods, cwmp_handle_rpc_cpe_fault,
       cwmp_handle_rpc_cpe_flag, rpc_next, Goto
    <3>2. session \in Sid /\ rpcs[session] \in Seq(Rpc)
      BY <2>1, OwingFacts DEF Owing, Inv, Phase, Sending, TypeOK
    <3>3. rpcs[session] # <<>> => Head(rpcs[session]) = rpcs[session][1]
      BY <3>2, HeadAndTail
    <3> QED
      BY <3>1, <3>3 DEF HasInform
  <2> QED
    BY <2>1, <2>2, SendingOn DEF Exchange
<1> QED
  BY <1>1, KeepingDelivered, AckOwing, AnsweredOwing, RebootOwing, NoRetryOwing DEF Converse

-----------------------------------------------------------------------------
(* The end of the session, and of the process.                             *)

LEMMA EndsOwing ==
    ASSUME Owing, Inv', pc # "down", NEW f \in Tree, ProcessEnds(f), NodesOK(f.nodes),
           Stored' = Stored \/ Stored' = {}
    PROVE  Owing' /\ Delivered
<1>1. /\ pc' = "down" /\ queue' = <<>> /\ send' = NULL /\ session' = NULL
      /\ events' = [s \in Sid |-> <<>>] /\ bkp' = f /\ file' = f
  BY DEF ProcessEnds
<1>2. Live' = {}
  BY <1>1 DEF Live, ToSet
<1>3. EventsPart'
  <2>1. ToSet(<<>>) = {}
    BY DEF ToSet
  <2> QED
    BY <1>1, <2>1 DEF EventsPart, AllOK
<1>4. TreePart'
  BY <1>1, Reflexive DEF TreePart
<1>5. SessionPart' /\ LoadPart'
  BY <1>1 DEF SessionPart, LoadPart, Starting
<1>6. Owed' = {}
  <2>1. \A c, k : <<c, k>> \notin Owed'
    BY <1>2, OwedNext DEF Held2
  <2> QED
    BY <2>1, OwedNext
<1>7. PhaseOf' = "down" /\ PhaseOf # "down"
  BY <1>1 DEF PhaseOf
<1>8. Delivered
  BY <1>1, <1>6, <1>7 DEF Delivered, Delivery!Next, Delivery!Stop, ParamsOK, ReportsOK
<1> QED
  BY <1>3, <1>4, <1>5, <1>8 DEF Owing

LEMMA SessionEndOwing ==
    ASSUME Owing, Inv'
    PROVE  /\ end_factory_reset => Owing' /\ Delivered
           /\ end_reboot => Owing' /\ Delivered
           /\ end_reload => Owing' /\ Delivered
           /\ end_other => Owing' /\ Delivered
           /\ end_clear => Owing' /\ Delivered
<1>1. ASSUME end_factory_reset PROVE Owing' /\ Delivered
  <2>1. pc # "down" /\ ProcessEnds(EmptyTree) /\ file' = EmptyTree
    BY <1>1 DEF end_factory_reset, ProcessEnds
  <2>2. EmptyTree.nodes = <<>> /\ ToSet(<<>>) = {}
    BY DEF EmptyTree, ToSet
  <2>3. NodesOK(EmptyTree.nodes) /\ Stored' = {}
    BY <2>1, <2>2 DEF NodesOK, Stored
  <2> QED
    BY <2>1, <2>3, EmptyTreeType, EndsOwing
<1>2. ASSUME end_reboot PROVE Owing' /\ Delivered
  <2>1. pc # "down" /\ ProcessEnds(file) /\ file' = file
    BY <1>2 DEF end_reboot, ProcessEnds
  <2>2. Stored' = Stored
    BY <2>1 DEF Stored
  <2> QED
    BY <2>1, <2>2, TreeFacts, EndsOwing
<1>3. ASSUME end_reload PROVE Owing' /\ Delivered
  <2>1. /\ UNCHANGED <<queue, head, events, rpcs, bkp, file, vc, send, session, err, idx>>
        /\ pc = "endf" /\ pc' = "bootstrap"
    BY <1>3 DEF end_reload, queueVars, schedVars
  <2>2. send # NULL /\ send = session
    BY <2>1, SidAssumption DEF Owing, Inv, Phase, Sending
  <2>3. Live' = Live /\ Clean
    BY <2>1 DEF Live, Clean
  <2>4. SessionPart' /\ LoadPart'
    BY <2>1, <2>2 DEF Owing, SessionPart, LoadPart
  <2> QED
    BY <2>1, <2>3, <2>4, MoveOn, KeepingDelivered
<1>4. ASSUME end_other \/ end_clear PROVE Owing' /\ Delivered
  <2>1. /\ UNCHANGED <<queue, head, events, rpcs, bkp, file, vc, send, session, err>>
        /\ pc \in {"endf", "ended"} /\ pc' \in {"ended", "close"}
    BY <1>4 DEF end_other, end_clear, Goto, Still, Calm, queueVars, schedVars
  <2>2. send # NULL
    BY <2>1, SidAssumption DEF Owing, Inv, Phase, Sending
  <2>3. err' = "OK" => rpcs[session] = <<>>
    BY <2>1, <2>2 DEF Owing, SessionPart
  <2> QED
    BY <2>1, <2>3, SendingOn, KeepingDelivered
<1> QED
  BY <1>1, <1>2, <1>3, <1>4

LEMMA EnsureInformKeeps ==
    ASSUME NEW rs \in Seq(Rpc)
    PROVE  ToSet(rs) \subseteq ToSet(EnsureInform(rs))
<1>1. CASE rs # <<>> /\ Head(rs).type = "Inform"
  BY <1>1 DEF EnsureInform
<1>2. CASE ~(rs # <<>> /\ Head(rs).type = "Inform")
  <2> DEFINE new == <<Inform>> \o rs
  <2>1. EnsureInform(rs) = new
    BY <1>2 DEF EnsureInform
  <2>2. <<Inform>> \in Seq(Rpc) /\ Len(<<Inform>>) = 1
    BY RpcTypes
  <2>3. /\ new \in Seq(Rpc) /\ Len(new) = 1 + Len(rs) /\ Len(rs) \in Nat
        /\ \A i \in 1 .. Len(new) : new[i] = IF i <= 1 THEN <<Inform>>[i] ELSE rs[i - 1]
    BY <2>2, ConcatProperties, LenProperties
  <2> HIDE DEF new
  <2>4. ASSUME NEW j \in 1 .. Len(rs) PROVE rs[j] \in ToSet(new)
    <3>1. j + 1 \in 1 .. Len(new) /\ new[j + 1] = rs[j]
      BY <2>3
    <3> QED
      BY <2>3, <3>1, ElementsOf
  <2>5. ToSet(rs) \subseteq ToSet(new)
    BY <2>4, ElementsOf
  <2> QED
    BY <2>1, <2>5
<1> QED
  BY <1>1, <1>2

LEMMA RequeueOwing ==
    ASSUME Owing, Inv', requeue_session
    PROVE  Owing' /\ Delivered
<1>1. /\ pc = "close" /\ queue = <<>> /\ queue' = <<session>> /\ head' = session
      /\ send' = NULL /\ session' = NULL /\ events' = events /\ vc' = vc
      /\ rpcs' = [rpcs EXCEPT ![session] = EnsureInform(rpcs[session])]
      /\ bkp' = [bkp EXCEPT !.nodes = bkp_session_move_inform_to_inform_queue(bkp.nodes)]
      /\ file' = bkp' /\ pc' = "lock"
  BY DEF requeue_session, Calm
<1>2. session # NULL /\ send = session /\ session \in Sid /\ rpcs \in [Sid -> Seq(Rpc)]
  BY <1>1, OwingFacts DEF Inv, Phase, Sending, TypeOK
<1>3. Live = {session} /\ Live' = {session}
  <2>1. ToSet(queue') = {session}
    BY <1>1, ToSetSingle
  <2>2. ToSet(queue) = {}
    BY <1>1 DEF ToSet
  <2> QED
    BY <1>1, <1>2, <2>1, <2>2 DEF Live
<1>4. EventsPart' /\ EventsKept /\ ChangesKept
  BY <1>1, <1>3, EventsSame
<1>5. RpcsKept
  <2>1. rpcs'[session] = EnsureInform(rpcs[session])
    BY <1>1, <1>2
  <2>2. ToSet(rpcs[session]) \subseteq ToSet(rpcs'[session])
    BY <1>2, <2>1, EnsureInformKeeps
  <2> QED
    BY <1>3, <2>2 DEF RpcsKept
<1>6. TreePart' /\ FileOwed
  <2>1. bkp'.nodes = Rename(bkp.nodes, "send_event", "queue_event")
    BY <1>1, TreeFacts, TreeSet DEF bkp_session_move_inform_to_inform_queue
  <2>2. "queue_event" \in EventName /\ "send_event" \in EventName
    BY DEF EventName
  <2>3. /\ NodesOK(bkp'.nodes) /\ Within(bkp.nodes, bkp'.nodes) /\ Within(bkp'.nodes, bkp.nodes)
    BY <2>1, <2>2, TreeFacts, RenamedNodes
  <2>4. Clean
    BY <1>1 DEF Clean
  <2> QED
    BY <1>1, <2>3, <2>4, TreeTouched
<1>7. SessionPart' /\ LoadPart'
  BY <1>1 DEF SessionPart, LoadPart, Starting
<1>8. Keeping
  BY <1>1, <1>4, <1>5, <1>6 DEF Keeping
<1> QED
  BY <1>4, <1>6, <1>7, <1>8, KeepingDelivered DEF Owing

LEMMA MergeEventOwing ==
    ASSUME Owing, Inv', merge_event
    PROVE  Owing' /\ Delivered
<1> DEFINE old == events[session][idx]
           st == Spliced(AddEvent(Here, old.code, old.key), old.params)
           fin == Saved(st)
<1>1. /\ pc = "merge" /\ pc' = "merge" /\ idx <= Len(events[session]) /\ idx' = idx + 1
      /\ UNCHANGED <<send, session, err, vc>>
      /\ Queued(fin, QueuedRpcs)
      /\ bkp' = [bkp EXCEPT !.nodes = SavedNodes(st, bkp.nodes)]
      /\ file' = IF Persistent(st) THEN bkp' ELSE file
  BY DEF merge_event, Calm
<1>2. /\ session \in Sid /\ send = NULL /\ head # NULL /\ idx \in Nat \ {0}
      /\ events[session] \in Seq(Event) /\ session # Target /\ EventsPart
      /\ Len(events[session]) \in Nat
  <2>1. session # NULL /\ session \in Sid /\ send = NULL /\ idx \in Nat \ {0} /\ queue # <<>>
    BY <1>1, OwingFacts DEF Inv, Phase
  <2>2. head # NULL /\ events[session] \in Seq(Event)
    BY <2>1, SingleQueue DEF Owing, Inv, TypeOK
  <2>3. session # Target
    BY <1>1, OwingFacts DEF TargetOK
  <2> QED
    BY <2>1, <2>2, <2>3, LenProperties DEF Owing
<1>3. idx \in 1 .. Len(events[session])
  BY <1>1, <1>2
<1>4. old \in Event /\ EventOK(old)
  <2>1. old \in ToSet(events[session]) /\ old \in Event
    BY <1>2, <1>3, ElementsOf
  <2> QED
    BY <1>2, <2>1 DEF EventsPart, AllOK
<1> HIDE DEF old
<1>5. /\ old.code \in EventCode /\ old.key \in Key /\ KeyOK(old.code, old.key)
      /\ old.params \in SUBSET Params /\ (old.params # {} => old.code = VALUE_CHANGE)
      /\ st = Spliced(AddEvent(Here, old.code, old.key), old.params)
  BY <1>4 DEF EventOK, Event
<1> HIDE DEF st
<1>6. Good(st) /\ Section(st) /\ Holds(st.evs, old.code, old.key, old.params)
  BY <1>5, SplicedSection
<1>7. /\ Good(fin) /\ Section(fin) /\ Covered(st.evs, fin.evs)
      /\ fin.evs[fin.at].code = st.evs[st.at].code /\ fin.evs[fin.at].key = st.evs[st.at].key
  BY <1>6, SectionSaved
<1> HIDE DEF fin
<1>8. SectionLeaves(fin, QueuedRpcs)
  BY <1>1, <1>7, RpcsGrow, SectionStep
<1>9. TreePart' /\ FileOwed
  BY <1>1, <1>6, <1>7, <1>8, SavedStep DEF SectionLeaves, Clean
<1>10. events'[session] = events[session] /\ events'[head'] = fin.evs /\ head' # NULL
  BY <1>2, <1>8 DEF SectionLeaves
<1>11. Holds(fin.evs, old.code, old.key, old.params)
  <2>1. PICK e \in ToSet(st.evs) : e.code = old.code /\ e.key = old.key /\ old.params \subseteq e.params
    BY <1>6 DEF Holds
  <2>2. PICK f \in ToSet(fin.evs) : f.code = e.code /\ f.key = e.key /\ e.params \subseteq f.params
    BY <1>7, <2>1 DEF Covered, Holds
  <2> QED
    BY <2>1, <2>2 DEF Holds
<1>12. ASSUME NEW i \in 1 .. Len(events[session]), i < idx
       PROVE  Holds(fin.evs, events[session][i].code, events[session][i].key,
                    events[session][i].params)
  <2> DEFINE d == events[session][i]
  <2>1. Holds(QueuedEvents, d.code, d.key, d.params)
    BY <1>1, <1>2, <1>12 DEF Owing, SessionPart, Held, QueuedEvents
  <2> HIDE DEF d
  <2>2. PICK e \in ToSet(QueuedEvents) : e.code = d.code /\ e.key = d.key /\ d.params \subseteq e.params
    BY <2>1 DEF Holds
  <2>3. PICK f \in ToSet(fin.evs) : f.code = e.code /\ f.key = e.key /\ e.params \subseteq f.params
    BY <1>7, <2>2 DEF Section, Covered, Holds
  <2>4. Holds(fin.evs, d.code, d.key, d.params)
    BY <2>2, <2>3 DEF Holds
  <2> QED
    BY <2>4 DEF d
<1>13. SessionPart'
  <2>1. ASSUME NEW i \in 1 .. Len(events'[session']), i < idx'
        PROVE  Held(events[session][i])'
    <3>1. i \in 1 .. Len(events[session]) /\ (i < idx \/ i = idx)
      BY <1>1, <1>2, <1>10, <2>1
    <3>2. Holds(fin.evs, events[session][i].code, events[session][i].key,
                events[session][i].params)
      BY <1>11, <1>12, <3>1 DEF old
    <3>3. session' = session
      BY <1>1
    <3> QED
      BY <1>10, <3>2, <3>3 DEF Held
  <2>2. session' # NULL =>
          /\ Sent(rpcs'[session'])
          /\ HasInform(rpcs'[session']) \/ events'[session'] = <<>>
    BY <1>1, <1>8 DEF SectionLeaves
  <2> QED
    BY <1>1, <2>1, <2>2 DEF SessionPart, Starting
<1>14. LoadPart'
  BY <1>1 DEF LoadPart
<1>15. Keeping
  BY <1>1, <1>8, <1>9 DEF Keeping, ChangesKept, SectionLeaves
<1> QED
  BY <1>8, <1>9, <1>13, <1>14, <1>15, KeepingDelivered DEF Owing, SectionLeaves

LEMMA MergeMovesOwing ==
    ASSUME Owing, Inv'
    PROVE  /\ merge_begin => Owing' /\ Delivered
           /\ merge_events_done => Owing' /\ Delivered
           /\ merge_rpcs_done => Owing' /\ Delivered
           /\ close_success => Owing' /\ Delivered
<1>1. ASSUME merge_begin PROVE Owing' /\ Delivered
  <2>1. /\ UNCHANGED <<queue, head, events, rpcs, bkp, file, vc, session>>
        /\ pc = "close" /\ pc' = "merge" /\ send' = NULL /\ idx' = 1
    BY <1>1 DEF merge_begin, Calm, queueVars
  <2>2. session # NULL /\ send = session
    BY <2>1 DEF Owing, Inv, Phase, Sending
  <2>3. Live' = Live /\ Clean
    BY <2>1, <2>2 DEF Live, Clean
  <2>4. SessionPart' /\ LoadPart'
    BY <2>1, <2>2 DEF Owing, SessionPart, LoadPart, Starting
  <2> QED
    BY <2>1, <2>3, <2>4, MoveOn, KeepingDelivered
<1>2. ASSUME merge_events_done PROVE Owing' /\ Delivered
  <2>1. /\ UNCHANGED <<queue, head, events, rpcs, bkp, file, vc, session, send>>
        /\ pc = "merge" /\ pc' = "mergeRpc" /\ idx' = 1 /\ idx > Len(events[session])
    BY <1>2 DEF merge_events_done, Still, Calm, queueVars
  <2>2. /\ session # NULL /\ session \in Sid /\ send = NULL /\ queue # <<>> /\ idx \in Nat
        /\ events[session] \in Seq(Event) /\ Len(events[session]) \in Nat
    <3>1. session # NULL /\ session \in Sid /\ send = NULL /\ queue # <<>> /\ idx \in Nat
      BY <2>1, OwingFacts DEF Inv, Phase
    <3> QED
      BY <3>1, LenProperties DEF Owing, Inv, TypeOK
  <2>3. Live' = Live /\ Clean
    BY <2>1 DEF Live, Clean
  <2>4. \A e \in ToSet(events[session]) : Held(e)
    <3>1. \A i \in 1 .. Len(events[session]) : Held(events[session][i])
      BY <2>1, <2>2 DEF Owing, SessionPart
    <3> QED
      BY <2>2, <3>1, ElementsOf
  <2>5. \A e \in ToSet(events'[session']) : Held(e)'
    BY <2>1, <2>4 DEF Held
  <2>6. SessionPart' /\ LoadPart'
    BY <2>1, <2>2, <2>5 DEF Owing, SessionPart, LoadPart, Starting
  <2> QED
    BY <2>1, <2>3, <2>6, MoveOn, KeepingDelivered
<1>3. ASSUME merge_rpcs_done PROVE Owing' /\ Delivered
  <2>1. /\ UNCHANGED <<queue, head, events, rpcs, bkp, file, vc, session, send>>
        /\ pc = "mergeRpc" /\ pc' = "destroy" /\ idx > Len(rpcs[session])
    BY <1>3 DEF merge_rpcs_done, Goto, Still, Calm, queueVars, schedVars
  <2>2. /\ session # NULL /\ session \in Sid /\ send = NULL /\ queue # <<>> /\ idx \in Nat
        /\ rpcs[session] \in Seq(Rpc) /\ Len(rpcs[session]) \in Nat
    <3>1. session # NULL /\ session \in Sid /\ send = NULL /\ queue # <<>> /\ idx \in Nat
      BY <2>1, OwingFacts DEF Inv, Phase
    <3> QED
      BY <3>1, LenProperties DEF Owing, Inv, TypeOK
  <2>3. Live' = Live /\ Clean
    BY <2>1 DEF Live, Clean
  <2>4. \A r \in ToSet(rpcs[session]) : ~IsReport(r)
    <3>1. \A i \in 1 .. Len(rpcs[session]) : ~IsReport(rpcs[session][i])
      BY <2>1, <2>2 DEF Owing, SessionPart
    <3> QED
      BY <2>2, <3>1, ElementsOf
  <2>5. \A e \in ToSet(events'[session']) : Held(e)'
    BY <2>1 DEF Owing, SessionPart, Held
  <2>6. SessionPart' /\ LoadPart'
    BY <2>1, <2>2, <2>4, <2>5 DEF Owing, SessionPart, LoadPart, Starting
  <2> QED
    BY <2>1, <2>3, <2>6, MoveOn, KeepingDelivered
<1>4. ASSUME close_success PROVE Owing' /\ Delivered
  <2>1. /\ UNCHANGED <<queue, head, events, rpcs, bkp, file, vc, session, send, crEvent>>
        /\ pc = "close" /\ pc' = "destroy" /\ ~Retried
    BY <1>4 DEF close_success, Goto, Still, Calm, queueVars, schedVars
  <2>2. session # NULL /\ send = session /\ err \in {"OK", "RETRY"} /\ crEvent \in {0, 1}
    BY <2>1 DEF Owing, Inv, Phase, Sending, TypeOK
  <2>3. Live' = Live /\ Clean
    BY <2>1 DEF Live, Clean
  <2>4. events[session] = <<>> /\ (rpcs[session] = <<>> \/ crEvent = 1)
    <3>1. CASE err = "OK"
      <4>1. rpcs[session] = <<>>
        BY <2>1, <2>2, <3>1 DEF Owing, SessionPart
      <4> QED
        BY <2>2, <4>1 DEF Owing, SessionPart, HasInform
    <3>2. CASE err = "RETRY"
      BY <2>1, <2>2, <3>2 DEF Retried
    <3> QED
      BY <2>2, <3>1, <3>2
  <2>5. SessionPart' /\ LoadPart'
    BY <2>1, <2>2, <2>4 DEF Owing, SessionPart, LoadPart, Starting
  <2> QED
    BY <2>1, <2>3, <2>5, MoveOn, KeepingDelivered
<1> QED
  BY <1>1, <1>2, <1>3, <1>4

LEMMA MergeRpcOwing ==
    ASSUME Owing, Inv', merge_rpc
    PROVE  Owing' /\ Delivered
<1> DEFINE r == rpcs[session][idx]
           rs == rpcs[session]
           qs == rpcs[head]
<1>1. /\ pc = "mergeRpc" /\ pc' = pc /\ idx <= Len(rs)
      /\ UNCHANGED <<queue, head, events, send, session, err, crEvent, vc, bkp, file>>
  BY DEF merge_rpc, Calm
<1>2. /\ session # NULL /\ session \in Sid /\ send = NULL /\ queue # <<>> /\ idx \in Nat \ {0}
      /\ head \in Sid /\ head # session /\ ToSet(queue) = {head}
      /\ rs \in Seq(Rpc) /\ qs \in Seq(Rpc) /\ Len(rs) \in Nat
      /\ rpcs \in [Sid -> Seq(Rpc)] /\ Live' = Live /\ Live = {head, session}
  <2> HIDE DEF r, rs, qs
  <2>0. Inv /\ pc = "mergeRpc" /\ session \in Sid \union {NULL}
    BY <1>1, OwingFacts
  <2>1. session # NULL /\ session \in Sid /\ send = NULL /\ queue # <<>> /\ idx \in Nat \ {0}
    BY <2>0 DEF Inv, Phase
  <2> USE DEF r, rs, qs
  <2>2. head \in Sid /\ ToSet(queue) = {head} /\ session \notin ToSet(queue)
    BY <1>1, <2>1, SingleQueue, SessionFacts DEF Owing
  <2>3. rpcs \in [Sid -> Seq(Rpc)]
    BY <2>0 DEF Inv, TypeOK
  <2>4. rs \in Seq(Rpc) /\ qs \in Seq(Rpc) /\ Len(rs) \in Nat
    BY <2>1, <2>2, <2>3, LenProperties
  <2>5. Live' = Live /\ Live = {head, session} /\ head # session
    BY <1>1, <2>1, <2>2 DEF Live
  <2> QED
    BY <2>1, <2>2, <2>3, <2>4, <2>5
<1>3. idx \in 1 .. Len(rs)
  BY <1>1, <1>2
<1>4. Sent(rs) /\ (HasInform(rs) \/ events[session] = <<>>)
      /\ \A i \in 1 .. Len(rs) : i < idx => ~IsReport(rs[i])
  BY <1>1, <1>2 DEF Owing, SessionPart
<1>5. Form(qs)
  BY <1>2 DEF Owing, Inv, InformFirst, Form
<1>6. r \in Rpc
  BY <1>2, <1>3, ElementOfSeq
<1>7. EventsPart' /\ EventsKept /\ ChangesKept
  BY <1>1, <1>2, EventsSame
<1>8. TreePart' /\ FileOwed
  BY <1>1, TreeUnchanged DEF Clean
<1>9. \A e \in ToSet(events'[session']) : Held(e)'
  BY <1>1 DEF Owing, SessionPart, Held
<1>10. LoadPart'
  BY <1>1 DEF LoadPart
<1>11. CASE Duplicate(r)
  <2>1. idx' = idx + 1 /\ rpcs' = rpcs
    BY <1>11 DEF merge_rpc
  <2>2. ~IsReport(r)
    BY <1>11 DEF Duplicate, IsReport
  <2>3. RpcsKept
    BY <1>2, <2>1 DEF RpcsKept
  <2>4. \A i \in 1 .. Len(rpcs'[session']) : i < idx' => ~IsReport(rpcs'[session'][i])
    <3> SUFFICES ASSUME NEW i \in 1 .. Len(rs), i < idx + 1 PROVE ~IsReport(rs[i])
      BY <1>1, <2>1
    <3>1. i < idx \/ i = idx
      BY <1>2
    <3> QED
      BY <1>4, <2>2, <3>1
  <2>5. SessionPart'
    BY <1>1, <1>2, <1>4, <1>9, <2>1, <2>4 DEF SessionPart, Starting
  <2>6. Keeping
    BY <1>1, <1>7, <1>8, <2>3 DEF Keeping
  <2> QED
    BY <1>7, <1>8, <1>10, <2>5, <2>6, KeepingDelivered DEF Owing
<1>12. CASE ~Duplicate(r)
  <2> DEFINE ts == RemoveAt(rs, idx)
  <2>1. /\ idx' = idx
        /\ rpcs' = [rpcs EXCEPT ![head] = Append(qs, r), ![session] = ts]
    BY <1>2, <1>12 DEF merge_rpc
  <2>2. rpcs'[head] = Append(qs, r) /\ rpcs'[session] = ts
    BY <1>2, <2>1
  <2>3. /\ ts \in Seq(Rpc) /\ Len(ts) = Len(rs) - 1
        /\ \A j \in 1 .. Len(rs) - 1 : ts[j] = IF j < idx THEN rs[j] ELSE rs[j + 1]
        /\ \A x \in ToSet(rs) : x # r => x \in ToSet(ts)
    BY <1>2, <1>3, RemoveAtProperties, ElementsRemoved
  <2>4. ToSet(Append(qs, r)) = ToSet(qs) \union {r}
    BY <1>2, <1>6, ElementsAppended
  <2>5. r.type # "Inform"
    <3>1. Len(qs) \in Nat \ {0}
      BY <1>2, <1>5, NonEmpty DEF Form
    <3>2. 1 \in 1 .. Len(qs) /\ qs[1].type = "Inform"
      BY <1>5, <3>1 DEF Form
    <3> QED
      BY <1>12, <3>2 DEF Duplicate
  <2> HIDE DEF ts
  <2>6. RpcsKept
    <3>1. ASSUME NEW x \in ToSet(rs) PROVE \E t \in Live' : x \in ToSet(rpcs'[t])
      BY <1>2, <2>2, <2>3, <2>4
    <3>2. ASSUME NEW x \in ToSet(qs) PROVE \E t \in Live' : x \in ToSet(rpcs'[t])
      BY <1>2, <2>2, <2>4
    <3> QED
      BY <1>2, <3>1, <3>2 DEF RpcsKept
  <2>7. Sent(ts)
    <3> SUFFICES ASSUME NEW j \in 2 .. Len(ts) PROVE ts[j].type # "Inform"
      BY DEF Sent
    <3>1. j \in 1 .. Len(rs) - 1 /\ j \in 2 .. Len(rs) /\ j + 1 \in 2 .. Len(rs)
      BY <1>2, <2>3
    <3> QED
      BY <1>4, <2>3, <3>1 DEF Sent
  <2>8. HasInform(rs) => HasInform(ts)
    <3> SUFFICES ASSUME HasInform(rs) PROVE HasInform(ts)
      OBVIOUS
    <3>1. rs[1].type = "Inform"
      BY DEF HasInform
    <3>2. idx # 1
      BY <2>5, <3>1
    <3>3. 1 \in 1 .. Len(rs) - 1 /\ 1 < idx
      BY <1>2, <1>3, <3>2
    <3>4. ts[1] = rs[1] /\ Len(ts) # 0
      BY <1>2, <2>3, <3>3, SMTT(60)
    <3>5. ts # <<>>
      BY <2>3, <3>4, EmptySeq
    <3> QED
      BY <3>1, <3>4, <3>5 DEF HasInform
  <2>9. \A i \in 1 .. Len(ts) : i < idx => ~IsReport(ts[i])
    <3> SUFFICES ASSUME NEW i \in 1 .. Len(ts), i < idx PROVE ~IsReport(ts[i])
      OBVIOUS
    <3>1. i \in 1 .. Len(rs) - 1 /\ i \in 1 .. Len(rs)
      BY <1>2, <2>3
    <3> QED
      BY <1>4, <2>3, <3>1
  <2>10. SessionPart'
    BY <1>1, <1>2, <1>4, <1>9, <2>1, <2>2, <2>7, <2>8, <2>9 DEF SessionPart, Starting
  <2>11. Keeping
    BY <1>1, <1>7, <1>8, <2>6 DEF Keeping
  <2> QED
    BY <1>7, <1>8, <1>10, <2>10, <2>11, KeepingDelivered DEF Owing
<1> QED
  BY <1>11, <1>12

(* What is torn down.                                                      *)
LEMMA DestroyFacts ==
    ASSUME Owing, pc = "destroy"
    PROVE  /\ session # NULL /\ session \in Sid /\ session \in Live
           /\ session \notin ToSet(queue)
           /\ Live = ToSet(queue) \union {session} /\ Live \subseteq Sid
           /\ events[session] \in Seq(Event) /\ rpcs[session] \in Seq(Rpc)
           /\ Sent(rpcs[session]) /\ (HasInform(rpcs[session]) \/ events[session] = <<>>)
           /\ send # NULL => events[session] = <<>> /\ (rpcs[session] = <<>> \/ crEvent = 1)
           /\ send = NULL =>
                 /\ head \in ToSet(queue) /\ head # session /\ queue # <<>>
                 /\ \A e \in ToSet(events[session]) :
                        Holds(events[head], e.code, e.key, e.params)
                 /\ \A r \in ToSet(rpcs[session]) : ~IsReport(r)
<1>1. Inv /\ SessionPart /\ session # NULL /\ Live \subseteq Sid /\ (send # NULL => send = session)
  BY OwingFacts DEF Owing, Inv, Phase
<1>2. /\ session \in Sid /\ session \notin ToSet(queue) /\ session \in Live
      /\ events[session] \in Seq(Event) /\ rpcs[session] \in Seq(Rpc)
  BY <1>1, SessionFacts
<1>3. Live = ToSet(queue) \union {session}
  BY <1>1 DEF Live
<1>4. ASSUME send = NULL
      PROVE  /\ head \in ToSet(queue) /\ head # session /\ queue # <<>>
             /\ \A e \in ToSet(events[session]) :
                    Holds(events[head], e.code, e.key, e.params)
             /\ \A r \in ToSet(rpcs[session]) : ~IsReport(r)
  <2>1. /\ queue # <<>> /\ \A e \in ToSet(events[session]) : Held(e)
        /\ \A r \in ToSet(rpcs[session]) : ~IsReport(r)
    BY <1>1, <1>4 DEF SessionPart
  <2>2. head \in ToSet(queue)
    BY <1>1, <2>1, SingleQueue
  <2> QED
    BY <1>2, <2>1, <2>2 DEF Held
<1> QED
  BY <1>1, <1>2, <1>3, <1>4 DEF SessionPart

LEMMA DestroyEventOwing ==
    ASSUME Owing, Inv', destroy_event
    PROVE  Owing' /\ Delivered
<1>1. /\ pc = "destroy" /\ pc' = pc /\ UNCHANGED <<queue, head, rpcs, send, session, vc, file>>
      /\ rpcs[session] # <<>> /\ Head(rpcs[session]).type = "Inform" /\ events[session] # <<>>
      /\ events' = [events EXCEPT ![session] = Tail(events[session])]
      /\ bkp' = [bkp EXCEPT !.nodes = bkp_session_delete_event(bkp.nodes,
                                          Head(events[session]).id, "send_event")]
  BY DEF destroy_event, DropFirstEvent, Calm, schedVars
<1>2. /\ session # NULL /\ session \in Sid /\ session \in Live /\ send = NULL /\ Live \subseteq Sid
      /\ head \in ToSet(queue) /\ head # session /\ queue # <<>>
      /\ head \in Live /\ Live' = Live /\ head \in Sid
      /\ Sent(rpcs[session])
      /\ \A e \in ToSet(events[session]) : Holds(events[head], e.code, e.key, e.params)
      /\ \A r \in ToSet(rpcs[session]) : ~IsReport(r)
  BY <1>1, DestroyFacts DEF Live
<1>3. HasInform(rpcs[session])
  <2>1. rpcs[session] \in Seq(Rpc)
    BY <1>1, DestroyFacts
  <2>2. Head(rpcs[session]) = rpcs[session][1]
    BY <1>1, <2>1, HeadAndTail
  <2> QED
    BY <1>1, <2>2 DEF HasInform
<1>4. /\ EventsPart' /\ RpcsKept /\ ChangesKept
      /\ \A t \in Live : \A e \in ToSet(events[t]) :
            e = Head(events[session]) \/ e \in ToSet(events'[t])
      /\ ToSet(events'[session]) \subseteq ToSet(events[session])
      /\ events'[head] = events[head]
  BY <1>1, <1>2, FirstDropped
<1>5. Head(events[session]) \in ToSet(events[session])
  <2>1. events[session] \in Seq(Event)
    BY <1>1, DestroyFacts
  <2>2. Head(events[session]) = events[session][1] /\ 1 \in 1 .. Len(events[session])
    BY <1>1, <2>1, HeadAndTail
  <2> QED
    BY <2>1, <2>2, ElementsOf
<1>6. EventsKept
  <2> SUFFICES ASSUME NEW t \in Live, NEW e \in ToSet(events[t])
               PROVE  Held2(e.code, e.key, e.params)
    BY DEF EventsKept
  <2>1. CASE e \in ToSet(events'[t])
    BY <1>2, <2>1 DEF Held2, Holds
  <2>2. CASE e = Head(events[session])
    <3>1. Holds(events'[head], e.code, e.key, e.params)
      BY <1>2, <1>4, <1>5, <2>2
    <3> QED
      BY <1>2, <3>1 DEF Held2
  <2> QED
    BY <1>4, <2>1, <2>2
<1>7. TreePart'
  BY <1>1, <1>3, DropTree DEF Clean
<1>8. FileOwed
  BY <1>1 DEF FileOwed, Recorded
<1>9. SessionPart'
  <2>1. \A e \in ToSet(events'[session']) : Held(e)'
    <3>1. head # NULL
      BY <1>1, <1>2, SidAssumption
    <3> QED
      BY <1>1, <1>2, <1>4, <3>1 DEF Held
  <2> QED
    BY <1>1, <1>2, <1>3, <2>1 DEF SessionPart, Starting
<1>10. LoadPart'
  BY <1>1 DEF LoadPart
<1>11. Keeping
  BY <1>1, <1>4, <1>6, <1>8 DEF Keeping
<1> QED
  BY <1>4, <1>7, <1>9, <1>10, <1>11, KeepingDelivered DEF Owing

LEMMA DestroyRpcOwing ==
    ASSUME Owing, Inv', destroy_rpc
    PROVE  Owing' /\ Delivered
<1> DEFINE h == Head(rpcs[session])
<1>1. /\ pc = "destroy" /\ pc' = pc
      /\ UNCHANGED <<queue, head, events, send, session, crEvent, err, vc>>
      /\ rpcs[session] # <<>>
      /\ rpcs' = [rpcs EXCEPT ![session] = Tail(rpcs[session])]
      /\ \/ h.type = "Inform" /\ events[session] = <<>> /\ file' = bkp /\ bkp' = bkp
         \/ h.type # "Inform" /\ ExtraClean(h)
  BY DEF destroy_rpc, Calm, schedVars
<1>2. /\ session # NULL /\ session \in Sid /\ session \in Live /\ Live \subseteq Sid
      /\ Sent(rpcs[session]) /\ Live' = Live /\ rpcs[session] \in Seq(Rpc)
      /\ HasInform(rpcs[session]) \/ events[session] = <<>>
  BY <1>1, DestroyFacts DEF Live
<1>3. /\ Sent(rpcs'[session]) /\ h = rpcs[session][1]
      /\ rpcs'[session] = Tail(rpcs[session])
      /\ \A t \in Live : \A r \in ToSet(rpcs[t]) : r = h \/ r \in ToSet(rpcs'[t])
  BY <1>1, <1>2, FirstAnswered
<1>4. h \in ToSet(rpcs[session]) /\ ToSet(rpcs'[session]) \subseteq ToSet(rpcs[session])
  <2>1. 1 \in 1 .. Len(rpcs[session]) /\ ToSet(Tail(rpcs[session])) \subseteq ToSet(rpcs[session])
    BY <1>1, <1>2, HeadAndTail
  <2> QED
    BY <1>2, <1>3, <2>1, ElementsOf
<1> HIDE DEF h
<1>5. events[session] = <<>>
  BY <1>1, <1>2, <1>3 DEF HasInform
<1>6. EventsPart' /\ EventsKept /\ ChangesKept
  BY <1>1, <1>2, EventsSame
<1>7. TreePart' /\ FileOwed
  <2>1. CASE h.type = "Inform"
    <3>1. \A n \in ToSet(bkp.nodes) : n.name \in EventName => Recorded(bkp.nodes, n.code, n.key)
      BY DEF Recorded
    <3> QED
      BY <1>1, <2>1, <3>1, TreeFacts, TreeWritten
  <2>2. CASE h.type # "Inform"
    <3>1. Clean
      BY <1>1, <1>3, <2>2 DEF Clean, HasInform
    <3> QED
      BY <1>1, <2>2, <3>1, ExtraCleanTree
  <2> QED
    BY <2>1, <2>2
<1>8. SessionPart'
  <2>1. ASSUME send = NULL
        PROVE  /\ queue # <<>> /\ \A e \in ToSet(events'[session']) : Held(e)'
               /\ \A r \in ToSet(rpcs'[session']) : ~IsReport(r)
    <3>1. queue # <<>> /\ \A r \in ToSet(rpcs[session]) : ~IsReport(r)
      BY <1>1, <2>1, DestroyFacts
    <3>2. ToSet(events'[session']) = {}
      BY <1>1, <1>5 DEF ToSet
    <3> QED
      BY <1>1, <1>4, <3>1, <3>2
  <2>2. send # NULL => crEvent = 1
    BY <1>1, DestroyFacts
  <2> QED
    BY <1>1, <1>3, <1>5, <2>1, <2>2 DEF SessionPart, Starting
<1>9. LoadPart'
  BY <1>1 DEF LoadPart
<1>10. ReportsOK
  <2>1. CASE send = NULL
    <3>1. ~IsReport(h)
      BY <1>1, <1>4, <2>1, DestroyFacts
    <3>2. RpcsKept
      BY <1>2, <1>3, <3>1 DEF RpcsKept
    <3> QED
      BY <3>2, ReportsStay DEF ReportsOK
  <2>2. CASE send # NULL
    BY <1>1, <2>2, DestroyFacts DEF ReportsOK
  <2> QED
    BY <2>1, <2>2
<1>11. Delivered
  BY <1>1, <1>6, <1>7, <1>10, EventsDeliveredBy
<1> QED
  BY <1>6, <1>7, <1>8, <1>9, <1>11 DEF Owing

LEMMA DestroyDoneOwing ==
    ASSUME Owing, Inv', destroy_done
    PROVE  Owing' /\ Delivered
<1>1. /\ pc = "destroy" /\ pc' = "lock" /\ session' = NULL /\ send' = NULL
      /\ UNCHANGED <<queue, head, rpcs, vc, bkp, file>> /\ rpcs[session] = <<>>
      /\ events' = [events EXCEPT ![session] = <<>>]
  BY DEF destroy_done, Calm
<1>2. /\ session \in Sid /\ session \notin ToSet(queue) /\ Live \subseteq Sid
      /\ Live = ToSet(queue) \union {session} /\ Live' = ToSet(queue)
      /\ events \in [Sid -> Seq(Event)] /\ EventsPart
  BY <1>1, DestroyFacts DEF Live, Owing, Inv, TypeOK
<1>3. events'[session] = <<>> /\ \A t \in Sid : t # session => events'[t] = events[t]
  BY <1>1, <1>2
<1>4. ToSet(<<>>) = {}
  BY DEF ToSet
<1>5. EventsPart'
  BY <1>2, <1>3, <1>4 DEF EventsPart, AllOK
<1>6. EventsKept
  <2> SUFFICES ASSUME NEW t \in Live, NEW e \in ToSet(events[t])
               PROVE  Held2(e.code, e.key, e.params)
    BY DEF EventsKept
  <2>1. CASE t = session
    <3>1. send = NULL
      BY <1>1, <1>4, <2>1, DestroyFacts
    <3>2. head \in ToSet(queue) /\ head # session /\ Holds(events[head], e.code, e.key, e.params)
      BY <1>1, <2>1, <3>1, DestroyFacts
    <3>3. events'[head] = events[head]
      BY <1>2, <1>3, <3>2
    <3> QED
      BY <1>2, <3>2, <3>3 DEF Held2
  <2>2. CASE t # session
    <3>1. t \in Live' /\ events'[t] = events[t]
      BY <1>2, <1>3, <2>2
    <3>2. Holds(events'[t], e.code, e.key, e.params)
      BY <3>1 DEF Holds
    <3> QED
      BY <3>1, <3>2 DEF Held2
  <2> QED
    BY <2>1, <2>2
<1>7. RpcsKept /\ ChangesKept
  BY <1>1, <1>2, <1>4 DEF RpcsKept, ChangesKept
<1>8. TreePart' /\ FileOwed
  BY <1>1, TreeUnchanged DEF Clean, HasInform
<1>9. SessionPart' /\ LoadPart'
  BY <1>1 DEF SessionPart, LoadPart, Starting
<1>10. Keeping
  BY <1>1, <1>6, <1>7, <1>8 DEF Keeping
<1> QED
  BY <1>5, <1>8, <1>9, <1>10, KeepingDelivered DEF Owing

LEMMA CloseOwing ==
    ASSUME Owing, Inv', Close
    PROVE  Owing' /\ Delivered
BY SessionEndOwing, RequeueOwing, MergeMovesOwing, MergeEventOwing, MergeRpcOwing,
   DestroyEventOwing, DestroyRpcOwing, DestroyDoneOwing DEF Close

-----------------------------------------------------------------------------
(* Start-up.                                                               *)

LEMMA RestartOwing ==
    ASSUME Owing, Inv', restart
    PROVE  Owing' /\ Delivered
<1>1. /\ pc = "down" /\ pc' = "load" /\ idx' = 1 /\ UNCHANGED <<queue, head, events, rpcs>>
      /\ bkp' = [file EXCEPT !.nodes = bkp_session_move_inform_to_inform_queue(file.nodes)]
      /\ file' = bkp' /\ UNCHANGED <<send, session, vc>>
  BY DEF restart, queueVars
<1>2. send = NULL /\ session = NULL /\ queue = <<>>
  BY <1>1 DEF Owing, Inv, Phase, LoadPart
<1>3. Live = {} /\ Live' = {}
  BY <1>1, <1>2 DEF Live, ToSet
<1>4. /\ NodesOK(bkp'.nodes) /\ Within(file.nodes, bkp'.nodes) /\ Within(bkp'.nodes, file.nodes)
      /\ \A n \in ToSet(bkp'.nodes) : n.name # "send_event"
  <2>1. bkp'.nodes = Rename(file.nodes, "send_event", "queue_event")
    BY <1>1, TreeFacts, TreeSet DEF bkp_session_move_inform_to_inform_queue
  <2>2. "queue_event" \in EventName /\ "send_event" \in EventName
    BY DEF EventName
  <2> QED
    BY <2>1, <2>2, TreeFacts, RenamedNodes
<1>5. TreePart'
  BY <1>1, <1>4, Reflexive DEF TreePart
<1>6. EventsPart' /\ EventsKept /\ ChangesKept
  BY <1>1, <1>3, EventsSame
<1>7. RpcsKept
  BY <1>3 DEF RpcsKept
<1>8. SessionPart' /\ LoadPart'
  BY <1>1, <1>2, <1>4 DEF SessionPart, LoadPart
<1>9. Owed' = Owed
  <2>1. \A c, k : <<c, k>> \notin Owed' /\ <<c, k>> \notin Owed
    BY <1>3, OwedFacts, OwedNext DEF Held2
  <2> QED
    BY <2>1, OwedFacts, OwedNext
<1>10. Stored' = Stored
  <2>1. ASSUME NEW c, NEW k PROVE <<c, k>> \in Stored' <=> <<c, k>> \in Stored
    <3>1. Recorded(file.nodes, c, k) <=> Recorded(file'.nodes, c, k)
      BY <1>1, <1>4 DEF Within, Recorded
    <3> QED
      BY <3>1, OwedFacts, OwedNext
  <2> QED
    BY <2>1, OwedFacts, OwedNext
<1>11. Delivery!Next
  BY <1>1, <1>9, <1>10 DEF Delivery!Next, Delivery!Restart, PhaseOf
<1>12. Delivered
  BY <1>6, <1>7, <1>11, ParamsStay, ReportsStay DEF Delivered, ParamsOK, ReportsOK
<1> QED
  BY <1>5, <1>6, <1>8, <1>12 DEF Owing

(* One node of the file is raised again.                                   *)
LEMMA LoadOwing ==
    ASSUME Owing, Inv', pc = "load", pc' = pc, idx <= Len(bkp.nodes), idx' = idx + 1,
           UNCHANGED <<send, session, vc, bkp, file>>,
           NEW st, Good(st), Section(st),
           NEW rs \in Seq(Rpc), Form(rs), ToSet(QueuedRpcs) \subseteq ToSet(rs),
           Queued(st, rs), NEW n, n = bkp.nodes[idx],
           IF n.name \in EventName THEN Holds(st.evs, n.code, n.key, {})
           ELSE CompleteRpc(n.code, n.key) \in ToSet(rs)
    PROVE  Owing' /\ Delivered
<1>1. SectionLeaves(st, rs)
  BY SectionStep
<1>2. /\ file = bkp /\ \A m \in ToSet(bkp.nodes) : m.name # "send_event"
      /\ \A i \in 1 .. Len(bkp.nodes) : i < idx => Back(bkp.nodes[i])
      /\ idx \in Nat \ {0} /\ send = NULL /\ Len(bkp.nodes) \in Nat
  BY TreeFacts, LenProperties DEF Owing, LoadPart, Inv, Phase
<1>3. QueuedEvents' = st.evs /\ QueuedRpcs' = rs
  BY <1>1 DEF SectionLeaves, QueuedEvents, QueuedRpcs
<1>4. ASSUME NEW i \in 1 .. Len(bkp.nodes), i < idx + 1
      PROVE  IF bkp.nodes[i].name \in EventName
             THEN Holds(st.evs, bkp.nodes[i].code, bkp.nodes[i].key, {})
             ELSE CompleteRpc(bkp.nodes[i].code, bkp.nodes[i].key) \in ToSet(rs)
  <2>1. CASE i = idx
    BY <2>1
  <2>2. CASE i # idx
    <3> DEFINE m == bkp.nodes[i]
    <3>1. Back(m)
      BY <1>2, <1>4, <2>2
    <3> HIDE DEF m
    <3>2. CASE m.name \in EventName
      <4>1. PICK e \in ToSet(QueuedEvents) : e.code = m.code /\ e.key = m.key
        BY <3>1, <3>2 DEF Back, Holds
      <4>2. PICK f \in ToSet(st.evs) : f.code = e.code /\ f.key = e.key
        BY <4>1 DEF Section, Covered, Holds
      <4>3. Holds(st.evs, m.code, m.key, {})
        BY <4>1, <4>2 DEF Holds
      <4> QED
        BY <3>2, <4>3 DEF m
    <3>3. CASE m.name \notin EventName
      <4>1. CompleteRpc(m.code, m.key) \in ToSet(rs)
        BY <3>1, <3>3 DEF Back
      <4> QED
        BY <3>3, <4>1 DEF m
    <3> QED
      BY <3>2, <3>3
  <2> QED
    BY <2>1, <2>2
<1>5. LoadPart'
  <2>1. \A i \in 1 .. Len(bkp'.nodes) : i < idx' => Back(bkp.nodes[i])'
    <3>1. \A i \in 1 .. Len(bkp.nodes) : i < idx + 1 => Back(bkp.nodes[i])'
      BY <1>3, <1>4 DEF Back
    <3> QED
      BY <3>1
  <2> QED
    BY <1>2, <2>1 DEF LoadPart
<1>6. SessionPart'
  <2>1. session' # NULL =>
          /\ Sent(rpcs'[session'])
          /\ HasInform(rpcs'[session']) \/ events'[session'] = <<>>
    BY <1>1 DEF SectionLeaves
  <2> QED
    BY <1>2, <2>1 DEF SessionPart
<1>7. TreePart' /\ FileOwed
  BY TreeUnchanged DEF Clean
<1>8. Keeping
  BY <1>1, <1>7 DEF Keeping, ChangesKept, SectionLeaves
<1> QED
  BY <1>1, <1>5, <1>6, <1>7, <1>8, KeepingDelivered DEF Owing, SectionLeaves

(* The node that is read.                                                  *)
LEMMA NodeFacts ==
    ASSUME Owing, pc = "load", idx <= Len(bkp.nodes)
    PROVE  bkp.nodes[idx] \in Node /\ NodeOK(bkp.nodes[idx])
<1>1. bkp.nodes \in Seq(Node) /\ NodesOK(bkp.nodes) /\ idx \in Nat \ {0}
  BY TreeFacts DEF Owing, Inv, Phase
<1>2. Len(bkp.nodes) \in Nat
  BY <1>1, LenProperties
<1>3. idx \in 1 .. Len(bkp.nodes)
  BY <1>1, <1>2
<1>4. bkp.nodes[idx] \in ToSet(bkp.nodes) /\ bkp.nodes[idx] \in Node
  BY <1>1, <1>3, ElementsOf, ElementOfSeq
<1> QED
  BY <1>1, <1>4 DEF NodesOK

LEMMA LoadedSection ==
    ASSUME Owing, NEW n \in Node, KeyOK(n.code, n.key)
    PROVE  /\ Good(Loaded(n)) /\ Section(Loaded(n))
           /\ Holds(Loaded(n).evs, n.code, n.key, {})
<1> DEFINE st == AddEvent(Here, n.code, n.key)
           x == st.evs[st.at]
           e == [x EXCEPT !.id = n.id, !.saved = TRUE]
<1>0. n.code \in EventCode /\ n.key \in Key /\ n.id \in Nat /\ Section(Here)
  BY OwingFacts DEF Node
<1>1. /\ Good(st) /\ Section(st)
      /\ x.code = n.code /\ x.key = n.key
  BY <1>0, SectionAdd
<1>a. st = AddEvent(Here, n.code, n.key)
  OBVIOUS
<1> HIDE DEF st
<1>2. x \in Event /\ EventOK(x)
  BY <1>1, AtOK
<1>b. [st.evs EXCEPT ![st.at].id = n.id, ![st.at].saved = TRUE] = [st.evs EXCEPT ![st.at] = e]
  BY <1>1, GoodAt
<1> HIDE DEF x
<1>3. e \in Event /\ e.code = x.code /\ e.key = x.key /\ e.params = x.params
  BY <1>0, <1>2 DEF Event
<1>4. EventOK(e)
  BY <1>2, <1>3 DEF EventOK
<1> HIDE DEF e
<1> DEFINE new == Loaded(n)
<1>5. new.evs = [st.evs EXCEPT ![st.at] = e] /\ new.at = st.at
  <2>1. st \in [evs : Seq(Event), id : Nat, at : Nat]
    BY <1>1 DEF Good, ListState
  <2>2. new = [st EXCEPT !.evs = [st.evs EXCEPT ![st.at] = e]]
    BY <1>b DEF Loaded, st
  <2> HIDE DEF new
  <2> QED
    BY <2>1, <2>2
<1>6. Good(new)
  BY OwingFacts, HereGood, GoodLoaded
<1> HIDE DEF new
<1>7. Section(new) /\ new.evs[new.at] = e
  <2>1. /\ e.code = st.evs[st.at].code /\ e.key = st.evs[st.at].key
        /\ st.evs[st.at].params \subseteq e.params
    BY <1>3 DEF x
  <2>2. AllOK(new.evs) /\ Covered(st.evs, new.evs) /\ new.evs[new.at] = e
    BY <1>1, <1>3, <1>4, <1>5, <2>1, ExceptCovered DEF Section
  <2>3. Section(new)
    BY <1>1, <1>6, <2>2, SectionGood, CoveredTransitive DEF Section
  <2> QED
    BY <2>2, <2>3
<1>8. Holds(new.evs, n.code, n.key, {})
  <2>1. new.evs[new.at] \in ToSet(new.evs)
    BY <1>6, GoodAt, ElementsOf
  <2> QED
    BY <1>1, <1>3, <1>7, <2>1 DEF Holds
<1> QED
  BY <1>6, <1>7, <1>8 DEF new

LEMMA LoadStepsOwing ==
    ASSUME Owing, Inv'
    PROVE  /\ load_queue_event => Owing' /\ Delivered
           /\ load_transfer_complete => Owing' /\ Delivered
           /\ load_done => Owing' /\ Delivered
<1> DEFINE n == bkp.nodes[idx]
<1>1. ASSUME load_queue_event PROVE Owing' /\ Delivered
  <2>1. /\ pc = "load" /\ pc' = pc /\ idx <= Len(bkp.nodes) /\ idx' = idx + 1
        /\ UNCHANGED <<send, session, vc, bkp, file>>
        /\ n.name = "queue_event" /\ Queued(Loaded(n), QueuedRpcs)
    BY <1>1 DEF load_queue_event, Calm
  <2>2. n \in Node /\ NodeOK(n)
    BY <2>1, NodeFacts
  <2> HIDE DEF n
  <2>3. KeyOK(n.code, n.key) /\ n.name \in EventName
    BY <2>1, <2>2 DEF NodeOK, EventName
  <2> DEFINE st == Loaded(n)
  <2>4. Good(st) /\ Section(st) /\ Holds(st.evs, n.code, n.key, {})
    BY <2>2, <2>3, LoadedSection
  <2>5. Queued(st, QueuedRpcs)
    BY <2>1
  <2> HIDE DEF st
  <2>6. n = bkp.nodes[idx]
    BY DEF n
  <2>7. QueuedRpcs \in Seq(Rpc) /\ Form(QueuedRpcs)
    BY RpcsGrow
  <2> QED
    BY <2>1, <2>3, <2>4, <2>5, <2>6, <2>7, LoadOwing
<1>2. ASSUME load_transfer_complete PROVE Owing' /\ Delivered
  <2> DEFINE st == CompleteEvents(n.code, n.key)
             rs == Append(QueuedRpcs, CompleteRpc(n.code, n.key))
             more == AddEvent(st, VALUE_CHANGE, "")
  <2>1. /\ pc = "load" /\ pc' = pc /\ idx <= Len(bkp.nodes) /\ idx' = idx + 1
        /\ UNCHANGED <<send, session, vc, bkp, file>>
        /\ n.name = "transfer_complete" /\ (Queued(st, rs) \/ Queued(more, rs))
    BY <1>2 DEF load_transfer_complete, Calm
  <2>2. n \in Node /\ NodeOK(n)
    BY <2>1, NodeFacts
  <2>3. n.name \notin EventName /\ n.code \in EventCode /\ n.key \in Key
    BY <2>1, <2>2 DEF EventName, Node
  <2>4. KeyOK(n.code, n.key)
    BY <2>2, <2>3 DEF NodeOK, KeyOK
  <2>5. Good(st) /\ Section(st)
    BY <2>3, <2>4, CompleteSection
  <2>6. /\ rs \in Seq(Rpc) /\ Form(rs)
        /\ ToSet(QueuedRpcs) \subseteq ToSet(rs)
        /\ CompleteRpc(n.code, n.key) \in ToSet(rs)
    BY <2>3, RpcTypes, RpcsGrow
  <2> HIDE DEF st, rs
  <2>7. Good(more) /\ Section(more)
    BY <2>5, CodeTypes, KeysOK, SectionAdd
  <2> HIDE DEF more, n
  <2>8. n = bkp.nodes[idx]
    BY DEF n
  <2>9. ASSUME NEW fin, Good(fin), Section(fin), Queued(fin, rs)
        PROVE  Owing' /\ Delivered
    BY <2>1, <2>3, <2>6, <2>8, <2>9, LoadOwing
  <2> QED
    BY <2>1, <2>5, <2>7, <2>9
<1>3. ASSUME load_done PROVE Owing' /\ Delivered
  <2>1. /\ pc = "load" /\ pc' = "bootstrap" /\ idx > Len(bkp.nodes)
        /\ UNCHANGED <<queue, head, events, rpcs, bkp, file, vc, send, session>>
    BY <1>3 DEF load_done, Goto, Still, Calm, queueVars, schedVars
  <2>2. /\ send = NULL /\ session = NULL /\ idx \in Nat /\ file = bkp
        /\ Len(bkp.nodes) \in Nat /\ bkp.nodes \in Seq(Node) /\ NodesOK(file.nodes)
        /\ \A i \in 1 .. Len(bkp.nodes) : i < idx => Back(bkp.nodes[i])
    <3>1. /\ send = NULL /\ session = NULL /\ idx \in Nat /\ file = bkp
          /\ \A i \in 1 .. Len(bkp.nodes) : i < idx => Back(bkp.nodes[i])
      BY <2>1 DEF Owing, Inv, Phase, LoadPart, Starting
    <3>2. bkp.nodes \in Seq(Node) /\ NodesOK(file.nodes)
      BY TreeFacts
    <3> QED
      BY <3>1, <3>2, LenProperties
  <2>3. \A m \in ToSet(file.nodes) : Back(m)
    <3>1. \A i \in 1 .. Len(bkp.nodes) : Back(bkp.nodes[i])
      BY <2>1, <2>2
    <3> QED
      BY <2>2, <3>1, ElementsOf
  <2>4. LoadPart'
    <3>1. \A m \in ToSet(file'.nodes) : Back(m)'
      BY <2>1, <2>3 DEF Back, QueuedEvents, QueuedRpcs
    <3> QED
      BY <2>1, <3>1 DEF LoadPart
  <2>5. SessionPart'
    BY <2>1, <2>2 DEF SessionPart
  <2>6. Live' = Live
    BY <2>1 DEF Live
  <2>7. EventsPart' /\ EventsKept /\ RpcsKept /\ ChangesKept
    BY <2>1, <2>6, SameLists
  <2>8. TreePart'
    BY <2>1, TreeUnchanged DEF Clean
  <2>9. Stored \subseteq Owed
    <3> SUFFICES ASSUME NEW c, NEW k, <<c, k>> \in Stored PROVE <<c, k>> \in Owed
      BY OwedFacts
    <3>1. PICK m \in ToSet(file.nodes) : m.name \in EventName /\ m.code = c /\ m.key = k
      BY OwedFacts DEF Recorded
    <3>2. c \notin NoRetry
      BY <2>2, <3>1, RetriedCode DEF NodesOK, NodeOK
    <3>3. Holds(QueuedEvents, c, k, {})
      BY <2>3, <3>1 DEF Back
    <3>4. head # NULL
      BY <3>3 DEF Holds, QueuedEvents, ToSet
    <3>5. head \in Live
      <4>1. queue # <<>>
        BY <3>4 DEF Owing, Inv, QueueShape
      <4> QED
        BY <4>1, SingleQueue DEF Owing, Live
    <3>6. Holds(events[head], c, k, {})
      BY <3>3, <3>4 DEF QueuedEvents
    <3> QED
      BY <3>2, <3>5, <3>6, OwedFacts
  <2>10. Delivery!Next
    <3>1. Owed' = Owed /\ Stored' = Stored
      BY <2>1, <2>6 DEF Owed, Pending, Stored
    <3>2. PhaseOf = "recovering" /\ PhaseOf' = "running"
      BY <2>1 DEF PhaseOf
    <3> QED
      BY <2>9, <3>1, <3>2 DEF Delivery!Next, Delivery!Recovered, Delivery!Move, Delivery!Phase
  <2>11. Delivered
    BY <2>7, <2>10, ParamsStay, ReportsStay DEF Delivered, ParamsOK, ReportsOK
  <2> QED
    BY <2>4, <2>5, <2>7, <2>8, <2>11 DEF Owing
<1> QED
  BY <1>1, <1>2, <1>3

-----------------------------------------------------------------------------
(* The events of start-up and of a reload.                                 *)

(* They are raised before the next session, or before the end of the one   *)
(* that asked for the reload.                                              *)
RootPlace == /\ pc \in Starting \ {"load"}
             /\ pc' \in {"flush", "raise", "urlchange", "boot", "grm", "port", "lock", "ended"}
             /\ send' = send /\ session' = session /\ err' = err /\ vc' = vc

LEMMA RootOwing ==
    ASSUME Owing, Inv', RootPlace, UNCHANGED <<queue, head, events, rpcs>>,
           TreePart', FileOwed
    PROVE  Owing' /\ Delivered
<1>1. Live' = Live /\ vc' = vc /\ pc \in Starting /\ pc # "load"
  BY DEF RootPlace, Live
<1>2. EventsPart' /\ EventsKept /\ RpcsKept /\ ChangesKept
  BY <1>1, SameLists
<1>3. SessionPart'
  BY DEF RootPlace, Owing, SessionPart
<1>4. LoadPart'
  BY DEF RootPlace, LoadPart
<1>5. Keeping
  BY <1>1, <1>2 DEF Keeping, RootPlace, Starting
<1> QED
  BY <1>2, <1>3, <1>4, <1>5, KeepingDelivered DEF Owing

LEMMA RootSectionOwing ==
    ASSUME Owing, Inv', RootPlace, NEW st, NEW rs, SectionLeaves(st, rs), TreePart', FileOwed
    PROVE  Owing' /\ Delivered
<1>1. /\ send' = send /\ session' = session /\ err' = err /\ ChangesKept
      /\ pc \notin {"down", "load"} /\ pc \in Starting
      /\ pc' \notin {"ack", "merge", "mergeRpc", "destroy", "load", "bootstrap", "down"}
  BY DEF RootPlace, ChangesKept, Starting
<1> QED
  BY <1>1, OwnSection, KeepingDelivered

(* BOOTSTRAP, BOOT or PERIODIC is raised.                                  *)
LEMMA RootRaiseOwing ==
    ASSUME Owing, Inv', RootPlace, pc # "flush",
           NEW c \in EventCode, c \in {BOOTSTRAP, BOOT, PERIODIC},
           NEW rs \in Seq(Rpc), Form(rs), ToSet(QueuedRpcs) \subseteq ToSet(rs),
           RaiseSaved(c, "", rs)
    PROVE  Owing' /\ Delivered
<1>1. Clean /\ send' = send /\ session' = session
  BY DEF RootPlace, Clean, Starting
<1>2. "" \in Key /\ KeyOK(c, "")
  BY CodeTypes, KeysOK
<1>3. PICK st : SectionLeaves(st, rs) /\ TreePart' /\ FileOwed
  BY <1>1, <1>2, RaiseSection
<1> QED
  BY <1>3, RootSectionOwing

(* The tree gets the URL of the ACS, or is saved.                          *)
LEMMA UrlTree ==
    ASSUME Owing, pc # "flush", pc \in Starting,
           bkp' = bkp \/ bkp' = [bkp EXCEPT !.acs = url], file' \in {bkp', file}
    PROVE  TreePart' /\ FileOwed
<1>1. bkp'.nodes = bkp.nodes
  BY TreeFacts DEF Tree
<1>2. Clean
  BY DEF Clean, Starting
<1> QED
  BY <1>1, <1>2, TreeFacts, TreeTouched, Reflexive

LEMMA FlushOwing ==
    ASSUME Owing, Inv', bootstrap_flush
    PROVE  Owing' /\ Delivered
<1>1. /\ pc = "flush" /\ pc' = pc /\ head # NULL /\ events[head] # <<>>
      /\ events' = [events EXCEPT ![head] = Tail(events[head])]
      /\ bkp' = [bkp EXCEPT !.nodes = bkp_session_delete_event(bkp.nodes,
                                          Head(events[head]).id, "queue_event")]
      /\ UNCHANGED <<queue, head, rpcs, send, session, err, vc, file>>
  BY DEF bootstrap_flush, Calm, schedVars
<1>2. /\ queue # <<>> /\ head \in Live /\ Live' = Live /\ Live \subseteq Sid /\ head # session
      /\ session \in Sid \union {NULL}
  <2>1. queue # <<>> /\ head # session
    BY <1>1 DEF Owing, Inv, QueueShape
  <2>2. head \in Live
    BY <2>1, SingleQueue DEF Owing, Live
  <2> QED
    BY <1>1, <2>1, <2>2, OwingFacts DEF Live
<1>3. EventsPart' /\ (\A t \in Sid : t # head => events'[t] = events[t])
  BY <1>1, <1>2, FirstDropped
<1>4. TreePart'
  BY <1>1, DropTree DEF Clean
<1>5. SessionPart'
  <2>1. session # NULL => events'[session] = events[session]
    BY <1>2, <1>3
  <2> QED
    BY <1>1, <2>1 DEF Owing, SessionPart, Starting
<1>6. LoadPart'
  BY <1>1 DEF LoadPart
<1>7. Delivered
  BY <1>1, <1>2, DropDelivered
<1> QED
  BY <1>3, <1>4, <1>5, <1>6, <1>7 DEF Owing

LEMMA BootstrapOwing ==
    ASSUME Owing, Inv'
    PROVE  /\ cwmp_root_cause_event_bootstrap => Owing' /\ Delivered
           /\ bootstrap_flushed => Owing' /\ Delivered
           /\ bootstrap_raise => Owing' /\ Delivered
           /\ bootstrap_url_changed => Owing' /\ Delivered
<1>1. ASSUME cwmp_root_cause_event_bootstrap PROVE Owing' /\ Delivered
  <2>1. /\ pc = "bootstrap" /\ pc' \in {"flush", AfterBootstrap}
        /\ UNCHANGED <<queue, head, events, rpcs, send, session, err, vc>>
        /\ bkp' = bkp \/ bkp' = [bkp EXCEPT !.acs = url]
        /\ file' \in {bkp', file}
    BY <1>1 DEF cwmp_root_cause_event_bootstrap, Calm, queueVars, schedVars
  <2>2. RootPlace /\ pc \in Starting
    BY <2>1 DEF RootPlace, Starting, AfterBootstrap
  <2>3. TreePart' /\ FileOwed
    BY <2>1, <2>2, UrlTree
  <2> QED
    BY <2>1, <2>2, <2>3, RootOwing
<1>2. ASSUME bootstrap_flushed PROVE Owing' /\ Delivered
  <2>1. /\ pc = "flush" /\ pc' = "raise" /\ bkp' = bkp
        /\ UNCHANGED <<queue, head, events, rpcs, send, session, err, vc>>
        /\ file' = IF head = NULL THEN file ELSE bkp
    BY <1>2 DEF bootstrap_flushed, Calm, queueVars, schedVars
  <2>2. RootPlace
    BY <2>1 DEF RootPlace, Starting
  <2>3. TreePart' /\ FileOwed
    <3>1. CASE head = NULL
      BY <2>1, <3>1, TreeUnchanged DEF Clean
    <3>2. CASE head # NULL
      <4>1. \A n \in ToSet(bkp.nodes) : n.name \in EventName => Recorded(bkp.nodes, n.code, n.key)
        BY DEF Recorded
      <4> QED
        BY <2>1, <3>2, <4>1, TreeFacts, TreeWritten
    <3> QED
      BY <3>1, <3>2
  <2> QED
    BY <2>1, <2>2, <2>3, RootOwing
<1>3. ASSUME bootstrap_raise PROVE Owing' /\ Delivered
  <2>1. /\ pc = "raise" /\ pc' \in {"urlchange", AfterBootstrap}
        /\ UNCHANGED <<send, session, err, vc>>
        /\ RaiseSaved(BOOTSTRAP, "", QueuedRpcs)
    BY <1>3 DEF bootstrap_raise, Calm, schedVars
  <2>2. RootPlace
    BY <2>1 DEF RootPlace, Starting, AfterBootstrap
  <2> QED
    BY <2>1, <2>2, CodeTypes, RpcsGrow, RootRaiseOwing
<1>4. ASSUME bootstrap_url_changed PROVE Owing' /\ Delivered
  <2> DEFINE st == Spliced(AddEvent(Here, VALUE_CHANGE, ""), {UrlParam})
  <2>1. /\ pc = "urlchange" /\ pc' = AfterBootstrap
        /\ UNCHANGED <<send, session, err, vc>>
        /\ Queued(st, QueuedRpcs)
        /\ bkp' = [bkp EXCEPT !.acs = url] /\ file' = bkp'
    BY <1>4 DEF bootstrap_url_changed, Calm, schedVars
  <2>2. RootPlace /\ pc \in Starting
    BY <2>1 DEF RootPlace, Starting, AfterBootstrap
  <2>3. TreePart' /\ FileOwed
    BY <2>1, <2>2, UrlTree
  <2>4. /\ VALUE_CHANGE \in EventCode /\ "" \in Key /\ KeyOK(VALUE_CHANGE, "")
        /\ {UrlParam} \in SUBSET Params
        /\ st = Spliced(AddEvent(Here, VALUE_CHANGE, ""), {UrlParam})
    BY CodeTypes, KeysOK DEF Params
  <2> HIDE DEF st
  <2>5. Good(st) /\ Section(st)
    BY <2>4, SplicedSection
  <2>6. SectionLeaves(st, QueuedRpcs)
    BY <2>1, <2>5, RpcsGrow, SectionStep
  <2> QED
    BY <2>2, <2>3, <2>6, RootSectionOwing
<1> QED
  BY <1>1, <1>2, <1>3, <1>4

LEMMA BootOwing ==
    ASSUME Owing, Inv'
    PROVE  /\ cwmp_root_cause_event_boot => Owing' /\ Delivered
           /\ cwmp_root_cause_getRPCMethod => Owing' /\ Delivered
           /\ connection_request_port_value_change => Owing' /\ Delivered
<1>1. ASSUME cwmp_root_cause_event_boot PROVE Owing' /\ Delivered
  <2>1. /\ pc = "boot" /\ pc' = "grm" /\ UNCHANGED <<send, session, err, vc>>
        /\ UNCHANGED <<queueVars, bkp, file>> \/ RaiseSaved(BOOT, "", QueuedRpcs)
    BY <1>1 DEF cwmp_root_cause_event_boot, Calm, schedVars
  <2>2. RootPlace /\ pc \in Starting
    BY <2>1 DEF RootPlace, Starting
  <2>3. CASE UNCHANGED <<queueVars, bkp, file>>
    BY <2>1, <2>2, <2>3, UrlTree, RootOwing DEF queueVars
  <2>4. CASE RaiseSaved(BOOT, "", QueuedRpcs)
    BY <2>1, <2>2, <2>4, CodeTypes, RpcsGrow, RootRaiseOwing
  <2> QED
    BY <2>1, <2>3, <2>4
<1>2. ASSUME cwmp_root_cause_getRPCMethod PROVE Owing' /\ Delivered
  <2> DEFINE rs == Append(QueuedRpcs, GetRPCMethods)
  <2>1. /\ pc = "grm" /\ pc' = "port" /\ UNCHANGED <<send, session, err, vc>>
        /\ UNCHANGED <<queueVars, bkp, file>> \/ RaiseSaved(PERIODIC, "", rs)
    BY <1>2 DEF cwmp_root_cause_getRPCMethod, Calm, schedVars
  <2>2. RootPlace /\ pc \in Starting
    BY <2>1 DEF RootPlace, Starting
  <2>3. CASE UNCHANGED <<queueVars, bkp, file>>
    BY <2>1, <2>2, <2>3, UrlTree, RootOwing DEF queueVars
  <2>4. rs \in Seq(Rpc) /\ Form(rs) /\ ToSet(QueuedRpcs) \subseteq ToSet(rs)
    BY RpcTypes, RpcsGrow
  <2>5. CASE RaiseSaved(PERIODIC, "", rs)
    BY <2>1, <2>2, <2>4, <2>5, CodeTypes, RootRaiseOwing
  <2> QED
    BY <2>1, <2>3, <2>5
<1>3. ASSUME connection_request_port_value_change PROVE Owing' /\ Delivered
  <2>1. /\ pc = "port" /\ pc' = "lock" /\ UNCHANGED <<send, session, err, vc>>
        /\ \/ UNCHANGED <<queueVars, bkp, file>>
           \/ AddressSaved /\ UNCHANGED queueVars
           \/ AddressSaved /\ AddressReported
    BY <1>3 DEF connection_request_port_value_change, Calm
  <2>2. RootPlace /\ pc \in Starting
    BY <2>1 DEF RootPlace, Starting
  <2>3. TreePart' /\ FileOwed
    <3>1. bkp' = bkp /\ file' \in {bkp', file}
      BY <2>1 DEF AddressSaved
    <3> QED
      BY <2>1, <2>2, <3>1, UrlTree
  <2>4. CASE UNCHANGED queueVars
    BY <2>2, <2>3, <2>4, RootOwing DEF queueVars
  <2>5. CASE AddressReported
    <3> DEFINE st == AddEvent(Here, VALUE_CHANGE, "")
    <3>1. Good(st) /\ Section(st)
      BY OwingFacts, KeysOK, CodeTypes, SectionAdd
    <3>2. Queued(st, QueuedRpcs)
      BY <2>5 DEF AddressReported
    <3> HIDE DEF st
    <3>3. SectionLeaves(st, QueuedRpcs)
      BY <2>1, <3>1, <3>2, RpcsGrow, SectionStep
    <3> QED
      BY <2>2, <2>3, <3>3, RootSectionOwing
  <2> QED
    BY <2>1, <2>4, <2>5
<1> QED
  BY <1>1, <1>2, <1>3

LEMMA StartOwing ==
    ASSUME Owing, Inv', Start
    PROVE  Owing' /\ Delivered
BY RestartOwing, LoadStepsOwing, BootstrapOwing, FlushOwing, BootOwing DEF Start

-----------------------------------------------------------------------------
LEMMA StopOwing ==
    ASSUME Owing, Inv'
    PROVE  /\ crash => Owing' /\ Delivered
           /\ \A c \in TransferCode, k \in CmdKey : transfer_exit(c, k) => Owing' /\ Delivered
<1>1. ASSUME crash PROVE Owing' /\ Delivered
  <2>1. pc # "down" /\ ProcessEnds(file) /\ file' = file
    BY <1>1 DEF crash, ProcessEnds
  <2>2. Stored' = Stored
    BY <2>1 DEF Stored
  <2> QED
    BY <2>1, <2>2, TreeFacts, EndsOwing
<1>2. ASSUME NEW c \in TransferCode, NEW k \in CmdKey, transfer_exit(c, k)
      PROVE  Owing' /\ Delivered
  <2> DEFINE f == WithRecord(bkp, c, k)
  <2>1. pc # "down" /\ pc \in Idle /\ ProcessEnds(f) /\ file' = f
    BY <1>2 DEF transfer_exit, Up, SendFree, ProcessEnds
  <2>2. c \in EventCode /\ c \notin Single /\ k \in Key
    BY KeysOK, CodeTypes
  <2>3. /\ f \in Tree /\ NodesOK(f.nodes)
        /\ Within(f.nodes, bkp.nodes) /\ Within(bkp.nodes, f.nodes)
    BY <2>2, TreeFacts, RecordType, TransferNodes
  <2> HIDE DEF f
  <2>4. Within(bkp.nodes, file.nodes) /\ Within(file.nodes, bkp.nodes)
    BY <2>1, TreeFacts DEF Clean, Idle
  <2>5. Within(f.nodes, file.nodes) /\ Within(file.nodes, f.nodes)
    BY <2>3, <2>4, WithinTransitive
  <2>6. Stored' = Stored
    <3>1. ASSUME NEW d, NEW l PROVE <<d, l>> \in Stored' <=> <<d, l>> \in Stored
      <4>1. Recorded(file.nodes, d, l) <=> Recorded(file'.nodes, d, l)
        BY <2>1, <2>5 DEF Within, Recorded
      <4> QED
        BY <4>1, OwedFacts, OwedNext
    <3>2. \A x \in Stored' : x \in Stored
      BY <3>1, OwedNext
    <3>3. \A x \in Stored : x \in Stored'
      BY <3>1, OwedFacts
    <3> QED
      BY <3>2, <3>3
  <2> QED
    BY <2>1, <2>3, <2>6, EndsOwing
<1> QED
  BY <1>1, <1>2

LEMMA StutterOwing ==
    ASSUME Owing, Inv', UNCHANGED vars
    PROVE  Owing'
<1>1. UNCHANGED <<queue, head, events, rpcs, bkp, file, send, session, vc, pc, err, crEvent, idx>>
  BY DEF vars, queueVars, schedVars
<1>2. EventsPart' /\ TreePart'
  BY <1>1 DEF Owing, EventsPart, TreePart, Clean
<1>3. SessionPart'
  BY <1>1 DEF Owing, SessionPart, Held
<1>4. LoadPart'
  BY <1>1 DEF Owing, LoadPart, Back, QueuedEvents, QueuedRpcs
<1> QED
  BY <1>2, <1>3, <1>4 DEF Owing

LEMMA NextOwing ==
    ASSUME Owing, Next
    PROVE  Owing' /\ Delivered
<1>1. Inv'
  BY NextInv DEF Owing
<1>2. Produce => Owing' /\ Delivered
  BY <1>1, ProduceOwing, KeepingDelivered
<1> QED
  BY <1>1, <1>2, ScheduleOwing, ConverseOwing, CloseOwing, StartOwing, StopOwing DEF Next

LEMMA InitOwing ==
    ASSUME Init
    PROVE  Owing /\ Delivery!Init
<1>1. /\ queue = <<>> /\ head = NULL /\ send = NULL /\ session = NULL /\ pc = "load"
      /\ events = [s \in Sid |-> <<>>] /\ idx = 1 /\ err = "OK"
      /\ bkp = EmptyTree /\ file = EmptyTree
  BY DEF Init
<1>2. ToSet(<<>>) = {} /\ Len(<<>>) = 0 /\ EmptyTree.nodes = <<>>
  BY DEF ToSet, EmptyTree
<1>3. EventsPart /\ TreePart
  BY <1>1, <1>2 DEF EventsPart, AllOK, TreePart, NodesOK, Within
<1>4. SessionPart /\ LoadPart
  BY <1>1, <1>2 DEF SessionPart, LoadPart
<1>5. Owed = {} /\ Stored = {}
  <2>1. Live = {}
    BY <1>1, <1>2 DEF Live
  <2>2. \A c, k : <<c, k>> \notin Owed /\ <<c, k>> \notin Stored
    BY <1>1, <1>2, <2>1, OwedFacts DEF Recorded
  <2> QED
    BY <2>2, OwedFacts
<1>6. Delivery!Init
  BY <1>1, <1>5 DEF Delivery!Init, PhaseOf
<1> QED
  BY <1>3, <1>4, <1>6, InitInv DEF Owing

-----------------------------------------------------------------------------
(* What is owed is in the sessions or in the file, in every reachable      *)
(* state.                                                                  *)
THEOREM OwingInvariant == Spec => []Owing
<1>1. Init => Owing
  BY InitOwing
<1>2. Owing /\ [Next]_vars => Owing'
  <2>1. ASSUME Owing, UNCHANGED vars PROVE Owing'
    <3>1. Inv'
      BY <2>1, NextInv DEF Owing
    <3> QED
      BY <2>1, <3>1, StutterOwing
  <2> QED
    BY <2>1, NextOwing
<1> QED
  BY <1>1, <1>2, PTL DEF Spec

(* The session engine implements EventDelivery: an event that is retried   *)
(* stays owed through failures, merges and restarts until an Inform with   *)
(* it is answered or the ACS changes (cwmp.c:183-246, 385-506,             *)
(* event.c:394-437, backupSession.c:162-197).                              *)
THEOREM EventsAlwaysDelivered == Spec => EventsDelivered
<1>1. Init => Delivery!Init
  BY InitOwing
<1>2. Owing /\ [Next]_vars => [Delivery!Next]_(Delivery!vars)
  <2>1. ASSUME UNCHANGED vars PROVE UNCHANGED Delivery!vars
    <3>1. UNCHANGED <<queue, events, send, session, pc, file>>
      BY <2>1 DEF vars, queueVars, schedVars
    <3>2. PhaseOf' = PhaseOf /\ Owed' = Owed /\ Stored' = Stored
      BY <3>1 DEF PhaseOf, Owed, Pending, Live, Stored
    <3> QED
      BY <3>2 DEF Delivery!vars
  <2>2. ASSUME Owing, Next PROVE Delivery!Next
    BY <2>2, NextOwing DEF Delivered
  <2> QED
    BY <2>1, <2>2
<1> QED
  BY <1>1, <1>2, OwingInvariant, PTL DEF Spec, EventsDelivered, Delivery!Spec

(* A changed parameter with notification stays in list_value_change or in  *)
(* a pending VALUE CHANGE event until an Inform with it is answered        *)
(* (event.c:279-356, cwmp.c:166-181, 429-441).                             *)
THEOREM ParamsAlwaysKept == Spec => ParamsKept
<1>1. Owing /\ [Next]_vars =>
        [\A p \in OwedParams : \/ p \in OwedParams'
                               \/ /\ pc = "ack" /\ events[session] # <<>>
                                  /\ p \in Head(events[session]).params
                               \/ pc = "flush"
                               \/ pc' = "down"]_vars
  BY NextOwing DEF Delivered, ParamsOK
<1> QED
  BY <1>1, OwingInvariant, PTL DEF Spec, ParamsKept

(* The report of a transfer leaves the sessions only when the ACS answered *)
(* it, or with a failed session after cwmp_cr_event was set                *)
(* (cwmp.c:221-240, 443-506).                                              *)
THEOREM ReportsAlwaysKept == Spec => ReportsKept
<1>1. Owing /\ [Next]_vars =>
        [\A r \in Reports : \/ r \in Reports'
                            \/ /\ pc = "acs" /\ rpcs[session] # <<>>
                               /\ r = Head(rpcs[session])
                            \/ pc = "destroy" /\ crEvent = 1
                            \/ pc' = "down"]_vars
  BY NextOwing DEF Delivered, ReportsOK
<1> QED
  BY <1>1, OwingInvariant, PTL DEF Spec, ReportsKept

(* When main has read the file, every event and every transfer it records  *)
(* is pending again, whatever the crash interrupted                        *)
(* (backupSession.c:781-855, 1853-1935, 1993-2075).                        *)
THEOREM ReloadedHolds == Spec => []Reloaded
<1>1. ASSUME Owing PROVE Reloaded
  <2> SUFFICES ASSUME pc = "bootstrap", send = NULL, NEW n \in ToSet(file.nodes)
               PROVE  IF n.name = "transfer_complete"
                      THEN CompleteRpc(n.code, n.key) \in Reports
                      ELSE <<n.code, n.key>> \in Owed
    BY DEF Reloaded
  <2>1. Back(n) /\ NodeOK(n) /\ n \in Node
    <3>1. file.nodes \in Seq(Node) /\ NodesOK(file.nodes)
      BY <1>1, TreeFacts
    <3>2. \A m \in ToSet(file.nodes) : m \in Node
      BY <3>1, ElementsOf
    <3> QED
      BY <1>1, <3>1, <3>2 DEF Owing, LoadPart, NodesOK
  <2>2. ASSUME head # NULL PROVE head \in Live
    <3>1. queue # <<>>
      BY <1>1, <2>2 DEF Owing, Inv, QueueShape
    <3> QED
      BY <1>1, <3>1, SingleQueue DEF Owing, Live
  <2>3. CASE n.name = "transfer_complete"
    <3> DEFINE r == CompleteRpc(n.code, n.key)
    <3>1. r \in ToSet(QueuedRpcs) /\ IsReport(r)
      BY <2>1, <2>3 DEF Back, EventName, CompleteRpc, IsReport
    <3> HIDE DEF r
    <3>2. head # NULL
      <4> SUFFICES ASSUME head = NULL PROVE FALSE
        OBVIOUS
      <4>1. r = Inform
        BY <3>1 DEF QueuedRpcs, ToSet
      <4> QED
        BY <3>1, <4>1 DEF IsReport, Inform
    <3>3. r \in ToSet(rpcs[head])
      BY <3>1, <3>2 DEF QueuedRpcs
    <3>4. r \in Reports
      BY <2>2, <3>1, <3>2, <3>3, OwedFacts
    <3> QED
      BY <2>3, <3>4 DEF r
  <2>4. CASE n.name # "transfer_complete"
    <3>1. n.name \in EventName
      BY <2>1, <2>4 DEF Node
    <3>2. Holds(QueuedEvents, n.code, n.key, {}) /\ n.code \notin NoRetry
      BY <2>1, <3>1, RetriedCode DEF Back, NodeOK
    <3>3. head # NULL
      BY <3>2 DEF Holds, QueuedEvents, ToSet
    <3>4. Holds(events[head], n.code, n.key, {})
      BY <3>2, <3>3 DEF QueuedEvents
    <3>5. <<n.code, n.key>> \in Owed
      BY <2>2, <3>2, <3>3, <3>4, OwedFacts
    <3> QED
      BY <2>4, <3>5
  <2> QED
    BY <2>3, <2>4
<1> QED
  BY <1>1, OwingInvariant, PTL

-----------------------------------------------------------------------------
(* The records of one life of the process.                                 *)

Records(ns) == {n \in ToSet(ns) : n.name \in EventName}
Same(n, e) == n.id = e.id /\ n.code = e.code /\ n.key = e.key
Status(s, h) == IF s = h THEN "queue_event" ELSE "send_event"
Record(e) == [name |-> "queue_event", id |-> e.id, code |-> e.code, key |-> e.key]

(* With the ids drawn so far at most id: every event has an id of its own, *)
(* at most one record has it, an event that was saved has one, and every   *)
(* record is that of an event, under the name of its session's status.     *)
Numbered(f, id) == \A s \in Sid : \A i \in 1 .. Len(f[s]) : f[s][i].id <= id
Apart(f) == \A s, t \in Sid : \A i \in 1 .. Len(f[s]), j \in 1 .. Len(f[t]) :
                f[s][i].id = f[t][j].id => s = t /\ i = j
OneEach(ns) == \A i, j \in 1 .. Len(ns) :
    ns[i].name \in EventName /\ ns[j].name \in EventName /\ ns[i].id = ns[j].id => i = j
Kept(f, ns) == \A s \in Sid : \A e \in ToSet(f[s]) :
                   e.saved => \E n \in Records(ns) : Same(n, e)
Owned(f, ns, h) == \A n \in Records(ns) :
    \E s \in Sid : n.name = Status(s, h) /\ \E e \in ToSet(f[s]) : Same(n, e)
Books(f, id, ns, h) == /\ Numbered(f, id) /\ Apart(f) /\ OneEach(ns)
                       /\ Kept(f, ns) /\ Owned(f, ns, h)

(* A record is inserted unless there is one with the event's id.           *)
LEMMA RecordInserted ==
    ASSUME NEW ns \in Seq(Node), OneEach(ns), NEW e \in Event,
           \A n \in Records(ns) : n.id = e.id => Same(n, e) /\ n.name = "queue_event"
    PROVE  LET new == bkp_session_insert_event(ns, e)
           IN  /\ OneEach(new)
               /\ Records(ns) \subseteq Records(new)
               /\ \A n \in Records(new) : n \in Records(ns) \/ n = Record(e)
               /\ \E n \in Records(new) : Same(n, e)
<1> DEFINE new == bkp_session_insert_event(ns, e)
           rec == Record(e)
<1>1. rec \in Node /\ Same(rec, e) /\ rec.name = "queue_event" /\ rec.id = e.id
  BY EventFields DEF Record, Node, EventName, Same
<1>2. /\ Len(ns) \in Nat
      /\ \A x : x \in ToSet(ns) <=> \E i \in 1 .. Len(ns) : ns[i] = x
  BY ElementsOf
<1>3. CASE Matches(ns, "queue_event", e.id) # {}
  <2>1. new = ns
    BY <1>3 DEF bkp_session_insert_event
  <2>2. PICK i \in 1 .. Len(ns) : ns[i].name \in EventName /\ ns[i].id = e.id
    BY <1>3 DEF Matches
  <2>3. ns[i] \in Records(ns) /\ Same(ns[i], e)
    BY <1>2, <2>2 DEF Records
  <2> HIDE DEF new
  <2>4. /\ OneEach(new) /\ Records(ns) \subseteq Records(new)
        /\ \A n \in Records(new) : n \in Records(ns) \/ n = Record(e)
        /\ \E n \in Records(new) : Same(n, e)
    BY <2>1, <2>3
  <2> QED
    BY <2>4 DEF new
<1>4. CASE Matches(ns, "queue_event", e.id) = {}
  <2>1. new = Append(ns, rec)
    BY <1>4 DEF bkp_session_insert_event, Record
  <2> HIDE DEF new, rec
  <2>2. /\ Len(new) = Len(ns) + 1 /\ ToSet(new) = ToSet(ns) \union {rec}
        /\ \A i \in 1 .. Len(ns) : new[i] = ns[i]
        /\ new[Len(ns) + 1] = rec
    BY <1>1, <2>1, ElementsAppended
  <2>3. Records(new) = Records(ns) \union {rec}
    BY <1>1, <2>2 DEF Records, EventName
  <2>4. ASSUME NEW i \in 1 .. Len(ns), ns[i].name \in EventName
        PROVE  ns[i].id # e.id
    <3> SUFFICES ASSUME ns[i].id = e.id PROVE FALSE
      OBVIOUS
    <3>1. ns[i] \in Records(ns)
      BY <1>2, <2>4 DEF Records
    <3>2. ns[i].name = "queue_event"
      BY <3>1
    <3>3. i \in 1 .. i
      BY <1>2
    <3>4. i \in Matches(ns, "queue_event", e.id)
      BY <2>4, <3>2, <3>3 DEF Matches
    <3> QED
      BY <1>4, <3>4
  <2>5. OneEach(new)
    <3> SUFFICES ASSUME NEW i \in 1 .. Len(ns) + 1, NEW j \in 1 .. Len(ns) + 1,
                        new[i].name \in EventName, new[j].name \in EventName,
                        new[i].id = new[j].id
                 PROVE  i = j
      BY <2>2 DEF OneEach
    <3>1. CASE i \in 1 .. Len(ns) /\ j \in 1 .. Len(ns)
      BY <2>2, <3>1 DEF OneEach
    <3>2. CASE i \in 1 .. Len(ns) /\ j = Len(ns) + 1
      BY <1>1, <2>2, <2>4, <3>2
    <3>3. CASE j \in 1 .. Len(ns) /\ i = Len(ns) + 1
      BY <1>1, <2>2, <2>4, <3>3
    <3>4. CASE i = Len(ns) + 1 /\ j = Len(ns) + 1
      BY <3>4
    <3> QED
      BY <1>2, <3>1, <3>2, <3>3, <3>4
  <2>6. /\ OneEach(new) /\ Records(ns) \subseteq Records(new)
        /\ \A n \in Records(new) : n \in Records(ns) \/ n = Record(e)
        /\ \E n \in Records(new) : Same(n, e)
    BY <1>1, <2>3, <2>5 DEF rec
  <2> QED
    BY <2>6 DEF new
<1> QED
  BY <1>3, <1>4

(* A sequence without one of its elements.                                 *)
LEMMA OneRemoved ==
    ASSUME NEW ns \in Seq(Node), OneEach(ns), NEW m \in 1 .. Len(ns)
    PROVE  LET new == RemoveAt(ns, m)
           IN  /\ OneEach(new) /\ Records(new) \subseteq Records(ns)
               /\ \A n \in Records(ns) : n # ns[m] => n \in Records(new)
               /\ ns[m].name \in EventName => ns[m] \notin Records(new)
<1> DEFINE new == RemoveAt(ns, m)
<1>1. /\ Len(new) = Len(ns) - 1
      /\ \A j \in 1 .. Len(ns) - 1 : new[j] = IF j < m THEN ns[j] ELSE ns[j + 1]
      /\ ToSet(new) \subseteq ToSet(ns)
      /\ \A x \in ToSet(ns) : x # ns[m] => x \in ToSet(new)
      /\ \A x \in ToSet(new) : \E j \in 1 .. Len(ns) : j # m /\ ns[j] = x
      /\ Len(ns) \in Nat
  BY RemoveAtProperties, ElementsRemoved, ElementsOf
<1> HIDE DEF new
<1>2. OneEach(new)
  <2> SUFFICES ASSUME NEW i \in 1 .. Len(ns) - 1, NEW j \in 1 .. Len(ns) - 1,
                      new[i].name \in EventName, new[j].name \in EventName,
                      new[i].id = new[j].id
               PROVE  i = j
    BY <1>1 DEF OneEach
  <2>1. PICK k \in 1 .. Len(ns) : new[i] = ns[k] /\ k = IF i < m THEN i ELSE i + 1
    BY <1>1
  <2>2. PICK l \in 1 .. Len(ns) : new[j] = ns[l] /\ l = IF j < m THEN j ELSE j + 1
    BY <1>1
  <2>3. k = l
    BY <2>1, <2>2 DEF OneEach
  <2> QED
    BY <1>1, <2>1, <2>2, <2>3
<1>3. ASSUME ns[m].name \in EventName PROVE ns[m] \notin Records(new)
  <2> SUFFICES ASSUME ns[m] \in ToSet(new) PROVE FALSE
    BY DEF Records
  <2>1. PICK j \in 1 .. Len(ns) : j # m /\ ns[j] = ns[m]
    BY <1>1
  <2> QED
    BY <1>3, <2>1 DEF OneEach
<1>4. /\ OneEach(new) /\ Records(new) \subseteq Records(ns)
      /\ \A n \in Records(ns) : n # ns[m] => n \in Records(new)
      /\ ns[m].name \in EventName => ns[m] \notin Records(new)
  BY <1>1, <1>2, <1>3 DEF Records
<1> QED
  BY <1>4 DEF new

(* The record with this id is taken out, if it has this name.              *)
LEMMA RecordDeleted ==
    ASSUME NEW ns \in Seq(Node), OneEach(ns), NEW id, NEW name \in EventName
    PROVE  LET new == bkp_session_delete_event(ns, id, name)
           IN  /\ OneEach(new) /\ Records(new) \subseteq Records(ns)
               /\ \A n \in Records(ns) : n.id # id => n \in Records(new)
               /\ \A n \in Records(new) : n.id = id => n.name # name
<1> DEFINE new == bkp_session_delete_event(ns, id, name)
           I == Matches(ns, name, id)
<1>1. /\ Len(ns) \in Nat
      /\ \A x : x \in ToSet(ns) <=> \E i \in 1 .. Len(ns) : ns[i] = x
  BY ElementsOf
<1>2. I \subseteq 1 .. Len(ns) /\ \A i \in I : ns[i].name \in EventName /\ ns[i].id = id
  BY DEF Matches
<1>3. \A i \in 1 .. Len(ns) : ns[i].name = name /\ ns[i].id = id => i \in I
  <2> SUFFICES ASSUME NEW i \in 1 .. Len(ns), ns[i].name = name, ns[i].id = id
               PROVE  i \in I
    OBVIOUS
  <2>1. i \in 1 .. i
    BY <1>1
  <2> QED
    BY <2>1 DEF Matches
<1>4. CASE I = {}
  <2>1. new = ns
    BY <1>4 DEF bkp_session_delete_event, RemoveFirstOf
  <2> HIDE DEF new, I
  <2>2. \A n \in Records(ns) : n.id = id => n.name # name
    BY <1>1, <1>3, <1>4 DEF Records
  <2> QED
    BY <2>1, <2>2 DEF new
<1>5. CASE I # {}
  <2>1. PICK m \in I : m = Min(I)
    <3>1. I \in SUBSET Nat
      BY <1>1, <1>2
    <3> QED
      BY <1>5, <3>1, MinNat
  <2>2. new = RemoveAt(ns, m) /\ m \in 1 .. Len(ns)
    BY <1>2, <1>5, <2>1 DEF bkp_session_delete_event, RemoveFirstOf
  <2>3. ns[m].name \in EventName /\ ns[m].id = id
    BY <1>2, <2>1
  <2> HIDE DEF new, I
  <2>4. /\ OneEach(new) /\ Records(new) \subseteq Records(ns)
        /\ \A n \in Records(ns) : n # ns[m] => n \in Records(new)
        /\ ns[m] \notin Records(new)
    BY <2>2, <2>3, OneRemoved
  <2>5. ASSUME NEW n \in Records(new), n.id = id PROVE FALSE
    <3>1. n \in ToSet(ns) /\ n.name \in EventName
      BY <2>4 DEF Records
    <3>2. PICK i \in 1 .. Len(ns) : ns[i] = n
      BY <1>1, <3>1
    <3>3. i = m
      BY <2>2, <2>3, <2>5, <3>1, <3>2 DEF OneEach
    <3> QED
      BY <2>4, <3>2, <3>3
  <2>6. /\ OneEach(new) /\ Records(new) \subseteq Records(ns)
        /\ \A n \in Records(ns) : n.id # id => n \in Records(new)
        /\ \A n \in Records(new) : n.id = id => n.name # name
    BY <2>3, <2>4, <2>5
  <2> QED
    BY <2>6 DEF new
<1> QED
  BY <1>4, <1>5

(* Records of transfers leave those of events alone.                       *)
LEMMA TransferRecords ==
    ASSUME NEW t \in Tree, OneEach(t.nodes), NEW c \in EventCode, NEW k \in Key
    PROVE  /\ OneEach(WithRecord(t, c, k).nodes)
           /\ Records(WithRecord(t, c, k).nodes) = Records(t.nodes)
           /\ OneEach(WithoutRecord(t, c, k).nodes)
           /\ Records(WithoutRecord(t, c, k).nodes) = Records(t.nodes)
<1> DEFINE ns == t.nodes
           n == [name |-> "transfer_complete", id |-> 0, code |-> c, key |-> k]
           with == WithRecord(t, c, k)
           without == WithoutRecord(t, c, k)
<1>1. ns \in Seq(Node) /\ Len(ns) \in Nat
      /\ \A x : x \in ToSet(ns) <=> \E i \in 1 .. Len(ns) : ns[i] = x
  BY TreeNodes, ElementsOf
<1>2. n \in Node /\ n.name \notin EventName
  BY DEF Node, EventName
<1>3. with.nodes = ns \/ with.nodes = Append(ns, n)
  BY DEF WithRecord, Tree, bkp_session_insert_transfer_complete,
         bkp_session_insert_du_state_change_complete
<1>4. without.nodes = RemoveFirstOf(ns, Transfers(ns, c, k))
  BY DEF WithoutRecord, Tree, bkp_session_delete_transfer_complete
<1>5. /\ Transfers(ns, c, k) \in SUBSET (1 .. Len(ns))
      /\ \A i \in Transfers(ns, c, k) : ns[i].name \notin EventName
  BY DEF Transfers, EventName
<1>6. OneEach(ns)
  OBVIOUS
<1> HIDE DEF ns, n, with, without
<1>7. OneEach(with.nodes) /\ Records(with.nodes) = Records(ns)
  <2>1. CASE with.nodes = ns
    BY <1>6, <2>1
  <2>2. CASE with.nodes = Append(ns, n)
    <3>1. /\ Len(with.nodes) = Len(ns) + 1 /\ ToSet(with.nodes) = ToSet(ns) \union {n}
          /\ \A i \in 1 .. Len(ns) : with.nodes[i] = ns[i]
          /\ with.nodes[Len(ns) + 1] = n
      BY <1>1, <1>2, <2>2, ElementsAppended
    <3>2. Records(with.nodes) = Records(ns)
      BY <1>2, <3>1 DEF Records
    <3>3. \A i \in 1 .. Len(with.nodes) :
             with.nodes[i].name \in EventName => i \in 1 .. Len(ns) /\ with.nodes[i] = ns[i]
      BY <1>1, <1>2, <3>1
    <3>4. OneEach(with.nodes)
      BY <1>6, <3>3 DEF OneEach
    <3> QED
      BY <3>2, <3>4
  <2> QED
    BY <1>3, <2>1, <2>2
<1>8. OneEach(without.nodes) /\ Records(without.nodes) = Records(ns)
  <2>1. CASE Transfers(ns, c, k) = {}
    BY <1>4, <1>6, <2>1 DEF RemoveFirstOf
  <2>2. CASE Transfers(ns, c, k) # {}
    <3>1. PICK m \in Transfers(ns, c, k) : m = Min(Transfers(ns, c, k))
      <4>1. Transfers(ns, c, k) \in SUBSET Nat
        BY <1>1, <1>5
      <4> QED
        BY <2>2, <4>1, MinNat
    <3>2. without.nodes = RemoveAt(ns, m) /\ m \in 1 .. Len(ns) /\ ns[m].name \notin EventName
      BY <1>4, <1>5, <2>2, <3>1 DEF RemoveFirstOf
    <3>3. /\ OneEach(without.nodes) /\ Records(without.nodes) \subseteq Records(ns)
          /\ \A x \in Records(ns) : x # ns[m] => x \in Records(without.nodes)
      BY <1>1, <1>6, <3>2, OneRemoved
    <3> QED
      BY <3>2, <3>3 DEF Records
  <2> QED
    BY <2>1, <2>2
<1> QED
  BY <1>7, <1>8 DEF ns, with, without

(* bkp_session_move_inform_to_inform_send and _queue.                      *)
LEMMA RecordsRenamed ==
    ASSUME NEW ns \in Seq(Node), OneEach(ns), NEW old, NEW to,
           EventName = {old, to}
    PROVE  LET new == Rename(ns, old, to)
           IN  /\ OneEach(new)
               /\ \A n \in Records(new) : n.name = to /\ \E m \in Records(ns) :
                     n.id = m.id /\ n.code = m.code /\ n.key = m.key
               /\ \A m \in Records(ns) : \E n \in Records(new) :
                     n.id = m.id /\ n.code = m.code /\ n.key = m.key
<1> DEFINE new == Rename(ns, old, to)
<1>1. Len(ns) \in Nat /\ \A i \in 1 .. Len(ns) : ns[i] \in Node
  BY LenProperties, ElementOfSeq
<1>2. to \in EventName /\ old \in EventName
  OBVIOUS
<1>3. \A i \in 1 .. Len(ns) :
        (IF ns[i].name = old THEN [ns[i] EXCEPT !.name = to] ELSE ns[i]) \in Node
  BY <1>1, <1>2 DEF Node
<1>4. /\ new \in Seq(Node) /\ Len(new) = Len(ns)
      /\ \A i \in 1 .. Len(ns) :
            new[i] = IF ns[i].name = old THEN [ns[i] EXCEPT !.name = to] ELSE ns[i]
  BY <1>1, <1>3 DEF Rename
<1> HIDE DEF new
<1>5. ASSUME NEW i \in 1 .. Len(ns)
      PROVE  /\ new[i].code = ns[i].code /\ new[i].key = ns[i].key /\ new[i].id = ns[i].id
             /\ new[i].name \in EventName <=> ns[i].name \in EventName
             /\ new[i].name \in EventName => new[i].name = to
  <2> DEFINE x == ns[i]
  <2>1. x \in Node /\ new[i] = IF x.name = old THEN [x EXCEPT !.name = to] ELSE x
    BY <1>1, <1>4
  <2> HIDE DEF x
  <2>2. /\ new[i].code = x.code /\ new[i].key = x.key /\ new[i].id = x.id
        /\ new[i].name = IF x.name = old THEN to ELSE x.name
    BY <2>1 DEF Node
  <2>3. new[i].name \in EventName <=> x.name \in EventName
    BY <1>2, <2>2
  <2>4. new[i].name \in EventName => new[i].name = to
    BY <1>2, <2>2
  <2> QED
    BY <2>2, <2>3, <2>4 DEF x
<1>6. /\ \A x : x \in ToSet(ns) <=> \E i \in 1 .. Len(ns) : ns[i] = x
      /\ \A x : x \in ToSet(new) <=> \E i \in 1 .. Len(ns) : new[i] = x
  BY <1>4, ElementsOf
<1>7. OneEach(new)
  BY <1>4, <1>5 DEF OneEach
<1>8. ASSUME NEW n \in Records(new)
      PROVE  n.name = to /\ \E m \in Records(ns) :
                  n.id = m.id /\ n.code = m.code /\ n.key = m.key
  <2>1. PICK i \in 1 .. Len(ns) : new[i] = n
    BY <1>6 DEF Records
  <2>2. n.name \in EventName
    BY DEF Records
  <2>3. ns[i] \in Records(ns)
    BY <1>5, <1>6, <2>1, <2>2 DEF Records
  <2> QED
    BY <1>5, <2>1, <2>2, <2>3
<1>9. ASSUME NEW m \in Records(ns)
      PROVE  \E n \in Records(new) : n.id = m.id /\ n.code = m.code /\ n.key = m.key
  <2>1. PICK i \in 1 .. Len(ns) : ns[i] = m
    BY <1>6 DEF Records
  <2>2. m.name \in EventName
    BY DEF Records
  <2>3. new[i] \in Records(new)
    BY <1>5, <1>6, <2>1, <2>2 DEF Records
  <2> QED
    BY <1>5, <2>1, <2>3
<1> QED
  BY <1>7, <1>8, <1>9 DEF new

-----------------------------------------------------------------------------
(* What the operations on a session's list do to the books.                *)

Lists == [Sid -> Seq(Event)]
OthersSame(f, g, T) == \A s \in Sid : s # T => g[s] = f[s]

(* An event with a new id is inserted.                                     *)
LEMMA BooksAdded ==
    ASSUME NEW f \in Lists, NEW g \in Lists, NEW T \in Sid, OthersSame(f, g, T),
           NEW id \in Nat, NEW ns, NEW h, Books(f, id, ns, h),
           NEW p \in 1 .. Len(f[T]) + 1, NEW e \in Event, ~e.saved, e.id = id + 1,
           g[T] = InsertAt(f[T], p, e)
    PROVE  Books(g, id + 1, ns, h)
<1>1. f[T] \in Seq(Event) /\ Len(f[T]) \in Nat
      /\ \A s \in Sid : f[s] \in Seq(Event) /\ g[s] \in Seq(Event)
  BY ElementsOf DEF Lists
<1>2. /\ Len(g[T]) = Len(f[T]) + 1
      /\ \A j \in 1 .. Len(f[T]) + 1 :
            g[T][j] = IF j < p THEN f[T][j] ELSE IF j = p THEN e ELSE f[T][j - 1]
      /\ ToSet(g[T]) = ToSet(f[T]) \union {e}
  <2> DEFINE es == f[T]
  <2>1. es \in Seq(Event) /\ p \in 1 .. Len(es) + 1 /\ g[T] = InsertAt(es, p, e)
    BY <1>1
  <2> HIDE DEF es
  <2>2. /\ Len(InsertAt(es, p, e)) = Len(es) + 1
        /\ \A j \in 1 .. Len(es) + 1 :
              InsertAt(es, p, e)[j] = IF j < p THEN es[j] ELSE IF j = p THEN e ELSE es[j - 1]
    BY <2>1, InsertAtProperties
  <2>3. ToSet(InsertAt(es, p, e)) = ToSet(es) \union {e}
    BY <2>1, ElementsInserted
  <2> QED
    BY <2>1, <2>2, <2>3 DEF es
<1>3. \A s \in Sid : \A i \in 1 .. Len(f[s]) : f[s][i].id \in Nat /\ f[s][i].id <= id
  <2>1. \A s \in Sid : \A i \in 1 .. Len(f[s]) : f[s][i] \in Event
    BY <1>1, ElementOfSeq
  <2> QED
    BY <2>1, EventFields DEF Books, Numbered
<1>4. ASSUME NEW s \in Sid, NEW i \in 1 .. Len(g[s])
      PROVE  \/ s = T /\ i = p /\ g[s][i].id = id + 1
             \/ \E k \in 1 .. Len(f[s]) :
                   /\ g[s][i] = f[s][k]
                   /\ i = IF s = T /\ k >= p THEN k + 1 ELSE k
  <2>1. CASE s # T
    <3>1. g[s] = f[s] /\ i \in 1 .. Len(f[s])
      BY <2>1 DEF OthersSame
    <3> QED
      BY <2>1, <3>1
  <2>2. CASE s = T /\ i = p
    BY <1>1, <1>2, <2>2
  <2>3. CASE s = T /\ i < p
    <3>1. i \in 1 .. Len(f[s]) /\ g[s][i] = f[s][i] /\ ~(i >= p)
      BY <1>1, <1>2, <2>3
    <3> QED
      BY <3>1
  <2>4. CASE s = T /\ i > p
    <3>1. i - 1 \in 1 .. Len(f[s]) /\ g[s][i] = f[s][i - 1] /\ i - 1 >= p /\ i = (i - 1) + 1
      BY <1>1, <1>2, <2>4
    <3> QED
      BY <2>4, <3>1
  <2> QED
    BY <1>1, <2>1, <2>2, <2>3, <2>4
<1>5. Numbered(g, id + 1)
  <2> SUFFICES ASSUME NEW s \in Sid, NEW i \in 1 .. Len(g[s])
               PROVE  g[s][i].id <= id + 1
    BY DEF Numbered
  <2>1. CASE g[s][i].id = id + 1
    BY <2>1
  <2>2. CASE g[s][i].id # id + 1
    <3>1. PICK k \in 1 .. Len(f[s]) : g[s][i] = f[s][k]
      BY <1>4, <2>2
    <3> QED
      BY <1>3, <3>1
  <2> QED
    BY <2>1, <2>2
<1>6. Apart(g)
  <2> SUFFICES ASSUME NEW s \in Sid, NEW t \in Sid,
                      NEW i \in 1 .. Len(g[s]), NEW j \in 1 .. Len(g[t]),
                      g[s][i].id = g[t][j].id
               PROVE  s = t /\ i = j
    BY DEF Apart
  <2>1. CASE g[s][i].id = id + 1
    <3>1. \A u \in Sid : \A k \in 1 .. Len(f[u]) : f[u][k].id # id + 1
      BY <1>3
    <3>2. s = T /\ i = p
      BY <1>4, <2>1, <3>1
    <3>3. t = T /\ j = p
      BY <1>4, <2>1, <3>1
    <3> QED
      BY <3>2, <3>3
  <2>2. CASE g[s][i].id # id + 1
    <3>1. PICK k \in 1 .. Len(f[s]) : g[s][i] = f[s][k] /\ i = IF s = T /\ k >= p THEN k + 1 ELSE k
      BY <1>4, <2>2
    <3>2. PICK l \in 1 .. Len(f[t]) : g[t][j] = f[t][l] /\ j = IF t = T /\ l >= p THEN l + 1 ELSE l
      BY <1>4, <2>2
    <3>3. s = t /\ k = l
      BY <3>1, <3>2 DEF Books, Apart
    <3> QED
      BY <3>1, <3>2, <3>3
  <2> QED
    BY <2>1, <2>2
<1>7. Kept(g, ns)
  <2> SUFFICES ASSUME NEW s \in Sid, NEW x \in ToSet(g[s]), x.saved
               PROVE  \E n \in Records(ns) : Same(n, x)
    BY DEF Kept
  <2>1. x \in ToSet(f[s])
    BY <1>2 DEF OthersSame
  <2> QED
    BY <2>1 DEF Books, Kept
<1>8. Owned(g, ns, h)
  <2> SUFFICES ASSUME NEW n \in Records(ns)
               PROVE  \E s \in Sid : n.name = Status(s, h) /\ \E x \in ToSet(g[s]) : Same(n, x)
    BY DEF Owned
  <2>1. PICK s \in Sid : n.name = Status(s, h) /\ \E x \in ToSet(f[s]) : Same(n, x)
    BY DEF Books, Owned
  <2>2. ToSet(f[s]) \subseteq ToSet(g[s])
    BY <1>2 DEF OthersSame
  <2> QED
    BY <2>1, <2>2
<1> QED
  BY <1>5, <1>6, <1>7, <1>8 DEF Books

(* The containers are changed, but not what a record has of them.          *)
LEMMA BooksChanged ==
    ASSUME NEW f \in Lists, NEW g \in Lists, NEW T \in Sid, OthersSame(f, g, T),
           NEW id \in Nat, NEW ns, NEW h, Books(f, id, ns, h),
           Len(g[T]) = Len(f[T]),
           \A i \in 1 .. Len(f[T]) :
              /\ g[T][i].id = f[T][i].id /\ g[T][i].code = f[T][i].code
              /\ g[T][i].key = f[T][i].key
              /\ \/ g[T][i].saved => f[T][i].saved
                 \/ \E n \in Records(ns) : Same(n, g[T][i])
    PROVE  Books(g, id, ns, h)
<1>1. /\ \A s \in Sid : f[s] \in Seq(Event) /\ g[s] \in Seq(Event)
      /\ \A s \in Sid : \A x : x \in ToSet(f[s]) <=> \E i \in 1 .. Len(f[s]) : f[s][i] = x
      /\ \A s \in Sid : \A x : x \in ToSet(g[s]) <=> \E i \in 1 .. Len(g[s]) : g[s][i] = x
  BY ElementsOf DEF Lists
<1>2. ASSUME NEW s \in Sid
      PROVE  /\ Len(g[s]) = Len(f[s])
             /\ \A i \in 1 .. Len(f[s]) :
                  /\ g[s][i].id = f[s][i].id /\ g[s][i].code = f[s][i].code
                  /\ g[s][i].key = f[s][i].key
                  /\ \/ g[s][i].saved => f[s][i].saved
                     \/ \E n \in Records(ns) : Same(n, g[s][i])
  <2>1. CASE s = T
    BY <2>1
  <2>2. CASE s # T
    <3>1. g[s] = f[s]
      BY <2>2 DEF OthersSame
    <3> QED
      BY <3>1
  <2> QED
    BY <2>1, <2>2
<1>3. Numbered(g, id)
  BY <1>2 DEF Books, Numbered
<1>4. Apart(g)
  <2> SUFFICES ASSUME NEW s \in Sid, NEW t \in Sid,
                      NEW i \in 1 .. Len(g[s]), NEW j \in 1 .. Len(g[t]),
                      g[s][i].id = g[t][j].id
               PROVE  s = t /\ i = j
    BY DEF Apart
  <2>1. i \in 1 .. Len(f[s]) /\ j \in 1 .. Len(f[t]) /\ f[s][i].id = f[t][j].id
    BY <1>2
  <2> QED
    BY <2>1 DEF Books, Apart
<1>5. Kept(g, ns)
  <2> SUFFICES ASSUME NEW s \in Sid, NEW x \in ToSet(g[s]), x.saved
               PROVE  \E n \in Records(ns) : Same(n, x)
    BY DEF Kept
  <2>0. Len(g[s]) = Len(f[s])
    BY <1>2
  <2>1. PICK i \in 1 .. Len(f[s]) : g[s][i] = x
    BY <1>1, <2>0, ZenonT(90)
  <2>2. CASE f[s][i].saved
    <3>1. f[s][i] \in ToSet(f[s])
      BY <1>1
    <3>2. PICK n \in Records(ns) : Same(n, f[s][i])
      BY <2>2, <3>1 DEF Books, Kept
    <3> QED
      BY <1>2, <2>1, <3>2 DEF Same
  <2>3. CASE ~f[s][i].saved
    BY <1>2, <2>1, <2>3
  <2> QED
    BY <2>2, <2>3
<1>6. Owned(g, ns, h)
  <2> SUFFICES ASSUME NEW n \in Records(ns)
               PROVE  \E s \in Sid : n.name = Status(s, h) /\ \E x \in ToSet(g[s]) : Same(n, x)
    BY DEF Owned
  <2>1. PICK s \in Sid : n.name = Status(s, h) /\ \E x \in ToSet(f[s]) : Same(n, x)
    BY DEF Books, Owned
  <2>2. PICK i \in 1 .. Len(f[s]) : Same(n, f[s][i])
    BY <1>1, <2>1, ZenonT(90)
  <2>3. g[s][i] \in ToSet(g[s]) /\ Same(n, g[s][i])
    BY <1>1, <1>2, <2>2 DEF Same
  <2> QED
    BY <2>1, <2>3
<1> QED
  BY <1>3, <1>4, <1>5, <1>6 DEF Books

(* The record of a container of the queued session is inserted.            *)
LEMMA BooksInserted ==
    ASSUME NEW f \in Lists, NEW T \in Sid, NEW id, NEW ns \in Seq(Node),
           Books(f, id, ns, T), NEW m \in 1 .. Len(f[T])
    PROVE  LET new == bkp_session_insert_event(ns, f[T][m])
           IN  /\ Books(f, id, new, T)
               /\ \E n \in Records(new) : Same(n, f[T][m])
               /\ Records(ns) \subseteq Records(new)
<1> DEFINE e == f[T][m]
           new == bkp_session_insert_event(ns, e)
<1>1. /\ \A s \in Sid : f[s] \in Seq(Event)
      /\ \A s \in Sid : \A x : x \in ToSet(f[s]) <=> \E i \in 1 .. Len(f[s]) : f[s][i] = x
  BY ElementsOf DEF Lists
<1>2. e \in Event /\ e \in ToSet(f[T])
  BY <1>1, ElementOfSeq
<1>3. ASSUME NEW n \in Records(ns), n.id = e.id
      PROVE  Same(n, e) /\ n.name = "queue_event"
  <2>1. PICK s \in Sid : n.name = Status(s, T) /\ \E x \in ToSet(f[s]) : Same(n, x)
    BY DEF Books, Owned
  <2>2. PICK i \in 1 .. Len(f[s]) : Same(n, f[s][i])
    BY <1>1, <2>1
  <2>3. f[s][i].id = f[T][m].id
    BY <1>3, <2>2 DEF Same
  <2>4. s = T /\ i = m
    BY <2>3 DEF Books, Apart
  <2> QED
    BY <2>1, <2>2, <2>4 DEF Status
<1>4. OneEach(ns)
  BY DEF Books
<1> HIDE DEF e
<1>5. /\ OneEach(new) /\ Records(ns) \subseteq Records(new)
      /\ \A n \in Records(new) : n \in Records(ns) \/ n = Record(e)
      /\ \E n \in Records(new) : Same(n, e)
  BY <1>2, <1>3, <1>4, RecordInserted
<1> HIDE DEF new
<1>6. Kept(f, new)
  BY <1>5 DEF Books, Kept
<1>7. Owned(f, new, T)
  <2> SUFFICES ASSUME NEW n \in Records(new)
               PROVE  \E s \in Sid : n.name = Status(s, T) /\ \E x \in ToSet(f[s]) : Same(n, x)
    BY DEF Owned
  <2>1. CASE n \in Records(ns)
    BY <2>1 DEF Books, Owned
  <2>2. CASE n = Record(e)
    <3>1. n.name = Status(T, T) /\ Same(n, e)
      BY <2>2 DEF Record, Status, Same
    <3> QED
      BY <1>2, <3>1
  <2> QED
    BY <1>5, <2>1, <2>2
<1>8. Books(f, id, new, T)
  BY <1>5, <1>6, <1>7 DEF Books
<1> QED
  BY <1>5, <1>8 DEF new, e

(* A container is removed, and no record has its id any longer.            *)
LEMMA BooksRemoved ==
    ASSUME NEW f \in Lists, NEW g \in Lists, NEW T \in Sid, OthersSame(f, g, T),
           NEW id, NEW ns, NEW ms, NEW h, Books(f, id, ns, h),
           NEW m \in 1 .. Len(f[T]), Len(g[T]) = Len(f[T]) - 1,
           \A j \in 1 .. Len(f[T]) - 1 : g[T][j] = IF j < m THEN f[T][j] ELSE f[T][j + 1],
           OneEach(ms), Records(ms) \subseteq Records(ns),
           \A n \in Records(ns) : n.id # f[T][m].id => n \in Records(ms),
           \A n \in Records(ms) : n.id # f[T][m].id
    PROVE  Books(g, id, ms, h)
<1>1. /\ \A s \in Sid : f[s] \in Seq(Event) /\ g[s] \in Seq(Event) /\ Len(f[s]) \in Nat
      /\ \A s \in Sid : \A x : x \in ToSet(f[s]) <=> \E i \in 1 .. Len(f[s]) : f[s][i] = x
      /\ \A s \in Sid : \A x : x \in ToSet(g[s]) <=> \E i \in 1 .. Len(g[s]) : g[s][i] = x
  BY ElementsOf DEF Lists
<1>2. ASSUME NEW s \in Sid, NEW i \in 1 .. Len(g[s])
      PROVE  \E k \in 1 .. Len(f[s]) :
                /\ g[s][i] = f[s][k] /\ (s = T => k # m)
                /\ k = IF s = T /\ i >= m THEN i + 1 ELSE i
  <2>1. CASE s # T
    <3>1. g[s] = f[s]
      BY <2>1 DEF OthersSame
    <3> QED
      BY <2>1, <3>1
  <2>2. CASE s = T /\ i < m
    <3>1. i \in 1 .. Len(f[s]) /\ g[s][i] = f[s][i] /\ ~(i >= m) /\ i # m
      BY <1>1, <2>2
    <3> QED
      BY <3>1
  <2>3. CASE s = T /\ i >= m
    <3>1. i + 1 \in 1 .. Len(f[s]) /\ g[s][i] = f[s][i + 1] /\ i + 1 # m
      BY <1>1, <2>3
    <3> QED
      BY <2>3, <3>1
  <2> QED
    BY <1>1, <2>1, <2>2, <2>3
<1>3. ASSUME NEW s \in Sid, NEW k \in 1 .. Len(f[s]), s = T => k # m
      PROVE  f[s][k] \in ToSet(g[s]) /\ f[s][k].id # f[T][m].id
  <2>1. f[s][k].id # f[T][m].id
    BY <1>3 DEF Books, Apart
  <2>2. CASE s # T
    <3>1. g[s] = f[s]
      BY <2>2 DEF OthersSame
    <3> QED
      BY <1>1, <2>1, <3>1
  <2>3. CASE s = T /\ k < m
    <3>1. k \in 1 .. Len(g[s]) /\ g[s][k] = f[s][k]
      BY <1>1, <2>3
    <3> QED
      BY <1>1, <2>1, <3>1
  <2>4. CASE s = T /\ k > m
    <3>1. k - 1 \in 1 .. Len(g[s]) /\ g[s][k - 1] = f[s][k]
      BY <1>1, <2>4
    <3> QED
      BY <1>1, <2>1, <3>1
  <2> QED
    BY <1>1, <1>3, <2>2, <2>3, <2>4
<1>4. Numbered(g, id)
  <2> SUFFICES ASSUME NEW s \in Sid, NEW i \in 1 .. Len(g[s])
               PROVE  g[s][i].id <= id
    BY DEF Numbered
  <2>1. PICK k \in 1 .. Len(f[s]) : g[s][i] = f[s][k]
    BY <1>2
  <2> QED
    BY <2>1 DEF Books, Numbered
<1>5. Apart(g)
  <2> SUFFICES ASSUME NEW s \in Sid, NEW t \in Sid,
                      NEW i \in 1 .. Len(g[s]), NEW j \in 1 .. Len(g[t]),
                      g[s][i].id = g[t][j].id
               PROVE  s = t /\ i = j
    BY DEF Apart
  <2>1. PICK k \in 1 .. Len(f[s]) : g[s][i] = f[s][k] /\ k = IF s = T /\ i >= m THEN i + 1 ELSE i
    BY <1>2
  <2>2. PICK l \in 1 .. Len(f[t]) : g[t][j] = f[t][l] /\ l = IF t = T /\ j >= m THEN j + 1 ELSE j
    BY <1>2
  <2>3. s = t /\ k = l
    BY <2>1, <2>2 DEF Books, Apart
  <2>4. Len(g[s]) \in Nat
    BY <1>1, ElementsOf
  <2> QED
    BY <2>1, <2>2, <2>3, <2>4
<1>6. Kept(g, ms)
  <2> SUFFICES ASSUME NEW s \in Sid, NEW x \in ToSet(g[s]), x.saved
               PROVE  \E n \in Records(ms) : Same(n, x)
    BY DEF Kept
  <2>1. PICK i \in 1 .. Len(g[s]) : g[s][i] = x
    BY <1>1
  <2>2. PICK k \in 1 .. Len(f[s]) : g[s][i] = f[s][k] /\ (s = T => k # m)
    BY <1>2
  <2>3. x \in ToSet(f[s]) /\ x.id # f[T][m].id
    BY <1>1, <1>3, <2>1, <2>2
  <2>4. PICK n \in Records(ns) : Same(n, x)
    BY <2>3 DEF Books, Kept
  <2> QED
    BY <2>3, <2>4 DEF Same
<1>7. Owned(g, ms, h)
  <2> SUFFICES ASSUME NEW n \in Records(ms)
               PROVE  \E s \in Sid : n.name = Status(s, h) /\ \E x \in ToSet(g[s]) : Same(n, x)
    BY DEF Owned
  <2>1. PICK s \in Sid : n.name = Status(s, h) /\ \E x \in ToSet(f[s]) : Same(n, x)
    BY DEF Books, Owned
  <2>2. PICK x \in ToSet(f[s]) : Same(n, x)
    BY <2>1
  <2>3. PICK k \in 1 .. Len(f[s]) : f[s][k] = x
    BY <1>1, ZenonT(90)
  <2>4. Same(n, f[s][k])
    BY <2>2, <2>3
  <2>5. ~(s = T /\ k = m)
    BY <2>4 DEF Same
  <2>6. f[s][k] \in ToSet(g[s])
    BY <1>3, <2>5
  <2> QED
    BY <2>1, <2>4, <2>6
<1> QED
  BY <1>4, <1>5, <1>6, <1>7 DEF Books

(* The container is removed together with its record, if it has one.       *)
LEMMA BooksDropped ==
    ASSUME NEW f \in Lists, NEW g \in Lists, NEW T \in Sid, OthersSame(f, g, T),
           NEW id, NEW ns \in Seq(Node), NEW h, Books(f, id, ns, h),
           f[T] # <<>>, g[T] = Tail(f[T])
    PROVE  LET ms == bkp_session_delete_event(ns, Head(f[T]).id, Status(T, h))
           IN  Books(g, id, ms, h) /\ Records(ms) \subseteq Records(ns)
<1> DEFINE ms == bkp_session_delete_event(ns, Head(f[T]).id, Status(T, h))
<1>1. /\ \A s \in Sid : f[s] \in Seq(Event) /\ Len(f[s]) \in Nat
      /\ \A s \in Sid : \A x : x \in ToSet(f[s]) <=> \E i \in 1 .. Len(f[s]) : f[s][i] = x
  BY ElementsOf DEF Lists
<1>2. /\ Head(f[T]) = f[T][1] /\ 1 \in 1 .. Len(f[T]) /\ Len(g[T]) = Len(f[T]) - 1
      /\ \A j \in 1 .. Len(f[T]) - 1 : g[T][j] = IF j < 1 THEN f[T][j] ELSE f[T][j + 1]
  <2>1. Len(f[T]) \in Nat \ {0}
    BY <1>1, NonEmpty
  <2>2. Head(f[T]) = f[T][1] /\ Len(g[T]) = Len(f[T]) - 1
    BY <1>1, HeadAndTail
  <2>3. \A j \in 1 .. Len(f[T]) - 1 : Tail(f[T])[j] = f[T][j + 1]
    BY <1>1, <2>1
  <2> QED
    BY <2>1, <2>2, <2>3
<1>3. Status(T, h) \in EventName
  BY DEF Status, EventName
<1>4. OneEach(ns)
  BY DEF Books
<1>5. /\ OneEach(ms) /\ Records(ms) \subseteq Records(ns)
      /\ \A n \in Records(ns) : n.id # f[T][1].id => n \in Records(ms)
      /\ \A n \in Records(ms) : n.id = f[T][1].id => n.name # Status(T, h)
  BY <1>2, <1>3, <1>4, RecordDeleted
<1> HIDE DEF ms
<1>6. ASSUME NEW n \in Records(ms) PROVE n.id # f[T][1].id
  <2> SUFFICES ASSUME n.id = f[T][1].id PROVE FALSE
    OBVIOUS
  <2>1. PICK s \in Sid : n.name = Status(s, h) /\ \E x \in ToSet(f[s]) : Same(n, x)
    BY <1>5 DEF Books, Owned
  <2>2. PICK k \in 1 .. Len(f[s]) : Same(n, f[s][k])
    BY <1>1, <2>1
  <2>3. f[s][k].id = f[T][1].id
    BY <2>2 DEF Same
  <2>4. s = T
    BY <1>2, <2>3 DEF Books, Apart
  <2> QED
    BY <1>5, <2>1, <2>4
<1>7. Books(g, id, ms, h)
  BY <1>2, <1>5, <1>6, BooksRemoved
<1> QED
  BY <1>5, <1>7 DEF ms

(* All records get the name of another status.                             *)
LEMMA BooksRenamed ==
    ASSUME NEW f \in Lists, NEW id, NEW ns \in Seq(Node), NEW h, Books(f, id, ns, h),
           NEW old, NEW to, EventName = {old, to}, NEW new,
           \A s \in Sid : f[s] # <<>> => Status(s, new) = to
    PROVE  Books(f, id, Rename(ns, old, to), new)
<1> DEFINE ms == Rename(ns, old, to)
<1>1. OneEach(ns)
  BY DEF Books
<1>2. /\ OneEach(ms)
      /\ \A n \in Records(ms) : n.name = to /\ \E m \in Records(ns) :
            n.id = m.id /\ n.code = m.code /\ n.key = m.key
      /\ \A m \in Records(ns) : \E n \in Records(ms) :
            n.id = m.id /\ n.code = m.code /\ n.key = m.key
  BY <1>1, RecordsRenamed
<1> HIDE DEF ms
<1>3. Kept(f, ms)
  <2> SUFFICES ASSUME NEW s \in Sid, NEW e \in ToSet(f[s]), e.saved
               PROVE  \E n \in Records(ms) : Same(n, e)
    BY DEF Kept
  <2>1. PICK m \in Records(ns) : Same(m, e)
    BY DEF Books, Kept
  <2>2. PICK n \in Records(ms) : n.id = m.id /\ n.code = m.code /\ n.key = m.key
    BY <1>2
  <2> QED
    BY <2>1, <2>2 DEF Same
<1>4. Owned(f, ms, new)
  <2> SUFFICES ASSUME NEW n \in Records(ms)
               PROVE  \E s \in Sid : n.name = Status(s, new) /\ \E x \in ToSet(f[s]) : Same(n, x)
    BY DEF Owned
  <2>1. PICK m \in Records(ns) : n.id = m.id /\ n.code = m.code /\ n.key = m.key
    BY <1>2
  <2>2. PICK s \in Sid : \E x \in ToSet(f[s]) : Same(m, x)
    BY DEF Books, Owned
  <2>3. PICK x \in ToSet(f[s]) : Same(m, x)
    BY <2>2
  <2>4. f[s] # <<>>
    BY <2>3 DEF ToSet
  <2>5. n.name = Status(s, new) /\ Same(n, x)
    BY <1>2, <2>1, <2>3, <2>4 DEF Same
  <2> QED
    BY <2>3, <2>5
<1>5. Books(f, id, ms, new)
  BY <1>2, <1>3, <1>4 DEF Books
<1> QED
  BY <1>5 DEF ms

-----------------------------------------------------------------------------
(* The queued session in a critical section.                               *)

SectionBooks(st, ns) ==
    Books([events EXCEPT ![Target] = st.evs], st.id, ns, Target)

(* What the file has of the tree's event records; what no session has.     *)
FilePart == /\ Records(bkp.nodes) \subseteq Records(file.nodes)
            /\ Clean => Records(file.nodes) \subseteq Records(bkp.nodes)
Elsewhere == \A s \in Sid : s # head /\ s # session => events[s] = <<>>
Ledger == /\ Books(events, nextId, bkp.nodes, head)
          /\ Elsewhere /\ FilePart
          /\ pc = "load" => bkp.nodes = <<>>

LEMMA LedgerFacts ==
    ASSUME Owing
    PROVE  /\ Inv /\ events \in Lists /\ nextId \in Nat
           /\ Target \in Sid /\ TargetOK
           /\ bkp.nodes \in Seq(Node) /\ bkp \in Tree
           /\ session \in Sid \union {NULL} /\ head \in Sid \union {NULL}
           /\ NULL \notin Sid
BY OwingFacts, SidAssumption DEF Inv, TypeOK, Lists

(* Lists of the sessions with another list for one of them.                *)
LEMMA ListsExcept ==
    ASSUME NEW f \in Lists, NEW T \in Sid, NEW es \in Seq(Event)
    PROVE  /\ [f EXCEPT ![T] = es] \in Lists
           /\ [f EXCEPT ![T] = es][T] = es
           /\ \A s \in Sid : s # T => [f EXCEPT ![T] = es][s] = f[s]
BY DEF Lists

LEMMA LedgerHere ==
    ASSUME Owing, Ledger
    PROVE  SectionBooks(Here, bkp.nodes)
<1>0. /\ events \in Lists /\ TargetOK /\ Target \in Sid /\ NULL \notin Sid
      /\ Here.evs = QueuedEvents /\ Here.id = nextId
  BY LedgerFacts DEF Here
<1>1. CASE head # NULL
  <2>1. Target = head /\ QueuedEvents = events[Target]
    BY <1>0, <1>1 DEF TargetOK, QueuedEvents
  <2>2. [events EXCEPT ![Target] = QueuedEvents] = events
    BY <1>0, <2>1 DEF Lists
  <2> QED
    BY <1>0, <2>1, <2>2 DEF SectionBooks, Ledger
<1>2. CASE head = NULL
  <2>1. QueuedEvents = <<>> /\ events[Target] = <<>>
    BY <1>0, <1>2 DEF TargetOK, QueuedEvents, Ledger, Elsewhere
  <2>2. [events EXCEPT ![Target] = QueuedEvents] = events
    BY <1>0, <2>1 DEF Lists
  <2>3. Owned(events, bkp.nodes, Target)
    <3> SUFFICES ASSUME NEW n \in Records(bkp.nodes)
                 PROVE  \E s \in Sid : n.name = Status(s, Target)
                                       /\ \E e \in ToSet(events[s]) : Same(n, e)
      BY DEF Owned
    <3>1. PICK s \in Sid : n.name = Status(s, head) /\ \E e \in ToSet(events[s]) : Same(n, e)
      BY DEF Ledger, Books, Owned
    <3>2. events[s] # <<>>
      BY <3>1 DEF ToSet
    <3>3. s # Target /\ s # head
      BY <1>0, <1>2, <2>1, <3>2
    <3> QED
      BY <3>1, <3>3 DEF Status
  <2> QED
    BY <1>0, <2>2, <2>3 DEF SectionBooks, Ledger, Books
<1> QED
  BY <1>1, <1>2

LEMMA SectionBooksAdd ==
    ASSUME Owing, NEW st \in ListState, NEW ns, SectionBooks(st, ns),
           st.id < MAX_INT_ID, NEW c \in EventCode, NEW k \in Key
    PROVE  SectionBooks(AddEvent(st, c, k), ns)
<1> DEFINE es == st.evs
           p == Stop(es, c)
           e == NewEvent(c, k, NextId(st.id))
           f == [events EXCEPT ![Target] = es]
<1>1. es \in Seq(Event) /\ st.id \in Nat /\ p \in 1 .. Len(es) + 1
  BY StopProperties DEF ListState
<1>2. NextId(st.id) = st.id + 1
  BY <1>1, MaxIntIdAssumption DEF NextId
<1>3. e \in Event /\ ~e.saved /\ e.id = st.id + 1
  BY <1>1, <1>2, NewEventType DEF NewEvent
<1>4. events \in Lists /\ Target \in Sid
  BY LedgerFacts
<1>5. CASE Present(es, c)
  <2>1. AddEvent(st, c, k).evs = es /\ AddEvent(st, c, k).id = st.id
    BY <1>5 DEF AddEvent
  <2> QED
    BY <2>1 DEF SectionBooks
<1>6. CASE ~Present(es, c)
  <2> DEFINE new == InsertAt(es, p, e)
             g == [events EXCEPT ![Target] = new]
  <2>1. AddEvent(st, c, k).evs = new /\ AddEvent(st, c, k).id = st.id + 1
    BY <1>2, <1>6 DEF AddEvent
  <2>2. new \in Seq(Event)
    BY <1>1, <1>3, InsertAtProperties
  <2>3. Books(f, st.id, ns, Target)
    BY DEF SectionBooks
  <2> HIDE DEF es, p, e, new
  <2>4. /\ f \in Lists /\ g \in Lists /\ f[Target] = es /\ g[Target] = new
        /\ OthersSame(f, g, Target)
    <3>1. f \in Lists /\ f[Target] = es /\ \A s \in Sid : s # Target => f[s] = events[s]
      BY <1>1, <1>4, ListsExcept
    <3>2. g \in Lists /\ g[Target] = new /\ \A s \in Sid : s # Target => g[s] = events[s]
      BY <1>4, <2>2, ListsExcept
    <3> QED
      BY <3>1, <3>2 DEF OthersSame
  <2>5. g[Target] = InsertAt(f[Target], p, e) /\ p \in 1 .. Len(f[Target]) + 1
    BY <1>1, <2>4 DEF new
  <2> HIDE DEF f, g
  <2>6. Books(g, st.id + 1, ns, Target)
    BY <1>1, <1>3, <1>4, <2>3, <2>4, <2>5, BooksAdded
  <2> QED
    BY <2>1, <2>6 DEF SectionBooks, g
<1> QED
  BY <1>5, <1>6

(* A container of the section is replaced.                                 *)
LEMMA SectionBooksExcept ==
    ASSUME Owing, NEW st, Good(st), NEW ns, SectionBooks(st, ns), NEW e \in Event,
           e.id = st.evs[st.at].id, e.code = st.evs[st.at].code, e.key = st.evs[st.at].key,
           \/ e.saved => st.evs[st.at].saved
           \/ \E n \in Records(ns) : Same(n, e)
    PROVE  SectionBooks([st EXCEPT !.evs = [st.evs EXCEPT ![st.at] = e]], ns)
<1> DEFINE es == st.evs
           new == [es EXCEPT ![st.at] = e]
           f == [events EXCEPT ![Target] = es]
           g == [events EXCEPT ![Target] = new]
<1>1. es \in Seq(Event) /\ st.id \in Nat /\ st.at \in 1 .. Len(es)
  BY GoodAt
<1>2. /\ new \in Seq(Event) /\ Len(new) = Len(es)
      /\ \A j \in 1 .. Len(es) : new[j] = IF j = st.at THEN e ELSE es[j]
  BY <1>1, ExceptSeq
<1>3. Books(f, st.id, ns, Target)
  BY DEF SectionBooks
<1>4. [st EXCEPT !.evs = new].evs = new /\ [st EXCEPT !.evs = new].id = st.id
  BY GoodAt DEF ListState
<1>5. events \in Lists /\ Target \in Sid
  BY LedgerFacts
<1>6. \A i \in 1 .. Len(es) :
         /\ new[i].id = es[i].id /\ new[i].code = es[i].code /\ new[i].key = es[i].key
         /\ \/ new[i].saved => es[i].saved
            \/ \E n \in Records(ns) : Same(n, new[i])
  BY <1>2
<1> HIDE DEF es, new
<1>7. /\ f \in Lists /\ g \in Lists /\ f[Target] = es /\ g[Target] = new
      /\ OthersSame(f, g, Target)
  <2>1. f \in Lists /\ f[Target] = es /\ \A s \in Sid : s # Target => f[s] = events[s]
    BY <1>1, <1>5, ListsExcept
  <2>2. g \in Lists /\ g[Target] = new /\ \A s \in Sid : s # Target => g[s] = events[s]
    BY <1>2, <1>5, ListsExcept
  <2> QED
    BY <2>1, <2>2 DEF OthersSame
<1> HIDE DEF f, g
<1>8. Books(g, st.id, ns, Target)
  BY <1>1, <1>2, <1>3, <1>5, <1>6, <1>7, BooksChanged
<1> QED
  BY <1>4, <1>8 DEF SectionBooks, g, new, es

LEMMA SectionBooksSpliced ==
    ASSUME Owing, NEW st, Good(st), NEW ns, SectionBooks(st, ns), NEW ps \in SUBSET Params
    PROVE  SectionBooks(Spliced(st, ps), ns)
<1> DEFINE x == st.evs[st.at]
           e == [x EXCEPT !.params = @ \union ps]
<1>1. x \in Event
  BY GoodAt
<1>2. [st.evs EXCEPT ![st.at].params = @ \union ps] = [st.evs EXCEPT ![st.at] = e]
  OBVIOUS
<1> HIDE DEF x
<1>3. e \in Event /\ e.id = x.id /\ e.code = x.code /\ e.key = x.key /\ (e.saved => x.saved)
  BY <1>1 DEF Event
<1> HIDE DEF e
<1>4. SectionBooks([st EXCEPT !.evs = [st.evs EXCEPT ![st.at] = e]], ns)
  BY <1>3, SectionBooksExcept DEF x
<1> QED
  BY <1>2, <1>4 DEF Spliced, e, x

LEMMA SectionBooksSaved ==
    ASSUME Owing, NEW st, Good(st), NEW ns \in Seq(Node), SectionBooks(st, ns)
    PROVE  /\ SectionBooks(Saved(st), SavedNodes(st, ns))
           /\ Records(ns) \subseteq Records(SavedNodes(st, ns))
<1>1. CASE ~Persistent(st)
  BY <1>1 DEF Saved, SavedNodes
<1>2. CASE Persistent(st)
  <2> DEFINE x == st.evs[st.at]
             e == [x EXCEPT !.saved = TRUE]
             f == [events EXCEPT ![Target] = st.evs]
             ms == bkp_session_insert_event(ns, x)
  <2>1. x \in Event /\ st.evs \in Seq(Event) /\ st.at \in 1 .. Len(st.evs)
    BY GoodAt
  <2>2. events \in Lists /\ Target \in Sid
    BY LedgerFacts
  <2>3. f \in Lists /\ f[Target] = st.evs
    BY <2>1, <2>2, ListsExcept
  <2>4. Books(f, st.id, ns, Target)
    BY DEF SectionBooks
  <2>5. f[Target][st.at] = x /\ st.at \in 1 .. Len(f[Target])
    BY <2>1, <2>3
  <2>6. SavedNodes(st, ns) = ms /\ Saved(st) = [st EXCEPT !.evs = [st.evs EXCEPT ![st.at] = e]]
    BY <1>2 DEF Saved, SavedNodes
  <2> HIDE DEF x, f
  <2>7. e \in Event /\ e.id = x.id /\ e.code = x.code /\ e.key = x.key
    BY <2>1 DEF Event
  <2>8. /\ Books(f, st.id, ms, Target) /\ Records(ns) \subseteq Records(ms)
        /\ \E n \in Records(ms) : Same(n, x)
    BY <2>2, <2>3, <2>4, <2>5, BooksInserted
  <2> HIDE DEF e, ms
  <2>9. SectionBooks(st, ms)
    BY <2>8 DEF SectionBooks, f
  <2>10. \E n \in Records(ms) : Same(n, e)
    BY <2>7, <2>8 DEF Same
  <2>11. SectionBooks([st EXCEPT !.evs = [st.evs EXCEPT ![st.at] = e]], ms)
    BY <2>7, <2>9, <2>10, SectionBooksExcept DEF x
  <2> QED
    BY <2>6, <2>8, <2>11
<1> QED
  BY <1>1, <1>2

(* The session is queued with the list of the section.                     *)
LEMMA QueuedLedger ==
    ASSUME Owing, Ledger, NEW st, Good(st), NEW rs, Queued(st, rs),
           SectionBooks(st, bkp'.nodes), session' = session, FilePart', pc' # "load"
    PROVE  Ledger'
<1>0. /\ events \in Lists /\ TargetOK /\ Target \in Sid /\ NULL \notin Sid /\ st.evs \in Seq(Event)
  BY LedgerFacts, GoodAt
<1>1. events' = [events EXCEPT ![Target] = st.evs] /\ nextId' = st.id /\ head' = Target
  BY DEF Queued, cwmp_add_queue_session
<1>2. Books(events', nextId', bkp'.nodes, head')
  BY <1>1 DEF SectionBooks
<1>3. Elsewhere'
  <2> SUFFICES ASSUME NEW s \in Sid, s # Target, s # session
               PROVE  events'[s] = <<>>
    BY <1>1 DEF Elsewhere
  <2>1. events'[s] = events[s]
    BY <1>0, <1>1, ListsExcept
  <2>2. s # head
    BY <1>0 DEF TargetOK
  <2> QED
    BY <2>1, <2>2 DEF Ledger, Elsewhere
<1> QED
  BY <1>2, <1>3 DEF Ledger

(* A step that leaves the events and their records alone.                  *)
LEMMA SameLedger ==
    ASSUME Owing, Ledger, UNCHANGED <<events, nextId, head>>,
           session' = session \/ session = NULL,
           Records(bkp'.nodes) = Records(bkp.nodes), OneEach(bkp'.nodes),
           FilePart', pc' # "load"
    PROVE  Ledger'
<1>1. Books(events', nextId', bkp'.nodes, head')
  BY DEF Ledger, Books, Kept, Owned
<1>2. Elsewhere'
  BY LedgerFacts DEF Ledger, Elsewhere
<1> QED
  BY <1>1, <1>2 DEF Ledger

-----------------------------------------------------------------------------
(* The steps.  The counter of ids is two short of its end at least: an id  *)
(* is drawn twice only after MAX_INT_ID others.                            *)
FewIds == nextId + 2 <= MAX_INT_ID

LEMMA AddedId ==
    ASSUME NEW st \in ListState, st.id < MAX_INT_ID, NEW c, NEW k
    PROVE  AddEvent(st, c, k).id \in Nat /\ AddEvent(st, c, k).id <= st.id + 1
BY MaxIntIdAssumption DEF AddEvent, NextId, ListState

LEMMA FewIdsHere ==
    ASSUME Owing, FewIds
    PROVE  /\ Here \in ListState /\ Here.id < MAX_INT_ID
           /\ \A c \in EventCode, k \in Key :
                /\ Good(AddEvent(Here, c, k)) /\ AddEvent(Here, c, k).id < MAX_INT_ID
                /\ Ledger => SectionBooks(AddEvent(Here, c, k), bkp.nodes)
<1>1. /\ Here \in ListState /\ Ordered(Here.evs) /\ Here.id < MAX_INT_ID
      /\ Here.id + 2 <= MAX_INT_ID /\ Here.id \in Nat
  BY HereGood, LedgerFacts, MaxIntIdAssumption DEF FewIds, Here
<1>2. ASSUME NEW c \in EventCode, NEW k \in Key
      PROVE  /\ Good(AddEvent(Here, c, k)) /\ AddEvent(Here, c, k).id < MAX_INT_ID
             /\ Ledger => SectionBooks(AddEvent(Here, c, k), bkp.nodes)
  <2>1. Good(AddEvent(Here, c, k))
    BY <1>1, GoodAdd
  <2>2. AddEvent(Here, c, k).id < MAX_INT_ID
    BY <1>1, AddedId, MaxIntIdAssumption
  <2>3. Ledger => SectionBooks(AddEvent(Here, c, k), bkp.nodes)
    BY <1>1, LedgerHere, SectionBooksAdd
  <2> QED
    BY <2>1, <2>2, <2>3
<1> QED
  BY <1>1, <1>2

(* The file after a step.                                                  *)
LEMMA FileWritten ==
    ASSUME file' = bkp'
    PROVE  FilePart'
BY DEF FilePart

LEMMA FileFollowed ==
    ASSUME Ledger, Records(bkp'.nodes) = Records(bkp.nodes),
           \/ Records(file'.nodes) = Records(file.nodes) /\ (Clean' => Clean)
           \/ Records(file'.nodes) = Records(bkp.nodes)
    PROVE  FilePart'
BY DEF Ledger, FilePart

LEMMA CleanKept ==
    ASSUME pc # "flush", pc \in {"ack", "destroy"} => pc' = pc, session' = session,
           pc = "destroy" => rpcs'[session] = rpcs[session]
    PROVE  Clean' => Clean
BY DEF Clean

LEMMA QueuedClean ==
    ASSUME Owing, NEW st, NEW rs, Queued(st, rs),
           pc # "flush", pc \in {"ack", "destroy"} => pc' = pc,
           session' = session
    PROVE  Clean' => Clean
<1>1. TargetOK /\ rpcs' = [rpcs EXCEPT ![Target] = rs] /\ rpcs \in [Sid -> Seq(Rpc)]
  BY LedgerFacts DEF Queued, Inv, TypeOK
<1>2. pc = "destroy" => session \in Sid /\ session # Target
  BY <1>1, LedgerFacts DEF Inv, Phase, TargetOK
<1>3. pc = "destroy" => rpcs'[session] = rpcs[session]
  BY <1>1, <1>2
<1> QED
  BY <1>3, CleanKept

LEMMA NodesOf ==
    ASSUME Owing, NEW ns
    PROVE  [bkp EXCEPT !.nodes = ns].nodes = ns
BY LedgerFacts, TreeSet

LEMMA RaiseSavedLedger ==
    ASSUME Owing, Ledger, FewIds, NEW c \in EventCode, NEW k \in Key, NEW rs,
           RaiseSaved(c, k, rs), session' = session, pc' # "load",
           pc # "flush", pc \in {"ack", "destroy"} => pc' = pc
    PROVE  Ledger'
<1> DEFINE st == AddEvent(Here, c, k)
<1>1. Good(st) /\ SectionBooks(st, bkp.nodes)
  BY FewIdsHere
<1>2. /\ Queued(Saved(st), rs)
      /\ bkp' = [bkp EXCEPT !.nodes = SavedNodes(st, bkp.nodes)]
      /\ file' = IF Persistent(st) THEN bkp' ELSE file
  BY DEF RaiseSaved
<1> HIDE DEF st
<1>3. bkp'.nodes = SavedNodes(st, bkp.nodes) /\ bkp.nodes \in Seq(Node)
  BY <1>2, NodesOf, LedgerFacts
<1>4. SectionBooks(Saved(st), bkp'.nodes) /\ Good(Saved(st))
  BY <1>1, <1>3, SectionBooksSaved, GoodSaved
<1>5. FilePart'
  <2>1. CASE Persistent(st)
    BY <1>2, <2>1, FileWritten
  <2>2. CASE ~Persistent(st)
    <3>1. bkp'.nodes = bkp.nodes /\ file' = file
      BY <1>2, <1>3, <2>2 DEF SavedNodes
    <3>2. Clean' => Clean
      BY <1>2, QueuedClean
    <3> QED
      BY <3>1, <3>2, FileFollowed
  <2> QED
    BY <2>1, <2>2
<1> QED
  BY <1>2, <1>4, <1>5, QueuedLedger

(* The event is not saved; the records of events stay as they are.         *)
LEMMA RaiseUnsavedLedger ==
    ASSUME Owing, Ledger, NEW st, Good(st), SectionBooks(st, bkp.nodes), NEW rs,
           Queued(st, rs), session' = session, pc' # "load",
           pc # "flush", pc \in {"ack", "destroy"} => pc' = pc,
           Records(bkp'.nodes) = Records(bkp.nodes), OneEach(bkp'.nodes),
           \/ Records(file'.nodes) = Records(file.nodes)
           \/ Records(file'.nodes) = Records(bkp.nodes)
    PROVE  Ledger'
<1>1. SectionBooks(st, bkp'.nodes)
  BY DEF SectionBooks, Books, Kept, Owned
<1>2. FilePart'
  BY QueuedClean, FileFollowed
<1> QED
  BY <1>1, <1>2, QueuedLedger

LEMMA RecordsSame ==
    ASSUME Ledger
    PROVE  /\ OneEach(bkp.nodes)
           /\ UNCHANGED <<bkp, file>> => /\ Records(bkp'.nodes) = Records(bkp.nodes)
                                         /\ Records(file'.nodes) = Records(file.nodes)
                                         /\ OneEach(bkp'.nodes)
BY DEF Ledger, Books

(* A producer's section: it is not one of the scheduler's.                 *)
LEMMA ProducerPlace ==
    ASSUME Owing, Producer, Woken
    PROVE  /\ session' = session /\ pc' # "load"
           /\ pc # "flush"
           /\ pc \in {"ack", "destroy"} => pc' = pc
BY LedgerFacts DEF Producer, QueueFree, Up, Starting, Inv, Phase, schedVars, Woken

LEMMA EventProducersLedger ==
    ASSUME Owing, Ledger, FewIds
    PROVE  /\ thread_event_periodic => Ledger'
           /\ http_success_cr => Ledger'
           /\ \A c \in InformCode : cwmp_handle_inform(c) => Ledger'
           /\ cwmp_handle_inform_grm => Ledger'
           /\ cwmp_root_cause_event_ipdiagnostic => Ledger'
           /\ cwmp_add_notification_active => Ledger'
<1>1. ASSUME NEW c \in EventCode, NEW rs, RaiseSaved(c, "", rs), Producer, Signal
      PROVE  Ledger'
  BY <1>1, CodeTypes, SignalWoken, ProducerPlace, RaiseSavedLedger
<1>2. ASSUME NEW c \in EventCode, RaiseUnsaved(c, ""), Producer, Signal
      PROVE  Ledger'
  <2> DEFINE st == AddEvent(Here, c, "")
  <2>1. Good(st) /\ SectionBooks(st, bkp.nodes)
    BY CodeTypes, FewIdsHere
  <2>2. Queued(st, QueuedRpcs) /\ UNCHANGED <<bkp, file>>
    BY <1>2 DEF RaiseUnsaved
  <2> HIDE DEF st
  <2> QED
    BY <1>2, <2>1, <2>2, RecordsSame, SignalWoken, ProducerPlace, RaiseUnsavedLedger
<1>3. thread_event_periodic => Ledger'
  BY <1>1, CodeTypes DEF thread_event_periodic
<1>4. http_success_cr => Ledger'
  BY <1>2, CodeTypes DEF http_success_cr
<1>5. \A c \in InformCode : cwmp_handle_inform(c) => Ledger'
  BY <1>2, CodeAssumption DEF cwmp_handle_inform
<1>6. cwmp_handle_inform_grm => Ledger'
  BY <1>1, CodeTypes DEF cwmp_handle_inform_grm
<1>7. cwmp_root_cause_event_ipdiagnostic => Ledger'
  BY <1>1, CodeTypes DEF cwmp_root_cause_event_ipdiagnostic
<1>8. cwmp_add_notification_active => Ledger'
  BY <1>1, CodeTypes DEF cwmp_add_notification_active
<1> QED
  BY <1>3, <1>4, <1>5, <1>6, <1>7, <1>8

(* A thread that neither queues an event nor touches the records.          *)
LEMMA BystanderLedger ==
    ASSUME Owing, Ledger, Up, Woken, UNCHANGED <<queueVars, send, schedVars>>,
           Records(bkp'.nodes) = Records(bkp.nodes), OneEach(bkp'.nodes),
           \/ Records(file'.nodes) = Records(file.nodes)
           \/ Records(file'.nodes) = Records(bkp.nodes)
    PROVE  Ledger'
<1>1. /\ events' = events /\ nextId' = nextId /\ head' = head /\ rpcs' = rpcs
      /\ session' = session
  BY DEF queueVars, schedVars
<1>2. pc' = pc \/ (pc = "wait" /\ pc' = "woken")
  BY DEF Woken
<1>3. pc' # "load"
  BY <1>2, LedgerFacts DEF Up, Starting, Inv, Phase
<1>4. Clean' => Clean
  BY <1>1, <1>2 DEF Clean
<1>5. FilePart'
  BY <1>4, FileFollowed
<1> QED
  BY <1>1, <1>3, <1>5, SameLedger

LEMMA OtherProducersLedger ==
    ASSUME Owing, Ledger, FewIds
    PROVE  /\ connection_request_ip_value_change => Ledger'
           /\ \A p \in Param, active \in BOOLEAN :
                cwmp_add_notification(p, active) => Ledger'
           /\ \A k \in CmdKey : scheduleInform_due(k) => Ledger'
           /\ \A f : cwmp_handle_command(f) => Ledger'
<1>1. ASSUME connection_request_ip_value_change PROVE Ledger'
  <2>1. file' = bkp /\ bkp' = bkp /\ Producer
    BY <1>1 DEF connection_request_ip_value_change, AddressSaved
  <2>2. /\ Records(bkp'.nodes) = Records(bkp.nodes) /\ OneEach(bkp'.nodes)
        /\ Records(file'.nodes) = Records(bkp.nodes)
    BY <2>1, RecordsSame
  <2>3. CASE UNCHANGED <<queueVars, pc>>
    <3>1. Up /\ Woken /\ UNCHANGED <<queueVars, send, schedVars>>
      BY <2>1, <2>3 DEF Producer, Woken
    <3> QED
      BY <2>2, <3>1, BystanderLedger
  <2>4. CASE AddressReported /\ Signal
    <3> DEFINE st == AddEvent(Here, VALUE_CHANGE, "")
    <3>1. Good(st) /\ SectionBooks(st, bkp.nodes)
      BY CodeTypes, FewIdsHere
    <3>2. Queued(st, QueuedRpcs)
      BY <2>4 DEF AddressReported
    <3> HIDE DEF st
    <3> QED
      BY <2>1, <2>2, <2>4, <3>1, <3>2, SignalWoken, ProducerPlace, RaiseUnsavedLedger
  <2> QED
    BY <1>1, <2>3, <2>4 DEF connection_request_ip_value_change
<1>2. ASSUME NEW p \in Param, NEW active \in BOOLEAN, cwmp_add_notification(p, active)
      PROVE  Ledger'
  <2>1. /\ Up /\ UNCHANGED <<queueVars, send, schedVars>> /\ UNCHANGED <<bkp, file>> /\ Woken
    BY <1>2 DEF cwmp_add_notification, Woken
  <2> QED
    BY <2>1, RecordsSame, BystanderLedger
<1>3. ASSUME NEW k \in CmdKey, scheduleInform_due(k) PROVE Ledger'
  <2> DEFINE s1 == AddEvent(Here, SCHEDULED, "")
             m1 == Saved(s1)
             n1 == SavedNodes(s1, bkp.nodes)
             s2 == AddEvent(m1, M_ScheduleInform, k)
             n2 == SavedNodes(s2, n1)
  <2>1. /\ Producer /\ Signal
        /\ Queued(Saved(s2), QueuedRpcs)
        /\ bkp' = [bkp EXCEPT !.nodes = n2] /\ file' = bkp'
    BY <1>3 DEF scheduleInform_due
  <2>2. bkp'.nodes = n2 /\ bkp.nodes \in Seq(Node)
    BY <2>1, NodesOf, LedgerFacts
  <2>3. Good(s1) /\ SectionBooks(s1, bkp.nodes) /\ s1.id < MAX_INT_ID
    BY CodeTypes, FewIdsHere
  <2> HIDE DEF s1
  <2>4. Good(m1) /\ SectionBooks(m1, n1) /\ m1.id = s1.id /\ n1 \in Seq(Node)
    <3>1. m1.id = s1.id
      BY <2>3, GoodAt DEF Saved, ListState
    <3>2. n1 \in Seq(Node)
      BY <2>2, <2>3, SavedNodesType
    <3> QED
      BY <2>2, <2>3, <3>1, <3>2, GoodSaved, SectionBooksSaved
  <2> HIDE DEF m1, n1
  <2>5. Good(s2) /\ SectionBooks(s2, n1)
    <3>1. m1 \in ListState /\ Ordered(m1.evs) /\ m1.id < MAX_INT_ID
      BY <2>3, <2>4, GoodAt
    <3> QED
      BY <2>4, <3>1, CodeTypes, GoodAdd, SectionBooksAdd
  <2> HIDE DEF s2
  <2>6. Good(Saved(s2)) /\ SectionBooks(Saved(s2), n2)
    BY <2>4, <2>5, GoodSaved, SectionBooksSaved
  <2>7. FilePart'
    BY <2>1, FileWritten
  <2> HIDE DEF n2
  <2> QED
    BY <2>1, <2>2, <2>6, <2>7, SignalWoken, ProducerPlace, QueuedLedger
<1>4. ASSUME NEW f, cwmp_handle_command(f) PROVE Ledger'
  <2>1. /\ Up /\ UNCHANGED <<queueVars, send, schedVars>> /\ UNCHANGED <<bkp, file>> /\ Woken
    BY <1>4 DEF cwmp_handle_command, cwmp_set_end_session, Woken
  <2> QED
    BY <2>1, RecordsSame, BystanderLedger
<1> QED
  BY <1>1, <1>2, <1>3, <1>4

(* The two events of a finished transfer.                                  *)
LEMMA CompleteBooks ==
    ASSUME Owing, Ledger, FewIds, NEW c \in EventCode, NEW k \in Key
    PROVE  Good(CompleteEvents(c, k)) /\ SectionBooks(CompleteEvents(c, k), bkp.nodes)
<1> DEFINE first == IF c = M_ChangeDUState THEN DU_STATE_CHANGE_COMPLETE ELSE TRANSFER_COMPLETE
           st == AddEvent(Here, first, "")
<1>1. first \in EventCode /\ "" \in Key
  BY CodeTypes
<1> HIDE DEF first
<1>2. Good(st) /\ SectionBooks(st, bkp.nodes) /\ st.id < MAX_INT_ID
  BY <1>1, FewIdsHere
<1> HIDE DEF st
<1>3. Good(AddEvent(st, c, k)) /\ SectionBooks(AddEvent(st, c, k), bkp.nodes)
  BY <1>2, GoodAt, GoodAdd, SectionBooksAdd
<1> QED
  BY <1>3 DEF CompleteEvents, st, first

LEMMA TransferProducersLedger ==
    ASSUME Owing, Ledger, FewIds, NEW c \in TransferCode, NEW k \in CmdKey
    PROVE  /\ transfer_finished(c, k) => Ledger'
           /\ transfer_fault(c, k) => Ledger'
           /\ transfer_expired(c, k) => Ledger'
           /\ transfer_silent(c, k) => Ledger'
<1> DEFINE st == CompleteEvents(c, k)
           rs == Append(QueuedRpcs, CompleteRpc(c, k))
           with == WithRecord(bkp, c, k)
           without == WithoutRecord(with, c, k)
<1>1. c \in EventCode /\ k \in Key /\ bkp \in Tree
  BY KeysOK, CodeTypes, LedgerFacts
<1>2. Good(st) /\ SectionBooks(st, bkp.nodes)
  BY <1>1, CompleteBooks
<1>3. OneEach(with.nodes) /\ Records(with.nodes) = Records(bkp.nodes) /\ with \in Tree
  BY <1>1, RecordsSame, TransferRecords, RecordType
<1>4. OneEach(without.nodes) /\ Records(without.nodes) = Records(bkp.nodes)
  <2> HIDE DEF with
  <2> QED
    BY <1>1, <1>3, TransferRecords
<1> HIDE DEF st, rs
<1>5. ASSUME transfer_finished(c, k) PROVE Ledger'
  <2>1. Producer /\ Signal /\ Queued(st, rs) /\ bkp' = with /\ file' = bkp'
    BY <1>5 DEF transfer_finished, RootComplete, st, rs
  <2> HIDE DEF with
  <2> QED
    BY <1>2, <1>3, <2>1, SignalWoken, ProducerPlace, RaiseUnsavedLedger
<1>6. ASSUME transfer_fault(c, k) PROVE Ledger'
  <2>1. Producer /\ Signal /\ Queued(st, rs) /\ bkp' = without /\ file' = with
    BY <1>6 DEF transfer_fault, RootComplete, st, rs
  <2> HIDE DEF with, without
  <2> QED
    BY <1>2, <1>3, <1>4, <2>1, SignalWoken, ProducerPlace, RaiseUnsavedLedger
<1>7. ASSUME transfer_expired(c, k) PROVE Ledger'
  <2>1. Producer /\ pc' = pc /\ Queued(st, rs) /\ bkp' = with /\ file' = file
    BY <1>7 DEF transfer_expired, RootComplete, st, rs
  <2>2. Woken
    BY <2>1 DEF Woken
  <2> HIDE DEF with
  <2> QED
    BY <1>2, <1>3, <2>1, <2>2, ProducerPlace, RaiseUnsavedLedger
<1>8. ASSUME transfer_silent(c, k) PROVE Ledger'
  <2>1. /\ Up /\ Signal /\ UNCHANGED <<queueVars, send, schedVars>>
        /\ bkp' = with /\ file' = bkp'
    BY <1>8 DEF transfer_silent, Producer
  <2> HIDE DEF with
  <2> QED
    BY <1>3, <2>1, SignalWoken, BystanderLedger
<1> QED
  BY <1>5, <1>6, <1>7, <1>8

LEMMA ProduceLedger ==
    ASSUME Owing, Ledger, FewIds, Produce
    PROVE  Ledger'
BY EventProducersLedger, OtherProducersLedger, TransferProducersLedger
   DEF Produce, netlink_new_msg, freecwmp_netlink_interface

-----------------------------------------------------------------------------
(* The steps of the scheduler.                                             *)

LEMMA StillLedger ==
    ASSUME Owing, Ledger, UNCHANGED <<events, nextId, head, bkp, file>>,
           session' = session \/ session = NULL, pc' # "load", Clean
    PROVE  Ledger'
BY RecordsSame, FileFollowed, SameLedger

LEMMA CleanHere ==
    ASSUME pc \notin {"ack", "flush", "destroy"}
    PROVE  Clean
BY DEF Clean

(* The scheduler holds a session that is not the queued one.               *)
LEMMA HeldSession ==
    ASSUME Owing, pc \in Exchange \union {"endf", "ended", "close", "merge", "mergeRpc", "destroy"}
    PROVE  /\ session \in Sid /\ session # NULL /\ session # head
           /\ Status(session, head) = "send_event"
<1>1. session \in Sid /\ session # NULL
  BY LedgerFacts DEF Inv, Phase, Sending
<1>2. session # head
  BY <1>1, LedgerFacts DEF Inv, QueueShape, Exchange
<1> QED
  BY <1>1, <1>2 DEF Status

LEMMA PrepareLedger ==
    ASSUME Owing, Ledger, FewIds, cwmp_prepare_value_change
    PROVE  Ledger'
<1>1. pc = "prepare" /\ pc' = "move" /\ session' = session /\ bkp' = bkp /\ file' = file
  BY DEF cwmp_prepare_value_change, schedVars
<1>2. CASE vc = {}
  <2>1. events' = events /\ nextId' = nextId /\ head' = head
    BY <1>2 DEF cwmp_prepare_value_change, queueVars
  <2> QED
    BY <1>1, <2>1, CleanHere, StillLedger
<1>3. CASE vc # {}
  <2> DEFINE s1 == AddEvent(Here, VALUE_CHANGE, "")
             st == Spliced(s1, vc)
  <2>1. Queued(st, QueuedRpcs)
    BY <1>3 DEF cwmp_prepare_value_change
  <2>2. Good(s1) /\ SectionBooks(s1, bkp.nodes)
    BY CodeTypes, FewIdsHere
  <2>3. vc \in SUBSET Params
    BY OwingFacts
  <2> HIDE DEF s1
  <2>4. Good(st) /\ SectionBooks(st, bkp.nodes)
    BY <2>2, <2>3, GoodSpliced, SectionBooksSpliced
  <2> HIDE DEF st
  <2> QED
    BY <1>1, <2>1, <2>4, RecordsSame, RaiseUnsavedLedger
<1> QED
  BY <1>2, <1>3

LEMMA MoveToSendLedger ==
    ASSUME Owing, Ledger, cwmp_move_session_to_session_send
    PROVE  Ledger'
<1>1. pc = "move" /\ send = NULL /\ head = session /\ NULL \notin Sid /\ events \in Lists
  BY LedgerFacts DEF cwmp_move_session_to_session_send, Inv, Phase, QueueShape
<1>2. /\ events' = events /\ nextId' = nextId /\ head' = NULL /\ session' = session
      /\ bkp' = [bkp EXCEPT !.nodes = bkp_session_move_inform_to_inform_send(@)]
      /\ file' = bkp' /\ pc' = "init"
  BY <1>1 DEF cwmp_move_session_to_session_send
<1>3. bkp'.nodes = Rename(bkp.nodes, "queue_event", "send_event") /\ bkp.nodes \in Seq(Node)
  BY <1>2, NodesOf, LedgerFacts DEF bkp_session_move_inform_to_inform_send
<1>4. \A s \in Sid : Status(s, NULL) = "send_event"
  BY <1>1 DEF Status
<1>5. Books(events, nextId, Rename(bkp.nodes, "queue_event", "send_event"), NULL)
  <2>1. Books(events, nextId, bkp.nodes, head) /\ EventName = {"queue_event", "send_event"}
    BY DEF Ledger, EventName
  <2> QED
    BY <1>1, <1>3, <1>4, <2>1, BooksRenamed
<1>6. Elsewhere'
  BY <1>1, <1>2 DEF Ledger, Elsewhere
<1>7. FilePart'
  BY <1>2, FileWritten
<1> QED
  BY <1>2, <1>3, <1>5, <1>6, <1>7 DEF Ledger

LEMMA ScheduleLedger ==
    ASSUME Owing, Ledger, FewIds, Schedule
    PROVE  Ledger'
<1>1. ASSUME sched_lock \/ sched_sleep \/ sched_timeout \/ sched_woken PROVE Ledger'
  <2>1. /\ pc \in {"lock", "presleep", "wait", "woken"} /\ pc' # "load"
        /\ UNCHANGED <<events, nextId, head, bkp, file>>
    BY <1>1 DEF sched_lock, sched_sleep, sched_timeout, sched_woken, Choose, Still, queueVars
  <2>2. session = NULL
    BY <2>1, LedgerFacts DEF Inv, Phase, Idle
  <2> QED
    BY <2>1, <2>2, CleanHere, StillLedger
<1> QED
  BY <1>1, PrepareLedger, MoveToSendLedger DEF Schedule

(* A container of session s is destroyed with its record.                  *)
LEMMA DropLedger ==
    ASSUME Owing, Ledger, NEW s \in Sid, events[s] # <<>>,
           events' = [events EXCEPT ![s] = Tail(events[s])],
           bkp' = [bkp EXCEPT !.nodes =
                      bkp_session_delete_event(bkp.nodes, Head(events[s]).id, Status(s, head))],
           UNCHANGED <<nextId, head, session, file>>, pc' # "load", ~Clean'
    PROVE  Ledger'
<1> DEFINE ms == bkp_session_delete_event(bkp.nodes, Head(events[s]).id, Status(s, head))
<1>1. events \in Lists /\ nextId \in Nat /\ bkp.nodes \in Seq(Node) /\ bkp'.nodes = ms
  BY LedgerFacts, NodesOf
<1>2. Tail(events[s]) \in Seq(Event)
  BY <1>1, HeadAndTail DEF Lists
<1>3. events' \in Lists /\ events'[s] = Tail(events[s]) /\ OthersSame(events, events', s)
  <2> DEFINE es == Tail(events[s])
  <2>1. es \in Seq(Event) /\ events' = [events EXCEPT ![s] = es]
    BY <1>2
  <2> HIDE DEF es
  <2>2. /\ events' \in Lists /\ events'[s] = es
        /\ \A t \in Sid : t # s => events'[t] = events[t]
    BY <1>1, <2>1 DEF Lists
  <2> QED
    BY <2>2 DEF OthersSame, es
<1>4. Books(events, nextId, bkp.nodes, head)
  BY DEF Ledger
<1>5. Books(events', nextId, ms, head) /\ Records(ms) \subseteq Records(bkp.nodes)
  BY <1>1, <1>3, <1>4, BooksDropped
<1> HIDE DEF ms
<1>6. Elsewhere'
  <2> SUFFICES ASSUME NEW t \in Sid, t # head, t # session PROVE events'[t] = <<>>
    BY DEF Elsewhere
  <2>1. events[t] = <<>>
    BY DEF Ledger, Elsewhere
  <2> QED
    BY <1>3, <2>1 DEF OthersSame
<1>7. FilePart'
  BY <1>1, <1>5 DEF Ledger, FilePart
<1> QED
  BY <1>1, <1>5, <1>6, <1>7 DEF Ledger

LEMMA AckLedger ==
    ASSUME Owing, Ledger, event_remove_all_event_container
    PROVE  Ledger'
<1>1. /\ pc = "ack" /\ UNCHANGED <<nextId, head, session>>
  BY DEF event_remove_all_event_container, schedVars
<1>2. session \in Sid /\ Status(session, head) = "send_event"
  BY <1>1, HeldSession DEF Exchange
<1>3. CASE events[session] # <<>>
  <2>1. /\ events' = [events EXCEPT ![session] = Tail(events[session])]
        /\ bkp' = [bkp EXCEPT !.nodes =
              bkp_session_delete_event(bkp.nodes, Head(events[session]).id, "send_event")]
        /\ file' = file /\ pc' = pc
    BY <1>2, <1>3, LedgerFacts DEF event_remove_all_event_container, DropFirstEvent, Lists
  <2>2. ~Clean' /\ pc' # "load"
    BY <1>1, <2>1 DEF Clean
  <2> QED
    BY <1>1, <1>2, <1>3, <2>1, <2>2, DropLedger
<1>4. CASE events[session] = <<>>
  <2>1. events' = events /\ bkp' = bkp /\ file' = bkp /\ pc' \in {"acs", "empty"}
    BY <1>4 DEF event_remove_all_event_container, AfterRpc
  <2>2. FilePart'
    BY <2>1, FileWritten
  <2> QED
    BY <1>1, <2>1, <2>2, RecordsSame, SameLedger
<1> QED
  BY <1>3, <1>4

(* extra_clean of a report leaves the records of events alone.             *)
LEMMA ExtraCleanLedger ==
    ASSUME Owing, Ledger, NEW r \in Rpc, ExtraClean(r),
           UNCHANGED <<events, nextId, head, session>>, pc' # "load", Clean
    PROVE  Ledger'
<1>1. /\ r.code \in EventCode /\ r.key \in Key /\ bkp \in Tree /\ OneEach(bkp.nodes)
  BY LedgerFacts, RecordsSame DEF Rpc
<1>2. CASE r.type \in {"TransferComplete", "DUStateChangeComplete"}
  <2>1. bkp' = WithoutRecord(bkp, r.code, r.key) /\ file' = bkp'
    BY <1>2 DEF ExtraClean
  <2>2. OneEach(bkp'.nodes) /\ Records(bkp'.nodes) = Records(bkp.nodes)
    BY <1>1, <2>1, TransferRecords
  <2>3. FilePart'
    BY <2>1, FileWritten
  <2> QED
    BY <2>2, <2>3, SameLedger
<1>3. CASE r.type \notin {"TransferComplete", "DUStateChangeComplete"}
  BY <1>3, StillLedger DEF ExtraClean
<1> QED
  BY <1>2, <1>3

LEMMA AnsweredLedger ==
    ASSUME Owing, Ledger, rpc_acs_answered
    PROVE  Ledger'
<1>1. /\ pc = "acs" /\ pc' # "load" /\ UNCHANGED <<events, nextId, head, session>>
      /\ rpcs[session] # <<>> /\ ExtraClean(Head(rpcs[session]))
  BY DEF rpc_acs_answered, AfterRpc, schedVars
<1>2. session \in Sid
  BY <1>1, HeldSession DEF Exchange
<1>3. rpcs[session] \in Seq(Rpc)
  BY <1>2, LedgerFacts DEF Inv, TypeOK
<1>4. Head(rpcs[session]) \in Rpc
  BY <1>1, <1>3, HeadAndTail
<1> QED
  BY <1>1, <1>4, CleanHere, ExtraCleanLedger

(* An event that is not retried has no record.                             *)
LEMMA NoRetryLedger ==
    ASSUME Owing, Ledger, event_remove_noretry_event_container
    PROVE  Ledger'
<1> DEFINE es == events[session]
           I == {i \in 1 .. Len(es) : es[i].code \in NoRetry}
<1>1. /\ pc = "fail" /\ pc' # "load" /\ UNCHANGED <<nextId, head, session, bkp, file>>
  BY DEF event_remove_noretry_event_container
<1>2. session \in Sid /\ events \in Lists /\ es \in Seq(Event) /\ nextId \in Nat
  BY <1>1, HeldSession, LedgerFacts DEF Exchange, Lists
<1>3. CASE I = {}
  <2>1. events' = events
    BY <1>3 DEF event_remove_noretry_event_container
  <2> QED
    BY <1>1, <2>1, CleanHere, StillLedger
<1>4. CASE I # {}
  <2>1. PICK m \in I : m = Min(I)
    <3>1. I \in SUBSET Nat
      BY <1>2, LenProperties
    <3> QED
      BY <1>4, <3>1, MinNat
  <2>2. m \in 1 .. Len(es) /\ es[m].code \in NoRetry
    BY <2>1
  <2> DEFINE new == RemoveAt(es, m)
  <2>3. events' = [events EXCEPT ![session] = new]
    <3>1. events' = [events EXCEPT ![session] = RemoveFirstOf(@, I)]
      BY <1>4 DEF event_remove_noretry_event_container
    <3>2. RemoveFirstOf(es, I) = new
      BY <1>4, <2>1 DEF RemoveFirstOf
    <3> QED
      BY <1>2, <3>1, <3>2 DEF Lists
  <2> HIDE DEF I
  <2>4. /\ new \in Seq(Event) /\ Len(new) = Len(es) - 1
        /\ \A j \in 1 .. Len(es) - 1 : new[j] = IF j < m THEN es[j] ELSE es[j + 1]
    BY <1>2, <2>2, RemoveAtProperties
  <2> HIDE DEF new
  <2>5. events' \in Lists /\ events'[session] = new /\ OthersSame(events, events', session)
    <3>1. /\ events' \in Lists /\ events'[session] = new
          /\ \A t \in Sid : t # session => events'[t] = events[t]
      BY <1>2, <2>3, <2>4 DEF Lists
    <3> QED
      BY <3>1 DEF OthersSame
  <2>6. Books(events, nextId, bkp.nodes, head) /\ OneEach(bkp.nodes)
    BY DEF Ledger, Books
  <2>7. ASSUME NEW n \in Records(bkp.nodes) PROVE n.id # events[session][m].id
    <3> SUFFICES ASSUME n.id = events[session][m].id PROVE FALSE
      OBVIOUS
    <3>1. PICK s \in Sid : \E e \in ToSet(events[s]) : Same(n, e)
      BY <2>6 DEF Books, Owned
    <3>2. PICK e \in ToSet(events[s]) : Same(n, e)
      BY <3>1
    <3>3. PICK k \in 1 .. Len(events[s]) : events[s][k] = e
      <4>1. events[s] \in Seq(Event)
        BY <1>2 DEF Lists
      <4> QED
        BY <4>1, ElementsOf
    <3>4. s = session /\ k = m
      <4>1. events[s][k].id = events[session][m].id
        BY <3>2, <3>3 DEF Same
      <4> QED
        BY <1>2, <2>2, <2>6, <4>1 DEF Books, Apart
    <3>5. n.code \in NoRetry
      BY <2>2, <3>2, <3>3, <3>4 DEF Same
    <3>6. n.code \in RetryAfterReboot
      <4>1. n \in ToSet(bkp.nodes) /\ n.name \in EventName
        BY DEF Records
      <4> QED
        BY <4>1, TreeFacts DEF NodesOK, NodeOK
    <3> QED
      BY <3>5, <3>6, RetriedCode
  <2>8. Books(events', nextId, bkp.nodes, head)
    BY <1>2, <2>2, <2>4, <2>5, <2>6, <2>7, BooksRemoved, SMTT(60)
  <2>9. Elsewhere'
    <3> SUFFICES ASSUME NEW t \in Sid, t # head, t # session PROVE events'[t] = <<>>
      BY <1>1 DEF Elsewhere
    <3>1. events[t] = <<>>
      BY DEF Ledger, Elsewhere
    <3> QED
      BY <2>5, <3>1 DEF OthersSame
  <2>10. FilePart'
    BY <1>1, CleanHere, RecordsSame, FileFollowed
  <2> QED
    BY <1>1, <2>8, <2>9, <2>10 DEF Ledger
<1> QED
  BY <1>3, <1>4

LEMMA ConverseLedger ==
    ASSUME Owing, Ledger, FewIds, Converse
    PROVE  Ledger'
<1>1. ASSUME \/ http_client_init \/ rpc_acs_failed \/ rpc_inform_answered \/ rpc_acs_done
             \/ xml_send_empty \/ xml_send_response \/ cwmp_handle_rpc_cpe_other \/ rpc_next
             \/ \E f \in {"FACTORY_RESET", "RELOAD"} : cwmp_handle_rpc_cpe_flag(f)
      PROVE  Ledger'
  <2>1. /\ pc \in {"init", "acs", "empty", "reply", "cpe", "next"} /\ pc' # "load"
        /\ UNCHANGED <<events, nextId, head, bkp, file, session>>
    BY <1>1 DEF http_client_init, rpc_acs_failed, rpc_inform_answered, rpc_acs_done,
       xml_send_empty, xml_send_response, cwmp_handle_rpc_cpe_other, rpc_next, AcsReplies,
       xml_handle_message, cwmp_handle_rpc_cpe_get_rpc_methods, cwmp_handle_rpc_cpe_fault,
       Respond, cwmp_handle_rpc_cpe_flag, Goto, Still, schedVars, queueVars
  <2> QED
    BY <2>1, CleanHere, StillLedger
<1>2. ASSUME NEW k \in CmdKey, cwmp_handle_rpc_cpe_reboot(k) PROVE Ledger'
  <2>1. pc = "cpe" /\ pc' = "reply" /\ session' = session /\ RaiseSaved(M_Reboot, k, QueuedRpcs)
    BY <1>2 DEF cwmp_handle_rpc_cpe_reboot, schedVars
  <2> QED
    BY <2>1, CodeTypes, RaiseSavedLedger
<1> QED
  BY <1>1, <1>2, AckLedger, AnsweredLedger, NoRetryLedger DEF Converse

-----------------------------------------------------------------------------
(* The steps that end a session.                                           *)

(* The failed session is queued again: its records get their old name.     *)
LEMMA RequeueLedger ==
    ASSUME Owing, Ledger, requeue_session
    PROVE  Ledger'
<1>1. /\ pc = "close" /\ pc' = "lock" /\ queue = <<>> /\ head' = session /\ session' = NULL
      /\ UNCHANGED <<events, nextId>>
      /\ bkp' = [bkp EXCEPT !.nodes = bkp_session_move_inform_to_inform_queue(@)]
      /\ file' = bkp'
  BY DEF requeue_session
<1>2. session \in Sid /\ head = NULL /\ NULL \notin Sid /\ events \in Lists
  BY <1>1, HeldSession, LedgerFacts DEF Inv, QueueShape
<1>3. bkp'.nodes = Rename(bkp.nodes, "send_event", "queue_event") /\ bkp.nodes \in Seq(Node)
  BY <1>1, NodesOf, LedgerFacts DEF bkp_session_move_inform_to_inform_queue
<1>4. \A s \in Sid : s # session => events[s] = <<>>
  BY <1>2 DEF Ledger, Elsewhere
<1>5. \A s \in Sid : events[s] # <<>> => Status(s, session) = "queue_event"
  BY <1>4 DEF Status
<1>6. Books(events, nextId, Rename(bkp.nodes, "send_event", "queue_event"), session)
  <2>1. Books(events, nextId, bkp.nodes, head) /\ EventName = {"send_event", "queue_event"}
    BY DEF Ledger, EventName
  <2> QED
    BY <1>2, <1>3, <1>5, <2>1, BooksRenamed
<1>7. Elsewhere'
  BY <1>1, <1>4 DEF Elsewhere
<1>8. FilePart'
  BY <1>1, FileWritten
<1> QED
  BY <1>1, <1>3, <1>6, <1>7, <1>8 DEF Ledger

LEMMA MergeEventLedger ==
    ASSUME Owing, Ledger, FewIds, merge_event
    PROVE  Ledger'
<1> DEFINE old == events[session][idx]
           s1 == AddEvent(Here, old.code, old.key)
           st == Spliced(s1, old.params)
<1>1. /\ pc = "merge" /\ pc' = pc /\ session' = session /\ idx <= Len(events[session])
      /\ Queued(Saved(st), QueuedRpcs)
      /\ bkp' = [bkp EXCEPT !.nodes = SavedNodes(st, bkp.nodes)]
      /\ file' = IF Persistent(st) THEN bkp' ELSE file
  BY DEF merge_event
<1>2. session \in Sid /\ events \in Lists /\ idx \in Nat \ {0}
  BY <1>1, HeldSession, LedgerFacts DEF Inv, Phase
<1>3. old \in Event
  <2>1. events[session] \in Seq(Event)
    BY <1>2 DEF Lists
  <2>2. Len(events[session]) \in Nat
    BY <2>1, LenProperties
  <2>3. idx \in 1 .. Len(events[session])
    BY <1>1, <1>2, <2>2
  <2> QED
    BY <2>1, <2>3, ElementOfSeq
<1> HIDE DEF old
<1>4. old.code \in EventCode /\ old.key \in Key /\ old.params \in SUBSET Params
  BY <1>3, EventFields
<1>5. Good(s1) /\ SectionBooks(s1, bkp.nodes)
  BY <1>4, FewIdsHere
<1> HIDE DEF s1
<1>6. Good(st) /\ SectionBooks(st, bkp.nodes)
  BY <1>4, <1>5, GoodSpliced, SectionBooksSpliced
<1> HIDE DEF st
<1>7. bkp'.nodes = SavedNodes(st, bkp.nodes) /\ bkp.nodes \in Seq(Node)
  BY <1>1, NodesOf, LedgerFacts
<1>8. SectionBooks(Saved(st), bkp'.nodes) /\ Good(Saved(st))
  BY <1>6, <1>7, SectionBooksSaved, GoodSaved
<1>9. FilePart'
  <2>1. CASE Persistent(st)
    BY <1>1, <2>1, FileWritten
  <2>2. CASE ~Persistent(st)
    <3>1. bkp'.nodes = bkp.nodes /\ file' = file
      BY <1>1, <1>7, <2>2 DEF SavedNodes
    <3> QED
      BY <1>1, <3>1, CleanHere, FileFollowed
  <2> QED
    BY <2>1, <2>2
<1> QED
  BY <1>1, <1>8, <1>9, QueuedLedger

LEMMA DestroyLedger ==
    ASSUME Owing, Ledger
    PROVE  /\ destroy_event => Ledger'
           /\ destroy_rpc => Ledger'
           /\ destroy_done => Ledger'
<1>0. ASSUME pc = "destroy"
      PROVE  /\ session \in Sid /\ Status(session, head) = "send_event"
             /\ rpcs[session] \in Seq(Rpc)
             /\ HasInform(rpcs[session]) \/ events[session] = <<>>
             /\ rpcs[session] # <<>> =>
                   /\ Head(rpcs[session]) \in Rpc
                   /\ HasInform(rpcs[session]) <=> Head(rpcs[session]).type = "Inform"
  <2>1. session \in Sid /\ Status(session, head) = "send_event"
    BY <1>0, HeldSession
  <2>2. rpcs[session] \in Seq(Rpc) /\ (HasInform(rpcs[session]) \/ events[session] = <<>>)
    BY <1>0, DestroyFacts
  <2> DEFINE rs == rpcs[session]
  <2>3. rs \in Seq(Rpc)
    BY <2>2
  <2> HIDE DEF rs
  <2>4. rs # <<>> => Head(rs) \in Rpc /\ (HasInform(rs) <=> Head(rs).type = "Inform")
    BY <2>3, HeadAndTail DEF HasInform
  <2> QED
    BY <2>1, <2>2, <2>4 DEF rs
<1>1. ASSUME destroy_event PROVE Ledger'
  <2>1. /\ pc = "destroy" /\ pc' = pc /\ UNCHANGED <<nextId, head, session, rpcs, file>>
        /\ events[session] # <<>> /\ rpcs[session] # <<>>
        /\ Head(rpcs[session]).type = "Inform"
        /\ events' = [events EXCEPT ![session] = Tail(events[session])]
        /\ bkp' = [bkp EXCEPT !.nodes =
              bkp_session_delete_event(bkp.nodes, Head(events[session]).id, "send_event")]
    BY <1>1, LedgerFacts DEF destroy_event, DropFirstEvent, schedVars, Lists
  <2>2. ~Clean' /\ pc' # "load"
    BY <1>0, <2>1 DEF Clean
  <2> QED
    BY <1>0, <2>1, <2>2, DropLedger
<1>2. ASSUME destroy_rpc PROVE Ledger'
  <2> DEFINE r == Head(rpcs[session])
  <2>1. /\ pc = "destroy" /\ pc' = pc /\ UNCHANGED <<events, nextId, head, session>>
        /\ rpcs[session] # <<>>
        /\ r.type = "Inform" => file' = bkp /\ bkp' = bkp
        /\ r.type # "Inform" => ExtraClean(r)
    BY <1>2 DEF destroy_rpc, schedVars
  <2>2. CASE r.type = "Inform"
    <3>1. FilePart'
      BY <2>1, <2>2, FileWritten
    <3> QED
      BY <2>1, <2>2, <3>1, RecordsSame, SameLedger
  <2>3. CASE r.type # "Inform"
    <3>1. r \in Rpc /\ Clean
      BY <1>0, <2>1, <2>3 DEF Clean
    <3> QED
      BY <2>1, <2>3, <3>1, ExtraCleanLedger
  <2> QED
    BY <2>2, <2>3
<1>3. ASSUME destroy_done PROVE Ledger'
  <2>1. /\ pc = "destroy" /\ pc' = "lock" /\ UNCHANGED <<nextId, head, bkp, file>>
        /\ rpcs[session] = <<>> /\ session' = NULL
        /\ events' = [events EXCEPT ![session] = <<>>]
    BY <1>3 DEF destroy_done
  <2>2. events[session] = <<>> /\ Clean
    BY <1>0, <2>1 DEF HasInform, Clean
  <2>3. events' = events
    BY <2>1, <2>2, LedgerFacts DEF Lists
  <2>4. Books(events', nextId', bkp'.nodes, head')
    BY <2>1, <2>3 DEF Ledger
  <2>5. Elsewhere'
    BY <2>1, <2>2, <2>3 DEF Ledger, Elsewhere
  <2>6. FilePart'
    BY <2>1, <2>2, FileFollowed
  <2> QED
    BY <2>1, <2>4, <2>5, <2>6 DEF Ledger
<1> QED
  BY <1>1, <1>2, <1>3

LEMMA CloseLedger ==
    ASSUME Owing, Ledger, FewIds, Close, pc' # "down"
    PROVE  Ledger'
<1>1. ASSUME \/ end_reload \/ end_other \/ end_clear \/ merge_begin \/ merge_events_done
             \/ merge_rpc \/ merge_rpcs_done \/ close_success
      PROVE  Ledger'
  <2>1. /\ pc \in {"endf", "ended", "close", "merge", "mergeRpc"} /\ pc' # "load"
        /\ UNCHANGED <<events, nextId, head, bkp, file, session>>
    BY <1>1 DEF end_reload, end_other, end_clear, merge_begin, merge_events_done, merge_rpc,
       merge_rpcs_done, close_success, Goto, Still, schedVars, queueVars
  <2> QED
    BY <2>1, CleanHere, StillLedger
<1>2. ~end_factory_reset /\ ~end_reboot
  BY DEF end_factory_reset, end_reboot, ProcessEnds
<1> QED
  BY <1>1, <1>2, RequeueLedger, MergeEventLedger, DestroyLedger DEF Close

-----------------------------------------------------------------------------
(* The steps of the start and of a reload.                                 *)

LEMMA StartingFacts ==
    ASSUME Owing, pc \in Starting
    PROVE  /\ pc \notin {"ack", "destroy"}
           /\ pc # "flush" => Clean
BY DEF Starting, Clean

LEMMA FlushLedger ==
    ASSUME Owing, Ledger
    PROVE  /\ bootstrap_flush => Ledger'
           /\ bootstrap_flushed => Ledger'
<1>1. ASSUME bootstrap_flush PROVE Ledger'
  <2>1. /\ pc = "flush" /\ pc' = pc /\ UNCHANGED <<nextId, head, session, file>>
        /\ head # NULL /\ events[head] # <<>>
        /\ events' = [events EXCEPT ![head] = Tail(events[head])]
        /\ bkp' = [bkp EXCEPT !.nodes =
              bkp_session_delete_event(bkp.nodes, Head(events[head]).id, "queue_event")]
    BY <1>1, LedgerFacts DEF bootstrap_flush, schedVars, Lists
  <2>2. head \in Sid /\ Status(head, head) = "queue_event"
    BY <2>1, LedgerFacts DEF Status
  <2>3. ~Clean' /\ pc' # "load"
    BY <2>1 DEF Clean
  <2> QED
    BY <2>1, <2>2, <2>3, DropLedger
<1>2. ASSUME bootstrap_flushed PROVE Ledger'
  <2>1. /\ pc = "flush" /\ pc' = "raise" /\ UNCHANGED <<events, nextId, head, session, bkp>>
        /\ file' = IF head = NULL THEN file ELSE bkp
    BY <1>2 DEF bootstrap_flushed, schedVars, queueVars
  <2>2. FilePart'
    <3>1. CASE head = NULL
      <4>1. Clean
        BY <2>1, <3>1 DEF Clean
      <4> QED
        BY <2>1, <3>1, <4>1, FileFollowed
    <3>2. CASE head # NULL
      BY <2>1, <3>2, FileWritten
    <3> QED
      BY <3>1, <3>2
  <2> QED
    BY <2>1, <2>2, RecordsSame, SameLedger
<1> QED
  BY <1>1, <1>2

LEMMA BootstrapLedger ==
    ASSUME Owing, Ledger, FewIds
    PROVE  /\ cwmp_root_cause_event_bootstrap => Ledger'
           /\ bootstrap_raise => Ledger'
           /\ bootstrap_url_changed => Ledger'
<1>0. \A u : [bkp EXCEPT !.acs = u].nodes = bkp.nodes
  BY LedgerFacts DEF Tree
<1>1. ASSUME cwmp_root_cause_event_bootstrap PROVE Ledger'
  <2>1. /\ pc = "bootstrap" /\ pc' # "load" /\ UNCHANGED <<events, nextId, head, session>>
        /\ \/ bkp' = [bkp EXCEPT !.acs = url] /\ file' = bkp'
           \/ UNCHANGED <<bkp, file>>
    BY <1>1 DEF cwmp_root_cause_event_bootstrap, schedVars, queueVars, AfterBootstrap
  <2>2. CASE bkp' = [bkp EXCEPT !.acs = url] /\ file' = bkp'
    <3>1. bkp'.nodes = bkp.nodes /\ FilePart'
      BY <1>0, <2>2, FileWritten
    <3> QED
      BY <2>1, <3>1, RecordsSame, SameLedger
  <2>3. CASE UNCHANGED <<bkp, file>>
    BY <2>1, <2>3, CleanHere, StillLedger
  <2> QED
    BY <2>1, <2>2, <2>3
<1>2. ASSUME bootstrap_raise PROVE Ledger'
  <2>1. /\ pc = "raise" /\ pc' # "load" /\ session' = session
        /\ RaiseSaved(BOOTSTRAP, "", QueuedRpcs)
    BY <1>2 DEF bootstrap_raise, schedVars, AfterBootstrap
  <2> QED
    BY <2>1, CodeTypes, RaiseSavedLedger
<1>3. ASSUME bootstrap_url_changed PROVE Ledger'
  <2> DEFINE s1 == AddEvent(Here, VALUE_CHANGE, "")
             st == Spliced(s1, {UrlParam})
  <2>1. /\ pc = "urlchange" /\ pc' # "load" /\ session' = session
        /\ Queued(st, QueuedRpcs)
        /\ bkp' = [bkp EXCEPT !.acs = url] /\ file' = bkp'
    BY <1>3 DEF bootstrap_url_changed, schedVars, AfterBootstrap
  <2>2. Good(s1) /\ SectionBooks(s1, bkp.nodes)
    BY CodeTypes, FewIdsHere
  <2> HIDE DEF s1
  <2>3. Good(st) /\ SectionBooks(st, bkp.nodes)
    <3>1. {UrlParam} \in SUBSET Params
      BY DEF Params
    <3> QED
      BY <2>2, <3>1, GoodSpliced, SectionBooksSpliced
  <2> HIDE DEF st
  <2>4. bkp'.nodes = bkp.nodes
    BY <1>0, <2>1
  <2> QED
    BY <2>1, <2>3, <2>4, RecordsSame, RaiseUnsavedLedger
<1> QED
  BY <1>1, <1>2, <1>3

LEMMA BootLedger ==
    ASSUME Owing, Ledger, FewIds
    PROVE  /\ cwmp_root_cause_event_boot => Ledger'
           /\ cwmp_root_cause_getRPCMethod => Ledger'
           /\ connection_request_port_value_change => Ledger'
<1>1. ASSUME cwmp_root_cause_event_boot PROVE Ledger'
  <2>1. /\ pc = "boot" /\ pc' = "grm" /\ session' = session
        /\ UNCHANGED <<queueVars, bkp, file>> \/ RaiseSaved(BOOT, "", QueuedRpcs)
    BY <1>1 DEF cwmp_root_cause_event_boot, schedVars
  <2>2. CASE UNCHANGED <<queueVars, bkp, file>>
    BY <2>1, <2>2, CleanHere, StillLedger DEF queueVars
  <2>3. CASE RaiseSaved(BOOT, "", QueuedRpcs)
    BY <2>1, <2>3, CodeTypes, RaiseSavedLedger
  <2> QED
    BY <2>1, <2>2, <2>3
<1>2. ASSUME cwmp_root_cause_getRPCMethod PROVE Ledger'
  <2> DEFINE rs == Append(QueuedRpcs, GetRPCMethods)
  <2>1. /\ pc = "grm" /\ pc' = "port" /\ session' = session
        /\ UNCHANGED <<queueVars, bkp, file>> \/ RaiseSaved(PERIODIC, "", rs)
    BY <1>2 DEF cwmp_root_cause_getRPCMethod, schedVars
  <2> HIDE DEF rs
  <2>2. CASE UNCHANGED <<queueVars, bkp, file>>
    BY <2>1, <2>2, CleanHere, StillLedger DEF queueVars
  <2>3. CASE RaiseSaved(PERIODIC, "", rs)
    BY <2>1, <2>3, CodeTypes, RaiseSavedLedger
  <2> QED
    BY <2>1, <2>2, <2>3
<1>3. ASSUME connection_request_port_value_change PROVE Ledger'
  <2> DEFINE st == AddEvent(Here, VALUE_CHANGE, "")
  <2>1. /\ pc = "port" /\ pc' = "lock" /\ session' = session
        /\ \/ UNCHANGED <<queueVars, bkp, file>>
           \/ file' = bkp /\ bkp' = bkp /\ (UNCHANGED queueVars \/ Queued(st, QueuedRpcs))
    BY <1>3 DEF connection_request_port_value_change, AddressSaved, AddressReported
  <2>2. Good(st) /\ SectionBooks(st, bkp.nodes)
    BY CodeTypes, FewIdsHere
  <2> HIDE DEF st
  <2>3. CASE UNCHANGED <<queueVars, bkp, file>>
    BY <2>1, <2>3, CleanHere, StillLedger DEF queueVars
  <2>4. CASE file' = bkp /\ bkp' = bkp /\ UNCHANGED queueVars
    <3>1. FilePart'
      BY <2>4, FileWritten
    <3> QED
      BY <2>1, <2>4, <3>1, RecordsSame, SameLedger DEF queueVars
  <2>5. CASE file' = bkp /\ bkp' = bkp /\ Queued(st, QueuedRpcs)
    BY <2>1, <2>2, <2>5, RecordsSame, RaiseUnsavedLedger
  <2> QED
    BY <2>1, <2>3, <2>4, <2>5
<1> QED
  BY <1>1, <1>2, <1>3

(* In the first life the file holds nothing yet when main reads it.        *)
LEMMA LoadLedger ==
    ASSUME Owing, Ledger
    PROVE  /\ ~load_queue_event /\ ~load_transfer_complete
           /\ load_done => Ledger'
<1>1. ASSUME pc = "load" PROVE Len(bkp.nodes) = 0 /\ idx \in Nat \ {0}
  <2>1. bkp.nodes = <<>> /\ idx \in Nat \ {0}
    BY <1>1, LedgerFacts DEF Ledger, Inv, Phase
  <2>2. Len(<<>>) = 0
    OBVIOUS
  <2> QED
    BY <2>1, <2>2
<1>2. ~load_queue_event /\ ~load_transfer_complete
  <2>1. load_queue_event \/ load_transfer_complete => pc = "load" /\ idx <= Len(bkp.nodes)
    BY DEF load_queue_event, load_transfer_complete
  <2> QED
    BY <1>1, <2>1
<1>3. ASSUME load_done PROVE Ledger'
  <2>1. /\ pc = "load" /\ pc' = "bootstrap"
        /\ UNCHANGED <<events, nextId, head, bkp, file, session>>
    BY <1>3 DEF load_done, Goto, Still, schedVars, queueVars
  <2> QED
    BY <2>1, CleanHere, StillLedger
<1> QED
  BY <1>2, <1>3

LEMMA StartLedger ==
    ASSUME Owing, Ledger, FewIds, Start, pc # "down"
    PROVE  Ledger'
BY FlushLedger, BootstrapLedger, BootLedger, LoadLedger DEF Start, restart

-----------------------------------------------------------------------------
(* The invariant: in its first life, before the process first ends.        *)
RecordPart == restarts = 0 /\ pc # "down" => Ledger

LEMMA InitLedger ==
    ASSUME Init
    PROVE  RecordPart
<1>1. /\ events = [s \in Sid |-> <<>>] /\ nextId = 0 /\ head = NULL
      /\ bkp = EmptyTree /\ file = EmptyTree /\ pc = "load"
  BY DEF Init
<1>2. ToSet(<<>>) = {} /\ Len(<<>>) = 0 /\ EmptyTree.nodes = <<>>
  BY DEF ToSet, EmptyTree
<1>3. \A s \in Sid : events[s] = <<>>
  BY <1>1
<1>4. Numbered(events, nextId) /\ Apart(events) /\ OneEach(bkp.nodes)
  BY <1>1, <1>2, <1>3 DEF Numbered, Apart, OneEach
<1>5. Kept(events, bkp.nodes) /\ Owned(events, bkp.nodes, head)
  BY <1>1, <1>2, <1>3 DEF Kept, Owned, Records
<1>6. Elsewhere /\ FilePart
  BY <1>1, <1>3 DEF Elsewhere, FilePart
<1>7. Ledger
  BY <1>1, <1>2, <1>4, <1>5, <1>6 DEF Ledger, Books
<1> QED
  BY <1>7 DEF RecordPart

LEMMA StutterLedger ==
    ASSUME Ledger, UNCHANGED vars
    PROVE  Ledger'
<1>1. UNCHANGED <<events, nextId, bkp, file, head, session, pc, rpcs>>
  BY DEF vars, queueVars, schedVars
<1>2. FilePart' /\ Elsewhere'
  BY <1>1 DEF Ledger, FilePart, Elsewhere, Clean
<1>3. Books(events', nextId', bkp'.nodes, head')
  BY <1>1 DEF Ledger
<1> QED
  BY <1>1, <1>2, <1>3 DEF Ledger

(* Only a restart leaves "down", and it is counted.                        *)
LEMMA LifeBefore ==
    ASSUME Owing, Next, restarts' = 0, pc' # "down"
    PROVE  restarts = 0 /\ pc # "down"
<1>1. restarts \in Nat
  BY LedgerFacts DEF Inv, TypeOK
<1>2. ASSUME restart PROVE FALSE
  BY <1>1, <1>2 DEF restart
<1>3. pc # "down"
  <2> SUFFICES ASSUME pc = "down" PROVE FALSE
    OBVIOUS
  <2>1. ~Produce
    BY DEF Produce, thread_event_periodic, http_success_cr, cwmp_handle_inform,
       cwmp_handle_inform_grm, netlink_new_msg, freecwmp_netlink_interface,
       connection_request_ip_value_change, cwmp_root_cause_event_ipdiagnostic,
       cwmp_add_notification, cwmp_add_notification_active, scheduleInform_due,
       transfer_finished, transfer_fault, transfer_expired, transfer_silent,
       cwmp_handle_command, Producer, Up
  <2>2. ~Schedule
    BY DEF Schedule, sched_lock, sched_sleep, sched_timeout, sched_woken,
       cwmp_prepare_value_change, cwmp_move_session_to_session_send
  <2>3. ~Converse
    BY DEF Converse, http_client_init, rpc_acs_failed, rpc_inform_answered, rpc_acs_answered,
       rpc_acs_done, event_remove_all_event_container, xml_send_empty, xml_send_response,
       cwmp_handle_rpc_cpe_reboot, cwmp_handle_rpc_cpe_flag, cwmp_handle_rpc_cpe_other,
       cwmp_handle_rpc_cpe_get_rpc_methods, cwmp_handle_rpc_cpe_fault, rpc_next,
       event_remove_noretry_event_container
  <2>4. ~Close
    BY DEF Close, end_factory_reset, end_reboot, end_reload, end_other, end_clear,
       requeue_session, merge_begin, merge_event, merge_events_done, merge_rpc,
       merge_rpcs_done, close_success, destroy_event, destroy_rpc, destroy_done
  <2>5. ~Start
    BY <1>2 DEF Start, load_queue_event, load_transfer_complete, load_done,
       cwmp_root_cause_event_bootstrap, bootstrap_flush, bootstrap_flushed, bootstrap_raise,
       bootstrap_url_changed, cwmp_root_cause_event_boot, cwmp_root_cause_getRPCMethod,
       connection_request_port_value_change
  <2>6. ~crash /\ \A c \in TransferCode, k \in CmdKey : ~transfer_exit(c, k)
    BY DEF crash, transfer_exit, Up
  <2> QED
    BY <2>1, <2>2, <2>3, <2>4, <2>5, <2>6 DEF Next
<1>4. restarts = 0
  <2>1. ~crash /\ \A c \in TransferCode, k \in CmdKey : ~transfer_exit(c, k)
    BY DEF crash, transfer_exit, ProcessEnds
  <2>2. ~end_factory_reset /\ ~end_reboot
    BY DEF end_factory_reset, end_reboot, ProcessEnds
  <2>3. Produce => restarts' = restarts
    BY DEF Produce, thread_event_periodic, http_success_cr, cwmp_handle_inform,
       cwmp_handle_inform_grm, netlink_new_msg, freecwmp_netlink_interface,
       connection_request_ip_value_change, cwmp_root_cause_event_ipdiagnostic,
       cwmp_add_notification, cwmp_add_notification_active, scheduleInform_due,
       transfer_finished, transfer_fault, transfer_expired, transfer_silent,
       cwmp_handle_command, Producer
  <2>4. Schedule => restarts' = restarts
    BY DEF Schedule, sched_lock, sched_sleep, sched_timeout, sched_woken,
       cwmp_prepare_value_change, cwmp_move_session_to_session_send, Still, Calm
  <2>5. Converse => restarts' = restarts
    BY DEF Converse, http_client_init, rpc_acs_failed, rpc_inform_answered, rpc_acs_answered,
       rpc_acs_done, event_remove_all_event_container, xml_send_empty, xml_send_response,
       cwmp_handle_rpc_cpe_reboot, cwmp_handle_rpc_cpe_flag, cwmp_handle_rpc_cpe_other,
       cwmp_handle_rpc_cpe_get_rpc_methods, cwmp_handle_rpc_cpe_fault, Respond, rpc_next,
       event_remove_noretry_event_container, Goto, Still, Calm
  <2>6. Close => restarts' = restarts
    BY <2>2 DEF Close, end_reload, end_other, end_clear,
       requeue_session, merge_begin, merge_event, merge_events_done, merge_rpc,
       merge_rpcs_done, close_success, destroy_event, destroy_rpc, destroy_done,
       Goto, Still, Calm
  <2>7. Start => restarts' = restarts
    BY <1>2 DEF Start, load_queue_event, load_transfer_complete, load_done,
       cwmp_root_cause_event_bootstrap, bootstrap_flush, bootstrap_flushed, bootstrap_raise,
       bootstrap_url_changed, cwmp_root_cause_event_boot, cwmp_root_cause_getRPCMethod,
       connection_request_port_value_change, Goto, Still, Calm
  <2> QED
    BY <2>1, <2>3, <2>4, <2>5, <2>6, <2>7 DEF Next
<1> QED
  BY <1>3, <1>4

LEMMA NextRecords ==
    ASSUME Owing, RecordPart, FewIds, [Next]_vars
    PROVE  RecordPart'
<1>1. ASSUME UNCHANGED vars PROVE RecordPart'
  <2>1. UNCHANGED <<restarts, pc>>
    BY <1>1 DEF vars
  <2> QED
    BY <1>1, <2>1, StutterLedger DEF RecordPart
<1>2. ASSUME Next PROVE RecordPart'
  <2> SUFFICES ASSUME restarts' = 0, pc' # "down" PROVE Ledger'
    BY DEF RecordPart
  <2>1. pc # "down" /\ Ledger
    BY <1>2, LifeBefore DEF RecordPart
  <2>2. ~crash /\ \A c \in TransferCode, k \in CmdKey : ~transfer_exit(c, k)
    BY DEF crash, transfer_exit, ProcessEnds
  <2> QED
    BY <1>2, <2>1, <2>2, ProduceLedger, ScheduleLedger, ConverseLedger, CloseLedger,
       StartLedger DEF Next
<1> QED
  BY <1>1, <1>2

-----------------------------------------------------------------------------
(* Until the process first ends, the books of the events are in order:     *)
(* each record of the tree is that of one event, each event that was saved *)
(* has its record, and the file has the records of the tree                *)
(* (event.c:84-170, backupSession.c:92-197, 1684-1725).                    *)
THEOREM RecordInvariant == Spec /\ []FewIds => []RecordPart
<1>1. Init => RecordPart
  BY InitLedger
<1>2. Owing /\ RecordPart /\ FewIds /\ [Next]_vars => RecordPart'
  BY NextRecords
<1> QED
  BY <1>1, <1>2, OwingInvariant, PTL DEF Spec

(* Until the first restart, an event that cwmp_save_event_container        *)
(* promised to keep has a record of its own in the file as long as it is   *)
(* pending, through failures, merges and answers                           *)
(* (event.c:170-207, backupSession.c:162-197, cwmp.c:443-506).             *)
THEOREM DurableHolds == Spec /\ []FewIds => []Durable
<1>1. ASSUME Owing, RecordPart PROVE Durable
  <2> SUFFICES ASSUME restarts = 0, NEW s \in Live, NEW i \in 1 .. Len(events[s]),
                      events[s][i].saved
               PROVE  InFile(events[s][i])
    BY DEF Durable
  <2>1. pc # "down"
    <3> SUFFICES ASSUME pc = "down" PROVE FALSE
      OBVIOUS
    <3>1. queue = <<>> /\ session = NULL /\ send = NULL
      BY <1>1, LedgerFacts DEF Owing, LoadPart, Inv, Phase
    <3>2. ToSet(queue) = {}
      BY <3>1 DEF ToSet
    <3> QED
      BY <3>1, <3>2 DEF Live
  <2>2. Ledger
    BY <1>1, <2>1 DEF RecordPart
  <2>3. s \in Sid /\ events \in Lists
    BY <1>1, LedgerFacts, OwingFacts
  <2>4. events[s] \in Seq(Event)
    BY <2>3 DEF Lists
  <2> DEFINE e == events[s][i]
  <2>5. e \in ToSet(events[s])
    BY <2>4, ElementsOf
  <2>6. PICK n \in Records(bkp.nodes) : Same(n, e)
    BY <2>2, <2>3, <2>5 DEF Ledger, Books, Kept
  <2>7. n \in Records(file.nodes)
    BY <2>2, <2>6 DEF Ledger, FilePart
  <2>8. PICK j \in 1 .. Len(file.nodes) : file.nodes[j] = n
    <3>1. file.nodes \in Seq(Node) /\ n \in ToSet(file.nodes)
      BY <1>1, <2>7, TreeFacts DEF Records
    <3> QED
      BY <3>1, ElementsOf
  <2>9. n.name \in EventName /\ n.id = e.id /\ n.code = e.code /\ n.key = e.key
    BY <2>6 DEF Records, Same
  <2> QED
    BY <2>8, <2>9 DEF InFile
<1> QED
  BY <1>1, OwingInvariant, RecordInvariant, PTL

(* Until the first restart, between two sessions, every event record of    *)
(* the file is that of a pending event: what the ACS answered, and what is *)
(* not retried, is not repeated after a reboot                             *)
(* (event.c:394-437, backupSession.c:110-131, cwmp.c:183-246).             *)
THEOREM NoReplayHolds == Spec /\ []FewIds => []NoReplay
<1>1. ASSUME Owing, RecordPart PROVE NoReplay
  <2> SUFFICES ASSUME restarts = 0, pc \in Idle,
                      NEW n \in ToSet(file.nodes), n.name \in EventName
               PROVE  \E s \in Live : \E e \in ToSet(events[s]) :
                          e.id = n.id /\ e.code = n.code /\ e.key = n.key
    BY DEF NoReplay
  <2>1. Ledger /\ Clean
    BY <1>1, CleanHere DEF RecordPart, Idle
  <2>2. n \in Records(bkp.nodes)
    BY <2>1 DEF Ledger, FilePart, Records
  <2>3. PICK s \in Sid : \E e \in ToSet(events[s]) : Same(n, e)
    BY <2>1, <2>2 DEF Ledger, Books, Owned
  <2>4. PICK e \in ToSet(events[s]) : Same(n, e)
    BY <2>3
  <2>5. s = head \/ s = session
    BY <2>1, <2>4 DEF Ledger, Elsewhere, ToSet
  <2>6. s \in Live
    <3>1. s # NULL
      BY SidAssumption
    <3>2. head # NULL => head \in ToSet(queue)
      <4>1. head # NULL => queue # <<>>
        BY <1>1, LedgerFacts DEF Inv, QueueShape
      <4> QED
        BY <1>1, <4>1, LedgerFacts, SingleQueue
    <3> QED
      BY <2>5, <3>1, <3>2 DEF Live
  <2> QED
    BY <2>4, <2>6 DEF Same
<1> QED
  BY <1>1, OwingInvariant, RecordInvariant, PTL
=============================================================================
