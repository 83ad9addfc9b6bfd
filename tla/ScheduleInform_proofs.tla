------------------------ MODULE ScheduleInform_proofs ------------------------
(***************************************************************************)
(* The list of ScheduleInform entries stays in order, within its limit and *)
(* complete, for any requests, limits and delays, at any number of crashes *)
(* and removals.                                                           *)
(***************************************************************************)
EXTENDS ScheduleInform, SequenceLemmas, FiniteSetTheorems

(* Entries are numbered as they are accepted, and those everywhere else    *)
(* were accepted.                                                          *)
Numbered ==
    /\ IsFiniteSet(accepted)
    /\ \A e \in accepted : e.id <= Cardinality(accepted)
    /\ \A e, x \in accepted : e.id = x.id => e = x
Known ==
    /\ ToSet(list) \union ToSet(tree) \union ToSet(file) \subseteq accepted
    /\ cur = None \/ cur \in accepted

(* No two records are found by the same key and time.                      *)
Apart(t) == \A i, j \in DOMAIN t : i # j => ~Same(t[i], t[j])

(* A running process has every record in its list; one that loads has put  *)
(* the first ones there, and nothing has changed since the start.          *)
Tracked ==
    /\ IF up THEN ToSet(tree) \subseteq ToSet(list) /\ pc \notin {"down", "load"}
       ELSE tree = file /\ pc \in {"down", "load"} /\ ~removing
    /\ pc = "down" => list = <<>> /\ restarts < MaxRestarts
    /\ pc = "load" => /\ restarts # 0
                      /\ Len(list) <= Len(file)
                      /\ \A i \in 1 .. Len(list) : file[i] \in ToSet(list)

(* Where the thread deals with an entry it is due, and what was raised was *)
(* due.                                                                    *)
Due ==
    /\ pc \in {"drop", "raise", "raising", "unlink"} => cur \in accepted /\ cur.time <= now
    /\ pc = "unlink" => raised[cur.id] > 0
    /\ \A i \in Id : raised[i] > 0 => \E e \in accepted : e.id = i /\ e.time <= now

(* A thread that has nothing due has no record of a reported entry.        *)
Settled ==
    pc \in {"towait", "waiting", "tosleep", "sleeping"} =>
        \A e \in ToSet(tree) \union ToSet(file) : raised[e.id] = 0

(* The count covers the list and an entry that was removed from it while   *)
(* the thread was about to raise it.                                       *)
Counted ==
    restarts = 0 =>
        /\ Len(list) <= count /\ count <= MaxQueue
        /\ pc \in {"raise", "raising", "unlink"} /\ cur \notin ToSet(list) => Len(list) < count

(* An entry is dealt with, or in the list, the tree and the file.          *)
Dealt(e) == e.id \in dropped \union removed \/ raised[e.id] > 0
Kept ==
    \A e \in accepted \ Twins :
        Dealt(e) \/ (e \in ToSet(tree) /\ e \in ToSet(file) /\ (up => e \in ToSet(list)))

InformInv ==
    /\ TypeOK /\ Sorted
    /\ Numbered /\ Known /\ Apart(tree) /\ Apart(file)
    /\ Tracked /\ Due /\ Settled /\ Counted /\ Kept

-----------------------------------------------------------------------------
(* Lists in order, and records apart.                                      *)
InOrder(s) == \A i, j \in DOMAIN s : i < j => s[i].time <= s[j].time

LEMMA EntryFields ==
    ASSUME NEW e \in Entry
    PROVE  e.id \in Id /\ e.id \in Nat /\ e.key \in Keys /\ e.time \in 1 .. MaxTime /\ e.time \in Nat
BY InformAssumption DEF Entry, Id

LEMMA PickedInOrder ==
    ASSUME NEW s, NEW t, Picked(t, s), InOrder(s)
    PROVE  InOrder(t)
BY DEF Picked, InOrder

LEMMA PickedApart ==
    ASSUME NEW s \in Seq(Entry), NEW t \in Seq(Entry), Picked(t, s), Apart(s)
    PROVE  Apart(t)
<1> SUFFICES ASSUME NEW i \in DOMAIN t, NEW j \in DOMAIN t, i # j PROVE ~Same(t[i], t[j])
  BY DEF Apart
<1>1. i \in Nat /\ j \in Nat
  BY ElementsOf
<1>2. CASE i < j
  <2>1. PICK a \in DOMAIN s, b \in DOMAIN s : a < b /\ t[i] = s[a] /\ t[j] = s[b]
    BY <1>2 DEF Picked
  <2> QED
    BY <2>1, ElementsOf DEF Apart
<1>3. CASE j < i
  <2>1. PICK a \in DOMAIN s, b \in DOMAIN s : a < b /\ t[j] = s[a] /\ t[i] = s[b]
    BY <1>3 DEF Picked
  <2> QED
    BY <2>1, ElementsOf DEF Apart
<1> QED
  BY <1>1, <1>2, <1>3

(* The handler inserts before entries of the same time, the load after     *)
(* them; both keep the order.                                              *)
LEMMA InsertedInOrder ==
    ASSUME NEW s \in Seq(Entry), NEW e \in Entry, NEW time \in {e.time, e.time + 1}, InOrder(s)
    PROVE  /\ InsertBefore(s, e, time) \in Seq(Entry)
           /\ Len(InsertBefore(s, e, time)) = Len(s) + 1
           /\ ToSet(InsertBefore(s, e, time)) = ToSet(s) \union {e}
           /\ InOrder(InsertBefore(s, e, time))
<1> DEFINE I == {i \in 1 .. Len(s) : s[i].time >= time}
           t == InsertBefore(s, e, time)
<1>1. /\ Len(s) \in Nat /\ DOMAIN s = 1 .. Len(s) /\ I \in SUBSET Nat
      /\ \A i \in 1 .. Len(s) : s[i] \in Entry /\ s[i].time \in Nat
      /\ e.time \in Nat /\ time \in Nat
  BY EntryFields, LenProperties, ElementOfSeq
<1>2. CASE I = {}
  <2>1. t = Append(s, e)
    BY <1>1, <1>2 DEF InsertBefore, SelectInSeq
  <2>2. /\ t \in Seq(Entry) /\ Len(t) = Len(s) + 1 /\ ToSet(t) = ToSet(s) \union {e}
        /\ \A i \in 1 .. Len(s) : t[i] = s[i]
        /\ t[Len(s) + 1] = e
    BY <2>1, ElementsAppended
  <2>3. \A i \in 1 .. Len(s) : s[i].time <= e.time
    BY <1>1, <1>2
  <2>4. InOrder(t)
    <3> HIDE DEF t
    <3> SUFFICES ASSUME NEW i \in 1 .. Len(s) + 1, NEW j \in 1 .. Len(s) + 1, i < j
                 PROVE  t[i].time <= t[j].time
      BY <2>2, ElementsOf DEF InOrder
    <3>1. t[i] = s[i] /\ i \in 1 .. Len(s) /\ t[j] = IF j = Len(s) + 1 THEN e ELSE s[j]
      <4>1. i \in 1 .. Len(s) /\ (j # Len(s) + 1 => j \in 1 .. Len(s))
        BY <1>1
      <4> QED
        BY <2>2, <4>1
    <3> QED
      BY <1>1, <2>3, <3>1, SMTT(60) DEF InOrder
  <2> QED
    BY <2>2, <2>4
<1>3. CASE I # {}
  <2>1. PICK a \in 1 .. Len(s) : a = Min(I) /\ s[a].time >= time /\ \A i \in I : a <= i
    BY <1>1, <1>3, MinNat, ZenonT(90)
  <2>2. t = InsertAt(s, a, e)
    BY <1>1, <1>3, <2>1 DEF InsertBefore, SelectInSeq
  <2>3. /\ t \in Seq(Entry) /\ Len(t) = Len(s) + 1 /\ ToSet(t) = ToSet(s) \union {e}
        /\ \A j \in 1 .. Len(s) + 1 : t[j] = IF j < a THEN s[j] ELSE IF j = a THEN e ELSE s[j - 1]
    <3> HIDE DEF t, I
    <3>1. a \in 1 .. Len(s) + 1
      BY <1>1
    <3>2. /\ t \in Seq(Entry) /\ Len(t) = Len(s) + 1
          /\ \A j \in 1 .. Len(s) + 1 : t[j] = IF j < a THEN s[j] ELSE IF j = a THEN e ELSE s[j - 1]
      BY <2>2, <3>1, InsertAtProperties, SMTT(60)
    <3>3. ToSet(t) = ToSet(s) \union {e}
      BY <2>2, <3>1, ElementsInserted
    <3> QED
      BY <3>2, <3>3
  <2>4. \A i \in 1 .. Len(s) : IF i < a THEN s[i].time <= e.time ELSE e.time <= s[i].time
    <3>1. \A i \in 1 .. Len(s) : i < a => s[i].time < time
      BY <1>1, <2>1
    <3>2. \A i \in 1 .. Len(s) : ~(i < a) => s[a].time <= s[i].time
      BY <1>1, <2>1 DEF InOrder
    <3> QED
      BY <1>1, <2>1, <3>1, <3>2
  <2>5. InOrder(t)
    <3> HIDE DEF t, I
    <3> SUFFICES ASSUME NEW i \in 1 .. Len(s) + 1, NEW j \in 1 .. Len(s) + 1, i < j
                 PROVE  t[i].time <= t[j].time
      BY <2>3, ElementsOf DEF InOrder
    <3>1. CASE j < a
      <4>1. t[i] = s[i] /\ i \in 1 .. Len(s) /\ t[j] = s[j] /\ j \in 1 .. Len(s)
        BY <1>1, <2>1, <2>3, <3>1
      <4> QED
        BY <1>1, <4>1 DEF InOrder
    <3>2. CASE j = a
      BY <1>1, <2>1, <2>3, <2>4, <3>2
    <3>3. CASE j > a /\ i < a
      <4>1. t[i] = s[i] /\ i \in 1 .. Len(s) /\ t[j] = s[j - 1] /\ j - 1 \in 1 .. Len(s) /\ i < j - 1
        BY <1>1, <2>1, <2>3, <3>3
      <4> QED
        BY <1>1, <4>1 DEF InOrder
    <3>4. CASE i = a
      <4>1. t[i] = e /\ t[j] = s[j - 1] /\ j - 1 \in 1 .. Len(s) /\ ~(j - 1 < a)
        BY <1>1, <2>1, <2>3, <3>4
      <4> QED
        BY <2>4, <4>1
    <3>5. CASE i > a
      <4>1. t[i] = s[i - 1] /\ i - 1 \in 1 .. Len(s) /\ t[j] = s[j - 1] /\ j - 1 \in 1 .. Len(s) /\ i - 1 < j - 1
        BY <1>1, <2>1, <2>3, <3>5
      <4> QED
        BY <1>1, <4>1 DEF InOrder
    <3> QED
      BY <1>1, <2>1, <3>1, <3>2, <3>3, <3>4, <3>5
  <2> QED
    BY <2>3, <2>5
<1> QED
  BY <1>2, <1>3

LEMMA RecordInserted ==
    ASSUME NEW t \in Seq(Entry), NEW e \in Entry, Apart(t)
    PROVE  /\ bkp_session_insert_schedule_inform(t, e) \in Seq(Entry)
           /\ Apart(bkp_session_insert_schedule_inform(t, e))
           /\ ToSet(t) \subseteq ToSet(bkp_session_insert_schedule_inform(t, e))
           /\ ToSet(bkp_session_insert_schedule_inform(t, e)) \subseteq ToSet(t) \union {e}
           /\ \/ \E x \in ToSet(t) : Same(x, e)
              \/ e \in ToSet(bkp_session_insert_schedule_inform(t, e))
<1>1. CASE \E x \in ToSet(t) : Same(x, e)
  BY <1>1 DEF bkp_session_insert_schedule_inform
<1>2. CASE ~\E x \in ToSet(t) : Same(x, e)
  <2> DEFINE u == Append(t, e)
  <2>1. bkp_session_insert_schedule_inform(t, e) = u
    BY <1>2 DEF bkp_session_insert_schedule_inform
  <2>2. /\ u \in Seq(Entry) /\ ToSet(u) = ToSet(t) \union {e} /\ Len(u) = Len(t) + 1
        /\ \A i \in 1 .. Len(t) : u[i] = t[i]
        /\ u[Len(t) + 1] = e
    BY ElementsAppended
  <2> HIDE DEF u
  <2>3. /\ Len(t) \in Nat /\ DOMAIN t = 1 .. Len(t) /\ DOMAIN u = 1 .. Len(t) + 1
        /\ \A i \in 1 .. Len(t) : ~Same(t[i], e) /\ ~Same(e, t[i])
    BY <1>2, <2>2, ElementsOf DEF Same
  <2>4. Apart(u)
    <3> SUFFICES ASSUME NEW i \in 1 .. Len(t) + 1, NEW j \in 1 .. Len(t) + 1, i # j
                 PROVE  ~Same(u[i], u[j])
      BY <2>3 DEF Apart
    <3>1. CASE i = Len(t) + 1
      BY <2>2, <2>3, <3>1
    <3>2. CASE j = Len(t) + 1
      BY <2>2, <2>3, <3>2
    <3>3. CASE i # Len(t) + 1 /\ j # Len(t) + 1
      <4>1. i \in 1 .. Len(t) /\ j \in 1 .. Len(t)
        BY <2>3, <3>3
      <4> QED
        BY <2>2, <2>3, <4>1 DEF Apart
    <3> QED
      BY <3>1, <3>2, <3>3
  <2> QED
    BY <2>1, <2>2, <2>4
<1> QED
  BY <1>1, <1>2

LEMMA RecordDeleted ==
    ASSUME NEW t \in Seq(Entry), NEW e \in Entry, Apart(t)
    PROVE  /\ bkp_session_delete_schedule_inform(t, e) \in Seq(Entry)
           /\ Apart(bkp_session_delete_schedule_inform(t, e))
           /\ ToSet(bkp_session_delete_schedule_inform(t, e)) \subseteq ToSet(t)
           /\ \A x \in ToSet(t) : ~Same(x, e) => x \in ToSet(bkp_session_delete_schedule_inform(t, e))
           /\ \A x \in ToSet(bkp_session_delete_schedule_inform(t, e)) : ~Same(x, e)
<1> DEFINE I == {i \in 1 .. Len(t) : Same(t[i], e)}
           u == bkp_session_delete_schedule_inform(t, e)
<1>1. /\ Len(t) \in Nat /\ DOMAIN t = 1 .. Len(t) /\ I \in SUBSET Nat
      /\ \A x : x \in ToSet(t) <=> \E i \in 1 .. Len(t) : t[i] = x
  BY ElementsOf
<1>2. CASE I = {}
  <2>1. u = t
    BY <1>1, <1>2 DEF bkp_session_delete_schedule_inform, SelectInSeq
  <2> QED
    BY <1>1, <1>2, <2>1
<1>3. CASE I # {}
  <2>1. PICK a \in 1 .. Len(t) : a = Min(I) /\ Same(t[a], e)
    BY <1>1, <1>3, MinNat
  <2>2. u = RemoveAt(t, a)
    BY <1>1, <1>3, <2>1 DEF bkp_session_delete_schedule_inform, SelectInSeq
  <2> HIDE DEF u, I
  <2>3. /\ u \in Seq(Entry) /\ Picked(u, t) /\ ToSet(u) \subseteq ToSet(t)
        /\ \A x \in ToSet(t) : x # t[a] => x \in ToSet(u)
        /\ \A x \in ToSet(u) : \E j \in 1 .. Len(t) : j # a /\ t[j] = x
    BY <2>2, RemoveAtProperties, ElementsRemoved, ZenonT(90)
  <2>4. Apart(u)
    BY <2>3, PickedApart
  <2>5. ASSUME NEW x \in ToSet(u) PROVE ~Same(x, e)
    <3>1. PICK j \in 1 .. Len(t) : j # a /\ t[j] = x
      BY <2>3
    <3>2. ~Same(t[j], t[a])
      BY <1>1, <3>1 DEF Apart
    <3> QED
      BY <2>1, <3>1, <3>2 DEF Same
  <2>6. ASSUME NEW x \in ToSet(t), ~Same(x, e) PROVE x \in ToSet(u)
    BY <2>1, <2>3, <2>6
  <2> QED
    BY <2>3, <2>4, <2>5, <2>6 DEF u
<1> QED
  BY <1>2, <1>3

-----------------------------------------------------------------------------
(* The facts every step starts from.                                       *)
LEMMA InvFacts ==
    ASSUME InformInv
    PROVE  /\ list \in Seq(Entry) /\ tree \in Seq(Entry) /\ file \in Seq(Entry)
           /\ InOrder(list) /\ Apart(tree) /\ Apart(file)
           /\ ToSet(list) \subseteq accepted /\ ToSet(tree) \subseteq accepted
           /\ ToSet(file) \subseteq accepted /\ accepted \subseteq Entry
           /\ \A e \in accepted : e.id \in Id /\ raised[e.id] \in Nat /\ e.time \in Nat
           /\ Len(list) \in Nat /\ count \in Int /\ MaxQueue \in Nat
           /\ now \in Nat /\ MaxTime \in Nat
BY EntryFields, ElementsOf, InformAssumption DEF InformInv, TypeOK, Sorted, InOrder, Known

LEMMA InformInitInv == Init => InformInv
<1> SUFFICES ASSUME Init PROVE InformInv
  OBVIOUS
<1>1. <<>> \in Seq(Entry) /\ ToSet(<<>>) = {} /\ Len(<<>>) = 0
  BY DEF ToSet
<1>2. TypeOK
  <2>1. raised \in [Id -> Nat] /\ now \in 1 .. MaxTime /\ restarts \in 0 .. MaxRestarts
    BY InformAssumption DEF Init
  <2>2. list \in Seq(Entry) /\ tree \in Seq(Entry) /\ file \in Seq(Entry)
    BY <1>1 DEF Init
  <2>3. pc \in ThreadPc /\ cur \in Entry \union {None} /\ answer \in {"ok", "invalid", "resources"}
    BY DEF Init, ThreadPc
  <2>4. same \in BOOLEAN /\ removing \in BOOLEAN /\ up \in BOOLEAN
    BY Zenon DEF Init
  <2>5. count \in Int /\ accepted \subseteq Entry /\ dropped \subseteq Id /\ removed \subseteq Id
    BY DEF Init
  <2> QED
    BY <2>1, <2>2, <2>3, <2>4, <2>5 DEF TypeOK
<1>3. IsFiniteSet(accepted)
  BY FS_EmptySet DEF Init
<1>4. Numbered /\ Known /\ Tracked /\ Due /\ Settled /\ Kept
  BY <1>1, <1>3 DEF Init, Numbered, Known, Tracked, Due, Settled, Kept, Id
<1>5. Apart(tree) /\ Apart(file) /\ Sorted /\ Counted
  BY <1>1, InformAssumption DEF Init, Apart, Sorted, Counted
<1> QED
  BY <1>2, <1>4, <1>5 DEF InformInv

(* A request is accepted.                                                  *)
LEMMA HandlerInv ==
    ASSUME InformInv, NEW key \in Keys, NEW delay \in Delays,
           cwmp_handle_rpc_cpe_schedule_inform(key, delay)
    PROVE  InformInv'
<1> DEFINE e == [id |-> Cardinality(accepted) + 1, key |-> key, time |-> now + delay]
<1>0. /\ up /\ ~removing /\ answer' \in {"ok", "invalid", "resources"}
      /\ UNCHANGED <<now, cur, same, removing, up, restarts, raised, dropped, removed>>
  BY DEF cwmp_handle_rpc_cpe_schedule_inform, Fault
<1>1. CASE answer' # "ok"
  <2>1. UNCHANGED <<list, count, pc, tree, file, accepted>>
    BY <1>1 DEF cwmp_handle_rpc_cpe_schedule_inform
  <2> QED
    BY <1>0, <2>1 DEF InformInv, TypeOK, Sorted, Numbered, Known, Apart, Tracked, Due, Settled,
                      Counted, Kept, Dealt, Twins
<1>2. CASE answer' = "ok"
  <2>1. /\ e.id \in Id /\ e.time <= MaxTime /\ count' = count + 1 /\ count < MaxQueue
        /\ list' = InsertBefore(list, e, e.time)
        /\ tree' = bkp_session_insert_schedule_inform(tree, e) /\ file' = tree'
        /\ pc' = IF pc \in {"waiting", "sleeping"} THEN "woken" ELSE pc
        /\ accepted' = accepted \union {e}
    BY <1>2, InvFacts DEF cwmp_handle_rpc_cpe_schedule_inform, Accept, Signalled, Fault
  <2>2. e \in Entry
    BY <2>1, InformAssumption DEF Entry, InformInv, TypeOK
  <2>3. e.time = now + delay /\ e.id = Cardinality(accepted) + 1 /\ delay \in Nat
    BY InformAssumption
  <2> HIDE DEF e
  <2>4. /\ list' \in Seq(Entry) /\ InOrder(list') /\ Len(list') = Len(list) + 1
        /\ ToSet(list') = ToSet(list) \union {e}
    BY <2>1, <2>2, InvFacts, InsertedInOrder
  <2>5. /\ tree' \in Seq(Entry) /\ Apart(tree') /\ ToSet(tree) \subseteq ToSet(tree')
        /\ ToSet(tree') \subseteq ToSet(tree) \union {e}
        /\ (\E x \in ToSet(tree) : Same(x, e)) \/ e \in ToSet(tree')
    BY <2>1, <2>2, InvFacts, RecordInserted
  <2>6. /\ Cardinality(accepted) \in Nat /\ e \notin accepted
        /\ IsFiniteSet(accepted') /\ Cardinality(accepted') = Cardinality(accepted) + 1
    <3>1. Cardinality(accepted) \in Nat /\ e \notin accepted
      BY <2>3, FS_CardinalityType DEF InformInv, Numbered
    <3> QED
      BY <2>1, <3>1, FS_AddElement DEF InformInv, Numbered
  <2>7. raised[e.id] = 0
    <3>1. ~\E x \in accepted : x.id = e.id
      BY <2>3, <2>6 DEF InformInv, Numbered
    <3>2. e.id \in Id /\ raised[e.id] \in Nat
      BY <2>1 DEF InformInv, TypeOK
    <3>3. ~(raised[e.id] > 0)
      BY <3>1, <3>2 DEF InformInv, Due
    <3> QED
      BY <3>2, <3>3
  <2>8. TypeOK'
    BY <1>0, <2>1, <2>2, <2>4, <2>5 DEF InformInv, TypeOK, ThreadPc
  <2>9. Sorted' /\ (Apart(tree))' /\ (Apart(file))'
    <3>1. Sorted'
      BY <2>4 DEF Sorted, InOrder
    <3> QED
      BY <2>1, <2>5, <3>1 DEF Apart
  <2>10. Numbered'
    <3>1. \A x \in accepted : x.id \in Nat /\ x.id < e.id
      BY <2>2, <2>3, <2>6, InvFacts, EntryFields DEF InformInv, Numbered
    <3>2. \A x \in accepted' : x = e \/ (x \in accepted /\ x.id \in Nat /\ x.id < e.id)
      BY <2>1, <3>1
    <3>3. \A x, y \in accepted : x.id = y.id => x = y
      BY DEF InformInv, Numbered
    <3>4. \A x \in accepted' : x.id <= e.id
      BY <2>3, <2>6, <3>2
    <3>5. e.id = Cardinality(accepted')
      BY <2>3, <2>6
    <3>6. ASSUME NEW x \in accepted', NEW y \in accepted', x.id = y.id
          PROVE  x = y
      <4>1. CASE x = e \/ y = e
        BY <2>3, <2>6, <3>2, <3>6, <4>1
      <4>2. CASE x # e /\ y # e
        BY <3>2, <3>3, <3>6, <4>2
      <4> QED
        BY <4>1, <4>2
    <3> QED
      BY <2>6, <3>4, <3>5, <3>6 DEF Numbered
  <2>11. Known' /\ Tracked'
    BY <1>0, <2>1, <2>4, <2>5 DEF InformInv, Known, Tracked
  <2>12. Due' /\ Settled'
    BY <1>0, <2>1, <2>5, <2>7 DEF InformInv, Due, Settled
  <2>13. Counted'
    <3>1. pc' = pc \/ pc' = "woken"
      BY <2>1
    <3> QED
      BY <1>0, <2>1, <2>4, <3>1, InvFacts DEF InformInv, Counted
  <2>14. Kept'
    <3> SUFFICES ASSUME NEW x \in accepted' \ Twins', ~Dealt(x)
                 PROVE  x \in ToSet(tree') /\ x \in ToSet(list')
      BY <1>0, <2>1 DEF Kept, Dealt
    <3>1. CASE x = e
      <4>1. ~\E y \in accepted : Same(y, e)
        BY <2>1, <2>6, <3>1 DEF Twins, Same
      <4> QED
        BY <2>4, <2>5, <3>1, <4>1, InvFacts
    <3>2. CASE x # e
      <4>1. x \in accepted \ Twins
        BY <2>1, <3>2 DEF Twins
      <4> QED
        BY <1>0, <2>4, <2>5, <4>1 DEF InformInv, Kept
    <3> QED
      BY <3>1, <3>2
  <2> QED
    BY <2>8, <2>9, <2>10, <2>11, <2>12, <2>13, <2>14 DEF InformInv
<1> QED
  BY <1>1, <1>2

(* An entry and its record leave the list and the tree, as in every        *)
(* removal: what is left of them.                                          *)
LEMMA EntryLeaves ==
    ASSUME InformInv, up, NEW e \in accepted, NEW s \in Seq(Entry),
           Picked(s, list), ToSet(s) \subseteq ToSet(list),
           \A x \in ToSet(list) : x # e => x \in ToSet(s),
           NEW t, t = bkp_session_delete_schedule_inform(tree, e)
    PROVE  /\ InOrder(s) /\ t \in Seq(Entry) /\ Apart(t)
           /\ ToSet(t) \subseteq ToSet(s) /\ ToSet(t) \subseteq ToSet(tree)
           /\ \A x \in accepted \ Twins :
                 x # e /\ x \in ToSet(tree) => x \in ToSet(t)
<1>1. /\ t \in Seq(Entry) /\ Apart(t) /\ ToSet(t) \subseteq ToSet(tree)
      /\ \A x \in ToSet(tree) : ~Same(x, e) => x \in ToSet(t)
      /\ \A x \in ToSet(t) : ~Same(x, e)
  BY InvFacts, RecordDeleted
<1>2. InOrder(s)
  BY InvFacts, PickedInOrder
<1>3. ToSet(t) \subseteq ToSet(s)
  <2>1. e \notin ToSet(t)
    BY <1>1 DEF Same
  <2> QED
    BY <1>1, <2>1 DEF InformInv, Tracked
<1>4. ASSUME NEW x \in accepted \ Twins, x # e, x \in ToSet(tree) PROVE x \in ToSet(t)
  <2>1. ~Same(x, e)
    BY <1>4 DEF Twins, Same
  <2> QED
    BY <1>1, <1>4, <2>1
<1> QED
  BY <1>1, <1>2, <1>3, <1>4

(* All entries are removed, one after the other.                           *)
LEMMA RemoveAllInv ==
    ASSUME InformInv, cwmp_scheduleInform_remove_all
    PROVE  InformInv'
<1>1. CASE RemoveHead
  <2>1. /\ up /\ list # <<>> /\ list' = Tail(list) /\ removing' = TRUE
        /\ tree' = bkp_session_delete_schedule_inform(tree, Head(list))
        /\ removed' = removed \union {Head(list).id}
        /\ UNCHANGED <<now, count, pc, cur, same, answer, file, up, restarts, accepted, raised, dropped>>
        /\ pc # "raising" \/ removing
    BY <1>1 DEF RemoveHead
  <2>2. /\ Head(list) \in accepted /\ Head(list).id \in Id
        /\ list' \in Seq(Entry) /\ Picked(list', list) /\ ToSet(list') \subseteq ToSet(list)
        /\ Len(list') = Len(list) - 1
        /\ \A x \in ToSet(list) : x # Head(list) => x \in ToSet(list')
    BY <2>1, InvFacts, HeadAndTail
  <2>3. /\ InOrder(list') /\ tree' \in Seq(Entry) /\ Apart(tree')
        /\ ToSet(tree') \subseteq ToSet(list') /\ ToSet(tree') \subseteq ToSet(tree)
        /\ \A x \in accepted \ Twins : x # Head(list) /\ x \in ToSet(tree) => x \in ToSet(tree')
    BY <2>1, <2>2, EntryLeaves
  <2>4. TypeOK'
    BY <2>1, <2>2, <2>3 DEF InformInv, TypeOK
  <2>5. Sorted' /\ (Apart(tree))' /\ (Apart(file))'
    BY <2>1, <2>3 DEF InformInv, Sorted, InOrder, Apart
  <2>6. Numbered' /\ Known' /\ Tracked' /\ Due' /\ Settled'
    BY <2>1, <2>2, <2>3 DEF InformInv, Numbered, Known, Tracked, Due, Settled
  <2>7. Counted'
    BY <2>1, <2>2, InvFacts DEF InformInv, Counted
  <2>8. Kept'
    <3> SUFFICES ASSUME NEW x \in accepted \ Twins, ~Dealt(x)'
                 PROVE  x \in ToSet(tree') /\ x \in ToSet(file) /\ x \in ToSet(list')
      BY <2>1 DEF Kept, Twins
    <3>1. ~Dealt(x) /\ x # Head(list)
      BY <2>1 DEF Dealt
    <3> QED
      BY <2>1, <2>2, <2>3, <3>1 DEF InformInv, Kept
  <2> QED
    BY <2>4, <2>5, <2>6, <2>7, <2>8 DEF InformInv
<1>2. CASE RemoveEnd
  <2>1. /\ removing /\ removing' = FALSE /\ file' = tree
        /\ UNCHANGED <<now, list, count, pc, cur, same, answer, tree, up, restarts, accepted,
                       raised, dropped, removed>>
    BY <1>2 DEF RemoveEnd
  <2>2. up
    BY <2>1 DEF InformInv, Tracked
  <2> QED
    BY <2>1, <2>2, ZenonT(90) DEF InformInv, TypeOK, Sorted, Numbered, Known, Apart, Tracked, Due, Settled,
                      Counted, Kept, Dealt, Twins
<1> QED
  BY <1>1, <1>2 DEF cwmp_scheduleInform_remove_all

-----------------------------------------------------------------------------
(* The thread.                                                             *)
LEMMA LookInv ==
    ASSUME InformInv, Look
    PROVE  InformInv'
<1>1. /\ UNCHANGED <<now, list, count, removing, answer, tree, up, restarts, accepted, raised,
                     dropped, removed>>
      /\ up /\ pc = "look" /\ pc' \in {"towait", "drop", "raise", "tosleep"} /\ file' \in {file, tree}
      /\ same' \in BOOLEAN
  BY DEF Look, Quiet, SavedBeforeWait, InformInv, Tracked, TypeOK
<1>2. CASE list = <<>>
  <2>1. pc' = "towait" /\ cur' = cur /\ file' = tree
    BY <1>2 DEF Look, SavedBeforeWait
  <2>2. ToSet(tree) = {}
    BY <1>1, <1>2 DEF InformInv, Tracked, ToSet
  <2> QED
    BY <1>1, <2>1, <2>2 DEF InformInv, TypeOK, ThreadPc, Sorted, Numbered, Known, Apart, Tracked, Due,
                        Settled, Counted, Kept, Dealt, Twins
<1>3. CASE list # <<>>
  <2>1. /\ Head(list) \in ToSet(list) /\ Head(list) = list[1] /\ Head(list) \in accepted
        /\ Head(list).time \in Nat /\ cur' = Head(list) /\ Head(list) \in Entry
    BY <1>3, InvFacts, HeadAndTail DEF Look
  <2>2. TypeOK' /\ Sorted' /\ Numbered' /\ Known' /\ (Apart(tree))' /\ (Apart(file))'
    BY <1>1, <2>1 DEF InformInv, TypeOK, ThreadPc, Sorted, Numbered, Known, Apart
  <2>3. Tracked' /\ Counted' /\ Kept'
    BY <1>1, <2>1 DEF InformInv, Tracked, Counted, Kept, Dealt, Twins
  <2>4. CASE now >= Head(list).time
    <3>1. pc' \in {"drop", "raise"}
      BY <1>3, <2>4 DEF Look
    <3>2. Due' /\ Settled'
      BY <1>1, <2>1, <2>4, <3>1, InvFacts DEF InformInv, Due, Settled
    <3> QED
      BY <2>2, <2>3, <3>2 DEF InformInv
  <2>5. CASE ~(now >= Head(list).time)
    <3>1. pc' = "tosleep" /\ file' = tree
      BY <1>3, <2>5 DEF Look, SavedBeforeWait
    <3>2. ASSUME NEW e \in ToSet(tree) PROVE raised[e.id] = 0
      <4>1. e \in ToSet(list) /\ e \in accepted /\ raised[e.id] \in Nat /\ e.id \in Id
        BY <1>1, InvFacts DEF InformInv, Tracked
      <4>2. PICK i \in 1 .. Len(list) : list[i] = e
        BY <4>1, InvFacts, ElementsOf
      <4>3. list[1].time <= list[i].time
        <5>1. DOMAIN list = 1 .. Len(list) /\ 1 \in 1 .. Len(list) /\ list[1].time \in Nat
          BY <2>1, <4>2, InvFacts, ElementsOf
        <5>2. CASE i = 1
          BY <5>1, <5>2
        <5>3. CASE 1 < i
          BY <4>2, <5>1, <5>3, InvFacts DEF InOrder
        <5> QED
          BY <4>2, <5>1, <5>2, <5>3
      <4>4. ~\E x \in accepted : x.id = e.id /\ x.time <= now
        BY <2>1, <2>5, <4>1, <4>2, <4>3, InvFacts DEF InformInv, Numbered
      <4> QED
        BY <4>1, <4>4 DEF InformInv, Due
    <3>3. Due' /\ Settled'
      BY <1>1, <3>1, <3>2 DEF InformInv, Due, Settled
    <3> QED
      BY <2>2, <2>3, <3>3 DEF InformInv
  <2> QED
    BY <2>4, <2>5
<1> QED
  BY <1>2, <1>3

LEMMA QuietThreadInv ==
    ASSUME InformInv, Wait \/ RaiseScheduled \/ tick \/ UNCHANGED vars
    PROVE  InformInv'
<1>1. /\ UNCHANGED <<list, count, removing, answer, tree, up, restarts, accepted, raised,
                     dropped, removed, cur, same>>
      /\ now' \in 1 .. MaxTime /\ now <= now'
      /\ file' = file \/ (up /\ file' = tree)
      /\ \/ pc' = pc
         \/ pc \in {"towait", "tosleep", "sleeping"} /\ pc' \in {"waiting", "sleeping", "woken"}
         \/ pc = "woken" /\ pc' = "look"
         \/ pc = "raise" /\ pc' = "raising"
  BY InformAssumption DEF Wait, Quiet, RaiseScheduled, tick, vars, InformInv, TypeOK, Tracked
<1>2. TypeOK' /\ Sorted' /\ Numbered' /\ Known' /\ (Apart(tree))' /\ (Apart(file))'
  BY <1>1 DEF InformInv, TypeOK, ThreadPc, Sorted, Numbered, Known, Apart
<1>3. Tracked' /\ Settled' /\ Counted' /\ Kept'
  BY <1>1 DEF InformInv, Tracked, Settled, Counted, Kept, Dealt, Twins
<1>4. Due'
  <2>1. now \in Nat /\ now' \in Nat /\ \A e \in accepted : e.time \in Nat
    BY <1>1, InvFacts
  <2> QED
    BY <1>1, <2>1 DEF InformInv, Due
<1> QED
  BY <1>2, <1>3, <1>4 DEF InformInv

LEMMA RaiseMethodInv ==
    ASSUME InformInv, RaiseMethod
    PROVE  InformInv'
<1>1. /\ pc = "raising" /\ pc' = "unlink" /\ up /\ file' = tree
      /\ raised' = [raised EXCEPT ![cur.id] = @ + 1]
      /\ UNCHANGED <<now, list, count, cur, same, removing, answer, tree, up, restarts, accepted,
                     dropped, removed>>
  BY DEF RaiseMethod, InformInv, Tracked
<1>2. /\ cur \in accepted /\ cur.id \in Id /\ cur.time <= now
      /\ raised' \in [Id -> Nat] /\ raised'[cur.id] > 0
      /\ \A i \in Id : i # cur.id => raised'[i] = raised[i]
      /\ \A i \in Id : raised[i] > 0 => raised'[i] > 0
  BY <1>1, InvFacts DEF InformInv, Due, TypeOK
<1>3. TypeOK' /\ Sorted' /\ Numbered' /\ Known' /\ (Apart(tree))' /\ (Apart(file))'
  BY <1>1, <1>2 DEF InformInv, TypeOK, ThreadPc, Sorted, Numbered, Known, Apart
<1>4. Tracked' /\ Due' /\ Settled' /\ Counted'
  BY <1>1, <1>2 DEF InformInv, Tracked, Due, Settled, Counted
<1>5. Kept'
  <2> SUFFICES ASSUME NEW x \in accepted \ Twins, ~Dealt(x)'
               PROVE  x \in ToSet(tree) /\ x \in ToSet(list)
    BY <1>1 DEF Kept, Twins
  <2>1. x.id \in Id
    BY InvFacts
  <2>2. ~Dealt(x)
    BY <1>1, <1>2, <2>1 DEF Dealt
  <2> QED
    BY <1>1, <2>2 DEF InformInv, Kept
<1> QED
  BY <1>3, <1>4, <1>5 DEF InformInv

(* An entry is dropped without an event, or unlinked after its events.     *)
LEMMA LeaveInv ==
    ASSUME InformInv, Drop \/ Unlink
    PROVE  InformInv'
<1>1. /\ pc \in {"drop", "unlink"} /\ pc' = "look" /\ up /\ same' \in BOOLEAN
      /\ list' = RemoveFirst(list, cur)
      /\ tree' = bkp_session_delete_schedule_inform(tree, cur)
      /\ UNCHANGED <<now, cur, removing, answer, file, up, restarts, accepted, raised, removed>>
  BY DEF Drop, Unlink, InformInv, Tracked, TypeOK
<1>2. /\ pc = "drop" => dropped' = dropped \union {cur.id} /\ count' = count
      /\ pc = "unlink" => dropped' = dropped /\ count' = count - 1
  BY DEF Drop, Unlink
<1>3. /\ cur \in accepted /\ cur.id \in Id
      /\ pc = "unlink" => raised[cur.id] > 0
  BY <1>1, InvFacts DEF InformInv, Due
<1>4. /\ list' \in Seq(Entry) /\ Picked(list', list) /\ ToSet(list') \subseteq ToSet(list)
      /\ \A x \in ToSet(list) : x # cur => x \in ToSet(list')
      /\ Len(list') = IF cur \in ToSet(list) THEN Len(list) - 1 ELSE Len(list)
  BY <1>1, InvFacts, RemoveFirstProperties
<1>5. /\ InOrder(list') /\ tree' \in Seq(Entry) /\ Apart(tree')
      /\ ToSet(tree') \subseteq ToSet(list') /\ ToSet(tree') \subseteq ToSet(tree)
      /\ \A x \in accepted \ Twins : x # cur /\ x \in ToSet(tree) => x \in ToSet(tree')
  BY <1>1, <1>3, <1>4, EntryLeaves
<1>6. TypeOK'
  BY <1>1, <1>2, <1>3, <1>4, <1>5, SMTT(60) DEF InformInv, TypeOK, ThreadPc
<1>7. Sorted' /\ (Apart(tree))' /\ (Apart(file))'
  BY <1>1, <1>5 DEF InformInv, Sorted, InOrder, Apart
<1>8. Numbered' /\ Known' /\ Tracked' /\ Due' /\ Settled'
  BY <1>1, <1>3, <1>4, <1>5 DEF InformInv, Numbered, Known, Tracked, Due, Settled
<1>9. Counted'
  BY <1>1, <1>2, <1>4, InvFacts DEF InformInv, Counted
<1>10. Kept'
  <2> SUFFICES ASSUME NEW x \in accepted \ Twins, ~Dealt(x)'
               PROVE  x \in ToSet(tree') /\ x \in ToSet(file) /\ x \in ToSet(list')
    BY <1>1 DEF Kept, Twins
  <2>1. ~Dealt(x) /\ x # cur
    BY <1>1, <1>2, <1>3 DEF Dealt
  <2> QED
    BY <1>1, <1>4, <1>5, <2>1 DEF InformInv, Kept
<1> QED
  BY <1>6, <1>7, <1>8, <1>9, <1>10 DEF InformInv

-----------------------------------------------------------------------------
(* Crash and restart.                                                      *)
LEMMA RestartInv ==
    ASSUME InformInv, crash \/ restart
    PROVE  InformInv'
<1>1. /\ <<>> \in Seq(Entry) /\ ToSet(<<>>) = {} /\ Len(<<>>) = 0 /\ InOrder(<<>>)
  BY DEF ToSet, InOrder
<1>2. CASE crash
  <2>1. /\ up' = FALSE /\ list' = <<>> /\ count' = 0 /\ pc' = "down" /\ cur' = None
        /\ same' = FALSE /\ removing' = FALSE /\ tree' = file
        /\ UNCHANGED <<now, answer, file, restarts, accepted, raised, dropped, removed>>
    BY <1>2 DEF crash
  <2>2. TypeOK'
    <3>1. up' \in BOOLEAN /\ same' \in BOOLEAN /\ removing' \in BOOLEAN
      BY <2>1, Zenon
    <3>2. count' \in Int /\ pc' \in ThreadPc /\ cur' \in Entry \union {None}
      BY <2>1 DEF ThreadPc
    <3> QED
      BY <1>1, <2>1, <3>1, <3>2 DEF InformInv, TypeOK
  <2>3. Sorted' /\ Numbered' /\ Known' /\ (Apart(tree))' /\ (Apart(file))'
    BY <1>1, <2>1 DEF InformInv, Sorted, InOrder, Numbered, Known, Apart
  <2>4. Tracked'
    BY <1>2, <2>1, Zenon DEF crash, InformInv, Tracked
  <2>6. Due' /\ Settled' /\ Counted'
    BY <1>1, <2>1, InvFacts DEF InformInv, Due, Settled, Counted
  <2>5. Kept'
    BY <2>1 DEF InformInv, Kept, Dealt, Twins
  <2> QED
    BY <2>2, <2>3, <2>4, <2>5, <2>6 DEF InformInv
<1>3. CASE restart
  <2>1. /\ pc = "down" /\ pc' = "load" /\ restarts' = restarts + 1 /\ list = <<>>
        /\ UNCHANGED <<now, list, count, cur, same, removing, answer, tree, file, up, accepted,
                       raised, dropped, removed>>
    BY <1>3 DEF restart, InformInv, Tracked
  <2>2. restarts' \in 0 .. MaxRestarts /\ restarts' # 0
    BY <2>1, InformAssumption DEF InformInv, TypeOK, Tracked
  <2>3. TypeOK' /\ Sorted' /\ Numbered' /\ Known' /\ (Apart(tree))' /\ (Apart(file))'
    BY <2>1, <2>2 DEF InformInv, TypeOK, ThreadPc, Sorted, Numbered, Known, Apart
  <2>4. Tracked' /\ Due' /\ Settled' /\ Counted' /\ Kept'
    BY <1>1, <2>1, <2>2, InvFacts DEF InformInv, Tracked, Due, Settled, Counted, Kept, Dealt, Twins
  <2> QED
    BY <2>3, <2>4 DEF InformInv
<1> QED
  BY <1>2, <1>3

LEMMA LoadInv ==
    ASSUME InformInv, load_schedule_inform
    PROVE  InformInv'
<1>1. /\ pc = "load" /\ ~up /\ ~removing /\ tree = file
      /\ UNCHANGED <<now, count, cur, same, removing, answer, tree, file, restarts, accepted,
                     raised, dropped, removed>>
      /\ Len(file) \in Nat /\ Len(list) \in Nat /\ Len(list) <= Len(file)
      /\ restarts # 0
  BY InvFacts, ElementsOf DEF load_schedule_inform, InformInv, Tracked, Counted
<1>2. CASE Len(list) < Len(file)
  <2> DEFINE e == file[Len(list) + 1]
  <2>1. list' = InsertBefore(list, e, e.time + 1) /\ UNCHANGED <<pc, up>>
    BY <1>2 DEF load_schedule_inform
  <2>2. e \in Entry /\ e \in ToSet(file) /\ e \in accepted
    BY <1>1, <1>2, InvFacts, ElementsOf
  <2> HIDE DEF e
  <2>3. /\ list' \in Seq(Entry) /\ InOrder(list') /\ Len(list') = Len(list) + 1
        /\ ToSet(list') = ToSet(list) \union {e}
    BY <2>1, <2>2, InvFacts, InsertedInOrder
  <2>4. Tracked'
    <3>1. \A i \in 1 .. Len(list) + 1 : i \in 1 .. Len(list) \/ file[i] = e
      BY <1>1 DEF e
    <3> QED
      BY <1>1, <1>2, <2>1, <2>3, <3>1 DEF InformInv, Tracked
  <2>5. TypeOK' /\ Sorted' /\ Numbered' /\ Known' /\ (Apart(tree))' /\ (Apart(file))'
    BY <1>1, <2>1, <2>2, <2>3 DEF InformInv, TypeOK, Sorted, InOrder, Numbered, Known, Apart
  <2>6. Due' /\ Settled' /\ Kept'
    BY <1>1, <2>1 DEF InformInv, Due, Settled, Kept, Dealt, Twins
  <2>7. Counted'
    BY <1>1, <2>1, <2>3 DEF InformInv, Counted
  <2> QED
    BY <2>4, <2>5, <2>6, <2>7 DEF InformInv
<1>3. CASE ~(Len(list) < Len(file))
  <2>1. pc' = "look" /\ up' = TRUE /\ list' = list
    BY <1>3 DEF load_schedule_inform
  <2>2. ToSet(file) \subseteq ToSet(list)
    <3>1. Len(list) = Len(file)
      BY <1>1, <1>3
    <3> QED
      BY <1>1, <3>1, InvFacts, ElementsOf DEF InformInv, Tracked
  <2>3. TypeOK' /\ Sorted' /\ Numbered' /\ Known' /\ (Apart(tree))' /\ (Apart(file))'
    BY <1>1, <2>1 DEF InformInv, TypeOK, ThreadPc, Sorted, Numbered, Known, Apart
  <2>4. Tracked' /\ Due' /\ Settled' /\ Counted' /\ Kept'
    BY <1>1, <2>1, <2>2 DEF InformInv, Tracked, Due, Settled, Counted, Kept, Dealt, Twins
  <2> QED
    BY <2>3, <2>4 DEF InformInv
<1> QED
  BY <1>2, <1>3

-----------------------------------------------------------------------------
LEMMA InformNextInv == InformInv /\ [Next]_vars => InformInv'
<1> SUFFICES ASSUME InformInv, [Next]_vars PROVE InformInv'
  OBVIOUS
<1> QED
  BY HandlerInv, RemoveAllInv, LookInv, QuietThreadInv, RaiseMethodInv, LeaveInv, RestartInv, LoadInv
     DEF Next, thread_cwmp_rpc_cpe_scheduleInform

(* What the invariant says of the pending entries.                         *)
LEMMA InvConsistent == InformInv => ListConsistent
<1> SUFFICES ASSUME InformInv PROVE ListConsistent
  OBVIOUS
<1>1. Limit
  BY InvFacts DEF InformInv, Counted, Limit
<1>2. SettledWhenWaiting
  BY DEF InformInv, Settled, SettledWhenWaiting
<1>3. NothingLost
  <2> SUFFICES ASSUME up, NEW e \in accepted \ Twins
               PROVE  \/ e.id \in dropped \union removed
                      \/ e \in ToSet(list) \/ raised[e.id] > 0
    BY DEF NothingLost
  <2> QED
    BY DEF InformInv, Kept, Dealt
<1> QED
  BY <1>1, <1>2, <1>3 DEF InformInv, ListConsistent

(* The list is in order and within its limit, a thread that waits leaves   *)
(* no reported entry on file, and no accepted entry is lost, for any       *)
(* delays and any limit, at any number of crashes, also while records are  *)
(* loaded or entries removed (cwmp_handle_rpc_cpe_schedule_inform,         *)
(* thread_cwmp_rpc_cpe_scheduleInform, cwmp_scheduleInform_remove_all,     *)
(* load_schedule_inform).                                                  *)
THEOREM ListAlwaysConsistent == Spec => []ListConsistent
<1>1. Init => InformInv
  BY InformInitInv
<1>2. InformInv /\ [Next]_vars => InformInv'
  BY InformNextInv
<1>3. InformInv => ListConsistent
  BY InvConsistent
<1> QED
  BY <1>1, <1>2, <1>3, PTL DEF Spec
=============================================================================
