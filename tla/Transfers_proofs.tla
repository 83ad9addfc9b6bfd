--------------------------- MODULE Transfers_proofs ---------------------------
(***************************************************************************)
(* Downloads and uploads: lists, counter and records fit together, no      *)
(* accepted request is lost, and a cancelled one stays cancelled, for any  *)
(* requests, delays, grace and limit, at any number of crashes, also in    *)
(* the middle of a removal or of the loading of the records.               *)
(***************************************************************************)
EXTENDS Transfers, SequenceLemmas, FiniteSetTheorems

(* Requests are numbered as they are accepted; nothing has happened to a   *)
(* number that is not given yet.                                           *)
Numbered ==
    /\ IsFiniteSet(accepted)
    /\ \A r \in accepted : r.id <= Cardinality(accepted)
    /\ \A r, x \in accepted : r.id = x.id => r = x
    /\ \A i \in Id : i > Cardinality(accepted) =>
         /\ runs[i] = 0 /\ raised[i] = 0
         /\ i \notin tree.done \union file.done \union cancelled

(* What is in a list, on record or in the hand of a thread was accepted.   *)
Known ==
    /\ \A k \in Kinds : \A r \in ToSet(list[k]) : r \in accepted /\ r.kind = k
    /\ ToSet(tree.requests) \union ToSet(file.requests) \union ToSet(rest) \subseteq accepted
    /\ \A k \in Kinds : cur[k] # None => cur[k] \in accepted /\ cur[k].kind = k
    /\ victim # None => victim \in accepted
    /\ mpc = "cancel" => victim # None

(* No two records are found by the same search, and no list has a request  *)
(* twice.                                                                  *)
Apart(s) == \A i, j \in DOMAIN s : i # j => ~Same(s[i], s[j])
Single(s) == \A i, j \in DOMAIN s : i # j => s[i] # s[j]
Distinct ==
    /\ Apart(tree.requests) /\ Apart(file.requests) /\ Apart(rest)
    /\ \A k \in Kinds : Single(list[k])

(* A record of a request says that it was neither run, nor done, nor       *)
(* cancelled.                                                              *)
Pending(t) ==
    \A r \in ToSet(t.requests) : runs[r.id] = 0 /\ r.id \notin t.done \union cancelled

(* Where a thread has a request in hand that it will take out of its list, *)
(* and what has happened to the request.                                   *)
InHand == {"expire", "launch", "expiring", "expired", "unlink"} \union Sending
Uncounted == {"expireCount", "count"}
OnRecord(i) == i \in failed \/ (i \in tree.done /\ i \in file.done)
Places ==
    \A k \in Kinds :
        /\ pc[k] \in InHand \union Uncounted => cur[k] \in accepted
        /\ pc[k] \in {"expire", "launch", "expiring"} => runs[cur[k].id] = 0 /\ raised[cur[k].id] = 0
        /\ pc[k] = "expired" => raised[cur[k].id] > 0
        /\ pc[k] = "running" => runs[cur[k].id] > 0
        /\ pc[k] \in {"running", "fault", "apply", "report"} => raised[cur[k].id] = 0
        /\ pc[k] \in {"fault", "apply", "report", "release", "unlink"} => OnRecord(cur[k].id)

(* A request in a list waits, unless its thread has it in hand.            *)
Waiting ==
    \A k \in Kinds : \A r \in ToSet(list[k]) :
        \/ runs[r.id] = 0 /\ raised[r.id] = 0
        \/ r = cur[k] /\ pc[k] \in InHand

(* Who holds mutex_session_send.                                           *)
SendHeld ==
    /\ \A k \in Kinds : pc[k] \in Sending => owner["send"] = k
    /\ mpc \in {"session", "cancel", "remove"} \union Kinds => owner["send"] = "main"

(* A process that is down, or loads, has no threads; what it has not       *)
(* loaded yet is in rest.                                                  *)
Loading ==
    /\ mpc \in {"down", "load"} =>
         tree = file /\ \A k \in Kinds : pc[k] = "down"
    /\ mpc \notin {"down", "load"} => \A k \in Kinds : pc[k] # "down"
    /\ mpc = "down" => /\ restarts < MaxRestarts
                       /\ \A k \in Kinds : list[k] = <<>>
                       /\ \A i \in Id : raised[i] = 0
    /\ mpc = "load" =>
         /\ ToSet(rest) \subseteq ToSet(file.requests)
         /\ \A r \in ToSet(file.requests) : r \in ToSet(rest) \/ r \in ToSet(list[r.kind])
         /\ \A k \in Kinds : ToSet(list[k]) \intersect ToSet(rest) = {}
         /\ \A i \in Id : i \in file.done <=> raised[i] > 0
    /\ mpc # "load" => rest = <<>>

(* A request that nothing has happened to is on record, as pending or as   *)
(* done, in the tree and in the file, unless its script runs; and in a     *)
(* running process it is in its list, reported or done.                    *)
Exempt == cancelled \union discarded \union cut \union failed
OnFile(t, r) ==
    r \in ToSet(t.requests) \/ r.id \in t.done \/ (r = cur[r.kind] /\ pc[r.kind] = "running")
Kept ==
    \A r \in accepted \ Twins : r.id \notin Exempt =>
        /\ OnFile(tree, r) /\ OnFile(file, r)
        /\ mpc \notin {"down", "load"} =>
             r \in ToSet(list[r.kind]) \/ raised[r.id] > 0 \/ r.id \in file.done

(* While only one kind of request was accepted and none removed by main:   *)
(* who holds the mutex of its list, and what is counted.                   *)
HalfCounted == {k \in Kinds : pc[k] \in Uncounted /\ cur[k].time # 0}
Counted ==
    OneKind /\ cancelled \union discarded = {} =>
        /\ \A k \in Kinds :
             /\ pc[k] \in InHand => cur[k] \in ToSet(list[k])
             /\ pc[k] \in Holding => owner[k] = k
             /\ pc[k] \in Uncounted => tmp[k] = count
        /\ \A r \in accepted : mpc = r.kind => owner[r.kind] = "main"
        /\ count = Cardinality(Delayed) + Cardinality(HalfCounted)

TransferInv ==
    /\ TypeOK /\ Sorted /\ AtMostOnce
    /\ Numbered /\ Known /\ Distinct
    /\ Pending(tree) /\ Pending(file) /\ file.done \ failed \subseteq tree.done
    /\ Places /\ Waiting /\ SendHeld /\ Loading /\ Kept /\ Counted

-----------------------------------------------------------------------------
(* Lists in order, and records apart.                                      *)
InOrder(s) == \A i, j \in DOMAIN s : i < j => s[i].time <= s[j].time

LEMMA KindNames ==
    ASSUME NEW k \in Kinds
    PROVE  /\ k \in {"download", "upload"} /\ k \in Mutex /\ k \in Thread
           /\ k \notin {"main", "none", "send", "queue", "idle", "session", "cancel", "remove",
                        "down", "load"}
BY KindsAssumption DEF Mutex, Thread

LEMMA RequestFields ==
    ASSUME NEW r \in Request
    PROVE  /\ r.id \in Id /\ r.id \in Nat /\ r.id > 0 /\ r.kind \in Kinds /\ r.time \in Nat
           /\ r # None
<1>1. r.id \in Id /\ r.kind \in Kinds /\ r.time \in Time
  BY DEF Request
<1>2. r.id \in Nat /\ r.id > 0 /\ r.time \in Nat
  BY <1>1, NumbersAssumption DEF Id, Time
<1>3. None.id = 0
  BY DEF None
<1> QED
  BY <1>1, <1>2, <1>3

LEMMA PickedInOrder ==
    ASSUME NEW s, NEW t, Picked(t, s), InOrder(s)
    PROVE  InOrder(t)
BY DEF Picked, InOrder

LEMMA PickedApart ==
    ASSUME NEW s \in Seq(Request), NEW t \in Seq(Request), Picked(t, s)
    PROVE  /\ Apart(s) => Apart(t)
           /\ Single(s) => Single(t)
<1>1. ASSUME NEW i \in DOMAIN t, NEW j \in DOMAIN t, i # j
      PROVE  \E a, b \in DOMAIN s : a # b /\ t[i] = s[a] /\ t[j] = s[b]
  <2>0. i \in Nat /\ j \in Nat /\ \A a \in DOMAIN s : a \in Nat
    BY ElementsOf
  <2>1. CASE i < j
    BY <2>0, <2>1 DEF Picked
  <2>2. CASE j < i
    BY <2>0, <2>2 DEF Picked
  <2> QED
    BY <1>1, <2>0, <2>1, <2>2
<1>2. Apart(s) => Apart(t)
  BY <1>1 DEF Apart
<1>3. Single(s) => Single(t)
  BY <1>1 DEF Single
<1> QED
  BY <1>2, <1>3

LEMMA ApartIsSingle ==
    ASSUME NEW s \in Seq(Request), Apart(s)
    PROVE  Single(s)
BY DEF Apart, Single, Same

(* The handlers insert before requests of the same time, the load after    *)
(* them; both keep the order.                                              *)
LEMMA InsertedInOrder ==
    ASSUME NEW s \in Seq(Request), NEW e \in Request, NEW time \in {e.time, e.time + 1}, InOrder(s),
           Single(s), e \notin ToSet(s)
    PROVE  /\ InsertBefore(s, e, time) \in Seq(Request)
           /\ ToSet(InsertBefore(s, e, time)) = ToSet(s) \union {e}
           /\ InOrder(InsertBefore(s, e, time))
           /\ Single(InsertBefore(s, e, time))
<1> DEFINE I == {i \in 1 .. Len(s) : s[i].time >= time}
           t == InsertBefore(s, e, time)
<1>1. /\ Len(s) \in Nat /\ DOMAIN s = 1 .. Len(s) /\ I \in SUBSET Nat
      /\ \A i \in 1 .. Len(s) : s[i] \in Request /\ s[i].time \in Nat /\ s[i] # e
      /\ e.time \in Nat /\ time \in Nat
  BY RequestFields, LenProperties, ElementOfSeq, ElementsOf
<1>2. CASE I = {}
  <2>1. t = Append(s, e)
    BY <1>1, <1>2 DEF InsertBefore, SelectInSeq
  <2>2. /\ t \in Seq(Request) /\ Len(t) = Len(s) + 1 /\ ToSet(t) = ToSet(s) \union {e}
        /\ \A i \in 1 .. Len(s) : t[i] = s[i]
        /\ t[Len(s) + 1] = e
    BY <2>1, ElementsAppended
  <2>3. \A i \in 1 .. Len(s) : s[i].time <= e.time
    BY <1>1, <1>2
  <2>4. ASSUME NEW i \in DOMAIN t, NEW j \in DOMAIN t, i < j
        PROVE  t[i].time <= t[j].time /\ t[i] # t[j]
    <3> HIDE DEF t, I
    <3>0. i \in 1 .. Len(s) + 1 /\ j \in 1 .. Len(s) + 1
      BY <2>2, ElementsOf
    <3>1. i \in 1 .. Len(s) /\ t[i] = s[i]
      BY <1>1, <2>2, <2>4, <3>0
    <3>2. CASE j = Len(s) + 1
      BY <1>1, <2>2, <2>3, <3>1, <3>2
    <3>3. CASE j # Len(s) + 1
      <4>1. j \in 1 .. Len(s) /\ t[j] = s[j]
        BY <1>1, <2>2, <3>0, <3>3
      <4> QED
        BY <1>1, <2>4, <3>1, <4>1 DEF InOrder, Single
    <3> QED
      BY <3>2, <3>3
  <2>5. InOrder(t) /\ Single(t)
    <3> HIDE DEF t, I
    <3>1. \A i \in DOMAIN t : i \in Nat
      BY <2>2, ElementsOf
    <3>2. \A i, j \in DOMAIN t : i # j => i < j \/ j < i
      BY <3>1
    <3> QED
      BY <2>4, <3>2 DEF InOrder, Single
  <2> QED
    BY <2>2, <2>5
<1>3. CASE I # {}
  <2>1. PICK a \in 1 .. Len(s) : a = Min(I) /\ s[a].time >= time /\ \A i \in I : a <= i
    BY <1>1, <1>3, MinNat
  <2>2. t = InsertAt(s, a, e)
    BY <1>1, <1>3, <2>1 DEF InsertBefore, SelectInSeq
  <2>3. /\ t \in Seq(Request) /\ Len(t) = Len(s) + 1 /\ ToSet(t) = ToSet(s) \union {e}
        /\ \A j \in 1 .. Len(s) + 1 : t[j] = IF j < a THEN s[j] ELSE IF j = a THEN e ELSE s[j - 1]
    <3> HIDE DEF t, I
    <3>1. a \in 1 .. Len(s) + 1
      BY <1>1
    <3>2. /\ t \in Seq(Request) /\ Len(t) = Len(s) + 1
          /\ \A j \in 1 .. Len(s) + 1 : t[j] = IF j < a THEN s[j] ELSE IF j = a THEN e ELSE s[j - 1]
      <4> DEFINE u == InsertAt(s, a, e)
      <4>1. /\ u \in Seq(Request) /\ Len(u) = Len(s) + 1
            /\ \A j \in 1 .. Len(s) + 1 : u[j] = IF j < a THEN s[j] ELSE IF j = a THEN e ELSE s[j - 1]
        BY <3>1, InsertAtProperties
      <4>2. t = u
        BY <2>2
      <4> HIDE DEF u
      <4> QED
        BY <4>1, <4>2
    <3>3. ToSet(t) = ToSet(s) \union {e}
      BY <2>2, <3>1, ElementsInserted
    <3> QED
      BY <3>2, <3>3
  <2>4. \A i \in 1 .. Len(s) : IF i < a THEN s[i].time <= e.time ELSE e.time <= s[i].time
    <3>1. \A i \in 1 .. Len(s) : i < a => s[i].time < time
      BY <1>1, <2>1
    <3>2. \A i \in 1 .. Len(s) : ~(i < a) => s[a].time <= s[i].time
      BY <1>1, <2>1 DEF InOrder
    <3> QED
      BY <1>1, <2>1, <3>1, <3>2, SMTT(60)
  <2>5. ASSUME NEW i \in DOMAIN t, NEW j \in DOMAIN t, i < j
        PROVE  t[i].time <= t[j].time /\ t[i] # t[j]
    <3> HIDE DEF t, I
    <3>0. i \in 1 .. Len(s) + 1 /\ j \in 1 .. Len(s) + 1
      BY <2>3, ElementsOf
    <3>1. CASE j < a
      <4>1. t[i] = s[i] /\ i \in 1 .. Len(s) /\ t[j] = s[j] /\ j \in 1 .. Len(s)
        BY <1>1, <2>1, <2>3, <2>5, <3>0, <3>1
      <4> QED
        BY <1>1, <2>5, <4>1 DEF InOrder, Single
    <3>2. CASE j = a
      <4>1. t[i] = s[i] /\ i \in 1 .. Len(s) /\ t[j] = e
        BY <1>1, <2>1, <2>3, <2>5, <3>0, <3>2
      <4> QED
        BY <1>1, <2>4, <2>5, <3>2, <4>1
    <3>3. CASE j > a /\ i < a
      <4>1. t[i] = s[i] /\ i \in 1 .. Len(s) /\ t[j] = s[j - 1] /\ j - 1 \in 1 .. Len(s) /\ i < j - 1
        BY <1>1, <2>1, <2>3, <3>0, <3>3
      <4> QED
        BY <1>1, <4>1 DEF InOrder, Single
    <3>4. CASE i = a
      <4>1. t[i] = e /\ t[j] = s[j - 1] /\ j - 1 \in 1 .. Len(s) /\ ~(j - 1 < a)
        BY <1>1, <2>1, <2>3, <2>5, <3>0, <3>4
      <4> QED
        BY <1>1, <2>4, <4>1
    <3>5. CASE i > a
      <4>1. t[i] = s[i - 1] /\ i - 1 \in 1 .. Len(s) /\ t[j] = s[j - 1] /\ j - 1 \in 1 .. Len(s) /\ i - 1 < j - 1
        BY <1>1, <2>1, <2>3, <2>5, <3>0, <3>5
      <4> QED
        BY <1>1, <4>1 DEF InOrder, Single
    <3> QED
      BY <1>1, <2>1, <2>5, <3>0, <3>1, <3>2, <3>3, <3>4, <3>5
  <2>6. InOrder(t) /\ Single(t)
    <3> HIDE DEF t, I
    <3>1. \A i \in DOMAIN t : i \in Nat
      BY <2>3, ElementsOf
    <3>2. \A i, j \in DOMAIN t : i # j => i < j \/ j < i
      BY <3>1
    <3> QED
      BY <2>5, <3>2 DEF InOrder, Single
  <2> QED
    BY <2>3, <2>6
<1> QED
  BY <1>2, <1>3

(* What inserting and deleting a record does to the records.               *)
LEMMA RecordInserted ==
    ASSUME NEW t \in Tree, NEW r \in Request, Apart(t.requests),
           NEW u, u = bkp_session_insert(t, r)
    PROVE  /\ u \in Tree /\ u.done = t.done /\ Apart(u.requests)
           /\ ToSet(t.requests) \subseteq ToSet(u.requests)
           /\ ToSet(u.requests) \subseteq ToSet(t.requests) \union {r}
           /\ (\E x \in ToSet(t.requests) : Same(x, r)) \/ r \in ToSet(u.requests)
<1>0. t.requests \in Seq(Request) /\ t.done \in SUBSET Id
  BY DEF Tree
<1>1. CASE \E x \in ToSet(t.requests) : Same(x, r)
  BY <1>1 DEF bkp_session_insert
<1>2. CASE ~\E x \in ToSet(t.requests) : Same(x, r)
  <2> DEFINE s == t.requests
             v == Append(s, r)
  <2>1. u = [t EXCEPT !.requests = v]
    BY <1>2 DEF bkp_session_insert
  <2>2. /\ v \in Seq(Request) /\ ToSet(v) = ToSet(s) \union {r} /\ Len(v) = Len(s) + 1
        /\ \A i \in 1 .. Len(s) : v[i] = s[i]
        /\ v[Len(s) + 1] = r
    BY <1>0, ElementsAppended
  <2>3. u \in Tree /\ u.requests = v /\ u.done = t.done
    <3> HIDE DEF v
    <3> QED
      BY <2>1, <2>2 DEF Tree
  <2>4. /\ Len(s) \in Nat /\ DOMAIN s = 1 .. Len(s) /\ DOMAIN v = 1 .. Len(s) + 1
        /\ \A i \in 1 .. Len(s) : ~Same(s[i], r) /\ ~Same(r, s[i])
    <3>1. /\ Len(s) \in Nat /\ DOMAIN s = 1 .. Len(s) /\ \A i \in 1 .. Len(s) : s[i] \in ToSet(s)
      BY <1>0, ElementsOf
    <3>2. DOMAIN v = 1 .. Len(v)
      BY <2>2, ElementsOf
    <3> QED
      BY <1>2, <2>2, <3>1, <3>2 DEF Same
  <2>5. Apart(v)
    <3> HIDE DEF v
    <3> SUFFICES ASSUME NEW i \in 1 .. Len(s) + 1, NEW j \in 1 .. Len(s) + 1, i # j
                 PROVE  ~Same(v[i], v[j])
      BY <2>4 DEF Apart
    <3>1. CASE i = Len(s) + 1
      BY <2>2, <2>4, <3>1
    <3>2. CASE j = Len(s) + 1
      BY <2>2, <2>4, <3>2
    <3>3. CASE i # Len(s) + 1 /\ j # Len(s) + 1
      <4>1. i \in 1 .. Len(s) /\ j \in 1 .. Len(s)
        BY <2>4, <3>3
      <4> QED
        BY <2>2, <2>4, <4>1 DEF Apart
    <3> QED
      BY <3>1, <3>2, <3>3
  <2> HIDE DEF v
  <2> QED
    BY <2>2, <2>3, <2>5
<1> QED
  BY <1>1, <1>2

LEMMA RecordDeleted ==
    ASSUME NEW t \in Tree, NEW r \in Request, Apart(t.requests),
           NEW u, u = bkp_session_delete(t, r)
    PROVE  /\ u \in Tree /\ u.done = t.done /\ Apart(u.requests)
           /\ ToSet(u.requests) \subseteq ToSet(t.requests)
           /\ \A x \in ToSet(t.requests) : ~Same(x, r) => x \in ToSet(u.requests)
           /\ \A x \in ToSet(u.requests) : ~Same(x, r)
<1> DEFINE s == t.requests
           I == {i \in 1 .. Len(s) : Same(s[i], r)}
<1>0. s \in Seq(Request) /\ t.done \in SUBSET Id
  BY DEF Tree
<1>1. /\ Len(s) \in Nat /\ DOMAIN s = 1 .. Len(s) /\ I \in SUBSET Nat
      /\ \A x : x \in ToSet(s) <=> \E i \in 1 .. Len(s) : s[i] = x
  BY <1>0, ElementsOf
<1>2. CASE I = {}
  <2>1. u = t
    BY <1>1, <1>2 DEF bkp_session_delete, SelectInSeq
  <2> QED
    BY <1>1, <1>2, <2>1
<1>3. CASE I # {}
  <2>1. PICK a \in 1 .. Len(s) : a = Min(I) /\ Same(s[a], r)
    BY <1>1, <1>3, MinNat
  <2> DEFINE v == RemoveAt(s, a)
  <2>2. u = [t EXCEPT !.requests = v]
    BY <1>1, <1>3, <2>1 DEF bkp_session_delete, SelectInSeq
  <2>3. v \in Seq(Request)
    BY <1>0, RemoveAtProperties
  <2>4. /\ Picked(v, s) /\ ToSet(v) \subseteq ToSet(s)
        /\ \A x \in ToSet(s) : x # s[a] => x \in ToSet(v)
        /\ \A x \in ToSet(v) : \E j \in 1 .. Len(s) : j # a /\ s[j] = x
    BY <1>0, ElementsRemoved
  <2> HIDE DEF v, I
  <2>5. u \in Tree /\ u.requests = v /\ u.done = t.done
    BY <2>2, <2>3 DEF Tree
  <2>6. Apart(v)
    BY <1>0, <2>3, <2>4, PickedApart
  <2>7. ASSUME NEW x \in ToSet(v) PROVE ~Same(x, r)
    <3>1. PICK j \in 1 .. Len(s) : j # a /\ s[j] = x
      BY <2>4
    <3>2. ~Same(s[j], s[a])
      BY <1>1, <3>1 DEF Apart
    <3> QED
      BY <2>1, <3>1, <3>2 DEF Same
  <2>8. ASSUME NEW x \in ToSet(s), ~Same(x, r) PROVE x \in ToSet(v)
    BY <2>1, <2>4, <2>8
  <2> QED
    BY <2>4, <2>5, <2>6, <2>7, <2>8
<1> QED
  BY <1>2, <1>3

-----------------------------------------------------------------------------
(* The facts every step starts from.                                       *)
LEMMA InvFacts ==
    ASSUME TransferInv
    PROVE  /\ \A k \in Kinds : /\ list[k] \in Seq(Request) /\ ToSet(list[k]) \subseteq accepted
                               /\ InOrder(list[k]) /\ Single(list[k])
                               /\ pc[k] \in ThreadPc /\ tmp[k] \in Int
                               /\ cur[k] \in Request \union {None}
           /\ tree \in Tree /\ file \in Tree
           /\ tree.requests \in Seq(Request) /\ file.requests \in Seq(Request) /\ rest \in Seq(Request)
           /\ tree.done \subseteq Id /\ file.done \subseteq Id
           /\ ToSet(tree.requests) \subseteq accepted /\ ToSet(file.requests) \subseteq accepted
           /\ accepted \subseteq Request
           /\ \A r \in accepted : /\ r.id \in Id /\ r.id \in Nat /\ r.kind \in Kinds /\ r.time \in Nat
                                  /\ r # None
                                  /\ raised[r.id] \in Nat /\ runs[r.id] \in Nat
           /\ \A i \in Id : raised[i] \in Nat /\ runs[i] \in Nat
           /\ count \in Int /\ Cardinality(accepted) \in Nat /\ IsFiniteSet(accepted)
<1>1. /\ \A k \in Kinds : /\ list[k] \in Seq(Request) /\ pc[k] \in ThreadPc /\ tmp[k] \in Int
                          /\ cur[k] \in Request \union {None}
      /\ tree \in Tree /\ file \in Tree /\ rest \in Seq(Request)
      /\ accepted \subseteq Request /\ count \in Int
      /\ \A i \in Id : raised[i] \in Nat /\ runs[i] \in Nat
  BY DEF TransferInv, TypeOK
<1>2. /\ tree.requests \in Seq(Request) /\ file.requests \in Seq(Request)
      /\ tree.done \subseteq Id /\ file.done \subseteq Id
  BY <1>1 DEF Tree
<1>3. \A r \in accepted : /\ r.id \in Id /\ r.id \in Nat /\ r.kind \in Kinds /\ r.time \in Nat
                          /\ r # None
  BY <1>1, RequestFields
<1>4. \A k \in Kinds : ToSet(list[k]) \subseteq accepted /\ InOrder(list[k]) /\ Single(list[k])
  BY DEF TransferInv, Known, Sorted, Distinct, InOrder
<1>5. ToSet(tree.requests) \subseteq accepted /\ ToSet(file.requests) \subseteq accepted
  BY DEF TransferInv, Known
<1>6. Cardinality(accepted) \in Nat /\ IsFiniteSet(accepted)
  BY FS_CardinalityType DEF TransferInv, Numbered
<1> QED
  BY <1>1, <1>2, <1>3, <1>4, <1>5, <1>6

LEMMA TransferInitInv == Init => TransferInv
<1> SUFFICES ASSUME Init PROVE TransferInv
  OBVIOUS
<1>1. <<>> \in Seq(Request) /\ ToSet(<<>>) = {} /\ Apart(<<>>) /\ Single(<<>>)
  BY DEF ToSet, Apart, Single
<1>2. Empty \in Tree /\ Empty.requests = <<>> /\ Empty.done = {}
  BY <1>1 DEF Empty, Tree
<1>3. TypeOK
  <2>1. raised \in [Id -> Nat] /\ runs \in [Id -> Nat] /\ now \in 1 .. MaxTime
        /\ restarts \in 0 .. MaxRestarts
    BY NumbersAssumption DEF Init
  <2>2. tree \in Tree /\ file \in Tree /\ rest \in Seq(Request)
    BY <1>1, <1>2 DEF Init
  <2>3. /\ list \in [Kinds -> Seq(Request)] /\ pc \in [Kinds -> ThreadPc]
        /\ cur \in [Kinds -> Request \union {None}] /\ tmp \in [Kinds -> Int]
        /\ owner \in [Mutex -> Thread \union {"none"}]
    BY <1>1 DEF Init, ThreadPc
  <2>4. /\ mpc \in MainPc /\ victim \in Request \union {None} /\ count \in Int
        /\ answer \in {"ok", "invalid", "denied", "protocol", "resources"}
    BY DEF Init, MainPc
  <2>5. accepted \subseteq Request /\ cancelled \union discarded \subseteq Id
        /\ failed \subseteq Id /\ cut \subseteq Id
    BY DEF Init
  <2> QED
    BY <2>1, <2>2, <2>3, <2>4, <2>5 DEF TypeOK
<1>4. Sorted /\ AtMostOnce
  BY <1>1 DEF Init, Sorted, AtMostOnce
<1>5. Numbered
  <2>1. IsFiniteSet(accepted)
    BY FS_EmptySet DEF Init
  <2> QED
    BY <1>2, <2>1 DEF Init, Numbered
<1>6. Known /\ Distinct
  BY <1>1, <1>2 DEF Init, Known, Distinct
<1>7. Pending(tree) /\ Pending(file) /\ file.done \ failed \subseteq tree.done
  BY <1>1, <1>2 DEF Init, Pending
<1>8. Places /\ Waiting /\ SendHeld /\ Loading /\ Kept
  <2>1. \A k \in Kinds : /\ pc[k] \notin InHand \union Uncounted \union Sending
                         /\ pc[k] \notin {"expire", "launch", "expiring", "expired", "running", "fault",
                                          "apply", "report", "release", "unlink", "down"}
    BY DEF Init, InHand, Uncounted, Sending
  <2>2. mpc \notin {"session", "cancel", "remove", "down", "load"} \union Kinds
    BY KindNames DEF Init
  <2>3. Places /\ SendHeld
    BY <2>1, <2>2 DEF Places, SendHeld
  <2>4. Waiting /\ Loading /\ Kept
    BY <1>1, <2>1, <2>2 DEF Init, Waiting, Loading, Kept
  <2> QED
    BY <2>3, <2>4
<1>9. Counted
  <2>1. \A k \in Kinds : pc[k] \notin InHand \union Uncounted \union Holding
    BY DEF Init, InHand, Uncounted, Holding, Sending
  <2>2. Delayed = {} /\ HalfCounted = {}
    BY <1>1, <2>1 DEF Init, Delayed, HalfCounted
  <2>3. count = Cardinality(Delayed) + Cardinality(HalfCounted)
    BY <2>2, FS_EmptySet DEF Init
  <2> QED
    BY <2>1, <2>3 DEF Init, Counted
<1> QED
  BY <1>3, <1>4, <1>5, <1>6, <1>7, <1>8, <1>9 DEF TransferInv

-----------------------------------------------------------------------------
(* Main between sessions and requests, and the clock.                      *)
LEMMA MainInv ==
    ASSUME TransferInv, NEW k, NEW key,
           \/ session_begin \/ session_end \/ cancel_transfer_find(key)
           \/ bootstrap_begin \/ (k \in Kinds /\ remove_begin(k))
    PROVE  TransferInv'
<1>1. /\ UNCHANGED <<now, list, count, pc, cur, tmp, answer, tree, file, rest, restarts, accepted,
                     cancelled, discarded, raised, runs, failed, cut>>
      /\ mpc \in {"idle", "session", "remove"}
      /\ mpc' \in {"idle", "session", "cancel", "remove"} \/ (k \in Kinds /\ mpc' = k)
  BY DEF session_begin, session_end, cancel_transfer_find, bootstrap_begin, remove_begin, threadVars,
         fileVars, histVars
<1>2. mpc \notin {"down", "load"} \union Kinds /\ mpc' \notin {"down", "load"} /\ mpc' \in MainPc
  BY <1>1, KindNames DEF MainPc
<1>3. (victim' # None => victim' \in accepted) /\ (mpc' = "cancel" => victim' # None)
  <2>1. CASE cancel_transfer_find(key)
    BY <2>1, InvFacts DEF cancel_transfer_find
  <2>2. CASE ~cancel_transfer_find(key)
    <3>1. victim' = victim /\ (mpc' \in {"idle", "session", "remove"} \/ (k \in Kinds /\ mpc' = k))
      BY <2>2 DEF session_begin, session_end, bootstrap_begin, remove_begin
    <3> QED
      BY <3>1, KindNames DEF TransferInv, Known
  <2> QED
    BY <2>1, <2>2
<1>4. /\ owner' \in [Mutex -> Thread \union {"none"}]
      /\ \A j \in Kinds : pc[j] \in Sending => owner'["send"] = j
      /\ mpc' \in {"session", "cancel", "remove"} \union Kinds => owner'["send"] = "main"
      /\ \/ mpc' \notin Kinds /\ \A j \in Kinds : owner'[j] = owner[j]
         \/ /\ k \in Kinds /\ mpc' = k /\ owner[k] = "none" /\ owner'[k] = "main"
            /\ \A j \in Kinds \ {k} : owner'[j] = owner[j]
  <2>1. /\ owner \in [Mutex -> Thread \union {"none"}] /\ "main" \in Thread
        /\ "send" \in Mutex /\ "queue" \in Mutex /\ (k \in Kinds => k \in Mutex)
        /\ \A j \in Kinds : pc[j] \in Sending => owner["send"] = j
        /\ mpc \in {"session", "remove"} => owner["send"] = "main"
    BY KindNames DEF TransferInv, TypeOK, Thread, Mutex, SendHeld
  <2>2. CASE session_begin
    <3>1. owner["send"] = "none" /\ owner' = [owner EXCEPT !["send"] = "main"] /\ mpc' = "session"
      BY <2>2 DEF session_begin, Take, Free
    <3> QED
      BY <2>1, <3>1, KindNames
  <2>3. CASE session_end
    <3>1. owner["send"] = "main" /\ owner' = [owner EXCEPT !["send"] = "none"] /\ mpc' = "idle"
      BY <2>1, <2>3 DEF session_end
    <3> QED
      BY <2>1, <3>1, KindNames
  <2>4. CASE cancel_transfer_find(key)
    <3>1. owner' = owner /\ mpc' = "cancel" /\ mpc = "session"
      BY <2>4 DEF cancel_transfer_find
    <3> QED
      BY <2>1, <3>1, KindNames
  <2>5. CASE bootstrap_begin
    <3>1. owner' = [owner EXCEPT !["queue"] = "main"] /\ mpc' = "remove" /\ mpc = "session"
      BY <2>5 DEF bootstrap_begin, Take
    <3> QED
      BY <2>1, <3>1, KindNames
  <2>6. CASE k \in Kinds /\ remove_begin(k)
    <3>1. owner[k] = "none" /\ owner' = [owner EXCEPT ![k] = "main"] /\ mpc' = k /\ mpc = "remove"
      BY <2>6 DEF remove_begin, Take, Free
    <3> QED
      BY <2>1, <3>1, KindNames
  <2> QED
    BY <2>2, <2>3, <2>4, <2>5, <2>6
<1>5. TypeOK'
  <2>1. victim' \in Request \union {None}
    BY <1>3, InvFacts
  <2> QED
    BY <1>1, <1>2, <1>4, <2>1 DEF TransferInv, TypeOK
<1>6. Sorted' /\ AtMostOnce' /\ Numbered' /\ Distinct' /\ Pending(tree)' /\ Pending(file)'
      /\ (file.done \ failed \subseteq tree.done)'
  BY <1>1 DEF TransferInv, Sorted, AtMostOnce, Numbered, Distinct, Apart, Single, Pending
<1>7. Known' /\ Places' /\ Waiting' /\ SendHeld'
  BY <1>1, <1>3, <1>4 DEF TransferInv, Known, Places, OnRecord, Waiting, SendHeld
<1>8. Loading' /\ Kept'
  BY <1>1, <1>2 DEF TransferInv, Loading, Kept, Twins, Exempt, OnFile
<1>9. Counted'
  <2> SUFFICES ASSUME OneKind, cancelled \union discarded = {}
               PROVE  /\ \A j \in Kinds : pc[j] \in Holding => owner'[j] = j
                      /\ \A r \in accepted : mpc' = r.kind => owner'[r.kind] = "main"
    BY <1>1 DEF TransferInv, Counted, OneKind, HalfCounted, Delayed
  <2>1. \A j \in Kinds : pc[j] \in Holding => owner[j] = j /\ j # "none"
    BY KindNames DEF TransferInv, Counted
  <2>2. \A r \in accepted : r.kind \in Kinds
    BY InvFacts
  <2> QED
    BY <1>4, <2>1, <2>2
<1> QED
  BY <1>5, <1>6, <1>7, <1>8, <1>9 DEF TransferInv

LEMMA ClockInv ==
    ASSUME TransferInv, tick \/ UNCHANGED vars
    PROVE  TransferInv'
<1>1. /\ UNCHANGED <<list, count, owner, pc, cur, tmp, mpc, victim, answer, tree, file, rest,
                     restarts, accepted, cancelled, discarded, raised, runs, failed, cut>>
      /\ now' \in 1 .. MaxTime
  BY NumbersAssumption DEF tick, vars, threadVars, fileVars, histVars, TransferInv, TypeOK
<1> QED
  BY <1>1 DEF TransferInv, TypeOK, Sorted, AtMostOnce, Numbered, Known, Distinct, Apart, Single,
              Pending, Places, OnRecord, Waiting, SendHeld, Loading, Kept, Twins, Exempt, OnFile,
              Counted, OneKind, HalfCounted, Delayed

-----------------------------------------------------------------------------
(* The threads.                                                            *)
LEMMA GotoFacts ==
    ASSUME TransferInv, NEW k \in Kinds, NEW p \in ThreadPc, Goto(k, p)
    PROVE  /\ pc' \in [Kinds -> ThreadPc] /\ pc'[k] = p
           /\ \A j \in Kinds : j # k => pc'[j] = pc[j]
BY DEF TransferInv, TypeOK, Goto

(* Steps without a mutex: the look at the list and the waits.              *)
LEMMA LookInv ==
    ASSUME TransferInv, NEW k \in Kinds,
           Look(k) \/ Wait(k) \/ Sleep(k) \/ Timer(k) \/ Woken(k)
    PROVE  TransferInv'
<1>1. /\ UNCHANGED <<now, list, count, owner, tmp, mpc, victim, answer, tree, file, rest,
                     restarts, accepted, cancelled, discarded, raised, runs, failed, cut>>
      /\ pc[k] \in {"look", "towait", "tosleep", "sleeping", "woken"}
  BY DEF Look, Wait, Sleep, Timer, Woken, Unlocked, fileVars, histVars
<1>2. /\ pc' \in [Kinds -> ThreadPc]
      /\ pc'[k] \in {"towait", "expire", "launch", "tosleep", "waiting", "sleeping", "woken", "look"}
      /\ \A j \in Kinds : j # k => pc'[j] = pc[j]
  <2>1. \E p \in {"towait", "expire", "launch", "tosleep", "waiting", "sleeping", "woken", "look"} :
          Goto(k, p)
    BY DEF Look, Wait, Sleep, Timer, Woken
  <2>2. PICK p \in {"towait", "expire", "launch", "tosleep", "waiting", "sleeping", "woken", "look"} :
          Goto(k, p)
    BY <2>1
  <2>3. p \in ThreadPc
    BY DEF ThreadPc
  <2> QED
    BY <2>2, <2>3, GotoFacts
<1>3. /\ cur' \in [Kinds -> Request \union {None}]
      /\ \A j \in Kinds : j # k => cur'[j] = cur[j]
      /\ \/ cur'[k] = cur[k] /\ pc'[k] \notin {"expire", "launch"}
         \/ cur'[k] \in ToSet(list[k]) /\ cur'[k] \in accepted
  <2>0. cur \in [Kinds -> Request \union {None}] /\ accepted \subseteq Request
    BY DEF TransferInv, TypeOK
  <2>1. CASE Look(k) /\ list[k] # <<>>
    <3>1. cur' = [cur EXCEPT ![k] = Head(list[k])]
      BY <2>1 DEF Look
    <3>2. Head(list[k]) \in ToSet(list[k]) /\ Head(list[k]) \in accepted
      BY <2>1, InvFacts, HeadAndTail
    <3> QED
      BY <2>0, <3>1, <3>2
  <2>2. CASE ~(Look(k) /\ list[k] # <<>>)
    <3>1. /\ cur' = cur
          /\ \E p \in {"towait", "waiting", "sleeping", "woken", "look"} : Goto(k, p)
      BY <2>2 DEF Look, Wait, Sleep, Timer, Woken
    <3>2. pc'[k] \notin {"expire", "launch"}
      BY <3>1 DEF Goto, TransferInv, TypeOK
    <3> QED
      BY <2>0, <3>1, <3>2
  <2> QED
    BY <2>1, <2>2
<1>4. pc[k] \notin InHand \union Uncounted \union Holding \union Sending \union {"down"}
  BY <1>1 DEF InHand, Uncounted, Holding, Sending
<1>5. pc'[k] \notin Uncounted \union Holding \union Sending \union {"down"}
  BY <1>2 DEF Uncounted, Holding, Sending
<1>6. pc'[k] \in InHand => pc'[k] \in {"expire", "launch"}
  BY <1>2 DEF InHand, Sending
<1>7. \A r \in ToSet(list[k]) : runs[r.id] = 0 /\ raised[r.id] = 0
  BY <1>4 DEF TransferInv, Waiting
<1>8. TypeOK'
  BY <1>1, <1>2, <1>3 DEF TransferInv, TypeOK
<1>9. Sorted' /\ AtMostOnce' /\ Numbered' /\ Distinct' /\ Pending(tree)' /\ Pending(file)'
      /\ (file.done \ failed \subseteq tree.done)'
  BY <1>1 DEF TransferInv, Sorted, AtMostOnce, Numbered, Distinct, Apart, Single, Pending
<1>10. Known'
  BY <1>1, <1>3 DEF TransferInv, Known
<1>11. Places'
  BY <1>1, <1>2, <1>3, <1>5, <1>6, <1>7 DEF TransferInv, Places, OnRecord
<1>12. Waiting'
  BY <1>1, <1>2, <1>3, <1>7 DEF TransferInv, Waiting
<1>13. SendHeld'
  BY <1>1, <1>2, <1>5 DEF TransferInv, SendHeld
<1>14. Loading'
  BY <1>1, <1>2, <1>4, <1>5 DEF TransferInv, Loading
<1>15. Kept'
  <2>1. \A r \in accepted : r = cur[r.kind] /\ pc[r.kind] = "running" =>
                            r = cur'[r.kind] /\ pc'[r.kind] = "running"
    BY <1>1, <1>2, <1>3, InvFacts
  <2> QED
    BY <1>1, <2>1 DEF TransferInv, Kept, Twins, Exempt, OnFile
<1>16. Counted'
  <2> SUFFICES ASSUME OneKind, cancelled \union discarded = {}
               PROVE  /\ \A j \in Kinds :
                           /\ pc'[j] \in InHand => cur'[j] \in ToSet(list[j])
                           /\ pc'[j] \in Holding => owner[j] = j
                           /\ pc'[j] \in Uncounted => tmp[j] = count
                      /\ \A r \in accepted : mpc = r.kind => owner[r.kind] = "main"
                      /\ (count = Cardinality(Delayed) + Cardinality(HalfCounted))'
    BY <1>1 DEF Counted, OneKind
  <2>1. HalfCounted' = HalfCounted
    BY <1>2, <1>3, <1>4, <1>5 DEF HalfCounted
  <2>2. (count = Cardinality(Delayed) + Cardinality(HalfCounted))'
    BY <1>1, <2>1 DEF TransferInv, Counted, Delayed
  <2> QED
    BY <1>2, <1>3, <1>5, <1>6, <2>2 DEF TransferInv, Counted
<1> QED
  BY <1>8, <1>9, <1>10, <1>11, <1>12, <1>13, <1>14, <1>15, <1>16 DEF TransferInv

(* A thread with a request in hand.                                        *)
LEMMA ThreadFacts ==
    ASSUME TransferInv, NEW k \in Kinds, pc[k] \in InHand \union Uncounted
    PROVE  /\ cur[k] \in accepted /\ cur[k].kind = k /\ cur[k].id \in Id /\ cur[k] \in Request
           /\ cur[k].id <= Cardinality(accepted)
           /\ \A x \in accepted : x # cur[k] => x.id # cur[k].id
           /\ \A j \in Kinds : j # k /\ pc[j] \in InHand \union Uncounted => cur[j].id # cur[k].id
           /\ mpc \notin {"down", "load"} /\ pc[k] # "down"
           /\ \A x \in accepted : x # cur[k] /\ x = cur[x.kind] /\ pc[x.kind] = "running" => x.kind # k
<1>1. cur[k] \in accepted /\ cur[k] # None
  BY InvFacts DEF TransferInv, Places
<1>2. cur[k].kind = k
  BY <1>1 DEF TransferInv, Known
<1>3. cur[k].id <= Cardinality(accepted) /\ \A x \in accepted : x # cur[k] => x.id # cur[k].id
  BY <1>1 DEF TransferInv, Numbered
<1>4. ASSUME NEW j \in Kinds, j # k, pc[j] \in InHand \union Uncounted
      PROVE  cur[j].id # cur[k].id
  <2>1. cur[j] \in accepted /\ cur[j] # None
    BY <1>4, InvFacts DEF TransferInv, Places
  <2>2. cur[j].kind = j
    BY <2>1 DEF TransferInv, Known
  <2> QED
    BY <1>2, <1>3, <1>4, <2>1, <2>2
<1>5. pc[k] # "down"
  BY DEF InHand, Uncounted, Sending
<1>6. mpc \notin {"down", "load"}
  BY <1>5 DEF TransferInv, Loading
<1> QED
  BY <1>1, <1>2, <1>3, <1>4, <1>5, <1>6, InvFacts

(* With one kind of requests the other thread has none in hand.            *)
LEMMA OthersIdle ==
    ASSUME TransferInv, OneKind, NEW k \in Kinds, pc[k] \in InHand \union Uncounted
    PROVE  /\ \A j \in Kinds : j # k => pc[j] \notin InHand \union Uncounted \union Holding
           /\ \A x \in accepted : x.kind = k
<1>1. cur[k] \in accepted /\ cur[k].kind = k
  BY ThreadFacts
<1>2. \A x \in accepted : x.kind = k
  BY <1>1 DEF OneKind
<1>3. \A j \in Kinds : pc[j] \in InHand \union Uncounted => j = k
  BY <1>2, ThreadFacts
<1>4. Holding \subseteq InHand \union Uncounted
  BY DEF Holding, InHand, Uncounted
<1> QED
  BY <1>2, <1>3, <1>4

(* A record leaves the tree.                                               *)
LEMMA RecordGone ==
    ASSUME TransferInv, NEW r \in accepted, NEW u, u = bkp_session_delete(tree, r)
    PROVE  /\ u \in Tree /\ u.done = tree.done /\ Apart(u.requests)
           /\ ToSet(u.requests) \subseteq ToSet(tree.requests)
           /\ \A x \in ToSet(u.requests) : x.id # r.id
           /\ \A x \in accepted \ Twins : x # r /\ x \in ToSet(tree.requests) => x \in ToSet(u.requests)
<1>1. /\ u \in Tree /\ u.done = tree.done /\ Apart(u.requests)
      /\ ToSet(u.requests) \subseteq ToSet(tree.requests)
      /\ \A x \in ToSet(tree.requests) : ~Same(x, r) => x \in ToSet(u.requests)
      /\ \A x \in ToSet(u.requests) : ~Same(x, r)
  BY InvFacts, RecordDeleted, ZenonT(90) DEF TransferInv, Distinct
<1>2. ASSUME NEW x \in ToSet(u.requests) PROVE x.id # r.id
  <2>1. x # r /\ x \in accepted
    BY <1>1, InvFacts DEF Same
  <2> QED
    BY <2>1 DEF TransferInv, Numbered
<1>3. ASSUME NEW x \in accepted \ Twins, x # r PROVE ~Same(x, r)
  BY <1>3 DEF Twins, Same
<1> QED
  BY <1>1, <1>2, <1>3

(* The tree with a request done, or not done any more.                     *)
LEMMA DoneFacts ==
    ASSUME NEW t \in Tree, NEW r \in Request
    PROVE  /\ Done(t, r) \in Tree /\ Done(t, r).requests = t.requests
           /\ Done(t, r).done = t.done \union {r.id}
           /\ Undone(t, r) \in Tree /\ Undone(t, r).requests = t.requests
           /\ Undone(t, r).done = t.done \ {r.id}
BY RequestFields DEF Tree, Done, Undone

LEMMA ExpireInv ==
    ASSUME TransferInv, NEW k \in Kinds, Expire(k)
    PROVE  TransferInv'
<1> DEFINE r == cur[k]
           u == bkp_session_delete(tree, r)
<1>1. /\ UNCHANGED <<now, list, count, cur, tmp, mpc, victim, answer, file, rest, restarts,
                     accepted, cancelled, discarded, raised, runs, failed, cut>>
      /\ pc[k] = "expire" /\ Goto(k, "expiring") /\ owner[k] = "none"
      /\ owner' = [owner EXCEPT ![k] = k]
      /\ tree' = Done(u, r)
  BY DEF Expire, Take, Free, histVars
<1>2. pc' \in [Kinds -> ThreadPc] /\ pc'[k] = "expiring" /\ \A j \in Kinds : j # k => pc'[j] = pc[j]
  BY <1>1, GotoFacts DEF ThreadPc, Holding
<1>3. pc[k] \in InHand /\ pc'[k] \in InHand /\ pc'[k] \notin Uncounted \union Sending
  BY <1>1, <1>2 DEF InHand, Uncounted, Sending
<1>4. /\ r \in accepted /\ r.kind = k /\ r.id \in Id /\ r \in Request
      /\ r.id <= Cardinality(accepted) /\ \A x \in accepted : x # r => x.id # r.id
      /\ mpc \notin {"down", "load"}
  BY <1>3, ThreadFacts
<1>5. /\ u \in Tree /\ u.done = tree.done /\ Apart(u.requests)
      /\ ToSet(u.requests) \subseteq ToSet(tree.requests)
      /\ \A x \in ToSet(u.requests) : x.id # r.id
      /\ \A x \in accepted \ Twins : x # r /\ x \in ToSet(tree.requests) => x \in ToSet(u.requests)
  BY <1>4, RecordGone
<1> HIDE DEF u
<1>6. tree' \in Tree /\ tree'.requests = u.requests /\ tree'.done = tree.done \union {r.id}
  BY <1>1, <1>4, <1>5, DoneFacts
<1>7. /\ owner' \in [Mutex -> Thread \union {"none"}] /\ owner'[k] = k
      /\ \A m \in Mutex : m # k => owner'[m] = owner[m]
      /\ owner'["send"] = owner["send"]
  BY <1>1, KindNames DEF TransferInv, TypeOK, Mutex
<1>8. TypeOK'
  BY <1>1, <1>2, <1>6, <1>7 DEF TransferInv, TypeOK
<1>9. Sorted' /\ AtMostOnce' /\ Numbered' /\ Known'
  BY <1>1, <1>4, <1>5, <1>6, InvFacts DEF TransferInv, Sorted, AtMostOnce, Numbered, Known
<1>10. Distinct'
  BY <1>1, <1>5, <1>6 DEF TransferInv, Distinct, Apart, Single
<1>11. Pending(tree)' /\ Pending(file)' /\ (file.done \ failed \subseteq tree.done)'
  BY <1>1, <1>5, <1>6 DEF TransferInv, Pending
<1>12. Places'
  BY <1>1, <1>2, <1>4, <1>6 DEF TransferInv, Places, OnRecord
<1>13. Waiting' /\ SendHeld' /\ Loading'
  BY <1>1, <1>2, <1>3, <1>4, <1>7 DEF TransferInv, Waiting, SendHeld, Loading
<1>14. Kept'
  <2> SUFFICES ASSUME NEW x \in accepted \ Twins, x.id \notin Exempt
               PROVE  OnFile(tree, x)' /\ OnFile(file, x)'
                      /\ (x \in ToSet(list[x.kind]) \/ raised[x.id] > 0 \/ x.id \in file.done)
    BY <1>1, <1>4 DEF Kept, Twins, Exempt
  <2>1. /\ OnFile(tree, x) /\ OnFile(file, x)
        /\ x \in ToSet(list[x.kind]) \/ raised[x.id] > 0 \/ x.id \in file.done
    BY <1>4 DEF TransferInv, Kept
  <2>2. x = cur[x.kind] /\ pc[x.kind] = "running" => x.kind # k
    BY <1>1
  <2>3. x.kind \in Kinds
    BY InvFacts
  <2>4. OnFile(file, x)'
    BY <1>1, <1>2, <2>1, <2>2, <2>3 DEF OnFile
  <2>5. OnFile(tree, x)'
    BY <1>1, <1>2, <1>5, <1>6, <2>1, <2>2, <2>3 DEF OnFile
  <2> QED
    BY <2>1, <2>4, <2>5
<1>15. Counted'
  <2> SUFFICES ASSUME OneKind, cancelled \union discarded = {}
               PROVE  /\ \A j \in Kinds :
                           /\ pc'[j] \in InHand => cur[j] \in ToSet(list[j])
                           /\ pc'[j] \in Holding => owner'[j] = j
                           /\ pc'[j] \in Uncounted => tmp[j] = count
                      /\ \A x \in accepted : mpc = x.kind => owner'[x.kind] = "main"
                      /\ (count = Cardinality(Delayed) + Cardinality(HalfCounted))'
    BY <1>1 DEF Counted, OneKind
  <2>1. HalfCounted' = HalfCounted /\ Delayed' = Delayed
    BY <1>1, <1>2 DEF HalfCounted, Uncounted, Delayed
  <2>2. \A x \in accepted : x.kind = k /\ mpc # k
    BY <1>1, <1>3, <1>4, OthersIdle DEF TransferInv, Counted
  <2>3. \A j \in Kinds : j # k => pc'[j] \notin InHand \union Uncounted \union Holding
    BY <1>2, <1>3, OthersIdle
  <2> QED
    BY <1>1, <1>2, <1>3, <1>7, <2>1, <2>2, <2>3 DEF TransferInv, Counted
<1> QED
  BY <1>8, <1>9, <1>10, <1>11, <1>12, <1>13, <1>14, <1>15 DEF TransferInv

(* A request is reported.                                                  *)
LEMMA ReportInv ==
    ASSUME TransferInv, NEW k \in Kinds, ExpireReport(k) \/ Report(k)
    PROVE  TransferInv'
<1> DEFINE r == cur[k]
<1>1. /\ UNCHANGED <<now, list, count, owner, cur, tmp, mpc, victim, answer, tree, file, rest,
                     restarts, accepted, cancelled, discarded, runs, failed, cut>>
      /\ raised' = [raised EXCEPT ![r.id] = @ + 1]
      /\ \/ pc[k] = "expiring" /\ Goto(k, "expired")
         \/ pc[k] = "report" /\ Goto(k, "release")
  BY DEF ExpireReport, Report, Reported, fileVars
<1>2. /\ pc' \in [Kinds -> ThreadPc] /\ \A j \in Kinds : j # k => pc'[j] = pc[j]
      /\ \/ pc[k] = "expiring" /\ pc'[k] = "expired"
         \/ pc[k] = "report" /\ pc'[k] = "release"
  BY <1>1, GotoFacts DEF ThreadPc, Holding, Sending
<1>3. /\ pc[k] \in InHand /\ pc'[k] \in InHand /\ pc'[k] \notin Uncounted \union {"down"}
      /\ pc[k] \notin Uncounted
      /\ pc'[k] \in Sending <=> pc[k] \in Sending
      /\ pc'[k] \in Holding <=> pc[k] \in Holding
  BY <1>2 DEF InHand, Uncounted, Sending, Holding
<1>4. /\ r \in accepted /\ r.kind = k /\ r.id \in Id
      /\ r.id <= Cardinality(accepted) /\ \A x \in accepted : x # r => x.id # r.id
      /\ \A j \in Kinds : j # k /\ pc[j] \in InHand \union Uncounted => cur[j].id # r.id
      /\ mpc \notin {"down", "load"}
  BY <1>3, ThreadFacts
<1>5. raised[r.id] = 0
  BY <1>2 DEF TransferInv, Places
<1>6. /\ raised' \in [Id -> Nat] /\ raised'[r.id] = 1
      /\ \A i \in Id : i # r.id => raised'[i] = raised[i]
      /\ \A i \in Id : raised[i] > 0 => raised'[i] > 0
  BY <1>1, <1>4, <1>5 DEF TransferInv, TypeOK
<1>7. TypeOK'
  BY <1>1, <1>2, <1>6 DEF TransferInv, TypeOK
<1>8. Sorted' /\ AtMostOnce' /\ Known' /\ Distinct' /\ Pending(tree)' /\ Pending(file)'
      /\ (file.done \ failed \subseteq tree.done)'
  BY <1>1, <1>6 DEF TransferInv, Sorted, AtMostOnce, Known, Distinct, Apart, Single, Pending
<1>9. Numbered'
  <2>1. \A i \in Id : i > Cardinality(accepted) => i # r.id
    BY <1>4, InvFacts
  <2> QED
    BY <1>1, <1>6, <2>1 DEF TransferInv, Numbered
<1>10. Places'
  <2> SUFFICES ASSUME NEW j \in Kinds, pc'[j] \in InHand \union Uncounted
               PROVE  /\ cur[j] \in accepted
                      /\ pc'[j] \in {"expire", "launch", "expiring"} => runs[cur[j].id] = 0 /\ raised'[cur[j].id] = 0
                      /\ pc'[j] = "expired" => raised'[cur[j].id] > 0
                      /\ pc'[j] = "running" => runs[cur[j].id] > 0
                      /\ pc'[j] \in {"running", "fault", "apply", "report"} => raised'[cur[j].id] = 0
                      /\ pc'[j] \in {"fault", "apply", "report", "release", "unlink"} => OnRecord(cur[j].id)
    BY <1>1 DEF Places, OnRecord, InHand, Uncounted, Sending
  <2>1. CASE j = k
    BY <1>2, <1>4, <1>6, <2>1 DEF TransferInv, Places
  <2>2. CASE j # k
    <3>1. pc'[j] = pc[j] /\ cur[j].id # r.id
      BY <1>2, <1>4, <2>2
    <3>2. cur[j] \in accepted /\ raised'[cur[j].id] = raised[cur[j].id]
      BY <1>6, <3>1, InvFacts DEF TransferInv, Places
    <3> QED
      BY <3>1, <3>2 DEF TransferInv, Places
  <2> QED
    BY <2>1, <2>2
<1>11. Waiting'
  <2> SUFFICES ASSUME NEW j \in Kinds, NEW x \in ToSet(list[j])
               PROVE  \/ runs[x.id] = 0 /\ raised'[x.id] = 0
                      \/ x = cur[j] /\ pc'[j] \in InHand
    BY <1>1 DEF Waiting
  <2>1. x \in accepted /\ x.kind = j /\ x.id \in Id
    BY InvFacts DEF TransferInv, Known
  <2>2. CASE x = r
    BY <1>3, <1>4, <2>1, <2>2
  <2>3. CASE x # r
    <3>1. raised'[x.id] = raised[x.id]
      BY <1>4, <1>6, <2>1, <2>3
    <3>2. (runs[x.id] = 0 /\ raised[x.id] = 0) \/ (x = cur[j] /\ pc[j] \in InHand)
      <4>1. Waiting
        BY DEF TransferInv
      <4> QED
        BY <4>1, Zenon DEF Waiting
    <3> QED
      BY <1>2, <1>3, <3>1, <3>2
  <2> QED
    BY <2>2, <2>3
<1>12. SendHeld' /\ Loading'
  BY <1>1, <1>2, <1>3, <1>4 DEF TransferInv, SendHeld, Loading
<1>13. Kept'
  <2>1. \A x \in accepted : x = cur[x.kind] /\ pc[x.kind] = "running" => pc'[x.kind] = "running"
    BY <1>2, InvFacts
  <2>2. \A x \in accepted : x.id \in Id
    BY InvFacts
  <2> QED
    BY <1>1, <1>6, <2>1, <2>2 DEF TransferInv, Kept, Twins, Exempt, OnFile
<1>14. Counted'
  <2>1. HalfCounted' = HalfCounted /\ Delayed' = Delayed
    BY <1>1, <1>2, <1>3 DEF HalfCounted, Delayed
  <2>2. \A j \in Kinds : /\ pc'[j] \in InHand <=> pc[j] \in InHand
                         /\ pc'[j] \in Holding <=> pc[j] \in Holding
                         /\ pc'[j] \in Uncounted <=> pc[j] \in Uncounted
    BY <1>2, <1>3
  <2> QED
    BY <1>1, <2>1, <2>2 DEF TransferInv, Counted, OneKind
<1> QED
  BY <1>7, <1>8, <1>9, <1>10, <1>11, <1>12, <1>13, <1>14 DEF TransferInv

(* The script has run and the result is on record; a result that is        *)
(* applied is saved again; mutex_session_send is released.                 *)
LEMMA RanInv ==
    ASSUME TransferInv, NEW k \in Kinds, Ran(k) \/ Apply(k) \/ Release(k)
    PROVE  TransferInv'
<1> DEFINE r == cur[k]
<1>1. /\ UNCHANGED <<now, list, count, cur, tmp, mpc, victim, answer, rest,
                     restarts, accepted, cancelled, discarded, raised, runs, failed, cut>>
      /\ \/ /\ pc[k] = "running" /\ \E p \in {"fault", "apply"} : Goto(k, p)
            /\ tree' = Done(tree, r) /\ file' = tree' /\ owner' = owner
         \/ /\ pc[k] = "apply" /\ \E p \in {"release", "report"} : Goto(k, p)
            /\ tree' = tree /\ file' \in {file, tree} /\ owner' = owner
         \/ /\ pc[k] = "release" /\ Goto(k, "unlink")
            /\ tree' = tree /\ file' = file /\ owner' = [owner EXCEPT !["send"] = "none"]
  BY DEF Ran, Apply, Release, external_handle_action, fileVars, histVars
<1>2. /\ pc' \in [Kinds -> ThreadPc] /\ \A j \in Kinds : j # k => pc'[j] = pc[j]
      /\ \/ pc[k] = "running" /\ pc'[k] \in {"fault", "apply"}
         \/ pc[k] = "apply" /\ pc'[k] \in {"release", "report"}
         \/ pc[k] = "release" /\ pc'[k] = "unlink"
  <2>1. {"fault", "apply", "release", "report", "unlink"} \subseteq ThreadPc
    BY DEF ThreadPc, Sending
  <2>2. PICK p \in {"fault", "apply", "release", "report", "unlink"} :
          /\ Goto(k, p)
          /\ \/ pc[k] = "running" /\ p \in {"fault", "apply"}
             \/ pc[k] = "apply" /\ p \in {"release", "report"}
             \/ pc[k] = "release" /\ p = "unlink"
    BY <1>1
  <2> QED
    BY <2>1, <2>2, GotoFacts
<1>3. /\ pc[k] \in InHand /\ pc'[k] \in InHand /\ pc'[k] \notin Uncounted \union Holding \union {"down"}
      /\ pc[k] \in Sending /\ pc[k] \notin Uncounted \union Holding
      /\ pc[k] = "release" => pc'[k] \notin Sending
  BY <1>2 DEF InHand, Uncounted, Sending, Holding
<1>4. /\ r \in accepted /\ r.kind = k /\ r.id \in Id /\ r \in Request
      /\ r.id <= Cardinality(accepted) /\ \A x \in accepted : x # r => x.id # r.id
      /\ mpc \notin {"down", "load"}
      /\ \A x \in accepted : x # r /\ x = cur[x.kind] /\ pc[x.kind] = "running" => x.kind # k
  BY <1>3, ThreadFacts
<1>5. \/ /\ pc[k] = "running" /\ tree' \in Tree /\ tree'.requests = tree.requests
         /\ tree'.done = tree.done \union {r.id} /\ file' = tree'
      \/ pc[k] # "running" /\ tree' = tree /\ file' \in {file, tree}
  <2>1. tree \in Tree
    BY InvFacts
  <2> QED
    BY <1>1, <1>4, <2>1, DoneFacts
<1>6. /\ tree' \in Tree /\ file' \in Tree /\ tree'.requests = tree.requests
      /\ tree.done \subseteq tree'.done /\ tree'.done \subseteq tree.done \union {r.id}
      /\ pc[k] # "running" => tree'.done = tree.done
      /\ file' = file \/ file' = tree'
  BY <1>5, InvFacts
<1>7. ASSUME NEW i \in Id, OnRecord(i)
      PROVE  i \in failed \/ (i \in tree'.done /\ i \in file'.done)
  BY <1>1, <1>6, <1>7 DEF OnRecord
<1>8. r.id \in failed \/ (r.id \in tree'.done /\ r.id \in file'.done)
  <2>1. CASE pc[k] = "running"
    BY <1>5, <2>1
  <2>2. CASE pc[k] # "running"
    <3>1. OnRecord(r.id)
      BY <1>2, <2>2 DEF TransferInv, Places
    <3> QED
      BY <1>4, <1>7, <3>1
  <2> QED
    BY <2>1, <2>2
<1>9. owner' \in [Mutex -> Thread \union {"none"}] /\ \A j \in Kinds : owner'[j] = owner[j]
  BY <1>1, KindNames DEF TransferInv, TypeOK, Mutex
<1>10. TypeOK'
  BY <1>1, <1>2, <1>6, <1>9 DEF TransferInv, TypeOK
<1>11. Sorted' /\ AtMostOnce' /\ Known'
  BY <1>1, <1>6 DEF TransferInv, Sorted, AtMostOnce, Known
<1>12. Distinct'
  BY <1>1, <1>6 DEF TransferInv, Distinct, Apart, Single
<1>13. Numbered'
  BY <1>1, <1>4, <1>6, InvFacts DEF TransferInv, Numbered
<1>14. Pending(tree)' /\ Pending(file)' /\ (file.done \ failed \subseteq tree.done)'
  <2>1. pc[k] = "running" => runs[r.id] > 0
    BY DEF TransferInv, Places
  <2>2. \A x \in ToSet(tree.requests) : runs[x.id] = 0 /\ x.id \notin tree.done \union cancelled
    BY DEF TransferInv, Pending
  <2>3. \A x \in ToSet(tree.requests) : x.id \notin tree'.done
    BY <1>6, <2>1, <2>2
  <2>4. Pending(tree)'
    BY <1>1, <1>6, <2>2, <2>3 DEF Pending
  <2>5. Pending(file)'
    BY <1>1, <1>6, <2>4 DEF TransferInv, Pending
  <2> QED
    BY <1>1, <1>6, <2>4, <2>5 DEF TransferInv
<1>15. Places'
  <2> SUFFICES ASSUME NEW j \in Kinds, pc'[j] \in InHand \union Uncounted
               PROVE  /\ cur[j] \in accepted
                      /\ pc'[j] \in {"expire", "launch", "expiring"} => runs[cur[j].id] = 0 /\ raised[cur[j].id] = 0
                      /\ pc'[j] = "expired" => raised[cur[j].id] > 0
                      /\ pc'[j] = "running" => runs[cur[j].id] > 0
                      /\ pc'[j] \in {"running", "fault", "apply", "report"} => raised[cur[j].id] = 0
                      /\ pc'[j] \in {"fault", "apply", "report", "release", "unlink"} =>
                           cur[j].id \in failed \/ (cur[j].id \in tree'.done /\ cur[j].id \in file'.done)
    BY <1>1 DEF Places, OnRecord, InHand, Uncounted, Sending
  <2>1. CASE j = k
    BY <1>2, <1>4, <1>8, <2>1 DEF TransferInv, Places
  <2>2. CASE j # k
    <3>1. pc'[j] = pc[j]
      BY <1>2, <2>2
    <3>2. cur[j] \in accepted /\ cur[j].id \in Id
      BY <3>1, InvFacts DEF TransferInv, Places
    <3> QED
      BY <1>7, <3>1, <3>2 DEF TransferInv, Places
  <2> QED
    BY <2>1, <2>2
<1>16. Waiting' /\ Loading'
  BY <1>1, <1>2, <1>3, <1>4 DEF TransferInv, Waiting, Loading
<1>17. SendHeld'
  <2>1. owner["send"] = k
    BY <1>3 DEF TransferInv, SendHeld
  <2>2. \A j \in Kinds : j # k => pc[j] \notin Sending
    BY <2>1 DEF TransferInv, SendHeld
  <2>3. mpc \notin {"session", "cancel", "remove"} \union Kinds
    BY <2>1, KindNames DEF TransferInv, SendHeld
  <2>4. pc'[k] \in Sending => owner'["send"] = k
    BY <1>1, <1>3, <2>1
  <2> QED
    BY <1>1, <1>2, <2>2, <2>3, <2>4 DEF SendHeld
<1>18. Kept'
  <2> SUFFICES ASSUME NEW x \in accepted \ Twins, x.id \notin Exempt
               PROVE  OnFile(tree, x)' /\ OnFile(file, x)'
                      /\ (x \in ToSet(list[x.kind]) \/ raised[x.id] > 0 \/ x.id \in file'.done)
    BY <1>1, <1>4 DEF Kept, Twins, Exempt
  <2>1. /\ OnFile(tree, x) /\ OnFile(file, x) /\ x.kind \in Kinds /\ x.id \notin failed
        /\ x \in ToSet(list[x.kind]) \/ raised[x.id] > 0 \/ x.id \in file.done
    BY <1>4, InvFacts DEF TransferInv, Kept, Exempt
  <2>2. x.id \in file.done => x.id \in file'.done
    BY <1>6, <2>1 DEF TransferInv
  <2>3. x # r /\ x = cur[x.kind] /\ pc[x.kind] = "running" => pc'[x.kind] = "running"
    BY <1>2, <1>4, <2>1
  <2>4. pc[k] = "running" => r.id \in tree'.done /\ r.id \in file'.done
    BY <1>5
  <2>5. x = r /\ x = cur[x.kind] /\ pc[x.kind] = "running" => x.id \in tree'.done /\ x.id \in file'.done
    BY <1>4, <2>4
  <2>6. OnFile(tree, x)'
    BY <1>1, <1>6, <2>1, <2>3, <2>5 DEF OnFile
  <2>7. OnFile(file, x)'
    <3>1. CASE file' = tree'
      BY <2>6, <3>1 DEF OnFile
    <3>2. CASE file' = file
      BY <1>1, <2>1, <2>2, <2>3, <2>5, <3>2 DEF OnFile
    <3> QED
      BY <1>6, <3>1, <3>2
  <2> QED
    BY <2>1, <2>2, <2>6, <2>7
<1>19. Counted'
  <2>1. HalfCounted' = HalfCounted /\ Delayed' = Delayed
    BY <1>1, <1>2, <1>3 DEF HalfCounted, Delayed
  <2>2. \A j \in Kinds : /\ pc'[j] \in InHand <=> pc[j] \in InHand
                         /\ pc'[j] \in Holding <=> pc[j] \in Holding
                         /\ pc'[j] \in Uncounted <=> pc[j] \in Uncounted
    BY <1>2, <1>3
  <2>3. \A x \in accepted : x.kind \in Kinds
    BY InvFacts
  <2> QED
    BY <1>1, <1>9, <2>1, <2>2, <2>3 DEF TransferInv, Counted, OneKind
<1> QED
  BY <1>10, <1>11, <1>12, <1>13, <1>14, <1>15, <1>16, <1>17, <1>18, <1>19 DEF TransferInv

(* The transfer starts: the record is deleted first.                       *)
LEMMA LaunchInv ==
    ASSUME TransferInv, NEW k \in Kinds, Launch(k)
    PROVE  TransferInv'
<1> DEFINE r == cur[k]
           u == bkp_session_delete(tree, r)
<1>1. /\ UNCHANGED <<now, list, count, cur, tmp, mpc, victim, answer, rest, restarts,
                     accepted, cancelled, discarded, raised, failed, cut>>
      /\ pc[k] = "launch" /\ Goto(k, "running") /\ owner["send"] = "none"
      /\ owner' = [owner EXCEPT !["send"] = k]
      /\ tree' = u /\ file' = tree'
      /\ runs' = [runs EXCEPT ![r.id] = @ + 1]
  BY DEF Launch, LaunchRecord, external_download, Take, Free
<1>2. pc' \in [Kinds -> ThreadPc] /\ pc'[k] = "running" /\ \A j \in Kinds : j # k => pc'[j] = pc[j]
  BY <1>1, GotoFacts DEF ThreadPc, Sending
<1>3. /\ pc[k] \in InHand /\ pc'[k] \in InHand /\ pc'[k] \notin Uncounted \union Holding \union {"down"}
      /\ pc[k] \notin Uncounted \union Holding
  BY <1>1, <1>2 DEF InHand, Uncounted, Sending, Holding
<1>4. /\ r \in accepted /\ r.kind = k /\ r.id \in Id /\ r \in Request
      /\ r.id <= Cardinality(accepted) /\ \A x \in accepted : x # r => x.id # r.id
      /\ \A j \in Kinds : j # k /\ pc[j] \in InHand \union Uncounted => cur[j].id # r.id
      /\ mpc \notin {"down", "load"}
  BY <1>3, ThreadFacts
<1>5. /\ u \in Tree /\ u.done = tree.done /\ Apart(u.requests)
      /\ ToSet(u.requests) \subseteq ToSet(tree.requests)
      /\ \A x \in ToSet(u.requests) : x.id # r.id
      /\ \A x \in accepted \ Twins : x # r /\ x \in ToSet(tree.requests) => x \in ToSet(u.requests)
  BY <1>4, RecordGone
<1> HIDE DEF u
<1>6. /\ owner' \in [Mutex -> Thread \union {"none"}] /\ owner'["send"] = k
      /\ \A j \in Kinds : owner'[j] = owner[j]
  BY <1>1, KindNames DEF TransferInv, TypeOK, Mutex
<1>7. runs[r.id] = 0 /\ raised[r.id] = 0
  BY <1>1 DEF TransferInv, Places
<1>8. /\ runs' \in [Id -> Nat] /\ runs'[r.id] = 1
      /\ \A i \in Id : i # r.id => runs'[i] = runs[i]
  BY <1>1, <1>4, <1>7 DEF TransferInv, TypeOK
<1>9. \A i \in Id : OnRecord(i) => i \in failed \/ i \in u.done
  BY <1>5 DEF OnRecord
<1>10. TypeOK'
  BY <1>1, <1>2, <1>5, <1>6, <1>8 DEF TransferInv, TypeOK
<1>11. Sorted' /\ AtMostOnce' /\ Known'
  BY <1>1, <1>5, <1>8 DEF TransferInv, Sorted, AtMostOnce, Known
<1>12. Distinct'
  BY <1>1, <1>5 DEF TransferInv, Distinct, Apart, Single
<1>13. Numbered'
  <2>1. \A i \in Id : i > Cardinality(accepted) => i # r.id
    BY <1>4, InvFacts
  <2> QED
    BY <1>1, <1>5, <1>8, <2>1 DEF TransferInv, Numbered
<1>14. Pending(tree)' /\ Pending(file)' /\ (file.done \ failed \subseteq tree.done)'
  <2>1. \A x \in ToSet(u.requests) : x.id \in Id /\ runs'[x.id] = runs[x.id]
    BY <1>5, <1>8, InvFacts
  <2> QED
    BY <1>1, <1>5, <2>1 DEF TransferInv, Pending
<1>15. Places'
  <2> SUFFICES ASSUME NEW j \in Kinds, pc'[j] \in InHand \union Uncounted
               PROVE  /\ cur[j] \in accepted
                      /\ pc'[j] \in {"expire", "launch", "expiring"} => runs'[cur[j].id] = 0 /\ raised[cur[j].id] = 0
                      /\ pc'[j] = "expired" => raised[cur[j].id] > 0
                      /\ pc'[j] = "running" => runs'[cur[j].id] > 0
                      /\ pc'[j] \in {"running", "fault", "apply", "report"} => raised[cur[j].id] = 0
                      /\ pc'[j] \in {"fault", "apply", "report", "release", "unlink"} =>
                           cur[j].id \in failed \/ cur[j].id \in u.done
    BY <1>1 DEF Places, OnRecord, InHand, Uncounted, Sending
  <2>1. CASE j = k
    BY <1>2, <1>4, <1>7, <1>8, <2>1
  <2>2. CASE j # k
    <3>1. pc'[j] = pc[j] /\ cur[j].id # r.id
      BY <1>2, <1>4, <2>2
    <3>2. cur[j] \in accepted /\ cur[j].id \in Id /\ runs'[cur[j].id] = runs[cur[j].id]
      BY <1>8, <3>1, InvFacts DEF TransferInv, Places
    <3> QED
      BY <1>9, <3>1, <3>2 DEF TransferInv, Places
  <2> QED
    BY <2>1, <2>2
<1>16. Waiting'
  <2> SUFFICES ASSUME NEW j \in Kinds, NEW x \in ToSet(list[j])
               PROVE  \/ runs'[x.id] = 0 /\ raised[x.id] = 0
                      \/ x = cur[j] /\ pc'[j] \in InHand
    BY <1>1 DEF Waiting
  <2>1. x \in accepted /\ x.kind = j /\ x.id \in Id
    BY InvFacts DEF TransferInv, Known
  <2>2. CASE x = r
    BY <1>3, <1>4, <2>1, <2>2
  <2>3. CASE x # r
    <3>1. runs'[x.id] = runs[x.id]
      BY <1>4, <1>8, <2>1, <2>3
    <3>2. \/ runs[x.id] = 0 /\ raised[x.id] = 0
          \/ x = cur[j] /\ pc[j] \in InHand
      <4>1. Waiting
        BY DEF TransferInv
      <4> QED
        BY <4>1, Zenon DEF Waiting
    <3> QED
      BY <1>2, <1>3, <3>1, <3>2
  <2> QED
    BY <2>2, <2>3
<1>17. SendHeld' /\ Loading'
  <2>1. \A j \in Kinds : pc[j] \notin Sending
    BY <1>1, KindNames DEF TransferInv, SendHeld
  <2>2. mpc \notin {"session", "cancel", "remove"} \union Kinds
    BY <1>1 DEF TransferInv, SendHeld
  <2>3. SendHeld'
    BY <1>1, <1>2, <1>6, <2>1, <2>2 DEF SendHeld
  <2> QED
    BY <1>1, <1>2, <1>3, <1>4, <2>3 DEF TransferInv, Loading
<1>18. Kept'
  <2> SUFFICES ASSUME NEW x \in accepted \ Twins, x.id \notin Exempt
               PROVE  OnFile(tree, x)' /\ OnFile(file, x)'
                      /\ (x \in ToSet(list[x.kind]) \/ raised[x.id] > 0 \/ x.id \in file'.done)
    BY <1>1, <1>4 DEF Kept, Twins, Exempt
  <2>1. /\ OnFile(tree, x) /\ x.kind \in Kinds /\ x.id \notin failed
        /\ x \in ToSet(list[x.kind]) \/ raised[x.id] > 0 \/ x.id \in file.done
    BY <1>4, InvFacts DEF TransferInv, Kept, Exempt
  <2>2. x.id \in file.done => x.id \in file'.done
    BY <1>1, <1>5, <2>1 DEF TransferInv
  <2>3. x = cur[x.kind] /\ pc[x.kind] = "running" => pc'[x.kind] = "running"
    BY <1>1, <1>2, <2>1
  <2>4. x = r => x = cur[x.kind] /\ pc'[x.kind] = "running"
    BY <1>2, <1>4
  <2>5. OnFile(tree, x)' /\ OnFile(file, x)'
    BY <1>1, <1>5, <2>1, <2>3, <2>4 DEF OnFile
  <2> QED
    BY <2>1, <2>2, <2>5
<1>19. Counted'
  <2>1. HalfCounted' = HalfCounted /\ Delayed' = Delayed
    BY <1>1, <1>2, <1>3 DEF HalfCounted, Delayed
  <2>2. \A j \in Kinds : /\ pc'[j] \in InHand <=> pc[j] \in InHand
                         /\ pc'[j] \in Holding <=> pc[j] \in Holding
                         /\ pc'[j] \in Uncounted <=> pc[j] \in Uncounted
    BY <1>2, <1>3
  <2>3. \A x \in accepted : x.kind \in Kinds
    BY InvFacts
  <2> QED
    BY <1>1, <1>6, <2>1, <2>2, <2>3 DEF TransferInv, Counted, OneKind
<1> QED
  BY <1>10, <1>11, <1>12, <1>13, <1>14, <1>15, <1>16, <1>17, <1>18, <1>19 DEF TransferInv

(* A launch that has failed: the report has no record in the tree.         *)
LEMMA FaultInv ==
    ASSUME TransferInv, NEW k \in Kinds, Fault(k)
    PROVE  TransferInv'
<1> DEFINE r == cur[k]
<1>1. /\ UNCHANGED <<now, list, count, owner, cur, tmp, mpc, victim, answer, file, rest,
                     restarts, accepted, cancelled, discarded, runs, cut>>
      /\ pc[k] = "fault" /\ Goto(k, "release")
      /\ tree' = Undone(tree, r) /\ failed' = failed \union {r.id}
      /\ raised' = [raised EXCEPT ![r.id] = @ + 1]
  BY DEF Fault, Reported
<1>2. pc' \in [Kinds -> ThreadPc] /\ pc'[k] = "release" /\ \A j \in Kinds : j # k => pc'[j] = pc[j]
  BY <1>1, GotoFacts DEF ThreadPc, Sending
<1>3. /\ pc[k] \in InHand /\ pc'[k] \in InHand /\ pc'[k] \notin Uncounted \union Holding \union {"down"}
      /\ pc[k] \notin Uncounted \union Holding
      /\ pc[k] \in Sending /\ pc'[k] \in Sending
  BY <1>1, <1>2 DEF InHand, Uncounted, Sending, Holding
<1>4. /\ r \in accepted /\ r.kind = k /\ r.id \in Id /\ r \in Request
      /\ r.id <= Cardinality(accepted) /\ \A x \in accepted : x # r => x.id # r.id
      /\ \A j \in Kinds : j # k /\ pc[j] \in InHand \union Uncounted => cur[j].id # r.id
      /\ mpc \notin {"down", "load"}
  BY <1>3, ThreadFacts
<1>5. tree' \in Tree /\ tree'.requests = tree.requests /\ tree'.done = tree.done \ {r.id}
  BY <1>1, <1>4, InvFacts, DoneFacts
<1>6. raised[r.id] = 0
  BY <1>1 DEF TransferInv, Places
<1>7. /\ raised' \in [Id -> Nat] /\ raised'[r.id] = 1
      /\ \A i \in Id : i # r.id => raised'[i] = raised[i]
      /\ \A i \in Id : raised[i] > 0 => raised'[i] > 0
  BY <1>1, <1>4, <1>6 DEF TransferInv, TypeOK
<1>8. TypeOK'
  BY <1>1, <1>2, <1>4, <1>5, <1>7 DEF TransferInv, TypeOK
<1>9. Sorted' /\ AtMostOnce' /\ Known'
  BY <1>1, <1>5, <1>7 DEF TransferInv, Sorted, AtMostOnce, Known
<1>10. Distinct'
  BY <1>1, <1>5 DEF TransferInv, Distinct, Apart, Single
<1>11. Numbered'
  <2>1. \A i \in Id : i > Cardinality(accepted) => i # r.id
    BY <1>4, InvFacts
  <2> QED
    BY <1>1, <1>5, <1>7, <2>1 DEF TransferInv, Numbered
<1>12. Pending(tree)' /\ Pending(file)' /\ (file.done \ failed \subseteq tree.done)'
  BY <1>1, <1>5 DEF TransferInv, Pending
<1>13. Places'
  <2> SUFFICES ASSUME NEW j \in Kinds, pc'[j] \in InHand \union Uncounted
               PROVE  /\ cur[j] \in accepted
                      /\ pc'[j] \in {"expire", "launch", "expiring"} => runs[cur[j].id] = 0 /\ raised'[cur[j].id] = 0
                      /\ pc'[j] = "expired" => raised'[cur[j].id] > 0
                      /\ pc'[j] = "running" => runs[cur[j].id] > 0
                      /\ pc'[j] \in {"running", "fault", "apply", "report"} => raised'[cur[j].id] = 0
                      /\ pc'[j] \in {"fault", "apply", "report", "release", "unlink"} =>
                           cur[j].id \in failed' \/ (cur[j].id \in tree'.done /\ cur[j].id \in file.done)
    BY <1>1 DEF Places, OnRecord, InHand, Uncounted, Sending
  <2>1. CASE j = k
    BY <1>1, <1>2, <1>4, <2>1
  <2>2. CASE j # k
    <3>1. pc'[j] = pc[j] /\ cur[j].id # r.id
      BY <1>2, <1>4, <2>2
    <3>2. cur[j] \in accepted /\ cur[j].id \in Id /\ raised'[cur[j].id] = raised[cur[j].id]
      BY <1>7, <3>1, InvFacts DEF TransferInv, Places
    <3>3. OnRecord(cur[j].id) => cur[j].id \in failed' \/ (cur[j].id \in tree'.done /\ cur[j].id \in file.done)
      BY <1>1, <1>5, <3>1 DEF OnRecord
    <3> QED
      BY <3>1, <3>2, <3>3 DEF TransferInv, Places
  <2> QED
    BY <2>1, <2>2
<1>14. Waiting'
  <2> SUFFICES ASSUME NEW j \in Kinds, NEW x \in ToSet(list[j])
               PROVE  \/ runs[x.id] = 0 /\ raised'[x.id] = 0
                      \/ x = cur[j] /\ pc'[j] \in InHand
    BY <1>1 DEF Waiting
  <2>1. x \in accepted /\ x.kind = j /\ x.id \in Id
    BY InvFacts DEF TransferInv, Known
  <2>2. CASE x = r
    BY <1>3, <1>4, <2>1, <2>2
  <2>3. CASE x # r
    <3>1. raised'[x.id] = raised[x.id]
      BY <1>4, <1>7, <2>1, <2>3
    <3>2. \/ runs[x.id] = 0 /\ raised[x.id] = 0
          \/ x = cur[j] /\ pc[j] \in InHand
      <4>1. Waiting
        BY DEF TransferInv
      <4> QED
        BY <4>1, Zenon DEF Waiting
    <3> QED
      BY <1>2, <1>3, <3>1, <3>2
  <2> QED
    BY <2>2, <2>3
<1>15. SendHeld' /\ Loading'
  BY <1>1, <1>2, <1>3, <1>4 DEF TransferInv, SendHeld, Loading
<1>16. Kept'
  <2> SUFFICES ASSUME NEW x \in accepted \ Twins, x.id \notin Exempt'
               PROVE  OnFile(tree, x)' /\ OnFile(file, x)'
                      /\ (x \in ToSet(list[x.kind]) \/ raised'[x.id] > 0 \/ x.id \in file.done)
    BY <1>1, <1>4 DEF Kept, Twins
  <2>1. x.id \notin Exempt /\ x.id # r.id /\ x.id \in Id
    BY <1>1, InvFacts DEF Exempt
  <2>2. /\ OnFile(tree, x) /\ OnFile(file, x) /\ x.kind \in Kinds
        /\ x \in ToSet(list[x.kind]) \/ raised[x.id] > 0 \/ x.id \in file.done
    BY <1>4, <2>1, InvFacts DEF TransferInv, Kept
  <2>3. x = cur[x.kind] /\ pc[x.kind] = "running" => pc'[x.kind] = "running"
    BY <1>1, <1>2, <2>2
  <2>4. OnFile(tree, x)' /\ OnFile(file, x)'
    BY <1>1, <1>5, <2>1, <2>2, <2>3 DEF OnFile
  <2> QED
    BY <1>7, <2>1, <2>2, <2>4
<1>17. Counted'
  <2>1. HalfCounted' = HalfCounted /\ Delayed' = Delayed
    BY <1>1, <1>2, <1>3 DEF HalfCounted, Delayed
  <2>2. \A j \in Kinds : /\ pc'[j] \in InHand <=> pc[j] \in InHand
                         /\ pc'[j] \in Holding <=> pc[j] \in Holding
                         /\ pc'[j] \in Uncounted <=> pc[j] \in Uncounted
    BY <1>2, <1>3
  <2> QED
    BY <1>1, <2>1, <2>2 DEF TransferInv, Counted, OneKind
<1> QED
  BY <1>8, <1>9, <1>10, <1>11, <1>12, <1>13, <1>14, <1>15, <1>16, <1>17 DEF TransferInv

(* The request leaves the list; the counter has been read.                 *)
LEMMA Unlisted ==
    ASSUME NEW s \in Seq(Request), NEW e, NEW t, t = RemoveFirst(s, e), InOrder(s), Single(s)
    PROVE  t \in Seq(Request) /\ InOrder(t) /\ Single(t) /\ ToSet(t) = ToSet(s) \ {e}
<1>1. /\ t \in Seq(Request) /\ Picked(t, s)
      /\ ToSet(t) \subseteq ToSet(s) /\ \A x \in ToSet(s) : x # e => x \in ToSet(t)
      /\ e \notin ToSet(s) => t = s
      /\ e \in ToSet(s) =>
           \E i \in 1 .. Len(s) :
             s[i] = e /\ \A x \in ToSet(t) : \E j \in 1 .. Len(s) : j # i /\ s[j] = x
  BY RemoveFirstProperties
<1>2. InOrder(t) /\ Single(t)
  BY <1>1, PickedInOrder, PickedApart
<1>3. e \notin ToSet(t)
  <2>1. CASE e \in ToSet(s)
    <3>1. PICK i \in 1 .. Len(s) :
            s[i] = e /\ \A x \in ToSet(t) : \E j \in 1 .. Len(s) : j # i /\ s[j] = x
      BY <1>1, <2>1
    <3>2. \A j \in 1 .. Len(s) : j # i => s[j] # e
      BY <3>1, ElementsOf DEF Single
    <3> QED
      BY <3>1, <3>2
  <2>2. CASE e \notin ToSet(s)
    BY <1>1, <2>2
  <2> QED
    BY <2>1, <2>2
<1> QED
  BY <1>1, <1>2, <1>3

LEMMA UnlinkInv ==
    ASSUME TransferInv, NEW k \in Kinds, ExpireUnlink(k) \/ Unlink(k)
    PROVE  TransferInv'
<1> DEFINE r == cur[k]
           s == RemoveFirst(list[k], r)
<1>1. /\ UNCHANGED <<now, count, cur, mpc, victim, answer, tree, file, rest, restarts,
                     accepted, cancelled, discarded, raised, runs, failed, cut>>
      /\ list' = [list EXCEPT ![k] = s] /\ tmp' = [tmp EXCEPT ![k] = count]
      /\ \/ pc[k] = "expired" /\ Goto(k, "expireCount") /\ owner' = owner
         \/ /\ pc[k] = "unlink" /\ Goto(k, "count")
            /\ owner[k] = "none" /\ owner' = [owner EXCEPT ![k] = k]
  BY DEF ExpireUnlink, Unlink, Unlist, Take, Free, fileVars, histVars
<1>2. /\ pc' \in [Kinds -> ThreadPc] /\ \A j \in Kinds : j # k => pc'[j] = pc[j]
      /\ \/ pc[k] = "expired" /\ pc'[k] = "expireCount" /\ owner' = owner
         \/ pc[k] = "unlink" /\ pc'[k] = "count" /\ owner[k] = "none" /\ owner' = [owner EXCEPT ![k] = k]
  BY <1>1, GotoFacts DEF ThreadPc, Holding
<1>3. /\ pc[k] \in InHand /\ pc'[k] \notin InHand \union Sending \union {"down"}
      /\ pc[k] \notin Uncounted /\ pc'[k] \in Uncounted /\ pc'[k] \in Holding
      /\ pc[k] = "expired" => pc[k] \in Holding
  BY <1>2 DEF InHand, Uncounted, Sending, Holding
<1>4. /\ r \in accepted /\ r.kind = k /\ r.id \in Id /\ r \in Request
      /\ r.id <= Cardinality(accepted) /\ \A x \in accepted : x # r => x.id # r.id
      /\ mpc \notin {"down", "load"}
  BY <1>3, ThreadFacts
<1>5. s \in Seq(Request) /\ InOrder(s) /\ Single(s) /\ ToSet(s) = ToSet(list[k]) \ {r}
  BY InvFacts, Unlisted
<1> HIDE DEF s
<1>6. /\ list' \in [Kinds -> Seq(Request)] /\ list'[k] = s
      /\ \A j \in Kinds : j # k => list'[j] = list[j]
      /\ \A j \in Kinds : ToSet(list'[j]) = ToSet(list[j]) \ {r}
  <2>1. /\ list' \in [Kinds -> Seq(Request)] /\ list'[k] = s
        /\ \A j \in Kinds : j # k => list'[j] = list[j]
    BY <1>1, <1>5 DEF TransferInv, TypeOK
  <2>2. \A j \in Kinds : j # k => r \notin ToSet(list[j])
    BY <1>4 DEF TransferInv, Known
  <2>3. \A j \in Kinds : ToSet(list'[j]) = ToSet(list[j]) \ {r}
    BY <1>5, <2>1, <2>2
  <2> QED
    BY <2>1, <2>3
<1>7. /\ owner' \in [Mutex -> Thread \union {"none"}] /\ owner'["send"] = owner["send"]
      /\ \A j \in Kinds : j # k => owner'[j] = owner[j]
      /\ owner[k] = k => owner'[k] = k
      /\ pc[k] = "unlink" => owner'[k] = k
      /\ tmp' \in [Kinds -> Int] /\ tmp'[k] = count
  BY <1>1, <1>2, KindNames, InvFacts DEF TransferInv, TypeOK, Mutex
<1>8. TypeOK'
  BY <1>1, <1>2, <1>6, <1>7 DEF TransferInv, TypeOK
<1>9. Sorted' /\ Distinct'
  BY <1>1, <1>5, <1>6 DEF TransferInv, Sorted, InOrder, Distinct, Apart, Single
<1>10. AtMostOnce' /\ Numbered' /\ Known' /\ Pending(tree)' /\ Pending(file)'
       /\ (file.done \ failed \subseteq tree.done)'
  BY <1>1, <1>6 DEF TransferInv, AtMostOnce, Numbered, Known, Pending
<1>11. Places'
  BY <1>1, <1>2, <1>4 DEF TransferInv, Places, OnRecord
<1>12. Waiting'
  <2> SUFFICES ASSUME NEW j \in Kinds, NEW x \in ToSet(list'[j])
               PROVE  \/ runs[x.id] = 0 /\ raised[x.id] = 0
                      \/ x = cur[j] /\ pc'[j] \in InHand
    BY <1>1 DEF Waiting
  <2>1. x \in ToSet(list[j]) /\ x # r
    BY <1>6
  <2>2. \/ runs[x.id] = 0 /\ raised[x.id] = 0
        \/ x = cur[j] /\ pc[j] \in InHand
    <3>1. Waiting
      BY DEF TransferInv
    <3> QED
      BY <2>1, <3>1, Zenon DEF Waiting
  <2> QED
    BY <1>2, <2>1, <2>2
<1>13. SendHeld'
  BY <1>1, <1>2, <1>3, <1>7 DEF TransferInv, SendHeld
<1>14. Loading'
  BY <1>1, <1>2, <1>3, <1>4 DEF TransferInv, Loading
<1>15. Kept'
  <2> SUFFICES ASSUME NEW x \in accepted \ Twins, x.id \notin Exempt
               PROVE  OnFile(tree, x)' /\ OnFile(file, x)'
                      /\ (x \in ToSet(list'[x.kind]) \/ raised[x.id] > 0 \/ x.id \in file.done)
    BY <1>1, <1>4 DEF Kept, Twins, Exempt
  <2>1. /\ OnFile(tree, x) /\ OnFile(file, x) /\ x.kind \in Kinds /\ x.id \notin failed
        /\ x \in ToSet(list[x.kind]) \/ raised[x.id] > 0 \/ x.id \in file.done
    BY <1>4, InvFacts DEF TransferInv, Kept, Exempt
  <2>2. x = cur[x.kind] /\ pc[x.kind] = "running" => pc'[x.kind] = "running"
    BY <1>2, <2>1
  <2>3. OnFile(tree, x)' /\ OnFile(file, x)'
    BY <1>1, <2>1, <2>2 DEF OnFile
  <2>4. x = r => raised[x.id] > 0 \/ x.id \in file.done
    BY <1>2, <2>1 DEF TransferInv, Places, OnRecord
  <2> QED
    BY <1>6, <2>1, <2>3, <2>4
<1>16. Counted'
  <2> SUFFICES ASSUME OneKind, cancelled \union discarded = {}
               PROVE  /\ \A j \in Kinds :
                           /\ pc'[j] \in InHand => cur[j] \in ToSet(list'[j])
                           /\ pc'[j] \in Holding => owner'[j] = j
                           /\ pc'[j] \in Uncounted => tmp'[j] = count
                      /\ \A x \in accepted : mpc = x.kind => owner'[x.kind] = "main"
                      /\ (count = Cardinality(Delayed) + Cardinality(HalfCounted))'
    BY <1>1 DEF Counted, OneKind
  <2>1. \A j \in Kinds : j # k => /\ pc[j] \notin InHand \union Uncounted \union Holding
                                  /\ pc'[j] \notin InHand \union Uncounted \union Holding
    BY <1>2, <1>3, OthersIdle
  <2>2. /\ r \in ToSet(list[k]) /\ (pc[k] \in Holding => owner[k] = k)
        /\ \A x \in accepted : mpc = x.kind => owner[x.kind] = "main"
        /\ count = Cardinality(Delayed) + Cardinality(HalfCounted)
    BY <1>3 DEF TransferInv, Counted
  <2>3. owner'[k] = k /\ owner[k] # "main"
    BY <1>2, <1>3, <1>7, <2>2, KindNames
  <2>4. \A x \in accepted : mpc # x.kind
    BY <1>3, <2>2, <2>3, OthersIdle
  <2>5. HalfCounted = {} /\ HalfCounted' = IF r.time # 0 THEN {k} ELSE {}
    <3>1. HalfCounted = {}
      BY <1>3, <2>1 DEF HalfCounted
    <3>2. HalfCounted' = IF r.time # 0 THEN {k} ELSE {}
      BY <1>1, <1>3, <2>1 DEF HalfCounted
    <3> QED
      BY <3>1, <3>2
  <2>6. Delayed' = IF r.time # 0 THEN Delayed \ {r} ELSE Delayed
    BY <1>6 DEF Delayed
  <2>7. IsFiniteSet(Delayed) /\ Cardinality({}) = 0 /\ Cardinality({k}) = 1 /\ Cardinality(Delayed) \in Nat
    <3>1. Delayed \subseteq accepted
      BY InvFacts DEF Delayed
    <3> QED
      BY <3>1, FS_Subset, FS_EmptySet, FS_Singleton, FS_CardinalityType, InvFacts
  <2>8. r.time # 0 => r \in Delayed
    BY <2>2 DEF Delayed
  <2>9. (count = Cardinality(Delayed) + Cardinality(HalfCounted))'
    <3>1. CASE r.time # 0
      <4>1. Cardinality(Delayed \ {r}) = Cardinality(Delayed) - 1
        BY <2>7, <2>8, <3>1, FS_RemoveElement
      <4>2. count = Cardinality(Delayed \ {r}) + Cardinality({k})
        BY <2>2, <2>5, <2>7, <4>1
      <4> QED
        BY <1>1, <2>5, <2>6, <3>1, <4>2
    <3>2. CASE r.time = 0
      BY <1>1, <2>2, <2>5, <2>6, <3>2
    <3> QED
      BY <3>1, <3>2
  <2> QED
    BY <1>3, <1>7, <2>1, <2>3, <2>4, <2>9
<1> QED
  BY <1>8, <1>9, <1>10, <1>11, <1>12, <1>13, <1>14, <1>15, <1>16 DEF TransferInv

(* The counter is written and the mutex unlocked.                          *)
LEMMA UnlockInv ==
    ASSUME TransferInv, NEW k \in Kinds, ExpireUnlock(k) \/ Unlock(k)
    PROVE  TransferInv'
<1> DEFINE r == cur[k]
<1>1. /\ UNCHANGED <<now, list, cur, tmp, mpc, victim, answer, tree, file, rest, restarts,
                     accepted, cancelled, discarded, raised, runs, failed, cut>>
      /\ pc[k] \in Uncounted /\ Goto(k, "look")
      /\ count' = IF r.time # 0 THEN tmp[k] - 1 ELSE count
      /\ \E m \in {"download", k} : owner' = [owner EXCEPT ![m] = "none"]
  BY DEF ExpireUnlock, Unlock, CountDown, ReleaseList, Uncounted, fileVars, histVars
<1>2. pc' \in [Kinds -> ThreadPc] /\ pc'[k] = "look" /\ \A j \in Kinds : j # k => pc'[j] = pc[j]
  BY <1>1, GotoFacts DEF ThreadPc
<1>3. /\ pc'[k] \notin InHand \union Sending \union {"down"} \union Uncounted \union Holding
      /\ pc[k] \notin InHand \union Sending \union {"down"} /\ pc[k] \in Holding
  BY <1>1, <1>2 DEF InHand, Uncounted, Sending, Holding
<1>4. r \in accepted /\ r.kind = k /\ mpc \notin {"down", "load"}
  BY <1>1, ThreadFacts
<1>5. owner' \in [Mutex -> Thread \union {"none"}] /\ owner'["send"] = owner["send"]
  BY <1>1, KindNames DEF TransferInv, TypeOK, Mutex
<1>6. TypeOK'
  <2>1. count' \in Int
    BY <1>1, InvFacts
  <2> QED
    BY <1>1, <1>2, <1>5, <2>1 DEF TransferInv, TypeOK
<1>7. Sorted' /\ Distinct' /\ AtMostOnce' /\ Numbered' /\ Known' /\ Pending(tree)' /\ Pending(file)'
      /\ (file.done \ failed \subseteq tree.done)'
  BY <1>1 DEF TransferInv, Sorted, Distinct, Apart, Single, AtMostOnce, Numbered, Known, Pending
<1>8. Places'
  BY <1>1, <1>2, <1>3 DEF TransferInv, Places, OnRecord
<1>9. Waiting'
  BY <1>1, <1>2, <1>3 DEF TransferInv, Waiting
<1>10. SendHeld' /\ Loading'
  BY <1>1, <1>2, <1>3, <1>4, <1>5 DEF TransferInv, SendHeld, Loading
<1>11. Kept'
  <2>1. \A x \in accepted : x = cur[x.kind] /\ pc[x.kind] = "running" => pc'[x.kind] = "running"
    BY <1>1, <1>2, InvFacts DEF Uncounted
  <2> QED
    BY <1>1, <2>1 DEF TransferInv, Kept, Twins, Exempt, OnFile
<1>12. Counted'
  <2> SUFFICES ASSUME OneKind, cancelled \union discarded = {}
               PROVE  /\ \A j \in Kinds : pc'[j] \notin InHand \union Holding \union Uncounted
                      /\ \A x \in accepted : mpc # x.kind
                      /\ (count = Cardinality(Delayed) + Cardinality(HalfCounted))'
    BY <1>1 DEF Counted, OneKind
  <2>1. \A j \in Kinds : pc'[j] \notin InHand \union Holding \union Uncounted
    BY <1>1, <1>2, <1>3, OthersIdle
  <2>2. /\ owner[k] = k /\ tmp[k] = count
        /\ \A x \in accepted : mpc = x.kind => owner[x.kind] = "main"
        /\ count = Cardinality(Delayed) + Cardinality(HalfCounted)
    BY <1>1, <1>3 DEF TransferInv, Counted
  <2>3. \A x \in accepted : mpc # x.kind
    BY <1>1, <2>2, OthersIdle, KindNames
  <2>4. HalfCounted' = {} /\ HalfCounted = IF r.time # 0 THEN {k} ELSE {}
    <3>1. HalfCounted' = {}
      BY <2>1 DEF HalfCounted
    <3>2. \A j \in Kinds : j # k => pc[j] \notin Uncounted
      BY <1>1, OthersIdle
    <3>3. HalfCounted = IF r.time # 0 THEN {k} ELSE {}
      BY <1>1, <3>2 DEF HalfCounted
    <3> QED
      BY <3>1, <3>3
  <2>5. Cardinality({}) = 0 /\ Cardinality({k}) = 1 /\ Cardinality(Delayed) \in Nat
    <3>1. Delayed \subseteq accepted
      BY InvFacts DEF Delayed
    <3> QED
      BY <3>1, FS_Subset, FS_EmptySet, FS_Singleton, FS_CardinalityType, InvFacts
  <2>6. Delayed' = Delayed
    BY <1>1 DEF Delayed
  <2>7. (count = Cardinality(Delayed) + Cardinality(HalfCounted))'
    <3>1. count' = Cardinality(Delayed) + 0
      BY <1>1, <2>2, <2>4, <2>5
    <3> QED
      BY <2>4, <2>5, <2>6, <3>1
  <2> QED
    BY <2>1, <2>3, <2>7
<1> QED
  BY <1>6, <1>7, <1>8, <1>9, <1>10, <1>11, <1>12 DEF TransferInv

-----------------------------------------------------------------------------
(* Main changes the lists.  A request is accepted or refused.              *)
LEMMA HandleInv ==
    ASSUME TransferInv, NEW k \in Kinds, NEW key \in Keys, NEW delay \in Delays,
           NEW image \in BOOLEAN,
           NEW fault \in {"ok", "invalid", "denied", "protocol", "resources"},
           Handle(k, fault, key, delay, image)
    PROVE  TransferInv'
<1> DEFINE r == [id |-> Cardinality(accepted) + 1, kind |-> k, key |-> key,
                 time |-> IF delay = 0 THEN 0 ELSE now + delay, image |-> image]
           u == bkp_session_insert(tree, r)
           s == InsertBefore(list[k], r, r.time)
<1>1. /\ UNCHANGED <<now, owner, cur, tmp, mpc, victim, restarts, cancelled, discarded, raised,
                     runs, failed, cut>>
      /\ answer' = fault /\ mpc = "session"
  BY DEF Handle
<1>2. CASE fault # "ok"
  <2>1. UNCHANGED <<list, count, pc, tree, file, rest, accepted>>
    BY <1>2 DEF Handle, fileVars
  <2> QED
    BY <1>1, <2>1 DEF TransferInv, TypeOK, Sorted, AtMostOnce, Numbered, Known, Distinct, Apart, Single,
              Pending, Places, OnRecord, Waiting, SendHeld, Loading, Kept, Twins, Exempt, OnFile,
              Counted, OneKind, HalfCounted, Delayed
<1>3. CASE fault = "ok"
  <2>1. /\ owner[k] = "none" /\ r.id \in Id /\ r.time <= MaxTime
        /\ list' = [list EXCEPT ![k] = s]
        /\ count' = IF r.time # 0 THEN count + 1 ELSE count
        /\ tree' = u /\ file' = tree' /\ rest' = rest
        /\ pc' = [pc EXCEPT ![k] = IF @ \in {"waiting", "sleeping"} THEN "woken" ELSE @]
        /\ accepted' = accepted \union {r}
    BY <1>3 DEF Handle, Accept, Signalled, Free
  <2>2. r \in Request
    <3>1. r.time \in Time
      <4>1. now \in Nat /\ delay \in Nat /\ MaxTime \in Nat
        BY NumbersAssumption DEF TransferInv, TypeOK
      <4> QED
        BY <2>1, <4>1 DEF Time
    <3> HIDE DEF s, u
    <3> QED
      BY <2>1, <3>1 DEF Request
  <2>3. r.id = Cardinality(accepted) + 1 /\ r.kind = k /\ r.time \in Nat
    BY <2>2, RequestFields
  <2> HIDE DEF r
  <2>4. /\ r \notin accepted /\ \A x \in accepted : x.id # r.id
        /\ IsFiniteSet(accepted') /\ Cardinality(accepted') = Cardinality(accepted) + 1
        /\ \A x \in accepted : x.id < r.id
    <3>1. \A x \in accepted : x.id < r.id
      BY <2>3, InvFacts DEF TransferInv, Numbered
    <3>2. r \notin accepted /\ \A x \in accepted : x.id # r.id
      BY <3>1, InvFacts
    <3> QED
      BY <2>1, <3>1, <3>2, InvFacts, FS_AddElement
  <2>5. /\ runs[r.id] = 0 /\ raised[r.id] = 0
        /\ r.id \notin tree.done \union file.done \union cancelled
    BY <2>1, <2>3, InvFacts DEF TransferInv, Numbered
  <2>6. /\ u \in Tree /\ u.done = tree.done /\ Apart(u.requests)
        /\ ToSet(tree.requests) \subseteq ToSet(u.requests)
        /\ ToSet(u.requests) \subseteq ToSet(tree.requests) \union {r}
        /\ (\E x \in ToSet(tree.requests) : Same(x, r)) \/ r \in ToSet(u.requests)
    BY <2>2, InvFacts, RecordInserted DEF TransferInv, Distinct
  <2>7. s \in Seq(Request) /\ ToSet(s) = ToSet(list[k]) \union {r} /\ InOrder(s) /\ Single(s)
    <3>1. r \notin ToSet(list[k])
      BY <2>4, InvFacts
    <3> QED
      BY <2>2, <3>1, InvFacts, InsertedInOrder
  <2> HIDE DEF u, s
  <2>8. /\ list' \in [Kinds -> Seq(Request)] /\ list'[k] = s
        /\ \A j \in Kinds : j # k => list'[j] = list[j]
    BY <2>1, <2>7 DEF TransferInv, TypeOK
  <2>9. /\ pc' \in [Kinds -> ThreadPc]
        /\ \A j \in Kinds : pc'[j] = pc[j] \/ (pc[j] \in {"waiting", "sleeping"} /\ pc'[j] = "woken")
    BY <2>1 DEF TransferInv, TypeOK, ThreadPc
  <2>10. \A j \in Kinds : /\ pc'[j] \in InHand <=> pc[j] \in InHand
                          /\ pc'[j] \in Holding <=> pc[j] \in Holding
                          /\ pc'[j] \in Uncounted <=> pc[j] \in Uncounted
                          /\ pc'[j] \in Sending <=> pc[j] \in Sending
                          /\ pc'[j] = "running" <=> pc[j] = "running"
                          /\ pc'[j] = "down" <=> pc[j] = "down"
    BY <2>9 DEF InHand, Holding, Uncounted, Sending
  <2>11. \A j \in Kinds : pc'[j] \in InHand \union Uncounted => pc'[j] = pc[j]
    BY <2>9, <2>10 DEF InHand, Uncounted, Sending
  <2>12. TypeOK'
    <3>1. count' \in Int /\ accepted' \subseteq Request
      BY <2>1, <2>2, InvFacts
    <3>2. answer' \in {"ok", "invalid", "denied", "protocol", "resources"}
      BY <1>1
    <3> QED
      BY <1>1, <2>1, <2>6, <2>8, <2>9, <3>1, <3>2 DEF TransferInv, TypeOK
  <2>13. Sorted' /\ Distinct'
    <3>1. \A j \in Kinds : InOrder(list'[j]) /\ Single(list'[j])
      BY <2>7, <2>8, InvFacts
    <3>2. Apart(tree'.requests) /\ Apart(file'.requests) /\ Apart(rest')
      BY <2>1, <2>6 DEF TransferInv, Distinct
    <3> QED
      BY <3>1, <3>2 DEF Sorted, InOrder, Distinct, Apart, Single
  <2>14. Numbered'
    <3>1. \A x \in accepted' : x.id <= Cardinality(accepted')
      BY <2>1, <2>3, <2>4, InvFacts
    <3>2. \A x, y \in accepted' : x.id = y.id => x = y
      BY <2>1, <2>4 DEF TransferInv, Numbered
    <3>3. ASSUME NEW i \in Id, i > Cardinality(accepted')
          PROVE  /\ runs[i] = 0 /\ raised[i] = 0
                 /\ i \notin tree'.done \union file'.done \union cancelled
      <4>1. i > Cardinality(accepted)
        BY <2>4, <3>3, InvFacts DEF Id
      <4> QED
        BY <2>1, <2>6, <4>1 DEF TransferInv, Numbered
    <3> QED
      BY <1>1, <2>4, <3>1, <3>2, <3>3 DEF Numbered
  <2>15. Known'
    <3>1. \A j \in Kinds : \A x \in ToSet(list'[j]) : x \in accepted' /\ x.kind = j
      BY <2>1, <2>3, <2>7, <2>8 DEF TransferInv, Known
    <3> QED
      BY <1>1, <2>1, <2>6, <3>1 DEF TransferInv, Known
  <2>16. Pending(tree)' /\ Pending(file)' /\ (file.done \ failed \subseteq tree.done)'
    BY <1>1, <2>1, <2>5, <2>6 DEF TransferInv, Pending
  <2>17. Places'
    <3> SUFFICES ASSUME NEW j \in Kinds, pc'[j] \in InHand \union Uncounted
                 PROVE  /\ cur[j] \in accepted'
                        /\ pc[j] \in {"expire", "launch", "expiring"} => runs[cur[j].id] = 0 /\ raised[cur[j].id] = 0
                        /\ pc[j] = "expired" => raised[cur[j].id] > 0
                        /\ pc[j] = "running" => runs[cur[j].id] > 0
                        /\ pc[j] \in {"running", "fault", "apply", "report"} => raised[cur[j].id] = 0
                        /\ pc[j] \in {"fault", "apply", "report", "release", "unlink"} =>
                             cur[j].id \in failed \/ cur[j].id \in tree.done
      BY <1>1, <2>1, <2>6, <2>11 DEF Places, OnRecord, InHand, Uncounted, Sending
    <3>1. pc'[j] = pc[j] /\ cur[j] \in accepted
      BY <2>11 DEF TransferInv, Places
    <3>2. OnRecord(cur[j].id) => cur[j].id \in failed \/ cur[j].id \in tree.done
      BY DEF OnRecord
    <3> QED
      BY <2>1, <3>1, <3>2 DEF TransferInv, Places
  <2>18. Waiting'
    <3> SUFFICES ASSUME NEW j \in Kinds, NEW x \in ToSet(list'[j])
                 PROVE  \/ runs[x.id] = 0 /\ raised[x.id] = 0
                        \/ x = cur[j] /\ pc'[j] \in InHand
      BY <1>1 DEF Waiting
    <3>1. x = r \/ x \in ToSet(list[j])
      BY <2>7, <2>8
    <3> QED
      BY <2>5, <2>10, <3>1 DEF TransferInv, Waiting
  <2>19. SendHeld' /\ Loading'
    BY <1>1, <2>1, <2>10 DEF TransferInv, SendHeld, Loading
  <2>20. Kept'
    <3> SUFFICES ASSUME NEW x \in accepted' \ Twins', x.id \notin Exempt
                 PROVE  OnFile(tree, x)' /\ (x \in ToSet(list'[x.kind]) \/ raised[x.id] > 0 \/ x.id \in tree.done)
      BY <1>1, <2>1, <2>6 DEF Kept, Exempt, OnFile
    <3>1. CASE x = r
      <4>1. ~\E y \in accepted : Same(y, r)
        BY <2>1, <2>4, <3>1 DEF Twins, Same
      <4>2. r \in ToSet(u.requests)
        BY <2>6, <4>1, InvFacts
      <4> QED
        BY <2>1, <2>3, <2>7, <2>8, <3>1, <4>2 DEF OnFile
    <3>2. CASE x # r
      <4>1. x \in accepted \ Twins /\ x.kind \in Kinds
        BY <2>1, <3>2, InvFacts DEF Twins
      <4>2. /\ OnFile(tree, x) /\ x.id \notin failed
            /\ x \in ToSet(list[x.kind]) \/ raised[x.id] > 0 \/ x.id \in file.done
        BY <1>1, <4>1 DEF TransferInv, Kept, Exempt
      <4>3. x.id \in file.done => x.id \in tree.done
        BY <4>2 DEF TransferInv
      <4>4. OnFile(tree, x)'
        BY <1>1, <2>1, <2>6, <2>10, <4>1, <4>2 DEF OnFile
      <4> QED
        BY <2>7, <2>8, <4>1, <4>2, <4>3, <4>4
    <3> QED
      BY <3>1, <3>2
  <2>21. Counted'
    <3> SUFFICES ASSUME OneKind', cancelled \union discarded = {}
                 PROVE  /\ \A j \in Kinds :
                             /\ pc'[j] \in InHand => cur[j] \in ToSet(list'[j])
                             /\ pc'[j] \notin Holding \union Uncounted
                        /\ \A x \in accepted' : mpc # x.kind
                        /\ (count = Cardinality(Delayed) + Cardinality(HalfCounted))'
      BY <1>1 DEF Counted
    <3>1. OneKind /\ \A x \in accepted : x.kind = k
      BY <2>1, <2>3 DEF OneKind
    <3>2. /\ \A j \in Kinds : /\ pc[j] \in InHand => cur[j] \in ToSet(list[j])
                              /\ pc[j] \in Holding => owner[j] = j
          /\ count = Cardinality(Delayed) + Cardinality(HalfCounted)
      BY <3>1 DEF TransferInv, Counted
    <3>3. \A j \in Kinds : pc[j] \notin Holding \union Uncounted
      <4>1. pc[k] \notin Holding
        BY <2>1, <3>2, KindNames
      <4>2. \A j \in Kinds : pc[j] \in InHand \union Uncounted => j = k
        BY <3>1, ThreadFacts
      <4>3. Uncounted \subseteq Holding /\ Holding \subseteq InHand \union Uncounted
        BY DEF Uncounted, Holding, InHand
      <4> QED
        BY <4>1, <4>2, <4>3
    <3>4. HalfCounted = {} /\ HalfCounted' = {}
      <4>1. HalfCounted = {}
        BY <3>3 DEF HalfCounted
      <4>2. HalfCounted' = {}
        BY <2>10, <3>3 DEF HalfCounted
      <4> QED
        BY <4>1, <4>2
    <3>5. Delayed' = (IF r.time # 0 THEN Delayed \union {r} ELSE Delayed) /\ r \notin Delayed
      <4>1. \A j \in Kinds : \A x : x \in ToSet(list'[j]) <=> (x \in ToSet(list[j]) \/ (j = k /\ x = r))
        BY <2>7, <2>8
      <4>2. r \notin Delayed
        BY <2>4, InvFacts DEF Delayed
      <4>3. \A x : x \in Delayed' <=> x \in Delayed \/ (x = r /\ r.time # 0)
        BY <4>1 DEF Delayed
      <4> QED
        BY <4>2, <4>3
    <3>6. /\ IsFiniteSet(Delayed) /\ Cardinality({}) = 0 /\ Cardinality(Delayed) \in Nat
          /\ Cardinality(Delayed \union {r}) = Cardinality(Delayed) + 1
      <4>1. Delayed \subseteq accepted
        BY InvFacts DEF Delayed
      <4> QED
        BY <3>5, <4>1, FS_Subset, FS_EmptySet, FS_AddElement, FS_CardinalityType, InvFacts
    <3>7. (count = Cardinality(Delayed) + Cardinality(HalfCounted))'
      <4>1. count' = (IF r.time # 0 THEN Cardinality(Delayed) + 1 ELSE Cardinality(Delayed)) + 0
        BY <2>1, <3>2, <3>4, <3>6
      <4>2. count' = Cardinality(Delayed') + 0
        BY <3>5, <3>6, <4>1
      <4> QED
        BY <3>4, <3>6, <4>2
    <3>8. \A x \in accepted' : mpc # x.kind
      BY <1>1, <2>1, <2>3, KindNames, InvFacts
    <3>9. \A j \in Kinds : pc'[j] \in InHand => cur[j] \in ToSet(list'[j])
      BY <2>7, <2>8, <2>10, <3>2
    <3> QED
      BY <2>10, <3>3, <3>7, <3>8, <3>9
  <2>22. AtMostOnce'
    BY <1>1 DEF TransferInv, AtMostOnce
  <2> QED
    BY <2>12, <2>13, <2>14, <2>15, <2>16, <2>17, <2>18, <2>19, <2>20, <2>21, <2>22 DEF TransferInv
<1> QED
  BY <1>2, <1>3

LEMMA DownloadInv ==
    ASSUME TransferInv, NEW type \in FileType, NEW v \in UrlKind, NEW key \in Keys, NEW delay \in Delays,
           \/ cwmp_handle_rpc_cpe_download(type, v, key, delay)
           \/ cwmp_handle_rpc_cpe_upload(type, v, key, delay)
    PROVE  TransferInv'
<1>1. /\ DownloadFault(type, v) \in {"ok", "invalid", "denied", "protocol", "resources"}
      /\ UploadFault(type, v) \in {"ok", "invalid", "denied", "protocol", "resources"}
  BY Zenon DEF DownloadFault, UploadFault
<1>2. (type \in {"firmware", "config"}) \in BOOLEAN /\ (type = "config") \in BOOLEAN
  OBVIOUS
<1>3. CASE cwmp_handle_rpc_cpe_download(type, v, key, delay)
  <2>1. Handle("download", DownloadFault(type, v), key, delay, type \in {"firmware", "config"})
    BY <1>3, Zenon DEF cwmp_handle_rpc_cpe_download
  <2>2. "download" \in Kinds
    BY <2>1 DEF Handle
  <2> QED
    BY <1>1, <1>2, <2>1, <2>2, HandleInv, Zenon
<1>4. CASE cwmp_handle_rpc_cpe_upload(type, v, key, delay)
  <2>1. Handle("upload", UploadFault(type, v), key, delay, type = "config")
    BY <1>4, Zenon DEF cwmp_handle_rpc_cpe_upload
  <2>2. "upload" \in Kinds
    BY <2>1 DEF Handle
  <2> QED
    BY <1>1, <1>2, <2>1, <2>2, HandleInv, Zenon
<1> QED
  BY <1>3, <1>4

(* CancelTransfer removes the request it has found.                        *)
LEMMA CancelInv ==
    ASSUME TransferInv, cancel_transfer_delete
    PROVE  TransferInv'
<1> DEFINE r == victim
           u == bkp_session_delete(tree, r)
           s == RemoveFirst(list[r.kind], r)
<1>1. /\ UNCHANGED <<now, owner, pc, cur, tmp, answer, rest, restarts, accepted, discarded, raised,
                     runs, failed, cut>>
      /\ mpc = "cancel" /\ mpc' = "session" /\ victim' = None
      /\ list' = [list EXCEPT ![r.kind] = s]
      /\ count' = IF r.time # 0 THEN count - 1 ELSE count
      /\ tree' = u /\ file' = tree'
      /\ cancelled' = cancelled \union {r.id}
  BY DEF cancel_transfer_delete, CancelRecord, threadVars
<1>2. /\ r \in accepted /\ r.kind \in Kinds /\ r.id \in Id /\ r.id <= Cardinality(accepted)
      /\ \A x \in accepted : x # r => x.id # r.id
  BY <1>1, InvFacts DEF TransferInv, Known, Numbered
<1>3. /\ u \in Tree /\ u.done = tree.done /\ Apart(u.requests)
      /\ ToSet(u.requests) \subseteq ToSet(tree.requests)
      /\ \A x \in ToSet(u.requests) : x.id # r.id
      /\ \A x \in accepted \ Twins : x # r /\ x \in ToSet(tree.requests) => x \in ToSet(u.requests)
  BY <1>2, RecordGone
<1>4. s \in Seq(Request) /\ InOrder(s) /\ Single(s) /\ ToSet(s) = ToSet(list[r.kind]) \ {r}
  BY <1>2, InvFacts, Unlisted
<1> HIDE DEF u, s
<1>5. /\ list' \in [Kinds -> Seq(Request)] /\ list'[r.kind] = s
      /\ \A j \in Kinds : j # r.kind => list'[j] = list[j]
      /\ \A j \in Kinds : ToSet(list'[j]) \subseteq ToSet(list[j])
      /\ \A j \in Kinds : \A x \in ToSet(list[j]) : x # r => x \in ToSet(list'[j])
  <2>1. /\ list' \in [Kinds -> Seq(Request)] /\ list'[r.kind] = s
        /\ \A j \in Kinds : j # r.kind => list'[j] = list[j]
    BY <1>1, <1>2, <1>4 DEF TransferInv, TypeOK
  <2> QED
    BY <1>4, <2>1
<1>6. TypeOK'
  <2>1. count' \in Int /\ victim' \in Request \union {None} /\ mpc' \in MainPc
    BY <1>1, InvFacts DEF MainPc
  <2> QED
    BY <1>1, <1>2, <1>3, <1>5, <2>1 DEF TransferInv, TypeOK
<1>7. Sorted' /\ Distinct' /\ AtMostOnce'
  <2>1. \A j \in Kinds : InOrder(list'[j]) /\ Single(list'[j])
    BY <1>4, <1>5, InvFacts
  <2>2. Apart(tree'.requests) /\ Apart(file'.requests) /\ Apart(rest')
    BY <1>1, <1>3 DEF TransferInv, Distinct
  <2>3. AtMostOnce'
    BY <1>1 DEF TransferInv, AtMostOnce
  <2> QED
    BY <2>1, <2>2, <2>3 DEF Sorted, InOrder, Distinct, Apart, Single
<1>8. Numbered'
  <2>1. \A i \in Id : i > Cardinality(accepted) => i # r.id
    BY <1>2, InvFacts
  <2> QED
    BY <1>1, <1>3, <2>1 DEF TransferInv, Numbered
<1>9. Known'
  BY <1>1, <1>3, <1>5 DEF TransferInv, Known
<1>10. Pending(tree)' /\ Pending(file)' /\ (file.done \ failed \subseteq tree.done)'
  BY <1>1, <1>3 DEF TransferInv, Pending
<1>11. Places'
  BY <1>1, <1>3 DEF TransferInv, Places, OnRecord
<1>12. Waiting'
  <2> SUFFICES ASSUME NEW j \in Kinds, NEW x \in ToSet(list[j])
               PROVE  \/ runs[x.id] = 0 /\ raised[x.id] = 0
                      \/ x = cur[j] /\ pc[j] \in InHand
    BY <1>1, <1>5 DEF Waiting
  <2>1. Waiting
    BY DEF TransferInv
  <2> QED
    BY <2>1, Zenon DEF Waiting
<1>13. SendHeld' /\ Loading'
  BY <1>1 DEF TransferInv, SendHeld, Loading
<1>14. Kept'
  <2> SUFFICES ASSUME NEW x \in accepted \ Twins, x.id \notin Exempt'
               PROVE  OnFile(tree, x)' /\ (x \in ToSet(list'[x.kind]) \/ raised[x.id] > 0 \/ x.id \in tree.done)
    BY <1>1, <1>3 DEF Kept, Twins, OnFile
  <2>1. x.id \notin Exempt /\ x.id # r.id /\ x # r /\ x.id \notin failed
    BY <1>1 DEF Exempt
  <2>2. /\ OnFile(tree, x) /\ x.kind \in Kinds
        /\ x \in ToSet(list[x.kind]) \/ raised[x.id] > 0 \/ x.id \in file.done
    BY <1>1, <2>1, InvFacts DEF TransferInv, Kept
  <2>3. x.id \in file.done => x.id \in tree.done
    BY <2>1 DEF TransferInv
  <2>4. OnFile(tree, x)'
    BY <1>1, <1>3, <2>1, <2>2 DEF OnFile
  <2> QED
    BY <1>5, <2>1, <2>2, <2>3, <2>4
<1>15. Counted'
  BY <1>1 DEF Counted
<1> QED
  BY <1>6, <1>7, <1>8, <1>9, <1>10, <1>11, <1>12, <1>13, <1>14, <1>15 DEF TransferInv

(* All requests are removed, one after the other.                          *)
LEMMA RemoveAllInv ==
    ASSUME TransferInv, NEW k \in Kinds, remove_all(k)
    PROVE  TransferInv'
<1>0. /\ UNCHANGED <<now, pc, cur, tmp, victim, answer, file, rest, restarts, accepted, cancelled,
                     raised, runs, failed, cut>>
      /\ mpc = k
  BY DEF remove_all, threadVars
<1>1. CASE list[k] # <<>>
  <2> DEFINE r == Head(list[k])
             u == bkp_session_delete(tree, r)
             s == Tail(list[k])
  <2>1. /\ owner' = owner /\ mpc' = mpc
        /\ list' = [list EXCEPT ![k] = s]
        /\ count' = IF r.time # 0 THEN count - 1 ELSE count
        /\ tree' = u /\ discarded' = discarded \union {r.id}
    BY <1>1 DEF remove_all
  <2>2. /\ r \in ToSet(list[k]) /\ s \in Seq(Request) /\ Picked(s, list[k])
        /\ ToSet(s) \subseteq ToSet(list[k]) /\ \A x \in ToSet(list[k]) : x # r => x \in ToSet(s)
    BY <1>1, InvFacts, HeadAndTail
  <2>3. InOrder(s) /\ Single(s)
    BY <2>2, InvFacts, PickedInOrder, PickedApart
  <2>4. /\ r \in accepted /\ r.id \in Id
        /\ \A x \in accepted : x # r => x.id # r.id
    BY <2>2, InvFacts DEF TransferInv, Numbered
  <2>5. /\ u \in Tree /\ u.done = tree.done /\ Apart(u.requests)
        /\ ToSet(u.requests) \subseteq ToSet(tree.requests)
        /\ \A x \in accepted \ Twins : x # r /\ x \in ToSet(tree.requests) => x \in ToSet(u.requests)
    BY <2>4, RecordGone
  <2> HIDE DEF r, u, s
  <2>6. /\ list' \in [Kinds -> Seq(Request)] /\ list'[k] = s
        /\ \A j \in Kinds : j # k => list'[j] = list[j]
        /\ \A j \in Kinds : ToSet(list'[j]) \subseteq ToSet(list[j])
        /\ \A j \in Kinds : \A x \in ToSet(list[j]) : x # r => x \in ToSet(list'[j])
    <3>1. /\ list' \in [Kinds -> Seq(Request)] /\ list'[k] = s
          /\ \A j \in Kinds : j # k => list'[j] = list[j]
      BY <2>1, <2>2 DEF TransferInv, TypeOK
    <3> QED
      BY <2>2, <3>1
  <2>7. TypeOK'
    <3>1. count' \in Int
      BY <2>1, InvFacts
    <3> QED
      BY <1>0, <2>1, <2>4, <2>5, <2>6, <3>1 DEF TransferInv, TypeOK
  <2>8. Sorted' /\ Distinct' /\ AtMostOnce'
    <3>1. \A j \in Kinds : InOrder(list'[j]) /\ Single(list'[j])
      BY <2>3, <2>6, InvFacts
    <3>2. Apart(tree'.requests) /\ Apart(file'.requests) /\ Apart(rest')
      BY <1>0, <2>1, <2>5 DEF TransferInv, Distinct
    <3>3. AtMostOnce'
      BY <1>0 DEF TransferInv, AtMostOnce
    <3> QED
      BY <3>1, <3>2, <3>3 DEF Sorted, InOrder, Distinct, Apart, Single
  <2>9. Numbered' /\ Known'
    BY <1>0, <2>1, <2>5, <2>6 DEF TransferInv, Numbered, Known
  <2>10. Pending(tree)' /\ Pending(file)' /\ (file.done \ failed \subseteq tree.done)'
    BY <1>0, <2>1, <2>5 DEF TransferInv, Pending
  <2>11. Places'
    BY <1>0, <2>1, <2>5 DEF TransferInv, Places, OnRecord
  <2>12. Waiting'
    <3> SUFFICES ASSUME NEW j \in Kinds, NEW x \in ToSet(list[j])
                 PROVE  \/ runs[x.id] = 0 /\ raised[x.id] = 0
                        \/ x = cur[j] /\ pc[j] \in InHand
      BY <1>0, <2>6 DEF Waiting
    <3>1. Waiting
      BY DEF TransferInv
    <3> QED
      BY <3>1, Zenon DEF Waiting
  <2>13. SendHeld' /\ Loading'
    BY <1>0, <2>1, KindNames DEF TransferInv, SendHeld, Loading
  <2>14. Kept'
    <3> SUFFICES ASSUME NEW x \in accepted \ Twins, x.id \notin Exempt'
                 PROVE  OnFile(tree, x)' /\ OnFile(file, x)'
                        /\ (x \in ToSet(list'[x.kind]) \/ raised[x.id] > 0 \/ x.id \in file.done)
      BY <1>0 DEF Kept, Twins
    <3>1. x.id \notin Exempt /\ x # r
      BY <1>0, <2>1 DEF Exempt
    <3>2. /\ OnFile(tree, x) /\ OnFile(file, x) /\ x.kind \in Kinds
          /\ x \in ToSet(list[x.kind]) \/ raised[x.id] > 0 \/ x.id \in file.done
      BY <1>0, <3>1, InvFacts, KindNames DEF TransferInv, Kept
    <3>3. OnFile(tree, x)' /\ OnFile(file, x)'
      BY <1>0, <2>1, <2>5, <3>1, <3>2 DEF OnFile
    <3> QED
      BY <2>6, <3>1, <3>2, <3>3
  <2>15. Counted'
    BY <2>1 DEF Counted
  <2> QED
    BY <2>7, <2>8, <2>9, <2>10, <2>11, <2>12, <2>13, <2>14, <2>15 DEF TransferInv
<1>2. CASE list[k] = <<>>
  <2>1. /\ owner' = [owner EXCEPT ![k] = "none"] /\ mpc' = "remove"
        /\ UNCHANGED <<list, count, tree, discarded>>
    BY <1>2 DEF remove_all
  <2>2. /\ owner' \in [Mutex -> Thread \union {"none"}] /\ owner'["send"] = owner["send"]
        /\ \A j \in Kinds : j # k => owner'[j] = owner[j]
    BY <2>1, KindNames DEF TransferInv, TypeOK, Mutex
  <2>3. TypeOK'
    BY <1>0, <2>1, <2>2 DEF TransferInv, TypeOK, MainPc
  <2>4. Sorted' /\ AtMostOnce' /\ Numbered' /\ Known' /\ Distinct' /\ Pending(tree)' /\ Pending(file)'
        /\ (file.done \ failed \subseteq tree.done)'
    BY <1>0, <2>1 DEF TransferInv, Sorted, AtMostOnce, Numbered, Known, Distinct, Apart, Single, Pending
  <2>5. Places' /\ Waiting'
    BY <1>0, <2>1 DEF TransferInv, Places, OnRecord, Waiting
  <2>6. SendHeld' /\ Loading'
    BY <1>0, <2>1, <2>2, KindNames DEF TransferInv, SendHeld, Loading
  <2>7. Kept'
    BY <1>0, <2>1, KindNames DEF TransferInv, Kept, Twins, Exempt, OnFile
  <2>8. Counted'
    <3> SUFFICES ASSUME OneKind, cancelled \union discarded = {}
                 PROVE  /\ \A j \in Kinds : pc[j] \in Holding => owner'[j] = j
                        /\ \A x \in accepted : x.kind # "remove"
      BY <1>0, <2>1 DEF TransferInv, Counted, OneKind, HalfCounted, Delayed
    <3>1. Holding \subseteq InHand \union Uncounted
      BY DEF Holding, InHand, Uncounted
    <3>2. pc[k] \notin Holding
      <4> SUFFICES ASSUME pc[k] \in Holding PROVE FALSE
        OBVIOUS
      <4>1. cur[k] \in accepted /\ cur[k].kind = k
        BY <3>1, ThreadFacts
      <4>2. owner[k] = k /\ owner[k] = "main"
        BY <1>0, <4>1 DEF TransferInv, Counted
      <4> QED
        BY <4>2, KindNames
    <3>3. \A x \in accepted : x.kind # "remove"
      BY InvFacts, KindNames
    <3> QED
      BY <2>2, <3>2, <3>3 DEF TransferInv, Counted
  <2> QED
    BY <2>3, <2>4, <2>5, <2>6, <2>7, <2>8 DEF TransferInv
<1> QED
  BY <1>1, <1>2

(* The tree is saved at the end of the removal.                            *)
LEMMA BootstrapEndInv ==
    ASSUME TransferInv, bootstrap_end
    PROVE  TransferInv'
<1>1. /\ UNCHANGED <<now, list, count, pc, cur, tmp, victim, answer, tree, rest, restarts, accepted,
                     cancelled, discarded, raised, runs, failed, cut>>
      /\ mpc = "remove" /\ mpc' = "session" /\ file' = tree
      /\ owner' = [owner EXCEPT !["queue"] = "none"]
  BY DEF bootstrap_end, threadVars, histVars
<1>2. /\ owner' \in [Mutex -> Thread \union {"none"}] /\ owner'["send"] = owner["send"]
      /\ \A j \in Kinds : owner'[j] = owner[j]
  BY <1>1, KindNames DEF TransferInv, TypeOK, Mutex
<1>3. TypeOK'
  BY <1>1, <1>2 DEF TransferInv, TypeOK, MainPc
<1>4. Sorted' /\ AtMostOnce' /\ Numbered' /\ Known' /\ Distinct' /\ Pending(tree)' /\ Pending(file)'
      /\ (file.done \ failed \subseteq tree.done)'
  BY <1>1 DEF TransferInv, Sorted, AtMostOnce, Numbered, Known, Distinct, Apart, Single, Pending
<1>5. Places' /\ Waiting'
  BY <1>1 DEF TransferInv, Places, OnRecord, Waiting
<1>6. SendHeld' /\ Loading'
  BY <1>1, <1>2 DEF TransferInv, SendHeld, Loading
<1>7. Kept'
  <2> SUFFICES ASSUME NEW x \in accepted \ Twins, x.id \notin Exempt
               PROVE  OnFile(tree, x) /\ (x \in ToSet(list[x.kind]) \/ raised[x.id] > 0 \/ x.id \in tree.done)
    BY <1>1 DEF Kept, Twins, Exempt, OnFile
  <2> QED
    BY <1>1 DEF TransferInv, Kept, Exempt
<1>8. Counted'
  <2>1. \A x \in accepted : x.kind # "session" /\ x.kind \in Kinds
    BY InvFacts, KindNames
  <2> QED
    BY <1>1, <1>2, <2>1 DEF TransferInv, Counted, OneKind, HalfCounted, Delayed
<1> QED
  BY <1>3, <1>4, <1>5, <1>6, <1>7, <1>8 DEF TransferInv

-----------------------------------------------------------------------------
(* The end of the process, and the start of the next one.                  *)
LEMMA StopInv ==
    ASSUME TransferInv, Stop, cut' \subseteq Id, cut \subseteq cut',
           \A k \in Kinds : pc[k] = "running" => cur[k].id \in cut'
    PROVE  TransferInv'
<1>1. /\ UNCHANGED <<now, answer, file, restarts, accepted, cancelled, discarded, runs, failed>>
      /\ restarts < MaxRestarts /\ mpc' = "down"
      /\ pc' = [k \in Kinds |-> "down"] /\ owner' = [m \in Mutex |-> "none"]
      /\ list' = [k \in Kinds |-> <<>>] /\ count' = 0
      /\ cur' = [k \in Kinds |-> None] /\ tmp' = [k \in Kinds |-> 0]
      /\ victim' = None /\ tree' = file /\ rest' = <<>>
      /\ raised' = [i \in Id |-> 0]
  BY DEF Stop
<1>2. <<>> \in Seq(Request) /\ ToSet(<<>>) = {} /\ Apart(<<>>) /\ Single(<<>>) /\ InOrder(<<>>)
  BY DEF ToSet, Apart, Single, InOrder
<1>3. /\ \A k \in Kinds : list'[k] = <<>> /\ pc'[k] = "down" /\ cur'[k] = None
      /\ \A i \in Id : raised'[i] = 0
      /\ \A k \in Kinds : pc'[k] \notin InHand \union Uncounted \union Holding \union Sending
  <2>1. /\ \A k \in Kinds : list'[k] = <<>> /\ pc'[k] = "down" /\ cur'[k] = None
        /\ \A i \in Id : raised'[i] = 0
    BY <1>1
  <2>2. "down" \notin InHand \union Uncounted \union Holding \union Sending
    BY DEF InHand, Uncounted, Holding, Sending
  <2> QED
    BY <2>1, <2>2
<1>4. mpc' \notin {"session", "cancel", "remove", "load"} \union Kinds /\ mpc' \in MainPc
  BY <1>1, KindNames DEF MainPc
<1>5. TypeOK'
  <2>1. /\ list' \in [Kinds -> Seq(Request)] /\ count' \in Int
        /\ owner' \in [Mutex -> Thread \union {"none"}]
        /\ pc' \in [Kinds -> ThreadPc] /\ cur' \in [Kinds -> Request \union {None}]
        /\ tmp' \in [Kinds -> Int] /\ victim' \in Request \union {None}
        /\ tree' \in Tree /\ rest' \in Seq(Request) /\ raised' \in [Id -> Nat]
    BY <1>1, <1>2, InvFacts DEF ThreadPc
  <2> QED
    BY <1>1, <1>4, <2>1 DEF TransferInv, TypeOK
<1>6. Sorted' /\ AtMostOnce' /\ Distinct'
  <2>1. \A k \in Kinds : InOrder(list'[k]) /\ Single(list'[k])
    BY <1>2, <1>3
  <2>2. Apart(tree'.requests) /\ Apart(file'.requests) /\ Apart(rest')
    BY <1>1, <1>2 DEF TransferInv, Distinct
  <2>3. AtMostOnce'
    BY <1>1, <1>3 DEF TransferInv, AtMostOnce
  <2> QED
    BY <2>1, <2>2, <2>3 DEF Sorted, InOrder, Distinct, Apart, Single
<1>7. Numbered'
  <2>1. \A i \in Id : i > Cardinality(accepted) =>
          runs[i] = 0 /\ i \notin tree.done \union file.done \union cancelled
    BY DEF TransferInv, Numbered
  <2>2. /\ IsFiniteSet(accepted)
        /\ \A r \in accepted : r.id <= Cardinality(accepted)
        /\ \A r, x \in accepted : r.id = x.id => r = x
    BY DEF TransferInv, Numbered
  <2> QED
    BY <1>1, <1>3, <2>1, <2>2 DEF Numbered
<1>8. Known'
  <2>1. ToSet(tree'.requests) \union ToSet(file'.requests) \union ToSet(rest') \subseteq accepted'
    BY <1>1, <1>2, InvFacts
  <2> QED
    BY <1>1, <1>2, <1>3, <2>1 DEF Known
<1>9. Pending(tree)' /\ Pending(file)' /\ (file.done \ failed \subseteq tree.done)'
  BY <1>1 DEF TransferInv, Pending
<1>10. Places' /\ Waiting' /\ SendHeld'
  <2>1. \A k \in Kinds : pc'[k] = "down"
    BY <1>3
  <2>2. Places'
    BY <1>3, <2>1 DEF Places
  <2>3. Waiting'
    BY <1>2, <1>3 DEF Waiting
  <2>4. SendHeld'
    BY <1>3, <1>4 DEF SendHeld
  <2> QED
    BY <2>2, <2>3, <2>4
<1>11. Loading'
  BY <1>1, <1>3 DEF Loading
<1>12. Kept'
  <2> SUFFICES ASSUME NEW x \in accepted \ Twins, x.id \notin Exempt'
               PROVE  x \in ToSet(file.requests) \/ x.id \in file.done
    BY <1>1 DEF Kept, Twins, OnFile
  <2>1. x.id \notin Exempt /\ x.id \notin cut' /\ x.kind \in Kinds
    BY <1>1, InvFacts DEF Exempt
  <2>2. OnFile(file, x)
    BY <2>1 DEF TransferInv, Kept
  <2> QED
    BY <2>1, <2>2 DEF OnFile
<1>13. Counted'
  <2>1. Delayed' = {} /\ HalfCounted' = {}
    <3>1. Delayed' = {}
      BY <1>2, <1>3 DEF Delayed
    <3>2. HalfCounted' = {}
      BY <1>3 DEF HalfCounted
    <3> QED
      BY <3>1, <3>2
  <2>2. (count = Cardinality(Delayed) + Cardinality(HalfCounted))'
    <3>1. Cardinality({}) = 0
      BY FS_EmptySet
    <3>2. count' = Cardinality(Delayed') + Cardinality(HalfCounted')
      BY <1>1, <2>1, <3>1
    <3> QED
      BY <3>2
  <2>3. \A r \in accepted' : mpc' # r.kind
    BY <1>1, <1>4, InvFacts
  <2> QED
    BY <1>3, <2>2, <2>3 DEF Counted
<1> QED
  BY <1>5, <1>6, <1>7, <1>8, <1>9, <1>10, <1>11, <1>12, <1>13 DEF TransferInv

(* In a crash the requests that run are cut; when the process exits by     *)
(* itself, its thread holds mutex_session_send and no other runs one.      *)
LEMMA CrashInv ==
    ASSUME TransferInv, crash
    PROVE  TransferInv'
<1>1. \A k \in Kinds : pc[k] = "running" => cur[k].id \in Id
  <2>1. \A k \in Kinds : pc[k] = "running" => cur[k] \in accepted
    BY ThreadFacts DEF InHand, Sending
  <2> QED
    BY <2>1, InvFacts
<1>2. /\ Stop
      /\ cut' = cut \union {cur[k].id : k \in {j \in Kinds : pc[j] = "running"}}
  BY DEF crash
<1>3. cut \subseteq Id
  BY DEF TransferInv, TypeOK
<1>4. cut' \subseteq Id /\ cut \subseteq cut' /\ \A k \in Kinds : pc[k] = "running" => cur[k].id \in cut'
  BY <1>1, <1>2, <1>3
<1> QED
  BY <1>2, <1>4, StopInv

LEMMA ExitInv ==
    ASSUME TransferInv, NEW k \in Kinds, ExitApplied(k)
    PROVE  TransferInv'
<1>1. Stop /\ cut' = cut /\ pc[k] = "apply"
  BY DEF ExitApplied
<1>2. \A j \in Kinds : pc[j] # "running"
  <2>1. \A j \in Kinds : pc[j] \in Sending => owner["send"] = j
    BY DEF TransferInv, SendHeld
  <2>2. "apply" \in Sending /\ "running" \in Sending
    BY DEF Sending
  <2> QED
    BY <1>1, <2>1, <2>2
<1>3. cut \subseteq Id
  BY DEF TransferInv, TypeOK
<1> QED
  BY <1>1, <1>2, <1>3, StopInv

LEMMA RestartInv ==
    ASSUME TransferInv, restart
    PROVE  TransferInv'
<1>1. /\ UNCHANGED <<now, list, count, owner, pc, cur, tmp, victim, answer, tree, file, accepted,
                     cancelled, discarded, runs, failed, cut>>
      /\ mpc = "down" /\ mpc' = "load" /\ rest' = file.requests
      /\ raised' = [i \in Id |-> IF i \in file.done THEN 1 ELSE 0]
      /\ restarts' = restarts + 1
  BY DEF restart, threadVars
<1>2. /\ restarts < MaxRestarts /\ tree = file
      /\ \A k \in Kinds : list[k] = <<>> /\ pc[k] = "down"
  BY <1>1 DEF TransferInv, Loading
<1>3. ToSet(<<>>) = {}
  BY DEF ToSet
<1>4. \A k \in Kinds : pc[k] \notin InHand \union Uncounted \union Holding \union Sending
  <2>1. "down" \notin InHand \union Uncounted \union Holding \union Sending
    BY DEF InHand, Uncounted, Holding, Sending
  <2> QED
    BY <1>2, <2>1
<1>5. mpc' \notin {"down", "session", "cancel", "remove"} \union Kinds /\ mpc' \in MainPc
  BY <1>1, KindNames DEF MainPc
<1>6. /\ raised' \in [Id -> Nat]
      /\ \A i \in Id : raised'[i] <= 1 /\ (i \in file.done <=> raised'[i] > 0)
  BY <1>1
<1>7. TypeOK'
  <2>1. restarts' \in 0 .. MaxRestarts
    BY <1>1, <1>2, NumbersAssumption DEF TransferInv, TypeOK
  <2>2. rest' \in Seq(Request)
    BY <1>1, InvFacts
  <2> QED
    BY <1>1, <1>5, <1>6, <2>1, <2>2 DEF TransferInv, TypeOK
<1>8. Sorted' /\ AtMostOnce' /\ Distinct'
  BY <1>1, <1>6 DEF TransferInv, Sorted, AtMostOnce, Distinct, Apart, Single
<1>9. Numbered'
  <2>1. \A i \in Id : i > Cardinality(accepted) =>
          /\ runs[i] = 0 /\ i \notin tree.done \union file.done \union cancelled
          /\ raised'[i] = 0
    BY <1>6, <1>1 DEF TransferInv, Numbered
  <2> QED
    BY <1>1, <2>1 DEF TransferInv, Numbered
<1>10. Known'
  <2>1. mpc' # "cancel"
    BY <1>1
  <2> QED
    BY <1>1, <2>1 DEF TransferInv, Known
<1>11. Pending(tree)' /\ Pending(file)' /\ (file.done \ failed \subseteq tree.done)'
  BY <1>1 DEF TransferInv, Pending
<1>12. Places'
  BY <1>1, <1>2, <1>4 DEF Places
<1>13. Waiting' /\ SendHeld'
  BY <1>1, <1>2, <1>3, <1>4, <1>5 DEF Waiting, SendHeld
<1>14. Loading'
  <2>1. \A r \in ToSet(file.requests) : r \in ToSet(rest')
    BY <1>1
  <2> QED
    BY <1>1, <1>2, <1>3, <1>6, <2>1 DEF Loading
<1>15. Kept'
  <2> SUFFICES ASSUME NEW x \in accepted \ Twins, x.id \notin Exempt
               PROVE  OnFile(tree, x) /\ OnFile(file, x)
    BY <1>1 DEF Kept, Twins, Exempt, OnFile
  <2> QED
    BY DEF TransferInv, Kept
<1>16. Counted'
  <2>1. \A x \in accepted : mpc' # x.kind
    BY <1>5, InvFacts
  <2> QED
    BY <1>1, <1>4, <2>1 DEF TransferInv, Counted, OneKind, HalfCounted, Delayed
<1> QED
  BY <1>7, <1>8, <1>9, <1>10, <1>11, <1>12, <1>13, <1>14, <1>15, <1>16 DEF TransferInv

(* Loading puts a record into its list, after those of the same time; then *)
(* the threads start.                                                      *)
LEMMA LoadInv ==
    ASSUME TransferInv, load_request
    PROVE  TransferInv'
<1>1. /\ UNCHANGED <<now, owner, cur, tmp, victim, answer, tree, file, restarts, accepted, cancelled,
                     discarded, raised, runs, failed, cut>>
      /\ mpc = "load"
  BY DEF load_request, histVars
<1>2. /\ tree = file /\ \A k \in Kinds : pc[k] = "down"
      /\ ToSet(rest) \subseteq ToSet(file.requests)
      /\ \A r \in ToSet(file.requests) : r \in ToSet(rest) \/ r \in ToSet(list[r.kind])
      /\ \A k \in Kinds : ToSet(list[k]) \intersect ToSet(rest) = {}
      /\ \A i \in Id : i \in file.done <=> raised[i] > 0
  BY <1>1 DEF TransferInv, Loading
<1>3. \A k \in Kinds : pc[k] \notin InHand \union Uncounted \union Holding \union Sending
  <2>1. "down" \notin InHand \union Uncounted \union Holding \union Sending
    BY DEF InHand, Uncounted, Holding, Sending
  <2> QED
    BY <1>2, <2>1
<1>4. CASE rest # <<>>
  <2> DEFINE r == Head(rest)
             s == LoadInto(list[r.kind], r)
             t == Tail(rest)
  <2>1. /\ list' = [list EXCEPT ![r.kind] = s]
        /\ count' = IF r.time # 0 THEN count + 1 ELSE count
        /\ rest' = t /\ pc' = pc /\ mpc' = mpc
    BY <1>4 DEF load_request
  <2>2. /\ r \in ToSet(rest) /\ t \in Seq(Request) /\ Picked(t, rest)
        /\ ToSet(t) \subseteq ToSet(rest)
        /\ \A x \in ToSet(rest) : x # r => x \in ToSet(t)
    BY <1>4, InvFacts, HeadAndTail
  <2>3. r \in ToSet(file.requests) /\ r \in accepted /\ r.kind \in Kinds /\ r.id \in Id
        /\ r \in Request
    BY <1>2, <2>2, InvFacts
  <2>4. r \notin ToSet(t)
    <3>1. Single(rest)
      BY InvFacts, ApartIsSingle DEF TransferInv, Distinct
    <3>2. /\ Len(rest) \in Nat \ {0} /\ r = rest[1] /\ Len(t) = Len(rest) - 1
          /\ \A i \in 1 .. Len(rest) - 1 : t[i] = rest[i + 1]
      BY <1>4, InvFacts, HeadTailProperties, LenProperties
    <3>3. /\ DOMAIN rest = 1 .. Len(rest)
          /\ \A x : x \in ToSet(t) <=> \E i \in 1 .. Len(t) : t[i] = x
      BY <2>2, InvFacts, ElementsOf
    <3> HIDE DEF r, t
    <3>4. \A i \in 1 .. Len(rest) - 1 : i + 1 \in DOMAIN rest /\ i + 1 # 1 /\ 1 \in DOMAIN rest
      BY <3>2, <3>3
    <3> QED
      BY <3>1, <3>2, <3>3, <3>4 DEF Single
  <2>5. r \notin ToSet(list[r.kind])
    BY <1>2, <2>2, <2>3
  <2>6. s \in Seq(Request) /\ ToSet(s) = ToSet(list[r.kind]) \union {r} /\ InOrder(s) /\ Single(s)
    <3>1. list[r.kind] \in Seq(Request) /\ InOrder(list[r.kind]) /\ Single(list[r.kind])
      BY <2>3, InvFacts
    <3>2. s = InsertBefore(list[r.kind], r, r.time + 1)
      BY DEF LoadInto
    <3> HIDE DEF r, s
    <3> QED
      BY <2>3, <2>5, <3>1, <3>2, InsertedInOrder
  <2>7. Apart(t)
    BY <2>2, InvFacts, PickedApart DEF TransferInv, Distinct
  <2>8. runs[r.id] = 0 /\ raised[r.id] = 0
    <3>1. runs[r.id] = 0 /\ r.id \notin file.done
      BY <2>3 DEF TransferInv, Pending
    <3> QED
      BY <1>2, <2>3, <3>1, InvFacts
  <2> HIDE DEF r, s, t
  <2>9. /\ list' \in [Kinds -> Seq(Request)] /\ list'[r.kind] = s
        /\ \A j \in Kinds : j # r.kind => list'[j] = list[j]
        /\ \A j \in Kinds : \A x : x \in ToSet(list'[j]) <=> (x \in ToSet(list[j]) \/ (j = r.kind /\ x = r))
    <3>1. /\ list' \in [Kinds -> Seq(Request)] /\ list'[r.kind] = s
          /\ \A j \in Kinds : j # r.kind => list'[j] = list[j]
      BY <2>1, <2>3, <2>6 DEF TransferInv, TypeOK
    <3> QED
      BY <2>6, <3>1
  <2>10. TypeOK'
    <3>1. count' \in Int /\ rest' \in Seq(Request)
      BY <2>1, <2>2, InvFacts
    <3> QED
      BY <1>1, <2>1, <2>9, <3>1 DEF TransferInv, TypeOK
  <2>11. Sorted' /\ Distinct' /\ AtMostOnce'
    <3>1. \A j \in Kinds : InOrder(list'[j]) /\ Single(list'[j])
      BY <2>6, <2>9, InvFacts
    <3>2. Apart(tree'.requests) /\ Apart(file'.requests) /\ Apart(rest')
      BY <1>1, <2>1, <2>7 DEF TransferInv, Distinct
    <3>3. AtMostOnce'
      BY <1>1 DEF TransferInv, AtMostOnce
    <3> QED
      BY <3>1, <3>2, <3>3 DEF Sorted, InOrder, Distinct, Apart, Single
  <2>12. Numbered'
    BY <1>1 DEF TransferInv, Numbered
  <2>13. Known'
    <3>1. \A j \in Kinds : \A x \in ToSet(list'[j]) : x \in accepted /\ x.kind = j
      BY <2>3, <2>9 DEF TransferInv, Known
    <3>2. ToSet(rest') \subseteq accepted
      BY <2>1, <2>2 DEF TransferInv, Known
    <3> QED
      BY <1>1, <2>1, <3>1, <3>2 DEF TransferInv, Known
  <2>14. Pending(tree)' /\ Pending(file)' /\ (file.done \ failed \subseteq tree.done)'
    BY <1>1 DEF TransferInv, Pending
  <2>15. Places' /\ SendHeld'
    BY <1>1, <2>1 DEF TransferInv, Places, OnRecord, SendHeld
  <2>16. Waiting'
    <3> SUFFICES ASSUME NEW j \in Kinds, NEW x \in ToSet(list'[j])
                 PROVE  runs[x.id] = 0 /\ raised[x.id] = 0
      BY <1>1 DEF Waiting
    <3>1. x = r \/ x \in ToSet(list[j])
      BY <2>9
    <3> QED
      BY <1>3, <2>8, <3>1 DEF TransferInv, Waiting
  <2>17. Loading'
    <3>1. ToSet(t) \subseteq ToSet(file.requests)
      BY <1>2, <2>2
    <3>2. \A x \in ToSet(file.requests) : x \in ToSet(t) \/ x \in ToSet(list'[x.kind])
      BY <1>2, <2>2, <2>3, <2>9, InvFacts
    <3>3. \A j \in Kinds : ToSet(list'[j]) \intersect ToSet(t) = {}
      BY <1>2, <2>2, <2>4, <2>9
    <3> QED
      BY <1>1, <1>2, <2>1, <3>1, <3>2, <3>3 DEF Loading
  <2>18. Kept'
    BY <1>1, <2>1 DEF TransferInv, Kept, Twins, Exempt, OnFile
  <2>19. Counted'
    <3> SUFFICES ASSUME OneKind, cancelled \union discarded = {}
                 PROVE  (count = Cardinality(Delayed) + Cardinality(HalfCounted))'
      BY <1>1, <1>3, <2>1 DEF TransferInv, Counted, OneKind
    <3>1. HalfCounted = {} /\ HalfCounted' = {}
      BY <1>3, <2>1 DEF HalfCounted
    <3>2. count = Cardinality(Delayed) + Cardinality(HalfCounted)
      BY DEF TransferInv, Counted
    <3>3. Delayed' = (IF r.time # 0 THEN Delayed \union {r} ELSE Delayed) /\ r \notin Delayed
      <4>1. r \notin Delayed
        <5>1. \A j \in Kinds : r \notin ToSet(list[j])
          BY <1>2, <2>2
        <5> QED
          BY <5>1 DEF Delayed
      <4>2. \A x : x \in Delayed' <=> x \in Delayed \/ (x = r /\ r.time # 0)
        BY <2>3, <2>9 DEF Delayed
      <4> QED
        BY <4>1, <4>2
    <3>4. /\ Cardinality({}) = 0 /\ Cardinality(Delayed) \in Nat
          /\ Cardinality(Delayed \union {r}) = Cardinality(Delayed) + 1
      <4>1. Delayed \subseteq accepted
        BY InvFacts DEF Delayed
      <4> QED
        BY <3>3, <4>1, FS_Subset, FS_EmptySet, FS_AddElement, FS_CardinalityType, InvFacts
    <3>5. count' = (IF r.time # 0 THEN Cardinality(Delayed) + 1 ELSE Cardinality(Delayed)) + 0
      BY <2>1, <3>1, <3>2, <3>4
    <3>6. count' = Cardinality(Delayed') + 0
      BY <3>3, <3>4, <3>5
    <3> QED
      BY <3>1, <3>4, <3>6
  <2> QED
    BY <2>10, <2>11, <2>12, <2>13, <2>14, <2>15, <2>16, <2>17, <2>18, <2>19 DEF TransferInv
<1>5. CASE rest = <<>>
  <2>1. /\ pc' = [k \in Kinds |-> "look"] /\ mpc' = "idle"
        /\ UNCHANGED <<list, count, rest>>
    BY <1>5 DEF load_request
  <2>2. \A k \in Kinds : /\ pc'[k] = "look" /\ pc'[k] # "down"
                         /\ pc'[k] \notin InHand \union Uncounted \union Holding \union Sending
    <3>1. "look" \notin InHand \union Uncounted \union Holding \union Sending \union {"down"}
      BY DEF InHand, Uncounted, Holding, Sending
    <3> QED
      BY <2>1, <3>1
  <2>3. mpc' \notin {"down", "load", "session", "cancel", "remove"} \union Kinds /\ mpc' \in MainPc
    BY <2>1, KindNames DEF MainPc
  <2>4. TypeOK'
    <3>1. pc' \in [Kinds -> ThreadPc]
      BY <2>1 DEF ThreadPc
    <3> QED
      BY <1>1, <2>1, <2>3, <3>1 DEF TransferInv, TypeOK
  <2>5. Sorted' /\ AtMostOnce' /\ Numbered' /\ Known' /\ Distinct' /\ Pending(tree)' /\ Pending(file)'
        /\ (file.done \ failed \subseteq tree.done)'
    BY <1>1, <2>1 DEF TransferInv, Sorted, AtMostOnce, Numbered, Known, Distinct, Apart, Single, Pending
  <2>6. Places'
    BY <2>2 DEF Places
  <2>7. Waiting'
    BY <1>1, <1>3, <2>1 DEF TransferInv, Waiting
  <2>8. SendHeld' /\ Loading'
    BY <1>5, <2>1, <2>2, <2>3 DEF SendHeld, Loading
  <2>9. Kept'
    <3> SUFFICES ASSUME NEW x \in accepted \ Twins, x.id \notin Exempt
                 PROVE  /\ x \in ToSet(file.requests) \/ x.id \in file.done
                        /\ x \in ToSet(list[x.kind]) \/ raised[x.id] > 0 \/ x.id \in file.done
      BY <1>1, <1>2, <2>1 DEF Kept, Twins, Exempt, OnFile
    <3>1. OnFile(file, x) /\ x.kind \in Kinds
      BY InvFacts DEF TransferInv, Kept
    <3>2. x \in ToSet(file.requests) \/ x.id \in file.done
      BY <1>2, <3>1 DEF OnFile
    <3>3. ToSet(rest) = {}
      BY <1>5 DEF ToSet
    <3> QED
      BY <1>2, <3>2, <3>3
  <2>10. Counted'
    <3>1. HalfCounted = {} /\ HalfCounted' = {}
      BY <1>3, <2>2 DEF HalfCounted
    <3>2. Delayed' = Delayed
      BY <2>1 DEF Delayed
    <3>3. \A x \in accepted : mpc' # x.kind
      BY <2>3, InvFacts
    <3> QED
      BY <1>1, <2>1, <2>2, <3>1, <3>2, <3>3 DEF TransferInv, Counted, OneKind
  <2> QED
    BY <2>4, <2>5, <2>6, <2>7, <2>8, <2>9, <2>10 DEF TransferInv
<1> QED
  BY <1>4, <1>5

-----------------------------------------------------------------------------
(* Every step keeps the invariant.                                         *)
LEMMA LoopInv ==
    ASSUME TransferInv, NEW k \in Kinds, Loop(k)
    PROVE  TransferInv'
<1>1. CASE Look(k) \/ Wait(k) \/ Sleep(k) \/ Timer(k) \/ Woken(k)
  BY <1>1, LookInv
<1>2. CASE Expire(k) \/ ExpireReport(k) \/ ExpireUnlink(k) \/ ExpireUnlock(k)
  BY <1>2, ExpireInv, ReportInv, UnlinkInv, UnlockInv
<1>3. CASE Launch(k) \/ Ran(k) \/ Fault(k) \/ Apply(k) \/ Report(k) \/ Release(k)
  BY <1>3, LaunchInv, RanInv, FaultInv, ReportInv
<1>4. CASE Unlink(k) \/ Unlock(k)
  BY <1>4, UnlinkInv, UnlockInv
<1> QED
  BY <1>1, <1>2, <1>3, <1>4 DEF Loop

LEMMA SessionInv ==
    ASSUME TransferInv, Session
    PROVE  TransferInv'
<1>1. CASE session_begin \/ session_end \/ bootstrap_begin
  BY <1>1, MainInv
<1>2. CASE \E type \in FileType, u \in UrlKind, key \in Keys, delay \in Delays :
              \/ cwmp_handle_rpc_cpe_download(type, u, key, delay)
              \/ cwmp_handle_rpc_cpe_upload(type, u, key, delay)
  BY <1>2, DownloadInv
<1>3. CASE \E key \in Keys : cancel_transfer_find(key)
  BY <1>3, MainInv
<1>4. CASE cancel_transfer_delete
  BY <1>4, CancelInv
<1>5. CASE bootstrap_end
  BY <1>5, BootstrapEndInv
<1>6. CASE \E k \in Kinds : remove_begin(k) \/ remove_all(k)
  BY <1>6, MainInv, RemoveAllInv
<1> QED
  BY <1>1, <1>2, <1>3, <1>4, <1>5, <1>6 DEF Session

LEMMA TransferNextInv == TransferInv /\ [Next]_vars => TransferInv'
<1> SUFFICES ASSUME TransferInv, [Next]_vars PROVE TransferInv'
  OBVIOUS
<1>1. CASE thread_cwmp_rpc_cpe_download \/ thread_cwmp_rpc_cpe_upload
  BY <1>1, LoopInv DEF thread_cwmp_rpc_cpe_download, thread_cwmp_rpc_cpe_upload
<1>2. CASE Session
  BY <1>2, SessionInv
<1>3. CASE crash
  BY <1>3, CrashInv
<1>4. CASE restart
  BY <1>4, RestartInv
<1>5. CASE load_request
  BY <1>5, LoadInv
<1>6. CASE \E k \in Kinds : ExitApplied(k)
  BY <1>6, ExitInv
<1>7. CASE tick \/ UNCHANGED vars
  BY <1>7, ClockInv
<1> QED
  BY <1>1, <1>2, <1>3, <1>4, <1>5, <1>6, <1>7 DEF Next

-----------------------------------------------------------------------------
(* What the invariant says of the lists and records.                       *)
LEMMA InvConsistent ==
    ASSUME TransferInv
    PROVE  ListsConsistent
<1>1. HalfCounted = {k \in Kinds : pc[k] \in {"expireCount", "count"} /\ cur[k].time # 0}
  BY DEF HalfCounted, Uncounted
<1>2. CountMatches
  BY <1>1 DEF TransferInv, Counted, CountMatches
<1>3. NeverBoth
  BY DEF TransferInv, Pending, NeverBoth, Ids
<1> QED
  BY <1>2, <1>3 DEF TransferInv, ListsConsistent

LEMMA InvLosesNothing ==
    ASSUME TransferInv
    PROVE  NothingLost /\ CancelSticks
<1>1. NothingLost
  BY DEF TransferInv, Kept, Exempt, NothingLost
<1>2. CancelSticks
  BY DEF TransferInv, Pending, CancelSticks, Ids
<1> QED
  BY <1>1, <1>2

(* The invariant holds in every reachable state.                           *)
LEMMA Invariant == Spec => []TransferInv
BY TransferInitInv, TransferNextInv, PTL DEF Spec

(* The lists of downloads and uploads are sorted by time, their shared     *)
(* counter is right as long as one kind of request is in use and none was  *)
(* cancelled or discarded, no request is pending and done on file, and     *)
(* none is run or reported twice: through the blocking calls of both       *)
(* threads (xml.c), the handlers of the session and any number of crashes. *)
THEOREM ListsAlwaysConsistent == Spec => []ListsConsistent
BY Invariant, InvConsistent, PTL

(* An accepted request is in its list, reported or done on file, unless it *)
(* was cancelled or discarded, its script was cut by a crash, its launch   *)
(* failed, or another request has the same fields (the handlers,           *)
(* cwmp_launch_download and the load functions of backupSession.c).        *)
THEOREM NothingEverLost == Spec => []NothingLost
BY Invariant, InvLosesNothing, PTL

(* No record of a request that CancelTransfer has removed is on file       *)
(* (cancel_transfer, bkp_session_delete_download, _upload).                *)
THEOREM CancelAlwaysSticks == Spec => []CancelSticks
BY Invariant, InvLosesNothing, PTL

=============================================================================
