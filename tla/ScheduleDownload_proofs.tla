---------------------- MODULE ScheduleDownload_proofs ----------------------
(***************************************************************************)
(* ScheduleDownload: no transfer is started before its window, pending and *)
(* done requests are kept apart, mutexes are given back and no accepted    *)
(* request is lost, for any windows, modes and number of requests, through *)
(* changes of the ACS, and at any number of crashes and restarts.          *)
(*                                                                         *)
(* The records are searched by their fields, so that requests with the     *)
(* same fields, twins, may lose or take each other's record.  What keeps   *)
(* that from doing harm is their order: of twins, the one accepted first   *)
(* is first in every list and in the records, is run first and is deleted  *)
(* first.                                                                  *)
(***************************************************************************)
EXTENDS ScheduleDownload, SequenceLemmas, FiniteSetTheorems

(* No two entries are found by the same search; twins stand in the order   *)
(* in which they were accepted.                                            *)
Apart(s) == \A i, j \in DOMAIN s : i # j => ~Same(s[i], s[j])
InOrder(s) == \A i, j \in DOMAIN s : i < j /\ Same(s[i], s[j]) => s[i].id < s[j].id
Single(s) == \A i, j \in DOMAIN s : i # j => s[i] # s[j]

(* A request is known by its number; its windows follow each other.        *)
Numbered ==
    /\ IsFiniteSet(accepted)
    /\ \A r \in accepted : r.id <= Cardinality(accepted)
    /\ \A r, x \in accepted : r.id = x.id => r = x
    /\ \A r \in accepted : /\ 1 <= r.start[1] /\ r.start[1] <= r.end[1]
                           /\ r.end[1] <= r.start[2] /\ r.start[2] <= r.end[2]

(* What is in a list, on record or in the hand of a thread was accepted.   *)
Known ==
    /\ \A t \in Thread : ToSet(list[t]) \subseteq accepted
                         /\ (cur[t] # None => cur[t] \in accepted)
                         /\ (here[t] # None => here[t] \in accepted)
    /\ ToSet(tree.requests) \subseteq accepted /\ ToSet(tree.applies) \subseteq accepted
    /\ ToSet(file.requests) \subseteq accepted /\ ToSet(file.applies) \subseteq accepted

(* A process that is down has nothing but its file, and will be restarted.  *)
Down ==
    ~up => /\ \A t \in Thread : /\ pc[t] = "down" /\ list[t] = <<>> /\ cur[t] = None
                                /\ min_time[t] = 0 /\ here[t] = None
           /\ \A m \in Mutex : owner[m] = "none"
           /\ tree = file /\ restarts < MaxRestarts

(* Each thread is in its own part of the code, with a request in hand.     *)
Places ==
    /\ pc["download"] \notin Late /\ pc["apply"] \notin Idle \union Now
    /\ up => \A t \in Thread : pc[t] # "down"
    /\ pc["download"] \in Idle \union Now => cur["download"] # None
    /\ pc["apply"] \in Late => cur["apply"] # None
    /\ \A t \in Thread : /\ pc[t] \in {"expire", "expiring"} => here[t] # None
                         /\ pc[t] \notin Walking => here[t] = None

(* min_time is the beginning of a window of the chosen request, and has    *)
(* come when it is launched.                                               *)
Chosen ==
    /\ \A t \in Thread :
        /\ ctime[t] <= now
        /\ cur[t] = None => min_time[t] = 0
        /\ cur[t] # None => min_time[t] \in {cur[t].start[1], cur[t].start[2]}
    /\ pc["download"] \in {"launch", "launchNow"} => min_time["download"] <= now

(* What a walk has passed is not over, and min_time is not later.          *)
Walked(t) ==
    here[t] # None =>
      \A i, j \in DOMAIN list[t] : i < j /\ list[t][j] = here[t] =>
        /\ ~Over(list[t][i], ctime[t])
        /\ min_time[t] # 0 /\ min_time[t] <= Begins(list[t][i], ctime[t])

(* Whether the chosen window is one of mode 2: cwmp_launch_schedule_download*)
(* is called at once then, and between sessions otherwise.                 *)
AtOnce ==
    \E i \in 1 .. 2 : cur["download"].start[i] = min_time["download"]
                      /\ cur["download"].mode[i] = "now"
Way ==
    /\ pc["download"] \in Idle => ~AtOnce
    /\ pc["download"] \in Now => AtOnce

(* Only accepted requests were started or are done.                        *)
Fresh ==
    \A i \in Id : started[i] # 0 \/ i \in tree.done \/ i \in file.done =>
        \E r \in accepted : r.id = i

BaseInv == TypeOK /\ Numbered /\ Fresh /\ Known /\ Down /\ Places /\ Chosen /\ Way /\ NotEarly
           /\ \A t \in Thread : Walked(t)

(* Who holds each mutex.                                                   *)
Mutexes ==
    /\ owner["schedule"] # "main" /\ owner["apply"] # "main"
    /\ owner["queue"] \in {"main", "none"}
    /\ removing # <<>> => owner["send"] = "main"
    /\ owner["queue"] = "main" => removing # <<>>
    /\ owner["send"] = "download"
          <=> pc["download"] \in (Idle \ {"launch", "unlink"})
                \union {"tryApply", "trySchedule", "applyNow", "releaseNow"}
    /\ owner["send"] = "apply" <=> pc["apply"] \in Late \ {"aLock", "aUnlink"}
    /\ MutexesReleased
    /\ failed = {} /\ ~SecondWindow =>
          (owner["schedule"] = "apply" <=> pc["apply"] \in {"aSaved", "aApply", "aRelease"})

-----------------------------------------------------------------------------
(* The order of twins.  What is chosen stands first of its twins.          *)
FirstOfTwins ==
    \A t \in Thread : cur[t] # None =>
        \A y \in ToSet(list[t]) : Same(y, cur[t]) => cur[t].id <= y.id

(* So does what is over.                                                   *)
FirstOver ==
    \A t \in Thread : pc[t] \in {"expire", "expiring"} =>
        \A y \in ToSet(list[t]) : Same(y, here[t]) => here[t].id <= y.id

(* What was handed to thread "apply" was accepted before its twins that    *)
(* were not.                                                               *)
Held(t) == ToSet(list[t]) \union ({cur[t], here[t]} \ {None})
HandedFirst ==
    \A x \in Held("apply"), y \in Held("download") :
        Same(x, y) => \/ x.id < y.id
                      \/ pc["download"] = "finish" /\ x = y /\ y = cur["download"]

(* A request that was launched, or is reported as missed, has no record.   *)
Launched == (Idle \union Now) \ {"launch", "launchNow"}
Unrecorded ==
    /\ pc["download"] \in Launched => cur["download"] \notin ToSet(tree.requests)
    /\ pc["apply"] \in Late \ {"aLock", "aLaunch"} => cur["apply"] \notin ToSet(tree.applies)
    /\ pc["download"] = "expiring" => /\ here["download"] \notin ToSet(tree.requests)
                                     /\ here["download"].id \in missed
    /\ pc["apply"] = "expiring" => here["apply"] \notin ToSet(tree.applies)
                                  /\ here["apply"].id \in missed

(* The records: each is found, twins are in order, and no request is both  *)
(* pending and done.                                                       *)
Books(tr) ==
    /\ Apart(tr.requests) /\ InOrder(tr.applies)
    /\ \A x \in ToSet(tr.applies), y \in ToSet(tr.requests) : Same(x, y) => x.id < y.id
    /\ \A x \in ToSet(tr.requests) \union ToSet(tr.applies) : x.id \in tr.done => x.id \in missed

(* What is on record is in a list.                                         *)
Listed ==
    up => /\ ToSet(tree.requests) \subseteq ToSet(list["download"])
          /\ ToSet(tree.applies) \subseteq ToSet(list["apply"])

(* A request that is done and not missed is run no more: it is the one in  *)
(* hand, or was chosen for a window of another mode than 2.                *)
Fetched == {"apply", "release", "unlink", "applyNow", "releaseNow", "finish", "faultNow"}
Settled ==
    /\ \A x \in ToSet(list["download"]) : x.id \in tree.done =>
          x.id \in missed \/ (x = cur["download"] /\ pc["download"] \in Fetched)
    /\ cur["download"] # None /\ cur["download"].id \in tree.done =>
          cur["download"].id \in missed \/ ~AtOnce \/ pc["download"] \in Fetched

OrderInv ==
    /\ \A t \in Thread : InOrder(list[t])
    /\ FirstOfTwins /\ FirstOver /\ HandedFirst /\ Unrecorded
    /\ Books(tree) /\ Books(file) /\ Listed /\ Settled

-----------------------------------------------------------------------------
(* What happened to the request a thread has in hand.                      *)
Reported(i) == i \in file.done \/ i \in failed
Ended ==
    /\ pc["download"] \in {"apply", "release", "unlink", "applyNow", "releaseNow", "faultNow"} =>
          Reported(cur["download"].id)
    /\ pc["download"] = "faultNow" => cur["download"].id \in failed
    /\ pc["apply"] \in {"aApply", "aRelease", "aUnlink"} => Reported(cur["apply"].id)
    /\ pc["download"] = "finish" =>
          \/ Reported(cur["download"].id) \/ cur["download"].id \in removed
          \/ cur["download"] \in ToSet(list["apply"])
          \/ raised[cur["download"].id] > 0
    /\ \A i \in file.done : i \in tree.done \/ i \in failed

(* Where an accepted request is, in the tree, in the file, in the process. *)
Excused(i) == i \in removed \/ i \in failed \/ i \in cut
OnRecord(tr, r) ==
    r \in ToSet(tr.requests) \/ r \in ToSet(tr.applies) \/ r.id \in tr.done
Kept(r) ==
    Excused(r.id) \/
        /\ OnRecord(tree, r) \/ r.id \in InFlight
        /\ OnRecord(file, r) \/ r.id \in InFlight
        /\ up => \/ r \in ToSet(list["download"]) \/ r \in ToSet(list["apply"])
                 \/ raised[r.id] > 0 \/ r.id \in file.done
KeptInv == Ended /\ \A r \in accepted \ Twins : Kept(r)

ScheduleInv == BaseInv /\ Mutexes /\ OrderInv /\ KeptInv
-----------------------------------------------------------------------------
(***************************************************************************)
(* Names, types, and what the operations on records do.                    *)
(***************************************************************************)
LEMMA RequestFields ==
    ASSUME NEW r \in Request
    PROVE  /\ r.id \in Id /\ r.id \in Nat /\ r.id > 0 /\ r # None
           /\ \A i \in {1, 2} : r.start[i] \in Nat /\ r.end[i] \in Nat
                                /\ r.start[i] \in Time /\ r.end[i] \in Time
           /\ r.mode \in [1 .. 2 -> Modes] /\ r.image \in Images
<1>1. /\ r.id \in Id /\ r.start \in [1 .. 2 -> Time] /\ r.end \in [1 .. 2 -> Time]
      /\ r.mode \in [1 .. 2 -> Modes] /\ r.image \in Images
  BY DEF Request
<1>2. MaxTime \in Nat /\ MaxRequests \in Nat
  BY WindowsAssumption
<1>3. \A i \in {1, 2} : r.start[i] \in Time /\ r.end[i] \in Time
  BY <1>1
<1>4. Time \subseteq Nat /\ \A i \in Id : i \in Nat /\ i > 0
  BY <1>2 DEF Time, Id
<1>5. r # None
  BY <1>1, <1>4 DEF None
<1> QED
  BY <1>1, <1>3, <1>4, <1>5

(* Twins have the same fields but for the number.                          *)
LEMMA SameIs ==
    ASSUME NEW x \in Request, NEW r \in Request
    PROVE  /\ Same(x, r) <=> /\ x.start = r.start /\ x.end = r.end
                             /\ x.mode = r.mode /\ x.image = r.image
           /\ Same(x, r) /\ x.id = r.id => x = r
           /\ Same(x, x)
BY DEF Same, Request

LEMMA Twinned ==
    /\ \A x, y \in Request : Same(x, y) => Same(y, x)
    /\ \A x, y, z \in Request : Same(x, y) /\ Same(y, z) => Same(x, z)
    /\ \A x, y \in Request : Same(x, y) /\ x.id = y.id => x = y
    /\ \A x \in Request : Same(x, x)
    /\ \A x, y \in Request : Same(x, y) =>
          \A c : (Over(x, c) <=> Over(y, c)) /\ Begins(x, c) = Begins(y, c)
<1>1. \A x, y \in Request : Same(x, y) => Same(y, x)
  BY SameIs
<1>2. \A x, y, z \in Request : Same(x, y) /\ Same(y, z) => Same(x, z)
  BY SameIs
<1>3. \A x, y \in Request : Same(x, y) /\ x.id = y.id => x = y
  BY SameIs
<1>4. \A x \in Request : Same(x, x)
  BY SameIs
<1>5. \A x, y \in Request : Same(x, y) =>
        \A c : (Over(x, c) <=> Over(y, c)) /\ Begins(x, c) = Begins(y, c)
  BY SameIs DEF Over, Begins
<1> QED
  BY <1>1, <1>2, <1>3, <1>4, <1>5

LEMMA Ordered ==
    ASSUME NEW s \in Seq(Request), NEW t \in Seq(Request), Picked(t, s)
    PROVE  /\ Apart(s) => Apart(t)
           /\ InOrder(s) => InOrder(t)
<1>0. \A i \in DOMAIN t : i \in Nat
  BY ElementsOf
<1>1. ASSUME InOrder(s) PROVE InOrder(t)
  BY <1>1 DEF Picked, InOrder
<1>2. ASSUME Apart(s) PROVE Apart(t)
  <2>1. ASSUME NEW i \in DOMAIN t, NEW j \in DOMAIN t, i < j
        PROVE  ~Same(t[i], t[j]) /\ ~Same(t[j], t[i])
    <3>1. PICK a \in DOMAIN s, b \in DOMAIN s : a < b /\ t[i] = s[a] /\ t[j] = s[b]
      BY <2>1 DEF Picked
    <3>2. a \in Nat /\ b \in Nat
      BY ElementsOf
    <3> QED
      BY <1>2, <3>1, <3>2 DEF Apart
  <2> QED
    BY <1>0, <2>1 DEF Apart
<1> QED
  BY <1>1, <1>2

LEMMA OrderedIsSingle ==
    ASSUME NEW s \in Seq(Request), InOrder(s)
    PROVE  /\ Single(s)
           /\ \A i, j \in DOMAIN s : Same(s[i], s[j]) /\ i <= j => s[i].id <= s[j].id
<1>1. \A i \in DOMAIN s : i \in Nat /\ s[i] \in Request /\ s[i].id \in Nat
  BY ElementsOf, RequestFields
<1>2. ASSUME NEW i \in DOMAIN s, NEW j \in DOMAIN s, i < j PROVE s[i] # s[j]
  <2>1. Same(s[i], s[i])
    BY <1>1, Twinned
  <2> QED
    BY <1>1, <1>2, <2>1 DEF InOrder
<1>3. Single(s)
  BY <1>1, <1>2 DEF Single
<1>4. ASSUME NEW i \in DOMAIN s, NEW j \in DOMAIN s, Same(s[i], s[j]), i <= j
      PROVE  s[i].id <= s[j].id
  BY <1>1, <1>4 DEF InOrder
<1> QED
  BY <1>3, <1>4

LEMMA ApartInOrder ==
    ASSUME NEW s \in Seq(Request), Apart(s)
    PROVE  InOrder(s)
<1>1. \A i \in DOMAIN s : i \in Nat
  BY ElementsOf
<1> QED
  BY <1>1 DEF Apart, InOrder

(* The first twin of r on record is deleted.                               *)
LEMMA RecordDeleted ==
    ASSUME NEW s \in Seq(Request), NEW r \in Request, NEW u, u = DeleteRecord(s, r)
    PROVE  /\ u \in Seq(Request) /\ ToSet(u) \subseteq ToSet(s)
           /\ Apart(s) => Apart(u) /\ \A x \in ToSet(u) : ~Same(x, r)
           /\ InOrder(s) => InOrder(u)
           /\ InOrder(s) /\ (\A x \in ToSet(s) : Same(x, r) => r.id <= x.id) =>
                \A x \in ToSet(u) : Same(x, r) => r.id < x.id
           /\ \A x \in ToSet(s) : ~Same(x, r) => x \in ToSet(u)
<1> DEFINE I == {i \in 1 .. Len(s) : Same(s[i], r)}
<1>1. /\ Len(s) \in Nat /\ DOMAIN s = 1 .. Len(s) /\ I \in SUBSET Nat
      /\ \A x : x \in ToSet(s) <=> \E i \in 1 .. Len(s) : s[i] = x
      /\ \A i \in 1 .. Len(s) : s[i] \in Request /\ s[i].id \in Nat
      /\ r.id \in Nat
  BY ElementsOf, RequestFields
<1>2. CASE I = {}
  <2>1. u = s
    BY <1>1, <1>2 DEF DeleteRecord, SelectInSeq
  <2>2. \A x \in ToSet(s) : ~Same(x, r)
    BY <1>1, <1>2
  <2> QED
    BY <2>1, <2>2
<1>3. CASE I # {}
  <2>1. PICK a \in 1 .. Len(s) : a = Min(I) /\ Same(s[a], r) /\ \A i \in I : a <= i
    BY <1>1, <1>3, MinNat
  <2>2. u = RemoveAt(s, a)
    BY <1>1, <1>3, <2>1 DEF DeleteRecord, SelectInSeq
  <2>3. u \in Seq(Request)
    BY <2>2, RemoveAtProperties
  <2>4. /\ Picked(u, s) /\ ToSet(u) \subseteq ToSet(s)
        /\ \A x \in ToSet(s) : x # s[a] => x \in ToSet(u)
        /\ \A x \in ToSet(u) : \E j \in 1 .. Len(s) : j # a /\ s[j] = x
    BY <2>2, ElementsRemoved
  <2>5. (Apart(s) => Apart(u)) /\ (InOrder(s) => InOrder(u))
    BY <2>3, <2>4, Ordered
  <2>6. ASSUME NEW x \in ToSet(u), Same(x, r)
        PROVE  \E j \in I : a < j /\ s[j] = x /\ Same(s[a], x)
    <3>1. PICK j \in 1 .. Len(s) : j # a /\ s[j] = x
      BY <2>4
    <3>2. j \in I
      BY <2>6, <3>1
    <3>3. a < j
      BY <2>1, <3>1, <3>2
    <3>4. Same(s[a], x)
      BY <1>1, <2>1, <2>6, <3>1, Twinned
    <3> QED
      BY <3>1, <3>2, <3>3, <3>4
  <2>7. Apart(s) => \A x \in ToSet(u) : ~Same(x, r)
    BY <1>1, <2>6 DEF Apart
  <2>8. ASSUME InOrder(s), \A x \in ToSet(s) : Same(x, r) => r.id <= x.id,
               NEW x \in ToSet(u), Same(x, r)
        PROVE  r.id < x.id
    <3>1. PICK j \in I : a < j /\ s[j] = x /\ Same(s[a], x)
      BY <2>6, <2>8
    <3>2. s[a].id < x.id
      BY <1>1, <2>8, <3>1 DEF InOrder
    <3>3. r.id <= s[a].id
      BY <1>1, <2>1, <2>8
    <3> QED
      BY <1>1, <3>1, <3>2, <3>3
  <2>9. ASSUME NEW x \in ToSet(s), ~Same(x, r) PROVE x \in ToSet(u)
    BY <2>1, <2>4, <2>9
  <2> HIDE DEF I
  <2> QED
    BY <2>3, <2>4, <2>5, <2>7, <2>8, <2>9
<1> QED
  BY <1>2, <1>3

(* A new entry at the end.                                                 *)
LEMMA EntryAppended ==
    ASSUME NEW s \in Seq(Request), NEW r \in Request
    PROVE  /\ Append(s, r) \in Seq(Request) /\ ToSet(Append(s, r)) = ToSet(s) \union {r}
           /\ Apart(s) /\ (\A x \in ToSet(s) : ~Same(x, r)) => Apart(Append(s, r))
           /\ InOrder(s) /\ (\A x \in ToSet(s) : Same(x, r) => x.id < r.id) =>
                InOrder(Append(s, r))
<1> DEFINE u == Append(s, r)
<1>1. /\ u \in Seq(Request) /\ Len(u) = Len(s) + 1 /\ ToSet(u) = ToSet(s) \union {r}
      /\ \A i \in 1 .. Len(s) : u[i] = s[i]
      /\ u[Len(s) + 1] = r
  BY ElementsAppended
<1> HIDE DEF u
<1>2. /\ Len(s) \in Nat /\ DOMAIN s = 1 .. Len(s) /\ DOMAIN u = 1 .. Len(s) + 1
      /\ \A i \in 1 .. Len(s) : s[i] \in ToSet(s) /\ s[i] \in Request
  BY <1>1, ElementsOf
<1>3. ASSUME Apart(s), \A x \in ToSet(s) : ~Same(x, r) PROVE Apart(u)
  <2>1. \A i \in 1 .. Len(s) : ~Same(s[i], r) /\ ~Same(r, s[i])
    BY <1>2, <1>3, Twinned
  <2> QED
    BY <1>1, <1>2, <1>3, <2>1 DEF Apart
<1>4. ASSUME InOrder(s), \A x \in ToSet(s) : Same(x, r) => x.id < r.id PROVE InOrder(u)
  BY <1>1, <1>2, <1>4 DEF InOrder
<1> QED
  BY <1>1, <1>3, <1>4 DEF u
-----------------------------------------------------------------------------
(***************************************************************************)
(* The loops.  Each is a recursive function over the entries of a list; it *)
(* exists, and what it has done up to some entry is shown by induction.    *)
(***************************************************************************)
RecordsOf(t, tr) == IF t = "download" THEN tr.requests ELSE tr.applies

LEMMA TreeFields ==
    ASSUME NEW tr \in Tree
    PROVE  /\ tr.requests \in Seq(Request) /\ tr.applies \in Seq(Request) /\ tr.done \in SUBSET Id
           /\ \A t \in Thread : RecordsOf(t, tr) \in Seq(Request)
BY DEF Tree, RecordsOf

LEMMA DeletedFrom ==
    ASSUME NEW t \in Thread, NEW tr \in Tree, NEW r \in Request, NEW u, u = DeleteFrom(t, tr, r)
    PROVE  /\ u \in Tree /\ u.done = tr.done
           /\ RecordsOf(t, u) = DeleteRecord(RecordsOf(t, tr), r)
           /\ \A v \in Thread : v # t => RecordsOf(v, u) = RecordsOf(v, tr)
<1>1. CASE t = "download"
  <2>1. u = [tr EXCEPT !.requests = DeleteRecord(tr.requests, r)]
    BY <1>1 DEF DeleteFrom, bkp_session_delete_schedule_download
  <2>2. DeleteRecord(tr.requests, r) \in Seq(Request)
    BY TreeFields, RecordDeleted
  <2> QED
    BY <1>1, <2>1, <2>2 DEF Tree, RecordsOf, Thread
<1>2. CASE t = "apply"
  <2>1. u = [tr EXCEPT !.applies = DeleteRecord(tr.applies, r)]
    BY <1>2 DEF DeleteFrom, bkp_session_delete_apply_schedule_download
  <2>2. DeleteRecord(tr.applies, r) \in Seq(Request)
    BY TreeFields, RecordDeleted
  <2> QED
    BY <1>2, <2>1, <2>2 DEF Tree, RecordsOf, Thread
<1> QED
  BY <1>1, <1>2 DEF Thread

(* remove_all: every record of a list is deleted.                          *)
IsLeft(t, tr, n, w) ==
    w = [i \in 0 .. n |-> IF i = 0 THEN tr ELSE DeleteFrom(t, w[i - 1], list[t][i])]

LEMMA LeftExists ==
    ASSUME NEW t, NEW tr
    PROVE  \A n \in Nat : \E w : IsLeft(t, tr, n, w)
<1> DEFINE P(n) == \E w : IsLeft(t, tr, n, w)
           S == {n \in Nat : P(n)}
<1>1. 0 \in S
  <2> DEFINE b == [j \in 0 .. 0 |-> tr]
  <2>1. b = [i \in 0 .. 0 |-> IF i = 0 THEN tr ELSE DeleteFrom(t, b[i - 1], list[t][i])]
    OBVIOUS
  <2> HIDE DEF b
  <2>2. P(0)
    BY <2>1 DEF IsLeft
  <2> QED
    BY <2>2
<1>2. ASSUME NEW n \in S PROVE n + 1 \in S
  <2>1. PICK w : IsLeft(t, tr, n, w)
    BY <1>2
  <2> DEFINE v == [i \in 0 .. n + 1 |-> IF i <= n THEN w[i] ELSE DeleteFrom(t, w[n], list[t][n + 1])]
  <2>2. v = [i \in 0 .. n + 1 |-> IF i = 0 THEN tr ELSE DeleteFrom(t, v[i - 1], list[t][i])]
    <3>1. ASSUME NEW i \in 0 .. n + 1
          PROVE  v[i] = IF i = 0 THEN tr ELSE DeleteFrom(t, v[i - 1], list[t][i])
      BY <1>2, <2>1 DEF IsLeft
    <3> QED
      BY <3>1
  <2> HIDE DEF v
  <2>3. P(n + 1)
    BY <2>2 DEF IsLeft
  <2> QED
    BY <2>3
<1>3. S = Nat
  <2> HIDE DEF S
  <2>1. S \in SUBSET Nat
    BY DEF S
  <2> QED
    BY <1>1, <1>2, <2>1, AllNumbers
<1>4. \A n \in Nat : P(n)
  <2> HIDE DEF P
  <2> QED
    BY <1>3
<1> QED
  BY <1>4

LEMMA LeftIs ==
    ASSUME NEW t, NEW tr, Len(list[t]) \in Nat
    PROVE  \E w : IsLeft(t, tr, Len(list[t]), w) /\ DeleteAll(t, tr) = w[Len(list[t])]
<1>1. \E w : IsLeft(t, tr, Len(list[t]), w)
  BY LeftExists
<1> DEFINE u == CHOOSE w : w = [i \in 0 .. Len(list[t]) |->
                                    IF i = 0 THEN tr ELSE DeleteFrom(t, w[i - 1], list[t][i])]
<1>2. IsLeft(t, tr, Len(list[t]), u)
  BY <1>1, Zenon DEF IsLeft
<1>3. DeleteAll(t, tr) = u[Len(list[t])]
  BY Zenon DEF DeleteAll
<1> QED
  BY <1>2, <1>3, Zenon

(* After i deletions, an entry on record is no twin of an earlier entry,   *)
(* or was accepted after it.                                               *)
Remains(t, tr, i, w) ==
    /\ w \in Tree /\ w.done = tr.done
    /\ \A v \in Thread : v # t => RecordsOf(v, w) = RecordsOf(v, tr)
    /\ InOrder(RecordsOf(t, w)) /\ ToSet(RecordsOf(t, w)) \subseteq ToSet(list[t])
    /\ \A x \in ToSet(RecordsOf(t, w)) : \A j \in 1 .. i :
          Same(x, list[t][j]) => list[t][j].id < x.id

LEMMA OneLess ==
    ASSUME NEW t \in Thread, NEW tr, list[t] \in Seq(Request), InOrder(list[t]),
           NEW i \in Nat, i < Len(list[t]), NEW w, Remains(t, tr, i, w),
           NEW r, r = list[t][i + 1], NEW v, v = DeleteFrom(t, w, r)
    PROVE  Remains(t, tr, i + 1, v)
<1>1. /\ Len(list[t]) \in Nat
      /\ DOMAIN list[t] = 1 .. Len(list[t])
      /\ \A j \in 1 .. i + 1 : j \in DOMAIN list[t] /\ list[t][j] \in Request
                               /\ list[t][j] \in ToSet(list[t])
  BY ElementsOf
<1>2. /\ r \in Request /\ r.id \in Nat /\ i + 1 \in DOMAIN list[t]
  BY <1>1, RequestFields
<1>3. w \in Tree
  BY DEF Remains
<1> DEFINE s == RecordsOf(t, w)
           u == RecordsOf(t, v)
<1>4. /\ v \in Tree /\ v.done = w.done /\ u = DeleteRecord(s, r)
      /\ \A q \in Thread : q # t => RecordsOf(q, v) = RecordsOf(q, w)
  BY <1>2, <1>3, DeletedFrom
<1>5. s \in Seq(Request) /\ InOrder(s) /\ ToSet(s) \subseteq ToSet(list[t])
  BY <1>3, TreeFields DEF Remains
<1> HIDE DEF s, u
<1>6. ASSUME NEW x \in ToSet(s), Same(x, r) PROVE r.id <= x.id
  <2>1. PICK k \in 1 .. Len(list[t]) : list[t][k] = x
    BY <1>5, ElementsOf
  <2>2. x \in Request /\ x.id \in Nat
    BY <1>5, <1>6, ElementsOf, RequestFields
  <2>3. Same(x, x) /\ Same(r, x)
    BY <1>2, <1>6, <2>2, Twinned
  <2>4. ~(k \in 1 .. i)
    BY <1>6, <2>1, <2>2, <2>3 DEF Remains, s
  <2>5. i + 1 <= k /\ k \in DOMAIN list[t]
    BY <1>1, <2>4
  <2> QED
    BY <1>1, <1>2, <2>1, <2>3, <2>5, OrderedIsSingle
<1>7. /\ ToSet(u) \subseteq ToSet(s) /\ InOrder(u)
      /\ \A x \in ToSet(u) : Same(x, r) => r.id < x.id
  BY <1>2, <1>4, <1>5, <1>6, RecordDeleted, ZenonT(90)
<1>8. ASSUME NEW x \in ToSet(u), NEW j \in 1 .. i + 1, Same(x, list[t][j])
      PROVE  list[t][j].id < x.id
  <2>1. CASE j \in 1 .. i
    BY <1>7, <1>8, <2>1 DEF Remains, s
  <2>2. CASE j = i + 1
    BY <1>7, <1>8, <2>2
  <2> QED
    BY <2>1, <2>2
<1> QED
  BY <1>4, <1>5, <1>7, <1>8 DEF Remains, u

LEMMA Emptied ==
    ASSUME NEW t \in Thread, NEW tr \in Tree, list[t] \in Seq(Request), InOrder(list[t]),
           InOrder(RecordsOf(t, tr)), ToSet(RecordsOf(t, tr)) \subseteq ToSet(list[t])
    PROVE  /\ DeleteAll(t, tr) \in Tree /\ DeleteAll(t, tr).done = tr.done
           /\ RecordsOf(t, DeleteAll(t, tr)) = <<>>
           /\ \A v \in Thread : v # t => RecordsOf(v, DeleteAll(t, tr)) = RecordsOf(v, tr)
<1>1. Len(list[t]) \in Nat
  BY ElementsOf
<1> DEFINE n == Len(list[t])
<1>2. PICK w : IsLeft(t, tr, n, w) /\ DeleteAll(t, tr) = w[n]
  BY <1>1, LeftIs
<1> DEFINE S == {i \in Nat : i <= n => Remains(t, tr, i, w[i])}
<1>3. 0 \in S
  <2>1. w[0] = tr
    BY <1>1, <1>2 DEF IsLeft
  <2> QED
    BY <2>1 DEF Remains
<1>4. ASSUME NEW i \in S PROVE i + 1 \in S
  <2>1. CASE i + 1 <= n
    <3>1. Remains(t, tr, i, w[i]) /\ i < Len(list[t]) /\ i \in Nat
      BY <1>1, <1>4, <2>1
    <3>2. w[i + 1] = DeleteFrom(t, w[i], list[t][i + 1])
      BY <1>1, <1>2, <2>1, <3>1 DEF IsLeft
    <3>3. Remains(t, tr, i + 1, w[i + 1])
      BY <3>1, <3>2, OneLess
    <3> QED
      BY <3>1, <3>3
  <2>2. CASE ~(i + 1 <= n)
    BY <2>2
  <2> QED
    BY <2>1, <2>2
<1>5. S = Nat
  <2>1. S \in SUBSET Nat
    OBVIOUS
  <2> HIDE DEF S
  <2> QED
    BY <1>3, <1>4, <2>1, AllNumbers
<1>6. n \in S
  BY <1>1, <1>5
<1> DEFINE d == DeleteAll(t, tr)
<1>7. Remains(t, tr, n, d)
  BY <1>1, <1>2, <1>6
<1> HIDE DEF d
<1>8. RecordsOf(t, d) \in Seq(Request)
  BY <1>7, TreeFields DEF Remains
<1>9. ToSet(RecordsOf(t, d)) = {}
  <2> SUFFICES ASSUME NEW x \in ToSet(RecordsOf(t, d)) PROVE FALSE
    OBVIOUS
  <2>1. PICK k \in 1 .. Len(list[t]) : list[t][k] = x
    BY <1>7, ElementsOf DEF Remains
  <2>2. x \in Request /\ x.id \in Nat /\ Same(x, x)
    BY <1>8, ElementsOf, RequestFields, Twinned
  <2> QED
    BY <1>7, <2>1, <2>2 DEF Remains
<1>10. RecordsOf(t, d) = <<>>
  <2> DEFINE z == RecordsOf(t, d)
  <2> HIDE DEF z
  <2>1. Len(z) = 0
    <3>1. /\ Len(z) \in Nat
          /\ \A x : x \in ToSet(z) <=> \E i \in 1 .. Len(z) : z[i] = x
      BY <1>8, ElementsOf DEF z
    <3>2. ~(\E i \in 1 .. Len(z) : z[i] = z[1])
      BY <1>9, <3>1 DEF z
    <3> QED
      BY <3>1, <3>2
  <2> QED
    BY <1>8, <2>1, EmptySeq DEF z
<1> QED
  BY <1>7, <1>10 DEF Remains, d

(* restart: the list is loaded in the order of the first windows; it has   *)
(* the entries of the file.                                                *)
IsLoad(s, n, w) ==
    w = [i \in 0 .. n |-> IF i = 0 THEN <<>> ELSE load_schedule_download(w[i - 1], s[i])]

LEMMA LoadExists ==
    ASSUME NEW s
    PROVE  \A n \in Nat : \E w : IsLoad(s, n, w)
<1> DEFINE P(n) == \E w : IsLoad(s, n, w)
           S == {n \in Nat : P(n)}
<1>1. 0 \in S
  <2> DEFINE b == [j \in 0 .. 0 |-> <<>>]
  <2>1. b = [i \in 0 .. 0 |-> IF i = 0 THEN <<>> ELSE load_schedule_download(b[i - 1], s[i])]
    OBVIOUS
  <2> HIDE DEF b
  <2>2. P(0)
    BY <2>1 DEF IsLoad
  <2> QED
    BY <2>2
<1>2. ASSUME NEW n \in S PROVE n + 1 \in S
  <2>1. PICK w : IsLoad(s, n, w)
    BY <1>2
  <2> DEFINE v == [i \in 0 .. n + 1 |-> IF i <= n THEN w[i] ELSE load_schedule_download(w[n], s[n + 1])]
  <2>2. v = [i \in 0 .. n + 1 |-> IF i = 0 THEN <<>> ELSE load_schedule_download(v[i - 1], s[i])]
    <3>1. ASSUME NEW i \in 0 .. n + 1
          PROVE  v[i] = IF i = 0 THEN <<>> ELSE load_schedule_download(v[i - 1], s[i])
      BY <1>2, <2>1 DEF IsLoad
    <3> QED
      BY <3>1
  <2> HIDE DEF v
  <2>3. P(n + 1)
    BY <2>2 DEF IsLoad
  <2> QED
    BY <2>3
<1>3. S = Nat
  <2> HIDE DEF S
  <2>1. S \in SUBSET Nat
    BY DEF S
  <2> QED
    BY <1>1, <1>2, <2>1, AllNumbers
<1>4. \A n \in Nat : P(n)
  <2> HIDE DEF P
  <2> QED
    BY <1>3
<1> QED
  BY <1>4

LEMMA LoadIs ==
    ASSUME Len(file.requests) \in Nat
    PROVE  \E w : IsLoad(file.requests, Len(file.requests), w) /\ Loaded = w[Len(file.requests)]
<1>1. \E w : IsLoad(file.requests, Len(file.requests), w)
  BY LoadExists
<1> DEFINE u == CHOOSE w : w = [i \in 0 .. Len(file.requests) |->
                  IF i = 0 THEN <<>> ELSE load_schedule_download(w[i - 1], file.requests[i])]
<1>2. IsLoad(file.requests, Len(file.requests), u)
  BY <1>1, Zenon DEF IsLoad
<1>3. Loaded = u[Len(file.requests)]
  BY Zenon DEF Loaded
<1> QED
  BY <1>2, <1>3, Zenon

LEMMA EntryInserted ==
    ASSUME NEW s \in Seq(Request), NEW a \in 1 .. Len(s) + 1, NEW r \in Request
    PROVE  /\ InsertAt(s, a, r) \in Seq(Request) /\ Len(InsertAt(s, a, r)) = Len(s) + 1
           /\ \A j \in 1 .. Len(s) + 1 :
                InsertAt(s, a, r)[j] = IF j < a THEN s[j] ELSE IF j = a THEN r ELSE s[j - 1]
  BY InsertAtProperties

LEMMA OneLoaded ==
    ASSUME NEW s \in Seq(Request), NEW r \in Request, NEW u, u = load_schedule_download(s, r)
    PROVE  /\ u \in Seq(Request) /\ ToSet(u) = ToSet(s) \union {r}
           /\ Apart(s) /\ (\A x \in ToSet(s) : ~Same(x, r)) => Apart(u)
<1> DEFINE T(x) == x.start[1] > r.start[1]
           I == {i \in 1 .. Len(s) : T(s[i])}
<1>1. /\ Len(s) \in Nat /\ I \in SUBSET Nat /\ DOMAIN s = 1 .. Len(s)
      /\ \A i \in 1 .. Len(s) : s[i] \in Request /\ s[i] \in ToSet(s)
  BY ElementsOf
<1>2. CASE I = {}
  <2>1. u = Append(s, r)
    BY <1>1, <1>2 DEF load_schedule_download, SelectInSeq
  <2> QED
    BY <2>1, EntryAppended
<1>3. CASE I # {}
  <2>1. PICK a \in 1 .. Len(s) : a = Min(I)
    BY <1>1, <1>3, MinNat
  <2>2. u = InsertAt(s, a, r)
    BY <1>1, <1>3, <2>1 DEF load_schedule_download, SelectInSeq
  <2>3. a \in 1 .. Len(s) + 1
    BY <1>1
  <2>4. /\ u \in Seq(Request) /\ Len(u) = Len(s) + 1
        /\ \A j \in 1 .. Len(s) + 1 : u[j] = IF j < a THEN s[j] ELSE IF j = a THEN r ELSE s[j - 1]
    <3>1. /\ InsertAt(s, a, r) \in Seq(Request) /\ Len(InsertAt(s, a, r)) = Len(s) + 1
          /\ \A j \in 1 .. Len(s) + 1 :
                InsertAt(s, a, r)[j] = IF j < a THEN s[j] ELSE IF j = a THEN r ELSE s[j - 1]
      BY <2>3, EntryInserted
    <3> QED
      BY <2>2, <3>1
  <2>5. ToSet(u) = ToSet(s) \union {r}
    BY <2>2, <2>3, ElementsInserted
  <2>6. ASSUME Apart(s), \A x \in ToSet(s) : ~Same(x, r) PROVE Apart(u)
    <3>1. DOMAIN u = 1 .. Len(s) + 1
      BY <2>4, ElementsOf
    <3>2. \A x \in ToSet(s) : ~Same(x, r) /\ ~Same(r, x)
      BY <2>6, ElementsOf, Twinned
    <3>3. \A j \in DOMAIN u :
            \/ j < a /\ u[j] = s[j] /\ j \in 1 .. Len(s)
            \/ j = a /\ u[j] = r
            \/ j > a /\ u[j] = s[j - 1] /\ j - 1 \in 1 .. Len(s)
      BY <1>1, <2>4, <3>1
    <3>4. ASSUME NEW j \in DOMAIN u, NEW k \in DOMAIN u, j # k PROVE ~Same(u[j], u[k])
      <4>1. CASE u[j] = r /\ j = a
        BY <1>1, <3>2, <3>3, <3>4, <4>1
      <4>2. CASE u[k] = r /\ k = a
        BY <1>1, <3>2, <3>3, <3>4, <4>2
      <4>3. CASE j # a /\ k # a
        <5>1. PICK c \in 1 .. Len(s) : u[j] = s[c] /\ c = IF j < a THEN j ELSE j - 1
          BY <3>1, <3>3, <4>3
        <5>2. PICK d \in 1 .. Len(s) : u[k] = s[d] /\ d = IF k < a THEN k ELSE k - 1
          BY <3>1, <3>3, <4>3
        <5>3. c # d
          BY <3>1, <3>4, <4>3, <5>1, <5>2
        <5> QED
          BY <1>1, <2>6, <5>1, <5>2, <5>3 DEF Apart
      <4> QED
        BY <3>3, <4>1, <4>2, <4>3
    <3> QED
      BY <3>4 DEF Apart
  <2> QED
    BY <2>4, <2>5, <2>6
<1> QED
  BY <1>2, <1>3

LEMMA LoadedEntries ==
    ASSUME file \in Tree, Apart(file.requests)
    PROVE  /\ Loaded \in Seq(Request) /\ ToSet(Loaded) = ToSet(file.requests) /\ InOrder(Loaded)
<1> DEFINE s == file.requests
           n == Len(s)
<1>1. s \in Seq(Request)
  BY TreeFields
<1>2. /\ n \in Nat /\ DOMAIN s = 1 .. n
      /\ \A x : x \in ToSet(s) <=> \E i \in 1 .. n : s[i] = x
      /\ \A i \in 1 .. n : s[i] \in Request
  BY <1>1, ElementsOf
<1>3. PICK w : IsLoad(s, n, w) /\ Loaded = w[n]
  BY <1>2, LoadIs
<1> DEFINE Upto(i) == /\ w[i] \in Seq(Request) /\ Apart(w[i])
                      /\ \A x \in ToSet(w[i]) : \E j \in 1 .. i : s[j] = x
                      /\ \A j \in 1 .. i : s[j] \in ToSet(w[i])
           S == {i \in Nat : i <= n => Upto(i)}
<1> HIDE DEF n, s
<1>4. 0 \in S
  <2>1. w[0] = <<>>
    BY <1>2, <1>3 DEF IsLoad
  <2>2. ToSet(<<>>) = {} /\ <<>> \in Seq(Request) /\ Apart(<<>>)
    BY DEF ToSet, Apart
  <2>3. Upto(0)
    BY <2>1, <2>2
  <2> QED
    BY <2>3
<1>5. ASSUME NEW i \in S PROVE i + 1 \in S
  <2>1. CASE i + 1 <= n
    <3>1. Upto(i) /\ i < n /\ i \in Nat /\ i + 1 \in 1 .. n
      BY <1>2, <1>5, <2>1
    <3>2. w[i + 1] = load_schedule_download(w[i], s[i + 1])
      BY <1>2, <1>3, <2>1, <3>1 DEF IsLoad
    <3>3. \A x \in ToSet(w[i]) : ~Same(x, s[i + 1])
      <4>1. ASSUME NEW x \in ToSet(w[i]) PROVE ~Same(x, s[i + 1])
        <5>1. PICK j \in 1 .. i : s[j] = x
          BY <3>1
        <5>2. j \in DOMAIN s /\ i + 1 \in DOMAIN s /\ j # i + 1
          BY <1>2, <3>1
        <5> QED
          BY <5>1, <5>2 DEF Apart, s
      <4> QED
        BY <4>1
    <3>4. /\ w[i + 1] \in Seq(Request) /\ ToSet(w[i + 1]) = ToSet(w[i]) \union {s[i + 1]}
          /\ Apart(w[i + 1])
      BY <1>2, <3>1, <3>2, <3>3, OneLoaded
    <3>5. Upto(i + 1)
      <4>1. \A x \in ToSet(w[i + 1]) : \E j \in 1 .. i + 1 : s[j] = x
        <5>1. ASSUME NEW x \in ToSet(w[i + 1]) PROVE \E j \in 1 .. i + 1 : s[j] = x
          <6>1. CASE x \in ToSet(w[i])
            BY <3>1, <6>1
          <6>2. CASE x = s[i + 1]
            BY <3>1, <6>2
          <6> QED
            BY <3>4, <6>1, <6>2
        <5> QED
          BY <5>1
      <4>2. \A j \in 1 .. i + 1 : s[j] \in ToSet(w[i + 1])
        BY <3>1, <3>4
      <4> QED
        BY <3>4, <4>1, <4>2
    <3> QED
      BY <3>1, <3>5
  <2>2. CASE ~(i + 1 <= n)
    BY <2>2
  <2> QED
    BY <2>1, <2>2
<1>6. S = Nat
  <2>1. S \in SUBSET Nat
    OBVIOUS
  <2> HIDE DEF S
  <2> QED
    BY <1>4, <1>5, <2>1, AllNumbers
<1>7. Upto(n)
  <2>1. n \in S
    BY <1>2, <1>6
  <2> QED
    BY <1>2, <2>1
<1>8. /\ w[n] \in Seq(Request) /\ ToSet(w[n]) = ToSet(s) /\ InOrder(w[n])
  BY <1>2, <1>7, ApartInOrder
<1> QED
  BY <1>3, <1>8 DEF s

-----------------------------------------------------------------------------
(***************************************************************************)
(* Steps that only move a thread, hand a mutex over or let time pass.      *)
(***************************************************************************)
Place ==
    {"look", "towait", "waiting", "woken", "tosleep", "sleeping", "awake", "down"}
       \union Walking \union Idle \union Now \union Late
Flying == {"running", "runningNow", "try", "tryApply", "trySchedule", "hand", "aSaved"}
Told == Fetched \ {"finish"}
ToldLate == {"aApply", "aRelease", "aUnlink"}

MoveDownload ==
    /\ pc'["download"] \notin Late
    /\ pc'["download"] \in Idle \union Now => cur["download"] # None
    /\ pc'["download"] \in Idle => ~AtOnce
    /\ pc'["download"] \in Now => AtOnce
    /\ pc'["download"] \in {"launch", "launchNow"} => min_time["download"] <= now
    /\ pc'["download"] \in Launched => pc["download"] \in Launched
    /\ pc["download"] = "finish" => pc'["download"] = "finish"
    /\ pc'["download"] = "faultNow" => pc["download"] = "faultNow"
    /\ pc'["download"] = "finish" => pc["download"] \in Fetched
    /\ pc'["download"] \in Told => pc["download"] \in Told
    /\ pc["download"] \in Fetched => pc'["download"] \in Fetched

MoveApply ==
    /\ pc'["apply"] \notin Idle \union Now
    /\ pc'["apply"] \in Late => cur["apply"] # None
    /\ pc'["apply"] \in Late \ {"aLock", "aLaunch"} => pc["apply"] \in Late \ {"aLock", "aLaunch"}
    /\ pc'["apply"] \in ToldLate => pc["apply"] \in ToldLate

Records == <<list, cur, min_time, here, last, removing, tree, file, up, restarts, histVars>>

Move ==
    /\ UNCHANGED Records /\ UNCHANGED count
    /\ now' \in 1 .. MaxTime /\ now <= now'
    /\ owner' \in [Mutex -> Thread \union {"main", "none"}]
    /\ ctime' \in [Thread -> Time] /\ \A t \in Thread : ctime'[t] <= now'
    /\ pc' \in [Thread -> Place]
    /\ up => \A t \in Thread : pc'[t] # "down"
    /\ ~up => pc' = pc /\ owner' = owner
    /\ \A t \in Thread : pc[t] \in Flying => pc'[t] \in Flying
    /\ \A t \in Thread : pc[t] \in Walking \/ pc'[t] \in Walking =>
          pc'[t] = pc[t] /\ ctime'[t] = ctime[t]
    /\ MoveDownload /\ MoveApply

LEMMA InFlightIs ==
    InFlight = {cur[t].id : t \in {x \in Thread : pc[x] \in Flying}}
BY DEF InFlight, Flying

LEMMA MoveKeeps ==
    ASSUME ScheduleInv, Move
    PROVE  BaseInv' /\ OrderInv' /\ KeptInv'
<1>1. /\ list' = list /\ cur' = cur /\ min_time' = min_time /\ tree' = tree /\ file' = file
      /\ here' = here /\ last' = last /\ removing' = removing /\ up' = up /\ restarts' = restarts /\ count' = count /\ accepted' = accepted
      /\ removed' = removed /\ raised' = raised /\ failed' = failed /\ cut' = cut
      /\ missed' = missed /\ started' = started
  BY DEF Move, Records, histVars
<1>2. BaseInv /\ OrderInv /\ KeptInv
  BY DEF ScheduleInv
<1>3. TypeOK'
  BY <1>1, <1>2 DEF BaseInv, TypeOK, Move, Place
<1>4. Numbered' /\ Fresh' /\ NotEarly'
  BY <1>1, <1>2 DEF BaseInv, Numbered, Fresh, NotEarly
<1>5. Known'
  BY <1>1, <1>2 DEF BaseInv, Known
<1>6. Down'
  BY <1>1, <1>2 DEF BaseInv, Down, Move
<1>7. Places'
  <2>1. \A t \in Thread : pc[t] \in Walking \/ pc'[t] \in Walking => pc'[t] = pc[t]
    BY DEF Move
  <2>2. \A t \in Thread : pc'[t] \in {"expire", "expiring"} => here'[t] # None
    BY <1>1, <1>2, <2>1 DEF BaseInv, Places, Walking
  <2>3. \A t \in Thread : pc'[t] \notin Walking => here'[t] = None
    BY <1>1, <1>2, <2>1 DEF BaseInv, Places
  <2> QED
    BY <1>1, <1>2, <2>2, <2>3 DEF BaseInv, Places, Move, MoveDownload, MoveApply
<1>8. AtOnce' = AtOnce
  BY <1>1 DEF AtOnce
<1>9. Way'
  BY <1>1, <1>2, <1>8 DEF Way, Move, MoveDownload
<1>10. Chosen'
  <2>1. now \in Nat /\ now' \in Nat /\ min_time["download"] \in Nat
    BY <1>2, WindowsAssumption DEF BaseInv, TypeOK, Move, Time, Thread
  <2> QED
    BY <1>1, <1>2, <2>1 DEF BaseInv, Chosen, Move, MoveDownload
<1>20. ASSUME NEW t \in Thread PROVE Walked(t)'
  <2>1. here[t] # None => ctime'[t] = ctime[t]
    BY <1>2 DEF BaseInv, Places, Move
  <2> QED
    BY <1>1, <1>2, <2>1 DEF BaseInv, Walked
<1>11. BaseInv'
  BY <1>3, <1>4, <1>5, <1>6, <1>7, <1>9, <1>10, <1>20 DEF BaseInv
<1>12. (\A t \in Thread : InOrder(list'[t])) /\ FirstOfTwins' /\ Books(tree)' /\ Books(file)' /\ Listed'
  BY <1>1, <1>2 DEF OrderInv, FirstOfTwins, Books, Listed
<1>21. FirstOver'
  BY <1>1, <1>2 DEF OrderInv, FirstOver, Move, Walking
<1>13. HandedFirst'
  BY <1>1, <1>2 DEF OrderInv, HandedFirst, Held, Move, MoveDownload
<1>14. Unrecorded'
  <2>1. \A t \in Thread : pc'[t] = "expiring" => pc[t] = "expiring"
    BY DEF Move, Walking
  <2>2. Thread = {"download", "apply"}
    BY DEF Thread
  <2>3. /\ pc'["download"] \in Launched => pc["download"] \in Launched
        /\ pc'["apply"] \in Late \ {"aLock", "aLaunch"} => pc["apply"] \in Late \ {"aLock", "aLaunch"}
    BY DEF Move, MoveDownload, MoveApply
  <2> QED
    BY <1>1, <1>2, <2>1, <2>2, <2>3 DEF OrderInv, Unrecorded
<1>15. Settled'
  BY <1>1, <1>2, <1>8 DEF OrderInv, Settled, Move, MoveDownload
<1>16. OrderInv'
  BY <1>12, <1>13, <1>14, <1>15, <1>21 DEF OrderInv
<1>17. InFlight \subseteq InFlight'
  <2>1. InFlight' = {cur'[t].id : t \in {x \in Thread : pc'[x] \in Flying}}
    BY DEF InFlight, Flying
  <2> QED
    BY <1>1, <2>1, InFlightIs DEF Move
<1>18. Ended'
  <2>1. pc'["download"] \in Told => Reported(cur["download"].id)
    BY <1>2 DEF KeptInv, Ended, Move, MoveDownload, Told, Fetched
  <2>2. pc'["apply"] \in ToldLate => Reported(cur["apply"].id)
    BY <1>2 DEF KeptInv, Ended, Move, MoveApply, ToldLate
  <2>3. pc'["download"] = "finish" =>
          \/ Reported(cur["download"].id) \/ cur["download"].id \in removed
          \/ cur["download"] \in ToSet(list["apply"])
          \/ raised[cur["download"].id] > 0
    BY <1>2 DEF KeptInv, Ended, Move, MoveDownload, Told, Fetched
  <2>4. \A i \in file.done : i \in tree.done \/ i \in failed
    BY <1>2 DEF KeptInv, Ended
  <2>5. \A i : Reported(i)' <=> Reported(i)
    BY <1>1 DEF Reported
  <2>6. pc'["download"] = "faultNow" => cur["download"].id \in failed
    BY <1>2 DEF KeptInv, Ended, Move, MoveDownload
  <2> QED
    BY <1>1, <2>1, <2>2, <2>3, <2>4, <2>5, <2>6 DEF Ended, Told, Fetched, ToldLate
<1>19. ASSUME NEW r \in accepted' \ Twins' PROVE Kept(r)'
  <2>1. r \in accepted \ Twins
    BY <1>1, <1>19 DEF Twins
  <2>2. Kept(r)
    BY <1>2, <2>1 DEF KeptInv
  <2> QED
    BY <1>1, <1>17, <2>2 DEF Kept, Excused, OnRecord
<1> QED
  BY <1>11, <1>16, <1>18, <1>19 DEF KeptInv

(* Which moves there are.                                                  *)
Waits == {"look", "towait", "waiting", "woken", "tosleep", "sleeping", "awake"}

LEMMA Running ==
    ASSUME ScheduleInv, NEW t \in Thread, pc[t] # "down"
    PROVE  up
BY DEF ScheduleInv, BaseInv, Down, TypeOK

OnwardDownload(p, q) ==
    \/ p \in Waits /\ q \in Waits
    \/ /\ p = "woken" /\ cur["download"] # None /\ min_time["download"] <= now
       /\ q \in {"launch", "launchNow"} /\ (q = "launch" <=> ~AtOnce)
    \/ p = "apply" /\ q = "release"
    \/ p = "release" /\ q = "unlink"
    \/ p = "runningNow" /\ q = "try"
    \/ p = "try" /\ q \in {"tryApply", "hand"}
    \/ p = "tryApply" /\ q = "trySchedule"
    \/ p = "applyNow" /\ q = "releaseNow"
    \/ p = "releaseNow" /\ q = "finish"

OnwardApply(p, q) ==
    \/ p \in Waits /\ q \in Waits
    \/ p = "woken" /\ cur["apply"] # None /\ q = "aLock"
    \/ p = "aLock" /\ q = "aLaunch"
    \/ p = "aApply" /\ q = "aRelease"
    \/ p = "aRelease" /\ q = "aUnlink"

Onward ==
    \/ UNCHANGED pc
    \/ \E q \in Place : Goto("download", q) /\ OnwardDownload(pc["download"], q)
    \/ \E q \in Place : Goto("apply", q) /\ OnwardApply(pc["apply"], q)

LEMMA SomeMove ==
    ASSUME ScheduleInv, up, UNCHANGED Records, UNCHANGED count, UNCHANGED now,
           owner' \in [Mutex -> Thread \union {"main", "none"}],
           ctime' \in [Thread -> Time], \A t \in Thread : ctime'[t] <= now,
           \A t \in Thread : pc[t] \in Walking => ctime'[t] = ctime[t],
           Onward
    PROVE  Move
<1> DEFINE D == pc["download"]
           A == pc["apply"]
           E == pc'["download"]
           B == pc'["apply"]
<1>1. /\ pc \in [Thread -> Place] /\ now \in 1 .. MaxTime /\ D # "down" /\ A # "down"
      /\ Places /\ Chosen /\ Way
  BY DEF ScheduleInv, BaseInv, TypeOK, Place, Places, Thread
<1>2. Thread = {"download", "apply"} /\ "download" # "apply"
  BY DEF Thread
<1>3. now' \in 1 .. MaxTime /\ now <= now' /\ \A t \in Thread : ctime'[t] <= now'
  BY <1>1
<1>4. /\ A \notin Idle \union Now /\ (A \in Late => cur["apply"] # None)
      /\ D \notin Late /\ (D \in Idle \union Now => cur["download"] # None)
      /\ (D \in Idle => ~AtOnce) /\ (D \in Now => AtOnce)
      /\ (D \in {"launch", "launchNow"} => min_time["download"] <= now)
  BY <1>1 DEF Places, Chosen, Way
<1>5. CASE UNCHANGED pc
  <2>1. MoveDownload
    BY <1>4, <1>5 DEF MoveDownload, Told, Fetched
  <2>3. \A t \in Thread : pc[t] \in Walking \/ pc'[t] \in Walking =>
          pc'[t] = pc[t] /\ ctime'[t] = ctime[t]
    BY <1>5
  <2>2. MoveApply
    BY <1>4, <1>5 DEF MoveApply
  <2> QED
    BY <1>1, <1>2, <1>3, <1>5, <2>1, <2>2, <2>3 DEF Move
<1>6. ASSUME NEW q \in Place, Goto("download", q), OnwardDownload(D, q)
      PROVE  Move
  <2>1. pc' \in [Thread -> Place] /\ E = q /\ B = A
    BY <1>1, <1>2, <1>6 DEF Goto
  <2>2. MoveApply
    BY <1>4, <2>1 DEF MoveApply
  <2>3. MoveDownload /\ E # "down" /\ (D \in Flying => E \in Flying)
    <3>1. CASE D \in Waits /\ q \in Waits
      BY <1>4, <2>1, <3>1 DEF MoveDownload, Waits, Idle, Now, Late, Launched, Told, Fetched, Flying
    <3>2. CASE /\ D = "woken" /\ cur["download"] # None /\ min_time["download"] <= now
               /\ q \in {"launch", "launchNow"} /\ (q = "launch" <=> ~AtOnce)
      BY <1>4, <2>1, <3>2 DEF MoveDownload, Idle, Now, Late, Launched, Told, Fetched, Flying
    <3>3. CASE (D = "apply" /\ q = "release") \/ (D = "release" /\ q = "unlink")
      BY <1>4, <2>1, <3>3 DEF MoveDownload, Idle, Now, Late, Launched, Told, Fetched, Flying
    <3>4. CASE \/ D = "runningNow" /\ q = "try"
               \/ D = "try" /\ q \in {"tryApply", "hand"}
               \/ D = "tryApply" /\ q = "trySchedule"
      <4>1. D \in Flying /\ D \in Now /\ D \in Launched /\ D # "finish" /\ D \notin Fetched
        BY <3>4 DEF Flying, Now, Idle, Launched, Fetched
      <4>2. /\ E \in Flying /\ E \in Now /\ E \notin Late /\ E \notin Idle /\ E # "down"
            /\ E \notin {"launch", "launchNow", "finish", "faultNow"} /\ E \notin Told
        BY <2>1, <3>4 DEF Flying, Now, Idle, Late, Told, Fetched
      <4> QED
        BY <1>4, <4>1, <4>2 DEF MoveDownload
    <3>5. CASE (D = "applyNow" /\ q = "releaseNow") \/ (D = "releaseNow" /\ q = "finish")
      BY <1>4, <2>1, <3>5 DEF MoveDownload, Idle, Now, Late, Launched, Told, Fetched, Flying
    <3> QED
      BY <1>6, <3>1, <3>2, <3>3, <3>4, <3>5 DEF OnwardDownload
  <2>4. D \notin Walking /\ E \notin Walking
    BY <1>6, <2>1 DEF OnwardDownload, Waits, Walking
  <2>5. \A t \in Thread : pc[t] \in Walking \/ pc'[t] \in Walking =>
          pc'[t] = pc[t] /\ ctime'[t] = ctime[t]
    BY <1>2, <2>1, <2>4
  <2> QED
    BY <1>1, <1>2, <1>3, <2>1, <2>2, <2>3, <2>5 DEF Move
<1>7. ASSUME NEW q \in Place, Goto("apply", q), OnwardApply(A, q)
      PROVE  Move
  <2>1. pc' \in [Thread -> Place] /\ B = q /\ E = D
    BY <1>1, <1>2, <1>7 DEF Goto
  <2>2. MoveDownload
    BY <1>4, <2>1 DEF MoveDownload, Told, Fetched
  <2>3. MoveApply /\ B # "down" /\ A \notin Flying
    BY <1>4, <1>7, <2>1 DEF OnwardApply, MoveApply, Waits, Idle, Now, Late, ToldLate, Flying
  <2>4. A \notin Walking /\ B \notin Walking
    BY <1>7, <2>1 DEF OnwardApply, Waits, Walking
  <2>5. \A t \in Thread : pc[t] \in Walking \/ pc'[t] \in Walking =>
          pc'[t] = pc[t] /\ ctime'[t] = ctime[t]
    BY <1>2, <2>1, <2>4
  <2> QED
    BY <1>1, <1>2, <1>3, <2>1, <2>2, <2>3, <2>5 DEF Move
<1> QED
  BY <1>5, <1>6, <1>7 DEF Onward

-----------------------------------------------------------------------------
(***************************************************************************)
(* The mutexes, over every step.                                           *)
(***************************************************************************)
Holding == (Idle \ {"launch", "unlink"}) \union {"tryApply", "trySchedule", "applyNow", "releaseNow"}
HoldingApply == {"trySchedule", "applyNow", "releaseNow"}
HoldingSchedule == {"runningNow", "applyNow", "releaseNow", "expiring"}
HoldingLate == Late \ {"aLock", "aUnlink"}
ScheduleLate == {"aSaved", "aApply", "aRelease"}

(* What holds as long as no thread has kept a mutex, and what always does. *)
HeldWhile(o, d, a) ==
    /\ o["apply"] = "download" <=> d \in HoldingApply
    /\ o["apply"] = "apply" <=> a = "expiring"
    /\ o["schedule"] = "download" <=> d \in HoldingSchedule
    /\ o["schedule"] = "apply" <=> a \in ScheduleLate
Senders(o, d, a, rest) ==
    /\ o["send"] = "download" <=> d \in Holding
    /\ o["send"] = "apply" <=> a \in HoldingLate
    /\ o["queue"] \in {"main", "none"}
    /\ rest # <<>> => o["send"] = "main"
    /\ o["queue"] = "main" => rest # <<>>
Holders(o, f, d, a, rest) ==
    /\ o["schedule"] # "main" /\ o["apply"] # "main"
    /\ Senders(o, d, a, rest)
    /\ f = {} /\ (o["apply"] = "apply" => a = "expiring") => HeldWhile(o, d, a)

LEMMA MutexesAre ==
    /\ TypeOK => (Mutexes <=> Holders(owner, failed, pc["download"], pc["apply"], removing))
    /\ TypeOK' => (Mutexes' <=> Holders(owner', failed', pc'["download"], pc'["apply"], removing'))
<1>1. TypeOK => (Mutexes <=> Holders(owner, failed, pc["download"], pc["apply"], removing))
  BY DEF Mutexes, MutexesReleased, SecondWindow, Holders, Senders, HeldWhile, Holding, HoldingApply,
         HoldingSchedule, HoldingLate, ScheduleLate, TypeOK
<1>2. TypeOK' => (Mutexes' <=> Holders(owner', failed', pc'["download"], pc'["apply"], removing'))
  BY DEF Mutexes, MutexesReleased, SecondWindow, Holders, Senders, HeldWhile, Holding, HoldingApply,
         HoldingSchedule, HoldingLate, ScheduleLate, TypeOK
<1> QED
  BY <1>1, <1>2

(* A place where the same mutexes are held.                                *)
LikeDownload(p, q) ==
    /\ p \in Holding <=> q \in Holding
    /\ p \in HoldingApply <=> q \in HoldingApply
    /\ p \in HoldingSchedule <=> q \in HoldingSchedule
LikeApply(p, q) ==
    /\ p \in HoldingLate <=> q \in HoldingLate
    /\ p \in ScheduleLate <=> q \in ScheduleLate
    /\ p = "expiring" <=> q = "expiring"

LEMMA MutexesStay ==
    ASSUME ScheduleInv, TypeOK', UNCHANGED owner, UNCHANGED removing, failed \subseteq failed',
           LikeDownload(pc["download"], pc'["download"]), LikeApply(pc["apply"], pc'["apply"])
    PROVE  Mutexes'
<1>1. Holders(owner, failed, pc["download"], pc["apply"], removing)
  BY MutexesAre DEF ScheduleInv, BaseInv
<1>2. Holders(owner', failed', pc'["download"], pc'["apply"], removing')
  BY <1>1 DEF Holders, Senders, HeldWhile, LikeDownload, LikeApply
<1> QED
  BY <1>2, MutexesAre

(* A thread that takes or gives mutexes in a step to another place.        *)
LEMMA MutexesMove ==
    ASSUME ScheduleInv, TypeOK', failed \subseteq failed', UNCHANGED removing,
           \/ /\ Take("send", "main") \/ (owner["send"] = "main" /\ removing = <<>> /\ Give("send"))
              /\ UNCHANGED pc
           \/ Goto("download", "running") /\ pc["download"] = "launch" /\ Take("send", "download")
           \/ Goto("download", "unlink") /\ pc["download"] = "release" /\ Give("send")
           \/ Goto("download", "runningNow") /\ pc["download"] = "launchNow"
              /\ Take("schedule", "download")
           \/ Goto("download", "try") /\ pc["download"] = "runningNow" /\ Give("schedule")
           \/ Goto("download", "tryApply") /\ pc["download"] = "try" /\ Take("send", "download")
           \/ Goto("download", "trySchedule") /\ pc["download"] = "tryApply"
              /\ Take("apply", "download")
           \/ Goto("download", "applyNow") /\ pc["download"] = "trySchedule"
              /\ Take("schedule", "download")
           \/ Goto("download", "finish") /\ pc["download"] = "releaseNow" /\ Released("download")
           \/ Goto("apply", "aLaunch") /\ pc["apply"] = "aLock" /\ Take("send", "apply")
           \/ Goto("apply", "aSaved") /\ pc["apply"] = "aLaunch" /\ Take("schedule", "apply")
           \/ Goto("apply", "aUnlink") /\ pc["apply"] = "aRelease"
              /\ owner' = [owner EXCEPT !["send"] = "none", !["schedule"] = "none"]
           \/ Goto("download", "expiring") /\ pc["download"] = "expire" /\ Take("schedule", "download")
           \/ Goto("apply", "expiring") /\ pc["apply"] = "expire" /\ Take("apply", "apply")
           \/ Goto("download", "visit") /\ pc["download"] = "expiring" /\ Give("schedule")
           \/ Goto("apply", "visit") /\ pc["apply"] = "expiring" /\ Give("apply")
    PROVE  Mutexes'
<1> DEFINE D == pc["download"]
           A == pc["apply"]
           E == pc'["download"]
           B == pc'["apply"]
<1>1. TypeOK /\ Mutexes /\ Places
  BY DEF ScheduleInv, BaseInv
<1>2. Holders(owner, failed, D, A, removing)
  BY <1>1, MutexesAre
<1>3. /\ owner \in [Mutex -> Thread \union {"main", "none"}]
      /\ Mutex = {"send", "queue", "schedule", "apply"}
      /\ pc \in [Thread -> Place] /\ Thread = {"download", "apply"}
  BY <1>1 DEF TypeOK, Mutex, Place, Thread
<1> DEFINE Good == Holders(owner', failed', E, B, removing)
<1>4. Good => Mutexes'
  BY MutexesAre
<1>5. \A q : /\ Goto("download", q) => E = q /\ B = A
             /\ Goto("apply", q) => B = q /\ E = D
  BY <1>3 DEF Goto
<1>6. \A m \in Mutex, o \in Thread \union {"main"} :
        Take(m, o) => owner[m] = "none" /\ owner'[m] = o /\ \A n \in Mutex \ {m} : owner'[n] = owner[n]
  BY <1>3 DEF Take, Free
<1>7. \A m \in Mutex :
        Give(m) => owner'[m] = "none" /\ \A n \in Mutex \ {m} : owner'[n] = owner[n]
  BY <1>3 DEF Give
<1>8. failed' = {} => failed = {}
  OBVIOUS
<1>9. CASE (Take("send", "main") \/ (owner["send"] = "main" /\ removing = <<>> /\ Give("send"))) /\ UNCHANGED pc
  <2>1. Good
    BY <1>2, <1>3, <1>6, <1>7, <1>8, <1>9
       DEF Holders, Senders, HeldWhile
  <2> QED
    BY <1>4, <2>1
<1>10. CASE Goto("download", "running") /\ pc["download"] = "launch" /\ Take("send", "download")
  <2>1. Good
    BY <1>2, <1>3, <1>5, <1>6, <1>8, <1>10
       DEF Holders, Senders, HeldWhile, Holding, HoldingApply, HoldingSchedule, Idle, Now
  <2> QED
    BY <1>4, <2>1
<1>11. CASE Goto("download", "unlink") /\ pc["download"] = "release" /\ Give("send")
  <2>1. Good
    BY <1>2, <1>3, <1>5, <1>7, <1>8, <1>11
       DEF Holders, Senders, HeldWhile, Holding, HoldingApply, HoldingSchedule, Idle, Now
  <2> QED
    BY <1>4, <2>1
<1>12. CASE Goto("download", "runningNow") /\ pc["download"] = "launchNow" /\ Take("schedule", "download")
  <2>1. Good
    BY <1>2, <1>3, <1>5, <1>6, <1>8, <1>12
       DEF Holders, Senders, HeldWhile, Holding, HoldingApply, HoldingSchedule, Idle, Now
  <2> QED
    BY <1>4, <2>1
<1>13. CASE Goto("download", "try") /\ pc["download"] = "runningNow" /\ Give("schedule")
  <2>1. Good
    BY <1>2, <1>3, <1>5, <1>7, <1>8, <1>13
       DEF Holders, Senders, HeldWhile, Holding, HoldingApply, HoldingSchedule, Idle, Now
  <2> QED
    BY <1>4, <2>1
<1>14. CASE Goto("download", "tryApply") /\ pc["download"] = "try" /\ Take("send", "download")
  <2>1. Good
    BY <1>2, <1>3, <1>5, <1>6, <1>8, <1>14
       DEF Holders, Senders, HeldWhile, Holding, HoldingApply, HoldingSchedule, Idle, Now
  <2> QED
    BY <1>4, <2>1
<1>15. CASE Goto("download", "trySchedule") /\ pc["download"] = "tryApply" /\ Take("apply", "download")
  <2>1. Good
    BY <1>2, <1>3, <1>5, <1>6, <1>8, <1>15
       DEF Holders, Senders, HeldWhile, Holding, HoldingApply, HoldingSchedule, Idle, Now
  <2> QED
    BY <1>4, <2>1
<1>16. CASE Goto("download", "applyNow") /\ pc["download"] = "trySchedule" /\ Take("schedule", "download")
  <2>1. Good
    BY <1>2, <1>3, <1>5, <1>6, <1>8, <1>16
       DEF Holders, Senders, HeldWhile, Holding, HoldingApply, HoldingSchedule, Idle, Now
  <2> QED
    BY <1>4, <2>1
<1>17. CASE Goto("download", "finish") /\ pc["download"] = "releaseNow" /\ Released("download")
  <2>1. Good
    BY <1>2, <1>3, <1>5, <1>8, <1>17
       DEF Holders, Senders, HeldWhile, Holding, HoldingApply, HoldingSchedule, Idle, Now, Released
  <2> QED
    BY <1>4, <2>1
<1>18. CASE Goto("apply", "aLaunch") /\ pc["apply"] = "aLock" /\ Take("send", "apply")
  <2>1. Good
    BY <1>2, <1>3, <1>5, <1>6, <1>8, <1>18
       DEF Holders, Senders, HeldWhile, HoldingLate, ScheduleLate, Late
  <2> QED
    BY <1>4, <2>1
<1>19. CASE Goto("apply", "aSaved") /\ pc["apply"] = "aLaunch" /\ Take("schedule", "apply")
  <2>1. Good
    BY <1>2, <1>3, <1>5, <1>6, <1>8, <1>19
       DEF Holders, Senders, HeldWhile, HoldingLate, ScheduleLate, Late
  <2> QED
    BY <1>4, <2>1
<1>20. CASE /\ Goto("apply", "aUnlink") /\ pc["apply"] = "aRelease"
            /\ owner' = [owner EXCEPT !["send"] = "none", !["schedule"] = "none"]
  <2>1. Good
    BY <1>2, <1>3, <1>5, <1>8, <1>20
       DEF Holders, Senders, HeldWhile, HoldingLate, ScheduleLate, Late
  <2> QED
    BY <1>4, <2>1
<1>21. CASE Goto("download", "expiring") /\ pc["download"] = "expire" /\ Take("schedule", "download")
  <2>1. Good
    BY <1>2, <1>3, <1>5, <1>6, <1>8, <1>21
       DEF Holders, Senders, HeldWhile, Holding, HoldingApply, HoldingSchedule, Idle, Now
  <2> QED
    BY <1>4, <2>1
<1>22. CASE Goto("apply", "expiring") /\ pc["apply"] = "expire" /\ Take("apply", "apply")
  <2>1. Good
    BY <1>2, <1>3, <1>5, <1>6, <1>8, <1>22
       DEF Holders, Senders, HeldWhile, HoldingLate, ScheduleLate, Late
  <2> QED
    BY <1>4, <2>1
<1>23. CASE Goto("download", "visit") /\ pc["download"] = "expiring" /\ Give("schedule")
  <2>1. Good
    BY <1>2, <1>3, <1>5, <1>7, <1>8, <1>23
       DEF Holders, Senders, HeldWhile, Holding, HoldingApply, HoldingSchedule, Idle, Now
  <2> QED
    BY <1>4, <2>1
<1>24. CASE Goto("apply", "visit") /\ pc["apply"] = "expiring" /\ Give("apply")
  <2>1. Good
    BY <1>2, <1>3, <1>5, <1>7, <1>8, <1>24
       DEF Holders, Senders, HeldWhile, HoldingLate, ScheduleLate, Late
  <2> QED
    BY <1>4, <2>1
<1> QED
  BY <1>9, <1>10, <1>11, <1>12, <1>13, <1>14, <1>15, <1>16, <1>17, <1>18, <1>19, <1>20, <1>21, <1>22, <1>23, <1>24

-----------------------------------------------------------------------------
(***************************************************************************)
(* Steps on the records.                                                   *)
(***************************************************************************)
LEMMA Facts ==
    ASSUME ScheduleInv
    PROVE  /\ accepted \subseteq Request /\ tree \in Tree /\ file \in Tree
           /\ \A x \in accepted : x.id \in Id /\ x.id \in Nat /\ x # None /\ Same(x, x)
           /\ \A x, y \in accepted : (x.id = y.id => x = y) /\ (Same(x, y) => Same(y, x))
           /\ \A x, y, z \in accepted : Same(x, y) /\ Same(y, z) => Same(x, z)
           /\ \A t \in Thread : /\ list[t] \in Seq(Request) /\ ToSet(list[t]) \subseteq accepted
                                /\ InOrder(list[t]) /\ Held(t) \subseteq accepted
                                /\ cur[t] # None => cur[t] \in accepted /\ cur[t] \in Held(t)
                                /\ here[t] # None => here[t] \in accepted /\ here[t] \in Held(t)
                                /\ ToSet(list[t]) \subseteq Held(t)
           /\ tree.requests \in Seq(Request) /\ ToSet(tree.requests) \subseteq accepted
           /\ tree.applies \in Seq(Request) /\ ToSet(tree.applies) \subseteq accepted
           /\ Apart(tree.requests) /\ InOrder(tree.requests) /\ InOrder(tree.applies)
           /\ \A r \in accepted \ Twins, x \in accepted : Same(x, r) => x = r
           /\ now \in Nat
<1>1. /\ TypeOK /\ Numbered /\ Known /\ OrderInv
  BY DEF ScheduleInv, BaseInv
<1>2. accepted \subseteq Request /\ tree \in Tree /\ file \in Tree /\ now \in Nat
  BY <1>1, WindowsAssumption DEF TypeOK
<1>3. \A x \in accepted : x.id \in Id /\ x.id \in Nat /\ x # None /\ Same(x, x)
  BY <1>2, RequestFields, Twinned
<1>4. \A x, y \in accepted : (x.id = y.id => x = y) /\ (Same(x, y) => Same(y, x))
  BY <1>1, <1>2, Twinned DEF Numbered
<1>5. \A x, y, z \in accepted : Same(x, y) /\ Same(y, z) => Same(x, z)
  BY <1>2, Twinned
<1>6. \A t \in Thread : /\ list[t] \in Seq(Request) /\ ToSet(list[t]) \subseteq accepted
                        /\ InOrder(list[t])
                        /\ cur[t] # None => cur[t] \in accepted
                        /\ here[t] # None => here[t] \in accepted
  BY <1>1 DEF TypeOK, Known, OrderInv
<1>7. \A t \in Thread : /\ Held(t) \subseteq accepted /\ ToSet(list[t]) \subseteq Held(t)
                        /\ cur[t] # None => cur[t] \in Held(t)
                        /\ here[t] # None => here[t] \in Held(t)
  BY <1>6 DEF Held
<1>8. /\ tree.requests \in Seq(Request) /\ ToSet(tree.requests) \subseteq accepted
      /\ tree.applies \in Seq(Request) /\ ToSet(tree.applies) \subseteq accepted
      /\ Apart(tree.requests) /\ InOrder(tree.applies)
  BY <1>1, <1>2, TreeFields DEF Known, OrderInv, Books
<1>9. InOrder(tree.requests)
  BY <1>8, ApartInOrder
<1>10. \A r \in accepted \ Twins, x \in accepted : Same(x, r) => x = r
  BY <1>4 DEF Twins
<1> QED
  BY <1>2, <1>3, <1>4, <1>5, <1>6, <1>7, <1>8, <1>9, <1>10

(* A request that is being fetched is not on record, nor is the one that   *)
(* is being applied late.                                                  *)
LEMMA OffRecord ==
    ASSUME ScheduleInv, up
    PROVE  /\ pc["download"] \in Launched \ {"finish"} =>
                cur["download"] \notin ToSet(tree.requests) \union ToSet(tree.applies)
           /\ pc["apply"] \in Late \ {"aLock", "aLaunch"} =>
                cur["apply"] \notin ToSet(tree.requests) \union ToSet(tree.applies)
<1> DEFINE D == cur["download"]
           A == cur["apply"]
<1>1. Listed /\ HandedFirst /\ Unrecorded /\ Places /\ Thread = {"download", "apply"}
  BY DEF ScheduleInv, BaseInv, OrderInv, Thread
<1>2. ASSUME pc["download"] \in Launched \ {"finish"}
      PROVE  D \notin ToSet(tree.requests) \union ToSet(tree.applies)
  <2>1. D # None /\ D \notin ToSet(tree.requests)
    BY <1>1, <1>2 DEF Places, Launched, Unrecorded
  <2>2. D \in accepted /\ D \in Held("download") /\ D.id \in Nat /\ Same(D, D)
    BY <1>1, <2>1, Facts
  <2>3. ASSUME D \in ToSet(tree.applies) PROVE FALSE
    <3>1. D \in Held("apply")
      BY <1>1, <2>3, Facts DEF Listed
    <3> QED
      BY <1>1, <1>2, <2>2, <3>1 DEF HandedFirst
  <2> QED
    BY <2>1, <2>3
<1>3. ASSUME pc["apply"] \in Late \ {"aLock", "aLaunch"}
      PROVE  A \notin ToSet(tree.requests) \union ToSet(tree.applies)
  <2>1. A # None /\ A \notin ToSet(tree.applies)
    BY <1>1, <1>3 DEF Places, Unrecorded
  <2>2. A \in accepted /\ A \in Held("apply") /\ A.id \in Nat /\ Same(A, A)
    BY <1>1, <2>1, Facts
  <2>3. ASSUME A \in ToSet(tree.requests) PROVE FALSE
    <3>1. A \in Held("download")
      BY <1>1, <2>3, Facts DEF Listed
    <3>2. pc["download"] = "finish" /\ A = D
      BY <1>1, <2>2, <3>1 DEF HandedFirst
    <3> QED
      BY <1>1, <2>3, <3>2 DEF Unrecorded, Launched, Now
  <2> QED
    BY <2>1, <2>3
<1> QED
  BY <1>2, <1>3

(* What thread "apply" has in hand is done only while thread "download" is *)
(* about to forget it.                                                     *)
LEMMA HandedOver ==
    ASSUME ScheduleInv, NEW x \in Held("apply"), NEW y \in Held("download"), x.id = y.id
    PROVE  pc["download"] = "finish" /\ x = y /\ y = cur["download"]
<1>1. HandedFirst
  BY DEF ScheduleInv, OrderInv
<1>2. Thread = {"download", "apply"}
  BY DEF Thread
<1>3. x \in accepted /\ y \in accepted
  BY <1>2, Facts
<1>4. x = y /\ Same(x, y) /\ x.id \in Nat
  BY <1>3, Facts
<1> QED
  BY <1>1, <1>4 DEF HandedFirst

(* The steps that change the records and leave lists and hands as they are.*)
RecordStep ==
    /\ UNCHANGED <<list, count, cur, min_time, ctime, here, last, removing, now, up, restarts>>
    /\ UNCHANGED <<accepted, removed, cut, missed>>
    /\ tree' \in Tree /\ file' \in Tree
    /\ owner' \in [Mutex -> Thread \union {"main", "none"}]
    /\ pc' \in [Thread -> Place] /\ \A t \in Thread : pc'[t] # "down"
    /\ raised' \in [Id -> Nat] /\ \A i \in Id : raised[i] > 0 => raised'[i] > 0
    /\ failed' \in SUBSET Id /\ failed \subseteq failed'
    /\ started' \in [Id -> Nat]

PlacesStep ==
    /\ pc'["download"] \notin Late /\ pc'["apply"] \notin Idle \union Now
    /\ pc'["download"] \in Idle => pc["download"] \in Idle
    /\ pc'["download"] \in Now => pc["download"] \in Now
    /\ pc'["download"] \notin {"launch", "launchNow"} \/ pc'["download"] = pc["download"]
    /\ pc'["apply"] \in Late => pc["apply"] \in Late
    /\ \A t \in Thread : pc[t] \in Walking \/ pc'[t] \in Walking => pc'[t] = pc[t]
    /\ pc["download"] = "finish" => pc'["download"] = "finish"
    /\ pc["download"] \in Fetched => pc'["download"] \in Fetched
    /\ pc'["download"] \in Launched =>
         pc["download"] \in Launched \/ cur["download"] \notin ToSet(tree'.requests)
    /\ pc'["apply"] \in Late \ {"aLock", "aLaunch"} =>
         pc["apply"] \in Late \ {"aLock", "aLaunch"} \/ cur["apply"] \notin ToSet(tree'.applies)

NewlyDone(i) ==
    \/ i \in tree.done
    \/ /\ i = cur["download"].id /\ pc["download"] \in Launched \ {"finish"}
       /\ i \in tree'.done => pc'["download"] \in Fetched
    \/ i = cur["apply"].id /\ pc["apply"] = "aSaved" /\ pc'["download"] = pc["download"]

RecordsStep ==
    /\ file'.requests = tree'.requests /\ file'.applies = tree'.applies
    /\ ToSet(tree'.requests) \subseteq ToSet(tree.requests) /\ Apart(tree'.requests)
    /\ ToSet(tree'.applies) \subseteq ToSet(tree.applies) /\ InOrder(tree'.applies)
    /\ tree'.done \subseteq file'.done /\ file'.done \subseteq tree'.done \union failed'
    /\ tree.done \subseteq tree'.done \union failed'
    /\ \A i \in file'.done : NewlyDone(i)
    /\ \A i \in Id : \/ started'[i] = started[i]
                     \/ \E r \in accepted : r.id = i /\ started'[i] >= r.start[1]
    /\ pc'["download"] \in Told => pc["download"] \in Told \/ Reported(cur["download"].id)'
    /\ pc'["apply"] \in ToldLate => pc["apply"] \in ToldLate \/ Reported(cur["apply"].id)'
    /\ pc'["download"] = "finish" => pc["download"] \in Fetched \/ Reported(cur["download"].id)'
    /\ pc'["download"] = "faultNow" => pc["download"] = "faultNow" \/ cur["download"].id \in failed'
    /\ \A r \in accepted \ Twins :
          OnRecord(tree, r) \/ r.id \in InFlight =>
             \/ r.id \in failed' \/ OnRecord(tree', r) \/ r.id \in InFlight'

LEMMA RecordKeeps ==
    ASSUME ScheduleInv, up, RecordStep, PlacesStep, RecordsStep
    PROVE  BaseInv' /\ OrderInv' /\ KeptInv'
<1>1. /\ list' = list /\ cur' = cur /\ min_time' = min_time /\ up' = up /\ now' = now
      /\ here' = here /\ last' = last /\ removing' = removing /\ ctime' = ctime /\ count' = count /\ restarts' = restarts
      /\ here' = here /\ last' = last /\ removing' = removing
      /\ accepted' = accepted /\ removed' = removed /\ cut' = cut /\ missed' = missed
  BY DEF RecordStep
<1>2. BaseInv /\ OrderInv /\ KeptInv /\ Thread = {"download", "apply"}
  BY DEF ScheduleInv, Thread
<1>3. TypeOK'
  BY <1>1, <1>2 DEF BaseInv, TypeOK, RecordStep, Place
<1>4. Numbered'
  BY <1>1, <1>2 DEF BaseInv, Numbered
<1>5. Fresh' /\ NotEarly'
  <2>1. ASSUME NEW i \in Id, started'[i] # 0 PROVE \E r \in accepted : r.id = i
    BY <1>2, <2>1 DEF RecordsStep, BaseInv, Fresh
  <2>2. ASSUME NEW i \in Id, i \in file'.done PROVE \E r \in accepted : r.id = i
    <3>1. NewlyDone(i)
      BY <2>2 DEF RecordsStep
    <3>2. cur["download"] \in accepted \/ pc["download"] \notin Launched
      BY <1>2, Facts DEF BaseInv, Places, Launched
    <3>3. cur["apply"] \in accepted \/ pc["apply"] # "aSaved"
      BY <1>2, Facts DEF BaseInv, Places, Late
    <3> QED
      BY <1>2, <3>1, <3>2, <3>3 DEF NewlyDone, BaseInv, Fresh
  <2>3. Fresh'
    BY <1>1, <2>1, <2>2 DEF Fresh, RecordsStep
  <2>4. ASSUME NEW r \in accepted, started'[r.id] # 0 PROVE started'[r.id] >= r.start[1]
    <3>1. r.id \in Id /\ \A x \in accepted : x.id = r.id => x = r
      BY Facts
    <3> QED
      BY <1>2, <2>4, <3>1 DEF RecordsStep, BaseInv, NotEarly
  <2> QED
    BY <1>1, <2>3, <2>4 DEF NotEarly
<1>6. Known'
  BY <1>1, <1>2 DEF BaseInv, Known, RecordsStep
<1>21. \A t \in Thread : pc[t] \in Walking \/ pc'[t] \in Walking => pc'[t] = pc[t]
  BY DEF PlacesStep
<1>7. Down' /\ Places'
  <2>1. \A t \in Thread : /\ pc'[t] \in {"expire", "expiring"} => here'[t] # None
                          /\ pc'[t] \notin Walking => here'[t] = None
    BY <1>1, <1>2, <1>21 DEF BaseInv, Places, Walking
  <2>2. Down'
    BY <1>1, <1>2 DEF BaseInv, Down
  <2>3. /\ pc'["download"] \notin Late /\ pc'["apply"] \notin Idle \union Now
        /\ \A t \in Thread : pc'[t] # "down"
        /\ pc'["download"] \in Idle \union Now => cur["download"] # None
        /\ pc'["apply"] \in Late => cur["apply"] # None
    BY <1>2 DEF BaseInv, Places, RecordStep, PlacesStep
  <2>4. cur'["download"] = cur["download"] /\ cur'["apply"] = cur["apply"]
    BY <1>1
  <2>5. Places'
    BY <2>1, <2>3, <2>4 DEF Places
  <2> QED
    BY <2>2, <2>5
<1>8. AtOnce' = AtOnce
  BY <1>1 DEF AtOnce
<1>9. Way'
  BY <1>2, <1>8 DEF BaseInv, Way, PlacesStep
<1>10. Chosen'
  BY <1>1, <1>2 DEF BaseInv, Chosen, PlacesStep
<1>22. \A t \in Thread : Walked(t)'
  BY <1>1, <1>2 DEF BaseInv, Walked
<1>11. BaseInv'
  BY <1>3, <1>4, <1>5, <1>6, <1>7, <1>9, <1>10, <1>22 DEF BaseInv
<1>12. (\A t \in Thread : InOrder(list'[t])) /\ FirstOfTwins'
  BY <1>1, <1>2 DEF OrderInv, FirstOfTwins
<1>23. FirstOver'
  BY <1>1, <1>2, <1>21 DEF OrderInv, FirstOver, Walking
<1>13. HandedFirst'
  BY <1>1, <1>2 DEF OrderInv, HandedFirst, Held, PlacesStep
<1>14. Unrecorded'
  <2>1. \A t \in Thread : pc'[t] = "expiring" => pc[t] = "expiring"
    BY <1>21 DEF Walking
  <2>2. /\ ToSet(tree'.requests) \subseteq ToSet(tree.requests)
        /\ ToSet(tree'.applies) \subseteq ToSet(tree.applies)
    BY DEF RecordsStep
  <2>3. /\ pc'["download"] \in Launched =>
             pc["download"] \in Launched \/ cur["download"] \notin ToSet(tree'.requests)
        /\ pc'["apply"] \in Late \ {"aLock", "aLaunch"} =>
             pc["apply"] \in Late \ {"aLock", "aLaunch"} \/ cur["apply"] \notin ToSet(tree'.applies)
    BY DEF PlacesStep
  <2> QED
    BY <1>1, <1>2, <2>1, <2>2, <2>3 DEF OrderInv, Unrecorded
<1>15. Listed'
  BY <1>1, <1>2 DEF OrderInv, Listed, RecordsStep
<1>16. Books(file)' /\ Books(tree)'
  <2>1. \A x \in ToSet(tree'.applies), y \in ToSet(tree'.requests) : Same(x, y) => x.id < y.id
    BY <1>2 DEF OrderInv, Books, RecordsStep
  <2>2. ASSUME NEW x \in ToSet(tree'.requests) \union ToSet(tree'.applies), x.id \in file'.done
        PROVE  x.id \in missed
    <3>1. x \in ToSet(tree.requests) \union ToSet(tree.applies) /\ x \in accepted
      BY Facts DEF RecordsStep
    <3>2. NewlyDone(x.id)
      BY <2>2 DEF RecordsStep
    <3>3. CASE x.id \in tree.done
      BY <1>2, <3>1, <3>3 DEF OrderInv, Books
    <3>4. CASE x.id = cur["download"].id /\ pc["download"] \in Launched \ {"finish"}
      <4>1. cur["download"] \in accepted
        BY <1>2, <3>4, Facts DEF BaseInv, Places, Launched
      <4> QED
        BY <3>1, <3>4, <4>1, OffRecord, Facts
    <3>5. CASE x.id = cur["apply"].id /\ pc["apply"] = "aSaved"
      <4>1. pc["apply"] \in Late \ {"aLock", "aLaunch"}
        BY <3>5 DEF Late
      <4>2. cur["apply"] \in accepted
        BY <1>2, <4>1, Facts DEF BaseInv, Places
      <4> QED
        BY <3>1, <3>5, <4>1, <4>2, OffRecord, Facts
    <3> QED
      BY <3>2, <3>3, <3>4, <3>5 DEF NewlyDone
  <2> QED
    BY <1>1, <2>1, <2>2 DEF Books, RecordsStep
<1>17. Settled'
  <2>1. ASSUME NEW i \in tree'.done
        PROVE  \/ i \in tree.done
               \/ i = cur["download"].id /\ pc'["download"] \in Fetched /\ cur["download"] \in accepted
               \/ /\ i = cur["apply"].id /\ cur["apply"] \in Held("apply")
                  /\ pc'["download"] = pc["download"]
    <3>1. NewlyDone(i)
      BY <2>1 DEF RecordsStep
    <3>2. cur["download"] \in accepted \/ pc["download"] \notin Launched
      BY <1>2, Facts DEF BaseInv, Places, Launched
    <3>3. cur["apply"] \in Held("apply") \/ pc["apply"] # "aSaved"
      BY <1>2, Facts DEF BaseInv, Places, Late
    <3> QED
      BY <2>1, <3>1, <3>2, <3>3 DEF NewlyDone
  <2>2. "finish" \in Fetched /\ (pc["download"] \in Fetched => pc'["download"] \in Fetched)
    BY DEF Fetched, PlacesStep
  <2>3. ASSUME NEW x \in ToSet(list["download"]), x.id \in tree'.done
        PROVE  x.id \in missed \/ (x = cur["download"] /\ pc'["download"] \in Fetched)
    <3>1. x \in Held("download") /\ x \in accepted
      BY <1>2, Facts
    <3>2. CASE x.id \in tree.done
      BY <1>2, <2>2, <3>2 DEF OrderInv, Settled
    <3>3. CASE x.id = cur["download"].id /\ pc'["download"] \in Fetched /\ cur["download"] \in accepted
      BY <3>1, <3>3, Facts
    <3>4. CASE /\ x.id = cur["apply"].id /\ cur["apply"] \in Held("apply")
               /\ pc'["download"] = pc["download"]
      <4>1. pc["download"] = "finish" /\ x = cur["download"]
        BY <3>1, <3>4, HandedOver
      <4> QED
        BY <2>2, <4>1
    <3> QED
      BY <2>1, <2>3, <3>2, <3>3, <3>4
  <2>4. ASSUME cur["download"] # None, cur["download"].id \in tree'.done
        PROVE  cur["download"].id \in missed \/ ~AtOnce \/ pc'["download"] \in Fetched
    <3>1. cur["download"] \in Held("download")
      BY <1>2, <2>4, Facts
    <3>2. CASE cur["download"].id \in tree.done
      BY <1>2, <2>2, <2>4, <3>2 DEF OrderInv, Settled
    <3>3. CASE /\ cur["download"].id = cur["apply"].id /\ cur["apply"] \in Held("apply")
               /\ pc'["download"] = pc["download"]
      <4>1. pc["download"] = "finish"
        BY <3>1, <3>3, HandedOver
      <4> QED
        BY <2>2, <4>1
    <3> QED
      BY <2>1, <2>4, <3>2, <3>3
  <2> QED
    BY <1>1, <1>8, <2>3, <2>4 DEF Settled
<1>18. OrderInv'
  BY <1>1, <1>12, <1>13, <1>14, <1>15, <1>16, <1>17, <1>23 DEF OrderInv
<1>19. Ended'
  <2>1. \A i : Reported(i) => Reported(i)'
    BY <1>2 DEF Reported, KeptInv, Ended, RecordsStep, RecordStep
  <2>2. pc'["download"] \in Told => Reported(cur["download"].id)'
    BY <1>1, <1>2, <2>1 DEF KeptInv, Ended, RecordsStep, Told, Fetched
  <2>3. pc'["apply"] \in ToldLate => Reported(cur["apply"].id)'
    BY <1>1, <1>2, <2>1 DEF KeptInv, Ended, RecordsStep, ToldLate
  <2>4. pc'["download"] = "finish" =>
          \/ Reported(cur["download"].id)' \/ cur["download"].id \in removed
          \/ cur["download"] \in ToSet(list["apply"])
          \/ raised'[cur["download"].id] > 0
    <3>1. ASSUME pc["download"] \in Fetched
          PROVE  \/ Reported(cur["download"].id) \/ cur["download"].id \in removed
                 \/ cur["download"] \in ToSet(list["apply"])
                 \/ raised[cur["download"].id] > 0
      BY <1>2, <3>1 DEF KeptInv, Ended, Fetched
    <3>2. pc["download"] \in Fetched => cur["download"].id \in Id
      BY <1>2, Facts DEF BaseInv, Places, Fetched, Idle, Now
    <3> QED
      BY <2>1, <3>1, <3>2 DEF RecordsStep, RecordStep
  <2>5. \A i \in file'.done : i \in tree'.done \/ i \in failed'
    BY DEF RecordsStep
  <2>6. pc'["download"] = "faultNow" => cur["download"].id \in failed'
    BY <1>2 DEF KeptInv, Ended, RecordsStep, RecordStep
  <2> QED
    BY <1>1, <2>1, <2>2, <2>3, <2>4, <2>5, <2>6 DEF Ended, Told, Fetched, ToldLate
<1>20. ASSUME NEW r \in accepted' \ Twins' PROVE Kept(r)'
  <2>1. r \in accepted \ Twins
    BY <1>1, <1>20 DEF Twins
  <2>2. Kept(r) /\ r.id \in Id
    BY <1>2, <2>1, Facts DEF KeptInv
  <2>3. CASE Excused(r.id)
    BY <1>1, <2>3 DEF Kept, Excused, RecordStep
  <2>4. CASE r.id \in failed'
    BY <2>4 DEF Kept, Excused
  <2>5. CASE ~Excused(r.id) /\ r.id \notin failed'
    <3>1. OnRecord(tree', r) \/ r.id \in InFlight'
      BY <2>1, <2>2, <2>5 DEF Kept, RecordsStep
    <3>2. OnRecord(file', r) \/ r.id \in InFlight'
      BY <3>1 DEF OnRecord, RecordsStep
    <3>3. \/ r \in ToSet(list["download"]) \/ r \in ToSet(list["apply"])
          \/ raised[r.id] > 0 \/ r.id \in file.done
      BY <2>2, <2>5 DEF Kept
    <3>4. r.id \in file.done => r.id \in file'.done
      BY <1>2, <2>5 DEF KeptInv, Ended, Excused, RecordsStep
    <3>5. \/ r \in ToSet(list["download"]) \/ r \in ToSet(list["apply"])
          \/ raised'[r.id] > 0 \/ r.id \in file'.done
      BY <2>2, <3>3, <3>4 DEF RecordStep
    <3> QED
      BY <1>1, <3>1, <3>2, <3>5 DEF Kept, OnRecord
  <2> QED
    BY <2>3, <2>4, <2>5
<1> QED
  BY <1>11, <1>18, <1>19, <1>20 DEF KeptInv

(* What goes with a step of a thread to another place.                     *)
LEMMA MovesTo ==
    ASSUME ScheduleInv, NEW t \in Thread, NEW q, Goto(t, q)
    PROVE  /\ pc'[t] = q /\ \A v \in Thread : v # t => pc'[v] = pc[v]
           /\ q \in Place => pc' \in [Thread -> Place]
           /\ q # "down" /\ pc[t] # "down" => up /\ \A v \in Thread : pc'[v] # "down"
BY Running DEF ScheduleInv, BaseInv, TypeOK, Place, Places, Goto

LEMMA OwnersAre ==
    ASSUME ScheduleInv
    PROVE  /\ owner \in [Mutex -> Thread \union {"main", "none"}]
           /\ \A m \in Mutex, o \in Thread \union {"main"} :
                Take(m, o) => owner' \in [Mutex -> Thread \union {"main", "none"}]
           /\ \A m \in Mutex : Give(m) => owner' \in [Mutex -> Thread \union {"main", "none"}]
           /\ \A o : Released(o) => owner' \in [Mutex -> Thread \union {"main", "none"}]
<1>1. owner \in [Mutex -> Thread \union {"main", "none"}]
  BY DEF ScheduleInv, BaseInv, TypeOK
<1>2. \A m \in Mutex, o \in Thread \union {"main"} :
        Take(m, o) => owner' \in [Mutex -> Thread \union {"main", "none"}]
  BY <1>1 DEF Take
<1>3. \A m \in Mutex : Give(m) => owner' \in [Mutex -> Thread \union {"main", "none"}]
  BY <1>1 DEF Give
<1>4. \A o : Released(o) => owner' \in [Mutex -> Thread \union {"main", "none"}]
  BY <1>1 DEF Released
<1> QED
  BY <1>1, <1>2, <1>3, <1>4

LEMMA InFlightNext ==
    ASSUME UNCHANGED cur
    PROVE  InFlight' = {cur[t].id : t \in {x \in Thread : pc'[x] \in Flying}}
BY DEF InFlight, Flying

(* The transfer is started: the record of the request is deleted.          *)
LEMMA LaunchKeeps ==
    ASSUME ScheduleInv, Still, UNCHANGED <<list, count, raised, failed>>,
           Launch("download"), NEW q, Goto("download", q),
           \/ pc["download"] = "launch" /\ q = "running" /\ Take("send", "download")
           \/ pc["download"] = "launchNow" /\ q = "runningNow" /\ Take("schedule", "download")
    PROVE  ScheduleInv'
<1> DEFINE D == cur["download"]
<1>1. /\ list' = list /\ cur' = cur /\ min_time' = min_time /\ up' = up /\ now' = now
      /\ here' = here /\ last' = last /\ removing' = removing /\ ctime' = ctime /\ count' = count /\ restarts' = restarts /\ raised' = raised
      /\ accepted' = accepted /\ removed' = removed /\ cut' = cut /\ missed' = missed
      /\ failed' = failed
  BY DEF Still
<1>2. /\ BaseInv /\ OrderInv /\ KeptInv /\ Thread = {"download", "apply"} /\ TypeOK
      /\ "send" \in Mutex /\ "schedule" \in Mutex
  BY DEF ScheduleInv, BaseInv, Thread, Mutex
<1>3. /\ pc'["download"] = q /\ pc'["apply"] = pc["apply"] /\ q \in {"running", "runningNow"}
      /\ pc' \in [Thread -> Place] /\ up /\ \A v \in Thread : pc'[v] # "down"
  BY <1>2, MovesTo DEF Place, Idle, Now
<1>4. D \in accepted /\ D \in Request /\ D.id \in Id /\ D # None
  BY <1>2, Facts DEF BaseInv, Places, Idle, Now
<1>5. min_time["download"] <= now /\ min_time["download"] \in {D.start[1], D.start[2]}
  BY <1>2, <1>4 DEF BaseInv, Chosen
<1> DEFINE u == DeleteRecord(tree.requests, D)
<1>6. /\ tree' = [tree EXCEPT !.requests = u] /\ file' = tree'
      /\ started' = [started EXCEPT ![D.id] = IF @ = 0 THEN now ELSE @]
  BY DEF Launch, LaunchRecord, bkp_session_delete_schedule_download
<1>7. /\ u \in Seq(Request) /\ ToSet(u) \subseteq ToSet(tree.requests) /\ Apart(u)
      /\ \A x \in ToSet(u) : ~Same(x, D)
      /\ \A x \in ToSet(tree.requests) : ~Same(x, D) => x \in ToSet(u)
  <2>1. tree.requests \in Seq(Request) /\ Apart(tree.requests)
    BY Facts
  <2> QED
    BY <1>4, <2>1, RecordDeleted
<1> HIDE DEF u
<1>8. /\ tree' \in Tree /\ tree'.requests = u /\ tree'.applies = tree.applies /\ tree'.done = tree.done
  BY <1>6, <1>7, Facts DEF Tree
<1>9. now \in Nat /\ started \in [Id -> Nat] /\ started' \in [Id -> Nat]
      /\ \A i \in Id : started'[i] = started[i] \/ (i = D.id /\ started'[i] = now)
  BY <1>2, <1>4, <1>6, Facts DEF TypeOK
<1>10. RecordStep
  BY <1>1, <1>2, <1>3, <1>6, <1>8, <1>9, OwnersAre DEF RecordStep, TypeOK
<1>11. PlacesStep
  <2>1. D \notin ToSet(tree'.requests)
    BY <1>4, <1>7, <1>8, Facts
  <2> QED
    BY <1>2, <1>3, <2>1 DEF PlacesStep, Idle, Now, Late, Launched, Fetched, BaseInv, Places, Walking
<1>12. RecordsStep
  <2>1. \A i \in file'.done : NewlyDone(i)
    BY <1>6, <1>8 DEF NewlyDone
  <2>2. D.start[1] <= now
    <3>1. \A x \in accepted : x.start[1] <= x.end[1] /\ x.end[1] <= x.start[2]
      BY <1>2 DEF BaseInv, Numbered
    <3>2. /\ D.start[1] \in Nat /\ D.start[2] \in Nat /\ D.end[1] \in Nat
      BY <1>4, RequestFields
    <3> QED
      BY <1>4, <1>5, <1>9, <3>1, <3>2
  <2>3. \A i \in Id : \/ started'[i] = started[i]
                      \/ \E r \in accepted : r.id = i /\ started'[i] >= r.start[1]
    <3>1. D.start[1] \in Nat
      BY <1>4, RequestFields
    <3> QED
      BY <1>4, <1>9, <2>2, <3>1
  <2>4. /\ pc'["download"] \notin Told /\ pc'["download"] # "finish" /\ pc'["apply"] = pc["apply"]
        /\ pc'["download"] # "faultNow"
    BY <1>3 DEF Told, Fetched
  <2>5. ASSUME NEW r \in accepted \ Twins, OnRecord(tree, r) \/ r.id \in InFlight
        PROVE  OnRecord(tree', r) \/ r.id \in InFlight'
    <3>1. D.id \in InFlight'
      BY <1>1, <1>2, <1>3, InFlightNext DEF Flying
    <3>2. r.id \in InFlight => r.id \in InFlight'
      BY <1>1, <1>2, <1>3, InFlightNext, InFlightIs DEF Flying
    <3>3. Same(r, D) => r = D
      BY <1>4, Facts
    <3> QED
      BY <1>7, <1>8, <2>5, <3>1, <3>2, <3>3 DEF OnRecord
  <2>6. InOrder(tree'.applies)
    BY <1>8, Facts
  <2> QED
    BY <1>1, <1>6, <1>7, <1>8, <2>1, <2>3, <2>4, <2>5, <2>6 DEF RecordsStep
<1>13. BaseInv' /\ OrderInv' /\ KeptInv'
  BY <1>3, <1>10, <1>11, <1>12, RecordKeeps
<1>14. Mutexes'
  BY <1>1, <1>13, MutexesMove DEF BaseInv
<1> QED
  BY <1>13, <1>14 DEF ScheduleInv

(* The fetch fails: the report has no record.                              *)
LEMMA FaultKeeps ==
    ASSUME ScheduleInv, Still, UNCHANGED <<owner, list, count, started>>,
           FaultReport("download"), Goto("download", "release"), pc["download"] = "running"
    PROVE  ScheduleInv'
<1> DEFINE D == cur["download"]
<1>1. /\ list' = list /\ cur' = cur /\ min_time' = min_time /\ up' = up /\ now' = now
      /\ here' = here /\ last' = last /\ removing' = removing /\ ctime' = ctime /\ count' = count /\ restarts' = restarts /\ started' = started
      /\ accepted' = accepted /\ removed' = removed /\ cut' = cut /\ missed' = missed
  BY DEF Still
<1>2. /\ BaseInv /\ OrderInv /\ KeptInv /\ Thread = {"download", "apply"} /\ TypeOK
  BY DEF ScheduleInv, BaseInv, Thread
<1>3. /\ pc'["download"] = "release" /\ pc'["apply"] = pc["apply"]
      /\ pc' \in [Thread -> Place] /\ up /\ \A v \in Thread : pc'[v] # "down"
  BY <1>2, MovesTo DEF Place, Idle, Now
<1>4. D \in accepted /\ D \in Request /\ D.id \in Id /\ D # None
  BY <1>2, Facts DEF BaseInv, Places, Idle, Now
<1>5. /\ file' = [tree EXCEPT !.done = tree.done \union {D.id}]
      /\ tree' = [tree EXCEPT !.done = tree.done \ {D.id}]
      /\ raised' = [raised EXCEPT ![D.id] = @ + 1]
      /\ failed' = failed \union {D.id}
  BY DEF FaultReport, Done, Undone
<1>6. /\ tree' \in Tree /\ tree'.requests = tree.requests /\ tree'.applies = tree.applies
      /\ tree'.done = tree.done \ {D.id}
      /\ file' \in Tree /\ file'.requests = tree.requests /\ file'.applies = tree.applies
      /\ file'.done = tree.done \union {D.id}
  BY <1>4, <1>5, Facts DEF Tree
<1>7. /\ raised' \in [Id -> Nat] /\ \A i \in Id : raised[i] > 0 => raised'[i] > 0
      /\ failed' \in SUBSET Id /\ failed \subseteq failed' /\ D.id \in failed'
  BY <1>2, <1>4, <1>5 DEF TypeOK
<1>8. RecordStep
  BY <1>1, <1>2, <1>3, <1>6, <1>7, OwnersAre DEF RecordStep, TypeOK
<1>9. PlacesStep
  BY <1>2, <1>3 DEF PlacesStep, Idle, Now, Late, Launched, Fetched, BaseInv, Places, Walking
<1>10. RecordsStep
  <2>1. \A i \in file'.done : NewlyDone(i)
    BY <1>6 DEF NewlyDone, Launched, Idle, Now
  <2>2. Reported(cur["download"].id)'
    BY <1>1, <1>7 DEF Reported
  <2>3. ASSUME NEW r \in accepted \ Twins, OnRecord(tree, r) \/ r.id \in InFlight
        PROVE  r.id \in failed' \/ OnRecord(tree', r) \/ r.id \in InFlight'
    <3>1. r.id \in InFlight => r.id \in InFlight' \/ r.id = D.id
      BY <1>1, <1>2, <1>3, InFlightNext, InFlightIs DEF Flying
    <3> QED
      BY <1>6, <1>7, <2>3, <3>1 DEF OnRecord
  <2>4. Apart(tree'.requests) /\ InOrder(tree'.applies)
    BY <1>6, Facts
  <2> QED
    BY <1>1, <1>3, <1>6, <1>7, <2>1, <2>2, <2>3, <2>4 DEF RecordsStep
<1>11. BaseInv' /\ OrderInv' /\ KeptInv'
  BY <1>3, <1>8, <1>9, <1>10, RecordKeeps
<1>12. Mutexes'
  <2>1. LikeDownload(pc["download"], pc'["download"]) /\ LikeApply(pc["apply"], pc'["apply"])
    BY <1>3 DEF LikeDownload, LikeApply, Holding, HoldingApply, HoldingSchedule, Idle
  <2> QED
    BY <1>1, <1>7, <1>11, <2>1, MutexesStay DEF BaseInv
<1> QED
  BY <1>11, <1>12 DEF ScheduleInv

(* In mode 2 a failed fetch is on record first, ...                        *)
LEMMA FaultRecordKeeps ==
    ASSUME ScheduleInv, Still, UNCHANGED <<owner, list, count, raised, started>>,
           FaultRecord("download"), Goto("download", "faultNow"), pc["download"] = "runningNow"
    PROVE  ScheduleInv'
<1> DEFINE D == cur["download"]
<1>1. /\ list' = list /\ cur' = cur /\ min_time' = min_time /\ up' = up /\ now' = now
      /\ here' = here /\ last' = last /\ removing' = removing /\ ctime' = ctime
      /\ count' = count /\ restarts' = restarts /\ started' = started /\ raised' = raised
      /\ accepted' = accepted /\ removed' = removed /\ cut' = cut /\ missed' = missed
      /\ owner' = owner
  BY DEF Still
<1>2. /\ BaseInv /\ OrderInv /\ KeptInv /\ Thread = {"download", "apply"} /\ TypeOK
  BY DEF ScheduleInv, BaseInv, Thread
<1>3. /\ pc'["download"] = "faultNow" /\ pc'["apply"] = pc["apply"]
      /\ pc' \in [Thread -> Place] /\ up /\ \A v \in Thread : pc'[v] # "down"
  BY <1>2, MovesTo DEF Place, Now
<1>4. D \in accepted /\ D \in Request /\ D.id \in Id /\ D # None
  BY <1>2, Facts DEF BaseInv, Places, Now
<1>5. /\ tree' = [tree EXCEPT !.done = tree.done \union {D.id}] /\ file' = tree'
      /\ failed' = failed \union {D.id}
  BY DEF FaultRecord, Done
<1>6. /\ tree' \in Tree /\ tree'.requests = tree.requests /\ tree'.applies = tree.applies
      /\ tree'.done = tree.done \union {D.id}
  BY <1>4, <1>5, Facts DEF Tree
<1>7. failed' \in SUBSET Id /\ failed \subseteq failed' /\ D.id \in failed'
  BY <1>2, <1>4, <1>5 DEF TypeOK
<1>8. RecordStep
  BY <1>1, <1>2, <1>3, <1>5, <1>6, <1>7, OwnersAre DEF RecordStep, TypeOK
<1>9. PlacesStep
  BY <1>2, <1>3 DEF PlacesStep, Idle, Now, Late, Launched, Fetched, BaseInv, Places, Walking
<1>10. RecordsStep
  <2>1. \A i \in file'.done : NewlyDone(i)
    BY <1>3, <1>5, <1>6 DEF NewlyDone, Launched, Now, Fetched
  <2>2. Reported(cur["download"].id)'
    BY <1>1, <1>7 DEF Reported
  <2>3. ASSUME NEW r \in accepted \ Twins, OnRecord(tree, r) \/ r.id \in InFlight
        PROVE  r.id \in failed' \/ OnRecord(tree', r) \/ r.id \in InFlight'
    <3>1. r.id \in InFlight => r.id \in InFlight' \/ r.id = D.id
      BY <1>1, <1>2, <1>3, InFlightNext, InFlightIs DEF Flying
    <3> QED
      BY <1>6, <1>7, <2>3, <3>1 DEF OnRecord
  <2>4. Apart(tree'.requests) /\ InOrder(tree'.applies)
    BY <1>6, Facts
  <2> QED
    BY <1>1, <1>3, <1>5, <1>6, <1>7, <2>1, <2>2, <2>3, <2>4 DEF RecordsStep
<1>11. BaseInv' /\ OrderInv' /\ KeptInv'
  BY <1>3, <1>8, <1>9, <1>10, RecordKeeps
<1>12. Mutexes'
  <2>1. LikeApply(pc["apply"], pc'["apply"]) /\ failed' # {}
    BY <1>3, <1>7 DEF LikeApply
  <2>2. pc["download"] \notin Holding /\ pc'["download"] \notin Holding
    BY <1>3 DEF Holding, Idle
  <2>3. Holders(owner, failed, pc["download"], pc["apply"], removing)
    BY <1>2, MutexesAre DEF ScheduleInv
  <2>4. Holders(owner', failed', pc'["download"], pc'["apply"], removing')
    BY <1>1, <1>3, <2>1, <2>2, <2>3 DEF Holders, Senders
  <2> QED
    BY <1>11, <2>4, MutexesAre DEF BaseInv
<1> QED
  BY <1>11, <1>12 DEF ScheduleInv

(* ... and then reported, and its record deleted.                          *)
LEMMA FaultRaisedKeeps ==
    ASSUME ScheduleInv, Still, UNCHANGED <<owner, list, count, file, failed, started>>,
           FaultRaised("download"), Goto("download", "finish"), pc["download"] = "faultNow"
    PROVE  ScheduleInv'
<1> DEFINE D == cur["download"]
<1>1. /\ list' = list /\ cur' = cur /\ min_time' = min_time /\ up' = up /\ now' = now
      /\ here' = here /\ last' = last /\ removing' = removing /\ ctime' = ctime
      /\ count' = count /\ restarts' = restarts /\ started' = started /\ failed' = failed
      /\ accepted' = accepted /\ removed' = removed /\ cut' = cut /\ missed' = missed
      /\ owner' = owner /\ file' = file
  BY DEF Still
<1>2. /\ BaseInv /\ OrderInv /\ KeptInv /\ Thread = {"download", "apply"} /\ TypeOK
  BY DEF ScheduleInv, BaseInv, Thread
<1>3. /\ pc'["download"] = "finish" /\ pc'["apply"] = pc["apply"]
      /\ pc' \in [Thread -> Place] /\ up /\ \A v \in Thread : pc'[v] # "down"
  BY <1>2, MovesTo DEF Place, Now
<1>4. D \in accepted /\ D \in Request /\ D.id \in Id /\ D # None /\ D.id \in failed
  BY <1>2, Facts DEF BaseInv, Places, Now, KeptInv, Ended
<1>5. /\ tree' = [tree EXCEPT !.done = tree.done \ {D.id}]
      /\ raised' = [raised EXCEPT ![D.id] = @ + 1]
  BY DEF FaultRaised, Undone
<1>6. /\ tree' \in Tree /\ tree'.requests = tree.requests /\ tree'.applies = tree.applies
      /\ tree'.done = tree.done \ {D.id}
  BY <1>4, <1>5, Facts DEF Tree
<1>7. raised' \in [Id -> Nat] /\ \A i \in Id : raised[i] > 0 => raised'[i] > 0
  BY <1>2, <1>4, <1>5 DEF TypeOK
<1>8. BaseInv'
  <2>1. TypeOK'
    BY <1>1, <1>2, <1>3, <1>6, <1>7 DEF TypeOK, Place
  <2>2. Numbered' /\ Known' /\ Fresh' /\ NotEarly' /\ Down'
    BY <1>1, <1>2, <1>3, <1>6 DEF BaseInv, Numbered, Known, Fresh, NotEarly, Down
  <2>3. Places'
    BY <1>1, <1>2, <1>3, <1>4 DEF BaseInv, Places, Idle, Now, Late, Walking
  <2>4. AtOnce' = AtOnce
    BY <1>1 DEF AtOnce
  <2>5. Way' /\ Chosen'
    BY <1>1, <1>2, <1>3, <2>4 DEF BaseInv, Way, Chosen, Idle, Now
  <2>6. \A t \in Thread : Walked(t)'
    BY <1>1, <1>2 DEF BaseInv, Walked
  <2> QED
    BY <2>1, <2>2, <2>3, <2>5, <2>6 DEF BaseInv
<1>9. OrderInv'
  <2>1. /\ \A t \in Thread : InOrder(list'[t])
        /\ FirstOfTwins' /\ Books(tree)' /\ Books(file)' /\ Listed'
    BY <1>1, <1>2, <1>6 DEF OrderInv, FirstOfTwins, Books, Listed
  <2>2. FirstOver'
    BY <1>1, <1>2, <1>3 DEF OrderInv, FirstOver
  <2>3. HandedFirst'
    BY <1>1, <1>2, <1>3 DEF OrderInv, HandedFirst, Held
  <2>4. Unrecorded'
    BY <1>1, <1>2, <1>3, <1>6 DEF OrderInv, Unrecorded, Launched, Now
  <2>5. AtOnce' = AtOnce
    BY <1>1 DEF AtOnce
  <2>6. Settled'
    BY <1>1, <1>2, <1>3, <1>6, <2>5 DEF OrderInv, Settled, Fetched
  <2> QED
    BY <2>1, <2>2, <2>3, <2>4, <2>6 DEF OrderInv
<1>10. Ended'
  <2>1. Reported(cur["download"].id)'
    BY <1>1, <1>4 DEF Reported
  <2>2. \A i \in file.done : i \in tree'.done \/ i \in failed
    BY <1>2, <1>4, <1>6 DEF KeptInv, Ended
  <2>3. pc["apply"] \in {"aApply", "aRelease", "aUnlink"} => Reported(cur["apply"].id)'
    BY <1>1, <1>2 DEF KeptInv, Ended, Reported
  <2> QED
    BY <1>1, <1>3, <2>1, <2>2, <2>3 DEF Ended
<1>11. ASSUME NEW r \in accepted' \ Twins' PROVE Kept(r)'
  <2>1. r \in accepted \ Twins /\ r.id \in Id
    BY <1>1, <1>11, Facts DEF Twins
  <2>2. Kept(r)
    BY <1>2, <2>1 DEF KeptInv
  <2>3. r.id \in InFlight => r.id \in InFlight'
    BY <1>1, <1>2, <1>3, InFlightNext, InFlightIs DEF Flying
  <2>4. CASE Excused(r.id)
    BY <1>1, <2>4 DEF Kept, Excused
  <2>5. CASE ~Excused(r.id)
    <3>1. r.id # D.id
      BY <1>4, <2>5 DEF Excused
    <3>2. OnRecord(tree, r) => OnRecord(tree', r)
      BY <1>6, <3>1 DEF OnRecord
    <3>3. raised[r.id] > 0 => raised'[r.id] > 0
      BY <1>7, <2>1
    <3> QED
      BY <1>1, <2>2, <2>3, <2>5, <3>2, <3>3 DEF Kept, OnRecord
  <2> QED
    BY <2>4, <2>5
<1>12. Mutexes'
  <2>1. failed' # {}
    BY <1>1, <1>4
  <2>2. pc["download"] \notin Holding /\ pc'["download"] \notin Holding
    BY <1>3 DEF Holding, Idle
  <2>3. Holders(owner, failed, pc["download"], pc["apply"], removing)
    BY <1>2, MutexesAre DEF ScheduleInv
  <2>4. Holders(owner', failed', pc'["download"], pc'["apply"], removing')
    BY <1>1, <1>3, <2>1, <2>2, <2>3 DEF Holders, Senders
  <2> QED
    BY <1>8, <2>4, MutexesAre DEF BaseInv
<1> QED
  BY <1>8, <1>9, <1>10, <1>11, <1>12 DEF ScheduleInv, KeptInv

(* The fetched file is put on record: its request is done.                 *)
LEMMA RecordedKeeps ==
    ASSUME ScheduleInv, Still, UNCHANGED <<list, count, raised, failed, started>>,
           NEW t \in Thread, Recorded(t), NEW q, Goto(t, q),
           \/ t = "download" /\ pc[t] = "running" /\ q = "apply" /\ UNCHANGED owner
           \/ t = "download" /\ pc[t] = "trySchedule" /\ q = "applyNow" /\ Take("schedule", t)
           \/ t = "apply" /\ pc[t] = "aSaved" /\ q = "aApply" /\ UNCHANGED owner
    PROVE  ScheduleInv'
<1> DEFINE C == cur[t]
           D == cur["download"]
<1>1. /\ list' = list /\ cur' = cur /\ min_time' = min_time /\ up' = up /\ now' = now
      /\ here' = here /\ last' = last /\ removing' = removing /\ ctime' = ctime /\ count' = count /\ restarts' = restarts /\ started' = started
      /\ accepted' = accepted /\ removed' = removed /\ cut' = cut /\ missed' = missed
      /\ raised' = raised /\ failed' = failed
  BY DEF Still
<1>2. /\ BaseInv /\ OrderInv /\ KeptInv /\ Thread = {"download", "apply"} /\ TypeOK
      /\ "schedule" \in Mutex
  BY DEF ScheduleInv, BaseInv, Thread, Mutex
<1>3. /\ pc'[t] = q /\ (\A v \in Thread : v # t => pc'[v] = pc[v])
      /\ pc' \in [Thread -> Place] /\ up /\ \A v \in Thread : pc'[v] # "down"
  BY MovesTo DEF Place, Idle, Now, Late
<1>4. C \in accepted /\ C \in Request /\ C.id \in Id /\ C # None
  BY <1>2, Facts DEF BaseInv, Places, Idle, Now, Late
<1>5. file' = tree' /\ tree' = [tree EXCEPT !.done = tree.done \union {C.id}]
  BY DEF Recorded, Done
<1>6. /\ tree' \in Tree /\ tree'.requests = tree.requests /\ tree'.applies = tree.applies
      /\ tree'.done = tree.done \union {C.id}
  BY <1>4, <1>5, Facts DEF Tree
<1>7. owner' \in [Mutex -> Thread \union {"main", "none"}]
  BY <1>2, OwnersAre
<1>8. RecordStep
  BY <1>1, <1>2, <1>3, <1>5, <1>6, <1>7 DEF RecordStep, TypeOK
<1>9. PlacesStep
  <2>1. CASE t = "download"
    BY <1>2, <1>3, <2>1 DEF PlacesStep, Idle, Now, Late, Launched, Fetched, BaseInv, Places, Walking
  <2>2. CASE t = "apply"
    BY <1>2, <1>3, <2>2 DEF PlacesStep, Idle, Now, Late, Launched, Fetched, BaseInv, Places, Walking
  <2> QED
    BY <1>2, <2>1, <2>2
<1>10. RecordsStep
  <2>1. ASSUME NEW i \in file'.done PROVE NewlyDone(i)
    <3>1. i \in tree.done \/ i = C.id
      BY <1>5, <1>6
    <3>2. CASE t = "download"
      BY <1>3, <3>1, <3>2 DEF NewlyDone, Launched, Idle, Now, Fetched
    <3>3. CASE t = "apply"
      BY <1>2, <1>3, <3>1, <3>3 DEF NewlyDone
    <3> QED
      BY <1>2, <3>2, <3>3
  <2>2. Reported(cur[t].id)'
    BY <1>1, <1>5, <1>6 DEF Reported
  <2>3. /\ pc'["download"] \in Told => pc["download"] \in Told \/ Reported(cur["download"].id)'
        /\ pc'["apply"] \in ToldLate => pc["apply"] \in ToldLate \/ Reported(cur["apply"].id)'
        /\ pc'["download"] = "finish" => pc["download"] \in Fetched \/ Reported(cur["download"].id)'
        /\ pc'["download"] = "faultNow" => pc["download"] = "faultNow"
    <3>1. CASE t = "download"
      BY <1>2, <1>3, <2>2, <3>1
    <3>2. CASE t = "apply"
      BY <1>2, <1>3, <2>2, <3>2 DEF Fetched
    <3> QED
      BY <1>2, <3>1, <3>2
  <2>4. ASSUME NEW r \in accepted \ Twins, OnRecord(tree, r) \/ r.id \in InFlight
        PROVE  r.id \in failed' \/ OnRecord(tree', r) \/ r.id \in InFlight'
    <3>1. r.id \in InFlight => r.id \in InFlight' \/ r.id = C.id
      BY <1>1, <1>2, <1>3, InFlightNext, InFlightIs
    <3> QED
      BY <1>6, <2>4, <3>1 DEF OnRecord
  <2>5. Apart(tree'.requests) /\ InOrder(tree'.applies)
    BY <1>6, Facts
  <2> QED
    BY <1>1, <1>5, <1>6, <2>1, <2>3, <2>4, <2>5 DEF RecordsStep
<1>11. BaseInv' /\ OrderInv' /\ KeptInv'
  BY <1>3, <1>8, <1>9, <1>10, RecordKeeps
<1>12. Mutexes'
  <2>1. CASE pc[t] = "running" /\ UNCHANGED owner
    <3>1. LikeDownload(pc["download"], pc'["download"]) /\ LikeApply(pc["apply"], pc'["apply"])
      BY <1>2, <1>3, <2>1
         DEF LikeDownload, LikeApply, Holding, HoldingApply, HoldingSchedule, HoldingLate,
             ScheduleLate, Idle, Late
    <3> QED
      BY <1>1, <1>11, <2>1, <3>1, MutexesStay DEF BaseInv
  <2>2. CASE t = "download" /\ pc[t] = "trySchedule"
    BY <1>1, <1>11, <2>2, MutexesMove DEF BaseInv
  <2>3. CASE pc[t] = "aSaved" /\ t = "apply" /\ UNCHANGED owner
    <3>1. LikeDownload(pc["download"], pc'["download"]) /\ LikeApply(pc["apply"], pc'["apply"])
      BY <1>2, <1>3, <2>3
         DEF LikeDownload, LikeApply, Holding, HoldingApply, HoldingSchedule, HoldingLate,
             ScheduleLate, Idle, Late
    <3> QED
      BY <1>1, <1>11, <2>3, <3>1, MutexesStay DEF BaseInv
  <2> QED
    BY <2>1, <2>2, <2>3
<1> QED
  BY <1>11, <1>12 DEF ScheduleInv

(* The report of an applied file is saved with the event.                  *)
LEMMA ApplyReportKeeps ==
    ASSUME ScheduleInv, Still, UNCHANGED <<owner, list, count, failed, started>>,
           NEW t \in Thread, ApplyReport(t), NEW q, Goto(t, q),
           \/ t = "download" /\ pc[t] = "apply" /\ q = "release"
           \/ t = "download" /\ pc[t] = "applyNow" /\ q = "releaseNow"
           \/ t = "apply" /\ pc[t] = "aApply" /\ q = "aRelease"
    PROVE  ScheduleInv'
<1> DEFINE C == cur[t]
<1>1. /\ list' = list /\ cur' = cur /\ min_time' = min_time /\ up' = up /\ now' = now
      /\ here' = here /\ last' = last /\ removing' = removing /\ ctime' = ctime /\ count' = count /\ restarts' = restarts /\ started' = started
      /\ accepted' = accepted /\ removed' = removed /\ cut' = cut /\ missed' = missed
      /\ owner' = owner /\ failed' = failed
  BY DEF Still
<1>2. /\ BaseInv /\ OrderInv /\ KeptInv /\ Thread = {"download", "apply"} /\ TypeOK
  BY DEF ScheduleInv, BaseInv, Thread
<1>3. /\ pc'[t] = q /\ (\A v \in Thread : v # t => pc'[v] = pc[v])
      /\ pc' \in [Thread -> Place] /\ up /\ \A v \in Thread : pc'[v] # "down"
  BY MovesTo DEF Place, Idle, Now, Late
<1>4. C \in accepted /\ C.id \in Id /\ C # None
  BY <1>2, Facts DEF BaseInv, Places, Idle, Now, Late
<1>5. /\ file' = tree /\ tree' = tree /\ tree \in Tree
      /\ raised' = [raised EXCEPT ![C.id] = @ + 1]
  BY Facts DEF ApplyReport
<1>6. raised' \in [Id -> Nat] /\ \A i \in Id : raised[i] > 0 => raised'[i] > 0
  BY <1>2, <1>4, <1>5 DEF TypeOK
<1>7. RecordStep
  BY <1>1, <1>2, <1>3, <1>5, <1>6, OwnersAre DEF RecordStep, TypeOK
<1>8. PlacesStep /\ LikeDownload(pc["download"], pc'["download"]) /\ LikeApply(pc["apply"], pc'["apply"])
  <2>1. CASE t = "download"
    BY <1>2, <1>3, <2>1
       DEF PlacesStep, Idle, Now, Late, Launched, Fetched, BaseInv, Places, Walking,
           LikeDownload, LikeApply, Holding, HoldingApply, HoldingSchedule
  <2>2. CASE t = "apply"
    BY <1>2, <1>3, <2>2
       DEF PlacesStep, Idle, Now, Late, Launched, Fetched, BaseInv, Places, Walking,
           LikeDownload, LikeApply, HoldingLate, ScheduleLate
  <2> QED
    BY <1>2, <2>1, <2>2
<1>9. RecordsStep
  <2>1. \A i \in file'.done : NewlyDone(i)
    BY <1>5 DEF NewlyDone
  <2>2. /\ pc'["download"] \in Told => pc["download"] \in Told
        /\ pc'["apply"] \in ToldLate => pc["apply"] \in ToldLate
        /\ pc'["download"] = "finish" => pc["download"] \in Fetched
        /\ pc'["download"] = "faultNow" => pc["download"] = "faultNow"
    BY <1>2, <1>3 DEF Told, Fetched, ToldLate
  <2>3. ASSUME NEW r \in accepted \ Twins, OnRecord(tree, r) \/ r.id \in InFlight
        PROVE  r.id \in failed' \/ OnRecord(tree', r) \/ r.id \in InFlight'
    <3>1. r.id \in InFlight => r.id \in InFlight'
      BY <1>1, <1>2, <1>3, InFlightNext, InFlightIs DEF Flying
    <3> QED
      BY <1>5, <2>3, <3>1
  <2>4. Apart(tree'.requests) /\ InOrder(tree'.applies)
    BY <1>5, Facts
  <2> QED
    BY <1>1, <1>5, <2>1, <2>2, <2>3, <2>4 DEF RecordsStep
<1>10. BaseInv' /\ OrderInv' /\ KeptInv'
  BY <1>3, <1>7, <1>8, <1>9, RecordKeeps
<1>11. Mutexes'
  BY <1>1, <1>8, <1>10, MutexesStay DEF BaseInv
<1> QED
  BY <1>10, <1>11 DEF ScheduleInv

(* Thread "apply" takes the request it has chosen from the record.         *)
LEMMA LateLaunchKeeps ==
    ASSUME ScheduleInv, Still, UNCHANGED <<list, count, raised, failed, started>>,
           pc["apply"] = "aLaunch", Take("schedule", "apply"), Goto("apply", "aSaved"),
           tree' = bkp_session_delete_apply_schedule_download(tree, cur["apply"]), file' = tree'
    PROVE  ScheduleInv'
<1> DEFINE A == cur["apply"]
<1>1. /\ list' = list /\ cur' = cur /\ min_time' = min_time /\ up' = up /\ now' = now
      /\ here' = here /\ last' = last /\ removing' = removing /\ ctime' = ctime /\ count' = count /\ restarts' = restarts /\ raised' = raised
      /\ accepted' = accepted /\ removed' = removed /\ cut' = cut /\ missed' = missed
      /\ failed' = failed /\ started' = started
  BY DEF Still
<1>2. /\ BaseInv /\ OrderInv /\ KeptInv /\ Thread = {"download", "apply"} /\ TypeOK
      /\ "schedule" \in Mutex
  BY DEF ScheduleInv, BaseInv, Thread, Mutex
<1>3. /\ pc'["apply"] = "aSaved" /\ pc'["download"] = pc["download"]
      /\ pc' \in [Thread -> Place] /\ up /\ \A v \in Thread : pc'[v] # "down"
  BY <1>2, MovesTo DEF Place, Late
<1>4. A \in accepted /\ A \in Request /\ A.id \in Nat /\ A # None /\ Same(A, A)
  BY <1>2, Facts DEF BaseInv, Places, Late
<1> DEFINE u == DeleteRecord(tree.applies, A)
<1>5. tree' = [tree EXCEPT !.applies = u]
  BY DEF bkp_session_delete_apply_schedule_download
<1>6. /\ u \in Seq(Request) /\ ToSet(u) \subseteq ToSet(tree.applies) /\ InOrder(u)
      /\ \A x \in ToSet(u) : Same(x, A) => A.id < x.id
      /\ \A x \in ToSet(tree.applies) : ~Same(x, A) => x \in ToSet(u)
  <2>1. tree.applies \in Seq(Request) /\ InOrder(tree.applies)
    BY Facts
  <2>2. \A x \in ToSet(tree.applies) : Same(x, A) => A.id <= x.id
    BY <1>2, <1>3, <1>4 DEF OrderInv, Listed, FirstOfTwins
  <2> DEFINE s == tree.applies
  <2> HIDE DEF s
  <2>3. s \in Seq(Request) /\ InOrder(s) /\ u = DeleteRecord(s, A)
    BY <2>1 DEF s
  <2> HIDE DEF u
  <2>4. PICK a \in Request : a = A
    BY <1>4
  <2>5. u = DeleteRecord(s, a) /\ \A x \in ToSet(s) : Same(x, a) => a.id <= x.id
    BY <2>2, <2>3, <2>4 DEF s
  <2>6. /\ u \in Seq(Request) /\ ToSet(u) \subseteq ToSet(s) /\ InOrder(u)
        /\ \A x \in ToSet(u) : Same(x, a) => a.id < x.id
        /\ \A x \in ToSet(s) : ~Same(x, a) => x \in ToSet(u)
    BY <2>3, <2>5, RecordDeleted
  <2> QED
    BY <2>4, <2>6 DEF s
<1> HIDE DEF u
<1>7. /\ tree' \in Tree /\ tree'.applies = u /\ tree'.requests = tree.requests /\ tree'.done = tree.done
  BY <1>5, <1>6, Facts DEF Tree
<1>8. RecordStep
  BY <1>1, <1>2, <1>3, <1>7, OwnersAre DEF RecordStep, TypeOK
<1>9. PlacesStep
  <2>1. A \notin ToSet(tree'.applies)
    BY <1>4, <1>6, <1>7
  <2> QED
    BY <1>2, <1>3, <2>1 DEF PlacesStep, Idle, Now, Late, BaseInv, Places, Walking
<1>10. RecordsStep
  <2>1. \A i \in file'.done : NewlyDone(i)
    BY <1>7 DEF NewlyDone
  <2>2. /\ pc'["download"] = pc["download"] /\ pc'["apply"] \notin ToldLate
        /\ pc["download"] = "finish" => pc["download"] \in Fetched
    BY <1>3 DEF ToldLate, Fetched
  <2>3. ASSUME NEW r \in accepted \ Twins, OnRecord(tree, r) \/ r.id \in InFlight
        PROVE  r.id \in failed' \/ OnRecord(tree', r) \/ r.id \in InFlight'
    <3>1. A.id \in InFlight' /\ (r.id \in InFlight => r.id \in InFlight')
      BY <1>1, <1>2, <1>3, InFlightNext, InFlightIs DEF Flying
    <3>2. Same(r, A) => r = A
      BY <1>4, Facts
    <3> QED
      BY <1>6, <1>7, <2>3, <3>1, <3>2 DEF OnRecord
  <2>4. Apart(tree'.requests)
    BY <1>7, Facts
  <2> QED
    BY <1>1, <1>6, <1>7, <2>1, <2>2, <2>3, <2>4 DEF RecordsStep
<1>11. BaseInv' /\ OrderInv' /\ KeptInv'
  BY <1>3, <1>8, <1>9, <1>10, RecordKeeps
<1>12. Mutexes'
  BY <1>1, <1>11, MutexesMove DEF BaseInv
<1> QED
  BY <1>11, <1>12 DEF ScheduleInv

-----------------------------------------------------------------------------
(***************************************************************************)
(* The loops: waiting, sleeping, and the places of a run.                  *)
(***************************************************************************)
LEMMA SessionKeeps ==
    ASSUME ScheduleInv, session_begin \/ session_end
    PROVE  ScheduleInv'
<1>1. /\ UNCHANGED <<now, list, count, pc, cur, min_time, ctime, here, last, removing>>
      /\ UNCHANGED <<tree, file, up, restarts>> /\ UNCHANGED histVars
      /\ Take("send", "main") \/ (owner["send"] = "main" /\ removing = <<>> /\ Give("send"))
  BY DEF session_begin, session_end, threadVars
<1>2. TypeOK /\ Down /\ Chosen /\ "send" \in Mutex
  BY DEF ScheduleInv, BaseInv, Mutex
<1>3. up
  BY <1>2 DEF session_begin, session_end, Down
<1>4. Move
  <2>1. Onward
    BY <1>1 DEF Onward
  <2> QED
    BY <1>1, <1>2, <1>3, <2>1, OwnersAre, SomeMove DEF Records, TypeOK, Chosen
<1>5. BaseInv' /\ OrderInv' /\ KeptInv'
  BY <1>4, MoveKeeps
<1>6. Mutexes'
  BY <1>1, <1>5, MutexesMove DEF BaseInv, histVars
<1> QED
  BY <1>5, <1>6 DEF ScheduleInv

LEMMA TickKeeps ==
    ASSUME ScheduleInv, tick
    PROVE  ScheduleInv'
<1>1. /\ UNCHANGED <<list, count, owner, pc, cur, min_time, ctime, here, last, removing>>
      /\ UNCHANGED <<tree, file, up, restarts>> /\ UNCHANGED histVars /\ now < MaxTime /\ now' = now + 1
  BY DEF tick, threadVars
<1>2. TypeOK /\ Chosen /\ Places /\ Way /\ MaxTime \in Nat
  BY WindowsAssumption DEF ScheduleInv, BaseInv
<1>3. Move
  <2>1. /\ now' \in 1 .. MaxTime /\ now <= now' /\ now \in Nat
        /\ \A t \in Thread : ctime'[t] <= now'
    <3>1. \A t \in Thread : ctime[t] <= now /\ ctime[t] \in Nat
      BY <1>2, WindowsAssumption DEF TypeOK, Chosen, Time
    <3> QED
      BY <1>1, <1>2, <3>1 DEF TypeOK
  <2>2. MoveDownload /\ MoveApply
    BY <1>1, <1>2 DEF MoveDownload, MoveApply, Places, Way, Chosen, Told, Fetched
  <2> QED
    BY <1>1, <1>2, <2>1, <2>2 DEF Move, Records, TypeOK, Place, Places
<1>4. BaseInv' /\ OrderInv' /\ KeptInv'
  BY <1>3, MoveKeeps
<1>5. LikeDownload(pc["download"], pc'["download"]) /\ LikeApply(pc["apply"], pc'["apply"])
  BY <1>1 DEF LikeDownload, LikeApply
<1>6. Mutexes'
  BY <1>1, <1>4, <1>5, MutexesStay DEF BaseInv, histVars
<1> QED
  BY <1>4, <1>6 DEF ScheduleInv

(* Steps between places where a thread holds nothing.                      *)
LEMMA AsideKeeps ==
    ASSUME ScheduleInv, UNCHANGED Records, UNCHANGED count, UNCHANGED now, UNCHANGED owner,
           ctime' \in [Thread -> Time], \A t \in Thread : ctime'[t] <= now,
           \A t \in Thread : pc[t] \in Walking => ctime'[t] = ctime[t],
           NEW t \in Thread, NEW q \in Place, Goto(t, q), pc[t] \in Waits,
           \/ q \in Waits
           \/ t = "download" /\ OnwardDownload(pc[t], q)
           \/ t = "apply" /\ OnwardApply(pc[t], q)
    PROVE  ScheduleInv'
<1>1. TypeOK /\ Thread = {"download", "apply"} /\ Waits \subseteq Place
  BY DEF ScheduleInv, BaseInv, Thread, Waits, Place
<1>2. up
  BY Running DEF Waits
<1>3. Onward
  <2>1. CASE q \in Waits /\ t = "download"
    BY <1>1, <2>1 DEF Onward, OnwardDownload
  <2>2. CASE q \in Waits /\ t = "apply"
    BY <1>1, <2>2 DEF Onward, OnwardApply
  <2>3. CASE q \notin Waits
    BY <2>3 DEF Onward
  <2> QED
    BY <1>1, <2>1, <2>2, <2>3
<1>4. Move
  BY <1>2, <1>3, OwnersAre, SomeMove
<1>5. BaseInv' /\ OrderInv' /\ KeptInv'
  BY <1>4, MoveKeeps
<1>6. pc'[t] = q /\ \A v \in Thread : v # t => pc'[v] = pc[v]
  BY MovesTo
<1>7. q \in Waits \/ (t = "download" /\ q \in {"launch", "launchNow"}) \/ (t = "apply" /\ q = "aLock")
  <2>1. pc[t] \in Waits => /\ OnwardDownload(pc[t], q) => q \in Waits \/ q \in {"launch", "launchNow"}
                           /\ OnwardApply(pc[t], q) => q \in Waits \/ q = "aLock"
    BY DEF OnwardDownload, OnwardApply, Waits
  <2> QED
    BY <2>1
<1>8. LikeDownload(pc["download"], pc'["download"]) /\ LikeApply(pc["apply"], pc'["apply"])
  <2>1. CASE t = "download"
    <3>1. /\ pc["download"] \notin Holding \union HoldingApply \union HoldingSchedule
          /\ pc'["download"] \notin Holding \union HoldingApply \union HoldingSchedule
      BY <1>6, <1>7, <2>1 DEF Waits, Holding, HoldingApply, HoldingSchedule, Idle
    <3> QED
      BY <1>1, <1>6, <2>1, <3>1 DEF LikeDownload, LikeApply
  <2>2. CASE t = "apply"
    <3>1. /\ pc["apply"] \notin HoldingLate \union ScheduleLate \union {"expiring"}
          /\ pc'["apply"] \notin HoldingLate \union ScheduleLate \union {"expiring"}
      BY <1>6, <1>7, <2>2 DEF Waits, HoldingLate, ScheduleLate, Late
    <3> QED
      BY <1>1, <1>6, <2>2, <3>1 DEF LikeDownload, LikeApply
  <2> QED
    BY <1>1, <2>1, <2>2
<1>9. Mutexes'
  BY <1>5, <1>8, MutexesStay DEF BaseInv, Records, histVars
<1> QED
  BY <1>5, <1>9 DEF ScheduleInv

(* The decision: a window that has not begun is slept for.                 *)
LEMMA DecisionIs ==
    ASSUME NEW t \in Thread, NEW time, NEW q, q = Decision(t, time)
    PROVE  \/ q \in {"look", "tosleep"}
           \/ /\ min_time[t] # 0 /\ ~(min_time[t] > time)
              /\ \/ t = "apply" /\ q = "aLock"
                 \/ t = "download" /\ q \in {"launch", "launchNow"} /\ (q = "launch" <=> ~AtOnce)
<1>1. Thread = {"download", "apply"}
  BY DEF Thread
<1>2. CASE t = "apply"
  BY <1>2 DEF Decision
<1>3. CASE t = "download"
  BY <1>3 DEF Decision, AtOnce
<1> QED
  BY <1>1, <1>2, <1>3

LEMMA WaitKeeps ==
    ASSUME ScheduleInv, NEW t \in Thread, Wait(t)
    PROVE  ScheduleInv'
<1>1. UNCHANGED Records /\ UNCHANGED count /\ UNCHANGED now /\ UNCHANGED owner
  BY DEF Wait, Steady, Records
<1>2. TypeOK /\ Chosen /\ Thread = {"download", "apply"} /\ now \in Nat
  BY WindowsAssumption DEF ScheduleInv, BaseInv, Thread, TypeOK
<1>3. Waits \subseteq Place /\ 0 \in Time
  BY WindowsAssumption DEF Waits, Place, Time
<1>4. CASE pc[t] = "towait" /\ Goto(t, "waiting") /\ UNCHANGED ctime
  <2>1. "waiting" \in Place /\ "waiting" \in Waits /\ pc[t] \in Waits
    BY <1>3, <1>4 DEF Waits
  <2>2. ctime' \in [Thread -> Time] /\ \A v \in Thread : ctime'[v] <= now
    BY <1>2, <1>4 DEF TypeOK, Chosen
  <2> QED
    BY <1>1, <1>4, <2>1, <2>2, AsideKeeps
<1>5. CASE pc[t] = "woken" /\ UNCHANGED <<cur, min_time>> /\ Goto(t, Decision(t, ctime[t]))
           /\ ctime' = [ctime EXCEPT ![t] = 0]
  <2>1. PICK q : q = Decision(t, ctime[t])
    OBVIOUS
  <2>2. ctime' \in [Thread -> Time] /\ \A v \in Thread : ctime'[v] <= now
    BY <1>2, <1>3, <1>5 DEF TypeOK, Chosen
  <2>3. \/ q \in {"look", "tosleep"}
        \/ /\ min_time[t] # 0 /\ ~(min_time[t] > ctime[t])
           /\ \/ t = "apply" /\ q = "aLock"
              \/ t = "download" /\ q \in {"launch", "launchNow"} /\ (q = "launch" <=> ~AtOnce)
    BY <2>1, DecisionIs
  <2>4. min_time[t] \in Nat /\ ctime[t] \in Nat /\ ctime[t] <= now
    BY <1>2, WindowsAssumption DEF TypeOK, Time, Chosen
  <2>5. min_time[t] # 0 /\ ~(min_time[t] > ctime[t]) => cur[t] # None /\ min_time[t] <= now
    BY <1>2, <2>4 DEF Chosen
  <2>6. q \in Place
    BY <2>3 DEF Place, Idle, Now, Late
  <2>7. \/ q \in Waits
        \/ t = "download" /\ OnwardDownload(pc[t], q)
        \/ t = "apply" /\ OnwardApply(pc[t], q)
    BY <1>5, <2>3, <2>5 DEF Waits, OnwardDownload, OnwardApply
  <2>8. Goto(t, q) /\ pc[t] \in Waits
    BY <1>5, <2>1 DEF Waits
  <2>9. \A v \in Thread : pc[v] \in Walking => ctime'[v] = ctime[v]
    BY <1>2, <1>5 DEF TypeOK, Walking
  <2> QED
    BY <1>1, <2>2, <2>6, <2>7, <2>8, <2>9, AsideKeeps
<1> QED
  BY <1>4, <1>5 DEF Wait

LEMMA SleepKeeps ==
    ASSUME ScheduleInv, NEW t \in Thread, Sleep(t)
    PROVE  ScheduleInv'
<1>1. UNCHANGED Records /\ UNCHANGED count /\ UNCHANGED now /\ UNCHANGED ctime
  BY DEF Sleep, Steady, Records
<1>2. /\ TypeOK /\ Chosen /\ Mutexes /\ Thread = {"download", "apply"}
      /\ Mutex = {"send", "queue", "schedule", "apply"}
  BY DEF ScheduleInv, BaseInv, Thread, Mutex
<1>3. ctime' \in [Thread -> Time] /\ \A v \in Thread : ctime'[v] <= now
  BY <1>1, <1>2 DEF TypeOK, Chosen
<1>4. PICK q \in {"sleeping", "awake", "look"} :
        /\ pc[t] \in {"tosleep", "sleeping", "awake"} /\ Goto(t, q)
        /\ \/ UNCHANGED owner
           \/ t = "apply" /\ owner' = [owner EXCEPT !["apply"] = "apply", !["schedule"] = "none"]
  BY <1>2 DEF Sleep, TimedOut
<1>5. q \in Waits /\ q \in Place /\ pc[t] \in Waits
  BY <1>4 DEF Waits, Place
<1>6. CASE UNCHANGED owner
  BY <1>1, <1>3, <1>4, <1>5, <1>6, AsideKeeps
<1>7. CASE t = "apply" /\ owner' = [owner EXCEPT !["apply"] = "apply", !["schedule"] = "none"]
  <2>1. owner' \in [Mutex -> Thread \union {"main", "none"}] /\ owner'["apply"] = "apply"
        /\ owner'["schedule"] = "none"
    BY <1>2, <1>7 DEF TypeOK
  <2>2. up
    BY <1>4, Running
  <2>3. Onward
    BY <1>4, <1>5, <1>7 DEF Onward, OnwardApply
  <2>4. Move
    BY <1>1, <1>3, <2>1, <2>2, <2>3, SomeMove
  <2>5. BaseInv' /\ OrderInv' /\ KeptInv'
    BY <2>4, MoveKeeps
  <2>6. Mutexes'
    <3>1. Holders(owner, failed, pc["download"], pc["apply"], removing)
      BY <1>2, MutexesAre
    <3>2. /\ pc'["download"] = pc["download"] /\ pc["apply"] \notin Late /\ pc'["apply"] \notin Late
          /\ pc'["apply"] # "expiring" /\ removing' = removing
          /\ owner'["send"] = owner["send"] /\ owner'["queue"] = owner["queue"]
      BY <1>1, <1>2, <1>4, <1>7, <2>1, MovesTo DEF Late, Records, TypeOK
    <3>3. Holders(owner', failed', pc'["download"], pc'["apply"], removing')
      BY <2>1, <3>1, <3>2 DEF Holders, Senders, HoldingLate
    <3> QED
      BY <2>5, <3>3, MutexesAre DEF BaseInv
  <2> QED
    BY <2>5, <2>6 DEF ScheduleInv
<1> QED
  BY <1>4, <1>6, <1>7

(* Steps of a run that only lock, unlock or go on.                         *)
LEMMA RunOnKeeps ==
    ASSUME ScheduleInv, Still, UNCHANGED <<list, count, tree, file, raised, failed, started>>,
           NEW t \in Thread, NEW q, Goto(t, q),
           \/ t = "download" /\ pc[t] = "apply" /\ q = "release" /\ UNCHANGED owner
           \/ t = "download" /\ pc[t] = "release" /\ q = "unlink" /\ Give("send")
           \/ t = "download" /\ pc[t] = "runningNow" /\ q = "try" /\ Give("schedule")
           \/ t = "download" /\ pc[t] = "try" /\ q = "tryApply" /\ Take("send", t)
           \/ t = "download" /\ pc[t] = "try" /\ q = "hand" /\ UNCHANGED owner
           \/ t = "download" /\ pc[t] = "tryApply" /\ q = "trySchedule" /\ Take("apply", t)
           \/ t = "download" /\ pc[t] = "applyNow" /\ q = "releaseNow" /\ UNCHANGED owner
           \/ t = "download" /\ pc[t] = "releaseNow" /\ q = "finish" /\ Released(t)
           \/ t = "apply" /\ pc[t] = "aLock" /\ q = "aLaunch" /\ Take("send", t)
           \/ t = "apply" /\ pc[t] = "aApply" /\ q = "aRelease" /\ UNCHANGED owner
           \/ t = "apply" /\ pc[t] = "aRelease" /\ q = "aUnlink"
              /\ owner' = [owner EXCEPT !["send"] = "none", !["schedule"] = "none"]
    PROVE  ScheduleInv'
<1>1. /\ UNCHANGED Records /\ UNCHANGED count /\ UNCHANGED now /\ UNCHANGED ctime
      /\ UNCHANGED histVars /\ UNCHANGED failed /\ UNCHANGED removing
  BY DEF Still, Records, histVars
<1>2. /\ TypeOK /\ Chosen /\ Thread = {"download", "apply"}
      /\ Mutex = {"send", "queue", "schedule", "apply"}
  BY DEF ScheduleInv, BaseInv, Thread, Mutex
<1>3. ctime' \in [Thread -> Time] /\ \A v \in Thread : ctime'[v] <= now
  BY <1>1, <1>2 DEF TypeOK, Chosen
<1>4. /\ q \in Place /\ pc[t] # "down"
      /\ t = "download" => OnwardDownload(pc[t], q)
      /\ t = "apply" => OnwardApply(pc[t], q)
  BY <1>2 DEF Place, Idle, Now, Late, OnwardDownload, OnwardApply
<1>5. owner' \in [Mutex -> Thread \union {"main", "none"}]
  <2>1. owner \in [Mutex -> Thread \union {"main", "none"}]
    BY OwnersAre
  <2>2. owner' = [owner EXCEPT !["send"] = "none", !["schedule"] = "none"] =>
          owner' \in [Mutex -> Thread \union {"main", "none"}]
    BY <2>1
  <2> QED
    BY <1>2, <2>1, <2>2, OwnersAre
<1>6. up /\ Onward
  BY <1>2, <1>4, Running DEF Onward
<1>7. Move
  BY <1>1, <1>3, <1>5, <1>6, SomeMove
<1>8. BaseInv' /\ OrderInv' /\ KeptInv'
  BY <1>7, MoveKeeps
<1>9. Mutexes'
  <2>1. pc'[t] = q /\ \A v \in Thread : v # t => pc'[v] = pc[v]
    BY MovesTo
  <2>2. CASE /\ UNCHANGED owner /\ t = "download"
             /\ \/ pc[t] = "apply" /\ q = "release"
                \/ pc[t] = "try" /\ q = "hand"
                \/ pc[t] = "applyNow" /\ q = "releaseNow"
    <3>1. LikeDownload(pc["download"], pc'["download"]) /\ LikeApply(pc["apply"], pc'["apply"])
      BY <1>2, <2>1, <2>2
         DEF LikeDownload, LikeApply, Holding, HoldingApply, HoldingSchedule, Idle
    <3> QED
      BY <1>1, <1>8, <2>2, <3>1, MutexesStay DEF BaseInv
  <2>3. CASE UNCHANGED owner /\ t = "apply" /\ pc[t] = "aApply" /\ q = "aRelease"
    <3>1. LikeDownload(pc["download"], pc'["download"]) /\ LikeApply(pc["apply"], pc'["apply"])
      BY <1>2, <2>1, <2>3 DEF LikeDownload, LikeApply, HoldingLate, ScheduleLate, Late
    <3> QED
      BY <1>1, <1>8, <2>3, <3>1, MutexesStay DEF BaseInv
  <2>4. CASE /\ t = "download"
             /\ \/ pc[t] = "release" /\ q = "unlink" /\ Give("send")
                \/ pc[t] = "runningNow" /\ q = "try" /\ Give("schedule")
                \/ pc[t] = "try" /\ q = "tryApply" /\ Take("send", t)
                \/ pc[t] = "tryApply" /\ q = "trySchedule" /\ Take("apply", t)
                \/ pc[t] = "releaseNow" /\ q = "finish" /\ Released(t)
    BY <1>1, <1>8, <2>4, MutexesMove DEF BaseInv
  <2>5. CASE /\ t = "apply"
             /\ \/ pc[t] = "aLock" /\ q = "aLaunch" /\ Take("send", t)
                \/ pc[t] = "aRelease" /\ q = "aUnlink"
                   /\ owner' = [owner EXCEPT !["send"] = "none", !["schedule"] = "none"]
    BY <1>1, <1>8, <2>5, MutexesMove DEF BaseInv
  <2> QED
    BY <2>2, <2>3, <2>4, <2>5
<1> QED
  BY <1>8, <1>9 DEF ScheduleInv

LEMMA RunIdleKeeps ==
    ASSUME ScheduleInv, Still, RunIdle
    PROVE  ScheduleInv'
<1>1. "download" \in Thread
  BY DEF Thread
<1>2. CASE /\ pc["download"] = "launch" /\ Take("send", "download") /\ Launch("download")
           /\ Goto("download", "running") /\ UNCHANGED <<list, count, raised, failed>>
  BY <1>2, LaunchKeeps
<1>3. CASE /\ pc["download"] = "running" /\ FaultReport("download") /\ Goto("download", "release")
           /\ UNCHANGED <<owner, list, count, started>>
  BY <1>3, FaultKeeps
<1>4. CASE /\ pc["download"] = "running" /\ Recorded("download") /\ Goto("download", "apply")
           /\ UNCHANGED <<owner, list, count, raised, failed, started>>
  BY <1>1, <1>4, RecordedKeeps
<1>5. CASE /\ pc["download"] = "apply" /\ Goto("download", "release")
           /\ UNCHANGED <<owner, list, count, tree, file, raised, failed, started>>
  BY <1>1, <1>5, RunOnKeeps
<1>6. CASE /\ pc["download"] = "apply" /\ ApplyReport("download") /\ Goto("download", "release")
           /\ UNCHANGED <<owner, list, count, failed, started>>
  BY <1>1, <1>6, ApplyReportKeeps
<1>7. CASE /\ pc["download"] = "release" /\ Give("send") /\ Goto("download", "unlink")
           /\ UNCHANGED <<list, count, tree, file, raised, failed, started>>
  BY <1>1, <1>7, RunOnKeeps
<1> QED
  BY <1>2, <1>3, <1>4, <1>5, <1>6, <1>7 DEF RunIdle

LEMMA RunNowKeeps ==
    ASSUME ScheduleInv, Still, RunNow
    PROVE  ScheduleInv'
<1>1. "download" \in Thread
  BY DEF Thread
<1>2. CASE /\ pc["download"] = "launchNow" /\ Take("schedule", "download") /\ Launch("download")
           /\ Goto("download", "runningNow") /\ UNCHANGED <<list, count, raised, failed>>
  BY <1>2, LaunchKeeps
<1>3. CASE /\ pc["download"] = "runningNow" /\ FaultRecord("download") /\ Goto("download", "faultNow")
           /\ UNCHANGED <<owner, list, count, raised, started>>
  BY <1>3, FaultRecordKeeps
<1>7. CASE /\ pc["download"] = "faultNow" /\ FaultRaised("download") /\ Goto("download", "finish")
           /\ UNCHANGED <<owner, list, count, file, failed, started>>
  BY <1>7, FaultRaisedKeeps
<1>4. CASE /\ UNCHANGED <<list, count, tree, file, raised, failed, started>>
           /\ \/ pc["download"] = "runningNow" /\ Give("schedule") /\ Goto("download", "try")
              \/ pc["download"] = "try" /\ Take("send", "download") /\ Goto("download", "tryApply")
              \/ pc["download"] = "try" /\ Goto("download", "hand") /\ UNCHANGED owner
              \/ pc["download"] = "tryApply" /\ Take("apply", "download") /\ Goto("download", "trySchedule")
              \/ pc["download"] = "applyNow" /\ Goto("download", "releaseNow") /\ UNCHANGED owner
              \/ pc["download"] = "releaseNow" /\ Goto("download", "finish") /\ Released("download")
  BY <1>1, <1>4, RunOnKeeps
<1>5. CASE /\ pc["download"] = "trySchedule" /\ Take("schedule", "download") /\ Recorded("download")
           /\ Goto("download", "applyNow") /\ UNCHANGED <<list, count, raised, failed, started>>
  BY <1>1, <1>5, RecordedKeeps
<1>6. CASE /\ pc["download"] = "applyNow" /\ ApplyReport("download") /\ Goto("download", "releaseNow")
           /\ UNCHANGED <<owner, list, count, failed, started>>
  BY <1>1, <1>6, ApplyReportKeeps
<1> QED
  BY <1>2, <1>3, <1>4, <1>5, <1>6, <1>7 DEF RunNow

-----------------------------------------------------------------------------
(***************************************************************************)
(* The end of a run: the request leaves its list.                          *)
(***************************************************************************)
LEMMA WithoutOne ==
    ASSUME NEW s \in Seq(Request), NEW r \in Request, InOrder(s), r \in ToSet(s),
           NEW u, u = RemoveFirst(s, r)
    PROVE  /\ u \in Seq(Request) /\ InOrder(u) /\ ToSet(u) = ToSet(s) \ {r}
<1>1. /\ u \in Seq(Request) /\ ToSet(u) \subseteq ToSet(s) /\ Picked(u, s)
      /\ \A x \in ToSet(s) : x # r => x \in ToSet(u)
  BY RemoveFirstProperties
<1>2. PICK i \in 1 .. Len(s) :
        /\ s[i] = r
        /\ \A x \in ToSet(u) : \E j \in 1 .. Len(s) : j # i /\ s[j] = x
  BY RemoveFirstProperties
<1>3. Single(s) /\ DOMAIN s = 1 .. Len(s)
  BY OrderedIsSingle, ElementsOf
<1>4. r \notin ToSet(u)
  BY <1>2, <1>3 DEF Single
<1>5. InOrder(u)
  BY <1>1, Ordered
<1> QED
  BY <1>1, <1>4, <1>5

(* A request has left the list of its thread; its record may have been     *)
(* deleted, with the record of a twin.                                     *)
UnlinkStep(t, d) ==
    /\ UNCHANGED <<now, owner, ctime, here, last, removing, up, restarts, accepted, removed, cut>>
    /\ UNCHANGED <<missed, raised, failed, started>>
    /\ count' \in Int
    /\ cur[t] \in ToSet(list[t]) /\ list' = [list EXCEPT ![t] = RemoveFirst(@, cur[t])]
    /\ Goto(t, "look")
    /\ \/ /\ d /\ t = "download" /\ pc[t] = "finish"
          /\ tree' = bkp_session_delete_schedule_download(tree, cur[t]) /\ file' = tree'
          /\ cur' = [cur EXCEPT ![t] = None] /\ min_time' = [min_time EXCEPT ![t] = 0]
       \/ /\ ~d /\ UNCHANGED <<cur, min_time, tree, file>>
          /\ pc[t] = IF t = "download" THEN "unlink" ELSE "aUnlink"

LEMMA UnlinkKeeps ==
    ASSUME ScheduleInv, NEW t \in Thread, NEW d \in BOOLEAN, UnlinkStep(t, d)
    PROVE  ScheduleInv'
<1> DEFINE C == cur[t]
           u == list'[t]
           dr == IF d THEN DeleteRecord(tree.requests, C) ELSE tree.requests
<1>1. /\ now' = now /\ ctime' = ctime /\ up' = up /\ restarts' = restarts
      /\ accepted' = accepted /\ removed' = removed /\ cut' = cut /\ missed' = missed
      /\ owner' = owner /\ raised' = raised /\ failed' = failed /\ started' = started
      /\ here' = here /\ last' = last /\ removing' = removing
  BY DEF UnlinkStep
<1>2. /\ BaseInv /\ OrderInv /\ KeptInv /\ Thread = {"download", "apply"} /\ TypeOK /\ Known
      /\ Places /\ Chosen
  BY DEF ScheduleInv, BaseInv, Thread
<1>3. /\ pc[t] \in {"finish", "unlink", "aUnlink"}
      /\ pc[t] \in {"finish", "unlink"} => t = "download"
      /\ pc[t] = "aUnlink" => t = "apply" /\ ~d
      /\ d => t = "download" /\ pc[t] = "finish"
      /\ ~d => pc[t] # "finish"
  BY <1>2 DEF UnlinkStep
<1>4. /\ pc'[t] = "look" /\ (\A v \in Thread : v # t => pc'[v] = pc[v])
      /\ pc' \in [Thread -> Place] /\ up /\ \A v \in Thread : pc'[v] # "down"
  BY <1>3, MovesTo DEF Place, UnlinkStep
<1>35. pc[t] \notin Walking /\ here[t] = None
  BY <1>2, <1>3 DEF Places, Walking
<1>5. C \in accepted /\ C \in Request /\ C.id \in Id /\ C.id \in Nat /\ C # None /\ Same(C, C)
  BY <1>2, <1>3, Facts DEF Places, Idle, Now, Late
<1>6. /\ list \in [Thread -> Seq(Request)] /\ list' \in [Thread -> Seq(Request)]
      /\ InOrder(u) /\ ToSet(u) = ToSet(list[t]) \ {C}
      /\ \A v \in Thread : v # t => list'[v] = list[v]
  <2>1. list[t] \in Seq(Request) /\ InOrder(list[t]) /\ C \in ToSet(list[t])
    BY Facts DEF UnlinkStep
  <2>2. u = RemoveFirst(list[t], C) /\ list \in [Thread -> Seq(Request)]
    BY <1>2 DEF UnlinkStep, TypeOK
  <2>3. u \in Seq(Request) /\ InOrder(u) /\ ToSet(u) = ToSet(list[t]) \ {C}
    BY <1>5, <2>1, <2>2, WithoutOne
  <2> QED
    BY <1>2, <2>2, <2>3 DEF UnlinkStep
<1>7. /\ \A v \in Thread : v # t => cur'[v] = cur[v] /\ min_time'[v] = min_time[v]
      /\ d => cur'[t] = None /\ min_time'[t] = 0
      /\ ~d => cur' = cur /\ min_time' = min_time
      /\ cur' \in [Thread -> Request \union {None}] /\ min_time' \in [Thread -> Time]
  <2>1. 0 \in Time
    BY WindowsAssumption DEF Time
  <2> QED
    BY <1>2, <2>1 DEF UnlinkStep, TypeOK
<1>8. /\ dr \in Seq(Request) /\ ToSet(dr) \subseteq ToSet(tree.requests) /\ Apart(dr)
      /\ \A x \in ToSet(tree.requests) : ~Same(x, C) => x \in ToSet(dr)
  <2>1. tree.requests \in Seq(Request) /\ Apart(tree.requests)
    BY Facts
  <2>2. PICK c \in Request : c = C
    BY <1>5
  <2>3. PICK z : z = DeleteRecord(tree.requests, c)
    OBVIOUS
  <2>4. /\ z \in Seq(Request) /\ ToSet(z) \subseteq ToSet(tree.requests) /\ Apart(z)
        /\ \A x \in ToSet(tree.requests) : ~Same(x, c) => x \in ToSet(z)
    BY <2>1, <2>3, RecordDeleted
  <2> QED
    BY <2>1, <2>2, <2>3, <2>4
<1>9. /\ tree \in Tree /\ file \in Tree
      /\ d => tree' = [tree EXCEPT !.requests = dr] /\ file' = tree'
      /\ ~d => tree' = tree /\ file' = file
  BY Facts DEF UnlinkStep, bkp_session_delete_schedule_download
<1>10. /\ tree' \in Tree /\ tree'.applies = tree.applies /\ tree'.done = tree.done
       /\ tree'.requests = dr /\ file' \in Tree
       /\ d => file' = tree'
       /\ ~d => file' = file
  <2>1. CASE d
    <3> HIDE DEF dr
    <3> QED
      BY <1>8, <1>9, <2>1 DEF Tree
  <2>2. CASE ~d
    BY <1>9, <2>2
  <2> QED
    BY <2>1, <2>2
<1> HIDE DEF dr, u
<1>11. /\ t = "download" => C \notin ToSet(tree.requests)
       /\ t = "apply" => C \notin ToSet(tree.applies)
  BY <1>2, <1>3 DEF OrderInv, Unrecorded, Launched, Idle, Now, Late
<1>12. \A v \in Thread : ToSet(list'[v]) \subseteq ToSet(list[v]) /\ Held(v)' \subseteq Held(v)
  <2>1. \A v \in Thread : ToSet(list'[v]) \subseteq ToSet(list[v])
    BY <1>6 DEF u
  <2>2. \A v \in Thread : cur'[v] = cur[v] \/ cur'[v] = None
    BY <1>7
  <2> QED
    BY <1>1, <2>1, <2>2 DEF Held
<1>13. TypeOK'
  BY <1>1, <1>2, <1>4, <1>6, <1>7, <1>10 DEF TypeOK, Place, UnlinkStep
<1>14. Numbered' /\ NotEarly'
  BY <1>1, <1>2 DEF BaseInv, Numbered, NotEarly
<1>15. Fresh'
  <2>1. tree'.done = tree.done /\ (file'.done = tree.done \/ file'.done = file.done)
    BY <1>10
  <2> QED
    BY <1>1, <1>2, <2>1 DEF BaseInv, Fresh
<1>16. Known'
  <2>1. /\ ToSet(tree'.requests) \subseteq accepted /\ ToSet(tree'.applies) \subseteq accepted
        /\ ToSet(file'.requests) \subseteq accepted /\ ToSet(file'.applies) \subseteq accepted
    BY <1>2, <1>8, <1>10, Facts DEF Known
  <2>2. \A v \in Thread : cur'[v] = cur[v] \/ cur'[v] = None
    BY <1>7
  <2> QED
    BY <1>1, <1>2, <1>12, <2>1, <2>2 DEF Known
<1>17. Down' /\ Places'
  <2>1. pc'["download"] \in Idle \union Now => cur'["download"] # None
    BY <1>2, <1>3, <1>4, <1>7 DEF Places, Idle, Now
  <2>2. pc'["apply"] \in Late => cur'["apply"] # None
    BY <1>2, <1>3, <1>4, <1>7 DEF Places, Late
  <2>3. pc'["download"] \notin Late /\ pc'["apply"] \notin Idle \union Now
    BY <1>2, <1>3, <1>4 DEF Places, Idle, Now, Late
  <2>4. ASSUME NEW v \in Thread
        PROVE  /\ pc'[v] \in {"expire", "expiring"} => here[v] # None
               /\ pc'[v] \notin Walking => here[v] = None
    BY <1>2, <1>4, <1>35 DEF Places
  <2>5. Down'
    BY <1>1, <1>4 DEF Down
  <2>6. Places'
    BY <1>1, <1>4, <2>1, <2>2, <2>3, <2>4 DEF Places
  <2> QED
    BY <2>5, <2>6
<1>18. Chosen'
  <2>1. \A v \in Thread : /\ cur'[v] = None => min_time'[v] = 0
                          /\ cur'[v] # None => min_time'[v] \in {cur'[v].start[1], cur'[v].start[2]}
    BY <1>2, <1>7 DEF Chosen
  <2>2. pc'["download"] \in {"launch", "launchNow"} => min_time'["download"] <= now
    BY <1>2, <1>3, <1>4, <1>7 DEF Chosen
  <2> QED
    BY <1>1, <1>2, <2>1, <2>2 DEF Chosen
<1>19. Way'
  <2>1. CASE t = "download"
    BY <1>4, <2>1 DEF Way, Idle, Now
  <2>2. CASE t = "apply"
    <3>1. AtOnce' = AtOnce
      BY <1>2, <1>7, <2>2 DEF AtOnce
    <3> QED
      BY <1>2, <1>4, <2>2, <3>1 DEF BaseInv, Way
  <2> QED
    BY <1>2, <2>1, <2>2
<1>36. ASSUME NEW v \in Thread PROVE Walked(v)'
  <2>1. CASE v = t
    BY <1>1, <1>35, <2>1 DEF Walked
  <2>2. CASE v # t
    BY <1>1, <1>2, <1>6, <1>7, <2>2 DEF Walked, BaseInv
  <2> QED
    BY <2>1, <2>2
<1>20. BaseInv'
  BY <1>13, <1>14, <1>15, <1>16, <1>17, <1>18, <1>19, <1>36 DEF BaseInv
<1>21. \A v \in Thread : InOrder(list'[v])
  BY <1>6, Facts DEF u
<1>22. FirstOfTwins'
  <2>1. \A v \in Thread : cur'[v] = cur[v] \/ cur'[v] = None
    BY <1>7
  <2> QED
    BY <1>2, <1>12, <2>1 DEF OrderInv, FirstOfTwins
<1>37. FirstOver'
  <2>1. \A v \in Thread : pc'[v] \in {"expire", "expiring"} => pc[v] \in {"expire", "expiring"}
    BY <1>4
  <2> QED
    BY <1>1, <1>2, <1>12, <2>1 DEF OrderInv, FirstOver
<1>23. HandedFirst'
  <2>1. ASSUME NEW x \in Held("apply")', NEW y \in Held("download")', Same(x, y)
        PROVE  \/ x.id < y.id
               \/ pc'["download"] = "finish" /\ x = y /\ y = cur'["download"]
    <3>1. x \in Held("apply") /\ y \in Held("download")
      BY <1>2, <1>12
    <3>2. \/ x.id < y.id
          \/ pc["download"] = "finish" /\ x = y /\ y = cur["download"]
      BY <1>2, <2>1, <3>1 DEF OrderInv, HandedFirst
    <3>3. CASE pc["download"] = "finish" /\ t = "download" /\ y = cur["download"]
      <4>1. d /\ C = cur["download"]
        BY <1>3, <3>3
      <4>2. y \notin ToSet(list'["download"]) /\ cur'["download"] = None
        BY <1>6, <1>7, <3>3, <4>1 DEF u
      <4>3. here'["download"] = None /\ y # None
        BY <1>1, <1>5, <1>35, <3>3, <4>1
      <4> QED
        BY <4>2, <4>3 DEF Held
    <3>4. CASE t = "apply"
      BY <1>2, <1>4, <1>7, <3>2, <3>4
    <3> QED
      BY <1>2, <3>2, <3>3, <3>4
  <2> QED
    BY <2>1 DEF HandedFirst
<1>24. Unrecorded'
  <2>1. CASE t = "download"
    <3>1. ToSet(tree'.requests) \subseteq ToSet(tree.requests)
      BY <1>8, <1>10
    <3> QED
      BY <1>1, <1>2, <1>4, <1>7, <1>10, <2>1, <3>1 DEF OrderInv, Unrecorded, Launched, Idle, Now
  <2>2. CASE t = "apply"
    <3>1. dr = tree.requests
      BY <1>2, <1>3, <2>2 DEF dr
    <3> QED
      BY <1>1, <1>2, <1>4, <1>7, <1>10, <2>2, <3>1 DEF OrderInv, Unrecorded, Late
  <2> QED
    BY <1>2, <2>1, <2>2
<1>25. Listed'
  <2>1. /\ ToSet(tree.requests) \subseteq ToSet(list["download"])
        /\ ToSet(tree.applies) \subseteq ToSet(list["apply"])
    BY <1>2, <1>4 DEF OrderInv, Listed
  <2>2. CASE t = "download"
    <3>1. ToSet(list'["download"]) = ToSet(list["download"]) \ {C} /\ list'["apply"] = list["apply"]
      BY <1>2, <1>6, <2>2 DEF u
    <3> QED
      BY <1>8, <1>10, <1>11, <2>1, <2>2, <3>1 DEF Listed
  <2>3. CASE t = "apply"
    <3>1. ToSet(list'["apply"]) = ToSet(list["apply"]) \ {C} /\ list'["download"] = list["download"]
      BY <1>2, <1>6, <2>3 DEF u
    <3> QED
      BY <1>8, <1>10, <1>11, <2>1, <2>3, <3>1 DEF Listed
  <2> QED
    BY <1>2, <2>2, <2>3
<1>26. Books(tree)' /\ Books(file)'
  <2>1. Books(tree')
    BY <1>2, <1>8, <1>10 DEF OrderInv, Books
  <2>2. Books(file')
    BY <1>2, <1>10, <2>1 DEF OrderInv
  <2> QED
    BY <1>1, <2>1, <2>2 DEF Books
<1>27. Settled'
  <2>1. CASE t = "download"
    <3>1. \A x \in ToSet(list'["download"]) : x.id \in tree'.done => x.id \in missed
      BY <1>2, <1>6, <1>10, <2>1 DEF OrderInv, Settled, u
    <3>2. CASE d
      BY <1>1, <1>7, <2>1, <3>1, <3>2 DEF Settled
    <3>3. CASE ~d
      <4>1. AtOnce' = AtOnce /\ ~AtOnce
        BY <1>2, <1>3, <1>7, <2>1, <3>3 DEF AtOnce, BaseInv, Way, Idle
      <4> QED
        BY <1>1, <3>1, <4>1 DEF Settled
    <3> QED
      BY <3>2, <3>3
  <2>2. CASE t = "apply"
    <3>1. AtOnce' = AtOnce
      BY <1>2, <1>7, <2>2 DEF AtOnce
    <3> QED
      BY <1>1, <1>2, <1>4, <1>6, <1>7, <1>10, <2>2, <3>1 DEF OrderInv, Settled
  <2> QED
    BY <1>2, <2>1, <2>2
<1>28. OrderInv'
  BY <1>21, <1>22, <1>23, <1>24, <1>25, <1>26, <1>27, <1>37 DEF OrderInv
<1>29. (file'.done = tree.done \/ file'.done = file.done) /\ tree'.done = tree.done
  BY <1>10
<1>30. \A i : Reported(i) => Reported(i)'
  BY <1>1, <1>2, <1>29 DEF Reported, KeptInv, Ended
<1>31. Ended'
  <2>1. pc'["download"] \in Told => Reported(cur["download"].id)'
    <3>1. CASE t = "download"
      BY <1>4, <3>1 DEF Told, Fetched
    <3>2. CASE t = "apply"
      <4>1. cur'["download"] = cur["download"] /\ pc'["download"] = pc["download"]
        BY <1>2, <1>4, <1>7, <3>2
      <4>2. pc["download"] \in Told => Reported(cur["download"].id)
        BY <1>2 DEF KeptInv, Ended, Told, Fetched
      <4> QED
        BY <1>1, <1>2, <1>29, <4>1, <4>2 DEF Reported, KeptInv, Ended
    <3> QED
      BY <1>2, <3>1, <3>2
  <2>2. pc'["apply"] \in ToldLate => Reported(cur["apply"].id)'
    <3>1. CASE t = "apply"
      BY <1>4, <3>1 DEF ToldLate
    <3>2. CASE t = "download"
      <4>1. cur'["apply"] = cur["apply"] /\ pc'["apply"] = pc["apply"]
        BY <1>2, <1>4, <1>7, <3>2
      <4>2. pc["apply"] \in ToldLate => Reported(cur["apply"].id)
        BY <1>2 DEF KeptInv, Ended, ToldLate
      <4> QED
        BY <1>1, <1>2, <1>29, <4>1, <4>2 DEF Reported, KeptInv, Ended
    <3> QED
      BY <1>2, <3>1, <3>2
  <2>3. pc'["download"] = "finish" =>
          \/ Reported(cur["download"].id)' \/ cur'["download"].id \in removed
          \/ cur'["download"] \in ToSet(list'["apply"])
          \/ raised[cur'["download"].id] > 0
    <3>1. CASE t = "download"
      BY <1>4, <3>1
    <3>2. CASE t = "apply"
      <4>1. cur' = cur /\ Reported(C.id) /\ pc[t] = "aUnlink"
        BY <1>2, <1>3, <1>7, <3>2 DEF KeptInv, Ended
      <4>2. pc["download"] = "finish" =>
              \/ Reported(cur["download"].id) \/ cur["download"].id \in removed
              \/ cur["download"] \in ToSet(list["apply"])
              \/ raised[cur["download"].id] > 0
        BY <1>2 DEF KeptInv, Ended
      <4>3. \A x \in ToSet(list["apply"]) : x \in ToSet(list'["apply"]) \/ x = C
        BY <1>6, <3>2 DEF u
      <4>4. Reported(cur["download"].id) \/ cur["download"] = C => Reported(cur["download"].id)'
        BY <1>1, <1>2, <1>29, <4>1 DEF Reported, KeptInv, Ended
      <4> QED
        BY <1>2, <1>4, <3>2, <4>1, <4>2, <4>3, <4>4
    <3> QED
      BY <1>2, <3>1, <3>2
  <2>4. \A i \in file'.done : i \in tree'.done \/ i \in failed
    BY <1>2, <1>29 DEF KeptInv, Ended
  <2>5. pc'["download"] = "faultNow" => cur'["download"].id \in failed
    BY <1>2, <1>4, <1>7 DEF KeptInv, Ended
  <2> QED
    BY <1>1, <2>1, <2>2, <2>3, <2>4, <2>5 DEF Ended, Reported, Told, Fetched, ToldLate
<1>32. InFlight \subseteq InFlight'
  <2>1. InFlight' = {cur'[v].id : v \in {x \in Thread : pc'[x] \in Flying}}
    BY DEF InFlight, Flying
  <2>2. \A v \in Thread : pc[v] \in Flying => pc'[v] \in Flying /\ cur'[v] = cur[v]
    <3>1. pc[t] \notin Flying
      BY <1>3 DEF Flying
    <3> QED
      BY <1>4, <1>7, <3>1
  <2> QED
    BY <2>1, <2>2, InFlightIs
<1>33. ASSUME NEW r \in accepted' \ Twins' PROVE Kept(r)'
  <2>1. r \in accepted \ Twins
    BY <1>1, <1>33 DEF Twins
  <2>2. Kept(r) /\ (Same(r, C) => r = C)
    BY <1>2, <1>5, <2>1, Facts DEF KeptInv
  <2>3. CASE Excused(r.id)
    BY <1>1, <2>3 DEF Kept, Excused
  <2>4. CASE ~Excused(r.id)
    <3>1. OnRecord(tree', r) \/ r.id \in InFlight'
      <4>1. OnRecord(tree, r) \/ r.id \in InFlight
        BY <2>2, <2>4 DEF Kept
      <4>2. r \in ToSet(tree.requests) => r \in ToSet(dr)
        <5>1. CASE t = "download"
          BY <1>8, <1>11, <2>2, <5>1
        <5>2. CASE t = "apply"
          BY <1>2, <1>3, <5>2 DEF dr
        <5> QED
          BY <1>2, <5>1, <5>2
      <4> QED
        BY <1>10, <1>32, <4>1, <4>2 DEF OnRecord
    <3>2. OnRecord(file', r) \/ r.id \in InFlight'
      BY <1>10, <1>32, <2>2, <2>4, <3>1 DEF Kept
    <3>3. r.id \in file.done => r.id \in file'.done
      BY <1>2, <1>29, <2>4 DEF KeptInv, Ended, Excused
    <3>4. r = C => \/ r.id \in file'.done \/ r \in ToSet(list'["apply"]) \/ raised[r.id] > 0
      <4>1. ASSUME r = C PROVE Reported(r.id) \/ r \in ToSet(list'["apply"]) \/ raised[r.id] > 0
        <5>1. CASE pc[t] \in {"unlink", "aUnlink"}
          BY <1>2, <1>3, <4>1, <5>1 DEF KeptInv, Ended
        <5>2. CASE pc[t] = "finish"
          <6>1. t = "download"
            BY <1>3, <5>2
          <6>2. \/ Reported(r.id) \/ r.id \in removed \/ r \in ToSet(list["apply"]) \/ raised[r.id] > 0
            BY <1>2, <4>1, <5>2, <6>1 DEF KeptInv, Ended
          <6>3. list'["apply"] = list["apply"]
            BY <1>2, <1>6, <6>1
          <6> QED
            BY <2>4, <6>2, <6>3 DEF Excused
        <5> QED
          BY <1>3, <5>1, <5>2
      <4> QED
        BY <2>4, <3>3, <4>1 DEF Reported, Excused
    <3>5. \/ r \in ToSet(list'["download"]) \/ r \in ToSet(list'["apply"])
          \/ raised[r.id] > 0 \/ r.id \in file'.done
      <4>1. \/ r \in ToSet(list["download"]) \/ r \in ToSet(list["apply"])
            \/ raised[r.id] > 0 \/ r.id \in file.done
        BY <1>4, <2>2, <2>4 DEF Kept
      <4>2. \A v \in Thread : r \in ToSet(list[v]) => r \in ToSet(list'[v]) \/ r = C
        BY <1>6 DEF u
      <4> QED
        BY <1>2, <3>3, <3>4, <4>1, <4>2
    <3> QED
      BY <1>1, <3>1, <3>2, <3>5 DEF Kept, OnRecord
  <2> QED
    BY <2>3, <2>4
<1>34. Mutexes'
  <2>1. LikeDownload(pc["download"], pc'["download"]) /\ LikeApply(pc["apply"], pc'["apply"])
    <3>1. CASE t = "download"
      <4>1. /\ pc["download"] \notin Holding \union HoldingApply \union HoldingSchedule
            /\ pc'["download"] \notin Holding \union HoldingApply \union HoldingSchedule
        BY <1>3, <1>4, <3>1 DEF Holding, HoldingApply, HoldingSchedule, Idle
      <4> QED
        BY <1>2, <1>4, <3>1, <4>1 DEF LikeDownload, LikeApply
    <3>2. CASE t = "apply"
      <4>1. /\ pc["apply"] \notin HoldingLate \union ScheduleLate \union {"expiring"}
            /\ pc'["apply"] \notin HoldingLate \union ScheduleLate \union {"expiring"}
        BY <1>2, <1>3, <1>4, <3>2 DEF HoldingLate, ScheduleLate, Late
      <4> QED
        BY <1>2, <1>4, <3>2, <4>1 DEF LikeDownload, LikeApply
    <3> QED
      BY <1>2, <3>1, <3>2
  <2> QED
    BY <1>1, <1>13, <2>1, MutexesStay
<1> QED
  BY <1>20, <1>28, <1>31, <1>33, <1>34 DEF ScheduleInv, KeptInv

LEMMA UnlinkIdleKeeps ==
    ASSUME ScheduleInv, Still, UnlinkIdle
    PROVE  ScheduleInv'
<1>1. "download" \in Thread /\ count \in Int /\ FALSE \in BOOLEAN
  BY DEF Thread, ScheduleInv, BaseInv, TypeOK
<1>2. UnlinkStep("download", FALSE)
  BY <1>1 DEF UnlinkStep, UnlinkIdle, Still
<1> QED
  BY <1>1, <1>2, UnlinkKeeps

LEMMA FinishNowKeeps ==
    ASSUME ScheduleInv, FinishNow
    PROVE  ScheduleInv'
<1>1. "download" \in Thread /\ count \in Int /\ TRUE \in BOOLEAN
  BY DEF Thread, ScheduleInv, BaseInv, TypeOK
<1>2. UnlinkStep("download", TRUE)
  BY <1>1 DEF UnlinkStep, FinishNow
<1> QED
  BY <1>1, <1>2, UnlinkKeeps

LEMMA RunLateKeeps ==
    ASSUME ScheduleInv, Still, RunLate
    PROVE  ScheduleInv'
<1>1. "apply" \in Thread /\ count \in Int /\ FALSE \in BOOLEAN
  BY DEF Thread, ScheduleInv, BaseInv, TypeOK
<1>2. CASE /\ UNCHANGED <<list, count, tree, file, raised, failed, started>>
           /\ \/ pc["apply"] = "aLock" /\ Take("send", "apply") /\ Goto("apply", "aLaunch")
              \/ pc["apply"] = "aApply" /\ Goto("apply", "aRelease") /\ UNCHANGED owner
              \/ /\ pc["apply"] = "aRelease" /\ Goto("apply", "aUnlink")
                 /\ owner' = [owner EXCEPT !["send"] = "none", !["schedule"] = "none"]
  BY <1>1, <1>2, RunOnKeeps
<1>3. CASE /\ pc["apply"] = "aLaunch" /\ Take("schedule", "apply")
           /\ tree' = bkp_session_delete_apply_schedule_download(tree, cur["apply"])
           /\ file' = tree' /\ Goto("apply", "aSaved")
           /\ UNCHANGED <<list, count, raised, failed, started>>
  BY <1>3, LateLaunchKeeps
<1>4. CASE /\ pc["apply"] = "aSaved" /\ Recorded("apply") /\ Goto("apply", "aApply")
           /\ UNCHANGED <<owner, list, count, raised, failed, started>>
  BY <1>1, <1>4, RecordedKeeps
<1>5. CASE /\ pc["apply"] = "aApply" /\ ApplyReport("apply") /\ Goto("apply", "aRelease")
           /\ UNCHANGED <<owner, list, count, failed, started>>
  BY <1>1, <1>5, ApplyReportKeeps
<1>6. CASE /\ pc["apply"] = "aUnlink" /\ cur["apply"] \in ToSet(list["apply"])
           /\ list' = [list EXCEPT !["apply"] = RemoveFirst(@, cur["apply"])]
           /\ Goto("apply", "look")
           /\ UNCHANGED <<owner, count, tree, file, raised, failed, started>>
  <2>1. UnlinkStep("apply", FALSE)
    BY <1>1, <1>6 DEF UnlinkStep, Still
  <2> QED
    BY <1>1, <2>1, UnlinkKeeps
<1> QED
  BY <1>2, <1>3, <1>4, <1>5, <1>6 DEF RunLate

-----------------------------------------------------------------------------
(***************************************************************************)
(* A turn of a loop: what is over is reported, and a window is chosen.     *)
(***************************************************************************)
(* The entry behind the one at hand is the next of the list.               *)
LEMMA FollowerIs ==
    ASSUME ScheduleInv, NEW t \in Thread, here[t] \in ToSet(list[t])
    PROVE  \E p \in 1 .. Len(list[t]) :
             /\ list[t][p] = here[t]
             /\ \A i \in 1 .. Len(list[t]) : list[t][i] = here[t] => i = p
             /\ p < Len(list[t]) => /\ p + 1 \in 1 .. Len(list[t])
                                    /\ Follower(t) = list[t][p + 1]
             /\ ~(p < Len(list[t])) => Follower(t) = None
<1> DEFINE s == list[t]
           I == {i \in 1 .. Len(s) : s[i] = here[t]}
<1>1. s \in Seq(Request) /\ InOrder(s)
  BY Facts
<1>2. /\ Len(s) \in Nat /\ DOMAIN s = 1 .. Len(s) /\ I \in SUBSET Nat
      /\ \A x : x \in ToSet(s) <=> \E i \in 1 .. Len(s) : s[i] = x
      /\ Single(s)
  BY <1>1, ElementsOf, OrderedIsSingle
<1>3. I # {}
  BY <1>2
<1>4. PICK p \in 1 .. Len(s) : p = Min(I) /\ s[p] = here[t]
  BY <1>2, <1>3, MinNat
<1>5. Position(t) = p
  BY <1>3, <1>4 DEF Position, SelectInSeq
<1>6. \A i \in 1 .. Len(s) : s[i] = here[t] => i = p
  BY <1>2, <1>4 DEF Single
<1>7. p < Len(s) => p + 1 \in 1 .. Len(s) /\ Follower(t) = s[p + 1]
  BY <1>2, <1>5 DEF Follower
<1>8. ~(p < Len(s)) => Follower(t) = None
  BY <1>5 DEF Follower
<1> QED
  BY <1>4, <1>6, <1>7, <1>8

LEMMA FollowerListed ==
    ASSUME ScheduleInv, NEW t \in Thread, here[t] \in ToSet(list[t])
    PROVE  Follower(t) = None \/ Follower(t) \in ToSet(list[t])
<1>1. list[t] \in Seq(Request)
  BY Facts
<1>2. \A x : x \in ToSet(list[t]) <=> \E i \in 1 .. Len(list[t]) : list[t][i] = x
  BY <1>1, ElementsOf
<1> QED
  BY <1>2, FollowerIs

(* Steps of a walk that report nothing: the thread comes to an entry,      *)
(* chooses it or not, and leaves the loop with a decision.                 *)
WalkedTo(t) ==
    /\ \/ pc'[t] \in Waits \union {"visit", "expire"}
       \/ cur'[t] # None /\ t = "apply" /\ pc'[t] = "aLock"
       \/ /\ cur'[t] # None /\ t = "download" /\ pc'[t] \in {"launch", "launchNow"}
          /\ (pc'[t] = "launch" <=> ~AtOnce') /\ min_time'[t] <= now
    /\ pc'[t] \notin {"visit", "expire"} => here'[t] = None
    /\ pc'[t] = "expire" => /\ here'[t] # None
                            /\ \A y \in ToSet(list[t]) : Same(y, here'[t]) => here'[t].id <= y.id

WalkChoice(t) ==
    \/ cur'[t] = cur[t] /\ min_time'[t] = min_time[t]
    \/ /\ cur'[t] \in ToSet(list[t]) /\ min_time'[t] \in {cur'[t].start[1], cur'[t].start[2]}
       /\ \A y \in ToSet(list[t]) : Same(y, cur'[t]) => cur'[t].id <= y.id

WalkStep(t) ==
    /\ UNCHANGED <<now, list, count, owner, removing, tree, file, up, restarts>>
    /\ UNCHANGED histVars
    /\ pc[t] \in {"look", "visit"} /\ pc' \in [Thread -> Place]
    /\ \A v \in Thread : v # t => /\ pc'[v] = pc[v] /\ cur'[v] = cur[v] /\ here'[v] = here[v]
                                  /\ min_time'[v] = min_time[v] /\ ctime'[v] = ctime[v]
    /\ cur' \in [Thread -> Request \union {None}] /\ min_time' \in [Thread -> Time]
    /\ ctime' \in [Thread -> Time] /\ ctime'[t] <= now
    /\ here' \in [Thread -> Request \union {None}] /\ last' \in [Thread -> BOOLEAN]
    /\ here'[t] # None => here'[t] \in ToSet(list[t])
    /\ WalkChoice(t)
    /\ WalkedTo(t)

LEMMA WalkStepKeeps ==
    ASSUME ScheduleInv, NEW t \in Thread, WalkStep(t), Walked(t)'
    PROVE  ScheduleInv'
<1>1. /\ now' = now /\ list' = list /\ count' = count /\ owner' = owner /\ removing' = removing
      /\ tree' = tree /\ file' = file /\ up' = up /\ restarts' = restarts
      /\ accepted' = accepted /\ removed' = removed /\ raised' = raised /\ failed' = failed
      /\ cut' = cut /\ missed' = missed /\ started' = started
  BY DEF WalkStep, histVars
<1>2. /\ BaseInv /\ OrderInv /\ KeptInv /\ Thread = {"download", "apply"} /\ TypeOK /\ Known
      /\ Places /\ Chosen /\ Way /\ FirstOfTwins /\ FirstOver /\ HandedFirst /\ Unrecorded
      /\ Listed /\ Settled /\ \A v \in Thread : Walked(v)
  BY DEF ScheduleInv, BaseInv, OrderInv, Thread
<1>3. /\ pc[t] \in {"look", "visit"} /\ pc' \in [Thread -> Place] /\ up
      /\ \A v \in Thread : v # t => /\ pc'[v] = pc[v] /\ cur'[v] = cur[v] /\ here'[v] = here[v]
                                    /\ min_time'[v] = min_time[v] /\ ctime'[v] = ctime[v]
  BY Running DEF WalkStep
<1>4. /\ pc'[t] \in Waits \union {"visit", "expire", "aLock", "launch", "launchNow"}
      /\ pc'[t] = "aLock" => t = "apply" /\ cur'[t] # None
      /\ pc'[t] \in {"launch", "launchNow"} =>
           t = "download" /\ cur'[t] # None /\ (pc'[t] = "launch" <=> ~AtOnce') /\ min_time'[t] <= now
  BY DEF WalkStep, WalkedTo, Waits
<1>5. /\ here'[t] # None => here'[t] \in ToSet(list[t])
      /\ pc'[t] \notin {"visit", "expire"} => here'[t] = None
      /\ pc'[t] = "expire" => here'[t] # None
  BY DEF WalkStep, WalkedTo
<1>6. WalkChoice(t)
  BY DEF WalkStep
<1>7. \A v \in Thread : ToSet(list[v]) \subseteq accepted /\ \A x \in accepted : x # None
  BY Facts
<1>8. \A v \in Thread : cur'[v] = cur[v] \/ cur'[v] \in ToSet(list[v])
  BY <1>3, <1>6 DEF WalkChoice
<1>9. \A v \in Thread : here'[v] = here[v] \/ here'[v] = None \/ here'[v] \in ToSet(list[v])
  BY <1>3, <1>5
<1>10. TypeOK'
  BY <1>1, <1>2, <1>3 DEF WalkStep, TypeOK, Place
<1>11. Numbered' /\ NotEarly' /\ Fresh'
  BY <1>1, <1>2 DEF BaseInv, Numbered, NotEarly, Fresh
<1>12. Known'
  BY <1>1, <1>2, <1>7, <1>8, <1>9 DEF Known
<1>13. Down'
  BY <1>1, <1>3 DEF Down
<1>14. Places'
  <2>1. /\ pc'["download"] \notin Late /\ pc'["apply"] \notin Idle \union Now
        /\ pc'["download"] \in Idle \union Now => cur'["download"] # None
        /\ pc'["apply"] \in Late => cur'["apply"] # None
    <3>1. CASE t = "download"
      BY <1>2, <1>3, <1>4, <3>1 DEF Places, Late, Idle, Now, Waits
    <3>2. CASE t = "apply"
      BY <1>2, <1>3, <1>4, <3>2 DEF Places, Late, Idle, Now, Waits
    <3> QED
      BY <1>2, <3>1, <3>2
  <2>2. \A v \in Thread : pc'[v] # "down"
    BY <1>2, <1>3, <1>4 DEF Places, Waits
  <2>3. ASSUME NEW v \in Thread
        PROVE  /\ pc'[v] \in {"expire", "expiring"} => here'[v] # None
               /\ pc'[v] \notin Walking => here'[v] = None
    <3>1. CASE v = t
      BY <1>4, <1>5, <3>1 DEF Walking, Waits
    <3>2. CASE v # t
      BY <1>2, <1>3, <3>2 DEF Places
    <3> QED
      BY <3>1, <3>2
  <2> QED
    BY <2>1, <2>2, <2>3 DEF Places
<1>15. Chosen'
  <2>1. \A v \in Thread : ctime'[v] <= now
    BY <1>2, <1>3 DEF WalkStep, Chosen
  <2>2. \A v \in Thread : /\ cur'[v] = None => min_time'[v] = 0
                          /\ cur'[v] # None => min_time'[v] \in {cur'[v].start[1], cur'[v].start[2]}
    BY <1>2, <1>3, <1>6, <1>7 DEF WalkChoice, Chosen
  <2>3. pc'["download"] \in {"launch", "launchNow"} => min_time'["download"] <= now
    BY <1>2, <1>3, <1>4 DEF Chosen
  <2> QED
    BY <1>1, <2>1, <2>2, <2>3 DEF Chosen
<1>16. t = "apply" => (AtOnce' <=> AtOnce)
  BY <1>2, <1>3 DEF AtOnce
<1>17. Way'
  <2>1. CASE t = "download"
    <3>1. pc'["download"] \in Idle => pc'["download"] = "launch"
      BY <1>4, <2>1 DEF Idle, Waits
    <3>2. pc'["download"] \in Now => pc'["download"] = "launchNow"
      BY <1>4, <2>1 DEF Now, Waits
    <3> QED
      BY <1>4, <2>1, <3>1, <3>2 DEF Way
  <2>2. CASE t = "apply"
    BY <1>2, <1>3, <1>16, <2>2 DEF Way
  <2> QED
    BY <1>2, <2>1, <2>2
<1>18. ASSUME NEW v \in Thread PROVE Walked(v)'
  <2>1. CASE v # t
    BY <1>1, <1>2, <1>3, <2>1 DEF Walked
  <2> QED
    BY <2>1
<1>19. BaseInv'
  BY <1>10, <1>11, <1>12, <1>13, <1>14, <1>15, <1>17, <1>18 DEF BaseInv
<1>20. \A v \in Thread : InOrder(list'[v])
  BY <1>1, <1>2 DEF OrderInv
<1>21. FirstOfTwins'
  BY <1>1, <1>2, <1>3, <1>6 DEF FirstOfTwins, WalkChoice
<1>22. FirstOver'
  <2>1. pc'[t] # "expiring"
    BY <1>4 DEF Waits
  <2> QED
    BY <1>1, <1>2, <1>3, <2>1 DEF FirstOver, WalkStep, WalkedTo
<1>23. \A v \in Thread : Held(v)' \subseteq Held(v)
  BY <1>1, <1>8, <1>9 DEF Held
<1>24. HandedFirst'
  <2>1. ASSUME NEW x \in Held("apply")', NEW y \in Held("download")', Same(x, y)
        PROVE  \/ x.id < y.id
               \/ pc'["download"] = "finish" /\ x = y /\ y = cur'["download"]
    <3>1. x \in Held("apply") /\ y \in Held("download")
      BY <1>2, <1>23
    <3>2. \/ x.id < y.id
          \/ pc["download"] = "finish" /\ x = y /\ y = cur["download"]
      BY <1>2, <2>1, <3>1 DEF HandedFirst
    <3> QED
      BY <1>2, <1>3, <3>2
  <2> QED
    BY <2>1 DEF HandedFirst
<1>25. Unrecorded'
  <2>1. CASE t = "download"
    <3>1. pc'["download"] \notin Launched /\ pc'["download"] # "expiring"
      BY <1>4, <2>1 DEF Launched, Idle, Now, Waits
    <3> QED
      BY <1>1, <1>2, <1>3, <2>1, <3>1 DEF Unrecorded
  <2>2. CASE t = "apply"
    <3>1. pc'["apply"] \notin Late \ {"aLock", "aLaunch"} /\ pc'["apply"] # "expiring"
      BY <1>4, <2>2 DEF Late, Waits
    <3> QED
      BY <1>1, <1>2, <1>3, <2>2, <3>1 DEF Unrecorded
  <2> QED
    BY <1>2, <2>1, <2>2
<1>26. Books(tree)' /\ Books(file)' /\ Listed'
  BY <1>1, <1>2 DEF OrderInv, Books, Listed
<1>27. Settled'
  <2>1. CASE t = "download"
    <3>1. pc["download"] \notin Fetched
      BY <1>3, <2>1 DEF Fetched
    <3>2. \A x \in ToSet(list["download"]) : x.id \in tree.done => x.id \in missed
      BY <1>2, <3>1 DEF Settled
    <3>3. cur["download"] # None /\ cur["download"].id \in tree.done =>
             cur["download"].id \in missed \/ ~AtOnce
      BY <1>2, <3>1 DEF Settled
    <3>4. CASE cur'["download"] = cur["download"] /\ min_time'["download"] = min_time["download"]
      <4>1. AtOnce' <=> AtOnce
        BY <3>4 DEF AtOnce
      <4> QED
        BY <1>1, <3>2, <3>3, <3>4, <4>1 DEF Settled
    <3>5. CASE cur'["download"] \in ToSet(list["download"])
      BY <1>1, <3>2, <3>5 DEF Settled
    <3> QED
      BY <1>6, <2>1, <3>4, <3>5 DEF WalkChoice
  <2>2. CASE t = "apply"
    BY <1>1, <1>2, <1>3, <1>16, <2>2 DEF Settled
  <2> QED
    BY <1>2, <2>1, <2>2
<1>28. OrderInv'
  BY <1>20, <1>21, <1>22, <1>24, <1>25, <1>26, <1>27 DEF OrderInv
<1>29. Ended'
  <2>1. Ended /\ \A i : Reported(i)' <=> Reported(i)
    BY <1>1, <1>2 DEF KeptInv, Reported
  <2>2. CASE t = "download"
    <3>1. pc'["download"] \notin Fetched
      BY <1>4, <2>2 DEF Fetched, Waits
    <3> QED
      BY <1>1, <1>2, <1>3, <2>1, <2>2, <3>1 DEF Ended, Fetched
  <2>3. CASE t = "apply"
    <3>1. pc'["apply"] \notin ToldLate
      BY <1>4, <2>3 DEF ToldLate, Waits
    <3> QED
      BY <1>1, <1>2, <1>3, <2>1, <2>3, <3>1 DEF Ended, ToldLate
  <2> QED
    BY <1>2, <2>2, <2>3
<1>30. InFlight \subseteq InFlight'
  <2>1. InFlight' = {cur'[v].id : v \in {x \in Thread : pc'[x] \in Flying}}
    BY DEF InFlight, Flying
  <2>2. \A v \in Thread : pc[v] \in Flying => pc'[v] \in Flying /\ cur'[v] = cur[v]
    BY <1>3 DEF Flying
  <2> QED
    BY <2>1, <2>2, InFlightIs
<1>31. ASSUME NEW r \in accepted' \ Twins' PROVE Kept(r)'
  <2>1. r \in accepted \ Twins
    BY <1>1, <1>31 DEF Twins
  <2>2. Kept(r)
    BY <1>2, <2>1 DEF KeptInv
  <2> QED
    BY <1>1, <1>30, <2>2 DEF Kept, Excused, OnRecord
<1>32. Mutexes'
  <2>1. LikeDownload(pc["download"], pc'["download"]) /\ LikeApply(pc["apply"], pc'["apply"])
    <3>1. CASE t = "download"
      <4>1. /\ pc["download"] \notin Holding \union HoldingApply \union HoldingSchedule
            /\ pc'["download"] \notin Holding \union HoldingApply \union HoldingSchedule
        BY <1>3, <1>4, <3>1 DEF Holding, HoldingApply, HoldingSchedule, Idle, Waits
      <4> QED
        BY <1>2, <1>3, <3>1, <4>1 DEF LikeDownload, LikeApply
    <3>2. CASE t = "apply"
      <4>1. /\ pc["apply"] \notin HoldingLate \union ScheduleLate \union {"expiring"}
            /\ pc'["apply"] \notin HoldingLate \union ScheduleLate \union {"expiring"}
        BY <1>3, <1>4, <3>2 DEF HoldingLate, ScheduleLate, Late, Waits
      <4> QED
        BY <1>2, <1>3, <3>2, <4>1 DEF LikeDownload, LikeApply
    <3> QED
      BY <1>2, <3>1, <3>2
  <2> QED
    BY <1>1, <1>10, <2>1, MutexesStay
<1> QED
  BY <1>19, <1>28, <1>29, <1>31, <1>32 DEF ScheduleInv, KeptInv

LEMMA LookKeeps ==
    ASSUME ScheduleInv, NEW t \in Thread, Look(t),
           UNCHANGED <<now, list, count, owner, removing, tree, file, up, restarts>>,
           UNCHANGED histVars
    PROVE  ScheduleInv'
<1>1. /\ TypeOK /\ Places /\ now \in Time
      /\ list[t] \in Seq(Request) /\ InOrder(list[t])
  BY Facts, WindowsAssumption DEF ScheduleInv, BaseInv, TypeOK, Time
<1>2. PICK q \in {"towait", "visit"} :
        /\ pc[t] = "look" /\ Goto(t, q) /\ UNCHANGED <<cur, min_time, last>>
        /\ ctime' = [ctime EXCEPT ![t] = now]
        /\ q = "towait" => here' = here
        /\ q = "visit" => list[t] # <<>> /\ here' = [here EXCEPT ![t] = list[t][1]]
  BY DEF Look
<1>3. /\ pc'[t] = q /\ (\A v \in Thread : v # t => pc'[v] = pc[v]) /\ pc' \in [Thread -> Place]
  BY <1>2, MovesTo DEF Place, Walking
<1>4. here[t] = None
  BY <1>1, <1>2 DEF Places, Walking
<1>5. /\ Len(list[t]) \in Nat /\ DOMAIN list[t] = 1 .. Len(list[t]) /\ Single(list[t])
      /\ q = "visit" => Len(list[t]) > 0
  BY <1>1, <1>2, ElementsOf, OrderedIsSingle, EmptySeq
<1>6. q = "visit" => /\ 1 \in DOMAIN list[t] /\ list[t][1] \in ToSet(list[t])
                     /\ list[t][1] \in Request
  BY <1>1, <1>5, ElementsOf
<1>7. /\ here' \in [Thread -> Request \union {None}]
      /\ q = "visit" => here'[t] = list[t][1]
      /\ q = "towait" => here'[t] = None
      /\ \A v \in Thread : v # t => here'[v] = here[v]
  BY <1>1, <1>2, <1>4, <1>6 DEF TypeOK
<1>8. WalkStep(t)
  <2>1. WalkedTo(t)
    BY <1>2, <1>3, <1>7 DEF WalkedTo, Waits
  <2>2. WalkChoice(t)
    BY <1>2 DEF WalkChoice
  <2>3. ctime' \in [Thread -> Time] /\ ctime'[t] <= now
        /\ \A v \in Thread : v # t => ctime'[v] = ctime[v]
    BY <1>1, <1>2 DEF TypeOK, Time
  <2> QED
    BY <1>1, <1>2, <1>3, <1>6, <1>7, <2>1, <2>2, <2>3 DEF WalkStep, TypeOK
<1>9. Walked(t)'
  <2>1. ASSUME here'[t] # None, NEW i \in DOMAIN list[t], NEW j \in DOMAIN list[t], i < j,
               list[t][j] = here'[t]
        PROVE  FALSE
    <3>1. j = 1
      BY <1>2, <1>5, <1>6, <1>7, <2>1 DEF Single
    <3> QED
      BY <1>5, <2>1, <3>1
  <2> QED
    BY <2>1 DEF Walked
<1> QED
  BY <1>8, <1>9, WalkStepKeeps

(* When a window begins, for entries of a list.                            *)
LEMMA BeginsIs ==
    ASSUME ScheduleInv, NEW t \in Thread, NEW x \in ToSet(list[t])
    PROVE  \A c : /\ Begins(x, c) \in Time /\ Begins(x, c) \in Nat /\ Begins(x, c) # 0
                  /\ Begins(x, c) \in {x.start[1], x.start[2]}
                  /\ \A y \in ToSet(list[t]) : Same(y, x) =>
                        (Over(y, c) <=> Over(x, c)) /\ Begins(y, c) = Begins(x, c)
<1>1. x \in accepted /\ x \in Request /\ ToSet(list[t]) \subseteq Request
  BY Facts
<1>2. /\ 1 <= x.start[1] /\ x.start[1] <= x.end[1] /\ x.end[1] <= x.start[2]
  BY <1>1 DEF ScheduleInv, BaseInv, Numbered
<1>3. /\ x.start[1] \in Time /\ x.start[2] \in Time /\ x.start[1] \in Nat /\ x.start[2] \in Nat
      /\ x.end[1] \in Nat
  BY <1>1, RequestFields
<1>4. x.start[1] # 0 /\ x.start[2] # 0
  BY <1>2, <1>3
<1>5. ASSUME NEW c
      PROVE  /\ Begins(x, c) \in Time /\ Begins(x, c) \in Nat /\ Begins(x, c) # 0
             /\ Begins(x, c) \in {x.start[1], x.start[2]}
  BY <1>3, <1>4 DEF Begins
<1> QED
  BY <1>1, <1>5, Twinned

LEMMA VisitKeeps ==
    ASSUME ScheduleInv, NEW t \in Thread, Visit(t),
           UNCHANGED <<now, list, count, owner, removing, tree, file, up, restarts>>,
           UNCHANGED histVars
    PROVE  ScheduleInv'
<1> DEFINE s == list[t]
           H == here[t]
           c == ctime[t]
           m == min_time[t]
           F == Follower(t)
<1>1. /\ TypeOK /\ Places /\ Chosen /\ Walked(t) /\ s \in Seq(Request) /\ InOrder(s)
      /\ c <= now /\ m \in Nat
  <2>1. TypeOK /\ Places /\ Chosen /\ Walked(t)
    BY DEF ScheduleInv, BaseInv
  <2>2. m \in Time /\ Time \subseteq Nat /\ c <= now
    BY <2>1, WindowsAssumption DEF TypeOK, Chosen, Time
  <2> QED
    BY <2>1, <2>2, Facts
<1>2. pc[t] = "visit" /\ H \in ToSet(s) /\ ctime' = ctime /\ list' = list
  BY DEF Visit
<1>3. PICK p \in 1 .. Len(s) :
        /\ s[p] = H
        /\ \A i \in 1 .. Len(s) : s[i] = H => i = p
        /\ p < Len(s) => p + 1 \in 1 .. Len(s) /\ F = s[p + 1]
        /\ ~(p < Len(s)) => F = None
  BY <1>2, FollowerIs
<1>4. /\ Len(s) \in Nat /\ DOMAIN s = 1 .. Len(s) /\ Single(s)
      /\ \A i \in 1 .. Len(s) : s[i] \in ToSet(s) /\ s[i] \in Request /\ s[i].id \in Nat
      /\ \A x : x \in ToSet(s) <=> \E i \in 1 .. Len(s) : s[i] = x
  BY <1>1, ElementsOf, OrderedIsSingle, RequestFields
<1>5. H # None /\ H \in Request /\ H.id \in Nat /\ (F # None => F \in ToSet(s) /\ F \in Request)
  BY <1>3, <1>4, RequestFields
<1>6. /\ Begins(H, c) \in Time /\ Begins(H, c) \in Nat /\ Begins(H, c) # 0
      /\ Begins(H, c) \in {H.start[1], H.start[2]}
      /\ \A y \in ToSet(s) : Same(y, H) => (Over(y, c) <=> Over(H, c)) /\ Begins(y, c) = Begins(H, c)
  BY <1>2, BeginsIs
<1>7. \A i \in 1 .. Len(s) : i < p => /\ ~Over(s[i], c) /\ m # 0 /\ m <= Begins(s[i], c)
                                      /\ Begins(s[i], c) \in Nat
  <2>1. \A i \in 1 .. Len(s) : i < p => ~Over(s[i], c) /\ m # 0 /\ m <= Begins(s[i], c)
    BY <1>1, <1>3, <1>4, <1>5 DEF Walked
  <2>2. \A i \in 1 .. Len(s) : Begins(s[i], c) \in Nat
    BY <1>4, BeginsIs
  <2> QED
    BY <2>1, <2>2
<1>8. \A k \in 1 .. Len(s) : p <= k /\ Same(s[k], H) => H.id <= s[k].id
  <2>1. ASSUME NEW k \in 1 .. Len(s), p <= k, Same(s[k], H) PROVE H.id <= s[k].id
    <3>1. Same(s[p], s[k])
      BY <1>3, <1>4, <2>1, Twinned
    <3> QED
      BY <1>1, <1>3, <1>4, <2>1, <3>1, OrderedIsSingle
  <2> QED
    BY <2>1
<1> HIDE DEF s, H, c, m, F
<1>9. /\ count' = count /\ now' = now /\ owner' = owner
  OBVIOUS
<1>10. CASE Over(H, c)
  <2>1. Goto(t, "expire") /\ last' = [last EXCEPT ![t] = F = None]
        /\ UNCHANGED <<here, cur, min_time>>
    BY <1>10 DEF Visit, H, c, F
  <2>2. /\ pc'[t] = "expire" /\ (\A v \in Thread : v # t => pc'[v] = pc[v])
        /\ pc' \in [Thread -> Place]
    BY <2>1, MovesTo DEF Place, Walking
  <2>3. \A y \in ToSet(s) : Same(y, H) => H.id <= y.id
    <3>1. ASSUME NEW y \in ToSet(s), Same(y, H) PROVE H.id <= y.id
      <4>1. PICK k \in 1 .. Len(s) : s[k] = y
        BY <1>4
      <4>2. ~(k < p)
        BY <1>6, <1>7, <1>10, <3>1, <4>1
      <4> QED
        BY <1>3, <1>4, <1>8, <3>1, <4>1, <4>2
    <3> QED
      BY <3>1
  <2>4. WalkStep(t)
    <3>1. WalkedTo(t)
      BY <1>5, <2>1, <2>2, <2>3 DEF WalkedTo, s, H
    <3>2. WalkChoice(t)
      BY <2>1 DEF WalkChoice
    <3>3. last' \in [Thread -> BOOLEAN]
      BY <1>1, <2>1 DEF TypeOK
    <3> QED
      BY <1>1, <1>2, <2>1, <2>2, <3>1, <3>2, <3>3 DEF WalkStep, TypeOK, s, H, c
  <2>5. Walked(t)'
    BY <1>1, <1>2, <2>1 DEF Walked
  <2> QED
    BY <2>4, <2>5, WalkStepKeeps
<1>11. CASE ~Over(H, c)
  <2>1. /\ here' = [here EXCEPT ![t] = F] /\ UNCHANGED <<pc, last>>
        /\ \/ /\ m = 0 \/ Begins(H, c) < m
              /\ min_time' = [min_time EXCEPT ![t] = Begins(H, c)]
              /\ cur' = [cur EXCEPT ![t] = H]
           \/ /\ ~(m = 0 \/ Begins(H, c) < m) /\ UNCHANGED <<min_time, cur>>
    BY <1>11 DEF Visit, Chooses, H, c, F, m
  <2>2. /\ here' \in [Thread -> Request \union {None}] /\ here'[t] = F
        /\ \A v \in Thread : v # t => here'[v] = here[v]
    BY <1>1, <1>5, <2>1 DEF TypeOK
  <2>3. /\ min_time' \in [Thread -> Time] /\ cur' \in [Thread -> Request \union {None}]
        /\ \A v \in Thread : v # t => cur'[v] = cur[v] /\ min_time'[v] = min_time[v]
        /\ \/ (m = 0 \/ Begins(H, c) < m) /\ min_time'[t] = Begins(H, c) /\ cur'[t] = H
           \/ ~(m = 0 \/ Begins(H, c) < m) /\ min_time'[t] = m /\ cur'[t] = cur[t]
    <3>1. CASE /\ m = 0 \/ Begins(H, c) < m
               /\ min_time' = [min_time EXCEPT ![t] = Begins(H, c)]
               /\ cur' = [cur EXCEPT ![t] = H]
      BY <1>1, <1>5, <1>6, <3>1 DEF TypeOK
    <3>2. CASE ~(m = 0 \/ Begins(H, c) < m) /\ UNCHANGED <<min_time, cur>>
      BY <1>1, <3>2 DEF TypeOK, m
    <3> QED
      BY <2>1, <3>1, <3>2
  <2>4. WalkChoice(t)
    <3>1. CASE (m = 0 \/ Begins(H, c) < m) /\ min_time'[t] = Begins(H, c) /\ cur'[t] = H
      <4>1. ASSUME NEW y \in ToSet(s), Same(y, H) PROVE H.id <= y.id
        <5>1. PICK k \in 1 .. Len(s) : s[k] = y
          BY <1>4
        <5>2. ~(k < p)
          <6>1. Begins(s[k], c) = Begins(H, c)
            BY <1>6, <4>1, <5>1
          <6>2. k < p => m # 0 /\ m <= Begins(H, c) /\ m \in Nat
            BY <1>1, <1>7, <6>1 DEF m
          <6> QED
            BY <1>6, <3>1, <6>2
        <5> QED
          BY <1>3, <1>4, <1>8, <4>1, <5>1, <5>2
      <4> QED
        BY <1>2, <1>6, <3>1, <4>1 DEF WalkChoice, s, H
    <3>2. CASE min_time'[t] = m /\ cur'[t] = cur[t]
      BY <3>2 DEF WalkChoice, m
    <3> QED
      BY <2>3, <3>1, <3>2
  <2>5. WalkStep(t)
    <3>1. WalkedTo(t) /\ pc' \in [Thread -> Place]
      BY <1>1, <1>2, <2>1 DEF WalkedTo, TypeOK, Place
    <3> QED
      BY <1>1, <1>2, <1>5, <2>1, <2>2, <2>3, <2>4, <3>1 DEF WalkStep, TypeOK, s, c
  <2>6. (min_time'[t] # 0 /\ min_time'[t] <= m) \/ m = 0
    BY <1>1, <1>6, <2>3 DEF m
  <2>7. min_time'[t] # 0 /\ min_time'[t] <= Begins(H, c) /\ (m # 0 => min_time'[t] <= m)
        /\ min_time'[t] \in Nat
    BY <1>1, <1>6, <2>3 DEF m
  <2>8. Walked(t)'
    <3>1. ASSUME F # None, NEW i \in 1 .. Len(s), NEW j \in 1 .. Len(s), i < j, s[j] = F
          PROVE  ~Over(s[i], c) /\ min_time'[t] # 0 /\ min_time'[t] <= Begins(s[i], c)
      <4>1. j = p + 1
        BY <1>3, <1>4, <3>1 DEF Single
      <4>2. CASE i = p
        BY <1>3, <1>11, <2>7, <4>2
      <4>3. CASE i < p
        <5>1. ~Over(s[i], c) /\ m # 0 /\ m <= Begins(s[i], c) /\ Begins(s[i], c) \in Nat
          BY <1>7, <4>3
        <5>2. m \in Nat
          BY <1>1 DEF m
        <5> QED
          BY <2>7, <5>1, <5>2
      <4> QED
        BY <1>4, <3>1, <4>1, <4>2, <4>3
    <3> QED
      BY <1>2, <1>4, <2>2, <3>1 DEF Walked, s, c
  <2> QED
    BY <2>5, <2>8, WalkStepKeeps
<1> QED
  BY <1>10, <1>11

LEMMA DecideKeeps ==
    ASSUME ScheduleInv, NEW t \in Thread, Decide(t),
           UNCHANGED <<now, list, count, owner, removing, tree, file, up, restarts>>,
           UNCHANGED histVars
    PROVE  ScheduleInv'
<1>1. TypeOK /\ Chosen /\ 0 \in Time /\ now \in Nat
  BY WindowsAssumption DEF ScheduleInv, BaseInv, TypeOK, Time
<1>2. PICK q : /\ q = Decision(t, ctime[t]) /\ pc[t] = "visit" /\ here[t] = None
               /\ Goto(t, q) /\ ctime' = [ctime EXCEPT ![t] = 0]
               /\ UNCHANGED <<here, last, cur, min_time>>
  BY DEF Decide, DecisionOnTime
<1>3. \/ q \in {"look", "tosleep"}
      \/ /\ min_time[t] # 0 /\ ~(min_time[t] > ctime[t])
         /\ \/ t = "apply" /\ q = "aLock"
            \/ t = "download" /\ q \in {"launch", "launchNow"} /\ (q = "launch" <=> ~AtOnce)
  BY <1>2, DecisionIs
<1>4. min_time[t] \in Nat /\ ctime[t] \in Nat /\ ctime[t] <= now
  BY <1>1, WindowsAssumption DEF TypeOK, Time, Chosen
<1>5. min_time[t] # 0 /\ ~(min_time[t] > ctime[t]) => cur[t] # None /\ min_time[t] <= now
  BY <1>1, <1>4 DEF Chosen
<1>6. q \in Place
  BY <1>3 DEF Place, Idle, Now, Late
<1>7. pc'[t] = q /\ (\A v \in Thread : v # t => pc'[v] = pc[v]) /\ pc' \in [Thread -> Place]
  BY <1>2, <1>6, MovesTo
<1>8. AtOnce' <=> AtOnce
  BY <1>2 DEF AtOnce
<1>9. WalkedTo(t)
  <2>1. here'[t] = None /\ pc'[t] # "expire" /\ cur'[t] = cur[t] /\ min_time'[t] = min_time[t]
    BY <1>2, <1>3, <1>7
  <2>2. CASE q \in {"look", "tosleep"}
    BY <1>7, <2>1, <2>2 DEF WalkedTo, Waits
  <2>3. CASE min_time[t] # 0 /\ ~(min_time[t] > ctime[t]) /\ t = "apply" /\ q = "aLock"
    BY <1>5, <1>7, <2>1, <2>3 DEF WalkedTo
  <2>4. CASE /\ min_time[t] # 0 /\ ~(min_time[t] > ctime[t])
             /\ t = "download" /\ q \in {"launch", "launchNow"} /\ (q = "launch" <=> ~AtOnce)
    BY <1>5, <1>7, <1>8, <2>1, <2>4 DEF WalkedTo
  <2> QED
    BY <1>3, <2>2, <2>3, <2>4
<1>10. WalkStep(t)
  <2>1. ctime' \in [Thread -> Time] /\ ctime'[t] <= now
        /\ \A v \in Thread : v # t => ctime'[v] = ctime[v]
    BY <1>1, <1>2 DEF TypeOK
  <2> QED
    BY <1>1, <1>2, <1>7, <1>9, <2>1 DEF WalkStep, WalkChoice, TypeOK
<1>11. Walked(t)'
  BY <1>2 DEF Walked
<1> QED
  BY <1>10, <1>11, WalkStepKeeps

LEMMA WalkKeeps ==
    ASSUME ScheduleInv, NEW t \in Thread, Walk(t)
    PROVE  ScheduleInv'
<1>1. /\ UNCHANGED <<now, list, count, owner, removing, tree, file, up, restarts>>
      /\ UNCHANGED histVars
  BY DEF Walk
<1> QED
  BY <1>1, LookKeeps, VisitKeeps, DecideKeeps DEF Walk

(* An entry that is over: its record is exchanged for the result.          *)
LEMMA ExpireKeeps ==
    ASSUME ScheduleInv, NEW t \in Thread, Expire(t)
    PROVE  ScheduleInv'
<1> DEFINE H == here[t]
<1>1. /\ now' = now /\ list' = list /\ count' = count /\ cur' = cur /\ min_time' = min_time
      /\ ctime' = ctime /\ here' = here /\ last' = last /\ removing' = removing
      /\ file' = file /\ up' = up /\ restarts' = restarts
      /\ accepted' = accepted /\ removed' = removed /\ raised' = raised /\ failed' = failed
      /\ cut' = cut /\ missed' = missed \union {H.id} /\ started' = started
      /\ pc[t] = "expire" /\ Goto(t, "expiring") /\ Take(MutexOf(t), t)
  BY DEF Expire
<1>2. /\ BaseInv /\ OrderInv /\ KeptInv /\ Thread = {"download", "apply"} /\ TypeOK /\ Known
      /\ Places /\ Chosen /\ Way /\ FirstOfTwins /\ FirstOver /\ HandedFirst /\ Unrecorded
      /\ Listed /\ Settled /\ Books(tree) /\ Books(file)
  BY DEF ScheduleInv, BaseInv, OrderInv, Thread
<1>3. /\ pc'[t] = "expiring" /\ (\A v \in Thread : v # t => pc'[v] = pc[v])
      /\ pc' \in [Thread -> Place] /\ up
  BY <1>1, MovesTo DEF Place, Walking
<1>4. /\ H \in accepted /\ H \in Request /\ H.id \in Id /\ H.id \in Nat /\ H # None /\ Same(H, H)
  BY <1>1, <1>2, Facts DEF Places
<1>5. /\ tree \in Tree /\ RecordsOf(t, tree) \in Seq(Request) /\ InOrder(RecordsOf(t, tree))
      /\ ToSet(RecordsOf(t, tree)) \subseteq ToSet(list[t])
      /\ RecordsOf("download", tree) = tree.requests /\ RecordsOf("apply", tree) = tree.applies
  BY <1>2, <1>3, Facts DEF Listed, RecordsOf
<1>6. PICK w : w = DeleteFrom(t, tree, H)
  OBVIOUS
<1>7. /\ w \in Tree /\ w.done = tree.done
      /\ RecordsOf(t, w) = DeleteRecord(RecordsOf(t, tree), H)
      /\ \A v \in Thread : v # t => RecordsOf(v, w) = RecordsOf(v, tree)
  BY <1>4, <1>5, <1>6, DeletedFrom
<1>8. PICK u : u = DeleteRecord(RecordsOf(t, tree), H)
  OBVIOUS
<1>9. /\ ToSet(u) \subseteq ToSet(RecordsOf(t, tree)) /\ InOrder(u)
      /\ Apart(RecordsOf(t, tree)) => Apart(u)
      /\ \A x \in ToSet(u) : Same(x, H) => H.id < x.id
      /\ \A x \in ToSet(RecordsOf(t, tree)) : ~Same(x, H) => x \in ToSet(u)
  <2>1. \A x \in ToSet(RecordsOf(t, tree)) : Same(x, H) => H.id <= x.id
    BY <1>1, <1>2, <1>5 DEF FirstOver
  <2>2. PICK c \in Request : c = H
    BY <1>4
  <2>3. PICK q \in Seq(Request) : q = RecordsOf(t, tree)
    BY <1>5
  <2>4. u = DeleteRecord(q, c) /\ InOrder(q) /\ \A x \in ToSet(q) : Same(x, c) => c.id <= x.id
    BY <1>5, <1>8, <2>1, <2>2, <2>3
  <2>5. /\ ToSet(u) \subseteq ToSet(q) /\ InOrder(u) /\ (Apart(q) => Apart(u))
        /\ \A x \in ToSet(u) : Same(x, c) => c.id < x.id
        /\ \A x \in ToSet(q) : ~Same(x, c) => x \in ToSet(u)
    BY <2>4, RecordDeleted
  <2> QED
    BY <2>2, <2>3, <2>5
<1>10. H \notin ToSet(u)
  BY <1>4, <1>9
<1>11. /\ tree' \in Tree /\ tree'.requests = RecordsOf("download", w)
       /\ tree'.applies = RecordsOf("apply", w) /\ tree'.done = tree.done \union {H.id}
  <2>1. tree' = [w EXCEPT !.done = w.done \union {H.id}]
    BY <1>6 DEF Expire, Done
  <2>2. w = [requests |-> w.requests, applies |-> w.applies, done |-> w.done]
        /\ w.requests \in Seq(Request) /\ w.applies \in Seq(Request) /\ w.done \in SUBSET Id
    BY <1>7 DEF Tree
  <2>3. tree' = [requests |-> w.requests, applies |-> w.applies, done |-> w.done \union {H.id}]
    BY <2>1, <2>2
  <2>4. w.done \union {H.id} \in SUBSET Id
    BY <1>4, <2>2
  <2> HIDE DEF H
  <2>5. tree' \in Tree
    BY <2>2, <2>3, <2>4 DEF Tree
  <2> QED
    BY <1>7, <2>3, <2>5 DEF RecordsOf
<1>12. /\ t = "download" => tree'.requests = u /\ tree'.applies = tree.applies
       /\ t = "apply" => tree'.applies = u /\ tree'.requests = tree.requests
  BY <1>2, <1>5, <1>7, <1>8, <1>11
<1>13. /\ ToSet(tree'.requests) \subseteq ToSet(tree.requests)
       /\ ToSet(tree'.applies) \subseteq ToSet(tree.applies)
       /\ Apart(tree'.requests) /\ InOrder(tree'.applies)
       /\ t = "download" => H \notin ToSet(tree'.requests)
       /\ t = "apply" => H \notin ToSet(tree'.applies)
  <2>1. CASE t = "download"
    BY <1>2, <1>5, <1>9, <1>10, <1>12, <2>1 DEF Books
  <2>2. CASE t = "apply"
    BY <1>2, <1>5, <1>9, <1>10, <1>12, <2>2 DEF Books
  <2> QED
    BY <1>2, <2>1, <2>2
<1> HIDE DEF H
<1>14. TypeOK'
  <2>1. owner' \in [Mutex -> Thread \union {"main", "none"}]
    <3>1. MutexOf(t) \in Mutex
      BY DEF MutexOf, Mutex
    <3> QED
      BY <1>1, <3>1, OwnersAre
  <2>2. missed' \subseteq Id
    BY <1>1, <1>2, <1>4 DEF TypeOK
  <2> QED
    BY <1>1, <1>2, <1>3, <1>11, <2>1, <2>2 DEF TypeOK, Place
<1>15. Numbered' /\ NotEarly' /\ Fresh'
  BY <1>1, <1>2, <1>4, <1>11 DEF BaseInv, Numbered, NotEarly, Fresh
<1>16. Known' /\ Down'
  BY <1>1, <1>2, <1>3, <1>13 DEF Known, Down
<1>17. AtOnce' <=> AtOnce
  BY <1>1 DEF AtOnce
<1>18. Places' /\ Chosen' /\ Way'
  <2>1. CASE t = "download"
    <3>1. pc'["download"] \notin Idle \union Now \union Late /\ pc'["download"] \in Walking
      BY <1>3, <2>1 DEF Idle, Now, Late, Walking
    <3>2. pc'["apply"] = pc["apply"] /\ pc'["download"] \notin {"launch", "launchNow", "down"}
      BY <1>2, <1>3, <2>1
    <3> QED
      BY <1>1, <1>2, <1>4, <2>1, <3>1, <3>2 DEF Places, Chosen, Way, H
  <2>2. CASE t = "apply"
    <3>1. pc'["apply"] \notin Idle \union Now \union Late /\ pc'["apply"] \in Walking
      BY <1>3, <2>2 DEF Idle, Now, Late, Walking
    <3>2. pc'["download"] = pc["download"] /\ pc'["apply"] # "down"
      BY <1>2, <1>3, <2>2
    <3> QED
      BY <1>1, <1>2, <1>4, <1>17, <2>2, <3>1, <3>2 DEF Places, Chosen, Way, H
  <2> QED
    BY <1>2, <2>1, <2>2
<1>19. \A v \in Thread : Walked(v)'
  BY <1>1, <1>2 DEF BaseInv, Walked
<1>20. BaseInv'
  BY <1>14, <1>15, <1>16, <1>18, <1>19 DEF BaseInv
<1>21. (\A v \in Thread : InOrder(list'[v])) /\ FirstOfTwins'
  BY <1>1, <1>2 DEF OrderInv, FirstOfTwins
<1>22. FirstOver'
  BY <1>1, <1>2, <1>3 DEF FirstOver
<1>23. HandedFirst'
  BY <1>1, <1>2, <1>3 DEF HandedFirst, Held
<1>24. Unrecorded'
  <2>1. CASE t = "download"
    <3>1. pc'["download"] \notin Launched
      BY <1>3, <2>1 DEF Launched, Idle, Now
    <3> QED
      BY <1>1, <1>2, <1>3, <1>13, <2>1, <3>1 DEF Unrecorded, H
  <2>2. CASE t = "apply"
    <3>1. pc'["apply"] \notin Late
      BY <1>3, <2>2 DEF Late
    <3> QED
      BY <1>1, <1>2, <1>3, <1>13, <2>2, <3>1 DEF Unrecorded, H
  <2> QED
    BY <1>2, <2>1, <2>2
<1>25. Books(tree)' /\ Books(file)'
  BY <1>1, <1>2, <1>11, <1>13 DEF Books
<1>26. Listed'
  BY <1>1, <1>2, <1>13 DEF Listed
<1>27. Settled'
  <2>1. pc["download"] \in Fetched => pc'["download"] = pc["download"]
    BY <1>1, <1>2, <1>3 DEF Fetched
  <2> QED
    BY <1>1, <1>2, <1>11, <1>17, <2>1 DEF Settled
<1>28. OrderInv'
  BY <1>21, <1>22, <1>23, <1>24, <1>25, <1>26, <1>27 DEF OrderInv
<1>29. Ended'
  <2>1. Ended /\ \A i : Reported(i)' <=> Reported(i)
    BY <1>1, <1>2 DEF KeptInv, Reported
  <2>2. \A v \in Thread : pc'[v] \in Fetched \union ToldLate => pc'[v] = pc[v]
    BY <1>3 DEF Fetched, ToldLate
  <2> QED
    BY <1>1, <1>2, <1>11, <2>1, <2>2 DEF Ended, Fetched, ToldLate
<1>30. InFlight \subseteq InFlight'
  <2>1. InFlight' = {cur'[v].id : v \in {x \in Thread : pc'[x] \in Flying}}
    BY DEF InFlight, Flying
  <2>2. \A v \in Thread : pc[v] \in Flying => pc'[v] \in Flying
    BY <1>1, <1>3 DEF Flying
  <2> QED
    BY <1>1, <2>1, <2>2, InFlightIs
<1>31. ASSUME NEW r \in accepted' \ Twins' PROVE Kept(r)'
  <2>1. r \in accepted \ Twins
    BY <1>1, <1>31 DEF Twins
  <2>2. Kept(r) /\ (Same(r, H) => r = H)
    BY <1>2, <1>4, <2>1, Facts DEF KeptInv
  <2>3. OnRecord(tree, r) => OnRecord(tree', r)
    <3>1. r \in ToSet(tree.requests) => r = H \/ r \in ToSet(tree'.requests)
      BY <1>2, <1>5, <1>9, <1>12, <2>2
    <3>2. r \in ToSet(tree.applies) => r = H \/ r \in ToSet(tree'.applies)
      BY <1>2, <1>5, <1>9, <1>12, <2>2
    <3> QED
      BY <1>11, <3>1, <3>2 DEF OnRecord
  <2> QED
    BY <1>1, <1>30, <2>2, <2>3 DEF Kept, Excused, OnRecord
<1>32. Mutexes'
  <2>1. CASE t = "download"
    BY <1>1, <1>14, <2>1, MutexesMove DEF MutexOf
  <2>2. CASE t = "apply"
    BY <1>1, <1>14, <2>2, MutexesMove DEF MutexOf
  <2> QED
    BY <1>2, <2>1, <2>2
<1> QED
  BY <1>20, <1>28, <1>29, <1>31, <1>32 DEF ScheduleInv, KeptInv

(* It is reported as missed and leaves its list.                           *)
LEMMA ExpiredKeeps ==
    ASSUME ScheduleInv, NEW t \in Thread, Expired(t)
    PROVE  ScheduleInv'
<1> DEFINE H == here[t]
           u == RemoveFirst(list[t], H)
           F == Follower(t)
<1>1. /\ now' = now /\ cur' = cur /\ min_time' = min_time /\ ctime' = ctime
      /\ removing' = removing /\ tree' = tree /\ file' = file /\ up' = up /\ restarts' = restarts
      /\ accepted' = accepted /\ removed' = removed /\ failed' = failed /\ cut' = cut
      /\ missed' = missed /\ started' = started
      /\ pc[t] = "expiring" /\ Goto(t, "visit") /\ Give(MutexOf(t)) /\ H \in ToSet(list[t])
      /\ raised' = [raised EXCEPT ![H.id] = raised[H.id] + 1]
      /\ list' = [list EXCEPT ![t] = u]
      /\ here' = [here EXCEPT ![t] = IF last[t] THEN None ELSE F]
      /\ last' = [last EXCEPT ![t] = FALSE]
  BY DEF Expired
<1>2. /\ BaseInv /\ OrderInv /\ KeptInv /\ Thread = {"download", "apply"} /\ TypeOK /\ Known
      /\ Places /\ Chosen /\ Way /\ FirstOfTwins /\ FirstOver /\ HandedFirst /\ Unrecorded
      /\ Listed /\ Settled /\ Books(tree) /\ Books(file) /\ \A v \in Thread : Walked(v)
  BY DEF ScheduleInv, BaseInv, OrderInv, Thread
<1>3. /\ pc'[t] = "visit" /\ (\A v \in Thread : v # t => pc'[v] = pc[v])
      /\ pc' \in [Thread -> Place] /\ up
  BY <1>1, MovesTo DEF Place, Walking
<1>4. /\ H \in accepted /\ H \in Request /\ H.id \in Id /\ H # None
      /\ list[t] \in Seq(Request) /\ InOrder(list[t])
  BY <1>1, <1>2, Facts DEF Places
<1>5. u \in Seq(Request) /\ InOrder(u) /\ ToSet(u) = ToSet(list[t]) \ {H} /\ Picked(u, list[t])
  <2>1. PICK c \in Request : c = H
    BY <1>4
  <2>2. PICK z : z = RemoveFirst(list[t], c)
    OBVIOUS
  <2>3. z \in Seq(Request) /\ InOrder(z) /\ ToSet(z) = ToSet(list[t]) \ {c}
    BY <1>1, <1>4, <2>1, <2>2, WithoutOne
  <2>4. Picked(z, list[t])
    BY <1>4, <2>2, RemoveFirstProperties
  <2> QED
    BY <2>1, <2>2, <2>3, <2>4
<1>6. F = None \/ (F \in ToSet(list[t]) /\ F \in accepted /\ F \in Request)
  BY <1>1, <1>4, FollowerListed, Facts
<1> HIDE DEF u, F, H
<1>7. /\ list' \in [Thread -> Seq(Request)] /\ list'[t] = u
      /\ \A v \in Thread : v # t => list'[v] = list[v] /\ here'[v] = here[v]
      /\ here' \in [Thread -> Request \union {None}] /\ here'[t] \in {None, F}
      /\ last' \in [Thread -> BOOLEAN]
  BY <1>1, <1>2, <1>5, <1>6 DEF TypeOK
<1>8. /\ raised' \in [Id -> Nat] /\ raised'[H.id] > 0
      /\ \A i \in Id : raised[i] > 0 => raised'[i] > 0
  BY <1>1, <1>2, <1>4 DEF TypeOK
<1>9. \A v \in Thread : /\ ToSet(list'[v]) \subseteq ToSet(list[v])
                        /\ \A x \in ToSet(list[v]) : x \in ToSet(list'[v]) \/ (v = t /\ x = H)
  BY <1>5, <1>7
<1>10. TypeOK'
  <2>1. owner' \in [Mutex -> Thread \union {"main", "none"}]
    <3>1. MutexOf(t) \in Mutex
      BY DEF MutexOf, Mutex
    <3> QED
      BY <1>1, <3>1, OwnersAre
  <2>2. count' \in Int
    BY <1>2 DEF TypeOK, Expired
  <2> QED
    BY <1>1, <1>2, <1>3, <1>7, <1>8, <2>1, <2>2 DEF TypeOK, Place
<1>11. Numbered' /\ NotEarly' /\ Fresh'
  BY <1>1, <1>2 DEF BaseInv, Numbered, NotEarly, Fresh
<1>12. Known' /\ Down'
  BY <1>1, <1>2, <1>3, <1>6, <1>7, <1>9 DEF Known, Down
<1>13. AtOnce' <=> AtOnce
  BY <1>1 DEF AtOnce
<1>14. Places' /\ Chosen' /\ Way'
  <2>1. CASE t = "download"
    <3>1. pc'["download"] \notin Idle \union Now \union Late /\ pc'["download"] \in Walking
      BY <1>3, <2>1 DEF Idle, Now, Late, Walking
    <3>2. /\ pc'["apply"] = pc["apply"] /\ here'["apply"] = here["apply"]
          /\ pc'["download"] \notin {"launch", "launchNow", "down", "expire", "expiring"}
      BY <1>2, <1>3, <1>7, <2>1
    <3> QED
      BY <1>1, <1>2, <3>1, <3>2 DEF Places, Chosen, Way
  <2>2. CASE t = "apply"
    <3>1. pc'["apply"] \notin Idle \union Now \union Late /\ pc'["apply"] \in Walking
      BY <1>3, <2>2 DEF Idle, Now, Late, Walking
    <3>2. /\ pc'["download"] = pc["download"] /\ here'["download"] = here["download"]
          /\ pc'["apply"] \notin {"down", "expire", "expiring"}
      BY <1>2, <1>3, <1>7, <2>2
    <3> QED
      BY <1>1, <1>2, <1>13, <3>1, <3>2 DEF Places, Chosen, Way
  <2> QED
    BY <1>2, <2>1, <2>2
<1>15. ASSUME NEW v \in Thread PROVE Walked(v)'
  <2>1. CASE v # t
    BY <1>1, <1>2, <1>7, <2>1 DEF Walked
  <2>2. CASE v = t
    <3>1. PICK p \in 1 .. Len(list[t]) :
            /\ list[t][p] = H
            /\ p < Len(list[t]) => p + 1 \in 1 .. Len(list[t]) /\ F = list[t][p + 1]
            /\ ~(p < Len(list[t])) => F = None
      BY <1>1, FollowerIs DEF H, F
    <3>2. /\ Len(list[t]) \in Nat /\ DOMAIN list[t] = 1 .. Len(list[t]) /\ Single(list[t])
          /\ DOMAIN u \subseteq Nat /\ \A i \in DOMAIN u : u[i] \in ToSet(u)
      BY <1>4, <1>5, ElementsOf, OrderedIsSingle
    <3>3. ASSUME F # None, NEW i \in DOMAIN u, NEW j \in DOMAIN u, i < j, u[j] = F
          PROVE  /\ ~Over(u[i], ctime[t])
                 /\ min_time[t] # 0 /\ min_time[t] <= Begins(u[i], ctime[t])
      <4>1. PICK a \in DOMAIN list[t], b \in DOMAIN list[t] :
              a < b /\ u[i] = list[t][a] /\ u[j] = list[t][b]
        BY <1>5, <3>3 DEF Picked
      <4>2. b = p + 1
        BY <3>1, <3>2, <3>3, <4>1 DEF Single
      <4>3. a # p
        BY <1>5, <3>1, <3>2, <4>1
      <4>4. a < p
        BY <3>2, <4>1, <4>2, <4>3
      <4>5. H = here[t] /\ H # None /\ p \in DOMAIN list[t]
        BY <1>4, <3>2 DEF H
      <4> QED
        BY <1>2, <3>1, <4>1, <4>4, <4>5 DEF Walked
    <3> QED
      BY <1>1, <1>7, <2>2, <3>3 DEF Walked
  <2> QED
    BY <2>1, <2>2
<1>16. BaseInv'
  BY <1>10, <1>11, <1>12, <1>14, <1>15 DEF BaseInv
<1>17. \A v \in Thread : InOrder(list'[v])
  BY <1>2, <1>5, <1>7 DEF OrderInv
<1>18. FirstOfTwins'
  BY <1>1, <1>2, <1>9 DEF FirstOfTwins
<1>19. FirstOver'
  BY <1>2, <1>3, <1>7, <1>9 DEF FirstOver
<1>20. \A v \in Thread : Held(v)' \subseteq Held(v)
  BY <1>1, <1>6, <1>7, <1>9 DEF Held
<1>21. HandedFirst'
  <2>1. ASSUME NEW x \in Held("apply")', NEW y \in Held("download")', Same(x, y)
        PROVE  \/ x.id < y.id
               \/ pc'["download"] = "finish" /\ x = y /\ y = cur'["download"]
    <3>1. x \in Held("apply") /\ y \in Held("download")
      BY <1>2, <1>20
    <3>2. \/ x.id < y.id
          \/ pc["download"] = "finish" /\ x = y /\ y = cur["download"]
      BY <1>2, <2>1, <3>1 DEF HandedFirst
    <3> QED
      BY <1>1, <1>2, <1>3, <3>2
  <2> QED
    BY <2>1 DEF HandedFirst
<1>22. Unrecorded'
  <2>1. CASE t = "download"
    <3>1. pc'["download"] \notin Launched /\ pc'["download"] # "expiring"
      BY <1>3, <2>1 DEF Launched, Idle, Now
    <3> QED
      BY <1>1, <1>2, <1>3, <1>7, <2>1, <3>1 DEF Unrecorded
  <2>2. CASE t = "apply"
    <3>1. pc'["apply"] \notin Late /\ pc'["apply"] # "expiring"
      BY <1>3, <2>2 DEF Late
    <3> QED
      BY <1>1, <1>2, <1>3, <1>7, <2>2, <3>1 DEF Unrecorded
  <2> QED
    BY <1>2, <2>1, <2>2
<1>23. Books(tree)' /\ Books(file)'
  BY <1>1, <1>2 DEF Books
<1>24. Listed'
  <2>1. /\ t = "download" => H \notin ToSet(tree.requests)
        /\ t = "apply" => H \notin ToSet(tree.applies)
    BY <1>1, <1>2 DEF Unrecorded, H
  <2>2. /\ ToSet(tree.requests) \subseteq ToSet(list["download"])
        /\ ToSet(tree.applies) \subseteq ToSet(list["apply"])
    BY <1>2, <1>3 DEF Listed
  <2> QED
    BY <1>1, <1>2, <1>9, <2>1, <2>2 DEF Listed
<1>25. Settled'
  <2>1. pc["download"] \in Fetched => pc'["download"] = pc["download"]
    BY <1>1, <1>2, <1>3 DEF Fetched
  <2> QED
    BY <1>1, <1>2, <1>9, <1>13, <2>1 DEF Settled
<1>26. OrderInv'
  BY <1>17, <1>18, <1>19, <1>21, <1>22, <1>23, <1>24, <1>25 DEF OrderInv
<1>27. Ended'
  <2>1. Ended /\ \A i : Reported(i)' <=> Reported(i)
    BY <1>1, <1>2 DEF KeptInv, Reported
  <2>2. \A v \in Thread : pc'[v] \in Fetched \union ToldLate => pc'[v] = pc[v]
    BY <1>3 DEF Fetched, ToldLate
  <2>3. pc'["download"] = "finish" =>
          \/ Reported(cur["download"].id) \/ cur["download"].id \in removed
          \/ cur["download"] \in ToSet(list'["apply"])
          \/ raised'[cur["download"].id] > 0
    <3>1. ASSUME pc'["download"] = "finish", ~Reported(cur["download"].id),
                 cur["download"].id \notin removed
          PROVE  cur["download"] \in ToSet(list'["apply"]) \/ raised'[cur["download"].id] > 0
      <4>1. pc["download"] = "finish" /\ cur["download"] # None
        BY <1>2, <2>2, <3>1 DEF Fetched, Places, Now
      <4>2. cur["download"].id \in Id
        BY <1>2, <4>1, Facts
      <4>3. cur["download"] \in ToSet(list["apply"]) \/ raised[cur["download"].id] > 0
        BY <2>1, <3>1, <4>1 DEF Ended
      <4> QED
        BY <1>2, <1>8, <1>9, <4>2, <4>3
    <3> QED
      BY <3>1
  <2> QED
    BY <1>1, <1>2, <2>1, <2>2, <2>3 DEF Ended, Fetched, ToldLate
<1>28. InFlight \subseteq InFlight'
  <2>1. InFlight' = {cur'[v].id : v \in {x \in Thread : pc'[x] \in Flying}}
    BY DEF InFlight, Flying
  <2>2. \A v \in Thread : pc[v] \in Flying => pc'[v] \in Flying
    BY <1>1, <1>3 DEF Flying
  <2> QED
    BY <1>1, <2>1, <2>2, InFlightIs
<1>29. ASSUME NEW r \in accepted' \ Twins' PROVE Kept(r)'
  <2>1. r \in accepted \ Twins /\ r.id \in Id
    BY <1>1, <1>29, Facts DEF Twins
  <2>2. Kept(r)
    BY <1>2, <2>1 DEF KeptInv
  <2>3. \/ r \in ToSet(list["download"]) \/ r \in ToSet(list["apply"])
        \/ raised[r.id] > 0 \/ r.id \in file.done
        => \/ r \in ToSet(list'["download"]) \/ r \in ToSet(list'["apply"])
           \/ raised'[r.id] > 0 \/ r.id \in file.done
    BY <1>2, <1>8, <1>9, <2>1
  <2> QED
    BY <1>1, <1>3, <1>28, <2>2, <2>3 DEF Kept, Excused, OnRecord
<1>30. Mutexes'
  <2>1. CASE t = "download"
    BY <1>1, <1>10, <2>1, MutexesMove DEF MutexOf
  <2>2. CASE t = "apply"
    BY <1>1, <1>10, <2>2, MutexesMove DEF MutexOf
  <2> QED
    BY <1>2, <2>1, <2>2
<1> QED
  BY <1>16, <1>26, <1>27, <1>29, <1>30 DEF ScheduleInv, KeptInv

-----------------------------------------------------------------------------
(***************************************************************************)
(* A fetched file is handed to thread "apply".                             *)
(***************************************************************************)
LEMMA HandKeeps ==
    ASSUME ScheduleInv, Still, cwmp_add_apply_schedule_download
    PROVE  ScheduleInv'
<1> DEFINE D == cur["download"]
           la == list'["apply"]
           ra == Append(tree.applies, D)
<1>1. /\ cur' = cur /\ min_time' = min_time /\ up' = up /\ now' = now /\ owner' = owner
      /\ ctime' = ctime /\ count' = count /\ restarts' = restarts /\ raised' = raised
      /\ accepted' = accepted /\ removed' = removed /\ cut' = cut /\ missed' = missed
      /\ failed' = failed /\ started' = started
      /\ here' = here /\ last' = last /\ removing' = removing
      /\ pc["download"] = "hand" /\ file' = tree'
  BY DEF Still, cwmp_add_apply_schedule_download, HandRecord
<1>2. /\ BaseInv /\ OrderInv /\ KeptInv /\ Thread = {"download", "apply"} /\ TypeOK /\ Known
      /\ Places /\ Chosen /\ Way /\ FirstOfTwins /\ FirstOver /\ HandedFirst /\ Unrecorded
      /\ Listed /\ Settled /\ \A v \in Thread : Walked(v)
  BY DEF ScheduleInv, BaseInv, OrderInv, Thread
<1>3. /\ pc'["download"] = "finish" /\ pc' \in [Thread -> Place] /\ up
      /\ pc'["apply"] = pc["apply"] \/ (pc["apply"] = "waiting" /\ pc'["apply"] = "woken")
      /\ \A v \in Thread : pc'[v] # "down"
  <2>1. up
    BY <1>1, <1>2, Running
  <2>2. pc \in [Thread -> Place]
    BY <1>2 DEF TypeOK, Place
  <2>3. "finish" \in Place /\ "woken" \in Place
    BY DEF Place, Now
  <2>4. pc' = [pc EXCEPT !["download"] = "finish",
                         !["apply"] = IF pc["apply"] = "waiting" THEN "woken" ELSE pc["apply"]]
    BY <1>2, <2>2 DEF cwmp_add_apply_schedule_download
  <2> QED
    BY <1>2, <2>1, <2>2, <2>3, <2>4 DEF Places
<1>4. /\ D \in accepted /\ D \in Request /\ D.id \in Id /\ D.id \in Nat /\ D # None /\ Same(D, D)
      /\ D \in Held("download")
  BY <1>1, <1>2, Facts DEF Places, Now
<1>5. /\ \A x \in Held("apply") : Same(x, D) => x.id < D.id
      /\ \A x \in Held("apply"), y \in Held("download") : Same(x, y) => x.id < y.id
      /\ D \notin Held("apply")
  <2>1. \A x \in Held("apply"), y \in Held("download") : Same(x, y) => x.id < y.id
    BY <1>1, <1>2 DEF HandedFirst
  <2> QED
    BY <1>4, <2>1
<1>6. /\ list["apply"] \in Seq(Request) /\ la = Append(list["apply"], D)
      /\ list'["download"] = list["download"] /\ list' \in [Thread -> Seq(Request)]
      /\ la \in Seq(Request) /\ ToSet(la) = ToSet(list["apply"]) \union {D} /\ InOrder(la)
      /\ Len(la) = Len(list["apply"]) + 1 /\ la[Len(list["apply"]) + 1] = D
      /\ \A k \in 1 .. Len(list["apply"]) : la[k] = list["apply"][k]
  <2>1. /\ list["apply"] \in Seq(Request) /\ InOrder(list["apply"])
        /\ ToSet(list["apply"]) \subseteq Held("apply")
    BY <1>2, Facts
  <2>2. /\ Append(list["apply"], D) \in Seq(Request) /\ InOrder(Append(list["apply"], D))
        /\ ToSet(Append(list["apply"], D)) = ToSet(list["apply"]) \union {D}
    BY <1>4, <1>5, <2>1, EntryAppended
  <2>3. list' = [list EXCEPT !["apply"] = Append(list["apply"], D)]
    BY DEF cwmp_add_apply_schedule_download
  <2>4. /\ Len(Append(list["apply"], D)) = Len(list["apply"]) + 1
        /\ Append(list["apply"], D)[Len(list["apply"]) + 1] = D
        /\ \A k \in 1 .. Len(list["apply"]) : Append(list["apply"], D)[k] = list["apply"][k]
    BY <1>4, <2>1, ElementsAppended
  <2> QED
    BY <1>2, <2>1, <2>2, <2>3, <2>4 DEF TypeOK
<1>7. /\ ra \in Seq(Request) /\ ToSet(ra) = ToSet(tree.applies) \union {D} /\ InOrder(ra)
  <2>1. /\ tree.applies \in Seq(Request) /\ InOrder(tree.applies)
        /\ ToSet(tree.applies) \subseteq Held("apply")
    BY <1>2, <1>3, Facts DEF Listed
  <2> QED
    BY <1>4, <1>5, <2>1, EntryAppended
<1>8. /\ tree' \in Tree /\ tree'.applies = ra /\ tree'.requests = tree.requests
      /\ tree'.done = tree.done
  <2>1. tree' = [tree EXCEPT !.applies = ra]
    BY DEF cwmp_add_apply_schedule_download, HandRecord,
           bkp_session_insert_apply_schedule_download
  <2> HIDE DEF ra
  <2> QED
    BY <1>7, <2>1, Facts DEF Tree
<1> HIDE DEF la, ra
<1>9. AtOnce' <=> AtOnce
  BY <1>1 DEF AtOnce
<1>10. TypeOK'
  BY <1>1, <1>2, <1>3, <1>6, <1>8 DEF TypeOK, Place
<1>11. Numbered' /\ NotEarly' /\ Fresh'
  BY <1>1, <1>2, <1>8 DEF BaseInv, Numbered, NotEarly, Fresh
<1>12. Known'
  <2>1. /\ ToSet(tree'.requests) \subseteq accepted /\ ToSet(tree'.applies) \subseteq accepted
    BY <1>4, <1>7, <1>8, Facts
  <2>2. \A v \in Thread : ToSet(list'[v]) \subseteq accepted
    BY <1>2, <1>4, <1>6, Facts DEF la
  <2> QED
    BY <1>1, <1>2, <2>1, <2>2 DEF Known
<1>32. \A v \in Thread : /\ pc'[v] \in Walking => pc'[v] = pc[v]
                         /\ pc[v] \in Walking => pc'[v] = pc[v]
  BY <1>1, <1>2, <1>3 DEF Walking
<1>13. Down' /\ Places'
  <2>1. /\ pc'["download"] \notin Late /\ pc'["apply"] \notin Idle \union Now
        /\ pc'["download"] \in Idle \union Now => cur'["download"] # None
        /\ pc'["apply"] \in Late => cur'["apply"] # None
    BY <1>1, <1>2, <1>3 DEF Places, Idle, Now, Late
  <2>2. \A v \in Thread : /\ pc'[v] \in {"expire", "expiring"} => here[v] # None
                          /\ pc'[v] \notin Walking => here[v] = None
    BY <1>2, <1>32 DEF Places, Walking
  <2> QED
    BY <1>1, <1>3, <2>1, <2>2 DEF Down, Places
<1>33. ASSUME NEW v \in Thread PROVE Walked(v)'
  <2>1. CASE v = "download"
    BY <1>1, <1>2, <1>6, <2>1 DEF Walked
  <2>2. CASE v = "apply"
    <3>1. here["apply"] # None => here["apply"] \in Held("apply") /\ here["apply"] # D
      BY <1>2, <1>5, Facts
    <3>2. /\ Len(list["apply"]) \in Nat /\ DOMAIN list["apply"] = 1 .. Len(list["apply"])
          /\ DOMAIN la = 1 .. Len(list["apply"]) + 1
      BY <1>6, ElementsOf
    <3>3. ASSUME here["apply"] # None, NEW a \in DOMAIN la, NEW b \in DOMAIN la, a < b,
                 la[b] = here["apply"]
          PROVE  /\ ~Over(la[a], ctime["apply"])
                 /\ min_time["apply"] # 0
                 /\ min_time["apply"] <= Begins(la[a], ctime["apply"])
      <4>1. b # Len(list["apply"]) + 1
        BY <1>6, <3>1, <3>3
      <4>2. a \in DOMAIN list["apply"] /\ b \in DOMAIN list["apply"]
        BY <3>2, <3>3, <4>1
      <4>3. la[a] = list["apply"][a] /\ la[b] = list["apply"][b]
        BY <1>6, <3>2, <4>2
      <4> QED
        BY <1>2, <3>3, <4>2, <4>3 DEF Walked
    <3> QED
      BY <1>1, <2>2, <3>3 DEF Walked, la
  <2> QED
    BY <1>2, <2>1, <2>2
<1>14. Chosen' /\ Way'
  BY <1>1, <1>2, <1>3, <1>9 DEF Chosen, Way, Idle, Now
<1>15. BaseInv'
  BY <1>10, <1>11, <1>12, <1>13, <1>14, <1>33 DEF BaseInv
<1>16. \A v \in Thread : InOrder(list'[v])
  BY <1>2, <1>6, Facts DEF la
<1>17. FirstOfTwins'
  <2>1. ASSUME cur["apply"] # None, NEW y \in ToSet(la), Same(y, cur["apply"])
        PROVE  cur["apply"].id <= y.id
    <3>1. cur["apply"] \in Held("apply") /\ cur["apply"] \in accepted
      BY <1>2, <2>1, Facts
    <3>2. CASE y \in ToSet(list["apply"])
      BY <1>2, <2>1, <3>2 DEF FirstOfTwins
    <3>3. CASE y = D
      <4>1. cur["apply"].id < D.id
        BY <1>4, <1>5, <2>1, <3>1, <3>3, Facts
      <4>2. cur["apply"].id \in Nat
        BY <3>1, Facts
      <4> QED
        BY <1>4, <3>3, <4>1, <4>2
    <3> QED
      BY <1>6, <3>2, <3>3
  <2>2. cur["download"] # None =>
          \A y \in ToSet(list["download"]) : Same(y, cur["download"]) => cur["download"].id <= y.id
    BY <1>2 DEF FirstOfTwins
  <2> QED
    BY <1>1, <1>2, <1>6, <2>1, <2>2 DEF FirstOfTwins, la
<1>34. FirstOver'
  <2>1. ASSUME pc["apply"] \in {"expire", "expiring"}, NEW y \in ToSet(la), Same(y, here["apply"])
        PROVE  here["apply"].id <= y.id
    <3>1. here["apply"] # None /\ here["apply"] \in Held("apply") /\ here["apply"] \in accepted
      BY <1>2, <2>1, Facts DEF Places
    <3>2. CASE y \in ToSet(list["apply"])
      BY <1>2, <2>1, <3>2 DEF FirstOver
    <3>3. CASE y = D
      <4>1. here["apply"].id < D.id
        BY <1>4, <1>5, <2>1, <3>1, <3>3, Facts
      <4>2. here["apply"].id \in Nat
        BY <3>1, Facts
      <4> QED
        BY <1>4, <3>3, <4>1, <4>2
    <3> QED
      BY <1>6, <3>2, <3>3
  <2>2. pc'["download"] \notin {"expire", "expiring"}
        /\ (pc'["apply"] \in {"expire", "expiring"} => pc["apply"] \in {"expire", "expiring"})
    BY <1>3
  <2> QED
    BY <1>1, <1>2, <2>1, <2>2 DEF FirstOver, la
<1>18. Held("apply")' = Held("apply") \union {D} /\ Held("download")' = Held("download")
  BY <1>1, <1>6 DEF Held, la
<1>19. \A y \in Held("download") : Same(D, y) => D.id < y.id \/ y = D
  <2>1. ASSUME NEW y \in Held("download"), Same(D, y), y # D PROVE D.id < y.id
    <3>1. y \in ToSet(list["download"]) /\ y \in accepted
      <4>1. here["download"] = None
        BY <1>1, <1>2 DEF Places, Walking
      <4>2. y \in accepted
        BY <1>2, <2>1, Facts
      <4> QED
        BY <2>1, <4>1, <4>2 DEF Held
    <3>2. Same(y, D) /\ y.id \in Nat /\ y.id # D.id
      BY <1>4, <2>1, <3>1, Facts
    <3>3. D.id <= y.id
      BY <1>2, <1>4, <3>1, <3>2 DEF FirstOfTwins
    <3> QED
      BY <1>4, <3>2, <3>3
  <2> QED
    BY <2>1
<1>20. HandedFirst'
  BY <1>1, <1>3, <1>5, <1>18, <1>19 DEF HandedFirst
<1>21. Unrecorded'
  <2>1. D \notin ToSet(tree'.requests)
    BY <1>1, <1>2, <1>8 DEF Unrecorded, Launched, Now
  <2>2. pc'["apply"] \in Late \ {"aLock", "aLaunch"} => cur["apply"] \notin ToSet(tree'.applies)
    <3>1. ASSUME pc'["apply"] \in Late \ {"aLock", "aLaunch"}
          PROVE  cur["apply"] \notin ToSet(tree'.applies)
      <4>1. pc'["apply"] = pc["apply"]
        BY <1>3, <3>1 DEF Late
      <4>2. cur["apply"] \notin ToSet(tree.applies) /\ cur["apply"] # None
        BY <1>2, <3>1, <4>1 DEF Unrecorded, Places
      <4>3. cur["apply"] # D
        BY <1>2, <1>5, <4>2, Facts
      <4> QED
        BY <1>7, <1>8, <4>2, <4>3
    <3> QED
      BY <3>1
  <2>3. pc'["apply"] = "expiring" => /\ here["apply"] \notin ToSet(tree'.applies)
                                     /\ here["apply"].id \in missed
    <3>1. ASSUME pc'["apply"] = "expiring"
          PROVE  here["apply"] \notin ToSet(tree'.applies) /\ here["apply"].id \in missed
      <4>1. pc["apply"] = "expiring"
        BY <1>3, <3>1
      <4>2. here["apply"] \notin ToSet(tree.applies) /\ here["apply"].id \in missed
            /\ here["apply"] # None
        BY <1>2, <4>1 DEF Unrecorded, Places
      <4>3. here["apply"] # D
        BY <1>2, <1>5, <4>2, Facts
      <4> QED
        BY <1>7, <1>8, <4>2, <4>3
    <3> QED
      BY <3>1
  <2>4. pc'["download"] # "expiring"
    BY <1>3
  <2> QED
    BY <1>1, <2>1, <2>2, <2>3, <2>4 DEF Unrecorded
<1>22. Listed'
  BY <1>2, <1>3, <1>6, <1>7, <1>8 DEF Listed, la
<1>23. D.id \in tree.done => D.id \in missed
  <2>1. AtOnce /\ pc["download"] \notin Fetched
    BY <1>1, <1>2 DEF Way, Now, Fetched
  <2> QED
    BY <1>2, <1>4, <2>1 DEF Settled
<1>24. Books(tree)' /\ Books(file)'
  <2>1. \A x \in ToSet(tree'.applies), y \in ToSet(tree'.requests) : Same(x, y) => x.id < y.id
    <3>1. ASSUME NEW y \in ToSet(tree.requests), Same(D, y) PROVE D.id < y.id
      <4>1. y \in Held("download")
        BY <1>2, <1>3, Facts DEF Listed
      <4>2. y # D
        BY <1>1, <1>2 DEF Unrecorded, Launched, Now
      <4> QED
        BY <1>19, <3>1, <4>1, <4>2
    <3>2. \A x \in ToSet(tree.applies), y \in ToSet(tree.requests) : Same(x, y) => x.id < y.id
      BY <1>2 DEF OrderInv, Books
    <3> QED
      BY <1>7, <1>8, <3>1, <3>2
  <2>2. \A x \in ToSet(tree'.requests) \union ToSet(tree'.applies) : x.id \in tree'.done => x.id \in missed
    BY <1>2, <1>7, <1>8, <1>23 DEF OrderInv, Books
  <2>3. Apart(tree'.requests) /\ InOrder(tree'.applies)
    BY <1>7, <1>8, Facts
  <2> QED
    BY <1>1, <2>1, <2>2, <2>3 DEF Books
<1>25. Settled'
  <2>1. pc'["download"] \in Fetched /\ pc["download"] \notin Fetched
    BY <1>1, <1>3 DEF Fetched
  <2> QED
    BY <1>1, <1>2, <1>6, <1>8, <2>1 DEF Settled
<1>26. OrderInv'
  BY <1>16, <1>17, <1>34, <1>20, <1>21, <1>22, <1>24, <1>25 DEF OrderInv
<1>27. \A i : Reported(i) => i \in file'.done \/ i \in failed
  BY <1>1, <1>2, <1>8 DEF Reported, KeptInv, Ended
<1>28. Ended'
  <2>1. pc'["download"] \notin Told /\ "finish" \notin Told
    BY <1>3 DEF Told, Fetched
  <2>2. pc'["apply"] \in ToldLate => Reported(cur["apply"].id)'
    <3>1. pc'["apply"] \in ToldLate => pc["apply"] \in ToldLate
      BY <1>3 DEF ToldLate
    <3>2. pc["apply"] \in ToldLate => Reported(cur["apply"].id)
      BY <1>2 DEF KeptInv, Ended, ToldLate
    <3> QED
      BY <1>1, <1>27, <3>1, <3>2 DEF Reported
  <2>3. cur'["download"] \in ToSet(list'["apply"])
    BY <1>1, <1>6 DEF la
  <2>4. (\A i \in file'.done : i \in tree'.done \/ i \in failed) /\ pc'["download"] # "faultNow"
    BY <1>1, <1>3
  <2> QED
    BY <1>1, <2>1, <2>2, <2>3, <2>4 DEF Ended, Told, Fetched, ToldLate
<1>29. \A i \in InFlight : i \in InFlight' \/ i = D.id
  <2>1. InFlight' = {cur[v].id : v \in {x \in Thread : pc'[x] \in Flying}}
    BY <1>1, InFlightNext
  <2>2. pc["apply"] \in Flying => pc'["apply"] \in Flying
    BY <1>3 DEF Flying
  <2> QED
    BY <1>2, <2>1, <2>2, InFlightIs
<1>30. ASSUME NEW r \in accepted' \ Twins' PROVE Kept(r)'
  <2>1. r \in accepted \ Twins
    BY <1>1, <1>30 DEF Twins
  <2>2. Kept(r) /\ (r.id = D.id => r = D)
    BY <1>2, <1>4, <2>1, Facts DEF KeptInv
  <2>3. CASE Excused(r.id)
    BY <1>1, <2>3 DEF Kept, Excused
  <2>4. CASE ~Excused(r.id)
    <3>1. OnRecord(tree', r) \/ r.id \in InFlight'
      BY <1>7, <1>8, <1>29, <2>2, <2>4 DEF Kept, OnRecord
    <3>2. OnRecord(file', r) \/ r.id \in InFlight'
      BY <1>1, <3>1
    <3>3. r.id \in file.done => r.id \in file'.done
      BY <1>27, <2>4 DEF Reported, Excused
    <3>4. \/ r \in ToSet(list'["download"]) \/ r \in ToSet(list'["apply"])
          \/ raised[r.id] > 0 \/ r.id \in file'.done
      BY <1>3, <1>6, <2>2, <2>4, <3>3 DEF Kept, la
    <3> QED
      BY <1>1, <3>1, <3>2, <3>4 DEF Kept, OnRecord
  <2> QED
    BY <2>3, <2>4
<1>31. Mutexes'
  <2>1. LikeDownload(pc["download"], pc'["download"])
    BY <1>1, <1>3 DEF LikeDownload, Holding, HoldingApply, HoldingSchedule, Idle
  <2>2. LikeApply(pc["apply"], pc'["apply"])
    BY <1>3 DEF LikeApply, HoldingLate, ScheduleLate, Late
  <2> QED
    BY <1>1, <1>10, <2>1, <2>2, MutexesStay
<1> QED
  BY <1>15, <1>26, <1>28, <1>30, <1>31 DEF ScheduleInv, KeptInv

-----------------------------------------------------------------------------
(***************************************************************************)
(* A new request.                                                          *)
(***************************************************************************)
LEMMA StutterKeeps ==
    ASSUME ScheduleInv, UNCHANGED vars
    PROVE  ScheduleInv'
<1>1. /\ UNCHANGED <<now, list, count, owner, pc, cur, min_time, ctime, tree, file, up, restarts>>
      /\ UNCHANGED <<here, last, removing>>
      /\ UNCHANGED <<accepted, removed, raised, failed, cut, missed, started>>
  BY DEF vars, threadVars, histVars
<1>2. BaseInv'
  BY <1>1 DEF ScheduleInv, BaseInv, TypeOK, Numbered, Fresh, Known, Down, Places, Chosen, Way, AtOnce,
              NotEarly, Walked
<1>3. Mutexes'
  BY <1>1 DEF ScheduleInv, Mutexes, MutexesReleased, SecondWindow
<1>4. OrderInv'
  BY <1>1 DEF ScheduleInv, OrderInv, FirstOfTwins, FirstOver, HandedFirst, Held, Unrecorded, Books, Listed,
              Settled, AtOnce
<1>5. Ended'
  BY <1>1 DEF ScheduleInv, KeptInv, Ended, Reported
<1>6. ASSUME NEW r \in accepted' \ Twins' PROVE Kept(r)'
  <2>1. r \in accepted \ Twins /\ InFlight' = InFlight
    BY <1>1, <1>6 DEF Twins, InFlight
  <2>2. Kept(r)
    BY <2>1 DEF ScheduleInv, KeptInv
  <2> QED
    BY <1>1, <2>1, <2>2 DEF Kept, Excused, OnRecord
<1> QED
  BY <1>2, <1>3, <1>4, <1>5, <1>6 DEF ScheduleInv, KeptInv

(* The request that the handler makes.                                     *)
LEMMA NewRequest ==
    ASSUME ScheduleInv, NEW w \in Windows, NEW m1 \in Modes, NEW m2 \in Modes, NEW image \in Images,
           now + w[4] < MaxTime, \A j \in 1 .. 3 : w[j] <= w[j + 1],
           NEW r, r = [id |-> Cardinality(accepted) + 1,
                       start |-> <<now + w[1], now + w[3]>>, end |-> <<now + w[2], now + w[4]>>,
                       mode |-> <<m1, m2>>, image |-> image],
           r.id \in Id
    PROVE  /\ r \in Request /\ r.id = Cardinality(accepted) + 1 /\ r.id \in Nat
           /\ 1 <= r.start[1] /\ r.start[1] <= r.end[1]
           /\ r.end[1] <= r.start[2] /\ r.start[2] <= r.end[2]
           /\ \A x \in accepted : x.id < r.id
           /\ r \notin accepted
           /\ IsFiniteSet(accepted \union {r})
           /\ Cardinality(accepted \union {r}) = r.id
<1>1. /\ IsFiniteSet(accepted) /\ Cardinality(accepted) \in Nat
      /\ \A x \in accepted : x.id <= Cardinality(accepted)
      /\ now \in 1 .. MaxTime /\ MaxTime \in Nat
  BY WindowsAssumption, FS_CardinalityType DEF ScheduleInv, BaseInv, Numbered, TypeOK
<1>2. /\ w[1] \in Nat /\ w[2] \in Nat /\ w[3] \in Nat /\ w[4] \in Nat
      /\ w[1] <= w[2] /\ w[2] <= w[3] /\ w[3] <= w[4]
  <2>1. w \in [1 .. 4 -> Nat]
    BY WindowsAssumption
  <2>2. w[1] <= w[1 + 1] /\ w[2] <= w[2 + 1] /\ w[3] <= w[3 + 1]
    OBVIOUS
  <2> QED
    BY <2>1, <2>2
<1>3. /\ now + w[1] \in Time /\ now + w[2] \in Time /\ now + w[3] \in Time /\ now + w[4] \in Time
      /\ 1 <= now + w[1] /\ now + w[1] <= now + w[2]
      /\ now + w[2] <= now + w[3] /\ now + w[3] <= now + w[4]
  BY <1>1, <1>2 DEF Time
<1>4. /\ r.id = Cardinality(accepted) + 1 /\ r.start = <<now + w[1], now + w[3]>>
      /\ r.end = <<now + w[2], now + w[4]>> /\ r.mode = <<m1, m2>> /\ r.image = image
  OBVIOUS
<1>5. \A S : \A a, b \in S : <<a, b>> \in [1 .. 2 -> S]
  OBVIOUS
<1>6. r \in Request
  <2>1. r.start \in [1 .. 2 -> Time] /\ r.end \in [1 .. 2 -> Time] /\ r.mode \in [1 .. 2 -> Modes]
    BY <1>3, <1>4, <1>5
  <2>2. r = [id |-> r.id, start |-> r.start, end |-> r.end, mode |-> r.mode, image |-> r.image]
    BY <1>4
  <2>3. r.image \in Images
    BY <1>4
  <2> QED
    BY <2>1, <2>2, <2>3 DEF Request
<1>7. /\ 1 <= r.start[1] /\ r.start[1] <= r.end[1]
      /\ r.end[1] <= r.start[2] /\ r.start[2] <= r.end[2]
  BY <1>3, <1>4
<1>8. /\ r.id \in Nat /\ \A x \in accepted : x.id < r.id
  <2>1. \A x \in accepted : x.id \in Nat
    BY Facts
  <2> QED
    BY <1>1, <1>4, <2>1
<1>9. r \notin accepted
  BY <1>8
<1>10. IsFiniteSet(accepted \union {r}) /\ Cardinality(accepted \union {r}) = r.id
  BY <1>1, <1>4, <1>9, FS_AddElement
<1> QED
  BY <1>4, <1>6, <1>7, <1>8, <1>9, <1>10

AcceptStep(r) ==
    /\ list' = [list EXCEPT !["download"] = Append(@, r)] /\ count' \in Int
    /\ tree' = bkp_session_insert_schedule_download(tree, r) /\ file' = tree'
    /\ accepted' = accepted \union {r}
    /\ pc' \in [Thread -> Place]
    /\ \A v \in Thread : \/ pc'[v] = pc[v]
                         \/ pc[v] \in {"waiting", "sleeping"} /\ pc'[v] \in {"woken", "awake"}
    /\ UNCHANGED <<now, owner, cur, min_time, ctime, here, last, removing, up, restarts>>
    /\ UNCHANGED <<removed, raised, failed, cut, missed, started>>

LEMMA AcceptKeeps ==
    ASSUME ScheduleInv, up, NEW r \in Request, AcceptStep(r),
           r.id = Cardinality(accepted) + 1, r.id \in Nat,
           1 <= r.start[1] /\ r.start[1] <= r.end[1],
           r.end[1] <= r.start[2] /\ r.start[2] <= r.end[2],
           \A x \in accepted : x.id < r.id, r \notin accepted,
           IsFiniteSet(accepted \union {r}), Cardinality(accepted \union {r}) = r.id
    PROVE  ScheduleInv'
<1> DEFINE ld == list'["download"]
           rq == tree'.requests
<1>1. /\ cur' = cur /\ min_time' = min_time /\ up' = up /\ now' = now /\ owner' = owner
      /\ ctime' = ctime /\ restarts' = restarts /\ raised' = raised
      /\ removed' = removed /\ cut' = cut /\ missed' = missed
      /\ failed' = failed /\ started' = started
      /\ here' = here /\ last' = last /\ removing' = removing
      /\ accepted' = accepted \union {r} /\ file' = tree'
  BY DEF AcceptStep
<1>2. /\ BaseInv /\ OrderInv /\ KeptInv /\ Thread = {"download", "apply"} /\ TypeOK /\ Known
      /\ Places /\ Chosen /\ Way /\ FirstOfTwins /\ HandedFirst /\ Unrecorded /\ Listed /\ Settled
      /\ Numbered /\ Fresh /\ FirstOver /\ \A v \in Thread : Walked(v)
  BY DEF ScheduleInv, BaseInv, OrderInv, Thread
<1>3. /\ pc' \in [Thread -> Place]
      /\ \A v \in Thread : \/ pc'[v] = pc[v]
                           \/ pc[v] \in {"waiting", "sleeping"} /\ pc'[v] \in {"woken", "awake"}
      /\ \A v \in Thread : pc'[v] # "down"
  BY <1>2 DEF AcceptStep, Places
<1>4. \A v \in Thread : /\ pc'[v] \in Idle \union Now \union Late \union Walking => pc'[v] = pc[v]
                        /\ pc[v] \in Idle \union Now \union Late \union Walking => pc'[v] = pc[v]
  BY <1>3 DEF Idle, Now, Late, Walking
<1>5. /\ r.id \in Id /\ Same(r, r) /\ \A x \in accepted : x.id \in Nat /\ x # r
  BY Facts, RequestFields, Twinned
<1>6. r.id \notin tree.done /\ r.id \notin file.done /\ started[r.id] = 0
  BY <1>2, <1>5 DEF Fresh
<1>7. /\ list["download"] \in Seq(Request) /\ list'["apply"] = list["apply"]
      /\ list' \in [Thread -> Seq(Request)] /\ ld = Append(list["download"], r)
      /\ ToSet(ld) = ToSet(list["download"]) \union {r} /\ InOrder(ld) /\ ld \in Seq(Request)
      /\ Len(ld) = Len(list["download"]) + 1 /\ ld[Len(list["download"]) + 1] = r
      /\ \A k \in 1 .. Len(list["download"]) : ld[k] = list["download"][k]
  <2>1. /\ list["download"] \in Seq(Request) /\ InOrder(list["download"])
        /\ ToSet(list["download"]) \subseteq accepted
    BY <1>2, Facts
  <2>2. /\ Append(list["download"], r) \in Seq(Request) /\ InOrder(Append(list["download"], r))
        /\ ToSet(Append(list["download"], r)) = ToSet(list["download"]) \union {r}
    BY <2>1, EntryAppended
  <2>3. list' = [list EXCEPT !["download"] = Append(list["download"], r)]
    BY DEF AcceptStep
  <2>4. /\ Len(Append(list["download"], r)) = Len(list["download"]) + 1
        /\ Append(list["download"], r)[Len(list["download"]) + 1] = r
        /\ \A k \in 1 .. Len(list["download"]) :
              Append(list["download"], r)[k] = list["download"][k]
    BY <2>1, ElementsAppended
  <2> QED
    BY <1>2, <2>1, <2>2, <2>3, <2>4 DEF TypeOK
<1>8. /\ tree' \in Tree /\ tree'.applies = tree.applies /\ tree'.done = tree.done
      /\ ToSet(rq) \subseteq ToSet(tree.requests) \union {r}
      /\ ToSet(tree.requests) \subseteq ToSet(rq) /\ Apart(rq)
      /\ r \in ToSet(rq) \/ \E x \in accepted : Same(x, r)
  <2>1. /\ tree.requests \in Seq(Request) /\ Apart(tree.requests) /\ tree \in Tree
        /\ ToSet(tree.requests) \subseteq accepted
    BY Facts
  <2>2. CASE \E x \in ToSet(tree.requests) : Same(x, r)
    <3>1. tree' = tree
      BY <2>2 DEF AcceptStep, bkp_session_insert_schedule_download
    <3> QED
      BY <2>1, <2>2, <3>1
  <2>3. CASE ~ \E x \in ToSet(tree.requests) : Same(x, r)
    <3> DEFINE u == Append(tree.requests, r)
    <3>1. tree' = [tree EXCEPT !.requests = u]
      BY <2>3 DEF AcceptStep, bkp_session_insert_schedule_download
    <3>2. u \in Seq(Request) /\ ToSet(u) = ToSet(tree.requests) \union {r} /\ Apart(u)
      BY <2>1, <2>3, EntryAppended
    <3> HIDE DEF u
    <3>3. tree' \in Tree /\ tree'.requests = u /\ tree'.applies = tree.applies /\ tree'.done = tree.done
      BY <2>1, <3>1, <3>2 DEF Tree
    <3> QED
      BY <3>2, <3>3
  <2> QED
    BY <2>2, <2>3
<1> HIDE DEF ld, rq
<1>9. AtOnce' <=> AtOnce
  BY <1>1 DEF AtOnce
<1>10. TypeOK'
  BY <1>1, <1>2, <1>3, <1>7, <1>8 DEF TypeOK, Place, AcceptStep
<1>11. Numbered'
  <2>1. \A x \in accepted' : x.id <= Cardinality(accepted')
    BY <1>1, <1>5
  <2>2. \A x, y \in accepted' : x.id = y.id => x = y
    BY <1>1, <1>2, <1>5 DEF Numbered
  <2>3. \A x \in accepted' : /\ 1 <= x.start[1] /\ x.start[1] <= x.end[1]
                             /\ x.end[1] <= x.start[2] /\ x.start[2] <= x.end[2]
    BY <1>1, <1>2 DEF Numbered
  <2> QED
    BY <1>1, <2>1, <2>2, <2>3 DEF Numbered
<1>12. NotEarly' /\ Fresh'
  BY <1>1, <1>2, <1>6, <1>8 DEF BaseInv, NotEarly, Fresh
<1>13. Known'
  <2>1. /\ ToSet(tree'.requests) \subseteq accepted' /\ ToSet(tree'.applies) \subseteq accepted'
    BY <1>1, <1>8, Facts DEF rq
  <2>2. \A v \in Thread : ToSet(list'[v]) \subseteq accepted'
    BY <1>1, <1>2, <1>7, Facts DEF ld
  <2> QED
    BY <1>1, <1>2, <2>1, <2>2 DEF Known
<1>14. Down' /\ Places'
  <2>1. \A v \in Thread : /\ pc'[v] \in {"expire", "expiring"} => here[v] # None
                          /\ pc'[v] \notin Walking => here[v] = None
    BY <1>2, <1>4 DEF Places, Walking
  <2> QED
    BY <1>1, <1>2, <1>3, <1>4, <2>1 DEF Down, Places
<1>15. Chosen' /\ Way'
  <2>1. "launch" \in Idle /\ "launchNow" \in Now
    BY DEF Idle, Now
  <2> QED
    BY <1>1, <1>2, <1>4, <1>9, <2>1 DEF Chosen, Way
<1>31. ASSUME NEW v \in Thread PROVE Walked(v)'
  <2>1. CASE v = "apply"
    BY <1>1, <1>2, <1>7, <2>1 DEF Walked
  <2>2. CASE v = "download"
    <3>1. here["download"] # None => here["download"] # r
      BY <1>2, <1>5, Facts
    <3>2. /\ Len(list["download"]) \in Nat /\ DOMAIN list["download"] = 1 .. Len(list["download"])
          /\ DOMAIN ld = 1 .. Len(list["download"]) + 1
      BY <1>7, ElementsOf
    <3>3. ASSUME here["download"] # None, NEW a \in DOMAIN ld, NEW b \in DOMAIN ld, a < b,
                 ld[b] = here["download"]
          PROVE  /\ ~Over(ld[a], ctime["download"])
                 /\ min_time["download"] # 0
                 /\ min_time["download"] <= Begins(ld[a], ctime["download"])
      <4>1. b # Len(list["download"]) + 1
        BY <1>7, <3>1, <3>3
      <4>2. a \in DOMAIN list["download"] /\ b \in DOMAIN list["download"]
        BY <3>2, <3>3, <4>1
      <4>3. ld[a] = list["download"][a] /\ ld[b] = list["download"][b]
        BY <1>7, <3>2, <4>2
      <4> QED
        BY <1>2, <3>3, <4>2, <4>3 DEF Walked
    <3> QED
      BY <1>1, <2>2, <3>3 DEF Walked, ld
  <2> QED
    BY <1>2, <2>1, <2>2
<1>16. BaseInv'
  BY <1>10, <1>11, <1>12, <1>13, <1>14, <1>15, <1>31 DEF BaseInv
<1>17. \A v \in Thread : InOrder(list'[v])
  BY <1>2, <1>7, Facts DEF ld
<1>18. FirstOfTwins'
  <2>1. ASSUME cur["download"] # None, NEW y \in ToSet(ld), Same(y, cur["download"])
        PROVE  cur["download"].id <= y.id
    <3>1. cur["download"] \in accepted
      BY <1>2, <2>1, Facts
    <3>2. cur["download"].id <= r.id
      BY <1>5, <3>1
    <3> QED
      BY <1>2, <1>7, <2>1, <3>2 DEF FirstOfTwins
  <2>2. cur["apply"] # None =>
          \A y \in ToSet(list["apply"]) : Same(y, cur["apply"]) => cur["apply"].id <= y.id
    BY <1>2 DEF FirstOfTwins
  <2> QED
    BY <1>1, <1>2, <1>7, <2>1, <2>2 DEF FirstOfTwins, ld
<1>32. FirstOver'
  <2>1. ASSUME pc["download"] \in {"expire", "expiring"}, NEW y \in ToSet(ld),
               Same(y, here["download"])
        PROVE  here["download"].id <= y.id
    <3>1. here["download"] # None /\ here["download"] \in accepted
      BY <1>2, <2>1, Facts DEF Places
    <3>2. here["download"].id <= r.id
      BY <1>5, <3>1
    <3> QED
      BY <1>2, <1>7, <2>1, <3>2 DEF FirstOver
  <2>2. \A v \in Thread : pc'[v] \in {"expire", "expiring"} => pc[v] \in {"expire", "expiring"}
    BY <1>4 DEF Walking
  <2> QED
    BY <1>1, <1>2, <1>7, <2>1, <2>2 DEF FirstOver, ld
<1>19. Held("download")' = Held("download") \union {r} /\ Held("apply")' = Held("apply")
  <2>1. r # None
    BY RequestFields
  <2> QED
    BY <1>1, <1>7, <2>1 DEF Held, ld
<1>20. HandedFirst'
  <2>1. \A x \in Held("apply") : x.id < r.id
    BY <1>2, Facts
  <2>2. pc["download"] = "finish" => pc'["download"] = "finish"
    BY <1>2, <1>4 DEF Now
  <2> QED
    BY <1>1, <1>2, <1>19, <2>1, <2>2 DEF HandedFirst
<1>21. Unrecorded'
  <2>1. ASSUME pc'["download"] \in Launched PROVE cur["download"] \notin ToSet(rq)
    <3>1. pc["download"] \in Launched /\ cur["download"] # None
      BY <1>2, <1>4, <2>1 DEF Launched, Places
    <3>2. cur["download"] # r
      BY <1>2, <1>5, <3>1, Facts
    <3> QED
      BY <1>2, <1>8, <3>1, <3>2 DEF Unrecorded
  <2>2. pc'["apply"] \in Late \ {"aLock", "aLaunch"} => cur["apply"] \notin ToSet(tree.applies)
    BY <1>2, <1>4 DEF Unrecorded
  <2>3. ASSUME pc'["download"] = "expiring"
        PROVE  here["download"] \notin ToSet(rq) /\ here["download"].id \in missed
    <3>1. pc["download"] = "expiring"
      BY <1>2, <1>4, <2>3 DEF Walking
    <3>2. /\ here["download"] \notin ToSet(tree.requests) /\ here["download"].id \in missed
          /\ here["download"] # None
      BY <1>2, <3>1 DEF Unrecorded, Places
    <3>3. here["download"] # r
      BY <1>2, <1>5, <3>2, Facts
    <3> QED
      BY <1>8, <3>2, <3>3
  <2>4. pc'["apply"] = "expiring" => /\ here["apply"] \notin ToSet(tree.applies)
                                     /\ here["apply"].id \in missed
    BY <1>2, <1>4 DEF Unrecorded, Walking
  <2> QED
    BY <1>1, <1>8, <2>1, <2>2, <2>3, <2>4 DEF Unrecorded, rq
<1>22. Listed'
  BY <1>2, <1>7, <1>8 DEF Listed, ld, rq
<1>23. Books(tree)' /\ Books(file)'
  <2>1. \A x \in ToSet(tree'.applies), y \in ToSet(tree'.requests) : Same(x, y) => x.id < y.id
    <3>1. \A x \in ToSet(tree.applies) : x.id < r.id
      BY Facts
    <3>2. \A x \in ToSet(tree.applies), y \in ToSet(tree.requests) : Same(x, y) => x.id < y.id
      BY <1>2 DEF OrderInv, Books
    <3> QED
      BY <1>8, <3>1, <3>2 DEF rq
  <2>2. \A x \in ToSet(tree'.requests) \union ToSet(tree'.applies) : x.id \in tree'.done => x.id \in missed
    BY <1>2, <1>6, <1>8 DEF OrderInv, Books, rq
  <2>3. Apart(tree'.requests) /\ InOrder(tree'.applies)
    BY <1>8, Facts DEF rq
  <2> QED
    BY <1>1, <2>1, <2>2, <2>3 DEF Books
<1>24. Settled'
  <2>1. pc["download"] \in Fetched => pc'["download"] \in Fetched
    BY <1>2, <1>4 DEF Fetched, Idle, Now
  <2> QED
    BY <1>1, <1>2, <1>6, <1>7, <1>8, <1>9, <2>1 DEF Settled, ld
<1>25. OrderInv'
  BY <1>17, <1>18, <1>32, <1>20, <1>21, <1>22, <1>23, <1>24 DEF OrderInv
<1>26. \A i : Reported(i) => i \in file'.done \/ i \in failed
  BY <1>1, <1>2, <1>8 DEF Reported, KeptInv, Ended
<1>27. Ended'
  <2>1. pc'["download"] \in Told => Reported(cur["download"].id)'
    <3>1. pc'["download"] \in Told => pc["download"] \in Told
      BY <1>2, <1>4 DEF Told, Fetched, Idle, Now
    <3>2. pc["download"] \in Told => Reported(cur["download"].id)
      BY <1>2 DEF KeptInv, Ended, Told, Fetched
    <3> QED
      BY <1>1, <1>26, <3>1, <3>2 DEF Reported
  <2>2. pc'["apply"] \in ToldLate => Reported(cur["apply"].id)'
    <3>1. pc'["apply"] \in ToldLate => pc["apply"] \in ToldLate
      BY <1>2, <1>4 DEF ToldLate, Late
    <3>2. pc["apply"] \in ToldLate => Reported(cur["apply"].id)
      BY <1>2 DEF KeptInv, Ended, ToldLate
    <3> QED
      BY <1>1, <1>26, <3>1, <3>2 DEF Reported
  <2>3. pc'["download"] = "finish" =>
          \/ Reported(cur["download"].id)' \/ cur'["download"].id \in removed
          \/ cur'["download"] \in ToSet(list'["apply"])
          \/ raised[cur'["download"].id] > 0
    <3>1. pc'["download"] = "finish" => pc["download"] = "finish"
      BY <1>2, <1>4 DEF Now
    <3>2. pc["download"] = "finish" =>
            \/ Reported(cur["download"].id) \/ cur["download"].id \in removed
            \/ cur["download"] \in ToSet(list["apply"])
            \/ raised[cur["download"].id] > 0
      BY <1>2 DEF KeptInv, Ended
    <3>3. Reported(cur["download"].id) => Reported(cur["download"].id)'
      BY <1>1, <1>26 DEF Reported
    <3> QED
      BY <1>1, <1>7, <3>1, <3>2, <3>3
  <2>4. \A i \in file'.done : i \in tree'.done \/ i \in failed
    BY <1>1
  <2>5. pc'["download"] = "faultNow" => cur["download"].id \in failed
    BY <1>2, <1>4 DEF KeptInv, Ended, Now
  <2> QED
    BY <1>1, <2>1, <2>2, <2>3, <2>4, <2>5 DEF Ended, Told, Fetched, ToldLate
<1>28. InFlight \subseteq InFlight'
  <2>1. InFlight' = {cur[v].id : v \in {x \in Thread : pc'[x] \in Flying}}
    BY <1>1, InFlightNext
  <2>2. Flying \subseteq Idle \union Now \union Late
    BY DEF Flying, Idle, Now, Late
  <2>3. \A v \in Thread : pc[v] \in Flying => pc'[v] \in Flying
    BY <1>4, <2>2
  <2> QED
    BY <2>1, <2>3, InFlightIs
<1>29. ASSUME NEW s \in accepted' \ Twins' PROVE Kept(s)'
  <2>1. s \in accepted \ Twins \/ (s = r /\ ~ \E x \in accepted : Same(x, r))
    BY <1>1, <1>5, <1>29 DEF Twins
  <2>2. CASE s = r /\ ~ \E x \in accepted : Same(x, r)
    <3>1. OnRecord(tree', s) /\ OnRecord(file', s) /\ s \in ToSet(list'["download"])
      BY <1>1, <1>7, <1>8, <2>2 DEF OnRecord, ld, rq
    <3> QED
      BY <3>1 DEF Kept, OnRecord
  <2>3. CASE s \in accepted \ Twins
    <3>1. Kept(s)
      BY <1>2, <2>3 DEF KeptInv
    <3>2. CASE Excused(s.id)
      BY <1>1, <3>2 DEF Kept, Excused
    <3>3. CASE ~Excused(s.id)
      <4>1. OnRecord(tree', s) \/ s.id \in InFlight'
        BY <1>8, <1>28, <3>1, <3>3 DEF Kept, OnRecord, rq
      <4>2. OnRecord(file', s) \/ s.id \in InFlight'
        BY <1>1, <4>1
      <4>3. s.id \in file.done => s.id \in file'.done
        BY <1>26, <3>3 DEF Reported, Excused
      <4>4. \/ s \in ToSet(list'["download"]) \/ s \in ToSet(list'["apply"])
            \/ raised[s.id] > 0 \/ s.id \in file'.done
        BY <1>7, <3>1, <3>3, <4>3 DEF Kept, ld
      <4> QED
        BY <1>1, <4>1, <4>2, <4>4 DEF Kept, OnRecord
    <3> QED
      BY <3>2, <3>3
  <2> QED
    BY <2>1, <2>2, <2>3
<1>30. Mutexes'
  <2>1. LikeDownload(pc["download"], pc'["download"])
    BY <1>2, <1>3 DEF LikeDownload, Holding, HoldingApply, HoldingSchedule, Idle
  <2>2. LikeApply(pc["apply"], pc'["apply"])
    BY <1>2, <1>3 DEF LikeApply, HoldingLate, ScheduleLate, Late
  <2> QED
    BY <1>1, <1>10, <2>1, <2>2, MutexesStay
<1> QED
  BY <1>16, <1>25, <1>27, <1>29, <1>30 DEF ScheduleInv, KeptInv

LEMMA RequestKeeps ==
    ASSUME ScheduleInv, NEW w \in Windows, NEW m1 \in Modes, NEW m2 \in Modes, NEW image \in Images,
           NEW wellFormed \in BOOLEAN,
           cwmp_handle_rpc_cpe_schedule_download(w, m1, m2, image, wellFormed)
    PROVE  ScheduleInv'
<1>1. /\ TypeOK /\ Thread = {"download", "apply"} /\ "send" \in Mutex
      /\ owner["send"] = "main"
  BY DEF ScheduleInv, BaseInv, Thread, Mutex, cwmp_handle_rpc_cpe_schedule_download
<1>2. up
  BY <1>1 DEF ScheduleInv, BaseInv, Down, TypeOK
<1>3. CASE ~Valid(wellFormed, w)
  <2>1. UNCHANGED vars
    BY <1>3 DEF cwmp_handle_rpc_cpe_schedule_download, vars, threadVars, histVars
  <2> QED
    BY <2>1, StutterKeeps
<1>4. CASE Valid(wellFormed, w)
  <2> DEFINE R == [id |-> Cardinality(accepted) + 1,
                   start |-> <<now + w[1], now + w[3]>>, end |-> <<now + w[2], now + w[4]>>,
                   mode |-> <<m1, m2>>, image |-> image]
  <2>1. R.id \in Id /\ Accept(R, w[1]) /\ Signalled /\ accepted' = accepted \union {R}
        /\ now + w[4] < MaxTime
    BY <1>4 DEF cwmp_handle_rpc_cpe_schedule_download
  <2>2. UNCHANGED <<now, owner, cur, min_time, ctime, here, last, removing, up, restarts, removed,
                    raised, failed, cut, missed, started>>
    BY DEF cwmp_handle_rpc_cpe_schedule_download
  <2>3. PICK r : r = R
    OBVIOUS
  <2>4. \A j \in 1 .. 3 : w[j] <= w[j + 1]
    BY <1>4 DEF Valid
  <2>5. /\ r \in Request /\ r.id = Cardinality(accepted) + 1 /\ r.id \in Nat
        /\ 1 <= r.start[1] /\ r.start[1] <= r.end[1]
        /\ r.end[1] <= r.start[2] /\ r.start[2] <= r.end[2]
        /\ \A x \in accepted : x.id < r.id
        /\ r \notin accepted
        /\ IsFiniteSet(accepted \union {r}) /\ Cardinality(accepted \union {r}) = r.id
    BY <2>1, <2>3, <2>4, NewRequest, SMTT(60)
  <2>6. /\ list' = [list EXCEPT !["download"] = Append(@, r)]
        /\ tree' = bkp_session_insert_schedule_download(tree, r) /\ file' = tree'
        /\ accepted' = accepted \union {r}
    BY <2>1, <2>3 DEF Accept
  <2>7. count' \in Int
    BY <1>1, <2>1 DEF Accept, TypeOK
  <2>8. /\ pc' \in [Thread -> Place]
        /\ \A v \in Thread : \/ pc'[v] = pc[v]
                             \/ pc[v] \in {"waiting", "sleeping"} /\ pc'[v] \in {"woken", "awake"}
    <3>1. pc \in [Thread -> Place] /\ "woken" \in Place /\ "awake" \in Place
      BY <1>1 DEF TypeOK, Place
    <3>2. Sleepers \subseteq {v \in Thread : pc[v] \in {"waiting", "sleeping"}}
      BY DEF Sleepers
    <3> QED
      BY <2>1, <3>1, <3>2 DEF Signalled
  <2>9. AcceptStep(r)
    BY <2>2, <2>6, <2>7, <2>8 DEF AcceptStep
  <2> QED
    BY <1>2, <2>5, <2>9, AcceptKeeps
<1> QED
  BY <1>3, <1>4

-----------------------------------------------------------------------------
(***************************************************************************)
(* A change of the ACS, and the end and the start of the process.          *)
(***************************************************************************)
LEMMA BootstrapKeeps ==
    ASSUME ScheduleInv, cwmp_root_cause_event_bootstrap
    PROVE  ScheduleInv'
<1>1. /\ UNCHANGED <<now, list, count, pc, cur, min_time, ctime, here, last, tree, up, restarts>>
      /\ UNCHANGED histVars /\ file' = tree
      /\ owner["send"] = "main" /\ Take("queue", "main")
      /\ \/ removing' = <<"download", "apply", "apply", "download">>
         \/ Len(removing) = 2 /\ removing' = removing
  BY DEF cwmp_root_cause_event_bootstrap, threadVars
<1>2. /\ BaseInv /\ OrderInv /\ KeptInv /\ TypeOK /\ Known /\ Down
      /\ Thread = {"download", "apply"} /\ Mutex = {"send", "queue", "schedule", "apply"}
  BY DEF ScheduleInv, BaseInv, Thread, Mutex
<1>3. up
  BY <1>1, <1>2 DEF Down, TypeOK
<1>4. removing' # <<>> /\ removing' \in Seq(Thread)
  <2>1. CASE removing' = <<"download", "apply", "apply", "download">>
    <3>1. <<"download", "apply", "apply", "download">> \in Seq({"download", "apply"})
      OBVIOUS
    <3>2. <<"download", "apply", "apply", "download">> # <<>>
      OBVIOUS
    <3> QED
      BY <1>2, <2>1, <3>1, <3>2
  <2>2. CASE Len(removing) = 2 /\ removing' = removing
    <3>1. removing \in Seq(Thread)
      BY <1>2 DEF TypeOK
    <3>2. removing # <<>>
      BY <2>2, <3>1, EmptySeq
    <3> QED
      BY <2>2, <3>1, <3>2
  <2> QED
    BY <1>1, <2>1, <2>2
<1>5. owner' \in [Mutex -> Thread \union {"main", "none"}] /\ owner'["queue"] = "main"
      /\ owner'["send"] = "main"
      /\ \A m \in Mutex : m # "queue" => owner'[m] = owner[m]
  BY <1>1, <1>2 DEF TypeOK, Take
<1>6. TypeOK'
  BY <1>1, <1>2, <1>4, <1>5 DEF TypeOK, histVars
<1>7. Numbered' /\ NotEarly' /\ Fresh' /\ Down' /\ Places' /\ Chosen' /\ Way'
  <2>1. AtOnce' <=> AtOnce
    BY <1>1 DEF AtOnce
  <2> QED
    BY <1>1, <1>2, <1>3, <2>1
       DEF BaseInv, Numbered, NotEarly, Fresh, Down, Places, Chosen, Way, histVars
<1>8. Known' /\ \A v \in Thread : Walked(v)'
  BY <1>1, <1>2 DEF BaseInv, Known, Walked, histVars
<1>9. BaseInv'
  BY <1>6, <1>7, <1>8 DEF BaseInv
<1>10. OrderInv'
  <2>1. AtOnce' <=> AtOnce
    BY <1>1 DEF AtOnce
  <2>2. (\A v \in Thread : InOrder(list'[v])) /\ FirstOfTwins' /\ FirstOver' /\ Unrecorded'
    BY <1>1, <1>2 DEF OrderInv, FirstOfTwins, FirstOver, Unrecorded, histVars
  <2>3. HandedFirst'
    BY <1>1, <1>2 DEF OrderInv, HandedFirst, Held
  <2>4. Books(tree)' /\ Books(file)'
    BY <1>1, <1>2 DEF OrderInv, Books, histVars
  <2>5. Listed' /\ Settled'
    BY <1>1, <1>2, <2>1 DEF OrderInv, Listed, Settled, histVars
  <2> QED
    BY <2>2, <2>3, <2>4, <2>5 DEF OrderInv
<1>11. \A i : Reported(i) => Reported(i)'
  BY <1>1, <1>2 DEF KeptInv, Ended, Reported, histVars
<1>12. Ended'
  <2> DEFINE Reads(i) == i \in file'.done \/ i \in failed'
  <2>8. \A i : Reported(i) => Reads(i)
    BY <1>11 DEF Reported
  <2>1. pc["download"] \in {"apply", "release", "unlink", "applyNow", "releaseNow", "faultNow"} =>
          Reads(cur["download"].id)
    BY <1>2, <2>8 DEF KeptInv, Ended
  <2>2. pc["apply"] \in {"aApply", "aRelease", "aUnlink"} => Reads(cur["apply"].id)
    BY <1>2, <2>8 DEF KeptInv, Ended
  <2>3. pc["download"] = "finish" =>
          \/ Reads(cur["download"].id) \/ cur["download"].id \in removed
          \/ cur["download"] \in ToSet(list["apply"])
          \/ raised[cur["download"].id] > 0
    BY <1>2, <2>8 DEF KeptInv, Ended
  <2>4. pc["download"] = "faultNow" => cur["download"].id \in failed
    BY <1>2 DEF KeptInv, Ended
  <2>5. UNCHANGED <<pc, cur, list, raised, removed, failed>> /\ file' = tree'
    BY <1>1 DEF histVars
  <2>6. \A i \in file'.done : i \in tree'.done \/ i \in failed'
    BY <2>5
  <2> QED
    BY <2>1, <2>2, <2>3, <2>4, <2>5, <2>6 DEF Ended, Reported
<1>13. ASSUME NEW r \in accepted' \ Twins' PROVE Kept(r)'
  <2>1. r \in accepted \ Twins
    BY <1>1, <1>13 DEF Twins, histVars
  <2>2. Kept(r) /\ InFlight' = InFlight
    BY <1>1, <1>2, <2>1 DEF KeptInv, InFlight
  <2>3. r.id \in file.done => r.id \in file'.done \/ Excused(r.id)
    BY <1>1, <1>11 DEF Reported, Excused, histVars
  <2>4. Excused(r.id)' <=> Excused(r.id)
    BY <1>1 DEF Excused, histVars
  <2>5. CASE Excused(r.id)
    BY <2>4, <2>5 DEF Kept
  <2>6. CASE ~Excused(r.id)
    <3>1. OnRecord(tree, r) \/ r.id \in InFlight
      BY <2>2, <2>6 DEF Kept
    <3>2. /\ OnRecord(tree', r) \/ r.id \in InFlight'
          /\ OnRecord(file', r) \/ r.id \in InFlight'
      BY <1>1, <2>2, <3>1
    <3>3. up => \/ r \in ToSet(list["download"]) \/ r \in ToSet(list["apply"])
                \/ raised[r.id] > 0 \/ r.id \in file'.done
      BY <2>2, <2>3, <2>6 DEF Kept
    <3> QED
      BY <1>1, <3>2, <3>3 DEF Kept, histVars
  <2> QED
    BY <2>5, <2>6
<1>14. Mutexes'
  <2>1. Holders(owner, failed, pc["download"], pc["apply"], removing)
    BY <1>2, MutexesAre DEF ScheduleInv
  <2>2. failed' = failed /\ pc' = pc
    BY <1>1 DEF histVars
  <2>3. Senders(owner', pc["download"], pc["apply"], removing')
    BY <1>1, <1>2, <1>4, <1>5, <2>1 DEF Holders, Senders
  <2>4. owner'["schedule"] = owner["schedule"] /\ owner'["apply"] = owner["apply"]
    BY <1>2, <1>5
  <2>5. Holders(owner', failed', pc'["download"], pc'["apply"], removing')
    BY <2>1, <2>2, <2>3, <2>4 DEF Holders, HeldWhile
  <2> QED
    BY <1>6, <2>5, MutexesAre
<1> QED
  BY <1>9, <1>10, <1>12, <1>13, <1>14 DEF ScheduleInv, KeptInv

(* The mutexes when a list has been emptied.                               *)
LEMMA RemovalReleases ==
    ASSUME ScheduleInv, NEW t \in Thread, remove_all(t)
    PROVE  /\ removing' \in Seq(Thread) /\ owner' \in [Mutex -> Thread \union {"main", "none"}]
           /\ Holders(owner', failed, pc["download"], pc["apply"], removing')
<1>1. /\ owner["queue"] = "main" /\ removing' = Tail(removing)
      /\ owner' = [m \in Mutex |-> IF Left(m) THEN "none" ELSE owner[m]]
  BY DEF remove_all
<1>2. /\ TypeOK /\ Holders(owner, failed, pc["download"], pc["apply"], removing)
      /\ Mutex = {"send", "queue", "schedule", "apply"}
  BY MutexesAre DEF ScheduleInv, BaseInv, Mutex
<1>3. removing \in Seq(Thread) /\ removing # <<>> /\ owner["send"] = "main"
  BY <1>1, <1>2 DEF TypeOK, Holders, Senders
<1>4. /\ removing' \in Seq(Thread) /\ Len(removing') = Len(removing) - 1
      /\ Len(removing) \in Nat /\ Len(removing') \in Nat
      /\ removing' = <<>> <=> Len(removing') = 0
  <2>1. PICK q \in Seq(Thread) : q = removing /\ q # <<>>
    BY <1>3
  <2>2. Tail(q) \in Seq(Thread) /\ Len(Tail(q)) = Len(q) - 1
    BY <2>1, HeadTailProperties
  <2>3. PICK x \in Seq(Thread) : x = Tail(q)
    BY <2>2
  <2>4. x = <<>> <=> Len(x) = 0
    BY EmptySeq
  <2>5. Len(q) \in Nat /\ Len(x) \in Nat
    BY LenProperties
  <2>6. removing' = x
    BY <1>1, <2>1, <2>3
  <2> QED
    BY <2>1, <2>2, <2>3, <2>4, <2>5, <2>6
<1>5. owner' \in [Mutex -> Thread \union {"main", "none"}]
  BY <1>1, <1>2 DEF TypeOK
<1>6. /\ owner'["send"] = IF Len(removing) = 1 THEN "none" ELSE owner["send"]
      /\ owner'["queue"] = IF Len(removing) \in {3, 1} THEN "none" ELSE owner["queue"]
      /\ owner'["schedule"] = owner["schedule"] /\ owner'["apply"] = owner["apply"]
  BY <1>1, <1>2 DEF Left
<1>7. Senders(owner', pc["download"], pc["apply"], removing')
  <2>1. /\ pc["download"] \notin Holding /\ pc["apply"] \notin HoldingLate
        /\ owner'["send"] \in {"main", "none"}
    BY <1>2, <1>3, <1>6 DEF Holders, Senders
  <2>2. removing' # <<>> => owner'["send"] = "main"
    <3>1. removing' # <<>> => Len(removing) # 1
      BY <1>4
    <3> QED
      BY <1>3, <1>6, <3>1
  <2>3. owner'["queue"] = "main" => removing' # <<>>
    <3>1. Len(removing) # 1 => removing' # <<>>
      BY <1>4
    <3> QED
      BY <1>6, <3>1
  <2>4. owner'["queue"] \in {"main", "none"}
    BY <1>1, <1>6
  <2> QED
    BY <2>1, <2>2, <2>3, <2>4 DEF Senders
<1>8. Holders(owner', failed, pc["download"], pc["apply"], removing')
  BY <1>2, <1>6, <1>7 DEF Holders, HeldWhile
<1> QED
  BY <1>4, <1>5, <1>8

LEMMA RemoveAllKeeps ==
    ASSUME ScheduleInv, NEW t \in Thread, remove_all(t)
    PROVE  ScheduleInv'
<1>1. /\ cur' = cur /\ min_time' = min_time /\ up' = up /\ now' = now /\ here' = here
      /\ last' = last /\ ctime' = ctime /\ restarts' = restarts /\ raised' = raised
      /\ accepted' = accepted /\ cut' = cut /\ missed' = missed /\ failed' = failed
      /\ started' = started /\ pc' = pc /\ file' = file
      /\ list' = [list EXCEPT ![t] = <<>>]
  BY DEF remove_all, threadVars
<1>2. /\ BaseInv /\ OrderInv /\ KeptInv /\ Thread = {"download", "apply"} /\ TypeOK /\ Known
      /\ Places /\ HandedFirst /\ Listed /\ Settled /\ Down
      /\ Mutex = {"send", "queue", "schedule", "apply"}
  BY DEF ScheduleInv, BaseInv, OrderInv, Thread, Mutex
<1>3. up
  BY <1>2 DEF Down, TypeOK, remove_all
<1>4. /\ list[t] \in Seq(Request) /\ InOrder(list[t]) /\ tree \in Tree
      /\ InOrder(RecordsOf(t, tree)) /\ ToSet(RecordsOf(t, tree)) \subseteq ToSet(list[t])
  BY <1>2, <1>3, Facts DEF Listed, RecordsOf
<1>5. /\ tree' \in Tree /\ tree'.done = tree.done /\ RecordsOf(t, tree') = <<>>
      /\ \A v \in Thread : v # t => RecordsOf(v, tree') = RecordsOf(v, tree)
  <2>1. tree' = DeleteAll(t, tree)
    BY DEF remove_all
  <2> QED
    BY <1>4, <2>1, Emptied
<1>6. /\ list' \in [Thread -> Seq(Request)] /\ list'[t] = <<>> /\ ToSet(list'[t]) = {}
      /\ \A v \in Thread : v # t => list'[v] = list[v]
      /\ ToSet(<<>>) = {} /\ Apart(<<>>) /\ InOrder(<<>>)
  <2>1. list \in [Thread -> Seq(Request)] /\ <<>> \in Seq(Request)
    BY <1>2 DEF TypeOK
  <2>2. ToSet(<<>>) = {} /\ Apart(<<>>) /\ InOrder(<<>>)
    BY DEF ToSet, Apart, InOrder
  <2> QED
    BY <1>1, <2>1, <2>2
<1>7. /\ removed \subseteq removed' /\ removed' \subseteq Id
      /\ \A x \in ToSet(list[t]) : x.id \in removed'
  <2>1. \A x \in ToSet(list[t]) : x.id \in Id
    BY Facts
  <2>2. removed' = removed \union Ids(list[t])
    BY DEF remove_all
  <2> QED
    BY <1>2, <2>1, <2>2 DEF Ids, TypeOK
<1>8. count' \in Int
  BY <1>2, <1>4, ElementsOf DEF TypeOK, remove_all
<1>9. AtOnce' <=> AtOnce
  BY <1>1 DEF AtOnce
<1>10. /\ \A v \in Thread : ToSet(list'[v]) \subseteq ToSet(list[v]) /\ InOrder(list'[v])
       /\ tree'.requests = <<>> \/ tree'.requests = tree.requests
       /\ tree'.applies = <<>> \/ tree'.applies = tree.applies
       /\ ToSet(tree'.requests) \subseteq ToSet(tree.requests)
       /\ ToSet(tree'.applies) \subseteq ToSet(tree.applies)
  <2>1. \A v \in Thread : ToSet(list'[v]) \subseteq ToSet(list[v]) /\ InOrder(list'[v])
    BY <1>2, <1>6 DEF OrderInv
  <2>2. /\ tree'.requests = <<>> \/ tree'.requests = tree.requests
        /\ tree'.applies = <<>> \/ tree'.applies = tree.applies
    BY <1>2, <1>5 DEF RecordsOf
  <2> QED
    BY <1>6, <2>1, <2>2
<1>11. removing' \in Seq(Thread) /\ owner' \in [Mutex -> Thread \union {"main", "none"}]
  BY RemovalReleases
<1>12. TypeOK'
  BY <1>1, <1>2, <1>5, <1>6, <1>7, <1>8, <1>11 DEF TypeOK
<1>13. Numbered' /\ NotEarly' /\ Fresh' /\ Down' /\ Places' /\ Chosen' /\ Way'
  BY <1>1, <1>2, <1>3, <1>5, <1>9 DEF BaseInv, Numbered, NotEarly, Fresh, Down, Places, Chosen, Way
<1>14. Known'
  BY <1>1, <1>2, <1>10 DEF Known
<1>15. ASSUME NEW v \in Thread PROVE Walked(v)'
  <2>1. CASE v = t
    <3>1. list'[v] = <<>> /\ DOMAIN <<>> = {}
      BY <1>6, <2>1
    <3> QED
      BY <3>1 DEF Walked
  <2>2. CASE v # t
    BY <1>1, <1>2, <1>6, <2>2 DEF BaseInv, Walked
  <2> QED
    BY <2>1, <2>2
<1>16. BaseInv'
  BY <1>12, <1>13, <1>14, <1>15 DEF BaseInv
<1>17. (\A v \in Thread : InOrder(list'[v])) /\ FirstOfTwins' /\ FirstOver' /\ Unrecorded'
  BY <1>1, <1>2, <1>10 DEF OrderInv, FirstOfTwins, FirstOver, Unrecorded
<1>18. HandedFirst'
  <2>1. \A v \in Thread : Held(v)' \subseteq Held(v)
    BY <1>1, <1>10 DEF Held
  <2> QED
    BY <1>1, <1>2, <2>1 DEF HandedFirst
<1>19. Books(tree)' /\ Books(file)'
  <2>1. Apart(tree'.requests) /\ InOrder(tree'.applies)
    BY <1>2, <1>6, <1>10 DEF OrderInv, Books
  <2> QED
    BY <1>1, <1>2, <1>5, <1>10, <2>1 DEF OrderInv, Books
<1>20. Listed'
  <2>1. CASE t = "download"
    <3>1. tree'.requests = <<>> /\ tree'.applies = tree.applies /\ list'["apply"] = list["apply"]
      BY <1>2, <1>5, <1>6, <2>1 DEF RecordsOf
    <3> QED
      BY <1>2, <1>3, <1>6, <3>1 DEF Listed
  <2>2. CASE t = "apply"
    <3>1. tree'.applies = <<>> /\ tree'.requests = tree.requests
          /\ list'["download"] = list["download"]
      BY <1>2, <1>5, <1>6, <2>2 DEF RecordsOf
    <3> QED
      BY <1>2, <1>3, <1>6, <3>1 DEF Listed
  <2> QED
    BY <1>2, <2>1, <2>2
<1>21. Settled'
  BY <1>1, <1>2, <1>5, <1>9, <1>10 DEF Settled
<1>22. OrderInv'
  BY <1>17, <1>18, <1>19, <1>20, <1>21 DEF OrderInv
<1>23. Ended'
  <2>1. pc["download"] = "finish" =>
          \/ Reported(cur["download"].id) \/ cur["download"].id \in removed'
          \/ cur["download"] \in ToSet(list'["apply"])
          \/ raised[cur["download"].id] > 0
    <3>1. pc["download"] = "finish" =>
            \/ Reported(cur["download"].id) \/ cur["download"].id \in removed
            \/ cur["download"] \in ToSet(list["apply"])
            \/ raised[cur["download"].id] > 0
      BY <1>2 DEF KeptInv, Ended
    <3>2. cur["download"] \in ToSet(list["apply"]) =>
            cur["download"].id \in removed' \/ cur["download"] \in ToSet(list'["apply"])
      BY <1>2, <1>6, <1>7
    <3> QED
      BY <1>7, <3>1, <3>2
  <2>2. \A i : Reported(i)' <=> Reported(i)
    BY <1>1 DEF Reported
  <2>3. \A i \in file'.done : i \in tree'.done \/ i \in failed'
    BY <1>1, <1>2, <1>5 DEF KeptInv, Ended
  <2> QED
    BY <1>1, <1>2, <2>1, <2>2, <2>3 DEF KeptInv, Ended
<1>24. ASSUME NEW r \in accepted' \ Twins' PROVE Kept(r)'
  <2>1. r \in accepted \ Twins
    BY <1>1, <1>24 DEF Twins
  <2>2. Kept(r) /\ InFlight' = InFlight
    BY <1>1, <1>2, <2>1 DEF KeptInv, InFlight
  <2>3. CASE Excused(r.id) \/ r.id \in removed'
    BY <1>1, <1>7, <2>3 DEF Kept, Excused
  <2>4. CASE ~Excused(r.id) /\ r.id \notin removed'
    <3>1. r \notin ToSet(list[t])
      BY <1>7, <2>4
    <3>2. r \notin ToSet(RecordsOf(t, tree))
      BY <1>4, <3>1
    <3>3. \A v \in Thread : r \in ToSet(RecordsOf(v, tree)) => r \in ToSet(RecordsOf(v, tree'))
      BY <1>5, <3>2
    <3>4. OnRecord(tree, r) => OnRecord(tree', r)
      BY <1>2, <1>5, <3>3 DEF OnRecord, RecordsOf
    <3>5. /\ OnRecord(tree', r) \/ r.id \in InFlight'
          /\ OnRecord(file', r) \/ r.id \in InFlight'
      BY <1>1, <2>2, <2>4, <3>4 DEF Kept
    <3>6. \A v \in Thread : r \in ToSet(list[v]) => r \in ToSet(list'[v])
      BY <1>6, <3>1
    <3>7. \/ r \in ToSet(list'["download"]) \/ r \in ToSet(list'["apply"])
          \/ raised'[r.id] > 0 \/ r.id \in file'.done
      BY <1>1, <1>2, <1>3, <2>2, <2>4, <3>6 DEF Kept
    <3> QED
      BY <3>5, <3>7 DEF Kept
  <2> QED
    BY <2>3, <2>4
<1>25. Mutexes'
  BY <1>1, <1>12, RemovalReleases, MutexesAre
<1> QED
  BY <1>16, <1>22, <1>23, <1>24, <1>25 DEF ScheduleInv, KeptInv

LEMMA InFlightIds ==
    ASSUME ScheduleInv
    PROVE  InFlight \subseteq Id
<1>1. Places /\ Thread = {"download", "apply"}
  BY DEF ScheduleInv, BaseInv, Thread
<1>2. \A t \in Thread : pc[t] \in Flying => cur[t].id \in Id
  <2>1. pc["download"] \in Flying => cur["download"] # None
    BY <1>1 DEF Places, Flying, Idle, Now, Late
  <2>2. pc["apply"] \in Flying => cur["apply"] # None
    BY <1>1 DEF Places, Flying, Idle, Now, Late
  <2> QED
    BY <1>1, <2>1, <2>2, Facts
<1> QED
  BY <1>2, InFlightIs

LEMMA StopKeeps ==
    ASSUME ScheduleInv, Stop, cut' = cut \union InFlight
    PROVE  ScheduleInv'
<1>1. /\ now' = now /\ file' = file /\ restarts' = restarts /\ accepted' = accepted
      /\ removed' = removed /\ failed' = failed /\ missed' = missed /\ started' = started
      /\ tree' = file /\ ~up' /\ up' \in BOOLEAN /\ restarts < MaxRestarts /\ count' = 0
  BY DEF Stop
<1>2. /\ BaseInv /\ OrderInv /\ KeptInv /\ Thread = {"download", "apply"} /\ TypeOK /\ Known
      /\ Mutex = {"send", "queue", "schedule", "apply"} /\ file \in Tree
  BY Facts DEF ScheduleInv, BaseInv, OrderInv, Thread, Mutex
<1>3. /\ \A v \in Thread : /\ list'[v] = <<>> /\ ToSet(list'[v]) = {} /\ pc'[v] = "down"
                           /\ cur'[v] = None /\ min_time'[v] = 0 /\ ctime'[v] = 0
                           /\ here'[v] = None
      /\ removing' = <<>> /\ list' \in [Thread -> Seq(Request)] /\ \A m \in Mutex : owner'[m] = "none"
      /\ InOrder(<<>>)
  BY DEF Stop, ToSet, InOrder
<1>4. TypeOK'
  <2>1. 0 \in Time /\ 0 \in Int
    BY WindowsAssumption DEF Time
  <2>2. /\ owner' \in [Mutex -> Thread \union {"main", "none"}] /\ pc' \in [Thread -> Place]
        /\ cur' \in [Thread -> Request \union {None}] /\ min_time' \in [Thread -> Time]
        /\ ctime' \in [Thread -> Time] /\ raised' \in [Id -> Nat]
    BY <2>1 DEF Stop, Place
  <2>4. /\ here' \in [Thread -> Request \union {None}] /\ last' \in [Thread -> BOOLEAN]
        /\ removing' \in Seq(Thread)
    BY DEF Stop
  <2>3. cut' \subseteq Id
    BY <1>2, InFlightIds DEF TypeOK
  <2> QED
    BY <1>1, <1>2, <1>3, <2>1, <2>2, <2>3, <2>4 DEF TypeOK, Place
<1>5. Numbered' /\ NotEarly' /\ Fresh'
  BY <1>1, <1>2 DEF BaseInv, Numbered, NotEarly, Fresh
<1>6. Known' /\ Down'
  BY <1>1, <1>2, <1>3 DEF Known, Down
<1>7. Places' /\ Chosen' /\ Way'
  <2>1. 0 <= now
    BY Facts
  <2> QED
    BY <1>1, <1>2, <1>3, <2>1 DEF Places, Chosen, Way, Idle, Now, Late
<1>13. \A v \in Thread : Walked(v)'
  BY <1>3 DEF Walked
<1>8. BaseInv'
  BY <1>4, <1>5, <1>6, <1>7, <1>13 DEF BaseInv
<1>9. OrderInv'
  <2>1. /\ \A v \in Thread : InOrder(list'[v])
        /\ FirstOfTwins' /\ FirstOver' /\ HandedFirst' /\ Settled'
    BY <1>1, <1>2, <1>3 DEF FirstOfTwins, FirstOver, HandedFirst, Held, Settled
  <2>2. Unrecorded' /\ Listed'
    BY <1>1, <1>2, <1>3 DEF Unrecorded, Listed, Launched, Idle, Now, Late
  <2>3. Books(tree)' /\ Books(file)'
    BY <1>1, <1>2 DEF OrderInv, Books
  <2> QED
    BY <2>1, <2>2, <2>3 DEF OrderInv
<1>10. Ended'
  BY <1>1, <1>2, <1>3 DEF Ended
<1>11. ASSUME NEW r \in accepted' \ Twins' PROVE Kept(r)'
  <2>1. r \in accepted \ Twins
    BY <1>1, <1>11 DEF Twins
  <2>2. Kept(r)
    BY <1>2, <2>1 DEF KeptInv
  <2> QED
    BY <1>1, <2>2 DEF Kept, Excused, OnRecord
<1>12. Mutexes'
  BY <1>2, <1>3 DEF Mutexes, MutexesReleased, SecondWindow, Idle, Now, Late
<1> QED
  BY <1>8, <1>9, <1>10, <1>11, <1>12 DEF ScheduleInv, KeptInv

LEMMA RestartKeeps ==
    ASSUME ScheduleInv, restart
    PROVE  ScheduleInv'
<1>1. /\ now' = now /\ file' = file /\ tree' = tree /\ owner' = owner /\ cur' = cur
      /\ min_time' = min_time /\ ctime' = ctime /\ accepted' = accepted
      /\ here' = here /\ last' = last /\ removing' = removing
      /\ removed' = removed /\ failed' = failed /\ missed' = missed /\ started' = started
      /\ cut' = cut /\ restarts' = restarts + 1 /\ ~up /\ up' = TRUE
  BY DEF restart
<1>2. /\ BaseInv /\ OrderInv /\ KeptInv /\ Thread = {"download", "apply"} /\ TypeOK /\ Known
      /\ Mutex = {"send", "queue", "schedule", "apply"} /\ file \in Tree /\ Books(file) /\ Down
  BY Facts DEF ScheduleInv, BaseInv, OrderInv, Thread, Mutex
<1>3. /\ tree = file /\ restarts < MaxRestarts /\ \A m \in Mutex : owner[m] = "none"
      /\ \A v \in Thread : pc[v] = "down" /\ cur[v] = None /\ min_time[v] = 0 /\ here[v] = None
      /\ removing = <<>>
  BY <1>1, <1>2 DEF Down, ScheduleInv, Mutexes
<1>4. /\ file.applies \in Seq(Request) /\ file.requests \in Seq(Request)
      /\ Loaded \in Seq(Request) /\ ToSet(Loaded) = ToSet(file.requests) /\ InOrder(Loaded)
  <2>1. file.applies \in Seq(Request) /\ file.requests \in Seq(Request)
    BY <1>2, TreeFields
  <2> QED
    BY <1>2, <2>1, LoadedEntries DEF Books
<1>5. /\ list' \in [Thread -> Seq(Request)]
      /\ list'["download"] = Loaded /\ list'["apply"] = file.applies
      /\ \A v \in Thread : pc'[v] = "look"
  BY <1>2, <1>4 DEF restart, load_apply_schedule_download
<1>6. TypeOK'
  <2>1. raised' \in [Id -> Nat] /\ pc' \in [Thread -> Place] /\ count' \in Int
    BY <1>4 DEF restart, Place
  <2>2. restarts' \in 0 .. MaxRestarts
    BY <1>1, <1>2, <1>3, WindowsAssumption DEF TypeOK
  <2> QED
    BY <1>1, <1>2, <1>5, <2>1, <2>2 DEF TypeOK, Place
<1>7. Numbered' /\ NotEarly' /\ Fresh' /\ Down'
  BY <1>1, <1>2 DEF BaseInv, Numbered, NotEarly, Fresh, Down
<1>8. Known'
  BY <1>1, <1>2, <1>3, <1>4, <1>5 DEF Known
<1>9. Places' /\ Chosen' /\ Way'
  BY <1>1, <1>2, <1>3, <1>5 DEF BaseInv, Places, Chosen, Way, Idle, Now, Late
<1>15. \A v \in Thread : Walked(v)'
  BY <1>1, <1>3 DEF Walked
<1>10. BaseInv'
  BY <1>6, <1>7, <1>8, <1>9, <1>15 DEF BaseInv
<1>11. OrderInv'
  <2>1. (\A v \in Thread : InOrder(list'[v])) /\ FirstOfTwins' /\ FirstOver'
    BY <1>1, <1>2, <1>3, <1>4, <1>5 DEF FirstOfTwins, FirstOver, Books
  <2>2. HandedFirst'
    <3>1. Held("apply")' = ToSet(file.applies) /\ Held("download")' = ToSet(file.requests)
      BY <1>1, <1>2, <1>3, <1>4, <1>5 DEF Held
    <3> QED
      BY <1>2, <3>1 DEF HandedFirst, Books
  <2>3. Unrecorded' /\ Listed'
    BY <1>1, <1>2, <1>3, <1>4, <1>5 DEF Unrecorded, Listed, Launched, Idle, Now, Late
  <2>4. Books(tree)' /\ Books(file)'
    BY <1>1, <1>2 DEF OrderInv, Books
  <2>5. Settled'
    BY <1>1, <1>2, <1>3, <1>4, <1>5 DEF Settled, Books
  <2> QED
    BY <2>1, <2>2, <2>3, <2>4, <2>5 DEF OrderInv
<1>12. Ended'
  BY <1>1, <1>2, <1>5 DEF KeptInv, Ended
<1>13. ASSUME NEW r \in accepted' \ Twins' PROVE Kept(r)'
  <2>1. r \in accepted \ Twins
    BY <1>1, <1>13 DEF Twins
  <2>2. Kept(r) /\ InFlight = {}
    BY <1>2, <1>3, <2>1, InFlightIs DEF KeptInv, Flying
  <2>3. OnRecord(file, r) => \/ r \in ToSet(list'["download"]) \/ r \in ToSet(list'["apply"])
                             \/ r.id \in file.done
    BY <1>4, <1>5 DEF OnRecord
  <2> QED
    BY <1>1, <2>2, <2>3 DEF Kept, Excused, OnRecord
<1>14. Mutexes'
  BY <1>1, <1>2, <1>3, <1>5 DEF Mutexes, MutexesReleased, SecondWindow, Idle, Now, Late
<1> QED
  BY <1>10, <1>11, <1>12, <1>13, <1>14 DEF ScheduleInv, KeptInv

-----------------------------------------------------------------------------
(***************************************************************************)
(* The theorems.                                                           *)
(***************************************************************************)
LEMMA ScheduleInit ==
    ASSUME Init
    PROVE  ScheduleInv
<1>1. /\ now = 1 /\ count = 0 /\ tree = Empty /\ file = Empty /\ up = TRUE /\ restarts = 0
      /\ accepted = {} /\ removed = {} /\ failed = {} /\ cut = {} /\ missed = {}
      /\ Thread = {"download", "apply"} /\ Mutex = {"send", "queue", "schedule", "apply"}
  BY DEF Init, Thread, Mutex
<1>2. /\ \A t \in Thread : /\ list[t] = <<>> /\ ToSet(list[t]) = {} /\ pc[t] = "look"
                           /\ cur[t] = None /\ min_time[t] = 0 /\ ctime[t] = 0
                           /\ here[t] = None
      /\ removing = <<>>
      /\ \A m \in Mutex : owner[m] = "none"
      /\ \A i \in Id : raised[i] = 0 /\ started[i] = 0
      /\ ToSet(<<>>) = {} /\ InOrder(<<>>) /\ Apart(<<>>)
  BY DEF Init, ToSet, InOrder, Apart
<1>3. Empty \in Tree /\ Empty.requests = <<>> /\ Empty.applies = <<>> /\ Empty.done = {}
  BY DEF Empty, Tree
<1>4. TypeOK
  <2>1. 0 \in Time /\ 1 \in 1 .. MaxTime /\ 0 \in 0 .. MaxRestarts
    BY WindowsAssumption DEF Time
  <2>2. /\ owner \in [Mutex -> Thread \union {"main", "none"}] /\ pc \in [Thread -> Place]
        /\ cur \in [Thread -> Request \union {None}] /\ min_time \in [Thread -> Time]
        /\ ctime \in [Thread -> Time] /\ raised \in [Id -> Nat] /\ started \in [Id -> Nat]
        /\ list \in [Thread -> Seq(Request)]
    BY <2>1 DEF Init, Place
  <2>3. /\ here \in [Thread -> Request \union {None}] /\ last \in [Thread -> BOOLEAN]
        /\ removing \in Seq(Thread)
    BY DEF Init
  <2> QED
    BY <1>1, <1>3, <2>1, <2>2, <2>3 DEF TypeOK, Place
<1>5. BaseInv
  <2>1. IsFiniteSet({})
    BY FS_EmptySet
  <2>2. Numbered /\ Fresh /\ NotEarly
    BY <1>1, <1>2, <1>3, <2>1 DEF Numbered, Fresh, NotEarly
  <2>3. Known
    BY <1>1, <1>2, <1>3 DEF Known
  <2>4. Down /\ Places /\ Chosen /\ Way
    BY <1>1, <1>2 DEF Down, Places, Chosen, Way, Idle, Now, Late
  <2>5. \A t \in Thread : Walked(t)
    BY <1>2 DEF Walked
  <2> QED
    BY <1>4, <2>2, <2>3, <2>4, <2>5 DEF BaseInv
<1>6. Mutexes
  BY <1>1, <1>2 DEF Mutexes, MutexesReleased, SecondWindow, Idle, Now, Late
<1>7. OrderInv
  <2>1. (\A t \in Thread : InOrder(list[t])) /\ FirstOfTwins /\ FirstOver /\ HandedFirst
    BY <1>1, <1>2 DEF FirstOfTwins, FirstOver, HandedFirst, Held
  <2>2. Unrecorded /\ Listed /\ Settled
    BY <1>1, <1>2, <1>3 DEF Unrecorded, Listed, Settled, Launched, Idle, Now, Late
  <2>3. Books(tree) /\ Books(file)
    BY <1>1, <1>2, <1>3 DEF Books
  <2> QED
    BY <2>1, <2>2, <2>3 DEF OrderInv
<1>8. KeptInv
  <2>1. Ended
    BY <1>1, <1>2, <1>3 DEF Ended
  <2> QED
    BY <1>1, <2>1 DEF KeptInv
<1> QED
  BY <1>5, <1>6, <1>7, <1>8 DEF ScheduleInv

LEMMA ScheduleStep ==
    ASSUME ScheduleInv, [Next]_vars
    PROVE  ScheduleInv'
<1>1. CASE session_begin \/ session_end
  BY <1>1, SessionKeeps
<1>2. CASE cwmp_root_cause_event_bootstrap
  BY <1>2, BootstrapKeeps
<1>10. CASE \E t \in Thread : remove_all(t)
  BY <1>10, RemoveAllKeeps
<1>3. ASSUME NEW w \in Windows, NEW m1 \in Modes, NEW m2 \in Modes, NEW image \in Images,
             NEW wellFormed \in BOOLEAN,
             cwmp_handle_rpc_cpe_schedule_download(w, m1, m2, image, wellFormed)
      PROVE  ScheduleInv'
  BY <1>3, RequestKeeps
<1>4. CASE thread_cwmp_rpc_cpe_schedule_download
  <2>1. "download" \in Thread
    BY DEF Thread
  <2> QED
    BY <1>4, <2>1, WalkKeeps, ExpireKeeps, ExpiredKeeps, WaitKeeps, SleepKeeps, RunIdleKeeps, UnlinkIdleKeeps, RunNowKeeps,
       HandKeeps, FinishNowKeeps DEF thread_cwmp_rpc_cpe_schedule_download
<1>5. CASE thread_cwmp_rpc_cpe_apply_schedule_download
  <2>1. "apply" \in Thread
    BY DEF Thread
  <2> QED
    BY <1>5, <2>1, WalkKeeps, ExpireKeeps, ExpiredKeeps, WaitKeeps, SleepKeeps, RunLateKeeps
       DEF thread_cwmp_rpc_cpe_apply_schedule_download
<1>6. CASE crash \/ ExitApplied \/ ListDelFreed
  BY <1>6, StopKeeps DEF crash, ExitApplied, ListDelFreed
<1>7. CASE restart
  BY <1>7, RestartKeeps
<1>8. CASE tick
  BY <1>8, TickKeeps
<1>9. CASE UNCHANGED vars
  BY <1>9, StutterKeeps
<1> QED
  BY <1>1, <1>2, <1>3, <1>4, <1>5, <1>6, <1>7, <1>8, <1>9, <1>10 DEF Next, Session

(* All of it holds in every state of the threads, the handler and the      *)
(* restarts of ScheduleDownload (xml.c).                                   *)
THEOREM ScheduleInvariant == Spec => []ScheduleInv
<1>1. Init => ScheduleInv
  BY ScheduleInit
<1>2. ScheduleInv /\ [Next]_vars => ScheduleInv'
  BY ScheduleStep
<1> QED
  BY <1>1, <1>2, PTL DEF Spec

(* cwmp_launch_schedule_download never starts a transfer before the first  *)
(* window of its request begins, whatever the loop has kept in min_time    *)
(* and current_download from an earlier turn.                              *)
THEOREM NotEarlyHolds == Spec => []NotEarly
<1>1. ScheduleInv => NotEarly
  BY DEF ScheduleInv, BaseInv
<1> QED
  BY <1>1, ScheduleInvariant, PTL

(* What the backup file holds of pending and of done requests is apart,    *)
(* and mutex_session_send, mutex_schedule_download and                     *)
(* mutex_apply_schedule_download are held between lock and unlock only.    *)
THEOREM ListsConsistentHolds == Spec => []ListsConsistent
<1>1. ScheduleInv => ListsConsistent
  <2>1. SUFFICES ASSUME ScheduleInv PROVE ListsConsistent
    OBVIOUS
  <2>2. TypeOK /\ MutexesReleased /\ Books(file)
    <3>1. TypeOK
      BY <2>1 DEF ScheduleInv, BaseInv
    <3>2. MutexesReleased
      BY <2>1 DEF ScheduleInv, Mutexes
    <3>3. Books(file)
      BY <2>1 DEF ScheduleInv, OrderInv
    <3> QED
      BY <3>1, <3>2, <3>3
  <2>3. NeverBoth
    BY <2>2 DEF NeverBoth, Ids, Books
  <2> QED
    BY <2>2, <2>3 DEF ListsConsistent
<1> QED
  BY <1>1, ScheduleInvariant, PTL

(* An accepted request is in one of the lists, was reported or is on       *)
(* record, through hand-overs between the threads, changes of the ACS, the *)
(* end of the process at any point, and restarts.                          *)
THEOREM NothingLostHolds == Spec => []NothingLost
<1>1. ScheduleInv => NothingLost
  BY DEF ScheduleInv, KeptInv, Kept, Excused, NothingLost
<1> QED
  BY <1>1, ScheduleInvariant, PTL
=============================================================================
