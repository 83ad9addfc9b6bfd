--------------------------- MODULE ScheduleInform ---------------------------
(***************************************************************************)
(* ScheduleInform (xml.c): the handler, the thread that raises the events  *)
(* of the entries that are due, the removal of all entries at a change of  *)
(* the ACS URL, and the records in the backup file.                        *)
(*                                                                         *)
(* mutex_schedule_inform is held over several actions by the removal only, *)
(* which holds mutex_session_queue too.  The thread reads the head of the  *)
(* list without it; an entry that is freed meanwhile is used with the      *)
(* content it had.                                                         *)
(***************************************************************************)
EXTENDS Naturals, Integers, Sequences, FiniteSets, SequencesExt

CONSTANTS
    Keys,           \* command keys
    Delays,         \* values of DelaySeconds, in ticks
    Ops,            \* "bootstrap", "crash": what else may happen
    MaxQueue,       \* MAX_SCHEDULE_INFORM_QUEUE
    MaxRequests,    \* bound: accepted entries
    MaxTime,        \* bound: the clock
    MaxRestarts     \* bound: restarts of the process

ASSUME InformAssumption ==
    /\ Delays \subseteq Nat /\ MaxQueue \in Nat /\ MaxRequests \in Nat
    /\ MaxTime \in Nat \ {0} /\ MaxRestarts \in Nat

VARIABLES
    now,        \* time(NULL)
    list,       \* list_schedule_inform
    count,      \* count_schedule_inform_queue
    pc, cur,    \* the thread: its place, and the entry it has read
    same,       \* add_event_same_time
    removing,   \* the removal of all entries is under way
    answer,     \* the fault of the last request, "ok" if none
    tree, file, \* records
    up,         \* the process runs
    restarts,
    \* history
    accepted,   \* entries ever accepted
    raised,     \* M ScheduleInform events saved, per entry
    dropped,    \* entries taken from the list without an event
    removed     \* entries discarded with the ACS URL

vars == <<now, list, count, pc, cur, same, removing, answer, tree, file, up, restarts,
          accepted, raised, dropped, removed>>

-----------------------------------------------------------------------------
Id == 1 .. MaxRequests
Entry == [id : Id, key : Keys, time : 1 .. MaxTime]
None == [id |-> 0, key |-> "", time |-> 0]
ThreadPc == {"look", "towait", "waiting", "tosleep", "sleeping", "woken",
             "drop", "raise", "raising", "unlink", "down", "load"}

TypeOK ==
    /\ now \in 1 .. MaxTime
    /\ list \in Seq(Entry) /\ count \in Int
    /\ pc \in ThreadPc /\ cur \in Entry \union {None} /\ same \in BOOLEAN
    /\ removing \in BOOLEAN
    /\ answer \in {"ok", "invalid", "resources"}
    /\ tree \in Seq(Entry) /\ file \in Seq(Entry)
    /\ up \in BOOLEAN /\ restarts \in 0 .. MaxRestarts
    /\ accepted \subseteq Entry /\ raised \in [Id -> Nat]
    /\ dropped \subseteq Id /\ removed \subseteq Id

Ids(s) == {e.id : e \in ToSet(s)}

(* Inserted before the first entry of that time or a later one. *)
InsertBefore(s, e, time) ==
    LET at == SelectInSeq(s, LAMBDA x : x.time >= time)
    IN  IF at = 0 THEN Append(s, e) ELSE InsertAt(s, at, e)

(* A record is found by its command key and its time. *)
Same(x, e) == x.key = e.key /\ x.time = e.time

bkp_session_insert_schedule_inform(t, e) ==
    IF \E x \in ToSet(t) : Same(x, e) THEN t ELSE Append(t, e)

bkp_session_delete_schedule_inform(t, e) ==
    LET at == SelectInSeq(t, LAMBDA x : Same(x, e))
    IN  IF at = 0 THEN t ELSE RemoveAt(t, at)

-----------------------------------------------------------------------------
Fault(delay) ==
    IF delay = 0 THEN "invalid" ELSE IF count >= MaxQueue THEN "resources" ELSE "ok"

(* pthread_cond_signal(threshold_schedule_inform). *)
Signalled == pc' = IF pc \in {"waiting", "sleeping"} THEN "woken" ELSE pc

(* Mutant: the request is not saved. *)
AcceptUnsaved(e) ==
    /\ count' = count + 1
    /\ list' = InsertBefore(list, e, e.time)
    /\ tree' = bkp_session_insert_schedule_inform(tree, e)
    /\ file' = file

Accept(e) ==
    /\ count' = count + 1
    /\ list' = InsertBefore(list, e, e.time)
    /\ tree' = bkp_session_insert_schedule_inform(tree, e)
    /\ file' = tree'

cwmp_handle_rpc_cpe_schedule_inform(key, delay) ==
    /\ up /\ ~removing
    /\ answer' = Fault(delay)
    /\ IF answer' = "ok"
       THEN LET e == [id |-> Cardinality(accepted) + 1, key |-> key, time |-> now + delay]
            IN  /\ e.id \in Id /\ e.time <= MaxTime
                /\ Accept(e)
                /\ Signalled
                /\ accepted' = accepted \union {e}
       ELSE UNCHANGED <<list, count, pc, tree, file, accepted>>
    /\ UNCHANGED <<now, cur, same, removing, up, restarts, raised, dropped, removed>>

(* cwmp_root_cause_event_bootstrap calls it with mutex_session_queue held, *)
(* so not while the thread saves its two events.  The count stays.         *)
RemoveHead ==
    /\ up /\ list # <<>>
    /\ removing \/ ("bootstrap" \in Ops /\ pc # "raising")
    /\ removing' = TRUE
    /\ list' = Tail(list)
    /\ tree' = bkp_session_delete_schedule_inform(tree, Head(list))
    /\ removed' = removed \union {Head(list).id}
    /\ UNCHANGED <<now, count, pc, cur, same, answer, file, up, restarts, accepted, raised,
                   dropped>>

RemoveEnd ==
    /\ removing /\ list = <<>>
    /\ removing' = FALSE /\ file' = tree
    /\ UNCHANGED <<now, list, count, pc, cur, same, answer, tree, up, restarts, accepted,
                   raised, dropped, removed>>

cwmp_scheduleInform_remove_all == RemoveHead \/ RemoveEnd

-----------------------------------------------------------------------------
(* The loop of the thread. *)
Quiet == UNCHANGED <<now, list, count, removing, answer, tree, up, restarts, accepted, raised,
                     dropped, removed>>

SavedBeforeWait == file' = tree

Look ==
    /\ pc = "look"
    /\ IF list = <<>>
       THEN /\ pc' = "towait" /\ same' = FALSE /\ UNCHANGED cur
            /\ SavedBeforeWait
       ELSE /\ cur' = Head(list)
            /\ IF now >= Head(list).time
               THEN /\ pc' = IF same THEN "drop" ELSE "raise"
                    /\ UNCHANGED <<same, file>>
               ELSE pc' = "tosleep" /\ same' = FALSE /\ SavedBeforeWait
    /\ Quiet

(* Mutant: the wait of the empty list. *)
WaitForEver ==
    /\ \/ pc \in {"towait", "tosleep"} /\ pc' = "waiting"
       \/ pc = "sleeping" /\ now >= cur.time /\ pc' = "woken"
       \/ pc = "woken" /\ pc' = "look"
    /\ pc # "sleeping" => ~removing
    /\ Quiet /\ UNCHANGED <<cur, same, file>>

Wait ==
    /\ \/ pc = "towait" /\ pc' = "waiting"
       \/ pc = "tosleep" /\ pc' = "sleeping"
       \/ pc = "sleeping" /\ now >= cur.time /\ pc' = "woken"
       \/ pc = "woken" /\ pc' = "look"
    /\ pc # "sleeping" => ~removing
    /\ Quiet /\ UNCHANGED <<cur, same, file>>

(* A due entry that follows one just reported goes without an event, and   *)
(* without the count.                                                      *)
Drop ==
    /\ pc = "drop" /\ ~removing
    /\ list' = RemoveFirst(list, cur)
    /\ tree' = bkp_session_delete_schedule_inform(tree, cur)
    /\ dropped' = dropped \union {cur.id}
    /\ pc' = "look"
    /\ UNCHANGED <<now, count, cur, same, removing, answer, file, up, restarts, accepted,
                   raised, removed>>

(* SCHEDULED, then M ScheduleInform; each is saved, and with it the tree. *)
RaiseScheduled ==
    /\ pc = "raise" /\ ~removing
    /\ file' = tree
    /\ pc' = "raising"
    /\ Quiet /\ UNCHANGED <<cur, same>>

RaiseMethod ==
    /\ pc = "raising"
    /\ raised' = [raised EXCEPT ![cur.id] = @ + 1]
    /\ file' = tree
    /\ pc' = "unlink"
    /\ UNCHANGED <<now, list, count, cur, same, removing, answer, tree, up, restarts,
                   accepted, dropped, removed>>

Unlink ==
    /\ pc = "unlink" /\ ~removing
    /\ list' = RemoveFirst(list, cur)
    /\ tree' = bkp_session_delete_schedule_inform(tree, cur)
    /\ count' = count - 1
    /\ same' = TRUE
    /\ pc' = "look"
    /\ UNCHANGED <<now, cur, removing, answer, file, up, restarts, accepted, raised, dropped,
                   removed>>

thread_cwmp_rpc_cpe_scheduleInform ==
    Look \/ Wait \/ Drop \/ RaiseScheduled \/ RaiseMethod \/ Unlink

-----------------------------------------------------------------------------
crash ==
    /\ "crash" \in Ops /\ pc # "down" /\ restarts < MaxRestarts
    /\ up' = FALSE
    /\ list' = <<>> /\ count' = 0
    /\ pc' = "down" /\ cur' = None /\ same' = FALSE /\ removing' = FALSE
    /\ tree' = file
    /\ UNCHANGED <<now, answer, file, restarts, accepted, raised, dropped, removed>>

restart ==
    /\ pc = "down" /\ pc' = "load"
    /\ restarts' = restarts + 1
    /\ UNCHANGED <<now, list, count, cur, same, removing, answer, tree, file, up, accepted,
                   raised, dropped, removed>>

(* One record after the other, after those of the same time; it is not     *)
(* counted.  Then the threads start.                                       *)
load_schedule_inform ==
    /\ pc = "load"
    /\ IF Len(list) < Len(file)
       THEN LET e == file[Len(list) + 1]
            IN  list' = InsertBefore(list, e, e.time + 1) /\ UNCHANGED <<pc, up>>
       ELSE pc' = "look" /\ up' = TRUE /\ UNCHANGED list
    /\ UNCHANGED <<now, count, cur, same, removing, answer, tree, file, restarts, accepted,
                   raised, dropped, removed>>

tick ==
    /\ now < MaxTime
    /\ now' = now + 1
    /\ UNCHANGED <<list, count, pc, cur, same, removing, answer, tree, file, up, restarts,
                   accepted, raised, dropped, removed>>

-----------------------------------------------------------------------------
Init ==
    /\ now = 1
    /\ list = <<>> /\ count = 0
    /\ pc = "look" /\ cur = None /\ same = FALSE /\ removing = FALSE
    /\ answer = "ok"
    /\ tree = <<>> /\ file = <<>>
    /\ up = TRUE /\ restarts = 0
    /\ accepted = {} /\ raised = [i \in Id |-> 0] /\ dropped = {} /\ removed = {}

Next ==
    \/ \E key \in Keys, delay \in Delays : cwmp_handle_rpc_cpe_schedule_inform(key, delay)
    \/ cwmp_scheduleInform_remove_all
    \/ thread_cwmp_rpc_cpe_scheduleInform
    \/ crash \/ restart \/ load_schedule_inform
    \/ tick

Spec == Init /\ [][Next]_vars

(* The thread is scheduled, a removal that has begun goes on, so does the  *)
(* clock, and a stopped process is started again and loads its records.    *)
FairSpec ==
    /\ Spec
    /\ WF_vars(thread_cwmp_rpc_cpe_scheduleInform)
    /\ WF_vars(RemoveHead /\ removing) /\ WF_vars(RemoveEnd)
    /\ WF_vars(restart) /\ WF_vars(load_schedule_inform) /\ WF_vars(tick)

-----------------------------------------------------------------------------
(* Properties. *)

Twins == {e \in accepted : \E x \in accepted \ {e} : Same(x, e)}

(* The list is sorted by time, through insertions and reloads: the thread  *)
(* sleeps until the time of the head only.                                 *)
Sorted ==
    \A i, j \in DOMAIN list : i < j => list[i].time <= list[j].time

(* Without a restart no more than MAX_SCHEDULE_INFORM_QUEUE entries are    *)
(* ever pending, in spite of the entries the count forgets.                *)
Limit == restarts = 0 => Len(list) <= MaxQueue

(* Through a crash at any step, an accepted entry is pending, or its event *)
(* has been saved; apart from what the thread drops and the change of the  *)
(* ACS URL removes, and entries with the same key and time, which share a  *)
(* record.                                                                 *)
NothingLost ==
    up => \A e \in accepted \ Twins :
            \/ e.id \in dropped \union removed
            \/ e \in ToSet(list)
            \/ raised[e.id] > 0

(* Whenever the thread waits, what is in the file is what is pending: a    *)
(* reported entry is not reported again by the next process.               *)
SettledWhenWaiting ==
    pc \in {"waiting", "sleeping"} => \A e \in ToSet(file) : raised[e.id] = 0

(* With a restart at any step, an entry the thread has gone to sleep for   *)
(* is reported, dropped with another, or removed, unless another shares    *)
(* its record.                                                             *)
SleptForIsDone ==
    \A i \in Id :
      (pc = "tosleep" /\ cur.id = i)
      ~> (raised[i] > 0 \/ i \in dropped \union removed \union {e.id : e \in Twins})

(* The list is in order and within its limit, whatever the thread and a    *)
(* removal do meanwhile, a thread that waits has dealt with what it was    *)
(* signalled for, and no entry is lost, whatever crashes.                  *)
ListConsistent ==
    /\ TypeOK
    /\ Sorted
    /\ Limit
    /\ SettledWhenWaiting
    /\ NothingLost
=============================================================================
