-------------------------- MODULE ScheduleDownload --------------------------
(***************************************************************************)
(* ScheduleDownload (xml.c): downloads in one of two time windows.  Thread *)
(* "download" chooses the request whose window begins first, and runs it   *)
(* at once (mode 2) or between sessions (modes 1 and 3).  A file that is   *)
(* downloaded while a session runs is handed to thread "apply".            *)
(*                                                                         *)
(* Each thread keeps the request it has chosen, and the beginning of its   *)
(* window, from one turn of its loop to the next, even after it has freed  *)
(* it.  Freed memory is modelled with the content it had, and list_del of  *)
(* an element that is in no list ends the process (its links are null).    *)
(*                                                                         *)
(* A report takes mutex_session_queue, which main holds while it removes   *)
(* all requests.  Whoever holds mutex_session_send while main cannot run   *)
(* gets it for the moment of the report; the walk over a list and a failed *)
(* fetch of mode 2 wait for it with the mutex of their list locked.        *)
(***************************************************************************)
EXTENDS Naturals, Integers, Sequences, FiniteSets, SequencesExt

CONSTANTS
    Windows,        \* WindowStart and WindowEnd of both windows, in ticks
    Modes,          \* "now" (2 Immediately), "idle" (1 At Any Time, 3 When Idle)
    Images,         \* file types: TRUE for 1 and 3, which end the process
    Failures,       \* BOOLEAN: may the script that fetches a file fail?
    Ops,            \* "bootstrap", "crash"
    MaxQueue,       \* MAX_DOWNLOAD_QUEUE
    MaxRequests,    \* bound: accepted requests
    MaxTime,        \* bound: the clock, and the end of the windows
    MaxRestarts     \* bound: restarts of the process

ASSUME WindowsAssumption ==
    /\ \A w \in Windows : w \in [1 .. 4 -> Nat]
    /\ Modes \subseteq {"now", "idle"} /\ Images \subseteq BOOLEAN
    /\ Failures \in BOOLEAN
    /\ MaxQueue \in Nat /\ MaxRequests \in Nat
    /\ MaxTime \in Nat \ {0} /\ MaxRestarts \in Nat

VARIABLES
    now,        \* time(NULL)
    list,       \* list_schedule_download, list_apply_schedule_download
    count,      \* count_download_queue
    owner,      \* who holds each mutex
    pc,         \* each thread: its place,
    cur,        \* current_download, apply_download
    min_time,   \* min_time
    ctime,      \* current_time
    here, last, \* the entry p its walk has come to; _p was the list head
    removing,   \* the lists main has still to empty
    tree, file, \* records
    up,         \* the process runs
    restarts,
    \* history
    accepted, removed, raised, failed, cut,
    missed,     \* reported as not done within their windows
    started     \* when the transfer of a request was first started, 0 if not

threadVars == <<pc, cur, min_time, ctime, here, last>>
histVars == <<accepted, removed, raised, failed, cut, missed, started>>
vars == <<now, list, count, owner, threadVars, removing, tree, file, up,
          restarts, histVars>>

-----------------------------------------------------------------------------
Id == 1 .. MaxRequests
Time == 0 .. (MaxTime + 10)
Request == [id : Id, start : [1 .. 2 -> Time], end : [1 .. 2 -> Time],
            mode : [1 .. 2 -> Modes], image : Images]
None == [id |-> 0]
Thread == {"download", "apply"}
Mutex == {"send", "queue", "schedule", "apply"}
Tree == [requests : Seq(Request), applies : Seq(Request), done : SUBSET Id]

(* Places from the choice of a request to its end. *)
Idle == {"launch", "running", "apply", "release", "unlink"}
Walking == {"visit", "expire", "expiring"}
Now == {"launchNow", "runningNow", "faultNow", "try", "tryApply", "trySchedule", "applyNow",
        "releaseNow", "hand", "finish"}
Late == {"aLock", "aLaunch", "aSaved", "aApply", "aRelease", "aUnlink"}

TypeOK ==
    /\ now \in 1 .. MaxTime
    /\ list \in [Thread -> Seq(Request)]
    /\ count \in Int
    /\ owner \in [Mutex -> Thread \union {"main", "none"}]
    /\ pc \in [Thread -> {"look", "towait", "waiting", "woken", "tosleep", "sleeping",
                          "awake", "down"} \union Walking \union Idle \union Now \union Late]
    /\ cur \in [Thread -> Request \union {None}]
    /\ min_time \in [Thread -> Time] /\ ctime \in [Thread -> Time]
    /\ here \in [Thread -> Request \union {None}] /\ last \in [Thread -> BOOLEAN]
    /\ removing \in Seq(Thread)
    /\ tree \in Tree /\ file \in Tree
    /\ up \in BOOLEAN /\ restarts \in 0 .. MaxRestarts
    /\ accepted \subseteq Request /\ removed \subseteq Id
    /\ raised \in [Id -> Nat] /\ failed \subseteq Id /\ cut \subseteq Id /\ missed \subseteq Id
    /\ started \in [Id -> Nat]

MutexOf(t) == IF t = "download" THEN "schedule" ELSE "apply"
Free(m) == owner[m] = "none"
Take(m, t) == Free(m) /\ owner' = [owner EXCEPT ![m] = t]
Give(m) == owner' = [owner EXCEPT ![m] = "none"]

Ids(s) == {r.id : r \in ToSet(s)}
Same(x, r) == x = [r EXCEPT !.id = x.id]

DeleteRecord(s, r) ==
    LET at == SelectInSeq(s, LAMBDA x : Same(x, r))
    IN  IF at = 0 THEN s ELSE RemoveAt(s, at)

bkp_session_insert_schedule_download(t, r) ==
    IF \E x \in ToSet(t.requests) : Same(x, r) THEN t
    ELSE [t EXCEPT !.requests = Append(@, r)]

bkp_session_delete_schedule_download(t, r) ==
    [t EXCEPT !.requests = DeleteRecord(@, r)]

(* Its search has the keys in another order than the record and finds none.*)
bkp_session_insert_apply_schedule_download(t, r) == [t EXCEPT !.applies = Append(@, r)]

bkp_session_delete_apply_schedule_download(t, r) ==
    [t EXCEPT !.applies = DeleteRecord(@, r)]

Done(t, r) == [t EXCEPT !.done = @ \union {r.id}]
Undone(t, r) == [t EXCEPT !.done = @ \ {r.id}]

-----------------------------------------------------------------------------
(* The request of the ACS, in a session.  Its file type, window modes and  *)
(* URL are known, or it is refused whatever its windows are.               *)
Valid(wellFormed, w) ==
    /\ wellFormed
    /\ count < MaxQueue
    /\ \A j \in 1 .. 3 : w[j] <= w[j + 1]

(* pthread_cond_signal(threshold_schedule_download): thread "apply" waits  *)
(* on it too while it sleeps.                                              *)
Sleepers ==
    {t \in Thread : IF t = "download" THEN pc[t] \in {"waiting", "sleeping"}
                                      ELSE pc[t] = "sleeping"}
Signalled ==
    IF Sleepers = {} THEN pc' = pc
    ELSE \E t \in Sleepers :
           pc' = [pc EXCEPT ![t] = IF @ = "waiting" THEN "woken" ELSE "awake"]

(* Mutant: not saved. *)
AcceptUnsaved(r, delay) ==
    /\ list' = [list EXCEPT !["download"] = Append(@, r)]
    /\ count' = IF delay # 0 THEN count + 1 ELSE count
    /\ tree' = bkp_session_insert_schedule_download(tree, r)
    /\ file' = file

Accept(r, delay) ==
    /\ list' = [list EXCEPT !["download"] = Append(@, r)]
    /\ count' = IF delay # 0 THEN count + 1 ELSE count
    /\ tree' = bkp_session_insert_schedule_download(tree, r)
    /\ file' = tree'

cwmp_handle_rpc_cpe_schedule_download(w, m1, m2, image, wellFormed) ==
    /\ owner["send"] = "main" /\ removing = <<>>
    /\ now + w[4] < MaxTime    \* bound: its windows pass
    /\ IF Valid(wellFormed, w)
       THEN LET r == [id |-> Cardinality(accepted) + 1,
                      start |-> <<now + w[1], now + w[3]>>,
                      end |-> <<now + w[2], now + w[4]>>,
                      mode |-> <<m1, m2>>, image |-> image]
            IN  /\ Free("schedule") /\ r.id \in Id
                /\ Accept(r, w[1])
                /\ Signalled
                /\ accepted' = accepted \union {r}
       ELSE UNCHANGED <<list, count, pc, tree, file, accepted>>
    /\ UNCHANGED <<now, owner, cur, min_time, ctime, here, last, removing, up, restarts,
                   removed, raised, failed, cut, missed, started>>

session_begin ==
    /\ up /\ Take("send", "main")
    /\ UNCHANGED <<now, list, count, threadVars, removing, tree, file, up, restarts, histVars>>

session_end ==
    /\ owner["send"] = "main" /\ removing = <<>> /\ Give("send")
    /\ UNCHANGED <<now, list, count, threadVars, removing, tree, file, up, restarts, histVars>>

(* The tree without the records of one list.                               *)
DeleteFrom(t, tr, r) ==
    IF t = "download" THEN bkp_session_delete_schedule_download(tr, r)
                      ELSE bkp_session_delete_apply_schedule_download(tr, r)

DeleteAll(t, tr) ==
    LET left[i \in 0 .. Len(list[t])] ==
            IF i = 0 THEN tr ELSE DeleteFrom(t, left[i - 1], list[t][i])
    IN  left[Len(list[t])]

(* cwmp_root_cause_event_bootstrap at the end of a session, when the ACS   *)
(* URL has changed: two critical sections under mutex_session_queue.  Each *)
(* saves the file with its event before it empties the lists.              *)
cwmp_root_cause_event_bootstrap ==
    /\ owner["send"] = "main" /\ Take("queue", "main")
    /\ \/ /\ "bootstrap" \in Ops /\ removing = <<>>
          /\ removing' = <<"download", "apply", "apply", "download">>
       \/ Len(removing) = 2 /\ UNCHANGED removing
    /\ file' = tree
    /\ UNCHANGED <<now, list, count, threadVars, tree, up, restarts, histVars>>

(* After the last list the session ends.                                   *)
Left(m) ==
    \/ m = "queue" /\ Len(removing) \in {3, 1}
    \/ m = "send" /\ Len(removing) = 1

(* cwmp_scheduled_Download_remove_all and                                  *)
(* cwmp_apply_scheduled_Download_remove_all.                               *)
remove_all(t) ==
    /\ owner["queue"] = "main" /\ t = Head(removing) /\ Free(MutexOf(t))
    /\ list' = [list EXCEPT ![t] = <<>>]
    /\ count' = IF t = "download" THEN count - Len(list[t]) ELSE count
    /\ tree' = DeleteAll(t, tree)
    /\ removed' = removed \union Ids(list[t])
    /\ removing' = Tail(removing)
    /\ owner' = [m \in Mutex |-> IF Left(m) THEN "none" ELSE owner[m]]
    /\ UNCHANGED <<now, threadVars, file, up, restarts, accepted, raised, failed,
                   cut, missed, started>>

-----------------------------------------------------------------------------
(* Both loops: the walk over the list, which reports and frees what is     *)
(* over, and the choice of the window that begins first.                   *)
Goto(t, p) == pc' = [pc EXCEPT ![t] = p]
(* time is what the thread read at the beginning of its turn.              *)
Over(r, time) == r.end[1] < time /\ r.end[2] < time
Begins(r, time) == IF r.end[1] >= time THEN r.start[1] ELSE r.start[2]

(* Mutant: the choice of the last turn counts. *)
ChosenMode(t) ==
    IF min_time[t] = 0 THEN "look"
    ELSE IF t = "apply" THEN "aLock"
    ELSE IF \E i \in 1 .. 2 : cur[t].start[i] = min_time[t] /\ cur[t].mode[i] = "now"
    THEN "launchNow" ELSE "launch"

Decision(t, time) ==
    IF min_time[t] = 0 THEN "look"
    ELSE IF min_time[t] > time THEN "tosleep"
    ELSE IF t = "apply" THEN "aLock"
    ELSE IF \E i \in 1 .. 2 : cur[t].start[i] = min_time[t] /\ cur[t].mode[i] = "now"
    THEN "launchNow" ELSE "launch"

(* Mutant: the time is not looked at again after the wait. *)
DecisionAwake(t, time) == ChosenMode(t)

DecisionOnTime(t, time) == Decision(t, time)

Look(t) ==
    /\ pc[t] = "look"
    /\ ctime' = [ctime EXCEPT ![t] = now]
    /\ IF list[t] = <<>>
       THEN Goto(t, "towait") /\ UNCHANGED here
       ELSE Goto(t, "visit") /\ here' = [here EXCEPT ![t] = list[t][1]]
    /\ UNCHANGED <<cur, min_time, last>>

(* The entry behind the one at hand, None at the end of the list.          *)
Position(t) == SelectInSeq(list[t], LAMBDA x : x = here[t])
Follower(t) ==
    IF Position(t) < Len(list[t]) THEN list[t][Position(t) + 1] ELSE None

Chooses(t) == min_time[t] = 0 \/ Begins(here[t], ctime[t]) < min_time[t]

(* No mutex is held: the list may be emptied between two entries.          *)
Visit(t) ==
    /\ pc[t] = "visit" /\ here[t] \in ToSet(list[t])
    /\ IF Over(here[t], ctime[t])
       THEN /\ Goto(t, "expire")
            /\ last' = [last EXCEPT ![t] = Follower(t) = None]
            /\ UNCHANGED <<here, cur, min_time>>
       ELSE /\ here' = [here EXCEPT ![t] = Follower(t)]
            /\ IF Chooses(t)
               THEN /\ min_time' = [min_time EXCEPT ![t] = Begins(here[t], ctime[t])]
                    /\ cur' = [cur EXCEPT ![t] = here[t]]
               ELSE UNCHANGED <<min_time, cur>>
            /\ UNCHANGED <<pc, last>>
    /\ UNCHANGED ctime

Decide(t) ==
    /\ pc[t] = "visit" /\ here[t] = None
    /\ Goto(t, DecisionOnTime(t, ctime[t]))
    /\ ctime' = [ctime EXCEPT ![t] = 0]
    /\ UNCHANGED <<here, last, cur, min_time>>

Walk(t) ==
    /\ Look(t) \/ Visit(t) \/ Decide(t)
    /\ UNCHANGED <<now, list, count, owner, removing, tree, file, up, restarts, histVars>>

(* An entry that is over: its record is exchanged for the result, ...      *)
Expire(t) ==
    /\ pc[t] = "expire" /\ Take(MutexOf(t), t) /\ Goto(t, "expiring")
    /\ tree' = Done(DeleteFrom(t, tree, here[t]), here[t])
    /\ missed' = missed \union {here[t].id}
    /\ UNCHANGED <<now, list, count, cur, min_time, ctime, here, last, removing, file, up,
                   restarts, accepted, removed, raised, failed, cut, started>>

(* ... and reported, and the entry freed.  One of the second list is       *)
(* counted down only while nothing has been chosen.                        *)
Expired(t) ==
    /\ pc[t] = "expiring" /\ Free("queue") /\ here[t] \in ToSet(list[t])
    /\ raised' = [raised EXCEPT ![here[t].id] = @ + 1]
    /\ list' = [list EXCEPT ![t] = RemoveFirst(@, here[t])]
    /\ count' = IF t = "download" \/ min_time[t] = 0 THEN count - 1 ELSE count
    /\ here' = [here EXCEPT ![t] = IF last[t] THEN None ELSE Follower(t)]
    /\ last' = [last EXCEPT ![t] = FALSE]
    /\ Give(MutexOf(t)) /\ Goto(t, "visit")
    /\ UNCHANGED <<now, cur, min_time, ctime, removing, tree, file, up, restarts, accepted,
                   removed, failed, cut, missed, started>>

Steady == UNCHANGED <<now, list, count, cur, min_time, here, last, removing, tree, file, up,
                      restarts, histVars>>

(* The wait of an empty list.  What was chosen before is looked at again.  *)
Wait(t) ==
    /\ Free(MutexOf(t))
    /\ \/ pc[t] = "towait" /\ Goto(t, "waiting") /\ UNCHANGED ctime
       \/ /\ pc[t] = "woken"
          /\ UNCHANGED <<cur, min_time>>
          /\ Goto(t, Decision(t, ctime[t]))
          /\ ctime' = [ctime EXCEPT ![t] = 0]
    /\ UNCHANGED owner
    /\ Steady

(* Mutant: only a signal ends the wait for a window. *)
NoTimeout(t) == FALSE

TimedOut(t) == pc[t] = "sleeping" /\ now >= min_time[t]

(* The wait for a window, on mutex_schedule_download in both threads;      *)
(* thread "apply" has locked its own mutex for it and unlocks the other.   *)
(* An entry of its list has been in a window, so the one it waits for is   *)
(* the second.                                                             *)
Sleep(t) ==
    /\ \/ /\ pc[t] = "tosleep" /\ Free(MutexOf(t))
          /\ IF t = "download" THEN UNCHANGED owner
             ELSE owner' = [owner EXCEPT !["apply"] = "apply", !["schedule"] = "none"]
          /\ Goto(t, "sleeping")
       \/ TimedOut(t) /\ Goto(t, "awake") /\ UNCHANGED owner
       \/ pc[t] = "awake" /\ Free("schedule") /\ Goto(t, "look") /\ UNCHANGED owner
    /\ UNCHANGED ctime
    /\ Steady

-----------------------------------------------------------------------------
(* What all three ways to run a request share. *)
Still == UNCHANGED <<now, cur, min_time, ctime, here, last, removing, up, restarts, accepted,
                     removed, cut, missed>>

(* cwmp_launch_schedule_download deletes the record before it starts. *)
LaunchRecord(t) ==
    /\ tree' = bkp_session_delete_schedule_download(tree, cur[t])
    /\ file' = tree'

Launch(t) ==
    /\ LaunchRecord(t)
    /\ started' = [started EXCEPT ![cur[t].id] = IF @ = 0 THEN now ELSE @]

(* The fetched file is on record. *)
Recorded(t) == tree' = Done(tree, cur[t]) /\ file' = tree'

FaultReport(t) ==
    /\ file' = Done(tree, cur[t])
    /\ tree' = Undone(tree, cur[t])
    /\ raised' = [raised EXCEPT ![cur[t].id] = @ + 1]
    /\ failed' = failed \union {cur[t].id}

(* In mode 2 it waits for mutex_session_queue between its two halves.      *)
FaultRecord(t) ==
    /\ tree' = Done(tree, cur[t]) /\ file' = tree'
    /\ failed' = failed \union {cur[t].id}
FaultRaised(t) ==
    /\ raised' = [raised EXCEPT ![cur[t].id] = @ + 1]
    /\ tree' = Undone(tree, cur[t])

ApplyReport(t) ==
    /\ file' = tree /\ UNCHANGED tree
    /\ raised' = [raised EXCEPT ![cur[t].id] = @ + 1]

(* Modes 1 and 3: under mutex_session_send. *)
RunIdle ==
    LET t == "download"
    IN  \/ /\ pc[t] = "launch" /\ Take("send", t) /\ Launch(t) /\ Goto(t, "running")
           /\ UNCHANGED <<list, count, raised, failed>>
        \/ /\ pc[t] = "running" /\ Failures /\ FaultReport(t) /\ Goto(t, "release")
           /\ UNCHANGED <<owner, list, count, started>>
        \/ /\ pc[t] = "running" /\ Recorded(t) /\ Goto(t, "apply")
           /\ UNCHANGED <<owner, list, count, raised, failed, started>>
        \/ /\ pc[t] = "apply" /\ Goto(t, "release")
           /\ UNCHANGED <<owner, list, count, tree, file, raised, failed, started>>
        \/ /\ pc[t] = "apply" /\ ApplyReport(t) /\ Goto(t, "release")
           /\ UNCHANGED <<owner, list, count, failed, started>>
        \/ /\ pc[t] = "release" /\ Give("send") /\ Goto(t, "unlink")
           /\ UNCHANGED <<list, count, tree, file, raised, failed, started>>

(* min_time and current_download stay as they are. *)
UnlinkIdle ==
    LET t == "download"
    IN  /\ pc[t] = "unlink" /\ Free("schedule") /\ cur[t] \in ToSet(list[t])
        /\ list' = [list EXCEPT ![t] = RemoveFirst(@, cur[t])]
        /\ count' = count - 1
        /\ Goto(t, "look")
        /\ UNCHANGED <<owner, tree, file, raised, failed, started>>

(* Mutant: one unlock is forgotten. *)
ReleasedButOne(t) ==
    owner' = [m \in Mutex |-> IF owner[m] = t /\ m # "apply" THEN "none" ELSE owner[m]]

Released(t) == owner' = [m \in Mutex |-> IF owner[m] = t THEN "none" ELSE owner[m]]

(* Mode 2: under mutex_schedule_download, which the branch of a failed     *)
(* fetch keeps; the file is applied now if no session runs, and handed to  *)
(* the other thread otherwise.                                             *)
RunNow ==
    LET t == "download"
    IN  \/ /\ pc[t] = "launchNow" /\ Take("schedule", t) /\ Launch(t) /\ Goto(t, "runningNow")
           /\ UNCHANGED <<list, count, raised, failed>>
        \/ /\ pc[t] = "runningNow" /\ Failures /\ FaultRecord(t) /\ Goto(t, "faultNow")
           /\ UNCHANGED <<owner, list, count, raised, started>>
        \/ /\ pc[t] = "faultNow" /\ Free("queue") /\ FaultRaised(t) /\ Goto(t, "finish")
           /\ UNCHANGED <<owner, list, count, file, failed, started>>
        \/ /\ pc[t] = "runningNow" /\ Give("schedule") /\ Goto(t, "try")
           /\ UNCHANGED <<list, count, tree, file, raised, failed, started>>
        \/ /\ pc[t] = "try" /\ Take("send", t) /\ Goto(t, "tryApply")
           /\ UNCHANGED <<list, count, tree, file, raised, failed, started>>
        \/ /\ pc[t] = "try" /\ ~Free("send") /\ Goto(t, "hand")
           /\ UNCHANGED <<owner, list, count, tree, file, raised, failed, started>>
        \/ /\ pc[t] = "tryApply" /\ Take("apply", t) /\ Goto(t, "trySchedule")
           /\ UNCHANGED <<list, count, tree, file, raised, failed, started>>
        \/ /\ pc[t] = "trySchedule" /\ Take("schedule", t) /\ Recorded(t)
           /\ Goto(t, "applyNow")
           /\ UNCHANGED <<list, count, raised, failed, started>>
        \/ /\ pc[t] = "applyNow" /\ Goto(t, "releaseNow")
           /\ UNCHANGED <<owner, list, count, tree, file, raised, failed, started>>
        \/ /\ pc[t] = "applyNow" /\ ApplyReport(t) /\ Goto(t, "releaseNow")
           /\ UNCHANGED <<owner, list, count, failed, started>>
        \/ /\ pc[t] = "releaseNow" /\ Goto(t, "finish")
           /\ Released(t)
           /\ UNCHANGED <<list, count, tree, file, raised, failed, started>>

HandRecord(t) ==
    /\ tree' = bkp_session_insert_apply_schedule_download(tree, cur[t])
    /\ file' = tree'

cwmp_add_apply_schedule_download ==
    LET t == "download"
    IN  /\ pc[t] = "hand" /\ Free("apply")
        /\ list' = [list EXCEPT !["apply"] = Append(@, cur[t])]
        /\ HandRecord(t)
        /\ pc' = [pc EXCEPT ![t] = "finish",
                            !["apply"] = IF @ = "waiting" THEN "woken" ELSE @]
        /\ UNCHANGED <<owner, count, raised, failed, started>>

FinishNow ==
    LET t == "download"
    IN  /\ pc[t] = "finish" /\ Free("schedule") /\ cur[t] \in ToSet(list[t])
        /\ tree' = bkp_session_delete_schedule_download(tree, cur[t])
        /\ file' = tree'
        /\ list' = [list EXCEPT ![t] = RemoveFirst(@, cur[t])]
        /\ cur' = [cur EXCEPT ![t] = None]
        /\ min_time' = [min_time EXCEPT ![t] = 0]
        /\ Goto(t, "look")
        /\ UNCHANGED <<owner, count, raised, failed, started>>
        /\ UNCHANGED <<now, ctime, here, last, removing, up, restarts, accepted, removed, cut,
                       missed>>

(* Thread "apply", under mutex_session_send and mutex_schedule_download. *)
RunLate ==
    LET t == "apply"
    IN  \/ /\ pc[t] = "aLock" /\ Take("send", t) /\ Goto(t, "aLaunch")
           /\ UNCHANGED <<list, count, tree, file, raised, failed, started>>
        \/ /\ pc[t] = "aLaunch" /\ Take("schedule", t)
           /\ tree' = bkp_session_delete_apply_schedule_download(tree, cur[t])
           /\ file' = tree' /\ Goto(t, "aSaved")
           /\ UNCHANGED <<list, count, raised, failed, started>>
        \/ /\ pc[t] = "aSaved" /\ Recorded(t) /\ Goto(t, "aApply")
           /\ UNCHANGED <<owner, list, count, raised, failed, started>>
        \/ /\ pc[t] = "aApply" /\ Goto(t, "aRelease")
           /\ UNCHANGED <<owner, list, count, tree, file, raised, failed, started>>
        \/ /\ pc[t] = "aApply" /\ ApplyReport(t) /\ Goto(t, "aRelease")
           /\ UNCHANGED <<owner, list, count, failed, started>>
        \/ /\ pc[t] = "aRelease" /\ Goto(t, "aUnlink")
           /\ owner' = [owner EXCEPT !["send"] = "none", !["schedule"] = "none"]
           /\ UNCHANGED <<list, count, tree, file, raised, failed, started>>
        \/ /\ pc[t] = "aUnlink" /\ Free("apply") /\ cur[t] \in ToSet(list[t])
           /\ list' = [list EXCEPT ![t] = RemoveFirst(@, cur[t])]
           /\ Goto(t, "look")
           /\ UNCHANGED <<owner, count, tree, file, raised, failed, started>>

thread_cwmp_rpc_cpe_schedule_download ==
    \/ Walk("download") \/ Expire("download") \/ Expired("download")
    \/ Wait("download") \/ Sleep("download")
    \/ Still /\ (RunIdle \/ UnlinkIdle \/ RunNow \/ cwmp_add_apply_schedule_download)
    \/ FinishNow

thread_cwmp_rpc_cpe_apply_schedule_download ==
    \/ Walk("apply") \/ Expire("apply") \/ Expired("apply")
    \/ Wait("apply") \/ Sleep("apply")
    \/ Still /\ RunLate

-----------------------------------------------------------------------------
(* The end of the process. *)
Stop ==
    /\ up /\ restarts < MaxRestarts
    /\ up' = FALSE
    /\ list' = [t \in Thread |-> <<>>] /\ count' = 0
    /\ owner' = [m \in Mutex |-> "none"]
    /\ pc' = [t \in Thread |-> "down"] /\ cur' = [t \in Thread |-> None]
    /\ min_time' = [t \in Thread |-> 0] /\ ctime' = [t \in Thread |-> 0]
    /\ here' = [t \in Thread |-> None] /\ last' = [t \in Thread |-> FALSE]
    /\ removing' = <<>>
    /\ tree' = file
    /\ raised' = [i \in Id |-> 0]
    /\ UNCHANGED <<now, file, restarts, accepted, removed, failed, missed,
                   started>>

(* Requests that are in no record while their file is fetched or handed on.*)
InFlight ==
    {cur[t].id : t \in {x \in Thread :
        pc[x] \in {"running", "runningNow", "try", "tryApply", "trySchedule", "hand", "aSaved"}}}

crash == "crash" \in Ops /\ Stop /\ cut' = cut \union InFlight

(* exit(EXIT_SUCCESS) once an image is applied. *)
ExitApplied ==
    /\ \E t \in Thread : pc[t] \in {"apply", "applyNow", "aApply"} /\ cur[t].image
    /\ Stop /\ cut' = cut \union InFlight

(* list_del of an element that was freed before, and the walk over one:    *)
(* its links are null.                                                     *)
FreedUsed ==
    \E t \in Thread :
      \/ /\ pc[t] \in {"unlink", "finish", "aUnlink"}
         /\ Free(MutexOf(t)) /\ cur[t] \notin ToSet(list[t])
      \/ /\ pc[t] = "visit" \/ (pc[t] = "expiring" /\ Free("queue"))
         /\ here[t] \notin ToSet(list[t]) \union {None}
ListDelFreed == FreedUsed /\ Stop /\ cut' = cut \union InFlight

load_schedule_download(s, r) ==
    LET at == SelectInSeq(s, LAMBDA x : x.start[1] > r.start[1])
    IN  IF at = 0 THEN Append(s, r) ELSE InsertAt(s, at, r)

Loaded ==
    LET l[i \in 0 .. Len(file.requests)] ==
            IF i = 0 THEN <<>> ELSE load_schedule_download(l[i - 1], file.requests[i])
    IN  l[Len(file.requests)]

(* load_apply_schedule_download counts its entries too. *)
load_apply_schedule_download == file.applies

restart ==
    /\ ~up /\ up' = TRUE
    /\ list' = [t \in Thread |-> IF t = "download" THEN Loaded
                                 ELSE load_apply_schedule_download]
    /\ count' = Len(file.requests) + Len(file.applies)
    /\ pc' = [t \in Thread |-> "look"]
    /\ raised' = [i \in Id |-> IF i \in file.done THEN 1 ELSE 0]
    /\ restarts' = restarts + 1
    /\ UNCHANGED <<now, owner, cur, min_time, ctime, here, last, removing, tree, file,
                   accepted, removed, failed, cut, missed, started>>

tick ==
    /\ now < MaxTime /\ now' = now + 1
    /\ UNCHANGED <<list, count, owner, threadVars, removing, tree, file, up, restarts,
                   histVars>>

-----------------------------------------------------------------------------
Empty == [requests |-> <<>>, applies |-> <<>>, done |-> {}]

Init ==
    /\ now = 1
    /\ list = [t \in Thread |-> <<>>] /\ count = 0
    /\ owner = [m \in Mutex |-> "none"]
    /\ pc = [t \in Thread |-> "look"] /\ cur = [t \in Thread |-> None]
    /\ min_time = [t \in Thread |-> 0] /\ ctime = [t \in Thread |-> 0]
    /\ here = [t \in Thread |-> None] /\ last = [t \in Thread |-> FALSE]
    /\ removing = <<>>
    /\ tree = Empty /\ file = Empty
    /\ up = TRUE /\ restarts = 0
    /\ accepted = {} /\ removed = {} /\ failed = {} /\ cut = {} /\ missed = {}
    /\ raised = [i \in Id |-> 0] /\ started = [i \in Id |-> 0]

Session ==
    \/ session_begin \/ session_end
    \/ cwmp_root_cause_event_bootstrap \/ \E t \in Thread : remove_all(t)
    \/ \E w \in Windows, m1, m2 \in Modes, image \in Images, wellFormed \in BOOLEAN :
         cwmp_handle_rpc_cpe_schedule_download(w, m1, m2, image, wellFormed)

Next ==
    \/ Session
    \/ thread_cwmp_rpc_cpe_schedule_download
    \/ thread_cwmp_rpc_cpe_apply_schedule_download
    \/ crash \/ ExitApplied \/ ListDelFreed \/ restart
    \/ tick

Spec == Init /\ [][Next]_vars

(* A thread gets a mutex that is free again and again, the clock goes on,  *)
(* main ends its sessions, and a stopped process is started again.         *)
Fairness ==
    /\ SF_vars(thread_cwmp_rpc_cpe_schedule_download)
    /\ SF_vars(thread_cwmp_rpc_cpe_apply_schedule_download)
    /\ WF_vars(session_end \/ restart) /\ WF_vars(tick)
    /\ SF_vars((removing # <<>> /\ cwmp_root_cause_event_bootstrap)
               \/ \E t \in Thread : remove_all(t))

FairSpec == Spec /\ Fairness

-----------------------------------------------------------------------------
(* Properties. *)

Twins == {r \in accepted : \E x \in accepted \ {r} : Same(x, r)}

(* No transfer is started before a window of its request begins, although  *)
(* min_time and current_download outlive the turn that chose them.         *)
NotEarly == \A r \in accepted : started[r.id] # 0 => started[r.id] >= r.start[1]

(* A request, or the entry that waits to be applied, and its result are    *)
(* never in the file together: a restart would run what the ACS will be    *)
(* told is over.  Requests that are run after they were reported as missed *)
(* are excepted.                                                           *)
NeverBoth ==
    ((Ids(file.requests) \union Ids(file.applies)) \intersect file.done) \subseteq missed

(* Through windows, hand-overs and restarts, an accepted request is        *)
(* pending in one of the lists, reported, or on record.  The exceptions:   *)
(* a crash while it is in no record, a failed fetch, whose report has no   *)
(* record, and requests with the same fields, which share one.             *)
NothingLost ==
    up => \A r \in accepted \ Twins :
            \/ r.id \in removed \union failed \union cut
            \/ r \in ToSet(list["download"]) \/ r \in ToSet(list["apply"])
            \/ raised[r.id] > 0
            \/ r.id \in file.done

(* As long as no fetch in mode 2 has failed and thread "apply" has not     *)
(* waited for a second window, which leaves its own mutex locked, every    *)
(* mutex is held only by a thread that is between its lock and its unlock. *)
SecondWindow == owner["apply"] = "apply" /\ pc["apply"] # "expiring"

MutexesReleased ==
    failed = {} /\ ~SecondWindow
    => /\ owner["send"] = "download"
          <=> pc["download"] \in (Idle \ {"launch", "unlink"})
                \union {"tryApply", "trySchedule", "applyNow", "releaseNow"}
       /\ owner["apply"] = "download"
          <=> pc["download"] \in {"trySchedule", "applyNow", "releaseNow"}
       /\ owner["apply"] = "apply" <=> pc["apply"] = "expiring"
       /\ owner["schedule"] = "download"
          <=> pc["download"] \in {"runningNow", "applyNow", "releaseNow", "expiring"}
       /\ owner["send"] = "apply" <=> pc["apply"] \in Late \ {"aLock", "aUnlink"}
       /\ owner["queue"] = "main" => owner["send"] = "main"

(* The removal holds mutex_session_queue and waits for the mutex of a      *)
(* list, whose thread waits for mutex_session_queue or never unlocks it.   *)
Deadlock ==
    /\ removing # <<>>
    /\ LET t == Head(removing)
       IN  owner[MutexOf(t)] = t /\ (pc[t] = "expiring" \/ SecondWindow)

(* "Schedule download will start in %us" (xml.c:4472): a request the       *)
(* thread sleeps for is started or reported, unless it is removed.  A      *)
(* fetch in mode 2 that fails leaves mutex_schedule_download locked, and   *)
(* nothing is done any more; nor is it in the deadlock with the removal.   *)
SleptForIsDone ==
    [](failed = {} /\ ~Deadlock) =>
      \A i \in Id :
        (pc["download"] = "tosleep" /\ cur["download"].id = i)
        ~> (started[i] # 0 \/ raised[i] > 0 \/ i \in removed)

(* No request is both pending and done on file, and no mutex stays with a  *)
(* thread that has gone back to its wait.                                  *)
ListsConsistent ==
    /\ TypeOK
    /\ NeverBoth
    /\ MutexesReleased
=============================================================================
