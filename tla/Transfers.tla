------------------------------ MODULE Transfers ------------------------------
(***************************************************************************)
(* The download and upload threads of icwmpd (xml.c): the lists of         *)
(* accepted requests, their shared counter, their records in the backup    *)
(* file, and the four mutexes involved.  Main takes part as the thread     *)
(* that runs CWMP sessions: it handles Download, Upload and CancelTransfer *)
(* and, when the ACS URL changes, discards every request.                  *)
(*                                                                         *)
(* The two threads run the same loop.  They look at the head of their list *)
(* without a lock, block, and then go on with the pointer they have read;  *)
(* every blocking call is a step boundary here.                            *)
(***************************************************************************)
EXTENDS Naturals, Integers, Sequences, FiniteSets, SequencesExt

CONSTANTS
    Kinds,          \* which of "download" and "upload" run
    Keys,           \* command keys
    Delays,         \* values of DelaySeconds, in ticks
    Ops,            \* "cancel", "bootstrap", "crash": what else may happen
    Grace,          \* time_of_grace, in ticks
    MaxQueue,       \* MAX_DOWNLOAD_QUEUE
    MaxRequests,    \* bound: accepted requests
    MaxTime,        \* bound: the clock
    MaxRestarts     \* bound: restarts of the process

ASSUME KindsAssumption == Kinds \subseteq {"download", "upload"}
ASSUME NumbersAssumption ==
    /\ Delays \subseteq Nat /\ Grace \in Nat
    /\ MaxQueue \in Nat /\ MaxRequests \in Nat
    /\ MaxTime \in Nat \ {0} /\ MaxRestarts \in Nat

VARIABLES
    now,        \* time(NULL)
    list,       \* list_download, list_upload
    count,      \* count_download_queue
    owner,      \* who holds each mutex
    pc, cur,    \* each transfer thread: its place, and the request it has read
    tmp,        \* the value a thread has read of count, to write it back less one
    mpc,        \* main's place
    victim,     \* the element cancel_transfer has found
    answer,     \* fault of the last Download or Upload request, "ok" if none
    tree, file, \* the records of requests and of completed transfers
    rest,       \* records of the file that start-up has not read yet
    restarts,
    \* history
    accepted,   \* requests ever accepted
    cancelled,  \* requests CancelTransfer has removed
    discarded,  \* requests a change of the ACS URL has removed
    raised,     \* how often this process has reported a request
    runs,       \* how often the transfer of a request was started
    failed,     \* requests whose report has no record (a failed launch)
    cut         \* requests whose transfer was under way in a crash

threadVars == <<pc, cur, tmp>>
fileVars == <<tree, file, rest>>
histVars == <<accepted, cancelled, discarded, raised, runs, failed, cut>>
vars == <<now, list, count, owner, threadVars, mpc, victim, answer, fileVars,
          restarts, histVars>>

-----------------------------------------------------------------------------
Id == 1 .. MaxRequests
Time == 0 .. MaxTime
Request == [id : Id, kind : Kinds, key : Keys, time : Time, image : BOOLEAN]
None == [id |-> 0, kind |-> "none", key |-> "", time |-> 0, image |-> FALSE]
Tree == [requests : Seq(Request), done : SUBSET Id]

Mutex == {"send", "queue", "download", "upload"}
Thread == Kinds \union {"main"}

(* Places of a transfer thread: after the look at the list it is about to  *)
(* wait, to sleep, to expire the request or to launch it.                  *)
Holding == {"expiring", "expired", "expireCount", "count"}
Sending == {"running", "fault", "apply", "report", "release"}
ThreadPc == {"look", "towait", "waiting", "tosleep", "sleeping", "woken", "expire",
             "launch", "unlink", "down"} \union Holding \union Sending
MainPc == {"idle", "session", "cancel", "remove", "down", "load"} \union Kinds

TypeOK ==
    /\ now \in 1 .. MaxTime
    /\ list \in [Kinds -> Seq(Request)]
    /\ count \in Int
    /\ owner \in [Mutex -> Thread \union {"none"}]
    /\ pc \in [Kinds -> ThreadPc]
    /\ cur \in [Kinds -> Request \union {None}]
    /\ tmp \in [Kinds -> Int]
    /\ mpc \in MainPc
    /\ victim \in Request \union {None}
    /\ answer \in {"ok", "invalid", "denied", "protocol", "resources"}
    /\ tree \in Tree /\ file \in Tree /\ rest \in Seq(Request)
    /\ restarts \in 0 .. MaxRestarts
    /\ accepted \subseteq Request /\ cancelled \union discarded \subseteq Id
    /\ raised \in [Id -> Nat] /\ runs \in [Id -> Nat]
    /\ failed \subseteq Id /\ cut \subseteq Id

Ids(s) == {r.id : r \in ToSet(s)}
Delayed == {r \in UNION {ToSet(list[k]) : k \in Kinds} : r.time # 0}

Free(m) == owner[m] = "none"
Take(m, t) == Free(m) /\ owner' = [owner EXCEPT ![m] = t]

(* The insertion of both handlers and of both load functions: before the   *)
(* first element of that time or a later one.                             *)
InsertBefore(s, r, time) ==
    LET at == SelectInSeq(s, LAMBDA x : x.time >= time)
    IN  IF at = 0 THEN Append(s, r) ELSE InsertAt(s, at, r)

-----------------------------------------------------------------------------
(* Records.  Two requests with the same fields share one.                  *)
Same(x, r) == x.kind = r.kind /\ x.key = r.key /\ x.time = r.time /\ x.image = r.image

bkp_session_insert(t, r) ==
    IF \E x \in ToSet(t.requests) : Same(x, r) THEN t
    ELSE [t EXCEPT !.requests = Append(@, r)]

bkp_session_delete(t, r) ==
    LET at == SelectInSeq(t.requests, LAMBDA x : Same(x, r))
    IN  IF at = 0 THEN t ELSE [t EXCEPT !.requests = RemoveAt(@, at)]

Done(t, r) == [t EXCEPT !.done = @ \union {r.id}]
Undone(t, r) == [t EXCEPT !.done = @ \ {r.id}]

-----------------------------------------------------------------------------
(* Download and Upload requests of the ACS.                                *)
FileType == {"firmware", "web", "config", "log"}
UrlKind == {"good", "none", "userinfo", "https", "other"}

(* Checks of cwmp_handle_rpc_cpe_download, in their order. *)
DownloadFault(type, u) ==
    IF type \notin {"firmware", "web", "config"} THEN "invalid"
    ELSE IF count >= MaxQueue THEN "resources"
    ELSE CASE u = "none" -> "denied"
           [] u = "userinfo" -> "invalid"
           [] u = "other" -> "protocol"
           [] OTHER -> "ok"

(* Those of cwmp_handle_rpc_cpe_upload: no https, other file types. *)
UploadFault(type, u) ==
    IF type \notin {"config", "log"} THEN "denied"
    ELSE IF count >= MaxQueue THEN "resources"
    ELSE CASE u = "none" -> "denied"
           [] u = "userinfo" -> "invalid"
           [] u \in {"https", "other"} -> "protocol"
           [] OTHER -> "ok"

(* pthread_cond_signal(threshold_download) or (threshold_upload). *)
Signalled(k) ==
    pc' = [pc EXCEPT ![k] = IF @ \in {"waiting", "sleeping"} THEN "woken" ELSE @]

(* Mutant: the request is not saved. *)
AcceptUnsaved(k, r) ==
    /\ list' = [list EXCEPT ![k] = InsertBefore(@, r, r.time)]
    /\ count' = IF r.time # 0 THEN count + 1 ELSE count
    /\ tree' = bkp_session_insert(tree, r)
    /\ UNCHANGED <<file, rest>>

(* The critical section of both handlers, under the mutex of the list. *)
Accept(k, r) ==
    /\ list' = [list EXCEPT ![k] = InsertBefore(@, r, r.time)]
    /\ count' = IF r.time # 0 THEN count + 1 ELSE count
    /\ tree' = bkp_session_insert(tree, r)
    /\ file' = tree' /\ UNCHANGED rest

Handle(k, fault, key, delay, image) ==
    /\ mpc = "session" /\ k \in Kinds
    /\ answer' = fault
    /\ IF fault = "ok"
       THEN LET r == [id |-> Cardinality(accepted) + 1, kind |-> k, key |-> key,
                      time |-> IF delay = 0 THEN 0 ELSE now + delay,
                      image |-> image]
            IN  /\ Free(k) /\ r.id \in Id /\ r.time <= MaxTime
                /\ Accept(k, r)
                /\ Signalled(k)
                /\ accepted' = accepted \union {r}
       ELSE UNCHANGED <<list, count, pc, fileVars, accepted>>
    /\ UNCHANGED <<now, owner, cur, tmp, mpc, victim, restarts, cancelled, discarded,
                   raised, runs, failed, cut>>

(* File types 1 and 3 end the process once they are applied. *)
cwmp_handle_rpc_cpe_download(type, u, key, delay) ==
    Handle("download", DownloadFault(type, u), key, delay, type \in {"firmware", "config"})

cwmp_handle_rpc_cpe_upload(type, u, key, delay) ==
    Handle("upload", UploadFault(type, u), key, delay, type = "config")

(* cancel_transfer walks the list without the mutex and takes it only for  *)
(* an element with the key; the element may be gone by then.               *)
cancel_transfer_find(key) ==
    /\ mpc = "session" /\ "cancel" \in Ops
    /\ \E k \in Kinds : \E r \in ToSet(list[k]) : r.key = key /\ victim' = r
    /\ mpc' = "cancel"
    /\ UNCHANGED <<now, list, count, owner, threadVars, answer, fileVars, restarts,
                   histVars>>

(* Mutant: the record stays in the file. *)
KeepRecord(t, r) == t

CancelRecord(t, r) == bkp_session_delete(t, r)

cancel_transfer_delete ==
    /\ mpc = "cancel" /\ Free(victim.kind)
    /\ list' = [list EXCEPT ![victim.kind] = RemoveFirst(@, victim)]
    /\ count' = IF victim.time # 0 THEN count - 1 ELSE count
    /\ tree' = CancelRecord(tree, victim)
    /\ file' = tree' /\ UNCHANGED rest
    /\ cancelled' = cancelled \union {victim.id}
    /\ victim' = None
    /\ mpc' = "session"
    /\ UNCHANGED <<now, owner, threadVars, answer, restarts, accepted, discarded,
                   raised, runs, failed, cut>>

-----------------------------------------------------------------------------
(* A session, and the end of one that has changed the ACS URL.             *)
session_begin ==
    /\ mpc = "idle" /\ Take("send", "main")
    /\ mpc' = "session"
    /\ UNCHANGED <<now, list, count, threadVars, victim, answer, fileVars, restarts,
                   histVars>>

session_end ==
    /\ mpc = "session"
    /\ mpc' = "idle"
    /\ owner' = [owner EXCEPT !["send"] = "none"]
    /\ UNCHANGED <<now, list, count, threadVars, victim, answer, fileVars, restarts,
                   histVars>>

(* cwmp_root_cause_event_bootstrap at the end of a session holds           *)
(* mutex_session_queue while it empties the lists under their mutexes.     *)
bootstrap_begin ==
    /\ mpc = "session" /\ "bootstrap" \in Ops /\ Take("queue", "main")
    /\ mpc' = "remove"
    /\ UNCHANGED <<now, list, count, threadVars, victim, answer, fileVars, restarts,
                   histVars>>

(* cwmp_scheduledDownload_remove_all, cwmp_scheduledUpload_remove_all: one *)
(* request after the other, under the mutex of the list.                   *)
remove_begin(k) ==
    /\ mpc = "remove" /\ list[k] # <<>> /\ Take(k, "main")
    /\ k = "upload" /\ "download" \in Kinds => list["download"] = <<>>
    /\ mpc' = k
    /\ UNCHANGED <<now, list, count, threadVars, victim, answer, fileVars, restarts, histVars>>

remove_all(k) ==
    /\ mpc = k
    /\ IF list[k] # <<>>
       THEN LET r == Head(list[k])
            IN  /\ list' = [list EXCEPT ![k] = Tail(@)]
                /\ count' = IF r.time # 0 THEN count - 1 ELSE count
                /\ tree' = bkp_session_delete(tree, r)
                /\ discarded' = discarded \union {r.id}
                /\ UNCHANGED <<owner, mpc>>
       ELSE /\ owner' = [owner EXCEPT ![k] = "none"] /\ mpc' = "remove"
            /\ UNCHANGED <<list, count, tree, discarded>>
    /\ UNCHANGED <<now, threadVars, victim, answer, file, rest, restarts, accepted, cancelled,
                   raised, runs, failed, cut>>

(* The second part of the function saves the VALUE CHANGE event and with   *)
(* it the tree.                                                            *)
bootstrap_end ==
    /\ mpc = "remove" /\ \A k \in Kinds : Free(k) /\ list[k] = <<>>
    /\ file' = tree
    /\ owner' = [owner EXCEPT !["queue"] = "none"]
    /\ mpc' = "session"
    /\ UNCHANGED <<now, list, count, threadVars, victim, answer, tree, rest, restarts, histVars>>

-----------------------------------------------------------------------------
(* The loop of thread k.                                                   *)
Goto(k, p) == pc' = [pc EXCEPT ![k] = p]
Timeout(r) == IF r.time # 0 THEN now - r.time ELSE 0
Unlocked == UNCHANGED <<now, list, count, owner, tmp, mpc, victim, answer, fileVars,
                        restarts, histVars>>

(* Without a lock: is there a request, and is it due? *)
Look(k) ==
    /\ pc[k] = "look"
    /\ IF list[k] = <<>>
       THEN Goto(k, "towait") /\ UNCHANGED cur
       ELSE LET r == Head(list[k])
            IN  /\ cur' = [cur EXCEPT ![k] = r]
                /\ Goto(k, IF Timeout(r) > Grace THEN "expire"
                           ELSE IF Timeout(r) >= 0 THEN "launch" ELSE "tosleep")
    /\ Unlocked

(* pthread_cond_wait and pthread_cond_timedwait, on the time read before. *)
Wait(k) ==
    /\ pc[k] = "towait" /\ Free(k)
    /\ Goto(k, "waiting")
    /\ Unlocked /\ UNCHANGED cur

(* Mutant: the wait of the empty list. *)
SleepForEver(k) ==
    /\ pc[k] = "tosleep" /\ Free(k)
    /\ Goto(k, "waiting")
    /\ Unlocked /\ UNCHANGED cur

Sleep(k) ==
    /\ pc[k] = "tosleep" /\ Free(k)
    /\ Goto(k, "sleeping")
    /\ Unlocked /\ UNCHANGED cur

Timer(k) ==
    /\ pc[k] = "sleeping" /\ now >= cur[k].time
    /\ Goto(k, "woken")
    /\ Unlocked /\ UNCHANGED cur

(* The wait returns with the mutex, which is then released. *)
Woken(k) ==
    /\ pc[k] = "woken" /\ Free(k)
    /\ Goto(k, "look")
    /\ Unlocked /\ UNCHANGED cur

(* cwmp_root_cause_TransferComplete, under mutex_session_queue; nothing is *)
(* saved.                                                                  *)
Reported(r) ==
    /\ Free("queue")
    /\ raised' = [raised EXCEPT ![r.id] = @ + 1]

(* A request that is over its time by more than the grace is not run. *)
Expire(k) ==
    /\ pc[k] = "expire" /\ Take(k, k)
    /\ tree' = Done(bkp_session_delete(tree, cur[k]), cur[k])
    /\ Goto(k, "expiring")
    /\ UNCHANGED <<now, list, count, cur, tmp, mpc, victim, answer, file, rest,
                   restarts, histVars>>

ExpireReport(k) ==
    /\ pc[k] = "expiring"
    /\ Reported(cur[k])
    /\ Goto(k, "expired")
    /\ UNCHANGED <<now, list, count, owner, cur, tmp, mpc, victim, answer, fileVars,
                   restarts, accepted, cancelled, discarded, runs, failed, cut>>

(* Mutant: list_del under the test of the time. *)
UnlistDelayed(k) ==
    /\ list' = [list EXCEPT ![k] = IF cur[k].time # 0 THEN RemoveFirst(@, cur[k]) ELSE @]
    /\ tmp' = [tmp EXCEPT ![k] = count]

(* list_del, and the read half of count_download_queue--.  A request that  *)
(* was cancelled or discarded meanwhile is freed memory: it may do nothing,*)
(* or the process ends here (crash).                                       *)
Unlist(k) ==
    /\ list' = [list EXCEPT ![k] = RemoveFirst(@, cur[k])]
    /\ tmp' = [tmp EXCEPT ![k] = count]

ExpireUnlink(k) ==
    /\ pc[k] = "expired"
    /\ Unlist(k)
    /\ Goto(k, "expireCount")
    /\ UNCHANGED <<now, count, owner, cur, mpc, victim, answer, fileVars, restarts,
                   histVars>>

CountDown(k) == count' = IF cur[k].time # 0 THEN tmp[k] - 1 ELSE count

(* The write half, and the unlock: both threads release mutex_download.    *)
(* A mutex of the default type is then free whoever held it.               *)
ExpireUnlock(k) ==
    /\ pc[k] = "expireCount"
    /\ CountDown(k)
    /\ owner' = [owner EXCEPT !["download"] = "none"]
    /\ Goto(k, "look")
    /\ UNCHANGED <<now, list, cur, tmp, mpc, victim, answer, fileVars, restarts, histVars>>

LaunchRecord(k) == tree' = bkp_session_delete(tree, cur[k])

(* The request goes to the script; its answer is a fault code, or none:    *)
(* also when it has been silent for 500 s.                                 *)
external_download(k) == runs' = [runs EXCEPT ![cur[k].id] = @ + 1]
external_handle_action(k) == \E p \in {"fault", "apply"} : Goto(k, p)

(* cwmp_launch_download, cwmp_launch_upload, under mutex_session_send.     *)
Launch(k) ==
    /\ pc[k] = "launch" /\ Take("send", k)
    /\ LaunchRecord(k)
    /\ file' = tree'
    /\ external_download(k)
    /\ Goto(k, "running")
    /\ UNCHANGED <<now, list, count, cur, tmp, mpc, victim, answer, rest, restarts, accepted,
                   cancelled, discarded, raised, failed, cut>>

(* The script has run; what it says decides, and the result is on file.    *)
Ran(k) ==
    /\ pc[k] = "running"
    /\ external_handle_action(k)
    /\ tree' = Done(tree, cur[k])
    /\ file' = tree'
    /\ UNCHANGED <<now, list, count, owner, cur, tmp, mpc, victim, answer, rest, restarts,
                   histVars>>

(* A failed launch is reported and its record taken out of the tree. *)
Fault(k) ==
    /\ pc[k] = "fault"
    /\ Reported(cur[k])
    /\ tree' = Undone(tree, cur[k])
    /\ failed' = failed \union {cur[k].id}
    /\ Goto(k, "release")
    /\ UNCHANGED <<now, list, count, owner, cur, tmp, mpc, victim, answer, file, rest,
                   restarts, accepted, cancelled, discarded, runs, cut>>

(* The script that applies the file gives no code, and nothing is          *)
(* reported; or it gives one, and the record is written again and reported;*)
(* or it gives success for an image, and the process exits (ExitApplied).  *)
Apply(k) ==
    /\ pc[k] = "apply"
    /\ \/ Goto(k, "release") /\ UNCHANGED file
       \/ Goto(k, "report") /\ file' = tree
    /\ UNCHANGED <<now, list, count, owner, cur, tmp, mpc, victim, answer, tree, rest,
                   restarts, histVars>>

Report(k) ==
    /\ pc[k] = "report"
    /\ Reported(cur[k])
    /\ Goto(k, "release")
    /\ UNCHANGED <<now, list, count, owner, cur, tmp, mpc, victim, answer, fileVars,
                   restarts, accepted, cancelled, discarded, runs, failed, cut>>

Release(k) ==
    /\ pc[k] = "release"
    /\ owner' = [owner EXCEPT !["send"] = "none"]
    /\ Goto(k, "unlink")
    /\ UNCHANGED <<now, list, count, cur, tmp, mpc, victim, answer, fileVars, restarts,
                   histVars>>

Unlink(k) ==
    /\ pc[k] = "unlink" /\ Take(k, k)
    /\ Unlist(k)
    /\ Goto(k, "count")
    /\ UNCHANGED <<now, count, cur, mpc, victim, answer, fileVars, restarts, histVars>>

(* Mutant: nothing is released. *)
ReleaseNone(k) == owner' = owner

ReleaseList(k) == owner' = [owner EXCEPT ![k] = "none"]

Unlock(k) ==
    /\ pc[k] = "count"
    /\ CountDown(k)
    /\ ReleaseList(k)
    /\ Goto(k, "look")
    /\ UNCHANGED <<now, list, cur, tmp, mpc, victim, answer, fileVars, restarts, histVars>>

Loop(k) ==
    \/ Look(k) \/ Wait(k) \/ Sleep(k) \/ Timer(k) \/ Woken(k)
    \/ Expire(k) \/ ExpireReport(k) \/ ExpireUnlink(k) \/ ExpireUnlock(k)
    \/ Launch(k) \/ Ran(k) \/ Fault(k) \/ Apply(k) \/ Report(k) \/ Release(k)
    \/ Unlink(k) \/ Unlock(k)

thread_cwmp_rpc_cpe_download == "download" \in Kinds /\ Loop("download")
thread_cwmp_rpc_cpe_upload == "upload" \in Kinds /\ Loop("upload")

-----------------------------------------------------------------------------
(* The process ends, in a crash or by exit(EXIT_SUCCESS), and starts again *)
(* with what the file holds.                                               *)
Stop ==
    /\ "crash" \in Ops /\ restarts < MaxRestarts /\ mpc # "down"
    /\ mpc' = "down"
    /\ pc' = [k \in Kinds |-> "down"]
    /\ owner' = [m \in Mutex |-> "none"]
    /\ list' = [k \in Kinds |-> <<>>] /\ count' = 0
    /\ cur' = [k \in Kinds |-> None] /\ tmp' = [k \in Kinds |-> 0]
    /\ victim' = None /\ tree' = file /\ rest' = <<>>
    /\ raised' = [i \in Id |-> 0]
    /\ UNCHANGED <<now, answer, file, restarts, accepted, cancelled, discarded,
                   runs, failed>>

crash ==
    /\ Stop
    /\ cut' = cut \union {cur[k].id : k \in {j \in Kinds : pc[j] = "running"}}

ExitApplied(k) ==
    /\ pc[k] = "apply" /\ cur[k].image
    /\ Stop
    /\ UNCHANGED cut

restart ==
    /\ mpc = "down" /\ mpc' = "load"
    /\ rest' = file.requests
    /\ raised' = [i \in Id |-> IF i \in file.done THEN 1 ELSE 0]
    /\ restarts' = restarts + 1
    /\ UNCHANGED <<now, list, count, owner, threadVars, victim, answer, tree, file, accepted,
                   cancelled, discarded, runs, failed, cut>>

(* load_download, load_upload: one record after the other, after those of  *)
(* the same time.  Then the threads start.                                 *)
LoadInto(s, r) == InsertBefore(s, r, r.time + 1)

load_request ==
    /\ mpc = "load"
    /\ IF rest # <<>>
       THEN LET r == Head(rest)
            IN  /\ list' = [list EXCEPT ![r.kind] = LoadInto(@, r)]
                /\ count' = IF r.time # 0 THEN count + 1 ELSE count
                /\ rest' = Tail(rest)
                /\ UNCHANGED <<pc, mpc>>
       ELSE /\ pc' = [k \in Kinds |-> "look"] /\ mpc' = "idle"
            /\ UNCHANGED <<list, count, rest>>
    /\ UNCHANGED <<now, owner, cur, tmp, victim, answer, tree, file, restarts, histVars>>

tick ==
    /\ now < MaxTime
    /\ now' = now + 1
    /\ UNCHANGED <<list, count, owner, threadVars, mpc, victim, answer, fileVars,
                   restarts, histVars>>

-----------------------------------------------------------------------------
Empty == [requests |-> <<>>, done |-> {}]

Init ==
    /\ now = 1
    /\ list = [k \in Kinds |-> <<>>] /\ count = 0
    /\ owner = [m \in Mutex |-> "none"]
    /\ pc = [k \in Kinds |-> "look"] /\ cur = [k \in Kinds |-> None]
    /\ tmp = [k \in Kinds |-> 0]
    /\ mpc = "idle" /\ victim = None /\ answer = "ok"
    /\ tree = Empty /\ file = Empty /\ rest = <<>>
    /\ restarts = 0
    /\ accepted = {} /\ cancelled = {} /\ discarded = {} /\ failed = {} /\ cut = {}
    /\ raised = [i \in Id |-> 0] /\ runs = [i \in Id |-> 0]

Session ==
    \/ session_begin \/ session_end
    \/ \E type \in FileType, u \in UrlKind, key \in Keys, delay \in Delays :
          \/ cwmp_handle_rpc_cpe_download(type, u, key, delay)
          \/ cwmp_handle_rpc_cpe_upload(type, u, key, delay)
    \/ \E key \in Keys : cancel_transfer_find(key)
    \/ cancel_transfer_delete
    \/ bootstrap_begin \/ bootstrap_end
    \/ \E k \in Kinds : remove_begin(k) \/ remove_all(k)

Next ==
    \/ thread_cwmp_rpc_cpe_download \/ thread_cwmp_rpc_cpe_upload
    \/ Session
    \/ crash \/ restart \/ load_request \/ (\E k \in Kinds : ExitApplied(k))
    \/ tick

Spec == Init /\ [][Next]_vars

(* A thread gets a mutex that is free again and again, the clock goes on,  *)
(* main ends the sessions, cancellations and removals it begins, and procd *)
(* starts a process again that has ended (respawn, init/icwmpd).           *)
Proceed ==
    \/ session_end \/ cancel_transfer_delete \/ bootstrap_end \/ restart \/ load_request
    \/ \E k \in Kinds : remove_begin(k) \/ remove_all(k)
Fairness ==
    /\ SF_vars(thread_cwmp_rpc_cpe_download) /\ SF_vars(thread_cwmp_rpc_cpe_upload)
    /\ WF_vars(tick) /\ WF_vars(Proceed)

FairSpec == Spec /\ Fairness

-----------------------------------------------------------------------------
(* Properties.                                                             *)

(* count_download_queue is the number of delayed requests in the lists,    *)
(* apart from the one a thread has unlinked and not yet counted, through   *)
(* refusals, expiry and restarts.  Not so once a request was cancelled or  *)
(* discarded that the thread had already read, which is counted down       *)
(* twice, nor with both kinds, whose threads count under different mutexes.*)
OneKind == \A r, x \in accepted : r.kind = x.kind
CountMatches ==
    OneKind /\ cancelled \union discarded = {} =>
      count = Cardinality(Delayed)
              + Cardinality({k \in Kinds : pc[k] \in {"expireCount", "count"}
                                            /\ cur[k].time # 0})

(* The lists are sorted by time, so the head is the request that is due    *)
(* first (the handlers and the load functions insert by time).             *)
Sorted ==
    \A k \in Kinds : \A i, j \in DOMAIN list[k] :
      i < j => list[k][i].time <= list[k][j].time

(* The file never holds both the request and its result: a restart never   *)
(* runs again what it also reports.                                        *)
NeverBoth == Ids(file.requests) \intersect file.done = {}

(* No transfer is started twice, across a restart too (xml.c deletes the   *)
(* record before it runs the script).                                      *)
AtMostOnce == \A i \in Id : runs[i] <= 1 /\ raised[i] <= 1

(* Whatever happens, an accepted request is pending, reported, or on file; *)
(* the exceptions are a crash while the script runs (xml.c:2249), and one  *)
(* after a failed launch, whose report has no record (xml.c:2471); and two *)
(* requests with the same fields, which share a record.                    *)
Twins == {r \in accepted : \E x \in accepted \ {r} : Same(x, r)}
NothingLost ==
    mpc \notin {"down", "load"} =>
      \A r \in {x \in accepted \ Twins :
                   x.id \notin cancelled \union discarded \union cut \union failed} :
        \/ r \in ToSet(list[r.kind])
        \/ raised[r.id] > 0
        \/ r.id \in file.done

(* A request that CancelTransfer has removed does not come back after a    *)
(* restart.                                                                *)
CancelSticks == cancelled \intersect Ids(file.requests) = {}

(* "Download will start in %us": a download that the thread has found not  *)
(* yet due is run, reported or removed in the end, through crashes too.    *)
(* (Not so for uploads: once one has expired, the thread has locked its    *)
(* mutex for good, xml.c:3470.)                                            *)
SleptForIsDone ==
    \A i \in Id :
      ("download" \in Kinds /\ pc["download"] = "tosleep" /\ cur["download"].id = i)
        ~> (runs[i] + raised[i] > 0 \/ i \in cancelled \union discarded)

(* When nothing expires, the removal of all requests at a change of the    *)
(* ACS URL, which holds mutex_session_queue and waits for the mutexes of   *)
(* the lists, comes to its end: the threads never wait the other way round.*)
(* (An expiry does, event.c:492 and xml.c:2451.)                           *)
RemovalEnds ==
    [](\A k \in Kinds : pc[k] # "expiring") => (mpc = "remove" ~> mpc \notin {"remove"} \union Kinds)

(* The lists, their counter and the file fit together: a counter that      *)
(* drifts refuses requests for ever or none at all, a list out of order    *)
(* leaves a due request behind one that is not, and a request that is both *)
(* pending and done on file is run again after a restart; and none is run  *)
(* or reported twice.                                                      *)
ListsConsistent ==
    /\ TypeOK
    /\ CountMatches
    /\ Sorted
    /\ NeverBoth
    /\ AtMostOnce
=============================================================================
