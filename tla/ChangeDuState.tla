--------------------------- MODULE ChangeDuState ---------------------------
(***************************************************************************)
(* ChangeDUState (xml.c): a session accepts a list of operations on        *)
(* deployment units, a thread runs them between sessions, and their        *)
(* results are reported together.                                          *)
(*                                                                         *)
(* dmmap keeps the units under the options UUID and URL, which only        *)
(* update_softwaremodules_url reads by these names; every other lookup     *)
(* asks for "uuid" or "url" and finds nothing.  An install writes through  *)
(* a null pointer once its file is fetched.  A path that is written to     *)
(* du_ref is longer than du_ref: the process may end there or go on.       *)
(***************************************************************************)
EXTENDS Integers, Sequences, FiniteSets, SequencesExt

CONSTANTS
    Units,          \* deployment units a request may name
    Known,          \* the ones in dmmap
    Kinds,          \* "install", "uninstall", "update" (with a URL and a UUID),
                    \* "update_part" (with one of them)
    Failures,       \* BOOLEAN: may the script that fetches a package fail?
    Grace,          \* time_of_grace
    Skew,           \* BOOLEAN: may the clock start at 1 again with the process?
    MaxOps,         \* bound: operations of a request
    MaxRequests,    \* bound: accepted requests
    MaxTime,        \* bound: the clock
    MaxRestarts     \* bound: restarts of the process

ASSUME UnitsAssumption ==
    /\ Known \subseteq Units
    /\ Kinds \subseteq {"install", "uninstall", "update", "update_part"}
    /\ Failures \in BOOLEAN /\ Skew \in BOOLEAN
    /\ Grace \in Nat /\ MaxOps \in Nat /\ MaxRequests \in Nat
    /\ MaxTime \in Nat \ {0} /\ MaxRestarts \in Nat

VARIABLES
    now,        \* time(NULL)
    list,       \* list_change_du_state
    owner,      \* who holds mutex_session_send: "main", "thread", "none"
    pc,         \* the thread's place,
    cur,        \* pchange_du_state
    results,    \* list_opresult of pdu_state_change_complete: has it a fault?
    tree, file, \* records
    up,         \* the process runs
    restarts,
    \* history
    accepted, raised, cut

threadVars == <<pc, cur, results>>
vars == <<now, list, owner, threadVars, tree, file, up, restarts, accepted, raised, cut>>

-----------------------------------------------------------------------------
Id == 1 .. MaxRequests
Operation == [kind : Kinds, unit : Units]
Request == [id : Id, time : 1 .. MaxTime, ops : UNION {[1 .. n -> Operation] : n \in 0 .. MaxOps}]
None == [id |-> 0]
Tree == [requests : Seq(Request), done : SUBSET Id]

(* A reloaded request is linked by its list of operations: what the thread *)
(* then reads is not the request.                                          *)
Garbled == [id |-> -1]

TypeOK ==
    /\ now \in 1 .. MaxTime
    /\ list \in Seq(Request \union {Garbled})
    /\ owner \in {"main", "thread", "none"}
    /\ pc \in {"look", "towait", "waiting", "lock", "run", "insert", "raise",
               "release", "unlink", "down"}
    /\ cur \in Request \union {None}
    /\ results \in Seq(BOOLEAN)
    /\ tree \in Tree /\ file \in Tree
    /\ up \in BOOLEAN /\ restarts \in 0 .. MaxRestarts
    /\ accepted \subseteq Request /\ raised \in [Id -> Nat] /\ cut \subseteq Id

bkp_session_insert_change_du_state(t, r) == [t EXCEPT !.requests = Append(@, r)]

(* The first record with the same command key and time. *)
bkp_session_delete_change_du_state(t, r) ==
    LET at == SelectInSeq(t.requests, LAMBDA x : x.time = r.time)
    IN  IF at = 0 THEN t ELSE [t EXCEPT !.requests = RemoveAt(@, at)]

bkp_session_insert_du_state_change_complete(t, r) == [t EXCEPT !.done = @ \union {r.id}]

Quiet == UNCHANGED <<now, up, restarts, accepted>>

-----------------------------------------------------------------------------
(* The session. *)
session_begin ==
    /\ up /\ owner = "none" /\ owner' = "main"
    /\ UNCHANGED <<list, threadVars, tree, file, raised, cut>> /\ Quiet

session_end ==
    /\ owner = "main" /\ owner' = "none"
    /\ UNCHANGED <<list, threadVars, tree, file, raised, cut>> /\ Quiet

(* Mutant: not saved. *)
AcceptUnsaved(r) ==
    /\ tree' = bkp_session_insert_change_du_state(tree, r)
    /\ file' = file

AcceptRecord(r) ==
    /\ tree' = bkp_session_insert_change_du_state(tree, r)
    /\ file' = tree'

cwmp_handle_rpc_cpe_change_du_state(ops) ==
    /\ owner = "main" /\ Cardinality(accepted) < MaxRequests
    /\ LET r == [id |-> Cardinality(accepted) + 1, time |-> now, ops |-> ops]
       IN  /\ \A x \in accepted : x.time # now   \* bound: no two with the same key and time
           /\ list' = Append(list, r)
           /\ AcceptRecord(r)
           /\ accepted' = accepted \union {r}
    /\ pc' = IF pc = "waiting" THEN "look" ELSE pc
    /\ UNCHANGED <<now, owner, cur, results, up, restarts, raised, cut>>

-----------------------------------------------------------------------------
(* The thread. *)
Expired(r) == now > r.time + Grace

Look ==
    /\ pc = "look"
    /\ IF list = <<>> THEN pc' = "towait" /\ UNCHANGED <<cur, list, tree, raised>>
       ELSE LET r == Head(list)
            IN  /\ r # Garbled
                /\ IF Expired(r)
                   THEN (* reported as failed; neither is its record deleted nor *)
                        (* the tree saved                                        *)
                        /\ tree' = bkp_session_insert_du_state_change_complete(tree, r)
                        /\ raised' = [raised EXCEPT ![r.id] = @ + 1]
                        /\ list' = Tail(list)
                        /\ UNCHANGED <<pc, cur>>
                   ELSE /\ pc' = IF now < r.time THEN "release" ELSE "lock"
                        /\ cur' = r
                        /\ UNCHANGED <<list, tree, raised>>
    /\ results' = <<>>
    /\ UNCHANGED <<owner, file, cut>> /\ Quiet

Wait ==
    /\ pc = "towait" /\ pc' = "waiting"
    /\ UNCHANGED <<list, owner, cur, results, tree, file, raised, cut>> /\ Quiet

(* Mutant: a session that runs is not waited for. *)
LockUnguarded ==
    /\ pc = "lock"
    /\ owner' = "thread" /\ pc' = "run"
    /\ UNCHANGED <<list, cur, results, tree, file, raised, cut>> /\ Quiet

Lock ==
    /\ pc = "lock" /\ owner = "none"
    /\ owner' = "thread" /\ pc' = "run"
    /\ UNCHANGED <<list, cur, results, tree, file, raised, cut>> /\ Quiet

NextOp == cur.ops[Len(results) + 1]

(* What an operation leaves: has its result a fault?  An uninstall finds   *)
(* no unit and says so; an update that finds none fails too, and leaves    *)
(* the result without a fault.                                             *)
Outcomes(op) ==
    IF op.kind = "uninstall" THEN {TRUE}
    ELSE IF op.kind = "update" /\ op.unit \in Known /\ Failures THEN BOOLEAN
    ELSE {FALSE}

RunOp ==
    /\ pc = "run" /\ Len(results) < Len(cur.ops)
    /\ NextOp.kind # "install"
    /\ \E fault \in Outcomes(NextOp) : results' = Append(results, fault)
    /\ UNCHANGED <<list, owner, pc, cur, tree, file, raised, cut>> /\ Quiet

AllRun == Len(results) = Len(cur.ops)

DeleteRequest ==
    /\ pc = "run" /\ AllRun
    /\ tree' = bkp_session_delete_change_du_state(tree, cur)
    /\ file' = tree' /\ pc' = "insert"
    /\ UNCHANGED <<list, owner, cur, results, raised, cut>> /\ Quiet

InsertResult ==
    /\ pc = "insert"
    /\ tree' = bkp_session_insert_du_state_change_complete(tree, cur)
    /\ file' = tree' /\ pc' = "raise"
    /\ UNCHANGED <<list, owner, cur, results, raised, cut>> /\ Quiet

cwmp_root_cause_dustatechangeComplete ==
    /\ pc = "raise" /\ pc' = "release"
    /\ raised' = [raised EXCEPT ![cur.id] = @ + 1]
    /\ UNCHANGED <<list, owner, cur, results, tree, file, cut>> /\ Quiet

(* Mutant: the mutex stays locked. *)
KeepSend ==
    /\ pc = "release" /\ pc' = "unlink"
    /\ UNCHANGED <<list, owner, cur, results, tree, file, raised, cut>> /\ Quiet

(* The timed wait before it is over at once: its time is 50 s after 1970.  *)
(* A request from the future comes here without the mutex.                 *)
Release ==
    /\ pc = "release" /\ pc' = "unlink"
    /\ owner' = "none"
    /\ UNCHANGED <<list, cur, results, tree, file, raised, cut>> /\ Quiet

(* Mutant: the request stays in the list. *)
UnlinkNot == UNCHANGED list

Unlinked == list' = RemoveFirst(list, cur)

Unlink ==
    /\ pc = "unlink" /\ pc' = "look"
    /\ Unlinked
    /\ cur' = None
    /\ UNCHANGED <<owner, results, tree, file, raised, cut>> /\ Quiet

(* What it reads of a reloaded request passes for one that is not due, or  *)
(* for one that is late (or the process ends, GarbledEnds): it leaves the  *)
(* list, and its record stays.                                             *)
GarbledGoes ==
    /\ pc = "look" /\ list # <<>> /\ Head(list) = Garbled
    /\ list' = Tail(list)
    /\ owner' \in {owner, "none"}
    /\ UNCHANGED <<threadVars, tree, file, raised, cut>> /\ Quiet

thread_cwmp_rpc_cpe_change_du_state ==
    \/ Look \/ Wait \/ Lock \/ RunOp \/ DeleteRequest \/ InsertResult
    \/ cwmp_root_cause_dustatechangeComplete \/ Release \/ Unlink \/ GarbledGoes

-----------------------------------------------------------------------------
Stop ==
    /\ up /\ up' = FALSE /\ list' = <<>> /\ owner' = "none"
    /\ pc' = "down" /\ cur' = None /\ results' = <<>>
    /\ tree' = file
    /\ raised' = [i \in Id |-> 0]
    /\ cut' = IF pc = "insert" THEN cut \union {cur.id} ELSE cut
    /\ UNCHANGED <<now, file, restarts, accepted>>

crash == restarts < MaxRestarts /\ Stop

(* In an operation, and at a reloaded request. *)
cwmp_launch_change_du_state_download == pc = "run" /\ ~AllRun /\ NextOp.kind = "install" /\ Stop
DuRefOverrun == pc = "run" /\ ~AllRun /\ NextOp.kind = "update" /\ NextOp.unit \in Known /\ Stop
GarbledEnds == pc = "look" /\ list # <<>> /\ Head(list) = Garbled /\ Stop

load_change_du_state(s) == [i \in 1 .. Len(s) |-> Garbled]

restart ==
    /\ ~up /\ restarts < MaxRestarts /\ up' = TRUE
    /\ list' = load_change_du_state(file.requests)
    /\ pc' = "look"
    /\ raised' = [i \in Id |-> IF i \in file.done THEN 1 ELSE 0]
    /\ restarts' = restarts + 1
    /\ now' \in IF Skew THEN {now, 1} ELSE {now}
    /\ UNCHANGED <<owner, cur, results, tree, file, accepted, cut>>

(* The time of day may be set while the process runs. *)
time_set ==
    /\ Skew /\ up /\ now > 1 /\ now' = 1
    /\ UNCHANGED <<list, owner, threadVars, tree, file, up, restarts, accepted, raised, cut>>

tick ==
    /\ now < MaxTime /\ now' = now + 1
    /\ UNCHANGED <<list, owner, threadVars, tree, file, up, restarts, accepted, raised, cut>>

-----------------------------------------------------------------------------
Empty == [requests |-> <<>>, done |-> {}]

Init ==
    /\ now = 1 /\ list = <<>> /\ owner = "none"
    /\ pc = "look" /\ cur = None /\ results = <<>>
    /\ tree = Empty /\ file = Empty
    /\ up = TRUE /\ restarts = 0
    /\ accepted = {} /\ raised = [i \in Id |-> 0] /\ cut = {}

Session ==
    \/ session_begin \/ session_end
    \/ \E n \in 0 .. MaxOps : \E ops \in [1 .. n -> Operation] :
         cwmp_handle_rpc_cpe_change_du_state(ops)

Next ==
    \/ Session \/ thread_cwmp_rpc_cpe_change_du_state
    \/ crash \/ cwmp_launch_change_du_state_download \/ DuRefOverrun
    \/ GarbledEnds \/ restart \/ time_set \/ tick

Spec == Init /\ [][Next]_vars

FairSpec ==
    /\ Spec
    /\ SF_vars(thread_cwmp_rpc_cpe_change_du_state)
    /\ WF_vars(cwmp_launch_change_du_state_download)
    /\ WF_vars(session_end) /\ WF_vars(restart)

-----------------------------------------------------------------------------
(* Properties. *)

(* A request is somewhere from its acceptance on: in the list, reported,   *)
(* or on record as request or result.  The exceptions: a crash between the *)
(* two saves, and a request that the clock is behind, which leaves the     *)
(* list unreported while its record stays.                                 *)
NothingLost ==
    up => \A r \in accepted :
            \/ r.id \in cut
            \/ \E i \in 1 .. Len(list) : list[i] = r
            \/ raised[r.id] > 0
            \/ r.id \in file.done
            \/ \E i \in 1 .. Len(file.requests) : file.requests[i].id = r.id

(* A session that has begun ends itself: the thread, which unlocks         *)
(* mutex_session_send at the end of every turn, has locked it before.  Not *)
(* so for a request the clock is behind, or a reloaded one.                *)
SessionUndisturbed ==
    [][owner = "main" /\ owner' # "main"
       => \/ pc' = pc /\ list' = list    \* session_end
          \/ ~up'
          \/ pc = "release" /\ raised[cur.id] = 0
          \/ list # <<>> /\ Head(list) = Garbled]_vars

(* A report waits for the last operation, and has one result for each.     *)
ResultsComplete ==
    pc \in {"insert", "raise"} => Len(results) = Len(cur.ops)

(* What the thread has begun to run is reported, or the process ended in   *)
(* it: the session between, the scripts and the mutexes do not stop it.    *)
LaunchedIsReported ==
    \A i \in Id : (pc = "lock" /\ cur.id = i) ~> (raised[i] > 0 \/ ~up)

(* A request is reported once in the life of a process, whatever the       *)
(* thread meets between the report and the end of its turn, with a result  *)
(* for each operation, whatever failed in them.                            *)
ReportedOnce ==
    /\ TypeOK /\ ResultsComplete
    /\ \A i \in Id : raised[i] <= 1
=============================================================================
