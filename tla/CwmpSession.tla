---------------------------- MODULE CwmpSession ----------------------------
(***************************************************************************)
(* The session engine of icwmpd: the queue of pending sessions, the thread *)
(* that turns them into CWMP sessions with the ACS (cwmp_schedule_session, *)
(* cwmp.c), the threads that raise Inform events (event.c, ubus.c, http.c, *)
(* xml.c), and the backup file that carries events across a restart        *)
(* (backupSession.c).                                                      *)
(*                                                                         *)
(* A producer holds mutex_session_queue for its whole critical section, so *)
(* it is one action.  The scheduler holds mutex_session_send from the test *)
(* of the queue to the end of the session; its program counter pc moves    *)
(* wherever another thread, a signal or a crash can come between two of    *)
(* its statements.                                                         *)
(***************************************************************************)
EXTENDS BackupTree

CONSTANTS
    Sid,            \* addresses of session structures
    NULL,           \* the null pointer, and the absent ACS URL
    Url,            \* ACS URLs the configuration may hold
    Source,         \* which of the producer threads below are active
    InformCode,     \* codes the ubus "inform" method is called with
    TransferCode,   \* M_Download, M_Upload, M_Schedule_Download, M_ChangeDUState
    MaxId,          \* bound: producers stop once this many ids are drawn
    MaxRpcs,        \* bound: length of a session's list of ACS RPCs
    MaxReq,         \* bound: requests the ACS makes in one session
    MaxRetry,       \* retry_count_session saturates here (the code at 10)
    MaxRestarts     \* bound: how often the process stops and starts again

ASSUME SidAssumption == /\ NULL \notin Sid
                        /\ \A a, b \in Sid \union {NULL} : Sid \ {a, b} # {}
ASSUME UrlAssumption == NULL \notin Url
ASSUME CodeAssumption ==
    /\ InformCode \subseteq EventCode
    /\ TransferCode \subseteq {M_Download, M_Upload, M_Schedule_Download,
                               M_ChangeDUState}
ASSUME BoundAssumption ==
    /\ MaxId \in Nat /\ MaxRpcs \in Nat /\ MaxReq \in Nat
    /\ MaxRetry \in Nat \ {0} /\ MaxRestarts \in Nat

VARIABLES
    \* struct cwmp and the session structures it points to
    queue,       \* head_session_queue
    head,        \* the session that head_event_container points into
    send,        \* session_send
    events,      \* head_event_container of each session
    rpcs,        \* head_rpc_acs of each session
    ends,        \* end_session of each session
    nextId,      \* static id of cwmp_add_event_container
    vc,          \* list_value_change
    url,         \* conf.acsurl
    \* cwmp_schedule_session
    pc, session, retry, err, crEvent, retryCount,
    reqs,        \* requests of the ACS in this session (for the bound MaxReq)
    idx,         \* position of the list_for_each loops
    \* cwmp_add_notification
    npc,
    \* backupSession.c: the tree in memory and the file
    bkp, file,
    restarts

queueVars == <<queue, head, events, rpcs, nextId>>
schedVars == <<session, retry, err, crEvent, retryCount, reqs, idx>>
vars == <<queueVars, send, ends, vc, url, pc, schedVars, npc, bkp, file, restarts>>

-----------------------------------------------------------------------------
Rpc == [type : {"Inform", "GetRPCMethods", "TransferComplete",
                "DUStateChangeComplete"},
        code : EventCode, key : Key]
Inform == [type |-> "Inform", code |-> BOOTSTRAP, key |-> ""]
GetRPCMethods == [type |-> "GetRPCMethods", code |-> BOOTSTRAP, key |-> ""]
CompleteRpc(c, k) ==
    [type |-> IF c = M_ChangeDUState THEN "DUStateChangeComplete"
              ELSE "TransferComplete",
     code |-> c, key |-> k]

EndFlag == {"REBOOT", "EXTERNAL_ACTION", "RELOAD", "FACTORY_RESET"}
Tree == [nodes : Seq(Node), acs : Url \union {NULL}]

(* The scheduler's program counter. *)
Starting == {"load", "bootstrap", "flush", "raise", "urlchange", "boot", "grm",
             "port"}
Idle == {"lock", "wait", "woken"}      \* mutex_session_send is free
Exchange == {"init", "acs", "ack", "empty", "cpe", "reply", "next", "fail"}
Closing == {"endf", "ended", "close", "merge", "mergeRpc", "destroy"}
Pc == Starting \union Idle \union Exchange \union Closing
        \union {"down", "presleep", "prepare", "move", "fatal"}

(* The other threads exist between the end of main's start-up and the end  *)
(* of the process.  "bootstrap" to "urlchange" also occur at the end of a  *)
(* session, which is then still the one being sent.                        *)
Up == pc \notin {"down", "fatal"} /\ (pc \in Starting => send # NULL)

(* mutex_session_queue is free (or the caller is the one that holds it). *)
QueueFree == /\ pc \notin {"merge", "mergeRpc", "flush", "raise"}
             /\ ~(pc = "destroy" /\ send = NULL)

SendFree == pc \in Idle

TypeOK ==
    /\ queue \in Seq(Sid)
    /\ head \in Sid \union {NULL}
    /\ send \in Sid \union {NULL}
    /\ events \in [Sid -> Seq(Event)]
    /\ rpcs \in [Sid -> Seq(Rpc)]
    /\ ends \in [Sid -> SUBSET EndFlag]
    /\ nextId \in Nat
    /\ vc \in SUBSET Param
    /\ url \in Url
    /\ pc \in Pc
    /\ session \in Sid \union {NULL}
    /\ retry \in BOOLEAN
    /\ err \in {"OK", "RETRY"}
    /\ crEvent \in {0, 1}
    /\ retryCount \in 0 .. MaxRetry
    /\ reqs \in 0 .. MaxReq
    /\ idx \in Nat
    /\ npc \in {"idle", "raise"}
    /\ bkp \in Tree
    /\ file \in Tree
    /\ restarts \in Nat

-----------------------------------------------------------------------------
(* cwmp_add_event_container opens a session when head_event_container is   *)
(* NULL; cwmp_add_queue_session gives it an Inform.                        *)
Target == IF head = NULL
          THEN CHOOSE s \in Sid \ {send, session} : s \notin ToSet(queue)
          ELSE head
QueuedEvents == IF head = NULL THEN <<>> ELSE events[head]
QueuedRpcs == IF head = NULL THEN <<Inform>> ELSE rpcs[head]

(* The queued list, ready for AddEvent, together with the backup tree. *)
Here == [evs |-> QueuedEvents, id |-> nextId, at |-> 0]

(* Mutant: the new session is not made the current one. *)
NoHead_add_queue_session ==
    /\ queue' = IF head = NULL THEN Append(queue, Target) ELSE queue
    /\ head' = head

cwmp_add_queue_session ==
    /\ queue' = IF head = NULL THEN Append(queue, Target) ELSE queue
    /\ head' = Target

(* The queued session after a critical section: events and id counter from *)
(* st, RPCs rs.                                                            *)
Queued(st, rs) ==
    /\ cwmp_add_queue_session
    /\ events' = [events EXCEPT ![Target] = st.evs]
    /\ rpcs' = [rpcs EXCEPT ![Target] = rs]
    /\ nextId' = st.id

(* cwmp_save_event_container on the container at index st.at: the node is  *)
(* inserted, and the file written, for EVENT_RETRY_AFTER_REBOOT events.    *)
Persistent(st) == st.evs[st.at].code \in RetryAfterReboot

Saved(st) ==
    IF Persistent(st)
    THEN [st EXCEPT !.evs = [st.evs EXCEPT ![st.at].saved = TRUE]]
    ELSE st

SavedNodes(st, nodes) ==
    IF Persistent(st) THEN bkp_session_insert_event(nodes, st.evs[st.at])
    ELSE nodes

(* Mutant: the parameters replace those of the container. *)
Replaced(st, ps) == [st EXCEPT !.evs = [st.evs EXCEPT ![st.at].params = ps]]

(* list_splice_init of parameters into the container at st.at. *)
Spliced(st, ps) ==
    [st EXCEPT !.evs = [st.evs EXCEPT ![st.at].params = @ \union ps]]

(* One event raised and saved: add, save. *)
RaiseSaved(c, k, rs) ==
    LET st == AddEvent(Here, c, k)
    IN  /\ Queued(Saved(st), rs)
        /\ bkp' = [bkp EXCEPT !.nodes = SavedNodes(st, @)]
        /\ file' = IF Persistent(st) THEN bkp' ELSE file

RaiseUnsaved(c, k) ==
    /\ Queued(AddEvent(Here, c, k), QueuedRpcs)
    /\ UNCHANGED <<bkp, file>>

(* Mutant: the signal is forgotten. *)
NoSignal == pc' = pc

(* pthread_cond_signal(threshold_session_send): lost unless the scheduler  *)
(* is blocked in pthread_cond_timedwait.                                   *)
Signal == pc' = IF pc = "wait" THEN "woken" ELSE pc

Room(c) == nextId < MaxId \/ Present(QueuedEvents, c)

Producer == Up /\ QueueFree /\ UNCHANGED <<send, ends, url, schedVars, restarts>>

-----------------------------------------------------------------------------
(* The producers. *)

(* thread_event_periodic, when its timed wait expires. *)
thread_event_periodic ==
    /\ Producer /\ Room(PERIODIC)
    /\ RaiseSaved(PERIODIC, "", QueuedRpcs)
    /\ Signal
    /\ UNCHANGED <<vc, npc>>

(* http_success_cr: an authenticated connection request. *)
http_success_cr ==
    /\ Producer /\ Room(CONNECTION_REQUEST)
    /\ RaiseUnsaved(CONNECTION_REQUEST, "")
    /\ Signal
    /\ UNCHANGED <<vc, npc>>

(* cwmp_handle_inform: the event is not saved. *)
cwmp_handle_inform(c) ==
    /\ Producer /\ Room(c)
    /\ RaiseUnsaved(c, "")
    /\ Signal
    /\ UNCHANGED <<vc, npc>>

(* cwmp_handle_inform with GetRPCMethods. *)
cwmp_handle_inform_grm ==
    /\ Producer /\ Room(PERIODIC) /\ Len(QueuedRpcs) < MaxRpcs
    /\ RaiseSaved(PERIODIC, "", Append(QueuedRpcs, GetRPCMethods))
    /\ Signal
    /\ UNCHANGED <<vc, npc>>

(* The address or port of the connection request server is saved: for the  *)
(* first time, or because it changed, which is reported.                   *)
AddressSaved == file' = bkp /\ UNCHANGED bkp
AddressReported == Queued(AddEvent(Here, VALUE_CHANGE, ""), QueuedRpcs)

connection_request_ip_value_change ==
    /\ Producer /\ Room(VALUE_CHANGE)
    /\ AddressSaved
    /\ \/ UNCHANGED <<queueVars, pc>>
       \/ AddressReported /\ Signal
    /\ UNCHANGED <<vc, npc>>

(* A message of the kernel: a new address of the configured interface is   *)
(* noted; any other message changes nothing.                               *)
freecwmp_netlink_interface == connection_request_ip_value_change
netlink_new_msg == freecwmp_netlink_interface

cwmp_root_cause_event_ipdiagnostic ==
    /\ Producer /\ Room(DIAGNOSTICS_COMPLETE)
    /\ RaiseSaved(DIAGNOSTICS_COMPLETE, "", QueuedRpcs)
    /\ Signal
    /\ UNCHANGED <<vc, npc>>

(* cwmp_add_notification under mutex_session_send: parameter p changed and *)
(* has passive (active = FALSE) or active notification.                    *)
cwmp_add_notification(p, active) ==
    /\ Up /\ SendFree /\ npc = "idle" /\ Room(VALUE_CHANGE)
    /\ vc' = vc \union {p}
    /\ npc' = IF active THEN "raise" ELSE "idle"
    /\ UNCHANGED <<queueVars, send, ends, url, pc, schedVars, bkp, file, restarts>>

(* Its second part, after mutex_session_send is released. *)
cwmp_add_notification_active ==
    /\ Producer /\ npc = "raise" /\ Room(VALUE_CHANGE)
    /\ RaiseSaved(VALUE_CHANGE, "", QueuedRpcs)
    /\ Signal
    /\ npc' = "idle"
    /\ UNCHANGED vc

(* thread_cwmp_rpc_cpe_scheduleInform, when a ScheduleInform is due. *)
scheduleInform_due(k) ==
    /\ Producer /\ nextId + 1 < MaxId
    /\ LET s1 == AddEvent(Here, SCHEDULED, "")
           s2 == AddEvent(Saved(s1), M_ScheduleInform, k)
       IN  /\ Queued(Saved(s2), QueuedRpcs)
           /\ bkp' = [bkp EXCEPT !.nodes = SavedNodes(s2, SavedNodes(s1, @))]
           /\ file' = bkp'
    /\ Signal
    /\ UNCHANGED <<vc, npc>>

(* cwmp_root_cause_TransferComplete and cwmp_root_cause_dustatechange-     *)
(* Complete: two events, neither saved, and the RPC that reports it.       *)
CompleteEvents(c, k) ==
    LET first == IF c = M_ChangeDUState THEN DU_STATE_CHANGE_COMPLETE
                 ELSE TRANSFER_COMPLETE
    IN  AddEvent(AddEvent(Here, first, ""), c, k)
RootComplete(c, k) ==
    Queued(CompleteEvents(c, k), Append(QueuedRpcs, CompleteRpc(c, k)))

TransferRoom == nextId + 1 < MaxId /\ Len(QueuedRpcs) < MaxRpcs

WithRecord(t, c, k) ==
    [t EXCEPT !.nodes =
        IF c = M_ChangeDUState
        THEN bkp_session_insert_du_state_change_complete(@, k)
        ELSE bkp_session_insert_transfer_complete(@, c, k)]
WithoutRecord(t, c, k) ==
    [t EXCEPT !.nodes = bkp_session_delete_transfer_complete(@, c, k)]

(* A transfer thread holds mutex_session_send while it runs the transfer.  *)
(* Applied and reported: the record is written before the RPC is queued.   *)
transfer_finished(c, k) ==
    /\ Producer /\ SendFree /\ TransferRoom
    /\ bkp' = WithRecord(bkp, c, k) /\ file' = bkp'
    /\ RootComplete(c, k)
    /\ Signal
    /\ UNCHANGED <<vc, npc>>

(* The launch failed: the record is written, then taken out of the tree    *)
(* again, so that the next save of the tree drops it from the file.        *)
transfer_fault(c, k) ==
    /\ Producer /\ SendFree /\ TransferRoom /\ c # M_ChangeDUState
    /\ file' = WithRecord(bkp, c, k)
    /\ bkp' = WithoutRecord(WithRecord(bkp, c, k), c, k)
    /\ RootComplete(c, k)
    /\ Signal
    /\ UNCHANGED <<vc, npc>>

(* The hour of grace has passed: no mutex_session_send, no save, no signal. *)
transfer_expired(c, k) ==
    /\ Producer /\ TransferRoom /\ c \in {M_Download, M_Upload}
    /\ bkp' = WithRecord(bkp, c, k)
    /\ RootComplete(c, k)
    /\ UNCHANGED <<pc, file, vc, npc>>

(* The apply script reports no fault code: recorded, not queued. *)
transfer_silent(c, k) ==
    /\ Producer /\ SendFree /\ c # M_ChangeDUState /\ Len(bkp.nodes) < MaxId
    /\ bkp' = WithRecord(bkp, c, k) /\ file' = bkp'
    /\ Signal
    /\ UNCHANGED <<queueVars, vc, npc>>

(* A flag for the end of the session that is being held. *)
cwmp_set_end_session(f) == ends' = [ends EXCEPT ![send] = @ \union {f}]

(* A command of the ubus object: no lock is taken.  Its reload outside a    *)
(* session belongs to Configuration, its exit is a stop of the program.     *)
cwmp_handle_command(f) ==
    /\ Up /\ (f = "REBOOT" => restarts < MaxRestarts)
    /\ send # NULL
    /\ cwmp_set_end_session(f)
    /\ UNCHANGED <<queueVars, send, vc, url, pc, schedVars, npc, bkp, file, restarts>>

-----------------------------------------------------------------------------
(* cwmp_schedule_session. *)

Calm == UNCHANGED <<vc, url, npc, restarts>>
Still == Calm /\ UNCHANGED <<queueVars, send, ends, bkp, file>>

(* The test of the outer while loop, under mutex_session_send only: the    *)
(* session is read without mutex_session_queue.                            *)
Choose ==
    IF queue = <<>>
    THEN pc' = "presleep" /\ UNCHANGED session
    ELSE pc' = "prepare" /\ session' = queue[1]

sched_lock ==
    /\ pc = "lock"
    /\ IF retry THEN pc' = "presleep" /\ UNCHANGED session ELSE Choose
    /\ Still /\ UNCHANGED <<retry, err, crEvent, retryCount, reqs, idx>>

(* pthread_cond_timedwait: blocks, and releases mutex_session_send. *)
sched_sleep ==
    /\ pc = "presleep"
    /\ pc' = "wait"
    /\ Still /\ UNCHANGED schedVars

(* cwmp_get_retry_interval is MAX_INT32 while no session has failed: that  *)
(* wait does not time out.                                                 *)
sched_timeout ==
    /\ pc = "wait" /\ retryCount # 0
    /\ pc' = "woken"
    /\ Still /\ UNCHANGED schedVars

sched_woken ==
    /\ pc = "woken"
    /\ retry' = FALSE
    /\ Choose
    /\ Still /\ UNCHANGED <<err, crEvent, retryCount, reqs, idx>>

cwmp_prepare_value_change ==
    /\ pc = "prepare"
    /\ pc' = "move"
    /\ IF vc = {}
       THEN UNCHANGED <<queueVars, vc>>
       ELSE /\ Queued(Spliced(AddEvent(Here, VALUE_CHANGE, ""), vc), QueuedRpcs)
            /\ vc' = {}
    /\ UNCHANGED <<send, ends, url, npc, restarts, bkp, file, schedVars>>

cwmp_move_session_to_session_send ==
    /\ pc = "move"
    /\ IF send # NULL
       THEN pc' = "fatal" /\ UNCHANGED <<queue, head, send, bkp, file, reqs>>
       ELSE /\ queue' = RemoveFirstOf(queue, {i \in 1 .. Len(queue) :
                                                  queue[i] = session})
            /\ send' = session
            /\ head' = NULL
            /\ bkp' = [bkp EXCEPT !.nodes = bkp_session_move_inform_to_inform_send(@)]
            /\ file' = bkp'
            /\ reqs' = 0
            /\ pc' = "init"
    /\ Calm
    /\ UNCHANGED <<events, rpcs, nextId, ends, session, retry, err, crEvent,
                   retryCount, idx>>

(* cwmp_schedule_rpc.  Every outcome of the network is possible. *)
Goto(l) == pc' = l /\ Still /\ UNCHANGED schedVars

http_client_init == pc = "init" /\ \/ Goto("acs")
                                   \/ Goto("fail")

(* The next RPC fails to be built, sent, answered or parsed. *)
rpc_acs_failed == pc = "acs" /\ rpcs[session] # <<>> /\ Goto("fail")

(* Inform is answered: its extra_clean, event_remove_all_event_container,  *)
(* starts.                                                                 *)
rpc_inform_answered ==
    /\ pc = "acs" /\ rpcs[session] # <<>>
    /\ Head(rpcs[session]).type = "Inform"
    /\ Goto("ack")

(* After an answer the RPC is destroyed; HoldRequests ends the loop over    *)
(* the RPCs.                                                               *)
AfterRpc ==
    /\ rpcs[session] # <<>>
    /\ rpcs' = [rpcs EXCEPT ![session] = Tail(@)]
    /\ pc' \in {"acs", "empty"}

(* Mutant: the node is looked up among the queued events. *)
DropFirstQueued(name) ==
    /\ events' = [events EXCEPT ![session] = Tail(@)]
    /\ bkp' = [bkp EXCEPT !.nodes =
                  bkp_session_delete_event(@, Head(events[session]).id, "queue_event")]

DropFirstEvent(name) ==
    /\ events' = [events EXCEPT ![session] = Tail(@)]
    /\ bkp' = [bkp EXCEPT !.nodes =
                  bkp_session_delete_event(@, Head(events[session]).id, name)]

event_remove_all_event_container ==
    /\ pc = "ack"
    /\ IF events[session] # <<>>
       THEN DropFirstEvent("send_event") /\ UNCHANGED <<rpcs, pc, file>>
       ELSE AfterRpc /\ file' = bkp /\ UNCHANGED <<events, bkp>>
    /\ Calm /\ UNCHANGED <<queue, head, nextId, send, ends, schedVars>>

(* extra_clean of TransferComplete and DUStateChangeComplete. *)
ExtraClean(r) ==
    IF r.type \in {"TransferComplete", "DUStateChangeComplete"}
    THEN bkp' = WithoutRecord(bkp, r.code, r.key) /\ file' = bkp'
    ELSE UNCHANGED <<bkp, file>>

rpc_acs_answered ==
    /\ pc = "acs" /\ rpcs[session] # <<>>
    /\ Head(rpcs[session]).type # "Inform"
    /\ ExtraClean(Head(rpcs[session]))
    /\ AfterRpc
    /\ Calm /\ UNCHANGED <<queue, head, events, nextId, send, ends, schedVars>>

rpc_acs_done == pc = "acs" /\ rpcs[session] = <<>> /\ Goto("empty")

(* A request of the ACS becomes an RPC of the CPE to handle; a fault of the *)
(* message is one too, answered by cwmp_handle_rpc_cpe_fault.               *)
xml_handle_message == pc' = "cpe" /\ reqs < MaxReq /\ reqs' = reqs + 1

(* The empty POST, and the answer to a request of the ACS: the connection  *)
(* fails, the ACS has nothing to ask, or it makes a request.               *)
AcsReplies ==
    \/ pc' = "fail" /\ UNCHANGED reqs
    \/ pc' = "next" /\ UNCHANGED reqs
    \/ xml_handle_message

xml_send_empty ==
    /\ pc = "empty" /\ AcsReplies
    /\ Still /\ UNCHANGED <<session, retry, err, crEvent, retryCount, idx>>

xml_send_response ==
    /\ pc = "reply" /\ AcsReplies
    /\ Still /\ UNCHANGED <<session, retry, err, crEvent, retryCount, idx>>

(* cwmp_rpc_cpe_handle_message.  Reboot raises its event before the answer *)
(* is sent; the others only set a flag of the session or touch nothing     *)
(* that is modelled here.                                                  *)
cwmp_handle_rpc_cpe_reboot(k) ==
    /\ pc = "cpe" /\ nextId < MaxId /\ restarts < MaxRestarts
    /\ pc' = "reply"
    /\ RaiseSaved(M_Reboot, k, QueuedRpcs)
    /\ cwmp_set_end_session("REBOOT")
    /\ Calm /\ UNCHANGED <<send, schedVars>>

(* FactoryReset, or a parameter whose setter asks for a reload. *)
cwmp_handle_rpc_cpe_flag(f) ==
    /\ pc = "cpe"
    /\ f = "FACTORY_RESET" => restarts < MaxRestarts
    /\ pc' = "reply"
    /\ cwmp_set_end_session(f)
    /\ Calm /\ UNCHANGED <<queueVars, send, bkp, file, schedVars>>

(* A handler that touches nothing modelled here: its response is built, or  *)
(* the session fails.                                                       *)
Respond == Goto("reply") \/ Goto("fail")
cwmp_handle_rpc_cpe_get_rpc_methods == pc = "cpe" /\ Respond
cwmp_handle_rpc_cpe_fault == pc = "cpe" /\ Respond
cwmp_handle_rpc_cpe_other ==
    cwmp_handle_rpc_cpe_get_rpc_methods \/ cwmp_handle_rpc_cpe_fault

rpc_next ==
    /\ pc = "next"
    /\ IF rpcs[session] = <<>>
       THEN pc' = "endf" /\ err' = "OK"
       ELSE pc' = "acs" /\ UNCHANGED err
    /\ Still /\ UNCHANGED <<session, retry, crEvent, retryCount, reqs, idx>>

(* event_remove_noretry_event_container, one container at a time.  The     *)
(* code "6" is read from the container after it is freed, so cwmp_cr_event *)
(* may or may not be set.                                                  *)
event_remove_noretry_event_container ==
    /\ pc = "fail"
    /\ LET I == {i \in 1 .. Len(events[session]) : events[session][i].code \in NoRetry}
       IN  IF I # {}
           THEN /\ events' = [events EXCEPT ![session] = RemoveFirstOf(@, I)]
                /\ crEvent' \in {crEvent, 1}
                /\ UNCHANGED <<err, pc>>
           ELSE /\ err' = "RETRY" /\ pc' = "endf"
                /\ UNCHANGED <<events, crEvent>>
    /\ Calm
    /\ UNCHANGED <<queue, head, rpcs, nextId, send, ends, bkp, file,
                   session, retry, retryCount, reqs, idx>>

(* The process ends: memory is lost, f is what the flash keeps. *)
ProcessEnds(f) ==
    /\ pc' = "down"
    /\ queue' = <<>> /\ head' = NULL /\ send' = NULL /\ session' = NULL
    /\ events' = [s \in Sid |-> <<>>]
    /\ rpcs' = [s \in Sid |-> <<>>]
    /\ ends' = [s \in Sid |-> {}]
    /\ nextId' = 0 /\ vc' = {} /\ npc' = "idle"
    /\ retry' = FALSE /\ err' = "OK" /\ crEvent' = 0
    /\ retryCount' = 0 /\ reqs' = 0 /\ idx' = 0
    /\ bkp' = f /\ file' = f
    /\ UNCHANGED <<url, restarts>>

EmptyTree == [nodes |-> <<>>, acs |-> NULL]

(* run_session_end_func up to its exits. *)
end_factory_reset ==
    /\ pc = "endf" /\ "FACTORY_RESET" \in ends[session]
    /\ ProcessEnds(EmptyTree)

end_reboot ==
    /\ pc = "endf" /\ "REBOOT" \in ends[session]
    /\ "FACTORY_RESET" \notin ends[session]
    /\ ProcessEnds(file)

(* cwmp_apply_acs_changes: the configuration is read again. *)
end_reload ==
    /\ pc = "endf" /\ "RELOAD" \in ends[session]
    /\ ends[session] \cap {"FACTORY_RESET", "REBOOT"} = {}
    /\ url' \in {u \in Url : u = url \/ nextId < MaxId}
    /\ pc' = "bootstrap"
    /\ UNCHANGED <<queueVars, send, ends, vc, npc, restarts, bkp, file, schedVars>>

end_other ==
    /\ pc = "endf"
    /\ ends[session] \cap {"FACTORY_RESET", "REBOOT", "RELOAD"} = {}
    /\ Goto("ended")

(* The last statement of run_session_end_func. *)
end_clear ==
    /\ pc = "ended"
    /\ pc' = "close"
    /\ ends' = [ends EXCEPT ![session] = {}]
    /\ Calm /\ UNCHANGED <<queueVars, send, bkp, file, schedVars>>

-----------------------------------------------------------------------------
(* The end of the session. *)

(* Mutant: a session without reports is given up. *)
RetriedIfEvents == err = "RETRY" /\ events[session] # <<>> /\ crEvent = 0

Retried == err = "RETRY" /\ (events[session] # <<>> \/ crEvent = 0)

(* cwmp_move_session_to_session_queue, no session is queued: the session   *)
(* goes back as it is, with an Inform first.                               *)
EnsureNonempty(rs) == IF rs # <<>> THEN rs ELSE <<Inform>>    \* mutant

EnsureInform(rs) ==
    IF rs # <<>> /\ Head(rs).type = "Inform" THEN rs ELSE <<Inform>> \o rs

(* The code counts without a limit: MaxRetry bounds the model. *)
Bump == IF retryCount < MaxRetry THEN retryCount + 1 ELSE MaxRetry

requeue_session ==
    /\ pc = "close" /\ Retried /\ queue = <<>>
    /\ queue' = <<session>>
    /\ head' = session
    /\ send' = NULL
    /\ session' = NULL
    /\ rpcs' = [rpcs EXCEPT ![session] = EnsureInform(@)]
    /\ bkp' = [bkp EXCEPT !.nodes = bkp_session_move_inform_to_inform_queue(@)]
    /\ file' = bkp'
    /\ retryCount' = Bump
    /\ retry' = TRUE
    /\ pc' = "lock"
    /\ Calm /\ UNCHANGED <<events, nextId, ends, err, crEvent, reqs, idx>>

(* Another session is queued: its lists take over those of the failed one, *)
(* under mutex_session_queue.                                              *)
merge_begin ==
    /\ pc = "close" /\ Retried /\ queue # <<>>
    /\ send' = NULL
    /\ retryCount' = Bump
    /\ idx' = 1
    /\ pc' = "merge"
    /\ Calm /\ UNCHANGED <<queueVars, ends, bkp, file, session, retry, err, crEvent, reqs>>

merge_event ==
    /\ pc = "merge" /\ idx <= Len(events[session])
    /\ LET old == events[session][idx]
           st == Spliced(AddEvent(Here, old.code, old.key), old.params)
       IN  /\ Queued(Saved(st), QueuedRpcs)
           /\ bkp' = [bkp EXCEPT !.nodes = SavedNodes(st, @)]
           /\ file' = IF Persistent(st) THEN bkp' ELSE file
    /\ idx' = idx + 1
    /\ Calm /\ UNCHANGED <<send, ends, pc, session, retry, err, crEvent, retryCount, reqs>>

merge_events_done ==
    /\ pc = "merge" /\ idx > Len(events[session])
    /\ idx' = 1
    /\ pc' = "mergeRpc"
    /\ Still /\ UNCHANGED <<session, retry, err, crEvent, retryCount, reqs>>

(* Mutant: dup, true for the Inform, is not reset for the RPCs after it. *)
StickyDuplicate(r) ==
    \E i \in 1 .. Len(rpcs[head]) : rpcs[head][i].type = "Inform"

Duplicate(r) ==
    /\ r.type \in {"Inform", "GetRPCMethods"}
    /\ \E i \in 1 .. Len(rpcs[head]) : rpcs[head][i].type = r.type

merge_rpc ==
    /\ pc = "mergeRpc" /\ idx <= Len(rpcs[session])
    /\ LET r == rpcs[session][idx]
       IN  IF Duplicate(r)
           THEN idx' = idx + 1 /\ UNCHANGED rpcs
           ELSE /\ rpcs' = [rpcs EXCEPT ![head] = Append(@, r),
                                        ![session] = RemoveAt(@, idx)]
                /\ UNCHANGED idx
    /\ Calm
    /\ UNCHANGED <<queue, head, events, nextId, send, ends, pc, bkp, file,
                   session, retry, err, crEvent, retryCount, reqs>>

merge_rpcs_done ==
    /\ pc = "mergeRpc" /\ idx > Len(rpcs[session])
    /\ Goto("destroy")

close_success == pc = "close" /\ ~Retried /\ Goto("destroy")

(* cwmp_session_destructor: extra_clean of what is left.  That of Inform   *)
(* removes the events, and their nodes, from the session.                  *)
destroy_event ==
    /\ pc = "destroy" /\ rpcs[session] # <<>>
    /\ Head(rpcs[session]).type = "Inform" /\ events[session] # <<>>
    /\ DropFirstEvent("send_event")
    /\ Calm /\ UNCHANGED <<queue, head, rpcs, nextId, send, ends, pc, file, schedVars>>

destroy_rpc ==
    /\ pc = "destroy" /\ rpcs[session] # <<>>
    /\ rpcs' = [rpcs EXCEPT ![session] = Tail(@)]
    /\ LET r == Head(rpcs[session])
       IN  IF r.type = "Inform"
           THEN events[session] = <<>> /\ file' = bkp /\ UNCHANGED bkp
           ELSE ExtraClean(r)
    /\ Calm /\ UNCHANGED <<queue, head, events, nextId, send, ends, pc, schedVars>>

KeptCount == retryCount       \* mutant: the count does not start again

(* cwmp_schedule_session counts the failures since the last success. *)
SuccessCount == 0

(* The structure is freed; the scheduler releases mutex_session_send. *)
destroy_done ==
    /\ pc = "destroy" /\ rpcs[session] = <<>>
    /\ events' = [events EXCEPT ![session] = <<>>]
    /\ ends' = [ends EXCEPT ![session] = {}]
    /\ session' = NULL
    /\ send' = NULL
    /\ IF send = NULL
       THEN retry' = TRUE /\ UNCHANGED retryCount
       ELSE retryCount' = SuccessCount /\ UNCHANGED retry
    /\ pc' = "lock"
    /\ Calm
    /\ UNCHANGED <<queue, head, rpcs, nextId, bkp, file, err, crEvent, reqs, idx>>

-----------------------------------------------------------------------------
(* A crash, a power cut, SIGTERM or the end of the process, and main. *)

crash ==
    /\ pc # "down" /\ restarts < MaxRestarts
    /\ ProcessEnds(file)

(* A firmware or configuration download succeeded: the record is written,  *)
(* the transfer thread ends the process.                                   *)
transfer_exit(c, k) ==
    /\ Up /\ QueueFree /\ SendFree /\ c \in {M_Download, M_Schedule_Download}
    /\ restarts < MaxRestarts
    /\ ProcessEnds(WithRecord(bkp, c, k))

(* bkp_session_check_file; the configuration may have changed meanwhile. *)
restart ==
    /\ pc = "down"
    /\ pc' = "load"
    /\ idx' = 1
    /\ bkp' = [file EXCEPT !.nodes = bkp_session_move_inform_to_inform_queue(@)]
    /\ file' = bkp'
    /\ url' \in Url
    /\ restarts' = restarts + 1
    /\ UNCHANGED <<queueVars, send, ends, vc, npc,
                   session, retry, err, crEvent, retryCount, reqs>>

(* Mutant: the command key is not read. *)
LoadedWithoutKey(n) ==
    LET st == AddEvent(Here, n.code, "")
    IN  [st EXCEPT !.evs = [st.evs EXCEPT ![st.at].id = n.id,
                                          ![st.at].saved = TRUE]]

(* cwmp_load_saved_session: a queue_event gets its saved id back. *)
Loaded(n) ==
    LET st == AddEvent(Here, n.code, n.key)
    IN  [st EXCEPT !.evs = [st.evs EXCEPT ![st.at].id = n.id,
                                          ![st.at].saved = TRUE]]

(* Every code found here is one of RetryAfterReboot: the code's test of     *)
(* that flag never fails, as no other event is ever written.               *)
load_queue_event ==
    /\ pc = "load" /\ idx <= Len(bkp.nodes)
    /\ bkp.nodes[idx].name = "queue_event"
    /\ Queued(Loaded(bkp.nodes[idx]), QueuedRpcs)
    /\ idx' = idx + 1
    /\ Calm /\ UNCHANGED <<send, ends, pc, bkp, file,
                           session, retry, err, crEvent, retryCount, reqs>>

(* load_du_state_change_complete and load_transfer_complete: the events and *)
(* the RPC of a record.  A TransferComplete whose record names another      *)
(* software version than the present one also raises a VALUE CHANGE.        *)
load_transfer_complete ==
    /\ pc = "load" /\ idx <= Len(bkp.nodes)
    /\ LET n == bkp.nodes[idx]
           st == CompleteEvents(n.code, n.key)
           rs == Append(QueuedRpcs, CompleteRpc(n.code, n.key))
       IN  /\ n.name = "transfer_complete"
           /\ \/ Queued(st, rs)
              \/ /\ n.code # M_ChangeDUState
                 /\ Queued(AddEvent(st, VALUE_CHANGE, ""), rs)
    /\ idx' = idx + 1
    /\ Calm /\ UNCHANGED <<send, ends, pc, bkp, file,
                           session, retry, err, crEvent, retryCount, reqs>>

load_done == pc = "load" /\ idx > Len(bkp.nodes) /\ Goto("bootstrap")

(* cwmp_root_cause_events, at start-up and when a session ends with RELOAD. *)
AfterBootstrap == IF send = NULL THEN "boot" ELSE "ended"

cwmp_root_cause_event_bootstrap ==
    /\ pc = "bootstrap"
    /\ IF bkp.acs = NULL
       THEN bkp' = [bkp EXCEPT !.acs = url] /\ file' = bkp' /\ pc' = "flush"
       ELSE /\ pc' = IF bkp.acs # url THEN "flush" ELSE AfterBootstrap
            /\ UNCHANGED <<bkp, file>>
    /\ Calm /\ UNCHANGED <<queueVars, send, ends, schedVars>>

(* The queued events of the old ACS are removed, under mutex_session_queue. *)
bootstrap_flush ==
    /\ pc = "flush" /\ head # NULL /\ events[head] # <<>>
    /\ events' = [events EXCEPT ![head] = Tail(@)]
    /\ bkp' = [bkp EXCEPT !.nodes =
                  bkp_session_delete_event(@, Head(events[head]).id, "queue_event")]
    /\ Calm /\ UNCHANGED <<queue, head, rpcs, nextId, send, ends, pc, file, schedVars>>

bootstrap_flushed ==
    /\ pc = "flush" /\ QueuedEvents = <<>>
    /\ file' = IF head = NULL THEN file ELSE bkp
    /\ pc' = "raise"
    /\ Calm /\ UNCHANGED <<queueVars, bkp, send, ends, schedVars>>

bootstrap_raise ==
    /\ pc = "raise"
    /\ RaiseSaved(BOOTSTRAP, "", QueuedRpcs)
    /\ pc' = IF bkp.acs # url THEN "urlchange" ELSE AfterBootstrap
    /\ Calm /\ UNCHANGED <<send, ends, schedVars>>

bootstrap_url_changed ==
    /\ pc = "urlchange"
    /\ Queued(Spliced(AddEvent(Here, VALUE_CHANGE, ""), {UrlParam}), QueuedRpcs)
    /\ bkp' = [bkp EXCEPT !.acs = url] /\ file' = bkp'
    /\ pc' = AfterBootstrap
    /\ Calm /\ UNCHANGED <<send, ends, schedVars>>

cwmp_root_cause_event_boot ==
    /\ pc = "boot"
    /\ pc' = "grm"
    /\ \/ UNCHANGED <<queueVars, bkp, file>>
       \/ RaiseSaved(BOOT, "", QueuedRpcs)
    /\ Calm /\ UNCHANGED <<send, ends, schedVars>>

cwmp_root_cause_getRPCMethod ==
    /\ pc = "grm"
    /\ pc' = "port"
    /\ \/ UNCHANGED <<queueVars, bkp, file>>
       \/ RaiseSaved(PERIODIC, "", Append(QueuedRpcs, GetRPCMethods))
    /\ Calm /\ UNCHANGED <<send, ends, schedVars>>

(* http_server_init binds another port than the saved one; then the        *)
(* threads start, and cwmp_schedule_session.                               *)
connection_request_port_value_change ==
    /\ pc = "port"
    /\ pc' = "lock"
    /\ crEvent' = 0
    /\ \/ UNCHANGED <<queueVars, bkp, file>>
       \/ AddressSaved /\ UNCHANGED queueVars
       \/ AddressSaved /\ AddressReported
    /\ Calm /\ UNCHANGED <<send, ends, session, retry, err, retryCount, reqs, idx>>

-----------------------------------------------------------------------------
Init ==
    /\ queue = <<>> /\ head = NULL /\ send = NULL /\ session = NULL
    /\ events = [s \in Sid |-> <<>>]
    /\ rpcs = [s \in Sid |-> <<>>]
    /\ ends = [s \in Sid |-> {}]
    /\ nextId = 0 /\ vc = {} /\ npc = "idle"
    /\ url \in Url
    /\ pc = "load" /\ idx = 1
    /\ retry = FALSE /\ err = "OK" /\ crEvent = 0
    /\ retryCount = 0 /\ reqs = 0
    /\ bkp = EmptyTree /\ file = EmptyTree
    /\ restarts = 0

(* The environment of an instance: the producers named in Source act. *)
Produce ==
    \/ "periodic" \in Source /\ thread_event_periodic
    \/ "cr" \in Source /\ http_success_cr
    \/ \E c \in InformCode : cwmp_handle_inform(c)
    \/ "grm" \in Source /\ cwmp_handle_inform_grm
    \/ "ip" \in Source /\ netlink_new_msg
    \/ "diagnostic" \in Source /\ cwmp_root_cause_event_ipdiagnostic
    \/ \E p \in Param, active \in BOOLEAN : cwmp_add_notification(p, active)
    \/ cwmp_add_notification_active
    \/ "schedule" \in Source /\ \E k \in CmdKey : scheduleInform_due(k)
    \/ \E c \in TransferCode, k \in CmdKey :
          \/ transfer_finished(c, k)
          \/ transfer_fault(c, k)
          \/ transfer_expired(c, k)
          \/ transfer_silent(c, k)
    \/ "command" \in Source
       /\ \E f \in {"REBOOT", "EXTERNAL_ACTION", "RELOAD"} : cwmp_handle_command(f)

Schedule ==
    \/ sched_lock \/ sched_sleep \/ sched_timeout \/ sched_woken
    \/ cwmp_prepare_value_change
    \/ cwmp_move_session_to_session_send

Converse ==
    \/ http_client_init
    \/ rpc_acs_failed \/ rpc_inform_answered \/ rpc_acs_answered \/ rpc_acs_done
    \/ event_remove_all_event_container
    \/ xml_send_empty \/ xml_send_response
    \/ \E k \in CmdKey : cwmp_handle_rpc_cpe_reboot(k)
    \/ \E f \in {"FACTORY_RESET", "RELOAD"} : cwmp_handle_rpc_cpe_flag(f)
    \/ cwmp_handle_rpc_cpe_other
    \/ rpc_next
    \/ event_remove_noretry_event_container

Close ==
    \/ end_factory_reset \/ end_reboot \/ end_reload \/ end_other \/ end_clear
    \/ requeue_session
    \/ merge_begin \/ merge_event \/ merge_events_done
    \/ merge_rpc \/ merge_rpcs_done
    \/ close_success
    \/ destroy_event \/ destroy_rpc \/ destroy_done

Start ==
    \/ restart
    \/ load_queue_event \/ load_transfer_complete \/ load_done
    \/ cwmp_root_cause_event_bootstrap
    \/ bootstrap_flush \/ bootstrap_flushed \/ bootstrap_raise \/ bootstrap_url_changed
    \/ cwmp_root_cause_event_boot
    \/ cwmp_root_cause_getRPCMethod
    \/ connection_request_port_value_change

Next ==
    \/ Produce \/ Schedule \/ Converse \/ Close \/ Start
    \/ crash
    \/ \E c \in TransferCode, k \in CmdKey : transfer_exit(c, k)

Spec == Init /\ [][Next]_vars

(* main's thread runs: it blocks on mutexes that the other threads hold    *)
(* for a finite time, and in pthread_cond_timedwait.  When periodic Inform *)
(* is enabled its thread keeps raising the event.                          *)
Scheduler == Schedule \/ Converse \/ Close \/ Start
FairSpec ==
    /\ Spec
    /\ WF_vars(Scheduler)
    /\ "periodic" \in Source => WF_vars(thread_event_periodic)

-----------------------------------------------------------------------------
(* Properties. *)

(* The sessions a thread can still reach. *)
Live == ToSet(queue) \union ({send, session} \ {NULL})

(* The queue of sessions is the single session that head_event_container   *)
(* points into, and never the one being sent or torn down: events raised   *)
(* during a session go to the next one (event.c:84-93), and the branch     *)
(* "FATAL error in the mutex process" (cwmp.c) is never taken.             *)
QueueShape ==
    /\ Len(queue) <= 1
    /\ (head = NULL) = (queue = <<>>)
    /\ queue # <<>> => queue[1] = head
    /\ queue # <<>> /\ pc \notin {"prepare", "move"} => head # session
    /\ send \notin ToSet(queue)
    /\ send # NULL => send = session
    /\ pc # "fatal"

(* A queued session starts with its Inform and has no second one, whatever *)
(* failures, merges and restarts it went through.                          *)
InformFirst ==
    \A s \in ToSet(queue) :
        /\ rpcs[s] # <<>>
        /\ \A i \in 1 .. Len(rpcs[s]) : (rpcs[s][i].type = "Inform") = (i = 1)

(* retry_count_session is reported by the next Inform, and bounds the wait *)
(* of the scheduler.  A scheduler that holds a session back for its retry  *)
(* has one to retry and a wait that times out, also when the failed one    *)
(* was merged and freed (cwmp.c:195-201, 223-232); and the count is not    *)
(* zero only while what failed is queued again or being sent.              *)
RetryTimed ==
    /\ retry => retryCount # 0 /\ queue # <<>>
    /\ retryCount # 0 => queue # <<>> \/ send # NULL

(* The events of every session are sorted, each SINGLE one at most once. *)
EventsOrdered == \A s \in Live : Ordered(events[s])

(* Until the first restart, an event cwmp_save_event_container promised to *)
(* keep has its own record in the file as long as it is pending.           *)
InFile(e) == \E i \in 1 .. Len(file.nodes) :
    /\ file.nodes[i].name \in EventName
    /\ file.nodes[i].id = e.id
    /\ file.nodes[i].code = e.code
    /\ file.nodes[i].key = e.key

Durable ==
    restarts = 0 => \A s \in Live : \A i \in 1 .. Len(events[s]) :
                        events[s][i].saved => InFile(events[s][i])

(* Until the first restart, between two sessions, every event record of    *)
(* the file belongs to an event still pending: an Inform the ACS answered  *)
(* is not repeated after a reboot.                                         *)
NoReplay ==
    restarts = 0 /\ pc \in Idle =>
        \A n \in ToSet(file.nodes) :
            n.name \in EventName =>
                \E s \in Live : \E e \in ToSet(events[s]) :
                    e.id = n.id /\ e.code = n.code /\ e.key = n.key

(* What is owed to the ACS: the pending events that EVENT_CONST retries,   *)
(* the changed parameters, and the reports of finished transfers.          *)
Pending == UNION {ToSet(events[s]) : s \in Live}
Owed == {<<e.code, e.key>> : e \in {x \in Pending : x.code \notin NoRetry}}
OwedParams == vc \union UNION {e.params : e \in Pending}
Reports == {r \in UNION {ToSet(rpcs[s]) : s \in Live} :
               r.type \in {"TransferComplete", "DUStateChangeComplete"}}

(* When main has loaded the file, every event and every transfer recorded  *)
(* in it is pending again, whatever the crash interrupted.                 *)
Reloaded ==
    pc = "bootstrap" /\ send = NULL =>
        \A n \in ToSet(file.nodes) :
            IF n.name = "transfer_complete"
            THEN CompleteRpc(n.code, n.key) \in Reports
            ELSE <<n.code, n.key>> \in Owed

(* A changed parameter with notification stays in list_value_change or in  *)
(* a pending VALUE CHANGE event until an Inform with it is answered.       *)
ParamsKept ==
    [][\A p \in OwedParams : \/ p \in OwedParams'
                             \/ /\ pc = "ack" /\ events[session] # <<>>
                                /\ p \in Head(events[session]).params
                             \/ pc = "flush"
                             \/ pc' = "down"]_vars

(* A TransferComplete or DUStateChangeComplete report leaves the sessions  *)
(* only when the ACS answered it - or, because cwmp_cr_event is never      *)
(* reset, when its session fails after an earlier session with a           *)
(* connection request had failed.                                          *)
ReportsKept ==
    [][\A r \in Reports : \/ r \in Reports'
                          \/ /\ pc = "acs" /\ rpcs[session] # <<>>
                             /\ r = Head(rpcs[session])
                          \/ pc = "destroy" /\ crEvent = 1
                          \/ pc' = "down"]_vars

(* A queued session is started: under FairSpec with the periodic thread a  *)
(* signal that finds nobody waiting is made good by a later one, and a     *)
(* failed session is retried.                                              *)
QueuedStarts == (queue # <<>>) ~> (pc = "init")

(* "Session with GetRPCMethods will start" (ubus.c:282). *)
GrmStarts ==
    (\E s \in ToSet(queue) : GetRPCMethods \in ToSet(rpcs[s])) ~> (pc = "init")
=============================================================================
