---------------------------- MODULE Notifications ----------------------------
(***************************************************************************)
(* Value changes: the ubus call "notify" (ubus.c), the thread that         *)
(* compares the parameters with notification to what it knows of them      *)
(* (event.c), the sessions that report what it finds (cwmp.c, xml.c) and   *)
(* the reloads of what is known (ubus.c, config.c).                        *)
(***************************************************************************)
EXTENDS Naturals, SequencesExt, Functions

CONSTANTS
    Param,
    Attribute,      \* Param -> 0 .. 6, their notification
    ParamValue,
    LwEnabled,      \* lightweight notification is enabled
    MaxChanges      \* bound: changes by other programs and by the ACS

ASSUME NoteAssumption == ParamValue # {} /\ Attribute \in [Param -> 0 .. 6]

VARIABLES
    value,          \* of each parameter, in the configuration
    known, lwKnown, \* list_enabled_notify and list_enabled_lw_notify
    changes, lw,    \* list_value_change and list_lw_value_change
    head,           \* the queued session, if any: its lists of VALUE CHANGE
    sent, spc,      \* those of the session in progress, and its step
    staged,         \* what SetParameterValues has set and not committed
    reloading,      \* ubus reload: no session ran when it looked
    npc, todo,      \* thread_handle_notify: its step, what is left to compare
    active, lwActive,   \* isactive and lw_isactive
    count, bell,    \* count_handle_notify, and a signal about to be given
    told,           \* history: the values the ACS has been told or has set
    unsaid, said,   \* history: changes without and with a notify since
    odd,            \* history: what the first list has otherwise than by a report
    lost,           \* history: a signal came between the test and the wait
    edits           \* history: the changes so far, for MaxChanges

queueVars == <<changes, head, sent, spc>>
listVars == <<known, lwKnown, lw>>
threadVars == <<npc, todo, active, lwActive, count, bell, lost>>
acsVars == <<value, staged, told, edits>>
noteVars == <<queueVars, listVars, threadVars, acsVars, unsaid, said, odd, reloading>>

NoSession == {}
Full == {p \in Param : Attribute[p] \in {1, 2, 4, 6}}
Light == {p \in Param : Attribute[p] >= 3}
Comparisons == ({"full"} \X Full) \union ({"light"} \X Light)

(* A list of changes gives parameters their values.                        *)
EmptyList == <<>>
add_dm_parameter_tolist(list, p, v) ==
    [q \in DOMAIN list \union {p} |-> IF q = p THEN v ELSE list[q]]
Named(lists) == UNION {DOMAIN lists[i] : i \in DOMAIN lists}

(* xml_prepare_parameters_inform: the last list that has p sets its value. *)
Reported(lists, p) == lists[CHOOSE i \in DOMAIN lists :
    p \in DOMAIN lists[i] /\ \A j \in DOMAIN lists : j > i => p \notin DOMAIN lists[j]][p]

Waiting == IF head = NoSession THEN <<>> ELSE CHOOSE lists \in head : TRUE
Pending(p) == p \in DOMAIN changes \union Named(Waiting) \union Named(sent) \union DOMAIN staged
SendFree == spc = "none" /\ npc # "compare"

(* The parameters of one list, each with the value it has now; and both    *)
(* lists, emptied and filled again.                                        *)
dm_entry_enabled_notify(P) == [p \in P |-> value[p]]
ListsLoaded ==
    /\ known' = dm_entry_enabled_notify(Full)
    /\ lwKnown' = dm_entry_enabled_notify(Light)
    /\ odd' = odd \union {p \in Full : known[p] # value[p]}
    /\ said' = {}

-----------------------------------------------------------------------------
(* Another program changes a parameter, and says so.                       *)
change(p, v) ==
    /\ edits < MaxChanges /\ v # value[p]
    /\ value' = [value EXCEPT ![p] = v]
    /\ unsaid' = unsaid \union {p} /\ edits' = edits + 1
    /\ UNCHANGED <<queueVars, listVars, threadVars, staged, told, said, odd, reloading>>

cwmp_handle_notify ==
    /\ ~bell /\ unsaid # {}
    /\ bell' = (count = 0)
    /\ count' = 1               \* any number that is not 0
    /\ said' = said \union unsaid /\ unsaid' = {}
    /\ UNCHANGED <<queueVars, listVars, acsVars, npc, todo, active, lwActive, lost, odd,
                   reloading>>

(* The signal, after the unlock; it is lost on a thread that does not wait.*)
Signal ==
    /\ bell /\ bell' = FALSE
    /\ npc' = IF npc = "wait" THEN "woken" ELSE npc
    /\ lost' = (lost \/ (npc = "start" /\ count # 0))
    /\ UNCHANGED <<queueVars, listVars, acsVars, todo, active, lwActive, count, unsaid, said,
                   odd, reloading>>

-----------------------------------------------------------------------------
(* thread_handle_notify.                                                   *)
thread_handle_notify ==
    /\ \/ npc = "start" /\ npc' = "wait"
       \/ npc = "woken" /\ count = 0 /\ npc' = "start"
    /\ UNCHANGED <<queueVars, listVars, acsVars, todo, active, lwActive, count, bell, lost,
                   unsaid, said, odd, reloading>>

(* cwmp_add_notification, which holds mutex_session_send while it compares.*)
(* The count is cleared before.                                            *)
cwmp_add_notification ==
    /\ npc = "woken" /\ count # 0 /\ SendFree
    /\ npc' = "compare" /\ todo' = Comparisons
    /\ active' = FALSE /\ lwActive' = FALSE /\ count' = 0
    /\ UNCHANGED <<queueVars, listVars, acsVars, bell, lost, unsaid, said, odd, reloading>>

compare_full(p) ==
    /\ npc = "compare" /\ <<"full", p>> \in todo
    /\ todo' = todo \ {<<"full", p>>} /\ said' = said \ {p}
    /\ IF value[p] = known[p]
       THEN UNCHANGED <<known, changes, active, odd>>
       ELSE /\ known' = [known EXCEPT ![p] = value[p]]
            /\ changes' = add_dm_parameter_tolist(changes, p, value[p])
            /\ active' = (active \/ Attribute[p] = 2)
            /\ odd' = odd \ {p}
    /\ UNCHANGED <<acsVars, lwKnown, lw, head, sent, spc, npc, lwActive, count, bell, lost,
                   unsaid, reloading>>

(* The second list, after the first: what is read of its first parameter   *)
(* may be what was read of the last one of the first list.                 *)
ReadOf(p) ==
    {value[p]} \union
        (IF ({"light"} \X Light) \subseteq todo THEN {known[q] : q \in Full} ELSE {})

compare_light(p) ==
    /\ npc = "compare" /\ <<"light", p>> \in todo
    /\ (({"full"} \X Full) \intersect todo) = {}
    /\ IF ~LwEnabled
       THEN todo' = {} /\ UNCHANGED <<lwKnown, lw, lwActive>>
       ELSE /\ todo' = todo \ {<<"light", p>>}
            /\ \E v \in ReadOf(p) :
                  IF v = lwKnown[p]
                  THEN UNCHANGED <<lwKnown, lw, lwActive>>
                  ELSE /\ lwKnown' = [lwKnown EXCEPT ![p] = v]
                       /\ lw' = add_dm_parameter_tolist(lw, p, v)
                       /\ lwActive' = (lwActive \/ Attribute[p] \in {5, 6})
    /\ UNCHANGED <<queueVars, acsVars, known, npc, active, count, bell, lost, unsaid, said, odd,
                   reloading>>

(* The light list is sent in a datagram, whatever becomes of it.           *)
cwmp_lwnotification == lw' = EmptyList

compared ==
    /\ npc = "compare" /\ todo = {}
    /\ IF lwActive THEN cwmp_lwnotification ELSE UNCHANGED lw
    /\ npc' = IF active THEN "add" ELSE "woken"
    /\ UNCHANGED <<queueVars, acsVars, known, lwKnown, todo, active, lwActive, count, bell, lost,
                   unsaid, said, odd, reloading>>

add_value_change ==
    /\ npc = "add" /\ npc' = "woken"
    /\ head' = {Waiting}
    /\ UNCHANGED <<changes, sent, spc, listVars, acsVars, todo, active, lwActive, count, bell,
                   lost, unsaid, said, odd, reloading>>

-----------------------------------------------------------------------------
(* Sessions.  The queue holds one session: new events join it, and one     *)
(* that is to be retried becomes it, or is merged into it.                 *)
other_event ==
    /\ head = NoSession /\ head' = {<<>>}
    /\ UNCHANGED <<changes, sent, spc, listVars, threadVars, acsVars, unsaid, said, odd, reloading>>

(* cwmp_prepare_value_change puts the list before what the event has: a    *)
(* change that a retried session reports too is overtaken by the older one.*)
cwmp_schedule_session ==
    /\ SendFree /\ head # NoSession
    /\ sent' = IF changes = EmptyList THEN Waiting ELSE <<changes>> \o Waiting
    /\ odd' = odd \union (DOMAIN changes \intersect Named(Waiting))
    /\ changes' = EmptyList /\ head' = NoSession /\ spc' = "inform"
    /\ UNCHANGED <<listVars, threadVars, acsVars, unsaid, said, reloading>>

cwmp_handle_inform_response ==
    /\ spc = "inform" /\ spc' = "rpcs"
    /\ told' = [p \in Param |-> IF p \in Named(sent) THEN Reported(sent, p) ELSE told[p]]
    /\ sent' = <<>>
    /\ UNCHANGED <<changes, head, listVars, threadVars, value, staged, edits, unsaid, said, odd,
                   reloading>>

(* dm_entry_apply of SetParameterValues, entry by entry; the first list    *)
(* learns of a value when it is set, the second does not.                  *)
dm_update_enabled_notify_byname(p, v) ==
    /\ spc = "rpcs" /\ edits < MaxChanges
    /\ staged' = add_dm_parameter_tolist(staged, p, v)
    /\ known' = IF p \in Full THEN [known EXCEPT ![p] = v] ELSE known
    /\ edits' = edits + 1
    /\ UNCHANGED <<queueVars, threadVars, lwKnown, lw, value, told, unsaid, said, odd, reloading>>

dm_entry_apply_commit ==
    /\ staged # EmptyList /\ staged' = EmptyList
    /\ value' = [p \in Param |-> IF p \in DOMAIN staged THEN staged[p] ELSE value[p]]
    /\ told' = [p \in Param |-> IF p \in DOMAIN staged THEN staged[p] ELSE told[p]]
    /\ UNCHANGED <<queueVars, listVars, threadVars, edits, unsaid, said, odd, reloading>>

(* Or a later entry is not found any more, and the options are put back;   *)
(* what the first list has learnt is not.                                  *)
dm_entry_apply_revert ==
    /\ staged # EmptyList /\ staged' = EmptyList
    /\ odd' = odd \union {p \in DOMAIN staged : staged[p] # told[p]}
    /\ UNCHANGED <<queueVars, listVars, threadVars, value, told, edits, unsaid, said, reloading>>

(* Mutant: what the session was to report is dropped with it.              *)
Dropped == Waiting

(* cwmp_move_session_to_session_queue.                                     *)
Requeued == sent \o Waiting

(* run_session_end_func may reload both lists; then the session is over,   *)
(* or kept to be retried.                                                  *)
end_session(retry, reload) ==
    /\ spc = "rpcs" \/ (retry /\ spc = "inform")
    /\ staged = EmptyList
    /\ spc' = "none" /\ sent' = <<>>
    /\ head' = IF retry THEN {Requeued} ELSE head
    /\ IF reload THEN ListsLoaded ELSE UNCHANGED <<known, lwKnown, said, odd>>
    /\ UNCHANGED <<changes, lw, threadVars, acsVars, unsaid, reloading>>

-----------------------------------------------------------------------------
(* The command reload: the ubus thread looks whether a session runs, and   *)
(* reloads the lists under mutex_session_queue alone; that one may have    *)
(* begun since.                                                            *)
cwmp_handle_command_reload ==
    /\ ~reloading /\ spc = "none" /\ reloading' = TRUE
    /\ UNCHANGED <<queueVars, listVars, threadVars, acsVars, unsaid, said, odd>>

(* The entries are freed under a comparison that walks them: the process   *)
(* crashes (no step follows), or a walk ends there or goes on in the new   *)
(* list.                                                                   *)
cwmp_config_reloaded ==
    /\ reloading /\ reloading' = FALSE
    /\ ListsLoaded
    /\ IF npc = "compare"
       THEN \E over \in SUBSET {"full", "light"} : todo' = {c \in todo : c[1] \notin over}
       ELSE UNCHANGED todo
    /\ UNCHANGED <<queueVars, lw, npc, active, lwActive, count, bell, lost, acsVars, unsaid>>

-----------------------------------------------------------------------------
Init ==
    /\ value = [p \in Param |-> CHOOSE v \in ParamValue : TRUE]
    /\ known = dm_entry_enabled_notify(Full) /\ lwKnown = dm_entry_enabled_notify(Light)
    /\ changes = EmptyList /\ lw = EmptyList
    /\ head = NoSession /\ sent = <<>> /\ spc = "none" /\ staged = EmptyList /\ reloading = FALSE
    /\ npc = "start" /\ todo = {} /\ active = FALSE /\ lwActive = FALSE
    /\ count = 0 /\ bell = FALSE /\ lost = FALSE
    /\ told = value /\ unsaid = {} /\ said = {} /\ odd = {} /\ edits = 0

Next ==
    \/ \E p \in Param, v \in ParamValue : change(p, v) \/ dm_update_enabled_notify_byname(p, v)
    \/ cwmp_handle_notify \/ Signal
    \/ thread_handle_notify \/ cwmp_add_notification \/ compared \/ add_value_change
    \/ \E p \in Param : compare_full(p) \/ compare_light(p)
    \/ other_event \/ cwmp_schedule_session \/ cwmp_handle_inform_response
    \/ dm_entry_apply_commit \/ dm_entry_apply_revert
    \/ \E retry, reload \in BOOLEAN : end_session(retry, reload)
    \/ cwmp_handle_command_reload \/ cwmp_config_reloaded

Spec == Init /\ [][Next]_noteVars
-----------------------------------------------------------------------------
(* Properties. *)

(* A change that was announced has been looked at when no announcement is  *)
(* counted any more, also when it comes while others are compared, and     *)
(* while one is counted the thread sleeps for ever only after a signal that*)
(* came between its test and its wait.                                     *)
AnnouncedSeen ==
    /\ count = 0 /\ npc # "compare" => said \intersect Full = {}
    /\ count # 0 /\ npc = "wait" => bell \/ lost

(* What the list knows and the ACS does not is on its way to the ACS, over *)
(* sessions that fail, are merged or are overtaken by new changes, except  *)
(* (odd) what a reload has put into the list, what a SetParameterValues    *)
(* that failed has left there, and what an older report overtakes; and     *)
(* these too are on their way once the thread notices a change of them.    *)
NothingForgotten == \A p \in Full \ odd : known[p] # told[p] => Pending(p)

(* A change with active notification has a session to report it.           *)
ActiveStarts ==
    npc \notin {"compare", "add"} /\ (\E p \in DOMAIN changes : Attribute[p] = 2)
        => head # NoSession

ChangesReported == AnnouncedSeen /\ NothingForgotten /\ ActiveStarts
=============================================================================
