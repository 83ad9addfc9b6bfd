----------------------------- MODULE EventTable -----------------------------
(***************************************************************************)
(* The Inform events of icwmpd: the EVENT_CONST table (event.c) and the    *)
(* ordered, de-duplicated list a session keeps them in.  The module has no *)
(* state: the operators are used by CwmpSession, which owns the lists.     *)
(***************************************************************************)
EXTENDS Naturals, SequencesExt

CONSTANTS
    CmdKey,       \* command keys of the ACS's requests
    Param,        \* names of the parameters with notification
    MAX_INT_ID    \* the static id counter restarts from 1 after this value

ASSUME MaxIntIdAssumption == MAX_INT_ID \in Nat \ {0}

Key == CmdKey \union {""}    \* "" is the key of the SINGLE events

(* The rows of EVENT_CONST that the modelled code names. *)
BOOTSTRAP == 0
BOOT == 1
PERIODIC == 2
SCHEDULED == 3
VALUE_CHANGE == 4
CONNECTION_REQUEST == 6
TRANSFER_COMPLETE == 7
DIAGNOSTICS_COMPLETE == 8
DU_STATE_CHANGE_COMPLETE == 11
M_Reboot == 12
M_ScheduleInform == 13
M_Download == 14
M_Schedule_Download == 15
M_Upload == 16
M_ChangeDUState == 17

(* EVENT_CONST: the codes, and the codes with each of its flags. *)
EventCode == 0 .. 17
Single == 0 .. 11
RetryAfterReboot ==
    EventCode \ {BOOT, VALUE_CHANGE, CONNECTION_REQUEST, DIAGNOSTICS_COMPLETE}
RetryAfterTransmitFail == EventCode \ {CONNECTION_REQUEST}
NoRetry == EventCode \ (RetryAfterReboot \union RetryAfterTransmitFail)

(* A VALUE CHANGE event carries names of parameters. *)
UrlParam == "ManagementServer.URL"
Params == Param \union {UrlParam}

(* struct event_container.  saved is a history field: cwmp_save_event_     *)
(* container has been called for the container and the event is one that   *)
(* EVENT_RETRY_AFTER_REBOOT promises to keep.                              *)
Event == [code : EventCode, key : Key, id : Nat,
          params : SUBSET Params, saved : BOOLEAN]

(* The next value of the static id of cwmp_add_event_container. *)
NextId(id) == IF id >= MAX_INT_ID THEN 1 ELSE id + 1

NewEvent(c, k, id) ==
    [code |-> c, key |-> k, id |-> id, params |-> {}, saved |-> FALSE]

(* Mutant: SINGLE codes are not recognised. *)
StopsAtLarger(es, c) == {i \in 1 .. Len(es) : es[i].code > c}

(* The scan of cwmp_add_event_container ends at the first container of a   *)
(* SINGLE code already present, or at the first one of a larger code.      *)
StopsAt(es, c) ==
    {i \in 1 .. Len(es) : \/ es[i].code > c
                          \/ es[i].code = c /\ c \in Single}

Stop(es, c) == Min(StopsAt(es, c) \union {Len(es) + 1})

Present(es, c) == Stop(es, c) <= Len(es) /\ es[Stop(es, c)].code = c

(* A list under construction: its containers, the id counter, and the      *)
(* index of the container cwmp_add_event_container returned last.          *)
AddEvent(st, c, k) ==
    LET p == Stop(st.evs, c)
    IN  IF Present(st.evs, c)
        THEN [evs |-> st.evs, id |-> st.id, at |-> p]
        ELSE [evs |-> InsertAt(st.evs, p, NewEvent(c, k, NextId(st.id))),
              id |-> NextId(st.id), at |-> p]

(* What a well-formed list looks like: codes ascend, a SINGLE code occurs  *)
(* once, so that an Inform never reports the same SINGLE event twice.      *)
Ordered(es) ==
    \A i, j \in 1 .. Len(es) :
        i < j => \/ es[i].code < es[j].code
                 \/ es[i].code = es[j].code /\ es[i].code \notin Single
=============================================================================
