----------------------------- MODULE BackupTree -----------------------------
(***************************************************************************)
(* The event and transfer records of the backup tree (backupSession.c).    *)
(* A tree is the sequence of the children of its <cwmp> element; an event  *)
(* is a queue_event while its session waits and a send_event while the     *)
(* session runs.  The operators compute the tree a call leaves.            *)
(***************************************************************************)
EXTENDS EventTable

EventName == {"queue_event", "send_event"}
Node == [name : EventName \union {"transfer_complete"},
         id : Nat, code : EventCode, key : Key]

(* bkp_session_node_found on the key "id".  The walk starts at the first   *)
(* element called name but goes on over siblings of every name: an event   *)
(* of the other status that carries the same id is a match too.            *)
Matches(t, name, id) ==
    {i \in 1 .. Len(t) : /\ t[i].name \in EventName
                         /\ t[i].id = id
                         /\ \E j \in 1 .. i : t[j].name = name}

RemoveFirstOf(t, I) == IF I = {} THEN t ELSE RemoveAt(t, Min(I))

(* Mutant: the record is looked up by the event's code. *)
insert_event_by_code(t, e) ==
    IF \E i \in 1 .. Len(t) : t[i].name \in EventName /\ t[i].code = e.code
    THEN t
    ELSE Append(t, [name |-> "queue_event", id |-> e.id,
                    code |-> e.code, key |-> e.key])

bkp_session_insert_event(t, e) ==
    IF Matches(t, "queue_event", e.id) # {}
    THEN t
    ELSE Append(t, [name |-> "queue_event", id |-> e.id,
                    code |-> e.code, key |-> e.key])

bkp_session_delete_event(t, id, name) == RemoveFirstOf(t, Matches(t, name, id))

(* A transfer_complete record is told apart by its type and command key;   *)
(* the times and the fault code that the code also compares are fixed once *)
(* the record exists.                                                      *)
Transfers(t, c, k) ==
    {i \in 1 .. Len(t) : t[i].name = "transfer_complete"
                         /\ t[i].code = c /\ t[i].key = k}

bkp_session_insert_transfer_complete(t, c, k) ==
    IF Transfers(t, c, k) # {}
    THEN t
    ELSE Append(t, [name |-> "transfer_complete", id |-> 0,
                    code |-> c, key |-> k])

bkp_session_delete_transfer_complete(t, c, k) ==
    RemoveFirstOf(t, Transfers(t, c, k))

(* du_state_change_complete records are inserted without a search. *)
bkp_session_insert_du_state_change_complete(t, k) ==
    Append(t, [name |-> "transfer_complete", id |-> 0,
               code |-> M_ChangeDUState, key |-> k])

Rename(t, old, new) ==
    [i \in 1 .. Len(t) |->
        IF t[i].name = old THEN [t[i] EXCEPT !.name = new] ELSE t[i]]

bkp_session_move_inform_to_inform_send(t) == Rename(t, "queue_event", "send_event")
bkp_session_move_inform_to_inform_queue(t) == Rename(t, "send_event", "queue_event")
=============================================================================
