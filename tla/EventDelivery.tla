---------------------------- MODULE EventDelivery ----------------------------
(***************************************************************************)
(* What the CPE promises about its Inform events: an event is owed to the  *)
(* ACS from the moment it is raised until an Inform that reports it is     *)
(* answered; a file keeps the events that have to survive a restart, and   *)
(* a restart owes all of them again.  Sessions, their queue, their         *)
(* failures and their retries are not part of it.                          *)
(***************************************************************************)
CONSTANT Event

VARIABLES
    phase,      \* what the process is doing
    owed,       \* events the ACS has not acknowledged yet
    stored      \* events in the file

vars == <<phase, owed, stored>>

Phase == {"recovering",     \* it reads the file
          "running",
          "answered",       \* the ACS has answered an Inform
          "switching",      \* the ACS is another one than before
          "down"}

(* The file is written: only events that are owed enter it.                *)
Write == stored' \subseteq stored \union owed'

Move == phase' \in Phase \ {"down"} /\ phase # "down"

(* New events, and those that the file brings back.                        *)
Raise ==
    /\ Move
    /\ phase = "recovering" => phase' = "recovering"
    /\ owed \subseteq owed' /\ owed' \subseteq Event
    /\ Write

(* The ACS has seen the event. *)
Acknowledge(e) ==
    /\ phase = "answered" /\ Move
    /\ owed' = owed \ {e}
    /\ UNCHANGED stored

(* The events raised for another ACS are dropped. *)
Abandon(e) ==
    /\ phase = "switching" /\ Move
    /\ owed' = owed \ {e}
    /\ UNCHANGED stored

(* It ends on its own, by a crash, or to be set to factory defaults. *)
Stop ==
    /\ phase # "down" /\ phase' = "down"
    /\ owed' = {}
    /\ stored' \in {stored, {}}

Restart ==
    /\ phase = "down" /\ phase' = "recovering"
    /\ UNCHANGED <<owed, stored>>

(* It owes everything that the file holds.                                 *)
Recovered ==
    /\ phase = "recovering" /\ Move
    /\ stored \subseteq owed
    /\ UNCHANGED <<owed, stored>>

-----------------------------------------------------------------------------
Init == phase = "recovering" /\ owed = {} /\ stored = {}

Next ==
    \/ Raise
    \/ \E e \in Event : Acknowledge(e) \/ Abandon(e)
    \/ Stop \/ Restart \/ Recovered

Spec == Init /\ [][Next]_vars
=============================================================================
