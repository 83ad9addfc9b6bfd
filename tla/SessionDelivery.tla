--------------------------- MODULE SessionDelivery ---------------------------
(* The session engine implements EventDelivery. *)
EXTENDS CwmpSession

(* The events of the file are those that a restart raises again.           *)
Stored == {<<n.code, n.key>> : n \in {x \in ToSet(file.nodes) : x.name \in EventName}}

PhaseOf ==
    IF pc = "down" THEN "down"
    ELSE IF pc = "load" THEN "recovering"
    ELSE IF pc = "ack" THEN "answered"
    ELSE IF pc = "flush" THEN "switching"
    ELSE "running"

Delivery == INSTANCE EventDelivery WITH
    Event <- EventCode \X Key,
    phase <- PhaseOf, owed <- Owed, stored <- Stored

(* Every behaviour of the session engine is one of EventDelivery: an event *)
(* that EVENT_CONST retries stops being owed only when the Inform that     *)
(* reported it was answered, when the ACS URL changed, or with the         *)
(* process; only what is owed enters the file, and a restart owes every    *)
(* event of the file.  A failed session, its merge with a newer one and    *)
(* its destruction keep them.                                              *)
EventsDelivered == Delivery!Spec
=============================================================================
