----------------------------- MODULE MCSessions -----------------------------
(***************************************************************************)
(* The TLC instance of CwmpSession for its safety properties.  It follows  *)
(* two kinds of behaviours: one long life of the process with one ACS, and *)
(* two short ones, with crashes, reboots and a second ACS URL.             *)
(***************************************************************************)
EXTENDS SessionDelivery

CONSTANT FirstUrl       \* the URL of the long life

LongLife ==
    /\ pc' # "down" /\ restarts' = 0 /\ url' = FirstUrl
    /\ \A s \in Sid : ends'[s] \cap {"REBOOT", "FACTORY_RESET"} = {}
    /\ \A s \in Sid : \A e \in ToSet(events'[s]) : e.code # M_ChangeDUState
    /\ \A n \in ToSet(bkp'.nodes) : n.code # M_ChangeDUState

(* Bounds: three ids and two records, except while the process starts and  *)
(* for what it then has.                                                   *)
ShortLives ==
    /\ \A s \in Sid : \A e \in ToSet(events'[s]) : e.code # CONNECTION_REQUEST
    /\ nextId' <= 3 \/ (nextId' = nextId /\ restarts' > 0) \/ pc \in Starting
    /\ Len(bkp'.nodes) <= 2 \/ (bkp' = bkp /\ restarts' > 0) \/ pc \in Starting

Lives == LongLife \/ ShortLives     \* the action constraint of the run
=============================================================================
