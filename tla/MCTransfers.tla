---------------------------- MODULE MCTransfers ----------------------------
(***************************************************************************)
(* The TLC instances of Transfers.  A scenario, chosen at the start, says  *)
(* which requests come and what else may happen; each one is a set of      *)
(* behaviours of Spec, and together they keep the state space small.  Only *)
(* what the environment does is restricted, so that the fairness of the    *)
(* threads and of the clock is not.                                        *)
(***************************************************************************)
EXTENDS Transfers

CONSTANT Scenarios
VARIABLE scenario

SafetyScenarios ==
    {[kind |-> "download", requests |-> 2, time |-> 3, ops |-> {"crash"}],
     [kind |-> "download", requests |-> 1, time |-> 3, ops |-> {"cancel", "crash"}],
     [kind |-> "download", requests |-> 2, time |-> 1, ops |-> {"cancel"}],
     [kind |-> "upload", requests |-> 2, time |-> 1, ops |-> {"bootstrap"}],
     [kind |-> "upload", requests |-> 1, time |-> 4, ops |-> {"cancel", "crash"}]}

LiveScenarios ==
    {[kind |-> "download", requests |-> 2, time |-> 3, ops |-> {}],
     [kind |-> "download", requests |-> 1, time |-> 3, ops |-> {"bootstrap"}],
     [kind |-> "download", requests |-> 1, time |-> 3, ops |-> {"crash"}]}

Within ==
    /\ \A r \in accepted : r.kind = scenario.kind /\ r.id <= scenario.requests
    /\ now <= scenario.time
    /\ "crash" \notin scenario.ops => mpc # "down"
    /\ "cancel" \notin scenario.ops => mpc # "cancel"
    /\ "bootstrap" \notin scenario.ops => mpc # "remove"

(* A thread without requests would only go to its wait.                    *)
Others == \A k \in Kinds \ {scenario.kind} : pc[k] \in {"look", "down"}

MCInit == Init /\ scenario \in Scenarios

MCSpec ==
    /\ MCInit
    /\ [][Next /\ UNCHANGED scenario /\ (Within /\ Others)']_<<vars, scenario>>

MCFairSpec == MCSpec /\ Fairness
=============================================================================
