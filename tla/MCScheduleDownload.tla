------------------------ MODULE MCScheduleDownload ------------------------
(***************************************************************************)
(* The TLC instance of ScheduleDownload.  A scenario, chosen at the start, *)
(* restricts what comes from outside: each one is a set of behaviours of   *)
(* Spec, and together they keep the state space small.                     *)
(***************************************************************************)
EXTENDS ScheduleDownload

VARIABLE scenario

(* Windows that are open at once, that follow, and a disordered one, which *)
(* is refused.                                                             *)
MixedWindows == {<<0, 0, 2, 2>>, <<1, 2, 2, 2>>, <<2, 1, 2, 2>>}

Scenarios ==
    {[requests |-> 1, modes |-> {"now", "idle"}, image |-> TRUE, failures |-> FALSE,
      ops |-> {"crash"}],
     [requests |-> 1, modes |-> {"now", "idle"}, image |-> FALSE, failures |-> TRUE,
      ops |-> {"bootstrap"}],
     [requests |-> 2, modes |-> {"now"}, image |-> FALSE, failures |-> FALSE, ops |-> {}]}

(* An image may also be applied without the end of the process.  With a    *)
(* change of ACS, requests in mode 1 begin with the window of one tick and *)
(* those in mode 2 with the later one of two, elsewhere all do with that.  *)
Within ==
    /\ \A r \in accepted :
         /\ r.id <= scenario.requests /\ r.image = scenario.image
         /\ r.mode[1] \in scenario.modes /\ r.mode[2] \in scenario.modes
         /\ "bootstrap" \in scenario.ops =>
                /\ r.mode[1] = r.mode[2]
                /\ r.mode[1] = "idle" <=> r.start[1] = r.end[1]
         /\ "bootstrap" \notin scenario.ops => r.start[1] # r.end[1]
    /\ scenario.failures \/ failed = {}
    /\ "bootstrap" \in scenario.ops \/ removing = <<>>

MCInit == Init /\ scenario \in Scenarios

(* The ACS changes while a request waits: without one nothing is removed.  *)
MCSpec ==
    /\ MCInit
    /\ [][/\ Next /\ UNCHANGED scenario /\ Within'
          /\ "crash" \in scenario.ops \/ up' \/ ~up \/ FreedUsed
          /\ removing = <<>> /\ removing' # <<>> => \E t \in Thread : list[t] # <<>>
         ]_<<vars, scenario>>
    /\ Fairness
=============================================================================
