------------------------------ MODULE Diagnostics ------------------------------
(***************************************************************************)
(* The diagnostics an ACS asks for: parameters are set and a test is       *)
(* requested in a session, the end of the session runs it.  A ping runs in *)
(* a script of its own that later sessions stop; a download or an upload   *)
(* holds the scheduler until it is over.                                   *)
(***************************************************************************)
EXTENDS Naturals, FiniteSets

CONSTANTS
    Target,         \* hosts to ping and URLs to load, valid ones
    MaxRequests     \* bound: tests requested

NoTarget == "none"      \* empty, or an URL the test refuses
Kind == {"ipping", "download", "upload"}
Result == {1, 2}        \* stands for the five values a ping writes

VARIABLES
    sections,       \* the tests with a section in /var/state
    state, target,  \* DiagnosticState and Host or url, by test
    result,         \* the host whose ping wrote each result
    phase,          \* of the session: "none", "open" or "ending"
    flags,    \* the tests the session has to run at its end
    awaiting,       \* the test whose script has ended, its state not read yet: a set
    scripts,        \* the ping scripts that run
    reported,           \* history: tests reported since they were last requested
    cut,            \* history: those refused, stopped, or lost with the program
    escaped,        \* history: a stop has died before it killed a script
    requests        \* history: number of tests requested

diagVars == <<sections, state, target, result, phase, flags, awaiting, scripts, reported, cut,
              escaped, requests>>

Final == {"Complete", "Error_"}
-----------------------------------------------------------------------------
open_session ==
    /\ phase = "none" /\ phase' = "open"
    /\ UNCHANGED <<sections, state, target, result, flags, awaiting, scripts, reported, cut,
                   escaped, requests>>

(* ipping_launch stop kills the processes of that name in the order of     *)
(* their numbers, itself among them.  So it never comes to set the state   *)
(* to None, and it spares the scripts with larger numbers, which the       *)
(* wrap of the process numbers makes possible.  The other two tests are    *)
(* never stopped: no session is open while they run.                       *)
STOP(d) ==
    IF d = "ipping"
    THEN \E spared \in SUBSET scripts :
            /\ scripts' = spared
            /\ escaped' = (escaped \/ spared # {})
            /\ cut' = IF spared # scripts THEN cut \cup {d} ELSE cut
    ELSE UNCHANGED <<scripts, cut, escaped>>

(* Mutant: the host is set as the interface is, without a stop.            *)
NoStop(d) == UNCHANGED <<scripts, cut, escaped>>

ParameterStop(d) == STOP(d)

(* set_ipping_host, set_download_diagnostics_url, and the parameters that  *)
(* are like them.                                                          *)
set_parameter(d, t) ==
    /\ phase = "open" /\ t # target[d]
    /\ ParameterStop(d)
    /\ sections' = sections \cup {d} /\ target' = [target EXCEPT ![d] = t]
    /\ UNCHANGED <<state, result, phase, flags, awaiting, reported, requests>>

(* An upload looks for the section of the download before it adds its own. *)
Added(d) == IF d = "upload" /\ "download" \in sections THEN sections ELSE sections \cup {d}

(* "Requested", the only value that does anything.                         *)
set_diagnostics_state(d) ==
    /\ phase = "open" /\ requests < MaxRequests /\ requests' = requests + 1
    /\ \E spared \in IF d = "ipping" THEN SUBSET scripts ELSE {scripts} :
        /\ scripts' = spared
        /\ escaped' = (escaped \/ (d = "ipping" /\ spared # {}))
    /\ sections' = Added(d)
    /\ state' = IF d \in sections' THEN [state EXCEPT ![d] = "Requested"] ELSE state
    /\ flags' = flags \cup {d}
    /\ reported' = reported \ {d} /\ cut' = cut \ {d}
    /\ UNCHANGED <<target, result, phase, awaiting>>

-----------------------------------------------------------------------------
(* run_session_end_func, after a session that failed as well: the ping,    *)
(* then the download, then the upload.                                     *)
start_ending ==
    /\ phase = "open" /\ phase' = "ending"
    /\ UNCHANGED <<sections, state, target, result, flags, awaiting, scripts, reported, cut,
                   escaped, requests>>

cwmp_ip_ping_diagnostic ==
    /\ phase = "ending" /\ "ipping" \in flags
    /\ flags' = flags \ {"ipping"}
    /\ scripts' = scripts \cup {[id |-> requests, at |-> "check", host |-> NoTarget, left |-> Result]}
    /\ UNCHANGED <<sections, state, target, result, phase, awaiting, reported, cut, escaped, requests>>

InTurn(d) ==
    /\ phase = "ending" /\ awaiting = {} /\ d \in flags
    /\ flags \cap (IF d = "download" THEN {"ipping"} ELSE {"ipping", "download"}) = {}

(* It needs a valid URL, and an interface or a default gateway.            *)
cwmp_start_diagnostic(d) ==
    /\ d # "ipping" /\ InTurn(d)
    /\ flags' = flags \ {d}
    /\ \/ cut' = cut \cup {d} /\ UNCHANGED <<state, awaiting>>
       \/ /\ target[d] # NoTarget
          /\ \E s \in Final : state' = [state EXCEPT ![d] = s]
          /\ awaiting' = {d} /\ UNCHANGED cut
    /\ UNCHANGED <<sections, target, result, phase, scripts, reported, escaped, requests>>

cwmp_root_cause_event_ipdiagnostic ==
    /\ awaiting # {} /\ awaiting' = {}
    /\ reported' = reported \cup {d \in awaiting : state[d] \in Final}
    /\ UNCHANGED <<sections, state, target, result, phase, flags, scripts, cut, escaped,
                   requests>>

end_of_session ==
    /\ phase = "ending" /\ flags = {} /\ awaiting = {} /\ phase' = "none"
    /\ UNCHANGED <<sections, state, target, result, flags, awaiting, scripts, reported, cut,
                   escaped, requests>>

(* The program ends and starts again; a script goes on.                    *)
restart ==
    /\ phase # "none" /\ phase' = "none" /\ flags' = {} /\ awaiting' = {}
    /\ cut' = cut \cup flags \cup awaiting
    /\ UNCHANGED <<sections, state, target, result, scripts, reported, escaped, requests>>

-----------------------------------------------------------------------------
(* The ping script.                                                        *)
Becomes(s, t) == scripts' = (scripts \ {s}) \cup {t}
Ends(s) == scripts' = scripts \ {s}

ipping_check(s) ==
    /\ s.at = "check"
    /\ IF state["ipping"] = "Requested" /\ target["ipping"] # NoTarget
       THEN Becomes(s, [s EXCEPT !.at = "ping", !.host = target["ipping"]]) /\ UNCHANGED cut
       ELSE Ends(s) /\ cut' = cut \cup {"ipping"}
    /\ UNCHANGED <<state, result, reported>>

ipping_ping(s) ==
    /\ s.at = "ping"
    /\ \/ state' = [state EXCEPT !["ipping"] = "Error_"] /\ Ends(s)
       \/ /\ state' = [state EXCEPT !["ipping"] = "Complete"]
          /\ Becomes(s, [s EXCEPT !.at = "write"])
    /\ UNCHANGED <<result, reported, cut>>

ipping_write(s) ==
    /\ s.at = "write"
    /\ IF s.left = {} THEN Becomes(s, [s EXCEPT !.at = "inform"]) /\ UNCHANGED result
       ELSE LET r == CHOOSE r \in s.left : \A q \in s.left : r <= q IN
            /\ result' = [result EXCEPT ![r] = s.host]
            /\ Becomes(s, [s EXCEPT !.left = @ \ {r}])
    /\ UNCHANGED <<state, reported, cut>>

(* event_dignostic: up to 200 calls of the ubus object, each of which may  *)
(* time out after or before the program takes it.                          *)
ipping_inform(s) ==
    /\ s.at = "inform"
    /\ \/ reported' = reported \cup {"ipping"} /\ (Ends(s) \/ UNCHANGED scripts) /\ UNCHANGED cut
       \/ cut' = cut \cup {"ipping"} /\ Ends(s) /\ UNCHANGED reported
    /\ UNCHANGED <<state, result>>

ipping_launch ==
    /\ \E s \in scripts :
        ipping_check(s) \/ ipping_ping(s) \/ ipping_write(s) \/ ipping_inform(s)
    /\ UNCHANGED <<sections, target, phase, flags, awaiting, escaped, requests>>

-----------------------------------------------------------------------------
DiagInit ==
    /\ sections = {} /\ state = [d \in Kind |-> "None"] /\ target = [d \in Kind |-> NoTarget]
    /\ result = [r \in Result |-> NoTarget]
    /\ phase = "none" /\ flags = {} /\ awaiting = {} /\ scripts = {}
    /\ reported = {} /\ cut = {} /\ escaped = FALSE /\ requests = 0

DiagNext ==
    \/ open_session \/ start_ending \/ end_of_session \/ restart
    \/ \E d \in Kind : set_diagnostics_state(d) \/ cwmp_start_diagnostic(d)
    \/ \E d \in Kind, t \in Target \cup {NoTarget} : set_parameter(d, t)
    \/ cwmp_ip_ping_diagnostic \/ cwmp_root_cause_event_ipdiagnostic
    \/ ipping_launch

DiagSpec == DiagInit /\ [][DiagNext]_diagVars
-----------------------------------------------------------------------------
(* Properties. *)

(* While every stop has reached its script, there is one ping at a time,   *)
(* it pings the host that is set, and when it reports, every result is of  *)
(* that ping and the state says Complete.                                  *)
OnePing ==
    ~escaped =>
        /\ Cardinality(scripts) <= 1
        /\ \A s \in scripts : s.at # "check" => s.host = target["ipping"]
        /\ \A s \in scripts : s.at = "inform" =>
            /\ state["ipping"] = "Complete"
            /\ \A r \in Result : result[r] = target["ipping"]

(* Between sessions, a test that was neither refused nor cut off is not    *)
(* left Requested, and one that has ended has been reported, except for a  *)
(* ping that failed; unless a ping is still at work.                       *)
Concluded ==
    phase = "none" => \A d \in Kind \ cut :
        \/ d = "ipping" /\ scripts # {}
        \/ /\ state[d] # "Requested"
           /\ state[d] \in Final => d \in reported \/ (d = "ipping" /\ state[d] = "Error_")
=============================================================================
