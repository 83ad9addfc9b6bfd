---------------------------- MODULE MCDataModel ----------------------------
(***************************************************************************)
(* The TLC instance of DataModel, of the objects of the tree and of the    *)
(* diagnostics started from it.  A scenario, chosen at the start, says     *)
(* which RPCs the ACS uses; each one is a set of behaviours of Spec or of  *)
(* the object's specification.                                             *)
(***************************************************************************)
EXTENDS DataModel, VoiceServices, Diagnostics, DiagnosticTrace

VARIABLES scenario, steps

CONSTANT MaxSteps       \* bound: RPCs and external changes of one behaviour

Number(n) == [how |-> "number", n |-> n]
Alias(n) == [how |-> "alias", n |-> n]
Table == [ref |-> None, leaf |-> ""]
Set == {[ref |-> Number(1), leaf |-> "v"], [ref |-> Alias(1), leaf |-> "v"],
        [ref |-> Alias(1), leaf |-> "a"], [ref |-> Alias(2), leaf |-> "a"],
        [ref |-> Alias(Custom), leaf |-> "v"], [ref |-> None, leaf |-> "s"],
        [ref |-> None, leaf |-> "f"]}
Noted == {Table, [ref |-> Number(1), leaf |-> ""], [ref |-> Number(1), leaf |-> "v"],
          [ref |-> Number(2), leaf |-> "v"], [ref |-> Alias(1), leaf |-> "v"]}
Objects == {Table, [ref |-> Number(1), leaf |-> ""], [ref |-> Alias(2), leaf |-> ""]}

CodecOrder == <<"ulaw", "alaw", "g729">>
NewCodecs == <<"ulaw", "g726">>
TwoTies == {"ulaw" :> 1 @@ "alaw" :> 2 @@ "g729" :> 3, "ulaw" :> 3 @@ "alaw" :> 2 @@ "g729" :> 1}

TreeStep ==
    CASE scenario = "values" -> SetValues \/ GetValues \/ AddObject \/ DeleteObject \/ external_add
      [] scenario = "attributes" -> SetAttributes \/ AddObject \/ DeleteObject
      [] scenario = "external" -> SetValues \/ external_set \/ external_add \/ external_delete

Tree ==
    /\ UNCHANGED <<scenario, voiceVars, diagVars, traceVars>>
    /\ \/ steps < MaxSteps /\ steps' = steps + 1 /\ TreeStep
       \/ UNCHANGED steps /\ (dm_ctx_clean \/ dm_entry_restart_services)

(* Voice: one profile and one line for the codecs and the parameters.      *)
OneLine ==
    \/ sip = <<>> /\ add_profile_object
    \/ /\ line[0].account = NoAccount
       /\ \E i \in DOMAIN sip, up \in Up, ties \in Ties : add_line_object(i, up, ties)

Voice ==
    /\ UNCHANGED <<scenario, dataVars, diagVars, traceVars>> /\ steps' = steps + 1
    /\ \/ scenario = "lines" /\ steps < 2 * MaxSteps /\ (Profiles \/ LineObjects \/ Reads)
       \/ scenario = "codecs" /\ steps < 2 * MaxSteps /\ (OneLine \/ CodecLists \/ Reads)
       \/ scenario = "options" /\ steps < MaxSteps + 1
            /\ (OneLine \/ Parameters([codecs |-> <<>>, lines |-> Lines], CHOOSE t \in Ties : TRUE))

(* Diagnostics: a ping, a download and an upload requested and stopped; and *)
(* the analysis of their captures.                                         *)
Tests ==
    /\ UNCHANGED <<scenario, steps, dataVars, voiceVars>>
    /\ \/ scenario = "diagnostics" /\ DiagNext /\ UNCHANGED traceVars
       \/ scenario = "traces" /\ TraceNext /\ UNCHANGED diagVars

MCInit ==
    /\ Init /\ VoiceInit /\ DiagInit /\ TraceInit /\ steps = 0
    /\ scenario \in {"values", "attributes", "external", "lines", "codecs", "options",
                     "diagnostics", "traces"}
    /\ scenario # "traces" => <<kind, segments, acks, expect>> = <<"ftp upload", 1, 1, FALSE>>

MCNext ==
    CASE scenario \in {"values", "attributes", "external"} -> Tree
      [] scenario \in {"lines", "codecs", "options"} -> Voice
      [] OTHER -> Tests

MCSpec == MCInit /\ [][MCNext]_<<dataVars, voiceVars, diagVars, traceVars, scenario, steps>>
-----------------------------------------------------------------------------
(* A diagnostic is run once for each request, with the parameters that are *)
(* set, it is reported when it has ended, and its times and byte counts    *)
(* are those of its own transfer (diagnostic.c and the launch scripts).    *)
DiagnosticsSound == OnePing /\ Concluded /\ Measured
=============================================================================
