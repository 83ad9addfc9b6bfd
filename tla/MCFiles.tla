------------------------------- MODULE MCFiles -------------------------------
(***************************************************************************)
(* What the daemon keeps in files: the records of the backup file, and the *)
(* options with the configuration that is loaded from them.  A scenario,   *)
(* chosen at the start, says which of the two is used and by whom.         *)
(***************************************************************************)
EXTENDS BackupFile, Configuration

VARIABLES scenario, settings

filesVars == <<vars, confVars, scenario, settings>>

CONSTANT MaxSettings    \* bound: parameters the ACS sets

(* Every kind has the same command keys: two words, and none.              *)
SharedKeys == [k \in Kinds |-> {"k1 k2", "empty"}]

OldOptions == [o \in UciOption |->
    CASE o = "url" -> "acs"
      [] o = "userid" -> "cpe"
      [] o = "dhcp_discovery" -> "enable"
      [] o = "amd_version" -> 2
      [] o = "compression" -> "gzip"
      [] o = "retry_min_wait_interval" -> 7
      [] o = "periodic_inform_interval" -> 1800
      [] o = "periodic_inform_enable" -> "true"
      [] OTHER -> Absent]
NewOptions == [OldOptions EXCEPT !.amd_version = 5, !.dhcp_url = "dhcp",
                                 !.http_disable_100continue = "true"]
TwoFiles == {OldOptions, NewOptions}
AcsValues == {<<"URL", "other">>, <<"Username", "user">>, <<"Password", "secret">>,
    <<"PeriodicInformEnable", "false">>, <<"PeriodicInformInterval", 30>>,
    <<"PeriodicInformInterval", 600>>, <<"PeriodicInformTime", 9000>>, <<"PeriodicInformTime", 0>>,
    <<"ConnectionRequestUsername", "acs">>, <<"ConnectionRequestPassword", "secret">>,
    <<"LightweightNotificationProtocolsUsed", "UDP">>,
    <<"UDPLightweightNotificationHost", "host">>, <<"UDPLightweightNotificationPort", 99>>,
    <<"HTTPCompression", "deflate">>, <<"HTTPCompression", "disabled">>,
    <<"CWMPRetryMinimumWaitInterval", 9>>, <<"CWMPRetryIntervalMultiplier", 999>>,
    <<"CWMPRetryIntervalMultiplier", 3000>>, <<"InstanceMode", "InstanceAlias">>}
OtherEdits == {<<"amd_version", 3>>, <<"http_disable_100continue", Absent>>}

(* Every parameter of ManagementServer, set by the ACS; or its URL, while  *)
(* others change options and reload.                                       *)
Managed ==
    /\ \/ scenario = "parameters" /\ (Load \/ SessionStep)
       \/ /\ scenario = "reloads" /\ ConfNext
          /\ \A p \in DOMAIN asked \ {"URL"} : asked'[p] = Absent
    /\ settings' = settings + (IF asked' # asked THEN 1 ELSE 0) /\ settings' <= MaxSettings

FilesInit ==
    /\ Init /\ ConfInit /\ settings = 0
    /\ scenario \in {"records", "parameters", "reloads"}
    /\ scenario # "parameters" => options = NewOptions

FilesNext ==
    /\ UNCHANGED scenario
    /\ \/ scenario = "records" /\ Next /\ UNCHANGED <<confVars, settings>>
       \/ Managed /\ UNCHANGED vars

FilesSpec == FilesInit /\ [][FilesNext]_filesVars
=============================================================================
