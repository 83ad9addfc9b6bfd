---------------------------- MODULE Configuration ----------------------------
(***************************************************************************)
(* The configuration of the daemon: what the ACS sets in ManagementServer, *)
(* the UCI options, and how they are loaded (config.c) by the scheduler    *)
(* after a session and by the ubus command "reload" (cwmp.c, ubus.c),      *)
(* while other programs commit changes.                                    *)
(***************************************************************************)
EXTENDS Integers, Sequences

CONSTANTS
    Absent,         \* what an option that is not there reads as
    FirstOptions,   \* the options at the start
    AcsSets,        \* pairs: parameters and the values the ACS sets them to
    Edits,          \* pairs: options and the values other programs commit
    Unreadable,     \* options uci may fail to read
    AcsVersions,    \* versions the ACS answers the Inform in; 0 is none known
    MaxUpsets       \* bound: changes by others, unreadable options, reloads

VARIABLES
    options,        \* the UCI options, committed
    conf, logs,     \* struct config, and the statics of log.c
    reading,        \* the option each thread reads next, 0 when it loads none
    scheduler, command,     \* steps of the scheduler and of the ubus thread
    inSession,      \* last_status is SESSION_RUNNING
    reloadFlag,     \* END_SESSION_RELOAD of the session that is sent
    savedUrl,       \* the ACS of the backup file
    asked,          \* history: what the ACS set and nobody changed since
    loaded,         \* history: the options when a load began last
    spoilt,         \* history: they were changed or unreadable during it
    plain,          \* history: the ACS refused compression since
    late,           \* history: a session began after "reload" found none
    upsets

confVars == <<options, conf, logs, reading, scheduler, command, inSession, reloadFlag, savedUrl,
              asked, loaded, spoilt, plain, late, upsets>>

(* The options in the order they are read.                                 *)
Order == <<"log_file_name", "log_max_size", "log_to_console", "log_to_file", "dhcp_url_path",
    "url", "userid", "passwd", "amd_version", "compression", "retry_min_wait_interval",
    "retry_interval_multiplier", "ssl_capath", "https_ssl_capath", "http_disable_100continue",
    "insecure_enable", "ipv6_enable", "ssl_version", "interface", "cpe_userid", "cpe_passwd",
    "ubus_socket", "log_severity", "port", "periodic_inform_time", "periodic_inform_interval",
    "periodic_inform_enable", "instance_mode", "session_timeout", "xmpp_enable", "xmpp_id",
    "xmpp_allowed_jid", "default_url", "lwn_enable", "lwn_hostname", "lwn_port">>
Place == DOMAIN Order

LogOption == {"log_file_name", "log_max_size", "log_to_console", "log_to_file", "log_severity"}
SslOption == {"ssl_capath", "https_ssl_capath", "ssl_version"}
TextOption == {"userid", "passwd", "interface", "cpe_userid", "cpe_passwd", "ubus_socket",
               "xmpp_allowed_jid"}
Switch == {"http_disable_100continue", "insecure_enable", "ipv6_enable", "xmpp_enable"}
LwnOption == {"lwn_enable", "lwn_hostname", "lwn_port"}
NumberOption == {"amd_version", "retry_min_wait_interval", "retry_interval_multiplier", "port",
    "periodic_inform_time", "periodic_inform_interval", "session_timeout", "xmpp_id", "lwn_port"}
Field == ({Order[k] : k \in Place} \ (LogOption \union {"default_url"}))
             \union {"supported_amd_version"}

(* An unreadable option among these does not end the load.                 *)
Dispensable == SslOption \union Switch \union LwnOption \union {"url"}
                   \union (LogOption \ {"log_severity"})
XmppOption == {"xmpp_enable", "xmpp_id", "xmpp_allowed_jid"}
UciOption == {Order[k] : k \in Place} \union {"dhcp_discovery", "dhcp_url"}

memset_conf == [f \in Field |->
    CASE f \in NumberOption \union {"supported_amd_version"} -> 0
      [] f = "compression" -> "none"
      [] f = "instance_mode" -> "number"
      [] f \in Switch \union {"periodic_inform_enable", "lwn_enable"} -> FALSE
      [] OTHER -> Absent]

AMD_3 == 3
AMD_4 == 4
AMD_5 == 5
Default == [amd_version |-> 2, retry_min_wait_interval |-> 5, retry_interval_multiplier |-> 2000,
    port |-> 7547, periodic_inform_interval |-> 86400, session_timeout |-> 60, xmpp_id |-> 0,
    periodic_inform_time |-> 0, url |-> "openacs", lwn_port |-> 7547]
OrDefault(o, v) == IF v \in {Absent, 0} THEN Default[o] ELSE v

-----------------------------------------------------------------------------
(* get_global_config, option by option: conf c after option o of opts.     *)

(* The ACS of the DHCP server, when it is asked for or there is no other.  *)
AcsUrl(c, opts) ==
    IF (opts.dhcp_discovery = "enable" \/ opts.url = Absent) /\ opts.dhcp_url # Absent
    THEN opts.dhcp_url
    ELSE IF opts.url # Absent THEN opts.url ELSE c.url

get_amd_version_config(c, v) ==
    LET version == OrDefault("amd_version", v)
    IN  [c EXCEPT !.amd_version = version, !.supported_amd_version = version]

Compression(version, v) == IF version >= AMD_5 /\ v \in {"gzip", "deflate"} THEN v ELSE "none"

(* Any number is taken: the test of its range is always true.              *)
RetryRead(version, o, v) == IF version >= AMD_3 /\ v # Absent THEN v ELSE Default[o]

Interval(v) == IF v # Absent /\ v >= 60 THEN v ELSE Default.periodic_inform_interval

get_instance_mode_config(v) == IF v \in {Absent, "InstanceNumber"} THEN "number" ELSE "alias"

XmppRead(version, o, v, old) ==
    IF version < AMD_5 THEN old
    ELSE CASE o = "xmpp_enable" -> old \/ v = "true"
           [] o = "xmpp_id" -> OrDefault(o, v)
           [] o = "xmpp_allowed_jid" -> IF v = Absent THEN old ELSE v

get_lwn_config(url, o, v, old) ==
    CASE o = "lwn_enable" -> IF v = Absent THEN old ELSE v = "true"
      [] o = "lwn_hostname" -> IF v = Absent THEN url ELSE v
      [] o = "lwn_port" -> IF v = Absent THEN Default[o] ELSE v

(* What the field of option o becomes when v is read and old was there.    *)
FieldRead(o, v, old, version, url) ==
    CASE o = "compression" -> Compression(version, v)
      [] o \in {"retry_min_wait_interval", "retry_interval_multiplier"} -> RetryRead(version, o, v)
      [] o \in {"port", "periodic_inform_time", "session_timeout"} -> OrDefault(o, v)
      [] o = "periodic_inform_interval" -> Interval(v)
      [] o = "periodic_inform_enable" -> v = "true"
      [] o = "instance_mode" -> get_instance_mode_config(v)
      [] o \in XmppOption -> XmppRead(version, o, v, old)
      [] o \in LwnOption -> get_lwn_config(url, o, v, old)
      [] o \in Switch \ {"xmpp_enable"} -> old \/ v = "true"
      [] OTHER -> IF v = Absent THEN old ELSE v

OptionRead(c, o, opts) ==
    CASE o \in LogOption -> c
      [] o = "url" -> [c EXCEPT !.url = AcsUrl(c, opts)]
      [] o = "default_url" -> [c EXCEPT !.url = IF @ = Absent THEN Default.url ELSE @]
      [] o = "amd_version" -> get_amd_version_config(c, opts[o])
      [] OTHER -> [c EXCEPT ![o] = FieldRead(o, opts[o], @, c.amd_version, c.url)]

LogRead(o, opts) ==
    IF o \in LogOption /\ opts[o] # Absent THEN [logs EXCEPT ![o] = opts[o]] ELSE logs

(* What a daemon that starts now makes of the options: the version and the *)
(* URL come first, as other options go by them.                            *)
Fresh(opts) ==
    LET version == OrDefault("amd_version", opts.amd_version)
        url == IF AcsUrl(memset_conf, opts) = Absent THEN Default.url ELSE AcsUrl(memset_conf, opts)
    IN  [f \in Field |->
            CASE f \in {"amd_version", "supported_amd_version"} -> version
              [] f = "url" -> url
              [] OTHER -> FieldRead(f, opts[f], memset_conf[f], version, url)]

-----------------------------------------------------------------------------
(* A load, by the scheduler or by the ubus thread.                         *)
Loads(t) == reading[t] > 0
Loading == \E t \in {"scheduler", "command"} : Loads(t)
(* Mutant: the values of before stay where nothing is read.                *)
KeepOld == conf

ClearedConf == memset_conf

BeginLoad(t) ==
    /\ conf' = ClearedConf /\ reading' = [reading EXCEPT ![t] = 1]
    /\ loaded' = options /\ spoilt' = (spoilt /\ Loading) /\ plain' = FALSE
    /\ UNCHANGED <<options, logs, inSession, reloadFlag, savedUrl, asked, late, upsets>>

get_global_config(t) ==
    /\ reading[t] \in Place
    /\ conf' = OptionRead(conf, Order[reading[t]], options)
    /\ logs' = LogRead(Order[reading[t]], options)
    /\ reading' = [reading EXCEPT ![t] = @ + 1]
    /\ UNCHANGED <<options, scheduler, command, inSession, reloadFlag, savedUrl, asked, loaded,
                   spoilt, plain, late, upsets>>

(* After the load comes the test for another ACS, which locks the queue.   *)
Finish(t) == IF t = "scheduler" THEN scheduler' = "close" /\ UNCHANGED command
             ELSE command' = "idle" /\ UNCHANGED scheduler

(* Uci cannot read an option.                                              *)
unreadable(t) ==
    /\ reading[t] \in Place /\ Order[reading[t]] \in Unreadable
    /\ Order[reading[t]] \in XmppOption => conf.amd_version >= AMD_5
    /\ upsets < MaxUpsets /\ upsets' = upsets + 1 /\ spoilt' = TRUE
    /\ LET o == Order[reading[t]]
       IN  IF o \in Dispensable
           THEN /\ reading' = [reading EXCEPT ![t] = @ + 1]
                /\ conf' = CASE o \in SslOption -> [conf EXCEPT ![o] = Absent]
                             [] OTHER -> conf
                /\ UNCHANGED <<scheduler, command>>
           ELSE reading' = [reading EXCEPT ![t] = 0] /\ Finish(t) /\ UNCHANGED conf
    /\ UNCHANGED <<options, logs, inSession, reloadFlag, savedUrl, asked, loaded, plain, late>>

OtherAcs == conf.url # savedUrl
Queue == command \notin {"loading", "stuck"}   \* mutex_session_queue is free

(* The command holds the mutex already, and waits for itself.              *)
cwmp_root_cause_event_bootstrap(t) ==
    /\ reading[t] = Len(Order) + 1 /\ ~(t = "command" /\ command = "stuck")
    /\ IF OtherAcs /\ t = "command"
       THEN command' = "stuck" /\ UNCHANGED <<reading, scheduler, savedUrl>>
       ELSE /\ OtherAcs => Queue
            /\ savedUrl' = conf.url /\ reading' = [reading EXCEPT ![t] = 0] /\ Finish(t)
    /\ UNCHANGED <<options, conf, logs, inSession, reloadFlag, asked, loaded, spoilt, plain, late,
                   upsets>>

-----------------------------------------------------------------------------
(* The scheduler.                                                          *)
others == <<options, logs, reading, command, savedUrl, loaded>>
Disturb == spoilt' = (spoilt \/ Loading)

(* The session is taken out of the queue; its status is set after that.    *)
cwmp_move_session_to_session_send ==
    /\ scheduler = "idle" /\ Queue
    /\ scheduler' = "taken" /\ reloadFlag' = FALSE
    /\ UNCHANGED <<others, spoilt, conf, inSession, asked, plain, late, upsets>>

start_session ==
    /\ scheduler = "taken"
    /\ scheduler' = "inform" /\ inSession' = TRUE /\ late' = (command # "idle")
    /\ UNCHANGED <<others, spoilt, conf, reloadFlag, asked, plain, upsets>>

(* The version of the envelope, or UseCWMPVersion where that is read.      *)
Negotiated(supported, v) ==
    IF supported = 1 \/ v = 1 THEN 1
    ELSE IF v = 0 \/ v >= AMD_5 THEN supported
    ELSE IF supported <= AMD_4 THEN IF supported <= v THEN supported ELSE v
    ELSE IF supported = AMD_5 THEN v ELSE conf.amd_version

cwmp_rpc_acs_parse_response_inform(v) ==
    /\ scheduler = "inform" /\ v <= conf.supported_amd_version
    /\ conf' = [conf EXCEPT !.amd_version = Negotiated(conf.supported_amd_version, v)]
    /\ scheduler' = "serve" /\ Disturb
    /\ UNCHANGED <<others, inSession, reloadFlag, asked, plain, late, upsets>>

(* HTTP 415 ends the session; the next ones are not compressed.            *)
http_send_message_415 ==
    /\ scheduler \in {"inform", "serve"} /\ conf.compression # "none"
    /\ conf' = [conf EXCEPT !.compression = "none"] /\ plain' = TRUE
    /\ scheduler' = "end"
    /\ UNCHANGED <<others, spoilt, inSession, reloadFlag, asked, late, upsets>>

no_more_rpcs ==
    /\ scheduler \in {"inform", "serve"} /\ scheduler' = "end"
    /\ UNCHANGED <<others, spoilt, conf, inSession, reloadFlag, asked, plain, late, upsets>>

(* A flag set by the command after the test is lost with the session.      *)
run_session_end_func ==
    /\ scheduler = "end"
    /\ IF reloadFlag
       THEN scheduler' = "loading" /\ BeginLoad("scheduler") /\ UNCHANGED command
       ELSE /\ scheduler' = "close"
            /\ UNCHANGED <<others, spoilt, conf, inSession, reloadFlag, asked, plain, late, upsets>>

close_session ==
    /\ scheduler = "close"
    /\ scheduler' = "idle" /\ inSession' = FALSE /\ reloadFlag' = FALSE
    /\ UNCHANGED <<others, spoilt, conf, asked, plain, late, upsets>>

-----------------------------------------------------------------------------
(* The ubus commands and other programs.                                   *)
Sent == scheduler # "idle"

cwmp_set_end_session == reloadFlag' = (reloadFlag \/ Sent)

reload_end_session ==
    /\ command = "idle" /\ upsets < MaxUpsets /\ upsets' = upsets + 1
    /\ cwmp_set_end_session
    /\ UNCHANGED <<others, spoilt, conf, scheduler, inSession, asked, plain, late>>

reload_command ==
    /\ command = "idle" /\ upsets < MaxUpsets /\ upsets' = upsets + 1
    /\ IF inSession THEN cwmp_set_end_session /\ UNCHANGED <<command, late>>
       ELSE command' = "lock" /\ late' = FALSE /\ UNCHANGED reloadFlag
    /\ UNCHANGED <<options, conf, logs, reading, scheduler, inSession, savedUrl, asked, loaded,
                   spoilt, plain>>

cwmp_apply_acs_changes ==
    /\ command = "lock" /\ command' = "loading"
    /\ BeginLoad("command") /\ UNCHANGED scheduler

OptionOf == [URL |-> "url", Username |-> "userid", Password |-> "passwd",
    PeriodicInformEnable |-> "periodic_inform_enable",
    PeriodicInformInterval |-> "periodic_inform_interval",
    PeriodicInformTime |-> "periodic_inform_time",
    ConnectionRequestUsername |-> "cpe_userid", ConnectionRequestPassword |-> "cpe_passwd",
    LightweightNotificationProtocolsUsed |-> "lwn_enable",
    UDPLightweightNotificationHost |-> "lwn_hostname",
    UDPLightweightNotificationPort |-> "lwn_port",
    HTTPCompression |-> "compression", CWMPRetryMinimumWaitInterval |-> "retry_min_wait_interval",
    CWMPRetryIntervalMultiplier |-> "retry_interval_multiplier", InstanceMode |-> "instance_mode"]

(* Every option has a value or is absent; the ACS sets parameters that     *)
(* exist, a time to a number of seconds, and UDP, the only protocol there  *)
(* is, or none.                                                            *)
ASSUME OptionsAssumption ==
    /\ \A f \in FirstOptions : DOMAIN f = UciOption
    /\ Absent \notin Int \union {"true", "false"}
    /\ \A s \in AcsSets :
        /\ s[1] \in DOMAIN OptionOf
        /\ s[1] = "PeriodicInformTime" => s[2] \in Int
        /\ s[1] = "LightweightNotificationProtocolsUsed" => s[2] \in {"UDP", ""}

Touches(o, p) == o = OptionOf[p] \/ (p = "URL" /\ o \in {"dhcp_discovery", "dhcp_url"})

uci_commit(o, v) ==
    /\ options[o] # v /\ upsets < MaxUpsets /\ upsets' = upsets + 1
    /\ options' = [options EXCEPT ![o] = v]
    /\ asked' = [p \in DOMAIN asked |-> IF Touches(o, p) THEN Absent ELSE asked[p]]
    /\ Disturb
    /\ UNCHANGED <<conf, logs, reading, scheduler, command, inSession, reloadFlag, savedUrl, loaded,
                   plain, late>>

-----------------------------------------------------------------------------
(* ManagementServer, as the ACS sets and reads it.                         *)
AcceptedValue(p, v) ==
    /\ p = "PeriodicInformEnable" => v \in {"true", "false"}
    /\ p = "HTTPCompression" => v \in {"gzip", "deflate", "disabled"}
    /\ p = "CWMPRetryMinimumWaitInterval" => v \in 1 .. 65535
    /\ p = "CWMPRetryIntervalMultiplier" => v \in 1000 .. 65535
    /\ p = "InstanceMode" => v \in {"InstanceNumber", "InstanceAlias"}

(* A time may be an hour off: mktime is not told whether it is summer time. *)
periodic_inform_time(v) == {v, v - 3600}

lwn_protocol_used(v) == IF v = "UDP" THEN "true" ELSE "false"

StoredAs(p, v) ==
    CASE p = "LightweightNotificationProtocolsUsed" -> {lwn_protocol_used(v)}
      [] p = "PeriodicInformTime" -> periodic_inform_time(v)
      [] OTHER -> {v}

Discovery(p) == IF p = "URL" THEN "disable" ELSE options.dhcp_discovery

(* A time that cannot be parsed, 0 here, is accepted and forgotten.        *)
set_management_server(p, v) ==
    /\ scheduler = "serve" /\ AcceptedValue(p, v)
    /\ IF p = "PeriodicInformTime" /\ v = 0 THEN UNCHANGED <<options, asked, reloadFlag, spoilt>>
       ELSE /\ \E w \in StoredAs(p, v) :
                   options' = [options EXCEPT ![OptionOf[p]] = w, !.dhcp_discovery = Discovery(p)]
            /\ asked' = [asked EXCEPT ![p] = v]
            /\ cwmp_set_end_session /\ Disturb
    /\ UNCHANGED <<conf, logs, reading, scheduler, command, inSession, savedUrl, loaded, plain,
                   late, upsets>>

get_management_server(p) ==
    LET v == options[OptionOf[p]]
    IN  CASE p \in {"Password", "ConnectionRequestPassword"} -> ""
          [] p = "LightweightNotificationProtocolsUsed" -> IF v = "true" THEN "UDP" ELSE ""
          [] OTHER -> v
get_alias_based_addressing == OrDefault("amd_version", options.amd_version) > AMD_4

-----------------------------------------------------------------------------
ConfInit ==
    /\ options \in FirstOptions /\ loaded = options
    /\ conf = Fresh(options) /\ logs = [o \in LogOption |-> options[o]]
    /\ reading = [t \in {"scheduler", "command"} |-> 0]
    /\ scheduler = "idle" /\ command = "idle" /\ inSession = FALSE /\ reloadFlag = FALSE
    /\ savedUrl = Fresh(options).url
    /\ asked = [p \in DOMAIN OptionOf |-> Absent]
    /\ spoilt = FALSE /\ plain = FALSE /\ late = FALSE /\ upsets = 0

Load == \E t \in {"scheduler", "command"} :
            get_global_config(t) \/ unreadable(t) \/ cwmp_root_cause_event_bootstrap(t)

SessionStep ==
    \/ cwmp_move_session_to_session_send \/ start_session
    \/ \E v \in AcsVersions : cwmp_rpc_acs_parse_response_inform(v)
    \/ \E s \in AcsSets : set_management_server(s[1], s[2])
    \/ http_send_message_415 \/ no_more_rpcs \/ run_session_end_func \/ close_session

Others == reload_end_session \/ reload_command \/ cwmp_apply_acs_changes
               \/ \E e \in Edits : uci_commit(e[1], e[2])

ConfNext == Load \/ SessionStep \/ Others
ConfSpec == ConfInit /\ [][ConfNext]_confVars
-----------------------------------------------------------------------------
(* Properties. *)

(* Once nothing is being loaded the configuration is what a start of the   *)
(* daemon would make of the same options, whatever it was before and       *)
(* whichever loads met - but for the negotiated version and a refused      *)
(* compression.                                                            *)
Lasting(c) == [f \in Field \ ({"amd_version"} \union IF plain THEN {"compression"} ELSE {}) |-> c[f]]
Whole == ~Loading /\ ~spoilt => Lasting(conf) = Lasting(Fresh(loaded))

(* What the ACS set is in use after the session, and read back as it was   *)
(* set.  Exceptions: an interval below 60 and, for versions of CWMP that   *)
(* do not have them, the retry parameters and compression.                 *)
Effective(p, v) ==
    LET o == OptionOf[p]
    IN  CASE p = "PeriodicInformInterval" -> v >= 60 => conf[o] = v
          [] p = "PeriodicInformTime" -> conf[o] \in StoredAs(p, v)
          [] p = "PeriodicInformEnable" -> conf[o] = (v = "true")
          [] p = "LightweightNotificationProtocolsUsed" -> conf[o] = (v = "UDP")
          [] p = "HTTPCompression" -> conf.supported_amd_version >= AMD_5 /\ ~plain
                 => conf[o] = IF v = "disabled" THEN "none" ELSE v
          [] p \in {"CWMPRetryMinimumWaitInterval", "CWMPRetryIntervalMultiplier"} ->
                 conf.supported_amd_version >= AMD_3 => conf[o] = v
          [] p = "InstanceMode" -> conf[o] = get_instance_mode_config(v)
          [] OTHER -> conf[o] = v
InUse ==
    \A p \in DOMAIN asked : asked[p] # Absent =>
        /\ ~Loading /\ ~spoilt /\ scheduler = "idle" => Effective(p, asked[p])
        /\ p \notin {"Password", "ConnectionRequestPassword", "PeriodicInformTime"}
               => get_management_server(p) = asked[p]

(* A session works with one configuration from its Inform to its end,      *)
(* unless "reload" looked before it began and loaded after.                *)
Served == inSession /\ scheduler \in {"inform", "serve", "end"}
OneForSession ==
    Served /\ Served' /\ ~late =>
        [f \in Field \ {"amd_version", "compression"} |-> conf[f]]
            = [f \in Field \ {"amd_version", "compression"} |-> conf'[f]]

(* The configuration of the daemon (config.c, managementserver.c): loads   *)
(* are whole, what the ACS set is in use, and sessions keep theirs.        *)
ConfigurationSound == [][(Whole /\ InUse)' /\ OneForSession]_confVars
=============================================================================
