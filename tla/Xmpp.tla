-------------------------------- MODULE Xmpp --------------------------------
(***************************************************************************)
(* Connection requests over XMPP: the connection objects of the data model *)
(* (dm/dmtree/common/xmpp.c), the parameters taken from them (config.c),   *)
(* the thread that keeps the connection (xmpp_cr.c) and the requests that  *)
(* come over it.                                                           *)
(***************************************************************************)
EXTENDS Integers, SequencesExt

CONSTANTS
    XmppSets,           \* pairs: parameters and the values the ACS sets
    XmppId,             \* option id of the section xmpp, and
    AllowedJids,        \* allowed_jid: JIDs, which are sequences of characters
    Senders,            \* JIDs requests come from
    CR_PERIOD, CR_REQUESTS,     \* CONNECTION_REQUEST_RESTRICT_PERIOD, _REQUEST
    MaxSections, MaxOperations, \* bounds: sections; sets, loads and deletions
    MaxSeconds, MaxXmppRequests,\* bounds: the clock; requests
    MaxFailures         \* bound: where the count of failures stays

ASSUME XmppAssumption == CR_PERIOD \in Nat /\ CR_REQUESTS \in Nat \ {0} /\ XmppId \in Nat

VARIABLES
    section,            \* the xmpp_connection sections, in their order
    xmpp_enable,        \* of the configuration
    xmpp_param,         \* what was loaded of the section XmppId
    xstep,              \* step of thread_xmpp_client_listen
    connectAttempt,     \* attempt of cwmp_xmpp_connect_client
    connAttempt,        \* attempt of conn_handler
    sleep,              \* for how long it sleeps
    seconds, restrictStart, request,    \* the clock, and statics of cr_handler
    reply,              \* what became of the last request
    received,           \* history: when each request came, and if it was permitted
    failures,           \* history: attempts since the connection was up
    operations          \* history: for MaxOperations

clientVars == <<xstep, connectAttempt, connAttempt, sleep, failures>>
treeVars == <<section, xmpp_enable, xmpp_param, operations>>
crVars == <<seconds, restrictStart, request, reply, received>>
xmppVars == <<clientVars, treeVars, crVars>>

-----------------------------------------------------------------------------
(* XMPP.Connection: each parameter is an option of its section.            *)
XmppOptionOf == [Enable |-> "enable", Password |-> "password", Domain |-> "password",
    Resource |-> "resource", ServerConnectAlgorithm |-> "serveralgorithm",
    KeepAliveInterval |-> "interval", ServerConnectAttempts |-> "attempt",
    ServerRetryInitialInterval |-> "initial_retry_interval",
    ServerRetryIntervalMultiplier |-> "retry_interval_multiplier",
    ServerRetryMaxInterval |-> "retry_max_interval", UseTLS |-> "usetls"]
Numeric == {"interval", "attempt", "initial_retry_interval", "retry_interval_multiplier",
            "retry_max_interval"}
SectionOption == {XmppOptionOf[p] : p \in DOMAIN XmppOptionOf} \union {"username", "domain"}

(* An option that is not there reads as "", or 0 where a number is meant.  *)
NoOptions == [o \in SectionOption |-> IF o \in Numeric THEN 0 ELSE ""]

(* Where a number is meant, the ACS sets one; failures are counted beyond  *)
(* every number of attempts.                                               *)
ASSUME XmppSetsAssumption ==
    /\ MaxFailures \in Nat /\ MaxFailures > 2
    /\ \A s \in XmppSets :
          /\ s[1] \in DOMAIN XmppOptionOf
          /\ XmppOptionOf[s[1]] \in Numeric => s[2] \in Nat
          /\ s[1] = "ServerConnectAttempts" => s[2] < MaxFailures

Operate == operations < MaxOperations /\ operations' = operations + 1

add_xmpp_connection ==
    /\ Operate /\ Len(section) < MaxSections
    /\ LET inst == IF section = <<>> THEN 1 ELSE Last(section).inst + 1
       IN  section' = Append(section, [inst |-> inst, opt |-> NoOptions])
    /\ UNCHANGED <<xmpp_enable, xmpp_param, clientVars, crVars>>

delete_xmpp_connection(k) ==
    /\ Operate /\ section' = RemoveAt(section, k)
    /\ UNCHANGED <<xmpp_enable, xmpp_param, clientVars, crVars>>

delete_xmpp_connection_all ==
    /\ Operate /\ section' = <<>>
    /\ UNCHANGED <<xmpp_enable, xmpp_param, clientVars, crVars>>

(* Domain and Password are the same option, and a boolean is stored as the *)
(* ACS wrote it.                                                           *)
set_xmpp_connection(k, p, v) ==
    /\ Operate
    /\ p \in {"Enable", "UseTLS"} => v \in {"0", "1", "true", "false"}
    /\ section' = [section EXCEPT ![k].opt[XmppOptionOf[p]] = v]
    /\ UNCHANGED <<xmpp_enable, xmpp_param, clientVars, crVars>>

-----------------------------------------------------------------------------
(* cwmp_get_xmpp_param: what the client uses, of the first section with    *)
(* the number.                                                             *)
Numbered == {k \in DOMAIN section : section[k].inst = XmppId}
OptionsOf == IF Numbered = {} THEN NoOptions
             ELSE section[CHOOSE k \in Numbered : \A j \in Numbered : k <= j].opt

OrElse(v, default) == IF v = 0 THEN default ELSE v

RetrySettings(o) ==
    IF o.attempt = 0 THEN [initial |-> xmpp_param.initial, mult |-> xmpp_param.mult,
                           max |-> xmpp_param.max]
    ELSE [initial |-> OrElse(o.initial_retry_interval, 60),
          mult |-> OrElse(o.retry_interval_multiplier, 2000),
          max |-> OrElse(o.retry_max_interval, 60)]

ParamOf(o) ==
    LET r == RetrySettings(o)
    IN  [username |-> o.username, password |-> o.password, domain |-> o.domain,
         ressource |-> o.resource, attempts |-> o.attempt,
         initial |-> r.initial, mult |-> r.mult, max |-> r.max]

check_xmpp_config(param) ==
    \A f \in {"username", "password", "domain", "ressource"} : param[f] # ""

(* Whatever does not begin with 0 means that it is enabled, false too.     *)
Connects(o) == XmppId > 0 /\ o.enable \notin {"", "0"}

(* The configuration says that XMPP is enabled.  Without a number of a     *)
(* connection it stays so, and nothing is loaded.                          *)
LoadXmpp ==
    IF Connects(OptionsOf)
    THEN xmpp_param' = ParamOf(OptionsOf) /\ xmpp_enable' = check_xmpp_config(xmpp_param')
    ELSE xmpp_enable' = (XmppId = 0) /\ UNCHANGED xmpp_param

(* The client is neither started nor stopped by a load.                    *)
cwmp_get_xmpp_param ==
    /\ Operate /\ LoadXmpp
    /\ UNCHANGED <<section, clientVars, crVars>>

-----------------------------------------------------------------------------
(* The client.  Before another attempt it sleeps, or it gives up.          *)
GivesUp(attempt) ==
    ~(attempt = 0 /\ xmpp_param.attempts # 0) /\ attempt > xmpp_param.attempts

Delay(attempt) ==
    LET delay == xmpp_param.initial * (xmpp_param.mult \div 1000) * (attempt - 1)
    IN  CASE attempt = 0 /\ xmpp_param.attempts # 0 -> 0 .. (xmpp_param.initial - 1)
          [] attempt > 0 /\ xmpp_param.attempts # 0 ->
                 {IF delay > xmpp_param.max THEN xmpp_param.max ELSE delay}
          [] OTHER -> {5}

IntervalEnds == {0, xmpp_param.initial - 1}     \* of an interval, to try

Retry(attempt) ==
    /\ failures' = IF failures < MaxFailures THEN failures + 1 ELSE failures
    /\ IF GivesUp(attempt) THEN xstep' = "aborted" /\ sleep' = 0
       ELSE /\ xstep' = "sleep"
            /\ \E d \in Delay(attempt) : (attempt = 0 => d \in IntervalEnds \union {5}) /\ sleep' = d

(* cwmp_xmpp_connect_client: the connection cannot even be initiated,      *)
connect_failed ==
    /\ xstep = "connect"
    /\ Retry(connectAttempt)
    /\ connectAttempt' = connectAttempt + 1
    /\ UNCHANGED <<connAttempt, treeVars, crVars>>

(* Mutant: both functions count in one variable.                           *)
CountedTogether == 0

OtherCount == connAttempt

(* or the client waits for what the server makes of it.                    *)
connect_initiated ==
    /\ xstep = "connect" /\ xstep' = "run"
    /\ connectAttempt' = 0 /\ connAttempt' = OtherCount
    /\ UNCHANGED <<sleep, failures, treeVars, crVars>>

conn_handler_connect ==
    /\ xstep = "run" /\ xstep' = "up"
    /\ connAttempt' = 0 /\ failures' = 0
    /\ UNCHANGED <<connectAttempt, sleep, treeVars, crVars>>

conn_handler_lost ==
    /\ xstep \in {"run", "up"}
    /\ Retry(connAttempt)
    /\ connAttempt' = connAttempt + 1
    /\ UNCHANGED <<connectAttempt, treeVars, crVars>>

awake ==
    /\ xstep = "sleep" /\ xstep' = "connect" /\ sleep' = 0
    /\ UNCHANGED <<connectAttempt, connAttempt, failures, treeVars, crVars>>

-----------------------------------------------------------------------------
(* cr_handler. *)

(* strncmp and a look at the character after: the first JID's length is    *)
(* taken for all of them.  Behind the end of the sender anything may be.   *)
Character(jid, k) == IF k <= Len(jid) THEN jid[k] ELSE ""
SameUpTo(p, q, n) ==
    \A k \in 1 .. n : (\A j \in 1 .. k : Character(p, j) = Character(q, j)) \/ \E j \in 1 .. k - 1 :
        Character(p, j) = "" /\ \A i \in 1 .. j : Character(p, i) = Character(q, i)
check_xmpp_authorized(from) ==
    IF AllowedJids = <<>> THEN {TRUE}
    ELSE LET n == Len(AllowedJids[1])
             same == {k \in DOMAIN AllowedJids : SameUpTo(AllowedJids[k], from, n)}
         IN  IF same = {} THEN {FALSE}
             ELSE IF Len(from) < n THEN BOOLEAN ELSE {Character(from, n + 1) \in {"", "/"}}

(* Mutant: a period is over with its last second.                          *)
PeriodOver == restrictStart = 0 \/ seconds - restrictStart >= CR_PERIOD

(* The first request of a period counts once, the others twice.            *)
NewPeriod == restrictStart = 0 \/ seconds - restrictStart > CR_PERIOD
Permitted == NewPeriod \/ request + 2 <= CR_REQUESTS

Answer(authorized, goodNamespace, credentials) ==
    IF ~Permitted THEN "unavailable"
    ELSE IF ~authorized THEN "none"
    ELSE IF ~goodNamespace THEN "unavailable"
    ELSE IF credentials # <<xmpp_param.username, xmpp_param.password>> THEN "not authorized"
    ELSE "event"

cr_handler(from, goodNamespace, credentials) ==
    /\ xstep = "up" /\ Len(received) < MaxXmppRequests
    /\ request' = IF NewPeriod THEN 1 ELSE request + 2
    /\ restrictStart' = IF NewPeriod \/ ~Permitted THEN seconds ELSE restrictStart
    /\ \E authorized \in check_xmpp_authorized(from) :
           reply' = Answer(authorized, goodNamespace, credentials)
    /\ received' = Append(received, [at |-> seconds, permitted |-> Permitted])
    /\ UNCHANGED <<seconds, clientVars, treeVars>>

xmpp_second ==
    /\ xstep = "up" /\ seconds < MaxSeconds /\ seconds' = seconds + 1
    /\ UNCHANGED <<restrictStart, request, reply, received, clientVars, treeVars>>

-----------------------------------------------------------------------------
FirstSection(o) == <<[inst |-> 1, opt |-> o]>>
Preset(enable, attempts) ==
    [NoOptions EXCEPT !["enable"] = enable, !["username"] = "cpe", !["password"] = "pass",
                      !["domain"] = "acs", !["resource"] = "icwmp", !["attempt"] = attempts]

(* XMPP is enabled in the configuration; the thread is created when it     *)
(* still is after the first load.                                          *)
XmppInit ==
    /\ \E attempts \in {0, 1, 2}, on \in {"0", "1"} :
           section = FirstSection(Preset(on, attempts))
    /\ xmpp_enable = TRUE
    /\ xmpp_param = [username |-> "", password |-> "", domain |-> "", ressource |-> "",
                     attempts |-> 0, initial |-> 0, mult |-> 0, max |-> 0]
    /\ xstep = "init" /\ connectAttempt = 0 /\ connAttempt = 0 /\ sleep = 0
    /\ seconds = 1 /\ restrictStart = 0 /\ request = 0 /\ reply = "none" /\ received = <<>>
    /\ failures = 0 /\ operations = 0

thread_xmpp_client_listen ==
    /\ xstep = "init"
    /\ LoadXmpp
    /\ xstep' = IF xmpp_enable' THEN "connect" ELSE "off"
    /\ UNCHANGED <<section, operations, connectAttempt, connAttempt, sleep, failures, crVars>>

XmppThread == connect_failed \/ connect_initiated \/ awake \/ thread_xmpp_client_listen

XmppOperations ==
    \/ add_xmpp_connection \/ delete_xmpp_connection_all \/ cwmp_get_xmpp_param
    \/ \E k \in DOMAIN section : \/ delete_xmpp_connection(k)
                                 \/ \E s \in XmppSets : set_xmpp_connection(k, s[1], s[2])

Client == XmppThread \/ conn_handler_connect \/ conn_handler_lost

(* The server takes or refuses a connection that is being made.            *)
XmppServer == xstep = "run" /\ (conn_handler_connect \/ conn_handler_lost)

XmppRequests ==
    \/ xmpp_second
    \/ \E from \in Senders, ns \in BOOLEAN, c \in {<<"cpe", "pass">>, <<"cpe", "">>} :
           cr_handler(from, ns, c)

XmppNext == Client \/ XmppOperations \/ XmppRequests

(* The thread runs, and the server takes or refuses a connection in time.  *)
XmppFairness == WF_xmppVars(XmppThread) /\ WF_xmppVars(XmppServer)

XmppSpec == XmppInit /\ [][XmppNext]_xmppVars /\ XmppFairness
-----------------------------------------------------------------------------
(* Properties. *)

(* How many requests a period takes: half of what the constant says, since *)
(* cr_handler counts each but the first of a period twice.                 *)
PeriodTakes == (CR_REQUESTS + 1) \div 2

(* A request is refused for the number of requests only when one was       *)
(* refused in the period before it, or as many came as a period takes; and *)
(* none is let through shortly after a refusal, or as the last of more     *)
(* than CONNECTION_REQUEST_RESTRICT_REQUEST within any period.             *)
RequestsLimited ==
    \A i \in DOMAIN received :
        LET before == {j \in 1 .. i - 1 : received[i].at - received[j].at <= CR_PERIOD}
            refused == {j \in before : ~received[j].permitted}
        IN  IF received[i].permitted
            THEN refused = {} /\ Cardinality(before) < CR_REQUESTS
            ELSE refused # {} \/ Cardinality(before) >= PeriodTakes

(* The client gives up only after more attempts in a row than are set, and *)
(* sleeps no longer than is set.                                           *)
Patient ==
    /\ xstep' = "aborted" /\ xstep # "aborted" => failures' > xmpp_param.attempts
    /\ xstep' = "sleep" /\ xstep # "sleep" =>
          IF xmpp_param.attempts = 0 THEN sleep' = 5
          ELSE sleep' < xmpp_param.initial \/ sleep' <= xmpp_param.max

XmppSound == [][RequestsLimited' /\ Patient]_xmppVars

(* A connection that was lost or never made is up again, or is given up,   *)
(* in the end, however initiating and keeping it fail in turn.             *)
ClientSettles == (xstep \in {"connect", "run", "sleep"}) ~> (xstep \in {"up", "aborted"})
=============================================================================
