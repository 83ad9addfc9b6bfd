------------------------------ MODULE MCServices ------------------------------
(***************************************************************************)
(* The services beside the session, one after the other: value changes,    *)
(* the periodic Inform, connection requests, the XMPP connection and the   *)
(* requests over it.                                                       *)
(***************************************************************************)
EXTENDS Notifications, PeriodicInform, ConnectionRequests, Xmpp

VARIABLE part   \* the service that runs; the others do not move

servicesVars == <<noteVars, periodicVars, requestVars, xmppVars, part>>

(* One parameter with active and one with passive notification, and one in *)
(* the light list as well.                                                 *)
MCAttribute == [active |-> 2, passive |-> 1, both |-> 6]

(* The periodic Inform begins with one of the intervals.                   *)
FirstPeriod == CHOOSE p \in Periods : TRUE

(* JIDs of different lengths, and senders with and without a resource.     *)
Jids == <<<<"a", "b">>, <<"c", "d", "e">>>>
From == {<<"a", "b", "/", "x">>, <<"c", "d", "e">>}
Sets == {<<"Enable", "0">>, <<"Enable", "false">>, <<"Resource", "">>, <<"Domain", "d">>,
         <<"UseTLS", "1">>, <<"ServerConnectAttempts", 1>>, <<"ServerRetryMaxInterval", 30>>}

ServicesInit ==
    /\ Init /\ PeriodicInit /\ RequestInit /\ XmppInit
    /\ part \in {"notifications", "periodic", "requests", "xmpp", "xmpp requests"}
    /\ setting.period = FirstPeriod
    /\ part # "periodic" => setting = [enable |-> FALSE, period |-> FirstPeriod, time |-> 0]
    /\ part # "requests" => configured
    /\ part # "xmpp" => section = FirstSection(Preset("1", 1))

Periodic ==
    /\ part = "periodic"
    /\ UNCHANGED <<noteVars, requestVars, xmppVars, part>>
OverXmpp ==
    /\ part \in {"xmpp", "xmpp requests"}
    /\ UNCHANGED <<noteVars, periodicVars, requestVars, part>>

ServicesNext ==
    \/ /\ part = "notifications" /\ Next
       /\ UNCHANGED <<periodicVars, requestVars, xmppVars, part>>
    \/ /\ part = "requests" /\ RequestNext
       /\ UNCHANGED <<noteVars, periodicVars, xmppVars, part>>
    \/ Periodic /\ PeriodicNext
    \/ /\ OverXmpp
       /\ \/ Client
          \/ part = "xmpp" /\ XmppOperations
          \/ part = "xmpp requests" /\ XmppRequests

(* The fairness of the two services, each in its own behaviours.           *)
ServicesFairness ==
    /\ WF_servicesVars(Periodic /\ PeriodicThread)
    /\ WF_servicesVars(Periodic /\ PeriodicReload)
    /\ WF_servicesVars(Periodic /\ Tick)
    /\ WF_servicesVars(OverXmpp /\ XmppThread)
    /\ WF_servicesVars(OverXmpp /\ XmppServer)

ServicesSpec == ServicesInit /\ [][ServicesNext]_servicesVars /\ ServicesFairness
=============================================================================
