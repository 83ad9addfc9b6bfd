-------------------------- MODULE ConnectionRequests --------------------------
(***************************************************************************)
(* The connection request server (http.c): one client at a time, a limit   *)
(* on their rate, and an answer that depends on the credentials, which a   *)
(* load of the configuration takes away for a moment (config.c).           *)
(***************************************************************************)
EXTENDS Naturals, FiniteSetsExt, SequencesExt

CONSTANTS
    RESTRICT_PERIOD,    \* CONNECTION_REQUEST_RESTRICT_PERIOD, in seconds
    RESTRICT_REQUEST,   \* CONNECTION_REQUEST_RESTRICT_REQUEST
    MaxNow,             \* bound: the clock
    MaxClients          \* bound: connections

ASSUME RestrictAssumption == RESTRICT_PERIOD \in Nat /\ RESTRICT_REQUEST \in Nat \ {0}

VARIABLES
    now,
    restrict_start_time,    \* 0: no client has come yet
    cr_request,             \* clients counted since then
    client,                 \* the one that is served: <<>>, or <<service_available>>
    credentials,            \* cpe_userid and cpe_passwd of the configuration
    configured,             \* the same in the UCI files
    events,                 \* 6 CONNECTION REQUEST events so far
    arrivals                \* history: when each client came, and whether it was available

requestVars == <<now, restrict_start_time, cr_request, client, credentials, configured,
                 events, arrivals>>

Idle == <<>>
Headers == {"none", "good", "bad"}  \* its Authorization, by the digest check

-----------------------------------------------------------------------------
second ==
    /\ now < MaxNow /\ now' = now + 1
    /\ UNCHANGED <<restrict_start_time, cr_request, client, credentials, configured, events,
                   arrivals>>

(* Mutant: a refusal does not prolong the restriction.                     *)
RefusalStart == restrict_start_time

(* A refusal starts the period again.                                      *)
RestrictFrom == now

Expired == restrict_start_time = 0 \/ now - restrict_start_time > RESTRICT_PERIOD

http_server_listen ==
    /\ client = Idle /\ Len(arrivals) < MaxClients
    /\ LET available == Expired \/ cr_request < RESTRICT_REQUEST IN
       /\ cr_request' = IF Expired THEN 1 ELSE cr_request + 1
       /\ restrict_start_time' = IF Expired THEN now
                                ELSE IF available THEN restrict_start_time ELSE RestrictFrom
       /\ client' = <<available>>
       /\ arrivals' = Append(arrivals, [at |-> now, available |-> available])
    /\ UNCHANGED <<now, credentials, configured, events>>

(* The request's lines.  An Authorization finds no user or no password: the*)
(* answer is 503.  A client that leaves before the empty line gets none,   *)
(* unless it was refused.                                                  *)
http_cr_new_client(header, complete) ==
    /\ client # Idle /\ client' = Idle
    /\ LET unconfigured == header # "none" /\ credentials # "both"
           available == client[1] /\ ~unconfigured
           answer == CASE ~available -> "503"
                       [] available /\ ~complete -> "no answer"
                       [] available /\ complete -> IF header = "good" THEN "200" ELSE "401"
       IN events' = IF answer = "200" THEN events + 1 ELSE events
    /\ UNCHANGED <<now, restrict_start_time, cr_request, credentials, configured, arrivals>>

(* A load of the configuration: cleared, then the user, then the password. *)
load_credentials ==
    /\ configured
    /\ credentials' = CASE credentials = "both" -> "none"
                        [] credentials = "none" -> "user"
                        [] credentials = "user" -> "both"
    /\ UNCHANGED <<now, restrict_start_time, cr_request, client, configured, events,
                   arrivals>>

-----------------------------------------------------------------------------
RequestInit ==
    /\ now = 1 /\ restrict_start_time = 0 /\ cr_request = 0 /\ client = Idle
    /\ configured \in BOOLEAN /\ credentials = IF configured THEN "both" ELSE "none"
    /\ events = 0 /\ arrivals = <<>>

RequestNext ==
    \/ second \/ http_server_listen \/ load_credentials
    \/ \E header \in Headers, complete \in BOOLEAN : http_cr_new_client(header, complete)

RequestSpec == RequestInit /\ [][RequestNext]_requestVars
-----------------------------------------------------------------------------
(* Properties. *)

Accepted == {i \in DOMAIN arrivals : arrivals[i].available}
Recent(S, t) == {i \in S : arrivals[i].at <= t /\ t - arrivals[i].at <= RESTRICT_PERIOD}

(* The restriction holds, also from one period to the next: a client is    *)
(* served only when none was refused in the period before it, and two full *)
(* counts at most are served within a period.  And it spares the others:   *)
(* one is refused only after a full count in the period before it, or      *)
(* another refusal.  Only those that were served raise an event.           *)
RestrictionHolds ==
    /\ events <= Cardinality(Accepted)
    /\ \A i \in DOMAIN arrivals :
        LET before == Recent(1 .. (i - 1), arrivals[i].at)
            refused == before \ Accepted
        IN IF i \in Accepted
           THEN /\ refused = {}
                /\ Cardinality(before \intersect Accepted) < 2 * RESTRICT_REQUEST
           ELSE refused # {} \/ Cardinality(before) >= RESTRICT_REQUEST
=============================================================================
