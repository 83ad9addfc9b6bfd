---------------------------- MODULE DiagnosticTrace ----------------------------
(***************************************************************************)
(* What a download or upload diagnostic reads out of the captured packets  *)
(* (diagnostic.c): times and byte counts, found by following the sequence  *)
(* numbers of one connection through the capture.                          *)
(***************************************************************************)
EXTENDS Naturals, SequencesExt

CONSTANTS
    MaxSegments     \* bound: data segments of a transfer

Diagnostic == {"http download", "ftp download", "http upload", "ftp upload"}

(* A packet of the capture: its flags, sequence numbers, what its payload  *)
(* begins with, and whether the client or the server sends it.             *)
Packet(from, flags, seq, ack, payload) ==
    [from |-> from, flags |-> flags, seq |-> seq, ack |-> ack, payload |-> payload]

C == 100    \* initial sequence numbers of client and server
S == 200
Syn == Packet("client", "SYN", C, 0, "")
SynAck == Packet("server", "SYN ACK", S, C + 1, "")
Handshake == Packet("client", "ACK", C + 1, S + 1, "")
Control(from, payload) == Packet(from, "PSH ACK", 1, 1, payload)  \* the FTP control connection
Pure(seq, ack) == Packet("server", "ACK", seq, ack, "")

(* The data of a transfer; only its last segment is pushed.                *)
Data(from, seq, ack, n, payload) ==
    [i \in 1 .. n |-> Packet(from, IF i = n THEN "PSH ACK" ELSE "ACK", seq + i - 1, ack,
                             IF i = 1 THEN payload ELSE "data")]

-----------------------------------------------------------------------------
(* The captures.  acks says how often the peer acknowledges the request    *)
(* with a packet of its own; a request that is repeated is acknowledged    *)
(* twice, and a peer may answer with data at once.                         *)
Capture(d, n, acks, expect) ==
    CASE d = "http download" ->
            <<Syn, SynAck, Handshake, Packet("client", "PSH ACK", C + 1, S + 1, "GET")>>
            \o [i \in 1 .. acks |-> Pure(S + 1, C + 2)]
            \o Data("server", S + 1, C + 2, n, "Content-Length")
      [] d = "ftp download" ->
            <<Control("server", "213"), Control("server", "227"), Syn, SynAck, Handshake,
              Control("client", "RETR")>>
            \o Data("server", S + 1, C + 1, n, "data")
      [] d = "http upload" /\ ~expect ->
            <<Syn, SynAck, Handshake, Packet("client", "PSH ACK", C + 1, S + 1, "PUT")>>
            \o Data("client", C + 2, S + 1, n, "data")
            \o <<Packet("server", "PSH ACK", S + 1, C + 2 + n, "200 OK")>>
      [] d = "http upload" /\ expect ->
            <<Syn, SynAck, Handshake, Packet("client", "PSH ACK", C + 1, S + 1, "PUT Expect"),
              Packet("server", "PSH ACK", S + 1, C + 2, "100 Continue")>>
            \o [i \in 1 .. acks |-> Packet("client", "ACK", C + 2, S + 2, "")]
            \o Data("client", C + 2, S + 2, n, "data")
            \o <<Packet("server", "PSH ACK", S + 2, C + 2 + n, "200 OK")>>
      [] d = "ftp upload" ->
            <<Control("server", "227"), Syn, SynAck, Handshake, Control("client", "STOR")>>
            \o Data("client", C + 1, S + 1, n, "data")
            \o <<Control("server", "226")>>

VARIABLES
    kind, segments, acks, expect,   \* the diagnostic that is analysed
    capture, at,    \* its capture, and the number of packets read
    stats,          \* download_stats or upload_stats
    staleSeq,       \* random_seq that the last download left in download_stats
    broken          \* the analysis has ended the program

traceVars == <<kind, segments, acks, expect, capture, at, stats, staleSeq, broken>>

(* Times are positions in the capture; 0 is unset.                         *)
init_stats ==
    [random_seq |-> 0, ack_seq |-> 0, get_ack |-> 0, ftp_syn |-> FALSE, first_data |-> FALSE,
     tmp |-> 0, request |-> 0, response |-> 0, rom |-> 0, bom |-> 0, eom |-> 0, total |-> 0]

Pushed(p) == p.flags = "PSH ACK"
Answers(p, st) == p.flags = "SYN ACK" /\ st.random_seq # 0 /\ p.ack - 1 = st.random_seq

(* A segment of the data: the first one starts the transfer.               *)
Counted(st, t) ==
    [st EXCEPT !.bom = IF st.first_data THEN @ ELSE t, !.first_data = TRUE, !.total = @ + 1]

-----------------------------------------------------------------------------
(* The first packet that acknowledges the request gives the number that    *)
(* the data will acknowledge.                                              *)
http_download_per_packet(st, p, t) ==
    CASE p.flags = "SYN" /\ st.random_seq = 0 ->
            [st EXCEPT !.request = t, !.random_seq = p.seq]
      [] Answers(p, st) -> [st EXCEPT !.response = t, !.random_seq = p.seq]
      [] Pushed(p) /\ p.payload = "GET" -> [st EXCEPT !.rom = t, !.get_ack = p.ack]
      [] p.flags = "ACK" /\ p.seq = st.get_ack /\ st.ack_seq = 0 ->
            [st EXCEPT !.ack_seq = p.ack]
      [] p.flags = "ACK" /\ p.ack = st.ack_seq /\ ~(p.seq = st.get_ack /\ st.ack_seq = 0) ->
            Counted(st, t)
      [] Pushed(p) /\ p.payload # "GET" /\ p.ack = st.ack_seq ->
            [Counted(st, t) EXCEPT !.eom = t]
      [] OTHER -> st

(* The length of the file is looked for in what it takes to be the first   *)
(* segment, through a null pointer when it is not there.                   *)
NoLength(st, p) ==
    /\ ~st.first_data /\ p.payload \notin {"Content-Length", "GET"}
    /\ p.flags \in {"ACK", "PSH ACK"} /\ p.ack = st.ack_seq

(* The connection of the data follows the answer to PASV on the other.     *)
ftp_download_per_packet(st, p, t) ==
    CASE Pushed(p) /\ p.payload = "227" -> [st EXCEPT !.ftp_syn = TRUE]
      [] p.flags = "SYN" /\ st.random_seq = 0 /\ st.ftp_syn ->
            [st EXCEPT !.request = t, !.random_seq = p.seq]
      [] Answers(p, st) -> [st EXCEPT !.response = t, !.random_seq = p.ack]
      [] Pushed(p) /\ p.payload = "RETR" -> [st EXCEPT !.rom = t]
      [] p.flags = "ACK" /\ p.seq = st.random_seq /\ st.ack_seq = 0 ->
            [st EXCEPT !.ack_seq = p.seq]
      [] p.flags = "ACK" /\ p.ack = st.ack_seq /\ st.ack_seq # 0 -> Counted(st, t)
      [] Pushed(p) /\ p.payload \notin {"227", "RETR"} /\ p.ack = st.ack_seq ->
            [Counted(st, t) EXCEPT !.eom = t]
      [] OTHER -> st

(* Mutant: the first packet after "100 Continue" is taken for data.        *)
ContinueCounted(st, p, t) ==
    Counted([st EXCEPT !.tmp = 0, !.ack_seq = p.ack], t)

Continued(st, p, t) == [st EXCEPT !.tmp = 0, !.ack_seq = p.ack]

(* It is download_stats that must not have seen a connection.  tmp is 1    *)
(* from a request with "Expect" to its "100 Continue", then 2 until that   *)
(* is acknowledged.                                                        *)
http_upload_per_packet(st, p, t) ==
    CASE p.flags = "SYN" /\ staleSeq = 0 -> [st EXCEPT !.request = t, !.random_seq = p.seq]
      [] Answers(p, st) -> [st EXCEPT !.response = t, !.random_seq = p.seq]
      [] Pushed(p) /\ p.payload \in {"PUT", "PUT Expect"} ->
            [st EXCEPT !.rom = t, !.ack_seq = p.ack,
                       !.tmp = IF p.payload = "PUT Expect" THEN 1 ELSE @]
      [] Pushed(p) /\ p.payload = "100 Continue" /\ st.tmp = 1 ->
            [st EXCEPT !.tmp = 2, !.ack_seq = p.ack]
      [] p.flags = "ACK" /\ st.tmp = 2 /\ p.seq = st.ack_seq -> Continued(st, p, t)
      [] p.flags \in {"ACK", "PSH ACK"} /\ p.ack = st.ack_seq /\ st.tmp = 0 -> Counted(st, t)
      [] Pushed(p) /\ p.seq = st.ack_seq /\ p.ack # st.ack_seq /\ st.tmp = 0 ->
            [st EXCEPT !.eom = t]
      [] OTHER -> st

ftp_upload_per_packet(st, p, t) ==
    CASE Pushed(p) /\ p.payload = "227" -> [st EXCEPT !.ftp_syn = TRUE]
      [] p.flags = "SYN" /\ st.ftp_syn -> [st EXCEPT !.request = t, !.random_seq = p.seq]
      [] Answers(p, st) -> [st EXCEPT !.response = t, !.random_seq = p.ack]
      [] Pushed(p) /\ p.payload = "STOR" -> [st EXCEPT !.rom = t]
      [] p.flags = "ACK" /\ p.seq = st.random_seq /\ st.ack_seq = 0 ->
            [st EXCEPT !.ack_seq = p.ack]
      [] p.flags \in {"ACK", "PSH ACK"} /\ p.ack = st.ack_seq /\ st.ack_seq # 0 ->
            Counted(st, t)
      [] Pushed(p) /\ p.payload = "226" -> [st EXCEPT !.eom = t]
      [] OTHER -> st

-----------------------------------------------------------------------------
(* A diagnostic has completed: its capture is read from the start.         *)
extract_stats ==
    /\ ~broken /\ at < Len(capture) /\ at' = at + 1
    /\ LET p == capture[at + 1] IN
       /\ stats' = CASE kind = "http download" -> http_download_per_packet(stats, p, at + 1)
                     [] kind = "ftp download" -> ftp_download_per_packet(stats, p, at + 1)
                     [] kind = "http upload" -> http_upload_per_packet(stats, p, at + 1)
                     [] kind = "ftp upload" -> ftp_upload_per_packet(stats, p, at + 1)
       /\ broken' = (kind = "http download" /\ stats.ack_seq # 0 /\ NoLength(stats, p))
    /\ UNCHANGED <<kind, segments, acks, expect, capture, staleSeq>>

(* The next one: its own statistics are cleared, those of the other kind   *)
(* are not.                                                                *)
next_diagnostic(d, n, a, e) ==
    /\ ~broken /\ at = Len(capture)
    /\ kind' = d /\ segments' = n /\ acks' = a /\ expect' = e
    /\ capture' = Capture(d, n, a, e) /\ at' = 0
    /\ stats' = init_stats
    /\ staleSeq' = IF kind \in {"http download", "ftp download"} THEN stats.random_seq
                   ELSE staleSeq
    /\ UNCHANGED broken

TraceInit ==
    /\ kind \in Diagnostic /\ segments \in 1 .. MaxSegments /\ acks \in 0 .. 2
    /\ expect \in BOOLEAN
    /\ capture = Capture(kind, segments, acks, expect) /\ at = 0 /\ stats = init_stats
    /\ staleSeq = 0 /\ broken = FALSE

TraceNext ==
    \/ extract_stats
    \/ \E d \in Diagnostic, n \in 1 .. MaxSegments, a \in 0 .. 2, e \in BOOLEAN :
            next_diagnostic(d, n, a, e)

TraceSpec == TraceInit /\ [][TraceNext]_traceVars
-----------------------------------------------------------------------------
(* Properties. *)

Finished == at = Len(capture) /\ ~broken

(* The peer acknowledges each request with one packet of its own.          *)
Acknowledged == (kind = "http download" \/ (kind = "http upload" /\ expect)) => acks = 1

(* The opening of the connection is found, unless the analysis of an       *)
(* upload by HTTP is led astray by an earlier download.                    *)
Opened == 0 < stats.request /\ stats.request < stats.response

(* A diagnostic whose requests are acknowledged that way gets the times of *)
(* its connection and of its transfer, in their order, and counts each     *)
(* segment once, whatever ran before it.  No other one ends the program    *)
(* but a download by HTTP.                                                 *)
Measured ==
    /\ Finished /\ Acknowledged =>
        /\ 0 < stats.rom /\ stats.rom < stats.bom /\ stats.bom <= stats.eom
        /\ stats.total = segments
        /\ (kind = "http upload" /\ staleSeq # 0) \/ (Opened /\ stats.response < stats.rom)
    /\ broken => kind = "http download" /\ ~Acknowledged
=============================================================================
