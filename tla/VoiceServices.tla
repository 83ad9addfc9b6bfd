---------------------------- MODULE VoiceServices ----------------------------
(***************************************************************************)
(* Services.VoiceService (dm/dmtree/common/voice_services.c): the SIP      *)
(* profiles of the package voice_client, the telephone lines given to      *)
(* them, and the codecs of a profile in the order of their priorities.     *)
(* A request of the ACS is one action.  Instances are named by number.     *)
(***************************************************************************)
EXTENDS Integers, SequencesExt, FiniteSetsExt

CONSTANTS
    Lines,          \* brcm_line sections: brcm0, brcm1, ...
    Codecs,         \* the codecs of asterisk, a sequence
    Slots,          \* codec0 ... of a profile; 5 in the code
    DefaultCodecs,  \* the codecs of a new profile
    Ties,           \* orders qsort may give to equal priorities: [codec -> number]
    Priorities,     \* what the ACS sets as a priority
    VoiceValues,    \* parameter values; "other" is not a boolean, not listed
    UsedParameters, \* parameters the ACS sets
    MaxProfiles     \* bound: profiles at a time

VARIABLES
    sip,        \* sip_service_provider sections, in the order of the file
    line,       \* brcm_line sections
    common,     \* options of the sections SIP and BRCM
    byHand,     \* history: profiles whose call_lines the ACS has disturbed
    last,       \* history: the last request that set parameters
    heard       \* history: asterisk has reported codecs in the last request

voiceVars == <<sip, line, common, byHand, last, heard>>

ASSUME VoiceAssumption ==
    /\ Lines \in Nat \ {0} /\ Slots \in Nat \ {0} /\ IsInjective(Codecs)
    /\ \A t \in Ties : IsInjective(t) /\ ToSet(Codecs) \subseteq DOMAIN t

LineId == 0 .. Lines - 1
NoAccount == -1             \* sip_account "-"
Codec == ToSet(Codecs) \union ToSet(DefaultCodecs)
NoCodec == ""

-----------------------------------------------------------------------------
(* Where the parameters are kept: in the section of the profile ("own"),   *)
(* of the line, or in one that all profiles share.                         *)
GeneralOption ==
    [Enable |-> <<"own", "enabled">>]

ServerOption ==
    [ProxyServer |-> <<"SIP", "sip_proxy">>,
     ProxyServerTransport |-> <<"own", "transport">>,
     RegistrarServer |-> <<"own", "host">>,
     RegistrarServerPort |-> <<"own", "port">>]

AgentOption ==
    [RegistrarServerTransport |-> <<"own", "transport">>,
     UserAgentDomain |-> <<"own", "domain">>,
     UserAgentPort |-> <<"SIP", "bindport">>,
     OutboundProxy |-> <<"own", "outboundproxy">>,
     OutboundProxyPort |-> <<"own", "outboundproxyport">>]

TimerOption ==
    [RegistrationPeriod |-> <<"SIP", "defaultexpiry">>,
     ReInviteExpires |-> <<"SIP", "registertimeout">>,
     RegisterExpires |-> <<"SIP", "registertimeout">>]

MediaOption ==
    [DTMFMethod |-> <<"SIP", "dtmfmode">>, Region |-> <<"BRCM", "country">>,
     ServiceProviderName |-> <<"own", "provider_name">>, FaxT38 |-> <<"own", "is_fax">>]

RtpOption ==
    [LocalPortMin |-> <<"SIP", "rtpstart">>, LocalPortMax |-> <<"SIP", "rtpend">>,
     DSCPMark |-> <<"SIP", "tos_audio">>, TxRepeatInterval |-> <<"SIP", "rtcpinterval">>,
     SRTP |-> <<"own", "encryption">>]

LineOption ==
    [DirectoryNumber |-> <<"line", "extension">>, CallWaiting |-> <<"line", "callwaiting">>,
     CallerIDName |-> <<"own", "displayname">>, AuthUserName |-> <<"own", "authuser">>]

Option == GeneralOption @@ ServerOption @@ AgentOption @@ TimerOption @@ MediaOption
          @@ RtpOption @@ LineOption

(* The domain of a line's URI is that of its profile.                      *)
URI == "URI"
Parameter == DOMAIN Option \union {URI}
Boolean == {"FaxT38", "SRTP", "CallWaiting"}
Listed == {"DTMFMethod", "Region", "DSCPMark"}
OfLine(p) == p = URI \/ (p \in DOMAIN Option /\ p \in DOMAIN LineOption)

(* Faults of the check phase.                                              *)
VoiceFault(p, v) == IF p \in Boolean /\ v = "other" THEN 9007 ELSE 0

(* What the set phase leaves in the option: a value outside a list leaves  *)
(* the option alone.                                                       *)
Stored(p, v, old) ==
    CASE p \in Listed /\ v = "other" -> old
      [] p = "Enable" /\ v # "1" -> "0"
      [] OTHER -> v

Read(p, i, l) ==
    IF p = URI THEN sip[i].opts["domain"]
    ELSE LET where == Option[p]
         IN  CASE where[1] = "own" -> sip[i].opts[where[2]]
               [] where[1] = "line" -> line[l].opts[where[2]]
               [] OTHER -> common[where[2]]

-----------------------------------------------------------------------------
(* Lines and their profiles.                                               *)
LinesOf(ls, name) == {l \in LineId : ls[l].account = name}
Released == [account |-> NoAccount, inst |-> 0]

(* Mutant: the instance number stays in the section.                       *)
ReleasedKeepingNumber(ls, name) ==
    [l \in LineId |-> IF ls[l].account = name THEN [ls[l] EXCEPT !.account = NoAccount] ELSE ls[l]]

delete_associated_line_instances(ls, name) ==
    [l \in LineId |-> IF ls[l].account = name THEN Released @@ ls[l] ELSE ls[l]]

(* A line that has no number gets the one after the highest of a profile.  *)
update_vp_line_instance(ls, l, name) ==
    IF ls[l].inst # 0 THEN ls
    ELSE [ls EXCEPT ![l].inst = Max({0} \union {ls[k].inst : k \in LinesOf(ls, name)}) + 1]

(* The first free line; the search ends at the first line past those that  *)
(* asterisk reports, except that it always tries one.                      *)
get_line_max_instance(reported) ==
    LET free == {l \in LineId : line[l].account = NoAccount}
    IN  {l \in free : (\A k \in free : l <= k) /\ (l = 0 \/ l < reported)}

delete_line(ls, l) == [ls EXCEPT ![l] = Released @@ @]
Dropped(s, l) == [s EXCEPT !.lines = SelectSeq(@, LAMBDA k : k # l)]

-----------------------------------------------------------------------------
(* Codecs.  asterisk is asked for its codecs at the start of every walk:   *)
(* allowed is what it answers, empty when it does not.  qsort may put      *)
(* equal priorities in any order: ties is one of them.                     *)
Enabled(s) == ToSet(s.slots) \ {NoCodec}

codec_priority_sort(s, new, allowed, ties) ==
    LET keep == (Enabled(s) \union new) \intersect ToSet(allowed)
        order == SetToSortSeq(keep, LAMBDA c, d :
                     \/ s.prio[c] < s.prio[d]
                     \/ s.prio[c] = s.prio[d] /\ ties[c] < ties[d])
    IN  [s EXCEPT !.slots = [j \in 1 .. Slots |-> IF j <= Len(order) THEN order[j] ELSE NoCodec]]

(* An enabled codec without a priority (0) gets that of its slot, another  *)
(* one the value that was given last.                                      *)
codec_priority_update(s, allowed, ties) ==
    LET given == FoldLeft(LAMBDA acc, c :
                     LET j == SelectInSeq(s.slots, LAMBDA d : d = c)
                         pid == IF j # 0 THEN j ELSE acc.pid
                     IN  IF acc.prio[c] # 0 THEN acc
                         ELSE [prio |-> [acc.prio EXCEPT ![c] = pid], pid |-> pid],
                     [prio |-> s.prio, pid |-> 1], allowed)
    IN  codec_priority_sort([s EXCEPT !.prio = given.prio], {}, allowed, ties)

-----------------------------------------------------------------------------
(* A walk.  up is what asterisk answers: its codecs at the beginning, and  *)
(* the number of lines when the lines are looked for, which                *)
(* wait_voice_service_up makes more likely than the first answer.          *)
Up == [codecs : {<<>>, Codecs}, lines : {0, Lines}]

(* Everything before line l of the i-th profile has been walked through,   *)
(* which sorts the codecs of the profiles whose lines it has met.          *)
WalkedTo(i, l, up, ties) ==
    [k \in DOMAIN sip |->
        IF \E n \in LinesOf(line, sip[k].name) : n < up.lines /\ (k < i \/ (k = i /\ n < l))
        THEN codec_priority_update(sip[k], up.codecs, ties) ELSE sip[k]]

Numbers(s) == {x.name : x \in ToSet(s)}

(* get_cfg_sipidx and the number after the last one.                       *)
NewName == Max(Numbers(sip) \union {-1}) + 1
NewInst == IF sip = <<>> THEN 1 ELSE Last(sip).inst + 1

OwnOptions == {Option[p][2] : p \in {q \in DOMAIN Option : Option[q][1] = "own"}}
LineOptions == {Option[p][2] : p \in {q \in DOMAIN Option : Option[q][1] = "line"}}
CommonOptions ==
    {Option[p][2] : p \in {q \in DOMAIN Option : Option[q][1] \in {"SIP", "BRCM"}}}
Unset == ""

Profile(name, inst) ==
    [name |-> name, inst |-> inst, lines |-> <<>>,
     slots |-> [j \in 1 .. Slots |-> IF j <= Len(DefaultCodecs) THEN DefaultCodecs[j] ELSE NoCodec],
     prio |-> [c \in Codec |-> 0], opts |-> [o \in OwnOptions |-> Unset]]

add_profile_object ==
    /\ Len(sip) < MaxProfiles
    /\ sip' = Append(sip, Profile(NewName, NewInst))
    /\ byHand' = byHand \ {NewName}
    /\ last' = <<>> /\ heard' = FALSE
    /\ UNCHANGED <<line, common>>

delete_profile_object(i, up, ties) ==
    /\ sip' = RemoveAt(WalkedTo(i, 0, up, ties), i)
    /\ line' = delete_associated_line_instances(line, sip[i].name)
    /\ byHand' = byHand \ {sip[i].name}
    /\ last' = <<>> /\ heard' = (up.codecs # <<>>)
    /\ UNCHANGED common

delete_profile_object_all ==
    /\ sip' = <<>>
    /\ line' = FoldLeft(LAMBDA ls, s : delete_associated_line_instances(ls, s.name), line, sip)
    /\ byHand' = {} /\ last' = <<>> /\ heard' = FALSE
    /\ UNCHANGED common

(* Fault 9004 without a free line; else it is given to the profile.        *)
add_line_object(i, up, ties) ==
    LET found == get_line_max_instance(up.lines)
        l == CHOOSE k \in found : TRUE
        s == WalkedTo(i, 0, up, ties)
    IN  /\ IF found = {} THEN sip' = s /\ UNCHANGED line
           ELSE /\ line' = update_vp_line_instance(
                              [line EXCEPT ![l].account = sip[i].name], l, sip[i].name)
                /\ sip' = [s EXCEPT ![i].lines = Append(@, l)]
        /\ last' = <<>> /\ heard' = (up.codecs # <<>>)
        /\ UNCHANGED <<common, byHand>>

(* The objects of lines exist while asterisk reports them.                 *)
Shown(i, l, up) == l < up.lines /\ line[l].account = sip[i].name

delete_line_object(i, l, up, ties) ==
    /\ Shown(i, l, up)
    /\ line' = delete_line(line, l)
    /\ sip' = [WalkedTo(i, l, up, ties) EXCEPT ![i] = Dropped(@, l)]
    /\ last' = <<>> /\ heard' = (up.codecs # <<>>)
    /\ UNCHANGED <<common, byHand>>

delete_line_object_all(i, up, ties) ==
    /\ line' = FoldSet(LAMBDA l, ls : delete_line(ls, l), line, LinesOf(line, sip[i].name))
    /\ sip' = [WalkedTo(i, 0, up, ties) EXCEPT
                 ![i] = FoldSet(LAMBDA l, s : Dropped(s, l), @, LinesOf(line, sip[i].name))]
    /\ last' = <<>> /\ heard' = (up.codecs # <<>>)
    /\ UNCHANGED <<common, byHand>>

(* X_002207_LineProfile: the line moves to another profile; an unknown one *)
(* is accepted and ignored.                                                *)
set_line_x_002207_line_profile(i, l, inst, up, ties) ==
    LET to == SelectInSeq(sip, LAMBDA s : s.inst = inst)
        s == WalkedTo(i, l, up, ties)
    IN  /\ Shown(i, l, up)
        /\ IF to \in {0, i} THEN sip' = s /\ UNCHANGED line
           ELSE /\ line' = [update_vp_line_instance(delete_line(line, l), l, sip[to].name)
                             EXCEPT ![l].account = sip[to].name]
                /\ sip' = [s EXCEPT ![i] = Dropped(@, l), ![to].lines = Append(@, l)]
        /\ last' = <<>> /\ heard' = (up.codecs # <<>>)
        /\ UNCHANGED <<common, byHand>>

(* X_002207_BRCMLine: the profile takes another line that is free, under   *)
(* the same number.  call_lines keeps the old one.                         *)
set_line_x_002207_brcm_line(i, l, to, up, ties) ==
    /\ Shown(i, l, up)
    /\ sip' = WalkedTo(i, l, up, ties)
    /\ IF to \notin LineId \/ line[to].account # NoAccount THEN UNCHANGED <<line, byHand>>
       ELSE /\ line' = [delete_line(line, l) EXCEPT ![to].account = line[l].account,
                                                    ![to].inst = line[l].inst]
            /\ byHand' = byHand \union {sip[i].name}
    /\ last' = <<>> /\ heard' = (up.codecs # <<>>)
    /\ UNCHANGED common

set_sip_x_002207_call_lines(i, lines, up, ties) ==
    /\ sip' = [WalkedTo(i, 0, up, ties) EXCEPT ![i].lines = lines]
    /\ byHand' = byHand \union {sip[i].name}
    /\ last' = <<>> /\ heard' = (up.codecs # <<>>)
    /\ UNCHANGED <<line, common>>

-----------------------------------------------------------------------------
(* The codec list of a line is that of its profile; its entries exist for  *)
(* the codecs that asterisk has reported.                                  *)
Listable(i, l, c, up) == Shown(i, l, up) /\ c \in ToSet(up.codecs)

set_line_codec_list_enable(i, l, c, on, up, ties) ==
    /\ Listable(i, l, c, up)
    /\ LET s == WalkedTo(i, l + 1, up, ties)
       IN  sip' = [s EXCEPT ![i] =
             IF ~on THEN [@ EXCEPT !.slots = [j \in 1 .. Slots |-> IF @[j] = c THEN NoCodec ELSE @[j]]]
             ELSE IF c \in Enabled(@) THEN @
             ELSE codec_priority_sort(@, {c}, up.codecs, ties)]
    /\ last' = <<>> /\ heard' = (up.codecs # <<>>)
    /\ UNCHANGED <<line, common, byHand>>

PrioritySet(s, c, v, up, ties) ==
    LET t == [s EXCEPT !.prio[c] = v]
    IN  IF c \in Enabled(s) THEN codec_priority_sort(t, {}, up.codecs, ties) ELSE t

set_line_codec_list_priority(i, l, c, v, up, ties) ==
    /\ Listable(i, l, c, up)
    /\ sip' = [WalkedTo(i, l + 1, up, ties) EXCEPT ![i] = PrioritySet(@, c, v, up, ties)]
    /\ last' = <<>> /\ heard' = (up.codecs # <<>>)
    /\ UNCHANGED <<line, common, byHand>>

(* A read of the whole object, and another package's parameter before it.  *)
entry_services_voice_service_voiceprofile(up, ties) ==
    /\ sip' = WalkedTo(Len(sip) + 1, 0, up, ties)
    /\ last' = <<>> /\ heard' = (up.codecs # <<>>)
    /\ UNCHANGED <<line, common, byHand>>

(* SetParameterValues on parameters of one profile, or of one of its       *)
(* lines.                                                                  *)
Put(st, p, i, l, v) ==
    IF p = URI THEN [st EXCEPT !.sip[i].opts["domain"] = v]
    ELSE LET where == Option[p]
         IN  CASE where[1] = "own" -> [st EXCEPT !.sip[i].opts[where[2]] = Stored(p, v, @)]
               [] where[1] = "line" -> [st EXCEPT !.line[l].opts[where[2]] = Stored(p, v, @)]
               [] OTHER -> [st EXCEPT !.common[where[2]] = Stored(p, v, @)]

set_parameters(i, l, entries, up, ties) ==
    /\ \A e \in ToSet(entries) : VoiceFault(e.p, e.v) = 0
    /\ \A e \in ToSet(entries) : OfLine(e.p) => Shown(i, l, up)
    /\ LET walked == WalkedTo(i, IF \E e \in ToSet(entries) : OfLine(e.p) THEN l ELSE 0, up, ties)
           st == FoldLeft(LAMBDA x, e : Put(x, e.p, i, l, e.v),
                          [sip |-> walked, line |-> line, common |-> common], entries)
       IN  /\ sip' = st.sip /\ line' = st.line /\ common' = st.common
    /\ last' = [k \in DOMAIN entries |-> [p |-> entries[k].p, v |-> entries[k].v, i |-> i, l |-> l]]
    /\ heard' = (up.codecs # <<>>)
    /\ UNCHANGED byHand

-----------------------------------------------------------------------------
VoiceInit ==
    /\ sip = <<>>
    /\ line = [l \in LineId |-> Released @@ [opts |-> [o \in LineOptions |-> Unset]]]
    /\ common = [o \in CommonOptions |-> Unset]
    /\ byHand = {} /\ last = <<>> /\ heard = FALSE

Profiles ==
    \/ add_profile_object \/ delete_profile_object_all
    \/ \E i \in DOMAIN sip, up \in Up, ties \in Ties : delete_profile_object(i, up, ties)

LineObjects ==
    \E i \in DOMAIN sip, up \in Up, ties \in Ties :
      \/ add_line_object(i, up, ties)
      \/ delete_line_object_all(i, up, ties)
      \/ \E l \in LineId :
           \/ delete_line_object(i, l, up, ties)
           \/ \E inst \in 1 .. NewInst : set_line_x_002207_line_profile(i, l, inst, up, ties)
           \/ \E to \in 0 .. Lines : set_line_x_002207_brcm_line(i, l, to, up, ties)
      \/ \E lines \in {<<>>, <<0>>} : set_sip_x_002207_call_lines(i, lines, up, ties)

CodecLists ==
    \E i \in DOMAIN sip, l \in LineId, c \in Codec, up \in Up, ties \in Ties :
      \/ \E on \in BOOLEAN : set_line_codec_list_enable(i, l, c, on, up, ties)
      \/ \E v \in Priorities : set_line_codec_list_priority(i, l, c, v, up, ties)

Parameters(up, ties) ==
    \E i \in DOMAIN sip, l \in LineId :
      \E p, q \in UsedParameters, v, w \in VoiceValues :
        /\ p # q
        /\ set_parameters(i, l, <<[p |-> p, v |-> v], [p |-> q, v |-> w]>>, up, ties)

Reads == \E up \in Up, ties \in Ties : entry_services_voice_service_voiceprofile(up, ties)

VoiceNext == Profiles \/ LineObjects \/ CodecLists \/ Reads
             \/ \E up \in Up, ties \in Ties : Parameters(up, ties)

VoiceSpec == VoiceInit /\ [][VoiceNext]_voiceVars

-----------------------------------------------------------------------------
(* Properties. *)

(* The lines of a profile have numbers of their own, whatever lines were   *)
(* given to it, moved between profiles or left by deleted ones.            *)
LinesNumbered ==
    \A l \in LineId :
      /\ line[l].account # NoAccount =>
           /\ line[l].account \in Numbers(sip) /\ line[l].inst # 0
           /\ \A k \in LinesOf(line, line[l].account) : line[k].inst = line[l].inst => k = l
      /\ line[l].account = NoAccount => line[l].inst = 0

(* call_lines of a profile names the lines it has, unless the ACS set it   *)
(* or exchanged a line by hand.                                            *)
LinesFollow ==
    \A s \in ToSet(sip) : s.name \notin byHand =>
      /\ ToSet(s.lines) = LinesOf(line, s.name)
      /\ IsInjective(s.lines)

(* The slots hold each codec once, in the order of the priorities.         *)
CodecsOrdered ==
    \A s \in ToSet(sip) : \A j, k \in 1 .. Slots :
      j < k /\ s.slots[j] # NoCodec /\ s.slots[k] # NoCodec =>
        s.slots[j] # s.slots[k] /\ s.prio[s.slots[j]] <= s.prio[s.slots[k]]

(* A parameter reads as it was set, apart from those that share an option  *)
(* with a later one of the request, and values outside a list.             *)
Shares == {{"ProxyServerTransport", "RegistrarServerTransport"},
           {"ReInviteExpires", "RegisterExpires"}, {URI, "UserAgentDomain"}}
ReadsBack ==
    \A j \in DOMAIN last :
      \/ \E k \in DOMAIN last : k > j /\ {last[j].p, last[k].p} \in Shares
      \/ last[j].p \in Listed \union {"Enable"} /\ last[j].v = "other"
      \/ Read(last[j].p, last[j].i, last[j].l) = last[j].v

(* A request that has heard of the codecs takes at most one out of a       *)
(* profile: the one it disables, or the last when it enables another and   *)
(* the slots are full.                                                     *)
CodecsKept ==
    heard' => \A s \in ToSet(sip), t \in ToSet(sip') : s.name = t.name =>
      LET lost == (Enabled(s) \intersect ToSet(Codecs)) \ Enabled(t)
          won == Enabled(t) \ Enabled(s)
      IN  lost = {} \/ (Cardinality(lost) = 1 /\ (won = {} \/ Cardinality(Enabled(t)) = Slots))

(* Lines, their profiles and the codecs are consistent after every request *)
(* of the ACS, whatever asterisk reports meanwhile (voice_services.c).     *)
VoiceSound ==
    [][(LinesNumbered /\ LinesFollow /\ CodecsOrdered /\ ReadsBack)' /\ CodecsKept]_voiceVars
=============================================================================
