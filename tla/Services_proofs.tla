--------------------------- MODULE Services_proofs ---------------------------
(***************************************************************************)
(* The services beside the sessions.  What the thread of value changes has *)
(* noticed reaches the ACS, for any parameters and attributes, any number  *)
(* of changes, and any sessions that fail, are merged or reload the lists. *)
(* The limits on connection requests, over HTTP and over XMPP, hold for    *)
(* every period, every limit and any number of requests, at any times; and *)
(* the XMPP connections and the client that keeps one.  And the            *)
(* configuration that the scheduler and the command "reload" load is what  *)
(* the options say, for any options and any values the ACS may set.        *)
(***************************************************************************)
EXTENDS Notifications, ConnectionRequests, Xmpp, Configuration, SequenceLemmas,
        FiniteSetTheorems, SequenceTheorems, TLAPS

-----------------------------------------------------------------------------
(***************************************************************************)
(* Value changes.                                                          *)
(***************************************************************************)
Lists == UNION {[S -> ParamValue] : S \in SUBSET Param}

(* The types of the variables, as far as the argument needs them.          *)
NoteTypeOK ==
    /\ value \in [Param -> ParamValue]
    /\ known \in [Full -> ParamValue] /\ DOMAIN told = Param
    /\ changes \in Lists
    /\ head = NoSession \/ \E lists \in Seq(Lists) : head = {lists}
    /\ sent \in Seq(Lists) /\ spc \in {"none", "inform", "rpcs"}
    /\ staged \in Lists
    /\ active \in BOOLEAN /\ todo \subseteq Comparisons

(* While a session runs nothing else is on its way: the thread has not     *)
(* compared since it began, and the queue has no list.                     *)
Stages ==
    /\ spc # "none" => changes = EmptyList /\ Waiting = <<>> /\ npc # "compare"
    /\ spc # "inform" => sent = <<>>
    /\ spc # "rpcs" => staged = EmptyList

(* What was announced and not looked at is left to compare, or counted.    *)
Heard ==
    count = 0 => IF npc = "compare"
                 THEN \A p \in said \intersect Full : <<"full", p>> \in todo
                 ELSE said \intersect Full = {}

(* While a change is counted the thread is about to look, unless a signal  *)
(* was lost.                                                               *)
Awake ==
    /\ npc \in {"start", "wait", "woken", "compare", "add"}
    /\ count # 0 => bell \/ lost \/ npc \in {"woken", "compare", "add"}

(* The last of the lists that has p gives it the value v.                  *)
LastAt(lists, p, i) ==
    /\ i \in DOMAIN lists /\ p \in DOMAIN lists[i]
    /\ \A j \in DOMAIN lists : j > i => p \notin DOMAIN lists[j]
Says(lists, p, v) == \E i \in DOMAIN lists : LastAt(lists, p, i) /\ lists[i][p] = v

(* What the next report says of p is what the list knows of it; without a  *)
(* report to come, the ACS knows it already.                               *)
Current(p) ==
    IF p \in DOMAIN staged THEN known[p] = staged[p]
    ELSE IF p \in DOMAIN changes THEN changes[p] = known[p]
    ELSE IF p \in Named(Waiting) THEN Says(Waiting, p, known[p])
    ELSE IF p \in Named(sent) THEN Says(sent, p, known[p])
    ELSE known[p] = told[p]
Carried == \A p \in Full \ odd : Current(p)

(* A change with active notification has a session, or is about to get it. *)
ActiveChange == \E p \in DOMAIN changes : Attribute[p] = 2
Started ==
    ActiveChange => \/ head # NoSession \/ npc = "add"
                    \/ npc = "compare" /\ active

NoteInv == NoteTypeOK /\ Stages /\ Heard /\ Awake /\ Carried /\ Started

-----------------------------------------------------------------------------
(* Lists of changes.                                                       *)
LEMMA EmptyLists ==
    /\ EmptyList \in Lists /\ DOMAIN EmptyList = {} /\ Named(<<>>) = {}
    /\ <<>> \in Seq(Lists)
<1>1. DOMAIN EmptyList = {} /\ EmptyList = [p \in {} |-> p]
  BY DEF EmptyList
<1>2. EmptyList \in [{} -> ParamValue]
  BY <1>1
<1>3. Named(<<>>) = {}
  BY DEF Named
<1> QED
  BY <1>1, <1>2, <1>3 DEF Lists

LEMMA ExtendedList ==
    ASSUME NEW c \in Lists, NEW p \in Param, NEW v \in ParamValue
    PROVE  /\ add_dm_parameter_tolist(c, p, v) \in Lists
           /\ DOMAIN add_dm_parameter_tolist(c, p, v) = DOMAIN c \union {p}
           /\ add_dm_parameter_tolist(c, p, v)[p] = v
           /\ \A q \in DOMAIN c \ {p} : add_dm_parameter_tolist(c, p, v)[q] = c[q]
<1>1. PICK S \in SUBSET Param : c \in [S -> ParamValue]
  BY DEF Lists
<1>2. add_dm_parameter_tolist(c, p, v) \in [S \union {p} -> ParamValue]
  BY <1>1 DEF add_dm_parameter_tolist
<1> QED
  BY <1>1, <1>2 DEF add_dm_parameter_tolist, Lists

(* The list of the event comes before those the event has: these keep the  *)
(* last word.                                                              *)
LEMMA PutBefore ==
    ASSUME NEW c \in Lists, NEW W \in Seq(Lists)
    PROVE  /\ <<c>> \o W \in Seq(Lists)
           /\ Named(<<c>> \o W) = DOMAIN c \union Named(W)
           /\ \A p, v : Says(W, p, v) => Says(<<c>> \o W, p, v)
           /\ \A p \in DOMAIN c \ Named(W) : Says(<<c>> \o W, p, c[p])
<1> DEFINE both == <<c>> \o W
<1>1. /\ both \in Seq(Lists) /\ Len(both) = Len(W) + 1 /\ Len(W) \in Nat
      /\ DOMAIN both = 1 .. Len(W) + 1 /\ DOMAIN W = 1 .. Len(W)
      /\ both[1] = c /\ \A i \in DOMAIN W : both[i + 1] = W[i]
  OBVIOUS
<1>2. \A i \in DOMAIN both : i = 1 \/ (i - 1 \in DOMAIN W /\ both[i] = W[i - 1])
  BY <1>1
<1> HIDE DEF both
<1>3. Named(both) = DOMAIN c \union Named(W)
  <2>1. ASSUME NEW p \in Named(both) PROVE p \in DOMAIN c \union Named(W)
    BY <1>1, <1>2, <2>1 DEF Named
  <2>2. ASSUME NEW p \in Named(W) PROVE p \in Named(both)
    <3>1. PICK i \in DOMAIN W : p \in DOMAIN W[i]
      BY <2>2 DEF Named
    <3>2. i + 1 \in DOMAIN both /\ p \in DOMAIN both[i + 1]
      BY <1>1, <3>1
    <3> QED
      BY <3>2 DEF Named
  <2>3. DOMAIN c \subseteq Named(both)
    BY <1>1 DEF Named
  <2> QED
    BY <2>1, <2>2, <2>3
<1>4. ASSUME NEW p, NEW v, Says(W, p, v) PROVE Says(both, p, v)
  <2>1. PICK i \in DOMAIN W : LastAt(W, p, i) /\ W[i][p] = v
    BY <1>4 DEF Says
  <2>2. LastAt(both, p, i + 1)
    BY <1>1, <1>2, <2>1 DEF LastAt
  <2> QED
    BY <1>1, <2>1, <2>2 DEF Says
<1>5. ASSUME NEW p \in DOMAIN c \ Named(W) PROVE Says(both, p, c[p])
  <2>1. LastAt(both, p, 1)
    BY <1>1, <1>2 DEF LastAt, Named
  <2> QED
    BY <1>1, <2>1 DEF Says
<1> QED
  BY <1>1, <1>3, <1>4, <1>5 DEF both

LEMMA SaysReported ==
    ASSUME NEW lists \in Seq(Lists), NEW p, NEW v, Says(lists, p, v)
    PROVE  p \in Named(lists) /\ Reported(lists, p) = v
<1>1. PICK i \in DOMAIN lists : LastAt(lists, p, i) /\ lists[i][p] = v
  BY DEF Says
<1>2. \A j \in DOMAIN lists : LastAt(lists, p, j) => j = i
  BY <1>1 DEF LastAt
<1>3. i = CHOOSE j \in DOMAIN lists : LastAt(lists, p, j)
  BY <1>1, <1>2
<1> QED
  BY <1>1, <1>3 DEF Reported, LastAt, Named

LEMMA WaitingList ==
    /\ head = NoSession => Waiting = <<>>
    /\ \A lists : head = {lists} => Waiting = lists /\ head # NoSession
BY DEF Waiting, NoSession

-----------------------------------------------------------------------------
(* The lists of a report, told to the ACS.                                 *)
LEMMA WaitingType ==
    ASSUME NoteTypeOK
    PROVE  Waiting \in Seq(Lists) /\ (head = NoSession => Named(Waiting) = {})
BY WaitingList, EmptyLists, Zenon DEF NoteTypeOK

LEMMA NoteInitInv == Init => NoteInv
<1> SUFFICES ASSUME Init PROVE NoteInv
  OBVIOUS
<1>1. value \in [Param -> ParamValue]
  BY NoteAssumption DEF Init
<1>2. Full \subseteq Param /\ known \in [Full -> ParamValue] /\ \A p \in Full : known[p] = value[p]
  BY <1>1 DEF Init, dm_entry_enabled_notify, Full
<1>3. NoteTypeOK
  BY <1>1, <1>2, EmptyLists DEF NoteTypeOK, Init
<1>4. /\ Waiting = <<>> /\ DOMAIN changes = {} /\ Named(sent) = {} /\ Named(Waiting) = {}
      /\ DOMAIN staged = {}
  BY WaitingList, EmptyLists DEF Init
<1>5. Stages /\ Heard /\ Awake /\ Started
  BY <1>4 DEF Init, Stages, Heard, Awake, Started, ActiveChange
<1>6. Carried
  BY <1>2, <1>4 DEF Carried, Current, Init
<1> QED
  BY <1>3, <1>5, <1>6 DEF NoteInv

(* Steps that leave the lists and what they know alone.                    *)
LEMMA QuietSteps ==
    ASSUME NoteInv,
           \/ \E p \in Param, v \in ParamValue : change(p, v)
           \/ cwmp_handle_notify \/ Signal \/ thread_handle_notify \/ cwmp_add_notification
           \/ cwmp_handle_command_reload \/ UNCHANGED noteVars
    PROVE  NoteInv'
<1> USE DEF queueVars, listVars, threadVars, acsVars
<1>1. /\ UNCHANGED <<known, told, staged, changes, head, sent, spc, odd>>
      /\ value' \in [Param -> ParamValue] /\ active' \in BOOLEAN /\ todo' \subseteq Comparisons
  BY ZenonT(90) DEF change, cwmp_handle_notify, Signal, thread_handle_notify, cwmp_add_notification,
         cwmp_handle_command_reload, noteVars, NoteInv, NoteTypeOK
<1>2. NoteTypeOK' /\ Waiting' = Waiting
  BY <1>1 DEF NoteInv, NoteTypeOK, Waiting
<1>3. Carried'
  BY <1>1, <1>2 DEF NoteInv, Carried, Current
<1>4. CASE cwmp_add_notification
  <2>1. \A p \in Full : <<"full", p>> \in todo'
    BY <1>4 DEF cwmp_add_notification, Comparisons
  <2>2. Awake'
    BY <1>4 DEF Awake, cwmp_add_notification
  <2> QED
    BY <1>1, <1>2, <1>3, <1>4, <2>1, <2>2
       DEF NoteInv, Stages, Heard, Started, ActiveChange, cwmp_add_notification, SendFree
<1>5. CASE cwmp_handle_notify
  <2>1. Awake'
    BY <1>5 DEF NoteInv, Awake, cwmp_handle_notify
  <2> QED
    BY <1>1, <1>2, <1>3, <1>5, <2>1
       DEF NoteInv, Stages, Heard, Started, ActiveChange, cwmp_handle_notify
<1>6. CASE \/ \E p \in Param, v \in ParamValue : change(p, v)
           \/ Signal \/ thread_handle_notify \/ cwmp_handle_command_reload \/ UNCHANGED noteVars
  <2>1. /\ UNCHANGED <<count, said, todo, active>>
        /\ npc' = npc \/ (npc \notin {"compare", "add"} /\ npc' \notin {"compare", "add"})
    BY <1>6 DEF change, Signal, thread_handle_notify, cwmp_handle_command_reload, noteVars
  <2>2. Awake'
    <3>1. CASE Signal
      BY <3>1 DEF NoteInv, Awake, Signal
    <3>2. CASE thread_handle_notify
      BY <3>2 DEF NoteInv, Awake, thread_handle_notify
    <3>3. CASE ~Signal /\ ~thread_handle_notify
      BY <1>6, <3>3 DEF NoteInv, Awake, change, cwmp_handle_command_reload, noteVars
    <3> QED
      BY <3>1, <3>2, <3>3
  <2> QED
    BY <1>1, <1>2, <1>3, <2>1, <2>2 DEF NoteInv, Stages, Heard, Started, ActiveChange
<1> QED
  BY <1>4, <1>5, <1>6

(* The thread compares, and adds its event to the queued session.          *)
LEMMA CompareFullInv ==
    ASSUME NoteInv, NEW p \in Param, compare_full(p)
    PROVE  NoteInv'
<1> USE DEF acsVars
<1>1. /\ UNCHANGED <<value, told, staged, head, sent, spc, npc, count, bell, lost>>
      /\ npc = "compare" /\ spc = "none" /\ staged = EmptyList /\ DOMAIN staged = {}
      /\ todo' = todo \ {<<"full", p>>} /\ said' = said \ {p}
  BY EmptyLists DEF compare_full, NoteInv, Stages, NoteTypeOK
<1>2. Waiting' = Waiting
  BY <1>1 DEF Waiting
<1>3. Stages' /\ Heard' /\ Awake'
  BY <1>1 DEF NoteInv, Stages, Heard, Awake
<1>4. CASE value[p] = known[p]
  <2>1. UNCHANGED <<known, changes, active, odd>>
    BY <1>4 DEF compare_full
  <2> QED
    BY <1>1, <1>2, <1>3, <2>1
       DEF NoteInv, NoteTypeOK, Carried, Current, Started, ActiveChange
<1>5. CASE value[p] # known[p] /\ p \in Full
  <2>1. /\ changes' = add_dm_parameter_tolist(changes, p, value[p])
        /\ active' = (active \/ Attribute[p] = 2) /\ odd' = odd \ {p}
        /\ known' = [known EXCEPT ![p] = value[p]] /\ value[p] \in ParamValue
    BY <1>5 DEF compare_full, NoteInv, NoteTypeOK
  <2>2. /\ changes' \in Lists /\ DOMAIN changes' = DOMAIN changes \union {p}
        /\ changes'[p] = value[p] /\ \A q \in DOMAIN changes \ {p} : changes'[q] = changes[q]
    <3>1. changes \in Lists
      BY DEF NoteInv, NoteTypeOK
    <3> DEFINE e == add_dm_parameter_tolist(changes, p, value[p])
    <3>2. value[p] \in ParamValue
      BY <2>1
    <3>3. /\ e \in Lists /\ DOMAIN e = DOMAIN changes \union {p}
          /\ e[p] = value[p] /\ \A q \in DOMAIN changes \ {p} : e[q] = changes[q]
      BY <3>1, <3>2, ExtendedList
    <3> QED
      BY <2>1, <3>3, Zenon
  <2>3. NoteTypeOK'
    BY <1>1, <2>1, <2>2 DEF NoteInv, NoteTypeOK
  <2>4. Carried'
    <3>1. ASSUME NEW q \in Full \ odd', q # p PROVE Current(q)'
      BY <1>1, <1>2, <2>1, <2>2, <3>1 DEF NoteInv, NoteTypeOK, Carried, Current
    <3>2. Current(p)'
      BY <1>1, <1>5, <2>1, <2>2 DEF NoteInv, NoteTypeOK, Current
    <3> QED
      BY <3>1, <3>2 DEF Carried
  <2>5. active \in BOOLEAN /\ (active => active') /\ (Attribute[p] = 2 => active')
    BY <2>1, Zenon DEF NoteInv, NoteTypeOK
  <2>6. Started'
    BY <1>1, <2>2, <2>5 DEF NoteInv, Started, ActiveChange
  <2> QED
    BY <1>3, <2>3, <2>4, <2>6 DEF NoteInv
<1>6. p \in Full
  BY DEF compare_full, NoteInv, NoteTypeOK, Comparisons
<1> QED
  BY <1>4, <1>5, <1>6

LEMMA OtherCompareInv ==
    ASSUME NoteInv,
           (\E p \in Param : compare_light(p)) \/ compared \/ add_value_change \/ other_event
    PROVE  NoteInv'
<1> USE DEF queueVars, listVars, threadVars, acsVars
<1>1. UNCHANGED <<value, known, told, staged, changes, sent, spc, odd, active, count, bell, lost, said>>
  BY DEF compare_light, compared, cwmp_lwnotification, add_value_change, other_event
<1>2. /\ Waiting \in Seq(Lists) /\ Waiting' = Waiting
      /\ head' = head \/ head' = {Waiting}
      /\ head # NoSession => head' # NoSession
  <2>1. head' = head \/ (head = NoSession /\ head' = {<<>>}) \/ head' = {Waiting}
    BY DEF compare_light, compared, cwmp_lwnotification, add_value_change, other_event
  <2>2. Waiting \in Seq(Lists) /\ (head = NoSession => Waiting = <<>>)
    BY WaitingType, WaitingList DEF NoteInv
  <2>3. (\A l : head' = {l} => Waiting' = l) /\ (head' = head => Waiting' = Waiting)
    <3>1. ASSUME NEW l, head' = {l} PROVE Waiting' = l
      BY <3>1 DEF Waiting, NoSession
    <3>2. head' = head => Waiting' = Waiting
      BY DEF Waiting
    <3> QED
      BY <3>1, <3>2
  <2> QED
    BY <2>1, <2>2, <2>3 DEF NoSession
<1>3. NoteTypeOK'
  <2>1. todo' \subseteq todo
    BY DEF compare_light, compared, cwmp_lwnotification, add_value_change, other_event
  <2> QED
    BY <1>1, <1>2, <2>1 DEF NoteInv, NoteTypeOK
<1>4. Carried'
  BY <1>1, <1>2 DEF NoteInv, Carried, Current
<1>a. Awake'
  BY <1>1 DEF NoteInv, Awake, compare_light, compared, add_value_change, other_event
<1>5. CASE \E p \in Param : compare_light(p)
  <2>1. /\ npc' = npc /\ head' = head
        /\ \A p \in Full : <<"full", p>> \in todo => <<"full", p>> \in todo'
    <3>1. PICK p \in Param : compare_light(p)
      BY <1>5
    <3>2. todo' = {} \/ todo' = todo \ {<<"light", p>>}
      BY <3>1 DEF compare_light
    <3>3. \A q \in Full : <<"full", q>> \notin todo
      BY <3>1 DEF compare_light
    <3> QED
      BY <3>1, <3>2, <3>3 DEF compare_light
  <2> QED
    BY <1>1, <1>2, <1>3, <1>4, <1>a, <2>1 DEF NoteInv, Stages, Heard, Started, ActiveChange
<1>6. CASE compared
  BY <1>1, <1>2, <1>3, <1>4, <1>6, <1>a
     DEF NoteInv, Stages, Heard, Started, ActiveChange, compared, cwmp_lwnotification
<1>7. CASE add_value_change \/ other_event
  <2>1. /\ head' # NoSession /\ todo' = todo
        /\ npc' = npc \/ (npc = "add" /\ npc' = "woken")
    BY <1>7 DEF add_value_change, other_event, NoSession
  <2> QED
    BY <1>1, <1>2, <1>3, <1>4, <1>a, <2>1 DEF NoteInv, Stages, Heard, Started, ActiveChange
<1> QED
  BY <1>5, <1>6, <1>7

-----------------------------------------------------------------------------
(* A session takes the lists, reports them, and ends.                      *)
LEMMA ScheduleInv ==
    ASSUME NoteInv, cwmp_schedule_session
    PROVE  NoteInv'
<1>1. /\ UNCHANGED <<value, known, told, staged, npc, todo, active, count, bell, lost, said>>
      /\ spc = "none" /\ npc # "compare" /\ spc' = "inform"
      /\ changes' = EmptyList /\ head' = NoSession
      /\ odd' = odd \union (DOMAIN changes \intersect Named(Waiting))
      /\ sent' = IF changes = EmptyList THEN Waiting ELSE <<changes>> \o Waiting
  BY DEF cwmp_schedule_session, SendFree, listVars, threadVars, acsVars
<1>2. /\ Waiting \in Seq(Lists) /\ changes \in Lists
      /\ sent = <<>> /\ Named(sent) = {} /\ DOMAIN EmptyList = {} /\ EmptyList \in Lists
      /\ staged = EmptyList /\ DOMAIN staged = {}
  BY <1>1, WaitingType, EmptyLists DEF NoteInv, NoteTypeOK, Stages
<1>3. Waiting' = <<>> /\ Named(Waiting') = {}
  BY <1>1, EmptyLists DEF Waiting
<1>4. /\ sent' \in Seq(Lists) /\ Named(sent') = DOMAIN changes \union Named(Waiting)
      /\ \A p, v : Says(Waiting, p, v) => Says(sent', p, v)
      /\ \A p \in DOMAIN changes \ Named(Waiting) : Says(sent', p, changes[p])
  <2>1. CASE changes = EmptyList
    BY <1>1, <1>2, <2>1, Zenon
  <2>2. CASE changes # EmptyList
    BY <1>1, <1>2, <2>2, PutBefore, Zenon
  <2> QED
    BY <2>1, <2>2
<1>5. NoteTypeOK'
  BY <1>1, <1>2, <1>4 DEF NoteInv, NoteTypeOK
<1>6. Stages' /\ Heard' /\ Awake'
  BY <1>1, <1>2, <1>3 DEF NoteInv, Stages, Heard, Awake
<1>7. Carried'
  <2> SUFFICES ASSUME NEW p \in Full \ odd' PROVE Current(p)'
    BY DEF Carried
  <2>1. Current(p) /\ ~(p \in DOMAIN changes /\ p \in Named(Waiting)) /\ p \notin DOMAIN changes'
    BY <1>1, <1>2 DEF NoteInv, Carried
  <2>2. p \in Named(sent') => Says(sent', p, known[p])
    BY <1>2, <1>4, <2>1 DEF Current
  <2>3. p \notin Named(sent') => known[p] = told[p]
    BY <1>2, <1>4, <2>1 DEF Current
  <2> QED
    BY <1>1, <1>3, <2>1, <2>2, <2>3 DEF Current
<1>8. Started'
  BY <1>1, <1>2 DEF Started, ActiveChange
<1> QED
  BY <1>5, <1>6, <1>7, <1>8 DEF NoteInv

LEMMA InformResponseInv ==
    ASSUME NoteInv, cwmp_handle_inform_response
    PROVE  NoteInv'
<1>1. /\ UNCHANGED <<value, known, staged, changes, head, npc, todo, active, count, bell, lost, said, odd>>
      /\ spc = "inform" /\ spc' = "rpcs" /\ sent' = <<>>
      /\ told' = [p \in Param |-> IF p \in Named(sent) THEN Reported(sent, p) ELSE told[p]]
  BY DEF cwmp_handle_inform_response, listVars, threadVars
<1>2. /\ changes = EmptyList /\ Waiting = <<>> /\ Waiting' = <<>>
      /\ DOMAIN changes = {} /\ Named(<<>>) = {} /\ DOMAIN staged = {}
  BY <1>1, EmptyLists DEF NoteInv, Stages, Waiting
<1>3. Carried'
  <2> SUFFICES ASSUME NEW p \in Full \ odd PROVE Current(p)'
    BY <1>1 DEF Carried
  <2>1. Current(p) /\ p \in Param
    BY DEF NoteInv, Carried, Full
  <2>2. p \in Named(sent) => Says(sent, p, known[p])
    BY <1>2, <2>1 DEF Current
  <2>3. p \in Named(sent) => Reported(sent, p) = known[p]
    BY <2>2, SaysReported DEF NoteInv, NoteTypeOK
  <2>4. told'[p] = known[p]
    BY <1>1, <1>2, <2>1, <2>3 DEF Current
  <2> QED
    BY <1>1, <1>2, <2>4 DEF Current
<1>4. NoteTypeOK'
  BY <1>1, EmptyLists DEF NoteInv, NoteTypeOK
<1> QED
  BY <1>1, <1>2, <1>3, <1>4 DEF NoteInv, Stages, Heard, Awake, Started, ActiveChange

LEMMA SetByAcsInv ==
    ASSUME NoteInv, NEW p \in Param, NEW v \in ParamValue, dm_update_enabled_notify_byname(p, v)
    PROVE  NoteInv'
<1>1. /\ UNCHANGED <<value, told, changes, head, sent, spc, npc, todo, active, count, bell, lost, said, odd>>
      /\ spc = "rpcs" /\ staged' = add_dm_parameter_tolist(staged, p, v)
      /\ known' = IF p \in Full THEN [known EXCEPT ![p] = v] ELSE known
  BY DEF dm_update_enabled_notify_byname, queueVars, threadVars
<1>2. Waiting' = Waiting
  BY <1>1 DEF Waiting
<1>3. /\ staged' \in Lists /\ DOMAIN staged' = DOMAIN staged \union {p}
      /\ staged'[p] = v /\ \A q \in DOMAIN staged \ {p} : staged'[q] = staged[q]
  <2>1. staged \in Lists
    BY DEF NoteInv, NoteTypeOK
  <2> DEFINE e == add_dm_parameter_tolist(staged, p, v)
  <2>2. /\ e \in Lists /\ DOMAIN e = DOMAIN staged \union {p}
        /\ e[p] = v /\ \A q \in DOMAIN staged \ {p} : e[q] = staged[q]
    BY <2>1, ExtendedList
  <2> QED
    BY <1>1, <2>2, Zenon
<1>4. NoteTypeOK'
  BY <1>1, <1>3 DEF NoteInv, NoteTypeOK
<1>5. Carried'
  <2> SUFFICES ASSUME NEW q \in Full \ odd PROVE Current(q)'
    BY <1>1 DEF Carried
  <2>1. Current(q)
    BY DEF NoteInv, Carried
  <2>2. CASE q = p
    BY <1>1, <1>3, <2>2 DEF NoteInv, NoteTypeOK, Current
  <2>3. CASE q # p
    BY <1>1, <1>2, <1>3, <2>1, <2>3 DEF NoteInv, NoteTypeOK, Current
  <2> QED
    BY <2>2, <2>3
<1> QED
  BY <1>1, <1>2, <1>4, <1>5 DEF NoteInv, Stages, Heard, Awake, Started, ActiveChange

LEMMA ApplyInv ==
    ASSUME NoteInv, dm_entry_apply_commit \/ dm_entry_apply_revert
    PROVE  NoteInv'
<1> USE DEF queueVars, listVars, threadVars
<1>1. /\ UNCHANGED <<known, changes, head, sent, spc, npc, todo, active, count, bell, lost, said>>
      /\ staged' = EmptyList /\ staged # EmptyList /\ spc = "rpcs"
      /\ odd \subseteq odd' /\ DOMAIN told' = Param
  BY DEF dm_entry_apply_commit, dm_entry_apply_revert, NoteInv, NoteTypeOK, Stages
<1>2. /\ DOMAIN changes = {} /\ Waiting = <<>> /\ sent = <<>> /\ Named(<<>>) = {}
      /\ Waiting' = Waiting /\ DOMAIN staged' = {} /\ staged' \in Lists
  BY <1>1, EmptyLists DEF NoteInv, Stages, Waiting
<1>3. PICK S \in SUBSET Param : staged \in [S -> ParamValue]
  BY DEF NoteInv, NoteTypeOK, Lists
<1>4. value' \in [Param -> ParamValue]
  <2>1. CASE dm_entry_apply_commit
    BY <1>3, <2>1 DEF dm_entry_apply_commit, NoteInv, NoteTypeOK
  <2>2. CASE dm_entry_apply_revert
    BY <2>2 DEF dm_entry_apply_revert, NoteInv, NoteTypeOK
  <2> QED
    BY <2>1, <2>2
<1>5. NoteTypeOK'
  BY <1>1, <1>2, <1>4 DEF NoteInv, NoteTypeOK
<1>6. Carried'
  <2> SUFFICES ASSUME NEW p \in Full \ odd' PROVE known[p] = told'[p]
    BY <1>1, <1>2 DEF Carried, Current
  <2>1. Current(p) /\ p \in Param
    BY <1>1 DEF NoteInv, Carried, Full
  <2>2. IF p \in DOMAIN staged THEN known[p] = staged[p] ELSE known[p] = told[p]
    BY <1>2, <2>1 DEF Current
  <2>3. CASE dm_entry_apply_commit
    BY <2>1, <2>2, <2>3 DEF dm_entry_apply_commit
  <2>4. CASE dm_entry_apply_revert
    BY <2>1, <2>2, <2>4 DEF dm_entry_apply_revert
  <2> QED
    BY <2>3, <2>4
<1> QED
  BY <1>1, <1>2, <1>5, <1>6 DEF NoteInv, Stages, Heard, Awake, Started, ActiveChange

(* What the lists are loaded with is odd where it differs.                 *)
LEMMA ListsLoad ==
    ASSUME NoteTypeOK, ListsLoaded
    PROVE  /\ known' \in [Full -> ParamValue] /\ odd \subseteq odd' /\ said' = {}
           /\ \A p \in Full \ odd' : known'[p] = known[p]
<1>1. Full \subseteq Param /\ value \in [Param -> ParamValue]
  BY DEF Full, NoteTypeOK
<1>2. /\ known' = [p \in Full |-> value[p]] /\ said' = {}
      /\ odd' = odd \union {p \in Full : known[p] # value[p]}
  BY DEF ListsLoaded, dm_entry_enabled_notify
<1> QED
  BY <1>1, <1>2

LEMMA ReloadInv ==
    ASSUME NoteInv, cwmp_config_reloaded
    PROVE  NoteInv'
<1>1. /\ UNCHANGED <<value, told, staged, changes, head, sent, spc, npc, active, count, bell, lost>>
  BY DEF cwmp_config_reloaded, queueVars, acsVars
<1>t. todo' \subseteq Comparisons
  <2>1. todo' \subseteq todo
    BY DEF cwmp_config_reloaded
  <2> QED
    BY <2>1 DEF NoteInv, NoteTypeOK
<1>2. /\ known' \in [Full -> ParamValue] /\ odd \subseteq odd' /\ said' = {}
      /\ \A p \in Full \ odd' : known'[p] = known[p]
  <2>1. ListsLoaded
    BY DEF cwmp_config_reloaded
  <2> QED
    BY <2>1, ListsLoad DEF NoteInv
<1>3. Waiting' = Waiting
  BY <1>1 DEF Waiting
<1>4. NoteTypeOK'
  BY <1>1, <1>2, <1>t DEF NoteInv, NoteTypeOK
<1>5. Carried'
  <2> SUFFICES ASSUME NEW p \in Full \ odd' PROVE Current(p)'
    BY DEF Carried
  <2>1. Current(p) /\ known'[p] = known[p]
    BY <1>2 DEF NoteInv, Carried
  <2> QED
    BY <1>1, <1>3, <2>1 DEF Current
<1>6. Heard'
  BY <1>2 DEF Heard
<1> QED
  BY <1>1, <1>3, <1>4, <1>5, <1>6 DEF NoteInv, Stages, Awake, Started, ActiveChange

LEMMA EndSessionInv ==
    ASSUME NoteInv, NEW retry \in BOOLEAN, NEW reload \in BOOLEAN, end_session(retry, reload)
    PROVE  NoteInv'
<1>1. /\ UNCHANGED <<value, told, staged, changes, npc, todo, active, count, bell, lost>>
      /\ staged = EmptyList
      /\ spc # "none" /\ spc' = "none" /\ sent' = <<>>
      /\ head' = IF retry THEN {Requeued} ELSE head
      /\ ~retry => spc = "rpcs"
  BY DEF end_session, threadVars, acsVars
<1>2. /\ DOMAIN changes = {} /\ Waiting = <<>> /\ Named(<<>>) = {} /\ <<>> \in Seq(Lists)
      /\ DOMAIN staged = {}
      /\ ~retry => sent = <<>>
      /\ npc # "compare"
  BY <1>1, EmptyLists DEF NoteInv, Stages
<1>3. sent \in Seq(Lists) /\ Waiting' = sent
  <2>1. sent \in Seq(Lists) /\ Requeued = sent
    BY <1>2 DEF Requeued, NoteInv, NoteTypeOK
  <2>2. CASE retry
    BY <1>1, <2>1, <2>2 DEF Waiting, NoSession
  <2>3. CASE ~retry
    BY <1>1, <1>2, <2>1, <2>3 DEF Waiting
  <2> QED
    BY <2>1, <2>2, <2>3
<1>4. head' = head \/ head' = {sent}
  BY <1>1, <1>2 DEF Requeued, NoteInv, NoteTypeOK
<1>5. /\ known' \in [Full -> ParamValue] /\ odd \subseteq odd' /\ said' \subseteq said
      /\ \A p \in Full \ odd' : known'[p] = known[p]
  <2>1. CASE reload
    <3>1. ListsLoaded
      BY <2>1 DEF end_session
    <3> QED
      BY <3>1, ListsLoad DEF NoteInv
  <2>2. CASE ~reload
    BY <2>2 DEF end_session, NoteInv, NoteTypeOK
  <2> QED
    BY <2>1, <2>2
<1>6. NoteTypeOK'
  BY <1>1, <1>2, <1>3, <1>4, <1>5 DEF NoteInv, NoteTypeOK
<1>7. Carried'
  <2> SUFFICES ASSUME NEW p \in Full \ odd' PROVE Current(p)'
    BY DEF Carried
  <2>1. Current(p) /\ known'[p] = known[p]
    BY <1>5 DEF NoteInv, Carried
  <2> QED
    BY <1>1, <1>2, <1>3, <2>1 DEF Current
<1>8. Heard' /\ Awake'
  BY <1>1, <1>2, <1>5 DEF NoteInv, Heard, Awake
<1> QED
  BY <1>1, <1>2, <1>6, <1>7, <1>8 DEF NoteInv, Stages, Started, ActiveChange

-----------------------------------------------------------------------------
LEMMA NoteNextInv == NoteInv /\ [Next]_noteVars => NoteInv'
<1> SUFFICES ASSUME NoteInv, [Next]_noteVars PROVE NoteInv'
  OBVIOUS
<1> QED
  BY QuietSteps, CompareFullInv, OtherCompareInv, ScheduleInv, InformResponseInv, SetByAcsInv,
     ApplyInv, ReloadInv, EndSessionInv DEF Next

(* What the invariant says of the changes, in the words of the property:   *)
(* what the list knows and the ACS does not is on its way.                 *)
LEMMA NoteInvReports == NoteInv => ChangesReported
<1> SUFFICES ASSUME NoteInv PROVE ChangesReported
  OBVIOUS
<1>1. AnnouncedSeen
  BY DEF NoteInv, Heard, Awake, AnnouncedSeen
<1>2. NothingForgotten
  BY DEF NoteInv, Carried, Current, NothingForgotten, Pending
<1>3. ActiveStarts
  BY DEF NoteInv, Started, ActiveChange, ActiveStarts
<1> QED
  BY <1>1, <1>2, <1>3 DEF ChangesReported

(* Every change that is announced is looked at, every change the thread    *)
(* has noticed is reported by some session, and an active one starts it,   *)
(* whatever fails and however the changes, the thread, the sessions, their *)
(* SetParameterValues and the reloads of the lists interleave, except for  *)
(* what the properties name: a lost signal, and what a reload, a failed    *)
(* SetParameterValues or an older report makes odd (thread_handle_notify,  *)
(* cwmp_prepare_value_change, cwmp_move_session_to_session_queue,          *)
(* dm_entry_apply, cwmp_handle_command).                                   *)
THEOREM ChangesAlwaysReported == Spec => []ChangesReported
<1>1. Init => NoteInv
  BY NoteInitInv
<1>2. NoteInv /\ [Next]_noteVars => NoteInv'
  BY NoteNextInv
<1>3. NoteInv => ChangesReported
  BY NoteInvReports
<1> QED
  BY <1>1, <1>2, <1>3, PTL DEF Spec

-----------------------------------------------------------------------------
(***************************************************************************)
(* Connection requests over HTTP.                                          *)
(***************************************************************************)
Arrival == [at : Nat, available : BOOLEAN]

(* The types of the variables; no client comes from the future.            *)
RequestTypeOK ==
    /\ now \in Nat \ {0} /\ restrict_start_time \in Nat /\ cr_request \in Nat
    /\ client \in {Idle, <<TRUE>>, <<FALSE>>} /\ events \in Nat
    /\ arrivals \in Seq(Arrival)
    /\ restrict_start_time <= now
    /\ \A i \in DOMAIN arrivals : arrivals[i].at <= now

(* The clients that were served since t, and in the period before it.      *)
ServedFrom(t) == {i \in Accepted : arrivals[i].at >= t}
ServedBefore(t) == {i \in Accepted : arrivals[i].at < t /\ arrivals[i].at + RESTRICT_PERIOD >= t}

(* Before the first client there is no period.                             *)
NoPeriod == restrict_start_time = 0 => arrivals = <<>> /\ cr_request = 0

(* In a period in which nobody was refused the counter is the number of    *)
(* clients that were served; those of the period before are a full count   *)
(* at most, and no refusal is as near as that.                             *)
Counting ==
    restrict_start_time # 0 /\ cr_request <= RESTRICT_REQUEST =>
        /\ \A i \in DOMAIN arrivals :
              /\ arrivals[i].at <= restrict_start_time + RESTRICT_PERIOD
              /\ ~arrivals[i].available => arrivals[i].at + RESTRICT_PERIOD < restrict_start_time
        /\ Cardinality(ServedFrom(restrict_start_time)) = cr_request
        /\ Cardinality(ServedBefore(restrict_start_time)) <= RESTRICT_REQUEST

(* Once one was refused the period begins with the last refusal.           *)
Refusing ==
    cr_request > RESTRICT_REQUEST =>
        /\ \E i \in DOMAIN arrivals : ~arrivals[i].available /\ arrivals[i].at = restrict_start_time
        /\ \A i \in DOMAIN arrivals : arrivals[i].at <= restrict_start_time

(* A client that is being served has raised no event yet.                  *)
Owed == events + (IF client = <<TRUE>> THEN 1 ELSE 0) <= Cardinality(Accepted)

RequestInv == RequestTypeOK /\ NoPeriod /\ Counting /\ Refusing /\ Owed /\ RestrictionHolds

-----------------------------------------------------------------------------
LEMMA AcceptedFinite ==
    ASSUME arrivals \in Seq(Arrival)
    PROVE  /\ Len(arrivals) \in Nat /\ DOMAIN arrivals = 1 .. Len(arrivals)
           /\ \A i \in DOMAIN arrivals : arrivals[i] \in Arrival
           /\ IsFiniteSet(DOMAIN arrivals)
           /\ \A S \in SUBSET DOMAIN arrivals :
                 IsFiniteSet(S) /\ Cardinality(S) \in Nat
           /\ \A S \in SUBSET DOMAIN arrivals : \A T \in SUBSET S :
                 Cardinality(T) <= Cardinality(S)
<1>1. /\ Len(arrivals) \in Nat /\ DOMAIN arrivals = 1 .. Len(arrivals)
      /\ \A i \in DOMAIN arrivals : arrivals[i] \in Arrival
  BY LenProperties, ElementOfSeq
<1>2. IsFiniteSet(DOMAIN arrivals)
  BY <1>1, FS_Interval
<1>3. \A S \in SUBSET DOMAIN arrivals : IsFiniteSet(S) /\ Cardinality(S) \in Nat
  BY <1>2, FS_Subset, FS_CardinalityType
<1>4. \A S \in SUBSET DOMAIN arrivals : \A T \in SUBSET S : Cardinality(T) <= Cardinality(S)
  BY <1>3, FS_Subset
<1> QED
  BY <1>1, <1>2, <1>3, <1>4

(* One more client: those of before keep their places.                     *)
LEMMA OneMore ==
    ASSUME arrivals \in Seq(Arrival), NEW a \in Arrival, arrivals' = Append(arrivals, a)
    PROVE  /\ arrivals' \in Seq(Arrival)
           /\ DOMAIN arrivals' = DOMAIN arrivals \union {Len(arrivals) + 1}
           /\ Len(arrivals) + 1 \notin DOMAIN arrivals
           /\ \A i \in DOMAIN arrivals : arrivals'[i] = arrivals[i]
           /\ arrivals'[Len(arrivals) + 1] = a
           /\ Accepted' = IF a.available THEN Accepted \union {Len(arrivals) + 1} ELSE Accepted
<1>1. Len(arrivals) \in Nat /\ DOMAIN arrivals = 1 .. Len(arrivals)
  BY AcceptedFinite
<1>2. /\ arrivals' \in Seq(Arrival) /\ Len(arrivals') = Len(arrivals) + 1
      /\ \A i \in 1 .. Len(arrivals) : arrivals'[i] = arrivals[i]
      /\ arrivals'[Len(arrivals) + 1] = a
  BY AppendProperties
<1>3. DOMAIN arrivals' = 1 .. Len(arrivals) + 1
  BY <1>2, LenProperties
<1>4. /\ DOMAIN arrivals' = DOMAIN arrivals \union {Len(arrivals) + 1}
      /\ Len(arrivals) + 1 \notin DOMAIN arrivals
  BY <1>1, <1>3
<1> QED
  BY <1>1, <1>2, <1>4 DEF Accepted

(* What RestrictionHolds says of one client.                               *)
Before(i) == Recent(1 .. (i - 1), arrivals[i].at)
Treated(i) ==
    IF i \in Accepted
    THEN Before(i) \ Accepted = {} /\ Cardinality(Before(i) \intersect Accepted) < 2 * RESTRICT_REQUEST
    ELSE Before(i) \ Accepted # {} \/ Cardinality(Before(i)) >= RESTRICT_REQUEST

LEMMA RestrictionIsTreatment ==
    RestrictionHolds <=> events <= Cardinality(Accepted) /\ \A i \in DOMAIN arrivals : Treated(i)
BY DEF RestrictionHolds, Treated, Before

LEMMA StillTreated ==
    ASSUME arrivals \in Seq(Arrival), NEW a \in Arrival, arrivals' = Append(arrivals, a),
           NEW i \in DOMAIN arrivals, Treated(i)
    PROVE  Treated(i)'
<1>1. /\ \A j \in DOMAIN arrivals : arrivals'[j] = arrivals[j]
      /\ \A j \in DOMAIN arrivals : j \in Accepted' <=> j \in Accepted
  BY OneMore
<1>2. 1 .. (i - 1) \subseteq DOMAIN arrivals
  BY AcceptedFinite
<1>3. Before(i)' = Before(i)
  BY <1>1, <1>2 DEF Before, Recent
<1>4. Before(i) \subseteq DOMAIN arrivals
  BY <1>2 DEF Before, Recent
<1>5. /\ Before(i) \ Accepted' = Before(i) \ Accepted
      /\ Before(i) \intersect Accepted' = Before(i) \intersect Accepted
      /\ i \in Accepted' <=> i \in Accepted
  BY <1>1, <1>4
<1> QED
  BY <1>3, <1>5, Zenon DEF Treated

-----------------------------------------------------------------------------
LEMMA RequestInitInv == RequestInit => RequestInv
<1> SUFFICES ASSUME RequestInit PROVE RequestInv
  OBVIOUS
<1>1. RequestTypeOK
  BY DEF RequestInit, RequestTypeOK, Idle
<1>2. Accepted = {} /\ Cardinality(Accepted) = 0
  BY FS_EmptySet DEF RequestInit, Accepted
<1>3. RestrictionHolds
  BY <1>2 DEF RequestInit, RestrictionHolds
<1> QED
  BY <1>1, <1>2, <1>3, RestrictAssumption DEF RequestInit, RequestInv, NoPeriod, Counting, Refusing, Owed, Idle

(* A client that comes.  It is served in a new period, or while the counter *)
(* is below the limit.                                                     *)
Came(available) ==
    /\ client = Idle
    /\ client' = <<available>>
    /\ arrivals' = Append(arrivals, [at |-> now, available |-> available])
    /\ UNCHANGED <<now, credentials, configured, events>>

FirstOfPeriod ==
    /\ Expired /\ Came(TRUE)
    /\ cr_request' = 1 /\ restrict_start_time' = now

SamePeriod ==
    /\ ~Expired /\ cr_request < RESTRICT_REQUEST /\ Came(TRUE)
    /\ cr_request' = cr_request + 1 /\ restrict_start_time' = restrict_start_time

Refused ==
    /\ ~Expired /\ cr_request >= RESTRICT_REQUEST /\ Came(FALSE)
    /\ cr_request' = cr_request + 1 /\ restrict_start_time' = now

LEMMA ListenCases ==
    ASSUME RequestTypeOK, http_server_listen
    PROVE  FirstOfPeriod \/ SamePeriod \/ Refused
<1> DEFINE available == Expired \/ cr_request < RESTRICT_REQUEST
<1>1. /\ client = Idle /\ client' = <<available>>
      /\ arrivals' = Append(arrivals, [at |-> now, available |-> available])
      /\ UNCHANGED <<now, credentials, configured, events>>
      /\ cr_request' = IF Expired THEN 1 ELSE cr_request + 1
      /\ restrict_start_time' = IF Expired THEN now
                               ELSE IF available THEN restrict_start_time ELSE now
  BY Zenon DEF http_server_listen, RestrictFrom
<1>2. cr_request \in Nat /\ RESTRICT_REQUEST \in Nat
  BY RestrictAssumption DEF RequestTypeOK
<1>3. CASE Expired
  <2>1. available = TRUE
    BY <1>3
  <2>2. Came(TRUE)
    BY <1>1, <2>1, Zenon DEF Came
  <2> QED
    BY <1>1, <1>3, <2>2, Zenon DEF FirstOfPeriod
<1>4. CASE ~Expired /\ cr_request < RESTRICT_REQUEST
  <2>1. available = TRUE
    BY <1>4
  <2>2. Came(TRUE)
    BY <1>1, <2>1, Zenon DEF Came
  <2> QED
    BY <1>1, <1>4, <2>1, <2>2, Zenon DEF SamePeriod
<1>5. CASE ~Expired /\ ~(cr_request < RESTRICT_REQUEST)
  <2>1. available = FALSE
    BY <1>5
  <2>2. Came(FALSE)
    BY <1>1, <2>1, Zenon DEF Came
  <2>3. cr_request >= RESTRICT_REQUEST
    BY <1>2, <1>5
  <2> QED
    BY <1>1, <1>5, <2>1, <2>2, <2>3, Zenon DEF Refused
<1> QED
  BY <1>3, <1>4, <1>5

(* What every client that comes keeps.                                     *)
LEMMA CameKeeps ==
    ASSUME RequestTypeOK, Owed, NEW b \in BOOLEAN, Came(b),
           restrict_start_time' \in {restrict_start_time, now}, cr_request' \in Nat
    PROVE  RequestTypeOK' /\ Owed'
<1> DEFINE a == [at |-> now, available |-> b]
<1>1. a \in Arrival /\ arrivals \in Seq(Arrival) /\ arrivals' = Append(arrivals, a)
  BY DEF Arrival, RequestTypeOK, Came
<1> HIDE DEF a
<1>2. /\ arrivals' \in Seq(Arrival)
      /\ DOMAIN arrivals' = DOMAIN arrivals \union {Len(arrivals) + 1}
      /\ Len(arrivals) + 1 \notin DOMAIN arrivals
      /\ \A i \in DOMAIN arrivals : arrivals'[i] = arrivals[i]
      /\ arrivals'[Len(arrivals) + 1] = a
      /\ Accepted' = IF a.available THEN Accepted \union {Len(arrivals) + 1} ELSE Accepted
  BY <1>1, OneMore
<1>3. RequestTypeOK'
  <2>1. client' \in {Idle, <<TRUE>>, <<FALSE>>}
    BY Zenon DEF Came
  <2>2. /\ now' \in Nat \ {0} /\ restrict_start_time' \in Nat /\ cr_request' \in Nat
        /\ events' \in Nat /\ arrivals' \in Seq(Arrival)
        /\ restrict_start_time' <= now'
    BY <1>2 DEF RequestTypeOK, Came
  <2>3. now' = now /\ a.at = now
    BY DEF Came, a
  <2>4. \A i \in DOMAIN arrivals' : arrivals'[i].at <= now'
    BY <1>2, <2>3 DEF RequestTypeOK
  <2> QED
    BY <2>1, <2>2, <2>4, Zenon DEF RequestTypeOK, Idle
<1>4. IsFiniteSet(Accepted) /\ Cardinality(Accepted) \in Nat /\ Len(arrivals) + 1 \notin Accepted
  BY <1>1, <1>2, AcceptedFinite DEF Accepted
<1>5. Cardinality(Accepted \union {Len(arrivals) + 1}) = Cardinality(Accepted) + 1
  BY <1>4, FS_AddElement
<1>6. Owed'
  <2>1. CASE b
    BY <1>2, <1>4, <1>5, <2>1 DEF Owed, Came, a, Idle, RequestTypeOK
  <2>2. CASE ~b
    BY <1>2, <1>4, <1>5, <2>2 DEF Owed, Came, a, Idle, RequestTypeOK
  <2> QED
    BY <2>1, <2>2
<1> QED
  BY <1>3, <1>6

(* What the client that comes and those of before have to do with it.      *)
LEMMA CameFacts ==
    ASSUME RequestInv, NEW b \in BOOLEAN, Came(b), NEW n, n = Len(arrivals) + 1
    PROVE  /\ arrivals \in Seq(Arrival) /\ arrivals' \in Seq(Arrival)
           /\ DOMAIN arrivals' = DOMAIN arrivals \union {n} /\ n \notin DOMAIN arrivals
           /\ DOMAIN arrivals = 1 .. (n - 1)
           /\ \A i \in DOMAIN arrivals :
                 /\ arrivals'[i] = arrivals[i]
                 /\ arrivals[i].at \in Nat /\ arrivals[i].at <= now
                 /\ Treated(i)'
           /\ arrivals'[n].at = now /\ arrivals'[n].available = b
           /\ Accepted' = IF b THEN Accepted \union {n} ELSE Accepted
           /\ \A S \in SUBSET DOMAIN arrivals : IsFiniteSet(S) /\ Cardinality(S) \in Nat
           /\ \A S \in SUBSET DOMAIN arrivals :
                 \A T \in SUBSET S : Cardinality(T) <= Cardinality(S)
           /\ Accepted \subseteq DOMAIN arrivals
           /\ \A i \in DOMAIN arrivals : i \in Accepted <=> arrivals[i].available
           /\ Before(n)' \subseteq DOMAIN arrivals
           /\ \A j \in DOMAIN arrivals :
                 j \in Before(n)' <=> now - arrivals[j].at <= RESTRICT_PERIOD
<1> DEFINE a == [at |-> now, available |-> b]
<1>1. a \in Arrival /\ arrivals \in Seq(Arrival) /\ arrivals' = Append(arrivals, a)
  BY DEF Arrival, RequestInv, RequestTypeOK, Came
<1>2. a.at = now /\ a.available = b
  OBVIOUS
<1> HIDE DEF a
<1>3. /\ arrivals' \in Seq(Arrival)
      /\ DOMAIN arrivals' = DOMAIN arrivals \union {n} /\ n \notin DOMAIN arrivals
      /\ \A i \in DOMAIN arrivals : arrivals'[i] = arrivals[i]
      /\ arrivals'[n] = a
      /\ Accepted' = IF a.available THEN Accepted \union {n} ELSE Accepted
  BY <1>1, OneMore
<1>4. /\ DOMAIN arrivals = 1 .. (n - 1)
      /\ \A i \in DOMAIN arrivals : arrivals[i] \in Arrival
      /\ \A S \in SUBSET DOMAIN arrivals : IsFiniteSet(S) /\ Cardinality(S) \in Nat
      /\ \A S \in SUBSET DOMAIN arrivals :
            \A T \in SUBSET S : Cardinality(T) <= Cardinality(S)
  BY <1>1, AcceptedFinite
<1>5. \A i \in DOMAIN arrivals : Treated(i)'
  BY <1>1, StillTreated, RestrictionIsTreatment DEF RequestInv
<1>6. \A i \in DOMAIN arrivals : arrivals[i].at \in Nat /\ arrivals[i].at <= now
  BY <1>4 DEF RequestInv, RequestTypeOK, Arrival
<1>7. /\ Accepted \subseteq DOMAIN arrivals
      /\ \A i \in DOMAIN arrivals : i \in Accepted <=> arrivals[i].available
  BY DEF Accepted
<1>8. Before(n)' = {i \in 1 .. (n - 1) : arrivals'[i].at <= now /\ now - arrivals'[i].at <= RESTRICT_PERIOD}
  BY <1>2, <1>3 DEF Before, Recent
<1>9. \A j \in DOMAIN arrivals : j \in Before(n)' <=> now - arrivals[j].at <= RESTRICT_PERIOD
  BY <1>3, <1>4, <1>6, <1>8
<1> QED
  BY <1>1, <1>2, <1>3, <1>4, <1>5, <1>6, <1>7, <1>8, <1>9

(* When all clients are treated well and no event is raised the             *)
(* restriction holds.                                                      *)
LEMMA CameTreated ==
    ASSUME RequestInv, NEW b \in BOOLEAN, Came(b), Owed', RequestTypeOK',
           NEW n, n = Len(arrivals) + 1, Treated(n)'
    PROVE  RestrictionHolds'
<1>0. /\ DOMAIN arrivals' = DOMAIN arrivals \union {n}
      /\ \A i \in DOMAIN arrivals : Treated(i)'
      /\ Accepted' = IF b THEN Accepted \union {n} ELSE Accepted
  BY CameFacts
<1>1. \A i \in DOMAIN arrivals' : Treated(i)'
  <2> SUFFICES ASSUME NEW i \in DOMAIN arrivals' PROVE Treated(i)'
    OBVIOUS
  <2>1. CASE i \in DOMAIN arrivals
    BY <1>0, <2>1, Zenon
  <2>2. CASE i = n
    BY <2>2, Zenon
  <2> QED
    BY <1>0, <2>1, <2>2, Zenon
<1>2. IsFiniteSet(Accepted)
  BY AcceptedFinite DEF RequestInv, RequestTypeOK, Accepted
<1>3. Cardinality(Accepted') \in Nat
  <2>1. IsFiniteSet(Accepted')
    BY <1>0, <1>2, FS_AddElement, Zenon
  <2> QED
    BY <2>1, FS_CardinalityType
<1>4. events' <= Cardinality(Accepted')
  <2> DEFINE x == IF client' = <<TRUE>> THEN 1 ELSE 0
  <2>1. x \in {0, 1}
    BY Zenon
  <2>2. events' + x <= Cardinality(Accepted')
    BY Zenon DEF Owed
  <2>3. events' \in Nat
    BY DEF RequestTypeOK
  <2> HIDE DEF x
  <2> QED
    BY <1>3, <2>1, <2>2, <2>3
<1>5. RestrictionHolds' <=> events' <= Cardinality(Accepted') /\ \A i \in DOMAIN arrivals' : Treated(i)'
  BY DEF RestrictionHolds, Treated, Before
<1> QED
  BY <1>1, <1>4, <1>5, Zenon

(* A new period: whoever was counted or refused in the last one came       *)
(* longer ago than the restriction reaches.                                *)
LEMMA FirstOfPeriodInv == RequestInv /\ FirstOfPeriod => RequestInv'
<1> SUFFICES ASSUME RequestInv, FirstOfPeriod PROVE RequestInv'
  OBVIOUS
<1>n. PICK n : n = Len(arrivals) + 1
  OBVIOUS
<1>0. /\ RESTRICT_PERIOD \in Nat /\ RESTRICT_REQUEST \in Nat /\ RESTRICT_REQUEST >= 1
      /\ now \in Nat /\ now > 0 /\ restrict_start_time \in Nat /\ cr_request \in Nat
  BY RestrictAssumption DEF RequestInv, RequestTypeOK
<1>1. Came(TRUE) /\ cr_request' = 1 /\ restrict_start_time' = now /\ now' = now
      /\ (restrict_start_time = 0 \/ now - restrict_start_time > RESTRICT_PERIOD)
  BY DEF FirstOfPeriod, Expired, Came
<1>2. RequestTypeOK' /\ Owed'
  BY <1>1, CameKeeps DEF RequestInv
<1>3. /\ DOMAIN arrivals' = DOMAIN arrivals \union {n} /\ n \notin DOMAIN arrivals
      /\ \A i \in DOMAIN arrivals :
            arrivals'[i] = arrivals[i] /\ arrivals[i].at \in Nat /\ arrivals[i].at <= now
      /\ arrivals'[n].at = now /\ arrivals'[n].available
      /\ Accepted' = Accepted \union {n} /\ Accepted \subseteq DOMAIN arrivals
      /\ \A i \in DOMAIN arrivals : i \in Accepted <=> arrivals[i].available
      /\ Before(n)' \subseteq DOMAIN arrivals
      /\ \A j \in DOMAIN arrivals : j \in Before(n)' <=> now - arrivals[j].at <= RESTRICT_PERIOD
      /\ \A S \in SUBSET DOMAIN arrivals : IsFiniteSet(S) /\ Cardinality(S) \in Nat
      /\ \A S \in SUBSET DOMAIN arrivals : \A T \in SUBSET S : Cardinality(T) <= Cardinality(S)
  BY <1>1, <1>n, CameFacts
<1>4. restrict_start_time = 0 => DOMAIN arrivals = {}
  BY DEF RequestInv, NoPeriod
<1>5. \A i \in DOMAIN arrivals :
        /\ arrivals[i].at < now
        /\ ~arrivals[i].available => arrivals[i].at + RESTRICT_PERIOD < now
  BY <1>0, <1>1, <1>3, <1>4 DEF RequestInv, Counting, Refusing
<1> DEFINE B == {i \in Accepted : arrivals[i].at < now /\ arrivals[i].at + RESTRICT_PERIOD >= now}
<1>6. Cardinality(B) <= RESTRICT_REQUEST
  <2>1. CASE restrict_start_time = 0
    <3>1. B = {}
      BY <1>3, <1>4, <2>1
    <3> QED
      BY <1>0, <3>1, FS_EmptySet
  <2>2. CASE restrict_start_time # 0 /\ cr_request <= RESTRICT_REQUEST
    <3>1. B \subseteq ServedFrom(restrict_start_time)
      BY <1>0, <1>1, <1>3, <2>2 DEF ServedFrom
    <3>2. ServedFrom(restrict_start_time) \subseteq DOMAIN arrivals
      BY <1>3 DEF ServedFrom
    <3>3. /\ Cardinality(B) <= Cardinality(ServedFrom(restrict_start_time))
          /\ Cardinality(B) \in Nat
      BY <1>3, <3>1, <3>2
    <3>4. Cardinality(ServedFrom(restrict_start_time)) = cr_request
      BY <2>2 DEF RequestInv, Counting
    <3> QED
      BY <1>0, <2>2, <3>3, <3>4
  <2>3. CASE cr_request > RESTRICT_REQUEST
    <3>1. B = {}
      BY <1>0, <1>1, <1>3, <1>4, <2>3 DEF RequestInv, Refusing
    <3> QED
      BY <1>0, <3>1, FS_EmptySet
  <2> QED
    BY <1>0, <2>1, <2>2, <2>3
<1>7. ServedFrom(now)' = {n} /\ Cardinality({n}) = 1
  <2>1. ServedFrom(now)' = {n}
    BY <1>0, <1>1, <1>3, <1>5 DEF ServedFrom
  <2> QED
    BY <2>1, FS_Singleton
<1>8. ServedBefore(now)' = B
  BY <1>0, <1>1, <1>3 DEF ServedBefore
<1>9. Counting'
  <2>1. \A i \in DOMAIN arrivals' :
           /\ arrivals'[i].at <= now + RESTRICT_PERIOD
           /\ ~arrivals'[i].available => arrivals'[i].at + RESTRICT_PERIOD < now
    BY <1>0, <1>3, <1>5
  <2>2. ServedFrom(restrict_start_time)' = {n} /\ ServedBefore(restrict_start_time)' = B
    BY <1>1, <1>7, <1>8 DEF ServedFrom, ServedBefore
  <2> QED
    BY <1>0, <1>1, <1>6, <1>7, <2>1, <2>2 DEF Counting
<1>10. NoPeriod' /\ Refusing'
  BY <1>0, <1>1 DEF NoPeriod, Refusing
<1>11. Treated(n)'
  <2>1. Before(n)' \ Accepted' = {}
    BY <1>0, <1>3, <1>5
  <2>2. Before(n)' \intersect Accepted' = B
    BY <1>0, <1>3, <1>5
  <2>3. Cardinality(Before(n)' \intersect Accepted') < 2 * RESTRICT_REQUEST
    <3>1. Cardinality(B) \in Nat
      BY <1>3
    <3>2. Cardinality(B) < 2 * RESTRICT_REQUEST
      BY <1>0, <1>6, <3>1
    <3> HIDE DEF B
    <3> QED
      BY <2>2, <3>2, Zenon
  <2>4. n \in Accepted'
    BY <1>3
  <2> QED
    BY <2>1, <2>3, <2>4 DEF Treated
<1>12. RestrictionHolds'
  BY <1>1, <1>2, <1>11, <1>n, CameTreated
<1> QED
  BY <1>2, <1>9, <1>10, <1>12 DEF RequestInv

(* One more client of the period: counted, and served.                     *)
LEMMA SamePeriodInv == RequestInv /\ SamePeriod => RequestInv'
<1> SUFFICES ASSUME RequestInv, SamePeriod PROVE RequestInv'
  OBVIOUS
<1>n. PICK n : n = Len(arrivals) + 1
  OBVIOUS
<1>0. /\ RESTRICT_PERIOD \in Nat /\ RESTRICT_REQUEST \in Nat /\ RESTRICT_REQUEST >= 1
      /\ now \in Nat /\ now > 0 /\ restrict_start_time \in Nat /\ cr_request \in Nat
      /\ restrict_start_time <= now
  BY RestrictAssumption DEF RequestInv, RequestTypeOK
<1>1. Came(TRUE) /\ cr_request' = cr_request + 1 /\ restrict_start_time' = restrict_start_time
      /\ now' = now /\ cr_request < RESTRICT_REQUEST
      /\ restrict_start_time # 0 /\ now - restrict_start_time <= RESTRICT_PERIOD
  BY <1>0 DEF SamePeriod, Expired, Came
<1>2. RequestTypeOK' /\ Owed'
  <2>1. /\ RequestTypeOK /\ Owed /\ cr_request' \in Nat
        /\ restrict_start_time' \in {restrict_start_time, now}
    BY <1>0, <1>1 DEF RequestInv
  <2> QED
    BY <1>1, <2>1, CameKeeps, Zenon
<1>3. /\ DOMAIN arrivals' = DOMAIN arrivals \union {n} /\ n \notin DOMAIN arrivals
      /\ \A i \in DOMAIN arrivals :
            arrivals'[i] = arrivals[i] /\ arrivals[i].at \in Nat /\ arrivals[i].at <= now
      /\ arrivals'[n].at = now /\ arrivals'[n].available
      /\ Accepted' = Accepted \union {n} /\ Accepted \subseteq DOMAIN arrivals
      /\ \A i \in DOMAIN arrivals : i \in Accepted <=> arrivals[i].available
      /\ Before(n)' \subseteq DOMAIN arrivals
      /\ \A j \in DOMAIN arrivals : j \in Before(n)' <=> now - arrivals[j].at <= RESTRICT_PERIOD
      /\ \A S \in SUBSET DOMAIN arrivals : IsFiniteSet(S) /\ Cardinality(S) \in Nat
      /\ \A S \in SUBSET DOMAIN arrivals : \A T \in SUBSET S : Cardinality(T) <= Cardinality(S)
  BY <1>1, <1>n, CameFacts
<1> DEFINE F == ServedFrom(restrict_start_time)
           B == ServedBefore(restrict_start_time)
<1>4. /\ \A i \in DOMAIN arrivals :
            /\ arrivals[i].at <= restrict_start_time + RESTRICT_PERIOD
            /\ ~arrivals[i].available => arrivals[i].at + RESTRICT_PERIOD < restrict_start_time
      /\ Cardinality(F) = cr_request /\ Cardinality(B) <= RESTRICT_REQUEST
  BY <1>0, <1>1 DEF RequestInv, Counting
<1>5. /\ F \subseteq DOMAIN arrivals /\ B \subseteq DOMAIN arrivals
      /\ IsFiniteSet(F) /\ IsFiniteSet(B) /\ Cardinality(B) \in Nat
      /\ F \intersect B = {}
  BY <1>0, <1>3 DEF ServedFrom, ServedBefore
<1>6. F' = F \union {n} /\ B' = B
  BY <1>0, <1>1, <1>3 DEF ServedFrom, ServedBefore
<1>7. Cardinality(F \union {n}) = cr_request + 1
  BY <1>3, <1>4, <1>5, FS_AddElement
<1>8. Counting'
  <2>1. \A i \in DOMAIN arrivals' :
           /\ arrivals'[i].at <= restrict_start_time + RESTRICT_PERIOD
           /\ ~arrivals'[i].available => arrivals'[i].at + RESTRICT_PERIOD < restrict_start_time
    BY <1>0, <1>1, <1>3, <1>4
  <2>2. Cardinality(F') = cr_request' /\ Cardinality(B') <= RESTRICT_REQUEST
    BY <1>1, <1>4, <1>6, <1>7, Zenon
  <2> QED
    BY <1>1, <2>1, <2>2 DEF Counting
<1>9. NoPeriod' /\ Refusing'
  BY <1>0, <1>1 DEF NoPeriod, Refusing
<1>10. Treated(n)'
  <2>1. Before(n)' \ Accepted' = {}
    BY <1>0, <1>1, <1>3, <1>4
  <2>2. Before(n)' \intersect Accepted' \subseteq F \union B
    BY <1>0, <1>1, <1>3, <1>4 DEF ServedFrom, ServedBefore
  <2>3. /\ IsFiniteSet(F \union B)
        /\ Cardinality(F \union B) = Cardinality(F) + Cardinality(B) - Cardinality(F \intersect B)
    BY <1>5, FS_Union
  <2>4. Cardinality(F \intersect B) = 0
    BY <1>5, FS_EmptySet
  <2>5. Cardinality(F \union B) < 2 * RESTRICT_REQUEST
    BY <1>0, <1>1, <1>4, <1>5, <2>3, <2>4
  <2>6. /\ Cardinality(Before(n)' \intersect Accepted') <= Cardinality(F \union B)
        /\ Cardinality(Before(n)' \intersect Accepted') \in Nat /\ Cardinality(F \union B) \in Nat
    BY <2>2, <2>3, FS_Subset, FS_CardinalityType
  <2>7. Cardinality(Before(n)' \intersect Accepted') < 2 * RESTRICT_REQUEST
    BY <1>0, <2>5, <2>6
  <2>8. n \in Accepted'
    BY <1>3
  <2> QED
    BY <2>1, <2>7, <2>8, Zenon DEF Treated
<1>11. RestrictionHolds'
  BY <1>1, <1>2, <1>10, <1>n, CameTreated
<1> QED
  BY <1>2, <1>8, <1>9, <1>11 DEF RequestInv

(* A client that is refused: a full count came before it in this period,   *)
(* or another one was refused.                                             *)
LEMMA RefusedInv == RequestInv /\ Refused => RequestInv'
<1> SUFFICES ASSUME RequestInv, Refused PROVE RequestInv'
  OBVIOUS
<1>n. PICK n : n = Len(arrivals) + 1
  OBVIOUS
<1>0. /\ RESTRICT_PERIOD \in Nat /\ RESTRICT_REQUEST \in Nat /\ RESTRICT_REQUEST >= 1
      /\ now \in Nat /\ now > 0 /\ restrict_start_time \in Nat /\ cr_request \in Nat
      /\ restrict_start_time <= now
  BY RestrictAssumption DEF RequestInv, RequestTypeOK
<1>1. Came(FALSE) /\ cr_request' = cr_request + 1 /\ restrict_start_time' = now
      /\ now' = now /\ cr_request >= RESTRICT_REQUEST
      /\ restrict_start_time # 0 /\ now - restrict_start_time <= RESTRICT_PERIOD
  BY <1>0 DEF Refused, Expired, Came
<1>2. RequestTypeOK' /\ Owed'
  <2>1. /\ RequestTypeOK /\ Owed /\ cr_request' \in Nat
        /\ restrict_start_time' \in {restrict_start_time, now}
    BY <1>0, <1>1 DEF RequestInv
  <2> QED
    BY <1>1, <2>1, CameKeeps, Zenon
<1>3. /\ DOMAIN arrivals' = DOMAIN arrivals \union {n} /\ n \notin DOMAIN arrivals
      /\ \A i \in DOMAIN arrivals :
            arrivals'[i] = arrivals[i] /\ arrivals[i].at \in Nat /\ arrivals[i].at <= now
      /\ arrivals'[n].at = now /\ ~arrivals'[n].available
      /\ Accepted' = Accepted /\ Accepted \subseteq DOMAIN arrivals
      /\ \A i \in DOMAIN arrivals : i \in Accepted <=> arrivals[i].available
      /\ Before(n)' \subseteq DOMAIN arrivals
      /\ \A j \in DOMAIN arrivals : j \in Before(n)' <=> now - arrivals[j].at <= RESTRICT_PERIOD
      /\ \A S \in SUBSET DOMAIN arrivals : IsFiniteSet(S) /\ Cardinality(S) \in Nat
      /\ \A S \in SUBSET DOMAIN arrivals : \A T \in SUBSET S : Cardinality(T) <= Cardinality(S)
  BY <1>1, <1>n, CameFacts
<1>4. NoPeriod' /\ Counting' /\ Refusing'
  <2>1. \A i \in DOMAIN arrivals' : arrivals'[i].at <= now
    BY <1>0, <1>3
  <2>2. \E i \in DOMAIN arrivals' : ~arrivals'[i].available /\ arrivals'[i].at = now
    BY <1>3
  <2> QED
    BY <1>0, <1>1, <2>1, <2>2 DEF NoPeriod, Counting, Refusing
<1>5. Treated(n)'
  <2>1. n \notin Accepted'
    BY <1>3
  <2>2. CASE cr_request > RESTRICT_REQUEST
    <3>1. PICK i \in DOMAIN arrivals : ~arrivals[i].available /\ arrivals[i].at = restrict_start_time
      BY <2>2 DEF RequestInv, Refusing
    <3>2. i \in Before(n)' \ Accepted'
      BY <1>0, <1>1, <1>3, <3>1
    <3> QED
      BY <2>1, <3>2, Zenon DEF Treated
  <2>3. CASE cr_request = RESTRICT_REQUEST
    <3> DEFINE F == ServedFrom(restrict_start_time)
    <3>1. Cardinality(F) = RESTRICT_REQUEST
      BY <1>0, <1>1, <2>3 DEF RequestInv, Counting
    <3>2. F \subseteq Before(n)'
      BY <1>0, <1>1, <1>3 DEF ServedFrom
    <3>3. Cardinality(F) <= Cardinality(Before(n)') /\ Cardinality(Before(n)') \in Nat
      BY <1>3, <3>2
    <3>4. Cardinality(Before(n)') >= RESTRICT_REQUEST
      BY <1>0, <3>1, <3>3
    <3> QED
      BY <2>1, <3>4, Zenon DEF Treated
  <2> QED
    BY <1>0, <1>1, <2>2, <2>3
<1>6. RestrictionHolds'
  BY <1>1, <1>2, <1>5, <1>n, CameTreated
<1> QED
  BY <1>2, <1>4, <1>6 DEF RequestInv

(* What the other steps leave alone.                                       *)
LEMMA OtherStepsInv ==
    ASSUME RequestInv,
           second \/ load_credentials
               \/ (\E header \in Headers, complete \in BOOLEAN : http_cr_new_client(header, complete))
               \/ UNCHANGED requestVars
    PROVE  RequestInv'
<1>1. /\ restrict_start_time' = restrict_start_time /\ cr_request' = cr_request
      /\ arrivals' = arrivals /\ now' \in {now, now + 1}
  BY DEF second, load_credentials, http_cr_new_client, requestVars
<1>2. \/ client' = client /\ events' = events
      \/ /\ client' = Idle /\ events' \in {events, events + 1}
         /\ events' = events + 1 => client # Idle /\ client[1]
  <2>1. CASE second \/ load_credentials \/ UNCHANGED requestVars
    BY <2>1 DEF second, load_credentials, requestVars
  <2>2. ASSUME NEW header \in Headers, NEW complete \in BOOLEAN, http_cr_new_client(header, complete)
        PROVE  /\ client' = Idle /\ events' \in {events, events + 1}
               /\ events' = events + 1 => client # Idle /\ client[1]
    BY <2>2 DEF http_cr_new_client, RequestInv, RequestTypeOK
  <2> QED
    BY <2>1, <2>2
<1>3. RequestTypeOK'
  <2>1. client' \in {Idle, <<TRUE>>, <<FALSE>>}
    BY <1>2, Zenon DEF RequestInv, RequestTypeOK
  <2>2. now' \in Nat \ {0} /\ restrict_start_time <= now' /\ events' \in Nat
    BY <1>1, <1>2 DEF RequestInv, RequestTypeOK
  <2>3. \A i \in DOMAIN arrivals : arrivals[i].at <= now'
    BY <1>1, AcceptedFinite DEF RequestInv, RequestTypeOK, Arrival
  <2> QED
    BY <1>1, <2>1, <2>2, <2>3, Zenon DEF RequestInv, RequestTypeOK, Idle
<1>4. NoPeriod' /\ Counting' /\ Refusing'
  BY <1>1 DEF RequestInv, NoPeriod, Counting, Refusing, ServedFrom, ServedBefore, Accepted
<1>5. Owed' /\ events' <= Cardinality(Accepted')
  <2> DEFINE x == IF client = <<TRUE>> THEN 1 ELSE 0
             y == IF client' = <<TRUE>> THEN 1 ELSE 0
  <2>1. Accepted' = Accepted /\ Cardinality(Accepted) \in Nat
    BY <1>1, AcceptedFinite DEF RequestInv, RequestTypeOK, Accepted
  <2>2. events + x <= Cardinality(Accepted) /\ events \in Nat /\ events' \in Nat
    BY <1>3 DEF RequestInv, RequestTypeOK, Owed
  <2>3. x \in {0, 1} /\ y \in {0, 1}
    BY Zenon
  <2>4. (events' = events /\ y = x) \/ (events' = events + 1 /\ x = 1 /\ y = 0)
          \/ (events' = events /\ y = 0)
    <3>1. CASE client' = client /\ events' = events
      BY <3>1, Zenon
    <3>2. CASE client' = Idle
      <4>1. y = 0
        BY <3>2 DEF Idle
      <4>2. client # Idle /\ client[1] => x = 1
        <5>1. client \in {Idle, <<TRUE>>, <<FALSE>>}
          BY Zenon DEF RequestInv, RequestTypeOK
        <5>2. CASE client = <<FALSE>>
          <6>1. <<FALSE>>[1] = FALSE
            OBVIOUS
          <6> QED
            BY <5>2, <6>1, Zenon
        <5> QED
          BY <5>1, <5>2, Zenon
      <4> QED
        BY <1>2, <3>2, <4>1, <4>2, Zenon
    <3> QED
      BY <1>2, <3>1, <3>2, Zenon
  <2>5. events' + y <= Cardinality(Accepted) /\ events' <= Cardinality(Accepted)
    <3> HIDE DEF x, y
    <3> QED
      BY <2>1, <2>2, <2>3, <2>4
  <2> QED
    BY <2>1, <2>5, Zenon DEF Owed
<1>6. RestrictionHolds'
  <2>1. \A i \in DOMAIN arrivals : Treated(i)
    BY RestrictionIsTreatment DEF RequestInv
  <2>2. \A i \in DOMAIN arrivals' : Treated(i)'
    <3> SUFFICES ASSUME NEW i \in DOMAIN arrivals' PROVE Treated(i)'
      OBVIOUS
    <3>1. Before(i)' = Before(i) /\ Accepted' = Accepted /\ i \in DOMAIN arrivals
      BY <1>1 DEF Before, Recent, Accepted
    <3> QED
      BY <2>1, <3>1, Zenon DEF Treated
  <2> QED
    BY <1>5, <2>2 DEF RestrictionHolds, Treated, Before
<1> QED
  BY <1>3, <1>4, <1>5, <1>6 DEF RequestInv

(* The restriction holds in every state, for every period, every limit and *)
(* any number of clients at any times: a client is served only when none   *)
(* was refused in the period before it and fewer than two full counts were *)
(* served in it, and refused only after a full count or a refusal          *)
(* (http_server_listen, http_cr_new_client).                               *)
THEOREM RestrictionAlwaysHolds == RequestSpec => []RestrictionHolds
<1>1. RequestInit => RequestInv
  BY RequestInitInv
<1>2. RequestInv /\ [RequestNext]_requestVars => RequestInv'
  <2> SUFFICES ASSUME RequestInv, [RequestNext]_requestVars PROVE RequestInv'
    OBVIOUS
  <2>1. CASE http_server_listen
    BY <2>1, ListenCases, FirstOfPeriodInv, SamePeriodInv, RefusedInv DEF RequestInv
  <2>2. CASE ~http_server_listen
    BY <2>2, OtherStepsInv DEF RequestNext
  <2> QED
    BY <2>1, <2>2
<1>3. RequestInv => RestrictionHolds
  BY DEF RequestInv
<1> QED
  BY <1>1, <1>2, <1>3, PTL DEF RequestSpec
-----------------------------------------------------------------------------
(***************************************************************************)
(* The sections of the connections, and the client.                        *)
(***************************************************************************)
XmppValue == Nat \union {"", "0", "1", "true", "false", "cpe", "pass", "acs", "icwmp"}
                 \union {s[2] : s \in XmppSets}
Options == {o \in [SectionOption -> XmppValue] :
                (\A n \in Numeric : o[n] \in Nat) /\ o["attempt"] < MaxFailures}
Section == [inst : Nat, opt : Options]

(* The loaded parameters are numbers where numbers are meant, and a retry  *)
(* counter counts attempts that have failed since the connection was up,   *)
(* as long as all of these are counted.                                    *)
XmppTypeOK ==
    /\ section \in Seq(Section)
    /\ \A f \in {"attempts", "initial", "mult", "max"} : xmpp_param[f] \in Nat
    /\ xmpp_param.attempts < MaxFailures
    /\ connectAttempt \in Nat /\ connAttempt \in Nat /\ failures \in Nat

Counted ==
    /\ failures # MaxFailures => connectAttempt <= failures /\ connAttempt <= failures
    /\ failures <= MaxFailures
    /\ xstep \in {"run", "up"} => connectAttempt = 0

-----------------------------------------------------------------------------
LEMMA OptionNames ==
    /\ Numeric \subseteq SectionOption
    /\ \A p \in DOMAIN XmppOptionOf : XmppOptionOf[p] \in SectionOption
    /\ \A p \in DOMAIN XmppOptionOf \ {"Password", "Domain"} :
          \A q \in DOMAIN XmppOptionOf : XmppOptionOf[p] = XmppOptionOf[q] => p = q
    /\ NoOptions \in Options
<1>1. Numeric \subseteq SectionOption
  <2>1. /\ XmppOptionOf["KeepAliveInterval"] = "interval"
        /\ XmppOptionOf["ServerConnectAttempts"] = "attempt"
        /\ XmppOptionOf["ServerRetryInitialInterval"] = "initial_retry_interval"
        /\ XmppOptionOf["ServerRetryIntervalMultiplier"] = "retry_interval_multiplier"
        /\ XmppOptionOf["ServerRetryMaxInterval"] = "retry_max_interval"
        /\ \A p \in {"KeepAliveInterval", "ServerConnectAttempts", "ServerRetryInitialInterval",
                     "ServerRetryIntervalMultiplier", "ServerRetryMaxInterval"} :
              p \in DOMAIN XmppOptionOf
    BY DEF XmppOptionOf
  <2> QED
    BY <2>1 DEF Numeric, SectionOption
<1>2. \A p \in DOMAIN XmppOptionOf : XmppOptionOf[p] \in SectionOption
  BY DEF SectionOption
<1>3. \A p \in DOMAIN XmppOptionOf \ {"Password", "Domain"} :
         \A q \in DOMAIN XmppOptionOf : XmppOptionOf[p] = XmppOptionOf[q] => p = q
  BY DEF XmppOptionOf
<1>4. NoOptions \in Options
  <2>1. \A o \in SectionOption : o \in Numeric => NoOptions[o] = 0
    BY Zenon DEF NoOptions
  <2>a. \A o \in SectionOption : o \notin Numeric => NoOptions[o] = ""
    BY Zenon DEF NoOptions
  <2>b. 0 \in XmppValue /\ "" \in XmppValue
    BY DEF XmppValue
  <2>2. \A o \in SectionOption : NoOptions[o] \in XmppValue
    BY <2>1, <2>a, <2>b, Zenon
  <2>3. NoOptions = [o \in SectionOption |-> NoOptions[o]]
    BY Zenon DEF NoOptions
  <2>4. NoOptions \in [SectionOption -> XmppValue]
    BY <2>2, <2>3, Zenon
  <2>5. (\A n \in Numeric : NoOptions[n] \in Nat) /\ NoOptions["attempt"] < MaxFailures
    <3>1. \A n \in Numeric : NoOptions[n] = 0
      BY <1>1, <2>1
    <3>2. "attempt" \in Numeric
      BY DEF Numeric
    <3> QED
      BY <3>1, <3>2, XmppSetsAssumption
  <2> QED
    BY <2>4, <2>5 DEF Options
<1> QED
  BY <1>1, <1>2, <1>3, <1>4

LEMMA SectionsAre ==
    ASSUME section \in Seq(Section)
    PROVE  /\ Len(section) \in Nat /\ DOMAIN section = 1 .. Len(section)
           /\ \A k \in DOMAIN section : section[k] \in Section
BY LenProperties, ElementOfSeq

(* The parameters that are loaded are numbers where numbers are meant.     *)
LEMMA LoadedNumbers ==
    ASSUME XmppTypeOK
    PROVE  /\ OptionsOf \in Options
           /\ \A f \in {"attempts", "initial", "mult", "max"} : ParamOf(OptionsOf)[f] \in Nat
           /\ ParamOf(OptionsOf).attempts < MaxFailures
<1>1. OptionsOf \in Options
  <2>1. CASE Numbered = {}
    BY <2>1, OptionNames DEF OptionsOf
  <2>2. CASE Numbered # {}
    <3>1. Numbered \in SUBSET Nat /\ Numbered \subseteq DOMAIN section
      BY SectionsAre DEF Numbered, XmppTypeOK
    <3>2. \E k \in Numbered : \A j \in Numbered : k <= j
      BY <2>2, <3>1, MinNat
    <3>3. (CHOOSE k \in Numbered : \A j \in Numbered : k <= j) \in Numbered
      BY <3>2
    <3> QED
      BY <2>2, <3>1, <3>3, SectionsAre DEF OptionsOf, XmppTypeOK, Section
  <2> QED
    BY <2>1, <2>2
<1>2. (\A n \in Numeric : OptionsOf[n] \in Nat) /\ OptionsOf.attempt < MaxFailures
  BY <1>1 DEF Options
<1>3. /\ OptionsOf.attempt \in Nat /\ OptionsOf.initial_retry_interval \in Nat
      /\ OptionsOf.retry_interval_multiplier \in Nat /\ OptionsOf.retry_max_interval \in Nat
  BY <1>2 DEF Numeric
<1> HIDE DEF OptionsOf
<1>4. LET r == RetrySettings(OptionsOf) IN r.initial \in Nat /\ r.mult \in Nat /\ r.max \in Nat
  BY <1>3 DEF RetrySettings, OrElse, XmppTypeOK
<1> QED
  BY <1>1, <1>2, <1>3, <1>4 DEF ParamOf

-----------------------------------------------------------------------------
(* The sections stay sections.                                             *)
LEMMA SectionsKept ==
    ASSUME XmppTypeOK, XmppOperations
    PROVE  section' \in Seq(Section)
<1>0. /\ Len(section) \in Nat /\ DOMAIN section = 1 .. Len(section)
      /\ section \in Seq(Section)
      /\ \A k \in DOMAIN section : section[k] \in Section /\ section[k].inst \in Nat
  BY SectionsAre DEF XmppTypeOK, Section
<1>1. CASE add_xmpp_connection
  <2> DEFINE inst == IF section = <<>> THEN 1 ELSE Last(section).inst + 1
             new == [inst |-> inst, opt |-> NoOptions]
  <2>1. section' = Append(section, new)
    BY <1>1 DEF add_xmpp_connection
  <2>2. inst \in Nat
    <3>1. CASE section = <<>>
      BY <1>0, <3>1
    <3>2. CASE section # <<>>
      <4>1. Len(section) \in DOMAIN section
        BY <1>0, <3>2, EmptySeq
      <4>2. inst = section[Len(section)].inst + 1
        BY <3>2 DEF Last
      <4> QED
        BY <1>0, <4>1, <4>2
    <3> QED
      BY <3>1, <3>2
  <2>3. new \in Section
    BY <2>2, OptionNames DEF Section
  <2> HIDE DEF new, inst
  <2> QED
    BY <1>0, <2>1, <2>3, AppendProperties
<1>2. ASSUME NEW i \in DOMAIN section, delete_xmpp_connection(i)
      PROVE  section' \in Seq(Section)
  BY <1>0, <1>2, RemoveAtProperties DEF delete_xmpp_connection
<1>3. CASE delete_xmpp_connection_all
  BY <1>3, EmptySeq DEF delete_xmpp_connection_all
<1>4. ASSUME NEW k \in DOMAIN section, NEW s \in XmppSets, set_xmpp_connection(k, s[1], s[2])
      PROVE  section' \in Seq(Section)
  <2> DEFINE p == s[1]
             v == s[2]
             o == XmppOptionOf[p]
             new == [section[k] EXCEPT !.opt[o] = v]
  <2>1. section' = [section EXCEPT ![k] = new]
    BY <1>4 DEF set_xmpp_connection
  <2>2. /\ p \in DOMAIN XmppOptionOf /\ v \in XmppValue
        /\ o \in Numeric => v \in Nat
        /\ o = "attempt" => v < MaxFailures
    <3>1. /\ p \in DOMAIN XmppOptionOf
          /\ o \in Numeric => v \in Nat
          /\ p = "ServerConnectAttempts" => v < MaxFailures
      BY XmppSetsAssumption
    <3>2. o = "attempt" => p = "ServerConnectAttempts"
      <4>1. /\ XmppOptionOf["ServerConnectAttempts"] = "attempt"
            /\ "ServerConnectAttempts" \in DOMAIN XmppOptionOf \ {"Password", "Domain"}
        BY DEF XmppOptionOf
      <4> QED
        BY <3>1, <4>1, OptionNames
    <3>3. v \in XmppValue
      BY DEF XmppValue
    <3> QED
      BY <3>1, <3>2, <3>3
  <2>3. new \in Section
    <3>1. /\ section[k].inst \in Nat /\ section[k].opt \in [SectionOption -> XmppValue]
          /\ \A n \in Numeric : section[k].opt[n] \in Nat
          /\ section[k].opt["attempt"] < MaxFailures
          /\ section[k] = [inst |-> section[k].inst, opt |-> section[k].opt]
      BY <1>0 DEF Section, Options
    <3>3. o \in SectionOption
      BY <2>2, OptionNames
    <3> HIDE DEF p, v, o
    <3>2. new = [inst |-> section[k].inst, opt |-> [section[k].opt EXCEPT ![o] = v]]
      <4>1. PICK i, a : /\ section[k] = [inst |-> i, opt |-> a]
                        /\ i = section[k].inst /\ a = section[k].opt
        BY <3>1
      <4> QED
        BY <4>1
    <3>4. [section[k].opt EXCEPT ![o] = v] \in Options
      <4>1. "attempt" \in SectionOption
        BY OptionNames DEF Numeric
      <4>2. [section[k].opt EXCEPT ![o] = v] \in [SectionOption -> XmppValue]
        BY <2>2, <3>1, <3>3
      <4>3. \A n \in SectionOption : [section[k].opt EXCEPT ![o] = v][n] =
                                        IF n = o THEN v ELSE section[k].opt[n]
        BY <3>1
      <4> QED
        BY <2>2, <3>1, <4>1, <4>2, <4>3, OptionNames DEF Options
    <3> QED
      BY <3>1, <3>2, <3>4 DEF Section
  <2> HIDE DEF new
  <2> QED
    BY <1>0, <2>1, <2>3, ExceptSeq
<1>5. CASE cwmp_get_xmpp_param
  BY <1>0, <1>5 DEF cwmp_get_xmpp_param
<1> QED
  BY <1>1, <1>2, <1>3, <1>4, <1>5 DEF XmppOperations

(* The client's attempts are counted, and the numbers stay numbers.        *)
ClientInv == XmppTypeOK /\ Counted

LEMMA ClientInit == XmppInit => ClientInv
<1> SUFFICES ASSUME XmppInit PROVE ClientInv
  OBVIOUS
<1>1. PICK attempts \in {0, 1, 2}, on \in {"0", "1"} :
         section = FirstSection(Preset(on, attempts))
  BY DEF XmppInit
<1> DEFINE o == Preset(on, attempts)
           first == [inst |-> 1, opt |-> o]
<1>2. section = <<first>>
  BY <1>1 DEF FirstSection
<1>3. o \in Options
  <2>1. NoOptions \in [SectionOption -> XmppValue] /\ \A n \in Numeric : NoOptions[n] \in Nat
    BY OptionNames DEF Options
  <2>2. on \in XmppValue
    BY DEF XmppValue
  <2>3. attempts \in XmppValue /\ attempts \in Nat /\ attempts < MaxFailures
    <3>1. attempts \in Nat /\ attempts < MaxFailures
      BY XmppSetsAssumption
    <3> QED
      BY <3>1, Zenon DEF XmppValue
  <2>4. \A v \in {"cpe", "pass", "acs", "icwmp"} : v \in XmppValue
    BY DEF XmppValue
  <2>5. o \in [SectionOption -> XmppValue]
    BY <2>1, <2>2, <2>3, <2>4 DEF Preset
  <2>6. \A n \in Numeric : o[n] = IF n = "attempt" THEN attempts ELSE NoOptions[n]
    BY <2>1, OptionNames DEF Preset, Numeric
  <2> HIDE DEF o
  <2>7. (\A n \in Numeric : o[n] \in Nat) /\ o["attempt"] < MaxFailures
    BY <2>1, <2>3, <2>6 DEF Numeric
  <2> QED
    BY <2>5, <2>7 DEF Options
<1> HIDE DEF o
<1>4. first \in Section
  BY <1>3 DEF Section
<1> HIDE DEF first
<1>5. section \in Seq(Section) /\ DOMAIN section = {1} /\ section[1] = first
  <2>1. Len(section) = 1 /\ section \in Seq(Section) /\ section[1] = first
    BY <1>2, <1>4
  <2> QED
    BY <2>1, LenProperties
<1>7. /\ \A f \in {"attempts", "initial", "mult", "max"} : xmpp_param[f] \in Nat
      /\ xmpp_param.attempts < MaxFailures
  <2>1. xmpp_param = [username |-> "", password |-> "", domain |-> "", ressource |-> "",
                      attempts |-> 0, initial |-> 0, mult |-> 0, max |-> 0]
    BY DEF XmppInit
  <2>2. /\ xmpp_param.attempts = 0 /\ xmpp_param.initial = 0
        /\ xmpp_param.mult = 0 /\ xmpp_param.max = 0
    BY <2>1
  <2> QED
    BY <2>2, XmppSetsAssumption
<1> QED
  <2>1. connectAttempt = 0 /\ connAttempt = 0 /\ failures = 0
    BY DEF XmppInit
  <2>2. Counted
    BY <2>1, XmppSetsAssumption DEF Counted
  <2>3. XmppTypeOK
    BY <1>5, <1>7, <2>1 DEF XmppTypeOK
  <2> QED
    BY <2>2, <2>3 DEF ClientInv

(* One more attempt that failed.                                           *)
LEMMA RetryProperties ==
    ASSUME XmppTypeOK, Counted, NEW attempt \in Nat,
           failures # MaxFailures => attempt <= failures, Retry(attempt)
    PROVE  /\ failures' = (IF failures < MaxFailures THEN failures + 1 ELSE failures)
           /\ xstep' \in {"aborted", "sleep"}
           /\ xstep' = "aborted" => failures' > xmpp_param.attempts
           /\ xstep' = "sleep" => IF xmpp_param.attempts = 0 THEN sleep' = 5
                                  ELSE sleep' < xmpp_param.initial \/ sleep' <= xmpp_param.max
<1>0. /\ xmpp_param.attempts \in Nat /\ xmpp_param.initial \in Nat /\ xmpp_param.mult \in Nat
      /\ xmpp_param.max \in Nat /\ failures \in Nat /\ MaxFailures \in Nat
      /\ failures <= MaxFailures /\ xmpp_param.attempts < MaxFailures
  BY XmppSetsAssumption DEF XmppTypeOK, Counted
<1>1. failures' = IF failures < MaxFailures THEN failures + 1 ELSE failures
  BY DEF Retry
<1>2. CASE GivesUp(attempt)
  BY <1>0, <1>1, <1>2 DEF Retry, GivesUp
<1>3. CASE ~GivesUp(attempt)
  <2>1. xstep' = "sleep" /\ sleep' \in Delay(attempt)
    BY <1>3, Zenon DEF Retry
  <2>2. attempt = 0 \/ attempt <= xmpp_param.attempts
    BY <1>0, <1>3 DEF GivesUp
  <2>3. CASE attempt = 0 /\ xmpp_param.attempts # 0
    <3>1. Delay(attempt) = 0 .. (xmpp_param.initial - 1)
      <4>1. ~(attempt > 0)
        BY <2>3
      <4> QED
        BY <2>3, <4>1, Zenon DEF Delay
    <3> QED
      BY <1>0, <1>1, <2>1, <2>3, <3>1
  <2>4. CASE attempt # 0 /\ xmpp_param.attempts # 0
    <3> DEFINE delay == xmpp_param.initial * (xmpp_param.mult \div 1000) * (attempt - 1)
    <3>1. attempt > 0 /\ ~(attempt = 0)
      BY <2>4
    <3>2. Delay(attempt) = {IF delay > xmpp_param.max THEN xmpp_param.max ELSE delay}
      BY <2>4, <3>1, Zenon DEF Delay
    <3>3. sleep' = IF delay > xmpp_param.max THEN xmpp_param.max ELSE delay
      BY <2>1, <3>2
    <3>4. delay \in Int
      <4>1. xmpp_param.mult \div 1000 \in Int /\ attempt - 1 \in Int
        BY <1>0
      <4> QED
        BY <1>0, <4>1
    <3> HIDE DEF delay
    <3>5. sleep' <= xmpp_param.max
      BY <1>0, <3>3, <3>4
    <3> QED
      BY <1>1, <2>1, <2>4, <3>5
  <2>5. CASE xmpp_param.attempts = 0
    <3>1. attempt = 0
      BY <1>0, <2>2, <2>5
    <3>2. ~(attempt > 0) /\ ~(xmpp_param.attempts # 0)
      BY <2>5, <3>1
    <3>3. Delay(attempt) = {5}
      BY <3>2, Zenon DEF Delay
    <3> QED
      BY <1>1, <2>1, <2>5, <3>3
  <2> QED
    BY <2>3, <2>4, <2>5
<1> QED
  BY <1>2, <1>3

LEMMA ClientStep ==
    ASSUME ClientInv, [XmppNext]_xmppVars
    PROVE  ClientInv' /\ (xmppVars' # xmppVars => Patient)
<1>0. XmppTypeOK /\ Counted
  BY DEF ClientInv
<1> DEFINE Unloaded == section' = section /\ xmpp_param' = xmpp_param
<1>1. ASSUME Unloaded, connectAttempt' \in Nat, connAttempt' \in Nat, failures' \in Nat
      PROVE  XmppTypeOK'
  BY <1>0, <1>1 DEF XmppTypeOK
<1>2. CASE Client
  <2>1. CASE connect_failed
    <3>1. /\ Retry(connectAttempt) /\ connectAttempt' = connectAttempt + 1
          /\ connAttempt' = connAttempt /\ Unloaded
      BY <2>1 DEF connect_failed, treeVars
    <3>2. connectAttempt \in Nat /\ (failures # MaxFailures => connectAttempt <= failures)
      BY <1>0 DEF XmppTypeOK, Counted
    <3>3. /\ failures' = (IF failures < MaxFailures THEN failures + 1 ELSE failures)
          /\ xstep' \in {"aborted", "sleep"}
          /\ xstep' = "aborted" => failures' > xmpp_param.attempts
          /\ xstep' = "sleep" => IF xmpp_param.attempts = 0 THEN sleep' = 5
                                 ELSE sleep' < xmpp_param.initial \/ sleep' <= xmpp_param.max
      BY <1>0, <3>1, <3>2, RetryProperties
    <3>4. Counted'
      BY <1>0, <3>1, <3>3, XmppSetsAssumption DEF Counted, XmppTypeOK
    <3>5. Patient
      BY <3>3 DEF Patient
    <3> QED
      BY <1>0, <1>1, <3>1, <3>3, <3>4, <3>5, XmppSetsAssumption DEF XmppTypeOK, ClientInv
  <2>2. CASE conn_handler_lost
    <3>1. /\ Retry(connAttempt) /\ connAttempt' = connAttempt + 1
          /\ connectAttempt' = connectAttempt /\ Unloaded
      BY <2>2 DEF conn_handler_lost, treeVars
    <3>2. connAttempt \in Nat /\ (failures # MaxFailures => connAttempt <= failures)
      BY <1>0 DEF XmppTypeOK, Counted
    <3>3. /\ failures' = (IF failures < MaxFailures THEN failures + 1 ELSE failures)
          /\ xstep' \in {"aborted", "sleep"}
          /\ xstep' = "aborted" => failures' > xmpp_param.attempts
          /\ xstep' = "sleep" => IF xmpp_param.attempts = 0 THEN sleep' = 5
                                 ELSE sleep' < xmpp_param.initial \/ sleep' <= xmpp_param.max
      BY <1>0, <3>1, <3>2, RetryProperties
    <3>4. Counted'
      BY <1>0, <3>1, <3>3, XmppSetsAssumption DEF Counted, XmppTypeOK
    <3>5. Patient
      BY <3>3 DEF Patient
    <3> QED
      BY <1>0, <1>1, <3>1, <3>3, <3>4, <3>5, XmppSetsAssumption DEF XmppTypeOK, ClientInv
  <2>3. CASE connect_initiated
    <3>1. Unloaded /\ xstep' = "run" /\ connectAttempt' = 0 /\ connAttempt' = connAttempt
          /\ failures' = failures
      BY <2>3 DEF connect_initiated, treeVars, OtherCount
    <3> QED
      BY <1>0, <1>1, <3>1, XmppSetsAssumption DEF XmppTypeOK, ClientInv, Counted, Patient
  <2>4. CASE conn_handler_connect
    <3>1. Unloaded /\ xstep = "run" /\ xstep' = "up" /\ connAttempt' = 0 /\ failures' = 0
          /\ connectAttempt' = connectAttempt
      BY <2>4 DEF conn_handler_connect, treeVars
    <3> QED
      BY <1>0, <1>1, <3>1, XmppSetsAssumption DEF XmppTypeOK, ClientInv, Counted, Patient
  <2>5. CASE awake
    <3>1. Unloaded /\ xstep' = "connect" /\ connAttempt' = connAttempt /\ failures' = failures
          /\ connectAttempt' = connectAttempt
      BY <2>5 DEF awake, treeVars
    <3> QED
      BY <1>0, <1>1, <3>1, XmppSetsAssumption DEF XmppTypeOK, ClientInv, Counted, Patient
  <2>6. CASE thread_xmpp_client_listen
    <3>1. /\ section' = section /\ xmpp_param' \in {xmpp_param, ParamOf(OptionsOf)}
          /\ xstep' \in {"connect", "off"}
          /\ UNCHANGED <<connectAttempt, connAttempt, failures>>
      BY <2>6 DEF thread_xmpp_client_listen, LoadXmpp
    <3>2. /\ \A f \in {"attempts", "initial", "mult", "max"} : xmpp_param'[f] \in Nat
          /\ xmpp_param'.attempts < MaxFailures
      BY <1>0, <3>1, LoadedNumbers DEF XmppTypeOK
    <3>3. XmppTypeOK' /\ Counted'
      BY <1>0, <3>1, <3>2 DEF XmppTypeOK, Counted
    <3> QED
      BY <3>1, <3>3 DEF ClientInv, Patient
  <2> QED
    BY <1>2, <2>1, <2>2, <2>3, <2>4, <2>5, <2>6 DEF Client, XmppThread
<1>3. CASE XmppOperations
  <2>1. UNCHANGED <<xstep, connectAttempt, connAttempt, sleep, failures>>
    BY <1>3 DEF XmppOperations, add_xmpp_connection, delete_xmpp_connection,
        delete_xmpp_connection_all, set_xmpp_connection, cwmp_get_xmpp_param, clientVars
  <2>2. section' \in Seq(Section)
    BY <1>0, <1>3, SectionsKept
  <2>3. xmpp_param' \in {xmpp_param, ParamOf(OptionsOf)}
    BY <1>3, Zenon DEF XmppOperations, add_xmpp_connection, delete_xmpp_connection,
        delete_xmpp_connection_all, set_xmpp_connection, cwmp_get_xmpp_param, LoadXmpp
  <2>4. /\ \A f \in {"attempts", "initial", "mult", "max"} : xmpp_param'[f] \in Nat
        /\ xmpp_param'.attempts < MaxFailures
    BY <1>0, <2>3, LoadedNumbers DEF XmppTypeOK
  <2>5. XmppTypeOK' /\ Counted'
    BY <1>0, <2>1, <2>2, <2>4 DEF XmppTypeOK, Counted
  <2> QED
    BY <2>1, <2>2, <2>5 DEF ClientInv, Patient
<1>4. CASE XmppRequests \/ UNCHANGED xmppVars
  <2>1. Unloaded /\ UNCHANGED <<xstep, connectAttempt, connAttempt, sleep, failures>>
    BY <1>4 DEF XmppRequests, xmpp_second, cr_handler, clientVars, treeVars, xmppVars
  <2> QED
    BY <1>0, <1>1, <2>1 DEF ClientInv, XmppTypeOK, Counted, Patient
<1> QED
  BY <1>2, <1>3, <1>4 DEF XmppNext
-----------------------------------------------------------------------------
(***************************************************************************)
(* The requests.                                                           *)
(***************************************************************************)
Request == [at : Nat, permitted : BOOLEAN]
Requests == DOMAIN received

(* The types; no request comes from the future, and before the first there *)
(* is no period.                                                           *)
LimitTypeOK ==
    /\ seconds \in Nat \ {0} /\ restrictStart \in Nat /\ request \in Nat
    /\ received \in Seq(Request)
    /\ restrictStart <= seconds
    /\ \A i \in Requests : received[i].at <= seconds
    /\ restrictStart = 0 => received = <<>> /\ request = 0

(* The requests since t, and in the period before it.                      *)
Since(t) == {i \in Requests : received[i].at >= t}
JustBefore(t) == {i \in Requests : received[i].at < t /\ received[i].at + CR_PERIOD >= t}

(* In a period in which none was refused each request but the first counts *)
(* twice; of the period before, the first is too long ago to matter.       *)
CountedTwice ==
    restrictStart # 0 /\ request <= CR_REQUESTS =>
        /\ \A i \in Requests :
              /\ received[i].at <= restrictStart + CR_PERIOD
              /\ ~received[i].permitted => received[i].at + CR_PERIOD < restrictStart
        /\ \E i \in Requests : received[i].at = restrictStart
        /\ 2 * Cardinality(Since(restrictStart)) = request + 1
        /\ 2 * Cardinality(JustBefore(restrictStart)) < CR_REQUESTS

(* Once one was refused the period begins with the last refusal.           *)
RefusedLast ==
    request > CR_REQUESTS =>
        /\ \E i \in Requests : ~received[i].permitted /\ received[i].at = restrictStart
        /\ \A i \in Requests : received[i].at <= restrictStart

LimitInv == LimitTypeOK /\ CountedTwice /\ RefusedLast /\ RequestsLimited

(* What RequestsLimited says of one request.                               *)
InPeriod(i) == {j \in 1 .. i - 1 : received[i].at - received[j].at <= CR_PERIOD}
Limited(i) ==
    LET refused == {j \in InPeriod(i) : ~received[j].permitted}
    IN  IF received[i].permitted
        THEN refused = {} /\ Cardinality(InPeriod(i)) < CR_REQUESTS
        ELSE refused # {} \/ Cardinality(InPeriod(i)) >= PeriodTakes

LEMMA LimitedEach == RequestsLimited <=> \A i \in Requests : Limited(i)
BY Zenon DEF RequestsLimited, Limited, InPeriod, Requests

LEMMA RequestsFinite ==
    ASSUME received \in Seq(Request)
    PROVE  /\ Len(received) \in Nat /\ Requests = 1 .. Len(received)
           /\ \A i \in Requests : /\ received[i] \in Request
                                  /\ received[i].at \in Nat /\ received[i].permitted \in BOOLEAN
           /\ \A S \in SUBSET Requests : IsFiniteSet(S) /\ Cardinality(S) \in Nat
           /\ \A S \in SUBSET Requests : \A T \in SUBSET S : Cardinality(T) <= Cardinality(S)
<1>1. /\ Len(received) \in Nat /\ Requests = 1 .. Len(received)
      /\ \A i \in Requests : received[i] \in Request
  BY LenProperties, ElementOfSeq DEF Requests
<1>2. \A i \in Requests : received[i].at \in Nat /\ received[i].permitted \in BOOLEAN
  BY <1>1, Zenon DEF Request
<1>3. IsFiniteSet(Requests)
  BY <1>1, FS_Interval
<1>4. \A S \in SUBSET Requests : IsFiniteSet(S) /\ Cardinality(S) \in Nat
  BY <1>3, FS_Subset, FS_CardinalityType
<1>5. \A S \in SUBSET Requests : \A T \in SUBSET S : Cardinality(T) <= Cardinality(S)
  BY <1>4, FS_Subset
<1> QED
  BY <1>1, <1>2, <1>4, <1>5

(* One more request: those of before keep their places, and their limits.  *)
LEMMA OneMoreRequest ==
    ASSUME LimitTypeOK, RequestsLimited, NEW b \in BOOLEAN, NEW n, n = Len(received) + 1,
           received' = Append(received, [at |-> seconds, permitted |-> b])
    PROVE  /\ received' \in Seq(Request) /\ Requests = 1 .. (n - 1) /\ n \in Nat
           /\ Requests' = Requests \union {n} /\ n \notin Requests
           /\ \A i \in Requests : received'[i] = received[i]
           /\ received'[n].at = seconds
           /\ b => received'[n].permitted
           /\ ~b => ~received'[n].permitted
           /\ InPeriod(n)' \subseteq Requests
           /\ \A j \in Requests : j \in InPeriod(n)' <=> seconds - received[j].at <= CR_PERIOD
           /\ \A i \in Requests : Limited(i)'
<1> DEFINE a == [at |-> seconds, permitted |-> b]
<1>1. a \in Request /\ a.at = seconds /\ a.permitted = b /\ received' = Append(received, a)
  BY DEF Request, LimitTypeOK
<1> HIDE DEF a
<1>2. /\ Len(received) \in Nat /\ Requests = 1 .. Len(received)
      /\ received \in Seq(Request)
  BY RequestsFinite DEF LimitTypeOK
<1>3. /\ received' \in Seq(Request) /\ Len(received') = n
      /\ \A i \in 1 .. Len(received) : received'[i] = received[i]
      /\ received'[n] = a
  BY <1>1, <1>2, AppendProperties
<1>4. Requests' = 1 .. n
  BY <1>3, LenProperties DEF Requests
<1>5. Requests = 1 .. (n - 1) /\ n \in Nat /\ Requests' = Requests \union {n} /\ n \notin Requests
  BY <1>2, <1>4
<1>6. /\ InPeriod(n)' \subseteq Requests
      /\ \A j \in Requests : j \in InPeriod(n)' <=> seconds - received[j].at <= CR_PERIOD
  BY <1>1, <1>3, <1>5 DEF InPeriod
<1>7. ASSUME NEW i \in Requests PROVE Limited(i)'
  <2>1. /\ i \in Nat /\ 1 .. (i - 1) \subseteq Requests
        /\ \A j \in Requests : received'[j] = received[j]
    BY <1>2, <1>3, <1>5
  <2>2. InPeriod(i)' = InPeriod(i) /\ InPeriod(i) \subseteq Requests
    BY <2>1 DEF InPeriod
  <2>3. {j \in InPeriod(i)' : ~received'[j].permitted} = {j \in InPeriod(i) : ~received[j].permitted}
    BY <2>1, <2>2
  <2>4. Limited(i)
    BY LimitedEach
  <2> QED
    BY <2>1, <2>2, <2>3, <2>4, Zenon DEF Limited
<1> QED
  BY <1>1, <1>2, <1>3, <1>5, <1>6, <1>7

LEMMA LimitInit == XmppInit => LimitInv
<1> SUFFICES ASSUME XmppInit PROVE LimitInv
  OBVIOUS
<1>1. /\ seconds = 1 /\ restrictStart = 0 /\ request = 0 /\ received = <<>>
  BY DEF XmppInit
<1> QED
  BY <1>1, XmppAssumption, EmptySeq DEF LimitInv, LimitTypeOK, CountedTwice, RefusedLast,
     RequestsLimited, Requests

(* The first request of a period: it is let through, and counts once.      *)
LEMMA FirstRequestInv ==
    ASSUME LimitInv, NewPeriod, NEW from, NEW ns, NEW c, cr_handler(from, ns, c)
    PROVE  LimitInv'
<1>n. PICK n : n = Len(received) + 1
  OBVIOUS
<1>0. /\ CR_PERIOD \in Nat /\ CR_REQUESTS \in Nat /\ CR_REQUESTS >= 1
      /\ seconds \in Nat /\ seconds > 0 /\ restrictStart \in Nat /\ request \in Nat
      /\ received \in Seq(Request) /\ LimitTypeOK /\ RequestsLimited
  BY XmppAssumption DEF LimitInv, LimitTypeOK
<1>1. /\ request' = 1 /\ restrictStart' = seconds /\ seconds' = seconds
      /\ received' = Append(received, [at |-> seconds, permitted |-> TRUE])
  BY Zenon DEF cr_handler, Permitted
<1>2. /\ received' \in Seq(Request) /\ Requests = 1 .. (n - 1) /\ n \in Nat
      /\ Requests' = Requests \union {n} /\ n \notin Requests
      /\ \A i \in Requests : received'[i] = received[i]
      /\ received'[n].at = seconds /\ received'[n].permitted
      /\ InPeriod(n)' \subseteq Requests
      /\ \A j \in Requests : j \in InPeriod(n)' <=> seconds - received[j].at <= CR_PERIOD
      /\ \A i \in Requests : Limited(i)'
  BY <1>0, <1>1, <1>n, OneMoreRequest, Zenon
<1>3. \A i \in Requests : received[i].at \in Nat
  BY <1>0, RequestsFinite
<1>f. /\ \A S \in SUBSET Requests : IsFiniteSet(S) /\ Cardinality(S) \in Nat
      /\ \A S \in SUBSET Requests : \A T \in SUBSET S : Cardinality(T) <= Cardinality(S)
  BY <1>0, RequestsFinite
<1>4. restrictStart = 0 => Requests = {}
  BY DEF LimitInv, LimitTypeOK, Requests
<1>5. seconds - restrictStart > CR_PERIOD \/ Requests = {}
  BY <1>4 DEF NewPeriod
<1>6. \A i \in Requests :
         /\ received[i].at < seconds
         /\ ~received[i].permitted => received[i].at + CR_PERIOD < seconds
  <2>1. CASE request <= CR_REQUESTS /\ restrictStart # 0
    BY <1>0, <1>3, <1>5, <2>1, SMTT(60) DEF LimitInv, CountedTwice
  <2>2. CASE request > CR_REQUESTS
    BY <1>0, <1>3, <1>5, <2>2 DEF LimitInv, RefusedLast
  <2> QED
    BY <1>0, <1>4, <2>1, <2>2
<1> DEFINE B == {i \in Requests : received[i].at + CR_PERIOD >= seconds}
<1>7. B \in SUBSET Requests /\ Cardinality(B) \in Nat
  BY <1>f
<1>8. 2 * Cardinality(B) < CR_REQUESTS
  <2>1. CASE request <= CR_REQUESTS /\ restrictStart # 0
    <3> DEFINE S == Since(restrictStart)
    <3>1. PICK k \in Requests : received[k].at = restrictStart
      BY <2>1 DEF LimitInv, CountedTwice
    <3>2. k \in S /\ k \notin B /\ S \in SUBSET Requests
      BY <1>0, <1>3, <1>5, <3>1 DEF Since
    <3>3. B \subseteq S \ {k}
      BY <1>0, <1>3, <1>5, <3>2 DEF Since
    <3>4. /\ Cardinality(S \ {k}) = Cardinality(S) - 1 /\ Cardinality(S) \in Nat
          /\ S \ {k} \in SUBSET Requests
      BY <1>f, <3>2, FS_RemoveElement
    <3>5. Cardinality(B) <= Cardinality(S \ {k})
      BY <1>f, <3>3, <3>4
    <3>6. 2 * Cardinality(S) = request + 1
      BY <2>1 DEF LimitInv, CountedTwice
    <3>7. ASSUME NEW b \in Nat, NEW s \in Nat, b <= s - 1, 2 * s = request + 1
          PROVE  2 * b < CR_REQUESTS
      <4>1. 2 * b <= 2 * s - 2 /\ request <= CR_REQUESTS
        BY <2>1, <3>7
      <4> QED
        BY <1>0, <3>7, <4>1
    <3>8. Cardinality(B) <= Cardinality(S) - 1 /\ Cardinality(S) \in Nat
      BY <3>4, <3>5
    <3> HIDE DEF B, S
    <3> QED
      BY <1>7, <3>6, <3>7, <3>8, Zenon
  <2>2. CASE request > CR_REQUESTS \/ restrictStart = 0
    <3>1. \A i \in Requests : received[i].at + CR_PERIOD < seconds
      BY <1>0, <1>3, <1>4, <1>5, <2>2 DEF LimitInv, RefusedLast
    <3>2. B = {}
      BY <1>0, <1>3, <3>1
    <3>3. Cardinality(B) = 0
      BY <3>2, FS_EmptySet
    <3> HIDE DEF B
    <3> QED
      BY <1>0, <3>3
  <2> QED
    BY <1>0, <2>1, <2>2
<1>9. LimitTypeOK'
  <2>1. \A i \in Requests' : received'[i].at <= seconds
    BY <1>0, <1>2, <1>3, <1>6
  <2> QED
    BY <1>0, <1>1, <1>2, <2>1 DEF LimitTypeOK
<1>10. CountedTwice'
  <2>1. Since(restrictStart)' = {n}
    <3>1. \A i : i \in Since(restrictStart)' <=> i \in Requests' /\ received'[i].at >= seconds
      BY <1>1 DEF Since
    <3> QED
      BY <1>0, <1>2, <1>3, <1>6, <3>1
  <2>2. JustBefore(restrictStart)' = B
    <3>1. \A i : i \in JustBefore(restrictStart)' <=>
             i \in Requests' /\ received'[i].at < seconds /\ received'[i].at + CR_PERIOD >= seconds
      BY <1>1 DEF JustBefore
    <3>2. \A i : i \in B <=> i \in Requests /\ received[i].at + CR_PERIOD >= seconds
      OBVIOUS
    <3>3. n \notin JustBefore(restrictStart)'
      BY <1>0, <1>2, <3>1
    <3>4. \A i \in Requests : i \in JustBefore(restrictStart)' <=> i \in B
      BY <1>2, <1>6, <3>1, <3>2
    <3> HIDE DEF B
    <3> QED
      BY <1>2, <3>1, <3>2, <3>3, <3>4
  <2>3. Since(restrictStart)' = {n} /\ JustBefore(restrictStart)' = B
    BY <2>1, <2>2
  <2>4. Cardinality(Since(restrictStart)') = 1
    BY <2>3, FS_Singleton
  <2>5. 2 * Cardinality(JustBefore(restrictStart)') < CR_REQUESTS
    BY <1>8, <2>3, Zenon
  <2>6. \A i \in Requests' : /\ received'[i].at <= restrictStart' + CR_PERIOD
                             /\ ~received'[i].permitted => received'[i].at + CR_PERIOD < restrictStart'
    <3> SUFFICES ASSUME NEW i \in Requests'
                 PROVE  /\ received'[i].at <= seconds + CR_PERIOD
                        /\ ~received'[i].permitted => received'[i].at + CR_PERIOD < seconds
      BY <1>1
    <3>1. CASE i = n
      BY <1>0, <1>2, <3>1
    <3>2. CASE i \in Requests
      <4>1. received'[i] = received[i]
        BY <1>2, <3>2
      <4>2. /\ received[i].at \in Nat /\ received[i].at < seconds
            /\ ~received[i].permitted => received[i].at + CR_PERIOD < seconds
        BY <1>3, <1>6, <3>2
      <4>3. received[i].at <= seconds + CR_PERIOD
        BY <1>0, <4>2
      <4> QED
        BY <4>1, <4>2, <4>3, Zenon
    <3>3. i = n \/ i \in Requests
      BY <1>2
    <3> QED
      BY <3>1, <3>2, <3>3, Zenon
  <2>7. \E i \in Requests' : received'[i].at = restrictStart'
    BY <1>1, <1>2
  <2>8. 2 * Cardinality(Since(restrictStart)') = request' + 1
    BY <1>1, <2>4
  <2> QED
    BY <2>5, <2>6, <2>7, <2>8, Zenon DEF CountedTwice
<1>11. RefusedLast'
  BY <1>0, <1>1 DEF RefusedLast
<1>12. Limited(n)'
  <2>2. InPeriod(n)' = B
    BY <1>0, <1>2, <1>3, SMTT(60)
  <2>a. ASSUME NEW j \in B PROVE received'[j].permitted
    <3>1. received[j].at \in Nat /\ received[j].at + CR_PERIOD >= seconds /\ j \in Requests
      BY <1>3
    <3>2. ~(~received[j].permitted)
      BY <1>0, <1>6, <3>1
    <3>3. received'[j] = received[j]
      BY <1>2, <3>1
    <3> QED
      BY <3>2, <3>3, Zenon
  <2>1. {j \in InPeriod(n)' : ~received'[j].permitted} = {}
    <3> HIDE DEF B
    <3> QED
      BY <2>2, <2>a
  <2>3. Cardinality(InPeriod(n)') < CR_REQUESTS
    <3> HIDE DEF B
    <3> QED
      BY <1>0, <1>7, <1>8, <2>2
  <2> QED
    BY <1>2, <2>1, <2>3, Zenon DEF Limited
<1>13. RequestsLimited'
  <2>1. \A i \in Requests' : Limited(i)'
    BY <1>2, <1>12
  <2> QED
    BY <2>1, Zenon DEF RequestsLimited, Limited, InPeriod, Requests
<1> QED
  BY <1>9, <1>10, <1>11, <1>13 DEF LimitInv

(* One more request of the period, counted twice, and let through.         *)
LEMMA NextRequestInv ==
    ASSUME LimitInv, ~NewPeriod, Permitted, NEW from, NEW ns, NEW c, cr_handler(from, ns, c)
    PROVE  LimitInv'
<1>n. PICK n : n = Len(received) + 1
  OBVIOUS
<1>0. /\ CR_PERIOD \in Nat /\ CR_REQUESTS \in Nat /\ CR_REQUESTS >= 1
      /\ seconds \in Nat /\ seconds > 0 /\ restrictStart \in Nat /\ request \in Nat
      /\ restrictStart <= seconds
      /\ received \in Seq(Request) /\ LimitTypeOK /\ RequestsLimited
  BY XmppAssumption DEF LimitInv, LimitTypeOK
<1>1. /\ request' = request + 2 /\ restrictStart' = restrictStart /\ seconds' = seconds
      /\ received' = Append(received, [at |-> seconds, permitted |-> TRUE])
  BY Zenon DEF cr_handler
<1>2. /\ received' \in Seq(Request) /\ Requests = 1 .. (n - 1) /\ n \in Nat
      /\ Requests' = Requests \union {n} /\ n \notin Requests
      /\ \A i \in Requests : received'[i] = received[i]
      /\ received'[n].at = seconds /\ received'[n].permitted
      /\ InPeriod(n)' \subseteq Requests
      /\ \A j \in Requests : j \in InPeriod(n)' <=> seconds - received[j].at <= CR_PERIOD
      /\ \A i \in Requests : Limited(i)'
  BY <1>0, <1>1, <1>n, OneMoreRequest, Zenon
<1>3. \A i \in Requests : received[i].at \in Nat
  BY <1>0, RequestsFinite
<1>f. /\ \A S \in SUBSET Requests : IsFiniteSet(S) /\ Cardinality(S) \in Nat
      /\ \A S \in SUBSET Requests : \A T \in SUBSET S : Cardinality(T) <= Cardinality(S)
  BY <1>0, RequestsFinite
<1>4. /\ restrictStart # 0 /\ seconds - restrictStart <= CR_PERIOD
      /\ request + 2 <= CR_REQUESTS
  BY <1>0 DEF NewPeriod, Permitted
<1> DEFINE S == Since(restrictStart)
           B == JustBefore(restrictStart)
<1>5. /\ \A i \in Requests :
            /\ received[i].at <= restrictStart + CR_PERIOD
            /\ ~received[i].permitted => received[i].at + CR_PERIOD < restrictStart
      /\ \E i \in Requests : received[i].at = restrictStart
      /\ 2 * Cardinality(S) = request + 1
      /\ 2 * Cardinality(B) < CR_REQUESTS
  BY <1>0, <1>4 DEF LimitInv, CountedTwice
<1>6. S \in SUBSET Requests /\ B \in SUBSET Requests /\ Cardinality(S) \in Nat /\ Cardinality(B) \in Nat
  BY <1>f DEF Since, JustBefore
<1>7. S' = S \union {n}
  <2>1. \A i : i \in S' <=> i \in Requests' /\ received'[i].at >= restrictStart
    BY <1>1 DEF Since
  <2>2. \A i : i \in S <=> i \in Requests /\ received[i].at >= restrictStart
    BY DEF Since
  <2> HIDE DEF S
  <2>3. n \in S'
    BY <1>0, <1>2, <2>1
  <2>4. \A i \in Requests : i \in S' <=> i \in S
    BY <1>2, <2>1, <2>2
  <2> QED
    BY <1>2, <2>1, <2>2, <2>3, <2>4
<1>8. B' = B
  <2>1. \A i : i \in B' <=> /\ i \in Requests' /\ received'[i].at < restrictStart
                            /\ received'[i].at + CR_PERIOD >= restrictStart
    BY <1>1 DEF JustBefore
  <2>2. \A i : i \in B <=> /\ i \in Requests /\ received[i].at < restrictStart
                           /\ received[i].at + CR_PERIOD >= restrictStart
    BY DEF JustBefore
  <2> HIDE DEF B
  <2>3. n \notin B'
    BY <1>0, <1>2, <2>1
  <2>4. \A i \in Requests : i \in B' <=> i \in B
    BY <1>2, <2>1, <2>2
  <2> QED
    BY <1>2, <2>1, <2>2, <2>3, <2>4
<1>9. Cardinality(S') = Cardinality(S) + 1
  BY <1>2, <1>6, <1>7, <1>f, FS_AddElement
<1>10. CountedTwice'
  <2>1. \A i \in Requests' : /\ received'[i].at <= restrictStart' + CR_PERIOD
                             /\ ~received'[i].permitted => received'[i].at + CR_PERIOD < restrictStart'
    <3> SUFFICES ASSUME NEW i \in Requests'
                 PROVE  /\ received'[i].at <= restrictStart + CR_PERIOD
                        /\ ~received'[i].permitted => received'[i].at + CR_PERIOD < restrictStart
      BY <1>1
    <3>1. CASE i = n
      BY <1>0, <1>2, <1>4, <3>1
    <3>2. CASE i \in Requests
      <4>1. received'[i] = received[i]
        BY <1>2, <3>2
      <4> QED
        BY <1>5, <3>2, <4>1, Zenon
    <3>3. i = n \/ i \in Requests
      BY <1>2
    <3> QED
      BY <3>1, <3>2, <3>3, Zenon
  <2>2. \E i \in Requests' : received'[i].at = restrictStart'
    BY <1>1, <1>2, <1>5
  <2>3. 2 * Cardinality(S') = request' + 1
    <3>1. ASSUME NEW s \in Nat, 2 * s = request + 1
          PROVE  2 * (s + 1) = request' + 1
      BY <1>0, <1>1, <3>1
    <3>2. 2 * (Cardinality(S) + 1) = request' + 1
      <4> HIDE DEF S
      <4> QED
        BY <1>5, <1>6, <3>1, Zenon
    <3> QED
      BY <1>9, <3>2, Zenon
  <2>4. 2 * Cardinality(B') < CR_REQUESTS
    BY <1>5, <1>8, Zenon
  <2> QED
    BY <2>1, <2>2, <2>3, <2>4, Zenon DEF CountedTwice
<1>11. Limited(n)'
  <2>1. {j \in InPeriod(n)' : ~received'[j].permitted} = {}
    <3> SUFFICES ASSUME NEW j \in InPeriod(n)', ~received'[j].permitted PROVE FALSE
      OBVIOUS
    <3>1. j \in Requests /\ received'[j] = received[j] /\ seconds - received[j].at <= CR_PERIOD
      BY <1>2
    <3>2. received[j].at + CR_PERIOD < restrictStart /\ received[j].at \in Nat
      BY <1>3, <1>5, <3>1
    <3> QED
      BY <1>0, <3>1, <3>2
  <2>2. InPeriod(n)' \subseteq S \union B
    <3> SUFFICES ASSUME NEW j \in InPeriod(n)' PROVE j \in S \union B
      OBVIOUS
    <3>1. j \in Requests /\ seconds - received[j].at <= CR_PERIOD /\ received[j].at \in Nat
      BY <1>2, <1>3
    <3> QED
      BY <1>0, <3>1 DEF Since, JustBefore
  <2>3. /\ IsFiniteSet(S \union B)
        /\ Cardinality(S \union B) = Cardinality(S) + Cardinality(B) - Cardinality(S \intersect B)
    BY <1>6, <1>f, FS_Union
  <2>4. Cardinality(S \intersect B) \in Nat
    BY <1>6, <1>f
  <2>5. /\ Cardinality(InPeriod(n)') <= Cardinality(S \union B)
        /\ Cardinality(InPeriod(n)') \in Nat /\ Cardinality(S \union B) \in Nat
    BY <2>2, <2>3, FS_Subset, FS_CardinalityType
  <2>6. ASSUME NEW s \in Nat, NEW b \in Nat, NEW x \in Nat, NEW u \in Nat, NEW y \in Nat,
               2 * s = request + 1, 2 * b < CR_REQUESTS, u = s + b - y, x <= u
        PROVE  x < CR_REQUESTS
    BY <1>0, <1>4, <2>6
  <2>7. Cardinality(InPeriod(n)') < CR_REQUESTS
    <3> HIDE DEF S, B
    <3> QED
      BY <1>5, <1>6, <2>3, <2>4, <2>5, <2>6, Zenon
  <2> QED
    BY <1>2, <2>1, <2>7, Zenon DEF Limited
<1>12. RequestsLimited'
  <2>1. \A i \in Requests' : Limited(i)'
    BY <1>2, <1>11
  <2> QED
    BY <2>1, Zenon DEF RequestsLimited, Limited, InPeriod, Requests
<1>13. LimitTypeOK' /\ RefusedLast'
  <2>1. \A i \in Requests' : received'[i].at <= seconds
    BY <1>0, <1>2 DEF LimitTypeOK
  <2>2. request' \in Nat /\ request' <= CR_REQUESTS /\ restrictStart' # 0
    BY <1>0, <1>1, <1>4
  <2>3. LimitTypeOK'
    BY <1>0, <1>1, <1>2, <2>1, <2>2 DEF LimitTypeOK
  <2> QED
    BY <1>0, <2>2, <2>3 DEF RefusedLast
<1> QED
  BY <1>10, <1>12, <1>13 DEF LimitInv

(* A request that is refused for the number of them.                       *)
LEMMA RefusedRequestInv ==
    ASSUME LimitInv, ~Permitted, NEW from, NEW ns, NEW c, cr_handler(from, ns, c)
    PROVE  LimitInv'
<1>n. PICK n : n = Len(received) + 1
  OBVIOUS
<1>0. /\ CR_PERIOD \in Nat /\ CR_REQUESTS \in Nat /\ CR_REQUESTS >= 1
      /\ seconds \in Nat /\ seconds > 0 /\ restrictStart \in Nat /\ request \in Nat
      /\ restrictStart <= seconds
      /\ received \in Seq(Request) /\ LimitTypeOK /\ RequestsLimited
  BY XmppAssumption DEF LimitInv, LimitTypeOK
<1>a. /\ ~NewPeriod /\ restrictStart # 0 /\ seconds - restrictStart <= CR_PERIOD
      /\ request + 2 > CR_REQUESTS
  BY <1>0 DEF NewPeriod, Permitted
<1>1. /\ request' = request + 2 /\ restrictStart' = seconds /\ seconds' = seconds
      /\ received' = Append(received, [at |-> seconds, permitted |-> FALSE])
  <2>1. Permitted = FALSE
    BY DEF Permitted
  <2> QED
    BY <1>a, <2>1, Zenon DEF cr_handler
<1>2. /\ received' \in Seq(Request) /\ Requests = 1 .. (n - 1) /\ n \in Nat
      /\ Requests' = Requests \union {n} /\ n \notin Requests
      /\ \A i \in Requests : received'[i] = received[i]
      /\ received'[n].at = seconds /\ ~received'[n].permitted
      /\ InPeriod(n)' \subseteq Requests
      /\ \A j \in Requests : j \in InPeriod(n)' <=> seconds - received[j].at <= CR_PERIOD
      /\ \A i \in Requests : Limited(i)'
  BY <1>0, <1>1, <1>n, OneMoreRequest, Zenon
<1>3. \A i \in Requests : received[i].at \in Nat
  BY <1>0, RequestsFinite
<1>f. /\ \A S \in SUBSET Requests : IsFiniteSet(S) /\ Cardinality(S) \in Nat
      /\ \A S \in SUBSET Requests : \A T \in SUBSET S : Cardinality(T) <= Cardinality(S)
  BY <1>0, RequestsFinite
<1>4. \A i \in Requests' : received'[i].at <= seconds
  BY <1>0, <1>2 DEF LimitTypeOK
<1>5. LimitTypeOK'
  <2>1. request' \in Nat /\ restrictStart' # 0
    BY <1>0, <1>1
  <2> QED
    BY <1>0, <1>1, <1>2, <1>4, <2>1 DEF LimitTypeOK
<1>6. CountedTwice' /\ RefusedLast'
  <2>1. request' > CR_REQUESTS /\ restrictStart' = seconds
    BY <1>1, <1>a
  <2>2. \E i \in Requests' : ~received'[i].permitted /\ received'[i].at = seconds
    BY <1>2
  <2>3. ~(request' <= CR_REQUESTS)
    BY <1>0, <1>1, <2>1
  <2>4. CountedTwice'
    BY <2>3, Zenon DEF CountedTwice
  <2>5. RefusedLast'
    BY <1>4, <2>1, <2>2, Zenon DEF RefusedLast
  <2> QED
    BY <2>4, <2>5
<1>7. Limited(n)'
  <2>1. CASE request > CR_REQUESTS
    <3>1. PICK i \in Requests : ~received[i].permitted /\ received[i].at = restrictStart
      BY <2>1 DEF LimitInv, RefusedLast
    <3>2. i \in InPeriod(n)' /\ ~received'[i].permitted
      BY <1>2, <1>a, <3>1
    <3> QED
      BY <1>2, <3>2, Zenon DEF Limited
  <2>2. CASE request <= CR_REQUESTS
    <3> DEFINE S == Since(restrictStart)
    <3>1. 2 * Cardinality(S) = request + 1
      BY <1>0, <1>a, <2>2 DEF LimitInv, CountedTwice
    <3>2. S \subseteq InPeriod(n)'
      <4>1. \A i \in S : i \in Requests /\ received[i].at >= restrictStart
        BY DEF Since
      <4> HIDE DEF S
      <4> QED
        BY <1>0, <1>2, <1>3, <1>a, <4>1
    <3>3. /\ Cardinality(S) <= Cardinality(InPeriod(n)') /\ Cardinality(InPeriod(n)') \in Nat
          /\ Cardinality(S) \in Nat
      BY <1>2, <1>f, <3>2
    <3>4. ASSUME NEW s \in Nat, NEW x \in Nat, 2 * s = request + 1, s <= x
          PROVE  x >= PeriodTakes
      BY <1>0, <1>a, <3>4 DEF PeriodTakes
    <3>5. Cardinality(InPeriod(n)') >= PeriodTakes
      <4> HIDE DEF S
      <4> QED
        BY <3>1, <3>3, <3>4, Zenon
    <3> QED
      BY <1>2, <3>5, Zenon DEF Limited
  <2> QED
    BY <1>0, <2>1, <2>2
<1>8. RequestsLimited'
  <2>1. \A i \in Requests' : Limited(i)'
    BY <1>2, <1>7
  <2> QED
    BY <2>1, Zenon DEF RequestsLimited, Limited, InPeriod, Requests
<1> QED
  BY <1>5, <1>6, <1>8 DEF LimitInv

LEMMA LimitStep == LimitInv /\ [XmppNext]_xmppVars => LimitInv'
<1> SUFFICES ASSUME LimitInv, [XmppNext]_xmppVars PROVE LimitInv'
  OBVIOUS
<1>1. ASSUME NEW from, NEW ns, NEW c, cr_handler(from, ns, c)
      PROVE  LimitInv'
  BY <1>1, FirstRequestInv, NextRequestInv, RefusedRequestInv
<1>2. CASE xmpp_second
  <2>1. /\ seconds' = seconds + 1 /\ UNCHANGED <<restrictStart, request, received>>
    BY <1>2 DEF xmpp_second
  <2>2. \A i \in Requests : received[i].at \in Nat
    BY RequestsFinite DEF LimitInv, LimitTypeOK
  <2>3. LimitTypeOK'
    BY <2>1, <2>2 DEF LimitInv, LimitTypeOK, Requests
  <2>4. CountedTwice'
    BY <2>1 DEF LimitInv, CountedTwice, Requests, Since, JustBefore
  <2>5. RefusedLast'
    BY <2>1 DEF LimitInv, RefusedLast, Requests
  <2>6. RequestsLimited'
    BY <2>1 DEF LimitInv, RequestsLimited
  <2> QED
    BY <2>3, <2>4, <2>5, <2>6 DEF LimitInv
<1>3. CASE Client \/ XmppOperations \/ UNCHANGED xmppVars
  <2>1. UNCHANGED <<seconds, restrictStart, request, received>>
    BY <1>3 DEF Client, XmppThread, connect_failed, connect_initiated, awake,
        thread_xmpp_client_listen, conn_handler_connect, conn_handler_lost, XmppOperations,
        add_xmpp_connection, delete_xmpp_connection, delete_xmpp_connection_all,
        set_xmpp_connection, cwmp_get_xmpp_param, crVars, xmppVars
  <2>3. LimitTypeOK'
    BY <2>1 DEF LimitInv, LimitTypeOK, Requests
  <2>4. CountedTwice'
    BY <2>1 DEF LimitInv, CountedTwice, Requests, Since, JustBefore
  <2>5. RefusedLast'
    BY <2>1 DEF LimitInv, RefusedLast, Requests
  <2>6. RequestsLimited'
    BY <2>1 DEF LimitInv, RequestsLimited
  <2> QED
    BY <2>3, <2>4, <2>5, <2>6 DEF LimitInv
<1> QED
  BY <1>1, <1>2, <1>3 DEF XmppNext, XmppRequests

(* For every limit and every period, and for any connections the ACS sets: *)
(* requests are limited as stated, with the double count of cr_handler,    *)
(* and the client gives up only after more attempts than are set and       *)
(* sleeps no longer than is set (cr_handler, conn_handler,                 *)
(* cwmp_xmpp_connect_client).                                              *)
THEOREM XmppAlwaysSound == XmppSpec => XmppSound
<1>1. XmppInit => ClientInv /\ LimitInv
  BY ClientInit, LimitInit
<1>2. ClientInv /\ LimitInv /\ [XmppNext]_xmppVars => (ClientInv /\ LimitInv)'
  BY ClientStep, LimitStep
<1>3. ClientInv /\ LimitInv /\ (ClientInv /\ LimitInv)' /\ [XmppNext]_xmppVars
          => [RequestsLimited' /\ Patient]_xmppVars
  BY ClientStep DEF ClientInv, LimitInv
<1>4. XmppInit /\ [][XmppNext]_xmppVars
          => [][RequestsLimited' /\ Patient]_xmppVars
  BY <1>1, <1>2, <1>3, PTL
<1> QED
  BY <1>4 DEF XmppSpec, XmppSound

-----------------------------------------------------------------------------
(***************************************************************************)
(* Configuration: what one option makes of its field.                      *)
(***************************************************************************)
Loader == {"scheduler", "command"}
Single == Field \ {"url", "amd_version", "supported_amd_version"}

(* Where nothing is read these keep what they had.                         *)
Plain == (TextOption \ {"xmpp_allowed_jid"}) \union SslOption \union {"dhcp_url_path"}
Flag == Switch \ {"xmpp_enable"}
Keeping == Plain \union Flag \union XmppOption \union {"lwn_enable"}
Versioned == {"compression", "retry_min_wait_interval", "retry_interval_multiplier"}
                 \union XmppOption

LEMMA FieldNames ==
    /\ Field = {"url", "amd_version", "supported_amd_version"} \union Single
    /\ Single = Keeping \union (Versioned \ XmppOption)
                  \union {"port", "periodic_inform_time", "session_timeout",
                          "periodic_inform_interval", "periodic_inform_enable", "instance_mode",
                          "lwn_hostname", "lwn_port"}
<1>1. {Order[k] : k \in Place} =
        {"log_file_name", "log_max_size", "log_to_console", "log_to_file", "dhcp_url_path",
         "url", "userid", "passwd", "amd_version", "compression", "retry_min_wait_interval",
         "retry_interval_multiplier", "ssl_capath", "https_ssl_capath", "http_disable_100continue",
         "insecure_enable", "ipv6_enable", "ssl_version", "interface", "cpe_userid", "cpe_passwd",
         "ubus_socket", "log_severity", "port", "periodic_inform_time", "periodic_inform_interval",
         "periodic_inform_enable", "instance_mode", "session_timeout", "xmpp_enable", "xmpp_id",
         "xmpp_allowed_jid", "default_url", "lwn_enable", "lwn_hostname", "lwn_port"}
  BY DEF Place, Order
<1>2. \A f : f \in Field <=>
         f \in {"url", "amd_version", "supported_amd_version"} \union Single
  BY <1>1 DEF Field, Single, LogOption
<1>3. \A f : f \in Single <=> f \in
         {"dhcp_url_path", "userid", "passwd", "compression", "retry_min_wait_interval",
          "retry_interval_multiplier", "ssl_capath", "https_ssl_capath", "http_disable_100continue",
          "insecure_enable", "ipv6_enable", "ssl_version", "interface", "cpe_userid", "cpe_passwd",
          "ubus_socket", "port", "periodic_inform_time", "periodic_inform_interval",
          "periodic_inform_enable", "instance_mode", "session_timeout", "xmpp_enable", "xmpp_id",
          "xmpp_allowed_jid", "lwn_enable", "lwn_hostname", "lwn_port"}
  BY <1>1 DEF Field, Single, LogOption
<1>4. \A f : f \in Keeping <=> f \in
         {"dhcp_url_path", "userid", "passwd", "ssl_capath", "https_ssl_capath", "http_disable_100continue",
          "insecure_enable", "ipv6_enable", "ssl_version", "interface", "cpe_userid", "cpe_passwd",
          "ubus_socket", "xmpp_enable", "xmpp_id", "xmpp_allowed_jid", "lwn_enable"}
  BY DEF Keeping, Plain, Flag, XmppOption, TextOption, SslOption, Switch
<1> QED
  BY <1>2, <1>3, <1>4 DEF Versioned, XmppOption

(* FieldRead, class by class.                                              *)
LEMMA PlainRead ==
    ASSUME NEW o \in Plain, NEW v, NEW old, NEW version, NEW url
    PROVE  FieldRead(o, v, old, version, url) = IF v = Absent THEN old ELSE v
BY Zenon DEF FieldRead, Plain, TextOption, SslOption, XmppOption, LwnOption, Switch

LEMMA FlagRead ==
    ASSUME NEW o \in Flag, NEW v, NEW old, NEW version, NEW url
    PROVE  FieldRead(o, v, old, version, url) = (old \/ v = "true")
BY Zenon DEF FieldRead, Flag, XmppOption, LwnOption, Switch

LEMMA XmppFieldRead ==
    ASSUME NEW o \in XmppOption, NEW v, NEW old, NEW version, NEW url
    PROVE  FieldRead(o, v, old, version, url) = XmppRead(version, o, v, old)
BY Zenon DEF FieldRead, XmppOption, LwnOption, Switch

LEMMA LwnFieldRead ==
    ASSUME NEW o \in LwnOption, NEW v, NEW old, NEW version, NEW url
    PROVE  FieldRead(o, v, old, version, url) = get_lwn_config(url, o, v, old)
BY Zenon DEF FieldRead, XmppOption, LwnOption, Switch

LEMMA NumberRead ==
    ASSUME NEW v, NEW old, NEW version, NEW url
    PROVE  /\ FieldRead("compression", v, old, version, url) = Compression(version, v)
           /\ \A o \in {"retry_min_wait_interval", "retry_interval_multiplier"} :
                 FieldRead(o, v, old, version, url) = RetryRead(version, o, v)
           /\ \A o \in {"port", "periodic_inform_time", "session_timeout"} :
                 FieldRead(o, v, old, version, url) = OrDefault(o, v)
           /\ FieldRead("periodic_inform_interval", v, old, version, url) = Interval(v)
           /\ FieldRead("periodic_inform_enable", v, old, version, url) = (v = "true")
           /\ FieldRead("instance_mode", v, old, version, url) = get_instance_mode_config(v)
<1>1. FieldRead("compression", v, old, version, url) = Compression(version, v)
  BY Zenon DEF FieldRead, XmppOption, LwnOption, Switch
<1>2. \A o \in {"retry_min_wait_interval", "retry_interval_multiplier"} :
                 FieldRead(o, v, old, version, url) = RetryRead(version, o, v)
  BY Zenon DEF FieldRead, XmppOption, LwnOption, Switch
<1>3. \A o \in {"port", "periodic_inform_time", "session_timeout"} :
                 FieldRead(o, v, old, version, url) = OrDefault(o, v)
  BY Zenon DEF FieldRead, XmppOption, LwnOption, Switch
<1>4. FieldRead("periodic_inform_interval", v, old, version, url) = Interval(v)
  BY Zenon DEF FieldRead, XmppOption, LwnOption, Switch
<1>5. FieldRead("periodic_inform_enable", v, old, version, url) = (v = "true")
  BY Zenon DEF FieldRead, XmppOption, LwnOption, Switch
<1>6. FieldRead("instance_mode", v, old, version, url) = get_instance_mode_config(v)
  BY Zenon DEF FieldRead, XmppOption, LwnOption, Switch
<1> QED
  BY <1>1, <1>2, <1>3, <1>4, <1>5, <1>6

LEMMA Lwn ==
    ASSUME NEW url, NEW v, NEW old
    PROVE  /\ get_lwn_config(url, "lwn_enable", v, old) = (IF v = Absent THEN old ELSE v = "true")
           /\ get_lwn_config(url, "lwn_hostname", v, old) = (IF v = Absent THEN url ELSE v)
           /\ get_lwn_config(url, "lwn_port", v, old) = (IF v = Absent THEN Default["lwn_port"] ELSE v)
BY Zenon DEF get_lwn_config

LEMMA XmppReads ==
    ASSUME NEW v, NEW old, NEW version, ~(version < AMD_5)
    PROVE  /\ XmppRead(version, "xmpp_enable", v, old) = (old \/ v = "true")
           /\ XmppRead(version, "xmpp_id", v, old) = OrDefault("xmpp_id", v)
           /\ XmppRead(version, "xmpp_allowed_jid", v, old) = IF v = Absent THEN old ELSE v
BY Zenon DEF XmppRead

LEMMA ConfCleared ==
    /\ memset_conf.amd_version = 0 /\ memset_conf.supported_amd_version = 0
    /\ memset_conf.url = Absent
    /\ \A o \in Plain \union {"xmpp_allowed_jid"} : memset_conf[o] = Absent
    /\ \A o \in Flag \union {"xmpp_enable", "lwn_enable"} : memset_conf[o] = FALSE
<1>1. \A f \in Field : memset_conf[f] =
         CASE f \in NumberOption \union {"supported_amd_version"} -> 0
           [] f = "compression" -> "none"
           [] f = "instance_mode" -> "number"
           [] f \in Switch \union {"periodic_inform_enable", "lwn_enable"} -> FALSE
           [] OTHER -> Absent
  BY Zenon DEF memset_conf
<1>2. Plain \union Flag \union {"amd_version", "supported_amd_version", "url", "xmpp_allowed_jid",
                               "xmpp_enable", "lwn_enable"} \subseteq Field
  BY FieldNames DEF Keeping, XmppOption
<1>3. memset_conf.amd_version = 0 /\ memset_conf.supported_amd_version = 0
  <2>1. /\ "amd_version" \in Field /\ "supported_amd_version" \in Field
        /\ "amd_version" \in NumberOption
    BY <1>2 DEF NumberOption
  <2>2. memset_conf["amd_version"] = 0
    BY <1>1, <2>1, Zenon DEF Switch
  <2>3. memset_conf["supported_amd_version"] = 0
    BY <1>1, <2>1, Zenon DEF Switch
  <2> QED
    BY <2>2, <2>3
<1>4. memset_conf.url = Absent
  BY <1>1, <1>2, Zenon DEF NumberOption, Switch
<1>5. ASSUME NEW o \in Plain \union {"xmpp_allowed_jid"}
      PROVE  memset_conf[o] = Absent
  <2>1. o \in Field
    BY <1>2
  <2>2. /\ o \notin NumberOption \union {"supported_amd_version"} /\ o # "compression"
        /\ o # "instance_mode" /\ o \notin Switch \union {"periodic_inform_enable", "lwn_enable"}
    BY DEF NumberOption, Switch, Plain, TextOption, SslOption
  <2> QED
    BY <1>1, <2>1, <2>2, Zenon
<1>6. ASSUME NEW o \in Flag \union {"xmpp_enable", "lwn_enable"}
      PROVE  memset_conf[o] = FALSE
  <2>1. o \in Field
    BY <1>2
  <2> QED
    BY <1>1, <2>1, Zenon DEF NumberOption, Switch, Flag
<1> QED
  BY <1>3, <1>4, <1>5, <1>6

(* The address the options name, if they do, and the version.              *)
UrlOf(opts) == AcsUrl(memset_conf, opts)
VersionIn(opts) == OrDefault("amd_version", opts.amd_version)

LEMMA UrlRead ==
    ASSUME NEW c, NEW opts
    PROVE  AcsUrl(c, opts) = IF UrlOf(opts) = Absent THEN c.url ELSE UrlOf(opts)
BY ConfCleared DEF AcsUrl, UrlOf

LEMMA FreshFields ==
    ASSUME NEW opts
    PROVE  /\ DOMAIN Fresh(opts) = Field
           /\ Fresh(opts).amd_version = VersionIn(opts)
           /\ Fresh(opts).supported_amd_version = VersionIn(opts)
           /\ Fresh(opts).url = IF UrlOf(opts) = Absent THEN Default.url ELSE UrlOf(opts)
           /\ \A o \in Single : Fresh(opts)[o] =
                 FieldRead(o, opts[o], memset_conf[o], VersionIn(opts), Fresh(opts).url)
<1> DEFINE url == IF UrlOf(opts) = Absent THEN Default.url ELSE UrlOf(opts)
<1>1. Fresh(opts) = [f \in Field |->
            CASE f \in {"amd_version", "supported_amd_version"} -> VersionIn(opts)
              [] f = "url" -> url
              [] OTHER -> FieldRead(f, opts[f], memset_conf[f], VersionIn(opts), url)]
  BY Zenon DEF Fresh, UrlOf, VersionIn
<1>2. \A f \in Field : Fresh(opts)[f] =
            CASE f \in {"amd_version", "supported_amd_version"} -> VersionIn(opts)
              [] f = "url" -> url
              [] OTHER -> FieldRead(f, opts[f], memset_conf[f], VersionIn(opts), url)
  BY <1>1, Zenon
<1>3. {"url", "amd_version", "supported_amd_version"} \union Single = Field
  BY FieldNames
<1> HIDE DEF url
<1>4. DOMAIN Fresh(opts) = Field
  BY <1>1, Zenon
<1>5. /\ Fresh(opts).amd_version = VersionIn(opts)
      /\ Fresh(opts).supported_amd_version = VersionIn(opts)
  BY <1>2, <1>3, Zenon
<1>6. Fresh(opts).url = url
  BY <1>2, <1>3, Zenon
<1>7. ASSUME NEW o \in Single
      PROVE  Fresh(opts)[o] = FieldRead(o, opts[o], memset_conf[o], VersionIn(opts), url)
  <2>1. o \in Field /\ o \notin {"amd_version", "supported_amd_version", "url"}
    BY DEF Single
  <2> QED
    BY <1>2, <2>1, Zenon
<1> QED
  BY <1>4, <1>5, <1>6, <1>7 DEF url

(* Reading an option again, or with another version known, changes nothing *)
(* that is right already.                                                  *)
LEMMA KeepingRead ==
    ASSUME NEW o \in Keeping, NEW v, NEW final, NEW version \in {0, final}, NEW u, NEW url,
           NEW old \in {memset_conf[o], FieldRead(o, v, memset_conf[o], final, u)}
    PROVE  /\ FieldRead(o, v, old, version, url)
                 \in {memset_conf[o], FieldRead(o, v, memset_conf[o], final, u)}
           /\ version = final \/ o \notin XmppOption
                 => FieldRead(o, v, old, version, url) = FieldRead(o, v, memset_conf[o], final, u)
<1> DEFINE m == memset_conf[o]
<1>1. CASE o \in Plain
  BY <1>1, PlainRead
<1>2. CASE o \in Flag
  <2>1. m = FALSE
    BY <1>2, ConfCleared
  <2>2. FieldRead(o, v, m, final, u) = (FALSE \/ v = "true")
    BY <1>2, <2>1, FlagRead
  <2>3. FieldRead(o, v, old, version, url) = (old \/ v = "true")
    BY <1>2, FlagRead
  <2>4. old \in BOOLEAN /\ (old => v = "true")
    BY <2>1, <2>2
  <2> QED
    BY <2>2, <2>3, <2>4
<1>3. CASE o = "lwn_enable"
  <2>1. \A x, y, z : FieldRead(o, v, x, y, z) = IF v = Absent THEN x ELSE v = "true"
    BY <1>3, LwnFieldRead, Lwn DEF LwnOption
  <2> QED
    BY <2>1
<1>4. CASE o \in XmppOption
  <2>1. \A x, y, z : FieldRead(o, v, x, y, z) = XmppRead(y, o, v, x)
    BY <1>4, XmppFieldRead
  <2>2. CASE version < AMD_5
    <3>1. FieldRead(o, v, old, version, url) = old
      BY <2>1, <2>2 DEF XmppRead
    <3>2. CASE version = final
      <4>1. FieldRead(o, v, m, final, u) = m
        BY <2>1, <2>2, <3>2 DEF XmppRead
      <4> QED
        BY <3>1, <4>1
    <3> QED
      BY <1>4, <3>1, <3>2
  <2>3. CASE ~(version < AMD_5)
    <3>1. version = final
      BY <2>3 DEF AMD_5
    <3>2. CASE o = "xmpp_enable"
      <4>1. m = FALSE
        BY <3>2, ConfCleared
      <4>2. FieldRead(o, v, m, final, u) = (FALSE \/ v = "true")
        BY <2>1, <2>3, <3>1, <3>2, <4>1, XmppReads
      <4>3. FieldRead(o, v, old, version, url) = (old \/ v = "true")
        BY <2>1, <2>3, <3>2, XmppReads
      <4>4. old \in BOOLEAN /\ (old => v = "true")
        BY <4>1, <4>2
      <4> QED
        BY <4>2, <4>3, <4>4
    <3>3. CASE o = "xmpp_id"
      BY <2>1, <2>3, <3>1, <3>3, XmppReads
    <3>4. CASE o = "xmpp_allowed_jid"
      BY <2>1, <2>3, <3>1, <3>4, XmppReads
    <3> QED
      BY <1>4, <3>2, <3>3, <3>4 DEF XmppOption
  <2> QED
    BY <2>2, <2>3
<1> QED
  BY <1>1, <1>2, <1>3, <1>4 DEF Keeping

LEMMA OtherRead ==
    ASSUME NEW o \in Single \ Keeping, NEW v, NEW old1, NEW old2, NEW v1, NEW v2, NEW u1, NEW u2,
           o \in Versioned => v1 = v2, o = "lwn_hostname" => u1 = u2
    PROVE  FieldRead(o, v, old1, v1, u1) = FieldRead(o, v, old2, v2, u2)
<1>1. CASE o = "compression"
  BY <1>1, NumberRead DEF Versioned
<1>2. CASE o \in {"retry_min_wait_interval", "retry_interval_multiplier"}
  BY <1>2, NumberRead DEF Versioned
<1>3. CASE o \in {"port", "periodic_inform_time", "session_timeout"}
  BY <1>3, NumberRead
<1>4. CASE o \in {"periodic_inform_interval", "periodic_inform_enable", "instance_mode"}
  BY <1>4, NumberRead
<1>5. CASE o \in {"lwn_hostname", "lwn_port"}
  BY <1>5, LwnFieldRead, Lwn DEF LwnOption
<1> QED
  BY <1>1, <1>2, <1>3, <1>4, <1>5, FieldNames DEF Versioned

-----------------------------------------------------------------------------
(***************************************************************************)
(* A load, position by position.                                           *)
(***************************************************************************)
Final == 37      \* the position behind the last option
Until(k) == {Order[i] : i \in 1 .. k - 1}

LEMMA PlaceOf ==
    ASSUME NEW k \in Place
    PROVE  /\ Order[k] = "url" => k = 6
           /\ Order[k] = "amd_version" => k = 9
           /\ Order[k] \in Versioned => k \in {10, 11, 12, 30, 31, 32}
           /\ Order[k] = "default_url" => k = 33
           /\ Order[k] = "lwn_hostname" => k = 35
BY DEF Place, Order, Versioned, XmppOption

LEMMA Orders ==
    /\ Place = 1 .. 36 /\ Len(Order) = 36
    /\ Order[6] = "url" /\ Order[9] = "amd_version" /\ Order[33] = "default_url"
    /\ \A k \in Place : Order[k] \in LogOption \union {"url", "default_url", "amd_version"} \union Single
    /\ Single \subseteq Until(Final)
<1>1. Place = 1 .. 36 /\ Len(Order) = 36
  BY DEF Place, Order
<1>2. Order[6] = "url" /\ Order[9] = "amd_version" /\ Order[33] = "default_url"
  BY DEF Order
<1>3. ASSUME NEW k \in Place
      PROVE  Order[k] \in LogOption \union {"url", "default_url", "amd_version"} \union Single
  <2>1. Order[k] # "supported_amd_version"
    BY DEF Order, Place
  <2>2. CASE Order[k] \in LogOption \union {"default_url", "url", "amd_version"}
    BY <2>2
  <2>3. CASE Order[k] \notin LogOption \union {"default_url", "url", "amd_version"}
    <3>1. Order[k] \in Field
      BY <2>3 DEF Field
    <3> QED
      BY <2>1, <2>3, <3>1 DEF Single
  <2> QED
    BY <2>2, <2>3
<1>4. ASSUME NEW o \in Single
      PROVE  o \in Until(Final)
  <2>1. o \in {Order[k] : k \in Place}
    <3>1. o \in Field /\ o # "supported_amd_version"
      BY DEF Single
    <3> QED
      BY <3>1 DEF Field
  <2>2. PICK k \in Place : o = Order[k]
    BY <2>1
  <2> QED
    BY <1>1, <2>2 DEF Until, Final
<1> QED
  BY <1>1, <1>2, <1>3, <1>4

(* What has been read contains what it went by.                            *)
Closed(B) ==
    /\ \A o \in Versioned : o \in B => "amd_version" \in B
    /\ "default_url" \in B => "url" \in B
    /\ "lwn_hostname" \in B => "default_url" \in B

LEMMA BeforeClosed ==
    ASSUME NEW k \in 1 .. Final
    PROVE  /\ Closed(Until(k))
           /\ k < Final => Until(k + 1) = Until(k) \union {Order[k]}
<1>1. \A i \in 1 .. k - 1 : i \in Place
  BY Orders DEF Final
<1>2. ASSUME NEW o \in Versioned, o \in Until(k)
      PROVE  "amd_version" \in Until(k)
  <2>1. PICK i \in 1 .. k - 1 : o = Order[i]
    BY <1>2 DEF Until
  <2>2. i \in {10, 11, 12, 30, 31, 32}
    BY <1>1, <1>2, <2>1, PlaceOf
  <2>3. 9 \in 1 .. k - 1
    BY <2>1, <2>2 DEF Final
  <2> QED
    BY <2>3, Orders DEF Until
<1>3. ASSUME "default_url" \in Until(k)
      PROVE  "url" \in Until(k)
  <2>1. PICK i \in 1 .. k - 1 : "default_url" = Order[i]
    BY <1>3 DEF Until
  <2>2. i = 33
    BY <1>1, <2>1, PlaceOf
  <2>3. 6 \in 1 .. k - 1
    BY <2>1, <2>2 DEF Final
  <2> QED
    BY <2>3, Orders DEF Until
<1>4. ASSUME "lwn_hostname" \in Until(k)
      PROVE  "default_url" \in Until(k)
  <2>1. PICK i \in 1 .. k - 1 : "lwn_hostname" = Order[i]
    BY <1>4 DEF Until
  <2>2. i = 35
    BY <1>1, <2>1, PlaceOf
  <2>3. 33 \in 1 .. k - 1
    BY <2>1, <2>2 DEF Final
  <2> QED
    BY <2>3, Orders DEF Until
<1>5. k < Final => Until(k + 1) = Until(k) \union {Order[k]}
  BY DEF Until, Final
<1> QED
  BY <1>2, <1>3, <1>4, <1>5 DEF Closed

(* The configuration c when the options of B were read from opts, some of  *)
(* them perhaps twice, after it was cleared.                               *)
VersionRight(c, opts, B) ==
    \A f \in {"amd_version", "supported_amd_version"} :
        /\ c[f] \in {0, VersionIn(opts)}
        /\ "amd_version" \in B => c[f] = VersionIn(opts)
UrlRight(c, opts, B) ==
    /\ UrlOf(opts) = Absent => c.url \in {Absent, Default.url}
    /\ "url" \in B /\ UrlOf(opts) # Absent => c.url = UrlOf(opts)
    /\ "default_url" \in B => c.url = Fresh(opts).url
KeptRight(c, opts) == \A o \in Keeping : c[o] \in {memset_conf[o], Fresh(opts)[o]}
Right(c, opts, B, refused) ==
    /\ DOMAIN c = Field
    /\ VersionRight(c, opts, B) /\ UrlRight(c, opts, B) /\ KeptRight(c, opts)
    /\ \A o \in Single : o \in B => c[o] = Fresh(opts)[o] \/ (o = "compression" /\ refused)

LEMMA SingleRead ==
    ASSUME NEW c, NEW opts, DOMAIN c = Field, NEW o \in Single
    PROVE  OptionRead(c, o, opts)
             = [c EXCEPT ![o] = FieldRead(o, opts[o], c[o], c.amd_version, c.url)]
<1>1. o \notin LogOption /\ o \notin {"url", "default_url", "amd_version"}
  BY DEF Single, Field
<1> QED
  BY <1>1, Zenon DEF OptionRead

LEMMA VersionRead ==
    ASSUME NEW c, NEW opts
    PROVE  OptionRead(c, "amd_version", opts) =
             [c EXCEPT !.amd_version = VersionIn(opts), !.supported_amd_version = VersionIn(opts)]
<1>1. OptionRead(c, "amd_version", opts) = get_amd_version_config(c, opts["amd_version"])
  BY Zenon DEF OptionRead, LogOption
<1> QED
  BY <1>1 DEF get_amd_version_config, VersionIn

LEMMA OtherOptionRead ==
    ASSUME NEW c, NEW opts, NEW o, o \in LogOption \union {"url", "default_url", "amd_version"}
    PROVE  /\ o \in LogOption => OptionRead(c, o, opts) = c
           /\ o = "url" => OptionRead(c, o, opts) = [c EXCEPT !.url = AcsUrl(c, opts)]
           /\ o = "default_url" => OptionRead(c, o, opts) =
                 [c EXCEPT !.url = IF c.url = Absent THEN Default.url ELSE c.url]
           /\ o = "amd_version" => OptionRead(c, o, opts) =
                 [c EXCEPT !.amd_version = VersionIn(opts), !.supported_amd_version = VersionIn(opts)]
<1>1. o \in LogOption => OptionRead(c, o, opts) = c
  BY Zenon DEF OptionRead, LogOption
<1>2. o = "url" => OptionRead(c, o, opts) = [c EXCEPT !.url = AcsUrl(c, opts)]
  BY Zenon DEF OptionRead, LogOption
<1>3. o = "default_url" => OptionRead(c, o, opts) =
                 [c EXCEPT !.url = IF c.url = Absent THEN Default.url ELSE c.url]
  BY Zenon DEF OptionRead, LogOption
<1>4. o = "amd_version" => OptionRead(c, o, opts) = get_amd_version_config(c, opts["amd_version"])
  BY Zenon DEF OptionRead, LogOption
<1> QED
  BY <1>1, <1>2, <1>3, <1>4 DEF get_amd_version_config, VersionIn

LEMMA ReadRight ==
    ASSUME NEW c, NEW opts, NEW refused, NEW B, NEW D,
           NEW o \in LogOption \union {"url", "default_url", "amd_version"} \union Single,
           Right(c, opts, B, refused), D = B \/ D = B \union {o}, Closed(D)
    PROVE  Right(OptionRead(c, o, opts), opts, D, refused)
<1> DEFINE d == OptionRead(c, o, opts)
<1>1. /\ DOMAIN c = Field /\ VersionRight(c, opts, B) /\ UrlRight(c, opts, B) /\ KeptRight(c, opts)
      /\ \A x \in Single : x \in B => c[x] = Fresh(opts)[x] \/ (x = "compression" /\ refused)
  BY DEF Right
<1>2. \A x : x \in D => x \in B \/ x = o
  OBVIOUS
<1>3. /\ Keeping \subseteq Single /\ Single \subseteq Field
      /\ {"url", "amd_version", "supported_amd_version"} \subseteq Field
      /\ Single \intersect {"url", "default_url", "amd_version", "supported_amd_version"} = {}
      /\ LogOption \intersect Single = {}
  <2>1. Keeping \subseteq Single
    BY FieldNames
  <2>2. Single \subseteq Field /\ {"url", "amd_version", "supported_amd_version"} \subseteq Field
    BY FieldNames
  <2>3. \A x \in Single : x \notin LogOption /\ x # "default_url"
    BY FieldNames DEF Single, Field
  <2> QED
    BY <2>1, <2>2, <2>3 DEF Single
<1>4. LogOption \intersect {"url", "default_url", "amd_version"} = {}
  BY DEF LogOption
<1>5. CASE o \in LogOption
  <2>1. d = c
    BY <1>5, OtherOptionRead
  <2>2. \A x \in Single \union {"url", "default_url", "amd_version"} : x \in D => x \in B
    BY <1>2, <1>3, <1>4, <1>5
  <2> HIDE DEF d
  <2>3. VersionRight(d, opts, D) /\ UrlRight(d, opts, D) /\ KeptRight(d, opts)
    BY <1>1, <2>1, <2>2 DEF VersionRight, UrlRight
  <2> QED
    BY <1>1, <2>1, <2>2, <2>3 DEF Right, d
<1>6. CASE o \in {"url", "default_url"}
  <2> DEFINE url == IF o = "url" THEN AcsUrl(c, opts)
                    ELSE IF c.url = Absent THEN Default.url ELSE c.url
  <2>1. d = [c EXCEPT !.url = url]
    BY <1>6, OtherOptionRead, ZenonT(90)
  <2> HIDE DEF url
  <2>2. DOMAIN d = Field /\ d.url = url /\ \A x \in Field \ {"url"} : d[x] = c[x]
    BY <1>1, <1>3, <2>1
  <2> HIDE DEF d
  <2>3. \A x \in Single \union {"amd_version"} : x \in D => x \in B
    BY <1>2, <1>3, <1>6
  <2>4. VersionRight(d, opts, D)
    BY <1>1, <1>3, <2>2, <2>3 DEF VersionRight
  <2>5. KeptRight(d, opts)
    BY <1>1, <1>3, <2>2 DEF KeptRight
  <2>6. UrlRight(d, opts, D)
    <3>1. CASE o = "url"
      <4>1. url = IF UrlOf(opts) = Absent THEN c.url ELSE UrlOf(opts)
        BY <3>1, UrlRead DEF url
      <4>2. "default_url" \in D => "default_url" \in B
        BY <1>2, <3>1
      <4> QED
        BY <1>1, <2>2, <4>1, <4>2, FreshFields DEF UrlRight
    <3>2. CASE o = "default_url"
      <4>1. url = IF c.url = Absent THEN Default.url ELSE c.url
        BY <3>2 DEF url
      <4>2. "url" \in D => "url" \in B
        BY <1>2, <3>2
      <4>3. "default_url" \in D => "url" \in D
        BY DEF Closed
      <4> QED
        BY <1>1, <2>2, <4>1, <4>2, <4>3, FreshFields DEF UrlRight
    <3> QED
      BY <1>6, <3>1, <3>2
  <2>7. \A x \in Single : x \in D => d[x] = Fresh(opts)[x] \/ (x = "compression" /\ refused)
    BY <1>1, <1>3, <2>2, <2>3
  <2> QED
    BY <2>2, <2>4, <2>5, <2>6, <2>7 DEF Right, d
<1>7. CASE o = "amd_version"
  <2>1. d = [c EXCEPT !.amd_version = VersionIn(opts), !.supported_amd_version = VersionIn(opts)]
    BY <1>7, OtherOptionRead, ZenonT(90)
  <2>2. /\ DOMAIN d = Field
        /\ d.amd_version = VersionIn(opts) /\ d.supported_amd_version = VersionIn(opts)
        /\ \A x \in Field \ {"amd_version", "supported_amd_version"} : d[x] = c[x]
    BY <1>1, <1>3, <2>1
  <2> HIDE DEF d
  <2>3. \A x \in Single \union {"url", "default_url"} : x \in D => x \in B
    BY <1>2, <1>3, <1>7
  <2>4. VersionRight(d, opts, D)
    BY <2>2 DEF VersionRight
  <2>5. KeptRight(d, opts)
    BY <1>1, <1>3, <2>2 DEF KeptRight
  <2>6. UrlRight(d, opts, D)
    <3>1. d.url = c.url
      BY <1>3, <2>2
    <3> QED
      BY <1>1, <2>3, <3>1 DEF UrlRight
  <2>7. \A x \in Single : x \in D => d[x] = Fresh(opts)[x] \/ (x = "compression" /\ refused)
    BY <1>1, <1>3, <2>2, <2>3
  <2> QED
    BY <2>2, <2>4, <2>5, <2>6, <2>7 DEF Right, d
<1>8. CASE o \in Single
  <2> DEFINE new == FieldRead(o, opts[o], c[o], c.amd_version, c.url)
  <2>1. d = [c EXCEPT ![o] = new]
    BY <1>1, <1>8, SingleRead
  <2> HIDE DEF new
  <2>2. DOMAIN d = Field /\ d[o] = new /\ \A x \in Field \ {o} : d[x] = c[x]
    BY <1>1, <1>3, <1>8, <2>1
  <2> HIDE DEF d
  <2>3. /\ \A x \in {"url", "default_url", "amd_version"} : x \in D => x \in B
        /\ d.url = c.url /\ d.amd_version = c.amd_version
        /\ d.supported_amd_version = c.supported_amd_version
    BY <1>2, <1>3, <1>8, <2>2
  <2>4. VersionRight(d, opts, D)
    BY <1>1, <2>3 DEF VersionRight
  <2>5. UrlRight(d, opts, D)
    BY <1>1, <2>3 DEF UrlRight
  <2>6. Fresh(opts)[o] = FieldRead(o, opts[o], memset_conf[o], VersionIn(opts), Fresh(opts).url)
    BY <1>8, FreshFields
  <2>7. c.amd_version \in {0, VersionIn(opts)}
        /\ ("amd_version" \in B => c.amd_version = VersionIn(opts))
    BY <1>1 DEF VersionRight
  <2>8. o \in Keeping =>
          /\ new \in {memset_conf[o], Fresh(opts)[o]}
          /\ c.amd_version = VersionIn(opts) \/ o \notin XmppOption => new = Fresh(opts)[o]
    <3> DEFINE version == c.amd_version
               old == c[o]
               final == VersionIn(opts)
               v == opts[o]
               u == Fresh(opts).url
               url == c.url
    <3>1. SUFFICES ASSUME o \in Keeping
                   PROVE  /\ new \in {memset_conf[o], Fresh(opts)[o]}
                          /\ version = final \/ o \notin XmppOption => new = Fresh(opts)[o]
      OBVIOUS
    <3>2. Fresh(opts)[o] = FieldRead(o, v, memset_conf[o], final, u)
      BY <2>6
    <3>3. new = FieldRead(o, v, old, version, url)
      BY DEF new
    <3>4. old \in {memset_conf[o], FieldRead(o, v, memset_conf[o], final, u)}
      BY <1>1, <3>1, <3>2 DEF KeptRight
    <3>5. version \in {0, final}
      BY <2>7
    <3> HIDE DEF version, old, final, v, u, url
    <3> QED
      BY <3>1, <3>2, <3>3, <3>4, <3>5, KeepingRead
  <2>9. KeptRight(d, opts)
    <3>1. ASSUME NEW x \in Keeping
          PROVE  d[x] \in {memset_conf[x], Fresh(opts)[x]}
      <4>1. CASE x = o
        BY <2>2, <2>8, <4>1
      <4>2. CASE x # o
        <5>1. d[x] = c[x]
          BY <1>3, <2>2, <4>2
        <5> QED
          BY <1>1, <5>1 DEF KeptRight
      <4> QED
        BY <4>1, <4>2
    <3> QED
      BY <3>1 DEF KeptRight
  <2>10. o \in D => new = Fresh(opts)[o]
    <3>1. SUFFICES ASSUME o \in D PROVE new = Fresh(opts)[o]
      OBVIOUS
    <3>2. o \in Versioned => c.amd_version = VersionIn(opts)
      BY <2>3, <2>7, <3>1 DEF Closed
    <3>3. CASE o \in Keeping
      <4>1. c.amd_version = VersionIn(opts) \/ o \notin XmppOption
        BY <3>2 DEF Versioned
      <4> QED
        BY <2>8, <3>3, <4>1
    <3>4. CASE o \notin Keeping
      <4>1. o = "lwn_hostname" => c.url = Fresh(opts).url
        BY <1>1, <2>3, <3>1 DEF Closed, UrlRight
      <4>2. o \in Single \ Keeping
        BY <1>8, <3>4
      <4> QED
        BY <2>6, <3>2, <4>1, <4>2, OtherRead DEF new
    <3> QED
      BY <3>3, <3>4
  <2>11. \A x \in Single : x \in D => d[x] = Fresh(opts)[x] \/ (x = "compression" /\ refused)
    <3>1. ASSUME NEW x \in Single, x \in D
          PROVE  d[x] = Fresh(opts)[x] \/ (x = "compression" /\ refused)
      <4>1. CASE x = o
        BY <2>2, <2>10, <3>1, <4>1
      <4>2. CASE x # o
        <5>1. x \in B /\ d[x] = c[x]
          BY <1>2, <1>3, <2>2, <3>1, <4>2
        <5> QED
          BY <1>1, <5>1
      <4> QED
        BY <4>1, <4>2
    <3> QED
      BY <3>1
  <2> QED
    BY <2>2, <2>4, <2>5, <2>9, <2>11 DEF Right, d
<1> QED
  BY <1>5, <1>6, <1>7, <1>8

-----------------------------------------------------------------------------
(***************************************************************************)
(* The parameters the ACS sets.                                            *)
(***************************************************************************)
LEMMA OptionsTyped ==
    /\ DOMAIN OptionOf = {"URL", "Username", "Password", "PeriodicInformEnable",
          "PeriodicInformInterval", "PeriodicInformTime", "ConnectionRequestUsername",
          "ConnectionRequestPassword", "LightweightNotificationProtocolsUsed",
          "UDPLightweightNotificationHost", "UDPLightweightNotificationPort", "HTTPCompression",
          "CWMPRetryMinimumWaitInterval", "CWMPRetryIntervalMultiplier", "InstanceMode"}
    /\ \A p \in DOMAIN OptionOf : OptionOf[p] \in UciOption \ {"dhcp_discovery", "dhcp_url"}
    /\ \A p, q \in DOMAIN OptionOf : OptionOf[p] = OptionOf[q] => p = q
    /\ "dhcp_discovery" \in UciOption
    /\ \A p \in DOMAIN OptionOf \ {"URL"} : OptionOf[p] \in Single
    /\ OptionOf["URL"] = "url"
    /\ \A p \in DOMAIN OptionOf : OptionOf[p] = "compression" <=> p = "HTTPCompression"
<1>1. DOMAIN OptionOf = {"URL", "Username", "Password", "PeriodicInformEnable",
          "PeriodicInformInterval", "PeriodicInformTime", "ConnectionRequestUsername",
          "ConnectionRequestPassword", "LightweightNotificationProtocolsUsed",
          "UDPLightweightNotificationHost", "UDPLightweightNotificationPort", "HTTPCompression",
          "CWMPRetryMinimumWaitInterval", "CWMPRetryIntervalMultiplier", "InstanceMode"}
  BY DEF OptionOf
<1>2. /\ OptionOf["URL"] = "url" /\ OptionOf["Username"] = "userid"
      /\ OptionOf["Password"] = "passwd"
      /\ OptionOf["PeriodicInformEnable"] = "periodic_inform_enable"
      /\ OptionOf["PeriodicInformInterval"] = "periodic_inform_interval"
      /\ OptionOf["PeriodicInformTime"] = "periodic_inform_time"
      /\ OptionOf["ConnectionRequestUsername"] = "cpe_userid"
      /\ OptionOf["ConnectionRequestPassword"] = "cpe_passwd"
      /\ OptionOf["LightweightNotificationProtocolsUsed"] = "lwn_enable"
      /\ OptionOf["UDPLightweightNotificationHost"] = "lwn_hostname"
      /\ OptionOf["UDPLightweightNotificationPort"] = "lwn_port"
      /\ OptionOf["HTTPCompression"] = "compression"
      /\ OptionOf["CWMPRetryMinimumWaitInterval"] = "retry_min_wait_interval"
      /\ OptionOf["CWMPRetryIntervalMultiplier"] = "retry_interval_multiplier"
      /\ OptionOf["InstanceMode"] = "instance_mode"
  BY DEF OptionOf
<1>3. \A p \in DOMAIN OptionOf \ {"URL"} : OptionOf[p] \in Single
  BY <1>1, <1>2, FieldNames DEF Keeping, Plain, TextOption, Versioned
<1>4. Single \union {"url"} \subseteq UciOption \ {"dhcp_discovery", "dhcp_url"}
  <2>1. \A o \in Single : o # "dhcp_discovery" /\ o # "dhcp_url"
    BY FieldNames DEF Keeping, Plain, Flag, XmppOption, TextOption, SslOption, Switch, Versioned
  <2>2. \A o \in Single : o \in {Order[k] : k \in Place}
    BY Orders DEF Until, Final
  <2>3. "url" \in {Order[k] : k \in Place}
    BY Orders
  <2> QED
    BY <2>1, <2>2, <2>3 DEF UciOption
<1>5. \A p \in DOMAIN OptionOf : OptionOf[p] \in UciOption \ {"dhcp_discovery", "dhcp_url"}
  BY <1>2, <1>3, <1>4
<1>6. \A p, q \in DOMAIN OptionOf : OptionOf[p] = OptionOf[q] => p = q
  BY <1>1, <1>2
<1>7. "dhcp_discovery" \in UciOption
  BY DEF UciOption
<1>8. \A p \in DOMAIN OptionOf : OptionOf[p] = "compression" <=> p = "HTTPCompression"
  BY <1>1, <1>2
<1> QED
  BY <1>1, <1>2, <1>3, <1>5, <1>6, <1>7, <1>8

LEMMA Stored ==
    ASSUME NEW p, NEW v
    PROVE  /\ p = "LightweightNotificationProtocolsUsed" => StoredAs(p, v) = {lwn_protocol_used(v)}
           /\ p = "PeriodicInformTime" => StoredAs(p, v) = {v, v - 3600}
           /\ p \notin {"LightweightNotificationProtocolsUsed", "PeriodicInformTime"}
                => StoredAs(p, v) = {v}
<1>1. p = "LightweightNotificationProtocolsUsed" => StoredAs(p, v) = {lwn_protocol_used(v)}
  BY Zenon DEF StoredAs
<1>2. p = "PeriodicInformTime" => StoredAs(p, v) = periodic_inform_time(v)
  BY Zenon DEF StoredAs
<1>3. p \notin {"LightweightNotificationProtocolsUsed", "PeriodicInformTime"}
                => StoredAs(p, v) = {v}
  BY Zenon DEF StoredAs
<1> QED
  BY <1>1, <1>2, <1>3 DEF periodic_inform_time

LEMMA WhatIsRead ==
    ASSUME NEW p \in DOMAIN OptionOf
    PROVE  /\ p = "LightweightNotificationProtocolsUsed" =>
                 get_management_server(p) = IF options[OptionOf[p]] = "true" THEN "UDP" ELSE ""
           /\ p \notin {"LightweightNotificationProtocolsUsed", "Password",
                        "ConnectionRequestPassword"}
                => get_management_server(p) = options[OptionOf[p]]
<1>1. p = "LightweightNotificationProtocolsUsed" =>
                 get_management_server(p) = IF options[OptionOf[p]] = "true" THEN "UDP" ELSE ""
  BY Zenon DEF get_management_server
<1>2. p \notin {"LightweightNotificationProtocolsUsed", "Password", "ConnectionRequestPassword"}
                => get_management_server(p) = options[OptionOf[p]]
  BY Zenon DEF get_management_server
<1> QED
  BY <1>1, <1>2

-----------------------------------------------------------------------------
(***************************************************************************)
(* The invariant.                                                          *)
(***************************************************************************)
(* The two threads: when they load, and that a session and a load exclude  *)
(* each other unless "reload" looked too early.                            *)
Loaders ==
    /\ reading \in [Loader -> 0 .. Final]
    /\ reading["scheduler"] > 0 <=> scheduler = "loading"
    /\ reading["command"] > 0 <=> command \in {"loading", "stuck"}
    /\ Served /\ ~late => command = "idle"

(* A load in which nothing was disturbed has got everything right that was *)
(* read since the configuration was cleared last.                          *)
Pos(t) == IF Loads(t) THEN reading[t] ELSE Final
Following == loaded = options /\ \E t \in Loader : Right(conf, loaded, Until(Pos(t)), plain)
Settled ==
    \A f \in Field : f = "amd_version" \/ (f = "compression" /\ plain) \/ conf[f] = Fresh(loaded)[f]
Faithful == ~spoilt => IF Loading THEN Following ELSE Settled

(* What the ACS has set is committed, and loaded or about to be.           *)
Committed(p) ==
    /\ AcceptedValue(p, asked[p])
    /\ p = "PeriodicInformTime" => asked[p] \in Int
    /\ p = "LightweightNotificationProtocolsUsed" => asked[p] \in {"UDP", ""}
    /\ options[OptionOf[p]] \in StoredAs(p, asked[p])
    /\ p = "URL" => options.dhcp_discovery = "disable"
LoadsCurrent(p) ==
    /\ loaded[OptionOf[p]] = options[OptionOf[p]]
    /\ p = "URL" => loaded.dhcp_discovery = "disable"
ToBeLoaded == scheduler \in {"serve", "end"} /\ reloadFlag
AcsServed == \A p \in DOMAIN OptionOf : asked[p] # Absent => Committed(p) /\ (LoadsCurrent(p) \/ ToBeLoaded)

ConfInv ==
    /\ DOMAIN options = UciOption /\ DOMAIN asked = DOMAIN OptionOf /\ DOMAIN conf = Field
    /\ Loaders /\ Faithful /\ AcsServed

LEMMA ConfStart == ConfInit => ConfInv
<1> SUFFICES ASSUME ConfInit PROVE ConfInv
  OBVIOUS
<1>1. DOMAIN options = UciOption
  BY OptionsAssumption DEF ConfInit
<1>2. DOMAIN asked = DOMAIN OptionOf /\ \A p \in DOMAIN OptionOf : asked[p] = Absent
  BY DEF ConfInit
<1>3. DOMAIN conf = Field /\ loaded = options /\ conf = Fresh(loaded)
  BY FreshFields DEF ConfInit
<1>4. Loaders
  BY DEF ConfInit, Loaders, Loader, Final, Served
<1>5. ~Loading
  BY DEF ConfInit, Loading, Loads
<1>6. Settled
  BY <1>3 DEF Settled
<1> QED
  BY <1>1, <1>2, <1>3, <1>4, <1>5, <1>6 DEF ConfInv, Faithful, AcsServed

(* A step that reads, loads or sets nothing.                               *)
LEMMA RestKeeps ==
    ASSUME ConfInv, UNCHANGED <<conf, loaded, spoilt, plain, options, asked, reading>>, Loaders',
           ToBeLoaded => ToBeLoaded'
    PROVE  ConfInv'
<1>1. Loading' = Loading /\ (Following => Following') /\ (Settled => Settled')
  <2>1. \A t \in Loader : Pos(t)' = Pos(t)
    BY DEF Pos, Loads
  <2>2. Following => Following'
    BY <2>1 DEF Following
  <2> QED
    BY <2>2 DEF Loading, Loads, Settled
<1>2. Faithful'
  BY <1>1 DEF ConfInv, Faithful
<1>3. ASSUME NEW p \in DOMAIN OptionOf, asked'[p] # Absent
      PROVE  Committed(p)' /\ (LoadsCurrent(p)' \/ ToBeLoaded')
  BY <1>3 DEF ConfInv, AcsServed, Committed, LoadsCurrent
<1>4. AcsServed'
  BY <1>3 DEF AcsServed
<1> QED
  BY <1>2, <1>4 DEF ConfInv

(* A load that begins.                                                     *)
LEMMA BeginKeeps ==
    ASSUME ConfInv, NEW t \in Loader, BeginLoad(t), Loaders'
    PROVE  ConfInv'
<1>1. /\ conf' = memset_conf /\ reading' = [reading EXCEPT ![t] = 1] /\ loaded' = options
      /\ plain' = FALSE /\ options' = options /\ asked' = asked
  BY DEF BeginLoad, ClearedConf
<1>2. DOMAIN conf' = Field
  BY <1>1 DEF memset_conf
<1>3. reading'[t] = 1 /\ Loading'
  BY <1>1 DEF ConfInv, Loaders, Loading, Loads, Loader
<1>4. Pos(t)' = 1 /\ Until(1) = {}
  BY <1>3 DEF Pos, Loads, Until
<1>5. Right(conf, loaded, {}, plain)'
  <2>1. VersionRight(memset_conf, options, {})
    BY ConfCleared DEF VersionRight
  <2>2. UrlRight(memset_conf, options, {})
    BY ConfCleared DEF UrlRight
  <2>3. KeptRight(memset_conf, options)
    BY DEF KeptRight
  <2> QED
    BY <1>1, <1>2, <2>1, <2>2, <2>3 DEF Right
<1>6. Following'
  BY <1>1, <1>4, <1>5 DEF Following
<1>7. AcsServed'
  <2>1. ASSUME NEW p \in DOMAIN OptionOf, asked'[p] # Absent
        PROVE  Committed(p)' /\ LoadsCurrent(p)'
    BY <1>1, <2>1 DEF ConfInv, AcsServed, Committed, LoadsCurrent
  <2> QED
    BY <2>1 DEF AcsServed
<1> QED
  BY <1>1, <1>2, <1>3, <1>6, <1>7 DEF ConfInv, Faithful

LEMMA AfterLast ==
    ASSUME NEW c, NEW opts, NEW refused, Right(c, opts, Until(Final), refused)
    PROVE  \A f \in Field : c[f] = Fresh(opts)[f] \/ (f = "compression" /\ refused)
<1>1. {"url", "amd_version", "default_url"} \subseteq Until(Final)
  BY Orders DEF Until, Final
<1>2. c.url = Fresh(opts).url
  BY <1>1 DEF Right, UrlRight
<1>3. c.amd_version = VersionIn(opts) /\ c.supported_amd_version = VersionIn(opts)
  BY <1>1 DEF Right, VersionRight
<1>4. \A f \in Single : c[f] = Fresh(opts)[f] \/ (f = "compression" /\ refused)
  BY Orders DEF Right
<1> QED
  BY <1>2, <1>3, <1>4, FieldNames, FreshFields

(* The next option is read.                                                *)
LEMMA ReadKeeps ==
    ASSUME ConfInv, NEW t \in Loader, get_global_config(t)
    PROVE  ConfInv'
<1> DEFINE k == reading[t]
           o == Order[k]
<1>1. /\ k \in Place /\ conf' = OptionRead(conf, o, options)
      /\ reading' = [reading EXCEPT ![t] = k + 1]
      /\ UNCHANGED <<options, scheduler, command, inSession, reloadFlag, asked, loaded, spoilt,
                     plain, late>>
  BY DEF get_global_config
<1>2. k \in 1 .. 36 /\ k + 1 \in 1 .. Final
  BY <1>1, Orders DEF Final
<1>3. o \in LogOption \union {"url", "default_url", "amd_version"} \union Single
  BY <1>1, Orders
<1>4. /\ reading'[t] = k + 1 /\ \A u \in Loader : u # t => reading'[u] = reading[u]
      /\ reading' \in [Loader -> 0 .. Final]
  BY <1>1, <1>2 DEF ConfInv, Loaders
<1>5. \A u \in Loader : Loads(u)' = Loads(u)
  BY <1>2, <1>4 DEF Loads
<1>6. Loading /\ Loading'
  BY <1>2, <1>5 DEF Loading, Loads, Loader
<1>7. Loaders'
  <2>1. \A u \in Loader : reading'[u] > 0 <=> reading[u] > 0
    BY <1>5 DEF Loads
  <2> QED
    BY <1>1, <1>4, <2>1 DEF ConfInv, Loaders, Loader, Served
<1>8. DOMAIN conf' = Field
  <2> HIDE DEF o
  <2>1. CASE o \in Single
    BY <1>1, <2>1, SingleRead DEF ConfInv
  <2>2. CASE o \in LogOption \union {"url", "default_url", "amd_version"}
    <3>1. CASE o \in LogOption
      BY <1>1, <3>1, OtherOptionRead DEF ConfInv
    <3>2. CASE o = "url"
      <4>1. conf' = [conf EXCEPT !.url = AcsUrl(conf, options)]
        BY <1>1, <3>2, OtherOptionRead, ZenonT(90)
      <4> QED
        BY <4>1 DEF ConfInv
    <3>3. CASE o = "default_url"
      <4>1. conf' = [conf EXCEPT !.url = IF conf.url = Absent THEN Default.url ELSE conf.url]
        BY <1>1, <3>3, OtherOptionRead
      <4> QED
        BY <4>1 DEF ConfInv
    <3>4. CASE o = "amd_version"
      <4>1. OptionRead(conf, "amd_version", options)
              = [conf EXCEPT !.amd_version = VersionIn(options),
                             !.supported_amd_version = VersionIn(options)]
        BY VersionRead
      <4>2. conf' = OptionRead(conf, "amd_version", options)
        BY <1>1, <3>4
      <4>3. DOMAIN OptionRead(conf, "amd_version", options) = DOMAIN conf
        BY <4>1
      <4> QED
        BY <4>2, <4>3 DEF ConfInv
    <3> QED
      BY <2>2, <3>1, <3>2, <3>3, <3>4
  <2> QED
    BY <1>3, <2>1, <2>2
<1>9. ASSUME ~spoilt
      PROVE  Following'
  <2>1. PICK u \in Loader : Right(conf, loaded, Until(Pos(u)), plain)
    BY <1>6, <1>9 DEF ConfInv, Faithful, Following
  <2>2. loaded = options
    BY <1>6, <1>9 DEF ConfInv, Faithful, Following
  <2>3. Pos(u) \in 1 .. Final
    BY DEF ConfInv, Loaders, Pos, Loads, Final
  <2>4. Pos(u)' \in 1 .. Final
    BY <1>4 DEF Pos, Loads, Final
  <2>5. Until(Pos(u)') = Until(Pos(u)) \/ Until(Pos(u)') = Until(Pos(u)) \union {o}
    <3>1. CASE u = t
      <4>1. Pos(u) = k /\ Pos(u)' = k + 1
        BY <1>2, <1>4, <3>1 DEF Pos, Loads
      <4>2. k \in 1 .. Final /\ k < Final
        BY <1>2 DEF Final
      <4>3. Until(k + 1) = Until(k) \union {Order[k]}
        BY <4>2, BeforeClosed
      <4> QED
        BY <4>1, <4>3
    <3>2. CASE u # t
      <4>1. Pos(u)' = Pos(u)
        BY <1>4, <3>2 DEF Pos, Loads
      <4> QED
        BY <4>1
    <3> QED
      BY <3>1, <3>2
  <2>6. Closed(Until(Pos(u)'))
    BY <2>4, BeforeClosed
  <2> DEFINE B == Until(Pos(u))
             D == Until(Pos(u)')
  <2>7. Right(conf, loaded, B, plain) /\ (D = B \/ D = B \union {o}) /\ Closed(D)
    BY <2>1, <2>5, <2>6
  <2> HIDE DEF B, D, o
  <2>8. Right(OptionRead(conf, o, loaded), loaded, D, plain)
    BY <1>3, <2>7, ReadRight
  <2>9. Right(conf, loaded, Until(Pos(u)), plain)'
    BY <1>1, <2>2, <2>8 DEF D
  <2> QED
    BY <1>1, <2>2, <2>9 DEF Following
<1>10. AcsServed'
  BY <1>1 DEF ConfInv, AcsServed, Committed, LoadsCurrent, ToBeLoaded
<1>11. Faithful'
  BY <1>1, <1>6, <1>9 DEF Faithful
<1> QED
  BY <1>1, <1>7, <1>8, <1>10, <1>11 DEF ConfInv

(* A load that ends.                                                       *)
LEMMA EndKeeps ==
    ASSUME ConfInv, NEW t \in Loader, cwmp_root_cause_event_bootstrap(t)
    PROVE  ConfInv'
<1>1. /\ reading[t] = Final
      /\ UNCHANGED <<options, conf, inSession, reloadFlag, asked, loaded, spoilt, plain, late>>
  BY Orders DEF cwmp_root_cause_event_bootstrap, Final
<1>2. CASE OtherAcs /\ t = "command"
  <2>1. command' = "stuck" /\ UNCHANGED <<reading, scheduler>>
    BY <1>2 DEF cwmp_root_cause_event_bootstrap
  <2>2. Loaders'
    BY <1>1, <1>2, <2>1 DEF ConfInv, Loaders, Served, Final
  <2>3. ToBeLoaded => ToBeLoaded'
    BY <1>1, <2>1 DEF ToBeLoaded
  <2> QED
    BY <1>1, <2>1, <2>2, <2>3, RestKeeps
<1>3. CASE ~(OtherAcs /\ t = "command")
  <2>1. reading' = [reading EXCEPT ![t] = 0] /\ Finish(t)
    BY <1>3 DEF cwmp_root_cause_event_bootstrap
  <2>2. /\ reading'[t] = 0 /\ \A u \in Loader : u # t => reading'[u] = reading[u]
        /\ reading' \in [Loader -> 0 .. Final]
    BY <2>1 DEF ConfInv, Loaders, Final
  <2>3. Loaders'
    BY <1>1, <2>1, <2>2 DEF ConfInv, Loaders, Served, Finish, Loader
  <2>4. \A u \in Loader : Pos(u)' = Pos(u)
    BY <1>1, <2>2 DEF Pos, Loads
  <2>5. Loads(t) /\ Loading
    BY <1>1 DEF Loads, Loading, Loader, Final
  <2>6. ASSUME ~spoilt
        PROVE  /\ Following'
               /\ Loading' \/ Settled'
    <3>1. PICK u \in Loader : Right(conf, loaded, Until(Pos(u)), plain)
      BY <2>5, <2>6 DEF ConfInv, Faithful, Following
    <3>2. loaded = options
      BY <2>5, <2>6 DEF ConfInv, Faithful, Following
    <3>3. Right(conf, loaded, Until(Pos(u)), plain)'
      BY <1>1, <2>4, <3>1
    <3>4. Loading' \/ Pos(u)' = Final
      BY DEF Pos, Loading, Loader
    <3>5. Pos(u)' = Final => Settled'
      <4>1. SUFFICES ASSUME Pos(u)' = Final PROVE Settled'
        OBVIOUS
      <4>2. Right(conf, loaded, Until(Final), plain)
        BY <2>4, <3>1, <4>1
      <4> QED
        BY <1>1, <4>2, AfterLast DEF Settled
    <3> QED
      BY <1>1, <3>2, <3>3, <3>4, <3>5 DEF Following
  <2>7. AcsServed'
    <3>1. ToBeLoaded => ToBeLoaded'
      BY <1>1, <2>1, <2>5 DEF ToBeLoaded, Finish, ConfInv, Loaders, Loads, Loader
    <3>2. ASSUME NEW p \in DOMAIN OptionOf, asked'[p] # Absent
          PROVE  Committed(p)' /\ (LoadsCurrent(p)' \/ ToBeLoaded')
      BY <1>1, <3>1, <3>2 DEF ConfInv, AcsServed, Committed, LoadsCurrent
    <3> QED
      BY <3>2 DEF AcsServed
  <2> QED
    BY <1>1, <2>3, <2>6, <2>7 DEF ConfInv, Faithful
<1> QED
  BY <1>2, <1>3

(* An option that cannot be read.                                          *)
LEMMA UnreadableKeeps ==
    ASSUME ConfInv, NEW t \in Loader, unreadable(t)
    PROVE  ConfInv'
<1> DEFINE o == Order[reading[t]]
<1>1. /\ reading[t] \in Place /\ spoilt'
      /\ UNCHANGED <<options, logs, inSession, reloadFlag, savedUrl, asked, loaded, plain, late>>
  BY DEF unreadable
<1>2. reading[t] \in 1 .. 36
  BY <1>1, Orders
<1>3. CASE o \in Dispensable
  <2>1. /\ reading' = [reading EXCEPT ![t] = @ + 1] /\ UNCHANGED <<scheduler, command>>
        /\ conf' = CASE o \in SslOption -> [conf EXCEPT ![o] = Absent] [] OTHER -> conf
    BY <1>3, Zenon DEF unreadable
  <2>2. DOMAIN conf' = Field
    <3>1. o \in SslOption => conf' = [conf EXCEPT ![o] = Absent]
      BY <2>1, Zenon
    <3>2. o \notin SslOption => conf' = conf
      BY <2>1, Zenon
    <3> HIDE DEF o
    <3> QED
      BY <3>1, <3>2 DEF ConfInv
  <2>3. /\ reading' \in [Loader -> 0 .. Final]
        /\ \A u \in Loader : reading'[u] > 0 <=> reading[u] > 0
    BY <1>2, <2>1 DEF ConfInv, Loaders, Final
  <2>4. Loaders'
    BY <1>1, <2>1, <2>3 DEF ConfInv, Loaders, Loader, Served
  <2>5. AcsServed'
    BY <1>1, <2>1 DEF ConfInv, AcsServed, Committed, LoadsCurrent, ToBeLoaded
  <2> QED
    BY <1>1, <2>2, <2>4, <2>5 DEF ConfInv, Faithful
<1>4. CASE o \notin Dispensable
  <2>1. reading' = [reading EXCEPT ![t] = 0] /\ Finish(t) /\ UNCHANGED conf
    BY <1>4 DEF unreadable
  <2>2. /\ reading'[t] = 0 /\ \A u \in Loader : u # t => reading'[u] = reading[u]
        /\ reading' \in [Loader -> 0 .. Final]
    BY <2>1 DEF ConfInv, Loaders, Final
  <2>3. Loaders'
    BY <1>1, <1>2, <2>1, <2>2 DEF ConfInv, Loaders, Served, Finish, Loader
  <2>4. ToBeLoaded => ToBeLoaded'
    BY <1>1, <1>2, <2>1 DEF ToBeLoaded, Finish, ConfInv, Loaders, Loader
  <2>5. ASSUME NEW p \in DOMAIN OptionOf, asked'[p] # Absent
        PROVE  Committed(p)' /\ (LoadsCurrent(p)' \/ ToBeLoaded')
    BY <1>1, <2>4, <2>5 DEF ConfInv, AcsServed, Committed, LoadsCurrent
  <2>6. AcsServed'
    BY <2>5 DEF AcsServed
  <2> QED
    BY <1>1, <2>1, <2>3, <2>6 DEF ConfInv, Faithful
<1> QED
  BY <1>3, <1>4

-----------------------------------------------------------------------------
(* The session: what it learns of the version and of compression.          *)
LEMMA ChangeKeeps ==
    ASSUME ConfInv, NEW f \in {"amd_version", "compression"}, NEW v,
           conf' = [conf EXCEPT ![f] = v],
           f = "amd_version" => plain' = plain /\ (spoilt \/ Loading => spoilt'),
           f = "compression" => plain' = TRUE /\ (spoilt => spoilt'),
           UNCHANGED <<loaded, options, asked, reading>>, Loaders', ToBeLoaded => ToBeLoaded'
    PROVE  ConfInv'
<1>1. DOMAIN conf' = Field /\ \A x \in Field \ {f} : conf'[x] = conf[x]
  BY DEF ConfInv
<1>2. Loading' = Loading /\ \A t \in Loader : Pos(t)' = Pos(t)
  BY DEF Loading, Loads, Pos
<1>3. ASSUME ~spoilt', Loading
      PROVE  Following'
  <2>1. f = "compression" /\ plain' = TRUE /\ ~spoilt
    <3>1. f # "amd_version"
      BY <1>3
    <3> QED
      BY <1>3, <3>1
  <2>2. loaded = options
    BY <1>3, <2>1 DEF ConfInv, Faithful, Following
  <2>3. PICK t \in Loader : Right(conf, loaded, Until(Pos(t)), plain)
    BY <1>3, <2>1 DEF ConfInv, Faithful, Following
  <2> DEFINE B == Until(Pos(t))
  <2>4. Right(conf, loaded, B, plain)
    BY <2>3
  <2> HIDE DEF B
  <2>5. Right(conf', loaded, B, TRUE)
    <3>1. Keeping \union {"url", "amd_version", "supported_amd_version"} \subseteq Field \ {f}
      <4>1. \A x \in Keeping : x # "compression"
        BY DEF Keeping, Plain, Flag, XmppOption, TextOption, SslOption, Switch
      <4> QED
        BY <2>1, <4>1, FieldNames
    <3>2. VersionRight(conf', loaded, B)
      BY <1>1, <2>4, <3>1 DEF Right, VersionRight
    <3>3. UrlRight(conf', loaded, B)
      BY <1>1, <2>4, <3>1 DEF Right, UrlRight
    <3>4. KeptRight(conf', loaded)
      BY <1>1, <2>4, <3>1 DEF Right, KeptRight
    <3>5. \A x \in Single : x \in B => conf'[x] = Fresh(loaded)[x] \/ x = "compression"
      BY <1>1, <2>1, <2>4, FieldNames DEF Right
    <3> QED
      BY <1>1, <3>2, <3>3, <3>4, <3>5 DEF Right
  <2>6. Right(conf, loaded, Until(Pos(t)), plain)'
    BY <1>2, <2>1, <2>5 DEF B
  <2> QED
    BY <2>2, <2>6 DEF Following
<1>4. ASSUME ~spoilt', ~Loading
      PROVE  Settled'
  <2>1. ~spoilt
    BY <1>4
  <2>2. Settled
    BY <1>4, <2>1 DEF ConfInv, Faithful
  <2>3. CASE f = "amd_version"
    BY <1>1, <2>2, <2>3 DEF Settled
  <2>4. CASE f = "compression"
    BY <1>1, <2>2, <2>4 DEF Settled
  <2> QED
    BY <2>3, <2>4
<1>5. Faithful'
  BY <1>2, <1>3, <1>4 DEF Faithful
<1>6. ASSUME NEW p \in DOMAIN OptionOf, asked'[p] # Absent
      PROVE  Committed(p)' /\ (LoadsCurrent(p)' \/ ToBeLoaded')
  BY <1>6 DEF ConfInv, AcsServed, Committed, LoadsCurrent
<1>7. AcsServed'
  BY <1>6 DEF AcsServed
<1> QED
  BY <1>1, <1>5, <1>7 DEF ConfInv

LEMMA SessionKeeps ==
    ASSUME ConfInv,
           \/ cwmp_move_session_to_session_send \/ start_session
           \/ \E v \in AcsVersions : cwmp_rpc_acs_parse_response_inform(v)
           \/ http_send_message_415 \/ no_more_rpcs \/ run_session_end_func \/ close_session
    PROVE  ConfInv'
<1> USE DEF others
<1>1. CASE cwmp_move_session_to_session_send
  <2>1. /\ scheduler = "idle" /\ scheduler' = "taken"
        /\ UNCHANGED <<conf, loaded, spoilt, plain, options, asked, reading, command, late>>
    BY <1>1 DEF cwmp_move_session_to_session_send
  <2>2. Loaders' /\ ~ToBeLoaded
    BY <2>1 DEF ConfInv, Loaders, Served, ToBeLoaded
  <2> QED
    BY <2>1, <2>2, RestKeeps
<1>2. CASE start_session
  <2>1. /\ scheduler = "taken" /\ scheduler' = "inform" /\ late' = (command # "idle")
        /\ UNCHANGED <<conf, loaded, spoilt, plain, options, asked, reading, command>>
    BY <1>2 DEF start_session
  <2>2. Loaders' /\ ~ToBeLoaded
    BY <2>1 DEF ConfInv, Loaders, Served, ToBeLoaded
  <2> QED
    BY <2>1, <2>2, RestKeeps
<1>3. ASSUME NEW v \in AcsVersions, cwmp_rpc_acs_parse_response_inform(v)
      PROVE  ConfInv'
  <2> DEFINE n == Negotiated(conf.supported_amd_version, v)
  <2>1. /\ scheduler = "inform" /\ scheduler' = "serve" /\ spoilt' = (spoilt \/ Loading)
        /\ conf' = [conf EXCEPT !["amd_version"] = n]
        /\ UNCHANGED <<loaded, plain, options, asked, reading, command, late, inSession>>
    BY <1>3 DEF cwmp_rpc_acs_parse_response_inform, Disturb
  <2> HIDE DEF n
  <2>2. Loaders' /\ ~ToBeLoaded
    BY <2>1 DEF ConfInv, Loaders, Served, ToBeLoaded
  <2> QED
    BY <2>1, <2>2, ChangeKeeps
<1>4. CASE http_send_message_415
  <2>1. /\ scheduler \in {"inform", "serve"} /\ scheduler' = "end" /\ plain' = TRUE
        /\ conf' = [conf EXCEPT !["compression"] = "none"]
        /\ UNCHANGED <<loaded, spoilt, options, asked, reading, command, late, inSession,
                       reloadFlag>>
    BY <1>4 DEF http_send_message_415
  <2>2. Loaders' /\ (ToBeLoaded => ToBeLoaded')
    BY <2>1 DEF ConfInv, Loaders, Served, ToBeLoaded
  <2> QED
    BY <2>1, <2>2, ChangeKeeps
<1>5. CASE no_more_rpcs
  <2>1. /\ scheduler \in {"inform", "serve"} /\ scheduler' = "end"
        /\ UNCHANGED <<conf, loaded, spoilt, plain, options, asked, reading, command, late,
                       inSession, reloadFlag>>
    BY <1>5 DEF no_more_rpcs
  <2>2. Loaders' /\ (ToBeLoaded => ToBeLoaded')
    BY <2>1 DEF ConfInv, Loaders, Served, ToBeLoaded
  <2> QED
    BY <2>1, <2>2, RestKeeps
<1>6. CASE run_session_end_func /\ reloadFlag
  <2>1. /\ scheduler = "end" /\ scheduler' = "loading" /\ BeginLoad("scheduler")
        /\ UNCHANGED command
    BY <1>6 DEF run_session_end_func
  <2>2. reading' = [reading EXCEPT !["scheduler"] = 1]
    BY <2>1 DEF BeginLoad
  <2>3. /\ reading'["scheduler"] = 1 /\ reading'["command"] = reading["command"]
        /\ reading' \in [Loader -> 0 .. Final]
    BY <2>2 DEF ConfInv, Loaders, Loader, Final
  <2>4. Loaders'
    BY <2>1, <2>3 DEF ConfInv, Loaders, Served
  <2> QED
    BY <2>1, <2>4, BeginKeeps DEF Loader
<1>7. CASE run_session_end_func /\ ~reloadFlag
  <2>1. /\ scheduler = "end" /\ scheduler' = "close"
        /\ UNCHANGED <<conf, loaded, spoilt, plain, options, asked, reading, command, late,
                       inSession, reloadFlag>>
    BY <1>7 DEF run_session_end_func
  <2>2. Loaders' /\ ~ToBeLoaded
    BY <1>7, <2>1 DEF ConfInv, Loaders, Served, ToBeLoaded
  <2> QED
    BY <2>1, <2>2, RestKeeps
<1>8. CASE close_session
  <2>1. /\ scheduler = "close" /\ scheduler' = "idle"
        /\ UNCHANGED <<conf, loaded, spoilt, plain, options, asked, reading, command, late>>
    BY <1>8 DEF close_session
  <2>2. Loaders' /\ ~ToBeLoaded
    BY <2>1 DEF ConfInv, Loaders, Served, ToBeLoaded
  <2> QED
    BY <2>1, <2>2, RestKeeps
<1> QED
  BY <1>1, <1>2, <1>3, <1>4, <1>5, <1>6, <1>7, <1>8

LEMMA CommandKeeps ==
    ASSUME ConfInv, reload_end_session \/ reload_command \/ cwmp_apply_acs_changes
    PROVE  ConfInv'
<1> USE DEF others
<1>1. CASE reload_end_session
  <2>1. /\ UNCHANGED <<conf, loaded, spoilt, plain, options, asked, reading, command, late,
                       inSession, scheduler>>
        /\ reloadFlag => reloadFlag'
    BY <1>1 DEF reload_end_session, cwmp_set_end_session
  <2>2. Loaders' /\ (ToBeLoaded => ToBeLoaded')
    BY <2>1 DEF ConfInv, Loaders, Served, ToBeLoaded
  <2> QED
    BY <2>1, <2>2, RestKeeps
<1>2. CASE reload_command
  <2>1. /\ UNCHANGED <<conf, loaded, spoilt, plain, options, asked, reading, inSession, scheduler>>
        /\ reloadFlag => reloadFlag' /\ command = "idle"
        /\ inSession => UNCHANGED <<command, late>>
        /\ ~inSession => command' = "lock"
    BY <1>2 DEF reload_command, cwmp_set_end_session
  <2>2. reloadFlag => reloadFlag'
    BY <1>2 DEF reload_command, cwmp_set_end_session
  <2>3. command = "idle"
    BY <1>2 DEF reload_command
  <2>4. Loaders' /\ (ToBeLoaded => ToBeLoaded')
    BY <2>1, <2>2, <2>3 DEF ConfInv, Loaders, Served, ToBeLoaded
  <2> QED
    BY <2>1, <2>4, RestKeeps
<1>3. CASE cwmp_apply_acs_changes
  <2>1. /\ command = "lock" /\ command' = "loading" /\ BeginLoad("command") /\ UNCHANGED scheduler
    BY <1>3 DEF cwmp_apply_acs_changes
  <2>2. reading' = [reading EXCEPT !["command"] = 1] /\ UNCHANGED <<inSession, late>>
    BY <2>1 DEF BeginLoad
  <2>3. /\ reading'["command"] = 1 /\ reading'["scheduler"] = reading["scheduler"]
        /\ reading' \in [Loader -> 0 .. Final]
    BY <2>2 DEF ConfInv, Loaders, Loader, Final
  <2>4. Loaders'
    BY <2>1, <2>2, <2>3 DEF ConfInv, Loaders, Served
  <2> QED
    BY <2>1, <2>4, BeginKeeps DEF Loader
<1> QED
  BY <1>1, <1>2, <1>3

(* Other programs, and the ACS, change options.                            *)
LEMMA OptionsChanged ==
    ASSUME ConfInv, UNCHANGED <<conf, loaded, plain, reading>>, spoilt \/ Loading => spoilt'
    PROVE  Faithful'
<1>1. Loading' = Loading
  BY DEF Loading, Loads
<1>2. CASE spoilt \/ Loading
  BY <1>2 DEF Faithful
<1>3. CASE ~(spoilt \/ Loading)
  <2>1. Settled'
    BY <1>3 DEF ConfInv, Faithful, Settled
  <2> QED
    BY <1>1, <1>3, <2>1 DEF Faithful
<1> QED
  BY <1>2, <1>3

LEMMA CommitKeeps ==
    ASSUME ConfInv, NEW o, NEW v, uci_commit(o, v)
    PROVE  ConfInv'
<1>1. /\ options' = [options EXCEPT ![o] = v] /\ (spoilt \/ Loading => spoilt')
      /\ asked' = [p \in DOMAIN asked |-> IF Touches(o, p) THEN Absent ELSE asked[p]]
      /\ UNCHANGED <<conf, reading, scheduler, command, inSession, reloadFlag, loaded, plain, late>>
  BY DEF uci_commit, Disturb
<1>2. Loaders'
  BY <1>1 DEF ConfInv, Loaders, Served
<1>3. Faithful'
  BY <1>1, OptionsChanged
<1>4. ASSUME NEW p \in DOMAIN OptionOf, asked'[p] # Absent
      PROVE  Committed(p)' /\ (LoadsCurrent(p)' \/ ToBeLoaded')
  <2>1. asked'[p] = asked[p] /\ ~Touches(o, p)
    BY <1>1, <1>4 DEF ConfInv
  <2>2. o # OptionOf[p] /\ (p = "URL" => o # "dhcp_discovery")
    BY <2>1 DEF Touches
  <2>3. options'[OptionOf[p]] = options[OptionOf[p]]
    BY <1>1, <2>2, OptionsTyped DEF ConfInv
  <2>4. p = "URL" => options'.dhcp_discovery = options.dhcp_discovery
    BY <1>1, <2>2, OptionsTyped DEF ConfInv
  <2>5. Committed(p) /\ (LoadsCurrent(p) \/ ToBeLoaded)
    BY <1>4, <2>1 DEF ConfInv, AcsServed
  <2>6. Committed(p)'
    BY <2>1, <2>3, <2>4, <2>5 DEF Committed
  <2>7. LoadsCurrent(p)' \/ ToBeLoaded'
    BY <1>1, <2>3, <2>5 DEF LoadsCurrent, ToBeLoaded
  <2> QED
    BY <2>6, <2>7
<1>5. AcsServed'
  BY <1>4 DEF AcsServed
<1>6. DOMAIN options' = UciOption /\ DOMAIN asked' = DOMAIN OptionOf /\ DOMAIN conf' = Field
  BY <1>1 DEF ConfInv
<1> QED
  BY <1>2, <1>3, <1>5, <1>6 DEF ConfInv

LEMMA SetKeeps ==
    ASSUME ConfInv, NEW s \in AcsSets, set_management_server(s[1], s[2])
    PROVE  ConfInv'
<1> DEFINE p == s[1]
           v == s[2]
<1>1. /\ p \in DOMAIN OptionOf /\ (p = "PeriodicInformTime" => v \in Int)
      /\ p = "LightweightNotificationProtocolsUsed" => v \in {"UDP", ""}
  BY OptionsAssumption
<1>2. /\ scheduler = "serve" /\ AcceptedValue(p, v)
      /\ UNCHANGED <<conf, reading, scheduler, command, inSession, loaded, plain, late>>
  BY DEF set_management_server
<1>3. CASE p = "PeriodicInformTime" /\ v = 0
  <2>1. UNCHANGED <<options, asked, reloadFlag, spoilt>>
    BY <1>3 DEF set_management_server
  <2>2. Loaders' /\ (ToBeLoaded => ToBeLoaded')
    BY <1>2, <2>1 DEF ConfInv, Loaders, Served, ToBeLoaded
  <2> QED
    BY <1>2, <2>1, <2>2, RestKeeps
<1>4. CASE ~(p = "PeriodicInformTime" /\ v = 0)
  <2>1. /\ \E w \in StoredAs(p, v) :
             options' = [options EXCEPT ![OptionOf[p]] = w, !.dhcp_discovery = Discovery(p)]
        /\ asked' = [asked EXCEPT ![p] = v] /\ reloadFlag' = (reloadFlag \/ Sent)
        /\ spoilt' = (spoilt \/ Loading)
    BY <1>4 DEF set_management_server, cwmp_set_end_session, Disturb
  <2>2. PICK w \in StoredAs(p, v) :
             options' = [options EXCEPT ![OptionOf[p]] = w, !.dhcp_discovery = Discovery(p)]
    BY <2>1
  <2> HIDE DEF p, v
  <2>3. /\ OptionOf[p] \in UciOption /\ OptionOf[p] # "dhcp_discovery"
        /\ \A q \in DOMAIN OptionOf : q # p => OptionOf[q] # OptionOf[p]
        /\ \A q \in DOMAIN OptionOf : OptionOf[q] \in UciOption /\ OptionOf[q] # "dhcp_discovery"
    BY <1>1, OptionsTyped
  <2>4. /\ DOMAIN options' = UciOption /\ options'[OptionOf[p]] = w
        /\ options'.dhcp_discovery = Discovery(p)
        /\ \A x \in UciOption : x # OptionOf[p] /\ x # "dhcp_discovery" => options'[x] = options[x]
    BY <2>2, <2>3, OptionsTyped DEF ConfInv
  <2>5. DOMAIN asked' = DOMAIN OptionOf /\ asked'[p] = v
        /\ \A q \in DOMAIN OptionOf : q # p => asked'[q] = asked[q]
    BY <1>1, <2>1 DEF ConfInv
  <2>6. ToBeLoaded'
    BY <1>2, <2>1 DEF ToBeLoaded, Sent
  <2>7. Loaders'
    BY <1>2 DEF ConfInv, Loaders, Served
  <2>8. Faithful'
    BY <1>2, <2>1, OptionsChanged
  <2>9. ASSUME NEW q \in DOMAIN OptionOf, asked'[q] # Absent
        PROVE  Committed(q)'
    <3>1. CASE q = p
      <4>1. p = "URL" => options'.dhcp_discovery = "disable"
        BY <2>4 DEF Discovery
      <4> QED
        BY <1>1, <1>2, <2>2, <2>4, <2>5, <3>1, <4>1 DEF Committed
    <3>2. CASE q # p
      <4>1. asked'[q] = asked[q] /\ options'[OptionOf[q]] = options[OptionOf[q]]
        BY <2>3, <2>4, <2>5, <3>2
      <4>2. q = "URL" => options'.dhcp_discovery = options.dhcp_discovery
        BY <2>4, <3>2 DEF Discovery
      <4>3. Committed(q)
        BY <2>9, <4>1 DEF ConfInv, AcsServed
      <4> QED
        BY <4>1, <4>2, <4>3 DEF Committed
    <3> QED
      BY <3>1, <3>2
  <2>10. AcsServed'
    BY <2>6, <2>9 DEF AcsServed
  <2> QED
    BY <1>2, <2>4, <2>5, <2>7, <2>8, <2>10 DEF ConfInv
<1> QED
  BY <1>3, <1>4

LEMMA ConfStep ==
    ASSUME ConfInv, [ConfNext]_confVars
    PROVE  ConfInv'
<1>1. CASE Load
  BY <1>1, ReadKeeps, UnreadableKeeps, EndKeeps DEF Load, Loader
<1>2. CASE SessionStep
  BY <1>2, SessionKeeps, SetKeeps DEF SessionStep
<1>3. CASE Others
  BY <1>3, CommandKeeps, CommitKeeps DEF Others
<1>4. CASE UNCHANGED confVars
  <2>1. Loaders' /\ (ToBeLoaded => ToBeLoaded')
    BY <1>4 DEF confVars, ConfInv, Loaders, Served, ToBeLoaded
  <2> QED
    BY <1>4, <2>1, RestKeeps DEF confVars
<1> QED
  BY <1>1, <1>2, <1>3, <1>4 DEF ConfNext

-----------------------------------------------------------------------------
(* What the properties say.                                                *)
LEMMA InvWhole ==
    ASSUME ConfInv
    PROVE  Whole
<1> SUFFICES ASSUME ~Loading, ~spoilt
             PROVE  Lasting(conf) = Lasting(Fresh(loaded))
  BY DEF Whole
<1>1. Settled
  BY DEF ConfInv, Faithful
<1>2. \A f \in Field \ ({"amd_version"} \union IF plain THEN {"compression"} ELSE {}) :
         conf[f] = Fresh(loaded)[f]
  BY <1>1 DEF Settled
<1> QED
  BY <1>2 DEF Lasting

LEMMA EffectiveIs ==
    ASSUME NEW p \in DOMAIN OptionOf, NEW v
    PROVE  /\ p = "PeriodicInformInterval" =>
                 (Effective(p, v) <=> (v >= 60 => conf[OptionOf[p]] = v))
           /\ p = "PeriodicInformTime" => (Effective(p, v) <=> conf[OptionOf[p]] \in StoredAs(p, v))
           /\ p = "PeriodicInformEnable" => (Effective(p, v) <=> conf[OptionOf[p]] = (v = "true"))
           /\ p = "LightweightNotificationProtocolsUsed" =>
                 (Effective(p, v) <=> conf[OptionOf[p]] = (v = "UDP"))
           /\ p = "HTTPCompression" =>
                 (Effective(p, v) <=> (conf.supported_amd_version >= AMD_5 /\ ~plain
                     => conf[OptionOf[p]] = IF v = "disabled" THEN "none" ELSE v))
           /\ p \in {"CWMPRetryMinimumWaitInterval", "CWMPRetryIntervalMultiplier"} =>
                 (Effective(p, v) <=> (conf.supported_amd_version >= AMD_3 => conf[OptionOf[p]] = v))
           /\ p = "InstanceMode" =>
                 (Effective(p, v) <=> conf[OptionOf[p]] = get_instance_mode_config(v))
           /\ p \in {"URL", "Username", "Password", "ConnectionRequestUsername",
                     "ConnectionRequestPassword", "UDPLightweightNotificationHost",
                     "UDPLightweightNotificationPort"} => (Effective(p, v) <=> conf[OptionOf[p]] = v)
<1>1. p = "PeriodicInformInterval" => (Effective(p, v) <=> (v >= 60 => conf[OptionOf[p]] = v))
  BY Zenon DEF Effective
<1>2. p = "PeriodicInformTime" => (Effective(p, v) <=> conf[OptionOf[p]] \in StoredAs(p, v))
  BY Zenon DEF Effective
<1>3. p = "PeriodicInformEnable" => (Effective(p, v) <=> conf[OptionOf[p]] = (v = "true"))
  BY Zenon DEF Effective
<1>4. p = "LightweightNotificationProtocolsUsed" =>
                 (Effective(p, v) <=> conf[OptionOf[p]] = (v = "UDP"))
  BY Zenon DEF Effective
<1>5. p = "HTTPCompression" =>
                 (Effective(p, v) <=> (conf.supported_amd_version >= AMD_5 /\ ~plain
                     => conf[OptionOf[p]] = IF v = "disabled" THEN "none" ELSE v))
  BY Zenon DEF Effective
<1>6. p \in {"CWMPRetryMinimumWaitInterval", "CWMPRetryIntervalMultiplier"} =>
                 (Effective(p, v) <=> (conf.supported_amd_version >= AMD_3 => conf[OptionOf[p]] = v))
  BY Zenon DEF Effective
<1>7. p = "InstanceMode" => (Effective(p, v) <=> conf[OptionOf[p]] = get_instance_mode_config(v))
  BY Zenon DEF Effective
<1>8. p \in {"URL", "Username", "Password", "ConnectionRequestUsername",
             "ConnectionRequestPassword", "UDPLightweightNotificationHost",
             "UDPLightweightNotificationPort"} => (Effective(p, v) <=> conf[OptionOf[p]] = v)
  BY Zenon DEF Effective
<1> QED
  BY <1>1, <1>2, <1>3, <1>4, <1>5, <1>6, <1>7, <1>8

LEMMA InvEffective ==
    ASSUME ConfInv, NEW p \in DOMAIN OptionOf, asked[p] # Absent, ~Loading, ~spoilt,
           scheduler = "idle"
    PROVE  Effective(p, asked[p])
<1> DEFINE v == asked[p]
           o == OptionOf[p]
           version == VersionIn(loaded)
           url == Fresh(loaded).url
<1>1. Committed(p) /\ LoadsCurrent(p)
  BY DEF ConfInv, AcsServed, ToBeLoaded
<1>2. loaded[o] \in StoredAs(p, v) /\ AcceptedValue(p, v)
  BY <1>1 DEF Committed, LoadsCurrent
<1>3. \A f \in Field : f = "amd_version" \/ (f = "compression" /\ plain) \/ conf[f] = Fresh(loaded)[f]
  BY DEF ConfInv, Faithful, Settled
<1>4. conf.supported_amd_version = version
  BY <1>3, FieldNames, FreshFields
<1>5. p # "URL" => /\ o \in Single /\ (p = "HTTPCompression" <=> o = "compression")
                   /\ Fresh(loaded)[o] = FieldRead(o, loaded[o], memset_conf[o], version, url)
  BY OptionsTyped, FreshFields
<1>6. p # "URL" /\ ~(p = "HTTPCompression" /\ plain)
        => conf[o] = FieldRead(o, loaded[o], memset_conf[o], version, url)
  BY <1>3, <1>5 DEF Single
<1>7. /\ OptionOf["URL"] = "url" /\ OptionOf["Username"] = "userid"
      /\ OptionOf["Password"] = "passwd"
      /\ OptionOf["PeriodicInformEnable"] = "periodic_inform_enable"
      /\ OptionOf["PeriodicInformInterval"] = "periodic_inform_interval"
      /\ OptionOf["PeriodicInformTime"] = "periodic_inform_time"
      /\ OptionOf["ConnectionRequestUsername"] = "cpe_userid"
      /\ OptionOf["ConnectionRequestPassword"] = "cpe_passwd"
      /\ OptionOf["LightweightNotificationProtocolsUsed"] = "lwn_enable"
      /\ OptionOf["UDPLightweightNotificationHost"] = "lwn_hostname"
      /\ OptionOf["UDPLightweightNotificationPort"] = "lwn_port"
      /\ OptionOf["HTTPCompression"] = "compression"
      /\ OptionOf["CWMPRetryMinimumWaitInterval"] = "retry_min_wait_interval"
      /\ OptionOf["CWMPRetryIntervalMultiplier"] = "retry_interval_multiplier"
      /\ OptionOf["InstanceMode"] = "instance_mode"
  BY DEF OptionOf
<1>8. p \notin {"LightweightNotificationProtocolsUsed", "PeriodicInformTime"} => loaded[o] = v
  BY <1>2, Stored
<1> HIDE DEF version, url
<1>9. CASE p = "URL"
  <2>1. loaded.url = v /\ loaded.dhcp_discovery = "disable"
    BY <1>1, <1>7, <1>8, <1>9 DEF LoadsCurrent
  <2>2. UrlOf(loaded) = v
    BY <2>1, ConfCleared DEF UrlOf, AcsUrl
  <2>3. conf.url = v
    BY <1>3, <2>2, FieldNames, FreshFields
  <2> QED
    BY <1>7, <1>9, <2>3, EffectiveIs
<1>10. CASE p \in {"Username", "Password", "ConnectionRequestUsername", "ConnectionRequestPassword"}
  <2>1. o \in Plain
    BY <1>7, <1>10 DEF Plain, TextOption
  <2>2. conf[o] = v
    BY <1>6, <1>8, <1>10, <2>1, PlainRead
  <2> QED
    BY <1>10, <2>2, EffectiveIs
<1>11. CASE p \in {"UDPLightweightNotificationHost", "UDPLightweightNotificationPort"}
  <2>1. conf[o] = get_lwn_config(url, o, v, memset_conf[o])
    <3>1. o \in LwnOption
      BY <1>7, <1>11 DEF LwnOption
    <3> QED
      BY <1>6, <1>8, <1>11, <3>1, LwnFieldRead
  <2>2. conf[o] = v
    BY <1>7, <1>11, <2>1, Lwn
  <2> QED
    BY <1>11, <2>2, EffectiveIs
<1>12. CASE p = "LightweightNotificationProtocolsUsed"
  <2>1. loaded[o] = lwn_protocol_used(v)
    BY <1>2, <1>12, Stored
  <2>2. conf[o] = get_lwn_config(url, o, loaded[o], memset_conf[o])
    <3>1. o \in LwnOption
      BY <1>7, <1>12 DEF LwnOption
    <3> QED
      BY <1>6, <1>12, <3>1, LwnFieldRead
  <2>3. loaded[o] # Absent
    BY <2>1, OptionsAssumption DEF lwn_protocol_used
  <2>4. conf[o] = (loaded[o] = "true")
    BY <1>7, <1>12, <2>2, <2>3, Lwn
  <2>5. (loaded[o] = "true") = (v = "UDP")
    BY <2>1 DEF lwn_protocol_used
  <2> QED
    BY <1>12, <2>4, <2>5, EffectiveIs
<1>13. CASE p = "PeriodicInformTime"
  <2>1. conf[o] = OrDefault(o, loaded[o])
    BY <1>6, <1>7, <1>13, NumberRead
  <2>2. loaded[o] \in Int /\ loaded[o] # Absent
    <3>1. v \in Int
      BY <1>1, <1>13 DEF Committed
    <3>2. StoredAs(p, v) = {v, v - 3600}
      BY <1>13, Stored
    <3> HIDE DEF v, o
    <3>3. loaded[o] \in Int
      BY <1>2, <3>1, <3>2
    <3> QED
      BY <3>3, OptionsAssumption
  <2>3. conf[o] = loaded[o]
    BY <1>7, <1>13, <2>1, <2>2 DEF OrDefault, Default
  <2> QED
    BY <1>2, <1>13, <2>3, EffectiveIs
<1>14. CASE p = "PeriodicInformInterval"
  <2>1. conf[o] = Interval(v)
    BY <1>6, <1>7, <1>8, <1>14, NumberRead
  <2> QED
    BY <1>14, <2>1, EffectiveIs DEF Interval
<1>15. CASE p = "PeriodicInformEnable"
  <2>1. conf[o] = (v = "true")
    BY <1>6, <1>7, <1>8, <1>15, NumberRead
  <2> QED
    BY <1>15, <2>1, EffectiveIs
<1>16. CASE p = "InstanceMode"
  <2>1. conf[o] = get_instance_mode_config(v)
    BY <1>6, <1>7, <1>8, <1>16, NumberRead
  <2> QED
    BY <1>16, <2>1, EffectiveIs
<1>17. CASE p \in {"CWMPRetryMinimumWaitInterval", "CWMPRetryIntervalMultiplier"}
  <2>1. conf[o] = RetryRead(version, o, v)
    BY <1>6, <1>7, <1>8, <1>17, NumberRead
  <2> QED
    BY <1>4, <1>17, <2>1, EffectiveIs DEF RetryRead
<1>18. CASE p = "HTTPCompression"
  <2>1. ~plain => conf[o] = Compression(version, v)
    BY <1>6, <1>7, <1>8, <1>18, NumberRead
  <2>2. v \in {"gzip", "deflate", "disabled"}
    BY <1>2, <1>18 DEF AcceptedValue
  <2>3. conf.supported_amd_version >= AMD_5 /\ ~plain
          => conf[o] = IF v = "disabled" THEN "none" ELSE v
    BY <1>4, <2>1, <2>2 DEF Compression
  <2> QED
    BY <1>18, <2>3, EffectiveIs
<1> QED
  BY <1>9, <1>10, <1>11, <1>12, <1>13, <1>14, <1>15, <1>16, <1>17, <1>18, OptionsTyped

LEMMA InvInUse ==
    ASSUME ConfInv
    PROVE  InUse
<1>1. DOMAIN asked = DOMAIN OptionOf
  BY DEF ConfInv
<1>2. ASSUME NEW p \in DOMAIN OptionOf, asked[p] # Absent,
             p \notin {"Password", "ConnectionRequestPassword", "PeriodicInformTime"}
      PROVE  get_management_server(p) = asked[p]
  <2>1. Committed(p)
    BY <1>2 DEF ConfInv, AcsServed
  <2>2. CASE p = "LightweightNotificationProtocolsUsed"
    <3>1. options[OptionOf[p]] \in StoredAs(p, asked[p]) /\ asked[p] \in {"UDP", ""}
      BY <2>1, <2>2 DEF Committed
    <3>2. StoredAs(p, asked[p]) = {lwn_protocol_used(asked[p])}
      BY <2>2, Stored
    <3>3. options[OptionOf[p]] = lwn_protocol_used(asked[p])
      BY <3>1, <3>2
    <3> QED
      BY <2>2, <3>1, <3>3, WhatIsRead DEF lwn_protocol_used
  <2>3. CASE p # "LightweightNotificationProtocolsUsed"
    <3>1. options[OptionOf[p]] \in StoredAs(p, asked[p])
      BY <2>1 DEF Committed
    <3>2. StoredAs(p, asked[p]) = {asked[p]}
      BY <1>2, <2>3, Stored
    <3> QED
      BY <1>2, <2>3, <3>1, <3>2, WhatIsRead
  <2> QED
    BY <2>2, <2>3
<1> QED
  BY <1>1, <1>2, InvEffective DEF InUse

LEMMA InvOneForSession ==
    ASSUME ConfInv, ConfNext \/ UNCHANGED confVars
    PROVE  OneForSession
<1> SUFFICES ASSUME Served, Served', ~late
             PROVE  \A f \in Field \ {"amd_version", "compression"} : conf[f] = conf'[f]
  BY DEF OneForSession
<1>1. command = "idle" /\ \A t \in Loader : reading[t] = 0
  BY DEF ConfInv, Loaders, Served, Loader
<1>2. ~Load
  BY <1>1, Orders DEF Load, Loader, get_global_config, unreadable, cwmp_root_cause_event_bootstrap
<1>3. CASE SessionStep
  <2>1. CASE \E v \in AcsVersions : cwmp_rpc_acs_parse_response_inform(v)
    <3>1. PICK n : conf' = [conf EXCEPT !.amd_version = n]
      BY <2>1 DEF cwmp_rpc_acs_parse_response_inform
    <3> QED
      BY <3>1 DEF ConfInv
  <2>2. CASE http_send_message_415
    BY <2>2 DEF http_send_message_415, ConfInv
  <2>3. CASE run_session_end_func
    BY <2>3 DEF run_session_end_func, Served
  <2>4. CASE \/ cwmp_move_session_to_session_send \/ start_session \/ no_more_rpcs \/ close_session
             \/ \E s \in AcsSets : set_management_server(s[1], s[2])
    <3>1. conf' = conf
      BY <2>4 DEF cwmp_move_session_to_session_send, start_session, no_more_rpcs, close_session,
         set_management_server
    <3> QED
      BY <3>1
  <2> QED
    BY <1>3, <2>1, <2>2, <2>3, <2>4 DEF SessionStep
<1>4. CASE Others
  <2>1. ~cwmp_apply_acs_changes
    BY <1>1 DEF cwmp_apply_acs_changes
  <2>2. conf' = conf
    BY <1>4, <2>1 DEF Others, reload_end_session, reload_command, uci_commit
  <2> QED
    BY <2>2
<1>5. CASE UNCHANGED confVars
  BY <1>5 DEF confVars
<1> QED
  BY <1>2, <1>3, <1>4, <1>5 DEF ConfNext

(* Loads of the configuration by the scheduler and by the ubus command are *)
(* whole, what the ACS sets in ManagementServer is in use after its        *)
(* session and read back, and a session keeps its configuration (config.c, *)
(* cwmp.c, ubus.c, managementserver.c).                                    *)
THEOREM ConfigurationAlwaysSound == ConfSpec => ConfigurationSound
<1>1. ConfInit => ConfInv
  BY ConfStart
<1>2. ConfInv /\ [ConfNext]_confVars => ConfInv'
  BY ConfStep
<1>3. ConfInv => Whole /\ InUse
  BY InvWhole, InvInUse
<1>4. ConfInv /\ [ConfNext]_confVars => OneForSession
  BY InvOneForSession
<1>5. ConfInv /\ ConfInv' /\ [ConfNext]_confVars => [(Whole /\ InUse)' /\ OneForSession]_confVars
  BY <1>3, <1>4, PTL
<1> QED
  BY <1>1, <1>2, <1>5, PTL DEF ConfSpec, ConfigurationSound
=============================================================================
