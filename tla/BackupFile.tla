---------------------------- MODULE BackupFile ----------------------------
(***************************************************************************)
(* The records of pending work (backupSession.c): how they are inserted,   *)
(* found again and deleted in the tree, and what is left of them when the  *)
(* tree is saved, the process ends and the file is read again.             *)
(*                                                                         *)
(* A text is "absent" (no text node, or a null pointer in the structure),  *)
(* "empty", one word, or two: the reader splits a text into words and the  *)
(* loaders take the first.                                                 *)
(***************************************************************************)
EXTENDS Naturals, Sequences, SequencesExt

CONSTANTS
    Kinds,          \* names of the records in use
    Keys,           \* per kind: the command keys and the times requests have
    Times,
    MaxItems,       \* bound: requests
    MaxRestarts     \* bound: ends of the process

Text == {"absent", "empty", "k1", "k1 k2", "k3", "t1", "t2", "x"}

ASSUME KindsAssumption ==
    /\ Keys \in [Kinds -> SUBSET Text] /\ Times \subseteq Text
    /\ MaxItems \in Nat /\ MaxRestarts \in Nat

VARIABLES
    tree,       \* the records in memory, in their order
    file,       \* the records in the file
    torn,       \* the file is truncated and not written yet
    pending,    \* the structures in memory, in the order of their creation
    up, restarts,
    \* history
    saved,      \* what was pending at the last save that was completed
    distinct,   \* no two records that were together clashed
    orphans     \* records that were read without a request that waits

vars == <<tree, file, torn, pending, up, restarts, saved, distinct, orphans>>

-----------------------------------------------------------------------------
(* The fields of a record in the order of its insertion, and the fields    *)
(* its searches ask for.                                                   *)
Account == <<"url", "command_key", "file_type", "username", "password">>
Window1 == <<"windowstart1", "windowend1", "windowmode1", "usermessage1", "maxretrie1">>
Window2 == <<"windowstart2", "windowend2", "windowmode2", "usermessage2", "maxretrie2">>
Retries == <<"windowstart1", "windowend1", "maxretrie1", "windowstart2", "windowend2",
             "maxretrie2">>

Fields(kind) ==
    CASE kind = "schedule_inform" -> <<"command_key", "time">>
      [] kind = "change_du_state" -> <<"command_key", "time", "operation">>
      [] kind = "du_state_change_complete" -> <<"command_key", "time", "opresult">>
      [] kind = "download" -> Account \o <<"file_size", "time">>
      [] kind = "upload" -> Account \o <<"time">>
      [] kind = "schedule_download" -> Account \o <<"file_size">> \o Window1 \o Window2
      [] kind = "apply_schedule_download" ->
           <<"start_time", "command_key", "file_type">> \o Retries
      [] kind = "transfer_complete" ->
           <<"command_key", "start_time", "complete_time", "old_software_version",
             "fault_code", "type">>

DeleteKeys(kind) ==
    CASE kind \in {"change_du_state", "du_state_change_complete"} -> <<"command_key", "time">>
      [] kind = "transfer_complete" -> Remove(Fields(kind), "old_software_version")
      [] OTHER -> Fields(kind)

InsertKeys(kind) ==
    CASE kind = "apply_schedule_download" ->
           <<"command_key", "file_type", "start_time">> \o Retries
      [] OTHER -> DeleteKeys(kind)

(* Kinds that are inserted without a search. *)
Unsearched == {"change_du_state", "du_state_change_complete"}

(* A structure: a kind and its texts; they differ in command key and time. *)
TimeField == [schedule_inform |-> "time", change_du_state |-> "time",
              du_state_change_complete |-> "time", download |-> "time", upload |-> "time",
              schedule_download |-> "windowstart1", apply_schedule_download |-> "windowstart1",
              transfer_complete |-> "start_time"]

Item(kind, key, time) ==
    [kind |-> kind,
     text |-> [f \in ToSet(Fields(kind)) |->
                 CASE f = "command_key" -> key [] f = TimeField[kind] -> time [] OTHER -> "x"]]

Items == {Item(k, c, t) : k \in Kinds, c \in UNION {Keys[k] : k \in Kinds}, t \in Times}
Accepted == {i \in Items : i.text["command_key"] \in Keys[i.kind]}

(* A record is the structure it was made of; "absent" has no text node.    *)
TypeOK ==
    /\ \A r \in ToSet(tree) \union ToSet(pending) \union ToSet(saved) :
         /\ r.kind \in Kinds
         /\ r.text \in [ToSet(Fields(r.kind)) -> Text]
    /\ \A r \in ToSet(file) : r.kind \in Kinds
    /\ torn \in BOOLEAN
    /\ up \in BOOLEAN /\ restarts \in 0 .. MaxRestarts

(* One child of the record after the other may satisfy the next key; a key *)
(* without a value is satisfied by any text.                               *)
Satisfied(record, item, keys) ==
    FoldLeft(LAMBDA i, f :
               IF /\ i < Len(keys) /\ keys[i + 1] = f
                  /\ \/ item.text[f] = "absent"
                     \/ record.text[f] # "absent" /\ record.text[f] = item.text[f]
               THEN i + 1 ELSE i,
             0, Fields(record.kind))

(* Mutant: a record that is not searched for to its end counts.            *)
FoundInPart(t, item, keys) ==
    LET first == SelectInSeq(t, LAMBDA r : r.kind = item.kind)
    IN  IF first = 0 THEN 0
        ELSE SelectInSeq([j \in 1 .. Len(t) |-> j >= first /\ Satisfied(t[j], item, keys) >= 1],
                         LAMBDA hit : hit)

(* The search begins at the first record of its name and goes on over      *)
(* records of every name.                                                  *)
bkp_session_node_found(t, item, keys) ==
    LET first == SelectInSeq(t, LAMBDA r : r.kind = item.kind)
    IN  IF first = 0 THEN 0
        ELSE SelectInSeq([j \in 1 .. Len(t) |->
                            j >= first /\ Satisfied(t[j], item, keys) = Len(keys)],
                         LAMBDA hit : hit)

bkp_session_insert(t, item) ==
    IF /\ item.kind \notin Unsearched
       /\ bkp_session_node_found(t, item, InsertKeys(item.kind)) # 0
    THEN t ELSE Append(t, item)

bkp_session_delete(t, item) ==
    LET at == bkp_session_node_found(t, item, DeleteKeys(item.kind))
    IN  IF at = 0 THEN t ELSE RemoveAt(t, at)

(* What the reader makes of a text. *)
Read(text) == CASE text = "empty" -> "absent" [] text = "k1 k2" -> "k1" [] OTHER -> text

-----------------------------------------------------------------------------
Key(item) == Read(item.text["command_key"])
Time(item) == item.text[TimeField[item.kind]]

(* A kind whose search of an insertion asks for the start time after the   *)
(* fields that its record has behind it: it never finds anything.          *)
Disordered == {"apply_schedule_download"}

(* Two records that one search can take for each other: their texts agree  *)
(* (also when the kinds differ, as the walk goes on over every name), or   *)
(* they agree but for a command key that one of them does not have.  Equal *)
(* requests of a kind that is recorded without looking have a record each. *)
Clash(a, b) ==
    /\ Time(a) = Time(b)
    /\ Key(a) = Key(b) \/ "absent" \in {Key(a), Key(b)}
    /\ a = b => a.kind \notin Unsearched \union Disordered

(* load_change_du_state links the list of operations, not the request,     *)
(* into list_change_du_state: the request does not wait again.             *)
Misread == {"change_du_state"}

(* A request is accepted and recorded, and dealt with and unrecorded.      *)
Writable == up /\ ~torn

accept(item) ==
    /\ Writable /\ Len(pending) < MaxItems
    /\ distinct    \* bound: nothing is accepted after a clash
    /\ pending' = Append(pending, item)
    /\ tree' = bkp_session_insert(tree, item)
    /\ distinct' = \A r \in ToSet(tree) : ~Clash(r, item)
    /\ UNCHANGED <<file, torn, up, restarts, saved, orphans>>

finish(i) ==
    /\ Writable
    /\ tree' = bkp_session_delete(tree, pending[i])
    /\ pending' = RemoveAt(pending, i)
    /\ UNCHANGED <<file, torn, up, restarts, saved, distinct, orphans>>

(* The file is truncated, and then written. *)
save_begin ==
    /\ Writable /\ tree # file    \* bound: a save changes the file
    /\ torn' = TRUE
    /\ UNCHANGED <<tree, file, pending, up, restarts, saved, distinct, orphans>>

save_end ==
    /\ up /\ torn
    /\ torn' = FALSE /\ file' = tree /\ saved' = pending
    /\ UNCHANGED <<tree, pending, up, restarts, distinct, orphans>>

crash ==
    /\ up /\ restarts < MaxRestarts
    /\ up' = FALSE /\ tree' = <<>> /\ pending' = <<>> /\ orphans' = 0
    /\ UNCHANGED <<file, torn, restarts, saved, distinct>>

(* Mutant: the first record is taken for the head of the list. *)
LoadedButFirst(r) == [i \in 1 .. (IF r = <<>> THEN 0 ELSE Len(r) - 1) |->
    [r[i + 1] EXCEPT !.text = [f \in DOMAIN r[i + 1].text |-> Read(r[i + 1].text[f])]]]

Loaded(r) == [i \in 1 .. Len(r) |->
    [r[i] EXCEPT !.text = [f \in DOMAIN r[i].text |-> Read(r[i].text[f])]]]

(* A file that cannot be read is replaced by an empty one. *)
bkp_session_check_file ==
    /\ ~up /\ up' = TRUE /\ restarts' = restarts + 1
    /\ tree' = IF torn THEN <<>> ELSE Loaded(file)
    /\ file' = tree' /\ torn' = FALSE
    /\ pending' = SelectSeq(tree', LAMBDA r : r.kind \notin Misread)
    /\ orphans' = Len(tree') - Len(pending')
    /\ saved' = IF torn THEN <<>> ELSE saved
    /\ UNCHANGED distinct

Init ==
    /\ tree = <<>> /\ file = <<>> /\ torn = FALSE /\ pending = <<>>
    /\ up = TRUE /\ restarts = 0 /\ saved = <<>> /\ distinct = TRUE
    /\ orphans = 0

Next ==
    \/ \E item \in Accepted : accept(item)
    \/ \E i \in 1 .. Len(pending) : finish(i)
    \/ save_begin \/ save_end \/ crash \/ bkp_session_check_file

Spec == Init /\ [][Next]_vars

-----------------------------------------------------------------------------
(* Properties. *)

(* "The order of key array filling should be the same of insertion         *)
(* function" (backupSession.c:47): the search of an insertion finds the    *)
(* record that insertion made, so that it is made once - except that of    *)
(* the kind that breaks the rule.                                          *)
FoundAgain ==
    \A r \in ToSet(tree) : r.kind \notin Disordered =>
        bkp_session_node_found(tree, r, InsertKeys(r.kind)) # 0

(* Every structure that waits has a record of its kind that is deleted     *)
(* with it, across reloads too, as long as no two records clashed.         *)
OnRecord ==
    distinct => \A i \in 1 .. Len(pending) :
      LET at == bkp_session_node_found(tree, pending[i], DeleteKeys(pending[i].kind))
      IN  /\ at # 0 /\ tree[at].kind = pending[i].kind
          /\ Key(tree[at]) = Key(pending[i]) /\ Time(tree[at]) = Time(pending[i])

(* Nothing is on record that does not wait, whatever finished before: no   *)
(* request that is done comes back after a restart.  A ChangeDUState       *)
(* request that was read stays on record for good and never waits.         *)
NoGhosts ==
    distinct => Len(tree) = Len(pending) + orphans

(* What waited at the last save that was completed waits again after a     *)
(* restart, with the first word of its command key and its own time; a     *)
(* ChangeDUState request does not, and is only still on record.            *)
Recovered ==
    [][up' /\ ~up /\ ~torn /\ distinct
       => \A r \in ToSet(saved) :
            \E x \in ToSet(IF r.kind \in Misread THEN file' ELSE pending') :
              x.kind = r.kind /\ Key(x) = Key(r) /\ Time(x) = Time(r)]_vars

(* The records are those of the requests that wait: one can be found for   *)
(* each, and there are no others; and a second insertion finds the first.  *)
RecordsMatch ==
    /\ TypeOK
    /\ FoundAgain
    /\ OnRecord
    /\ NoGhosts
=============================================================================
