----------------------------- MODULE DataModel -----------------------------
(***************************************************************************)
(* One RPC on the data model: the handlers of xml.c, the two entry points  *)
(* of dm/dmentry.c, the walks of dm/dmcwmp.c and the UCI transaction of    *)
(* dm/dmuci.c.  The tree is one object T with instances, each with a       *)
(* parameter "v" and its alias "a", a writable scalar "s" and a read-only  *)
(* one "f", whose notification is forced.                                  *)
(***************************************************************************)
EXTENDS Integers, SequencesExt, FiniteSetsExt

CONSTANTS
    MaxInst,        \* bound: instance numbers, and sections of T
    Values,         \* what "v" and "s" may be set to
    Notification,   \* of 0 .. 6, the values the ACS uses
    InstanceMode,   \* "number" or "alias", of the configuration
    SetNames,       \* what the ACS names in SetParameterValues,
    AttributeNames, \* in SetParameterAttributes,
    ObjectNames,    \* and in DeleteObject
    ParameterKeys,
    MaxEntries      \* bound: parameters of one RPC

VARIABLES
    disk,       \* the committed packages, cwmp and that of the data
    running,    \* the package "data" as the services use it
    changed,    \* head_package_change
    reload,     \* END_SESSION_RELOAD is set
    rpc, before     \* history: the RPC and its answer, disk as it found it

dataVars == <<disk, running, changed, reload, rpc, before>>

Inst == 1 .. MaxInst
Custom == -1                \* an alias other than cpe-1, cpe-2 ...

(* What a request names: an instance by number or by alias.                *)
Ref == [how : {"number"}, n : Inst] \union [how : {"alias"}, n : Inst \union {Custom}]
None == [how |-> "none", n |-> 0]
ParamName == [ref : Ref, leaf : {"v", "a"}] \union [ref : {None}, leaf : {"s", "f"}]
ObjName == [ref : Ref \union {None}, leaf : {""}]

ASSUME NamesAssumption ==
    SetNames \subseteq ParamName /\ AttributeNames \subseteq ParamName \union ObjName
    /\ ObjectNames \subseteq ObjName
ASSUME ValuesAssumption == Values # {} /\ Notification \subseteq 0 .. 6

(* Paths of the notification lists, always by number; "" ends an object.   *)
Path(n, leaf) == IF n = 0 THEN <<"T", leaf>> ELSE <<"T", ToString(n), leaf>>
Scalar(leaf) == <<leaf>>
Covers(p, q) ==
    \/ p = q
    \/ Last(p) = "" /\ Len(p) <= Len(q) /\ Front(p) = SubSeq(q, 1, Len(p) - 1)

-----------------------------------------------------------------------------
(* Notification lists.                                                     *)

(* An exact entry wins, else the longest object; the lists are searched    *)
(* from type 6 to type 0.                                                  *)
get_parameter_notification(lists, p) ==
    LET found == {f \in (0 .. 6) \X UNION {lists[t] : t \in 0 .. 6} :
                     f[2] \in lists[f[1]] /\ Covers(f[2], p)}
        exact == {f \in found : f[2] = p}
        longest == {f \in found : \A g \in found : Len(g[2]) <= Len(f[2])}
        best == IF exact # {} THEN exact ELSE longest
    IN  IF best = {} THEN 0 ELSE Max({f[1] : f \in best})

(* Mutant: the entries below an object stay.                               *)
RemoveExact(lists, p) == [t \in 0 .. 6 |-> lists[t] \ {p}]

remove_parameter_notification(lists, p) ==
    [t \in 0 .. 6 |-> {q \in lists[t] : ~Covers(p, q)}]

(* The entries of the path and below go; one is added unless the value is  *)
(* inherited, for type 0 only below an object that has another.            *)
set_parameter_notification(lists, p, value) ==
    LET rest == remove_parameter_notification(lists, p)
    IN  IF \/ get_parameter_notification(rest, p) = value
           \/ value = 0 /\ ~ \E t \in 1 .. 6 : \E q \in rest[t] : Last(q) = "" /\ Covers(q, p)
        THEN rest ELSE [rest EXCEPT ![value] = @ \union {p}]

-----------------------------------------------------------------------------
(* Instances.  ctx is the dmctx: the UCI context with its changes, and     *)
(* alias_register and nbrof_instance of the first level.                   *)

(* A section without a number gets the one after its predecessor's.        *)
InstNumbers(secs) ==
    LET number[i \in 0 .. Len(secs)] ==
          IF i = 0 THEN 0
          ELSE IF secs[i].inst # 0 THEN secs[i].inst ELSE number[i - 1] + 1
    IN  number

(* update_instance_alias for the first k sections, in the order of the     *)
(* file.                                                                   *)
Browse(secs, aliases, k) ==
    [i \in 1 .. Len(secs) |->
       IF i > k THEN secs[i]
       ELSE [inst |-> InstNumbers(secs)[i],
             alias |-> IF aliases /\ secs[i].alias = 0 THEN InstNumbers(secs)[i] ELSE secs[i].alias,
             v |-> secs[i].v]]

(* dmentry_instance_lookup_inparam: the register is never cleared within   *)
(* one RPC.                                                                *)
Enter(ctx, ref) ==
    [ctx EXCEPT !.register = (@ \/ ref.how = "alias"),
                !.nbr = IF ref = None THEN 0 ELSE 1]

(* handle_update_instance: how the instances are named in this walk.       *)
ByAlias(ctx) == IF ctx.nbr > 0 THEN ctx.register ELSE InstanceMode = "alias"

(* The walk stops at the section whose name is that of the request.        *)
Found(ctx, ref) ==
    LET all == Browse(ctx.secs, ByAlias(ctx), Len(ctx.secs))
    IN  SelectInSeq(all, LAMBDA s :
            IF ByAlias(ctx) THEN ref.how = "alias" /\ s.alias = ref.n
                            ELSE ref.how = "number" /\ s.inst = ref.n)

Walked(ctx, ref) ==
    LET at == Found(ctx, ref)
    IN  [ctx EXCEPT !.secs = Browse(@, ByAlias(ctx), IF at = 0 THEN Len(@) ELSE at)]

(* get_last_instance, and the number of a new section.                     *)
NextInstance(secs) == IF secs = <<>> THEN 1 ELSE Last(secs).inst + 1

(* Mutant: the number of sections instead of the last number.              *)
NextByCount(secs) == Len(secs) + 1

-----------------------------------------------------------------------------
(* The checks of one entry, and what it changes.                           *)
Known(ctx, name) == name.ref = None \/ Found(ctx, name.ref) # 0

dm_entry_set_value_check(ctx, e) ==
    IF ~Known(ctx, e.name) THEN 9005
    ELSE IF e.name.leaf = "f" THEN 9008
    ELSE IF e.name.leaf # "a" /\ e.value \notin Values THEN 9007 ELSE 0

dm_entry_set_value(ctx, e) ==
    LET w == Walked(ctx, e.name.ref) at == Found(ctx, e.name.ref)
    IN  IF e.name.leaf = "s" THEN [ctx EXCEPT !.s = e.value]
        ELSE IF e.name.leaf = "v" THEN [w EXCEPT !.secs[at].v = e.value]
        ELSE [w EXCEPT !.secs[at].alias = e.value]

(* The path a name stands for, once it has been walked to.                 *)
PathOf(ctx, name) ==
    IF name.ref = None
    THEN IF name.leaf = "" THEN Path(0, "") ELSE Scalar(name.leaf)
    ELSE Path(Walked(ctx, name.ref).secs[Found(ctx, name.ref)].inst, name.leaf)

(* NotificationChange false, or not a boolean, is refused.                 *)
dm_entry_set_notification_check(ctx, e) ==
    IF ~e.change THEN 9003
    ELSE IF ~Known(ctx, e.name) THEN 9005
    ELSE IF e.name.leaf = "f" THEN 9009 ELSE 0

dm_entry_set_notification(ctx, e) ==
    LET w == IF e.name.ref = None THEN ctx ELSE Walked(ctx, e.name.ref)
    IN  [w EXCEPT !.lists = set_parameter_notification(@, PathOf(ctx, e.name), e.value)]

(* The check of each entry: what is browsed stays, faults add up.  A set   *)
(* of attributes stops at the first.                                       *)
Checked(cmd, c, e) ==
    IF cmd = "attributes" /\ c.fault # 0 THEN c
    ELSE LET d == Enter(c, e.name.ref)
             w == IF e.name.ref = None THEN d ELSE Walked(d, e.name.ref)
             f == IF cmd = "set" THEN dm_entry_set_value_check(d, e)
                  ELSE dm_entry_set_notification_check(d, e)
         IN  [w EXCEPT !.fault = IF f # 0 THEN f ELSE @]

dm_entry_param_method(cmd, ctx, entries) ==
    LET c[i \in 0 .. Len(entries)] ==
          IF i = 0 THEN ctx ELSE Checked(cmd, c[i - 1], entries[i])
    IN  c[Len(entries)]

(* The walks use the registers the last check has left; an entry that is   *)
(* not found any more ends it.                                             *)
Applied(cmd, c, e) ==
    IF c.fault # 0 THEN c
    ELSE IF ~Known(c, e.name) THEN [c EXCEPT !.fault = 9005]
    ELSE IF cmd = "set" THEN dm_entry_set_value(c, e) ELSE dm_entry_set_notification(c, e)

dm_entry_apply(cmd, ctx, entries) ==
    LET c[i \in 0 .. Len(entries)] ==
          IF i = 0 THEN ctx ELSE Applied(cmd, c[i - 1], entries[i])
    IN  c[Len(entries)]

-----------------------------------------------------------------------------
(* The handlers.                                                           *)
Idle == [kind |-> "none"]
Ready == rpc = Idle
Ctx == [secs |-> disk.secs, s |-> disk.s, key |-> disk.key, lists |-> disk.lists,
        register |-> FALSE, nbr |-> 0, fault |-> 0]

(* dm_entry_param_method ends with a commit, whatever its result: it keeps *)
(* the numbers and aliases of the sections that were browsed.              *)
Keep(c) == disk' = [disk EXCEPT !.secs = c.secs]

Answer(kind, entries, key, fault) ==
    /\ rpc' = [kind |-> kind, entries |-> entries, key |-> key, fault |-> fault]
    /\ before' = disk

(* Mutant: the changes are looked for after the commit.                    *)
ChangedAfter(c) == {}

(* dmuci_change_packages, before the commit.                               *)
Changes(c) ==
    (IF c.key # disk.key \/ c.lists # disk.lists THEN {"cwmp"} ELSE {})
    \union (IF c.secs # disk.secs \/ c.s # disk.s THEN {"data"} ELSE {})

Commit(c) ==
    /\ changed' = changed \union Changes(c)
    /\ disk' = [secs |-> c.secs, s |-> c.s, key |-> c.key, lists |-> c.lists]

Refused(c, kind, entries, key, fault) ==
    /\ Keep(c) /\ Answer(kind, entries, key, fault)
    /\ UNCHANGED changed

(* Mutant: what was changed before the fault is committed.                 *)
Committed(c, a, entries, key) ==
    /\ Commit(a) /\ Answer("set", entries, key, a.fault)

Reverted(c, a, entries, key) == Refused(c, "set", entries, key, a.fault)

(* An entry whose name is repeated ends the handler when it is reached.    *)
Repeated(entries) ==
    SelectInSeq([i \in DOMAIN entries |->
                   \E j \in DOMAIN entries : j > i /\ entries[j].name = entries[i].name],
                LAMBDA r : r)

cwmp_handle_rpc_cpe_set_parameter_values(entries, key) ==
    /\ Ready
    /\ UNCHANGED <<running, reload>>
    /\ LET r == Repeated(entries)
           read == IF r = 0 THEN entries ELSE SubSeq(entries, 1, r - 1)
           c == dm_entry_param_method("set", Ctx, read)
           a == dm_entry_apply("set", c, entries)
       IN  IF r # 0 \/ c.fault # 0 THEN Refused(c, "set", entries, key, 9003)
           ELSE IF key = "none" THEN Refused(c, "set", entries, key, 9001)
           ELSE IF a.fault # 0 THEN Reverted(c, a, entries, key)
           ELSE Commit([a EXCEPT !.key = key]) /\ Answer("set", entries, key, 0)

cwmp_handle_rpc_cpe_set_parameter_attributes(entries) ==
    /\ Ready
    /\ UNCHANGED running
    /\ LET c == dm_entry_param_method("attributes", Ctx, entries)
           a == dm_entry_apply("attributes", c, entries)
       IN  IF c.fault # 0
           THEN Refused(c, "attributes", entries, disk.key, c.fault) /\ UNCHANGED reload
           ELSE IF a.fault # 0
           THEN Refused(c, "attributes", entries, disk.key, a.fault) /\ reload' \in {reload, TRUE}
           ELSE /\ disk' = [secs |-> a.secs, s |-> disk.s, key |-> disk.key, lists |-> a.lists]
                /\ UNCHANGED changed
                /\ Answer("attributes", entries, disk.key, 0)
                /\ reload' = TRUE

(* A get RPC walks to its parameter, or through the whole of its object,   *)
(* and changes nothing else.                                               *)
Walk(name) ==
    /\ Ready
    /\ LET c == Enter(Ctx, name.ref)
       IN  Keep(IF name.ref # None THEN Walked(c, name.ref)
                ELSE IF name.leaf = "" THEN [c EXCEPT !.secs = Browse(@, ByAlias(c), Len(@))]
                ELSE c)
    /\ UNCHANGED <<running, changed, reload, rpc, before>>

dm_entry_get_value(name) == Walk(name)
dm_entry_get_notification(name) == Walk(name)

(* Without a NextLevel nothing is looked for; one that is not a boolean is *)
(* refused before the walk.                                                *)
dm_entry_get_name(name, next_level) == next_level \in {"0", "1"} /\ Walk(name)

cwmp_handle_rpc_cpe_get_parameter_values(name) == dm_entry_get_value(name)
cwmp_handle_rpc_cpe_get_parameter_attributes(name) == dm_entry_get_notification(name)
cwmp_handle_rpc_cpe_get_parameter_names(name, next_level) ==
    dm_entry_get_name(name, next_level)

(* The new section is the last of the file; add_object_obj clears what is  *)
(* left of an instance of the same number in the lists.                    *)
(* Mutant: the lists are left alone.                                       *)
ClearedNot(lists, n) == lists

Cleared(lists, n) == set_parameter_notification(lists, Path(n, ""), 0)

dm_entry_add_object(ctx, v) ==
    LET secs == Browse(ctx.secs, FALSE, Len(ctx.secs))
        n == NextInstance(secs)
    IN  [ctx EXCEPT !.secs = Append(secs, [inst |-> n, alias |-> 0, v |-> v]),
                    !.lists = Cleared(@, n)]

cwmp_handle_rpc_cpe_add_object(v, key) ==
    /\ Ready
    /\ LET c == dm_entry_add_object(Ctx, v)
       IN  /\ Last(c.secs).inst \in Inst
           /\ Commit([c EXCEPT !.key = key])
           /\ Answer("add", <<Last(c.secs).inst>>, key, 0)
    /\ UNCHANGED <<running, reload>>

(* One instance, or all of them.                                           *)
dm_entry_delete_object(ctx, ref) ==
    LET c == Enter(ctx, ref)
        w == Walked(c, ref)
        at == Found(c, ref)
    IN  IF ref = None THEN [w EXCEPT !.secs = <<>>]
        ELSE IF at = 0 THEN [w EXCEPT !.fault = 9005]
        ELSE [w EXCEPT !.secs = RemoveAt(@, at)]

cwmp_handle_rpc_cpe_delete_object(name, key) ==
    /\ Ready
    /\ LET c == dm_entry_delete_object(Ctx, name.ref)
       IN  IF c.fault # 0
           THEN Refused(c, "delete", <<name>>, key, c.fault)
           ELSE Commit([c EXCEPT !.key = key]) /\ Answer("delete", <<name>>, key, 0)
    /\ UNCHANGED <<running, reload>>

(* The response is sent, and dm_ctx_clean forgets the context.             *)
dm_ctx_clean ==
    /\ rpc # Idle
    /\ rpc' = Idle /\ before' = disk
    /\ UNCHANGED <<disk, running, changed, reload>>

-----------------------------------------------------------------------------
(* The end of the session, and what happens outside of it.                 *)
Vals(d) == <<[i \in DOMAIN d.secs |-> d.secs[i].v], d.s>>

(* run_session_end_func: the configuration is reloaded, then a commit of   *)
(* each changed package but cwmp is asked for over ubus.                   *)
dm_entry_restart_services ==
    /\ Ready /\ (changed # {} \/ reload)
    /\ running' = IF "data" \in changed THEN Vals(disk) ELSE running
    /\ changed' = {} /\ reload' = FALSE
    /\ UNCHANGED <<disk, rpc, before>>

(* Another program changes the configuration, and the services follow.     *)
external(secs) ==
    /\ Ready /\ changed = {}
    /\ disk' = [disk EXCEPT !.secs = secs]
    /\ running' = Vals(disk')
    /\ before' = disk'
    /\ UNCHANGED <<changed, reload, rpc>>

external_set == \E i \in DOMAIN disk.secs, v \in Values : external([disk.secs EXCEPT ![i].v = v])
external_add ==
    /\ Len(disk.secs) < MaxInst
    /\ \E v \in Values : external(Append(disk.secs, [inst |-> 0, alias |-> 0, v |-> v]))
external_delete == \E i \in DOMAIN disk.secs : external(RemoveAt(disk.secs, i))

-----------------------------------------------------------------------------
(* Inputs: lists of entries that fit by themselves or name the read-only   *)
(* parameter, and single entries of a wrong value or without a change.     *)
ValueEntry ==
    {[name |-> x, value |-> v] : x \in {p \in SetNames : p.leaf # "a"}, v \in Values}
    \union {[name |-> x, value |-> Custom] : x \in {p \in SetNames : p.leaf = "a"}}
AttributeEntry ==
    {[name |-> x, value |-> t, change |-> TRUE] : x \in AttributeNames, t \in Notification}
Lists(S) == UNION {[1 .. n -> S] : n \in 1 .. MaxEntries}
WrongValues == {<<[name |-> x, value |-> 99]>> : x \in {p \in SetNames : p.leaf = "v"}}
NoChange == {<<[name |-> x, value |-> 0, change |-> FALSE]>> : x \in AttributeNames}

Init ==
    /\ disk \in [secs : {<<>>, <<[inst |-> 0, alias |-> 0, v |-> CHOOSE v \in Values : TRUE]>>},
                 s : {CHOOSE v \in Values : TRUE}, key : {"none"},
                 lists : {[t \in 0 .. 6 |-> {}]}]
    /\ running = Vals(disk) /\ changed = {} /\ reload = FALSE
    /\ rpc = Idle /\ before = disk

SetValues ==
    \E e \in Lists(ValueEntry) \union WrongValues, k \in ParameterKeys \union {"none"} :
      cwmp_handle_rpc_cpe_set_parameter_values(e, k)
SetAttributes ==
    \E e \in Lists(AttributeEntry) \union NoChange :
      cwmp_handle_rpc_cpe_set_parameter_attributes(e)
GetValues ==
    \E x \in SetNames \union ObjectNames :
      \/ cwmp_handle_rpc_cpe_get_parameter_values(x)
      \/ cwmp_handle_rpc_cpe_get_parameter_attributes(x)
      \/ \E level \in {"0", "1", "x"} : cwmp_handle_rpc_cpe_get_parameter_names(x, level)
AddObject == \E v \in Values, k \in ParameterKeys : cwmp_handle_rpc_cpe_add_object(v, k)
DeleteObject == \E x \in ObjectNames, k \in ParameterKeys : cwmp_handle_rpc_cpe_delete_object(x, k)

Next ==
    \/ SetValues \/ SetAttributes \/ GetValues \/ AddObject \/ DeleteObject
    \/ dm_ctx_clean \/ dm_entry_restart_services
    \/ external_set \/ external_add \/ external_delete

Spec == Init /\ [][Next]_dataVars

-----------------------------------------------------------------------------
(* A section of T: no number and no alias (0) until it has been browsed.   *)
Section == [inst : Nat, alias : Nat \union {Custom}, v : Values]

TypeOK ==
    /\ disk.secs \in Seq(Section) /\ disk.s \in Values
    /\ disk.key \in ParameterKeys \union {"none"}
    /\ \A t \in 0 .. 6 : \A p \in disk.lists[t] : Len(p) \in 1 .. 3
    /\ changed \subseteq {"cwmp", "data"} /\ reload \in BOOLEAN

-----------------------------------------------------------------------------
(* Properties. *)

(* The sections when all of them have been browsed, and the one that a     *)
(* name stands for.                                                        *)
Full(secs) == Browse(secs, TRUE, Len(secs))
TargetOf(secs, ref) ==
    SelectInSeq(Full(secs),
                LAMBDA s : IF ref.how = "number" THEN s.inst = ref.n ELSE s.alias = ref.n)
LastOf(entries, at, else) == IF at = {} THEN else ELSE entries[Max(at)].value

(* SetParameterValues sets everything it names and its ParameterKey, or    *)
(* changes no value at all, however the instances are named and whatever   *)
(* of the request fails in the check or while it is applied.  Exception:   *)
(* an entry gives an instance the alias by which a later one names         *)
(* another, and that one is applied to the first of the two.               *)
Renames(entries) ==
    \E i, j \in DOMAIN entries :
        /\ i < j /\ entries[i].name.leaf = "a"
        /\ entries[j].name.ref = [how |-> "alias", n |-> entries[i].value]
SetAllOrNothing ==
    rpc.kind = "set" =>
      LET applied == rpc.fault = 0
          Want(at, else) == IF applied THEN LastOf(rpc.entries, at, else) ELSE else
          For(leaf) == {j \in DOMAIN rpc.entries : rpc.entries[j].name.leaf = leaf}
          At(leaf, i) == {j \in For(leaf) : TargetOf(before.secs, rpc.entries[j].name.ref) = i}
      IN  /\ disk.key = IF applied THEN rpc.key ELSE before.key
          /\ disk.s = Want(For("s"), before.s)
          /\ disk.lists = before.lists
          /\ Len(disk.secs) = Len(before.secs)
          /\ ~(applied /\ Renames(rpc.entries)) =>
               \A i \in DOMAIN disk.secs :
                 LET x == Full(before.secs)[i]
                 IN  Full(disk.secs)[i] = [inst |-> x.inst, alias |-> Want(At("a", i), x.alias),
                                           v |-> Want(At("v", i), x.v)]

(* After SetParameterAttributes every parameter has the notification of    *)
(* the last entry that names it or an object above it, and what it had     *)
(* before when there is none: earlier settings of objects and parameters   *)
(* neither hide a new one nor are lost with it.                            *)
NamedPath(secs, x) ==
    IF x.ref = None THEN IF x.leaf = "" THEN Path(0, "") ELSE Scalar(x.leaf)
    ELSE Path(Full(secs)[TargetOf(secs, x.ref)].inst, x.leaf)
AttributesStick ==
    rpc.kind = "attributes" =>
      \A p \in {Path(n, leaf) : n \in Inst, leaf \in {"v", "a"}} \union {Scalar("s")} :
        LET over == {i \in DOMAIN rpc.entries : Covers(NamedPath(before.secs, rpc.entries[i].name), p)}
            old == get_parameter_notification(before.lists, p)
        IN  get_parameter_notification(disk.lists, p) =
              IF rpc.fault # 0 THEN old ELSE LastOf(rpc.entries, over, old)

(* Numbers increase in the order of the file, so that no two instances     *)
(* share one, and an instance the ACS has added starts without             *)
(* notification, whatever the lists still hold of an earlier one.          *)
FreshInstance ==
    /\ TypeOK
    /\ \A i, j \in DOMAIN disk.secs :
         i < j /\ disk.secs[j].inst # 0 => disk.secs[i].inst < disk.secs[j].inst
    /\ rpc.kind = "add" =>
         /\ Last(disk.secs).inst = rpc.entries[1]
         /\ \A leaf \in {"v", "a"} :
              get_parameter_notification(disk.lists, Path(rpc.entries[1], leaf)) = 0

(* Values that are committed are in use, or their package is in the list   *)
(* of those the services are told about at the end of the session.         *)
ServicesFollow == Vals(disk) = running \/ "data" \in changed
=============================================================================
