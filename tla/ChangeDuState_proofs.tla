------------------------ MODULE ChangeDuState_proofs ------------------------
(***************************************************************************)
(* A ChangeDUState request is on record until it is reported, and reported *)
(* once, and the thread ends no session it did not begin, for any requests *)
(* and any operations in them, at any number of crashes.                   *)
(***************************************************************************)
EXTENDS ChangeDuState, SequenceLemmas, FiniteSetTheorems

(* Requests are numbered as they are accepted; no two have the same time.  *)
Numbered ==
    /\ IsFiniteSet(accepted)
    /\ \A r \in accepted : r.id <= Cardinality(accepted)
    /\ \A r, x \in accepted : r.id = x.id \/ r.time = x.time => r = x

(* A request is in the list once, and the thread holds one of the list.    *)
Single(s) == \A i, j \in DOMAIN s : i # j /\ s[i] = s[j] => s[i] = Garbled
Held == pc \in {"lock", "run", "insert", "raise", "release", "unlink"}
Linked ==
    /\ ToSet(list) \subseteq accepted \union {Garbled}
    /\ Single(list)
    /\ ~up => list = <<>>
    /\ cur = None \/ cur \in accepted
    /\ Held => cur \in accepted /\ cur \in ToSet(list)

(* The tree is ahead of the file in results only, and what is not on file  *)
(* as a request is there as a result, but for the moment between.          *)
Recorded ==
    /\ tree.requests = file.requests /\ file.done \subseteq tree.done
    /\ ToSet(file.requests) \subseteq accepted
    /\ \A i \in tree.done : \E r \in accepted : r.id = i
    /\ up <=> pc # "down"
    /\ \A r \in accepted :
         r.id \in cut \union file.done \/ r \in ToSet(file.requests) \/ (pc = "insert" /\ cur = r)

(* What is in the list has no report, but for the end of its turn.         *)
Unreported ==
    /\ \A i \in Id : raised[i] <= 1 /\ (raised[i] > 0 => \E r \in accepted : r.id = i)
    /\ \A r \in accepted :
         r \in ToSet(list) => raised[r.id] = 0 \/ (pc \in {"release", "unlink"} /\ cur = r)

(* Whose mutex_session_send is.                                            *)
Turn ==
    /\ pc \in {"run", "insert", "raise"} => owner = "thread"
    /\ pc = "release" => owner = "thread" \/ raised[cur.id] = 0
    /\ owner = "main" => up

DuInv == TypeOK /\ ResultsComplete /\ Numbered /\ Linked /\ Recorded /\ Unreported /\ Turn

-----------------------------------------------------------------------------
(* Lists and records.                                                      *)
LEMMA PickedSingle ==
    ASSUME NEW S, NEW s \in Seq(S), NEW t \in Seq(S), Picked(t, s), Single(s)
    PROVE  Single(t)
<1> SUFFICES ASSUME NEW i \in DOMAIN t, NEW j \in DOMAIN t, i # j, t[i] = t[j]
             PROVE  t[i] = Garbled
  BY DEF Single
<1>1. i \in Nat /\ j \in Nat
  BY ElementsOf
<1>2. CASE i < j
  <2>1. PICK a \in DOMAIN s, b \in DOMAIN s : a < b /\ t[i] = s[a] /\ t[j] = s[b]
    BY <1>2 DEF Picked
  <2>2. a \in Nat /\ b \in Nat
    BY ElementsOf
  <2>3. a # b
    BY <2>1, <2>2
  <2> QED
    BY <2>1, <2>3, Zenon DEF Single
<1>3. CASE j < i
  <2>1. PICK a \in DOMAIN s, b \in DOMAIN s : a < b /\ t[j] = s[a] /\ t[i] = s[b]
    BY <1>3 DEF Picked
  <2>2. a \in Nat /\ b \in Nat
    BY ElementsOf
  <2>3. a # b
    BY <2>1, <2>2
  <2> QED
    BY <2>1, <2>3, Zenon DEF Single
<1> QED
  BY <1>1, <1>2, <1>3

LEMMA AppendedSingle ==
    ASSUME NEW S, NEW s \in Seq(S), NEW e \in S, e \notin ToSet(s), Single(s)
    PROVE  Single(Append(s, e))
<1> DEFINE t == Append(s, e)
<1>1. /\ t \in Seq(S) /\ Len(t) = Len(s) + 1
      /\ \A i \in 1 .. Len(s) : t[i] = s[i]
      /\ t[Len(s) + 1] = e
  BY ElementsAppended
<1> HIDE DEF t
<1>2. /\ Len(s) \in Nat /\ DOMAIN s = 1 .. Len(s) /\ DOMAIN t = 1 .. Len(s) + 1
      /\ \A i \in 1 .. Len(s) : s[i] # e
  BY <1>1, ElementsOf
<1>3. ASSUME NEW i \in 1 .. Len(s) + 1, NEW j \in 1 .. Len(s) + 1, i # j, t[i] = t[j]
      PROVE  t[i] = Garbled
  <2>1. (i = Len(s) + 1 \/ i \in 1 .. Len(s)) /\ (j = Len(s) + 1 \/ j \in 1 .. Len(s))
    BY <1>2
  <2> QED
    BY <1>1, <1>2, <1>3, <2>1 DEF Single
<1> QED
  BY <1>2, <1>3 DEF Single, t

LEMMA PickedOnly ==
    ASSUME NEW S, NEW s \in Seq(S), NEW t \in Seq(S), NEW i \in 1 .. Len(s), s[i] # Garbled,
           Single(s), \A x \in ToSet(t) : \E j \in 1 .. Len(s) : j # i /\ s[j] = x
    PROVE  s[i] \notin ToSet(t)
BY ElementsOf DEF Single

LEMMA RecordInserted ==
    ASSUME NEW t \in Tree, NEW r \in Request
    PROVE  /\ bkp_session_insert_change_du_state(t, r) \in Tree
           /\ bkp_session_insert_change_du_state(t, r).requests = Append(t.requests, r)
           /\ bkp_session_insert_change_du_state(t, r).done = t.done
           /\ ToSet(Append(t.requests, r)) = ToSet(t.requests) \union {r}
<1>1. /\ t.requests \in Seq(Request) /\ Append(t.requests, r) \in Seq(Request)
      /\ ToSet(Append(t.requests, r)) = ToSet(t.requests) \union {r}
  BY ElementsAppended DEF Tree
<1> DEFINE q == Append(t.requests, r)
<1>2. bkp_session_insert_change_du_state(t, r) = [t EXCEPT !.requests = q]
  BY DEF bkp_session_insert_change_du_state
<1> HIDE DEF q
<1>3. [t EXCEPT !.requests = q] \in Tree
  BY <1>1 DEF Tree, q
<1>4. [t EXCEPT !.requests = q].requests = q /\ [t EXCEPT !.requests = q].done = t.done
  BY DEF Tree
<1> QED
  BY <1>1, <1>2, <1>3, <1>4 DEF q

LEMMA ResultInserted ==
    ASSUME NEW t \in Tree, NEW r \in Request
    PROVE  /\ bkp_session_insert_du_state_change_complete(t, r) \in Tree
           /\ bkp_session_insert_du_state_change_complete(t, r).requests = t.requests
           /\ bkp_session_insert_du_state_change_complete(t, r).done = t.done \union {r.id}
BY DEF Tree, Request, bkp_session_insert_du_state_change_complete

(* Only the record of the request goes, as times differ.                   *)
LEMMA RecordDeleted ==
    ASSUME NEW t \in Tree, NEW S \in SUBSET Request, NEW r \in S, ToSet(t.requests) \subseteq S,
           \A x \in S : x.time = r.time => x = r
    PROVE  /\ bkp_session_delete_change_du_state(t, r) \in Tree
           /\ bkp_session_delete_change_du_state(t, r).done = t.done
           /\ ToSet(bkp_session_delete_change_du_state(t, r).requests) \subseteq ToSet(t.requests)
           /\ \A x \in ToSet(t.requests) :
                x # r => x \in ToSet(bkp_session_delete_change_du_state(t, r).requests)
<1> DEFINE s == t.requests
           I == {i \in 1 .. Len(s) : s[i].time = r.time}
           u == bkp_session_delete_change_du_state(t, r)
<1>1. /\ s \in Seq(Request) /\ Len(s) \in Nat /\ I \in SUBSET Nat
      /\ \A i \in 1 .. Len(s) : s[i] \in ToSet(s)
  BY ElementsOf DEF Tree
<1>2. CASE I = {}
  <2>1. u = t
    BY <1>2 DEF bkp_session_delete_change_du_state, SelectInSeq
  <2> QED
    BY <2>1
<1>3. CASE I # {}
  <2>1. PICK a \in 1 .. Len(s) : a = Min(I) /\ s[a].time = r.time
    BY <1>1, <1>3, MinNat
  <2>2. u = [t EXCEPT !.requests = RemoveAt(s, a)]
    BY <1>1, <1>3, <2>1 DEF bkp_session_delete_change_du_state, SelectInSeq
  <2>3. s[a] = r
    BY <1>1, <2>1
  <2>4. /\ RemoveAt(s, a) \in Seq(Request) /\ ToSet(RemoveAt(s, a)) \subseteq ToSet(s)
        /\ \A x \in ToSet(s) : x # s[a] => x \in ToSet(RemoveAt(s, a))
    BY <1>1, RemoveAtProperties, ElementsRemoved
  <2> HIDE DEF s, I, u
  <2>5. u \in Tree /\ u.requests = RemoveAt(s, a) /\ u.done = t.done
    BY <2>2, <2>4 DEF Tree
  <2> QED
    BY <2>3, <2>4, <2>5 DEF s, u
<1> QED
  BY <1>2, <1>3

-----------------------------------------------------------------------------
(* The facts every step starts from.                                       *)
LEMMA RequestFields ==
    ASSUME NEW r \in Request
    PROVE  r # Garbled /\ r.id \in Id /\ r.id \in Nat
<1>1. r.id \in Id /\ r.id \in Nat
  BY DEF Request, Id
<1>2. Garbled.id = -1
  BY DEF Garbled
<1> QED
  BY <1>1, <1>2

LEMMA InvFacts ==
    ASSUME DuInv
    PROVE  /\ list \in Seq(Request \union {Garbled}) /\ accepted \subseteq Request
           /\ tree \in Tree /\ file \in Tree /\ raised \in [Id -> Nat]
           /\ tree.requests \in Seq(Request) /\ file.requests \in Seq(Request)
           /\ \A r \in accepted : r \in Request /\ r # Garbled /\ r.id \in Id
           /\ Held => cur \in accepted /\ cur \in Request /\ cur.id \in Id /\ cur # Garbled
BY RequestFields DEF DuInv, TypeOK, Tree, Linked

LEMMA DuInitInv == Init => DuInv
<1> SUFFICES ASSUME Init PROVE DuInv
  OBVIOUS
<1>1. ToSet(<<>>) = {} /\ <<>> \in Seq(Request \union {Garbled}) /\ <<>> \in Seq(BOOLEAN)
  BY DEF ToSet
<1>2. Empty \in Tree /\ Empty.requests = <<>> /\ Empty.done = {}
  BY DEF Empty, Tree
<1>3. TypeOK
  <2>1. now \in 1 .. MaxTime /\ restarts \in 0 .. MaxRestarts /\ raised \in [Id -> Nat]
    BY UnitsAssumption DEF Init
  <2>2. up \in BOOLEAN
    BY Zenon DEF Init
  <2> QED
    BY <1>1, <1>2, <2>1, <2>2 DEF Init, TypeOK
<1>4. Numbered
  BY FS_EmptySet DEF Init, Numbered
<1>5. Linked /\ Recorded
  BY <1>1, <1>2 DEF Init, Linked, Held, Recorded, Single
<1>6. ResultsComplete /\ Unreported /\ Turn
  BY <1>1 DEF Init, ResultsComplete, Unreported, Turn, Id
<1> QED
  BY <1>3, <1>4, <1>5, <1>6 DEF DuInv

-----------------------------------------------------------------------------
(* What leaves the list and the records alone.                             *)
LEMMA QuietInv ==
    ASSUME DuInv, session_begin \/ session_end \/ Wait \/ Lock \/ RunOp \/ time_set \/ tick
                  \/ UNCHANGED vars
    PROVE  DuInv'
<1>1. /\ UNCHANGED <<list, cur, tree, file, up, restarts, accepted, raised, cut>>
      /\ now' \in 1 .. MaxTime /\ owner' \in {"main", "thread", "none"}
      /\ \/ pc' = pc
         \/ pc = "lock" /\ pc' = "run" /\ owner' = "thread"
         \/ pc = "towait" /\ pc' = "waiting"
      /\ owner' # owner => owner # "thread"
      /\ results' = results \/ pc = "run"
  BY UnitsAssumption DEF session_begin, session_end, Wait, Lock, RunOp, time_set, tick, vars,
                         threadVars, Quiet, DuInv, TypeOK
<1>6. owner' = "main" => up
  BY DEF session_begin, session_end, Wait, Lock, RunOp, time_set, tick, vars, DuInv, Turn
<1>2. results' \in Seq(BOOLEAN)
  <2>1. CASE results' = results
    BY <2>1 DEF DuInv, TypeOK
  <2>2. CASE results' # results
    <3>1. PICK fault \in Outcomes(NextOp) : results' = Append(results, fault)
      BY <2>2 DEF session_begin, session_end, Wait, Lock, RunOp, time_set, tick, vars, threadVars
    <3>2. fault \in BOOLEAN
      BY Zenon DEF Outcomes
    <3> QED
      BY <3>1, <3>2 DEF DuInv, TypeOK
  <2> QED
    BY <2>1, <2>2
<1>3. TypeOK'
  BY <1>1, <1>2 DEF DuInv, TypeOK
<1>4. Numbered' /\ Linked' /\ Recorded' /\ Unreported'
  BY <1>1 DEF DuInv, Numbered, Linked, Held, Recorded, Unreported, Single
<1>5. ResultsComplete' /\ Turn'
  BY <1>1, <1>6 DEF DuInv, ResultsComplete, Turn
<1> QED
  BY <1>3, <1>4, <1>5 DEF DuInv

(* A request is accepted.                                                  *)
LEMMA HandlerInv ==
    ASSUME DuInv, NEW n \in 0 .. MaxOps, NEW ops \in [1 .. n -> Operation],
           cwmp_handle_rpc_cpe_change_du_state(ops)
    PROVE  DuInv'
<1> DEFINE r == [id |-> Cardinality(accepted) + 1, time |-> now, ops |-> ops]
<1>1. /\ owner = "main" /\ Cardinality(accepted) < MaxRequests
      /\ \A x \in accepted : x.time # now
      /\ list' = Append(list, r)
      /\ tree' = bkp_session_insert_change_du_state(tree, r) /\ file' = tree'
      /\ accepted' = accepted \union {r}
      /\ pc' = IF pc = "waiting" THEN "look" ELSE pc
      /\ UNCHANGED <<now, owner, cur, results, up, restarts, raised, cut>>
  BY DEF cwmp_handle_rpc_cpe_change_du_state, AcceptRecord
<1>2. Cardinality(accepted) \in Nat
  BY FS_CardinalityType DEF DuInv, Numbered
<1>3. r.id = Cardinality(accepted) + 1 /\ r.time = now
  OBVIOUS
<1>4. r \in Request
  <2>1. ops \in UNION {[1 .. k -> Operation] : k \in 0 .. MaxOps}
    OBVIOUS
  <2>2. r.id \in Id /\ now \in 1 .. MaxTime
    BY <1>1, <1>2, UnitsAssumption DEF DuInv, TypeOK, Id
  <2> QED
    BY <2>1, <2>2 DEF Request
<1> HIDE DEF r
<1>5. /\ r \notin accepted /\ r # Garbled /\ r.id \in Id
      /\ \A x \in accepted : x.id # r.id /\ x.time # r.time
  <2>1. \A x \in accepted : x.id \in Nat /\ x.id <= Cardinality(accepted)
    BY InvFacts, RequestFields DEF DuInv, Numbered
  <2> QED
    BY <1>1, <1>2, <1>3, <1>4, <2>1, RequestFields
<1>6. /\ list' \in Seq(Request \union {Garbled}) /\ ToSet(list') = ToSet(list) \union {r}
      /\ Single(list')
  <2>1. r \notin ToSet(list)
    BY <1>5 DEF DuInv, Linked
  <2> QED
    BY <1>1, <1>4, <2>1, InvFacts, ElementsAppended, AppendedSingle DEF DuInv, Linked
<1>7. /\ tree' \in Tree /\ file' = tree' /\ tree'.done = tree.done
      /\ ToSet(tree'.requests) = ToSet(tree.requests) \union {r}
  BY <1>1, <1>4, InvFacts, RecordInserted
<1>8. TypeOK'
  BY <1>1, <1>4, <1>6, <1>7 DEF DuInv, TypeOK
<1>9. Numbered'
  <2>1. IsFiniteSet(accepted') /\ Cardinality(accepted') = Cardinality(accepted) + 1
    BY <1>1, <1>5, FS_AddElement DEF DuInv, Numbered
  <2>2. \A x \in accepted : x.id \in Nat
    BY InvFacts, RequestFields
  <2>3. \A x \in accepted' : x.id <= Cardinality(accepted) + 1
    BY <1>1, <1>2, <1>3, <2>2 DEF DuInv, Numbered
  <2>4. \A x, y \in accepted' : x.id = y.id \/ x.time = y.time => x = y
    BY <1>1, <1>5 DEF DuInv, Numbered
  <2> QED
    BY <2>1, <2>3, <2>4 DEF Numbered
<1>10. Linked'
  <2>1. ToSet(list') \subseteq accepted' \union {Garbled}
    BY <1>1, <1>6 DEF DuInv, Linked
  <2>2. up
    BY <1>1 DEF DuInv, Turn
  <2> QED
    BY <1>1, <1>6, <2>1, <2>2 DEF DuInv, Linked, Held
<1>11. Recorded'
  BY <1>1, <1>6, <1>7, InvFacts DEF DuInv, Recorded
<1>12. Unreported'
  <2>1. raised[r.id] = 0
    BY <1>5, InvFacts, SMTT(60) DEF DuInv, Unreported
  <2> QED
    BY <1>1, <1>5, <1>6, <2>1, InvFacts DEF DuInv, Unreported
<1>13. ResultsComplete' /\ Turn'
  BY <1>1 DEF DuInv, ResultsComplete, Turn
<1> QED
  BY <1>8, <1>9, <1>10, <1>11, <1>12, <1>13 DEF DuInv

-----------------------------------------------------------------------------
(* The thread looks at the head: it is late, or it is to be run, or the    *)
(* clock is behind.                                                        *)
LEMMA LookInv ==
    ASSUME DuInv, Look
    PROVE  DuInv'
<1>1. /\ pc = "look" /\ results' = <<>>
      /\ UNCHANGED <<owner, file, cut, now, up, restarts, accepted>>
      /\ <<>> \in Seq(BOOLEAN)
  BY DEF Look, Quiet
<1>2. CASE list = <<>>
  <2>1. pc' = "towait" /\ UNCHANGED <<cur, list, tree, raised>>
    BY <1>2 DEF Look
  <2> QED
    BY <1>1, <2>1 DEF DuInv, TypeOK, ResultsComplete, Numbered, Linked, Held, Single, Recorded,
                      Unreported, Turn
<1>3. CASE list # <<>>
  <2> DEFINE r == Head(list)
  <2>1. r # Garbled
    BY <1>3 DEF Look
  <2>2. /\ r \in ToSet(list) /\ r \in accepted /\ r \in Request /\ r = list[1]
        /\ raised[r.id] = 0 /\ r.id \in Id
    BY <1>1, <1>3, <2>1, InvFacts, HeadAndTail DEF DuInv, Linked, Unreported
  <2>3. CASE Expired(r)
    <3>1. /\ tree' = bkp_session_insert_du_state_change_complete(tree, r)
          /\ raised' = [raised EXCEPT ![r.id] = @ + 1]
          /\ list' = Tail(list) /\ UNCHANGED <<pc, cur>>
      BY <1>3, <2>3 DEF Look
    <3>2. /\ tree' \in Tree /\ tree'.requests = tree.requests
          /\ tree'.done = tree.done \union {r.id}
      BY <2>2, <3>1, InvFacts, ResultInserted
    <3>3. /\ list' \in Seq(Request \union {Garbled}) /\ ToSet(list') \subseteq ToSet(list)
          /\ r \notin ToSet(list') /\ Single(list')
      <4>1. /\ list' \in Seq(Request \union {Garbled}) /\ ToSet(list') \subseteq ToSet(list)
            /\ Picked(list', list)
        BY <1>3, <3>1, InvFacts, HeadAndTail
      <4>2. Single(list')
        BY <4>1, InvFacts, PickedSingle DEF DuInv, Linked
      <4>3. ASSUME NEW i \in 1 .. Len(list'), list'[i] = r PROVE FALSE
        <5>1. Len(list) \in Nat /\ DOMAIN list = 1 .. Len(list) /\ Len(list') = Len(list) - 1
          BY <1>3, <3>1, InvFacts, ElementsOf, HeadAndTail
        <5>2. list'[i] = list[i + 1] /\ 1 \in DOMAIN list /\ i + 1 \in DOMAIN list /\ 1 # i + 1
          BY <1>3, <3>1, <5>1, InvFacts
        <5> QED
          BY <2>1, <2>2, <4>3, <5>2, Zenon DEF DuInv, Linked, Single
      <4> QED
        BY <4>1, <4>2, <4>3, ElementsOf
    <3>4. raised' \in [Id -> Nat] /\ raised'[r.id] = 1 /\ \A i \in Id : i # r.id => raised'[i] = raised[i]
      BY <2>2, <3>1, InvFacts
    <3> HIDE DEF r
    <3>5. TypeOK'
      BY <1>1, <3>1, <3>2, <3>3, <3>4 DEF DuInv, TypeOK
    <3>6. Numbered' /\ Linked' /\ ResultsComplete'
      BY <1>1, <3>1, <3>3 DEF DuInv, Numbered, Linked, Held, ResultsComplete
    <3>7. Recorded'
      BY <1>1, <2>2, <3>1, <3>2 DEF DuInv, Recorded
    <3>8. Unreported'
      <4>1. \A x \in accepted : x # r => raised'[x.id] = raised[x.id]
        BY <2>2, <3>4, InvFacts DEF DuInv, Numbered
      <4> QED
        BY <1>1, <2>2, <3>1, <3>3, <3>4, <4>1, InvFacts, SMTT(60) DEF DuInv, Unreported
    <3>9. Turn'
      BY <1>1, <3>1 DEF DuInv, Turn
    <3> QED
      BY <3>5, <3>6, <3>7, <3>8, <3>9 DEF DuInv
  <2>4. CASE ~Expired(r)
    <3>1. pc' \in {"lock", "release"} /\ cur' = r /\ UNCHANGED <<list, tree, raised>>
      BY <1>3, <2>4 DEF Look
    <3> HIDE DEF r
    <3>2. TypeOK' /\ Numbered' /\ Linked' /\ ResultsComplete'
      BY <1>1, <2>2, <3>1 DEF DuInv, TypeOK, Numbered, Linked, Held, Single, ResultsComplete
    <3>3. Recorded' /\ Unreported' /\ Turn'
      BY <1>1, <2>2, <3>1 DEF DuInv, Recorded, Unreported, Turn
    <3> QED
      BY <3>2, <3>3 DEF DuInv
  <2> QED
    BY <2>3, <2>4
<1> QED
  BY <1>2, <1>3

(* The request leaves the records and its result enters them.              *)
LEMMA DeleteRequestInv ==
    ASSUME DuInv, DeleteRequest
    PROVE  DuInv'
<1>1. /\ pc = "run" /\ AllRun /\ pc' = "insert" /\ file' = tree'
      /\ tree' = bkp_session_delete_change_du_state(tree, cur)
      /\ UNCHANGED <<list, owner, cur, results, raised, cut, now, up, restarts, accepted>>
  BY DEF DeleteRequest, Quiet
<1>2. cur \in accepted /\ \A x \in accepted : x.time = cur.time => x = cur
  BY <1>1, InvFacts DEF DuInv, Numbered, Held
<1>3. /\ tree' \in Tree /\ tree'.done = tree.done
      /\ ToSet(tree'.requests) \subseteq ToSet(tree.requests)
      /\ \A x \in ToSet(tree.requests) : x # cur => x \in ToSet(tree'.requests)
  <2>1. ToSet(tree.requests) \subseteq accepted
    BY DEF DuInv, Recorded
  <2> QED
    BY <1>1, <1>2, <2>1, InvFacts, RecordDeleted
<1>4. TypeOK' /\ Numbered' /\ Linked' /\ Unreported'
  BY <1>1, <1>3 DEF DuInv, TypeOK, Numbered, Linked, Held, Single, Unreported
<1>5. Recorded'
  BY <1>1, <1>2, <1>3 DEF DuInv, Recorded
<1>6. ResultsComplete' /\ Turn'
  BY <1>1 DEF DuInv, AllRun, ResultsComplete, Turn
<1> QED
  BY <1>4, <1>5, <1>6 DEF DuInv

LEMMA InsertResultInv ==
    ASSUME DuInv, InsertResult
    PROVE  DuInv'
<1>1. /\ pc = "insert" /\ pc' = "raise" /\ file' = tree'
      /\ tree' = bkp_session_insert_du_state_change_complete(tree, cur)
      /\ UNCHANGED <<list, owner, cur, results, raised, cut, now, up, restarts, accepted>>
  BY DEF InsertResult, Quiet
<1>2. cur \in accepted /\ cur \in Request
  BY <1>1, InvFacts DEF Held
<1>3. tree' \in Tree /\ tree'.requests = tree.requests /\ tree'.done = tree.done \union {cur.id}
  BY <1>1, <1>2, InvFacts, ResultInserted
<1>4. TypeOK' /\ Numbered' /\ Linked' /\ Unreported'
  BY <1>1, <1>3 DEF DuInv, TypeOK, Numbered, Linked, Held, Single, Unreported
<1>5. Recorded'
  BY <1>1, <1>2, <1>3 DEF DuInv, Recorded
<1>6. ResultsComplete' /\ Turn'
  BY <1>1 DEF DuInv, ResultsComplete, Turn
<1> QED
  BY <1>4, <1>5, <1>6 DEF DuInv

LEMMA RaiseInv ==
    ASSUME DuInv, cwmp_root_cause_dustatechangeComplete
    PROVE  DuInv'
<1>1. /\ pc = "raise" /\ pc' = "release" /\ raised' = [raised EXCEPT ![cur.id] = @ + 1]
      /\ UNCHANGED <<list, owner, cur, results, tree, file, cut, now, up, restarts, accepted>>
  BY DEF cwmp_root_cause_dustatechangeComplete, Quiet
<1>2. /\ cur \in accepted /\ cur.id \in Id /\ raised[cur.id] = 0 /\ owner = "thread"
  BY <1>1, InvFacts DEF DuInv, Linked, Held, Unreported, Turn
<1>3. /\ raised' \in [Id -> Nat] /\ raised'[cur.id] = 1
      /\ \A i \in Id : i # cur.id => raised'[i] = raised[i]
  BY <1>1, <1>2, InvFacts
<1>4. TypeOK' /\ Numbered' /\ Linked' /\ ResultsComplete'
  BY <1>1, <1>3 DEF DuInv, TypeOK, Numbered, Linked, Held, Single, ResultsComplete
<1>5. Recorded' /\ Turn'
  BY <1>1, <1>2 DEF DuInv, Recorded, Turn
<1>6. Unreported'
  <2>1. \A x \in accepted : x # cur => raised'[x.id] = raised[x.id]
    BY <1>2, <1>3, InvFacts DEF DuInv, Numbered
  <2> QED
    BY <1>1, <1>2, <1>3, <2>1, InvFacts DEF DuInv, Unreported
<1> QED
  BY <1>4, <1>5, <1>6 DEF DuInv

(* The end of a turn.                                                      *)
LEMMA ReleaseInv ==
    ASSUME DuInv, Release
    PROVE  DuInv'
<1>1. /\ pc = "release" /\ pc' = "unlink" /\ owner' = "none"
      /\ UNCHANGED <<list, cur, results, tree, file, raised, cut, now, up, restarts, accepted>>
  BY DEF Release, Quiet
<1>2. TypeOK' /\ Numbered' /\ Linked' /\ ResultsComplete'
  BY <1>1 DEF DuInv, TypeOK, Numbered, Linked, Held, Single, ResultsComplete
<1>3. Recorded' /\ Unreported' /\ Turn'
  BY <1>1 DEF DuInv, Recorded, Unreported, Turn
<1> QED
  BY <1>2, <1>3 DEF DuInv

LEMMA UnlinkInv ==
    ASSUME DuInv, Unlink
    PROVE  DuInv'
<1>1. /\ pc = "unlink" /\ pc' = "look" /\ list' = RemoveFirst(list, cur) /\ cur' = None
      /\ UNCHANGED <<owner, results, tree, file, raised, cut, now, up, restarts, accepted>>
  BY DEF Unlink, Unlinked, Quiet
<1>2. cur \in accepted /\ cur \in ToSet(list) /\ cur # Garbled
  BY <1>1, InvFacts DEF DuInv, Linked, Held
<1>3. /\ list' \in Seq(Request \union {Garbled}) /\ ToSet(list') \subseteq ToSet(list)
      /\ Picked(list', list)
      /\ \E i \in 1 .. Len(list) :
           list[i] = cur /\ \A x \in ToSet(list') : \E j \in 1 .. Len(list) : j # i /\ list[j] = x
  BY <1>1, <1>2, InvFacts, RemoveFirstProperties
<1>4. Single(list') /\ cur \notin ToSet(list')
  <2>1. Single(list) /\ list \in Seq(Request \union {Garbled})
    BY InvFacts DEF DuInv, Linked
  <2>2. Single(list')
    BY <1>3, <2>1, PickedSingle
  <2>3. PICK i \in 1 .. Len(list) :
          list[i] = cur /\ \A x \in ToSet(list') : \E j \in 1 .. Len(list) : j # i /\ list[j] = x
    BY <1>3
  <2>4. list[i] \notin ToSet(list')
    BY <1>2, <1>3, <2>1, <2>3, PickedOnly
  <2> QED
    BY <2>2, <2>3, <2>4
<1>5. up
  BY <1>1 DEF DuInv, Recorded
<1>6. TypeOK' /\ Numbered' /\ Linked' /\ ResultsComplete'
  BY <1>1, <1>3, <1>4, <1>5 DEF DuInv, TypeOK, Numbered, Linked, Held, ResultsComplete
<1>7. Recorded' /\ Unreported' /\ Turn'
  BY <1>1, <1>3, <1>4 DEF DuInv, Recorded, Unreported, Turn
<1> QED
  BY <1>6, <1>7 DEF DuInv

LEMMA GarbledGoesInv ==
    ASSUME DuInv, GarbledGoes
    PROVE  DuInv'
<1>1. /\ pc = "look" /\ list # <<>> /\ list' = Tail(list) /\ owner' \in {owner, "none"}
      /\ UNCHANGED <<pc, cur, results, tree, file, raised, cut, now, up, restarts, accepted>>
  BY DEF GarbledGoes, threadVars, Quiet
<1>2. /\ list' \in Seq(Request \union {Garbled}) /\ ToSet(list') \subseteq ToSet(list)
      /\ Picked(list', list)
  BY <1>1, InvFacts, HeadAndTail
<1>3. Single(list') /\ up
  BY <1>1, <1>2, InvFacts, PickedSingle DEF DuInv, Linked, Recorded
<1>4. TypeOK' /\ Numbered' /\ Linked' /\ ResultsComplete'
  BY <1>1, <1>2, <1>3 DEF DuInv, TypeOK, Numbered, Linked, Held, ResultsComplete
<1>5. Recorded' /\ Unreported' /\ Turn'
  BY <1>1, <1>2 DEF DuInv, Recorded, Unreported, Turn
<1> QED
  BY <1>4, <1>5 DEF DuInv

-----------------------------------------------------------------------------
(* Crash and restart.                                                      *)
LEMMA StopInv ==
    ASSUME DuInv, Stop
    PROVE  DuInv'
<1>1. /\ up' = FALSE /\ list' = <<>> /\ owner' = "none" /\ pc' = "down" /\ cur' = None
      /\ results' = <<>> /\ tree' = file /\ raised' = [i \in Id |-> 0]
      /\ cut' = IF pc = "insert" THEN cut \union {cur.id} ELSE cut
      /\ UNCHANGED <<now, file, restarts, accepted>>
  BY DEF Stop
<1>2. ToSet(<<>>) = {} /\ <<>> \in Seq(Request \union {Garbled}) /\ <<>> \in Seq(BOOLEAN)
  BY DEF ToSet
<1>3. cut' \subseteq Id
  BY <1>1, InvFacts DEF DuInv, TypeOK, Held
<1>4. TypeOK'
  <2>1. up' \in BOOLEAN
    BY <1>1, Zenon
  <2>2. raised' \in [Id -> Nat]
    BY <1>1
  <2> QED
    BY <1>1, <1>2, <1>3, <2>1, <2>2 DEF DuInv, TypeOK
<1>5. Numbered' /\ ResultsComplete' /\ Turn'
  BY <1>1 DEF DuInv, Numbered, ResultsComplete, Turn
<1>6. Linked' /\ Unreported'
  BY <1>1, <1>2 DEF Linked, Held, Single, Unreported
<1>7. Recorded'
  <2>1. up' <=> pc' # "down"
    BY <1>1
  <2>2. \A i \in file.done : \E r \in accepted : r.id = i
    BY DEF DuInv, Recorded
  <2> QED
    BY <1>1, <2>1, <2>2 DEF DuInv, Recorded
<1> QED
  BY <1>4, <1>5, <1>6, <1>7 DEF DuInv

LEMMA RestartInv ==
    ASSUME DuInv, restart
    PROVE  DuInv'
<1> DEFINE s == file.requests
           t == [i \in 1 .. Len(s) |-> Garbled]
<1>1. /\ up' = TRUE /\ pc' = "look" /\ list' = t
      /\ raised' = [i \in Id |-> IF i \in file.done THEN 1 ELSE 0]
      /\ restarts < MaxRestarts /\ restarts' = restarts + 1
      /\ UNCHANGED <<owner, cur, results, tree, file, accepted, cut>>
  BY DEF restart, load_change_du_state
<1>2. /\ t \in Seq(Request \union {Garbled}) /\ ToSet(t) \subseteq {Garbled}
      /\ \A i \in DOMAIN t : t[i] = Garbled
  <2>1. Len(s) \in Nat
    BY InvFacts, ElementsOf
  <2> HIDE DEF s
  <2>2. t \in Seq({Garbled}) /\ \A i \in DOMAIN t : t[i] = Garbled
    BY <2>1
  <2>3. ToSet(t) \subseteq {Garbled}
    BY <2>2, ElementsOf
  <2> QED
    BY <2>2, <2>3
<1>3. now' \in 1 .. MaxTime
  <2>1. now' = now \/ now' = 1
    BY DEF restart
  <2> QED
    BY <2>1, UnitsAssumption DEF DuInv, TypeOK
<1> HIDE DEF t
<1>4. TypeOK'
  <2>1. up' \in BOOLEAN /\ raised' \in [Id -> Nat] /\ restarts' \in 0 .. MaxRestarts
    <3>1. up' \in BOOLEAN
      BY <1>1, Zenon
    <3> QED
      BY <1>1, <3>1, UnitsAssumption DEF DuInv, TypeOK
  <2> QED
    BY <1>1, <1>2, <1>3, <2>1 DEF DuInv, TypeOK
<1>5. Numbered' /\ ResultsComplete' /\ Turn'
  BY <1>1 DEF DuInv, Numbered, ResultsComplete, Turn
<1>6. Linked'
  BY <1>1, <1>2 DEF DuInv, Linked, Held, Single
<1>7. Recorded'
  <2>1. up' <=> pc' # "down"
    BY <1>1
  <2>2. pc = "down"
    BY DEF restart, DuInv, Recorded
  <2> QED
    BY <1>1, <2>1, <2>2 DEF DuInv, Recorded
<1>8. Unreported'
  BY <1>1, <1>2, InvFacts DEF DuInv, Unreported, Recorded
<1> QED
  BY <1>4, <1>5, <1>6, <1>7, <1>8 DEF DuInv

-----------------------------------------------------------------------------
LEMMA DuNextInv == DuInv /\ [Next]_vars => DuInv'
<1> SUFFICES ASSUME DuInv, [Next]_vars PROVE DuInv'
  OBVIOUS
<1>1. CASE Session
  BY <1>1, QuietInv, HandlerInv DEF Session
<1>2. CASE thread_cwmp_rpc_cpe_change_du_state
  BY <1>2, QuietInv, LookInv, DeleteRequestInv, InsertResultInv, RaiseInv, ReleaseInv, UnlinkInv,
     GarbledGoesInv DEF thread_cwmp_rpc_cpe_change_du_state
<1>3. CASE crash \/ cwmp_launch_change_du_state_download \/ DuRefOverrun \/ GarbledEnds
  BY <1>3, StopInv DEF crash, cwmp_launch_change_du_state_download, DuRefOverrun, GarbledEnds
<1>4. CASE restart \/ time_set \/ tick \/ UNCHANGED vars
  BY <1>4, RestartInv, QuietInv
<1> QED
  BY <1>1, <1>2, <1>3, <1>4 DEF Next

LEMMA InvAlways == Spec => []DuInv
<1>1. Init => DuInv
  BY DuInitInv
<1>2. DuInv /\ [Next]_vars => DuInv'
  BY DuNextInv
<1> QED
  BY <1>1, <1>2, PTL DEF Spec

(* An accepted request is in the list, reported, or on record as request   *)
(* or result, for any operations and any limits and at any number of       *)
(* crashes, but for one between the two saves of DeleteRequest and         *)
(* InsertResult.                                                           *)
THEOREM NothingEverLost == Spec => []NothingLost
<1>1. DuInv => NothingLost
  <2> SUFFICES ASSUME DuInv, up, NEW r \in accepted
               PROVE  \/ r.id \in cut \/ \E i \in 1 .. Len(list) : list[i] = r
                      \/ raised[r.id] > 0 \/ r.id \in file.done
                      \/ \E i \in 1 .. Len(file.requests) : file.requests[i].id = r.id
    BY DEF NothingLost
  <2>1. CASE r.id \in cut \union file.done
    BY <2>1
  <2>2. CASE r \in ToSet(file.requests)
    BY <2>2, InvFacts, ElementsOf, SMTT(60)
  <2>3. CASE pc = "insert" /\ cur = r
    BY <2>3, InvFacts, ElementsOf DEF DuInv, Linked, Held
  <2> QED
    BY <2>1, <2>2, <2>3 DEF DuInv, Recorded
<1> QED
  BY <1>1, InvAlways, PTL

(* A process reports a request once, whatever is reloaded, late or ahead   *)
(* of the clock, and with a result for each of its operations (Look,       *)
(* cwmp_root_cause_dustatechangeComplete).                                 *)
THEOREM AlwaysReportedOnce == Spec => []ReportedOnce
<1>1. DuInv => ReportedOnce
  BY DEF DuInv, Unreported, ReportedOnce
<1> QED
  BY <1>1, InvAlways, PTL

(* The thread unlocks mutex_session_send of a session that runs only for a *)
(* request ahead of the clock or a reloaded one (Release, GarbledGoes).    *)
THEOREM SessionNeverDisturbed == Spec => SessionUndisturbed
<1> DEFINE Undisturbed ==
      owner = "main" /\ owner' # "main"
      => \/ pc' = pc /\ list' = list
         \/ ~up'
         \/ pc = "release" /\ raised[cur.id] = 0
         \/ list # <<>> /\ Head(list) = Garbled
<1>1. DuInv /\ [Next]_vars => [Undisturbed]_vars
  <2> SUFFICES ASSUME DuInv, Next, owner = "main", owner' # "main"
               PROVE  \/ pc' = pc /\ list' = list
                      \/ ~up'
                      \/ pc = "release" /\ raised[cur.id] = 0
                      \/ list # <<>> /\ Head(list) = Garbled
    OBVIOUS
  <2>1. CASE Session
    BY <2>1 DEF Session, session_begin, session_end, cwmp_handle_rpc_cpe_change_du_state, threadVars
  <2>2. CASE thread_cwmp_rpc_cpe_change_du_state
    BY <2>2 DEF thread_cwmp_rpc_cpe_change_du_state, Look, Wait, Lock, RunOp, DeleteRequest,
         InsertResult, cwmp_root_cause_dustatechangeComplete, Release, Unlink, GarbledGoes, DuInv, Turn
  <2>3. CASE crash \/ cwmp_launch_change_du_state_download \/ DuRefOverrun \/ GarbledEnds
    BY <2>3 DEF crash, cwmp_launch_change_du_state_download, DuRefOverrun, GarbledEnds, Stop
  <2>4. CASE restart \/ time_set \/ tick
    BY <2>4 DEF restart, time_set, tick
  <2> QED
    BY <2>1, <2>2, <2>3, <2>4 DEF Next
<1>2. Spec => [][Undisturbed]_vars
  BY <1>1, InvAlways, PTL DEF Spec
<1> QED
  BY <1>2 DEF SessionUndisturbed
=============================================================================
