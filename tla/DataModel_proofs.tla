--------------------------- MODULE DataModel_proofs ---------------------------
(***************************************************************************)
(* One RPC on the data model, for any number of instances and entries.     *)
(***************************************************************************)
EXTENDS DataModel, SequenceLemmas

-----------------------------------------------------------------------------
(***************************************************************************)
(* The numbers of sections, and what browsing them changes.                *)
(***************************************************************************)
LEMMA SequenceOf ==
    ASSUME NEW S, NEW n \in Nat, NEW b, b = [i \in 1 .. n |-> b[i]], \A i \in 1 .. n : b[i] \in S
    PROVE  b \in Seq(S) /\ Len(b) = n
<1>1. b \in [1 .. n -> S]
  OBVIOUS
<1> QED
  BY <1>1

LEMMA SectionsAre ==
    ASSUME NEW t \in Seq(Section)
    PROVE  /\ Len(t) \in Nat /\ DOMAIN t = 1 .. Len(t)
           /\ \A i \in 1 .. Len(t) :
                /\ t[i] \in Section
                /\ t[i].inst \in Nat /\ t[i].alias \in Nat \union {Custom} /\ t[i].v \in Values
                /\ DOMAIN t[i] = {"inst", "alias", "v"}
<1>1. Len(t) \in Nat /\ DOMAIN t = 1 .. Len(t) /\ \A i \in 1 .. Len(t) : t[i] \in Section
  BY LenProperties, ElementOfSeq
<1>2. \A x \in Section :
        /\ x.inst \in Nat /\ x.alias \in Nat \union {Custom} /\ x.v \in Values
        /\ DOMAIN x = {"inst", "alias", "v"}
  BY DEF Section
<1> QED
  BY <1>1, <1>2

LEMMA NumbersExist ==
    ASSUME NEW t \in Seq(Section)
    PROVE  \E w : w = [i \in 0 .. Len(t) |->
             IF i = 0 THEN 0 ELSE IF t[i].inst # 0 THEN t[i].inst ELSE w[i - 1] + 1]
<1> DEFINE n == Len(t)
           g == [i \in 1 .. n |-> [x \in Nat |-> IF t[i].inst # 0 THEN t[i].inst ELSE x + 1]]
<1>2. n \in Nat /\ \A i \in 1 .. n : t[i].inst \in Nat
  BY SectionsAre
<1> HIDE DEF n
<1>1. g \in [1 .. n -> [Nat -> Nat]]
  BY <1>2
<1>3. \A i \in 1 .. n, x \in Nat : g[i][x] = IF t[i].inst # 0 THEN t[i].inst ELSE x + 1
  OBVIOUS
<1> HIDE DEF g
<1>4. PICK w \in [0 .. n -> Nat] : w[0] = 0 /\ \A i \in 1 .. n : w[i] = g[i][w[i - 1]]
  <2> DEFINE D == Nat
             z == 0
  <2>1. z \in D /\ g \in [1 .. n -> [D -> D]]
    BY <1>1
  <2> HIDE DEF D, z, g
  <2>2. \E w \in [0 .. n -> D] : w[0] = z /\ \A i \in 1 .. n : w[i] = g[i][w[i - 1]]
    BY ONLY <1>2, <2>1, Iterated, SMTT(30)
  <2> QED
    BY <2>2 DEF D, z
<1>5. ASSUME NEW i \in 0 .. n
      PROVE  w[i] = IF i = 0 THEN 0 ELSE IF t[i].inst # 0 THEN t[i].inst ELSE w[i - 1] + 1
  <2>1. CASE i = 0
    BY <1>4, <2>1
  <2>2. CASE i # 0
    <3>1. i \in 1 .. n /\ w[i - 1] \in Nat
      BY <1>2, <1>4, <2>2
    <3>2. w[i] = g[i][w[i - 1]]
      BY <1>4, <3>1
    <3>3. g[i][w[i - 1]] = IF t[i].inst # 0 THEN t[i].inst ELSE w[i - 1] + 1
      BY <1>3, <3>1
    <3> QED
      BY ONLY <2>2, <3>2, <3>3, Zenon
  <2> QED
    BY <2>1, <2>2
<1>6. w = [i \in 0 .. n |->
             IF i = 0 THEN 0 ELSE IF t[i].inst # 0 THEN t[i].inst ELSE w[i - 1] + 1]
  BY <1>5
<1> QED
  BY <1>6 DEF n

LEMMA NumbersAre ==
    ASSUME NEW t \in Seq(Section)
    PROVE  /\ InstNumbers(t) \in [0 .. Len(t) -> Nat] /\ InstNumbers(t)[0] = 0
           /\ \A i \in 1 .. Len(t) :
                /\ InstNumbers(t)[i] = IF t[i].inst # 0 THEN t[i].inst ELSE InstNumbers(t)[i - 1] + 1
                /\ InstNumbers(t)[i] \in Nat \ {0}
<1> DEFINE N == InstNumbers(t)
<1>1. N = [i \in 0 .. Len(t) |->
             IF i = 0 THEN 0 ELSE IF t[i].inst # 0 THEN t[i].inst ELSE N[i - 1] + 1]
  BY NumbersExist, Zenon DEF InstNumbers
<1> HIDE DEF N
<1>2. Len(t) \in Nat /\ \A i \in 1 .. Len(t) : t[i].inst \in Nat
  BY SectionsAre DEF Section
<1>3. DOMAIN N = 0 .. Len(t) /\ N[0] = 0
  BY <1>1, <1>2
<1>4. \A i \in 1 .. Len(t) : N[i] = IF t[i].inst # 0 THEN t[i].inst ELSE N[i - 1] + 1
  BY <1>1, <1>2
<1>5. \A i \in 0 .. Len(t) : N[i] \in Nat
  <2> DEFINE S == {i \in 0 .. Len(t) : N[i] \in Nat}
  <2>1. 0 \in S
    BY <1>2, <1>3
  <2>2. \A i \in 1 .. Len(t) : i - 1 \in S => i \in S
    BY <1>2, <1>4
  <2> HIDE DEF S
  <2>3. \A i \in 0 .. Len(t) : i \in S
    BY <1>2, <2>1, <2>2, UpTo
  <2> QED
    BY <2>3 DEF S
<1>6. N \in [0 .. Len(t) -> Nat]
  BY <1>1, <1>5
<1>7. \A i \in 1 .. Len(t) : N[i] \in Nat \ {0}
  BY <1>2, <1>4, <1>5
<1> QED
  BY <1>3, <1>4, <1>6, <1>7 DEF N

LEMMA SameNumbers ==
    ASSUME NEW t \in Seq(Section), NEW b \in Seq(Section), Len(b) = Len(t),
           \A i \in 1 .. Len(t) : b[i].inst \in {t[i].inst, InstNumbers(t)[i]}
    PROVE  InstNumbers(b) = InstNumbers(t)
<1> DEFINE N == InstNumbers(t)
           M == InstNumbers(b)
           n == Len(t)
<1>1. /\ n \in Nat /\ N \in [0 .. n -> Nat] /\ M \in [0 .. n -> Nat] /\ N[0] = 0 /\ M[0] = 0
      /\ \A i \in 1 .. n : /\ N[i] = IF t[i].inst # 0 THEN t[i].inst ELSE N[i - 1] + 1
                           /\ M[i] = IF b[i].inst # 0 THEN b[i].inst ELSE M[i - 1] + 1
                           /\ N[i] # 0
                           /\ b[i].inst \in {t[i].inst, N[i]}
  <2>1. /\ N \in [0 .. n -> Nat] /\ N[0] = 0
        /\ \A i \in 1 .. n : /\ N[i] = IF t[i].inst # 0 THEN t[i].inst ELSE N[i - 1] + 1
                             /\ N[i] # 0
    BY NumbersAre
  <2>2. /\ M \in [0 .. n -> Nat] /\ M[0] = 0
        /\ \A i \in 1 .. n : M[i] = IF b[i].inst # 0 THEN b[i].inst ELSE M[i - 1] + 1
    BY NumbersAre
  <2>3. n \in Nat
    BY SectionsAre
  <2> QED
    BY <2>1, <2>2, <2>3
<1> HIDE DEF N, M, n
<1> DEFINE S == {i \in 0 .. n : M[i] = N[i]}
<1>2. 0 \in S
  BY <1>1
<1>3. ASSUME NEW i \in 1 .. n, i - 1 \in S PROVE i \in S
  <2>1. i \in 0 .. n /\ M[i - 1] = N[i - 1]
    BY <1>1, <1>3
  <2>2. CASE b[i].inst = 0
    <3>1. t[i].inst = 0
      BY <1>1, <2>2
    <3>2. N[i] = N[i - 1] + 1 /\ M[i] = M[i - 1] + 1
      BY <1>1, <2>2, <3>1
    <3> QED
      BY <2>1, <3>2
  <2>3. CASE b[i].inst # 0
    <3>1. b[i].inst = N[i]
      BY <1>1, <2>3
    <3>2. M[i] = b[i].inst
      BY <1>1, <2>3
    <3> QED
      BY <2>1, <3>1, <3>2
  <2> QED
    BY <2>2, <2>3
<1>4. \A i \in 0 .. n : i \in S
  <2> HIDE DEF S
  <2> QED
    BY <1>1, <1>2, <1>3, UpTo
<1>5. \A i \in 0 .. n : M[i] = N[i]
  BY <1>4
<1>6. M = N
  BY <1>1, <1>5
<1> QED
  BY <1>6 DEF M, N

(* What browsing the first k sections makes of each.                       *)
LEMMA Browsed ==
    ASSUME NEW t \in Seq(Section), NEW a \in BOOLEAN, NEW k \in Int
    PROVE  /\ Browse(t, a, k) \in Seq(Section) /\ Len(Browse(t, a, k)) = Len(t)
           /\ \A i \in 1 .. Len(t) :
                Browse(t, a, k)[i] =
                  [inst |-> IF i > k THEN t[i].inst ELSE InstNumbers(t)[i],
                   alias |-> IF i <= k /\ a /\ t[i].alias = 0 THEN InstNumbers(t)[i]
                             ELSE t[i].alias,
                   v |-> t[i].v]
<1> DEFINE n == Len(t)
           N == InstNumbers(t)
           b == Browse(t, a, k)
           r(i) == [inst |-> IF i > k THEN t[i].inst ELSE N[i],
                    alias |-> IF i <= k /\ a /\ t[i].alias = 0 THEN N[i] ELSE t[i].alias,
                    v |-> t[i].v]
<1>1. n \in Nat /\ \A i \in 1 .. n : N[i] \in Nat
  BY NumbersAre, SectionsAre
<1>2. \A i \in 1 .. n :
        /\ t[i].inst \in Nat /\ t[i].alias \in Nat \union {Custom} /\ t[i].v \in Values
        /\ t[i] = [inst |-> t[i].inst, alias |-> t[i].alias, v |-> t[i].v]
  BY SectionsAre DEF Section
<1>3. /\ DOMAIN b = 1 .. n
      /\ \A i \in 1 .. n : b[i] = IF i > k THEN t[i]
              ELSE [inst |-> N[i], alias |-> IF a /\ t[i].alias = 0 THEN N[i] ELSE t[i].alias,
                    v |-> t[i].v]
  BY DEF Browse
<1> HIDE DEF b, n, N
<1>4. ASSUME NEW i \in 1 .. n PROVE b[i] = r(i)
  <2> DEFINE x == t[i].inst
             y == t[i].alias
             z == t[i].v
  <2>1. CASE i > k
    <3>1. b[i] = [inst |-> x, alias |-> y, v |-> z]
      BY <1>2, <1>3, <2>1
    <3>2. ~(i <= k)
      BY <1>1, <2>1
    <3>3. r(i) = [inst |-> x, alias |-> y, v |-> z]
      BY <2>1, <3>2
    <3> QED
      BY <3>1, <3>3
  <2>2. CASE ~(i > k)
    <3>1. i <= k
      BY <2>2, <1>1
    <3>2. b[i] = [inst |-> N[i], alias |-> IF a /\ y = 0 THEN N[i] ELSE y, v |-> z]
      BY <1>3, <2>2
    <3>3. r(i) = [inst |-> N[i], alias |-> IF a /\ y = 0 THEN N[i] ELSE y, v |-> z]
      BY <2>2, <3>1
    <3> QED
      BY <3>2, <3>3
  <2> QED
    BY <2>1, <2>2
<1>5. \A i \in 1 .. n : r(i) \in Section
  BY <1>1, <1>2 DEF Section
<1>6. b \in Seq(Section) /\ Len(b) = n
  <2>1. b = [i \in 1 .. n |-> b[i]] /\ \A i \in 1 .. n : b[i] \in Section
    BY <1>3, <1>4, <1>5 DEF b, n, Browse
  <2> HIDE DEF r
  <2> QED
    BY <1>1, <2>1, SequenceOf
<1> QED
  BY <1>4, <1>6 DEF b, n, N

(* The sections with all their numbers and aliases.                        *)
LEMMA FullAre ==
    ASSUME NEW t \in Seq(Section)
    PROVE  /\ Full(t) \in Seq(Section) /\ Len(Full(t)) = Len(t)
           /\ \A i \in 1 .. Len(t) :
                Full(t)[i] = [inst |-> InstNumbers(t)[i],
                              alias |-> IF t[i].alias = 0 THEN InstNumbers(t)[i] ELSE t[i].alias,
                              v |-> t[i].v]
<1>1. Len(t) \in Int /\ TRUE \in BOOLEAN
  BY SectionsAre
<1>2. /\ Full(t) \in Seq(Section) /\ Len(Full(t)) = Len(t)
      /\ \A i \in 1 .. Len(t) :
           Full(t)[i] =
             [inst |-> IF i > Len(t) THEN t[i].inst ELSE InstNumbers(t)[i],
              alias |-> IF i <= Len(t) /\ TRUE /\ t[i].alias = 0 THEN InstNumbers(t)[i]
                        ELSE t[i].alias,
              v |-> t[i].v]
  BY <1>1, Browsed DEF Full
<1>3. \A i \in 1 .. Len(t) : i <= Len(t) /\ ~(i > Len(t))
  BY <1>1
<1> QED
  BY <1>2, <1>3

LEMMA FullFields ==
    ASSUME NEW t \in Seq(Section)
    PROVE  \A i \in 1 .. Len(t) :
             /\ Full(t)[i].inst = InstNumbers(t)[i]
             /\ Full(t)[i].alias = IF t[i].alias = 0 THEN InstNumbers(t)[i] ELSE t[i].alias
             /\ Full(t)[i].v = t[i].v
<1> DEFINE F == Full(t)
           N == InstNumbers(t)
           n == Len(t)
<1>1. \A i \in 1 .. n :
        F[i] = [inst |-> N[i], alias |-> IF t[i].alias = 0 THEN N[i] ELSE t[i].alias,
                v |-> t[i].v]
  BY FullAre
<1> HIDE DEF F, N, n
<1>2. ASSUME NEW i \in 1 .. n
      PROVE  /\ F[i].inst = N[i] /\ F[i].v = t[i].v
             /\ F[i].alias = IF t[i].alias = 0 THEN N[i] ELSE t[i].alias
  <2> DEFINE y == IF t[i].alias = 0 THEN N[i] ELSE t[i].alias
  <2>1. F[i] = [inst |-> N[i], alias |-> y, v |-> t[i].v]
    BY <1>1
  <2> HIDE DEF y
  <2>2. F[i].inst = N[i] /\ F[i].alias = y /\ F[i].v = t[i].v
    BY <2>1
  <2> QED
    BY <2>2 DEF y
<1> QED
  BY <1>2 DEF F, N, n

LEMMA BrowsedFields ==
    ASSUME NEW t \in Seq(Section), NEW a \in BOOLEAN, NEW k \in Int
    PROVE  /\ Browse(t, a, k) \in Seq(Section) /\ Len(Browse(t, a, k)) = Len(t)
           /\ \A i \in 1 .. Len(t) :
                /\ Browse(t, a, k)[i].inst = IF i > k THEN t[i].inst ELSE InstNumbers(t)[i]
                /\ Browse(t, a, k)[i].alias =
                     IF i <= k /\ a /\ t[i].alias = 0 THEN InstNumbers(t)[i] ELSE t[i].alias
                /\ Browse(t, a, k)[i].v = t[i].v
<1> DEFINE b == Browse(t, a, k)
           N == InstNumbers(t)
           n == Len(t)
<1>1. /\ b \in Seq(Section) /\ Len(b) = n
      /\ \A i \in 1 .. n :
           b[i] = [inst |-> IF i > k THEN t[i].inst ELSE N[i],
                   alias |-> IF i <= k /\ a /\ t[i].alias = 0 THEN N[i] ELSE t[i].alias,
                   v |-> t[i].v]
  BY Browsed
<1> HIDE DEF b, N, n
<1>2. \A i \in 1 .. n :
        /\ b[i].inst = IF i > k THEN t[i].inst ELSE N[i]
        /\ b[i].alias = IF i <= k /\ a /\ t[i].alias = 0 THEN N[i] ELSE t[i].alias
        /\ b[i].v = t[i].v
  BY <1>1
<1> QED
  BY <1>1, <1>2 DEF b, N, n

(* Browsing does not change what browsing all of them will find.           *)
LEMMA BrowsedSame ==
    ASSUME NEW t \in Seq(Section), NEW a \in BOOLEAN, NEW k \in Int
    PROVE  Full(Browse(t, a, k)) = Full(t) /\ InstNumbers(Browse(t, a, k)) = InstNumbers(t)
<1> DEFINE b == Browse(t, a, k)
           N == InstNumbers(t)
           n == Len(t)
<1>1. /\ b \in Seq(Section) /\ Len(b) = n
      /\ \A i \in 1 .. n :
           /\ b[i].inst = IF i > k THEN t[i].inst ELSE N[i]
           /\ b[i].alias = IF i <= k /\ a /\ t[i].alias = 0 THEN N[i] ELSE t[i].alias
           /\ b[i].v = t[i].v
  BY BrowsedFields
<1>2. InstNumbers(b) = N
  <2>1. \A i \in 1 .. n : b[i].inst \in {t[i].inst, N[i]}
    BY <1>1
  <2> HIDE DEF b
  <2> QED
    BY <1>1, <2>1, SameNumbers
<1>3. /\ Full(t) \in Seq(Section) /\ Len(Full(t)) = n
      /\ \A i \in 1 .. n :
           Full(t)[i] = [inst |-> N[i], alias |-> IF t[i].alias = 0 THEN N[i] ELSE t[i].alias,
                         v |-> t[i].v]
  BY FullAre
<1>4. /\ Full(b) \in Seq(Section) /\ Len(Full(b)) = n
      /\ \A i \in 1 .. n :
           Full(b)[i] = [inst |-> N[i], alias |-> IF b[i].alias = 0 THEN N[i] ELSE b[i].alias,
                         v |-> b[i].v]
  <2> HIDE DEF b
  <2> QED
    BY <1>1, <1>2, FullAre
<1>5. n \in Nat /\ \A i \in 1 .. n : N[i] # 0
  BY SectionsAre, NumbersAre
<1> HIDE DEF b, N, n
<1>6. ASSUME NEW i \in 1 .. n PROVE Full(b)[i] = Full(t)[i]
  <2>1. (IF b[i].alias = 0 THEN N[i] ELSE b[i].alias) = IF t[i].alias = 0 THEN N[i] ELSE t[i].alias
    BY <1>1, <1>5
  <2> QED
    BY ONLY <1>1, <1>3, <1>4, <1>6, <2>1, SMTT(30)
<1>7. Full(b) = Full(t)
  BY <1>3, <1>4, <1>5, <1>6
<1> QED
  BY <1>2, <1>7 DEF b, N

(* Numbers increase with the positions, those that are there already.      *)
Ordered(t) ==
    \A i, j \in 1 .. Len(t) :
        i < j /\ t[j].inst # 0 => 0 < t[i].inst /\ t[i].inst < t[j].inst

LEMMA NumbersIncrease ==
    ASSUME NEW t \in Seq(Section), Ordered(t)
    PROVE  \A i, j \in 1 .. Len(t) : i < j => InstNumbers(t)[i] < InstNumbers(t)[j]
<1> DEFINE N == InstNumbers(t)
           n == Len(t)
           S == {j \in 0 .. n : \A i \in 1 .. n : i < j => N[i] < N[j]}
<1>1. /\ n \in Nat /\ N \in [0 .. n -> Nat] /\ N[0] = 0
      /\ \A i \in 1 .. n : t[i].inst \in Nat /\ N[i] # 0
      /\ \A i \in 1 .. n : t[i].inst = 0 => N[i] = N[i - 1] + 1
      /\ \A i \in 1 .. n : t[i].inst # 0 => N[i] = t[i].inst
      /\ \A i, j \in 1 .. n : i < j /\ t[j].inst # 0 => 0 < t[i].inst /\ t[i].inst < t[j].inst
  BY SectionsAre, NumbersAre DEF Ordered
<1> HIDE DEF N, n
<1>2. 0 \in S
  BY <1>1
<1>3. ASSUME NEW j \in 1 .. n, j - 1 \in S PROVE j \in S
  <2>1. j \in 0 .. n /\ \A i \in 1 .. n : i < j - 1 => N[i] < N[j - 1]
    BY <1>1, <1>3
  <2>2. ASSUME NEW i \in 1 .. n, i < j PROVE N[i] < N[j]
    <3>1. CASE t[j].inst # 0
      <4>1. t[i].inst # 0 /\ t[i].inst < t[j].inst
        BY <1>1, <2>2, <3>1
      <4>2. N[i] = t[i].inst
        BY <1>1, <2>2, <4>1, Zenon
      <4>3. N[j] = t[j].inst
        BY <1>1, <3>1, Zenon
      <4> QED
        BY ONLY <4>1, <4>2, <4>3
    <3>2. CASE t[j].inst = 0
      <4>1. N[j] = N[j - 1] + 1 /\ N[j - 1] \in Nat /\ N[i] \in Nat
        BY <1>1, <3>2, SMTT(30)
      <4>2. CASE i = j - 1
        BY <4>1, <4>2
      <4>3. CASE i < j - 1
        BY <2>1, <4>1, <4>3
      <4> QED
        BY <1>1, <2>2, <4>2, <4>3
    <3> QED
      BY <3>1, <3>2
  <2> QED
    BY <2>1, <2>2
<1>4. \A j \in 0 .. n : j \in S
  <2> HIDE DEF S
  <2> QED
    BY <1>1, <1>2, <1>3, UpTo
<1>5. \A i, j \in 1 .. n : i < j => N[i] < N[j]
  BY <1>1, <1>4
<1> QED
  BY <1>5 DEF N, n

LEMMA BrowsedOrdered ==
    ASSUME NEW t \in Seq(Section), Ordered(t), NEW a \in BOOLEAN, NEW k \in Int
    PROVE  Ordered(Browse(t, a, k))
<1> DEFINE b == Browse(t, a, k)
           N == InstNumbers(t)
           n == Len(t)
<1>1. /\ n \in Nat /\ N \in [0 .. n -> Nat]
      /\ \A i \in 1 .. n : t[i].inst \in Nat /\ N[i] # 0
      /\ \A i \in 1 .. n : t[i].inst # 0 => N[i] = t[i].inst
      /\ \A i, j \in 1 .. n : i < j /\ t[j].inst # 0 => 0 < t[i].inst /\ t[i].inst < t[j].inst
  BY SectionsAre, NumbersAre DEF Ordered
<1>2. Len(b) = n /\ \A i \in 1 .. n : b[i].inst = IF i > k THEN t[i].inst ELSE N[i]
  BY BrowsedFields
<1>3. \A i, j \in 1 .. n : i < j => N[i] < N[j]
  BY NumbersIncrease
<1> HIDE DEF b, N, n
<1>4. ASSUME NEW i \in 1 .. n, NEW j \in 1 .. n, i < j, b[j].inst # 0
      PROVE  0 < b[i].inst /\ b[i].inst < b[j].inst
  <2>1. CASE j <= k
    <3>1. b[i].inst = N[i] /\ b[j].inst = N[j]
      BY <1>2, <1>4, <2>1
    <3> QED
      BY <1>1, <1>3, <1>4, <3>1
  <2>2. CASE j > k
    <3>1. b[j].inst = t[j].inst /\ t[j].inst # 0
      BY <1>2, <1>4, <2>2
    <3>2. 0 < t[i].inst /\ t[i].inst < t[j].inst
      BY <1>1, <1>4, <3>1
    <3>3. b[i].inst = t[i].inst
      BY <1>1, <1>2, <3>2
    <3> QED
      BY <3>1, <3>2, <3>3
  <2> QED
    BY <2>1, <2>2
<1> QED
  BY <1>2, <1>4 DEF Ordered, b

(* An alias is none, one of the ACS, or that of the number.                *)
Aliased(t) == \A i \in 1 .. Len(t) : t[i].alias \in {0, Custom, t[i].inst}
Sound(t) == t \in Seq(Section) /\ Ordered(t) /\ Aliased(t)

LEMMA BrowsedSound ==
    ASSUME NEW t, Sound(t), NEW a \in BOOLEAN, NEW k \in Int
    PROVE  Sound(Browse(t, a, k))
<1> DEFINE b == Browse(t, a, k)
           N == InstNumbers(t)
           n == Len(t)
<1>1. /\ n \in Nat /\ \A i \in 1 .. n : t[i].alias \in {0, Custom, t[i].inst}
      /\ \A i \in 1 .. n : t[i].inst \in Nat
      /\ \A i \in 1 .. n : t[i].inst # 0 => N[i] = t[i].inst
  BY SectionsAre, NumbersAre DEF Sound, Aliased
<1>2. /\ b \in Seq(Section) /\ Len(b) = n
      /\ \A i \in 1 .. n :
           /\ b[i].inst = IF i > k THEN t[i].inst ELSE N[i]
           /\ b[i].alias = IF i <= k /\ a /\ t[i].alias = 0 THEN N[i] ELSE t[i].alias
  BY BrowsedFields DEF Sound
<1>3. Ordered(b)
  BY BrowsedOrdered DEF Sound
<1> HIDE DEF b, N, n
<1>4. ASSUME NEW i \in 1 .. n PROVE b[i].alias \in {0, Custom, b[i].inst}
  <2>1. CASE i > k
    BY <1>1, <1>2, <2>1
  <2>2. CASE i <= k
    <3>1. b[i].inst = N[i]
      BY <1>1, <1>2, <2>2
    <3> QED
      BY <1>1, <1>2, <3>1
  <2> QED
    BY <1>1, <2>1, <2>2
<1> QED
  BY <1>2, <1>3, <1>4 DEF Sound, Aliased, b

-----------------------------------------------------------------------------
(***************************************************************************)
(* The context of an RPC, and the walk to what a name stands for.          *)
(***************************************************************************)
Word == {"T", "", "v", "a", "s", "f"} \union {ToString(n) : n \in Nat}
Paths == {p \in Seq(Word) : Len(p) \in 1 .. 3}
Listing == [0 .. 6 -> SUBSET Paths]
Context ==
    [secs : Seq(Section), s : Values, key : ParameterKeys \union {"none"}, lists : Listing,
     register : BOOLEAN, nbr : Nat, fault : Nat]

(* What is found is what the name stands for when all are browsed.         *)
LEMMA FoundIs ==
    ASSUME NEW c, c.secs \in Seq(Section), ByAlias(c) \in BOOLEAN, NEW ref
    PROVE  /\ Found(c, ref) \in 0 .. Len(c.secs)
           /\ Found(c, ref) # 0 =>
                /\ Found(c, ref) = TargetOf(c.secs, ref)
                /\ ref.how = IF ByAlias(c) THEN "alias" ELSE "number"
<1> DEFINE n == Len(c.secs)
           A == ByAlias(c)
           all == Browse(c.secs, A, n)
           F == Full(c.secs)
           Hits(s) == IF A THEN ref.how = "alias" /\ s.alias = ref.n
                      ELSE ref.how = "number" /\ s.inst = ref.n
           Means(s) == IF ref.how = "number" THEN s.inst = ref.n ELSE s.alias = ref.n
           I == {i \in 1 .. Len(all) : Hits(all[i])}
           J == {i \in 1 .. Len(F) : Means(F[i])}
<1>1. Found(c, ref) = IF I # {} THEN Min(I) ELSE 0
  BY DEF Found, SelectInSeq
<1>2. TargetOf(c.secs, ref) = IF J # {} THEN Min(J) ELSE 0
  BY DEF TargetOf, SelectInSeq
<1>3. n \in Nat /\ Len(all) = n /\ Len(F) = n
  BY SectionsAre, Browsed, FullAre
<1>4. \A i \in 1 .. n : all[i].inst = F[i].inst /\ (A => all[i].alias = F[i].alias)
  <2>1. \A i \in 1 .. n : F[i].inst = InstNumbers(c.secs)[i] /\
          F[i].alias = IF c.secs[i].alias = 0 THEN InstNumbers(c.secs)[i] ELSE c.secs[i].alias
    BY FullFields
  <2>2. \A i \in 1 .. n :
          /\ all[i].inst = IF i > n THEN c.secs[i].inst ELSE InstNumbers(c.secs)[i]
          /\ all[i].alias = IF i <= n /\ A /\ c.secs[i].alias = 0 THEN InstNumbers(c.secs)[i]
                            ELSE c.secs[i].alias
    BY <1>3, BrowsedFields
  <2> HIDE DEF all, F, A, n
  <2> QED
    BY <1>3, <2>1, <2>2
<1> HIDE DEF all, F, A, n
<1>5. I # {} => ref.how = IF A THEN "alias" ELSE "number"
  OBVIOUS
<1>6. I # {} => I = J
  <2>1. ASSUME I # {} PROVE \A i \in 1 .. n : Hits(all[i]) <=> Means(F[i])
    BY <1>4, <1>5, <2>1
  <2> QED
    BY <1>3, <2>1
<1>7. I # {} => Min(I) \in I
  <2>1. I \in SUBSET Nat
    BY <1>3
  <2> HIDE DEF I
  <2> QED
    BY <2>1, MinNat
<1>8. I # {} => Min(I) \in 1 .. n
  BY <1>3, <1>7
<1> HIDE DEF I, J
<1>9. Found(c, ref) \in 0 .. n
  BY <1>1, <1>3, <1>8
<1>10. Found(c, ref) # 0 => I # {}
  BY <1>1
<1> QED
  BY <1>1, <1>2, <1>5, <1>6, <1>9, <1>10 DEF n, A

(* The sections of t are those of s, some of them browsed.                 *)
Like(s, t) == Sound(t) /\ Len(t) = Len(s) /\ Full(t) = Full(s) /\ InstNumbers(t) = InstNumbers(s)

LEMMA BrowsedLike ==
    ASSUME NEW t, Sound(t), NEW a \in BOOLEAN, NEW k \in Int
    PROVE  Like(t, Browse(t, a, k))
<1>1. t \in Seq(Section)
  BY DEF Sound
<1> QED
  BY <1>1, Browsed, BrowsedSame, BrowsedSound DEF Like

LEMMA Entered ==
    ASSUME NEW c \in Context, NEW ref
    PROVE  /\ Enter(c, ref) \in Context
           /\ Enter(c, ref).secs = c.secs /\ Enter(c, ref).s = c.s /\ Enter(c, ref).key = c.key
           /\ Enter(c, ref).lists = c.lists /\ Enter(c, ref).fault = c.fault
           /\ ref # None => Enter(c, ref).nbr = 1
<1> DEFINE x == (c.register \/ ref.how = "alias")
           y == IF ref = None THEN 0 ELSE 1
<1>1. x \in BOOLEAN /\ y \in Nat
  BY DEF Context
<1>2. Enter(c, ref) = [c EXCEPT !.register = x, !.nbr = y]
  BY DEF Enter
<1> HIDE DEF x, y
<1>3. Enter(c, ref) = [secs |-> c.secs, s |-> c.s, key |-> c.key, lists |-> c.lists,
                       register |-> x, nbr |-> y, fault |-> c.fault]
  BY <1>2 DEF Context
<1> QED
  BY <1>1, <1>3 DEF Context, y

LEMMA WalkedLike ==
    ASSUME NEW c \in Context, Sound(c.secs), NEW ref
    PROVE  \E t : /\ Like(c.secs, t)
                  /\ Walked(c, ref) = [c EXCEPT !.secs = t]
                  /\ Found(c, ref) # 0 =>
                       t[Found(c, ref)] = Full(c.secs)[Found(c, ref)]
                         \/ /\ ~ByAlias(c)
                            /\ t[Found(c, ref)].inst = Full(c.secs)[Found(c, ref)].inst
<1>1. ByAlias(c) \in BOOLEAN /\ c.secs \in Seq(Section) /\ Len(c.secs) \in Nat
  BY SectionsAre DEF ByAlias, Context, Sound
<1> DEFINE at == Found(c, ref)
           k == IF at = 0 THEN Len(c.secs) ELSE at
           A == ByAlias(c)
           t == Browse(c.secs, A, k)
<1>2. at \in 0 .. Len(c.secs)
  BY <1>1, FoundIs
<1>3. k \in Int
  BY <1>1, <1>2
<1>4. Like(c.secs, t)
  <2> HIDE DEF k, A
  <2> QED
    BY <1>1, <1>3, BrowsedLike DEF A
<1>5. Walked(c, ref) = [c EXCEPT !.secs = t]
  BY DEF Walked
<1>6. ASSUME at # 0
      PROVE  t[at] = Full(c.secs)[at] \/ (~A /\ t[at].inst = Full(c.secs)[at].inst)
  <2> DEFINE N == InstNumbers(c.secs)
             s == c.secs
  <2>1. at \in 1 .. Len(s) /\ at <= k /\ ~(at > k)
    BY <1>1, <1>2, <1>6
  <2>2. t[at] = [inst |-> IF at > k THEN s[at].inst ELSE N[at],
                 alias |-> IF at <= k /\ A /\ s[at].alias = 0 THEN N[at] ELSE s[at].alias,
                 v |-> s[at].v]
    <3> HIDE DEF k, at, A
    <3> QED
      BY <1>1, <1>3, <2>1, Browsed DEF A
  <2>3. Full(s)[at] = [inst |-> N[at], alias |-> IF s[at].alias = 0 THEN N[at] ELSE s[at].alias,
                       v |-> s[at].v]
    <3> HIDE DEF k, at
    <3> QED
      BY <1>1, <2>1, FullAre
  <2> HIDE DEF at, k, t, N, A, s
  <2>4. t[at] = [inst |-> N[at], alias |-> IF A /\ s[at].alias = 0 THEN N[at] ELSE s[at].alias,
                 v |-> s[at].v]
    BY <2>1, <2>2
  <2>5. CASE A
    BY <2>3, <2>4, <2>5 DEF s
  <2>6. CASE ~A
    <3> DEFINE y == IF s[at].alias = 0 THEN N[at] ELSE s[at].alias
    <3>1. Full(s)[at] = [inst |-> N[at], alias |-> y, v |-> s[at].v]
      BY <2>3
    <3>2. t[at] = [inst |-> N[at], alias |-> s[at].alias, v |-> s[at].v]
      BY <2>4, <2>6
    <3> HIDE DEF y
    <3>3. t[at].inst = Full(s)[at].inst
      BY <3>1, <3>2
    <3> QED
      BY <2>6, <3>3 DEF s
  <2> QED
    BY <2>5, <2>6 DEF s
<1> HIDE DEF t, at, k, A
<1> QED
  BY <1>4, <1>5, <1>6 DEF at, A

LEMMA LikeItself ==
    ASSUME NEW t, Sound(t)
    PROVE  Like(t, t)
BY DEF Like

LEMMA LikeAgain ==
    ASSUME NEW r, NEW s, NEW t, Like(r, s), Like(s, t)
    PROVE  Like(r, t)
BY DEF Like

(* A context with other sections.                                          *)
LEMMA WithSections ==
    ASSUME NEW c \in Context, NEW t \in Seq(Section), NEW d, d = [c EXCEPT !.secs = t]
    PROVE  /\ d \in Context /\ d.secs = t
           /\ d.s = c.s /\ d.key = c.key /\ d.lists = c.lists /\ d.fault = c.fault
           /\ d.register = c.register /\ d.nbr = c.nbr
<1>1. d = [secs |-> t, s |-> c.s, key |-> c.key, lists |-> c.lists, register |-> c.register,
           nbr |-> c.nbr, fault |-> c.fault]
  BY DEF Context
<1> QED
  BY <1>1 DEF Context

LEMMA WithFault ==
    ASSUME NEW c \in Context, NEW f \in Nat, NEW d, d = [c EXCEPT !.fault = f]
    PROVE  /\ d \in Context /\ d.fault = f
           /\ d.s = c.s /\ d.key = c.key /\ d.lists = c.lists /\ d.secs = c.secs
           /\ d.register = c.register /\ d.nbr = c.nbr
<1>1. d = [secs |-> c.secs, s |-> c.s, key |-> c.key, lists |-> c.lists,
           register |-> c.register, nbr |-> c.nbr, fault |-> f]
  BY DEF Context
<1> QED
  BY <1>1 DEF Context

LEMMA WithLists ==
    ASSUME NEW c \in Context, NEW l \in Listing, NEW d, d = [c EXCEPT !.lists = l]
    PROVE  /\ d \in Context /\ d.lists = l
           /\ d.s = c.s /\ d.key = c.key /\ d.fault = c.fault /\ d.secs = c.secs
           /\ d.register = c.register /\ d.nbr = c.nbr
<1>1. d = [secs |-> c.secs, s |-> c.s, key |-> c.key, lists |-> l,
           register |-> c.register, nbr |-> c.nbr, fault |-> c.fault]
  BY DEF Context
<1> QED
  BY <1>1 DEF Context

LEMMA WithScalar ==
    ASSUME NEW c \in Context, NEW x \in Values, NEW d, d = [c EXCEPT !.s = x]
    PROVE  /\ d \in Context /\ d.s = x
           /\ d.lists = c.lists /\ d.key = c.key /\ d.fault = c.fault /\ d.secs = c.secs
           /\ d.register = c.register /\ d.nbr = c.nbr
<1>1. d = [secs |-> c.secs, s |-> x, key |-> c.key, lists |-> c.lists,
           register |-> c.register, nbr |-> c.nbr, fault |-> c.fault]
  BY DEF Context
<1> QED
  BY <1>1 DEF Context

(* The contexts a request passes through.                                  *)
Ctxs == {c \in Context : Sound(c.secs)}

LEMMA Walks ==
    ASSUME NEW c \in Ctxs, NEW ref
    PROVE  /\ Walked(c, ref) \in Ctxs /\ Like(c.secs, Walked(c, ref).secs)
           /\ Walked(c, ref).s = c.s /\ Walked(c, ref).key = c.key
           /\ Walked(c, ref).lists = c.lists /\ Walked(c, ref).fault = c.fault
           /\ Found(c, ref) \in 0 .. Len(c.secs)
           /\ Found(c, ref) # 0 =>
                /\ Found(c, ref) = TargetOf(c.secs, ref)
                /\ ref.how \in {"alias", "number"}
                /\ Walked(c, ref).secs[Found(c, ref)].inst = InstNumbers(c.secs)[Found(c, ref)]
<1>1. c \in Context /\ Sound(c.secs) /\ ByAlias(c) \in BOOLEAN /\ c.secs \in Seq(Section)
  BY DEF Ctxs, ByAlias, Context, Sound
<1>2. PICK t : /\ Like(c.secs, t) /\ Walked(c, ref) = [c EXCEPT !.secs = t]
               /\ Found(c, ref) # 0 =>
                       t[Found(c, ref)] = Full(c.secs)[Found(c, ref)]
                         \/ /\ ~ByAlias(c)
                            /\ t[Found(c, ref)].inst = Full(c.secs)[Found(c, ref)].inst
  BY <1>1, WalkedLike
<1>3. t \in Seq(Section) /\ Sound(t)
  BY <1>2 DEF Like, Sound
<1>4. /\ Walked(c, ref) \in Context /\ Walked(c, ref).secs = t
      /\ Walked(c, ref).s = c.s /\ Walked(c, ref).key = c.key
      /\ Walked(c, ref).lists = c.lists /\ Walked(c, ref).fault = c.fault
  BY <1>1, <1>2, <1>3, WithSections
<1>5. /\ Found(c, ref) \in 0 .. Len(c.secs)
      /\ Found(c, ref) # 0 =>
           /\ Found(c, ref) = TargetOf(c.secs, ref)
           /\ ref.how = IF ByAlias(c) THEN "alias" ELSE "number"
  BY <1>1, FoundIs
<1>6. ASSUME Found(c, ref) # 0 PROVE t[Found(c, ref)].inst = InstNumbers(c.secs)[Found(c, ref)]
  <2>1. Found(c, ref) \in 1 .. Len(c.secs)
    BY <1>1, <1>5, <1>6, SectionsAre
  <2>2. t[Found(c, ref)].inst = Full(c.secs)[Found(c, ref)].inst
    BY <1>2, <1>6
  <2> QED
    BY <1>1, <2>1, <2>2, FullFields
<1> QED
  BY <1>2, <1>3, <1>4, <1>5, <1>6 DEF Ctxs

LEMMA Enters ==
    ASSUME NEW c \in Ctxs, NEW ref
    PROVE  /\ Enter(c, ref) \in Ctxs
           /\ Enter(c, ref).secs = c.secs /\ Enter(c, ref).s = c.s /\ Enter(c, ref).key = c.key
           /\ Enter(c, ref).lists = c.lists /\ Enter(c, ref).fault = c.fault
BY Entered DEF Ctxs

(* What the check of one entry guarantees, and all that it changes.        *)
Fits(cmd, e) ==
    cmd = "set" => e.name.leaf # "f" /\ (e.name.leaf = "a" \/ e.value \in Values)

LEMMA CheckedKeeps ==
    ASSUME NEW c \in Ctxs, NEW cmd, NEW e
    PROVE  LET d == Checked(cmd, c, e)
           IN  /\ d \in Ctxs /\ Like(c.secs, d.secs)
               /\ d.s = c.s /\ d.key = c.key /\ d.lists = c.lists
               /\ d.fault = 0 => c.fault = 0 /\ Fits(cmd, e)
<1> DEFINE ref == e.name.ref
           d == Enter(c, ref)
           w == IF ref = None THEN d ELSE Walked(d, ref)
           f == IF cmd = "set" THEN dm_entry_set_value_check(d, e)
                ELSE dm_entry_set_notification_check(d, e)
           g == IF f # 0 THEN f ELSE w.fault
           x == [w EXCEPT !.fault = g]
<1>0. c \in Context /\ Sound(c.secs) /\ Like(c.secs, c.secs) /\ c.fault \in Nat
  BY LikeItself DEF Ctxs, Context
<1>1. CASE cmd = "attributes" /\ c.fault # 0
  <2>1. Checked(cmd, c, e) = c
    BY <1>1 DEF Checked
  <2> QED
    BY <1>0, <1>1, <2>1
<1>2. CASE ~(cmd = "attributes" /\ c.fault # 0)
  <2>1. Checked(cmd, c, e) = x
    BY <1>2 DEF Checked
  <2>2. /\ d \in Ctxs /\ d.secs = c.secs /\ d.s = c.s /\ d.key = c.key
        /\ d.lists = c.lists /\ d.fault = c.fault
    BY Enters
  <2>3. /\ w \in Ctxs /\ Like(c.secs, w.secs) /\ w.s = c.s /\ w.key = c.key
        /\ w.lists = c.lists /\ w.fault = c.fault
    <3> HIDE DEF d
    <3>1. CASE ref = None
      BY <1>0, <2>2, <3>1
    <3>2. CASE ref # None
      <4>1. w = Walked(d, ref)
        BY <3>2
      <4> HIDE DEF w
      <4> QED
        BY <2>2, <4>1, Walks
    <3> QED
      BY <3>1, <3>2
  <2>4. f \in {0, 9003, 9005, 9007, 9008, 9009} /\ (f = 0 => Fits(cmd, e))
    <3> HIDE DEF d
    <3>1. CASE cmd = "set"
      <4>1. f = dm_entry_set_value_check(d, e)
        BY <3>1
      <4>2. CASE ~Known(d, e.name)
        BY <4>1, <4>2 DEF dm_entry_set_value_check
      <4>3. CASE Known(d, e.name) /\ e.name.leaf = "f"
        BY <4>1, <4>3 DEF dm_entry_set_value_check
      <4>4. CASE Known(d, e.name) /\ e.name.leaf # "f" /\ e.name.leaf # "a" /\ e.value \notin Values
        BY <4>1, <4>4 DEF dm_entry_set_value_check
      <4>5. CASE Known(d, e.name) /\ e.name.leaf # "f" /\ (e.name.leaf = "a" \/ e.value \in Values)
        <5>1. f = 0
          BY <4>1, <4>5 DEF dm_entry_set_value_check
        <5> QED
          BY <4>5, <5>1 DEF Fits
      <4> QED
        BY <4>2, <4>3, <4>4, <4>5
    <3>2. CASE cmd # "set"
      <4>1. f = dm_entry_set_notification_check(d, e) /\ Fits(cmd, e)
        BY <3>2 DEF Fits
      <4>2. f \in {0, 9003, 9005, 9009}
        <5> HIDE DEF f
        <5>1. CASE ~e.change
          BY <4>1, <5>1 DEF dm_entry_set_notification_check
        <5>2. CASE e.change /\ ~Known(d, e.name)
          BY <4>1, <5>2 DEF dm_entry_set_notification_check
        <5>3. CASE e.change /\ Known(d, e.name) /\ e.name.leaf = "f"
          BY <4>1, <5>3 DEF dm_entry_set_notification_check
        <5>4. CASE e.change /\ Known(d, e.name) /\ e.name.leaf # "f"
          BY <4>1, <5>4 DEF dm_entry_set_notification_check
        <5> QED
          BY <5>1, <5>2, <5>3, <5>4
      <4> QED
        BY <4>1, <4>2
    <3> QED
      BY <3>1, <3>2
  <2> HIDE DEF w, f
  <2>5. g \in Nat /\ (g = 0 => f = 0 /\ c.fault = 0)
    BY <1>0, <2>3, <2>4
  <2> HIDE DEF g
  <2>6. w \in Context /\ Sound(w.secs)
    BY <2>3 DEF Ctxs
  <2>7. /\ x \in Context /\ x.fault = g /\ x.s = w.s /\ x.key = w.key /\ x.lists = w.lists
        /\ x.secs = w.secs
    <3> DEFINE y == [w EXCEPT !.fault = g]
    <3>1. y = [w EXCEPT !.fault = g]
      OBVIOUS
    <3> HIDE DEF y
    <3>2. /\ y \in Context /\ y.fault = g /\ y.s = w.s /\ y.key = w.key /\ y.lists = w.lists
          /\ y.secs = w.secs
      BY <2>5, <2>6, <3>1, WithFault
    <3> QED
      BY <3>1, <3>2
  <2> HIDE DEF x
  <2> QED
    BY <2>1, <2>3, <2>4, <2>5, <2>6, <2>7 DEF Ctxs
<1> QED
  BY <1>1, <1>2

(* The contexts one after the other, one for each entry.                   *)
CheckRun(w, cmd, z, entries) ==
    /\ w[0] = z /\ dm_entry_param_method(cmd, z, entries) = w[Len(entries)]
    /\ \A i \in 1 .. Len(entries) : w[i] = Checked(cmd, w[i - 1], entries[i])

LEMMA CheckedRun ==
    ASSUME NEW z \in Ctxs, NEW cmd, NEW entries, Len(entries) \in Nat
    PROVE  \E w \in [0 .. Len(entries) -> Ctxs] : CheckRun(w, cmd, z, entries)
<1> DEFINE n == Len(entries)
           g == [i \in 1 .. n |-> [x \in Ctxs |-> Checked(cmd, x, entries[i])]]
           C == CHOOSE c : c = [i \in 0 .. Len(entries) |->
                  IF i = 0 THEN z ELSE Checked(cmd, c[i - 1], entries[i])]
<1>0. n \in Nat
  OBVIOUS
<1>1. g \in [1 .. n -> [Ctxs -> Ctxs]]
  <2>1. \A i \in 1 .. n, x \in Ctxs : Checked(cmd, x, entries[i]) \in Ctxs
    BY CheckedKeeps
  <2> HIDE DEF n
  <2> QED
    BY <2>1
<1>2. \A i \in 1 .. n, x \in Ctxs : g[i][x] = Checked(cmd, x, entries[i])
  OBVIOUS
<1>7. dm_entry_param_method(cmd, z, entries) = C[n]
  BY DEF dm_entry_param_method
<1> HIDE DEF g, n
<1>3. PICK w \in [0 .. n -> Ctxs] : w[0] = z /\ \A i \in 1 .. n : w[i] = g[i][w[i - 1]]
  <2> DEFINE D == Ctxs
  <2>1. z \in D /\ g \in [1 .. n -> [D -> D]]
    BY <1>1
  <2> HIDE DEF D
  <2>2. \E w \in [0 .. n -> D] : w[0] = z /\ \A i \in 1 .. n : w[i] = g[i][w[i - 1]]
    BY ONLY <1>0, <2>1, Iterated, SMTT(30)
  <2> QED
    BY <2>2 DEF D
<1>4. ASSUME NEW i \in 1 .. n PROVE w[i] = Checked(cmd, w[i - 1], entries[i])
  <2>1. w[i - 1] \in Ctxs
    BY <1>0, <1>3
  <2> QED
    BY <1>2, <1>3, <2>1
<1>5. w = [i \in 0 .. n |-> IF i = 0 THEN z ELSE Checked(cmd, w[i - 1], entries[i])]
  <2>1. ASSUME NEW i \in 0 .. n
        PROVE  w[i] = IF i = 0 THEN z ELSE Checked(cmd, w[i - 1], entries[i])
    <3>1. i = 0 \/ i \in 1 .. n
      OBVIOUS
    <3> QED
      BY <1>3, <1>4, <3>1
  <2> QED
    BY <2>1, <1>3
<1>6. C = [i \in 0 .. n |-> IF i = 0 THEN z ELSE Checked(cmd, C[i - 1], entries[i])]
  BY <1>5, Zenon DEF n
<1> HIDE DEF C
<1>8. \A i \in 0 .. n : C[i] = w[i]
  <2> DEFINE S == {i \in 0 .. n : C[i] = w[i]}
  <2>1. 0 \in S
    BY <1>0, <1>3, <1>6
  <2>2. ASSUME NEW i \in 1 .. n, i - 1 \in S PROVE i \in S
    <3>1. C[i - 1] = w[i - 1] /\ i \in 0 .. n /\ i # 0
      BY <2>2
    <3>2. C[i] = Checked(cmd, C[i - 1], entries[i])
      BY <1>6, <3>1
    <3> QED
      BY <1>4, <3>1, <3>2
  <2> HIDE DEF S
  <2>3. \A i \in 0 .. n : i \in S
    BY <1>0, <2>1, <2>2, UpTo
  <2> QED
    BY <2>3 DEF S
<1>9. dm_entry_param_method(cmd, z, entries) = w[n]
  BY <1>0, <1>7, <1>8
<1>10. CheckRun(w, cmd, z, entries)
  BY <1>3, <1>4, <1>9 DEF n, CheckRun
<1>11. w \in [0 .. Len(entries) -> Ctxs]
  BY <1>3 DEF n
<1> QED
  BY <1>10, <1>11

LEMMA CheckedAll ==
    ASSUME NEW z \in Ctxs, NEW cmd, NEW entries, Len(entries) \in Nat
    PROVE  LET c == dm_entry_param_method(cmd, z, entries)
           IN  /\ c \in Ctxs /\ Like(z.secs, c.secs)
               /\ c.s = z.s /\ c.key = z.key /\ c.lists = z.lists
               /\ c.fault = 0 => \A i \in 1 .. Len(entries) : Fits(cmd, entries[i])
<1>10. PICK w \in [0 .. Len(entries) -> Ctxs] : CheckRun(w, cmd, z, entries)
  BY CheckedRun
<1> DEFINE n == Len(entries)
<1>1. /\ w \in [0 .. n -> Ctxs]
      /\ w[0] = z /\ dm_entry_param_method(cmd, z, entries) = w[n]
      /\ \A i \in 1 .. n : w[i] = Checked(cmd, w[i - 1], entries[i])
  BY <1>10 DEF CheckRun
<1>0. n \in Nat
  OBVIOUS
<1> HIDE DEF n
<1> DEFINE Good(i) == /\ Like(z.secs, w[i].secs)
                      /\ w[i].s = z.s /\ w[i].key = z.key /\ w[i].lists = z.lists
                      /\ w[i].fault = 0 => \A j \in 1 .. i : Fits(cmd, entries[j])
           S == {i \in 0 .. n : Good(i)}
<1>2. 0 \in S
  <2>1. Like(z.secs, z.secs)
    BY LikeItself DEF Ctxs
  <2> QED
    BY <1>0, <1>1, <2>1
<1>3. ASSUME NEW i \in 1 .. n, i - 1 \in S PROVE i \in S
  <2> DEFINE c == w[i - 1]
             d == w[i]
             e == entries[i]
  <2>1. c \in Ctxs /\ d = Checked(cmd, c, e)
    BY <1>0, <1>1
  <2>2. Good(i - 1)
    BY <1>3
  <2> HIDE DEF c, d, e
  <2>3. /\ Like(c.secs, d.secs) /\ d.s = c.s /\ d.key = c.key /\ d.lists = c.lists
        /\ d.fault = 0 => c.fault = 0 /\ Fits(cmd, e)
    BY <2>1, CheckedKeeps
  <2>4. Like(z.secs, d.secs)
    BY <2>2, <2>3, LikeAgain DEF c
  <2>5. ASSUME d.fault = 0 PROVE \A j \in 1 .. i : Fits(cmd, entries[j])
    <3>1. \A j \in 1 .. i - 1 : Fits(cmd, entries[j])
      BY <2>2, <2>3, <2>5 DEF c
    <3>2. Fits(cmd, entries[i])
      BY <2>3, <2>5 DEF e
    <3>3. \A j \in 1 .. i : j = i \/ j \in 1 .. i - 1
      BY <1>0
    <3> QED
      BY <3>1, <3>2, <3>3
  <2> QED
    BY <2>2, <2>3, <2>4, <2>5 DEF c, d
<1>4. n \in S
  <2> HIDE DEF S
  <2>1. \A i \in 0 .. n : i \in S
    BY <1>0, <1>2, <1>3, UpTo
  <2> QED
    BY <1>0, <2>1
<1>5. Good(n) /\ w[n] \in Ctxs
  BY <1>0, <1>1, <1>4
<1> QED
  BY <1>1, <1>5 DEF n

-----------------------------------------------------------------------------
(***************************************************************************)
(* What applying an entry changes.                                         *)
(***************************************************************************)

(* A section is written: its value, or an alias of the ACS.                *)
LEMMA Rewritten ==
    ASSUME NEW t, Sound(t), NEW at \in 1 .. Len(t), NEW x \in Section,
           x.inst = t[at].inst, x.alias \in {t[at].alias, Custom}
    PROVE  LET u == [t EXCEPT ![at] = x]
           IN  /\ Sound(u) /\ Len(u) = Len(t) /\ InstNumbers(u) = InstNumbers(t)
               /\ \A i \in 1 .. Len(t) : u[i] = IF i = at THEN x ELSE t[i]
<1> DEFINE n == Len(t)
           u == [t EXCEPT ![at] = x]
<1>1. /\ n \in Nat /\ t \in Seq(Section) /\ DOMAIN t = 1 .. n
      /\ \A i \in 1 .. n : t[i] \in Section
      /\ \A i \in 1 .. n : t[i].alias \in {0, Custom, t[i].inst}
  BY SectionsAre DEF Sound, Aliased
<1> HIDE DEF n
<1>2. \A i \in 1 .. n : u[i] = IF i = at THEN x ELSE t[i]
  BY <1>1
<1>3. u \in Seq(Section) /\ Len(u) = n
  <2>1. u = [i \in 1 .. n |-> u[i]]
    BY <1>1
  <2>2. \A i \in 1 .. n : u[i] \in Section
    BY <1>1, <1>2
  <2> QED
    BY <1>1, <2>1, <2>2, SequenceOf
<1>4. \A i \in 1 .. n : u[i].inst = t[i].inst
  BY <1>2
<1>5. \A i \in 1 .. n : u[i].alias \in {0, Custom, u[i].inst}
  BY <1>1, <1>2
<1>6. InstNumbers(u) = InstNumbers(t)
  <2>1. \A i \in 1 .. Len(t) : u[i].inst \in {t[i].inst, InstNumbers(t)[i]}
    BY <1>4 DEF n
  <2>2. Len(u) = Len(t)
    BY <1>3 DEF n
  <2> QED
    BY <1>1, <1>3, <2>1, <2>2, SameNumbers
<1>7. Ordered(u)
  <2>1. \A i, j \in 1 .. n : i < j /\ t[j].inst # 0 => 0 < t[i].inst /\ t[i].inst < t[j].inst
    BY DEF Sound, Ordered, n
  <2> QED
    BY <1>3, <1>4, <2>1 DEF Ordered
<1> QED
  BY <1>2, <1>3, <1>5, <1>6, <1>7 DEF Sound, Aliased, n

(* The requests of SetParameterValues: a value, or an alias of the ACS.    *)
Setting(e) == e.name \in ParamName /\ (e.name.leaf = "a" => e.value = Custom)

LEMMA SettingIs ==
    ASSUME NEW e, Setting(e), Fits("set", e)
    PROVE  \/ e.name.ref = None /\ e.name.leaf = "s" /\ e.value \in Values
           \/ e.name.ref # None /\ e.name.leaf = "v" /\ e.value \in Values
           \/ e.name.ref # None /\ e.name.leaf = "a" /\ e.value = Custom
<1>1. e.name \in ParamName /\ e.name.leaf # "f" /\ (e.name.leaf = "a" \/ e.value \in Values)
      /\ (e.name.leaf = "a" => e.value = Custom)
  BY DEF Setting, Fits
<1>2. None \notin Ref
  <2>1. None.how = "none"
    BY DEF None
  <2>2. \A r \in Ref : r.how \in {"number", "alias"}
    BY DEF Ref
  <2> QED
    BY <2>1, <2>2
<1>3. \/ e.name.ref \in Ref /\ e.name.leaf \in {"v", "a"}
      \/ e.name.ref = None /\ e.name.leaf \in {"s", "f"}
  BY <1>1 DEF ParamName
<1> QED
  BY <1>1, <1>2, <1>3

(* What one entry of SetParameterValues changes, when it is applied.       *)
Sets(c, d, e) ==
    /\ d.s = IF e.name.leaf = "s" THEN e.value ELSE c.s
    /\ \A i \in 1 .. Len(c.secs) :
         LET at == TargetOf(c.secs, e.name.ref)
         IN  /\ d.secs[i].v = IF e.name.leaf = "v" /\ i = at THEN e.value ELSE c.secs[i].v
             /\ Full(d.secs)[i].alias =
                  IF e.name.leaf = "a" /\ i = at THEN Custom ELSE Full(c.secs)[i].alias
    /\ e.name.leaf # "s" => TargetOf(c.secs, e.name.ref) \in 1 .. Len(c.secs)

LEMMA SectionSet ==
    ASSUME NEW c \in Ctxs, NEW e, Setting(e), Fits("set", e), e.name.ref # None,
           Known(c, e.name), c.fault = 0
    PROVE  LET d == dm_entry_set_value(c, e)
           IN  /\ d \in Ctxs /\ d.key = c.key /\ d.lists = c.lists /\ d.fault = c.fault
               /\ Len(d.secs) = Len(c.secs) /\ InstNumbers(d.secs) = InstNumbers(c.secs)
               /\ Sets(c, d, e)
<1> DEFINE ref == e.name.ref
           w == Walked(c, ref)
           at == Found(c, ref)
           t == w.secs
           y == e.value
           d == dm_entry_set_value(c, e)
<1>1. /\ w \in Ctxs /\ Like(c.secs, t) /\ w.s = c.s /\ w.key = c.key
      /\ w.lists = c.lists /\ w.fault = c.fault
      /\ at \in 0 .. Len(c.secs)
      /\ at # 0 => at = TargetOf(c.secs, ref) /\ t[at].inst = InstNumbers(c.secs)[at]
  <2> HIDE DEF ref
  <2> QED
    BY Walks
<1>2. at # 0
  BY DEF Known
<1>3. /\ Sound(c.secs) /\ c.secs \in Seq(Section) /\ Len(c.secs) \in Nat
      /\ Sound(t) /\ t \in Seq(Section) /\ Len(t) = Len(c.secs)
      /\ InstNumbers(t) = InstNumbers(c.secs) /\ Full(t) = Full(c.secs)
  BY <1>1, SectionsAre DEF Ctxs, Like, Sound
<1>4. \/ e.name.leaf = "v" /\ y \in Values
      \/ e.name.leaf = "a" /\ y = Custom
  BY SettingIs
<1>5. at \in 1 .. Len(t) /\ at = TargetOf(c.secs, ref)
  BY <1>1, <1>2, <1>3
<1>6. /\ t[at].inst \in Nat /\ t[at].alias \in Nat \union {Custom} /\ t[at].v \in Values
      /\ t[at] = [inst |-> t[at].inst, alias |-> t[at].alias, v |-> t[at].v]
  <2> HIDE DEF t, at
  <2>1. t[at] \in Section
    BY <1>3, <1>5, SectionsAre
  <2> QED
    BY <2>1 DEF Section
<1> DEFINE x == [inst |-> t[at].inst,
                 alias |-> IF e.name.leaf = "a" THEN y ELSE t[at].alias,
                 v |-> IF e.name.leaf = "a" THEN t[at].v ELSE y]
           u == [t EXCEPT ![at] = x]
<1>7. d = [w EXCEPT !.secs = u]
  <2>1. CASE e.name.leaf = "v"
    <3>1. d = [w EXCEPT !.secs[at].v = y]
      BY <2>1 DEF dm_entry_set_value
    <3>2. x = [t[at] EXCEPT !.v = y]
      <4> DEFINE p == t[at]
      <4>1. p = [inst |-> p.inst, alias |-> p.alias, v |-> p.v]
        BY <1>6
      <4>2. x = [inst |-> p.inst, alias |-> p.alias, v |-> y]
        BY <2>1
      <4> HIDE DEF p, x
      <4>3. x = [p EXCEPT !.v = y]
        BY <4>1, <4>2
      <4> QED
        BY <4>3 DEF p
    <3> HIDE DEF w, at, y, d, x
    <3> QED
      BY <3>1, <3>2
  <2>2. CASE e.name.leaf = "a"
    <3>1. d = [w EXCEPT !.secs[at].alias = y]
      BY <2>2 DEF dm_entry_set_value
    <3>2. x = [t[at] EXCEPT !.alias = y]
      <4> DEFINE p == t[at]
      <4>1. p = [inst |-> p.inst, alias |-> p.alias, v |-> p.v]
        BY <1>6
      <4>2. x = [inst |-> p.inst, alias |-> y, v |-> p.v]
        BY <2>2
      <4> HIDE DEF p, x
      <4>3. x = [p EXCEPT !.alias = y]
        BY <4>1, <4>2
      <4> QED
        BY <4>3 DEF p
    <3> HIDE DEF w, at, y, d, x
    <3> QED
      BY <3>1, <3>2
  <2> QED
    BY <1>4, <2>1, <2>2
<1>8. x \in Section /\ x.inst = t[at].inst /\ x.alias \in {t[at].alias, Custom}
      /\ x.alias = (IF e.name.leaf = "a" THEN y ELSE t[at].alias)
      /\ x.v = (IF e.name.leaf = "a" THEN t[at].v ELSE y)
  <2> HIDE DEF t, at, y
  <2>1. CASE e.name.leaf = "v"
    BY <1>4, <1>6, <2>1 DEF Section
  <2>2. CASE e.name.leaf = "a"
    BY <1>4, <1>6, <2>2 DEF Section
  <2> QED
    BY <1>4, <2>1, <2>2
<1>9. /\ Sound(u) /\ Len(u) = Len(t) /\ InstNumbers(u) = InstNumbers(t)
      /\ \A i \in 1 .. Len(t) : u[i] = IF i = at THEN x ELSE t[i]
  <2> HIDE DEF t, at, x
  <2>2. /\ Sound(t) /\ at \in 1 .. Len(t) /\ x \in Section
        /\ x.inst = t[at].inst /\ x.alias \in {t[at].alias, Custom}
    BY <1>3, <1>5, <1>8
  <2> QED
    BY <2>2, Rewritten
<1> HIDE DEF u, x
<1>10. /\ d \in Ctxs /\ d.secs = u /\ d.s = c.s /\ d.key = c.key /\ d.lists = c.lists
       /\ d.fault = c.fault
  <2>1. w \in Context /\ u \in Seq(Section)
    BY <1>1, <1>9 DEF Ctxs, Sound
  <2> HIDE DEF w, d
  <2>2. /\ d \in Context /\ d.secs = u /\ d.s = w.s /\ d.key = w.key /\ d.lists = w.lists
        /\ d.fault = w.fault
    BY <1>7, <2>1, WithSections
  <2> QED
    BY <1>1, <1>9, <2>2 DEF Ctxs
<1>11. ASSUME NEW i \in 1 .. Len(c.secs)
       PROVE  /\ u[i].v = IF e.name.leaf = "v" /\ i = at THEN y ELSE c.secs[i].v
              /\ Full(u)[i].alias =
                   IF e.name.leaf = "a" /\ i = at THEN Custom ELSE Full(c.secs)[i].alias
  <2> DEFINE N == InstNumbers(c.secs)
             s == c.secs
  <2>1. Full(t)[i].alias = (IF t[i].alias = 0 THEN N[i] ELSE t[i].alias) /\ t[i].v = s[i].v
    <3>1. Full(t)[i].v = t[i].v /\ Full(s)[i].v = s[i].v
          /\ Full(t)[i].alias = IF t[i].alias = 0 THEN InstNumbers(t)[i] ELSE t[i].alias
      <4> HIDE DEF t, s
      <4> QED
        BY <1>3, FullFields DEF s
    <3> QED
      BY <1>3, <3>1
  <2>2. Full(u)[i].alias = IF u[i].alias = 0 THEN N[i] ELSE u[i].alias
    <3>1. u \in Seq(Section) /\ Len(u) = Len(s) /\ InstNumbers(u) = N
      BY <1>3, <1>9 DEF Sound
    <3> HIDE DEF s, N
    <3>2. i \in 1 .. Len(u)
      BY <3>1 DEF s
    <3> QED
      BY <3>1, <3>2, FullFields
  <2>3. u[i] = IF i = at THEN x ELSE t[i]
    BY <1>3, <1>9
  <2> HIDE DEF t, at, y, N, s
  <2>4. CASE i # at
    <3>1. u[i] = t[i]
      BY <2>3, <2>4
    <3> QED
      BY <1>3, <2>1, <2>2, <2>4, <3>1 DEF s
  <2>5. CASE i = at /\ e.name.leaf = "v"
    <3>1. u[i].v = y /\ u[i].alias = t[i].alias
      BY <1>8, <2>3, <2>5
    <3>2. Full(u)[i].alias = Full(c.secs)[i].alias
      BY <1>3, <2>1, <2>2, <3>1
    <3> QED
      BY <2>5, <3>1, <3>2
  <2>6. CASE i = at /\ e.name.leaf = "a"
    <3>1. u[i].alias = Custom /\ u[i].v = t[i].v
      BY <1>4, <1>8, <2>3, <2>6
    <3>2. Full(u)[i].alias = Custom
      BY <2>2, <3>1 DEF Custom
    <3> QED
      BY <2>1, <2>6, <3>1, <3>2 DEF s
  <2> QED
    BY <1>4, <2>4, <2>5, <2>6
<1>12. Sets(c, d, e)
  <2>1. e.name.leaf # "s"
    BY <1>4
  <2> HIDE DEF d, t, w
  <2> QED
    BY <1>3, <1>5, <1>10, <1>11, <2>1 DEF Sets
<1> QED
  BY <1>3, <1>9, <1>10, <1>12

LEMMA AppliedSets ==
    ASSUME NEW c \in Ctxs, NEW e, Setting(e), Fits("set", e)
    PROVE  LET d == Applied("set", c, e)
           IN  /\ d \in Ctxs /\ d.key = c.key /\ d.lists = c.lists
               /\ Len(d.secs) = Len(c.secs) /\ InstNumbers(d.secs) = InstNumbers(c.secs)
               /\ d.fault = 0 => c.fault = 0 /\ Sets(c, d, e)
<1> DEFINE d == Applied("set", c, e)
<1>0. c \in Context /\ Sound(c.secs)
  BY DEF Ctxs
<1>1. CASE c.fault # 0
  <2>1. d = c
    BY <1>1 DEF Applied
  <2> QED
    BY <1>1, <2>1
<1>2. CASE c.fault = 0 /\ ~Known(c, e.name)
  <2> DEFINE x == [c EXCEPT !.fault = 9005]
  <2>1. d = x
    BY <1>2 DEF Applied
  <2>3. 9005 \in Nat /\ x = [c EXCEPT !.fault = 9005]
    OBVIOUS
  <2> HIDE DEF x, d
  <2>2. /\ x \in Context /\ x.fault = 9005 /\ x.key = c.key /\ x.lists = c.lists
        /\ x.secs = c.secs
    BY <1>0, <2>3, WithFault
  <2> QED
    BY <1>0, <2>1, <2>2 DEF Ctxs, d
<1>3. CASE c.fault = 0 /\ Known(c, e.name)
  <2>1. d = dm_entry_set_value(c, e)
    BY <1>3 DEF Applied
  <2>2. CASE e.name.ref # None
    <3> HIDE DEF d
    <3>1. LET x == dm_entry_set_value(c, e)
          IN  /\ x \in Ctxs /\ x.key = c.key /\ x.lists = c.lists /\ x.fault = c.fault
              /\ Len(x.secs) = Len(c.secs) /\ InstNumbers(x.secs) = InstNumbers(c.secs)
              /\ Sets(c, x, e)
      BY <1>3, <2>2, SectionSet
    <3> QED
      BY <1>3, <2>1, <3>1 DEF d
  <2>3. CASE e.name.ref = None
    <3>1. e.name.leaf = "s" /\ e.value \in Values
      BY <2>3, SettingIs
    <3> DEFINE x == [c EXCEPT !.s = e.value]
    <3>2. d = x
      BY <2>1, <3>1 DEF dm_entry_set_value
    <3>3. /\ x \in Context /\ x.s = e.value /\ x.key = c.key /\ x.lists = c.lists
          /\ x.secs = c.secs /\ x.fault = c.fault
      BY <1>0, <3>1, WithScalar
    <3> HIDE DEF x, d
    <3>4. Sets(c, x, e)
      BY <3>1, <3>3 DEF Sets
    <3> QED
      BY <1>0, <1>3, <3>2, <3>3, <3>4 DEF Ctxs, d
  <2> QED
    BY <2>2, <2>3
<1> QED
  BY <1>1, <1>2, <1>3

(* The requests of SetParameterAttributes.                                 *)
Noting(e) == e.name \in ParamName \union ObjName /\ e.value \in 0 .. 6

LEMMA ListsSet ==
    ASSUME NEW l \in Listing, NEW p \in Paths, NEW x \in 0 .. 6
    PROVE  set_parameter_notification(l, p, x) \in Listing
<1> DEFINE r == remove_parameter_notification(l, p)
           u == [r EXCEPT ![x] = @ \union {p}]
<1>1. r \in Listing
  BY DEF remove_parameter_notification, Listing
<1> HIDE DEF r
<1>2. u \in Listing
  BY <1>1 DEF Listing
<1>3. set_parameter_notification(l, p, x) \in {r, u}
  BY DEF set_parameter_notification, r
<1> HIDE DEF u
<1> QED
  BY <1>1, <1>2, <1>3

LEMMA TuplesAre ==
    ASSUME NEW S, NEW a \in S, NEW b \in S, NEW c \in S
    PROVE  /\ <<a>> \in Seq(S) /\ Len(<<a>>) = 1
           /\ <<a, b>> \in Seq(S) /\ Len(<<a, b>>) = 2
           /\ <<a, b, c>> \in Seq(S) /\ Len(<<a, b, c>>) = 3
OBVIOUS

LEMMA ShortSequence ==
    ASSUME NEW p \in Seq(Word), Len(p) \in 1 .. 3
    PROVE  p \in Paths
BY DEF Paths

LEMMA PathIs ==
    ASSUME NEW n \in Nat, NEW leaf \in Word
    PROVE  Path(n, leaf) \in Paths /\ Scalar(leaf) \in Paths
<1>1. "T" \in Word /\ ToString(n) \in Word
  BY DEF Word
<1> DEFINE x == ToString(n)
           y == "T"
<1> HIDE DEF x, y
<1>2. y \in Word /\ leaf \in Word /\ x \in Word
  BY <1>1 DEF x, y
<1> DEFINE a == <<y, leaf>>
           b == <<y, x, leaf>>
           c == <<leaf>>
<1>3. a \in Seq(Word) /\ Len(a) = 2 /\ b \in Seq(Word) /\ Len(b) = 3
      /\ c \in Seq(Word) /\ Len(c) = 1
  BY <1>2, TuplesAre
<1> HIDE DEF a, b, c
<1>4. a \in Paths /\ b \in Paths /\ c \in Paths
  <2>1. Len(a) \in 1 .. 3 /\ Len(b) \in 1 .. 3 /\ Len(c) \in 1 .. 3
    BY <1>3
  <2> QED
    BY <1>3, <2>1, ShortSequence
<1>5. Path(n, leaf) \in {a, b} /\ Scalar(leaf) = c
  BY DEF Path, Scalar, x, y, a, b, c
<1> QED
  BY <1>4, <1>5

LEMMA NotingIs ==
    ASSUME NEW e, Noting(e)
    PROVE  e.name.leaf \in Word /\ e.value \in 0 .. 6
<1>1. e.name \in ParamName \union ObjName /\ e.value \in 0 .. 6
  BY DEF Noting
<1>2. \A x \in ParamName \union ObjName : x.leaf \in {"", "v", "a", "s", "f"}
  BY DEF ParamName, ObjName
<1>3. {"", "v", "a", "s", "f"} \subseteq Word
  BY DEF Word
<1> QED
  BY <1>1, <1>2, <1>3

LEMMA AppliedNotes ==
    ASSUME NEW c \in Ctxs, NEW e, Noting(e)
    PROVE  LET d == Applied("attributes", c, e)
               p == NamedPath(c.secs, e.name)
           IN  /\ d \in Ctxs /\ d.key = c.key /\ d.s = c.s /\ Like(c.secs, d.secs)
               /\ d.fault = 0 =>
                    /\ c.fault = 0 /\ p \in Paths
                    /\ d.lists = set_parameter_notification(c.lists, p, e.value)
<1> DEFINE d == Applied("attributes", c, e)
           p == NamedPath(c.secs, e.name)
           ref == e.name.ref
           leaf == e.name.leaf
<1>0. c \in Context /\ Sound(c.secs) /\ Like(c.secs, c.secs) /\ c.secs \in Seq(Section)
  BY LikeItself DEF Ctxs, Sound
<1>1. CASE c.fault # 0
  <2>1. d = c
    BY <1>1 DEF Applied
  <2> QED
    BY <1>0, <1>1, <2>1
<1>2. CASE c.fault = 0 /\ ~Known(c, e.name)
  <2> DEFINE z == 9005
             x == [c EXCEPT !.fault = z]
  <2>1. d = x /\ z \in Nat /\ z # 0
    BY <1>2 DEF Applied
  <2> HIDE DEF z, d
  <2>2. x = [c EXCEPT !.fault = z]
    OBVIOUS
  <2> HIDE DEF x
  <2>3. x \in Context /\ x.fault = z
    BY <1>0, <2>1, <2>2, WithFault
  <2>4. x.key = c.key /\ x.lists = c.lists /\ x.secs = c.secs /\ x.s = c.s
    BY <1>0, <2>1, <2>2, WithFault
  <2> QED
    BY <1>0, <2>1, <2>3, <2>4 DEF Ctxs, d
<1>3. CASE c.fault = 0 /\ Known(c, e.name)
  <2> DEFINE w == IF ref = None THEN c ELSE Walked(c, ref)
             q == PathOf(c, e.name)
             l == set_parameter_notification(w.lists, q, e.value)
  <2>1. d = [w EXCEPT !.lists = l]
    BY <1>3 DEF Applied, dm_entry_set_notification
  <2>2. leaf \in Word /\ e.value \in 0 .. 6
    BY NotingIs
  <2>3. /\ w \in Ctxs /\ Like(c.secs, w.secs) /\ w.s = c.s /\ w.key = c.key
        /\ w.lists = c.lists /\ w.fault = c.fault
    <3>1. CASE ref = None
      BY <1>0, <3>1
    <3>2. CASE ref # None
      <4>1. w = Walked(c, ref)
        BY <3>2
      <4> HIDE DEF w, ref
      <4> QED
        BY <4>1, Walks
    <3> QED
      BY <3>1, <3>2
  <2>4. q = p /\ p \in Paths
    <3>1. CASE ref = None
      <4>1. 0 \in Nat /\ q = (IF leaf = "" THEN Path(0, "") ELSE Scalar(leaf)) /\ p = q
        BY <3>1 DEF PathOf, NamedPath
      <4> HIDE DEF q, leaf, p
      <4> QED
        BY <2>2, <4>1, PathIs
    <3>2. CASE ref # None
      <4> DEFINE at == Found(c, ref)
                 n == Walked(c, ref).secs[at].inst
                 m == Full(c.secs)[TargetOf(c.secs, ref)].inst
      <4>1. at # 0
        BY <1>3, <3>2 DEF Known
      <4>2. q = Path(n, leaf) /\ p = Path(m, leaf)
        BY <3>2 DEF PathOf, NamedPath
      <4>3. n = m /\ n \in Nat
        <5>1. at \in 0 .. Len(c.secs) /\ at = TargetOf(c.secs, ref)
              /\ n = InstNumbers(c.secs)[at]
          <6> HIDE DEF ref
          <6> QED
            BY <4>1, Walks
        <5>2. at \in 1 .. Len(c.secs)
          BY <1>0, <4>1, <5>1, SectionsAre
        <5> HIDE DEF at, n
        <5>3. Full(c.secs)[at].inst = InstNumbers(c.secs)[at] /\ InstNumbers(c.secs)[at] \in Nat
          BY <1>0, <5>2, FullFields, NumbersAre
        <5> QED
          BY <5>1, <5>3
      <4> HIDE DEF n, m, q, p, leaf
      <4> QED
        BY <2>2, <4>2, <4>3, PathIs
    <3> QED
      BY <3>1, <3>2
  <2>5. l \in Listing
    <3>1. w.lists \in Listing
      BY <2>3 DEF Ctxs, Context
    <3> HIDE DEF w, q
    <3> QED
      BY <2>2, <2>4, <3>1, ListsSet
  <2>6. l = set_parameter_notification(c.lists, p, e.value)
    <3> HIDE DEF w, q, p
    <3> QED
      BY <2>3, <2>4
  <2> HIDE DEF l, w, d, p
  <2>7. /\ d \in Context /\ d.lists = l /\ d.s = w.s /\ d.key = w.key /\ d.fault = w.fault
        /\ d.secs = w.secs
    <3>1. w \in Context
      BY <2>3 DEF Ctxs
    <3> QED
      BY <2>1, <2>5, <3>1, WithLists
  <2> QED
    BY <1>3, <2>3, <2>4, <2>6, <2>7 DEF Ctxs, d, p
<1> QED
  BY <1>1, <1>2, <1>3

ApplyRun(w, cmd, z, entries) ==
    /\ w[0] = z /\ dm_entry_apply(cmd, z, entries) = w[Len(entries)]
    /\ \A i \in 1 .. Len(entries) : w[i] = Applied(cmd, w[i - 1], entries[i])

LEMMA AppliedRun ==
    ASSUME NEW z \in Ctxs, NEW cmd, NEW entries, Len(entries) \in Nat,
           \A i \in 1 .. Len(entries), x \in Ctxs : Applied(cmd, x, entries[i]) \in Ctxs
    PROVE  \E w \in [0 .. Len(entries) -> Ctxs] : ApplyRun(w, cmd, z, entries)
<1> DEFINE n == Len(entries)
           g == [i \in 1 .. n |-> [x \in Ctxs |-> Applied(cmd, x, entries[i])]]
           C == CHOOSE c : c = [i \in 0 .. Len(entries) |->
                  IF i = 0 THEN z ELSE Applied(cmd, c[i - 1], entries[i])]
<1>0. n \in Nat
  OBVIOUS
<1>1. g \in [1 .. n -> [Ctxs -> Ctxs]]
  <2>1. \A i \in 1 .. n, x \in Ctxs : Applied(cmd, x, entries[i]) \in Ctxs
    OBVIOUS
  <2> HIDE DEF n
  <2> QED
    BY <2>1
<1>2. \A i \in 1 .. n, x \in Ctxs : g[i][x] = Applied(cmd, x, entries[i])
  OBVIOUS
<1>7. dm_entry_apply(cmd, z, entries) = C[n]
  BY DEF dm_entry_apply
<1> HIDE DEF g, n
<1>3. PICK w \in [0 .. n -> Ctxs] : w[0] = z /\ \A i \in 1 .. n : w[i] = g[i][w[i - 1]]
  <2> DEFINE D == Ctxs
  <2>1. z \in D /\ g \in [1 .. n -> [D -> D]]
    BY <1>1
  <2> HIDE DEF D
  <2>2. \E w \in [0 .. n -> D] : w[0] = z /\ \A i \in 1 .. n : w[i] = g[i][w[i - 1]]
    BY ONLY <1>0, <2>1, Iterated, SMTT(30)
  <2> QED
    BY <2>2 DEF D
<1>4. ASSUME NEW i \in 1 .. n PROVE w[i] = Applied(cmd, w[i - 1], entries[i])
  <2>1. w[i - 1] \in Ctxs
    BY <1>0, <1>3
  <2> QED
    BY <1>2, <1>3, <2>1
<1>5. w = [i \in 0 .. n |-> IF i = 0 THEN z ELSE Applied(cmd, w[i - 1], entries[i])]
  <2>1. ASSUME NEW i \in 0 .. n
        PROVE  w[i] = IF i = 0 THEN z ELSE Applied(cmd, w[i - 1], entries[i])
    <3>1. i = 0 \/ i \in 1 .. n
      OBVIOUS
    <3> QED
      BY <1>3, <1>4, <3>1
  <2> QED
    BY <2>1, <1>3
<1>6. C = [i \in 0 .. n |-> IF i = 0 THEN z ELSE Applied(cmd, C[i - 1], entries[i])]
  BY <1>5, Zenon DEF n
<1> HIDE DEF C
<1>8. \A i \in 0 .. n : C[i] = w[i]
  <2> DEFINE S == {i \in 0 .. n : C[i] = w[i]}
  <2>1. 0 \in S
    BY <1>0, <1>3, <1>6
  <2>2. ASSUME NEW i \in 1 .. n, i - 1 \in S PROVE i \in S
    <3>1. C[i - 1] = w[i - 1] /\ i \in 0 .. n /\ i # 0
      BY <2>2
    <3>2. C[i] = Applied(cmd, C[i - 1], entries[i])
      BY <1>6, <3>1
    <3> QED
      BY <1>4, <3>1, <3>2
  <2> HIDE DEF S
  <2>3. \A i \in 0 .. n : i \in S
    BY <1>0, <2>1, <2>2, UpTo
  <2> QED
    BY <2>3 DEF S
<1>9. dm_entry_apply(cmd, z, entries) = w[n]
  BY <1>0, <1>7, <1>8
<1>10. ApplyRun(w, cmd, z, entries)
  BY <1>3, <1>4, <1>9 DEF n, ApplyRun
<1>11. w \in [0 .. Len(entries) -> Ctxs]
  BY <1>3 DEF n
<1> QED
  BY <1>10, <1>11

(* The last entry of those that apply.                                     *)
LEMMA LastIs ==
    ASSUME NEW entries, NEW k \in Nat \ {0}, NEW at \in SUBSET (1 .. k - 1), NEW else
    PROVE  LastOf(entries, at \union {k}, else) = entries[k].value
<1> DEFINE S == at \union {k}
<1>1. k \in S /\ \A y \in S : y \in Nat /\ k >= y
  OBVIOUS
<1> HIDE DEF S
<1>2. Max(S) = k
  <2>1. \E x \in S : \A y \in S : x >= y
    BY <1>1
  <2>2. Max(S) \in S /\ \A y \in S : Max(S) >= y
    BY <2>1, Zenon DEF Max
  <2> DEFINE m == Max(S)
  <2>3. m \in S /\ m >= k
    BY <1>1, <2>2
  <2> HIDE DEF m
  <2>4. m = k
    BY <1>1, <2>3
  <2> QED
    BY <2>4 DEF m
<1> QED
  BY <1>1, <1>2 DEF LastOf, S

(* A name stands for the same instance while aliases are only given, and   *)
(* the one that it uses is not.                                            *)
LEMMA SameTarget ==
    ASSUME NEW z, NEW t, Sound(z), Sound(t), Len(t) = Len(z), InstNumbers(t) = InstNumbers(z),
           \A i \in 1 .. Len(z) : Full(t)[i].alias \in {Full(z)[i].alias, Custom},
           NEW ref \in Ref, TargetOf(t, ref) \in 1 .. Len(z),
           ref = [how |-> "alias", n |-> Custom] =>
             \A i \in 1 .. Len(z) : Full(t)[i].alias = Full(z)[i].alias
    PROVE  TargetOf(t, ref) = TargetOf(z, ref)
<1> DEFINE n == Len(z)
           F == Full(t)
           G == Full(z)
           Means(s) == IF ref.how = "number" THEN s.inst = ref.n ELSE s.alias = ref.n
           I == {i \in 1 .. Len(F) : Means(F[i])}
           J == {i \in 1 .. Len(G) : Means(G[i])}
<1>1. /\ z \in Seq(Section) /\ t \in Seq(Section) /\ n \in Nat
      /\ Len(F) = n /\ Len(G) = n
  BY SectionsAre, FullAre DEF Sound
<1>2. TargetOf(t, ref) = IF I # {} THEN Min(I) ELSE 0
  BY DEF TargetOf, SelectInSeq
<1>3. TargetOf(z, ref) = IF J # {} THEN Min(J) ELSE 0
  BY DEF TargetOf, SelectInSeq
<1>4. \A i \in 1 .. n : F[i].inst = G[i].inst /\ G[i].inst = InstNumbers(z)[i]
  <2>1. \A i \in 1 .. Len(t) : F[i].inst = InstNumbers(t)[i]
    BY <1>1, FullFields
  <2>2. \A i \in 1 .. Len(z) : G[i].inst = InstNumbers(z)[i]
    BY <1>1, FullFields
  <2> HIDE DEF F, G
  <2> QED
    BY <1>1, <2>1, <2>2
<1>5. \A i \in 1 .. n : G[i].alias \in {Custom, InstNumbers(z)[i]}
  <2>1. \A i \in 1 .. Len(z) :
          G[i].alias = IF z[i].alias = 0 THEN InstNumbers(z)[i] ELSE z[i].alias
    BY <1>1, FullFields
  <2>2. \A i \in 1 .. n :
          /\ z[i].alias \in {0, Custom, z[i].inst}
          /\ InstNumbers(z)[i] = IF z[i].inst # 0 THEN z[i].inst ELSE InstNumbers(z)[i - 1] + 1
    BY <1>1, NumbersAre DEF Sound, Aliased
  <2> HIDE DEF G
  <2> QED
    BY <1>1, <2>1, <2>2
<1>6. \A i, j \in 1 .. n : i < j => InstNumbers(z)[i] < InstNumbers(z)[j]
  BY <1>1, NumbersIncrease DEF Sound
<1>7. \A i \in 1 .. n : InstNumbers(z)[i] \in Nat
  BY <1>1, NumbersAre
<1>8. I # {}
  BY <1>2
<1>9. \A i \in 1 .. n : F[i].alias \in {G[i].alias, Custom}
  OBVIOUS
<1>10. ref = [how |-> "alias", n |-> Custom] => \A i \in 1 .. n : F[i].alias = G[i].alias
  OBVIOUS
<1> HIDE DEF F, G, n
<1>11. CASE ref.how = "number"
  <2>1. I = J
    BY <1>1, <1>4, <1>11
  <2> HIDE DEF I, J
  <2> QED
    BY <1>2, <1>3, <2>1
<1>12. CASE ref.how # "number" /\ ref.n = Custom
  <2>1. ref = [how |-> "alias", n |-> Custom]
    BY <1>12 DEF Ref
  <2>2. I = J
    BY <1>1, <1>10, <1>12, <2>1
  <2> HIDE DEF I, J
  <2> QED
    BY <1>2, <1>3, <2>2
<1>13. CASE ref.how # "number" /\ ref.n # Custom
  <2>1. \A i \in I : i \in 1 .. n /\ i \in J
    BY <1>1, <1>9, <1>13
  <2>2. \A i \in J : i \in 1 .. n /\ InstNumbers(z)[i] = ref.n
    BY <1>1, <1>5, <1>13
  <2>3. \A i, j \in J : i = j
    <3> HIDE DEF J
    <3>1. ASSUME NEW i \in J, NEW j \in J, i < j PROVE FALSE
      BY <1>1, <1>6, <1>7, <2>2, <3>1
    <3>2. \A i, j \in J : i \in Nat /\ j \in Nat
      BY <1>1, <2>2
    <3> QED
      BY <3>1, <3>2
  <2> HIDE DEF I, J
  <2>4. I = J
    BY <1>8, <2>1, <2>3
  <2> QED
    BY <1>2, <1>3, <2>4
<1> QED
  BY <1>11, <1>12, <1>13

(* The entries among the first k that set the scalar, or that leaf of      *)
(* section i.                                                              *)
Scalars(entries, k) == {j \in 1 .. k : entries[j].name.leaf = "s"}
Named(entries, k, leaf, secs, i) ==
    {j \in 1 .. k : entries[j].name.leaf = leaf /\ TargetOf(secs, entries[j].name.ref) = i}

LEMMA LastNext ==
    ASSUME NEW entries, NEW k \in Nat \ {0}, NEW leaf, NEW secs, NEW i, NEW else
    PROVE  /\ LastOf(entries, Named(entries, k, leaf, secs, i), else) =
                IF entries[k].name.leaf = leaf /\ TargetOf(secs, entries[k].name.ref) = i
                THEN entries[k].value
                ELSE LastOf(entries, Named(entries, k - 1, leaf, secs, i), else)
           /\ LastOf(entries, Scalars(entries, k), else) =
                IF entries[k].name.leaf = "s" THEN entries[k].value
                ELSE LastOf(entries, Scalars(entries, k - 1), else)
<1> DEFINE P(j) == entries[j].name.leaf = leaf /\ TargetOf(secs, entries[j].name.ref) = i
           Q(j) == entries[j].name.leaf = "s"
           A(m) == Named(entries, m, leaf, secs, i)
           B(m) == Scalars(entries, m)
<1>1. /\ A(k) = {j \in 1 .. k : P(j)} /\ A(k - 1) = {j \in 1 .. k - 1 : P(j)}
      /\ B(k) = {j \in 1 .. k : Q(j)} /\ B(k - 1) = {j \in 1 .. k - 1 : Q(j)}
  BY DEF Named, Scalars
<1> HIDE DEF P, Q, A, B
<1>2. A(k) = IF P(k) THEN A(k - 1) \union {k} ELSE A(k - 1)
  BY <1>1
<1>3. B(k) = IF Q(k) THEN B(k - 1) \union {k} ELSE B(k - 1)
  BY <1>1
<1>4. A(k - 1) \in SUBSET (1 .. k - 1) /\ B(k - 1) \in SUBSET (1 .. k - 1)
  BY <1>1
<1>5. LastOf(entries, A(k), else) =
        IF P(k) THEN entries[k].value ELSE LastOf(entries, A(k - 1), else)
  <2>1. LastOf(entries, A(k - 1) \union {k}, else) = entries[k].value
    BY <1>4, LastIs
  <2> QED
    BY ONLY <1>2, <2>1
<1>6. LastOf(entries, B(k), else) =
        IF Q(k) THEN entries[k].value ELSE LastOf(entries, B(k - 1), else)
  <2>1. LastOf(entries, B(k - 1) \union {k}, else) = entries[k].value
    BY <1>4, LastIs
  <2> QED
    BY ONLY <1>3, <2>1
<1> QED
  BY <1>5, <1>6 DEF P, Q, A, B

(* What the sections of a request are when k of its entries are applied.   *)
SetUpTo(z, entries, k, c) ==
    /\ Len(c.secs) = Len(z.secs) /\ InstNumbers(c.secs) = InstNumbers(z.secs)
    /\ c.s = LastOf(entries, Scalars(entries, k), z.s)
    /\ ~Renames(entries) =>
         \A i \in 1 .. Len(z.secs) :
           /\ c.secs[i].v = LastOf(entries, Named(entries, k, "v", z.secs, i), z.secs[i].v)
           /\ Full(c.secs)[i].alias =
                LastOf(entries, Named(entries, k, "a", z.secs, i), Full(z.secs)[i].alias)
           /\ Full(c.secs)[i].alias \in {Full(z.secs)[i].alias, Custom}
           /\ (\A j \in 1 .. k : entries[j].name.leaf # "a") =>
                Full(c.secs)[i].alias = Full(z.secs)[i].alias

LEMMA SetNone ==
    ASSUME NEW z \in Ctxs, NEW entries
    PROVE  SetUpTo(z, entries, 0, z)
<1>1. Scalars(entries, 0) = {} /\ \A leaf, i : Named(entries, 0, leaf, z.secs, i) = {}
  BY DEF Scalars, Named
<1>2. \A else : LastOf(entries, {}, else) = else
  BY DEF LastOf
<1> QED
  BY <1>1, <1>2 DEF SetUpTo

LEMMA SetNext ==
    ASSUME NEW z \in Ctxs, NEW c \in Ctxs, NEW entries, NEW n \in Nat, DOMAIN entries = 1 .. n,
           NEW k \in 1 .. n, SetUpTo(z, entries, k - 1, c),
           \A j \in 1 .. n : Setting(entries[j]) /\ Fits("set", entries[j]),
           NEW d, d = Applied("set", c, entries[k]), d.fault = 0
    PROVE  SetUpTo(z, entries, k, d)
<1> DEFINE e == entries[k]
           leaf == e.name.leaf
           ref == e.name.ref
           at == TargetOf(c.secs, ref)
           m == Len(z.secs)
<1>0. Setting(e) /\ Fits("set", e)
  OBVIOUS
<1>1. /\ Len(d.secs) = Len(c.secs) /\ InstNumbers(d.secs) = InstNumbers(c.secs) /\ Sets(c, d, e)
  <2>1. d = Applied("set", c, e)
    OBVIOUS
  <2> HIDE DEF e
  <2> QED
    BY <1>0, <2>1, AppliedSets
<1>2. /\ d.s = IF leaf = "s" THEN e.value ELSE c.s
      /\ \A i \in 1 .. Len(c.secs) :
           /\ d.secs[i].v = IF leaf = "v" /\ i = at THEN e.value ELSE c.secs[i].v
           /\ Full(d.secs)[i].alias =
                IF leaf = "a" /\ i = at THEN Custom ELSE Full(c.secs)[i].alias
      /\ leaf # "s" => at \in 1 .. Len(c.secs)
  BY <1>1 DEF Sets
<1>3. Len(c.secs) = m /\ InstNumbers(c.secs) = InstNumbers(z.secs)
  BY DEF SetUpTo
<1>4. k \in Nat \ {0} /\ k - 1 \in Nat
  OBVIOUS
<1>5. d.s = LastOf(entries, Scalars(entries, k), z.s)
  <2>1. c.s = LastOf(entries, Scalars(entries, k - 1), z.s)
    BY DEF SetUpTo
  <2>2. LastOf(entries, Scalars(entries, k), z.s) =
          IF leaf = "s" THEN e.value ELSE LastOf(entries, Scalars(entries, k - 1), z.s)
    BY <1>4, LastNext
  <2> HIDE DEF leaf, e
  <2> QED
    BY <1>2, <2>1, <2>2
<1>6. /\ leaf = "s" \/ leaf = "v" \/ (leaf = "a" /\ e.value = Custom)
      /\ leaf # "s" => ref \in Ref
  <2>1. e.name \in ParamName
    BY <1>0 DEF Setting
  <2>2. ref \in Ref \/ ref = None
    BY <2>1 DEF ParamName
  <2> HIDE DEF e
  <2>3. \/ ref = None /\ leaf = "s"
        \/ ref # None /\ leaf = "v"
        \/ (ref # None /\ leaf = "a" /\ e.value = Custom)
    BY <1>0, SettingIs
  <2> QED
    BY <2>2, <2>3
<1>7. ASSUME ~Renames(entries)
      PROVE  /\ \A i \in 1 .. m :
                  /\ c.secs[i].v =
                       LastOf(entries, Named(entries, k - 1, "v", z.secs, i), z.secs[i].v)
                  /\ Full(c.secs)[i].alias =
                       LastOf(entries, Named(entries, k - 1, "a", z.secs, i), Full(z.secs)[i].alias)
                  /\ Full(c.secs)[i].alias \in {Full(z.secs)[i].alias, Custom}
                  /\ (\A j \in 1 .. k - 1 : entries[j].name.leaf # "a") =>
                       Full(c.secs)[i].alias = Full(z.secs)[i].alias
             /\ leaf # "s" => at = TargetOf(z.secs, ref)
  <2>1. \A i \in 1 .. m :
          /\ c.secs[i].v = LastOf(entries, Named(entries, k - 1, "v", z.secs, i), z.secs[i].v)
          /\ Full(c.secs)[i].alias =
               LastOf(entries, Named(entries, k - 1, "a", z.secs, i), Full(z.secs)[i].alias)
          /\ Full(c.secs)[i].alias \in {Full(z.secs)[i].alias, Custom}
          /\ (\A j \in 1 .. k - 1 : entries[j].name.leaf # "a") =>
               Full(c.secs)[i].alias = Full(z.secs)[i].alias
    BY <1>7 DEF SetUpTo
  <2>2. ASSUME leaf # "s" PROVE at = TargetOf(z.secs, ref)
    <3>1. ref = [how |-> "alias", n |-> Custom] =>
            \A i \in 1 .. m : Full(c.secs)[i].alias = Full(z.secs)[i].alias
      <4> SUFFICES ASSUME ref = [how |-> "alias", n |-> Custom],
                          NEW j \in 1 .. k - 1, entries[j].name.leaf = "a"
                   PROVE  FALSE
        BY <2>1
      <4>1. j \in 1 .. n /\ j < k
        BY <1>4
      <4>2. entries[j].value = Custom
        BY <4>1 DEF Setting
      <4> QED
        BY <1>7, <4>1, <4>2 DEF Renames
    <3>2. /\ Sound(z.secs) /\ Sound(c.secs) /\ ref \in Ref /\ at \in 1 .. m
      BY <1>2, <1>3, <1>6, <2>2 DEF Ctxs
    <3>3. \A i \in 1 .. m : Full(c.secs)[i].alias \in {Full(z.secs)[i].alias, Custom}
      BY <2>1
    <3> HIDE DEF ref, e, leaf
    <3> QED
      BY ONLY <1>3, <3>1, <3>2, <3>3, SameTarget, SMTT(60)
  <2> QED
    BY <2>1, <2>2
<1>8. ASSUME ~Renames(entries), NEW i \in 1 .. m
      PROVE  /\ d.secs[i].v = LastOf(entries, Named(entries, k, "v", z.secs, i), z.secs[i].v)
             /\ Full(d.secs)[i].alias =
                  LastOf(entries, Named(entries, k, "a", z.secs, i), Full(z.secs)[i].alias)
             /\ Full(d.secs)[i].alias \in {Full(z.secs)[i].alias, Custom}
             /\ (\A j \in 1 .. k : entries[j].name.leaf # "a") =>
                  Full(d.secs)[i].alias = Full(z.secs)[i].alias
  <2> DEFINE V(x) == LastOf(entries, Named(entries, x, "v", z.secs, i), z.secs[i].v)
             A(x) == LastOf(entries, Named(entries, x, "a", z.secs, i), Full(z.secs)[i].alias)
             to == TargetOf(z.secs, ref)
             f == Full(c.secs)[i].alias
             g == Full(d.secs)[i].alias
             h == Full(z.secs)[i].alias
  <2>1. /\ V(k) = IF leaf = "v" /\ to = i THEN e.value ELSE V(k - 1)
        /\ A(k) = IF leaf = "a" /\ to = i THEN e.value ELSE A(k - 1)
    <3>1. /\ leaf = entries[k].name.leaf /\ to = TargetOf(z.secs, entries[k].name.ref)
          /\ e.value = entries[k].value
      OBVIOUS
    <3> HIDE DEF leaf, to, e, ref
    <3> QED
      BY <1>4, <3>1, LastNext
  <2>2. /\ d.secs[i].v = IF leaf = "v" /\ i = at THEN e.value ELSE c.secs[i].v
        /\ g = IF leaf = "a" /\ i = at THEN Custom ELSE f
    BY <1>2, <1>3
  <2>3. /\ c.secs[i].v = V(k - 1) /\ f = A(k - 1) /\ f \in {h, Custom}
        /\ (\A j \in 1 .. k - 1 : entries[j].name.leaf # "a") => f = h
        /\ leaf # "s" => at = to
    BY <1>7, <1>8
  <2>4. ASSUME \A j \in 1 .. k : entries[j].name.leaf # "a" PROVE f = h /\ leaf # "a"
    <3>1. \A j \in 1 .. k - 1 : j \in 1 .. k
      BY <1>4
    <3>2. k \in 1 .. k
      BY <1>4
    <3> QED
      BY <2>3, <2>4, <3>1, <3>2
  <2> HIDE DEF V, A, to, f, g, h, at, leaf, e, ref
  <2>5. d.secs[i].v = V(k)
    BY <1>6, <2>1, <2>2, <2>3
  <2>6. g = A(k)
    BY <1>6, <2>1, <2>2, <2>3
  <2>7. g \in {h, Custom}
    BY <2>2, <2>3
  <2>8. (\A j \in 1 .. k : entries[j].name.leaf # "a") => g = h
    BY <2>2, <2>4
  <2> QED
    BY <2>5, <2>6, <2>7, <2>8 DEF V, A, g, h
<1>9. Len(d.secs) = m /\ InstNumbers(d.secs) = InstNumbers(z.secs)
  BY <1>1, <1>3
<1> HIDE DEF e
<1> QED
  BY <1>5, <1>8, <1>9 DEF SetUpTo

(* What SetParameterValues has done when all of its entries are applied.   *)
LEMMA SetAll ==
    ASSUME NEW z \in Ctxs, NEW entries, NEW n \in Nat, Len(entries) = n, DOMAIN entries = 1 .. n,
           \A j \in 1 .. n : Setting(entries[j]) /\ Fits("set", entries[j])
    PROVE  LET a == dm_entry_apply("set", z, entries)
           IN  /\ a \in Ctxs /\ a.key = z.key /\ a.lists = z.lists
               /\ a.fault = 0 => SetUpTo(z, entries, n, a)
<1>1. \A i \in 1 .. Len(entries), x \in Ctxs : Applied("set", x, entries[i]) \in Ctxs
  <2>1. ASSUME NEW i \in 1 .. n, NEW x \in Ctxs PROVE Applied("set", x, entries[i]) \in Ctxs
    <3> DEFINE e == entries[i]
    <3>1. Setting(e) /\ Fits("set", e)
      OBVIOUS
    <3> HIDE DEF e
    <3>2. Applied("set", x, e) \in Ctxs
      BY <3>1, AppliedSets
    <3> QED
      BY <3>2 DEF e
  <2> QED
    BY <2>1
<1>2. PICK w \in [0 .. Len(entries) -> Ctxs] : ApplyRun(w, "set", z, entries)
  BY <1>1, AppliedRun
<1>3. /\ w \in [0 .. n -> Ctxs]
      /\ w[0] = z /\ dm_entry_apply("set", z, entries) = w[n]
      /\ \A i \in 1 .. n : w[i] = Applied("set", w[i - 1], entries[i])
  BY <1>2 DEF ApplyRun
<1> DEFINE Good(i) == /\ w[i].key = z.key /\ w[i].lists = z.lists
                      /\ w[i].fault = 0 => SetUpTo(z, entries, i, w[i])
           S == {i \in 0 .. n : Good(i)}
<1>4. 0 \in S
  BY <1>3, SetNone
<1>5. ASSUME NEW i \in 1 .. n, i - 1 \in S PROVE i \in S
  <2> DEFINE c == w[i - 1]
             d == w[i]
             e == entries[i]
  <2>1. c \in Ctxs /\ d = Applied("set", c, e) /\ Setting(e) /\ Fits("set", e)
    BY <1>3
  <2>2. Good(i - 1)
    BY <1>5
  <2>3. /\ d.key = c.key /\ d.lists = c.lists
        /\ d.fault = 0 => c.fault = 0
    <3> HIDE DEF c, d, e
    <3> QED
      BY <2>1, AppliedSets
  <2>4. ASSUME d.fault = 0 PROVE SetUpTo(z, entries, i, d)
    <3>1. SetUpTo(z, entries, i - 1, c)
      BY <2>2, <2>3, <2>4
    <3>2. d = Applied("set", c, entries[i])
      BY <2>1
    <3> HIDE DEF c, d, e
    <3> QED
      BY <2>1, <2>4, <3>1, <3>2, SetNext
  <2> QED
    BY <2>2, <2>3, <2>4
<1>6. n \in S
  <2> HIDE DEF S
  <2>1. \A i \in 0 .. n : i \in S
    BY <1>4, <1>5, UpTo
  <2> QED
    BY <2>1
<1>7. Good(n) /\ w[n] \in Ctxs
  BY <1>3, <1>6
<1> QED
  BY <1>3, <1>7

-----------------------------------------------------------------------------
(***************************************************************************)
(* The notification lists.                                                 *)
(***************************************************************************)

LEMMA PathsAre ==
    ASSUME NEW p \in Paths
    PROVE  p \in Seq(Word) /\ Len(p) \in Nat /\ Len(p) >= 1 /\ Len(p) <= 3
<1> DEFINE k == Len(p)
<1>1. p \in Seq(Word) /\ k \in 1 .. 3
  BY DEF Paths
<1> HIDE DEF k
<1>2. k \in Nat /\ k >= 1 /\ k <= 3
  BY <1>1
<1> QED
  BY <1>1, <1>2 DEF k

LEMMA PrefixIs ==
    ASSUME NEW S, NEW s \in Seq(S), NEW k \in Nat, k <= Len(s)
    PROVE  /\ SubSeq(s, 1, k) \in Seq(S) /\ Len(SubSeq(s, 1, k)) = k
           /\ \A i \in 1 .. k : SubSeq(s, 1, k)[i] = s[i]
<1>1. Len(s) \in Nat /\ \A i \in 1 .. k : s[i] \in S
  BY LenProperties, ElementOfSeq
<1>2. 1 \in Int /\ k \in Int
  OBVIOUS
<1>3. /\ SubSeq(s, 1, k) \in Seq(S)
      /\ Len(SubSeq(s, 1, k)) = IF 1 <= k THEN k - 1 + 1 ELSE 0
      /\ \A i \in 1 .. k - 1 + 1 : SubSeq(s, 1, k)[i] = s[1 + i - 1]
  BY <1>1, <1>2, SubSeqProperties
<1>4. k - 1 + 1 = k /\ (~(1 <= k) => k = 0) /\ \A i \in 1 .. k : 1 + i - 1 = i
  OBVIOUS
<1> DEFINE t == SubSeq(s, 1, k)
<1> HIDE DEF t
<1>5. t \in Seq(S) /\ Len(t) = k /\ \A i \in 1 .. k : t[i] = s[i]
  BY <1>3, <1>4 DEF t
<1> QED
  BY <1>5 DEF t

(* Position by position.                                                   *)
LEMMA CoversIs ==
    ASSUME NEW p \in Paths, NEW q \in Paths
    PROVE  Covers(p, q) <=>
             \/ p = q
             \/ /\ p[Len(p)] = "" /\ Len(p) <= Len(q)
                /\ \A i \in 1 .. Len(p) - 1 : p[i] = q[i]
<1> DEFINE m == Len(p)
           n == Len(q)
           a == SubSeq(p, 1, m - 1)
           b == SubSeq(q, 1, m - 1)
<1>1. /\ p \in Seq(Word) /\ q \in Seq(Word) /\ m \in Nat /\ n \in Nat /\ m >= 1 /\ n >= 1
  BY PathsAre
<1>2. Covers(p, q) <=> p = q \/ (p[m] = "" /\ m <= n /\ a = b)
  BY DEF Covers, Last, Front
<1>3. /\ Len(a) = m - 1 /\ \A i \in 1 .. m - 1 : a[i] = p[i]
  <2>1. m - 1 \in Nat /\ m - 1 <= Len(p)
    BY <1>1
  <2> QED
    BY <1>1, <2>1, PrefixIs
<1>4. ASSUME m <= n PROVE Len(b) = m - 1 /\ \A i \in 1 .. m - 1 : b[i] = q[i]
  <2>1. m - 1 \in Nat /\ m - 1 <= Len(q)
    BY <1>1, <1>4
  <2> HIDE DEF m
  <2> QED
    BY <1>1, <2>1, PrefixIs
<1>5. a \in Seq(Word) /\ (m <= n => b \in Seq(Word))
  <2>1. m - 1 \in Nat /\ m - 1 <= Len(p) /\ (m <= n => m - 1 <= Len(q))
    BY <1>1
  <2> HIDE DEF m
  <2> QED
    BY <1>1, <2>1, PrefixIs
<1>6. ASSUME m <= n PROVE a = b <=> \A i \in 1 .. m - 1 : p[i] = q[i]
  <2> HIDE DEF a, b, m, n
  <2>1. a = b => \A i \in 1 .. m - 1 : p[i] = q[i]
    BY <1>3, <1>4, <1>6
  <2>2. ASSUME \A i \in 1 .. m - 1 : p[i] = q[i] PROVE a = b
    <3>1. Len(a) = Len(b) /\ \A i \in 1 .. Len(a) : a[i] = b[i]
      BY <1>3, <1>4, <1>6, <2>2
    <3> QED
      BY <1>5, <1>6, <3>1, SeqEqual
  <2> QED
    BY <2>1, <2>2
<1> HIDE DEF a, b
<1> QED
  BY <1>2, <1>6

LEMMA CoversSelf ==
    ASSUME NEW p
    PROVE  Covers(p, p)
BY DEF Covers

LEMMA CoversAgain ==
    ASSUME NEW p \in Paths, NEW q \in Paths, NEW r \in Paths, Covers(p, q), Covers(q, r)
    PROVE  Covers(p, r)
<1> DEFINE x == Len(p)
           y == Len(q)
           z == Len(r)
<1>1. x \in Nat /\ y \in Nat /\ z \in Nat
  BY PathsAre
<1>2. p = q \/ (p[x] = "" /\ x <= y /\ \A i \in 1 .. x - 1 : p[i] = q[i])
  BY CoversIs
<1>3. q = r \/ (q[y] = "" /\ y <= z /\ \A i \in 1 .. y - 1 : q[i] = r[i])
  BY CoversIs
<1>4. ASSUME p # q, q # r PROVE p[x] = "" /\ x <= z /\ \A i \in 1 .. x - 1 : p[i] = r[i]
  <2> HIDE DEF x, y, z
  <2>1. \A i \in 1 .. x - 1 : p[i] = q[i]
    BY <1>2, <1>4
  <2>5. x <= y /\ y <= z
    BY <1>2, <1>3, <1>4
  <2>6. p[x] = ""
    BY <1>2, <1>4
  <2>2. \A i \in 1 .. y - 1 : q[i] = r[i]
    BY <1>3, <1>4
  <2>3. ASSUME NEW i \in 1 .. x - 1 PROVE p[i] = r[i]
    <3>1. i \in 1 .. y - 1
      BY <1>1, <2>5
    <3>2. p[i] = q[i] /\ q[i] = r[i]
      BY <2>1, <2>2, <3>1
    <3> QED
      BY <3>2
  <2>4. x <= z
    BY <1>1, <2>5
  <2> QED
    BY <2>3, <2>4, <2>6
<1>5. CASE p = q \/ q = r
  BY <1>5
<1>6. CASE p # q /\ q # r
  BY <1>4, <1>6, CoversIs
<1> QED
  BY <1>5, <1>6

(* Two objects above a path are above one another.                         *)
LEMMA CoversChain ==
    ASSUME NEW p \in Paths, NEW q \in Paths, NEW r \in Paths, Covers(p, r), Covers(q, r),
           p # r, q # r, Len(p) <= Len(q)
    PROVE  Covers(p, q)
<1> DEFINE x == Len(p)
           y == Len(q)
           z == Len(r)
<1>1. x \in Nat /\ y \in Nat /\ z \in Nat /\ x <= y
  BY PathsAre
<1>2. p[x] = "" /\ x <= z /\ \A i \in 1 .. x - 1 : p[i] = r[i]
  BY CoversIs
<1>3. q[y] = "" /\ y <= z /\ \A i \in 1 .. y - 1 : q[i] = r[i]
  BY CoversIs
<1>4. p[x] = "" /\ x <= y /\ \A i \in 1 .. x - 1 : p[i] = q[i]
  <2> HIDE DEF x, y, z
  <2>1. \A i \in 1 .. x - 1 : i \in 1 .. y - 1
    BY <1>1
  <2> QED
    BY <1>1, <1>2, <1>3, <2>1
<1> QED
  BY <1>4, CoversIs

(* The entries that cover a path, and what the last of them says.          *)
Covering(l, p) == {f \in (0 .. 6) \X Paths : f[2] \in l[f[1]] /\ Covers(f[2], p)}
Best(found, p) ==
    LET exact == {f \in found : f[2] = p}
        longest == {f \in found : \A g \in found : Len(g[2]) <= Len(f[2])}
    IN  IF exact # {} THEN exact ELSE longest
Notified(best) == IF best = {} THEN 0 ELSE Max({f[1] : f \in best})

LEMMA GetIs ==
    ASSUME NEW l \in Listing, NEW p
    PROVE  get_parameter_notification(l, p) = Notified(Best(Covering(l, p), p))
<1> DEFINE found == {f \in (0 .. 6) \X UNION {l[t] : t \in 0 .. 6} :
                        f[2] \in l[f[1]] /\ Covers(f[2], p)}
<1>1. found = Covering(l, p)
  <2>1. \A t \in 0 .. 6 : l[t] \subseteq Paths
    BY DEF Listing
  <2>2. ASSUME NEW t \in 0 .. 6, NEW q, q \in l[t]
        PROVE  q \in UNION {l[u] : u \in 0 .. 6} /\ q \in Paths
    BY <2>1, <2>2
  <2>3. \A f \in found : f \in Covering(l, p)
    BY <2>2 DEF Covering
  <2>4. \A f \in Covering(l, p) : f \in found
    BY <2>2 DEF Covering
  <2> QED
    BY <2>3, <2>4
<1>2. get_parameter_notification(l, p) = Notified(Best(found, p))
  BY Zenon DEF get_parameter_notification, Notified, Best
<1> QED
  BY <1>1, <1>2

(* Entries of one type give that type, none gives 0.                       *)
LEMMA NotifiedOne ==
    ASSUME NEW best, NEW v \in Nat, \A f \in best : f[1] = v, best = {} => v = 0
    PROVE  Notified(best) = v
<1>1. CASE best = {}
  BY <1>1 DEF Notified
<1>2. CASE best # {}
  <2>1. {f[1] : f \in best} = {v}
    BY <1>2
  <2>2. Max({v}) = v
    <3> DEFINE m == Max({v})
               S == {v}
    <3>1. \E x \in S : \A y \in S : x >= y
      OBVIOUS
    <3>2. Max(S) \in S
      <4> HIDE DEF S
      <4> QED
        BY <3>1, Zenon DEF Max
    <3> QED
      BY <3>2
  <2> QED
    BY <1>2, <2>1, <2>2 DEF Notified
<1> QED
  BY <1>1, <1>2

(* What a path has once x is set to v: v below x, what it had elsewhere.   *)
LEMMA SetIs ==
    ASSUME NEW l \in Listing, NEW x \in Paths, NEW v \in 0 .. 6, NEW p \in Paths
    PROVE  get_parameter_notification(set_parameter_notification(l, x, v), p) =
             IF Covers(x, p) THEN v ELSE get_parameter_notification(l, p)
<1> DEFINE rest == remove_parameter_notification(l, x)
           more == [rest EXCEPT ![v] = @ \union {x}]
           new == set_parameter_notification(l, x, v)
           C(m, q) == Covering(m, q)
<1>1. /\ rest \in Listing
      /\ \A t \in 0 .. 6 : rest[t] = {q \in l[t] : ~Covers(x, q)}
  BY DEF remove_parameter_notification, Listing
<1>2. /\ \A t \in 0 .. 6 : l[t] \subseteq Paths /\ rest[t] \subseteq Paths
      /\ \A t \in 0 .. 6 : more[t] = IF t = v THEN rest[t] \union {x} ELSE rest[t]
      /\ more \in Listing
  <2> HIDE DEF rest
  <2> QED
    BY <1>1 DEF Listing
<1>3. new \in Listing
  BY ListsSet
<1>4. \/ new = rest /\ get_parameter_notification(rest, x) = v
      \/ new = rest /\ v = 0 /\ ~ \E t \in 1 .. 6 : \E q \in rest[t] : Last(q) = "" /\ Covers(q, x)
      \/ new = more
  BY DEF set_parameter_notification
<1> HIDE DEF rest, more, new
<1>5. ASSUME ~Covers(x, p)
      PROVE  get_parameter_notification(new, p) = get_parameter_notification(l, p)
  <2>1. C(rest, p) = C(l, p)
    <3>1. ASSUME NEW q \in Paths, Covers(q, p) PROVE ~Covers(x, q)
      BY <1>5, <3>1, CoversAgain
    <3>2. \A t \in 0 .. 6, q \in Paths : Covers(q, p) => (q \in rest[t] <=> q \in l[t])
      BY <1>1, <3>1
    <3> QED
      BY <3>2 DEF Covering
  <2>2. C(more, p) = C(rest, p)
    <3>1. \A t \in 0 .. 6, q \in Paths : Covers(q, p) => (q \in more[t] <=> q \in rest[t])
      BY <1>2, <1>5
    <3> QED
      BY <3>1 DEF Covering
  <2>3. C(new, p) = C(l, p)
    <3> HIDE DEF C
    <3> QED
      BY <1>4, <2>1, <2>2
  <2> QED
    BY <1>3, <2>3, GetIs
<1>6. ASSUME Covers(x, p)
      PROVE  get_parameter_notification(new, p) = v
  <2>1. ASSUME NEW t \in 0 .. 6, NEW q \in Paths, q \in rest[t], Covers(q, p)
        PROVE  /\ Covers(q, x) /\ q # p /\ q # x /\ Last(q) = ""
               /\ Len(q) < Len(x) \/ x = p
    <3>1. ~Covers(x, q) /\ q # p /\ q # x
      BY <1>1, <1>6, <2>1, CoversSelf
    <3>2. Len(q) \in Nat /\ Len(x) \in Nat
      BY PathsAre
    <3>3. Last(q) = ""
      BY <2>1, <3>1 DEF Covers
    <3>4. ASSUME x # p PROVE Len(q) < Len(x)
      <4>1. ~(Len(x) <= Len(q))
        BY <1>6, <2>1, <3>1, <3>4, CoversChain
      <4> QED
        BY <3>2, <4>1
    <3>5. Covers(q, x)
      <4>1. CASE x = p
        BY <2>1, <4>1
      <4>2. CASE x # p
        <5>1. Len(q) <= Len(x)
          BY <3>2, <3>4, <4>2
        <5> QED
          BY <1>6, <2>1, <3>1, <4>2, <5>1, CoversChain
      <4> QED
        BY <4>1, <4>2
    <3> QED
      BY <3>1, <3>3, <3>4, <3>5
  <2>2. CASE new = rest /\ get_parameter_notification(rest, x) = v
    <3>1. ASSUME NEW t \in 0 .. 6, NEW q \in Paths, q \in rest[t]
          PROVE  Covers(q, p) <=> Covers(q, x)
      <4>1. Covers(q, x) => Covers(q, p)
        BY <1>6, CoversAgain
      <4> QED
        BY <2>1, <3>1, <4>1
    <3>2. C(rest, p) = C(rest, x)
      BY <3>1 DEF Covering
    <3>3. \A f \in C(rest, p) : f[2] # p /\ f[2] # x
      BY <2>1 DEF Covering
    <3> HIDE DEF C
    <3>4. Best(C(rest, p), p) = Best(C(rest, x), x)
      <4>1. {f \in C(rest, p) : f[2] = p} = {} /\ {f \in C(rest, x) : f[2] = x} = {}
        BY <3>2, <3>3
      <4> QED
        BY <3>2, <4>1 DEF Best
    <3>5. get_parameter_notification(rest, p) = get_parameter_notification(rest, x)
      BY <1>1, <3>4, GetIs DEF C
    <3> QED
      BY <2>2, <3>5
  <2>3. CASE /\ new = rest /\ v = 0
             /\ ~ \E t \in 1 .. 6 : \E q \in rest[t] : Last(q) = "" /\ Covers(q, x)
    <3>1. ASSUME NEW t \in 0 .. 6, NEW q \in Paths, q \in rest[t], Covers(q, p)
          PROVE  t = 0
      <4>1. Last(q) = "" /\ Covers(q, x)
        BY <2>1, <3>1
      <4>2. t \notin 1 .. 6
        BY <2>3, <3>1, <4>1
      <4> QED
        BY <4>2
    <3>2. \A f \in C(rest, p) : f[1] = 0
      BY <3>1 DEF Covering
    <3> HIDE DEF C
    <3>3. \A f \in Best(C(rest, p), p) : f[1] = 0
      BY <3>2 DEF Best
    <3>4. Notified(Best(C(rest, p), p)) = 0
      BY <3>3, NotifiedOne
    <3> QED
      BY <1>1, <2>3, <3>4, GetIs DEF C
  <2>4. CASE new = more
    <3> DEFINE f == <<v, x>>
    <3>1. f \in C(more, p)
      BY <1>2, <1>6 DEF Covering
    <3>2. ASSUME NEW g \in C(more, p), g # f
          PROVE  g[2] # p /\ Len(f[2]) \in Nat /\ Len(g[2]) \in Nat
                 /\ (x = p \/ Len(g[2]) < Len(f[2]))
      <4>1. g = <<g[1], g[2]>> /\ g[1] \in 0 .. 6 /\ g[2] \in Paths /\ g[2] \in more[g[1]]
            /\ Covers(g[2], p)
        BY DEF Covering
      <4>2. g[2] \in rest[g[1]]
        BY <1>2, <3>2, <4>1
      <4> QED
        BY <2>1, <4>1, <4>2, PathsAre
    <3> HIDE DEF C, f
    <3>3. Best(C(more, p), p) = {f}
      <4>1. f[1] = v /\ f[2] = x
        BY DEF f
      <4>2. CASE x = p
        <5>1. {g \in C(more, p) : g[2] = p} = {f}
          BY <3>1, <3>2, <4>1, <4>2
        <5> QED
          BY <5>1 DEF Best
      <4>3. CASE x # p
        <5>1. {g \in C(more, p) : g[2] = p} = {}
          BY <3>1, <3>2, <4>1, <4>3
        <5>2. Len(f[2]) \in Nat
          BY <4>1, PathsAre
        <5>3. f \in {g \in C(more, p) : \A h \in C(more, p) : Len(h[2]) <= Len(g[2])}
          BY <3>1, <3>2, <4>3, <5>2
        <5>4. \A g \in C(more, p) : g # f => ~(Len(f[2]) <= Len(g[2]))
          BY <3>2, <4>3, <5>2
        <5>5. {g \in C(more, p) : \A h \in C(more, p) : Len(h[2]) <= Len(g[2])} = {f}
          BY <3>1, <5>3, <5>4
        <5> QED
          BY <5>1, <5>5 DEF Best
      <4> QED
        BY <4>2, <4>3
    <3>4. Notified({f}) = v
      <4>1. \A g \in {f} : g[1] = v
        BY DEF f
      <4> QED
        BY <4>1, NotifiedOne
    <3> QED
      BY <1>2, <2>4, <3>3, <3>4, GetIs DEF C
  <2> QED
    BY <1>4, <2>2, <2>3, <2>4
<1> QED
  BY <1>5, <1>6 DEF new

(* The entries among the first k that name a path or an object above it.   *)
Above(entries, k, secs, p) == {j \in 1 .. k : Covers(NamedPath(secs, entries[j].name), p)}

(* What the lists are when k entries are applied.                          *)
NotedUpTo(z, entries, k, c) ==
    \A p \in Paths :
      get_parameter_notification(c.lists, p) =
        LastOf(entries, Above(entries, k, z.secs, p), get_parameter_notification(z.lists, p))

LEMMA AboveNext ==
    ASSUME NEW entries, NEW k \in Nat \ {0}, NEW secs, NEW p, NEW else
    PROVE  LastOf(entries, Above(entries, k, secs, p), else) =
             IF Covers(NamedPath(secs, entries[k].name), p) THEN entries[k].value
             ELSE LastOf(entries, Above(entries, k - 1, secs, p), else)
<1> DEFINE P(j) == Covers(NamedPath(secs, entries[j].name), p)
           A(m) == Above(entries, m, secs, p)
<1>1. A(k) = {j \in 1 .. k : P(j)} /\ A(k - 1) = {j \in 1 .. k - 1 : P(j)}
  BY DEF Above
<1> HIDE DEF P, A
<1>2. A(k) = IF P(k) THEN A(k - 1) \union {k} ELSE A(k - 1)
  BY <1>1
<1>3. A(k - 1) \in SUBSET (1 .. k - 1)
  BY <1>1
<1>4. LastOf(entries, A(k), else) =
        IF P(k) THEN entries[k].value ELSE LastOf(entries, A(k - 1), else)
  <2>1. LastOf(entries, A(k - 1) \union {k}, else) = entries[k].value
    BY <1>3, LastIs
  <2> QED
    BY ONLY <1>2, <2>1
<1> QED
  BY <1>4 DEF P, A

LEMMA NoteAll ==
    ASSUME NEW z \in Ctxs, NEW entries, NEW n \in Nat, Len(entries) = n,
           \A j \in 1 .. n : Noting(entries[j])
    PROVE  LET a == dm_entry_apply("attributes", z, entries)
           IN  /\ a \in Ctxs /\ a.key = z.key /\ a.s = z.s /\ Like(z.secs, a.secs)
               /\ a.fault = 0 => NotedUpTo(z, entries, n, a)
<1>1. \A i \in 1 .. Len(entries), x \in Ctxs : Applied("attributes", x, entries[i]) \in Ctxs
  <2>1. ASSUME NEW i \in 1 .. n, NEW x \in Ctxs
        PROVE  Applied("attributes", x, entries[i]) \in Ctxs
    <3> DEFINE e == entries[i]
    <3>1. Noting(e)
      OBVIOUS
    <3> HIDE DEF e
    <3>2. Applied("attributes", x, e) \in Ctxs
      BY <3>1, AppliedNotes
    <3> QED
      BY <3>2 DEF e
  <2> QED
    BY <2>1
<1>2. PICK w \in [0 .. Len(entries) -> Ctxs] : ApplyRun(w, "attributes", z, entries)
  BY <1>1, AppliedRun
<1>3. /\ w \in [0 .. n -> Ctxs]
      /\ w[0] = z /\ dm_entry_apply("attributes", z, entries) = w[n]
      /\ \A i \in 1 .. n : w[i] = Applied("attributes", w[i - 1], entries[i])
  BY <1>2 DEF ApplyRun
<1> DEFINE Good(i) == /\ w[i].key = z.key /\ w[i].s = z.s /\ Like(z.secs, w[i].secs)
                      /\ w[i].fault = 0 => NotedUpTo(z, entries, i, w[i])
           S == {i \in 0 .. n : Good(i)}
<1>4. 0 \in S
  <2>1. Like(z.secs, z.secs)
    BY LikeItself DEF Ctxs
  <2>2. NotedUpTo(z, entries, 0, z)
    <3>1. \A p : Above(entries, 0, z.secs, p) = {}
      BY DEF Above
    <3>2. \A else : LastOf(entries, {}, else) = else
      BY DEF LastOf
    <3> QED
      BY <3>1, <3>2 DEF NotedUpTo
  <2> QED
    BY <1>3, <2>1, <2>2
<1>5. ASSUME NEW i \in 1 .. n, i - 1 \in S PROVE i \in S
  <2> DEFINE c == w[i - 1]
             d == w[i]
             e == entries[i]
             q == NamedPath(c.secs, e.name)
  <2>1. c \in Ctxs /\ d = Applied("attributes", c, e) /\ Noting(e)
    BY <1>3
  <2>2. Good(i - 1)
    BY <1>5
  <2>3. /\ d.key = c.key /\ d.s = c.s /\ Like(c.secs, d.secs)
        /\ d.fault = 0 => /\ c.fault = 0 /\ q \in Paths
                          /\ d.lists = set_parameter_notification(c.lists, q, e.value)
    <3> HIDE DEF c, d, e
    <3> QED
      BY <2>1, AppliedNotes
  <2>4. Like(z.secs, c.secs)
    BY <2>2
  <2>5. Like(z.secs, d.secs)
    <3> HIDE DEF c, d
    <3> QED
      BY <2>3, <2>4, LikeAgain
  <2>6. q = NamedPath(z.secs, entries[i].name)
    <3>1. Full(c.secs) = Full(z.secs)
      BY <2>4 DEF Like
    <3> QED
      BY <3>1 DEF NamedPath, TargetOf
  <2>7. ASSUME d.fault = 0 PROVE NotedUpTo(z, entries, i, d)
    <3> SUFFICES ASSUME NEW p \in Paths
                 PROVE  get_parameter_notification(d.lists, p) =
                          LastOf(entries, Above(entries, i, z.secs, p),
                                 get_parameter_notification(z.lists, p))
      BY DEF NotedUpTo
    <3> DEFINE old == get_parameter_notification(c.lists, p)
               else == get_parameter_notification(z.lists, p)
    <3>1. old = LastOf(entries, Above(entries, i - 1, z.secs, p), else)
      BY <2>2, <2>3, <2>7 DEF NotedUpTo
    <3>2. c.lists \in Listing /\ e.value \in 0 .. 6 /\ q \in Paths
      BY <2>1, <2>3, <2>7 DEF Ctxs, Context, Noting
    <3>3. get_parameter_notification(d.lists, p) = IF Covers(q, p) THEN e.value ELSE old
      <4>1. d.lists = set_parameter_notification(c.lists, q, e.value)
        BY <2>3, <2>7
      <4> HIDE DEF c, d, e, q
      <4> QED
        BY <3>2, <4>1, SetIs
    <3>4. LastOf(entries, Above(entries, i, z.secs, p), else) =
            IF Covers(q, p) THEN e.value
            ELSE LastOf(entries, Above(entries, i - 1, z.secs, p), else)
      <4>1. i \in Nat \ {0}
        OBVIOUS
      <4>2. LastOf(entries, Above(entries, i, z.secs, p), else) =
              IF Covers(NamedPath(z.secs, entries[i].name), p) THEN entries[i].value
              ELSE LastOf(entries, Above(entries, i - 1, z.secs, p), else)
        <5> HIDE DEF else
        <5> QED
          BY <4>1, AboveNext
      <4> QED
        BY <2>6, <4>2
    <3> QED
      BY <3>1, <3>3, <3>4
  <2> QED
    BY <2>2, <2>3, <2>5, <2>7
<1>6. n \in S
  <2> HIDE DEF S
  <2>1. \A i \in 0 .. n : i \in S
    BY <1>4, <1>5, UpTo
  <2> QED
    BY <2>1
<1>7. Good(n) /\ w[n] \in Ctxs
  BY <1>3, <1>6
<1> QED
  BY <1>3, <1>7

-----------------------------------------------------------------------------
(***************************************************************************)
(* Sections that come and go.                                              *)
(***************************************************************************)
LEMMA SoundEmpty ==
    Sound(<<>>)
<1>1. <<>> \in Seq(Section) /\ Len(<<>>) = 0
  OBVIOUS
<1> QED
  BY <1>1 DEF Sound, Ordered, Aliased

LEMMA SoundAppend ==
    ASSUME NEW t, Sound(t), NEW n \in Nat, NEW v \in Values,
           n = 0 \/ \A i \in 1 .. Len(t) : 0 < t[i].inst /\ t[i].inst < n
    PROVE  LET u == Append(t, [inst |-> n, alias |-> 0, v |-> v])
           IN  /\ Sound(u) /\ Len(u) = Len(t) + 1
               /\ Last(u) = [inst |-> n, alias |-> 0, v |-> v]
<1> DEFINE x == [inst |-> n, alias |-> 0, v |-> v]
           u == Append(t, x)
           m == Len(t)
<1>1. x \in Section /\ x.inst = n /\ x.alias = 0
  BY DEF Section
<1>2. t \in Seq(Section) /\ m \in Nat
  BY SectionsAre DEF Sound
<1> HIDE DEF x
<1>3. /\ u \in Seq(Section) /\ Len(u) = m + 1
      /\ \A i \in 1 .. m : u[i] = t[i]
      /\ u[m + 1] = x
  BY <1>1, <1>2, ElementsAppended
<1> HIDE DEF u, m
<1>4. Ordered(u)
  <2>1. \A i, j \in 1 .. m : i < j /\ t[j].inst # 0 => 0 < t[i].inst /\ t[i].inst < t[j].inst
    BY DEF Sound, Ordered, m
  <2>2. ASSUME NEW i \in 1 .. m + 1, NEW j \in 1 .. m + 1, i < j, u[j].inst # 0
        PROVE  0 < u[i].inst /\ u[i].inst < u[j].inst
    <3>1. i \in 1 .. m /\ (j \in 1 .. m \/ j = m + 1)
      BY <1>2, <2>2
    <3>2. CASE j \in 1 .. m
      BY <1>3, <2>1, <2>2, <3>1, <3>2
    <3>3. CASE j = m + 1
      <4>1. u[j].inst = n /\ n # 0
        BY <1>1, <1>3, <2>2, <3>3
      <4>2. 0 < t[i].inst /\ t[i].inst < n
        BY <3>1, <4>1 DEF m
      <4> QED
        BY <1>3, <3>1, <4>1, <4>2
    <3> QED
      BY <3>1, <3>2, <3>3
  <2> QED
    BY <1>3, <2>2 DEF Ordered
<1>5. Aliased(u)
  <2>1. \A i \in 1 .. m : t[i].alias \in {0, Custom, t[i].inst}
    BY DEF Sound, Aliased, m
  <2>2. \A i \in 1 .. m + 1 : i \in 1 .. m \/ i = m + 1
    BY <1>2
  <2> QED
    BY <1>1, <1>3, <2>1, <2>2 DEF Aliased
<1>6. Last(u) = x
  BY <1>3 DEF Last
<1> QED
  BY <1>3, <1>4, <1>5, <1>6 DEF Sound, u, m, x

LEMMA SoundRemove ==
    ASSUME NEW t, Sound(t), NEW at \in 1 .. Len(t)
    PROVE  Sound(RemoveAt(t, at))
<1> DEFINE u == RemoveAt(t, at)
           m == Len(t)
<1>1. t \in Seq(Section) /\ m \in Nat
  BY SectionsAre DEF Sound
<1>2. /\ u \in Seq(Section) /\ Len(u) = m - 1
      /\ \A j \in 1 .. m - 1 : u[j] = IF j < at THEN t[j] ELSE t[j + 1]
  BY <1>1, RemoveAtProperties
<1>3. \A i, j \in 1 .. m : i < j /\ t[j].inst # 0 => 0 < t[i].inst /\ t[i].inst < t[j].inst
  BY DEF Sound, Ordered
<1>4. \A i \in 1 .. m : t[i].alias \in {0, Custom, t[i].inst}
  BY DEF Sound, Aliased
<1>5. at \in 1 .. m
  OBVIOUS
<1> HIDE DEF u, m
<1>6. Ordered(u)
  <2>1. ASSUME NEW i \in 1 .. m - 1, NEW j \in 1 .. m - 1, i < j, u[j].inst # 0
        PROVE  0 < u[i].inst /\ u[i].inst < u[j].inst
    <3> DEFINE a == IF i < at THEN i ELSE i + 1
               b == IF j < at THEN j ELSE j + 1
    <3>1. a \in 1 .. m /\ b \in 1 .. m /\ a < b /\ u[i] = t[a] /\ u[j] = t[b]
      BY <1>1, <1>2, <1>5, <2>1
    <3> HIDE DEF a, b
    <3> QED
      BY <1>3, <2>1, <3>1
  <2> QED
    BY <1>2, <2>1 DEF Ordered
<1>7. Aliased(u)
  <2>1. ASSUME NEW i \in 1 .. m - 1 PROVE u[i].alias \in {0, Custom, u[i].inst}
    <3> DEFINE a == IF i < at THEN i ELSE i + 1
    <3>1. a \in 1 .. m /\ u[i] = t[a]
      BY <1>1, <1>2, <1>5
    <3> HIDE DEF a
    <3> QED
      BY <1>4, <3>1
  <2> QED
    BY <1>2, <2>1 DEF Aliased
<1> QED
  BY <1>2, <1>6, <1>7 DEF Sound, u

-----------------------------------------------------------------------------
(***************************************************************************)
(* What an RPC leaves on the disk: r is its answer, b the disk before, d   *)
(* the disk after it.                                                      *)
(***************************************************************************)
Disk ==
    [secs : Seq(Section), s : Values, key : ParameterKeys \union {"none"}, lists : Listing]

LEMMA LikeValues ==
    ASSUME NEW s, NEW t, Sound(s), Like(s, t)
    PROVE  /\ s \in Seq(Section) /\ t \in Seq(Section) /\ Sound(t) /\ Len(t) = Len(s)
           /\ DOMAIN t = DOMAIN s /\ \A i \in 1 .. Len(s) : t[i].v = s[i].v
<1>1. /\ s \in Seq(Section) /\ t \in Seq(Section) /\ Sound(t) /\ Len(t) = Len(s)
      /\ Full(t) = Full(s)
  BY DEF Like, Sound
<1>2. \A i \in 1 .. Len(s) : Full(s)[i].v = s[i].v
  BY <1>1, FullFields
<1>3. \A i \in 1 .. Len(t) : Full(t)[i].v = t[i].v
  BY <1>1, FullFields
<1>4. DOMAIN t = 1 .. Len(t) /\ DOMAIN s = 1 .. Len(s)
  BY <1>1, SectionsAre
<1> QED
  BY <1>1, <1>2, <1>3, <1>4

SetOutcome(r, b, d) ==
    r.kind = "set" =>
      LET applied == r.fault = 0
          Want(at, else) == IF applied THEN LastOf(r.entries, at, else) ELSE else
          For(leaf) == {j \in DOMAIN r.entries : r.entries[j].name.leaf = leaf}
          At(leaf, i) == {j \in For(leaf) : TargetOf(b.secs, r.entries[j].name.ref) = i}
      IN  /\ d.key = IF applied THEN r.key ELSE b.key
          /\ d.s = Want(For("s"), b.s)
          /\ d.lists = b.lists
          /\ Len(d.secs) = Len(b.secs)
          /\ ~(applied /\ Renames(r.entries)) =>
               \A i \in DOMAIN d.secs :
                 LET x == Full(b.secs)[i]
                 IN  Full(d.secs)[i] = [inst |-> x.inst, alias |-> Want(At("a", i), x.alias),
                                        v |-> Want(At("v", i), x.v)]

LEMMA FullRecord ==
    ASSUME NEW t \in Seq(Section), NEW i \in 1 .. Len(t)
    PROVE  Full(t)[i] = [inst |-> Full(t)[i].inst, alias |-> Full(t)[i].alias, v |-> Full(t)[i].v]
<1>1. Full(t) \in Seq(Section) /\ Len(Full(t)) = Len(t)
  BY FullAre
<1>2. Full(t)[i] \in Section
  BY <1>1, SectionsAre
<1>3. \A x \in Section : x = [inst |-> x.inst, alias |-> x.alias, v |-> x.v]
  BY DEF Section
<1> QED
  BY <1>2, <1>3

LEMMA SetRefused ==
    ASSUME NEW b \in Disk, Sound(b.secs), NEW t, Like(b.secs, t), NEW r, r.fault # 0,
           NEW d, d = [b EXCEPT !.secs = t]
    PROVE  SetOutcome(r, b, d)
<1>1. d = [secs |-> t, s |-> b.s, key |-> b.key, lists |-> b.lists]
  BY DEF Disk
<1>2. /\ b.secs \in Seq(Section) /\ Len(t) = Len(b.secs) /\ Full(t) = Full(b.secs)
      /\ DOMAIN t = 1 .. Len(b.secs)
  BY LikeValues, SectionsAre DEF Like
<1>3. ASSUME NEW i \in DOMAIN d.secs
      PROVE  Full(d.secs)[i] = [inst |-> Full(b.secs)[i].inst, alias |-> Full(b.secs)[i].alias,
                                v |-> Full(b.secs)[i].v]
  <2>1. d.secs = t
    BY <1>1
  <2>2. i \in 1 .. Len(b.secs)
    BY <1>2, <1>3, <2>1
  <2>3. Full(d.secs)[i] = Full(b.secs)[i]
    BY <1>2, <2>1
  <2> QED
    BY ONLY <1>2, <2>2, <2>3, FullRecord
<1>4. d.key = b.key /\ d.s = b.s /\ d.lists = b.lists /\ Len(d.secs) = Len(b.secs)
  BY <1>1, <1>2
<1> QED
  BY <1>3, <1>4, Zenon DEF SetOutcome

LEMMA SetApplied ==
    ASSUME NEW b \in Disk, Sound(b.secs), NEW c \in Ctxs, NEW a \in Ctxs,
           Like(b.secs, c.secs), c.s = b.s, a.lists = b.lists,
           NEW r, r.fault = 0, NEW n \in Nat, DOMAIN r.entries = 1 .. n,
           SetUpTo(c, r.entries, n, a),
           NEW d, d = [secs |-> a.secs, s |-> a.s, key |-> r.key, lists |-> a.lists]
    PROVE  SetOutcome(r, b, d)
<1> DEFINE entries == r.entries
           m == Len(b.secs)
           F == Full(b.secs)
           G == Full(a.secs)
           V(i) == {j \in {k \in DOMAIN entries : entries[k].name.leaf = "v"} :
                      TargetOf(b.secs, entries[j].name.ref) = i}
           A(i) == {j \in {k \in DOMAIN entries : entries[k].name.leaf = "a"} :
                      TargetOf(b.secs, entries[j].name.ref) = i}
           S == {j \in DOMAIN entries : entries[j].name.leaf = "s"}
<1>1. /\ Len(c.secs) = m /\ InstNumbers(c.secs) = InstNumbers(b.secs) /\ Full(c.secs) = F
      /\ \A ref : TargetOf(c.secs, ref) = TargetOf(b.secs, ref)
  <2>1. Len(c.secs) = m /\ InstNumbers(c.secs) = InstNumbers(b.secs) /\ Full(c.secs) = F
    BY DEF Like
  <2>2. \A ref : TargetOf(c.secs, ref) = TargetOf(b.secs, ref)
    BY <2>1 DEF TargetOf
  <2> QED
    BY <2>1, <2>2
<1>2. /\ S = Scalars(entries, n)
      /\ \A i : V(i) = Named(entries, n, "v", c.secs, i) /\ A(i) = Named(entries, n, "a", c.secs, i)
  BY <1>1 DEF Scalars, Named
<1>3. /\ Len(a.secs) = m /\ InstNumbers(a.secs) = InstNumbers(b.secs)
      /\ a.s = LastOf(entries, S, b.s)
  BY <1>1, <1>2 DEF SetUpTo
<1>4. /\ b.secs \in Seq(Section) /\ c.secs \in Seq(Section) /\ a.secs \in Seq(Section)
      /\ DOMAIN a.secs = 1 .. m
  BY <1>3, SectionsAre DEF Ctxs, Sound
<1>5. ASSUME ~Renames(entries), NEW i \in 1 .. m
      PROVE  G[i] = [inst |-> F[i].inst, alias |-> LastOf(entries, A(i), F[i].alias),
                     v |-> LastOf(entries, V(i), F[i].v)]
  <2> DEFINE x == F[i]
             y == G[i]
             v == LastOf(entries, V(i), x.v)
             l == LastOf(entries, A(i), x.alias)
  <2>2. y = [inst |-> y.inst, alias |-> y.alias, v |-> y.v]
    BY <1>3, <1>4, FullRecord
  <2>3. y.inst = x.inst
    BY <1>3, <1>4, FullFields
  <2>4. y.v = a.secs[i].v /\ x.v = c.secs[i].v
    <3>1. y.v = a.secs[i].v
      BY <1>3, <1>4, FullFields
    <3>2. Full(c.secs)[i].v = c.secs[i].v
      BY <1>1, <1>4, FullFields
    <3> QED
      BY <1>1, <3>1, <3>2
  <2>5. a.secs[i].v = LastOf(entries, Named(entries, n, "v", c.secs, i), c.secs[i].v)
        /\ y.alias = LastOf(entries, Named(entries, n, "a", c.secs, i), Full(c.secs)[i].alias)
    <3> HIDE DEF V, A
    <3> QED
      BY <1>1, <1>5 DEF SetUpTo
  <2>6. y.v = v /\ y.alias = l
    <3> HIDE DEF V, A
    <3> QED
      BY <1>1, <1>2, <2>4, <2>5
  <2> HIDE DEF x, y, v, l
  <2>7. y = [inst |-> x.inst, alias |-> l, v |-> v]
    BY <2>2, <2>3, <2>6
  <2> QED
    BY <2>7 DEF x, y, v, l
<1>6. /\ d.key = r.key /\ d.s = LastOf(entries, S, b.s) /\ d.lists = b.lists
      /\ Len(d.secs) = m /\ DOMAIN d.secs = 1 .. m /\ Full(d.secs) = G
  <2> HIDE DEF S, m, G
  <2> QED
    BY <1>3, <1>4 DEF G
<1>7. ASSUME ~Renames(entries), NEW i \in DOMAIN d.secs
      PROVE  Full(d.secs)[i] = [inst |-> F[i].inst, v |-> LastOf(entries, V(i), F[i].v),
                                alias |-> LastOf(entries, A(i), F[i].alias)]
  <2> HIDE DEF V, A, F, G
  <2> QED
    BY <1>5, <1>6, <1>7
<1> QED
  BY <1>6, <1>7, Zenon DEF SetOutcome

Shown == {Path(n, leaf) : n \in Inst, leaf \in {"v", "a"}} \union {Scalar("s")}
NoteOutcome(r, b, d) ==
    r.kind = "attributes" =>
      \A p \in Shown :
        LET over == {i \in DOMAIN r.entries : Covers(NamedPath(b.secs, r.entries[i].name), p)}
            old == get_parameter_notification(b.lists, p)
        IN  get_parameter_notification(d.lists, p) =
              IF r.fault # 0 THEN old ELSE LastOf(r.entries, over, old)

LEMMA NoteRefused ==
    ASSUME NEW r, r.fault # 0, NEW b, NEW d, d.lists = b.lists
    PROVE  NoteOutcome(r, b, d)
BY DEF NoteOutcome

LEMMA NoteApplied ==
    ASSUME NEW b, NEW c, NEW a, Full(c.secs) = Full(b.secs), c.lists = b.lists,
           NEW r, r.fault = 0, NEW n \in Nat, DOMAIN r.entries = 1 .. n,
           NotedUpTo(c, r.entries, n, a), NEW d, d.lists = a.lists
    PROVE  NoteOutcome(r, b, d)
<1>1. ASSUME NEW p \in Shown
      PROVE  p \in Paths
  <2>1. "v" \in Word /\ "a" \in Word /\ "s" \in Word
    BY DEF Word
  <2>2. \A k \in Inst : k \in Nat
    BY DEF Inst
  <2>3. \A k \in Nat : Path(k, "v") \in Paths /\ Path(k, "a") \in Paths /\ Scalar("s") \in Paths
    BY <2>1, PathIs
  <2>4. Scalar("s") \in Paths
    BY <2>3
  <2> QED
    BY <1>1, <2>2, <2>3, <2>4 DEF Shown
<1>2. \A p : {i \in DOMAIN r.entries : Covers(NamedPath(b.secs, r.entries[i].name), p)}
               = Above(r.entries, n, c.secs, p)
  <2>1. \A x : NamedPath(b.secs, x) = NamedPath(c.secs, x)
    BY DEF NamedPath, TargetOf
  <2> QED
    BY <2>1 DEF Above
<1>3. ASSUME NEW p \in Shown
      PROVE  get_parameter_notification(d.lists, p) =
               LastOf(r.entries,
                      {i \in DOMAIN r.entries : Covers(NamedPath(b.secs, r.entries[i].name), p)},
                      get_parameter_notification(b.lists, p))
  <2>1. p \in Paths
    BY <1>1, <1>3
  <2>2. get_parameter_notification(a.lists, p) =
          LastOf(r.entries, Above(r.entries, n, c.secs, p), get_parameter_notification(c.lists, p))
    BY <2>1 DEF NotedUpTo
  <2>3. {i \in DOMAIN r.entries : Covers(NamedPath(b.secs, r.entries[i].name), p)}
          = Above(r.entries, n, c.secs, p)
    BY <1>2
  <2> QED
    BY ONLY <2>2, <2>3, c.lists = b.lists, d.lists = a.lists, Zenon
<1> QED
  BY <1>3 DEF NoteOutcome

-----------------------------------------------------------------------------
(***************************************************************************)
(* The invariant, and what the steps have in common.                       *)
(***************************************************************************)
AddOutcome(r, d) ==
    r.kind = "add" =>
      /\ Last(d.secs).inst = r.entries[1]
      /\ \A leaf \in {"v", "a"} :
           get_parameter_notification(d.lists, Path(r.entries[1], leaf)) = 0

(* Between two RPCs the sections are in the order of their numbers and the *)
(* aliases are those of the numbers; the answer of an RPC stands until its *)
(* context is forgotten.                                                   *)
DataInvariant ==
    /\ disk \in Disk /\ Sound(disk.secs)
    /\ changed \subseteq {"cwmp", "data"} /\ reload \in BOOLEAN
    /\ SetOutcome(rpc, before, disk)
    /\ NoteOutcome(rpc, before, disk)
    /\ AddOutcome(rpc, disk)
    /\ ServicesFollow

LEMMA DiskFields ==
    ASSUME NEW d \in Disk
    PROVE  /\ d = [secs |-> d.secs, s |-> d.s, key |-> d.key, lists |-> d.lists]
           /\ d.secs \in Seq(Section) /\ d.s \in Values
           /\ d.key \in ParameterKeys \union {"none"} /\ d.lists \in Listing
BY DEF Disk

LEMMA Started ==
    ASSUME DataInvariant
    PROVE  /\ Ctx \in Ctxs /\ Ctx.secs = disk.secs /\ Ctx.s = disk.s /\ Ctx.key = disk.key
           /\ Ctx.lists = disk.lists /\ Ctx.fault = 0
<1>1. Sound(disk.secs) /\ disk \in Disk
  BY DEF DataInvariant
<1>2. /\ disk.secs \in Seq(Section) /\ disk.s \in Values
      /\ disk.key \in ParameterKeys \union {"none"} /\ disk.lists \in Listing
  BY <1>1, DiskFields
<1>3. /\ Ctx.secs = disk.secs /\ Ctx.s = disk.s /\ Ctx.key = disk.key
      /\ Ctx.lists = disk.lists /\ Ctx.fault = 0
  BY DEF Ctx
<1>4. Ctx \in Context
  BY <1>2 DEF Ctx, Context
<1> QED
  BY <1>1, <1>3, <1>4 DEF Ctxs

LEMMA SameValues ==
    ASSUME NEW b, NEW d, DOMAIN d.secs = DOMAIN b.secs, d.s = b.s,
           \A i \in DOMAIN b.secs : d.secs[i].v = b.secs[i].v
    PROVE  Vals(d) = Vals(b)
BY DEF Vals

LEMMA Kept ==
    ASSUME DataInvariant, NEW c, Like(disk.secs, c.secs), Keep(c)
    PROVE  /\ disk' \in Disk /\ Sound(disk'.secs) /\ disk'.secs = c.secs
           /\ disk'.s = disk.s /\ disk'.key = disk.key /\ disk'.lists = disk.lists
           /\ Vals(disk') = Vals(disk)
<1>1. disk \in Disk /\ Sound(disk.secs)
  BY DEF DataInvariant
<1>2. /\ disk = [secs |-> disk.secs, s |-> disk.s, key |-> disk.key, lists |-> disk.lists]
      /\ disk.s \in Values /\ disk.key \in ParameterKeys \union {"none"} /\ disk.lists \in Listing
  BY <1>1, DiskFields
<1>3. disk' = [secs |-> c.secs, s |-> disk.s, key |-> disk.key, lists |-> disk.lists]
  BY <1>2 DEF Keep
<1>4. /\ disk.secs \in Seq(Section) /\ c.secs \in Seq(Section) /\ Sound(c.secs)
      /\ DOMAIN c.secs = DOMAIN disk.secs /\ DOMAIN disk.secs = 1 .. Len(disk.secs)
      /\ \A i \in 1 .. Len(disk.secs) : c.secs[i].v = disk.secs[i].v
  BY <1>1, LikeValues, SectionsAre
<1>5. disk' \in Disk
  BY <1>2, <1>3, <1>4 DEF Disk
<1>6. /\ disk'.secs = c.secs /\ disk'.s = disk.s /\ disk'.key = disk.key
      /\ disk'.lists = disk.lists
  BY <1>3
<1>7. Vals(disk') = Vals(disk)
  BY <1>4, <1>6, SameValues
<1> QED
  BY <1>4, <1>5, <1>6, <1>7

LEMMA Written ==
    ASSUME DataInvariant, NEW c \in Ctxs, Commit(c), UNCHANGED <<running, reload>>
    PROVE  /\ disk' \in Disk /\ Sound(disk'.secs)
           /\ changed' \subseteq {"cwmp", "data"} /\ reload' \in BOOLEAN
           /\ ServicesFollow'
           /\ disk' = [secs |-> c.secs, s |-> c.s, key |-> c.key, lists |-> c.lists]
<1>1. disk' = [secs |-> c.secs, s |-> c.s, key |-> c.key, lists |-> c.lists]
  BY DEF Commit
<1>2. disk' \in Disk /\ Sound(disk'.secs) /\ disk'.secs = c.secs /\ disk'.s = c.s
  BY <1>1 DEF Ctxs, Context, Disk
<1>3. changed' \subseteq {"cwmp", "data"} /\ changed \subseteq changed' /\ reload' \in BOOLEAN
  BY DEF Commit, Changes, DataInvariant
<1>4. c.secs # disk.secs \/ c.s # disk.s => "data" \in changed'
  BY DEF Commit, Changes
<1>5. c.secs = disk.secs /\ c.s = disk.s => Vals(disk') = Vals(disk)
  BY <1>2, SameValues
<1>6. Vals(disk) = running \/ "data" \in changed
  BY DEF DataInvariant, ServicesFollow
<1>7. Vals(disk') = running' \/ "data" \in changed'
  BY <1>3, <1>4, <1>5, <1>6
<1> QED
  BY <1>1, <1>2, <1>3, <1>7 DEF ServicesFollow

LEMMA Answered ==
    ASSUME NEW kind, NEW entries, NEW key, NEW fault, Answer(kind, entries, key, fault)
    PROVE  /\ rpc'.kind = kind /\ rpc'.entries = entries /\ rpc'.key = key /\ rpc'.fault = fault
           /\ before' = disk
BY DEF Answer

LEMMA OtherKind ==
    ASSUME NEW r, NEW b, NEW d
    PROVE  /\ r.kind # "set" => SetOutcome(r, b, d)
           /\ r.kind # "attributes" => NoteOutcome(r, b, d)
           /\ r.kind # "add" => AddOutcome(r, d)
BY Zenon DEF SetOutcome, NoteOutcome, AddOutcome

LEMMA RefusedKeeps ==
    ASSUME DataInvariant, NEW c, Like(disk.secs, c.secs), NEW kind, kind # "add",
           NEW entries, NEW key, NEW fault, fault # 0, Refused(c, kind, entries, key, fault),
           running' = running, reload' \in BOOLEAN
    PROVE  DataInvariant'
<1>1. Keep(c) /\ Answer(kind, entries, key, fault) /\ changed' = changed
  BY DEF Refused
<1>2. /\ disk' \in Disk /\ Sound(disk'.secs) /\ disk'.lists = disk.lists
      /\ Vals(disk') = Vals(disk)
  BY <1>1, Kept
<1>3. rpc'.fault # 0 /\ rpc'.kind # "add" /\ before' = disk
  BY <1>1, Answered
<1>4. disk \in Disk /\ Sound(disk.secs) /\ changed \subseteq {"cwmp", "data"} /\ ServicesFollow
  BY DEF DataInvariant
<1>5. SetOutcome(rpc', before', disk')
  BY <1>1, <1>3, <1>4, SetRefused DEF Keep
<1>6. NoteOutcome(rpc', before', disk')
  BY <1>2, <1>3, NoteRefused
<1>7. AddOutcome(rpc', disk')
  BY <1>3, OtherKind
<1>8. ServicesFollow'
  BY <1>1, <1>2, <1>4 DEF ServicesFollow
<1> QED
  BY <1>1, <1>2, <1>4, <1>5, <1>6, <1>7, <1>8 DEF DataInvariant

-----------------------------------------------------------------------------
(***************************************************************************)
(* What a request holds.                                                   *)
(***************************************************************************)
LEMMA ListIs ==
    ASSUME NEW S, NEW e \in Lists(S)
    PROVE  \E n \in Nat \ {0} : e \in [1 .. n -> S]
<1>1. PICK n \in 1 .. MaxEntries : e \in [1 .. n -> S]
  BY DEF Lists
<1>2. n \in Nat \ {0}
  OBVIOUS
<1> QED
  BY <1>1, <1>2

LEMMA OneEntry ==
    ASSUME NEW S, NEW x \in S
    PROVE  <<x>> \in [1 .. 1 -> S]
OBVIOUS

LEMMA RequestIs ==
    ASSUME NEW S, NEW n \in Nat, NEW e \in [1 .. n -> S]
    PROVE  /\ e \in Seq(S) /\ Len(e) = n /\ DOMAIN e = 1 .. n
           /\ \A i \in 1 .. n : e[i] \in S
OBVIOUS

LEMMA ValueRequest ==
    ASSUME NEW e \in Lists(ValueEntry) \union WrongValues
    PROVE  /\ Len(e) \in Nat /\ DOMAIN e = 1 .. Len(e) /\ \E S : e \in Seq(S)
           /\ \A i \in 1 .. Len(e) : Setting(e[i])
<1>1. \A x \in ValueEntry : Setting(x)
  <2>1. ASSUME NEW x \in {p \in SetNames : p.leaf # "a"}, NEW v
        PROVE  Setting([name |-> x, value |-> v])
    BY NamesAssumption DEF Setting
  <2>2. ASSUME NEW x \in {p \in SetNames : p.leaf = "a"}
        PROVE  Setting([name |-> x, value |-> Custom])
    BY NamesAssumption DEF Setting
  <2> QED
    BY <2>1, <2>2 DEF ValueEntry
<1>2. CASE e \in Lists(ValueEntry)
  <2>1. PICK n \in Nat : e \in [1 .. n -> ValueEntry]
    BY <1>2, ListIs
  <2>2. /\ e \in Seq(ValueEntry) /\ Len(e) = n /\ DOMAIN e = 1 .. n
        /\ \A i \in 1 .. n : e[i] \in ValueEntry
    BY <2>1, RequestIs
  <2> QED
    BY <1>1, <2>2
<1>3. CASE e \in WrongValues
  <2>1. PICK x \in {p \in SetNames : p.leaf = "v"} : e = <<[name |-> x, value |-> 99]>>
    BY <1>3 DEF WrongValues
  <2>2. Setting([name |-> x, value |-> 99])
    BY NamesAssumption DEF Setting
  <2>3. e \in [1 .. 1 -> {[name |-> x, value |-> 99]}]
    BY <2>1, OneEntry
  <2>4. /\ e \in Seq({[name |-> x, value |-> 99]}) /\ Len(e) = 1 /\ DOMAIN e = 1 .. 1
        /\ \A i \in 1 .. 1 : e[i] \in {[name |-> x, value |-> 99]}
    BY <2>3, RequestIs
  <2> QED
    BY <2>2, <2>4
<1> QED
  BY <1>2, <1>3

LEMMA AttributeRequest ==
    ASSUME NEW e \in Lists(AttributeEntry) \union NoChange
    PROVE  /\ Len(e) \in Nat /\ DOMAIN e = 1 .. Len(e)
           /\ \A i \in 1 .. Len(e) : Noting(e[i])
<1>1. \A x \in AttributeEntry : Noting(x)
  BY NamesAssumption, ValuesAssumption DEF AttributeEntry, Noting
<1>2. CASE e \in Lists(AttributeEntry)
  <2>1. PICK n \in Nat : e \in [1 .. n -> AttributeEntry]
    BY <1>2, ListIs
  <2>2. Len(e) = n /\ DOMAIN e = 1 .. n /\ \A i \in 1 .. n : e[i] \in AttributeEntry
    BY <2>1, RequestIs
  <2> QED
    BY <1>1, <2>2
<1>3. CASE e \in NoChange
  <2>1. PICK x \in AttributeNames : e = <<[name |-> x, value |-> 0, change |-> FALSE]>>
    BY <1>3 DEF NoChange
  <2> DEFINE y == [name |-> x, value |-> 0, change |-> FALSE]
  <2>2. Noting(y)
    BY NamesAssumption DEF Noting
  <2> HIDE DEF y
  <2>3. e \in [1 .. 1 -> {y}]
    BY <2>1, OneEntry DEF y
  <2>4. Len(e) = 1 /\ DOMAIN e = 1 .. 1 /\ \A i \in 1 .. 1 : e[i] \in {y}
    BY <2>3, RequestIs
  <2> QED
    BY <2>2, <2>4
<1> QED
  BY <1>2, <1>3

LEMMA RepeatedIs ==
    ASSUME NEW e, Len(e) \in Nat, DOMAIN e = 1 .. Len(e)
    PROVE  Repeated(e) \in 0 .. Len(e)
<1> DEFINE twice == [i \in DOMAIN e |-> \E j \in DOMAIN e : j > i /\ e[j].name = e[i].name]
           I == {i \in 1 .. Len(twice) : twice[i]}
           n == Len(e)
<1>1. Repeated(e) = IF I # {} THEN Min(I) ELSE 0
  BY DEF Repeated, SelectInSeq
<1>2. Len(twice) = n /\ n \in Nat
  OBVIOUS
<1> HIDE DEF twice, n
<1>3. I # {} => Min(I) \in I
  <2>1. I \in SUBSET Nat
    BY <1>2
  <2> HIDE DEF I
  <2> QED
    BY <2>1, MinNat
<1>4. I \subseteq 1 .. n
  BY <1>2
<1> HIDE DEF I
<1>5. (IF I # {} THEN Min(I) ELSE 0) \in 0 .. n
  <2>1. CASE I = {}
    BY <1>2, <2>1
  <2>2. CASE I # {}
    <3>1. Min(I) \in 1 .. n
      BY <1>3, <1>4, <2>2, Zenon
    <3>2. Min(I) \in 0 .. n
      BY <1>2, <3>1
    <3> QED
      BY <2>2, <3>2, Zenon
  <2> QED
    BY <2>1, <2>2
<1> QED
  BY <1>1, <1>5 DEF n

LEMMA ReadIs ==
    ASSUME NEW e, NEW S, e \in Seq(S), Repeated(e) # 0, Repeated(e) \in 0 .. Len(e)
    PROVE  Len(SubSeq(e, 1, Repeated(e) - 1)) \in Nat
<1> DEFINE k == Repeated(e) - 1
<1>1. k \in Nat /\ k <= Len(e)
  OBVIOUS
<1> HIDE DEF k
<1>2. Len(SubSeq(e, 1, k)) = k
  BY <1>1, PrefixIs
<1> QED
  BY <1>1, <1>2 DEF k

-----------------------------------------------------------------------------
(***************************************************************************)
(* One lemma for each RPC.                                                 *)
(***************************************************************************)
LEMMA SetKeeps ==
    ASSUME DataInvariant, NEW e \in Lists(ValueEntry) \union WrongValues,
           NEW k \in ParameterKeys \union {"none"},
           cwmp_handle_rpc_cpe_set_parameter_values(e, k)
    PROVE  DataInvariant'
<1> DEFINE r == Repeated(e)
           read == IF r = 0 THEN e ELSE SubSeq(e, 1, r - 1)
           c == dm_entry_param_method("set", Ctx, read)
           a == dm_entry_apply("set", c, e)
           n == Len(e)
<1>1. /\ n \in Nat /\ DOMAIN e = 1 .. n
      /\ \A i \in 1 .. n : Setting(e[i])
  BY ValueRequest
<1>2. Len(read) \in Nat
  <2>1. r \in 0 .. n
    BY <1>1, RepeatedIs
  <2>2. PICK S : e \in Seq(S)
    BY ValueRequest
  <2>3. r # 0 => Len(SubSeq(e, 1, r - 1)) \in Nat
    BY <2>1, <2>2, ReadIs
  <2> HIDE DEF r
  <2> QED
    BY <1>1, <2>3
<1>3. /\ Ctx \in Ctxs /\ Ctx.secs = disk.secs /\ Ctx.s = disk.s /\ Ctx.lists = disk.lists
      /\ Ctx.fault = 0
  BY Started
<1>4. disk \in Disk /\ Sound(disk.secs)
  BY DEF DataInvariant
<1>5. /\ UNCHANGED <<running, reload>>
      /\ IF r # 0 \/ c.fault # 0 THEN Refused(c, "set", e, k, 9003)
         ELSE IF k = "none" THEN Refused(c, "set", e, k, 9001)
         ELSE IF a.fault # 0 THEN Reverted(c, a, e, k)
         ELSE Commit([a EXCEPT !.key = k]) /\ Answer("set", e, k, 0)
  BY DEF cwmp_handle_rpc_cpe_set_parameter_values
<1> HIDE DEF r, read
<1>6. /\ c \in Ctxs /\ Like(disk.secs, c.secs) /\ c.s = disk.s /\ c.lists = disk.lists
      /\ c.fault = 0 => \A i \in 1 .. Len(read) : Fits("set", read[i])
  <2>1. LET d == dm_entry_param_method("set", Ctx, read)
        IN  /\ d \in Ctxs /\ Like(Ctx.secs, d.secs)
            /\ d.s = Ctx.s /\ d.key = Ctx.key /\ d.lists = Ctx.lists
            /\ d.fault = 0 => \A i \in 1 .. Len(read) : Fits("set", read[i])
    BY <1>2, <1>3, CheckedAll
  <2> QED
    BY <1>3, <2>1
<1>7. reload \in BOOLEAN
  BY DEF DataInvariant
<1>8. CASE r # 0 \/ c.fault # 0 \/ k = "none" \/ a.fault # 0
  <2> HIDE DEF c, a
  <2>1. PICK f : f # 0 /\ Refused(c, "set", e, k, f)
    BY <1>5, <1>8 DEF Reverted
  <2> QED
    BY <1>5, <1>6, <1>7, <2>1, RefusedKeeps
<1>9. CASE r = 0 /\ c.fault = 0 /\ k # "none" /\ a.fault = 0
  <2>1. \A i \in 1 .. n : Setting(e[i]) /\ Fits("set", e[i])
    BY <1>1, <1>6, <1>9 DEF read
  <2>2. a \in Ctxs /\ a.key = c.key /\ a.lists = c.lists /\ SetUpTo(c, e, n, a)
    <3> HIDE DEF c
    <3>1. LET d == dm_entry_apply("set", c, e)
          IN  /\ d \in Ctxs /\ d.key = c.key /\ d.lists = c.lists
              /\ d.fault = 0 => SetUpTo(c, e, n, d)
      BY <1>1, <1>6, <2>1, SetAll
    <3> QED
      BY <1>9, <3>1
  <2> HIDE DEF c, a
  <2> DEFINE b == [a EXCEPT !.key = k]
  <2>3. b \in Ctxs /\ b.secs = a.secs /\ b.s = a.s /\ b.lists = a.lists /\ b.key = k
    BY <2>2 DEF Ctxs, Context
  <2> HIDE DEF b
  <2>4. Commit(b) /\ Answer("set", e, k, 0)
    BY <1>5, <1>9 DEF b
  <2>5. /\ disk' \in Disk /\ Sound(disk'.secs)
        /\ changed' \subseteq {"cwmp", "data"} /\ reload' \in BOOLEAN /\ ServicesFollow'
        /\ disk' = [secs |-> b.secs, s |-> b.s, key |-> b.key, lists |-> b.lists]
    BY <1>5, <2>3, <2>4, Written
  <2>6. /\ rpc'.kind = "set" /\ rpc'.entries = e /\ rpc'.key = k /\ rpc'.fault = 0
        /\ before' = disk
    BY <2>4, Answered
  <2>7. SetOutcome(rpc', before', disk')
    <3>1. disk' = [secs |-> a.secs, s |-> a.s, key |-> rpc'.key, lists |-> a.lists]
      BY <2>3, <2>5, <2>6
    <3>2. DOMAIN rpc'.entries = 1 .. n /\ SetUpTo(c, rpc'.entries, n, a) /\ a.lists = disk.lists
      BY <1>1, <1>6, <2>2, <2>6
    <3> HIDE DEF n
    <3> QED
      BY ONLY <1>1, <1>4, <1>6, <2>2, <2>6, <3>1, <3>2, SetApplied
  <2>8. NoteOutcome(rpc', before', disk') /\ AddOutcome(rpc', disk')
    BY <2>6, OtherKind
  <2> QED
    BY <2>5, <2>7, <2>8 DEF DataInvariant
<1> QED
  BY <1>8, <1>9

LEMMA NoteKeeps ==
    ASSUME DataInvariant, NEW e \in Lists(AttributeEntry) \union NoChange,
           cwmp_handle_rpc_cpe_set_parameter_attributes(e)
    PROVE  DataInvariant'
<1> DEFINE c == dm_entry_param_method("attributes", Ctx, e)
           a == dm_entry_apply("attributes", c, e)
           n == Len(e)
<1>1. n \in Nat /\ DOMAIN e = 1 .. n /\ \A i \in 1 .. n : Noting(e[i])
  BY AttributeRequest
<1>2. Ctx \in Ctxs /\ Ctx.secs = disk.secs /\ Ctx.s = disk.s /\ Ctx.lists = disk.lists
  BY Started
<1>3. /\ disk \in Disk /\ Sound(disk.secs) /\ reload \in BOOLEAN
      /\ changed \subseteq {"cwmp", "data"} /\ ServicesFollow
  BY DEF DataInvariant
<1>4. /\ running' = running
      /\ IF c.fault # 0
         THEN Refused(c, "attributes", e, disk.key, c.fault) /\ UNCHANGED reload
         ELSE IF a.fault # 0
         THEN Refused(c, "attributes", e, disk.key, a.fault) /\ reload' \in {reload, TRUE}
         ELSE /\ disk' = [secs |-> a.secs, s |-> disk.s, key |-> disk.key, lists |-> a.lists]
              /\ UNCHANGED changed
              /\ Answer("attributes", e, disk.key, 0)
              /\ reload' = TRUE
  BY DEF cwmp_handle_rpc_cpe_set_parameter_attributes
<1>5. /\ c \in Ctxs /\ Like(disk.secs, c.secs) /\ c.s = disk.s /\ c.lists = disk.lists
  <2>1. LET d == dm_entry_param_method("attributes", Ctx, e)
        IN  /\ d \in Ctxs /\ Like(Ctx.secs, d.secs)
            /\ d.s = Ctx.s /\ d.key = Ctx.key /\ d.lists = Ctx.lists
            /\ d.fault = 0 => \A i \in 1 .. Len(e) : Fits("attributes", e[i])
    BY <1>1, <1>2, CheckedAll
  <2> QED
    BY <1>2, <2>1
<1> HIDE DEF c
<1>6. /\ a \in Ctxs /\ Like(c.secs, a.secs)
      /\ a.fault = 0 => NotedUpTo(c, e, n, a)
  <2>1. LET d == dm_entry_apply("attributes", c, e)
        IN  /\ d \in Ctxs /\ d.key = c.key /\ d.s = c.s /\ Like(c.secs, d.secs)
            /\ d.fault = 0 => NotedUpTo(c, e, n, d)
    BY <1>1, <1>5, NoteAll
  <2> QED
    BY <2>1
<1> HIDE DEF a
<1>7. Like(disk.secs, a.secs)
  BY <1>5, <1>6, LikeAgain
<1>8. CASE c.fault # 0
  BY <1>3, <1>4, <1>5, <1>8, RefusedKeeps
<1>9. CASE c.fault = 0 /\ a.fault # 0
  BY <1>3, <1>4, <1>5, <1>9, RefusedKeeps
<1>10. CASE c.fault = 0 /\ a.fault = 0
  <2>1. /\ disk' = [secs |-> a.secs, s |-> disk.s, key |-> disk.key, lists |-> a.lists]
        /\ changed' = changed /\ running' = running /\ reload' = TRUE
        /\ Answer("attributes", e, disk.key, 0)
    BY <1>4, <1>10
  <2>2. disk' = [secs |-> a.secs, s |-> disk.s, key |-> disk.key, lists |-> a.lists]
    BY <1>3, <2>1 DEF Disk
  <2>3. disk' \in Disk /\ Sound(disk'.secs) /\ disk'.secs = a.secs /\ disk'.s = disk.s
        /\ disk'.lists = a.lists
    BY <1>3, <1>6, <2>2 DEF Disk, Ctxs, Context
  <2>4. Vals(disk') = Vals(disk)
    <3>1. /\ disk.secs \in Seq(Section) /\ DOMAIN a.secs = DOMAIN disk.secs
          /\ \A i \in 1 .. Len(disk.secs) : a.secs[i].v = disk.secs[i].v
      BY <1>3, <1>7, LikeValues
    <3>2. DOMAIN disk.secs = 1 .. Len(disk.secs)
      BY <3>1, SectionsAre
    <3> QED
      BY <2>3, <3>1, <3>2, SameValues
  <2>5. /\ rpc'.kind = "attributes" /\ rpc'.entries = e /\ rpc'.fault = 0 /\ before' = disk
    BY <2>1, Answered
  <2>6. NoteOutcome(rpc', before', disk')
    <3>1. Full(c.secs) = Full(disk.secs)
      BY <1>5 DEF Like
    <3>2. DOMAIN rpc'.entries = 1 .. n /\ NotedUpTo(c, rpc'.entries, n, a)
      BY <1>1, <1>6, <1>10, <2>5
    <3> HIDE DEF n
    <3> QED
      BY ONLY <1>1, <1>5, <2>3, <2>5, <3>1, <3>2, NoteApplied
  <2>7. SetOutcome(rpc', before', disk') /\ AddOutcome(rpc', disk')
    BY <2>5, OtherKind
  <2>8. ServicesFollow'
    BY <1>3, <2>1, <2>4 DEF ServicesFollow
  <2> QED
    BY <1>3, <2>1, <2>3, <2>6, <2>7, <2>8 DEF DataInvariant
<1> QED
  BY <1>8, <1>9, <1>10

LEMMA WalkKeeps ==
    ASSUME DataInvariant, NEW name, Walk(name)
    PROVE  DataInvariant'
<1> DEFINE c == Enter(Ctx, name.ref)
           d == IF name.ref # None THEN Walked(c, name.ref)
                ELSE IF name.leaf = "" THEN [c EXCEPT !.secs = Browse(@, ByAlias(c), Len(@))]
                ELSE c
<1>1. rpc.kind = "none" /\ Keep(d) /\ UNCHANGED <<running, changed, reload, rpc, before>>
  BY DEF Walk, Ready, Idle
<1>2. c \in Ctxs /\ c.secs = disk.secs /\ Sound(c.secs)
  <2>1. Ctx \in Ctxs /\ Ctx.secs = disk.secs
    BY Started
  <2>2. Enter(Ctx, name.ref) \in Ctxs /\ Enter(Ctx, name.ref).secs = Ctx.secs
    BY <2>1, Enters
  <2> QED
    BY <2>1, <2>2 DEF Ctxs
<1>3. ByAlias(c) \in BOOLEAN
  BY <1>2 DEF ByAlias, Ctxs, Context
<1> HIDE DEF c
<1>4. Like(disk.secs, d.secs)
  <2>1. CASE name.ref # None
    <3>1. Like(c.secs, Walked(c, name.ref).secs)
      BY <1>2, Walks
    <3> QED
      BY <1>2, <2>1, <3>1
  <2>2. CASE name.ref = None /\ name.leaf = ""
    <3> DEFINE t == Browse(c.secs, ByAlias(c), Len(c.secs))
    <3>1. Len(c.secs) \in Int
      BY <1>2, SectionsAre DEF Sound
    <3>2. Like(c.secs, t)
      BY <1>2, <1>3, <3>1, BrowsedLike
    <3> HIDE DEF t
    <3>3. [c EXCEPT !.secs = t].secs = t
      BY <1>2 DEF Ctxs, Context
    <3>4. d = [c EXCEPT !.secs = t]
      BY <2>2 DEF t
    <3> QED
      BY <1>2, <3>2, <3>3, <3>4
  <2>3. CASE name.ref = None /\ name.leaf # ""
    <3>1. Like(c.secs, c.secs)
      BY <1>2, LikeItself
    <3>2. d = c
      BY <2>3
    <3> QED
      BY <1>2, <3>1, <3>2
  <2> QED
    BY <2>1, <2>2, <2>3
<1> HIDE DEF d
<1>5. disk' \in Disk /\ Sound(disk'.secs) /\ Vals(disk') = Vals(disk)
  BY <1>1, <1>4, Kept
<1>6. /\ changed \subseteq {"cwmp", "data"} /\ reload \in BOOLEAN /\ ServicesFollow
  BY DEF DataInvariant
<1>7. /\ SetOutcome(rpc', before', disk') /\ NoteOutcome(rpc', before', disk')
      /\ AddOutcome(rpc', disk')
  BY <1>1, OtherKind
<1>8. ServicesFollow'
  BY <1>1, <1>5, <1>6 DEF ServicesFollow
<1> QED
  BY <1>1, <1>5, <1>6, <1>7, <1>8 DEF DataInvariant

LEMMA NextIs ==
    ASSUME NEW t, Sound(t)
    PROVE  LET secs == Browse(t, FALSE, Len(t))
               n == NextInstance(secs)
           IN  /\ Sound(secs) /\ n \in Nat \ {0}
               /\ \A i \in 1 .. Len(secs) : 0 < secs[i].inst /\ secs[i].inst < n
<1> DEFINE m == Len(t)
           secs == Browse(t, FALSE, m)
           N == InstNumbers(t)
<1>1. t \in Seq(Section) /\ Ordered(t) /\ m \in Nat
  BY SectionsAre DEF Sound
<1>2. Sound(secs)
  <2>1. m \in Int /\ FALSE \in BOOLEAN
    BY <1>1
  <2> HIDE DEF m
  <2> QED
    BY <2>1, BrowsedSound, Zenon
<1>3. /\ Len(secs) = m /\ secs \in Seq(Section)
      /\ \A i \in 1 .. m : secs[i].inst = IF i > m THEN t[i].inst ELSE N[i]
  <2>1. m \in Int /\ FALSE \in BOOLEAN
    BY <1>1
  <2>2. /\ Browse(t, FALSE, m) \in Seq(Section) /\ Len(Browse(t, FALSE, m)) = Len(t)
        /\ \A i \in 1 .. Len(t) :
             Browse(t, FALSE, m)[i].inst = IF i > m THEN t[i].inst ELSE InstNumbers(t)[i]
    <3> HIDE DEF m
    <3> QED
      BY <1>1, <2>1, BrowsedFields, Zenon
  <2> QED
    BY <2>2
<1>4. \A i \in 1 .. m : N[i] \in Nat \ {0}
  BY <1>1, NumbersAre
<1>5. \A i, j \in 1 .. m : i < j => N[i] < N[j]
  BY <1>1, NumbersIncrease
<1> HIDE DEF m, N, secs
<1>6. \A i \in 1 .. m : secs[i].inst = N[i]
  BY <1>1, <1>3
<1>7. CASE m = 0
  <2>1. secs = <<>>
    BY <1>3, <1>7
  <2>2. NextInstance(secs) = 1
    BY <2>1 DEF NextInstance
  <2>3. \A i \in 1 .. Len(secs) : 0 < secs[i].inst /\ secs[i].inst < NextInstance(secs)
    BY <1>3, <1>7
  <2>4. NextInstance(secs) \in Nat \ {0}
    BY <2>2
  <2> QED
    BY <1>2, <2>3, <2>4 DEF secs, m
<1>8. CASE m # 0
  <2>1. secs # <<>> /\ Last(secs) = secs[m]
    BY <1>1, <1>3, <1>8 DEF Last
  <2>2. NextInstance(secs) = N[m] + 1
    BY <1>1, <1>6, <1>8, <2>1 DEF NextInstance
  <2>3. \A i \in 1 .. m : N[i] < N[m] + 1
    BY <1>1, <1>4, <1>5
  <2>4. N[m] + 1 \in Nat \ {0}
    BY <1>1, <1>4, <1>8
  <2>5. \A i \in 1 .. Len(secs) : 0 < secs[i].inst /\ secs[i].inst < NextInstance(secs)
    BY <1>3, <1>4, <1>6, <2>2, <2>3
  <2> QED
    BY <1>2, <2>2, <2>4, <2>5 DEF secs, m
<1> QED
  BY <1>1, <1>7, <1>8

LEMMA ClearedIs ==
    ASSUME NEW l \in Listing, NEW n \in Nat \ {0}
    PROVE  /\ Cleared(l, n) \in Listing
           /\ \A leaf \in {"v", "a"} : get_parameter_notification(Cleared(l, n), Path(n, leaf)) = 0
<1>1. "" \in Word /\ "v" \in Word /\ "a" \in Word
  BY DEF Word
<1>2. Path(n, "") \in Paths /\ \A leaf \in {"v", "a"} : Path(n, leaf) \in Paths
  BY <1>1, PathIs
<1>3. Cleared(l, n) \in Listing
  <2>1. 0 \in 0 .. 6
    OBVIOUS
  <2> QED
    BY <1>2, <2>1, ListsSet, Zenon DEF Cleared
<1>4. ASSUME NEW leaf \in {"v", "a"}
      PROVE  get_parameter_notification(Cleared(l, n), Path(n, leaf)) = 0
  <2> DEFINE p == Path(n, "")
             q == Path(n, leaf)
  <2>1. p \in Paths /\ q \in Paths
    BY <1>2, <1>4
  <2>2. p = <<"T", ToString(n), "">> /\ q = <<"T", ToString(n), leaf>>
    BY DEF Path
  <2>3. Len(p) = 3 /\ Len(q) = 3 /\ p[1] = q[1] /\ p[2] = q[2] /\ p[3] = ""
    <3>1. "T" \in Word /\ ToString(n) \in Word /\ leaf \in Word
      BY <1>1, <1>4 DEF Word
    <3>2. Len(p) = 3 /\ Len(q) = 3
      BY <1>1, <2>2, <3>1, TuplesAre
    <3> HIDE DEF p, q
    <3>3. \A a, b, d : <<a, b, d>>[1] = a /\ <<a, b, d>>[2] = b /\ <<a, b, d>>[3] = d
      OBVIOUS
    <3> QED
      BY <2>2, <3>2, <3>3, Zenon
  <2> HIDE DEF p, q
  <2>4. \A i \in 1 .. Len(p) - 1 : p[i] = q[i]
    <3>1. \A i \in 1 .. 3 - 1 : i = 1 \/ i = 2
      OBVIOUS
    <3> QED
      BY <2>3, <3>1
  <2>5. Covers(p, q)
    <3>1. p[Len(p)] = "" /\ Len(p) <= Len(q)
      <4>1. p[Len(p)] = ""
        BY <2>3, Zenon
      <4>2. Len(p) = 3 /\ Len(q) = 3
        BY <2>3, Zenon
      <4>3. Len(p) <= Len(q)
        BY ONLY <4>2
      <4> QED
        BY <4>1, <4>3
    <3> QED
      BY <2>1, <2>4, <3>1, CoversIs
  <2>6. get_parameter_notification(set_parameter_notification(l, p, 0), q) = 0
    BY <2>1, <2>5, SetIs
  <2> QED
    BY <2>6 DEF Cleared, p, q
<1> QED
  BY <1>3, <1>4

LEMMA AddKeeps ==
    ASSUME DataInvariant, NEW v \in Values, NEW k \in ParameterKeys,
           cwmp_handle_rpc_cpe_add_object(v, k)
    PROVE  DataInvariant'
<1> DEFINE secs == Browse(disk.secs, FALSE, Len(disk.secs))
           n == NextInstance(secs)
           u == Append(secs, [inst |-> n, alias |-> 0, v |-> v])
           l == Cleared(disk.lists, n)
           c == dm_entry_add_object(Ctx, v)
           b == [c EXCEPT !.key = k]
<1>1. /\ Ctx \in Ctxs /\ Ctx.secs = disk.secs /\ Ctx.lists = disk.lists /\ Ctx.s = disk.s
      /\ disk \in Disk /\ Sound(disk.secs) /\ disk.lists \in Listing
  BY Started, DiskFields DEF DataInvariant
<1>2. /\ Commit(b) /\ Answer("add", <<Last(c.secs).inst>>, k, 0)
      /\ UNCHANGED <<running, reload>>
  BY DEF cwmp_handle_rpc_cpe_add_object
<1>3. /\ Sound(secs) /\ n \in Nat \ {0}
      /\ \A i \in 1 .. Len(secs) : 0 < secs[i].inst /\ secs[i].inst < n
  BY <1>1, NextIs
<1>4. c = [Ctx EXCEPT !.secs = u, !.lists = l]
  BY <1>1 DEF dm_entry_add_object
<1> HIDE DEF secs, c
<1>5. Sound(u) /\ Last(u).inst = n
  <2>1. Last(u) = [inst |-> n, alias |-> 0, v |-> v] /\ Sound(u)
    BY <1>3, SoundAppend
  <2> QED
    BY <2>1
<1> HIDE DEF u, n
<1>6. /\ l \in Listing
      /\ \A leaf \in {"v", "a"} : get_parameter_notification(l, Path(n, leaf)) = 0
  BY <1>1, <1>3, ClearedIs
<1> HIDE DEF l
<1>7. b \in Ctxs /\ b.secs = u /\ b.lists = l
  <2>1. u \in Seq(Section)
    BY <1>5 DEF Sound
  <2>2. c \in Context /\ c.secs = u /\ c.lists = l
    BY <1>1, <1>4, <1>6, <2>1 DEF Ctxs, Context
  <2>3. b \in Context /\ b.secs = u /\ b.lists = l
    BY <2>2 DEF Context
  <2> QED
    BY <1>5, <2>3 DEF Ctxs
<1>8. c.secs = u
  BY <1>1, <1>4 DEF Ctxs, Context
<1> HIDE DEF b
<1>9. /\ disk' \in Disk /\ Sound(disk'.secs)
      /\ changed' \subseteq {"cwmp", "data"} /\ reload' \in BOOLEAN /\ ServicesFollow'
      /\ disk' = [secs |-> b.secs, s |-> b.s, key |-> b.key, lists |-> b.lists]
  BY <1>2, <1>7, Written
<1>10. rpc'.kind = "add" /\ rpc'.entries = <<n>> /\ before' = disk
  BY <1>2, <1>5, <1>8, Answered
<1>11. AddOutcome(rpc', disk')
  <2>1. disk'.secs = u /\ disk'.lists = l
    BY <1>7, <1>9
  <2>2. rpc'.entries[1] = n
    BY <1>10
  <2> QED
    BY <1>5, <1>6, <2>1, <2>2 DEF AddOutcome
<1>12. SetOutcome(rpc', before', disk') /\ NoteOutcome(rpc', before', disk')
  BY <1>10, OtherKind
<1> QED
  BY <1>9, <1>11, <1>12 DEF DataInvariant

LEMMA DeleteKeeps ==
    ASSUME DataInvariant, NEW name \in ObjectNames, NEW k \in ParameterKeys,
           cwmp_handle_rpc_cpe_delete_object(name, k)
    PROVE  DataInvariant'
<1> DEFINE ref == name.ref
           z == Enter(Ctx, ref)
           w == Walked(z, ref)
           at == Found(z, ref)
           c == dm_entry_delete_object(Ctx, ref)
           b == [c EXCEPT !.key = k]
<1>1. /\ UNCHANGED <<running, reload>>
      /\ IF c.fault # 0
         THEN Refused(c, "delete", <<name>>, k, c.fault)
         ELSE Commit(b) /\ Answer("delete", <<name>>, k, 0)
  BY DEF cwmp_handle_rpc_cpe_delete_object
<1>2. c = IF ref = None THEN [w EXCEPT !.secs = <<>>]
          ELSE IF at = 0 THEN [w EXCEPT !.fault = 9005]
          ELSE [w EXCEPT !.secs = RemoveAt(w.secs, at)]
  BY DEF dm_entry_delete_object
<1>3. z \in Ctxs /\ z.secs = disk.secs /\ z.fault = 0
  <2>1. Ctx \in Ctxs /\ Ctx.secs = disk.secs /\ Ctx.fault = 0
    BY Started
  <2>2. /\ Enter(Ctx, ref) \in Ctxs /\ Enter(Ctx, ref).secs = Ctx.secs
        /\ Enter(Ctx, ref).fault = Ctx.fault
    BY <2>1, Enters
  <2> QED
    BY <2>1, <2>2
<1> HIDE DEF ref, z
<1>4. /\ w \in Ctxs /\ Like(disk.secs, w.secs) /\ w.fault = 0
      /\ at \in 0 .. Len(disk.secs)
  BY <1>3, Walks
<1> HIDE DEF w, at, c, b
<1>5. w \in Context /\ Sound(w.secs) /\ w.secs \in Seq(Section) /\ Len(w.secs) = Len(disk.secs)
  BY <1>4 DEF Ctxs, Like, Sound
<1>6. CASE ref # None /\ at = 0
  <2>1. c = [w EXCEPT !.fault = 9005]
    BY <1>2, <1>6
  <2>2. c.fault = 9005 /\ c.secs = w.secs
    BY <1>5, <2>1 DEF Context
  <2>3. Refused(c, "delete", <<name>>, k, c.fault) /\ c.fault # 0
    BY <1>1, <2>2
  <2>4. reload' \in BOOLEAN
    BY <1>1 DEF DataInvariant
  <2> QED
    BY <1>1, <1>4, <2>2, <2>3, <2>4, RefusedKeeps
<1>7. CASE ref = None \/ at # 0
  <2> DEFINE t == IF ref = None THEN <<>> ELSE RemoveAt(w.secs, at)
  <2>1. t \in Seq(Section) /\ c = [w EXCEPT !.secs = t] /\ Sound(t)
    <3>1. c = [w EXCEPT !.secs = t]
      BY <1>2, <1>7
    <3>2. Sound(t)
      <4>1. CASE ref = None
        BY <4>1, SoundEmpty
      <4>2. CASE ref # None
        <5>1. at \in 1 .. Len(w.secs)
          BY <1>4, <1>5, <1>7, <4>2, SectionsAre
        <5> QED
          BY <1>5, <4>2, <5>1, SoundRemove
      <4> QED
        BY <4>1, <4>2
    <3> QED
      BY <3>1, <3>2 DEF Sound
  <2> HIDE DEF t
  <2>2. c \in Context /\ c.secs = t /\ c.fault = 0
    BY <1>4, <1>5, <2>1, WithSections
  <2>3. b \in Ctxs
    BY <2>1, <2>2 DEF b, Ctxs, Context
  <2>4. Commit(b) /\ Answer("delete", <<name>>, k, 0)
    BY <1>1, <2>2
  <2>5. /\ disk' \in Disk /\ Sound(disk'.secs)
        /\ changed' \subseteq {"cwmp", "data"} /\ reload' \in BOOLEAN /\ ServicesFollow'
    BY <1>1, <2>3, <2>4, Written
  <2>6. rpc'.kind = "delete"
    BY <2>4, Answered
  <2>7. /\ SetOutcome(rpc', before', disk') /\ NoteOutcome(rpc', before', disk')
        /\ AddOutcome(rpc', disk')
    BY <2>6, OtherKind
  <2> QED
    BY <2>5, <2>7 DEF DataInvariant
<1> QED
  BY <1>6, <1>7

LEMMA CleanKeeps ==
    ASSUME DataInvariant, dm_ctx_clean
    PROVE  DataInvariant'
<1>1. rpc'.kind = "none" /\ UNCHANGED <<disk, running, changed, reload>>
  BY DEF dm_ctx_clean, Idle
<1>2. /\ SetOutcome(rpc', before', disk') /\ NoteOutcome(rpc', before', disk')
      /\ AddOutcome(rpc', disk')
  BY <1>1, OtherKind
<1>3. /\ disk \in Disk /\ Sound(disk.secs) /\ changed \subseteq {"cwmp", "data"}
      /\ reload \in BOOLEAN /\ ServicesFollow
  BY DEF DataInvariant
<1>4. ServicesFollow'
  BY <1>1, <1>3 DEF ServicesFollow, Vals
<1> QED
  BY <1>1, <1>2, <1>3, <1>4 DEF DataInvariant

LEMMA RestartKeeps ==
    ASSUME DataInvariant, dm_entry_restart_services
    PROVE  DataInvariant'
<1>1. /\ rpc'.kind = "none" /\ disk' = disk /\ changed' = {} /\ reload' = FALSE
      /\ running' = IF "data" \in changed THEN Vals(disk) ELSE running
  BY DEF dm_entry_restart_services, Ready, Idle
<1>2. /\ SetOutcome(rpc', before', disk') /\ NoteOutcome(rpc', before', disk')
      /\ AddOutcome(rpc', disk')
  BY <1>1, OtherKind
<1>3. disk \in Disk /\ Sound(disk.secs) /\ ServicesFollow
  BY DEF DataInvariant
<1>4. running' = Vals(disk)
  BY <1>1, <1>3 DEF ServicesFollow
<1>5. ServicesFollow'
  BY <1>1, <1>4 DEF ServicesFollow, Vals
<1> QED
  BY <1>1, <1>2, <1>3, <1>5 DEF DataInvariant

LEMMA ExternalKeeps ==
    ASSUME DataInvariant, NEW t, Sound(t), external(t)
    PROVE  DataInvariant'
<1>1. /\ rpc'.kind = "none" /\ disk' = [disk EXCEPT !.secs = t] /\ running' = Vals(disk')
      /\ changed' = changed /\ reload' = reload
  BY DEF external, Ready, Idle
<1>2. /\ SetOutcome(rpc', before', disk') /\ NoteOutcome(rpc', before', disk')
      /\ AddOutcome(rpc', disk')
  BY <1>1, OtherKind
<1>3. disk \in Disk /\ changed \subseteq {"cwmp", "data"} /\ reload \in BOOLEAN
  BY DEF DataInvariant
<1>4. t \in Seq(Section)
  BY DEF Sound
<1>5. disk' \in Disk /\ disk'.secs = t
  BY <1>1, <1>3, <1>4 DEF Disk
<1>6. ServicesFollow'
  BY <1>1 DEF ServicesFollow
<1> QED
  BY <1>1, <1>2, <1>3, <1>5, <1>6 DEF DataInvariant

LEMMA OutsideKeeps ==
    ASSUME DataInvariant, external_set \/ external_add \/ external_delete
    PROVE  DataInvariant'
<1> DEFINE t == disk.secs
<1>1. Sound(t) /\ t \in Seq(Section) /\ DOMAIN t = 1 .. Len(t)
  BY SectionsAre DEF DataInvariant, Sound
<1>2. CASE external_set
  <2>1. PICK i \in DOMAIN t, v \in Values : external([t EXCEPT ![i].v = v])
    BY <1>2 DEF external_set
  <2> HIDE DEF t
  <2> DEFINE x == [t[i] EXCEPT !.v = v]
  <2>2. i \in 1 .. Len(t) /\ t[i] \in Section
    BY <1>1, <2>1, SectionsAre
  <2>3. x \in Section /\ x.inst = t[i].inst /\ x.alias = t[i].alias
    BY <2>1, <2>2 DEF Section
  <2>4. [t EXCEPT ![i].v = v] = [t EXCEPT ![i] = x]
    OBVIOUS
  <2> HIDE DEF x
  <2>5. Sound([t EXCEPT ![i] = x])
    <3>1. x.alias \in {t[i].alias, Custom}
      BY <2>3
    <3> QED
      BY <1>1, <2>2, <2>3, <3>1, Rewritten
  <2> QED
    BY <2>1, <2>4, <2>5, ExternalKeeps
<1>3. CASE external_add
  <2>1. PICK v \in Values : external(Append(t, [inst |-> 0, alias |-> 0, v |-> v]))
    BY <1>3 DEF external_add
  <2> HIDE DEF t
  <2>2. Sound(Append(t, [inst |-> 0, alias |-> 0, v |-> v]))
    <3>1. 0 \in Nat
      OBVIOUS
    <3> QED
      BY <1>1, <2>1, <3>1, SoundAppend
  <2> QED
    BY <2>1, <2>2, ExternalKeeps
<1>4. CASE external_delete
  <2>1. PICK i \in DOMAIN t : external(RemoveAt(t, i))
    BY <1>4 DEF external_delete
  <2> HIDE DEF t
  <2>2. Sound(RemoveAt(t, i))
    BY <1>1, <2>1, SoundRemove
  <2> QED
    BY <2>1, <2>2, ExternalKeeps
<1> QED
  BY <1>2, <1>3, <1>4

LEMMA DataStart ==
    Init => DataInvariant
<1> SUFFICES ASSUME Init PROVE DataInvariant
  OBVIOUS
<1> DEFINE first == CHOOSE v \in Values : TRUE
           x == [inst |-> 0, alias |-> 0, v |-> first]
           l == [t \in 0 .. 6 |-> {}]
<1>1. first \in Values
  BY ValuesAssumption
<1>2. /\ disk \in [secs : {<<>>, <<x>>}, s : {first}, key : {"none"}, lists : {l}]
      /\ running = Vals(disk) /\ changed = {} /\ reload = FALSE /\ rpc.kind = "none"
  BY DEF Init, Idle
<1> HIDE DEF first
<1>3. Sound(<<>>) /\ Sound(<<x>>)
  <2>1. Sound(<<>>)
    BY SoundEmpty
  <2>2. Sound(Append(<<>>, x))
    <3>1. 0 \in Nat
      OBVIOUS
    <3> QED
      BY <1>1, <2>1, <3>1, SoundAppend
  <2>3. Append(<<>>, x) = <<x>>
    <3> HIDE DEF x
    <3> QED
      OBVIOUS
  <2> QED
    BY <2>1, <2>2, <2>3
<1> HIDE DEF x
<1>4. Sound(disk.secs) /\ disk.secs \in Seq(Section)
  <2>1. disk.secs = <<>> \/ disk.secs = <<x>>
    BY <1>2
  <2>2. Sound(disk.secs)
    BY <1>3, <2>1
  <2> QED
    BY <2>2 DEF Sound
<1>5. l \in Listing
  BY DEF Listing
<1> HIDE DEF l
<1>6. disk \in Disk
  BY <1>1, <1>2, <1>4, <1>5 DEF Disk
<1>7. /\ SetOutcome(rpc, before, disk) /\ NoteOutcome(rpc, before, disk) /\ AddOutcome(rpc, disk)
  BY <1>2, OtherKind
<1> QED
  BY <1>2, <1>4, <1>6, <1>7 DEF DataInvariant, ServicesFollow

LEMMA DataNext ==
    DataInvariant /\ [Next]_dataVars => DataInvariant'
<1> SUFFICES ASSUME DataInvariant, [Next]_dataVars PROVE DataInvariant'
  OBVIOUS
<1>1. CASE SetValues
  BY <1>1, SetKeeps DEF SetValues
<1>2. CASE SetAttributes
  BY <1>2, NoteKeeps DEF SetAttributes
<1>3. CASE GetValues
  <2>1. PICK x \in SetNames \union ObjectNames : Walk(x)
    BY <1>3 DEF GetValues, cwmp_handle_rpc_cpe_get_parameter_values,
                cwmp_handle_rpc_cpe_get_parameter_attributes,
                cwmp_handle_rpc_cpe_get_parameter_names,
                dm_entry_get_value, dm_entry_get_notification, dm_entry_get_name
  <2> QED
    BY <2>1, WalkKeeps
<1>4. CASE AddObject
  BY <1>4, AddKeeps DEF AddObject
<1>5. CASE DeleteObject
  BY <1>5, DeleteKeeps DEF DeleteObject
<1>6. CASE dm_ctx_clean
  BY <1>6, CleanKeeps
<1>7. CASE dm_entry_restart_services
  BY <1>7, RestartKeeps
<1>8. CASE external_set \/ external_add \/ external_delete
  BY <1>8, OutsideKeeps
<1>9. CASE UNCHANGED dataVars
  BY <1>9 DEF dataVars, DataInvariant, ServicesFollow, Vals
<1> QED
  BY <1>1, <1>2, <1>3, <1>4, <1>5, <1>6, <1>7, <1>8, <1>9 DEF Next

(* The invariant of a data model that RPCs, restarts of the services and   *)
(* other programs change in any order (xml.c, dm/dmentry.c, dm/dmcwmp.c):  *)
(* the sections of the object are in the order of their numbers and have   *)
(* the alias of their number or the one the ACS gave, the last RPC has     *)
(* done what it answered, and no committed value is forgotten.             *)
THEOREM DataAlwaysSound == Spec => []DataInvariant
<1>1. Init => DataInvariant
  BY DataStart
<1>2. DataInvariant /\ [Next]_dataVars => DataInvariant'
  BY DataNext
<1> QED
  BY <1>1, <1>2, PTL DEF Spec

(* SetParameterValues (cwmp_handle_rpc_cpe_set_parameter_values, dmuci.c)  *)
(* sets everything it names and its ParameterKey, or changes no value at   *)
(* all, for lists of any length that name any instances.                   *)
THEOREM SetAllOrNothingHolds == Spec => []SetAllOrNothing
<1>1. DataInvariant => SetAllOrNothing
  BY DEF DataInvariant, SetOutcome, SetAllOrNothing
<1> QED
  BY <1>1, DataAlwaysSound, PTL

(* After SetParameterAttributes (cwmp_handle_rpc_cpe_set_parameter_        *)
(* attributes, set_parameter_notification of dm/dmcwmp.c) every parameter  *)
(* has the notification of the last entry that names it or an object above *)
(* it, whatever the lists held before.                                     *)
THEOREM AttributesStickHolds == Spec => []AttributesStick
<1>1. DataInvariant => AttributesStick
  BY DEF DataInvariant, NoteOutcome, Shown, AttributesStick
<1> QED
  BY <1>1, DataAlwaysSound, PTL

(* Numbers of instances increase in the order of the file, and an instance *)
(* added by AddObject (dm_entry_add_object, get_last_instance) has a       *)
(* number of its own and starts without notification.                      *)
THEOREM FreshInstanceHolds == Spec => []FreshInstance
<1>1. ASSUME DataInvariant PROVE TypeOK
  <2>1. disk \in Disk /\ changed \subseteq {"cwmp", "data"} /\ reload \in BOOLEAN
    BY <1>1 DEF DataInvariant
  <2>2. /\ disk.secs \in Seq(Section) /\ disk.s \in Values
        /\ disk.key \in ParameterKeys \union {"none"} /\ disk.lists \in Listing
    BY <2>1, DiskFields
  <2>3. \A t \in 0 .. 6 : \A p \in disk.lists[t] : Len(p) \in 1 .. 3
    BY <2>2 DEF Listing, Paths
  <2> QED
    BY <2>1, <2>2, <2>3 DEF TypeOK
<1>2. ASSUME DataInvariant
      PROVE  \A i, j \in DOMAIN disk.secs :
               i < j /\ disk.secs[j].inst # 0 => disk.secs[i].inst < disk.secs[j].inst
  <2>1. disk.secs \in Seq(Section) /\ Ordered(disk.secs)
    BY <1>2 DEF DataInvariant, Sound
  <2>2. DOMAIN disk.secs = 1 .. Len(disk.secs)
    BY <2>1, SectionsAre
  <2> QED
    BY <2>1, <2>2 DEF Ordered
<1>3. DataInvariant => FreshInstance
  BY <1>1, <1>2, Zenon DEF FreshInstance, DataInvariant, AddOutcome
<1> QED
  BY <1>3, DataAlwaysSound, PTL

(* What is committed is in use, or the end of the session will tell the    *)
(* services (dmuci_change_packages, dm_entry_restart_services).            *)
THEOREM ServicesFollowHolds == Spec => []ServicesFollow
<1>1. DataInvariant => ServicesFollow
  BY DEF DataInvariant
<1> QED
  BY <1>1, DataAlwaysSound, PTL
=============================================================================
