-------------------------- MODULE DiffGeometryProofs --------------------------
(***************************************************************************)
(* Theorems about DiffGeometry, the line numbers that the stages of a      *)
(* review go by, for any edit script, texts, definitions and findings.     *)
(*                                                                         *)
(* A number is an amount of lines before it (Counting along a line), so    *)
(* each operation on hunks is shown to keep the header that its lines call *)
(* for: serving, padding, merging, cutting.  The lemmas about loops and    *)
(* flattened sequences are those of PipelineProofs.                        *)
(***************************************************************************)
EXTENDS PipelineProofs, DiffGeometry

-------------------------------------------------------------------------------
(* Counting along a line *)

\* How many of the first i numbers are in a set.
Up(S, i) == Cardinality({j \in 1..i : j \in S})

LEMMA UpType ==
  ASSUME NEW S, NEW i \in Nat
  PROVE  Up(S, i) \in Nat /\ IsFiniteSet({j \in 1..i : j \in S}) /\ Up(S, i) <= i
<1>1. IsFiniteSet(1..i) /\ Cardinality(1..i) = i
  <2>1. 0 \in Int /\ 1 \in Int /\ i \in Int
    OBVIOUS
  <2>2. IsFiniteSet(1..i) /\ Cardinality(1..i) = IF 1 > i THEN 0 ELSE i - 1 + 1
    BY <2>1, FS_Interval
  <2> QED
    BY <2>2
<1>2. {j \in 1..i : j \in S} \subseteq 1..i
  OBVIOUS
<1> QED
  BY <1>1, <1>2, FS_Subset, FS_CardinalityType DEF Up

LEMMA UpZero ==
  ASSUME NEW S
  PROVE  Up(S, 0) = 0
<1>1. {j \in 1..0 : j \in S} = {}
  OBVIOUS
<1> QED
  BY <1>1, FS_EmptySet DEF Up

LEMMA UpNext ==
  ASSUME NEW S, NEW i \in Nat
  PROVE  Up(S, i + 1) = IF i + 1 \in S THEN Up(S, i) + 1 ELSE Up(S, i)
<1> DEFINE A == {j \in 1..i : j \in S}
           B == {j \in 1..(i + 1) : j \in S}
<1>1. IsFiniteSet(A)
  BY UpType
<1>2. i + 1 \notin A
  OBVIOUS
<1>3. CASE i + 1 \in S
  <2>1. B = A \cup {i + 1}
    BY <1>3
  <2>2. Cardinality(A \cup {i + 1}) = Cardinality(A) + 1
    <3> HIDE DEF A
    <3> QED
      BY <1>1, <1>2, FS_AddElement
  <2> QED
    BY <1>3, <2>1, <2>2 DEF Up
<1>4. CASE i + 1 \notin S
  <2>1. B = A
    BY <1>4
  <2> QED
    BY <1>4, <2>1 DEF Up
<1> QED
  BY <1>3, <1>4

LEMMA UpGrows ==
  ASSUME NEW S, NEW i \in Nat, NEW k \in Nat, i <= k
  PROVE  Up(S, i) <= Up(S, k)
<1>1. {j \in 1..i : j \in S} \subseteq {j \in 1..k : j \in S}
  OBVIOUS
<1>2. IsFiniteSet({j \in 1..k : j \in S})
  BY UpType
<1> QED
  BY <1>1, <1>2, FS_Subset DEF Up

LEMMA UpRises ==
  ASSUME NEW S, NEW i \in Nat, NEW k \in Nat, i < k, k \in S
  PROVE  Up(S, i) < Up(S, k)
<1>1. k - 1 \in Nat /\ i <= k - 1 /\ (k - 1) + 1 = k
  OBVIOUS
<1>2. Up(S, i) <= Up(S, k - 1)
  BY <1>1, UpGrows
<1>3. Up(S, k) = Up(S, k - 1) + 1
  BY <1>1, UpNext
<1>4. Up(S, i) \in Nat /\ Up(S, k - 1) \in Nat
  BY <1>1, UpType
<1> QED
  BY <1>2, <1>3, <1>4

\* A stretch counts as its own.
LEMMA UpSum ==
  ASSUME NEW S, NEW T, NEW a \in Nat, NEW b \in Nat, \A t \in 1..b : a + t \in S <=> t \in T
  PROVE  Up(S, a + b) = Up(S, a) + Up(T, b)
<1> DEFINE G == {t \in 0..b : Up(S, a + t) = Up(S, a) + Up(T, t)}
<1>1. 0 \in G
  <2>1. Up(T, 0) = 0
    BY UpZero
  <2>2. Up(S, a) \in Nat
    BY UpType
  <2>3. a + 0 = a /\ 0 \in 0..b
    OBVIOUS
  <2> QED
    BY <2>1, <2>2, <2>3
<1>2. ASSUME NEW t \in 1..b, t - 1 \in G PROVE t \in G
  <2>1. t - 1 \in Nat /\ (t - 1) + 1 = t /\ a + (t - 1) \in Nat /\ (a + (t - 1)) + 1 = a + t
    OBVIOUS
  <2>2. Up(S, a + (t - 1)) = Up(S, a) + Up(T, t - 1)
    BY <1>2
  <2>3. Up(S, a + t) = IF a + t \in S THEN Up(S, a + (t - 1)) + 1 ELSE Up(S, a + (t - 1))
    BY <2>1, UpNext
  <2>4. Up(T, t) = IF t \in T THEN Up(T, t - 1) + 1 ELSE Up(T, t - 1)
    BY <2>1, UpNext
  <2>5. Up(S, a) \in Nat /\ Up(T, t - 1) \in Nat
    BY <2>1, UpType
  <2>6. Up(S, a + t) = Up(S, a) + Up(T, t)
    BY <2>2, <2>3, <2>4, <2>5
  <2> QED
    BY <2>6
<1>3. b \in G
  <2> HIDE DEF G
  <2>1. 0..b \subseteq G
    BY <1>1, <1>2, UpTo
  <2> QED
    BY <2>1
<1> QED
  BY <1>3

\* A stretch that is all in the set, and one that is all out.
LEMMA UpRun ==
  ASSUME NEW S, NEW a \in Nat, NEW b \in Nat, \A t \in 1..b : a + t \in S
  PROVE  Up(S, a + b) = Up(S, a) + b
<1> DEFINE T == 1..b
<1>1. Up(S, a + b) = Up(S, a) + Up(T, b)
  <2>1. \A t \in 1..b : a + t \in S <=> t \in T
    OBVIOUS
  <2> HIDE DEF T
  <2> QED
    BY <2>1, UpSum
<1>2. Up(T, b) = b
  <2>1. {j \in 1..b : j \in T} = 1..b
    OBVIOUS
  <2>2. 1 \in Int /\ b \in Int
    OBVIOUS
  <2>3. Cardinality(1..b) = IF 1 > b THEN 0 ELSE b - 1 + 1
    BY <2>2, FS_Interval
  <2>4. Cardinality(1..b) = b
    BY <2>3
  <2> QED
    BY <2>1, <2>4 DEF Up
<1> QED
  BY <1>1, <1>2

\* The members of a set of numbers, in order.
LEMMA AscendingIs ==
  ASSUME NEW n \in Nat, NEW S \in SUBSET (1..n)
  PROVE  /\ Ascending(S) \in Seq(S) /\ Len(Ascending(S)) = Up(S, n)
         /\ \A i \in S : Up(S, i) \in 1..Up(S, n) /\ Ascending(S)[Up(S, i)] = i
         /\ \A k \in 1..Up(S, n) : Up(S, Ascending(S)[k]) = k
         /\ \A k, l \in 1..Up(S, n) : k < l => Ascending(S)[k] < Ascending(S)[l]
<1>1. Cardinality(S) = Up(S, n)
  <2>1. {j \in 1..n : j \in S} = S
    OBVIOUS
  <2> QED
    BY <2>1 DEF Up
<1>2. \A i \in S : Cardinality({j \in S : j <= i}) = Up(S, i)
  <2>1. ASSUME NEW i \in S PROVE {j \in S : j <= i} = {j \in 1..i : j \in S}
    <3>1. i \in 1..n /\ \A j \in S : j \in 1..n
      OBVIOUS
    <3>2. \A j \in S : j <= i <=> j \in 1..i
      BY <3>1
    <3> QED
      BY <3>2
  <2> QED
    BY <2>1 DEF Up
<1> DEFINE G == {m \in 0..n : \A k \in 1..Up(S, m) : \E i \in S : Up(S, i) = k}
<1>3. 0 \in G
  BY UpZero
<1>4. ASSUME NEW m \in 1..n, m - 1 \in G PROVE m \in G
  <2>0. m - 1 \in Nat /\ (m - 1) + 1 = m
    OBVIOUS
  <2>1. m - 1 \in Nat /\ (m - 1) + 1 = m /\ Up(S, m - 1) \in Nat
    BY <2>0, UpType
  <2>2. Up(S, m) = IF m \in S THEN Up(S, m - 1) + 1 ELSE Up(S, m - 1)
    BY <2>1, UpNext
  <2>3. ASSUME NEW k \in 1..Up(S, m) PROVE \E i \in S : Up(S, i) = k
    <3>1. CASE k \in 1..Up(S, m - 1)
      BY <1>4, <3>1
    <3>2. CASE k \notin 1..Up(S, m - 1)
      <4>1. m \in S /\ k = Up(S, m)
        BY <2>1, <2>2, <3>2
      <4> QED
        BY <4>1
    <3> QED
      BY <3>1, <3>2
  <2> QED
    BY <2>3
<1>5. n \in G
  <2> HIDE DEF G
  <2>1. 0..n \subseteq G
    BY <1>3, <1>4, UpTo
  <2> QED
    BY <2>1
<1> DEFINE s == Ascending(S)
<1>6. ASSUME NEW k \in 1..Up(S, n) PROVE s[k] \in S /\ Up(S, s[k]) = k
  <2>1. \E i \in S : Cardinality({j \in S : j <= i}) = k
    BY <1>2, <1>5
  <2>2. s[k] = CHOOSE i \in S : Cardinality({j \in S : j <= i}) = k
    BY <1>1 DEF Ascending
  <2>3. s[k] \in S /\ Cardinality({j \in S : j <= s[k]}) = k
    <3> HIDE DEF s
    <3> QED
      BY <2>1, <2>2, Zenon
  <2> QED
    BY <1>2, <2>3
<1>7. Up(S, n) \in Nat
  BY UpType
<1>8. s = [k \in 1..Up(S, n) |-> s[k]] /\ DOMAIN s = 1..Up(S, n)
  BY <1>1 DEF Ascending
<1> HIDE DEF s, G
<1>9. s \in Seq(S) /\ Len(s) = Up(S, n)
  <2>1. s \in [1..Up(S, n) -> S]
    BY <1>6, <1>8
  <2> QED
    BY <1>7, <2>1
<1>10. \A i, j \in S : Up(S, i) = Up(S, j) => i = j
  <2>1. ASSUME NEW i \in S, NEW j \in S, i < j PROVE Up(S, i) < Up(S, j)
    BY <2>1, UpRises
  <2>2. ASSUME NEW i \in S PROVE Up(S, i) \in Nat /\ i \in Nat
    <3>1. i \in Nat
      OBVIOUS
    <3> QED
      BY <3>1, UpType
  <2> QED
    BY <2>1, <2>2
<1>11. ASSUME NEW i \in S PROVE Up(S, i) \in 1..Up(S, n) /\ s[Up(S, i)] = i
  <2>1. i \in Nat /\ 0 < i /\ i <= n
    OBVIOUS
  <2>2. Up(S, 0) < Up(S, i) /\ Up(S, i) <= Up(S, n)
    BY <2>1, UpRises, UpGrows
  <2>3. Up(S, 0) = 0
    BY UpZero
  <2>4. Up(S, i) \in Nat
    BY <2>1, UpType
  <2>5. Up(S, i) \in 1..Up(S, n)
    BY <1>7, <2>2, <2>3, <2>4
  <2> QED
    BY <1>6, <1>10, <2>5
<1>12. ASSUME NEW k \in 1..Up(S, n), NEW l \in 1..Up(S, n), k < l PROVE s[k] < s[l]
  <2>1. s[k] \in S /\ s[l] \in S /\ Up(S, s[k]) = k /\ Up(S, s[l]) = l
    BY <1>6
  <2>2. s[k] \in Nat /\ s[l] \in Nat
    <3>1. \A i \in S : i \in Nat
      OBVIOUS
    <3> QED
      BY <2>1, <3>1
  <2>3. ASSUME s[l] <= s[k] PROVE FALSE
    <3>1. Up(S, s[l]) <= Up(S, s[k])
      BY <2>2, <2>3, UpGrows
    <3> QED
      BY <1>12, <2>1, <3>1
  <2> QED
    BY <2>2, <2>3
<1> QED
  BY <1>6, <1>9, <1>11, <1>12 DEF s

-------------------------------------------------------------------------------
(* Scripts, bodies and hunks *)

Ops == {"k", "d", "a"}
BodyLines == [op : Ops, at : Nat]

\* The lines of each side, of a script and of a body.
OldOf(sc) == {j \in DOMAIN sc : sc[j] # "a"}
NewOf(sc) == {j \in DOMAIN sc : sc[j] # "d"}
OldIn(body) == {p \in DOMAIN body : body[p].op # "a"}
NewIn(body) == {p \in DOMAIN body : body[p].op # "d"}

LEMMA NosAre ==
  ASSUME NEW sc \in Seq(Ops), NEW i \in 0..Len(sc)
  PROVE  /\ OldNo(sc, i) = Up(OldOf(sc), i) /\ OldNo(sc, i) \in Nat
         /\ NewNo(sc, i) = Up(NewOf(sc), i) /\ NewNo(sc, i) \in Nat
<1>1. i \in Nat /\ DOMAIN sc = 1..Len(sc) /\ \A j \in 1..i : j \in DOMAIN sc
  OBVIOUS
<1>2. {j \in 1..i : sc[j] # "a"} = {j \in 1..i : j \in OldOf(sc)}
  BY <1>1 DEF OldOf
<1>3. {j \in 1..i : sc[j] # "d"} = {j \in 1..i : j \in NewOf(sc)}
  BY <1>1 DEF NewOf
<1>4. Up(OldOf(sc), i) \in Nat /\ Up(NewOf(sc), i) \in Nat
  BY <1>1, UpType
<1> QED
  BY <1>2, <1>3, <1>4 DEF Up, OldNo, NewNo

\* Numbers go up by one at each line of their side.
LEMMA NoNext ==
  ASSUME NEW sc \in Seq(Ops), NEW i \in 1..Len(sc)
  PROVE  /\ OldNo(sc, i) = IF sc[i] # "a" THEN OldNo(sc, i - 1) + 1 ELSE OldNo(sc, i - 1)
         /\ NewNo(sc, i) = IF sc[i] # "d" THEN NewNo(sc, i - 1) + 1 ELSE NewNo(sc, i - 1)
<1>1. i - 1 \in 0..Len(sc) /\ i \in 0..Len(sc) /\ i - 1 \in Nat /\ (i - 1) + 1 = i
  OBVIOUS
<1>2. i \in DOMAIN sc
  OBVIOUS
<1>3. /\ OldNo(sc, i) = Up(OldOf(sc), i) /\ OldNo(sc, i - 1) = Up(OldOf(sc), i - 1)
      /\ NewNo(sc, i) = Up(NewOf(sc), i) /\ NewNo(sc, i - 1) = Up(NewOf(sc), i - 1)
  BY <1>1, NosAre
<1>4. Up(OldOf(sc), i) = IF i \in OldOf(sc) THEN Up(OldOf(sc), i - 1) + 1 ELSE Up(OldOf(sc), i - 1)
  BY <1>1, UpNext
<1>5. Up(NewOf(sc), i) = IF i \in NewOf(sc) THEN Up(NewOf(sc), i - 1) + 1 ELSE Up(NewOf(sc), i - 1)
  BY <1>1, UpNext
<1>6. (i \in OldOf(sc) <=> sc[i] # "a") /\ (i \in NewOf(sc) <=> sc[i] # "d")
  BY <1>2 DEF OldOf, NewOf
<1> QED
  BY <1>3, <1>4, <1>5, <1>6

LEMMA NosGrow ==
  ASSUME NEW sc \in Seq(Ops), NEW i \in 0..Len(sc), NEW j \in 0..Len(sc), i <= j
  PROVE  OldNo(sc, i) <= OldNo(sc, j) /\ NewNo(sc, i) <= NewNo(sc, j)
<1>1. i \in Nat /\ j \in Nat
  OBVIOUS
<1>2. Up(OldOf(sc), i) <= Up(OldOf(sc), j) /\ Up(NewOf(sc), i) <= Up(NewOf(sc), j)
  BY <1>1, UpGrows
<1> QED
  BY <1>2, NosAre

\* Numbers of lines that are on both sides go up together.
LEMMA NosOfKept ==
  ASSUME NEW sc \in Seq(Ops), NEW a \in Nat, NEW t \in Nat, a + t <= Len(sc),
         \A i \in 1..t : sc[a + i] = "k"
  PROVE  OldNo(sc, a + t) = OldNo(sc, a) + t /\ NewNo(sc, a + t) = NewNo(sc, a) + t
<1>1. a \in 0..Len(sc) /\ a + t \in 0..Len(sc) /\ \A i \in 1..t : a + i \in DOMAIN sc
  OBVIOUS
<1>2. \A i \in 1..t : a + i \in OldOf(sc) /\ a + i \in NewOf(sc)
  BY <1>1 DEF OldOf, NewOf
<1>3. Up(OldOf(sc), a + t) = Up(OldOf(sc), a) + t /\ Up(NewOf(sc), a + t) = Up(NewOf(sc), a) + t
  BY <1>2, UpRun
<1> QED
  BY <1>1, <1>3, NosAre

\* Counting a body's lines.
LEMMA OnIs ==
  ASSUME NEW body \in Seq(BodyLines), NEW q \in 0..Len(body)
  PROVE  /\ OnOld(SubSeq(body, 1, q)) = Up(OldIn(body), q)
         /\ OnNew(SubSeq(body, 1, q)) = Up(NewIn(body), q)
         /\ Up(OldIn(body), q) \in Nat /\ Up(NewIn(body), q) \in Nat
<1>1. q \in Nat /\ q <= Len(body) /\ DOMAIN body = 1..Len(body) /\ Len(body) \in Nat
  OBVIOUS
<1> DEFINE s == SubSeq(body, 1, q)
<1>2. DOMAIN s = 1..q /\ \A p \in 1..q : s[p] = body[p]
  BY <1>1
<1> HIDE DEF s
<1>3. {p \in DOMAIN s : s[p].op # "a"} = {p \in 1..q : p \in OldIn(body)}
  BY <1>1, <1>2 DEF OldIn
<1>4. {p \in DOMAIN s : s[p].op # "d"} = {p \in 1..q : p \in NewIn(body)}
  BY <1>1, <1>2 DEF NewIn
<1>5. Up(OldIn(body), q) \in Nat /\ Up(NewIn(body), q) \in Nat
  BY <1>1, UpType
<1> QED
  BY <1>3, <1>4, <1>5 DEF OnOld, OnNew, Up, s

LEMMA OnAll ==
  ASSUME NEW body \in Seq(BodyLines)
  PROVE  /\ OnOld(body) = Up(OldIn(body), Len(body)) /\ OnOld(body) \in Nat
         /\ OnNew(body) = Up(NewIn(body), Len(body)) /\ OnNew(body) \in Nat
<1>1. Len(body) \in Nat /\ DOMAIN body = 1..Len(body)
  OBVIOUS
<1>2. {p \in DOMAIN body : body[p].op # "a"} = {p \in 1..Len(body) : p \in OldIn(body)}
  BY <1>1 DEF OldIn
<1>3. {p \in DOMAIN body : body[p].op # "d"} = {p \in 1..Len(body) : p \in NewIn(body)}
  BY <1>1 DEF NewIn
<1>4. Up(OldIn(body), Len(body)) \in Nat /\ Up(NewIn(body), Len(body)) \in Nat
  BY <1>1, UpType
<1> QED
  BY <1>2, <1>3, <1>4 DEF OnOld, OnNew, Up

\* A body's lines from one on are a stretch of the script.
Stretch(sc, body, L, a, m) ==
  \A t \in 1..m : L + t \in DOMAIN body /\ body[L + t] = [op |-> sc[a + t], at |-> a + t]

\* A stretch of a body counts as the stretch of the script does.
LEMMA StretchCounts ==
  ASSUME NEW sc \in Seq(Ops), NEW body, NEW L \in Nat, NEW a \in Nat, NEW m \in Nat,
         a + m <= Len(sc), Stretch(sc, body, L, a, m), NEW t \in 0..m
  PROVE  /\ Up(OldIn(body), L + t) = Up(OldIn(body), L) + (OldNo(sc, a + t) - OldNo(sc, a))
         /\ Up(NewIn(body), L + t) = Up(NewIn(body), L) + (NewNo(sc, a + t) - NewNo(sc, a))
<1> DEFINE TO == {i \in 1..m : sc[a + i] # "a"}
           TN == {i \in 1..m : sc[a + i] # "d"}
<1>1. /\ t \in Nat /\ a \in 0..Len(sc) /\ a + t \in 0..Len(sc)
      /\ \A i \in 1..t : i \in 1..m /\ a + i \in DOMAIN sc
  OBVIOUS
<1>2. \A i \in 1..t : /\ a + i \in OldOf(sc) <=> i \in TO
                      /\ a + i \in NewOf(sc) <=> i \in TN
  BY <1>1 DEF OldOf, NewOf
<1>3. \A i \in 1..t : /\ L + i \in OldIn(body) <=> i \in TO
                      /\ L + i \in NewIn(body) <=> i \in TN
  <2>1. ASSUME NEW i \in 1..t PROVE /\ L + i \in OldIn(body) <=> i \in TO
                                    /\ L + i \in NewIn(body) <=> i \in TN
    <3>1. i \in 1..m
      BY <1>1
    <3>2. L + i \in DOMAIN body /\ body[L + i] = [op |-> sc[a + i], at |-> a + i]
      BY <3>1 DEF Stretch
    <3>3. body[L + i].op = sc[a + i]
      BY <3>2
    <3> QED
      BY <3>1, <3>2, <3>3 DEF OldIn, NewIn
  <2> QED
    BY <2>1
<1> HIDE DEF TO, TN
<1>4. Up(OldOf(sc), a + t) = Up(OldOf(sc), a) + Up(TO, t)
  BY <1>1, <1>2, UpSum
<1>5. Up(NewOf(sc), a + t) = Up(NewOf(sc), a) + Up(TN, t)
  BY <1>1, <1>2, UpSum
<1>6. Up(OldIn(body), L + t) = Up(OldIn(body), L) + Up(TO, t)
  BY <1>1, <1>3, UpSum
<1>7. Up(NewIn(body), L + t) = Up(NewIn(body), L) + Up(TN, t)
  BY <1>1, <1>3, UpSum
<1>8. Up(TO, t) \in Nat /\ Up(TN, t) \in Nat
  BY <1>1, UpType
<1>9. /\ OldNo(sc, a + t) = Up(OldOf(sc), a + t) /\ OldNo(sc, a) = Up(OldOf(sc), a)
      /\ NewNo(sc, a + t) = Up(NewOf(sc), a + t) /\ NewNo(sc, a) = Up(NewOf(sc), a)
      /\ OldNo(sc, a) \in Nat /\ NewNo(sc, a) \in Nat
  BY <1>1, NosAre
<1>10. Up(TO, t) = OldNo(sc, a + t) - OldNo(sc, a) /\ Up(TN, t) = NewNo(sc, a + t) - NewNo(sc, a)
  BY <1>4, <1>5, <1>8, <1>9
<1> QED
  BY <1>6, <1>7, <1>10

\* The numbers that a walk has reached at a line.
LEMMA WalkedNos ==
  ASSUME NEW h, h.body \in Seq(BodyLines), NEW p \in DOMAIN h.body
  PROVE  /\ WalkDiff(h, p).old = h.os + Up(OldIn(h.body), p - 1)
         /\ WalkDiff(h, p).new = h.ns + Up(NewIn(h.body), p - 1)
<1>1. p - 1 \in 0..Len(h.body)
  OBVIOUS
<1> QED
  BY <1>1, OnIs DEF WalkDiff

\* A line has its numbers in the file.
TrulyAt(sc, h, p) ==
  /\ h.body[p].op # "a" => WalkDiff(h, p).old = OldNo(sc, h.body[p].at)
  /\ h.body[p].op # "d" => WalkDiff(h, p).new = NewNo(sc, h.body[p].at)

LEMMA Reached ==
  ASSUME NEW first \in Int, NEW before \in Int, NEW no \in Int, NEW start \in Int,
         first + before = start + 1
  PROVE  first + (before + (no - start)) = no + 1
OBVIOUS

\* A stretch's first line is numbered from the script.
Starts(sc, h, L, a, m) ==
  /\ \/ h.os + Up(OldIn(h.body), L) = OldNo(sc, a) + 1
     \/ \A i \in 1..m : sc[a + i] = "a"
  /\ \/ h.ns + Up(NewIn(h.body), L) = NewNo(sc, a) + 1
     \/ \A i \in 1..m : sc[a + i] = "d"

\* A stretch of a hunk, and a line of it that is numbered right.
OfStretch(sc, h, L, a, m) ==
  /\ sc \in Seq(Ops) /\ h.body \in Seq(BodyLines) /\ h.os \in Int /\ h.ns \in Int
  /\ L \in Nat /\ a \in Nat /\ m \in Nat /\ a + m <= Len(sc)
  /\ Stretch(sc, h.body, L, a, m) /\ Starts(sc, h, L, a, m)
LineOfStretch(sc, h, L, a, p) ==
  /\ h.body[p].at = a + (p - L) /\ h.body[p].op = sc[a + (p - L)]
  /\ TrulyAt(sc, h, p)

LEMMA StretchIsTrue ==
  ASSUME NEW sc, NEW h, NEW L, NEW a, NEW m, OfStretch(sc, h, L, a, m), NEW p \in (L + 1)..(L + m)
  PROVE  LineOfStretch(sc, h, L, a, p)
<1>a. /\ sc \in Seq(Ops) /\ h.body \in Seq(BodyLines) /\ h.os \in Int /\ h.ns \in Int
      /\ L \in Nat /\ a \in Nat /\ m \in Nat /\ a + m <= Len(sc)
      /\ Stretch(sc, h.body, L, a, m) /\ Starts(sc, h, L, a, m)
  BY DEF OfStretch
<1> USE <1>a
<1> DEFINE t == p - L
<1>0. t \in 1..m /\ L + t = p
  OBVIOUS
<1> HIDE DEF t
<1>1. /\ L + t \in DOMAIN h.body /\ h.body[L + t] = [op |-> sc[a + t], at |-> a + t]
  BY <1>0 DEF Stretch
<1> DEFINE q == t - 1
           body == h.body
<1>2. /\ q \in 0..m /\ a + t \in 1..Len(sc) /\ (a + t) - 1 = a + q
      /\ L + t \in Nat /\ (L + t) - 1 = L + q /\ a + q \in 0..Len(sc) /\ a \in 0..Len(sc)
  BY <1>0
<1>3. WalkDiff(h, L + t).old = h.os + Up(OldIn(body), L + q)
      /\ WalkDiff(h, L + t).new = h.ns + Up(NewIn(body), L + q)
  BY <1>1, <1>2, WalkedNos
<1> HIDE DEF q, body
<1>4. /\ Up(OldIn(body), L + q) = Up(OldIn(body), L) + (OldNo(sc, a + q) - OldNo(sc, a))
      /\ Up(NewIn(body), L + q) = Up(NewIn(body), L) + (NewNo(sc, a + q) - NewNo(sc, a))
  <2>1. Stretch(sc, body, L, a, m)
    BY DEF body
  <2> QED
    BY <1>2, <2>1, StretchCounts
<1>5. /\ OldNo(sc, a + q) \in Nat /\ OldNo(sc, a) \in Nat
      /\ NewNo(sc, a + q) \in Nat /\ NewNo(sc, a) \in Nat
  BY <1>2, NosAre
<1>6. Up(OldIn(body), L) \in Nat /\ Up(NewIn(body), L) \in Nat
  BY <1>2, UpType
<1>7. /\ sc[a + t] # "a" => OldNo(sc, a + t) = OldNo(sc, a + q) + 1
      /\ sc[a + t] # "d" => NewNo(sc, a + t) = NewNo(sc, a + q) + 1
  BY <1>2, NoNext
<1>8. ASSUME sc[a + t] # "a" PROVE WalkDiff(h, L + t).old = OldNo(sc, a + t)
  <2>1. h.os + Up(OldIn(body), L) = OldNo(sc, a) + 1
    BY <1>0, <1>8 DEF body, Starts
  <2>2. OldNo(sc, a + t) = OldNo(sc, a + q) + 1
    BY <1>7, <1>8
  <2>3. WalkDiff(h, L + t).old = h.os + (Up(OldIn(body), L) + (OldNo(sc, a + q) - OldNo(sc, a)))
    BY <1>3, <1>4
  <2>4. h.os + (Up(OldIn(body), L) + (OldNo(sc, a + q) - OldNo(sc, a))) = OldNo(sc, a + q) + 1
    <3> DEFINE first == h.os
               before == Up(OldIn(body), L)
               no == OldNo(sc, a + q)
               start == OldNo(sc, a)
    <3>1. first \in Int /\ before \in Int /\ no \in Int /\ start \in Int
      BY <1>5, <1>6
    <3>2. first + before = start + 1
      BY <2>1
    <3> HIDE DEF first, before, no, start
    <3>3. first + (before + (no - start)) = no + 1
      BY <3>1, <3>2, Reached
    <3> QED
      BY <3>3 DEF first, before, no, start
  <2> QED
    BY <2>2, <2>3, <2>4
<1>9. ASSUME sc[a + t] # "d" PROVE WalkDiff(h, L + t).new = NewNo(sc, a + t)
  <2>1. h.ns + Up(NewIn(body), L) = NewNo(sc, a) + 1
    BY <1>0, <1>9 DEF body, Starts
  <2>2. NewNo(sc, a + t) = NewNo(sc, a + q) + 1
    BY <1>7, <1>9
  <2>3. WalkDiff(h, L + t).new = h.ns + (Up(NewIn(body), L) + (NewNo(sc, a + q) - NewNo(sc, a)))
    BY <1>3, <1>4
  <2>4. h.ns + (Up(NewIn(body), L) + (NewNo(sc, a + q) - NewNo(sc, a))) = NewNo(sc, a + q) + 1
    <3> DEFINE first == h.ns
               before == Up(NewIn(body), L)
               no == NewNo(sc, a + q)
               start == NewNo(sc, a)
    <3>1. first \in Int /\ before \in Int /\ no \in Int /\ start \in Int
      BY <1>5, <1>6
    <3>2. first + before = start + 1
      BY <2>1
    <3> HIDE DEF first, before, no, start
    <3>3. first + (before + (no - start)) = no + 1
      BY <3>1, <3>2, Reached
    <3> QED
      BY <3>3 DEF first, before, no, start
  <2> QED
    BY <2>2, <2>3, <2>4
<1>10. h.body[L + t].at = a + t /\ h.body[L + t].op = sc[a + t]
  BY <1>1
<1>11. TrulyAt(sc, h, L + t)
  BY <1>1, <1>8, <1>9, <1>10 DEF TrulyAt
<1> QED
  BY <1>0, <1>10, <1>11 DEF LineOfStretch, t

-------------------------------------------------------------------------------
(* The hunks a host serves *)

HunkSpace == [os : Int, ol : Nat, ns : Int, nl : Nat, body : Seq(BodyLines)]

\* A line that is there is counted.
LEMMA CountsNone ==
  ASSUME NEW body \in Seq(BodyLines)
  PROVE  /\ OnOld(body) = 0 => \A p \in DOMAIN body : body[p].op = "a"
         /\ OnNew(body) = 0 => \A p \in DOMAIN body : body[p].op = "d"
<1> DEFINE O == {p \in DOMAIN body : body[p].op # "a"}
           N == {p \in DOMAIN body : body[p].op # "d"}
<1>1. IsFiniteSet(O) /\ IsFiniteSet(N)
  <2>1. DOMAIN body = 1..Len(body) /\ Len(body) \in Nat
    OBVIOUS
  <2>2. O = {p \in 1..Len(body) : p \in O} /\ N = {p \in 1..Len(body) : p \in N}
    BY <2>1
  <2> HIDE DEF O, N
  <2> QED
    BY <2>1, <2>2, UpType
<1>2. OnOld(body) = 0 => O = {}
  <2>1. OnOld(body) = Cardinality(O)
    BY DEF OnOld
  <2> HIDE DEF O
  <2> QED
    BY <1>1, <2>1, FS_EmptySet
<1>3. OnNew(body) = 0 => N = {}
  <2>1. OnNew(body) = Cardinality(N)
    BY DEF OnNew
  <2> HIDE DEF N
  <2> QED
    BY <1>1, <2>1, FS_EmptySet
<1> QED
  BY <1>2, <1>3

LEMMA ServedHunkIs ==
  ASSUME NEW sc \in Seq(Ops), NEW i \in 1..Len(sc), NEW j \in i..Len(sc),
         NEW h, h = ServedHunk(sc, i, j)
  PROVE  /\ h \in HunkSpace /\ Len(h.body) = j - i + 1
         /\ Stretch(sc, h.body, 0, i - 1, j - i + 1)
         /\ h.ol = OldNo(sc, j) - OldNo(sc, i - 1) /\ h.nl = NewNo(sc, j) - NewNo(sc, i - 1)
         /\ h.ol = OnOld(h.body) /\ h.nl = OnNew(h.body)
         /\ h.os = IF h.ol = 0 THEN OldNo(sc, i - 1) ELSE OldNo(sc, i - 1) + 1
         /\ h.ns = IF h.nl = 0 THEN NewNo(sc, i - 1) ELSE NewNo(sc, i - 1) + 1
         /\ FirstOld(h) = OldNo(sc, i - 1) + 1 /\ FirstNew(h) = NewNo(sc, i - 1) + 1
         /\ LastNew(h) = NewNo(sc, j)
<1> DEFINE m == j - i + 1
           a == i - 1
           body == [p \in 1..m |-> [op |-> sc[i + p - 1], at |-> i + p - 1]]
<1>1. /\ m \in Nat /\ a \in Nat /\ a + m = j /\ i - 1 = a /\ m \in 0..m /\ 0 + m = m /\ j - i + 1 = m
      /\ \A p \in 1..m : i + p - 1 = a + p /\ a + p \in 1..Len(sc) /\ 0 + p = p
      /\ a \in 0..Len(sc) /\ j \in 0..Len(sc)
  OBVIOUS
<1> HIDE DEF m, a
<1>2. \A p \in 1..m : [op |-> sc[i + p - 1], at |-> i + p - 1] \in BodyLines
  <2>1. ASSUME NEW p \in 1..m PROVE sc[i + p - 1] \in Ops /\ i + p - 1 \in Nat
    BY <1>1
  <2> QED
    BY <2>1 DEF BodyLines
<1>3. body \in Seq(BodyLines) /\ Len(body) = m /\ DOMAIN body = 1..m
  BY <1>1, <1>2, SMTT(20)
<1>4. Stretch(sc, body, 0, a, m)
  BY <1>1, <1>3 DEF Stretch
<1>5. ServedHunk(sc, i, j) = [os |-> IF OnOld(body) = 0 THEN OldNo(sc, a) ELSE OldNo(sc, a) + 1,
                              ol |-> OnOld(body),
                              ns |-> IF OnNew(body) = 0 THEN NewNo(sc, a) ELSE NewNo(sc, a) + 1,
                              nl |-> OnNew(body), body |-> body]
  BY <1>1 DEF ServedHunk
<1> HIDE DEF body
<1>6. OnOld(body) = Up(OldIn(body), m) /\ OnNew(body) = Up(NewIn(body), m)
      /\ OnOld(body) \in Nat /\ OnNew(body) \in Nat
  BY <1>3, OnAll
<1>7. /\ Up(OldIn(body), 0 + m) = Up(OldIn(body), 0) + (OldNo(sc, a + m) - OldNo(sc, a))
      /\ Up(NewIn(body), 0 + m) = Up(NewIn(body), 0) + (NewNo(sc, a + m) - NewNo(sc, a))
  <2>1. a + m <= Len(sc) /\ 0 \in Nat
    BY <1>1
  <2> QED
    BY <1>1, <1>4, <2>1, StretchCounts
<1>8. Up(OldIn(body), 0) = 0 /\ Up(NewIn(body), 0) = 0
  BY UpZero
<1>9. /\ OldNo(sc, j) \in Nat /\ OldNo(sc, a) \in Nat /\ NewNo(sc, j) \in Nat /\ NewNo(sc, a) \in Nat
  BY <1>1, NosAre
<1>10. OnOld(body) = OldNo(sc, j) - OldNo(sc, a) /\ OnNew(body) = NewNo(sc, j) - NewNo(sc, a)
  BY <1>1, <1>6, <1>7, <1>8, <1>9
<1>11. /\ h.body = body /\ h.ol = OnOld(body) /\ h.nl = OnNew(body)
       /\ h.os = IF OnOld(body) = 0 THEN OldNo(sc, a) ELSE OldNo(sc, a) + 1
       /\ h.ns = IF OnNew(body) = 0 THEN NewNo(sc, a) ELSE NewNo(sc, a) + 1
  BY <1>5
<1>12. h \in HunkSpace
  BY <1>3, <1>5, <1>6, <1>9 DEF HunkSpace
<1>13. FirstOld(h) = OldNo(sc, a) + 1 /\ FirstNew(h) = NewNo(sc, a) + 1
  BY <1>6, <1>9, <1>11 DEF FirstOld, FirstNew
<1>14. LastNew(h) = NewNo(sc, j)
  BY <1>9, <1>10, <1>11, <1>13 DEF LastNew
<1> QED
  BY <1>1, <1>3, <1>4, <1>10, <1>11, <1>12, <1>13, <1>14

\* Each line of a served hunk has its numbers.
LEMMA ServedLine ==
  ASSUME NEW sc \in Seq(Ops), NEW i \in 1..Len(sc), NEW j \in i..Len(sc),
         NEW h, h = ServedHunk(sc, i, j), NEW p \in DOMAIN h.body
  PROVE  /\ h.body[p].at = i + p - 1 /\ h.body[p].at \in i..j
         /\ h.body[p].op = sc[h.body[p].at] /\ TrulyAt(sc, h, p)
<1> DEFINE m == j - i + 1
           a == i - 1
           body == h.body
<1>1. /\ h \in HunkSpace /\ Len(body) = m /\ Stretch(sc, body, 0, a, m)
      /\ h.ol = OnOld(body) /\ h.nl = OnNew(body)
      /\ h.os = IF h.ol = 0 THEN OldNo(sc, a) ELSE OldNo(sc, a) + 1
      /\ h.ns = IF h.nl = 0 THEN NewNo(sc, a) ELSE NewNo(sc, a) + 1
  BY ServedHunkIs
<1>2. /\ m \in Nat /\ a \in Nat /\ a + m = j /\ a + m <= Len(sc) /\ 0 \in Nat
      /\ \A t \in 1..m : a + t = i + t - 1 /\ a + t \in i..j /\ 0 + t = t
      /\ a \in 0..Len(sc)
  OBVIOUS
<1> HIDE DEF m, a, body
<1>3. body \in Seq(BodyLines) /\ h.os \in Int /\ h.ns \in Int /\ DOMAIN body = 1..m /\ p \in 1..m
  BY <1>1, <1>2 DEF HunkSpace, body
<1>4. Up(OldIn(body), 0) = 0 /\ Up(NewIn(body), 0) = 0
  BY UpZero
<1>5. OldNo(sc, a) \in Nat /\ NewNo(sc, a) \in Nat
  BY <1>2, NosAre
<1>6. \/ h.os + Up(OldIn(body), 0) = OldNo(sc, a) + 1
      \/ \A t \in 1..m : sc[a + t] = "a"
  <2>1. CASE h.ol = 0
    <3>1. \A t \in 1..m : body[t].op = "a"
      BY <1>1, <1>3, <2>1, CountsNone
    <3>2. \A t \in 1..m : body[t].op = sc[a + t]
      BY <1>1, <1>2 DEF Stretch
    <3> QED
      BY <3>1, <3>2
  <2>2. CASE h.ol # 0
    BY <1>1, <1>4, <1>5, <2>2
  <2> QED
    BY <2>1, <2>2
<1>7. \/ h.ns + Up(NewIn(body), 0) = NewNo(sc, a) + 1
      \/ \A t \in 1..m : sc[a + t] = "d"
  <2>1. CASE h.nl = 0
    <3>1. \A t \in 1..m : body[t].op = "d"
      BY <1>1, <1>3, <2>1, CountsNone
    <3>2. \A t \in 1..m : body[t].op = sc[a + t]
      BY <1>1, <1>2 DEF Stretch
    <3> QED
      BY <3>1, <3>2
  <2>2. CASE h.nl # 0
    BY <1>1, <1>4, <1>5, <2>2
  <2> QED
    BY <2>1, <2>2
<1>8. h.body[p].at = a + (p - 0) /\ h.body[p].op = sc[a + (p - 0)] /\ TrulyAt(sc, h, p)
  <2>1. Starts(sc, h, 0, a, m) /\ Stretch(sc, h.body, 0, a, m) /\ h.body \in Seq(BodyLines)
    BY <1>1, <1>3, <1>6, <1>7 DEF Starts, body
  <2>2. p \in (0 + 1)..(0 + m)
    BY <1>2, <1>3
  <2> QED
    <3>1. m \in Nat /\ a \in Nat /\ a + m <= Len(sc) /\ 0 \in Nat /\ h.os \in Int /\ h.ns \in Int
      BY <1>2, <1>3
    <3>2. OfStretch(sc, h, 0, a, m)
      BY <2>1, <3>1 DEF OfStretch
    <3>3. LineOfStretch(sc, h, 0, a, p)
      BY <2>2, <3>2, StretchIsTrue
    <3> QED
      BY <3>3 DEF LineOfStretch
<1>9. p - 0 = p
  BY <1>2, <1>3
<1> QED
  BY <1>2, <1>3, <1>8, <1>9

\* The least and the greatest of a set of numbers.
LEMMA LeastIs ==
  ASSUME NEW S \in SUBSET Nat, S # {}
  PROVE  Least(S) \in S /\ \A y \in S : Least(S) <= y
<1>1. \E x \in S : \A y \in S : x <= y
  BY LeastNatural
<1> QED
  BY <1>1, Zenon DEF Least

LEMMA GreatestIs ==
  ASSUME NEW b \in Nat, NEW S \in SUBSET (0..b), S # {}
  PROVE  Greatest(S) \in S /\ \A y \in S : y <= Greatest(S)
<1> DEFINE T == {b - x : x \in S}
<1>1. T \in SUBSET Nat /\ T # {}
  <2>1. \A x \in 0..b : b - x \in Nat
    OBVIOUS
  <2> QED
    BY <2>1
<1>2. PICK t \in T : \A u \in T : t <= u
  <2> HIDE DEF T
  <2> QED
    BY <1>1, LeastNatural
<1>3. PICK m \in S : t = b - m
  OBVIOUS
<1>4. \A x \in S : x <= m
  <2>1. ASSUME NEW x \in S PROVE x <= m
    <3>0. \A y \in S : y \in 0..b
      OBVIOUS
    <3>1. b - x \in T /\ x \in Int /\ m \in Int
      <4>1. x \in Int /\ m \in Int
        BY <3>0
      <4>2. b - x \in T
        BY Zenon
      <4> QED
        BY <4>1, <4>2
    <3>2. b - m <= b - x
      BY <1>2, <1>3, <3>1
    <3> QED
      BY <3>1, <3>2
  <2> QED
    BY <2>1
<1> QED
  BY <1>3, <1>4, Zenon DEF Greatest

\* Where a run of numbers of a set ends.
EndOf(S, i) == Least({j \in S : j >= i /\ j + 1 \notin S})

LEMMA RunEnds ==
  ASSUME NEW n \in Nat, NEW S \in SUBSET (1..n), NEW i \in S
  PROVE  /\ EndOf(S, i) \in S /\ EndOf(S, i) >= i /\ EndOf(S, i) + 1 \notin S
         /\ \A t \in i..EndOf(S, i) : t \in S
<1> DEFINE E == {j \in S : j >= i /\ j + 1 \notin S}
           e == EndOf(S, i)
<1>1. \A j \in S : j \in 1..n /\ j \in Nat /\ j \in 0..n
  OBVIOUS
<1>2. E \in SUBSET Nat /\ E # {}
  <2> DEFINE g == Greatest(S)
  <2>1. S \in SUBSET (0..n) /\ S # {}
    BY <1>1
  <2>2. g \in S /\ \A y \in S : y <= g
    BY <2>1, GreatestIs
  <2> HIDE DEF g
  <2>3. g >= i /\ g + 1 \notin S
    <3>1. g \in Nat /\ i \in Nat /\ i <= g /\ ~(g + 1 <= g)
      BY <1>1, <2>2
    <3> QED
      BY <2>2, <3>1
  <2>4. g \in E
    BY <2>2, <2>3
  <2> QED
    BY <1>1, <2>4
<1>3. e \in E /\ \A y \in E : e <= y
  <2>1. e = Least(E)
    BY DEF EndOf
  <2> HIDE DEF E, e
  <2> QED
    BY <1>2, <2>1, LeastIs
<1>4. e \in S /\ e >= i /\ e + 1 \notin S /\ e \in Nat /\ i \in Nat
  BY <1>1, <1>3
<1>5. ASSUME NEW t \in i..e PROVE t \in S
  <2> DEFINE b == e - i
             G == {k \in 0..b : i + k \in S}
  <2>1. b \in Nat
    BY <1>4
  <2>2. 0 \in G
    <3>1. i + 0 = i
      BY <1>4
    <3> QED
      BY <2>1, <3>1
  <2>3. ASSUME NEW k \in 1..b, k - 1 \in G PROVE k \in G
    <3>1. i + (k - 1) \in S /\ (i + (k - 1)) + 1 = i + k /\ i + (k - 1) >= i /\ ~(e <= i + (k - 1)) /\ k \in 0..b
      BY <1>4, <2>3
    <3>2. i + k \notin S => i + (k - 1) \in E
      BY <3>1
    <3> QED
      BY <1>3, <3>1, <3>2
  <2>4. 0..b \subseteq G
    <3> HIDE DEF b, G
    <3> QED
      BY <2>1, <2>2, <2>3, UpTo
  <2>5. t - i \in 0..b /\ i + (t - i) = t
    BY <1>4
  <2> QED
    BY <2>4, <2>5
<1> QED
  BY <1>4, <1>5

\* The hunks are the script's in order, and hold every change.
Serves(hs, sc, lo, hi) ==
  /\ hs \in Seq(HunkSpace)
  /\ lo \in [1..Len(hs) -> 1..Len(sc)] /\ hi \in [1..Len(hs) -> 1..Len(sc)]
  /\ \A x \in 1..Len(hs) : lo[x] <= hi[x] /\ hs[x] = ServedHunk(sc, lo[x], hi[x])
  /\ \A x, y \in 1..Len(hs) : x < y => hi[x] < lo[y]
  /\ \A i \in Changed(sc) : \E x \in 1..Len(hs) : i \in lo[x]..hi[x]

LEMMA ServedIs ==
  ASSUME NEW sc \in Seq(Ops), NEW u \in Nat
  PROVE  \E lo, hi : Serves(ServedDiff(sc, u), sc, lo, hi)
<1> DEFINE n == Len(sc)
           near == {i \in DOMAIN sc : \E j \in Changed(sc) : i - j \in -u..u}
           F == {i \in near : i - 1 \notin near}
           firsts == Ascending(F)
           hs == ServedDiff(sc, u)
<1>1. n \in Nat /\ DOMAIN sc = 1..n /\ near \in SUBSET (1..n) /\ F \in SUBSET (1..n)
  OBVIOUS
<1>2. hs = [h \in DOMAIN firsts |-> ServedHunk(sc, firsts[h], EndOf(near, firsts[h]))]
  BY DEF ServedDiff, EndOf
<1>3. \A c \in Changed(sc) : c \in near
  <2>1. ASSUME NEW c \in Changed(sc) PROVE c \in near
    <3>1. c \in DOMAIN sc /\ c - c = 0 /\ 0 \in -u..u
      BY DEF Changed
    <3> QED
      BY <3>1
  <2> QED
    BY <2>1
<1>4. \A i \in near : /\ EndOf(near, i) \in near /\ EndOf(near, i) >= i /\ EndOf(near, i) + 1 \notin near
                      /\ \A t \in i..EndOf(near, i) : t \in near
  <2> HIDE DEF near, n
  <2> QED
    BY <1>1, RunEnds
<1> DEFINE m == Up(F, n)
<1>5. /\ firsts \in Seq(F) /\ Len(firsts) = m
      /\ \A i \in F : Up(F, i) \in 1..m /\ firsts[Up(F, i)] = i
      /\ \A k, l \in 1..m : k < l => firsts[k] < firsts[l]
  <2> HIDE DEF F, n
  <2> QED
    BY <1>1, AscendingIs
<1>6. m \in Nat
  BY <1>1, UpType
<1>7. \A i \in F : i \in near /\ i - 1 \notin near /\ i \in 1..n
  BY <1>1
<1> HIDE DEF m, F, near, firsts, hs, n
<1>8. DOMAIN firsts = 1..m /\ \A k \in 1..m : firsts[k] \in F
  BY <1>5, <1>6
<1> DEFINE lo == [x \in 1..m |-> firsts[x]]
           hi == [x \in 1..m |-> EndOf(near, firsts[x])]
<1>9. ASSUME NEW x \in 1..m
      PROVE  /\ lo[x] \in F /\ lo[x] \in near /\ lo[x] - 1 \notin near /\ lo[x] \in 1..n
             /\ hi[x] \in near /\ hi[x] \in 1..n /\ hi[x] >= lo[x] /\ hi[x] + 1 \notin near
             /\ \A t \in lo[x]..hi[x] : t \in near
             /\ hs[x] = ServedHunk(sc, lo[x], hi[x])
  BY <1>1, <1>2, <1>4, <1>7, <1>8
<1>10. DOMAIN hs = 1..m
  BY <1>2, <1>8
<1>11. lo \in [1..m -> 1..n] /\ hi \in [1..m -> 1..n]
  BY <1>9
<1>12. \A k, l \in 1..m : k < l => lo[k] < lo[l]
  BY <1>5
<1> HIDE DEF lo, hi
<1>13. hs \in Seq(HunkSpace) /\ Len(hs) = m
  <2>1. ASSUME NEW x \in 1..m PROVE hs[x] \in HunkSpace
    <3>1. lo[x] \in 1..Len(sc) /\ hi[x] \in lo[x]..Len(sc)
      BY <1>1, <1>9 DEF n
    <3> QED
      BY <1>9, <3>1, ServedHunkIs
  <2>2. hs = [x \in 1..m |-> hs[x]]
    BY <1>2, <1>8
  <2> QED
    BY <1>6, <2>1, <2>2
<1>14. ASSUME NEW x \in 1..m, NEW y \in 1..m, x < y PROVE hi[x] < lo[y]
  <2>1. lo[x] < lo[y]
    BY <1>12, <1>14
  <2>2. lo[x] \in Nat /\ hi[x] \in Nat /\ lo[y] \in Nat /\ lo[y] - 1 \notin near
    BY <1>9
  <2>3. ASSUME lo[y] <= hi[x] PROVE FALSE
    <3>1. lo[y] - 1 \in lo[x]..hi[x]
      BY <2>1, <2>2, <2>3
    <3> QED
      BY <1>9, <2>2, <3>1
  <2> QED
    BY <2>2, <2>3
<1>15. ASSUME NEW c \in Changed(sc) PROVE \E x \in 1..m : c \in lo[x]..hi[x]
  <2> DEFINE B == {i \in 1..c : \A t \in i..c : t \in near}
             i == Least(B)
  <2>1. c \in near /\ c \in 1..n /\ c \in Nat
    <3>1. c \in near
      BY <1>3
    <3>2. c \in 1..n
      BY <1>1, <3>1
    <3> QED
      BY <1>1, <3>1, <3>2
  <2>2. B \in SUBSET Nat /\ B # {}
    <3>1. c \in B
      BY <2>1
    <3> QED
      BY <3>1
  <2>3. i \in B /\ \A y \in B : i <= y
    <3> HIDE DEF B
    <3> QED
      BY <2>2, LeastIs
  <2> HIDE DEF i
  <2>4. i \in 1..c /\ i \in near /\ \A t \in i..c : t \in near
    BY <2>1, <2>3
  <2>5. i - 1 \notin near
    <3> SUFFICES ASSUME i - 1 \in near PROVE FALSE
      OBVIOUS
    <3>1. i - 1 \in 1..c
      BY <1>1, <2>1, <2>4
    <3>2. \A t \in (i - 1)..c : t = i - 1 \/ t \in i..c
      BY <2>4
    <3>3. i - 1 \in B
      BY <2>4, <3>1, <3>2
    <3> QED
      BY <2>3, <2>4, <3>3
  <2>6. i \in F
    BY <2>4, <2>5 DEF F
  <2>7. Up(F, i) \in 1..m /\ lo[Up(F, i)] = i
    BY <1>5, <2>6 DEF lo
  <2> DEFINE x == Up(F, i)
  <2>8. hi[x] >= c
    <3>1. hi[x] \in Nat /\ hi[x] >= i /\ hi[x] + 1 \notin near
      BY <1>9, <2>7
    <3>2. ~(hi[x] >= c) => hi[x] + 1 \in i..c
      BY <2>1, <2>4, <3>1
    <3> QED
      BY <2>4, <3>1, <3>2
  <2>9. c \in lo[x]..hi[x]
    BY <1>9, <2>1, <2>4, <2>7, <2>8
  <2> QED
    BY <2>7, <2>9
<1>16. Serves(hs, sc, lo, hi)
  BY <1>9, <1>11, <1>13, <1>14, <1>15 DEF Serves, n
<1> QED
  BY <1>16 DEF hs

-------------------------------------------------------------------------------
(* Runs of hunks whose padded windows meet *)

Windows == [first : Nat, last : Nat, lead : Nat]

\* Hunks that start, on each side, at a line of the file.
Numbered(hs) ==
  /\ hs \in Seq(HunkSpace)
  /\ \A h \in 1..Len(hs) : /\ FirstNew(hs[h]) \in Nat \ {0} /\ FirstOld(hs[h]) \in Nat \ {0}
                           /\ LastNew(hs[h]) \in Nat

\* A window starts in the file and within its hunk's first line, and takes no
\* more lines before the hunk than the old side has.
LeadFits(lead, h) ==
  lead \in Nat /\ 1 <= lead /\ lead <= FirstNew(h) /\ FirstNew(h) - (FirstOld(h) - 1) <= lead

TrailOf(h, len, after) == LesserOf(len, LastNew(h) + after)

GroupIs(g, hs, h, len) ==
  /\ g \in Windows /\ 1 <= g.first /\ g.first <= g.last /\ g.last <= h
  /\ LeadFits(g.lead, hs[g.first])
  /\ \A k \in (g.first + 1)..g.last : FirstNew(hs[k]) - 1 <= len

NextGroup(g, f, hs, len, after) ==
  f.first = g.last + 1 /\ f.lead > TrailOf(hs[g.last], len, after)

\* The first hunks, in runs that do not meet.
GroupsTo(gs, h, hs, len, after) ==
  /\ gs \in Seq(Windows)
  /\ gs = <<>> <=> h = 0
  /\ h > 0 => gs[Len(gs)].last = h
  /\ \A x \in 1..Len(gs) : GroupIs(gs[x], hs, h, len)
  /\ \A x, y \in 1..Len(gs) : x < y => gs[x].last < gs[y].first
  /\ \A x \in 1..Len(gs) : x + 1 \in 1..Len(gs) => NextGroup(gs[x], gs[x + 1], hs, len, after)
  /\ Len(gs) > 0 => gs[1].first = 1
  /\ \A k \in 1..h : \E x \in 1..Len(gs) : k \in gs[x].first..gs[x].last

\* A hunk whose window starts after the last run's ends begins a run.
LEMMA GroupsAlone ==
  ASSUME NEW hs, NEW h \in Nat, NEW len, NEW after, NEW gs, GroupsTo(gs, h, hs, len, after),
         NEW lead, LeadFits(lead, hs[h + 1]), h = 0 \/ lead > TrailOf(hs[h], len, after)
  PROVE  GroupsTo(Append(gs, [first |-> h + 1, last |-> h + 1, lead |-> lead]), h + 1, hs, len, after)
<1> DEFINE g == [first |-> h + 1, last |-> h + 1, lead |-> lead]
           new == Append(gs, g)
           l == Len(gs)
<1>1. gs \in Seq(Windows) /\ l \in Nat /\ g \in Windows
      /\ g.first = h + 1 /\ g.last = h + 1 /\ g.lead = lead
  BY DEF GroupsTo, Windows, LeadFits
<1> HIDE DEF g
<1>2. /\ new \in Seq(Windows) /\ Len(new) = l + 1 /\ new[l + 1] = g /\ new # <<>>
      /\ \A x \in 1..l : new[x] = gs[x]
  BY <1>1, AppendProperties
<1> HIDE DEF new, l
<1>3. \A x \in 1..l : GroupIs(gs[x], hs, h, len)
  BY DEF GroupsTo, l
<1>4. GroupIs(g, hs, h + 1, len)
  BY <1>1 DEF GroupIs
<1>5. ASSUME NEW x \in 1..(l + 1) PROVE GroupIs(new[x], hs, h + 1, len)
  <2>1. CASE x = l + 1
    BY <1>2, <1>4, <2>1
  <2>2. CASE x \in 1..l
    <3>1. new[x] = gs[x] /\ GroupIs(gs[x], hs, h, len)
      BY <1>2, <1>3, <2>2
    <3>2. GroupIs(gs[x], hs, h + 1, len)
      <4>1. gs[x].last <= h /\ gs[x].last \in Nat
        BY <3>1 DEF GroupIs, Windows
      <4>2. gs[x].last <= h + 1
        BY <4>1
      <4> QED
        BY <3>1, <4>2 DEF GroupIs
    <3> QED
      BY <3>1, <3>2
  <2> QED
    BY <1>1, <2>1, <2>2
<1>6. \A x \in 1..l : gs[x].last \in Nat /\ gs[x].last <= h
  BY <1>3 DEF GroupIs, Windows
<1>7. ASSUME NEW x \in 1..(l + 1), NEW y \in 1..(l + 1), x < y PROVE new[x].last < new[y].first
  <2>1. x \in 1..l /\ (y = l + 1 \/ y \in 1..l)
    BY <1>1, <1>7
  <2>2. CASE y = l + 1
    BY <1>1, <1>2, <1>6, <2>1, <2>2
  <2>3. CASE y \in 1..l
    <3>1. gs[x].last < gs[y].first
      BY <1>7, <2>1, <2>3 DEF GroupsTo, l
    <3> QED
      BY <1>2, <2>1, <2>3, <3>1
  <2> QED
    BY <2>1, <2>2, <2>3
<1>8. ASSUME NEW x \in 1..(l + 1), x + 1 \in 1..(l + 1)
      PROVE  NextGroup(new[x], new[x + 1], hs, len, after)
  <2>1. x \in 1..l /\ (x = l \/ x + 1 \in 1..l)
    BY <1>1, <1>8
  <2>2. CASE x = l
    <3>1. l > 0 /\ l # 0
      BY <1>1, <2>1
    <3>2. gs # <<>>
      BY <1>1, <3>1 DEF l
    <3>3. h > 0 /\ gs[l].last = h
      BY <3>2 DEF GroupsTo, l
    <3>4. new[x].last = h /\ new[x + 1] = g
      BY <1>2, <2>1, <2>2, <3>3
    <3>5. lead > TrailOf(hs[h], len, after)
      BY <3>3
    <3> QED
      BY <1>1, <3>4, <3>5 DEF NextGroup
  <2>3. CASE x + 1 \in 1..l
    <3>1. NextGroup(gs[x], gs[x + 1], hs, len, after)
      BY <2>1, <2>3 DEF GroupsTo, l
    <3> QED
      BY <1>2, <2>1, <2>3, <3>1
  <2> QED
    BY <2>1, <2>2, <2>3
<1>9. new[1].first = 1
  <2>1. CASE l = 0
    <3>1. gs = <<>>
      BY <1>1, <2>1 DEF l
    <3>2. h = 0
      BY <3>1 DEF GroupsTo
    <3> QED
      BY <1>1, <1>2, <2>1, <3>2
  <2>2. CASE l # 0
    <3>1. l > 0 /\ 1 \in 1..l
      BY <1>1, <2>2
    <3>2. gs[1].first = 1
      BY <3>1 DEF GroupsTo, l
    <3> QED
      BY <1>2, <3>1, <3>2
  <2> QED
    BY <2>1, <2>2
<1>10. ASSUME NEW k \in 1..(h + 1) PROVE \E x \in 1..(l + 1) : k \in new[x].first..new[x].last
  <2>1. CASE k = h + 1
    <3>1. l + 1 \in 1..(l + 1) /\ k \in new[l + 1].first..new[l + 1].last
      BY <1>1, <1>2, <2>1
    <3> QED
      BY <3>1
  <2>2. CASE k \in 1..h
    <3>1. PICK x \in 1..l : k \in gs[x].first..gs[x].last
      BY <2>2 DEF GroupsTo, l
    <3>2. x \in 1..(l + 1) /\ new[x] = gs[x]
      BY <1>1, <1>2, <3>1
    <3> QED
      BY <3>1, <3>2
  <2> QED
    BY <2>1, <2>2
<1>11. GroupsTo(new, h + 1, hs, len, after)
  <2>1. h + 1 # 0 /\ h + 1 > 0
    OBVIOUS
  <2>2. new[Len(new)].last = h + 1
    BY <1>1, <1>2
  <2> QED
    BY <1>2, <1>5, <1>7, <1>8, <1>9, <1>10, <2>1, <2>2 DEF GroupsTo
<1> QED
  BY <1>11 DEF new, g

\* The last run takes the next hunk when its text can be read up to it.
LEMMA GroupsLonger ==
  ASSUME NEW hs, NEW h \in Nat, h > 0, NEW len, NEW after, NEW gs, GroupsTo(gs, h, hs, len, after),
         FirstNew(hs[h + 1]) - 1 <= len
  PROVE  GroupsTo([gs EXCEPT ![Len(gs)].last = h + 1], h + 1, hs, len, after)
<1> DEFINE l == Len(gs)
           new == [gs EXCEPT ![Len(gs)].last = h + 1]
<1>1. gs \in Seq(Windows) /\ gs # <<>>
  BY DEF GroupsTo
<1>2. l \in Nat /\ l > 0 /\ l \in 1..l /\ DOMAIN gs = 1..l /\ \A x \in 1..l : gs[x] \in Windows
  BY <1>1
<1>3. /\ new \in Seq(Windows) /\ Len(new) = l /\ \A x \in 1..l : x # l => new[x] = gs[x]
      /\ new[l] = [gs[l] EXCEPT !.last = h + 1] /\ new # <<>>
  <2>1. [gs[l] EXCEPT !.last = h + 1] \in Windows
    BY <1>2 DEF Windows
  <2>2. new = [x \in 1..l |-> IF x = l THEN [gs[l] EXCEPT !.last = h + 1] ELSE gs[x]]
    BY <1>2
  <2>3. new \in [1..l -> Windows]
    BY <1>2, <2>1, <2>2
  <2>4. new \in Seq(Windows) /\ Len(new) = l
    BY <1>2, <2>3
  <2> QED
    BY <1>2, <2>2, <2>4
<1>4. new[l].first = gs[l].first /\ new[l].lead = gs[l].lead /\ new[l].last = h + 1 /\ gs[l].last = h
  BY <1>2, <1>3 DEF GroupsTo, Windows
<1> HIDE DEF new, l
<1>5. \A x \in 1..l : GroupIs(gs[x], hs, h, len)
  BY DEF GroupsTo, l
<1>6. ASSUME NEW x \in 1..l PROVE GroupIs(new[x], hs, h + 1, len)
  <2>1. GroupIs(gs[x], hs, h, len) /\ gs[x].last \in Nat /\ gs[x].first \in Nat
    BY <1>2, <1>5 DEF Windows
  <2>2. CASE x # l
    <3>1. gs[x].last <= h + 1
      BY <2>1 DEF GroupIs
    <3> QED
      BY <1>3, <2>1, <2>2, <3>1 DEF GroupIs
  <2>3. CASE x = l
    <3>1. new[l] \in Windows
      BY <1>2, <1>3
    <3>2. 1 <= gs[l].first /\ gs[l].first <= h + 1 /\ LeadFits(gs[l].lead, hs[gs[l].first])
      BY <1>4, <2>1, <2>3 DEF GroupIs
    <3>3. ASSUME NEW k \in (gs[l].first + 1)..(h + 1) PROVE FirstNew(hs[k]) - 1 <= len
      <4>1. k = h + 1 \/ k \in (gs[l].first + 1)..h
        BY <2>1, <2>3
      <4> QED
        BY <1>4, <2>1, <2>3, <4>1 DEF GroupIs
    <3> QED
      BY <1>4, <2>3, <3>1, <3>2, <3>3 DEF GroupIs
  <2> QED
    BY <2>2, <2>3
<1>7. ASSUME NEW x \in 1..l, NEW y \in 1..l, x < y PROVE new[x].last < new[y].first
  <2>1. x # l /\ gs[x].last < gs[y].first
    <3>1. l \in Nat
      BY <1>2
    <3>2. x # l
      BY <1>7, <3>1
    <3>3. gs[x].last < gs[y].first
      BY <1>7, Zenon DEF GroupsTo, l
    <3> QED
      BY <3>2, <3>3
  <2> QED
    BY <1>3, <1>4, <2>1
<1>8. ASSUME NEW x \in 1..l, x + 1 \in 1..l PROVE NextGroup(new[x], new[x + 1], hs, len, after)
  <2>1. x # l /\ NextGroup(gs[x], gs[x + 1], hs, len, after)
    <3>1. l \in Nat
      BY <1>2
    <3>2. x # l
      BY <1>8, <3>1
    <3>3. NextGroup(gs[x], gs[x + 1], hs, len, after)
      BY <1>8, Zenon DEF GroupsTo, l
    <3> QED
      BY <3>2, <3>3
  <2>2. new[x] = gs[x] /\ new[x + 1].first = gs[x + 1].first /\ new[x + 1].lead = gs[x + 1].lead
    BY <1>3, <1>4, <1>8, <2>1
  <2> QED
    BY <2>1, <2>2 DEF NextGroup
<1>9. new[1].first = 1
  <2>1. 1 \in 1..l /\ gs[1].first = 1
    BY <1>2 DEF GroupsTo, l
  <2> QED
    BY <1>3, <1>4, <2>1
<1>10. ASSUME NEW k \in 1..(h + 1) PROVE \E x \in 1..l : k \in new[x].first..new[x].last
  <2>1. CASE k = h + 1
    <3>1. gs[l].first <= h /\ gs[l].first \in Nat
      BY <1>2, <1>4, <1>5 DEF GroupIs, Windows
    <3>2. k \in new[l].first..new[l].last
      BY <1>4, <2>1, <3>1
    <3> QED
      BY <1>2, <3>2
  <2>2. CASE k \in 1..h
    <3>1. PICK x \in 1..l : k \in gs[x].first..gs[x].last
      BY <2>2 DEF GroupsTo, l
    <3>2. gs[x].first \in Nat /\ gs[x].last \in Nat
      BY <1>2 DEF Windows
    <3>3. k \in new[x].first..new[x].last
      <4>1. CASE x = l
        BY <1>4, <3>1, <3>2, <4>1
      <4>2. CASE x # l
        BY <1>3, <3>1, <4>2
      <4> QED
        BY <4>1, <4>2
    <3> QED
      BY <3>3
  <2> QED
    BY <2>1, <2>2
<1>11. GroupsTo(new, h + 1, hs, len, after)
  <2>1. h + 1 # 0 /\ new[Len(new)].last = h + 1
    BY <1>3, <1>4
  <2> QED
    BY <1>3, <1>6, <1>7, <1>8, <1>9, <1>10, <2>1 DEF GroupsTo
<1> QED
  BY <1>11 DEF new

LEMMA AddHunkIs ==
  ASSUME NEW hs, Numbered(hs), NEW h \in Nat, h + 1 \in 1..Len(hs), NEW len \in Nat, NEW after \in Nat,
         NEW gs, GroupsTo(gs, h, hs, len, after), NEW lead, LeadFits(lead, hs[h + 1])
  PROVE  GroupsTo(AddHunk(gs, h + 1, hs, lead, len, after), h + 1, hs, len, after)
<1> DEFINE trail == TrailOf(hs[h], len, after)
           alone(l) == Append(gs, [first |-> h + 1, last |-> h + 1, lead |-> l])
           added == AddHunk(gs, h + 1, hs, lead, len, after)
<1>1. CASE gs = <<>>
  <2>1. h = 0
    BY <1>1 DEF GroupsTo
  <2>2. added = alone(lead)
    BY <1>1 DEF AddHunk
  <2>3. GroupsTo(alone(lead), h + 1, hs, len, after)
    <3> HIDE DEF alone
    <3> QED
      BY <2>1, GroupsAlone DEF alone
  <2> QED
    BY <2>2, <2>3
<1>2. CASE gs # <<>>
  <2>1. h # 0 /\ h > 0 /\ (h + 1) - 1 = h /\ h \in 1..Len(hs)
    <3>1. h # 0
      BY <1>2 DEF GroupsTo
    <3> QED
      BY <3>1
  <2>2. LastNew(hs[h]) \in Nat /\ FirstNew(hs[h + 1]) \in Nat
    BY <2>1 DEF Numbered
  <2>3. trail \in Nat /\ trail <= len
    BY <2>2 DEF TrailOf, LesserOf
  <2>4. lead \in Nat
    BY DEF LeadFits
  <2>5. CASE ~Reaches(lead, trail)
    <3>1. added = alone(lead)
      BY <1>2, <2>1, <2>5 DEF AddHunk, TrailOf
    <3>2. lead > trail
      BY <2>3, <2>4, <2>5 DEF Reaches
    <3>3. GroupsTo(alone(lead), h + 1, hs, len, after)
      <4> HIDE DEF alone
      <4> QED
        BY <3>2, GroupsAlone DEF alone
    <3> QED
      BY <3>1, <3>3
  <2>6. CASE Reaches(lead, trail) /\ FirstNew(hs[h + 1]) - 1 <= len
    <3>1. added = [gs EXCEPT ![Len(gs)].last = h + 1]
      BY <1>2, <2>1, <2>6 DEF AddHunk, TrailOf
    <3> QED
      BY <2>1, <2>6, <3>1, GroupsLonger
  <2>7. CASE Reaches(lead, trail) /\ ~(FirstNew(hs[h + 1]) - 1 <= len)
    <3> DEFINE later == GreaterOf(lead, trail + 1)
    <3>1. added = alone(later)
      BY <1>2, <2>1, <2>7 DEF AddHunk, TrailOf
    <3>2. later > trail /\ later \in Nat /\ later >= lead /\ (later = lead \/ later = trail + 1)
      BY <2>3, <2>4 DEF GreaterOf
    <3>3. LeadFits(later, hs[h + 1])
      <4>1. later <= FirstNew(hs[h + 1])
        <5>1. lead <= FirstNew(hs[h + 1])
          BY DEF LeadFits
        <5>2. trail + 1 <= FirstNew(hs[h + 1])
          BY <2>2, <2>3, <2>7
        <5> QED
          BY <3>2, <5>1, <5>2
      <4>2. FirstOld(hs[h + 1]) \in Nat
        BY DEF Numbered
      <4> HIDE DEF later
      <4> QED
        BY <2>2, <2>4, <3>2, <4>1, <4>2 DEF LeadFits
    <3>4. GroupsTo(alone(later), h + 1, hs, len, after)
      <4> HIDE DEF alone, later
      <4> QED
        BY <3>2, <3>3, GroupsAlone DEF alone
    <3> QED
      BY <3>1, <3>4
  <2> QED
    BY <2>5, <2>6, <2>7
<1> QED
  BY <1>1, <1>2

\* Where a hunk's window starts.
LEMMA LeadStartFits ==
  ASSUME NEW h, FirstNew(h) \in Nat \ {0}, FirstOld(h) \in Nat \ {0}, NEW n \in Nat \ {0},
         NEW ranges, ranges \subseteq Int \X Int
  PROVE  LeadFits(LeadStart(h, n, Spans(ranges)), h)
<1> DEFINE x == FirstNew(h)
           y == FirstOld(h)
           around == Enclosing(Spans(ranges), x)
           plain == GreaterOf(1, x - n)
           wide == IF around = {} THEN plain ELSE LesserOf(plain, Greatest(around))
<1>1. plain \in Nat /\ 1 <= plain /\ plain <= x
  BY DEF GreaterOf
<1>2. around \subseteq 1..x
  <2>1. ASSUME NEW s \in Spans(ranges) PROVE s[1] \in Nat /\ 1 <= s[1]
    <3>1. PICK r \in ranges : 0 <= r[1] /\ s = <<r[1] + 1, r[2] + 1>>
      BY DEF Spans
    <3>2. r[1] \in Int
      OBVIOUS
    <3> QED
      BY <3>1, <3>2
  <2>2. ASSUME NEW e \in around PROVE e \in 1..x
    <3>1. PICK s \in Spans(ranges) : e = s[1] /\ s[1] <= x
      BY DEF Enclosing
    <3> QED
      BY <2>1, <3>1
  <2> QED
    BY <2>2
<1>3. around # {} => Greatest(around) \in 1..x
  <2> SUFFICES ASSUME around # {} PROVE Greatest(around) \in 1..x
    OBVIOUS
  <2>1. x \in Nat /\ around \in SUBSET (0..x)
    BY <1>2
  <2>2. Greatest(around) \in around
    <3> HIDE DEF around, x
    <3> QED
      BY <2>1, GreatestIs
  <2> QED
    BY <1>2, <2>2
<1> HIDE DEF around, plain
<1>4. wide \in Nat /\ 1 <= wide /\ wide <= x
  BY <1>1, <1>3 DEF LesserOf
<1>5. LeadStart(h, n, Spans(ranges)) = GreaterOf(wide, x - (y - 1))
  BY DEF LeadStart, around, plain
<1> HIDE DEF wide
<1>6. x - (y - 1) <= x /\ x \in Nat /\ y \in Nat
  OBVIOUS
<1>7. LeadFits(GreaterOf(wide, x - (y - 1)), h)
  BY <1>4, <1>6 DEF LeadFits, GreaterOf
<1> QED
  BY <1>5, <1>7

LEMMA GroupHunksIs ==
  ASSUME NEW hs, Numbered(hs), NEW len \in Nat, NEW n \in Nat \ {0}, NEW after \in Nat,
         NEW ranges, ranges \subseteq Int \X Int
  PROVE  GroupsTo(GroupHunks(hs, len, n, after, Spans(ranges)), Len(hs), hs, len, after)
<1> DEFINE m == Len(hs)
           add(gs, h) == AddHunk(gs, h, hs, LeadStart(hs[h], n, Spans(ranges)), len, after)
           V == Seq(Windows)
           step == [h \in 1..m |-> [gs \in V |-> IF add(gs, h) \in V THEN add(gs, h) ELSE <<>>]]
<1>0. m \in Nat /\ m \in 0..m
  BY DEF Numbered
<1>1. <<>> \in V /\ step \in [1..m -> [V -> V]]
  <2>1. <<>> \in V
    OBVIOUS
  <2> HIDE DEF add, m
  <2> QED
    BY <2>1
<1>2. PICK f : Looped(f, m, V, <<>>, step)
  <2> HIDE DEF step, m, V
  <2> QED
    BY <1>0, <1>1, Loop
<1> HIDE DEF m, add
<1>3. f[0] = <<>> /\ \A h \in 1..m : f[h] = step[h][f[h - 1]]
  BY <1>2 DEF Looped
<1>4. ASSUME NEW h \in 1..m, NEW gs, GroupsTo(gs, h - 1, hs, len, after)
      PROVE  GroupsTo(add(gs, h), h, hs, len, after)
  <2>1. h - 1 \in Nat /\ (h - 1) + 1 = h /\ h \in 1..Len(hs)
    BY <1>0 DEF m
  <2>2. LeadFits(LeadStart(hs[h], n, Spans(ranges)), hs[h])
    BY <2>1, LeadStartFits DEF Numbered
  <2> DEFINE b == h - 1
             lead == LeadStart(hs[h], n, Spans(ranges))
  <2>3. b \in Nat /\ b + 1 \in 1..Len(hs) /\ b + 1 = h /\ LeadFits(lead, hs[b + 1]) /\ GroupsTo(gs, b, hs, len, after)
    BY <1>4, <2>1, <2>2
  <2> HIDE DEF b, lead
  <2>4. GroupsTo(AddHunk(gs, b + 1, hs, lead, len, after), b + 1, hs, len, after)
    BY <2>3, AddHunkIs
  <2>5. AddHunk(gs, b + 1, hs, lead, len, after) = add(gs, h)
    BY <2>3 DEF add, lead
  <2> QED
    BY <2>3, <2>4, <2>5
<1> DEFINE S == {h \in 0..m : GroupsTo(f[h], h, hs, len, after)}
<1>5. 0 \in S
  <2>1. GroupsTo(<<>>, 0, hs, len, after)
    <3>1. <<>> \in Seq(Windows) /\ Len(<<>>) = 0
      OBVIOUS
    <3> QED
      BY <3>1 DEF GroupsTo
  <2> QED
    BY <1>0, <1>3, <2>1
<1>6. ASSUME NEW h \in 1..m, h - 1 \in S PROVE h \in S /\ f[h] = add(f[h - 1], h)
  <2>1. GroupsTo(f[h - 1], h - 1, hs, len, after) /\ h \in 0..m
    BY <1>0, <1>6
  <2>2. GroupsTo(add(f[h - 1], h), h, hs, len, after)
    BY <1>4, <2>1
  <2>3. f[h - 1] \in V /\ add(f[h - 1], h) \in V
    BY <2>1, <2>2 DEF GroupsTo
  <2>4. f[h] = add(f[h - 1], h)
    BY <1>3, <2>3
  <2> QED
    BY <2>1, <2>2, <2>4
<1>7. 0..m \subseteq S
  <2> HIDE DEF S
  <2> QED
    BY <1>0, <1>5, <1>6, UpTo
<1>8. f = [h \in 0..m |-> IF h = 0 THEN <<>> ELSE add(f[h - 1], h)]
  <2>1. f \in [0..m -> V]
    BY <1>2 DEF Looped
  <2>2. ASSUME NEW h \in 0..m PROVE f[h] = IF h = 0 THEN <<>> ELSE add(f[h - 1], h)
    <3>1. h # 0 => h \in 1..m /\ h - 1 \in 0..m
      BY <1>0
    <3> HIDE DEF S
    <3> QED
      BY <1>3, <1>6, <1>7, <3>1
  <2> QED
    BY <2>1, <2>2
<1> DEFINE grouped == CHOOSE g : g = [h \in 0..m |-> IF h = 0 THEN <<>> ELSE add(g[h - 1], h)]
<1>9. grouped = [h \in 0..m |-> IF h = 0 THEN <<>> ELSE add(grouped[h - 1], h)]
  BY <1>8, Zenon
<1>10. GroupHunks(hs, len, n, after, Spans(ranges)) = grouped[m]
  BY Zenon DEF GroupHunks, add, m
<1> HIDE DEF grouped, S
<1> DEFINE T == {h \in 0..m : grouped[h] = f[h]}
<1>11. 0 \in T
  BY <1>0, <1>3, <1>9
<1>12. ASSUME NEW h \in 1..m, h - 1 \in T PROVE h \in T
  <2>1. h \in 0..m /\ h # 0 /\ h - 1 \in 0..m /\ grouped[h - 1] = f[h - 1]
    BY <1>0, <1>12
  <2>2. grouped[h] = add(f[h - 1], h)
    BY <1>9, <2>1
  <2>3. f[h] = add(f[h - 1], h)
    BY <1>6, <1>7, <2>1
  <2> QED
    BY <2>1, <2>2, <2>3
<1>13. m \in T
  <2> HIDE DEF T
  <2>1. 0..m \subseteq T
    BY <1>0, <1>11, <1>12, UpTo
  <2> QED
    BY <1>0, <2>1
<1>14. GroupsTo(f[m], m, hs, len, after)
  BY <1>0, <1>7 DEF S
<1> QED
  BY <1>10, <1>13, <1>14 DEF m
-------------------------------------------------------------------------------
(* Text read for padding *)

LEMMA SeqWider ==
  ASSUME NEW A, NEW B, A \subseteq B, NEW s \in Seq(A)
  PROVE  s \in Seq(B)
<1>1. Len(s) \in Nat /\ \A i \in 1..Len(s) : s[i] \in B
  OBVIOUS
<1>2. s = [i \in 1..Len(s) |-> s[i]]
  OBVIOUS
<1>3. s \in [1..Len(s) -> B]
  BY <1>1, <1>2
<1> QED
  BY <1>1, <1>3

LEMMA HeadTextIs ==
  ASSUME NEW sc \in Seq(Ops)
  PROVE  /\ HeadText(sc) \in Seq(Nat) /\ Len(HeadText(sc)) = NewNo(sc, Len(sc))
         /\ \A i \in NewOf(sc) : /\ NewNo(sc, i) \in 1..Len(HeadText(sc))
                                 /\ HeadText(sc)[NewNo(sc, i)] = i
<1> DEFINE n == Len(sc)
           S == NewOf(sc)
<1>1. n \in Nat /\ n \in 0..n /\ DOMAIN sc = 1..n
  OBVIOUS
<1>2. S \in SUBSET (1..n) /\ S \in SUBSET (0..n)
  BY <1>1 DEF NewOf
<1>3. HeadText(sc) = Ascending(S)
  BY DEF HeadText, NewOf
<1>4. NewNo(sc, n) = Up(S, n) /\ \A i \in S : NewNo(sc, i) = Up(S, i)
  <2>1. ASSUME NEW i \in 0..n PROVE NewNo(sc, i) = Up(S, i)
    BY NosAre
  <2> QED
    BY <1>1, <1>2, <2>1
<1> HIDE DEF S, n
<1>5. /\ Ascending(S) \in Seq(S) /\ Len(Ascending(S)) = Up(S, n)
      /\ \A i \in S : Up(S, i) \in 1..Up(S, n) /\ Ascending(S)[Up(S, i)] = i
  BY <1>1, <1>2, AscendingIs
<1>6. S \subseteq Nat
  BY <1>1, <1>2
<1>7. Ascending(S) \in Seq(Nat)
  BY <1>5, <1>6, SeqWider
<1> QED
  BY <1>3, <1>4, <1>5, <1>7 DEF n, S

\* Kept lines of the script, after line e and up to line s.
Gap(sc, e, s) ==
  /\ e \in Nat /\ s \in Nat /\ e <= s /\ s <= Len(sc)
  /\ \A i \in (e + 1)..s : sc[i] = "k"

LEMMA GapNos ==
  ASSUME NEW sc \in Seq(Ops), NEW e, NEW s, Gap(sc, e, s), NEW i \in e..s
  PROVE  /\ OldNo(sc, i) = OldNo(sc, e) + (i - e) /\ NewNo(sc, i) = NewNo(sc, e) + (i - e)
         /\ OldNo(sc, e) \in Nat /\ NewNo(sc, e) \in Nat
<1>1. e \in Nat /\ s \in Nat /\ s <= Len(sc) /\ e \in 0..Len(sc)
  BY DEF Gap
<1> DEFINE t == i - e
<1>2. t \in Nat /\ e + t = i /\ e + t <= Len(sc)
  BY <1>1
<1>3. \A j \in 1..t : sc[e + j] = "k"
  <2>1. \A j \in 1..t : e + j \in (e + 1)..s
    BY <1>1, <1>2
  <2> QED
    BY <2>1 DEF Gap
<1> HIDE DEF t
<1>4. OldNo(sc, e + t) = OldNo(sc, e) + t /\ NewNo(sc, e + t) = NewNo(sc, e) + t
  BY <1>1, <1>2, <1>3, NosOfKept
<1>5. OldNo(sc, e) \in Nat /\ NewNo(sc, e) \in Nat
  BY <1>1, NosAre
<1> QED
  BY <1>2, <1>4, <1>5 DEF t

\* The head text holds the kept lines in their places.
LEMMA GapText ==
  ASSUME NEW sc \in Seq(Ops), NEW e, NEW s, Gap(sc, e, s), NEW v \in (NewNo(sc, e) + 1)..NewNo(sc, s)
  PROVE  /\ v \in 1..Len(HeadText(sc)) /\ HeadText(sc)[v] = e + (v - NewNo(sc, e))
         /\ e + (v - NewNo(sc, e)) \in (e + 1)..s
<1> DEFINE no == NewNo(sc, e)
           i == e + (v - no)
<1>1. e \in Nat /\ s \in Nat /\ e <= s /\ s <= Len(sc) /\ s \in e..s /\ e \in e..s
  BY DEF Gap
<1>2. no \in Nat /\ NewNo(sc, s) = no + (s - e)
  BY <1>1, GapNos
<1>3. v \in Nat /\ i \in (e + 1)..s /\ i - e = v - no
  BY <1>1, <1>2
<1> HIDE DEF no
<1>4. i \in e..s /\ i \in 1..Len(sc)
  BY <1>1, <1>3
<1> HIDE DEF i
<1>5. NewNo(sc, i) = no + (i - e)
  BY <1>4, GapNos DEF no
<1>6. NewNo(sc, i) = v
  BY <1>2, <1>3, <1>5
<1>7. i \in NewOf(sc)
  BY <1>3, <1>4 DEF Gap, NewOf
<1>8. v \in 1..Len(HeadText(sc)) /\ HeadText(sc)[v] = i
  BY <1>6, <1>7, HeadTextIs
<1> QED
  BY <1>3, <1>8 DEF i, no

\* A run of body lines that are the script's, after line a.
Runs(sc, s, a, m) ==
  /\ s \in Seq(BodyLines) /\ m \in Nat /\ a \in Nat /\ Len(s) = m /\ a + m <= Len(sc)
  /\ \A t \in 1..m : s[t] = [op |-> sc[a + t], at |-> a + t]

LEMMA RunsConcat ==
  ASSUME NEW sc, NEW s, NEW t, NEW a, NEW m, NEW b, NEW k, b = a + m, Runs(sc, s, a, m), Runs(sc, t, b, k)
  PROVE  Runs(sc, s \o t, a, m + k)
<1>1. s \in Seq(BodyLines) /\ t \in Seq(BodyLines) /\ Len(s) = m /\ Len(t) = k
      /\ m \in Nat /\ k \in Nat /\ a \in Nat /\ b + k <= Len(sc)
  BY DEF Runs
<1>2. /\ s \o t \in Seq(BodyLines) /\ Len(s \o t) = m + k
      /\ \A i \in 1..m : (s \o t)[i] = s[i]
      /\ \A i \in 1..k : (s \o t)[m + i] = t[i]
  <2>1. /\ s \o t \in Seq(BodyLines) /\ Len(s \o t) = Len(s) + Len(t)
        /\ \A i \in 1..Len(s) : (s \o t)[i] = s[i]
        /\ \A i \in 1..Len(t) : (s \o t)[Len(s) + i] = t[i]
    <3>1. s \in Seq(BodyLines) /\ t \in Seq(BodyLines)
      BY <1>1
    <3> QED
      BY <3>1, ConcatProperties
  <2> QED
    BY <1>1, <2>1
<1>3. ASSUME NEW i \in 1..(m + k) PROVE (s \o t)[i] = [op |-> sc[a + i], at |-> a + i]
  <2>1. CASE i \in 1..m
    BY <1>2, <2>1 DEF Runs
  <2>2. CASE i \notin 1..m
    <3> DEFINE j == i - m
    <3>1. j \in 1..k /\ m + j = i /\ b + j = a + i
      BY <1>1, <2>2
    <3> HIDE DEF j
    <3>2. (s \o t)[m + j] = [op |-> sc[b + j], at |-> b + j]
      BY <1>2, <3>1 DEF Runs
    <3> QED
      BY <3>1, <3>2
  <2> QED
    BY <2>1, <2>2
<1>4. (s \o t) \in Seq(BodyLines) /\ m + k \in Nat /\ a + (m + k) <= Len(sc)
  BY <1>1, <1>2
<1> QED
  BY <1>1, <1>2, <1>3, <1>4 DEF Runs

PadOf(read, a, b) == [p \in 1..(b - a + 1) |-> [op |-> "k", at |-> read[a + p - 1]]]

\* What could be read of the head text.
ReadUpTo(read, sc, len) ==
  /\ len \in Nat /\ len <= Len(HeadText(sc))
  /\ read = SubSeq(HeadText(sc), 1, len)

LEMMA ReadIs ==
  ASSUME NEW sc \in Seq(Ops), NEW read, NEW len, ReadUpTo(read, sc, len)
  PROVE  Len(read) = len /\ \A v \in 1..len : read[v] = HeadText(sc)[v]
<1>1. HeadText(sc) \in Seq(Nat)
  BY HeadTextIs
<1> QED
  BY <1>1 DEF ReadUpTo

\* A pad of kept lines is a run of the script.
LEMMA PadIs ==
  ASSUME NEW sc \in Seq(Ops), NEW read, NEW len, ReadUpTo(read, sc, len),
         NEW e, NEW s, Gap(sc, e, s), NEW a \in Nat, NEW b \in Int, a <= b + 1,
         NewNo(sc, e) < a, b <= NewNo(sc, s), b <= len, NEW c, c = e + (a - NewNo(sc, e) - 1),
         NEW m, m = b - a + 1
  PROVE  Runs(sc, PadOf(read, a, b), c, m) /\ c >= e /\ c + m <= s
<1> DEFINE no == NewNo(sc, e)
           padded == PadOf(read, a, b)
<1>1. e \in Nat /\ s \in Nat /\ e <= s /\ s <= Len(sc) /\ s \in e..s /\ e \in e..s /\ len \in Nat
  BY DEF Gap, ReadUpTo
<1>2. no \in Nat /\ NewNo(sc, s) = no + (s - e)
  BY <1>1, GapNos
<1> HIDE DEF no
<1>3. c = e + (a - no - 1) /\ no < a /\ b <= no + (s - e)
  BY <1>2 DEF no
<1>4. m \in Nat /\ c \in Nat /\ c >= e /\ c + m <= s /\ c + m <= Len(sc)
  BY <1>1, <1>2, <1>3
<1>5. ASSUME NEW t \in 1..m
      PROVE  padded[t] = [op |-> sc[c + t], at |-> c + t] /\ padded[t] \in BodyLines
  <2> DEFINE v == a + t - 1
  <2>1. v \in (no + 1)..(no + (s - e)) /\ v \in 1..len /\ e + (v - no) = c + t /\ c + t \in (e + 1)..s
    BY <1>1, <1>2, <1>3, <1>4, SMTT(30)
  <2>2. HeadText(sc)[v] = e + (v - no)
    <3> HIDE DEF v
    <3> QED
      BY <1>2, <2>1, GapText DEF no
  <2>3. read[v] = c + t
    <3> HIDE DEF v
    <3> QED
      BY <2>1, <2>2, ReadIs
  <2>4. sc[c + t] = "k"
    BY <2>1 DEF Gap
  <2>5. padded[t] = [op |-> "k", at |-> read[v]]
    BY DEF PadOf
  <2>6. c + t \in Nat
    BY <1>4
  <2> HIDE DEF v, padded
  <2>7. padded[t] = [op |-> sc[c + t], at |-> c + t]
    BY <2>3, <2>4, <2>5
  <2>8. sc[c + t] \in Ops
    BY <2>4 DEF Ops
  <2> QED
    BY <2>6, <2>7, <2>8 DEF BodyLines
<1>6. DOMAIN padded = 1..m
  BY DEF PadOf
<1>7. padded = [t \in 1..m |-> padded[t]]
  BY <1>6 DEF PadOf
<1> HIDE DEF padded
<1>8. padded \in Seq(BodyLines) /\ Len(padded) = m
  BY <1>4, <1>5, <1>7
<1>9. Runs(sc, padded, c, m)
  BY <1>4, <1>5, <1>8 DEF Runs
<1> QED
  BY <1>4, <1>9 DEF padded

LEMMA PadNone ==
  ASSUME NEW read, NEW a \in Int, NEW b \in Int, b < a
  PROVE  PadOf(read, a, b) = <<>>
<1>1. 1..(b - a + 1) = {}
  OBVIOUS
<1> QED
  BY <1>1 DEF PadOf

LEMMA RunsNone ==
  ASSUME NEW sc \in Seq(Ops), NEW a \in 0..Len(sc)
  PROVE  Runs(sc, <<>>, a, 0)
<1>1. <<>> \in Seq(BodyLines) /\ Len(<<>>) = 0 /\ a + 0 <= Len(sc) /\ a \in Nat /\ 0 \in Nat
  OBVIOUS
<1>2. \A t \in 1..0 : FALSE
  OBVIOUS
<1> QED
  BY <1>1, <1>2 DEF Runs
-------------------------------------------------------------------------------
(* A run of hunks as one *)

LEMMA ServesNos ==
  ASSUME NEW sc \in Seq(Ops), NEW hs, NEW lo, NEW hi, Serves(hs, sc, lo, hi), NEW k \in 1..Len(hs)
  PROVE  /\ lo[k] \in 1..Len(sc) /\ hi[k] \in 1..Len(sc) /\ lo[k] <= hi[k]
         /\ lo[k] - 1 \in 0..Len(sc) /\ hs[k] \in HunkSpace
         /\ Runs(sc, hs[k].body, lo[k] - 1, hi[k] - lo[k] + 1)
         /\ FirstNew(hs[k]) = NewNo(sc, lo[k] - 1) + 1 /\ FirstOld(hs[k]) = OldNo(sc, lo[k] - 1) + 1
         /\ LastNew(hs[k]) = NewNo(sc, hi[k])
         /\ NewNo(sc, lo[k] - 1) \in Nat /\ OldNo(sc, lo[k] - 1) \in Nat /\ NewNo(sc, hi[k]) \in Nat
<1> DEFINE i == lo[k]
           j == hi[k]
           h == hs[k]
           m == j - i + 1
           a == i - 1
<1>1. i \in 1..Len(sc) /\ j \in i..Len(sc) /\ h = ServedHunk(sc, i, j) /\ j \in 1..Len(sc)
  <2>1. lo[k] \in 1..Len(sc) /\ hi[k] \in 1..Len(sc) /\ lo[k] <= hi[k] /\ hs[k] = ServedHunk(sc, lo[k], hi[k])
    BY DEF Serves
  <2> QED
    BY <2>1
<1> HIDE DEF i, j, h
<1>2. /\ h \in HunkSpace /\ Len(h.body) = m /\ Stretch(sc, h.body, 0, i - 1, m)
      /\ FirstOld(h) = OldNo(sc, i - 1) + 1 /\ FirstNew(h) = NewNo(sc, i - 1) + 1
      /\ LastNew(h) = NewNo(sc, j)
  BY <1>1, ServedHunkIs
<1>3. m \in Nat /\ a \in 0..Len(sc) /\ a \in Nat /\ a + m <= Len(sc) /\ j \in 0..Len(sc)
  BY <1>1
<1> HIDE DEF m
<1>4. Runs(sc, h.body, a, m)
  <2>1. h.body \in Seq(BodyLines)
    BY <1>2 DEF HunkSpace
  <2>2. ASSUME NEW t \in 1..m PROVE h.body[t] = [op |-> sc[a + t], at |-> a + t]
    <3>1. h.body[0 + t] = [op |-> sc[a + t], at |-> a + t]
      BY <1>2 DEF Stretch
    <3>2. 0 + t = t
      BY <1>3
    <3> QED
      BY <3>1, <3>2
  <2> QED
    BY <1>2, <1>3, <2>1, <2>2 DEF Runs
<1> HIDE DEF a
<1>5. NewNo(sc, a) \in Nat /\ OldNo(sc, a) \in Nat /\ NewNo(sc, j) \in Nat
  BY <1>3, NosAre
<1> QED
  BY <1>1, <1>2, <1>3, <1>4, <1>5 DEF i, j, h, m, a

LEMMA ServesNumbered ==
  ASSUME NEW sc \in Seq(Ops), NEW hs, NEW lo, NEW hi, Serves(hs, sc, lo, hi)
  PROVE  Numbered(hs)
<1>1. hs \in Seq(HunkSpace)
  BY DEF Serves
<1>2. ASSUME NEW h \in 1..Len(hs)
      PROVE  /\ FirstNew(hs[h]) \in Nat \ {0} /\ FirstOld(hs[h]) \in Nat \ {0} /\ LastNew(hs[h]) \in Nat
  BY ServesNos
<1> QED
  BY <1>1, <1>2 DEF Numbered

\* Lines that no hunk holds are kept.
LEMMA OutsideKept ==
  ASSUME NEW sc \in Seq(Ops), NEW hs, NEW lo, NEW hi, Serves(hs, sc, lo, hi),
         NEW e \in Nat, NEW s \in Nat, e <= s, s <= Len(sc),
         \A x \in 1..Len(hs) : hi[x] <= e \/ lo[x] > s
  PROVE  Gap(sc, e, s)
<1>1. ASSUME NEW i \in (e + 1)..s PROVE sc[i] = "k"
  <2>1. i \in DOMAIN sc
    OBVIOUS
  <2>2. i \notin Changed(sc)
    <3> SUFFICES ASSUME i \in Changed(sc) PROVE FALSE
      OBVIOUS
    <3>1. PICK x \in 1..Len(hs) : i \in lo[x]..hi[x]
      BY DEF Serves
    <3>2. lo[x] \in Nat /\ hi[x] \in Nat
      <4>1. lo[x] \in 1..Len(sc) /\ hi[x] \in 1..Len(sc)
        BY ServesNos
      <4> QED
        BY <4>1
    <3> QED
      BY <3>1, <3>2
  <2> QED
    BY <2>1, <2>2 DEF Changed
<1> QED
  BY <1>1 DEF Gap

LEMMA GapsAre ==
  ASSUME NEW sc \in Seq(Ops), NEW hs, NEW lo, NEW hi, Serves(hs, sc, lo, hi), NEW k \in 1..Len(hs)
  PROVE  /\ k = 1 => Gap(sc, 0, lo[k] - 1)
         /\ k = Len(hs) => Gap(sc, hi[k], Len(sc))
         /\ k + 1 \in 1..Len(hs) => Gap(sc, hi[k], lo[k + 1] - 1) /\ hi[k] < lo[k + 1]
<1>1. /\ \A x \in 1..Len(hs) : lo[x] \in 1..Len(sc) /\ hi[x] \in 1..Len(sc) /\ lo[x] <= hi[x]
      /\ \A x, y \in 1..Len(hs) : x < y => hi[x] < lo[y]
  <2>1. ASSUME NEW x \in 1..Len(hs) PROVE lo[x] \in 1..Len(sc) /\ hi[x] \in 1..Len(sc) /\ lo[x] <= hi[x]
    BY ServesNos
  <2> QED
    BY <2>1 DEF Serves
<1>2. Len(hs) \in Nat /\ Len(sc) \in Nat
  BY DEF Serves
<1>3. ASSUME k = 1 PROVE Gap(sc, 0, lo[k] - 1)
  <2> DEFINE s == lo[k] - 1
  <2>1. s \in Nat /\ 0 <= s /\ s <= Len(sc) /\ 0 \in Nat
    BY <1>1, <1>2
  <2>2. \A x \in 1..Len(hs) : hi[x] <= 0 \/ lo[x] > s
    <3>1. ASSUME NEW x \in 1..Len(hs) PROVE lo[x] > s
      <4>1. x = k \/ k < x
        BY <1>2, <1>3
      <4>2. lo[x] \in Nat /\ lo[k] \in Nat /\ hi[k] \in Nat /\ lo[k] <= hi[k] /\ (k < x => hi[k] < lo[x])
        BY <1>1
      <4> QED
        BY <4>1, <4>2
    <3> QED
      BY <3>1
  <2> HIDE DEF s
  <2>3. Gap(sc, 0, s)
    BY <2>1, <2>2, OutsideKept
  <2> QED
    BY <2>3 DEF s
<1>4. ASSUME NEW x \in 1..Len(hs), x <= k PROVE hi[x] <= hi[k]
  <2>1. x = k \/ x < k
    BY <1>2, <1>4
  <2>2. hi[x] \in Nat /\ hi[k] \in Nat /\ lo[k] \in Nat /\ lo[k] <= hi[k] /\ (x < k => hi[x] < lo[k])
    BY <1>1
  <2> QED
    BY <2>1, <2>2
<1>5. ASSUME k = Len(hs) PROVE Gap(sc, hi[k], Len(sc))
  <2>1. hi[k] \in Nat /\ hi[k] <= Len(sc) /\ Len(sc) <= Len(sc)
    BY <1>1, <1>2
  <2>2. \A x \in 1..Len(hs) : x <= k
    BY <1>2, <1>5
  <2>3. \A x \in 1..Len(hs) : hi[x] <= hi[k] \/ lo[x] > Len(sc)
    BY <1>4, <2>2
  <2> QED
    BY <1>2, <2>1, <2>3, OutsideKept
<1>6. ASSUME k + 1 \in 1..Len(hs) PROVE Gap(sc, hi[k], lo[k + 1] - 1) /\ hi[k] < lo[k + 1]
  <2> DEFINE y == k + 1
             s == lo[y] - 1
  <2>1. y \in 1..Len(hs) /\ k < y /\ \A x \in 1..Len(hs) : x <= k \/ x = y \/ y < x
    BY <1>2, <1>6
  <2> HIDE DEF y
  <2>2. hi[k] < lo[y] /\ hi[k] \in Nat /\ lo[y] \in 1..Len(sc)
    BY <1>1, <2>1
  <2>3. s \in Nat /\ hi[k] <= s /\ s <= Len(sc)
    BY <1>2, <2>2
  <2>4. ASSUME NEW x \in 1..Len(hs) PROVE hi[x] <= hi[k] \/ lo[x] > s
    <3>1. CASE x <= k
      BY <1>4, <3>1
    <3>2. CASE x = y
      BY <2>2, <3>2
    <3>3. CASE y < x
      <4>1. lo[x] \in Nat /\ lo[y] \in Nat /\ hi[y] \in Nat /\ lo[y] <= hi[y] /\ hi[y] < lo[x]
        BY <1>1, <2>1, <3>3
      <4> QED
        BY <4>1
    <3> QED
      BY <2>1, <3>1, <3>2, <3>3
  <2> HIDE DEF s
  <2>5. Gap(sc, hi[k], s)
    BY <2>2, <2>3, <2>4, OutsideKept
  <2> QED
    BY <2>2, <2>5 DEF s, y
<1> QED
  BY <1>3, <1>5, <1>6

\* The line of the script at which a run that closes with a hunk ends.
EndsAt(hs, hi, k, len, after) ==
  LET trail == TrailOf(hs[k], len, after)
  IN  IF trail > LastNew(hs[k]) THEN hi[k] + (trail - LastNew(hs[k])) ELSE hi[k]

LEMMA TrailingIs ==
  ASSUME NEW sc \in Seq(Ops), NEW hs, NEW lo, NEW hi, Serves(hs, sc, lo, hi),
         NEW read, NEW len, ReadUpTo(read, sc, len), NEW after \in Nat, NEW k \in 1..Len(hs),
         k + 1 \in 1..Len(hs) => TrailOf(hs[k], len, after) < FirstNew(hs[k + 1]),
         NEW z, z = EndsAt(hs, hi, k, len, after)
  PROVE  /\ Runs(sc, PadOf(read, LastNew(hs[k]) + 1, TrailOf(hs[k], len, after)), hi[k], z - hi[k])
         /\ hi[k] <= z /\ z <= Len(sc) /\ z \in Nat
         /\ k + 1 \in 1..Len(hs) => z < lo[k + 1]
<1> DEFINE last == LastNew(hs[k])
           trail == TrailOf(hs[k], len, after)
           e == hi[k]
           s == IF k = Len(hs) THEN Len(sc) ELSE lo[k + 1] - 1
<1>1. last = NewNo(sc, e) /\ last \in Nat /\ e \in 1..Len(sc)
  BY ServesNos
<1>2. len \in Nat /\ len <= Len(HeadText(sc))
  BY DEF ReadUpTo
<1>3. trail \in Nat /\ trail <= len
  BY <1>1, <1>2 DEF TrailOf, LesserOf
<1>4. k = Len(hs) \/ k + 1 \in 1..Len(hs)
  BY DEF Serves
<1>5. Gap(sc, e, s)
  <2>1. CASE k = Len(hs)
    BY <2>1, GapsAre
  <2>2. CASE k # Len(hs)
    BY <1>4, <2>2, GapsAre
  <2> QED
    BY <2>1, <2>2
<1>6. trail <= NewNo(sc, s)
  <2>1. CASE k = Len(hs)
    <3>1. Len(HeadText(sc)) = NewNo(sc, Len(sc)) /\ NewNo(sc, Len(sc)) \in Nat
      <4>1. Len(sc) \in 0..Len(sc)
        OBVIOUS
      <4> QED
        BY <4>1, HeadTextIs, NosAre
    <3> QED
      BY <1>2, <1>3, <2>1, <3>1
  <2>2. CASE k # Len(hs)
    <3>1. FirstNew(hs[k + 1]) = NewNo(sc, lo[k + 1] - 1) + 1 /\ NewNo(sc, lo[k + 1] - 1) \in Nat
      BY <1>4, <2>2, ServesNos
    <3>2. trail < FirstNew(hs[k + 1])
      BY <1>4, <2>2
    <3> QED
      BY <1>3, <2>2, <3>1, <3>2
  <2> QED
    BY <2>1, <2>2
<1>7. z = IF trail > last THEN e + (trail - last) ELSE e
  BY DEF EndsAt
<1>8. k + 1 \in 1..Len(hs) => k # Len(hs) /\ s = lo[k + 1] - 1 /\ lo[k + 1] \in Nat
  <2> SUFFICES ASSUME k + 1 \in 1..Len(hs) PROVE k # Len(hs) /\ s = lo[k + 1] - 1 /\ lo[k + 1] \in Nat
    OBVIOUS
  <2>1. k # Len(hs)
    BY DEF Serves
  <2>2. lo[k + 1] \in 1..Len(sc)
    BY ServesNos
  <2> QED
    BY <2>1, <2>2
<1>9. e \in Nat /\ s \in Nat /\ s <= Len(sc) /\ e <= s
  BY <1>5 DEF Gap
<1> HIDE DEF last, trail, e, s
<1>10. Runs(sc, PadOf(read, last + 1, trail), e, z - e) /\ e <= z /\ z <= s /\ z \in Nat
  <2>1. CASE trail > last
    <3> DEFINE a == last + 1
               m == trail - a + 1
               c == e + (a - NewNo(sc, e) - 1)
    <3>1. a \in Nat /\ a <= trail + 1 /\ NewNo(sc, e) < a /\ trail \in Int /\ c = e /\ m = trail - last
      BY <1>1, <1>3, <1>9, <2>1, SMTT(20)
    <3> HIDE DEF a, m, c
    <3>2. Runs(sc, PadOf(read, a, trail), c, m) /\ c + m <= s
      BY <1>3, <1>5, <1>6, <3>1, PadIs DEF c, m
    <3>3. z - e = m /\ e <= z /\ z <= s /\ z \in Nat
      BY <1>1, <1>3, <1>7, <1>9, <2>1, <3>1, <3>2, SMTT(20)
    <3> QED
      BY <3>1, <3>2, <3>3 DEF a
  <2>2. CASE ~(trail > last)
    <3>1. PadOf(read, last + 1, trail) = <<>>
      <4>1. last + 1 \in Int /\ trail \in Int /\ trail < last + 1
        BY <1>1, <1>3, <2>2
      <4> QED
        BY <4>1, PadNone
    <3>2. z = e /\ z - e = 0 /\ e \in 0..Len(sc)
      BY <1>7, <1>9, <2>2
    <3>3. Runs(sc, <<>>, e, 0)
      BY <3>2, RunsNone
    <3> QED
      BY <1>9, <3>1, <3>2, <3>3
  <2> QED
    BY <2>1, <2>2
<1>11. k + 1 \in 1..Len(hs) => z < lo[k + 1]
  BY <1>8, <1>9, <1>10
<1> QED
  BY <1>9, <1>10, <1>11 DEF last, trail, e

\* Lines put before a hunk: kept, and of the file before it.
Leads(sc, padded, A, L, a) ==
  /\ Runs(sc, padded, A, L) /\ A + L <= a
  /\ \A t \in 1..L : sc[A + t] = "k"

\* Where the gap before a hunk begins.
EndsBefore(hi, k) == IF k = 1 THEN 0 ELSE hi[k - 1]

\* A window before a hunk, clear of the run before it.
LeadWindow(sc, hs, lo, hi, read, len, after, k, lead, leadEnd, ld, L) ==
  /\ sc \in Seq(Ops) /\ Serves(hs, sc, lo, hi) /\ ReadUpTo(read, sc, len)
  /\ after \in Nat /\ k \in 1..Len(hs) /\ LeadFits(lead, hs[k])
  /\ k = 1 \/ lead > TrailOf(hs[k - 1], len, after)
  /\ leadEnd = LesserOf(FirstNew(hs[k]), len + 1) /\ ld = LesserOf(lead, leadEnd) /\ L = leadEnd - ld

LEMMA LeadingIs ==
  ASSUME NEW sc, NEW hs, NEW lo, NEW hi, NEW read, NEW len, NEW after, NEW k,
         NEW lead, NEW leadEnd, NEW ld, NEW L,
         LeadWindow(sc, hs, lo, hi, read, len, after, k, lead, leadEnd, ld, L)
  PROVE  /\ L \in Nat /\ L <= FirstNew(hs[k]) - lead
         /\ \E A \in Nat : /\ Leads(sc, PadOf(read, ld, leadEnd - 1), A, L, lo[k] - 1)
                           /\ len = Len(HeadText(sc)) => A + L = lo[k] - 1
                           /\ k # 1 /\ L > 0 => A >= EndsAt(hs, hi, k - 1, len, after)
<1>0. /\ sc \in Seq(Ops) /\ Serves(hs, sc, lo, hi) /\ ReadUpTo(read, sc, len)
      /\ after \in Nat /\ k \in 1..Len(hs) /\ LeadFits(lead, hs[k])
      /\ k = 1 \/ lead > TrailOf(hs[k - 1], len, after)
      /\ leadEnd = LesserOf(FirstNew(hs[k]), len + 1) /\ ld = LesserOf(lead, leadEnd) /\ L = leadEnd - ld
  BY DEF LeadWindow
<1> USE <1>0
<1> DEFINE fn == FirstNew(hs[k])
           e == EndsBefore(hi, k)
           s == lo[k] - 1
           b == leadEnd - 1
           padded == PadOf(read, ld, b)
<1>1. len \in Nat /\ len <= Len(HeadText(sc))
  BY DEF ReadUpTo
<1>2. fn = NewNo(sc, s) + 1 /\ NewNo(sc, s) \in Nat /\ s \in 0..Len(sc) /\ fn \in Nat
  BY ServesNos, SMTT(20)
<1>3. lead \in Nat /\ 1 <= lead /\ lead <= fn
  BY DEF LeadFits
<1> HIDE DEF fn
<1>4. /\ leadEnd \in Nat /\ leadEnd <= fn /\ leadEnd <= len + 1 /\ (leadEnd = fn \/ leadEnd = len + 1)
      /\ ld \in Nat /\ ld <= leadEnd /\ ld <= lead /\ (ld = lead \/ ld = leadEnd)
  BY <1>1, <1>2, <1>3, SMTT(20) DEF LesserOf, fn
<1>5. L \in Nat /\ L <= fn - lead
  <2>1. fn \in Nat /\ leadEnd \in Nat /\ ld \in Nat /\ lead \in Nat /\ L = leadEnd - ld
    BY <1>2, <1>3, <1>4
  <2>2. ld = lead => L <= fn - lead
    BY <1>4, <2>1
  <2>3. ld = leadEnd => L <= fn - lead
    BY <1>3, <2>1
  <2>4. L \in Nat
    BY <1>4, <2>1, SMTT(20)
  <2> QED
    BY <1>4, <2>2, <2>3, <2>4
<1>6. k = 1 \/ (k - 1 \in 1..Len(hs) /\ (k - 1) + 1 = k)
  BY DEF Serves
<1>7. Gap(sc, e, s)
  <2>1. CASE k = 1
    BY <2>1, GapsAre DEF EndsBefore
  <2>2. CASE k # 1
    <3> DEFINE j == k - 1
    <3>1. j \in 1..Len(hs) /\ j + 1 = k
      BY <1>6, <2>2
    <3> HIDE DEF j
    <3>2. Gap(sc, hi[j], lo[j + 1] - 1)
      BY <3>1, GapsAre
    <3> QED
      BY <2>2, <3>1, <3>2 DEF EndsBefore, j
  <2> QED
    BY <2>1, <2>2
<1>8. e \in Nat /\ s \in Nat /\ e <= s /\ s <= Len(sc) /\ s \in e..s /\ e \in e..s
  BY <1>7 DEF Gap
<1>9. NewNo(sc, s) = NewNo(sc, e) + (s - e) /\ NewNo(sc, e) \in Nat
  BY <1>7, <1>8, GapNos
<1> HIDE DEF e, s, b, padded
<1> DEFINE no == NewNo(sc, e)
           \* Where the run that the padded window stays clear of ends.
           over == IF k = 1 THEN 0 ELSE EndsAt(hs, hi, k - 1, len, after)
<1>10. CASE L = 0
  <2>1. padded = <<>>
    <3>1. ld \in Int /\ b \in Int /\ b < ld
      BY <1>4, <1>10 DEF b
    <3> QED
      BY <3>1, PadNone DEF padded
  <2>2. Runs(sc, <<>>, s, 0)
    BY <1>2, RunsNone
  <2>3. Leads(sc, padded, s, L, s) /\ s + L = s
    BY <1>8, <1>10, <2>1, <2>2 DEF Leads
  <2>4. \E A \in Nat : /\ Leads(sc, padded, A, L, s)
                       /\ len = Len(HeadText(sc)) => A + L = s
                       /\ k # 1 /\ L > 0 => A >= EndsAt(hs, hi, k - 1, len, after)
    BY <1>8, <1>10, <2>3
  <2> QED
    BY <1>5, <2>4 DEF fn, padded, b, s
<1>11. CASE L # 0
  <2>1. ld = lead /\ lead <= len /\ lead < leadEnd
    BY <1>1, <1>3, <1>4, <1>5, <1>11, SMTT(20)
  <2>2. no < lead /\ over \in Int /\ over <= e + (lead - no - 1)
    <3>1. CASE k = 1
      <4>1. e = 0 /\ over = 0
        BY <3>1 DEF e, EndsBefore
      <4>2. no = 0
        <5>1. 0 \in 0..Len(sc) /\ Up(NewOf(sc), 0) = 0
          BY UpZero
        <5>2. NewNo(sc, 0) = Up(NewOf(sc), 0)
          BY <5>1, NosAre
        <5> QED
          BY <4>1, <5>1, <5>2
      <4> HIDE DEF no, over
      <4> QED
        BY <1>3, <4>1, <4>2
    <3>2. CASE k # 1
      <4> DEFINE j == k - 1
                 trail == TrailOf(hs[j], len, after)
      <4>1. j \in 1..Len(hs)
        BY <1>6, <3>2
      <4>2. e = hi[j]
        BY <3>2 DEF e, EndsBefore
      <4> HIDE DEF j
      <4>3. LastNew(hs[j]) = no
        BY <4>1, <4>2, ServesNos
      <4>4. lead > trail
        BY <3>2 DEF j
      <4>5. trail = LesserOf(len, no + after)
        BY <4>3 DEF TrailOf
      <4> HIDE DEF trail
      <4>6. over = IF trail > no THEN e + (trail - no) ELSE e
        BY <3>2, <4>2, <4>3 DEF EndsAt, trail, j
      <4> HIDE DEF no, over
      <4>7. trail = no + after
        <5>1. no \in Nat
          BY <1>9 DEF no
        <5>2. trail = len \/ trail = no + after
          BY <4>5 DEF LesserOf
        <5>3. trail # len
          BY <1>1, <1>3, <2>1, <4>4
        <5> QED
          BY <5>2, <5>3
      <4> QED
        BY <1>3, <1>8, <1>9, <4>4, <4>6, <4>7, SMTT(30) DEF no
    <3> QED
      BY <3>1, <3>2
  <2> DEFINE A == e + (lead - no - 1)
             m == b - lead + 1
  <2>3. /\ b \in Int /\ lead <= b + 1 /\ b <= NewNo(sc, s) /\ b <= len /\ A \in Nat /\ A >= e
        /\ m = L
    <3>1. b = leadEnd - 1 /\ b \in Int /\ L = b - lead + 1
      BY <1>3, <1>4, <2>1 DEF b
    <3>2. b <= NewNo(sc, s)
      BY <1>2, <1>4, <3>1, SMTT(20)
    <3>3. lead <= b + 1 /\ b <= len
      <4>1. /\ lead \in Nat /\ leadEnd \in Nat /\ len \in Nat /\ lead < leadEnd
            /\ leadEnd <= len + 1 /\ b = leadEnd - 1 /\ b \in Int
        BY <1>1, <1>3, <1>4, <2>1, <3>1
      <4>2. b + 1 = leadEnd /\ lead <= leadEnd /\ leadEnd - 1 <= len
        BY <4>1, SMTT(20)
      <4>3. lead <= b + 1
        BY <4>2
      <4> QED
        BY <4>1, <4>2, <4>3
    <3>4. no \in Nat
      BY <1>9
    <3>5. A \in Nat /\ A >= e
      <4> HIDE DEF no
      <4> QED
        BY <1>3, <1>8, <2>2, <3>4
    <3> QED
      BY <3>1, <3>2, <3>3, <3>5
  <2>4. Runs(sc, padded, A, L) /\ A + L <= s
    <3> DEFINE c == A
    <3>1. c = e + (lead - NewNo(sc, e) - 1)
      OBVIOUS
    <3>2. NewNo(sc, e) < lead
      BY <2>2
    <3> HIDE DEF A, m, c
    <3>3. Runs(sc, PadOf(read, lead, b), c, m) /\ c + m <= s
      BY <1>3, <1>7, <2>3, <3>1, <3>2, PadIs DEF m
    <3> QED
      BY <2>1, <2>3, <3>3 DEF padded, c
  <2>5. Leads(sc, padded, A, L, s)
    <3>1. \A t \in 1..L : A + t \in (e + 1)..s
      BY <1>5, <1>8, <2>3, <2>4, SMTT(20)
    <3>2. \A t \in 1..L : sc[A + t] = "k"
      BY <1>7, <3>1 DEF Gap
    <3> HIDE DEF A
    <3> QED
      BY <2>4, <3>2 DEF Leads
  <2>6. len = Len(HeadText(sc)) => A + L = s
    <3> SUFFICES ASSUME len = Len(HeadText(sc)) PROVE A + L = s
      OBVIOUS
    <3>1. Len(HeadText(sc)) = NewNo(sc, Len(sc)) /\ NewNo(sc, Len(sc)) \in Nat /\ NewNo(sc, s) <= NewNo(sc, Len(sc))
      <4>1. Len(sc) \in 0..Len(sc) /\ s \in 0..Len(sc) /\ s <= Len(sc)
        BY <1>2, <1>8
      <4> QED
        BY <4>1, HeadTextIs, NosAre, NosGrow
    <3>2. leadEnd = fn
      BY <1>2, <1>4, <3>1, SMTT(30)
    <3>3. no \in Nat /\ fn = no + (s - e) + 1 /\ L = fn - lead
      BY <1>2, <1>9, <2>1, <3>2
    <3> HIDE DEF no
    <3> QED
      BY <1>3, <1>8, <3>3, SMTT(20)
  <2>7. k # 1 => A >= EndsAt(hs, hi, k - 1, len, after)
    <3> SUFFICES ASSUME k # 1 PROVE A >= EndsAt(hs, hi, k - 1, len, after)
      OBVIOUS
    <3>1. over = EndsAt(hs, hi, k - 1, len, after)
      OBVIOUS
    <3> HIDE DEF over
    <3> QED
      BY <2>2, <2>3, <3>1
  <2>8. \E B \in Nat : /\ Leads(sc, padded, B, L, s)
                       /\ len = Len(HeadText(sc)) => B + L = s
                       /\ k # 1 /\ L > 0 => B >= EndsAt(hs, hi, k - 1, len, after)
    <3> HIDE DEF A
    <3> QED
      BY <2>3, <2>5, <2>6, <2>7
  <2> QED
    BY <1>5, <2>8 DEF fn, padded, b, s
<1> QED
  BY <1>10, <1>11

\* The lines between two hunks and the second hunk go on from the first.
LEMMA BetweenIs ==
  ASSUME NEW sc \in Seq(Ops), NEW hs, NEW lo, NEW hi, Serves(hs, sc, lo, hi),
         NEW read, NEW len, ReadUpTo(read, sc, len), NEW k \in 1..Len(hs), k + 1 \in 1..Len(hs),
         FirstNew(hs[k + 1]) - 1 <= len
  PROVE  Runs(sc, PadOf(read, LastNew(hs[k]) + 1, FirstNew(hs[k + 1]) - 1) \o hs[k + 1].body,
              hi[k], hi[k + 1] - hi[k])
<1> DEFINE y == k + 1
           e == hi[k]
           s == lo[y] - 1
           a == LastNew(hs[k]) + 1
           b == FirstNew(hs[y]) - 1
           m == b - a + 1
           w == hi[y] - lo[y] + 1
<1>1. y \in 1..Len(hs)
  OBVIOUS
<1>2. Gap(sc, e, s)
  BY GapsAre
<1> HIDE DEF y
<1>3. LastNew(hs[k]) = NewNo(sc, e) /\ NewNo(sc, e) \in Nat
  BY ServesNos
<1>4. /\ FirstNew(hs[y]) = NewNo(sc, s) + 1 /\ NewNo(sc, s) \in Nat
      /\ Runs(sc, hs[y].body, s, w) /\ lo[y] \in Nat /\ hi[y] \in Nat /\ lo[y] <= hi[y]
  <2>1. lo[y] \in 1..Len(sc) /\ hi[y] \in 1..Len(sc) /\ lo[y] <= hi[y]
    BY <1>1, ServesNos
  <2>2. lo[y] \in Nat /\ hi[y] \in Nat
    BY <2>1
  <2>3. /\ FirstNew(hs[y]) = NewNo(sc, s) + 1 /\ NewNo(sc, s) \in Nat
        /\ Runs(sc, hs[y].body, s, w)
    BY <1>1, ServesNos
  <2> QED
    BY <2>1, <2>2, <2>3
<1>5. e \in Nat /\ s \in Nat /\ e <= s /\ s \in e..s
  BY <1>2 DEF Gap
<1>6. NewNo(sc, s) = NewNo(sc, e) + (s - e)
  BY <1>2, <1>5, GapNos
<1> HIDE DEF e, s
<1> DEFINE no == NewNo(sc, e)
<1>7. /\ a \in Nat /\ b \in Int /\ a <= b + 1 /\ no < a /\ b <= NewNo(sc, s) /\ b <= len
      /\ e = e + (a - no - 1) /\ m = s - e
  <2>1. a = no + 1 /\ b = no + (s - e) /\ b = NewNo(sc, s)
    BY <1>3, <1>4, <1>6
  <2>2. FirstNew(hs[y]) - 1 <= len
    BY DEF y
  <2>3. b <= len
    BY <2>2
  <2>4. no \in Nat
    BY <1>3
  <2> HIDE DEF no, a, b
  <2>5. m = s - e
    BY <1>5, <2>1, <2>4
  <2> QED
    BY <1>5, <2>1, <2>3, <2>4, <2>5
<1>8. Runs(sc, PadOf(read, a, b), e, m)
  <2>1. NewNo(sc, e) < a /\ e = e + (a - NewNo(sc, e) - 1) /\ m = b - a + 1
    BY <1>7
  <2> HIDE DEF a, b, m, no
  <2> QED
    BY <1>2, <1>7, <2>1, PadIs
<1> HIDE DEF a, b, m, w, no
<1>9. s = e + m
  BY <1>5, <1>7
<1>10. Runs(sc, PadOf(read, a, b) \o hs[y].body, e, m + w)
  BY <1>4, <1>8, <1>9, RunsConcat
<1>11. m + w = hi[y] - e
  <2>1. w = hi[y] - (s + 1) + 1
    <3>1. s + 1 = lo[y]
      BY <1>4 DEF s
    <3> QED
      BY <3>1 DEF w
  <2>2. m = s - e
    BY <1>7
  <2>3. hi[y] \in Nat
    BY <1>4
  <2> QED
    BY <1>5, <2>1, <2>2, <2>3, SMTT(30)
<1> QED
  BY <1>10, <1>11 DEF a, b, e, y

\* A run's hunks, with what is between them.
BodiesOf(g, hs, read) ==
  [x \in 1..(g.last - g.first + 1) |->
     LET h == g.first + x - 1
     IN  IF x = 1 THEN hs[h].body
         ELSE PadOf(read, LastNew(hs[h - 1]) + 1, FirstNew(hs[h]) - 1) \o hs[h].body]

LEMMA BodiesAre ==
  ASSUME NEW sc \in Seq(Ops), NEW hs, NEW lo, NEW hi, Serves(hs, sc, lo, hi),
         NEW read, NEW len, ReadUpTo(read, sc, len), NEW g, GroupIs(g, hs, Len(hs), len)
  PROVE  Runs(sc, FlattenSeq(BodiesOf(g, hs, read)), lo[g.first] - 1, hi[g.last] - lo[g.first] + 1)
<1> DEFINE f == g.first
           c == g.last - g.first + 1
           s == BodiesOf(g, hs, read)
           a == lo[f] - 1
<1>1. /\ f \in Nat /\ 1 <= f /\ c \in Nat /\ 1 <= c /\ Len(hs) \in Nat /\ f + c - 1 = g.last
      /\ f + c - 1 <= Len(hs)
  BY DEF GroupIs, Windows, Serves
<1>2. \A k \in (f + 1)..(f + c - 1) : FirstNew(hs[k]) - 1 <= len
  BY <1>1 DEF GroupIs
<1>3. s = [x \in 1..c |-> IF x = 1 THEN hs[f + x - 1].body
                          ELSE PadOf(read, LastNew(hs[(f + x - 1) - 1]) + 1, FirstNew(hs[f + x - 1]) - 1)
                                 \o hs[f + x - 1].body]
  BY DEF BodiesOf
<1> HIDE DEF f, c, s
<1>4. ASSUME NEW k \in f..(f + c - 1)
      PROVE  k \in 1..Len(hs) /\ lo[k] \in Nat /\ hi[k] \in Nat /\ lo[k] <= hi[k] /\ 1 <= lo[k]
  <2>1. k \in 1..Len(hs)
    BY <1>1
  <2>2. lo[k] \in 1..Len(sc) /\ hi[k] \in 1..Len(sc) /\ lo[k] <= hi[k]
    BY <2>1, ServesNos
  <2> QED
    BY <2>1, <2>2
<1>5. f \in f..(f + c - 1) /\ f + 1 - 1 = f
  BY <1>1
<1>6. s[1] = hs[f].body
  BY <1>1, <1>3, <1>5
<1>7. Runs(sc, hs[f].body, a, hi[f] - lo[f] + 1)
  BY <1>4, <1>5, ServesNos
<1>8. ASSUME NEW x \in 2..c
      PROVE  Runs(sc, s[x], hi[f + x - 2], hi[f + x - 1] - hi[f + x - 2])
  <2> DEFINE k == f + x - 2
  <2>1. /\ k \in 1..Len(hs) /\ k + 1 \in 1..Len(hs) /\ k + 1 = f + x - 1 /\ (f + x - 1) - 1 = k
        /\ k + 1 \in (f + 1)..(f + c - 1) /\ x # 1 /\ x \in 1..c
    BY <1>1
  <2>2. s[x] = PadOf(read, LastNew(hs[k]) + 1, FirstNew(hs[k + 1]) - 1) \o hs[k + 1].body
    BY <1>3, <2>1
  <2>3. FirstNew(hs[k + 1]) - 1 <= len
    BY <1>2, <2>1
  <2> HIDE DEF k
  <2>4. Runs(sc, s[x], hi[k], hi[k + 1] - hi[k])
    BY <2>1, <2>2, <2>3, BetweenIs
  <2> QED
    BY <2>1, <2>4 DEF k
<1>9. s \in Seq(Seq(BodyLines)) /\ Len(s) = c
  <2>1. ASSUME NEW x \in 1..c PROVE s[x] \in Seq(BodyLines)
    <3>1. CASE x = 1
      BY <1>6, <1>7, <3>1 DEF Runs
    <3>2. CASE x # 1
      <4>1. x \in 2..c
        BY <1>1, <3>2
      <4> QED
        BY <1>8, <4>1 DEF Runs
    <3> QED
      BY <3>1, <3>2
  <2>2. s = [x \in 1..c |-> s[x]]
    BY <1>3
  <2>3. s \in [1..c -> Seq(BodyLines)]
    BY <2>1, <2>2
  <2> QED
    BY <1>1, <2>3
<1>10. PICK u : Flattened(u, s, BodyLines) /\ FlattenSeq(s) = u[c]
  BY <1>9, FlattenIs
<1>11. /\ u[0] = <<>> /\ \A x \in 1..c : u[x] = u[x - 1] \o s[x]
  BY <1>9, <1>10 DEF Flattened
<1>12. a \in Nat /\ a + 1 = lo[f]
  BY <1>4, <1>5
<1> HIDE DEF a
<1> DEFINE T == {x \in 0..c : x = 0 \/ Runs(sc, u[x], a, hi[f + x - 1] - a)}
<1>13. 0 \in T
  BY <1>1
<1>14. ASSUME NEW x \in 1..c, x - 1 \in T PROVE x \in T
  <2>1. CASE x = 1
    <3>1. u[1] = <<>> \o s[1]
      <4>1. 1 \in 1..c /\ 1 - 1 = 0
        BY <1>1
      <4> QED
        BY <1>11, <4>1
    <3>2. s[1] \in Seq(BodyLines)
      BY <1>1, <1>9
    <3>3. u[1] = s[1]
      <4>1. <<>> \o s[1] = s[1]
        BY <3>2, ConcatEmptySeq
      <4> QED
        BY <3>1, <4>1
    <3>4. hi[f] - lo[f] + 1 = hi[f] - a /\ hi[f + 1 - 1] - a = hi[f] - a
      <4>1. hi[f] \in Nat /\ lo[f] \in Nat
        BY <1>4, <1>5
      <4> QED
        BY <1>5, <1>12, <4>1
    <3>5. Runs(sc, u[1], a, hi[f + 1 - 1] - a)
      BY <1>6, <1>7, <3>3, <3>4
    <3> QED
      BY <1>1, <2>1, <3>5
  <2>2. CASE x # 1
    <3> DEFINE j == x - 1
               k == f + x - 2
               m == hi[k] - a
               w == hi[k + 1] - hi[k]
    <3>1. /\ x \in 2..c /\ j # 0 /\ f + j - 1 = k /\ k \in f..(f + c - 1) /\ k + 1 \in f..(f + c - 1)
          /\ k + 1 = f + x - 1
      BY <1>1, <2>2
    <3>2. Runs(sc, u[j], a, hi[f + j - 1] - a)
      BY <1>14, <3>1
    <3>3. Runs(sc, u[j], a, m)
      BY <3>1, <3>2
    <3>4. Runs(sc, s[x], hi[k], w)
      BY <1>8, <3>1
    <3>5. hi[k] \in Nat /\ hi[k + 1] \in Nat
      BY <1>4, <3>1
    <3>6. hi[k] = a + m /\ m + w = hi[k + 1] - a
      BY <1>12, <3>5
    <3> HIDE DEF j, k, m, w
    <3>7. Runs(sc, u[j] \o s[x], a, m + w)
      BY <3>3, <3>4, <3>6, RunsConcat
    <3>8. u[x] = u[j] \o s[x]
      BY <1>11 DEF j
    <3>9. Runs(sc, u[x], a, hi[f + x - 1] - a)
      BY <3>1, <3>6, <3>7, <3>8
    <3> QED
      BY <1>1, <3>9
  <2> QED
    BY <2>1, <2>2
<1>15. c \in T
  <2> HIDE DEF T
  <2>1. 0..c \subseteq T
    BY <1>1, <1>13, <1>14, UpTo
  <2> QED
    BY <1>1, <2>1
<1>16. Runs(sc, u[c], a, hi[f + c - 1] - a)
  BY <1>1, <1>15
<1>17. hi[f + c - 1] - a = hi[g.last] - lo[f] + 1
  <2>1. f + c - 1 \in f..(f + c - 1)
    BY <1>1
  <2>2. hi[f + c - 1] \in Nat /\ lo[f] \in Nat
    BY <1>4, <1>5, <2>1
  <2>3. hi[f + c - 1] - a = hi[f + c - 1] - lo[f] + 1
    <3> DEFINE z == hi[f + c - 1]
               i == lo[f]
    <3>1. z \in Nat /\ i \in Nat /\ a \in Nat /\ a + 1 = i
      BY <1>12, <2>2
    <3> HIDE DEF z, i, T
    <3>2. z - a = z - i + 1
      BY <3>1
    <3> QED
      BY <3>2 DEF z, i
  <2> QED
    BY <1>1, <2>3
<1> QED
  BY <1>10, <1>16, <1>17 DEF a, f, s

\* A run as one hunk: lines put before it, then the script's from its first
\* hunk on, all numbered as the script has them but, when the head text is
\* short of the file, those put before.
Rendered(sc, r, A, L, a, z, w) ==
  /\ r \in HunkSpace /\ {A, L, a, z} \subseteq Nat
  /\ A + L <= a /\ a < z /\ z <= Len(sc) /\ (w => A + L = a)
  /\ Len(r.body) = L + (z - a)
  /\ Stretch(sc, r.body, 0, A, L) /\ Stretch(sc, r.body, L, a, z - a)
  /\ \A t \in 1..L : sc[A + t] = "k"
  /\ r.ol = OnOld(r.body) /\ r.nl = OnNew(r.body)
  /\ r.os = OldNo(sc, a) + 1 - L /\ r.os >= 1
  /\ r.ns = NewNo(sc, a) + 1 - L /\ r.ns >= 1

\* Two runs, one after the other, as stretches of one body.
LEMMA JoinedStretch ==
  ASSUME NEW sc, NEW s, NEW t, NEW A, NEW L, NEW a, NEW m, Runs(sc, s, A, L), Runs(sc, t, a, m)
  PROVE  /\ s \o t \in Seq(BodyLines) /\ Len(s \o t) = L + m
         /\ Stretch(sc, s \o t, 0, A, L) /\ Stretch(sc, s \o t, L, a, m)
<1>1. /\ s \in Seq(BodyLines) /\ t \in Seq(BodyLines) /\ Len(s) = L /\ Len(t) = m
      /\ L \in Nat /\ m \in Nat
  BY DEF Runs
<1>2. /\ s \o t \in Seq(BodyLines) /\ Len(s \o t) = L + m
      /\ \A i \in 1..L : (s \o t)[i] = s[i]
      /\ \A i \in 1..m : (s \o t)[L + i] = t[i]
  <2>1. /\ s \o t \in Seq(BodyLines) /\ Len(s \o t) = Len(s) + Len(t)
        /\ \A i \in 1..Len(s) : (s \o t)[i] = s[i]
        /\ \A i \in 1..Len(t) : (s \o t)[Len(s) + i] = t[i]
    <3>1. s \in Seq(BodyLines) /\ t \in Seq(BodyLines)
      BY <1>1
    <3> QED
      BY <3>1, ConcatProperties
  <2> QED
    BY <1>1, <2>1
<1> DEFINE u == s \o t
<1>3. DOMAIN u = 1..(L + m)
  BY <1>2
<1> HIDE DEF u
<1>4. ASSUME NEW i \in 1..L PROVE 0 + i \in DOMAIN u /\ u[0 + i] = [op |-> sc[A + i], at |-> A + i]
  <2>1. 0 + i = i /\ i \in 1..(L + m)
    BY <1>1
  <2>2. u[i] = s[i]
    BY <1>2 DEF u
  <2>3. s[i] = [op |-> sc[A + i], at |-> A + i]
    BY DEF Runs
  <2> QED
    BY <1>3, <2>1, <2>2, <2>3
<1>5. ASSUME NEW i \in 1..m PROVE L + i \in DOMAIN u /\ u[L + i] = [op |-> sc[a + i], at |-> a + i]
  <2>1. L + i \in 1..(L + m)
    BY <1>1
  <2>2. u[L + i] = t[i]
    BY <1>2 DEF u
  <2>3. t[i] = [op |-> sc[a + i], at |-> a + i]
    BY DEF Runs
  <2> QED
    BY <1>3, <2>1, <2>2, <2>3
<1>6. Stretch(sc, u, 0, A, L) /\ Stretch(sc, u, L, a, m)
  BY <1>4, <1>5 DEF Stretch
<1> QED
  BY <1>2, <1>6 DEF u

LEMMA RenderIs ==
  ASSUME NEW sc \in Seq(Ops), NEW hs, NEW lo, NEW hi, Serves(hs, sc, lo, hi),
         NEW read, NEW len, ReadUpTo(read, sc, len), NEW after \in Nat,
         NEW g, GroupIs(g, hs, Len(hs), len),
         g.first = 1 \/ g.lead > TrailOf(hs[g.first - 1], len, after),
         g.last + 1 \in 1..Len(hs) => TrailOf(hs[g.last], len, after) < FirstNew(hs[g.last + 1]),
         NEW r, r = RenderGroup(g, hs, read, after)
  PROVE  /\ g.last + 1 \in 1..Len(hs) => EndsAt(hs, hi, g.last, len, after) < lo[g.last + 1]
         /\ EndsAt(hs, hi, g.last, len, after) >= hi[g.last]
         /\ \E A, L \in Nat :
              /\ Rendered(sc, r, A, L, lo[g.first] - 1, EndsAt(hs, hi, g.last, len, after),
                          len = Len(HeadText(sc)))
              /\ g.first # 1 /\ L > 0 => A >= EndsAt(hs, hi, g.first - 1, len, after)
<1> DEFINE f == g.first
           c == g.last
           a == lo[f] - 1
           z == EndsAt(hs, hi, c, len, after)
           leadEnd == LesserOf(FirstNew(hs[f]), len + 1)
           ld == LesserOf(g.lead, leadEnd)
           L == leadEnd - ld
           leading == PadOf(read, ld, leadEnd - 1)
           mid == FlattenSeq(BodiesOf(g, hs, read))
           trailing == PadOf(read, LastNew(hs[c]) + 1, TrailOf(hs[c], len, after))
           body == leading \o mid \o trailing
<1>1. f \in 1..Len(hs) /\ c \in 1..Len(hs) /\ f <= c /\ LeadFits(g.lead, hs[f])
  <2>1. Len(hs) \in Nat
    BY DEF Serves
  <2> QED
    BY <2>1 DEF GroupIs, Windows
<1>2. Len(read) = len
  BY ReadIs
<1>3. r = [os |-> FirstOld(hs[f]) - Len(leading), ol |-> OnOld(body),
           ns |-> FirstNew(hs[f]) - Len(leading), nl |-> OnNew(body), body |-> body]
  BY <1>2, Zenon DEF RenderGroup, PadOf, BodiesOf, TrailOf
<1> DEFINE e == hi[c]
<1>4. Runs(sc, mid, a, hi[c] - lo[f] + 1)
  BY BodiesAre
<1>5. /\ Runs(sc, trailing, e, z - e) /\ e <= z /\ z <= Len(sc) /\ z \in Nat
      /\ c + 1 \in 1..Len(hs) => z < lo[c + 1]
  <2> HIDE DEF c, z
  <2> QED
    BY <1>1, TrailingIs DEF c, z
<1>6. /\ L \in Nat /\ L <= FirstNew(hs[f]) - g.lead
      /\ \E A \in Nat : /\ Leads(sc, leading, A, L, a)
                        /\ len = Len(HeadText(sc)) => A + L = a
                        /\ f # 1 /\ L > 0 => A >= EndsAt(hs, hi, f - 1, len, after)
  <2> DEFINE lead == g.lead
  <2>1. LeadFits(lead, hs[f]) /\ (f = 1 \/ lead > TrailOf(hs[f - 1], len, after))
    BY <1>1
  <2>2. leadEnd = LesserOf(FirstNew(hs[f]), len + 1) /\ ld = LesserOf(lead, leadEnd) /\ L = leadEnd - ld
    OBVIOUS
  <2> HIDE DEF f, ld, leadEnd, L, lead
  <2>3. /\ L \in Nat /\ L <= FirstNew(hs[f]) - lead
        /\ \E A \in Nat : /\ Leads(sc, PadOf(read, ld, leadEnd - 1), A, L, lo[f] - 1)
                          /\ len = Len(HeadText(sc)) => A + L = lo[f] - 1
                          /\ f # 1 /\ L > 0 => A >= EndsAt(hs, hi, f - 1, len, after)
    <3>1. LeadWindow(sc, hs, lo, hi, read, len, after, f, lead, leadEnd, ld, L)
      BY <1>1, <2>1, <2>2 DEF LeadWindow
    <3> QED
      BY <3>1, LeadingIs
  <2> QED
    BY <2>3 DEF lead
<1> HIDE DEF L, leading, mid, trailing, ld, leadEnd, z
<1>7. PICK A \in Nat : /\ Leads(sc, leading, A, L, a)
                       /\ len = Len(HeadText(sc)) => A + L = a
                       /\ f # 1 /\ L > 0 => A >= EndsAt(hs, hi, f - 1, len, after)
  BY <1>6
<1>8. /\ lo[f] \in 1..Len(sc) /\ hi[c] \in 1..Len(sc) /\ lo[f] <= hi[c]
      /\ FirstNew(hs[f]) = NewNo(sc, a) + 1 /\ FirstOld(hs[f]) = OldNo(sc, a) + 1
      /\ NewNo(sc, a) \in Nat /\ OldNo(sc, a) \in Nat
  <2>1. /\ lo[f] \in 1..Len(sc) /\ hi[f] \in 1..Len(sc) /\ lo[f] <= hi[f]
        /\ lo[c] \in 1..Len(sc) /\ hi[c] \in 1..Len(sc) /\ lo[c] <= hi[c]
        /\ FirstNew(hs[f]) = NewNo(sc, a) + 1 /\ FirstOld(hs[f]) = OldNo(sc, a) + 1
        /\ NewNo(sc, a) \in Nat /\ OldNo(sc, a) \in Nat
    <3>1. lo[c] \in 1..Len(sc) /\ hi[c] \in 1..Len(sc) /\ lo[c] <= hi[c]
      BY <1>1, ServesNos
    <3>2. /\ lo[f] \in 1..Len(sc) /\ hi[f] \in 1..Len(sc) /\ lo[f] <= hi[f]
          /\ FirstNew(hs[f]) = NewNo(sc, a) + 1 /\ FirstOld(hs[f]) = OldNo(sc, a) + 1
          /\ NewNo(sc, a) \in Nat /\ OldNo(sc, a) \in Nat
      <4> HIDE DEF f, c
      <4> QED
        BY <1>1, ServesNos
    <3> QED
      BY <3>1, <3>2
  <2>2. f = c \/ hi[f] < lo[c]
    <3>1. f = c \/ f < c
      BY <1>1
    <3> QED
      BY <1>1, <3>1 DEF Serves
  <2>3. lo[f] <= hi[c]
    <3>1. lo[f] \in Nat /\ hi[f] \in Nat /\ lo[c] \in Nat /\ hi[c] \in Nat
      BY <2>1, SMTT(30)
    <3> QED
      BY <2>1, <2>2, <3>1, SMTT(30)
  <2> QED
    BY <2>1, <2>3
<1> DEFINE m == hi[c] - lo[f] + 1
<1>9. a \in Nat /\ m \in Nat /\ e = a + m /\ e \in Nat /\ a < e
  <2> DEFINE i == lo[f]
             j == hi[c]
  <2>1. i \in Nat /\ j \in Nat /\ 1 <= i /\ i <= j
    BY <1>8
  <2> HIDE DEF i, j
  <2>2. i - 1 \in Nat /\ j - i + 1 \in Nat /\ j = (i - 1) + (j - i + 1) /\ i - 1 < j
    BY <2>1
  <2> QED
    BY <2>1, <2>2 DEF i, j
<1>10. Runs(sc, mid, a, m)
  BY <1>4
<1> HIDE DEF a, m, e
<1>11. Runs(sc, mid \o trailing, a, m + (z - e))
  BY <1>5, <1>9, <1>10, RunsConcat
<1>12. m + (z - e) = z - a /\ a < z
  BY <1>5, <1>9
<1>13. Runs(sc, leading, A, L)
  BY <1>7 DEF Leads
<1>14. body = leading \o (mid \o trailing)
  <2>1. leading \in Seq(BodyLines) /\ mid \in Seq(BodyLines) /\ trailing \in Seq(BodyLines)
    BY <1>5, <1>10, <1>13 DEF Runs
  <2> QED
    BY <2>1, ConcatAssociative
<1> HIDE DEF body
<1>15. /\ body \in Seq(BodyLines) /\ Len(body) = L + (z - a)
       /\ Stretch(sc, body, 0, A, L) /\ Stretch(sc, body, L, a, z - a)
  <2> DEFINE t == mid \o trailing
             k == z - a
  <2>1. Runs(sc, t, a, k)
    BY <1>11, <1>12
  <2>2. body = leading \o t
    BY <1>14
  <2> HIDE DEF t, k
  <2>3. /\ leading \o t \in Seq(BodyLines) /\ Len(leading \o t) = L + k
        /\ Stretch(sc, leading \o t, 0, A, L) /\ Stretch(sc, leading \o t, L, a, k)
    BY <1>13, <2>1, JoinedStretch
  <2> QED
    BY <2>2, <2>3 DEF k
<1>16. Len(leading) = L /\ L \in Nat
  BY <1>13 DEF Runs
<1>17. OnOld(body) \in Nat /\ OnNew(body) \in Nat
  BY <1>15, OnAll
<1>18. r.os = OldNo(sc, a) + 1 - L /\ r.ns = NewNo(sc, a) + 1 - L /\ r.body = body
       /\ r.ol = OnOld(body) /\ r.nl = OnNew(body)
  BY <1>3, <1>8, <1>16
<1>19. r.os >= 1 /\ r.ns >= 1 /\ r.os \in Int /\ r.ns \in Int
  <2> DEFINE old == OldNo(sc, a)
             new == NewNo(sc, a)
             lead == g.lead
  <2>1. /\ lead \in Nat /\ 1 <= lead /\ lead <= new + 1
        /\ new + 1 - ((old + 1) - 1) <= lead
    BY <1>1, <1>8 DEF LeadFits
  <2>2. old \in Nat /\ new \in Nat /\ L <= new + 1 - lead
    <3>1. L <= FirstNew(hs[f]) - lead /\ FirstNew(hs[f]) = new + 1
      BY <1>6, <1>8
    <3>2. L <= new + 1 - lead
      BY <1>8, <1>16, <2>1, <3>1, SMTT(20)
    <3> QED
      BY <1>8, <3>2
  <2>3. r.os = old + 1 - L /\ r.ns = new + 1 - L
    BY <1>18
  <2> HIDE DEF old, new, lead
  <2> QED
    BY <1>16, <2>1, <2>2, <2>3
<1>20. r \in HunkSpace
  <2>1. r = [os |-> r.os, ol |-> r.ol, ns |-> r.ns, nl |-> r.nl, body |-> r.body]
    BY <1>3
  <2> QED
    BY <1>15, <1>17, <1>18, <1>19, <2>1 DEF HunkSpace
<1>21. Rendered(sc, r, A, L, a, z, len = Len(HeadText(sc)))
  <2>1. A + L <= a /\ \A t \in 1..L : sc[A + t] = "k"
    BY <1>7 DEF Leads
  <2>2. {A, L, a, z} \subseteq Nat
    BY <1>5, <1>9, <1>16
  <2> QED
    BY <1>5, <1>7, <1>12, <1>15, <1>18, <1>19, <1>20, <2>1, <2>2 DEF Rendered
<1>22. \E B, K \in Nat : /\ Rendered(sc, r, B, K, a, z, len = Len(HeadText(sc)))
                         /\ f # 1 /\ K > 0 => B >= EndsAt(hs, hi, f - 1, len, after)
  BY <1>7, <1>16, <1>21
<1> QED
  BY <1>5, <1>22 DEF a, z, e
-------------------------------------------------------------------------------
(* What a model is shown *)

\* A hunk whose header is true of its lines, and they of the script.
TrueHunk(sc, h, w) ==
  /\ h \in HunkSpace /\ h.ol = OnOld(h.body) /\ h.nl = OnNew(h.body)
  /\ h.os >= (IF h.ol = 0 THEN 0 ELSE 1) /\ h.ns >= (IF h.nl = 0 THEN 0 ELSE 1)
  /\ \A p \in DOMAIN h.body : /\ h.body[p].at \in 1..Len(sc) /\ h.body[p].op = sc[h.body[p].at]
                              /\ w \/ h.body[p].op # "k" => TrulyAt(sc, h, p)
  /\ \A p, q \in DOMAIN h.body : p < q => h.body[p].at < h.body[q].at

\* Such hunks, in file order.
Shows(sc, hs, w) ==
  /\ hs \in Seq(HunkSpace)
  /\ \A x \in 1..Len(hs) : TrueHunk(sc, hs[x], w)
  /\ \A x, y \in 1..Len(hs) : x < y =>
       \A p \in DOMAIN hs[x].body, q \in DOMAIN hs[y].body : hs[x].body[p].at < hs[y].body[q].at

\* Every line of some hunks is in others.
CoversAll(hs, all) ==
  \A x \in DOMAIN all : \A p \in DOMAIN all[x].body :
    \E y \in DOMAIN hs : \E q \in DOMAIN hs[y].body : hs[y].body[q].at = all[x].body[p].at

LEMMA RenderedIsTrue ==
  ASSUME NEW sc \in Seq(Ops), NEW r, NEW A, NEW L, NEW a, NEW z, NEW w, Rendered(sc, r, A, L, a, z, w)
  PROVE  /\ TrueHunk(sc, r, w)
         /\ \A p \in DOMAIN r.body : /\ r.body[p].at > A /\ r.body[p].at <= z
                                     /\ L = 0 => r.body[p].at > a
         /\ \A i \in (a + 1)..z : \E p \in DOMAIN r.body : r.body[p].at = i
<1> DEFINE m == z - a
           body == r.body
<1>1. /\ r \in HunkSpace /\ A \in Nat /\ L \in Nat /\ a \in Nat /\ z \in Nat
      /\ A + L <= a /\ a < z /\ z <= Len(sc) /\ (w => A + L = a)
      /\ Len(body) = L + m /\ Stretch(sc, body, 0, A, L) /\ Stretch(sc, body, L, a, m)
      /\ \A t \in 1..L : sc[A + t] = "k"
      /\ r.ol = OnOld(body) /\ r.nl = OnNew(body)
      /\ r.os = OldNo(sc, a) + 1 - L /\ r.os >= 1 /\ r.ns = NewNo(sc, a) + 1 - L /\ r.ns >= 1
  BY DEF Rendered
<1>2. m \in Nat /\ a + m = z /\ a + m <= Len(sc) /\ A + L <= Len(sc) /\ 0 \in Nat
  BY <1>1
<1>3. body \in Seq(BodyLines) /\ r.os \in Int /\ r.ns \in Int
  BY <1>1 DEF HunkSpace
<1>4. DOMAIN body = 1..(L + m)
  BY <1>1, <1>3, SMTT(20)
<1> HIDE DEF m
<1>5. ASSUME NEW p \in 1..L
      PROVE  body[p].at = A + p /\ body[p].op = "k" /\ body[p].op = sc[A + p]
  <2>1. 0 + p = p
    OBVIOUS
  <2>2. body[0 + p] = [op |-> sc[A + p], at |-> A + p]
    BY <1>1 DEF Stretch
  <2> HIDE DEF body
  <2> QED
    BY <1>1, <2>1, <2>2
<1>6. ASSUME NEW p \in (L + 1)..(L + m)
      PROVE  body[p].at = a + (p - L) /\ body[p].op = sc[a + (p - L)]
  <2> DEFINE t == p - L
  <2>1. t \in 1..m /\ L + t = p
    BY <1>1, <1>2
  <2>2. body[L + t] = [op |-> sc[a + t], at |-> a + t]
    BY <1>1, <2>1 DEF Stretch
  <2> HIDE DEF body, t
  <2>3. body[p].at = a + t /\ body[p].op = sc[a + t]
    BY <2>1, <2>2
  <2> QED
    BY <2>3 DEF t
<1>7. /\ Up(OldIn(body), L) = L /\ Up(NewIn(body), L) = L
      /\ Up(OldIn(body), 0) = 0 /\ Up(NewIn(body), 0) = 0
  <2>1. \A t \in 1..L : t \in DOMAIN body
    BY <1>1, <1>2, <1>4
  <2>2. \A t \in 1..L : 0 + t \in OldIn(body) /\ 0 + t \in NewIn(body)
    <3>1. ASSUME NEW t \in 1..L PROVE t \in OldIn(body) /\ t \in NewIn(body)
      <4>1. t \in DOMAIN body /\ body[t].op = "k"
        BY <1>5, <2>1
      <4> QED
        BY <4>1 DEF OldIn, NewIn
    <3>2. \A t \in 1..L : 0 + t = t
      BY <1>1
    <3> QED
      BY <3>1, <3>2
  <2> HIDE DEF body
  <2>3. Up(OldIn(body), 0 + L) = Up(OldIn(body), 0) + L /\ Up(NewIn(body), 0 + L) = Up(NewIn(body), 0) + L
    BY <1>1, <1>2, <2>2, UpRun
  <2>4. Up(OldIn(body), 0) = 0 /\ Up(NewIn(body), 0) = 0 /\ 0 + L = L
    BY <1>1, UpZero
  <2> QED
    BY <2>3, <2>4
<1>8. OldNo(sc, a) \in Nat /\ NewNo(sc, a) \in Nat
  <2>1. a \in 0..Len(sc)
    BY <1>1
  <2> QED
    BY <2>1, NosAre
<1>9. Starts(sc, r, L, a, m)
  <2>1. r.os + Up(OldIn(body), L) = OldNo(sc, a) + 1 /\ r.ns + Up(NewIn(body), L) = NewNo(sc, a) + 1
    BY <1>1, <1>7, <1>8
  <2> QED
    BY <2>1 DEF Starts
<1>10. ASSUME NEW p \in (L + 1)..(L + m) PROVE TrulyAt(sc, r, p)
  <2>1. OfStretch(sc, r, L, a, m)
    BY <1>1, <1>2, <1>3, <1>9 DEF OfStretch
  <2> QED
    BY <2>1, StretchIsTrue DEF LineOfStretch
<1>11. ASSUME w, NEW p \in 1..L PROVE TrulyAt(sc, r, p)
  <2>1. Gap(sc, A, a)
    <3>1. A + L = a
      BY <1>1, <1>11
    <3>2. ASSUME NEW i \in (A + 1)..a PROVE sc[i] = "k"
      <4> DEFINE t == i - A
      <4>1. t \in 1..L /\ A + t = i
        BY <1>1, <3>1
      <4> HIDE DEF t
      <4> QED
        BY <1>1, <4>1
    <3> QED
      BY <1>1, <3>1, <3>2 DEF Gap
  <2>2. A + L = a /\ a \in A..a
    BY <1>1, <1>11
  <2>3. /\ OldNo(sc, a) = OldNo(sc, A) + (a - A) /\ NewNo(sc, a) = NewNo(sc, A) + (a - A)
        /\ OldNo(sc, A) \in Nat /\ NewNo(sc, A) \in Nat
    BY <2>1, <2>2, GapNos
  <2>4. a - A = L
    BY <1>1, <2>2
  <2>5. r.os = OldNo(sc, A) + 1 /\ r.ns = NewNo(sc, A) + 1
    BY <1>1, <2>3, <2>4
  <2>6. Starts(sc, r, 0, A, L)
    BY <1>3, <1>7, <2>3, <2>5 DEF Starts
  <2>7. p \in (0 + 1)..(0 + L)
    BY <1>1
  <2> QED
    <3>1. OfStretch(sc, r, 0, A, L)
      BY <1>1, <1>2, <1>3, <2>6 DEF OfStretch
    <3> QED
      BY <2>7, <3>1, StretchIsTrue DEF LineOfStretch
<1>12. \A p \in DOMAIN body : p \in 1..L \/ p \in (L + 1)..(L + m)
  BY <1>1, <1>2, <1>4
<1> HIDE DEF body
<1>13. ASSUME NEW p \in DOMAIN body
       PROVE  /\ body[p].at \in 1..Len(sc) /\ body[p].op = sc[body[p].at]
              /\ w \/ body[p].op # "k" => TrulyAt(sc, r, p)
              /\ body[p].at > A /\ body[p].at <= z /\ (L = 0 => body[p].at > a)
  <2>1. CASE p \in 1..L
    <3>1. A + p \in 1..Len(sc) /\ A + p > A /\ A + p <= z /\ L # 0
      BY <1>1, <1>2, <2>1
    <3>2. body[p].at = A + p /\ body[p].op = "k" /\ body[p].op = sc[A + p]
      BY <1>5, <2>1
    <3>3. w => TrulyAt(sc, r, p)
      BY <1>11, <2>1
    <3> QED
      BY <3>1, <3>2, <3>3
  <2>2. CASE p \in (L + 1)..(L + m)
    <3> DEFINE i == a + (p - L)
    <3>1. i \in 1..Len(sc) /\ i > A /\ i <= z /\ i > a
      BY <1>1, <1>2, <2>2, SMTT(20)
    <3>2. body[p].at = i /\ body[p].op = sc[i]
      BY <1>6, <2>2
    <3> HIDE DEF i
    <3> QED
      BY <1>10, <2>2, <3>1, <3>2
  <2> QED
    BY <1>12, <2>1, <2>2
<1>14. ASSUME NEW p \in DOMAIN body, NEW q \in DOMAIN body, p < q PROVE body[p].at < body[q].at
  <2>1. p \in 1..L => body[p].at = A + p
    BY <1>5
  <2>2. p \in (L + 1)..(L + m) => body[p].at = a + (p - L)
    BY <1>6
  <2>3. q \in 1..L => body[q].at = A + q
    BY <1>5
  <2>4. q \in (L + 1)..(L + m) => body[q].at = a + (q - L)
    BY <1>6
  <2>5. p \in Nat /\ q \in Nat
    BY <1>1, <1>2, <1>4
  <2>6. CASE q \in 1..L
    <3>1. p \in 1..L
      BY <1>1, <1>12, <1>14, <2>5, <2>6
    <3>2. A + p < A + q
      BY <1>1, <1>14, <2>5
    <3> QED
      BY <2>1, <2>3, <2>6, <3>1, <3>2
  <2>7. CASE q \in (L + 1)..(L + m)
    <3>1. CASE p \in 1..L
      <4>1. A + p < a + (q - L)
        BY <1>1, <1>2, <2>7, <3>1, SMTT(20)
      <4> QED
        BY <2>1, <2>4, <2>7, <3>1, <4>1
    <3>2. CASE p \in (L + 1)..(L + m)
      <4>1. a + (p - L) < a + (q - L)
        BY <1>1, <1>14, <2>5
      <4> QED
        BY <2>2, <2>4, <2>7, <3>2, <4>1
    <3> QED
      BY <1>12, <3>1, <3>2
  <2> QED
    BY <1>12, <2>6, <2>7
<1>15. ASSUME NEW i \in (a + 1)..z PROVE \E p \in DOMAIN body : body[p].at = i
  <2> DEFINE p == L + (i - a)
  <2>1. p \in (L + 1)..(L + m) /\ p \in DOMAIN body /\ a + (p - L) = i
    BY <1>1, <1>2, <1>4
  <2> HIDE DEF p
  <2>2. body[p].at = i
    BY <1>6, <2>1
  <2> QED
    BY <2>1, <2>2
<1>16. TrueHunk(sc, r, w)
  <2>1. r.os >= (IF r.ol = 0 THEN 0 ELSE 1) /\ r.ns >= (IF r.nl = 0 THEN 0 ELSE 1)
    BY <1>1, <1>3
  <2> QED
    BY <1>1, <1>13, <1>14, <2>1 DEF TrueHunk, body
<1> QED
  BY <1>13, <1>15, <1>16 DEF body

\* The hunks as served are shown true.
LEMMA ServedIsTrue ==
  ASSUME NEW sc \in Seq(Ops), NEW i \in 1..Len(sc), NEW j \in i..Len(sc),
         NEW h, h = ServedHunk(sc, i, j), NEW w
  PROVE  /\ TrueHunk(sc, h, w) /\ DOMAIN h.body = 1..(j - i + 1)
         /\ \A p \in DOMAIN h.body : h.body[p].at = i + p - 1
<1> DEFINE a == i - 1
<1>1. /\ h \in HunkSpace /\ Len(h.body) = j - i + 1
      /\ h.ol = OnOld(h.body) /\ h.nl = OnNew(h.body)
      /\ h.os = IF h.ol = 0 THEN OldNo(sc, a) ELSE OldNo(sc, a) + 1
      /\ h.ns = IF h.nl = 0 THEN NewNo(sc, a) ELSE NewNo(sc, a) + 1
  BY ServedHunkIs
<1>2. a \in 0..Len(sc) /\ i \in Nat /\ j \in Nat /\ \A k \in i..j : k \in 1..Len(sc)
  OBVIOUS
<1> HIDE DEF a
<1>3. OldNo(sc, a) \in Nat /\ NewNo(sc, a) \in Nat
  BY <1>2, NosAre
<1>4. h.body \in Seq(BodyLines)
  BY <1>1 DEF HunkSpace
<1>5. DOMAIN h.body = 1..(j - i + 1)
  BY <1>1, <1>4
<1>6. ASSUME NEW p \in DOMAIN h.body
      PROVE  /\ h.body[p].at = i + p - 1 /\ h.body[p].at \in i..j
             /\ h.body[p].op = sc[h.body[p].at] /\ TrulyAt(sc, h, p)
  BY ServedLine
<1>7. ASSUME NEW p \in DOMAIN h.body, NEW q \in DOMAIN h.body, p < q
      PROVE  h.body[p].at < h.body[q].at
  <2>1. p \in Nat /\ q \in Nat
    BY <1>5
  <2>2. i + p - 1 < i + q - 1
    BY <1>2, <1>7, <2>1
  <2> QED
    BY <1>6, <2>2
<1>8. h.os >= (IF h.ol = 0 THEN 0 ELSE 1) /\ h.ns >= (IF h.nl = 0 THEN 0 ELSE 1)
  BY <1>1, <1>3
<1>9. TrueHunk(sc, h, w)
  BY <1>1, <1>2, <1>6, <1>7, <1>8 DEF TrueHunk
<1> QED
  BY <1>5, <1>6, <1>9

LEMMA ServedShows ==
  ASSUME NEW sc \in Seq(Ops), NEW hs, NEW lo, NEW hi, Serves(hs, sc, lo, hi), NEW w
  PROVE  Shows(sc, hs, w) /\ CoversAll(hs, hs)
<1>1. ASSUME NEW x \in 1..Len(hs)
      PROVE  /\ TrueHunk(sc, hs[x], w) /\ lo[x] \in Nat /\ hi[x] \in Nat
             /\ \A p \in DOMAIN hs[x].body : hs[x].body[p].at \in lo[x]..hi[x]
  <2> DEFINE i == lo[x]
             j == hi[x]
             h == hs[x]
  <2>1. i \in 1..Len(sc) /\ j \in i..Len(sc) /\ h = ServedHunk(sc, i, j) /\ i \in Nat /\ j \in Nat
    <3>1. lo[x] \in 1..Len(sc) /\ hi[x] \in 1..Len(sc) /\ lo[x] <= hi[x] /\ hs[x] = ServedHunk(sc, lo[x], hi[x])
      BY DEF Serves
    <3> QED
      BY <3>1
  <2> HIDE DEF i, j, h
  <2>2. TrueHunk(sc, h, w)
    BY <2>1, ServedIsTrue
  <2>3. \A p \in DOMAIN h.body : h.body[p].at \in i..j
    BY <2>1, ServedLine
  <2> QED
    BY <2>1, <2>2, <2>3 DEF i, j, h
<1>2. ASSUME NEW x \in 1..Len(hs), NEW y \in 1..Len(hs), x < y,
             NEW p \in DOMAIN hs[x].body, NEW q \in DOMAIN hs[y].body
      PROVE  hs[x].body[p].at < hs[y].body[q].at
  <2>1. hi[x] < lo[y]
    BY <1>2 DEF Serves
  <2>2. hs[x].body[p].at \in lo[x]..hi[x] /\ lo[x] \in Nat /\ hi[x] \in Nat
    BY <1>1
  <2>3. hs[y].body[q].at \in lo[y]..hi[y] /\ lo[y] \in Nat /\ hi[y] \in Nat
    BY <1>1
  <2> QED
    BY <2>1, <2>2, <2>3, SMTT(20)
<1>3. CoversAll(hs, hs)
  BY DEF CoversAll
<1>4. hs \in Seq(HunkSpace)
  BY DEF Serves
<1> QED
  BY <1>1, <1>2, <1>3, <1>4 DEF Shows

\* Of two runs of hunks, the first ends before the second starts.
LEMMA RunsApart ==
  ASSUME NEW sc \in Seq(Ops), NEW hs, NEW lo, NEW hi, Serves(hs, sc, lo, hi),
         NEW read, NEW len, ReadUpTo(read, sc, len), NEW after \in Nat,
         NEW gs, GroupsTo(gs, Len(hs), hs, len, after), NEW x \in 1..Len(gs)
  PROVE  /\ GroupIs(gs[x], hs, Len(hs), len)
         /\ gs[x].first = 1 \/ gs[x].lead > TrailOf(hs[gs[x].first - 1], len, after)
         /\ gs[x].last + 1 \in 1..Len(hs) =>
              TrailOf(hs[gs[x].last], len, after) < FirstNew(hs[gs[x].last + 1])
         /\ x # 1 => x - 1 \in 1..Len(gs) /\ gs[x].first # 1 /\ gs[x - 1].last = gs[x].first - 1
<1> DEFINE l == Len(gs)
<1>1. gs \in Seq(Windows) /\ l \in Nat /\ Len(hs) \in Nat /\ \A y \in 1..l : gs[y] \in Windows
  BY DEF GroupsTo, Serves
<1>2. \A y \in 1..l : GroupIs(gs[y], hs, Len(hs), len)
  BY DEF GroupsTo
<1>3. \A y \in 1..l : y + 1 \in 1..l => NextGroup(gs[y], gs[y + 1], hs, len, after)
  BY DEF GroupsTo
<1>4. x # 1 => /\ x - 1 \in 1..l /\ gs[x].first # 1 /\ gs[x - 1].last = gs[x].first - 1
               /\ gs[x].lead > TrailOf(hs[gs[x].first - 1], len, after)
  <2> SUFFICES ASSUME x # 1
               PROVE  /\ x - 1 \in 1..l /\ gs[x].first # 1 /\ gs[x - 1].last = gs[x].first - 1
                      /\ gs[x].lead > TrailOf(hs[gs[x].first - 1], len, after)
    OBVIOUS
  <2> DEFINE y == x - 1
             c == gs[y].last
  <2>1. y \in 1..l /\ y + 1 = x
    BY <1>1
  <2> HIDE DEF y
  <2>2. gs[x].first = c + 1 /\ gs[x].lead > TrailOf(hs[c], len, after)
    BY <1>3, <2>1 DEF NextGroup
  <2>3. c \in Nat /\ 1 <= c
    <3>1. GroupIs(gs[y], hs, Len(hs), len) /\ gs[y].first \in Nat /\ c \in Nat
      BY <1>1, <1>2, <2>1 DEF Windows
    <3> QED
      BY <3>1 DEF GroupIs
  <2> HIDE DEF c
  <2>4. gs[x].first # 1 /\ gs[x].first - 1 = c
    BY <2>2, <2>3
  <2> QED
    BY <2>1, <2>2, <2>4 DEF c, y
<1>5. x = 1 => gs[x].first = 1
  <2>1. l > 0
    BY <1>1
  <2> QED
    BY <2>1 DEF GroupsTo
<1>6. gs[x].last + 1 \in 1..Len(hs) =>
        TrailOf(hs[gs[x].last], len, after) < FirstNew(hs[gs[x].last + 1])
  <2> DEFINE c == gs[x].last
  <2> SUFFICES ASSUME c + 1 \in 1..Len(hs) PROVE TrailOf(hs[c], len, after) < FirstNew(hs[c + 1])
    OBVIOUS
  <2>1. x # l
    <3> SUFFICES ASSUME x = l PROVE FALSE
      OBVIOUS
    <3>1. Len(hs) > 0
      BY <1>1
    <3>2. c = Len(hs)
      BY <3>1 DEF GroupsTo
    <3> QED
      BY <1>1, <3>2
  <2>2. x + 1 \in 1..l
    BY <1>1, <2>1
  <2>3. NextGroup(gs[x], gs[x + 1], hs, len, after) /\ GroupIs(gs[x + 1], hs, Len(hs), len)
    BY <1>2, <1>3, <2>2
  <2>4. gs[x + 1].first = c + 1 /\ gs[x + 1].lead > TrailOf(hs[c], len, after)
        /\ LeadFits(gs[x + 1].lead, hs[c + 1])
    BY <2>3 DEF NextGroup, GroupIs
  <2> DEFINE trail == TrailOf(hs[c], len, after)
             lead == gs[x + 1].lead
             fn == FirstNew(hs[c + 1])
  <2>5. trail \in Int /\ lead \in Int /\ fn \in Int
    <3>1. lead \in Nat
      BY <2>4 DEF LeadFits
    <3>2. c \in 1..Len(hs)
      BY <1>1, <1>2, SMTT(20) DEF GroupIs, Windows
    <3>3. Numbered(hs)
      BY ServesNumbered
    <3>4. LastNew(hs[c]) \in Nat /\ fn \in Nat
      BY <3>2, <3>3 DEF Numbered
    <3>5. len \in Nat
      BY DEF ReadUpTo
    <3>6. trail \in Nat
      BY <3>4, <3>5 DEF TrailOf, LesserOf
    <3> QED
      BY <3>1, <3>4, <3>6, SMTT(20)
  <2>6. trail < lead /\ lead <= fn
    BY <2>4, <2>5 DEF LeadFits
  <2> HIDE DEF trail, lead, fn
  <2>7. trail < fn
    BY <2>5, <2>6
  <2> QED
    BY <2>7 DEF trail, fn
<1> QED
  BY <1>2, <1>4, <1>5, <1>6

\* Runs of hunks that padding joins, `w` when all of the file was read.
Joined(sc, hs, lo, hi, read, len, after, gs, w) ==
  /\ sc \in Seq(Ops) /\ Serves(hs, sc, lo, hi) /\ ReadUpTo(read, sc, len)
  /\ after \in Nat /\ GroupsTo(gs, Len(hs), hs, len, after) /\ w = (len = Len(HeadText(sc)))

\* A run is shown true, from after the run before it to where it ends.
RunShown(sc, hs, lo, hi, len, after, gs, x, r, w) ==
  /\ TrueHunk(sc, r, w)
  /\ \A i \in lo[gs[x].first]..hi[gs[x].last] : \E p \in DOMAIN r.body : r.body[p].at = i
  /\ EndsAt(hs, hi, gs[x].last, len, after) \in Nat
  /\ EndsAt(hs, hi, gs[x].last, len, after) >= hi[gs[x].last]
  /\ gs[x].last + 1 \in 1..Len(hs) =>
       EndsAt(hs, hi, gs[x].last, len, after) < lo[gs[x].last + 1]
  /\ \A p \in DOMAIN r.body :
       /\ r.body[p].at \in Nat /\ r.body[p].at <= EndsAt(hs, hi, gs[x].last, len, after)
       /\ x # 1 => r.body[p].at > EndsAt(hs, hi, gs[x - 1].last, len, after)

LEMMA GroupsRendered ==
  ASSUME NEW sc, NEW hs, NEW lo, NEW hi, NEW read, NEW len, NEW after, NEW gs, NEW w,
         Joined(sc, hs, lo, hi, read, len, after, gs, w), NEW x \in 1..Len(gs),
         NEW r, r = RenderGroup(gs[x], hs, read, after)
  PROVE  RunShown(sc, hs, lo, hi, len, after, gs, x, r, w)
<1>0. /\ sc \in Seq(Ops) /\ Serves(hs, sc, lo, hi) /\ ReadUpTo(read, sc, len)
      /\ after \in Nat /\ GroupsTo(gs, Len(hs), hs, len, after) /\ w = (len = Len(HeadText(sc)))
  BY DEF Joined
<1> USE <1>0
<1> DEFINE g == gs[x]
           a == lo[g.first] - 1
           z == EndsAt(hs, hi, g.last, len, after)
           before == EndsAt(hs, hi, g.first - 1, len, after)
<1>1. /\ GroupIs(g, hs, Len(hs), len)
      /\ g.first = 1 \/ g.lead > TrailOf(hs[g.first - 1], len, after)
      /\ g.last + 1 \in 1..Len(hs) => TrailOf(hs[g.last], len, after) < FirstNew(hs[g.last + 1])
      /\ x # 1 => x - 1 \in 1..Len(gs) /\ g.first # 1 /\ gs[x - 1].last = g.first - 1
  BY RunsApart
<1> HIDE DEF g
<1>2. r = RenderGroup(g, hs, read, after)
  BY DEF g
<1>3. /\ g.last + 1 \in 1..Len(hs) => z < lo[g.last + 1]
      /\ z >= hi[g.last]
      /\ \E A, L \in Nat : /\ Rendered(sc, r, A, L, a, z, w)
                           /\ g.first # 1 /\ L > 0 => A >= before
  BY <1>1, <1>2, RenderIs
<1> HIDE DEF z, before
<1>4. PICK A \in Nat, L \in Nat : /\ Rendered(sc, r, A, L, a, z, w)
                                  /\ g.first # 1 /\ L > 0 => A >= before
  BY <1>3
<1>5. /\ TrueHunk(sc, r, w)
      /\ \A p \in DOMAIN r.body : /\ r.body[p].at > A /\ r.body[p].at <= z
                                  /\ L = 0 => r.body[p].at > a
      /\ \A i \in (a + 1)..z : \E p \in DOMAIN r.body : r.body[p].at = i
  <2> HIDE DEF a
  <2> QED
    BY <1>4, RenderedIsTrue
<1>6. z \in Nat /\ a \in Nat
  BY <1>4 DEF Rendered
<1>7. g.first \in 1..Len(hs) /\ g.last \in 1..Len(hs)
  <2>1. Len(hs) \in Nat
    BY DEF Serves
  <2> QED
    BY <1>1, <2>1 DEF GroupIs, Windows
<1>8. lo[g.first] \in Nat /\ hi[g.last] \in Nat /\ a + 1 = lo[g.first]
  <2>1. lo[g.first] \in 1..Len(sc)
    BY <1>7, ServesNos
  <2>2. hi[g.last] \in 1..Len(sc)
    BY <1>7, ServesNos
  <2> QED
    BY <2>1, <2>2
<1>9. \A p \in DOMAIN r.body : r.body[p].at \in Nat
  BY <1>5 DEF TrueHunk
<1>10. \A i \in lo[g.first]..hi[g.last] : i \in (a + 1)..z
  BY <1>3, <1>6, <1>8, SMTT(20)
<1>11. ASSUME x # 1, NEW p \in DOMAIN r.body PROVE r.body[p].at > before
  <2> DEFINE y == x - 1
             k == g.first - 1
  <2>1. y \in 1..Len(gs) /\ g.first # 1 /\ gs[y].last = k
    BY <1>1, <1>11
  <2> HIDE DEF y
  <2>2. k \in 1..Len(hs) /\ k + 1 = g.first
    <3>1. Len(hs) \in Nat
      BY DEF Serves
    <3> QED
      BY <1>7, <2>1, <3>1, SMTT(20)
  <2>3. before < lo[g.first] /\ before \in Nat
    <3> DEFINE f == gs[y]
               q == RenderGroup(f, hs, read, after)
               b == EndsAt(hs, hi, f.last, len, after)
    <3>1. /\ GroupIs(f, hs, Len(hs), len)
          /\ f.first = 1 \/ f.lead > TrailOf(hs[f.first - 1], len, after)
          /\ f.last + 1 \in 1..Len(hs) => TrailOf(hs[f.last], len, after) < FirstNew(hs[f.last + 1])
      BY <2>1, RunsApart
    <3>2. f.last + 1 = g.first /\ f.last + 1 \in 1..Len(hs) /\ before = b
      BY <1>7, <2>1, <2>2 DEF before
    <3> HIDE DEF f
    <3>3. b < lo[f.last + 1]
      <4> HIDE DEF b
      <4> QED
        BY <3>1, <3>2, RenderIs DEF b
    <3>4. b \in Nat
      <4>1. \E B, K \in Nat : Rendered(sc, q, B, K, lo[f.first] - 1, b, w)
        BY <3>1, RenderIs
      <4> QED
        BY <4>1 DEF Rendered
    <3> QED
      BY <3>2, <3>3, <3>4
  <2>4. CASE L = 0
    <3>1. r.body[p].at > a
      BY <1>5, <2>4
    <3>2. r.body[p].at \in Nat
      BY <1>9
    <3> QED
      BY <1>6, <1>8, <2>3, <3>1, <3>2, SMTT(20)
  <2>5. CASE L # 0
    <3>1. L > 0
      BY <2>5
    <3>2. A >= before /\ r.body[p].at > A /\ r.body[p].at \in Nat
      BY <1>4, <1>5, <1>9, <2>1, <3>1
    <3> QED
      BY <2>3, <3>2
  <2> QED
    BY <2>4, <2>5
<1>12. ASSUME x # 1 PROVE before = EndsAt(hs, hi, gs[x - 1].last, len, after)
  BY <1>1, <1>12 DEF before
<1> QED
  BY <1>3, <1>5, <1>6, <1>9, <1>10, <1>11, <1>12 DEF RunShown, g, z

\* Places of later hunks are later.
LEMMA HunksApart ==
  ASSUME NEW sc \in Seq(Ops), NEW hs, NEW lo, NEW hi, Serves(hs, sc, lo, hi),
         NEW j \in 1..Len(hs), NEW k \in 1..Len(hs), j <= k
  PROVE  /\ lo[j] <= lo[k] /\ hi[j] <= hi[k] /\ lo[j] <= hi[k]
         /\ lo[j] \in Nat /\ hi[j] \in Nat /\ lo[k] \in Nat /\ hi[k] \in Nat
<1>1. lo[j] \in 1..Len(sc) /\ hi[j] \in 1..Len(sc) /\ lo[j] <= hi[j]
  BY ServesNos
<1>2. lo[k] \in 1..Len(sc) /\ hi[k] \in 1..Len(sc) /\ lo[k] <= hi[k]
  BY ServesNos
<1>3. j = k \/ hi[j] < lo[k]
  <2>1. j = k \/ j < k
    OBVIOUS
  <2> QED
    BY <2>1 DEF Serves
<1>4. lo[j] \in Nat /\ hi[j] \in Nat /\ lo[k] \in Nat /\ hi[k] \in Nat
  BY <1>1, <1>2
<1>5. CASE j = k
  BY <1>1, <1>4, <1>5
<1>6. CASE hi[j] < lo[k]
  BY <1>1, <1>2, <1>4, <1>6
<1> QED
  BY <1>3, <1>5, <1>6

\* Padding shows every line of the hunks, in order, under true headers.
LEMMA ExpandShows ==
  ASSUME NEW sc \in Seq(Ops), NEW hs, NEW lo, NEW hi, Serves(hs, sc, lo, hi),
         NEW read, NEW len, ReadUpTo(read, sc, len), NEW n \in Nat, NEW after \in Nat,
         NEW ranges, ranges \subseteq Int \X Int,
         NEW new, new = ExpandHunks(hs, read, n, after, Spans(ranges)),
         NEW w, w = (len = Len(HeadText(sc)))
  PROVE  Shows(sc, new, w) /\ CoversAll(new, hs)
<1>1. CASE n <= 0 \/ read = <<>>
  <2>1. new = hs
    BY <1>1 DEF ExpandHunks
  <2> QED
    BY <2>1, ServedShows
<1>2. CASE ~(n <= 0 \/ read = <<>>)
  <2> DEFINE gs == GroupHunks(hs, len, n, after, Spans(ranges))
             l == Len(gs)
             ends(x) == EndsAt(hs, hi, gs[x].last, len, after)
  <2>1. n \in Nat \ {0} /\ len \in Nat /\ Len(read) = len
    BY <1>2, ReadIs DEF ReadUpTo
  <2>2. GroupsTo(gs, Len(hs), hs, len, after)
    BY <2>1, ServesNumbered, GroupHunksIs
  <2>3. new = [x \in DOMAIN gs |-> RenderGroup(gs[x], hs, read, after)]
    BY <1>2, <2>1 DEF ExpandHunks
  <2> HIDE DEF gs
  <2>4. gs \in Seq(Windows) /\ DOMAIN gs = 1..l /\ l \in Nat /\ Len(hs) \in Nat
    BY <2>2 DEF GroupsTo, Serves
  <2> HIDE DEF l
  <2>5. ASSUME NEW x \in 1..l
        PROVE  /\ TrueHunk(sc, new[x], w)
               /\ \A i \in lo[gs[x].first]..hi[gs[x].last] :
                    \E p \in DOMAIN new[x].body : new[x].body[p].at = i
               /\ ends(x) \in Nat /\ ends(x) >= hi[gs[x].last]
               /\ gs[x].last + 1 \in 1..Len(hs) => ends(x) < lo[gs[x].last + 1]
               /\ \A p \in DOMAIN new[x].body :
                    /\ new[x].body[p].at \in Nat /\ new[x].body[p].at <= ends(x)
                    /\ x # 1 => new[x].body[p].at > ends(x - 1)
    <3> DEFINE r == new[x]
    <3>1. r = RenderGroup(gs[x], hs, read, after)
      BY <2>3, <2>4
    <3>2. x \in 1..Len(gs)
      BY DEF l
    <3> HIDE DEF r
    <3>3. Joined(sc, hs, lo, hi, read, len, after, gs, w)
      BY <2>2 DEF Joined
    <3>4. RunShown(sc, hs, lo, hi, len, after, gs, x, r, w)
      BY <3>1, <3>2, <3>3, GroupsRendered
    <3> QED
      BY <3>4 DEF RunShown, r
  <2>6. ASSUME NEW x \in 1..l
        PROVE  gs[x].first \in 1..Len(hs) /\ gs[x].last \in 1..Len(hs) /\ gs[x].first <= gs[x].last
    <3>1. GroupIs(gs[x], hs, Len(hs), len)
      BY <2>2 DEF GroupsTo, l
    <3> QED
      BY <2>4, <3>1, SMTT(20) DEF GroupIs, Windows
  <2>7. ASSUME NEW x \in 1..l, NEW y \in 1..l, x <= y PROVE ends(x) <= ends(y)
    <3>1. CASE x = y
      <4>1. ends(x) \in Nat
        BY <2>5
      <4> QED
        BY <3>1, <4>1
    <3>2. CASE x # y
      <4>1. x < y
        BY <2>7, <3>2
      <4> DEFINE j == gs[x].last
                 k == gs[y].last
      <4>2. j < gs[y].first
        BY <2>2, <4>1 DEF GroupsTo, l
      <4>3. j \in 1..Len(hs) /\ k \in 1..Len(hs) /\ gs[y].first \in 1..Len(hs) /\ gs[y].first <= k
        BY <2>6
      <4>4. j + 1 \in 1..Len(hs) /\ j + 1 <= k
        BY <2>4, <4>2, <4>3, SMTT(20)
      <4>5. ends(x) < lo[j + 1] /\ ends(x) \in Nat
        BY <2>5, <4>4
      <4>6. ends(y) >= hi[k] /\ ends(y) \in Nat
        BY <2>5
      <4> HIDE DEF j, k
      <4> DEFINE i == j + 1
      <4>7. i \in 1..Len(hs) /\ i <= k
        BY <4>4
      <4> HIDE DEF i
      <4>8. lo[i] <= hi[k] /\ lo[i] \in Nat /\ hi[k] \in Nat
        BY <4>3, <4>7, HunksApart
      <4>9. ends(x) < lo[i]
        BY <4>5 DEF i
      <4> QED
        BY <4>5, <4>6, <4>8, <4>9
    <3> QED
      BY <3>1, <3>2
  <2>8. new \in Seq(HunkSpace) /\ Len(new) = l /\ DOMAIN new = 1..l
    <3>1. ASSUME NEW x \in 1..l PROVE new[x] \in HunkSpace
      BY <2>5 DEF TrueHunk
    <3>2. new = [x \in 1..l |-> new[x]]
      BY <2>3, <2>4
    <3>3. new \in [1..l -> HunkSpace]
      BY <3>1, <3>2
    <3> QED
      BY <2>4, <3>3
  <2>9. ASSUME NEW x \in 1..l, NEW y \in 1..l, x < y,
               NEW p \in DOMAIN new[x].body, NEW q \in DOMAIN new[y].body
        PROVE  new[x].body[p].at < new[y].body[q].at
    <3> DEFINE v == y - 1
    <3>1. y # 1 /\ v \in 1..l /\ x <= v
      BY <2>4, <2>9
    <3>2. new[y].body[q].at > ends(v) /\ new[y].body[q].at \in Nat
      BY <2>5, <3>1
    <3>3. new[x].body[p].at <= ends(x) /\ new[x].body[p].at \in Nat /\ ends(x) \in Nat
      BY <2>5
    <3> HIDE DEF v, ends
    <3>4. ends(x) <= ends(v) /\ ends(v) \in Nat
      BY <2>5, <2>7, <3>1
    <3> QED
      BY <3>2, <3>3, <3>4, SMTT(20)
  <2>10. ASSUME NEW h \in DOMAIN hs, NEW p \in DOMAIN hs[h].body
         PROVE  \E y \in DOMAIN new : \E q \in DOMAIN new[y].body :
                  new[y].body[q].at = hs[h].body[p].at
    <3> DEFINE i == hs[h].body[p].at
    <3>1. h \in 1..Len(hs)
      BY DEF Serves
    <3>2. i \in lo[h]..hi[h]
      <4>1. lo[h] \in 1..Len(sc) /\ hi[h] \in lo[h]..Len(sc) /\ hs[h] = ServedHunk(sc, lo[h], hi[h])
        <5>1. lo[h] \in 1..Len(sc) /\ hi[h] \in 1..Len(sc) /\ lo[h] <= hi[h]
              /\ hs[h] = ServedHunk(sc, lo[h], hi[h])
          BY <3>1 DEF Serves
        <5> QED
          BY <5>1
      <4> QED
        BY <4>1, ServedLine
    <3>3. PICK x \in 1..l : h \in gs[x].first..gs[x].last
      BY <2>2, <3>1 DEF GroupsTo, l
    <3> DEFINE f == gs[x].first
               c == gs[x].last
    <3>4. f \in 1..Len(hs) /\ c \in 1..Len(hs) /\ f <= h /\ h <= c
      BY <2>6, <3>3
    <3> HIDE DEF i, f, c
    <3>5. lo[f] <= lo[h] /\ lo[f] \in Nat /\ lo[h] \in Nat
      BY <3>1, <3>4, HunksApart
    <3>6. hi[h] <= hi[c] /\ hi[h] \in Nat /\ hi[c] \in Nat
      BY <3>1, <3>4, HunksApart
    <3>7. i \in lo[f]..hi[c]
      BY <3>2, <3>5, <3>6
    <3>8. \E q \in DOMAIN new[x].body : new[x].body[q].at = i
      BY <2>5, <3>7 DEF f, c
    <3> QED
      BY <2>8, <3>8 DEF i
  <2>11. Shows(sc, new, w)
    BY <2>5, <2>8, <2>9 DEF Shows
  <2>12. CoversAll(new, hs)
    BY <2>10 DEF CoversAll
  <2> QED
    BY <2>11, <2>12
<1> QED
  BY <1>1, <1>2
-------------------------------------------------------------------------------
(* Cutting a hunk *)

\* Lines a to b of a hunk, under a header of their own.
SliceOf(h, a, b) ==
  [os |-> WalkDiff(h, a).old, ol |-> OnOld(SubSeq(h.body, a, b)),
   ns |-> WalkDiff(h, a).new, nl |-> OnNew(SubSeq(h.body, a, b)), body |-> SubSeq(h.body, a, b)]

LEMMA NoneCounted ==
  ASSUME NEW body \in Seq(BodyLines)
  PROVE  /\ (\A p \in DOMAIN body : body[p].op = "a") => OnOld(body) = 0
         /\ (\A p \in DOMAIN body : body[p].op = "d") => OnNew(body) = 0
<1>1. ASSUME \A p \in DOMAIN body : body[p].op = "a" PROVE OnOld(body) = 0
  <2>1. {p \in DOMAIN body : body[p].op # "a"} = {}
    BY <1>1
  <2> QED
    BY <2>1, FS_EmptySet DEF OnOld
<1>2. ASSUME \A p \in DOMAIN body : body[p].op = "d" PROVE OnNew(body) = 0
  <2>1. {p \in DOMAIN body : body[p].op # "d"} = {}
    BY <1>2
  <2> QED
    BY <2>1, FS_EmptySet DEF OnNew
<1> QED
  BY <1>1, <1>2

LEMMA SliceIsTrue ==
  ASSUME NEW sc \in Seq(Ops), NEW h, NEW w, TrueHunk(sc, h, w),
         NEW a \in 1..Len(h.body), NEW b \in a..Len(h.body), NEW r, r = SliceOf(h, a, b)
  PROVE  /\ TrueHunk(sc, r, w) /\ DOMAIN r.body = 1..(b - a + 1)
         /\ \A q \in 1..(b - a + 1) : r.body[q] = h.body[(a - 1) + q] /\ (a - 1) + q \in DOMAIN h.body
<1> DEFINE body == h.body
           s == SubSeq(body, a, b)
           m == b - a + 1
           c == a - 1
<1>1. /\ h \in HunkSpace /\ body \in Seq(BodyLines) /\ h.os \in Int /\ h.ns \in Int
      /\ h.ol = OnOld(body) /\ h.nl = OnNew(body) /\ h.ol \in Nat /\ h.nl \in Nat
      /\ h.os >= (IF h.ol = 0 THEN 0 ELSE 1) /\ h.ns >= (IF h.nl = 0 THEN 0 ELSE 1)
  BY DEF TrueHunk, HunkSpace
<1> DEFINE n == Len(body)
<1>2. /\ n \in Nat /\ DOMAIN body = 1..n /\ a \in Nat /\ b \in Nat /\ m \in Nat /\ c \in Nat
      /\ c + m = b /\ b <= n /\ c + 1 = a
      /\ \A q \in 1..m : c + q \in 1..n
  <2>1. n \in Nat /\ DOMAIN body = 1..n
    <3>1. body \in Seq(BodyLines)
      BY <1>1
    <3> HIDE DEF body
    <3> QED
      BY <3>1
  <2>2. a \in 1..n /\ b \in a..n
    OBVIOUS
  <2> HIDE DEF body, n
  <2>3. a \in Nat /\ b \in Nat /\ b <= n /\ 1 <= a /\ a <= b
    BY <2>1, <2>2
  <2>4. m \in Nat /\ c \in Nat /\ c + m = b /\ c + 1 = a
    BY <2>3
  <2>5. \A q \in 1..m : c + q \in 1..n
    BY <2>1, <2>3
  <2> QED
    BY <2>1, <2>3, <2>4, <2>5
<1>3. s \in Seq(BodyLines) /\ DOMAIN s = 1..m /\ \A q \in 1..m : s[q] = body[c + q]
  <2>1. \A q \in 1..m : a + q - 1 = c + q
    BY <1>2
  <2>2. body \in Seq(BodyLines) /\ DOMAIN body = 1..n /\ n \in Nat
    BY <1>1, <1>2
  <2>3. s \in Seq(BodyLines) /\ Len(s) = m /\ \A q \in 1..m : s[q] = body[a + q - 1]
    <3>1. a \in Nat /\ b \in Nat /\ m \in Nat /\ c + m = b /\ c + 1 = a /\ b <= n
      BY <1>2
    <3>2. a \in Int /\ b \in Int /\ m = b - a + 1
      BY <3>1
    <3> HIDE DEF body, n
    <3>3. a <= b
      OBVIOUS
    <3>4. \A i \in a..b : body[i] \in BodyLines
      <4> HIDE DEF s, m, c
      <4>1. \A i \in a..b : i \in 1..n
        BY <2>2, <3>1
      <4>2. \A i \in DOMAIN body : body[i] \in BodyLines
        BY <2>2
      <4> QED
        BY <2>2, <4>1, <4>2
    <3> HIDE DEF m, c
    <3> QED
      BY <3>2, <3>3, <3>4, SubSeqProperties
  <2> HIDE DEF s, m, c
  <2> QED
    BY <2>1, <2>3
<1> HIDE DEF body, s, m, c, n
<1>4. OnOld(s) \in Nat /\ OnNew(s) \in Nat
  BY <1>3, OnAll
<1>5. /\ r.os = WalkDiff(h, a).old /\ r.ns = WalkDiff(h, a).new
      /\ r.ol = OnOld(s) /\ r.nl = OnNew(s) /\ r.body = s
      /\ r = [os |-> r.os, ol |-> r.ol, ns |-> r.ns, nl |-> r.nl, body |-> r.body]
  BY DEF SliceOf, s, body
<1> DEFINE old == Up(OldIn(body), c)
           new == Up(NewIn(body), c)
<1>6. r.os = h.os + old /\ r.ns = h.ns + new /\ old \in Nat /\ new \in Nat
  <2>1. a \in DOMAIN body /\ a - 1 = c
    BY <1>2
  <2>2. h.body \in Seq(BodyLines) /\ a \in DOMAIN h.body
    BY <1>1, <2>1 DEF body
  <2>3. WalkDiff(h, a).old = h.os + Up(OldIn(h.body), a - 1) /\ WalkDiff(h, a).new = h.ns + Up(NewIn(h.body), a - 1)
    BY <2>2, WalkedNos
  <2>4. old \in Nat /\ new \in Nat
    BY <1>2, UpType
  <2> QED
    BY <1>5, <2>1, <2>3, <2>4 DEF body
<1>7. \A q \in 1..m : /\ c + q \in OldIn(body) <=> q \in OldIn(s)
                      /\ c + q \in NewIn(body) <=> q \in NewIn(s)
  BY <1>2, <1>3 DEF OldIn, NewIn
<1>8. ASSUME NEW q \in 1..m
      PROVE  /\ WalkDiff(r, q).old = WalkDiff(h, c + q).old
             /\ WalkDiff(r, q).new = WalkDiff(h, c + q).new
  <2> DEFINE v == q - 1
             p == c + q
  <2>1. v \in Nat /\ v \in 0..m /\ p - 1 = c + v /\ p \in DOMAIN body /\ \A t \in 1..v : t \in 1..m
    BY <1>2
  <2>2. q \in DOMAIN r.body /\ r.body \in Seq(BodyLines)
    BY <1>3, <1>5
  <2>3. WalkDiff(r, q).old = r.os + Up(OldIn(s), v) /\ WalkDiff(r, q).new = r.ns + Up(NewIn(s), v)
    BY <1>5, <2>2, WalkedNos
  <2> HIDE DEF v, p
  <2>4. p \in DOMAIN h.body /\ h.body \in Seq(BodyLines)
    BY <1>1, <2>1 DEF body
  <2>5. WalkDiff(h, p).old = h.os + Up(OldIn(h.body), p - 1) /\ WalkDiff(h, p).new = h.ns + Up(NewIn(h.body), p - 1)
    BY <2>4, WalkedNos
  <2>6. Up(OldIn(body), c + v) = old + Up(OldIn(s), v)
    <3>1. \A t \in 1..v : c + t \in OldIn(body) <=> t \in OldIn(s)
      BY <1>7, <2>1
    <3> QED
      BY <1>2, <2>1, <3>1, UpSum
  <2>7. Up(NewIn(body), c + v) = new + Up(NewIn(s), v)
    <3>1. \A t \in 1..v : c + t \in NewIn(body) <=> t \in NewIn(s)
      BY <1>7, <2>1
    <3> QED
      BY <1>2, <2>1, <3>1, UpSum
  <2>8. Up(OldIn(s), v) \in Nat /\ Up(NewIn(s), v) \in Nat
    BY <2>1, UpType
  <2> DEFINE io == Up(OldIn(s), v)
             jn == Up(NewIn(s), v)
  <2>9. WalkDiff(h, p).old = h.os + (old + io) /\ WalkDiff(h, p).new = h.ns + (new + jn)
    BY <2>1, <2>5, <2>6, <2>7 DEF body
  <2>10. WalkDiff(r, q).old = (h.os + old) + io /\ WalkDiff(r, q).new = (h.ns + new) + jn
    BY <1>6, <2>3
  <2> HIDE DEF old, new, io, jn
  <2>11. h.os + (old + io) = (h.os + old) + io /\ h.ns + (new + jn) = (h.ns + new) + jn
    BY <1>1, <1>6, <2>8, SMTT(30) DEF io, jn
  <2> QED
    BY <2>9, <2>10, <2>11 DEF p
<1> HIDE DEF old, new
<1>9. r \in HunkSpace
  <2>1. r.os \in Int /\ r.ns \in Int
    BY <1>1, <1>6, SMTT(20)
  <2> QED
    BY <1>3, <1>4, <1>5, <2>1 DEF HunkSpace
<1>10. r.os >= (IF r.ol = 0 THEN 0 ELSE 1) /\ r.ns >= (IF r.nl = 0 THEN 0 ELSE 1)
  <2>1. h.ol = 0 => r.ol = 0
    <3> SUFFICES ASSUME h.ol = 0 PROVE r.ol = 0
      OBVIOUS
    <3>1. \A p \in DOMAIN body : body[p].op = "a"
      BY <1>1, CountsNone
    <3>2. \A q \in DOMAIN s : s[q].op = "a"
      BY <1>2, <1>3, <3>1
    <3> QED
      BY <1>3, <1>5, <3>2, NoneCounted
  <2>2. h.nl = 0 => r.nl = 0
    <3> SUFFICES ASSUME h.nl = 0 PROVE r.nl = 0
      OBVIOUS
    <3>1. \A p \in DOMAIN body : body[p].op = "d"
      BY <1>1, CountsNone
    <3>2. \A q \in DOMAIN s : s[q].op = "d"
      BY <1>2, <1>3, <3>1
    <3> QED
      BY <1>3, <1>5, <3>2, NoneCounted
  <2>3. r.os >= h.os /\ r.ns >= h.ns /\ r.os \in Int /\ r.ns \in Int
    BY <1>1, <1>6, SMTT(30)
  <2> QED
    BY <1>1, <2>1, <2>2, <2>3, SMTT(20)
<1>11. ASSUME NEW q \in 1..m
       PROVE  /\ s[q].at \in 1..Len(sc) /\ s[q].op = sc[s[q].at]
              /\ w \/ s[q].op # "k" => TrulyAt(sc, r, q)
  <2> DEFINE p == c + q
  <2>1. p \in DOMAIN h.body /\ s[q] = h.body[p]
    BY <1>2, <1>3 DEF body
  <2>2. /\ h.body[p].at \in 1..Len(sc) /\ h.body[p].op = sc[h.body[p].at]
        /\ w \/ h.body[p].op # "k" => TrulyAt(sc, h, p)
    BY <2>1 DEF TrueHunk
  <2>3. WalkDiff(r, q).old = WalkDiff(h, p).old /\ WalkDiff(r, q).new = WalkDiff(h, p).new
    BY <1>8
  <2> HIDE DEF p
  <2>4. TrulyAt(sc, h, p) => TrulyAt(sc, r, q)
    BY <1>5, <2>1, <2>3 DEF TrulyAt
  <2> QED
    BY <2>1, <2>2, <2>4
<1>12. ASSUME NEW p \in 1..m, NEW q \in 1..m, p < q PROVE s[p].at < s[q].at
  <2> DEFINE i == c + p
             j == c + q
  <2>1. i \in DOMAIN h.body /\ j \in DOMAIN h.body /\ i < j /\ s[p] = h.body[i] /\ s[q] = h.body[j]
    <3>1. c + p \in 1..n /\ c + q \in 1..n /\ p \in Nat /\ q \in Nat
      BY <1>2
    <3>2. i < j
      BY <1>2, <1>12, <3>1
    <3> QED
      BY <1>2, <1>3, <3>1, <3>2 DEF body
  <2> HIDE DEF i, j
  <2>2. h.body[i].at < h.body[j].at
    BY <2>1 DEF TrueHunk
  <2> QED
    BY <2>1, <2>2
<1>13. TrueHunk(sc, r, w)
  BY <1>3, <1>5, <1>9, <1>10, <1>11, <1>12 DEF TrueHunk
<1>14. \A q \in 1..m : s[q] = h.body[c + q] /\ c + q \in DOMAIN h.body
  BY <1>2, <1>3 DEF body
<1> QED
  BY <1>3, <1>5, <1>13, <1>14 DEF m, c

\* A list with one hunk replaced by two.
Spliced(hs, x, u, v) == SubSeq(hs, 1, x - 1) \o <<u, v>> \o SubSeq(hs, x + 1, Len(hs))

SplicedAs(H, hs, x, u, v, new) ==
  /\ new \in Seq(H) /\ Len(new) = Len(hs) + 1 /\ DOMAIN new = 1..(Len(hs) + 1)
  /\ new[x] = u /\ new[x + 1] = v
  /\ \A y \in 1..(x - 1) : new[y] = hs[y]
  /\ \A y \in (x + 2)..(Len(hs) + 1) : new[y] = hs[y - 1]

LEMMA SplicedIs ==
  ASSUME NEW H, NEW hs \in Seq(H), NEW x \in 1..Len(hs), NEW u \in H, NEW v \in H,
         NEW new, new = Spliced(hs, x, u, v)
  PROVE  SplicedAs(H, hs, x, u, v, new)
<1> DEFINE n == Len(hs)
           s == SubSeq(hs, 1, x - 1)
           t == SubSeq(hs, x + 1, n)
           two == <<u, v>>
           b == x - 1
<1>1. n \in Nat /\ x \in Nat /\ b \in Nat /\ b + 1 = x /\ x <= n
  OBVIOUS
<1>2. s \in Seq(H) /\ Len(s) = b /\ \A y \in 1..b : s[y] = hs[y]
  <2>1. \A i \in 1..(x - 1) : hs[i] \in H
    OBVIOUS
  <2>2. 1 \in Int /\ x - 1 \in Int
    BY <1>1
  <2>3. /\ s \in Seq(H) /\ Len(s) = IF 1 <= x - 1 THEN (x - 1) - 1 + 1 ELSE 0
        /\ \A i \in 1..((x - 1) - 1 + 1) : s[i] = hs[1 + i - 1]
    BY <2>1, <2>2, SubSeqProperties
  <2>4. (x - 1) - 1 + 1 = b /\ \A i \in 1..b : 1 + i - 1 = i
    BY <1>1
  <2> HIDE DEF s
  <2> QED
    BY <1>1, <2>3, <2>4
<1>3. t \in Seq(H) /\ Len(t) = n - x /\ \A y \in 1..(n - x) : t[y] = hs[x + y]
  <2>1. \A i \in (x + 1)..n : hs[i] \in H
    OBVIOUS
  <2>2. x + 1 \in Int /\ n \in Int
    BY <1>1
  <2>3. /\ t \in Seq(H) /\ Len(t) = IF x + 1 <= n THEN n - (x + 1) + 1 ELSE 0
        /\ \A i \in 1..(n - (x + 1) + 1) : t[i] = hs[x + 1 + i - 1]
    BY <2>1, <2>2, SubSeqProperties
  <2>4. n - (x + 1) + 1 = n - x /\ \A i \in 1..(n - x) : x + 1 + i - 1 = x + i
    BY <1>1
  <2> HIDE DEF t, n
  <2> QED
    BY <1>1, <2>3, <2>4
<1>4. two \in Seq(H) /\ Len(two) = 2 /\ two[1] = u /\ two[2] = v
  OBVIOUS
<1> DEFINE front == s \o two
<1>5. new = front \o t
  BY DEF Spliced
<1> HIDE DEF s, t, two, n, b
<1>6. /\ front \in Seq(H) /\ Len(front) = b + 2 /\ \A y \in 1..b : front[y] = s[y]
      /\ \A y \in 1..2 : front[b + y] = two[y]
  <2>1. /\ front \in Seq(H) /\ Len(front) = Len(s) + Len(two)
        /\ \A y \in 1..Len(s) : front[y] = s[y]
        /\ \A y \in 1..Len(two) : front[Len(s) + y] = two[y]
    <3>1. s \in Seq(H) /\ two \in Seq(H)
      BY <1>2, <1>4
    <3> QED
      BY <3>1, ConcatProperties
  <2> QED
    BY <1>2, <1>4, <2>1
<1> HIDE DEF front
<1>7. /\ new \in Seq(H) /\ Len(new) = (b + 2) + (n - x) /\ \A y \in 1..(b + 2) : new[y] = front[y]
      /\ \A y \in 1..(n - x) : new[(b + 2) + y] = t[y]
  <2> DEFINE all == front \o t
  <2>1. /\ all \in Seq(H) /\ Len(all) = Len(front) + Len(t)
        /\ \A y \in 1..Len(front) : all[y] = front[y]
        /\ \A y \in 1..Len(t) : all[Len(front) + y] = t[y]
    <3>1. front \in Seq(H) /\ t \in Seq(H)
      BY <1>3, <1>6
    <3> QED
      BY <3>1, ConcatProperties
  <2> HIDE DEF all
  <2>2. new = all
    BY <1>5 DEF all
  <2> QED
    BY <1>3, <1>6, <2>1, <2>2
<1>8. (b + 2) + (n - x) = n + 1 /\ b + 1 = x /\ b + 2 = x + 1
  BY <1>1
<1>9. new[x] = u /\ new[x + 1] = v
  <2>1. 1 \in 1..2 /\ 2 \in 1..2 /\ b + 1 \in 1..(b + 2) /\ b + 2 \in 1..(b + 2)
    BY <1>1
  <2>2. new[b + 1] = u /\ new[b + 2] = v
    BY <1>4, <1>6, <1>7, <2>1
  <2> QED
    BY <1>8, <2>2
<1>10. \A y \in 1..b : new[y] = hs[y]
  <2>1. \A y \in 1..b : y \in 1..(b + 2)
    BY <1>1
  <2> QED
    BY <1>2, <1>6, <1>7, <2>1
<1>11. ASSUME NEW y \in (x + 2)..(n + 1) PROVE new[y] = hs[y - 1]
  <2> DEFINE i == y - (b + 2)
  <2>1. i \in 1..(n - x) /\ (b + 2) + i = y /\ x + i = y - 1
    BY <1>1
  <2> HIDE DEF i
  <2> QED
    BY <1>3, <1>7, <2>1
<1>12. Len(new) = n + 1 /\ DOMAIN new = 1..(n + 1)
  <2>1. new \in Seq(H) /\ Len(new) = n + 1
    BY <1>7, <1>8
  <2> QED
    BY <2>1
<1> QED
  BY <1>7, <1>9, <1>10, <1>11, <1>12 DEF SplicedAs, n, b

CutAt(hs, x, c) == SubSeq(hs, 1, x - 1) \o CutHunk(hs[x], c) \o SubSeq(hs, x + 1, Len(hs))

\* A cut shows the same lines, in the same order, under true headers.
LEMMA CutShows ==
  ASSUME NEW sc \in Seq(Ops), NEW hs, NEW w, Shows(sc, hs, w), NEW x \in 1..Len(hs),
         NEW c \in 1..(Len(hs[x].body) - 1), NEW all, CoversAll(hs, all),
         NEW new, new = CutAt(hs, x, c)
  PROVE  Shows(sc, new, w) /\ CoversAll(new, all)
<1> DEFINE n == Len(hs)
           h == hs[x]
           len == Len(h.body)
           u == SliceOf(h, 1, c)
           b == c + 1
           v == SliceOf(h, b, len)
<1>1. /\ hs \in Seq(HunkSpace) /\ n \in Nat /\ x \in Nat /\ TrueHunk(sc, h, w)
      /\ h.body \in Seq(BodyLines) /\ len \in Nat /\ DOMAIN h.body = 1..len /\ 1 <= x /\ x <= n
  <2>1. hs \in Seq(HunkSpace) /\ TrueHunk(sc, h, w)
    BY DEF Shows
  <2>2. n \in Nat /\ x \in Nat /\ 1 <= x /\ x <= n
    BY <2>1
  <2>3. h.body \in Seq(BodyLines)
    <3> HIDE DEF h
    <3> QED
      BY <2>1 DEF TrueHunk, HunkSpace
  <2> HIDE DEF h, n
  <2>4. len \in Nat /\ DOMAIN h.body = 1..len
    BY <2>3
  <2> QED
    BY <2>1, <2>2, <2>3, <2>4
<1>a. n \in Nat /\ x \in Nat /\ 1 <= x /\ x <= n /\ x \in 1..n
  BY <1>1
<1>b. len \in Nat
  BY <1>1
<1>2. CutHunk(h, c) = <<u, v>>
  BY DEF CutHunk, SliceOf
<1> HIDE DEF h
<1>3. /\ 1 \in 1..Len(h.body) /\ c \in 1..Len(h.body) /\ c \in Nat /\ c < len
      /\ b \in 1..Len(h.body) /\ len \in b..Len(h.body)
  <2>1. c \in 1..(len - 1)
    BY DEF h
  <2> QED
    BY <1>1, <2>1
<1>4. /\ TrueHunk(sc, u, w) /\ DOMAIN u.body = 1..c
      /\ \A q \in 1..c : u.body[q] = h.body[q] /\ q \in DOMAIN h.body
  <2>1. /\ TrueHunk(sc, u, w) /\ DOMAIN u.body = 1..(c - 1 + 1)
        /\ \A q \in 1..(c - 1 + 1) : u.body[q] = h.body[(1 - 1) + q] /\ (1 - 1) + q \in DOMAIN h.body
    <3> HIDE DEF u
    <3> QED
      BY <1>1, <1>3, SliceIsTrue DEF u
  <2>2. c - 1 + 1 = c /\ \A q \in 1..c : (1 - 1) + q = q
    BY <1>3
  <2> HIDE DEF u
  <2> QED
    BY <2>1, <2>2
<1>5. /\ TrueHunk(sc, v, w) /\ DOMAIN v.body = 1..(len - c)
      /\ \A q \in 1..(len - c) : v.body[q] = h.body[c + q] /\ c + q \in DOMAIN h.body
  <2>1. /\ TrueHunk(sc, v, w) /\ DOMAIN v.body = 1..(len - b + 1)
        /\ \A q \in 1..(len - b + 1) : v.body[q] = h.body[(b - 1) + q] /\ (b - 1) + q \in DOMAIN h.body
    <3> HIDE DEF v, b, len
    <3> QED
      BY <1>1, <1>3, SliceIsTrue DEF v
  <2>2. len - b + 1 = len - c /\ b - 1 = c
    BY <1>1, <1>3
  <2> HIDE DEF v, b, len
  <2> QED
    BY <2>1, <2>2
<1> HIDE DEF u, v, len
<1>6. u \in HunkSpace /\ v \in HunkSpace
  BY <1>4, <1>5 DEF TrueHunk
<1>7. /\ new \in Seq(HunkSpace) /\ Len(new) = n + 1 /\ DOMAIN new = 1..(n + 1)
      /\ new[x] = u /\ new[x + 1] = v
      /\ \A y \in 1..(x - 1) : new[y] = hs[y]
      /\ \A y \in (x + 2)..(n + 1) : new[y] = hs[y - 1]
  <2>1. new = Spliced(hs, x, u, v)
    BY <1>2 DEF h, Spliced, CutAt
  <2>2. hs \in Seq(HunkSpace)
    BY <1>1
  <2> HIDE DEF n
  <2>3. x \in 1..Len(hs)
    OBVIOUS
  <2>4. SplicedAs(HunkSpace, hs, x, u, v, new)
    BY <1>6, <2>1, <2>2, <2>3, SplicedIs, Zenon
  <2> QED
    BY <2>4 DEF SplicedAs, n
<1>c. new[x] = u /\ new[x + 1] = v
  BY <1>7
<1> DEFINE from(y) == IF y <= x THEN y ELSE y - 1
           off(y) == IF y = x + 1 THEN c ELSE 0
<1>8. ASSUME NEW y \in 1..(n + 1)
      PROVE  /\ from(y) \in 1..n /\ TrueHunk(sc, new[y], w)
             /\ \A p \in DOMAIN new[y].body :
                  /\ p \in Nat /\ p >= 1
                  /\ off(y) + p \in DOMAIN hs[from(y)].body
                  /\ new[y].body[p] = hs[from(y)].body[off(y) + p]
                  /\ y = x => p <= c
  <2>1. CASE y = x
    <3>1. from(y) = x /\ off(y) = 0 /\ from(y) \in 1..n /\ y # x + 1
      BY <1>a, <2>1
    <3>2. \A p \in 1..c : 0 + p = p /\ p \in Nat /\ p >= 1 /\ p <= c
      BY <1>3
    <3>3. new[y] = u /\ hs[from(y)] = h
      BY <1>c, <2>1, <3>1 DEF h
    <3> HIDE DEF from, off
    <3>4. \A p \in DOMAIN u.body : /\ p \in Nat /\ p >= 1 /\ 0 + p \in DOMAIN h.body
                                  /\ u.body[p] = h.body[0 + p] /\ p <= c
      BY <1>4, <3>2
    <3> QED
      BY <1>4, <3>1, <3>3, <3>4
  <2>2. CASE y = x + 1
    <3>1. from(y) = x /\ off(y) = c /\ from(y) \in 1..n /\ y # x
      BY <1>a, <2>2
    <3>2. \A p \in 1..(len - c) : p \in Nat /\ p >= 1
      BY <1>b, <1>3
    <3>3. new[y] = v /\ hs[from(y)] = h
      BY <1>c, <2>2, <3>1 DEF h
    <3> HIDE DEF from, off
    <3>4. \A p \in DOMAIN v.body : /\ p \in Nat /\ p >= 1 /\ c + p \in DOMAIN h.body
                                  /\ v.body[p] = h.body[c + p]
      BY <1>5, <3>2
    <3> QED
      BY <1>5, <3>1, <3>3, <3>4
  <2>3. CASE y # x /\ y # x + 1
    <3>1. off(y) = 0 /\ from(y) \in 1..n
      BY <1>a, <2>3
    <3>2. new[y] = hs[from(y)]
      <4>1. y \in 1..(x - 1) \/ y \in (x + 2)..(n + 1)
        BY <1>a, <2>3
      <4>2. y \in 1..(x - 1) => from(y) = y
        BY <1>a
      <4>3. y \in (x + 2)..(n + 1) => from(y) = y - 1
        BY <1>a
      <4> HIDE DEF from, off
      <4> QED
        BY <1>7, <4>1, <4>2, <4>3
    <3> HIDE DEF from, off
    <3>3. TrueHunk(sc, hs[from(y)], w)
      BY <3>1 DEF Shows
    <3>4. hs[from(y)].body \in Seq(BodyLines)
      BY <3>3 DEF TrueHunk, HunkSpace
    <3>5. \A p \in DOMAIN hs[from(y)].body : p \in Nat /\ p >= 1 /\ 0 + p = p
      BY <3>4, SMTT(20)
    <3> QED
      BY <2>3, <3>1, <3>2, <3>3, <3>5
  <2> QED
    BY <2>1, <2>2, <2>3
<1>9. ASSUME NEW y \in 1..(n + 1), NEW z \in 1..(n + 1), y < z,
             NEW p \in DOMAIN new[y].body, NEW q \in DOMAIN new[z].body
      PROVE  new[y].body[p].at < new[z].body[q].at
  <2> DEFINE i == from(y)
             j == from(z)
             s == off(y) + p
             t == off(z) + q
  <2>1. i < j \/ (i = x /\ j = x /\ y = x /\ z = x + 1)
    BY <1>a, <1>9
  <2>2. /\ i \in 1..n /\ j \in 1..n /\ s \in DOMAIN hs[i].body /\ t \in DOMAIN hs[j].body
        /\ new[y].body[p] = hs[i].body[s] /\ new[z].body[q] = hs[j].body[t]
        /\ p \in Nat /\ q \in Nat /\ q >= 1 /\ (y = x => p <= c)
    BY <1>8
  <2>3. ASSUME y = x, z = x + 1 PROVE s < t
    <3>1. off(y) = 0 /\ off(z) = c
      BY <1>a, <2>3
    <3>2. p <= c
      BY <2>2, <2>3
    <3> HIDE DEF off
    <3> QED
      BY <1>3, <2>2, <3>1, <3>2
  <2> HIDE DEF i, j, s, t
  <2>4. CASE i < j
    <3>1. hs[i].body[s].at < hs[j].body[t].at
      BY <2>2, <2>4 DEF Shows
    <3> QED
      BY <2>2, <3>1
  <2>5. CASE i = x /\ j = x /\ y = x /\ z = x + 1
    <3>1. h.body[s].at < h.body[t].at
      BY <1>1, <2>2, <2>3, <2>5 DEF TrueHunk, h
    <3> QED
      BY <2>2, <2>5, <3>1 DEF h
  <2> QED
    BY <2>1, <2>4, <2>5
<1>10. Shows(sc, new, w)
  <2>1. new \in Seq(HunkSpace) /\ Len(new) = n + 1
    BY <1>7
  <2>2. \A y \in 1..(n + 1) : TrueHunk(sc, new[y], w)
    BY <1>8
  <2> HIDE DEF n
  <2> QED
    BY <1>9, <2>1, <2>2 DEF Shows
<1> HIDE DEF from, off
<1>11. ASSUME NEW y \in 1..n, NEW q \in DOMAIN hs[y].body
       PROVE  \E z \in 1..(n + 1) : \E p \in DOMAIN new[z].body : new[z].body[p] = hs[y].body[q]
  <2>1. CASE y < x
    <3>1. y \in 1..(x - 1) /\ y \in 1..(n + 1)
      BY <1>a, <2>1
    <3>2. new[y] = hs[y]
      BY <1>7, <3>1
    <3> QED
      BY <3>1, <3>2
  <2>2. CASE y > x
    <3>1. y + 1 \in (x + 2)..(n + 1) /\ y + 1 \in 1..(n + 1) /\ (y + 1) - 1 = y
      BY <1>a, <2>2
    <3>2. new[y + 1] = hs[y]
      BY <1>7, <3>1
    <3> QED
      BY <3>1, <3>2
  <2>3. CASE y = x
    <3>1. q \in 1..len /\ hs[y] = h
      BY <1>1, <2>3 DEF h
    <3>2. CASE q <= c
      <4>1. q \in 1..c /\ x \in 1..(n + 1)
        BY <1>1, <3>1, <3>2
      <4>2. q \in DOMAIN new[x].body /\ new[x].body[q] = h.body[q]
        BY <1>4, <1>7, <4>1
      <4> QED
        BY <3>1, <4>1, <4>2
    <3>3. CASE q > c
      <4> DEFINE p == q - c
      <4>1. p \in 1..(len - c) /\ c + p = q /\ x + 1 \in 1..(n + 1)
        BY <1>1, <1>3, <3>1, <3>3, SMTT(30)
      <4> HIDE DEF p
      <4>2. p \in DOMAIN new[x + 1].body /\ new[x + 1].body[p] = h.body[q]
        BY <1>5, <1>7, <4>1
      <4> QED
        BY <3>1, <4>1, <4>2
    <3> QED
      <4>1. q <= c \/ q > c
        BY <1>b, <1>3, <3>1
      <4> QED
        BY <3>2, <3>3, <4>1
  <2>4. y < x \/ y > x \/ y = x
    BY <1>a
  <2> QED
    BY <2>1, <2>2, <2>3, <2>4
<1>12. CoversAll(new, all)
  <2>1. ASSUME NEW y \in DOMAIN all, NEW p \in DOMAIN all[y].body
        PROVE  \E z \in DOMAIN new : \E q \in DOMAIN new[z].body : new[z].body[q].at = all[y].body[p].at
    <3>1. PICK i \in DOMAIN hs : \E q \in DOMAIN hs[i].body : hs[i].body[q].at = all[y].body[p].at
      BY DEF CoversAll
    <3>2. PICK q \in DOMAIN hs[i].body : hs[i].body[q].at = all[y].body[p].at
      BY <3>1
    <3>3. i \in 1..n
      BY <1>1, <3>1
    <3>4. PICK z \in 1..(n + 1) : \E k \in DOMAIN new[z].body : new[z].body[k] = hs[i].body[q]
      BY <1>11, <3>2, <3>3
    <3>5. z \in DOMAIN new
      BY <1>7
    <3> QED
      BY <3>2, <3>4, <3>5
  <2> QED
    BY <2>1 DEF CoversAll
<1> QED
  BY <1>10, <1>12
-------------------------------------------------------------------------------
(* Every line once, in file order *)

Rises(s) == \A i, j \in DOMAIN s : i < j => s[i] < s[j]

LEMMA ConcatRises ==
  ASSUME NEW a \in Seq(Nat), NEW b \in Seq(Nat), Rises(a), Rises(b),
         \A u \in Range(a), v \in Range(b) : u < v
  PROVE  Rises(a \o b)
<1> DEFINE m == Len(a)
           k == Len(b)
           c == a \o b
<1>1. /\ c \in Seq(Nat) /\ Len(c) = m + k /\ m \in Nat /\ k \in Nat
      /\ \A i \in 1..m : c[i] = a[i]
      /\ \A i \in 1..k : c[m + i] = b[i]
  BY ConcatProperties
<1>2. DOMAIN c = 1..(m + k) /\ DOMAIN a = 1..m /\ DOMAIN b = 1..k
  BY <1>1
<1> HIDE DEF c, m, k
<1>3. ASSUME NEW i \in 1..(m + k), NEW j \in 1..(m + k), i < j PROVE c[i] < c[j]
  <2> DEFINE p == i - m
             q == j - m
  <2>1. CASE j <= m
    <3>1. i \in 1..m /\ j \in 1..m
      BY <1>1, <1>3, <2>1
    <3>2. a[i] < a[j]
      BY <1>2, <1>3, <3>1 DEF Rises
    <3> QED
      BY <1>1, <3>1, <3>2
  <2>2. CASE i <= m /\ j > m
    <3>1. i \in 1..m /\ q \in 1..k /\ m + q = j
      BY <1>1, <2>2
    <3> HIDE DEF q
    <3>2. a[i] \in Range(a) /\ b[q] \in Range(b)
      BY <1>2, <3>1 DEF Range
    <3>3. c[i] = a[i] /\ c[j] = b[q]
      BY <1>1, <3>1
    <3> QED
      BY <3>2, <3>3
  <2>3. CASE i > m
    <3>1. p \in 1..k /\ m + p = i /\ q \in 1..k /\ m + q = j /\ p < q
      BY <1>1, <1>3, <2>3
    <3> HIDE DEF p, q
    <3>2. b[p] < b[q]
      BY <1>2, <3>1 DEF Rises
    <3>3. c[i] = b[p] /\ c[j] = b[q]
      BY <1>1, <3>1
    <3> QED
      BY <3>2, <3>3
  <2> QED
    BY <1>1, <2>1, <2>2, <2>3
<1> QED
  BY <1>2, <1>3 DEF Rises, c

\* Rising sequences, each above the one before, rise end to end.
LEMMA FlattenRises ==
  ASSUME NEW s \in Seq(Seq(Nat)), \A x \in 1..Len(s) : Rises(s[x]),
         \A x, y \in 1..Len(s) : x < y => \A u \in Range(s[x]), v \in Range(s[y]) : u < v
  PROVE  Rises(FlattenSeq(s))
<1> DEFINE n == Len(s)
<1>1. PICK f : Flattened(f, s, Nat) /\ FlattenSeq(s) = f[n]
  BY FlattenIs
<1>2. n \in Nat /\ n \in 0..n /\ \A i \in 1..n : s[i] \in Seq(Nat)
  OBVIOUS
<1>3. f[0] = <<>> /\ \A i \in 1..n : f[i - 1] \in Seq(Nat) /\ f[i] = f[i - 1] \o s[i]
  <2>1. \A i \in 1..n : i - 1 \in 0..n
    BY <1>2
  <2> QED
    BY <1>1, <2>1 DEF Flattened
<1> DEFINE S == {i \in 0..n : Rises(f[i]) /\ \A v \in Range(f[i]) : \E x \in 1..i : v \in Range(s[x])}
<1>4. 0 \in S
  <2>1. Range(<<>>) = {} /\ Rises(<<>>)
    BY DEF Range, Rises
  <2> QED
    BY <1>2, <1>3, <2>1
<1>5. ASSUME NEW i \in 1..n, i - 1 \in S PROVE i \in S
  <2>1. f[i - 1] \in Seq(Nat) /\ s[i] \in Seq(Nat) /\ f[i] = f[i - 1] \o s[i]
    BY <1>2, <1>3
  <2>2. Range(f[i]) = Range(f[i - 1]) \cup Range(s[i])
    BY <2>1, RangeConcat
  <2>3. Rises(f[i - 1]) /\ \A v \in Range(f[i - 1]) : \E x \in 1..(i - 1) : v \in Range(s[x])
    BY <1>5
  <2>4. \A x \in 1..(i - 1) : x \in 1..n /\ x < i /\ x \in 1..i
    BY <1>2
  <2>5. \A u \in Range(f[i - 1]), v \in Range(s[i]) : u < v
    BY <2>3, <2>4
  <2>6. Rises(s[i])
    OBVIOUS
  <2>7. Rises(f[i])
    BY <2>1, <2>3, <2>5, <2>6, ConcatRises
  <2>8. i \in 1..i /\ i \in 0..n
    BY <1>2
  <2>9. \A v \in Range(f[i]) : \E x \in 1..i : v \in Range(s[x])
    BY <2>2, <2>3, <2>4, <2>8
  <2> QED
    BY <2>7, <2>8, <2>9
<1>6. n \in S
  <2> HIDE DEF S
  <2>1. 0..n \subseteq S
    BY <1>2, <1>4, <1>5, UpTo
  <2> QED
    BY <1>2, <2>1
<1> QED
  BY <1>1, <1>6

\* The places of the lines shown.
PlacesOf(h) == [p \in DOMAIN h.body |-> h.body[p].at]
AllPlaces(hs) == FlattenSeq([x \in DOMAIN hs |-> [p \in DOMAIN hs[x].body |-> hs[x].body[p].at]])

LEMMA PlacesRise ==
  ASSUME NEW sc \in Seq(Ops), NEW hs, NEW w, Shows(sc, hs, w)
  PROVE  /\ Rises(AllPlaces(hs)) /\ AllPlaces(hs) \in Seq(Nat)
         /\ Range(AllPlaces(hs)) = {i \in Nat : \E x \in DOMAIN hs : \E p \in DOMAIN hs[x].body : hs[x].body[p].at = i}
<1> DEFINE s == [x \in DOMAIN hs |-> PlacesOf(hs[x])]
           n == Len(hs)
<1>1. hs \in Seq(HunkSpace) /\ \A x \in 1..n : TrueHunk(sc, hs[x], w)
  BY DEF Shows
<1>2. n \in Nat /\ DOMAIN hs = 1..n
  BY <1>1
<1>3. ASSUME NEW h, TrueHunk(sc, h, w)
      PROVE  PlacesOf(h) \in Seq(Nat) /\ Rises(PlacesOf(h))
             /\ Range(PlacesOf(h)) = {i \in Nat : \E p \in DOMAIN h.body : h.body[p].at = i}
  <2>1. h.body \in Seq(BodyLines)
    BY <1>3 DEF TrueHunk, HunkSpace
  <2>2. DOMAIN h.body = 1..Len(h.body) /\ Len(h.body) \in Nat
    BY <2>1
  <2>3. \A p \in DOMAIN h.body : h.body[p].at \in Nat
    BY <1>3 DEF TrueHunk
  <2>4. PlacesOf(h) \in [1..Len(h.body) -> Nat]
    BY <2>2, <2>3 DEF PlacesOf
  <2>5. DOMAIN PlacesOf(h) = DOMAIN h.body /\ \A p \in DOMAIN h.body : PlacesOf(h)[p] = h.body[p].at
    BY DEF PlacesOf
  <2>6. PlacesOf(h) \in Seq(Nat)
    BY <2>2, <2>4
  <2>7. Rises(PlacesOf(h))
    BY <1>3, <2>5 DEF Rises, TrueHunk
  <2>8. Range(PlacesOf(h)) = {i \in Nat : \E p \in DOMAIN h.body : h.body[p].at = i}
    BY <2>3, <2>5 DEF Range
  <2> QED
    BY <2>6, <2>7, <2>8
<1>4. s \in Seq(Seq(Nat)) /\ Len(s) = n /\ \A x \in 1..n : s[x] = PlacesOf(hs[x])
  <2>1. s \in [1..n -> Seq(Nat)]
    BY <1>1, <1>2, <1>3
  <2>2. \A x \in 1..n : s[x] = PlacesOf(hs[x])
    BY <1>2
  <2> HIDE DEF s
  <2> QED
    BY <1>2, <2>1, <2>2
<1>5. AllPlaces(hs) = FlattenSeq(s)
  BY DEF AllPlaces, PlacesOf
<1> HIDE DEF s, n
<1>6. \A x \in 1..n : Range(s[x]) = {i \in Nat : \E p \in DOMAIN hs[x].body : hs[x].body[p].at = i}
  <2>1. ASSUME NEW x \in 1..n
        PROVE  Range(s[x]) = {i \in Nat : \E p \in DOMAIN hs[x].body : hs[x].body[p].at = i}
    <3>1. s[x] = PlacesOf(hs[x])
      BY <1>4
    <3>2. TrueHunk(sc, hs[x], w)
      BY <1>1 DEF n
    <3>3. Range(PlacesOf(hs[x])) = {i \in Nat : \E p \in DOMAIN hs[x].body : hs[x].body[p].at = i}
      BY <1>3, <3>2
    <3> QED
      BY <3>1, <3>3
  <2> QED
    BY <2>1
<1>7. \A x \in 1..Len(s) : Rises(s[x])
  BY <1>1, <1>3, <1>4
<1>8. ASSUME NEW x \in 1..Len(s), NEW y \in 1..Len(s), x < y, NEW u \in Range(s[x]), NEW v \in Range(s[y])
      PROVE  u < v
  <2>1. x \in 1..n /\ y \in 1..n
    BY <1>4
  <2>2. PICK p \in DOMAIN hs[x].body : hs[x].body[p].at = u
    BY <1>6, <2>1
  <2>3. PICK q \in DOMAIN hs[y].body : hs[y].body[q].at = v
    BY <1>6, <2>1
  <2>4. hs[x].body[p].at < hs[y].body[q].at
    BY <1>8, <2>1 DEF Shows, n
  <2> QED
    BY <2>2, <2>3, <2>4
<1>9. Rises(FlattenSeq(s))
  BY <1>4, <1>7, <1>8, FlattenRises
<1>10. FlattenSeq(s) \in Seq(Nat)
  BY <1>4, FlattenType
<1>11. Range(FlattenSeq(s)) = UNION {Range(s[x]) : x \in 1..Len(s)}
  BY <1>4, FlattenRange
<1>12. UNION {Range(s[x]) : x \in 1..n}
         = {i \in Nat : \E x \in 1..n : \E p \in DOMAIN hs[x].body : hs[x].body[p].at = i}
  BY <1>6
<1> QED
  BY <1>2, <1>4, <1>5, <1>9, <1>10, <1>11, <1>12

\* What is shown true, with all that was served, has the properties.
LEMMA ShownLinesAreTrue ==
  ASSUME script \in Seq(Ops), Shows(script, shown, whole), CoversAll(shown, served)
  PROVE  LinesAreTrue
<1>1. shown \in Seq(HunkSpace) /\ \A x \in 1..Len(shown) : TrueHunk(script, shown[x], whole)
  BY DEF Shows
<1>2. DOMAIN shown = 1..Len(shown)
  BY <1>1
<1>3. LinesBind
  <2>1. ASSUME NEW x \in DOMAIN shown, NEW p \in DOMAIN shown[x].body,
               whole \/ shown[x].body[p].op # "k"
        PROVE  /\ shown[x].body[p].op = script[shown[x].body[p].at]
               /\ TrulyAt(script, shown[x], p)
    BY <1>1, <1>2, <2>1 DEF TrueHunk
  <2>2. \A x \in DOMAIN shown : shown[x].ol = OnOld(shown[x].body) /\ shown[x].nl = OnNew(shown[x].body)
    BY <1>1, <1>2 DEF TrueHunk
  <2> QED
    BY <2>1, <2>2 DEF LinesBind, TrulyAt
<1>4. ShownOnce
  <2> DEFINE at == AllPlaces(shown)
  <2>1. /\ Rises(at) /\ at \in Seq(Nat)
        /\ Range(at) = {i \in Nat : \E x \in DOMAIN shown : \E p \in DOMAIN shown[x].body : shown[x].body[p].at = i}
    BY PlacesRise
  <2> HIDE DEF at
  <2>2. \A i \in 1..(Len(at) - 1) : at[i] < at[i + 1]
    <3>1. ASSUME NEW i \in 1..(Len(at) - 1) PROVE i \in DOMAIN at /\ i + 1 \in DOMAIN at /\ i < i + 1
      BY <2>1
    <3> QED
      BY <2>1, <3>1 DEF Rises
  <2>3. ASSUME NEW x \in DOMAIN served, NEW p \in DOMAIN served[x].body
        PROVE  served[x].body[p].at \in {at[i] : i \in DOMAIN at}
    <3>1. PICK y \in DOMAIN shown : \E q \in DOMAIN shown[y].body : shown[y].body[q].at = served[x].body[p].at
      BY DEF CoversAll
    <3>2. PICK q \in DOMAIN shown[y].body : shown[y].body[q].at = served[x].body[p].at
      BY <3>1
    <3>3. shown[y].body[q].at \in Nat
      BY <1>1, <1>2 DEF TrueHunk
    <3>4. served[x].body[p].at \in Range(at)
      BY <2>1, <3>2, <3>3
    <3> QED
      BY <3>4 DEF Range
  <2>4. \A x \in DOMAIN shown : shown[x].os >= (IF shown[x].ol = 0 THEN 0 ELSE 1)
                                /\ shown[x].ns >= (IF shown[x].nl = 0 THEN 0 ELSE 1)
    BY <1>1, <1>2 DEF TrueHunk
  <2> QED
    BY <2>2, <2>3, <2>4 DEF ShownOnce, at, AllPlaces
<1> QED
  BY <1>3, <1>4 DEF LinesAreTrue
-------------------------------------------------------------------------------
(* From a finding back to the diff *)

\* A line's number on one side, and the lines on it.
TrueNo(sc, i, side) == IF side = "LEFT" THEN OldNo(sc, i) ELSE NewNo(sc, i)
LinesOn(sc, side) == IF side = "LEFT" THEN OldOf(sc) ELSE NewOf(sc)

LEMMA TrueNoIs ==
  ASSUME NEW sc \in Seq(Ops), NEW side, NEW i \in 0..Len(sc)
  PROVE  TrueNo(sc, i, side) = Up(LinesOn(sc, side), i) /\ TrueNo(sc, i, side) \in Nat
<1>1. /\ OldNo(sc, i) = Up(OldOf(sc), i) /\ OldNo(sc, i) \in Nat
      /\ NewNo(sc, i) = Up(NewOf(sc), i) /\ NewNo(sc, i) \in Nat
  BY NosAre
<1> QED
  BY <1>1 DEF TrueNo, LinesOn

LEMMA TrueNoGrows ==
  ASSUME NEW sc \in Seq(Ops), NEW side, NEW i \in 0..Len(sc), NEW j \in 0..Len(sc), i <= j
  PROVE  TrueNo(sc, i, side) <= TrueNo(sc, j, side)
BY NosGrow DEF TrueNo

LEMMA TrueNoRises ==
  ASSUME NEW sc \in Seq(Ops), NEW side, NEW i \in 0..Len(sc), NEW j \in 1..Len(sc), i < j,
         side \in Sides(sc[j])
  PROVE  TrueNo(sc, i, side) < TrueNo(sc, j, side)
<1> DEFINE S == LinesOn(sc, side)
<1>1. sc[j] \in Ops /\ j \in DOMAIN sc /\ i \in Nat /\ j \in Nat /\ j \in 0..Len(sc)
  OBVIOUS
<1>2. j \in S
  BY <1>1 DEF Sides, Ops, LinesOn, OldOf, NewOf
<1>3. TrueNo(sc, i, side) = Up(S, i) /\ TrueNo(sc, j, side) = Up(S, j)
  BY <1>1, TrueNoIs
<1> HIDE DEF S
<1>4. Up(S, i) < Up(S, j)
  BY <1>1, <1>2, UpRises
<1> QED
  BY <1>3, <1>4

\* A number names one line of a side.
LEMMA TrueNoNames ==
  ASSUME NEW sc \in Seq(Ops), NEW side, NEW i \in 1..Len(sc), NEW j \in 1..Len(sc),
         side \in Sides(sc[i]), side \in Sides(sc[j]), TrueNo(sc, i, side) = TrueNo(sc, j, side)
  PROVE  i = j
<1>1. i \in 0..Len(sc) /\ j \in 0..Len(sc)
  OBVIOUS
<1>2. TrueNo(sc, i, side) \in Nat /\ TrueNo(sc, j, side) \in Nat
  BY <1>1, TrueNoIs
<1>3. ~(i < j)
  <2>1. i < j => TrueNo(sc, i, side) < TrueNo(sc, j, side)
    BY <1>1, TrueNoRises
  <2> QED
    BY <1>2, <2>1
<1>4. ~(j < i)
  <2>1. j < i => TrueNo(sc, j, side) < TrueNo(sc, i, side)
    BY <1>1, TrueNoRises
  <2> QED
    BY <1>2, <2>1
<1> QED
  BY <1>3, <1>4

PositionOf(sc, i) ==
  <<IF sc[i] = "a" THEN 0 ELSE OldNo(sc, i), IF sc[i] = "d" THEN 0 ELSE NewNo(sc, i)>>

\* What a line of the diff can be commented by.
NamesLine(sc, c, i) ==
  /\ c.at = i /\ i \in 1..Len(sc) /\ c.op = sc[i] /\ c.side \in Sides(sc[i])
  /\ c.line = TrueNo(sc, i, c.side) /\ Position(c) = PositionOf(sc, i)

LEMMA NamesIs ==
  ASSUME NEW sc \in Seq(Ops), NEW h, TrueHunk(sc, h, TRUE), NEW p \in DOMAIN h.body,
         NEW c \in CommentsOn(h, p)
  PROVE  NamesLine(sc, c, h.body[p].at)
<1> DEFINE i == h.body[p].at
           op == h.body[p].op
<1>1. i \in 1..Len(sc) /\ op = sc[i] /\ TrulyAt(sc, h, p) /\ op \in Ops
  <2>1. i \in 1..Len(sc) /\ op = sc[i] /\ TrulyAt(sc, h, p)
    BY DEF TrueHunk
  <2> QED
    BY <2>1
<1>2. PICK s \in Sides(op) : c = [at |-> i, op |-> op, side |-> s,
                                  line |-> SideNo(WalkDiff(h, p), s), walk |-> WalkDiff(h, p)]
  BY DEF CommentsOn
<1> DEFINE W == WalkDiff(h, p)
<1>3. /\ op # "a" => W.old = OldNo(sc, i)
      /\ op # "d" => W.new = NewNo(sc, i)
  BY <1>1 DEF TrulyAt
<1> HIDE DEF W, i, op
<1>4. c.at = i /\ c.op = op /\ c.side = s /\ c.line = SideNo(W, s) /\ c.walk = W
  BY <1>2 DEF W
<1>5. /\ s = "LEFT" => op # "a"
      /\ s # "LEFT" => op # "d" /\ s = "RIGHT"
      /\ op = "d" => s = "LEFT"
      /\ op = "a" => s # "LEFT"
  BY <1>1 DEF Sides, Ops
<1>6. c.line = TrueNo(sc, i, s)
  BY <1>3, <1>4, <1>5 DEF SideNo, TrueNo
<1>7. Position(c) = PositionOf(sc, i)
  <2>1. CASE op = "k"
    <3>1. W.old = OldNo(sc, i) /\ W.new = NewNo(sc, i)
      BY <1>3, <2>1
    <3>2. Position(c) = <<c.walk.old, c.walk.new>>
      BY <1>4, <2>1 DEF Position
    <3>3. PositionOf(sc, i) = <<OldNo(sc, i), NewNo(sc, i)>>
      BY <1>1, <2>1 DEF PositionOf
    <3> QED
      BY <1>4, <3>1, <3>2, <3>3
  <2>2. CASE op = "d"
    <3>1. Position(c) = <<c.line, 0>>
      BY <1>4, <1>5, <2>2 DEF Position
    <3>2. PositionOf(sc, i) = <<OldNo(sc, i), 0>>
      BY <1>1, <2>2 DEF PositionOf
    <3>3. c.line = OldNo(sc, i)
      BY <1>5, <1>6, <2>2 DEF TrueNo
    <3> QED
      BY <3>1, <3>2, <3>3
  <2>3. CASE op = "a"
    <3>1. Position(c) = <<0, c.line>>
      BY <1>4, <1>5, <2>3 DEF Position
    <3>2. PositionOf(sc, i) = <<0, NewNo(sc, i)>>
      BY <1>1, <2>3 DEF PositionOf
    <3>3. c.line = NewNo(sc, i)
      BY <1>5, <1>6, <2>3 DEF TrueNo
    <3> QED
      BY <3>1, <3>2, <3>3
  <2> QED
    BY <1>1, <2>1, <2>2, <2>3 DEF Ops
<1>8. s \in Sides(sc[i])
  BY <1>1
<1> QED
  BY <1>1, <1>4, <1>6, <1>7, <1>8 DEF NamesLine, i

\* A line of a hunk, by its place.
Holds(hs, x, i) == x \in DOMAIN hs /\ \E p \in DOMAIN hs[x].body : hs[x].body[p].at = i

LEMMA CommentableIs ==
  ASSUME NEW sc \in Seq(Ops), NEW hs, Shows(sc, hs, TRUE), NEW c \in Commentable(hs)
  PROVE  \E i, x : NamesLine(sc, c, i) /\ Holds(hs, x, i)
<1>1. PICK x \in DOMAIN hs : c \in UNION {CommentsOn(hs[x], p) : p \in DOMAIN hs[x].body}
  BY DEF Commentable
<1>2. PICK p \in DOMAIN hs[x].body : c \in CommentsOn(hs[x], p)
  BY <1>1
<1>3. hs \in Seq(HunkSpace)
  BY DEF Shows
<1>4. x \in 1..Len(hs)
  BY <1>3
<1> DEFINE h == hs[x]
<1>5. TrueHunk(sc, h, TRUE) /\ p \in DOMAIN h.body /\ c \in CommentsOn(h, p)
  BY <1>2, <1>4 DEF Shows
<1> HIDE DEF h
<1>6. NamesLine(sc, c, h.body[p].at)
  BY <1>5, NamesIs
<1>7. Holds(hs, x, h.body[p].at)
  BY DEF Holds, h
<1> QED
  BY <1>6, <1>7

\* A line shown true, and a comment that can be put on it.
LineOnSide(sc, hs, x, i, side) ==
  sc \in Seq(Ops) /\ Shows(sc, hs, TRUE) /\ Holds(hs, x, i) /\ side \in Sides(sc[i])
CanBeNamed(sc, hs, i, side) ==
  \E c \in Commentable(hs) : NamesLine(sc, c, i) /\ c.side = side

LEMMA CommentableHas ==
  ASSUME NEW sc, NEW hs, NEW x, NEW i, NEW side, LineOnSide(sc, hs, x, i, side)
  PROVE  CanBeNamed(sc, hs, i, side)
<1>0. sc \in Seq(Ops) /\ Shows(sc, hs, TRUE) /\ Holds(hs, x, i) /\ side \in Sides(sc[i])
  BY DEF LineOnSide
<1> USE <1>0
<1>1. PICK p \in DOMAIN hs[x].body : hs[x].body[p].at = i
  BY DEF Holds
<1> DEFINE h == hs[x]
<1>2. x \in 1..Len(hs) /\ x \in DOMAIN hs
  <2>1. hs \in Seq(HunkSpace)
    BY DEF Shows
  <2> QED
    BY <2>1 DEF Holds
<1>3. TrueHunk(sc, h, TRUE)
  BY <1>2 DEF Shows
<1>4. p \in DOMAIN h.body /\ h.body[p].at = i /\ h.body[p].op = sc[i]
  BY <1>1, <1>3 DEF TrueHunk
<1> HIDE DEF h
<1> DEFINE c == [at |-> h.body[p].at, op |-> h.body[p].op, side |-> side,
                 line |-> SideNo(WalkDiff(h, p), side), walk |-> WalkDiff(h, p)]
<1>5. c \in CommentsOn(h, p) /\ c.side = side
  BY <1>4 DEF CommentsOn
<1> HIDE DEF c
<1>6. NamesLine(sc, c, h.body[p].at)
  BY <1>3, <1>4, <1>5, NamesIs
<1>7. c \in Commentable(hs)
  <2>1. c \in UNION {CommentsOn(hs[x], q) : q \in DOMAIN hs[x].body}
    BY <1>1, <1>5 DEF h
  <2> QED
    BY <1>2, <2>1 DEF Commentable
<1> QED
  BY <1>4, <1>5, <1>6, <1>7 DEF CanBeNamed

\* Every changed line is in a hunk of the diff.
LEMMA ChangedIsHeld ==
  ASSUME NEW sc \in Seq(Ops), NEW hs, NEW lo, NEW hi, Serves(hs, sc, lo, hi), NEW i \in Changed(sc)
  PROVE  \E x : Holds(hs, x, i)
<1>1. PICK x \in 1..Len(hs) : i \in lo[x]..hi[x]
  BY DEF Serves
<1> DEFINE a == lo[x]
           b == hi[x]
           h == hs[x]
           p == i - a + 1
<1>2. /\ a \in 1..Len(sc) /\ b \in 1..Len(sc) /\ a <= b /\ h = ServedHunk(sc, a, b)
      /\ hs \in Seq(HunkSpace)
  BY DEF Serves
<1>3. b \in a..Len(sc) /\ i \in a..b /\ a \in Nat /\ b \in Nat /\ x \in DOMAIN hs
  BY <1>1, <1>2
<1>4. p \in 1..(b - a + 1) /\ a + p - 1 = i
  BY <1>3
<1> HIDE DEF a, b, h, p
<1>5. DOMAIN h.body = 1..(b - a + 1) /\ \A q \in DOMAIN h.body : h.body[q].at = a + q - 1
  BY <1>2, <1>3, ServedIsTrue
<1>6. p \in DOMAIN h.body /\ h.body[p].at = i
  BY <1>4, <1>5
<1> QED
  BY <1>3, <1>6 DEF Holds, h

\* A line's number is in the hunk that holds it and in no other.
LEMMA OneHunk ==
  ASSUME NEW sc \in Seq(Ops), NEW hs, NEW lo, NEW hi, Serves(hs, sc, lo, hi),
         NEW x, NEW i \in 1..Len(sc), Holds(hs, x, i), NEW side \in Sides(sc[i])
  PROVE  HunkForLine(hs, TrueNo(sc, i, side), side) = {x}
<1> DEFINE no(k) == TrueNo(sc, k, side)
           lineNo == no(i)
           start(h) == IF side = "LEFT" THEN h.os ELSE h.ns
           count(h) == IF side = "LEFT" THEN h.ol ELSE h.nl
<1>1. /\ hs \in Seq(HunkSpace) /\ DOMAIN hs = 1..Len(hs) /\ Len(hs) \in Nat
      /\ \A y, z \in 1..Len(hs) : y < z => hi[y] < lo[z]
  <2>1. hs \in Seq(HunkSpace)
    BY DEF Serves
  <2> QED
    BY <2>1 DEF Serves
<1>2. ASSUME NEW y \in 1..Len(hs)
      PROVE  /\ lo[y] \in 1..Len(sc) /\ hi[y] \in 1..Len(sc) /\ lo[y] <= hi[y]
             /\ hs[y] = ServedHunk(sc, lo[y], hi[y])
             /\ lo[y] \in Nat /\ hi[y] \in Nat /\ lo[y] - 1 \in 0..Len(sc) /\ hi[y] \in 0..Len(sc)
  <2>1. /\ lo[y] \in 1..Len(sc) /\ hi[y] \in 1..Len(sc) /\ lo[y] <= hi[y]
        /\ hs[y] = ServedHunk(sc, lo[y], hi[y])
    BY DEF Serves
  <2> QED
    BY <2>1
<1>3. ASSUME NEW y \in 1..Len(hs)
      PROVE  /\ start(hs[y]) <= lineNo /\ lineNo <= start(hs[y]) + count(hs[y]) - 1
               <=> no(lo[y] - 1) < lineNo /\ lineNo <= no(hi[y])
             /\ no(lo[y] - 1) \in Nat /\ no(hi[y]) \in Nat
  <2> DEFINE a == lo[y]
             b == hi[y]
             h == hs[y]
             u == no(a - 1)
             v == no(b)
             s == start(h)
             k == count(h)
  <2>1. a \in 1..Len(sc) /\ b \in a..Len(sc) /\ h = ServedHunk(sc, a, b)
    BY <1>2
  <2> HIDE DEF a, b, h
  <2>2. /\ h.ol = OldNo(sc, b) - OldNo(sc, a - 1) /\ h.nl = NewNo(sc, b) - NewNo(sc, a - 1)
        /\ h.os = IF h.ol = 0 THEN OldNo(sc, a - 1) ELSE OldNo(sc, a - 1) + 1
        /\ h.ns = IF h.nl = 0 THEN NewNo(sc, a - 1) ELSE NewNo(sc, a - 1) + 1
        /\ h \in HunkSpace
    BY <2>1, ServedHunkIs, SMTT(30)
  <2>3. s = (IF k = 0 THEN u ELSE u + 1) /\ k = v - u
    BY <2>2 DEF TrueNo
  <2>4. k \in Nat
    BY <2>2 DEF HunkSpace
  <2>5. u \in Nat /\ v \in Nat /\ lineNo \in Nat
    <3>1. a - 1 \in 0..Len(sc) /\ b \in 0..Len(sc) /\ i \in 0..Len(sc)
      BY <2>1
    <3> QED
      BY <3>1, TrueNoIs
  <2> HIDE DEF u, v, lineNo, s, k
  <2>6. s <= lineNo /\ lineNo <= s + k - 1 <=> u < lineNo /\ lineNo <= v
    BY <2>3, <2>4, <2>5
  <2> QED
    BY <2>5, <2>6 DEF s, k, u, v, a, b, h
<1>4. PICK p \in DOMAIN hs[x].body : hs[x].body[p].at = i
  BY DEF Holds
<1>5. x \in 1..Len(hs)
  BY <1>1 DEF Holds
<1>6. i \in lo[x]..hi[x] /\ i \in Nat
  <2> DEFINE a == lo[x]
             b == hi[x]
             h == hs[x]
  <2>1. a \in 1..Len(sc) /\ b \in a..Len(sc) /\ h = ServedHunk(sc, a, b) /\ p \in DOMAIN h.body
    BY <1>2, <1>4, <1>5
  <2> HIDE DEF a, b, h
  <2>2. h.body[p].at \in a..b
    BY <2>1, ServedLine
  <2> QED
    BY <1>4, <2>2 DEF a, b, h
<1> HIDE DEF start, count
<1>7. no(lo[x] - 1) < lineNo /\ lineNo <= no(hi[x])
  <2>1. lo[x] - 1 \in 0..Len(sc) /\ lo[x] - 1 < i /\ hi[x] \in 0..Len(sc) /\ i <= hi[x] /\ i \in 0..Len(sc)
    BY <1>2, <1>5, <1>6
  <2>2. no(lo[x] - 1) < no(i)
    BY <2>1, TrueNoRises
  <2>3. no(i) <= no(hi[x])
    BY <2>1, TrueNoGrows
  <2> QED
    BY <2>2, <2>3
<1>8. ASSUME NEW y \in 1..Len(hs), no(lo[y] - 1) < lineNo, lineNo <= no(hi[y]) PROVE y = x
  <2>1. lineNo \in Nat /\ i \in 0..Len(sc)
    <3>1. i \in 0..Len(sc)
      OBVIOUS
    <3> QED
      BY <3>1, TrueNoIs
  <2>2. ~(y < x)
    <3> SUFFICES ASSUME y < x PROVE FALSE
      OBVIOUS
    <3>1. hi[y] < lo[x]
      BY <1>1, <1>5
    <3>2. hi[y] \in 0..Len(sc) /\ hi[y] < i
      BY <1>2, <1>5, <1>6, <3>1
    <3>3. no(hi[y]) < no(i)
      BY <3>2, TrueNoRises
    <3>4. no(hi[y]) \in Nat
      BY <1>3
    <3> QED
      BY <1>8, <2>1, <3>3, <3>4
  <2>3. ~(x < y)
    <3> SUFFICES ASSUME x < y PROVE FALSE
      OBVIOUS
    <3>1. hi[x] < lo[y]
      BY <1>1, <1>5
    <3>2. lo[y] - 1 \in 0..Len(sc) /\ i <= lo[y] - 1
      BY <1>2, <1>5, <1>6, <3>1
    <3>3. no(i) <= no(lo[y] - 1)
      BY <2>1, <3>2, TrueNoGrows
    <3>4. no(lo[y] - 1) \in Nat
      BY <1>3
    <3> QED
      BY <1>8, <2>1, <3>3, <3>4
  <2> QED
    BY <1>1, <1>5, <2>2, <2>3
<1> HIDE DEF no, lineNo
<1>9. {y \in DOMAIN hs : start(hs[y]) <= lineNo /\ lineNo <= start(hs[y]) + count(hs[y]) - 1} = {x}
  BY <1>1, <1>3, <1>5, <1>7, <1>8
<1> QED
  BY <1>9 DEF HunkForLine, start, count, lineNo, no
-------------------------------------------------------------------------------
(* What becomes of a finding *)

\* What a model reports of a line it is shown.
Reported(sc, f) ==
  /\ f = [flag |-> f.flag, side |-> f.side, line |-> f.line, drift |-> f.drift,
          quote |-> f.quote, anchored |-> TRUE, quoted |-> f.quoted]
  /\ f.flag \in 1..Len(sc) /\ f.side \in Sides(sc[f.flag]) /\ f.line \in Int
  /\ sc[f.flag] # "k" /\ f.drift = 0 => f.line = TrueNo(sc, f.flag, f.side)
  /\ f.quote = "line" => f.flag \in f.quoted
  /\ f.quote = "lost" => f.quoted = {}
  /\ f.quote \in {"none", "line", "lost"}

\* A changed line, counted right or quoted as no other line reads.
Hits(sc, f) ==
  /\ sc[f.flag] # "k"
  /\ \/ f.quote = "line" /\ f.quoted = {f.flag}
     \/ f.quote # "lost" /\ f.drift = 0

\* What the quote makes of it.
SnappedTo(sc, f) ==
  /\ f.flag \in 1..Len(sc) /\ f.side \in Sides(sc[f.flag])
  /\ Hits(sc, f) => f.line = TrueNo(sc, f.flag, f.side) /\ f.anchored
  /\ f.quote = "lost" => ~f.anchored

LEMMA MatchesAre ==
  ASSUME script \in Seq(Ops), NEW lo, NEW hi, Serves(served, script, lo, hi),
         NEW f, Reported(script, f)
  PROVE  /\ f.quoted = {} => MatchAnchor(f) = {}
         /\ f.quoted = {f.flag} => MatchAnchor(f) \subseteq {TrueNo(script, f.flag, f.side)}
         /\ script[f.flag] # "k" /\ f.flag \in f.quoted =>
              TrueNo(script, f.flag, f.side) \in MatchAnchor(f)
<1>1. Shows(script, served, TRUE)
  BY ServedShows
<1>2. f.quoted = {} => MatchAnchor(f) = {}
  BY DEF MatchAnchor
<1>3. ASSUME f.quoted = {f.flag}, NEW l \in MatchAnchor(f) PROVE l = TrueNo(script, f.flag, f.side)
  <2>1. PICK c \in ChangedLines(served, f.side) : c.at = f.flag /\ l = c.line
    BY <1>3 DEF MatchAnchor
  <2>2. c \in Commentable(served) /\ c.side = f.side
    BY DEF ChangedLines
  <2>3. PICK i, x : NamesLine(script, c, i) /\ Holds(served, x, i)
    BY <1>1, <2>2, CommentableIs
  <2> QED
    BY <2>1, <2>2, <2>3 DEF NamesLine
<1>4. ASSUME script[f.flag] # "k", f.flag \in f.quoted
      PROVE  TrueNo(script, f.flag, f.side) \in MatchAnchor(f)
  <2>1. f.flag \in Changed(script)
    BY <1>4 DEF Reported, Changed
  <2>2. f.side \in Sides(script[f.flag])
    BY DEF Reported
  <2>3. PICK x : Holds(served, x, f.flag)
    BY <2>1, ChangedIsHeld
  <2>a. LineOnSide(script, served, x, f.flag, f.side)
    BY <1>1, <2>2, <2>3 DEF LineOnSide
  <2>b. CanBeNamed(script, served, f.flag, f.side)
    BY <2>a, CommentableHas
  <2>4. PICK c \in Commentable(served) : NamesLine(script, c, f.flag) /\ c.side = f.side
    BY <2>b DEF CanBeNamed
  <2>5. c.at = f.flag /\ c.op = script[f.flag] /\ c.line = TrueNo(script, f.flag, f.side)
    BY <2>4 DEF NamesLine
  <2>6. c \in ChangedLines(served, f.side) /\ c.at \in f.quoted
    BY <1>4, <2>4, <2>5 DEF ChangedLines
  <2> QED
    BY <2>5, <2>6 DEF MatchAnchor
<1> QED
  BY <1>2, <1>3, <1>4

LEMMA NearestIs ==
  ASSUME NEW t \in Nat, NEW lineNo \in Int
  PROVE  NearestMatch({t}, lineNo) = t
<1> DEFINE off(x) == IF x > lineNo THEN x - lineNo ELSE lineNo - x
           S == {x \in {t} : \A y \in {t} : off(x) <= off(y)}
<1>1. S = {t}
  OBVIOUS
<1>2. NearestMatch({t}, lineNo) = Least(S)
  BY DEF NearestMatch
<1>3. Least({t}) \in {t}
  <2>1. {t} \in SUBSET Nat /\ {t} # {}
    OBVIOUS
  <2> QED
    BY <2>1, LeastIs
<1> QED
  BY <1>1, <1>2, <1>3

\* The quote takes a finding to the line it names, or takes it off the diff.
LEMMA SnapOneIs ==
  ASSUME script \in Seq(Ops), NEW lo, NEW hi, Serves(served, script, lo, hi),
         NEW f, Reported(script, f)
  PROVE  SnappedTo(script, SnapOne(f))
<1> DEFINE g == SnapOne(f)
           m == MatchAnchor(f)
           t == TrueNo(script, f.flag, f.side)
<1>1. /\ f.quoted = {} => m = {}
      /\ f.quoted = {f.flag} => m \subseteq {t}
      /\ script[f.flag] # "k" /\ f.flag \in f.quoted => t \in m
  BY MatchesAre
<1>2. t \in Nat
  <2>1. f.flag \in 0..Len(script)
    BY DEF Reported
  <2> QED
    BY <2>1, TrueNoIs
<1>3. /\ f.quote = "none" => g = f
      /\ f.quote # "none" /\ m = {} => g = [f EXCEPT !.anchored = FALSE]
      /\ f.quote # "none" /\ m # {} /\ f.line \in m => g = f
      /\ f.quote # "none" /\ m # {} /\ f.line \notin m => g = [f EXCEPT !.line = NearestMatch(m, f.line)]
  BY DEF SnapOne
<1> HIDE DEF g, m, t
<1> DEFINE l == NearestMatch(m, f.line)
<1>4. /\ f = [flag |-> f.flag, side |-> f.side, line |-> f.line, drift |-> f.drift,
              quote |-> f.quote, anchored |-> TRUE, quoted |-> f.quoted]
      /\ f.flag \in 1..Len(script) /\ f.side \in Sides(script[f.flag]) /\ f.line \in Int
      /\ script[f.flag] # "k" /\ f.drift = 0 => f.line = t
      /\ f.quote = "line" => f.flag \in f.quoted
      /\ f.quote = "lost" => f.quoted = {}
      /\ f.quote \in {"none", "line", "lost"}
  BY DEF Reported, t
<1> HIDE DEF l
<1>5. /\ f.anchored = TRUE
      /\ \A v : LET e == [f EXCEPT !.line = v]
                IN  /\ e.flag = f.flag /\ e.side = f.side /\ e.line = v /\ e.drift = f.drift
                    /\ e.quote = f.quote /\ e.anchored = TRUE /\ e.quoted = f.quoted
      /\ LET e == [f EXCEPT !.anchored = FALSE]
         IN  /\ e.flag = f.flag /\ e.side = f.side /\ e.drift = f.drift
             /\ e.quote = f.quote /\ e.anchored = FALSE /\ e.quoted = f.quoted
  BY <1>4
<1>6. CASE f.quote = "none"
  <2>1. g = f
    BY <1>3, <1>6
  <2> QED
    BY <1>4, <1>5, <1>6, <2>1 DEF SnappedTo, Hits, g, t
<1>7. CASE f.quote = "lost"
  <2>1. g = [f EXCEPT !.anchored = FALSE]
    BY <1>1, <1>3, <1>4, <1>7
  <2>2. g.flag = f.flag /\ g.side = f.side /\ g.quote = f.quote /\ g.anchored = FALSE /\ g.quoted = f.quoted
    BY <1>5, <2>1
  <2>3. ~Hits(script, g)
    BY <1>4, <1>7, <2>2 DEF Hits
  <2> QED
    BY <1>4, <2>2, <2>3 DEF SnappedTo, g
<1>8. CASE f.quote = "line" /\ script[f.flag] = "k"
  <2>1. g = f \/ g = [f EXCEPT !.anchored = FALSE] \/ g = [f EXCEPT !.line = l]
    BY <1>3 DEF l
  <2>2. g.flag = f.flag /\ g.side = f.side /\ g.quote = f.quote
    <3>1. CASE g = f
      BY <3>1
    <3>2. CASE g = [f EXCEPT !.anchored = FALSE]
      BY <1>5, <3>2
    <3>3. CASE g = [f EXCEPT !.line = l]
      BY <1>5, <3>3
    <3> QED
      BY <2>1, <3>1, <3>2, <3>3
  <2> QED
    BY <1>4, <1>8, <2>2 DEF SnappedTo, Hits, g
<1>9. CASE f.quote = "line" /\ script[f.flag] # "k"
  <2>1. t \in m
    BY <1>1, <1>4, <1>9
  <2>2. CASE f.line \in m
    <3>1. g = f
      BY <1>3, <1>9, <2>2
    <3>2. Hits(script, f) => f.line = t
      BY <1>1, <1>4, <2>2 DEF Hits
    <3> QED
      BY <1>4, <1>5, <1>9, <3>1, <3>2 DEF SnappedTo, g, t
  <2>3. CASE f.line \notin m
    <3>1. g = [f EXCEPT !.line = l]
      BY <1>3, <1>9, <2>1, <2>3 DEF l
    <3>2. /\ g.flag = f.flag /\ g.side = f.side /\ g.line = l /\ g.drift = f.drift
          /\ g.quote = f.quote /\ g.anchored = TRUE /\ g.quoted = f.quoted
      BY <1>5, <3>1
    <3>3. Hits(script, g) => f.quoted = {f.flag}
      BY <1>4, <2>1, <2>3, <3>2 DEF Hits
    <3>4. Hits(script, g) => m = {t}
      BY <1>1, <2>1, <3>3
    <3>5. Hits(script, g) => l = t
      BY <1>2, <1>4, <3>4, NearestIs DEF l
    <3> QED
      BY <1>4, <1>9, <3>2, <3>5 DEF SnappedTo, g, t
  <2> QED
    BY <2>2, <2>3
<1> QED
  BY <1>4, <1>6, <1>7, <1>8, <1>9
-------------------------------------------------------------------------------
(* The invariant *)

GeometryInv ==
  /\ script \in Seq(Ops)
  /\ \E lo, hi : Serves(served, script, lo, hi)
  /\ Shows(script, shown, whole) /\ CoversAll(shown, served)
  /\ progress = "reported" => Reported(script, finding)
  /\ progress = "snapped" => SnappedTo(script, finding)
  /\ CommentsLand

LEMMA ContextIs ==
  ASSUME NEW budget \in Budgets, NEW n, n = ContextLines(budget)
  PROVE  n \in Nat /\ TrailingContext(n) \in Nat
<1>1. budget \in Nat /\ PerLine \in Nat /\ PerLine > 0 /\ MaxContext \in Nat /\ Asked \in Nat
  BY GeometryAssumption
<1> DEFINE d == budget \div PerLine
<1>2. d \in Nat
  BY <1>1
<1> HIDE DEF d
<1>3. n \in Nat
  BY <1>1, <1>2 DEF ContextLines, LesserOf, d
<1>4. n \div 4 \in Nat
  BY <1>3
<1> QED
  BY <1>3, <1>4 DEF TrailingContext, GreaterOf

LEMMA GeometryStarts ==
  ASSUME GeometryInit PROVE GeometryInv
<1>1. script \in Seq(Ops)
  <2>1. PICK k \in 1..MaxLines : script \in [1..k -> {"k", "d", "a"}]
    BY DEF GeometryInit, Scripts
  <2>2. k \in Nat
    OBVIOUS
  <2> QED
    BY <2>1, <2>2 DEF Ops
<1>2. PICK u \in Contexts : served = ServedDiff(script, u)
  BY DEF GeometryInit
<1>3. u \in Nat
  BY GeometryAssumption
<1>4. PICK lo, hi : Serves(served, script, lo, hi)
  BY <1>1, <1>2, <1>3, ServedIs
<1>5. shown = served /\ whole = TRUE /\ progress = "served"
  BY DEF GeometryInit
<1>6. Shows(script, shown, whole) /\ CoversAll(shown, served)
  BY <1>1, <1>4, <1>5, ServedShows
<1>7. CommentsLand
  BY <1>5 DEF CommentsLand, QuotedLineIsHit, CommentHasItsHunk
<1> QED
  BY <1>1, <1>4, <1>5, <1>6, <1>7 DEF GeometryInv

LEMMA PadKeeps ==
  ASSUME GeometryInv, PadContext PROVE GeometryInv'
<1>1. PICK budget \in Budgets, ranges \in Ranges, len \in 0..Len(HeadText(script)) :
        LET n == ContextLines(budget)
        IN  /\ shown' = ExpandHunks(served, SubSeq(HeadText(script), 1, len), n,
                                    TrailingContext(n), Spans(ranges))
            /\ whole' = (len = Len(HeadText(script)))
  BY DEF PadContext
<1> DEFINE n == ContextLines(budget)
           after == TrailingContext(n)
           read == SubSeq(HeadText(script), 1, len)
<1>2. shown' = ExpandHunks(served, read, n, after, Spans(ranges)) /\ whole' = (len = Len(HeadText(script)))
  BY <1>1
<1>3. n \in Nat /\ after \in Nat
  <2> HIDE DEF n
  <2> QED
    BY ContextIs DEF n
<1>4. ranges \subseteq Int \X Int
  BY GeometryAssumption
<1>5. script \in Seq(Ops)
  BY DEF GeometryInv
<1>6. PICK lo, hi : Serves(served, script, lo, hi)
  BY DEF GeometryInv
<1>7. ReadUpTo(read, script, len)
  <2>1. HeadText(script) \in Seq(Nat)
    BY <1>5, HeadTextIs
  <2>2. len \in Nat /\ len <= Len(HeadText(script))
    BY <2>1
  <2> QED
    BY <2>2 DEF ReadUpTo
<1> HIDE DEF n, after, read
<1>8. Shows(script, shown', whole') /\ CoversAll(shown', served)
  BY <1>2, <1>3, <1>4, <1>5, <1>6, <1>7, ExpandShows
<1>9. script' = script /\ served' = served /\ progress' = "expanded"
  BY DEF PadContext
<1>10. CommentsLand'
  BY <1>9 DEF CommentsLand, QuotedLineIsHit, CommentHasItsHunk
<1>11. \E a, b : Serves(served', script', a, b)
  BY <1>6, <1>9
<1> QED
  BY <1>5, <1>8, <1>9, <1>10, <1>11 DEF GeometryInv

LEMMA CutKeeps ==
  ASSUME GeometryInv, SplitByBudget PROVE GeometryInv'
<1>1. PICK x \in DOMAIN shown : \E c \in 1..(Len(shown[x].body) - 1) : shown' = CutAt(shown, x, c)
  BY DEF SplitByBudget, CutAt
<1>2. PICK c \in 1..(Len(shown[x].body) - 1) : shown' = CutAt(shown, x, c)
  BY <1>1
<1>3. script \in Seq(Ops) /\ Shows(script, shown, whole) /\ CoversAll(shown, served)
  BY DEF GeometryInv
<1>4. x \in 1..Len(shown)
  <2>1. shown \in Seq(HunkSpace)
    BY <1>3 DEF Shows
  <2> QED
    BY <2>1
<1>5. Shows(script, shown', whole) /\ CoversAll(shown', served)
  BY <1>2, <1>3, <1>4, CutShows
<1>6. script' = script /\ served' = served /\ whole' = whole /\ progress' = "expanded"
  BY DEF SplitByBudget
<1>7. CommentsLand'
  BY <1>6 DEF CommentsLand, QuotedLineIsHit, CommentHasItsHunk
<1>8. \E lo, hi : Serves(served', script', lo, hi)
  BY <1>6 DEF GeometryInv
<1> QED
  BY <1>3, <1>5, <1>6, <1>7, <1>8 DEF GeometryInv

LEMMA ReportKeeps ==
  ASSUME GeometryInv, Report PROVE GeometryInv'
<1> DEFINE Says(h, p) ==
             \E side \in Sides(h.body[p].op), drift \in Drifts, quote \in {"none", "line", "lost"} : \E twins :
               finding' = [flag |-> h.body[p].at, side |-> side,
                           line |-> SideNo(WalkDiff(h, p), side) + drift, drift |-> drift,
                           quote |-> quote, anchored |-> TRUE,
                           quoted |-> IF quote = "line" THEN twins \cup {h.body[p].at} ELSE {}]
<1>0. PICK x \in DOMAIN shown : \E p \in DOMAIN shown[x].body :
        LET lineNo == shown[x].body[p]
        IN  \E side \in Sides(lineNo.op), drift \in Drifts, quote \in {"none", "line", "lost"} :
              LET alike == {c.at : c \in ChangedLines(served, side)} \ {lineNo.at}
                  number == SideNo(WalkDiff(shown[x], p), side) + drift
              IN  /\ number >= 1
                  /\ \E twins \in (IF quote = "line" THEN SUBSET alike ELSE {{}}) :
                       finding' = [flag |-> lineNo.at, side |-> side, line |-> number,
                                   drift |-> drift, quote |-> quote, anchored |-> TRUE,
                                   quoted |-> IF quote = "line" THEN twins \cup {lineNo.at} ELSE {}]
  BY Zenon DEF Report
<1>a. PICK p \in DOMAIN shown[x].body :
        LET lineNo == shown[x].body[p]
        IN  \E side \in Sides(lineNo.op), drift \in Drifts, quote \in {"none", "line", "lost"} :
              LET number == SideNo(WalkDiff(shown[x], p), side) + drift
              IN  \E twins :
                    finding' = [flag |-> lineNo.at, side |-> side, line |-> number,
                                drift |-> drift, quote |-> quote, anchored |-> TRUE,
                                quoted |-> IF quote = "line" THEN twins \cup {lineNo.at} ELSE {}]
  BY <1>0, ZenonT(40)
<1>1. Says(shown[x], p)
  BY <1>a
<1> DEFINE h == shown[x]
           i == h.body[p].at
           op == h.body[p].op
<1>2. script \in Seq(Ops) /\ Shows(script, shown, whole) /\ CoversAll(shown, served)
  BY DEF GeometryInv
<1>3. x \in 1..Len(shown)
  <2>1. shown \in Seq(HunkSpace)
    BY <1>2 DEF Shows
  <2> QED
    BY <2>1
<1>4. TrueHunk(script, h, whole) /\ p \in DOMAIN h.body
  BY <1>2, <1>3 DEF Shows
<1>5. i \in 1..Len(script) /\ op = script[i] /\ (op # "k" => TrulyAt(script, h, p))
  BY <1>4 DEF TrueHunk
<1>6. WalkDiff(h, p).old \in Int /\ WalkDiff(h, p).new \in Int
  <2>1. h.body \in Seq(BodyLines) /\ h.os \in Int /\ h.ns \in Int
    BY <1>4 DEF TrueHunk, HunkSpace
  <2>2. p - 1 \in Nat
    BY <1>4, <2>1
  <2>3. Up(OldIn(h.body), p - 1) \in Nat /\ Up(NewIn(h.body), p - 1) \in Nat
    BY <2>2, UpType
  <2>4. WalkDiff(h, p).old = h.os + Up(OldIn(h.body), p - 1) /\ WalkDiff(h, p).new = h.ns + Up(NewIn(h.body), p - 1)
    BY <1>4, <2>1, WalkedNos
  <2> QED
    BY <2>1, <2>3, <2>4
<1>b. PICK side \in Sides(op), drift \in Drifts, quote \in {"none", "line", "lost"} : \E twins :
        finding' = [flag |-> i, side |-> side, line |-> SideNo(WalkDiff(h, p), side) + drift,
                    drift |-> drift, quote |-> quote, anchored |-> TRUE,
                    quoted |-> IF quote = "line" THEN twins \cup {i} ELSE {}]
  BY <1>1
<1>7. PICK twins :
        finding' = [flag |-> i, side |-> side, line |-> SideNo(WalkDiff(h, p), side) + drift,
                    drift |-> drift, quote |-> quote, anchored |-> TRUE,
                    quoted |-> IF quote = "line" THEN twins \cup {i} ELSE {}]
  BY <1>b
<1> DEFINE W == WalkDiff(h, p)
           no == SideNo(W, side)
           f == finding'
<1>8. /\ op # "k" /\ op # "a" => W.old = OldNo(script, i)
      /\ op # "k" /\ op # "d" => W.new = NewNo(script, i)
  BY <1>5 DEF TrulyAt
<1>9. W.old \in Int /\ W.new \in Int
  BY <1>6
<1>10. f = [flag |-> i, side |-> side, line |-> no + drift, drift |-> drift, quote |-> quote,
            anchored |-> TRUE, quoted |-> IF quote = "line" THEN twins \cup {i} ELSE {}]
  BY <1>7
<1> HIDE DEF h, i, op, W
<1>11. no \in Int /\ drift \in Int
  BY <1>9, GeometryAssumption DEF SideNo
<1>12. op # "k" => no = TrueNo(script, i, side)
  <2>1. op # "k" => /\ side = "LEFT" => op # "a"
                    /\ side # "LEFT" => op # "d"
    <3>1. op \in Ops
      BY <1>2, <1>5
    <3> QED
      BY <3>1 DEF Sides, Ops
  <2> QED
    BY <1>8, <2>1 DEF SideNo, TrueNo
<1> HIDE DEF no, f
<1>13. /\ f.flag = i /\ f.side = side /\ f.line = no + drift /\ f.drift = drift /\ f.quote = quote
       /\ f.quoted = IF quote = "line" THEN twins \cup {i} ELSE {}
       /\ f = [flag |-> f.flag, side |-> f.side, line |-> f.line, drift |-> f.drift,
               quote |-> f.quote, anchored |-> TRUE, quoted |-> f.quoted]
  BY <1>10
<1>14. f.line \in Int /\ (drift = 0 => f.line = no)
  BY <1>11, <1>13
<1>15. Reported(script, f)
  BY <1>5, <1>12, <1>13, <1>14 DEF Reported
<1>16. /\ script' = script /\ served' = served /\ shown' = shown /\ whole' = whole
       /\ progress' = "reported"
  BY DEF Report
<1>17. CommentsLand'
  BY <1>16 DEF CommentsLand, QuotedLineIsHit, CommentHasItsHunk
<1>18. \E lo, hi : Serves(served', script', lo, hi)
  BY <1>16 DEF GeometryInv
<1> QED
  BY <1>2, <1>15, <1>16, <1>17, <1>18 DEF GeometryInv, f

LEMMA SnapKeeps ==
  ASSUME GeometryInv, SnapFindings PROVE GeometryInv'
<1>1. script \in Seq(Ops) /\ Shows(script, shown, whole) /\ CoversAll(shown, served)
  BY DEF GeometryInv
<1>2. PICK lo, hi : Serves(served, script, lo, hi)
  BY DEF GeometryInv
<1>3. Reported(script, finding)
  BY DEF GeometryInv, SnapFindings
<1>4. SnappedTo(script, SnapOne(finding))
  BY <1>1, <1>2, <1>3, SnapOneIs
<1>5. /\ script' = script /\ served' = served /\ shown' = shown /\ whole' = whole
      /\ progress' = "snapped" /\ finding' = SnapOne(finding)
  BY DEF SnapFindings
<1>6. CommentsLand'
  BY <1>5 DEF CommentsLand, QuotedLineIsHit, CommentHasItsHunk
<1>7. \E a, b : Serves(served', script', a, b)
  BY <1>2, <1>5
<1>8. SnappedTo(script', finding')
  BY <1>4, <1>5
<1> QED
  BY <1>1, <1>5, <1>6, <1>7, <1>8 DEF GeometryInv

\* What is posted is where a line of the diff is.
LEMMA PlacedLands ==
  ASSUME GeometryInv, PartitionFindings PROVE CommentsLand'
<1> DEFINE f == finding
           named == {c \in Commentable(served) : c.line = f.line /\ c.side = f.side}
           here == CHOOSE c \in named : TRUE
<1>1. script \in Seq(Ops) /\ SnappedTo(script, f)
  BY DEF GeometryInv, PartitionFindings
<1>2. PICK lo, hi : Serves(served, script, lo, hi)
  BY DEF GeometryInv
<1>3. Shows(script, served, TRUE)
  BY <1>1, <1>2, ServedShows
<1>4. /\ script' = script /\ served' = served /\ finding' = finding
      /\ posted' = IF f.anchored /\ named # {} THEN Position(here) ELSE <<>>
  BY DEF PartitionFindings
<1>5. named # {} => here \in named
  <2> HIDE DEF named
  <2> QED
    BY Zenon
<1> HIDE DEF here
<1>6. ASSUME named # {}
      PROVE  \E i, x : NamesLine(script, here, i) /\ Holds(served, x, i)
  <2>1. here \in Commentable(served)
    BY <1>5, <1>6
  <2> QED
    BY <1>1, <1>3, <2>1, CommentableIs
<1>7. named # {} => here.line = f.line /\ here.side = f.side
  BY <1>5
<1>8. CommentHasItsHunk'
  <2> SUFFICES ASSUME posted' # <<>>
               PROVE  \E x \in DOMAIN served : \E p \in DOMAIN served[x].body :
                         /\ posted' = PositionOf(script, served[x].body[p].at)
                         /\ HunkForLine(served, f.line, f.side) = {x}
    BY <1>4 DEF CommentHasItsHunk, TruePosition, PositionOf
  <2>1. named # {} /\ posted' = Position(here)
    BY <1>4
  <2>2. PICK i, x : NamesLine(script, here, i) /\ Holds(served, x, i)
    BY <1>6, <2>1
  <2>3. i \in 1..Len(script) /\ f.side \in Sides(script[i]) /\ f.line = TrueNo(script, i, f.side)
        /\ posted' = PositionOf(script, i)
    BY <1>7, <2>1, <2>2 DEF NamesLine
  <2>4. PICK p \in DOMAIN served[x].body : x \in DOMAIN served /\ served[x].body[p].at = i
    BY <2>2 DEF Holds
  <2>5. HunkForLine(served, TrueNo(script, i, f.side), f.side) = {x}
    BY <1>1, <1>2, <2>2, <2>3, OneHunk
  <2> QED
    BY <2>3, <2>4, <2>5
<1>9. QuotedLineIsHit'
  <2>1. ASSUME Hits(script, f) PROVE posted' = PositionOf(script, f.flag)
    <3>1. /\ f.line = TrueNo(script, f.flag, f.side) /\ f.anchored
          /\ f.flag \in 1..Len(script) /\ f.side \in Sides(script[f.flag])
      BY <1>1, <2>1 DEF SnappedTo
    <3>2. f.flag \in Changed(script)
      BY <1>1, <2>1, <3>1 DEF Hits, Changed
    <3>3. PICK x : Holds(served, x, f.flag)
      BY <1>1, <1>2, <3>2, ChangedIsHeld
    <3>4. LineOnSide(script, served, x, f.flag, f.side)
      BY <1>1, <1>3, <3>1, <3>3 DEF LineOnSide
    <3>5. CanBeNamed(script, served, f.flag, f.side)
      BY <3>4, CommentableHas
    <3>6. PICK c \in Commentable(served) : NamesLine(script, c, f.flag) /\ c.side = f.side
      BY <3>5 DEF CanBeNamed
    <3>7. c \in named
      BY <3>1, <3>6 DEF NamesLine
    <3>8. named # {} /\ posted' = Position(here)
      BY <1>4, <3>1, <3>7
    <3>9. PICK i, y : NamesLine(script, here, i) /\ Holds(served, y, i)
      BY <1>6, <3>8
    <3>10. i \in 1..Len(script) /\ f.side \in Sides(script[i]) /\ f.line = TrueNo(script, i, f.side)
           /\ posted' = PositionOf(script, i)
      BY <1>7, <3>8, <3>9 DEF NamesLine
    <3>11. i = f.flag
      <4> DEFINE j == f.flag
                 side == f.side
      <4>1. /\ i \in 1..Len(script) /\ j \in 1..Len(script) /\ side \in Sides(script[i])
            /\ side \in Sides(script[j]) /\ TrueNo(script, i, side) = TrueNo(script, j, side)
        BY <3>1, <3>10
      <4> HIDE DEF j, side
      <4>2. i = j
        BY <1>1, <4>1, TrueNoNames
      <4> QED
        BY <4>2 DEF j
    <3> QED
      BY <3>10, <3>11
  <2>2. f.quote = "lost" => posted' = <<>>
    BY <1>1, <1>4 DEF SnappedTo
  <2>3. Hits(script, f) <=> Hits(script, f)'
    BY <1>4 DEF Hits
  <2> QED
    BY <1>4, <2>1, <2>2 DEF QuotedLineIsHit, Hits, TruePosition, PositionOf
<1> QED
  BY <1>8, <1>9 DEF CommentsLand

LEMMA PlaceKeeps ==
  ASSUME GeometryInv, PartitionFindings PROVE GeometryInv'
<1>1. CommentsLand'
  BY PlacedLands
<1>2. /\ script' = script /\ served' = served /\ shown' = shown /\ whole' = whole
      /\ progress' = "placed"
  BY DEF PartitionFindings
<1>3. \E lo, hi : Serves(served', script', lo, hi)
  BY <1>2 DEF GeometryInv
<1> QED
  BY <1>1, <1>2, <1>3 DEF GeometryInv

LEMMA GeometryStutters ==
  ASSUME GeometryInv, UNCHANGED geometryVars PROVE GeometryInv'
<1>1. /\ script' = script /\ served' = served /\ shown' = shown /\ whole' = whole
      /\ progress' = progress /\ finding' = finding /\ posted' = posted
  BY DEF geometryVars
<1>2. CommentsLand'
  BY <1>1 DEF GeometryInv, CommentsLand, QuotedLineIsHit, CommentHasItsHunk, TruePosition
<1> QED
  BY <1>1, <1>2 DEF GeometryInv

\* The hunks served are the script's, those shown carry its numbers and all of
\* its lines that were served, and a finding says what the numbers let it say.
THEOREM GeometryInvariance == GeometrySpec => []GeometryInv
<1>1. GeometryInit => GeometryInv
  BY GeometryStarts
<1>2. GeometryInv /\ [GeometryNext]_geometryVars => GeometryInv'
  <2> SUFFICES ASSUME GeometryInv, [GeometryNext]_geometryVars PROVE GeometryInv'
    OBVIOUS
  <2>1. CASE PadContext
    BY <2>1, PadKeeps
  <2>2. CASE SplitByBudget
    BY <2>2, CutKeeps
  <2>3. CASE Report
    BY <2>3, ReportKeeps
  <2>4. CASE SnapFindings
    BY <2>4, SnapKeeps
  <2>5. CASE PartitionFindings
    BY <2>5, PlaceKeeps
  <2>6. CASE UNCHANGED geometryVars
    BY <2>6, GeometryStutters
  <2> QED
    BY <2>1, <2>2, <2>3, <2>4, <2>5, <2>6 DEF GeometryNext
<1> QED
  BY <1>1, <1>2, PTL DEF GeometrySpec

\* What a model is shown is the diff, once, in file order, under headers that
\* give each of its lines its number in the file (diffbuild.expand_hunks,
\* compress.split_by_budget).
THEOREM NumbersAreTrue == GeometrySpec => []LinesAreTrue
<1>1. GeometryInv => LinesAreTrue
  BY ShownLinesAreTrue DEF GeometryInv
<1> QED
  BY <1>1, GeometryInvariance, PTL

\* A line flagged by its number or by its text gets its comment, and a comment
\* is at a line of the diff, in one hunk (engine._snap_one, hunk_for_line).
THEOREM CommentsAreOnTheirLines == GeometrySpec => []CommentsLand
<1>1. GeometryInv => CommentsLand
  BY DEF GeometryInv
<1> QED
  BY <1>1, GeometryInvariance, PTL
===============================================================================
