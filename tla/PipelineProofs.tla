---------------------------- MODULE PipelineProofs ----------------------------
(***************************************************************************)
(* Theorems about the stages of a review before the fan-out (FilePipeline) *)
(* and after it (FindingPipeline), and about the auditor that is one of    *)
(* these (Retrieval), for any diff, findings, texts and settings.          *)
(*                                                                         *)
(* The provers have no induction over data, but they have the first-order  *)
(* facts it comes from: a set of naturals has a least element, so what     *)
(* holds at zero and from each number to the next holds up to n (UpTo),    *)
(* and a recursive function exists (Recursion, Loop).  What a loop of the  *)
(* code computes is proved from these.                                     *)
(***************************************************************************)
EXTENDS FilePipeline, FindingPipeline, Retrieval, TLAPS, FiniteSetTheorems, SequenceTheorems,
        WellFoundedInduction

-------------------------------------------------------------------------------
(* Choices *)

\* A set of natural numbers has a least one.
LEMMA LeastNatural ==
  ASSUME NEW S \in SUBSET Nat, S # {}
  PROVE  \E x \in S : \A y \in S : x <= y
<1>1. PICK x \in S : \A y \in S : ~(<<y, x>> \in OpToRel(<, Nat))
  BY NatLessThanWellFounded, WFMin, Zenon
<1>2. \A y \in S : ~(y < x)
  BY <1>1 DEF OpToRel
<1> QED
  BY <1>2

\* Those that go before one: the more severe, and of equals the first.
Ahead(S, grade, i) == {j \in S : grade[j] > grade[i] \/ (grade[j] = grade[i] /\ j < i)}

\* Whoever is ahead of another has fewer ahead.
LEMMA AheadShrinks ==
  ASSUME NEW S \in SUBSET Nat, IsFiniteSet(S), NEW grade \in [S -> Nat],
         NEW i \in S, NEW j \in Ahead(S, grade, i)
  PROVE  /\ Ahead(S, grade, j) \subseteq Ahead(S, grade, i)
         /\ Cardinality(Ahead(S, grade, j)) \in Nat
         /\ Cardinality(Ahead(S, grade, i)) \in Nat
         /\ Cardinality(Ahead(S, grade, j)) < Cardinality(Ahead(S, grade, i))
<1> DEFINE A == Ahead(S, grade, i)
           B == Ahead(S, grade, j)
<1>1. j \in S /\ \A k \in S : k \in Nat /\ grade[k] \in Nat
  BY DEF Ahead
<1>2. B \subseteq A /\ j \in A /\ j \notin B
  <2>1. grade[j] > grade[i] \/ (grade[j] = grade[i] /\ j < i)
    BY DEF Ahead
  <2>2. ASSUME NEW k \in B PROVE k \in A
    <3>1. k \in S /\ (grade[k] > grade[j] \/ (grade[k] = grade[j] /\ k < j))
      BY DEF Ahead
    <3>2. grade[k] > grade[i] \/ (grade[k] = grade[i] /\ k < i)
      BY <1>1, <2>1, <3>1
    <3> QED
      BY <3>1, <3>2 DEF Ahead
  <2>3. j \notin B
    BY <1>1 DEF Ahead
  <2> QED
    BY <2>2, <2>3
<1>3. IsFiniteSet(A)
  <2>1. A \subseteq S
    BY DEF Ahead
  <2> HIDE DEF A
  <2> QED BY <2>1, FS_Subset
<1> HIDE DEF A, B
<1>4. IsFiniteSet(B) /\ Cardinality(B) \in Nat /\ Cardinality(A) \in Nat
  BY <1>2, <1>3, FS_Subset, FS_CardinalityType
<1>5. Cardinality(B) < Cardinality(A)
  <2>1. Cardinality(B) <= Cardinality(A) /\ (Cardinality(B) = Cardinality(A) => B = A)
    BY <1>2, <1>3, FS_Subset
  <2> QED
    BY <1>2, <1>4, <2>1
<1> QED
  BY <1>2, <1>4, <1>5 DEF A, B

\* Where one has as many ahead as there is room for, the room is filled
\* (_cap_scans).
LEMMA RoomIsFilled ==
  ASSUME NEW S \in SUBSET Nat, IsFiniteSet(S), NEW grade \in [S -> Nat], NEW room \in Nat,
         NEW late \in S, Cardinality(Ahead(S, grade, late)) >= room
  PROVE  Cardinality({j \in S : Cardinality(Ahead(S, grade, j)) < room}) = room
<1> DEFINE Rank(j) == Cardinality(Ahead(S, grade, j))
           Inside == {j \in S : Rank(j) < room}
<1>1. \A j \in S : Rank(j) \in Nat /\ IsFiniteSet(Ahead(S, grade, j))
  <2>1. \A j \in S : Ahead(S, grade, j) \subseteq S
    BY DEF Ahead
  <2> QED
    BY <2>1, FS_Subset, FS_CardinalityType
<1>2. \A i \in S : \A j \in Ahead(S, grade, i) :
        j \in S /\ Rank(j) < Rank(i) /\ Ahead(S, grade, j) \subseteq Ahead(S, grade, i)
  BY AheadShrinks DEF Ahead
<1>3. \A i, j \in S : i = j \/ i \in Ahead(S, grade, j) \/ j \in Ahead(S, grade, i)
  BY DEF Ahead
<1> HIDE DEF Rank
\* The first of those that are left out.
<1>4. PICK i \in S : /\ Rank(i) >= room
                     /\ \A j \in S : Rank(j) >= room => Rank(i) <= Rank(j)
  <2> DEFINE Ranks == {Rank(j) : j \in {k \in S : Rank(k) >= room}}
  <2>1. Ranks \in SUBSET Nat /\ Ranks # {}
    <3>1. Rank(late) >= room
      BY DEF Rank
    <3> QED
      BY <1>1, <3>1
  <2>2. PICK r \in Ranks : \A s \in Ranks : r <= s
    <3> HIDE DEF Ranks
    <3> QED BY <2>1, LeastNatural
  <2> QED
    BY <2>2
<1>5. Inside = Ahead(S, grade, i)
  <2>1. ASSUME NEW j \in Inside PROVE j \in Ahead(S, grade, i)
    <3>1. j # i /\ ~(Rank(i) < Rank(j))
      BY <1>1, <1>4
    <3> QED
      BY <1>2, <1>3, <1>4, <3>1
  <2>2. ASSUME NEW j \in Ahead(S, grade, i) PROVE j \in Inside
    <3>1. j \in S /\ Rank(j) < Rank(i)
      BY <1>2
    <3> QED
      BY <1>1, <1>4, <3>1
  <2> QED
    BY <2>1, <2>2
<1>6. Cardinality(Inside) = Rank(i)
  BY <1>5 DEF Rank
<1>7. ASSUME room = 0 PROVE Rank(i) = room
  <2>1. ASSUME NEW j \in Inside PROVE FALSE
    <3>1. Rank(j) \in Nat /\ Rank(j) < room
      BY <1>1
    <3> QED
      BY <1>7, <3>1
  <2>2. Inside = {}
    BY <2>1
  <2> QED
    BY <1>6, <1>7, <2>2, FS_EmptySet
<1>8. ASSUME room > 0 PROVE Rank(i) = room
  \* The last of those that are kept.
  <2>1. PICK p \in Inside : \A j \in Inside : Rank(j) <= Rank(p)
    <3> DEFINE Spare == {room - Rank(j) : j \in Inside}
    <3>1. Inside # {}
      <4>1. Cardinality(Inside) # 0
        BY <1>1, <1>4, <1>6, <1>8
      <4> QED
        BY <4>1, FS_EmptySet
    <3>2. Spare \in SUBSET Nat /\ Spare # {}
      <4>1. ASSUME NEW j \in Inside PROVE room - Rank(j) \in Nat
        <5>1. Rank(j) \in Nat /\ Rank(j) < room
          BY <1>1
        <5> QED
          BY <5>1
      <4> QED
        BY <3>1, <4>1
    <3>3. PICK s \in Spare : \A t \in Spare : s <= t
      <4> HIDE DEF Spare
      <4> QED BY <3>2, LeastNatural
    <3>4. PICK p \in Inside : s = room - Rank(p)
      OBVIOUS
    <3>5. ASSUME NEW j \in Inside PROVE Rank(j) <= Rank(p)
      <4>1. room - Rank(p) <= room - Rank(j)
        BY <3>3, <3>4
      <4>2. Rank(j) \in Nat /\ Rank(p) \in Nat
        BY <1>1
      <4> QED
        BY <4>1, <4>2
    <3> QED
      BY <3>5
  <2>2. p \in S /\ p \notin Ahead(S, grade, p) /\ Ahead(S, grade, p) \subseteq Inside
    <3>1. p \in S
      OBVIOUS
    <3>2. p \notin Ahead(S, grade, p)
      BY <1>1, <1>2, <3>1
    <3>3. Ahead(S, grade, p) \subseteq Inside
      BY <1>2, <1>4, <1>5
    <3> QED
      BY <3>1, <3>2, <3>3
  <2>3. ASSUME NEW j \in Inside, j # p PROVE j \in Ahead(S, grade, p)
    <3>1. Rank(j) <= Rank(p) /\ j \in S
      BY <2>1
    <3>2. p \notin Ahead(S, grade, j)
      BY <1>1, <1>2, <2>2, <3>1
    <3> QED
      BY <1>3, <2>2, <2>3, <3>1, <3>2
  <2>4. Inside = Ahead(S, grade, p) \cup {p}
    <3> HIDE DEF Inside
    <3> QED BY <2>1, <2>2, <2>3
  <2>5. Cardinality(Ahead(S, grade, p) \cup {p}) = Rank(p) + 1
    BY <1>1, <2>2, FS_AddElement DEF Rank
  <2>6. Rank(i) = Rank(p) + 1
    <3> HIDE DEF Inside
    <3> QED BY <1>6, <2>4, <2>5
  <2>7. Rank(p) < room
    OBVIOUS
  <2> QED
    BY <1>1, <1>4, <2>2, <2>6, <2>7
<1>9. Cardinality(Inside) = room
  BY <1>6, <1>7, <1>8
<1> QED
  BY <1>9 DEF Rank

-------------------------------------------------------------------------------
(* Loops and recursive functions *)

\* What holds at the start and from one number to the next holds of each up to n.
LEMMA UpTo ==
  ASSUME NEW n \in Nat, NEW S, 0 \in S, \A i \in 1..n : i - 1 \in S => i \in S
  PROVE  0..n \subseteq S
<1> SUFFICES ASSUME (0..n) \ S # {} PROVE FALSE
  OBVIOUS
<1>1. PICK x \in (0..n) \ S : \A y \in (0..n) \ S : x <= y
  <2>1. (0..n) \ S \in SUBSET Nat
    OBVIOUS
  <2> QED
    BY <2>1, LeastNatural
<1>2. x \in 1..n /\ x - 1 \notin (0..n) \ S /\ x - 1 \in 0..n
  BY <1>1
<1> QED
  BY <1>1, <1>2

\* The same where what holds of all the smaller holds of the next.
LEMMA AllUpTo ==
  ASSUME NEW n \in Nat, NEW S,
         \A i \in 0..n : (\A j \in 0..n : j < i => j \in S) => i \in S
  PROVE  0..n \subseteq S
<1> SUFFICES ASSUME (0..n) \ S # {} PROVE FALSE
  OBVIOUS
<1>1. PICK x \in (0..n) \ S : \A y \in (0..n) \ S : x <= y
  <2>1. (0..n) \ S \in SUBSET Nat
    OBVIOUS
  <2> QED
    BY <2>1, LeastNatural
<1>2. \A j \in 0..n : j < x => j \in S
  BY <1>1
<1> QED
  BY <1>1, <1>2

\* A function is defined by what it is at zero and, at any other number, by what
\* it is at a smaller one.
Defined(f, n, V, base, back, step) ==
  f \in [0..n -> V] /\ f[0] = base /\ \A i \in 1..n : f[i] = step[i][f[back[i]]]

LEMMA Recursion ==
  ASSUME NEW n \in Nat, NEW V, NEW base \in V,
         NEW back \in [1..n -> Nat], \A i \in 1..n : back[i] < i,
         NEW step \in [1..n -> [V -> V]]
  PROVE  \E f : Defined(f, n, V, base, back, step)
<1> DEFINE Good(m, f) == f[0] = base /\ \A i \in 1..m : f[i] = step[i][f[back[i]]]
<1> DEFINE S == {m \in 0..n : \E f \in [0..m -> V] : Good(m, f)}
<1>1. 0 \in S
  <2> DEFINE f == [i \in 0..0 |-> base]
  <2>1. f \in [0..0 -> V] /\ Good(0, f)
    OBVIOUS
  <2> HIDE DEF f
  <2> QED
    BY <2>1
<1>2. ASSUME NEW m \in 1..n, m - 1 \in S PROVE m \in S
  <2>1. PICK f \in [0..(m - 1) -> V] : Good(m - 1, f)
    BY <1>2
  <2> DEFINE g == [i \in 0..m |-> IF i = m THEN step[m][f[back[m]]] ELSE f[i]]
  <2>2. f[back[m]] \in V /\ step[m][f[back[m]]] \in V
    <3>1. back[m] \in 0..(m - 1)
      OBVIOUS
    <3>2. f[back[m]] \in V
      BY <2>1, <3>1
    <3>3. step[m] \in [V -> V]
      OBVIOUS
    <3> QED
      BY <3>2, <3>3
  <2>3. g \in [0..m -> V]
    <3>1. ASSUME NEW i \in 0..m PROVE (IF i = m THEN step[m][f[back[m]]] ELSE f[i]) \in V
      <4>1. i # m => i \in 0..(m - 1)
        OBVIOUS
      <4> QED
        BY <2>1, <2>2, <4>1
    <3> QED
      BY <3>1
  <2>4. g[0] = base
    BY <2>1
  <2>5. ASSUME NEW i \in 1..m PROVE g[i] = step[i][g[back[i]]]
    <3>1. g[back[i]] = f[back[i]]
      <4>1. back[i] \in Nat /\ back[i] < i
        OBVIOUS
      <4> QED
        BY <4>1
    <3>2. CASE i = m
      BY <3>1, <3>2
    <3>3. CASE i # m
      <4>1. i \in 1..(m - 1) /\ g[i] = f[i]
        BY <3>3
      <4> QED
        BY <2>1, <3>1, <4>1
    <3> QED
      BY <3>2, <3>3
  <2> HIDE DEF g
  <2>6. Good(m, g)
    BY <2>4, <2>5
  <2>7. m \in 0..n
    OBVIOUS
  <2> QED
    BY <2>3, <2>6, <2>7
<1>3. n \in S
  <2> HIDE DEF S
  <2>1. 0..n \subseteq S
    BY <1>1, <1>2, UpTo
  <2>2. n \in 0..n
    OBVIOUS
  <2> QED
    BY <2>1, <2>2
<1> QED
  BY <1>3 DEF Defined

\* The usual case: by what it is at the number before.
Looped(f, n, V, base, step) ==
  f \in [0..n -> V] /\ f[0] = base /\ \A i \in 1..n : f[i] = step[i][f[i - 1]]

LEMMA Loop ==
  ASSUME NEW n \in Nat, NEW V, NEW base \in V, NEW step \in [1..n -> [V -> V]]
  PROVE  \E f : Looped(f, n, V, base, step)
<1> DEFINE back == [i \in 1..n |-> i - 1]
<1>1. back \in [1..n -> Nat] /\ \A i \in 1..n : back[i] = i - 1
  OBVIOUS
<1>2. \A i \in 1..n : back[i] < i
  OBVIOUS
<1> HIDE DEF back
<1>3. PICK f : Defined(f, n, V, base, back, step)
  BY <1>1, <1>2, Recursion
<1> QED
  BY <1>1, <1>3 DEF Defined, Looped

-------------------------------------------------------------------------------
(* Sums *)

\* What Total computes.
LEMMA TotalIs ==
  ASSUME NEW s \in Seq(Nat)
  PROVE  \E f \in [0..Len(s) -> Nat] :
           /\ f[0] = 0
           /\ \A i \in 1..Len(s) : f[i] = f[i - 1] + s[i]
           /\ Total(s) = f[Len(s)]
<1> DEFINE n == Len(s)
<1>0. n \in Nat /\ n \in 0..n
  OBVIOUS
<1> DEFINE step == [i \in 1..n |-> [v \in Nat |-> v + s[i]]]
<1>1. step \in [1..n -> [Nat -> Nat]]
  OBVIOUS
<1>2. PICK f : Looped(f, n, Nat, 0, step)
  <2> HIDE DEF step, n
  <2> QED
    BY <1>0, <1>1, Loop
<1>3. ASSUME NEW i \in 1..n PROVE f[i] = f[i - 1] + s[i]
  <2>1. i - 1 \in 0..n
    OBVIOUS
  <2>2. f[i - 1] \in Nat
    BY <2>1, <1>2 DEF Looped
  <2> QED
    BY <1>2, <2>2 DEF Looped
<1>4. f = [i \in 0..n |-> IF i = 0 THEN 0 ELSE f[i - 1] + s[i]]
  BY <1>2, <1>3 DEF Looped
<1> DEFINE g == CHOOSE g : g = [i \in 0..n |-> IF i = 0 THEN 0 ELSE g[i - 1] + s[i]]
<1>5. g = [i \in 0..n |-> IF i = 0 THEN 0 ELSE g[i - 1] + s[i]]
  BY <1>4, Zenon
<1>6. Total(s) = g[n]
  BY Zenon DEF Total
<1> HIDE DEF g, n
<1>7. g \in [0..n -> Nat]
  <2> DEFINE S == {i \in 0..n : g[i] = f[i]}
  <2>1. 0 \in S
    BY <1>0, <1>5, <1>2 DEF Looped
  <2>2. ASSUME NEW i \in 1..n, i - 1 \in S PROVE i \in S
    BY <2>2, <1>0, <1>5, <1>3
  <2> HIDE DEF S
  <2>3. 0..n \subseteq S
    BY <2>1, <2>2, <1>0, UpTo
  <2>4. \A i \in 0..n : g[i] = f[i]
    BY <2>3 DEF S
  <2> QED
    BY <2>4, <1>2, <1>5 DEF Looped
<1>8. g[0] = 0 /\ \A i \in 1..n : g[i] = g[i - 1] + s[i]
  BY <1>0, <1>5
<1> QED
  BY <1>6, <1>7, <1>8 DEF n

-------------------------------------------------------------------------------
(* Flattening *)

\* What flattening some of the sequences gives, one more at a time.
Flattened(f, s, A) ==
  /\ f \in [0..Len(s) -> Seq(A)]
  /\ f[0] = <<>>
  /\ \A i \in 1..Len(s) : f[i] = f[i - 1] \o s[i]

LEMMA FlattenIs ==
  ASSUME NEW A, NEW s \in Seq(Seq(A))
  PROVE  \E f : Flattened(f, s, A) /\ FlattenSeq(s) = f[Len(s)]
<1> DEFINE n == Len(s)
<1>0. n \in Nat /\ n \in 0..n /\ \A i \in 1..n : s[i] \in Seq(A)
  OBVIOUS
<1> DEFINE step == [i \in 1..n |-> [v \in Seq(A) |-> v \o s[i]]]
<1>1. step \in [1..n -> [Seq(A) -> Seq(A)]]
  <2>1. ASSUME NEW i \in 1..n, NEW v \in Seq(A) PROVE v \o s[i] \in Seq(A)
    BY <1>0, ConcatProperties
  <2> HIDE DEF n
  <2> QED
    BY <2>1
<1>2. PICK f : Looped(f, n, Seq(A), <<>>, step)
  <2> HIDE DEF step, n
  <2>1. <<>> \in Seq(A)
    OBVIOUS
  <2> QED
    BY <1>0, <1>1, <2>1, Loop
<1> HIDE DEF n, step
<1>3. f \in [0..n -> Seq(A)] /\ f[0] = <<>> /\ \A i \in 1..n : f[i] = f[i - 1] \o s[i]
  <2>1. ASSUME NEW i \in 1..n PROVE f[i] = f[i - 1] \o s[i]
    <3>1. i - 1 \in 0..n
      BY <1>0
    <3>2. f[i - 1] \in Seq(A)
      BY <3>1, <1>2 DEF Looped
    <3> QED
      BY <1>2, <3>2 DEF Looped, step
  <2> QED
    BY <1>2, <2>1 DEF Looped
<1>4. Flattened(f, s, A)
  BY <1>3 DEF Flattened, n
<1>5. CASE n = 0
  BY <1>0, <1>3, <1>4, <1>5 DEF FlattenSeq, n
<1>6. CASE n # 0
  <2> DEFINE h == [i \in 1..n |-> f[i]]
  <2>1. h = [i \in 1..n |-> IF i = 1 THEN s[i] ELSE h[i - 1] \o s[i]]
    <3>1. ASSUME NEW i \in 1..n PROVE h[i] = IF i = 1 THEN s[i] ELSE h[i - 1] \o s[i]
      <4>1. CASE i = 1
        <5>1. f[i] = f[i - 1] \o s[i]
          BY <1>3
        <5>2. i - 1 = 0
          BY <4>1
        <5>3. f[i] = <<>> \o s[i]
          BY <1>3, <5>1, <5>2
        <5> QED
          BY <1>0, <4>1, <5>3, ConcatEmptySeq
      <4>2. CASE i # 1
        <5>1. i - 1 \in 1..n
          BY <1>0, <4>2
        <5>2. h[i - 1] = f[i - 1] /\ h[i] = f[i]
          BY <5>1
        <5> HIDE DEF h
        <5> QED
          BY <1>3, <4>2, <5>2
      <4> QED
        BY <4>1, <4>2
    <3> QED
      BY <3>1
  <2> HIDE DEF h
  <2> DEFINE g == CHOOSE g : g = [i \in 1..n |-> IF i = 1 THEN s[i] ELSE g[i - 1] \o s[i]]
  <2>2. g = [i \in 1..n |-> IF i = 1 THEN s[i] ELSE g[i - 1] \o s[i]]
    BY <2>1, Zenon
  <2>3. FlattenSeq(s) = g[n]
    BY <1>6, Zenon DEF FlattenSeq, n
  <2> HIDE DEF g
  <2> DEFINE S == {0} \cup {i \in 1..n : g[i] = f[i]}
  <2>4. 0 \in S
    OBVIOUS
  <2>5. ASSUME NEW i \in 1..n, i - 1 \in S PROVE i \in S
    <3>1. CASE i = 1
      <4>1. f[i] = <<>> \o s[i]
        <5>1. f[i] = f[i - 1] \o s[i]
          BY <1>3
        <5>2. i - 1 = 0
          BY <3>1
        <5> QED
          BY <1>3, <5>1, <5>2
      <4>2. g[i] = s[i]
        BY <2>2, <3>1
      <4> QED
        BY <1>0, <1>3, <4>1, <4>2, ConcatEmptySeq
    <3>2. CASE i # 1
      <4>1. g[i] = g[i - 1] \o s[i]
        BY <2>2, <3>2
      <4>2. i - 1 # 0
        BY <1>0, <3>2
      <4> QED
        BY <1>3, <2>5, <4>1, <4>2
    <3> QED
      BY <3>1, <3>2
  <2>6. n \in S
    <3> HIDE DEF S
    <3>1. 0..n \subseteq S
      BY <1>0, <2>4, <2>5, UpTo
    <3> QED
      BY <3>1, <1>0
  <2>7. g[n] = f[n]
    BY <1>6, <2>6
  <2> QED
    BY <1>4, <2>3, <2>7 DEF n
<1> QED
  BY <1>5, <1>6

\* Of the functions that flatten a prefix there is one.
LEMMA FlattenedAgree ==
  ASSUME NEW A, NEW s \in Seq(Seq(A)), NEW t \in Seq(Seq(A)), NEW f, NEW g,
         Flattened(f, s, A), Flattened(g, t, A), NEW n \in Nat, n <= Len(s), n <= Len(t),
         \A i \in 1..n : s[i] = t[i]
  PROVE  f[n] = g[n]
<1> DEFINE S == {i \in 0..n : f[i] = g[i]}
<1>1. 0 \in S
  BY DEF Flattened
<1>2. ASSUME NEW i \in 1..n, i - 1 \in S PROVE i \in S
  <2>1. i \in 1..Len(s) /\ i \in 1..Len(t) /\ s[i] = t[i]
    OBVIOUS
  <2>2. f[i - 1] = g[i - 1] /\ i \in 0..n
    BY <1>2
  <2>3. f[i] = f[i - 1] \o s[i]
    BY <2>1 DEF Flattened
  <2>4. g[i] = g[i - 1] \o t[i]
    BY <2>1 DEF Flattened
  <2> QED
    BY <2>1, <2>2, <2>3, <2>4
<1>3. n \in S
  <2> HIDE DEF S
  <2>1. 0..n \subseteq S
    BY <1>1, <1>2, UpTo
  <2>2. n \in 0..n
    OBVIOUS
  <2> QED
    BY <2>1, <2>2
<1> QED
  BY <1>3

LEMMA FlattenType ==
  ASSUME NEW A, NEW s \in Seq(Seq(A))
  PROVE  FlattenSeq(s) \in Seq(A) /\ FlattenSeq(<<>>) = <<>>
<1>1. FlattenSeq(<<>>) = <<>>
  BY DEF FlattenSeq
<1>2. PICK f : Flattened(f, s, A) /\ FlattenSeq(s) = f[Len(s)]
  BY FlattenIs
<1>3. Len(s) \in 0..Len(s)
  OBVIOUS
<1> QED
  BY <1>1, <1>2, <1>3 DEF Flattened

LEMMA FlattenAppend ==
  ASSUME NEW A, NEW s \in Seq(Seq(A)), NEW x \in Seq(A)
  PROVE  FlattenSeq(Append(s, x)) = FlattenSeq(s) \o x
<1> DEFINE t == Append(s, x)
<1>1. t \in Seq(Seq(A)) /\ Len(t) = Len(s) + 1 /\ t[Len(t)] = x
      /\ \A i \in 1..Len(s) : s[i] = t[i]
  OBVIOUS
<1> HIDE DEF t
<1>2. PICK f : Flattened(f, s, A) /\ FlattenSeq(s) = f[Len(s)]
  BY FlattenIs
<1>3. PICK g : Flattened(g, t, A) /\ FlattenSeq(t) = g[Len(t)]
  BY <1>1, FlattenIs
<1>4. f[Len(s)] = g[Len(s)]
  <2>1. Len(s) \in Nat /\ Len(s) <= Len(t)
    BY <1>1
  <2>2. \A i \in 1..Len(s) : s[i] = t[i]
    BY <1>1
  <2>3. Flattened(f, s, A) /\ Flattened(g, t, A) /\ t \in Seq(Seq(A))
    BY <1>1, <1>2, <1>3
  <2> QED
    BY <2>1, <2>2, <2>3, FlattenedAgree, SMTT(30)
<1>5. g[Len(t)] = g[Len(t) - 1] \o t[Len(t)] /\ Len(t) - 1 = Len(s)
  <2>1. Len(t) \in 1..Len(t) /\ Len(t) - 1 = Len(s)
    BY <1>1
  <2> QED
    BY <1>3, <2>1 DEF Flattened
<1> QED
  BY <1>1, <1>2, <1>3, <1>4, <1>5 DEF t

LEMMA FlattenConcat ==
  ASSUME NEW A, NEW s \in Seq(Seq(A)), NEW t \in Seq(Seq(A))
  PROVE  FlattenSeq(s \o t) = FlattenSeq(s) \o FlattenSeq(t)
<1> DEFINE m == Len(s)
           n == Len(t)
           u == s \o t
<1>0. m \in Nat /\ n \in Nat
  OBVIOUS
<1>1. /\ u \in Seq(Seq(A)) /\ Len(u) = m + n
      /\ \A i \in 1..m : s[i] = u[i]
      /\ \A i \in 1..n : u[m + i] = t[i] /\ t[i] \in Seq(A)
  BY ConcatProperties
<1>2. PICK f : Flattened(f, s, A) /\ FlattenSeq(s) = f[m]
  BY FlattenIs
<1>3. PICK g : Flattened(g, t, A) /\ FlattenSeq(t) = g[n]
  BY FlattenIs
<1> HIDE DEF m, n, u
<1>4. PICK h : Flattened(h, u, A) /\ FlattenSeq(u) = h[m + n]
  BY <1>1, FlattenIs
<1>5. h[m] = f[m] /\ f[m] \in Seq(A)
  <2>1. m <= Len(s) /\ m <= Len(u) /\ \A i \in 1..m : u[i] = s[i]
    BY <1>0, <1>1 DEF m
  <2>2. h[m] = f[m]
    <3>1. u \in Seq(Seq(A)) /\ Flattened(f, s, A) /\ Flattened(h, u, A)
      BY <1>1, <1>2, <1>4
    <3> QED
      BY <1>0, <2>1, <3>1, FlattenedAgree
  <2>3. m \in 0..Len(s)
    BY <1>0, <2>1
  <2> QED
    BY <1>2, <2>2, <2>3 DEF Flattened
<1> DEFINE S == {i \in 0..n : h[m + i] = f[m] \o g[i]}
<1>6. 0 \in S
  <2>1. g[0] = <<>>
    BY <1>3 DEF Flattened
  <2>2. m + 0 = m /\ 0 \in 0..n
    BY <1>0
  <2>3. f[m] \o <<>> = f[m]
    BY <1>5, ConcatEmptySeq
  <2>4. h[m + 0] = f[m] \o g[0]
    BY <1>5, <2>1, <2>2, <2>3
  <2> QED
    BY <2>2, <2>4
<1>7. ASSUME NEW i \in 1..n, i - 1 \in S PROVE i \in S
  <2>1. m + i \in 1..Len(u) /\ (m + i) - 1 = m + (i - 1) /\ i \in 1..Len(t) /\ i - 1 \in 0..Len(t)
          /\ i \in 0..n
    BY <1>0, <1>1 DEF n
  <2>2. h[m + i] = h[(m + i) - 1] \o u[m + i]
    BY <1>4, <2>1 DEF Flattened
  <2>3. g[i] = g[i - 1] \o t[i] /\ g[i - 1] \in Seq(A)
    BY <1>3, <2>1 DEF Flattened
  <2>4. h[m + i] = (f[m] \o g[i - 1]) \o t[i]
    BY <1>1, <1>7, <2>1, <2>2
  <2>5. t[i] \in Seq(A)
    BY <1>1
  <2>6. h[m + i] = f[m] \o g[i]
    <3>1. (f[m] \o g[i - 1]) \o t[i] = f[m] \o (g[i - 1] \o t[i])
      <4>1. \A x, y, z \in Seq(A) : (x \o y) \o z = x \o (y \o z)
        BY ConcatAssociative, SMTT(30)
      <4>2. f[m] \in Seq(A) /\ g[i - 1] \in Seq(A) /\ t[i] \in Seq(A)
        BY <1>5, <2>3, <2>5
      <4> QED
        BY <4>1, <4>2
    <3> QED
      BY <2>3, <2>4, <3>1
  <2> QED
    BY <2>1, <2>6
<1>8. n \in S
  <2> HIDE DEF S
  <2>1. 0..n \subseteq S
    BY <1>0, <1>6, <1>7, UpTo
  <2>2. n \in 0..n
    BY <1>0
  <2> QED
    BY <2>1, <2>2
<1> QED
  BY <1>2, <1>3, <1>4, <1>8 DEF u

\* What is in a flattened sequence.
LEMMA RangeConcat ==
  ASSUME NEW A, NEW s \in Seq(A), NEW t \in Seq(A)
  PROVE  Range(s \o t) = Range(s) \cup Range(t)
<1>1. /\ s \o t \in Seq(A) /\ Len(s \o t) = Len(s) + Len(t)
      /\ \A i \in 1..Len(s) : (s \o t)[i] = s[i]
      /\ \A i \in 1..Len(t) : (s \o t)[Len(s) + i] = t[i]
  BY ConcatProperties
<1>2. DOMAIN (s \o t) = 1..(Len(s) + Len(t)) /\ DOMAIN s = 1..Len(s) /\ DOMAIN t = 1..Len(t)
      /\ Len(s) \in Nat /\ Len(t) \in Nat
  BY <1>1, LenProperties
<1>3. ASSUME NEW i \in 1..(Len(s) + Len(t)) PROVE (s \o t)[i] \in Range(s) \cup Range(t)
  <2>1. CASE i <= Len(s)
    BY <1>1, <1>2, <2>1 DEF Range
  <2>2. CASE i > Len(s)
    <3>1. i - Len(s) \in 1..Len(t) /\ i = Len(s) + (i - Len(s))
      BY <1>2, <2>2
    <3>2. (s \o t)[i] = t[i - Len(s)]
      BY <1>1, <3>1
    <3> QED
      BY <1>2, <3>1, <3>2 DEF Range
  <2> QED
    BY <1>2, <2>1, <2>2
<1>4. ASSUME NEW i \in 1..Len(s) PROVE s[i] \in Range(s \o t)
  <2>1. i \in 1..(Len(s) + Len(t))
    BY <1>2
  <2> QED
    BY <1>1, <1>2, <2>1 DEF Range
<1>5. ASSUME NEW i \in 1..Len(t) PROVE t[i] \in Range(s \o t)
  <2>1. Len(s) + i \in 1..(Len(s) + Len(t))
    BY <1>2
  <2> QED
    BY <1>1, <1>2, <2>1 DEF Range
<1> QED
  BY <1>2, <1>3, <1>4, <1>5 DEF Range

LEMMA FlattenRange ==
  ASSUME NEW A, NEW s \in Seq(Seq(A))
  PROVE  Range(FlattenSeq(s)) = UNION {Range(s[i]) : i \in 1..Len(s)}
<1> DEFINE n == Len(s)
<1>1. PICK f : Flattened(f, s, A) /\ FlattenSeq(s) = f[n]
  BY FlattenIs
<1>2. n \in Nat /\ \A i \in 1..n : s[i] \in Seq(A)
  OBVIOUS
<1>3. f[0] = <<>> /\ \A i \in 1..n : f[i - 1] \in Seq(A) /\ f[i] = f[i - 1] \o s[i]
  <2>1. ASSUME NEW i \in 1..n PROVE i - 1 \in 0..n
    BY <1>2
  <2> QED
    BY <1>1, <2>1 DEF Flattened
<1> HIDE DEF n
<1> DEFINE S == {i \in 0..n : Range(f[i]) = UNION {Range(s[j]) : j \in 1..i}}
<1>4. 0 \in S
  <2>1. Range(<<>>) = {}
    BY DEF Range
  <2> QED
    BY <1>2, <1>3, <2>1
<1>5. ASSUME NEW i \in 1..n, i - 1 \in S PROVE i \in S
  <2>1. f[i - 1] \in Seq(A) /\ s[i] \in Seq(A) /\ f[i] = f[i - 1] \o s[i]
    BY <1>2, <1>3
  <2>2. Range(f[i]) = Range(f[i - 1]) \cup Range(s[i])
    BY <2>1, RangeConcat
  <2>3. 1..i = (1..(i - 1)) \cup {i} /\ i \in 0..n
    BY <1>2
  <2>4. Range(f[i - 1]) = UNION {Range(s[j]) : j \in 1..(i - 1)}
    BY <1>5
  <2>5. Range(f[i]) = UNION {Range(s[j]) : j \in 1..i}
    BY <2>2, <2>3, <2>4
  <2> QED
    BY <2>3, <2>5
<1>6. n \in S
  <2> HIDE DEF S
  <2>1. 0..n \subseteq S
    BY <1>2, <1>4, <1>5, UpTo
  <2>2. n \in 0..n
    BY <1>2
  <2> QED
    BY <2>1, <2>2
<1> QED
  BY <1>1, <1>6 DEF n

\* What respects concatenation respects flattening.
Respects(H, A, B) ==
  H \in [Seq(A) -> Seq(B)] /\ H[<<>>] = <<>> /\ \A a, b \in Seq(A) : H[a \o b] = H[a] \o H[b]
Image(H, s, t) == Len(t) = Len(s) /\ \A i \in 1..Len(s) : t[i] = H[s[i]]

LEMMA FlattenImage ==
  ASSUME NEW A, NEW B, NEW H, Respects(H, A, B),
         NEW s \in Seq(Seq(A)), NEW t \in Seq(Seq(B)), Image(H, s, t)
  PROVE  H[FlattenSeq(s)] = FlattenSeq(t)
<1> USE DEF Respects, Image
<1> DEFINE n == Len(s)
<1>1. n \in Nat /\ \A i \in 1..n : s[i] \in Seq(A)
  OBVIOUS
<1>2. t \in Seq(Seq(B)) /\ Len(t) = n /\ \A i \in 1..n : t[i] = H[s[i]]
  OBVIOUS
<1>3. PICK f : Flattened(f, s, A) /\ FlattenSeq(s) = f[n]
  BY FlattenIs
<1>4. PICK g : Flattened(g, t, B) /\ FlattenSeq(t) = g[n]
  BY <1>2, FlattenIs
<1> DEFINE S == {i \in 0..n : H[f[i]] = g[i]}
<1>5. 0 \in S
  <2>1. f[0] = <<>> /\ g[0] = <<>> /\ 0 \in 0..n
    BY <1>3, <1>4 DEF Flattened
  <2> QED
    BY <2>1
<1>6. ASSUME NEW i \in 1..n, i - 1 \in S PROVE i \in S
  <2>1. i \in 1..Len(s) /\ i \in 1..Len(t) /\ i - 1 \in 0..Len(s) /\ H[f[i - 1]] = g[i - 1]
    BY <1>2, <1>6
  <2>2. f[i] = f[i - 1] \o s[i] /\ f[i - 1] \in Seq(A)
    BY <1>3, <2>1 DEF Flattened
  <2>3. g[i] = g[i - 1] \o t[i]
    BY <1>4, <2>1 DEF Flattened
  <2>4. H[f[i]] = g[i]
    BY <1>1, <1>2, <2>1, <2>2, <2>3
  <2> QED
    BY <1>1, <2>4
<1>7. n \in S
  <2> HIDE DEF S, n
  <2>1. 0..n \subseteq S
    BY <1>1, <1>5, <1>6, UpTo
  <2>2. n \in 0..n
    BY <1>1
  <2> QED
    BY <2>1, <2>2
<1> QED
  BY <1>3, <1>4, <1>7

-------------------------------------------------------------------------------
(* Totals and orders *)

LEMMA TotalType ==
  ASSUME NEW s \in Seq(Nat)
  PROVE  Total(s) \in Nat
<1>1. PICK f \in [0..Len(s) -> Nat] : Total(s) = f[Len(s)]
  BY TotalIs
<1>2. Len(s) \in 0..Len(s)
  OBVIOUS
<1> QED
  BY <1>1, <1>2

LEMMA TotalAppend ==
  ASSUME NEW s \in Seq(Nat), NEW x \in Nat
  PROVE  Total(Append(s, x)) = Total(s) + x
<1> DEFINE t == Append(s, x)
           n == Len(s)
<1>0. n \in Nat
  OBVIOUS
<1>1. t \in Seq(Nat) /\ Len(t) = n + 1 /\ t[n + 1] = x /\ \A i \in 1..n : t[i] = s[i]
  OBVIOUS
<1>2. PICK f \in [0..Len(s) -> Nat] :
        f[0] = 0 /\ (\A i \in 1..Len(s) : f[i] = f[i - 1] + s[i]) /\ Total(s) = f[Len(s)]
  BY TotalIs
<1> HIDE DEF t
<1>3. PICK g \in [0..Len(t) -> Nat] :
        g[0] = 0 /\ (\A i \in 1..Len(t) : g[i] = g[i - 1] + t[i]) /\ Total(t) = g[Len(t)]
  BY <1>1, TotalIs
<1> DEFINE S == {i \in 0..n : f[i] = g[i]}
<1>4. 0 \in S
  BY <1>0, <1>2, <1>3
<1>5. ASSUME NEW i \in 1..n, i - 1 \in S PROVE i \in S
  <2>1. i \in 1..Len(t) /\ f[i - 1] = g[i - 1] /\ i \in 0..n
    BY <1>1, <1>5
  <2>2. f[i] = f[i - 1] + s[i] /\ g[i] = g[i - 1] + t[i] /\ s[i] = t[i]
    BY <1>1, <1>2, <1>3, <2>1
  <2> QED
    BY <2>1, <2>2
<1>6. n \in S
  <2> HIDE DEF S, n
  <2>1. 0..n \subseteq S
    BY <1>0, <1>4, <1>5, UpTo
  <2>2. n \in 0..n
    BY <1>0
  <2> QED
    BY <2>1, <2>2
<1>7. g[n + 1] = g[n] + x
  <2>1. n + 1 \in 1..Len(t) /\ (n + 1) - 1 = n
    BY <1>0, <1>1
  <2>2. g[n + 1] = g[(n + 1) - 1] + t[n + 1]
    BY <1>3, <2>1
  <2> QED
    BY <1>1, <2>1, <2>2
<1> QED
  BY <1>1, <1>2, <1>3, <1>6, <1>7 DEF t

LEMMA TotalEmpty == Total(<<>>) = 0
<1>1. <<>> \in Seq(Nat) /\ Len(<<>>) = 0
  OBVIOUS
<1>2. PICK f \in [0..Len(<<>>) -> Nat] : f[0] = 0 /\ Total(<<>>) = f[Len(<<>>)]
  BY <1>1, TotalIs
<1> QED
  BY <1>1, <1>2

LEMMA TotalOne ==
  ASSUME NEW x \in Nat
  PROVE  Total(<<x>>) = x
<1>1. <<x>> = Append(<<>>, x) /\ <<>> \in Seq(Nat)
  OBVIOUS
<1>2. Total(<<x>>) = Total(<<>>) + x
  BY <1>1, TotalAppend
<1> QED
  BY <1>2, TotalEmpty

\* Every file of a set is listed, and no other (stages.filter_files).
LEMMA RangeAppend ==
  ASSUME NEW A, NEW s \in Seq(A), NEW x \in A
  PROVE  Range(Append(s, x)) = Range(s) \cup {x}
<1>1. Append(s, x) = s \o <<x>> /\ <<x>> \in Seq(A)
  OBVIOUS
<1>2. Range(<<x>>) = {x}
  BY DEF Range
<1>3. Range(s \o <<x>>) = Range(s) \cup Range(<<x>>)
  BY <1>1, RangeConcat
<1> QED
  BY <1>1, <1>2, <1>3

LEMMA InOrderIs ==
  ASSUME NEW A, diff \in Seq(A), NEW S
  PROVE  InOrder(S) \in Seq(Files) /\ Range(InOrder(S)) = S \cap Files
<1> DEFINE n == Len(diff)
<1>0. n \in Nat /\ Files = 1..n
  BY DEF Files
<1> DEFINE step == [i \in 1..n |-> [v \in Seq(Files) |-> IF i \in S THEN Append(v, i) ELSE v]]
<1>1. step \in [1..n -> [Seq(Files) -> Seq(Files)]]
  <2>1. ASSUME NEW i \in 1..n, NEW v \in Seq(Files)
        PROVE (IF i \in S THEN Append(v, i) ELSE v) \in Seq(Files)
    <3>1. i \in Files
      BY <1>0
    <3>2. Append(v, i) \in Seq(Files)
      BY <3>1
    <3> QED
      BY <3>2
  <2> HIDE DEF n
  <2> QED
    BY <2>1
<1>2. PICK f : Looped(f, n, Seq(Files), <<>>, step)
  <2> HIDE DEF step, n
  <2>1. <<>> \in Seq(Files)
    OBVIOUS
  <2> QED
    BY <1>0, <1>1, <2>1, Loop
<1> HIDE DEF n, step
<1>3. ASSUME NEW i \in 1..n
      PROVE  f[i - 1] \in Seq(Files) /\ f[i] = IF i \in S THEN Append(f[i - 1], i) ELSE f[i - 1]
  <2>1. i - 1 \in 0..n
    BY <1>0
  <2>2. f[i - 1] \in Seq(Files) /\ f[i] = step[i][f[i - 1]]
    BY <1>2, <2>1 DEF Looped
  <2> QED
    BY <2>2 DEF step
<1>4. f = [i \in 0..n |-> IF i = 0 THEN <<>> ELSE IF i \in S THEN Append(f[i - 1], i) ELSE f[i - 1]]
  <2>1. f \in [0..n -> Seq(Files)] /\ f[0] = <<>>
    BY <1>2 DEF Looped
  <2>2. ASSUME NEW i \in 0..n
        PROVE  f[i] = IF i = 0 THEN <<>> ELSE IF i \in S THEN Append(f[i - 1], i) ELSE f[i - 1]
    <3>1. i # 0 => i \in 1..n
      BY <1>0
    <3> QED
      BY <1>3, <2>1, <3>1
  <2> QED
    BY <2>1, <2>2
<1> DEFINE g == CHOOSE g : g = [i \in 0..n |-> IF i = 0 THEN <<>>
                                               ELSE IF i \in S THEN Append(g[i - 1], i) ELSE g[i - 1]]
<1>5. g = [i \in 0..n |-> IF i = 0 THEN <<>> ELSE IF i \in S THEN Append(g[i - 1], i) ELSE g[i - 1]]
  BY <1>4, Zenon
<1>6. InOrder(S) = g[n]
  BY Zenon DEF InOrder, n
<1> HIDE DEF g
<1> DEFINE T == {i \in 0..n : g[i] \in Seq(Files) /\ Range(g[i]) = S \cap (1..i)}
<1>7. 0 \in T
  <2>1. g[0] = <<>> /\ 0 \in 0..n
    BY <1>0, <1>5
  <2>2. Range(<<>>) = S \cap (1..0) /\ <<>> \in Seq(Files)
    BY DEF Range
  <2> QED
    BY <2>1, <2>2
<1>8. ASSUME NEW i \in 1..n, i - 1 \in T PROVE i \in T
  <2>1. i \in 0..n /\ i # 0 /\ i \in Files /\ 1..i = (1..(i - 1)) \cup {i}
    BY <1>0
  <2>2. g[i] = IF i \in S THEN Append(g[i - 1], i) ELSE g[i - 1]
    BY <1>5, <2>1
  <2>3. g[i - 1] \in Seq(Files) /\ Range(g[i - 1]) = S \cap (1..(i - 1))
    BY <1>8
  <2>4. Range(Append(g[i - 1], i)) = Range(g[i - 1]) \cup {i}
    BY <2>1, <2>3, RangeAppend
  <2>5. g[i] \in Seq(Files)
    BY <2>1, <2>2, <2>3
  <2>6. Range(g[i]) = S \cap (1..i)
    BY <2>1, <2>2, <2>3, <2>4
  <2> QED
    BY <2>1, <2>5, <2>6
<1>9. n \in T
  <2> HIDE DEF T
  <2>1. 0..n \subseteq T
    BY <1>0, <1>7, <1>8, UpTo
  <2>2. n \in 0..n
    BY <1>0
  <2> QED
    BY <2>1, <2>2
<1> QED
  BY <1>0, <1>6, <1>9

-------------------------------------------------------------------------------
(* Lines and slices *)

\* A set of numbers within bounds has a greatest one.
LEMMA GreatestOf ==
  ASSUME NEW a \in Nat, NEW b \in Nat, NEW S \in SUBSET (a..b), S # {}
  PROVE  Max(S) \in S /\ \A x \in S : x <= Max(S)
<1> DEFINE T == {b - x : x \in S}
<1>1. T \in SUBSET Nat /\ T # {}
  OBVIOUS
<1>2. PICK t \in T : \A u \in T : t <= u
  <2> HIDE DEF T
  <2> QED
    BY <1>1, LeastNatural
<1>3. PICK m \in S : t = b - m
  OBVIOUS
<1>4. ASSUME NEW x \in S PROVE m >= x
  <2>1. b - x \in T
    OBVIOUS
  <2>2. b - m <= b - x
    BY <1>2, <1>3, <2>1
  <2> QED
    BY <2>2
<1> HIDE DEF T
<1>5. Max(S) = CHOOSE x \in S : \A y \in S : x >= y
  BY DEF Max
<1>6. Max(S) \in S /\ \A y \in S : Max(S) >= y
  BY <1>4, <1>5, Zenon
<1> QED
  BY <1>6

LEMMA MaxOfTwo ==
  ASSUME NEW a \in Nat, NEW b \in Int
  PROVE  Max({a, b}) = IF b <= a THEN a ELSE b
<1>1. CASE b <= a
  <2>1. \A y \in {a, b} : a >= y
    BY <1>1
  <2>2. ASSUME NEW x \in {a, b}, \A y \in {a, b} : x >= y PROVE x = a
    BY <1>1, <2>2
  <2> QED
    BY <1>1, <2>1, <2>2 DEF Max
<1>2. CASE b > a
  <2>1. \A y \in {a, b} : b >= y
    BY <1>2
  <2>2. ASSUME NEW x \in {a, b}, \A y \in {a, b} : x >= y PROVE x = b
    BY <1>2, <2>2
  <2> QED
    BY <1>2, <2>1, <2>2 DEF Max
<1> QED
  BY <1>1, <1>2

\* A share of a whole that is cut in proportion is less than the whole.
LEMMA Proportion ==
  ASSUME NEW k \in Nat \ {0}, NEW b \in Nat, NEW s \in Nat, s > b
  PROVE  (k * b) \div s \in Nat /\ (k * b) \div s < k
<1> DEFINE q == (k * b) \div s
<1>1. k * b \in Nat /\ s \in Nat \ {0}
  OBVIOUS
<1>2. q \in Nat /\ s * q <= k * b
  <2> DEFINE p == k * b
  <2>1. p \in Nat
    BY <1>1
  <2> HIDE DEF p
  <2>2. p \div s \in Nat /\ s * (p \div s) <= p
    BY <1>1, <2>1
  <2> QED
    BY <2>2 DEF p
<1> HIDE DEF q
<1>3. ASSUME q >= k PROVE FALSE
  <2>1. s * q >= s * k
    BY <1>1, <1>2, <1>3
  <2>2. s * k > b * k
    BY <1>1
  <2>3. b * k = k * b /\ s * q \in Nat /\ s * k \in Nat /\ b * k \in Nat
    BY <1>2
  <2> QED
    BY <1>2, <2>1, <2>2, <2>3
<1> QED
  BY <1>2, <1>3 DEF q

LineSet(f) ==
  {at \in Nat \X Nat : at[1] \in 1..Len(diff[f].hunks) /\ at[2] \in 1..Len(HunkOf(f, at[1]))}

\* What the stages keep of a review: the diff, the settings and the padding.
Review == diff \in Seq(FileSpace) /\ config \in ReviewConfigSpace /\ pad \in Nat

LEMMA HunkType ==
  ASSUME Review, NEW f \in Files, NEW h \in 1..Len(diff[f].hunks)
  PROVE  HunkOf(f, h) \in Seq(Nat) /\ LinesOfHunk(f, h) \in Seq(LineSet(f))
<1>1. diff[f] \in FileSpace
  BY DEF Review, Files
<1>2. diff[f].hunks \in Seq(Seq(Nat))
  BY <1>1 DEF FileSpace
<1>3. diff[f].hunks[h] \in Seq(Nat)
  BY <1>2
<1>4. [l \in 1..pad |-> 1] \in Seq(Nat)
  BY DEF Review
<1>5. HunkOf(f, h) \in Seq(Nat)
  BY <1>3, <1>4, ConcatProperties DEF HunkOf
<1>6. ASSUME NEW l \in 1..Len(HunkOf(f, h)) PROVE <<h, l>> \in LineSet(f)
  <2>1. Len(HunkOf(f, h)) \in Nat /\ Len(diff[f].hunks) \in Nat
    BY <1>2, <1>5
  <2> QED
    BY <2>1 DEF LineSet
<1>7. LinesOfHunk(f, h) \in Seq(LineSet(f))
  <2>1. Len(HunkOf(f, h)) \in Nat
    BY <1>5
  <2> QED
    BY <1>6, <2>1 DEF LinesOfHunk
<1> QED
  BY <1>5, <1>7

LEMMA LinesType ==
  ASSUME Review, NEW f \in Files
  PROVE  LinesOf(f) \in Seq(LineSet(f)) /\ Len(diff[f].hunks) \in Nat
<1>1. Len(diff[f].hunks) \in Nat
  <2>1. diff[f] \in FileSpace
    BY DEF Review, Files
  <2> QED
    BY <2>1 DEF FileSpace
<1>2. [h \in 1..Len(diff[f].hunks) |-> LinesOfHunk(f, h)] \in Seq(Seq(LineSet(f)))
  BY <1>1, HunkType
<1> QED
  BY <1>1, <1>2, FlattenType DEF LinesOf

LEMMA CostType ==
  ASSUME Review, NEW f \in Files, NEW lines \in Seq(LineSet(f))
  PROVE  Cost(f, lines) \in Nat
<1> DEFINE costs == [i \in 1..Len(lines) |-> HunkOf(f, lines[i][1])[lines[i][2]]]
<1>1. ASSUME NEW i \in 1..Len(lines) PROVE costs[i] \in Nat
  <2>1. lines[i] \in LineSet(f)
    OBVIOUS
  <2>2. lines[i][1] \in 1..Len(diff[f].hunks) /\ lines[i][2] \in 1..Len(HunkOf(f, lines[i][1]))
    BY <2>1 DEF LineSet
  <2>3. HunkOf(f, lines[i][1]) \in Seq(Nat)
    BY <2>2, HunkType
  <2> QED
    BY <2>2, <2>3
<1>2. costs \in Seq(Nat)
  <2>1. Len(lines) \in Nat
    OBVIOUS
  <2> QED
    BY <1>1, <2>1
<1>3. Total(costs) \in Nat
  BY <1>2, TotalType
<1> QED
  BY <1>3, BudgetAssumption DEF BudgetAssumption, Cost

LEMMA BudgetType ==
  ASSUME Review
  PROVE  Budget \in Nat \ {0}
<1>1. config.inputTokens \in Nat /\ Overhead \in Nat
  BY BudgetAssumption DEF BudgetAssumption, Review, ReviewConfigSpace
<1> QED
  BY <1>1, MaxOfTwo DEF Budget

\* A slice fits the budget or is one line (compress.split_hunk_by_budget).
LEMMA SliceEndIs ==
  ASSUME Review, NEW f \in Files, NEW lines \in Seq(LineSet(f)), NEW start \in 1..Len(lines)
  PROVE  /\ SliceEnd(f, lines, start) \in start..Len(lines)
         /\ \/ SliceEnd(f, lines, start) = start
            \/ Cost(f, SubSeq(lines, start, SliceEnd(f, lines, start))) <= Budget
<1> DEFINE Size(e) == Cost(f, SubSeq(lines, start, e))
           fits == {e \in start..Len(lines) : Size(e) <= Budget + Header}
           grown == Max({start} \cup fits)
           n == grown - start
           cut(e) == Max({start, start - 1 + ((e - start + 1) * Budget) \div Size(e)})
<1>0. Len(lines) \in Nat /\ start \in Nat /\ Budget \in Nat \ {0} /\ start <= Len(lines)
  BY BudgetType
<1>1. grown \in start..Len(lines)
  <2>1. {start} \cup fits \in SUBSET (start..Len(lines)) /\ {start} \cup fits # {}
    BY <1>0
  <2> HIDE DEF fits
  <2>2. grown \in {start} \cup fits
    BY <1>0, <2>1, GreatestOf
  <2> QED
    BY <2>1, <2>2
<1>2. ASSUME NEW e \in start..Len(lines) PROVE Size(e) \in Nat
  <2>1. SubSeq(lines, start, e) \in Seq(LineSet(f))
    BY <1>0, SubSeqProperties
  <2> QED
    BY <2>1, CostType
<1> HIDE DEF Size, grown, fits
<1>3. n \in Nat /\ n \in 0..n
  BY <1>0, <1>1
<1>4. ASSUME NEW e \in start..grown, e # start, ~(Size(e) <= Budget)
      PROVE  cut(e) \in start..grown /\ cut(e) < e
  <2> DEFINE k == e - start + 1
             q == (k * Budget) \div Size(e)
  <2>1. e \in start..Len(lines) /\ Size(e) \in Nat /\ Size(e) > Budget
    BY <1>0, <1>1, <1>2, <1>4
  <2>2. k \in Nat \ {0}
    BY <1>0, <1>1
  <2> HIDE DEF k
  <2>3. q \in Nat /\ q < k
    BY <1>0, <2>1, <2>2, Proportion
  <2> HIDE DEF q
  <2>4. cut(e) = Max({start, start - 1 + q})
    BY DEF q, k
  <2>5. cut(e) = IF start - 1 + q <= start THEN start ELSE start - 1 + q
    BY <1>0, <2>3, <2>4, MaxOfTwo
  <2> QED
    BY <1>0, <1>1, <1>4, <2>3, <2>5 DEF k
<1> DEFINE back == [i \in 1..n |-> IF Size(start + i) <= Budget THEN 0 ELSE cut(start + i) - start]
           step == [i \in 1..n |-> [v \in start..grown |-> IF Size(start + i) <= Budget THEN start + i ELSE v]]
<1>5. ASSUME NEW i \in 1..n
      PROVE  /\ start + i \in start..grown /\ start + i # start
             /\ back[i] \in Nat /\ back[i] < i
  <2>1. start + i \in start..grown /\ start + i # start
    BY <1>0, <1>1
  <2>2. CASE Size(start + i) <= Budget
    BY <2>1, <2>2
  <2>3. CASE ~(Size(start + i) <= Budget)
    <3>1. cut(start + i) \in start..grown /\ cut(start + i) < start + i
      BY <1>4, <2>1, <2>3
    <3>2. back[i] = cut(start + i) - start
      BY <2>3
    <3> HIDE DEF cut, back, n
    <3> QED
      BY <1>0, <1>1, <2>1, <3>1, <3>2
  <2> QED
    BY <2>1, <2>2, <2>3
<1>6. step \in [1..n -> [start..grown -> start..grown]]
  <2>1. ASSUME NEW i \in 1..n, NEW v \in start..grown
        PROVE (IF Size(start + i) <= Budget THEN start + i ELSE v) \in start..grown
    BY <1>5
  <2> HIDE DEF n
  <2> QED
    BY <2>1
<1>7. back \in [1..n -> Nat] /\ \A i \in 1..n : back[i] < i
  <2>1. ASSUME NEW i \in 1..n
        PROVE  (IF Size(start + i) <= Budget THEN 0 ELSE cut(start + i) - start) \in Nat
    <3>1. back[i] = IF Size(start + i) <= Budget THEN 0 ELSE cut(start + i) - start
      OBVIOUS
    <3> HIDE DEF back, cut
    <3> QED
      BY <1>5, <3>1
  <2>2. back \in [1..n -> Nat]
    <3> HIDE DEF cut, n
    <3> QED
      BY <2>1
  <2> QED
    BY <1>5, <2>2
<1> USE DEF Defined
<1>8. PICK r : Defined(r, n, start..grown, start, back, step)
  <2> HIDE DEF back, step, n
  <2>1. start \in start..grown
    BY <1>0, <1>1
  <2> HIDE DEF Defined
  <2> QED
    BY <1>3, <1>6, <1>7, <2>1, Recursion
<1> DEFINE h == [e \in start..grown |-> r[e - start]]
<1> HIDE DEF Defined
<1>9. h = [e \in start..grown |-> IF e = start \/ Size(e) <= Budget THEN e ELSE h[cut(e)]]
  <2>1. ASSUME NEW e \in start..grown
        PROVE  h[e] = IF e = start \/ Size(e) <= Budget THEN e ELSE h[cut(e)]
    <3>1. CASE e = start
      <4>1. h[e] = r[0]
        BY <1>0, <3>1
      <4> QED
        BY <1>8, <3>1, <4>1 DEF Defined
    <3>2. CASE e # start
      <4> DEFINE i == e - start
      <4>1. i \in 1..n /\ start + i = e /\ h[e] = r[i]
        BY <1>0, <1>1, <3>2
      <4>2. r[i] = step[i][r[back[i]]] /\ back[i] \in 0..n
        <5>1. back[i] \in 0..n
          BY <1>3, <1>5, <4>1
        <5> QED
          BY <1>8, <4>1, <5>1 DEF Defined
      <4>3. r[back[i]] \in start..grown
        BY <1>8, <4>2 DEF Defined
      <4>4. CASE Size(e) <= Budget
        <5>1. step[i][r[back[i]]] = start + i
          BY <4>1, <4>3, <4>4
        <5> QED
          BY <3>2, <4>1, <4>2, <4>4, <5>1
      <4>5. CASE ~(Size(e) <= Budget)
        <5>1. step[i][r[back[i]]] = r[back[i]] /\ back[i] = cut(e) - start
          BY <4>1, <4>3, <4>5
        <5>2. cut(e) \in start..grown
          BY <1>4, <3>2, <4>5
        <5>3. h[cut(e)] = r[cut(e) - start]
          <6> HIDE DEF cut
          <6> QED
            BY <5>2
        <5> HIDE DEF h, cut
        <5> QED
          BY <3>2, <4>1, <4>2, <4>5, <5>1, <5>3
      <4> QED
        BY <4>4, <4>5
    <3> QED
      BY <3>1, <3>2
  <2> HIDE DEF cut
  <2> QED
    BY <2>1
<1> HIDE DEF h
<1> DEFINE fit == CHOOSE fit : fit = [e \in start..grown |->
                                        IF e = start \/ Size(e) <= Budget THEN e ELSE fit[cut(e)]]
<1>10. fit = [e \in start..grown |-> IF e = start \/ Size(e) <= Budget THEN e ELSE fit[cut(e)]]
  <2> HIDE DEF cut
  <2> QED
    BY <1>9, Zenon
<1>11. SliceEnd(f, lines, start) = fit[grown]
  BY Zenon DEF SliceEnd, grown, fits, Size
<1> HIDE DEF fit
<1> DEFINE Right(e) == e \in start..Len(lines) /\ (e = start \/ Size(e) <= Budget)
           T == {i \in 0..n : Right(fit[start + i])}
<1>12. ASSUME NEW i \in 0..n, \A j \in 0..n : j < i => j \in T PROVE i \in T
  <2> DEFINE e == start + i
  <2>1. e \in start..grown /\ e \in start..Len(lines)
    BY <1>0, <1>1
  <2>2. CASE e = start \/ Size(e) <= Budget
    <3>1. fit[e] = e
      BY <1>10, <2>1, <2>2
    <3> HIDE DEF e
    <3>2. Right(fit[e])
      BY <2>1, <2>2, <3>1
    <3> QED
      BY <3>2 DEF e
  <2>3. CASE ~(e = start \/ Size(e) <= Budget)
    <3>1. cut(e) \in start..grown /\ cut(e) < e
      BY <1>4, <2>1, <2>3
    <3>2. fit[e] = fit[cut(e)]
      <4> HIDE DEF cut, e
      <4> QED
        BY <1>10, <2>1, <2>3
    <3>3. cut(e) - start \in 0..n /\ cut(e) - start < i /\ start + (cut(e) - start) = cut(e)
      <4> HIDE DEF cut
      <4> QED
        BY <1>0, <1>1, <3>1
    <3>4. Right(fit[cut(e)])
      <4> HIDE DEF cut, Right, n
      <4> QED
        BY <1>12, <3>3
    <3> HIDE DEF Right, cut
    <3> QED
      BY <3>2, <3>4
  <2> QED
    BY <2>2, <2>3
<1>13. n \in T
  <2> HIDE DEF T, n
  <2>1. 0..n \subseteq T
    BY <1>3, <1>12, AllUpTo
  <2> QED
    BY <1>3, <2>1
<1>14. start + n = grown
  BY <1>0, <1>1
<1>15. Right(fit[grown])
  BY <1>13, <1>14
<1> QED
  BY <1>11, <1>15 DEF Size

LEMMA FlattenOne ==
  ASSUME NEW A, NEW x \in Seq(A)
  PROVE  FlattenSeq(<<x>>) = x
<1>1. <<x>> = Append(<<>>, x) /\ <<>> \in Seq(Seq(A))
  OBVIOUS
<1>2. FlattenSeq(<<x>>) = FlattenSeq(<<>>) \o x
  BY <1>1, FlattenAppend
<1>3. FlattenSeq(<<>>) = <<>>
  BY <1>1, FlattenType
<1> QED
  BY <1>2, <1>3, ConcatEmptySeq

\* A piece that fits, or that there is no way to cut.
Piece(f, lines) == Cost(f, lines) <= Budget \/ Len(lines) <= 1

\* The slices of a hunk are the hunk (compress.split_hunk_by_budget).
LEMMA SplitIs ==
  ASSUME Review, NEW f \in Files, NEW lines \in Seq(LineSet(f))
  PROVE  /\ SplitHunk(f, lines) \in Seq(Seq(LineSet(f)))
         /\ SplitHunk(f, lines) # <<>>
         /\ FlattenSeq(SplitHunk(f, lines)) = lines
         /\ \A p \in Range(SplitHunk(f, lines)) : Piece(f, p)
<1> DEFINE A == LineSet(f)
           n == Len(lines)
           end(start) == SliceEnd(f, lines, start)
           first(start) == SubSeq(lines, start, end(start))
<1>0. n \in Nat /\ 1 \in 1..(n + 1)
  OBVIOUS
<1>1. ASSUME NEW start \in 1..n
      PROVE  /\ end(start) \in start..n
             /\ first(start) \in Seq(A) /\ Piece(f, first(start))
  <2>1. end(start) \in start..n /\ (end(start) = start \/ Cost(f, first(start)) <= Budget)
    BY SliceEndIs
  <2> HIDE DEF end
  <2>2. first(start) \in Seq(A) /\ Len(first(start)) = end(start) - start + 1
    BY <1>0, <2>1, SubSeqProperties
  <2>3. end(start) = start => Len(first(start)) <= 1
    BY <2>2
  <2> HIDE DEF first
  <2> QED
    BY <2>1, <2>2, <2>3 DEF Piece
<1> HIDE DEF end, first, n
<1> DEFINE at(i) == n + 1 - i
           back == [i \in 1..n |-> n - end(at(i))]
           step == [i \in 1..n |-> [v \in Seq(Seq(A)) |-> <<first(at(i))>> \o v]]
<1>2. ASSUME NEW i \in 1..n PROVE at(i) \in 1..n /\ back[i] \in Nat /\ back[i] < i
  <2>1. at(i) \in 1..n
    BY <1>0
  <2>2. end(at(i)) \in at(i)..n
    BY <1>1, <2>1
  <2> QED
    BY <1>0, <2>1, <2>2
<1>3. step \in [1..n -> [Seq(Seq(A)) -> Seq(Seq(A))]]
  <2>1. ASSUME NEW i \in 1..n, NEW v \in Seq(Seq(A)) PROVE <<first(at(i))>> \o v \in Seq(Seq(A))
    <3>1. first(at(i)) \in Seq(A)
      BY <1>1, <1>2
    <3>2. <<first(at(i))>> \in Seq(Seq(A))
      BY <3>1
    <3> QED
      BY <3>2, ConcatProperties
  <2> HIDE DEF A, at
  <2> QED
    BY <2>1
<1>4. back \in [1..n -> Nat] /\ \A i \in 1..n : back[i] < i
  <2>1. ASSUME NEW i \in 1..n PROVE n - end(at(i)) \in Nat
    <3>1. back[i] = n - end(at(i))
      OBVIOUS
    <3> HIDE DEF back, at
    <3> QED
      BY <1>2, <3>1
  <2>2. back \in [1..n -> Nat]
    <3> HIDE DEF at
    <3> QED
      BY <2>1
  <2> QED
    BY <1>2, <2>2
<1>5. PICK r : Defined(r, n, Seq(Seq(A)), <<>>, back, step)
  <2> HIDE DEF back, step, at
  <2>1. <<>> \in Seq(Seq(A))
    OBVIOUS
  <2> HIDE DEF A
  <2> QED
    BY <1>0, <1>3, <1>4, <2>1, Recursion
<1> HIDE DEF A
<1> DEFINE h == [s \in 1..(n + 1) |-> r[n + 1 - s]]
<1>6. h = [s \in 1..(n + 1) |-> IF s > n THEN <<>> ELSE <<first(s)>> \o h[end(s) + 1]]
  <2>1. ASSUME NEW s \in 1..(n + 1)
        PROVE  h[s] = IF s > n THEN <<>> ELSE <<first(s)>> \o h[end(s) + 1]
    <3>1. CASE s > n
      <4>1. n + 1 - s = 0
        BY <1>0, <3>1
      <4>2. r[0] = <<>>
        BY <1>5 DEF Defined
      <4> QED
        BY <3>1, <4>1, <4>2
    <3>2. CASE ~(s > n)
      <4> DEFINE i == n + 1 - s
      <4>1. i \in 1..n /\ at(i) = s /\ s \in 1..n
        BY <1>0, <3>2
      <4>2. back[i] = n - end(s) /\ back[i] \in 0..n
        BY <1>0, <1>2, <4>1
      <4>3. r[i] = step[i][r[back[i]]] /\ r[back[i]] \in Seq(Seq(A))
        <5> HIDE DEF i, back, step
        <5> QED
          BY <1>5, <4>1, <4>2 DEF Defined
      <4>4. step[i][r[back[i]]] = <<first(s)>> \o r[back[i]]
        <5> HIDE DEF i, back
        <5>1. step[i] = [v \in Seq(Seq(A)) |-> <<first(s)>> \o v]
          BY <4>1
        <5>2. \A v \in Seq(Seq(A)) : step[i][v] = <<first(s)>> \o v
          BY <5>1
        <5> HIDE DEF step
        <5> QED
          BY <4>3, <5>2
      <4>5. end(s) + 1 \in 1..(n + 1) /\ n + 1 - (end(s) + 1) = n - end(s)
        BY <1>0, <1>1, <4>1
      <4>6. h[end(s) + 1] = r[n - end(s)] /\ h[s] = r[i]
        BY <4>5
      <4> HIDE DEF h, i, back, step
      <4> QED
        BY <3>2, <4>2, <4>3, <4>4, <4>6
    <3> QED
      BY <3>1, <3>2
  <2> QED
    BY <2>1
<1> HIDE DEF h
<1> DEFINE g == CHOOSE g : g = [s \in 1..(n + 1) |-> IF s > n THEN <<>> ELSE <<first(s)>> \o g[end(s) + 1]]
<1>7. g = [s \in 1..(n + 1) |-> IF s > n THEN <<>> ELSE <<first(s)>> \o g[end(s) + 1]]
  BY <1>6, Zenon
<1>8. SplitHunk(f, lines) = IF lines = <<>> THEN <<lines>> ELSE g[1]
  BY Zenon DEF SplitHunk, n, end, first
<1> HIDE DEF g
<1> DEFINE Right(s) == /\ g[s] \in Seq(Seq(A))
                       /\ FlattenSeq(g[s]) = SubSeq(lines, s, n)
                       /\ \A p \in Range(g[s]) : Piece(f, p)
                       /\ s <= n => g[s] # <<>>
           T == {i \in 0..n : Right(n + 1 - i)}
<1>9. ASSUME NEW i \in 0..n, \A j \in 0..n : j < i => j \in T PROVE i \in T
  <2> DEFINE s == n + 1 - i
  <2>1. s \in 1..(n + 1) /\ s \in Nat
    BY <1>0
  <2>2. CASE s > n
    <3>1. g[s] = <<>>
      BY <1>7, <2>1, <2>2
    <3>2. SubSeq(lines, s, n) = <<>>
      BY <1>0, <2>1, <2>2, SubSeqEmpty
    <3>3. <<>> \in Seq(Seq(A)) /\ Range(<<>>) = {}
      BY DEF Range
    <3>4. FlattenSeq(<<>>) = <<>>
      BY <3>3, FlattenType
    <3> HIDE DEF s
    <3>5. Right(s)
      BY <1>0, <2>1, <2>2, <3>1, <3>2, <3>3, <3>4
    <3> QED
      BY <3>5 DEF s
  <2>3. CASE ~(s > n)
    <3> DEFINE e == end(s)
               rest == g[e + 1]
    <3>1. s \in 1..n /\ e \in s..n /\ e \in Nat
      BY <1>0, <1>1, <2>1, <2>3
    <3>2. g[s] = <<first(s)>> \o rest
      BY <1>7, <2>1, <2>3
    <3>3. n - e \in 0..n /\ n - e < i /\ n + 1 - (n - e) = e + 1
      BY <1>0, <3>1
    <3>4. Right(e + 1)
      <4>1. n - e \in T
        <5> HIDE DEF e, T
        <5> QED
          BY <1>9, <3>3
      <4>2. Right(n + 1 - (n - e))
        <5> HIDE DEF Right, e
        <5> QED
          BY <4>1
      <4> HIDE DEF Right, e
      <4> QED
        BY <3>3, <4>2
    <3>5. first(s) \in Seq(A) /\ Piece(f, first(s))
      BY <1>1, <3>1
    <3>6. <<first(s)>> \in Seq(Seq(A)) /\ rest \in Seq(Seq(A))
      BY <3>4, <3>5
    <3>7. g[s] \in Seq(Seq(A)) /\ g[s] # <<>>
      <4>1. Len(<<first(s)>> \o rest) = 1 + Len(rest) /\ Len(rest) \in Nat
        BY <3>6, ConcatProperties
      <4>2. <<first(s)>> \o rest \in Seq(Seq(A))
        BY <3>6, ConcatProperties
      <4>3. Len(<<>>) = 0
        OBVIOUS
      <4> HIDE DEF rest
      <4> QED
        BY <3>2, <4>1, <4>2, <4>3
    <3>8. FlattenSeq(g[s]) = SubSeq(lines, s, n)
      <4>1. FlattenSeq(g[s]) = FlattenSeq(<<first(s)>>) \o FlattenSeq(rest)
        BY <3>2, <3>6, FlattenConcat
      <4>2. FlattenSeq(<<first(s)>>) = first(s)
        BY <3>5, FlattenOne
      <4>3. FlattenSeq(rest) = SubSeq(lines, e + 1, n)
        BY <3>4
      <4>4. first(s) = SubSeq(lines, s, e)
        BY DEF first
      <4>5. SubSeq(lines, s, e) \o SubSeq(lines, e + 1, n) = SubSeq(lines, s, n)
        <5> HIDE DEF e
        <5>1. s \in 1..(Len(lines) + 1) /\ e \in (s - 1)..Len(lines) /\ n \in e..Len(lines)
          BY <1>0, <3>1 DEF n
        <5>2. lines \in Seq(LineSet(f))
          OBVIOUS
        <5> HIDE DEF s
        <5> QED
          BY <5>1, <5>2, ConcatAdjacentSubSeq
      <4> QED
        BY <4>1, <4>2, <4>3, <4>4, <4>5
    <3>9. \A p \in Range(g[s]) : Piece(f, p)
      <4>1. Range(g[s]) = Range(<<first(s)>>) \cup Range(rest)
        <5>1. \A x, y \in Seq(Seq(A)) : Range(x \o y) = Range(x) \cup Range(y)
          BY RangeConcat
        <5> HIDE DEF s, e, rest
        <5> QED
          BY <3>2, <3>6, <5>1
      <4>2. Range(<<first(s)>>) = {first(s)}
        BY DEF Range
      <4> QED
        BY <3>4, <3>5, <4>1, <4>2
    <3> HIDE DEF s, rest, e
    <3>10. Right(s)
      BY <3>7, <3>8, <3>9
    <3> QED
      BY <3>10 DEF s
  <2> QED
    BY <2>2, <2>3
<1>10. n \in T
  <2> HIDE DEF T
  <2>1. 0..n \subseteq T
    BY <1>0, <1>9, AllUpTo
  <2>2. n \in 0..n
    BY <1>0
  <2> QED
    BY <2>1, <2>2
<1>11. Right(1)
  <2>1. n + 1 - n = 1
    BY <1>0
  <2> HIDE DEF Right
  <2> QED
    BY <1>10, <2>1
<1>12. CASE lines = <<>>
  <2>1. SplitHunk(f, lines) = <<lines>> /\ lines \in Seq(A) /\ Len(lines) = 0
    BY <1>8, <1>12 DEF A
  <2>2. Range(<<lines>>) = {lines}
    BY DEF Range
  <2>3. FlattenSeq(<<lines>>) = lines
    BY <2>1, FlattenOne
  <2>4. Piece(f, lines)
    BY <2>1 DEF Piece
  <2> QED
    BY <2>1, <2>2, <2>3, <2>4 DEF A
<1>13. CASE lines # <<>>
  <2>1. SubSeq(lines, 1, n) = lines
    BY SubSeqFull DEF n
  <2>2. 1 <= n
    BY <1>13, EmptySeq DEF n
  <2>3. SplitHunk(f, lines) = g[1]
    BY <1>8, <1>13
  <2> QED
    BY <1>11, <2>1, <2>2, <2>3 DEF A
<1> QED
  BY <1>12, <1>13

-------------------------------------------------------------------------------
(* Units *)

\* Flattening twice in either order.
LEMMA FlattenTwice ==
  ASSUME NEW A, NEW s \in Seq(Seq(Seq(A)))
  PROVE  FlattenSeq(FlattenSeq(s)) = FlattenSeq([i \in 1..Len(s) |-> FlattenSeq(s[i])])
<1> DEFINE H == [x \in Seq(Seq(A)) |-> FlattenSeq(x)]
<1>1. H \in [Seq(Seq(A)) -> Seq(A)]
  BY FlattenType
<1>2. H[<<>>] = <<>>
  <2>1. <<>> \in Seq(Seq(A))
    OBVIOUS
  <2>2. FlattenSeq(<<>>) = <<>>
    BY <2>1, FlattenType
  <2> QED
    BY <2>1, <2>2
<1>3. \A a, b \in Seq(Seq(A)) : H[a \o b] = H[a] \o H[b]
  <2>1. ASSUME NEW a \in Seq(Seq(A)), NEW b \in Seq(Seq(A)) PROVE H[a \o b] = H[a] \o H[b]
    <3>1. a \o b \in Seq(Seq(A))
      BY ConcatProperties
    <3>2. FlattenSeq(a \o b) = FlattenSeq(a) \o FlattenSeq(b)
      BY FlattenConcat
    <3> QED
      BY <3>1, <3>2
  <2> HIDE DEF H
  <2> QED
    BY <2>1
<1>4. FlattenSeq(s) \in Seq(Seq(A))
  BY FlattenType
<1>5. H[FlattenSeq(s)] = FlattenSeq(FlattenSeq(s))
  BY <1>4
<1> DEFINE B == Seq(A)
           t == [i \in 1..Len(s) |-> FlattenSeq(s[i])]
<1>6. /\ t \in Seq(B) /\ Len(t) = Len(s)
      /\ \A i \in 1..Len(s) : t[i] = H[s[i]]
  <2>1. ASSUME NEW i \in 1..Len(s) PROVE s[i] \in Seq(Seq(A)) /\ FlattenSeq(s[i]) \in Seq(A)
    BY FlattenType
  <2> QED
    BY <2>1
<1>7. /\ s \in Seq(Seq(B)) /\ H \in [Seq(B) -> Seq(A)]
      /\ \A a, b \in Seq(B) : H[a \o b] = H[a] \o H[b]
  BY <1>1, <1>3
<1>8. t \in Seq(Seq(A))
  BY <1>6
<1> HIDE DEF H, B, t
<1>9. H[FlattenSeq(s)] = FlattenSeq(t)
  <2>1. Respects(H, B, A) /\ Image(H, s, t)
    BY <1>2, <1>6, <1>7 DEF Respects, Image
  <2> QED
    BY <1>7, <1>8, <2>1, FlattenImage
<1> QED
  BY <1>5, <1>9 DEF t

LEMMA PartsOfHunkIs ==
  ASSUME Review, NEW f \in Files, NEW h \in 1..Len(diff[f].hunks)
  PROVE  /\ PartsOfHunk(f, h) \in Seq(Seq(LineSet(f))) /\ PartsOfHunk(f, h) # <<>>
         /\ FlattenSeq(PartsOfHunk(f, h)) = LinesOfHunk(f, h)
         /\ \A p \in Range(PartsOfHunk(f, h)) : Piece(f, p)
<1> DEFINE lines == LinesOfHunk(f, h)
<1>1. lines \in Seq(LineSet(f)) /\ Cost(f, lines) \in Nat /\ Budget \in Nat
  BY HunkType, CostType, BudgetType
<1> HIDE DEF lines
<1>2. CASE Cost(f, lines) >= Budget
  <2>1. PartsOfHunk(f, h) = SplitHunk(f, lines)
    BY <1>2 DEF PartsOfHunk, lines
  <2> QED
    BY <1>1, <2>1, SplitIs DEF lines
<1>3. CASE ~(Cost(f, lines) >= Budget)
  <2>1. PartsOfHunk(f, h) = <<lines>>
    BY <1>3 DEF PartsOfHunk, lines
  <2>2. Range(<<lines>>) = {lines}
    BY DEF Range
  <2>3. Piece(f, lines)
    BY <1>1, <1>3 DEF Piece
  <2>4. FlattenSeq(<<lines>>) = lines
    BY <1>1, FlattenOne
  <2> QED
    BY <1>1, <2>1, <2>2, <2>3, <2>4 DEF lines
<1> QED
  BY <1>2, <1>3

\* A file's parts are the file (compress.split_patch_into_hunks, batch_files).
LEMMA PartsIs ==
  ASSUME Review, NEW f \in Files
  PROVE  /\ PartsOf(f) \in Seq(Seq(LineSet(f))) /\ PartsOf(f) # <<>>
         /\ FlattenSeq(PartsOf(f)) = LinesOf(f)
         /\ config.recursive => \A p \in Range(PartsOf(f)) : Piece(f, p)
<1> DEFINE n == Len(diff[f].hunks)
<1>0. n \in Nat /\ LinesOf(f) \in Seq(LineSet(f)) /\ Budget \in Nat /\ Cost(f, LinesOf(f)) \in Nat
  BY LinesType, BudgetType, CostType
<1>1. CASE Walked(f)
  <2> DEFINE A == LineSet(f)
             s == [h \in 1..n |-> PartsOfHunk(f, h)]
  <2>1. PartsOf(f) = FlattenSeq(s)
    BY <1>1 DEF PartsOf
  <2>2. s \in Seq(Seq(Seq(A))) /\ Len(s) = n /\ \A h \in 1..n : s[h] = PartsOfHunk(f, h)
    BY <1>0, PartsOfHunkIs
  <2>3. PartsOf(f) \in Seq(Seq(A))
    BY <2>1, <2>2, FlattenType
  <2>4. FlattenSeq(PartsOf(f)) = FlattenSeq([h \in 1..Len(s) |-> FlattenSeq(s[h])])
    <3> HIDE DEF s, A
    <3> QED
      BY <2>1, <2>2, FlattenTwice
  <2>5. [h \in 1..Len(s) |-> FlattenSeq(s[h])] = [h \in 1..n |-> LinesOfHunk(f, h)]
    <3>1. \A h \in 1..n : FlattenSeq(s[h]) = LinesOfHunk(f, h)
      BY <2>2, PartsOfHunkIs
    <3> HIDE DEF s
    <3> QED
      BY <2>2, <3>1
  <2>6. FlattenSeq(PartsOf(f)) = LinesOf(f)
    BY <2>4, <2>5 DEF LinesOf
  <2>7. Range(PartsOf(f)) = UNION {Range(s[h]) : h \in 1..n}
    <3> HIDE DEF s, A
    <3> QED
      BY <2>1, <2>2, FlattenRange
  <2>8. \A p \in Range(PartsOf(f)) : Piece(f, p)
    BY <2>2, <2>7, PartsOfHunkIs
  <2>9. PartsOf(f) # <<>>
    <3>1. 1 \in 1..n
      <4>1. diff[f] \in FileSpace
        BY DEF Review, Files
      <4>2. diff[f].hunks \in Seq(Seq(Nat)) /\ diff[f].hunks # <<>>
        BY <1>1, <4>1 DEF Walked, FileSpace
      <4> QED
        BY <4>2, EmptySeq
    <3>2. PartsOfHunk(f, 1) \in Seq(Seq(A)) /\ PartsOfHunk(f, 1) # <<>>
      BY <3>1, PartsOfHunkIs
    <3>3. PartsOfHunk(f, 1)[1] \in Range(PartsOfHunk(f, 1))
      BY <3>2 DEF Range
    <3>4. Range(PartsOf(f)) # {}
      BY <2>2, <2>7, <3>1, <3>3
    <3> QED
      BY <3>4 DEF Range
  <2> QED
    BY <2>3, <2>6, <2>8, <2>9
<1>2. CASE ~Walked(f)
  <2>1. PartsOf(f) = <<LinesOf(f)>>
    BY <1>2 DEF PartsOf
  <2>2. FlattenSeq(<<LinesOf(f)>>) = LinesOf(f)
    BY <1>0, FlattenOne
  <2>3. ASSUME config.recursive PROVE Piece(f, LinesOf(f))
    <3>1. CASE Cost(f, LinesOf(f)) >= Budget
      <4>1. diff[f].hunks = <<>>
        BY <1>2, <2>3, <3>1 DEF Walked
      <4>2. [h \in 1..Len(diff[f].hunks) |-> LinesOfHunk(f, h)] = <<>>
        BY <4>1
      <4>3. LinesOf(f) = <<>>
        <5>1. <<>> \in Seq(Seq(Nat))
          OBVIOUS
        <5>2. FlattenSeq(<<>>) = <<>>
          BY <5>1, FlattenType
        <5> QED
          BY <4>2, <5>2 DEF LinesOf
      <4> QED
        BY <4>3 DEF Piece
    <3>2. CASE ~(Cost(f, LinesOf(f)) >= Budget)
      BY <1>0, <3>2 DEF Piece
    <3> QED
      BY <3>1, <3>2
  <2>4. Range(<<LinesOf(f)>>) = {LinesOf(f)}
    BY DEF Range
  <2> QED
    BY <1>0, <2>1, <2>2, <2>3, <2>4
<1> QED
  BY <1>1, <1>2

\* A unit is made of lines of its file.
UnitSpace == {u \in [file : Files, lines : Seq(Nat \X Nat)] : u.lines \in Seq(LineSet(u.file))}
Tags == Files \X (Nat \X Nat)

LEMMA UnitMade ==
  ASSUME NEW f \in Files, NEW lines \in Seq(LineSet(f))
  PROVE  [file |-> f, lines |-> lines] \in UnitSpace
<1>1. LineSet(f) \subseteq Nat \X Nat
  BY DEF LineSet
<1>2. lines \in Seq(Nat \X Nat)
  BY <1>1, SeqMonotonic
<1> QED
  BY <1>2 DEF UnitSpace

LEMMA TaggedType ==
  ASSUME NEW u \in UnitSpace
  PROVE  Tagged(u) \in Seq(Tags)
<1>1. u.file \in Files /\ u.lines \in Seq(Nat \X Nat) /\ Len(u.lines) \in Nat
  BY DEF UnitSpace
<1>2. \A i \in 1..Len(u.lines) : <<u.file, u.lines[i]>> \in Tags
  BY <1>1 DEF Tags
<1> QED
  BY <1>1, <1>2 DEF Tagged

\* The lines of units put together.
LEMMA TaggedConcat ==
  ASSUME NEW us \in Seq(UnitSpace), NEW vs \in Seq(UnitSpace)
  PROVE  /\ TaggedLines(us) \in Seq(Tags)
         /\ TaggedLines(us \o vs) = TaggedLines(us) \o TaggedLines(vs)
<1> DEFINE T(ws) == [i \in 1..Len(ws) |-> Tagged(ws[i])]
<1>1. ASSUME NEW ws \in Seq(UnitSpace)
      PROVE  T(ws) \in Seq(Seq(Tags)) /\ Len(T(ws)) = Len(ws)
             /\ \A i \in 1..Len(ws) : T(ws)[i] = Tagged(ws[i])
  <2>1. Len(ws) \in Nat /\ \A i \in 1..Len(ws) : Tagged(ws[i]) \in Seq(Tags)
    BY TaggedType
  <2> QED
    BY <2>1
<1>2. us \o vs \in Seq(UnitSpace)
  BY ConcatProperties
<1>3. T(us \o vs) = T(us) \o T(vs)
  <2>1. T(us) \o T(vs) \in Seq(Seq(Tags)) /\ Len(T(us) \o T(vs)) = Len(us) + Len(vs)
        /\ \A i \in 1..(Len(us) + Len(vs)) :
             (T(us) \o T(vs))[i] = IF i <= Len(us) THEN T(us)[i] ELSE T(vs)[i - Len(us)]
    <3>1. /\ T(us) \in Seq(Seq(Tags)) /\ T(vs) \in Seq(Seq(Tags))
          /\ Len(T(us)) = Len(us) /\ Len(T(vs)) = Len(vs)
      BY <1>1
    <3> HIDE DEF T
    <3>2. \A x, y \in Seq(Seq(Tags)) :
            /\ x \o y \in Seq(Seq(Tags)) /\ Len(x \o y) = Len(x) + Len(y)
            /\ \A i \in 1..(Len(x) + Len(y)) : (x \o y)[i] = IF i <= Len(x) THEN x[i] ELSE y[i - Len(x)]
      BY ConcatProperties
    <3>3. /\ T(us) \o T(vs) \in Seq(Seq(Tags)) /\ Len(T(us) \o T(vs)) = Len(T(us)) + Len(T(vs))
          /\ \A i \in 1..(Len(T(us)) + Len(T(vs))) :
               (T(us) \o T(vs))[i] = IF i <= Len(T(us)) THEN T(us)[i] ELSE T(vs)[i - Len(T(us))]
      BY <3>1, <3>2
    <3> QED
      BY <3>1, <3>3
  <2>2. /\ T(us \o vs) \in Seq(Seq(Tags)) /\ Len(T(us \o vs)) = Len(us \o vs)
        /\ \A i \in 1..Len(us \o vs) : T(us \o vs)[i] = Tagged((us \o vs)[i])
    BY <1>1, <1>2
  <2>3. /\ Len(us \o vs) = Len(us) + Len(vs) /\ Len(us) \in Nat /\ Len(vs) \in Nat
        /\ \A i \in 1..(Len(us) + Len(vs)) :
             (us \o vs)[i] = IF i <= Len(us) THEN us[i] ELSE vs[i - Len(us)]
    BY ConcatProperties
  <2>4. ASSUME NEW i \in 1..(Len(us) + Len(vs)) PROVE T(us \o vs)[i] = (T(us) \o T(vs))[i]
    <3>1. CASE i <= Len(us)
      <4>1. i \in 1..Len(us)
        BY <2>3, <3>1
      <4>2. T(us)[i] = Tagged(us[i])
        BY <1>1, <4>1
      <4> HIDE DEF T
      <4> QED
        BY <2>1, <2>2, <2>3, <3>1, <4>2
    <3>2. CASE ~(i <= Len(us))
      <4>1. i - Len(us) \in 1..Len(vs)
        BY <2>3, <3>2
      <4>2. T(vs)[i - Len(us)] = Tagged(vs[i - Len(us)])
        BY <1>1, <4>1
      <4> HIDE DEF T
      <4> QED
        BY <2>1, <2>2, <2>3, <3>2, <4>2
    <3> QED
      BY <3>1, <3>2
  <2> HIDE DEF T
  <2>5. Len(T(us \o vs)) = Len(T(us) \o T(vs))
    BY <2>1, <2>2, <2>3
  <2> QED
    BY <2>1, <2>2, <2>3, <2>4, <2>5, SeqEqual
<1>4. T(us) \in Seq(Seq(Tags)) /\ T(vs) \in Seq(Seq(Tags))
  BY <1>1
<1>5. TaggedLines(us) = FlattenSeq(T(us)) /\ TaggedLines(vs) = FlattenSeq(T(vs))
      /\ TaggedLines(us \o vs) = FlattenSeq(T(us \o vs))
  BY DEF TaggedLines
<1> HIDE DEF T
<1>6. FlattenSeq(T(us) \o T(vs)) = FlattenSeq(T(us)) \o FlattenSeq(T(vs))
  BY <1>4, FlattenConcat
<1> QED
  BY <1>3, <1>4, <1>5, <1>6, FlattenType

LEMMA TaggedOne ==
  ASSUME NEW u \in UnitSpace
  PROVE  TaggedLines(<<u>>) = Tagged(u) /\ TaggedLines(<<>>) = <<>>
<1>1. [i \in 1..Len(<<u>>) |-> Tagged(<<u>>[i])] = <<Tagged(u)>>
  OBVIOUS
<1>2. FlattenSeq(<<Tagged(u)>>) = Tagged(u)
  BY TaggedType, FlattenOne
<1>3. [i \in 1..Len(<<>>) |-> Tagged(<<>>[i])] = <<>>
  OBVIOUS
<1>4. FlattenSeq(<<>>) = <<>>
  <2>1. <<>> \in Seq(Seq(Nat))
    OBVIOUS
  <2> QED
    BY <2>1, FlattenType
<1> QED
  BY <1>1, <1>2, <1>3, <1>4 DEF TaggedLines

LEMMA TaggedAppend ==
  ASSUME NEW us \in Seq(UnitSpace), NEW u \in UnitSpace
  PROVE  TaggedLines(Append(us, u)) = TaggedLines(us) \o Tagged(u)
<1>1. Append(us, u) = us \o <<u>> /\ <<u>> \in Seq(UnitSpace)
  OBVIOUS
<1>2. TaggedLines(us \o <<u>>) = TaggedLines(us) \o TaggedLines(<<u>>)
  BY <1>1, TaggedConcat
<1> QED
  BY <1>1, <1>2, TaggedOne

\* The lines of sequences of units put together.
LEMMA TaggedFlatten ==
  ASSUME NEW ss \in Seq(Seq(UnitSpace)), NEW t \in Seq(Seq(Tags)), Len(t) = Len(ss),
         \A i \in 1..Len(ss) : t[i] = TaggedLines(ss[i])
  PROVE  TaggedLines(FlattenSeq(ss)) = FlattenSeq(t)
<1> DEFINE H == [us \in Seq(UnitSpace) |-> TaggedLines(us)]
<1>1. H \in [Seq(UnitSpace) -> Seq(Tags)] /\ \A us \in Seq(UnitSpace) : H[us] = TaggedLines(us)
  BY TaggedConcat
<1>2. <<>> \in Seq(UnitSpace) /\ H[<<>>] = <<>>
  <2>1. <<>> \in Seq(UnitSpace)
    OBVIOUS
  <2>2. [i \in 1..Len(<<>>) |-> Tagged(<<>>[i])] = <<>>
    OBVIOUS
  <2>3. FlattenSeq(<<>>) = <<>>
    <3>1. <<>> \in Seq(Seq(Nat))
      OBVIOUS
    <3> QED
      BY <3>1, FlattenType
  <2>4. TaggedLines(<<>>) = <<>>
    BY <2>2, <2>3 DEF TaggedLines
  <2> HIDE DEF H
  <2> QED
    BY <1>1, <2>1, <2>4
<1> HIDE DEF H
<1>3. ASSUME NEW a \in Seq(UnitSpace), NEW b \in Seq(UnitSpace) PROVE H[a \o b] = H[a] \o H[b]
  <2>1. a \o b \in Seq(UnitSpace)
    BY ConcatProperties
  <2>2. TaggedLines(a \o b) = TaggedLines(a) \o TaggedLines(b)
    BY TaggedConcat
  <2> QED
    BY <1>1, <2>1, <2>2
<1>4. Respects(H, UnitSpace, Tags)
  BY <1>1, <1>2, <1>3 DEF Respects
<1>5. Image(H, ss, t)
  <2>1. \A i \in 1..Len(ss) : ss[i] \in Seq(UnitSpace)
    OBVIOUS
  <2> QED
    BY <1>1, <2>1 DEF Image
<1>6. H[FlattenSeq(ss)] = FlattenSeq(t)
  BY <1>4, <1>5, FlattenImage
<1> QED
  BY <1>1, <1>6, FlattenType

\* A file's units are the file (compress.batch_files).
LEMMA UnitsIs ==
  ASSUME Review, NEW f \in Files
  PROVE  /\ UnitsOf(f) \in Seq(UnitSpace) /\ UnitsOf(f) # <<>>
         /\ \A u \in Range(UnitsOf(f)) :
              u.file = f /\ (config.recursive => Piece(f, u.lines))
         /\ TaggedLines(UnitsOf(f)) = Tagged([file |-> f, lines |-> LinesOf(f)])
<1> DEFINE A == LineSet(f)
           parts == PartsOf(f)
           n == Len(parts)
           us == UnitsOf(f)
           t == [p \in 1..n |-> Tagged(us[p])]
           H == [x \in Seq(A) |-> [i \in 1..Len(x) |-> <<f, x[i]>>]]
<1>1. /\ parts \in Seq(Seq(A)) /\ n \in Nat /\ n # 0
      /\ FlattenSeq(parts) = LinesOf(f) /\ LinesOf(f) \in Seq(A)
      /\ \A p \in 1..n : parts[p] \in Seq(A) /\ parts[p] \in Range(parts)
  <2>1. parts \in Seq(Seq(A)) /\ parts # <<>> /\ FlattenSeq(parts) = LinesOf(f)
    BY PartsIs
  <2>2. LinesOf(f) \in Seq(A)
    BY LinesType
  <2> HIDE DEF parts, A
  <2>3. n \in Nat /\ n # 0 /\ \A p \in 1..n : parts[p] \in Seq(A) /\ parts[p] \in Range(parts)
    BY <2>1, EmptySeq DEF Range
  <2> QED
    BY <2>1, <2>2, <2>3
<1>2. us = [p \in 1..n |-> [file |-> f, lines |-> parts[p]]]
  BY DEF UnitsOf
<1>3. \A p \in 1..n : [file |-> f, lines |-> parts[p]] \in UnitSpace
  <2> HIDE DEF parts, n
  <2> QED
    BY <1>1, UnitMade
<1>4. us \in Seq(UnitSpace) /\ Len(us) = n
  <2> HIDE DEF us, parts, n
  <2> QED
    BY <1>1, <1>2, <1>3
<1>5. us # <<>>
  <2> HIDE DEF us, parts, n
  <2> QED
    BY <1>1, <1>4
<1>6. ASSUME NEW u \in Range(us)
      PROVE  u.file = f /\ (config.recursive => Piece(f, u.lines))
  <2>1. PICK p \in 1..n : u = [file |-> f, lines |-> parts[p]]
    <3> HIDE DEF us, parts, n
    <3> QED
      BY <1>2 DEF Range
  <2>2. u.file = f /\ u.lines = parts[p] /\ parts[p] \in Range(parts)
    BY <1>1, <2>1
  <2> QED
    BY <2>2, PartsIs
<1>7. ASSUME NEW x \in Seq(A)
      PROVE  /\ H[x] = [i \in 1..Len(x) |-> <<f, x[i]>>]
             /\ H[x] \in Seq(Tags) /\ Len(H[x]) = Len(x)
             /\ \A i \in 1..Len(x) : H[x][i] = <<f, x[i]>>
  <2>1. \A i \in 1..Len(x) : <<f, x[i]>> \in Tags
    BY DEF Tags, LineSet
  <2>2. Len(x) \in Nat
    OBVIOUS
  <2> HIDE DEF A
  <2> QED
    BY <2>1, <2>2
<1> HIDE DEF A, parts, us, n
<1>8. Respects(H, A, Tags)
  <2>1. H \in [Seq(A) -> Seq(Tags)]
    BY <1>7
  <2>2. <<>> \in Seq(A) /\ H[<<>>] = <<>>
    OBVIOUS
  <2> HIDE DEF H
  <2>3. ASSUME NEW a \in Seq(A), NEW b \in Seq(A) PROVE H[a \o b] = H[a] \o H[b]
    <3>1. /\ a \o b \in Seq(A) /\ Len(a \o b) = Len(a) + Len(b) /\ Len(a) \in Nat /\ Len(b) \in Nat
          /\ \A i \in 1..(Len(a) + Len(b)) : (a \o b)[i] = IF i <= Len(a) THEN a[i] ELSE b[i - Len(a)]
      BY ConcatProperties
    <3>2. /\ H[a] \in Seq(Tags) /\ Len(H[a]) = Len(a) /\ H[b] \in Seq(Tags) /\ Len(H[b]) = Len(b)
          /\ H[a \o b] \in Seq(Tags) /\ Len(H[a \o b]) = Len(a \o b)
      BY <1>7, <3>1
    <3>3. /\ H[a] \o H[b] \in Seq(Tags) /\ Len(H[a] \o H[b]) = Len(H[a]) + Len(H[b])
          /\ \A i \in 1..(Len(H[a]) + Len(H[b])) :
               (H[a] \o H[b])[i] = IF i <= Len(H[a]) THEN H[a][i] ELSE H[b][i - Len(H[a])]
      BY <3>2, ConcatProperties
    <3>4. ASSUME NEW i \in 1..(Len(a) + Len(b)) PROVE H[a \o b][i] = (H[a] \o H[b])[i]
      <4>1. H[a \o b][i] = <<f, (a \o b)[i]>>
        BY <1>7, <3>1
      <4>2. CASE i <= Len(a)
        <5>1. i \in 1..Len(a)
          BY <3>1, <4>2
        <5>2. H[a][i] = <<f, a[i]>>
          BY <1>7, <5>1
        <5> QED
          BY <3>1, <3>2, <3>3, <4>1, <4>2, <5>2
      <4>3. CASE ~(i <= Len(a))
        <5>1. i - Len(a) \in 1..Len(b)
          BY <3>1, <4>3
        <5>2. H[b][i - Len(a)] = <<f, b[i - Len(a)]>>
          BY <1>7, <5>1
        <5> QED
          BY <3>1, <3>2, <3>3, <4>1, <4>3, <5>2
      <4> QED
        BY <4>2, <4>3
    <3> DEFINE U == H[a \o b]
               W == H[a] \o H[b]
    <3>5. U \in Seq(Tags) /\ W \in Seq(Tags) /\ Len(U) = Len(a) + Len(b) /\ Len(W) = Len(a) + Len(b)
      BY <3>1, <3>2, <3>3
    <3>6. \A i \in 1..(Len(a) + Len(b)) : U[i] = W[i]
      BY <3>4
    <3> HIDE DEF U, W
    <3>7. U = W
      BY <3>5, <3>6, SeqEqual
    <3> QED
      BY <3>7 DEF U, W
  <2> QED
    BY <2>1, <2>2, <2>3 DEF Respects
<1>9. t \in Seq(Seq(Tags)) /\ Image(H, parts, t)
  <2>1. ASSUME NEW p \in 1..n PROVE Tagged(us[p]) = H[parts[p]] /\ Tagged(us[p]) \in Seq(Tags)
    <3>1. parts[p] \in Seq(A) /\ us[p] = [file |-> f, lines |-> parts[p]]
      BY <1>1, <1>2
    <3>2. Tagged(us[p]) = [i \in 1..Len(parts[p]) |-> <<f, parts[p][i]>>]
      BY <3>1 DEF Tagged
    <3> HIDE DEF H
    <3>3. H[parts[p]] = [i \in 1..Len(parts[p]) |-> <<f, parts[p][i]>>] /\ H[parts[p]] \in Seq(Tags)
      BY <1>7, <3>1
    <3> QED
      BY <3>2, <3>3
  <2> HIDE DEF H
  <2>2. t \in Seq(Seq(Tags)) /\ Len(t) = n
    BY <1>1, <2>1
  <2> QED
    BY <1>1, <2>1, <2>2 DEF Image, n
<1>10. TaggedLines(us) = FlattenSeq(t)
  BY <1>4 DEF TaggedLines
<1>11. H[FlattenSeq(parts)] = FlattenSeq(t)
  <2> HIDE DEF H, t
  <2> QED
    BY <1>1, <1>8, <1>9, FlattenImage
<1>12. H[LinesOf(f)] = Tagged([file |-> f, lines |-> LinesOf(f)])
  BY <1>1 DEF Tagged
<1>13. TaggedLines(us) = Tagged([file |-> f, lines |-> LinesOf(f)])
  <2> HIDE DEF H, t
  <2> QED
    BY <1>1, <1>10, <1>11, <1>12
<1> QED
  BY <1>4, <1>5, <1>6, <1>13 DEF us

-------------------------------------------------------------------------------
(* Batches *)

CostOf(batch) == Total([u \in 1..Len(batch) |-> Cost(batch[u].file, batch[u].lines)])

LEMMA CostOfAppend ==
  ASSUME Review, NEW batch \in Seq(UnitSpace), NEW u \in UnitSpace
  PROVE  /\ Cost(u.file, u.lines) \in Nat /\ CostOf(batch) \in Nat
         /\ CostOf(Append(batch, u)) = CostOf(batch) + Cost(u.file, u.lines)
         /\ CostOf(<<u>>) = Cost(u.file, u.lines) /\ CostOf(<<>>) = 0
<1> DEFINE C(v) == Cost(v.file, v.lines)
           costs == [i \in 1..Len(batch) |-> C(batch[i])]
           more == [i \in 1..Len(Append(batch, u)) |-> C(Append(batch, u)[i])]
<1>1. \A v \in UnitSpace : C(v) \in Nat
  BY CostType DEF UnitSpace
<1> HIDE DEF C
<1>2. costs \in Seq(Nat) /\ Len(costs) = Len(batch) /\ Len(batch) \in Nat
      /\ \A i \in 1..Len(batch) : costs[i] = C(batch[i])
  BY <1>1
<1>3. more = Append(costs, C(u))
  <2>1. Append(batch, u) \in Seq(UnitSpace) /\ Len(Append(batch, u)) = Len(batch) + 1
        /\ \A i \in 1..(Len(batch) + 1) :
             Append(batch, u)[i] = IF i <= Len(batch) THEN batch[i] ELSE u
    OBVIOUS
  <2>2. Append(costs, C(u)) \in Seq(Nat) /\ Len(Append(costs, C(u))) = Len(batch) + 1
        /\ \A i \in 1..(Len(batch) + 1) :
             Append(costs, C(u))[i] = IF i <= Len(batch) THEN costs[i] ELSE C(u)
    <3> HIDE DEF costs
    <3> QED
      BY <1>1, <1>2
  <2>3. more \in Seq(Nat) /\ Len(more) = Len(batch) + 1
        /\ \A i \in 1..(Len(batch) + 1) : more[i] = C(Append(batch, u)[i])
    BY <1>1, <2>1
  <2>4. ASSUME NEW i \in 1..(Len(batch) + 1) PROVE more[i] = Append(costs, C(u))[i]
    <3> HIDE DEF costs, more
    <3>1. i <= Len(batch) => i \in 1..Len(batch)
      BY <1>2
    <3> QED
      BY <1>2, <2>1, <2>2, <2>3, <3>1
  <2> DEFINE W == Append(costs, C(u))
  <2> HIDE DEF costs, more, W
  <2>5. more = W
    BY <1>2, <2>2, <2>3, <2>4, SeqEqual DEF W
  <2> QED
    BY <2>5 DEF W
<1>4. CostOf(batch) = Total(costs) /\ CostOf(Append(batch, u)) = Total(more)
  BY DEF CostOf, C
<1>5. C(u) \in Nat
  BY <1>1
<1>6. [i \in 1..Len(<<u>>) |-> C(<<u>>[i])] = <<C(u)>>
  OBVIOUS
<1>7. CostOf(<<u>>) = C(u)
  BY <1>5, <1>6, TotalOne DEF CostOf, C
<1>8. CostOf(<<>>) = 0
  <2>1. [i \in 1..Len(<<>>) |-> C(<<>>[i])] = <<>>
    OBVIOUS
  <2> QED
    BY <2>1, TotalEmpty DEF CostOf, C
<1> HIDE DEF costs, more
<1>9. Total(more) = Total(costs) + C(u) /\ Total(costs) \in Nat
  BY <1>2, <1>3, <1>5, TotalAppend, TotalType
<1> QED
  BY <1>4, <1>5, <1>7, <1>8, <1>9 DEF C

\* A batch within the budget, or of one unit.
Fair(batch) == CostOf(batch) <= Budget \/ Len(batch) = 1

Accs == [closed : Seq(Seq(UnitSpace)), open : Seq(UnitSpace), tokens : Nat]
Sound(acc, units) ==
  /\ acc \in Accs
  /\ FlattenSeq(acc.closed) \o acc.open = units
  /\ \A b \in Range(acc.closed) : Fair(b)
  /\ acc.tokens = CostOf(acc.open) /\ acc.tokens <= Budget

\* One more unit is packed (compress.batch_files).
LEMMA PackIs ==
  ASSUME Review, NEW units \in Seq(UnitSpace), NEW acc, Sound(acc, units), NEW unit \in UnitSpace
  PROVE  Sound(Pack(acc, unit), Append(units, unit))
<1> DEFINE cost == Cost(unit.file, unit.lines)
           closed == IF acc.open = <<>> THEN acc.closed ELSE Append(acc.closed, acc.open)
<1>1. /\ acc.closed \in Seq(Seq(UnitSpace)) /\ acc.open \in Seq(UnitSpace) /\ acc.tokens \in Nat
      /\ FlattenSeq(acc.closed) \o acc.open = units
      /\ acc.tokens = CostOf(acc.open) /\ acc.tokens <= Budget
      /\ acc = [closed |-> acc.closed, open |-> acc.open, tokens |-> acc.tokens]
  BY DEF Sound, Accs
<1>2. cost \in Nat /\ CostOf(<<unit>>) = cost /\ CostOf(<<>>) = 0 /\ Budget \in Nat \ {0}
      /\ CostOf(Append(acc.open, unit)) = CostOf(acc.open) + cost
  BY <1>1, CostOfAppend, BudgetType
<1>3. <<unit>> \in Seq(UnitSpace) /\ Len(<<unit>>) = 1 /\ Append(units, unit) = units \o <<unit>>
      /\ <<>> \in Seq(UnitSpace)
  OBVIOUS
<1>4. /\ closed \in Seq(Seq(UnitSpace))
      /\ FlattenSeq(closed) = units
      /\ \A b \in Range(closed) : Fair(b)
  <2>1. CASE acc.open = <<>>
    <3>1. FlattenSeq(acc.closed) \in Seq(UnitSpace)
      BY <1>1, FlattenType
    <3>2. FlattenSeq(acc.closed) \o <<>> = FlattenSeq(acc.closed)
      BY <3>1, ConcatEmptySeq
    <3> QED
      BY <1>1, <2>1, <3>2 DEF Sound
  <2>2. CASE acc.open # <<>>
    <3>1. closed = Append(acc.closed, acc.open)
      BY <2>2
    <3>2. FlattenSeq(Append(acc.closed, acc.open)) = FlattenSeq(acc.closed) \o acc.open
      BY <1>1, FlattenAppend
    <3>3. Range(Append(acc.closed, acc.open)) = Range(acc.closed) \cup {acc.open}
      BY <1>1, RangeAppend
    <3>4. Fair(acc.open)
      BY <1>1 DEF Fair
    <3>5. Append(acc.closed, acc.open) \in Seq(Seq(UnitSpace))
      BY <1>1
    <3> HIDE DEF closed
    <3> QED
      BY <1>1, <3>1, <3>2, <3>3, <3>4, <3>5 DEF Sound
  <2> QED
    BY <2>1, <2>2
<1>5. Pack(acc, unit) =
        IF cost >= Budget THEN [closed |-> Append(closed, <<unit>>), open |-> <<>>, tokens |-> 0]
        ELSE IF acc.tokens + cost > Budget THEN [closed |-> closed, open |-> <<unit>>, tokens |-> cost]
        ELSE [acc EXCEPT !.open = Append(@, unit), !.tokens = @ + cost]
  BY DEF Pack
<1> HIDE DEF cost, closed
<1>6. CASE cost >= Budget
  <2> DEFINE next == [closed |-> Append(closed, <<unit>>), open |-> <<>>, tokens |-> 0]
  <2>1. FlattenSeq(Append(closed, <<unit>>)) = units \o <<unit>>
    BY <1>3, <1>4, FlattenAppend
  <2>2. Range(Append(closed, <<unit>>)) = Range(closed) \cup {<<unit>>}
    <3>1. \A x \in Seq(Seq(UnitSpace)), y \in Seq(UnitSpace) : Range(Append(x, y)) = Range(x) \cup {y}
      BY RangeAppend
    <3> QED
      BY <1>3, <1>4, <3>1
  <2>3. Fair(<<unit>>)
    BY <1>3 DEF Fair
  <2>4. (units \o <<unit>>) \o <<>> = units \o <<unit>>
    <3>1. units \o <<unit>> \in Seq(UnitSpace)
      BY <1>3, ConcatProperties
    <3> QED
      BY <3>1, ConcatEmptySeq
  <2>5. next \in Accs
    BY <1>3, <1>4 DEF Accs
  <2>6. next.closed = Append(closed, <<unit>>) /\ next.open = <<>> /\ next.tokens = 0
    OBVIOUS
  <2>7. Sound(next, Append(units, unit))
    <3> HIDE DEF next
    <3>1. FlattenSeq(next.closed) \o next.open = Append(units, unit)
      BY <1>3, <2>1, <2>4, <2>6
    <3>2. \A b \in Range(next.closed) : Fair(b)
      BY <1>4, <2>2, <2>3, <2>6
    <3>3. next.tokens = CostOf(next.open) /\ next.tokens <= Budget
      BY <1>2, <2>6
    <3> QED
      BY <2>5, <3>1, <3>2, <3>3 DEF Sound
  <2> QED
    BY <1>5, <1>6, <2>7
<1>7. CASE ~(cost >= Budget) /\ acc.tokens + cost > Budget
  <2> DEFINE next == [closed |-> closed, open |-> <<unit>>, tokens |-> cost]
  <2>1. next \in Accs
    BY <1>2, <1>3, <1>4 DEF Accs
  <2>2. next.closed = closed /\ next.open = <<unit>> /\ next.tokens = cost
    OBVIOUS
  <2>3. Sound(next, Append(units, unit))
    <3> HIDE DEF next
    <3>1. FlattenSeq(next.closed) \o next.open = Append(units, unit)
      BY <1>3, <1>4, <2>2
    <3>2. \A b \in Range(next.closed) : Fair(b)
      BY <1>4, <2>2
    <3>3. next.tokens = CostOf(next.open) /\ next.tokens <= Budget
      BY <1>2, <1>7, <2>2
    <3> QED
      BY <2>1, <3>1, <3>2, <3>3 DEF Sound
  <2> QED
    BY <1>5, <1>7, <2>3
<1>8. CASE ~(cost >= Budget) /\ ~(acc.tokens + cost > Budget)
  <2> DEFINE next == [closed |-> acc.closed, open |-> Append(acc.open, unit), tokens |-> acc.tokens + cost]
  <2>1. Pack(acc, unit) = next
    BY <1>1, <1>5, <1>8
  <2>2. next \in Accs
    BY <1>1, <1>2 DEF Accs
  <2>3. FlattenSeq(acc.closed) \o Append(acc.open, unit) = Append(units, unit)
    <3>1. FlattenSeq(acc.closed) \in Seq(UnitSpace)
      BY <1>1, FlattenType
    <3>2. \A x, y, z \in Seq(UnitSpace) : (x \o y) \o z = x \o (y \o z)
      BY ConcatAssociative
    <3>3. Append(acc.open, unit) = acc.open \o <<unit>>
      BY <1>1
    <3> QED
      BY <1>1, <1>3, <3>1, <3>2, <3>3, SMTT(30)
  <2>4. Sound(next, Append(units, unit))
    <3>1. next.tokens = CostOf(next.open) /\ next.tokens <= Budget
      BY <1>1, <1>2, <1>8
    <3>2. FlattenSeq(next.closed) \o next.open = Append(units, unit)
      BY <2>3
    <3>3. \A b \in Range(next.closed) : Fair(b)
      BY <1>1 DEF Sound
    <3> HIDE DEF next
    <3> QED
      BY <2>2, <3>1, <3>2, <3>3 DEF Sound
  <2> QED
    BY <2>1, <2>4
<1> QED
  BY <1>6, <1>7, <1>8

LEMMA PackedIs ==
  ASSUME Review, NEW units \in Seq(UnitSpace)
  PROVE  Sound(Packed(units), units)
<1> DEFINE n == Len(units)
           V == {acc \in Accs : \E us \in Seq(UnitSpace) : Sound(acc, us)}
           base == [closed |-> <<>>, open |-> <<>>, tokens |-> 0]
           step == [i \in 1..n |-> [acc \in V |-> Pack(acc, units[i])]]
<1>0. n \in Nat /\ \A i \in 1..n : units[i] \in UnitSpace
  OBVIOUS
<1>1. Sound(base, <<>>) /\ <<>> \in Seq(UnitSpace) /\ base \in V
  <2>1. <<>> \in Seq(UnitSpace) /\ <<>> \in Seq(Seq(UnitSpace)) /\ Range(<<>>) = {}
    BY DEF Range
  <2>2. base.closed = <<>> /\ base.open = <<>> /\ base.tokens = 0 /\ base \in Accs
    BY <2>1 DEF Accs
  <2>3. FlattenSeq(<<>>) = <<>> /\ <<>> \o <<>> = <<>>
    BY <2>1, FlattenType, ConcatEmptySeq
  <2>4. CostOf(<<>>) = 0
    <3>1. [u \in 1..Len(<<>>) |-> Cost(<<>>[u].file, <<>>[u].lines)] = <<>>
      OBVIOUS
    <3> QED
      BY <3>1, TotalEmpty DEF CostOf
  <2>5. Budget \in Nat
    BY BudgetType
  <2> HIDE DEF base
  <2>6. Sound(base, <<>>)
    BY <2>1, <2>2, <2>3, <2>4, <2>5 DEF Sound
  <2> QED
    BY <2>1, <2>2, <2>6
<1>2. ASSUME NEW acc \in V, NEW u \in UnitSpace PROVE Pack(acc, u) \in V
  <2>1. PICK us \in Seq(UnitSpace) : Sound(acc, us)
    OBVIOUS
  <2>2. Sound(Pack(acc, u), Append(us, u)) /\ Append(us, u) \in Seq(UnitSpace)
    BY <2>1, PackIs
  <2>3. Pack(acc, u) \in Accs
    BY <2>2 DEF Sound
  <2> QED
    BY <2>2, <2>3
<1> HIDE DEF V, base, n
<1>3. step \in [1..n -> [V -> V]]
  BY <1>0, <1>2
<1>4. PICK r : Looped(r, n, V, base, step)
  <2> HIDE DEF step
  <2> QED
    BY <1>0, <1>1, <1>3, Loop
<1>5. ASSUME NEW i \in 1..n PROVE r[i] = Pack(r[i - 1], units[i])
  <2>1. i - 1 \in 0..n
    BY <1>0
  <2>2. r[i - 1] \in V /\ r[i] = step[i][r[i - 1]]
    BY <1>4, <2>1 DEF Looped
  <2> QED
    BY <2>2
<1>6. r = [i \in 0..n |-> IF i = 0 THEN base ELSE Pack(r[i - 1], units[i])]
  <2>1. r \in [0..n -> V] /\ r[0] = base
    BY <1>4 DEF Looped
  <2>2. ASSUME NEW i \in 0..n PROVE r[i] = IF i = 0 THEN base ELSE Pack(r[i - 1], units[i])
    <3>1. i # 0 => i \in 1..n
      BY <1>0
    <3> QED
      BY <1>5, <2>1, <3>1
  <2> QED
    BY <2>1, <2>2
<1> DEFINE g == CHOOSE g : g = [i \in 0..n |-> IF i = 0 THEN base ELSE Pack(g[i - 1], units[i])]
<1>7. g = [i \in 0..n |-> IF i = 0 THEN base ELSE Pack(g[i - 1], units[i])]
  BY <1>6, Zenon
<1>8. Packed(units) = g[n]
  BY Zenon DEF Packed, n, base
<1> HIDE DEF g
<1> DEFINE S == {i \in 0..n : Sound(g[i], SubSeq(units, 1, i))}
<1>9. 0 \in S
  <2>1. SubSeq(units, 1, 0) = <<>>
    BY SubSeqEmpty
  <2>2. g[0] = base /\ 0 \in 0..n
    BY <1>0, <1>7
  <2> QED
    BY <1>1, <2>1, <2>2
<1>10. ASSUME NEW i \in 1..n, i - 1 \in S PROVE i \in S
  <2>1. i \in 0..n /\ i # 0 /\ i \in 1..Len(units) /\ i - 1 \in 0..n
    BY <1>0 DEF n
  <2>2. g[i] = Pack(g[i - 1], units[i])
    BY <1>7, <2>1
  <2>3. SubSeq(units, 1, i - 1) \in Seq(UnitSpace)
    <3>1. \A j \in 1..(i - 1) : units[j] \in UnitSpace
      BY <1>0, <2>1
    <3> QED
      BY <2>1, <3>1, SubSeqProperties
  <2>4. SubSeq(units, 1, i) = SubSeq(units, 1, i - 1) \o <<units[i]>>
    <3>1. 1 \in 1..Len(units) /\ i \in 1..Len(units)
      BY <2>1
    <3> QED
      BY <3>1, SubSeqRecursiveSecond
  <2>5. SubSeq(units, 1, i) = Append(SubSeq(units, 1, i - 1), units[i])
    BY <2>3, <2>4
  <2>6. Sound(g[i - 1], SubSeq(units, 1, i - 1)) /\ units[i] \in UnitSpace
    BY <1>0, <1>10
  <2>7. Sound(Pack(g[i - 1], units[i]), Append(SubSeq(units, 1, i - 1), units[i]))
    BY <2>3, <2>6, PackIs
  <2> QED
    BY <2>1, <2>2, <2>5, <2>7
<1>11. n \in S
  <2> HIDE DEF S
  <2>1. 0..n \subseteq S
    BY <1>0, <1>9, <1>10, UpTo
  <2>2. n \in 0..n
    BY <1>0
  <2> QED
    BY <2>1, <2>2
<1>12. SubSeq(units, 1, n) = units
  BY SubSeqFull DEF n
<1> QED
  BY <1>8, <1>11, <1>12

\* The units of the review, in order.
AllUnits == FlattenSeq([i \in 1..Len(patches) |-> UnitsOf(patches[i])])
Wholes == [i \in 1..Len(patches) |-> [file |-> patches[i], lines |-> LinesOf(patches[i])]]

LEMMA AllUnitsIs ==
  ASSUME Review, patches \in Seq(Files)
  PROVE  /\ AllUnits \in Seq(UnitSpace)
         /\ {u.file : u \in Range(AllUnits)} = Range(patches)
         /\ config.recursive => \A u \in Range(AllUnits) : Piece(u.file, u.lines)
         /\ TaggedLines(AllUnits) = TaggedLines(Wholes)
<1> DEFINE n == Len(patches)
           ss == [i \in 1..n |-> UnitsOf(patches[i])]
           t == [i \in 1..n |-> Tagged(Wholes[i])]
<1>0. n \in Nat /\ Range(patches) = {patches[i] : i \in 1..n} /\ \A i \in 1..n : patches[i] \in Files
  BY DEF Range
<1>1. /\ ss \in Seq(Seq(UnitSpace)) /\ Len(ss) = n
      /\ \A i \in 1..n : ss[i] = UnitsOf(patches[i])
  <2>1. \A i \in 1..n : UnitsOf(patches[i]) \in Seq(UnitSpace)
    BY <1>0, UnitsIs
  <2> HIDE DEF n
  <2> QED
    BY <1>0, <2>1
<1>2. AllUnits = FlattenSeq(ss)
  BY DEF AllUnits
<1> HIDE DEF ss
<1>3. AllUnits \in Seq(UnitSpace)
  BY <1>1, <1>2, FlattenType
<1>4. Range(AllUnits) = UNION {Range(UnitsOf(patches[i])) : i \in 1..n}
  <2>1. Range(FlattenSeq(ss)) = UNION {Range(ss[i]) : i \in 1..Len(ss)}
    BY <1>1, FlattenRange
  <2> HIDE DEF n
  <2> QED
    BY <1>1, <1>2, <2>1
<1>5. {u.file : u \in Range(AllUnits)} = Range(patches)
  <2>1. ASSUME NEW i \in 1..n
        PROVE  /\ \A u \in Range(UnitsOf(patches[i])) : u.file = patches[i]
               /\ \E u \in Range(UnitsOf(patches[i])) : TRUE
    <3>1. UnitsOf(patches[i]) \in Seq(UnitSpace) /\ UnitsOf(patches[i]) # <<>>
      BY <1>0, UnitsIs
    <3>2. UnitsOf(patches[i])[1] \in Range(UnitsOf(patches[i]))
      BY <3>1, EmptySeq DEF Range
    <3> QED
      BY <1>0, <3>2, UnitsIs
  <2> HIDE DEF n
  <2> QED
    BY <1>0, <1>4, <2>1
<1>6. ASSUME config.recursive, NEW u \in Range(AllUnits) PROVE Piece(u.file, u.lines)
  <2>1. PICK i \in 1..n : u \in Range(UnitsOf(patches[i]))
    BY <1>4
  <2> QED
    BY <1>0, <1>6, <2>1, UnitsIs
<1>7. TaggedLines(AllUnits) = TaggedLines(Wholes)
  <2>1. ASSUME NEW i \in 1..n
        PROVE  /\ Wholes[i] = [file |-> patches[i], lines |-> LinesOf(patches[i])]
               /\ Tagged(Wholes[i]) = TaggedLines(UnitsOf(patches[i]))
               /\ Tagged(Wholes[i]) \in Seq(Tags)
    <3>1. Wholes[i] = [file |-> patches[i], lines |-> LinesOf(patches[i])]
      BY DEF Wholes
    <3>2. Wholes[i] \in UnitSpace
      BY <1>0, <3>1, LinesType, UnitMade
    <3>3. TaggedLines(UnitsOf(patches[i])) = Tagged(Wholes[i])
      BY <1>0, <3>1, UnitsIs
    <3> QED
      BY <3>1, <3>2, <3>3, TaggedType
  <2>2. /\ t \in Seq(Seq(Tags)) /\ Len(t) = n
        /\ \A i \in 1..n : t[i] = TaggedLines(ss[i])
    <3>1. \A i \in 1..n : Tagged(Wholes[i]) \in Seq(Tags) /\ Tagged(Wholes[i]) = TaggedLines(ss[i])
      BY <1>1, <2>1
    <3>2. n \in Nat
      BY <1>0
    <3> HIDE DEF n
    <3> QED
      BY <3>1, <3>2
  <2>3. TaggedLines(Wholes) = FlattenSeq(t)
    <3>1. Len(Wholes) = n
      BY <1>0 DEF Wholes
    <3> QED
      BY <3>1 DEF TaggedLines
  <2> HIDE DEF t, n
  <2>4. TaggedLines(FlattenSeq(ss)) = FlattenSeq(t)
    BY <1>1, <2>2, TaggedFlatten
  <2> QED
    BY <1>2, <2>3, <2>4
<1> QED
  BY <1>3, <1>5, <1>6, <1>7

-------------------------------------------------------------------------------
(* The invariant of the stages before the fan-out *)

FileStages == {"filter", "scan", "triage", "cap", "expand", "batch", "carry", "call",
               "summary", "done"}

FilesShape ==
  /\ Review
  /\ stage \in FileStages
  /\ patches \in Seq(Files)
  /\ oversized \subseteq Files /\ skipped \subseteq Files /\ hits \subseteq Files

\* Where every file is: a file the filters let through is in the review, or was
\* dropped by a stage that says so.
Accounted ==
  /\ \A f \in Range(patches) : InReview(f)
  /\ stage # "filter" =>
       \A f \in Files : InReview(f) => f \in Range(patches) \cup oversized \cup skipped \/ capped
  /\ stage \in {"filter", "scan"} => hits = {}
  /\ \A f \in hits : InReview(f) \/ diff[f].scannable
  /\ stage \in {"filter", "scan", "triage"} => skipped = {}
  /\ stage \in {"filter", "scan", "triage", "cap"} => ~capped

\* Until the cap, triage has put the floor first, and all of it.
FloorFirst ==
  stage = "cap" /\ skipped # {} =>
    /\ \A f \in Files : InReview(f) /\ f \notin oversized /\ AlwaysEscalate(f) =>
         f \in Range(patches)
    /\ \A i, j \in 1..Len(patches) :
         i < j /\ AlwaysEscalate(patches[j]) => AlwaysEscalate(patches[i])

\* The stages after batching, and a review that was not abandoned.
Settled == stage \in {"carry", "call", "summary"} \/ (stage = "done" /\ verdict # "raised")

LensesRun ==
  stage \notin {"filter", "scan"} /\ verdict # "raised" /\ patches # <<>> => Lenses # {}

\* The batches are the units of the files still in the review.
BatchedAll ==
  Settled =>
    /\ batches \in Seq(Seq(UnitSpace))
    /\ FlattenSeq(batches) = AllUnits
    /\ \A b \in DOMAIN batches : Fair(batches[b])

\* The summary says all that the stages left out.
Outcome ==
  /\ Settled /\ stage # "carry" => carrier = Carrier
  /\ stage # "done" => verdict = ""
  /\ stage # "done" \/ verdict = "raised" => marker = {}
  /\ stage = "done" /\ verdict # "raised" =>
       /\ BuildNotices \subseteq notices
       /\ verdict = "thumbsUp" => notices = {}
       /\ marker = LensesMarker

FilesInv ==
  FilesShape /\ Accounted /\ FloorFirst /\ FloorComesFirst /\ LensesRun /\ BatchedAll
  /\ Outcome

-------------------------------------------------------------------------------
(* What a step leaves alone *)

\* The units of a review are made of its diff, its settings and its padding.
LEMMA UnitsStand ==
  ASSUME diff' = diff, config' = config, pad' = pad, patches' = patches
  PROVE  /\ AllUnits' = AllUnits
         /\ UnitSpace' = UnitSpace
         /\ \A batch : Fair(batch)' <=> Fair(batch)
<1>1. AllUnits' = AllUnits
  BY DEF AllUnits, UnitsOf, PartsOf, Walked, PartsOfHunk, SplitHunk, SliceEnd, Budget, Cost, Total,
     LinesOf, LinesOfHunk, HunkOf
<1>2. UnitSpace' = UnitSpace
  BY DEF UnitSpace, LineSet, Files, HunkOf
<1>3. ASSUME NEW batch PROVE Fair(batch)' <=> Fair(batch)
  BY DEF Fair, CostOf, Total, Cost, HunkOf, Budget
<1> QED
  BY <1>1, <1>2, <1>3

LEMMA LensesStand ==
  ASSUME config' = config, spec' = spec
  PROVE  Lenses' = Lenses
BY DEF Lenses, Stated

LEMMA FloorStands ==
  ASSUME diff' = diff, hits' = hits
  PROVE  /\ Files' = Files
         /\ \A f : InReview(f)' <=> InReview(f)
         /\ \A f : AlwaysEscalate(f)' <=> AlwaysEscalate(f)
BY DEF Files, InReview, AlwaysEscalate

\* The stages that change neither the files of the review nor what is known of
\* them: what the invariant says of these stands.
LEMMA FilesStand ==
  ASSUME FilesShape, Accounted, FloorComesFirst, LensesRun,
         UNCHANGED <<input, patches, oversized, skipped, capped, hits>>,
         pad' \in Nat, stage' \in FileStages \ {"filter", "scan", "triage", "cap"},
         stage \notin {"filter", "scan", "triage", "cap"}, verdict' # "raised" => verdict # "raised"
  PROVE  (FilesShape /\ Accounted /\ FloorFirst /\ FloorComesFirst /\ LensesRun)'
<1>1. diff' = diff /\ config' = config /\ spec' = spec /\ hits' = hits
  BY DEF input
<1>2. FilesShape'
  BY <1>1 DEF FilesShape, Review, Files
<1>3. Accounted'
  BY <1>1, FloorStands DEF Accounted, FilesShape
<1>4. FloorFirst'
  BY DEF FloorFirst
<1>5. FloorComesFirst'
  BY <1>1, FloorStands DEF FloorComesFirst
<1>6. LensesRun'
  BY <1>1, LensesStand DEF LensesRun
<1> QED
  BY <1>2, <1>3, <1>4, <1>5, <1>6

\* Before the batches are made there is nothing to say of them.
LEMMA Unsettled ==
  ASSUME stage' \notin {"carry", "call", "summary", "done"}, verdict' = "", marker' = {}
  PROVE  BatchedAll' /\ Outcome'
BY DEF BatchedAll, Outcome, Settled

\* Once they are made, they stay.
LEMMA BatchesStand ==
  ASSUME BatchedAll, Settled, UNCHANGED <<input, patches, pad, batches>>
  PROVE  BatchedAll'
<1>1. diff' = diff /\ config' = config /\ pad' = pad /\ patches' = patches
  BY DEF input
<1>2. AllUnits' = AllUnits /\ UnitSpace' = UnitSpace /\ \A batch : Fair(batch)' <=> Fair(batch)
  BY <1>1, UnitsStand
<1> QED
  BY <1>2 DEF BatchedAll

-------------------------------------------------------------------------------
(* The files' invariant at the start, and each stage of it *)

LEMMA RangeEmpty == Range(<<>>) = {}
<1>1. DOMAIN <<>> = {}
  OBVIOUS
<1> QED
  BY <1>1 DEF Range

LEMMA NothingInRange ==
  ASSUME NEW A, NEW s \in Seq(A), Range(s) = {}
  PROVE  s = <<>>
<1> SUFFICES ASSUME s # <<>> PROVE FALSE
  OBVIOUS
<1>1. 1 \in DOMAIN s
  BY EmptySeq
<1> QED
  BY <1>1 DEF Range

LEMMA FilesInitInv == FilesInit => FilesInv
<1> SUFFICES ASSUME FilesInit PROVE FilesInv
  OBVIOUS
<1> USE DEF FilesInit
<1>1. FilesShape
  <2>1. diff \in Seq(FileSpace) /\ config \in ReviewConfigSpace
    BY BudgetAssumption
  <2>2. stage \in FileStages /\ pad \in Nat
    BY DEF FileStages
  <2>3. patches \in Seq(Files)
    BY EmptySeq
  <2> QED
    BY <2>1, <2>2, <2>3 DEF FilesShape, Review
<1>2. Accounted
  <2>1. Range(patches) = {}
    BY RangeEmpty
  <2> QED
    BY <2>1 DEF Accounted
<1>3. FloorFirst /\ FloorComesFirst /\ LensesRun
  BY DEF FloorFirst, FloorComesFirst, LensesRun
<1>4. BatchedAll /\ Outcome
  BY DEF BatchedAll, Outcome, Settled
<1> QED
  BY <1>1, <1>2, <1>3, <1>4 DEF FilesInv

LEMMA FilterFilesStep == FilesInv /\ FilterFiles => FilesInv'
<1> SUFFICES ASSUME FilesInv, FilterFiles PROVE FilesInv'
  OBVIOUS
<1> DEFINE reviewed == {f \in Files : InReview(f)}
           big == {f \in reviewed : config.maxLines # 0 /\ diff[f].length > config.maxLines}
<1>1. /\ stage = "filter" /\ stage' = "scan" /\ diff' = diff /\ config' = config /\ pad' = pad
      /\ patches' = InOrder(reviewed \ big) /\ oversized' = big
      /\ UNCHANGED <<skipped, capped, hits, verdict, marker>>
  BY DEF FilterFiles, input, outcome
<1>2. patches' \in Seq(Files) /\ Range(patches') = reviewed \ big
  <2>1. diff \in Seq(FileSpace)
    BY DEF FilesInv, FilesShape, Review
  <2>2. patches' \in Seq(Files) /\ Range(patches') = (reviewed \ big) \cap Files
    BY <1>1, <2>1, InOrderIs
  <2> QED
    BY <2>2
<1>3. Files' = Files /\ \A f : InReview(f)' <=> InReview(f)
  BY <1>1, FloorStands
<1>4. FilesShape'
  BY <1>1, <1>2, <1>3 DEF FilesInv, FilesShape, Review, FileStages
<1>5. Accounted'
  BY <1>1, <1>2, <1>3 DEF FilesInv, Accounted
<1>6. FloorFirst' /\ FloorComesFirst' /\ LensesRun'
  BY <1>1 DEF FilesInv, Accounted, FloorFirst, FloorComesFirst, LensesRun
<1>7. BatchedAll' /\ Outcome'
  BY <1>1, Unsettled DEF FilesInv, Outcome
<1> QED
  BY <1>4, <1>5, <1>6, <1>7 DEF FilesInv

LEMMA FailLoudStep == FilesInv /\ FailLoud => FilesInv'
<1> SUFFICES ASSUME FilesInv, FailLoud PROVE FilesInv'
  OBVIOUS
<1>1. /\ stage = "scan" /\ stage' = "done" /\ verdict' = "raised" /\ pad' = pad
      /\ UNCHANGED <<diff, config, patches, oversized, skipped, capped, hits, marker>>
  BY DEF FailLoud, input
<1>2. Files' = Files /\ \A f : InReview(f)' <=> InReview(f)
  BY <1>1, FloorStands
<1>3. FilesShape'
  BY <1>1, <1>2 DEF FilesInv, FilesShape, Review, FileStages
<1>4. Accounted'
  BY <1>1, <1>2 DEF FilesInv, Accounted
<1>5. FloorFirst' /\ FloorComesFirst' /\ LensesRun'
  BY <1>1 DEF FilesInv, Accounted, FloorFirst, FloorComesFirst, LensesRun
<1>6. BatchedAll' /\ Outcome'
  BY <1>1 DEF FilesInv, BatchedAll, Outcome, Settled
<1> QED
  BY <1>3, <1>4, <1>5, <1>6 DEF FilesInv

LEMMA ScanFilesStep == FilesInv /\ ScanFiles => FilesInv'
<1> SUFFICES ASSUME FilesInv, ScanFiles PROVE FilesInv'
  OBVIOUS
<1>1. /\ stage = "scan" /\ ~NoLens /\ stage' = "triage" /\ pad' = pad
      /\ UNCHANGED <<diff, config, spec, patches, oversized, skipped, capped, verdict, marker>>
  BY DEF ScanFiles, input, outcome
<1>2. hits' \subseteq Corpus
  BY DEF ScanFiles
<1>3. Files' = Files /\ \A f : InReview(f)' <=> InReview(f)
  BY <1>1 DEF Files, InReview
<1>4. hits' \subseteq Files /\ \A f \in hits' : InReview(f) \/ diff[f].scannable
  <2>1. Range(patches) \subseteq Files
    BY DEF FilesInv, FilesShape, Range
  <2> QED
    BY <1>2, <2>1 DEF Corpus, FilesInv, Accounted
<1>5. FilesShape'
  BY <1>1, <1>3, <1>4 DEF FilesInv, FilesShape, Review, FileStages
<1>6. Accounted'
  BY <1>1, <1>3, <1>4 DEF FilesInv, Accounted
<1>7. FloorFirst' /\ FloorComesFirst'
  BY <1>1 DEF FilesInv, Accounted, FloorFirst, FloorComesFirst
<1>8. LensesRun'
  BY <1>1, LensesStand DEF LensesRun, NoLens
<1>9. BatchedAll' /\ Outcome'
  BY <1>1, Unsettled DEF FilesInv, Outcome
<1> QED
  BY <1>5, <1>6, <1>7, <1>8, <1>9 DEF FilesInv

LEMMA TriageKeepsAllStep == FilesInv /\ TriageKeepsAll => FilesInv'
<1> SUFFICES ASSUME FilesInv, TriageKeepsAll PROVE FilesInv'
  OBVIOUS
<1>1. /\ stage = "triage" /\ stage' = "cap" /\ pad' = pad
      /\ UNCHANGED <<diff, config, spec, patches, oversized, skipped, capped, hits, verdict, marker>>
  BY DEF TriageKeepsAll, input, outcome
<1>2. Files' = Files /\ \A f : InReview(f)' <=> InReview(f)
  BY <1>1, FloorStands
<1>3. FilesShape'
  BY <1>1, <1>2 DEF FilesInv, FilesShape, Review, FileStages
<1>4. Accounted'
  BY <1>1, <1>2 DEF FilesInv, Accounted
<1>5. FloorFirst' /\ FloorComesFirst'
  BY <1>1 DEF FilesInv, Accounted, FloorFirst, FloorComesFirst
<1>6. LensesRun'
  BY <1>1, LensesStand DEF FilesInv, LensesRun
<1>7. BatchedAll' /\ Outcome'
  BY <1>1, Unsettled DEF FilesInv, Outcome
<1> QED
  BY <1>3, <1>4, <1>5, <1>6, <1>7 DEF FilesInv

LEMMA FilesFinite ==
  ASSUME NEW A, diff \in Seq(A), NEW S \in SUBSET Files
  PROVE  IsFiniteSet(S) /\ Cardinality(S) \in Nat
<1>1. IsFiniteSet(Files)
  BY FS_Interval DEF Files
<1> QED
  BY <1>1, FS_Subset, FS_CardinalityType

\* The floor goes before the survivors, and none of it is left out.
LEMMA TriageStep == FilesInv /\ Triage => FilesInv'
<1> SUFFICES ASSUME FilesInv, Triage PROVE FilesInv'
  OBVIOUS
<1>1. /\ stage = "triage" /\ stage' = "cap" /\ pad' = pad
      /\ UNCHANGED <<diff, config, spec, oversized, capped, hits, verdict, marker>>
  BY DEF Triage, input, outcome
<1>0. PICK keeps \in SUBSET TriageCandidates, risk \in [TriageCandidates -> {0, 10}] :
        /\ \E order \in Rankings(keeps, risk) : patches' = InOrder(Floor) \o order
        /\ skipped' = TriageCandidates \ keeps
  BY DEF Triage
<1>2. PICK order \in Rankings(keeps, risk) :
        patches' = InOrder(Floor) \o order /\ skipped' = TriageCandidates \ keeps
  BY <1>0
<1>3. /\ Floor \subseteq Files /\ TriageCandidates \subseteq Files
      /\ Range(patches) = Floor \cup TriageCandidates
      /\ \A f \in TriageCandidates : ~AlwaysEscalate(f) /\ f \in Range(patches)
      /\ \A f \in Floor : AlwaysEscalate(f) /\ f \in Range(patches)
  <2>1. Range(patches) \subseteq Files
    BY DEF FilesInv, FilesShape, Range
  <2> QED
    BY <2>1 DEF Floor, TriageCandidates
<1>4. diff \in Seq(FileSpace)
  BY DEF FilesInv, FilesShape, Review
<1> DEFINE first == InOrder(Floor)
<1>5. first \in Seq(Files) /\ Range(first) = Floor
  <2>1. Floor \cap Files = Floor
    BY <1>3
  <2>2. first \in Seq(Files) /\ Range(first) = Floor \cap Files
    BY <1>4, InOrderIs
  <2> QED
    BY <2>1, <2>2
<1> HIDE DEF first
<1>6. order \in Seq(Files) /\ Range(order) = keeps
  <2>1. keeps \subseteq Files /\ Cardinality(keeps) \in Nat
    BY <1>3, <1>4, FilesFinite
  <2>2. order \in [1..Cardinality(keeps) -> keeps] /\ Range(order) = keeps
    BY DEF Rankings
  <2> QED
    BY <2>1, <2>2
<1>7. patches' \in Seq(Files) /\ Range(patches') = Floor \cup keeps /\ patches' = first \o order
  <2>1. patches' = first \o order
    BY <1>2 DEF first
  <2> QED
    BY <1>5, <1>6, <2>1, RangeConcat
<1>8. Files' = Files /\ \A f : (InReview(f)' <=> InReview(f)) /\ (AlwaysEscalate(f)' <=> AlwaysEscalate(f))
  BY <1>1, FloorStands
<1>9. FilesShape'
  BY <1>1, <1>2, <1>3, <1>7, <1>8 DEF FilesInv, FilesShape, Review, FileStages
<1>10. Accounted'
  BY <1>1, <1>2, <1>3, <1>7, <1>8 DEF FilesInv, Accounted
<1>11. FloorFirst'
  <2>1. ASSUME NEW f \in Files, InReview(f), f \notin oversized, AlwaysEscalate(f)
        PROVE  f \in Range(patches')
    <3>1. f \in Range(patches)
      BY <1>1, <2>1 DEF FilesInv, Accounted
    <3> QED
      BY <1>3, <1>7, <2>1, <3>1
  <2>2. ASSUME NEW i \in 1..Len(patches'), NEW j \in 1..Len(patches'), i < j,
               AlwaysEscalate(patches'[j])
        PROVE  AlwaysEscalate(patches'[i])
    <3>1. /\ Len(patches') = Len(first) + Len(order)
          /\ \A n \in 1..Len(patches') :
               patches'[n] = IF n <= Len(first) THEN first[n] ELSE order[n - Len(first)]
          /\ Len(first) \in Nat /\ Len(order) \in Nat
      BY <1>5, <1>6, <1>7
    <3>2. ASSUME NEW n \in 1..Len(first) PROVE first[n] \in Floor
      BY <1>5 DEF Range
    <3>3. ASSUME NEW n \in 1..Len(order) PROVE order[n] \in keeps
      BY <1>6 DEF Range
    <3>4. j <= Len(first)
      <4> SUFFICES ASSUME j > Len(first) PROVE FALSE
        BY <3>1
      <4>1. j - Len(first) \in 1..Len(order) /\ patches'[j] = order[j - Len(first)]
        BY <3>1
      <4> QED
        BY <1>3, <2>2, <3>3, <4>1
    <3>5. i \in 1..Len(first) /\ patches'[i] = first[i]
      BY <2>2, <3>1, <3>4
    <3>6. first[i] \in Floor
      BY <3>2, <3>5
    <3>7. AlwaysEscalate(first[i])
      BY <3>6 DEF Floor, AlwaysEscalate
    <3> QED
      BY <3>5, <3>7, Zenon
  <2> QED
    BY <1>1, <1>8, <2>1, <2>2 DEF FloorFirst
<1>12. FloorComesFirst'
  <2>1. ASSUME NEW f \in skipped' PROVE f \notin hits /\ ~diff[f].risky
    BY <1>2, <1>3 DEF AlwaysEscalate
  <2> QED
    BY <1>1, <2>1 DEF FloorComesFirst
<1>13. LensesRun'
  <2>1. patches' # <<>> => patches # <<>>
    <3> SUFFICES ASSUME patches = <<>> PROVE patches' = <<>>
      OBVIOUS
    <3>1. Floor = {} /\ keeps = {}
      BY <1>3 DEF Range
    <3>2. Range(patches') = {}
      BY <1>7, <3>1
    <3> QED
      BY <1>7, <3>2, NothingInRange
  <2> QED
    BY <1>1, <2>1, LensesStand DEF FilesInv, LensesRun
<1>14. BatchedAll' /\ Outcome'
  BY <1>1, Unsettled DEF FilesInv, Outcome
<1> QED
  BY <1>9, <1>10, <1>11, <1>12, <1>13, <1>14 DEF FilesInv

\* The cap keeps a head of the ranking, so nothing of the floor goes before the
\* rest does.
LEMMA CapFilesStep == FilesInv /\ CapFiles => FilesInv'
<1> SUFFICES ASSUME FilesInv, CapFiles PROVE FilesInv'
  OBVIOUS
<1> DEFINE m == Min({Len(patches), config.maxFiles})
<1>1. /\ stage = "cap" /\ stage' = "expand" /\ pad' = pad
      /\ patches' = SubSeq(patches, 1, m) /\ capped' = (Len(patches) > config.maxFiles)
      /\ UNCHANGED <<diff, config, spec, oversized, skipped, hits, verdict, marker>>
  BY DEF CapFiles, input, outcome
<1>2. patches \in Seq(Files) /\ Len(patches) \in Nat /\ config.maxFiles \in Nat
  BY DEF FilesInv, FilesShape, Review, ReviewConfigSpace
<1>3. m \in 0..Len(patches) /\ (m = Len(patches) \/ m = config.maxFiles)
      /\ (Len(patches) <= config.maxFiles => m = Len(patches))
  <2> DEFINE a == Len(patches)
             b == config.maxFiles
  <2>1. a \in Nat /\ b \in Nat
    BY <1>2
  <2> HIDE DEF a, b
  <2>2. \E x \in {a, b} : \A y \in {a, b} : x <= y
    BY <2>1
  <2>3. Min({a, b}) \in {a, b} /\ \A y \in {a, b} : Min({a, b}) <= y
    BY <2>2, Zenon DEF Min
  <2>4. Min({a, b}) \in 0..a /\ (Min({a, b}) = a \/ Min({a, b}) = b) /\ (a <= b => Min({a, b}) = a)
    BY <2>1, <2>3
  <2> QED
    BY <2>4 DEF a, b
<1> HIDE DEF m
<1>4. /\ patches' \in Seq(Files) /\ Len(patches') = m /\ m \in Nat
      /\ \A i \in 1..m : patches'[i] = patches[i] /\ i \in 1..Len(patches)
  BY <1>1, <1>2, <1>3
<1>5. Range(patches') \subseteq Range(patches)
  BY <1>4 DEF Range
<1>6. ~capped' => Range(patches') = Range(patches)
  <2> SUFFICES ASSUME ~capped' PROVE Range(patches) \subseteq Range(patches')
    BY <1>5
  <2>1. ~(Len(patches) > config.maxFiles)
    BY <1>1, Zenon
  <2>2. m = Len(patches)
    BY <1>2, <1>3, <2>1
  <2> QED
    BY <1>4, <1>2, <2>2 DEF Range
<1>7. Files' = Files /\ \A f : (InReview(f)' <=> InReview(f)) /\ (AlwaysEscalate(f)' <=> AlwaysEscalate(f))
  BY <1>1, FloorStands
<1>8. FilesShape'
  BY <1>1, <1>4, <1>7 DEF FilesInv, FilesShape, Review, FileStages
<1>9. Accounted'
  BY <1>1, <1>5, <1>6, <1>7 DEF FilesInv, Accounted
<1>10. FloorFirst'
  BY <1>1 DEF FloorFirst
<1>11. FloorComesFirst'
  <2>1. ASSUME skipped # {}, NEW f \in Files, NEW g \in Files, InReview(f), f \notin oversized,
               AlwaysEscalate(f), g \in Range(patches'), ~AlwaysEscalate(g)
        PROVE  f \in Range(patches')
    <3>1. f \in Range(patches)
          /\ \A i, j \in 1..Len(patches) :
               i < j /\ AlwaysEscalate(patches[j]) => AlwaysEscalate(patches[i])
      BY <1>1, <2>1 DEF FilesInv, FloorFirst
    <3>2. PICK i \in 1..Len(patches) : patches[i] = f
      BY <1>2, <3>1 DEF Range
    <3>3. PICK j \in 1..m : patches'[j] = g
      BY <1>4, <2>1 DEF Range
    <3>4. patches[j] = g /\ j \in 1..Len(patches)
      BY <1>4, <3>3
    <3>5. ~(j < i) /\ j # i
      BY <2>1, <3>1, <3>2, <3>4
    <3>6. i \in 1..m
      BY <1>2, <1>3, <3>2, <3>3, <3>5
    <3> QED
      BY <1>4, <3>2, <3>6 DEF Range
  <2> QED
    BY <1>1, <1>7, <2>1 DEF FilesInv, FloorComesFirst
<1>12. LensesRun'
  <2>1. patches' # <<>> => patches # <<>>
    BY <1>4, <1>3, <1>2
  <2> QED
    BY <1>1, <2>1, LensesStand DEF FilesInv, LensesRun
<1>13. BatchedAll' /\ Outcome'
  BY <1>1, Unsettled DEF FilesInv, Outcome
<1> QED
  BY <1>8, <1>9, <1>10, <1>11, <1>12, <1>13 DEF FilesInv

LEMMA ExpandContextStep == FilesInv /\ ExpandContext => FilesInv'
<1> SUFFICES ASSUME FilesInv, ExpandContext PROVE FilesInv'
  OBVIOUS
<1>1. /\ stage = "expand" /\ stage' = "batch"
      /\ UNCHANGED <<input, patches, oversized, skipped, capped, hits, verdict, marker>>
  BY DEF ExpandContext, outcome
<1>2. pad' \in Nat
  BY BudgetAssumption DEF ExpandContext
<1>3. (FilesShape /\ Accounted /\ FloorFirst /\ FloorComesFirst /\ LensesRun)'
  BY <1>1, <1>2, FilesStand DEF FilesInv, FileStages
<1>4. BatchedAll' /\ Outcome'
  BY <1>1, Unsettled DEF FilesInv, Outcome
<1> QED
  BY <1>3, <1>4 DEF FilesInv

\* The batches are the units that were packed.
LEMMA BatchesMade ==
  ASSUME Review, NEW units \in Seq(UnitSpace), NEW all,
         all = IF Packed(units).open = <<>> THEN Packed(units).closed
               ELSE Append(Packed(units).closed, Packed(units).open)
  PROVE  /\ all \in Seq(Seq(UnitSpace))
         /\ FlattenSeq(all) = units
         /\ \A b \in DOMAIN all : Fair(all[b])
<1> DEFINE closed == Packed(units).closed
           last == Packed(units).open
<1>1. /\ closed \in Seq(Seq(UnitSpace)) /\ last \in Seq(UnitSpace)
      /\ FlattenSeq(closed) \o last = units
      /\ \A b \in Range(closed) : Fair(b)
      /\ CostOf(last) <= Budget
  <2>1. Sound(Packed(units), units)
    BY PackedIs
  <2> QED
    BY <2>1 DEF Sound, Accs
<1>2. all = IF last = <<>> THEN closed ELSE Append(closed, last)
  OBVIOUS
<1> HIDE DEF closed, last
<1>3. CASE last = <<>>
  <2>1. FlattenSeq(closed) \in Seq(UnitSpace)
    BY <1>1, FlattenType
  <2>2. FlattenSeq(closed) = units
    BY <1>1, <1>3, <2>1, ConcatEmptySeq
  <2> QED
    BY <1>1, <1>2, <1>3, <2>2 DEF Range
<1>4. CASE last # <<>>
  <2>1. all = Append(closed, last)
    BY <1>2, <1>4
  <2> DEFINE S == Seq(UnitSpace)
  <2>a. closed \in Seq(S) /\ last \in S
    BY <1>1
  <2> HIDE DEF S
  <2>b. Append(closed, last) \in Seq(S) /\ Range(Append(closed, last)) = Range(closed) \cup {last}
    BY <2>a, RangeAppend
  <2>2. all \in Seq(Seq(UnitSpace))
    BY <2>1, <2>b DEF S
  <2>3. FlattenSeq(all) = units
    BY <1>1, <2>1, FlattenAppend
  <2>4. Range(all) = Range(closed) \cup {last}
    BY <2>1, <2>b
  <2>5. Fair(last)
    BY <1>1 DEF Fair
  <2>6. \A b \in DOMAIN all : all[b] \in Range(all)
    BY DEF Range
  <2>7. \A b \in DOMAIN all : Fair(all[b])
    BY <1>1, <2>4, <2>5, <2>6, Zenon
  <2> QED
    BY <2>2, <2>3, <2>7
<1> QED
  BY <1>3, <1>4

LEMMA BatchFilesStep == FilesInv /\ BatchFiles => FilesInv'
<1> SUFFICES ASSUME FilesInv, BatchFiles PROVE FilesInv'
  OBVIOUS
<1>1. /\ stage = "batch" /\ stage' = "carry" /\ pad' = pad
      /\ UNCHANGED <<input, patches, oversized, skipped, capped, hits, verdict, marker>>
      /\ diff' = diff /\ config' = config
  BY DEF BatchFiles, outcome, input
<1>2. batches' = IF Packed(AllUnits).open = <<>> THEN Packed(AllUnits).closed
                 ELSE Append(Packed(AllUnits).closed, Packed(AllUnits).open)
  BY DEF BatchFiles, AllUnits
<1>3. Review /\ patches \in Seq(Files)
  BY DEF FilesInv, FilesShape
<1>4. AllUnits \in Seq(UnitSpace)
  BY <1>3, AllUnitsIs
<1>5. /\ batches' \in Seq(Seq(UnitSpace))
      /\ FlattenSeq(batches') = AllUnits
      /\ \A b \in DOMAIN batches' : Fair(batches'[b])
  BY <1>2, <1>3, <1>4, BatchesMade
<1>6. AllUnits' = AllUnits /\ UnitSpace' = UnitSpace /\ \A batch : Fair(batch)' <=> Fair(batch)
  BY <1>1, UnitsStand
<1>7. BatchedAll'
  BY <1>5, <1>6 DEF BatchedAll
<1>8. (FilesShape /\ Accounted /\ FloorFirst /\ FloorComesFirst /\ LensesRun)'
  BY <1>1, <1>3, FilesStand DEF FilesInv, FileStages, Review
<1>9. Outcome'
  BY <1>1 DEF FilesInv, Outcome, Settled
<1> QED
  BY <1>7, <1>8, <1>9 DEF FilesInv

LEMMA CarrierStands ==
  ASSUME UNCHANGED <<input, hits, batches>>
  PROVE  Carrier' = Carrier
BY DEF input, Carrier, Unbatched, Hints, Batched, FilesOf, Lenses, Stated

LEMMA CarryHintsStep == FilesInv /\ CarryHints => FilesInv'
<1> SUFFICES ASSUME FilesInv, CarryHints PROVE FilesInv'
  OBVIOUS
<1>1. /\ stage = "carry" /\ stage' = "call" /\ pad' = pad /\ carrier' = Carrier
      /\ UNCHANGED <<input, patches, oversized, skipped, capped, hits, batches, verdict, marker>>
  BY DEF CarryHints, outcome
<1>2. (FilesShape /\ Accounted /\ FloorFirst /\ FloorComesFirst /\ LensesRun)'
  BY <1>1, FilesStand DEF FilesInv, FilesShape, FileStages, Review
<1>3. BatchedAll'
  BY <1>1, BatchesStand DEF FilesInv, Settled
<1>4. Outcome'
  BY <1>1, CarrierStands DEF FilesInv, Outcome
<1> QED
  BY <1>2, <1>3, <1>4 DEF FilesInv

LEMMA CallLensesStep == FilesInv /\ CallLenses => FilesInv'
<1> SUFFICES ASSUME FilesInv, CallLenses PROVE FilesInv'
  OBVIOUS
<1>1. /\ stage = "call" /\ stage' = "summary" /\ pad' = pad
      /\ UNCHANGED <<input, patches, oversized, skipped, capped, hits, batches, carrier,
                     verdict, marker>>
  BY DEF CallLenses
<1>2. (FilesShape /\ Accounted /\ FloorFirst /\ FloorComesFirst /\ LensesRun)'
  BY <1>1, FilesStand DEF FilesInv, FilesShape, FileStages, Review
<1>3. BatchedAll'
  BY <1>1, BatchesStand DEF FilesInv, Settled
<1>4. Outcome'
  BY <1>1, CarrierStands DEF FilesInv, Outcome, Settled
<1> QED
  BY <1>2, <1>3, <1>4 DEF FilesInv

LEMMA RaiseIncompleteStep == FilesInv /\ RaiseIncomplete => FilesInv'
<1> SUFFICES ASSUME FilesInv, RaiseIncomplete PROVE FilesInv'
  OBVIOUS
<1>1. /\ stage = "summary" /\ stage' = "done" /\ pad' = pad /\ verdict' = "raised"
      /\ UNCHANGED <<input, patches, oversized, skipped, capped, hits, batches, carrier, marker>>
  BY DEF RaiseIncomplete
<1>2. (FilesShape /\ Accounted /\ FloorFirst /\ FloorComesFirst /\ LensesRun)'
  BY <1>1, FilesStand DEF FilesInv, FilesShape, FileStages, Review
<1>3. BatchedAll'
  BY <1>1 DEF BatchedAll, Settled
<1>4. Outcome'
  BY <1>1 DEF FilesInv, Outcome, Settled
<1> QED
  BY <1>2, <1>3, <1>4 DEF FilesInv

LEMMA ComposeSummaryStep == FilesInv /\ ComposeSummary => FilesInv'
<1> SUFFICES ASSUME FilesInv, ComposeSummary PROVE FilesInv'
  OBVIOUS
<1>1. /\ stage = "summary" /\ stage' = "done" /\ pad' = pad /\ marker' = LensesMarker
      /\ UNCHANGED <<input, patches, oversized, skipped, capped, hits, batches, carrier, failed>>
  BY DEF ComposeSummary
<1>2. BuildNotices \subseteq notices'
  BY DEF ComposeSummary
<1>3. verdict' # "raised" /\ (verdict' = "thumbsUp" => notices' = {})
  BY DEF ComposeSummary
<1>4. verdict = ""
  BY <1>1 DEF FilesInv, Outcome
<1>5. (FilesShape /\ Accounted /\ FloorFirst /\ FloorComesFirst /\ LensesRun)'
  BY <1>1, <1>4, FilesStand DEF FilesInv, FilesShape, FileStages, Review
<1>6. BatchedAll'
  BY <1>1, BatchesStand DEF FilesInv, Settled
<1>7. BuildNotices' = BuildNotices /\ LensesMarker' = LensesMarker
  BY <1>1 DEF input, BuildNotices, Dropped, LensesMarker, Unbatched, Hints, Batched, FilesOf, Lenses, Stated
<1>8. Outcome'
  BY <1>1, <1>2, <1>3, <1>7, CarrierStands DEF FilesInv, Outcome, Settled
<1> QED
  BY <1>5, <1>6, <1>8 DEF FilesInv

LEMMA FilesStutter == FilesInv /\ UNCHANGED filesVars => FilesInv'
<1> SUFFICES ASSUME FilesInv, UNCHANGED filesVars PROVE FilesInv'
  OBVIOUS
<1> USE DEF filesVars, FilesInv
<1>1. UNCHANGED <<input, patches, hits, pad, batches>> /\ diff' = diff /\ config' = config /\ spec' = spec
  BY DEF input
<1>2. FilesShape'
  BY DEF FilesShape, Review, Files
<1>3. Accounted' /\ FloorFirst' /\ FloorComesFirst'
  BY <1>1, FloorStands DEF Accounted, FloorFirst, FloorComesFirst
<1>4. LensesRun'
  BY <1>1, LensesStand DEF LensesRun
<1>5. BatchedAll'
  BY <1>1, BatchesStand DEF BatchedAll, Settled
<1>6. BuildNotices' = BuildNotices /\ LensesMarker' = LensesMarker
  BY <1>1 DEF input, BuildNotices, Dropped, LensesMarker, Unbatched, Hints, Batched, FilesOf, Lenses, Stated
<1>7. Outcome'
  BY <1>1, <1>6, CarrierStands DEF Outcome, Settled
<1> QED
  BY <1>2, <1>3, <1>4, <1>5, <1>7

\* The invariant of the stages before the fan-out holds throughout a review.
THEOREM FilesInvariance == FilesSpec => []FilesInv
<1>1. FilesInit => FilesInv
  BY FilesInitInv
<1>2. FilesInv /\ [FilesNext]_filesVars => FilesInv'
  BY FilterFilesStep, FailLoudStep, ScanFilesStep, TriageKeepsAllStep, TriageStep, CapFilesStep,
     ExpandContextStep, BatchFilesStep, CarryHintsStep, CallLensesStep, RaiseIncompleteStep,
     ComposeSummaryStep, FilesStutter DEF FilesNext
<1> QED
  BY <1>1, <1>2, PTL DEF FilesSpec

\* No model keeps a file of the security floor from the review, and the cap does
\* not cut one for a file that triage ranked (triage_files, cap_files).
THEOREM FloorIsFirst == FilesSpec => []FloorComesFirst
<1>1. FilesInv => FloorComesFirst
  BY DEF FilesInv
<1> QED
  BY <1>1, FilesInvariance, PTL

\* Of which lines the units of a sequence are.
LEMMA TaggedRange ==
  ASSUME NEW us \in Seq(UnitSpace), NEW f, NEW at
  PROVE  <<f, at>> \in Range(TaggedLines(us))
           <=> \E u \in Range(us) : u.file = f /\ at \in Range(u.lines)
<1> DEFINE t == [i \in 1..Len(us) |-> Tagged(us[i])]
<1>1. /\ t \in Seq(Seq(Tags)) /\ Len(t) = Len(us) /\ Len(us) \in Nat
      /\ \A i \in 1..Len(us) : t[i] = Tagged(us[i]) /\ us[i] \in UnitSpace
  <2>1. \A i \in 1..Len(us) : us[i] \in UnitSpace /\ Tagged(us[i]) \in Seq(Tags)
    BY TaggedType
  <2> QED
    BY <2>1
<1>2. TaggedLines(us) = FlattenSeq(t)
  BY DEF TaggedLines
<1> HIDE DEF t
<1>3. Range(TaggedLines(us)) = UNION {Range(Tagged(us[i])) : i \in 1..Len(us)}
  <2>1. Range(FlattenSeq(t)) = UNION {Range(t[i]) : i \in 1..Len(t)}
    BY <1>1, FlattenRange
  <2> QED
    BY <1>1, <1>2, <2>1
<1>4. ASSUME NEW i \in 1..Len(us)
      PROVE  <<f, at>> \in Range(Tagged(us[i]))
               <=> us[i].file = f /\ at \in Range(us[i].lines)
  <2>1. us[i].lines \in Seq(Nat \X Nat)
    BY <1>1 DEF UnitSpace
  <2> DEFINE lines == us[i].lines
  <2>2. Range(lines) = {lines[n] : n \in 1..Len(lines)} /\ Len(lines) \in Nat
    <3>1. DOMAIN lines = 1..Len(lines) /\ Len(lines) \in Nat
      <4> HIDE DEF lines
      <4> QED
        BY <2>1 DEF lines
    <3> HIDE DEF lines
    <3> QED
      BY <3>1 DEF Range
  <2>3. Range(Tagged(us[i])) = {<<us[i].file, us[i].lines[n]>> : n \in 1..Len(us[i].lines)}
    BY <2>2 DEF Range, Tagged
  <2> QED
    BY <2>2, <2>3
<1>5. Range(us) = {us[i] : i \in 1..Len(us)}
  BY DEF Range
<1> QED
  BY <1>3, <1>4, <1>5

\* What the batches hold: the files of the review, and their lines.
LEMMA BatchesReach ==
  ASSUME FilesShape, BatchedAll, Settled
  PROVE  /\ Batched = Range(patches)
         /\ TaggedLines(FlattenSeq(batches)) = TaggedLines(Wholes)
         /\ \A b \in DOMAIN batches : \A u \in DOMAIN batches[b] : batches[b][u] \in Range(AllUnits)
         /\ \A f \in Range(patches) : \A at \in Range(LinesOf(f)) :
              \E b \in DOMAIN batches : \E u \in DOMAIN batches[b] :
                batches[b][u].file = f /\ at \in Range(batches[b][u].lines)
<1>1. /\ Review /\ patches \in Seq(Files) /\ batches \in Seq(Seq(UnitSpace))
      /\ FlattenSeq(batches) = AllUnits
  BY DEF FilesShape, BatchedAll
<1>2. /\ AllUnits \in Seq(UnitSpace)
      /\ {u.file : u \in Range(AllUnits)} = Range(patches)
      /\ TaggedLines(AllUnits) = TaggedLines(Wholes)
  BY <1>1, AllUnitsIs
<1>3. Range(AllUnits) = UNION {Range(batches[b]) : b \in 1..Len(batches)}
  BY <1>1, FlattenRange
<1>4. \A u : u \in Range(AllUnits)
        <=> \E b \in DOMAIN batches : \E n \in DOMAIN batches[b] : u = batches[b][n]
  <2>1. DOMAIN batches = 1..Len(batches)
    BY <1>1
  <2> QED
    BY <1>3, <2>1 DEF Range
<1>5. Batched = {u.file : u \in Range(AllUnits)}
  BY <1>4 DEF Batched, FilesOf
<1>6. ASSUME NEW f \in Range(patches), NEW at \in Range(LinesOf(f))
      PROVE  \E u \in Range(AllUnits) : u.file = f /\ at \in Range(u.lines)
  <2>1. PICK i \in 1..Len(patches) : patches[i] = f
    BY <1>1 DEF Range
  <2>2. Wholes \in Seq(UnitSpace) /\ Wholes[i] = [file |-> f, lines |-> LinesOf(f)]
        /\ i \in DOMAIN Wholes
    <3>1. ASSUME NEW n \in 1..Len(patches)
          PROVE  [file |-> patches[n], lines |-> LinesOf(patches[n])] \in UnitSpace
      <4>1. patches[n] \in Files
        BY <1>1
      <4> QED
        BY <1>1, <4>1, LinesType, UnitMade
    <3>2. Len(patches) \in Nat
      BY <1>1
    <3>3. Wholes = [n \in 1..Len(patches) |-> [file |-> patches[n], lines |-> LinesOf(patches[n])]]
      BY DEF Wholes
    <3>4. Wholes \in Seq(UnitSpace)
      BY <3>1, <3>2, <3>3
    <3> QED
      BY <2>1, <3>3, <3>4
  <2>3. <<f, at>> \in Range(TaggedLines(Wholes))
    <3>1. Wholes[i] \in Range(Wholes) /\ Wholes[i].file = f /\ at \in Range(Wholes[i].lines)
      BY <2>2 DEF Range
    <3> QED
      BY <2>2, <3>1, TaggedRange
  <2> QED
    BY <1>2, <2>3, TaggedRange
<1>7. Batched = Range(patches)
  BY <1>2, <1>5
<1>8. TaggedLines(FlattenSeq(batches)) = TaggedLines(Wholes)
  BY <1>1, <1>2
<1>9. \A b \in DOMAIN batches : \A u \in DOMAIN batches[b] : batches[b][u] \in Range(AllUnits)
  BY <1>4
<1>10. ASSUME NEW f \in Range(patches), NEW on \in Range(LinesOf(f))
       PROVE  \E b \in DOMAIN batches : \E u \in DOMAIN batches[b] :
                batches[b][u].file = f /\ on \in Range(batches[b][u].lines)
  BY <1>4, <1>6
<1> QED
  BY <1>7, <1>8, <1>9, <1>10

\* Batching loses, repeats and reorders nothing, and a batch over the budget is
\* one unit that there was no way to cut (compress.batch_files).
THEOREM BatchesAreWhole == FilesSpec => []BatchesHoldAll
<1>1. FilesInv => BatchesHoldAll
  <2> SUFFICES ASSUME FilesInv, stage \in {"carry", "call"}
               PROVE  /\ Batched = Range(patches)
                      /\ FlattenSeq([b \in 1..Len(batches) |-> TaggedLines(batches[b])])
                           = TaggedLines(Wholes)
                      /\ \A b \in DOMAIN batches :
                           CostOf(batches[b]) > Budget =>
                             /\ Len(batches[b]) = 1
                             /\ config.recursive => Len(batches[b][1].lines) <= 1
    BY DEF BatchesHoldAll, Wholes, CostOf
  <2>1. FilesShape /\ BatchedAll /\ Settled /\ Review /\ patches \in Seq(Files)
    BY DEF FilesInv, FilesShape, Settled
  <2>2. /\ batches \in Seq(Seq(UnitSpace)) /\ FlattenSeq(batches) = AllUnits
        /\ \A b \in DOMAIN batches : Fair(batches[b])
    BY <2>1 DEF BatchedAll
  <2>3. /\ Batched = Range(patches)
        /\ TaggedLines(FlattenSeq(batches)) = TaggedLines(Wholes)
        /\ \A b \in DOMAIN batches : \A u \in DOMAIN batches[b] : batches[b][u] \in Range(AllUnits)
    BY <2>1, BatchesReach
  <2> DEFINE t == [b \in 1..Len(batches) |-> TaggedLines(batches[b])]
  <2>4. t \in Seq(Seq(Tags)) /\ Len(t) = Len(batches)
        /\ \A b \in 1..Len(batches) : t[b] = TaggedLines(batches[b])
    <3>1. \A b \in 1..Len(batches) : TaggedLines(batches[b]) \in Seq(Tags)
      BY <2>2, TaggedConcat
    <3>2. Len(batches) \in Nat
      BY <2>2
    <3> QED
      BY <3>1, <3>2
  <2> HIDE DEF t
  <2>5. TaggedLines(FlattenSeq(batches)) = FlattenSeq(t)
    BY <2>2, <2>4, TaggedFlatten
  <2>6. ASSUME NEW b \in DOMAIN batches, CostOf(batches[b]) > Budget
        PROVE  /\ Len(batches[b]) = 1
               /\ config.recursive => Len(batches[b][1].lines) <= 1
    <3>1. batches[b] \in Seq(UnitSpace) /\ Fair(batches[b])
      BY <2>2
    <3>2. Budget \in Nat /\ CostOf(batches[b]) \in Nat
      <4>1. Budget \in Nat
        BY <2>1, BudgetType
      <4>2. CASE batches[b] = <<>>
        <5>1. CostOf(batches[b]) = 0
          <6>1. [u \in 1..Len(<<>>) |-> Cost(<<>>[u].file, <<>>[u].lines)] = <<>>
            OBVIOUS
          <6> QED
            BY <4>2, <6>1, TotalEmpty DEF CostOf
        <5> QED
          BY <4>1, <5>1
      <4>3. CASE batches[b] # <<>>
        <5>1. batches[b][1] \in UnitSpace
          BY <3>1, <4>3, EmptySeq
        <5> QED
          BY <2>1, <3>1, <4>1, <5>1, CostOfAppend
      <4> QED
        BY <4>2, <4>3
    <3>3. Len(batches[b]) = 1
      BY <2>6, <3>1, <3>2 DEF Fair
    <3> DEFINE u == batches[b][1]
    <3>4. batches[b] = <<u>> /\ u \in UnitSpace /\ u \in Range(AllUnits)
      BY <2>3, <3>1, <3>3
    <3> HIDE DEF u
    <3>5. CostOf(batches[b]) = Cost(u.file, u.lines) /\ Cost(u.file, u.lines) \in Nat
      BY <2>1, <3>1, <3>4, CostOfAppend
    <3>6. config.recursive => Piece(u.file, u.lines)
      BY <2>1, <3>4, AllUnitsIs
    <3> QED
      BY <2>6, <3>2, <3>3, <3>5, <3>6 DEF Piece, u
  <2> QED
    BY <2>3, <2>5, <2>6 DEF t
<1> QED
  BY <1>1, FilesInvariance, PTL

\* A hint of a block is shown, unless it was crowded out by as many as it holds.
LEMMA ShownOrFull ==
  ASSUME Review, NEW block \in SUBSET Files, NEW f \in block
  PROVE  f \in Shown(block) \/ Cardinality(Shown(block)) = MaxHints
<1> DEFINE grade == [g \in block |-> diff[g].grade]
<1>1. \A g \in block : diff[g] \in FileSpace /\ g \in Nat
  BY DEF Review, Files
<1>2. grade \in [block -> Nat] /\ \A g \in block : grade[g] = diff[g].grade
  BY <1>1 DEF FileSpace
<1> HIDE DEF grade
<1>3. Shown(block) = {j \in block : Cardinality(Ahead(block, grade, j)) < MaxHints}
  BY <1>2 DEF Shown, Ahead
<1>4. block \in SUBSET Nat /\ IsFiniteSet(block) /\ MaxHints \in Nat
  BY <1>1, FilesFinite, BudgetAssumption DEF Review
<1>5. Cardinality(Ahead(block, grade, f)) \in Nat
  <2>1. Ahead(block, grade, f) \subseteq block
    BY DEF Ahead
  <2> QED
    BY <1>4, <2>1, FS_Subset, FS_CardinalityType
<1> SUFFICES ASSUME f \notin Shown(block) PROVE Cardinality(Shown(block)) = MaxHints
  OBVIOUS
<1>6. Cardinality(Ahead(block, grade, f)) >= MaxHints
  <2>1. ~(Cardinality(Ahead(block, grade, f)) < MaxHints)
    BY <1>3
  <2> QED
    BY <1>4, <1>5, <2>1
<1>7. Cardinality({j \in block : Cardinality(Ahead(block, grade, j)) < MaxHints}) = MaxHints
  BY <1>2, <1>4, <1>6, RoomIsFilled
<1> QED
  BY <1>3, <1>7

\* The two marks are earned: the thumbs-up by every file, lens and hint, a lens
\* of the marker by every line that the summary does not say was left out
\* (_compose_summary, _lenses_marker).
THEOREM ApprovalsAreEarned == FilesSpec => []ApprovalIsEarned
<1>1. FilesInv => ThumbsUpEarned
  <2> SUFFICES ASSUME FilesInv, verdict = "thumbsUp"
               PROVE  /\ \A f \in Files : InReview(f) =>
                           /\ Lenses # {} /\ f \in Batched
                           /\ \A l \in Lenses : \A at \in Range(LinesOf(f)) : Judged(f, at, l)
                      /\ \A f \in Hints :
                           \E b \in DOMAIN batches : \E l \in Lenses :
                             \/ f \in HintBlock(b) \cup CarriedBlock(b, l)
                             \/ f \in FilesOf(b) /\ Cardinality(HintBlock(b)) = MaxHints
                             \/ f \in Unbatched /\ Cardinality(CarriedBlock(b, l)) = MaxHints
    BY DEF ThumbsUpEarned
  <2>1. stage = "done" /\ verdict # "raised" /\ Settled
    BY DEF FilesInv, Outcome, Settled
  <2>2. BuildNotices = {} /\ carrier = Carrier
    BY <2>1 DEF FilesInv, Outcome
  <2>3. ~capped /\ oversized = {} /\ skipped = {} /\ failed = {} /\ Dropped = {}
    BY <2>2 DEF BuildNotices
  <2>4. /\ Batched = Range(patches)
        /\ \A f \in Range(patches) : \A at \in Range(LinesOf(f)) :
             \E b \in DOMAIN batches : \E u \in DOMAIN batches[b] :
               batches[b][u].file = f /\ at \in Range(batches[b][u].lines)
    BY <2>1, BatchesReach DEF FilesInv
  <2>5. \A f \in Files : InReview(f) => f \in Range(patches)
    BY <2>1, <2>3 DEF FilesInv, Accounted
  <2>6. Batched # {} => Lenses # {}
    <3>1. patches = <<>> => Range(patches) = {}
      BY DEF Range
    <3> QED
      BY <2>1, <2>4, <3>1 DEF FilesInv, LensesRun
  <2>7. ASSUME NEW f \in Files, InReview(f)
        PROVE  /\ Lenses # {} /\ f \in Batched
               /\ \A l \in Lenses : \A at \in Range(LinesOf(f)) : Judged(f, at, l)
    <3>1. f \in Range(patches) /\ f \in Batched
      BY <2>4, <2>5, <2>7
    <3> QED
      BY <2>3, <2>4, <2>6, <3>1 DEF Judged
  <2>8. ASSUME NEW f \in Hints
        PROVE  \E b \in DOMAIN batches : \E l \in Lenses :
                 \/ f \in HintBlock(b) \cup CarriedBlock(b, l)
                 \/ f \in FilesOf(b) /\ Cardinality(HintBlock(b)) = MaxHints
                 \/ f \in Unbatched /\ Cardinality(CarriedBlock(b, l)) = MaxHints
    <3>1. Review /\ Hints \subseteq Files /\ f \in hits
      BY DEF FilesInv, FilesShape, Hints
    <3>2. CASE f \in Batched
      <4>1. PICK b \in DOMAIN batches : f \in FilesOf(b)
        BY <3>2 DEF Batched
      <4>2. PICK l \in Lenses : TRUE
        BY <2>6, <3>2
      <4>3. f \in HintBlock(b) \/ Cardinality(HintBlock(b)) = MaxHints
        <5>1. Hints \cap FilesOf(b) \in SUBSET Files /\ f \in Hints \cap FilesOf(b)
          BY <3>1, <4>1
        <5> QED
          BY <3>1, <5>1, ShownOrFull DEF HintBlock
      <4> QED
        BY <4>1, <4>2, <4>3
    <3>3. CASE f \notin Batched
      <4>1. diff[f].scannable
        BY <2>4, <2>5, <3>1, <3>3 DEF FilesInv, Accounted
      <4>2. f \in Unbatched /\ Unbatched \in SUBSET Files
        BY <3>1, <3>3, <4>1 DEF Unbatched
      <4>3. carrier # "none"
        BY <2>3, <4>2 DEF Dropped
      <4>4. carrier \in Lenses /\ batches # <<>>
        BY <2>2, <4>3 DEF Carrier
      <4>5. 1 \in DOMAIN batches
        <5>1. batches \in Seq(Seq(UnitSpace))
          BY <2>1 DEF FilesInv, BatchedAll
        <5> QED
          BY <4>4, <5>1, EmptySeq
      <4>6. CarriedBlock(1, carrier) = Shown(Unbatched)
        BY DEF CarriedBlock
      <4>7. f \in Shown(Unbatched) \/ Cardinality(Shown(Unbatched)) = MaxHints
        BY <3>1, <4>2, ShownOrFull
      <4> QED
        BY <4>2, <4>4, <4>5, <4>6, <4>7
    <3> QED
      BY <3>2, <3>3
  <2> QED
    BY <2>7, <2>8
<1>2. FilesInv => MarkerIsEarned
  <2> SUFFICES ASSUME FilesInv, NEW l \in marker, NEW f \in Files, InReview(f),
                      NEW at \in Range(LinesOf(f)), ~Judged(f, at, l)
               PROVE  \/ f \in oversized /\ "oversized" \in notices
                      \/ f \in skipped /\ "triage" \in notices
                      \/ f \notin Batched /\ "cap" \in notices
    BY DEF MarkerIsEarned
  <2>1. stage = "done" /\ verdict # "raised" /\ Settled
    BY DEF FilesInv, Outcome, Settled
  <2>2. BuildNotices \subseteq notices /\ l \in LensesMarker
    BY <2>1 DEF FilesInv, Outcome
  <2>3. /\ Batched = Range(patches)
        /\ \A g \in Range(patches) : \A on \in Range(LinesOf(g)) :
             \E b \in DOMAIN batches : \E u \in DOMAIN batches[b] :
               batches[b][u].file = g /\ on \in Range(batches[b][u].lines)
    BY <2>1, BatchesReach DEF FilesInv
  <2>4. f \notin Range(patches)
    <3> SUFFICES ASSUME f \in Range(patches) PROVE FALSE
      OBVIOUS
    <3>1. PICK b \in DOMAIN batches : \E u \in DOMAIN batches[b] :
            batches[b][u].file = f /\ at \in Range(batches[b][u].lines)
      BY <2>3
    <3>2. <<b, l>> \notin failed
      BY <2>2 DEF LensesMarker
    <3> QED
      BY <3>1, <3>2 DEF Judged
  <2>5. f \in oversized \/ f \in skipped \/ capped
    BY <2>1, <2>4 DEF FilesInv, Accounted
  <2> QED
    BY <2>2, <2>3, <2>4, <2>5 DEF BuildNotices
<1> QED
  BY <1>1, <1>2, FilesInvariance, PTL DEF ApprovalIsEarned

-------------------------------------------------------------------------------
(* The stages after the fan-out *)

\* The stages up to the first arbitration, which must judge what it finds there.
Early == {"snap", "scope", "suppress", "cap", "gate", "arbitrate"}

\* What each stage may rely on.  A severity is the lens's or the scanner's own
\* until the rules change those that are posted.
Shape ==
  /\ cfg \in Configs
  /\ IsFiniteSet(Ids)
  /\ \A i \in Ids : found[i] \in Candidates /\ i \in Nat
  /\ pc \in Stages
  /\ line \in [Ids -> Nat]
  /\ anchored \subseteq Ids
  /\ fate \in [Ids -> Fates]
  /\ asked \subseteq {i \in Live : ~IsScan(i)}
  /\ pc # "audit" => asked = {}
  /\ hop \in 0..MaxHops
  /\ \A i \in Ids : pc # "done" \/ i \notin Live => severity[i] = found[i].severity

\* A finding was taken out by a stage that comes before this one, and for the
\* reason of that stage.
Grounds(i) ==
  /\ fate[i] \in {"off_diff", "capped"} => IsScan(i)
  /\ fate[i] = "suppressed" =>
       \/ found[i].title \in cfg.dismissed
       \/ ~(IsSecurity(i) /\ found[i].severity >= High)
  /\ fate[i] = "unproven" => found[i].category \in DefectCategories /\ ~found[i].scenario
  /\ fate[i] = "outranked" => found[i].category = "ponytail"
  /\ pc \in Early => fate[i] \in {"live", "off_diff", "suppressed", "capped", "unproven"}
  /\ pc = "merge" => fate[i] \notin Heard \ {"live"} /\ fate[i] # "merged"

Reasoned == \A i \in Ids : Grounds(i)

\* After the arbitration no cut is left that something outranks, whatever becomes
\* of the latter.
NoRival ==
  pc \notin Early =>
    \A i, j \in Ids : fate[i] = "live" /\ Outranks(j, i) => fate[j] \in {"suppressed", "unproven"}

\* A finding at the place of another that the floors treat no worse, or a line
\* where the other is a guess.
Covers(j, i) ==
  /\ SameLocation(i, j)
  /\ (j \in anchored => i \in anchored) =>
       (i \in anchored => j \in anchored) /\ found[j].severity >= found[i].severity

Heir(i, j) ==
  Covers(j, i) /\ fate[j] \in Heard /\ (fate[j] = "floor" => ~Passes(j))

Inherited == \A i \in Ids : fate[i] = "merged" => \E j \in Ids : Heir(i, j)

PipelineInv == Shape /\ Reasoned /\ NoRival /\ Inherited

-------------------------------------------------------------------------------
(* Choices *)

\* The nearest match of a quoted line is one of its matches (_match_anchor).
LEMMA NearestIsMatch ==
  ASSUME NEW at \in Nat, NEW matches \in SUBSET Nat, matches # {}
  PROVE  Nearest(at, matches) \in matches
<1> DEFINE Ranged == {Distance(m, at) : m \in matches}
<1>1. Ranged \in SUBSET Nat /\ Ranged # {}
  <2>1. ASSUME NEW m \in matches PROVE Distance(m, at) \in Nat
    BY DEF Distance
  <2> QED BY <2>1
<1>2. PICK d \in Ranged : \A e \in Ranged : d <= e
  <2> HIDE DEF Ranged
  <2> QED BY <1>1, LeastNatural
<1> DEFINE Closest == {m \in matches : Distance(m, at) = d}
<1>3. PICK m \in Closest : \A other \in Closest : m <= other
  <2>1. Closest \in SUBSET Nat /\ Closest # {}
    OBVIOUS
  <2> HIDE DEF Closest
  <2> QED BY <2>1, LeastNatural
<1>4. ASSUME NEW other \in matches
      PROVE  \/ Distance(m, at) < Distance(other, at)
             \/ Distance(m, at) = Distance(other, at) /\ m <= other
  <2>1. Distance(m, at) = d /\ Distance(other, at) \in Ranged
    OBVIOUS
  <2>2. d <= Distance(other, at) /\ d \in Nat /\ Distance(other, at) \in Nat
    BY <1>1, <1>2, <2>1
  <2>3. Distance(other, at) = d => m <= other
    BY <1>3
  <2> HIDE DEF Ranged, Closest
  <2> QED BY <2>1, <2>2, <2>3
<1> QED
  BY <1>4 DEF Nearest

\* A finding is snapped to a line (_snap_one).
LEMMA SnappedType ==
  ASSUME NEW f \in Candidates
  PROVE  Snapped(f) \in Nat /\ f.line \in Nat
<1>1. f.line \in Nat /\ f.matches \in SUBSET Nat
  BY CandidateAssumption DEF CandidateAssumption, FindingSpace
<1> QED
  BY <1>1, NearestIsMatch DEF Snapped

-------------------------------------------------------------------------------
(* The start *)

LEMMA InitShape == Init => Shape
<1> SUFFICES ASSUME Init PROVE Shape
  OBVIOUS
<1>1. PICK n \in Nat : found \in [1..n -> Candidates]
  BY BoundAssumption DEF BoundAssumption, Init
<1>2. Ids = 1..n /\ IsFiniteSet(Ids)
  BY <1>1, FS_Interval DEF Ids
<1>3. line \in [Ids -> Nat]
  BY <1>1, <1>2, SnappedType DEF Init
<1> QED
  BY <1>1, <1>2, <1>3, BoundAssumption DEF BoundAssumption, Init, Shape, Stages, Fates

LEMMA InitInv == Init => PipelineInv
<1> SUFFICES ASSUME Init PROVE PipelineInv
  OBVIOUS
<1>1. pc \in Early /\ \A i \in Ids : fate[i] = "live"
  BY DEF Init, Early
<1> QED
  BY <1>1, InitShape DEF PipelineInv, Reasoned, Grounds, NoRival, Inherited, Early

-------------------------------------------------------------------------------
(* The stages *)

\* A step that leaves the placing alone, where lost goes for a reason.
LEMMA TakesShape ==
  ASSUME Shape, NEW lost \in SUBSET Live, NEW why \in Fates, NEW next \in Stages \ {"done", "audit"},
         Takes(lost, why, next), UNCHANGED <<line, anchored, severity>>, pc # "done",
         asked' = {}, hop' = hop
  PROVE  Shape'
<1>1. Ids' = Ids
  BY DEF Takes, Ids
<1>2. fate' \in [Ids -> Fates]
  BY <1>1 DEF Takes, Shape
<1> QED
  BY <1>1, <1>2 DEF Takes, Shape, Live

\* What is read of the findings stays when they and their placing do.
LEMMA Frame ==
  ASSUME UNCHANGED <<cfg, found, line, anchored, severity>>
  PROVE  /\ Ids' = Ids
         /\ \A i : IsScan(i)' = IsScan(i) /\ IsSecurity(i)' = IsSecurity(i)
         /\ \A i : Passes(i)' = Passes(i)
         /\ \A i, j : Outranks(j, i)' = Outranks(j, i)
         /\ \A i, j : SameLocation(i, j)' = SameLocation(i, j)
         /\ \A i, j : Covers(j, i)' = Covers(j, i)
  BY DEF Ids, IsScan, IsSecurity, Passes, Outranks, SameLocation, Covers

LEMMA SnapStep ==
  ASSUME PipelineInv, Snap
  PROVE  PipelineInv'
<1>1. Ids' = Ids /\ fate' = fate /\ Live' = Live
  BY DEF PipelineInv, Shape, Snap, Takes, Ids, Live
<1>2. line' \in [Ids -> Nat]
  BY SnappedType DEF PipelineInv, Shape, Snap
<1>3. Shape'
  BY <1>1, <1>2 DEF PipelineInv, Shape, Snap, Takes, Stages, audit, IsScan
<1>4. Reasoned'
  BY <1>1 DEF PipelineInv, Reasoned, Grounds, Snap, Takes, IsScan, IsSecurity, Early
<1>5. NoRival' /\ Inherited'
  BY <1>1 DEF PipelineInv, Reasoned, Grounds, Snap, Takes, NoRival, Inherited, Early
<1> QED
  BY <1>3, <1>4, <1>5 DEF PipelineInv

\* Before the arbitration there is only to say why a finding is out.
LEMMA EarlyStep ==
  ASSUME PipelineInv, pc \in Early,
         NEW lost \in SUBSET Live, NEW why \in {"off_diff", "suppressed", "capped", "unproven"},
         NEW next \in Early, Takes(lost, why, next), UNCHANGED <<placing, audit>>,
         \A i \in lost :
           /\ why \in {"off_diff", "capped"} => IsScan(i)
           /\ why = "suppressed" =>
                \/ found[i].title \in cfg.dismissed
                \/ ~(IsSecurity(i) /\ found[i].severity >= High)
           /\ why = "unproven" => found[i].category \in DefectCategories /\ ~found[i].scenario
  PROVE  PipelineInv'
<1>1. Shape'
  <2>1. Shape /\ asked' = {} /\ hop' = hop
    BY DEF PipelineInv, Shape, audit, Early
  <2>2. why \in Fates /\ next \in Stages \ {"done", "audit"} /\ pc # "done"
    BY DEF Early, Fates, Stages
  <2>3. UNCHANGED <<line, anchored, severity>>
    BY DEF placing
  <2> QED
    BY <2>1, <2>2, <2>3, TakesShape
<1>2. Ids' = Ids /\ \A i : IsScan(i)' = IsScan(i) /\ IsSecurity(i)' = IsSecurity(i)
  BY Frame DEF Takes, placing
<1>3. \A i \in Ids : fate'[i] = IF i \in lost THEN why ELSE fate[i]
  BY DEF Takes
<1>4. ASSUME NEW i \in Ids PROVE Grounds(i)'
  BY <1>2, <1>3 DEF PipelineInv, Reasoned, Grounds, Takes, Early
<1>5. Reasoned'
  BY <1>2, <1>4 DEF Reasoned
<1>6. NoRival' /\ Inherited'
  BY <1>2, <1>4 DEF Grounds, Takes, NoRival, Inherited
<1> QED
  BY <1>1, <1>5, <1>6 DEF PipelineInv

LEMMA ScopeStep == PipelineInv /\ Scope => PipelineInv'
  BY EarlyStep DEF Scope, Early

LEMMA SuppressStep == PipelineInv /\ Suppress => PipelineInv'
<1> SUFFICES ASSUME PipelineInv, Suppress PROVE PipelineInv'
  OBVIOUS
<1>1. ASSUME NEW i \in Live, Suppressed(i)
      PROVE  \/ found[i].title \in cfg.dismissed
             \/ ~(IsSecurity(i) /\ found[i].severity >= High)
  BY <1>1 DEF PipelineInv, Shape, Suppress, Suppressed, Protected, Live
<1> QED
  BY <1>1, EarlyStep DEF Suppress, Early

LEMMA CapStep == PipelineInv /\ Cap => PipelineInv'
  BY EarlyStep DEF Cap, Early

LEMMA GateStep == PipelineInv /\ Gate => PipelineInv'
  BY EarlyStep DEF Gate, Early

LEMMA ArbitrateStep ==
  ASSUME PipelineInv, Arbitrate
  PROVE  PipelineInv'
<1>1. Outranked \in SUBSET Live
  BY DEF Outranked
<1>2. Shape'
  BY <1>1, TakesShape DEF PipelineInv, Shape, Arbitrate, placing, audit, Fates, Stages
<1>3. /\ Ids' = Ids
      /\ \A i : IsScan(i)' = IsScan(i) /\ IsSecurity(i)' = IsSecurity(i)
      /\ \A i, j : Outranks(j, i)' = Outranks(j, i)
  BY Frame DEF Arbitrate, Takes, placing
<1>4. \A i \in Ids : fate'[i] = IF i \in Outranked THEN "outranked" ELSE fate[i]
  BY DEF Arbitrate, Takes
<1>5. ASSUME NEW i \in Ids PROVE Grounds(i)'
  <2>1. i \in Outranked => found[i].category = "ponytail"
    BY DEF Outranked, Outranks
  <2> QED
    BY <1>3, <1>4, <2>1 DEF PipelineInv, Reasoned, Grounds, Arbitrate, Takes, Early, Heard
<1>6. NoRival'
  <2> SUFFICES ASSUME NEW i \in Ids, NEW j \in Ids, fate'[i] = "live", Outranks(j, i)
               PROVE  fate'[j] \in {"suppressed", "unproven"}
    BY <1>3 DEF NoRival
  <2>1. i \in Live /\ j \notin Live
    BY <1>4 DEF Outranked, Live
  <2>2. ~IsScan(j)
    BY DEF Outranks, IsScan, ScanCategories
  <2>3. fate[j] \in {"suppressed", "unproven"}
    BY <2>1, <2>2 DEF PipelineInv, Reasoned, Grounds, Arbitrate, Early, Live
  <2> QED
    BY <1>1, <1>4, <2>1, <2>3
<1>7. Inherited'
  BY <1>3, <1>4 DEF PipelineInv, Reasoned, Grounds, Inherited, Arbitrate, Early
<1> QED
  BY <1>2, <1>3, <1>5, <1>6, <1>7 DEF PipelineInv, Reasoned

\* The choice of the merge is an order: among any findings one is beaten by none.
LEMMA SomeUnbeaten ==
  ASSUME Shape, pc # "done", NEW S \in SUBSET Ids, S # {}
  PROVE  \E j \in S : \A k \in S : ~Beats(k, j)
<1> DEFINE Over(j) == {k \in S : Beats(k, j)}
           Overs == {Over(j) : j \in S}
<1>1. \A j \in S : severity[j] \in Int /\ found[j].length \in Int /\ j \in Int
  BY CandidateAssumption DEF CandidateAssumption, FindingSpace, Shape, Severities
<1>2. Overs \subseteq FiniteSubsetsOf(S) /\ Overs # {}
  <2>1. IsFiniteSet(S)
    BY FS_Subset DEF Shape
  <2>2. \A j \in S : Over(j) \in SUBSET S /\ IsFiniteSet(Over(j))
    BY <2>1, FS_Subset
  <2> QED
    BY <2>2 DEF FiniteSubsetsOf
<1>3. PICK least \in Overs : \A other \in Overs : ~(<<other, least>> \in StrictSubsetOrdering(S))
  <2> HIDE DEF Overs
  <2> QED BY <1>2, FS_StrictSubsetOrderingWellFounded, WFMin
<1>4. PICK j \in S : least = Over(j)
  OBVIOUS
<1>5. ASSUME NEW k \in S, Beats(k, j) PROVE FALSE
  <2>1. \A l \in S : Beats(l, k) => Beats(l, j)
    BY <1>1, <1>5 DEF Beats
  <2>2. ~Beats(k, k)
    BY <1>1 DEF Beats
  <2>3. Over(k) \subseteq Over(j) /\ k \in Over(j) /\ k \notin Over(k)
    BY <1>5, <2>1, <2>2
  <2>4. <<Over(k), least>> \in StrictSubsetOrdering(S)
    BY <1>4, <2>3 DEF StrictSubsetOrdering
  <2> QED
    BY <1>3, <2>4
<1> QED
  BY <1>5

LEMMA MergeStep ==
  ASSUME PipelineInv, Merge
  PROVE  PipelineInv'
<1> DEFINE lost == {i \in Live : \E j \in Live \ {i} : SameLocation(i, j) /\ Beats(j, i)}
<1>1. Shape'
  BY TakesShape DEF PipelineInv, Shape, Merge, placing, audit, Fates, Stages
<1>2. /\ Ids' = Ids
      /\ \A i : IsScan(i)' = IsScan(i) /\ IsSecurity(i)' = IsSecurity(i)
      /\ \A i, j : Outranks(j, i)' = Outranks(j, i) /\ Covers(j, i)' = Covers(j, i)
  BY Frame DEF Merge, Takes, placing
<1>3. \A i \in Ids : fate'[i] = IF i \in lost THEN "merged" ELSE fate[i]
  BY DEF Merge, Takes
<1>4. ASSUME NEW i \in Ids PROVE Grounds(i)'
  BY <1>2, <1>3 DEF PipelineInv, Reasoned, Grounds, Merge, Takes, Early
<1>5. NoRival'
  <2>1. \A i \in Ids : fate'[i] = "live" => fate[i] = "live"
    BY <1>3
  <2>2. \A j \in Ids : fate[j] \in {"suppressed", "unproven"} => fate'[j] = fate[j]
    BY <1>3 DEF Live
  <2> QED
    BY <1>2, <2>1, <2>2 DEF PipelineInv, NoRival, Merge, Early
<1>6. ASSUME NEW i \in Ids, fate'[i] = "merged"
      PROVE  \E j \in Ids : Heir(i, j)'
  <2>1. i \in lost
    BY <1>3, <1>6 DEF PipelineInv, Reasoned, Grounds, Merge
  <2> DEFINE Loc == {k \in Live : SameLocation(i, k)}
  <2>2. i \in Loc /\ Loc \in SUBSET Ids
    BY <2>1 DEF SameLocation, Live
  <2>3. PICK j \in Loc : \A k \in Loc : ~Beats(k, j)
    <3> HIDE DEF Loc
    <3> QED BY <2>2, SomeUnbeaten DEF PipelineInv, Shape, Merge
  <2>4. j \notin lost
    BY <2>3 DEF SameLocation
  <2>5. i # j /\ ~Beats(i, j)
    BY <2>1, <2>2, <2>3, <2>4
  <2>6. Covers(j, i)
    <3>1. \A k \in {i, j} :
            /\ severity[k] = found[k].severity /\ severity[k] \in Int
            /\ found[k].length \in Int /\ k \in Int
      BY <2>2, CandidateAssumption
         DEF CandidateAssumption, FindingSpace, PipelineInv, Shape, Severities, Merge
    <3> QED
      BY <2>3, <2>5, <3>1 DEF Beats, Covers
  <2>7. fate'[j] = "live"
    BY <1>3, <2>2, <2>4 DEF Live
  <2> QED
    BY <1>2, <2>2, <2>6, <2>7 DEF Heir, Heard
<1>7. Reasoned' /\ Inherited'
  BY <1>2, <1>4, <1>6 DEF Reasoned, Inherited
<1> QED
  BY <1>1, <1>5, <1>7 DEF PipelineInv

\* After the merge, what a stage takes out has been heard, and the floors take only
\* what does not pass them.
LEMMA LateStep ==
  ASSUME PipelineInv, Shape', pc \in Stages \ (Early \cup {"merge"}),
         pc' \in Stages \ (Early \cup {"merge"}),
         UNCHANGED <<cfg, found, line, anchored>>,
         \A i \in Ids : i \notin Live => severity'[i] = severity[i],
         \A i \in Ids :
           \/ fate'[i] = fate[i]
           \/ i \in Live /\ fate'[i] \in {"rejected", "unverified", "ruled"}
           \/ i \in Live /\ fate'[i] = "floor" /\ ~Passes(i) /\ severity' = severity
  PROVE  PipelineInv'
<1>1. /\ Ids' = Ids
      /\ \A i : IsScan(i)' = IsScan(i) /\ IsSecurity(i)' = IsSecurity(i)
      /\ \A i, j : Outranks(j, i)' = Outranks(j, i) /\ Covers(j, i)' = Covers(j, i)
  BY DEF Ids, IsScan, IsSecurity, Outranks, SameLocation, Covers
<1>2. Reasoned'
  BY <1>1 DEF PipelineInv, Reasoned, Grounds, Early
<1>3. NoRival'
  <2>1. \A i \in Ids : fate'[i] = "live" => fate[i] = "live"
    BY DEF Live
  <2>2. \A j \in Ids : fate[j] \in {"suppressed", "unproven"} => fate'[j] = fate[j]
    BY DEF Live
  <2> QED
    BY <1>1, <2>1, <2>2 DEF PipelineInv, NoRival
<1>4. ASSUME NEW i \in Ids, NEW j \in Ids, Heir(i, j)
      PROVE  Heir(i, j)'
  <2>1. fate'[j] \in Heard
    BY <1>4 DEF Heir, Heard
  <2>2. ASSUME fate'[j] = "floor" PROVE ~Passes(j)'
    <3>1. ~Passes(j) /\ severity'[j] = severity[j]
      BY <1>4, <2>2 DEF Heir, Live
    <3> QED
      BY <3>1 DEF Passes, IsScan
  <2> QED
    BY <1>1, <1>4, <2>1, <2>2 DEF Heir
<1>5. \A i \in Ids : fate'[i] = "merged" => fate[i] = "merged"
  OBVIOUS
<1>6. Inherited'
  BY <1>1, <1>4, <1>5 DEF PipelineInv, Inherited
<1> QED
  BY <1>2, <1>3, <1>6 DEF PipelineInv

LEMMA ReflectStep ==
  ASSUME PipelineInv, Reflect
  PROVE  PipelineInv'
<1>1. Ids' = Ids /\ fate' = fate /\ Live' = Live /\ \A i : IsScan(i)' = IsScan(i)
  BY DEF PipelineInv, Shape, Reflect, Takes, Ids, Live, IsScan
<1>2. Shape'
  BY <1>1 DEF PipelineInv, Shape, Reflect, Takes, Audited, placing, Stages
<1> QED
  BY <1>1, <1>2, LateStep DEF Reflect, Takes, placing, Stages, Early

LEMMA AuditFailsStep ==
  ASSUME PipelineInv, AuditFails
  PROVE  PipelineInv'
<1>1. Shape'
  BY TakesShape DEF PipelineInv, Shape, AuditFails, placing, Fates, Stages
<1> QED
  BY <1>1, LateStep DEF AuditFails, Takes, placing, Stages, Early

LEMMA AuditStep ==
  ASSUME PipelineInv, Audit
  PROVE  PipelineInv'
<1>1. PICK denied \in SUBSET asked, deferred \in SUBSET asked :
        /\ denied \cap deferred = {}
        /\ \/ /\ hop < MaxHops
              /\ Takes(denied, "rejected", "audit")
              /\ asked' = deferred /\ hop' = hop + 1
           \/ /\ fate' = [i \in Ids |-> CASE i \in denied -> "rejected"
                                          [] i \in deferred -> "unverified"
                                          [] OTHER -> fate[i]]
              /\ pc' = "referee" /\ asked' = {} /\ UNCHANGED <<cfg, found, hop>>
  BY DEF Audit
<1>2. UNCHANGED <<cfg, found, line, anchored, severity>>
  BY <1>1 DEF Audit, Takes, placing
<1>3. Ids' = Ids /\ \A i : IsScan(i)' = IsScan(i)
  BY <1>2, Frame
<1>4. asked \subseteq {i \in Live : ~IsScan(i)} /\ hop \in 0..MaxHops
  BY DEF PipelineInv, Shape
<1>5. \A i \in Ids :
        \/ fate'[i] = fate[i]
        \/ i \in Live /\ fate'[i] \in {"rejected", "unverified"}
  BY <1>1, <1>4 DEF Takes
<1>6. fate' \in [Ids' -> Fates]
  <2>1. \A i \in Ids : fate'[i] \in Fates
    BY <1>5 DEF PipelineInv, Shape, Fates
  <2>2. fate' = [i \in Ids |-> fate'[i]]
    BY <1>1 DEF Takes
  <2> QED
    BY <1>3, <2>1, <2>2
<1>7. hop' \in 0..MaxHops
  BY <1>1, <1>4, BoundAssumption DEF BoundAssumption, Takes
<1>8. asked' \subseteq {i \in Live' : ~IsScan(i)'} /\ (pc' # "audit" => asked' = {})
  BY <1>1, <1>3, <1>4 DEF Live, Takes
<1>9. pc' \in {"audit", "referee"} /\ pc = "audit"
  BY <1>1 DEF Takes, Audit
<1>10. Shape'
  BY <1>2, <1>3, <1>6, <1>7, <1>8, <1>9 DEF PipelineInv, Shape, Stages
<1> QED
  BY <1>2, <1>5, <1>9, <1>10, LateStep DEF Stages, Early

LEMMA RefereeStep ==
  ASSUME PipelineInv, Referee
  PROVE  PipelineInv'
<1>1. Outranked = {}
  BY DEF PipelineInv, NoRival, Referee, Early, Outranked, Live
<1>2. Shape'
  BY <1>1, TakesShape DEF PipelineInv, Shape, Referee, placing, audit, Fates, Stages
<1> QED
  BY <1>1, <1>2, LateStep DEF Referee, Takes, placing, Stages, Early

LEMMA FloorsStep ==
  ASSUME PipelineInv, Floors
  PROVE  PipelineInv'
<1>1. Shape'
  BY TakesShape DEF PipelineInv, Shape, Floors, placing, audit, Fates, Stages
<1> QED
  BY <1>1, LateStep DEF Floors, Takes, placing, Stages, Early

LEMMA ApplyRulesStep ==
  ASSUME PipelineInv, ApplyRules
  PROVE  PipelineInv'
<1>1. /\ pc = "rules" /\ pc' = "done"
      /\ UNCHANGED <<cfg, found, line, anchored, asked, hop>>
      /\ \A i \in Ids : fate'[i] = IF i \in Live /\ Ruling(i) = 0 THEN "ruled" ELSE fate[i]
      /\ \A i \in Ids : i \notin Live \/ Ruling(i) = 0 => severity'[i] = severity[i]
  BY DEF ApplyRules, Takes, audit
<1>2. Ids' = Ids /\ fate' \in [Ids -> Fates]
  BY <1>1 DEF PipelineInv, Shape, ApplyRules, Takes, Ids, Fates
<1>3. \A i \in Ids : i \notin Live' => severity'[i] = found[i].severity
  BY <1>1, <1>2 DEF PipelineInv, Shape, Live
<1>4. asked = {}
  BY <1>1 DEF PipelineInv, Shape
<1>5. Shape'
  BY <1>1, <1>2, <1>3, <1>4 DEF PipelineInv, Shape, Stages
<1> QED
  BY <1>1, <1>5, LateStep DEF Stages, Early

LEMMA StutterStep ==
  ASSUME PipelineInv, UNCHANGED vars
  PROVE  PipelineInv'
  BY DEF PipelineInv, Shape, Reasoned, Grounds, NoRival, Inherited, Heir, Covers, vars, Ids,
         Live, IsScan, IsSecurity, Passes, Outranks, SameLocation

-------------------------------------------------------------------------------
(* Theorems *)

\* Every stage keeps the grounds of those before it, and every finding that was
\* merged has an heir (LLMReviewEngine._collect_findings).
THEOREM PipelineInvariance == Spec => []PipelineInv
<1>1. PipelineInv /\ [Next]_vars => PipelineInv'
  BY SnapStep, ScopeStep, SuppressStep, CapStep, GateStep, ArbitrateStep, MergeStep,
     ReflectStep, AuditFailsStep, AuditStep, RefereeStep, FloorsStep, ApplyRulesStep,
     StutterStep DEF Next
<1> QED
  BY <1>1, InitInv, PTL DEF Spec

\* A cut is not posted beside a fix, whatever the merge, the auditor and the floors
\* do with either of them (resolve_conflicts, before the merge and after the audit).
THEOREM CutYields == Spec => []CutYieldsToFix
<1>1. PipelineInv => CutYieldsToFix
  BY DEF PipelineInv, NoRival, Early, Outranks, CutYieldsToFix
<1> QED
  BY <1>1, PipelineInvariance, PTL

\* What the merge takes from a location it leaves there in a form that the floors
\* treat no worse (_dedupe).
THEOREM MergeIsFree == Spec => []MergeCostsNothing
<1>1. ASSUME PipelineInv PROVE MergeCostsNothing
  <2> SUFFICES ASSUME NEW i \in Ids, fate[i] = "merged"
               PROVE  \E j \in Ids : /\ SameLocation(i, j) /\ fate[j] \in Heard
                                     /\ fate[j] = "floor" /\ (j \in anchored => i \in anchored) => ~Passes(i)
    BY DEF MergeCostsNothing
  <2>1. PICK j \in Ids : Heir(i, j)
    BY <1>1 DEF PipelineInv, Inherited
  <2>2. ASSUME fate[j] = "floor", j \in anchored => i \in anchored
        PROVE  ~Passes(i)
    <3>1. ~Passes(j)
      BY <2>1, <2>2 DEF Heir
    <3>2. /\ severity[i] = found[i].severity /\ severity[j] = found[j].severity
          /\ severity[i] \in Int /\ severity[j] \in Int
      BY <1>1, <2>2, CandidateAssumption
         DEF CandidateAssumption, FindingSpace, PipelineInv, Shape, Severities, Live
    <3>3. cfg.floor \in Int /\ cfg.unanchored \in Int
      <4>1. cfg \in ConfigSpace
        BY <1>1, ConfigAssumption DEF ConfigAssumption, PipelineInv, Shape
      <4>2. cfg.floor \in Severities /\ cfg.unanchored \in Severities
        BY <4>1 DEF ConfigSpace
      <4> QED
        BY <4>2 DEF Severities
    <3>4. /\ i \in anchored <=> j \in anchored
          /\ severity[j] >= severity[i]
          /\ found[i].place = found[j].place /\ IsScan(i) = IsScan(j)
      BY <2>1, <2>2, <3>2 DEF Heir, Covers, SameLocation
    <3> QED
      BY <3>1, <3>2, <3>3, <3>4 DEF Passes
  <2> QED
    BY <2>1, <2>2 DEF Heir, Covers
<1> QED
  BY <1>1, PipelineInvariance, PTL

\* A severe security finding that says how it fails is heard of at its place, unless
\* the team itself has dismissed it (_is_protected_security, is_security_finding).
THEOREM SeriousHeard == Spec => []SeriousIsHeard
<1>1. ASSUME PipelineInv PROVE SeriousIsHeard
  <2> SUFFICES ASSUME NEW i \in Ids,
                      found[i].category \in {"security", "secret", "advisory"},
                      found[i].severity >= High,
                      found[i].title \notin cfg.dismissed,
                      IsScan(i) \/ found[i].scenario
               PROVE  \/ fate[i] \in {"off_diff", "capped"}
                      \/ \E j \in Ids : SameLocation(i, j) /\ fate[j] \in Heard
    BY DEF SeriousIsHeard
  <2>1. fate[i] \notin {"suppressed", "unproven", "outranked"}
    BY <1>1 DEF PipelineInv, Reasoned, Grounds, IsSecurity, IsScan, ScanCategories,
                DefectCategories
  <2>2. CASE fate[i] = "merged"
    BY <1>1, <2>2 DEF PipelineInv, Inherited, Heir, Covers
  <2>3. CASE fate[i] \in Heard
    BY <2>3 DEF SameLocation
  <2> QED
    BY <1>1, <2>1, <2>2, <2>3 DEF PipelineInv, Shape, Fates, Heard
<1> QED
  BY <1>1, PipelineInvariance, PTL

-------------------------------------------------------------------------------
(* The cap on the scanners *)

\* The stages that come before the cap is applied.
Uncapped == {"snap", "scope", "suppress", "cap"}

\* The scans that hold a place against this one.
Holders(i) ==
  {j \in Eligible : fate[j] # "capped" /\ found[j].severity >= found[i].severity}

\* No scan is with the auditor, and none is capped but for a full house.
ScanInv ==
  \A i \in Ids :
    /\ fate[i] \in {"rejected", "unverified"} => ~IsScan(i)
    /\ fate[i] = "capped" => pc \notin Uncapped /\ Cardinality(Holders(i)) = MaxScans

LEMMA InitScan == Init => ScanInv
  BY DEF Init, ScanInv

\* The stages before the cap.
LEMMA UncappedScan ==
  ASSUME PipelineInv, ScanInv, pc \in Uncapped, NEW lost \in SUBSET Live,
         NEW why \in Fates \ {"capped", "rejected", "unverified"}, NEW next \in Stages,
         Takes(lost, why, next)
  PROVE  ScanInv'
<1>1. Ids' = Ids /\ \A i : IsScan(i)' = IsScan(i)
  BY DEF Takes, Ids, IsScan
<1>2. \A i \in Ids : fate'[i] = IF i \in lost THEN why ELSE fate[i]
  BY DEF Takes
<1> QED
  BY <1>1, <1>2 DEF ScanInv

LEMMA SnapScan == PipelineInv /\ ScanInv /\ Snap => ScanInv'
<1> {} \in SUBSET Live
  OBVIOUS
<1> QED
  BY UncappedScan DEF Snap, Uncapped, Fates, Stages

LEMMA ScopeScan == PipelineInv /\ ScanInv /\ Scope => ScanInv'
  BY UncappedScan DEF Scope, Uncapped, Fates, Stages

LEMMA SuppressScan == PipelineInv /\ ScanInv /\ Suppress => ScanInv'
  BY UncappedScan DEF Suppress, Uncapped, Fates, Stages

\* The cap takes none but those for which the house is full.
LEMMA CapScan ==
  ASSUME PipelineInv, ScanInv, Cap
  PROVE  ScanInv'
<1> DEFINE S == {j \in Live : IsScan(j)}
           grade == [j \in S |-> severity[j]]
           lost == {i \in Live : IsScan(i) /\ Cardinality(Before(i)) >= MaxScans}
<1>1. Ids' = Ids /\ found' = found /\ \A i : IsScan(i)' = IsScan(i)
  BY DEF Cap, Takes, Ids, IsScan
<1>2. \A i \in Ids : fate'[i] = IF i \in lost THEN "capped" ELSE fate[i]
  BY DEF Cap, Takes
<1>3. S \in SUBSET Nat /\ IsFiniteSet(S) /\ grade \in [S -> Nat] /\ MaxScans \in Nat
  <2>1. S \subseteq Ids /\ IsFiniteSet(Ids)
    BY DEF PipelineInv, Shape, Live
  <2>2. \A j \in S : j \in Nat /\ severity[j] \in Nat
    BY <2>1, CandidateAssumption
       DEF CandidateAssumption, FindingSpace, PipelineInv, Shape, Severities, Cap
  <2>3. IsFiniteSet(S)
    BY <2>1, FS_Subset
  <2> QED
    BY <2>2, <2>3, BoundAssumption DEF BoundAssumption
<1>4. \A i \in S : Before(i) = Ahead(S, grade, i)
  BY DEF Before, Ahead
<1>5. \A i \in S : i \in lost <=> Cardinality(Ahead(S, grade, i)) >= MaxScans
  BY <1>4
<1>6. ASSUME NEW i \in lost PROVE Cardinality(Holders(i)') = MaxScans
  <2>1. i \in S
    OBVIOUS
  <2>2. Cardinality({j \in S : Cardinality(Ahead(S, grade, j)) < MaxScans}) = MaxScans
    <3>1. Cardinality(Ahead(S, grade, i)) >= MaxScans
      BY <1>5, <2>1
    <3> HIDE DEF S, grade, lost
    <3> QED
      BY <1>3, <2>1, <3>1, RoomIsFilled
  <2>3. ASSUME NEW j \in S
        PROVE  /\ Cardinality(Ahead(S, grade, j)) \in Nat
               /\ j \notin lost => grade[j] >= grade[i]
    <3>1. Cardinality(Ahead(S, grade, j)) \in Nat
      <4>1. Ahead(S, grade, j) \subseteq S
        BY DEF Ahead
      <4> QED
        BY <1>3, <4>1, FS_Subset, FS_CardinalityType
    <3>2. ASSUME grade[j] < grade[i] PROVE j \in lost
      <4>1. i \in Ahead(S, grade, j)
        BY <2>1, <3>2 DEF Ahead
      <4>2. /\ Cardinality(Ahead(S, grade, i)) \in Nat
            /\ Cardinality(Ahead(S, grade, i)) < Cardinality(Ahead(S, grade, j))
        <5> HIDE DEF S, grade, lost
        <5> QED BY <1>3, <4>1, AheadShrinks
      <4>3. Cardinality(Ahead(S, grade, i)) >= MaxScans
        BY <1>5, <2>1
      <4> QED
        BY <1>3, <1>5, <3>1, <4>2, <4>3
    <3>3. grade[j] \in Nat /\ grade[i] \in Nat
      BY <1>3, <2>1
    <3> HIDE DEF S, grade, lost
    <3> QED
      BY <3>1, <3>2, <3>3
  <2>4. \A j \in S : grade[j] = found[j].severity /\ grade[i] = found[i].severity
    BY <2>1 DEF PipelineInv, Shape, Cap, Live
  <2>5. \A j \in Ids : /\ IsScan(j) /\ fate'[j] \notin {"off_diff", "suppressed", "capped"}
                       <=> j \in S /\ j \notin lost
    <3> SUFFICES ASSUME NEW j \in Ids
                 PROVE  /\ IsScan(j) /\ fate'[j] \notin {"off_diff", "suppressed", "capped"}
                        <=> j \in S /\ j \notin lost
      OBVIOUS
    <3>1. IsScan(j) => fate[j] \in {"live", "off_diff", "suppressed"}
      BY DEF PipelineInv, Reasoned, Grounds, ScanInv, Cap, Early, Uncapped, IsScan,
             ScanCategories, DefectCategories
    <3> QED
      BY <1>2, <3>1 DEF Live
  <2>6. Holders(i)' = {j \in S : j \notin lost}
    <3>1. Holders(i)' = {j \in Ids : /\ IsScan(j)
                                     /\ fate'[j] \notin {"off_diff", "suppressed", "capped"}
                                     /\ found[j].severity >= found[i].severity}
      BY <1>1 DEF Holders, Eligible
    <3>2. S \subseteq Ids
      BY DEF Live
    <3> HIDE DEF S, grade, lost
    <3> QED
      BY <2>3, <2>4, <2>5, <3>1, <3>2
  <2>7. {j \in S : j \notin lost} = {j \in S : Cardinality(Ahead(S, grade, j)) < MaxScans}
    <3>1. ASSUME NEW j \in S
          PROVE  j \notin lost <=> Cardinality(Ahead(S, grade, j)) < MaxScans
      <4>1. Cardinality(Ahead(S, grade, j)) \in Nat /\ MaxScans \in Nat
        BY <1>3, <2>3
      <4> HIDE DEF S, grade, lost
      <4> QED
        BY <1>5, <4>1
    <3> HIDE DEF S, grade, lost
    <3> QED
      BY <3>1
  <2> QED
    BY <2>2, <2>6, <2>7
<1>7. pc' = "gate" /\ pc = "cap"
  BY DEF Cap, Takes
<1> QED
  BY <1>1, <1>2, <1>6, <1>7 DEF ScanInv, Uncapped

\* Once the cap is applied, a scan that is in stays in, and what is taken out is
\* taken from the list.
LEMMA LateScan ==
  ASSUME ScanInv, pc \notin Uncapped, pc' \notin Uncapped, found' = found,
         \A i \in Ids :
           \/ fate'[i] = fate[i]
           \/ /\ fate[i] = "live"
              /\ fate'[i] \in {"unproven", "outranked", "merged", "floor", "ruled"}
           \/ fate[i] = "live" /\ ~IsScan(i) /\ fate'[i] \in {"rejected", "unverified"}
  PROVE  ScanInv'
<1>1. Ids' = Ids /\ \A i : IsScan(i)' = IsScan(i)
  BY DEF Ids, IsScan
<1>2. \A i \in Ids : Holders(i)' = Holders(i)
  BY <1>1 DEF Holders, Eligible
<1> QED
  BY <1>1, <1>2 DEF ScanInv

LEMMA LateTakes ==
  ASSUME ScanInv, pc \notin Uncapped, NEW lost \in SUBSET Live,
         NEW why \in {"live", "unproven", "outranked", "merged", "floor", "ruled"},
         NEW next \in Stages \ Uncapped, Takes(lost, why, next)
  PROVE  ScanInv'
<1>1. \A i \in Ids : fate'[i] = IF i \in lost THEN why ELSE fate[i]
  BY DEF Takes
<1>2. \A i \in lost : fate[i] = "live"
  BY DEF Live
<1>3. pc' \notin Uncapped /\ found' = found
  BY DEF Takes
<1> QED
  BY <1>1, <1>2, <1>3, LateScan

LEMMA GateScan == ScanInv /\ Gate => ScanInv'
  BY LateTakes DEF Gate, Uncapped, Stages

LEMMA ArbitrateScan == ScanInv /\ (Arbitrate \/ Referee) => ScanInv'
<1> Outranked \in SUBSET Live
  BY DEF Outranked
<1> QED
  BY LateTakes DEF Arbitrate, Referee, Uncapped, Stages

LEMMA MergeScan == ScanInv /\ Merge => ScanInv'
  BY LateTakes DEF Merge, Uncapped, Stages

LEMMA ReflectScan == ScanInv /\ (Reflect \/ AuditFails) => ScanInv'
<1> {} \in SUBSET Live
  OBVIOUS
<1> QED
  BY LateTakes DEF Reflect, AuditFails, Uncapped, Stages

LEMMA AuditScan ==
  ASSUME PipelineInv, ScanInv, Audit
  PROVE  ScanInv'
<1>1. \A i \in asked : i \in Live /\ ~IsScan(i)
  BY DEF PipelineInv, Shape
<1>2. /\ \A i \in Ids : \/ fate'[i] = fate[i]
                        \/ i \in asked /\ fate'[i] \in {"rejected", "unverified"}
      /\ pc = "audit" /\ pc' \in {"audit", "referee"} /\ found' = found
  BY DEF Audit, Takes
<1>3. \A i \in asked : fate[i] = "live"
  BY <1>1 DEF Live
<1> QED
  BY <1>1, <1>2, <1>3, LateScan DEF Uncapped

LEMMA FloorsScan == ScanInv /\ Floors => ScanInv'
  BY LateTakes DEF Floors, Uncapped, Stages

LEMMA ApplyRulesScan == ScanInv /\ ApplyRules => ScanInv'
  BY LateTakes DEF ApplyRules, Uncapped, Stages

LEMMA StutterScan == ScanInv /\ UNCHANGED vars => ScanInv'
  BY DEF ScanInv, vars, Ids, IsScan, Holders, Eligible

\* A deterministic hit is lost to no model: neither the auditor nor an arbitration
\* takes it, and where the cap does there are as many others as severe as it allows
\* (_reflect, resolve_conflicts, _cap_scans).
THEOREM ScansAreKept == Spec => []ScanLostToNoModel
<1>1. ASSUME PipelineInv, ScanInv PROVE ScanLostToNoModel
  <2> SUFFICES ASSUME NEW i \in Ids, IsScan(i)
               PROVE  \/ fate[i] \in {"live", "off_diff", "suppressed", "floor", "ruled"}
                      \/ /\ fate[i] = "merged"
                         /\ \E j \in Eligible : SameLocation(i, j) /\ fate[j] # "merged"
                      \/ fate[i] = "capped" /\ Cardinality(Holders(i)) = MaxScans
    BY DEF ScanLostToNoModel, Holders
  <2>1. fate[i] \in Fates \ {"rejected", "unverified", "unproven", "outranked"}
    BY <1>1 DEF PipelineInv, Shape, Reasoned, Grounds, ScanInv, IsScan, ScanCategories,
                DefectCategories
  <2>2. CASE fate[i] = "merged"
    <3>1. PICK j \in Ids : Heir(i, j)
      BY <1>1, <2>2 DEF PipelineInv, Inherited
    <3>2. j \in Eligible /\ SameLocation(i, j) /\ fate[j] # "merged"
      BY <3>1 DEF Heir, Covers, SameLocation, Heard, Eligible
    <3> QED
      BY <2>2, <3>2
  <2>3. CASE fate[i] = "capped"
    BY <1>1, <2>3 DEF ScanInv
  <2> QED
    BY <2>1, <2>2, <2>3 DEF Fates
<1>2. PipelineInv /\ ScanInv /\ [Next]_vars => ScanInv'
  BY SnapScan, ScopeScan, SuppressScan, CapScan, GateScan, ArbitrateScan, MergeScan,
     ReflectScan, AuditScan, FloorsScan, ApplyRulesScan, StutterScan DEF Next
<1> QED
  BY <1>1, <1>2, InitScan, PipelineInvariance, PTL DEF Spec

LEMMA MinOfTwo ==
  ASSUME NEW a \in Int, NEW b \in Int
  PROVE  Min({a, b}) = IF a <= b THEN a ELSE b
<1>1. CASE a <= b
  <2>1. \A y \in {a, b} : a <= y
    BY <1>1
  <2>2. ASSUME NEW x \in {a, b}, \A y \in {a, b} : x <= y PROVE x = a
    BY <1>1, <2>2
  <2> QED
    BY <1>1, <2>1, <2>2 DEF Min
<1>2. CASE b < a
  <2>1. \A y \in {a, b} : b <= y
    BY <1>2
  <2>2. ASSUME NEW x \in {a, b}, \A y \in {a, b} : x <= y PROVE x = b
    BY <1>2, <2>2
  <2> QED
    BY <1>2, <2>1, <2>2 DEF Min
<1> QED
  BY <1>1, <1>2

-------------------------------------------------------------------------------
(* The walks of the retrieval *)

\* A loop from its second step is the loop from where its first step led.
Later(later, step, n) == \A i \in 1..n : later[i] = step[i + 1]

Goes(f, g, n, V, base, step, later) ==
  /\ n \in Nat
  /\ Looped(f, n + 1, V, base, step) /\ Looped(g, n, V, step[1][base], later)
  /\ Later(later, step, n)

LEMMA LoopHead ==
  ASSUME NEW n, NEW V, NEW base, NEW f, NEW step, NEW g, NEW later,
         Goes(f, g, n, V, base, step, later)
  PROVE  f[n + 1] = g[n]
<1> DEFINE next == step[1][base]
<1>0. n \in Nat /\ Looped(f, n + 1, V, base, step) /\ Looped(g, n, V, next, later) /\ Later(later, step, n)
  BY DEF Goes
<1> HIDE DEF next
<1> DEFINE S == {i \in 0..n : f[i + 1] = g[i]}
<1>1. 0 \in S
  <2>1. 1 \in 1..(n + 1) /\ 1 - 1 = 0 /\ 0 + 1 = 1 /\ 0 \in 0..n
    BY <1>0
  <2>2. f[1] = step[1][f[1 - 1]] /\ f[0] = base /\ g[0] = next
    BY <1>0, <2>1 DEF Looped
  <2> QED
    BY <2>1, <2>2 DEF next
<1>2. ASSUME NEW i \in 1..n, i - 1 \in S PROVE i \in S
  <2>1. i + 1 \in 1..(n + 1) /\ (i + 1) - 1 = i /\ (i - 1) + 1 = i /\ i \in 0..n
    BY <1>0
  <2>2. f[i + 1] = step[i + 1][f[(i + 1) - 1]] /\ g[i] = later[i][g[i - 1]]
    BY <1>0, <2>1 DEF Looped
  <2>3. f[(i - 1) + 1] = g[i - 1]
    BY <1>2
  <2>4. later[i] = step[i + 1]
    BY <1>0 DEF Later
  <2> QED
    BY <2>1, <2>2, <2>3, <2>4
<1>3. 0..n \subseteq S
  <2> HIDE DEF S
  <2> QED
    BY <1>0, <1>1, <1>2, UpTo
<1>4. n \in 0..n
  BY <1>0
<1> QED
  BY <1>3, <1>4

\* A loop whose steps leave where it starts alone ends there.
LEMMA LoopStays ==
  ASSUME NEW n \in Nat, NEW V, NEW base, NEW f, NEW step, Looped(f, n, V, base, step),
         \A i \in 1..n : step[i][base] = base
  PROVE  f[n] = base
<1> DEFINE S == {i \in 0..n : f[i] = base}
<1>1. 0 \in S
  BY DEF Looped
<1>2. ASSUME NEW i \in 1..n, i - 1 \in S PROVE i \in S
  BY <1>2 DEF Looped
<1>3. 0..n \subseteq S
  <2> HIDE DEF S
  <2> QED
    BY <1>1, <1>2, UpTo
<1>4. n \in 0..n
  OBVIOUS
<1> QED
  BY <1>3, <1>4

LEMMA TakePathType ==
  ASSUME NEW acc \in Seq(Names), NEW p \in Names, NEW known
  PROVE  TakePath(acc, p, known) \in Seq(Names)
BY DEF TakePath

PathSteps(paths, known) ==
  [i \in 1..Len(paths) |-> [v \in Seq(Names) |-> TakePath(v, paths[i], known)]]

\* What TakePaths computes.
LEMMA TakePathsIs ==
  ASSUME NEW acc \in Seq(Names), NEW paths \in Seq(Names), NEW known
  PROVE  \E f : /\ Looped(f, Len(paths), Seq(Names), acc, PathSteps(paths, known))
                /\ TakePaths(acc, paths, known) = f[Len(paths)]
<1> DEFINE n == Len(paths)
           step == PathSteps(paths, known)
<1>0. n \in Nat /\ \A i \in 1..n : paths[i] \in Names
  OBVIOUS
<1>1. step \in [1..n -> [Seq(Names) -> Seq(Names)]]
  BY <1>0, TakePathType DEF PathSteps
<1>2. PICK f : Looped(f, n, Seq(Names), acc, step)
  <2> HIDE DEF step, n
  <2> QED
    BY <1>0, <1>1, Loop
<1>3. ASSUME NEW i \in 1..n PROVE f[i] = TakePath(f[i - 1], paths[i], known)
  <2>1. i - 1 \in 0..n
    BY <1>0
  <2>2. f[i - 1] \in Seq(Names) /\ f[i] = step[i][f[i - 1]]
    BY <1>2, <2>1 DEF Looped
  <2> QED
    BY <2>2 DEF PathSteps
<1>4. f = [i \in 0..n |-> IF i = 0 THEN acc ELSE TakePath(f[i - 1], paths[i], known)]
  <2>1. f \in [0..n -> Seq(Names)] /\ f[0] = acc
    BY <1>2 DEF Looped
  <2>2. ASSUME NEW i \in 0..n
        PROVE  f[i] = IF i = 0 THEN acc ELSE TakePath(f[i - 1], paths[i], known)
    <3>1. i # 0 => i \in 1..n
      BY <1>0
    <3> QED
      BY <1>3, <2>1, <3>1
  <2> QED
    BY <2>1, <2>2
<1> DEFINE g == CHOOSE g : g = [i \in 0..n |-> IF i = 0 THEN acc
                                               ELSE TakePath(g[i - 1], paths[i], known)]
<1>5. g = [i \in 0..n |-> IF i = 0 THEN acc ELSE TakePath(g[i - 1], paths[i], known)]
  BY <1>4, Zenon
<1>6. TakePaths(acc, paths, known) = g[n]
  BY Zenon DEF TakePaths
<1> HIDE DEF g, n
<1> DEFINE S == {i \in 0..n : g[i] = f[i]}
<1>7. 0 \in S
  BY <1>0, <1>5, <1>2 DEF Looped
<1>8. ASSUME NEW i \in 1..n, i - 1 \in S PROVE i \in S
  <2>1. i \in 0..n /\ i # 0 /\ g[i - 1] = f[i - 1]
    BY <1>0, <1>8
  <2>2. g[i] = TakePath(g[i - 1], paths[i], known)
    BY <1>5, <2>1
  <2> QED
    BY <1>3, <2>1, <2>2
<1>9. n \in S
  <2> HIDE DEF S
  <2>1. 0..n \subseteq S
    BY <1>0, <1>7, <1>8, UpTo
  <2>2. n \in 0..n
    BY <1>0
  <2> QED
    BY <2>1, <2>2
<1> QED
  BY <1>2, <1>6, <1>9 DEF n

LEMMA TakePathsType ==
  ASSUME NEW acc \in Seq(Names), NEW paths \in Seq(Names), NEW known
  PROVE  TakePaths(acc, paths, known) \in Seq(Names)
<1>1. PICK f : /\ Looped(f, Len(paths), Seq(Names), acc, PathSteps(paths, known))
               /\ TakePaths(acc, paths, known) = f[Len(paths)]
  BY TakePathsIs
<1>2. Len(paths) \in 0..Len(paths)
  OBVIOUS
<1> QED
  BY <1>1, <1>2 DEF Looped

\* One path at a time (take_in_waves).
LEMMA TakePathsHead ==
  ASSUME NEW acc \in Seq(Names), NEW paths \in Seq(Names), paths # <<>>, NEW known
  PROVE  TakePaths(acc, paths, known)
           = TakePaths(TakePath(acc, Head(paths), known), Tail(paths), known)
<1> DEFINE n == Len(Tail(paths))
           first == TakePath(acc, Head(paths), known)
<1>1. /\ Len(paths) = n + 1 /\ n \in Nat /\ Tail(paths) \in Seq(Names) /\ Head(paths) \in Names
      /\ Head(paths) = paths[1] /\ \A i \in 1..n : Tail(paths)[i] = paths[i + 1]
  OBVIOUS
<1>2. first \in Seq(Names)
  BY <1>1, TakePathType
<1>3. PICK f : /\ Looped(f, Len(paths), Seq(Names), acc, PathSteps(paths, known))
               /\ TakePaths(acc, paths, known) = f[Len(paths)]
  BY TakePathsIs
<1> HIDE DEF first
<1>4. PICK g : /\ Looped(g, Len(Tail(paths)), Seq(Names), first, PathSteps(Tail(paths), known))
               /\ TakePaths(first, Tail(paths), known) = g[Len(Tail(paths))]
  BY <1>1, <1>2, TakePathsIs
<1>5. PathSteps(paths, known)[1][acc] = first
  BY <1>1 DEF PathSteps, first
<1>6. Later(PathSteps(Tail(paths), known), PathSteps(paths, known), n)
  BY <1>1 DEF PathSteps, Later
<1>7. Looped(f, n + 1, Seq(Names), acc, PathSteps(paths, known)) /\ Looped(g, n, Seq(Names), first, PathSteps(Tail(paths), known))
  BY <1>1, <1>3, <1>4
<1> HIDE DEF n
<1> DEFINE step == PathSteps(paths, known)
           later == PathSteps(Tail(paths), known)
           V == Seq(Names)
<1>8. f[n + 1] = g[n]
  <2>1. Goes(f, g, n, V, acc, step, later)
    BY <1>1, <1>5, <1>6, <1>7 DEF Goes
  <2> HIDE DEF step, later, V
  <2> QED
    BY <2>1, LoopHead
<1> QED
  BY <1>1, <1>3, <1>4, <1>8 DEF first, n

\* A walk that is over, or full, takes no more.
LEMMA TakePathsEnds ==
  ASSUME NEW acc \in Seq(Names), NEW paths \in Seq(Names), NEW known,
         paths = <<>> \/ Len(acc) >= MaxFiles
  PROVE  TakePaths(acc, paths, known) = acc
<1>1. PICK f : /\ Looped(f, Len(paths), Seq(Names), acc, PathSteps(paths, known))
               /\ TakePaths(acc, paths, known) = f[Len(paths)]
  BY TakePathsIs
<1>2. \A i \in 1..Len(paths) : PathSteps(paths, known)[i][acc] = acc
  <2>1. ASSUME NEW i \in 1..Len(paths) PROVE TakePath(acc, paths[i], known) = acc
    <3>1. Len(acc) >= MaxFiles
      OBVIOUS
    <3>2. Len(acc) \in Nat /\ MaxFiles \in Nat
      BY RetrievalAssumption
    <3> QED
      BY <3>1, <3>2 DEF TakePath
  <2> QED
    BY <2>1 DEF PathSteps
<1>3. f[Len(paths)] = acc
  <2>1. Len(paths) \in Nat
    OBVIOUS
  <2> QED
    BY <1>1, <1>2, <2>1, LoopStays
<1> QED
  BY <1>1, <1>3

LEMMA TakeNone ==
  ASSUME NEW acc \in Seq(Names), NEW known
  PROVE  TakePaths(acc, <<>>, known) = acc
BY EmptySeq, TakePathsEnds

\* The first few of a sequence.
LEMMA FirstOf ==
  ASSUME NEW A, NEW s \in Seq(A), NEW m \in 0..Len(s)
  PROVE  SubSeq(s, 1, m) \in Seq(A) /\ Len(SubSeq(s, 1, m)) = m
<1>1. \A i \in 1..m : s[i] \in A
  OBVIOUS
<1> QED
  BY <1>1, SubSeqProperties

LEMMA ResolveSymbolType ==
  ASSUME defs \in [Symbols -> Seq(Paths)], NEW n
  PROVE  ResolveSymbol(n) \in Seq(Names)
<1>1. CASE n \in Symbols
  <2>1. defs[n] \in Seq(Names)
    BY <1>1 DEF Names
  <2>2. MaxCandidates \in Nat
    BY RetrievalAssumption
  <2>3. Min({MaxCandidates, Len(defs[n])}) \in 0..Len(defs[n])
    BY <2>1, <2>2, MinOfTwo
  <2>4. SubSeq(defs[n], 1, Min({MaxCandidates, Len(defs[n])})) \in Seq(Names)
    BY <2>1, <2>3, FirstOf
  <2> QED
    BY <1>1, <2>4 DEF ResolveSymbol, IsSymbol, Take
<1>2. CASE n \notin Symbols
  BY <1>2 DEF ResolveSymbol, IsSymbol
<1> QED
  BY <1>1, <1>2

LEMMA TakeNeedType ==
  ASSUME defs \in [Symbols -> Seq(Paths)],
         NEW acc \in Seq(Names), NEW n \in Names, NEW known, NEW cloned
  PROVE  TakeNeed(acc, n, known, cloned) \in Seq(Names)
BY TakePathType, TakePathsType, ResolveSymbolType DEF TakeNeed

NeedSteps(asks, known, cloned) ==
  [i \in 1..Len(asks) |-> [v \in Seq(Names) |-> TakeNeed(v, asks[i], known, cloned)]]

\* What Walk computes.
LEMMA WalkIs ==
  ASSUME defs \in [Symbols -> Seq(Paths)],
         NEW acc \in Seq(Names), NEW asks \in Seq(Names), NEW known, NEW cloned
  PROVE  \E f : /\ Looped(f, Len(asks), Seq(Names), acc, NeedSteps(asks, known, cloned))
                /\ Walk(acc, asks, known, cloned) = f[Len(asks)]
<1> DEFINE n == Len(asks)
           step == NeedSteps(asks, known, cloned)
<1>0. n \in Nat /\ \A i \in 1..n : asks[i] \in Names
  OBVIOUS
<1>1. step \in [1..n -> [Seq(Names) -> Seq(Names)]]
  BY <1>0, TakeNeedType DEF NeedSteps
<1>2. PICK f : Looped(f, n, Seq(Names), acc, step)
  <2> HIDE DEF step, n
  <2> QED
    BY <1>0, <1>1, Loop
<1>3. ASSUME NEW i \in 1..n PROVE f[i] = TakeNeed(f[i - 1], asks[i], known, cloned)
  <2>1. i - 1 \in 0..n
    BY <1>0
  <2>2. f[i - 1] \in Seq(Names) /\ f[i] = step[i][f[i - 1]]
    BY <1>2, <2>1 DEF Looped
  <2> QED
    BY <2>2 DEF NeedSteps
<1>4. f = [i \in 0..n |-> IF i = 0 THEN acc ELSE TakeNeed(f[i - 1], asks[i], known, cloned)]
  <2>1. f \in [0..n -> Seq(Names)] /\ f[0] = acc
    BY <1>2 DEF Looped
  <2>2. ASSUME NEW i \in 0..n
        PROVE  f[i] = IF i = 0 THEN acc ELSE TakeNeed(f[i - 1], asks[i], known, cloned)
    <3>1. i # 0 => i \in 1..n
      BY <1>0
    <3> QED
      BY <1>3, <2>1, <3>1
  <2> QED
    BY <2>1, <2>2
<1> DEFINE g == CHOOSE g : g = [i \in 0..n |-> IF i = 0 THEN acc
                                               ELSE TakeNeed(g[i - 1], asks[i], known, cloned)]
<1>5. g = [i \in 0..n |-> IF i = 0 THEN acc ELSE TakeNeed(g[i - 1], asks[i], known, cloned)]
  BY <1>4, Zenon
<1>6. Walk(acc, asks, known, cloned) = g[n]
  BY Zenon DEF Walk
<1> HIDE DEF g, n
<1> DEFINE S == {i \in 0..n : g[i] = f[i]}
<1>7. 0 \in S
  BY <1>0, <1>5, <1>2 DEF Looped
<1>8. ASSUME NEW i \in 1..n, i - 1 \in S PROVE i \in S
  <2>1. i \in 0..n /\ i # 0 /\ g[i - 1] = f[i - 1]
    BY <1>0, <1>8
  <2>2. g[i] = TakeNeed(g[i - 1], asks[i], known, cloned)
    BY <1>5, <2>1
  <2> QED
    BY <1>3, <2>1, <2>2
<1>9. n \in S
  <2> HIDE DEF S
  <2>1. 0..n \subseteq S
    BY <1>0, <1>7, <1>8, UpTo
  <2>2. n \in 0..n
    BY <1>0
  <2> QED
    BY <2>1, <2>2
<1> QED
  BY <1>2, <1>6, <1>9 DEF n

LEMMA WalkType ==
  ASSUME defs \in [Symbols -> Seq(Paths)],
         NEW acc \in Seq(Names), NEW asks \in Seq(Names), NEW known, NEW cloned
  PROVE  Walk(acc, asks, known, cloned) \in Seq(Names)
<1>1. PICK f : /\ Looped(f, Len(asks), Seq(Names), acc, NeedSteps(asks, known, cloned))
               /\ Walk(acc, asks, known, cloned) = f[Len(asks)]
  BY WalkIs
<1>2. Len(asks) \in 0..Len(asks)
  OBVIOUS
<1> QED
  BY <1>1, <1>2 DEF Looped

\* One need at a time (resolve_needs).
LEMMA WalkHead ==
  ASSUME defs \in [Symbols -> Seq(Paths)],
         NEW acc \in Seq(Names), NEW asks \in Seq(Names), asks # <<>>, NEW known, NEW cloned
  PROVE  Walk(acc, asks, known, cloned)
           = Walk(TakeNeed(acc, Head(asks), known, cloned), Tail(asks), known, cloned)
<1> DEFINE n == Len(Tail(asks))
           first == TakeNeed(acc, Head(asks), known, cloned)
<1>1. /\ Len(asks) = n + 1 /\ n \in Nat /\ Tail(asks) \in Seq(Names) /\ Head(asks) \in Names
      /\ Head(asks) = asks[1] /\ \A i \in 1..n : Tail(asks)[i] = asks[i + 1]
  OBVIOUS
<1>2. first \in Seq(Names)
  BY <1>1, TakeNeedType
<1>3. PICK f : /\ Looped(f, Len(asks), Seq(Names), acc, NeedSteps(asks, known, cloned))
               /\ Walk(acc, asks, known, cloned) = f[Len(asks)]
  BY WalkIs
<1> HIDE DEF first
<1>4. PICK g : /\ Looped(g, Len(Tail(asks)), Seq(Names), first, NeedSteps(Tail(asks), known, cloned))
               /\ Walk(first, Tail(asks), known, cloned) = g[Len(Tail(asks))]
  <2> DEFINE rest == Tail(asks)
  <2>1. rest \in Seq(Names)
    BY <1>1
  <2> HIDE DEF rest, n
  <2>2. \E g : /\ Looped(g, Len(rest), Seq(Names), first, NeedSteps(rest, known, cloned))
               /\ Walk(first, rest, known, cloned) = g[Len(rest)]
    BY <1>2, <2>1, WalkIs
  <2> QED
    BY <2>2 DEF rest
<1>5. NeedSteps(asks, known, cloned)[1][acc] = first
  BY <1>1 DEF NeedSteps, first
<1>6. Later(NeedSteps(Tail(asks), known, cloned), NeedSteps(asks, known, cloned), n)
  BY <1>1 DEF NeedSteps, Later
<1>7. Looped(f, n + 1, Seq(Names), acc, NeedSteps(asks, known, cloned)) /\ Looped(g, n, Seq(Names), first, NeedSteps(Tail(asks), known, cloned))
  BY <1>1, <1>3, <1>4
<1> HIDE DEF n
<1> DEFINE step == NeedSteps(asks, known, cloned)
           later == NeedSteps(Tail(asks), known, cloned)
           V == Seq(Names)
<1>8. f[n + 1] = g[n]
  <2>1. Goes(f, g, n, V, acc, step, later)
    BY <1>1, <1>5, <1>6, <1>7 DEF Goes
  <2> HIDE DEF step, later, V
  <2> QED
    BY <2>1, LoopHead
<1> QED
  BY <1>1, <1>3, <1>4, <1>8 DEF first, n

\* The walk that is over, or full, takes no more.
LEMMA WalkEnds ==
  ASSUME defs \in [Symbols -> Seq(Paths)],
         NEW acc \in Seq(Names), NEW asks \in Seq(Names), NEW known, NEW cloned,
         asks = <<>> \/ Len(acc) >= MaxFiles
  PROVE  Walk(acc, asks, known, cloned) = acc
<1>1. PICK f : /\ Looped(f, Len(asks), Seq(Names), acc, NeedSteps(asks, known, cloned))
               /\ Walk(acc, asks, known, cloned) = f[Len(asks)]
  BY WalkIs
<1>2. \A i \in 1..Len(asks) : NeedSteps(asks, known, cloned)[i][acc] = acc
  <2>1. ASSUME NEW i \in 1..Len(asks) PROVE TakeNeed(acc, asks[i], known, cloned) = acc
    <3>1. Len(acc) >= MaxFiles
      OBVIOUS
    <3>2. Len(acc) \in Nat /\ MaxFiles \in Nat
      BY RetrievalAssumption
    <3> QED
      BY <3>1, <3>2 DEF TakeNeed, TakePath
  <2> QED
    BY <2>1 DEF NeedSteps
<1>3. f[Len(asks)] = acc
  <2>1. Len(asks) \in Nat
    OBVIOUS
  <2> QED
    BY <1>1, <1>2, <2>1, LoopStays
<1> QED
  BY <1>1, <1>3

-------------------------------------------------------------------------------
(* The invariant of the retrieval *)

FrameSpace == [pending : Seq(Names), wave : Seq(Names), symbols : BOOLEAN]

RetrievalShape ==
  /\ text \in [Names -> Nat] /\ defs \in [Symbols -> Seq(Paths)] /\ fixed \in Nat
  /\ open \subseteq Findings /\ contents \subseteq Names
  /\ needs \in Seq(Names) /\ out \in Seq(Names) /\ tree \in {"unasked", "cloned", "none"}
  /\ frames \in Seq(FrameSpace) /\ Len(frames) <= 2
  /\ \A i \in 1..Len(frames) : frames[i].symbols = (i = 1)
  /\ phase # "resolve" => frames = <<>>

\* What was fetched, and what is on its way.
Fetches ==
  /\ seen \subseteq Names /\ seen \cap already = {} /\ flying \subseteq seen
  /\ got = {p \in seen \ flying : text[p] > 0}
  /\ \A i \in 1..Len(frames) : Range(frames[i].wave) \subseteq seen \cup already
  /\ IsFiniteSet(flying) /\ Cardinality(flying) <= Headroom
  /\ frames = <<>> => flying = {}

Informed ==
  /\ Len(out) <= MaxFiles /\ Range(out) \cap already = {}
  /\ phase = "resolve" => already = prompt.shown

\* Whether there is a tree is as good as known before it is asked for.
Agrees(cloned) == tree = "unasked" \/ cloned = (tree = "cloned")

Left(frame) == frame.wave \o frame.pending

\* What a one-by-one walk would make of what is left.
RestOf(levels, taken, known, cloned) ==
  IF levels = <<>> THEN taken
  ELSE Walk(IF Len(levels) = 1 THEN taken ELSE TakePaths(taken, Left(levels[2]), known),
            Left(levels[1]), known, cloned)

OnTheWalk ==
  \A cloned \in BOOLEAN :
    Agrees(cloned) => RestOf(frames, out, already, cloned) = Walk(<<>>, needs, already, cloned)

RetrievalInv == RetrievalShape /\ Fetches /\ Informed /\ OnTheWalk /\ PromptFits

\* A walk depends on the texts and the definitions.
LEMMA TakePathsStand ==
  ASSUME text' = text, NEW acc, NEW paths, NEW known
  PROVE  TakePaths(acc, paths, known)' = TakePaths(acc, paths, known)
BY DEF TakePaths, TakePath, Acceptable, RedactedCost

LEMMA WalkStands ==
  ASSUME text' = text, defs' = defs, NEW acc, NEW asks, NEW known, NEW cloned
  PROVE  Walk(acc, asks, known, cloned)' = Walk(acc, asks, known, cloned)
BY DEF Walk, TakeNeed, TakePaths, TakePath, Acceptable, RedactedCost, ResolveSymbol, IsSymbol, Take

LEMMA OnTheWalkStill ==
  ASSUME text' = text, defs' = defs,
         \A cloned \in BOOLEAN : Agrees(cloned)' =>
           RestOf(frames', out', already', cloned) = Walk(<<>>, needs', already', cloned)
  PROVE  OnTheWalk'
<1> SUFFICES ASSUME NEW cloned \in BOOLEAN, Agrees(cloned)'
             PROVE  (RestOf(frames, out, already, cloned) = Walk(<<>>, needs, already, cloned))'
  BY DEF OnTheWalk
<1>1. RestOf(frames', out', already', cloned) = Walk(<<>>, needs', already', cloned)
  OBVIOUS
<1>2. Walk(<<>>, needs, already, cloned)' = Walk(<<>>, needs', already', cloned)
  BY WalkStands
<1>3. RestOf(frames, out, already, cloned)' = RestOf(frames', out', already', cloned)
  BY TakePathsStand, WalkStands DEF RestOf, Left
<1> QED
  BY <1>1, <1>2, <1>3

-------------------------------------------------------------------------------
(* The retrieval's frames and waves *)

LEMMA TakeDrop ==
  ASSUME NEW A, NEW s \in Seq(A), NEW n \in Nat
  PROVE  /\ Take(n, s) \in Seq(A) /\ Drop(n, s) \in Seq(A)
         /\ Take(n, s) \o Drop(n, s) = s
         /\ Len(Take(n, s)) <= n
<1> DEFINE m == Min({n, Len(s)})
<1>1. Len(s) \in Nat /\ m = IF n <= Len(s) THEN n ELSE Len(s)
  BY MinOfTwo
<1>2. m \in 0..Len(s) /\ m <= n
  BY <1>1
<1>3. Take(n, s) = SubSeq(s, 1, m)
  BY DEF Take
<1> HIDE DEF m
<1>4. SubSeq(s, 1, m) \in Seq(A) /\ Len(SubSeq(s, 1, m)) = m
      /\ \A i \in 1..m : SubSeq(s, 1, m)[i] = s[i]
  <2>1. \A i \in 1..m : s[i] \in A
    BY <1>2
  <2> QED
    BY <1>2, <2>1, SubSeqProperties
<1>5. CASE n <= Len(s)
  <2>1. \A i \in (n + 1)..Len(s) : s[i] \in A
    BY <1>5
  <2>2. Drop(n, s) = SubSeq(s, n + 1, Len(s))
    BY DEF Drop
  <2>3. SubSeq(s, n + 1, Len(s)) \in Seq(A)
    BY <1>1, <2>1, SubSeqProperties
  <2>4. Len(SubSeq(s, n + 1, Len(s))) = Len(s) - n
    BY <1>1, <1>5, <2>1, SubSeqProperties
  <2>5. \A i \in 1..(Len(s) - n) : SubSeq(s, n + 1, Len(s))[i] = s[n + i]
    BY <1>1, <1>5, <2>1, SubSeqProperties
  <2> DEFINE a == Take(n, s)
             b == Drop(n, s)
  <2>6. a \in Seq(A) /\ Len(a) = n /\ \A i \in 1..n : a[i] = s[i]
    BY <1>1, <1>3, <1>4, <1>5
  <2>7. b \in Seq(A) /\ Len(b) = Len(s) - n /\ \A i \in 1..(Len(s) - n) : b[i] = s[n + i]
    BY <2>2, <2>3, <2>4, <2>5
  <2> HIDE DEF a, b
  <2>8. /\ a \o b \in Seq(A) /\ Len(a \o b) = Len(a) + Len(b)
        /\ \A i \in 1..Len(a) + Len(b) : (a \o b)[i] = IF i <= Len(a) THEN a[i] ELSE b[i - Len(a)]
    BY <2>6, <2>7, ConcatProperties
  <2> DEFINE k == Len(s)
  <2>0. k \in Nat /\ n <= k /\ Len(a) + Len(b) = k
    BY <1>1, <1>5, <2>6, <2>7
  <2>9. ASSUME NEW i \in 1..Len(s) PROVE (a \o b)[i] = s[i]
    <3>1. (a \o b)[i] = IF i <= n THEN a[i] ELSE b[i - n]
      BY <2>0, <2>6, <2>8
    <3>2. CASE i <= n
      BY <2>6, <3>1, <3>2
    <3>3. CASE i > n
      <4>1. i - n \in 1..(Len(s) - n) /\ n + (i - n) = i
        BY <2>0, <3>3
      <4> QED
        BY <2>7, <3>1, <3>3, <4>1
    <3>4. i <= n \/ i > n
      BY <2>0
    <3> QED
      BY <3>2, <3>3, <3>4
  <2>10. a \o b = s
    BY <2>0, <2>8, <2>9, SeqEqual
  <2> QED
    BY <1>5, <2>6, <2>7, <2>10 DEF a, b
<1>6. CASE n > Len(s)
  <2>1. m = Len(s)
    BY <1>1, <1>6
  <2>2. Take(n, s) = s
    BY <1>3, <2>1, SubSeqFull
  <2>3. Drop(n, s) = <<>>
    BY <1>1, <1>6, SubSeqEmpty DEF Drop
  <2>4. s \o <<>> = s /\ <<>> \in Seq(A)
    BY ConcatEmptySeq
  <2> QED
    BY <1>1, <1>6, <2>2, <2>3, <2>4
<1> QED
  BY <1>1, <1>5, <1>6

\* A sequence has no more values than places.
LEMMA RangeSize ==
  ASSUME NEW A, NEW s \in Seq(A)
  PROVE  IsFiniteSet(Range(s)) /\ Cardinality(Range(s)) <= Len(s)
<1> DEFINE S == 1..Len(s)
           F(i) == s[i]
<1>1. IsFiniteSet(S) /\ Cardinality(S) = Len(s)
  <2>1. Len(s) \in Nat
    OBVIOUS
  <2> QED
    BY <2>1, FS_Interval
<1>2. Range(s) = {s[i] : i \in S}
  BY DEF Range
<1>3. s \in Surjection(S, Range(s))
  <2>1. s \in [S -> Range(s)]
    BY DEF Range
  <2>2. \A t \in Range(s) : \E i \in S : s[i] = t
    BY <1>2
  <2> QED
    BY <2>1, <2>2 DEF Surjection
<1> HIDE DEF S
<1> QED
  BY <1>1, <1>3, FS_Surjection

\* There are at most two: the needs, and the files that define one of them.
LEMMA Levels ==
  ASSUME RetrievalShape, frames # <<>>
  PROVE  /\ Len(frames) \in {1, 2} /\ Top = frames[Len(frames)] /\ Top \in FrameSpace
         /\ Top.symbols = (Len(frames) = 1)
         /\ Front(frames) \in Seq(FrameSpace) /\ Len(Front(frames)) = Len(frames) - 1
         /\ \A i \in 1..(Len(frames) - 1) : Front(frames)[i] = frames[i]
<1>1. frames \in Seq(FrameSpace) /\ Len(frames) <= 2 /\ Len(frames) # 0
  BY DEF RetrievalShape
<1> DEFINE n == Len(frames)
<1>2. n \in {1, 2}
  <2>1. n \in Nat /\ n <= 2 /\ n # 0
    BY <1>1
  <2> HIDE DEF n
  <2> QED
    BY <2>1
<1> HIDE DEF n
<1>3. Top = frames[n]
  BY DEF Top, Last, n
<1>4. Top \in FrameSpace /\ Top.symbols = (n = 1)
  <2>1. \A i \in 1..n : frames[i] \in FrameSpace /\ frames[i].symbols = (i = 1)
    BY <1>1 DEF RetrievalShape, n
  <2>2. n \in 1..n
    BY <1>2
  <2> QED
    BY <1>3, <2>1, <2>2
<1>5. /\ Front(frames) \in Seq(FrameSpace) /\ Len(Front(frames)) = n - 1
      /\ \A i \in 1..(n - 1) : Front(frames)[i] = frames[i]
  <2>1. \A i \in 1..(n - 1) : frames[i] \in FrameSpace
    BY <1>1, <1>2 DEF n
  <2>2. Front(frames) = SubSeq(frames, 1, n - 1)
    BY DEF Front, n
  <2> DEFINE m == n - 1
  <2>3. m \in Nat
    BY <1>2
  <2> HIDE DEF m
  <2>4. \A i \in 1..m : frames[i] \in FrameSpace
    BY <2>1 DEF m
  <2>5. /\ SubSeq(frames, 1, m) \in Seq(FrameSpace) /\ Len(SubSeq(frames, 1, m)) = m
        /\ \A i \in 1..m : SubSeq(frames, 1, m)[i] = frames[i]
    <3>1. /\ SubSeq(frames, 1, m) \in Seq(FrameSpace)
          /\ Len(SubSeq(frames, 1, m)) = IF 1 <= m THEN m - 1 + 1 ELSE 0
          /\ \A i \in 1..m - 1 + 1 : SubSeq(frames, 1, m)[i] = frames[1 + i - 1]
      BY <2>3, <2>4, SubSeqProperties
    <3> QED
      BY <2>3, <3>1
  <2> QED
    BY <2>2, <2>5 DEF m
<1> QED
  BY <1>2, <1>3, <1>4, <1>5 DEF n

LEMMA LevelSet ==
  ASSUME RetrievalShape, frames # <<>>, NEW f \in FrameSpace, f.symbols = Top.symbols
  PROVE  /\ SetTop(f) \in Seq(FrameSpace) /\ Len(SetTop(f)) = Len(frames)
         /\ SetTop(f)[Len(frames)] = f
         /\ \A i \in 1..(Len(frames) - 1) : SetTop(f)[i] = frames[i]
<1>1. /\ Len(frames) \in {1, 2}
      /\ Front(frames) \in Seq(FrameSpace) /\ Len(Front(frames)) = Len(frames) - 1
      /\ \A i \in 1..(Len(frames) - 1) : Front(frames)[i] = frames[i]
  BY Levels
<1> DEFINE s == Front(frames)
<1> HIDE DEF s
<1>2. SetTop(f) = Append(s, f)
  BY DEF SetTop, s
<1>3. s \in Seq(FrameSpace) /\ Len(s) = Len(frames) - 1
      /\ \A i \in 1..(Len(frames) - 1) : s[i] = frames[i]
  BY <1>1 DEF s
<1>4. Append(s, f) \in Seq(FrameSpace) /\ Len(Append(s, f)) = Len(frames)
      /\ Append(s, f)[Len(frames)] = f
      /\ \A i \in 1..(Len(frames) - 1) : Append(s, f)[i] = s[i]
  BY <1>1, <1>3
<1> QED
  BY <1>2, <1>3, <1>4

-------------------------------------------------------------------------------
(* The prompt of an audit *)

LEMMA InDiffOrderType ==
  ASSUME NEW S
  PROVE  InDiffOrder(S) \in Seq(Paths)
<1> DEFINE n == Len(PathOrder)
           step == [i \in 1..n |-> [s \in Seq(Paths) |->
                      IF PathOrder[i] \in S THEN Append(s, PathOrder[i]) ELSE s]]
<1>0. n \in Nat /\ \A i \in 1..n : PathOrder[i] \in Paths
  BY RetrievalAssumption
<1>1. step \in [1..n -> [Seq(Paths) -> Seq(Paths)]]
  <2>1. ASSUME NEW i \in 1..n, NEW s \in Seq(Paths)
        PROVE  (IF PathOrder[i] \in S THEN Append(s, PathOrder[i]) ELSE s) \in Seq(Paths)
    <3>1. Append(s, PathOrder[i]) \in Seq(Paths)
      BY <1>0, AppendProperties
    <3> QED
      BY <3>1
  <2> HIDE DEF n
  <2> QED
    BY <2>1
<1>2. PICK f : Looped(f, n, Seq(Paths), <<>>, step)
  <2> HIDE DEF step, n
  <2> QED
    BY <1>0, <1>1, EmptySeq, Loop
<1> HIDE DEF n
<1>3. \A i \in 1..n : i - 1 \in 0..n
  BY <1>0
<1>4. f = [i \in 0..n |-> IF i = 0 THEN <<>>
                          ELSE IF PathOrder[i] \in S THEN Append(f[i - 1], PathOrder[i])
                          ELSE f[i - 1]]
  <2>1. f \in [0..n -> Seq(Paths)] /\ f[0] = <<>>
    BY <1>2 DEF Looped
  <2>2. ASSUME NEW i \in 1..n
        PROVE  f[i] = IF PathOrder[i] \in S THEN Append(f[i - 1], PathOrder[i]) ELSE f[i - 1]
    <3>1. f[i - 1] \in Seq(Paths) /\ f[i] = step[i][f[i - 1]]
      BY <1>2, <1>3 DEF Looped
    <3> QED
      BY <3>1
  <2> HIDE DEF step
  <2>3. \A i \in 0..n : i # 0 => i \in 1..n
    BY <1>0
  <2> QED
    BY <2>1, <2>2, <2>3
<1> HIDE DEF step
<1> DEFINE g == CHOOSE g : g = [i \in 0..n |-> IF i = 0 THEN <<>>
                                               ELSE IF PathOrder[i] \in S
                                                    THEN Append(g[i - 1], PathOrder[i])
                                               ELSE g[i - 1]]
<1>5. g = [i \in 0..n |-> IF i = 0 THEN <<>>
                          ELSE IF PathOrder[i] \in S THEN Append(g[i - 1], PathOrder[i])
                          ELSE g[i - 1]]
  BY <1>4, Zenon
<1>6. InDiffOrder(S) = g[n]
  BY Zenon DEF InDiffOrder, n
<1> HIDE DEF g
<1> DEFINE T == {i \in 0..n : g[i] \in Seq(Paths)}
<1>7. 0 \in T
  BY <1>0, <1>5, EmptySeq
<1>8. ASSUME NEW i \in 1..n, i - 1 \in T PROVE i \in T
  <2>1. i \in 0..n /\ i # 0 /\ g[i - 1] \in Seq(Paths) /\ PathOrder[i] \in Paths
    BY <1>0, <1>8
  <2>2. g[i] = IF PathOrder[i] \in S THEN Append(g[i - 1], PathOrder[i]) ELSE g[i - 1]
    BY <1>5, <2>1
  <2>3. Append(g[i - 1], PathOrder[i]) \in Seq(Paths)
    BY <2>1, AppendProperties
  <2> QED
    BY <2>1, <2>2, <2>3
<1>9. n \in T
  <2> HIDE DEF T
  <2>1. 0..n \subseteq T
    BY <1>0, <1>7, <1>8, UpTo
  <2>2. n \in 0..n
    BY <1>0
  <2> QED
    BY <2>1, <2>2
<1> QED
  BY <1>6, <1>9

LEMMA GroundingOrderType ==
  ASSUME NEW fs \in SUBSET Findings, NEW fetched
  PROVE  GroundingOrder(fs, fetched) \in Seq(Paths)
<1> DEFINE n == Cardinality(fs)
           Count(p) == Cardinality({f \in fs : PathOf[f] = p})
           Tier(i) == InDiffOrder({p \in Paths : Count(p) = i})
           step == [i \in 1..n |-> [s \in Seq(Paths) |-> Tier(i) \o s]]
<1>0. n \in Nat
  <2>1. IsFiniteSet(fs)
    BY RetrievalAssumption, FS_Subset
  <2> QED
    BY <2>1, FS_CardinalityType
<1>1. \A i : Tier(i) \in Seq(Paths)
  BY InDiffOrderType
<1>2. \A i : \A s \in Seq(Paths) : Tier(i) \o s \in Seq(Paths)
  <2>1. \A s, t \in Seq(Paths) : s \o t \in Seq(Paths)
    BY ConcatProperties
  <2> HIDE DEF Tier
  <2> QED
    BY <1>1, <2>1
<1> HIDE DEF Tier
<1>3. step \in [1..n -> [Seq(Paths) -> Seq(Paths)]]
  <2> HIDE DEF n
  <2> QED
    BY <1>2
<1>4. PICK f : Looped(f, n, Seq(Paths), <<>>, step)
  <2> HIDE DEF step, n
  <2> QED
    BY <1>0, <1>3, EmptySeq, Loop
<1> HIDE DEF n
<1>5. f = [i \in 0..n |-> IF i = 0 THEN <<>> ELSE Tier(i) \o f[i - 1]]
  <2>1. f \in [0..n -> Seq(Paths)] /\ f[0] = <<>>
    BY <1>4 DEF Looped
  <2>2. ASSUME NEW i \in 1..n PROVE f[i] = Tier(i) \o f[i - 1]
    <3>1. i - 1 \in 0..n
      BY <1>0
    <3>2. f[i - 1] \in Seq(Paths) /\ f[i] = step[i][f[i - 1]]
      BY <1>4, <3>1 DEF Looped
    <3> QED
      BY <3>2
  <2> HIDE DEF step
  <2>3. \A i \in 0..n : i # 0 => i \in 1..n
    BY <1>0
  <2> QED
    BY <2>1, <2>2, <2>3
<1> HIDE DEF step
<1> DEFINE g == CHOOSE g : g = [i \in 0..n |-> IF i = 0 THEN <<>> ELSE Tier(i) \o g[i - 1]]
<1>6. g = [i \in 0..n |-> IF i = 0 THEN <<>> ELSE Tier(i) \o g[i - 1]]
  BY <1>5, Zenon
<1>7. GroundingOrder(fs, fetched) = g[n] \o InDiffOrder({p \in fetched : Count(p) = 0})
  BY Zenon DEF GroundingOrder, n, Tier
<1> HIDE DEF g
<1> DEFINE T == {i \in 0..n : g[i] \in Seq(Paths)}
<1>8. 0 \in T
  BY <1>0, <1>6, EmptySeq
<1>9. ASSUME NEW i \in 1..n, i - 1 \in T PROVE i \in T
  <2>1. i \in 0..n /\ i # 0 /\ g[i - 1] \in Seq(Paths)
    BY <1>0, <1>9
  <2>2. g[i] = Tier(i) \o g[i - 1]
    BY <1>6, <2>1
  <2>3. Tier(i) \o g[i - 1] \in Seq(Paths)
    BY <1>2, <2>1
  <2> QED
    BY <2>1, <2>2, <2>3
<1>10. n \in T
  <2> HIDE DEF T
  <2>1. 0..n \subseteq T
    BY <1>0, <1>8, <1>9, UpTo
  <2>2. n \in 0..n
    BY <1>0
  <2> QED
    BY <2>1, <2>2
<1>11. g[n] \in Seq(Paths) /\ InDiffOrder({p \in fetched : Count(p) = 0}) \in Seq(Paths)
  BY <1>10, InDiffOrderType
<1> HIDE DEF T
<1> QED
  BY <1>7, <1>11, ConcatProperties

\* The patches that are sent fit the room, if any is.
LEMMA BudgetedDiffIs ==
  ASSUME NEW fs, NEW room \in Int
  PROVE  /\ BudgetedDiff(fs, room).used \in Nat
         /\ BudgetedDiff(fs, room).used = 0 \/ BudgetedDiff(fs, room).used <= room
<1> DEFINE n == Len(PathOrder)
           V == [used : Nat, patches : SUBSET Paths]
           base == [used |-> 0, patches |-> {}]
           Sent(v, p) == IF p \in Flagged(fs) \cap patched /\ v.used + PatchCost[p] <= room
                         THEN [used |-> v.used + PatchCost[p], patches |-> v.patches \cup {p}]
                         ELSE v
           step == [i \in 1..n |-> [v \in V |-> Sent(v, PathOrder[i])]]
<1>0. n \in Nat /\ \A i \in 1..n : PathOrder[i] \in Paths
  BY RetrievalAssumption
<1>1. base \in V /\ base.used = 0
  OBVIOUS
<1>2. ASSUME NEW v \in V, NEW p \in Paths
      PROVE  Sent(v, p) \in V /\ (Sent(v, p) = v \/ Sent(v, p).used <= room)
  <2>1. v.used \in Nat /\ v.patches \in SUBSET Paths /\ PatchCost[p] \in Nat
    BY RetrievalAssumption
  <2>2. v.used + PatchCost[p] \in Nat
    BY <2>1
  <2> QED
    BY <2>1, <2>2
<1> HIDE DEF base, V, n
<1>3. step \in [1..n -> [V -> V]]
  <2> HIDE DEF Sent
  <2> QED
    BY <1>0, <1>2
<1>4. PICK f : Looped(f, n, V, base, step)
  <2> HIDE DEF step
  <2> QED
    BY <1>0, <1>1, <1>3, Loop
<1>5. f = [i \in 0..n |-> IF i = 0 THEN base ELSE Sent(f[i - 1], PathOrder[i])]
  <2>1. f \in [0..n -> V] /\ f[0] = base
    BY <1>4 DEF Looped
  <2> HIDE DEF Sent
  <2>2. ASSUME NEW i \in 1..n PROVE f[i] = Sent(f[i - 1], PathOrder[i])
    <3>1. i - 1 \in 0..n
      BY <1>0
    <3>2. f[i - 1] \in V /\ f[i] = step[i][f[i - 1]]
      BY <1>4, <3>1 DEF Looped
    <3> QED
      BY <3>2
  <2> HIDE DEF step
  <2>3. \A i \in 0..n : i # 0 => i \in 1..n
    BY <1>0
  <2> QED
    BY <2>1, <2>2, <2>3
<1> HIDE DEF step
<1> DEFINE g == CHOOSE g : g = [i \in 0..n |-> IF i = 0 THEN base ELSE Sent(g[i - 1], PathOrder[i])]
<1>6. g = [i \in 0..n |-> IF i = 0 THEN base ELSE Sent(g[i - 1], PathOrder[i])]
  <2> HIDE DEF Sent
  <2> QED
    BY <1>5, Zenon
<1>7. BudgetedDiff(fs, room) = g[n]
  BY Zenon DEF BudgetedDiff, n, base
<1> HIDE DEF g, Sent
<1> DEFINE T == {i \in 0..n : g[i] \in V /\ (g[i].used = 0 \/ g[i].used <= room)}
<1>8. 0 \in T
  BY <1>0, <1>1, <1>6
<1>9. ASSUME NEW i \in 1..n, i - 1 \in T PROVE i \in T
  <2>1. i \in 0..n /\ i # 0 /\ g[i - 1] \in V /\ (g[i - 1].used = 0 \/ g[i - 1].used <= room)
    BY <1>0, <1>9
  <2>2. g[i] = Sent(g[i - 1], PathOrder[i]) /\ PathOrder[i] \in Paths
    BY <1>0, <1>6, <2>1
  <2> QED
    BY <1>2, <2>1, <2>2
<1>10. n \in T
  <2> HIDE DEF T
  <2>1. 0..n \subseteq T
    BY <1>0, <1>8, <1>9, UpTo
  <2>2. n \in 0..n
    BY <1>0
  <2> QED
    BY <2>1, <2>2
<1> QED
  BY <1>7, <1>10 DEF V

\* A budget shared out among the texts that are shown: none is touched, or some
\* is left.
Shared(ground, budget) ==
  /\ ground.left \in Int /\ IsFiniteSet(ground.shown)
  /\ \/ ground.left = budget /\ ground.shown = {}
     \/ 0 <= ground.left /\ ground.left <= budget

\* The texts that are shown never cost more than the budget they share.
LEMMA GroundingIs ==
  ASSUME text \in [Names -> Nat], NEW order \in Seq(Paths), NEW budget \in Int
  PROVE  Shared(Grounding(order, budget), budget)
<1> DEFINE n == Len(order)
           V == [left : Int, shown : SUBSET Paths]
           base == [left |-> budget, shown |-> {}]
           step == [i \in 1..n |-> [v \in V |-> Ground(v, order[i])]]
<1>0. n \in Nat /\ \A i \in 1..n : order[i] \in Paths
  OBVIOUS
<1>1. base \in V /\ Shared(base, budget)
  BY FS_EmptySet DEF Shared
<1>2. ASSUME NEW v \in V, NEW p \in Paths
      PROVE  Ground(v, p) \in V /\ (Shared(v, budget) => Shared(Ground(v, p), budget))
  <2> DEFINE used == IF text[p] > v.left THEN HeadTail(v.left) ELSE text[p]
  <2>1. /\ v.left \in Int /\ v.shown \in SUBSET Paths /\ text[p] \in Nat /\ MinGrounding \in Nat
        /\ v = [left |-> v.left, shown |-> v.shown]
    BY RetrievalAssumption DEF Names
  <2>2. CASE p \notin contents \/ v.left < MinGrounding \/ used = 0
    <3>1. Ground(v, p) = v
      BY <2>2 DEF Ground
    <3> QED
      BY <3>1
  <2>3. CASE ~(p \notin contents \/ v.left < MinGrounding \/ used = 0)
    <3>1. Ground(v, p) = [left |-> v.left - used, shown |-> v.shown \cup {p}]
      BY <2>3 DEF Ground
    <3>2. used \in Nat /\ used <= v.left
      BY <2>1, <2>3 DEF HeadTail
    <3> HIDE DEF used
    <3>3. v.left - used \in Int /\ 0 <= v.left - used /\ v.left - used <= v.left
      BY <2>1, <3>2
    <3>4. v.shown \cup {p} \in SUBSET Paths
      BY <2>1
    <3>5. IsFiniteSet(v.shown) => IsFiniteSet(v.shown \cup {p})
      BY FS_AddElement
    <3>6. v.left = budget \/ v.left <= budget => v.left - used <= budget
      BY <2>1, <3>3
    <3> QED
      BY <3>1, <3>3, <3>4, <3>5, <3>6 DEF Shared
  <2> QED
    BY <2>2, <2>3
<1> HIDE DEF base, V, n
<1>3. step \in [1..n -> [V -> V]]
  BY <1>0, <1>2
<1>4. PICK f : Looped(f, n, V, base, step)
  <2> HIDE DEF step
  <2> QED
    BY <1>0, <1>1, <1>3, Loop
<1>5. f = [i \in 0..n |-> IF i = 0 THEN base ELSE Ground(f[i - 1], order[i])]
  <2>1. f \in [0..n -> V] /\ f[0] = base
    BY <1>4 DEF Looped
  <2>2. ASSUME NEW i \in 1..n PROVE f[i] = Ground(f[i - 1], order[i])
    <3>1. i - 1 \in 0..n
      BY <1>0
    <3>2. f[i - 1] \in V /\ f[i] = step[i][f[i - 1]]
      BY <1>4, <3>1 DEF Looped
    <3> QED
      BY <3>2
  <2> HIDE DEF step
  <2>3. \A i \in 0..n : i # 0 => i \in 1..n
    BY <1>0
  <2> QED
    BY <2>1, <2>2, <2>3
<1> HIDE DEF step
<1> DEFINE g == CHOOSE g : g = [i \in 0..n |-> IF i = 0 THEN base ELSE Ground(g[i - 1], order[i])]
<1>6. g = [i \in 0..n |-> IF i = 0 THEN base ELSE Ground(g[i - 1], order[i])]
  BY <1>5, Zenon
<1>7. Grounding(order, budget) = g[n]
  BY Zenon DEF Grounding, n, base
<1> HIDE DEF g
<1> DEFINE T == {i \in 0..n : g[i] \in V /\ Shared(g[i], budget)}
<1>8. 0 \in T
  BY <1>0, <1>1, <1>6
<1>9. ASSUME NEW i \in 1..n, i - 1 \in T PROVE i \in T
  <2>1. i \in 0..n /\ i # 0 /\ g[i - 1] \in V /\ Shared(g[i - 1], budget)
    BY <1>0, <1>9
  <2>2. g[i] = Ground(g[i - 1], order[i]) /\ order[i] \in Paths
    BY <1>0, <1>6, <2>1
  <2> QED
    BY <1>2, <2>1, <2>2
<1>10. n \in T
  <2> HIDE DEF T
  <2>1. 0..n \subseteq T
    BY <1>0, <1>8, <1>9, UpTo
  <2>2. n \in 0..n
    BY <1>0
  <2> QED
    BY <2>1, <2>2
<1> QED
  BY <1>7, <1>10

\* Nothing shown needs no framing, and any framing costs something or nothing
\* (_grounding_block).
LEMMA FramingType ==
  ASSUME NEW shown, IsFiniteSet(shown)
  PROVE  Framing(shown) \in Nat /\ (shown = {} => Framing(shown) = 0)
<1>1. LeadCost \in Nat /\ HeadingCost \in Nat /\ Cardinality(shown) \in Nat
  BY FS_CardinalityType, RetrievalAssumption
<1>2. HeadingCost * Cardinality(shown) \in Nat
  BY <1>1
<1> QED
  BY <1>1, <1>2 DEF Framing

\* An audit's prompt fits but for the framing of what it shows, or holds its
\* fixed parts alone (_audit).
LEMMA PromptIs ==
  ASSUME RetrievalShape
  PROVE  /\ Prompt(open).tokens <= MaxInput + Framing(Prompt(open).shown)
              \/ Prompt(open).tokens = OverheadOf(open)
         /\ Flagged(open) \cap patched # Prompt(open).patches => Prompt(open).trimmed
<1> DEFINE over == OverheadOf(open)
           room == MaxInput - over
           trimmed == BudgetedDiff(open, room)
           uncut == room - trimmed.used
           reserve == IF fast THEN Min({uncut, HopBudget}) ELSE uncut
           ground == Grounding(GroundingOrder(open, extra), reserve)
<1>1. over \in Int /\ MaxInput \in Int /\ HopBudget \in Int
  <2>1. open \in SUBSET Findings /\ fixed \in Nat /\ MaxInput \in Nat /\ IsFiniteSet(Findings)
    BY RetrievalAssumption DEF RetrievalShape
  <2>2. IsFiniteSet(open)
    BY <2>1, FS_Subset
  <2>3. Cardinality(open) \in Nat
    BY <2>2, FS_CardinalityType
  <2>4. MaxInput \div 4 \in Int
    BY <2>1
  <2> QED
    BY <2>1, <2>3, <2>4 DEF OverheadOf, HopBudget
<1>2. /\ Prompt(open).tokens = over + trimmed.used + (reserve - ground.left)
                                   + Framing(ground.shown)
      /\ Prompt(open).shown = ground.shown
      /\ Prompt(open).patches = trimmed.patches
      /\ Prompt(open).trimmed = (trimmed.patches # Flagged(open) \cap patched)
  BY DEF Prompt
<1> HIDE DEF over
<1>3. room \in Int
  BY <1>1
<1> HIDE DEF room
<1>4. trimmed.used \in Nat /\ (trimmed.used = 0 \/ trimmed.used <= room)
  BY <1>3, BudgetedDiffIs
<1> HIDE DEF trimmed
<1>5. uncut \in Int /\ uncut = room - trimmed.used
  BY <1>3, <1>4
<1> HIDE DEF uncut
<1>6. reserve \in Int /\ reserve <= uncut
  <2>1. Min({uncut, HopBudget}) = IF uncut <= HopBudget THEN uncut ELSE HopBudget
    BY <1>1, <1>5, MinOfTwo
  <2> QED
    BY <1>1, <1>5, <2>1
<1> HIDE DEF reserve
<1>7. Shared(ground, reserve)
  <2>1. GroundingOrder(open, extra) \in Seq(Paths) /\ text \in [Names -> Nat]
    BY GroundingOrderType DEF RetrievalShape
  <2> QED
    BY <1>6, <2>1, GroundingIs
<1> HIDE DEF ground
<1>8. /\ Framing(ground.shown) \in Nat /\ ground.left \in Int
      /\ \/ ground.left = reserve /\ Framing(ground.shown) = 0
         \/ 0 <= ground.left /\ ground.left <= reserve
  BY <1>7, FramingType DEF Shared
<1>9. Prompt(open).tokens <= MaxInput + Framing(Prompt(open).shown)
        \/ Prompt(open).tokens = OverheadOf(open)
  <2>1. room = MaxInput - over
    BY DEF room
  <2> DEFINE framing == Framing(ground.shown)
             sum == over + trimmed.used + (reserve - ground.left) + framing
  <2>2. framing \in Nat
    BY <1>8
  <2>3. CASE ground.left = reserve /\ framing = 0
    <3>1. sum = over + trimmed.used
      BY <1>1, <1>4, <1>6, <2>3
    <3>2. sum = over \/ sum <= MaxInput + framing
      BY <1>1, <1>4, <2>1, <2>3, <3>1
    <3> QED
      BY <1>2, <3>2 DEF over
  <2>4. CASE 0 <= ground.left /\ ground.left <= reserve
    <3> HIDE DEF framing
    <3>1. sum <= MaxInput + framing
      BY <1>1, <1>4, <1>5, <1>6, <1>8, <2>1, <2>2, <2>4
    <3> QED
      BY <1>2, <3>1 DEF framing
  <2> QED
    BY <1>8, <2>3, <2>4
<1>10. Flagged(open) \cap patched # Prompt(open).patches => Prompt(open).trimmed
  BY <1>2
<1> QED
  BY <1>9, <1>10

-------------------------------------------------------------------------------
(* The invariant of the retrieval, at the start and each step *)

\* What the invariant says of a resolution stands when nothing of it changes
\* and it is over.
LEMMA ResolutionStands ==
  ASSUME RetrievalInv, UNCHANGED <<world, resolution>>, frames = <<>>,
         open' \subseteq Findings, contents' \subseteq Names, phase' # "resolve"
  PROVE  RetrievalShape' /\ Fetches' /\ Informed' /\ OnTheWalk'
<1>1. /\ UNCHANGED <<text, defs, fixed>>
      /\ UNCHANGED <<needs, already, frames, out, seen, flying, got, tree>>
  BY DEF world, resolution
<1>2. RetrievalShape'
  BY <1>1 DEF RetrievalInv, RetrievalShape
<1>3. Fetches'
  BY <1>1 DEF RetrievalInv, Fetches, Headroom
<1>4. Informed'
  BY <1>1 DEF RetrievalInv, Informed
<1>5. OnTheWalk'
  <2>1. ASSUME NEW cloned \in BOOLEAN, Agrees(cloned)'
        PROVE  RestOf(frames', out', already', cloned) = Walk(<<>>, needs', already', cloned)
    <3>1. Agrees(cloned)
      BY <1>1, <2>1 DEF Agrees
    <3>2. RestOf(frames, out, already, cloned) = Walk(<<>>, needs, already, cloned)
      BY <3>1 DEF RetrievalInv, OnTheWalk
    <3> QED
      BY <1>1, <3>2
  <2> QED
    BY <1>1, <2>1, OnTheWalkStill
<1> QED
  BY <1>2, <1>3, <1>4, <1>5

\* A prompt stands while the audit waits.
LEMMA PromptStands ==
  ASSUME PromptFits, UNCHANGED <<world, auditState>>
  PROVE  PromptFits'
BY DEF PromptFits, OverheadOf, Flagged, world, auditState

LEMMA RetrievalInitInv == RetrievalInit => RetrievalInv
<1> SUFFICES ASSUME RetrievalInit PROVE RetrievalInv
  OBVIOUS
<1> USE DEF RetrievalInit
<1>1. <<>> \in Seq(Names) /\ <<>> \in Seq(FrameSpace) /\ Len(<<>>) = 0
  OBVIOUS
<1>2. RetrievalShape
  <2>1. text \in [Names -> Nat] /\ defs \in [Symbols -> Seq(Paths)] /\ fixed \in Nat
    BY RetrievalAssumption
  <2>2. contents \subseteq Names
    BY DEF Names
  <2> QED
    BY <1>1, <2>1, <2>2 DEF RetrievalShape
<1>3. MaxFiles \in Nat /\ Headroom = MaxFiles
  BY RetrievalAssumption DEF Headroom
<1>4. Fetches
  BY <1>3, FS_EmptySet DEF Fetches
<1>5. Informed
  BY <1>3, RangeEmpty DEF Informed
<1>6. OnTheWalk
  <2>1. ASSUME NEW cloned \in BOOLEAN
        PROVE  RestOf(frames, out, already, cloned) = Walk(<<>>, needs, already, cloned)
    <3>1. Walk(<<>>, <<>>, already, cloned) = <<>>
      <4> HIDE DEF RetrievalInit
      <4>1. defs \in [Symbols -> Seq(Paths)]
        BY <1>2 DEF RetrievalShape
      <4> QED
        BY <1>1, <4>1, WalkEnds
    <3> QED
      BY <3>1 DEF RestOf
  <2> QED
    BY <2>1 DEF OnTheWalk
<1>7. PromptFits
  BY DEF PromptFits
<1> QED
  BY <1>2, <1>4, <1>5, <1>6, <1>7 DEF RetrievalInv

LEMMA AuditorFailsStep == RetrievalInv /\ AuditorFails => RetrievalInv'
<1> SUFFICES ASSUME RetrievalInv, AuditorFails PROVE RetrievalInv'
  OBVIOUS
<1>1. /\ UNCHANGED <<world, resolution>> /\ contents' = contents /\ open' = {}
      /\ phase = "audit" /\ phase' = "done"
  BY DEF AuditorFails
<1>2. frames = <<>> /\ contents \subseteq Names
  BY <1>1 DEF RetrievalInv, RetrievalShape
<1>3. RetrievalShape' /\ Fetches' /\ Informed' /\ OnTheWalk'
  BY <1>1, <1>2, ResolutionStands
<1>4. PromptFits'
  BY <1>1 DEF PromptFits
<1> QED
  BY <1>3, <1>4 DEF RetrievalInv

LEMMA AskStep == RetrievalInv /\ Ask => RetrievalInv'
<1> SUFFICES ASSUME RetrievalInv, Ask PROVE RetrievalInv'
  OBVIOUS
<1>1. /\ UNCHANGED <<world, resolution>> /\ UNCHANGED <<contents, open, patched, phase>>
      /\ phase = "audit" /\ prompt' = Prompt(open) /\ noticed' = (noticed \/ Prompt(open).trimmed)
  BY DEF Ask
<1>2. frames = <<>> /\ contents \subseteq Names /\ open \subseteq Findings
  BY <1>1 DEF RetrievalInv, RetrievalShape
<1>3. RetrievalShape' /\ Fetches' /\ Informed' /\ OnTheWalk'
  BY <1>1, <1>2, ResolutionStands
<1>4. PromptFits'
  <2>1. /\ Prompt(open).tokens <= MaxInput + Framing(Prompt(open).shown)
             \/ Prompt(open).tokens = OverheadOf(open)
        /\ Flagged(open) \cap patched # Prompt(open).patches => Prompt(open).trimmed
    BY PromptIs DEF RetrievalInv
  <2>2. OverheadOf(open)' = OverheadOf(open) /\ Flagged(open)' = Flagged(open)
    BY <1>1 DEF OverheadOf, Flagged, world
  <2> QED
    BY <1>1, <2>1, <2>2 DEF PromptFits
<1> QED
  BY <1>3, <1>4 DEF RetrievalInv

LEMMA RecheckStep == RetrievalInv /\ Recheck => RetrievalInv'
<1> SUFFICES ASSUME RetrievalInv, Recheck PROVE RetrievalInv'
  OBVIOUS
<1>1. /\ UNCHANGED <<world, resolution>> /\ frames = <<>>
      /\ \/ /\ phase' = "audit" /\ prompt' = NoPrompt /\ open' = open
            /\ contents' = contents \cup Range(out)
         \/ phase' = "done" /\ open' = {} /\ contents' = contents
  BY DEF Recheck
<1>2. open \subseteq Findings /\ contents \subseteq Names /\ Range(out) \subseteq Names
  <2>1. out \in Seq(Names)
    BY DEF RetrievalInv, RetrievalShape
  <2>2. Range(out) \subseteq Names
    BY <2>1 DEF Range
  <2> QED
    BY <2>2 DEF RetrievalInv, RetrievalShape
<1>3. open' \subseteq Findings /\ contents' \subseteq Names /\ phase' # "resolve"
  BY <1>1, <1>2
<1>4. RetrievalShape' /\ Fetches' /\ Informed' /\ OnTheWalk'
  BY <1>1, <1>3, ResolutionStands
<1>5. PromptFits'
  BY <1>1 DEF PromptFits
<1> QED
  BY <1>4, <1>5 DEF RetrievalInv

\* The walk of what is left, by how many frames there are.
LEMMA RestIs ==
  ASSUME NEW levels, NEW taken, NEW known, NEW cloned
  PROVE  /\ Len(levels) = 1 /\ levels # <<>> =>
              RestOf(levels, taken, known, cloned) = Walk(taken, Left(levels[1]), known, cloned)
         /\ Len(levels) = 2 /\ levels # <<>> =>
              RestOf(levels, taken, known, cloned)
                = Walk(TakePaths(taken, Left(levels[2]), known), Left(levels[1]), known, cloned)
BY DEF RestOf

LEMMA StartWaveStep == RetrievalInv /\ StartWave => RetrievalInv'
<1> SUFFICES ASSUME RetrievalInv, StartWave PROVE RetrievalInv'
  OBVIOUS
<1> DEFINE wave == Take(Headroom, Top.pending)
           later == Drop(Headroom, Top.pending)
           f == [Top EXCEPT !.wave = wave, !.pending = later]
           todo == (Range(wave) \ seen) \ already
<1>1. /\ frames # <<>> /\ flying = {} /\ Top.wave = <<>> /\ Len(out) < MaxFiles
      /\ frames' = SetTop(f) /\ seen' = seen \cup todo /\ flying' = todo
      /\ UNCHANGED <<world, auditState>> /\ UNCHANGED <<needs, already, out, got, tree>>
  BY DEF StartWave
<1>2. RetrievalShape /\ Fetches /\ Informed /\ OnTheWalk /\ PromptFits
  BY DEF RetrievalInv
<1>3. UNCHANGED <<text, defs, fixed>> /\ UNCHANGED <<open, contents, phase, prompt>>
  BY <1>1 DEF world, auditState
<1>4. /\ Len(frames) \in {1, 2} /\ Top = frames[Len(frames)] /\ Top \in FrameSpace
      /\ Top.symbols = (Len(frames) = 1)
  BY <1>1, <1>2, Levels
<1>5. Headroom \in Nat /\ Top.pending \in Seq(Names)
  <2>1. out \in Seq(Names) /\ MaxFiles \in Nat
    BY <1>2, RetrievalAssumption DEF RetrievalShape
  <2>2. Len(out) \in Nat
    BY <2>1
  <2> QED
    BY <1>1, <1>4, <2>1, <2>2 DEF Headroom, FrameSpace
<1>6. /\ wave \in Seq(Names) /\ later \in Seq(Names) /\ wave \o later = Top.pending
      /\ Len(wave) <= Headroom
  BY <1>5, TakeDrop
<1> HIDE DEF wave, later
<1>7. f \in FrameSpace /\ f.symbols = Top.symbols /\ f.wave = wave /\ f.pending = later
  BY <1>4, <1>6 DEF FrameSpace
<1>8. Left(f) = Left(Top)
  <2>1. <<>> \o Top.pending = Top.pending
    BY <1>5, ConcatEmptySeq
  <2> QED
    BY <1>1, <1>6, <1>7, <2>1 DEF Left
<1> HIDE DEF f
<1>9. /\ frames' \in Seq(FrameSpace) /\ Len(frames') = Len(frames)
      /\ frames'[Len(frames)] = f
      /\ \A i \in 1..(Len(frames) - 1) : frames'[i] = frames[i]
  BY <1>1, <1>2, <1>7, LevelSet
<1>10. frames' # <<>> /\ \A i \in 1..Len(frames) : i = Len(frames) \/ i \in 1..(Len(frames) - 1)
  BY <1>4, <1>9
<1>11. RetrievalShape'
  <2>1. \A i \in 1..Len(frames) : frames'[i].symbols = (i = 1)
    BY <1>2, <1>4, <1>7, <1>9, <1>10 DEF RetrievalShape
  <2> QED
    BY <1>1, <1>2, <1>3, <1>9, <2>1 DEF RetrievalShape, StartWave
<1>12. Fetches'
  <2>1. Range(wave) \subseteq Names /\ IsFiniteSet(Range(wave)) /\ Cardinality(Range(wave)) <= Len(wave)
    <3>1. Range(wave) \subseteq Names
      BY <1>6 DEF Range
    <3>2. IsFiniteSet(Range(wave)) /\ Cardinality(Range(wave)) <= Len(wave)
      BY <1>6, RangeSize
    <3> QED
      BY <3>1, <3>2
  <2>2. IsFiniteSet(todo) /\ Cardinality(todo) <= Cardinality(Range(wave))
    BY <2>1, FS_Subset
  <2>3. Cardinality(todo) <= Headroom
    <3>1. Cardinality(todo) \in Nat /\ Cardinality(Range(wave)) \in Nat /\ Len(wave) \in Nat
      BY <1>6, <2>1, <2>2, FS_CardinalityType
    <3> HIDE DEF todo
    <3> QED
      BY <1>5, <1>6, <2>1, <2>2, <3>1
  <2>4. Headroom' = Headroom
    BY <1>1 DEF Headroom
  <2>5. seen' \subseteq Names /\ seen' \cap already' = {} /\ flying' \subseteq seen'
    BY <1>1, <1>2, <2>1 DEF Fetches
  <2>6. got' = {p \in seen' \ flying' : text'[p] > 0}
    BY <1>1, <1>2, <1>3 DEF Fetches
  <2>7. \A i \in 1..Len(frames) : Range(frames'[i].wave) \subseteq seen' \cup already'
    <3>1. Range(f.wave) \subseteq seen' \cup already'
      BY <1>1, <1>7
    <3>2. \A i \in 1..(Len(frames) - 1) : Range(frames'[i].wave) \subseteq seen' \cup already'
      BY <1>1, <1>2, <1>9 DEF Fetches
    <3> QED
      BY <1>9, <1>10, <3>1, <3>2
  <2> HIDE DEF todo
  <2> QED
    BY <1>1, <1>9, <1>10, <2>2, <2>3, <2>4, <2>5, <2>6, <2>7 DEF Fetches
<1>13. Informed'
  BY <1>1, <1>2, <1>3 DEF Informed
<1>14. OnTheWalk'
  <2>1. ASSUME NEW cloned \in BOOLEAN, Agrees(cloned)'
        PROVE  RestOf(frames', out', already', cloned) = Walk(<<>>, needs', already', cloned)
    <3>1. RestOf(frames, out, already, cloned) = Walk(<<>>, needs, already, cloned)
      BY <1>1, <1>2, <2>1 DEF OnTheWalk, Agrees
    <3>2. RestOf(frames', out, already, cloned) = RestOf(frames, out, already, cloned)
      <4>1. CASE Len(frames) = 1
        <5>1. Left(frames'[1]) = Left(frames[1])
          BY <1>4, <1>8, <1>9, <4>1
        <5> QED
          BY <1>1, <1>9, <1>10, <4>1, <5>1, RestIs
      <4>2. CASE Len(frames) = 2
        <5>1. Left(frames'[2]) = Left(frames[2]) /\ frames'[1] = frames[1]
          BY <1>4, <1>8, <1>9, <4>2
        <5> QED
          BY <1>1, <1>9, <1>10, <4>2, <5>1, RestIs
      <4> QED
        BY <1>4, <4>1, <4>2
    <3> QED
      BY <1>1, <3>1, <3>2
  <2> QED
    BY <1>3, <2>1, OnTheWalkStill
<1>15. PromptFits'
  BY <1>1, <1>2, PromptStands
<1> QED
  BY <1>11, <1>12, <1>13, <1>14, <1>15 DEF RetrievalInv

LEMMA ArriveStep == ASSUME NEW p \in Names, RetrievalInv, Arrive(p) PROVE RetrievalInv'
<1>1. /\ p \in flying /\ flying' = flying \ {p} /\ got' = got \cup {q \in {p} : text[q] > 0}
      /\ UNCHANGED <<world, auditState>> /\ UNCHANGED <<needs, already, frames, out, seen, tree>>
  BY DEF Arrive, GetFileContents
<1>2. RetrievalShape /\ Fetches /\ Informed /\ OnTheWalk /\ PromptFits
  BY DEF RetrievalInv
<1>3. UNCHANGED <<text, defs, fixed>> /\ UNCHANGED <<open, contents, phase, prompt>>
  BY <1>1 DEF world, auditState
<1>4. RetrievalShape'
  BY <1>1, <1>2, <1>3 DEF RetrievalShape
<1>5. Fetches'
  <2>1. Headroom \in Int
    <3>1. Len(out) \in Nat /\ MaxFiles \in Nat
      BY <1>2, RetrievalAssumption DEF RetrievalShape
    <3> QED
      BY <3>1 DEF Headroom
  <2>2. IsFiniteSet(flying') /\ Cardinality(flying') <= Headroom
    <3>1. IsFiniteSet(flying) /\ Cardinality(flying) <= Headroom
      BY <1>2 DEF Fetches
    <3>2. IsFiniteSet(flying \ {p}) /\ Cardinality(flying \ {p}) <= Cardinality(flying)
      BY <3>1, FS_Subset
    <3>3. Cardinality(flying) \in Nat /\ Cardinality(flying \ {p}) \in Nat
      BY <3>1, <3>2, FS_CardinalityType
    <3> QED
      BY <1>1, <2>1, <3>1, <3>2, <3>3
  <2>3. got' = {q \in seen' \ flying' : text'[q] > 0}
    BY <1>1, <1>2, <1>3 DEF Fetches
  <2>4. Headroom' = Headroom
    BY <1>1 DEF Headroom
  <2> QED
    BY <1>1, <1>2, <2>2, <2>3, <2>4 DEF Fetches
<1>6. Informed'
  BY <1>1, <1>2, <1>3 DEF Informed
<1>7. OnTheWalk'
  <2>1. ASSUME NEW cloned \in BOOLEAN, Agrees(cloned)'
        PROVE  RestOf(frames', out', already', cloned) = Walk(<<>>, needs', already', cloned)
    <3>1. RestOf(frames, out, already, cloned) = Walk(<<>>, needs, already, cloned)
      BY <1>1, <1>2, <2>1 DEF OnTheWalk, Agrees
    <3> QED
      BY <1>1, <3>1
  <2> QED
    BY <1>3, <2>1, OnTheWalkStill
<1>8. PromptFits'
  BY <1>1, <1>2, PromptStands
<1> QED
  BY <1>4, <1>5, <1>6, <1>7, <1>8 DEF RetrievalInv

LEMMA EndWavesStep == RetrievalInv /\ EndWaves => RetrievalInv'
<1> SUFFICES ASSUME RetrievalInv, EndWaves PROVE RetrievalInv'
  OBVIOUS
<1>1. /\ phase = "resolve" /\ frames # <<>> /\ flying = {} /\ Top.wave = <<>>
      /\ Top.pending = <<>> \/ Len(out) >= MaxFiles
      /\ frames' = Front(frames)
      /\ UNCHANGED <<world, auditState>> /\ UNCHANGED <<needs, already, out, seen, flying, got, tree>>
  BY DEF EndWaves
<1>2. RetrievalShape /\ Fetches /\ Informed /\ OnTheWalk /\ PromptFits
  BY DEF RetrievalInv
<1>3. UNCHANGED <<text, defs, fixed>> /\ UNCHANGED <<open, contents, phase, prompt>>
  BY <1>1 DEF world, auditState
<1>4. /\ Len(frames) \in {1, 2} /\ Top = frames[Len(frames)] /\ Top \in FrameSpace
      /\ frames' \in Seq(FrameSpace) /\ Len(frames') = Len(frames) - 1
      /\ \A i \in 1..(Len(frames) - 1) : frames'[i] = frames[i]
  BY <1>1, <1>2, Levels
<1>5. RetrievalShape'
  <2>1. \A i \in 1..Len(frames') : i \in 1..Len(frames) /\ frames'[i] = frames[i]
    BY <1>4
  <2>2. Len(frames') <= 2
    BY <1>4
  <2> QED
    BY <1>1, <1>2, <1>3, <1>4, <2>1, <2>2 DEF RetrievalShape
<1>6. Fetches'
  <2>1. \A i \in 1..Len(frames') : i \in 1..Len(frames) /\ frames'[i] = frames[i]
    BY <1>4
  <2>2. Headroom' = Headroom
    BY <1>1 DEF Headroom
  <2> QED
    BY <1>1, <1>2, <1>3, <2>1, <2>2 DEF Fetches
<1>7. Informed'
  BY <1>1, <1>2, <1>3 DEF Informed
<1>8. OnTheWalk'
  <2>1. ASSUME NEW cloned \in BOOLEAN, Agrees(cloned)'
        PROVE  RestOf(frames', out', already', cloned) = Walk(<<>>, needs', already', cloned)
    <3>1. RestOf(frames, out, already, cloned) = Walk(<<>>, needs, already, cloned)
      BY <1>1, <1>2, <2>1 DEF OnTheWalk, Agrees
    <3>2. /\ Left(Top) \in Seq(Names)
          /\ Left(Top) = <<>> \/ Len(out) >= MaxFiles
          /\ out \in Seq(Names) /\ defs \in [Symbols -> Seq(Paths)]
      <4>1. Left(Top) = Top.pending /\ Top.pending \in Seq(Names)
        BY <1>1, <1>4, ConcatEmptySeq DEF Left, FrameSpace
      <4> QED
        BY <1>1, <1>2, <4>1 DEF RetrievalShape
    <3>3. RestOf(frames', out, already, cloned) = RestOf(frames, out, already, cloned)
      <4>1. CASE Len(frames) = 1
        <5>1. frames' = <<>>
          BY <1>4, <4>1
        <5>2. RestOf(frames', out, already, cloned) = out
          BY <5>1 DEF RestOf
        <5>3. Walk(out, Left(Top), already, cloned) = out
          BY <3>2, WalkEnds
        <5> QED
          BY <1>1, <1>4, <4>1, <5>2, <5>3, RestIs
      <4>2. CASE Len(frames) = 2
        <5>1. TakePaths(out, Left(Top), already) = out
          BY <3>2, TakePathsEnds
        <5>2. Len(frames') = 1 /\ frames'[1] = frames[1] /\ frames' # <<>>
          <6>1. Len(frames') = 1 /\ 1 \in 1..(Len(frames) - 1)
            BY <1>4, <4>2
          <6> QED
            BY <1>4, <6>1
        <5> QED
          BY <1>1, <1>4, <4>2, <5>1, <5>2, RestIs
      <4> QED
        BY <1>4, <4>1, <4>2
    <3> QED
      BY <1>1, <3>1, <3>3
  <2> QED
    BY <1>3, <2>1, OnTheWalkStill
<1>9. PromptFits'
  BY <1>1, <1>2, PromptStands
<1> QED
  BY <1>5, <1>6, <1>7, <1>8, <1>9 DEF RetrievalInv

LEMMA HeadTailConcat ==
  ASSUME NEW A, NEW s \in Seq(A), s # <<>>, NEW t \in Seq(A)
  PROVE  s \o t # <<>> /\ Head(s \o t) = Head(s) /\ Tail(s \o t) = Tail(s) \o t
<1> DEFINE u == s \o t
           m == Len(s)
           n == Len(t)
<1>1. m \in Nat \ {0} /\ n \in Nat
  BY EmptySeq
<1>2. /\ u \in Seq(A) /\ Len(u) = m + n
      /\ \A i \in 1..(m + n) : u[i] = IF i <= m THEN s[i] ELSE t[i - m]
  BY ConcatProperties
<1> HIDE DEF u
<1>3. u # <<>> /\ Head(u) = u[1] /\ u[1] = s[1] /\ Head(s) = s[1]
  BY <1>1, <1>2
<1> DEFINE a == Tail(u)
           b == Tail(s)
<1>4. a \in Seq(A) /\ Len(a) = (m + n) - 1 /\ \A i \in 1..((m + n) - 1) : a[i] = u[i + 1]
  BY <1>1, <1>2, <1>3
<1>5. b \in Seq(A) /\ Len(b) = m - 1 /\ \A i \in 1..(m - 1) : b[i] = s[i + 1]
  BY <1>1
<1> HIDE DEF a, b
<1>6. /\ b \o t \in Seq(A) /\ Len(b \o t) = (m - 1) + n
      /\ \A i \in 1..((m - 1) + n) : (b \o t)[i] = IF i <= m - 1 THEN b[i] ELSE t[i - (m - 1)]
  <2>1. /\ b \o t \in Seq(A) /\ Len(b \o t) = Len(b) + Len(t)
        /\ \A i \in 1..Len(b) + Len(t) : (b \o t)[i] = IF i <= Len(b) THEN b[i] ELSE t[i - Len(b)]
    BY <1>5, ConcatProperties
  <2> HIDE DEF m
  <2> QED
    BY <1>5, <2>1
<1> HIDE DEF m, n
<1>7. ASSUME NEW i \in 1..((m + n) - 1) PROVE a[i] = (b \o t)[i]
  <2>1. i \in 1..((m - 1) + n) /\ i + 1 \in 1..(m + n)
    BY <1>1
  <2>2. a[i] = IF i + 1 <= m THEN s[i + 1] ELSE t[(i + 1) - m]
    BY <1>2, <1>4, <2>1
  <2>3. (b \o t)[i] = IF i <= m - 1 THEN b[i] ELSE t[i - (m - 1)]
    BY <1>6, <2>1
  <2>4. CASE i + 1 <= m
    <3>1. i <= m - 1 /\ i \in 1..(m - 1)
      BY <1>1, <2>4
    <3> QED
      BY <1>5, <2>2, <2>3, <2>4, <3>1
  <2>5. CASE ~(i + 1 <= m)
    <3>1. ~(i <= m - 1) /\ i - (m - 1) = (i + 1) - m
      BY <1>1, <2>5
    <3> QED
      BY <2>2, <2>3, <2>5, <3>1
  <2> QED
    BY <2>4, <2>5
<1>8. a = b \o t
  <2>1. Len(a) = Len(b \o t) /\ Len(a) = (m + n) - 1
    BY <1>1, <1>4, <1>6
  <2> QED
    BY <1>4, <1>6, <1>7, <2>1, SeqEqual
<1> QED
  BY <1>3, <1>8 DEF u, a, b

\* The next of a wave is taken as the walk would take it.
LEMMA AcceptsIs ==
  ASSUME RetrievalShape, Fetches, frames # <<>>, flying = {}, Top.wave # <<>>
  PROVE  Accepts(Head(Top.wave)) <=> Acceptable(Head(Top.wave), out, already)
<1>1. Len(frames) \in {1, 2} /\ Top = frames[Len(frames)] /\ Top \in FrameSpace
  BY Levels
<1>2. Range(Top.wave) \subseteq seen \cup already
  BY <1>1 DEF Fetches
<1>3. Head(Top.wave) \in Range(Top.wave)
  <2>1. Top.wave \in Seq(Names)
    BY <1>1 DEF FrameSpace
  <2>2. Head(Top.wave) = Top.wave[1] /\ 1 \in DOMAIN Top.wave
    BY <2>1
  <2> QED
    BY <2>2 DEF Range
<1>4. Head(Top.wave) \in got
        <=> Head(Top.wave) \notin already /\ text[Head(Top.wave)] > 0
  BY <1>2, <1>3 DEF Fetches
<1> QED
  BY <1>4 DEF Accepts, Acceptable

\* The level of a symbol's files goes on top of the level of names (prefetch).
LEMMA PushSecond ==
  ASSUME NEW S, NEW s \in Seq(S), Len(s) = 1, NEW e \in S
  PROVE  /\ Append(s, e) \in Seq(S) /\ Len(Append(s, e)) = 2
         /\ Append(s, e)[1] = s[1] /\ Append(s, e)[2] = e
<1>1. /\ Append(s, e) \in Seq(S) /\ Len(Append(s, e)) = Len(s) + 1
      /\ \A i \in 1..Len(s) : Append(s, e)[i] = s[i]
      /\ Append(s, e)[Len(s) + 1] = e
  BY AppendProperties, ZenonT(60)
<1>2. 1 \in 1..Len(s) /\ Len(s) + 1 = 2
  OBVIOUS
<1> QED
  BY <1>1, <1>2

\* The frame whose wave is one shorter.
LEMMA NextOfWave ==
  ASSUME RetrievalShape, frames # <<>>, Top.wave # <<>>
  PROVE  LET r == [Top EXCEPT !.wave = Tail(@)] IN
         /\ Head(Top.wave) \in Names
         /\ r \in FrameSpace /\ r.symbols = Top.symbols
         /\ r.wave = Tail(Top.wave) /\ Range(r.wave) \subseteq Range(Top.wave)
         /\ Left(Top) \in Seq(Names) /\ Left(r) \in Seq(Names) /\ Left(Top) # <<>>
         /\ Head(Left(Top)) = Head(Top.wave) /\ Tail(Left(Top)) = Left(r)
<1> DEFINE r == [Top EXCEPT !.wave = Tail(@)]
           w == Top.wave
           q == Top.pending
<1>1. Top \in FrameSpace
  BY Levels
<1>2. w \in Seq(Names) /\ q \in Seq(Names) /\ w # <<>>
  BY <1>1 DEF FrameSpace
<1>3. r \in FrameSpace /\ r.symbols = Top.symbols /\ r.wave = Tail(w) /\ r.pending = q
  BY <1>1, <1>2, SMTT(30) DEF FrameSpace
<1>4. Left(Top) = w \o q /\ Left(r) = Tail(w) \o q
  BY <1>3 DEF Left
<1> HIDE DEF w, q, r
<1>5. Tail(w) \in Seq(Names) /\ w \o q \in Seq(Names) /\ Tail(w) \o q \in Seq(Names)
  BY <1>2
<1>6. w \o q # <<>> /\ Head(w \o q) = Head(w) /\ Tail(w \o q) = Tail(w) \o q
  BY <1>2, HeadTailConcat
<1>7. Head(w) \in Names /\ Range(Tail(w)) \subseteq Range(w)
  <2>1. Head(w) \in Names
    BY <1>2
  <2>2. \A i \in DOMAIN Tail(w) : i + 1 \in DOMAIN w /\ Tail(w)[i] = w[i + 1]
    BY <1>2
  <2>3. Range(Tail(w)) \subseteq Range(w)
    BY <2>2 DEF Range
  <2> QED
    BY <2>1, <2>3
<1> QED
  BY <1>3, <1>4, <1>5, <1>6, <1>7 DEF w, q, r

LEMMA TakeNextFetches ==
  ASSUME RetrievalInv, RetrievalShape', UNCHANGED <<text, already, seen, flying, got, phase, prompt>>,
         frames # <<>>, frames' # <<>>, flying = {},
         NEW p, out' = out \/ (out' = Append(out, p) /\ p \in got /\ Len(out) < MaxFiles),
         \A i \in 1..Len(frames') : Range(frames'[i].wave) \subseteq seen \cup already
  PROVE  Fetches' /\ Informed'
<1>1. RetrievalShape /\ Fetches /\ Informed
  BY DEF RetrievalInv
<1>2. Len(out') <= MaxFiles /\ Len(out') \in Nat /\ MaxFiles \in Nat
  <2>1. MaxFiles \in Nat /\ Len(out) \in Nat /\ Len(out') \in Nat
    BY <1>1, RetrievalAssumption DEF RetrievalShape
  <2>2. CASE out' = out
    BY <1>1, <2>1, <2>2 DEF Informed
  <2>3. CASE out' = Append(out, p) /\ p \in got /\ Len(out) < MaxFiles
    <3>1. Len(out') = Len(out) + 1
      BY <1>1, <2>3 DEF RetrievalShape
    <3> QED
      BY <2>1, <2>3, <3>1
  <2> QED
    BY <2>2, <2>3
<1>3. Range(out') \cap already = {}
  <2>1. CASE out' = out
    BY <1>1, <2>1 DEF Informed
  <2>2. CASE out' = Append(out, p) /\ p \in got
    <3>1. p \in Names /\ p \notin already /\ out \in Seq(Names)
      BY <1>1, <2>2 DEF Fetches, RetrievalShape
    <3>2. Range(out') = Range(out) \cup {p}
      BY <2>2, <3>1, RangeAppend
    <3> QED
      BY <1>1, <3>1, <3>2 DEF Informed
  <2> QED
    BY <2>1, <2>2
<1>4. Headroom' \in Nat
  BY <1>2 DEF Headroom
<1>5. Fetches'
  <2>1. Cardinality(flying') <= Headroom' /\ IsFiniteSet(flying')
    BY <1>4, FS_EmptySet
  <2> QED
    BY <1>1, <2>1 DEF Fetches
<1>6. Informed'
  BY <1>1, <1>2, <1>3 DEF Informed
<1> QED
  BY <1>5, <1>6

LEMMA TakeNextStep == RetrievalInv /\ TakeNext => RetrievalInv'
<1> SUFFICES ASSUME RetrievalInv, TakeNext PROVE RetrievalInv'
  OBVIOUS
<1> DEFINE p == Head(Top.wave)
           r == [Top EXCEPT !.wave = Tail(@)]
           cut == [Top EXCEPT !.wave = <<>>]
           located == IF tree' = "cloned" THEN ResolveSymbol(p) ELSE <<>>
           sub == TakeInWaves(located, FALSE)
           Full == Len(out) >= MaxFiles /\ frames' = SetTop(cut) /\ UNCHANGED <<out, tree>>
           Taken == Len(out) < MaxFiles /\ Accepts(p) /\ out' = Append(out, p) /\ frames' = SetTop(r)
                      /\ UNCHANGED tree
           Passed == /\ Len(out) < MaxFiles /\ ~Accepts(p) /\ ~(Top.symbols /\ IsSymbol(p))
                     /\ frames' = SetTop(r) /\ UNCHANGED <<out, tree>>
           Resolved == /\ Len(out) < MaxFiles /\ ~Accepts(p) /\ Top.symbols /\ IsSymbol(p)
                       /\ tree' \in BaseCheckoutRoot /\ frames' = Append(SetTop(r), sub)
                       /\ UNCHANGED out
<1>1. /\ phase = "resolve" /\ frames # <<>> /\ flying = {} /\ Top.wave # <<>>
      /\ Full \/ Taken \/ Passed \/ Resolved
      /\ UNCHANGED <<world, auditState>> /\ UNCHANGED <<needs, already, seen, flying, got>>
  BY DEF TakeNext
<1>2. RetrievalShape /\ Fetches /\ Informed /\ OnTheWalk /\ PromptFits
  BY DEF RetrievalInv
<1>3. UNCHANGED <<text, defs, fixed>> /\ UNCHANGED <<open, contents, phase, prompt>>
  BY <1>1 DEF world, auditState
<1>4. /\ Len(frames) \in {1, 2} /\ Top = frames[Len(frames)] /\ Top \in FrameSpace
      /\ Top.symbols = (Len(frames) = 1)
  BY <1>1, <1>2, Levels
<1>5. /\ p \in Names /\ r \in FrameSpace /\ r.symbols = Top.symbols
      /\ r.wave = Tail(Top.wave) /\ Range(r.wave) \subseteq Range(Top.wave)
      /\ Left(Top) \in Seq(Names) /\ Left(r) \in Seq(Names) /\ Left(Top) # <<>>
      /\ Head(Left(Top)) = p /\ Tail(Left(Top)) = Left(r)
  BY <1>1, <1>2, NextOfWave
<1>6. Accepts(p) <=> Acceptable(p, out, already)
  BY <1>1, <1>2, AcceptsIs
<1>7. /\ cut \in FrameSpace /\ cut.symbols = Top.symbols /\ cut.wave = <<>>
      /\ Left(cut) \in Seq(Names) /\ Range(cut.wave) \subseteq Range(Top.wave)
  <2>1. cut \in FrameSpace /\ cut.symbols = Top.symbols /\ cut.wave = <<>>
    <3>1. <<>> \in Seq(Names)
      BY EmptySeq
    <3> QED
      BY <1>4, <3>1 DEF FrameSpace
  <2>2. Left(cut) \in Seq(Names)
    <3> HIDE DEF cut
    <3>1. cut.wave \in Seq(Names) /\ cut.pending \in Seq(Names)
      BY <2>1 DEF FrameSpace
    <3> QED
      BY <3>1, ConcatProperties DEF Left
  <2> QED
    BY <2>1, <2>2, RangeEmpty
<1>8. tree' \in {"unasked", "cloned", "none"} /\ out \in Seq(Names) /\ defs \in [Symbols -> Seq(Paths)]
      /\ Len(out) \in Nat /\ MaxFiles \in Nat
  <2>1. tree \in {"unasked", "cloned", "none"} /\ out \in Seq(Names) /\ MaxFiles \in Nat
        /\ defs \in [Symbols -> Seq(Paths)]
    BY <1>2, RetrievalAssumption DEF RetrievalShape
  <2>2. tree' \in {"unasked", "cloned", "none"}
    <3> HIDE DEF p, r, cut, sub
    <3> QED
      BY <1>1, <2>1 DEF BaseCheckoutRoot, CloneBaseTree
  <2>3. Len(out) \in Nat
    BY <2>1
  <2> QED
    BY <2>1, <2>2, <2>3
<1>9. /\ located \in Seq(Names) /\ sub \in FrameSpace /\ sub.wave = <<>> /\ sub.symbols = FALSE
      /\ Left(sub) = located
  <2>1. located \in Seq(Names) /\ <<>> \in Seq(Names)
    BY <1>8, ResolveSymbolType
  <2>2. <<>> \o located = located
    BY <2>1, ConcatEmptySeq
  <2> HIDE DEF located
  <2> QED
    BY <2>1, <2>2 DEF TakeInWaves, FrameSpace, Left
<1> HIDE DEF p, r, cut, located, sub
\* What the walk makes of what is left, before its next is taken.
<1>12. /\ TakePaths(out, Left(Top), already)
            = TakePaths(TakePath(out, p, already), Left(r), already)
       /\ \A cloned : Walk(out, Left(Top), already, cloned)
            = Walk(TakeNeed(out, p, already, cloned), Left(r), already, cloned)
  <2> DEFINE left == Left(Top)
  <2>1. left \in Seq(Names) /\ left # <<>> /\ Head(left) = p /\ Tail(left) = Left(r)
    BY <1>5
  <2> HIDE DEF left
  <2>2. TakePaths(out, left, already) = TakePaths(TakePath(out, Head(left), already), Tail(left), already)
    BY <1>8, <2>1, TakePathsHead
  <2>3. ASSUME NEW cloned
        PROVE  Walk(out, left, already, cloned)
                 = Walk(TakeNeed(out, Head(left), already, cloned), Tail(left), already, cloned)
    BY <1>8, <2>1, WalkHead
  <2> QED
    BY <2>1, <2>2, <2>3 DEF left
\* What the invariant says of the frames and of what was fetched.
<1>10. CASE Full \/ Taken \/ Passed
  <2>1. PICK f \in FrameSpace : /\ frames' = SetTop(f) /\ f.symbols = Top.symbols
                               /\ Range(f.wave) \subseteq Range(Top.wave) /\ Left(f) \in Seq(Names)
                               /\ f = IF Len(out) >= MaxFiles THEN cut ELSE r
    BY <1>5, <1>7, <1>8, <1>10
  <2>2. /\ frames' \in Seq(FrameSpace) /\ Len(frames') = Len(frames)
        /\ frames'[Len(frames)] = f
        /\ \A i \in 1..(Len(frames) - 1) : frames'[i] = frames[i]
    BY <1>1, <1>2, <2>1, LevelSet
  <2>3. /\ frames' # <<>>
        /\ \A i \in 1..Len(frames') : i = Len(frames) \/ i \in 1..(Len(frames) - 1)
    BY <1>4, <2>2
  <2>4. out' \in Seq(Names) /\ tree' = tree
    <3>1. Append(out, p) \in Seq(Names)
      BY <1>5, <1>8
    <3> QED
      BY <1>8, <1>10, <3>1
  <2>5. RetrievalShape'
    <3>1. \A i \in 1..Len(frames') : frames'[i].symbols = (i = 1)
      BY <1>2, <1>4, <2>1, <2>2, <2>3 DEF RetrievalShape
    <3> QED
      BY <1>1, <1>2, <1>3, <2>2, <2>4, <3>1 DEF RetrievalShape
  <2>6. \A i \in 1..Len(frames') : Range(frames'[i].wave) \subseteq seen \cup already
    <3>1. Range(f.wave) \subseteq seen \cup already
      BY <1>2, <1>4, <2>1, SMTT(30) DEF Fetches
    <3>2. \A i \in 1..(Len(frames) - 1) : Range(frames'[i].wave) \subseteq seen \cup already
      BY <1>2, <1>4, <2>2 DEF Fetches
    <3> QED
      BY <2>2, <2>3, <3>1, <3>2
  <2>7. out' = out \/ (out' = Append(out, p) /\ p \in got /\ Len(out) < MaxFiles)
    BY <1>10 DEF Accepts
  <2>8. Fetches' /\ Informed'
    BY <1>1, <1>3, <2>3, <2>5, <2>6, <2>7, TakeNextFetches
  <2>9. OnTheWalk'
    <3>1. ASSUME NEW cloned \in BOOLEAN, Agrees(cloned)'
          PROVE  RestOf(frames', out', already', cloned) = Walk(<<>>, needs', already', cloned)
      <4>1. RestOf(frames, out, already, cloned) = Walk(<<>>, needs, already, cloned)
        BY <1>2, <2>4, <3>1 DEF OnTheWalk, Agrees
      <4>2. RestOf(frames', out', already, cloned) = RestOf(frames, out, already, cloned)
        <5>1. CASE Len(frames) = 1
          <6>1. Top = frames[1] /\ frames'[1] = f /\ Len(frames') = 1 /\ Top.symbols = TRUE
            BY <1>4, <2>2, <5>1
          <6>2. Walk(out', Left(f), already, cloned) = Walk(out, Left(Top), already, cloned)
            <7>1. CASE Full
              <8>1. out' = out
                BY <7>1
              <8>2. Walk(out, Left(f), already, cloned) = out
                BY <1>8, <2>1, <7>1, WalkEnds
              <8>3. Walk(out, Left(Top), already, cloned) = out
                BY <1>5, <1>8, <7>1, WalkEnds
              <8> QED
                BY <8>1, <8>2, <8>3
            <7>2. CASE Taken \/ Passed
              <8>1. f = r
                BY <1>8, <2>1, <7>2
              <8>2. Walk(out, Left(Top), already, cloned)
                      = Walk(TakeNeed(out, p, already, cloned), Left(r), already, cloned)
                BY <1>12
              <8>3. TakeNeed(out, p, already, cloned) = out'
                <9>1. CASE Taken
                  BY <1>6, <9>1 DEF TakeNeed, TakePath
                <9>2. CASE Passed
                  <10>1. ResolveSymbol(p) = <<>> /\ ~Acceptable(p, out, already) /\ out' = out
                    BY <1>6, <6>1, <9>2 DEF ResolveSymbol
                  <10>2. TakePaths(out, <<>>, already) = out
                    BY <1>8, TakeNone
                  <10> QED
                    BY <10>1, <10>2 DEF TakeNeed, TakePath
                <9> QED
                  BY <7>2, <9>1, <9>2
              <8> QED
                BY <8>1, <8>2, <8>3
            <7> QED
              BY <1>10, <7>1, <7>2
          <6> QED
            BY <1>1, <2>3, <5>1, <6>1, <6>2, RestIs
        <5>2. CASE Len(frames) = 2
          <6>1. Top = frames[2] /\ frames'[2] = f /\ frames'[1] = frames[1] /\ Len(frames') = 2
            <7>1. 1 \in 1..(Len(frames) - 1)
              BY <5>2
            <7> QED
              BY <1>4, <2>2, <5>2, <7>1
          <6>2. TakePaths(out', Left(f), already) = TakePaths(out, Left(Top), already)
            <7>1. CASE Full
              <8>1. out' = out
                BY <7>1
              <8>2. TakePaths(out, Left(f), already) = out
                BY <1>8, <2>1, <7>1, TakePathsEnds
              <8>3. TakePaths(out, Left(Top), already) = out
                BY <1>5, <1>8, <7>1, TakePathsEnds
              <8> QED
                BY <8>1, <8>2, <8>3
            <7>2. CASE Taken \/ Passed
              <8>1. f = r
                BY <1>8, <2>1, <7>2
              <8>2. TakePaths(out, Left(Top), already)
                      = TakePaths(TakePath(out, p, already), Left(r), already)
                BY <1>12
              <8>3. TakePath(out, p, already) = out'
                BY <1>6, <7>2 DEF TakePath
              <8> QED
                BY <8>1, <8>2, <8>3
            <7> QED
              BY <1>10, <7>1, <7>2
          <6> QED
            BY <1>1, <2>3, <5>2, <6>1, <6>2, RestIs
        <5> QED
          BY <1>4, <5>1, <5>2
      <4> QED
        BY <1>1, <4>1, <4>2
    <3> QED
      BY <1>3, <3>1, OnTheWalkStill
  <2> QED
    BY <1>1, <1>2, <2>5, <2>8, <2>9, PromptStands DEF RetrievalInv
<1>11. CASE Resolved
  <2>1. Len(frames) = 1 /\ Top = frames[1] /\ Top.symbols = TRUE
    BY <1>4, <1>11
  <2>2. SetTop(r) \in Seq(FrameSpace) /\ Len(SetTop(r)) = 1 /\ SetTop(r)[1] = r
    BY <1>1, <1>2, <1>5, <2>1, LevelSet
  <2>3. /\ frames' \in Seq(FrameSpace) /\ Len(frames') = 2 /\ frames' # <<>>
        /\ frames'[1] = r /\ frames'[2] = sub
    <3> DEFINE s == SetTop(r)
    <3>1. s \in Seq(FrameSpace) /\ Len(s) = 1 /\ s[1] = r /\ frames' = Append(s, sub)
      BY <1>11, <2>2
    <3>2. sub \in FrameSpace
      BY <1>9
    <3> HIDE DEF s, Resolved
    <3>3. /\ Append(s, sub) \in Seq(FrameSpace) /\ Len(Append(s, sub)) = 2
          /\ Append(s, sub)[1] = r /\ Append(s, sub)[2] = sub
      BY <3>1, <3>2, PushSecond
    <3> QED
      BY <3>1, <3>3
  <2>4. out' = out /\ \A i \in 1..Len(frames') : i \in {1, 2}
    BY <1>11, <2>3
  <2>5. RetrievalShape'
    <3>1. \A i \in 1..Len(frames') : frames'[i].symbols = (i = 1)
      BY <1>5, <1>9, <2>1, <2>3, <2>4
    <3> QED
      BY <1>1, <1>2, <1>3, <1>8, <2>3, <2>4, <3>1 DEF RetrievalShape
  <2>6. \A i \in 1..Len(frames') : Range(frames'[i].wave) \subseteq seen \cup already
    <3>1. Range(r.wave) \subseteq seen \cup already
      BY <1>2, <1>5, <2>1 DEF Fetches
    <3> QED
      BY <1>9, <2>3, <2>4, <3>1, RangeEmpty
  <2>7. Fetches' /\ Informed'
    BY <1>1, <1>3, <2>3, <2>4, <2>5, <2>6, TakeNextFetches
  <2>8. OnTheWalk'
    <3>1. ASSUME NEW cloned \in BOOLEAN, Agrees(cloned)'
          PROVE  RestOf(frames', out', already', cloned) = Walk(<<>>, needs', already', cloned)
      <4>1. cloned = (tree' = "cloned") /\ Agrees(cloned)
        BY <1>2, <1>11, <3>1 DEF Agrees, BaseCheckoutRoot, CloneBaseTree, RetrievalShape
      <4>2. RestOf(frames, out, already, cloned) = Walk(<<>>, needs, already, cloned)
        BY <1>2, <4>1 DEF OnTheWalk
      <4>3. RestOf(frames, out, already, cloned)
              = Walk(TakeNeed(out, p, already, cloned), Left(r), already, cloned)
        <5>1. Walk(out, Left(Top), already, cloned)
                = Walk(TakeNeed(out, p, already, cloned), Left(r), already, cloned)
          BY <1>12
        <5> QED
          BY <1>1, <2>1, <5>1, RestIs
      <4>4. RestOf(frames', out, already, cloned)
              = Walk(TakePaths(out, located, already), Left(r), already, cloned)
        BY <1>9, <2>3, RestIs
      <4>5. TakeNeed(out, p, already, cloned) = TakePaths(out, located, already)
        <5>1. ~Acceptable(p, out, already) /\ ~(Len(out) >= MaxFiles)
          BY <1>6, <1>8, <1>11
        <5>2. CASE cloned
          BY <4>1, <5>1, <5>2 DEF TakeNeed, located
        <5>3. CASE ~cloned
          <6>1. TakePaths(out, <<>>, already) = out
            BY <1>8, TakeNone
          <6> QED
            BY <4>1, <5>1, <5>3, <6>1 DEF TakeNeed, TakePath, located
        <5> QED
          BY <5>2, <5>3
      <4> QED
        BY <1>1, <2>4, <4>2, <4>3, <4>4, <4>5
    <3> QED
      BY <1>3, <3>1, OnTheWalkStill
  <2> QED
    BY <1>1, <1>2, <2>5, <2>7, <2>8, PromptStands DEF RetrievalInv
<1> QED
  BY <1>1, <1>10, <1>11

\* What the verdicts need, together, is a list of names.
LEMMA NeedsType ==
  ASSUME NEW fs \in SUBSET Findings, NEW v \in [fs -> Verdicts], NEW deferred \in SUBSET fs,
         NEW order \in Listings(deferred)
  PROVE  FlattenSeq([i \in DOMAIN order |-> v[order[i]].needs]) \in Seq(Names)
<1> DEFINE n == Cardinality(deferred)
           lists == [i \in DOMAIN order |-> v[order[i]].needs]
<1>1. n \in Nat
  <2>1. IsFiniteSet(Findings) /\ deferred \in SUBSET Findings
    BY RetrievalAssumption
  <2>2. IsFiniteSet(deferred)
    BY <2>1, FS_Subset
  <2> QED
    BY <2>2, FS_CardinalityType
<1>2. order \in [1..n -> deferred]
  BY DEF Listings
<1>3. \A u \in Verdicts : u.needs \in Seq(Names)
  <2>1. <<>> \in Seq(Names) /\ NeedLists \subseteq Seq(Names)
    BY EmptySeq, RetrievalAssumption
  <2>2. ASSUME NEW u \in Verdicts PROVE u.needs = <<>> \/ u.needs \in NeedLists
    BY DEF Verdicts
  <2> QED
    BY <2>1, <2>2
<1> DEFINE S == Seq(Names)
<1>4. \A i \in 1..n : v[order[i]].needs \in S
  BY <1>2, <1>3
<1>5. lists = [i \in 1..n |-> v[order[i]].needs]
  BY <1>2
<1> HIDE DEF n, S
<1>6. lists \in Seq(S)
  BY <1>1, <1>4, <1>5
<1> HIDE DEF lists
<1>7. FlattenSeq(lists) \in Seq(Names)
  BY <1>6, FlattenType DEF S
<1> QED
  BY <1>7 DEF lists

LEMMA JudgeStep == RetrievalInv /\ Judge => RetrievalInv'
<1> SUFFICES ASSUME RetrievalInv, Judge PROVE RetrievalInv'
  OBVIOUS
<1>1. RetrievalShape /\ Fetches /\ Informed /\ OnTheWalk /\ PromptFits
  BY DEF RetrievalInv
<1>2. /\ phase = "audit" /\ UNCHANGED <<world, contents, prompt, tree>>
      /\ UNCHANGED <<text, defs, fixed>>
  BY DEF Judge, world
<1>3. PICK v \in [open -> Verdicts] :
        LET deferred == {f \in open : v[f].needs # <<>>} IN
        \/ /\ open' = {} /\ phase' = "done"
           /\ UNCHANGED <<needs, already, frames, out, seen, flying, got>>
        \/ /\ open' = deferred /\ phase' = "resolve"
           /\ \E order \in Listings(deferred) :
                needs' = FlattenSeq([i \in DOMAIN order |-> v[order[i]].needs])
           /\ frames' = <<TakeInWaves(needs', TRUE)>>
           /\ already' = Grounded
           /\ out' = <<>> /\ seen' = {} /\ flying' = {} /\ got' = {}
  BY DEF Judge
<1> DEFINE deferred == {f \in open : v[f].needs # <<>>}
<1>4. CASE /\ open' = {} /\ phase' = "done"
           /\ UNCHANGED <<needs, already, frames, out, seen, flying, got>>
  <2>1. UNCHANGED <<world, resolution>> /\ frames = <<>> /\ contents' \subseteq Names
    BY <1>1, <1>2, <1>4 DEF resolution, RetrievalShape
  <2>2. RetrievalShape' /\ Fetches' /\ Informed' /\ OnTheWalk'
    BY <1>4, <2>1, ResolutionStands
  <2>3. PromptFits'
    BY <1>4 DEF PromptFits
  <2> QED
    BY <2>2, <2>3 DEF RetrievalInv
<1>5. CASE /\ open' = deferred /\ phase' = "resolve"
           /\ \E order \in Listings(deferred) :
                needs' = FlattenSeq([i \in DOMAIN order |-> v[order[i]].needs])
           /\ frames' = <<TakeInWaves(needs', TRUE)>>
           /\ already' = Grounded
           /\ out' = <<>> /\ seen' = {} /\ flying' = {} /\ got' = {}
  <2> DEFINE f == TakeInWaves(needs', TRUE)
  <2>1. open \subseteq Findings /\ deferred \in SUBSET open /\ open' \subseteq Findings
    BY <1>1, <1>5 DEF RetrievalShape
  <2>2. needs' \in Seq(Names)
    <3>1. PICK order \in Listings(deferred) :
            needs' = FlattenSeq([i \in DOMAIN order |-> v[order[i]].needs])
      BY <1>5
    <3> HIDE DEF deferred
    <3> QED
      BY <2>1, <3>1, NeedsType
  <2>3. /\ f \in FrameSpace /\ f.symbols = TRUE /\ f.wave = <<>> /\ Left(f) = needs'
        /\ <<>> \in Seq(Names) /\ Len(<<>>) = 0 /\ Range(<<>>) = {}
    <3>1. <<>> \in Seq(Names) /\ <<>> \o needs' = needs'
      BY <2>2, EmptySeq, ConcatEmptySeq
    <3> QED
      BY <2>2, <3>1, RangeEmpty DEF TakeInWaves, FrameSpace, Left
  <2>4. frames' = <<f>>
    BY <1>5
  <2> HIDE DEF f
  <2>5. frames' \in Seq(FrameSpace) /\ Len(frames') = 1 /\ frames'[1] = f /\ frames' # <<>>
    BY <2>3, <2>4
  <2>6. \A i \in 1..Len(frames') : i = 1
    BY <2>5
  <2>7. RetrievalShape'
    <3>1. \A i \in 1..Len(frames') : frames'[i].symbols = (i = 1)
      BY <2>3, <2>5, <2>6
    <3>2. out' \in Seq(Names) /\ Len(frames') <= 2
      BY <1>5, <2>3, <2>5
    <3>3. phase' = "resolve"
      BY <1>5
    <3> QED
      BY <1>1, <1>2, <2>1, <2>2, <2>5, <3>1, <3>2, <3>3 DEF RetrievalShape
  <2>8. Fetches'
    <3>1. Headroom' \in Nat
      <4>1. Len(out') = 0 /\ MaxFiles \in Nat
        BY <1>5, <2>3, RetrievalAssumption
      <4> QED
        BY <4>1 DEF Headroom
    <3>2. IsFiniteSet(flying') /\ Cardinality(flying') <= Headroom'
      BY <1>5, <3>1, FS_EmptySet
    <3> QED
      BY <1>5, <2>3, <2>5, <2>6, <3>2 DEF Fetches
  <2>9. Informed'
    <3>1. MaxFiles \in Nat
      BY RetrievalAssumption
    <3> QED
      BY <1>2, <1>5, <2>3, <3>1 DEF Informed, Grounded
  <2>10. OnTheWalk'
    <3>1. ASSUME NEW cloned \in BOOLEAN, Agrees(cloned)'
          PROVE  RestOf(frames', out', already', cloned) = Walk(<<>>, needs', already', cloned)
      <4>1. RestOf(frames', <<>>, already', cloned) = Walk(<<>>, Left(f), already', cloned)
        BY <2>5, RestIs
      <4> QED
        BY <1>5, <2>3, <4>1
    <3> QED
      BY <1>2, <3>1, OnTheWalkStill
  <2>11. PromptFits'
    BY <1>5 DEF PromptFits
  <2> QED
    BY <2>7, <2>8, <2>9, <2>10, <2>11 DEF RetrievalInv
<1> QED
  BY <1>3, <1>4, <1>5

LEMMA RetrievalStutter == RetrievalInv /\ UNCHANGED retrievalVars => RetrievalInv'
<1> SUFFICES ASSUME RetrievalInv, UNCHANGED retrievalVars PROVE RetrievalInv'
  OBVIOUS
<1>1. RetrievalShape /\ Fetches /\ Informed /\ OnTheWalk /\ PromptFits
  BY DEF RetrievalInv
<1>2. /\ UNCHANGED <<world, auditState>> /\ UNCHANGED <<text, defs, fixed>>
      /\ UNCHANGED <<open, contents, phase, prompt>>
      /\ UNCHANGED <<needs, already, frames, out, seen, flying, got, tree>>
  BY DEF retrievalVars, world, auditState, resolution
<1>3. RetrievalShape' /\ Informed'
  BY <1>1, <1>2 DEF RetrievalShape, Informed
<1>4. Fetches'
  BY <1>1, <1>2 DEF Fetches, Headroom
<1>5. OnTheWalk'
  <2>1. ASSUME NEW cloned \in BOOLEAN, Agrees(cloned)'
        PROVE  RestOf(frames', out', already', cloned) = Walk(<<>>, needs', already', cloned)
    <3>1. RestOf(frames, out, already, cloned) = Walk(<<>>, needs, already, cloned)
      BY <1>1, <1>2, <2>1 DEF OnTheWalk, Agrees
    <3> QED
      BY <1>2, <3>1
  <2> QED
    BY <1>2, <2>1, OnTheWalkStill
<1>6. PromptFits'
  BY <1>1, <1>2, PromptStands
<1> QED
  BY <1>3, <1>4, <1>5, <1>6 DEF RetrievalInv

\* However the audit, the waves and the answers go, the invariant holds.
THEOREM RetrievalInvariance == RetrievalSpec => []RetrievalInv
<1>1. RetrievalInv /\ [RetrievalNext]_retrievalVars => RetrievalInv'
  BY AuditorFailsStep, AskStep, JudgeStep, RecheckStep, StartWaveStep, TakeNextStep, EndWavesStep,
     ArriveStep, RetrievalStutter DEF RetrievalNext
<1> QED
  BY RetrievalInitInv, <1>1, PTL DEF RetrievalSpec

\* What an auditor is given to decide by is what a one-by-one walk would have
\* found, new to it and within its budget, for any needs, texts and answers in
\* any order (resolve_needs, reflect_findings, _audit).
THEOREM RechecksAreSound == RetrievalSpec => []RecheckIsSound
<1>1. RetrievalInv => RecheckIsSound
  <2> SUFFICES ASSUME RetrievalInv PROVE RecheckIsSound
    OBVIOUS
  <2>1. RetrievalShape /\ Fetches /\ Informed /\ OnTheWalk /\ PromptFits
    BY DEF RetrievalInv
  <2>2. WavesMatchWalk
    <3>1. SUFFICES ASSUME phase = "resolve", frames = <<>>
                   PROVE  out = Walk(<<>>, needs, already, tree = "cloned")
      BY DEF WavesMatchWalk
    <3> DEFINE cloned == tree = "cloned"
    <3>2. cloned \in BOOLEAN /\ Agrees(cloned)
      BY DEF Agrees
    <3> HIDE DEF cloned
    <3>3. RestOf(frames, out, already, cloned) = Walk(<<>>, needs, already, cloned)
      BY <2>1, <3>2 DEF OnTheWalk
    <3>4. RestOf(frames, out, already, cloned) = out
      BY <3>1 DEF RestOf
    <3> QED
      BY <3>3, <3>4 DEF cloned
  <2>3. RecheckIsInformed
    <3>1. flying \cap already = {}
      BY <2>1 DEF Fetches
    <3> QED
      BY <2>1, <3>1 DEF RecheckIsInformed, Fetches, Informed
  <2> QED
    BY <2>1, <2>2, <2>3 DEF RecheckIsSound
<1> QED
  BY RetrievalInvariance, <1>1, PTL
===============================================================================
