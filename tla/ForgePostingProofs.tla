--------------------------- MODULE ForgePostingProofs ---------------------------
(***************************************************************************)
(* Theorems about ForgePosting, for any number of findings, heads and      *)
(* runs, on any of the three hosts.                                        *)
(*                                                                         *)
(* One inductive invariant carries all of them.  What a run has read of    *)
(* the threads may be old, but only in one direction (SeenInv); what it    *)
(* has left to post has no open thread it could have known of (PostInv);   *)
(* what it has set out to resolve stays worth resolving (FixInv); and what *)
(* may become a watermark has been seen (CoverInv).                        *)
(***************************************************************************)
EXTENDS ForgePosting, TLAPS, FiniteSetTheorems, SequenceTheorems

Places == {FileOf[f] : f \in Findings}

Threads == [finding : Findings, status : {"open", "fixed", "dismissed"}, posted : Nat,
            lost : Nat, tracked : BOOLEAN]

Notes == [stamp : Nat, listed : SUBSET Findings]

Runs ==
  [pc : PCs, head : Nat, since : Nat, known : BOOLEAN, read : BOOLEAN, seen : Seq(Threads),
   scope : SUBSET Places, unread : SUBSET Places, reviewed : SUBSET Places,
   found : SUBSET Findings, inline : SUBSET Findings, complete : BOOLEAN,
   validated : SUBSET Nat, todo : SUBSET Findings, demoted : SUBSET Findings,
   tofix : SUBSET Nat, note : Nat, base : Nat]

TypeOK ==
  /\ setup \in Setups
  /\ head \in Nat \ {0}
  /\ linear \subseteq Nat
  /\ threads \in Seq(Threads)
  /\ notes \in Seq(Notes)
  /\ run \in Runs
  /\ runs \in Nat
  /\ covered \subseteq Nat

\* A line is lost after its finding was posted, to a head there has been.
ThreadInv ==
  /\ run.head <= head
  /\ \A i \in DOMAIN threads :
       /\ threads[i].posted <= head
       /\ threads[i].lost # 0 => threads[i].lost \in (threads[i].posted + 1)..head

\* What a run has read of the threads is what they are, or were: none was
\* resolved by us since, and none is open that was not.
SeenInv ==
  /\ \A i \in DOMAIN run.seen :
       /\ i \in DOMAIN threads
       /\ run.seen[i].finding = threads[i].finding
       /\ threads[i].status = "open" => run.seen[i].status = "open"
       /\ threads[i].status = "fixed" => run.seen[i].status = "fixed"
  /\ run.base <= Len(threads)
  /\ run.pc \in {"idle", "resolving", "failing"} => run.seen = <<>>
  /\ run.pc \in {"reviewing", "reading"} =>
       /\ run.base = Len(threads)
       /\ ~run.read => run.seen = <<>>
  /\ run.pc \in {"reviewing", "reading", "posting"} /\ run.known /\ run.read =>
       Len(run.seen) = run.base

\* Each finding of a run is still to be posted, or where a reader finds it; and
\* one still to be posted has no open thread but one the run could not know of.
PostInv ==
  /\ run.pc = "reading" => run.found = run.inline \cup run.demoted
  /\ run.pc = "posting" =>
       /\ \A f \in run.found :
            \/ f \in run.todo \cup run.demoted
            \/ \E i \in DOMAIN threads : threads[i].finding = f /\ threads[i].status # "fixed"
       /\ \A j \in DOMAIN threads :
            threads[j].finding \in run.todo /\ threads[j].status = "open" =>
              j <= run.base /\ ~(run.known /\ run.read)
       /\ forge # "gitlab" =>
            \A j \in DOMAIN run.seen :
              run.seen[j].finding \in run.todo => run.seen[j].status = "fixed"
  /\ run.pc = "resolving" => run.note \in DOMAIN notes

\* What is worth resolving: reported no more, on a line gone in the run's head.
Worth(i) ==
  /\ i \in DOMAIN threads
  /\ threads[i].finding \notin run.found
  /\ threads[i].lost \in 1..run.head

FixInv ==
  /\ run.since # 0 => forge = "gitlab"
  /\ run.pc \in {"reading", "posting"} =>
       \A i \in run.validated : run.since # 0 /\ i \in DOMAIN run.seen /\ Worth(i)
  /\ run.pc = "resolving" =>
       \A i \in run.tofix :
         /\ run.complete
         /\ Worth(i)
         /\ run.since # 0 => FileOf[threads[i].finding] \in run.scope

\* Complete reviews have seen what may become a watermark.
CoverInv ==
  /\ \A n \in DOMAIN notes : notes[n].stamp <= head /\ Pushes(notes[n].stamp) \subseteq covered
  /\ run.since <= head /\ Pushes(run.since) \subseteq covered
  /\ run.pc \in {"reading", "posting"} /\ run.complete => Pushes(run.head) \subseteq covered

IInv == TypeOK /\ ThreadInv /\ SeenInv /\ PostInv /\ FixInv /\ CoverInv /\ SummaryIsBacked

LEMMA SetupFacts ==
  ASSUME TypeOK
  PROVE  /\ forge \in {"gitlab", "gitea", "azure"}
         /\ setup.findings \subseteq Findings
         /\ setup.heads \in Nat \ {0}
         /\ Files \subseteq Places
  BY ForgeAssumption DEF ForgeAssumption, TypeOK, SetupSpace, forge, Files, Places

\* The host and the run as they are.
LEMMA HostFacts ==
  ASSUME TypeOK
  PROVE  /\ head \in Nat \ {0}
         /\ Len(threads) \in Nat /\ DOMAIN threads = 1..Len(threads)
         /\ threads \in [1..Len(threads) -> Threads]
         /\ Len(notes) \in Nat /\ DOMAIN notes = 1..Len(notes)
         /\ notes \in [1..Len(notes) -> Notes]
         /\ run \in Runs
         /\ Len(run.seen) \in Nat /\ DOMAIN run.seen = 1..Len(run.seen)
         /\ run.seen \in [1..Len(run.seen) -> Threads]
<1>1. run \in Runs /\ run.seen \in Seq(Threads)
  BY DEF TypeOK, Runs
<1> QED
  BY <1>1, LenProperties DEF TypeOK

LEMMA IdleType == Idle \in Runs
<1>1. <<>> \in Seq(Threads)
  BY EmptySeq
<1> QED
  BY <1>1 DEF Idle, Runs, PCs

LEMMA InitInv == Init => IInv
<1> SUFFICES ASSUME Init PROVE IInv
  OBVIOUS
<1>1. TypeOK
  <2>1. <<>> \in Seq(Threads) /\ <<>> \in Seq(Notes)
    BY EmptySeq
  <2> QED
    BY <2>1, IdleType DEF Init, TypeOK
<1>2. /\ DOMAIN threads = {} /\ DOMAIN notes = {} /\ DOMAIN run.seen = {}
      /\ Len(threads) = 0
      /\ run.pc = "idle" /\ run.head = 0 /\ run.since = 0 /\ run.base = 0
      /\ run.seen = <<>> /\ head = 1
  BY EmptySeq DEF Init, Idle
<1>3. Pushes(run.since) = {}
  BY <1>2 DEF Pushes
<1> QED
  BY <1>1, <1>2, <1>3
     DEF IInv, ThreadInv, SeenInv, PostInv, FixInv, CoverInv, SummaryIsBacked

-------------------------------------------------------------------------------
(* People *)

\* What a head is made of is settled when it is pushed.
Unmoved == \A h \in 0..head, p \in Nat : ((p + 1)..h \subseteq linear') <=> ((p + 1)..h \subseteq linear)

LEMMA PushesStay ==
  ASSUME TypeOK, Unmoved, NEW h \in 0..head, Pushes(h) \subseteq covered,
         covered \subseteq covered'
  PROVE  Pushes(h)' \subseteq covered'
<1>1. head \in Nat /\ h \in Nat
  BY DEF TypeOK
<1>2. ASSUME NEW p \in Nat PROVE Ahead(p, h)' <=> Ahead(p, h)
  <2>1. ((p + 1)..h \subseteq linear') <=> ((p + 1)..h \subseteq linear)
    BY DEF Unmoved
  <2> QED
    BY <2>1 DEF Ahead
<1>3. ASSUME NEW p \in Nat, p \in Pushes(h)' PROVE p \in Pushes(h)
  BY <1>1, <1>2, <1>3 DEF Pushes
<1>4. Pushes(h)' \subseteq Nat
  BY <1>1 DEF Pushes
<1> QED
  BY <1>3, <1>4

\* A push takes lines away and a person closes threads, under any run.
LEMMA AgingInv ==
  ASSUME IInv, setup' = setup, run' = run, notes' = notes, covered' = covered,
         runs' = runs, linear' \subseteq Nat, head' \in Nat \ {0}, head <= head',
         Unmoved,
         threads' \in Seq(Threads), Len(threads') = Len(threads),
         \A i \in DOMAIN threads :
           /\ threads'[i].finding = threads[i].finding
           /\ threads'[i].posted = threads[i].posted
           /\ \/ threads'[i].status = threads[i].status
              \/ threads[i].status = "open" /\ threads'[i].status = "dismissed"
           /\ \/ threads'[i].lost = threads[i].lost
              \/ threads[i].lost = 0 /\ threads'[i].lost = head' /\ head' = head + 1
  PROVE  IInv'
<1>0. TypeOK /\ ThreadInv /\ SeenInv /\ PostInv /\ FixInv /\ CoverInv /\ SummaryIsBacked
  BY DEF IInv
<1>1. TypeOK'
  BY <1>0 DEF TypeOK
<1>2. DOMAIN threads' = DOMAIN threads /\ DOMAIN threads = 1..Len(threads)
  BY <1>0, <1>1, HostFacts, LenProperties
<1>3. \A i \in DOMAIN threads :
        threads[i] \in Threads /\ threads'[i] \in Threads /\ head \in Nat /\ head' \in Nat
  BY <1>0, <1>1, <1>2, HostFacts, LenProperties
<1>4. ThreadInv'
  <2>1. run.head <= head'
    BY <1>0, HostFacts DEF ThreadInv, Runs
  <2>2. ASSUME NEW i \in DOMAIN threads
        PROVE  /\ threads'[i].posted <= head'
               /\ threads'[i].lost # 0 =>
                    threads'[i].lost \in (threads'[i].posted + 1)..head'
    <3>1. /\ threads[i].posted \in Nat /\ threads[i].lost \in Nat
          /\ threads[i].posted <= head
          /\ threads[i].lost # 0 => threads[i].lost \in (threads[i].posted + 1)..head
      BY <1>0, <1>3 DEF ThreadInv, Threads
    <3> QED
      BY <1>3, <3>1
  <2> QED
    BY <1>2, <1>3, <2>1, <2>2 DEF ThreadInv
<1>5. SeenInv'
  BY <1>0, <1>2 DEF SeenInv
<1>6. PostInv'
  <2>1. forge' = forge
    BY DEF forge
  <2>2. \A f \in run.found :
          (\E i \in DOMAIN threads : threads[i].finding = f /\ threads[i].status # "fixed") =>
          \E i \in DOMAIN threads' : threads'[i].finding = f /\ threads'[i].status # "fixed"
    BY <1>2
  <2>3. \A j \in DOMAIN threads' :
          threads'[j].finding \in run.todo /\ threads'[j].status = "open" =>
            threads[j].finding \in run.todo /\ threads[j].status = "open"
    BY <1>2
  <2> QED
    BY <1>0, <1>2, <2>1, <2>2, <2>3 DEF PostInv
<1>7. FixInv'
  <2>1. ASSUME NEW i \in Nat, Worth(i) PROVE Worth(i)'
    <3>1. i \in DOMAIN threads /\ threads[i].lost # 0
      BY <2>1 DEF Worth
    <3> QED
      BY <1>2, <2>1, <3>1 DEF Worth
  <2>2. run.validated \subseteq Nat /\ run.tofix \subseteq Nat
    BY <1>0, HostFacts DEF Runs
  <2>3. \A i \in DOMAIN threads : FileOf[threads'[i].finding] = FileOf[threads[i].finding]
    OBVIOUS
  <2> QED
    BY <1>0, <1>2, <2>1, <2>2, <2>3 DEF FixInv, forge, Worth
<1>8. CoverInv'
  <2>1. /\ run.since \in Nat /\ run.head \in Nat /\ run.head <= head /\ head \in Nat
        /\ head' \in Nat
        /\ \A n \in DOMAIN notes : notes[n].stamp \in Nat
    BY <1>0, HostFacts DEF Runs, Notes, ThreadInv
  <2>2. ASSUME NEW n \in DOMAIN notes
        PROVE  notes[n].stamp <= head' /\ Pushes(notes[n].stamp)' \subseteq covered'
    <3>1. PICK h \in 0..head : h = notes[n].stamp
      BY <1>0, <2>1 DEF CoverInv
    <3>2. Pushes(h)' \subseteq covered'
      BY <1>0, <3>1, PushesStay DEF CoverInv
    <3> QED
      BY <2>1, <3>1, <3>2
  <2>3. run.since <= head' /\ Pushes(run.since)' \subseteq covered'
    <3>1. PICK h \in 0..head : h = run.since
      BY <1>0, <2>1 DEF CoverInv
    <3>2. Pushes(h)' \subseteq covered'
      BY <1>0, <3>1, PushesStay DEF CoverInv
    <3> QED
      BY <2>1, <3>1, <3>2
  <2>4. run.pc \in {"reading", "posting"} /\ run.complete => Pushes(run.head)' \subseteq covered'
    <3>1. PICK h \in 0..head : h = run.head
      BY <2>1
    <3>2. Pushes(h) \subseteq covered => Pushes(h)' \subseteq covered'
      BY <1>0, PushesStay
    <3> QED
      BY <1>0, <3>1, <3>2 DEF CoverInv
  <2> QED
    BY <2>2, <2>3, <2>4 DEF CoverInv
<1>9. SummaryIsBacked'
  BY <1>0, <1>2 DEF SummaryIsBacked, OnHost
<1> QED
  BY <1>1, <1>4, <1>5, <1>6, <1>7, <1>8, <1>9 DEF IInv

LEMMA PushInv ==
  ASSUME IInv, Push
  PROVE  IInv'
<1>0. TypeOK
  BY DEF IInv
<1>1. PICK gone \in SUBSET {i \in DOMAIN threads : threads[i].lost = 0} :
        threads' = [i \in DOMAIN threads |->
                      IF i \in gone THEN [threads[i] EXCEPT !.lost = head + 1] ELSE threads[i]]
  BY DEF Push
<1>2. head \in Nat \ {0} /\ head' = head + 1 /\ linear' \in {linear, linear \cup {head + 1}}
  BY <1>0, HostFacts DEF Push
<1>3. Unmoved
  <2> SUFFICES ASSUME NEW h \in 0..head, NEW p \in Nat
               PROVE  ((p + 1)..h \subseteq linear') <=> ((p + 1)..h \subseteq linear)
    BY DEF Unmoved
  <2>1. head + 1 \notin (p + 1)..h
    BY <1>2
  <2> QED
    BY <1>2, <2>1
<1>4. \A i \in DOMAIN threads : threads[i] \in Threads
  BY <1>0, HostFacts
<1>5. \A i \in DOMAIN threads :
        /\ threads'[i] \in Threads
        /\ threads'[i].finding = threads[i].finding
        /\ threads'[i].posted = threads[i].posted
        /\ threads'[i].status = threads[i].status
        /\ \/ threads'[i].lost = threads[i].lost
           \/ threads[i].lost = 0 /\ threads'[i].lost = head'
  BY <1>1, <1>2, <1>4 DEF Threads
<1>6. threads' \in Seq(Threads) /\ Len(threads') = Len(threads)
  <2>1. threads' \in [1..Len(threads) -> Threads]
    BY <1>0, <1>1, <1>5, HostFacts
  <2> QED
    BY <1>0, <2>1, HostFacts, SeqDef, LenProperties
<1>7. linear' \subseteq Nat
  BY <1>0, <1>2 DEF TypeOK
<1> QED
  BY <1>2, <1>3, <1>5, <1>6, <1>7, AgingInv DEF Push

LEMMA DismissInv ==
  ASSUME IInv, NEW i \in DOMAIN threads, Dismiss(i)
  PROVE  IInv'
<1>0. TypeOK /\ threads[i] \in Threads /\ i \in 1..Len(threads)
  BY HostFacts DEF IInv
<1> DEFINE t == [threads[i] EXCEPT !.status = "dismissed"]
<1>1. t \in Threads /\ t.finding = threads[i].finding /\ t.posted = threads[i].posted
      /\ t.lost = threads[i].lost /\ t.status = "dismissed"
  BY <1>0 DEF Threads
<1>2. threads' = [threads EXCEPT ![i] = t]
  BY DEF Dismiss
<1> HIDE DEF t
<1>3. /\ threads' \in Seq(Threads) /\ Len(threads') = Len(threads)
      /\ \A j \in DOMAIN threads : threads'[j] = IF j = i THEN t ELSE threads[j]
  BY <1>0, <1>1, <1>2, HostFacts, ExceptSeq DEF TypeOK
<1>4. Unmoved
  BY DEF Unmoved, Dismiss
<1> QED
  BY <1>0, <1>1, <1>3, <1>4, HostFacts, AgingInv DEF Dismiss, TypeOK

-------------------------------------------------------------------------------
(* A run begins *)

\* The last of some places in a sequence is one of them.
LEMMA MaxIsIn ==
  ASSUME NEW n \in Nat, NEW S \in SUBSET (1..n), S # {}
  PROVE  Max(S) \in S
<1> DEFINE T == {k \in 0..n : n - k \in S}
<1>1. T \subseteq Nat
  OBVIOUS
<1>2. T # {}
  <2>1. PICK x \in S : TRUE
    OBVIOUS
  <2>2. n - x \in 0..n /\ n - (n - x) = x
    OBVIOUS
  <2> QED
    BY <2>2
<1> HIDE DEF T
<1>3. PICK k \in T : \A j \in T : ~(<<j, k>> \in OpToRel(<, Nat))
  BY <1>1, <1>2, NatLessThanWellFounded, WFMin, Zenon
<1>4. \A j \in T : ~(j < k)
  BY <1>1, <1>3 DEF OpToRel
<1>5. n - k \in S /\ k \in 0..n
  BY DEF T
<1>6. ASSUME NEW y \in S PROVE n - k >= y
  <2>1. n - y \in T
    BY DEF T
  <2> QED
    BY <1>4, <1>5, <2>1
<1> QED
  BY <1>5, <1>6 DEF Max

LEMMA SeenOfThreads ==
  ASSUME TypeOK, NEW known \in BOOLEAN, NEW d,
         \/ \E n \in 0..Len(threads) : d = ReadInPart(n)
         \/ d = Read(IF known THEN threads ELSE <<>>)
         \/ d = Read(<<>>)
  PROVE  /\ d.read \in BOOLEAN /\ d.seen \in Seq(Threads)
         /\ Len(d.seen) <= Len(threads)
         /\ DOMAIN d.seen \subseteq DOMAIN threads
         /\ \A i \in DOMAIN d.seen : d.seen[i] = threads[i]
<1>0. threads \in Seq(Threads) /\ Len(threads) \in Nat /\ DOMAIN threads = 1..Len(threads)
  BY HostFacts DEF TypeOK
<1>1. <<>> \in Seq(Threads) /\ Len(<<>>) = 0 /\ DOMAIN <<>> = {}
  BY EmptySeq
<1>2. CASE d = Read(threads)
  BY <1>0, <1>2 DEF Read
<1>3. CASE d = Read(<<>>)
  BY <1>0, <1>1, <1>3 DEF Read
<1>4. ASSUME NEW n \in 0..Len(threads), d = ReadInPart(n)
      PROVE  /\ d.read = FALSE /\ d.seen \in Seq(Threads)
             /\ Len(d.seen) = n /\ DOMAIN d.seen = 1..n
             /\ \A i \in 1..n : d.seen[i] = threads[i]
  <2>1. \A i \in 1..n : threads[i] \in Threads
    BY <1>0, HostFacts
  <2>2. d.seen = SubSeq(threads, 1, n) /\ d.read = FALSE
    BY <1>4 DEF ReadInPart
  <2>3. /\ SubSeq(threads, 1, n) \in Seq(Threads)
        /\ Len(SubSeq(threads, 1, n)) = IF 1 <= n THEN n - 1 + 1 ELSE 0
        /\ \A i \in 1..(n - 1 + 1) : SubSeq(threads, 1, n)[i] = threads[1 + i - 1]
    BY <1>0, <2>1, SubSeqProperties
  <2>4. n \in Nat
    BY <1>0
  <2>5. Len(d.seen) = n
    BY <2>2, <2>3, <2>4
  <2>6. \A i \in 1..n : d.seen[i] = threads[i]
    BY <2>2, <2>3, <2>4
  <2> QED
    BY <2>2, <2>3, <2>5, <2>6, LenProperties
<1>5. CASE \E n \in 0..Len(threads) : d = ReadInPart(n)
  <2>1. PICK n \in 0..Len(threads) : d = ReadInPart(n)
    BY <1>5
  <2>2. /\ d.read = FALSE /\ d.seen \in Seq(Threads)
        /\ Len(d.seen) = n /\ DOMAIN d.seen = 1..n
        /\ \A i \in 1..n : d.seen[i] = threads[i]
    BY <1>4, <2>1
  <2>3. n <= Len(threads) /\ 1..n \subseteq DOMAIN threads
    BY <1>0
  <2> QED
    BY <2>2, <2>3
<1> QED
  BY <1>2, <1>3, <1>5

\* What a run is when it begins, whichever way the host has it begin.
LEMMA BegunInv ==
  ASSUME IInv, NEW s \in Runs, run' = s, runs' \in Nat,
         UNCHANGED <<setup, head, linear, threads, notes, covered>>,
         s.pc = "reviewing", s.head = head, s.base = Len(threads),
         s.since <= head, Pushes(s.since) \subseteq covered,
         s.since # 0 => forge = "gitlab",
         DOMAIN s.seen \subseteq DOMAIN threads,
         \A i \in DOMAIN s.seen : s.seen[i] = threads[i],
         ~s.read => s.seen = <<>>,
         s.known /\ s.read => Len(s.seen) = Len(threads)
  PROVE  IInv'
<1>0. TypeOK /\ ThreadInv /\ SeenInv /\ PostInv /\ FixInv /\ CoverInv
  BY DEF IInv
<1>1. TypeOK'
  BY <1>0 DEF TypeOK
<1>2. ThreadInv'
  BY <1>0, HostFacts DEF ThreadInv
<1>3. SeenInv'
  BY <1>0, HostFacts DEF SeenInv
<1>4. PostInv' /\ SummaryIsBacked'
  BY DEF PostInv, SummaryIsBacked
<1>5. FixInv'
  BY DEF FixInv, forge
<1>6. CoverInv'
  BY <1>0 DEF CoverInv, Pushes, Ahead
<1> QED
  BY <1>1, <1>2, <1>3, <1>4, <1>5, <1>6 DEF IInv

\* A watermark that a run reads is one that complete reviews have covered.
LEMMA WatermarkFacts ==
  ASSUME TypeOK, CoverInv, NEW known \in BOOLEAN, NEW stamp \in {0, LastReviewed(known)}
  PROVE  /\ stamp \in Nat /\ stamp <= head /\ Pushes(stamp) \subseteq covered
         /\ stamp # 0 => forge = "gitlab"
<1> DEFINE stamped == {n \in DOMAIN notes : notes[n].stamp # 0}
<1>0. head \in Nat /\ Pushes(0) = {}
  BY HostFacts DEF Pushes
<1>1. CASE stamp = 0
  BY <1>0, <1>1
<1>2. CASE stamp # 0
  <2>1. forge = "gitlab" /\ stamped # {} /\ stamp = notes[Max(stamped)].stamp
    BY <1>2 DEF LastReviewed
  <2>2. stamped \in SUBSET (1..Len(notes)) /\ Len(notes) \in Nat
    BY HostFacts
  <2> HIDE DEF stamped
  <2>3. Max(stamped) \in stamped
    BY <2>1, <2>2, MaxIsIn
  <2>4. Max(stamped) \in DOMAIN notes
    BY <2>2, <2>3, HostFacts
  <2>5. notes[Max(stamped)] \in Notes
    BY <2>4, HostFacts
  <2> QED
    BY <2>1, <2>4, <2>5 DEF CoverInv, Notes
<1> QED
  BY <1>1, <1>2

LEMMA BeginInv ==
  ASSUME IInv, Begin
  PROVE  IInv'
<1>0. TypeOK /\ CoverInv /\ head \in Nat \ {0} /\ Len(threads) \in Nat /\ Files \subseteq Places
  BY HostFacts, SetupFacts DEF IInv
<1>1. /\ UNCHANGED <<setup, head, linear, threads, notes, covered>>
      /\ runs' \in Nat
  BY <1>0 DEF Begin, TypeOK
<1>2. <<>> \in Seq(Threads) /\ Len(<<>>) = 0 /\ DOMAIN <<>> = {} /\ Pushes(0) = {}
  BY EmptySeq DEF Pushes
<1>3. ASSUME NEW known \in BOOLEAN
      PROVE  /\ Starting(known) \in Runs
             /\ Starting(known).pc = "reviewing" /\ Starting(known).head = head
             /\ Starting(known).base = Len(threads) /\ Starting(known).since = 0
             /\ Starting(known).seen = <<>> /\ ~Starting(known).read
             /\ Starting(known).known = known
  BY <1>0, <1>2 DEF Starting, Idle, Runs, PCs
<1>4. CASE forge = "gitlab"
  <2>1. BeginGitLab
    BY <1>4 DEF Begin
  <2>1a. PICK known \in BOOLEAN :
          \E stamp \in {0, LastReviewed(known)} :
            \E since \in {0, Increment(stamp)}, scope \in SUBSET Files, d \in Discussions(known) :
              Becomes([Starting(known) EXCEPT !.since = since, !.scope = scope,
                                              !.read = d.read, !.seen = d.seen])
    BY <2>1 DEF BeginGitLab
  <2>2. PICK stamp \in {0, LastReviewed(known)} :
          \E since \in {0, Increment(stamp)}, scope \in SUBSET Files, d \in Discussions(known) :
            Becomes([Starting(known) EXCEPT !.since = since, !.scope = scope,
                                            !.read = d.read, !.seen = d.seen])
    BY <2>1a
  <2>3. PICK since \in {0, Increment(stamp)}, scope \in SUBSET Files, d \in Discussions(known) :
          Becomes([Starting(known) EXCEPT !.since = since, !.scope = scope,
                                          !.read = d.read, !.seen = d.seen])
    BY <2>2
  <2>4. since \in Nat /\ since <= head /\ Pushes(since) \subseteq covered
    BY <1>0, <1>2, WatermarkFacts DEF Increment
  <2>5. d = Read(IF known THEN threads ELSE <<>>) \/ d = ReadInPart(0)
    BY DEF Discussions
  <2>6. /\ d.read \in BOOLEAN /\ d.seen \in Seq(Threads)
        /\ DOMAIN d.seen \subseteq DOMAIN threads
        /\ \A i \in DOMAIN d.seen : d.seen[i] = threads[i]
    <3>1. 0 \in 0..Len(threads)
      BY <1>0
    <3> QED
      BY <1>0, <2>5, <3>1, SeenOfThreads
  <2>7. /\ ~d.read => d.seen = <<>>
        /\ known /\ d.read => d.seen = threads
    <3>1. SubSeq(threads, 1, 0) = <<>>
      BY SubSeqEmpty
    <3> QED
      BY <2>5, <3>1 DEF Read, ReadInPart
  <2> DEFINE s == [Starting(known) EXCEPT !.since = since, !.scope = scope,
                                          !.read = d.read, !.seen = d.seen]
  <2>8. /\ s \in Runs /\ s.pc = "reviewing" /\ s.head = head /\ s.base = Len(threads)
        /\ s.since = since /\ s.read = d.read /\ s.seen = d.seen /\ s.known = known
    <3>1. scope \in SUBSET Places
      BY <1>0
    <3> DEFINE start == Starting(known)
    <3>2. start \in Runs
      BY <1>3
    <3>3. s = [start EXCEPT !.since = since, !.scope = scope, !.read = d.read, !.seen = d.seen]
      OBVIOUS
    <3>4. start.pc = "reviewing" /\ start.head = head /\ start.base = Len(threads)
          /\ start.known = known
      BY <1>3
    <3> HIDE DEF s, start
    <3>5. s \in Runs
      BY <2>4, <2>6, <3>1, <3>2, <3>3 DEF Runs
    <3> QED
      BY <3>2, <3>3, <3>4, <3>5 DEF Runs
  <2>9. run' = s
    BY <2>3 DEF Becomes
  <2> HIDE DEF s
  <2> QED
    BY <1>1, <1>4, <2>4, <2>6, <2>7, <2>8, <2>9, BegunInv
<1>5. ASSUME NEW known \in BOOLEAN, NEW s \in Runs, Becomes(s), s.pc = "reviewing",
             s.head = head, s.base = Len(threads), s.since = 0, s.seen = <<>>, ~s.read
      PROVE  IInv'
  <2>1. run' = s /\ 0 <= head
    BY <1>0, <1>5 DEF Becomes
  <2> QED
    BY <1>1, <1>2, <1>5, <2>1, BegunInv
<1>6. CASE forge = "gitea"
  <2>1. PICK known \in BOOLEAN : Becomes(Starting(known))
    BY <1>6 DEF Begin, BeginGitea
  <2> QED
    BY <1>3, <1>5, <2>1
<1>7. CASE forge = "azure"
  <2>1. PICK known \in BOOLEAN, sides \in [Files -> Sides] :
          Becomes([Starting(known) EXCEPT !.unread = Unread(sides)])
    BY <1>7 DEF Begin, BeginAzure
  <2>2. Unread(sides) \in SUBSET Places
    BY <1>0 DEF Unread
  <2> DEFINE s == [Starting(known) EXCEPT !.unread = Unread(sides)]
  <2>3. /\ s \in Runs /\ s.pc = "reviewing" /\ s.head = head /\ s.base = Len(threads)
        /\ s.since = 0 /\ s.seen = <<>> /\ ~s.read
    BY <1>3, <2>2 DEF Runs
  <2> HIDE DEF s
  <2>4. Becomes(s)
    BY <2>1 DEF s
  <2> QED
    BY <1>5, <2>3, <2>4
<1> QED
  BY <1>0, <1>4, <1>6, <1>7, SetupFacts

-------------------------------------------------------------------------------
(* Its review, and what is on the host already *)

LEMMA ValidatedFacts ==
  ASSUME TypeOK, SeenInv, NEW found \in SUBSET Findings, NEW fixed \in Validated(found)
  PROVE  /\ fixed \subseteq Nat
         /\ \A i \in fixed :
              /\ run.since # 0 /\ i \in DOMAIN run.seen
              /\ i \in DOMAIN threads /\ threads[i].finding \notin found
              /\ threads[i].lost \in 1..run.head
<1>1. DOMAIN run.seen \subseteq Nat
  BY HostFacts
<1>2. CASE run.since = 0
  BY <1>2 DEF Validated
<1>3. CASE run.since # 0
  <2>1. \A i \in fixed : /\ i \in DOMAIN run.seen /\ LineChanged(i)
                         /\ run.seen[i].finding \notin found
    BY <1>3 DEF Validated, ActiveFindings, Seen
  <2> QED
    BY <1>1, <1>3, <2>1 DEF SeenInv, LineChanged
<1> QED
  BY <1>2, <1>3

LEMMA ReviewInv ==
  ASSUME IInv, Review
  PROVE  IInv'
<1>0. TypeOK /\ ThreadInv /\ SeenInv /\ PostInv /\ FixInv /\ CoverInv /\ run \in Runs
      /\ setup.findings \subseteq Findings
  BY HostFacts, SetupFacts DEF IInv
<1>1. PICK reviewed \in SUBSET (run.scope \ run.unread), complete \in BOOLEAN :
        \E found \in SUBSET {f \in setup.findings : FileOf[f] \in reviewed} :
          /\ \E inline \in SUBSET found, fixed \in Validated(found) :
               Becomes([run EXCEPT !.pc = "reading", !.reviewed = reviewed, !.found = found,
                                   !.inline = inline, !.demoted = found \ inline,
                                   !.complete = complete, !.validated = fixed])
          /\ covered' = IF complete THEN covered \cup Reviewed ELSE covered
  BY DEF Review
<1>2. PICK found \in SUBSET {f \in setup.findings : FileOf[f] \in reviewed} :
        /\ \E inline \in SUBSET found, fixed \in Validated(found) :
             Becomes([run EXCEPT !.pc = "reading", !.reviewed = reviewed, !.found = found,
                                 !.inline = inline, !.demoted = found \ inline,
                                 !.complete = complete, !.validated = fixed])
        /\ covered' = IF complete THEN covered \cup Reviewed ELSE covered
  BY <1>1
<1>3. PICK inline \in SUBSET found :
        \E fixed \in Validated(found) :
          Becomes([run EXCEPT !.pc = "reading", !.reviewed = reviewed, !.found = found,
                              !.inline = inline, !.demoted = found \ inline,
                              !.complete = complete, !.validated = fixed])
  BY <1>2
<1>4. PICK fixed \in Validated(found) :
        run' = [run EXCEPT !.pc = "reading", !.reviewed = reviewed, !.found = found,
                           !.inline = inline, !.demoted = found \ inline,
                           !.complete = complete, !.validated = fixed]
  BY <1>3 DEF Becomes
<1>5. /\ UNCHANGED <<setup, head, linear, threads, notes, runs>>
      /\ run.pc = "reviewing"
  BY DEF Review
<1>6. found \in SUBSET Findings /\ reviewed \in SUBSET Places /\ fixed \subseteq Nat
  BY <1>0, ValidatedFacts DEF Runs
<1>7. /\ run' \in Runs /\ run'.pc = "reading" /\ run'.head = run.head /\ run'.since = run.since
      /\ run'.base = run.base /\ run'.seen = run.seen /\ run'.read = run.read
      /\ run'.known = run.known /\ run'.found = found /\ run'.inline = inline
      /\ run'.demoted = found \ inline /\ run'.complete = complete /\ run'.validated = fixed
  BY <1>0, <1>4, <1>6 DEF Runs, PCs
<1>8. covered \subseteq covered' /\ covered' \subseteq Nat
  <2>1. Reviewed \subseteq Nat
    BY DEF Reviewed, Pushes
  <2> QED
    BY <1>0, <1>2, <2>1 DEF TypeOK
<1>9. TypeOK' /\ ThreadInv' /\ SeenInv' /\ PostInv'
  BY <1>0, <1>5, <1>7, <1>8 DEF TypeOK, ThreadInv, SeenInv, PostInv
<1>10. FixInv'
  BY <1>0, <1>5, <1>6, <1>7, ValidatedFacts DEF FixInv, forge, Worth
<1>11. CoverInv'
  <2>1. complete => Pushes(run.head) \subseteq covered'
    BY <1>0, <1>2 DEF Reviewed, CoverInv
  <2>2. /\ \A n \in DOMAIN notes :
             notes[n].stamp <= head /\ Pushes(notes[n].stamp) \subseteq covered'
        /\ run.since <= head /\ Pushes(run.since) \subseteq covered'
    BY <1>0, <1>8 DEF CoverInv
  <2> QED
    BY <1>5, <1>7, <2>1, <2>2 DEF CoverInv, Pushes, Ahead
<1>12. SummaryIsBacked'
  BY <1>7 DEF SummaryIsBacked
<1> QED
  BY <1>9, <1>10, <1>11, <1>12 DEF IInv

\* What a run may know of the threads when it has read them.
Readings ==
  CASE forge = "gitlab" -> IF run.read THEN {run} ELSE Discussions(run.known)
    [] forge = "gitea" -> OwnReviewComments
    [] forge = "azure" -> OwnThreads

LEMMA ReadingFacts ==
  ASSUME TypeOK, SeenInv, run.pc = "reading", NEW on \in Readings
  PROVE  /\ on.read \in BOOLEAN /\ on.seen \in Seq(Threads)
         /\ \A i \in DOMAIN on.seen :
              /\ i \in DOMAIN threads
              /\ on.seen[i].finding = threads[i].finding
              /\ threads[i].status = "open" => on.seen[i].status = "open"
              /\ threads[i].status = "fixed" => on.seen[i].status = "fixed"
         /\ run.known /\ on.read => Len(on.seen) = Len(threads)
         /\ forge = "gitlab" /\ run.read => on = run
<1>0. run \in Runs /\ Len(threads) \in Nat /\ run.known \in BOOLEAN
      /\ run.read \in BOOLEAN /\ run.seen \in Seq(Threads)
  BY HostFacts DEF Runs
<1>1. CASE on = run
  BY <1>0, <1>1 DEF SeenInv
<1>2. CASE \/ \E n \in 0..Len(threads) : on = ReadInPart(n)
           \/ on = Read(IF run.known THEN threads ELSE <<>>)
  <2>1. /\ on.read \in BOOLEAN /\ on.seen \in Seq(Threads)
        /\ DOMAIN on.seen \subseteq DOMAIN threads
        /\ \A i \in DOMAIN on.seen : on.seen[i] = threads[i]
    BY <1>0, <1>2, SeenOfThreads
  <2>2. run.known /\ on.read => on.seen = threads
    BY <1>2 DEF Read, ReadInPart
  <2>3. forge = "gitlab" /\ run.read => on = run
    BY DEF Readings
  <2> QED
    BY <2>1, <2>2, <2>3
<1>3. \/ on = run
      \/ \E n \in 0..Len(threads) : on = ReadInPart(n)
      \/ on = Read(IF run.known THEN threads ELSE <<>>)
  <2>1. 0 \in 0..Len(threads)
    BY <1>0
  <2>2. CASE forge = "gitlab"
    BY <2>1, <2>2 DEF Readings, Discussions
  <2>3. CASE forge = "gitea"
    BY <1>0, <2>3 DEF Readings, OwnReviewComments
  <2>4. CASE forge = "azure"
    BY <2>4 DEF Readings, OwnThreads
  <2> QED
    BY <2>2, <2>3, <2>4, SetupFacts
<1> QED
  BY <1>1, <1>2, <1>3

\* What suppresses a finding: a thread that is open does, and no thread does that
\* we have resolved.
LEMMA UnpostedFacts ==
  ASSUME TypeOK, NEW seen \in Seq(Threads)
  PROVE  /\ \A f \in run.inline \ Unposted(seen) :
              \E i \in DOMAIN seen : seen[i].finding = f /\ seen[i].status # "fixed"
         /\ \A i \in DOMAIN seen :
              seen[i].finding \in Unposted(seen) =>
                /\ seen[i].status # "open"
                /\ forge # "gitlab" => seen[i].status = "fixed"
         /\ Unposted(seen) \subseteq run.inline
<1> DEFINE keys == CASE forge = "gitlab" -> KeysGitLab(seen)
                     [] forge = "gitea" -> KeysGitea(seen)
                     [] forge = "azure" -> KeysAzure(seen)
<1>1. Unposted(seen) = run.inline \ {seen[i].finding : i \in keys}
  BY DEF Unposted
<1>2. /\ \A i \in keys : i \in DOMAIN seen /\ seen[i].status # "fixed"
      /\ \A i \in DOMAIN seen : i \notin keys =>
           /\ seen[i].status # "open"
           /\ forge # "gitlab" => seen[i].status = "fixed"
  <2>1. CASE forge = "gitlab"
    BY <2>1 DEF KeysGitLab
  <2>2. CASE forge = "gitea"
    BY <2>2 DEF KeysGitea
  <2>3. CASE forge = "azure"
    BY <2>3 DEF KeysAzure
  <2> QED
    BY <2>1, <2>2, <2>3, SetupFacts
<1> HIDE DEF keys
<1> QED
  BY <1>1, <1>2

LEMMA ReadThreadsInv ==
  ASSUME IInv, ReadThreads
  PROVE  IInv'
<1>0. TypeOK /\ ThreadInv /\ SeenInv /\ PostInv /\ FixInv /\ CoverInv /\ run \in Runs
      /\ Len(threads) \in Nat /\ DOMAIN threads = 1..Len(threads)
  BY HostFacts DEF IInv
<1>1. /\ UNCHANGED <<setup, head, linear, threads, notes, runs, covered>>
      /\ run.pc = "reading"
  BY DEF ReadThreads
<1>2. PICK on \in Readings :
        run' = [run EXCEPT !.pc = "posting", !.read = on.read, !.seen = on.seen,
                           !.todo = Unposted(on.seen), !.inline = {}]
  BY DEF ReadThreads, Becomes, Readings
<1>3. /\ on.read \in BOOLEAN /\ on.seen \in Seq(Threads)
      /\ \A i \in DOMAIN on.seen :
           /\ i \in DOMAIN threads
           /\ on.seen[i].finding = threads[i].finding
           /\ threads[i].status = "open" => on.seen[i].status = "open"
           /\ threads[i].status = "fixed" => on.seen[i].status = "fixed"
      /\ run.known /\ on.read => Len(on.seen) = Len(threads)
      /\ forge = "gitlab" /\ run.read => on = run
  BY <1>0, <1>1, <1>2, ReadingFacts
<1>4. Unposted(on.seen) \subseteq run.inline /\ run.inline \subseteq Findings
  BY <1>0, <1>3, UnpostedFacts DEF Runs
<1>5. /\ run' \in Runs /\ run'.pc = "posting" /\ run'.head = run.head /\ run'.since = run.since
      /\ run'.base = run.base /\ run'.seen = on.seen /\ run'.read = on.read
      /\ run'.known = run.known /\ run'.found = run.found /\ run'.todo = Unposted(on.seen)
      /\ run'.demoted = run.demoted /\ run'.complete = run.complete
      /\ run'.validated = run.validated
  BY <1>0, <1>2, <1>3, <1>4 DEF Runs, PCs
<1>6. TypeOK' /\ ThreadInv' /\ SummaryIsBacked'
  BY <1>0, <1>1, <1>5 DEF TypeOK, ThreadInv, SummaryIsBacked
<1>7. SeenInv'
  BY <1>0, <1>1, <1>3, <1>5 DEF SeenInv
<1>8. PostInv'
  <2>1. ASSUME NEW f \in run.found
        PROVE  \/ f \in Unposted(on.seen) \cup run.demoted
               \/ \E i \in DOMAIN threads : threads[i].finding = f /\ threads[i].status # "fixed"
    <3>1. CASE f \in run.demoted
      BY <3>1
    <3>2. CASE f \in run.inline \ Unposted(on.seen)
      <4>1. PICK i \in DOMAIN on.seen : on.seen[i].finding = f /\ on.seen[i].status # "fixed"
        BY <1>0, <1>3, <3>2, UnpostedFacts
      <4> QED
        BY <1>3, <4>1
    <3> QED
      BY <1>0, <1>1, <2>1, <3>1, <3>2 DEF PostInv
  <2>2. ASSUME NEW j \in DOMAIN threads,
               threads[j].finding \in Unposted(on.seen), threads[j].status = "open"
        PROVE  j <= run.base /\ ~(run.known /\ on.read)
    <3>1. j <= run.base
      BY <1>0, <1>1 DEF SeenInv
    <3>2. ASSUME run.known, on.read PROVE FALSE
      <4>1. j \in DOMAIN on.seen
        BY <1>0, <1>3, <3>2, LenProperties
      <4> QED
        BY <1>0, <1>3, <2>2, <4>1, UnpostedFacts
    <3> QED
      BY <3>1, <3>2
  <2>3. forge # "gitlab" =>
          \A j \in DOMAIN on.seen :
            on.seen[j].finding \in Unposted(on.seen) => on.seen[j].status = "fixed"
    BY <1>0, <1>3, UnpostedFacts
  <2> QED
    BY <1>1, <1>5, <2>1, <2>2, <2>3 DEF PostInv, forge
<1>9. FixInv'
  <2>1. ASSUME NEW i \in run.validated
        PROVE  run.since # 0 /\ i \in DOMAIN on.seen /\ Worth(i)
    <3>1. run.since # 0 /\ i \in DOMAIN run.seen /\ Worth(i)
      BY <1>0, <1>1, <2>1 DEF FixInv
    <3>2. run.read
      BY <1>0, <1>1, <3>1, EmptySeq DEF SeenInv
    <3>3. forge = "gitlab"
      BY <1>0, <3>1 DEF FixInv
    <3> QED
      BY <1>3, <3>1, <3>2, <3>3
  <2> QED
    BY <1>0, <1>1, <1>5, <2>1 DEF FixInv, forge, Worth
<1>10. CoverInv'
  BY <1>0, <1>1, <1>5 DEF CoverInv, Pushes, Ahead
<1> QED
  BY <1>6, <1>7, <1>8, <1>9, <1>10 DEF IInv

-------------------------------------------------------------------------------
(* Its findings are posted *)

\* A set taken in some order: each element once.
LEMMA SetToSeqFacts ==
  ASSUME NEW S, IsFiniteSet(S)
  PROVE  /\ SetToSeq(S) \in Seq(S)
         /\ \A i, j \in DOMAIN SetToSeq(S) : SetToSeq(S)[i] = SetToSeq(S)[j] => i = j
         /\ \A x \in S : \E i \in DOMAIN SetToSeq(S) : SetToSeq(S)[i] = x
<1> DEFINE n == Cardinality(S)
           q == SetToSeq(S)
<1>1. n \in Nat /\ ExistsBijection(1..n, S)
  BY FS_CardinalityType
<1>2. \E g \in [1..n -> S] : IsInjective(g)
  BY <1>1 DEF ExistsBijection, Bijection, Injection
<1>3. q \in [1..n -> S] /\ IsInjective(q)
  BY <1>2, Zenon DEF SetToSeq
<1>4. q \in Injection(1..n, S)
  BY <1>3 DEF Injection
<1>5. Cardinality(1..n) = n
  BY <1>1, FS_Interval
<1> HIDE DEF q
<1>6. q \in Surjection(1..n, S)
  BY <1>4, <1>5, FS_Injection
<1>7. q \in Seq(S) /\ DOMAIN q = 1..n
  BY <1>1, <1>3, SeqDef
<1>8. \A i, j \in DOMAIN q : q[i] = q[j] => i = j
  BY <1>3 DEF IsInjective
<1>9. \A x \in S : \E i \in DOMAIN q : q[i] = x
  BY <1>6, <1>7 DEF Surjection
<1> QED
  BY <1>7, <1>8, <1>9 DEF q

\* The threads of ts that are new are the run's, open and just posted.
Grown(ts, posted) ==
  /\ ts \in Seq(Threads) /\ Len(threads) <= Len(ts)
  /\ \A i \in DOMAIN threads : i \in DOMAIN ts /\ ts[i] = threads[i]
  /\ \A i \in DOMAIN ts \ DOMAIN threads :
       /\ ts[i].finding \in posted /\ ts[i].status = "open"
       /\ ts[i].posted = run.head
       /\ ts[i].lost # 0 => ts[i].lost \in (run.head + 1)..head
  /\ \A i, j \in DOMAIN ts \ DOMAIN threads : ts[i].finding = ts[j].finding => i = j

LEMMA NotGrown ==
  ASSUME TypeOK
  PROVE  Grown(threads, {})
  BY HostFacts DEF TypeOK, Grown

LEMMA NewThreadsFacts ==
  ASSUME TypeOK, NEW posted \in SUBSET Findings, NEW fs \in Seq(posted), NEW tracked \in BOOLEAN,
         \A i, j \in DOMAIN fs : fs[i] = fs[j] => i = j,
         NEW ts \in NewThreads(fs, tracked)
  PROVE  /\ Grown(ts, posted)
         /\ \A i \in DOMAIN fs :
              \E j \in DOMAIN ts : ts[j].finding = fs[i] /\ ts[j].status = "open"
<1>0. /\ threads \in Seq(Threads) /\ Len(threads) \in Nat /\ DOMAIN threads = 1..Len(threads)
      /\ run.head \in Nat /\ head \in Nat /\ Len(fs) \in Nat /\ DOMAIN fs = 1..Len(fs)
  BY HostFacts, LenProperties DEF Runs, TypeOK
<1>1. PICK lost \in [1..Len(fs) -> {0} \cup (run.head + 1)..head] :
        ts = threads \o [i \in 1..Len(fs) |-> Thread(fs[i], run.head, lost[i], tracked)]
  BY DEF NewThreads
<1> DEFINE new == [i \in 1..Len(fs) |-> Thread(fs[i], run.head, lost[i], tracked)]
<1>2. ASSUME NEW i \in 1..Len(fs)
      PROVE  /\ new[i] \in Threads /\ new[i].finding = fs[i] /\ fs[i] \in posted
             /\ new[i].status = "open" /\ new[i].posted = run.head
             /\ new[i].lost # 0 => new[i].lost \in (run.head + 1)..head
  <2>1. fs[i] \in posted /\ lost[i] \in Nat
        /\ (lost[i] # 0 => lost[i] \in (run.head + 1)..head)
    BY <1>0
  <2> QED
    BY <1>0, <2>1 DEF Thread, Threads
<1>3. new \in Seq(Threads) /\ Len(new) = Len(fs) /\ DOMAIN new = 1..Len(fs)
  <2>1. new \in [1..Len(fs) -> Threads]
    BY <1>2
  <2> QED
    BY <1>0, <2>1, SeqDef, LenProperties
<1>4. ts = threads \o new
  BY <1>1
<1> HIDE DEF new
<1>5. /\ ts \in Seq(Threads) /\ Len(ts) = Len(threads) + Len(fs)
      /\ DOMAIN ts = 1..(Len(threads) + Len(fs))
      /\ \A i \in 1..(Len(threads) + Len(fs)) :
           ts[i] = IF i <= Len(threads) THEN threads[i] ELSE new[i - Len(threads)]
  <2>1. /\ ts \in Seq(Threads) /\ Len(ts) = Len(threads) + Len(new)
        /\ \A i \in 1..(Len(threads) + Len(new)) :
             ts[i] = IF i <= Len(threads) THEN threads[i] ELSE new[i - Len(threads)]
    BY <1>0, <1>3, <1>4, ConcatProperties
  <2>2. DOMAIN ts = 1..Len(ts)
    BY <2>1, LenProperties
  <2> QED
    BY <1>3, <2>1, <2>2
<1>6. ASSUME NEW i \in DOMAIN ts \ DOMAIN threads
      PROVE  i - Len(threads) \in 1..Len(fs) /\ ts[i] = new[i - Len(threads)]
  BY <1>0, <1>5
<1>7. \A i, j \in DOMAIN ts \ DOMAIN threads : ts[i].finding = ts[j].finding => i = j
  <2> SUFFICES ASSUME NEW i \in DOMAIN ts \ DOMAIN threads, NEW j \in DOMAIN ts \ DOMAIN threads,
                      ts[i].finding = ts[j].finding
               PROVE  i = j
    OBVIOUS
  <2>1. fs[i - Len(threads)] = fs[j - Len(threads)]
    BY <1>2, <1>6
  <2>2. i - Len(threads) = j - Len(threads)
    BY <1>0, <1>6, <2>1
  <2> QED
    BY <1>0, <1>5, <2>2
<1>8. Grown(ts, posted)
  <2>1. \A i \in DOMAIN threads : i \in DOMAIN ts /\ ts[i] = threads[i]
    BY <1>0, <1>5
  <2>2. \A i \in DOMAIN ts \ DOMAIN threads :
          /\ ts[i].finding \in posted /\ ts[i].status = "open"
          /\ ts[i].posted = run.head
          /\ ts[i].lost # 0 => ts[i].lost \in (run.head + 1)..head
    BY <1>2, <1>6
  <2>3. Len(threads) <= Len(ts)
    BY <1>0, <1>5
  <2> QED
    BY <1>5, <1>7, <2>1, <2>2, <2>3 DEF Grown
<1>9. ASSUME NEW i \in DOMAIN fs
      PROVE  \E j \in DOMAIN ts : ts[j].finding = fs[i] /\ ts[j].status = "open"
  <2>1. Len(threads) + i \in DOMAIN ts /\ Len(threads) + i > Len(threads)
        /\ Len(threads) + i - Len(threads) = i /\ i \in 1..Len(fs)
    BY <1>0, <1>5
  <2>2. ts[Len(threads) + i] = new[i]
    BY <1>0, <1>5, <2>1
  <2> QED
    BY <1>2, <2>1, <2>2
<1> QED
  BY <1>8, <1>9

LEMMA GrownThreads ==
  ASSUME TypeOK, ThreadInv, UNCHANGED head, NEW posted, Grown(threads', posted)
  PROVE  \A i \in DOMAIN threads' :
           /\ threads'[i].posted <= head'
           /\ threads'[i].lost # 0 => threads'[i].lost \in (threads'[i].posted + 1)..head'
<1>1. run.head \in Nat /\ head \in Nat
  BY HostFacts DEF Runs
<1> QED
  BY <1>1 DEF ThreadInv, Grown

\* Findings are posted, and those that are not go into the summary.
LEMMA PostedInv ==
  ASSUME IInv, run.pc = "posting",
         UNCHANGED <<setup, head, linear, notes, runs, covered>>,
         NEW gone \in SUBSET run.todo, NEW posted \in SUBSET gone, Grown(threads', posted),
         run' \in Runs, run'.pc = "posting", run'.head = run.head, run'.since = run.since,
         run'.base = run.base, run'.seen = run.seen, run'.read = run.read,
         run'.known = run.known, run'.found = run.found, run'.complete = run.complete,
         run'.validated = run.validated, run'.todo = run.todo \ gone,
         run.demoted \subseteq run'.demoted,
         \A f \in gone :
           \/ f \in run'.demoted
           \/ \E i \in DOMAIN threads' : threads'[i].finding = f /\ threads'[i].status = "open"
  PROVE  IInv'
<1>0. TypeOK /\ ThreadInv /\ SeenInv /\ PostInv /\ FixInv /\ CoverInv
  BY DEF IInv
<1>1. TypeOK'
  BY <1>0 DEF TypeOK, Grown
<1>2. \A i \in DOMAIN threads : i \in DOMAIN threads' /\ threads'[i] = threads[i]
  BY DEF Grown
<1>3. ThreadInv'
  BY <1>0, GrownThreads DEF ThreadInv
<1>4. SeenInv'
  <2>1. run.base \in Nat /\ Len(threads) \in Nat /\ Len(threads') \in Nat
        /\ Len(threads) <= Len(threads')
    BY <1>0, <1>1, HostFacts DEF Runs, Grown
  <2> QED
    BY <1>0, <1>2, <2>1 DEF SeenInv
<1>5. PostInv'
  <2>1. ASSUME NEW f \in run.found
        PROVE  \/ f \in run'.todo \cup run'.demoted
               \/ \E i \in DOMAIN threads' : threads'[i].finding = f /\ threads'[i].status # "fixed"
    <3>1. CASE f \in gone
      BY <3>1
    <3>2. CASE f \in (run.todo \cup run.demoted) \ gone
      BY <3>2
    <3>3. CASE \E i \in DOMAIN threads : threads[i].finding = f /\ threads[i].status # "fixed"
      BY <1>2, <3>3
    <3> QED
      BY <1>0, <3>1, <3>2, <3>3 DEF PostInv
  <2>2. ASSUME NEW j \in DOMAIN threads', threads'[j].finding \in run'.todo,
               threads'[j].status = "open"
        PROVE  j <= run.base /\ ~(run.known /\ run.read)
    <3>1. j \in DOMAIN threads
      BY <2>2 DEF Grown
    <3> QED
      BY <1>0, <1>2, <2>2, <3>1 DEF PostInv
  <2>3. forge # "gitlab" =>
          \A j \in DOMAIN run.seen :
            run.seen[j].finding \in run'.todo => run.seen[j].status = "fixed"
    BY <1>0 DEF PostInv
  <2> QED
    BY <2>1, <2>2, <2>3 DEF PostInv, forge
<1>6. FixInv'
  BY <1>0, <1>2 DEF FixInv, forge, Worth
<1>7. CoverInv'
  BY <1>0 DEF CoverInv, Pushes, Ahead
<1>8. SummaryIsBacked'
  BY DEF SummaryIsBacked
<1> QED
  BY <1>1, <1>3, <1>4, <1>5, <1>6, <1>7, <1>8 DEF IInv

\* A run is over, or fails, with whatever it has posted.
LEMMA StoppedInv ==
  ASSUME IInv, UNCHANGED <<setup, head, linear, runs, covered>>,
         NEW posted, Grown(threads', posted), NEW known \in BOOLEAN,
         run' = Idle \/ run' = [Idle EXCEPT !.pc = "failing", !.known = known],
         notes' \in Seq(Notes),
         \A n \in DOMAIN notes' :
           notes'[n].stamp <= head /\ Pushes(notes'[n].stamp) \subseteq covered
  PROVE  IInv'
<1>0. TypeOK /\ ThreadInv /\ head \in Nat /\ Len(threads') \in Nat
  BY HostFacts, LenProperties DEF IInv, Grown
<1>1. /\ run' \in Runs /\ run'.pc \in {"idle", "failing"} /\ run'.head = 0 /\ run'.since = 0
      /\ run'.base = 0 /\ run'.seen = <<>>
  <2>1. CASE run' = Idle
    BY <2>1, IdleType DEF Idle
  <2>2. CASE run' = [Idle EXCEPT !.pc = "failing", !.known = known]
    BY <2>2, IdleType DEF Idle, Runs, PCs
  <2> QED
    BY <2>1, <2>2
<1>2. TypeOK'
  BY <1>0, <1>1 DEF TypeOK, Grown
<1>3. ThreadInv'
  BY <1>0, <1>1, GrownThreads DEF ThreadInv
<1>4. SeenInv'
  BY <1>0, <1>1, EmptySeq DEF SeenInv
<1>5. PostInv' /\ FixInv' /\ SummaryIsBacked'
  BY <1>1 DEF PostInv, FixInv, SummaryIsBacked
<1>6. CoverInv'
  <2>1. Pushes(0) = {}
    BY DEF Pushes
  <2> QED
    BY <1>0, <1>1, <2>1 DEF CoverInv, Pushes, Ahead
<1> QED
  BY <1>2, <1>3, <1>4, <1>5, <1>6 DEF IInv

LEMMA RestInv ==
  ASSUME IInv, End \/ Fail \/ Crash
  PROVE  IInv'
<1>1. /\ UNCHANGED <<setup, head, linear, threads, notes, runs, covered>>
      /\ run' = Idle \/ run' = [Idle EXCEPT !.pc = "failing", !.known = run.known]
  BY DEF End, Fail, Crash, Becomes, Failing
<1>2. Grown(threads', {}) /\ notes' \in Seq(Notes) /\ run.known \in BOOLEAN
  BY <1>1, NotGrown, HostFacts DEF IInv, TypeOK, Runs
<1> QED
  BY <1>1, <1>2, StoppedInv DEF IInv, CoverInv

\* A finding has its thread when one is posted for it, or one for each.
LEMMA OneGrows ==
  ASSUME TypeOK, NEW f \in run.todo,
         \E tracked \in BOOLEAN : threads' \in NewThreads(<<f>>, tracked)
  PROVE  /\ Grown(threads', {f})
         /\ \E j \in DOMAIN threads' : threads'[j].finding = f /\ threads'[j].status = "open"
<1>0. {f} \in SUBSET Findings
  BY HostFacts DEF Runs
<1>1. PICK tracked \in BOOLEAN : threads' \in NewThreads(<<f>>, tracked)
  OBVIOUS
<1> DEFINE fs == <<f>>
           ts == threads'
<1>2. fs \in Seq({f}) /\ DOMAIN fs = {1} /\ fs[1] = f /\ ts \in NewThreads(fs, tracked)
  BY <1>1
<1> HIDE DEF fs, ts
<1>3. /\ Grown(ts, {f})
      /\ \E j \in DOMAIN ts : ts[j].finding = f /\ ts[j].status = "open"
  BY <1>0, <1>2, NewThreadsFacts
<1> QED
  BY <1>3 DEF ts

LEMMA AllGrow ==
  ASSUME TypeOK, threads' \in NewThreads(SetToSeq(run.todo), TRUE)
  PROVE  /\ Grown(threads', run.todo)
         /\ \A f \in run.todo :
              \E j \in DOMAIN threads' : threads'[j].finding = f /\ threads'[j].status = "open"
<1>0. run.todo \in SUBSET Findings /\ IsFiniteSet(run.todo)
  <2>1. run.todo \in SUBSET Findings
    BY HostFacts DEF Runs
  <2> QED
    BY <2>1, FS_Subset, ForgeAssumption DEF ForgeAssumption
<1> DEFINE fs == SetToSeq(run.todo)
           ts == threads'
<1>1. /\ fs \in Seq(run.todo)
      /\ \A i, j \in DOMAIN fs : fs[i] = fs[j] => i = j
      /\ \A x \in run.todo : \E i \in DOMAIN fs : fs[i] = x
  BY <1>0, SetToSeqFacts
<1>2. PICK tracked \in BOOLEAN : ts \in NewThreads(fs, tracked)
  OBVIOUS
<1> HIDE DEF fs, ts
<1>3. /\ Grown(ts, run.todo)
      /\ \A i \in DOMAIN fs : \E j \in DOMAIN ts : ts[j].finding = fs[i] /\ ts[j].status = "open"
  BY <1>0, <1>1, <1>2, NewThreadsFacts
<1> QED
  BY <1>1, <1>3 DEF ts

LEMMA PostOneInv ==
  ASSUME IInv, run.pc = "posting", NEW f \in run.todo,
         UNCHANGED <<setup, head, linear, notes, runs, covered>>,
         \/ threads' = threads
         \/ \E tracked \in BOOLEAN : threads' \in NewThreads(<<f>>, tracked),
         run' = Demoted(f) \/ (run' = Done(f) /\ threads' # threads)
  PROVE  IInv'
<1>0. TypeOK /\ run \in Runs /\ f \in Findings
  BY HostFacts DEF IInv, Runs
<1>1. /\ run' \in Runs /\ run'.pc = "posting" /\ run'.head = run.head /\ run'.since = run.since
      /\ run'.base = run.base /\ run'.seen = run.seen /\ run'.read = run.read
      /\ run'.known = run.known /\ run'.found = run.found /\ run'.complete = run.complete
      /\ run'.validated = run.validated /\ run'.todo = run.todo \ {f}
      /\ run.demoted \subseteq run'.demoted
      /\ f \in run'.demoted \/ threads' # threads
  <2>1. CASE run' = Demoted(f)
    BY <1>0, <2>1 DEF Demoted, Runs
  <2>2. CASE run' = Done(f) /\ threads' # threads
    BY <1>0, <2>2 DEF Done, Runs
  <2> QED
    BY <2>1, <2>2
<1>2. CASE threads' = threads
  BY <1>0, <1>1, <1>2, NotGrown, PostedInv
<1>3. CASE \E tracked \in BOOLEAN : threads' \in NewThreads(<<f>>, tracked)
  <2>1. /\ Grown(threads', {f})
        /\ \E j \in DOMAIN threads' : threads'[j].finding = f /\ threads'[j].status = "open"
    BY <1>0, <1>3, OneGrows
  <2>2. {f} \in SUBSET run.todo /\ {f} \in SUBSET {f}
    OBVIOUS
  <2> QED
    BY <1>1, <2>1, <2>2, PostedInv
<1> QED
  BY <1>2, <1>3

LEMMA PostInvs ==
  ASSUME IInv, NEW f \in Findings, PostDiscussion(f) \/ PostFindingThread(f)
  PROVE  IInv'
<1>0. TypeOK /\ Len(threads) \in Nat
  BY HostFacts DEF IInv
<1>1. /\ run.pc = "posting" /\ f \in run.todo
      /\ UNCHANGED <<setup, head, linear, notes, runs, covered>>
      /\ \/ threads' = threads
         \/ \E tracked \in BOOLEAN : threads' \in NewThreads(<<f>>, tracked)
      /\ \/ run' = Demoted(f)
         \/ /\ run' = Done(f)
            /\ \E tracked \in BOOLEAN : threads' \in NewThreads(<<f>>, tracked)
  BY DEF PostDiscussion, PostFindingThread, Becomes
<1>2. ASSUME NEW tracked \in BOOLEAN, threads' \in NewThreads(<<f>>, tracked)
      PROVE  threads' # threads
  <2>1. PICK lost \in [1..Len(<<f>>) -> {0} \cup (run.head + 1)..head] :
          threads' = threads \o [i \in 1..Len(<<f>>) |-> Thread(f, run.head, lost[i], tracked)]
    BY <1>2 DEF NewThreads
  <2> QED
    BY <2>1
<1> QED
  BY <1>0, <1>1, <1>2, PostOneInv

LEMMA PostReviewInv ==
  ASSUME IInv, PostReview
  PROVE  IInv'
<1>0. TypeOK /\ CoverInv /\ run \in Runs /\ notes \in Seq(Notes) /\ run.known \in BOOLEAN
  BY HostFacts DEF IInv, TypeOK, Runs
<1>1. /\ run.pc = "posting" /\ UNCHANGED <<setup, head, linear, notes, runs, covered>>
      /\ threads' \in NewThreads(SetToSeq(run.todo), TRUE)
      /\ run' = [run EXCEPT !.todo = {}] \/ run' = Failing
  BY DEF PostReview
<1>2. /\ Grown(threads', run.todo)
      /\ \A f \in run.todo :
           \E j \in DOMAIN threads' : threads'[j].finding = f /\ threads'[j].status = "open"
  BY <1>0, <1>1, AllGrow
<1>3. CASE run' = [run EXCEPT !.todo = {}]
  <2>1. /\ run' \in Runs /\ run'.pc = "posting" /\ run'.head = run.head
        /\ run'.since = run.since /\ run'.base = run.base /\ run'.seen = run.seen
        /\ run'.read = run.read /\ run'.known = run.known /\ run'.found = run.found
        /\ run'.complete = run.complete /\ run'.validated = run.validated
        /\ run'.todo = run.todo \ run.todo /\ run'.demoted = run.demoted
    BY <1>0, <1>1, <1>3 DEF Runs
  <2>2. run.todo \in SUBSET run.todo
    OBVIOUS
  <2> QED
    BY <1>1, <1>2, <2>1, <2>2, PostedInv
<1>4. CASE run' = Failing
  BY <1>0, <1>1, <1>2, <1>4, StoppedInv DEF Failing, CoverInv
<1> QED
  BY <1>1, <1>3, <1>4

-------------------------------------------------------------------------------
(* Its summary *)

LEMMA MaxOfTwo ==
  ASSUME NEW m \in Nat, NEW n \in Nat
  PROVE  Max({m, n}) = IF m <= n THEN n ELSE m
<1> DEFINE best(x) == x \in {m, n} /\ \A y \in {m, n} : x >= y
<1>1. Max({m, n}) = CHOOSE x \in {m, n} : \A y \in {m, n} : x >= y
  BY DEF Max
<1>2. \E x \in {m, n} : \A y \in {m, n} : x >= y
  OBVIOUS
<1>3. Max({m, n}) \in {m, n} /\ \A y \in {m, n} : Max({m, n}) >= y
  BY <1>1, <1>2, Zenon
<1> QED
  BY <1>3

\* A note takes the place of one of ours, or comes after them all.
LEMMA NoteFacts ==
  ASSUME TypeOK, NEW n \in 1..Fresh, NEW note \in Notes, Note(n, note)
  PROVE  /\ notes' \in Seq(Notes) /\ n \in DOMAIN notes' /\ notes'[n] = note
         /\ \A m \in DOMAIN notes' : m = n \/ (m \in DOMAIN notes /\ notes'[m] = notes[m])
<1>0. Len(notes) \in Nat /\ DOMAIN notes = 1..Len(notes) /\ notes \in [1..Len(notes) -> Notes]
  BY HostFacts
<1> DEFINE k == IF n <= Len(notes) THEN Len(notes) ELSE n
<1>1. k \in Nat /\ n \in 1..k /\ \A m \in 1..k : m = n \/ m \in 1..Len(notes)
  BY <1>0 DEF Fresh
<1>2. notes' = [m \in 1..k |-> IF m = n THEN note ELSE notes[m]]
  BY <1>0, MaxOfTwo DEF Note, Fresh
<1> HIDE DEF k
<1>3. notes' \in [1..k -> Notes]
  BY <1>0, <1>1, <1>2
<1>4. notes' \in Seq(Notes)
  BY <1>1, <1>3, SeqDef
<1> QED
  BY <1>0, <1>1, <1>2, <1>4

LEMMA TargetsFacts ==
  ASSUME TypeOK, NEW n \in Targets
  PROVE  n \in 1..Fresh
<1>0. Len(notes) \in Nat /\ (notes # <<>> => Len(notes) # 0)
  BY EmptySeq DEF TypeOK
<1>1. CASE forge = "gitlab"
  BY <1>0, <1>1 DEF Targets, NoteGitLab, Fresh
<1>2. CASE forge = "gitea"
  BY <1>0, <1>2 DEF Targets, NoteGitea, Fresh
<1>3. CASE forge = "azure"
  BY <1>0, <1>3 DEF Targets, NoteAzure, Fresh
<1> QED
  BY <1>1, <1>2, <1>3, SetupFacts

\* A watermark, set or carried, is one that complete reviews have covered.
LEMMA StampFacts ==
  ASSUME IInv
  PROVE  /\ \A stamp \in Carried : stamp \in Nat /\ stamp <= head /\ Pushes(stamp) \subseteq covered
         /\ run.pc = "posting" =>
              \A stamp \in Stamps :
                stamp \in Nat /\ stamp <= head /\ Pushes(stamp) \subseteq covered
<1>0. /\ TypeOK /\ ThreadInv /\ CoverInv /\ head \in Nat /\ run.head \in Nat
      /\ Len(notes) \in Nat /\ DOMAIN notes = 1..Len(notes)
      /\ notes \in [1..Len(notes) -> Notes] /\ (notes # <<>> => Len(notes) # 0)
  BY HostFacts, EmptySeq DEF IInv, Runs, TypeOK
<1>1. Pushes(0) = {}
  BY DEF Pushes
<1>2. ASSUME NEW stamp \in Carried
      PROVE  stamp \in Nat /\ stamp <= head /\ Pushes(stamp) \subseteq covered
  <2>1. CASE stamp = 0
    BY <1>0, <1>1, <2>1
  <2>2. CASE stamp # 0
    <3>1. notes # <<>> /\ stamp = notes[Len(notes)].stamp
      BY <2>2 DEF Carried
    <3>2. Len(notes) \in DOMAIN notes /\ notes[Len(notes)] \in Notes
      BY <1>0, <3>1
    <3> QED
      BY <1>0, <3>1, <3>2 DEF CoverInv, Notes
  <2> QED
    BY <2>1, <2>2
<1>3. ASSUME run.pc = "posting", NEW stamp \in Stamps
      PROVE  stamp \in Nat /\ stamp <= head /\ Pushes(stamp) \subseteq covered
  <2>1. CASE forge = "gitlab" /\ run.complete
    BY <1>0, <1>3, <2>1 DEF Stamps, ThreadInv, CoverInv
  <2>2. CASE ~(forge = "gitlab" /\ run.complete)
    BY <1>2, <1>3, <2>2 DEF Stamps
  <2> QED
    BY <2>1, <2>2
<1> QED
  BY <1>2, <1>3

LEMMA FixedFacts ==
  ASSUME IInv, run.pc = "posting", NEW i \in Fixed
  PROVE  /\ i \in Nat /\ run.complete /\ Worth(i)
         /\ run.since # 0 => FileOf[threads[i].finding] \in run.scope
<1>0. TypeOK /\ SeenInv /\ FixInv /\ DOMAIN threads = 1..Len(threads) /\ run.complete
  BY HostFacts DEF IInv, Fixed
<1>1. CASE forge = "gitlab"
  <2>1. i \in run.validated /\ FileOf[run.seen[i].finding] \in run.scope
    BY <1>0, <1>1 DEF Fixed, FixedGitLab
  <2>2. i \in DOMAIN run.seen /\ Worth(i)
    BY <1>0, <2>1 DEF FixInv
  <2> QED
    BY <1>0, <2>1, <2>2 DEF SeenInv, Worth
<1>2. CASE forge # "gitlab"
  <2>1. i \in DOMAIN run.seen /\ run.seen[i].finding \notin run.found /\ LineChanged(i)
    BY <1>0, <1>2, SetupFacts DEF Fixed, FixedGitea, FixedAzure, OutdatedAzure, Seen
  <2> QED
    BY <1>0, <1>2, <2>1 DEF SeenInv, Worth, LineChanged, FixInv
<1> QED
  BY <1>1, <1>2

LEMMA SummaryInv ==
  ASSUME IInv, Summary
  PROVE  IInv'
<1>0. TypeOK /\ ThreadInv /\ SeenInv /\ PostInv /\ FixInv /\ CoverInv /\ run \in Runs
      /\ Len(notes) \in Nat
  BY HostFacts DEF IInv
<1>1. /\ run.pc = "posting" /\ run.todo = {}
      /\ UNCHANGED <<setup, head, linear, threads, runs, covered>>
  BY DEF Summary
<1>2. PICK n \in Targets, stamp \in Stamps, tofix \in {{}, Fixed} :
        /\ Note(n, [stamp |-> stamp, listed |-> run.demoted])
        /\ run' = [run EXCEPT !.pc = "resolving", !.note = n, !.tofix = tofix,
                              !.seen = <<>>, !.demoted = {}, !.validated = {}]
  BY DEF Summary, Becomes
<1> DEFINE note == [stamp |-> stamp, listed |-> run.demoted]
<1>3. n \in 1..Fresh /\ n \in Nat
  BY <1>0, TargetsFacts DEF Fresh
<1>4. stamp \in Nat /\ stamp <= head /\ Pushes(stamp) \subseteq covered
  BY <1>1, StampFacts
<1>5. note \in Notes /\ note.stamp = stamp /\ note.listed = run.demoted
  BY <1>0, <1>4 DEF Notes, Runs
<1>6. Note(n, note)
  BY <1>2
<1> HIDE DEF note
<1>7. /\ notes' \in Seq(Notes) /\ n \in DOMAIN notes' /\ notes'[n] = note
      /\ \A m \in DOMAIN notes' : m = n \/ (m \in DOMAIN notes /\ notes'[m] = notes[m])
  BY <1>0, <1>3, <1>5, <1>6, NoteFacts
<1>8. /\ tofix \subseteq Nat
      /\ \A i \in tofix : /\ run.complete /\ Worth(i)
                          /\ run.since # 0 => FileOf[threads[i].finding] \in run.scope
  BY <1>1, FixedFacts
<1>9. /\ run' \in Runs /\ run'.pc = "resolving" /\ run'.head = run.head /\ run'.since = run.since
      /\ run'.base = run.base /\ run'.seen = <<>> /\ run'.note = n /\ run'.tofix = tofix
      /\ run'.found = run.found /\ run'.complete = run.complete /\ run'.scope = run.scope
  <2>1. <<>> \in Seq(Threads)
    BY EmptySeq
  <2> QED
    BY <1>0, <1>2, <1>3, <1>8, <2>1 DEF Runs, PCs
<1>10. TypeOK' /\ ThreadInv'
  BY <1>0, <1>1, <1>7, <1>9 DEF TypeOK, ThreadInv
<1>11. SeenInv'
  BY <1>0, <1>1, <1>9, EmptySeq DEF SeenInv
<1>12. PostInv'
  BY <1>7, <1>9 DEF PostInv
<1>13. FixInv'
  BY <1>0, <1>1, <1>8, <1>9 DEF FixInv, forge, Worth
<1>14. CoverInv'
  <2>1. \A m \in DOMAIN notes' :
          notes'[m].stamp <= head /\ Pushes(notes'[m].stamp) \subseteq covered
    BY <1>0, <1>4, <1>5, <1>7 DEF CoverInv
  <2>2. run.since <= head /\ Pushes(run.since) \subseteq covered
    BY <1>0 DEF CoverInv
  <2> QED
    BY <1>1, <1>9, <2>1, <2>2 DEF CoverInv, Pushes, Ahead
<1>15. SummaryIsBacked'
  <2>1. ASSUME NEW f \in run.found
        PROVE  \/ \E i \in DOMAIN threads : threads[i].finding = f /\ threads[i].status # "fixed"
               \/ f \in notes'[n].listed
    BY <1>0, <1>1, <1>5, <1>7 DEF PostInv
  <2> QED
    BY <1>1, <1>9, <2>1 DEF SummaryIsBacked, OnHost
<1> QED
  BY <1>10, <1>11, <1>12, <1>13, <1>14, <1>15 DEF IInv

-------------------------------------------------------------------------------
(* The threads that are fixed, and the runs that do not get there *)

\* One of the threads to be resolved is, or is left; and maybe all the others are.
LEMMA ResolvedInv ==
  ASSUME IInv, run.pc = "resolving", NEW i \in run.tofix,
         UNCHANGED <<setup, head, linear, notes, runs, covered>>,
         threads' = threads \/ SetFixed(i),
         NEW tofix \in SUBSET run.tofix, run' = [run EXCEPT !.tofix = tofix]
  PROVE  IInv'
<1>0. /\ TypeOK /\ ThreadInv /\ SeenInv /\ PostInv /\ FixInv /\ CoverInv /\ SummaryIsBacked
      /\ run \in Runs /\ DOMAIN threads = 1..Len(threads) /\ run.tofix \subseteq Nat
  BY HostFacts DEF IInv, Runs
<1>1. /\ run' \in Runs /\ run'.pc = "resolving" /\ run'.head = run.head /\ run'.since = run.since
      /\ run'.base = run.base /\ run'.seen = <<>> /\ run'.note = run.note /\ run'.tofix = tofix
      /\ run'.found = run.found /\ run'.complete = run.complete /\ run'.scope = run.scope
  BY <1>0 DEF Runs, SeenInv
<1>2. /\ threads' \in Seq(Threads) /\ Len(threads') = Len(threads)
      /\ \A j \in DOMAIN threads :
           /\ threads'[j].finding = threads[j].finding
           /\ threads'[j].posted = threads[j].posted
           /\ threads'[j].lost = threads[j].lost
           /\ j # i => threads'[j].status = threads[j].status
  <2>1. CASE threads' = threads
    BY <1>0, <2>1 DEF TypeOK
  <2>2. CASE SetFixed(i)
    <3> DEFINE t == [threads[i] EXCEPT !.status = "fixed"]
    <3>1. i \in DOMAIN threads /\ threads[i] \in Threads
      BY <1>0, HostFacts DEF FixInv, Worth
    <3>2. t \in Threads /\ t.finding = threads[i].finding /\ t.posted = threads[i].posted
          /\ t.lost = threads[i].lost
      BY <3>1 DEF Threads
    <3>3. threads' = [threads EXCEPT ![i] = t]
      BY <2>2 DEF SetFixed
    <3> HIDE DEF t
    <3>4. /\ threads' \in Seq(Threads) /\ Len(threads') = Len(threads)
          /\ \A j \in DOMAIN threads : threads'[j] = IF j = i THEN t ELSE threads[j]
      BY <1>0, <3>1, <3>2, <3>3, ExceptSeq DEF TypeOK
    <3> QED
      BY <3>2, <3>4
  <2> QED
    BY <2>1, <2>2
<1>3. DOMAIN threads' = DOMAIN threads
  BY <1>0, <1>2, LenProperties
<1>4. TypeOK' /\ ThreadInv'
  BY <1>0, <1>1, <1>2, <1>3 DEF TypeOK, ThreadInv
<1>5. SeenInv' /\ PostInv'
  BY <1>0, <1>1, <1>2, EmptySeq DEF SeenInv, PostInv
<1>6. FixInv'
  BY <1>0, <1>1, <1>2, <1>3 DEF FixInv, forge, Worth
<1>7. CoverInv'
  BY <1>0, <1>1 DEF CoverInv, Pushes, Ahead
<1>8. SummaryIsBacked'
  <2>1. threads[i].finding \notin run.found
    BY <1>0 DEF FixInv, Worth
  <2>2. ASSUME NEW f \in run.found PROVE OnHost(f)'
    BY <1>0, <1>1, <1>2, <1>3, <2>1 DEF SummaryIsBacked, OnHost
  <2> QED
    BY <1>1, <2>2 DEF SummaryIsBacked
<1> QED
  BY <1>4, <1>5, <1>6, <1>7, <1>8 DEF IInv

LEMMA ResolveInv ==
  ASSUME IInv, NEW i, ResolveGitLab(i) \/ ResolveGitea(i) \/ ResolveAzure(i)
  PROVE  IInv'
<1>1. /\ run.pc = "resolving" /\ i \in run.tofix
      /\ UNCHANGED <<setup, head, linear, notes, runs, covered>>
      /\ threads' = threads \/ SetFixed(i)
      /\ \E tofix \in SUBSET run.tofix : run' = [run EXCEPT !.tofix = tofix]
  <2>1. run.tofix \ {i} \in SUBSET run.tofix /\ {} \in SUBSET run.tofix
    OBVIOUS
  <2> QED
    BY <2>1 DEF ResolveGitLab, ResolveGitea, ResolveAzure, Settled, Refused, Becomes
<1> QED
  BY <1>1, ResolvedInv

LEMMA NoticeInv ==
  ASSUME IInv, Notice
  PROVE  IInv'
<1>0. TypeOK /\ CoverInv /\ run.known \in BOOLEAN /\ Grown(threads, {})
  BY HostFacts, NotGrown DEF IInv, Runs
<1>1. UNCHANGED <<setup, head, linear, threads, runs, covered>> /\ run' = Idle
  BY DEF Notice, Becomes
<1>2. CASE UNCHANGED notes
  BY <1>0, <1>1, <1>2, StoppedInv DEF CoverInv, TypeOK
<1>3. CASE \E n \in Targets, carried \in Carried : Note(n, [stamp |-> carried, listed |-> {}])
  <2>1. PICK n \in Targets, carried \in Carried : Note(n, [stamp |-> carried, listed |-> {}])
    BY <1>3
  <2> DEFINE note == [stamp |-> carried, listed |-> {}]
  <2>2. n \in 1..Fresh
    BY <1>0, TargetsFacts
  <2>3. carried \in Nat /\ carried <= head /\ Pushes(carried) \subseteq covered
    BY StampFacts
  <2>4. note \in Notes /\ note.stamp = carried
    BY <2>3 DEF Notes
  <2>5. Note(n, note)
    BY <2>1
  <2> HIDE DEF note
  <2>6. /\ notes' \in Seq(Notes) /\ n \in DOMAIN notes' /\ notes'[n] = note
        /\ \A m \in DOMAIN notes' : m = n \/ (m \in DOMAIN notes /\ notes'[m] = notes[m])
    BY <1>0, <2>2, <2>4, <2>5, NoteFacts
  <2>7. \A m \in DOMAIN notes' :
          notes'[m].stamp <= head /\ Pushes(notes'[m].stamp) \subseteq covered
    BY <1>0, <2>3, <2>4, <2>6 DEF CoverInv
  <2> QED
    BY <1>0, <1>1, <2>6, <2>7, StoppedInv
<1> QED
  BY <1>2, <1>3 DEF Notice

LEMMA NextInv ==
  ASSUME IInv, [Next]_vars
  PROVE  IInv'
<1>1. setup.findings \subseteq Findings
  BY SetupFacts DEF IInv
<1>2. CASE Push
  BY <1>2, PushInv
<1>3. CASE Begin \/ Review \/ ReadThreads
  BY <1>3, BeginInv, ReviewInv, ReadThreadsInv
<1>4. CASE \E f \in setup.findings : PostDiscussion(f) \/ PostFindingThread(f)
  BY <1>1, <1>4, PostInvs
<1>5. CASE PostReview \/ Summary
  BY <1>5, PostReviewInv, SummaryInv
<1>6. CASE \E i \in DOMAIN threads :
             Dismiss(i) \/ ResolveGitLab(i) \/ ResolveGitea(i) \/ ResolveAzure(i)
  BY <1>6, DismissInv, ResolveInv
<1>7. CASE End \/ Fail \/ Notice \/ Crash
  BY <1>7, RestInv, NoticeInv
<1>8. CASE UNCHANGED vars
  BY <1>8 DEF vars, IInv, TypeOK, ThreadInv, SeenInv, PostInv, FixInv, CoverInv,
              SummaryIsBacked, OnHost, Worth, forge, Pushes, Ahead
<1> QED
  BY <1>2, <1>3, <1>4, <1>5, <1>6, <1>7, <1>8 DEF Next

-------------------------------------------------------------------------------
(* What becomes of the threads in a step *)

LEMMA StepOfThreads ==
  ASSUME IInv, [Next]_vars
  PROVE  \/ Grown(threads', {})
         \/ run.pc = "posting" /\ Grown(threads', run.todo)
         \/ /\ DOMAIN threads' = DOMAIN threads
            /\ \A i \in DOMAIN threads :
                 \/ threads'[i].status = threads[i].status
                 \/ threads'[i].status = "dismissed"
                 \/ run.pc = "resolving" /\ i \in run.tofix
<1>0. TypeOK
  BY DEF IInv
<1>1. CASE Push
  BY <1>0, <1>1, HostFacts DEF Push, Threads
<1>2. CASE \E f \in setup.findings : PostDiscussion(f) \/ PostFindingThread(f)
  <2>1. PICK f \in run.todo : \/ threads' = threads
                              \/ \E tracked \in BOOLEAN : threads' \in NewThreads(<<f>>, tracked)
    BY <1>2 DEF PostDiscussion, PostFindingThread
  <2>2. run.pc = "posting"
    BY <1>2 DEF PostDiscussion, PostFindingThread
  <2>3. CASE threads' = threads
    BY <1>0, <2>3, NotGrown
  <2>4. CASE \E tracked \in BOOLEAN : threads' \in NewThreads(<<f>>, tracked)
    <3>1. Grown(threads', {f})
      BY <1>0, <2>4, OneGrows
    <3> QED
      BY <2>2, <3>1 DEF Grown
  <2> QED
    BY <2>1, <2>3, <2>4
<1>3. CASE PostReview
  BY <1>0, <1>3, AllGrow DEF PostReview
<1>4. CASE \E i \in DOMAIN threads : Dismiss(i)
  <2>1. PICK i \in DOMAIN threads : threads' = [threads EXCEPT ![i].status = "dismissed"]
    BY <1>4 DEF Dismiss
  <2>2. threads[i] \in Threads
    BY <1>0, HostFacts
  <2> QED
    BY <2>1, <2>2 DEF Threads
<1>5. CASE \E i \in DOMAIN threads : ResolveGitLab(i) \/ ResolveGitea(i) \/ ResolveAzure(i)
  <2>1. PICK k \in DOMAIN threads : ResolveGitLab(k) \/ ResolveGitea(k) \/ ResolveAzure(k)
    BY <1>5
  <2>2. run.pc = "resolving" /\ k \in run.tofix /\ (threads' = threads \/ SetFixed(k))
    BY <2>1 DEF ResolveGitLab, ResolveGitea, ResolveAzure, Refused
  <2>3. \A j \in DOMAIN threads : threads[j] \in Threads
    BY <1>0, HostFacts
  <2> QED
    BY <2>2, <2>3 DEF SetFixed, Threads
<1>6. CASE UNCHANGED threads
  BY <1>0, <1>6, NotGrown
<1>7. Begin \/ Review \/ ReadThreads \/ Summary \/ End \/ Fail \/ Notice \/ Crash => UNCHANGED threads
  BY DEF Begin, Review, ReadThreads, Summary, End, Fail, Notice, Crash
<1> QED
  BY <1>1, <1>2, <1>3, <1>4, <1>5, <1>6, <1>7 DEF Next, vars

LEMMA NoSecond ==
  ASSUME IInv, [Next]_vars, NEW i \in DOMAIN threads' \ DOMAIN threads
  PROVE  /\ \A j \in DOMAIN threads' \ {i} :
              threads'[j].finding = threads'[i].finding /\ threads'[j].status = "open" =>
                /\ j \in 1..run.base
                /\ ~(run.known /\ run.read)
         /\ forge # "gitlab" /\ run.known /\ run.read =>
              \A j \in Seen : run.seen[j].finding = threads'[i].finding =>
                                run.seen[j].status # "dismissed"
<1>1. /\ TypeOK /\ PostInv /\ DOMAIN threads = 1..Len(threads) /\ run.base \in Nat
      /\ Len(threads) \in Nat
  BY HostFacts DEF IInv, Runs
<1>2. run.pc = "posting" /\ Grown(threads', run.todo)
  BY StepOfThreads DEF Grown
<1>3. threads'[i].finding \in run.todo
  BY <1>2 DEF Grown
<1>4. ASSUME NEW j \in DOMAIN threads' \ {i},
             threads'[j].finding = threads'[i].finding, threads'[j].status = "open"
      PROVE  j \in 1..run.base /\ ~(run.known /\ run.read)
  <2>1. j \in DOMAIN threads /\ threads[j] = threads'[j]
    BY <1>2, <1>4 DEF Grown
  <2> QED
    BY <1>1, <1>2, <1>3, <1>4, <2>1 DEF PostInv
<1>5. forge # "gitlab" =>
        \A j \in Seen : run.seen[j].finding = threads'[i].finding => run.seen[j].status = "fixed"
  BY <1>1, <1>2, <1>3 DEF PostInv, Seen
<1> QED
  BY <1>4, <1>5

LEMMA Earned ==
  ASSUME IInv, [Next]_vars, NEW i \in DOMAIN threads,
         threads[i].status # "fixed", threads'[i].status = "fixed"
  PROVE  /\ run.complete /\ run.note # 0
         /\ threads[i].finding \notin run.found
         /\ threads[i].lost \in (threads[i].posted + 1)..run.head
         /\ run.since # 0 => FileOf[threads[i].finding] \in run.scope
<1>1. /\ TypeOK /\ ThreadInv /\ PostInv /\ FixInv /\ DOMAIN notes = 1..Len(notes)
      /\ run.head \in Nat /\ threads[i] \in Threads
  BY HostFacts DEF IInv, Runs
<1>2. run.pc = "resolving" /\ i \in run.tofix
  BY StepOfThreads DEF Grown
<1> QED
  BY <1>1, <1>2 DEF ThreadInv, PostInv, FixInv, Worth, Threads

-------------------------------------------------------------------------------
(* The theorems *)

\* The inductive invariant holds throughout: what runs know of the threads, what
\* is left to post and to resolve, and what has been covered, on each host.
THEOREM Invariance == Spec => []IInv
<1>1. IInv /\ [Next]_vars => IInv'
  BY NextInv
<1> QED
  BY <1>1, InitInv, PTL DEF Spec

\* Every variable keeps its type.
THEOREM TypeCorrect == Spec => []TypeOK
<1>1. IInv => TypeOK
  BY DEF IInv
<1> QED
  BY <1>1, Invariance, PTL

\* What a summary stands for is there, whatever was refused, lost, resolved,
\* dismissed or pushed: each finding of its run, and each commit its watermark
\* says has been seen.
THEOREM SummariesHold == Spec => []SummariesAreTrue
<1>1. IInv => SummariesAreTrue
  BY DEF IInv, CoverInv, SummariesAreTrue, WatermarkCovers
<1> QED
  BY <1>1, Invariance, PTL

\* No finding gets a second open thread that its run could have known of.
THEOREM OneThreadEach == Spec => NoSecondThread
<1>1. IInv /\ [Next]_vars =>
        [\A i \in DOMAIN threads' \ DOMAIN threads :
           /\ \A j \in DOMAIN threads' \ {i} :
                threads'[j].finding = threads'[i].finding /\ threads'[j].status = "open" =>
                  /\ j \in 1..run.base
                  /\ ~(run.known /\ run.read)
           /\ forge # "gitlab" /\ run.known /\ run.read =>
                \A j \in Seen : run.seen[j].finding = threads'[i].finding =>
                                  run.seen[j].status # "dismissed"]_vars
  BY NoSecond
<1> QED
  BY <1>1, Invariance, PTL DEF Spec, NoSecondThread

\* A thread that a run resolves is one whose finding is gone in the head it
\* reviewed, in a review that was complete and has been posted.
THEOREM FixesAreEarned == Spec => FixedIsEarned
<1>1. IInv /\ [Next]_vars =>
        [\A i \in DOMAIN threads :
           threads[i].status # "fixed" /\ threads'[i].status = "fixed" =>
             /\ run.complete /\ run.note # 0
             /\ threads[i].finding \notin run.found
             /\ threads[i].lost \in (threads[i].posted + 1)..run.head
             /\ run.since # 0 => FileOf[threads[i].finding] \in run.scope]_vars
  BY Earned
<1> QED
  BY <1>1, Invariance, PTL DEF Spec, FixedIsEarned

===============================================================================
