----------------------------- MODULE PostingProofs -----------------------------
(***************************************************************************)
(* Theorems about Posting, for any number of heads, runs, jobs and         *)
(* findings, one run after another or side by side.                        *)
(***************************************************************************)
EXTENDS Posting, TLAPS, FiniteSetTheorems, SequenceTheorems

LEMMA SetupFacts ==
  ASSUME TypeOK
  PROVE  /\ setup.heads \in Nat \ {0}
         /\ setup.runs \in Nat
         /\ setup.overlap \in BOOLEAN
         /\ setup.lossless \in BOOLEAN
         /\ head \in Nat \ {0}
  BY SetupAssumption DEF SetupAssumption, TypeOK, SetupSpace, Heads

LEMMA EntryType == Unread \in Entries /\ Idle \in Runs
  BY DEF Unread, Entries, Idle, Runs, PCs

LEMMA InitType == Init => TypeOK
<1> SUFFICES ASSUME Init PROVE TypeOK
  OBVIOUS
<1>1. setup.heads \in Nat \ {0} /\ setup.runs \in Nat
  BY SetupAssumption DEF SetupAssumption, SetupSpace, Init
<1>2. run \in [Runners -> Runs]
  BY EntryType DEF Init
<1>3. ASSUME NEW r \in Runners PROVE RunOK(run[r])
  BY DEF Init, RunOK, Idle, Unread
<1> QED
  BY <1>1, <1>2, <1>3 DEF Init, TypeOK, Heads

-------------------------------------------------------------------------------
(* Types *)

\* What a run holds of the host stays there: the host only grows.
LEMMA StaysOK ==
  ASSUME TypeOK, NEW state \in Runs, RunOK(state), head' \in Nat, head <= head',
         reviews' \in Seq(Reviews), Len(reviews) <= Len(reviews'),
         comments' \in Seq(Comments), Len(comments) <= Len(comments')
  PROVE  RunOK(state)'
<1>1. Len(reviews) \in Nat /\ Len(comments) \in Nat
  BY LenProperties DEF TypeOK
<1>2. Len(reviews') \in Nat /\ Len(comments') \in Nat
  BY LenProperties
<1>3. head \in Nat
  BY SetupFacts
<1>4. 1..Len(comments) \subseteq 1..Len(comments') /\ 0..Len(reviews) \subseteq 0..Len(reviews')
      /\ 1..Len(reviews) \subseteq 1..Len(reviews') /\ 1..head \subseteq 1..head'
  BY <1>1, <1>2, <1>3
<1>5. CASE state.pc = "commenting"
  BY <1>4, <1>5 DEF RunOK
<1>6. CASE state.pc # "commenting"
  BY <1>4, <1>6 DEF RunOK
<1> QED
  BY <1>5, <1>6

\* The comments the host has accepted come after those that were there.
LEMMA PostedFacts ==
  ASSUME TypeOK, NEW S \in SUBSET Findings, NEW new \in Posted(S)
  PROVE  /\ new \in Seq(Comments)
         /\ Len(comments) <= Len(new)
         /\ \A i \in 1..Len(comments) : new[i] = comments[i]
         /\ \A i \in 1..Len(new) : i > Len(comments) => ~new[i].resolved /\ new[i].active
<1> DEFINE n == Cardinality(S)
<1>1. n \in Nat
  BY FindingAssumption, FS_Subset, FS_CardinalityType DEF FindingAssumption
<1>2. PICK o \in [1..n -> S] :
        new = comments \o [i \in 1..n |-> [finding |-> o[i], active |-> TRUE,
                                           resolved |-> FALSE, outdated |-> FALSE]]
  BY DEF Posted
<1> DEFINE t == [i \in 1..n |-> [finding |-> o[i], active |-> TRUE,
                                 resolved |-> FALSE, outdated |-> FALSE]]
<1>3. t \in [1..n -> Comments]
  BY DEF Comments
<1>4. t \in Seq(Comments) /\ Len(t) = n
  BY <1>1, <1>3, IsASeq, LenProperties
<1>5. comments \in Seq(Comments)
  BY DEF TypeOK
<1> HIDE DEF t
<1>6. new = comments \o t
  BY <1>2 DEF t
<1>7. /\ new \in Seq(Comments)
      /\ Len(new) = Len(comments) + Len(t)
      /\ \A i \in 1..Len(new) :
           new[i] = IF i <= Len(comments) THEN comments[i] ELSE t[i - Len(comments)]
  BY <1>4, <1>5, <1>6, ConcatProperties
<1>8. Len(comments) \in Nat /\ Len(t) \in Nat
  BY <1>4, <1>5, LenProperties
<1>9. \A i \in 1..n : ~t[i].resolved /\ t[i].active
  BY DEF t
<1>10. ASSUME NEW i \in 1..Len(new), i > Len(comments)
       PROVE  ~new[i].resolved /\ new[i].active
  <2>1. i - Len(comments) \in 1..n
    BY <1>1, <1>4, <1>7, <1>8, <1>10
  <2>2. new[i] = t[i - Len(comments)]
    BY <1>7, <1>8, <1>10
  <2> QED
    BY <1>9, <2>1, <2>2
<1> HIDE DEF n
<1>11. \A i \in 1..Len(comments) : new[i] = comments[i]
  BY <1>7, <1>8
<1> QED
  BY <1>7, <1>8, <1>10, <1>11

\* The host as it is.
LEMMA HostFacts ==
  ASSUME TypeOK
  PROVE  /\ Len(reviews) \in Nat /\ Len(comments) \in Nat
         /\ reviews \in Seq(Reviews) /\ comments \in Seq(Comments)
         /\ DOMAIN reviews = 1..Len(reviews) /\ DOMAIN comments = 1..Len(comments)
         /\ reviews \in [1..Len(reviews) -> Reviews]
         /\ comments \in [1..Len(comments) -> Comments]
  BY LenProperties DEF TypeOK

LEMMA LatestFacts ==
  ASSUME TypeOK
  PROVE  Latest \in Entries /\ Latest.id \in 0..Len(reviews)
<1>1. reviews # <<>> => Len(reviews) \in 1..Len(reviews)
  BY HostFacts, EmptySeq
<1>2. CASE reviews = <<>>
  BY <1>2, HostFacts DEF Latest, Entries
<1>3. CASE reviews # <<>>
  <2>1. reviews[Len(reviews)].stamp \in Nat
    BY <1>1, <1>3, HostFacts DEF Reviews
  <2> QED
    BY <1>3, <2>1, HostFacts DEF Latest, Entries
<1> QED
  BY <1>2, <1>3

\* The summary a run finds, and the one it writes.
LEMMA EntryFacts ==
  ASSUME TypeOK, NEW r \in Runners
  PROVE  Entry(r) \in Entries /\ Entry(r).id \in 0..Len(reviews)
<1>1. run[r] \in Runs /\ RunOK(run[r])
  BY DEF TypeOK
<1> QED
  BY <1>1, LatestFacts DEF Entry, Runs, RunOK

LEMMA SummaryType ==
  ASSUME TypeOK, NEW r \in Runners, NEW commit \in Nat \ {0}, NEW isFresh \in BOOLEAN
  PROVE  Summary(r, commit, isFresh) \in Reviews
<1>1. run[r] \in Runs /\ RunOK(run[r])
  BY DEF TypeOK
<1>2. Stamp(r) \in Nat /\ Listed(r) \in SUBSET Findings
  BY <1>1 DEF Runs, Stamp, Listed
<1> QED
  BY <1>1, <1>2 DEF Summary, Reviews, Runs

LEMMA PushType ==
  ASSUME TypeOK, Push
  PROVE  TypeOK'
<1>1. /\ comments \in [1..Len(comments) -> Comments]
      /\ Len(comments) \in Nat
      /\ DOMAIN comments = 1..Len(comments)
      /\ Len(reviews) \in Nat
  BY LenProperties DEF TypeOK
<1>2. comments' \in [1..Len(comments) -> Comments]
  <2>1. PICK gone \in SUBSET DOMAIN comments :
          comments' = [i \in DOMAIN comments |->
                         [comments[i] EXCEPT !.outdated = @ \/ i \in gone]]
    BY DEF Push
  <2>2. ASSUME NEW i \in 1..Len(comments)
        PROVE  [comments[i] EXCEPT !.outdated = @ \/ i \in gone] \in Comments
    <3>1. (comments[i].outdated \/ i \in gone) \in BOOLEAN
      OBVIOUS
    <3> QED
      BY <1>1, <3>1 DEF Comments
  <2> QED
    BY <1>1, <2>1, <2>2
<1>3. comments' \in Seq(Comments) /\ Len(comments') = Len(comments)
  BY <1>1, <1>2, SeqDef, LenProperties
<1>4. head' = head + 1 /\ head' \in Heads /\ head \in Nat \ {0} /\ Heads' = Heads
  BY SetupFacts DEF Push, TypeOK, Heads
<1>5. linear' \subseteq Heads /\ diff' \in [1..head' -> Heads]
  BY <1>4 DEF Push, TypeOK, Heads
<1>6. ASSUME NEW q \in Runners PROVE RunOK(run[q])'
  <2>1. /\ run'[q] = run[q] /\ run[q] \in Runs /\ RunOK(run[q]) /\ reviews' = reviews
        /\ reviews' \in Seq(Reviews) /\ Len(reviews) <= Len(reviews')
        /\ Len(comments) <= Len(comments')
        /\ head' \in Nat /\ head <= head'
    BY <1>1, <1>3, <1>4 DEF Push, TypeOK
  <2> QED
    BY <1>3, <2>1, StaysOK
<1> QED
  BY <1>3, <1>4, <1>5, <1>6 DEF Push, TypeOK

LEMMA RunFacts ==
  ASSUME TypeOK, NEW r \in Runners
  PROVE  run[r] \in Runs /\ RunOK(run[r])
  BY DEF TypeOK

\* What is left to show of a job's step.
LEMMA StepType ==
  ASSUME TypeOK, NEW r \in Runners, NEW state \in Runs, RunOK(state), Becomes(r, state),
         UNCHANGED <<setup, push>>, runs' \in 0..setup.runs, covered' \subseteq Heads,
         reviews' \in Seq(Reviews), Len(reviews) <= Len(reviews'),
         comments' \in Seq(Comments), Len(comments) <= Len(comments')
  PROVE  TypeOK'
<1>1. head' = head /\ head \in Nat /\ setup' = setup
  BY SetupFacts DEF push
<1>2. /\ run' \in [Runners -> Runs]
      /\ \A q \in Runners : run'[q] = IF q = r THEN state ELSE run[q]
  BY DEF TypeOK, Becomes
<1>3. ASSUME NEW q \in Runners PROVE RunOK(run[q])'
  <2>1. run'[q] \in Runs /\ RunOK(run'[q])
    BY <1>2, RunFacts
  <2> QED
    BY <1>1, <2>1, StaysOK
<1> QED
  BY <1>1, <1>2, <1>3 DEF TypeOK, push, Heads

LEMMA BeginType ==
  ASSUME TypeOK, NEW r \in Runners, Begin(r)
  PROVE  TypeOK'
<1>0. PICK entry \in {Unread, Latest} : \E since \in {0, Increment(entry)} :
        Becomes(r, [Idle EXCEPT !.pc = "reviewing", !.head = head, !.entry = entry,
                                !.since = since])
  BY DEF Begin
<1>1. PICK since \in {0, Increment(entry)} :
        Becomes(r, [Idle EXCEPT !.pc = "reviewing", !.head = head, !.entry = entry,
                                !.since = since])
  BY <1>0
<1>2. entry \in Entries /\ entry.id \in 0..Len(reviews)
  <2>1. Unread \in Entries /\ Unread.id \in 0..Len(reviews)
    BY EntryType, HostFacts DEF Unread
  <2> QED
    BY <2>1, LatestFacts
<1>3. since \in 0..head /\ head \in Nat \ {0}
  BY <1>2, SetupFacts DEF Increment, Ahead, Entries
<1> DEFINE state == [Idle EXCEPT !.pc = "reviewing", !.head = head, !.entry = entry,
                                 !.since = since]
<1>4. state \in Runs
  <2>1. since \in Nat /\ head \in Nat /\ "reviewing" \in PCs
    BY <1>3 DEF PCs
  <2> QED
    BY <1>2, <2>1, EntryType DEF Runs
<1>5. /\ state.pc = "reviewing" /\ state.head = head /\ state.since = since
      /\ state.entry = entry /\ state.inline = {} /\ state.todo = {}
      /\ state.rejected = {} /\ state.validated = {} /\ state.tofix = {}
      /\ state.marked = {} /\ state.restoring = {}
  BY DEF Idle
<1> HIDE DEF state
<1>6. RunOK(state)
  BY <1>2, <1>3, <1>5, HostFacts DEF RunOK
<1>7. Becomes(r, state)
  BY <1>1 DEF state
<1>8. runs' \in 0..setup.runs
  BY SetupFacts DEF Begin, TypeOK
<1> QED
  BY <1>4, <1>6, <1>7, <1>8, HostFacts, StepType DEF Begin, TypeOK

LEMMA ReviewType ==
  ASSUME TypeOK, NEW r \in Runners, Review(r)
  PROVE  TypeOK'
<1>1. PICK found \in SUBSET Findings, complete \in BOOLEAN :
        \E inline \in SUBSET found, fixed \in Validated(r, found) :
          Becomes(r, [run[r] EXCEPT !.pc = "posting", !.found = found, !.inline = inline,
                                    !.complete = complete, !.validated = fixed])
  BY DEF Review
<1>2. PICK inline \in SUBSET found, fixed \in Validated(r, found) :
        Becomes(r, [run[r] EXCEPT !.pc = "posting", !.found = found, !.inline = inline,
                                  !.complete = complete, !.validated = fixed])
  BY <1>1
<1>3. fixed \in SUBSET (1..Len(comments))
  BY HostFacts DEF Validated, Fixable, Active
<1> DEFINE state == [run[r] EXCEPT !.pc = "posting", !.found = found, !.inline = inline,
                                   !.complete = complete, !.validated = fixed]
<1>4. state \in Runs
  <2>1. inline \in SUBSET Findings /\ fixed \in SUBSET Nat /\ "posting" \in PCs
    BY <1>3, HostFacts DEF PCs
  <2> QED
    BY <2>1, RunFacts DEF Runs
<1>5. /\ state.pc = "posting" /\ state.found = found /\ state.inline = inline
      /\ state.validated = fixed
      /\ state.head = run[r].head /\ state.since = run[r].since
      /\ state.entry = run[r].entry /\ state.todo = run[r].todo
      /\ state.rejected = run[r].rejected /\ state.tofix = run[r].tofix
      /\ state.marked = run[r].marked /\ state.restoring = run[r].restoring
  BY RunFacts DEF Runs
<1> HIDE DEF state
<1>6. RunOK(state)
  BY <1>3, <1>5, RunFacts DEF RunOK, Review
<1>7. covered' \subseteq Heads
  <2>1. Reviewed(r) \subseteq 1..head
    BY RunFacts, SetupFacts DEF Reviewed, Pushes, RunOK, Review
  <2> QED
    BY <2>1, SetupFacts DEF Review, TypeOK, Heads
<1>8. Becomes(r, state)
  BY <1>2 DEF state
<1> QED
  BY <1>4, <1>6, <1>7, <1>8, HostFacts, StepType DEF Review, TypeOK

\* The host after a write.
LEMMA AppendFacts ==
  ASSUME TypeOK, NEW review \in Reviews, reviews' = Append(reviews, review)
  PROVE  /\ reviews' \in Seq(Reviews) /\ Len(reviews') = Len(reviews) + 1
         /\ Len(reviews) <= Len(reviews')
         /\ \A n \in 1..Len(reviews') :
              reviews'[n] = IF n <= Len(reviews) THEN reviews[n] ELSE review
  BY HostFacts, AppendProperties

LEMMA RewriteFacts ==
  ASSUME TypeOK, NEW n \in 1..Len(reviews), NEW review \in Reviews,
         reviews' = [reviews EXCEPT ![n] = review]
  PROVE  /\ reviews' \in Seq(Reviews) /\ Len(reviews') = Len(reviews)
         /\ Len(reviews) <= Len(reviews')
         /\ \A m \in 1..Len(reviews') :
              reviews'[m] = IF m = n THEN review ELSE reviews[m]
  BY HostFacts, ExceptSeq

LEMMA ThreadFacts ==
  ASSUME TypeOK, NEW i \in 1..Len(comments), NEW active \in BOOLEAN,
         \/ comments' = comments
         \/ comments' = [comments EXCEPT ![i].active = active]
         \/ comments' = [comments EXCEPT ![i].resolved = TRUE]
  PROVE  /\ comments' \in Seq(Comments) /\ Len(comments') = Len(comments)
         /\ Len(comments) <= Len(comments')
<1>1. comments[i] \in Comments
  BY HostFacts
<1>2. [comments[i] EXCEPT !.active = active] \in Comments
  BY <1>1 DEF Comments
<1>3. [comments[i] EXCEPT !.resolved = TRUE] \in Comments
  BY <1>1 DEF Comments
<1>4. CASE comments' = comments
  BY <1>4, HostFacts
<1>5. CASE comments' = [comments EXCEPT ![i].active = active]
  BY <1>2, <1>5, HostFacts, ExceptSeq
<1>6. CASE comments' = [comments EXCEPT ![i].resolved = TRUE]
  BY <1>3, <1>6, HostFacts, ExceptSeq
<1> QED
  BY <1>4, <1>5, <1>6

\* A run that is under way has a head to bind a review to.
LEMMA CommitType ==
  ASSUME TypeOK, NEW r \in Runners, run[r].pc # "idle"
  PROVE  run[r].head \in 1..head /\ Commit(r) \in Nat \ {0}
  BY RunFacts, SetupFacts DEF RunOK, Commit

LEMMA UnderWayType ==
  ASSUME TypeOK, NEW r \in Runners, run[r].pc # "idle"
  PROVE  LET resolving == [run[r] EXCEPT !.pc = "resolving", !.entry = Entry(r),
                                         !.todo = {}, !.rejected = {}, !.tofix = Fixed(r)]
         IN resolving \in Runs /\ RunOK(resolving)
<1> DEFINE state == [run[r] EXCEPT !.pc = "resolving", !.entry = Entry(r),
                                   !.todo = {}, !.rejected = {}, !.tofix = Fixed(r)]
<1>1. Fixed(r) \subseteq 1..Len(comments)
  BY RunFacts, HostFacts DEF Fixed, Fixable, Active, RunOK
<1>2. Entry(r) \in Entries /\ Entry(r).id \in 0..Len(reviews)
  BY EntryFacts
<1>3. state \in Runs
  <2>1. Fixed(r) \in SUBSET Nat /\ "resolving" \in PCs
    BY <1>1, HostFacts DEF PCs
  <2> QED
    BY <1>2, <2>1, RunFacts DEF Runs
<1>4. /\ state.pc = "resolving" /\ state.entry = Entry(r) /\ state.todo = {}
      /\ state.rejected = {} /\ state.tofix = Fixed(r)
      /\ state.head = run[r].head /\ state.since = run[r].since
      /\ state.found = run[r].found /\ state.inline = run[r].inline
      /\ state.validated = run[r].validated
      /\ state.marked = run[r].marked /\ state.restoring = run[r].restoring
  BY RunFacts DEF Runs
<1> HIDE DEF state
<1>5. RunOK(state)
  <2>1. /\ run[r].head \in 1..head /\ run[r].since \in 0..run[r].head
        /\ run[r].inline \subseteq run[r].found
        /\ run[r].validated \cup run[r].marked \cup run[r].restoring \subseteq 1..Len(comments)
    BY CommitType, RunFacts DEF RunOK
  <2> QED
    BY <1>1, <1>2, <1>4, <2>1 DEF RunOK
<1> QED
  BY <1>3, <1>5 DEF state

\* A write that the run hears of, or does not: in either case the host is as it
\* should be.
LEMMA WrittenType ==
  ASSUME TypeOK, NEW r \in Runners, run[r].pc \in {"posting", "commenting", "isolating"},
         Resolving(r) \/ Lost(r), UNCHANGED <<setup, push, runs, covered>>,
         reviews' \in Seq(Reviews), Len(reviews) <= Len(reviews'),
         comments' \in Seq(Comments), Len(comments) <= Len(comments')
  PROVE  TypeOK'
<1> DEFINE resolving == [run[r] EXCEPT !.pc = "resolving", !.entry = Entry(r),
                                       !.todo = {}, !.rejected = {}, !.tofix = Fixed(r)]
           lost == [run[r] EXCEPT !.pc = "failing", !.entry = Entry(r)]
<1>1. runs' \in 0..setup.runs /\ covered' \subseteq Heads
  BY DEF TypeOK
<1>2. resolving \in Runs /\ RunOK(resolving)
  BY UnderWayType
<1>3. Entry(r) \in Entries /\ Entry(r).id \in 0..Len(reviews)
  BY EntryFacts
<1>4. lost \in Runs
  BY <1>3, RunFacts DEF Runs, PCs
<1>5. /\ lost.pc = "failing" /\ lost.entry = Entry(r)
      /\ lost.todo = run[r].todo /\ lost.rejected = run[r].rejected
      /\ lost.tofix = run[r].tofix /\ lost.head = run[r].head /\ lost.since = run[r].since
      /\ lost.found = run[r].found /\ lost.inline = run[r].inline
      /\ lost.validated = run[r].validated
      /\ lost.marked = run[r].marked /\ lost.restoring = run[r].restoring
  BY RunFacts DEF Runs
<1>6. CASE Resolving(r)
  <2>1. Becomes(r, resolving)
    BY <1>6 DEF Resolving
  <2> HIDE DEF resolving
  <2> QED
    BY <1>1, <1>2, <2>1, StepType
<1>7. CASE Lost(r)
  <2>1. Becomes(r, lost)
    BY <1>7 DEF Lost
  <2> HIDE DEF lost
  <2>2. RunOK(lost)
    BY <1>3, <1>5, RunFacts DEF RunOK
  <2> QED
    BY <1>1, <1>4, <2>1, <2>2, StepType
<1> QED
  BY <1>6, <1>7

\* The actions of post_review.
LEMMA PutType ==
  ASSUME TypeOK, NEW r \in Runners, Put(r)
  PROVE  TypeOK'
<1> DEFINE n == Entry(r).id
           state == [run[r] EXCEPT !.pc = "commenting", !.entry = Entry(r),
                                   !.todo = Unposted(r)]
<1>1. Entry(r) \in Entries /\ n \in 1..Len(reviews)
  BY EntryFacts, HostFacts DEF Put, Entries
<1>2. Unposted(r) \subseteq run[r].inline
  BY DEF Unposted
<1>3. state \in Runs
  <2>1. Unposted(r) \in SUBSET Findings /\ "commenting" \in PCs
    BY <1>2, RunFacts DEF Runs, PCs
  <2> QED
    BY <1>1, <2>1, RunFacts DEF Runs
<1>4. /\ state.pc = "commenting" /\ state.entry = Entry(r) /\ state.todo = Unposted(r)
      /\ state.rejected = run[r].rejected /\ state.tofix = run[r].tofix
      /\ state.head = run[r].head /\ state.since = run[r].since
      /\ state.found = run[r].found /\ state.inline = run[r].inline
      /\ state.validated = run[r].validated
      /\ state.marked = run[r].marked /\ state.restoring = run[r].restoring
  BY RunFacts DEF Runs
<1>5. Becomes(r, state)
  BY DEF Put
<1> HIDE DEF state
<1>6. RunOK(state)
  BY <1>1, <1>2, <1>4, RunFacts, EntryFacts DEF RunOK, Put
<1>7. Summary(r, reviews[n].commit, FALSE) \in Reviews
  BY <1>1, HostFacts, SummaryType DEF Reviews
<1>8. reviews' = [reviews EXCEPT ![n] = Summary(r, reviews[n].commit, FALSE)]
  BY DEF Put
<1>9. reviews' \in Seq(Reviews) /\ Len(reviews) <= Len(reviews')
  BY <1>1, <1>7, <1>8, RewriteFacts
<1>10. /\ UNCHANGED <<setup, push>> /\ runs' \in 0..setup.runs /\ covered' \subseteq Heads
       /\ comments' \in Seq(Comments) /\ Len(comments) <= Len(comments')
  BY HostFacts DEF Put, TypeOK
<1> QED
  BY <1>3, <1>5, <1>6, <1>9, <1>10, StepType

LEMMA PutAgainType ==
  ASSUME TypeOK, NEW r \in Runners, PutAgain(r)
  PROVE  TypeOK'
<1> DEFINE n == run[r].entry.id
<1>1. n \in 1..Len(reviews)
  BY RunFacts DEF RunOK, PutAgain
<1>2. Summary(r, reviews[n].commit, FALSE) \in Reviews
  BY <1>1, HostFacts, SummaryType DEF Reviews
<1>3. reviews' = [reviews EXCEPT ![n] = Summary(r, reviews[n].commit, FALSE)]
  BY DEF PutAgain
<1>4. reviews' \in Seq(Reviews) /\ Len(reviews) <= Len(reviews')
  BY <1>1, <1>2, <1>3, RewriteFacts
<1>5. /\ UNCHANGED <<setup, push, runs, covered>>
      /\ comments' \in Seq(Comments) /\ Len(comments) <= Len(comments')
  BY HostFacts DEF PutAgain, push
<1> QED
  BY <1>4, <1>5, WrittenType DEF PutAgain

LEMMA PostType ==
  ASSUME TypeOK, NEW r \in Runners, Post(r)
  PROVE  TypeOK'
<1>1. Carried(r) \in SUBSET Findings
  BY RunFacts DEF Carried, Unposted, Runs
<1>2. comments' \in Seq(Comments) /\ Len(comments) <= Len(comments')
  BY <1>1, PostedFacts DEF Post
<1>3. Summary(r, Commit(r), TRUE) \in Reviews
  BY CommitType, SummaryType DEF Post
<1>4. reviews' \in Seq(Reviews) /\ Len(reviews) <= Len(reviews')
  BY <1>3, AppendFacts DEF Post
<1>5. UNCHANGED <<setup, push, runs, covered>>
  BY DEF Post, push
<1> QED
  BY <1>2, <1>4, <1>5, WrittenType DEF Post

LEMMA PostBareType ==
  ASSUME TypeOK, NEW r \in Runners, PostBare(r)
  PROVE  TypeOK'
<1>1. Summary(r, Commit(r), TRUE) \in Reviews
  BY CommitType, SummaryType DEF PostBare
<1>2. reviews' \in Seq(Reviews) /\ Len(reviews) <= Len(reviews')
  BY <1>1, AppendFacts DEF PostBare
<1>3. /\ UNCHANGED <<setup, push, runs, covered>>
      /\ comments' \in Seq(Comments) /\ Len(comments) <= Len(comments')
  BY HostFacts DEF PostBare, push
<1> QED
  BY <1>2, <1>3, WrittenType DEF PostBare

LEMMA PostRefusedType ==
  ASSUME TypeOK, NEW r \in Runners, PostRefused(r)
  PROVE  TypeOK'
<1> DEFINE state == [run[r] EXCEPT !.pc = "isolating", !.entry = Entry(r),
                                   !.todo = Unposted(r)]
<1>1. Unposted(r) \subseteq run[r].inline
  BY DEF Unposted
<1>2. state \in Runs
  <2>1. Unposted(r) \in SUBSET Findings /\ "isolating" \in PCs
    BY <1>1, RunFacts DEF Runs, PCs
  <2> QED
    BY <2>1, EntryFacts, RunFacts DEF Runs
<1>3. /\ state.pc = "isolating" /\ state.entry = Entry(r) /\ state.todo = Unposted(r)
      /\ state.rejected = run[r].rejected /\ state.tofix = run[r].tofix
      /\ state.head = run[r].head /\ state.since = run[r].since
      /\ state.found = run[r].found /\ state.inline = run[r].inline
      /\ state.validated = run[r].validated
      /\ state.marked = run[r].marked /\ state.restoring = run[r].restoring
  BY RunFacts DEF Runs
<1>4. Becomes(r, state)
  BY DEF PostRefused
<1> HIDE DEF state
<1>5. RunOK(state)
  BY <1>1, <1>3, RunFacts, EntryFacts DEF RunOK, PostRefused
<1>6. /\ UNCHANGED <<setup, push, reviews, comments>>
      /\ runs' \in 0..setup.runs /\ covered' \subseteq Heads
  BY DEF PostRefused, TypeOK
<1> QED
  BY <1>2, <1>4, <1>5, <1>6, HostFacts, StepType

LEMMA CommentType ==
  ASSUME TypeOK, NEW r \in Runners, NEW f \in Findings, Comment(r, f)
  PROVE  TypeOK'
<1>1. PICK rejected \in {run[r].rejected, run[r].rejected \cup {f}} :
        Becomes(r, [run[r] EXCEPT !.todo = @ \ {f}, !.rejected = rejected])
  <2>1. CASE Becomes(r, [run[r] EXCEPT !.todo = @ \ {f}])
    <3>1. [run[r] EXCEPT !.todo = @ \ {f}]
            = [run[r] EXCEPT !.todo = @ \ {f}, !.rejected = run[r].rejected]
      BY RunFacts DEF Runs
    <3> QED
      BY <2>1, <3>1
  <2>2. CASE Becomes(r, [run[r] EXCEPT !.todo = @ \ {f}, !.rejected = @ \cup {f}])
    BY <2>2
  <2> QED
    BY <2>1, <2>2 DEF Comment
<1> DEFINE state == [run[r] EXCEPT !.todo = @ \ {f}, !.rejected = rejected]
<1>2. rejected \in SUBSET Findings /\ rejected \subseteq run[r].inline
  BY RunFacts DEF Runs, RunOK, Comment
<1>3. state \in Runs
  BY <1>2, RunFacts DEF Runs
<1>4. /\ state.todo = run[r].todo \ {f} /\ state.rejected = rejected
      /\ state.pc = run[r].pc /\ state.entry = run[r].entry /\ state.tofix = run[r].tofix
      /\ state.head = run[r].head /\ state.since = run[r].since
      /\ state.found = run[r].found /\ state.inline = run[r].inline
      /\ state.validated = run[r].validated
      /\ state.marked = run[r].marked /\ state.restoring = run[r].restoring
  BY RunFacts DEF Runs
<1> HIDE DEF state
<1>5. RunOK(state)
  BY <1>2, <1>4, RunFacts DEF RunOK, Comment
<1>6. comments' \in Seq(Comments) /\ Len(comments) <= Len(comments')
  <2>1. {f} \in SUBSET Findings
    OBVIOUS
  <2> QED
    BY <2>1, PostedFacts, HostFacts DEF Comment
<1>7. /\ UNCHANGED <<setup, push, reviews>> /\ runs' \in 0..setup.runs
      /\ covered' \subseteq Heads /\ Becomes(r, state)
  BY <1>1 DEF Comment, TypeOK, state
<1> QED
  BY <1>3, <1>5, <1>6, <1>7, HostFacts, StepType

LEMMA CommentedType ==
  ASSUME TypeOK, NEW r \in Runners, Commented(r)
  PROVE  TypeOK'
<1>1. UNCHANGED <<setup, push, reviews, comments, runs, covered>>
  BY DEF Commented, push
<1> QED
  BY <1>1, HostFacts, WrittenType DEF Commented

\* The actions of _resolve_fixed_threads.
LEMMA ThreadType ==
  ASSUME TypeOK, NEW r \in Runners, NEW i \in DOMAIN comments,
         Mark(r, i) \/ Resolve(r, i) \/ ResolveFails(r, i) \/ Restore(r, i)
  PROVE  TypeOK'
<1>1. i \in 1..Len(comments) /\ FALSE \in BOOLEAN /\ TRUE \in BOOLEAN
  BY HostFacts
<1>2. comments' \in Seq(Comments) /\ Len(comments) <= Len(comments')
  BY <1>1, ThreadFacts DEF Mark, Resolve, ResolveFails, Restore
<1>3. UNCHANGED <<setup, push, reviews, runs, covered>>
  BY DEF Mark, Resolve, ResolveFails, Restore, push
<1>4. PICK tofix \in SUBSET (1..Len(comments)), marked \in SUBSET (1..Len(comments)),
           restoring \in SUBSET (1..Len(comments)) : Left(r, tofix, marked, restoring)
  <2>1. /\ run[r].tofix \subseteq 1..Len(comments)
        /\ run[r].marked \subseteq 1..Len(comments)
        /\ run[r].restoring \subseteq 1..Len(comments)
    BY RunFacts DEF RunOK
  <2>2. CASE Mark(r, i)
    BY <1>1, <2>1, <2>2 DEF Mark
  <2>3. CASE Resolve(r, i)
    BY <1>1, <2>1, <2>3 DEF Resolve
  <2>4. CASE ResolveFails(r, i)
    BY <1>1, <2>1, <2>4 DEF ResolveFails
  <2>5. CASE Restore(r, i)
    BY <1>1, <2>1, <2>5 DEF Restore
  <2> QED
    BY <2>2, <2>3, <2>4, <2>5
<1> DEFINE state == [run[r] EXCEPT !.tofix = tofix, !.marked = marked,
                                   !.restoring = restoring]
<1>5. state \in Runs
  <2>1. tofix \in SUBSET Nat /\ marked \in SUBSET Nat /\ restoring \in SUBSET Nat
    BY HostFacts
  <2> QED
    BY <2>1, RunFacts DEF Runs
<1>6. /\ state.tofix = tofix /\ state.marked = marked /\ state.restoring = restoring
      /\ state.pc = run[r].pc /\ state.entry = run[r].entry
      /\ state.head = run[r].head /\ state.since = run[r].since
      /\ state.found = run[r].found /\ state.inline = run[r].inline
      /\ state.validated = run[r].validated
      /\ state.todo = run[r].todo /\ state.rejected = run[r].rejected
  BY RunFacts DEF Runs
<1> HIDE DEF state
<1>7. RunOK(state)
  BY <1>4, <1>6, RunFacts DEF RunOK
<1>8. /\ UNCHANGED <<setup, push, reviews>> /\ runs' \in 0..setup.runs
      /\ covered' \subseteq Heads /\ Becomes(r, state)
  BY <1>3, <1>4 DEF TypeOK, Left, state
<1> QED
  BY <1>2, <1>5, <1>7, <1>8, HostFacts, StepType

\* The ways a run ends.
LEMMA IdleType ==
  ASSUME TypeOK, NEW r \in Runners, Becomes(r, Idle),
         UNCHANGED <<setup, push, comments, runs, covered>>,
         reviews' \in Seq(Reviews), Len(reviews) <= Len(reviews')
  PROVE  TypeOK'
<1>1. Idle \in Runs
  BY EntryType
<1>2. RunOK(Idle)
  BY HostFacts DEF RunOK, Idle, Unread
<1>3. runs' \in 0..setup.runs /\ covered' \subseteq Heads
  BY DEF TypeOK
<1> QED
  BY <1>1, <1>2, <1>3, HostFacts, StepType

LEMMA FailType ==
  ASSUME TypeOK, NEW r \in Runners, Fail(r)
  PROVE  TypeOK'
<1> DEFINE state == [run[r] EXCEPT !.pc = "failing"]
<1>1. state \in Runs
  BY RunFacts DEF Runs, PCs
<1>2. /\ state.tofix = run[r].tofix /\ state.marked = run[r].marked
      /\ state.restoring = run[r].restoring
      /\ state.pc = "failing" /\ state.entry = run[r].entry
      /\ state.head = run[r].head /\ state.since = run[r].since
      /\ state.found = run[r].found /\ state.inline = run[r].inline
      /\ state.validated = run[r].validated
      /\ state.todo = run[r].todo /\ state.rejected = run[r].rejected
  BY RunFacts DEF Runs
<1>3. Becomes(r, state)
  BY DEF Fail
<1> HIDE DEF state
<1>4. RunOK(state)
  <2>1. run[r].entry.id \in 0..Len(reviews)
    BY RunFacts, HostFacts DEF RunOK
  <2>2. run[r].todo \cup run[r].rejected \subseteq run[r].inline
    BY RunFacts DEF RunOK
  <2> QED
    BY <1>2, <2>1, <2>2, RunFacts DEF RunOK, Fail
<1>5. /\ UNCHANGED <<setup, push, reviews, comments>>
      /\ runs' \in 0..setup.runs /\ covered' \subseteq Heads
  BY DEF Fail, TypeOK
<1> QED
  BY <1>1, <1>3, <1>4, <1>5, HostFacts, StepType

LEMMA NoticeType ==
  ASSUME TypeOK, NEW r \in Runners, Notice(r)
  PROVE  TypeOK'
<1>1. ASSUME NEW commit \in Nat \ {0} PROVE Blank(commit) \in Reviews
  BY DEF Blank, Reviews
<1>2. reviews' \in Seq(Reviews) /\ Len(reviews) <= Len(reviews')
  <2>1. CASE reviews' = reviews
    BY <2>1, HostFacts
  <2>2. CASE reviews' = Append(reviews, Blank(head))
    BY <1>1, <2>2, SetupFacts, AppendFacts
  <2>3. CASE Entry(r).id # 0
             /\ reviews' = [reviews EXCEPT ![Entry(r).id] = Blank(@.commit)]
    <3> DEFINE n == Entry(r).id
    <3>1. n \in 1..Len(reviews)
      BY <2>3, EntryFacts, HostFacts
    <3>2. Blank(reviews[n].commit) \in Reviews
      BY <1>1, <3>1, HostFacts DEF Reviews
    <3> QED
      BY <2>3, <3>1, <3>2, RewriteFacts
  <2> QED
    BY <2>1, <2>2, <2>3 DEF Notice
<1> QED
  BY <1>2, IdleType DEF Notice, push

LEMMA RunStepType ==
  ASSUME TypeOK, NEW r \in Runners, Step(r)
  PROVE  TypeOK'
<1>1. CASE End(r) \/ Crash(r)
  <2>1. /\ Becomes(r, Idle) /\ UNCHANGED <<setup, push, reviews, comments, runs, covered>>
    BY <1>1 DEF End, Crash, push
  <2> QED
    BY <2>1, HostFacts, IdleType
<1>2. CASE \E i \in Threads :
             Mark(r, i) \/ Resolve(r, i) \/ ResolveFails(r, i) \/ Restore(r, i)
  BY <1>2, ThreadType DEF Threads
<1>3. CASE \E f \in Findings : Comment(r, f)
  BY <1>3, CommentType
<1> QED
  BY <1>1, <1>2, <1>3, BeginType, ReviewType, PutType, PostType, PostRefusedType,
     CommentedType, PutAgainType, PostBareType, FailType, NoticeType DEF Step

LEMMA StutterType ==
  ASSUME TypeOK, UNCHANGED vars
  PROVE  TypeOK'
  BY DEF TypeOK, RunOK, vars, Heads

\* Every variable keeps its type, and what a run holds of the host is there: the
\* summary it rewrites, the threads it resolves, the comments it has to post.
THEOREM TypeCorrect == Spec => []TypeOK
<1>1. TypeOK /\ [Next]_vars => TypeOK'
  BY PushType, RunStepType, StutterType DEF Next
<1> QED
  BY <1>1, InitType, PTL DEF Spec

-------------------------------------------------------------------------------
(* No commit is skipped *)

\* The pushes of a watermark have been seen, and so have those of whatever may
\* become one: where a run's increment starts, and the head of a complete run
\* that has yet to say so.
RunCovers(state) ==
  /\ Pushes(state.since) \subseteq covered
  /\ state.complete /\ state.pc \in {"posting", "commenting", "isolating"} =>
       Pushes(state.head) \subseteq covered

Coverage ==
  /\ \A n \in DOMAIN reviews :
       reviews[n].stamp \in 0..head /\ Pushes(reviews[n].stamp) \subseteq covered
  /\ \A r \in Runners : RunCovers(run[r])

CInv == TypeOK /\ Coverage

\* A push changes nothing of the heads there were.
LEMMA PushesStay ==
  ASSUME TypeOK, NEW h \in 0..head, Push \/ UNCHANGED push
  PROVE  Pushes(h)' = Pushes(h)
<1>1. ASSUME NEW p \in 1..h PROVE Ahead(p, h)' <=> Ahead(p, h)
  BY <1>1, SetupFacts DEF Ahead, Push, push
<1> QED
  BY <1>1 DEF Pushes

LEMMA NothingInNone == Pushes(0) = {}
  BY DEF Pushes

LEMMA StaysCovered ==
  ASSUME TypeOK, NEW h \in 0..head, Push \/ UNCHANGED push, Pushes(h) \subseteq covered,
         covered \subseteq covered'
  PROVE  (Pushes(h) \subseteq covered)'
  BY PushesStay

\* Where a step leaves the host's watermarks as they were, takes some away, or
\* adds that of a run that may.
LEMMA WatermarkStep ==
  ASSUME CInv, NEW r \in Runners, Push \/ UNCHANGED push, covered \subseteq covered',
         NEW stamp \in {0, Stamp(r)},
         stamp # 0 => run[r].pc \in {"posting", "commenting", "isolating"},
         \A n \in DOMAIN reviews' :
           \/ reviews'[n].stamp = stamp
           \/ \E m \in DOMAIN reviews : reviews'[n].stamp = reviews[m].stamp
  PROVE  (\A n \in DOMAIN reviews :
            reviews[n].stamp \in 0..head /\ Pushes(reviews[n].stamp) \subseteq covered)'
<1>1. stamp \in 0..head /\ Pushes(stamp) \subseteq covered
  <2>1. CASE stamp = 0
    BY <2>1, SetupFacts, NothingInNone DEF CInv
  <2>2. CASE stamp # 0
    BY <2>2, RunFacts, SetupFacts DEF CInv, Coverage, RunCovers, Stamp, RunOK
  <2> QED
    BY <2>1, <2>2
<1>2. head \in Nat /\ head' \in Nat /\ head <= head'
  BY SetupFacts DEF CInv, Push, push
<1>3. ASSUME NEW n \in DOMAIN reviews'
      PROVE  (reviews[n].stamp \in 0..head /\ Pushes(reviews[n].stamp) \subseteq covered)'
  <2>1. PICK h \in 0..head : h = reviews'[n].stamp /\ Pushes(h) \subseteq covered
    BY <1>1 DEF CInv, Coverage
  <2>2. (Pushes(h) \subseteq covered)'
    BY <2>1, StaysCovered DEF CInv
  <2> QED
    BY <1>2, <2>1, <2>2 DEF Pushes, Ahead
<1> QED
  BY <1>3

LEMMA RunStep ==
  ASSUME CInv, NEW state \in Runs, RunCovers(state), RunOK(state),
         Push \/ UNCHANGED push, covered \subseteq covered'
  PROVE  RunCovers(state)'
<1>1. state.since \in 0..head /\ state.head \in 0..head
  BY SetupFacts DEF RunOK, CInv
<1> QED
  BY <1>1, StaysCovered DEF RunCovers, CInv

\* What is left to show of a job's step.
LEMMA CoverageStep ==
  ASSUME CInv, TypeOK', NEW r \in Runners, NEW state, Becomes(r, state),
         RunCovers(state)',
         UNCHANGED push, covered \subseteq covered', NEW stamp \in {0, Stamp(r)},
         stamp # 0 => run[r].pc \in {"posting", "commenting", "isolating"},
         \A n \in DOMAIN reviews' :
           \/ reviews'[n].stamp = stamp
           \/ \E m \in DOMAIN reviews : reviews'[n].stamp = reviews[m].stamp
  PROVE  CInv'
<1>1. (\A n \in DOMAIN reviews :
         reviews[n].stamp \in 0..head /\ Pushes(reviews[n].stamp) \subseteq covered)'
  BY WatermarkStep
<1>2. ASSUME NEW q \in Runners PROVE RunCovers(run[q])'
  <2>1. CASE q = r
    <3>1. run'[q] = state
      BY <2>1 DEF Becomes, CInv, TypeOK
    <3> QED
      BY <3>1 DEF RunCovers, Pushes, Ahead
  <2>2. CASE q # r
    <3>1. PICK s \in Runs : s = run[q]
      BY RunFacts DEF CInv
    <3>2. run'[q] = s /\ RunCovers(s) /\ RunOK(s)
      BY <2>2, <3>1, RunFacts DEF Becomes, CInv, TypeOK, Coverage
    <3>3. RunCovers(s)'
      BY <3>2, RunStep
    <3> QED
      BY <3>2, <3>3 DEF RunCovers, Pushes, Ahead
  <2> QED
    BY <2>1, <2>2
<1> QED
  BY <1>1, <1>2 DEF CInv, Coverage

\* A run that goes on with its increment and its findings.
LEMMA GoesOn ==
  ASSUME CInv, NEW r \in Runners, NEW state,
         state.since = run[r].since, state.head = run[r].head,
         state.complete = run[r].complete,
         state.pc \in {"posting", "commenting", "isolating"} =>
           run[r].pc \in {"posting", "commenting", "isolating"},
         UNCHANGED push, covered \subseteq covered'
  PROVE  RunCovers(state)'
<1>1. PICK s \in 0..head, h \in 0..head : s = run[r].since /\ h = run[r].head
  BY RunFacts, SetupFacts DEF RunOK, CInv
<1>2. Pushes(s) \subseteq covered
  BY <1>1 DEF CInv, Coverage, RunCovers
<1>3. (Pushes(s) \subseteq covered)'
  BY <1>2, StaysCovered DEF CInv
<1>4. ASSUME state.complete, state.pc \in {"posting", "commenting", "isolating"}
      PROVE  (Pushes(h) \subseteq covered)'
  <2>1. Pushes(h) \subseteq covered
    BY <1>1, <1>4 DEF CInv, Coverage, RunCovers
  <2> QED
    BY <2>1, StaysCovered DEF CInv
<1>5. state.since = s /\ state.head = h
  BY <1>1
<1> QED
  BY <1>3, <1>4, <1>5 DEF RunCovers

\* A step that writes no summary.
LEMMA QuietStep ==
  ASSUME CInv, TypeOK', NEW r \in Runners, NEW state, Becomes(r, state),
         RunCovers(state)', UNCHANGED <<push, reviews>>, covered \subseteq covered'
  PROVE  CInv'
<1>1. \A n \in DOMAIN reviews' :
        \/ reviews'[n].stamp = 0
        \/ \E m \in DOMAIN reviews : reviews'[n].stamp = reviews[m].stamp
  OBVIOUS
<1>2. 0 \in {0, Stamp(r)} /\ UNCHANGED push
  BY DEF push
<1> QED
  BY <1>1, <1>2, CoverageStep

LEMMA BeginCovers ==
  ASSUME CInv, NEW r \in Runners, Begin(r)
  PROVE  CInv'
<1>0. PICK entry \in {Unread, Latest} : \E since \in {0, Increment(entry)} :
        Becomes(r, [Idle EXCEPT !.pc = "reviewing", !.head = head, !.entry = entry,
                                !.since = since])
  BY DEF Begin
<1>1. PICK since \in {0, Increment(entry)} :
        Becomes(r, [Idle EXCEPT !.pc = "reviewing", !.head = head, !.entry = entry,
                                !.since = since])
  BY <1>0
<1>2. since \in 0..head /\ Pushes(since) \subseteq covered
  <2>1. CASE since = 0
    BY <2>1, SetupFacts, NothingInNone DEF CInv
  <2>2. CASE since # 0
    <3>1. since = Latest.stamp /\ reviews # <<>>
      BY <2>2 DEF Increment, Unread, Latest
    <3>2. Len(reviews) \in DOMAIN reviews
      BY <3>1, HostFacts, EmptySeq DEF CInv
    <3> QED
      BY <3>1, <3>2 DEF CInv, Coverage, Latest
  <2> QED
    BY <2>1, <2>2
<1>3. PICK state : state.since = since /\ state.complete = FALSE /\ Becomes(r, state)
  BY <1>1 DEF Idle
<1>4. UNCHANGED <<push, reviews, covered>>
  BY DEF Begin, push
<1>5. (Pushes(since) \subseteq covered)'
  BY <1>2, <1>4, StaysCovered DEF CInv
<1>6. RunCovers(state)'
  BY <1>3, <1>5 DEF RunCovers
<1>7. TypeOK'
  BY BeginType DEF CInv
<1> QED
  BY <1>3, <1>4, <1>6, <1>7, QuietStep

LEMMA ReviewCovers ==
  ASSUME CInv, NEW r \in Runners, Review(r)
  PROVE  CInv'
<1>1. PICK found \in SUBSET Findings, complete \in BOOLEAN :
        /\ \E inline \in SUBSET found, fixed \in Validated(r, found) :
             Becomes(r, [run[r] EXCEPT !.pc = "posting", !.found = found, !.inline = inline,
                                       !.complete = complete, !.validated = fixed])
        /\ covered' = IF complete THEN covered \cup Reviewed(r) ELSE covered
  BY DEF Review
<1>2. PICK s \in 0..head, h \in 0..head :
        s = run[r].since /\ h = run[r].head /\ Pushes(s) \subseteq covered
  BY RunFacts, SetupFacts DEF RunOK, CInv, Coverage, RunCovers
<1>3. PICK state : /\ state.since = s /\ state.head = h /\ state.complete = complete
                   /\ Becomes(r, state)
  BY <1>1, <1>2, RunFacts DEF Runs, CInv
<1>4. UNCHANGED <<push, reviews>> /\ covered \subseteq covered'
  BY <1>1 DEF Review, push
<1>5. (Pushes(s) \subseteq covered)'
  BY <1>2, <1>4, StaysCovered DEF CInv
<1>6. ASSUME complete PROVE (Pushes(h) \subseteq covered)'
  <2>1. Pushes(h)' = Pushes(h)
    BY <1>4, PushesStay DEF CInv
  <2> QED
    BY <1>1, <1>2, <1>6, <2>1 DEF Reviewed
<1>7. RunCovers(state)'
  BY <1>3, <1>5, <1>6 DEF RunCovers
<1>8. TypeOK'
  BY ReviewType DEF CInv
<1> QED
  BY <1>3, <1>4, <1>7, <1>8, QuietStep

LEMMA AppendedStamps ==
  ASSUME TypeOK, NEW review \in Reviews, reviews' = Append(reviews, review)
  PROVE  \A n \in DOMAIN reviews' :
           \/ reviews'[n].stamp = review.stamp
           \/ \E m \in DOMAIN reviews : reviews'[n].stamp = reviews[m].stamp
<1>1. DOMAIN reviews' = 1..(Len(reviews) + 1) /\ DOMAIN reviews = 1..Len(reviews)
      /\ Len(reviews) \in Nat
  BY AppendFacts, HostFacts, LenProperties
<1>2. ASSUME NEW n \in DOMAIN reviews'
      PROVE  (n \in DOMAIN reviews /\ reviews'[n] = reviews[n]) \/ reviews'[n] = review
  <2>1. n \in 1..(Len(reviews) + 1)
    BY <1>1
  <2>2. reviews'[n] = IF n <= Len(reviews) THEN reviews[n] ELSE review
    BY <1>1, <2>1, AppendFacts, HostFacts
  <2>3. n <= Len(reviews) => n \in DOMAIN reviews
    BY <1>1, <2>1
  <2> QED
    BY <2>2, <2>3
<1> QED
  BY <1>2

\* The writes that may stamp a watermark.
LEMMA WrittenCovers ==
  ASSUME CInv, TypeOK', NEW r \in Runners,
         run[r].pc \in {"posting", "commenting", "isolating"},
         NEW state, Becomes(r, state),
         state.since = run[r].since, state.head = run[r].head,
         state.complete = run[r].complete,
         NEW review \in Reviews, review.stamp = Stamp(r),
         \/ reviews' = Append(reviews, review)
         \/ \E n \in 1..Len(reviews) : reviews' = [reviews EXCEPT ![n] = review],
         UNCHANGED <<push, covered>>
  PROVE  CInv'
<1>1. \A n \in DOMAIN reviews' :
        \/ reviews'[n].stamp = Stamp(r)
        \/ \E m \in DOMAIN reviews : reviews'[n].stamp = reviews[m].stamp
  <2>1. CASE reviews' = Append(reviews, review)
    BY <2>1, AppendedStamps DEF CInv
  <2>2. CASE \E n \in 1..Len(reviews) : reviews' = [reviews EXCEPT ![n] = review]
    BY <2>2, HostFacts DEF CInv
  <2> QED
    BY <2>1, <2>2
<1>2. UNCHANGED push /\ covered \subseteq covered'
  OBVIOUS
<1>3. RunCovers(state)'
  BY <1>2, GoesOn
<1> QED
  BY <1>1, <1>2, <1>3, CoverageStep

\* What a run is after its last write, heard of or not.
LEMMA WrittenState ==
  ASSUME TypeOK, NEW r \in Runners, Resolving(r) \/ Lost(r)
  PROVE  \E state : /\ Becomes(r, state) /\ state.since = run[r].since
                    /\ state.head = run[r].head /\ state.complete = run[r].complete
                    /\ state.pc \in {"resolving", "failing"}
<1>1. CASE Resolving(r)
  <2> DEFINE state == [run[r] EXCEPT !.pc = "resolving", !.entry = Entry(r),
                                     !.todo = {}, !.rejected = {}, !.tofix = Fixed(r)]
  <2>1. /\ state.since = run[r].since /\ state.head = run[r].head
        /\ state.complete = run[r].complete /\ state.pc = "resolving"
    BY RunFacts DEF Runs
  <2>2. Becomes(r, state)
    BY <1>1 DEF Resolving
  <2> HIDE DEF state
  <2> QED
    BY <2>1, <2>2
<1>2. CASE Lost(r)
  <2> DEFINE state == [run[r] EXCEPT !.pc = "failing", !.entry = Entry(r)]
  <2>1. /\ state.since = run[r].since /\ state.head = run[r].head
        /\ state.complete = run[r].complete /\ state.pc = "failing"
    BY RunFacts DEF Runs
  <2>2. Becomes(r, state)
    BY <1>2 DEF Lost
  <2> HIDE DEF state
  <2> QED
    BY <2>1, <2>2
<1> QED
  BY <1>1, <1>2

LEMMA PostCovers ==
  ASSUME CInv, NEW r \in Runners, Post(r) \/ PostBare(r)
  PROVE  CInv'
<1> DEFINE review == Summary(r, Commit(r), TRUE)
<1>1. review \in Reviews /\ review.stamp = Stamp(r)
  BY CommitType, SummaryType DEF Post, PostBare, CInv, Summary
<1>2. TypeOK'
  BY PostType, PostBareType DEF CInv
<1>3. PICK state : /\ Becomes(r, state) /\ state.since = run[r].since
                   /\ state.head = run[r].head /\ state.complete = run[r].complete
  BY WrittenState DEF Post, PostBare, CInv
<1>4. reviews' = Append(reviews, review) /\ UNCHANGED <<push, covered>>
  BY DEF Post, PostBare, push
<1>5. run[r].pc \in {"posting", "commenting", "isolating"}
  BY DEF Post, PostBare
<1> HIDE DEF review
<1> QED
  BY <1>1, <1>2, <1>3, <1>4, <1>5, WrittenCovers

LEMMA PutCovers ==
  ASSUME CInv, NEW r \in Runners, Put(r) \/ PutAgain(r)
  PROVE  CInv'
<1>1. PICK n \in 1..Len(reviews) :
        reviews' = [reviews EXCEPT ![n] = Summary(r, reviews[n].commit, FALSE)]
  <2>1. CASE Put(r)
    <3>1. Entry(r).id \in 1..Len(reviews)
      BY <2>1, EntryFacts, HostFacts DEF Put, Entries, CInv
    <3> QED
      BY <2>1, <3>1 DEF Put
  <2>2. CASE PutAgain(r)
    <3>1. run[r].entry.id \in 1..Len(reviews)
      BY <2>2, RunFacts DEF RunOK, PutAgain, CInv
    <3> QED
      BY <2>2, <3>1 DEF PutAgain
  <2> QED
    BY <2>1, <2>2
<1> DEFINE review == Summary(r, reviews[n].commit, FALSE)
<1>2. review \in Reviews /\ review.stamp = Stamp(r)
  BY HostFacts, SummaryType DEF CInv, Reviews, Summary
<1>3. TypeOK'
  BY PutType, PutAgainType DEF CInv
<1>4. PICK state : /\ Becomes(r, state) /\ state.since = run[r].since
                   /\ state.head = run[r].head /\ state.complete = run[r].complete
  <2>1. CASE Put(r)
    <3> DEFINE state == [run[r] EXCEPT !.pc = "commenting", !.entry = Entry(r),
                                       !.todo = Unposted(r)]
    <3>1. /\ state.since = run[r].since /\ state.head = run[r].head
          /\ state.complete = run[r].complete
      BY RunFacts DEF Runs, CInv
    <3>2. Becomes(r, state)
      BY <2>1 DEF Put
    <3> HIDE DEF state
    <3> QED
      BY <3>1, <3>2
  <2>2. CASE PutAgain(r)
    BY <2>2, WrittenState DEF PutAgain, CInv
  <2> QED
    BY <2>1, <2>2
<1>5. UNCHANGED <<push, covered>>
  BY DEF Put, PutAgain, push
<1>6. run[r].pc \in {"posting", "commenting", "isolating"}
  BY DEF Put, PutAgain
<1> HIDE DEF review
<1>7. reviews' = [reviews EXCEPT ![n] = review]
  BY <1>1 DEF review
<1> QED
  BY <1>2, <1>3, <1>4, <1>5, <1>6, <1>7, WrittenCovers

\* The actions that leave the summaries alone, and that no summary follows but
\* for a run that could write one already.
LEMMA QuietCovers ==
  ASSUME CInv, TypeOK', NEW r \in Runners,
         \/ PostRefused(r) \/ Commented(r) \/ Fail(r)
         \/ \E f \in Findings : Comment(r, f)
         \/ \E i \in Threads : Mark(r, i) \/ Resolve(r, i) \/ ResolveFails(r, i) \/ Restore(r, i)
  PROVE  CInv'
<1>1. PICK state : /\ Becomes(r, state) /\ state.since = run[r].since
                   /\ state.head = run[r].head /\ state.complete = run[r].complete
                   /\ state.pc \in {"posting", "commenting", "isolating"} =>
                        run[r].pc \in {"posting", "commenting", "isolating"}
  <2>1. CASE PostRefused(r)
    BY <2>1, RunFacts DEF PostRefused, CInv, Runs
  <2>2. CASE Commented(r)
    BY <2>2, WrittenState DEF Commented, CInv
  <2>3. CASE Fail(r)
    BY <2>3, RunFacts DEF Fail, CInv, Runs
  <2>4. CASE \E f \in Findings : Comment(r, f)
    BY <2>4, RunFacts DEF Comment, CInv, Runs
  <2>5. CASE \E i \in Threads :
               Mark(r, i) \/ Resolve(r, i) \/ ResolveFails(r, i) \/ Restore(r, i)
    <3>1. PICK tofix, marked, restoring : Left(r, tofix, marked, restoring)
      BY <2>5 DEF Mark, Resolve, ResolveFails, Restore
    <3> DEFINE state == [run[r] EXCEPT !.tofix = tofix, !.marked = marked,
                                       !.restoring = restoring]
    <3>2. /\ state.since = run[r].since /\ state.head = run[r].head
          /\ state.complete = run[r].complete /\ state.pc = run[r].pc
      BY RunFacts DEF Runs, CInv
    <3>3. Becomes(r, state)
      BY <3>1 DEF Left
    <3> HIDE DEF state
    <3> QED
      BY <3>2, <3>3
  <2> QED
    BY <2>1, <2>2, <2>3, <2>4, <2>5
<1>2. UNCHANGED <<push, reviews>> /\ covered' = covered
  BY DEF PostRefused, Commented, Fail, Comment, Mark, Resolve, ResolveFails, Restore, push
<1>3. RunCovers(state)'
  BY <1>1, <1>2, GoesOn
<1> QED
  BY <1>1, <1>2, <1>3, QuietStep

\* The ways a run ends: with the notice of its failure, or without.
LEMMA EndCovers ==
  ASSUME CInv, TypeOK', NEW r \in Runners, End(r) \/ Crash(r) \/ Notice(r)
  PROVE  CInv'
<1>1. PICK state : state.since = 0 /\ state.complete = FALSE /\ Becomes(r, state)
  BY DEF End, Crash, Notice, Idle
<1>2. UNCHANGED push /\ covered' = covered
  BY DEF End, Crash, Notice, push
<1>3. RunCovers(state)'
  BY <1>1 DEF RunCovers, Pushes
<1>4. \A n \in DOMAIN reviews' :
        \/ reviews'[n].stamp = 0
        \/ \E m \in DOMAIN reviews : reviews'[n].stamp = reviews[m].stamp
  <2>1. CASE reviews' = reviews
    BY <2>1
  <2>2. CASE reviews' = Append(reviews, Blank(head))
    <3>1. Blank(head) \in Reviews /\ Blank(head).stamp = 0
      BY SetupFacts DEF Blank, Reviews, CInv
    <3> QED
      BY <2>2, <3>1, AppendedStamps DEF CInv
  <2>3. CASE /\ Entry(r).id # 0
             /\ reviews' = [reviews EXCEPT ![Entry(r).id] = Blank(@.commit)]
    BY <2>3, HostFacts DEF CInv, Blank
  <2> QED
    BY <2>1, <2>2, <2>3 DEF End, Crash, Notice
<1>5. 0 \in {0, Stamp(r)} /\ covered \subseteq covered'
  BY <1>2
<1> QED
  BY <1>1, <1>2, <1>3, <1>4, <1>5, CoverageStep

LEMMA PushCovers ==
  ASSUME CInv, Push
  PROVE  CInv'
<1>1. TypeOK'
  BY PushType DEF CInv
<1>2. covered' = covered /\ reviews' = reviews /\ run' = run /\ head' = head + 1
  BY DEF Push
<1>3. head \in Nat /\ TypeOK
  BY SetupFacts DEF CInv
<1>4. ASSUME NEW n \in DOMAIN reviews'
      PROVE  (reviews[n].stamp \in 0..head /\ Pushes(reviews[n].stamp) \subseteq covered)'
  <2>1. PICK h \in 0..head : h = reviews[n].stamp /\ Pushes(h) \subseteq covered
    BY <1>2 DEF CInv, Coverage
  <2>2. (Pushes(h) \subseteq covered)'
    BY <1>2, <1>3, <2>1, StaysCovered
  <2>3. h = reviews'[n].stamp /\ h \in 0..head'
    BY <1>2, <1>3, <2>1
  <2> QED
    BY <2>2, <2>3 DEF Pushes, Ahead
<1>5. ASSUME NEW q \in Runners PROVE RunCovers(run[q])'
  <2>1. PICK s \in Runs : s = run[q]
    BY <1>3, RunFacts
  <2>2. RunCovers(s) /\ RunOK(s) /\ run'[q] = s
    BY <1>2, <1>3, <2>1, RunFacts DEF CInv, Coverage
  <2>3. RunCovers(s)'
    BY <1>2, <2>2, RunStep
  <2> QED
    BY <2>2, <2>3 DEF RunCovers, Pushes, Ahead
<1> QED
  BY <1>1, <1>4, <1>5 DEF CInv, Coverage

LEMMA StutterCovers ==
  ASSUME CInv, UNCHANGED vars
  PROVE  CInv'
  BY StutterType DEF CInv, Coverage, RunCovers, Pushes, Ahead, vars

\* Whatever may become a watermark, by this run's hand or a later one's, has been
\* seen through to its first push: the argument for WatermarkCovers.
THEOREM CoverageInvariance == Spec => []CInv
<1>1. Init => CInv
  <2>1. ASSUME Init PROVE Coverage
    BY <2>1, NothingInNone DEF Init, Coverage, RunCovers, Idle
  <2> QED
    BY <2>1, InitType DEF CInv
<1>2. CInv /\ [Next]_vars => CInv'
  <2>1. ASSUME CInv, NEW r \in Runners, Step(r) PROVE CInv'
    <3>1. TypeOK'
      BY <2>1, RunStepType DEF CInv
    <3> QED
      BY <2>1, <3>1, BeginCovers, ReviewCovers, PostCovers, PutCovers, QuietCovers,
         EndCovers DEF Step
  <2> QED
    BY <2>1, PushCovers, StutterCovers DEF Next
<1> QED
  BY <1>1, <1>2, PTL DEF Spec

\* A watermark at a head says that complete reviews have seen every push the head
\* is made of, whatever failed, was stopped or ran beside it: no commit is skipped
\* by the increments (_incremental_context, post_review).
THEOREM NoCommitIsSkipped == Spec => []WatermarkCovers
<1>1. CInv => WatermarkCovers
  BY DEF CInv, Coverage, WatermarkCovers
<1> QED
  BY <1>1, CoverageInvariance, PTL

-------------------------------------------------------------------------------
(* The order of the writes *)

\* The findings that have a comment whose ids count, that have a comment, and that
\* a summary lists.
ActiveOf == {comments[i].finding : i \in {j \in DOMAIN comments : comments[j].active}}
CommentedOf == {comments[i].finding : i \in DOMAIN comments}
ListedOf == UNION {reviews[n].listed : n \in DOMAIN reviews}

\* The threads a run is at.
Begun(state) == state.tofix \cup state.marked \cup state.restoring

\* A thread is at one of its three writes, and only once the review is posted.
Apart(state) ==
  /\ state.pc # "resolving" => Begun(state) = {}
  /\ state.tofix \cap state.marked = {}
  /\ state.tofix \cap state.restoring = {}
  /\ state.marked \cap state.restoring = {}

\* Where a review was refused, each comment is posted, to be posted, or refused too.
Isolates(state) ==
  state.pc = "isolating" => state.inline \subseteq state.todo \cup state.rejected \cup CommentedOf

\* A fresh review has what it owes in its own text or in comments.
FreshInv ==
  \A n \in DOMAIN reviews :
    reviews[n].fresh => reviews[n].owed \subseteq reviews[n].listed \cup CommentedOf

\* At most one run at a time.
OneAtATime ==
  \A p, q \in Runners : run[p].pc # "idle" /\ run[q].pc # "idle" => p = q

\* Where its findings are, for a run that no other runs beside.
Delivers(state) ==
  /\ state.pc \in {"commenting", "isolating"} =>
       /\ state.inline \subseteq state.todo \cup state.rejected \cup ActiveOf
       /\ state.todo \cap ActiveOf = {}
  /\ state.pc = "commenting" =>
       /\ state.entry.id \in DOMAIN reviews
       /\ state.found \ state.inline \subseteq reviews[state.entry.id].listed
  /\ state.pc = "resolving" => state.found \subseteq ActiveOf \cup ListedOf

\* It claims no fix of what it has found.
Claims(state) ==
  /\ state.pc \in {"posting", "commenting", "isolating"} =>
       \A i \in state.validated : comments[i].finding \notin state.found
  /\ \A i \in Begun(state) : comments[i].finding \notin state.found

\* What it has read of the summary is so, until it has written it.
Reads(state) ==
  state.pc \in {"reviewing", "posting", "commenting", "isolating", "failing"} /\ state.entry.read =>
    /\ state.pc \in {"reviewing", "posting"} => state.entry.id = Len(reviews)
    /\ state.entry.id # 0 =>
         LET review == reviews[state.entry.id] IN
         \/ review.stamp \in {0, state.entry.stamp}
         \/ /\ state.pc \in {"commenting", "failing"}
            /\ state.complete /\ review.stamp = state.head /\ ~review.fresh

\* Where no answer to a resolution is lost: its threads are open, and those it is
\* to resolve have been retired.
Open(state) ==
  /\ state.pc \in {"posting", "commenting", "isolating"} =>
       \A i \in state.validated : ~comments[i].resolved
  /\ \A i \in Begun(state) : ~comments[i].resolved
  /\ \A i \in state.marked : ~comments[i].active

SerialInv ==
  Serial =>
    /\ OneAtATime
    /\ \A r \in Runners : Delivers(run[r]) /\ Claims(run[r]) /\ Reads(run[r])
    /\ setup.lossless => ResolvedIsRetired /\ \A r \in Runners : Open(run[r])

OrderInv ==
  /\ FreshInv
  /\ \A r \in Runners : Apart(run[r]) /\ Isolates(run[r])
  /\ SerialInv

-------------------------------------------------------------------------------
(* What the writes leave on the host *)

\* The comments the host has accepted are those that were to be posted.
LEMMA PostedFindings ==
  ASSUME TypeOK, NEW S \in SUBSET Findings, comments' \in Posted(S)
  PROVE  /\ DOMAIN comments \subseteq DOMAIN comments'
         /\ \A i \in DOMAIN comments : comments'[i] = comments[i]
         /\ \A i \in DOMAIN comments' \ DOMAIN comments :
              comments'[i].finding \in S /\ comments'[i].active /\ ~comments'[i].resolved
         /\ ActiveOf' = ActiveOf \cup S
         /\ CommentedOf' = CommentedOf \cup S
<1> DEFINE n == Cardinality(S)
<1>1. IsFiniteSet(S) /\ n \in Nat
  BY FindingAssumption, FS_Subset, FS_CardinalityType DEF FindingAssumption
<1>2. PICK o \in [1..n -> S] :
        /\ \A i, j \in 1..n : o[i] = o[j] => i = j
        /\ comments' = comments \o [i \in 1..n |-> [finding |-> o[i], active |-> TRUE,
                                                    resolved |-> FALSE, outdated |-> FALSE]]
  BY DEF Posted
<1>3. \A f \in S : \E i \in 1..n : o[i] = f
  <2>1. o \in Injection(1..n, S)
    BY <1>2 DEF Injection, IsInjective
  <2>2. Cardinality(1..n) = n
    BY <1>1, FS_Interval
  <2>3. o \in Surjection(1..n, S)
    BY <1>1, <2>1, <2>2, FS_Injection
  <2> QED
    BY <2>3 DEF Surjection
<1> DEFINE t == [i \in 1..n |-> [finding |-> o[i], active |-> TRUE,
                                 resolved |-> FALSE, outdated |-> FALSE]]
<1>4. t \in Seq(Comments) /\ Len(t) = n
  <2>1. t \in [1..n -> Comments]
    BY DEF Comments
  <2> QED
    BY <1>1, <2>1, IsASeq, LenProperties
<1>5. \A i \in 1..n : t[i].finding = o[i] /\ t[i].active /\ ~t[i].resolved
  OBVIOUS
<1> HIDE DEF t, n
<1>6. comments' = comments \o t /\ comments \in Seq(Comments)
  BY <1>2 DEF t, TypeOK
<1> DEFINE L == Len(comments)
<1>7. L \in Nat /\ DOMAIN comments = 1..L
  BY HostFacts
<1>8. /\ DOMAIN comments' = 1..(L + n)
      /\ \A i \in 1..(L + n) : comments'[i] = IF i <= L THEN comments[i] ELSE t[i - L]
  <2>1. comments' \in Seq(Comments) /\ Len(comments') = L + n
    BY <1>4, <1>6, ConcatProperties
  <2>2. DOMAIN comments' = 1..(L + n)
    BY <2>1, LenProperties
  <2> QED
    BY <1>4, <1>6, <2>1, <2>2, ConcatProperties
<1> HIDE DEF L
<1>9. /\ DOMAIN comments \subseteq DOMAIN comments'
      /\ \A i \in DOMAIN comments : comments'[i] = comments[i]
  BY <1>1, <1>7, <1>8
<1>10. ASSUME NEW i \in DOMAIN comments' \ DOMAIN comments
       PROVE  comments'[i].finding \in S /\ comments'[i].active /\ ~comments'[i].resolved
  <2>1. i - L \in 1..n /\ comments'[i] = t[i - L]
    BY <1>1, <1>7, <1>8
  <2> QED
    BY <1>2, <1>5, <2>1
<1>11. ASSUME NEW f \in S
       PROVE  \E i \in DOMAIN comments' : comments'[i].finding = f /\ comments'[i].active
  <2>1. PICK i \in 1..n : o[i] = f
    BY <1>3
  <2>2. L + i \in DOMAIN comments' /\ comments'[L + i] = t[i]
    BY <1>1, <1>7, <1>8
  <2> QED
    BY <1>5, <2>1, <2>2
<1>12. ActiveOf' = ActiveOf \cup S /\ CommentedOf' = CommentedOf \cup S
  BY <1>9, <1>10, <1>11 DEF ActiveOf, CommentedOf
<1> QED
  BY <1>9, <1>10, <1>12

\* The threads that have changed are the comments that were there.
LEMMA SameFindings ==
  ASSUME TypeOK, DOMAIN comments' = DOMAIN comments,
         \A i \in DOMAIN comments : comments'[i].finding = comments[i].finding
  PROVE  CommentedOf' = CommentedOf
  BY DEF CommentedOf

\* The summaries after a write: what is fresh has what it owes.
LEMMA FreshKept ==
  ASSUME TypeOK, FreshInv, reviews' = reviews, CommentedOf \subseteq CommentedOf'
  PROVE  FreshInv'
  BY DEF FreshInv

LEMMA FreshRewritten ==
  ASSUME TypeOK, FreshInv, NEW n \in 1..Len(reviews), NEW review \in Reviews, ~review.fresh,
         reviews' = [reviews EXCEPT ![n] = review], CommentedOf \subseteq CommentedOf'
  PROVE  FreshInv'
<1>1. /\ DOMAIN reviews' = DOMAIN reviews
      /\ \A m \in DOMAIN reviews : reviews'[m] = IF m = n THEN review ELSE reviews[m]
  BY HostFacts
<1> QED
  BY <1>1 DEF FreshInv

\* The summary that is new is the last one.
LEMMA AppendedLast ==
  ASSUME TypeOK, NEW review \in Reviews, reviews' = Append(reviews, review)
  PROVE  /\ DOMAIN reviews \subseteq DOMAIN reviews'
         /\ \A n \in DOMAIN reviews : reviews'[n] = reviews[n]
         /\ \A n \in DOMAIN reviews' \ DOMAIN reviews : reviews'[n] = review
         /\ \E n \in DOMAIN reviews' : reviews'[n] = review
<1>1. /\ DOMAIN reviews' = 1..(Len(reviews) + 1) /\ DOMAIN reviews = 1..Len(reviews)
      /\ Len(reviews) \in Nat
  BY AppendFacts, HostFacts, LenProperties
<1>2. \A n \in 1..(Len(reviews) + 1) :
        reviews'[n] = IF n <= Len(reviews) THEN reviews[n] ELSE review
  BY AppendFacts, HostFacts
<1> DEFINE L == Len(reviews)
<1> HIDE DEF L
<1>3. /\ DOMAIN reviews' = 1..(L + 1) /\ DOMAIN reviews = 1..L /\ L \in Nat
      /\ \A n \in 1..(L + 1) : reviews'[n] = IF n <= L THEN reviews[n] ELSE review
  BY <1>1, <1>2 DEF L
<1>4. L + 1 \in DOMAIN reviews' /\ reviews'[L + 1] = review
  BY <1>3
<1> QED
  BY <1>3, <1>4

LEMMA FreshAppended ==
  ASSUME TypeOK, FreshInv, NEW review \in Reviews, reviews' = Append(reviews, review),
         review.fresh => review.owed \subseteq review.listed \cup CommentedOf',
         CommentedOf \subseteq CommentedOf'
  PROVE  FreshInv'
<1>1. ASSUME NEW n \in DOMAIN reviews', reviews'[n].fresh
      PROVE  reviews'[n].owed \subseteq reviews'[n].listed \cup CommentedOf'
  <2>1. CASE n \in DOMAIN reviews
    BY <1>1, <2>1, AppendedLast DEF FreshInv
  <2>2. CASE n \notin DOMAIN reviews
    BY <1>1, <2>2, AppendedLast
  <2> QED
    BY <2>1, <2>2
<1> QED
  BY <1>1 DEF FreshInv

-------------------------------------------------------------------------------
(* A job's step *)

\* A run that is under way is alone where the runs go one after another.
LEMMA OthersIdle ==
  ASSUME TypeOK, OrderInv, NEW r \in Runners, run[r].pc # "idle", Serial
  PROVE  \A q \in Runners \ {r} : run[q].pc = "idle"
  BY DEF OrderInv, SerialInv, OneAtATime

\* What is left to show of a job's step.
LEMMA OrderStep ==
  ASSUME TypeOK, OrderInv, NEW r \in Runners, NEW state, Becomes(r, state), setup' = setup,
         Serial => \A q \in Runners \ {r} : run[q].pc = "idle",
         CommentedOf \subseteq CommentedOf', FreshInv',
         Apart(state), Isolates(state)',
         Serial => Delivers(state)' /\ Claims(state)' /\ Reads(state)',
         Serial /\ setup.lossless => ResolvedIsRetired' /\ Open(state)'
  PROVE  OrderInv'
<1>1. /\ run'[r] = state
      /\ \A q \in Runners : q # r => run'[q] = run[q]
  BY DEF Becomes, TypeOK
<1>2. ASSUME NEW q \in Runners PROVE Apart(run[q])' /\ Isolates(run[q])'
  <2>1. CASE q = r
    BY <1>1, <2>1 DEF Apart, Isolates, Begun, CommentedOf
  <2>2. CASE q # r
    <3>1. PICK s : s = run[q]
      OBVIOUS
    <3>2. run'[q] = s /\ Apart(s) /\ Isolates(s)
      BY <1>1, <2>2, <3>1 DEF OrderInv
    <3>3. Isolates(s)'
      BY <3>2 DEF Isolates
    <3> QED
      BY <3>2, <3>3 DEF Apart, Isolates, Begun, CommentedOf
  <2> QED
    BY <2>1, <2>2
<1>3. Serial' = Serial
  BY DEF Serial
<1>4. ASSUME Serial
      PROVE  /\ OneAtATime'
             /\ \A q \in Runners : (Delivers(run[q]) /\ Claims(run[q]) /\ Reads(run[q]))'
             /\ setup.lossless => ResolvedIsRetired' /\ \A q \in Runners : Open(run[q])'
  <2>1. \A q \in Runners \ {r} : run'[q].pc = "idle" /\ Begun(run'[q]) = {}
    BY <1>1, <1>4 DEF OrderInv, Apart, Begun
  <2>2. OneAtATime'
    BY <2>1 DEF OneAtATime
  <2>3. ASSUME NEW q \in Runners \ {r}
        PROVE  (Delivers(run[q]) /\ Claims(run[q]) /\ Reads(run[q]) /\ Open(run[q]))'
    BY <2>1 DEF Delivers, Claims, Reads, Open, Begun
  <2>4. (Delivers(run[r]) /\ Claims(run[r]) /\ Reads(run[r]))'
    BY <1>1, <1>4 DEF Delivers, Claims, Reads, Begun, ActiveOf, ListedOf
  <2>5. setup.lossless => ResolvedIsRetired' /\ Open(run[r])'
    BY <1>1, <1>4 DEF Open, Begun
  <2> QED
    BY <2>2, <2>3, <2>4, <2>5
<1> QED
  BY <1>2, <1>3, <1>4 DEF OrderInv, SerialInv

\* A run that is idle holds nothing.
LEMMA IdleOrder ==
  ASSUME TypeOK, OrderInv, NEW r \in Runners, run[r].pc # "idle", Becomes(r, Idle),
         setup' = setup, CommentedOf \subseteq CommentedOf', FreshInv',
         Serial /\ setup.lossless => ResolvedIsRetired'
  PROVE  OrderInv'
<1>1. Idle.pc = "idle" /\ Begun(Idle) = {} /\ Idle.marked = {}
  BY DEF Idle, Begun
<1>2. Apart(Idle)
  BY DEF Idle, Apart, Begun
<1>3. (Isolates(Idle) /\ Delivers(Idle) /\ Claims(Idle) /\ Reads(Idle) /\ Open(Idle))'
  BY <1>1 DEF Isolates, Delivers, Claims, Reads, Open
<1> QED
  BY <1>2, <1>3, OthersIdle, OrderStep

\* The summary that a run finds where no other run writes.
LEMMA EntryReads ==
  ASSUME TypeOK, OrderInv, NEW r \in Runners, run[r].pc \in {"reviewing", "posting"}, Serial
  PROVE  /\ Entry(r).read /\ Entry(r).id = Len(reviews)
         /\ Entry(r).id # 0 => reviews[Entry(r).id].stamp \in {0, Entry(r).stamp}
<1>1. Reads(run[r])
  BY DEF OrderInv, SerialInv
<1>2. reviews = <<>> => Len(reviews) = 0
  OBVIOUS
<1> QED
  BY <1>1, <1>2 DEF Reads, Entry, Latest

LEMMA BeginOrder ==
  ASSUME TypeOK, OrderInv, NEW r \in Runners, Begin(r)
  PROVE  OrderInv'
<1>0. PICK entry \in {Unread, Latest} : \E since \in {0, Increment(entry)} :
        Becomes(r, [Idle EXCEPT !.pc = "reviewing", !.head = head, !.entry = entry,
                                !.since = since])
  BY DEF Begin
<1>1. PICK since \in {0, Increment(entry)} :
        Becomes(r, [Idle EXCEPT !.pc = "reviewing", !.head = head, !.entry = entry,
                                !.since = since])
  BY <1>0
<1>2. PICK state : /\ state.pc = "reviewing" /\ state.entry = entry
                   /\ state.tofix = {} /\ state.marked = {} /\ state.restoring = {}
                   /\ Becomes(r, state)
  BY <1>1 DEF Idle
<1>3. UNCHANGED <<setup, reviews, comments>>
  BY DEF Begin
<1>4. Begun(state) = {} /\ Apart(state)
  BY <1>2 DEF Begun, Apart
<1>5. Reads(state)'
  <2>1. reviews = <<>> => Len(reviews) = 0
    OBVIOUS
  <2>2. entry.read => /\ entry.id = Len(reviews)
                      /\ entry.id # 0 => reviews[entry.id].stamp = entry.stamp
    BY <2>1 DEF Unread, Latest
  <2> QED
    BY <1>2, <1>3, <2>2 DEF Reads
<1>6. (Isolates(state) /\ Delivers(state) /\ Claims(state) /\ Open(state))'
  BY <1>2, <1>4 DEF Isolates, Delivers, Claims, Open
<1>7. Serial => \A q \in Runners \ {r} : run[q].pc = "idle"
  BY DEF Begin, Serial
<1>8. CommentedOf' = CommentedOf
  BY <1>3 DEF CommentedOf
<1>9. FreshInv' /\ (Serial /\ setup.lossless => ResolvedIsRetired')
  BY <1>3, <1>8, FreshKept DEF OrderInv, SerialInv, ResolvedIsRetired
<1> QED
  BY <1>2, <1>3, <1>4, <1>5, <1>6, <1>7, <1>8, <1>9, OrderStep

LEMMA ReviewOrder ==
  ASSUME TypeOK, OrderInv, NEW r \in Runners, Review(r)
  PROVE  OrderInv'
<1>0. PICK found \in SUBSET Findings, complete \in BOOLEAN :
        \E inline \in SUBSET found, fixed \in Validated(r, found) :
          Becomes(r, [run[r] EXCEPT !.pc = "posting", !.found = found, !.inline = inline,
                                    !.complete = complete, !.validated = fixed])
  BY DEF Review
<1>1. PICK inline \in SUBSET found, fixed \in Validated(r, found) :
        Becomes(r, [run[r] EXCEPT !.pc = "posting", !.found = found, !.inline = inline,
                                  !.complete = complete, !.validated = fixed])
  BY <1>0
<1>2. PICK state : /\ state.pc = "posting" /\ state.entry = run[r].entry
                   /\ state.found = found /\ state.validated = fixed
                   /\ state.tofix = run[r].tofix /\ state.marked = run[r].marked
                   /\ state.restoring = run[r].restoring
                   /\ Becomes(r, state)
  BY <1>1, RunFacts DEF Runs
<1>3. UNCHANGED <<setup, reviews, comments>> /\ run[r].pc = "reviewing"
  BY DEF Review
<1>4. Begun(state) = {} /\ Apart(state)
  BY <1>2, <1>3 DEF OrderInv, Apart, Begun
<1>5. \A i \in fixed : comments[i].finding \notin found /\ ~comments[i].resolved
  BY DEF Validated, Fixable, Active
<1>6. Serial => Reads(state)'
  BY <1>2, <1>3 DEF OrderInv, SerialInv, Reads
<1>7. (Isolates(state) /\ Delivers(state) /\ Claims(state) /\ Open(state))'
  BY <1>2, <1>3, <1>4, <1>5 DEF Isolates, Delivers, Claims, Open, Begun
<1>8. CommentedOf' = CommentedOf
  BY <1>3 DEF CommentedOf
<1>9. FreshInv' /\ (Serial /\ setup.lossless => ResolvedIsRetired')
  BY <1>3, <1>8, FreshKept DEF OrderInv, SerialInv, ResolvedIsRetired
<1>10. Serial => \A q \in Runners \ {r} : run[q].pc = "idle"
  BY <1>3, OthersIdle
<1> QED
  BY <1>2, <1>3, <1>4, <1>6, <1>7, <1>8, <1>9, <1>10, OrderStep

\* What there is to comment is what no active comment says.
LEMMA UnpostedFacts ==
  ASSUME NEW r \in Runners
  PROVE  Unposted(r) \cap ActiveOf = {} /\ run[r].inline \subseteq Unposted(r) \cup ActiveOf
         /\ ActiveOf \subseteq CommentedOf
  BY DEF Unposted, ActiveOf, CommentedOf

LEMMA PutOrder ==
  ASSUME TypeOK, OrderInv, NEW r \in Runners, Put(r)
  PROVE  OrderInv'
<1> DEFINE n == Entry(r).id
           review == Summary(r, reviews[n].commit, FALSE)
<1>1. n \in 1..Len(reviews) /\ n \in DOMAIN reviews
  BY EntryFacts, HostFacts DEF Put, Entries
<1>2. review \in Reviews /\ ~review.fresh /\ review.stamp = Stamp(r) /\ review.listed = Listed(r)
  BY <1>1, HostFacts, SummaryType DEF Reviews, Summary
<1>3. /\ reviews' = [reviews EXCEPT ![n] = review]
      /\ UNCHANGED <<setup, comments>> /\ run[r].pc = "posting"
  BY DEF Put
<1>4. PICK state : /\ state.pc = "commenting" /\ state.entry = Entry(r)
                   /\ state.todo = Unposted(r) /\ state.rejected = run[r].rejected
                   /\ state.found = run[r].found /\ state.inline = run[r].inline
                   /\ state.complete = run[r].complete /\ state.head = run[r].head
                   /\ state.validated = run[r].validated
                   /\ state.tofix = run[r].tofix /\ state.marked = run[r].marked
                   /\ state.restoring = run[r].restoring
                   /\ Becomes(r, state)
  <2>1. Becomes(r, [run[r] EXCEPT !.pc = "commenting", !.entry = Entry(r),
                                  !.todo = Unposted(r)])
    BY DEF Put
  <2> QED
    BY <2>1, RunFacts DEF Runs
<1> HIDE DEF review, n
<1>5. reviews'[n] = review /\ n \in DOMAIN reviews'
  BY <1>1, <1>3, HostFacts
<1>6. Begun(state) = {} /\ Apart(state)
  BY <1>3, <1>4 DEF OrderInv, Apart, Begun
<1>7. ActiveOf' = ActiveOf /\ CommentedOf' = CommentedOf
  BY <1>3 DEF ActiveOf, CommentedOf
<1>8. Delivers(state)'
  <2>1. state.entry.id = n
    BY <1>4 DEF n
  <2>2. state.found \ state.inline \subseteq reviews'[n].listed
    BY <1>2, <1>4, <1>5 DEF Listed
  <2>3. /\ state.inline \subseteq state.todo \cup state.rejected \cup ActiveOf'
        /\ state.todo \cap ActiveOf' = {}
    BY <1>4, <1>7, UnpostedFacts
  <2> QED
    BY <1>4, <1>5, <2>1, <2>2, <2>3 DEF Delivers
<1>9. Reads(state)'
  <2>1. Stamp(r) = 0 \/ (state.complete /\ Stamp(r) = state.head)
    BY <1>4 DEF Stamp
  <2>2. state.entry.id = n
    BY <1>4 DEF n
  <2> QED
    BY <1>2, <1>4, <1>5, <2>1, <2>2 DEF Reads
<1>10. Isolates(state)'
  BY <1>4 DEF Isolates
<1>11. Serial => Claims(state)'
  BY <1>3, <1>4, <1>6 DEF OrderInv, SerialInv, Claims
<1>12. Serial /\ setup.lossless => ResolvedIsRetired' /\ Open(state)'
  BY <1>3, <1>4, <1>6 DEF OrderInv, SerialInv, Open, ResolvedIsRetired, Begun
<1>13. FreshInv'
  BY <1>1, <1>2, <1>3, <1>7, FreshRewritten DEF OrderInv
<1>14. Serial => \A q \in Runners \ {r} : run[q].pc = "idle"
  BY <1>3, OthersIdle
<1> QED
  BY <1>3, <1>4, <1>6, <1>7, <1>8, <1>9, <1>10, <1>11, <1>12, <1>13, <1>14, OrderStep

LEMMA PostRefusedOrder ==
  ASSUME TypeOK, OrderInv, NEW r \in Runners, PostRefused(r)
  PROVE  OrderInv'
<1>1. UNCHANGED <<setup, reviews, comments>> /\ run[r].pc = "posting"
  BY DEF PostRefused
<1>2. PICK state : /\ state.pc = "isolating" /\ state.entry = Entry(r)
                   /\ state.todo = Unposted(r) /\ state.rejected = run[r].rejected
                   /\ state.found = run[r].found /\ state.inline = run[r].inline
                   /\ state.complete = run[r].complete /\ state.head = run[r].head
                   /\ state.validated = run[r].validated
                   /\ state.tofix = run[r].tofix /\ state.marked = run[r].marked
                   /\ state.restoring = run[r].restoring
                   /\ Becomes(r, state)
  <2>1. Becomes(r, [run[r] EXCEPT !.pc = "isolating", !.entry = Entry(r),
                                  !.todo = Unposted(r)])
    BY DEF PostRefused
  <2> QED
    BY <2>1, RunFacts DEF Runs
<1>3. Begun(state) = {} /\ Apart(state)
  BY <1>1, <1>2 DEF OrderInv, Apart, Begun
<1>4. ActiveOf' = ActiveOf /\ CommentedOf' = CommentedOf
  BY <1>1 DEF ActiveOf, CommentedOf
<1>5. Delivers(state)' /\ Isolates(state)'
  BY <1>2, <1>4, UnpostedFacts DEF Delivers, Isolates
<1>6. Serial => Reads(state)'
  BY <1>1, <1>2, EntryReads DEF Reads
<1>7. Serial => Claims(state)'
  BY <1>1, <1>2, <1>3 DEF OrderInv, SerialInv, Claims
<1>8. Serial /\ setup.lossless => ResolvedIsRetired' /\ Open(state)'
  BY <1>1, <1>2, <1>3 DEF OrderInv, SerialInv, Open, ResolvedIsRetired, Begun
<1>9. FreshInv'
  BY <1>1, <1>4, FreshKept DEF OrderInv
<1>10. Serial => \A q \in Runners \ {r} : run[q].pc = "idle"
  BY <1>1, OthersIdle
<1> QED
  BY <1>1, <1>2, <1>3, <1>4, <1>5, <1>6, <1>7, <1>8, <1>9, <1>10, OrderStep

LEMMA CommentOrder ==
  ASSUME TypeOK, OrderInv, NEW r \in Runners, NEW f \in Findings, Comment(r, f)
  PROVE  OrderInv'
<1>1. UNCHANGED <<setup, reviews>> /\ run[r].pc \in {"commenting", "isolating"} /\ f \in run[r].todo
  BY DEF Comment
<1>2. PICK rejected \in {run[r].rejected, run[r].rejected \cup {f}} :
        /\ \/ comments' \in Posted({f}) /\ rejected = run[r].rejected
           \/ comments' = comments /\ rejected = run[r].rejected \cup {f}
        /\ Becomes(r, [run[r] EXCEPT !.todo = run[r].todo \ {f}, !.rejected = rejected])
  <2>1. CASE /\ comments' \in Posted({f})
             /\ Becomes(r, [run[r] EXCEPT !.todo = @ \ {f}])
    <3>1. [run[r] EXCEPT !.todo = @ \ {f}]
            = [run[r] EXCEPT !.todo = @ \ {f}, !.rejected = run[r].rejected]
      BY RunFacts DEF Runs
    <3> QED
      BY <2>1, <3>1
  <2>2. CASE /\ Becomes(r, [run[r] EXCEPT !.todo = @ \ {f}, !.rejected = @ \cup {f}])
             /\ UNCHANGED comments
    BY <2>2
  <2> QED
    BY <2>1, <2>2 DEF Comment
<1>3. PICK state : /\ state.pc = run[r].pc /\ state.entry = run[r].entry
                   /\ state.todo = run[r].todo \ {f} /\ state.rejected = rejected
                   /\ state.found = run[r].found /\ state.inline = run[r].inline
                   /\ state.complete = run[r].complete /\ state.head = run[r].head
                   /\ state.validated = run[r].validated
                   /\ state.tofix = run[r].tofix /\ state.marked = run[r].marked
                   /\ state.restoring = run[r].restoring
                   /\ Becomes(r, state)
  BY <1>2, RunFacts DEF Runs
<1>4. /\ DOMAIN comments \subseteq DOMAIN comments'
      /\ \A i \in DOMAIN comments : comments'[i] = comments[i]
      /\ \A i \in DOMAIN comments' \ DOMAIN comments :
           comments'[i].active /\ ~comments'[i].resolved
      /\ ActiveOf' \in {ActiveOf, ActiveOf \cup {f}}
      /\ f \in ActiveOf' \cup rejected
      /\ ActiveOf' \subseteq CommentedOf' /\ CommentedOf \subseteq CommentedOf'
  <2>1. ActiveOf' \subseteq CommentedOf'
    BY DEF ActiveOf, CommentedOf
  <2>2. CASE comments' \in Posted({f})
    <3>1. {f} \in SUBSET Findings
      OBVIOUS
    <3> QED
      BY <2>1, <2>2, <3>1, PostedFindings
  <2>3. CASE comments' = comments /\ rejected = run[r].rejected \cup {f}
    BY <2>1, <2>3 DEF ActiveOf, CommentedOf
  <2> QED
    BY <1>2, <2>2, <2>3
<1>5. Begun(state) = {} /\ Apart(state)
  BY <1>1, <1>3 DEF OrderInv, Apart, Begun
<1>6. Isolates(state)'
  BY <1>2, <1>3, <1>4 DEF OrderInv, Isolates
<1>7. Serial => Delivers(state)'
  <2> SUFFICES ASSUME Serial PROVE Delivers(state)'
    OBVIOUS
  <2>1. Delivers(run[r])
    BY DEF OrderInv, SerialInv
  <2>2. /\ run[r].inline \subseteq run[r].todo \cup run[r].rejected \cup ActiveOf
        /\ run[r].todo \cap ActiveOf = {}
    BY <1>1, <2>1 DEF Delivers
  <2>3. /\ state.inline \subseteq state.todo \cup state.rejected \cup ActiveOf'
        /\ state.todo \cap ActiveOf' = {}
    BY <1>2, <1>3, <1>4, <2>2
  <2> QED
    BY <1>1, <1>3, <2>1, <2>3 DEF Delivers
<1>8. Serial => Reads(state)'
  BY <1>1, <1>3 DEF OrderInv, SerialInv, Reads
<1>9. run[r].validated \subseteq DOMAIN comments
  BY RunFacts, HostFacts DEF RunOK
<1>10. Serial => Claims(state)'
  BY <1>1, <1>3, <1>4, <1>5, <1>9 DEF OrderInv, SerialInv, Claims
<1>11. Serial /\ setup.lossless => ResolvedIsRetired' /\ Open(state)'
  BY <1>1, <1>3, <1>4, <1>5, <1>9 DEF OrderInv, SerialInv, Open, ResolvedIsRetired, Begun
<1>12. FreshInv'
  BY <1>1, <1>4, FreshKept DEF OrderInv
<1>13. Serial => \A q \in Runners \ {r} : run[q].pc = "idle"
  BY <1>1, OthersIdle
<1> QED
  BY <1>1, <1>3, <1>4, <1>5, <1>6, <1>7, <1>8, <1>10, <1>11, <1>12, <1>13, OrderStep

\* The comments are those that were there, and new ones.
Grows ==
  /\ DOMAIN comments \subseteq DOMAIN comments'
  /\ \A i \in DOMAIN comments : comments'[i] = comments[i]
  /\ \A i \in DOMAIN comments' \ DOMAIN comments :
       comments'[i].active /\ ~comments'[i].resolved
  /\ ActiveOf \subseteq ActiveOf' /\ CommentedOf \subseteq CommentedOf'

LEMMA SameGrows ==
  ASSUME comments' = comments
  PROVE  Grows
  BY DEF Grows, ActiveOf, CommentedOf

\* What a run may say is fixed is what it has not found.
LEMMA FixedFacts ==
  ASSUME TypeOK, OrderInv, NEW r \in Runners, run[r].pc \in {"posting", "commenting", "isolating"},
         Serial, NEW i \in Fixed(r)
  PROVE  /\ i \in DOMAIN comments
         /\ comments[i].finding \notin run[r].found
         /\ setup.lossless => ~comments[i].resolved
<1>1. /\ Claims(run[r])
      /\ setup.lossless => Open(run[r])
      /\ run[r].validated \subseteq DOMAIN comments
  BY RunFacts, HostFacts DEF OrderInv, SerialInv, RunOK
<1>2. CASE i \in run[r].validated
  BY <1>1, <1>2 DEF Claims, Open
<1>3. CASE i \in Fixable(run[r].found)
  BY <1>3 DEF Fixable, Active
<1> QED
  BY <1>2, <1>3 DEF Fixed

\* A write that the run hears of, or does not.
LEMMA WrittenOrder ==
  ASSUME TypeOK, OrderInv, NEW r \in Runners,
         run[r].pc \in {"posting", "commenting", "isolating"},
         Resolving(r) \/ Lost(r), setup' = setup, Grows, FreshInv',
         Serial => run[r].found \subseteq ActiveOf' \cup ListedOf',
         Serial /\ Entry(r).id # 0 =>
           \/ reviews'[Entry(r).id].stamp \in {0, Entry(r).stamp}
           \/ /\ run[r].complete /\ reviews'[Entry(r).id].stamp = run[r].head
              /\ ~reviews'[Entry(r).id].fresh
  PROVE  OrderInv'
<1>1. Begun(run[r]) = {}
  BY DEF OrderInv, Apart
<1>2. Serial => \A q \in Runners \ {r} : run[q].pc = "idle"
  BY OthersIdle
<1>3. Serial /\ setup.lossless => ResolvedIsRetired'
  BY DEF OrderInv, SerialInv, ResolvedIsRetired, Grows
<1>4. CASE Resolving(r)
  <2>1. PICK state : /\ state.pc = "resolving" /\ state.found = run[r].found
                     /\ state.tofix = Fixed(r) /\ state.marked = run[r].marked
                     /\ state.restoring = run[r].restoring
                     /\ Becomes(r, state)
    <3>1. Becomes(r, [run[r] EXCEPT !.pc = "resolving", !.entry = Entry(r), !.todo = {},
                                    !.rejected = {}, !.tofix = Fixed(r)])
      BY <1>4 DEF Resolving
    <3> QED
      BY <3>1, RunFacts DEF Runs
  <2>2. Begun(state) = Fixed(r) /\ Apart(state) /\ state.marked = {}
    BY <1>1, <2>1 DEF Begun, Apart
  <2>3. Isolates(state)' /\ Reads(state)'
    BY <2>1 DEF Isolates, Reads
  <2>4. Serial => Delivers(state)'
    BY <2>1 DEF Delivers
  <2>5. Serial => Claims(state)'
    BY <2>1, <2>2, FixedFacts DEF Claims, Grows
  <2>6. Serial /\ setup.lossless => Open(state)'
    BY <2>1, <2>2, FixedFacts DEF Open, Grows
  <2> QED
    BY <1>2, <1>3, <2>1, <2>2, <2>3, <2>4, <2>5, <2>6, OrderStep DEF Grows
<1>5. CASE Lost(r)
  <2>1. PICK state : /\ state.pc = "failing" /\ state.entry = Entry(r)
                     /\ state.complete = run[r].complete /\ state.head = run[r].head
                     /\ state.tofix = run[r].tofix /\ state.marked = run[r].marked
                     /\ state.restoring = run[r].restoring
                     /\ Becomes(r, state)
    <3>1. Becomes(r, [run[r] EXCEPT !.pc = "failing", !.entry = Entry(r)])
      BY <1>5 DEF Lost
    <3> QED
      BY <3>1, RunFacts DEF Runs
  <2>2. Begun(state) = {} /\ Apart(state) /\ state.marked = {}
    BY <1>1, <2>1 DEF Begun, Apart
  <2>3. (Isolates(state) /\ Delivers(state) /\ Claims(state) /\ Open(state))'
    BY <2>1, <2>2 DEF Isolates, Delivers, Claims, Open
  <2>4. Serial => Reads(state)'
    BY <2>1 DEF Reads
  <2> QED
    BY <1>2, <1>3, <2>1, <2>2, <2>3, <2>4, OrderStep DEF Grows
<1> QED
  BY <1>4, <1>5

\* What its summary lists is on the pull request.
LEMMA ListedStays ==
  ASSUME NEW n \in DOMAIN reviews
  PROVE  reviews[n].listed \subseteq ListedOf
  BY DEF ListedOf

LEMMA PostOrder ==
  ASSUME TypeOK, OrderInv, NEW r \in Runners, Post(r)
  PROVE  OrderInv'
<1> DEFINE review == Summary(r, Commit(r), TRUE)
<1>1. /\ review \in Reviews /\ review.fresh
      /\ review.listed = Listed(r) /\ review.owed \subseteq run[r].found
  BY CommitType, SummaryType DEF Post, Summary
<1>2. /\ reviews' = Append(reviews, review) /\ comments' \in Posted(Carried(r))
      /\ Resolving(r) \/ Lost(r)
      /\ run[r].pc = "posting" /\ setup' = setup
  BY DEF Post
<1> HIDE DEF review
<1>3. Carried(r) \in SUBSET Findings /\ run[r].inline \subseteq Carried(r) \cup ActiveOf
  BY RunFacts, UnpostedFacts DEF Carried, Unposted, Runs
<1>4. Grows
  BY <1>2, <1>3, PostedFindings DEF Grows
<1>5. run[r].inline \subseteq ActiveOf' /\ ActiveOf' \subseteq CommentedOf'
  <2>1. ActiveOf' = ActiveOf \cup Carried(r)
    BY <1>2, <1>3, PostedFindings
  <2>2. ActiveOf' \subseteq CommentedOf'
    BY DEF ActiveOf, CommentedOf
  <2> QED
    BY <1>3, <2>1, <2>2
<1>6. run[r].found \subseteq review.listed \cup ActiveOf'
  BY <1>1, <1>5 DEF Listed
<1>7. FreshInv'
  BY <1>1, <1>2, <1>4, <1>5, <1>6, FreshAppended DEF OrderInv, Grows
<1>8. review.listed \subseteq ListedOf'
  BY <1>1, <1>2, AppendedLast DEF ListedOf
<1>9. Serial /\ Entry(r).id # 0 => reviews'[Entry(r).id].stamp \in {0, Entry(r).stamp}
  <2>1. Entry(r).id # 0 => Entry(r).id \in DOMAIN reviews
    BY EntryFacts, HostFacts
  <2> QED
    BY <1>1, <1>2, <2>1, EntryReads, AppendedLast
<1> QED
  BY <1>2, <1>4, <1>6, <1>7, <1>8, <1>9, WrittenOrder

LEMMA PostBareOrder ==
  ASSUME TypeOK, OrderInv, NEW r \in Runners, PostBare(r)
  PROVE  OrderInv'
<1> DEFINE review == Summary(r, Commit(r), TRUE)
<1>1. /\ review \in Reviews /\ review.fresh
      /\ review.listed = Listed(r) /\ review.owed \subseteq run[r].found
  BY CommitType, SummaryType DEF PostBare, Summary
<1>2. /\ reviews' = Append(reviews, review) /\ UNCHANGED <<setup, comments>>
      /\ Resolving(r) \/ Lost(r)
      /\ run[r].pc = "isolating" /\ run[r].todo = {}
  BY DEF PostBare
<1> HIDE DEF review
<1>3. Grows /\ ActiveOf' = ActiveOf /\ CommentedOf' = CommentedOf
  BY <1>2, SameGrows DEF ActiveOf, CommentedOf
<1>4. run[r].found \subseteq review.listed \cup CommentedOf
  BY <1>1, <1>2 DEF OrderInv, Isolates, Listed
<1>5. Serial => run[r].found \subseteq review.listed \cup ActiveOf
  BY <1>1, <1>2 DEF OrderInv, SerialInv, Delivers, Listed
<1>6. FreshInv'
  BY <1>1, <1>2, <1>3, <1>4, FreshAppended DEF OrderInv
<1>7. review.listed \subseteq ListedOf'
  BY <1>1, <1>2, AppendedLast DEF ListedOf
<1>8. Serial /\ Entry(r).id # 0 => reviews'[Entry(r).id].stamp \in {0, Entry(r).stamp}
  <2>1. Entry(r).id # 0 => Entry(r).id \in DOMAIN reviews
    BY EntryFacts, HostFacts
  <2>2. ASSUME Serial, Entry(r).id # 0
        PROVE  reviews[Entry(r).id].stamp \in {0, Entry(r).stamp}
    <3>1. Reads(run[r])
      BY <2>2 DEF OrderInv, SerialInv
    <3>2. reviews = <<>> => Len(reviews) = 0
      OBVIOUS
    <3> QED
      BY <1>2, <2>2, <3>1, <3>2 DEF Reads, Entry, Latest
  <2> QED
    BY <1>1, <1>2, <2>1, <2>2, AppendedLast
<1> QED
  BY <1>2, <1>3, <1>5, <1>6, <1>7, <1>8, WrittenOrder

LEMMA CommentedOrder ==
  ASSUME TypeOK, OrderInv, NEW r \in Runners, Commented(r)
  PROVE  OrderInv'
<1>1. /\ UNCHANGED <<setup, reviews, comments>> /\ Resolving(r)
      /\ run[r].pc = "commenting" /\ run[r].todo = {} /\ run[r].rejected = {}
  BY DEF Commented
<1>2. Grows /\ ActiveOf' = ActiveOf /\ CommentedOf' = CommentedOf /\ ListedOf' = ListedOf
  BY <1>1, SameGrows DEF ActiveOf, CommentedOf, ListedOf
<1>3. FreshInv'
  BY <1>1, <1>2, FreshKept DEF OrderInv
<1>4. ASSUME Serial
      PROVE  /\ run[r].found \subseteq ActiveOf \cup ListedOf
             /\ Reads(run[r])
  <2>1. Delivers(run[r]) /\ Reads(run[r])
    BY <1>4 DEF OrderInv, SerialInv
  <2>2. run[r].found \ run[r].inline \subseteq ListedOf
    BY <1>1, <2>1, ListedStays DEF Delivers
  <2> QED
    BY <1>1, <2>1, <2>2 DEF Delivers
<1>5. ASSUME Serial, Entry(r).id # 0
      PROVE  \/ reviews[Entry(r).id].stamp \in {0, Entry(r).stamp}
             \/ /\ run[r].complete /\ reviews[Entry(r).id].stamp = run[r].head
                /\ ~reviews[Entry(r).id].fresh
  <2>1. reviews = <<>> => Len(reviews) = 0
    OBVIOUS
  <2>2. Reads(run[r])
    BY <1>4, <1>5
  <2>3. CASE run[r].entry.read
    BY <1>1, <1>5, <2>2, <2>3 DEF Reads, Entry
  <2>4. CASE ~run[r].entry.read
    BY <1>5, <2>1, <2>4 DEF Entry, Latest
  <2> QED
    BY <2>3, <2>4
<1> QED
  BY <1>1, <1>2, <1>3, <1>4, <1>5, WrittenOrder

LEMMA PutAgainOrder ==
  ASSUME TypeOK, OrderInv, NEW r \in Runners, PutAgain(r)
  PROVE  OrderInv'
<1> DEFINE n == run[r].entry.id
           review == Summary(r, reviews[n].commit, FALSE)
<1>1. n \in 1..Len(reviews) /\ n \in DOMAIN reviews
  BY RunFacts, HostFacts DEF PutAgain, RunOK
<1>2. review \in Reviews /\ ~review.fresh /\ review.stamp = Stamp(r) /\ review.listed = Listed(r)
  BY <1>1, HostFacts, SummaryType DEF Reviews, Summary
<1>3. /\ reviews' = [reviews EXCEPT ![n] = review] /\ UNCHANGED <<setup, comments>>
      /\ Resolving(r) \/ Lost(r)
      /\ run[r].pc = "commenting" /\ run[r].todo = {}
  BY DEF PutAgain
<1> HIDE DEF review, n
<1>4. reviews'[n] = review /\ n \in DOMAIN reviews' /\ DOMAIN reviews' = DOMAIN reviews
      /\ \A m \in DOMAIN reviews : m # n => reviews'[m] = reviews[m]
  BY <1>1, <1>3, HostFacts
<1>5. Grows /\ ActiveOf' = ActiveOf /\ CommentedOf' = CommentedOf
  BY <1>3, SameGrows DEF ActiveOf, CommentedOf
<1>6. FreshInv'
  BY <1>1, <1>2, <1>3, <1>5, FreshRewritten DEF OrderInv
<1>7. Serial => run[r].found \subseteq ActiveOf' \cup ListedOf'
  <2>1. review.listed \subseteq ListedOf'
    BY <1>4 DEF ListedOf
  <2>2. Serial => run[r].inline \subseteq run[r].rejected \cup ActiveOf
    BY <1>3 DEF OrderInv, SerialInv, Delivers
  <2> QED
    BY <1>2, <1>5, <2>1, <2>2 DEF Listed
<1>8. ASSUME Serial, Entry(r).id # 0
      PROVE  \/ reviews'[Entry(r).id].stamp \in {0, Entry(r).stamp}
             \/ /\ run[r].complete /\ reviews'[Entry(r).id].stamp = run[r].head
                /\ ~reviews'[Entry(r).id].fresh
  <2>1. Stamp(r) = 0 \/ (run[r].complete /\ Stamp(r) = run[r].head)
    BY DEF Stamp
  <2>2. CASE Entry(r).id = n
    BY <1>2, <1>4, <2>1, <2>2
  <2>3. CASE Entry(r).id # n
    <3>1. Entry(r) = Latest /\ (reviews = <<>> => Len(reviews) = 0)
      BY <2>3 DEF Entry, n
    <3>2. Entry(r).id \in DOMAIN reviews /\ reviews[Entry(r).id].stamp = Entry(r).stamp
      BY <1>8, <3>1, EntryFacts, HostFacts DEF Latest
    <3> QED
      BY <1>4, <2>3, <3>2
  <2> QED
    BY <2>2, <2>3
<1> QED
  BY <1>3, <1>5, <1>6, <1>7, <1>8, WrittenOrder

LEMMA FailOrder ==
  ASSUME TypeOK, OrderInv, NEW r \in Runners, Fail(r)
  PROVE  OrderInv'
<1>1. /\ UNCHANGED <<setup, reviews, comments>>
      /\ run[r].pc \in {"reviewing", "posting", "commenting", "isolating"}
      /\ Becomes(r, [run[r] EXCEPT !.pc = "failing"])
  BY DEF Fail
<1>2. PICK state : /\ state.pc = "failing" /\ state.entry = run[r].entry
                   /\ state.complete = run[r].complete /\ state.head = run[r].head
                   /\ state.tofix = run[r].tofix /\ state.marked = run[r].marked
                   /\ state.restoring = run[r].restoring
                   /\ Becomes(r, state)
  BY <1>1, RunFacts DEF Runs
<1>3. Begun(state) = {} /\ Apart(state) /\ state.marked = {}
  BY <1>1, <1>2 DEF OrderInv, Apart, Begun
<1>4. (Isolates(state) /\ Delivers(state) /\ Claims(state) /\ Open(state))'
  BY <1>2, <1>3 DEF Isolates, Delivers, Claims, Open
<1>5. Serial => Reads(state)'
  BY <1>1, <1>2 DEF OrderInv, SerialInv, Reads
<1>6. CommentedOf' = CommentedOf
  BY <1>1 DEF CommentedOf
<1>7. FreshInv' /\ (Serial /\ setup.lossless => ResolvedIsRetired')
  BY <1>1, <1>6, FreshKept DEF OrderInv, SerialInv, ResolvedIsRetired
<1>8. Serial => \A q \in Runners \ {r} : run[q].pc = "idle"
  BY <1>1, OthersIdle
<1> QED
  BY <1>1, <1>2, <1>3, <1>4, <1>5, <1>6, <1>7, <1>8, OrderStep

LEMMA EndOrder ==
  ASSUME TypeOK, OrderInv, NEW r \in Runners, End(r) \/ Crash(r)
  PROVE  OrderInv'
<1>1. /\ UNCHANGED <<setup, reviews, comments>> /\ Becomes(r, Idle)
      /\ run[r].pc # "idle"
  BY DEF End, Crash
<1>2. CommentedOf' = CommentedOf
  BY <1>1 DEF CommentedOf
<1>3. FreshInv' /\ (Serial /\ setup.lossless => ResolvedIsRetired')
  BY <1>1, <1>2, FreshKept DEF OrderInv, SerialInv, ResolvedIsRetired
<1> QED
  BY <1>1, <1>2, <1>3, IdleOrder

LEMMA NoticeOrder ==
  ASSUME TypeOK, OrderInv, NEW r \in Runners, Notice(r)
  PROVE  OrderInv'
<1>1. /\ UNCHANGED <<setup, comments>> /\ Becomes(r, Idle) /\ run[r].pc = "failing"
  BY DEF Notice
<1>2. CommentedOf' = CommentedOf
  BY <1>1 DEF CommentedOf
<1>3. \A commit \in Nat \ {0} : Blank(commit) \in Reviews /\ ~Blank(commit).fresh
  BY DEF Blank, Reviews
<1>4. FreshInv'
  <2>1. CASE reviews' = reviews
    BY <1>2, <2>1, FreshKept DEF OrderInv
  <2>2. CASE reviews' = Append(reviews, Blank(head))
    BY <1>2, <1>3, <2>2, SetupFacts, FreshAppended DEF OrderInv
  <2>3. CASE Entry(r).id # 0
             /\ reviews' = [reviews EXCEPT ![Entry(r).id] = Blank(@.commit)]
    <3> DEFINE n == Entry(r).id
    <3>1. n \in 1..Len(reviews)
      BY <2>3, EntryFacts, HostFacts
    <3>2. Blank(reviews[n].commit) \in Reviews /\ ~Blank(reviews[n].commit).fresh
      BY <1>3, <3>1, HostFacts DEF Reviews
    <3> QED
      BY <1>2, <2>3, <3>1, <3>2, FreshRewritten DEF OrderInv
  <2> QED
    BY <2>1, <2>2, <2>3 DEF Notice
<1>5. Serial /\ setup.lossless => ResolvedIsRetired'
  BY <1>1 DEF OrderInv, SerialInv, ResolvedIsRetired
<1> QED
  BY <1>1, <1>2, <1>4, <1>5, IdleOrder

-------------------------------------------------------------------------------
(* The threads, and the pull request *)

\* What is left to show of a write to a thread.
LEMMA ThreadStep ==
  ASSUME TypeOK, OrderInv, NEW r \in Runners, NEW i \in Begun(run[r]),
         NEW tofix, NEW marked, NEW restoring, Left(r, tofix, marked, restoring),
         tofix \cup marked \cup restoring \subseteq Begun(run[r]),
         tofix \cap marked = {}, tofix \cap restoring = {}, marked \cap restoring = {},
         UNCHANGED <<setup, reviews>>, DOMAIN comments' = DOMAIN comments,
         \A j \in DOMAIN comments :
           /\ comments'[j].finding = comments[j].finding
           /\ j # i => comments'[j] = comments[j],
         Serial /\ setup.lossless =>
           /\ comments'[i].resolved => ~comments'[i].active
           /\ \A j \in tofix \cup marked \cup restoring : ~comments'[j].resolved
           /\ \A j \in marked : ~comments'[j].active
  PROVE  OrderInv'
<1>1. run[r].pc = "resolving"
  BY DEF OrderInv, Apart
<1>2. PICK state : /\ state.pc = "resolving" /\ state.found = run[r].found
                   /\ state.tofix = tofix /\ state.marked = marked
                   /\ state.restoring = restoring
                   /\ Becomes(r, state)
  <2>1. Becomes(r, [run[r] EXCEPT !.tofix = tofix, !.marked = marked,
                                  !.restoring = restoring])
    BY DEF Left
  <2> QED
    BY <1>1, <2>1, RunFacts DEF Runs
<1>3. Apart(state) /\ Begun(state) = tofix \cup marked \cup restoring
  BY <1>2 DEF Apart, Begun
<1>4. CommentedOf' = CommentedOf
  BY SameFindings
<1>5. Begun(run[r]) \subseteq DOMAIN comments
  BY RunFacts, HostFacts DEF RunOK, Begun
<1>6. Isolates(state)' /\ Reads(state)'
  BY <1>2 DEF Isolates, Reads
<1>7. Serial => Claims(state)'
  BY <1>2, <1>3, <1>5 DEF OrderInv, SerialInv, Claims
<1>8. ASSUME Serial PROVE Delivers(state)'
  <2>1. /\ run[r].found \subseteq ActiveOf \cup ListedOf
        /\ comments[i].finding \notin run[r].found
    BY <1>1, <1>8 DEF OrderInv, SerialInv, Delivers, Claims
  <2>2. ASSUME NEW f \in ActiveOf, f # comments[i].finding PROVE f \in ActiveOf'
    <3>1. PICK j \in DOMAIN comments : comments[j].active /\ comments[j].finding = f
      BY DEF ActiveOf
    <3>2. comments'[j] = comments[j] /\ j \in DOMAIN comments'
      BY <2>2, <3>1
    <3> QED
      BY <3>1, <3>2 DEF ActiveOf
  <2>3. ListedOf' = ListedOf
    BY DEF ListedOf
  <2>4. run[r].found \subseteq ActiveOf' \cup ListedOf'
    BY <2>1, <2>2, <2>3
  <2> QED
    BY <1>2, <2>4 DEF Delivers
<1>9. Serial /\ setup.lossless => ResolvedIsRetired' /\ Open(state)'
  BY <1>2, <1>3 DEF OrderInv, SerialInv, ResolvedIsRetired, Open
<1>10. FreshInv'
  BY <1>4, FreshKept DEF OrderInv
<1>11. Serial => \A q \in Runners \ {r} : run[q].pc = "idle"
  BY <1>1, OthersIdle
<1> QED
  BY <1>2, <1>3, <1>4, <1>6, <1>7, <1>8, <1>9, <1>10, <1>11, OrderStep

\* What a write does to the thread it is about.
LEMMA ActiveWrite ==
  ASSUME TypeOK, NEW i \in DOMAIN comments, NEW active \in BOOLEAN,
         comments' = [comments EXCEPT ![i].active = active]
  PROVE  /\ DOMAIN comments' = DOMAIN comments
         /\ \A j \in DOMAIN comments :
              /\ comments'[j].finding = comments[j].finding
              /\ j # i => comments'[j] = comments[j]
         /\ comments'[i].active = active
         /\ comments'[i].resolved = comments[i].resolved
<1>1. \A j \in DOMAIN comments : comments[j] \in Comments
  BY HostFacts
<1> QED
  BY <1>1 DEF Comments

LEMMA ResolvedWrite ==
  ASSUME TypeOK, NEW i \in DOMAIN comments,
         comments' = [comments EXCEPT ![i].resolved = TRUE]
  PROVE  /\ DOMAIN comments' = DOMAIN comments
         /\ \A j \in DOMAIN comments :
              /\ comments'[j].finding = comments[j].finding
              /\ j # i => comments'[j] = comments[j]
         /\ comments'[i].active = comments[i].active
<1>1. \A j \in DOMAIN comments : comments[j] \in Comments
  BY HostFacts
<1> QED
  BY <1>1 DEF Comments

LEMMA MarkOrder ==
  ASSUME TypeOK, OrderInv, NEW r \in Runners, NEW i \in DOMAIN comments, Mark(r, i)
  PROVE  OrderInv'
<1>1. /\ i \in run[r].tofix /\ i \in Begun(run[r]) /\ UNCHANGED <<setup, reviews>>
      /\ comments' \in {comments, [comments EXCEPT ![i].active = FALSE]}
  BY DEF Mark, Begun
<1>2. Apart(run[r]) /\ (Serial /\ setup.lossless => ResolvedIsRetired /\ Open(run[r]))
  BY DEF OrderInv, SerialInv
<1>3. /\ DOMAIN comments' = DOMAIN comments
      /\ \A j \in DOMAIN comments :
           /\ comments'[j].finding = comments[j].finding
           /\ j # i => comments'[j] = comments[j]
      /\ comments'[i].resolved = comments[i].resolved
      /\ comments'[i].active => comments[i].active
  BY <1>1, ActiveWrite
<1>4. Serial /\ setup.lossless => \A j \in Begun(run[r]) : ~comments'[j].resolved
  <2>1. Begun(run[r]) \subseteq DOMAIN comments
    BY RunFacts, HostFacts DEF RunOK, Begun
  <2> QED
    BY <1>2, <1>3, <2>1 DEF Open
<1>5. Serial /\ setup.lossless => \A j \in run[r].marked : ~comments'[j].active
  <2>1. run[r].marked \subseteq DOMAIN comments /\ i \notin run[r].marked
    BY <1>1, <1>2, RunFacts, HostFacts DEF RunOK, Apart
  <2> QED
    BY <1>2, <1>3, <2>1 DEF Open
<1>6. CASE /\ comments' = [comments EXCEPT ![i].active = FALSE]
           /\ Left(r, run[r].tofix \ {i}, run[r].marked \cup {i}, run[r].restoring)
  <2>1. ~comments'[i].active
    BY <1>6, ActiveWrite
  <2> QED
    BY <1>1, <1>2, <1>3, <1>4, <1>5, <1>6, <2>1, ThreadStep DEF Apart, Begun
<1>7. CASE Left(r, run[r].tofix \ {i}, run[r].marked, run[r].restoring)
  BY <1>1, <1>2, <1>3, <1>4, <1>5, <1>7, ThreadStep DEF Apart, Begun
<1> QED
  BY <1>6, <1>7 DEF Mark

LEMMA ResolveOrder ==
  ASSUME TypeOK, OrderInv, NEW r \in Runners, NEW i \in DOMAIN comments, Resolve(r, i)
  PROVE  OrderInv'
<1>1. /\ i \in run[r].marked /\ i \in Begun(run[r]) /\ UNCHANGED <<setup, reviews>>
      /\ comments' = [comments EXCEPT ![i].resolved = TRUE]
      /\ Left(r, run[r].tofix, run[r].marked \ {i}, run[r].restoring)
  BY DEF Resolve, Begun
<1>2. Apart(run[r]) /\ (Serial /\ setup.lossless => ResolvedIsRetired /\ Open(run[r]))
  BY DEF OrderInv, SerialInv
<1>3. /\ DOMAIN comments' = DOMAIN comments
      /\ \A j \in DOMAIN comments :
           /\ comments'[j].finding = comments[j].finding
           /\ j # i => comments'[j] = comments[j]
      /\ comments'[i].active = comments[i].active
  BY <1>1, ResolvedWrite
<1>4. Begun(run[r]) \subseteq DOMAIN comments
  BY RunFacts, HostFacts DEF RunOK, Begun
<1>5. ASSUME Serial, setup.lossless
      PROVE  /\ ~comments'[i].active
             /\ \A j \in Begun(run[r]) \ {i} : ~comments'[j].resolved
             /\ \A j \in run[r].marked \ {i} : ~comments'[j].active
  BY <1>1, <1>2, <1>3, <1>4, <1>5 DEF Open, Begun
<1>6. i \notin run[r].tofix \cup run[r].restoring
  BY <1>1, <1>2 DEF Apart
<1> QED
  BY <1>1, <1>2, <1>3, <1>5, <1>6, ThreadStep DEF Apart, Begun

LEMMA ResolveFailsOrder ==
  ASSUME TypeOK, OrderInv, NEW r \in Runners, NEW i \in DOMAIN comments, ResolveFails(r, i)
  PROVE  OrderInv'
<1>1. PICK begun \in SUBSET run[r].tofix :
        Left(r, begun, run[r].marked \ {i}, run[r].restoring \cup {i})
  BY DEF ResolveFails
<1>2. /\ i \in run[r].marked /\ i \in Begun(run[r]) /\ UNCHANGED <<setup, reviews>>
      /\ \/ comments' = comments
         \/ ~setup.lossless /\ comments' = [comments EXCEPT ![i].resolved = TRUE]
  BY DEF ResolveFails, Begun
<1>3. Apart(run[r]) /\ (Serial /\ setup.lossless => ResolvedIsRetired /\ Open(run[r]))
  BY DEF OrderInv, SerialInv
<1>4. /\ DOMAIN comments' = DOMAIN comments
      /\ \A j \in DOMAIN comments :
           /\ comments'[j].finding = comments[j].finding
           /\ j # i => comments'[j] = comments[j]
      /\ setup.lossless => comments' = comments
  BY <1>2, ResolvedWrite
<1>5. /\ begun \cup (run[r].marked \ {i}) \cup (run[r].restoring \cup {i}) \subseteq Begun(run[r])
      /\ begun \cap (run[r].marked \ {i}) = {} /\ begun \cap (run[r].restoring \cup {i}) = {}
      /\ (run[r].marked \ {i}) \cap (run[r].restoring \cup {i}) = {}
  BY <1>2, <1>3 DEF Apart, Begun
<1>6. Serial /\ setup.lossless =>
        /\ comments'[i].resolved => ~comments'[i].active
        /\ \A j \in Begun(run[r]) : ~comments'[j].resolved
        /\ \A j \in run[r].marked : ~comments'[j].active
  BY <1>2, <1>3, <1>4 DEF Open
<1> QED
  BY <1>1, <1>2, <1>4, <1>5, <1>6, ThreadStep

LEMMA RestoreOrder ==
  ASSUME TypeOK, OrderInv, NEW r \in Runners, NEW i \in DOMAIN comments, Restore(r, i)
  PROVE  OrderInv'
<1>1. /\ i \in run[r].restoring /\ i \in Begun(run[r]) /\ UNCHANGED <<setup, reviews>>
      /\ comments' \in {comments, [comments EXCEPT ![i].active = TRUE]}
      /\ Left(r, run[r].tofix, run[r].marked, run[r].restoring \ {i})
  BY DEF Restore, Begun
<1>2. Apart(run[r]) /\ (Serial /\ setup.lossless => ResolvedIsRetired /\ Open(run[r]))
  BY DEF OrderInv, SerialInv
<1>3. /\ DOMAIN comments' = DOMAIN comments
      /\ \A j \in DOMAIN comments :
           /\ comments'[j].finding = comments[j].finding
           /\ j # i => comments'[j] = comments[j]
      /\ comments'[i].resolved = comments[i].resolved
  BY <1>1, ActiveWrite
<1>4. Begun(run[r]) \subseteq DOMAIN comments /\ i \notin run[r].marked
  BY <1>1, <1>2, RunFacts, HostFacts DEF RunOK, Begun, Apart
<1>5. ASSUME Serial, setup.lossless
      PROVE  /\ \A j \in Begun(run[r]) : ~comments'[j].resolved
             /\ \A j \in run[r].marked : ~comments'[j].active
  BY <1>1, <1>2, <1>3, <1>4, <1>5 DEF Open, Begun
<1> QED
  BY <1>1, <1>2, <1>3, <1>5, ThreadStep DEF Apart, Begun

\* A push outdates some comments, which no run's reading of them turns on.
LEMMA PushOrder ==
  ASSUME TypeOK, OrderInv, Push
  PROVE  OrderInv'
<1>1. UNCHANGED <<setup, reviews, run>>
  BY DEF Push
<1>2. /\ DOMAIN comments' = DOMAIN comments
      /\ \A i \in DOMAIN comments :
           /\ comments'[i].finding = comments[i].finding
           /\ comments'[i].active = comments[i].active
           /\ comments'[i].resolved = comments[i].resolved
  <2>1. \A i \in DOMAIN comments : comments[i] \in Comments
    BY HostFacts
  <2> QED
    BY <2>1 DEF Push, Comments
<1>3. ActiveOf' = ActiveOf /\ CommentedOf' = CommentedOf /\ ListedOf' = ListedOf
  BY <1>1, <1>2 DEF ActiveOf, CommentedOf, ListedOf
<1>4. FreshInv'
  BY <1>1, <1>3, FreshKept DEF OrderInv
<1>5. ASSUME NEW r \in Runners
      PROVE  /\ Apart(run[r])' /\ Isolates(run[r])'
             /\ Serial => (Delivers(run[r]) /\ Claims(run[r]) /\ Reads(run[r]))'
             /\ Serial /\ setup.lossless => Open(run[r])'
  <2>1. run[r].validated \cup Begun(run[r]) \subseteq DOMAIN comments
    BY RunFacts, HostFacts DEF RunOK, Begun
  <2>2. Apart(run[r])' /\ Isolates(run[r])'
    BY <1>1, <1>3 DEF OrderInv, Apart, Isolates, Begun
  <2>3. Serial => (Delivers(run[r]) /\ Reads(run[r]))'
    BY <1>1, <1>3 DEF OrderInv, SerialInv, Delivers, Reads
  <2>4. Serial => Claims(run[r])'
    BY <1>1, <1>2, <2>1 DEF OrderInv, SerialInv, Claims, Begun
  <2>5. Serial /\ setup.lossless => Open(run[r])'
    BY <1>1, <1>2, <2>1 DEF OrderInv, SerialInv, Open, Begun
  <2> QED
    BY <2>2, <2>3, <2>4, <2>5
<1>6. /\ Serial' = Serial /\ setup' = setup
      /\ Serial => OneAtATime'
      /\ Serial /\ setup.lossless => ResolvedIsRetired'
  BY <1>1, <1>2 DEF OrderInv, SerialInv, Serial, OneAtATime, ResolvedIsRetired
<1> QED
  BY <1>4, <1>5, <1>6 DEF OrderInv, SerialInv

LEMMA StutterOrder ==
  ASSUME OrderInv, UNCHANGED vars
  PROVE  OrderInv'
  BY DEF OrderInv, SerialInv, FreshInv, Apart, Isolates, Serial, OneAtATime, Delivers, Claims,
         Reads, Open, ResolvedIsRetired, Begun, ActiveOf, CommentedOf, ListedOf, vars

LEMMA InitOrder ==
  ASSUME Init
  PROVE  OrderInv
<1>1. \A r \in Runners : run[r] = Idle
  BY DEF Init
<1>2. \A r \in Runners : run[r].pc = "idle" /\ Begun(run[r]) = {} /\ Apart(run[r])
  BY <1>1 DEF Idle, Begun, Apart
<1>3. DOMAIN reviews = {} /\ DOMAIN comments = {}
  BY DEF Init
<1> QED
  BY <1>2, <1>3 DEF OrderInv, SerialInv, FreshInv, Isolates, OneAtATime, Delivers, Claims,
                    Reads, Open, ResolvedIsRetired, Begun

\* The order of the writes: the inductive invariant.
THEOREM OrderInvariance == Spec => [](TypeOK /\ OrderInv)
<1>1. ASSUME TypeOK, OrderInv, NEW r \in Runners, Step(r) PROVE OrderInv'
  <2>1. CASE \E i \in Threads :
               Mark(r, i) \/ Resolve(r, i) \/ ResolveFails(r, i) \/ Restore(r, i)
    BY <1>1, <2>1, MarkOrder, ResolveOrder, ResolveFailsOrder, RestoreOrder DEF Threads
  <2>2. CASE \E f \in Findings : Comment(r, f)
    BY <1>1, <2>2, CommentOrder
  <2> QED
    BY <1>1, <2>1, <2>2, BeginOrder, ReviewOrder, PutOrder, PostOrder, PostRefusedOrder,
       CommentedOrder, PutAgainOrder, PostBareOrder, EndOrder, FailOrder, NoticeOrder DEF Step
<1>2. TypeOK /\ OrderInv /\ [Next]_vars => OrderInv'
  BY <1>1, PushOrder, StutterOrder DEF Next
<1> QED
  BY <1>2, InitOrder, TypeCorrect, PTL DEF Spec

\* The writes that only hold together land together, or in the safe order: a fresh
\* review never stands without its comments, and no thread is resolved whose ids
\* still count (post_review, resolve_one).
THEOREM WritesInOrder == Spec => []WritesLandInOrder
<1>1. ASSUME TypeOK, OrderInv PROVE FreshIsAtomic
  <2> SUFFICES ASSUME NEW n \in DOMAIN reviews, reviews[n].fresh, NEW f \in reviews[n].owed
               PROVE  HasComment(f) \/ \E m \in DOMAIN reviews : f \in reviews[m].listed
    BY DEF FreshIsAtomic, Delivered
  <2>1. f \in reviews[n].listed \cup CommentedOf
    BY <1>1 DEF OrderInv, FreshInv
  <2> QED
    BY <2>1 DEF CommentedOf, HasComment
<1>2. OrderInv => ResolvedIsRetiredLossless
  BY DEF OrderInv, SerialInv, ResolvedIsRetiredLossless
<1> QED
  BY <1>1, <1>2, OrderInvariance, PTL DEF WritesLandInOrder

-------------------------------------------------------------------------------
(* What a step may never do *)

\* Each finding of a run stands on the pull request when the run ends, and no step
\* posts one beside an active comment of the same finding (unposted,
\* _post_new_inline_comments).
THEOREM StandOnce == Spec => FindingsStandOnce
<1>1. ASSUME TypeOK, OrderInv, NEW r \in Runners, Serial, run[r].pc = "resolving",
             NEW f \in run[r].found
      PROVE  ShownNow(f)
  <2>1. f \in ActiveOf \cup ListedOf
    BY <1>1 DEF OrderInv, SerialInv, Delivers
  <2> QED
    BY <2>1 DEF ActiveOf, ListedOf, ShownNow
<1>2. ASSUME TypeOK, OrderInv, [Next]_vars, Serial, reviews # <<>>,
             NEW i \in DOMAIN comments' \ DOMAIN comments
      PROVE  comments'[i].finding \notin ActiveOf
  <2>1. \A q \in Runners, j \in DOMAIN comments :
          Mark(q, j) \/ Resolve(q, j) \/ ResolveFails(q, j) \/ Restore(q, j) =>
            DOMAIN comments' = DOMAIN comments
    BY DEF Mark, Resolve, ResolveFails, Restore
  <2>2. Push => DOMAIN comments' = DOMAIN comments
    BY DEF Push
  <2>3. PICK r \in Runners : Post(r) \/ \E f \in Findings : Comment(r, f)
    BY <1>2, <2>1, <2>2
       DEF Next, Step, vars, Threads, Begin, Review, Put, PostRefused, Commented, PutAgain,
           PostBare, End, Fail, Notice, Crash
  <2>4. CASE Post(r)
    <3>1. Len(reviews) # 0
      BY <1>2, HostFacts, EmptySeq
    <3>2. run[r].pc = "posting" /\ comments' \in Posted(Carried(r))
          /\ (Entry(r).id = 0 \/ NewCommit(r))
      BY <2>4 DEF Post
    <3>3. Carried(r) = Unposted(r)
      BY <1>2, <3>1, <3>2, EntryReads DEF Carried
    <3>4. Unposted(r) \in SUBSET Findings
      BY <1>2, RunFacts DEF Unposted, Runs
    <3> QED
      BY <1>2, <3>2, <3>3, <3>4, PostedFindings, UnpostedFacts
  <2>5. CASE \E f \in Findings : Comment(r, f)
    <3>1. PICK f \in Findings : Comment(r, f)
      BY <2>5
    <3>2. f \notin ActiveOf
      BY <1>2, <3>1 DEF OrderInv, SerialInv, Delivers, Comment
    <3>3. {f} \in SUBSET Findings /\ comments' \in Posted({f})
      BY <1>2, <3>1 DEF Comment
    <3> QED
      BY <1>2, <3>2, <3>3, PostedFindings
  <2> QED
    BY <2>3, <2>4, <2>5
<1>3. TypeOK /\ OrderInv /\ [Next]_vars =>
        [\A r \in Runners :
           Serial /\ run[r].pc = "resolving" /\ run'[r].pc = "idle" =>
             \A f \in run[r].found : ShownNow(f)]_vars
  BY <1>1
<1>4. TypeOK /\ OrderInv /\ [Next]_vars =>
        [\A i \in DOMAIN comments' \ DOMAIN comments :
           Serial /\ reviews # <<>> =>
             ~\E j \in DOMAIN comments : Live(comments'[i].finding, comments[j])]_vars
  BY <1>2 DEF ActiveOf, Live
<1> QED
  BY <1>3, <1>4, OrderInvariance, PTL
     DEF Spec, FindingsStandOnce, RunShowsItsFindings, NotPostedAgain

\* A failed run that had read the summary takes no watermark away but its own: the
\* one it had put there before the write that failed (_post_notice).
THEOREM NoticeSpares == Spec => NoticeSparesCompletion
<1>1. ASSUME TypeOK, OrderInv, [Next]_vars, NEW r \in Runners, Serial,
             run[r].pc = "failing", run[r].entry.read,
             NEW n \in DOMAIN reviews, reviews[n].stamp # 0, reviews'[n].stamp = 0
      PROVE  run[r].complete /\ reviews[n].stamp = run[r].head /\ ~reviews[n].fresh
  <2>1. reviews' # reviews
    BY <1>1
  <2>2. Begun(run[r]) = {}
    BY <1>1 DEF OrderInv, Apart
  <2>3. \A q \in Runners : q # r => run[q].pc = "idle" /\ Begun(run[q]) = {}
    BY <1>1, OthersIdle DEF OrderInv, Apart
  <2>4. PICK q \in Runners : Step(q)
    BY <1>1, <2>1 DEF Next, vars, Push
  <2>5. Put(q) \/ Post(q) \/ PutAgain(q) \/ PostBare(q) \/ Notice(q)
    BY <2>1, <2>4
       DEF Step, Begin, Review, PostRefused, Comment, Commented, Mark, Resolve, ResolveFails,
           Restore, End, Fail, Crash
  <2>6. Notice(r)
    BY <1>1, <2>3, <2>5 DEF Put, Post, PutAgain, PostBare, Notice
  <2>7. Entry(r) = run[r].entry /\ TakenFor(r) = {run[r].entry}
    BY <1>1 DEF Entry, TakenFor
  <2>8. run[r].entry.stamp = 0
    BY <2>1, <2>6, <2>7 DEF Notice, Keeps
  <2>9. n = run[r].entry.id /\ run[r].entry.id # 0
    <3>1. CASE reviews' = Append(reviews, Blank(head))
      <4>1. Blank(head) \in Reviews
        BY <1>1, SetupFacts DEF Blank, Reviews
      <4> QED
        BY <1>1, <3>1, <4>1, AppendedLast
    <3>2. CASE /\ Entry(r).id # 0
               /\ reviews' = [reviews EXCEPT ![Entry(r).id] = Blank(@.commit)]
      BY <1>1, <2>7, <3>2
    <3> QED
      BY <2>1, <2>6, <3>1, <3>2 DEF Notice
  <2>10. Reads(run[r])
    BY <1>1 DEF OrderInv, SerialInv
  <2> QED
    BY <1>1, <2>8, <2>9, <2>10 DEF Reads
<1>2. TypeOK /\ OrderInv /\ [Next]_vars =>
        [\A r \in Runners :
           Serial /\ run[r].pc = "failing" /\ run[r].entry.read =>
             \A n \in DOMAIN reviews :
               reviews[n].stamp # 0 /\ reviews'[n].stamp = 0 =>
                 run[r].complete /\ reviews[n].stamp = run[r].head /\ ~reviews[n].fresh]_vars
  BY <1>1
<1> QED
  BY <1>2, OrderInvariance, PTL DEF Spec, NoticeSparesCompletion

===============================================================================
