---------------------------- MODULE ThreadProofs ----------------------------
(***************************************************************************)
(* Theorems about what the threads of a review do side by side: the pool   *)
(* they run in (FanOut), for every number of batches, lenses and threads,  *)
(* and the adapter they share (ProviderCall), for any number of calls, of  *)
(* params and of attempts and any runs.                                    *)
(*                                                                         *)
(* What FanOut promises follows from one inductive invariant, IInv: which  *)
(* outcome lists are filled in which phase (Lists), that the thread table  *)
(* and the calls' statuses tell the same story (ThreadTable), and how a    *)
(* deferred call depends on its primer (Deferral).                         *)
(*                                                                         *)
(* The cost of a model's turn is bounded by accounting for every request   *)
(* by what it used up (Account): an attempt, the attempt's one re-send, a  *)
(* param, or a mechanism.  What a call says it lost follows from where     *)
(* each of its turns stands (Losses).  What calls made one at a time learn *)
(* follows from kwargs, adapter and evidence saying the same of the model  *)
(* (AloneInv): that case is the one the code's promise is about.           *)
(***************************************************************************)
EXTENDS FanOut, ProviderCall, TLAPS, FiniteSetTheorems

-----------------------------------------------------------------------------
(* The pool *)

\* A thread runs a call only while its pool is open, no two threads run the
\* same call, and only a thread with a task has provider calls in flight.
ThreadTable ==
  /\ \A t \in Threads : task[t] # Idle =>
       t \in PoolThreads /\ task[t] \in Calls /\ status[task[t]] = "running"
  /\ \A t, u \in Threads : task[t] # Idle /\ task[t] = task[u] => t = u
  /\ \A t \in Threads, s \in 1..Burst : <<t, s>> \in open => task[t] # Idle

\* Until a primer is collected its batch waits, and once it is none does.
Deferral ==
  phase = "fanout" =>
    \A c \in Calls :
      /\ status[c] = "deferred" => Follower(c)
      /\ Follower(c) => (status[c] = "deferred" <=> status[Primer(c)] # "collected")

\* Which outcomes have been reported, by phase.
Lists ==
  /\ phase = "fanout" =>
       \A c \in Calls :
         /\ results[c] # NoOutcome <=> status[c] \in {"finished", "collected"}
         /\ rescued[c] = NoOutcome
  /\ phase # "fanout" => \A c \in Calls : results[c] # NoOutcome
  /\ phase = "rescue" =>
       \A c \in Calls :
         /\ c \in Retrying <=> status[c] \in {"queued", "running", "finished"}
         /\ c \notin Retrying <=> status[c] = "collected"
         /\ rescued[c] # NoOutcome <=> status[c] = "finished"
  /\ Drained => \A c \in Calls :
                  /\ rescued[c] # NoOutcome <=> c \in Retrying
                  /\ merged[c] = Merged(c)
                  /\ status[c] \in {"collected"}

IInv == TypeOK /\ ThreadTable /\ Deferral /\ Lists

-------------------------------------------------------------------------------

\* A primer is a call of its own batch and waits for nobody.
LEMMA PrimerFacts ==
  ASSUME NEW c \in Calls
  PROVE  /\ Primer(c) \in Calls
         /\ ~Follower(Primer(c))
         /\ c # Idle
  BY WidthAssumption DEF WidthAssumption, Calls, Primer, Follower, Idle

LEMMA OutcomeFacts ==
  /\ NoOutcome \notin Outcomes
  /\ Skipped \in Outcomes
  /\ \A o \in TaskOutcomes : o \in Outcomes
  BY OutcomeAssumption DEF OutcomeAssumption, NoOutcome, Outcomes, Errors, Skipped

LEMMA InitIInv == Init => IInv
<1> SUFFICES ASSUME Init PROVE IInv
  OBVIOUS
<1>1. TypeOK
  <2>1. status \in [Calls -> Statuses]
    BY DEF Init, Statuses
  <2>2. requested \in [Threads -> 0..MaxRequests]
    BY WidthAssumption DEF WidthAssumption, Init
  <2>3. /\ task \in [Threads -> Calls \cup {Idle}]
        /\ wave \in [Calls -> Nat]
        /\ open \subseteq Threads \X (1..Burst)
    BY DEF Init
  <2>4. /\ results \in [Calls -> Outcomes \cup {NoOutcome}]
        /\ rescued \in [Calls -> Outcomes \cup {NoOutcome}]
        /\ merged \in [Calls -> Outcomes \cup {NoOutcome}]
    BY DEF Init
  <2> QED
    BY <2>1, <2>2, <2>3, <2>4 DEF Init, TypeOK
<1>2. ThreadTable
  BY DEF Init, ThreadTable
<1>3. Deferral
  BY PrimerFacts DEF Init, Deferral
<1>4. Lists
  BY DEF Init, Lists, Drained
<1> QED
  BY <1>1, <1>2, <1>3, <1>4 DEF IInv

-------------------------------------------------------------------------------
(* Each action preserves the invariant *)

\* The environment touches nothing but a ceiling.
LEMMA CeilingStep ==
  ASSUME IInv, Interrupt \/ DeadlinePasses
  PROVE  IInv'
<1>1. TypeOK'
  BY DEF IInv, TypeOK, Interrupt, DeadlinePasses, queue, outcomes
<1>2. ThreadTable'
  BY DEF IInv, ThreadTable, PoolThreads, Interrupt, DeadlinePasses, queue, outcomes
<1>3. Deferral'
  BY DEF IInv, Deferral, Interrupt, DeadlinePasses, queue, outcomes
<1>4. Lists'
  BY DEF IInv, Lists, Drained, Retrying, Merged, Interrupt, DeadlinePasses,
         queue, outcomes
<1> QED
  BY <1>1, <1>2, <1>3, <1>4 DEF IInv

LEMMA StartStep ==
  ASSUME IInv, NEW t \in Threads, NEW c \in Calls, Start(t, c)
  PROVE  IInv'
<1> USE DEF IInv, Start, Next1, queue, ceilings, outcomes
<1>1. TypeOK'
  <2>1. <<t, 1>> \in Threads \X (1..Burst) /\ 1 \in 0..MaxRequests
    BY WidthAssumption DEF WidthAssumption
  <2> QED
    BY <2>1 DEF TypeOK, Statuses
<1>2. ThreadTable'
  BY PrimerFacts DEF TypeOK, ThreadTable, PoolThreads
<1>3. Deferral'
  BY PrimerFacts DEF TypeOK, Deferral
<1>4. Lists'
  BY DEF TypeOK, Lists, Drained, Retrying, Merged, PoolThreads
<1> QED
  BY <1>1, <1>2, <1>3, <1>4

LEMMA SkipCallStep ==
  ASSUME IInv, NEW t \in Threads, NEW c \in Calls, SkipCall(t, c)
  PROVE  IInv'
<1> USE DEF IInv, SkipCall, Next1, Report, queue, ceilings
<1>1. TypeOK'
  BY OutcomeFacts DEF TypeOK, Statuses
<1>2. ThreadTable'
  BY DEF TypeOK, ThreadTable, PoolThreads
<1>3. Deferral'
  BY PrimerFacts DEF TypeOK, Deferral
<1>4. Lists'
  BY OutcomeFacts DEF TypeOK, Lists, Drained, Retrying, Merged, PoolThreads
<1> QED
  BY <1>1, <1>2, <1>3, <1>4

LEMMA RequestStep ==
  ASSUME IInv, NEW t \in Threads, NEW s \in 1..Burst, Request(t, s)
  PROVE  IInv'
<1> USE DEF IInv, Request, queue, ceilings, outcomes
<1>1. TypeOK'
  BY WidthAssumption DEF WidthAssumption, TypeOK
<1>2. ThreadTable'
  BY DEF TypeOK, ThreadTable, PoolThreads
<1>3. Deferral'
  BY DEF Deferral
<1>4. Lists'
  BY DEF Lists, Drained, Retrying, Merged
<1> QED
  BY <1>1, <1>2, <1>3, <1>4

LEMMA AnswerStep ==
  ASSUME IInv, NEW t \in Threads, NEW s \in 1..Burst, NEW k \in 0..MaxTokens,
         Answer(t, s, k)
  PROVE  IInv'
<1> USE DEF IInv, Answer, queue, outcomes
<1>1. TypeOK'
  BY TokenAssumption DEF TokenAssumption, TypeOK
<1>2. ThreadTable'
  BY DEF ThreadTable, PoolThreads
<1>3. Deferral'
  BY DEF Deferral
<1>4. Lists'
  BY DEF Lists, Drained, Retrying, Merged
<1> QED
  BY <1>1, <1>2, <1>3, <1>4

LEMMA FinishStep ==
  ASSUME IInv, NEW t \in Threads, NEW o \in TaskOutcomes, Finish(t, o)
  PROVE  IInv'
<1> USE DEF IInv, Finish, Report, queue, ceilings
<1>0. /\ task[t] \in Calls
      /\ status[task[t]] = "running"
      /\ phase \in {"fanout", "rescue"}
      /\ o \in Outcomes
      /\ o # NoOutcome
  BY OutcomeFacts DEF ThreadTable, PoolThreads
<1>1. TypeOK'
  <2>1. requested' \in [Threads -> 0..MaxRequests]
    BY WidthAssumption DEF WidthAssumption, TypeOK
  <2>2. /\ task' \in [Threads -> Calls \cup {Idle}]
        /\ status' \in [Calls -> Statuses]
    BY <1>0 DEF TypeOK, Statuses
  <2>3. /\ results' \in [Calls -> Outcomes \cup {NoOutcome}]
        /\ rescued' \in [Calls -> Outcomes \cup {NoOutcome}]
    BY <1>0 DEF TypeOK
  <2> QED
    BY <2>1, <2>2, <2>3 DEF TypeOK
<1>2. ThreadTable'
  BY <1>0, PrimerFacts DEF TypeOK, ThreadTable, PoolThreads
<1>3. Deferral'
  BY <1>0, PrimerFacts DEF TypeOK, Deferral
<1>4. Lists'
  BY <1>0 DEF TypeOK, Lists, Drained, Retrying, Merged
<1> QED
  BY <1>1, <1>2, <1>3, <1>4

LEMMA CollectStep ==
  ASSUME IInv, NEW c \in Calls, Collect(c)
  PROVE  IInv'
<1> USE DEF IInv, Collect, ceilings, outcomes
<1>1. TypeOK'
  BY DEF TypeOK, Statuses
<1>2. ThreadTable'
  BY DEF TypeOK, ThreadTable, PoolThreads, Released
<1>3. Deferral'
  <2> SUFFICES ASSUME NEW d \in Calls
               PROVE  /\ status'[d] = "deferred" => Follower(d)
                      /\ Follower(d) => (status'[d] = "deferred"
                                           <=> status'[Primer(d)] # "collected")
    BY DEF Deferral
  <2>1. status'[d] = "deferred" => status[d] = "deferred"
    BY DEF TypeOK
  <2>2. ASSUME Follower(d)
        PROVE  status'[d] = "deferred" <=> status'[Primer(d)] # "collected"
    <3>1. CASE Primer(d) = c
      <4>1. status'[d] # "deferred"
        BY <3>1, <2>2 DEF TypeOK, Released
      <4> QED
        BY <4>1, <3>1, PrimerFacts DEF TypeOK
    <3>2. CASE Primer(d) # c
      <4>1. d = c => status[d] # "deferred"
        OBVIOUS
      <4>2. status'[d] = "deferred" <=> status[d] = "deferred"
        BY <3>2, <4>1 DEF TypeOK, Released
      <4>3. status'[Primer(d)] = "collected" <=> status[Primer(d)] = "collected"
        BY <3>2, PrimerFacts DEF TypeOK, Released
      <4> QED
        BY <4>2, <4>3, <2>2 DEF Deferral
    <3> QED
      BY <3>1, <3>2
  <2> QED
    BY <2>1, <2>2 DEF Deferral
<1>4. Lists'
  BY DEF TypeOK, Lists, Drained, Retrying, Merged, Released
<1> QED
  BY <1>1, <1>2, <1>3, <1>4

\* The pool never drains over a deferred call: its primer would not have been
\* collected, and so would have kept the pool open.
LEMMA DrainFindsAllCollected ==
  ASSUME IInv, Drain
  PROVE  \A c \in Calls : status[c] = "collected"
<1> SUFFICES ASSUME NEW c \in Calls, status[c] = "deferred"
             PROVE  FALSE
  BY DEF Drain
<1>1. Follower(c) /\ status[Primer(c)] # "collected"
  BY DEF IInv, Deferral, Drain
<1>2. status[Primer(c)] # "deferred"
  BY PrimerFacts DEF IInv, Deferral, Drain
<1> QED
  BY <1>1, <1>2, PrimerFacts DEF Drain

LEMMA DrainStep ==
  ASSUME IInv, Drain
  PROVE  IInv'
<1> USE DEF IInv, Drain, ceilings, queue
<1>0. \A c \in Calls : status[c] = "collected"
  BY DrainFindsAllCollected
<1>1. TypeOK'
  BY DEF TypeOK, Statuses
<1>2. ThreadTable'
  BY <1>0 DEF TypeOK, ThreadTable, PoolThreads
<1>3. Deferral'
  BY DEF Deferral
<1>4. Lists'
  BY <1>0 DEF TypeOK, Lists, Drained, Retrying, Merged
<1> QED
  BY <1>1, <1>2, <1>3, <1>4

LEMMA MergeStep ==
  ASSUME IInv, Merge
  PROVE  IInv'
<1> USE DEF IInv, Merge, ceilings, queue
<1>0. \A c \in Calls : status[c] \in {"collected", "finished"}
  BY DEF TypeOK, Lists
<1>1. TypeOK'
  <2>1. ASSUME NEW c \in Calls
        PROVE  Merged(c) \in Outcomes \cup {NoOutcome}
    BY OutcomeFacts DEF TypeOK, Lists, Merged, Outcomes
  <2> QED
    BY <2>1 DEF TypeOK, Statuses
<1>2. ThreadTable'
  BY <1>0 DEF TypeOK, ThreadTable, PoolThreads
<1>3. Deferral'
  BY DEF Deferral
<1>4. Lists'
  BY <1>0 DEF TypeOK, Lists, Drained, Retrying, Merged
<1> QED
  BY <1>1, <1>2, <1>3, <1>4

LEMMA ConcludeStep ==
  ASSUME IInv, Conclude
  PROVE  IInv'
<1> USE DEF IInv, Conclude, ceilings, queue, outcomes
<1>1. TypeOK'
  BY DEF TypeOK
<1>2. ThreadTable'
  BY DEF ThreadTable, PoolThreads
<1>3. Deferral'
  BY DEF Deferral
<1>4. Lists'
  BY DEF Lists, Drained, Retrying, Merged
<1> QED
  BY <1>1, <1>2, <1>3, <1>4

LEMMA StutterStep ==
  ASSUME IInv, UNCHANGED vars
  PROVE  IInv'
BY DEF IInv, vars, TypeOK, ThreadTable, PoolThreads, Deferral, Lists, Drained,
       Retrying, Merged

LEMMA NextIInv == IInv /\ [Next]_vars => IInv'
<1> SUFFICES ASSUME IInv, [Next]_vars PROVE IInv'
  OBVIOUS
<1>1. ASSUME NEW t \in Threads, Work(t) PROVE IInv'
  BY <1>1, StartStep, SkipCallStep, RequestStep, AnswerStep, FinishStep DEF Work
<1>2. CASE Main
  BY <1>2, CollectStep, DrainStep, MergeStep, ConcludeStep DEF Main
<1>3. CASE Interrupt \/ DeadlinePasses
  BY <1>3, CeilingStep
<1>4. CASE Over \/ UNCHANGED vars
  BY <1>4, StutterStep DEF Over
<1> QED
  BY <1>1, <1>2, <1>3, <1>4 DEF Next

\* The inductive invariant holds of every reachable state.
THEOREM Invariance == Spec => []IInv
  BY InitIInv, NextIInv, PTL DEF Spec

\* Every state is well typed.
THEOREM TypeCorrect == Spec => []TypeOK
  BY Invariance, PTL DEF IInv

\* No call is stranded behind a failed primer (_fan_out).
THEOREM EveryCallReports == Spec => []NoCallStranded
<1>1. IInv => NoCallStranded
  BY DEF IInv, Lists, NoCallStranded
<1> QED
  BY <1>1, Invariance, PTL

\* The rescue wave runs for the failures on the provider, all of them, and for
\* nothing else (_rescue).
THEOREM RescueIsExact == Spec => []RescuesExactlyTheFlaky
<1>1. IInv => RescuesExactlyTheFlaky
  BY DEF IInv, Lists, RescuesExactlyTheFlaky, Retrying
<1> QED
  BY <1>1, Invariance, PTL

\* What the merged outcome of a call says, whether or not it was rescued.
LEMMA MergedFacts ==
  ASSUME IInv, Drained, NEW c \in Calls
  PROVE  /\ merged[c].findings = results[c].findings \cup rescued[c].findings
         /\ merged[c].error = IF rescued[c] # NoOutcome
                              THEN rescued[c].error ELSE results[c].error
<1>1. /\ merged[c] = Merged(c)
      /\ rescued[c] # NoOutcome <=> c \in Retrying
  BY DEF IInv, Lists
<1>2. CASE c \in Retrying
  BY <1>1, <1>2 DEF Merged
<1>3. CASE c \notin Retrying
  BY <1>1, <1>3 DEF Merged, NoOutcome
<1> QED
  BY <1>2, <1>3

\* Merging a rescue drops no finding and clears no error that was not answered.
THEOREM MergeIsHonest == Spec => []MergeHidesNothing
<1>1. IInv => MergeHidesNothing
  BY MergedFacts DEF MergeHidesNothing
<1> QED
  BY <1>1, Invariance, PTL

\* No follower of a warmed batch is submitted before its primer has reported.
\* The statuses carry this only while the fan-out's pool is open; afterwards
\* every call has reported.
THEOREM PrimerReportsFirst == Spec => []FollowersWaitForPrimer
<1>1. IInv => FollowersWaitForPrimer
  <2> SUFFICES ASSUME IInv, NEW c \in Calls, Follower(c), status[c] # "deferred"
               PROVE  results[Primer(c)] # NoOutcome
    BY DEF FollowersWaitForPrimer
  <2>1. Primer(c) \in Calls
    BY PrimerFacts
  <2>2. CASE phase = "fanout"
    BY <2>1, <2>2 DEF IInv, Deferral, Lists
  <2>3. CASE phase # "fanout"
    BY <2>1, <2>3 DEF IInv, Lists
  <2> QED
    BY <2>2, <2>3
<1> QED
  BY <1>1, Invariance, PTL

\* The verdict is the one the merged outcomes call for.
Verdict == /\ phase = "posted" => ~NoSignal
           /\ phase = "raised" => NoSignal

\* A review that learned nothing is never posted, and one that learned anything
\* in either attempt of any call is never thrown away (review, 5b).
THEOREM FailsLoud == Spec => []SignalDecidesVerdict
<1>1. Init => Verdict
  BY DEF Init, Verdict
<1>2. Verdict /\ [Next]_vars => Verdict'
  <2> SUFFICES ASSUME Verdict, [Next]_vars PROVE Verdict'
    OBVIOUS
  <2> USE DEF Verdict, NoSignal
  <2>1. ASSUME NEW t \in Threads, Work(t) PROVE Verdict'
    BY <2>1 DEF Work, Start, SkipCall, Report, Request, Answer, Finish, outcomes
  <2>2. CASE Main
    BY <2>2 DEF Main, Collect, Drain, Merge, Conclude, outcomes
  <2>3. CASE Interrupt \/ DeadlinePasses
    BY <2>3 DEF Interrupt, DeadlinePasses, outcomes
  <2>4. CASE Over \/ UNCHANGED vars
    BY <2>4 DEF Over, vars
  <2> QED
    BY <2>1, <2>2, <2>3, <2>4 DEF Next
<1>3. IInv /\ Verdict => SignalDecidesVerdict
  <2> SUFFICES ASSUME IInv, Verdict, Drained
               PROVE  NoSignal <=> ~Signal
    BY DEF SignalDecidesVerdict, Verdict, Drained
  <2> QED
    BY MergedFacts DEF NoSignal, Signal
<1> QED
  BY <1>1, <1>2, <1>3, Invariance, PTL DEF Spec

-------------------------------------------------------------------------------
(* The token budget *)

LEMMA WidthFacts ==
  /\ Width \in Nat
  /\ \A n \in Nat : n <= Width * Burst =>
       n * MaxTokens <= Width * Burst * MaxTokens
  /\ Width * Burst * MaxTokens \in Nat
<1>1. /\ Cardinality(Workers) \in Nat
      /\ Cardinality(RescueWorkers) \in Nat
  BY WidthAssumption, FS_CardinalityType DEF WidthAssumption
<1>2. Width \in Nat
  BY <1>1 DEF Width
<1>3. Burst \in Nat /\ MaxTokens \in Nat
  BY WidthAssumption, TokenAssumption DEF WidthAssumption, TokenAssumption
<1>4. ASSUME NEW a \in Nat, NEW b \in Nat, NEW m \in Nat, a <= b
      PROVE  a * m <= b * m
  BY <1>4
<1>5. Width * Burst \in Nat
  BY <1>2, <1>3
<1>6. Width * Burst * MaxTokens \in Nat
  BY <1>3, <1>5
<1>7. ASSUME NEW n \in Nat, n <= Width * Burst
      PROVE  n * MaxTokens <= Width * Burst * MaxTokens
  BY <1>7, <1>4, <1>5, <1>3
<1> QED
  BY <1>2, <1>6, <1>7

\* What fits in a pool: at most Burst provider calls for each of its threads.
LEMMA PoolCapacity ==
  ASSUME NEW pool \in {Workers, RescueWorkers, {}},
         NEW calls, calls \subseteq pool \X (1..Burst)
  PROVE  /\ IsFiniteSet(calls)
         /\ Cardinality(calls) \in Nat
         /\ Cardinality(calls) <= Width * Burst
<1>1. /\ IsFiniteSet(1..Burst)
      /\ Cardinality(1..Burst) = Burst
  BY WidthAssumption, FS_Interval DEF WidthAssumption
<1>2. /\ IsFiniteSet(pool)
      /\ Cardinality(pool) \in Nat
      /\ Cardinality(pool) <= Width
  <2>1. /\ IsFiniteSet(Workers) /\ Cardinality(Workers) \in Nat
        /\ IsFiniteSet(RescueWorkers) /\ Cardinality(RescueWorkers) \in Nat
    BY WidthAssumption, FS_CardinalityType DEF WidthAssumption
  <2>2. IsFiniteSet({}) /\ Cardinality({}) = 0
    BY FS_EmptySet
  <2> QED
    BY <2>1, <2>2 DEF Width
<1>3. /\ IsFiniteSet(pool \X (1..Burst))
      /\ Cardinality(pool \X (1..Burst)) = Cardinality(pool) * Burst
  <2>1. IsFiniteSet(pool) /\ IsFiniteSet(1..Burst)
    BY <1>1, <1>2
  <2>2. /\ IsFiniteSet(pool \X (1..Burst))
        /\ Cardinality(pool \X (1..Burst))
             = Cardinality(pool) * Cardinality(1..Burst)
    BY ONLY <2>1, FS_Product, Zenon
  <2> QED
    BY ONLY <2>2, <1>1, Zenon
<1>4. /\ IsFiniteSet(calls)
      /\ Cardinality(calls) <= Cardinality(pool) * Burst
  BY <1>3, FS_Subset
<1>5. Cardinality(calls) \in Nat
  BY <1>4, FS_CardinalityType
<1>6. ASSUME NEW i \in Nat, NEW j \in Nat, NEW m \in Nat, i <= j
      PROVE  i * m <= j * m
  BY <1>6
<1>7. Cardinality(pool) * Burst <= Width * Burst
  BY <1>2, <1>6, WidthFacts, WidthAssumption DEF WidthAssumption
<1>8. Cardinality(pool) * Burst \in Nat /\ Width * Burst \in Nat
  BY <1>2, WidthFacts, WidthAssumption DEF WidthAssumption
<1> QED
  BY <1>4, <1>5, <1>7, <1>8

\* A call that goes out below the budget cannot push the tally past its bound:
\* whatever is in flight fits in one round of the widest pool.
LEMMA OvershootAfterRequest ==
  ASSUME IInv, IInv', ~MustSkip, spent' = spent
  PROVE  OvershootBounded'
<1>1. spent \in Nat /\ Budget \in Nat /\ spent < Budget
  BY TokenAssumption DEF TokenAssumption, IInv, TypeOK, MustSkip
<1>2. /\ Cardinality(open') \in Nat
      /\ Cardinality(open') <= Width * Burst
  <2>1. open' \subseteq PoolThreads' \X (1..Burst)
    BY DEF IInv, TypeOK, ThreadTable
  <2>2. PoolThreads' \in {Workers, RescueWorkers, {}}
    BY DEF PoolThreads
  <2> QED
    BY <2>1, <2>2, PoolCapacity
<1>3. Cardinality(open') * MaxTokens <= Width * Burst * MaxTokens
  BY <1>2, WidthFacts
<1>4. Cardinality(open') * MaxTokens \in Nat
  BY <1>2, TokenAssumption DEF TokenAssumption
<1> QED
  BY <1>1, <1>3, <1>4, WidthFacts DEF OvershootBounded, Width

\* An answer moves its tokens from the in-flight side of the sum to the spent.
LEMMA OvershootAfterAnswer ==
  ASSUME IInv, OvershootBounded,
         NEW t \in Threads, NEW s \in 1..Burst, NEW k \in 0..MaxTokens,
         Answer(t, s, k)
  PROVE  OvershootBounded'
<1>1. /\ IsFiniteSet(open)
      /\ Cardinality(open) \in Nat
  <2>1. open \subseteq PoolThreads \X (1..Burst)
    BY DEF IInv, TypeOK, ThreadTable
  <2>2. PoolThreads \in {Workers, RescueWorkers, {}}
    BY DEF PoolThreads
  <2> QED
    BY <2>1, <2>2, PoolCapacity
<1>2. /\ Cardinality(open') = Cardinality(open) - 1
      /\ spent' = spent + k
  BY <1>1, FS_RemoveElement DEF Answer
<1>3. /\ spent \in Nat /\ k \in Nat /\ k <= MaxTokens
      /\ MaxTokens \in Nat /\ Budget \in Nat
  BY TokenAssumption DEF TokenAssumption, IInv, TypeOK
<1>4. ASSUME NEW n \in Nat, NEW m \in Nat
      PROVE  (n - 1) * m = n * m - m /\ n * m \in Nat
  OBVIOUS
<1>5. /\ Cardinality(open') * MaxTokens = Cardinality(open) * MaxTokens - MaxTokens
      /\ Cardinality(open) * MaxTokens \in Nat
  BY <1>1, <1>2, <1>3, <1>4
<1> QED
  BY <1>2, <1>3, <1>5, WidthFacts DEF OvershootBounded, Width

\* The schedule of a review is sound, for any number of batches and threads.
THEOREM Scheduled == Spec => []ScheduleIsSound
  BY EveryCallReports, PrimerReportsFirst, PTL DEF ScheduleIsSound

\* The verdict of a review is honest, for any outcomes of its calls.
THEOREM Honest == Spec => []VerdictIsHonest
  BY RescueIsExact, MergeIsHonest, FailsLoud, PTL DEF VerdictIsHonest

\* The token budget is overrun by at most one round of provider calls, for
\* every number of threads, calls and tokens per call (_skip_reason).
THEOREM BudgetOvershoot == Spec => []OvershootBounded
<1>1. Init => OvershootBounded
  <2> SUFFICES ASSUME Init PROVE OvershootBounded
    OBVIOUS
  <2>1. Cardinality(open) = 0
    BY FS_EmptySet DEF Init
  <2>2. Budget \in Nat \ {0} /\ MaxTokens \in Nat
    BY TokenAssumption DEF TokenAssumption
  <2> QED
    BY <2>1, <2>2, WidthFacts DEF Init, OvershootBounded, Width
<1>2. IInv /\ OvershootBounded /\ [Next]_vars => OvershootBounded'
  <2> SUFFICES ASSUME IInv, OvershootBounded, [Next]_vars
               PROVE  OvershootBounded'
    OBVIOUS
  <2>0. IInv'
    BY NextIInv
  <2>1. CASE UNCHANGED <<open, spent>>
    BY <2>1 DEF OvershootBounded, Width
  <2>2. ASSUME NEW t \in Threads, Work(t) PROVE OvershootBounded'
    <3>1. ASSUME NEW c \in Calls, Start(t, c) PROVE OvershootBounded'
      BY <2>0, <3>1, OvershootAfterRequest DEF Start, ceilings
    <3>2. ASSUME NEW s \in 1..Burst, Request(t, s) PROVE OvershootBounded'
      BY <2>0, <3>2, OvershootAfterRequest DEF Request, ceilings
    <3>3. ASSUME NEW s \in 1..Burst, NEW k \in 0..MaxTokens, Answer(t, s, k)
          PROVE  OvershootBounded'
      BY <3>3, OvershootAfterAnswer
    <3>4. ASSUME NEW c \in Calls, SkipCall(t, c) PROVE OvershootBounded'
      BY <2>1, <3>4 DEF SkipCall, ceilings
    <3>5. ASSUME NEW o \in TaskOutcomes, Finish(t, o) PROVE OvershootBounded'
      BY <2>1, <3>5 DEF Finish, ceilings
    <3> QED
      BY <2>2, <3>1, <3>2, <3>3, <3>4, <3>5 DEF Work
  <2>3. CASE Main
    BY <2>1, <2>3 DEF Main, Collect, Drain, Merge, Conclude, ceilings
  <2>4. CASE Interrupt \/ DeadlinePasses \/ Over \/ UNCHANGED vars
    BY <2>1, <2>4 DEF Interrupt, DeadlinePasses, Over, vars
  <2> QED
    BY <2>2, <2>3, <2>4 DEF Next
<1> QED
  BY <1>1, <1>2, Invariance, PTL DEF Spec

-------------------------------------------------------------------------------
(* The contract of one call *)

\* A step of the fan-out is, for each call, a step of LensCall or none.
ContractStep(c) == [Contract(c)!Next]_(Contract(c)!vars)

\* What a call is doing and last reported, in the contract's words.
LEMMA ContractTyped ==
  ASSUME IInv, NEW c \in Calls
  PROVE  /\ ErrorOf(c) \in Contract(c)!Errors
         /\ rescued[c] = NoOutcome /\ results[c].error = "retryable"
              => ErrorOf(c) = "retryable"
         /\ rescued[c] = NoOutcome /\ results[c].error # "retryable"
              => ErrorOf(c) # "retryable"
  BY DEF ErrorOf, Contract!Errors

\* A call whose own state a step leaves alone does not move.
LEMMA Untouched ==
  ASSUME NEW c \in Calls, StageOf(c)' = StageOf(c), ErrorOf(c)' = ErrorOf(c)
  PROVE  ContractStep(c)
  BY DEF ContractStep, Contract!vars

LEMMA StartKeepsContract ==
  ASSUME IInv, NEW c \in Calls, NEW t \in Threads, NEW d \in Calls, Start(t, d)
  PROVE  ContractStep(c)
<1> USE DEF Start, ceilings, outcomes
<1>1. ErrorOf(c)' = ErrorOf(c)
  BY DEF ErrorOf
<1>2. CASE d # c
  <2>1. StageOf(c)' = StageOf(c)
    BY <1>2 DEF IInv, TypeOK, StageOf
  <2> QED
    BY <1>1, <2>1, Untouched
<1>3. CASE d = c /\ phase = "fanout"
  <2>1. StageOf(c) = "waiting" /\ StageOf(c)' = "running"
    BY <1>3 DEF IInv, TypeOK, StageOf, Next1
  <2> QED
    BY <1>1, <2>1 DEF ContractStep, Contract!Next, Contract!Begin
<1>4. CASE d = c /\ phase = "rescue"
  <2>1. StageOf(c) = "returned" /\ StageOf(c)' = "rerunning"
    BY <1>4 DEF IInv, TypeOK, StageOf, Next1
  <2>2. ErrorOf(c) = "retryable"
    BY <1>4, ContractTyped DEF IInv, Lists, Retrying, Next1
  <2> QED
    BY <1>1, <2>1, <2>2 DEF ContractStep, Contract!Next, Contract!Rerun
<1> QED
  BY <1>2, <1>3, <1>4 DEF PoolThreads

LEMMA SkipCallKeepsContract ==
  ASSUME IInv, NEW c \in Calls, NEW t \in Threads, NEW d \in Calls, SkipCall(t, d)
  PROVE  ContractStep(c)
<1> USE DEF SkipCall, Report, ceilings
<1>1. CASE d # c
  <2>1. StageOf(c)' = StageOf(c) /\ ErrorOf(c)' = ErrorOf(c)
    BY <1>1 DEF IInv, TypeOK, StageOf, ErrorOf
  <2> QED
    BY <2>1, Untouched
<1>2. CASE d = c /\ phase = "fanout"
  <2>1. StageOf(c) = "waiting" /\ StageOf(c)' = "returned"
    BY <1>2 DEF IInv, TypeOK, StageOf, Next1
  <2>2. ErrorOf(c)' = "plain"
    <3>1. rescued'[c] = NoOutcome
      BY <1>2 DEF IInv, Lists
    <3>2. results'[c].error = "skipped"
      BY <1>2 DEF IInv, TypeOK, Skipped
    <3> QED
      BY <3>1, <3>2 DEF ErrorOf
  <2> QED
    BY <2>1, <2>2 DEF ContractStep, Contract!Next, Contract!Skip
<1>3. CASE d = c /\ phase = "rescue"
  <2>1. StageOf(c) = "returned" /\ StageOf(c)' = "settled"
    BY <1>3 DEF IInv, TypeOK, StageOf, Next1
  <2>2. ErrorOf(c) = "retryable"
    BY <1>3, ContractTyped DEF IInv, Lists, Retrying, Next1
  <2>3. ErrorOf(c)' = "plain"
    <3>1. rescued'[c] = Skipped
      BY <1>3 DEF IInv, TypeOK
    <3>2. rescued'[c] # NoOutcome /\ rescued'[c].error = "skipped"
      BY <3>1 DEF Skipped, NoOutcome
    <3> QED
      BY <3>2 DEF ErrorOf
  <2> QED
    BY <2>1, <2>2, <2>3 DEF ContractStep, Contract!Next, Contract!SkipRerun
<1> QED
  BY <1>1, <1>2, <1>3 DEF PoolThreads

LEMMA FinishKeepsContract ==
  ASSUME IInv, NEW c \in Calls, NEW t \in Threads, NEW o \in TaskOutcomes,
         Finish(t, o)
  PROVE  ContractStep(c)
<1> USE DEF Finish, Report, ceilings
<1>0. /\ task[t] \in Calls
      /\ status[task[t]] = "running"
      /\ phase \in {"fanout", "rescue"}
      /\ o # NoOutcome
  BY OutcomeFacts DEF IInv, ThreadTable, PoolThreads
<1>1. ErrorOf(c)' \in Contract(c)!Errors
  BY DEF ErrorOf, Contract!Errors
<1>2. CASE task[t] # c
  <2>1. StageOf(c)' = StageOf(c) /\ ErrorOf(c)' = ErrorOf(c)
    BY <1>0, <1>2 DEF IInv, TypeOK, StageOf, ErrorOf
  <2> QED
    BY <2>1, Untouched
<1>3. CASE task[t] = c /\ phase = "fanout"
  <2>1. StageOf(c) = "running" /\ StageOf(c)' = "returned"
    BY <1>0, <1>3 DEF IInv, TypeOK, StageOf
  <2> QED
    BY <1>1, <2>1 DEF ContractStep, Contract!Next, Contract!Return
<1>4. CASE task[t] = c /\ phase = "rescue"
  <2>1. StageOf(c) = "rerunning" /\ StageOf(c)' = "settled"
    BY <1>0, <1>4 DEF IInv, TypeOK, StageOf
  <2> QED
    BY <1>1, <2>1 DEF ContractStep, Contract!Next, Contract!SettleRerun
<1> QED
  BY <1>0, <1>2, <1>3, <1>4

LEMMA MainKeepsContract ==
  ASSUME IInv, NEW c \in Calls, Main
  PROVE  ContractStep(c)
<1>1. ASSUME NEW d \in Calls, Collect(d) PROVE ContractStep(c)
  <2>1. StageOf(c)' = StageOf(c) /\ ErrorOf(c)' = ErrorOf(c)
    BY <1>1 DEF Collect, Released, outcomes, IInv, TypeOK, StageOf, ErrorOf
  <2> QED
    BY <2>1, Untouched
<1>2. CASE Drain
  <2> USE <1>2 DEF Drain
  <2>0. /\ status[c] = "collected"
        /\ StageOf(c) = "returned"
        /\ ErrorOf(c)' = ErrorOf(c)
        /\ rescued[c] = NoOutcome
    BY DrainFindsAllCollected DEF IInv, Lists, StageOf, ErrorOf
  <2>1. CASE c \in Retrying
    <3>1. StageOf(c)' = "returned"
      BY <2>1 DEF IInv, TypeOK, StageOf
    <3> QED
      BY <2>0, <3>1, Untouched
  <2>2. CASE c \notin Retrying
    <3>1. StageOf(c)' = "settled"
      BY <2>0, <2>2 DEF IInv, TypeOK, StageOf
    <3>2. ErrorOf(c) # "retryable"
      BY <2>0, <2>2, ContractTyped DEF Retrying
    <3> QED
      BY <2>0, <3>1, <3>2 DEF ContractStep, Contract!Next, Contract!Settle
  <2> QED
    BY <2>1, <2>2
<1>3. CASE Merge
  <2>1. StageOf(c)' = StageOf(c) /\ ErrorOf(c)' = ErrorOf(c)
    BY <1>3 DEF Merge, IInv, TypeOK, Lists, StageOf, ErrorOf
  <2> QED
    BY <2>1, Untouched
<1>4. CASE Conclude
  <2>1. StageOf(c)' = StageOf(c) /\ ErrorOf(c)' = ErrorOf(c)
    BY <1>4 DEF Conclude, outcomes, StageOf, ErrorOf
  <2> QED
    BY <2>1, Untouched
<1> QED
  BY <1>1, <1>2, <1>3, <1>4 DEF Main

LEMMA NextKeepsContract ==
  ASSUME IInv, [Next]_vars, NEW c \in Calls
  PROVE  ContractStep(c)
<1>1. CASE UNCHANGED <<phase, status, results, rescued>>
  BY <1>1, Untouched DEF StageOf, ErrorOf
<1>2. ASSUME NEW t \in Threads, Work(t) PROVE ContractStep(c)
  <2>1. ASSUME NEW s \in 1..Burst, Request(t, s) PROVE ContractStep(c)
    BY <1>1, <2>1 DEF Request, outcomes
  <2>2. ASSUME NEW s \in 1..Burst, NEW k \in 0..MaxTokens, Answer(t, s, k)
        PROVE  ContractStep(c)
    BY <1>1, <2>2 DEF Answer, outcomes
  <2> QED
    BY <1>2, <2>1, <2>2, StartKeepsContract, SkipCallKeepsContract,
       FinishKeepsContract DEF Work
<1>3. CASE Main
  BY <1>3, MainKeepsContract
<1>4. CASE Interrupt \/ DeadlinePasses \/ Over \/ UNCHANGED vars
  BY <1>1, <1>4 DEF Interrupt, DeadlinePasses, Over, vars, outcomes
<1> QED
  BY <1>2, <1>3, <1>4 DEF Next

\* The fan-out with its rescue wave implements LensCall for every call: tried
\* once, then at most once more, and only for a failure on the provider.
THEOREM Implementation == Spec => CallContract
<1>1. Init => \A c \in Calls : Contract(c)!Init
  BY DEF Init, Contract!Init, StageOf, ErrorOf, NoOutcome
<1>2. IInv /\ [Next]_vars =>
        [\A c \in Calls : [Contract(c)!Next]_(Contract(c)!vars)]_vars
  BY NextKeepsContract DEF ContractStep
<1> QED
  BY <1>1, <1>2, Invariance, PTL DEF Spec, CallContract

-----------------------------------------------------------------------------
(* The adapter *)

LEMMA SetupFacts ==
  ASSUME AdapterTypeOK
  PROVE  /\ setup.params \subseteq Params
         /\ setup.hasFallback \in BOOLEAN
         /\ setup.route \in [Models -> Routes]
  BY SetupAssumption DEF SetupAssumption, AdapterTypeOK, SetupSpace

LEMMA InitType == AdapterInit => AdapterTypeOK
  BY SetupAssumption, BoundAssumption
     DEF AdapterInit, AdapterTypeOK, BoundAssumption, Models, Modes, PCs, Mechanisms, Results,
         NoResult,         Unseen, NoBlame

-------------------------------------------------------------------------------
(* Types *)

\* What a turn, an end, another attempt and a request do to the types, whichever
\* action takes them.
LEMMA TurnType ==
  ASSUME AdapterTypeOK, NEW c \in Completions, NEW m \in Models, NEW asked \in BOOLEAN,
         Turn(c, m, asked)
  PROVE  /\ pc' \in [Completions -> PCs]
         /\ model' \in [Completions -> Models]
         /\ carries' \in [Completions -> Mechanisms]
         /\ params' \in [Completions -> SUBSET Params]
         /\ attempts' \in [Completions -> 0..MaxAttempts]
         /\ requests' \in [Completions -> Nat]
         /\ resent' \in [Completions -> BOOLEAN]
         /\ seen' \in [Completions -> [mode : Modes, refused : SUBSET Params]]
<1>1. 1 \in 0..MaxAttempts
  BY BoundAssumption DEF BoundAssumption
<1>2. [mode |-> mode[m], refused |-> {}] \in [mode : Modes, refused : SUBSET Params]
  BY DEF AdapterTypeOK
<1> QED
  BY <1>1, <1>2, SetupFacts DEF AdapterTypeOK, Turn, PCs, Mechanisms

LEMMA FinishType ==
  ASSUME AdapterTypeOK, NEW c \in Completions, NEW outcome \in {"text", "error"}, FinishTurn(c, outcome)
  PROVE  /\ pc' \in [Completions -> PCs]
         /\ model' \in [Completions -> Models]
         /\ carries' \in [Completions -> Mechanisms]
         /\ params' \in [Completions -> SUBSET Params]
         /\ attempts' \in [Completions -> 0..MaxAttempts]
         /\ requests' \in [Completions -> Nat]
         /\ resent' \in [Completions -> BOOLEAN]
         /\ seen' \in [Completions -> [mode : Modes, refused : SUBSET Params]]
         /\ lost' \in [Completions -> BOOLEAN]
         /\ result' \in [Completions -> Results]
<1>1. 0 \in 0..MaxAttempts
  BY BoundAssumption DEF BoundAssumption
<1>2. Unseen \in [mode : Modes, refused : SUBSET Params]
  BY DEF Unseen, Modes
<1>3. Dropped(c) \in BOOLEAN
  BY DEF Dropped, Asked, AdapterTypeOK
<1>4. [outcome |-> outcome, dropped |-> Dropped(c)] \in Results
  BY <1>3 DEF Results
<1>5. result' \in [Completions -> Results]
  BY <1>4 DEF AdapterTypeOK, FinishTurn
<1> QED
  BY <1>1, <1>2, <1>5 DEF AdapterTypeOK, FinishTurn, PCs

LEMMA RetryType ==
  ASSUME AdapterTypeOK, NEW c \in Completions, Retry(c)
  PROVE  /\ pc' \in [Completions -> PCs]
         /\ attempts' \in [Completions -> 0..MaxAttempts]
         /\ resent' \in [Completions -> BOOLEAN]
         /\ seen' \in [Completions -> [mode : Modes, refused : SUBSET Params]]
<1>1. attempts[c] + 1 \in 0..MaxAttempts
  BY BoundAssumption DEF BoundAssumption, AdapterTypeOK, Retry
<1>2. [mode |-> mode[model[c]], refused |-> {}] \in [mode : Modes, refused : SUBSET Params]
  BY DEF AdapterTypeOK
<1> QED
  BY <1>1, <1>2 DEF AdapterTypeOK, Retry, Fresh, PCs

\* Another attempt, the fallback's turn or the error: all that a failure does.
LEMMA FailureType ==
  ASSUME AdapterTypeOK, NEW c \in Completions, NEW oversized \in BOOLEAN,
         Retry(c) \/ Raise(c, oversized),
         UNCHANGED <<setup, knowledge, rung, blamed, history>>
  PROVE  AdapterTypeOK'
<1>1. CASE Retry(c)
  BY <1>1, RetryType DEF AdapterTypeOK, Retry, kwargs, knowledge, history
<1>2. CASE FinishTurn(c, "error")
  BY <1>2, FinishType DEF AdapterTypeOK, knowledge, history
<1>3. CASE /\ Turn(c, "fallback", Asked(c))
           /\ lost' = [lost EXCEPT ![c] = Dropped(c)]
           /\ UNCHANGED result
  <2>1. Asked(c) \in BOOLEAN /\ Dropped(c) \in BOOLEAN /\ "fallback" \in Models
    BY DEF Asked, Dropped, AdapterTypeOK, Models
  <2>2. lost' \in [Completions -> BOOLEAN]
    BY <1>3, <2>1 DEF AdapterTypeOK
  <2> QED
    BY <1>3, <2>1, <2>2, TurnType DEF AdapterTypeOK, knowledge, history
<1> QED
  BY <1>1, <1>2, <1>3 DEF Raise

LEMMA SendType ==
  ASSUME AdapterTypeOK, NEW c \in Completions, Send(c)
  PROVE  /\ pc' \in [Completions -> PCs]
         /\ requests' \in [Completions -> Nat]
         /\ stripped' \in [Completions -> SUBSET Models]
  BY DEF AdapterTypeOK, Send, PCs

\* What is lost of the schema, to the request and to the model's later ones.
LEMMA LossType ==
  ASSUME AdapterTypeOK, NEW c \in Completions, UseTool(c) \/ GiveUp(c)
  PROVE  /\ carries' \in [Completions -> Mechanisms]
         /\ mode' \in [Models -> Modes]
  BY DEF AdapterTypeOK, UseTool, GiveUp, Mechanisms, Modes

LEMMA FailsType ==
  ASSUME AdapterTypeOK, NEW m \in Models, NEW gone \in SUBSET {"schema", "tool"}, Fails(m, gone)
  PROVE  evidence' \in [Models -> SUBSET {"schema", "tool"}]
  BY DEF AdapterTypeOK, Fails

LEMMA CallType ==
  ASSUME AdapterTypeOK, NEW c \in Completions, Call(c)
  PROVE  AdapterTypeOK'
<1> USE DEF knowledge, kwargs, progress, ends, history
<1>1. CASE Complete(c)
  <2>1. PICK m \in Models : Turn(c, m, TRUE)
    BY <1>1 DEF Complete, Models
  <2> QED
    BY <1>1, <2>1, TurnType DEF AdapterTypeOK, Complete
<1>2. CASE Honour(c)
  <2>1. mode' \in [Models -> Modes] /\ carries' \in [Completions -> Mechanisms]
    BY <1>2, LossType DEF AdapterTypeOK, Honour
  <2>2. evidence' \in [Models -> SUBSET {"schema", "tool"}]
    BY <1>2, FailsType DEF AdapterTypeOK, Honour
  <2>3. [mode |-> mode'[model[c]], refused |-> {}] \in [mode : Modes, refused : SUBSET Params]
    BY <2>1 DEF AdapterTypeOK
  <2> QED
    BY <1>2, <2>1, <2>2, <2>3 DEF AdapterTypeOK, Honour, PCs
<1>3. CASE Mark(c)
  <2>1. mode' \in [Models -> Modes]
    BY <1>3 DEF AdapterTypeOK, Mark, Modes
  <2>2. [mode |-> mode'[model[c]], refused |-> refused[model[c]]]
          \in [mode : Modes, refused : SUBSET Params]
    BY <2>1 DEF AdapterTypeOK
  <2> QED
    BY <1>3, <2>1, <2>2 DEF AdapterTypeOK, Mark, PCs
<1>4. CASE Apply(c)
  <2>1. mode' \in [Models -> Modes] /\ carries' \in [Completions -> Mechanisms]
    BY <1>4, LossType DEF AdapterTypeOK, Apply, Mechanisms
  <2>2. Unseen \in [mode : Modes, refused : SUBSET Params]
    BY DEF Unseen, Modes
  <2> QED
    BY <1>4, <2>1, <2>2, SendType DEF AdapterTypeOK, Apply
<1>5. CASE IterationFails(c)
  BY <1>5, FailureType DEF IterationFails
<1>6. CASE Transient(c)
  BY <1>6, FailureType DEF Transient
<1>7. CASE Permanent(c)
  BY <1>7, FailureType DEF Permanent
<1>8. CASE \E p \in Params : RejectsParam(c, p)
  BY <1>8, SendType DEF AdapterTypeOK, RejectsParam, Resend
<1>9. CASE RejectsSchema(c) \/ RejectsInternalTool(c) \/ RejectsTool(c)
  <2>1. mode' \in [Models -> Modes] /\ carries' \in [Completions -> Mechanisms]
    BY <1>9, LossType DEF RejectsSchema, RejectsInternalTool, RejectsTool
  <2>2. evidence' \in [Models -> SUBSET {"schema", "tool"}]
    BY <1>9, FailsType DEF AdapterTypeOK, RejectsSchema, RejectsInternalTool, RejectsTool
  <2> QED
    BY <1>9, <2>1, <2>2, SendType
       DEF AdapterTypeOK, RejectsSchema, RejectsInternalTool, RejectsTool, Resend
<1>10. CASE Empty(c)
  <2>1. mode' \in [Models -> Modes] /\ carries' \in [Completions -> Mechanisms]
    BY <1>10, LossType DEF AdapterTypeOK, Empty, StepDownAfterEmpty
  <2>2. evidence' \in [Models -> SUBSET {"schema", "tool"}]
    BY <1>10, FailsType DEF AdapterTypeOK, Empty
  <2> QED
    BY <1>10, <2>1, <2>2, SendType DEF AdapterTypeOK, Empty, Resend
<1>11. CASE Text(c)
  BY <1>11, FinishType DEF AdapterTypeOK, Text
<1>12. CASE Parses(c) \/ DoesNotParse(c) \/ ReportsUnparseable(c)
  BY <1>12 DEF AdapterTypeOK, Parses, DoesNotParse, ReportsUnparseable, PCs
<1>13. CASE Reask(c)
  <2>1. "primary" \in Models /\ [model |-> model[c], by |-> carries[c]]
                                   \in [model : Models, by : Mechanisms]
    BY DEF AdapterTypeOK, Models
  <2> QED
    BY <1>13, <2>1, TurnType DEF AdapterTypeOK, Reask
<1>14. CASE Demote(c)
  <2>1. mode' \in [Models -> Modes]
    BY <1>14 DEF AdapterTypeOK, Demote, StepDown, Modes
  <2>2. evidence' \in [Models -> SUBSET {"schema", "tool"}]
    BY <1>14, FailsType DEF AdapterTypeOK, Demote
  <2> QED
    BY <1>14, <2>1, <2>2 DEF AdapterTypeOK, Demote, PCs
<1> QED
  BY <1>1, <1>2, <1>3, <1>4, <1>5, <1>6, <1>7, <1>8, <1>9, <1>10, <1>11, <1>12, <1>13,
     <1>14 DEF Call

\* Every variable of the adapter keeps its type, its attempts within the limit.
THEOREM AdapterTypeCorrect == AdapterSpec => []AdapterTypeOK
<1>1. AdapterTypeOK /\ [AdapterNext]_adapterVars => AdapterTypeOK'
  <2> SUFFICES ASSUME AdapterTypeOK, [AdapterNext]_adapterVars PROVE AdapterTypeOK'
    OBVIOUS
  <2>1. CASE \E c \in Completions : Call(c)
    BY <2>1, CallType
  <2>2. CASE UNCHANGED adapterVars
    BY <2>2 DEF AdapterTypeOK, adapterVars
  <2> QED
    BY <2>1, <2>2 DEF AdapterNext, AllDone
<1> QED
  BY InitType, <1>1, PTL DEF AdapterSpec

-------------------------------------------------------------------------------
(* The cost of a turn *)

InTurn == {"honouring", "marking", "applying", "sending"}

\* How many mechanisms a request has lost.
Rank(mechanism) ==
  IF mechanism = "schema" THEN 0 ELSE IF mechanism = "tool" THEN 1 ELSE 2

\* The requests of the attempt under way.
Open(c) == IF pc[c] # "sending" THEN 0 ELSE IF resent[c] THEN 2 ELSE 1

\* Every request of the turn is paid for by an attempt, its re-send, a param
\* that is gone or a mechanism that is.
Account(c) ==
  /\ pc[c] \notin InTurn => requests[c] = 0
  /\ pc[c] \in InTurn =>
       /\ attempts[c] >= 1
       /\ params[c] \subseteq setup.params
       /\ pc[c] # "sending" => ~resent[c]
       /\ requests[c] + Cardinality(params[c])
            <= 2 * (attempts[c] - 1) + Cardinality(setup.params)
                 + Rank(carries[c]) + Open(c)

Accounts == \A c \in Completions : Account(c)

AdapterInv == AdapterTypeOK /\ Accounts

\* A set of params is finite, and no larger than one it is part of.
LEMMA ParamsFacts ==
  ASSUME NEW S \in SUBSET Params
  PROVE  /\ IsFiniteSet(S)
         /\ Cardinality(S) \in Nat
         /\ \A T \in SUBSET S : Cardinality(T) \in Nat /\ Cardinality(T) <= Cardinality(S)
         /\ \A p \in S : Cardinality(S \ {p}) = Cardinality(S) - 1
<1>1. IsFiniteSet(S)
  BY BoundAssumption, FS_Subset DEF BoundAssumption
<1>2. \A T \in SUBSET S : Cardinality(T) \in Nat /\ Cardinality(T) <= Cardinality(S)
  BY <1>1, FS_Subset, FS_CardinalityType
<1>3. \A p \in S : Cardinality(S \ {p}) = Cardinality(S) - 1
  BY <1>1, FS_RemoveElement
<1> QED
  BY <1>1, <1>2, <1>3, FS_CardinalityType

\* The call that takes the step is the only one it touches.
LEMMA OthersKeep ==
  ASSUME AdapterTypeOK, NEW c \in Completions, Call(c), NEW d \in Completions, d # c
  PROVE  /\ pc'[d] = pc[d] /\ requests'[d] = requests[d] /\ attempts'[d] = attempts[d]
         /\ params'[d] = params[d] /\ resent'[d] = resent[d] /\ carries'[d] = carries[d]
         /\ rung'[d] = rung[d] /\ model'[d] = model[d] /\ lost'[d] = lost[d]
         /\ result'[d] = result[d] /\ stripped'[d] = stripped[d]
         /\ setup' = setup
<1> USE DEF knowledge, kwargs, progress, ends, history
<1> DEFINE Kept ==
      /\ pc'[d] = pc[d] /\ requests'[d] = requests[d] /\ attempts'[d] = attempts[d]
      /\ params'[d] = params[d] /\ resent'[d] = resent[d] /\ carries'[d] = carries[d]
      /\ rung'[d] = rung[d] /\ model'[d] = model[d] /\ lost'[d] = lost[d]
      /\ result'[d] = result[d] /\ stripped'[d] = stripped[d]
<1>1. CASE Complete(c) \/ Reask(c)
  BY <1>1 DEF AdapterTypeOK, Complete, Reask, Turn
<1>2. CASE Honour(c)
  BY <1>2 DEF AdapterTypeOK, Honour, UseTool, GiveUp
<1>3. CASE Mark(c)
  BY <1>3 DEF AdapterTypeOK, Mark
<1>4. CASE Apply(c)
  <2>1. carries'[d] = carries[d]
    BY <1>4 DEF AdapterTypeOK, Apply, UseTool
  <2> QED
    BY <1>4, <2>1 DEF AdapterTypeOK, Apply, Send
<1>5. CASE IterationFails(c) \/ Transient(c) \/ Permanent(c)
  <2>1. /\ setup' = setup /\ rung' = rung /\ stripped' = stripped
        /\ Retry(c) \/ \E oversized \in BOOLEAN : Raise(c, oversized)
    BY <1>5 DEF IterationFails, Transient, Permanent
  <2>2. CASE Retry(c)
    BY <2>1, <2>2 DEF AdapterTypeOK, Retry
  <2>3. ASSUME NEW oversized \in BOOLEAN, Raise(c, oversized)
        PROVE  Kept
    <3>1. CASE FinishTurn(c, "error")
      BY <2>1, <3>1 DEF AdapterTypeOK, FinishTurn
    <3>2. CASE /\ Turn(c, "fallback", Asked(c))
               /\ lost' = [lost EXCEPT ![c] = Dropped(c)]
               /\ UNCHANGED result
      BY <2>1, <3>2 DEF AdapterTypeOK, Turn
    <3> QED
      BY <2>3, <3>1, <3>2 DEF Raise
  <2> QED
    BY <2>1, <2>2, <2>3
<1>6. CASE \E p \in Params : RejectsParam(c, p)
  BY <1>6 DEF AdapterTypeOK, RejectsParam, Resend, Send
<1>7. CASE RejectsSchema(c) \/ RejectsInternalTool(c) \/ RejectsTool(c)
  BY <1>7 DEF AdapterTypeOK, RejectsSchema, RejectsInternalTool, RejectsTool, Resend, Send,
              UseTool, GiveUp
<1>8. CASE Empty(c)
  BY <1>8 DEF AdapterTypeOK, Empty, StepDownAfterEmpty, Resend, Send, UseTool, GiveUp
<1>9. CASE Text(c)
  BY <1>9 DEF AdapterTypeOK, Text, FinishTurn
<1>10. CASE Parses(c) \/ DoesNotParse(c) \/ ReportsUnparseable(c) \/ Demote(c)
  BY <1>10 DEF AdapterTypeOK, Parses, DoesNotParse, ReportsUnparseable, Demote
<1> QED
  BY <1>1, <1>2, <1>3, <1>4, <1>5, <1>6, <1>7, <1>8, <1>9, <1>10 DEF Call

LEMMA TurnAccount ==
  ASSUME AdapterTypeOK, NEW c \in Completions, NEW m \in Models, NEW asked \in BOOLEAN,
         Turn(c, m, asked), setup' = setup
  PROVE  Account(c)'
<1>1. /\ pc'[c] = "honouring" /\ attempts'[c] = 1 /\ requests'[c] = 0
      /\ params'[c] = setup.params /\ resent'[c] = FALSE
  BY DEF AdapterTypeOK, Turn
<1>2. Cardinality(setup.params) \in Nat
  BY SetupFacts, ParamsFacts
<1>3. Rank(carries[c])' \in Nat
  BY DEF Rank
<1> QED
  BY <1>1, <1>2, <1>3 DEF Account, Open, InTurn

LEMMA FinishAccount ==
  ASSUME AdapterTypeOK, NEW c \in Completions, NEW outcome \in {"text", "error"}, FinishTurn(c, outcome)
  PROVE  Account(c)'
<1>1. requests'[c] = 0 /\ pc'[c] \in {"returned", "done"}
  BY DEF AdapterTypeOK, FinishTurn
<1> QED
  BY <1>1 DEF Account, InTurn

\* The attempt that failed has made at most its two requests.
LEMMA RetryAccount ==
  ASSUME AdapterTypeOK, NEW c \in Completions, Account(c), pc[c] \in InTurn, Retry(c), setup' = setup
  PROVE  Account(c)'
<1>1. /\ pc'[c] = "honouring" /\ attempts'[c] = attempts[c] + 1 /\ resent'[c] = FALSE
      /\ requests'[c] = requests[c] /\ params'[c] = params[c] /\ carries'[c] = carries[c]
  BY DEF AdapterTypeOK, Retry, kwargs
<1>2. /\ Cardinality(setup.params) \in Nat /\ Cardinality(params[c]) \in Nat
      /\ requests[c] \in Nat /\ attempts[c] \in Nat /\ Rank(carries[c]) \in Nat
  BY SetupFacts, ParamsFacts, BoundAssumption DEF BoundAssumption, AdapterTypeOK, Rank
<1>3. Open(c) <= 2 /\ Open(c)' = 0 /\ Rank(carries[c])' = Rank(carries[c])
  BY <1>1 DEF Open, Rank
<1>4. Open(c) \in Nat
  BY DEF Open
<1> QED
  BY <1>1, <1>2, <1>3, <1>4 DEF Account, InTurn

LEMMA FailureAccount ==
  ASSUME AdapterTypeOK, NEW c \in Completions, Account(c), pc[c] \in InTurn, setup' = setup,
         NEW oversized \in BOOLEAN, Retry(c) \/ Raise(c, oversized)
  PROVE  Account(c)'
<1>1. Asked(c) \in BOOLEAN /\ "fallback" \in Models
  BY DEF Asked, Models
<1> QED
  BY <1>1, RetryAccount, TurnAccount, FinishAccount DEF Raise

\* A request more, for something less of the request.
LEMMA ResendAccount ==
  ASSUME AdapterTypeOK, NEW c \in Completions, Account(c), pc[c] = "sending", setup' = setup,
         pc'[c] = "sending", attempts'[c] = attempts[c],
         requests'[c] = requests[c] + 1,
         params'[c] \subseteq params[c], carries'[c] \in Mechanisms,
         Rank(carries'[c]) \in Nat,
         \/ /\ resent'[c] = resent[c] /\ params'[c] = params[c]
            /\ Rank(carries'[c]) >= Rank(carries[c]) + 1
         \/ /\ resent'[c] = resent[c] /\ carries'[c] = carries[c]
            /\ Cardinality(params'[c]) = Cardinality(params[c]) - 1
         \/ /\ ~resent[c] /\ resent'[c] = TRUE /\ params'[c] = params[c]
            /\ Rank(carries'[c]) >= Rank(carries[c])
  PROVE  Account(c)'
<1>1. /\ Cardinality(setup.params) \in Nat /\ Cardinality(params[c]) \in Nat
      /\ requests[c] \in Nat /\ attempts[c] \in Nat /\ Rank(carries[c]) \in Nat
  BY SetupFacts, ParamsFacts, BoundAssumption DEF BoundAssumption, AdapterTypeOK, Rank
<1>2. /\ Open(c) = (IF resent[c] THEN 2 ELSE 1)
      /\ Open(c)' = (IF resent'[c] THEN 2 ELSE 1)
  BY DEF Open
<1>3. resent[c] \in BOOLEAN
  BY DEF AdapterTypeOK
<1>4. Cardinality(params'[c]) \in Nat
  BY <1>1, ParamsFacts DEF AdapterTypeOK
<1>5. /\ params[c] \subseteq setup.params
      /\ requests[c] + Cardinality(params[c])
           <= 2 * (attempts[c] - 1) + Cardinality(setup.params)
                + Rank(carries[c]) + Open(c)
      /\ attempts[c] >= 1
  BY DEF Account, InTurn
<1>6. requests'[c] + Cardinality(params'[c])
        <= 2 * (attempts'[c] - 1) + Cardinality(setup.params)
             + Rank(carries'[c]) + Open(c)'
  BY <1>1, <1>2, <1>3, <1>4, <1>5
<1> QED
  BY <1>5, <1>6 DEF Account, InTurn, Rank

LEMMA CallAccount ==
  ASSUME AdapterInv, NEW c \in Completions, Call(c)
  PROVE  Account(c)'
<1> USE DEF knowledge, kwargs, progress, ends, history
<1>0. AdapterTypeOK /\ Account(c) /\ AdapterTypeOK'
  BY CallType DEF AdapterInv, Accounts
<1>1. CASE Complete(c) \/ Reask(c)
  <2>1. setup' = setup /\ \E m \in Models, asked \in BOOLEAN : Turn(c, m, asked)
    BY <1>1 DEF Complete, Reask, Models
  <2> QED
    BY <1>0, <2>1, TurnAccount
<1>2. CASE Honour(c)
  <2>1. Rank(carries[c]) \in Nat /\ Rank(carries'[c]) \in Nat
        /\ Rank(carries'[c]) >= Rank(carries[c])
    BY <1>0, <1>2 DEF AdapterTypeOK, Honour, UseTool, GiveUp, Rank
  <2>2. /\ pc[c] = "honouring" /\ pc'[c] = "marking" /\ setup' = setup
        /\ params' = params /\ attempts' = attempts /\ requests' = requests
        /\ resent' = resent
    BY <1>0, <1>2 DEF AdapterTypeOK, Honour
  <2>3. /\ Cardinality(setup.params) \in Nat /\ Cardinality(params[c]) \in Nat
        /\ requests[c] \in Nat /\ attempts[c] \in Nat
    BY <1>0, SetupFacts, ParamsFacts, BoundAssumption DEF BoundAssumption, AdapterTypeOK
  <2>4. Open(c) = 0 /\ Open(c)' = 0
    BY <2>2 DEF Open
  <2>5. requests'[c] + Cardinality(params'[c])
          <= 2 * (attempts'[c] - 1) + Cardinality(setup.params)
               + Rank(carries'[c]) + Open(c)'
    BY <1>0, <2>1, <2>2, <2>3, <2>4 DEF Account, InTurn
  <2> QED
    BY <1>0, <2>2, <2>5 DEF Account, InTurn, Rank
<1>3. CASE Mark(c)
  BY <1>0, <1>3 DEF AdapterTypeOK, Mark, Account, InTurn, Open, Rank
<1>4. CASE Apply(c)
  <2>1. Rank(carries[c]) \in Nat /\ Rank(carries'[c]) \in Nat
        /\ Rank(carries'[c]) >= Rank(carries[c])
    BY <1>0, <1>4 DEF AdapterTypeOK, Apply, UseTool, Rank
  <2>2. /\ pc[c] = "applying" /\ pc'[c] = "sending" /\ setup' = setup
        /\ params'[c] \subseteq params[c] /\ attempts' = attempts
        /\ requests'[c] = requests[c] + 1 /\ resent' = resent
    BY <1>0, <1>4 DEF AdapterTypeOK, Apply, Send
  <2>3. /\ Cardinality(setup.params) \in Nat /\ Cardinality(params[c]) \in Nat
        /\ Cardinality(params'[c]) \in Nat
        /\ Cardinality(params'[c]) <= Cardinality(params[c])
        /\ requests[c] \in Nat /\ attempts[c] \in Nat
    <3>1. /\ setup.params \in SUBSET Params /\ params[c] \in SUBSET Params
          /\ params'[c] \in SUBSET params[c]
      BY <1>0, <2>2, SetupFacts DEF AdapterTypeOK
    <3>2. requests[c] \in Nat /\ attempts[c] \in Nat
      BY <1>0, BoundAssumption DEF BoundAssumption, AdapterTypeOK
    <3> QED
      BY <3>1, <3>2, ParamsFacts
  <2>4. Open(c) = 0 /\ Open(c)' >= 1 /\ Open(c)' \in Nat
    BY <2>2 DEF Open
  <2>5. requests'[c] + Cardinality(params'[c])
          <= 2 * (attempts'[c] - 1) + Cardinality(setup.params)
               + Rank(carries'[c]) + Open(c)'
    BY <1>0, <2>1, <2>2, <2>3, <2>4 DEF Account, InTurn
  <2> QED
    BY <1>0, <2>2, <2>5 DEF Account, InTurn, Rank
<1>5. CASE IterationFails(c) \/ Transient(c) \/ Permanent(c)
  <2>1. /\ setup' = setup /\ pc[c] \in InTurn
        /\ \E oversized \in BOOLEAN : Retry(c) \/ Raise(c, oversized)
    BY <1>5 DEF IterationFails, Transient, Permanent, InTurn
  <2> QED
    BY <1>0, <2>1, FailureAccount
<1>6. CASE \E p \in Params : RejectsParam(c, p)
  <2>1. PICK p \in Params : RejectsParam(c, p)
    BY <1>6
  <2>2. Cardinality(params[c] \ {p}) = Cardinality(params[c]) - 1
    BY <1>0, <2>1, ParamsFacts DEF AdapterTypeOK, RejectsParam
  <2> QED
    BY <1>0, <2>1, <2>2, ResendAccount DEF AdapterTypeOK, RejectsParam, Resend, Send, Rank
<1>7. CASE RejectsSchema(c) \/ RejectsInternalTool(c) \/ RejectsTool(c)
  <2>1. Rank(carries'[c]) \in Nat /\ Rank(carries'[c]) >= Rank(carries[c]) + 1
    BY <1>0, <1>7 DEF AdapterTypeOK, RejectsSchema, RejectsInternalTool, RejectsTool, UseTool,
                      GiveUp, Rank
  <2>2. /\ pc[c] = "sending" /\ pc'[c] = "sending" /\ setup' = setup
        /\ requests'[c] = requests[c] + 1 /\ attempts' = attempts
        /\ params' = params /\ resent' = resent
    BY <1>0, <1>7 DEF AdapterTypeOK, RejectsSchema, RejectsInternalTool, RejectsTool, Resend, Send
  <2> QED
    BY <1>0, <2>1, <2>2, ResendAccount DEF AdapterTypeOK
<1>8. CASE Empty(c)
  <2>1. Rank(carries'[c]) \in Nat /\ Rank(carries'[c]) >= Rank(carries[c])
    BY <1>0, <1>8 DEF AdapterTypeOK, Empty, StepDownAfterEmpty, UseTool, GiveUp, Rank
  <2>2. /\ pc[c] = "sending" /\ pc'[c] = "sending" /\ setup' = setup
        /\ requests'[c] = requests[c] + 1 /\ attempts' = attempts
        /\ params' = params /\ ~resent[c] /\ resent'[c] = TRUE
    BY <1>0, <1>8 DEF AdapterTypeOK, Empty, Resend, Send
  <2> QED
    BY <1>0, <2>1, <2>2, ResendAccount DEF AdapterTypeOK
<1>9. CASE Text(c)
  BY <1>0, <1>9, FinishAccount DEF Text
<1>10. CASE Parses(c) \/ DoesNotParse(c) \/ ReportsUnparseable(c) \/ Demote(c)
  BY <1>0, <1>10 DEF AdapterTypeOK, Account, InTurn, Parses, DoesNotParse, ReportsUnparseable,
                     Demote
<1> QED
  BY <1>1, <1>2, <1>3, <1>4, <1>5, <1>6, <1>7, <1>8, <1>9, <1>10 DEF Call

LEMMA NextAccounts == AdapterInv /\ [AdapterNext]_adapterVars => AdapterInv'
<1> SUFFICES ASSUME AdapterInv, [AdapterNext]_adapterVars PROVE AdapterInv'
  OBVIOUS
<1>1. ASSUME NEW c \in Completions, Call(c) PROVE AdapterInv'
  <2>1. AdapterTypeOK /\ AdapterTypeOK'
    BY <1>1, CallType DEF AdapterInv
  <2>2. ASSUME NEW d \in Completions, d # c PROVE Account(d)'
    <3>1. Account(d)
      BY DEF AdapterInv, Accounts
    <3> QED
      BY <1>1, <2>1, <2>2, <3>1, OthersKeep DEF Account, Open, Rank
  <2> QED
    BY <1>1, <2>1, <2>2, CallAccount DEF AdapterInv, Accounts
<1>2. CASE UNCHANGED adapterVars
  BY <1>2 DEF AdapterInv, AdapterTypeOK, Accounts, Account, Open, Rank, adapterVars
<1> QED
  BY <1>1, <1>2 DEF AdapterNext, AllDone

\* The accounts hold of every reachable state.
THEOREM AdapterInvariance == AdapterSpec => []AdapterInv
<1>1. AdapterInit => AdapterInv
  BY InitType DEF AdapterInit, AdapterInv, Accounts, Account, InTurn
<1> QED
  BY <1>1, NextAccounts, PTL DEF AdapterSpec

\* One model's turn costs at most two requests an attempt and one for each
\* thing the request can lose, whatever the provider answers and whatever the
\* calls beside it learn (_complete_with_retry, _raw_completion).
THEOREM TurnsAreBounded == AdapterSpec => []RequestsBounded
<1>1. AdapterInv => RequestsBounded
  <2> SUFFICES ASSUME AdapterInv, NEW c \in Completions
               PROVE  requests[c] <= 2 * MaxAttempts + Cardinality(Params) + 2
    BY DEF RequestsBounded
  <2>1. AdapterTypeOK /\ Account(c)
    BY DEF AdapterInv, Accounts
  <2>2. /\ Cardinality(setup.params) \in Nat /\ Cardinality(params[c]) \in Nat
        /\ Cardinality(Params) \in Nat
        /\ Cardinality(setup.params) <= Cardinality(Params)
        /\ requests[c] \in Nat /\ attempts[c] \in Nat /\ attempts[c] <= MaxAttempts
        /\ MaxAttempts \in Nat
    BY <2>1, SetupFacts, ParamsFacts, BoundAssumption DEF BoundAssumption, AdapterTypeOK
  <2>3. Rank(carries[c]) \in 0..2 /\ Open(c) \in 0..2
    BY DEF Rank, Open
  <2> QED
    BY <2>1, <2>2, <2>3 DEF Account
<1> QED
  BY AdapterInvariance, <1>1, PTL

-------------------------------------------------------------------------------
(* What a request has lost stays lost *)

LEMMA CallNeverReEnforces ==
  ASSUME AdapterTypeOK, NEW c \in Completions, Call(c), requests[c] > 0, requests'[c] >= requests[c]
  PROVE  Weaker(carries'[c], carries[c])
<1> USE DEF knowledge, kwargs, progress, ends, history
<1>1. ASSUME NEW m \in Models, NEW asked \in BOOLEAN, Turn(c, m, asked) PROVE FALSE
  BY <1>1 DEF AdapterTypeOK, Turn
<1>2. ASSUME NEW outcome \in {"text", "error"}, FinishTurn(c, outcome) PROVE FALSE
  BY <1>2 DEF AdapterTypeOK, FinishTurn
<1>3. Asked(c) \in BOOLEAN /\ "fallback" \in Models /\ "primary" \in Models
  BY DEF Asked, Models
<1>4. CASE Complete(c) \/ Reask(c)
  BY <1>1, <1>3, <1>4 DEF Complete, Reask
<1>5. CASE Honour(c)
  BY <1>5 DEF AdapterTypeOK, Honour, UseTool, GiveUp, Weaker
<1>6. CASE Mark(c)
  BY <1>6 DEF Mark, Weaker
<1>7. CASE Apply(c)
  BY <1>7 DEF AdapterTypeOK, Apply, UseTool, Weaker
<1>8. CASE IterationFails(c) \/ Transient(c) \/ Permanent(c)
  <2>1. Retry(c) \/ \E oversized \in BOOLEAN : Raise(c, oversized)
    BY <1>8 DEF IterationFails, Transient, Permanent
  <2>2. ASSUME NEW oversized \in BOOLEAN, Raise(c, oversized) PROVE FALSE
    BY <1>1, <1>2, <1>3, <2>2 DEF Raise
  <2> QED
    BY <2>1, <2>2 DEF Retry, Weaker
<1>9. CASE \E p \in Params : RejectsParam(c, p)
  BY <1>9 DEF RejectsParam, Weaker
<1>10. CASE RejectsSchema(c) \/ RejectsInternalTool(c) \/ RejectsTool(c)
  BY <1>10 DEF AdapterTypeOK, RejectsSchema, RejectsInternalTool, RejectsTool, UseTool, GiveUp,
               Weaker
<1>11. CASE Empty(c)
  BY <1>11 DEF AdapterTypeOK, Empty, StepDownAfterEmpty, UseTool, GiveUp, Weaker
<1>12. CASE Text(c)
  BY <1>2, <1>12 DEF Text
<1>13. CASE Parses(c) \/ DoesNotParse(c) \/ ReportsUnparseable(c) \/ Demote(c)
  BY <1>13 DEF Parses, DoesNotParse, ReportsUnparseable, Demote, Weaker
<1> QED
  BY <1>4, <1>5, <1>6, <1>7, <1>8, <1>9, <1>10, <1>11, <1>12, <1>13 DEF Call

\* Within one turn a request never regains a mechanism it has lost, though other
\* calls move the model's mode in both directions under it (_call, over the one
\* dict of kwargs).
THEOREM LossIsFinal == AdapterSpec => NeverReEnforced
<1>1. AdapterTypeOK /\ [AdapterNext]_adapterVars =>
        [\A c \in Completions :
           requests[c] > 0 /\ requests'[c] >= requests[c] => Weaker(carries'[c], carries[c])]_adapterVars
  <2> SUFFICES ASSUME AdapterTypeOK, AdapterNext, NEW c \in Completions,
                      requests[c] > 0, requests'[c] >= requests[c]
               PROVE  Weaker(carries'[c], carries[c])
    OBVIOUS
  <2>1. ASSUME NEW d \in Completions, Call(d), d # c PROVE carries'[c] = carries[c]
    BY <2>1, OthersKeep
  <2>2. CASE AllDone
    BY <2>2 DEF AllDone, Weaker, adapterVars
  <2> QED
    BY <2>1, <2>2, CallNeverReEnforces DEF AdapterNext, Weaker
<1> QED
  BY <1>1, AdapterTypeCorrect, PTL DEF AdapterSpec, NeverReEnforced

-------------------------------------------------------------------------------
(* What a call lost is what it says it lost *)

Disclosed(c) ==
  /\ stripped[c] # {} => result[c].dropped
  /\ result[c].dropped /\ result[c].outcome = "text" =>
       stripped[c] # {} \/ (model[c] = "fallback" /\ ~Escalation(c))

\* Where a call in its turn stands between what was sent bare and what its
\* kwargs, and the word the primary left it, say of that.
Wears(c) ==
  /\ Escalation(c) => model[c] = "fallback"
  /\ lost[c] => model[c] = "fallback" /\ ~Escalation(c)
  /\ "primary" \in stripped[c] => lost[c] \/ (model[c] = "primary" /\ carries[c] = "bare")
  /\ "fallback" \in stripped[c] => model[c] = "fallback" /\ carries[c] = "bare"
  /\ pc[c] = "sending" /\ carries[c] = "bare" => model[c] \in stripped[c]

Losses(c) ==
  /\ pc[c] = "waiting" => /\ rung[c] = "first" /\ result[c] = NoResult
                          /\ ~lost[c] /\ stripped[c] = {}
  /\ rung[c] = "first" /\ pc[c] \in InTurn => result[c] = NoResult /\ Wears(c)
  /\ rung[c] = "first" /\ pc[c] \notin InTurn \cup {"waiting"} => Disclosed(c)

LossInv == \A c \in Completions : Losses(c)

\* How a turn begins, ends and tries again, at the call that does.
LEMMA TurnLosses ==
  ASSUME AdapterTypeOK, NEW c \in Completions, NEW m \in Models, NEW asked \in BOOLEAN,
         Turn(c, m, asked)
  PROVE  /\ pc'[c] = "honouring" /\ model'[c] = m
         /\ carries'[c] = IF asked THEN "schema" ELSE "bare"
  BY DEF AdapterTypeOK, Turn

LEMMA FinishLosses ==
  ASSUME AdapterTypeOK, NEW c \in Completions, NEW outcome \in {"text", "error"}, FinishTurn(c, outcome),
         Losses(c), pc[c] \in InTurn, outcome = "text" => pc[c] = "sending",
         setup' = setup, rung' = rung, stripped' = stripped
  PROVE  Losses(c)'
<1>1. /\ pc'[c] \in {"returned", "done"} /\ model'[c] = model[c]
      /\ result'[c].outcome = outcome /\ result'[c].dropped = Dropped(c)
      /\ rung'[c] = rung[c] /\ stripped'[c] = stripped[c]
  BY DEF AdapterTypeOK, FinishTurn
<1>2. rung[c] = "first" => Disclosed(c)'
  <2> SUFFICES ASSUME rung[c] = "first" PROVE Disclosed(c)'
    OBVIOUS
  <2>1. Wears(c) /\ Dropped(c) = (lost[c] \/ carries[c] = "bare")
    BY DEF Losses, Dropped, Asked
  <2>2. stripped[c] \subseteq {"primary", "fallback"}
    BY DEF AdapterTypeOK, Models
  <2> QED
    BY <1>1, <2>1, <2>2 DEF Disclosed, Wears, Escalation
<1> QED
  BY <1>1, <1>2 DEF Losses, InTurn

LEMMA FailureLosses ==
  ASSUME AdapterTypeOK, NEW c \in Completions, NEW oversized \in BOOLEAN,
         Retry(c) \/ Raise(c, oversized),
         Losses(c), pc[c] \in InTurn, setup' = setup, rung' = rung, stripped' = stripped
  PROVE  Losses(c)'
<1>1. CASE Retry(c)
  <2>1. /\ pc'[c] = "honouring" /\ model' = model /\ carries' = carries
        /\ lost' = lost /\ result' = result
    BY <1>1 DEF AdapterTypeOK, Retry, kwargs
  <2> QED
    BY <2>1 DEF Losses, Wears, InTurn, Escalation
<1>2. CASE FinishTurn(c, "error")
  BY <1>2, FinishLosses
<1>3. CASE /\ model[c] = "primary" /\ ~Escalation(c)
           /\ Turn(c, "fallback", Asked(c))
           /\ lost' = [lost EXCEPT ![c] = Dropped(c)]
           /\ UNCHANGED result
  <2>1. pc'[c] = "honouring" /\ model'[c] = "fallback"
    BY <1>3, TurnLosses DEF Asked, Models
  <2>2. lost'[c] = Dropped(c) /\ result'[c] = result[c]
    BY <1>3 DEF AdapterTypeOK
  <2> QED
    BY <1>3, <2>1, <2>2 DEF Losses, Wears, InTurn, Escalation, Dropped, Asked
<1> QED
  BY <1>1, <1>2, <1>3 DEF Raise

\* A request goes out carrying no more than the kwargs held, and is noted when
\* it goes out bare.
LEMMA SentLosses ==
  ASSUME AdapterTypeOK, NEW c \in Completions, Losses(c), pc[c] \in InTurn, Send(c),
         carries[c] = "bare" => carries'[c] = "bare",
         setup' = setup, rung' = rung, model' = model, lost' = lost, result' = result
  PROVE  Losses(c)'
<1>1. pc'[c] = "sending"
  BY DEF AdapterTypeOK, Send
<1>2. rung[c] = "first" =>
        stripped'[c] = IF carries'[c] = "bare" THEN stripped[c] \cup {model[c]} ELSE stripped[c]
  BY DEF AdapterTypeOK, Send, Asked
<1>3. model[c] \in {"primary", "fallback"}
  BY DEF AdapterTypeOK, Models
<1> QED
  BY <1>1, <1>2, <1>3 DEF Losses, Wears, InTurn, Escalation

LEMMA CallLosses ==
  ASSUME AdapterTypeOK, NEW c \in Completions, Losses(c), Call(c)
  PROVE  Losses(c)'
<1> USE DEF knowledge, kwargs, progress, ends, history
<1>1. CASE Complete(c)
  <2>1. Turn(c, IF Escalation(c) THEN "fallback" ELSE "primary", TRUE)
    BY <1>1 DEF Complete
  <2>2. pc'[c] = "honouring" /\ model'[c] = IF Escalation(c) THEN "fallback" ELSE "primary"
    BY <2>1, TurnLosses DEF Models
  <2>3. /\ pc[c] = "waiting" /\ setup' = setup /\ rung' = rung /\ result' = result
        /\ lost' = lost /\ stripped' = stripped
    BY <1>1 DEF Complete
  <2> QED
    BY <2>2, <2>3 DEF Losses, Wears, InTurn, Escalation
<1>2. CASE Honour(c)
  <2>1. /\ pc[c] = "honouring" /\ pc'[c] = "marking" /\ setup' = setup /\ model' = model
        /\ lost' = lost /\ rung' = rung /\ result' = result /\ stripped' = stripped
    BY <1>2 DEF AdapterTypeOK, Honour
  <2>2. carries[c] = "bare" => carries'[c] = "bare"
    BY <1>2 DEF AdapterTypeOK, Honour
  <2> QED
    BY <2>1, <2>2 DEF Losses, Wears, InTurn, Escalation
<1>3. CASE Mark(c)
  <2>1. /\ pc[c] = "marking" /\ pc'[c] = "applying" /\ setup' = setup /\ model' = model
        /\ lost' = lost /\ rung' = rung /\ result' = result /\ stripped' = stripped
        /\ carries' = carries
    BY <1>3 DEF AdapterTypeOK, Mark
  <2> QED
    BY <2>1 DEF Losses, Wears, InTurn, Escalation
<1>4. CASE Apply(c)
  <2>1. carries[c] = "bare" => carries'[c] = "bare"
    BY <1>4 DEF AdapterTypeOK, Apply
  <2> QED
    BY <1>4, <2>1, SentLosses DEF Apply, InTurn
<1>5. CASE IterationFails(c) \/ Transient(c) \/ Permanent(c)
  <2>1. /\ setup' = setup /\ rung' = rung /\ stripped' = stripped /\ pc[c] \in InTurn
        /\ \E oversized \in BOOLEAN : Retry(c) \/ Raise(c, oversized)
    BY <1>5 DEF IterationFails, Transient, Permanent, InTurn
  <2> QED
    BY <2>1, FailureLosses
<1>6. CASE \E p \in Params : RejectsParam(c, p)
  BY <1>6, SentLosses DEF RejectsParam, Resend, InTurn
<1>7. CASE RejectsSchema(c) \/ RejectsInternalTool(c) \/ RejectsTool(c)
  <2>1. carries[c] = "bare" => carries'[c] = "bare"
    BY <1>7 DEF RejectsSchema, RejectsInternalTool, RejectsTool
  <2> QED
    BY <1>7, <2>1, SentLosses
       DEF RejectsSchema, RejectsInternalTool, RejectsTool, Resend, InTurn
<1>8. CASE Empty(c)
  <2>1. carries[c] = "bare" => carries'[c] = "bare"
    BY <1>8 DEF Empty, StepDownAfterEmpty
  <2> QED
    BY <1>8, <2>1, SentLosses DEF Empty, Resend, InTurn
<1>9. CASE Text(c)
  BY <1>9, FinishLosses DEF Text, InTurn
<1>10. CASE Parses(c) \/ DoesNotParse(c) \/ ReportsUnparseable(c) \/ Demote(c)
  <2>1. /\ pc[c] \notin InTurn \cup {"waiting"} /\ pc'[c] \notin InTurn \cup {"waiting"}
        /\ setup' = setup /\ model' = model /\ rung' = rung /\ result' = result
        /\ stripped' = stripped
    BY <1>10 DEF AdapterTypeOK, Parses, DoesNotParse, ReportsUnparseable, Demote, InTurn
  <2> QED
    BY <2>1 DEF Losses, Disclosed, InTurn, Escalation
<1>11. CASE Reask(c)
  <2>1. rung'[c] = "reask" /\ pc'[c] = "honouring"
    BY <1>11 DEF AdapterTypeOK, Reask, Turn
  <2> QED
    BY <2>1 DEF Losses
<1> QED
  BY <1>1, <1>2, <1>3, <1>4, <1>5, <1>6, <1>7, <1>8, <1>9, <1>10, <1>11 DEF Call

LEMMA NextLosses == AdapterTypeOK /\ LossInv /\ [AdapterNext]_adapterVars => LossInv'
<1> SUFFICES ASSUME AdapterTypeOK, LossInv, [AdapterNext]_adapterVars, NEW d \in Completions PROVE Losses(d)'
  BY DEF LossInv
<1>1. ASSUME NEW c \in Completions, Call(c) PROVE Losses(d)'
  <2>1. CASE d = c
    BY <1>1, <2>1, CallLosses DEF LossInv
  <2>2. CASE d # c
    <3>1. Losses(d)
      BY DEF LossInv
    <3>2. /\ pc'[d] = pc[d] /\ rung'[d] = rung[d] /\ model'[d] = model[d]
          /\ lost'[d] = lost[d] /\ result'[d] = result[d] /\ stripped'[d] = stripped[d]
          /\ carries'[d] = carries[d] /\ setup' = setup
      BY <1>1, <2>2, OthersKeep
    <3> QED
      BY <3>1, <3>2 DEF Losses, Wears, Disclosed, Escalation
  <2> QED
    BY <2>1, <2>2
<1>2. CASE UNCHANGED adapterVars
  BY <1>2 DEF LossInv, Losses, Wears, Disclosed, Escalation, adapterVars
<1> QED
  BY <1>1, <1>2 DEF AdapterNext, AllDone

\* What a review is told a call lost is what that call lost, whichever models
\* were asked and whatever other calls taught the adapter (_degradation).
THEOREM LossesAreDisclosed == AdapterSpec => []LossDisclosed
<1>1. AdapterInit => LossInv
  BY DEF AdapterInit, LossInv, Losses, InTurn
<1>2. AdapterTypeOK /\ LossInv => LossDisclosed
  BY DEF LossInv, Losses, LossDisclosed, Disclosed
<1> QED
  BY AdapterTypeCorrect, NextLosses, <1>1, <1>2, PTL DEF AdapterSpec

-------------------------------------------------------------------------------
(* What calls made one at a time learn *)

\* A model is stepped down for what it failed under, and for no more.
Settled(m) ==
  /\ mode[m] \in {"schema", "expressible"} => evidence[m] = {}
  /\ mode[m] = "tool" => "tool" \notin evidence[m]
  /\ mode[m] = "none" => "tool" \in evidence[m]

\* The call's kwargs and the adapter say the same of the primary, whenever no
\* call runs beside this one.
Agrees(c) ==
  /\ pc[c] \in InTurn \cup {"returned", "unparseable"} /\ rung[c] = "first" =>
       /\ carries[c] = "tool" => mode["primary"] = "tool"
       /\ carries[c] = "bare" => mode["primary"] = "none"
       /\ carries[c] = "schema" /\ pc[c] = "applying" => mode["primary"] # "schema"
       /\ carries[c] = "schema" /\ pc[c] \in {"sending", "returned", "unparseable"} =>
            mode["primary"] = "expressible"
  /\ pc[c] \in {"honouring", "marking", "applying"} => seen[c].mode = mode["primary"]
  /\ pc[c] \in InTurn \cup {"returned", "demoting"} /\ rung[c] = "reask" =>
       /\ carries[c] = "bare"
       /\ blamed[c].model = "primary"
       /\ \/ blamed[c].by = "schema" /\ mode["primary"] = "expressible"
          \/ blamed[c].by = "tool" /\ mode["primary"] = "tool"
  /\ pc[c] = "demoting" => rung[c] = "reask"
  /\ pc[c] = "unparseable" => rung[c] = "first"

AloneInv ==
  Serial =>
    /\ \A c \in Completions : model[c] = "primary" /\ ~Escalation(c)
    /\ \A c, d \in InFlight : c = d
    /\ \A m \in Models : Settled(m)
    /\ \A c \in Completions : Agrees(c)

\* A request goes out over what the model has not failed under.
Unspoilt(c) ==
  pc[c] = "applying" /\ pc'[c] = "sending" => carries'[c] \notin evidence["primary"]

LEMMA AloneFailure ==
  ASSUME AdapterTypeOK, Serial, NEW c \in Completions, pc[c] \in InTurn,
         model[c] = "primary", Agrees(c), Settled("primary"),
         NEW oversized \in BOOLEAN, Retry(c) \/ Raise(c, oversized),
         UNCHANGED <<setup, knowledge, rung, blamed, history>>
  PROVE  Agrees(c)' /\ Settled("primary")' /\ Unspoilt(c) /\ model'[c] = "primary"
<1> USE DEF knowledge, history
<1>1. CASE Retry(c)
  <2>1. /\ pc'[c] = "honouring" /\ model' = model /\ carries' = carries
        /\ seen'[c].mode = mode["primary"]
    BY <1>1 DEF AdapterTypeOK, Retry, kwargs, Fresh
  <2> QED
    BY <2>1 DEF Agrees, Settled, InTurn, Unspoilt
<1>2. CASE FinishTurn(c, "error")
  <2>1. pc'[c] = "done" /\ model' = model
    BY <1>2 DEF AdapterTypeOK, FinishTurn
  <2> QED
    BY <2>1 DEF Agrees, Settled, InTurn, Unspoilt
<1> QED
  BY <1>1, <1>2 DEF Raise, Serial

LEMMA AloneSends ==
  ASSUME AdapterTypeOK, NEW c \in Completions, pc[c] = "sending", pc'[c] = "sending",
         model[c] = "primary", model' = model, rung' = rung, blamed' = blamed,
         Agrees(c), Settled("primary"),
         \/ /\ carries'[c] = carries[c] /\ mode' = mode
            /\ evidence'["primary"] = evidence["primary"]
         \/ /\ carries[c] = "schema" /\ carries'[c] = "tool" /\ mode'["primary"] = "tool"
            /\ evidence'["primary"] = evidence["primary"] \cup {"schema"}
         \/ /\ carries[c] # "bare" /\ carries'[c] = "bare" /\ mode'["primary"] = "none"
            /\ "tool" \in evidence'["primary"]
  PROVE  Agrees(c)' /\ Settled("primary")'
<1>1. rung[c] \in {"first", "reask"}
  BY DEF AdapterTypeOK
<1> QED
  BY <1>1 DEF Agrees, Settled, InTurn

\* What a call alone does keeps its kwargs, the adapter and the evidence in step.
LEMMA AloneStep ==
  ASSUME AdapterTypeOK, Serial, NEW c \in Completions, Call(c), Losses(c),
         model[c] = "primary", ~Escalation(c), Agrees(c), Settled("primary")
  PROVE  /\ Agrees(c)' /\ Settled("primary")' /\ Unspoilt(c)
         /\ model'[c] = "primary"
         /\ mode'["fallback"] = mode["fallback"]
         /\ evidence'["fallback"] = evidence["fallback"]
<1> USE DEF knowledge, kwargs, progress, ends, history
<1> DEFINE Goal == /\ Agrees(c)' /\ Settled("primary")' /\ Unspoilt(c)
                   /\ model'[c] = "primary"
                   /\ mode'["fallback"] = mode["fallback"]
                   /\ evidence'["fallback"] = evidence["fallback"]
<1>1. CASE Complete(c)
  <2>1. Turn(c, "primary", TRUE)
    BY <1>1 DEF Complete
  <2>2. /\ pc[c] = "waiting" /\ pc'[c] = "honouring" /\ carries'[c] = "schema"
        /\ seen'[c].mode = mode["primary"] /\ model'[c] = "primary"
    BY <1>1, <2>1 DEF AdapterTypeOK, Turn, Complete
  <2>3. /\ rung[c] = "first" /\ rung' = rung /\ mode' = mode /\ evidence' = evidence
    BY <1>1 DEF Complete, Losses
  <2> QED
    BY <2>2, <2>3 DEF Agrees, Settled, InTurn, Unspoilt
<1>2. CASE Honour(c)
  <2>1. /\ pc[c] = "honouring" /\ pc'[c] = "marking" /\ model' = model /\ rung' = rung
        /\ blamed' = blamed /\ seen'[c].mode = mode'["primary"]
    BY <1>2 DEF AdapterTypeOK, Honour
  <2>2. \/ /\ carries'[c] = carries[c] /\ mode' = mode /\ evidence' = evidence
        \/ /\ carries[c] = "schema" /\ seen[c].mode # "none" /\ carries'[c] = "tool"
           /\ mode' = [mode EXCEPT !["primary"] = "tool"]
           /\ evidence' = [evidence EXCEPT !["primary"] = @ \cup {"schema"}]
        \/ /\ carries[c] = "schema" /\ carries'[c] = "bare"
           /\ mode' = [mode EXCEPT !["primary"] = "none"]
           /\ evidence' = [evidence EXCEPT !["primary"] = @ \cup {"schema", "tool"}]
    BY <1>2 DEF AdapterTypeOK, Honour, UseTool, GiveUp, Fails
  <2>3. /\ rung[c] \in {"first", "reask"} /\ mode["primary"] \in Modes
        /\ seen[c].mode = mode["primary"]
    BY <2>1 DEF AdapterTypeOK, Models, Agrees
  <2>4. /\ mode'["fallback"] = mode["fallback"]
        /\ evidence'["fallback"] = evidence["fallback"]
    BY <2>2 DEF AdapterTypeOK, Models
  <2>5. \/ /\ carries'[c] = carries[c] /\ mode'["primary"] = mode["primary"]
           /\ evidence'["primary"] = evidence["primary"]
        \/ /\ carries[c] = "schema" /\ mode["primary"] # "none" /\ carries'[c] = "tool"
           /\ mode'["primary"] = "tool"
           /\ evidence'["primary"] = evidence["primary"] \cup {"schema"}
        \/ /\ carries[c] = "schema" /\ carries'[c] = "bare" /\ mode'["primary"] = "none"
           /\ "tool" \in evidence'["primary"]
    BY <2>2, <2>3 DEF AdapterTypeOK, Models
  <2>6. Settled("primary")'
    BY <2>3, <2>5 DEF Settled, Modes
  <2>7. Agrees(c)'
    BY <2>1, <2>3, <2>5 DEF Agrees, InTurn
  <2> QED
    BY <2>1, <2>4, <2>6, <2>7 DEF Unspoilt
<1>3. CASE Mark(c)
  <2>1. /\ pc[c] = "marking" /\ pc'[c] = "applying" /\ model' = model /\ rung' = rung
        /\ blamed' = blamed /\ seen'[c].mode = mode'["primary"] /\ carries' = carries
        /\ evidence' = evidence
    BY <1>3 DEF AdapterTypeOK, Mark
  <2>2. seen[c].mode = mode["primary"]
    BY <2>1 DEF Agrees
  <2>3. /\ mode'["primary"] = IF mode["primary"] = "schema" /\ carries[c] = "schema"
                              THEN "expressible" ELSE mode["primary"]
        /\ mode'["fallback"] = mode["fallback"]
    BY <1>3, <2>2 DEF AdapterTypeOK, Mark, Models
  <2>4. Agrees(c)'
    BY <2>1, <2>2, <2>3 DEF Agrees, InTurn
  <2>5. Settled("primary")'
    BY <2>1, <2>3 DEF Settled
  <2> QED
    BY <2>1, <2>3, <2>4, <2>5 DEF Unspoilt
<1>4. CASE Apply(c)
  <2>1. /\ pc[c] = "applying" /\ pc'[c] = "sending" /\ model' = model /\ rung' = rung
        /\ blamed' = blamed /\ evidence' = evidence
    BY <1>4 DEF AdapterTypeOK, Apply, Send
  <2>2. seen[c].mode = mode["primary"] /\ mode["primary"] \in Modes
    BY <2>1 DEF Agrees, AdapterTypeOK, Models
  <2>3. /\ carries'[c] = IF mode["primary"] = "none" THEN "bare"
                         ELSE IF mode["primary"] = "tool" /\ carries[c] = "schema"
                         THEN "tool" ELSE carries[c]
        /\ mode'["primary"] = mode["primary"] /\ mode'["fallback"] = mode["fallback"]
    BY <1>4, <2>2 DEF AdapterTypeOK, Apply, UseTool, Models
  <2>4. rung[c] \in {"first", "reask"} /\ carries[c] \in Mechanisms
    BY DEF AdapterTypeOK
  <2>5. Agrees(c)'
    BY <2>1, <2>2, <2>3, <2>4 DEF Agrees, InTurn, Mechanisms, Modes
  <2>6. Settled("primary")'
    BY <2>1, <2>3 DEF Settled
  <2>7. evidence["primary"] \subseteq {"schema", "tool"}
    BY DEF AdapterTypeOK, Models
  <2>8. carries'[c] \notin evidence["primary"]
    BY <2>1, <2>2, <2>3, <2>4, <2>7 DEF Agrees, Settled, InTurn, Mechanisms, Modes
  <2> QED
    BY <2>1, <2>3, <2>5, <2>6, <2>8 DEF Unspoilt
<1>5. CASE IterationFails(c) \/ Transient(c) \/ Permanent(c)
  <2>1. /\ pc[c] \in InTurn
        /\ UNCHANGED <<setup, knowledge, rung, blamed, history>>
        /\ \E oversized \in BOOLEAN : Retry(c) \/ Raise(c, oversized)
    BY <1>5 DEF IterationFails, Transient, Permanent, InTurn
  <2> QED
    BY <2>1, AloneFailure
<1>6. CASE \E p \in Params : RejectsParam(c, p)
  <2>1. /\ pc[c] = "sending" /\ pc'[c] = "sending" /\ model' = model /\ rung' = rung
        /\ blamed' = blamed /\ carries' = carries /\ mode' = mode /\ evidence' = evidence
    BY <1>6 DEF AdapterTypeOK, RejectsParam, Resend, Send
  <2> QED
    BY <2>1, AloneSends DEF Unspoilt
<1>7. CASE RejectsSchema(c) \/ RejectsInternalTool(c) \/ RejectsTool(c) \/ Empty(c)
  <2>1. /\ pc[c] = "sending" /\ pc'[c] = "sending" /\ model' = model /\ rung' = rung
        /\ blamed' = blamed
    BY <1>7 DEF AdapterTypeOK, RejectsSchema, RejectsInternalTool, RejectsTool, Empty, Resend, Send
  <2>2. \/ /\ carries'[c] = carries[c] /\ mode' = mode /\ evidence' = evidence
        \/ /\ carries[c] = "schema" /\ carries'[c] = "tool"
           /\ mode' = [mode EXCEPT !["primary"] = "tool"]
           /\ evidence' = [evidence EXCEPT !["primary"] = @ \cup {"schema"}]
        \/ /\ carries[c] # "bare" /\ carries'[c] = "bare"
           /\ mode' = [mode EXCEPT !["primary"] = "none"]
           /\ \/ evidence' = [evidence EXCEPT !["primary"] = @ \cup {"tool"}]
              \/ evidence' = [evidence EXCEPT !["primary"] = @ \cup {"schema", "tool"}]
    <3>1. CASE RejectsSchema(c) \/ RejectsInternalTool(c) \/ RejectsTool(c)
      BY <3>1 DEF AdapterTypeOK, RejectsSchema, RejectsInternalTool, RejectsTool, UseTool, GiveUp,
                  Fails
    <3>2. CASE Empty(c) /\ carries[c] = "bare"
      <4>1. {carries[c]} \cap {"schema", "tool"} = {}
        BY <3>2
      <4> QED
        BY <3>2, <4>1 DEF AdapterTypeOK, Empty, StepDownAfterEmpty, Fails, Models
    <3>3. CASE Empty(c) /\ carries[c] # "bare"
      <4>1. carries[c] \in {"schema", "tool"}
        BY <3>3 DEF AdapterTypeOK, Mechanisms
      <4>2. {carries[c]} \cap {"schema", "tool"} = {carries[c]}
        BY <4>1
      <4> QED
        BY <3>3, <4>1, <4>2 DEF AdapterTypeOK, Empty, StepDownAfterEmpty, UseTool, GiveUp, Fails
    <3> QED
      BY <1>7, <3>1, <3>2, <3>3
  <2>3. /\ mode'["fallback"] = mode["fallback"]
        /\ evidence'["fallback"] = evidence["fallback"]
    BY <2>2 DEF AdapterTypeOK, Models
  <2>4. \/ /\ carries'[c] = carries[c] /\ mode' = mode
           /\ evidence'["primary"] = evidence["primary"]
        \/ /\ carries[c] = "schema" /\ carries'[c] = "tool" /\ mode'["primary"] = "tool"
           /\ evidence'["primary"] = evidence["primary"] \cup {"schema"}
        \/ /\ carries[c] # "bare" /\ carries'[c] = "bare" /\ mode'["primary"] = "none"
           /\ "tool" \in evidence'["primary"]
    BY <2>2 DEF AdapterTypeOK, Models
  <2>5. Agrees(c)' /\ Settled("primary")'
    BY <2>1, <2>4, AloneSends
  <2> QED
    BY <2>1, <2>3, <2>5 DEF Unspoilt
<1>8. CASE Text(c)
  <2>1. /\ pc[c] = "sending" /\ pc'[c] = "returned" /\ model' = model /\ rung' = rung
        /\ blamed' = blamed /\ carries' = carries /\ mode' = mode /\ evidence' = evidence
    BY <1>8 DEF AdapterTypeOK, Text, FinishTurn
  <2> QED
    BY <2>1 DEF Agrees, Settled, InTurn, Unspoilt
<1>9. CASE Parses(c) \/ DoesNotParse(c) \/ ReportsUnparseable(c)
  <2>1. /\ model' = model /\ rung' = rung /\ blamed' = blamed /\ carries' = carries
        /\ mode' = mode /\ evidence' = evidence
        /\ \/ pc'[c] = "done"
           \/ pc[c] = "returned" /\ pc'[c] = "demoting" /\ rung[c] = "reask"
           \/ pc[c] = "returned" /\ pc'[c] = "unparseable" /\ rung[c] = "first"
    BY <1>9 DEF AdapterTypeOK, Parses, DoesNotParse, ReportsUnparseable
  <2> QED
    BY <2>1 DEF Agrees, Settled, InTurn, Unspoilt
<1>10. CASE Reask(c)
  <2>1. /\ pc[c] = "unparseable" /\ pc'[c] = "honouring" /\ rung'[c] = "reask"
        /\ carries'[c] = "bare" /\ model'[c] = "primary" /\ mode["primary"] # "none"
        /\ seen'[c].mode = mode["primary"] /\ mode' = mode /\ evidence' = evidence
        /\ blamed'[c].model = "primary" /\ blamed'[c].by = carries[c]
    BY <1>10 DEF AdapterTypeOK, Reask, Turn, SendsResponseFormat
  <2>2. rung[c] = "first" /\ carries[c] \in Mechanisms
    BY <2>1 DEF Agrees, AdapterTypeOK
  <2> QED
    BY <2>1, <2>2 DEF Agrees, Settled, InTurn, Unspoilt, Mechanisms
<1>11. CASE Demote(c)
  <2>1. /\ pc[c] = "demoting" /\ pc'[c] = "done" /\ model' = model
        /\ mode' = [mode EXCEPT !["primary"] = StepDown(@)]
        /\ evidence' = [evidence EXCEPT ![blamed[c].model] =
                          @ \cup ({blamed[c].by} \cap {"schema", "tool"})]
    BY <1>11 DEF AdapterTypeOK, Demote, Fails
  <2>2. /\ blamed[c].model = "primary"
        /\ \/ blamed[c].by = "schema" /\ mode["primary"] = "expressible"
           \/ blamed[c].by = "tool" /\ mode["primary"] = "tool"
    BY <2>1 DEF Agrees, InTurn
  <2>3. /\ mode'["fallback"] = mode["fallback"]
        /\ evidence'["fallback"] = evidence["fallback"]
        /\ \/ /\ mode["primary"] = "expressible" /\ mode'["primary"] = "tool"
              /\ evidence'["primary"] = evidence["primary"] \cup {"schema"}
           \/ mode'["primary"] = "none" /\ "tool" \in evidence'["primary"]
    BY <2>1, <2>2 DEF AdapterTypeOK, Models, StepDown
  <2>4. Settled("primary")'
    BY <2>3 DEF Settled
  <2> QED
    BY <2>1, <2>3, <2>4 DEF Agrees, InTurn, Unspoilt
<1> QED
  BY <1>1, <1>2, <1>3, <1>4, <1>5, <1>6, <1>7, <1>8, <1>9, <1>10, <1>11 DEF Call

\* Made one at a time, a call that takes a step is the only one that could.
LEMMA AloneInFlight ==
  ASSUME AdapterTypeOK, Serial, NEW c \in Completions, Call(c), \A a, b \in InFlight : a = b
  PROVE  \A d \in Completions \ {c} : pc[d] \in {"waiting", "done"} /\ d \notin InFlight'
<1>1. \A d \in Completions \ {c} : pc'[d] = pc[d]
  BY OthersKeep
<1>2. CASE pc[c] = "waiting"
  <2>1. Complete(c)
    BY <1>2 DEF Call, Honour, Mark, Apply, IterationFails, Transient, Permanent, RejectsParam,
                RejectsSchema, RejectsInternalTool, RejectsTool, Empty, Text, Parses,
                DoesNotParse, Reask, ReportsUnparseable, Demote
  <2>2. Cardinality(InFlight) < 1
    BY <2>1 DEF Complete, Serial
  <2>3. IsFiniteSet(InFlight)
    BY BoundAssumption, FS_Subset DEF BoundAssumption, InFlight
  <2>4. InFlight = {}
    BY <2>2, <2>3, FS_CardinalityType, FS_EmptySet
  <2> QED
    BY <1>1, <2>4 DEF InFlight
<1>3. CASE pc[c] # "waiting"
  <2>1. pc[c] # "done"
    BY <1>3 DEF Call, Complete, Honour, Mark, Apply, IterationFails, Transient, Permanent,
                RejectsParam, RejectsSchema, RejectsInternalTool, RejectsTool, Empty, Text,
                Parses, DoesNotParse, Reask, ReportsUnparseable, Demote
  <2>2. c \in InFlight
    BY <1>3, <2>1 DEF InFlight
  <2> QED
    BY <1>1, <2>2 DEF InFlight
<1> QED
  BY <1>2, <1>3

LEMMA CallAlone ==
  ASSUME AdapterTypeOK, LossInv, AloneInv, Serial, NEW c \in Completions, Call(c)
  PROVE  AloneInv' /\ Unspoilt(c)
<1>1. /\ Losses(c) /\ model[c] = "primary" /\ ~Escalation(c) /\ Agrees(c)
      /\ Settled("primary") /\ Settled("fallback")
      /\ \A a, b \in InFlight : a = b
  BY DEF LossInv, AloneInv, Models
<1>2. /\ Agrees(c)' /\ Settled("primary")' /\ Unspoilt(c) /\ model'[c] = "primary"
      /\ mode'["fallback"] = mode["fallback"] /\ evidence'["fallback"] = evidence["fallback"]
  BY <1>1, AloneStep
<1>3. \A d \in Completions \ {c} : pc[d] \in {"waiting", "done"} /\ d \notin InFlight'
  BY <1>1, AloneInFlight
<1>4. \A d \in Completions \ {c} : pc'[d] = pc[d] /\ model'[d] = model[d]
  BY OthersKeep
<1>5. \A d \in Completions : ~Escalation(d)'
  <2>1. setup' = setup
    BY DEF Call, Complete, Honour, Mark, Apply, IterationFails, Transient, Permanent,
           RejectsParam, RejectsSchema, RejectsInternalTool, RejectsTool, Empty, Text,
           Parses, DoesNotParse, Reask, ReportsUnparseable, Demote, Resend
  <2> QED
    BY <2>1 DEF AloneInv, Escalation
<1>6. \A d \in Completions : model'[d] = "primary"
  BY <1>2, <1>4 DEF AloneInv
<1>7. \A a, b \in InFlight' : a = b
  BY <1>3 DEF InFlight
<1>8. \A m \in Models : Settled(m)'
  BY <1>1, <1>2 DEF Models, Settled
<1>9. \A d \in Completions : Agrees(d)'
  <2>1. ASSUME NEW d \in Completions, d # c PROVE Agrees(d)'
    <3>1. pc'[d] \in {"waiting", "done"}
      BY <1>3, <1>4, <2>1
    <3> QED
      BY <3>1 DEF Agrees, InTurn
  <2> QED
    BY <1>2, <2>1
<1> QED
  BY <1>2, <1>5, <1>6, <1>7, <1>8, <1>9 DEF AloneInv

LEMMA NextAlone == AdapterTypeOK /\ LossInv /\ AloneInv /\ [AdapterNext]_adapterVars => AloneInv'
<1> SUFFICES ASSUME AdapterTypeOK, LossInv, AloneInv, [AdapterNext]_adapterVars PROVE AloneInv'
  OBVIOUS
<1>1. setup' = setup
  BY DEF AdapterNext, AllDone, adapterVars, Call, Complete, Honour, Mark, Apply, IterationFails, Transient,
         Permanent, RejectsParam, RejectsSchema, RejectsInternalTool, RejectsTool, Empty,
         Text, Parses, DoesNotParse, Reask, ReportsUnparseable, Demote, Resend
<1>2. CASE ~Serial
  BY <1>1, <1>2 DEF AloneInv, Serial
<1>3. CASE Serial /\ \E c \in Completions : Call(c)
  BY <1>3, CallAlone
<1>4. CASE UNCHANGED adapterVars
  BY <1>4 DEF AloneInv, Serial, InFlight, Escalation, Settled, Agrees, adapterVars
<1> QED
  BY <1>2, <1>3, <1>4 DEF AdapterNext, AllDone

LEMMA InitAlone == AdapterInit => AloneInv
<1> SUFFICES ASSUME AdapterInit, Serial PROVE AloneInv
  BY DEF AloneInv
<1>1. \A c \in Completions : ~Escalation(c)
  BY SetupAssumption DEF AdapterInit, Serial, SetupAssumption, Escalation
<1> QED
  BY <1>1 DEF AdapterInit, AloneInv, InFlight, Settled, Agrees, InTurn

LEMMA LearntInv == AdapterSpec => [](AdapterTypeOK /\ LossInv /\ AloneInv)
<1>1. AdapterInit => LossInv
  BY DEF AdapterInit, LossInv, Losses, InTurn
<1> QED
  BY AdapterTypeCorrect, NextLosses, NextAlone, InitAlone, <1>1, PTL DEF AdapterSpec

\* What a call loses it says, and loses to a failure of its own mechanism: made
\* one at a time, no model is taken off enforcement that has not failed under
\* the tool call (_degradation; drop_response_format, _demote_schema).
THEOREM LossesAreJust == AdapterSpec => []LossIsJust
<1>1. AloneInv => SerialFloorHasEvidence
  BY DEF AloneInv, SerialFloorHasEvidence, FloorHasEvidence, Settled
<1> QED
  BY LossesAreDisclosed, LearntInv, <1>1, PTL DEF LossIsJust

\* Calls made one at a time never pay twice for what the first one learnt: a
\* request goes out over no mechanism the model has failed under, and a reply
\* that came without the schema is not asked for again without it
\* (_drop_rejected_param, sends_response_format).
THEOREM TurnsDoLearn == AdapterSpec => TurnsLearn
<1>1. AdapterTypeOK /\ LossInv /\ AloneInv /\ [AdapterNext]_adapterVars =>
        [\A c \in Completions :
           Serial /\ pc[c] = "applying" /\ pc'[c] = "sending" =>
             carries'[c] \notin evidence[model[c]]]_adapterVars
  <2> SUFFICES ASSUME AdapterTypeOK, LossInv, AloneInv, AdapterNext, Serial, NEW c \in Completions,
                      pc[c] = "applying", pc'[c] = "sending"
               PROVE  carries'[c] \notin evidence[model[c]]
    OBVIOUS
  <2>1. PICK d \in Completions : Call(d)
    BY DEF AdapterNext, AllDone, adapterVars
  <2>2. d = c
    BY <2>1, OthersKeep
  <2>3. Unspoilt(c) /\ model[c] = "primary"
    BY <2>1, <2>2, CallAlone DEF AloneInv
  <2> QED
    BY <2>3 DEF Unspoilt
<1>2. AdapterTypeOK /\ LossInv /\ AloneInv /\ [AdapterNext]_adapterVars =>
        [\A c \in Completions : Serial /\ pc[c] = "unparseable" /\ rung'[c] = "reask" =>
           carries[c] # "bare"]_adapterVars
  <2> SUFFICES ASSUME AdapterTypeOK, LossInv, AloneInv, AdapterNext, Serial, NEW c \in Completions,
                      pc[c] = "unparseable", rung'[c] = "reask"
               PROVE  carries[c] # "bare"
    OBVIOUS
  <2>1. rung[c] = "first" /\ (carries[c] = "bare" => mode["primary"] = "none")
    BY DEF AloneInv, Agrees
  <2>2. rung'[c] # rung[c]
    BY <2>1
  <2>3. PICK d \in Completions : Call(d)
    BY <2>2 DEF AdapterNext, AllDone, adapterVars
  <2>4. d = c
    BY <2>2, <2>3, OthersKeep
  <2>5. Reask(c)
    BY <2>2, <2>3, <2>4
       DEF Call, Complete, Honour, Mark, Apply, IterationFails, Transient, Permanent,
           RejectsParam, RejectsSchema, RejectsInternalTool, RejectsTool, Empty, Text,
           Parses, DoesNotParse, ReportsUnparseable, Demote, Resend, ends
  <2> QED
    BY <2>1, <2>5 DEF Reask, SendsResponseFormat
<1> QED
  BY LearntInv, <1>1, <1>2, PTL DEF AdapterSpec, TurnsLearn, SettledUpFront, ReaskIsAnother
=============================================================================
