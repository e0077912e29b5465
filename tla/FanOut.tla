-------------------------------- MODULE FanOut --------------------------------
(***************************************************************************)
(* The fan-out of one review (engine/engine.py: _arm_calls, _fan_out,      *)
(* review; engine/run.py: _skip_reason, _MeteredProvider; and the rescue   *)
(* wave, engine/recovery.py: _rescue).                                     *)
(*                                                                         *)
(* One call per (batch, lens) goes through one thread pool.  A batch whose *)
(* prompt cache is warmed submits its first lens alone, the primer; the    *)
(* rest of the batch is deferred until the main thread collects the        *)
(* primer.  Each worker asks the ceilings (interruption, deadline, token   *)
(* budget) before every provider call it makes.  When the pool has         *)
(* drained, the calls that failed on the provider are run once more in a   *)
(* narrow pool of their own, and the verdict is taken.                     *)
(*                                                                         *)
(* What one call does between its provider calls is the Ladder module's    *)
(* subject; here it makes up to MaxRequests of them, Burst at a time.      *)
(***************************************************************************)
EXTENDS Naturals, FiniteSets

CONSTANTS
  Batches,        \* how many batches the diff was cut into
  Lenses,         \* how many lenses run over each batch
  WarmBatches,    \* the batches large enough to warm the prompt cache
  Workers,        \* the threads of the fan-out pool
  RescueWorkers,  \* the threads of the rescue pool, _RESCUE_WORKERS of them
  Burst,          \* provider calls one task may have open (a split's pieces)
  Budget,         \* max_review_tokens less the reflection reserve
  MaxTokens,      \* the most one provider call may be billed
  MaxRequests,    \* bound: provider calls one task makes
  Findings,       \* what the lenses may find
  TaskOutcomes,   \* the outcomes a task may return
  HasDeadline,    \* whether max_review_seconds is set
  HasScanFindings \* whether the static-analysis tools found anything

\* The reasons a call reports: None, a _RetryableReason, a reason asking again
\* cannot help, or a skip.
Errors == {"answered", "retryable", "plain", "skipped"}
Outcomes == [error : Errors, findings : SUBSET Findings]

NoOutcome == [error |-> "none", findings |-> {}]
Skipped == [error |-> "skipped", findings |-> {}]

ASSUME WidthAssumption ==
  /\ Batches \in Nat
  /\ Lenses \in Nat \ {0}
  /\ IsFiniteSet(Workers) /\ Workers # {}
  /\ IsFiniteSet(RescueWorkers) /\ RescueWorkers # {}
  /\ Workers \cap RescueWorkers = {}
  /\ Burst \in Nat \ {0}
  /\ MaxRequests \in Nat \ {0}

\* _arm_calls warms a batch only when the pool is wide enough for there to be
\* a first wave and the batch has followers to warm for.
ASSUME WarmAssumption ==
  /\ WarmBatches \subseteq 1..Batches
  /\ WarmBatches # {} => Cardinality(Workers) > 1 /\ Lenses > 1

ASSUME TokenAssumption ==
  /\ Budget \in Nat \ {0}
  /\ MaxTokens \in Nat

ASSUME OutcomeAssumption == TaskOutcomes \subseteq Outcomes

ASSUME FlagAssumption ==
  /\ HasDeadline \in BOOLEAN
  /\ HasScanFindings \in BOOLEAN

Calls == (1..Batches) \X (1..Lenses)

\* The task-index order of the flattened call list.
Before(c, d) == c[1] < d[1] \/ (c[1] = d[1] /\ c[2] < d[2])

\* The followers of a warmed batch wait for its primer, its first lens.
Follower(c) == c[1] \in WarmBatches /\ c[2] # 1
Primer(c) == <<c[1], 1>>

Threads == Workers \cup RescueWorkers

Idle == <<0, 0>>

VARIABLES
  phase,        \* fanout, rescue, drained, then posted or raised
  status,       \* where each call is on its way through the open pool
  wave,         \* which submission put a call in the pool's queue
  submissions,  \* how many submissions the pool has had
  task,         \* the call each thread runs
  open,         \* the provider calls in flight, as <<thread, slot>>
  requested,    \* how many provider calls each thread's task has made
  spent,        \* _RunState._tokens
  interrupted,  \* the process-wide interrupt Event
  overdue,      \* the deadline has passed
  results,      \* the fan-out's outcomes
  rescued,      \* the rescue wave's outcomes
  merged        \* what _rescue returns

vars == <<phase, status, wave, submissions, task, open, requested, spent,
          interrupted, overdue, results, rescued, merged>>

queue == <<wave, submissions>>
ceilings == <<spent, interrupted, overdue>>
outcomes == <<results, rescued, merged>>

-------------------------------------------------------------------------------
(* Types *)

Statuses == {"deferred", "queued", "running", "finished", "collected"}

TypeOK ==
  /\ phase \in {"fanout", "rescue", "drained", "posted", "raised"}
  /\ status \in [Calls -> Statuses]
  /\ wave \in [Calls -> Nat]
  /\ submissions \in Nat
  /\ task \in [Threads -> Calls \cup {Idle}]
  /\ open \subseteq Threads \X (1..Burst)
  /\ requested \in [Threads -> 0..MaxRequests]
  /\ spent \in Nat
  /\ interrupted \in BOOLEAN
  /\ overdue \in BOOLEAN
  /\ results \in [Calls -> Outcomes \cup {NoOutcome}]
  /\ rescued \in [Calls -> Outcomes \cup {NoOutcome}]
  /\ merged \in [Calls -> Outcomes \cup {NoOutcome}]

-------------------------------------------------------------------------------
(* The first submission *)

Init ==
  /\ phase = "fanout"
  /\ status = [c \in Calls |-> IF Follower(c) THEN "deferred" ELSE "queued"]
  /\ wave = [c \in Calls |-> 0]
  /\ submissions = 1
  /\ task = [t \in Threads |-> Idle]
  /\ open = {}
  /\ requested = [t \in Threads |-> 0]
  /\ spent = 0
  /\ interrupted = FALSE
  /\ overdue = FALSE
  /\ results = [c \in Calls |-> NoOutcome]
  /\ rescued = [c \in Calls |-> NoOutcome]
  /\ merged = [c \in Calls |-> NoOutcome]

-------------------------------------------------------------------------------
(* The ceilings *)

\* _skip_reason: asked when a call is about to be made, not when it is queued.
MustSkip == interrupted \/ overdue \/ spent >= Budget

\* SIGTERM or SIGINT.
Interrupt ==
  /\ ~interrupted
  /\ interrupted' = TRUE
  /\ UNCHANGED <<phase, status, queue, task, open, requested, spent, overdue,
                 outcomes>>

\* The clock passes lens_deadline_at.
DeadlinePasses ==
  /\ HasDeadline
  /\ ~overdue
  /\ overdue' = TRUE
  /\ UNCHANGED <<phase, status, queue, task, open, requested, spent, interrupted,
                 outcomes>>

-------------------------------------------------------------------------------
(* The worker threads of whichever pool is open *)

\* Mutant: the rescue wave retries whatever did not answer.
RetryingAnyFailure == {c \in Calls : results[c].error # "answered"}

\* The calls whose outcome is a _RetryableReason.
Retrying == {c \in Calls : results[c].error = "retryable"}

\* Mutant: the rescue wave is submitted to the pool the fan-out has closed.
PoolThreadsOfClosedPool == IF phase = "fanout" THEN Workers ELSE {}

\* ThreadPoolExecutor(max_workers=...) of the fan-out, then of the rescue wave.
PoolThreads ==
  CASE phase = "fanout" -> Workers
    [] phase = "rescue" -> RescueWorkers
    [] OTHER -> {}

\* The queue is first in, first out, and a wave is submitted in task order.
Earlier(c, d) == wave[c] < wave[d] \/ (wave[c] = wave[d] /\ Before(c, d))

Next1(c) ==
  /\ status[c] = "queued"
  /\ \A d \in Calls : status[d] = "queued" => d = c \/ Earlier(c, d)

\* The outcome of the task a call runs, in the list of the pool it runs in.
Report(c, outcome) ==
  /\ status' = [status EXCEPT ![c] = "finished"]
  /\ IF phase = "fanout"
     THEN results' = [results EXCEPT ![c] = outcome] /\ UNCHANGED rescued
     ELSE rescued' = [rescued EXCEPT ![c] = outcome] /\ UNCHANGED results
  /\ UNCHANGED merged

\* A thread takes the next call and, the ceilings permitting, makes its first
\* provider call.
Start(t, c) ==
  /\ t \in PoolThreads
  /\ task[t] = Idle
  /\ Next1(c)
  /\ ~MustSkip
  /\ task' = [task EXCEPT ![t] = c]
  /\ status' = [status EXCEPT ![c] = "running"]
  /\ open' = open \cup {<<t, 1>>}
  /\ requested' = [requested EXCEPT ![t] = 1]
  /\ UNCHANGED <<phase, queue, ceilings, outcomes>>

\* A thread takes the next call past a ceiling: it returns at once.
SkipCall(t, c) ==
  /\ t \in PoolThreads
  /\ task[t] = Idle
  /\ Next1(c)
  /\ MustSkip
  /\ Report(c, Skipped)
  /\ UNCHANGED <<phase, queue, task, open, requested, ceilings>>

\* Mutant: a rung makes its provider call without asking the ceilings.
RequestUnasked(t, s) ==
  /\ task[t] # Idle
  /\ <<t, s>> \notin open
  /\ requested[t] < MaxRequests
  /\ open' = open \cup {<<t, s>>}
  /\ requested' = [requested EXCEPT ![t] = @ + 1]
  /\ UNCHANGED <<phase, status, queue, task, ceilings, outcomes>>

\* A rung of the ladder makes one more provider call; each asks first.
Request(t, s) ==
  /\ task[t] # Idle
  /\ <<t, s>> \notin open
  /\ requested[t] < MaxRequests
  /\ ~MustSkip
  /\ open' = open \cup {<<t, s>>}
  /\ requested' = [requested EXCEPT ![t] = @ + 1]
  /\ UNCHANGED <<phase, status, queue, task, ceilings, outcomes>>

\* A provider call comes back, and its tokens are charged whether it answered
\* or raised.
Answer(t, s, tokens) ==
  /\ <<t, s>> \in open
  /\ open' = open \ {<<t, s>>}
  /\ spent' = spent + tokens
  /\ UNCHANGED <<phase, status, queue, task, requested, interrupted, overdue,
                 outcomes>>

\* The task returns its (findings, error).  A skip reason comes from a ceiling:
\* none of them is ever lifted again.
Finish(t, outcome) ==
  /\ task[t] # Idle
  /\ \A s \in 1..Burst : <<t, s>> \notin open
  /\ outcome.error = "skipped" => MustSkip
  /\ Report(task[t], outcome)
  /\ task' = [task EXCEPT ![t] = Idle]
  /\ requested' = [requested EXCEPT ![t] = 0]
  /\ UNCHANGED <<phase, queue, open, ceilings>>

-------------------------------------------------------------------------------
(* The main thread *)

\* Mutant: a primer that failed releases nothing.
ReleasedOnSuccess(c) ==
  {d \in Calls : /\ status[d] = "deferred" /\ Primer(d) = c
                 /\ results[c].error = "answered"}

\* The calls a collected future releases: its batch's, when it is their primer
\* and they are still deferred, whether the primer passed or failed.
Released(c) ==
  {d \in Calls : status[d] = "deferred" /\ Primer(d) = c}

\* One future that wait() returned: its result is recorded and, if it is a
\* primer, its batch is submitted, behind everything already in the queue.
Collect(c) ==
  /\ phase = "fanout"
  /\ status[c] = "finished"
  /\ status' = [d \in Calls |-> IF d = c THEN "collected"
                                ELSE IF d \in Released(c) THEN "queued"
                                ELSE status[d]]
  /\ wave' = [d \in Calls |-> IF d \in Released(c) THEN submissions ELSE wave[d]]
  /\ submissions' = IF Released(c) = {} THEN submissions ELSE submissions + 1
  /\ UNCHANGED <<phase, task, open, requested, ceilings, outcomes>>

\* `while pending` ends and the pool is joined: _rescue re-submits the calls
\* that failed on the provider, or returns the results as they are.
Drain ==
  /\ phase = "fanout"
  /\ \A c \in Calls : status[c] \in {"deferred", "collected"}
  /\ IF Retrying = {}
     THEN /\ phase' = "drained"
          /\ merged' = results
          /\ UNCHANGED <<status, queue>>
     ELSE /\ phase' = "rescue"
          /\ status' = [c \in Calls |-> IF c \in Retrying THEN "queued"
                                        ELSE status[c]]
          /\ wave' = [c \in Calls |-> 0]
          /\ submissions' = 1
          /\ UNCHANGED merged
  /\ UNCHANGED <<task, open, requested, ceilings, results, rescued>>

\* Mutant: the second attempt's outcome replaces the first's.
MergedReplacing(c) == IF c \in Retrying THEN rescued[c] ELSE results[c]

\* Both attempts' findings are kept, and the second attempt's error.
Merged(c) ==
  IF c \in Retrying
  THEN [error |-> rescued[c].error,
        findings |-> results[c].findings \cup rescued[c].findings]
  ELSE results[c]

\* pool.map has yielded every rescued outcome.
Merge ==
  /\ phase = "rescue"
  /\ \A c \in Retrying : status[c] = "finished"
  /\ phase' = "drained"
  /\ status' = [c \in Calls |-> IF c \in Retrying THEN "collected" ELSE status[c]]
  /\ merged' = [c \in Calls |-> Merged(c)]
  /\ UNCHANGED <<queue, task, open, requested, ceilings, results, rescued>>

\* review's fail-loud test, over what the fan-out returned.
NoSignal ==
  /\ Calls # {}
  /\ \A c \in Calls : merged[c].error # "answered" /\ merged[c].findings = {}
  /\ ~HasScanFindings

Conclude ==
  /\ phase = "drained"
  /\ phase' = IF NoSignal THEN "raised" ELSE "posted"
  /\ UNCHANGED <<status, queue, task, open, requested, ceilings, outcomes>>

\* The review is over: nothing more happens.
Over == phase \in {"posted", "raised"} /\ UNCHANGED vars

-------------------------------------------------------------------------------

Work(t) ==
  \/ \E c \in Calls : Start(t, c) \/ SkipCall(t, c)
  \/ \E s \in 1..Burst : Request(t, s)
  \/ \E s \in 1..Burst, tokens \in 0..MaxTokens : Answer(t, s, tokens)
  \/ \E outcome \in TaskOutcomes : Finish(t, outcome)

Main == (\E c \in Calls : Collect(c)) \/ Drain \/ Merge \/ Conclude

Next ==
  \/ Interrupt
  \/ DeadlinePasses
  \/ \E t \in Threads : Work(t)
  \/ Main
  \/ Over

Spec == Init /\ [][Next]_vars

\* Threads run whenever they can, and a provider call returns within its wall
\* timeout.  Nothing is assumed of signals or of the clock.
FairSpec == Spec /\ (\A t \in Threads : WF_vars(Work(t))) /\ WF_vars(Main)

-------------------------------------------------------------------------------
(* Properties *)

Drained == phase \in {"drained", "posted", "raised"}

\* A failed primer must not strand its batch: once the pool has drained every
\* call has an outcome, whatever the primers did, so that the outcomes zip
\* one-to-one with the calls they answer (_fan_out; review's strict zip).
NoCallStranded ==
  phase # "fanout" => \A c \in Calls : results[c] # NoOutcome

\* The rest of a warmed batch reads the prefix the primer wrote: no follower
\* leaves the main thread's hands before its own batch's primer has reported
\* (_fan_out, primer_batch and deferred).
FollowersWaitForPrimer ==
  \A c \in Calls :
    Follower(c) /\ status[c] # "deferred" => results[Primer(c)] # NoOutcome

\* A warmed batch neither runs ahead of its primer nor waits for one that failed
\* (_arm_calls, _fan_out).
ScheduleIsSound == NoCallStranded /\ FollowersWaitForPrimer

\* The token budget is soft by one round of provider calls and no more: what
\* was in flight when it was reached, in whichever pool was open, is all that
\* is billed past it, however many calls were still queued
\* (_skip_reason, asked at execution; _MeteredProvider.complete).
Width == IF Cardinality(Workers) > Cardinality(RescueWorkers)
         THEN Cardinality(Workers) ELSE Cardinality(RescueWorkers)

OvershootBounded ==
  spent + Cardinality(open) * MaxTokens
    < Budget + Width * Burst * MaxTokens

\* Every call that failed on the provider, and no other, gets its second
\* attempt before the verdict is taken (_rescue: one wave).
RescuesExactlyTheFlaky ==
  Drained => \A c \in Calls :
               rescued[c] # NoOutcome <=> results[c].error = "retryable"

\* The merge hides nothing: findings of either attempt are kept, and a call
\* passes for answered only if its last attempt answered (_rescue).
MergeHidesNothing ==
  Drained => \A c \in Calls :
    /\ results[c].findings \cup rescued[c].findings \subseteq merged[c].findings
    /\ merged[c].error = "answered" =>
         "answered" = IF rescued[c] # NoOutcome THEN rescued[c].error
                      ELSE results[c].error

\* A review with no signal at all is never posted as a clean one, and a review
\* with any, be it one salvaged finding of a first attempt whose rescue failed,
\* is never thrown away (review, 5b: fail loud).
Signal ==
  \/ HasScanFindings
  \/ Calls = {}
  \/ \E c \in Calls :
       \/ results[c].findings \cup rescued[c].findings # {}
       \/ IF rescued[c] # NoOutcome THEN rescued[c].error = "answered"
          ELSE results[c].error = "answered"

SignalDecidesVerdict ==
  /\ phase = "posted" => Signal
  /\ phase = "raised" => ~Signal

\* What a review says it covered is what its calls, and the second attempts of
\* those that faltered, came to (review, _rescue).
VerdictIsHonest ==
  RescuesExactlyTheFlaky /\ MergeHidesNothing /\ SignalDecidesVerdict

\* Each call, seen alone, is tried once and then at most once more, and only
\* for a failure on the provider: the fan-out with its rescue wave implements
\* the contract of LensCall for every call it schedules.
StageOf(c) ==
  CASE phase = "fanout" /\ status[c] \in {"deferred", "queued"} -> "waiting"
    [] phase = "fanout" /\ status[c] = "running" -> "running"
    [] phase = "fanout" /\ status[c] \in {"finished", "collected"} -> "returned"
    [] phase = "rescue" /\ status[c] = "queued" -> "returned"
    [] phase = "rescue" /\ status[c] = "running" -> "rerunning"
    [] OTHER -> "settled"

ErrorOf(c) ==
  LET last == IF rescued[c] # NoOutcome THEN rescued[c] ELSE results[c]
  IN IF last.error \in {"answered", "retryable"} THEN last.error ELSE "plain"

Contract(c) == INSTANCE LensCall WITH stage <- StageOf(c), error <- ErrorOf(c)

CallContract ==
  /\ \A c \in Calls : Contract(c)!Init
  /\ [][\A c \in Calls : [Contract(c)!Next]_(Contract(c)!vars)]_vars

\* Whatever the provider, the signals and the clock do, the review ends: no
\* thread waits for work only a blocked thread could start (_fan_out; _rescue:
\* a pool of its own, entered only after the fan-out's has closed).
ReviewEnds == <>(phase \in {"posted", "raised"})

===============================================================================
