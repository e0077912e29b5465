-------------------------------- MODULE Posting --------------------------------
(***************************************************************************)
(* The life of one pull request under review on GitHub: pushes, the runs   *)
(* that review its heads (review.run_review), and what they leave on the   *)
(* host (github/rest_gateway.post_review).  Nothing is kept but what is on *)
(* the host: a run learns what was done before it from the hidden markers  *)
(* of the summaries and comments, and it can be stopped, or its requests   *)
(* can fail, between any two writes.                                       *)
(*                                                                         *)
(* Model calls are LensCall's, FanOut's and Ladder's matter: here a review *)
(* is the findings it came to, and whether it is complete.                 *)
(***************************************************************************)
EXTENDS Naturals, Sequences, FiniteSets

CONSTANTS
  Findings,  \* what a review may report: a finding is its hidden ids
  Runners,   \* the jobs that may run at once: the event's and the command's
  Setups     \* the pull requests considered

\* heads, runs: how many there are; overlap: a command's run may go beside the
\* event's; lossless: no request to resolve a thread is lost on its way back.
SetupSpace ==
  [heads : Nat \ {0}, runs : Nat, overlap : BOOLEAN, lossless : BOOLEAN]

ASSUME SetupAssumption == Setups \subseteq SetupSpace

\* A review reports so many findings and no more.
ASSUME FindingAssumption == IsFiniteSet(Findings)

VARIABLES
  setup,     \* what this pull request is like
  head,      \* its head, by number
  linear,    \* the heads pushed on top of the one before
  diff,      \* the fingerprint of each head's whole diff
  reviews,   \* our summaries on the host, in order
  comments,  \* our inline comments and their threads, in order
  run,       \* each job's run
  runs,      \* how many runs there have been
  covered    \* history: the pushes that complete reviews have seen

vars == <<setup, head, linear, diff, reviews, comments, run, runs, covered>>

push == <<head, linear, diff>>

PCs == {"idle", "reviewing", "posting", "commenting", "isolating", "resolving",
        "failing"}

\* The summary found on the host, as read: its number, zero for none, and its
\* watermark, zero for none.
Unread == [read |-> FALSE, id |-> 0, stamp |-> 0]

Idle ==
  [pc |-> "idle", head |-> 0, since |-> 0, entry |-> Unread,
   found |-> {}, inline |-> {}, complete |-> FALSE, validated |-> {},
   todo |-> {}, rejected |-> {}, tofix |-> {}, marked |-> {}, restoring |-> {}]

\* commit: the head it is bound to; stamp: the watermark; listed: the findings
\* in its text; fresh: its text is as first posted; owed: history, the findings
\* of the run that stamped it.
Reviews ==
  [commit : Nat \ {0}, stamp : Nat, listed : SUBSET Findings, fresh : BOOLEAN,
   owed : SUBSET Findings]

\* active: the ids are of the active families; outdated: the line has changed.
Comments ==
  [finding : Findings, active : BOOLEAN, resolved : BOOLEAN, outdated : BOOLEAN]

Entries == [read : BOOLEAN, id : Nat, stamp : Nat]

Runs ==
  [pc : PCs, head : Nat, since : Nat, entry : Entries, found : SUBSET Findings,
   inline : SUBSET Findings, complete : BOOLEAN, validated : SUBSET Nat,
   todo : SUBSET Findings, rejected : SUBSET Findings, tofix : SUBSET Nat,
   marked : SUBSET Nat, restoring : SUBSET Nat]

Heads == 1..setup.heads

\* What a run holds of the host is there.
RunOK(state) ==
  /\ state.head \in (IF state.pc = "idle" THEN {0} ELSE 1..head)
  /\ state.since \in 0..state.head
  /\ state.entry.id \in (IF state.pc = "commenting" THEN 1 ELSE 0)..Len(reviews)
  /\ state.inline \subseteq state.found
  /\ state.todo \cup state.rejected \subseteq
       (IF state.pc \in {"commenting", "isolating", "failing"} THEN state.inline ELSE {})
  /\ state.validated \cup state.tofix \cup state.marked \cup state.restoring
       \subseteq 1..Len(comments)

TypeOK ==
  /\ setup \in Setups
  /\ head \in Heads
  /\ linear \subseteq Heads
  /\ diff \in [1..head -> Heads]
  /\ reviews \in Seq(Reviews)
  /\ comments \in Seq(Comments)
  /\ runs \in 0..setup.runs
  /\ covered \subseteq Heads
  /\ run \in [Runners -> Runs]
  /\ \A r \in Runners : RunOK(run[r])

Init ==
  /\ setup \in Setups
  /\ head = 1
  /\ linear = {}
  /\ diff = [h \in {1} |-> 1]
  /\ reviews = <<>>
  /\ comments = <<>>
  /\ run = [r \in Runners |-> Idle]
  /\ runs = 0
  /\ covered = {}

-------------------------------------------------------------------------------
(* The pull request *)

\* A new head, on top of the last or in its place, with a diff of its own or, as
\* after a rebase, the same; the lines of some comments are gone.
Push ==
  /\ head < setup.heads
  /\ head' = head + 1
  /\ \E onTop, same \in BOOLEAN :
       /\ linear' = IF onTop THEN linear \cup {head + 1} ELSE linear
       /\ diff' = [h \in 1..(head + 1) |->
                     IF h <= head THEN diff[h] ELSE IF same THEN diff[head] ELSE h]
  /\ \E gone \in SUBSET DOMAIN comments :
       comments' = [i \in DOMAIN comments |->
                      [comments[i] EXCEPT !.outdated = @ \/ i \in gone]]
  /\ UNCHANGED <<setup, reviews, run, runs, covered>>

\* Whether the head h is strictly ahead of the head b, through linear commits.
Ahead(b, h) == b < h /\ (b + 1)..h \subseteq linear

\* The pushes the head h is made of.
Pushes(h) == {p \in 1..h : p = h \/ Ahead(p, h)}

-------------------------------------------------------------------------------
(* A run, up to its findings *)

\* _find_existing_review_entry: our latest summary.
Latest ==
  [read |-> TRUE, id |-> Len(reviews),
   stamp |-> IF reviews = <<>> THEN 0 ELSE reviews[Len(reviews)].stamp]

\* It is looked for once a run.
Entry(r) == IF run[r].entry.read THEN run[r].entry ELSE Latest

\* The head is complete already, or its diff is that of the head that is.
NothingToReview(entry) ==
  entry.stamp # 0 /\ (entry.stamp = head \/ diff[entry.stamp] = diff[head])

\* Where an increment starts: at the watermark, if the head is ahead of it.
Increment(entry) ==
  IF entry.stamp # 0 /\ Ahead(entry.stamp, head) THEN entry.stamp ELSE 0

\* A job's run is now like this.
Becomes(r, state) == run' = [run EXCEPT ![r] = state]

\* run_review and _incremental_context: of the whole pull request, or of the
\* increment since the watermark where the host can compare the two.
Begin(r) ==
  /\ run[r].pc = "idle"
  /\ runs < setup.runs
  /\ setup.overlap \/ \A q \in Runners : run[q].pc = "idle"
  /\ runs' = runs + 1
  /\ \E entry \in {Unread, Latest} : \E since \in {0, Increment(entry)} :
       /\ ~NothingToReview(entry)
       /\ Becomes(r, [Idle EXCEPT !.pc = "reviewing", !.head = head, !.entry = entry,
                                  !.since = since])
  /\ UNCHANGED <<setup, push, reviews, comments, covered>>

\* Ours, still open, with ids that count.
Active == {i \in DOMAIN comments : ~comments[i].resolved /\ comments[i].active}

\* Those a fix may be claimed of: their line has changed and the run, which
\* looked, did not find it again.
Fixable(found) ==
  {i \in Active : comments[i].outdated /\ comments[i].finding \notin found}

\* _validate_prior_findings: of the findings that an increment does not reproduce,
\* those the model may say are fixed.
Validated(r, found) == IF run[r].since = 0 THEN {{}} ELSE SUBSET Fixable(found)

\* What the run has looked at: all of its head, or the increment.
Reviewed(r) == Pushes(run[r].head) \ Pushes(run[r].since)

\* engine.review, and the validation of what earlier runs found.
Review(r) ==
  /\ run[r].pc = "reviewing"
  /\ \E found \in SUBSET Findings, complete \in BOOLEAN :
       /\ \E inline \in SUBSET found, fixed \in Validated(r, found) :
            Becomes(r, [run[r] EXCEPT !.pc = "posting", !.found = found,
                                      !.inline = inline, !.complete = complete,
                                      !.validated = fixed])
       /\ covered' = IF complete THEN covered \cup Reviewed(r) ELSE covered
  /\ UNCHANGED <<setup, push, reviews, comments, runs>>

-------------------------------------------------------------------------------
(* post_review *)

\* Mutant: a partial run completes its head.
StampOfAny(r) == run[r].head

\* The watermark, which a partial run does not have.
Stamp(r) == IF run[r].complete THEN run[r].head ELSE 0

\* Mutant: what was refused is forgotten.
ListedDemoted(r) == run[r].found \ run[r].inline

\* The findings in the summary's text: demoted, or refused as comments.
Listed(r) == (run[r].found \ run[r].inline) \cup run[r].rejected

\* unposted: an active comment absorbs its finding, its thread open or not.
Unposted(r) ==
  run[r].inline \ {comments[i].finding : i \in {j \in DOMAIN comments : comments[j].active}}

NewCommit(r) ==
  Entry(r).id # 0 /\ run[r].complete /\ reviews[Entry(r).id].commit # run[r].head

Summary(r, commit, isFresh) ==
  [commit |-> commit, stamp |-> Stamp(r), listed |-> Listed(r), fresh |-> isFresh,
   owed |-> IF run[r].complete THEN run[r].found ELSE {}]

\* The comments as they may be once the host has accepted these.
Posted(found) ==
  LET n == Cardinality(found)
      orders == {o \in [1..n -> found] : \A i, j \in 1..n : o[i] = o[j] => i = j}
  IN {comments \o [i \in 1..n |-> [finding |-> o[i], active |-> TRUE, resolved |-> FALSE,
                                   outdated |-> FALSE]] : o \in orders}

\* _fixed_threads
Fixed(r) ==
  IF Entry(r).id = 0 \/ ~run[r].complete THEN {}
  ELSE IF run[r].since # 0 THEN run[r].validated ELSE Fixable(run[r].found)

\* The review is on the host: what is left is the threads.
Resolving(r) ==
  Becomes(r, [run[r] EXCEPT !.pc = "resolving", !.entry = Entry(r),
                            !.todo = {}, !.rejected = {}, !.tofix = Fixed(r)])

\* The request was applied, and its answer lost.
Lost(r) == Becomes(r, [run[r] EXCEPT !.pc = "failing", !.entry = Entry(r)])

\* The summary of this commit is rewritten, its watermark with it; the comments
\* follow one by one.
Put(r) ==
  /\ run[r].pc = "posting"
  /\ Entry(r).id # 0 /\ ~NewCommit(r)
  /\ reviews' = [reviews EXCEPT ![Entry(r).id] = Summary(r, @.commit, FALSE)]
  /\ Becomes(r, [run[r] EXCEPT !.pc = "commenting", !.entry = Entry(r),
                               !.todo = Unposted(r)])
  /\ UNCHANGED <<setup, push, comments, runs, covered>>

\* The head a review posted now is bound to.
Commit(r) == IF run[r].complete THEN run[r].head ELSE head

\* Mutant: a re-run's comments all ride the post.
CarriedAll(r) == run[r].inline

\* The comments a fresh review carries: on a re-run those not posted before.
Carried(r) == IF NewCommit(r) THEN Unposted(r) ELSE run[r].inline

\* A fresh review carries its comments, and both are published or neither.
Post(r) ==
  /\ run[r].pc = "posting"
  /\ Entry(r).id = 0 \/ NewCommit(r)
  /\ reviews' = Append(reviews, Summary(r, Commit(r), TRUE))
  /\ comments' \in Posted(Carried(r))
  /\ Resolving(r) \/ Lost(r)
  /\ UNCHANGED <<setup, push, runs, covered>>

\* One bad position refuses it all (422): the comments go one by one, and first.
PostRefused(r) ==
  /\ run[r].pc = "posting"
  /\ Entry(r).id = 0 \/ NewCommit(r)
  /\ Carried(r) # {}
  /\ Becomes(r, [run[r] EXCEPT !.pc = "isolating", !.entry = Entry(r),
                               !.todo = Unposted(r)])
  /\ UNCHANGED <<setup, push, reviews, comments, runs, covered>>

\* _post_new_inline_comments: a comment that is refused (422) or cannot be
\* anchored goes into the summary.
Comment(r, f) ==
  /\ run[r].pc \in {"commenting", "isolating"}
  /\ f \in run[r].todo
  /\ \/ /\ comments' \in Posted({f})
        /\ Becomes(r, [run[r] EXCEPT !.todo = @ \ {f}])
     \/ /\ Becomes(r, [run[r] EXCEPT !.todo = @ \ {f}, !.rejected = @ \cup {f}])
        /\ UNCHANGED comments
  /\ UNCHANGED <<setup, push, reviews, runs, covered>>

\* Nothing was refused: the summary stands.
Commented(r) ==
  /\ run[r].pc = "commenting"
  /\ run[r].todo = {} /\ run[r].rejected = {}
  /\ Resolving(r)
  /\ UNCHANGED <<setup, push, reviews, comments, runs, covered>>

PutAgain(r) ==
  /\ run[r].pc = "commenting"
  /\ run[r].todo = {} /\ run[r].rejected # {}
  /\ reviews' = [reviews EXCEPT ![run[r].entry.id] = Summary(r, @.commit, FALSE)]
  /\ Resolving(r) \/ Lost(r)
  /\ UNCHANGED <<setup, push, comments, runs, covered>>

PostBare(r) ==
  /\ run[r].pc = "isolating"
  /\ run[r].todo = {}
  /\ reviews' = Append(reviews, Summary(r, Commit(r), TRUE))
  /\ Resolving(r) \/ Lost(r)
  /\ UNCHANGED <<setup, push, comments, runs, covered>>

-------------------------------------------------------------------------------
(* _resolve_fixed_threads: the threads are independent, each three writes *)

\* The threads a run has still to mark, to resolve and to restore.
Left(r, tofix, marked, restoring) ==
  Becomes(r, [run[r] EXCEPT !.tofix = tofix, !.marked = marked, !.restoring = restoring])

\* The comment's ids are retired; or that fails, as far as is known, and the
\* thread is left.
Mark(r, i) ==
  /\ i \in run[r].tofix
  /\ \/ /\ comments' = [comments EXCEPT ![i].active = FALSE]
        /\ Left(r, run[r].tofix \ {i}, run[r].marked \cup {i}, run[r].restoring)
     \/ /\ comments' \in {comments, [comments EXCEPT ![i].active = FALSE]}
        /\ Left(r, run[r].tofix \ {i}, run[r].marked, run[r].restoring)
  /\ UNCHANGED <<setup, push, reviews, runs, covered>>

Resolve(r, i) ==
  /\ i \in run[r].marked
  /\ comments' = [comments EXCEPT ![i].resolved = TRUE]
  /\ Left(r, run[r].tofix, run[r].marked \ {i}, run[r].restoring)
  /\ UNCHANGED <<setup, push, reviews, runs, covered>>

\* The request failed, or its answer did; the ids are to be restored.  Refused
\* for what the identity is, the threads not begun are skipped.
ResolveFails(r, i) ==
  /\ i \in run[r].marked
  /\ \/ UNCHANGED comments
     \/ ~setup.lossless /\ comments' = [comments EXCEPT ![i].resolved = TRUE]
  /\ \E begun \in SUBSET run[r].tofix :
       Left(r, begun, run[r].marked \ {i}, run[r].restoring \cup {i})
  /\ UNCHANGED <<setup, push, reviews, runs, covered>>

\* They are, or that fails too.
Restore(r, i) ==
  /\ i \in run[r].restoring
  /\ comments' \in {comments, [comments EXCEPT ![i].active = TRUE]}
  /\ Left(r, run[r].tofix, run[r].marked, run[r].restoring \ {i})
  /\ UNCHANGED <<setup, push, reviews, runs, covered>>

End(r) ==
  /\ run[r].pc = "resolving"
  /\ run[r].tofix \cup run[r].marked \cup run[r].restoring = {}
  /\ Becomes(r, Idle)
  /\ UNCHANGED <<setup, push, reviews, comments, runs, covered>>

-------------------------------------------------------------------------------
(* The runs that do not get there *)

\* The review failed, or a request did: the run fails.
Fail(r) ==
  /\ run[r].pc \in {"reviewing", "posting", "commenting", "isolating"}
  /\ Becomes(r, [run[r] EXCEPT !.pc = "failing"])
  /\ UNCHANGED <<setup, push, reviews, comments, runs, covered>>

Blank(commit) ==
  [commit |-> commit, stamp |-> 0, listed |-> {}, fresh |-> FALSE, owed |-> {}]

\* Mutant: a notice takes the place of any summary.
KeepsAny(entry) == FALSE

\* last_reviewed_sha: a completed summary is left as it is.
Keeps(entry) == entry.stamp # 0

\* What a failed run takes the summary for.  One that had not read it reads it
\* now, and where that fails takes it for one without a watermark.
TakenFor(r) ==
  {Entry(r)} \cup IF run[r].entry.read THEN {} ELSE {[Latest EXCEPT !.stamp = 0]}

\* _post_notice: the failure is disclosed in the summary, unless a completed one
\* is there, or the host refuses that too; and in a comment, which stamps
\* nothing.
Notice(r) ==
  /\ run[r].pc = "failing"
  /\ \/ UNCHANGED reviews
     \/ /\ \E entry \in TakenFor(r) : ~Keeps(entry)
        /\ reviews' = IF Entry(r).id = 0 THEN Append(reviews, Blank(head))
                      ELSE [reviews EXCEPT ![Entry(r).id] = Blank(@.commit)]
  /\ Becomes(r, Idle)
  /\ UNCHANGED <<setup, push, comments, runs, covered>>

\* The job is cancelled by a newer one, and stopped.
Crash(r) ==
  /\ run[r].pc # "idle"
  /\ Becomes(r, Idle)
  /\ UNCHANGED <<setup, push, reviews, comments, runs, covered>>

-------------------------------------------------------------------------------

Threads == DOMAIN comments

Step(r) ==
  \/ Begin(r) \/ Review(r)
  \/ Put(r) \/ Post(r) \/ PostRefused(r)
  \/ \E f \in Findings : Comment(r, f)
  \/ Commented(r) \/ PutAgain(r) \/ PostBare(r)
  \/ \E i \in Threads : Mark(r, i) \/ Resolve(r, i) \/ ResolveFails(r, i) \/ Restore(r, i)
  \/ End(r) \/ Fail(r) \/ Notice(r) \/ Crash(r)

Next == Push \/ \E r \in Runners : Step(r)

Spec == Init /\ [][Next]_vars

-------------------------------------------------------------------------------
(* Properties *)

\* No commit is skipped: a watermark at a head says that complete reviews, this
\* run's and those it built on, have seen every push the head is made of,
\* whatever failed, was stopped or ran beside it (_incremental_context,
\* post_review; configure-lgtmaybe-yml.md, "so no commit is skipped").
WatermarkCovers ==
  \A n \in DOMAIN reviews :
    reviews[n].stamp # 0 => Pushes(reviews[n].stamp) \subseteq covered

\* The runs of this pull request go one after another.
Serial == ~setup.overlap

HasComment(f) == \E i \in DOMAIN comments : comments[i].finding = f

ShownNow(f) ==
  \/ \E i \in DOMAIN comments : comments[i].finding = f /\ comments[i].active
  \/ \E n \in DOMAIN reviews : f \in reviews[n].listed

\* A run that gets there drops nothing: each of its findings is on the pull
\* request, as a comment whose ids are active or in a summary's text, though
\* comments were refused and earlier runs had fixed, retired or half resolved
\* the same finding (_post_new_inline_comments, "never dropped silently").
RunShowsItsFindings ==
  [][\A r \in Runners :
       Serial /\ run[r].pc = "resolving" /\ run'[r].pc = "idle" =>
         \A f \in run[r].found : ShownNow(f)]_vars

\* Whether the findings of the run that stamped it have reached the pull request.
Delivered(review) ==
  \A f \in review.owed : HasComment(f) \/ \E n \in DOMAIN reviews : f \in reviews[n].listed

\* A fresh review and its comments land together, and where they cannot the
\* comments are first: at no moment does its watermark stand without them
\* (post_review, "Comments and completion land atomically"), whatever runs beside it.
FreshIsAtomic ==
  \A n \in DOMAIN reviews : reviews[n].fresh => Delivered(reviews[n])

Live(f, thread) == thread.finding = f /\ thread.active

\* Once there is a summary, a finding that has an active comment is not posted
\* again, though earlier runs were stopped half way (unposted).
NotPostedAgain ==
  [][\A i \in DOMAIN comments' \ DOMAIN comments :
       Serial /\ reviews # <<>> =>
         ~\E j \in DOMAIN comments : Live(comments'[i].finding, comments[j])]_vars

\* The unsafe state, a resolved thread whose ids still count, does not come
\* about, though a run is stopped between any two of a thread's writes
\* (resolve_one): the finding could never be reported again.
ResolvedIsRetired ==
  \A i \in DOMAIN comments : comments[i].resolved => ~comments[i].active

ResolvedIsRetiredLossless == Serial /\ setup.lossless => ResolvedIsRetired

\* Each finding of a run stands on the pull request, and stands once.
FindingsStandOnce == RunShowsItsFindings /\ NotPostedAgain

\* The writes that only hold together land together, or in the safe order.
WritesLandInOrder == FreshIsAtomic /\ ResolvedIsRetiredLossless

\* A failed run that had read the summary leaves a completed one alone: the notice
\* takes a watermark away only if this run had put it there (_post_notice).
NoticeSparesCompletion ==
  [][\A r \in Runners :
       Serial /\ run[r].pc = "failing" /\ run[r].entry.read =>
         \A n \in DOMAIN reviews :
           reviews[n].stamp # 0 /\ reviews'[n].stamp = 0 =>
             run[r].complete /\ reviews[n].stamp = run[r].head /\ ~reviews[n].fresh]_vars

===============================================================================
