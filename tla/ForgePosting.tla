----------------------------- MODULE ForgePosting -----------------------------
(***************************************************************************)
(* A pull request under review on GitLab, Gitea or Azure DevOps            *)
(* (gitlab/gateway.py, gitea/gateway.py, azure_devops/gateway.py).  The    *)
(* three post findings first and the summary after, but differ in what a   *)
(* request carries, in what a run reads of earlier ones and when, in what  *)
(* suppresses a finding and in what is resolved.  Runs go one after        *)
(* another; a run can be stopped, or its requests fail, between any two    *)
(* writes, and people push and close threads meanwhile.                    *)
(*                                                                         *)
(* Posting models GitHub.  A review is here what it found, of which files. *)
(***************************************************************************)
EXTENDS Naturals, Sequences, SequencesExt, FiniteSets, FiniteSetsExt

CONSTANTS
  Findings,  \* what a review may report: a finding is its hidden ids
  FileOf,    \* the file of each
  Setups     \* the pull requests considered

\* forge: the host; findings: what is to be found; heads, runs: bounds, how many
\* there are.
SetupSpace ==
  [forge : {"gitlab", "gitea", "azure"}, findings : SUBSET Findings, heads : Nat \ {0},
   runs : Nat]

ASSUME ForgeAssumption ==
  /\ Setups \subseteq SetupSpace
  /\ DOMAIN FileOf = Findings
  /\ IsFiniteSet(Findings)

VARIABLES
  setup,    \* what this pull request is like
  head,     \* the head of the pull request, by number
  linear,   \* the heads pushed on top of the one before, no merge
  threads,  \* our finding threads, oldest first
  notes,    \* our summary notes, oldest first
  run,      \* the run under way
  runs,     \* how many runs there have been
  covered   \* history: the pushes that complete reviews have seen

vars == <<setup, head, linear, threads, notes, run, runs, covered>>

forge == setup.forge
Files == {FileOf[f] : f \in setup.findings}

\* reading: the run has a context; posting: it has findings to post.
PCs == {"idle", "reviewing", "reading", "posting", "resolving", "failing"}

Idle ==
  [pc |-> "idle", head |-> 0, since |-> 0, known |-> FALSE, read |-> FALSE, seen |-> <<>>,
   scope |-> {}, unread |-> {}, reviewed |-> {}, found |-> {}, inline |-> {}, complete |-> FALSE,
   validated |-> {}, todo |-> {}, demoted |-> {}, tofix |-> {}, note |-> 0, base |-> 0]

\* open; fixed: resolved by us; dismissed: closed by a person.  posted: the head
\* it was posted at; lost: the head that changed its line, or zero; tracked: the
\* host knows where it was posted.
Thread(f, posted, lost, tracked) ==
  [finding |-> f, status |-> "open", posted |-> posted, lost |-> lost, tracked |-> tracked]

Init ==
  /\ setup \in Setups
  /\ head = 1
  /\ linear = {}
  /\ threads = <<>>
  /\ notes = <<>>
  /\ run = Idle
  /\ runs = 0
  /\ covered = {}

Becomes(state) == run' = state
Failing == [Idle EXCEPT !.pc = "failing", !.known = run.known]

-------------------------------------------------------------------------------
(* People *)

Push ==
  /\ head < setup.heads
  /\ head' = head + 1
  /\ linear' \in {linear, linear \cup {head + 1}}
  /\ \E gone \in SUBSET {i \in DOMAIN threads : threads[i].lost = 0} :
       threads' = [i \in DOMAIN threads |->
                     IF i \in gone THEN [threads[i] EXCEPT !.lost = head + 1] ELSE threads[i]]
  /\ UNCHANGED <<setup, notes, run, runs, covered>>

Dismiss(i) ==
  /\ threads[i].status = "open"
  /\ threads' = [threads EXCEPT ![i].status = "dismissed"]
  /\ UNCHANGED <<setup, head, linear, notes, run, runs, covered>>

\* The head h is strictly ahead of the head b, each commit with one parent.
Ahead(b, h) == b < h /\ (b + 1)..h \subseteq linear

\* The pushes the head h is made of.
Pushes(h) == {p \in 1..h : p = h \/ Ahead(p, h)}

-------------------------------------------------------------------------------
(* A run, up to its findings *)

\* last_reviewed_sha: the watermark of our newest note that has one, which is
\* none where the token's identity is unknown.  GitLab alone keeps one.
LastReviewed(known) ==
  LET stamped == {n \in DOMAIN notes : notes[n].stamp # 0}
  IN  IF forge = "gitlab" /\ known /\ stamped # {} THEN notes[Max(stamped)].stamp ELSE 0

\* _unusable_increment: the head must chain back to the watermark.
Increment(stamp) == IF stamp # 0 /\ Ahead(stamp, head) THEN stamp ELSE 0

\* A run of the head, its identity looked up once.
Starting(known) == [Idle EXCEPT !.pc = "reviewing", !.head = head, !.known = known,
                                !.scope = Files, !.base = Len(threads)]

\* What reading the threads leaves: all, those of the pages read before one that
\* failed, or none.
Read(seen) == [read |-> TRUE, seen |-> seen]
ReadInPart(n) == [read |-> FALSE, seen |-> SubSeq(threads, 1, n)]

\* _discussions: read with the context and kept for the run.
Discussions(known) == {Read(IF known THEN threads ELSE <<>>), ReadInPart(0)}

\* get_pr_context, of the whole or of what is new.  Reading the watermark, the
\* comparison or the discussions may fail.
BeginGitLab ==
  \E known \in BOOLEAN : \E stamp \in {0, LastReviewed(known)} :
    /\ stamp # head
    /\ \E since \in {0, Increment(stamp)}, scope \in SUBSET Files, d \in Discussions(known) :
         /\ since = 0 => scope = Files
         /\ Becomes([Starting(known) EXCEPT !.since = since, !.scope = scope,
                                            !.read = d.read, !.seen = d.seen])

BeginGitea == \E known \in BOOLEAN : Becomes(Starting(known))

\* _fetch_text: what the worse of a file's sides comes to, after three attempts
\* where the host is busy; a side that is not there reads as empty.
Sides == {"text", "absent", "binary", "failed"}

\* _fetch_sides: a file that cannot be read has no lines in the diff.
Unread(sides) == {f \in Files : sides[f] \in {"binary", "failed"}}

BeginAzure ==
  \E known \in BOOLEAN, sides \in [Files -> Sides] :
    Becomes([Starting(known) EXCEPT !.unread = Unread(sides)])

Begin ==
  /\ run.pc = "idle"
  /\ runs < setup.runs
  /\ runs' = runs + 1
  /\ CASE forge = "gitlab" -> BeginGitLab
       [] forge = "gitea" -> BeginGitea
       [] forge = "azure" -> BeginAzure
  /\ UNCHANGED <<setup, head, linear, threads, notes, covered>>

Seen == DOMAIN run.seen

\* _is_outdated: the thread's line has changed between the head it was posted
\* at and the run's.
LineChanged(i) == threads[i].lost \in 1..run.head

\* Mutant: the line is looked for in the newest head, not in the run's.
OutdatedNow(i) == run.seen[i].tracked /\ threads[i].lost # 0

\* Azure knows nothing of an untracked thread.
OutdatedAzure(i) == run.seen[i].tracked /\ LineChanged(i)

\* list_active_findings.
ActiveFindings == {i \in Seen : run.seen[i].status = "open"}

\* _validate_prior_findings, for an increment: of our unresolved threads that it
\* did not reproduce, those outdated that the model calls fixed.
Validated(found) ==
  IF run.since = 0 THEN {{}}
  ELSE SUBSET {i \in ActiveFindings : LineChanged(i) /\ run.seen[i].finding \notin found}

Reviewed == Pushes(run.head) \ Pushes(run.since)

\* engine.review.  Files may be left out of it, skipped or capped, and the run be
\* complete for all that; a finding may have no line to sit on.
Review ==
  /\ run.pc = "reviewing"
  /\ \E reviewed \in SUBSET (run.scope \ run.unread), complete \in BOOLEAN :
       \E found \in SUBSET {f \in setup.findings : FileOf[f] \in reviewed} :
         /\ \E inline \in SUBSET found, fixed \in Validated(found) :
              Becomes([run EXCEPT !.pc = "reading", !.reviewed = reviewed, !.found = found,
                                  !.inline = inline, !.demoted = found \ inline,
                                  !.complete = complete, !.validated = fixed])
         /\ covered' = IF complete THEN covered \cup Reviewed ELSE covered
  /\ UNCHANGED <<setup, head, linear, threads, notes, runs>>

-------------------------------------------------------------------------------
(* post_review: what is on the host already *)

\* Gitea has a request for each review's comments; nothing is trusted where the
\* identity is unknown.
OwnReviewComments == IF run.known THEN {Read(threads)} \cup {ReadInPart(n) : n \in 0..Len(threads)}
                     ELSE {Read(<<>>)}

\* Azure reads them before anything else, and fails where it cannot.
OwnThreads == {Read(IF run.known THEN threads ELSE <<>>)}

\* _existing_finding_keys: what suppresses a finding.  On GitLab no resolved
\* thread does, whoever resolved it.
KeysGitLab(seen) == {i \in DOMAIN seen : seen[i].status = "open"}

\* A comment its own author resolved does not; one that a person did does.
KeysGitea(seen) == {i \in DOMAIN seen : seen[i].status # "fixed"}

\* Mutant: any thread does.
KeysAzureOfAny(seen) == DOMAIN seen

\* A fixed thread does not; one closed, or not to be fixed, does.
KeysAzure(seen) == {i \in DOMAIN seen : seen[i].status # "fixed"}

\* unposted
Unposted(seen) ==
  run.inline \
    {seen[i].finding : i \in CASE forge = "gitlab" -> KeysGitLab(seen)
                               [] forge = "gitea" -> KeysGitea(seen)
                               [] forge = "azure" -> KeysAzure(seen)}

\* GitLab reads the discussions here if it could not before.
ReadThreads ==
  /\ run.pc = "reading"
  /\ \E on \in CASE forge = "gitlab" -> IF run.read THEN {run} ELSE Discussions(run.known)
                [] forge = "gitea" -> OwnReviewComments
                [] forge = "azure" -> OwnThreads :
       Becomes([run EXCEPT !.pc = "posting", !.read = on.read, !.seen = on.seen,
                           !.todo = Unposted(on.seen), !.inline = {}])
  /\ UNCHANGED <<setup, head, linear, threads, notes, runs, covered>>

-------------------------------------------------------------------------------
(* post_review: the findings *)

\* The threads once these findings are posted; a newer head may have changed
\* their lines already.
NewThreads(fs, tracked) ==
  {threads \o [i \in 1..Len(fs) |-> Thread(fs[i], run.head, lost[i], tracked)] :
     lost \in [1..Len(fs) -> {0} \cup (run.head + 1)..head]}

Done(f) == [run EXCEPT !.todo = @ \ {f}]
Demoted(f) == [run EXCEPT !.todo = @ \ {f}, !.demoted = @ \cup {f}]

\* A discussion for each: refused, or its answer lost, the finding goes into the
\* summary.
PostDiscussion(f) ==
  /\ run.pc = "posting" /\ forge = "gitlab"
  /\ f \in run.todo
  /\ \/ threads' \in NewThreads(<<f>>, TRUE) /\ Becomes(Done(f))
     \/ threads' \in {threads} \cup NewThreads(<<f>>, TRUE) /\ Becomes(Demoted(f))
  /\ UNCHANGED <<setup, head, linear, notes, runs, covered>>

\* Mutant: the retry follows any failure, a lost answer's too.
RetryAny(f) ==
  /\ run.pc = "posting" /\ forge = "azure"
  /\ f \in run.todo
  /\ \E lost \in {threads} \cup NewThreads(<<f>>, TRUE) :
       threads' \in {lost, Append(lost, Thread(f, run.head, 0, FALSE))}
  /\ Becomes(Done(f))
  /\ UNCHANGED <<setup, head, linear, notes, runs, covered>>

\* A thread for each.  Azure may reject its tracking (400), and is asked once more
\* without; refused, or its answer lost, the finding goes into the summary.
PostFindingThread(f) ==
  /\ run.pc = "posting" /\ forge = "azure"
  /\ f \in run.todo
  /\ \/ \E tracked \in BOOLEAN : threads' \in NewThreads(<<f>>, tracked) /\ Becomes(Done(f))
     \/ /\ threads' \in {threads} \cup NewThreads(<<f>>, TRUE) \cup NewThreads(<<f>>, FALSE)
        /\ Becomes(Demoted(f))
  /\ UNCHANGED <<setup, head, linear, notes, runs, covered>>

\* Gitea: one review carries all the comments; its answer lost, the run fails.
PostReview ==
  /\ run.pc = "posting" /\ forge = "gitea"
  /\ run.todo # {}
  /\ threads' \in NewThreads(SetToSeq(run.todo), TRUE)
  /\ run' \in {[run EXCEPT !.todo = {}], Failing}
  /\ UNCHANGED <<setup, head, linear, notes, runs, covered>>

-------------------------------------------------------------------------------
(* post_review: the summary *)

Fresh == Len(notes) + 1

\* _find_note: our newest, or a new one.
NoteGitLab == IF run.known /\ notes # <<>> THEN {Len(notes)} ELSE {Fresh}

\* _find_comment: our first, or a new one.
NoteGitea == IF run.known /\ notes # <<>> THEN {1} ELSE {Fresh}

\* _upsert: from one that it may not edit, or that is gone, on to the next, and
\* in the end a new one.
NoteAzure == 1..Fresh

Targets == CASE forge = "gitlab" -> NoteGitLab
             [] forge = "gitea" -> NoteGitea
             [] forge = "azure" -> NoteAzure

\* _carried_marker: an edit that completes no head keeps the watermark there;
\* where the notes cannot be read it keeps none.
Carried ==
  IF forge = "gitlab" /\ run.known /\ notes # <<>> THEN {0, notes[Len(notes)].stamp} ELSE {0}

Stamps == IF forge = "gitlab" /\ run.complete THEN {run.head} ELSE Carried

Note(n, note) == notes' = [m \in 1..Max({n, Len(notes)}) |-> IF m = n THEN note ELSE notes[m]]

\* _resolve_fixed_threads: what the caller validated, in files of the increment.
FixedGitLab == {i \in run.validated : FileOf[run.seen[i].finding] \in run.scope}

\* _resolve_fixed_comments: open, not produced by this run, and the line changed.
FixedGitea ==
  {i \in Seen : /\ run.seen[i].status = "open" /\ run.seen[i].finding \notin run.found
                /\ LineChanged(i)}

\* _fixed_thread_ids, of _open_finding_threads.
FixedAzure ==
  {i \in Seen : /\ run.seen[i].status = "open" /\ run.seen[i].finding \notin run.found
                /\ OutdatedAzure(i)}

\* A partial run resolves nothing.
Fixed == IF ~run.complete THEN {}
         ELSE CASE forge = "gitlab" -> FixedGitLab
                [] forge = "gitea" -> FixedGitea
                [] forge = "azure" -> FixedAzure

\* The summary is posted once the findings are, and its watermark with it.
\* resolve_fixed may be off.
Summary ==
  /\ run.pc = "posting"
  /\ run.todo = {}
  /\ \E n \in Targets, stamp \in Stamps, tofix \in {{}, Fixed} :
       /\ Note(n, [stamp |-> stamp, listed |-> run.demoted])
       /\ Becomes([run EXCEPT !.pc = "resolving", !.note = n, !.tofix = tofix,
                              !.seen = <<>>, !.demoted = {}, !.validated = {}])
  /\ UNCHANGED <<setup, head, linear, threads, runs, covered>>

-------------------------------------------------------------------------------
(* post_review: the threads that are fixed *)

\* The thread is set to fixed, closed meanwhile or not; or it is left, and where
\* the host refuses the identity (401, 403), or Gitea has no such request, so
\* are the rest.
SetFixed(i) == threads' = [threads EXCEPT ![i].status = "fixed"]
Settled(i) == Becomes([run EXCEPT !.tofix = @ \ {i}])
Refused(i) == UNCHANGED threads /\ run' \in {[run EXCEPT !.tofix = @ \ {i}], [run EXCEPT !.tofix = {}]}

\* Reply, then resolve: one that fails leaves the others.  A thread that is
\* resolved already stays its resolver's.
ResolveGitLab(i) ==
  /\ run.pc = "resolving" /\ forge = "gitlab"
  /\ i \in run.tofix
  /\ UNCHANGED threads \/ (threads[i].status = "open" /\ SetFixed(i))
  /\ Settled(i)
  /\ UNCHANGED <<setup, head, linear, notes, runs, covered>>

ResolveGitea(i) ==
  /\ run.pc = "resolving" /\ forge = "gitea"
  /\ i \in run.tofix
  /\ (threads[i].status = "open" /\ SetFixed(i) /\ Settled(i)) \/ Refused(i)
  /\ UNCHANGED <<setup, head, linear, notes, runs, covered>>

\* Resolve, then reply.
ResolveAzure(i) ==
  /\ run.pc = "resolving" /\ forge = "azure"
  /\ i \in run.tofix
  /\ (SetFixed(i) /\ Settled(i)) \/ Refused(i)
  /\ UNCHANGED <<setup, head, linear, notes, runs, covered>>

End ==
  /\ run.pc = "resolving"
  /\ run.tofix = {}
  /\ Becomes(Idle)
  /\ UNCHANGED <<setup, head, linear, threads, notes, runs, covered>>

-------------------------------------------------------------------------------
(* The runs that do not get there *)

\* The review failed, or a request did that the run cannot do without.
Fail ==
  /\ run.pc \in {"reviewing", "reading", "posting"}
  /\ Becomes(Failing)
  /\ UNCHANGED <<setup, head, linear, threads, notes, runs, covered>>

\* _post_notice: the notice takes the summary's place, unless a head is known to
\* be complete; or the host refuses that too.
Notice ==
  /\ run.pc = "failing"
  /\ \/ UNCHANGED notes
     \/ \E stamp \in {0, LastReviewed(run.known)}, n \in Targets, carried \in Carried :
          stamp = 0 /\ Note(n, [stamp |-> carried, listed |-> {}])
  /\ Becomes(Idle)
  /\ UNCHANGED <<setup, head, linear, threads, runs, covered>>

Crash ==
  /\ run.pc # "idle"
  /\ Becomes(Idle)
  /\ UNCHANGED <<setup, head, linear, threads, notes, runs, covered>>

Next ==
  \/ Push
  \/ Begin \/ Review \/ ReadThreads
  \/ \E f \in setup.findings : PostDiscussion(f) \/ PostFindingThread(f)
  \/ PostReview \/ Summary
  \/ \E i \in DOMAIN threads :
       Dismiss(i) \/ ResolveGitLab(i) \/ ResolveGitea(i) \/ ResolveAzure(i)
  \/ End \/ Fail \/ Notice \/ Crash

Spec == Init /\ [][Next]_vars

-------------------------------------------------------------------------------
(* Properties *)

OnHost(f) ==
  \/ \E i \in DOMAIN threads : threads[i].finding = f /\ threads[i].status # "fixed"
  \/ f \in notes[run.note].listed

\* A summary never stands for findings that are not on the pull request: from
\* the moment it is posted, each finding of its run has a thread that we have
\* not resolved or is in its text, though threads were refused, their answers
\* lost, earlier ones resolved, and the run's view of them old (post_review of
\* each gateway; "never a hidden finding").
SummaryIsBacked == run.pc = "resolving" => \A f \in run.found : OnHost(f)

\* No finding gets a second open thread: not from one run, whatever it retries,
\* and not from a run that knows who it is and could read the threads of earlier
\* ones; nor, on Gitea and Azure, is one posted again that a person had closed
\* when the run read it (unposted, _post_finding_thread: "a second attempt would
\* duplicate it").
NoSecondThread ==
  [][\A i \in DOMAIN threads' \ DOMAIN threads :
       /\ \A j \in DOMAIN threads' \ {i} :
            threads'[j].finding = threads'[i].finding /\ threads'[j].status = "open" =>
              /\ j \in 1..run.base
              /\ ~(run.known /\ run.read)
       /\ forge # "gitlab" /\ run.known /\ run.read =>
            \A j \in Seen : run.seen[j].finding = threads'[i].finding =>
                              run.seen[j].status # "dismissed"]_vars

\* No commit is skipped: a watermark at a head, set or carried, says that complete
\* reviews have seen every push the head is made of (post_review, compare_diff:
\* "rather than trusting a meaningless increment").
WatermarkCovers ==
  \A n \in DOMAIN notes : notes[n].stamp # 0 => Pushes(notes[n].stamp) \subseteq covered

\* What a summary stands for, in its text and in its watermark, is there.
SummariesAreTrue == SummaryIsBacked /\ WatermarkCovers

\* A thread we resolve is one whose finding the run, complete and posted, did not
\* report again, on a line that was gone in the head it reviewed, whatever was
\* pushed since the thread or the run's findings were read (_is_outdated).
FixedIsEarned ==
  [][\A i \in DOMAIN threads :
       threads[i].status # "fixed" /\ threads'[i].status = "fixed" =>
         /\ run.complete /\ run.note # 0
         /\ threads[i].finding \notin run.found
         /\ threads[i].lost \in (threads[i].posted + 1)..run.head
         /\ run.since # 0 => FileOf[threads[i].finding] \in run.scope]_vars

===============================================================================
