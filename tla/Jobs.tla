--------------------------------- MODULE Jobs ---------------------------------
(***************************************************************************)
(* The jobs that review one pull request (cli/commands.py, cli/__init__.py,*)
(* cli/slash.py, review.py, features/overview.py): one that the host's     *)
(* events start, a newer event cancelling an older one's job, and one that *)
(* a slash command starts beside it.  A job decides what it has to look    *)
(* at, reviews, discloses, gates the merge, posts, and draws the overview  *)
(* that may be part of completing a head; it can fail at each of these,    *)
(* and be signalled, twice, between any two.                               *)
(*                                                                         *)
(* A diff is the set of its parts: the one each push adds, and those a     *)
(* retarget uncovers.  Posting models what is here one step, Post.         *)
(***************************************************************************)
EXTENDS Naturals, FiniteSets

CONSTANTS Configs  \* the configurations considered

\* ci: the host's entry point; incremental: the setting; overview: auto_diagram;
\* gate: fail_on is set; bad: the parts with a finding that blocks.  heads,
\* retargets, reopens, commands: bounds, how many there are at most.
ConfigSpace ==
  [ci : {"actions", "gitlab", "azure"}, incremental : {"auto", "on", "off"}, overview : BOOLEAN,
   gate : BOOLEAN, bad : SUBSET Nat, heads : Nat \ {0}, retargets : Nat, reopens : Nat,
   commands : Nat]

ASSUME JobsAssumption == Configs \subseteq ConfigSpace

VARIABLES
  cfg,       \* the settings
  pr,        \* the pull request
  foreign,   \* somebody else's diagram is on it
  event,     \* the event whose job waits for the one before it
  jobs,      \* the job of the events and the one of the commands
  mark,      \* the newest summary's watermark and diff fingerprint
  overview,  \* the head the overview comment completes
  checks,    \* the conclusion of the check run of each head
  ledger     \* history: what was reviewed, vouched for, and completed

vars == <<cfg, pr, foreign, event, jobs, mark, overview, checks, ledger>>

None == "none"
Slots == {"event", "command"}
Pushed == 1..cfg.heads
Parts == 1..(cfg.heads + cfg.retargets)
Uncovered(k) == cfg.heads + k
\* No head yet.
Nowhere == [head |-> 0, diff |-> {}]

Idle ==
  [kind |-> None, at |-> "idle", incremental |-> FALSE, overview |-> FALSE, ctx |-> Nowhere,
   since |-> 0, complete |-> FALSE, found |-> {}, said |-> FALSE, refused |-> FALSE, why |-> None]

\* line: the oldest head the present one is built on.
Init ==
  /\ cfg \in Configs
  /\ pr = [head |-> 1, line |-> 1, diff |-> {1}, retargets |-> 0, reopens |-> 0, commands |-> 0]
  /\ foreign \in BOOLEAN
  /\ event = "opened"
  /\ jobs = [s \in Slots |-> Idle]
  /\ mark = Nowhere
  /\ overview = 0
  /\ checks = [h \in Pushed |-> None]
  /\ ledger = [seen |-> {}, vouched |-> {}, reviewed |-> {}, drawn |-> {}, owed |-> FALSE,
               flawed |-> {}]

Waiting == event # None
Running(s) == jobs[s].at \notin {"idle", "ended"}

Ends(job, why) ==
  [Idle EXCEPT !.at = "ended", !.why = why, !.said = job.said, !.refused = job.refused,
               !.complete = job.complete, !.overview = why = "nothing" /\ job.overview,
               !.ctx = IF why = "nothing" THEN job.ctx ELSE Nowhere]

\* What the retargets so far have uncovered.
AllUncovered == {Uncovered(k) : k \in 1..pr.retargets}

\* The retargets are owed a review until the job of one ends well, or a review of
\* the whole diff does, that saw what all of them uncovered: a job that fails, is
\* cancelled, or looked before the newest of them leaves them owed.
Owing(s, why) ==
  LET own == jobs[s].kind = "retargeted" /\ why # "partial"
      whole == why = "posted" /\ jobs[s].since = 0
  IN  ledger.owed /\ ~((own \/ whole) /\ AllUncovered \subseteq jobs[s].ctx.diff)

\* What heads are said to be complete with, while no retarget is owed a review.
Vouching(s, why) ==
  ledger.vouched \cup IF Owing(s, why) THEN {} ELSE jobs[s].ctx.diff

-------------------------------------------------------------------------------
(* The pull request and its host *)

\* A new event takes the place of one that waits for the job under way to end.
Deliver(kind) ==
  event' = IF cfg.ci # "actions" /\ kind \in {"reopened", "retargeted"} THEN event ELSE kind

\* A push may mend a part of the diff; a rewritten history chains to no head
\* before it.
Push ==
  /\ pr.head < cfg.heads
  /\ \E kept \in {pr.diff} \cup {pr.diff \ {p} : p \in cfg.bad}, rewritten \in BOOLEAN :
       pr' = [pr EXCEPT !.head = @ + 1, !.diff = kept \cup {pr.head + 1},
                        !.line = IF rewritten THEN pr.head + 1 ELSE @]
  /\ Deliver("synchronize")
  /\ UNCHANGED <<cfg, foreign, jobs, mark, overview, checks, ledger>>

\* A rebase that leaves the diff what it was.
Rebase ==
  /\ pr.head < cfg.heads
  /\ pr' = [pr EXCEPT !.head = @ + 1, !.line = pr.head + 1]
  /\ Deliver("synchronize")
  /\ UNCHANGED <<cfg, foreign, jobs, mark, overview, checks, ledger>>

Retarget ==
  /\ pr.retargets < cfg.retargets
  /\ pr' = [pr EXCEPT !.retargets = @ + 1, !.diff = @ \cup {Uncovered(pr.retargets + 1)}]
  /\ Deliver("retargeted")
  /\ ledger' = [ledger EXCEPT !.owed = TRUE]
  /\ UNCHANGED <<cfg, foreign, jobs, mark, overview, checks>>

Reopen ==
  /\ pr.reopens < cfg.reopens
  /\ pr' = [pr EXCEPT !.reopens = @ + 1]
  /\ Deliver("reopened")
  /\ UNCHANGED <<cfg, foreign, jobs, mark, overview, checks, ledger>>

\* graceful_interrupt: a first signal, from a newer event, the job's time limit or
\* a person, asks the engine to wind down, which leaves the review incomplete; it
\* gives the next its ordinary meaning, so that a job can end between any two steps.
Kill(s) ==
  /\ Running(s)
  /\ jobs' = [jobs EXCEPT ![s] = Ends(@, "killed")]
  /\ UNCHANGED <<cfg, pr, foreign, event, mark, overview, checks, ledger>>

-------------------------------------------------------------------------------
(* A job's start *)

\* resolve_auto_incremental.
AutoIncremental(kind) ==
  IF cfg.incremental = "auto" THEN kind = "synchronize" ELSE cfg.incremental = "on"

\* resolve_ci_incremental: every pipeline looks alike.
CiIncremental == cfg.incremental # "off"

\* Mutant: a retarget may be incremental too.
EventIncrementalOfAny(kind) == AutoIncremental(kind)

\* Not a retarget: the head is the same, the diff is not.
EventIncremental(kind) == kind # "retargeted" /\ AutoIncremental(kind)

\* should_auto_diagram.
AutoOverview(kind) ==
  cfg.overview /\ kind \in {"opened", "reopened", "synchronize", "retargeted"}

\* execute_review: an overview wanted of the run has its context fetched ahead.
Begun(kind, incremental, drawn) ==
  [Idle EXCEPT !.kind = kind, !.incremental = incremental, !.overview = drawn,
               !.at = IF drawn THEN "prefetch" ELSE "fetch"]

Action(kind) == Begun(kind, EventIncremental(kind), AutoOverview(kind))
GitLabPipeline(kind) == Begun(kind, CiIncremental, FALSE)
AzurePipeline(kind) == Begun(kind, cfg.incremental = "on", FALSE)

EventJob(kind) ==
  CASE cfg.ci = "actions" -> Action(kind)
    [] cfg.ci = "gitlab" -> GitLabPipeline(kind)
    [] OTHER -> AzurePipeline(kind)

BeginEvent ==
  /\ Waiting
  /\ ~Running("event")
  /\ jobs' = [jobs EXCEPT !["event"] = EventJob(event)]
  /\ event' = None
  /\ UNCHANGED <<cfg, pr, foreign, mark, overview, checks, ledger>>

Commands == {"review", "full", "describe", "diagram", "ask"}

\* Only a comment just created, by someone who can push, is obeyed; neither an
\* overview nor a provider is handed to a review it asks for.
Obeyed(kind) ==
  IF kind \in {"review", "full"}
    THEN Begun(kind, kind = "review" /\ cfg.incremental = "on", FALSE)
    ELSE [Begun(kind, FALSE, FALSE) EXCEPT !.at = "aside"]

BeginCommand ==
  /\ cfg.ci = "actions"
  /\ pr.commands < cfg.commands
  /\ ~Running("command")
  /\ pr' = [pr EXCEPT !.commands = @ + 1]
  /\ \E kind \in Commands, created \in BOOLEAN, writer \in BOOLEAN :
       jobs' = [jobs EXCEPT !["command"] =
                  IF created /\ writer THEN Obeyed(kind)
                                       ELSE Ends([Idle EXCEPT !.kind = kind], "ignored")]
  /\ UNCHANGED <<cfg, foreign, event, mark, overview, checks, ledger>>

-------------------------------------------------------------------------------
(* A review, run_review *)

Becomes(s, job) == jobs' = [jobs EXCEPT ![s] = job]
Snapshot == [head |-> pr.head, line |-> pr.line, diff |-> pr.diff]

\* The host may refuse the diff for its size: no retry changes that.
Fetched(s, otherwise) ==
  \E answer \in {"diff", "unavailable", "error"} :
    Becomes(s, CASE answer = "diff" -> [jobs[s] EXCEPT !.ctx = Snapshot, !.at = "scope"]
                 [] answer = "unavailable" -> [jobs[s] EXCEPT !.at = "skip"]
                 [] OTHER -> [jobs[s] EXCEPT !.at = otherwise])

Prefetch(s) ==
  /\ jobs[s].at = "prefetch"
  /\ Fetched(s, "fetch")
  /\ UNCHANGED <<cfg, pr, foreign, event, mark, overview, checks, ledger>>

Fetch(s) ==
  /\ jobs[s].at = "fetch"
  /\ Fetched(s, "fail")
  /\ UNCHANGED <<cfg, pr, foreign, event, mark, overview, checks, ledger>>

\* last_completed_sha: with an overview due, the head the overview was posted
\* for.  A read that fails finds none.
LastCompleted(drawn, readable) ==
  IF ~readable \/ mark = Nowhere THEN 0 ELSE IF drawn THEN overview ELSE mark.head

\* existing_overview_note: a listing that fails finds none.
Noted == {foreign, FALSE}

\* Mutant: the newest fingerprint will do, whichever head it is of.
SameDiffOfAny(ctx, last) == cfg.ci = "actions" /\ mark.diff = ctx.diff

\* _diff_unchanged_since: the fingerprint must be the completed head's own.
SameDiff(ctx, last) ==
  cfg.ci = "actions" /\ mark.head = last /\ mark.diff = ctx.diff

\* SupportsIncremental: Azure DevOps keeps no watermark.
Resumes == cfg.ci # "azure"

\* compare_diff: only from a head the present one is built on.
Increment(ctx, last) ==
  IF ctx.line <= last THEN {p \in ctx.diff \cap Pushed : last < p /\ p <= ctx.head} ELSE {}

\* _incremental_context: what is left to look at.
Scope(s) ==
  /\ jobs[s].at = "scope"
  /\ \E noted \in Noted, readable \in BOOLEAN, comparable \in BOOLEAN :
       LET job == jobs[s]
           ctx == job.ctx
           drawn == job.overview /\ ~noted
           last == IF job.incremental /\ Resumes THEN LastCompleted(drawn, readable) ELSE 0
           nothing == last # 0 /\ (last = ctx.head \/ SameDiff(ctx, last))
           ahead == last # 0 /\ comparable /\ Increment(ctx, last) # {}
       IN  /\ Becomes(s, IF nothing THEN Ends([job EXCEPT !.overview = drawn], "nothing")
                         ELSE [job EXCEPT !.overview = drawn, !.at = "review",
                                          !.since = IF ahead THEN last ELSE 0])
           /\ ledger' = IF nothing
                          THEN [ledger EXCEPT !.owed = Owing(s, "nothing"),
                                              !.vouched = Vouching(s, "nothing")]
                          ELSE ledger
  /\ UNCHANGED <<cfg, pr, foreign, event, mark, overview, checks>>

Looked(job) ==
  IF job.since = 0 THEN job.ctx.diff ELSE Increment(job.ctx, job.since)

\* engine.review: the parts found wanting, in full or in part, or no answer.
Review(s) ==
  /\ jobs[s].at = "review"
  /\ \/ \E found \in SUBSET (Looked(jobs[s]) \cap cfg.bad), complete \in BOOLEAN :
          /\ complete => found = Looked(jobs[s]) \cap cfg.bad
          /\ Becomes(s, [jobs[s] EXCEPT !.found = found, !.complete = complete, !.at = "disclose"])
     \/ Becomes(s, [jobs[s] EXCEPT !.at = "fail"])
  /\ UNCHANGED <<cfg, pr, foreign, event, mark, overview, checks, ledger>>

\* An incomplete review is told in a comment of its own, before it is posted.
Disclose(s) ==
  /\ jobs[s].at = "disclose"
  /\ \/ Becomes(s, [jobs[s] EXCEPT !.at = "gate", !.said = ~jobs[s].complete])
     \/ /\ ~jobs[s].complete
        /\ Becomes(s, [jobs[s] EXCEPT !.at = "fail"])
  /\ UNCHANGED <<cfg, pr, foreign, event, mark, overview, checks, ledger>>

\* fail_on_check, of what this run found.
Conclusion(job) == IF job.found = {} THEN "success" ELSE "failure"

Gate(s) ==
  /\ jobs[s].at = "gate"
  /\ \/ /\ Becomes(s, [jobs[s] EXCEPT !.at = "post"])
        /\ checks' = IF cfg.gate THEN [checks EXCEPT ![jobs[s].ctx.head] = Conclusion(jobs[s])]
                                 ELSE checks
     \/ /\ cfg.gate
        /\ Becomes(s, [jobs[s] EXCEPT !.at = "fail"])
        /\ UNCHANGED checks
  /\ UNCHANGED <<cfg, pr, foreign, event, mark, overview, ledger>>

\* post_review: a complete review moves the watermark and its fingerprint.
Posted(s) ==
  LET job == jobs[s]
      full == job.since = 0
      owed == Owing(s, IF job.complete THEN "posted" ELSE "partial")
      done == [head |-> job.ctx.head, diff |-> job.ctx.diff]
  IN  IF job.complete
        THEN /\ mark' = done
             /\ ledger' = [ledger EXCEPT !.seen = @ \cup Looked(job), !.reviewed = @ \cup {done},
                                         !.owed = owed, !.flawed = @ \cup job.found,
                                         !.vouched = Vouching(s, "posted")]
        ELSE ledger' = [ledger EXCEPT !.flawed = @ \cup job.found] /\ UNCHANGED mark

AfterPost(job) ==
  IF job.overview /\ job.complete THEN [job EXCEPT !.at = "overview"] ELSE Ends(job, "posted")

Post(s) ==
  /\ jobs[s].at = "post"
  /\ \/ Posted(s) /\ Becomes(s, AfterPost(jobs[s]))
     \/ Becomes(s, [jobs[s] EXCEPT !.at = "fail"]) /\ UNCHANGED <<mark, ledger>>
  /\ UNCHANGED <<cfg, pr, foreign, event, overview, checks>>

\* structured_call: an answer that cannot be read is no answer, a call that fails
\* is raised.
Answers == {"answer", "unreadable", "error"}
Propagates(answer) == answer = "error"

\* build_overview: three calls at once.  A description or an impact section that
\* failed is left out; a diagram is not.
Built(diagram, description, impact) == ~Propagates(diagram)

\* run_diagram: the overview that completes the head.
Overview(s) ==
  /\ jobs[s].at = "overview"
  /\ \/ /\ \E diagram, description, impact \in Answers : Built(diagram, description, impact)
        /\ overview' = jobs[s].ctx.head
        /\ ledger' = [ledger EXCEPT !.drawn = @ \cup {jobs[s].ctx.head}]
        /\ Becomes(s, Ends(jobs[s], "posted"))
     \/ Becomes(s, [jobs[s] EXCEPT !.at = "fail"]) /\ UNCHANGED <<overview, ledger>>
  /\ UNCHANGED <<cfg, pr, foreign, event, mark, checks>>

-------------------------------------------------------------------------------
(* Other commands, and the ends *)

\* The overview a command asks for completes no head, and keeps the one it finds.
CommandCompletes == overview

\* describe, diagram, ask: a call and a comment.
Aside(s) ==
  /\ jobs[s].at = "aside"
  /\ \/ /\ Becomes(s, [Ends(jobs[s], "answered") EXCEPT !.said = TRUE])
        /\ overview' = IF jobs[s].kind = "diagram" THEN CommandCompletes ELSE overview
     \/ /\ \E at \in {"skip", "fail"} : Becomes(s, [jobs[s] EXCEPT !.at = at])
        /\ UNCHANGED overview
  /\ UNCHANGED <<cfg, pr, foreign, event, mark, checks, ledger>>

\* _post_notice: the summary, where no head is complete, and whatever came of
\* that a comment of its own.
Told(body, comment) == comment

Tell(s, at, why) ==
  /\ jobs[s].at = at
  /\ \E body \in BOOLEAN, comment \in BOOLEAN :
       LET job == jobs[s]
       IN  Becomes(s, [Ends(job, why) EXCEPT
                         !.said = @ \/ Told(mark = Nowhere => body, comment),
                         !.refused = ~comment])
  /\ UNCHANGED <<cfg, pr, foreign, event, mark, overview, checks, ledger>>

\* _post_skipped: exit zero, for no retry would see the diff.
Skip(s) == Tell(s, "skip", "skipped")

\* _post_failure: a red job.
Fail(s) == Tell(s, "fail", "failed")

Steps(s) ==
  \/ Prefetch(s) \/ Fetch(s) \/ Scope(s) \/ Review(s) \/ Disclose(s) \/ Gate(s) \/ Post(s)
  \/ Overview(s) \/ Aside(s) \/ Skip(s) \/ Fail(s)

Next ==
  \/ Push \/ Rebase \/ Retarget \/ Reopen \/ BeginEvent \/ BeginCommand
  \/ \E s \in Slots : Kill(s) \/ Steps(s)

Spec == Init /\ [][Next]_vars

-------------------------------------------------------------------------------
(* Properties *)

\* What a head is vouched for complete with, by a watermark or by the answer that
\* there is nothing to review, complete reviews have looked at, whatever was
\* pushed, rebased or moved in between and whichever jobs failed; except after a
\* retarget whose own job did not end well (review.py, _incremental_context).
CompleteIsWhole == ledger.vouched \subseteq ledger.seen

\* A job that says there is nothing to review speaks of a head, or of a diff, that
\* a complete review was posted for, and where an overview is due, one of that
\* review's head, whichever jobs were stopped between the two.
NothingIsDone ==
  \A s \in Slots :
    jobs[s].why = "nothing" =>
      \E done \in ledger.reviewed :
        /\ done.head = jobs[s].ctx.head \/ done.diff = jobs[s].ctx.diff
        /\ jobs[s].overview => done.head \in ledger.drawn

\* No job ends in silence: an incomplete review is never on the pull request
\* before the comment that says so, and a job that failed or was refused the diff
\* has said so unless the host refused that comment too.
NoSilentEnd ==
  \A s \in Slots :
    LET job == jobs[s]
    IN  /\ (job.why = "posted" /\ ~job.complete) => job.said
        /\ job.why \in {"failed", "skipped"} => job.said \/ job.refused

\* However a job ends, what it says of itself is so, and it says it.
EndsAreTold == NothingIsDone /\ NoSilentEnd

\* "It cannot merge until the finding is resolved": the head whose check run
\* succeeded has no blocking finding left in its diff.
GateHolds == checks[pr.head] = "success" => ledger.flawed \cap pr.diff = {}
===============================================================================
