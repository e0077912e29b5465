# A formal model of lgtmaybe

lgtmaybe reviews a pull request with language models: it cuts the diff into
batches, runs a set of review lenses over each batch through one thread pool,
recovers the calls that fail, filters and merges what was found, and posts a
summary with inline comments on the forge. Nothing is stored but what is on the
forge: the next run reads the hidden markers of its predecessor's posts to know
what has been reviewed and reported.

These modules model the program from the job that starts it to the thread it
resolves: how a run is started and with whose credentials, which files reach a
model and which are disclosed, the fan-out over threads and the recovery of a
single call, the adapter the calls share, what happens to the findings, on which
line they are posted, and the life of a pull request over several runs that may
be stopped at any write, on four forges. TLC checks small instances of each;
TLAPS proves every safety property of the passing runs for every value of the
constants.

`PROJECT.json` holds the table that ties every definition to source lines, the
runs, the hazards, the disagreements found and the theorems.

## Inventory

All paths are under `src/src/lgtmaybe/` unless they start with `src/`.

| Component | State it keeps | Operations | Hard behaviour | What makes it correct | Module |
|---|---|---|---|---|---|
| **Review fan-out** `engine/engine.py`, `engine/run.py` | the pool's queue, deferred followers per batch, one outcome per call, tokens spent, interrupt flag, deadline | arm, submit, collect a primer, release its batch, drain, rescue, merge, verdict | two pools, cache-warming primers, ceilings read by every thread, signals | no call stranded, each call tried once or twice, the budget overshot by a round at most, fail loud exactly when there is no signal | `FanOut` |
| **Recovery of one call** `engine/recovery.py`, `engine/repair.py` | the chain of reissues a call is inside of, notices, the pieces of a split | split, step the effort down, turn thinking off, escalate, repair, re-ask without the schema, rescue | remedies that reissue the call and so call one another; pieces in parallel, each with its own retry | bounded, at most one of split and step-down, effort only goes down, fallback last, no failed piece hidden | `Ladder`, `Effort` |
| **Provider adapter** `providers/litellm_provider.py` | schema mode and refused params per model, shared by all threads without a lock | complete, attempt, re-send, fallback turn, demote | read-then-write over requests that take minutes | requests bounded, a loss is final and disclosed, the floor reached on evidence only | `ProviderCall` |
| **Stages before the fan-out** `engine/stages.py`, `triage.py`, `compress.py`, `static_analysis.py`, `lenses.py`, `notices.py` | lists of files, hints and notices | filter, scan, triage, cap, expand, batch, carry hints | many ways for a file or a hint to leave the review | every changed line is judged or its loss is said | `FilePipeline` |
| **Stages after the fan-out** `engine/engine.py` (from `_collect_findings`), `conflicts.py`, `suppress.py`, `rules.py` | the list of findings | snap, scope, suppress, gate, arbitrate, merge, reflect, floors | order of the stages, what one drops that another must see | a high security finding is never suppressed, opposed advice is never posted twice over | `FindingPipeline` |
| **Mid-review retrieval** `engine/reflect.py`, `retrieve.py`, `astgrep.py`, `github/checkout.py` | the audit's open findings, what was fetched, one base tree | audit, defer, fetch in waves, resolve symbols, audit again | answers out of order under two caps and a budget | the same files as a walk one by one, each recheck informed | `Retrieval` |
| **Core types, diffs** `core/` | none | parse hunks, pad, cut, number, anchor, place | line numbers computed six times over | a line keeps its number from the host's header to the comment | `DiffGeometry` |
| **Review run** `review.py` | none of its own: head, watermark, diff digest | full, incremental or nothing to do; validate; disclose; gate; submit; complete | a push during the run, a partial run, being stopped | no commit skipped; completion only when posted | `Jobs`, `Posting` |
| **GitHub posting** `github/rest_gateway.py`, `core/comment.py` | on the host: reviews with watermarks, inline comments with finding ids, threads | find the summary, post fresh, rewrite in place, comment by comment, retire and resolve | any write refused, applied with the answer lost, or the last one before the process is stopped | nothing dropped, nothing posted twice, no resolved thread with live ids | `Posting` |
| **Other forges** `gitlab/`, `gitea/`, `azure_devops/` | notes and threads on the host | as GitHub posting, findings first and the summary after | what each host tells, when, and what it leaves out | as GitHub posting | `ForgePosting` |
| **Command line, slash commands** `cli/` | options, the failure of a run | execute a review, post a notice on failure, route events and commands | two jobs on one pull request, two signals | no job ends in silence; a failure never destroys a completed summary | `Jobs`, `Startup` |
| **Overview and follow-ups** `features/` | comments on the host | diagram, describe, validate | the diagram is part of completion | completion records agree | `Jobs` |
| **Provider configuration** `providers/credentials.py`, `federation.py` | the process's environment, ID token files | exchange the job's ID token, apply, resolve a credential, clean up | several clouds, each exchange may fail | all or nothing, no token file left | `Startup`, `Settings` |
| **Configuration** `config/`, `config init`, `config set` | the person's settings file | load and layer, ask, verify, write | two terminals writing one file | what is written answered together | `Settings` |
| **GitHub App identity broker** `src/services/github_app_identity/`, `src/scripts/github-app-identity.py`, `src/action.yml` | minted tokens | exchange, verify, hand out, revoke | a lost answer or a change of the repository after a token was minted | no unverified token handed out, none left live | `AppIdentity` |
| **Local review** `local/`, `cli/mcp_server.py` | a lock and an interrupt flag | build a context of git commands, review, answer | the worktree changes meanwhile, the client leaves | the diff is the whole change, nobody's review is not paid for | `LocalReview` |
| **Prompts and parsing** `engine/prompt.py`, `parse.py`, `redact.py`, ... | none | text to text | wording | not a matter of state | - |
| **Evals, infrastructure, docs tooling** `src/evals`, `src/infra`, `src/scripts`, `src/docs` | - | - | - | not part of the reviewing program | - |

How they interact. An entry point (`action`, `gitlab-ci`, `azure-pipelines`, the
commands, the MCP server) resolves settings and credentials and calls
`review.run_review`, which asks the gateway for the watermark and the diff, calls
`engine.review`, and hands the findings to `gateway.post_review`. Inside
`engine.review` the stages before the fan-out decide what is asked; the main
thread arms and submits calls, worker threads run one `_review_lens` each, and
each of those walks the recovery ladder, reissuing itself through callbacks
(`_Reissue`). All threads share one adapter, one `_RunState` (tokens, notices) and
the process-wide interrupt event. Two jobs, one for the push event and one for a
command, may run on the same pull request and meet only on the host. On GitHub a
composite action obtains the job's App token from the broker before the container
runs, and revokes it after.

## Modules

| Module | Models | Role |
|---|---|---|
| `LensCall` | what the fan-out promises of one call | abstract specification |
| `FanOut` | pool, primers, ceilings, rescue wave, verdict | implements `LensCall` for every call |
| `Effort` | the reasoning efforts a retry asks for | functions, used by `Ladder` |
| `Ladder` | one call, from first request to outcome, rescue included | implements `LensCall` |
| `ProviderCall` | the adapter under concurrent calls | component |
| `FilePipeline` | the files from the diff to the batches, and the summary's account of them | component |
| `FindingPipeline` | `_collect_findings`: from the merged outcomes to the list that is posted | component |
| `Retrieval` | the audit of the findings and the files it fetches | component |
| `DiffGeometry` | line numbers from the served hunk to the comment | pure algorithms, checked against the edit script |
| `Posting` | the runs over one pull request on GitHub and what they leave there | composes `review.py`, the gateway and the CLI's failure path |
| `ForgePosting` | the same on GitLab, Gitea and Azure DevOps | one module, the three gateways as variants |
| `Jobs` | the jobs of one pull request and what each decides to do | `Posting`'s work is its step `Post` |
| `Settings` | layers of settings, the person's file, credentials | extended by the three below |
| `Startup` | one run of the image in a job | extends `Settings` |
| `AppIdentity` | the composite action, the broker, GitHub's tokens | extends `Startup`, whose container it runs and stops |
| `LocalReview` | the MCP server over a worktree | extends `Settings` |
| `Entrypoints` | every way the program is started | composes `AppIdentity` and `LocalReview` |
| `ThreadProofs`, `LadderProofs`, `PipelineProofs`, `DiffGeometryProofs`, `PostingProofs`, `ForgePostingProofs`, `JobsProofs`, `EntrypointsProofs` | - | theorems |
| `MCFanOut`, `MCLadder`, `MCProviderCall`, `MCReviewStages`, `MCRetrieval`, `MCDiffGeometry`, `MCPosting`, `MCForgePosting`, `MCJobs`, `MCEntrypoints` | - | instances for TLC |

Definitions keep the source's names where they have one (`Retrying`, `Collect`,
`OvershootBounded` is about `_MeteredProvider`, `Unposted` is `unposted`, and so
on). An operator marked `Mutant:` is a plausible error in the definition that
follows it; nothing but the mutation of a run uses it.

### LensCall

A call waits, runs, returns, and may be rerun once if and only if its failure
was on the provider. `FanOut` implements it with `StageOf`/`ErrorOf` for each
call; `Ladder` implements it with `Class(error)` for its one call (`CallContract`
in both, checked and proved). The two detailed modules therefore agree on the interface between them: what `FanOut` abstracts
to "a task that makes up to `MaxRequests` requests" is what `Ladder` spells out.

### FanOut

`status`, `wave` and `submissions` are the queue of the `ThreadPoolExecutor`
and the `deferred` dictionary of `_fan_out`; `task` and `open` are the threads
and their requests in flight; `spent`, `interrupted` and `overdue` are what
`_skip_reason` reads; `results`, `rescued` and `merged` are the three lists of
outcomes. `Start`, `SkipCall`, `Request`, `Answer` and `Finish` are a worker's
steps, `Collect`, `Drain`, `Merge` and `Conclude` the main thread's. Reading a
ceiling and sending the request are one step: the code makes them back to back,
and `_charge` holds a lock; what the model keeps is that the tokens are charged
only when the request returns.

### Effort and Ladder

A unit is the whole batch or a piece of it. Its `stack` holds the rungs it is
inside of, innermost first, exactly as the nested calls of `recovery.py` do; a
reply (`Reply`) is parsed, fetched for, repaired, re-asked or handed to the
rungs (`Remedy`, `RemedyReturns`). `levers` is what the run can do at all, and
`adapter` the model it asks: whether an effort can be stepped down to, and which,
is computed by `Effort` (`LowerEffort`, `DisableReasoning`) from what is
configured, what the model reasons at by itself and the levels it declares.

### ProviderCall

`mode` and `refused` are `_schema_modes` and `_rejected_params`; `carries`,
`params`, `attempts`, `requests`, `resent` and `seen` are the locals of
`_complete_with_retry`. `Honour`, `Mark` and `Apply` are separate steps since
each reads or writes the shared dictionaries. `Reask` and `Demote` are the
engine's (`_retry_without_schema`, `_unparseable`), since only the engine can
tell that a reply does not parse.

### FilePipeline

`patches` is `file_patches` as it passes from stage to stage; `oversized`,
`skipped` and `capped` say what a stage took out, `hits` what the tools reported.
Each stage is an action, in the order of `_prepare_review`: `FilterFiles` (or
`FailLoud` where no lens is left), `ScanFiles`, `Triage`, `CapFiles`,
`ExpandContext`, `BatchFiles`, `CarryHints`, `CallLenses`, then the verdict
(`RaiseIncomplete`, or `BuildNotices` and `ComposeSummary`). A hunk is the
sequence of its lines' token counts, so that a batch has a size and a hunk too
large for its budget is cut between two of its lines. A file with no hunk (a pure
rename) is one unit without lines: it is in a batch like any other. The tools, the triage model
and the calls answer as they like.

### FindingPipeline

A finding is what the stages tell apart: its category, severity, location, the
changed lines its quoted line matches, title, whether it says how the code
fails, the length of its text. `fate` is the list and its history in one: the
list is `Live`, and what a stage took out says which stage it was. Each stage is
one action, in the order `_collect_findings` calls them; `Audit` may go round
`MaxHops` times. The list's order matters to the merge and the cap only, where
it is the order of the ids: model findings, then scans, as `_snap_to_diff`
leaves them. A finding's `place` stands for its path, one of each kind.

### Retrieval

What `FindingPipeline` takes as an auditor's answer, from the inside. `Ask`
builds a prompt under `MaxInput` (patches first, then head texts, the flagged
files before the fetched), `Judge` keeps, drops or defers each finding,
`NextHop` and `Recheck` take the deferred ones round. A resolution is
`resolve_needs`: `frames` is its recursion from a symbol's candidates back to the
paths, `StartWave` sends fetches ahead, `Arrive` is an answer in any order, and
`TakeNext` accepts in the order of the walk. `Walk` is that walk done one by one,
on top of what was already taken: the reference definition the waves are checked
against. `fixed` is what the prompt's fixed parts cost (instructions, findings,
question); they alone may exceed
the budget, and then the prompt is nothing else. `prompt.tokens` is the size of the
prompt as it is sent: `Ground` charges the budget with a head text as the code does,
and `Framing` is what the block of texts holds besides them, which the code charges
to nothing: the sentence that leads it (`LeadCost`), a heading and a blank line for
each text (`HeadingCost`). The cost of a text put together is taken as the sum of its
parts', and neutralising a text as keeping its size.

### DiffGeometry

`script` is the truth: which lines of one file are kept, deleted and added. What
the host serves (`ServedDiff`), what padding makes of it (`ExpandHunks`), what a
cut makes of that (`CutHunk`), what a model reports and how its quote corrects
it (`SnapOne`), and where the comment goes (`Position`, `HunkForLine`) are the
functions of `core/` and `compress.py`, each over the numbers of the one before.
A line carries its place in the script along, unseen by the code, so that a number
can be held against the truth at every stage.

### Posting

`reviews` and `comments` are the host's, `run[r]` the process of one job, lost
by `Crash`. A run goes `reviewing` -> `posting` -> `commenting` or `isolating`
-> `resolving`; a failure goes to `failing`, where `Notice` is the CLI's
`_post_notice`. A write that may be applied with its answer lost has a disjunct
for it. `covered` and a review's `owed` are history: the pushes complete
reviews have seen, and the findings behind a watermark.

### ForgePosting

The three gateways post findings first and the summary after. They share one
state (`threads`, `notes`, `run`) and differ in the variants: what is read when
(`BeginGitLab` keeps the discussions of the context, Gitea and Azure read the
threads as they post, `ReadThreads`), what suppresses a finding (`KeysGitLab`,
`KeysGitea`, `KeysAzure`), what a request carries (`PostDiscussion`,
`PostFindingThread` one finding, `PostReview` all), which note is rewritten
(`NoteGitLab`, ...) and which threads are resolved (`FixedGitLab`, ...). A page of
threads, a side of a file and the token's identity may fail to be read; a request
may be applied with its answer lost; people `Push` and `Dismiss` threads meanwhile.

### Jobs

`event` is the event whose job waits for the one under way, `jobs` the job of the
events and the one a command started beside it. `mark` (the newest summary's
watermark and diff fingerprint), `overview` (the head the overview comment
completes) and `checks` are on the host. A job goes `Prefetch` -> `Fetch` ->
`Scope` (full, incremental, or nothing to do) -> `Review` -> `Disclose` -> `Gate`
-> `Post` -> `Overview`, and may be killed between any two, be signalled so that
its review is partial, or fail and `Tell`. A diff is the set of its parts: one per
push, and one for what a retarget uncovers. `ledger` is history.

### Settings, Startup, AppIdentity, LocalReview, Entrypoints

One state over five modules, since they share `setup` and the settings.
`Settings` layers the person's file, the repository's and the inputs
(`LoadedConfig`), resolves a credential (`ResolvedCredentials`), and has the two
commands that write the file as load and save of two terminals. `Startup` is the
container: `StartBox`, `Route`, one `FetchIdToken` per cloud, `ApplyUpdates`,
`LoadConfig`, `RouteEvent`, `BuildContext`, `EndReview`, `Deliver`, `LeaveBox`.
`AppIdentity` puts GitHub's composite action around it: `job.step` is the step of
`action.yml` under way, `broker` the Lambda's exchange, `github.live` the tokens
that exist, `lost` those that no one who could revoke them has. `LocalReview` is
the MCP server: one lock, one interrupt, and a context built by one git command
after another over a `tree` (the base, the last commit, the worktree, and
the index: which files git tracks) that `Edit`, `Stage` and `Commit` change meanwhile.
Any git command may fail: where nothing stands in for it the call ends in an error
(`GitFails`), while an untracked file's patch (`PatchUntracked`) or a file's text
(`ReadText`) is left out without a word. The code keeps no note of those; the histories
`skipped`, `unreadable` and `moved` (files touched while the context was built) are
there for the property to say what is then missing. The client goes in two steps, as
its connection ends before the interrupt is requested (`ClientLeaves`,
`RequestInterrupt`), and a model call in two as well: a worker looks at the flag
(`CheckCall`) and then makes the request, with whatever retries it takes (`ModelCall`).
`ready` is how many are between the two, `late` how many went out after the interrupt.
`Entrypoints` is the disjunction, by where the program runs.

## What the runs show

Each property is the conjunction its comment names, of parts that are one promise.

- `FanOut_review`: two batches of two lenses, the first warmed, two threads in
  either pool, every outcome, interrupt, deadline and budget. Every call gets an
  outcome whatever the primer comes to and no follower precedes its primer
  (`ScheduleIsSound`); the rescue wave re-runs exactly the calls that failed on
  the provider, the merge hides nothing, the verdict is decided by signal
  (`VerdictIsHonest`); the budget is overshot by less than one round
  (`OvershootBounded`); each call keeps `LensCall` (`CallContract`); the review
  ends (`ReviewEnds`).
- `Ladder_call`: one call, every reply at every rung, two pieces in parallel, a
  ceiling at any moment, the schema dropped by another lens, five adapters. No
  failed piece is hidden and no batch is both cut and thought about less
  (`AnswersAreWhole`); retries think less each time (`EffortGoesDown`); nothing
  is asked past a ceiling or after the fallback, and only the pieces that
  faltered are asked again (`RungDiscipline`); `LensCall` is kept; it ends.
- `Provider_calls`: two calls over one adapter, one at a time on each kind of
  route, and side by side with and without a fallback. A turn's requests are
  bounded (`RequestsBounded`), a loss is disclosed and has evidence
  (`LossIsJust`), is never regained in its turn (`NeverReEnforced`), and is learnt
  by the next call (`TurnsLearn`); calls end (`CallsEnd`).
- `Review_stages`: the stages on either side of the calls, in one run since they share
  no state. Before: two and three files of ten sorts, four configurations. A thumbs-up
  and the hidden marker of completed lenses are given for no less than they say
  (`ApprovalIsEarned`); triage and the cap respect the security floor
  (`FloorComesFirst`); batching loses, repeats and reorders nothing (`BatchesHoldAll`).
  After: up to three findings of sixteen kinds, four configurations, the auditor
  dropping, deferring and failing as it likes. A merge costs no location its finding
  (`MergeCostsNothing`), a scanner's hit is lost to no model (`ScanLostToNoModel`), a
  severe security finding is heard of whatever pragmas and downvotes say
  (`SeriousIsHeard`), no cut is posted beside a fix (`CutYieldsToFix`).
- `Retrieval_audit`: three findings on two files, three sizes of text, three sets
  of definitions, fixed parts below and above the budget, answers in every order. The waves fetch what the walk would, a
  recheck is given something new, a prompt exceeds its budget by no more than the
  framing of the texts it shows (`RecheckIsSound`); the
  audit ends with each finding kept or dropped once (`AuditEnds`).
- `Geometry_lines`: every edit script of up to five lines, padded to three depths,
  cut twice, a finding on every line shown. Numbers hold and no line is doubled or
  lost (`LinesAreTrue`); a finding that counts right, or quotes its line, is posted
  on it, in a hunk that holds it (`CommentsLand`).
- `Posting_runs`: up to three heads and three runs, in turn or overlapping; each
  write refused, lost, or the last before the process is stopped. A watermark
  covers its head (`WatermarkCovers`); a fresh summary's comments land with it or
  before it, whatever runs beside it, and a thread's ids are retired before it is
  resolved (`WritesLandInOrder`); each finding of a run stands, once (`FindingsStandOnce`);
  a notice spares a completed summary (`NoticeSparesCompletion`).
- `Forge_runs`: the same questions of the other three: a summary's findings and its
  watermark are true (`SummariesAreTrue`), no finding gets a second thread
  (`NoSecondThread`), a thread is set to fixed on evidence (`FixedIsEarned`).
- `Jobs_review`: twelve configurations, up to three heads, two retargets, a
  reopening, a command's job. What is vouched for complete was looked at
  (`CompleteIsWhole`); "nothing to review" is true and no job ends in silence
  (`EndsAreTold`).
- `Startup_jobs`: every entry point. A review starts with all of its federation, the
  right settings, forge and token (`StartsWhole`); the App's token goes to a
  verified workflow only, and none is left live (`TokensAreSafe`); `config init`
  leaves what answered (`InitKeepsWhatAnswered`). A local review is of the change
  that was asked about, and for somebody (`LocalReviewIsSound`): for each file nobody
  touched meanwhile, what is told of it leads from one end of the comparison to the
  other, and comes with the text it leads to, except exactly where git failed on that
  file; and no more model calls go out after the interrupt than were under way.

Two runs find a stated property violated, findings in `PROJECT.json`:

- `Jobs_gate`: the check run is concluded from this run's findings alone, and an
  incremental run finds only what the new commits bring. After a blocking finding,
  a push that does not touch it turns the check to success, while
  `docs/how-to/use-as-github-action.md` has the pull request blocked "until the
  finding is resolved".
- `Retrieval_budget`: the instances of `Retrieval_audit`, asked whether a prompt whose
  fixed parts leave room is within the budget as it is sent (`AssembledPromptFits`).
  The comment at `reflect.py:46` says that the fixed parts are counted "so the
  assembled prompt fits it, not just its variable parts"; head texts that fill what is
  left carry headings and a lead over it (`reflect.py:536`, `545`).

### Bounds, and why they are enough

`FanOut`: two batches are needed for a primer's followers to queue behind another
batch's calls, two lenses for a batch to have a follower, two threads for the
warming to apply at all (`WarmAssumption`). `MaxRequests` bounds the requests of
a task; three are more than it has in flight at once, so that a request can
start after tokens were charged, and a task that did not ask would spend past
the bound. `Budget` 2 and `MaxTokens` 1 let the budget be met exactly and be
overshot. `Ladder`: two pieces are needed for one to fail beside one that
answers; the pool width 2 lets both be in flight. There is no depth bound: that
the stack stays bounded is what `CallEnds` and TLC's termination show. The five
adapters are one with each outcome of a step-down and an off; `LadderProofs` has
every adapter. `ProviderCall`: two calls for one to move the mode under the
other, two attempts for what an attempt loses to matter to the next, one refusable
param. `MaxAttempts` is 3 in the code; the theorems hold for any.

`FilePipeline`: two files pair every sort with every other; a cap of one or two
files, budgets that hold two, one or no hunk, and one hint a batch are met and
exceeded. `FindingPipeline`: three findings make a pair and a bystander, or a pair
and a scan; a cap of one and `Near` of one are met and exceeded; a floor above some
of them and a floor for guesses above that one decide differently. `Retrieval`:
three paths and a symbol whose candidates are among them, two files a hop and two
candidates: a wave is full, half full, and refilled through the symbol; two hops
make an audit, a recheck and a second one; a lead of 2 and a heading of 1 against a
budget of 16 are less than what is left in some prompts and more in others. `DiffGeometry`: five lines hold two
hunks one line apart, so that padding joins them, meets them or leaves them.

`Posting`: three heads allow a watermark, a head rebased over it and one on top;
three runs allow a partial or stopped run, its successor, and one that finds what
both left. `heads` and `runs` of `setup` are the bounds, in the guards of `Push`
and `Begin`; `ForgePosting` has the same, with two findings in two files, so that
one is in an increment and the other is not. `Jobs`: three heads are a reviewed
one, one pushed while a job runs, and one whose job finds what that left; one
reopening and one command meet each of them, and two retargets, so that the second
can fall into the first one's job. `Startup` and
`AppIdentity`: two clouds, for one to succeed before the other fails; two changes
of the repository, so that it can be renamed and back under the broker's two reads;
three tries, as in the code. `LocalReview`: one file the base has and one it does not,
either of them touched in every way (`Touched`: in a commit, in the worktree, in the
index, or in all), the other as it was, since no command's outcome for one file
depends on another; one edit, staging or commit at any point between two git commands;
two calls, for one to wait for the other's lock; three model calls over two workers, so
that one is left that must not go out.

### Fairness, and where the system may stop

`FanOut`: weak fairness of each thread's work and of the main thread; `Ladder`
and `ProviderCall`: weak fairness of each call's steps; `Retrieval`: of the audit
as a whole, whose waves all return. The operating system schedules runnable
threads, the executor hands queued work to idle ones, and every request returns or
raises within the wall timeout the adapter puts around it. Nothing is assumed of
signals, the clock, the models' answers or pushes. No liveness is claimed of
`Posting`, `ForgePosting` and `Jobs`, where a run may be stopped at any point and no
scheduler promises another: their runs set `CHECK_DEADLOCK FALSE`, since a pull
request with no further push or run stays as it is. So do the pipelines, whose
posted list is an end (`FilePipeline`, `FindingPipeline`, `DiffGeometry`,
`Retrieval`). `FanOut`, `Ladder`, `ProviderCall` and `Entrypoints` are checked for
deadlock: an end there is a step of its own (`Over`, `AllDone`, `Idling`), so that a
thread, a call or a job that nothing moves any more is found. A terminal may be left
alone at any time, and `Idling` lets it.

## What is proved

Eight modules of theorems, one for each component or for two that belong together,
from the named assumptions on the constants only, which TLC evaluates on every run.
They give the constants their types, and beyond that say: that a pool has a thread and
warming more than one (`FanOut`); that a cut makes at least two pieces (`Ladder`);
that a review reports and audits finitely many findings (`Posting`, `ForgePosting`,
`Retrieval`); that advice on documentation and over-engineering is below high severity
(`FindingPipeline`); that a patch costs something and a resolution may take a file
(`Retrieval`), as a line of context does and padding may (`DiffGeometry`); that what is
unset is no text (`Settings`); that the pipeline entry points federate with nobody,
since they have no inputs to ask with (`Startup`); and that `"nobody"` is no call, and
that a worktree has the base's files at its base (`LocalReview`).

Each component has an inductive invariant, from which its properties are drawn. None
of the properties is inductive alone; what each needed besides is what follows.

- `ThreadProofs`, the pool (`FanOut`): `IInv`, the conjunction of `TypeOK`,
  `ThreadTable` (a thread runs a call only while its pool is open, no call runs twice
  at once, only a thread with a task has requests open), `Deferral` (until a primer is
  collected its batch waits, and after it none does) and `Lists` (which outcomes exist
  in which phase). That no call is stranded, for instance, needs that a deferred
  call's primer is still to be collected. From `IInv` follow `ScheduleIsSound`
  (`Scheduled`) and `VerdictIsHonest` (`Honest`), each from the theorems of its parts;
  `OvershootBounded` is carried beside it, by counting the requests a pool's threads
  can have open; `CallContract`, the refinement of `LensCall`, is proved action by
  action.
- `LadderProofs`: `IInv` says which unit may be at work in which stage (`StageInv`),
  which rungs a batch that was cut or given to the fallback may still climb: its own,
  and after it none (`RemedyInv`), what an answer that stands covers (`CoverInv`),
  which pieces are left to the rescue, which has no others (`FlakyInv`), and that a
  unit is on a rung that thinks less only if there was less to ask for (`RungInv`).
  The nested calls of `recovery.py` make the stack; that it stays well formed is most
  of the work. `AnswersAreWhole` (`RecoveryIsHonest`), `EffortGoesDown`
  (`ThinksLess`), `RungDiscipline` (`RungsKeepDiscipline`) and the refinement of
  `LensCall` (`LadderKeepsContract`) follow, for any number of pieces.
  `RetriesThinkLess` is about every adapter, whatever levels it declares.
- `ThreadProofs`, the adapter (`ProviderCall`): `AdapterInv` is `AdapterTypeOK` and
  `Accounts`: each request of a turn is paid for by an attempt, the attempt's one
  re-send, a param the request no longer holds or a mechanism it no longer carries.
  `RequestsBounded` follows since each of those can be spent once. `NeverReEnforced`
  needs the types only, one case per action. `LossInv` follows what a call has lost
  from its first request to what it tells (`LossIsJust`); `AloneInv` is what holds of
  calls made one at a time: each model's mode is the evidence against it, and a
  request goes out over nothing its model failed under (`TurnsLearn`).
- `PostingProofs`, on two invariants. `CInv` is `TypeOK` and `Coverage`: a watermark
  is put there by a run that carries it in its memory, and whose increment began at an
  earlier watermark, so `Coverage` says it of everything that may become one: each
  watermark on the host, the start of each run's increment, and the head of each
  complete run that has yet to write. A push cannot disturb it, since what it changes
  is above every head there was (`PushesStay`); a run may be stopped, or its summary
  overwritten by another job or a notice, since both only take watermarks away or put
  the covered one back. `OrderInv` is the order of the writes: a fresh review owes
  only what is in its text or in comments (`FreshInv`), because a review that is
  refused tries each of its comments alone before it is posted without them
  (`Isolates`), and this holds of jobs side by side; where runs come one at a time,
  each knows where its findings are (`Delivers`, `Claims`) and what it has read is
  what is there (`Reads`); and a thread is open, retired or resolved, in that order,
  as long as no answer is lost (`Open`). `WritesLandInOrder`, `FindingsStandOnce` and
  `NoticeSparesCompletion` follow, the last two as action properties.
- `PipelineProofs`, before the fan-out (`FilePipeline`): `FilesInv` says where every
  file is (`Accounted`: one that the filters let through is in the review, or was
  dropped by a stage that says so), that triage has put the whole floor first until
  the cap has cut (`FloorFirst`), that the batches are the units of the files still in
  the review, in order, each within the budget or a single unit (`BatchedAll`), and
  that the summary says all that was left out (`Outcome`). `FloorIsFirst`,
  `BatchesAreWhole` and `ApprovalsAreEarned` follow. The work is in what the loops
  compute: a slice of a hunk starts where the last one ended and the slices together
  are the hunk; a packed batch is closed before the unit that would overfill it, and
  the closed ones and the open one together are the units so far.
- `PipelineProofs`, after the fan-out (`FindingPipeline`): `PipelineInv` carries each
  stage's promise to the later ones. `Reasoned` says for every finding that is out why
  it is, which bounds what a later stage can find; `NoRival` that once the referee has
  ruled, no cut is left beside a fix that is, was rejected by the auditor or was
  merged away, so that its second round finds nothing; `Inherited` that a merged
  finding has an heir at its place, which the auditor or the floors may take but no
  earlier stage can. That the merge leaves an heir needs that its choice (`Beats`) is
  an order: the finding that fewest of its location beat is beaten by none
  (`SomeUnbeaten`). `CutYields`, `MergeIsFree` and `SeriousHeard` follow, for any
  number of findings. `ScanInv` is carried beside it: a scan that the cap took leaves
  exactly `MaxScans` at least as severe behind (`RoomIsFilled`: the cap counts who is
  ahead, and the last that is kept has a full house ahead of it), and no later stage
  but the merge and the floors takes one of those (`ScansAreKept`). The type invariant
  is proved as `Shape`, but for the severities that the rules leave: `Ruling` is
  recursive over the rules.
- `PipelineProofs`, the auditor (`Retrieval`): `RetrievalInv` has, at every moment of
  a resolution, that what a walk one by one would make of what the waves have left is
  what it makes of all the needs (`OnTheWalk`). This is said for both outcomes of the
  clone until the tree is asked for (`Agrees`), since a wave is sent before it is
  known whether a symbol of it resolves. It needs that what has arrived is what could
  be fetched (`Fetches`), so that accepting a wave in its own order is walking it,
  whatever the order of the answers. The prompt's budget goes through the grounding
  block entry by entry: what is charged is at most what was left, and the head and tail
  of a text that is cut cost no more than the room for it, so that the prompt exceeds
  the budget by its framing at most. `RechecksAreSound`.
- `DiffGeometryProofs`: `GeometryInv` says that what the host served is a run of
  stretches of the edit script that holds every change (`Serves`), that each hunk
  shown has the header its lines call for, in file order (`Shows`), that nothing
  served is missing (`CoversAll`), and how far a finding is from the line it flags
  (`Reported`, `SnappedTo`). It stands on one lemma per operation. The host's runs are
  maximal, so a header counts what precedes it. Padding joins hunks into runs
  (`RunShown`), and a run is rendered from the lines of head text before, between and
  after its hunks; where that text is whole these are the script's own kept lines, and
  where it is shorter only they may be misnumbered (`Rendered`). A cut's second header
  is the walk's two counters at the cut (`SliceIsTrue`). Line numbers only rise along
  a script, so no two lines share a number on a side: the nearest match of an
  unambiguous quote is the line itself, and the hunk that a thread is given is the one
  of its comment. `NumbersAreTrue` and `CommentsAreOnTheirLines` follow, for a diff
  and head text of any length, any definitions, and any number of cuts.

  What these three rest on is recursion, which the library's induction theorems reach
  by an operator parameter that no installed prover instantiates. The modules go by
  first-order facts instead: a set of naturals has a least element, so a set that has
  zero and with each number the next has all of them (`UpTo`); and a function with a
  given first value and given steps exists (`Recursion`, `Loop`), so that the one a
  recursive definition chooses has them.
- `ForgePostingProofs`, for the three gateways at once. What a run has read of the
  threads may be old when it writes, but only in one direction (`SeenInv`): none is
  open that it took for closed. So what it has left to post has no open thread that it
  could have known of (`PostInv`), what it has set out to resolve stays worth
  resolving (`FixInv`), and each finding of a posted summary has a thread or is in its
  text. Watermarks go along the argument of `PostingProofs` (`CoverInv`).
- `JobsProofs`: of the parts that an older head had, a newer snapshot has no more
  (`ChainInv`), so that an increment on top of what was seen leaves nothing out; what
  complete reviews were posted of has been seen, and what the retargets uncovered has
  been seen or is owed (`CoverInv`); and every job, at each of its steps, is as its
  step needs it (`JobInv`). `CompleteIsWhole` and `EndsAreTold` follow, for any number
  of pushes, rebases and retargets.
- `EntrypointsProofs`: four invariants, each naming what it needs of the others. The
  settings (`SettingsInv`: what answered is the wizard's choice until it is written)
  and the process (`BoxInv`: the environment is empty until the whole federation is
  applied, and whole ever after) meet nowhere. The identity (`IdentityInv`) is a chain
  of custody: each live token is the broker's while it checks it, then the job's, or
  is counted lost; what is handed out passed the reads after the mint as well as
  before; and the container outlives its job only where it could not be stopped. The
  local review (`LocalInv`) is one lock with one holder; for each file that nobody
  touched since the context was begun, what the git commands so far have told of it
  (`ContextSound`: what git tracks by the diff, the rest by a patch of its own, once it
  has left the list, unless git failed on it); and that the calls under way and the
  late ones together are never more than the workers (`ServerInv`), since after the
  interrupt none is added.

Some attempts failed for a reason and changed the models. `Jobs`' exception for
retargets (`ledger.owed`) was written for one; with a second, the review of the first
paid for both. And `StartsWhole` excused a job without a federation for not being on a
change request, where the code also stops on a server it has no client for (GitHub
Enterprise): the setup is now among the runs'. `FreshIsAtomic`, of
`WritesLandInOrder`, was claimed for runs in turn only; the proof did not need that,
and the property no longer says it. In `Retrieval`, that a prompt fits needed that its
fixed parts do, which nothing in the code sees to: their cost is now part of the
world, above the budget too, and `PromptFits` says what the prompt is then. It also
counted the texts and not what frames them; counted as sent, the prompt does not fit,
which is the disagreement of `Retrieval_budget`, and `PromptFits` says by how much.

What only TLC checks:

- liveness (`ReviewEnds`, `CallEnds`, `CallsEnd`, `AuditEnds`), which is out of the
  prover's reach;
- what `Ruling` leaves of a severity, as `FindingPipeline`'s type invariant has it: no
  safety property needs it;
- the disagreements of `Jobs_gate` and `Retrieval_budget`, which are counterexamples.

## What is not modelled, and why

- Prompts, parsing, redaction, the repair of JSON and the measuring of text: text
  in, text out, with no state that outlives a call.
- Tokens of a reply, streaming, prompt-cache breakpoints, cost estimates and the
  daemon thread of the wall timeout: a request returns or fails.
- Time. A deadline passes at some moment; backoff delays are not counted, and a
  token's expiry only ends what nobody revoked.
- The text of comments and notices, except where a property is about whether a
  notice was made.
- Labels, approvals, feedback, stacked pull requests, a pull request's
  conversation and the answer to a question: writes nothing later depends on.
- The two ids of a finding (by code and by text) are one in `Posting`; which of
  several posted comments a finding is matched with, one for one and first come, is
  therefore not told apart.
- A full re-review's wording check of earlier findings.
- git, ast-grep, the search commands, the scanners and the hosts are inputs: any
  answer in their type.
- Evals, deployment templates and documentation generators are not part of the
  program that reviews.

## Seen while modelling

Behaviour that came out of the models and is no property of its own, each where the
code decides it:

Recovery and adapter
- the rescue wave opens `min(n, 2)` threads even with `max_concurrency` 1
  (`recovery.py:250`), where the README has a serial run for local models;
- after a split failed for good and the fallback faltered, the whole batch is sent
  to the primary again (`recovery.py:248`; the specification has only the pieces
  retried);
- "reviewed at a lower effort" is also said of findings that a re-ask at the default
  effort produced (`recovery.py:669`);
- two replies in flight under the schema that do not parse step the model past a
  tool call that never failed (`litellm_provider.py:1000`); a fallback's reply that
  does not parse demotes the primary's mode (`:1038`);
- a configured effort on a flat route that strips it makes the stepped-down request
  the one that failed; a test keeps it so, on purpose.

Files and findings
- a cut yields to a fix that is itself a guess below the unanchored floor, or
  below `min_severity`: then neither is posted;
- unanchored dependency advisories take slots of the cap on scan findings and
  then fall to the unanchored floor;
- a finding rule may drop the one finding that a location was merged into;
- the merge prefers a finding with a line to a guess whatever their severities,
  so that a guess above the unanchored floor is lost to one that `min_severity`
  then drops. `MergeCostsNothing` excepts it;
- what a recheck fetched may not fit its prompt, and it judges without; a second
  recheck makes room for its own hop's files only; `get_pr_context` reads the metadata and then the diff, a push between them;
- a head text shorter than the diff says misnumbers padded context
  (`_render_group`); `LinesBind` excepts it.

Posting
- comments a first run posted one by one before it was stopped short of its
  summary are posted again by the next run's first post;
- rewriting a summary in place stamps the watermark before the comments it stands
  for (`rest_gateway.py:546`): stopped between, the head is complete without them;
- a resolve request that was applied and whose answer was lost leaves a resolved
  thread with live ids (`rest_gateway.py:1353`);
- a complete full run resolves an earlier thread on a file it skipped
  (`review.py:200` says otherwise);
- GitLab's incremental run rewrites the summary, and a finding that was in its text
  only is gone, where `review.py:175` has "Earlier findings stay open until fixed.";
- on Azure a thread a person closes after the run read it can be set to fixed; on
  Gitea and Azure a failure notice overwrites a completed summary.

Jobs
- a retarget whose own job fails, or is replaced by a push's, is never reviewed in
  full: the push is reviewed incrementally and its head stamped complete.
  `CompleteIsWhole` excepts it (`ledger.owed`);
- an overview drawn by an overlapping `/review` of the old base completes a head, and
  lets a later rebase answer "nothing to review" under a stale overview;
- the check run is created before the review is posted (`review.py:226`): a check
  that the host refuses fails the job before its findings are posted, and a partial
  review can leave a success.

Settings, identity, local review
- `config set provider` leaves an `api_base` of another provider; the two commands at
  once lose one's change, the last to save winning: `InitKeepsWhatAnswered` is about
  what init writes together, and claims nothing of the other terminal's;
- the broker's client gives up after 10 s, before the broker's own retries end: a
  token minted then is in nobody's hands until it expires, as is one whose
  `expires_at` does not parse;
- branch mode's audit reads the worktree where its context reads the commit, and the
  context resolves `HEAD` more than once, so that a commit in between mixes two;
- a file taken out of the index and still in the worktree is told in two patches, as a
  removal by `git diff` and made anew by `ls-files` (`local/__init__.py:110-121`); where
  git fails on the second (`:264`), the review is told that the file was removed;
- an untracked file whose patch was skipped stays among `changed_files` and no one is
  told; where it was the only change, the answer is "nothing to review";
- a file whose text could not be read (`:176`, `:199`) is reviewed from its patch
  alone, and no one is told.

## Plan

Every component that decides anything is modelled, and every safety property of the
passing runs is proved. What is left:

1. `FindingIds`: the one-for-one matching of findings to comments by either id.
2. The crash between a watermark stamped in place and its comments, if the gateway
   comes to write them in the other order: then the fresh part of
   `WritesLandInOrder` extends to it.
