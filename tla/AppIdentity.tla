----------------------------- MODULE AppIdentity -----------------------------
(***************************************************************************)
(* A review job's identity, from the workflow's signed token to the revoked *)
(* App token: the composite action's steps (validate, exchange, run, stop,  *)
(* revoke), the broker that mints an installation token and verifies the    *)
(* repository with it, GitHub's tokens, the container of Startup that posts *)
(* with one, and everything that can happen between two of their steps: a   *)
(* call that fails or whose answer is lost, a client or a function that     *)
(* times out, a job that is cancelled, a repository that changes under it.  *)
(*                                                                         *)
(* On any other runner there is no composite action: the image is the job.  *)
(*                                                                         *)
(* Abstracted: the OIDC signature (a token verifies or does not); the other *)
(* steps of the action; expiry of tokens, which ends what nobody revoked.   *)
(***************************************************************************)
EXTENDS Startup, FiniteSets

CONSTANTS Branches,    \* branches a workflow may run from or a repository default to
          MaxChanges,  \* bound: changes to the repository in one job
          MaxTries     \* attempts a GitHub read is given

ASSUME IdentityAssumption == Branches \subseteq STRING

VARIABLES repo,     \* what the signed repository name stands for now, on GitHub
          github,   \* the tokens minted so far, and those still live
          broker,   \* the one invocation of the identity service
          job,      \* the job's steps
          lost,     \* tokens that slipped every hand that could revoke them
          trusted   \* branches the signed repository has had as its default

identityVars == <<repo, github, broker, job, lost, trusted>>
ciVars       == <<setup, settingsVars, box, env, files, repo, github, broker, job, lost, trusted>>

NoToken == 0

(* The repository the workflow was signed for, and its owner.               *)
SignedId    == 1
SignedOwner == 1

AllowedEvents == {"pull_request_target", "issue_comment", "review_comment"}

OnGitHub == setup.runner = "github"

IdentityInit ==
  /\ box = NoBox /\ files = {}
  /\ repo = [id |-> SignedId, owner |-> SignedOwner, branch |-> setup.default,
             installed |-> setup.installed, changes |-> 0]
  /\ github = [minted |-> 0, live |-> {}]
  /\ broker = [pc |-> "idle", tries |-> 0, account |-> Unset, token |-> NoToken]
  /\ job = [step |-> CASE OnGitHub -> "validate" [] InTerminal -> "done" [] OTHER -> "run",
            failed |-> FALSE, cancelled |-> FALSE, token |-> NoToken, missed |-> FALSE]
  /\ lost = {}
  /\ trusted = {setup.default}

(* ------------------------- The repository changes ----------------------- *)

(* The name may come to stand for another repository (the signed one was    *)
(* renamed or moved), under the same owner or another one, or its default   *)
(* branch change, or the App be removed. What the job sees of it is what    *)
(* the broker reads, so it changes while the broker works.                  *)
RepositoryChanges ==
  /\ repo.changes < MaxChanges /\ broker.pc \notin {"idle", "answered"}
  /\ \/ \E b \in Branches : repo' = [repo EXCEPT !.branch = b, !.changes = @ + 1]
     \/ \E o \in {SignedOwner, SignedOwner + 1} : \E b \in Branches :
          repo' = [repo EXCEPT !.id = SignedId + 1, !.owner = o, !.branch = b,
                               !.changes = @ + 1]
     \/ repo' = [repo EXCEPT !.installed = FALSE, !.changes = @ + 1]
  /\ trusted' = trusted \union
                  IF repo'.id = SignedId THEN {repo'.branch} ELSE {}
  /\ UNCHANGED <<setup, settingsVars, box, env, files, github, broker, job, lost>>

(* ------------------------------ The broker ------------------------------ *)

(* The outcomes of a read given MaxTries attempts: an answer, or another    *)
(* attempt while transport errors and server errors leave one.              *)
ReadFails == broker.tries + 1 >= MaxTries

Answer(pc) == [broker EXCEPT !.pc = pc, !.tries = 0]

(* Verified, from an allowed event, and a workflow of the repository's own. *)
PassesPreMint ==
  /\ setup.verifies
  /\ setup.event \in AllowedEvents
  /\ setup.workflow = "own"

VerifyClaims ==
  /\ broker.pc = "verify"
  /\ broker' = Answer(IF PassesPreMint THEN "find" ELSE "refuse")
  /\ UNCHANGED <<setup, settingsVars, box, env, files, repo, github, job, lost, trusted>>

FindInstallation ==
  /\ broker.pc = "find"
  /\ broker' \in {IF repo.installed
                  THEN [Answer("mint") EXCEPT !.account = repo.owner]
                  ELSE Answer("refuse"),
                  IF ReadFails THEN Answer("refuse")
                  ELSE [broker EXCEPT !.tries = @ + 1]}
  /\ UNCHANGED <<setup, settingsVars, box, env, files, repo, github, job, lost, trusted>>

(* GitHub's side of a mint: a token for the signed repository, from an      *)
(* installation that is still there and covers it.                          *)
Minted ==
  IF broker.account = SignedOwner /\ repo.installed
  THEN [minted |-> github.minted + 1, live |-> github.live \union {github.minted + 1}]
  ELSE github

(* The one call that is never repeated: it may fail before GitHub acts, be  *)
(* answered, or have its answer lost or unreadable with the token live.     *)
CreateToken ==
  /\ broker.pc = "mint"
  /\ \/ /\ github' = Minted
        /\ broker' = IF Minted = github THEN Answer("refuse")
                     ELSE [Answer("check") EXCEPT !.token = Minted.minted]
        /\ UNCHANGED lost
     \/ /\ github' = Minted
        /\ lost' = lost \union Minted.live
        /\ broker' = Answer("refuse")
     \/ /\ broker' = Answer("refuse")
        /\ UNCHANGED <<github, lost>>
  /\ UNCHANGED <<setup, settingsVars, box, env, files, repo, job, trusted>>

(* Mutant: whose repository it is now is not compared.                      *)
RepositoryMatches_BranchOnly == setup.branch = repo.branch

(* What the repository reads as now is what was signed, and the workflow    *)
(* ran from its default branch.                                             *)
RepositoryMatches ==
  /\ repo.id = SignedId
  /\ repo.owner = SignedOwner
  /\ setup.branch = repo.branch

(* Verified with the token it just minted: a mismatch, or a read that stays *)
(* without an answer, has the token revoked.                                *)
ValidateRepository ==
  /\ broker.pc = "check"
  /\ broker' \in {Answer(IF RepositoryMatches THEN "reply" ELSE "revoke"),
                  Answer("revoke"),
                  IF ReadFails THEN Answer("revoke")
                  ELSE [broker EXCEPT !.tries = @ + 1]}
  /\ UNCHANGED <<setup, settingsVars, box, env, files, repo, github, job, lost, trusted>>

(* A revocation is tried once, here and in the job's last step: it works,   *)
(* or the token is left to expire.                                          *)
Revoked(token) ==
  \/ /\ github' = [github EXCEPT !.live = @ \ {token}]
     /\ UNCHANGED lost
  \/ /\ lost' = lost \union {token}
     /\ UNCHANGED github

RevokeAfterRejection ==
  /\ broker.pc = "revoke"
  /\ Revoked(broker.token)
  /\ broker' = [Answer("refuse") EXCEPT !.token = NoToken]
  /\ UNCHANGED <<setup, settingsVars, box, env, files, repo, job, trusted>>

(* The function is stopped at its time limit, wherever it is.               *)
BrokerDies ==
  /\ broker.pc \in {"verify", "find", "mint", "check", "revoke", "reply"}
  /\ broker' = [Answer("refuse") EXCEPT !.token = NoToken]
  /\ lost' = lost \union ({broker.token} \ {NoToken})
  /\ UNCHANGED <<setup, settingsVars, box, env, files, repo, github, job, trusted>>

(* ----------------------------- The job's steps -------------------------- *)

(* A composite action's later steps run while none has failed and the job   *)
(* is not cancelled; the last two always do.                                *)
Advance(step, failed) == [job EXCEPT !.step = step, !.failed = @ \/ failed]

Goes == ~job.failed /\ ~job.cancelled

(* Two identities at once, half of a self-managed one, or the public App    *)
(* with a gate it has no permission to set: refused before any of them.     *)
IdentityIsSound ==
  setup.identity = "lgtmaybe" => ~setup.ownApp /\ ~setup.failOn

Validate ==
  /\ job.step = "validate"
  /\ job' = Advance("exchange", ~IdentityIsSound)
  /\ UNCHANGED <<setup, settingsVars, box, env, files, repo, github, broker, lost, trusted>>

WantsExchange == Goes /\ setup.identity = "lgtmaybe"

(* An event that never runs from the default branch does not even ask.      *)
SkipExchange ==
  /\ job.step = "exchange"
  /\ ~WantsExchange \/ setup.event = "review_comment"
  /\ job' = Advance("run", FALSE)
  /\ UNCHANGED <<setup, settingsVars, box, env, files, repo, github, broker, lost, trusted>>

(* The workflow's ID token, then one request to the broker: each may fail.  *)
AskBroker ==
  /\ job.step = "exchange" /\ WantsExchange /\ setup.event # "review_comment"
  /\ \/ /\ setup.oidc
        /\ job' = Advance("waiting", FALSE)
        /\ broker' = Answer("verify")
     \/ /\ job' = Advance("run", TRUE)
        /\ UNCHANGED broker
  /\ UNCHANGED <<setup, settingsVars, box, env, files, repo, github, lost, trusted>>

(* The answer is written to the step's output.                              *)
TakeAnswer ==
  /\ job.step = "waiting" /\ broker.pc \in {"reply", "refuse"}
  /\ job' = [Advance("run", broker.pc = "refuse") EXCEPT !.token = broker.token]
  /\ broker' = [Answer("answered") EXCEPT !.token = NoToken]
  /\ UNCHANGED <<setup, settingsVars, box, env, files, repo, github, lost, trusted>>

(* The client stops waiting, or the answer is lost: nothing is written, and *)
(* the broker goes on by itself.                                            *)
GiveUpWaiting ==
  /\ job.step = "waiting"
  /\ job' = Advance("run", TRUE)
  /\ UNCHANGED <<setup, settingsVars, box, env, files, repo, github, broker, lost, trusted>>

(* The broker answers a client that is gone.                                *)
AnswerNobody ==
  /\ broker.pc \in {"reply", "refuse"} /\ job.step # "waiting"
  /\ broker' = [Answer("answered") EXCEPT !.token = NoToken]
  /\ lost' = lost \union ({broker.token} \ {NoToken})
  /\ UNCHANGED <<setup, settingsVars, box, env, files, repo, github, job, trusted>>

(* The identity the container is given: the exchanged token, or else the    *)
(* workflow's own, which lives as long as the job.                          *)
TokenIsLive ==
  IF job.token # NoToken THEN job.token \in github.live ELSE job.step # "done"

RunContainer ==
  /\ job.step = "run" /\ Goes
  /\ StartBox
  /\ job' = Advance("running", FALSE)
  /\ UNCHANGED <<repo, github, broker, lost, trusted>>

SkipRun ==
  /\ job.step = "run" /\ ~Goes
  /\ job' = Advance(IF OnGitHub THEN "stop" ELSE "done", FALSE)
  /\ UNCHANGED <<setup, settingsVars, box, env, files, repo, github, broker, lost, trusted>>

(* The step follows the docker client, which a cancelled job kills: the     *)
(* container goes on. Elsewhere the process is the job's own.               *)
EndOfRun ==
  /\ job.step = "running"
  /\ box.pc = "gone" \/ (job.cancelled /\ OnGitHub)
  /\ job' = Advance(IF OnGitHub THEN "stop" ELSE "done", box.code # 0)
  /\ UNCHANGED <<setup, settingsVars, box, env, files, repo, github, broker, lost, trusted>>

(* A newer push or the job's own time limit.                                *)
CancelJob ==
  /\ ~job.cancelled /\ job.step \notin {"stop", "stopping", "revoke", "done"}
  /\ job' = [job EXCEPT !.cancelled = TRUE,
                        !.step = IF @ = "waiting" THEN "run" ELSE @]
  /\ box' = IF ~OnGitHub /\ IsRunning THEN Signalled(box) ELSE box
  /\ UNCHANGED <<setup, settingsVars, env, files, repo, github, broker, lost, trusted>>

(* A runner signals again a process that does not go.                       *)
RunnerKills ==
  /\ ~OnGitHub /\ job.cancelled /\ IsRunning
  /\ box' = Signalled(box)
  /\ UNCHANGED <<setup, settingsVars, env, files, repo, github, broker, job, lost, trusted>>

(* Always: a container that is still there is sent the signal its wind-down *)
(* waits for. The daemon may not answer, which is not an error.             *)
StopContainer ==
  /\ job.step = "stop"
  /\ \/ /\ IsRunning
        /\ box' = Signalled(box)
        /\ job' = Advance("stopping", FALSE)
     \/ /\ IsRunning
        /\ job' = [Advance("revoke", FALSE) EXCEPT !.missed = TRUE]
        /\ UNCHANGED box
     \/ /\ ~IsRunning
        /\ job' = Advance("revoke", FALSE)
        /\ UNCHANGED box
  /\ UNCHANGED <<setup, settingsVars, env, files, repo, github, broker, lost, trusted>>

(* It stopped by itself, or it is killed once its grace is over.            *)
ContainerStopped ==
  /\ job.step = "stopping"
  /\ box' = IF IsRunning THEN Killed ELSE box
  /\ job' = Advance("revoke", FALSE)
  /\ UNCHANGED <<setup, settingsVars, env, files, repo, github, broker, lost, trusted>>

(* Always, when the exchange left a token.                                  *)
Revoke ==
  /\ job.step = "revoke"
  /\ IF job.token # NoToken THEN Revoked(job.token) ELSE UNCHANGED <<github, lost>>
  /\ job' = Advance("done", FALSE)
  /\ UNCHANGED <<setup, settingsVars, box, env, files, repo, broker, trusted>>

(* --------------------------- The container posts ------------------------ *)

ContainerPosts ==
  /\ Deliver(TokenIsLive)
  /\ UNCHANGED identityVars

ContainerSteps == EntrypointSteps /\ UNCHANGED identityVars

BrokerSteps ==
  \/ VerifyClaims \/ FindInstallation \/ CreateToken \/ ValidateRepository
  \/ RevokeAfterRejection

JobSteps ==
  \/ Validate \/ SkipExchange \/ AskBroker \/ TakeAnswer \/ RunContainer
  \/ SkipRun \/ EndOfRun \/ StopContainer \/ ContainerStopped \/ Revoke

(* A job that is over, with nothing of it running anywhere.                 *)
AllDone ==
  /\ job.step = "done" /\ ~IsRunning
  /\ broker.pc \in {"idle", "answered"}

CISteps ==
  \/ RepositoryChanges
  \/ BrokerSteps \/ BrokerDies \/ AnswerNobody
  \/ JobSteps \/ GiveUpWaiting \/ CancelJob \/ RunnerKills
  \/ ContainerSteps \/ ContainerPosts

(* ------------------------------ Correctness ----------------------------- *)

(* A workflow that a contributor can write never holds the App's token: the *)
(* one a job is handed was minted for a workflow of the repository itself,  *)
(* running from a branch that repository has had as its default while the   *)
(* job ran, under whatever renames, replacements and default-branch changes *)
(* happened between the broker's reads.                                     *)
HandedOutIsVerified ==
  job.token # NoToken =>
    /\ setup.workflow = "own" /\ setup.event \in AllowedEvents
    /\ setup.branch \in trusted

(* No token is left behind: once the job is over, the only App token that   *)
(* can still be live is one a lost answer, a stopped function or a failed   *)
(* revocation took out of every hand; every token that was refused,         *)
(* whatever refused it, and every one that was used has been revoked; and   *)
(* no exchange ever minted a second one.                                    *)
NoTokenLeftBehind ==
  /\ github.minted <= 1
  /\ AllDone => github.live \subseteq lost

(* A run that was cancelled winds down with a live token: the review it     *)
(* posts is refused only if the container could not be stopped before the   *)
(* revocation.                                                              *)
PostsWithALiveToken ==
  box.posted = "refused" => job.missed

(* A job that wants the App's identity gets it, whole and for itself, and   *)
(* nobody else does.                                                        *)
TokensAreSafe == HandedOutIsVerified /\ NoTokenLeftBehind /\ PostsWithALiveToken
=============================================================================
