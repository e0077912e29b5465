------------------------------- MODULE Startup -------------------------------
(***************************************************************************)
(* One run of the image in a CI job, from its entrypoint (`action`,         *)
(* `gitlab-ci`, `azure-pipelines`) to its exit: the stale event it ignores, *)
(* the keyless cloud credentials it makes out of the job's own ID token,    *)
(* the configuration it merges, the change request it works out from the    *)
(* job's environment, the forge and the provider it builds the review from, *)
(* the one delivery at the end, the signals that may arrive anywhere and    *)
(* the files removed at exit.                                               *)
(*                                                                         *)
(* Abstracted: what a configuration says besides the provider, the model    *)
(* and the endpoint; the review itself (FanOut, Jobs); the wording of the   *)
(* errors, all of which are a clean exit with nothing posted.               *)
(***************************************************************************)
EXTENDS Settings, Sequences

VARIABLES box,        \* the process
          files       \* the ID tokens on disk

(* A process that is not there yet. *)
NoBox == [pc |-> "none", left |-> {}, updates |-> {}, cfg |-> Unset, auth |-> Unset,
          forge |-> Unset, variable |-> Unset, code |-> 0, signalled |-> FALSE, killed |-> FALSE, posted |-> "nothing"]

Leaving(b, code) == [b EXCEPT !.pc = "leaving", !.code = code]

(* --------------------------- What it works out -------------------------- *)

(* The order the clouds' inputs are looked at.                              *)
Place == [aws |-> 1, azure |-> 2, gcp |-> 3]

(* The first of the clouds an input asks to federate with that are left.    *)
Requests(clouds) == {c \in clouds : \A d \in clouds : Place[c] <= Place[d]}

(* The pipeline entrypoints have no event and no inputs: they federate with *)
(* nobody.                                                                  *)
OnPipeline == setup.runner \in {"gitlab", "azure"}

ASSUME StartupAssumption ==
  \A s \in Setups : s.runner \in {"gitlab", "azure"} => s.asked = {}

(* The set is checked whole before anything is requested: each cloud needs  *)
(* its companion inputs, and the job an ID token to ask for.                *)
RequestsAreSound == setup.asked = {} \/ (setup.companions /\ setup.oidc)

(* The forge of the change request this job is for, from the variables the  *)
(* runner sets: Unset when they name no change request, or a server this    *)
(* has no client for (GitHub Enterprise, a GitLab under a sub-path, a build *)
(* of another host's repository).                                           *)
ForgeOf ==
  CASE ~setup.onChange -> Unset
    [] setup.runner = "github" -> "github"
    [] setup.runner \in {"gitea", "forgejo"} -> "gitea"
    [] setup.runner = "gitlab" -> "gitlab"
    [] setup.runner = "azure"  -> "azure_devops"
    [] OTHER -> Unset

TokenVariables ==
  [github |-> <<"GITHUB_TOKEN">>, gitlab |-> <<"GITLAB_TOKEN">>,
   gitea |-> <<"GITEA_TOKEN">>,
   azure_devops |-> <<"AZURE_DEVOPS_TOKEN", "SYSTEM_ACCESSTOKEN">>]

(* The first of a forge's variables that is set, and no other forge's.      *)
PickedVariable(forge) ==
  LET names == TokenVariables[forge]
      given == {i \in DOMAIN names : names[i] \in setup.tokens}
  IN IF given = {} THEN Unset ELSE names[CHOOSE i \in given : \A j \in given : i <= j]

(* Every title or description edit is an event too, and changes no code.    *)
NothingToReview == ~OnPipeline /\ setup.event = "edited"

(* ------------------------------- The steps ------------------------------ *)

StartBox ==
  /\ box.pc = "none"
  /\ box' = [NoBox EXCEPT !.pc = IF OnPipeline THEN "config" ELSE "route"]
  /\ UNCHANGED <<setup, settingsVars, env, files>>

(* The entrypoint: a stale review-comment event is a no-op; then the clouds *)
(* asked for are checked as a set.                                          *)
Route ==
  /\ box.pc = "route"
  /\ box' = IF setup.event = "review_comment" THEN Leaving(box, 0)
            ELSE IF RequestsAreSound
                 THEN [box EXCEPT !.pc = "federate", !.left = setup.asked]
                 ELSE Leaving(box, 1)
  /\ UNCHANGED <<setup, settingsVars, env, files>>

(* Mutant: a cloud's variables are set as soon as its token is there.       *)
FetchIdToken_AppliesAtOnce ==
  /\ box.pc = "federate" /\ box.left # {}
  /\ \/ \E c \in Requests(box.left) :
          /\ files' = files \union {c}
          /\ env' = env \union {c}
          /\ box' = [box EXCEPT !.left = @ \ {c}, !.updates = @ \union {c}]
     \/ /\ box' = Leaving(box, 1)
        /\ UNCHANGED <<env, files>>
  /\ UNCHANGED <<setup, settingsVars>>

(* One ID token, written to a file of its own; the runner may refuse it.    *)
FetchIdToken ==
  /\ box.pc = "federate" /\ box.left # {}
  /\ \/ \E c \in Requests(box.left) :
          /\ files' = files \union {c}
          /\ box' = [box EXCEPT !.left = @ \ {c}, !.updates = @ \union {c}]
     \/ /\ box' = Leaving(box, 1)
        /\ UNCHANGED files
  /\ UNCHANGED <<setup, settingsVars, env>>

(* The caller sets the variables of every cloud at once.                    *)
ApplyUpdates ==
  /\ box.pc = "federate" /\ box.left = {}
  /\ env' = env \union box.updates
  /\ box' = [box EXCEPT !.pc = "config"]
  /\ UNCHANGED <<setup, settingsVars, files>>

(* An option that belongs in the file is refused as an input: ignoring it   *)
(* would run the review with a default its author believes they changed.    *)
LoadConfig ==
  /\ box.pc = "config"
  /\ box' = IF ~setup.misplaced /\ FileReads /\ IsConfigured(LoadedConfig)
            THEN [box EXCEPT !.pc = "event", !.cfg = LoadedConfig]
            ELSE Leaving(box, 1)
  /\ UNCHANGED <<setup, settingsVars, env, files>>

RouteEvent ==
  /\ box.pc = "event"
  /\ box' = IF NothingToReview THEN Leaving(box, 0)
            ELSE IF ForgeOf = Unset THEN Leaving(box, 1)
            ELSE [box EXCEPT !.pc = "build", !.forge = ForgeOf]
  /\ UNCHANGED <<setup, settingsVars, env, files>>

(* The forge's token first, then the provider: a failure of either is the   *)
(* one kind nothing can be posted about.                                    *)
BuildContext ==
  /\ box.pc = "build"
  /\ LET variable == PickedVariable(box.forge) IN
     box' = IF variable = Unset \/ ResolvedCredentials(box.cfg) = Unset
            THEN Leaving(box, 1)
            ELSE [box EXCEPT !.pc = "review", !.variable = variable,
                             !.auth = ResolvedCredentials(box.cfg)]
  /\ UNCHANGED <<setup, settingsVars, env, files>>

(* The review is over, or winds down on a signal: either way it posts.      *)
EndReview ==
  /\ box.pc = "review"
  /\ box' = [box EXCEPT !.pc = "post"]
  /\ UNCHANGED <<setup, settingsVars, env, files>>

Deliver(accepted) ==
  /\ box.pc = "post"
  /\ box' = [Leaving(box, IF accepted THEN 0 ELSE 1) EXCEPT
               !.posted = IF accepted THEN "review" ELSE "refused"]
  /\ UNCHANGED <<setup, settingsVars, env, files>>

(* The process ends by itself: the ID tokens are removed on the way out.    *)
LeaveBox ==
  /\ box.pc = "leaving"
  /\ files' = {}
  /\ box' = [box EXCEPT !.pc = "gone"]
  /\ UNCHANGED <<setup, settingsVars, env>>

IsRunning == box.pc \notin {"none", "gone"}

Killed == [box EXCEPT !.pc = "gone", !.killed = TRUE]

(* The first signal only asks for the wind-down and puts the old handler    *)
(* back; a second one ends the process where it stands.                     *)
Signalled(b) == IF b.signalled THEN Killed ELSE [b EXCEPT !.signalled = TRUE]

EntrypointSteps ==
  \/ Route \/ FetchIdToken \/ ApplyUpdates \/ LoadConfig \/ RouteEvent
  \/ BuildContext \/ EndReview \/ LeaveBox

(* ------------------------------ Correctness ----------------------------- *)

(* What each setting should come to: the inputs', or else the file's.       *)
HighestLayer(k) ==
  IF setup.inputs[k] # Unset THEN setup.inputs[k]
  ELSE IF setup.file = "mapping" THEN setup.repo[k] ELSE Unset

(* Whose token a runner's job may post with.                                *)
OwnVariables(runner) ==
  CASE runner = "github" -> {"GITHUB_TOKEN"}
    [] runner = "gitlab" -> {"GITLAB_TOKEN"}
    [] runner = "azure"  -> {"AZURE_DEVOPS_TOKEN", "SYSTEM_ACCESSTOKEN"}
    [] OTHER             -> {"GITEA_TOKEN"}

(* Federation is all or nothing, however its requests fail: a review starts *)
(* only with every cloud its inputs ask for in the environment its          *)
(* credentials were then found in, under the settings of the highest layer  *)
(* that has them; a run whose requests half succeeded leaves none of their  *)
(* variables set; the forge posted to is the one the job's change request   *)
(* is on, with that forge's own token; no ID token stays on disk past a     *)
(* process that ended by itself; and a job that got a cloud's federation    *)
(* never stops for want of that cloud's credentials, looked for before the  *)
(* variables were there.                                                    *)
StartsWhole ==
  /\ env \in {{}, setup.asked}
  /\ box.pc \in {"review", "post"} =>
       /\ env = setup.asked
       /\ \A k \in Keys : box.cfg[k] = HighestLayer(k)
       /\ box.auth # Unset
       /\ box.auth = "ambient" => setup.asked # {}
       /\ box.variable \in setup.tokens \intersect OwnVariables(setup.runner)
  /\ box.pc = "gone" /\ ~box.killed =>
       /\ files = {}
       /\ box.code = 1 /\ box.posted = "nothing" /\ box.cfg # Unset =>
            \/ setup.tokens \intersect OwnVariables(setup.runner) = {}
            \/ ForgeOf = Unset
            \/ ~(box.cfg.provider = "vertex" /\ "gcp" \in setup.asked)
=============================================================================
