---------------------------- MODULE MCEntrypoints ----------------------------
(* Model checking Entrypoints: the setups a run may start from.             *)
EXTENDS Entrypoints

Layer(p, m, b) == [provider |-> p, model |-> m, base |-> b]
(* A GitHub job with a plain key in its inputs.                             *)
Plain == [runner |-> "github", event |-> "pull_request_target", identity |-> "lgtmaybe",
          ownApp |-> FALSE, failOn |-> FALSE, workflow |-> "own", verifies |-> TRUE,
          branch |-> "main", default |-> "main", installed |-> TRUE, oidc |-> TRUE,
          asked |-> {}, companions |-> TRUE, misplaced |-> FALSE, onChange |-> TRUE,
          tokens |-> {"GITHUB_TOKEN"}, key |-> TRUE,
          file |-> "absent", named |-> FALSE, repo |-> Blank,
          signedIn |-> FALSE, stored |-> {Blank}, hasBase |-> TRUE, opens |-> {},
          inputs |-> Layer("openai", "m1", Unset)]

(* Who asks, from where, with which identity.                               *)
GitHubSetups ==
  {[Plain EXCEPT !.branch = b, !.event = e] :
     b \in {"main", "side"},
     e \in {"pull_request_target", "issue_comment", "review_comment", "edited", "push"}}
  \union {[Plain EXCEPT !.workflow = "foreign"], [Plain EXCEPT !.verifies = FALSE],
          [Plain EXCEPT !.oidc = FALSE], [Plain EXCEPT !.installed = FALSE],
          [Plain EXCEPT !.failOn = TRUE], [Plain EXCEPT !.ownApp = TRUE],
          [Plain EXCEPT !.identity = "actions", !.failOn = TRUE]}

(* Where it runs without the composite action, with which tokens around.    *)
Elsewhere == [Plain EXCEPT !.identity = "actions", !.runner = "forgejo",
                           !.tokens = {"GITHUB_TOKEN", "GITEA_TOKEN"}]

RunnerSetups ==
  {[Elsewhere EXCEPT !.runner = r, !.tokens = t, !.onChange = c, !.event = e] :
     r \in {"ghes", "gitea", "gitlab", "azure"}, c \in BOOLEAN,
     e \in {"pull_request_target", "edited"},
     t \in SUBSET {"GITHUB_TOKEN", "GITLAB_TOKEN", "GITEA_TOKEN",
                   "AZURE_DEVOPS_TOKEN", "SYSTEM_ACCESSTOKEN"}}
  \union {[Elsewhere EXCEPT !.runner = "ghes", !.asked = {"gcp"},
                            !.inputs = Layer("vertex", "m1", Unset)]}

(* What is configured, where, and which clouds' federation is asked for.    *)
ForgejoSetups ==
  {[Elsewhere EXCEPT !.asked = c, !.companions = w, !.oidc = o, !.key = k, !.file = f,
                     !.named = n, !.misplaced = m, !.repo = Layer(p, "m1", "b1"),
                     !.inputs = i] :
     m \in BOOLEAN, c \in SUBSET {"azure", "gcp"},
     w \in BOOLEAN, o \in BOOLEAN, k \in BOOLEAN,
     f \in {"absent", "mapping", "other"}, n \in BOOLEAN,
     p \in {"vertex", "openai", Unset},
     i \in {Blank, Layer("azure", Unset, Unset), Layer("compatible", "m2", "b2"),
            Layer("ollama", "m2", Unset), Layer("chatgpt", "m2", Unset)}}

(* A terminal: who is signed in, and what an earlier setup left in the file.*)
Terminal == [Plain EXCEPT !.runner = "terminal", !.tokens = {}, !.onChange = FALSE,
                          !.inputs = Blank, !.opens = {"init", "set"},
                          !.stored = {Blank, Layer("azure", "m1", "b1")}]

TerminalSetups ==
  {Terminal, [Terminal EXCEPT !.key = FALSE, !.signedIn = TRUE],
   [Terminal EXCEPT !.opens = {"server"}, !.stored = {Blank, Layer("openai", "m1", Unset)}],
   [Terminal EXCEPT !.opens = {"server"}, !.hasBase = FALSE,
                    !.inputs = Layer("ollama", "m2", Unset)]}

MCAnswers == [provider |-> {"openai", "azure", "chatgpt"}, model |-> {"m1"}, base |-> {"b2"}]

(* One file touched, in every way there is.                                 *)
Touched(f) ==
  LET texts == {[BaseFiles EXCEPT ![f] = v] : v \in 0..3}
  IN {t \in [base : {BaseFiles}, head : texts, work : texts,
             index : {InIndex(BaseFiles) \ {f}, InIndex(BaseFiles) \union {f}}] :
        /\ t.head[f] \in {BaseFiles[f], 2, Absent}
        /\ t.work[f] \in {t.head[f], BaseFiles[f], 3, Absent}}

MCTrees == UNION {Touched(f) : f \in Files}

MCSetups == GitHubSetups \union RunnerSetups \union ForgejoSetups \union TerminalSetups
=============================================================================
