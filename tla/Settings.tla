------------------------------- MODULE Settings -------------------------------
(***************************************************************************)
(* Where a run's provider, model and endpoint come from: the person's own   *)
(* file, which `config init` and `config set` write, the repository's file  *)
(* and the flags or inputs over both; and the credential the provider is    *)
(* then called with.                                                        *)
(*                                                                         *)
(* The two commands may run in two terminals at once: each reads the whole  *)
(* file, changes its own copy and writes the whole file back.               *)
(*                                                                         *)
(* Abstracted: every other setting; the prompts of the wizard, of which     *)
(* only the answers matter.                                                 *)
(***************************************************************************)
EXTENDS Naturals

CONSTANTS Setups,     \* what a run may have been set up with
          Unset,      \* a setting, a credential or a variable nobody gave
          Answers     \* what a person may set a provider, a model or a base to

VARIABLES setup,      \* where the program runs and with what, fixed
          env,        \* the clouds whose variables the process has set
          stored,     \* the person's own settings file
          wizard,     \* the `config init` of one terminal
          setter,     \* the `config set` of another
          answered    \* what last answered a check and was then written

settingsVars == <<stored, wizard, setter, answered>>

Keys == {"provider", "model", "base"}

Values == STRING \union {Unset}

Layers == [Keys -> Values]

Blank == [k \in Keys |-> Unset]

Clouds == {"aws", "azure", "gcp"}

(* Where and how the program is started. What the change request is, who    *)
(* asks and with which tokens and inputs; what the two files say, and       *)
(* whether somebody named the repository's.                                 *)
SetupSpace ==
  [runner : STRING, event : STRING, identity : STRING, ownApp : BOOLEAN, failOn : BOOLEAN,
   workflow : STRING, verifies : BOOLEAN, branch : STRING, default : STRING,
   installed : BOOLEAN, oidc : BOOLEAN, asked : SUBSET Clouds, companions : BOOLEAN,
   misplaced : BOOLEAN, onChange : BOOLEAN, tokens : SUBSET STRING, key : BOOLEAN,
   file : STRING, named : BOOLEAN, repo : Layers, signedIn : BOOLEAN,
   stored : SUBSET Layers, hasBase : BOOLEAN, opens : SUBSET {"init", "set", "server"},
   inputs : Layers]

(* What is unset is no text, these outcomes among them.                     *)
ASSUME SettingsAssumption ==
  /\ Unset \notin STRING /\ Unset \notin {"own", "key", "ambient", "nothing"}
  /\ Setups \subseteq SetupSpace
  /\ \A k \in Keys : Answers[k] \subseteq Values

InTerminal == setup.runner = "terminal"

(* --------------------------- One configuration -------------------------- *)

(* One mapping updated by another: what the newer one leaves unset stands.  *)
Layered(older, newer) ==
  [k \in Keys |-> IF newer[k] = Unset THEN older[k] ELSE newer[k]]

(* A configuration file somebody named must be there and be a mapping; the  *)
(* default one is only looked for.                                          *)
FileReads == setup.named => setup.file = "mapping"

FileLayer == IF setup.file = "mapping" THEN setup.repo ELSE Blank

(* The person's file is read in a terminal only: a CI job's is nobody's.    *)
UserLayer == IF InTerminal THEN stored ELSE Blank

(* No built-in provider or model lies below the three.                      *)
LoadedConfig == Layered(Layered(UserLayer, FileLayer), setup.inputs)

IsConfigured(cfg) == cfg.provider # Unset /\ cfg.model # Unset

(* The credential a provider is called with, from what is in the process's  *)
(* environment now; Unset when there is none to be found.                   *)
ResolvedCredentials(cfg) ==
  CASE cfg.provider \in {"bedrock", "ollama"} -> "own"
    [] cfg.provider = "vertex"  -> IF "gcp" \in env THEN "ambient" ELSE Unset
    [] cfg.provider = "azure"   ->
         IF cfg.base = Unset THEN Unset
         ELSE IF setup.key THEN "key"
         ELSE IF "azure" \in env THEN "ambient" ELSE Unset
    [] cfg.provider = "compatible" -> IF cfg.base = Unset THEN Unset ELSE "key"
    [] cfg.provider = "chatgpt" -> IF setup.signedIn THEN "own" ELSE Unset
    [] OTHER -> IF setup.key THEN "key" ELSE Unset

(* ------------------------------ config init ----------------------------- *)

NoWizard == [pc |-> "done", choice |-> Blank, data |-> Blank]
NoSetter == [pc |-> "done", key |-> "model", value |-> Unset, data |-> Blank]

SettingsInit ==
  /\ stored \in IF InTerminal THEN setup.stored ELSE {Blank}
  /\ wizard = [NoWizard EXCEPT !.pc = IF "init" \in setup.opens THEN "ask" ELSE "done"]
  /\ setter = [NoSetter EXCEPT !.pc = IF "set" \in setup.opens THEN "ask" ELSE "done"]
  /\ answered = Blank

(* The base a provider needs: none, unless it has an endpoint to be told    *)
(* of, or is an ollama that does not run where it usually does.             *)
BaseFor(provider) ==
  IF provider \in {"azure", "compatible"} THEN Answers.base
  ELSE IF provider = "ollama" THEN Answers.base \union {Unset} ELSE {Unset}

WizardChoices ==
  UNION {[provider : {p}, model : Answers.model, base : BaseFor(p)] : p \in Answers.provider}

(* The person answers: the wizard then checks what it was told, or, told    *)
(* not to, goes straight to the file.                                       *)
Choose ==
  /\ wizard.pc = "ask"
  /\ \E choice \in WizardChoices : \E verify \in BOOLEAN :
       wizard' = [wizard EXCEPT !.choice = choice,
                                !.pc = IF verify THEN "verify" ELSE "load"]
  /\ UNCHANGED <<setup, env, stored, setter, answered>>

(* One short request, through a review's own credentials: what does not     *)
(* answer is not written.                                                   *)
VerifySetup ==
  /\ wizard.pc = "verify"
  /\ \/ /\ ResolvedCredentials(wizard.choice) # Unset
        /\ wizard' = [wizard EXCEPT !.pc = "load"]
        /\ answered' = wizard.choice
     \/ /\ wizard' = [wizard EXCEPT !.pc = "done"]
        /\ UNCHANGED answered
  /\ UNCHANGED <<setup, env, stored, setter>>

LoadForInit ==
  /\ wizard.pc = "load"
  /\ wizard' = [wizard EXCEPT !.pc = "save", !.data = stored]
  /\ UNCHANGED <<setup, env, stored, setter, answered>>

(* Mutant: an endpoint of an earlier setup is kept.                         *)
SaveChoice_KeepsBase ==
  /\ wizard.pc = "save"
  /\ stored' = Layered(wizard.data, wizard.choice)
  /\ wizard' = [wizard EXCEPT !.pc = "done"]
  /\ UNCHANGED <<setup, env, setter, answered>>

(* The three go together: a base kept from an earlier setup would be sent   *)
(* to the new provider.                                                     *)
SaveChoice ==
  /\ wizard.pc = "save"
  /\ stored' = wizard.choice
  /\ wizard' = [wizard EXCEPT !.pc = "done"]
  /\ UNCHANGED <<setup, env, setter, answered>>

(* ------------------------------ config set ------------------------------ *)

(* An unknown key, a secret or a value of the wrong type is refused before  *)
(* anything is read.                                                        *)
SetKey ==
  /\ setter.pc = "ask"
  /\ setter' \in {[setter EXCEPT !.pc = "done"]} \union
       UNION {{[pc |-> "save", key |-> k, value |-> v, data |-> stored] : v \in Answers[k]}
                : k \in Keys}
  /\ UNCHANGED <<setup, env, stored, wizard, answered>>

(* The other command's change is lost if it came between the two.           *)
SaveKey ==
  /\ setter.pc = "save"
  /\ stored' = [setter.data EXCEPT ![setter.key] = setter.value]
  /\ setter' = [setter EXCEPT !.pc = "done"]
  /\ answered' = IF wizard.pc = "done" THEN Blank ELSE answered
  /\ UNCHANGED <<setup, env, wizard>>

SettingsSteps == Choose \/ VerifySetup \/ LoadForInit \/ SaveChoice \/ SetKey \/ SaveKey

(* ------------------------------ Correctness ----------------------------- *)

(* `config init` leaves what answered: once it has written, and until       *)
(* somebody sets a key by hand, the file names the provider, the model and  *)
(* the endpoint that answered its request together, with nothing of an      *)
(* earlier setup among them; and the same credentials serve the review.     *)
InitKeepsWhatAnswered ==
  wizard.pc = "done" /\ answered # Blank =>
    /\ stored = answered
    /\ ResolvedCredentials(stored) # Unset
=============================================================================
