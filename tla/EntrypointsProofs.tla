--------------------------- MODULE EntrypointsProofs ---------------------------
(***************************************************************************)
(* Theorems about Entrypoints, for any set of setups, any worktree, any     *)
(* number of overlapping calls and of changes.                              *)
(*                                                                         *)
(* Each part has an invariant of its own, which names what it needs of the  *)
(* others: the settings need only that credentials once found stay found,   *)
(* the process needs nothing of them, for it runs where no file of a        *)
(* person's is read, the identity needs to know when the container can      *)
(* still post, and a local review needs only where it was set up.           *)
(***************************************************************************)
EXTENDS Entrypoints, TLAPS

-------------------------------------------------------------------------------
(* The settings *)

SettingsType ==
  /\ setup \in Setups
  /\ env \in SUBSET Clouds
  /\ stored \in Layers
  /\ wizard \in [pc : {"ask", "verify", "load", "save", "done"}, choice : Layers, data : Layers]
  /\ setter \in [pc : {"ask", "save", "done"}, key : Keys, value : Values, data : Layers]
  /\ answered \in Layers

\* What answered is the wizard's choice until it is written, and is what is
\* written; a key set by hand in between is written over, and one set later
\* takes its place.
AnswerInv ==
  answered # Blank =>
    /\ wizard.pc \in {"load", "save", "done"}
    /\ wizard.pc # "done" => answered = wizard.choice
    /\ wizard.pc = "done" => stored = answered
    /\ ResolvedCredentials(answered) # Unset

SettingsInv == SettingsType /\ AnswerInv

-------------------------------------------------------------------------------
(* The process *)

BoxSpace ==
  [pc : {"none", "route", "federate", "config", "event", "build", "review", "post", "leaving",
         "gone"},
   left : SUBSET Clouds, updates : SUBSET Clouds, cfg : Layers \union {Unset},
   auth : {"own", "key", "ambient", Unset},
   forge : {"github", "gitlab", "gitea", "azure_devops", Unset}, variable : Values, code : {0, 1}, signalled : BOOLEAN, killed : BOOLEAN,
   posted : {"nothing", "review", "refused"}]

\* What a job with a cloud's federation may stop for.
Excused ==
  \/ setup.tokens \intersect OwnVariables(setup.runner) = {}
  \/ ForgeOf = Unset
  \/ ~(box.cfg.provider = "vertex" /\ "gcp" \in setup.asked)

BoxInv ==
  /\ box \in BoxSpace
  /\ box.pc # "none" => ~InTerminal
  /\ env \in {{}, setup.asked}
  /\ box.pc \in {"none", "route", "federate"} => env = {}
  /\ box.pc \in {"none", "route"} => box.updates = {}
  /\ box.pc = "federate" => box.updates \union box.left = setup.asked
  /\ box.pc \in {"config", "event", "build", "review", "post"} => env = setup.asked
  /\ box.pc \in {"none", "route", "federate", "config"} => box.cfg = Unset
  /\ box.pc \in {"event", "build", "review", "post"} =>
       box.cfg \in Layers /\ \A k \in Keys : box.cfg[k] = HighestLayer(k)
  /\ box.pc = "build" => box.forge = ForgeOf /\ ForgeOf # Unset
  /\ box.pc \in {"review", "post"} =>
       /\ box.auth # Unset
       /\ box.auth = "ambient" => setup.asked # {}
       /\ box.variable \in setup.tokens \intersect OwnVariables(setup.runner)
  /\ box.pc \in {"leaving", "gone"} /\ ~box.killed =>
       (box.code = 1 /\ box.posted = "nothing" /\ box.cfg # Unset => Excused)
  /\ box.pc = "gone" /\ ~box.killed => files = {}

-------------------------------------------------------------------------------
(* The identity *)

IdentityType ==
  /\ repo \in [id : Nat, owner : Nat, branch : STRING, installed : BOOLEAN, changes : Nat]
  /\ github \in [minted : {0, 1}, live : SUBSET {1}]
  /\ broker \in [pc : {"idle", "verify", "find", "mint", "check", "revoke", "reply", "refuse",
                       "answered"},
                 tries : Nat, account : Nat \union {Unset}, token : {0, 1}]
  /\ job \in [step : {"validate", "exchange", "waiting", "run", "running", "stop", "stopping",
                      "revoke", "done"},
              failed : BOOLEAN, cancelled : BOOLEAN, token : {0, 1}, missed : BOOLEAN]
  /\ lost \in SUBSET {1}
  /\ trusted \in SUBSET STRING

\* The exchange happens once, in one order.
ExchangeInv ==
  /\ broker.pc # "idle" => OnGitHub
  /\ InTerminal => job.step = "done"
  /\ job.step \in {"validate", "exchange", "waiting", "stop", "stopping", "revoke"} => OnGitHub
  /\ job.step \in {"validate", "exchange"} => broker.pc = "idle"
  /\ job.step = "waiting" => broker.pc \notin {"idle", "answered"}
  /\ broker.pc \in {"idle", "verify", "find", "mint"} => github.minted = 0 /\ github.live = {}
  /\ github.minted = 0 => github.live = {}
  /\ repo.id = SignedId => repo.branch \in trusted

\* In whose hands the token is: the broker's while it checks it, then the job's;
\* a live one in nobody's hands is lost.
CustodyInv ==
  /\ broker.pc \in {"check", "revoke", "reply"} => broker.token \in github.live
  /\ broker.pc \notin {"check", "revoke", "reply"} => broker.token = NoToken
  /\ job.token # NoToken =>
       /\ OnGitHub /\ broker.pc = "answered"
       /\ job.step \in {"run", "running", "stop", "stopping", "revoke", "done"}
       /\ job.step # "done" => job.token \in github.live
  /\ github.live \subseteq
       lost \union {broker.token} \union IF job.step = "done" THEN {} ELSE {job.token}

VerifiedInv ==
  /\ broker.pc \in {"find", "mint", "check", "revoke", "reply"} => PassesPreMint
  /\ broker.pc = "reply" => setup.branch \in trusted
  /\ HandedOutIsVerified

\* The container runs no longer than its job means it to, unless it could not be
\* stopped.
ContainerInv ==
  /\ box.pc # "none" => job.step \in {"running", "stop", "stopping", "revoke", "done"}
  /\ job.step \in {"revoke", "done"} /\ IsRunning => job.missed
  /\ PostsWithALiveToken

IdentityInv == IdentityType /\ ExchangeInv /\ CustodyInv /\ VerifiedInv /\ ContainerInv

-------------------------------------------------------------------------------
(* A local review *)

Texts == [Files -> Nat]

ContextSpace ==
  [head : Texts \union {<<>>}, patches : SUBSET (Files \X Nat \X Nat), listed : SUBSET Files,
   unread : SUBSET Files, texts : SUBSET (Files \X Nat), skipped : SUBSET Files,
   unreadable : SUBSET Files]

CallSpace ==
  [pc : {"idle", "waiting", "load", "ends", "diff", "list", "patch", "read", "judge", "review",
         "over"},
   mode : Modes, ctx : ContextSpace, left : Nat, ready : Nat,
   result : {"error", "nothing", "reviewed", Unset}, moved : SUBSET Files]

TreeType == [base : Texts, head : Texts, work : Texts, index : SUBSET Files]

ServerType ==
  [pc : {"off", "serving", "leaving", "gone"}, lock : Calls \union {Nobody}, late : Nat]

LocalType ==
  /\ tree \in TreeType
  /\ edits \in Nat
  /\ server \in ServerType
  /\ calls \in [Calls -> CallSpace]
  /\ interrupted \in BOOLEAN

Resting == {"idle", "waiting", "over"}

\* Whoever works is served, or has been told to stop; what may still go out late
\* is what had looked at the flag before.
ServerInv ==
  /\ \A c \in Calls : calls[c].pc \notin Resting <=> server.lock = c
  /\ server.pc = "off" => \A c \in Calls : calls[c].pc = "idle"
  /\ server.pc = "gone" => interrupted \/ \A c \in Calls : calls[c].pc = "idle"
  /\ server.pc # "gone" => server.late = 0
  /\ server.late <= Workers
  /\ \A c \in Calls : /\ calls[c].ready > 0 => calls[c].pc = "review"
                      /\ server.late + calls[c].ready <= Workers

PatchesOf(ctx, f) == {p \in ctx.patches : p[1] = f}
TextsOf(ctx, f)   == {t \in ctx.texts : t[1] = f}

\* A file as `git diff` sees it at the mode's second end, the change it then
\* reports, and the patch of its own a file gets that git does not track.
ToldOf(mode, f) == IF mode = "branch" \/ f \in tree.index THEN ToOf(mode)[f] ELSE Absent

DiffPart(mode, f) ==
  IF FromOf(mode)[f] = ToldOf(mode, f) THEN {} ELSE {<<f, FromOf(mode)[f], ToldOf(mode, f)>>}

NewPart(mode, f) ==
  IF mode = "branch" \/ f \in tree.index \/ ToOf(mode)[f] = Absent THEN {}
  ELSE {<<f, Absent, ToOf(mode)[f]>>}

IsChanged(mode, f) == DiffPart(mode, f) # {} \/ NewPart(mode, f) # {}

\* What a context holds of a file, with what it has still to ask git for and what
\* git would not say.
PatchesFor(ctx, mode, f) ==
  DiffPart(mode, f) \union IF f \in ctx.listed \union ctx.skipped THEN {} ELSE NewPart(mode, f)

TextsFor(ctx, mode, f) ==
  IF f \in ctx.unread \union ctx.unreadable \/ ~IsChanged(mode, f) \/ ToOf(mode)[f] = Absent
  THEN {} ELSE {<<f, ToOf(mode)[f]>>}

\* How far a context has come with a file nobody touched.
FileSound(call, f) ==
  LET mode == call.mode
      ctx == call.ctx
  IN  /\ call.pc \in {"diff", "list", "patch", "read", "judge"} /\ mode = "branch" =>
           ctx.head[f] = tree.head[f]
      /\ call.pc = "list" =>
           /\ PatchesOf(ctx, f) = DiffPart(mode, f)
           /\ f \in ctx.unread <=> DiffPart(mode, f) # {}
      /\ call.pc \in {"patch", "read", "judge"} =>
           /\ PatchesOf(ctx, f) = PatchesFor(ctx, mode, f)
           /\ f \in ctx.listed \union ctx.skipped => NewPart(mode, f) # {}
      /\ call.pc = "patch" => (f \in ctx.unread <=> IsChanged(mode, f))
      /\ call.pc \in {"read", "judge"} =>
           /\ TextsOf(ctx, f) = TextsFor(ctx, mode, f)
           /\ f \in ctx.unread => IsChanged(mode, f)

ContextSound(call) ==
  /\ call.pc \in {"waiting", "load", "ends"} => call.ctx = NoContext
  /\ call.pc = "diff" =>
       call.ctx.patches = {} /\ call.ctx.listed = {} /\ call.ctx.unread = {}
  /\ call.pc \in {"list", "patch"} => call.mode # "branch"
  /\ call.pc \in {"diff", "list"} => call.ctx.skipped = {}
  /\ call.pc \in {"diff", "list", "patch"} => call.ctx.texts = {} /\ call.ctx.unreadable = {}
  /\ call.pc = "patch" => call.ctx.listed \intersect call.ctx.skipped = {}
  /\ call.pc \in {"read", "judge"} => call.ctx.listed = {}
  /\ call.pc = "read" => call.ctx.unread \intersect call.ctx.unreadable = {}
  /\ call.pc = "judge" => call.ctx.unread = {}
  /\ \A f \in Files \ call.moved : FileSound(call, f)
  /\ call.result = "nothing" => call.mode = "uncommitted" \/ setup.hasBase

ContextInv == \A c \in Calls : ContextSound(calls[c])

LocalInv == LocalType /\ ServerInv /\ ContextInv

IInv == SettingsInv /\ BoxInv /\ IdentityInv /\ LocalInv

-------------------------------------------------------------------------------
(* What stands while others move *)

LEMMA SetupFacts ==
  ASSUME setup \in Setups
  PROVE  /\ setup \in SetupSpace
         /\ setup.asked \in SUBSET Clouds /\ setup.tokens \in SUBSET STRING
         /\ setup.inputs \in Layers /\ setup.repo \in Layers /\ setup.stored \in SUBSET Layers
         /\ setup.default \in STRING /\ setup.installed \in BOOLEAN /\ setup.key \in BOOLEAN
         /\ setup.hasBase \in BOOLEAN
         /\ OnPipeline => setup.asked = {}
  BY SettingsAssumption, StartupAssumption
     DEF SettingsAssumption, StartupAssumption, SetupSpace, OnPipeline

\* Credentials that are found stay found, and stay what they were, as more clouds'
\* variables are set.
LEMMA CredentialsStay ==
  ASSUME NEW cfg, ResolvedCredentials(cfg) # Unset, UNCHANGED setup, env \subseteq env'
  PROVE  ResolvedCredentials(cfg)' # Unset
  BY DEF ResolvedCredentials

LEMMA SettingsStand ==
  ASSUME SettingsInv, UNCHANGED setup, UNCHANGED settingsVars, env \subseteq env',
         env' \in SUBSET Clouds
  PROVE  SettingsInv'
<1>1. UNCHANGED <<stored, wizard, setter, answered>>
  BY DEF settingsVars
<1>2. SettingsType'
  BY <1>1 DEF SettingsInv, SettingsType
<1>3. ASSUME answered' # Blank PROVE ResolvedCredentials(answered)' # Unset
  BY <1>1, <1>3 DEF SettingsInv, AnswerInv, ResolvedCredentials, Blank
<1> QED
  BY <1>1, <1>2, <1>3 DEF SettingsInv, AnswerInv, Blank

LEMMA BoxStands ==
  ASSUME BoxInv, UNCHANGED <<setup, env, box, files>>
  PROVE  BoxInv'
  BY DEF BoxInv, BoxSpace, InTerminal, HighestLayer, ForgeOf, Excused

LEMMA IdentityStands ==
  ASSUME IdentityInv, UNCHANGED setup, UNCHANGED identityVars,
         box'.pc # "none" => box.pc # "none",
         IsRunning' => IsRunning,
         box'.posted = "refused" => box.posted = "refused"
  PROVE  IdentityInv'
<1>1. UNCHANGED <<repo, github, broker, job, lost, trusted>>
  BY DEF identityVars
<1>2. IdentityType' /\ ExchangeInv' /\ CustodyInv' /\ VerifiedInv'
  BY <1>1 DEF IdentityInv, IdentityType, ExchangeInv, CustodyInv, VerifiedInv, OnGitHub,
              HandedOutIsVerified, PassesPreMint, InTerminal
<1>3. ContainerInv'
  BY <1>1 DEF IdentityInv, ContainerInv, PostsWithALiveToken
<1> QED
  BY <1>2, <1>3 DEF IdentityInv

\* What is known of a context is of the tree alone.
LEMMA SoundStays ==
  ASSUME NEW call, UNCHANGED <<setup, tree>>
  PROVE  ContextSound(call)' = ContextSound(call)
<1>1. \A mode : FromOf(mode)' = FromOf(mode) /\ ToOf(mode)' = ToOf(mode)
  BY DEF FromOf, ToOf, BaseText
<1>2. \A mode, f : /\ DiffPart(mode, f)' = DiffPart(mode, f)
                   /\ NewPart(mode, f)' = NewPart(mode, f)
                    /\ IsChanged(mode, f)' = IsChanged(mode, f)
  BY <1>1 DEF ToldOf, DiffPart, NewPart, IsChanged
<1>3. ASSUME NEW f PROVE FileSound(call, f)' = FileSound(call, f)
  BY <1>1, <1>2 DEF FileSound, PatchesFor, TextsFor, PatchesOf, TextsOf
<1> QED
  BY <1>3 DEF ContextSound

LEMMA SameSound ==
  ASSUME NEW c, NEW call, call = calls'[c], ContextSound(call)'
  PROVE  ContextSound(calls[c])'
<1>1. \A f : FileSound(calls[c], f)' = FileSound(call, f)'
  <2> SUFFICES ASSUME NEW f PROVE FileSound(calls[c], f)' = FileSound(call, f)'
    OBVIOUS
  <2>1. /\ PatchesOf(calls[c].ctx, f)' = PatchesOf(call.ctx, f)
        /\ TextsOf(calls[c].ctx, f)' = TextsOf(call.ctx, f)
    BY DEF PatchesOf, TextsOf
  <2>2. /\ PatchesOf(call.ctx, f)' = PatchesOf(call.ctx, f)
        /\ TextsOf(call.ctx, f)' = TextsOf(call.ctx, f)
    BY DEF PatchesOf, TextsOf
  <2>3. /\ PatchesFor(calls[c].ctx, call.mode, f)' = PatchesFor(call.ctx, call.mode, f)'
        /\ TextsFor(calls[c].ctx, call.mode, f)' = TextsFor(call.ctx, call.mode, f)'
    BY DEF PatchesFor, TextsFor
  <2> QED
    BY <2>1, <2>2, <2>3 DEF FileSound
<1> QED
  BY <1>1 DEF ContextSound

LEMMA LocalStands ==
  ASSUME LocalInv, UNCHANGED setup, UNCHANGED localVars
  PROVE  LocalInv'
<1>1. UNCHANGED <<tree, edits, server, calls, interrupted>>
  BY DEF localVars
<1>2. LocalType' /\ ServerInv'
  BY <1>1 DEF LocalInv, LocalType, ServerInv
<1>3. ContextInv'
  <2>1. ASSUME NEW c \in Calls PROVE ContextSound(calls[c])'
    <3>1. PICK call \in CallSpace : call = calls[c] /\ ContextSound(call)
      BY DEF LocalInv, LocalType, ContextInv
    <3> QED
      BY <1>1, <3>1, SoundStays, SameSound
  <2> QED
    BY <2>1 DEF ContextInv
<1> QED
  BY <1>2, <1>3 DEF LocalInv

-------------------------------------------------------------------------------
(* The two settings commands *)

LEMMA ChoiceType == WizardChoices \subseteq Layers
<1> SUFFICES ASSUME NEW p \in Answers.provider,
                    NEW choice \in [provider : {p}, model : Answers.model, base : BaseFor(p)]
             PROVE  choice \in Layers
  BY DEF WizardChoices
<1>1. BaseFor(p) \subseteq Values /\ Answers.model \subseteq Values /\ p \in Values
  BY SettingsAssumption DEF SettingsAssumption, Keys, BaseFor, Values
<1> QED
  BY <1>1 DEF Layers, Keys

LEMMA SettingsInvInit ==
  ASSUME EntryInit
  PROVE  SettingsInv
<1>1. setup \in Setups /\ env = {} /\ SettingsInit
  BY DEF EntryInit
<1>2. Blank \in Layers /\ Unset \in Values /\ "model" \in Keys
  BY DEF Blank, Layers, Values, Keys
<1>3. stored \in Layers
  BY <1>1, <1>2, SetupFacts DEF SettingsInit
<1>4. SettingsType
  BY <1>1, <1>2, <1>3 DEF SettingsInit, SettingsType, NoWizard, NoSetter
<1>5. AnswerInv
  BY <1>1 DEF SettingsInit, AnswerInv
<1> QED
  BY <1>4, <1>5 DEF SettingsInv

LEMMA SettingsMove ==
  ASSUME SettingsInv, SettingsSteps
  PROVE  SettingsInv'
<1>0. /\ setup \in Setups /\ env \in SUBSET Clouds /\ stored \in Layers
      /\ wizard \in [pc : {"ask", "verify", "load", "save", "done"}, choice : Layers,
                     data : Layers]
      /\ setter \in [pc : {"ask", "save", "done"}, key : Keys, value : Values, data : Layers]
      /\ answered \in Layers /\ AnswerInv
  BY DEF SettingsInv, SettingsType
<1>1. UNCHANGED <<setup, env>>
  BY DEF SettingsSteps, Choose, VerifySetup, LoadForInit, SaveChoice, SetKey, SaveKey
<1>2. \A cfg : ResolvedCredentials(cfg)' = ResolvedCredentials(cfg)
  BY <1>1 DEF ResolvedCredentials
<1>3. CASE Choose
  <2>1. PICK choice \in WizardChoices, verify \in BOOLEAN :
          wizard' = [wizard EXCEPT !.choice = choice, !.pc = IF verify THEN "verify" ELSE "load"]
    BY <1>3 DEF Choose
  <2>2. UNCHANGED <<stored, setter, answered>> /\ answered = Blank
    BY <1>0, <1>3 DEF Choose, AnswerInv
  <2>3. SettingsType'
    BY <1>0, <1>1, <2>1, <2>2, ChoiceType DEF SettingsType
  <2> QED
    BY <2>2, <2>3 DEF SettingsInv, AnswerInv, Blank
<1>4. CASE VerifySetup
  <2>1. UNCHANGED <<stored, setter>> /\ answered = Blank /\ wizard.pc = "verify"
    BY <1>0, <1>4 DEF VerifySetup, AnswerInv
  <2>2. CASE /\ ResolvedCredentials(wizard.choice) # Unset
             /\ wizard' = [wizard EXCEPT !.pc = "load"] /\ answered' = wizard.choice
    <3>1. SettingsType' /\ wizard'.pc = "load" /\ wizard'.choice = wizard.choice
      BY <1>0, <1>1, <2>1, <2>2 DEF SettingsType
    <3>2. ResolvedCredentials(answered)' # Unset
      BY <1>1, <2>2 DEF ResolvedCredentials
    <3> QED
      BY <2>2, <3>1, <3>2 DEF SettingsInv, AnswerInv
  <2>3. CASE wizard' = [wizard EXCEPT !.pc = "done"] /\ UNCHANGED answered
    BY <1>0, <1>1, <2>1, <2>3 DEF SettingsType, SettingsInv, AnswerInv, Blank
  <2> QED
    BY <1>4, <2>2, <2>3 DEF VerifySetup
<1>5. CASE LoadForInit
  <2>1. /\ wizard' = [wizard EXCEPT !.pc = "save", !.data = stored]
        /\ UNCHANGED <<stored, setter, answered>> /\ wizard.pc = "load"
    BY <1>5 DEF LoadForInit
  <2>2. SettingsType' /\ wizard'.pc = "save" /\ wizard'.choice = wizard.choice
    BY <1>0, <1>1, <2>1 DEF SettingsType
  <2>3. ResolvedCredentials(answered)' = ResolvedCredentials(answered)
    BY <1>1, <2>1 DEF ResolvedCredentials
  <2> QED
    BY <1>0, <2>1, <2>2, <2>3 DEF SettingsInv, AnswerInv, Blank
<1>6. CASE SaveChoice
  <2>1. /\ wizard' = [wizard EXCEPT !.pc = "done"] /\ stored' = wizard.choice
        /\ UNCHANGED <<setter, answered>> /\ wizard.pc = "save"
    BY <1>6 DEF SaveChoice
  <2>2. SettingsType' /\ wizard'.pc = "done"
    BY <1>0, <1>1, <2>1 DEF SettingsType
  <2>3. ResolvedCredentials(answered)' = ResolvedCredentials(answered)
    BY <1>1, <2>1 DEF ResolvedCredentials
  <2> QED
    BY <1>0, <2>1, <2>2, <2>3 DEF SettingsInv, AnswerInv, Blank
<1>7. CASE SetKey
  <2>1. /\ setter' \in {[setter EXCEPT !.pc = "done"]} \union
             UNION {{[pc |-> "save", key |-> k, value |-> v, data |-> stored] : v \in Answers[k]}
                      : k \in Keys}
        /\ UNCHANGED <<stored, wizard, answered>>
    BY <1>7 DEF SetKey
  <2>2. setter' \in [pc : {"ask", "save", "done"}, key : Keys, value : Values, data : Layers]
    <3>1. CASE setter' = [setter EXCEPT !.pc = "done"]
      BY <1>0, <3>1
    <3>2. CASE \E k \in Keys : \E v \in Answers[k] :
                 setter' = [pc |-> "save", key |-> k, value |-> v, data |-> stored]
      BY <1>0, <3>2, SettingsAssumption DEF SettingsAssumption
    <3> QED
      BY <2>1, <3>1, <3>2
  <2>3. SettingsType'
    BY <1>0, <1>1, <2>1, <2>2 DEF SettingsType
  <2>4. ResolvedCredentials(answered)' = ResolvedCredentials(answered)
    BY <1>1, <2>1 DEF ResolvedCredentials
  <2> QED
    BY <1>0, <2>1, <2>3, <2>4 DEF SettingsInv, AnswerInv, Blank
<1>8. CASE SaveKey
  <2>1. /\ stored' = [setter.data EXCEPT ![setter.key] = setter.value]
        /\ setter' = [setter EXCEPT !.pc = "done"]
        /\ answered' = (IF wizard.pc = "done" THEN Blank ELSE answered)
        /\ UNCHANGED wizard
    BY <1>8 DEF SaveKey
  <2>2. stored' \in Layers /\ answered' \in Layers
    <3>1. setter.data \in Layers /\ setter.key \in Keys /\ setter.value \in Values
      BY <1>0
    <3> QED
      BY <1>0, <2>1, <3>1 DEF Layers, Blank, Values
  <2>3. SettingsType'
    BY <1>0, <1>1, <2>1, <2>2 DEF SettingsType
  <2>4. answered' # Blank => answered' = answered /\ wizard.pc # "done"
    BY <2>1
  <2>5. answered' = answered => ResolvedCredentials(answered)' = ResolvedCredentials(answered)
    BY <1>1 DEF ResolvedCredentials
  <2> QED
    BY <1>0, <2>1, <2>3, <2>4, <2>5 DEF SettingsInv, AnswerInv, Blank
<1> QED
  BY <1>3, <1>4, <1>5, <1>6, <1>7, <1>8 DEF SettingsSteps

-------------------------------------------------------------------------------
(* The process *)

LEMMA BoxInvInit ==
  ASSUME EntryInit
  PROVE  BoxInv
<1>1. setup \in Setups /\ env = {} /\ box = NoBox /\ files = {}
  BY DEF EntryInit, IdentityInit
<1> QED
  BY <1>1 DEF BoxInv, BoxSpace, NoBox, Values

\* What the layers come to where no file of a person's is read.
LEMMA LoadedFacts ==
  ASSUME setup \in Setups, ~InTerminal
  PROVE  LoadedConfig \in Layers /\ \A k \in Keys : LoadedConfig[k] = HighestLayer(k)
<1>1. setup.inputs \in Layers /\ setup.repo \in Layers /\ Blank \in Layers
  BY SetupFacts DEF Blank, Layers, Values
<1>2. UserLayer = Blank /\ FileLayer \in Layers
      /\ \A k \in Keys : FileLayer[k] = IF setup.file = "mapping" THEN setup.repo[k] ELSE Unset
  BY <1>1 DEF UserLayer, FileLayer, Blank
<1>3. Layered(Blank, FileLayer) \in Layers
      /\ \A k \in Keys : Layered(Blank, FileLayer)[k] = FileLayer[k]
  BY <1>1, <1>2 DEF Layered, Blank, Layers
<1>4. Layered(Layered(Blank, FileLayer), setup.inputs) \in Layers
      /\ \A k \in Keys : Layered(Layered(Blank, FileLayer), setup.inputs)[k] =
           IF setup.inputs[k] # Unset THEN setup.inputs[k] ELSE FileLayer[k]
  BY <1>1, <1>2, <1>3 DEF Layered, Layers
<1> QED
  BY <1>2, <1>4 DEF LoadedConfig, HighestLayer

\* The variable picked is the runner's own forge's; where none is, none is set.
LEMMA PickedFacts ==
  ASSUME setup \in Setups, ForgeOf # Unset
  PROVE  LET picked == PickedVariable(ForgeOf)
             own == setup.tokens \intersect OwnVariables(setup.runner)
         IN  IF own = {} THEN picked = Unset ELSE picked \in own
<1> DEFINE names == TokenVariables[ForgeOf]
           given == {i \in DOMAIN names : names[i] \in setup.tokens}
           own == setup.tokens \intersect OwnVariables(setup.runner)
<1>1. \/ names \in {<<"GITHUB_TOKEN">>, <<"GITLAB_TOKEN">>, <<"GITEA_TOKEN">>}
         /\ OwnVariables(setup.runner) = {names[1]}
      \/ names = <<"AZURE_DEVOPS_TOKEN", "SYSTEM_ACCESSTOKEN">>
         /\ OwnVariables(setup.runner) = {names[1], names[2]}
  <2>1. \/ setup.runner = "github" /\ ForgeOf = "github"
        \/ setup.runner \in {"gitea", "forgejo"} /\ ForgeOf = "gitea"
        \/ setup.runner = "gitlab" /\ ForgeOf = "gitlab"
        \/ setup.runner = "azure" /\ ForgeOf = "azure_devops"
    BY DEF ForgeOf
  <2> QED
    BY <2>1 DEF TokenVariables, OwnVariables
<1>2. (DOMAIN names = {1} /\ OwnVariables(setup.runner) = {names[1]})
      \/ (DOMAIN names = {1, 2} /\ OwnVariables(setup.runner) = {names[1], names[2]})
  BY <1>1
<1>3. PickedVariable(ForgeOf) =
        IF given = {} THEN Unset ELSE names[CHOOSE i \in given : \A j \in given : i <= j]
  BY DEF PickedVariable
<1> HIDE DEF names
<1>4. given = {} <=> own = {}
  BY <1>2
<1>5. ASSUME given # {}
      PROVE  (CHOOSE i \in given : \A j \in given : i <= j) \in given
  <2>1. \E i \in given : \A j \in given : i <= j
    BY <1>2, <1>5
  <2> QED
    BY <2>1
<1>6. \A i \in given : names[i] \in own
  BY <1>2
<1> QED
  BY <1>3, <1>4, <1>5, <1>6

LEMMA LeavingFacts ==
  ASSUME BoxInv, NEW code \in {0, 1}
  PROVE  LET b == Leaving(box, code)
         IN  /\ b \in BoxSpace /\ b.pc = "leaving" /\ b.code = code /\ b.cfg = box.cfg
             /\ b.posted = box.posted /\ b.killed = box.killed
  BY DEF BoxInv, BoxSpace, Leaving

\* A process that leaves, having posted or with what excuses it.
LEMMA LeavesInv ==
  ASSUME setup \in Setups, BoxInv, UNCHANGED <<setup, env>>, ~InTerminal,
         box' \in BoxSpace, box'.pc = "leaving", box'.cfg = box.cfg,
         box'.code = 1 /\ box'.posted = "nothing" /\ box.cfg # Unset => Excused
  PROVE  BoxInv'
<1>1. Excused' = Excused
  BY DEF Excused, ForgeOf
<1>2. ~InTerminal'
  BY DEF InTerminal
<1>3. env' \in {{}, setup'.asked}
  BY DEF BoxInv
<1> QED
  BY <1>1, <1>2, <1>3 DEF BoxInv

LEMMA StartBoxInv ==
  ASSUME setup \in Setups, BoxInv, StartBox, ~InTerminal
  PROVE  BoxInv'
<1>1. box' = [NoBox EXCEPT !.pc = IF OnPipeline THEN "config" ELSE "route"]
      /\ UNCHANGED <<setup, env, files>> /\ env = {}
  BY DEF StartBox, BoxInv
<1>2. box' \in BoxSpace /\ box'.pc = (IF OnPipeline THEN "config" ELSE "route")
      /\ box'.cfg = Unset
  BY <1>1 DEF NoBox, BoxSpace, Values
<1>3. OnPipeline => setup.asked = {}
  BY SetupFacts
<1>4. box'.updates = {}
  BY <1>1 DEF NoBox
<1> QED
  BY <1>1, <1>2, <1>3, <1>4 DEF BoxInv, InTerminal

LEMMA EntrypointMoves ==
  ASSUME setup \in Setups, BoxInv, EntrypointSteps
  PROVE  BoxInv' /\ env \subseteq env' /\ env' \in SUBSET Clouds
<1>0. /\ box \in BoxSpace /\ ~InTerminal /\ UNCHANGED setup
      /\ env \in {{}, setup.asked} /\ setup.asked \in SUBSET Clouds
  BY SetupFacts DEF BoxInv, EntrypointSteps, Route, FetchIdToken, ApplyUpdates, LoadConfig, RouteEvent,
         BuildContext, EndReview, LeaveBox
<1>1. CASE Route
  <2>1. box.pc = "route" /\ UNCHANGED <<env, files>> /\ env = {} /\ box.cfg = Unset
    BY <1>1 DEF Route, BoxInv
  <2>2. CASE box' = [box EXCEPT !.pc = "federate", !.left = setup.asked]
    <3>1. /\ box' \in BoxSpace /\ box'.pc = "federate" /\ box'.left = setup.asked
          /\ box'.cfg = Unset
      BY <1>0, <2>1, <2>2 DEF BoxSpace
    <3>2. box'.updates \union box'.left = setup.asked
      BY <1>0, <2>1, <2>2, <3>1 DEF BoxSpace, BoxInv
    <3> QED
      BY <1>0, <2>1, <3>1, <3>2 DEF BoxInv, InTerminal
  <2>3. CASE \E code \in {0, 1} : box' = Leaving(box, code)
    BY <1>0, <2>1, <2>3, LeavingFacts, LeavesInv
  <2> QED
    BY <1>0, <1>1, <2>1, <2>2, <2>3 DEF Route
<1>2. CASE FetchIdToken
  <2>1. box.pc = "federate" /\ UNCHANGED env /\ env = {} /\ box.cfg = Unset
        /\ box.updates \union box.left = setup.asked
    BY <1>2 DEF FetchIdToken, BoxInv
  <2>2. ASSUME NEW c \in Requests(box.left),
               box' = [box EXCEPT !.left = @ \ {c}, !.updates = @ \union {c}]
        PROVE  BoxInv'
    <3>1. c \in box.left /\ box.left \in SUBSET Clouds /\ box.updates \in SUBSET Clouds
      BY <1>0, <2>2 DEF Requests, BoxSpace
    <3>2. /\ box' \in BoxSpace /\ box'.pc = "federate" /\ box'.left = box.left \ {c}
          /\ box'.updates = box.updates \union {c} /\ box'.cfg = Unset
      BY <1>0, <2>1, <2>2, <3>1 DEF BoxSpace
    <3>3. box'.updates \union box'.left = setup.asked
      BY <2>1, <3>1, <3>2
    <3> QED
      BY <1>0, <2>1, <3>2, <3>3 DEF BoxInv, InTerminal
  <2>3. CASE box' = Leaving(box, 1)
    BY <1>0, <2>1, <2>3, LeavingFacts, LeavesInv
  <2> QED
    BY <1>0, <1>2, <2>1, <2>2, <2>3 DEF FetchIdToken
<1>3. CASE ApplyUpdates
  <2>1. /\ box.pc = "federate" /\ box.left = {} /\ UNCHANGED files /\ env = {}
        /\ box.cfg = Unset /\ box.updates = setup.asked
        /\ env' = env \union box.updates /\ box' = [box EXCEPT !.pc = "config"]
    BY <1>3 DEF ApplyUpdates, BoxInv
  <2>2. box' \in BoxSpace /\ box'.pc = "config" /\ box'.cfg = Unset
    BY <1>0, <2>1 DEF BoxSpace
  <2>3. env' = setup.asked
    BY <2>1
  <2> QED
    BY <1>0, <2>1, <2>2, <2>3 DEF BoxInv, InTerminal
<1>4. CASE LoadConfig
  <2>1. box.pc = "config" /\ UNCHANGED <<env, files>> /\ env = setup.asked /\ box.cfg = Unset
    BY <1>4 DEF LoadConfig, BoxInv
  <2>2. CASE box' = [box EXCEPT !.pc = "event", !.cfg = LoadedConfig]
    <3>1. LoadedConfig \in Layers /\ \A k \in Keys : LoadedConfig[k] = HighestLayer(k)
      BY <1>0, LoadedFacts
    <3>2. box' \in BoxSpace /\ box'.pc = "event" /\ box'.cfg = LoadedConfig
      BY <1>0, <2>2, <3>1 DEF BoxSpace
    <3> QED
      BY <1>0, <2>1, <3>1, <3>2 DEF BoxInv, InTerminal, HighestLayer
  <2>3. CASE box' = Leaving(box, 1)
    BY <1>0, <2>1, <2>3, LeavingFacts, LeavesInv
  <2> QED
    BY <1>0, <1>4, <2>1, <2>2, <2>3 DEF LoadConfig
<1>5. CASE RouteEvent
  <2>1. /\ box.pc = "event" /\ UNCHANGED <<env, files>> /\ env = setup.asked
        /\ box.cfg \in Layers /\ \A k \in Keys : box.cfg[k] = HighestLayer(k)
    BY <1>5 DEF RouteEvent, BoxInv
  <2>2. CASE box' = [box EXCEPT !.pc = "build", !.forge = ForgeOf] /\ ForgeOf # Unset
    <3>1. ForgeOf \in {"github", "gitlab", "gitea", "azure_devops"}
      BY <2>2 DEF ForgeOf
    <3>2. box' \in BoxSpace /\ box'.pc = "build" /\ box'.forge = ForgeOf /\ box'.cfg = box.cfg
      BY <1>0, <2>2, <3>1 DEF BoxSpace
    <3>3. ForgeOf' = ForgeOf /\ \A k : HighestLayer(k)' = HighestLayer(k)
      BY <1>0 DEF ForgeOf, HighestLayer
    <3> QED
      BY <1>0, <2>1, <2>2, <3>2, <3>3 DEF BoxInv, InTerminal
  <2>3. CASE box' = Leaving(box, 0)
    BY <1>0, <2>1, <2>3, LeavingFacts, LeavesInv
  <2>4. CASE box' = Leaving(box, 1) /\ ForgeOf = Unset
    <3>1. Excused
      BY <2>4 DEF Excused
    <3> QED
      BY <1>0, <2>1, <2>4, <3>1, LeavingFacts, LeavesInv
  <2> QED
    BY <1>0, <1>5, <2>1, <2>2, <2>3, <2>4 DEF RouteEvent
<1>6. CASE BuildContext
  <2> DEFINE variable == PickedVariable(ForgeOf)
             auth == ResolvedCredentials(box.cfg)
             own == setup.tokens \intersect OwnVariables(setup.runner)
  <2>1. /\ box.pc = "build" /\ UNCHANGED <<env, files>> /\ env = setup.asked
        /\ box.cfg \in Layers /\ \A k \in Keys : box.cfg[k] = HighestLayer(k)
        /\ box.forge = ForgeOf /\ ForgeOf # Unset
    BY <1>6 DEF BuildContext, BoxInv
  <2>2. IF own = {} THEN variable = Unset ELSE variable \in own
    BY <2>1, PickedFacts
  <2>3. /\ auth \in {"own", "key", "ambient", Unset} /\ (auth = "ambient" => setup.asked # {})
        /\ (box.cfg.provider = "vertex" /\ "gcp" \in setup.asked => auth # Unset)
    <3>1. auth \in {"own", "ambient", "key", Unset}
      BY DEF ResolvedCredentials
    <3>2. Unset # "ambient"
      BY SettingsAssumption DEF SettingsAssumption
    <3>3. auth = "ambient" => setup.asked # {}
      BY <2>1, <3>2 DEF ResolvedCredentials
    <3>4. box.cfg.provider = "vertex" /\ "gcp" \in setup.asked => auth = "ambient"
      BY <2>1 DEF ResolvedCredentials
    <3> QED
      BY <3>1, <3>2, <3>3, <3>4
  <2>4. CASE box' = [box EXCEPT !.pc = "review", !.variable = variable, !.auth = auth]
             /\ variable # Unset /\ auth # Unset
    <3>1. variable \in own /\ variable \in Values
      BY <2>2, <2>4, SetupFacts DEF Values
    <3> HIDE DEF variable, auth, own
    <3>2. /\ box' \in BoxSpace /\ box'.pc = "review" /\ box'.cfg = box.cfg
          /\ box'.variable = variable /\ box'.auth = auth
      BY <1>0, <2>3, <2>4, <3>1 DEF BoxSpace
    <3>3. \A k : HighestLayer(k)' = HighestLayer(k)
      BY <1>0 DEF HighestLayer
    <3>4. own = setup'.tokens \intersect OwnVariables(setup'.runner)
      BY <1>0 DEF own
    <3> QED
      BY <1>0, <2>1, <2>3, <2>4, <3>1, <3>2, <3>3, <3>4 DEF BoxInv, InTerminal
  <2>5. CASE box' = Leaving(box, 1) /\ (variable = Unset \/ auth = Unset)
    <3>1. own # {} => own \subseteq STRING
      BY SetupFacts
    <3>2. Excused
      BY <2>2, <2>3, <2>5, <3>1, SettingsAssumption DEF Excused, SettingsAssumption
    <3> QED
      BY <1>0, <2>1, <2>5, <3>2, LeavingFacts, LeavesInv
  <2> QED
    BY <1>0, <1>6, <2>1, <2>4, <2>5 DEF BuildContext
<1>7. CASE EndReview
  <2>1. box.pc = "review" /\ UNCHANGED <<env, files>> /\ box' = [box EXCEPT !.pc = "post"]
    BY <1>7 DEF EndReview
  <2>2. /\ box' \in BoxSpace /\ box'.pc = "post" /\ box'.cfg = box.cfg
        /\ box'.variable = box.variable /\ box'.auth = box.auth
    BY <1>0, <2>1 DEF BoxSpace
  <2>3. \A k : HighestLayer(k)' = HighestLayer(k)
    BY <1>0 DEF HighestLayer
  <2> QED
    BY <1>0, <2>1, <2>2, <2>3 DEF BoxInv, InTerminal
<1>8. CASE LeaveBox
  <2>1. /\ box.pc = "leaving" /\ UNCHANGED env /\ box' = [box EXCEPT !.pc = "gone"]
        /\ files' = {}
    BY <1>8 DEF LeaveBox
  <2>2. /\ box' \in BoxSpace /\ box'.pc = "gone" /\ box'.cfg = box.cfg /\ box'.code = box.code
        /\ box'.posted = box.posted /\ box'.killed = box.killed
    BY <1>0, <2>1 DEF BoxSpace
  <2>3. Excused' = Excused
    BY <1>0, <2>2 DEF Excused, ForgeOf
  <2> QED
    BY <1>0, <2>1, <2>2, <2>3 DEF BoxInv, InTerminal
<1> QED
  BY <1>1, <1>2, <1>3, <1>4, <1>5, <1>6, <1>7, <1>8 DEF EntrypointSteps

LEMMA DeliverInv ==
  ASSUME setup \in Setups, BoxInv, NEW accepted \in BOOLEAN, Deliver(accepted)
  PROVE  /\ BoxInv' /\ UNCHANGED <<setup, env>> /\ IsRunning /\ box.pc = "post"
         /\ box'.posted = (IF accepted THEN "review" ELSE "refused") /\ box'.pc = "leaving"
<1> DEFINE code == IF accepted THEN 0 ELSE 1
           posted == IF accepted THEN "review" ELSE "refused"
           b == Leaving(box, code)
<1>1. /\ box.pc = "post" /\ UNCHANGED <<setup, env, files>> /\ ~InTerminal
      /\ box' = [b EXCEPT !.posted = posted]
  BY DEF Deliver, BoxInv
<1>2. /\ b \in BoxSpace /\ b.pc = "leaving" /\ b.cfg = box.cfg
      /\ posted \in {"review", "refused"}
  BY LeavingFacts
<1> HIDE DEF b, posted
<1>3. box' \in BoxSpace /\ box'.pc = "leaving" /\ box'.cfg = box.cfg /\ box'.posted = posted
  BY <1>1, <1>2 DEF BoxSpace
<1>4. BoxInv'
  BY <1>1, <1>2, <1>3, LeavesInv
<1> QED
  BY <1>1, <1>3, <1>4 DEF IsRunning, posted

\* A signal is remembered, or is the end of the process.
LEMMA SignalInv ==
  ASSUME setup \in Setups, BoxInv, IsRunning, UNCHANGED <<setup, env, files>>,
         box' = Signalled(box) \/ box' = Killed
  PROVE  /\ BoxInv' /\ box'.pc # "none" /\ box.pc # "none" /\ box'.posted = box.posted
         /\ (box' = Killed => ~IsRunning')
<1>0. box \in BoxSpace /\ box.pc \notin {"none", "gone"}
  BY DEF BoxInv, IsRunning
<1>1. CASE box' = [box EXCEPT !.signalled = TRUE]
  <2>1. /\ box' \in BoxSpace /\ box'.pc = box.pc /\ box'.cfg = box.cfg /\ box'.code = box.code
        /\ box'.posted = box.posted /\ box'.killed = box.killed /\ box'.auth = box.auth
        /\ box'.variable = box.variable /\ box'.forge = box.forge /\ box'.left = box.left
        /\ box'.updates = box.updates
    BY <1>0, <1>1 DEF BoxSpace
  <2>2. /\ Excused' = Excused /\ ForgeOf' = ForgeOf
        /\ \A k : HighestLayer(k)' = HighestLayer(k)
    BY <2>1 DEF Excused, ForgeOf, HighestLayer
  <2>3. BoxInv'
    BY <2>1, <2>2 DEF BoxInv, InTerminal
  <2>4. box' # Killed
    BY <1>0, <2>1 DEF Killed, BoxSpace
  <2> QED
    BY <1>0, <2>1, <2>3, <2>4
<1>2. CASE box' = Killed
  <2>1. /\ box' \in BoxSpace /\ box'.pc = "gone" /\ box'.killed /\ box'.posted = box.posted
    BY <1>0, <1>2 DEF BoxSpace, Killed
  <2>2. BoxInv'
    BY <1>0, <2>1 DEF BoxInv, InTerminal
  <2> QED
    BY <1>0, <2>1, <2>2 DEF IsRunning
<1> QED
  BY <1>1, <1>2 DEF Signalled

-------------------------------------------------------------------------------
(* The job, where the broker is not at work *)

LEMMA IdentityInvInit ==
  ASSUME EntryInit
  PROVE  IdentityInv
<1>1. setup \in Setups /\ IdentityInit
  BY DEF EntryInit
<1>2. IdentityType
  BY <1>1, SetupFacts DEF IdentityInit, IdentityType, NoToken, SignedId, SignedOwner
<1>3. ExchangeInv /\ CustodyInv
  BY <1>1 DEF IdentityInit, ExchangeInv, CustodyInv, NoToken, OnGitHub, InTerminal
<1>4. VerifiedInv /\ ContainerInv
  BY <1>1 DEF IdentityInit, VerifiedInv, ContainerInv, HandedOutIsVerified, NoToken, IsRunning,
              NoBox, PostsWithALiveToken
<1> QED
  BY <1>2, <1>3, <1>4 DEF IdentityInv

\* The job goes a step on with the token it has; a token is never at the end but
\* revoked.
LEMMA JobAdvances ==
  ASSUME IdentityInv, UNCHANGED <<setup, repo, github, broker, lost, trusted>>,
         NEW step, NEW failed \in BOOLEAN, NEW cancelled \in BOOLEAN, NEW missed \in BOOLEAN,
         job' = [job EXCEPT !.step = step, !.failed = failed, !.cancelled = cancelled,
                            !.missed = missed],
         step \in {"exchange", "run", "running", "stop", "stopping", "revoke", "done"}
           \/ step = job.step,
         step = "exchange" => job.step \in {"validate", "exchange"},
         step \in {"exchange", "stop", "stopping", "revoke"} => OnGitHub,
         InTerminal => step = "done",
         step = "done" => job.step = "done" \/ ~OnGitHub,
         job.step = "done" => step = "done",
         ContainerInv'
  PROVE  IdentityInv'
<1>0. /\ job \in [step : {"validate", "exchange", "waiting", "run", "running", "stop", "stopping",
                          "revoke", "done"},
                  failed : BOOLEAN, cancelled : BOOLEAN, token : {0, 1}, missed : BOOLEAN]
      /\ ExchangeInv /\ CustodyInv /\ VerifiedInv /\ IdentityType
  BY DEF IdentityInv, IdentityType
<1>1. job'.step = step /\ job'.token = job.token
  BY <1>0
<1>2. IdentityType'
  <2>1. job' \in [step : {"validate", "exchange", "waiting", "run", "running", "stop", "stopping",
                         "revoke", "done"},
                 failed : BOOLEAN, cancelled : BOOLEAN, token : {0, 1}, missed : BOOLEAN]
    <3>1. step \in {"validate", "exchange", "waiting", "run", "running", "stop", "stopping",
                   "revoke", "done"}
      BY <1>0
    <3> QED
      BY <1>0, <3>1
  <2> QED
    BY <1>0, <2>1 DEF IdentityType
<1>3. ExchangeInv'
  BY <1>0, <1>1 DEF ExchangeInv, OnGitHub, InTerminal
<1>4. CustodyInv'
  <2>1. job.token # NoToken => step \in {"run", "running", "stop", "stopping", "revoke", "done"}
    BY <1>0 DEF CustodyInv, ExchangeInv
  <2>2. step = "done" /\ job.step # "done" => job.token = NoToken
    BY <1>0 DEF CustodyInv
  <2>3. 0 \notin github.live
    BY <1>0 DEF IdentityType
  <2> QED
    BY <1>0, <1>1, <2>1, <2>2, <2>3 DEF CustodyInv, OnGitHub, NoToken
<1>5. VerifiedInv'
  BY <1>0, <1>1 DEF VerifiedInv, PassesPreMint, HandedOutIsVerified
<1> QED
  BY <1>2, <1>3, <1>4, <1>5 DEF IdentityInv

\* Advance, spelt out.
LEMMA AdvanceFacts ==
  ASSUME IdentityType, NEW step, NEW failed \in BOOLEAN
  PROVE  /\ Advance(step, failed) =
              [job EXCEPT !.step = step, !.failed = job.failed \/ failed,
                          !.cancelled = job.cancelled, !.missed = job.missed]
         /\ (job.failed \/ failed) \in BOOLEAN /\ job.cancelled \in BOOLEAN
         /\ job.missed \in BOOLEAN /\ job.token \in {0, 1}
  BY DEF IdentityType, Advance

LEMMA JobStepInvs ==
  ASSUME setup \in Setups, BoxInv, IdentityInv,
         Validate \/ SkipExchange \/ GiveUpWaiting \/ SkipRun \/ EndOfRun
  PROVE  IdentityInv'
<1>0. /\ IdentityType /\ ExchangeInv /\ ContainerInv
      /\ UNCHANGED <<setup, box, repo, github, broker, lost, trusted>>
  BY DEF IdentityInv, Validate, SkipExchange, GiveUpWaiting, SkipRun, EndOfRun
<1>1. PICK step \in {"exchange", "run", "stop", "done"}, failed \in BOOLEAN :
        /\ job' = Advance(step, failed)
        /\ step = "exchange" => job.step = "validate"
        /\ step = "stop" => OnGitHub
        /\ step = "done" => ~OnGitHub /\ (box.pc = "gone" \/ job.step = "run")
        /\ step \in {"exchange", "run"} =>
             job.step \in {"validate", "exchange", "waiting"}
        /\ job.step \in {"validate", "exchange", "waiting", "run", "running"}
  <2>1. CASE Validate
    BY <2>1 DEF Validate
  <2>2. CASE SkipExchange
    BY <2>2 DEF SkipExchange
  <2>3. CASE GiveUpWaiting
    BY <2>3 DEF GiveUpWaiting
  <2>4. CASE SkipRun
    BY <2>4 DEF SkipRun
  <2>5. CASE EndOfRun
    BY <2>5 DEF EndOfRun
  <2> QED
    BY <2>1, <2>2, <2>3, <2>4, <2>5
<1>2. /\ job' = [job EXCEPT !.step = step, !.failed = job.failed \/ failed,
                            !.cancelled = job.cancelled, !.missed = job.missed]
      /\ (job.failed \/ failed) \in BOOLEAN /\ job.cancelled \in BOOLEAN
      /\ job.missed \in BOOLEAN
  BY <1>0, <1>1, AdvanceFacts
<1>3. job'.step = step /\ job'.missed = job.missed
  BY <1>0, <1>2 DEF IdentityType
<1>4. ContainerInv'
  BY <1>0, <1>1, <1>3 DEF ContainerInv, IsRunning, PostsWithALiveToken
<1>5. step \in {"exchange", "stop", "stopping", "revoke"} => OnGitHub
  BY <1>0, <1>1 DEF ExchangeInv
<1>6. ~InTerminal
  BY <1>0, <1>1 DEF ExchangeInv
<1> QED
  BY <1>0, <1>1, <1>2, <1>4, <1>5, <1>6, JobAdvances

LEMMA RunContainerInv ==
  ASSUME setup \in Setups, BoxInv, IdentityInv, RunContainer
  PROVE  BoxInv' /\ IdentityInv'
<1>0. /\ IdentityType /\ ExchangeInv /\ ContainerInv
      /\ UNCHANGED <<setup, repo, github, broker, lost, trusted>>
      /\ job.step = "run" /\ StartBox /\ job' = Advance("running", FALSE)
  BY DEF IdentityInv, RunContainer, StartBox
<1>1. ~InTerminal
  BY <1>0 DEF ExchangeInv
<1>2. BoxInv'
  BY <1>0, <1>1, StartBoxInv
<1>3. job.failed \in BOOLEAN /\ job.cancelled \in BOOLEAN /\ job.missed \in BOOLEAN
  BY <1>0 DEF IdentityType
<1>4. job' = [job EXCEPT !.step = "running", !.failed = job.failed,
                         !.cancelled = job.cancelled, !.missed = job.missed]
  BY <1>0, <1>3 DEF IdentityType, Advance
<1>5. job'.step = "running"
  BY <1>0, <1>4 DEF IdentityType
<1>6. box'.posted = "nothing"
  BY <1>0 DEF StartBox, NoBox
<1>7. ContainerInv'
  BY <1>5, <1>6 DEF ContainerInv, PostsWithALiveToken
<1>8. PICK step \in {"running"} :
        job' = [job EXCEPT !.step = step, !.failed = job.failed,
                           !.cancelled = job.cancelled, !.missed = job.missed]
  BY <1>4
<1>9. /\ step # job.step /\ step # "done" /\ job.step # "done"
      /\ step \notin {"exchange", "stop", "stopping", "revoke"}
      /\ step \in {"exchange", "run", "running", "stop", "stopping", "revoke", "done"}
  BY <1>0
<1>10. IdentityInv'
  BY <1>0, <1>1, <1>3, <1>7, <1>8, <1>9, JobAdvances
<1> QED
  BY <1>2, <1>10

LEMMA StopInvs ==
  ASSUME setup \in Setups, BoxInv, IdentityInv, StopContainer \/ ContainerStopped
  PROVE  BoxInv' /\ IdentityInv'
<1>0. /\ IdentityType /\ ExchangeInv /\ ContainerInv /\ job.step \in {"stop", "stopping"}
      /\ UNCHANGED <<setup, env, files, repo, github, broker, lost, trusted>> /\ OnGitHub
  BY DEF IdentityInv, StopContainer, ContainerStopped, ExchangeInv
<1>1. PICK step \in {"stopping", "revoke"}, missed \in BOOLEAN :
        /\ job' = [job EXCEPT !.step = step, !.failed = job.failed,
                              !.cancelled = job.cancelled, !.missed = missed]
        /\ job.missed => missed
        /\ \/ UNCHANGED box
           \/ IsRunning /\ box' = Signalled(box) /\ step = "stopping"
           \/ IsRunning /\ box' = Killed
        /\ step = "revoke" => missed \/ ~IsRunning \/ (IsRunning /\ box' = Killed)
  <2>0. \A s \in {"stopping", "revoke"} :
          /\ Advance(s, FALSE) = [job EXCEPT !.step = s, !.failed = job.failed,
                                             !.cancelled = job.cancelled, !.missed = job.missed]
          /\ [Advance(s, FALSE) EXCEPT !.missed = TRUE] =
               [job EXCEPT !.step = s, !.failed = job.failed,
                           !.cancelled = job.cancelled, !.missed = TRUE]
    BY <1>0 DEF IdentityType, Advance
  <2>1. job.missed \in BOOLEAN
    BY <1>0 DEF IdentityType
  <2>2. CASE StopContainer
    BY <2>0, <2>1, <2>2 DEF StopContainer
  <2>3. CASE ContainerStopped
    BY <2>0, <2>1, <2>3 DEF ContainerStopped
  <2> QED
    BY <2>2, <2>3
<1>2. /\ BoxInv' /\ box'.posted = box.posted
      /\ (IsRunning /\ box' = Killed => ~IsRunning')
  <2>1. CASE UNCHANGED box
    BY <1>0, <2>1, BoxStands, SignalInv
  <2>2. CASE IsRunning /\ (box' = Signalled(box) \/ box' = Killed)
    BY <1>0, <2>2, SignalInv
  <2> QED
    BY <1>1, <2>1, <2>2
<1>3. job'.step = step /\ job'.missed = missed
  BY <1>0, <1>1 DEF IdentityType
<1>4. ContainerInv'
  <2>1. UNCHANGED box => IsRunning' = IsRunning
    BY DEF IsRunning
  <2> QED
    BY <1>0, <1>1, <1>2, <1>3, <2>1 DEF ContainerInv, PostsWithALiveToken
<1>5. ~InTerminal /\ job.failed \in BOOLEAN /\ job.cancelled \in BOOLEAN
  BY <1>0 DEF ExchangeInv, IdentityType
<1> QED
  BY <1>0, <1>1, <1>2, <1>4, <1>5, JobAdvances

LEMMA CancelInvs ==
  ASSUME setup \in Setups, BoxInv, IdentityInv, CancelJob \/ RunnerKills
  PROVE  BoxInv' /\ IdentityInv'
<1>0. /\ IdentityType /\ ExchangeInv /\ ContainerInv
      /\ UNCHANGED <<setup, env, files, repo, github, broker, lost, trusted>>
  BY DEF IdentityInv, CancelJob, RunnerKills
<1>1. UNCHANGED box \/ (IsRunning /\ box' = Signalled(box))
  BY DEF CancelJob, RunnerKills
<1>2. /\ BoxInv' /\ box'.posted = box.posted /\ (box'.pc # "none" => box.pc # "none")
      /\ (IsRunning' => IsRunning)
  <2>1. CASE UNCHANGED box
    BY <1>0, <2>1, BoxStands DEF IsRunning
  <2>2. CASE IsRunning /\ box' = Signalled(box)
    BY <1>0, <2>2, SignalInv
  <2> QED
    BY <1>1, <2>1, <2>2
<1>3. CASE CancelJob
  <2> DEFINE step == IF job.step = "waiting" THEN "run" ELSE job.step
  <2>1. job' = [job EXCEPT !.step = step, !.failed = job.failed, !.cancelled = TRUE,
                           !.missed = job.missed]
        /\ job.step \notin {"stop", "stopping", "revoke", "done"}
    BY <1>0, <1>3 DEF CancelJob, IdentityType
  <2>2. job'.step = step /\ job'.missed = job.missed /\ job.failed \in BOOLEAN
        /\ job.missed \in BOOLEAN
    BY <1>0, <2>1 DEF IdentityType
  <2>3. ContainerInv'
    BY <1>0, <1>2, <2>1, <2>2 DEF ContainerInv, PostsWithALiveToken
  <2>4. ~InTerminal /\ (step = "exchange" => job.step = "exchange")
        /\ (step \in {"exchange", "stop", "stopping", "revoke"} => OnGitHub)
        /\ (step = "run" \/ step = job.step) /\ step # "done"
    BY <1>0, <2>1 DEF ExchangeInv
  <2> QED
    BY <1>0, <1>2, <2>1, <2>2, <2>3, <2>4, JobAdvances
<1>4. CASE RunnerKills
  <2>1. UNCHANGED identityVars
    BY <1>0, <1>4 DEF RunnerKills, identityVars
  <2> QED
    BY <1>0, <1>2, <2>1, IdentityStands
<1> QED
  BY <1>3, <1>4

LEMMA ContainerPostsInv ==
  ASSUME setup \in Setups, BoxInv, IdentityInv, ContainerPosts
  PROVE  BoxInv' /\ IdentityInv' /\ UNCHANGED <<setup, env>>
<1>0. IdentityType /\ ExchangeInv /\ CustodyInv /\ VerifiedInv /\ ContainerInv
  BY DEF IdentityInv
<1>1. Deliver(TokenIsLive) /\ UNCHANGED identityVars
  BY DEF ContainerPosts
<1>2. PICK accepted \in BOOLEAN : (accepted <=> TokenIsLive) /\ Deliver(accepted)
  <2>1. CASE TokenIsLive
    <3>1. Deliver(TRUE)
      BY <1>1, <2>1 DEF Deliver
    <3> QED
      BY <2>1, <3>1
  <2>2. CASE ~TokenIsLive
    <3>1. Deliver(FALSE)
      BY <1>1, <2>2 DEF Deliver
    <3> QED
      BY <2>2, <3>1
  <2> QED
    BY <2>1, <2>2
<1>3. /\ BoxInv' /\ UNCHANGED <<setup, env>> /\ IsRunning
      /\ box'.posted = (IF accepted THEN "review" ELSE "refused") /\ box'.pc = "leaving"
      /\ box.pc = "post"
  BY <1>2, DeliverInv
<1>4. box'.posted = "refused" => job.missed
  BY <1>0, <1>2, <1>3 DEF TokenIsLive, CustodyInv, ContainerInv
<1>5. UNCHANGED <<repo, github, broker, job, lost, trusted>>
  BY <1>1 DEF identityVars
<1>6. ContainerInv'
  BY <1>0, <1>3, <1>4, <1>5 DEF ContainerInv, PostsWithALiveToken, IsRunning
<1>7. IdentityType' /\ ExchangeInv' /\ CustodyInv' /\ VerifiedInv'
  BY <1>0, <1>3, <1>5 DEF IdentityType, ExchangeInv, CustodyInv, VerifiedInv, OnGitHub,
                          HandedOutIsVerified, PassesPreMint, InTerminal
<1> QED
  BY <1>3, <1>6, <1>7 DEF IdentityInv

-------------------------------------------------------------------------------
(* The broker, and the job where it deals with it *)

BrokerSpace ==
  [pc : {"idle", "verify", "find", "mint", "check", "revoke", "reply", "refuse", "answered"},
   tries : Nat, account : Nat \union {Unset}, token : {0, 1}]

GitHubSpace == [minted : {0, 1}, live : SUBSET {1}]

\* A broker at work goes on, with what it must hold where it gets to; the job has
\* no token yet.
LEMMA BrokerGoesOn ==
  ASSUME IdentityInv, UNCHANGED <<setup, box, job, repo, trusted>>,
         broker.pc \notin {"idle", "answered"}, broker' \in BrokerSpace, github' \in GitHubSpace,
         lost' \in SUBSET {1}, broker'.pc # "idle",
         broker'.pc = "answered" => job.step # "waiting",
         broker'.pc \in {"verify", "find", "mint"} => github'.minted = 0,
         github'.minted = 0 => github'.live = {},
         broker'.pc \in {"check", "revoke", "reply"} => broker'.token \in github'.live,
         broker'.pc \notin {"check", "revoke", "reply"} => broker'.token = NoToken,
         github'.live \subseteq lost' \union {broker'.token},
         broker'.pc \in {"find", "mint", "check", "revoke", "reply"} => PassesPreMint,
         broker'.pc = "reply" => setup.branch \in trusted
  PROVE  IdentityInv'
<1>0. IdentityType /\ ExchangeInv /\ CustodyInv /\ VerifiedInv /\ ContainerInv
  BY DEF IdentityInv
<1>1. job.token = NoToken /\ OnGitHub /\ job.step \notin {"validate", "exchange"}
  BY <1>0 DEF CustodyInv, ExchangeInv
<1>2. IdentityType'
  BY <1>0 DEF IdentityType, BrokerSpace, GitHubSpace
<1>3. ExchangeInv'
  BY <1>0, <1>1 DEF ExchangeInv, OnGitHub, InTerminal
<1>4. CustodyInv'
  BY <1>0, <1>1 DEF CustodyInv
<1>5. VerifiedInv'
  BY <1>0, <1>1 DEF VerifiedInv, PassesPreMint, HandedOutIsVerified
<1>6. ContainerInv'
  BY <1>0 DEF ContainerInv, IsRunning, PostsWithALiveToken
<1> QED
  BY <1>2, <1>3, <1>4, <1>5, <1>6 DEF IdentityInv

\* What the broker holds.
LEMMA BrokerFacts ==
  ASSUME IdentityInv, broker.pc \notin {"idle", "answered"}
  PROVE  /\ broker \in BrokerSpace /\ github \in GitHubSpace /\ lost \in SUBSET {1}
         /\ repo.owner \in Nat
         /\ broker.pc \in {"verify", "find", "mint"} => github.minted = 0 /\ github.live = {}
         /\ github.minted = 0 => github.live = {}
         /\ broker.pc \in {"check", "revoke", "reply"} => broker.token \in github.live
         /\ broker.pc \notin {"check", "revoke", "reply"} => broker.token = NoToken
         /\ github.live \subseteq lost \union {broker.token}
         /\ broker.pc \in {"find", "mint", "check", "revoke", "reply"} => PassesPreMint
         /\ \A pc \in {"verify", "find", "mint", "check", "revoke", "reply", "refuse",
                       "answered"} :
              /\ Answer(pc) \in BrokerSpace /\ Answer(pc).pc = pc
              /\ Answer(pc).token = broker.token
              /\ [Answer(pc) EXCEPT !.token = NoToken] \in BrokerSpace
              /\ [Answer(pc) EXCEPT !.token = NoToken].pc = pc
              /\ [Answer(pc) EXCEPT !.token = NoToken].token = NoToken
         /\ [broker EXCEPT !.tries = @ + 1] \in BrokerSpace
         /\ [broker EXCEPT !.tries = @ + 1].pc = broker.pc
         /\ [broker EXCEPT !.tries = @ + 1].token = broker.token
<1>0. IdentityType /\ ExchangeInv /\ CustodyInv /\ VerifiedInv
  BY DEF IdentityInv
<1>1. broker \in BrokerSpace /\ github \in GitHubSpace /\ lost \in SUBSET {1}
      /\ repo.owner \in Nat
  BY <1>0 DEF IdentityType, BrokerSpace, GitHubSpace
<1>2. /\ broker.pc \in {"verify", "find", "mint"} => github.minted = 0 /\ github.live = {}
      /\ github.minted = 0 => github.live = {}
  BY <1>0 DEF ExchangeInv
<1>3. /\ broker.pc \in {"check", "revoke", "reply"} => broker.token \in github.live
      /\ broker.pc \notin {"check", "revoke", "reply"} => broker.token = NoToken
      /\ job.token = NoToken
  BY <1>0 DEF CustodyInv
<1>4. github.live \subseteq lost \union {broker.token}
  BY <1>0, <1>1, <1>3 DEF CustodyInv, GitHubSpace, NoToken
<1>5. broker.pc \in {"find", "mint", "check", "revoke", "reply"} => PassesPreMint
  BY <1>0 DEF VerifiedInv
<1>6. \A pc \in {"verify", "find", "mint", "check", "revoke", "reply", "refuse", "answered"} :
        /\ Answer(pc) \in BrokerSpace /\ Answer(pc).pc = pc
        /\ Answer(pc).token = broker.token
        /\ [Answer(pc) EXCEPT !.token = NoToken] \in BrokerSpace
        /\ [Answer(pc) EXCEPT !.token = NoToken].pc = pc
        /\ [Answer(pc) EXCEPT !.token = NoToken].token = NoToken
  BY <1>1 DEF BrokerSpace, Answer, NoToken
<1>7. /\ [broker EXCEPT !.tries = @ + 1] \in BrokerSpace
      /\ [broker EXCEPT !.tries = @ + 1].pc = broker.pc
      /\ [broker EXCEPT !.tries = @ + 1].token = broker.token
  BY <1>1 DEF BrokerSpace
<1> QED
  BY <1>1, <1>2, <1>3, <1>4, <1>5, <1>6, <1>7

LEMMA VerifyClaimsInv ==
  ASSUME IdentityInv, VerifyClaims
  PROVE  IdentityInv'
<1>1. /\ broker.pc = "verify" /\ UNCHANGED <<setup, box, repo, github, job, lost, trusted>>
      /\ \/ broker' = Answer("find") /\ PassesPreMint
         \/ broker' = Answer("refuse")
  BY DEF VerifyClaims
<1>2. /\ broker' \in BrokerSpace /\ broker'.pc \in {"find", "refuse"} /\ broker'.token = NoToken
      /\ broker'.pc = "find" => PassesPreMint
  BY <1>1, BrokerFacts
<1> QED
  BY <1>1, <1>2, BrokerGoesOn, BrokerFacts

LEMMA FindInstallationInv ==
  ASSUME IdentityInv, FindInstallation
  PROVE  IdentityInv'
<1>1. /\ broker.pc = "find" /\ UNCHANGED <<setup, box, repo, github, job, lost, trusted>>
      /\ \/ broker' = [Answer("mint") EXCEPT !.account = repo.owner]
         \/ broker' = Answer("refuse")
         \/ broker' = [broker EXCEPT !.tries = @ + 1]
  BY DEF FindInstallation
<1>2. /\ [Answer("mint") EXCEPT !.account = repo.owner] \in BrokerSpace
      /\ [Answer("mint") EXCEPT !.account = repo.owner].pc = "mint"
      /\ [Answer("mint") EXCEPT !.account = repo.owner].token = broker.token
  BY <1>1, BrokerFacts DEF BrokerSpace
<1>3. /\ broker' \in BrokerSpace /\ broker'.pc \in {"find", "mint", "refuse"}
      /\ broker'.token = NoToken /\ PassesPreMint
  BY <1>1, <1>2, BrokerFacts
<1> QED
  BY <1>1, <1>3, BrokerGoesOn, BrokerFacts

LEMMA CreateTokenInv ==
  ASSUME IdentityInv, CreateToken
  PROVE  IdentityInv'
<1>1. /\ broker.pc = "mint" /\ UNCHANGED <<setup, box, repo, job, trusted>>
      /\ \/ /\ github' = Minted /\ UNCHANGED lost
            /\ \/ Minted = github /\ broker' = Answer("refuse")
               \/ Minted # github
                  /\ broker' = [Answer("check") EXCEPT !.token = Minted.minted]
         \/ github' = Minted /\ lost' = lost \union Minted.live /\ broker' = Answer("refuse")
         \/ broker' = Answer("refuse") /\ UNCHANGED <<github, lost>>
  BY DEF CreateToken
<1>2. /\ github \in GitHubSpace /\ github.minted = 0 /\ github.live = {}
      /\ lost \in SUBSET {1} /\ PassesPreMint /\ broker.token = NoToken
      /\ Answer("refuse") \in BrokerSpace /\ Answer("refuse").pc = "refuse"
      /\ Answer("refuse").token = NoToken
  BY <1>1, BrokerFacts
<1>3. Minted = github \/ Minted = [minted |-> 1, live |-> {1}]
  BY <1>2 DEF Minted
<1>4. /\ [Answer("check") EXCEPT !.token = 1] \in BrokerSpace
      /\ [Answer("check") EXCEPT !.token = 1].pc = "check"
      /\ [Answer("check") EXCEPT !.token = 1].token = 1
  BY <1>1, BrokerFacts DEF BrokerSpace
<1>5. CASE broker' = Answer("refuse") /\ UNCHANGED <<github, lost>>
  BY <1>1, <1>2, <1>5, BrokerGoesOn
<1>6. CASE broker' = Answer("refuse") /\ github' = Minted /\ lost' = lost \union Minted.live
  <2>1. github' \in GitHubSpace /\ lost' \in SUBSET {1} /\ github'.live \subseteq lost'
        /\ (github'.minted = 0 => github'.live = {})
    <3>1. CASE Minted = github
      BY <1>2, <1>6, <3>1
    <3>2. CASE Minted = [minted |-> 1, live |-> {1}]
      <4>1. Minted \in GitHubSpace /\ Minted.minted = 1 /\ Minted.live = {1}
        BY <3>2 DEF GitHubSpace
      <4> QED
        BY <1>2, <1>6, <4>1
    <3> QED
      BY <1>3, <3>1, <3>2
  <2> QED
    BY <1>1, <1>2, <1>6, <2>1, BrokerGoesOn
<1>7. CASE /\ Minted # github /\ github' = Minted /\ UNCHANGED lost
           /\ broker' = [Answer("check") EXCEPT !.token = Minted.minted]
  <2>1. github' = [minted |-> 1, live |-> {1}]
    BY <1>3, <1>7
  <2>2. github' \in GitHubSpace /\ github'.minted = 1 /\ github'.live = {1}
    BY <2>1 DEF GitHubSpace
  <2>3. broker' \in BrokerSpace /\ broker'.pc = "check" /\ broker'.token = 1
    BY <1>4, <1>7, <2>1
  <2> QED
    BY <1>1, <1>2, <1>7, <2>2, <2>3, BrokerGoesOn
<1> QED
  BY <1>1, <1>5, <1>6, <1>7

LEMMA ValidateRepositoryInv ==
  ASSUME IdentityInv, ValidateRepository
  PROVE  IdentityInv'
<1>1. /\ broker.pc = "check" /\ UNCHANGED <<setup, box, repo, github, job, lost, trusted>>
      /\ \/ broker' = Answer("reply") /\ RepositoryMatches
         \/ broker' = Answer("revoke")
         \/ broker' = [broker EXCEPT !.tries = @ + 1]
  BY DEF ValidateRepository
<1>2. RepositoryMatches => setup.branch \in trusted
  BY DEF RepositoryMatches, IdentityInv, ExchangeInv
<1>3. /\ broker' \in BrokerSpace /\ broker'.pc \in {"check", "reply", "revoke"}
      /\ broker'.token = broker.token /\ (broker'.pc = "reply" => RepositoryMatches)
      /\ PassesPreMint
  BY <1>1, BrokerFacts
<1>4. /\ github \in GitHubSpace /\ lost \in SUBSET {1} /\ broker.token \in github.live
      /\ (github.minted = 0 => github.live = {}) /\ github.live \subseteq lost \union {broker.token}
  BY <1>1, BrokerFacts
<1> QED
  BY <1>1, <1>2, <1>3, <1>4, BrokerGoesOn

LEMMA RevokeAfterRejectionInv ==
  ASSUME IdentityInv, RevokeAfterRejection
  PROVE  IdentityInv'
<1>1. /\ broker.pc = "revoke" /\ UNCHANGED <<setup, box, repo, job, trusted>>
      /\ Revoked(broker.token) /\ broker' = [Answer("refuse") EXCEPT !.token = NoToken]
  BY DEF RevokeAfterRejection
<1>2. /\ broker' \in BrokerSpace /\ broker'.pc = "refuse" /\ broker'.token = NoToken
      /\ github \in GitHubSpace /\ lost \in SUBSET {1} /\ broker.token \in github.live
      /\ github.live \subseteq lost \union {broker.token}
      /\ github.minted = 0 => github.live = {}
  BY <1>1, BrokerFacts
<1>3. /\ github' \in GitHubSpace /\ lost' \in SUBSET {1} /\ github'.live \subseteq lost'
      /\ github'.minted = 0 => github'.live = {}
  BY <1>1, <1>2 DEF Revoked, GitHubSpace
<1> QED
  BY <1>1, <1>2, <1>3, BrokerGoesOn

LEMMA BrokerEndsInv ==
  ASSUME IdentityInv, BrokerDies \/ AnswerNobody
  PROVE  IdentityInv'
<1>1. /\ broker.pc \notin {"idle", "answered"} /\ UNCHANGED <<setup, box, repo, github, job, trusted>>
      /\ lost' = lost \union ({broker.token} \ {NoToken})
      /\ \/ broker' = [Answer("refuse") EXCEPT !.token = NoToken]
         \/ /\ broker' = [Answer("answered") EXCEPT !.token = NoToken]
            /\ job.step # "waiting"
  BY DEF BrokerDies, AnswerNobody
<1>2. /\ broker' \in BrokerSpace /\ broker'.pc \in {"refuse", "answered"}
      /\ broker'.token = NoToken /\ (broker'.pc = "answered" => job.step # "waiting")
      /\ broker \in BrokerSpace /\ github \in GitHubSpace /\ lost \in SUBSET {1}
      /\ github.live \subseteq lost \union {broker.token}
      /\ github.minted = 0 => github.live = {}
  BY <1>1, BrokerFacts
<1>3. lost' \in SUBSET {1} /\ github.live \subseteq lost' \union {NoToken}
  BY <1>1, <1>2 DEF BrokerSpace, NoToken
<1> QED
  BY <1>1, <1>2, <1>3, BrokerGoesOn

LEMMA AskBrokerInv ==
  ASSUME IdentityInv, AskBroker
  PROVE  IdentityInv'
<1>0. /\ IdentityType /\ ExchangeInv /\ CustodyInv /\ VerifiedInv /\ ContainerInv
      /\ job.step = "exchange" /\ UNCHANGED <<setup, box, repo, github, lost, trusted>>
  BY DEF IdentityInv, AskBroker
<1>1. /\ broker.pc = "idle" /\ OnGitHub /\ job.token = NoToken /\ ~InTerminal
      /\ github.minted = 0 /\ github.live = {} /\ box.pc = "none"
  BY <1>0 DEF ExchangeInv, CustodyInv, ContainerInv
<1>2. /\ job' \in [step : {"waiting", "run"}, failed : BOOLEAN, cancelled : BOOLEAN,
                   token : {0, 1}, missed : BOOLEAN]
      /\ job'.token = NoToken /\ job'.missed = job.missed
      /\ \/ job'.step = "waiting" /\ broker' = Answer("verify")
         \/ job'.step = "run" /\ UNCHANGED broker
  <2>1. /\ Advance("waiting", FALSE) \in [step : {"waiting"}, failed : BOOLEAN,
                  cancelled : BOOLEAN, token : {0, 1}, missed : BOOLEAN]
        /\ Advance("waiting", FALSE).token = job.token
        /\ Advance("waiting", FALSE).missed = job.missed
    BY <1>0 DEF IdentityType, Advance
  <2>2. /\ Advance("run", TRUE) \in [step : {"run"}, failed : BOOLEAN, cancelled : BOOLEAN,
                  token : {0, 1}, missed : BOOLEAN]
        /\ Advance("run", TRUE).token = job.token
        /\ Advance("run", TRUE).missed = job.missed
    BY <1>0 DEF IdentityType, Advance
  <2> QED
    BY <1>1, <2>1, <2>2 DEF AskBroker
<1>3. /\ broker' \in BrokerSpace /\ broker'.pc \in {"idle", "verify"}
      /\ broker'.token = NoToken /\ (job'.step = "waiting" => broker'.pc = "verify")
  <2>1. broker \in BrokerSpace /\ broker.token = NoToken
    BY <1>0, <1>1 DEF IdentityType, CustodyInv, BrokerSpace
  <2>2. Answer("verify") \in BrokerSpace /\ Answer("verify").pc = "verify"
        /\ Answer("verify").token = NoToken
    BY <2>1 DEF Answer, BrokerSpace
  <2> QED
    BY <1>1, <1>2, <2>1, <2>2
<1>4. IdentityType'
  BY <1>0, <1>2, <1>3 DEF IdentityType, BrokerSpace
<1>5. ExchangeInv'
  BY <1>0, <1>1, <1>2, <1>3 DEF ExchangeInv, OnGitHub, InTerminal
<1>6. CustodyInv'
  BY <1>0, <1>1, <1>2, <1>3 DEF CustodyInv
<1>7. VerifiedInv'
  BY <1>0, <1>1, <1>2, <1>3 DEF VerifiedInv, HandedOutIsVerified
<1>8. ContainerInv'
  BY <1>0, <1>1, <1>2 DEF ContainerInv, IsRunning, PostsWithALiveToken
<1> QED
  BY <1>4, <1>5, <1>6, <1>7, <1>8 DEF IdentityInv

\* The job takes the token out of the broker's hands as it was verified.
LEMMA TakeAnswerInv ==
  ASSUME IdentityInv, TakeAnswer
  PROVE  IdentityInv'
<1>0. /\ IdentityType /\ ExchangeInv /\ CustodyInv /\ VerifiedInv /\ ContainerInv
      /\ job.step = "waiting" /\ UNCHANGED <<setup, box, repo, github, lost, trusted>>
      /\ broker.pc \in {"reply", "refuse"}
      /\ job' = [Advance("run", broker.pc = "refuse") EXCEPT !.token = broker.token]
      /\ broker' = [Answer("answered") EXCEPT !.token = NoToken]
  BY DEF IdentityInv, TakeAnswer
<1>1. /\ OnGitHub /\ job.token = NoToken /\ ~InTerminal /\ box.pc = "none"
      /\ github \in GitHubSpace
  BY <1>0 DEF ExchangeInv, CustodyInv, ContainerInv, IdentityType, GitHubSpace
<1>2. /\ broker' \in BrokerSpace /\ broker'.pc = "answered" /\ broker'.token = NoToken
  BY <1>0, BrokerFacts
<1>3. broker.token \in {0, 1} /\ (broker.pc = "refuse") \in BOOLEAN
  BY <1>0 DEF IdentityType
<1>4. /\ job' \in [step : {"run"}, failed : BOOLEAN, cancelled : BOOLEAN, token : {0, 1},
                   missed : BOOLEAN]
      /\ job'.token = broker.token /\ job'.step = "run" /\ job'.missed = job.missed
  BY <1>0, <1>3 DEF IdentityType, Advance
<1>5. IdentityType'
  BY <1>0, <1>2, <1>4 DEF IdentityType, BrokerSpace
<1>6. ExchangeInv'
  BY <1>0, <1>1, <1>2, <1>4 DEF ExchangeInv, OnGitHub, InTerminal
<1>7. job'.token # NoToken => /\ broker.pc = "reply" /\ broker.token \in github.live
                              /\ PassesPreMint /\ setup.branch \in trusted
  BY <1>0, <1>4 DEF CustodyInv, VerifiedInv
<1>8. github.live \subseteq lost \union {broker.token}
  BY <1>0, <1>1 DEF CustodyInv, GitHubSpace, NoToken
<1>9. CustodyInv'
  BY <1>0, <1>1, <1>2, <1>4, <1>7, <1>8 DEF CustodyInv, OnGitHub
<1>10. VerifiedInv'
  BY <1>0, <1>2, <1>4, <1>7 DEF VerifiedInv, HandedOutIsVerified, PassesPreMint
<1>11. ContainerInv'
  BY <1>0, <1>1, <1>4 DEF ContainerInv, IsRunning, PostsWithALiveToken
<1> QED
  BY <1>5, <1>6, <1>9, <1>10, <1>11 DEF IdentityInv

\* The job's last step: its token is revoked, or is lost.
LEMMA RevokeInv ==
  ASSUME IdentityInv, Revoke
  PROVE  IdentityInv'
<1>0. /\ IdentityType /\ ExchangeInv /\ CustodyInv /\ VerifiedInv /\ ContainerInv
      /\ job.step = "revoke" /\ UNCHANGED <<setup, box, repo, broker, trusted>>
      /\ IF job.token # NoToken THEN Revoked(job.token) ELSE UNCHANGED <<github, lost>>
      /\ job' = Advance("done", FALSE)
  BY DEF IdentityInv, Revoke
<1>1. /\ github \in GitHubSpace /\ lost \in SUBSET {1} /\ broker \in BrokerSpace
      /\ job.token \in {0, 1} /\ OnGitHub
  BY <1>0 DEF IdentityType, GitHubSpace, BrokerSpace, ExchangeInv
<1>2. /\ job' \in [step : {"done"}, failed : BOOLEAN, cancelled : BOOLEAN, token : {0, 1},
                   missed : BOOLEAN]
      /\ job'.step = "done" /\ job'.token = job.token /\ job'.missed = job.missed
  BY <1>0 DEF IdentityType, Advance
<1>3. /\ github' \in GitHubSpace /\ lost' \in SUBSET {1} /\ github'.minted = github.minted
      /\ github'.live \subseteq github.live
      /\ github'.live \subseteq lost' \union {broker.token}
      /\ job.token = NoToken => github'.live = github.live
  <2>1. CASE job.token = NoToken
    BY <1>0, <1>1, <2>1 DEF CustodyInv, GitHubSpace, NoToken
  <2>2. CASE job.token # NoToken
    BY <1>0, <1>1, <2>2 DEF CustodyInv, GitHubSpace, Revoked
  <2> QED
    BY <2>1, <2>2
<1>4. IdentityType'
  BY <1>0, <1>2, <1>3 DEF IdentityType, GitHubSpace
<1>5. ExchangeInv'
  BY <1>0, <1>2, <1>3 DEF ExchangeInv, OnGitHub, InTerminal
<1>6. broker.pc \in {"check", "revoke", "reply"} => job.token = NoToken
  BY <1>0 DEF CustodyInv
<1>7. CustodyInv'
  BY <1>0, <1>1, <1>2, <1>3, <1>6 DEF CustodyInv, OnGitHub
<1>8. VerifiedInv'
  BY <1>0, <1>2 DEF VerifiedInv, HandedOutIsVerified, PassesPreMint
<1>9. ContainerInv'
  BY <1>0, <1>2 DEF ContainerInv, IsRunning, PostsWithALiveToken
<1> QED
  BY <1>4, <1>5, <1>7, <1>8, <1>9 DEF IdentityInv

LEMMA RepositoryChangesInv ==
  ASSUME IdentityInv, RepositoryChanges
  PROVE  IdentityInv'
<1>0. /\ IdentityType /\ ExchangeInv /\ CustodyInv /\ VerifiedInv /\ ContainerInv
      /\ UNCHANGED <<setup, box, github, broker, job, lost>>
      /\ trusted' = trusted \union IF repo'.id = SignedId THEN {repo'.branch} ELSE {}
  BY DEF IdentityInv, RepositoryChanges
<1>1. repo' \in [id : Nat, owner : Nat, branch : STRING, installed : BOOLEAN, changes : Nat]
  <2>0. repo \in [id : Nat, owner : Nat, branch : STRING, installed : BOOLEAN, changes : Nat]
    BY <1>0 DEF IdentityType
  <2>1. PICK b \in STRING, o \in Nat, i \in Nat, n \in Nat :
          \/ repo' = [repo EXCEPT !.branch = b, !.changes = n]
          \/ repo' = [repo EXCEPT !.id = i, !.owner = o, !.branch = b, !.changes = n]
          \/ repo' = [repo EXCEPT !.installed = FALSE, !.changes = n]
    <3>1. /\ SignedOwner \in Nat /\ SignedOwner + 1 \in Nat /\ repo.branch \in STRING
          /\ Branches \subseteq STRING /\ SignedId + 1 \in Nat
      BY <2>0, IdentityAssumption DEF SignedOwner, SignedId, IdentityAssumption
    <3>2. PICK n \in Nat : n = repo.changes + 1
      BY <2>0
    <3>3. CASE \E b \in Branches : repo' = [repo EXCEPT !.branch = b, !.changes = @ + 1]
      BY <3>1, <3>2, <3>3
    <3>4. CASE \E o \in {SignedOwner, SignedOwner + 1} : \E b \in Branches :
                 repo' = [repo EXCEPT !.id = SignedId + 1, !.owner = o, !.branch = b,
                                      !.changes = @ + 1]
      BY <3>1, <3>2, <3>4
    <3>5. CASE repo' = [repo EXCEPT !.installed = FALSE, !.changes = @ + 1]
      BY <3>1, <3>2, <3>5
    <3> QED
      BY <3>3, <3>4, <3>5 DEF RepositoryChanges
  <2> QED
    BY <2>0, <2>1
<1>2. repo'.id = SignedId => repo'.branch \in trusted'
  BY <1>0
<1>3. trusted \subseteq trusted' /\ trusted' \in SUBSET STRING
  <2>1. trusted \in SUBSET STRING /\ repo'.branch \in STRING
    BY <1>0, <1>1 DEF IdentityType
  <2> QED
    BY <1>0, <2>1
<1>4. IdentityType'
  BY <1>0, <1>1, <1>3 DEF IdentityType
<1>5. ExchangeInv'
  BY <1>0, <1>2 DEF ExchangeInv, OnGitHub, InTerminal
<1>6. CustodyInv'
  BY <1>0 DEF CustodyInv, OnGitHub
<1>7. VerifiedInv'
  BY <1>0, <1>3 DEF VerifiedInv, HandedOutIsVerified, PassesPreMint
<1>8. ContainerInv'
  BY <1>0 DEF ContainerInv, IsRunning, PostsWithALiveToken
<1> QED
  BY <1>4, <1>5, <1>6, <1>7, <1>8 DEF IdentityInv

LEMMA ContainerStepsInv ==
  ASSUME setup \in Setups, BoxInv, IdentityInv, ContainerSteps
  PROVE  BoxInv' /\ IdentityInv' /\ env \subseteq env' /\ env' \in SUBSET Clouds
<1>1. EntrypointSteps /\ UNCHANGED identityVars /\ box \in BoxSpace
  BY DEF ContainerSteps, BoxInv
<1>2. BoxInv' /\ env \subseteq env' /\ env' \in SUBSET Clouds
  BY <1>1, EntrypointMoves
<1>3. UNCHANGED setup /\ IsRunning
  BY <1>1 DEF EntrypointSteps, Route, FetchIdToken, ApplyUpdates, LoadConfig, RouteEvent,
              BuildContext, EndReview, LeaveBox, IsRunning
<1>4. box'.posted = box.posted
  BY <1>1 DEF EntrypointSteps, Route, FetchIdToken, ApplyUpdates, LoadConfig, RouteEvent,
              BuildContext, EndReview, LeaveBox, Leaving, BoxSpace
<1> QED
  BY <1>1, <1>2, <1>3, <1>4, IdentityStands DEF IsRunning

\* Every step of a runner's job keeps what is known of the process and of the
\* identity, and sets no variable of a cloud back.
LEMMA CIStepsInv ==
  ASSUME setup \in Setups, env \in SUBSET Clouds, BoxInv, IdentityInv, CISteps
  PROVE  /\ BoxInv' /\ IdentityInv' /\ UNCHANGED <<setup, settingsVars>>
         /\ env \subseteq env' /\ env' \in SUBSET Clouds
<1>1. UNCHANGED <<setup, settingsVars>>
  <2>1. CASE ContainerSteps
    BY <2>1 DEF ContainerSteps, EntrypointSteps, Route, FetchIdToken, ApplyUpdates, LoadConfig,
                RouteEvent, BuildContext, EndReview, LeaveBox
  <2>2. CASE ContainerPosts
    BY <2>2 DEF ContainerPosts, Deliver
  <2>3. CASE RunContainer
    BY <2>3 DEF RunContainer, StartBox
  <2>4. CASE ~ContainerSteps /\ ~ContainerPosts /\ ~RunContainer
    BY <2>4 DEF CISteps, RepositoryChanges, BrokerSteps, VerifyClaims, FindInstallation,
                CreateToken, ValidateRepository, RevokeAfterRejection, BrokerDies, AnswerNobody,
                JobSteps, Validate, SkipExchange, AskBroker, TakeAnswer, SkipRun, EndOfRun,
                StopContainer, ContainerStopped, Revoke, GiveUpWaiting, CancelJob, RunnerKills
  <2> QED
    BY <2>1, <2>2, <2>3, <2>4
<1>2. CASE ContainerSteps
  BY <1>1, <1>2, ContainerStepsInv
<1>3. CASE ContainerPosts
  BY <1>1, <1>3, ContainerPostsInv
<1>4. CASE RunContainer
  BY <1>1, <1>4, RunContainerInv DEF RunContainer, StartBox
<1>5. CASE StopContainer \/ ContainerStopped
  BY <1>1, <1>5, StopInvs DEF StopContainer, ContainerStopped
<1>6. CASE CancelJob \/ RunnerKills
  BY <1>1, <1>6, CancelInvs DEF CancelJob, RunnerKills
<1>7. CASE \/ Validate \/ SkipExchange \/ GiveUpWaiting \/ SkipRun \/ EndOfRun
           \/ RepositoryChanges \/ VerifyClaims \/ FindInstallation \/ CreateToken
           \/ ValidateRepository \/ RevokeAfterRejection \/ BrokerDies \/ AnswerNobody
           \/ AskBroker \/ TakeAnswer \/ Revoke
  <2>1. UNCHANGED <<setup, env, box, files>>
    BY <1>7 DEF RepositoryChanges, VerifyClaims, FindInstallation, CreateToken,
                ValidateRepository, RevokeAfterRejection, BrokerDies, AnswerNobody, Validate,
                SkipExchange, AskBroker, TakeAnswer, SkipRun, EndOfRun, Revoke, GiveUpWaiting
  <2>2. BoxInv'
    BY <2>1, BoxStands
  <2>3. IdentityInv'
    BY <1>7, JobStepInvs, RepositoryChangesInv, VerifyClaimsInv, FindInstallationInv,
       CreateTokenInv, ValidateRepositoryInv, RevokeAfterRejectionInv, BrokerEndsInv,
       AskBrokerInv, TakeAnswerInv, RevokeInv
  <2> QED
    BY <1>1, <2>1, <2>2, <2>3
<1> QED
  BY <1>2, <1>3, <1>4, <1>5, <1>6, <1>7 DEF CISteps, BrokerSteps, JobSteps

-------------------------------------------------------------------------------
(* The local review: one call moves *)

LEMMA LocalInvInit ==
  ASSUME EntryInit
  PROVE  LocalInv
<1>1. setup \in Setups /\ LocalInit
  BY DEF EntryInit
<1>2. BaseFiles \in Texts
  BY DEF BaseFiles, Texts, Absent
<1>3. tree \in TreeType
  <2>1. UnchangedTree \in TreeType
    BY <1>2 DEF UnchangedTree, TreeType, InIndex
  <2>2. Trees \subseteq TreeType
    BY <1>2, LocalAssumption DEF LocalAssumption, TreeSpace, TreeType, Texts
  <2> QED
    BY <1>1, <2>1, <2>2 DEF LocalInit
<1>4. Idle \in CallSpace
  BY DEF Idle, CallSpace, NoContext, ContextSpace, Modes
<1>5. LocalType
  BY <1>1, <1>3, <1>4 DEF LocalInit, LocalType, ServerType
<1>6. ServerInv
  BY <1>1, LocalAssumption DEF LocalInit, LocalAssumption, ServerInv, Idle, Resting
<1>7. ContextSound(Idle)
  BY SettingsAssumption DEF SettingsAssumption, ContextSound, FileSound, Idle, NoContext
<1>8. ContextInv
  BY <1>1, <1>7 DEF ContextInv, LocalInit
<1> QED
  BY <1>5, <1>6, <1>8 DEF LocalInv

\* There is somebody to review for, or the flag says there is not.
IsAttended == server.pc # "off" /\ (server.pc = "gone" => interrupted)

\* One call goes on, in its turn, with a context that is sound.
LEMMA CallMovesBy ==
  ASSUME LocalInv, UNCHANGED <<setup, tree, edits, interrupted>>, NEW c \in Calls,
         NEW call \in CallSpace, calls' = [calls EXCEPT ![c] = call],
         NEW l \in Calls \union {Nobody}, NEW late \in Nat,
         server' = [server EXCEPT !.lock = l, !.late = late],
         call.pc \notin Resting <=> l = c,
         l = server.lock \/ {l, server.lock} \subseteq {c, Nobody},
         late = server.late \/ server.lock = c,
         server.pc # "gone" => late = 0,
         call.ready > 0 => call.pc = "review", late + call.ready <= Workers,
         IsAttended, ContextSound(call)
  PROVE  LocalInv'
<1>1. LocalType /\ ServerInv /\ ContextInv
  BY DEF LocalInv
<1>2. LocalType'
  BY <1>1 DEF LocalType, ServerType
<1>3. calls'[c] = call /\ \A d \in Calls \ {c} : calls'[d] = calls[d]
  BY <1>1 DEF LocalType
<1>4. server'.pc = server.pc /\ server'.lock = l /\ server'.late = late
  BY <1>1 DEF LocalType, ServerType
<1>5. late <= Workers
  BY LocalAssumption DEF LocalAssumption, CallSpace
<1>6. ServerInv'
  <2>1. \A d \in Calls \ {c} : server.lock = d <=> l = d
    BY LocalAssumption DEF LocalAssumption
  <2>2. ASSUME NEW d \in Calls \ {c}
        PROVE  /\ calls[d].ready > 0 => calls[d].pc = "review"
               /\ late + calls[d].ready <= Workers
    <3>1. calls[d] \in CallSpace /\ (calls[d].ready > 0 => calls[d].pc = "review")
          /\ server.late + calls[d].ready <= Workers
      BY <1>1 DEF LocalType, ServerInv
    <3>2. CASE late = server.late
      BY <3>1, <3>2
    <3>3. CASE server.lock = c
      <4>1. calls[d].pc \in Resting
        BY <1>1, <3>3 DEF ServerInv
      <4>2. calls[d].ready = 0
        BY <3>1, <4>1 DEF CallSpace, Resting
      <4> QED
        BY <1>5, <4>2
    <3> QED
      BY <3>2, <3>3
  <2>3. \A d \in Calls : calls'[d].pc \notin Resting <=> l = d
    BY <1>1, <1>3, <2>1 DEF ServerInv
  <2>4. \A d \in Calls : /\ calls'[d].ready > 0 => calls'[d].pc = "review"
                         /\ late + calls'[d].ready <= Workers
    BY <1>3, <2>2
  <2> QED
    BY <1>4, <1>5, <2>3, <2>4 DEF ServerInv, IsAttended
<1>7. ASSUME NEW d \in Calls PROVE ContextSound(calls[d])'
  <2>1. PICK mine \in CallSpace : mine = calls'[d] /\ ContextSound(mine)
    BY <1>1, <1>3 DEF LocalType, ContextInv
  <2>2. ContextSound(mine)'
    BY <2>1, SoundStays
  <2> QED
    BY <2>1, <2>2, SameSound
<1>8. ContextInv'
  BY <1>7 DEF ContextInv
<1> QED
  BY <1>2, <1>6, <1>8 DEF LocalInv

\* One call goes on, and no model call with it.
LEMMA CallMoves ==
  ASSUME LocalInv, UNCHANGED <<setup, tree, edits, interrupted>>, NEW c \in Calls,
         NEW call \in CallSpace, calls' = [calls EXCEPT ![c] = call],
         NEW l \in Calls \union {Nobody}, server' = [server EXCEPT !.lock = l],
         call.pc \notin Resting <=> l = c,
         l = server.lock \/ {l, server.lock} \subseteq {c, Nobody},
         call.ready = 0, IsAttended, ContextSound(call)
  PROVE  LocalInv'
<1>1. /\ server \in ServerType /\ server.late <= Workers
      /\ server.pc # "gone" => server.late = 0
  BY DEF LocalInv, LocalType, ServerInv
<1>2. PICK late \in Nat : late = server.late
  BY <1>1 DEF ServerType
<1>3. server' = [server EXCEPT !.lock = l, !.late = late]
  BY <1>1, <1>2 DEF ServerType
<1>4. late + call.ready <= Workers /\ ~(call.ready > 0)
  BY <1>1, <1>2, LocalAssumption DEF LocalAssumption
<1> QED
  BY <1>1, <1>2, <1>3, <1>4, CallMovesBy

\* A call that ends, or has not begun, has nothing to answer for but its answer.
LEMMA RestIsSound ==
  ASSUME NEW call,
         \/ call.pc \in {"idle", "over", "review"}
         \/ call.pc \in {"waiting", "load", "ends"} /\ call.ctx = NoContext,
         call.result = "nothing" => call.mode = "uncommitted" \/ setup.hasBase
  PROVE  ContextSound(call)
  BY DEF ContextSound, FileSound

\* Where a call is between taking the lock and giving it back.
LEMMA CallFacts ==
  ASSUME LocalInv, NEW c \in Calls
  PROVE  /\ calls[c] \in CallSpace /\ server.lock \in Calls \union {Nobody}
         /\ calls[c].pc \notin Resting <=> server.lock = c
         /\ calls[c].pc # "idle" => IsAttended
         /\ calls[c].pc # "review" => calls[c].ready = 0
         /\ server.late + calls[c].ready <= Workers
         /\ ContextSound(calls[c]) /\ Nobody # c
         /\ \A l \in Calls \union {Nobody} : l = server.lock =>
              [server EXCEPT !.lock = l] = server
<1>1. /\ calls[c] \in CallSpace /\ server \in ServerType
      /\ calls[c].ready > 0 => calls[c].pc = "review"
      /\ server.late + calls[c].ready <= Workers
      /\ calls[c].pc \notin Resting <=> server.lock = c
      /\ ContextSound(calls[c])
  BY DEF LocalInv, LocalType, ServerInv, ContextInv
<1>2. calls[c].pc # "review" => calls[c].ready = 0
  BY <1>1 DEF CallSpace
<1>3. calls[c].pc # "idle" => IsAttended
  BY DEF LocalInv, ServerInv, IsAttended
<1>4. \A l \in Calls \union {Nobody} : l = server.lock => [server EXCEPT !.lock = l] = server
  BY <1>1 DEF ServerType
<1>5. server.lock \in Calls \union {Nobody} /\ Nobody # c
  BY <1>1, LocalAssumption DEF ServerType, LocalAssumption
<1> QED
  BY <1>1, <1>2, <1>3, <1>4, <1>5

\* The lock stays where it is while its call works on.
LEMMA CallWorksOn ==
  ASSUME LocalInv, NEW c \in Calls, NEW from, NEW next \in CallSpace, from \notin Resting,
         Step(c, from, next), next.pc \notin Resting, next.ready = 0, ContextSound(next)
  PROVE  LocalInv'
<1>1. /\ calls[c].pc = from /\ calls' = [calls EXCEPT ![c] = next]
      /\ UNCHANGED <<setup, tree, edits, server, interrupted>>
  BY DEF Step
<1>2. server.lock = c /\ IsAttended
  BY <1>1, CallFacts DEF Resting
<1>3. PICK l \in Calls \union {Nobody} : l = c
  OBVIOUS
<1>4. server' = [server EXCEPT !.lock = l]
  BY <1>1, <1>2, <1>3, CallFacts
<1> QED
  BY <1>1, <1>2, <1>3, <1>4, CallMoves

\* A review that ends gives the lock back.
LEMMA CallEnds ==
  ASSUME LocalInv, NEW c \in Calls, calls[c].pc \notin Resting,
         NEW result \in {"error", "nothing", "reviewed"}, Ends(c, result),
         UNCHANGED <<setup, tree, edits, interrupted>>,
         result = "nothing" => calls[c].mode = "uncommitted" \/ setup.hasBase
  PROVE  LocalInv'
<1>1. calls[c] \in CallSpace /\ server.lock = c /\ IsAttended /\ Nobody # c
  BY CallFacts DEF Resting
<1>2. PICK call \in CallSpace :
        /\ calls' = [calls EXCEPT ![c] = call]
        /\ call.pc = "over" /\ call.ready = 0 /\ call.result = result
        /\ call.mode = calls[c].mode
  <2>1. PICK old \in CallSpace : old = calls[c]
    BY <1>1
  <2>2. [Idle EXCEPT !.pc = "over", !.mode = old.mode, !.result = result] \in CallSpace
    BY DEF Idle, CallSpace, NoContext, ContextSpace
  <2> QED
    BY <1>1, <2>1, <2>2 DEF Ends, Idle
<1>3. ContextSound(call)
  <2>1. call.result = "nothing" => call.mode = "uncommitted" \/ setup.hasBase
    BY <1>2
  <2> QED
    BY <1>2, <2>1 DEF ContextSound, FileSound
<1>4. server' = [server EXCEPT !.lock = Nobody]
  BY DEF Ends
<1>5. PICK l \in Calls \union {Nobody} : l = Nobody
  OBVIOUS
<1> QED
  BY <1>1, <1>2, <1>3, <1>4, <1>5, CallMoves DEF Resting

CallPcs ==
  {"idle", "waiting", "load", "ends", "diff", "list", "patch", "read", "judge", "review", "over"}

\* A call that goes on somewhere, with what it has learnt.
Onward(old, pc, ctx) == [old EXCEPT !.pc = pc, !.ctx = ctx]

LEMMA CallGoes ==
  ASSUME NEW old \in CallSpace, NEW pc \in CallPcs, NEW ctx \in ContextSpace
  PROVE  /\ Onward(old, pc, ctx) \in CallSpace
         /\ Onward(old, pc, ctx).pc = pc /\ Onward(old, pc, ctx).ctx = ctx
         /\ Onward(old, pc, ctx).mode = old.mode /\ Onward(old, pc, ctx).moved = old.moved
         /\ Onward(old, pc, ctx).result = old.result /\ Onward(old, pc, ctx).ready = old.ready
  BY DEF CallSpace, CallPcs, Onward

LEMMA CallToolInv ==
  ASSUME LocalInv, NEW c \in Calls, NEW mode \in Modes, CallTool(c, mode)
  PROVE  LocalInv'
<1>1. /\ server.pc = "serving" /\ calls[c].pc = "idle"
      /\ UNCHANGED <<setup, tree, edits, server, interrupted>>
      /\ calls' = [calls EXCEPT ![c] = [Idle EXCEPT !.pc = "waiting", !.mode = mode]]
  BY DEF CallTool
<1>2. PICK next \in CallSpace :
        /\ next = [Idle EXCEPT !.pc = "waiting", !.mode = mode]
        /\ next.pc = "waiting" /\ next.ready = 0 /\ next.ctx = NoContext /\ next.result = Unset
  <2> DEFINE n == [Idle EXCEPT !.pc = "waiting", !.mode = mode]
  <2>1. /\ n \in CallSpace
        /\ n.pc = "waiting" /\ n.ready = 0 /\ n.ctx = NoContext /\ n.result = Unset
    BY DEF Idle, CallSpace, NoContext, ContextSpace
  <2> HIDE DEF n
  <2>2. \E m \in CallSpace :
          m = n /\ m.pc = "waiting" /\ m.ready = 0 /\ m.ctx = NoContext /\ m.result = Unset
    BY <2>1
  <2> QED
    BY <2>2 DEF n
<1>3. ContextSound(next)
  <2>1. next.result # "nothing"
    BY <1>2, SettingsAssumption DEF SettingsAssumption
  <2> QED
    BY <1>2, <2>1 DEF ContextSound, FileSound
<1>4. PICK l \in Calls \union {Nobody} : l = server.lock
  BY CallFacts
<1>5. server' = [server EXCEPT !.lock = l] /\ l # c
  BY <1>1, <1>4, CallFacts DEF Resting
<1> QED
  BY <1>1, <1>2, <1>3, <1>4, <1>5, CallMoves DEF Resting, IsAttended

LEMMA TakeLockInv ==
  ASSUME LocalInv, NEW c \in Calls, TakeLock(c)
  PROVE  LocalInv'
<1>1. /\ calls[c].pc = "waiting" /\ server.lock = Nobody
      /\ UNCHANGED <<setup, tree, edits, interrupted>>
      /\ calls' = [calls EXCEPT ![c] = [calls[c] EXCEPT !.pc = "load"]]
      /\ server' = [server EXCEPT !.lock = c]
  BY DEF TakeLock
<1>2. PICK old \in CallSpace : /\ old = calls[c] /\ ContextSound(old) /\ IsAttended
                               /\ old.ready = 0
  BY <1>1, CallFacts
<1>3. PICK next \in CallSpace :
        /\ next = Onward(old, "load", old.ctx)
        /\ next.pc = "load" /\ next.ctx = old.ctx /\ next.mode = old.mode
        /\ next.moved = old.moved /\ next.result = old.result /\ next.ready = old.ready
  <2>1. "load" \in CallPcs /\ old.ctx \in ContextSpace
    BY <1>2 DEF CallSpace, CallPcs
  <2> QED
    BY <2>1, CallGoes
<1>4. ContextSound(next)
  BY <1>1, <1>2, <1>3 DEF ContextSound, FileSound
<1>5. PICK l \in Calls \union {Nobody} : l = c
  OBVIOUS
<1>6. calls' = [calls EXCEPT ![c] = next]
  <2>1. next = [calls[c] EXCEPT !.pc = "load"]
    BY <1>2, <1>3 DEF CallSpace, Onward
  <2> QED
    BY <1>1, <2>1
<1> QED
  BY <1>1, <1>2, <1>3, <1>4, <1>5, <1>6, CallMoves DEF Resting

LEMMA LoadForReviewInv ==
  ASSUME LocalInv, NEW c \in Calls, LoadForReview(c)
  PROVE  LocalInv'
<1>1. CASE Step(c, "load", [calls[c] EXCEPT !.pc = "ends"])
  <2>1. PICK old \in CallSpace : old = calls[c] /\ ContextSound(old) /\ old.ready = 0
    BY <1>1, CallFacts DEF Step
  <2>2. PICK next \in CallSpace :
          /\ next = Onward(old, "ends", old.ctx)
          /\ next.pc = "ends" /\ next.ctx = old.ctx /\ next.mode = old.mode
          /\ next.moved = old.moved /\ next.result = old.result /\ next.ready = old.ready
    <3>1. "ends" \in CallPcs /\ old.ctx \in ContextSpace
      BY <2>1 DEF CallSpace, CallPcs
    <3> QED
      BY <3>1, CallGoes
  <2>3. ContextSound(next)
    BY <1>1, <2>1, <2>2 DEF ContextSound, FileSound, Step
  <2>4. Step(c, "load", next)
    <3>1. next = [calls[c] EXCEPT !.pc = "ends"]
      BY <2>1, <2>2 DEF CallSpace, Onward
    <3> QED
      BY <1>1, <3>1
  <2> QED
    BY <2>1, <2>2, <2>3, <2>4, CallWorksOn DEF Resting
<1>2. CASE /\ calls[c].pc = "load" /\ Ends(c, "error")
           /\ UNCHANGED <<setup, settingsVars, env, tree, edits, interrupted>>
  BY <1>2, CallEnds DEF Resting
<1> QED
  BY <1>1, <1>2 DEF LoadForReview

LEMMA GitFailsInv ==
  ASSUME LocalInv, NEW c \in Calls, GitFails(c)
  PROVE  LocalInv'
<1>1. /\ calls[c].pc \in {"ends", "diff", "list", "read"} /\ Ends(c, "error")
      /\ UNCHANGED <<setup, tree, edits, interrupted>>
  BY DEF GitFails
<1> QED
  BY <1>1, CallEnds DEF Resting

\* The commit's text is taken, with nothing else yet.
LEMMA ResolveEndsInv ==
  ASSUME LocalInv, NEW c \in Calls, ResolveEnds(c)
  PROVE  LocalInv'
<1>1. PICK old \in CallSpace : old = calls[c] /\ ContextSound(old)
           /\ (old.pc # "review" => old.ready = 0)
  BY CallFacts
<1>2. Step(c, "ends", [old EXCEPT !.pc = "diff", !.ctx.head = tree.head]) /\ old.pc = "ends"
  BY <1>1 DEF ResolveEnds, Step
<1>3. old.ctx = NoContext
  BY <1>1, <1>2 DEF ContextSound
<1>4. PICK head \in Texts : head = tree.head
  BY DEF LocalInv, LocalType, TreeType
<1>5. PICK ctx \in ContextSpace : ctx = [NoContext EXCEPT !.head = head]
  <2>1. [NoContext EXCEPT !.head = head] \in ContextSpace
    BY DEF NoContext, ContextSpace
  <2> QED
    BY <2>1
<1>6. PICK next \in CallSpace :
        /\ next = Onward(old, "diff", ctx)
        /\ next.pc = "diff" /\ next.ctx = ctx /\ next.mode = old.mode
        /\ next.moved = old.moved /\ next.result = old.result /\ next.ready = old.ready
  BY CallGoes DEF CallPcs
<1>7. /\ next.ctx.head = tree.head /\ next.ctx.patches = {} /\ next.ctx.listed = {}
      /\ next.ctx.unread = {} /\ next.ctx.texts = {} /\ next.ctx.skipped = {}
      /\ next.ctx.unreadable = {}
  BY <1>4, <1>5, <1>6 DEF NoContext
<1>8. ContextSound(next)
  <2>1. \A f \in Files : FileSound(next, f)
    BY <1>6, <1>7 DEF FileSound
  <2>2. next.result = "nothing" => next.mode = "uncommitted" \/ setup.hasBase
    BY <1>1, <1>6 DEF ContextSound
  <2> QED
    BY <1>6, <1>7, <2>1, <2>2 DEF ContextSound
<1>9. next = [old EXCEPT !.pc = "diff", !.ctx.head = tree.head]
  <2>1. ctx = [old.ctx EXCEPT !.head = tree.head]
    BY <1>3, <1>4, <1>5
  <2> QED
    BY <1>6, <2>1 DEF CallSpace, Onward
<1> QED
  BY <1>1, <1>2, <1>6, <1>8, <1>9, CallWorksOn DEF Resting

\* The two ends of a comparison, and what `git diff` says between them.
LEMMA DiffFacts ==
  ASSUME LocalType, NEW mode \in Modes
  PROVE  /\ FromOf(mode) \in Texts /\ ToOf(mode) \in Texts
         /\ DiffOf(mode) \in SUBSET (Files \X Nat \X Nat)
         /\ PathsOf(DiffOf(mode)) \in SUBSET Files
         /\ \A f \in Files : /\ f \in PathsOf(DiffOf(mode)) <=> DiffPart(mode, f) # {}
                             /\ {p \in DiffOf(mode) : p[1] = f} = DiffPart(mode, f)
<1>1. PICK from \in Texts, to \in Texts :
        from = FromOf(mode) /\ to = IF mode = "branch" THEN tree.head ELSE TrackedText
  BY DEF LocalType, TreeType, Texts, FromOf, BaseText, TrackedText, Absent
<1>2. ToOf(mode) \in Texts
  BY DEF LocalType, TreeType, ToOf
<1>3. DiffOf(mode) = {<<f, from[f], to[f]>> : f \in {g \in Files : from[g] # to[g]}}
  BY <1>1 DEF DiffOf, FromOf
<1>4. \A f \in Files : DiffPart(mode, f) = IF from[f] = to[f] THEN {} ELSE {<<f, from[f], to[f]>>}
  <2>1. \A f \in Files : to[f] = ToldOf(mode, f)
    BY <1>1 DEF ToldOf, ToOf, TrackedText
  <2> QED
    BY <1>1, <2>1 DEF DiffPart
<1>5. DiffOf(mode) \in SUBSET (Files \X Nat \X Nat)
  BY <1>3 DEF Texts
<1>6. ASSUME NEW f \in Files
      PROVE  f \in PathsOf(DiffOf(mode)) <=> from[f] # to[f]
  <2>1. f \in PathsOf(DiffOf(mode)) <=> \E p \in DiffOf(mode) : p[1] = f
    BY DEF PathsOf
  <2>2. ASSUME from[f] # to[f]
        PROVE  \E p \in DiffOf(mode) : p[1] = f
    <3>1. <<f, from[f], to[f]>> \in DiffOf(mode) /\ <<f, from[f], to[f]>>[1] = f
      BY <1>3, <2>2
    <3> QED
      BY <3>1
  <2>3. ASSUME NEW p \in DiffOf(mode), p[1] = f
        PROVE  from[f] # to[f]
    BY <1>3, <2>3
  <2> QED
    BY <2>1, <2>2, <2>3
<1>7. PathsOf(DiffOf(mode)) \in SUBSET Files
  BY <1>3 DEF PathsOf
<1>8. \A f \in Files : {p \in DiffOf(mode) : p[1] = f} = DiffPart(mode, f)
  BY <1>3, <1>4
<1>9. \A f \in Files : f \in PathsOf(DiffOf(mode)) <=> DiffPart(mode, f) # {}
  BY <1>4, <1>6
<1> QED
  BY <1>1, <1>2, <1>5, <1>7, <1>8, <1>9

LEMMA TakeDiffInv ==
  ASSUME LocalInv, NEW c \in Calls, TakeDiff(c)
  PROVE  LocalInv'
<1>1. PICK old \in CallSpace : old = calls[c] /\ ContextSound(old)
           /\ (old.pc # "review" => old.ready = 0)
  BY CallFacts
<1>2. PICK mode \in Modes : mode = old.mode
  BY DEF CallSpace
<1>3. PICK patches \in SUBSET (Files \X Nat \X Nat), unread \in SUBSET Files :
        patches = DiffOf(mode) /\ unread = PathsOf(patches)
  BY DiffFacts DEF LocalInv
<1>4. PICK pc \in {"read", "list"} : pc = IF mode = "branch" THEN "read" ELSE "list"
  OBVIOUS
<1>5. /\ old.pc = "diff"
      /\ Step(c, "diff", [old EXCEPT !.pc = pc, !.ctx.patches = patches, !.ctx.unread = unread])
  BY <1>1, <1>2, <1>3, <1>4 DEF TakeDiff, Step
<1>6. PICK ctx \in ContextSpace :
        /\ ctx = [old.ctx EXCEPT !.patches = patches, !.unread = unread]
        /\ ctx.head = old.ctx.head /\ ctx.patches = patches /\ ctx.listed = {}
        /\ ctx.unread = unread /\ ctx.texts = {} /\ ctx.skipped = {} /\ ctx.unreadable = {}
  <2> DEFINE new == [old.ctx EXCEPT !.patches = patches, !.unread = unread]
  <2>1. old.ctx \in ContextSpace
    BY DEF CallSpace
  <2>2. /\ new \in ContextSpace /\ new.head = old.ctx.head /\ new.patches = patches
        /\ new.listed = old.ctx.listed /\ new.unread = unread /\ new.texts = old.ctx.texts
        /\ new.skipped = old.ctx.skipped /\ new.unreadable = old.ctx.unreadable
    BY <2>1 DEF ContextSpace
  <2>3. /\ old.ctx.listed = {} /\ old.ctx.texts = {} /\ old.ctx.skipped = {}
        /\ old.ctx.unreadable = {}
    BY <1>1, <1>5 DEF ContextSound
  <2> QED
    BY <2>2, <2>3
<1>7. PICK next \in CallSpace :
        /\ next = Onward(old, pc, ctx)
        /\ next.pc = pc /\ next.ctx = ctx /\ next.mode = mode
        /\ next.moved = old.moved /\ next.result = old.result /\ next.ready = old.ready
  <2>1. pc \in CallPcs
    BY DEF CallPcs
  <2> QED
    BY <1>2, <2>1, CallGoes
<1>8. ASSUME NEW f \in Files \ next.moved
      PROVE  FileSound(next, f)
  <2>1. FileSound(old, f)
    BY <1>1, <1>7 DEF ContextSound
  <2>2. /\ f \in unread <=> DiffPart(mode, f) # {}
        /\ PatchesOf(ctx, f) = DiffPart(mode, f)
    BY <1>3, <1>6, DiffFacts DEF LocalInv, PatchesOf
  <2>3. mode = "branch" => NewPart(mode, f) = {}
    BY DEF NewPart
  <2>4. mode = "branch" =>
          /\ PatchesOf(ctx, f) = PatchesFor(ctx, mode, f)
          /\ TextsOf(ctx, f) = TextsFor(ctx, mode, f)
          /\ f \in unread => IsChanged(mode, f)
    <3>1. TextsOf(ctx, f) = {}
      BY <1>6 DEF TextsOf
    <3> QED
      BY <1>6, <2>2, <2>3, <3>1 DEF PatchesFor, TextsFor, IsChanged
  <2>5. mode = "branch" => next.ctx.head[f] = tree.head[f]
    <3>1. mode = "branch" => old.ctx.head[f] = tree.head[f]
      BY <1>2, <1>5, <2>1 DEF FileSound
    <3> QED
      BY <1>6, <1>7, <3>1
  <2>6. CASE mode = "branch"
    <3>1. next.pc = "read" /\ next.mode = mode /\ next.ctx = ctx /\ ctx.unread = unread
          /\ ctx.listed \union ctx.skipped = {}
      BY <1>4, <1>6, <1>7, <2>6
    <3> QED
      BY <2>4, <2>5, <2>6, <3>1 DEF FileSound
  <2>7. CASE mode # "branch"
    BY <1>4, <1>6, <1>7, <2>2, <2>7 DEF FileSound
  <2> QED
    BY <2>6, <2>7
<1>9. ContextSound(next)
  <2>1. next.result = "nothing" => next.mode = "uncommitted" \/ setup.hasBase
    BY <1>1, <1>2, <1>7 DEF ContextSound
  <2>2. next.pc \in {"read", "list"} /\ (next.pc = "list" => next.mode # "branch")
    BY <1>4, <1>7
  <2> QED
    BY <1>6, <1>7, <1>8, <2>1, <2>2 DEF ContextSound
<1>10. next = [old EXCEPT !.pc = pc, !.ctx.patches = patches, !.ctx.unread = unread]
  BY <1>6, <1>7 DEF CallSpace, Onward
<1> QED
  BY <1>1, <1>5, <1>7, <1>9, <1>10, CallWorksOn DEF Resting

LEMMA ListUntrackedInv ==
  ASSUME LocalInv, NEW c \in Calls, ListUntracked(c)
  PROVE  LocalInv'
<1>1. PICK old \in CallSpace : old = calls[c] /\ ContextSound(old)
           /\ (old.pc # "review" => old.ready = 0)
  BY CallFacts
<1>2. PICK mode \in Modes : mode = old.mode
  BY DEF CallSpace
<1>3. PICK new \in SUBSET Files : new = {f \in Files \ tree.index : tree.work[f] # Absent}
  OBVIOUS
<1>4. /\ old.pc = "list"
      /\ Step(c, "list", [old EXCEPT !.pc = "patch", !.ctx.listed = new,
                                     !.ctx.unread = @ \union new])
  BY <1>1, <1>3 DEF ListUntracked, Step
<1>5. PICK ctx \in ContextSpace :
        /\ ctx = [old.ctx EXCEPT !.listed = new, !.unread = @ \union new]
        /\ ctx.head = old.ctx.head /\ ctx.patches = old.ctx.patches /\ ctx.listed = new
        /\ ctx.unread = old.ctx.unread \union new /\ ctx.texts = old.ctx.texts
        /\ ctx.skipped = old.ctx.skipped /\ ctx.unreadable = old.ctx.unreadable
  <2> DEFINE n == [old.ctx EXCEPT !.listed = new, !.unread = @ \union new]
  <2>1. old.ctx \in ContextSpace
    BY DEF CallSpace
  <2>2. /\ n \in ContextSpace /\ n.head = old.ctx.head /\ n.patches = old.ctx.patches
        /\ n.listed = new /\ n.unread = old.ctx.unread \union new /\ n.texts = old.ctx.texts
        /\ n.skipped = old.ctx.skipped /\ n.unreadable = old.ctx.unreadable
    BY <2>1 DEF ContextSpace
  <2> QED
    BY <2>2
<1>6. PICK next \in CallSpace :
        /\ next = Onward(old, "patch", ctx)
        /\ next.pc = "patch" /\ next.ctx = ctx /\ next.mode = mode
        /\ next.moved = old.moved /\ next.result = old.result /\ next.ready = old.ready
  BY <1>2, CallGoes DEF CallPcs
<1>7. /\ mode # "branch" /\ old.ctx.texts = {} /\ old.ctx.skipped = {}
      /\ old.ctx.unreadable = {}
  BY <1>1, <1>2, <1>4 DEF ContextSound
<1>8. ASSUME NEW f \in Files \ next.moved
      PROVE  FileSound(next, f)
  <2>1. FileSound(old, f)
    BY <1>1, <1>6 DEF ContextSound
  <2>2. /\ PatchesOf(old.ctx, f) = DiffPart(mode, f)
        /\ f \in old.ctx.unread <=> DiffPart(mode, f) # {}
    BY <1>2, <1>4, <2>1 DEF FileSound
  <2>3. f \in new <=> NewPart(mode, f) # {}
    BY <1>3, <1>7 DEF NewPart, ToOf
  <2>4. PatchesOf(ctx, f) = PatchesOf(old.ctx, f)
    BY <1>5 DEF PatchesOf
  <2>5. PatchesOf(ctx, f) = PatchesFor(ctx, mode, f)
    BY <1>5, <1>7, <2>2, <2>3, <2>4 DEF PatchesFor
  <2>6. /\ f \in ctx.unread <=> IsChanged(mode, f)
        /\ f \in ctx.listed \union ctx.skipped => NewPart(mode, f) # {}
    BY <1>5, <1>7, <2>2, <2>3 DEF IsChanged
  <2> QED
    BY <1>6, <1>7, <2>5, <2>6 DEF FileSound
<1>9. ContextSound(next)
  <2>1. next.result = "nothing" => next.mode = "uncommitted" \/ setup.hasBase
    BY <1>1, <1>2, <1>6 DEF ContextSound
  <2>2. /\ next.ctx.texts = {} /\ next.ctx.unreadable = {}
        /\ next.ctx.listed \intersect next.ctx.skipped = {}
    BY <1>5, <1>6, <1>7
  <2> QED
    BY <1>6, <1>7, <1>8, <2>1, <2>2 DEF ContextSound
<1>10. next = [old EXCEPT !.pc = "patch", !.ctx.listed = new, !.ctx.unread = @ \union new]
  BY <1>5, <1>6 DEF CallSpace, Onward
<1> QED
  BY <1>1, <1>4, <1>6, <1>9, <1>10, CallWorksOn DEF Resting

\* A file git does not track gets its patch, unless it is gone again or git fails.
LEMMA PatchUntrackedInv ==
  ASSUME LocalInv, NEW c \in Calls, PatchUntracked(c)
  PROVE  LocalInv'
<1>1. PICK old \in CallSpace : old = calls[c] /\ ContextSound(old)
           /\ (old.pc # "review" => old.ready = 0)
  BY CallFacts
<1>2. PICK mode \in Modes : mode = old.mode
  BY DEF CallSpace
<1>3. old.pc = "patch"
  BY <1>1 DEF PatchUntracked, Step
<1>4. /\ mode # "branch" /\ old.ctx.texts = {} /\ old.ctx.unreadable = {}
      /\ old.ctx.listed \intersect old.ctx.skipped = {} /\ old.ctx \in ContextSpace
  BY <1>1, <1>2, <1>3 DEF ContextSound, CallSpace
<1>5. \A f \in Files \ old.moved :
        /\ PatchesOf(old.ctx, f) = PatchesFor(old.ctx, mode, f)
        /\ f \in old.ctx.unread <=> IsChanged(mode, f)
        /\ f \in old.ctx.listed \union old.ctx.skipped => NewPart(mode, f) # {}
  BY <1>1, <1>2, <1>3 DEF ContextSound, FileSound
<1>6. CASE old.ctx.listed = {}
  <2>1. PICK next \in CallSpace :
          /\ next = Onward(old, "read", old.ctx)
          /\ next.pc = "read" /\ next.ctx = old.ctx /\ next.mode = mode
          /\ next.moved = old.moved /\ next.result = old.result /\ next.ready = old.ready
    <3>1. "read" \in CallPcs
      BY DEF CallPcs
    <3> QED
      BY <1>2, <1>4, <3>1, CallGoes
  <2>2. next = [old EXCEPT !.pc = "read"]
    BY <2>1 DEF CallSpace, Onward
  <2>3. Step(c, "patch", next)
    BY <1>1, <1>6, <2>2 DEF PatchUntracked
  <2>4. ASSUME NEW f \in Files \ next.moved
        PROVE  FileSound(next, f)
    <3>1. TextsOf(next.ctx, f) = {}
      BY <1>4, <2>1 DEF TextsOf
    <3>2. /\ PatchesOf(next.ctx, f) = PatchesFor(next.ctx, mode, f)
          /\ f \in next.ctx.unread <=> IsChanged(mode, f)
          /\ f \in next.ctx.listed \union next.ctx.skipped => NewPart(mode, f) # {}
      BY <1>5, <2>1
    <3>3. TextsOf(next.ctx, f) = TextsFor(next.ctx, mode, f)
      BY <3>1, <3>2 DEF TextsFor
    <3> QED
      BY <1>4, <2>1, <3>2, <3>3 DEF FileSound
  <2>5. ContextSound(next)
    <3>1. next.result = "nothing" => next.mode = "uncommitted" \/ setup.hasBase
      BY <1>1, <1>2, <2>1 DEF ContextSound
    <3>2. next.ctx.listed = {} /\ next.ctx.unread \intersect next.ctx.unreadable = {}
      BY <1>4, <1>6, <2>1
    <3> QED
      BY <2>1, <2>4, <3>1, <3>2 DEF ContextSound
  <2> QED
    BY <1>1, <1>3, <2>1, <2>3, <2>5, CallWorksOn DEF Resting
<1>7. CASE old.ctx.listed # {}
  <2>1. PICK f \in old.ctx.listed :
          \/ Step(c, "patch", [old EXCEPT
               !.ctx.listed = @ \ {f},
               !.ctx.patches = @ \union IF tree.work[f] = Absent THEN {}
                                        ELSE {<<f, Absent, tree.work[f]>>}])
          \/ Step(c, "patch", [old EXCEPT !.ctx.listed = @ \ {f},
                                          !.ctx.skipped = @ \union {f}])
    BY <1>1, <1>7 DEF PatchUntracked
  <2>2. f \in Files /\ tree.work[f] \in Nat /\ Absent \in Nat
    BY <1>4, <2>1 DEF ContextSpace, LocalInv, LocalType, TreeType, Texts, Absent
  <2>3. PICK new \in SUBSET (Files \X Nat \X Nat), gone \in SUBSET Files :
          /\ \/ /\ new = IF tree.work[f] = Absent THEN {} ELSE {<<f, Absent, tree.work[f]>>}
                /\ gone = {}
             \/ new = {} /\ gone = {f}
          /\ Step(c, "patch", [old EXCEPT !.ctx.listed = @ \ {f}, !.ctx.patches = @ \union new,
                                          !.ctx.skipped = @ \union gone])
    <3> DEFINE patch == IF tree.work[f] = Absent THEN {} ELSE {<<f, Absent, tree.work[f]>>}
    <3>1. patch \in SUBSET (Files \X Nat \X Nat)
      BY <2>2
    <3> HIDE DEF patch
    <3>2. /\ [old EXCEPT !.ctx.listed = @ \ {f}, !.ctx.patches = @ \union patch] =
               [old EXCEPT !.ctx.listed = @ \ {f}, !.ctx.patches = @ \union patch,
                           !.ctx.skipped = @ \union {}]
          /\ [old EXCEPT !.ctx.listed = @ \ {f}, !.ctx.skipped = @ \union {f}] =
               [old EXCEPT !.ctx.listed = @ \ {f}, !.ctx.patches = @ \union {},
                           !.ctx.skipped = @ \union {f}]
      <4>1. /\ old.ctx.skipped = old.ctx.skipped \union {}
            /\ old.ctx.patches = old.ctx.patches \union {}
        OBVIOUS
      <4>2. [old EXCEPT !.ctx.listed = @ \ {f}, !.ctx.patches = @ \union patch] =
               [old EXCEPT !.ctx.listed = @ \ {f}, !.ctx.patches = @ \union patch,
                           !.ctx.skipped = @ \union {}]
        BY <4>1 DEF CallSpace, ContextSpace
      <4>3. [old EXCEPT !.ctx.listed = @ \ {f}, !.ctx.skipped = @ \union {f}] =
               [old EXCEPT !.ctx.listed = @ \ {f}, !.ctx.patches = @ \union {},
                           !.ctx.skipped = @ \union {f}]
        BY <4>1 DEF CallSpace, ContextSpace
      <4> QED
        BY <4>2, <4>3
    <3>3. CASE Step(c, "patch", [old EXCEPT !.ctx.listed = @ \ {f},
                                            !.ctx.patches = @ \union patch])
      <4>1. Step(c, "patch", [old EXCEPT !.ctx.listed = @ \ {f}, !.ctx.patches = @ \union patch,
                                         !.ctx.skipped = @ \union {}])
        BY <3>2, <3>3
      <4> QED
        BY <3>1, <4>1 DEF patch
    <3>4. CASE Step(c, "patch", [old EXCEPT !.ctx.listed = @ \ {f},
                                            !.ctx.skipped = @ \union {f}])
      <4>1. Step(c, "patch", [old EXCEPT !.ctx.listed = @ \ {f}, !.ctx.patches = @ \union {},
                                         !.ctx.skipped = @ \union {f}])
        BY <3>2, <3>4
      <4> QED
        BY <2>2, <4>1
    <3> QED
      BY <2>1, <3>3, <3>4 DEF patch
  <2>4. PICK ctx \in ContextSpace :
          /\ ctx = [old.ctx EXCEPT !.listed = @ \ {f}, !.patches = @ \union new,
                                   !.skipped = @ \union gone]
          /\ ctx.head = old.ctx.head /\ ctx.patches = old.ctx.patches \union new
          /\ ctx.listed = old.ctx.listed \ {f} /\ ctx.unread = old.ctx.unread
          /\ ctx.texts = old.ctx.texts /\ ctx.skipped = old.ctx.skipped \union gone
          /\ ctx.unreadable = old.ctx.unreadable
    <3> DEFINE n == [old.ctx EXCEPT !.listed = @ \ {f}, !.patches = @ \union new,
                                    !.skipped = @ \union gone]
    <3>1. /\ n \in ContextSpace /\ n.head = old.ctx.head
          /\ n.patches = old.ctx.patches \union new /\ n.listed = old.ctx.listed \ {f}
          /\ n.unread = old.ctx.unread /\ n.texts = old.ctx.texts
          /\ n.skipped = old.ctx.skipped \union gone /\ n.unreadable = old.ctx.unreadable
      BY <1>4 DEF ContextSpace
    <3> QED
      BY <3>1
  <2>5. PICK next \in CallSpace :
          /\ next = Onward(old, "patch", ctx)
          /\ next.pc = "patch" /\ next.ctx = ctx /\ next.mode = mode
          /\ next.moved = old.moved /\ next.result = old.result /\ next.ready = old.ready
    <3>1. "patch" \in CallPcs
      BY DEF CallPcs
    <3> QED
      BY <1>2, <3>1, CallGoes
  <2>6. next = [old EXCEPT !.ctx.listed = @ \ {f}, !.ctx.patches = @ \union new,
                           !.ctx.skipped = @ \union gone]
    BY <1>3, <2>4, <2>5 DEF CallSpace, Onward
  <2>7. Step(c, "patch", next)
    BY <2>3, <2>6
  <2>8. ASSUME NEW g \in Files \ next.moved
        PROVE  FileSound(next, g)
    <3>1. PatchesOf(ctx, g) = PatchesFor(ctx, mode, g)
      <4>1. CASE g # f
        <5>1. PatchesOf(ctx, g) = PatchesOf(old.ctx, g)
          BY <2>3, <2>4, <4>1 DEF PatchesOf
        <5>2. g \in ctx.listed \union ctx.skipped <=> g \in old.ctx.listed \union old.ctx.skipped
          BY <2>3, <2>4, <4>1
        <5>3. PatchesFor(ctx, mode, g) = PatchesFor(old.ctx, mode, g)
          BY <5>2 DEF PatchesFor
        <5> QED
          BY <1>5, <2>5, <5>1, <5>3
      <4>2. CASE g = f
        <5>1. PatchesOf(old.ctx, f) = DiffPart(mode, f) /\ NewPart(mode, f) # {}
          BY <1>5, <2>1, <2>5, <4>2 DEF PatchesFor
        <5>2. tree.work[f] # Absent /\ NewPart(mode, f) = {<<f, Absent, tree.work[f]>>}
          BY <1>4, <5>1 DEF NewPart, ToOf
        <5>3. PatchesOf(ctx, f) = DiffPart(mode, f) \union new
          <6>1. \A p \in new : p[1] = f
            BY <2>3
          <6> QED
            BY <2>4, <5>1, <6>1 DEF PatchesOf
        <5>4. f \notin ctx.listed /\ f \notin old.ctx.skipped
          BY <1>4, <2>1, <2>4
        <5>5. CASE new = NewPart(mode, f) /\ gone = {}
          <6>1. f \notin ctx.listed \union ctx.skipped
            BY <2>4, <5>4, <5>5
          <6> QED
            BY <4>2, <5>3, <5>5, <6>1 DEF PatchesFor
        <5>6. CASE new = {} /\ gone = {f}
          BY <2>4, <4>2, <5>3, <5>6 DEF PatchesFor
        <5> QED
          BY <2>3, <5>2, <5>5, <5>6
      <4> QED
        BY <4>1, <4>2
    <3>2. /\ g \in ctx.unread <=> IsChanged(mode, g)
          /\ g \in ctx.listed \union ctx.skipped => NewPart(mode, g) # {}
      <4>1. g \in ctx.listed \union ctx.skipped => g \in old.ctx.listed \union old.ctx.skipped
        BY <2>1, <2>3, <2>4
      <4> QED
        BY <1>5, <2>4, <2>5, <4>1
    <3> QED
      BY <1>4, <2>5, <3>1, <3>2 DEF FileSound
  <2>9. ContextSound(next)
    <3>1. next.result = "nothing" => next.mode = "uncommitted" \/ setup.hasBase
      BY <1>1, <1>2, <2>5 DEF ContextSound
    <3>2. /\ next.ctx.texts = {} /\ next.ctx.unreadable = {}
          /\ next.ctx.listed \intersect next.ctx.skipped = {}
      BY <1>4, <2>3, <2>4, <2>5
    <3> QED
      BY <1>4, <2>5, <2>8, <3>1, <3>2 DEF ContextSound
  <2> QED
    BY <1>1, <1>3, <2>5, <2>7, <2>9, CallWorksOn DEF Resting
<1> QED
  BY <1>6, <1>7

\* A text is read from the end the diff leads to, or could not be.
LEMMA ReadTextInv ==
  ASSUME LocalInv, NEW c \in Calls, ReadText(c)
  PROVE  LocalInv'
<1>1. PICK old \in CallSpace : old = calls[c] /\ ContextSound(old)
           /\ (old.pc # "review" => old.ready = 0)
  BY CallFacts
<1>2. PICK mode \in Modes : mode = old.mode
  BY DEF CallSpace
<1>3. old.pc = "read" /\ old.ctx \in ContextSpace
  BY <1>1 DEF ReadText, Step, CallSpace
<1>4. /\ old.ctx.listed = {} /\ old.ctx.unread \intersect old.ctx.unreadable = {}
      /\ \A f \in Files \ old.moved :
           /\ mode = "branch" => old.ctx.head[f] = tree.head[f]
           /\ PatchesOf(old.ctx, f) = PatchesFor(old.ctx, mode, f)
           /\ f \in old.ctx.listed \union old.ctx.skipped => NewPart(mode, f) # {}
           /\ TextsOf(old.ctx, f) = TextsFor(old.ctx, mode, f)
           /\ f \in old.ctx.unread => IsChanged(mode, f)
  BY <1>1, <1>2, <1>3 DEF ContextSound, FileSound
<1>5. CASE old.ctx.unread = {}
  <2>1. PICK next \in CallSpace :
          /\ next = Onward(old, "judge", old.ctx)
          /\ next.pc = "judge" /\ next.ctx = old.ctx /\ next.mode = mode
          /\ next.moved = old.moved /\ next.result = old.result /\ next.ready = old.ready
    <3>1. "judge" \in CallPcs
      BY DEF CallPcs
    <3> QED
      BY <1>2, <1>3, <3>1, CallGoes
  <2>2. next = [old EXCEPT !.pc = "judge"]
    BY <2>1 DEF CallSpace, Onward
  <2>3. Step(c, "read", next)
    BY <1>1, <1>5, <2>2 DEF ReadText
  <2>4. \A f \in Files \ next.moved : FileSound(next, f)
    BY <1>4, <2>1 DEF FileSound
  <2>5. ContextSound(next)
    <3>1. next.result = "nothing" => next.mode = "uncommitted" \/ setup.hasBase
      BY <1>1, <1>2, <2>1 DEF ContextSound
    <3> QED
      BY <1>4, <1>5, <2>1, <2>4, <3>1 DEF ContextSound
  <2> QED
    BY <1>1, <1>3, <2>1, <2>3, <2>5, CallWorksOn DEF Resting
<1>6. CASE old.ctx.unread # {}
  <2>1. PICK f \in old.ctx.unread :
          \/ Step(c, "read", [old EXCEPT
               !.ctx.unread = @ \ {f},
               !.ctx.texts = @ \union IF ToOf(mode)[f] = Absent THEN {}
                                      ELSE {<<f, ToOf(mode)[f]>>}])
          \/ Step(c, "read", [old EXCEPT !.ctx.unread = @ \ {f},
                                         !.ctx.unreadable = @ \union {f}])
    BY <1>1, <1>2, <1>6 DEF ReadText, ReaderText, ToOf
  <2>2. f \in Files /\ ToOf(mode)[f] \in Nat
    BY <1>3, <2>1, DiffFacts DEF ContextSpace, LocalInv, Texts
  <2>3. PICK new \in SUBSET (Files \X Nat), gone \in SUBSET Files :
          /\ \/ /\ new = IF ToOf(mode)[f] = Absent THEN {} ELSE {<<f, ToOf(mode)[f]>>}
                /\ gone = {}
             \/ new = {} /\ gone = {f}
          /\ Step(c, "read", [old EXCEPT !.ctx.unread = @ \ {f}, !.ctx.texts = @ \union new,
                                         !.ctx.unreadable = @ \union gone])
    <3> DEFINE text == IF ToOf(mode)[f] = Absent THEN {} ELSE {<<f, ToOf(mode)[f]>>}
    <3>1. text \in SUBSET (Files \X Nat)
      BY <2>2
    <3> HIDE DEF text
    <3>2. /\ [old EXCEPT !.ctx.unread = @ \ {f}, !.ctx.texts = @ \union text] =
               [old EXCEPT !.ctx.unread = @ \ {f}, !.ctx.texts = @ \union text,
                           !.ctx.unreadable = @ \union {}]
          /\ [old EXCEPT !.ctx.unread = @ \ {f}, !.ctx.unreadable = @ \union {f}] =
               [old EXCEPT !.ctx.unread = @ \ {f}, !.ctx.texts = @ \union {},
                           !.ctx.unreadable = @ \union {f}]
      <4>1. /\ old.ctx.unreadable = old.ctx.unreadable \union {}
            /\ old.ctx.texts = old.ctx.texts \union {}
        OBVIOUS
      <4>2. [old EXCEPT !.ctx.unread = @ \ {f}, !.ctx.texts = @ \union text] =
               [old EXCEPT !.ctx.unread = @ \ {f}, !.ctx.texts = @ \union text,
                           !.ctx.unreadable = @ \union {}]
        BY <4>1 DEF CallSpace, ContextSpace
      <4>3. [old EXCEPT !.ctx.unread = @ \ {f}, !.ctx.unreadable = @ \union {f}] =
               [old EXCEPT !.ctx.unread = @ \ {f}, !.ctx.texts = @ \union {},
                           !.ctx.unreadable = @ \union {f}]
        BY <4>1 DEF CallSpace, ContextSpace
      <4> QED
        BY <4>2, <4>3
    <3>3. CASE Step(c, "read", [old EXCEPT !.ctx.unread = @ \ {f}, !.ctx.texts = @ \union text])
      <4>1. Step(c, "read", [old EXCEPT !.ctx.unread = @ \ {f}, !.ctx.texts = @ \union text,
                                        !.ctx.unreadable = @ \union {}])
        BY <3>2, <3>3
      <4> QED
        BY <3>1, <4>1 DEF text
    <3>4. CASE Step(c, "read", [old EXCEPT !.ctx.unread = @ \ {f},
                                           !.ctx.unreadable = @ \union {f}])
      <4>1. Step(c, "read", [old EXCEPT !.ctx.unread = @ \ {f}, !.ctx.texts = @ \union {},
                                        !.ctx.unreadable = @ \union {f}])
        BY <3>2, <3>4
      <4> QED
        BY <2>2, <4>1
    <3> QED
      BY <2>1, <3>3, <3>4 DEF text
  <2>4. PICK ctx \in ContextSpace :
          /\ ctx = [old.ctx EXCEPT !.unread = @ \ {f}, !.texts = @ \union new,
                                   !.unreadable = @ \union gone]
          /\ ctx.head = old.ctx.head /\ ctx.patches = old.ctx.patches
          /\ ctx.listed = old.ctx.listed /\ ctx.unread = old.ctx.unread \ {f}
          /\ ctx.texts = old.ctx.texts \union new /\ ctx.skipped = old.ctx.skipped
          /\ ctx.unreadable = old.ctx.unreadable \union gone
    <3> DEFINE n == [old.ctx EXCEPT !.unread = @ \ {f}, !.texts = @ \union new,
                                    !.unreadable = @ \union gone]
    <3>1. /\ n \in ContextSpace /\ n.head = old.ctx.head /\ n.patches = old.ctx.patches
          /\ n.listed = old.ctx.listed /\ n.unread = old.ctx.unread \ {f}
          /\ n.texts = old.ctx.texts \union new /\ n.skipped = old.ctx.skipped
          /\ n.unreadable = old.ctx.unreadable \union gone
      BY <1>3 DEF ContextSpace
    <3> QED
      BY <3>1
  <2>5. PICK next \in CallSpace :
          /\ next = Onward(old, "read", ctx)
          /\ next.pc = "read" /\ next.ctx = ctx /\ next.mode = mode
          /\ next.moved = old.moved /\ next.result = old.result /\ next.ready = old.ready
    <3>1. "read" \in CallPcs
      BY DEF CallPcs
    <3> QED
      BY <1>2, <3>1, CallGoes
  <2>6. next = [old EXCEPT !.ctx.unread = @ \ {f}, !.ctx.texts = @ \union new,
                           !.ctx.unreadable = @ \union gone]
    BY <1>3, <2>4, <2>5 DEF CallSpace, Onward
  <2>7. Step(c, "read", next)
    BY <2>3, <2>6
  <2>8. ASSUME NEW g \in Files \ next.moved
        PROVE  FileSound(next, g)
    <3>1. TextsOf(ctx, g) = TextsFor(ctx, mode, g)
      <4>1. CASE g # f
        <5>1. TextsOf(ctx, g) = TextsOf(old.ctx, g)
          BY <2>3, <2>4, <4>1 DEF TextsOf
        <5>2. /\ g \in ctx.unread \union ctx.unreadable <=>
                   g \in old.ctx.unread \union old.ctx.unreadable
          BY <2>3, <2>4, <4>1
        <5>3. TextsFor(ctx, mode, g) = TextsFor(old.ctx, mode, g)
          BY <5>2 DEF TextsFor
        <5> QED
          BY <1>4, <2>5, <5>1, <5>3
      <4>2. CASE g = f
        <5>1. TextsOf(old.ctx, f) = {} /\ IsChanged(mode, f)
          BY <1>4, <2>1, <2>5, <4>2 DEF TextsFor
        <5>2. TextsOf(ctx, f) = new
          <6>1. \A t \in new : t[1] = f
            BY <2>3
          <6> QED
            BY <2>4, <5>1, <6>1 DEF TextsOf
        <5>3. f \notin ctx.unread /\ f \notin old.ctx.unreadable
          BY <1>4, <2>1, <2>4
        <5>4. CASE gone = {}
          <6>1. f \notin ctx.unread \union ctx.unreadable
            BY <2>4, <5>3, <5>4
          <6> QED
            BY <2>3, <4>2, <5>1, <5>2, <5>4, <6>1 DEF TextsFor
        <5>5. CASE new = {} /\ gone = {f}
          BY <2>4, <4>2, <5>2, <5>5 DEF TextsFor
        <5> QED
          BY <2>3, <5>4, <5>5
      <4> QED
        BY <4>1, <4>2
    <3>2. /\ mode = "branch" => ctx.head[g] = tree.head[g]
          /\ PatchesOf(ctx, g) = PatchesFor(ctx, mode, g)
          /\ g \in ctx.listed \union ctx.skipped => NewPart(mode, g) # {}
          /\ g \in ctx.unread => IsChanged(mode, g)
      BY <1>4, <2>4, <2>5 DEF PatchesOf, PatchesFor
    <3> QED
      BY <2>5, <3>1, <3>2 DEF FileSound
  <2>9. ContextSound(next)
    <3>1. next.result = "nothing" => next.mode = "uncommitted" \/ setup.hasBase
      BY <1>1, <1>2, <2>5 DEF ContextSound
    <3>2. next.ctx.listed = {} /\ next.ctx.unread \intersect next.ctx.unreadable = {}
      BY <1>4, <2>3, <2>4, <2>5
    <3> QED
      BY <2>5, <2>8, <3>1, <3>2 DEF ContextSound
  <2> QED
    BY <1>1, <1>3, <2>5, <2>7, <2>9, CallWorksOn DEF Resting
<1> QED
  BY <1>5, <1>6

LEMMA JudgeDiffInv ==
  ASSUME LocalInv, NEW c \in Calls, JudgeDiff(c)
  PROVE  LocalInv'
<1>1. CASE Step(c, "judge", [Idle EXCEPT !.pc = "review", !.mode = calls[c].mode,
                                         !.left = MaxCalls])
  <2>1. PICK mode \in Modes : mode = calls[c].mode
    BY CallFacts DEF CallSpace
  <2> DEFINE next == [Idle EXCEPT !.pc = "review", !.mode = mode, !.left = MaxCalls]
  <2>2. next \in CallSpace /\ next.pc = "review" /\ next.ready = 0 /\ next.result = Unset
    BY LocalAssumption DEF LocalAssumption, Idle, CallSpace, NoContext, ContextSpace
  <2>3. Step(c, "judge", next)
    BY <1>1, <2>1
  <2> HIDE DEF next
  <2>4. PICK n \in CallSpace : n = next
    BY <2>2
  <2>5. ContextSound(n)
    <3>1. n.result # "nothing"
      BY <2>2, <2>4, SettingsAssumption DEF SettingsAssumption
    <3> QED
      BY <2>2, <2>4, <3>1 DEF ContextSound, FileSound
  <2>6. Step(c, "judge", n)
    BY <2>3, <2>4
  <2> QED
    BY <2>2, <2>4, <2>5, <2>6, CallWorksOn DEF Resting
<1>2. CASE /\ calls[c].pc = "judge"
           /\ Ends(c, IF calls[c].mode # "uncommitted" /\ ~setup.hasBase
                      THEN "error" ELSE "nothing")
           /\ UNCHANGED <<setup, settingsVars, env, tree, edits, interrupted>>
  <2>1. PICK result \in {"error", "nothing", "reviewed"} :
          /\ result = IF calls[c].mode # "uncommitted" /\ ~setup.hasBase
                      THEN "error" ELSE "nothing"
          /\ Ends(c, result)
    BY <1>2
  <2>2. result = "nothing" => calls[c].mode = "uncommitted" \/ setup.hasBase
    BY <2>1
  <2> QED
    BY <1>2, <2>1, <2>2, CallEnds DEF Resting
<1> QED
  BY <1>1, <1>2 DEF JudgeDiff

\* Only a call that looks at the flag before it is set becomes ready, and only the
\* ready ones go out.
LEMMA CheckCallInv ==
  ASSUME LocalInv, NEW c \in Calls, CheckCall(c)
  PROVE  LocalInv'
<1>1. PICK old \in CallSpace : old = calls[c] /\ ContextSound(old)
  BY CallFacts
<1>2. /\ calls[c].pc = "review" /\ old.left > 0 /\ old.ready < Workers
      /\ server.lock = c /\ IsAttended /\ server.late + old.ready <= Workers
  BY <1>1, CallFacts DEF CheckCall, Step, Resting
<1>3. PICK left \in Nat, ready \in Nat :
        left = old.left - 1 /\ ready = IF interrupted THEN old.ready ELSE old.ready + 1
  BY <1>2 DEF CallSpace
<1> DEFINE next == [old EXCEPT !.left = left, !.ready = ready]
<1>4. /\ next \in CallSpace /\ next.pc = "review" /\ next.ready = ready
      /\ next.mode = old.mode /\ next.result = old.result
  BY <1>1, <1>2 DEF CallSpace
<1>5. Step(c, "review", next)
  BY <1>1, <1>3 DEF CheckCall, CallSpace
<1>6. server \in ServerType /\ (server.pc # "gone" => server.late = 0)
  BY DEF LocalInv, LocalType, ServerInv
<1>7. server.late + ready <= Workers
  <2>1. CASE interrupted
    BY <1>2, <1>3, <2>1
  <2>2. CASE ~interrupted
    <3>1. server.late = 0
      BY <1>2, <1>6, <2>2 DEF IsAttended
    <3> QED
      BY <1>2, <1>3, <2>2, <3>1, LocalAssumption DEF LocalAssumption, CallSpace
  <2> QED
    BY <2>1, <2>2
<1> HIDE DEF next
<1>8. PICK n \in CallSpace : n = next
  BY <1>4
<1>9. ContextSound(n)
  <2>1. n.result = "nothing" => n.mode = "uncommitted" \/ setup.hasBase
    BY <1>1, <1>4, <1>8 DEF ContextSound
  <2> QED
    BY <1>4, <1>8, <2>1 DEF ContextSound, FileSound
<1>10. PICK l \in Calls \union {Nobody}, late \in Nat : l = c /\ late = server.late
  BY <1>6 DEF ServerType
<1>11. server' = [server EXCEPT !.lock = l, !.late = late]
       /\ UNCHANGED <<setup, tree, edits, interrupted>> /\ calls' = [calls EXCEPT ![c] = n]
  BY <1>2, <1>5, <1>6, <1>8, <1>10 DEF Step, ServerType
<1> QED
  BY <1>2, <1>4, <1>6, <1>7, <1>8, <1>9, <1>10, <1>11, CallMovesBy DEF Resting

LEMMA ModelCallInv ==
  ASSUME LocalInv, NEW c \in Calls, ModelCall(c)
  PROVE  LocalInv'
<1>1. PICK old \in CallSpace : old = calls[c] /\ ContextSound(old)
  BY CallFacts
<1>2. /\ calls[c].pc = "review" /\ old.ready > 0
      /\ server.lock = c /\ IsAttended /\ server.late + old.ready <= Workers
  BY <1>1, CallFacts DEF ModelCall, Resting
<1>3. /\ server \in ServerType /\ (server.pc # "gone" => server.late = 0)
      /\ UNCHANGED <<setup, tree, edits, interrupted>>
      /\ calls' = [calls EXCEPT ![c].ready = @ - 1] /\ calls \in [Calls -> CallSpace]
      /\ server' = [server EXCEPT !.late = IF server.pc = "gone" THEN @ + 1 ELSE @]
  BY DEF LocalInv, LocalType, ServerInv, ModelCall
<1>4. PICK ready \in Nat : ready = old.ready - 1
  BY <1>2 DEF CallSpace
<1>5. PICK l \in Calls \union {Nobody}, late \in Nat :
        l = c /\ late = IF server.pc = "gone" THEN server.late + 1 ELSE server.late
  BY <1>3 DEF ServerType
<1> DEFINE next == [old EXCEPT !.ready = ready]
<1>6. /\ next \in CallSpace /\ next.pc = "review" /\ next.ready = ready
      /\ next.mode = old.mode /\ next.result = old.result
  BY <1>1, <1>2 DEF CallSpace
<1>7. calls' = [calls EXCEPT ![c] = next]
  <2>1. [old EXCEPT !.ready = @ - 1] = next
    BY <1>4 DEF CallSpace
  <2> QED
    BY <1>1, <1>3, <2>1
<1>8. server' = [server EXCEPT !.lock = l, !.late = late]
  BY <1>2, <1>3, <1>5 DEF ServerType
<1>9. late + ready <= Workers /\ (server.pc # "gone" => late = 0)
  BY <1>2, <1>3, <1>4, <1>5, LocalAssumption DEF LocalAssumption, CallSpace, ServerType
<1> HIDE DEF next
<1>10. PICK n \in CallSpace : n = next
  BY <1>6
<1>11. ContextSound(n)
  <2>1. n.result = "nothing" => n.mode = "uncommitted" \/ setup.hasBase
    BY <1>1, <1>6, <1>10 DEF ContextSound
  <2> QED
    BY <1>6, <1>10, <2>1 DEF ContextSound, FileSound
<1> QED
  BY <1>2, <1>3, <1>5, <1>6, <1>7, <1>8, <1>9, <1>10, <1>11, CallMovesBy DEF Resting

LEMMA ReturnFindingsInv ==
  ASSUME LocalInv, NEW c \in Calls, ReturnFindings(c)
  PROVE  LocalInv'
<1>1. /\ calls[c].pc = "review" /\ Ends(c, "reviewed")
      /\ UNCHANGED <<setup, tree, edits, interrupted>>
  BY DEF ReturnFindings
<1> QED
  BY <1>1, CallEnds DEF Resting

\* A file that is touched is one the calls at work on it no longer answer for.
LEMMA TouchInv ==
  ASSUME LocalInv, NEW f \in Files, NEW modes \in SUBSET Modes, calls' = Moves(f, modes),
         UNCHANGED <<setup, server, interrupted>>, edits' = edits + 1,
         tree' \in TreeType, tree'.base = tree.base,
         \A g \in Files \ {f} : /\ tree'.head[g] = tree.head[g] /\ tree'.work[g] = tree.work[g]
                                /\ g \in tree'.index <=> g \in tree.index,
         "branch" \in modes \/ tree'.head = tree.head,
         {"working", "uncommitted"} \subseteq modes
  PROVE  LocalInv'
<1>1. LocalType /\ ServerInv /\ ContextInv
  BY DEF LocalInv
<1>2. ASSUME NEW c \in Calls
      PROVE  /\ calls'[c] \in CallSpace /\ calls'[c].pc = calls[c].pc
             /\ calls'[c].mode = calls[c].mode /\ calls'[c].ctx = calls[c].ctx
             /\ calls'[c].result = calls[c].result /\ calls'[c].ready = calls[c].ready
             /\ calls[c].moved \subseteq calls'[c].moved
             /\ calls[c].pc \in Building /\ calls[c].mode \in modes => f \in calls'[c].moved
  <2>1. calls[c] \in CallSpace
    BY <1>1 DEF LocalType
  <2>2. calls'[c] = IF calls[c].pc \in Building /\ calls[c].mode \in modes
                    THEN [calls[c] EXCEPT !.moved = @ \union {f}] ELSE calls[c]
    BY DEF Moves
  <2> QED
    BY <2>1, <2>2 DEF CallSpace
<1>3. LocalType'
  <2>1. calls' \in [Calls -> CallSpace]
    BY <1>2 DEF Moves
  <2> QED
    BY <1>1, <2>1 DEF LocalType
<1>4. ServerInv'
  BY <1>1, <1>2 DEF ServerInv
<1>5. ASSUME NEW c \in Calls PROVE ContextSound(calls[c])'
  <2>1. PICK old \in CallSpace, new \in CallSpace :
          /\ old = calls[c] /\ new = calls'[c] /\ ContextSound(old)
          /\ new.pc = old.pc /\ new.mode = old.mode /\ new.ctx = old.ctx
          /\ new.result = old.result /\ old.moved \subseteq new.moved
          /\ old.pc \in Building /\ old.mode \in modes => f \in new.moved
    BY <1>1, <1>2 DEF LocalType, ContextInv
  <2>2. ASSUME NEW g \in Files \ new.moved, old.pc \in Building
        PROVE  /\ FromOf(old.mode)'[g] = FromOf(old.mode)[g]
               /\ ToOf(old.mode)'[g] = ToOf(old.mode)[g]
               /\ old.mode = "branch" => tree'.head[g] = tree.head[g]
               /\ old.mode # "branch" => (g \in tree'.index <=> g \in tree.index)
    <3>1. CASE g = f
      <4>1. old.mode = "branch" /\ tree'.head = tree.head
        BY <2>1, <2>2, <3>1 DEF CallSpace, Modes
      <4> QED
        BY <4>1 DEF FromOf, ToOf, BaseText
    <3>2. CASE g # f
      BY <3>2 DEF FromOf, ToOf, BaseText
    <3> QED
      BY <3>1, <3>2
  <2>3. ASSUME NEW g \in Files \ new.moved
        PROVE  FileSound(new, g)'
    <3>1. FileSound(old, g)
      BY <2>1 DEF ContextSound
    <3>2. CASE old.pc \in Building
      <4>1. /\ FromOf(old.mode)'[g] = FromOf(old.mode)[g]
            /\ ToOf(old.mode)'[g] = ToOf(old.mode)[g]
            /\ old.mode = "branch" => tree'.head[g] = tree.head[g]
            /\ old.mode # "branch" => (g \in tree'.index <=> g \in tree.index)
        BY <2>2, <3>2
      <4>2. /\ DiffPart(old.mode, g)' = DiffPart(old.mode, g)
            /\ NewPart(old.mode, g)' = NewPart(old.mode, g)
            /\ IsChanged(old.mode, g)' = IsChanged(old.mode, g)
        <5>1. ToldOf(old.mode, g)' = ToldOf(old.mode, g)
          BY <4>1 DEF ToldOf
        <5> QED
          BY <4>1, <5>1 DEF DiffPart, NewPart, IsChanged
      <4>3. /\ PatchesOf(old.ctx, g)' = PatchesOf(old.ctx, g)
            /\ TextsOf(old.ctx, g)' = TextsOf(old.ctx, g)
            /\ PatchesFor(old.ctx, old.mode, g)' = PatchesFor(old.ctx, old.mode, g)
            /\ TextsFor(old.ctx, old.mode, g)' = TextsFor(old.ctx, old.mode, g)
        BY <4>1, <4>2 DEF PatchesOf, TextsOf, PatchesFor, TextsFor
      <4>4. FileSound(old, g)'
        BY <3>1, <4>1, <4>2, <4>3 DEF FileSound
      <4> QED
        BY <2>1, <4>4 DEF FileSound
    <3>3. CASE old.pc \notin Building
      BY <2>1, <3>3 DEF FileSound, Building
    <3> QED
      BY <3>2, <3>3
  <2>4. ContextSound(new)'
    BY <2>1, <2>3 DEF ContextSound
  <2> QED
    BY <2>1, <2>4, SameSound
<1>6. ContextInv'
  BY <1>5 DEF ContextInv
<1> QED
  BY <1>3, <1>4, <1>6 DEF LocalInv

LEMMA EditInv ==
  ASSUME LocalInv, Edit
  PROVE  LocalInv'
<1>1. PICK f \in Files, v \in {Absent, edits + 4} :
        tree' = [tree EXCEPT !.work[f] = v] /\ calls' = Moves(f, {"working", "uncommitted"})
  BY DEF Edit
<1>2. /\ tree \in TreeType /\ edits \in Nat
      /\ UNCHANGED <<setup, server, interrupted>> /\ edits' = edits + 1
  BY DEF LocalInv, LocalType, Edit
<1>3. v \in Nat
  BY <1>1, <1>2 DEF Absent
<1>4. /\ tree' \in TreeType
      /\ tree'.base = tree.base /\ tree'.head = tree.head /\ tree'.index = tree.index
      /\ \A g \in Files \ {f} : tree'.work[g] = tree.work[g]
  BY <1>1, <1>2, <1>3 DEF TreeType, Texts
<1>5. PICK modes \in SUBSET Modes : modes = {"working", "uncommitted"}
  BY DEF Modes
<1> QED
  BY <1>1, <1>2, <1>4, <1>5, TouchInv

LEMMA StageInv ==
  ASSUME LocalInv, Stage
  PROVE  LocalInv'
<1>1. PICK f \in Files :
        /\ \/ tree' = [tree EXCEPT !.index = @ \ {f}]
           \/ tree' = [tree EXCEPT !.index = @ \union {f}]
        /\ calls' = Moves(f, {"working", "uncommitted"})
  BY DEF Stage
<1>2. /\ tree \in TreeType
      /\ UNCHANGED <<setup, server, interrupted>> /\ edits' = edits + 1
  BY DEF LocalInv, LocalType, Stage
<1>3. /\ tree' \in TreeType
      /\ tree'.base = tree.base /\ tree'.head = tree.head /\ tree'.work = tree.work
      /\ \A g \in Files \ {f} : g \in tree'.index <=> g \in tree.index
  BY <1>1, <1>2 DEF TreeType
<1>4. PICK modes \in SUBSET Modes : modes = {"working", "uncommitted"}
  BY DEF Modes
<1> QED
  BY <1>1, <1>2, <1>3, <1>4, TouchInv

LEMMA CommitInv ==
  ASSUME LocalInv, Commit
  PROVE  LocalInv'
<1>1. PICK f \in Files :
        /\ tree' = [tree EXCEPT !.head[f] = TrackedText[f],
                                !.index = IF TrackedText[f] = Absent THEN @ \ {f} ELSE @]
        /\ calls' = Moves(f, Modes)
  BY DEF Commit
<1>2. /\ tree \in TreeType
      /\ UNCHANGED <<setup, server, interrupted>> /\ edits' = edits + 1
  BY DEF LocalInv, LocalType, Commit
<1>3. PICK v \in Nat, index \in SUBSET Files :
        /\ tree' = [tree EXCEPT !.head[f] = v, !.index = index]
        /\ \A g \in Files \ {f} : g \in index <=> g \in tree.index
  <2>1. TrackedText[f] \in Nat
    BY <1>2 DEF TreeType, Texts, TrackedText, Absent
  <2>2. PICK i \in SUBSET Files : i = IF TrackedText[f] = Absent THEN tree.index \ {f} ELSE tree.index
    BY <1>2 DEF TreeType
  <2>3. tree' = [tree EXCEPT !.head[f] = TrackedText[f], !.index = i]
    BY <1>1, <2>2
  <2> QED
    BY <2>1, <2>2, <2>3
<1>4. /\ tree' \in TreeType
      /\ tree'.base = tree.base /\ tree'.work = tree.work
      /\ \A g \in Files \ {f} : /\ tree'.head[g] = tree.head[g]
                                /\ g \in tree'.index <=> g \in tree.index
  BY <1>2, <1>3 DEF TreeType, Texts
<1>5. PICK modes : modes = Modes
  OBVIOUS
<1>6. modes \in SUBSET Modes /\ "branch" \in modes /\ {"working", "uncommitted"} \subseteq modes
  BY <1>5 DEF Modes
<1> QED
  BY <1>1, <1>2, <1>4, <1>5, <1>6, TouchInv

\* The server starts, loses its client, and tells what still runs to wind down.
LEMMA ServeInv ==
  ASSUME LocalInv, Serve \/ ClientLeaves \/ RequestInterrupt
  PROVE  LocalInv'
<1>1. LocalType /\ ServerInv /\ ContextInv /\ UNCHANGED <<setup, tree, edits, calls>>
  BY DEF LocalInv, Serve, ClientLeaves, RequestInterrupt
<1>2. /\ server' \in ServerType /\ server'.lock = server.lock /\ server'.late = server.late
      /\ interrupted' \in BOOLEAN /\ server.pc # "gone"
      /\ \/ server.pc = "off" /\ server'.pc \in {"serving", "gone"}
         \/ server'.pc = "leaving"
         \/ server'.pc = "gone" /\ interrupted'
  BY <1>1 DEF LocalType, ServerType, Serve, ClientLeaves, RequestInterrupt
<1>3. LocalType'
  BY <1>1, <1>2 DEF LocalType
<1>4. ServerInv'
  BY <1>1, <1>2 DEF ServerInv
<1>5. ContextInv'
  <2>1. ASSUME NEW c \in Calls PROVE ContextSound(calls[c])'
    <3>1. PICK call \in CallSpace : call = calls[c] /\ ContextSound(call)
      BY <1>1 DEF LocalType, ContextInv
    <3>2. ContextSound(call)'
      BY <1>1, <3>1, SoundStays
    <3> QED
      BY <1>1, <3>1, <3>2, SameSound
  <2> QED
    BY <1>1, <2>1 DEF ContextInv
<1> QED
  BY <1>3, <1>4, <1>5 DEF LocalInv

LEMMA LocalStepsInv ==
  ASSUME LocalInv, LocalSteps
  PROVE  LocalInv' /\ UNCHANGED <<setup, settingsVars, env>>
<1>1. UNCHANGED <<setup, settingsVars, env>>
  <2>1. CASE Edit \/ Stage \/ Commit \/ Serve \/ ClientLeaves \/ RequestInterrupt
    BY <2>1 DEF Edit, Stage, Commit, Serve, ClientLeaves, RequestInterrupt
  <2>2. ASSUME NEW c \in Calls,
               \/ \E mode \in Modes : CallTool(c, mode)
               \/ TakeLock(c) \/ LoadForReview(c) \/ GitFails(c) \/ ResolveEnds(c)
        PROVE  UNCHANGED <<setup, settingsVars, env>>
    BY <2>2 DEF CallTool, TakeLock, LoadForReview, GitFails, ResolveEnds, Step
  <2>3. ASSUME NEW c \in Calls,
               \/ TakeDiff(c) \/ ListUntracked(c) \/ PatchUntracked(c) \/ ReadText(c)
               \/ JudgeDiff(c) \/ CheckCall(c) \/ ModelCall(c) \/ ReturnFindings(c)
        PROVE  UNCHANGED <<setup, settingsVars, env>>
    BY <2>3 DEF TakeDiff, ListUntracked, PatchUntracked, ReadText, JudgeDiff, CheckCall,
                ModelCall, ReturnFindings, Step
  <2> QED
    BY <2>1, <2>2, <2>3 DEF LocalSteps
<1>2. CASE Edit \/ Stage \/ Commit \/ Serve \/ ClientLeaves \/ RequestInterrupt
  BY <1>1, <1>2, EditInv, StageInv, CommitInv, ServeInv
<1>3. CASE \E c \in Calls :
             \/ \E mode \in Modes : CallTool(c, mode)
             \/ TakeLock(c) \/ LoadForReview(c) \/ GitFails(c)
             \/ ResolveEnds(c) \/ TakeDiff(c) \/ ListUntracked(c) \/ PatchUntracked(c)
             \/ ReadText(c) \/ JudgeDiff(c) \/ CheckCall(c) \/ ModelCall(c) \/ ReturnFindings(c)
  BY <1>1, <1>3, CallToolInv, TakeLockInv, LoadForReviewInv, GitFailsInv, ResolveEndsInv,
     TakeDiffInv, ListUntrackedInv, PatchUntrackedInv, ReadTextInv, JudgeDiffInv, CheckCallInv,
     ModelCallInv, ReturnFindingsInv
<1> QED
  BY <1>2, <1>3 DEF LocalSteps

-------------------------------------------------------------------------------
(* Every entry point, for good *)

LEMMA InvInit ==
  ASSUME EntryInit
  PROVE  IInv
BY SettingsInvInit, BoxInvInit, IdentityInvInit, LocalInvInit DEF IInv

LEMMA NextInv ==
  ASSUME IInv, [EntryNext]_allVars
  PROVE  IInv'
<1>0. /\ SettingsInv /\ BoxInv /\ IdentityInv /\ LocalInv /\ setup \in Setups
      /\ env \in SUBSET Clouds
  BY DEF IInv, SettingsInv, SettingsType
<1>1. CASE CISteps /\ UNCHANGED localVars
  <2>1. /\ BoxInv' /\ IdentityInv' /\ UNCHANGED <<setup, settingsVars>>
        /\ env \subseteq env' /\ env' \in SUBSET Clouds
    BY <1>0, <1>1, CIStepsInv
  <2>2. SettingsInv' /\ LocalInv'
    BY <1>0, <1>1, <2>1, SettingsStand, LocalStands
  <2> QED
    BY <2>1, <2>2 DEF IInv
<1>2. CASE SettingsSteps /\ UNCHANGED <<box, files, identityVars, localVars>>
  <2>1. SettingsInv' /\ UNCHANGED <<setup, env, box, files>>
    BY <1>0, <1>2, SettingsMove
       DEF SettingsSteps, Choose, VerifySetup, LoadForInit, SaveChoice, SetKey, SaveKey
  <2>2. BoxInv' /\ LocalInv'
    BY <1>0, <1>2, <2>1, BoxStands, LocalStands
  <2>3. IdentityInv'
    BY <1>0, <1>2, <2>1, IdentityStands DEF IsRunning
  <2> QED
    BY <2>1, <2>2, <2>3 DEF IInv
<1>3. CASE LocalSteps /\ UNCHANGED <<box, files, identityVars>>
  <2>1. LocalInv' /\ UNCHANGED <<setup, settingsVars, env, box, files>> /\ env \subseteq env'
        /\ env' \in SUBSET Clouds
    BY <1>0, <1>3, LocalStepsInv
  <2>2. SettingsInv' /\ BoxInv'
    BY <1>0, <2>1, SettingsStand, BoxStands
  <2>3. IdentityInv'
    BY <1>0, <1>3, <2>1, IdentityStands DEF IsRunning
  <2> QED
    BY <2>1, <2>2, <2>3 DEF IInv
<1>4. CASE UNCHANGED allVars
  <2>1. /\ UNCHANGED <<setup, settingsVars, env, box, files>> /\ UNCHANGED localVars
        /\ UNCHANGED identityVars /\ env \subseteq env' /\ env' \in SUBSET Clouds
    BY <1>0, <1>4 DEF allVars, ciVars, identityVars
  <2>2. SettingsInv' /\ BoxInv' /\ LocalInv'
    BY <1>0, <2>1, SettingsStand, BoxStands, LocalStands
  <2>3. IdentityInv'
    BY <1>0, <2>1, IdentityStands DEF IsRunning
  <2> QED
    BY <2>2, <2>3 DEF IInv
<1> QED
  BY <1>1, <1>2, <1>3, <1>4 DEF EntryNext, Idling

\* What is known of the settings, the process, the identity and the local review
\* holds of every run of any entry point.
THEOREM Invariance == Spec => []IInv
<1>1. EntryInit => IInv
  BY InvInit
<1>2. IInv /\ [EntryNext]_allVars => IInv'
  BY NextInv
<1> QED
  BY <1>1, <1>2, PTL DEF Spec

\* StartsWhole, for every setup: a review starts only with every cloud its inputs
\* ask for in its environment, under the highest layers' settings, with
\* credentials and with its own forge's token (Startup's process, from
\* BuildContext to the post).
THEOREM StartsAreWhole == Spec => []StartsWhole
<1>1. IInv => StartsWhole
  BY DEF IInv, BoxInv, StartsWhole, Excused
<1> QED
  BY <1>1, Invariance, PTL

\* InitKeepsWhatAnswered, for any answers and any keys set by hand: what
\* `config init` wrote last is what answered, and its credentials are there still.
THEOREM InitIsKept == Spec => []InitKeepsWhatAnswered
<1>1. IInv => InitKeepsWhatAnswered
  BY DEF IInv, SettingsInv, AnswerInv, InitKeepsWhatAnswered
<1> QED
  BY <1>1, Invariance, PTL

\* TokensAreSafe, however often the repository changes and wherever the broker
\* stops: a job is handed only a token that was verified, none is left live and
\* in nobody's hands unless it was lost, and the container posts with a live one.
THEOREM TokensStaySafe == Spec => []TokensAreSafe
<1>1. IInv => TokensAreSafe
  <2>1. ASSUME IInv PROVE HandedOutIsVerified /\ PostsWithALiveToken
    BY <2>1 DEF IInv, IdentityInv, VerifiedInv, ContainerInv
  <2>2. ASSUME IInv PROVE NoTokenLeftBehind
    <3>1. IdentityType /\ CustodyInv
      BY <2>2 DEF IInv, IdentityInv
    <3>2. github.minted <= 1 /\ NoToken \notin github.live
      BY <3>1 DEF IdentityType, NoToken
    <3>3. AllDone => github.live \subseteq lost
      BY <3>1, <3>2 DEF CustodyInv, AllDone
    <3> QED
      BY <3>2, <3>3 DEF NoTokenLeftBehind
  <2> QED
    BY <2>1, <2>2 DEF TokensAreSafe
<1> QED
  BY <1>1, Invariance, PTL

\* LocalReviewIsSound, for any worktree and index, any calls that overlap, any
\* edits, stagings and commits, and wherever git fails: of a file nobody touched
\* the patches lead from one of the mode's ends to the other, unless git failed on
\* the file's own patch, and the text is that of the same end, unless it could not
\* be read; two reviews never run at once, and no more than one model call a worker
\* goes out after the interrupt.
THEOREM LocalReviewsAreSound == Spec => []LocalReviewIsSound
<1>1. ASSUME LocalInv PROVE LocalSeesTheChange
  <2>1. ASSUME NEW c \in Calls, calls[c].pc = "judge", NEW f \in Files \ calls[c].moved
        PROVE  LET mode == calls[c].mode
                   ctx  == calls[c].ctx
                   from == FromOf(mode)[f]
                   to   == ToOf(mode)[f]
                   told == {p \in ctx.patches : p[1] = f}
               IN  /\ LeadsTo(told, f, from, IF f \in ctx.skipped THEN Absent ELSE to)
                   /\ mode = "branch" \/ f \in tree.index =>
                        f \notin ctx.skipped /\ \A p, q \in told : p = q
                   /\ {t \in ctx.texts : t[1] = f} =
                        IF (told = {} /\ f \notin ctx.skipped) \/ to = Absent
                             \/ f \in ctx.unreadable
                        THEN {} ELSE {<<f, to>>}
                   /\ mode = "branch" => ctx.head[f] = to
    <3>1. PICK call \in CallSpace : call = calls[c] /\ ContextSound(call)
      BY <1>1 DEF LocalInv, LocalType, ContextInv
    <3>2. PICK mode \in Modes, ctx \in ContextSpace : mode = call.mode /\ ctx = call.ctx
      BY DEF CallSpace
    <3>3. PICK from \in Nat, to \in Nat : from = FromOf(mode)[f] /\ to = ToOf(mode)[f]
      BY <1>1, DiffFacts DEF LocalInv, Texts
    <3>4. FileSound(call, f) /\ ctx.unread = {} /\ ctx.listed = {}
      BY <2>1, <3>1, <3>2 DEF ContextSound
    <3>5. /\ PatchesOf(ctx, f) = PatchesFor(ctx, mode, f)
          /\ f \in ctx.skipped => NewPart(mode, f) # {}
          /\ TextsOf(ctx, f) = TextsFor(ctx, mode, f)
          /\ mode = "branch" => ctx.head[f] = tree.head[f]
      BY <2>1, <3>1, <3>2, <3>4 DEF FileSound
    <3>6. PICK told : told = DiffPart(mode, f) \union IF f \in ctx.skipped THEN {} ELSE NewPart(mode, f)
      OBVIOUS
    <3>7. PatchesOf(ctx, f) = told
      BY <3>4, <3>5, <3>6 DEF PatchesFor
    <3>8. IsChanged(mode, f) <=> told # {} \/ f \in ctx.skipped
      BY <3>5, <3>6 DEF IsChanged
    <3>9. TextsOf(ctx, f) = IF (told = {} /\ f \notin ctx.skipped) \/ to = Absent
                                 \/ f \in ctx.unreadable
                            THEN {} ELSE {<<f, to>>}
      BY <3>3, <3>4, <3>5, <3>8 DEF TextsFor
    <3>10. CASE mode = "branch" \/ f \in tree.index
      <4>1. NewPart(mode, f) = {} /\ f \notin ctx.skipped
        BY <3>5, <3>10 DEF NewPart
      <4>2. told = IF from = to THEN {} ELSE {<<f, from, to>>}
        BY <3>3, <3>6, <3>10, <4>1 DEF DiffPart, ToldOf
      <4>3. LeadsTo(told, f, from, to) /\ \A p, q \in told : p = q
        BY <4>2 DEF LeadsTo
      <4> QED
        BY <3>1, <3>2, <3>3, <3>5, <3>7, <3>9, <4>1, <4>3 DEF PatchesOf, TextsOf, ToOf
    <3>11. CASE ~(mode = "branch" \/ f \in tree.index)
      <4>1. DiffPart(mode, f) = IF from = Absent THEN {} ELSE {<<f, from, Absent>>}
        BY <3>3, <3>11 DEF DiffPart, ToldOf
      <4>2. NewPart(mode, f) = IF to = Absent THEN {} ELSE {<<f, Absent, to>>}
        BY <3>3, <3>11 DEF NewPart
      <4>3. LeadsTo(told, f, from, IF f \in ctx.skipped THEN Absent ELSE to)
        BY <3>6, <4>1, <4>2 DEF LeadsTo
      <4> QED
        BY <3>1, <3>2, <3>3, <3>7, <3>9, <3>11, <4>3 DEF PatchesOf, TextsOf
    <3> QED
      BY <3>10, <3>11
  <2>2. \A c \in Calls : calls[c].result = "nothing" =>
          calls[c].mode = "uncommitted" \/ setup.hasBase
    BY <1>1 DEF LocalInv, ContextInv, ContextSound
  <2> QED
    BY <2>1, <2>2 DEF LocalSeesTheChange
<1>2. ASSUME LocalInv PROVE NobodyReadsNoCalls
  BY <1>2 DEF LocalInv, ServerInv, NobodyReadsNoCalls, Resting
<1>3. IInv => LocalReviewIsSound
  BY <1>1, <1>2 DEF IInv, LocalReviewIsSound
<1> QED
  BY <1>3, Invariance, PTL

===============================================================================
