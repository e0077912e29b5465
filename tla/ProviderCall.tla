----------------------------- MODULE ProviderCall -----------------------------
(***************************************************************************)
(* The adapter (providers/litellm_provider.py) under a review's fan-out:   *)
(* what complete() does with one call, and what the calls learn about each *)
(* model for the calls beside and after them.                              *)
(*                                                                         *)
(* One adapter serves every thread.  Where each model's structured output  *)
(* stands (_schema_modes) and which request params each model refused      *)
(* (_rejected_params) are plain dictionaries every call reads and writes   *)
(* without a lock, between requests that take minutes; a call's own kwargs *)
(* only ever lose things.  The engine adds to it from above: a reply that  *)
(* does not parse is asked for again without the schema, and when that     *)
(* answers, the model's mode is stepped down (engine/recovery.py).         *)
(***************************************************************************)
EXTENDS Naturals, FiniteSets

CONSTANTS
  Completions,  \* the calls the engine makes, each once
  Params,       \* the request params a model may refuse and do without
  MaxAttempts,  \* _MAX_ATTEMPTS
  Setups        \* the runs considered

Models == {"primary", "fallback"}

\* A lens call owns its truncations; any other (triage, reflection, a repair)
\* does not; an escalation is a lens call sent to the fallback by name.
Kinds == {"lens", "other", "escalation"}

\* What litellm lists for a model's route: nothing it knows of, the schema,
\* tools but not the schema, or neither.
Routes == {"unknown", "schema", "tools", "neither"}

\* width: how many calls the engine makes at once; params: those it sends.
SetupSpace ==
  [width : Nat \ {0}, kind : [Completions -> Kinds], route : [Models -> Routes],
   params : SUBSET Params, hasFallback : BOOLEAN]

ASSUME BoundAssumption ==
  /\ MaxAttempts \in Nat \ {0}
  /\ IsFiniteSet(Params)
  /\ IsFiniteSet(Completions)

ASSUME SetupAssumption ==
  /\ Setups \subseteq SetupSpace
  /\ \A s \in Setups :
       (\E c \in Completions : s.kind[c] = "escalation") => s.hasFallback

\* _SchemaMode, and the mechanism a request carries the schema by.
Modes == {"schema", "expressible", "tool", "none"}
Mechanisms == {"schema", "tool", "bare"}

VARIABLES
  setup,     \* what this run is like
  mode,      \* _schema_modes
  refused,   \* _rejected_params
  pc,        \* where each call is
  rung,      \* the call as first made, or the re-ask without the schema
  model,     \* the model the call is on
  carries,   \* its kwargs: how they carry the schema
  params,    \* its kwargs: the refusable params they still hold
  attempts,  \* attempts made on this model
  requests,  \* requests sent to this model
  resent,    \* the attempt has re-sent an empty reply
  seen,      \* what the call last read of the adapter's knowledge
  lost,      \* what the primary lost before the fallback was asked
  result,    \* what complete() returned: the outcome and schema_dropped
  blamed,    \* the model and mechanism of a reply that did not parse
  evidence,  \* history: the mechanisms each model has failed under
  stripped   \* history: the models a call asked bare though it had a schema

adapterVars == <<setup, mode, refused, pc, rung, model, carries, params, attempts,
          requests, resent, seen, lost, result, blamed, evidence, stripped>>

knowledge == <<mode, refused>>
kwargs == <<carries, params>>
progress == <<model, attempts, lost>>
ends == <<rung, result, blamed>>
history == <<evidence, stripped>>

PCs == {"waiting", "honouring", "marking", "applying", "sending", "returned",
        "unparseable", "demoting", "done"}

NoResult == [outcome |-> "none", dropped |-> FALSE]
Results == [outcome : {"none", "text", "error"}, dropped : BOOLEAN]
Unseen == [mode |-> "schema", refused |-> {}]
NoBlame == [model |-> "primary", by |-> "bare"]

AdapterTypeOK ==
  /\ setup \in Setups
  /\ mode \in [Models -> Modes]
  /\ refused \in [Models -> SUBSET Params]
  /\ pc \in [Completions -> PCs]
  /\ rung \in [Completions -> {"first", "reask"}]
  /\ model \in [Completions -> Models]
  /\ carries \in [Completions -> Mechanisms]
  /\ params \in [Completions -> SUBSET Params]
  /\ attempts \in [Completions -> 0..MaxAttempts]
  /\ requests \in [Completions -> Nat]
  /\ resent \in [Completions -> BOOLEAN]
  /\ seen \in [Completions -> [mode : Modes, refused : SUBSET Params]]
  /\ lost \in [Completions -> BOOLEAN]
  /\ result \in [Completions -> Results]
  /\ blamed \in [Completions -> [model : Models, by : Mechanisms]]
  /\ evidence \in [Models -> SUBSET {"schema", "tool"}]
  /\ stripped \in [Completions -> SUBSET Models]

AdapterInit ==
  /\ setup \in Setups
  /\ mode = [m \in Models |-> "schema"]
  /\ refused = [m \in Models |-> {}]
  /\ pc = [c \in Completions |-> "waiting"]
  /\ rung = [c \in Completions |-> "first"]
  /\ model = [c \in Completions |-> "primary"]
  /\ carries = [c \in Completions |-> "bare"]
  /\ params = [c \in Completions |-> {}]
  /\ attempts = [c \in Completions |-> 0]
  /\ requests = [c \in Completions |-> 0]
  /\ resent = [c \in Completions |-> FALSE]
  /\ seen = [c \in Completions |-> Unseen]
  /\ lost = [c \in Completions |-> FALSE]
  /\ result = [c \in Completions |-> NoResult]
  /\ blamed = [c \in Completions |-> NoBlame]
  /\ evidence = [m \in Models |-> {}]
  /\ stripped = [c \in Completions |-> {}]

-------------------------------------------------------------------------------
(* One model's turn at a call *)

\* Whether the caller asked for a schema: the re-ask does not.
Asked(c) == rung[c] = "first"

Lens(c) == setup.kind[c] = "lens"
Escalation(c) == setup.kind[c] = "escalation"

Fresh(c) == [seen EXCEPT ![c] = [mode |-> mode[model[c]], refused |-> {}]]

\* _complete_with_retry on a model: the kwargs as the caller gave them, and the
\* first attempt.
Turn(c, m, asked) ==
  /\ pc' = [pc EXCEPT ![c] = "honouring"]
  /\ model' = [model EXCEPT ![c] = m]
  /\ carries' = [carries EXCEPT ![c] = IF asked THEN "schema" ELSE "bare"]
  /\ params' = [params EXCEPT ![c] = setup.params]
  /\ attempts' = [attempts EXCEPT ![c] = 1]
  /\ requests' = [requests EXCEPT ![c] = 0]
  /\ resent' = [resent EXCEPT ![c] = FALSE]
  /\ seen' = [seen EXCEPT ![c] = [mode |-> mode[m], refused |-> {}]]

InFlight == {c \in Completions : pc[c] \notin {"waiting", "done"}}

\* complete(): an escalation names its model, any other call is the primary's.
Complete(c) ==
  /\ pc[c] = "waiting"
  /\ Cardinality(InFlight) < setup.width
  /\ Turn(c, IF Escalation(c) THEN "fallback" ELSE "primary", TRUE)
  /\ UNCHANGED <<setup, knowledge, lost, ends, history>>

\* _use_schema_tool: the schema in hand becomes the forced tool call, for this
\* request and for the model's later ones.
UseTool(c) ==
  /\ carries' = [carries EXCEPT ![c] = "tool"]
  /\ mode' = [mode EXCEPT ![model[c]] = "tool"]

\* The schema is given up, for this request and for the model's later ones.
GiveUp(c) ==
  /\ carries' = [carries EXCEPT ![c] = "bare"]
  /\ mode' = [mode EXCEPT ![model[c]] = "none"]

\* The model has failed under these mechanisms.
Fails(m, mechanisms) == evidence' = [evidence EXCEPT ![m] = @ \cup mechanisms]

\* _honour_route_schema_support: the list litellm would strip by is asked first.
Honour(c) ==
  /\ pc[c] = "honouring"
  /\ LET enforced == carries[c] = "schema" /\ seen[c].mode # "none"
         route == IF enforced THEN setup.route[model[c]] ELSE "unknown"
     IN \/ route = "tools" /\ UseTool(c) /\ Fails(model[c], {"schema"})
        \/ route = "neither" /\ GiveUp(c) /\ Fails(model[c], {"schema", "tool"})
        \/ route \in {"unknown", "schema"} /\ UNCHANGED <<mode, carries, evidence>>
  /\ pc' = [pc EXCEPT ![c] = "marking"]
  /\ seen' = [seen EXCEPT ![c] = [mode |-> mode'[model[c]], refused |-> {}]]
  /\ UNCHANGED <<setup, refused, params, progress, requests, resent, ends, stripped>>

\* A model seen in schema mode has a tool rung from now on.  The read and the
\* write are two steps.
Mark(c) ==
  /\ pc[c] = "marking"
  /\ mode' = IF seen[c].mode = "schema" /\ carries[c] = "schema"
             THEN [mode EXCEPT ![model[c]] = "expressible"] ELSE mode
  /\ pc' = [pc EXCEPT ![c] = "applying"]
  /\ seen' = [seen EXCEPT ![c] = [mode |-> mode'[model[c]],
                                  refused |-> refused[model[c]]]]
  /\ UNCHANGED <<setup, refused, kwargs, progress, requests, resent, ends, history>>

\* A request goes out, carrying what the kwargs now hold.
Send(c) ==
  /\ pc' = [pc EXCEPT ![c] = "sending"]
  /\ requests' = [requests EXCEPT ![c] = @ + 1]
  /\ stripped' = IF Asked(c) /\ carries'[c] = "bare"
                 THEN [stripped EXCEPT ![c] = @ \cup {model[c]}] ELSE stripped

\* What is known of the model is applied to the kwargs, and the attempt's first
\* request goes out.
Apply(c) ==
  /\ pc[c] = "applying"
  /\ params' = [params EXCEPT ![c] = @ \ refused[model[c]]]
  /\ LET gone == seen[c].mode = "none"
         tool == seen[c].mode = "tool" /\ carries[c] = "schema"
     IN \/ gone /\ carries' = [carries EXCEPT ![c] = "bare"] /\ UNCHANGED mode
        \/ tool /\ UseTool(c)
        \/ ~gone /\ ~tool /\ UNCHANGED <<carries, mode>>
  /\ Send(c)
  /\ seen' = [seen EXCEPT ![c] = Unseen]
  /\ UNCHANGED <<setup, refused, progress, resent, ends, evidence>>

\* Mutant: what was lost is read off the adapter, not off the call.
DroppedByAny(c) == lost[c] \/ (Asked(c) /\ mode[model[c]] = "none")

\* _degradation, read off the kwargs of the last request.
Dropped(c) == lost[c] \/ (Asked(c) /\ carries[c] = "bare")

\* complete() is over, with its text or its error; only what it returns is left.
FinishTurn(c, outcome) ==
  /\ pc' = [pc EXCEPT ![c] = IF outcome = "text" THEN "returned" ELSE "done"]
  /\ result' = [result EXCEPT ![c] = [outcome |-> outcome, dropped |-> Dropped(c)]]
  /\ params' = [params EXCEPT ![c] = {}]
  /\ attempts' = [attempts EXCEPT ![c] = 0]
  /\ requests' = [requests EXCEPT ![c] = 0]
  /\ resent' = [resent EXCEPT ![c] = FALSE]
  /\ seen' = [seen EXCEPT ![c] = Unseen]
  /\ lost' = [lost EXCEPT ![c] = FALSE]
  /\ UNCHANGED <<model, carries>>

\* The model's turn has failed.  The fallback has a turn of its own, unless this
\* one was it, or the caller owns this failure (defer_truncation).
Raise(c, oversized) ==
  IF /\ setup.hasFallback /\ model[c] = "primary" /\ ~Escalation(c)
     /\ ~(Lens(c) /\ oversized)
  THEN /\ Turn(c, "fallback", Asked(c))
       /\ lost' = [lost EXCEPT ![c] = Dropped(c)]
       /\ UNCHANGED result
  ELSE FinishTurn(c, "error")

-------------------------------------------------------------------------------
(* What comes back *)

\* Mutant: one attempt too many.
RetryOnceMore(c) ==
  /\ attempts[c] <= MaxAttempts
  /\ pc' = [pc EXCEPT ![c] = "honouring"]
  /\ attempts' = [attempts EXCEPT ![c] = @ + 1]
  /\ resent' = [resent EXCEPT ![c] = FALSE]
  /\ seen' = Fresh(c)
  /\ UNCHANGED <<kwargs, model, requests, lost, result>>

\* Mutant: an attempt starts from the kwargs as the caller gave them.
RetryAfresh(c) ==
  /\ attempts[c] < MaxAttempts
  /\ pc' = [pc EXCEPT ![c] = "honouring"]
  /\ attempts' = [attempts EXCEPT ![c] = @ + 1]
  /\ carries' = [carries EXCEPT ![c] = IF Asked(c) THEN "schema" ELSE "bare"]
  /\ resent' = [resent EXCEPT ![c] = FALSE]
  /\ seen' = Fresh(c)
  /\ UNCHANGED <<params, model, requests, lost, result>>

\* The next attempt, over the kwargs as they are now.
Retry(c) ==
  /\ attempts[c] < MaxAttempts
  /\ pc' = [pc EXCEPT ![c] = "honouring"]
  /\ attempts' = [attempts EXCEPT ![c] = @ + 1]
  /\ resent' = [resent EXCEPT ![c] = FALSE]
  /\ seen' = Fresh(c)
  /\ UNCHANGED <<kwargs, model, requests, lost, result>>

\* A failure worth another attempt: made while attempts and time allow.
Transient(c) ==
  /\ pc[c] = "sending"
  /\ Retry(c) \/ Raise(c, FALSE)
  /\ UNCHANGED <<setup, knowledge, rung, blamed, history>>

\* Another call adds to the set of refused params while this one iterates over
\* it: a RuntimeError, which is one more failure worth another attempt.
IterationFails(c) ==
  /\ pc[c] = "applying"
  /\ refused[model[c]] # seen[c].refused
  /\ Retry(c) \/ Raise(c, FALSE)
  /\ UNCHANGED <<setup, knowledge, rung, blamed, history>>

\* A failure asking again cannot help: refused for good, or timed out; or cut
\* off, or too large, which the caller may own.
Permanent(c) ==
  /\ pc[c] = "sending"
  /\ \E oversized \in BOOLEAN : Raise(c, oversized)
  /\ UNCHANGED <<setup, knowledge, rung, blamed, history>>

\* _raw_completion re-sends without what the model refused.
Resend(c) ==
  /\ Send(c)
  /\ UNCHANGED <<setup, progress, seen, ends>>

RejectsParam(c, p) ==
  /\ pc[c] = "sending"
  /\ p \in params[c]
  /\ params' = [params EXCEPT ![c] = @ \ {p}]
  /\ refused' = [refused EXCEPT ![model[c]] = @ \cup {p}]
  /\ UNCHANGED <<mode, carries, resent, evidence>>
  /\ Resend(c)

\* The 400 names response_format.
RejectsSchema(c) ==
  /\ pc[c] = "sending"
  /\ carries[c] = "schema"
  /\ UseTool(c)
  /\ Fails(model[c], {"schema"})
  /\ UNCHANGED <<refused, params, resent>>
  /\ Resend(c)

\* The 400 names a tool field: litellm had made the schema a tool of its own.
RejectsInternalTool(c) ==
  /\ pc[c] = "sending"
  /\ carries[c] = "schema"
  /\ GiveUp(c)
  /\ Fails(model[c], {"schema", "tool"})
  /\ UNCHANGED <<refused, params, resent>>
  /\ Resend(c)

\* The 400 names a tool field, and the tool is ours.
RejectsTool(c) ==
  /\ pc[c] = "sending"
  /\ carries[c] = "tool"
  /\ GiveUp(c)
  /\ Fails(model[c], {"tool"})
  /\ UNCHANGED <<refused, params, resent>>
  /\ Resend(c)

\* Mutant: the empty reply is sent again over the same mechanism.
StepDownAfterEmptyUnchanged(c) == UNCHANGED <<mode, carries>>

\* An empty reply is held against the mechanism it came under.
StepDownAfterEmpty(c) ==
  \/ carries[c] = "schema" /\ UseTool(c)
  \/ carries[c] = "tool" /\ GiveUp(c)
  \/ carries[c] = "bare" /\ UNCHANGED <<mode, carries>>

\* An empty reply is asked for again, once an attempt, one rung down.
Empty(c) ==
  /\ pc[c] = "sending"
  /\ ~resent[c]
  /\ resent' = [resent EXCEPT ![c] = TRUE]
  /\ StepDownAfterEmpty(c)
  /\ Fails(model[c], {carries[c]} \cap {"schema", "tool"})
  /\ UNCHANGED <<refused, params>>
  /\ Resend(c)

\* Any text is what complete() returns, the second empty one included.
Text(c) ==
  /\ pc[c] = "sending"
  /\ FinishTurn(c, "text")
  /\ UNCHANGED <<setup, knowledge, rung, blamed, history>>

-------------------------------------------------------------------------------
(* The engine, which alone can parse *)

\* The text parses: nothing more is asked for it.  The answer to a re-ask
\* convicts the schema.
Parses(c) ==
  /\ pc[c] = "returned"
  /\ pc' = [pc EXCEPT ![c] = IF rung[c] = "reask" THEN "demoting" ELSE "done"]
  /\ UNCHANGED <<setup, knowledge, kwargs, progress, requests, resent, seen, ends,
                 history>>

\* Mutant: the re-ask is re-asked.
DoesNotParseEver(c) ==
  /\ pc[c] = "returned"
  /\ pc' = [pc EXCEPT ![c] = IF Lens(c) THEN "unparseable" ELSE "done"]
  /\ UNCHANGED <<setup, knowledge, kwargs, progress, requests, resent, seen, ends,
                 history>>

\* The text does not parse, and is reformatted in vain where it can be.
DoesNotParse(c) ==
  /\ pc[c] = "returned"
  /\ pc' = [pc EXCEPT ![c] = IF Lens(c) /\ rung[c] = "first" THEN "unparseable"
                             ELSE "done"]
  /\ UNCHANGED <<setup, knowledge, kwargs, progress, requests, resent, seen, ends,
                 history>>

\* sends_response_format: of the primary, and as the adapter knows it now.
SendsResponseFormat == mode["primary"] # "none"

\* _retry_without_schema, when a schema may have been to blame.
Reask(c) ==
  /\ pc[c] = "unparseable"
  /\ SendsResponseFormat
  /\ rung' = [rung EXCEPT ![c] = "reask"]
  /\ blamed' = [blamed EXCEPT ![c] = [model |-> model[c], by |-> carries[c]]]
  /\ lost' = [lost EXCEPT ![c] = FALSE]
  /\ Turn(c, "primary", FALSE)
  /\ UNCHANGED <<setup, knowledge, result, history>>

ReportsUnparseable(c) ==
  /\ pc[c] = "unparseable"
  /\ ~SendsResponseFormat
  /\ pc' = [pc EXCEPT ![c] = "done"]
  /\ UNCHANGED <<setup, knowledge, kwargs, progress, requests, resent, seen, ends,
                 history>>

\* _SCHEMA_STEP_DOWN
StepDown(m) ==
  IF m = "expressible" THEN "tool" ELSE "none"

\* drop_response_format: the primary steps down one rung from where it stands.
Demote(c) ==
  /\ pc[c] = "demoting"
  /\ mode' = [mode EXCEPT !["primary"] = StepDown(@)]
  /\ Fails(blamed[c].model, {blamed[c].by} \cap {"schema", "tool"})
  /\ pc' = [pc EXCEPT ![c] = "done"]
  /\ UNCHANGED <<setup, refused, kwargs, progress, requests, resent, seen, ends,
                 stripped>>

-------------------------------------------------------------------------------

Call(c) ==
  \/ Complete(c) \/ Honour(c) \/ Mark(c) \/ Apply(c) \/ IterationFails(c)
  \/ Transient(c) \/ Permanent(c)
  \/ \E p \in Params : RejectsParam(c, p)
  \/ RejectsSchema(c) \/ RejectsInternalTool(c) \/ RejectsTool(c)
  \/ Empty(c) \/ Text(c)
  \/ Parses(c) \/ DoesNotParse(c) \/ Reask(c) \/ ReportsUnparseable(c) \/ Demote(c)

AllDone == (\A c \in Completions : pc[c] = "done") /\ UNCHANGED adapterVars

AdapterNext == (\E c \in Completions : Call(c)) \/ AllDone

AdapterSpec == AdapterInit /\ [][AdapterNext]_adapterVars

\* The threads run, and a request comes back within its wall timeout.
AdapterFairSpec == AdapterSpec /\ \A c \in Completions : WF_adapterVars(Call(c))

-------------------------------------------------------------------------------
(* Properties *)

\* However the model answers and whatever the other calls learn meanwhile, one
\* model's turn costs at most two requests an attempt (the second for an empty
\* reply), and one for each thing the request can lose: the recoveries nest, but
\* what a request has lost never comes back to be lost again
\* (_complete_with_retry, _raw_completion, _retry_after_empty_reply).
RequestsBounded ==
  \A c \in Completions : requests[c] <= 2 * MaxAttempts + Cardinality(Params) + 2

\* What a review is told it lost is what its own calls lost: a call one of whose
\* models was asked without the schema says so, also when the fallback then
\* answered in full, and a call that no fallback answered says so only then,
\* whatever the other calls have since taught the adapter (_degradation, "per
\* call, never per instance"; complete, primary_schema).
LossDisclosed ==
  \A c \in Completions :
    result[c] # NoResult /\ rung[c] = "first" =>
      /\ stripped[c] # {} => result[c].dropped
      /\ result[c].dropped /\ result[c].outcome = "text" =>
           stripped[c] # {} \/ (model[c] = "fallback" /\ ~Escalation(c))

Weaker(a, b) == a = b \/ a = "bare" \/ (a = "tool" /\ b = "schema")

\* Within one model's turn a request never regains the mechanism it lost, though
\* the model's mode is moved under it in either direction (_call, over one dict
\* of kwargs).
NeverReEnforced ==
  [][\A c \in Completions :
       requests[c] > 0 /\ requests'[c] >= requests[c] => Weaker(carries'[c], carries[c])]_adapterVars

\* Calls made one at a time pay for a refusal once: no request carries a
\* mechanism the model has already failed under (_drop_rejected_param, "without
\* that every one of them pays its own rejected round-trip first").
Serial == setup.width = 1 /\ ~setup.hasFallback

SettledUpFront ==
  [][\A c \in Completions :
       Serial /\ pc[c] = "applying" /\ pc'[c] = "sending" =>
         carries'[c] \notin evidence[model[c]]]_adapterVars

\* Made one at a time, a reply that came without the schema is not asked for
\* again without it: that would be the same request, byte for byte
\* (sends_response_format).
ReaskIsAnother ==
  [][\A c \in Completions : Serial /\ pc[c] = "unparseable" /\ rung'[c] = "reask" =>
       carries[c] # "bare"]_adapterVars

\* The engine's evidence is held against the mechanism that produced the reply,
\* not against enforcement itself: the floor is reached by a model that failed
\* under the tool call (drop_response_format, _demote_schema).
FloorHasEvidence ==
  \A m \in Models : mode[m] = "none" => "tool" \in evidence[m]

\* That holds of calls made one at a time.
SerialFloorHasEvidence == Serial => FloorHasEvidence

\* What a call loses is said, and is lost to a failure of its own mechanism.
LossIsJust == LossDisclosed /\ SerialFloorHasEvidence

\* Calls made one at a time never pay twice for what the first one learnt.
TurnsLearn == SettledUpFront /\ ReaskIsAnother

\* Whatever the models answer, every call comes to an end.
CallsEnd == <>(\A c \in Completions : pc[c] = "done")

===============================================================================
