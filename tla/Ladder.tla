-------------------------------- MODULE Ladder --------------------------------
(***************************************************************************)
(* What one lens call does from its first provider call to its outcome     *)
(* (engine/engine.py: _review_lens, _review_with_context, _complete_lens;  *)
(* engine/recovery.py: _Ladder, and _rescue for this one call).            *)
(*                                                                         *)
(* The whole batch is unit 0.  A reply cut off or too big is worked down   *)
(* the truncation ladder: the batch is split into pieces, reviewed         *)
(* concurrently in a pool of their own, or the thinking is stepped down,   *)
(* and only then is the fallback model asked.  A reply that cannot be      *)
(* parsed is reformatted, then asked again without the schema.  Every rung *)
(* is a function that reissues the call and acts on what comes back, so a  *)
(* unit keeps the stack of rungs it is inside of; the innermost one says   *)
(* which call is in flight.                                                *)
(***************************************************************************)
EXTENDS Effort, Sequences, FiniteSets

CONSTANTS
  NumPieces,      \* into how many pieces _split_batch cuts the batch
  Width,          \* run.concurrency
  Configurations  \* the levers a run may have, and its adapter

\* What the run can do about a failure, besides thinking less, which its adapter
\* decides: a fallback model, the settings (repair_unparseable;
\* structured_output with retry_without_schema; retrieval), and what the batch
\* allows (more than one file or hunk; a lone hunk that can be sliced).
Levers == {"fallback", "repair", "schema", "retrieval", "split", "slice"}

ASSUME SplitAssumption ==
  /\ NumPieces \in Nat \ {0, 1}
  /\ Width \in Nat \ {0}

ASSUME LeverAssumption ==
  Configurations \subseteq [levers : SUBSET Levers, adapter : Adapters]

Pieces == 1..NumPieces
Whole == 0
Units == {Whole} \cup Pieces

\* The rungs a reissued call may be on; "remedy" is the ladder itself, which
\* waits for a rung and issues nothing.
Rungs == {"context", "stepDown", "off", "schema", "escalated"}
Frames == Rungs \cup {"remedy"}

\* The error a call reports: nothing; a _RetryableReason; a _PayloadReason; a
\* _PiecesReason; a _ReasoningBoundReason; a skip; any other reason.
Errors == {"none", "retryable", "payload", "pieces", "thinking", "skipped",
           "plain"}

VARIABLES
  stage,     \* waiting, running, returned, rerunning or settled
  error,     \* the error of the call's last outcome
  pc,        \* what each unit is doing
  stack,     \* the rungs each unit is inside of
  err,       \* the error each unit is handing back
  adapter,   \* what the primary's adapter knows of its reasoning effort
  levers,    \* what the run can still do about a failure
  stop,      \* some ceiling has been reached
  notices,   \* stepped_down, reasoning_off, split_batches of _RunState
  remedies,  \* history: what the task has done about the whole batch
  covered,   \* history: the parts of the batch a model has answered for
  lowered    \* history: a call with its effort stepped down was answered

vars == <<stage, error, pc, stack, err, adapter, levers, stop, notices,
          remedies, covered, lowered>>

call == <<stage, error>>
means == <<adapter, levers>>
answers == <<covered, lowered>>
history == <<remedies, covered, lowered>>

-------------------------------------------------------------------------------
(* Types *)

PCs == {"idle", "queued", "calling", "fetching", "repairing", "returning",
        "splitting", "retrying", "done"}

TypeOK ==
  /\ stage \in {"waiting", "running", "returned", "rerunning", "settled"}
  /\ error \in Errors
  /\ pc \in [Units -> PCs]
  /\ stack \in [Units -> Seq(Frames)]
  /\ err \in [Units -> Errors]
  /\ adapter \in Adapters
  /\ levers \subseteq Levers
  /\ stop \in BOOLEAN
  /\ notices \subseteq {"steppedDown", "reasoningOff", "split"}
  /\ remedies \subseteq {"split", "stepDown", "escalated"}
  /\ covered \subseteq Pieces
  /\ lowered \in BOOLEAN

-------------------------------------------------------------------------------
(* The task, as the pool sees it *)

Init ==
  /\ stage = "waiting"
  /\ error = "plain"
  /\ pc = [u \in Units |-> "idle"]
  /\ stack = [u \in Units |-> <<>>]
  /\ err = [u \in Units |-> "none"]
  /\ \E c \in Configurations : levers = c.levers /\ adapter = c.adapter
  /\ stop = FALSE
  /\ notices = {}
  /\ remedies = {}
  /\ covered = {}
  /\ lowered = FALSE

\* _rescuable: an instance of _RetryableReason.
Rescuable(e) == e \in {"retryable", "payload", "pieces"}

\* _provider_side: the provider faltered, and not over the payload's size.
ProviderSide(e) == Rescuable(e) /\ e # "payload"

\* What a finished split came to.
Failed == {p \in Pieces : err[p] # "none"}

\* The pieces the rescue wave may have.
FlakyPieces == {p \in Pieces : ProviderSide(err[p])}

\* _review_lens asks for the whole batch, unless a ceiling has been reached.
Ask ==
  /\ ~stop
  /\ pc' = [u \in Units |-> IF u = Whole THEN "calling" ELSE "idle"]
  /\ stack' = [u \in Units |-> <<>>]
  /\ err' = [u \in Units |-> "none"]
  /\ remedies' = {}
  /\ UNCHANGED <<means, stop, notices, answers>>

Begin == stage = "waiting" /\ Ask /\ stage' = "running" /\ UNCHANGED error

Skip ==
  /\ stage = "waiting"
  /\ stop
  /\ stage' = "returned"
  /\ error' = "skipped"
  /\ UNCHANGED <<pc, stack, err, means, stop, notices, history>>

\* Mutant: the rescue's own outcome is offered to another wave.
ReturnAnyTimes ==
  /\ stage \in {"running", "rerunning"}
  /\ pc[Whole] = "returning"
  /\ stack[Whole] = <<>>
  /\ stage' = "returned"
  /\ error' = err[Whole]
  /\ pc' = [pc EXCEPT ![Whole] = "done"]
  /\ UNCHANGED <<stack, err, means, stop, notices, history>>

\* The task has its outcome.
Return ==
  /\ stage \in {"running", "rerunning"}
  /\ pc[Whole] = "returning"
  /\ stack[Whole] = <<>>
  /\ stage' = IF stage = "running" THEN "returned" ELSE "settled"
  /\ error' = err[Whole]
  /\ pc' = [pc EXCEPT ![Whole] = "done"]
  /\ UNCHANGED <<stack, err, means, stop, notices, history>>

\* _rescue re-runs a call that failed on the provider: the task, or only the
\* pieces that failed on the provider when the call was split.
RescueTask ==
  /\ stage = "returned"
  /\ Rescuable(error)
  /\ error # "pieces"
  /\ Ask
  /\ stage' = "rerunning"
  /\ UNCHANGED error

RescuePieces ==
  /\ stage = "returned"
  /\ error = "pieces"
  /\ stage' = "rerunning"
  /\ pc' = [u \in Units |-> IF u = Whole THEN "retrying"
                            ELSE IF u \in FlakyPieces THEN "queued" ELSE pc[u]]
  /\ remedies' = {}
  /\ UNCHANGED <<error, stack, err, means, stop, notices, answers>>

\* The re-run task finds a ceiling reached.
SkipRescue ==
  /\ stage = "returned"
  /\ Rescuable(error)
  /\ error # "pieces"
  /\ stop
  /\ stage' = "settled"
  /\ error' = "skipped"
  /\ UNCHANGED <<pc, stack, err, means, stop, notices, history>>

\* Anything else is what the call comes to.
Settle ==
  /\ stage = "returned"
  /\ ~Rescuable(error)
  /\ stage' = "settled"
  /\ UNCHANGED <<error, pc, stack, err, means, stop, notices, history>>

-------------------------------------------------------------------------------
(* The environment *)

\* A signal, the deadline, or the token budget spent by any call of the run.
CeilingReached ==
  /\ ~stop
  /\ stop' = TRUE
  /\ UNCHANGED <<call, pc, stack, err, means, notices, history>>

\* Another lens finds that the model's schema mode does not work: the adapter
\* stops sending it, and sends_response_format answers no from then on.
SchemaDropped ==
  /\ "schema" \in levers
  /\ levers' = levers \ {"schema"}
  /\ UNCHANGED <<call, pc, stack, err, adapter, stop, notices, history>>

-------------------------------------------------------------------------------
(* One unit's calls *)

\* The rung the unit's call is on.
Rung(u) == IF stack[u] = <<>> THEN "first" ELSE stack[u][Len(stack[u])]

Outer(u) == SubSeq(stack[u], 1, Len(stack[u]) - 1)

\* on_oversized and on_needs are only given to the whole batch's first call.
HoldsCallbacks(u) == u = Whole /\ stack[u] = <<>>

\* The ladder a cut-off call enters, for the unit that may climb past it.
Remedy(u) == IF HoldsCallbacks(u) THEN <<"remedy">> ELSE stack[u]

\* _retry_without_schema passes no response_format, and neither do the rungs
\* inside it.
SendsSchema(u) ==
  "schema" \in levers /\ \A i \in DOMAIN stack[u] : stack[u][i] # "schema"

\* The unit reissues its call on a rung, the frames around it being outer.
Reissue(u, outer, rung) ==
  /\ pc' = [pc EXCEPT ![u] = "calling"]
  /\ stack' = [stack EXCEPT ![u] = Append(outer, rung)]
  /\ err' = [err EXCEPT ![u] = "none"]
  /\ remedies' = IF u = Whole /\ rung \in {"stepDown", "escalated"}
                 THEN remedies \cup {rung} ELSE remedies

\* The unit's call hands its error to the frame around it.
HandBack(u, e) ==
  /\ pc' = [pc EXCEPT ![u] = "returning"]
  /\ err' = [err EXCEPT ![u] = e]

\* The unit's reply is used.
Use(u) ==
  /\ covered' = covered \cup (IF u = Whole THEN Pieces ELSE {u})
  /\ lowered' = (lowered \/ Rung(u) = "stepDown")

\* The reply parsed, and the lens asked for nothing more or may not ask.
Answered(u) ==
  /\ pc[u] = "calling"
  /\ HandBack(u, "none")
  /\ Use(u)
  /\ UNCHANGED <<call, stack, means, stop, notices, remedies>>

\* The reply parsed, and the lens asked to read code outside the diff.
Defers(u) ==
  /\ pc[u] = "calling"
  /\ HoldsCallbacks(u)
  /\ "retrieval" \in levers
  /\ IF stop
     THEN HandBack(u, "skipped") /\ UNCHANGED answers
     ELSE /\ pc' = [pc EXCEPT ![u] = "fetching"]
          /\ Use(u)
          /\ UNCHANGED err
  /\ UNCHANGED <<call, stack, means, stop, notices, remedies>>

\* Nothing it asked for could be read: the first answer stands.
FetchesNothing(u) ==
  /\ pc[u] = "fetching"
  /\ HandBack(u, "none")
  /\ UNCHANGED <<call, stack, means, stop, notices, history>>

FetchesContext(u) ==
  /\ pc[u] = "fetching"
  /\ Reissue(u, stack[u], "context")
  /\ UNCHANGED <<call, means, stop, notices, answers>>

\* The provider faltered, or refused in a way that is final.
CallFails(u) ==
  /\ pc[u] = "calling"
  /\ \E e \in {"retryable", "plain"} : HandBack(u, e)
  /\ UNCHANGED <<call, stack, means, stop, notices, history>>

-------------------------------------------------------------------------------
(* The truncation ladder *)

\* A wall timeout, an answer cut at its ceiling or mid-body, or a prompt the
\* context window refused.  Only the last may be cut inside a lone hunk.
Oversized == {"wall", "cut", "refused"}

\* Mutant: the failure goes up unmarked.
OversizedErrorUnmarked(reply) == reply

OversizedError(reply) == IF reply = "wall" THEN "payload" ELSE "plain"

Splittable(reply) ==
  "split" \in levers \/ (reply = "refused" /\ "slice" \in levers)

\* Already a piece, or on a rung: nothing smaller to try.
TooBigAgain(u, reply) ==
  /\ pc[u] = "calling"
  /\ ~HoldsCallbacks(u)
  /\ HandBack(u, OversizedError(reply))
  /\ UNCHANGED <<call, stack, means, stop, notices, history>>

\* The batch cannot be cut: the error goes on to the next rung unchanged.
CannotSplit(reply) ==
  /\ pc[Whole] = "calling"
  /\ HoldsCallbacks(Whole)
  /\ ~Splittable(reply)
  /\ HandBack(Whole, OversizedError(reply))
  /\ stack' = [stack EXCEPT ![Whole] = <<"remedy">>]
  /\ UNCHANGED <<call, means, stop, notices, history>>

\* _review_split submits every piece to a pool of the split's own.
Split(reply) ==
  /\ pc[Whole] = "calling"
  /\ HoldsCallbacks(Whole)
  /\ Splittable(reply)
  /\ pc' = [u \in Units |-> IF u = Whole THEN "splitting" ELSE "queued"]
  /\ stack' = [stack EXCEPT ![Whole] = <<"remedy">>]
  /\ remedies' = remedies \cup {"split"}
  /\ UNCHANGED <<call, err, means, stop, notices, answers>>

\* The split's pool is as wide as the run allows; a rescue's retry is serial.
PoolWidth == IF pc[Whole] = "retrying" THEN 1 ELSE Width

Busy == {p \in Pieces : pc[p] \notin {"idle", "queued", "done"}}

\* A piece is picked up in submission order, and asks the ceilings first.
PickUp(p) ==
  /\ pc[p] = "queued"
  /\ \A q \in Pieces : q < p => pc[q] # "queued"
  /\ Cardinality(Busy) < PoolWidth

StartPiece(p) ==
  /\ PickUp(p)
  /\ ~stop
  /\ pc' = [pc EXCEPT ![p] = "calling"]
  /\ UNCHANGED <<call, stack, err, means, stop, notices, history>>

SkipPiece(p) ==
  /\ PickUp(p)
  /\ stop
  /\ pc' = [pc EXCEPT ![p] = "done"]
  /\ err' = [err EXCEPT ![p] = "skipped"]
  /\ UNCHANGED <<call, stack, means, stop, notices, history>>

FinishPiece(p) ==
  /\ pc[p] = "returning"
  /\ stack[p] = <<>>
  /\ pc' = [pc EXCEPT ![p] = "done"]
  /\ UNCHANGED <<call, stack, err, means, stop, notices, history>>

\* Mutant: one piece that answered makes an answered call.
SplitErrorOfSiblings ==
  IF Failed # Pieces THEN "none" ELSE IF FlakyPieces # {} THEN "pieces" ELSE "plain"

\* Any failed piece is a failed call; the rescue may have the pieces that
\* failed on the provider.
SplitError ==
  IF Failed = {} THEN "none" ELSE IF FlakyPieces # {} THEN "pieces" ELSE "plain"

JoinSplit ==
  /\ pc[Whole] = "splitting"
  /\ \A p \in Pieces : pc[p] = "done"
  /\ HandBack(Whole, SplitError)
  /\ notices' = IF Failed # Pieces THEN notices \cup {"split"} ELSE notices
  /\ UNCHANGED <<call, stack, means, stop, history>>

\* What a rescued split still fails at: a piece that was settled in the first
\* attempt, or one that failed again.
RetryError == IF Failed = {} THEN "none" ELSE "plain"

JoinRetry ==
  /\ pc[Whole] = "retrying"
  /\ \A p \in Pieces : pc[p] = "done"
  /\ HandBack(Whole, RetryError)
  /\ stack' = [stack EXCEPT ![Whole] = <<>>]
  /\ notices' = IF Failed # Pieces THEN notices \cup {"split"} ELSE notices
  /\ UNCHANGED <<call, means, stop, history>>

\* The ceiling went on thinking.  A call that already thinks less, or that is
\* the fallback's, takes no remedy of its own.
StepsDown(u) ==
  /\ Rung(u) \notin {"stepDown", "off", "escalated"}
  /\ ~stop
  /\ LowerEffort(adapter) # Nothing

StepDown(u) ==
  /\ pc[u] = "calling"
  /\ StepsDown(u)
  /\ Reissue(u, Remedy(u), "stepDown")
  /\ UNCHANGED <<call, means, stop, notices, answers>>

ThoughtTooLong(u) ==
  /\ pc[u] = "calling"
  /\ ~StepsDown(u)
  /\ HandBack(u, "thinking")
  /\ stack' = [stack EXCEPT ![u] = Remedy(u)]
  /\ UNCHANGED <<call, means, stop, notices, history>>

\* The stepped-down call has returned.
TurnsOff(u) ==
  /\ err[u] = "thinking"
  /\ DisableReasoning(adapter) \notin {Nothing, LowerEffort(adapter)}
  /\ ~stop

StepDownReturns(u) ==
  /\ pc[u] = "returning"
  /\ Rung(u) = "stepDown"
  /\ IF TurnsOff(u)
     THEN Reissue(u, Outer(u), "off") /\ UNCHANGED notices
     ELSE /\ stack' = [stack EXCEPT ![u] = Outer(u)]
          /\ notices' = IF err[u] = "none" THEN notices \cup {"steppedDown"}
                        ELSE notices
          /\ UNCHANGED <<pc, err, remedies>>
  /\ UNCHANGED <<call, means, stop, answers>>

\* Mutant: a call with reasoning off that cut the same way is tried again.
OffReturnsAgain(u) ==
  /\ pc[u] = "returning"
  /\ Rung(u) = "off"
  /\ IF err[u] = "thinking"
     THEN Reissue(u, Outer(u), "off")
     ELSE stack' = [stack EXCEPT ![u] = Outer(u)] /\ UNCHANGED <<pc, err, remedies>>
  /\ UNCHANGED <<call, means, stop, notices, answers>>

OffReturns(u) ==
  /\ pc[u] = "returning"
  /\ Rung(u) = "off"
  /\ stack' = [stack EXCEPT ![u] = Outer(u)]
  /\ notices' = IF err[u] = "none" THEN notices \cup {"reasoningOff"} ELSE notices
  /\ UNCHANGED <<call, pc, err, means, stop, history>>

\* Mutant: a split that left pieces to the rescue wave is escalated too.
EscalatesPastPieces ==
  err[Whole] # "none" /\ ~stop /\ "fallback" \in levers

\* The batch's own remedies are spent: the fallback model is asked last, unless
\* they answered or left pieces for the rescue wave.
Escalates ==
  /\ err[Whole] \notin {"none", "pieces"}
  /\ ~stop
  /\ "fallback" \in levers

RemedyReturns ==
  /\ pc[Whole] = "returning"
  /\ Rung(Whole) = "remedy"
  /\ IF Escalates
     THEN Reissue(Whole, <<>>, "escalated")
     ELSE stack' = [stack EXCEPT ![Whole] = <<>>] /\ UNCHANGED <<pc, err, remedies>>
  /\ UNCHANGED <<call, means, stop, notices, answers>>

\* The deferral's re-run and the fallback's call are returned as they are.
RerunReturns(u) ==
  /\ pc[u] = "returning"
  /\ Rung(u) \in {"context", "escalated"}
  /\ stack' = [stack EXCEPT ![u] = Outer(u)]
  /\ UNCHANGED <<call, pc, err, means, stop, notices, history>>

-------------------------------------------------------------------------------
(* The unparseable reply *)

\* recover: neither the schema-less re-run nor the fallback's call may start a
\* recovery.
MayRecover(u) == Rung(u) \notin {"schema", "escalated"} /\ ~stop

\* The reply is reformatted, when it has a shape that can be.
Repair(u) ==
  /\ pc[u] = "calling"
  /\ MayRecover(u)
  /\ "repair" \in levers
  /\ pc' = [pc EXCEPT ![u] = "repairing"]
  /\ UNCHANGED <<call, stack, err, means, stop, notices, history>>

Repaired(u) ==
  /\ pc[u] = "repairing"
  /\ HandBack(u, "none")
  /\ Use(u)
  /\ UNCHANGED <<call, stack, means, stop, notices, remedies>>

\* What is left for a reply that could not be reformatted: the call once more
\* without the schema, or its error.
CannotParse(u) ==
  \/ pc[u] = "repairing"
  \/ pc[u] = "calling"

ReasksWithoutSchema(u) ==
  Rung(u) \notin {"schema", "escalated"} /\ ~stop /\ SendsSchema(u)

RetryWithoutSchema(u) ==
  /\ CannotParse(u)
  /\ ReasksWithoutSchema(u)
  /\ Reissue(u, stack[u], "schema")
  /\ UNCHANGED <<call, means, stop, notices, answers>>

Unparseable(u) ==
  /\ CannotParse(u)
  /\ ~ReasksWithoutSchema(u)
  /\ HandBack(u, "plain")
  /\ UNCHANGED <<call, stack, means, stop, notices, history>>

\* The re-run without the schema: an answer convicts the mechanism the schema
\* was sent by, and the adapter steps one rung down, which is the floor or a
\* mechanism that still carries a schema; anything else reports the reply that
\* could not be parsed.
SchemaReturns(u) ==
  /\ pc[u] = "returning"
  /\ Rung(u) = "schema"
  /\ stack' = [stack EXCEPT ![u] = Outer(u)]
  /\ IF err[u] = "none"
     THEN levers' \in {levers, levers \ {"schema"}} /\ UNCHANGED err
     ELSE err' = [err EXCEPT ![u] = "plain"] /\ UNCHANGED levers
  /\ UNCHANGED <<call, pc, adapter, stop, notices, history>>

-------------------------------------------------------------------------------

Reply(u) ==
  \/ Answered(u) \/ Defers(u) \/ CallFails(u)
  \/ \E reply \in Oversized : TooBigAgain(u, reply)
  \/ StepDown(u) \/ ThoughtTooLong(u)
  \/ Repair(u) \/ Repaired(u) \/ RetryWithoutSchema(u) \/ Unparseable(u)

Returning(u) ==
  \/ StepDownReturns(u) \/ OffReturns(u) \/ SchemaReturns(u) \/ RerunReturns(u)

Piece(p) ==
  StartPiece(p) \/ SkipPiece(p) \/ FinishPiece(p) \/ Reply(p) \/ Returning(p)

Batch ==
  \/ Begin \/ Skip \/ Return
  \/ RescueTask \/ RescuePieces \/ SkipRescue \/ Settle
  \/ FetchesNothing(Whole) \/ FetchesContext(Whole)
  \/ \E reply \in Oversized : CannotSplit(reply) \/ Split(reply)
  \/ JoinSplit \/ JoinRetry \/ RemedyReturns
  \/ Reply(Whole) \/ Returning(Whole)

Over == stage = "settled" /\ UNCHANGED vars

Next ==
  \/ CeilingReached
  \/ SchemaDropped
  \/ Batch
  \/ \E p \in Pieces : Piece(p)
  \/ Over

Spec == Init /\ [][Next]_vars

\* The worker and the pieces' threads run whenever they can, and a provider
\* call returns within its wall timeout.
FairSpec ==
  /\ Spec
  /\ WF_vars(Batch)
  /\ \A p \in Pieces : WF_vars(Piece(p))

-------------------------------------------------------------------------------
(* Properties *)

\* A call reports no error only if a model read every part of the batch and
\* answered: a piece that failed, in a split or in the retry of one, is never
\* hidden behind its siblings, nor by the salvage of a reply that was cut
\* (_review_split, "ANY failed piece is still a failed call"; retry).
NoHiddenGap ==
  stage \in {"returned", "settled"} /\ error = "none" => covered = Pieces

\* A unit goes to a provider: for a call of its own, or to have a reply
\* reformatted.
Asks(u) ==
  /\ pc'[u] \in {"calling", "repairing"}
  /\ <<pc[u], stack[u]>> # <<pc'[u], stack'[u]>>

\* Nothing new is asked once a ceiling is reached, on any rung of any unit,
\* except the one re-run whose files were being fetched when it was
\* (_skip_reason, re-checked by every rung).
StopRespected == [][\A u \in Units : stop /\ Asks(u) => pc[u] = "fetching"]_vars

\* The fallback model goes last and is asked once a task, however many pieces
\* failed: nothing of the lens is asked after it, and no piece asks it
\* (_escalate_model, "the batch's to spend, not a piece's").
FallbackGoesLast ==
  [][\A u \in Units :
       Asks(u) /\ stage = stage' =>
         /\ "escalated" \notin remedies
         /\ u # Whole => Rung(u)' # "escalated"]_vars

\* "Never more than one of the first two": a batch is either cut smaller or
\* thought about less, never both in one task (_remedy_oversized).
OneRemedy ==
  ~({"split", "stepDown"} \subseteq remedies)

\* The rescue of a split pays for the pieces that failed on the provider and for
\* no other: one that answered, or was refused for its size, is not asked again
\* (_PiecesReason).
RetriesOnlyTheFlaky ==
  [][\A p \in Pieces :
       pc[Whole] = "retrying" /\ pc[p] = "queued" /\ pc'[p] = "calling" =>
         p \notin covered /\ ProviderSide(err[p])]_vars

\* A call asked again because its thinking filled the ceiling asks for less, at a
\* level the model takes, and the second time for less than the first: never for
\* more, nor with a parameter the route would strip and make it the request that
\* failed (lower_reasoning_effort, disable_reasoning).
EffortGoesDown ==
  \A u \in Units : Rung(u) \in {"stepDown", "off"} =>
    /\ GoesDown(adapter)
    /\ LowerEffort(adapter) # Nothing
    /\ Rung(u) = "off" => DisableReasoning(adapter) \in Efforts

\* "Reviewed in smaller pieces" is only said of a batch a piece of which was
\* answered (_review_split, split_batches).
SplitNoticeTrue == "split" \in notices => covered # {}

\* A split whose pieces faltered keeps its pieces for the rescue wave: the
\* fallback is not asked for a batch the split had recovered
\* (_remedy_oversized, the _PiecesReason branch).
PiecesKeepTheirRetry ==
  [][(\E p \in Pieces : ProviderSide(err[p])) /\ Asks(Whole) =>
       stage # stage']_vars

\* What the rungs may never do, whichever unit is on them and whatever comes back.
RungDiscipline ==
  StopRespected /\ FallbackGoesLast /\ RetriesOnlyTheFlaky /\ PiecesKeepTheirRetry

\* What the recovery of a batch says it did, it did.
AnswersAreWhole == NoHiddenGap /\ OneRemedy /\ SplitNoticeTrue

\* Seen from the fan-out the ladder keeps the contract of LensCall.
Class(e) ==
  IF e = "none" THEN "answered" ELSE IF Rescuable(e) THEN "retryable" ELSE "plain"

Contract == INSTANCE LensCall WITH error <- Class(error)
CallContract == Contract!Spec

\* Whatever the replies, the call comes to an end: the rungs do not cascade.
CallEnds == <>(stage = "settled")

===============================================================================
