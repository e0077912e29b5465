----------------------------- MODULE Retrieval ------------------------------
(***************************************************************************)
(* The auditor and the code it may ask to read (engine/reflect.py,         *)
(* engine/retrieve.py, engine/astgrep.py, github/checkout.py, the reads of *)
(* github/rest_gateway.py).                                                *)
(*                                                                         *)
(* An audit judges findings against a prompt that must fit the input       *)
(* budget: patches first, then head text, the flagged files before the     *)
(* fetched ones.  A finding it cannot judge names what it needs; those     *)
(* needs are resolved by waves of concurrent fetches, symbols through a    *)
(* tree cloned at most once, and the findings are judged again.            *)
(*                                                                         *)
(* A name is a path or a symbol; text[n] is what the redacted text of n    *)
(* costs, 0 when it cannot be fetched (as a symbol seldom can).  Costs are *)
(* tokens, and what is joined costs the sum of its parts.                  *)
(***************************************************************************)
EXTENDS Integers, Sequences, FiniteSets, FiniteSetsExt, SequencesExt

CONSTANTS Paths, Symbols,
          PathOrder,          \* the paths as the diff orders them
          Findings, PathOf,   \* what is audited, and the file each is on
          NeedLists,          \* what a verdict may ask for
          Texts,              \* costs of the names' texts that are explored
          Definitions,        \* what ast-grep may find, per symbol
          PatchCost,          \* cost of each path's patch
          FixedCosts,         \* what an audit's fixed parts may cost
          LeadCost,           \* cost of the line that leads the head texts
          HeadingCost,        \* cost of a head text's heading and blank line
          MaxInput,           \* batching.max_input_tokens
          MinGrounding,       \* _MIN_GROUNDING_TOKENS
          HopLimit, MaxFiles, MaxCandidates

Names == Paths \cup Symbols

Verdicts == {[keep |-> TRUE, needs |-> <<>>], [keep |-> FALSE, needs |-> <<>>]}
              \cup {[keep |-> TRUE, needs |-> n] : n \in NeedLists}

ASSUME RetrievalAssumption ==
    /\ {MaxInput, MinGrounding, HopLimit} \subseteq Nat /\ FixedCosts \subseteq Nat
    /\ {LeadCost, HeadingCost} \subseteq Nat
    /\ {MaxFiles, MaxCandidates} \subseteq Nat \ {0}
    /\ IsFiniteSet(Findings) /\ PathOrder \in Seq(Paths)
    /\ PathOf \in [Findings -> Paths] /\ PatchCost \in [Paths -> Nat \ {0}]
    /\ NeedLists \subseteq Seq(Names)
    /\ Texts \subseteq [Names -> Nat] /\ Definitions \subseteq [Symbols -> Seq(Paths)]

VARIABLES text, defs, fast, fetcher, fixed, \* the world, and the configuration
          phase, hops, open, kept, dropped, \* the audit
          patched, contents, extra, prompt, noticed,
          needs, already,                   \* one resolution
          frames, out, seen, flying, got, tree

world == <<text, defs, fast, fetcher, fixed>>
auditState == <<phase, hops, open, kept, dropped, patched, contents, extra, prompt, noticed>>
resolution == <<needs, already, frames, out, seen, flying, got, tree>>
retrievalVars == <<world, auditState, resolution>>

HopBudget == MaxInput \div 4

-----------------------------------------------------------------------------
(* The prompt of an audit. *)

Flagged(fs) == {PathOf[f] : f \in fs}
OverheadOf(fs) == fixed + Cardinality(fs)

\* The flagged files' patches, in order, each if it still fits.
BudgetedDiff(fs, room) ==
    LET budgeted[n \in 0..Len(PathOrder)] ==
          IF n = 0 THEN [used |-> 0, patches |-> {}]
          ELSE LET was == budgeted[n - 1]
                   p == PathOrder[n]
               IN  IF p \in Flagged(fs) \cap patched /\ was.used + PatchCost[p] <= room
                   THEN [used |-> was.used + PatchCost[p], patches |-> was.patches \cup {p}]
                   ELSE was
    IN  budgeted[Len(PathOrder)]

\* A text cut to its head and tail: nothing when not even the marker fits.
HeadTail(remaining) == IF remaining < 3 THEN 0 ELSE remaining

InDiffOrder(S) ==
    LET listed[n \in 0..Len(PathOrder)] ==
          IF n = 0 THEN <<>>
          ELSE IF PathOrder[n] \in S THEN Append(listed[n - 1], PathOrder[n]) ELSE listed[n - 1]
    IN  listed[Len(PathOrder)]

\* Most-flagged files first, then the fetched ones.
GroundingOrder(fs, fetched) ==
    LET count(p) == Cardinality({f \in fs : PathOf[f] = p})
        most[n \in 0..Cardinality(fs)] ==
          IF n = 0 THEN <<>> ELSE InDiffOrder({p \in Paths : count(p) = n}) \o most[n - 1]
    IN  most[Cardinality(fs)] \o InDiffOrder({p \in fetched : count(p) = 0})

\* Whose head text the budget holds, and what is left of it: a text is charged
\* alone, without its heading.
Ground(ground, p) ==
    LET used == IF text[p] > ground.left THEN HeadTail(ground.left) ELSE text[p]
    IN  IF p \notin contents \/ ground.left < MinGrounding \/ used = 0 THEN ground
        ELSE [left |-> ground.left - used, shown |-> ground.shown \cup {p}]

Grounding(order, budget) ==
    LET grounded[n \in 0..Len(order)] ==
          IF n = 0 THEN [left |-> budget, shown |-> {}] ELSE Ground(grounded[n - 1], order[n])
    IN  grounded[Len(order)]

\* What the block of head texts holds besides them: charged to nothing.
Framing(shown) ==
    IF shown = {} THEN 0 ELSE LeadCost + HeadingCost * Cardinality(shown)

\* Patches, head texts and tokens are those of the prompt as it is sent.
Prompt(fs) ==
    LET room == MaxInput - OverheadOf(fs)
        trimmed == BudgetedDiff(fs, room)
        whole == room - trimmed.used
        reserve == IF fast THEN Min({whole, HopBudget}) ELSE whole
        ground == Grounding(GroundingOrder(fs, extra), reserve)
    IN  [patches |-> trimmed.patches, shown |-> ground.shown,
         trimmed |-> trimmed.patches # Flagged(fs) \cap patched,
         tokens |-> OverheadOf(fs) + trimmed.used + (reserve - ground.left)
                      + Framing(ground.shown)]

NoPrompt == [patches |-> {}, shown |-> {}, trimmed |-> FALSE, tokens |-> 0]

-----------------------------------------------------------------------------
(* Resolving what a verdict needs. *)

Take(n, s) == SubSeq(s, 1, Min({n, Len(s)}))
Drop(n, s) == SubSeq(s, n + 1, Len(s))

\* Path-shaped names are the fetcher's alone.
IsSymbol(n) == n \in Symbols

\* The files that define a symbol, as far as the tree's languages show.
ResolveSymbol(n) == IF IsSymbol(n) THEN Take(MaxCandidates, defs[n]) ELSE <<>>

\* A clone of the base branch, or none: no git, no right to read, too slow.
CloneBaseTree == {"cloned", "none"}

\* The first symbol asks for the tree, once, whether or not that succeeds.
BaseCheckoutRoot == IF tree = "unasked" THEN CloneBaseTree ELSE {tree}

RedactedCost(s) ==
    LET sum[n \in 0..Len(s)] == IF n = 0 THEN 0 ELSE sum[n - 1] + text[s[n]]
    IN  sum[Len(s)]

Acceptable(p, acc, known) ==
    /\ p \notin Range(acc) /\ p \notin known /\ text[p] > 0
    /\ RedactedCost(acc) + text[p] <= HopBudget

\* The walk the waves must agree with: one need after the other, each fetched
\* when it is reached.
TakePath(acc, p, known) ==
    IF Len(acc) < MaxFiles /\ Acceptable(p, acc, known) THEN Append(acc, p) ELSE acc

TakePaths(acc, paths, known) ==
    LET taken[n \in 0..Len(paths)] ==
          IF n = 0 THEN acc ELSE TakePath(taken[n - 1], paths[n], known)
    IN  taken[Len(paths)]

TakeNeed(acc, n, known, cloned) ==
    IF Acceptable(n, acc, known) \/ Len(acc) >= MaxFiles \/ ~cloned THEN TakePath(acc, n, known)
    ELSE TakePaths(acc, ResolveSymbol(n), known)

Walk(acc, asks, known, cloned) ==
    LET walked[n \in 0..Len(asks)] ==
          IF n = 0 THEN acc ELSE TakeNeed(walked[n - 1], asks[n], known, cloned)
    IN  walked[Len(asks)]

Top == Last(frames)
SetTop(f) == Append(Front(frames), f)
TakeInWaves(paths, symbols) == [pending |-> paths, wave |-> <<>>, symbols |-> symbols]

Headroom == MaxFiles - Len(out)

\* The next wave, as wide as the headroom: its unseen names are all requested.
StartWave ==
    /\ phase = "resolve" /\ frames # <<>> /\ flying = {}
    /\ Top.wave = <<>> /\ Top.pending # <<>> /\ Len(out) < MaxFiles
    /\ LET wave == Take(Headroom, Top.pending)
           todo == (Range(wave) \ seen) \ already
       IN  /\ frames' = SetTop([Top EXCEPT !.wave = wave, !.pending = Drop(Headroom, @)])
           /\ seen' = seen \cup todo /\ flying' = todo
    /\ UNCHANGED <<world, auditState, needs, already, out, got, tree>>

\* A file's text at the head the review began with, or nothing.
GetFileContents(p) == {q \in {p} : text[q] > 0}

\* The answers come back in any order.
Arrive(p) ==
    /\ p \in flying
    /\ flying' = flying \ {p}
    /\ got' = got \cup GetFileContents(p)
    /\ UNCHANGED <<world, auditState, needs, already, frames, out, seen, tree>>

\* Mutant: the hop's budget is not looked at.
MAccepts(p) == p \in got /\ p \notin Range(out)

Accepts(p) == p \in got /\ p \notin Range(out) /\ RedactedCost(out) + text[p] <= HopBudget

\* The wave is walked in order.
TakeNext ==
    /\ phase = "resolve" /\ frames # <<>> /\ flying = {} /\ Top.wave # <<>>
    /\ LET p == Head(Top.wave)
           rest == SetTop([Top EXCEPT !.wave = Tail(@)])
       IN  \/ /\ Len(out) >= MaxFiles
              /\ frames' = SetTop([Top EXCEPT !.wave = <<>>])
              /\ UNCHANGED <<out, tree>>
           \/ /\ Len(out) < MaxFiles /\ Accepts(p)
              /\ out' = Append(out, p) /\ frames' = rest /\ UNCHANGED tree
           \/ /\ Len(out) < MaxFiles /\ ~Accepts(p) /\ ~(Top.symbols /\ IsSymbol(p))
              /\ frames' = rest /\ UNCHANGED <<out, tree>>
           \/ /\ Len(out) < MaxFiles /\ ~Accepts(p) /\ Top.symbols /\ IsSymbol(p)
              /\ tree' \in BaseCheckoutRoot
              /\ frames' = Append(rest, TakeInWaves(IF tree' = "cloned" THEN ResolveSymbol(p) ELSE <<>>, FALSE))
              /\ UNCHANGED out
    /\ UNCHANGED <<world, auditState, needs, already, seen, flying, got>>

EndWaves ==
    /\ phase = "resolve" /\ frames # <<>> /\ flying = {} /\ Top.wave = <<>>
    /\ Top.pending = <<>> \/ Len(out) >= MaxFiles
    /\ frames' = Front(frames)
    /\ UNCHANGED <<world, auditState, needs, already, out, seen, flying, got, tree>>

-----------------------------------------------------------------------------
(* The audit. *)

\* The answer may be one nobody can parse, or no answer at all: all are kept.
AuditorFails ==
    /\ phase = "audit" /\ prompt = NoPrompt
    /\ kept' = kept \cup open /\ open' = {} /\ phase' = "done"
    /\ UNCHANGED <<world, hops, dropped, patched, contents, extra, prompt, noticed, resolution>>

Ask ==
    /\ phase = "audit" /\ prompt = NoPrompt
    /\ prompt' = Prompt(open) /\ noticed' = (noticed \/ Prompt(open).trimmed)
    /\ UNCHANGED <<world, phase, hops, open, kept, dropped, patched, contents, extra, resolution>>

Grounded == prompt.shown

CanFetch == fetcher /\ hops < HopLimit

\* The findings of a set, as the auditor may be given them.
Listings(fs) == {order \in [1..Cardinality(fs) -> fs] : Range(order) = fs}

\* Every verdict is acted on; the findings that need code go on together.
Judge ==
    /\ phase = "audit" /\ prompt # NoPrompt
    /\ \E v \in [open -> Verdicts] :
         LET deferred == {f \in open : v[f].needs # <<>>}
             keeps == {f \in open \ deferred : v[f].keep}
         IN  /\ kept' = kept \cup keeps
             /\ CASE deferred = {} ->
                       /\ dropped' = dropped \cup (open \ keeps)
                       /\ open' = {} /\ phase' = "done"
                       /\ UNCHANGED <<needs, already, frames, out, seen, flying, got>>
                  [] deferred # {} /\ CanFetch ->
                       /\ dropped' = dropped \cup ((open \ keeps) \ deferred)
                       /\ open' = deferred /\ phase' = "resolve"
                       /\ \E order \in Listings(deferred) :
                            needs' = FlattenSeq([i \in DOMAIN order |-> v[order[i]].needs])
                       /\ frames' = <<TakeInWaves(needs', TRUE)>>
                       /\ already' = Grounded
                       /\ out' = <<>> /\ seen' = {} /\ flying' = {} /\ got' = {}
                  [] OTHER ->
                       /\ dropped' = dropped \cup (open \ keeps)
                       /\ open' = {} /\ phase' = "done"
                       /\ UNCHANGED <<needs, already, frames, out, seen, flying, got>>
    /\ UNCHANGED <<world, hops, patched, contents, extra, prompt, noticed, tree>>

\* Mutant: the hops are not counted.
MNextHop == hops

NextHop == hops + 1

\* The findings that deferred are judged again, with their own patches and the
\* fetched files; with nothing fetched they are dropped.
Recheck ==
    /\ phase = "resolve" /\ frames = <<>>
    /\ IF out # <<>>
       THEN /\ hops' = NextHop /\ phase' = "audit" /\ prompt' = NoPrompt
            /\ patched' = patched \cap (Flagged(open) \cup Range(out))
            /\ contents' = contents \cup Range(out)
            /\ extra' = Range(out)
            /\ UNCHANGED <<open, dropped>>
       ELSE /\ dropped' = dropped \cup open /\ open' = {} /\ phase' = "done"
            /\ UNCHANGED <<hops, prompt, patched, contents, extra>>
    /\ UNCHANGED <<world, kept, noticed, resolution>>

RetrievalInit ==
    /\ text \in Texts
    /\ defs \in Definitions /\ fast \in BOOLEAN /\ fetcher \in BOOLEAN
    /\ fixed \in FixedCosts
    /\ phase = "audit" /\ hops = 0 /\ open = Findings /\ kept = {} /\ dropped = {}
    /\ patched \in {D \in SUBSET Paths : Flagged(Findings) \subseteq D}
    /\ contents = {p \in patched : text[p] > 0}
    /\ extra = {} /\ prompt = NoPrompt /\ noticed = FALSE
    /\ needs = <<>> /\ already = {} /\ frames = <<>> /\ out = <<>>
    /\ seen = {} /\ flying = {} /\ got = {} /\ tree = "unasked"

RetrievalNext ==
    \/ AuditorFails \/ Ask \/ Judge \/ Recheck
    \/ StartWave \/ TakeNext \/ EndWaves \/ (\E p \in Names : Arrive(p))

RetrievalSpec == RetrievalInit /\ [][RetrievalNext]_retrievalVars
\* Every call returns or times out, and the engine goes on with what it has.
RetrievalFairSpec == RetrievalSpec /\ WF_retrievalVars(RetrievalNext)

-----------------------------------------------------------------------------
(* Properties. *)

\* However the answers of a wave arrive, the needs resolve to the files a
\* one-by-one walk would have taken, in the same order (resolve_needs).
WavesMatchWalk ==
    phase = "resolve" /\ frames = <<>> => out = Walk(<<>>, needs, already, tree = "cloned")

\* Overlapping the fetches costs no more of them: never more in flight than
\* could still be accepted, none the auditor was already shown; and a finding
\* is put to the auditor again only with text its last prompt did not hold.
RecheckIsInformed ==
    /\ Cardinality(flying) <= Headroom /\ flying \cap already = {}
    /\ phase = "resolve" /\ frames = <<>> => Range(out) \cap prompt.shown = {}

\* However large its patches and texts, the prompt an audit sends exceeds the
\* input budget by no more than the framing of the texts it shows, unless its
\* fixed parts alone exceed it, and then nothing is added to them; a patch left
\* out for the budget is disclosed (_audit, _grounding_block).
PromptFits ==
    phase = "audit" /\ prompt # NoPrompt =>
      /\ prompt.tokens <= MaxInput + Framing(prompt.shown) \/ prompt.tokens = OverheadOf(open)
      /\ Flagged(open) \cap patched # prompt.patches => noticed

\* "Counted against the input budget so the assembled prompt fits it, not just
\* its variable parts" (_PROMPT_SCAFFOLD): a prompt whose fixed parts leave room
\* is within the budget as it is sent.
AssembledPromptFits ==
    phase = "audit" /\ prompt # NoPrompt /\ OverheadOf(open) <= MaxInput =>
      prompt.tokens <= MaxInput

\* What an auditor is given to decide by: the files it asked for, new to it,
\* within its budget but for their framing.
RecheckIsSound == WavesMatchWalk /\ RecheckIsInformed /\ PromptFits

\* The audit ends with every finding kept or dropped once, however often an
\* auditor defers.
AuditEnds == <>[](phase = "done" /\ kept \cup dropped = Findings /\ kept \cap dropped = {})
=============================================================================
