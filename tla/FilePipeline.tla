----------------------------- MODULE FilePipeline -----------------------------
(***************************************************************************)
(* The stages of a review before the fan-out, and the summary that tells   *)
(* the reader what they left out (engine/stages.py, engine/triage.py,      *)
(* engine/compress.py, engine/static_analysis.py, engine/lenses.py,        *)
(* engine/notices.py; ReviewEngine._prepare_review and review).            *)
(*                                                                         *)
(* The changed files go through the filters, the scan, triage, the file    *)
(* cap, context expansion and batching, in that order; each lens is then   *)
(* asked about each batch.  A file is a record of what these stages tell   *)
(* apart, and is named by its place in the diff.  A hunk is the sequence   *)
(* of its lines' token counts.  What a call does is LensCall's, what       *)
(* becomes of findings is FindingPipeline's.                               *)
(***************************************************************************)
EXTENDS Naturals, Sequences, SequencesExt, FiniteSets, FiniteSetsExt

CONSTANTS
  Diffs,     \* the diffs: sequences of files
  ReviewConfigs,   \* the settings a review may have
  Overhead,  \* _prompt_overhead_tokens: what a request costs besides its diff
  Header,    \* the tokens of a patch's file and hunk header
  MaxHints,  \* MAX_HINTS
  MaxPad     \* _MAX_CONTEXT_LINES

FileSpace ==
  [reviewable : BOOLEAN, included : BOOLEAN, scannable : BOOLEAN, risky : BOOLEAN,
   length : Nat, tool : {"none", "hint", "direct"}, grade : Nat, hunks : Seq(Seq(Nat))]

ReviewConfigSpace ==
  [fast : BOOLEAN, categories : SUBSET STRING, extra : SUBSET STRING, intent : BOOLEAN,
   inputTokens : Nat, recursive : BOOLEAN, maxFiles : Nat, maxLines : Nat,
   triage : BOOLEAN, scan : BOOLEAN, toolFloor : Nat]

ASSUME BudgetAssumption ==
  /\ Diffs \subseteq Seq(FileSpace)
  /\ ReviewConfigs \subseteq ReviewConfigSpace
  /\ Overhead \in Nat /\ Header \in Nat /\ MaxHints \in Nat /\ MaxPad \in Nat

VARIABLES
  stage,      \* the stage to run next
  diff,       \* the changed files, in the diff's order
  config,     \* ReviewConfig
  spec,       \* _SpecContext
  patches,    \* file_patches: the files still in the review, in order
  oversized,  \* the files the size cap dropped
  skipped,    \* the files triage skipped
  capped,     \* the file cap cut some
  hits,       \* the files a tool reported, at or above its floor
  pad,        \* context lines put before each hunk
  batches,    \* sequences of units
  carrier,    \* the lens that carries the unbatched hints, or "none"
  failed,     \* the (batch, lens) calls that failed or were skipped
  anyFound,   \* the calls returned findings
  notices,    \* the notices of the summary
  verdict,    \* "", "raised", "thumbsUp", "findings" or "qualified"
  marker      \* the lenses the summary's hidden marker names

filesVars == <<stage, diff, config, spec, patches, oversized, skipped, capped, hits,
          pad, batches, carrier, failed, anyFound, notices, verdict, marker>>
input == <<diff, config, spec>>
outcome == <<failed, anyFound, notices, verdict, marker>>

Files == 1..Len(diff)

-------------------------------------------------------------------------------
(* The lenses of the run *)

\* What spec resolution comes to: whether a block goes to the spec lens, and
\* whether a spec that matched could not fit its budget.
SpecContexts == [text : BOOLEAN, unfit : BOOLEAN]

\* What the pull request gives the lenses that judge a promise.
Stated == (IF config.intent THEN {"intent"} ELSE {}) \cup (IF spec.text THEN {"spec"} ELSE {})

\* The fast preset regroups the untouched default set; an explicit list runs
\* as listed, less the lenses that nothing was stated for.
Lenses ==
  config.extra \cup
    IF config.fast THEN {"security", "correctness", "group"} \cup (Stated \ {"intent"})
    ELSE config.categories \ ({"intent", "spec"} \ Stated)

FilesInit ==
  /\ stage = "filter"
  /\ diff \in Diffs
  /\ config \in ReviewConfigs
  /\ spec \in SpecContexts
  /\ patches = <<>>
  /\ oversized = {}
  /\ skipped = {}
  /\ capped = FALSE
  /\ hits = {}
  /\ pad = 0
  /\ batches = <<>>
  /\ carrier = "none"
  /\ failed = {}
  /\ anyFound = FALSE
  /\ notices = {}
  /\ verdict = ""
  /\ marker = {}

-------------------------------------------------------------------------------
(* Filter, scan *)

\* is_reviewable, then the team's own globs.
InReview(f) == diff[f].reviewable /\ diff[f].included

InOrder(S) ==
  LET listed[n \in 0..Len(diff)] ==
        IF n = 0 THEN <<>>
        ELSE IF n \in S THEN Append(listed[n - 1], n) ELSE listed[n - 1]
  IN  listed[Len(diff)]

FilterFiles ==
  /\ stage = "filter"
  /\ LET reviewed == {f \in Files : InReview(f)}
         big == {f \in reviewed : config.maxLines # 0 /\ diff[f].length > config.maxLines}
     IN  /\ patches' = InOrder(reviewed \ big)
         /\ oversized' = big
  /\ stage' = "scan"
  /\ UNCHANGED <<input, skipped, capped, hits, pad, batches, carrier, outcome>>

\* There is code to review and no lens to review it.
NoLens == patches # <<>> /\ Lenses = {}

FailLoud ==
  /\ stage = "scan"
  /\ NoLens
  /\ stage' = "done"
  /\ verdict' = "raised"
  /\ UNCHANGED <<input, patches, oversized, skipped, capped, hits, pad, batches,
                 carrier, failed, anyFound, notices, marker>>

\* The tools read the reviewed files and the scan-only manifests.
Corpus == Range(patches) \cup {f \in Files : diff[f].scannable}

\* _run_tool: a tool that is missing, crashes, times out or cannot be read
\* reports nothing.
Silences == SUBSET {"hint", "direct"}

\* run_static_analysis drops what is below the tool's floor.
ScanFiles ==
  /\ stage = "scan"
  /\ ~NoLens
  /\ \E silent \in Silences :
       hits' = IF config.scan
               THEN {f \in Corpus : /\ diff[f].tool \notin silent \cup {"none"}
                                    /\ diff[f].grade >= config.toolFloor}
               ELSE {}
  /\ stage' = "triage"
  /\ UNCHANGED <<input, patches, oversized, skipped, capped, pad, batches, carrier,
                 outcome>>

\* partition_by_mode.
Hints == {f \in hits : diff[f].tool = "hint"}
Direct == hits \ Hints

-------------------------------------------------------------------------------
(* Triage and the file cap *)

\* Mutant: only a hint-mode hit escalates its file.
AlwaysEscalateHinted(f) == f \in Hints \/ diff[f].risky

\* A security path or token, a large patch, or any tool's hit.
AlwaysEscalate(f) == f \in hits \/ diff[f].risky

Floor == {f \in Range(patches) : AlwaysEscalate(f)}
TriageCandidates == Range(patches) \ Floor

\* No triage model, nothing it may skip, or a triage call that failed or did
\* not parse: everything is reviewed, in the diff's order.
TriageKeepsAll ==
  /\ stage = "triage"
  /\ stage' = "cap"
  /\ UNCHANGED <<input, patches, oversized, skipped, capped, hits, pad, batches,
                 carrier, outcome>>

\* survivors.sort: most at risk first, in the diff's order among equals.
Rankings(kept, risk) ==
  {order \in [1..Cardinality(kept) -> kept] :
     /\ Range(order) = kept
     /\ \A i, j \in DOMAIN order : i < j =>
          \/ risk[order[i]] > risk[order[j]]
          \/ risk[order[i]] = risk[order[j]] /\ order[i] < order[j]}

\* The floor comes first, in the diff's order, then the survivors.
Triage ==
  /\ stage = "triage"
  /\ config.triage
  /\ TriageCandidates # {}
  /\ \E kept \in SUBSET TriageCandidates, risk \in [TriageCandidates -> {0, 10}] :
       /\ \E order \in Rankings(kept, risk) : patches' = InOrder(Floor) \o order
       /\ skipped' = TriageCandidates \ kept
  /\ stage' = "cap"
  /\ UNCHANGED <<input, oversized, capped, hits, pad, batches, carrier, outcome>>

CapFiles ==
  /\ stage = "cap"
  /\ patches' = SubSeq(patches, 1, Min({Len(patches), config.maxFiles}))
  /\ capped' = (Len(patches) > config.maxFiles)
  /\ stage' = "expand"
  /\ UNCHANGED <<input, oversized, skipped, hits, pad, batches, carrier, outcome>>

-------------------------------------------------------------------------------
(* Context and batches *)

\* A unit is the lines of one file that go together, each <<hunk, line>>; the
\* lines a hunk is padded with come first and cost a token each.
HunkOf(f, h) == [l \in 1..pad |-> 1] \o diff[f].hunks[h]
LinesOfHunk(f, h) == [l \in 1..Len(HunkOf(f, h)) |-> <<h, l>>]
LinesOf(f) == FlattenSeq([h \in 1..Len(diff[f].hunks) |-> LinesOfHunk(f, h)])

Total(costs) ==
  LET sum[n \in 0..Len(costs)] == IF n = 0 THEN 0 ELSE sum[n - 1] + costs[n]
  IN  sum[Len(costs)]

Cost(f, lines) == Header + Total([i \in 1..Len(lines) |-> HunkOf(f, lines[i][1])[lines[i][2]]])

\* What is left of the input budget buys the padding.
ExpandContext ==
  /\ stage = "expand"
  /\ LET used == Total([i \in 1..Len(patches) |-> Cost(patches[i], LinesOf(patches[i]))])
     IN  pad' \in IF used < config.inputTokens THEN 0..MaxPad ELSE {0}
  /\ stage' = "batch"
  /\ UNCHANGED <<input, patches, oversized, skipped, capped, hits, batches, carrier,
                 outcome>>

\* _batch_budget: the reserve is skipped when it would take half or more.
Budget ==
  IF Overhead * 2 >= config.inputTokens THEN Max({1, config.inputTokens})
  ELSE config.inputTokens - Overhead

\* Mutant: the estimate is not checked against the rendered slice.
SliceEndUnverified(f, lines, start) ==
  Max({start} \cup {e \in start..Len(lines) :
                      Cost(f, SubSeq(lines, start, e)) <= Budget + Header})

\* split_hunk_by_budget: a slice grows on its lines' own estimates, and shrinks
\* in proportion until it fits with its header.
SliceEnd(f, lines, start) ==
  LET Size(e) == Cost(f, SubSeq(lines, start, e))
      grown == Max({start} \cup {e \in start..Len(lines) : Size(e) <= Budget + Header})
      fit[e \in start..grown] ==
        IF e = start \/ Size(e) <= Budget THEN e
        ELSE fit[Max({start, start - 1 + ((e - start + 1) * Budget) \div Size(e)})]
  IN  fit[grown]

\* A hunk with nothing in it is one slice.
SplitHunk(f, lines) ==
  LET slices[start \in 1..Len(lines) + 1] ==
        IF start > Len(lines) THEN <<>>
        ELSE LET e == SliceEnd(f, lines, start)
             IN  <<SubSeq(lines, start, e)>> \o slices[e + 1]
  IN  IF lines = <<>> THEN <<lines>> ELSE slices[1]

\* A hunk as it is, or its slices when it does not fit.
PartsOfHunk(f, h) ==
  LET lines == LinesOfHunk(f, h)
  IN  IF Cost(f, lines) >= Budget THEN SplitHunk(f, lines) ELSE <<lines>>

\* A file is whole when it fits, when the walk is off, and when it has no hunk
\* (a rename, a change of mode).
Walked(f) == config.recursive /\ Cost(f, LinesOf(f)) >= Budget /\ diff[f].hunks # <<>>
PartsOf(f) ==
  IF Walked(f) THEN FlattenSeq([h \in 1..Len(diff[f].hunks) |-> PartsOfHunk(f, h)])
  ELSE <<LinesOf(f)>>
UnitsOf(f) == [p \in 1..Len(PartsOf(f)) |-> [file |-> f, lines |-> PartsOf(f)[p]]]

\* batch_files: a unit over the budget is a batch of its own.
Pack(acc, unit) ==
  LET cost == Cost(unit.file, unit.lines)
      closed == IF acc.open = <<>> THEN acc.closed ELSE Append(acc.closed, acc.open)
  IN  IF cost >= Budget
      THEN [closed |-> Append(closed, <<unit>>), open |-> <<>>, tokens |-> 0]
      ELSE IF acc.tokens + cost > Budget
      THEN [closed |-> closed, open |-> <<unit>>, tokens |-> cost]
      ELSE [acc EXCEPT !.open = Append(@, unit), !.tokens = @ + cost]

Packed(units) ==
  LET packed[n \in 0..Len(units)] ==
        IF n = 0 THEN [closed |-> <<>>, open |-> <<>>, tokens |-> 0]
        ELSE Pack(packed[n - 1], units[n])
  IN  packed[Len(units)]

BatchFiles ==
  /\ stage = "batch"
  /\ LET end == Packed(FlattenSeq([i \in 1..Len(patches) |-> UnitsOf(patches[i])]))
     IN  batches' = IF end.open = <<>> THEN end.closed ELSE Append(end.closed, end.open)
  /\ stage' = "carry"
  /\ UNCHANGED <<input, patches, oversized, skipped, capped, hits, pad, carrier,
                 outcome>>

-------------------------------------------------------------------------------
(* The calls *)

FilesOf(b) == {batches[b][u].file : u \in DOMAIN batches[b]}
Batched == UNION {FilesOf(b) : b \in DOMAIN batches}

\* Hints on scan-only files, which have no batch to join.
Unbatched == {f \in Hints : diff[f].scannable /\ f \notin Batched}

\* They ride the first batch's security lens, or its correctness lens.
Carrier ==
  IF Unbatched = {} \/ batches = <<>> THEN "none"
  ELSE IF "security" \in Lenses THEN "security"
  ELSE IF "correctness" \in Lenses THEN "correctness" ELSE "none"

CarryHints ==
  /\ stage = "carry"
  /\ carrier' = Carrier
  /\ stage' = "call"
  /\ UNCHANGED <<input, patches, oversized, skipped, capped, hits, pad, batches,
                 outcome>>

Dropped == IF carrier = "none" THEN Unbatched ELSE {}

\* format_hints: the most severe of a block, as many as it may hold.
Shown(block) ==
  {f \in block : Cardinality({g \in block : \/ diff[g].grade > diff[f].grade
                                            \/ diff[g].grade = diff[f].grade /\ g < f})
                   < MaxHints}

\* The hint block of a call, and what the carrier lens reads besides it.
HintBlock(b) == Shown(Hints \cap FilesOf(b))
CarriedBlock(b, l) == IF b = 1 /\ l = carrier THEN Shown(Unbatched) ELSE {}

Calls == (DOMAIN batches) \X Lenses

\* Any call may fail or be skipped at a ceiling; a call that failed may have
\* salvaged findings.
CallLenses ==
  /\ stage = "call"
  /\ failed' \in SUBSET Calls
  /\ anyFound' \in BOOLEAN
  /\ stage' = "summary"
  /\ UNCHANGED <<input, patches, oversized, skipped, capped, hits, pad, batches,
                 carrier, notices, verdict, marker>>

\* Every call failed and nothing was salvaged or scanned.
RaiseIncomplete ==
  /\ stage = "summary"
  /\ Calls # {} /\ failed = Calls /\ ~anyFound /\ Direct = {}
  /\ verdict' = "raised"
  /\ stage' = "done"
  /\ UNCHANGED <<input, patches, oversized, skipped, capped, hits, pad, batches,
                 carrier, failed, anyFound, notices, marker>>

\* Mutant: hints without a carrier are forgotten.
BuildNoticesOfFiles ==
  (IF capped THEN {"cap"} ELSE {})
    \cup (IF oversized # {} THEN {"oversized"} ELSE {})
    \cup (IF skipped # {} THEN {"triage"} ELSE {})
    \cup (IF spec.unfit THEN {"spec"} ELSE {})
    \cup (IF failed # {} THEN {"failed"} ELSE {})

BuildNotices ==
  (IF capped THEN {"cap"} ELSE {})
    \cup (IF oversized # {} THEN {"oversized"} ELSE {})
    \cup (IF skipped # {} THEN {"triage"} ELSE {})
    \cup (IF spec.unfit THEN {"spec"} ELSE {})
    \cup (IF failed # {} THEN {"failed"} ELSE {})
    \cup (IF Dropped # {} THEN {"hints"} ELSE {})

LensesMarker == {l \in Lenses : \A b \in DOMAIN batches : <<b, l>> \notin failed}

\* What the recovery of a call did adds notices of its own, and what the later
\* stages drop may be all that was found.
ComposeSummary ==
  /\ stage = "summary"
  /\ ~(Calls # {} /\ failed = Calls /\ ~anyFound /\ Direct = {})
  /\ \E recovery \in SUBSET {"recovery"} : notices' = BuildNotices \cup recovery
  /\ verdict' \in IF notices' # {} THEN {"qualified"}
                  ELSE {"thumbsUp"} \cup (IF anyFound \/ Direct # {} THEN {"findings"} ELSE {})
  /\ marker' = LensesMarker
  /\ stage' = "done"
  /\ UNCHANGED <<input, patches, oversized, skipped, capped, hits, pad, batches,
                 carrier, failed, anyFound>>

FilesNext ==
  \/ FilterFiles
  \/ FailLoud
  \/ ScanFiles
  \/ TriageKeepsAll
  \/ Triage
  \/ CapFiles
  \/ ExpandContext
  \/ BatchFiles
  \/ CarryHints
  \/ CallLenses
  \/ RaiseIncomplete
  \/ ComposeSummary

FilesSpec == FilesInit /\ [][FilesNext]_filesVars

-------------------------------------------------------------------------------
(* Properties *)

\* The line of a file was put before a lens by a call that answered.
Judged(f, line, l) ==
  \E b \in DOMAIN batches :
    /\ <<b, l>> \notin failed
    /\ \E u \in DOMAIN batches[b] :
         batches[b][u].file = f /\ line \in Range(batches[b][u].lines)

\* The thumbs-up is earned: every changed line that was to be reviewed was
\* judged by every lens of the run, of which there was one, and every hint of a
\* tool was read by a call, unless it was crowded out by more severe ones
\* (_compose_summary; the stages before it drop files, hints and calls in six
\* places).
ThumbsUpEarned ==
  verdict = "thumbsUp" =>
    /\ \A f \in Files : InReview(f) =>
         /\ Lenses # {} /\ f \in Batched
         /\ \A l \in Lenses : \A line \in Range(LinesOf(f)) : Judged(f, line, l)
    /\ \A f \in Hints :
         \E b \in DOMAIN batches : \E l \in Lenses :
           \/ f \in HintBlock(b) \cup CarriedBlock(b, l)
           \/ f \in FilesOf(b) /\ Cardinality(HintBlock(b)) = MaxHints
           \/ f \in Unbatched /\ Cardinality(CarriedBlock(b, l)) = MaxHints

\* A lens in the summary's hidden marker judged every line of every file that
\* the summary does not say it left out (_lenses_marker: a posting gate relies
\* on it).
MarkerIsEarned ==
  \A l \in marker : \A f \in Files :
    InReview(f) /\ (\E line \in Range(LinesOf(f)) : ~Judged(f, line, l)) =>
      \/ f \in oversized /\ "oversized" \in notices
      \/ f \in skipped /\ "triage" \in notices
      \/ f \notin Batched /\ "cap" \in notices

\* Neither of the two marks that others rely on is given for less.
ApprovalIsEarned == ThumbsUpEarned /\ MarkerIsEarned

\* No model keeps a file of the security floor from the review, and the file
\* cap does not cut one while it keeps a file that triage ranked
\* (triage.always_escalate, triage_files, stages.cap_files).
FloorComesFirst ==
  /\ \A f \in skipped : f \notin hits /\ ~diff[f].risky
  /\ skipped # {} /\ stage \notin {"cap", "filter", "scan", "triage"} =>
       \A f, g \in Files :
         /\ InReview(f) /\ f \notin oversized /\ AlwaysEscalate(f)
         /\ g \in Range(patches) /\ ~AlwaysEscalate(g)
         => f \in Range(patches)

\* The lines of units, each with its file.
Tagged(unit) == [i \in 1..Len(unit.lines) |-> <<unit.file, unit.lines[i]>>]
TaggedLines(units) == FlattenSeq([u \in 1..Len(units) |-> Tagged(units[u])])

\* Batching loses, repeats and reorders nothing, and a batch over the budget is
\* one unit that there was no way to cut (compress.batch_files,
\* split_patch_into_hunks, split_hunk_by_budget).
BatchesHoldAll ==
  stage \in {"carry", "call"} =>
    /\ Batched = Range(patches)
    /\ FlattenSeq([b \in 1..Len(batches) |-> TaggedLines(batches[b])])
         = TaggedLines([i \in 1..Len(patches) |->
                          [file |-> patches[i], lines |-> LinesOf(patches[i])]])
    /\ \A b \in DOMAIN batches :
         LET batch == batches[b]
         IN  Total([u \in 1..Len(batch) |-> Cost(batch[u].file, batch[u].lines)]) > Budget =>
               /\ Len(batch) = 1
               /\ config.recursive => Len(batch[1].lines) <= 1

===============================================================================
