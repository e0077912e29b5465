---------------------------- MODULE DiffGeometry ----------------------------
(***************************************************************************)
(* The line numbers of one changed file, from the diff a host serves to    *)
(* the line a comment is posted on (core/diffparse.py, core/diff.py,       *)
(* core/diffbuild.py, engine/compress.py, engine/boundaries.py, the anchor *)
(* matching of engine/engine.py, the placement of core/comment.py).        *)
(*                                                                         *)
(* The truth is an edit script: which lines are kept, deleted and added.   *)
(* Every other number is one the code computes: hunk headers are written   *)
(* by the host, rewritten when a hunk is padded, merged or cut, read by    *)
(* the model, corrected by the text the model quotes, and looked up again  *)
(* in the diff as served.  A line of a body carries its marker and, as     *)
(* its text, the place of that line in the script.                         *)
(***************************************************************************)
EXTENDS Integers, Sequences, FiniteSets, SequencesExt

CONSTANTS MaxLines,      \* bound: lines of the edit script
          Contexts,      \* lines of context a host may serve
          Budgets,       \* tokens that may be left for padding
          Asked,         \* batching.context_lines
          PerLine,       \* _SCALE: tokens that buy one line of context
          MaxContext,    \* _MAX_CONTEXT_LINES
          Ranges,        \* sets of definitions ast-grep may report, 0-based
          Drifts,        \* how far a model may miscount
          MaxCuts        \* bound: cuts of a hunk too large for its budget

ASSUME GeometryAssumption ==
    /\ {MaxLines, PerLine, MaxContext} \subseteq Nat \ {0}
    /\ {Asked, MaxCuts} \subseteq Nat
    /\ Contexts \subseteq Nat /\ Budgets \subseteq Nat /\ Drifts \subseteq Int
    /\ \A ranges \in Ranges : ranges \subseteq Int \X Int

VARIABLES script,        \* the edits: "k" kept, "d" deleted, "a" added
          served,        \* the hunks of the diff the host served
          shown,         \* the hunks a model is shown
          whole,         \* whether the head text read was the whole file
          progress, cuts,
          finding,       \* what the model reports
          posted         \* where the comment goes

geometryVars == <<script, served, shown, whole, progress, cuts, finding, posted>>

LesserOf(a, b) == IF a < b THEN a ELSE b
GreaterOf(a, b) == IF a > b THEN a ELSE b
Least(S) == CHOOSE x \in S : \A y \in S : x <= y
Greatest(S) == CHOOSE x \in S : \A y \in S : y <= x

-----------------------------------------------------------------------------
(* The truth: line numbers of a script's lines on both sides. *)

OldNo(sc, i) == Cardinality({j \in 1..i : sc[j] # "a"})
NewNo(sc, i) == Cardinality({j \in 1..i : sc[j] # "d"})
Changed(sc) == {i \in DOMAIN sc : sc[i] # "k"}

\* The members of a set of numbers, in order.
Ascending(S) == [k \in 1..Cardinality(S) |-> CHOOSE i \in S : Cardinality({j \in S : j <= i}) = k]

\* The head revision's lines, as places of the script.
HeadText(sc) == Ascending({i \in DOMAIN sc : sc[i] # "d"})

-----------------------------------------------------------------------------
(* Hunks.  A header counts a side's lines; where it has none, git starts   *)
(* that side at the line before.                                           *)

OnOld(body) == Cardinality({p \in DOMAIN body : body[p].op # "a"})
OnNew(body) == Cardinality({p \in DOMAIN body : body[p].op # "d"})

ServedHunk(sc, i, j) ==
    LET body == [p \in 1..(j - i + 1) |-> [op |-> sc[i + p - 1], at |-> i + p - 1]]
        start(len, before) == IF len = 0 THEN before ELSE before + 1
    IN  [os |-> start(OnOld(body), OldNo(sc, i - 1)), ol |-> OnOld(body),
         ns |-> start(OnNew(body), NewNo(sc, i - 1)), nl |-> OnNew(body),
         body |-> body]

\* Runs of lines within u of a change.
ServedDiff(sc, u) ==
    LET near == {i \in DOMAIN sc : \E j \in Changed(sc) : i - j \in -u..u}
        firsts == Ascending({i \in near : i - 1 \notin near})
        last(i) == Least({j \in near : j >= i /\ j + 1 \notin near})
    IN  [h \in DOMAIN firsts |-> ServedHunk(sc, firsts[h], last(firsts[h]))]

\* The two numbers the walk has reached when it yields line p of a hunk.
WalkDiff(h, p) ==
    [old |-> h.os + OnOld(SubSeq(h.body, 1, p - 1)),
     new |-> h.ns + OnNew(SubSeq(h.body, 1, p - 1))]

FirstNew(h) == h.ns + IF h.nl = 0 THEN 1 ELSE 0
FirstOld(h) == h.os + IF h.ol = 0 THEN 1 ELSE 0
LastNew(h) == FirstNew(h) + h.nl - 1

-----------------------------------------------------------------------------
(* Padding a file's hunks with lines of its head text. *)

ContextLines(remaining) == LesserOf(Asked, LesserOf(remaining \div PerLine, MaxContext))
TrailingContext(before) == IF before <= 0 THEN 0 ELSE GreaterOf(1, before \div 4)
MaxReach == 2 * MaxContext

\* Well-formed ranges as 1-based inclusive spans.
Spans(ranges) == {<<r[1] + 1, r[2] + 1>> : r \in {q \in ranges : 0 <= q[1] /\ q[1] <= q[2]}}

\* The starts of the definitions that contain line x and are within reach.
Enclosing(spans, x) == {s[1] : s \in {t \in spans : t[1] <= x /\ x <= t[2] /\ x - t[1] <= MaxReach}}

LeadStart(h, n, spans) ==
    LET fixed == GreaterOf(1, FirstNew(h) - n)
        around == Enclosing(spans, FirstNew(h))
        wide == IF around = {} THEN fixed ELSE LesserOf(fixed, Greatest(around))
    IN  GreaterOf(wide, FirstNew(h) - (FirstOld(h) - 1))

Reaches(lead, trail) == lead <= trail + 1

\* A run of hunks takes one more that its padded window reaches; `len` lines of
\* text can be read.  A run is its first hunk, its last and where it starts.
AddHunk(groups, h, hunks, lead, len, after) ==
    LET alone(l) == Append(groups, [first |-> h, last |-> h, lead |-> l])
    IN  IF groups = <<>> THEN alone(lead)
        ELSE LET trail == LesserOf(len, LastNew(hunks[h - 1]) + after)
             IN  CASE ~Reaches(lead, trail) -> alone(lead)
                   [] Reaches(lead, trail) /\ FirstNew(hunks[h]) - 1 <= len ->
                        [groups EXCEPT ![Len(groups)].last = h]
                   [] OTHER -> alone(GreaterOf(lead, trail + 1))

GroupHunks(hunks, len, n, after, spans) ==
    LET grouped[h \in 0..Len(hunks)] ==
            IF h = 0 THEN <<>>
            ELSE AddHunk(grouped[h - 1], h, hunks, LeadStart(hunks[h], n, spans), len, after)
    IN  grouped[Len(hunks)]

\* One group as a single hunk; its lengths are counted off the body.
RenderGroup(g, hunks, text, after) ==
    LET first == hunks[g.first]
        last == hunks[g.last]
        leadEnd == LesserOf(FirstNew(first), Len(text) + 1)
        pad(a, b) == [p \in 1..(b - a + 1) |-> [op |-> "k", at |-> text[a + p - 1]]]
        leading == pad(LesserOf(g.lead, leadEnd), leadEnd - 1)
        between(h) == pad(LastNew(hunks[h - 1]) + 1, FirstNew(hunks[h]) - 1)
        bodies == [x \in 1..(g.last - g.first + 1) |->
                     LET h == g.first + x - 1
                     IN  IF x = 1 THEN hunks[h].body ELSE between(h) \o hunks[h].body]
        trailing == pad(LastNew(last) + 1, LesserOf(Len(text), LastNew(last) + after))
        body == leading \o FlattenSeq(bodies) \o trailing
    IN  [os |-> FirstOld(first) - Len(leading), ol |-> OnOld(body),
         ns |-> FirstNew(first) - Len(leading), nl |-> OnNew(body), body |-> body]

ExpandHunks(hunks, text, n, after, spans) ==
    IF n <= 0 \/ text = <<>> THEN hunks
    ELSE LET groups == GroupHunks(hunks, Len(text), n, after, spans)
         IN  [x \in DOMAIN groups |-> RenderGroup(groups[x], hunks, text, after)]

\* Mutant: the new side's start counts the removed lines too.
MCutHunk(h, c) ==
    LET slice(a, b) == SubSeq(h.body, a, b)
        render(a, b) == [os |-> WalkDiff(h, a).old, ol |-> OnOld(slice(a, b)),
                         ns |-> h.ns + a - 1, nl |-> OnNew(slice(a, b)), body |-> slice(a, b)]
    IN  <<render(1, c), render(c + 1, Len(h.body))>>

\* A hunk over its budget, cut after line c, each slice under a fresh header.
CutHunk(h, c) ==
    LET slice(a, b) == SubSeq(h.body, a, b)
        render(a, b) == [os |-> WalkDiff(h, a).old, ol |-> OnOld(slice(a, b)),
                         ns |-> WalkDiff(h, a).new, nl |-> OnNew(slice(a, b)), body |-> slice(a, b)]
    IN  <<render(1, c), render(c + 1, Len(h.body))>>

-----------------------------------------------------------------------------
(* From a finding back to the diff. *)

SideNo(w, side) == IF side = "LEFT" THEN w.old ELSE w.new
Sides(op) == CASE op = "d" -> {"LEFT"} [] op = "a" -> {"RIGHT"} [] OTHER -> {"LEFT", "RIGHT"}

\* A line of a hunk with a number and a side to comment by, and every such line
\* of the diff as served.
CommentsOn(h, p) ==
    {[at |-> h.body[p].at, op |-> h.body[p].op, side |-> s,
      line |-> SideNo(WalkDiff(h, p), s), walk |-> WalkDiff(h, p)] : s \in Sides(h.body[p].op)}
Commentable(hunks) ==
    UNION {UNION {CommentsOn(hunks[x], p) : p \in DOMAIN hunks[x].body} : x \in DOMAIN hunks}

ChangedLines(hunks, side) == {c \in Commentable(hunks) : c.op # "k" /\ c.side = side}

\* The numbers of the changed lines whose text the finding quotes.
MatchAnchor(f) == {c.line : c \in {x \in ChangedLines(served, f.side) : x.at \in f.quoted}}

NearestMatch(matches, line) ==
    LET off(x) == IF x > line THEN x - line ELSE line - x
    IN  Least({x \in matches : \A y \in matches : off(x) <= off(y)})

\* Mutant: the first line that reads like the quote is taken.
MSnapOne(f) ==
    LET matches == MatchAnchor(f)
    IN  CASE f.quote = "none" -> f
          [] f.quote # "none" /\ matches = {} -> [f EXCEPT !.anchored = FALSE]
          [] OTHER -> [f EXCEPT !.line = Least(matches)]

SnapOne(f) ==
    LET matches == MatchAnchor(f)
    IN  CASE f.quote = "none" -> f
          [] f.quote # "none" /\ matches = {} -> [f EXCEPT !.anchored = FALSE]
          [] f.quote # "none" /\ f.line \in matches -> f
          [] OTHER -> [f EXCEPT !.line = NearestMatch(matches, f.line)]

\* The line a position names: a context line by both its numbers.
Position(c) ==
    CASE c.op = "k" -> <<c.walk.old, c.walk.new>>
      [] c.op # "k" /\ c.side = "LEFT" -> <<c.line, 0>>
      [] OTHER -> <<0, c.line>>

\* The hunk a reply in the comment's thread is given.
HunkForLine(hunks, line, side) ==
    LET lo(h) == IF side = "LEFT" THEN h.os ELSE h.ns
        len(h) == IF side = "LEFT" THEN h.ol ELSE h.nl
    IN  {x \in DOMAIN hunks : lo(hunks[x]) <= line /\ line <= lo(hunks[x]) + len(hunks[x]) - 1}

-----------------------------------------------------------------------------
NoFinding == [flag |-> 0, side |-> "RIGHT", line |-> 0, drift |-> 0, quote |-> "none",
              quoted |-> {}, anchored |-> TRUE]

Scripts == UNION {[1..k -> {"k", "d", "a"}] : k \in 1..MaxLines}

GeometryInit ==
    /\ script \in {sc \in Scripts : Changed(sc) # {}
                     /\ \A i \in 1..(Len(sc) - 1) : ~(sc[i] = "a" /\ sc[i + 1] = "d")}
    /\ \E u \in Contexts : served = ServedDiff(script, u)
    /\ shown = served /\ whole = TRUE
    /\ progress = "served" /\ cuts = 0
    /\ finding = NoFinding /\ posted = <<>>

\* stages.expand_context: the head text may be missing, or shorter than the
\* diff says (text read at another moment than the diff).
PadContext ==
    /\ progress = "served"
    /\ \E budget \in Budgets, ranges \in Ranges, len \in 0..Len(HeadText(script)) :
         LET n == ContextLines(budget)
         IN  /\ shown' = ExpandHunks(served, SubSeq(HeadText(script), 1, len), n,
                                     TrailingContext(n), Spans(ranges))
             /\ whole' = (len = Len(HeadText(script)))
    /\ progress' = "expanded"
    /\ UNCHANGED <<script, served, cuts, finding, posted>>

\* A hunk that exceeds its call's budget, or whose call failed, is cut.
SplitByBudget ==
    /\ progress = "expanded" /\ cuts < MaxCuts
    /\ \E x \in DOMAIN shown : \E c \in 1..(Len(shown[x].body) - 1) :
         shown' = SubSeq(shown, 1, x - 1) \o CutHunk(shown[x], c)
                    \o SubSeq(shown, x + 1, Len(shown))
    /\ cuts' = cuts + 1
    /\ UNCHANGED <<script, served, whole, progress, finding, posted>>

\* The model flags a line it is shown, counts its number from the header above
\* it, and quotes it, quotes something else, or quotes nothing; other changed
\* lines may read the same.
Report ==
    /\ progress = "expanded"
    /\ \E x \in DOMAIN shown : \E p \in DOMAIN shown[x].body :
         LET line == shown[x].body[p]
         IN  \E side \in Sides(line.op), drift \in Drifts, quote \in {"none", "line", "lost"} :
               LET alike == {c.at : c \in ChangedLines(served, side)} \ {line.at}
                   number == SideNo(WalkDiff(shown[x], p), side) + drift
               IN  /\ number >= 1
                   /\ \E twins \in (IF quote = "line" THEN SUBSET alike ELSE {{}}) :
                        finding' = [flag |-> line.at, side |-> side, line |-> number,
                                    drift |-> drift, quote |-> quote, anchored |-> TRUE,
                                    quoted |-> IF quote = "line" THEN twins \cup {line.at} ELSE {}]
    /\ progress' = "reported"
    /\ UNCHANGED <<script, served, shown, whole, cuts, posted>>

SnapFindings ==
    /\ progress = "reported"
    /\ finding' = SnapOne(finding)
    /\ progress' = "snapped"
    /\ UNCHANGED <<script, served, shown, whole, cuts, posted>>

\* Inline on the one line of the diff the finding names, or in the summary.
PartitionFindings ==
    /\ progress = "snapped"
    /\ LET named == {c \in Commentable(served) : c.line = finding.line /\ c.side = finding.side}
       IN  posted' = IF finding.anchored /\ named # {}
                     THEN Position(CHOOSE c \in named : TRUE) ELSE <<>>
    /\ progress' = "placed"
    /\ UNCHANGED <<script, served, shown, whole, cuts, finding>>

GeometryNext == PadContext \/ SplitByBudget \/ Report \/ SnapFindings \/ PartitionFindings

GeometrySpec == GeometryInit /\ [][GeometryNext]_geometryVars

-----------------------------------------------------------------------------
(* Properties. *)

\* Wherever a line is shown, the number its hunk's header gives it is its
\* number in the file, after any padding, merging and cutting, and the header
\* counts the lines below it.  Only a padded line of a head text shorter than
\* the file is excepted: it may be numbered otherwise (_render_group).
LinesBind ==
    \A x \in DOMAIN shown :
       LET h == shown[x]
       IN  /\ h.ol = OnOld(h.body) /\ h.nl = OnNew(h.body)
           /\ \A p \in DOMAIN h.body :
                LET l == h.body[p]
                IN  whole \/ l.op # "k" =>
                      /\ l.op = script[l.at]
                      /\ l.op # "a" => WalkDiff(h, p).old = OldNo(script, l.at)
                      /\ l.op # "d" => WalkDiff(h, p).new = NewNo(script, l.at)

\* A model is shown every line of the diff, each line once and in file order,
\* however padding joined the hunks and budgets cut them (expand_hunks:
\* windows that meet are merged, never doubled).
ShownOnce ==
    LET at == FlattenSeq([x \in DOMAIN shown |-> [p \in DOMAIN shown[x].body |-> shown[x].body[p].at]])
    IN  /\ \A i \in 1..(Len(at) - 1) : at[i] < at[i + 1]
        /\ \A x \in DOMAIN served : \A p \in DOMAIN served[x].body :
             served[x].body[p].at \in {at[i] : i \in DOMAIN at}
        /\ \A x \in DOMAIN shown : shown[x].os >= (IF shown[x].ol = 0 THEN 0 ELSE 1)
                                   /\ shown[x].ns >= (IF shown[x].nl = 0 THEN 0 ELSE 1)

TruePosition(i) ==
    <<IF script[i] = "a" THEN 0 ELSE OldNo(script, i), IF script[i] = "d" THEN 0 ELSE NewNo(script, i)>>

\* A changed line the model flagged gets the comment if the model counted
\* right, or quoted it and it reads like no other; a quote that is found
\* nowhere is never posted inline (_snap_one).
QuotedLineIsHit ==
    progress = "placed" =>
      /\ /\ script[finding.flag] # "k"
         /\ \/ finding.quote = "line" /\ finding.quoted = {finding.flag}
            \/ finding.quote # "lost" /\ finding.drift = 0
         => posted = TruePosition(finding.flag)
      /\ finding.quote = "lost" => posted = <<>>

\* An inline comment names one line of the diff the host served, on the sides
\* that line exists on, and a reply in its thread is given the one hunk that
\* holds it (build_commentable_lines, hunk_for_line).
CommentHasItsHunk ==
    progress = "placed" /\ posted # <<>> =>
      \E x \in DOMAIN served : \E p \in DOMAIN served[x].body :
         /\ posted = TruePosition(served[x].body[p].at)
         /\ HunkForLine(served, finding.line, finding.side) = {x}

\* What a model is shown is the diff, with the line numbers of the file.
LinesAreTrue == LinesBind /\ ShownOnce

\* What it flags gets its comment there, in the hunk that holds it.
CommentsLand == QuotedLineIsHit /\ CommentHasItsHunk
=============================================================================
