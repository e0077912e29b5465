----------------------------- MODULE FindingPipeline -----------------------------
(***************************************************************************)
(* From the findings of the lenses and the scanners to the list that is    *)
(* posted: LLMReviewEngine._collect_findings.  Each stage takes findings   *)
(* away for a reason of its own and leaves the rest to the next, so that   *)
(* what a stage keeps may cost a finding that a later stage would have     *)
(* preferred.  The auditor is a model: it answers as it likes, asks for    *)
(* files, or fails.                                                        *)
(***************************************************************************)
EXTENDS Integers, Sequences, FiniteSets

CONSTANTS
  Candidates,   \* findings as a call or a scanner leaves them
  Configs,      \* what the team has set, and what is known of its files
  MaxFindings,  \* how many findings a review has at most
  Near,         \* NEAR_LINES
  MaxScans,     \* MAX_SCAN_FINDINGS
  MaxHops       \* MAX_HOPS

ASSUME BoundAssumption ==
  /\ MaxFindings \in Nat /\ Near \in Nat /\ MaxScans \in Nat /\ MaxHops \in Nat

\* Info, low, medium, high, critical.
Severities == 1..5
High == 4

\* Those a tool stamps: a linter's, a secret's, a dependency advisory.
ScanCategories == {"lint", "secret", "advisory"}

\* Those that must name how the code fails.
DefectCategories == {"correctness", "security", "performance"}

Categories == ScanCategories \cup DefectCategories \cup {"documentation", "ponytail"}

\* A reviewed file; one only scanners read; one of these that a hint which some
\* lens was given speaks of.
Places == {"reviewed", "scanned", "hinted"}

\* quotes, matches: whether it quotes a line, and the changed lines that match;
\* scenario: it says how the code fails; length: of its text.
FindingSpace ==
  [category : Categories, severity : Severities, place : Places, line : Nat,
   quotes : BOOLEAN, matches : SUBSET Nat, title : STRING, scenario : BOOLEAN,
   length : Nat]

\* A rule matches a category from a severity up; zero drops.
Rules == [category : Categories, from : Severities, to : Severities \cup {0}]

\* dismissed, downvoted: fingerprints; pragmas: lines of reviewed files.
ConfigSpace ==
  [dismissed : SUBSET STRING, downvoted : SUBSET STRING, pragmas : SUBSET Nat,
   reflect : BOOLEAN, fetcher : BOOLEAN, floor : Severities, unanchored : Severities,
   rules : Seq(Rules)]

\* The advisory lenses' grades are lowered before a finding gets here.
ASSUME CandidateAssumption ==
  /\ Candidates \subseteq FindingSpace
  /\ \A f \in Candidates :
       f.category \in {"documentation", "ponytail"} => f.severity < High

ASSUME ConfigAssumption == Configs \subseteq ConfigSpace

VARIABLES
  cfg,       \* the configuration
  found,     \* the findings, in order: the lenses', then the scanners'
  pc,        \* the stage that is next
  line,      \* where each finding is placed
  anchored,  \* the findings whose line is not a guess
  severity,  \* each one's severity
  fate,      \* what has become of each
  asked,     \* the findings the auditor has yet to judge
  hop        \* how many times files were fetched for it

vars == <<cfg, found, pc, line, anchored, severity, fate, asked, hop>>

placing == <<line, anchored, severity>>
audit == <<asked, hop>>

Stages == {"snap", "scope", "suppress", "cap", "gate", "arbitrate", "merge",
           "reflect", "audit", "referee", "floors", "rules", "done"}

\* live: still in the list; the others say which stage took it out.
Fates == {"live", "off_diff", "suppressed", "capped", "unproven", "outranked", "merged",
          "rejected", "unverified", "floor", "ruled"}

Ids == DOMAIN found
Live == {i \in Ids : fate[i] = "live"}
IsScan(i) == found[i].category \in ScanCategories

ScansLast(list) ==
  \A i, j \in DOMAIN list :
    i < j /\ list[i].category \in ScanCategories => list[j].category \in ScanCategories

Init ==
  /\ cfg \in Configs
  /\ found \in UNION {[1..n -> Candidates] : n \in 0..MaxFindings}
  /\ ScansLast(found)
  /\ pc = "snap"
  /\ line = [i \in Ids |-> found[i].line]
  /\ anchored = Ids
  /\ severity = [i \in Ids |-> found[i].severity]
  /\ fate = [i \in Ids |-> "live"]
  /\ asked = {} /\ hop = 0

\* A stage takes the findings of lost out of the list, and the next follows.
Takes(lost, why, next) ==
  /\ fate' = [i \in Ids |-> IF i \in lost THEN why ELSE fate[i]]
  /\ pc' = next
  /\ UNCHANGED <<cfg, found>>

-------------------------------------------------------------------------------
(* Placing *)

Distance(a, b) == IF a < b THEN b - a ELSE a - b

\* The match nearest to where the finding says it is, the first of two.
Nearest(at, matches) ==
  CHOOSE m \in matches :
    \A other \in matches :
      Distance(m, at) < Distance(other, at) \/ (Distance(m, at) = Distance(other, at) /\ m <= other)

\* _snap_one: a quoted line that matches nothing leaves a guess.
Snapped(f) == IF f.quotes /\ f.matches # {} THEN Nearest(f.line, f.matches) ELSE f.line

\* _snap_to_diff: and so does a file that was not reviewed.
Anchors(f) == f.place = "reviewed" /\ (f.quotes => f.matches # {})

Snap ==
  /\ pc = "snap"
  /\ line' = [i \in Ids |-> Snapped(found[i])]
  /\ anchored' = {i \in Ids : Anchors(found[i])}
  /\ Takes({}, "live", "scope")
  /\ UNCHANGED <<severity, audit>>

-------------------------------------------------------------------------------
(* What is known to be fine, or too much *)

\* _scope_scans: a tool has read whole files; advisories can never be anchored.
Scope ==
  /\ pc = "scope"
  /\ Takes({i \in Live : IsScan(i) /\ found[i].category # "advisory" /\ i \notin anchored},
           "off_diff", "suppress")
  /\ UNCHANGED <<placing, audit>>

\* Mutant: only the lens finds security findings.
IsSecurityOfLens(i) == found[i].category = "security"

\* is_security_finding
IsSecurity(i) == found[i].category \in {"security", "secret", "advisory"}

\* _is_protected_security
Protected(i) == IsSecurity(i) /\ severity[i] >= High

\* _is_suppressed: dismissed by the team, or by a reviewer or the code's author
\* where they may.
Suppressed(i) ==
  \/ found[i].title \in cfg.dismissed
  \/ /\ ~Protected(i)
     /\ \/ found[i].title \in cfg.downvoted
        \/ found[i].place = "reviewed" /\ {line[i], line[i] - 1} \cap cfg.pragmas # {}

Suppress ==
  /\ pc = "suppress"
  /\ Takes({i \in Live : Suppressed(i)}, "suppressed", "cap")
  /\ UNCHANGED <<placing, audit>>

\* Mutant: the scans of every stage so far have their place.
BeforeOfAll(i) ==
  {j \in Ids : IsScan(j) /\ (severity[j] > severity[i] \/ (severity[j] = severity[i] /\ j < i))}

\* The scan findings that are kept before this one: the most severe, and the first.
Before(i) ==
  {j \in Live : IsScan(j) /\ (severity[j] > severity[i] \/ (severity[j] = severity[i] /\ j < i))}

\* _cap_scans
Cap ==
  /\ pc = "cap"
  /\ Takes({i \in Live : IsScan(i) /\ Cardinality(Before(i)) >= MaxScans}, "capped", "gate")
  /\ UNCHANGED <<placing, audit>>

\* _filter_missing_failure_scenarios
Gate ==
  /\ pc = "gate"
  /\ Takes({i \in Live : found[i].category \in DefectCategories /\ ~found[i].scenario},
           "unproven", "arbitrate")
  /\ UNCHANGED <<placing, audit>>

-------------------------------------------------------------------------------
(* One finding for one location, and no opposed advice *)

\* _outranked_by: what cuts code yields to what fixes it.
Outranks(j, i) ==
  /\ found[i].category = "ponytail" /\ found[j].category \in {"correctness", "security"}
  /\ found[i].place = found[j].place /\ Distance(line[i], line[j]) <= Near

\* resolve_conflicts: judged against all that are there.
Outranked == {i \in Live : \E j \in Live : Outranks(j, i)}

\* Mutant: the referee comes after the merge.
ArbitrateLate ==
  /\ pc = "arbitrate"
  /\ Takes({}, "outranked", "merge")
  /\ UNCHANGED <<placing, audit>>

Arbitrate ==
  /\ pc = "arbitrate"
  /\ Takes(Outranked, "outranked", "merge")
  /\ UNCHANGED <<placing, audit>>

\* The key of _dedupe: a tool's findings are told apart by their title too.
SameLocation(i, j) ==
  /\ found[i].place = found[j].place /\ line[i] = line[j]
  /\ IsScan(i) = IsScan(j)
  /\ IsScan(i) => found[i].title = found[j].title

\* Mutant: a guess is as good as a line.
BeatsByGrade(j, i) ==
  \/ severity[j] > severity[i]
  \/ severity[j] = severity[i] /\ found[j].length > found[i].length
  \/ severity[j] = severity[i] /\ found[j].length = found[i].length /\ j < i

\* Its choice: anchored, then severe, then long, then first.
Beats(j, i) ==
  IF (i \in anchored) # (j \in anchored) THEN j \in anchored
  ELSE \/ severity[j] > severity[i]
       \/ severity[j] = severity[i] /\ found[j].length > found[i].length
       \/ severity[j] = severity[i] /\ found[j].length = found[i].length /\ j < i

\* _dedupe
Merge ==
  /\ pc = "merge"
  /\ Takes({i \in Live : \E j \in Live \ {i} : SameLocation(i, j) /\ Beats(j, i)},
           "merged", "reflect")
  /\ UNCHANGED <<placing, audit>>

-------------------------------------------------------------------------------
(* The auditor *)

\* Scan findings sit it out.
Audited == {i \in Live : ~IsScan(i)}

\* _reflect: off, nothing to audit, or interrupted; or the auditor is asked.
Reflect ==
  /\ pc = "reflect"
  /\ \/ Takes({}, "live", "referee") /\ UNCHANGED asked
     \/ /\ cfg.reflect /\ Audited # {}
        /\ Takes({}, "live", "audit") /\ asked' = Audited
  /\ UNCHANGED <<placing, hop>>

\* The request failed, or its answer does not parse: all that was asked is kept.
AuditFails ==
  /\ pc = "audit"
  /\ Takes({}, "live", "referee")
  /\ asked' = {}
  /\ UNCHANGED <<placing, hop>>

\* reflect_findings: some are dropped, and of some the auditor wants to see more.
\* Where files can be had for them it is asked again, or they are dropped.
Audit ==
  /\ pc = "audit"
  /\ \E dropped \in SUBSET asked : \E deferred \in SUBSET (asked \ dropped) :
       \/ /\ deferred # {} /\ cfg.fetcher /\ hop < MaxHops
          /\ Takes(dropped, "rejected", "audit")
          /\ asked' = deferred /\ hop' = hop + 1
       \/ /\ fate' = [i \in Ids |-> CASE i \in dropped -> "rejected"
                                      [] i \in deferred -> "unverified"
                                      [] OTHER -> fate[i]]
          /\ pc' = "referee"
          /\ asked' = {}
          /\ UNCHANGED <<cfg, found, hop>>
  /\ UNCHANGED placing

Referee ==
  /\ pc = "referee"
  /\ Takes(Outranked, "outranked", "floors")
  /\ UNCHANGED <<placing, audit>>

-------------------------------------------------------------------------------
(* What the team wants to see *)

\* _passes_severity_floor: a guess has a floor of its own, unless it confirms a
\* hint on a file that no line could be given in.
Passes(i) ==
  /\ severity[i] >= cfg.floor
  /\ \/ i \in anchored
     \/ found[i].place = "hinted" /\ ~IsScan(i)
     \/ severity[i] >= cfg.unanchored

Floors ==
  /\ pc = "floors"
  /\ Takes({i \in Live : ~Passes(i)}, "floor", "rules")
  /\ UNCHANGED <<placing, audit>>

\* apply_finding_rules: in order, each seeing the severity the last one set; zero
\* once a rule has dropped it.
Ruling(i) ==
  LET ruled[n \in 0..Len(cfg.rules)] ==
        IF n = 0 THEN severity[i]
        ELSE LET rule == cfg.rules[n]
                 was == ruled[n - 1]
             IN IF was # 0 /\ rule.category = found[i].category /\ was >= rule.from
                THEN rule.to ELSE was
  IN ruled[Len(cfg.rules)]

ApplyRules ==
  /\ pc = "rules"
  /\ Takes({i \in Live : Ruling(i) = 0}, "ruled", "done")
  /\ severity' = [i \in Ids |-> IF i \in Live /\ Ruling(i) # 0 THEN Ruling(i) ELSE severity[i]]
  /\ UNCHANGED <<line, anchored, audit>>

-------------------------------------------------------------------------------

Next ==
  \/ Snap \/ Scope \/ Suppress \/ Cap \/ Gate \/ Arbitrate \/ Merge
  \/ Reflect \/ AuditFails \/ Audit \/ Referee \/ Floors \/ ApplyRules

Spec == Init /\ [][Next]_vars

-------------------------------------------------------------------------------
(* Properties *)

\* What the auditor and the team get to decide about, or have decided.
Heard == {"live", "rejected", "unverified", "floor", "ruled"}

\* Merging costs no location its finding: what was merged away has one at its
\* place that was heard in its stead, and where the floors took that one they
\* would have taken it too, unless it was a guess that a line stood against (_dedupe:
\* "an unanchored winner would then fall to the unanchored severity floor, taking
\* the location's real finding with it").
MergeCostsNothing ==
  \A i \in Ids : fate[i] = "merged" =>
    \E j \in Ids : /\ SameLocation(i, j) /\ fate[j] \in Heard
                   /\ fate[j] = "floor" /\ (j \in anchored => i \in anchored) => ~Passes(i)

\* The scans that neither the diff nor the team has taken out.
Eligible == {j \in Ids : IsScan(j) /\ fate[j] \notin {"off_diff", "suppressed"}}

\* A deterministic hit is lost to no model: only for being outside the change, to
\* the team's settings, to a copy of itself, or to a full house of others as
\* severe (_reflect, _dedupe, _cap_scans: "findings those stages drop must not
\* spend its slots").
ScanLostToNoModel ==
  \A i \in Ids : IsScan(i) =>
    \/ fate[i] \in {"live", "off_diff", "suppressed", "floor", "ruled"}
    \/ fate[i] = "merged" /\ \E j \in Eligible : SameLocation(i, j) /\ fate[j] # "merged"
    \/ /\ fate[i] = "capped"
       /\ Cardinality({j \in Eligible : /\ fate[j] # "capped"
                                        /\ found[j].severity >= found[i].severity}) = MaxScans

\* A severe security finding, a lens's or a scanner's, that says how it fails and
\* that the team has not dismissed, is heard of at its place, whatever pragmas and
\* downvotes its author and others have left (_is_protected_security).
SeriousIsHeard ==
  pc = "done" =>
    \A i \in Ids :
      /\ found[i].category \in {"security", "secret", "advisory"}
      /\ found[i].severity >= High
      /\ found[i].title \notin cfg.dismissed
      /\ IsScan(i) \/ found[i].scenario
      => \/ fate[i] \in {"off_diff", "capped"}
         \/ \E j \in Ids : SameLocation(i, j) /\ fate[j] \in Heard

\* A cut is not posted where a fix stood beside it, whatever became of the fix once
\* both were findings to reckon with: neither the merge nor the auditor can let
\* the cut through (resolve_conflicts).
CutYieldsToFix ==
  pc = "done" =>
    \A i, j \in Ids :
      fate[i] = "live" /\ found[i].category = "ponytail" =>
        ~/\ found[j].category \in {"correctness", "security"}
         /\ fate[j] \notin {"suppressed", "unproven"}
         /\ found[i].place = found[j].place
         /\ Distance(line[i], line[j]) <= Near

===============================================================================
