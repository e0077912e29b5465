---------------------------- MODULE MCReviewStages ----------------------------
(* Small instances of the stages before a review's calls and of those after  *)
(* them, for TLC.  The two halves share no state, so a behaviour is one of    *)
(* either half; the other half stays at its start.                           *)
EXTENDS FilePipeline, FindingPipeline

VARIABLE half

-------------------------------------------------------------------------------
(* Before the calls. *)

PlainFile == [reviewable |-> TRUE, included |-> TRUE, scannable |-> FALSE, length |-> 1,
              risky |-> FALSE, tool |-> "none", grade |-> 0, hunks |-> <<<<1, 2>>, <<1>>>>]

\* One file of each sort the stages tell apart.
Risky == [PlainFile EXCEPT !.risky = TRUE, !.hunks = <<<<3>>>>]
Hinted == [PlainFile EXCEPT !.tool = "hint", !.grade = 2, !.hunks = <<<<1, 1, 1, 1, 1, 1, 2>>>>]
Flagged == [PlainFile EXCEPT !.tool = "direct", !.grade = 2]
Faint == [PlainFile EXCEPT !.tool = "hint", !.grade = 1, !.hunks = <<<<9, 1>>>>]
Big == [Hinted EXCEPT !.length = 9]
Lockfile == [PlainFile EXCEPT !.reviewable = FALSE, !.scannable = TRUE, !.tool = "hint", !.grade = 2]
Manifest == [Lockfile EXCEPT !.reviewable = TRUE, !.grade = 1]
Renamed == [PlainFile EXCEPT !.tool = "hint", !.grade = 3, !.hunks = <<>>]
Excluded == [PlainFile EXCEPT !.included = FALSE]

Sorts == {PlainFile, Risky, Hinted, Flagged, Faint, Big, Lockfile, Manifest, Renamed, Excluded}
MCDiffs == {<<f, g>> : f, g \in Sorts}
             \cup {<<PlainFile, f, g>> : f \in {Risky, Flagged, Lockfile}, g \in {PlainFile, Hinted}}

Base == [fast |-> FALSE, categories |-> {"security", "correctness"}, extra |-> {},
         intent |-> FALSE, inputTokens |-> 8, recursive |-> TRUE, maxFiles |-> 2,
         maxLines |-> 5, triage |-> FALSE, scan |-> TRUE, toolFloor |-> 1]

Quick == [Base EXCEPT !.fast = TRUE, !.recursive = FALSE, !.maxLines = 0, !.inputTokens = 20]

MCReviewConfigs ==
  {Quick, [Base EXCEPT !.categories = {"correctness", "spec"}, !.triage = TRUE, !.maxFiles = 1],
   [Base EXCEPT !.triage = TRUE, !.categories = {"health"}],
   [Base EXCEPT !.categories = {"intent"}, !.toolFloor = 2]}

-------------------------------------------------------------------------------
(* After the calls. *)

Finding(category, grade, title) ==
  [category |-> category, severity |-> grade, place |-> "reviewed", line |-> 1,
   quotes |-> TRUE, matches |-> {1}, title |-> title, scenario |-> TRUE, length |-> 1]

Cut == Finding("ponytail", 3, "cut")
Fix == Finding("correctness", 2, "fix")
Hole == Finding("security", 4, "hole")
Slow == Finding("performance", 3, "slow")
Secret == Finding("secret", 4, "secret")
Lint == Finding("lint", 2, "lint")
Advisory == [Finding("advisory", 3, "advisory") EXCEPT !.place = "scanned", !.matches = {}]

MCCandidates ==
  {Cut, [Cut EXCEPT !.quotes = FALSE, !.line = 2],
   Fix, [Fix EXCEPT !.line = 3, !.matches = {2, 4}], [Fix EXCEPT !.scenario = FALSE],
   Hole, [Hole EXCEPT !.matches = {}], [Hole EXCEPT !.matches = {}, !.severity = 3], [Hole EXCEPT !.place = "hinted", !.severity = 3],
   Slow, [Slow EXCEPT !.length = 2],
   Secret, [Secret EXCEPT !.title = "key"], [Secret EXCEPT !.matches = {}],
   Lint, Advisory}

Plain ==
  [dismissed |-> {}, downvoted |-> {}, pragmas |-> {}, reflect |-> TRUE, fetcher |-> TRUE,
   floor |-> 1, unanchored |-> 4, rules |-> <<>>]

\* Hushed: all that can be silenced is.  Ruled: the second rule sees what the
\* first one set.
MCConfigs ==
  {Plain,
   [Plain EXCEPT !.reflect = FALSE, !.floor = 3],
   [Plain EXCEPT !.fetcher = FALSE, !.pragmas = {1},
                 !.downvoted = {"cut", "fix", "hole", "secret"}, !.dismissed = {"key"}],
   [Plain EXCEPT !.reflect = FALSE,
                 !.rules = <<[category |-> "security", from |-> 4, to |-> 2],
                             [category |-> "security", from |-> 3, to |-> 0]>>]}

-------------------------------------------------------------------------------

StagesInit ==
  /\ \/ half = "before" /\ cfg = Plain /\ found = <<>>
     \/ /\ half = "after" /\ diff = <<PlainFile, PlainFile>> /\ config = Quick
        /\ spec = [text |-> FALSE, unfit |-> FALSE]
  /\ FilesInit /\ Init

StagesNext ==
  /\ \/ half = "before" /\ FilesNext /\ UNCHANGED vars
     \/ half = "after" /\ Next /\ UNCHANGED filesVars
  /\ UNCHANGED half

StagesSpec == StagesInit /\ [][StagesNext]_<<filesVars, vars, half>>
===============================================================================
