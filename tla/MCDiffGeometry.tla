--------------------------- MODULE MCDiffGeometry ---------------------------
(* One file of at most five script lines, served with no or one line of     *)
(* context.  Four tokens buy a line, so the budgets give a pad of 0, 1, 2. *)
EXTENDS DiffGeometry

MCContexts == {0, 1}
MCBudgets == {3, 4, 9}
\* No definition; a function of two lines; a class around a method that
\* closes early; a malformed range.
MCRanges == {{}, {<<1, 3>>}, {<<0, 5>>, <<1, 2>>}, {<<2, 1>>}}
MCDrifts == {-1, 0, 1}
=============================================================================
