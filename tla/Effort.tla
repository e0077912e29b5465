-------------------------------- MODULE Effort --------------------------------
(***************************************************************************)
(* The reasoning effort a call cut off while thinking is asked again with:  *)
(* one step below what it was (lower_reasoning_effort), then off            *)
(* (disable_reasoning), each only if the model can take it.                 *)
(*                                                                         *)
(* Abstracted: whether it goes as a flat parameter or in OpenRouter's       *)
(* nested object, which the route alone decides.                            *)
(***************************************************************************)
EXTENDS Integers

\* The ladder: none, minimal, low, medium, high, xhigh.
Efforts == 0..5
Off     == 0
Floor   == 2

\* Nothing configured, known or to be sent; and `default`, which leaves the
\* effort to the route and names no position on the ladder.
Nothing == -1
Route   == -2

\* levels: those the map declares, or all of them when it declares none;
\* strips: the map leaves the parameter out, so that a request loses it.
Adapters ==
  [configured : Efforts \cup {Nothing, Route}, default : Efforts \cup {Nothing},
   levels : SUBSET Efforts, openrouter : BOOLEAN, strips : BOOLEAN]

Below(effort, levels) == {level \in levels : level < effort}

\* _one_level_lower: the nearest level below that the model accepts.
OneLevelLower(effort, levels) ==
  IF Below(effort, levels) = {} THEN Nothing
  ELSE CHOOSE level \in Below(effort, levels) :
         \A other \in Below(effort, levels) : other <= level

\* Mutant: what the model reasons at by itself is not looked at.
SteppedDownToFloor(a) ==
  IF a.configured # Nothing THEN OneLevelLower(a.configured, a.levels)
  ELSE IF Floor \in a.levels THEN Floor ELSE OneLevelLower(Floor, a.levels)

\* _step_down: with nothing configured, below the model's default where that is
\* known, and at the floor or under it where it is not.
SteppedDown(a) ==
  IF a.configured # Nothing THEN OneLevelLower(a.configured, a.levels)
  ELSE IF Floor \in a.levels /\ (a.default = Nothing \/ Floor < a.default) THEN Floor
  ELSE OneLevelLower(IF a.default = Nothing THEN Floor ELSE a.default, a.levels)

\* _switch_off: unless it is off already, or the model has no off.
SwitchedOff(a) ==
  IF Off \in {a.configured, IF a.configured = Nothing THEN a.default ELSE Nothing}
     \/ Off \notin a.levels
  THEN Nothing ELSE Off

\* _effort_override: a parameter nobody configured is not sent where the route
\* would strip it and re-send the request that failed. One that was configured
\* keeps its shape, stripped or not.
Override(a, target) ==
  IF a.configured = Nothing /\ a.strips /\ ~a.openrouter THEN Nothing ELSE target

LowerEffort(a)      == Override(a, SteppedDown(a))
DisableReasoning(a) == Override(a, SwitchedOff(a))

\* What the failed request reasoned at, as far as it is known.
Spent(a) == IF a.configured = Nothing THEN a.default ELSE a.configured

\* Each retry asks for less than the request before it, at a level the model
\* accepts, and is never one that the route would make that request again.
GoesDown(a) ==
  LET lower == LowerEffort(a)
      off   == DisableReasoning(a)
  IN /\ \A effort \in {lower, off} \ {Nothing} :
          /\ effort \in a.levels
          /\ Spent(a) \in Efforts => effort < Spent(a)
          /\ a.configured = Nothing => a.openrouter \/ ~a.strips
     /\ Nothing \notin {lower, off} /\ off # lower => off < lower

=============================================================================
