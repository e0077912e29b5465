------------------------------- MODULE MCLadder -------------------------------
(* Instances of Ladder for TLC. *)
EXTENDS Ladder

\* A model that reasons at medium unless told otherwise and has an off; one the
\* map gives no off; one whose configured effort is low and steps to its off at
\* once; and one set to the route's own default, which cannot be stepped down.
Dial     == [configured |-> Nothing, default |-> 3, levels |-> 0..4,
             openrouter |-> FALSE, strips |-> FALSE]
NoSwitch == [Dial EXCEPT !.levels = 1..4]
Light    == [Dial EXCEPT !.configured = 2, !.levels = {0, 2, 3}]
Unknown  == [Dial EXCEPT !.configured = Route]

\* A dial that reasons at the floor by itself, on OpenRouter.
AtFloor  == [Dial EXCEPT !.default = 2, !.levels = 0..3, !.openrouter = TRUE,
                         !.strips = TRUE]

\* Every lever, and the runs that lack one whose absence opens another way.
\* Repair, retrieval and the schema are only ever options: a run without one of
\* them does nothing that the run with it does not.  Without a split, a batch of
\* pieces is followed with the fallback and with the schema in turn.
MCConfigurations ==
  {[levers |-> Levers, adapter |-> AtFloor],
   [levers |-> Levers \ {"fallback"}, adapter |-> NoSwitch],
   [levers |-> Levers \ {"retrieval"}, adapter |-> Unknown],
   [levers |-> Levers \ {"split", "repair", "schema"}, adapter |-> Dial],
   [levers |-> Levers \ {"split", "repair", "fallback"}, adapter |-> Dial],
   [levers |-> Levers \ {"split", "slice"}, adapter |-> Light]}

===============================================================================
