---------------------------- MODULE MCProviderCall ----------------------------
(* Instances of ProviderCall for TLC. *)
EXTENDS ProviderCall, TLC

Setup(width, kind, primary, fallback, sent, hasFallback) ==
  [width |-> width, kind |-> kind, params |-> sent,
   route |-> ("primary" :> primary) @@ ("fallback" :> fallback),
   hasFallback |-> hasFallback]

AllLenses == [c \in Completions |-> "lens"]

\* The other call is no lens.
WithOne(kind) ==
  LET lens == CHOOSE c \in Completions : TRUE
  IN [c \in Completions |-> IF c = lens THEN "lens" ELSE kind]

\* Calls one at a time, on every route; side by side; and side by side with a
\* fallback, beside a call of each other kind.
MCSetups ==
  {Setup(1, AllLenses, route, "unknown", Params, FALSE) : route \in Routes}
    \cup {Setup(2, AllLenses, route, "unknown", Params, FALSE) :
            route \in {"unknown", "tools"}}
    \cup {Setup(2, WithOne(kind), "unknown", "unknown", {}, TRUE) :
            kind \in {"other", "escalation"}}

===============================================================================
