---------------------------- MODULE MCRetrieval -----------------------------
(* Three findings on two files, a third file and a symbol to ask for. *)
EXTENDS Retrieval, TLC

CONSTANTS a, b, c, S, f1, f2, f3

MCPathOrder == <<a, b, c>>
MCPathOf == (f1 :> a) @@ (f2 :> a) @@ (f3 :> b)
MCNeeds == {<<c>>, <<S, b>>, <<b, c, S>>}
\* The fixed parts may alone exceed the budget.
MCFixedCosts == {2, 17}
MCPatchCost == (a :> 5) @@ (b :> 3) @@ (c :> 2)
\* All short; the flagged file fills the budget; one that cannot be fetched.
MCTexts == {(a :> 1) @@ (b :> 1) @@ (c :> 2) @@ (S :> 0),
            (a :> 9) @@ (b :> 2) @@ (c :> 2) @@ (S :> 0),
            (a :> 2) @@ (b :> 4) @@ (c :> 0) @@ (S :> 0)}
MCDefinitions == {(S :> <<>>), (S :> <<c, a>>), (S :> <<b, a, c>>)}
=============================================================================
