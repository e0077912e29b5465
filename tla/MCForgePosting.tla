---------------------------- MODULE MCForgePosting ----------------------------
(* Small instances of ForgePosting for TLC. *)
EXTENDS ForgePosting

\* Two findings in a file each.
MCFindings == {"f", "g"}
MCFileOf == [x \in MCFindings |-> IF x = "f" THEN "a" ELSE "b"]

\* One finding over three runs, or three heads; two findings over two of both.
Sizes(h) ==
  CASE h = "gitlab" -> {<<{"f"}, 2, 3>>, <<{"f"}, 3, 2>>, <<{"f", "g"}, 2, 2>>}
    [] h = "gitea" -> {<<{"f"}, 3, 3>>, <<{"f", "g"}, 2, 2>>}
    [] h = "azure" -> {<<{"f"}, 2, 3>>, <<{"f"}, 3, 2>>}
MCSetups ==
  UNION {{[forge |-> h, findings |-> z[1], heads |-> z[2], runs |-> z[3]] : z \in Sizes(h)} :
           h \in {"gitlab", "gitea", "azure"}}

===============================================================================
