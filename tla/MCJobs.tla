-------------------------------- MODULE MCJobs --------------------------------
(* Small instances of Jobs for TLC. *)
EXTENDS Jobs

Config(ci, incremental, drawn, heads, retargets, reopens, commands) ==
  [ci |-> ci, incremental |-> incremental, overview |-> drawn, gate |-> FALSE, bad |-> {},
   heads |-> heads, retargets |-> retargets, reopens |-> reopens, commands |-> commands]

\* Every setting with an event's job after another; two heads with a command's
\* job beside them; two retargets, the second while the first is reviewed; the
\* pipelines of GitLab and of Azure.
MCConfigs ==
  {Config("actions", i, o, 3, 1, 1, 0) : i \in {"auto", "on", "off"}, o \in BOOLEAN}
  \cup {Config("actions", i, TRUE, 2, 1, 0, 1) : i \in {"auto", "on"}}
  \cup {Config("actions", "auto", FALSE, 2, 2, 0, 0)}
  \cup {[Config("gitlab", i, FALSE, 3, 1, 0, 0) EXCEPT !.gate = TRUE] : i \in {"auto", "off"}}
  \cup {Config("azure", "on", FALSE, 2, 1, 0, 0)}

\* The merge gate, with a finding that blocks in the first push.
MCGate == {[Config("actions", "auto", FALSE, 2, 0, 0, 0) EXCEPT !.gate = TRUE, !.bad = {1}]}

===============================================================================
