------------------------------- MODULE MCPosting -------------------------------
(* Instances of Posting for TLC. *)
EXTENDS Posting, TLC

Pull(heads, runCount, overlap, lossless) ==
  [heads |-> heads, runs |-> runCount, overlap |-> overlap, lossless |-> lossless]

\* One run after another; and, shorter, a command's run beside the event's.
MCSetups == {Pull(2, 3, FALSE, TRUE), Pull(3, 2, FALSE, FALSE), Pull(2, 2, TRUE, TRUE)}

Symmetric == Permutations(Findings) \cup Permutations(Runners)

===============================================================================
