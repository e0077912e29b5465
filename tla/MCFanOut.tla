------------------------------- MODULE MCFanOut -------------------------------
(* Instances of FanOut for TLC. *)
EXTENDS FanOut

\* The outcomes that change what happens next: an answer, a failure on the
\* provider that salvaged something, a failure asking again cannot help.
MCTaskOutcomes ==
  {[error |-> "answered", findings |-> Findings],
   [error |-> "retryable", findings |-> Findings],
   [error |-> "plain", findings |-> {}]}

===============================================================================
