------------------------------- MODULE LensCall -------------------------------
(***************************************************************************)
(* What one (batch, lens) review call promises its caller, the contract    *)
(* between the fan-out (engine/engine.py) and the recovery ladder          *)
(* (engine/recovery.py): a call is tried once, a failure on the provider   *)
(* is tried once more, and nothing is ever tried after that.  FanOut       *)
(* implements it for every call it schedules, Ladder for the one call it   *)
(* works through.                                                          *)
(***************************************************************************)

\* The error half of a _LensOutcome: None; a _RetryableReason (a _PayloadReason
\* and a _PiecesReason are subclasses of it); or any other string.
Errors == {"answered", "retryable", "plain"}

VARIABLES stage,   \* where the call is
          error    \* the error it last reported

vars == <<stage, error>>

Stages == {"waiting", "running", "returned", "rerunning", "settled"}

Init == stage = "waiting" /\ error = "plain"

\* The task is picked up and asks the provider.
Begin == stage = "waiting" /\ stage' = "running" /\ UNCHANGED error

\* A ceiling is reached before the task is picked up: it returns unasked.
Skip == stage = "waiting" /\ stage' = "returned" /\ error' = "plain"

\* The task returns its outcome.
Return ==
  /\ stage = "running"
  /\ stage' = "returned"
  /\ error' \in Errors

\* The rescue wave asks again, and only what failed on the provider.
Rerun ==
  /\ stage = "returned"
  /\ error = "retryable"
  /\ stage' = "rerunning"
  /\ UNCHANGED error

\* The second outcome replaces the first and is final.
SettleRerun ==
  /\ stage = "rerunning"
  /\ stage' = "settled"
  /\ error' \in Errors

\* A rescue that a ceiling stops is settled without being asked.
SkipRerun ==
  /\ stage = "returned"
  /\ error = "retryable"
  /\ stage' = "settled"
  /\ error' = "plain"

\* Anything but a failure on the provider settles as it is.
Settle ==
  /\ stage = "returned"
  /\ error # "retryable"
  /\ stage' = "settled"
  /\ UNCHANGED error

Next == Begin \/ Skip \/ Return \/ Rerun \/ SettleRerun \/ SkipRerun \/ Settle

Spec == Init /\ [][Next]_vars

===============================================================================
