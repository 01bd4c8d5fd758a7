----------------------------- MODULE RunStatus -----------------------------
(***************************************************************************)
(* The run lifecycle contract (contracts/run_lifecycle.py): the statuses a *)
(* row of session_runs can carry and the tables that say which requests    *)
(* and which transitions a status admits.  NoRow stands for a run id that  *)
(* has no row yet; the code sees it as the empty status.                   *)
(***************************************************************************)

NoRow == "no_row"

ALL_RUN_STATUSES ==
  { "created", "initializing", "running", "pause_requested", "paused",
    "cancel_requested", "cancelled", "awaiting_user", "awaiting_confirmation",
    "completed", "failed", "resumed" }

ACTIVE_RUN_STATUSES ==
  { "created", "initializing", "running", "pause_requested", "cancel_requested" }

PAUSABLE_RUN_STATUSES ==
  { "created", "initializing", "running", "pause_requested" }

CANCELLABLE_RUN_STATUSES ==
  ACTIVE_RUN_STATUSES \cup { "awaiting_user", "awaiting_confirmation" }

COMPLETED_AT_STATUSES ==
  { "paused", "cancelled", "awaiting_user", "awaiting_confirmation",
    "completed", "failed", "resumed" }

RESUMABLE_RUN_STATUSES == { "paused", "awaiting_user", "awaiting_confirmation" }

AWAITING_STATUSES == { "awaiting_user", "awaiting_confirmation" }

\* What a turn's result can carry to RunService.finish: everything that sets
\* completed_at except "resumed", which only mark_resumed writes.
RESULT_STATUSES == COMPLETED_AT_STATUSES \ { "resumed" }

\* The statuses from which nothing in the contract leads anywhere.
FINAL_STATUSES == { "completed", "failed", "cancelled", "resumed" }

REQUESTS == { "pause_requested", "cancel_requested" }

CanRequestStatus(current, requested) ==
  \/ requested = "pause_requested"  /\ current \in PAUSABLE_RUN_STATUSES
  \/ requested = "cancel_requested" /\ current \in CANCELLABLE_RUN_STATUSES

CanMarkResumed(current) == current \in RESUMABLE_RUN_STATUSES
=============================================================================
