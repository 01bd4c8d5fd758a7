--------------------------- MODULE RunLifecycle ---------------------------
(***************************************************************************)
(* What the run lifecycle promises a client, with no worker, request       *)
(* thread or session in sight: one status and one completed_at mark per    *)
(* run.  A run is begun once, may be asked to pause or to cancel, stops    *)
(* once with a result, and a stopped run that left something to resume may *)
(* be handed over to a successor.  RunControl is shown to implement it     *)
(* when no storage call fails.                                             *)
(***************************************************************************)
EXTENDS RunStatus

CONSTANT Run          \* the run ids

VARIABLES status,     \* status[r]: the run's status, NoRow before it is begun
          over        \* over[r]: the run has its completed_at mark

vars == <<status, over>>

Init ==
  /\ status = [r \in Run |-> NoRow]
  /\ over = [r \in Run |-> FALSE]

Begin(r) ==
  /\ status[r] = NoRow
  /\ status' = [status EXCEPT ![r] = "running"]
  /\ UNCHANGED over

\* A pause or cancel request changes the status and nothing else: a run that
\* waits for its user keeps its completed_at mark while it is being cancelled.
Request(r, requested) ==
  /\ CanRequestStatus(status[r], requested)
  /\ status' = [status EXCEPT ![r] = requested]
  /\ UNCHANGED over

Stop(r, result) ==
  /\ status[r] \in ACTIVE_RUN_STATUSES
  /\ ~over[r]
  /\ status' = [status EXCEPT ![r] = result]
  /\ over' = [over EXCEPT ![r] = TRUE]

HandOver(r) ==
  /\ CanMarkResumed(status[r])
  /\ status' = [status EXCEPT ![r] = "resumed"]
  /\ over' = [over EXCEPT ![r] = TRUE]

Next ==
  \E r \in Run :
    \/ Begin(r)
    \/ \E requested \in REQUESTS : Request(r, requested)
    \/ \E result \in RESULT_STATUSES : Stop(r, result)
    \/ HandOver(r)

Spec == Init /\ [][Next]_vars
-----------------------------------------------------------------------------
TypeOK ==
  /\ status \in [Run -> ALL_RUN_STATUSES \cup {NoRow}]
  /\ over \in [Run -> BOOLEAN]

\* completed_at and the status agree: a run that has not stopped is either not
\* begun or active, and a stopped one is active again only as the cancellation
\* of a run that waits for its user, which no worker will ever settle.
MarkAgrees ==
  \A r \in Run :
    /\ ~over[r] => status[r] \in {NoRow, "running", "pause_requested", "cancel_requested"}
    /\ over[r]  => status[r] \in COMPLETED_AT_STATUSES \cup {"cancel_requested"}

\* Completed, failed, cancelled and resumed runs never change status again, and
\* no run loses its completed_at mark.
FinalIsFinal ==
  [][ \A r \in Run : /\ status[r] \in FINAL_STATUSES => status'[r] = status[r]
                     /\ over[r] => over'[r] ]_vars

\* No step returns a run to "running", and a requested cancellation is never
\* downgraded to a requested pause.
NoStepBack ==
  [][ \A r \in Run :
        /\ status[r] # NoRow /\ status'[r] = "running" => status[r] = "running"
        /\ status[r] = "cancel_requested" => status'[r] # "pause_requested" ]_vars
=============================================================================
