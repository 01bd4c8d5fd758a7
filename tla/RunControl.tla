---------------------------- MODULE RunControl ----------------------------
(***************************************************************************)
(* The execution attempts of one session: client requests arriving on      *)
(* server threads, the background worker each accepted request starts, and *)
(* the rows all of them share (session_runs, run_snapshots, sessions).     *)
(*                                                                         *)
(* A run id r follows one request from its arrival to the end of its       *)
(* worker.  Every call on SessionStore is one step, since the store holds  *)
(* its lock for the whole call and nothing is held between two calls; only *)
(* an event and the snapshot refreshed from it share a step.               *)
(*                                                                         *)
(*   request thread   idle -> [checked -> marked ->] routed -> stamped     *)
(*                    -> begun -> staged -> spawned      (or rejected)     *)
(*   worker thread    spawned -> restored -> working <-> polling, pausing  *)
(*                    working/polling/pausing -> finalizing -> ended       *)
(*                    -> saved -> snapped -> done                          *)
(*   error handler    any of the worker's -> errored -> failing -> done    *)
(*   dead             a thread that is gone without finishing its run      *)
(***************************************************************************)
EXTENDS RunStatus, Naturals

CONSTANTS Run,        \* request / run ids
          PendingId,  \* ids of pending tasks
          NoTask,     \* the empty pending task
          NoSnapshot, \* run_snapshots has no row
          MaxFaults   \* bound on failed storage calls and restarts

ASSUME FaultAssumption == MaxFaults \in Nat
ASSUME TaskAssumption == NoTask \notin PendingId /\ NoSnapshot \notin PendingId \cup {NoTask}

NoRun == "no_run"
ASSUME RunAssumption == NoRun \notin Run

VARIABLES
  row,         \* row[r]: session_runs.status, NoRow before insert_run
  completedAt, \* completedAt[r]: session_runs.completed_at is not empty
  startedAt,   \* startedAt[r]: session_runs.started_at, 0 before it is read
  snap,        \* snap[r]: the pending task in r's run snapshot
  sess,        \* sessions.status
  pc,          \* pc[r]: where r's request thread, then its worker, is
  req,         \* req[r]: the run and pending id a control action names
  restore,     \* restore[r]: TurnRoute.restore_run_id
  task,        \* task[r]: the pending task the turn resumes
  current,     \* current[r]: pending task in RunContext.current_result
  result,      \* result[r]: status and pending task of the turn's result
  clock,       \* the last started_at handed out
  faults       \* storage calls that failed, and restarts

rowVars == <<row, completedAt, startedAt, sess>>
turnVars == <<req, restore, task, current, result>>
vars == <<row, completedAt, startedAt, snap, sess, pc, req, restore, task,
          current, result, clock, faults>>

Tasks == PendingId \cup {NoTask}
RequestPcs == {"checked", "marked", "routed", "stamped", "begun", "staged"}
LoopPcs == {"working", "polling", "pausing"}
ClosingPcs == {"finalizing", "ended", "saved", "snapped", "errored", "failing"}
WorkerPcs == {"spawned", "restored"} \cup LoopPcs \cup ClosingPcs
Pcs == {"idle", "rejected", "done", "dead"} \cup RequestPcs \cup WorkerPcs

NoRequest == [run |-> NoRun, pending |-> NoTask]
NoResult == [status |-> NoRow, pending |-> NoTask]

Init ==
  /\ row = [r \in Run |-> NoRow]
  /\ completedAt = [r \in Run |-> FALSE]
  /\ startedAt = [r \in Run |-> 0]
  /\ snap = [r \in Run |-> NoSnapshot]
  /\ sess = NoRow
  /\ pc = [r \in Run |-> "idle"]
  /\ req = [r \in Run |-> NoRequest]
  /\ restore = [r \in Run |-> NoRun]
  /\ task = [r \in Run |-> NoTask]
  /\ current = [r \in Run |-> NoTask]
  /\ result = [r \in Run |-> NoResult]
  /\ clock = 0
  /\ faults = 0

Goto(r, label) == pc' = [pc EXCEPT ![r] = label]
Fault == faults < MaxFaults /\ faults' = faults + 1
-----------------------------------------------------------------------------
(* The read model. *)

\* Mutant: the sort order of latest_run_for_session is ascending.
IsOldest(q) ==
  /\ row[q] # NoRow
  /\ \A o \in Run : row[o] # NoRow => startedAt[o] >= startedAt[q]

\* RunRepository.latest_run_for_session: ORDER BY started_at DESC LIMIT 1.
IsLatest(q) ==
  /\ row[q] # NoRow
  /\ \A o \in Run : row[o] # NoRow => startedAt[o] <= startedAt[q]
Latest == IF \E q \in Run : IsLatest(q) THEN CHOOSE q \in Run : IsLatest(q) ELSE NoRun
LatestStatus == IF Latest = NoRun THEN NoRow ELSE row[Latest]

\* Mutant: a missing run snapshot is not taken for an empty one.
SessionPendingUnchecked == IF Latest = NoRun THEN NoTask ELSE snap[Latest]

\* The session's pending task: the one in the latest run's snapshot, none when
\* that run has no snapshot yet (the session snapshot itself never holds one).
SessionPending ==
  IF Latest = NoRun THEN NoTask
  ELSE IF snap[Latest] = NoSnapshot THEN NoTask ELSE snap[Latest]

\* The status of the latest run once q's row has been changed to st.
StatusAfter(q, st) == IF Latest = q THEN st ELSE LatestStatus
-----------------------------------------------------------------------------
(* The request thread: RunCommandService. *)

\* A message without a resume payload: SessionRouter.route reads the session;
\* it is a pending reply when the session waits for its user.  With reset_session
\* the message is routed as if there were no session.
RouteMessage(r) ==
  /\ pc[r] = "idle"
  /\ \E reset \in BOOLEAN :
       /\ restore' = [restore EXCEPT ![r] = IF reset THEN NoRun ELSE Latest]
       /\ task' = [task EXCEPT ![r] =
                     IF ~reset /\ LatestStatus = "awaiting_user" THEN SessionPending ELSE NoTask]
  /\ Goto(r, "routed")
  /\ UNCHANGED <<rowVars, snap, req, current, result, clock, faults>>

\* A control action on run q: apply_control_action checks the pending id, when
\* the client sends one, against q's own snapshot.
CheckAction(r, q, pid) ==
  /\ pc[r] = "idle"
  /\ row[q] # NoRow
  /\ pid = NoTask \/ snap[q] = pid
  /\ req' = [req EXCEPT ![r] = [run |-> q, pending |-> pid]]
  /\ Goto(r, "checked")
  /\ UNCHANGED <<rowVars, snap, restore, task, current, result, clock, faults>>

\* Mutant: the status of the named run is not checked.
MarkResumedUnchecked(r) ==
  LET q == req[r].run IN
  /\ pc[r] = "checked"
  /\ row' = [row EXCEPT ![q] = "resumed"]
  /\ completedAt' = [completedAt EXCEPT ![q] = TRUE]
  /\ sess' = StatusAfter(q, "resumed")
  /\ Goto(r, "marked")
  /\ UNCHANGED <<startedAt, snap, turnVars, clock, faults>>

\* resume_run marks the named run resumed, when its status allows it, before
\* anything else is validated.
MarkResumed(r) ==
  LET q == req[r].run IN
  /\ pc[r] = "checked"
  /\ IF CanMarkResumed(row[q])
       THEN /\ row' = [row EXCEPT ![q] = "resumed"]
            /\ completedAt' = [completedAt EXCEPT ![q] = TRUE]
            /\ sess' = StatusAfter(q, "resumed")
       ELSE UNCHANGED <<row, completedAt, sess>>
  /\ Goto(r, "marked")
  /\ UNCHANGED <<startedAt, snap, turnVars, clock, faults>>

\* The router validates the resume payload against the session: there must be
\* a pending task, and it must allow the action.
RouteAction(r) ==
  /\ pc[r] = "marked"
  /\ SessionPending # NoTask
  /\ restore' = [restore EXCEPT ![r] = Latest]
  /\ task' = [task EXCEPT ![r] = SessionPending]
  /\ Goto(r, "routed")
  /\ UNCHANGED <<rowVars, snap, req, current, result, clock, faults>>

\* 422: nothing is pending, or what is pending does not allow the action, or the
\* action comes without the repair, values or message it needs.
RejectAction(r) ==
  /\ pc[r] = "marked"
  /\ Goto(r, "rejected")
  /\ UNCHANGED <<rowVars, snap, turnVars, clock, faults>>

\* begin_run reads the clock before it takes the store's lock ...
ReadClock(r) ==
  /\ pc[r] = "routed"
  /\ clock' = clock + 1
  /\ startedAt' = [startedAt EXCEPT ![r] = clock + 1]
  /\ Goto(r, "stamped")
  /\ UNCHANGED <<row, completedAt, snap, sess, turnVars, faults>>

\* ... and inserts the row, with the session row set to running, under it.
BeginRun(r) ==
  /\ pc[r] = "stamped"
  /\ row' = [row EXCEPT ![r] = "running"]
  /\ sess' = "running"
  /\ Goto(r, "begun")
  /\ UNCHANGED <<completedAt, startedAt, snap, turnVars, clock, faults>>

\* bootstrap_prepared_run saves the staged session; the saved status is the
\* latest run's, whatever the payload says.
StageSession(r) ==
  /\ pc[r] = "begun"
  /\ sess' = LatestStatus
  /\ Goto(r, "staged")
  /\ UNCHANGED <<row, completedAt, startedAt, snap, turnVars, clock, faults>>

\* The first run snapshot carries no pending task; then the worker is started.
Spawn(r) ==
  /\ pc[r] = "staged"
  /\ snap' = [snap EXCEPT ![r] = NoTask]
  /\ Goto(r, "spawned")
  /\ UNCHANGED <<rowVars, turnVars, clock, faults>>

\* A storage call of begin or bootstrap fails: the request gets its error and
\* the row, if it was inserted, stays without a worker.
PrepareFault(r) ==
  /\ pc[r] \in {"stamped", "begun", "staged"}
  /\ Fault
  /\ Goto(r, "dead")
  /\ UNCHANGED <<rowVars, snap, turnVars, clock>>
-----------------------------------------------------------------------------
(* The worker thread: TurnExecutionService.run_prepared and the agent loop. *)

\* A turn that resumes a task loads it again from the snapshot of the run the
\* router saw as the latest; if that snapshot no longer holds a task, the turn
\* goes on with none or, when the snapshot is empty altogether, with the
\* router's.
RestoreContext(r) ==
  /\ pc[r] = "spawned"
  /\ IF task[r] = NoTask
       THEN UNCHANGED task
       ELSE LET found == snap[restore[r]] IN
            \E t \in IF found = NoTask THEN {NoTask, task[r]} ELSE {found} :
              task' = [task EXCEPT ![r] = t]
  /\ Goto(r, "restored")
  /\ UNCHANGED <<rowVars, snap, req, restore, current, result, clock, faults>>

\* The turn's first event.  An event without a result, when it is appended, sets
\* the session row to the latest run's status.  The "resume" event carries the
\* pending task, so the snapshot of the resuming run shows it as pending again
\* while the run works on it.
StartTurn(r) ==
  /\ pc[r] = "restored"
  /\ IF task[r] = NoTask
       THEN UNCHANGED <<snap, current>>
       ELSE /\ current' = [current EXCEPT ![r] = task[r]]
            /\ snap' = [snap EXCEPT ![r] = task[r]]
  /\ sess' = LatestStatus
  /\ Goto(r, "working")
  /\ UNCHANGED <<row, completedAt, startedAt, req, restore, task, result, clock, faults>>

\* The turn's last event carries its result; the snapshot is refreshed from it.
RecordResult(r, next, status, pending) ==
  /\ result' = [result EXCEPT ![r] = [status |-> status, pending |-> pending]]
  /\ current' = [current EXCEPT ![r] = pending]
  /\ snap' = [snap EXCEPT ![r] = pending]
  /\ Goto(r, next)
  /\ UNCHANGED <<row, completedAt, startedAt, req, restore, task, clock, faults>>

\* The session row takes the result's status even when r is not the latest run.
Conclude(r, next, status, pending) ==
  RecordResult(r, next, status, pending) /\ sess' = status

\* A slash command or a triaged question is answered without the agent loop.
IntentResponse(r) ==
  /\ pc[r] = "spawned" /\ task[r] = NoTask
  /\ Conclude(r, "ended", "completed", NoTask)

CompleteTurn(r) == pc[r] = "working" /\ Conclude(r, "finalizing", "completed", NoTask)
FailTurn(r)     == pc[r] = "working" /\ Conclude(r, "finalizing", "failed", NoTask)

\* pending.cancel: the agent drops the task it was resumed with.  The event is
\* named "completed", and for the session row the name wins over the result.
DropTask(r) ==
  /\ pc[r] = "working" /\ req[r].run # NoRun
  /\ RecordResult(r, "finalizing", "cancelled", NoTask)
  /\ sess' = "completed"

\* The validation gate, the repair policy or the model asks the user.
AskUser(r, status, pending) ==
  /\ pc[r] = "working"
  /\ Conclude(r, "finalizing", status, pending)

\* The AFTER_RUN hooks and the final report follow the event with the result.
FinalizeTurn(r) ==
  /\ pc[r] = "finalizing"
  /\ Goto(r, "ended")
  /\ UNCHANGED <<rowVars, snap, turnVars, clock, faults>>

\* An exception in the turn, also one after its last event, becomes a failed
\* result; it has no pending_task entry, so the event that reports it leaves the
\* one in the snapshot alone.
TurnError(r) ==
  /\ pc[r] \in {"spawned", "restored", "finalizing"} \cup LoopPcs
  /\ result' = [result EXCEPT ![r] = [status |-> "failed", pending |-> NoTask]]
  /\ snap' = [snap EXCEPT ![r] = current[r]]
  /\ sess' = "failed"
  /\ Goto(r, "ended")
  /\ UNCHANGED <<row, completedAt, startedAt, req, restore, task, current, clock, faults>>

\* A step of the loop emits events without a result.  Between two steps the loop
\* looks at the control requests ...
FinishStep(r) ==
  /\ pc[r] = "working"
  /\ sess' = LatestStatus
  /\ Goto(r, "polling")
  /\ UNCHANGED <<row, completedAt, startedAt, snap, turnVars, clock, faults>>

\* ... first for a cancellation of the session's latest run ...
PollCancel(r) ==
  /\ pc[r] = "polling"
  /\ IF LatestStatus = "cancel_requested"
       THEN Conclude(r, "finalizing", "cancelled", NoTask)
       ELSE /\ Goto(r, "pausing")
            /\ UNCHANGED <<rowVars, snap, turnVars, clock, faults>>

\* Mutant: the loop polls for cancellations only.
PollPauseSkipped(r) ==
  /\ pc[r] = "pausing"
  /\ Goto(r, "working")
  /\ UNCHANGED <<rowVars, snap, turnVars, clock, faults>>

\* ... then, in a second read, for a pause.
PollPause(r) ==
  /\ pc[r] = "pausing"
  /\ IF LatestStatus = "pause_requested"
       THEN Conclude(r, "finalizing", "paused", NoTask)
       ELSE /\ Goto(r, "working")
            /\ UNCHANGED <<rowVars, snap, turnVars, clock, faults>>

SaveSession(r) ==
  /\ pc[r] = "ended"
  /\ sess' = LatestStatus
  /\ Goto(r, "saved")
  /\ UNCHANGED <<row, completedAt, startedAt, snap, turnVars, clock, faults>>

SaveSnapshot(r) ==
  /\ pc[r] = "saved"
  /\ snap' = [snap EXCEPT ![r] = result[r].pending]
  /\ Goto(r, "snapped")
  /\ UNCHANGED <<rowVars, turnVars, clock, faults>>

\* Mutant: the session row is not synced.
FinishRunUnsynced(r) ==
  /\ pc[r] = "snapped"
  /\ row' = [row EXCEPT ![r] = result[r].status]
  /\ completedAt' = [completedAt EXCEPT ![r] = TRUE]
  /\ Goto(r, "done")
  /\ UNCHANGED <<startedAt, snap, sess, turnVars, clock, faults>>

\* Mutant: completed_at is not written.
FinishRunUnmarked(r) ==
  /\ pc[r] = "snapped"
  /\ row' = [row EXCEPT ![r] = result[r].status]
  /\ sess' = StatusAfter(r, result[r].status)
  /\ Goto(r, "done")
  /\ UNCHANGED <<completedAt, startedAt, snap, turnVars, clock, faults>>

\* Mutant: a request that came too late to be polled keeps its status.
FinishRunKeepsRequest(r) ==
  /\ pc[r] = "snapped"
  /\ row' = IF row[r] \in REQUESTS THEN row ELSE [row EXCEPT ![r] = result[r].status]
  /\ completedAt' = [completedAt EXCEPT ![r] = TRUE]
  /\ sess' = StatusAfter(r, row'[r])
  /\ Goto(r, "done")
  /\ UNCHANGED <<startedAt, snap, turnVars, clock, faults>>

\* finish_run writes the status whatever the row holds, and syncs the session.
FinishRun(r) ==
  /\ pc[r] = "snapped"
  /\ row' = [row EXCEPT ![r] = result[r].status]
  /\ completedAt' = [completedAt EXCEPT ![r] = TRUE]
  /\ sess' = StatusAfter(r, result[r].status)
  /\ Goto(r, "done")
  /\ UNCHANGED <<startedAt, snap, turnVars, clock, faults>>
-----------------------------------------------------------------------------
(* Failures: RunWorker hands any exception to handle_background_error. *)

\* A storage call fails in run_prepared itself, in an intent response, or twice
\* in a turn: once in the agent and again when the failed result is reported.
WorkerFault(r) ==
  /\ pc[r] \in {"spawned", "restored", "finalizing", "ended", "saved", "snapped"} \cup LoopPcs
  /\ Fault
  /\ Goto(r, "errored")
  /\ UNCHANGED <<rowVars, snap, turnVars, clock>>

\* The row update of finish_run commits on its own; the sync after it fails.
FinishFault(r) ==
  /\ pc[r] = "snapped"
  /\ Fault
  /\ row' = [row EXCEPT ![r] = result[r].status]
  /\ completedAt' = [completedAt EXCEPT ![r] = TRUE]
  /\ Goto(r, "errored")
  /\ UNCHANGED <<startedAt, snap, sess, turnVars, clock>>

\* The handler's "failed" event refreshes the snapshot from the last result.
EmitFailed(r) ==
  /\ pc[r] = "errored"
  /\ snap' = [snap EXCEPT ![r] = current[r]]
  /\ sess' = "failed"
  /\ Goto(r, "failing")
  /\ UNCHANGED <<row, completedAt, startedAt, turnVars, clock, faults>>

FinishFailed(r) ==
  /\ pc[r] = "failing"
  /\ row' = [row EXCEPT ![r] = "failed"]
  /\ completedAt' = [completedAt EXCEPT ![r] = TRUE]
  /\ sess' = StatusAfter(r, "failed")
  /\ Goto(r, "done")
  /\ UNCHANGED <<startedAt, snap, turnVars, clock, faults>>

\* The handler itself fails: the exception ends the thread.
HandlerFault(r) ==
  /\ pc[r] \in {"errored", "failing"}
  /\ Fault
  /\ Goto(r, "dead")
  /\ UNCHANGED <<rowVars, snap, turnVars, clock>>

\* The backend restarts: its threads are daemons, and nothing recovers the rows.
Restart ==
  /\ \E r \in Run : pc[r] \in RequestPcs \cup WorkerPcs
  /\ Fault
  /\ pc' = [r \in Run |-> IF pc[r] \in RequestPcs \cup WorkerPcs THEN "dead" ELSE pc[r]]
  /\ UNCHANGED <<rowVars, snap, turnVars, clock>>
-----------------------------------------------------------------------------
(* Pause and cancel requests: SessionStore.request_run_status. *)
\* Mutant: a cancel request stamps completed_at at once.
RequestStatusMarks(q, requested) ==
  /\ CanRequestStatus(row[q], requested)
  /\ row' = [row EXCEPT ![q] = requested]
  /\ completedAt' = [completedAt EXCEPT ![q] = @ \/ requested = "cancel_requested"]
  /\ sess' = StatusAfter(q, requested)
  /\ UNCHANGED <<startedAt, snap, pc, turnVars, clock, faults>>

\* Mutant: a request is granted whatever the run's status.
RequestStatusUnchecked(q, requested) ==
  /\ row[q] # NoRow
  /\ row' = [row EXCEPT ![q] = requested]
  /\ sess' = StatusAfter(q, requested)
  /\ UNCHANGED <<completedAt, startedAt, snap, pc, turnVars, clock, faults>>

RequestStatus(q, requested) ==
  /\ CanRequestStatus(row[q], requested)
  /\ row' = [row EXCEPT ![q] = requested]
  /\ sess' = StatusAfter(q, requested)
  /\ UNCHANGED <<completedAt, startedAt, snap, pc, turnVars, clock, faults>>

Client(r) ==
  \/ RouteMessage(r)
  \/ \E q \in Run, pid \in Tasks : CheckAction(r, q, pid)
  \/ \E requested \in REQUESTS : RequestStatus(r, requested)

Prepare(r) ==
  \/ MarkResumed(r) \/ RouteAction(r) \/ RejectAction(r)
  \/ ReadClock(r) \/ BeginRun(r) \/ StageSession(r) \/ Spawn(r)

Turn(r) ==
  \/ RestoreContext(r) \/ StartTurn(r) \/ IntentResponse(r)
  \/ CompleteTurn(r) \/ FailTurn(r) \/ DropTask(r) \/ TurnError(r)
  \/ \E status \in AWAITING_STATUSES, p \in PendingId : AskUser(r, status, p)
  \/ FinishStep(r) \/ PollCancel(r) \/ PollPause(r) \/ FinalizeTurn(r)

Close(r) ==
  \/ SaveSession(r) \/ SaveSnapshot(r) \/ FinishRun(r)
  \/ EmitFailed(r) \/ FinishFailed(r)

Failure(r) ==
  \/ PrepareFault(r) \/ WorkerFault(r) \/ FinishFault(r) \/ HandlerFault(r)

Next ==
  \/ \E r \in Run : Client(r) \/ Prepare(r) \/ Turn(r) \/ Close(r) \/ Failure(r)
  \/ Restart

Spec == Init /\ [][Next]_vars

\* A started thread keeps running as long as its process does: tool and model
\* calls return.  Clients owe nothing.
Fairness == \A r \in Run : WF_vars(Prepare(r)) /\ WF_vars(Turn(r)) /\ WF_vars(Close(r))
FairSpec == Spec /\ Fairness
-----------------------------------------------------------------------------
(* Properties. *)

TypeOK ==
  /\ row \in [Run -> ALL_RUN_STATUSES \cup {NoRow}]
  /\ completedAt \in [Run -> BOOLEAN]
  /\ startedAt \in [Run -> Nat]
  /\ snap \in [Run -> Tasks \cup {NoSnapshot}]
  /\ sess \in ALL_RUN_STATUSES \cup {NoRow}
  /\ pc \in [Run -> Pcs]
  /\ req \in [Run -> [run : Run \cup {NoRun}, pending : Tasks]]
  /\ restore \in [Run -> Run \cup {NoRun}]
  /\ task \in [Run -> Tasks]
  /\ current \in [Run -> Tasks]
  /\ result \in [Run -> [status : RESULT_STATUSES \cup {NoRow}, pending : Tasks]]
  /\ clock \in Nat
  /\ faults \in 0..MaxFaults

\* However requests, workers and storage failures interleave, a worker that ran
\* to its end leaves its row settled.  The one exception is a cancellation of a
\* run that waits for its user: the request is accepted (CANCELLABLE contains
\* the awaiting statuses) though no worker is left to take it.
StoppedIsSettled ==
  \A r \in Run : pc[r] = "done" =>
    /\ row[r] \notin {"running", "pause_requested"}
    /\ row[r] = "cancel_requested" => result[r].status \in AWAITING_STATUSES

\* completed_at is a promise that the run does no more GIS work: it is set
\* neither by a client's request nor before the worker has left its loop and
\* saved, also when finish_run fails half-way.
CompletedAtMeansStopped ==
  \A r \in Run : completedAt[r] => pc[r] \in {"done", "errored", "failing", "dead"}

\* Once no thread is busy the session row shows the status of the latest run,
\* though requests that start together set it to "running" out of order.
QuietSummaryIsLatest ==
  (\A r \in Run : pc[r] \in {"idle", "rejected", "done"}) => sess = LatestStatus

\* Two turns continue from the same run only when both were routed before
\* either got its row: once a successor is begun, no request is routed to the
\* run it succeeds, even with started_at read before the store's lock is taken.
ContinuedOnce ==
  [][ \A r \in Run :
        pc[r] # "routed" /\ pc'[r] = "routed" /\ restore'[r] # NoRun
          => \A o \in Run \ {r} : restore[o] = restore'[r] => row[o] = NoRow ]_vars

\* A final status is overwritten only by the error handler of the run's own
\* worker, and only by "failed"; with no storage failure, never.
FinalUnlessHandler ==
  [][ \A r \in Run :
        row[r] \in FINAL_STATUSES /\ row'[r] # row[r]
          => pc[r] = "failing" /\ row'[r] = "failed" /\ faults > 0 ]_vars

\* What makes the properties above inductive: a row exists, is active or
\* has completed_at exactly where the thread's position says so, ...
RowFollowsThread ==
  \A r \in Run :
    /\ pc[r] \in {"idle", "rejected", "checked", "marked", "routed", "stamped"}
         => row[r] = NoRow /\ ~completedAt[r]
    /\ pc[r] \in {"begun", "staged", "spawned", "restored", "finalizing", "ended", "saved",
                  "snapped"} \cup LoopPcs
         => row[r] \in {"running"} \cup REQUESTS /\ ~completedAt[r]
    /\ pc[r] \in {"errored", "failing"} => row[r] # NoRow
    /\ pc[r] = "done"
         => /\ completedAt[r]
            /\ \/ row[r] \in COMPLETED_AT_STATUSES
               \/ row[r] = "cancel_requested" /\ result[r].status \in AWAITING_STATUSES
            /\ row[r] \in AWAITING_STATUSES => row[r] = result[r].status

\* ... a control action names a run, a worker that closes its run has a result,
\* the error handler runs only after a fault, and a task to resume sits in a run
\* whose snapshot was written, ...
WorkerState ==
  \A r \in Run :
    /\ pc[r] \in {"checked", "marked"} => req[r].run \in Run
    /\ pc[r] \in {"finalizing", "ended", "saved", "snapped"} => result[r].status \in RESULT_STATUSES
    /\ pc[r] \in {"errored", "failing"} => faults > 0
    /\ task[r] # NoTask => restore[r] \in Run /\ snap[restore[r]] # NoSnapshot

\* ... started_at orders the rows, and a run that continues another one started
\* after it, ...
StartOrder ==
  \A r \in Run :
    /\ startedAt[r] <= clock
    /\ row[r] # NoRow \/ pc[r] = "stamped" => startedAt[r] > 0
    /\ \A o \in Run \ {r} : startedAt[r] > 0 => startedAt[o] # startedAt[r]
    /\ pc[r] \in {"idle", "checked", "marked", "routed"} => startedAt[r] = 0
    /\ restore[r] # NoRun => row[restore[r]] # NoRow
    /\ restore[r] # NoRun /\ startedAt[r] > 0 => startedAt[restore[r]] < startedAt[r]

\* ... and the session row lags behind only while a run is being begun or is
\* between its result and its save, or when a storage call failed.
Behind == {"begun", "finalizing", "ended", "errored", "failing", "dead"}
SummaryFollows ==
  (\A r \in Run : pc[r] \notin Behind) => sess = LatestStatus

IInv == TypeOK /\ RowFollowsThread /\ WorkerState /\ StartOrder /\ SummaryFollows

\* The lifecycle every client may rely on when storage does not fail.
Lifecycle == INSTANCE RunLifecycle WITH status <- row, over <- completedAt
ImplementsLifecycle == Lifecycle!Spec

\* A pause or cancel request on the session's latest run ends its loop, however
\* many steps the model still wants, unless a newer run is begun meanwhile.
LatestRequestTaken ==
  \A r \in Run :
    (row[r] \in REQUESTS /\ Latest = r /\ pc[r] \in LoopPcs)
      ~> (pc[r] \notin LoopPcs \/ Latest # r)

\* run_control.py: "Run-scoped client control action contract."  A worker that
\* stops because it was asked to is the worker of the run that was asked.
RunScopedStop ==
  [][ \A r \in Run :
        /\ pc[r] = "polling" /\ result'[r].status = "cancelled" /\ pc'[r] = "finalizing"
             => row[r] = "cancel_requested"
        /\ pc[r] = "pausing" /\ result'[r].status = "paused" /\ pc'[r] = "finalizing"
             => row[r] = "pause_requested" ]_vars

\* run_commands.py: "Pending task is no longer current."  A request that names a
\* pending task and is routed resumes that very task.
NamedTaskIsResumed ==
  \A r \in Run : pc[r] = "routed" /\ req[r].pending # NoTask => task[r] = req[r].pending

\* run_lifecycle.py lists "paused" among RESUMABLE_RUN_STATUSES: a paused run
\* that is marked resumed has, or is about to get, a run that resumes it.
ResumedHasSuccessor ==
  \A q \in Run : row[q] = "resumed" /\ result[q].status = "paused" =>
    \E r \in Run : req[r].run = q /\ pc[r] # "rejected"
=============================================================================
