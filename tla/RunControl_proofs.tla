------------------------- MODULE RunControl_proofs -------------------------
(***************************************************************************)
(* Proofs about RunControl for any sets of runs and pending ids and any    *)
(* number of storage failures and restarts.                                *)
(***************************************************************************)
EXTENDS RunControl, TLAPS

\* The tables of run_lifecycle.py, as facts: what can be requested is not
\* final, a result is never an active status, and no status is NoRow.
LEMMA StatusTables ==
  /\ RESULT_STATUSES \subseteq COMPLETED_AT_STATUSES
  /\ COMPLETED_AT_STATUSES \subseteq ALL_RUN_STATUSES
  /\ RESUMABLE_RUN_STATUSES \subseteq COMPLETED_AT_STATUSES
  /\ AWAITING_STATUSES \subseteq RESULT_STATUSES
  /\ REQUESTS \subseteq ACTIVE_RUN_STATUSES
  /\ ACTIVE_RUN_STATUSES \subseteq ALL_RUN_STATUSES
  /\ ACTIVE_RUN_STATUSES \cap COMPLETED_AT_STATUSES = {}
  /\ FINAL_STATUSES \cap (CANCELLABLE_RUN_STATUSES \cup RESUMABLE_RUN_STATUSES) = {}
  /\ NoRow \notin ALL_RUN_STATUSES
  /\ "running" \in ACTIVE_RUN_STATUSES /\ "running" \notin REQUESTS
  /\ "resumed" \in COMPLETED_AT_STATUSES /\ "resumed" \notin AWAITING_STATUSES
  /\ {"completed", "failed", "cancelled", "paused"} \subseteq RESULT_STATUSES \ AWAITING_STATUSES
  BY DEF ACTIVE_RUN_STATUSES, CANCELLABLE_RUN_STATUSES, REQUESTS,
         COMPLETED_AT_STATUSES, AWAITING_STATUSES, RESULT_STATUSES, ALL_RUN_STATUSES,
         RESUMABLE_RUN_STATUSES, FINAL_STATUSES, NoRow

\* Who may be asked what: an active run anything, a run that waits for its user
\* only to be cancelled.
LEMMA RequestGuard ==
  ASSUME NEW status, NEW requested \in REQUESTS, CanRequestStatus(status, requested)
  PROVE  /\ status \in ACTIVE_RUN_STATUSES \cup AWAITING_STATUSES
         /\ status \in CANCELLABLE_RUN_STATUSES
         /\ status \in AWAITING_STATUSES \cup {"cancel_requested"}
              => requested = "cancel_requested"
  BY DEF CanRequestStatus, REQUESTS, PAUSABLE_RUN_STATUSES, CANCELLABLE_RUN_STATUSES,
         ACTIVE_RUN_STATUSES, AWAITING_STATUSES

\* The latest run of the session is a run with a row, or there is none.
LEMMA LatestIsRun == Latest \in Run \cup {NoRun}
  BY DEF Latest

\* What the read model answers for the session: a status, and a pending task
\* that only a run whose snapshot was written can hold.
LEMMA ReadModelTypes ==
  ASSUME TypeOK
  PROVE  /\ LatestStatus \in ALL_RUN_STATUSES \cup {NoRow}
         /\ SessionPending \in Tasks
         /\ SessionPending # NoTask => Latest \in Run /\ snap[Latest] # NoSnapshot
         /\ \A q \in Run \cup {NoRun}, st \in ALL_RUN_STATUSES :
              StatusAfter(q, st) \in ALL_RUN_STATUSES \cup {NoRow}
<1>1. LatestStatus \in ALL_RUN_STATUSES \cup {NoRow}
      BY LatestIsRun DEF LatestStatus, TypeOK
<1>2. /\ SessionPending \in Tasks
      /\ SessionPending # NoTask => Latest \in Run /\ snap[Latest] # NoSnapshot
      BY LatestIsRun DEF SessionPending, TypeOK, Tasks
<1> QED BY <1>1, <1>2 DEF StatusAfter

\* A recorded result, for whichever outcome of the turn.
LEMMA RecordType ==
  ASSUME TypeOK, NEW r \in Run, NEW status \in RESULT_STATUSES, NEW pending \in Tasks,
         NEW next \in {"finalizing", "ended"}, RecordResult(r, next, status, pending),
         sess' \in RESULT_STATUSES
  PROVE  TypeOK'
  BY StatusTables DEF TypeOK, RecordResult, Goto, Pcs, WorkerPcs, ClosingPcs, Tasks

\* No step leaves the types, the requests of clients among them.
LEMMA TypeStep ==
  ASSUME IInv, [Next]_vars
  PROVE  TypeOK'
<1> USE DEF IInv, TypeOK
<1>1. ASSUME NEW r \in Run, RouteMessage(r) PROVE TypeOK'
  <2>1. /\ restore' \in [Run -> Run \cup {NoRun}]
        /\ task' \in [Run -> Tasks]
        BY <1>1, ReadModelTypes, LatestIsRun DEF RouteMessage, Tasks
  <2> QED BY <1>1, <2>1 DEF RouteMessage, Goto, rowVars, Pcs, RequestPcs
<1>2. ASSUME NEW r \in Run, NEW q \in Run, NEW pid \in Tasks, CheckAction(r, q, pid)
      PROVE  TypeOK'
      BY <1>2 DEF CheckAction, Goto, rowVars, Pcs, RequestPcs
<1>3. ASSUME NEW r \in Run, NEW requested \in REQUESTS, RequestStatus(r, requested)
      PROVE  TypeOK'
      BY <1>3, StatusTables, ReadModelTypes DEF RequestStatus, turnVars
<1>4. ASSUME NEW r \in Run, MarkResumed(r) PROVE TypeOK'
  <2>1. req[r].run \in Run \cup {NoRun}
        OBVIOUS
  <2>2. "resumed" \in ALL_RUN_STATUSES
        BY StatusTables
  <2>3. StatusAfter(req[r].run, "resumed") \in ALL_RUN_STATUSES \cup {NoRow}
        BY <2>1, <2>2, ReadModelTypes
  <2>4. /\ row' \in [Run -> ALL_RUN_STATUSES \cup {NoRow}]
        /\ completedAt' \in [Run -> BOOLEAN]
        BY <1>4, <2>2 DEF MarkResumed
  <2>5. sess' \in ALL_RUN_STATUSES \cup {NoRow}
        BY <1>4, <2>3 DEF MarkResumed
  <2> QED
      BY <1>4, <2>4, <2>5 DEF MarkResumed, Goto, turnVars, Pcs, RequestPcs
<1>5. ASSUME NEW r \in Run, RouteAction(r) PROVE TypeOK'
      BY <1>5, ReadModelTypes, LatestIsRun
         DEF RouteAction, Goto, rowVars, Pcs, RequestPcs
<1>6. ASSUME NEW r \in Run, RejectAction(r) PROVE TypeOK'
      BY <1>6 DEF RejectAction, Goto, rowVars, turnVars, Pcs
<1>7. ASSUME NEW r \in Run, ReadClock(r) PROVE TypeOK'
      BY <1>7 DEF ReadClock, Goto, turnVars, Pcs, RequestPcs
<1>8. ASSUME NEW r \in Run, BeginRun(r) PROVE TypeOK'
      BY <1>8, StatusTables DEF BeginRun, Goto, turnVars, Pcs, RequestPcs
<1>9. ASSUME NEW r \in Run, StageSession(r) PROVE TypeOK'
      BY <1>9, ReadModelTypes DEF StageSession, Goto, turnVars, Pcs, RequestPcs
<1>10. ASSUME NEW r \in Run, Spawn(r) PROVE TypeOK'
      BY <1>10 DEF Spawn, Goto, rowVars, turnVars, Pcs, WorkerPcs, Tasks
<1>11. ASSUME NEW r \in Run, RestoreContext(r) PROVE TypeOK'
      BY <1>11 DEF RestoreContext, WorkerState, Goto, rowVars, Pcs, WorkerPcs, Tasks
<1>12. ASSUME NEW r \in Run, StartTurn(r) PROVE TypeOK'
      BY <1>12, ReadModelTypes DEF StartTurn, Goto, Pcs, WorkerPcs, LoopPcs
<1>13. ASSUME NEW r \in Run, IntentResponse(r) PROVE TypeOK'
      BY <1>13, RecordType, StatusTables DEF IntentResponse, Conclude, Tasks
<1>14. ASSUME NEW r \in Run, CompleteTurn(r) PROVE TypeOK'
      BY <1>14, RecordType, StatusTables DEF CompleteTurn, Conclude, Tasks
<1>15. ASSUME NEW r \in Run, FailTurn(r) PROVE TypeOK'
      BY <1>15, RecordType, StatusTables DEF FailTurn, Conclude, Tasks
<1>16. ASSUME NEW r \in Run, DropTask(r) PROVE TypeOK'
      BY <1>16, RecordType, StatusTables DEF DropTask, Tasks
<1>17. ASSUME NEW r \in Run, TurnError(r) PROVE TypeOK'
      BY <1>17, StatusTables
         DEF TurnError, Goto, rowVars, Pcs, WorkerPcs, ClosingPcs, Tasks
<1>18. ASSUME NEW r \in Run, NEW status \in AWAITING_STATUSES, NEW p \in PendingId, AskUser(r, status, p)
      PROVE  TypeOK'
      BY <1>18, RecordType, StatusTables DEF AskUser, Conclude, Tasks
<1>19. ASSUME NEW r \in Run, FinishStep(r) PROVE TypeOK'
      BY <1>19, ReadModelTypes DEF FinishStep, Goto, turnVars, Pcs, WorkerPcs, LoopPcs
<1>20. ASSUME NEW r \in Run, PollCancel(r) PROVE TypeOK'
      BY <1>20, RecordType, StatusTables
         DEF PollCancel, Conclude, Goto, rowVars, turnVars, Pcs, WorkerPcs, LoopPcs, Tasks
<1>21. ASSUME NEW r \in Run, PollPause(r) PROVE TypeOK'
      BY <1>21, RecordType, StatusTables
         DEF PollPause, Conclude, Goto, rowVars, turnVars, Pcs, WorkerPcs, LoopPcs, Tasks
<1>22. ASSUME NEW r \in Run, FinalizeTurn(r) PROVE TypeOK'
      BY <1>22 DEF FinalizeTurn, Goto, rowVars, turnVars, Pcs, WorkerPcs, ClosingPcs
<1>23. ASSUME NEW r \in Run, SaveSession(r) PROVE TypeOK'
      BY <1>23, ReadModelTypes
         DEF SaveSession, Goto, turnVars, Pcs, WorkerPcs, ClosingPcs
<1>24. ASSUME NEW r \in Run, SaveSnapshot(r) PROVE TypeOK'
      BY <1>24 DEF SaveSnapshot, Goto, rowVars, turnVars, Pcs, WorkerPcs, ClosingPcs
<1>25. ASSUME NEW r \in Run, FinishRun(r) PROVE TypeOK'
      BY <1>25, StatusTables, ReadModelTypes
         DEF FinishRun, WorkerState, Goto, turnVars, Pcs
<1>26. ASSUME NEW r \in Run, EmitFailed(r) PROVE TypeOK'
      BY <1>26, StatusTables DEF EmitFailed, Goto, turnVars, Pcs, WorkerPcs, ClosingPcs
<1>27. ASSUME NEW r \in Run, FinishFailed(r) PROVE TypeOK'
      BY <1>27, StatusTables, ReadModelTypes DEF FinishFailed, Goto, turnVars, Pcs
<1>28. ASSUME NEW r \in Run, PrepareFault(r) PROVE TypeOK'
      BY <1>28, FaultAssumption
         DEF PrepareFault, Fault, Goto, rowVars, turnVars, Pcs
<1>29. ASSUME NEW r \in Run, WorkerFault(r) PROVE TypeOK'
      BY <1>29, FaultAssumption
         DEF WorkerFault, Fault, Goto, rowVars, turnVars, Pcs, WorkerPcs,
             ClosingPcs
<1>30. ASSUME NEW r \in Run, FinishFault(r) PROVE TypeOK'
      BY <1>30, FaultAssumption, StatusTables
         DEF FinishFault, WorkerState, Fault, Goto, turnVars, Pcs, WorkerPcs,
             ClosingPcs
<1>31. ASSUME NEW r \in Run, HandlerFault(r) PROVE TypeOK'
      BY <1>31, FaultAssumption
         DEF HandlerFault, Fault, Goto, rowVars, turnVars, Pcs
<1>32. CASE Restart
      BY <1>32, FaultAssumption DEF Restart, Fault, rowVars, turnVars, Pcs
<1>33. CASE UNCHANGED vars
      BY <1>33 DEF vars
<1> QED
      BY <1>1, <1>2, <1>3, <1>4, <1>5, <1>6, <1>7, <1>8, <1>9, <1>10,
         <1>11, <1>12, <1>13, <1>14, <1>15, <1>16, <1>17, <1>18, <1>19, <1>20,
         <1>21, <1>22, <1>23, <1>24, <1>25, <1>26, <1>27, <1>28, <1>29, <1>30,
         <1>31, <1>32, <1>33
         DEF Next, Client, Prepare, Turn, Close, Failure

\* Rows and completed_at follow the threads: no step of one thread, and no
\* request of a client, takes a run's row out of the class its position allows.
LEMMA RowStep ==
  ASSUME IInv, [Next]_vars
  PROVE  RowFollowsThread'
<1> USE DEF IInv, TypeOK, RowFollowsThread, LoopPcs
<1>1. ASSUME NEW r \in Run, RouteMessage(r) PROVE RowFollowsThread'
      BY <1>1 DEF RouteMessage, Goto, rowVars
<1>2. ASSUME NEW r \in Run, NEW q \in Run, NEW pid \in Tasks, CheckAction(r, q, pid)
      PROVE  RowFollowsThread'
      BY <1>2 DEF CheckAction, Goto, rowVars
<1>3. ASSUME NEW r \in Run, NEW requested \in REQUESTS, RequestStatus(r, requested)
      PROVE  RowFollowsThread'
  <2>1. /\ row[r] \in ACTIVE_RUN_STATUSES \cup AWAITING_STATUSES
        /\ row[r] \in AWAITING_STATUSES \cup {"cancel_requested"}
             => requested = "cancel_requested"
        BY <1>3, RequestGuard DEF RequestStatus
  <2> QED
      BY <1>3, <2>1, StatusTables
         DEF RequestStatus, turnVars, REQUESTS, NoRow
<1>4. ASSUME NEW r \in Run, MarkResumed(r) PROVE RowFollowsThread'
  <2>1. CASE ~CanMarkResumed(row[req[r].run])
        BY <1>4, <2>1 DEF MarkResumed, Goto, turnVars
  <2>2. CASE CanMarkResumed(row[req[r].run])
    <3>1. row[req[r].run] \notin {NoRow, "running"} \cup REQUESTS
          BY <2>2, StatusTables DEF CanMarkResumed
    <3>2. row' = [row EXCEPT ![req[r].run] = "resumed"]
          BY <1>4, <2>2 DEF MarkResumed
    <3> QED
        BY <1>4, <2>2, <3>1, <3>2, StatusTables DEF MarkResumed, Goto, turnVars
  <2> QED BY <2>1, <2>2
<1>5. ASSUME NEW r \in Run, RouteAction(r) PROVE RowFollowsThread'
      BY <1>5 DEF RouteAction, Goto, rowVars
<1>6. ASSUME NEW r \in Run, RejectAction(r) PROVE RowFollowsThread'
      BY <1>6 DEF RejectAction, Goto, rowVars, turnVars
<1>7. ASSUME NEW r \in Run, ReadClock(r) PROVE RowFollowsThread'
      BY <1>7 DEF ReadClock, Goto, turnVars
<1>8. ASSUME NEW r \in Run, BeginRun(r) PROVE RowFollowsThread'
      BY <1>8 DEF BeginRun, Goto, turnVars
<1>9. ASSUME NEW r \in Run, StageSession(r) PROVE RowFollowsThread'
      BY <1>9 DEF StageSession, Goto, turnVars
<1>10. ASSUME NEW r \in Run, Spawn(r) PROVE RowFollowsThread'
      BY <1>10 DEF Spawn, Goto, rowVars, turnVars
<1>11. ASSUME NEW r \in Run, RestoreContext(r) PROVE RowFollowsThread'
      BY <1>11 DEF RestoreContext, Goto, rowVars
<1>12. ASSUME NEW r \in Run, StartTurn(r) PROVE RowFollowsThread'
      BY <1>12 DEF StartTurn, Goto, rowVars
<1>13. ASSUME NEW r \in Run, IntentResponse(r) PROVE RowFollowsThread'
      BY <1>13 DEF IntentResponse, Conclude, RecordResult, Goto, rowVars
<1>14. ASSUME NEW r \in Run, CompleteTurn(r) PROVE RowFollowsThread'
      BY <1>14 DEF CompleteTurn, Conclude, RecordResult, Goto, rowVars
<1>15. ASSUME NEW r \in Run, FailTurn(r) PROVE RowFollowsThread'
      BY <1>15 DEF FailTurn, Conclude, RecordResult, Goto, rowVars
<1>16. ASSUME NEW r \in Run, DropTask(r) PROVE RowFollowsThread'
      BY <1>16 DEF DropTask, RecordResult, Goto, rowVars
<1>17. ASSUME NEW r \in Run, TurnError(r) PROVE RowFollowsThread'
      BY <1>17 DEF TurnError, Goto, rowVars
<1>18. ASSUME NEW r \in Run, NEW status \in AWAITING_STATUSES, NEW p \in PendingId, AskUser(r, status, p)
      PROVE  RowFollowsThread'
      BY <1>18 DEF AskUser, Conclude, RecordResult, Goto, rowVars
<1>19. ASSUME NEW r \in Run, FinishStep(r) PROVE RowFollowsThread'
      BY <1>19 DEF FinishStep, Goto, rowVars, turnVars
<1>20. ASSUME NEW r \in Run, PollCancel(r) PROVE RowFollowsThread'
      BY <1>20 DEF PollCancel, Conclude, RecordResult, Goto, rowVars, turnVars
<1>21. ASSUME NEW r \in Run, PollPause(r) PROVE RowFollowsThread'
      BY <1>21 DEF PollPause, Conclude, RecordResult, Goto, rowVars, turnVars
<1>22. ASSUME NEW r \in Run, FinalizeTurn(r) PROVE RowFollowsThread'
      BY <1>22 DEF FinalizeTurn, Goto, rowVars, turnVars
<1>23. ASSUME NEW r \in Run, SaveSession(r) PROVE RowFollowsThread'
      BY <1>23 DEF SaveSession, Goto, turnVars
<1>24. ASSUME NEW r \in Run, SaveSnapshot(r) PROVE RowFollowsThread'
      BY <1>24 DEF SaveSnapshot, Goto, rowVars, turnVars
<1>25. ASSUME NEW r \in Run, FinishRun(r) PROVE RowFollowsThread'
      BY <1>25, StatusTables DEF FinishRun, WorkerState, Goto, turnVars
<1>26. ASSUME NEW r \in Run, EmitFailed(r) PROVE RowFollowsThread'
      BY <1>26 DEF EmitFailed, Goto, rowVars, turnVars
<1>27. ASSUME NEW r \in Run, FinishFailed(r) PROVE RowFollowsThread'
      BY <1>27, StatusTables DEF FinishFailed, Goto, turnVars
<1>28. ASSUME NEW r \in Run, PrepareFault(r) PROVE RowFollowsThread'
      BY <1>28 DEF PrepareFault, Goto, rowVars, turnVars
<1>29. ASSUME NEW r \in Run, WorkerFault(r) PROVE RowFollowsThread'
      BY <1>29 DEF WorkerFault, Goto, rowVars, turnVars, REQUESTS, NoRow
<1>30. ASSUME NEW r \in Run, FinishFault(r) PROVE RowFollowsThread'
      BY <1>30, StatusTables DEF FinishFault, WorkerState, Goto, turnVars
<1>31. ASSUME NEW r \in Run, HandlerFault(r) PROVE RowFollowsThread'
      BY <1>31 DEF HandlerFault, Goto, rowVars, turnVars
<1>32. CASE Restart
      BY <1>32 DEF Restart, rowVars, turnVars, RequestPcs, WorkerPcs, ClosingPcs
<1>33. CASE UNCHANGED vars
      BY <1>33 DEF vars
<1> QED
      BY <1>1, <1>2, <1>3, <1>4, <1>5, <1>6, <1>7, <1>8, <1>9, <1>10,
         <1>11, <1>12, <1>13, <1>14, <1>15, <1>16, <1>17, <1>18, <1>19, <1>20,
         <1>21, <1>22, <1>23, <1>24, <1>25, <1>26, <1>27, <1>28, <1>29, <1>30,
         <1>31, <1>32, <1>33
         DEF Next, Client, Prepare, Turn, Close, Failure

\* Results, faults and the snapshot a worker restores from follow the threads.
LEMMA WorkerStep ==
  ASSUME IInv, [Next]_vars
  PROVE  WorkerState'
<1> USE DEF IInv, TypeOK, WorkerState
<1>1. ASSUME NEW r \in Run, RouteMessage(r) PROVE WorkerState'
      BY <1>1, ReadModelTypes DEF RouteMessage, Goto, rowVars
<1>2. ASSUME NEW r \in Run, NEW q \in Run, NEW pid \in Tasks, CheckAction(r, q, pid)
      PROVE  WorkerState'
      BY <1>2 DEF CheckAction, Goto, rowVars
<1>3. ASSUME NEW r \in Run, NEW requested \in REQUESTS, RequestStatus(r, requested)
      PROVE  WorkerState'
      BY <1>3 DEF RequestStatus, turnVars
<1>4. ASSUME NEW r \in Run, MarkResumed(r) PROVE WorkerState'
      BY <1>4 DEF MarkResumed, Goto, turnVars
<1>5. ASSUME NEW r \in Run, RouteAction(r) PROVE WorkerState'
      BY <1>5, ReadModelTypes DEF RouteAction, Goto, rowVars
<1>6. ASSUME NEW r \in Run, RejectAction(r) PROVE WorkerState'
      BY <1>6 DEF RejectAction, Goto, rowVars, turnVars
<1>7. ASSUME NEW r \in Run, ReadClock(r) PROVE WorkerState'
      BY <1>7 DEF ReadClock, Goto, turnVars
<1>8. ASSUME NEW r \in Run, BeginRun(r) PROVE WorkerState'
      BY <1>8 DEF BeginRun, Goto, turnVars
<1>9. ASSUME NEW r \in Run, StageSession(r) PROVE WorkerState'
      BY <1>9 DEF StageSession, Goto, turnVars
<1>10. ASSUME NEW r \in Run, Spawn(r) PROVE WorkerState'
      BY <1>10, TaskAssumption DEF Spawn, Goto, rowVars, turnVars
<1>11. ASSUME NEW r \in Run, RestoreContext(r) PROVE WorkerState'
      BY <1>11 DEF RestoreContext, Goto, rowVars
<1>12. ASSUME NEW r \in Run, StartTurn(r) PROVE WorkerState'
      BY <1>12, TaskAssumption DEF StartTurn, LoopPcs, Goto, rowVars, Tasks
<1>13. ASSUME NEW r \in Run, IntentResponse(r) PROVE WorkerState'
      BY <1>13, StatusTables, TaskAssumption
         DEF IntentResponse, Conclude, RecordResult, Goto, rowVars
<1>14. ASSUME NEW r \in Run, CompleteTurn(r) PROVE WorkerState'
      BY <1>14, StatusTables, TaskAssumption
         DEF CompleteTurn, Conclude, RecordResult, Goto, rowVars
<1>15. ASSUME NEW r \in Run, FailTurn(r) PROVE WorkerState'
      BY <1>15, StatusTables, TaskAssumption DEF FailTurn, Conclude, RecordResult, Goto, rowVars
<1>16. ASSUME NEW r \in Run, DropTask(r) PROVE WorkerState'
      BY <1>16, StatusTables, TaskAssumption DEF DropTask, RecordResult, Goto, rowVars
<1>17. ASSUME NEW r \in Run, TurnError(r) PROVE WorkerState'
      BY <1>17, StatusTables, TaskAssumption DEF TurnError, Goto, rowVars, Tasks
<1>18. ASSUME NEW r \in Run, NEW status \in AWAITING_STATUSES, NEW p \in PendingId, AskUser(r, status, p)
      PROVE  WorkerState'
      BY <1>18, StatusTables, TaskAssumption DEF AskUser, Conclude, RecordResult, Goto, rowVars
<1>19. ASSUME NEW r \in Run, FinishStep(r) PROVE WorkerState'
      BY <1>19, TaskAssumption DEF FinishStep, Goto, rowVars, turnVars
<1>20. ASSUME NEW r \in Run, PollCancel(r) PROVE WorkerState'
      BY <1>20, StatusTables, TaskAssumption
         DEF PollCancel, Conclude, RecordResult, Goto, rowVars, turnVars
<1>21. ASSUME NEW r \in Run, PollPause(r) PROVE WorkerState'
      BY <1>21, StatusTables, TaskAssumption
         DEF PollPause, Conclude, RecordResult, Goto, rowVars, turnVars
<1>22. ASSUME NEW r \in Run, FinalizeTurn(r) PROVE WorkerState'
      BY <1>22 DEF FinalizeTurn, Goto, rowVars, turnVars
<1>23. ASSUME NEW r \in Run, SaveSession(r) PROVE WorkerState'
      BY <1>23 DEF SaveSession, Goto, turnVars
<1>24. ASSUME NEW r \in Run, SaveSnapshot(r) PROVE WorkerState'
      BY <1>24, TaskAssumption DEF SaveSnapshot, Goto, rowVars, turnVars, Tasks
<1>25. ASSUME NEW r \in Run, FinishRun(r) PROVE WorkerState'
      BY <1>25 DEF FinishRun, Goto, turnVars
<1>26. ASSUME NEW r \in Run, EmitFailed(r) PROVE WorkerState'
      BY <1>26, TaskAssumption DEF EmitFailed, Goto, rowVars, turnVars, Tasks
<1>27. ASSUME NEW r \in Run, FinishFailed(r) PROVE WorkerState'
      BY <1>27 DEF FinishFailed, Goto, turnVars
<1>28. ASSUME NEW r \in Run, PrepareFault(r) PROVE WorkerState'
      BY <1>28, FaultAssumption DEF PrepareFault, Fault, Goto, rowVars, turnVars
<1>29. ASSUME NEW r \in Run, WorkerFault(r) PROVE WorkerState'
      BY <1>29, FaultAssumption
         DEF WorkerFault, Fault, Goto, rowVars, turnVars, REQUESTS, NoRow
<1>30. ASSUME NEW r \in Run, FinishFault(r) PROVE WorkerState'
      BY <1>30, FaultAssumption DEF FinishFault, WorkerState, Fault, Goto, turnVars
<1>31. ASSUME NEW r \in Run, HandlerFault(r) PROVE WorkerState'
      BY <1>31, FaultAssumption DEF HandlerFault, Fault, Goto, rowVars, turnVars
<1>32. CASE Restart
      BY <1>32, FaultAssumption DEF Restart, Fault, rowVars, turnVars
<1>33. CASE UNCHANGED vars
      BY <1>33 DEF vars
<1> QED
      BY <1>1, <1>2, <1>3, <1>4, <1>5, <1>6, <1>7, <1>8, <1>9, <1>10,
         <1>11, <1>12, <1>13, <1>14, <1>15, <1>16, <1>17, <1>18, <1>19, <1>20,
         <1>21, <1>22, <1>23, <1>24, <1>25, <1>26, <1>27, <1>28, <1>29, <1>30,
         <1>31, <1>32, <1>33
         DEF Next, Client, Prepare, Turn, Close, Failure

\* The latest run has a row and no row started after it ...
LEMMA LatestIsLatest == Latest # NoRun => Latest \in Run /\ IsLatest(Latest)
  BY DEF Latest

\* ... and no other run is the latest one, since started_at is never shared.
LEMMA LatestIsUnique ==
  TypeOK /\ StartOrder => \A q \in Run : IsLatest(q) => Latest = q
<1> SUFFICES ASSUME TypeOK, StartOrder, NEW q \in Run, IsLatest(q) PROVE Latest = q
    OBVIOUS
<1>1. Latest \in Run /\ IsLatest(Latest)
      BY DEF Latest
<1>2. startedAt[Latest] <= startedAt[q] /\ startedAt[q] <= startedAt[Latest]
      BY <1>1 DEF IsLatest
<1>3. startedAt[Latest] \in Nat /\ startedAt[q] \in Nat /\ startedAt[q] > 0
      BY <1>1 DEF TypeOK, IsLatest, StartOrder
<1>4. startedAt[Latest] = startedAt[q]
      BY <1>2, <1>3
<1> QED BY <1>1, <1>3, <1>4 DEF StartOrder

\* Runs are routed to, begun and continued in the order of started_at.
LEMMA StartStep ==
  ASSUME IInv, [Next]_vars
  PROVE  StartOrder'
<1> USE DEF IInv, TypeOK, StartOrder
<1>1. ASSUME NEW r \in Run, RouteMessage(r) PROVE StartOrder'
  <2>1. Latest = NoRun \/ (Latest \in Run /\ row[Latest] # NoRow)
        BY LatestIsLatest DEF IsLatest
  <2>2. /\ restore' = [restore EXCEPT ![r] = Latest] \/ restore' = [restore EXCEPT ![r] = NoRun]
        /\ startedAt[r] = 0
        BY <1>1 DEF RouteMessage
  <2> QED BY <1>1, <2>1, <2>2 DEF RouteMessage, Goto, rowVars
<1>2. ASSUME NEW r \in Run, NEW q \in Run, NEW pid \in Tasks, CheckAction(r, q, pid)
      PROVE  StartOrder'
      BY <1>2 DEF CheckAction, Goto, rowVars
<1>3. ASSUME NEW r \in Run, NEW requested \in REQUESTS, RequestStatus(r, requested)
      PROVE  StartOrder'
  <2>1. row[r] # NoRow /\ requested # NoRow
        BY <1>3, RequestGuard, StatusTables DEF RequestStatus
  <2> QED BY <1>3, <2>1 DEF RequestStatus, turnVars
<1>4. ASSUME NEW r \in Run, MarkResumed(r) PROVE StartOrder'
  <2>1. row' = row \/ (row[req[r].run] # NoRow /\ row' = [row EXCEPT ![req[r].run] = "resumed"])
        BY <1>4, StatusTables DEF MarkResumed, CanMarkResumed
  <2> QED BY <1>4, <2>1 DEF MarkResumed, Goto, turnVars, NoRow
<1>5. ASSUME NEW r \in Run, RouteAction(r) PROVE StartOrder'
  <2>1. Latest = NoRun \/ (Latest \in Run /\ row[Latest] # NoRow)
        BY LatestIsLatest DEF IsLatest
  <2>2. restore' = [restore EXCEPT ![r] = Latest] /\ startedAt[r] = 0
        BY <1>5 DEF RouteAction
  <2> QED BY <1>5, <2>1, <2>2 DEF RouteAction, Goto, rowVars
<1>6. ASSUME NEW r \in Run, RejectAction(r) PROVE StartOrder'
      BY <1>6 DEF RejectAction, Goto, rowVars, turnVars
<1>7. ASSUME NEW r \in Run, ReadClock(r) PROVE StartOrder'
  <2>1. row[r] = NoRow /\ startedAt[r] = 0
        BY <1>7 DEF ReadClock, RowFollowsThread
  <2> QED BY <1>7, <2>1 DEF ReadClock, Goto, turnVars
<1>8. ASSUME NEW r \in Run, BeginRun(r) PROVE StartOrder'
      BY <1>8 DEF BeginRun, Goto, turnVars, NoRow
<1>9. ASSUME NEW r \in Run, StageSession(r) PROVE StartOrder'
      BY <1>9 DEF StageSession, Goto, turnVars
<1>10. ASSUME NEW r \in Run, Spawn(r) PROVE StartOrder'
      BY <1>10 DEF Spawn, Goto, rowVars, turnVars
<1>11. ASSUME NEW r \in Run, RestoreContext(r) PROVE StartOrder'
      BY <1>11 DEF RestoreContext, Goto, rowVars
<1>12. ASSUME NEW r \in Run, StartTurn(r) PROVE StartOrder'
      BY <1>12 DEF StartTurn, Goto, rowVars
<1>13. ASSUME NEW r \in Run, IntentResponse(r) PROVE StartOrder'
      BY <1>13 DEF IntentResponse, Conclude, RecordResult, Goto, rowVars
<1>14. ASSUME NEW r \in Run, CompleteTurn(r) PROVE StartOrder'
      BY <1>14 DEF CompleteTurn, Conclude, RecordResult, Goto, rowVars
<1>15. ASSUME NEW r \in Run, FailTurn(r) PROVE StartOrder'
      BY <1>15 DEF FailTurn, Conclude, RecordResult, Goto, rowVars
<1>16. ASSUME NEW r \in Run, DropTask(r) PROVE StartOrder'
      BY <1>16 DEF DropTask, RecordResult, Goto, rowVars
<1>17. ASSUME NEW r \in Run, TurnError(r) PROVE StartOrder'
      BY <1>17 DEF TurnError, Goto, rowVars
<1>18. ASSUME NEW r \in Run, NEW status \in AWAITING_STATUSES, NEW p \in PendingId, AskUser(r, status, p)
      PROVE  StartOrder'
      BY <1>18 DEF AskUser, Conclude, RecordResult, Goto, rowVars
<1>19. ASSUME NEW r \in Run, FinishStep(r) PROVE StartOrder'
      BY <1>19 DEF FinishStep, Goto, rowVars, turnVars
<1>20. ASSUME NEW r \in Run, PollCancel(r) PROVE StartOrder'
      BY <1>20 DEF PollCancel, Conclude, RecordResult, Goto, rowVars, turnVars
<1>21. ASSUME NEW r \in Run, PollPause(r) PROVE StartOrder'
      BY <1>21 DEF PollPause, Conclude, RecordResult, Goto, rowVars, turnVars
<1>22. ASSUME NEW r \in Run, FinalizeTurn(r) PROVE StartOrder'
      BY <1>22 DEF FinalizeTurn, Goto, rowVars, turnVars
<1>23. ASSUME NEW r \in Run, SaveSession(r) PROVE StartOrder'
      BY <1>23 DEF SaveSession, Goto, turnVars
<1>24. ASSUME NEW r \in Run, SaveSnapshot(r) PROVE StartOrder'
      BY <1>24 DEF SaveSnapshot, Goto, rowVars, turnVars
<1>25. ASSUME NEW r \in Run, FinishRun(r) PROVE StartOrder'
  <2>1. row[r] \in {"running"} \cup REQUESTS
        BY <1>25 DEF FinishRun, RowFollowsThread
  <2>2. row[r] # NoRow /\ result[r].status # NoRow
        BY <1>25, <2>1, StatusTables DEF FinishRun, WorkerState
  <2> QED BY <1>25, <2>2 DEF FinishRun, Goto, turnVars
<1>26. ASSUME NEW r \in Run, EmitFailed(r) PROVE StartOrder'
      BY <1>26 DEF EmitFailed, Goto, rowVars, turnVars
<1>27. ASSUME NEW r \in Run, FinishFailed(r) PROVE StartOrder'
      BY <1>27 DEF FinishFailed, RowFollowsThread, Goto, turnVars, NoRow
<1>28. ASSUME NEW r \in Run, PrepareFault(r) PROVE StartOrder'
      BY <1>28 DEF PrepareFault, Goto, rowVars, turnVars
<1>29. ASSUME NEW r \in Run, WorkerFault(r) PROVE StartOrder'
      BY <1>29 DEF WorkerFault, Goto, rowVars, turnVars
<1>30. ASSUME NEW r \in Run, FinishFault(r) PROVE StartOrder'
  <2>1. row[r] \in {"running"} \cup REQUESTS
        BY <1>30 DEF FinishFault, RowFollowsThread
  <2>2. row[r] # NoRow /\ result[r].status # NoRow
        BY <1>30, <2>1, StatusTables DEF FinishFault, WorkerState
  <2> QED BY <1>30, <2>2 DEF FinishFault, Goto, turnVars
<1>31. ASSUME NEW r \in Run, HandlerFault(r) PROVE StartOrder'
      BY <1>31 DEF HandlerFault, Goto, rowVars, turnVars
<1>32. CASE Restart
      BY <1>32 DEF Restart, rowVars, turnVars, RequestPcs, WorkerPcs
<1>33. CASE UNCHANGED vars
      BY <1>33 DEF vars
<1> QED
      BY <1>1, <1>2, <1>3, <1>4, <1>5, <1>6, <1>7, <1>8, <1>9, <1>10,
         <1>11, <1>12, <1>13, <1>14, <1>15, <1>16, <1>17, <1>18, <1>19, <1>20,
         <1>21, <1>22, <1>23, <1>24, <1>25, <1>26, <1>27, <1>28, <1>29, <1>30,
         <1>31, <1>32, <1>33
         DEF Next, Client, Prepare, Turn, Close, Failure

\* The latest run stays the same as long as no row is inserted and no row's
\* started_at changes.
LEMMA LatestStays ==
  ASSUME IInv, TypeOK', StartOrder',
         \A q \in Run : /\ row[q] = NoRow <=> row'[q] = NoRow
                        /\ row[q] # NoRow => startedAt'[q] = startedAt[q]
  PROVE  Latest' = Latest
<1>1. \A q \in Run : IsLatest(q) <=> IsLatest(q)'
      BY DEF IsLatest
<1>2. (TypeOK /\ StartOrder => \A q \in Run : IsLatest(q) => Latest = q)'
      BY LatestIsUnique, PTL
<1>3. CASE \E q \in Run : IsLatest(q)
  <2>1. PICK q \in Run : IsLatest(q)
        BY <1>3
  <2>2. Latest = q
        BY <2>1, LatestIsUnique DEF IInv
  <2>3. Latest' = q
        BY <2>1, <1>1, <1>2
  <2> QED BY <2>2, <2>3
<1>4. CASE ~\E q \in Run : IsLatest(q)
  <2>1. Latest = NoRun
        BY <1>4 DEF Latest
  <2>2. Latest' = NoRun
        BY <1>4, <1>1 DEF Latest
  <2> QED BY <2>1, <2>2
<1> QED BY <1>3, <1>4

\* A step that changes neither a row nor the session row, and stamps at most a
\* run without a row, leaves the summary as far behind as it was.
LEMMA QuietStep ==
  ASSUME IInv, TypeOK', StartOrder', UNCHANGED <<row, sess>>,
         \A q \in Run : row[q] # NoRow => startedAt'[q] = startedAt[q],
         (\A q \in Run : pc'[q] \notin Behind) => (\A q \in Run : pc[q] \notin Behind)
  PROVE  SummaryFollows'
<1>1. Latest' = Latest
      BY LatestStays
<1>2. LatestStatus' = LatestStatus
      BY <1>1 DEF LatestStatus
<1> QED BY <1>2 DEF IInv, SummaryFollows

\* A step that sets the session row to the latest run's status, and touches no
\* run's row, leaves nothing behind.
LEMMA ResyncStep ==
  ASSUME IInv, TypeOK', StartOrder', UNCHANGED <<row, startedAt>>, sess' = LatestStatus
  PROVE  SummaryFollows'
<1>1. Latest' = Latest
      BY LatestStays
<1>2. LatestStatus' = LatestStatus
      BY <1>1 DEF LatestStatus
<1> QED BY <1>2 DEF SummaryFollows

\* A step that takes a run to where the session row may lag behind.
LEMMA BehindStep ==
  ASSUME TypeOK, NEW q \in Run, NEW label \in Behind, Goto(q, label)
  PROVE  SummaryFollows'
  BY DEF TypeOK, Goto, SummaryFollows

\* A step that changes one row and syncs the session row leaves nothing behind.
LEMMA SyncStep ==
  ASSUME IInv, TypeOK', StartOrder', NEW q \in Run, NEW status,
         row[q] # NoRow, status # NoRow, UNCHANGED startedAt,
         row' = [row EXCEPT ![q] = status], sess' = StatusAfter(q, status)
  PROVE  SummaryFollows'
<1>1. \A o \in Run : row[o] = NoRow <=> row'[o] = NoRow
      BY DEF IInv, TypeOK
<1>2. Latest' = Latest
      BY <1>1, LatestStays
<1>3. LatestStatus' = StatusAfter(q, status)
      BY <1>2, LatestIsRun, RunAssumption DEF LatestStatus, StatusAfter, IInv, TypeOK
<1> QED BY <1>3 DEF SummaryFollows

\* The session row shows the latest run's status again as soon as no run is
\* being begun and none has a result it has not saved, unless a storage call
\* failed.
LEMMA SummaryStep ==
  ASSUME IInv, [Next]_vars
  PROVE  SummaryFollows'
<1> USE DEF IInv, TypeOK
<1>a. TypeOK' /\ StartOrder'
      BY TypeStep, StartStep
<1>1. ASSUME NEW r \in Run, RouteMessage(r) PROVE SummaryFollows'
      BY <1>1, <1>a, QuietStep DEF RouteMessage, Goto, rowVars, Behind
<1>2. ASSUME NEW r \in Run, NEW q \in Run, NEW pid \in Tasks, CheckAction(r, q, pid)
      PROVE  SummaryFollows'
      BY <1>2, <1>a, QuietStep DEF CheckAction, Goto, rowVars, Behind
<1>3. ASSUME NEW r \in Run, NEW requested \in REQUESTS, RequestStatus(r, requested)
      PROVE  SummaryFollows'
  <2>1. row[r] # NoRow /\ requested # NoRow
        BY <1>3, RequestGuard, StatusTables DEF RequestStatus
  <2> QED BY <1>3, <1>a, <2>1, SyncStep DEF RequestStatus
<1>4. ASSUME NEW r \in Run, MarkResumed(r) PROVE SummaryFollows'
  <2>1. CASE CanMarkResumed(row[req[r].run])
    <3>1. row[req[r].run] # NoRow /\ "resumed" # NoRow
          BY <2>1, StatusTables DEF CanMarkResumed, NoRow
    <3>2. req[r].run \in Run
          BY <1>4 DEF MarkResumed, WorkerState
    <3> QED BY <1>4, <1>a, <2>1, <3>1, <3>2, SyncStep DEF MarkResumed
  <2>2. CASE ~CanMarkResumed(row[req[r].run])
    <3>1. /\ UNCHANGED <<row, sess, startedAt>>
          /\ pc[r] = "checked" /\ pc' = [pc EXCEPT ![r] = "marked"]
          BY <1>4, <2>2 DEF MarkResumed, Goto
    <3> QED BY <1>a, <3>1, QuietStep DEF Behind
  <2> QED BY <2>1, <2>2
<1>5. ASSUME NEW r \in Run, RouteAction(r) PROVE SummaryFollows'
      BY <1>5, <1>a, QuietStep DEF RouteAction, Goto, rowVars, Behind
<1>6. ASSUME NEW r \in Run, RejectAction(r) PROVE SummaryFollows'
      BY <1>6, <1>a, QuietStep DEF RejectAction, Goto, rowVars, Behind
<1>7. ASSUME NEW r \in Run, ReadClock(r) PROVE SummaryFollows'
  <2>1. row[r] = NoRow
        BY <1>7 DEF ReadClock, RowFollowsThread
  <2> QED BY <1>7, <1>a, <2>1, QuietStep DEF ReadClock, Goto, Behind
<1>8. ASSUME NEW r \in Run, BeginRun(r) PROVE SummaryFollows'
      BY <1>8, BehindStep DEF BeginRun, Behind
<1>9. ASSUME NEW r \in Run, StageSession(r) PROVE SummaryFollows'
      BY <1>9, <1>a, ResyncStep DEF StageSession
<1>10. ASSUME NEW r \in Run, Spawn(r) PROVE SummaryFollows'
      BY <1>10, <1>a, QuietStep DEF Spawn, Goto, rowVars, Behind
<1>11. ASSUME NEW r \in Run, RestoreContext(r) PROVE SummaryFollows'
      BY <1>11, <1>a, QuietStep DEF RestoreContext, Goto, rowVars, Behind
<1>12. ASSUME NEW r \in Run, StartTurn(r) PROVE SummaryFollows'
      BY <1>12, <1>a, ResyncStep DEF StartTurn
<1>13. ASSUME NEW r \in Run, IntentResponse(r) PROVE SummaryFollows'
      BY <1>13, BehindStep DEF IntentResponse, Conclude, RecordResult, Behind
<1>14. ASSUME NEW r \in Run, CompleteTurn(r) PROVE SummaryFollows'
      BY <1>14, BehindStep DEF CompleteTurn, Conclude, RecordResult, Behind
<1>15. ASSUME NEW r \in Run, FailTurn(r) PROVE SummaryFollows'
      BY <1>15, BehindStep DEF FailTurn, Conclude, RecordResult, Behind
<1>16. ASSUME NEW r \in Run, DropTask(r) PROVE SummaryFollows'
      BY <1>16, BehindStep DEF DropTask, RecordResult, Behind
<1>17. ASSUME NEW r \in Run, TurnError(r) PROVE SummaryFollows'
      BY <1>17, BehindStep DEF TurnError, Behind
<1>18. ASSUME NEW r \in Run, NEW status \in AWAITING_STATUSES, NEW p \in PendingId, AskUser(r, status, p)
      PROVE  SummaryFollows'
      BY <1>18, BehindStep DEF AskUser, Conclude, RecordResult, Behind
<1>19. ASSUME NEW r \in Run, FinishStep(r) PROVE SummaryFollows'
      BY <1>19, <1>a, ResyncStep DEF FinishStep
<1>20. ASSUME NEW r \in Run, PollCancel(r) PROVE SummaryFollows'
  <2>1. CASE LatestStatus = "cancel_requested"
        BY <1>20, <2>1, BehindStep DEF PollCancel, Conclude, RecordResult, Behind
  <2>2. CASE LatestStatus # "cancel_requested"
        BY <1>20, <2>2, <1>a, QuietStep DEF PollCancel, Goto, rowVars, Behind
  <2> QED BY <2>1, <2>2
<1>21. ASSUME NEW r \in Run, PollPause(r) PROVE SummaryFollows'
  <2>1. CASE LatestStatus = "pause_requested"
        BY <1>21, <2>1, BehindStep DEF PollPause, Conclude, RecordResult, Behind
  <2>2. CASE LatestStatus # "pause_requested"
        BY <1>21, <2>2, <1>a, QuietStep DEF PollPause, Goto, rowVars, Behind
  <2> QED BY <2>1, <2>2
<1>22. ASSUME NEW r \in Run, FinalizeTurn(r) PROVE SummaryFollows'
      BY <1>22, BehindStep DEF FinalizeTurn, Behind
<1>23. ASSUME NEW r \in Run, SaveSession(r) PROVE SummaryFollows'
      BY <1>23, <1>a, ResyncStep DEF SaveSession
<1>24. ASSUME NEW r \in Run, SaveSnapshot(r) PROVE SummaryFollows'
      BY <1>24, <1>a, QuietStep DEF SaveSnapshot, Goto, rowVars, Behind
<1>25. ASSUME NEW r \in Run, FinishRun(r) PROVE SummaryFollows'
  <2>1. row[r] \in {"running"} \cup REQUESTS /\ result[r].status \in RESULT_STATUSES
        BY <1>25 DEF FinishRun, RowFollowsThread, WorkerState
  <2>2. row[r] # NoRow /\ result[r].status # NoRow
        BY <2>1, StatusTables
  <2> QED BY <1>25, <1>a, <2>2, SyncStep DEF FinishRun
<1>26. ASSUME NEW r \in Run, EmitFailed(r) PROVE SummaryFollows'
      BY <1>26, BehindStep DEF EmitFailed, Behind
<1>27. ASSUME NEW r \in Run, FinishFailed(r) PROVE SummaryFollows'
  <2>1. row[r] # NoRow /\ "failed" # NoRow
        BY <1>27 DEF FinishFailed, RowFollowsThread, NoRow
  <2> QED BY <1>27, <1>a, <2>1, SyncStep DEF FinishFailed
<1>28. ASSUME NEW r \in Run, PrepareFault(r) PROVE SummaryFollows'
      BY <1>28, BehindStep DEF PrepareFault, Behind
<1>29. ASSUME NEW r \in Run, WorkerFault(r) PROVE SummaryFollows'
      BY <1>29, BehindStep DEF WorkerFault, Behind
<1>30. ASSUME NEW r \in Run, FinishFault(r) PROVE SummaryFollows'
      BY <1>30, BehindStep DEF FinishFault, Behind
<1>31. ASSUME NEW r \in Run, HandlerFault(r) PROVE SummaryFollows'
      BY <1>31, BehindStep DEF HandlerFault, Behind
<1>32. CASE Restart
      BY <1>32 DEF Restart, SummaryFollows, RequestPcs, WorkerPcs, Behind
<1>33. CASE UNCHANGED vars
      BY <1>33 DEF vars, SummaryFollows, LatestStatus, Latest, IsLatest
<1> QED
      BY <1>1, <1>2, <1>3, <1>4, <1>5, <1>6, <1>7, <1>8, <1>9, <1>10,
         <1>11, <1>12, <1>13, <1>14, <1>15, <1>16, <1>17, <1>18, <1>19, <1>20,
         <1>21, <1>22, <1>23, <1>24, <1>25, <1>26, <1>27, <1>28, <1>29, <1>30,
         <1>31, <1>32, <1>33
         DEF Next, Client, Prepare, Turn, Close, Failure

\* Only the router takes a request to "routed".
LEMMA OnlyRouteRoutes ==
  ASSUME TypeOK, [Next]_vars, NEW r \in Run, pc[r] # "routed", pc'[r] = "routed"
  PROVE  RouteMessage(r) \/ RouteAction(r)
<1> USE DEF TypeOK, Goto
<1>1. ASSUME NEW q \in Run, Client(q) PROVE RouteMessage(r)
      BY <1>1 DEF Client, RouteMessage, CheckAction, RequestStatus
<1>2. ASSUME NEW q \in Run, Prepare(q) PROVE RouteAction(r)
      BY <1>2 DEF Prepare, MarkResumed, RouteAction, RejectAction, ReadClock, BeginRun,
                  StageSession, Spawn
<1>3. ASSUME NEW q \in Run, Turn(q) PROVE FALSE
  <2>1. \E label \in {"restored", "working", "polling", "pausing", "finalizing", "ended"} : Goto(q, label)
        BY <1>3 DEF Turn, RestoreContext, StartTurn, IntentResponse, CompleteTurn, FailTurn,
                    DropTask, TurnError, AskUser, FinishStep, PollCancel, PollPause, FinalizeTurn, Conclude,
                  RecordResult
  <2> QED BY <2>1
<1>4. ASSUME NEW q \in Run, Close(q) PROVE FALSE
      BY <1>4 DEF Close, SaveSession, SaveSnapshot, FinishRun, EmitFailed, FinishFailed
<1>5. ASSUME NEW q \in Run, Failure(q) PROVE FALSE
      BY <1>5 DEF Failure, PrepareFault, WorkerFault, FinishFault, HandlerFault
<1>6. CASE Restart
      BY <1>6 DEF Restart
<1>7. CASE UNCHANGED vars
      BY <1>7 DEF vars
<1> QED BY <1>1, <1>2, <1>3, <1>4, <1>5, <1>6, <1>7 DEF Next

\* The steps that write a row or its completed_at: beginning a run, granting a
\* request, marking it resumed, finishing it, and the error handler.
LEMMA RowWrites ==
  ASSUME IInv, [Next]_vars
  PROVE  \/ UNCHANGED <<row, completedAt>>
         \/ \E r \in Run : /\ row[r] = NoRow
                           /\ row' = [row EXCEPT ![r] = "running"]
                           /\ UNCHANGED completedAt
         \/ \E r \in Run, requested \in REQUESTS :
              /\ CanRequestStatus(row[r], requested)
              /\ row' = [row EXCEPT ![r] = requested]
              /\ UNCHANGED completedAt
         \/ \E r \in Run : /\ CanMarkResumed(row[r])
                           /\ row' = [row EXCEPT ![r] = "resumed"]
                           /\ completedAt' = [completedAt EXCEPT ![r] = TRUE]
         \/ \E r \in Run, status \in RESULT_STATUSES :
              /\ row[r] \in {"running"} \cup REQUESTS /\ ~completedAt[r]
              /\ row' = [row EXCEPT ![r] = status]
              /\ completedAt' = [completedAt EXCEPT ![r] = TRUE]
         \/ \E r \in Run : /\ pc[r] = "failing" /\ faults > 0
                           /\ row' = [row EXCEPT ![r] = "failed"]
                           /\ completedAt' = [completedAt EXCEPT ![r] = TRUE]
<1> USE DEF rowVars
<1>1. ASSUME NEW q \in Run, Client(q)
      PROVE  \/ UNCHANGED <<row, completedAt>>
             \/ \E requested \in REQUESTS : /\ CanRequestStatus(row[q], requested)
                                            /\ row' = [row EXCEPT ![q] = requested]
                                            /\ UNCHANGED completedAt
      BY <1>1 DEF Client, RouteMessage, CheckAction, RequestStatus
<1>2. ASSUME NEW q \in Run, Prepare(q)
      PROVE  \/ UNCHANGED <<row, completedAt>>
             \/ BeginRun(q)
             \/ /\ req[q].run \in Run /\ CanMarkResumed(row[req[q].run])
                /\ row' = [row EXCEPT ![req[q].run] = "resumed"]
                /\ completedAt' = [completedAt EXCEPT ![req[q].run] = TRUE]
      BY <1>2 DEF Prepare, MarkResumed, RouteAction, RejectAction, ReadClock, StageSession,
                  Spawn, IInv, WorkerState
<1>3. ASSUME NEW q \in Run, BeginRun(q)
      PROVE  /\ row[q] = NoRow
             /\ row' = [row EXCEPT ![q] = "running"]
             /\ UNCHANGED completedAt
      BY <1>3 DEF BeginRun, IInv, RowFollowsThread
<1>4. ASSUME NEW q \in Run, Turn(q) PROVE UNCHANGED <<row, completedAt>>
      BY <1>4 DEF Turn, RestoreContext, StartTurn, IntentResponse, CompleteTurn, FailTurn,
                  DropTask, TurnError, AskUser, FinishStep, PollCancel, PollPause, FinalizeTurn, Conclude,
                  RecordResult
<1>5. ASSUME NEW q \in Run, FinishRun(q) \/ FinishFault(q)
      PROVE  /\ row[q] \in {"running"} \cup REQUESTS /\ ~completedAt[q]
             /\ result[q].status \in RESULT_STATUSES
             /\ row' = [row EXCEPT ![q] = result[q].status]
             /\ completedAt' = [completedAt EXCEPT ![q] = TRUE]
      BY <1>5 DEF FinishRun, FinishFault, IInv, RowFollowsThread, WorkerState
<1>6. ASSUME NEW q \in Run, Close(q)
      PROVE  \/ UNCHANGED <<row, completedAt>>
             \/ FinishRun(q)
             \/ /\ pc[q] = "failing" /\ faults > 0
                /\ row' = [row EXCEPT ![q] = "failed"]
                /\ completedAt' = [completedAt EXCEPT ![q] = TRUE]
      BY <1>6 DEF Close, SaveSession, SaveSnapshot, EmitFailed, FinishFailed, IInv, WorkerState
<1>7. ASSUME NEW q \in Run, Failure(q)
      PROVE  UNCHANGED <<row, completedAt>> \/ FinishFault(q)
      BY <1>7 DEF Failure, PrepareFault, WorkerFault, HandlerFault
<1>8. CASE Restart \/ UNCHANGED vars
      BY <1>8 DEF Restart, vars
<1> QED BY <1>1, <1>2, <1>3, <1>4, <1>5, <1>6, <1>7, <1>8 DEF Next

\* The initial state satisfies the invariant.
LEMMA InitIInv == Init => IInv
<1> SUFFICES ASSUME Init PROVE IInv
    OBVIOUS
<1>1. TypeOK
      BY FaultAssumption
      DEF Init, TypeOK, Tasks, Pcs, NoRequest, NoResult
<1>2. RowFollowsThread /\ WorkerState /\ StartOrder
      BY RunAssumption
      DEF Init, RowFollowsThread, WorkerState, StartOrder, LoopPcs
<1>3. \A q \in Run : ~IsLatest(q)
      BY DEF Init, IsLatest
<1>4. LatestStatus = NoRow
      BY <1>3 DEF LatestStatus, Latest
<1>5. SummaryFollows
      BY <1>4 DEF Init, SummaryFollows
<1> QED BY <1>1, <1>2, <1>5 DEF IInv

\* The invariant is inductive.
THEOREM IInvAlways == Spec => []IInv
<1>1. IInv /\ [Next]_vars => IInv'
      BY TypeStep, RowStep, WorkerStep, StartStep, SummaryStep DEF IInv
<1> QED BY InitIInv, <1>1, PTL DEF Spec

\* Every variable keeps its type, with any number of failures and restarts.
THEOREM TypeOKAlways == Spec => []TypeOK
<1>1. IInv => TypeOK
      BY DEF IInv
<1> QED BY <1>1, IInvAlways, PTL

\* A worker that ran to its end has settled its row, whatever was requested
\* meanwhile and whatever failed.
THEOREM StoppedIsSettledAlways == Spec => []StoppedIsSettled
<1>1. IInv => StoppedIsSettled
  <2> SUFFICES ASSUME IInv, NEW r \in Run, pc[r] = "done"
               PROVE  /\ row[r] \notin {"running", "pause_requested"}
                      /\ row[r] = "cancel_requested" => result[r].status \in AWAITING_STATUSES
      BY DEF StoppedIsSettled
  <2>1. \/ row[r] \in COMPLETED_AT_STATUSES
        \/ row[r] = "cancel_requested" /\ result[r].status \in AWAITING_STATUSES
        BY DEF IInv, RowFollowsThread
  <2> QED BY <2>1 DEF COMPLETED_AT_STATUSES
<1> QED BY <1>1, IInvAlways, PTL

\* completed_at is never set while the run's worker may still do GIS work.
THEOREM CompletedAtMeansStoppedAlways == Spec => []CompletedAtMeansStopped
<1>1. IInv => CompletedAtMeansStopped
      BY DEF IInv, TypeOK, RowFollowsThread, CompletedAtMeansStopped, Pcs, RequestPcs,
             WorkerPcs, LoopPcs, ClosingPcs
<1> QED BY <1>1, IInvAlways, PTL

\* When no thread is busy the session row shows the latest run's status.
THEOREM QuietSummaryAlways == Spec => []QuietSummaryIsLatest
<1>1. IInv => QuietSummaryIsLatest
      BY DEF IInv, SummaryFollows, QuietSummaryIsLatest, Behind
<1> QED BY <1>1, IInvAlways, PTL

\* Once a successor of a run has been begun, no request is routed to that run:
\* with any number of runs, though started_at is read before the store's lock.
THEOREM ContinuedOnceAlways == Spec => ContinuedOnce
<1> DEFINE Once == \A r \in Run :
             pc[r] # "routed" /\ pc'[r] = "routed" /\ restore'[r] # NoRun
               => \A o \in Run \ {r} : restore[o] = restore'[r] => row[o] = NoRow
<1>1. ASSUME IInv, [Next]_vars PROVE [Once]_vars
  <2> SUFFICES ASSUME NEW r \in Run, pc[r] # "routed", pc'[r] = "routed", restore'[r] # NoRun,
                      NEW o \in Run \ {r}, restore[o] = restore'[r], row[o] # NoRow
               PROVE  FALSE
      OBVIOUS
  <2>1. RouteMessage(r) \/ RouteAction(r)
        BY <1>1, OnlyRouteRoutes DEF IInv
  <2>2. restore'[r] = Latest
        BY <1>1, <2>1 DEF RouteMessage, RouteAction, IInv, TypeOK
  <2>3. Latest \in Run /\ startedAt[o] <= startedAt[Latest]
        BY <2>2, LatestIsLatest DEF IsLatest
  <2>4. startedAt[Latest] < startedAt[o]
        BY <1>1, <2>2 DEF IInv, StartOrder
  <2>5. startedAt[Latest] \in Nat /\ startedAt[o] \in Nat
        BY <1>1, <2>3 DEF IInv, TypeOK
  <2> QED BY <2>3, <2>4, <2>5
<1> QED BY <1>1, IInvAlways, PTL DEF Spec, ContinuedOnce

\* A final status is overwritten only by the run's own error handler, after a
\* storage failure, and only by "failed".
THEOREM FinalUnlessHandlerAlways == Spec => FinalUnlessHandler
<1> DEFINE Kept == \A r \in Run :
             row[r] \in FINAL_STATUSES /\ row'[r] # row[r]
               => pc[r] = "failing" /\ row'[r] = "failed" /\ faults > 0
<1>1. ASSUME IInv, [Next]_vars PROVE [Kept]_vars
  <2>1. \A status \in FINAL_STATUSES :
          /\ status # NoRow
          /\ \A requested \in REQUESTS : ~CanRequestStatus(status, requested)
          /\ ~CanMarkResumed(status)
          /\ status \notin {"running"} \cup REQUESTS
        BY RequestGuard, StatusTables DEF CanMarkResumed, FINAL_STATUSES, REQUESTS, NoRow
  <2> QED BY <1>1, <2>1, RowWrites DEF IInv, TypeOK
<1> QED BY <1>1, IInvAlways, PTL DEF Spec, FinalUnlessHandler

\* The instance of the abstract specification has the same status tables.
LEMMA SameTables ==
  /\ Lifecycle!NoRow = NoRow
  /\ Lifecycle!REQUESTS = REQUESTS
  /\ Lifecycle!RESULT_STATUSES = RESULT_STATUSES
  /\ {"running"} \cup REQUESTS \subseteq Lifecycle!ACTIVE_RUN_STATUSES
  /\ \A st, requested : CanRequestStatus(st, requested)
                             => Lifecycle!CanRequestStatus(st, requested)
  /\ \A st : CanMarkResumed(st) => Lifecycle!CanMarkResumed(st)
<1>1. /\ Lifecycle!ACTIVE_RUN_STATUSES = ACTIVE_RUN_STATUSES
      /\ Lifecycle!PAUSABLE_RUN_STATUSES = PAUSABLE_RUN_STATUSES
      /\ Lifecycle!RESUMABLE_RUN_STATUSES = RESUMABLE_RUN_STATUSES
      /\ Lifecycle!COMPLETED_AT_STATUSES = COMPLETED_AT_STATUSES
      BY DEF Lifecycle!ACTIVE_RUN_STATUSES, ACTIVE_RUN_STATUSES,
             Lifecycle!PAUSABLE_RUN_STATUSES, PAUSABLE_RUN_STATUSES,
             Lifecycle!RESUMABLE_RUN_STATUSES, RESUMABLE_RUN_STATUSES,
             Lifecycle!COMPLETED_AT_STATUSES, COMPLETED_AT_STATUSES
<1>2. Lifecycle!CANCELLABLE_RUN_STATUSES = CANCELLABLE_RUN_STATUSES
      BY <1>1 DEF Lifecycle!CANCELLABLE_RUN_STATUSES, CANCELLABLE_RUN_STATUSES
<1>3. /\ Lifecycle!NoRow = NoRow
      /\ Lifecycle!REQUESTS = REQUESTS
      /\ Lifecycle!RESULT_STATUSES = RESULT_STATUSES
      BY <1>1 DEF Lifecycle!NoRow, NoRow, Lifecycle!REQUESTS, REQUESTS,
                  Lifecycle!RESULT_STATUSES, RESULT_STATUSES
<1>4. {"running"} \cup REQUESTS \subseteq Lifecycle!ACTIVE_RUN_STATUSES
      BY <1>1, StatusTables
<1> QED
    BY <1>1, <1>2, <1>3, <1>4
    DEF CanRequestStatus, Lifecycle!CanRequestStatus, CanMarkResumed, Lifecycle!CanMarkResumed

\* When no storage call fails, the attempts of a session implement the run
\* lifecycle: every step of a request, worker or client is one of its steps or
\* leaves every run's status and completed_at alone.
THEOREM LifecycleImplemented ==
  ASSUME MaxFaults = 0
  PROVE  Spec => ImplementsLifecycle
<1>1. Init => Lifecycle!Init
      BY SameTables DEF Init, Lifecycle!Init
<1>2. ASSUME IInv, [Next]_vars PROVE [Lifecycle!Next]_Lifecycle!vars
  <2>1. faults = 0
        BY <1>2 DEF IInv, TypeOK
  <2> USE DEF Lifecycle!Next, Lifecycle!vars
  <2>2. CASE UNCHANGED <<row, completedAt>>
        BY <2>2
  <2>3. ASSUME NEW r \in Run, row[r] = NoRow, row' = [row EXCEPT ![r] = "running"],
               UNCHANGED completedAt
        PROVE  Lifecycle!Next
        BY <2>3, SameTables DEF Lifecycle!Begin
  <2>4. ASSUME NEW r \in Run, NEW requested \in REQUESTS, CanRequestStatus(row[r], requested),
               row' = [row EXCEPT ![r] = requested], UNCHANGED completedAt
        PROVE  Lifecycle!Next
    <3>1. Lifecycle!Request(r, requested)
          BY <2>4, SameTables DEF Lifecycle!Request
    <3> QED BY <3>1, SameTables
  <2>5. ASSUME NEW r \in Run, CanMarkResumed(row[r]), row' = [row EXCEPT ![r] = "resumed"],
               completedAt' = [completedAt EXCEPT ![r] = TRUE]
        PROVE  Lifecycle!Next
        BY <2>5, SameTables DEF Lifecycle!HandOver
  <2>6. ASSUME NEW r \in Run, NEW status \in RESULT_STATUSES,
               row[r] \in {"running"} \cup REQUESTS, ~completedAt[r],
               row' = [row EXCEPT ![r] = status],
               completedAt' = [completedAt EXCEPT ![r] = TRUE]
        PROVE  Lifecycle!Next
    <3>1. Lifecycle!Stop(r, status)
          BY <2>6, SameTables DEF Lifecycle!Stop
    <3> QED BY <3>1, SameTables
  <2> QED BY <1>2, <2>1, <2>2, <2>3, <2>4, <2>5, <2>6, RowWrites
<1> QED BY <1>1, <1>2, IInvAlways, PTL DEF Spec, ImplementsLifecycle, Lifecycle!Spec
=============================================================================
