----------------------------- MODULE RunViews -----------------------------
(***************************************************************************)
(* What the desktop makes of the run it shows: the pure functions of       *)
(* apps/desktop/src/session.  A view holds the session and the run on      *)
(* display, the status the app was last told, the run snapshot and the     *)
(* session it shows, and the latest event of its event list.               *)
(***************************************************************************)
EXTENDS RunStatus, Sequences, SequencesExt

CONSTANTS NoRun, NoSession

\* Mutant: a run that waits for its user does not end its loop.
TerminalWithoutAwaiting == COMPLETED_AT_STATUSES \ (AWAITING_STATUSES \cup {"resumed"})

\* useRunExecution's own list of the statuses that end a poll loop.
TERMINAL_RUN_STATUSES == COMPLETED_AT_STATUSES \ {"resumed"}

NoEvent == [run |-> NoRun, name |-> "none", status |-> NoRow]
NoSnapshotShown == [run |-> NoRun, status |-> NoRow]

\* resetSessionState, and emptySessionSnapshot of the session sid.
EmptyView(sid) ==
  [sid |-> sid, rid |-> NoRun, status |-> "idle", snap |-> NoSnapshotShown,
   result |-> NoSession, last |-> NoEvent]

\* deriveAgentRunState: the phase the latest event, the status and the shown
\* snapshot add up to.
Phase(view) ==
  CASE view.last.name \in {"failed", "cancelled", "completed"} -> view.last.name
    [] view.last.name = "question" -> view.last.status
    [] OTHER -> IF view.status \in ACTIVE_RUN_STATUSES \/ view.snap.status = NoRow
                  THEN view.status ELSE view.snap.status

IsAwaiting(view) == Phase(view) \in AWAITING_STATUSES
IsRunning(view) == view.status \in ACTIVE_RUN_STATUSES /\ ~IsAwaiting(view)

\* Mutant: the session of the event is all that is looked at.
CanApplyBySession(view, r, s, blank) == blank \/ view.sid = s

\* canApplyActiveRunEvent: does an event of run r of session s, polled for a
\* request that was started in a blank session or not, belong to the view?
CanApplyActiveRunEvent(view, r, s, blank) ==
  \/ blank /\ view.sid = NoSession /\ view.rid = NoRun
  \/ view.rid = r /\ view.sid \in {s, NoSession}
  \/ view.rid = NoRun /\ view.sid = s

\* canApplyActiveRunSnapshot: a view of no session takes any snapshot.
CanApplyActiveRunSnapshot(view, r, s) ==
  \/ view.rid = r /\ view.sid \in {s, NoSession}
  \/ view.rid = NoRun /\ view.sid \in {s, NoSession}

\* Mutant: a run is visible only while no run is on display.
VisibleBySession(view, r, s) == view.rid = NoRun /\ view.sid = s

\* isRunVisible.
IsRunVisible(view, r, s) == IF view.rid # NoRun THEN view.rid = r ELSE view.sid = s

\* shouldAdoptStartedRun: may the run a request started, in session s, take the view?
ShouldAdoptStartedRun(view, r, s, launch, blank) ==
  \/ view.sid = s
  \/ blank /\ view.sid = NoSession /\ view.rid = NoRun
  \/ view.rid \in {NoRun, r} /\ launch # NoSession /\ view.sid = launch

\* shouldUpdateLaunchSurface: is the failure of a request still of interest?
ShouldUpdateLaunchSurface(view, launch, blank) ==
  IF blank THEN view.sid = NoSession /\ view.rid = NoRun
  ELSE launch # NoSession /\ view.sid = launch

\* Mutant: the session on display is left as it is.
AdoptRunOnly(view, r, s) == [view EXCEPT !.rid = r]

\* adoptActiveRun.
Adopt(view, r, s) == [view EXCEPT !.sid = s, !.rid = r]

\* beginVisibleRun and stageVisibleRunSnapshot.
BeginVisibleRun(view, preserve) ==
  [view EXCEPT !.status = "running",
     !.last = IF preserve THEN view.last ELSE NoEvent,
     !.snap = [run |-> IF preserve THEN view.snap.run ELSE NoRun, status |-> "running"]]

\* applyVisibleRunEvent, for the events of one answer: the last one stays on top
\* of the list, and the shown snapshot takes the status of the last result.
ShowEvents(view, events) ==
  LET results == SelectSeq(events, LAMBDA e : e.status # NoRow)
      status == CASE results # <<>> -> Last(results).status
                  [] view.snap.status # NoRow -> view.snap.status
                  [] OTHER -> "running"
  IN [view EXCEPT !.last = Last(events), !.snap = [run |-> Last(events).run, status |-> status]]

\* eventNeedsSnapshotRefresh: a result, or an event of one of these names.
EventNeedsSnapshotRefresh(event) ==
  event.status # NoRow \/ event.name \in {"question", "completed", "failed", "cancelled", "paused"}

\* activeRunResumePayload: a loaded session goes on being polled while its
\* latest run is active.
ActiveRunResumes(snap) == snap.run # NoRun /\ snap.status \in ACTIVE_RUN_STATUSES
=============================================================================
