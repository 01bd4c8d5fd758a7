--------------------------- MODULE DesktopClient ---------------------------
(***************************************************************************)
(* The desktop client (apps/desktop/src/session, app/App.jsx) and the part *)
(* of the server it observes: the rows, the snapshots and the events of    *)
(* runs.  The client is one thread, but every await lets clicks and other  *)
(* answers in between.  Its asynchronous functions are the processes       *)
(*                                                                         *)
(*   "request"  performRunRequest: a message, then the poll loop of its run*)
(*   "action"   performRunAction: pause, cancel or an answer, then a loop  *)
(*   "resume", "again"  the loops resumeRunPolling starts for sessions     *)
(*              switched to                                                *)
(*                                                                         *)
(*   idle -> sending -> served -> session -> snapshot -> starting          *)
(*        -> poll -> [refresh ->] row -> poll ... -> last -> ending -> idle*)
(*                                                                         *)
(* (row -> leave -> idle when another loop has taken the run over, broken  *)
(* -> idle when a call failed) and the loads they share: one snapshot load *)
(* per run, one load per session.  Two bounds: at most two session         *)
(* switches and two resumed loops at a time.  What follows an answer       *)
(* without another await (served, reloaded, starting, ending, broken) runs *)
(* before anything else does: promise continuations go before clicks and   *)
(* other answers.                                                          *)
(***************************************************************************)
EXTENDS RunViews, Naturals, FiniteSets

CONSTANTS Session, Run,
          Outcomes,    \* the results a run may end with by itself
          Controls,    \* the requests the user makes of a running run
          MaxClicks    \* bound on what the user does and on failed calls, together

ASSUME ClickAssumption == MaxClicks \in Nat
ASSUME OutcomeAssumption == Outcomes \subseteq RESULT_STATUSES /\ Controls \subseteq REQUESTS
ASSUME NameAssumption == NoRun \notin Run /\ NoSession \notin Session

Resumes == {"resume", "again"}
Process == {"request", "action"} \cup Resumes
Slot == {1, 2}

VARIABLES
  row, home, snap, feed,  \* the server: status, session and snapshot status of
                          \* a run, and its events in order
  begun,     \* the runs in the order in which they were begun
  hidden,    \* archived or deleted sessions
  view,      \* what the app shows (see RunViews)
  proc,      \* proc[p]: the asynchronous functions
  token,     \* activePolls: whose loop polls a run
  load,      \* snapshotRefreshes: the snapshot load of a run
  reload,    \* sessionRefreshes: the sessions being loaded
  switch,    \* switch[k]: session switches under way
  hiding,    \* the session being archived, and whether it was on display
  latestSwitch,
  blind,     \* runs whose loop took an older load for its last one or was cut short,
             \* or that a late load or a cancelled loop brought back on display
  clicks

serverVars == <<row, home, snap, feed, begun, hidden>>
clientVars == <<view, proc, token, load, reload, switch, latestSwitch, hiding, blind>>
vars == <<serverVars, clientVars, clicks>>

Idle == [pc |-> "idle", kind |-> "none", run |-> NoRun, sid |-> NoSession, blank |-> FALSE,
         launch |-> NoSession, after |-> 0, quiet |-> FALSE, cancelled |-> FALSE]
NoLoad == [pc |-> "none", status |-> NoRow]
NotHiding == [sid |-> NoSession, current |-> FALSE]
NoSwitch == [pc |-> "none", token |-> 0, sid |-> NoSession, run |-> NoRun, status |-> NoRow,
             after |-> 0]

LoopPcs == {"poll", "refresh", "row", "leave", "last", "ending"}
WaitPcs == {"snapshot", "refresh", "last"}
RunningOnPcs == {"served", "reloaded", "starting", "ending", "broken"}

Init ==
  /\ row = [r \in Run |-> NoRow] /\ home = [r \in Run |-> NoSession]
  /\ snap = [r \in Run |-> NoRow] /\ feed = [r \in Run |-> <<>>]
  /\ begun = <<>> /\ hidden = {}
  /\ view = EmptyView(NoSession)
  /\ proc = [p \in Process |-> Idle]
  /\ token = [r \in Run |-> "none"]
  /\ load = [r \in Run |-> NoLoad]
  /\ reload = {}
  /\ switch = [k \in Slot |-> NoSwitch] /\ latestSwitch = 0 /\ hiding = NotHiding
  /\ blind = {}
  /\ clicks = 0

\* No continuation is left to run.
Settled ==
  /\ \A p \in Process : proc[p].pc \notin RunningOnPcs
  /\ \A r \in Run : load[r].pc # "done"

Click == Settled /\ clicks < MaxClicks /\ clicks' = clicks + 1
Fault == Click
NoClick == UNCHANGED clicks

Goto(p, label) == proc' = [proc EXCEPT ![p].pc = label]
-----------------------------------------------------------------------------
(* The server, as far as the client can tell. *)

\* A turn is taken: run r of session s, with its first snapshot.
Begin(r, s) ==
  /\ row[r] = NoRow
  /\ row' = [row EXCEPT ![r] = "running"]
  /\ home' = [home EXCEPT ![r] = s]
  /\ snap' = [snap EXCEPT ![r] = "running"]
  /\ begun' = Append(begun, r)

\* What a request asks for.
EndOf(request) == IF request = "pause_requested" THEN "paused" ELSE "cancelled"

EventName(status) ==
  CASE status \in AWAITING_STATUSES -> "question" [] OTHER -> status

\* The event that carries the result, and the snapshot refreshed from it.
EmitResult(r, status) ==
  /\ row[r] \in ACTIVE_RUN_STATUSES /\ snap[r] = "running"
  /\ status \in {"paused", "cancelled"} => row[r] \in REQUESTS /\ status = EndOf(row[r])
  /\ feed' = [feed EXCEPT ![r] =
                Append(@, [run |-> r, name |-> EventName(status), status |-> status])]
  /\ snap' = [snap EXCEPT ![r] = status]
  /\ UNCHANGED <<row, home, begun, hidden, clientVars>> /\ NoClick

\* The worker finishes the run's row.
Finish(r) ==
  /\ row[r] \in ACTIVE_RUN_STATUSES /\ snap[r] # "running"
  /\ row' = [row EXCEPT ![r] = snap[r]]
  /\ UNCHANGED <<home, snap, feed, begun, hidden, clientVars>> /\ NoClick

\* The requests of the two processes, as the server takes them.
ServeRequest(p, r) ==
  /\ proc[p].pc = "sending" /\ proc[p].kind = "message"
  /\ \E s \in Session :
       /\ IF proc[p].sid = NoSession THEN \A q \in Run : home[q] # s ELSE s = proc[p].sid
       /\ Begin(r, s)
       /\ proc' = [proc EXCEPT ![p].pc = "served", ![p].run = r, ![p].sid = s]
  /\ UNCHANGED <<feed, hidden, view, token, load, reload, switch, latestSwitch, hiding, blind>>
  /\ NoClick

ServeControl(p, requested) ==
  LET q == proc[p].run IN
  /\ proc[p].pc = "sending" /\ proc[p].kind = requested
  /\ row' = IF CanRequestStatus(row[q], requested)
              THEN [row EXCEPT ![q] = requested] ELSE row
  /\ Goto(p, "served")
  /\ UNCHANGED <<home, snap, feed, begun, hidden, view, token, load, reload, switch,
                 latestSwitch, hiding, blind>>
  /\ NoClick

\* An answer names the pending task in the run's snapshot; the next run continues.
ServeAnswer(p, r) ==
  LET q == proc[p].run IN
  /\ proc[p].pc = "sending" /\ proc[p].kind = "answer"
  /\ snap[q] \in AWAITING_STATUSES /\ row[r] = NoRow
  /\ row' = [row EXCEPT ![r] = "running", ![q] = IF CanMarkResumed(@) THEN "resumed" ELSE @]
  /\ home' = [home EXCEPT ![r] = home[q]]
  /\ snap' = [snap EXCEPT ![r] = "running"]
  /\ begun' = Append(begun, r)
  /\ proc' = [proc EXCEPT ![p].pc = "served", ![p].run = r]
  /\ UNCHANGED <<feed, hidden, view, token, load, reload, switch, latestSwitch, hiding, blind>>
  /\ NoClick
-----------------------------------------------------------------------------
(* What the user does: useAgentActions. *)

\* send and submitCommand: a message to the session shown, or to a new one.
Send ==
  /\ ~IsRunning(view) /\ Click
  /\ \E r \in Run : row[r] = NoRow
  /\ proc["request"].pc = "idle"
  /\ proc' = [proc EXCEPT !["request"] =
       [Idle EXCEPT !.pc = "sending", !.kind = "message", !.sid = view.sid,
                    !.blank = view.sid = NoSession, !.launch = view.sid]]
  /\ view' = BeginVisibleRun(view, IsAwaiting(view))
  /\ UNCHANGED <<serverVars, token, load, reload, switch, latestSwitch, hiding, blind>>

\* performRunAction: nothing is sent while an earlier action polls its run.
Act(kind, status) ==
  /\ Click
  /\ view.rid # NoRun /\ proc["action"].pc = "idle"
  /\ proc' = [proc EXCEPT !["action"] =
       [Idle EXCEPT !.pc = "sending", !.kind = kind, !.run = view.rid]]
  /\ view' = [BeginVisibleRun(view, TRUE) EXCEPT !.status = status]
  /\ UNCHANGED <<serverVars, token, load, reload, switch, latestSwitch, hiding, blind>>

\* handlePause and handleCancelRun, with the status they expect.
Control == IsRunning(view) /\ \E request \in Controls : Act(request, request)

\* submitStructuredResume: confirm, reject, patch, replan and cancel of the task.
AnswerPending ==
  /\ IsAwaiting(view) /\ ~IsRunning(view)
  /\ \E r \in Run : row[r] = NoRow
  /\ Act("answer", "running")

\* handleNewSession, and resetSessionFromUi where it asks no server.
NewSession ==
  /\ view.sid # NoSession /\ Click
  /\ view' = EmptyView(NoSession)
  /\ UNCHANGED <<serverVars, proc, token, load, reload, switch, latestSwitch, hiding, blind>>

\* archiveSession and deleteSession, and their return: the view is reset if the
\* session was the current one when the user clicked.
Hide(s) ==
  /\ hiding = NotHiding /\ s \notin hidden /\ \E r \in Run : home[r] = s
  /\ Click
  /\ hidden' = hidden \cup {s}
  /\ hiding' = [sid |-> s, current |-> view.sid = s]
  /\ UNCHANGED <<row, home, snap, feed, begun, view, proc, token, load, reload, switch,
                 latestSwitch, blind>>

Hidden ==
  /\ hiding # NotHiding
  /\ hiding' = NotHiding
  /\ view' = IF hiding.current THEN EmptyView(NoSession) ELSE view
  /\ UNCHANGED <<serverVars, proc, token, load, reload, switch, latestSwitch, blind>>
  /\ NoClick

\* switchSession.
Switch(k, s) ==
  /\ switch[k].pc = "none" /\ \E r \in Run : home[r] = s
  /\ \A j \in Slot : switch[j].pc = "none" => k <= j
  /\ Click
  /\ latestSwitch' = latestSwitch + 1
  /\ switch' = [switch EXCEPT ![k] = [NoSwitch EXCEPT !.pc = "session", !.sid = s,
                                       !.token = latestSwitch + 1]]
  /\ UNCHANGED <<serverVars, view, proc, token, load, reload, hiding, blind>>
-----------------------------------------------------------------------------
(* Loads. *)

\* latest_run_for_session.
IsLatestRun(r, s) ==
  \E i \in DOMAIN begun : /\ begun[i] = r /\ home[r] = s
                          /\ \A j \in DOMAIN begun : j > i => home[begun[j]] # s

\* lastSeq of a loaded session, counted from its latest run's first event: the
\* larger of the last event known and of the run's own event_count, although the
\* events of earlier runs have numbers too.
LastSeq(r, known) ==
  LET earlier == { i \in DOMAIN begun : begun[i] # r /\ home[begun[i]] = home[r] }
      offset == Cardinality(UNION { {i} \X DOMAIN feed[begun[i]] : i \in earlier })
  IN IF Len(feed[r]) > known + offset THEN Len(feed[r]) - offset ELSE known

\* The session's answer, with its latest run and that run's row; none for a hidden
\* session.
SwitchLoads(k) ==
  LET s == switch[k].sid IN
  /\ switch[k].pc = "session"
  /\ IF s \in hidden
       THEN switch' = [switch EXCEPT ![k].pc = "absent"]
       ELSE \E r \in Run :
              /\ IsLatestRun(r, s)
              /\ switch' = [switch EXCEPT ![k].pc = "run", ![k].run = r, ![k].status = row[r],
                                          ![k].after = Len(feed[r])]
  /\ UNCHANGED <<serverVars, view, proc, token, load, reload, latestSwitch, hiding, blind>>
  /\ NoClick

StartLoad(ld, r) == IF ld[r].pc = "none" THEN [ld EXCEPT ![r].pc = "loading"] ELSE ld

\* pollRunEvents begins: a loop that polls the same run is cancelled.
StartLoop(p, r, s, after, blank) ==
  LET other == token[r] IN
  /\ token' = [token EXCEPT ![r] = p]
  /\ proc' = [q \in Process |->
       IF q = p THEN [proc[p] EXCEPT !.pc = "poll", !.run = r, !.sid = s, !.after = after,
                                     !.blank = blank, !.quiet = FALSE, !.cancelled = FALSE]
       ELSE IF q = other /\ proc[q].run = r /\ proc[q].pc \in LoopPcs
         THEN [proc[q] EXCEPT !.cancelled = TRUE]
         ELSE proc[q]]

\* Mutant: the token of the switch is not compared.
NewestAlways(k) == TRUE
IsNewest(k) == switch[k].token = latestSwitch

\* The loop of a session switched to, whichever of the two is free.
FreeLoop == IF proc["resume"].pc = "idle" THEN "resume" ELSE "again"

\* The session is shown, unless a later switch was asked for, and an active run is
\* polled on from the last event known.
ShowSession(k, shown, status, after) ==
  LET r == switch[k].run
      s == switch[k].sid
      resumes == status \in ACTIVE_RUN_STATUSES
      known == [i \in 1..switch[k].after |-> feed[r][i]]
  IN
  /\ switch[k].pc = "run"
  /\ IsNewest(k) /\ resumes => proc[FreeLoop].pc = "idle"
  /\ switch' = [switch EXCEPT ![k] = NoSwitch]
  /\ IF ~IsNewest(k) THEN UNCHANGED <<view, proc, token, load>>
     ELSE /\ view' = [EmptyView(s) EXCEPT !.rid = r, !.status = status, !.snap = shown, !.result = s,
                        !.last = IF known = <<>> THEN NoEvent ELSE Last(known)]
          /\ IF resumes THEN StartLoop(FreeLoop, r, s, after, FALSE) /\ load' = StartLoad(load, r)
                        ELSE UNCHANGED <<proc, token, load>>
  /\ UNCHANGED <<serverVars, reload, latestSwitch, hiding, blind>>

\* The run's snapshot arrives too; without it the row is all that is known.
SwitchShows(k) ==
  LET r == switch[k].run IN
  \/ /\ ShowSession(k, [run |-> r, status |-> snap[r]], snap[r], LastSeq(r, switch[k].after))
     /\ NoClick
  \/ ShowSession(k, NoSnapshotShown, switch[k].status, switch[k].after) /\ Fault

\* The session could not be loaded: an empty one is shown.
SwitchShowsEmpty(k) ==
  /\ \/ switch[k].pc = "absent" /\ NoClick
     \/ switch[k].pc = "session" /\ Fault
  /\ switch' = [switch EXCEPT ![k] = NoSwitch]
  /\ view' = IF IsNewest(k) THEN EmptyView(switch[k].sid) ELSE view
  /\ UNCHANGED <<serverVars, proc, token, load, reload, latestSwitch, hiding, blind>>

\* loadRunSnapshot is answered.
SnapshotLoads(r) ==
  /\ load[r].pc = "loading"
  /\ load' = [load EXCEPT ![r] = [pc |-> "loaded", status |-> snap[r]]]
  /\ UNCHANGED <<serverVars, view, proc, token, reload, switch, latestSwitch, hiding, blind>>
  /\ NoClick

\* refreshVisibleRunSnapshot after its await: the snapshot is shown if the view
\* is still the run's, and its session is loaded again.
SnapshotShows(r) ==
  LET s == home[r] IN
  /\ load[r].pc = "loaded"
  /\ IF CanApplyActiveRunSnapshot(view, r, s)
       THEN /\ view' = [Adopt(view, r, s) EXCEPT
                          !.snap = [run |-> r, status |-> load[r].status],
                          !.status = load[r].status]
            /\ load' = [load EXCEPT ![r] = [pc |-> "session", status |-> NoRow]]
            /\ reload' = reload \cup {s}
            /\ blind' = IF view.rid = r THEN blind ELSE blind \cup {r}
       ELSE /\ load' = [load EXCEPT ![r] = [pc |-> "done", status |-> NoRow]]
            /\ UNCHANGED <<view, reload, blind>>
  /\ UNCHANGED <<serverVars, proc, token, switch, latestSwitch, hiding>>
  /\ NoClick

\* refreshSessionResult: every caller waits for the one load of the session,
\* which a view of another session does not take.
TakesSession(s) == view.sid \in {s, NoSession}

SessionReloads(s) ==
  /\ s \in reload \ hidden
  /\ reload' = reload \ {s}
  /\ view' = IF TakesSession(s) THEN [view EXCEPT !.result = s] ELSE view
  /\ load' = [r \in Run |-> IF load[r].pc = "session" /\ home[r] = s
                              THEN [load[r] EXCEPT !.pc = "done"] ELSE load[r]]
  /\ proc' = [p \in Process |->
       IF proc[p].pc = "session" /\ proc[p].sid = s
         THEN [proc[p] EXCEPT !.pc = "reloaded"] ELSE proc[p]]
  /\ UNCHANGED <<serverVars, token, switch, latestSwitch, hiding, blind>>
  /\ NoClick

\* All that wait for a snapshot load go on together.
AfterLoad(label) == CASE label = "snapshot" -> "starting" [] label = "refresh" -> "row"
                      [] label = "last" -> "ending"
LoadEnds(r) ==
  /\ load[r].pc = "done"
  /\ load' = [load EXCEPT ![r] = NoLoad]
  /\ proc' = [p \in Process |->
       IF proc[p].run = r /\ proc[p].pc \in WaitPcs
         THEN [proc[p] EXCEPT !.pc = AfterLoad(@)] ELSE proc[p]]
  /\ UNCHANGED <<serverVars, view, token, reload, switch, latestSwitch, hiding, blind>>
  /\ NoClick

\* A load fails, and everything that awaits it with it.
Break(broken) ==
  /\ proc' = [p \in Process |-> IF p \in broken THEN [proc[p] EXCEPT !.pc = "broken"] ELSE proc[p]]
  /\ blind' = blind \cup ({ proc[p].run : p \in broken } \ {NoRun})

Waiters(r) == { p \in Process : proc[p].run = r /\ proc[p].pc \in WaitPcs }

SnapshotBreaks(r) ==
  /\ load[r].pc = "loading" /\ Fault
  /\ load' = [load EXCEPT ![r] = NoLoad]
  /\ Break(Waiters(r))
  /\ UNCHANGED <<serverVars, view, token, reload, switch, latestSwitch, hiding>>

\* The session cannot be loaded: it always fails for a hidden one.
SessionBreaks(s) ==
  LET loads == { r \in Run : load[r].pc = "session" /\ home[r] = s } IN
  /\ s \in reload
  /\ \/ s \in hidden /\ NoClick
     \/ Fault
  /\ reload' = reload \ {s}
  /\ load' = [r \in Run |-> IF r \in loads THEN NoLoad ELSE load[r]]
  /\ Break({ p \in Process : proc[p].pc = "session" /\ proc[p].sid = s }
             \cup UNION { Waiters(r) : r \in loads })
  /\ UNCHANGED <<serverVars, view, token, switch, latestSwitch, hiding>>
-----------------------------------------------------------------------------
(* performRunRequest, performRunAction and pollRunEvents. *)

\* Mutant: the run is taken to be of the session its request was sent from.
LaunchSession(p) == proc[p].launch
\* The session the answer names.
RunSession(p) == home[proc[p].run]

\* The run id is back: a request's run takes the view where it was sent from,
\* an action's takes it wherever the user is by now.
Served(p) ==
  LET r == proc[p].run
      s == RunSession(p)
      adopts == proc[p].kind # "message" \/
                ShouldAdoptStartedRun(view, r, s, proc[p].launch, proc[p].blank)
  IN
  /\ proc[p].pc = "served"
  /\ proc' = [proc EXCEPT ![p].pc = IF adopts THEN "session" ELSE "starting", ![p].sid = s]
  /\ IF adopts THEN view' = Adopt(view, r, s) /\ reload' = reload \cup {s}
               ELSE UNCHANGED <<view, reload>>
  /\ UNCHANGED <<serverVars, token, load, switch, latestSwitch, hiding, blind>>
  /\ NoClick

\* The session is loaded; the first snapshot is next.
Reloaded(p) ==
  /\ proc[p].pc = "reloaded"
  /\ Goto(p, "snapshot")
  /\ load' = StartLoad(load, proc[p].run)
  /\ UNCHANGED <<serverVars, view, token, reload, switch, latestSwitch, hiding, blind>>
  /\ NoClick

Start(p) ==
  /\ proc[p].pc = "starting"
  /\ StartLoop(p, proc[p].run, proc[p].sid, 0, proc[p].blank)
  /\ UNCHANGED <<serverVars, view, load, reload, switch, latestSwitch, hiding, blind>>
  /\ NoClick

\* A cancelled loop leaves after its delay, and what awaits it is over.
Leave(p) ==
  /\ \/ proc[p].pc = "leave"
     \/ proc[p].pc = "poll" /\ proc[p].cancelled
  /\ proc' = [proc EXCEPT ![p] = Idle]
  /\ UNCHANGED <<serverVars, view, token, load, reload, switch, latestSwitch, hiding, blind>>
  /\ NoClick

\* One answer of listRunEvents, to a loop cancelled since it asked as well: its events
\* are shown if they are the view's, and a refresh is awaited when one calls for it.
Poll(p) ==
  LET r == proc[p].run
      s == home[r]
      news == SubSeq(feed[r], proc[p].after + 1, Len(feed[r]))
      shown == news # <<>> /\ CanApplyActiveRunEvent(view, r, s, proc[p].blank)
      refreshes == shown /\ \E i \in DOMAIN news : EventNeedsSnapshotRefresh(news[i])
  IN
  /\ proc[p].pc = "poll"
  /\ view' = IF shown THEN ShowEvents(Adopt(view, r, s), news) ELSE view
  /\ reload' = IF shown THEN reload \cup {s} ELSE reload
  /\ load' = IF refreshes THEN StartLoad(load, r) ELSE load
  /\ proc' = [proc EXCEPT ![p].pc = IF refreshes THEN "refresh" ELSE "row",
                          ![p].after = Len(feed[r]), ![p].quiet = news = <<>>]
  /\ blind' = IF shown /\ proc[p].cancelled /\ view.rid # r THEN blind \cup {r} ELSE blind
  /\ UNCHANGED <<serverVars, token, switch, latestSwitch, hiding>>
  /\ NoClick

\* loadRun is answered.  A loop ends on a terminal row and an empty answer, with a
\* last refresh if the run is on display.
ReadRow(p) ==
  LET r == proc[p].run
      ends == row[r] \in TERMINAL_RUN_STATUSES /\ proc[p].quiet
      shows == ends /\ IsRunVisible(view, r, proc[p].sid)
  IN
  /\ proc[p].pc = "row"
  /\ proc' = [proc EXCEPT ![p].quiet = FALSE,
       ![p].pc = CASE ends -> IF shows THEN "last" ELSE "ending"
                   [] OTHER -> IF proc[p].cancelled THEN "leave" ELSE "poll"]
  /\ load' = IF shows THEN StartLoad(load, r) ELSE load
  /\ blind' = IF shows /\ load[r].pc # "none" THEN blind \cup {r} ELSE blind
  /\ UNCHANGED <<serverVars, view, token, reload, switch, latestSwitch, hiding>>
  /\ NoClick

\* The loop is forgotten, whoever's token the map holds by now.
End(p) ==
  /\ proc[p].pc = "ending"
  /\ proc' = [proc EXCEPT ![p] = Idle]
  /\ token' = [token EXCEPT ![proc[p].run] = "none"]
  /\ view' = IF row[proc[p].run] = "paused" /\ view.rid = proc[p].run
               THEN [view EXCEPT !.status = "paused"] ELSE view
  /\ UNCHANGED <<serverVars, load, reload, switch, latestSwitch, hiding, blind>>
  /\ NoClick

\* The catch of performRunRequest and of performRunAction; a resumed loop's only logs.
Catch(p) ==
  /\ proc[p].pc = "broken"
  /\ proc' = [proc EXCEPT ![p] = Idle]
  /\ view' = IF \/ p = "action"
                \/ p = "request" /\ ShouldUpdateLaunchSurface(view, proc[p].launch, proc[p].blank)
               THEN [view EXCEPT !.status = IF proc[p].kind \in REQUESTS THEN "running" ELSE "failed"]
               ELSE view
  /\ UNCHANGED <<serverVars, token, load, reload, switch, latestSwitch, hiding, blind>>
  /\ NoClick

\* The server refuses the request: the task named is not pending any more.
Refused(p) ==
  /\ proc[p].pc = "sending"
  /\ \/ proc[p].kind = "answer" /\ snap[proc[p].run] \notin AWAITING_STATUSES
     \/ proc[p].kind \notin REQUESTS /\ \A r \in Run : row[r] # NoRow   \* the bound on runs
  /\ Goto(p, "broken")
  /\ UNCHANGED <<serverVars, view, token, load, reload, switch, latestSwitch, hiding, blind>>
  /\ NoClick

\* An HTTP call fails.
Breaks(p) ==
  /\ proc[p].pc \in {"sending", "poll", "row"} /\ Fault
  /\ Break({p})
  /\ UNCHANGED <<serverVars, view, token, load, reload, switch, latestSwitch, hiding>>

\* The server has taken the request, but its answer is lost.
Loses(p) ==
  /\ proc[p].pc = "served" /\ clicks < MaxClicks /\ clicks' = clicks + 1
  /\ Break({p})
  /\ UNCHANGED <<serverVars, view, token, load, reload, switch, latestSwitch, hiding>>

-----------------------------------------------------------------------------
User ==
  \/ Send \/ Control \/ AnswerPending \/ NewSession
  \/ \E s \in Session : Hide(s) \/ \E k \in Slot : Switch(k, s)

Stops == { status \in {"paused", "cancelled"} : \E request \in Controls : status = EndOf(request) }
Worker(r) ==
  \/ \E status \in Outcomes \cup Stops : EmitResult(r, status)
  \/ Finish(r)

Serve(p) ==
  \/ \E r \in Run : ServeRequest(p, r) \/ ServeAnswer(p, r)
  \/ \E request \in Controls : ServeControl(p, request)

RunOn(p) == Served(p) \/ Reloaded(p) \/ Start(p) \/ End(p) \/ Catch(p)
Answer(p) == Serve(p) \/ Leave(p) \/ Poll(p) \/ ReadRow(p) \/ Refused(p)
Loads ==
  \/ \E r \in Run : SnapshotLoads(r) \/ SnapshotShows(r) \/ SnapshotBreaks(r)
  \/ \E s \in Session : SessionReloads(s) \/ SessionBreaks(s)
Switches == \E k \in Slot : SwitchLoads(k) \/ SwitchShows(k) \/ SwitchShowsEmpty(k)

\* One turn of the event loop, or a step of the server.
Turn ==
  \/ Hidden \/ Loads \/ Switches
  \/ \E r \in Run : Worker(r)
  \/ \E p \in Process : Answer(p) \/ Breaks(p)

Continue ==
  \/ \E r \in Run : LoadEnds(r)
  \/ \E p \in Process : RunOn(p)

Next ==
  \/ User
  \/ Settled /\ Turn
  \/ Continue
  \/ \E p \in Process : Loses(p)

Spec == Init /\ [][Next]_vars

\* Workers end their runs, the server answers and the event loop runs; nobody makes
\* the user click or a call fail.  Loads and ends of runs are finitely many, so that
\* fairness to all of them together is fairness to each.
Fairness ==
  /\ WF_vars(Settled /\ \E r \in Run : Finish(r) \/ \E status \in Outcomes : EmitResult(r, status))
  /\ WF_vars(Settled /\ Loads)
  /\ \A p \in Process : WF_vars(Settled /\ Answer(p))
  /\ WF_vars(Continue)

FairSpec == Spec /\ Fairness
-----------------------------------------------------------------------------
(* Properties. *)

TypeOK ==
  /\ row \in [Run -> ALL_RUN_STATUSES \cup {NoRow}]
  /\ snap \in [Run -> ALL_RUN_STATUSES \cup {NoRow}]
  /\ home \in [Run -> Session \cup {NoSession}]
  /\ view.sid \in Session \cup {NoSession} /\ view.rid \in Run \cup {NoRun}
  /\ view.result \in Session \cup {NoSession}
  /\ \A p \in Process :
       /\ proc[p].pc \in LoopPcs \cup WaitPcs \cup RunningOnPcs \cup {"idle", "sending", "session"}
       /\ proc[p].pc \notin {"idle", "sending", "served", "broken"} => home[proc[p].run] = proc[p].sid
  /\ \A r \in Run : token[r] \in Process \cup {"none"}

\* The run on display is a run of the session on display, whatever answers come
\* in after the user has moved on.
ViewRunOfSession ==
  view.sid # NoSession /\ view.rid # NoRun => home[view.rid] = view.sid

\* Nothing that runs in the background (a poll loop, a snapshot or session load, the run
\* id of a message, an earlier switch) turns the view to another session, or puts
\* another session's transcript or another run's snapshot under it.
Background ==
  \/ \E r \in Run : SnapshotShows(r)
  \/ \E s \in Session : SessionReloads(s)
  \/ \E p \in Process : Poll(p) \/ End(p)
  \/ Served("request")
  \/ \E k \in Slot : ~(switch[k].token = latestSwitch) /\ (SwitchShows(k) \/ SwitchShowsEmpty(k))
BackgroundKeepsView ==
  [][Background /\ view.sid # NoSession =>
       /\ view'.sid = view.sid
       /\ view'.result # view.result => view'.result = view.sid
       /\ view'.snap.run # view.snap.run => home[view'.snap.run] = view.sid]_vars

\* requestInFlight is released in the end, unless the run was handed over to
\* another one before its loop saw it end: "resumed" ends no loop.
RequestReleased ==
  proc["request"].pc # "idle"
    ~> (proc["request"].pc = "idle" \/ \E r \in Run : proc["request"].run = r /\ row[r] = "resumed")

\* A run on display is shown as ended some time after it has ended, unless it was
\* handed over, its loop took an older snapshot load for its last one, a call failed,
\* or the load of an ended loop or the last answer to a cancelled one brought it back.
ShownStale ==
  \E r \in Run : /\ view.rid = r /\ view.status \in ACTIVE_RUN_STATUSES
                 /\ row[r] \in TERMINAL_RUN_STATUSES \ {"resumed"} /\ r \notin blind
EndIsShown == []<>~ShownStale
=============================================================================
