------------------------ MODULE DesktopClient_proofs ------------------------
(***************************************************************************)
(* Proofs about DesktopClient: whatever answers arrive late, the view      *)
(* keeps to the session the user chose and to a run of that session.       *)
(***************************************************************************)
EXTENDS DesktopClient, FiniteSetTheorems, SequenceTheorems, TLAPS

(* What the properties rest on: a run has a session once it has begun and  *)
(* for good, and every pending answer carries the run and the session it   *)
(* was asked for.                                                          *)

ViewFields == {"sid", "rid", "status", "snap", "result", "last"}
ProcFields == {"pc", "kind", "run", "sid", "blank", "launch", "after", "quiet", "cancelled"}
SwitchFields == {"pc", "token", "sid", "run", "status", "after"}

AllPcs == LoopPcs \cup WaitPcs \cup RunningOnPcs \cup {"idle", "sending", "session"}

RunEvent(r) == [run : {r}, name : ALL_RUN_STATUSES \cup {"question"}, status : ALL_RUN_STATUSES]

Begun(r) == r \in Run /\ row[r] # NoRow

ServerInv ==
  /\ row \in [Run -> ALL_RUN_STATUSES \cup {NoRow}]
  /\ snap \in [Run -> ALL_RUN_STATUSES \cup {NoRow}]
  /\ home \in [Run -> Session \cup {NoSession}]
  /\ \A r \in Run : row[r] # NoRow => home[r] \in Session /\ snap[r] # NoRow
  /\ \A r \in Run : row[r] = NoRow => home[r] = NoSession
  /\ DOMAIN feed = Run /\ \A r \in Run : feed[r] \in Seq(RunEvent(r))
  /\ begun \in Seq(Run)

ViewInv ==
  /\ DOMAIN view = ViewFields
  /\ view.sid \in Session \cup {NoSession}
  /\ view.result \in Session \cup {NoSession}
  /\ view.rid \in Run \cup {NoRun}
  /\ view.rid # NoRun => Begun(view.rid) /\ home[view.rid] = view.sid

\* An asynchronous function knows its run and the session of it, until a call of it
\* fails; a message that was sent from a session is answered with a run of that session.
ProcOk(p) ==
  /\ DOMAIN proc[p] = ProcFields
  /\ proc[p].pc \in AllPcs
  /\ proc[p].after \in Nat
  /\ proc[p].pc = "sending" /\ proc[p].kind # "message" => Begun(proc[p].run)
  /\ proc[p].pc \notin {"idle", "sending", "broken"} => Begun(proc[p].run)
  /\ proc[p].pc \notin {"idle", "sending", "served", "broken"} => home[proc[p].run] = proc[p].sid
  /\ p = "request" =>
       /\ proc[p].pc # "idle" => proc[p].kind = "message"
       /\ proc[p].pc = "sending" => proc[p].launch = proc[p].sid
       /\ proc[p].pc \notin {"idle", "sending", "broken"} /\ proc[p].launch # NoSession =>
            home[proc[p].run] = proc[p].launch

ProcInv == DOMAIN proc = Process /\ \A p \in Process : ProcOk(p)

TokenInv == DOMAIN token = Run /\ \A r \in Run : token[r] \in Process \cup {"none"}

LoadInv ==
  /\ DOMAIN load = Run
  /\ \A r \in Run : DOMAIN load[r] = {"pc", "status"} /\ (load[r].pc # "none" => row[r] # NoRow)
  /\ reload \subseteq Session

SwitchOk(k) ==
  /\ DOMAIN switch[k] = SwitchFields
  /\ switch[k].after \in Nat
  /\ switch[k].pc # "none" => switch[k].sid \in Session
  /\ switch[k].pc = "run" => Begun(switch[k].run) /\ home[switch[k].run] = switch[k].sid

SwitchInv == DOMAIN switch = Slot /\ \A k \in Slot : SwitchOk(k)

IInv == ServerInv /\ ViewInv /\ ProcInv /\ TokenInv /\ LoadInv /\ SwitchInv

-----------------------------------------------------------------------------
(* What stays when a step leaves it alone *)

\* A run that has begun stays begun, in its session.
Grows == \A r \in Run : row[r] # NoRow => row'[r] # NoRow /\ home'[r] = home[r]

LEMMA ServerStays ==
  ASSUME ServerInv, UNCHANGED serverVars
  PROVE  ServerInv' /\ Grows
BY DEF ServerInv, Grows, serverVars

LEMMA ViewStays ==
  ASSUME ViewInv, Grows, view' = view
  PROVE  ViewInv'
BY DEF ViewInv, Grows, Begun

LEMMA ProcOkStays ==
  ASSUME NEW p, ProcOk(p), Grows, proc'[p] = proc[p]
  PROVE  ProcOk(p)'
BY DEF ProcOk, Grows, Begun

LEMMA ProcStays ==
  ASSUME ProcInv, Grows, proc' = proc
  PROVE  ProcInv'
BY ProcOkStays DEF ProcInv

LEMMA TokenStays ==
  ASSUME TokenInv, token' = token
  PROVE  TokenInv'
BY DEF TokenInv

LEMMA LoadStays ==
  ASSUME LoadInv, Grows, load' = load, reload' = reload
  PROVE  LoadInv'
BY DEF LoadInv, Grows

LEMMA SwitchStays ==
  ASSUME SwitchInv, Grows, switch' = switch
  PROVE  SwitchInv'
BY DEF SwitchInv, SwitchOk, Grows, Begun

-----------------------------------------------------------------------------
(* The initial state, and the server *)

LEMMA Initially == Init => IInv
<1> SUFFICES ASSUME Init PROVE IInv
    OBVIOUS
<1>1. ServerInv
      BY DEF Init, ServerInv
<1>2. ViewInv
      BY DEF Init, ViewInv, EmptyView, ViewFields, NoSnapshotShown, NoEvent
<1>3. ProcInv
      BY DEF Init, ProcInv, ProcOk, Idle, ProcFields, AllPcs
<1>4. TokenInv /\ LoadInv
      BY DEF Init, TokenInv, LoadInv, NoLoad
<1>5. SwitchInv
      BY DEF Init, SwitchInv, SwitchOk, NoSwitch, SwitchFields
<1> QED BY <1>1, <1>2, <1>3, <1>4, <1>5 DEF IInv

LEMMA StatusesAreNoNoRow ==
  /\ NoRow \notin ALL_RUN_STATUSES
  /\ ACTIVE_RUN_STATUSES \subseteq ALL_RUN_STATUSES
  /\ REQUESTS \subseteq ACTIVE_RUN_STATUSES
  /\ RESULT_STATUSES \subseteq ALL_RUN_STATUSES
  /\ {"resumed", "running", "paused", "cancelled"} \subseteq ALL_RUN_STATUSES
BY DEF NoRow, ALL_RUN_STATUSES, ACTIVE_RUN_STATUSES, REQUESTS, RESULT_STATUSES, COMPLETED_AT_STATUSES

LEMMA BeginKeeps ==
  ASSUME ServerInv, NEW r \in Run, NEW s \in Session, Begin(r, s), feed' = feed
  PROVE  ServerInv' /\ Grows /\ Begun(r)' /\ home'[r] = s
<1>1. /\ row[r] = NoRow
      /\ row' = [row EXCEPT ![r] = "running"]
      /\ home' = [home EXCEPT ![r] = s]
      /\ snap' = [snap EXCEPT ![r] = "running"]
      /\ begun' = Append(begun, r)
      BY DEF Begin
<1>2. begun' \in Seq(Run)
      BY <1>1 DEF ServerInv
<1> QED BY <1>1, <1>2, StatusesAreNoNoRow DEF ServerInv, Grows, Begun

LEMMA EmitResultKeeps ==
  ASSUME ServerInv, NEW r \in Run, NEW status \in RESULT_STATUSES, EmitResult(r, status)
  PROVE  ServerInv' /\ Grows
<1> DEFINE e == [run |-> r, name |-> EventName(status), status |-> status]
<1>1. /\ snap' = [snap EXCEPT ![r] = status] /\ UNCHANGED <<row, home, begun>>
      /\ feed' = [feed EXCEPT ![r] = Append(@, e)]
      BY DEF EmitResult
<1>2. e \in RunEvent(r)
      BY StatusesAreNoNoRow DEF RunEvent, EventName
<1>3. Append(feed[r], e) \in Seq(RunEvent(r))
      BY <1>2 DEF ServerInv
<1> QED BY <1>1, <1>3, StatusesAreNoNoRow DEF ServerInv, Grows

LEMMA FinishKeeps ==
  ASSUME ServerInv, NEW r \in Run, Finish(r)
  PROVE  ServerInv' /\ Grows
BY StatusesAreNoNoRow DEF ServerInv, Grows, Finish

LEMMA ServeRequestKeeps ==
  ASSUME ServerInv, NEW p \in Process, NEW r \in Run, ServeRequest(p, r)
  PROVE  ServerInv' /\ Grows /\ Begun(r)'
BY BeginKeeps DEF ServeRequest

LEMMA ServeControlKeeps ==
  ASSUME ServerInv, ProcInv, NEW p \in Process, NEW request \in REQUESTS, ServeControl(p, request)
  PROVE  ServerInv' /\ Grows
<1>1. Begun(proc[p].run)
      BY DEF ProcInv, ProcOk, ServeControl, REQUESTS
<1>2. \/ row' = row
      \/ row' = [row EXCEPT ![proc[p].run] = request]
      BY DEF ServeControl
<1>3. UNCHANGED <<home, snap, feed, begun>>
      BY DEF ServeControl
<1> QED BY <1>1, <1>2, <1>3, StatusesAreNoNoRow DEF ServerInv, Grows, Begun

LEMMA ServeAnswerKeeps ==
  ASSUME ServerInv, ProcInv, NEW p \in Process, NEW r \in Run, ServeAnswer(p, r)
  PROVE  ServerInv' /\ Grows /\ Begun(r)'
<1> DEFINE q == proc[p].run
<1>1. Begun(q)
      BY DEF ProcInv, ProcOk, ServeAnswer
<1>2. PICK status \in ALL_RUN_STATUSES : row' = [row EXCEPT ![r] = "running", ![q] = status]
  <2>1. row[q] \in ALL_RUN_STATUSES /\ q # r
        BY <1>1 DEF Begun, ServerInv, ServeAnswer
  <2>2. row' = [row EXCEPT ![r] = "running",
                           ![q] = IF CanMarkResumed(row[q]) THEN "resumed" ELSE row[q]]
        BY <2>1 DEF ServeAnswer, ServerInv
  <2> QED BY <2>1, <2>2, StatusesAreNoNoRow
<1>3. /\ row[r] = NoRow /\ home' = [home EXCEPT ![r] = home[q]]
      /\ snap' = [snap EXCEPT ![r] = "running"]
      /\ begun' \in Seq(Run) /\ feed' = feed
      BY DEF ServeAnswer, ServerInv
<1>4. home[q] \in Session /\ q \in Run /\ q # r
      BY <1>1, <1>3 DEF Begun, ServerInv
<1> HIDE DEF q
<1>5. /\ row' \in [Run -> ALL_RUN_STATUSES \cup {NoRow}]
      /\ \A o \in Run : row'[o] = NoRow <=> row[o] = NoRow /\ o # r
      BY <1>2, <1>4, StatusesAreNoNoRow, <1>1 DEF ServerInv, Begun
<1>6. /\ snap' \in [Run -> ALL_RUN_STATUSES \cup {NoRow}]
      /\ home' \in [Run -> Session \cup {NoSession}]
      /\ home'[r] \in Session /\ snap'[r] # NoRow
      /\ \A o \in Run \ {r} : home'[o] = home[o] /\ snap'[o] = snap[o]
      BY <1>3, <1>4, StatusesAreNoNoRow DEF ServerInv
<1> QED BY <1>3, <1>5, <1>6 DEF ServerInv, Grows, Begun

LEMMA ServerStep ==
  ASSUME ServerInv, ProcInv, [Next]_vars
  PROVE  ServerInv' /\ Grows
<1>1. CASE UNCHANGED serverVars
      BY <1>1, ServerStays
<1>2. ASSUME NEW r \in Run, Worker(r) PROVE ServerInv' /\ Grows
  <2>1. Outcomes \cup Stops \subseteq RESULT_STATUSES
        BY OutcomeAssumption DEF Stops, EndOf, RESULT_STATUSES, COMPLETED_AT_STATUSES
  <2> QED BY <1>2, <2>1, EmitResultKeeps, FinishKeeps DEF Worker
<1>3. ASSUME NEW p \in Process, Serve(p) PROVE ServerInv' /\ Grows
  <2>1. Controls \subseteq REQUESTS
        BY OutcomeAssumption
  <2> QED BY <1>3, <2>1, ServeRequestKeeps, ServeControlKeeps, ServeAnswerKeeps DEF Serve
<1>4. ASSUME NEW s \in Session, Hide(s) PROVE ServerInv' /\ Grows
      BY <1>4 DEF Hide, ServerInv, Grows
<1>5. ASSUME User, ~\E s \in Session : Hide(s) PROVE UNCHANGED serverVars
      BY <1>5 DEF User, Send, Control, AnswerPending, Act, NewSession, Switch
<1>6. ASSUME Hidden \/ Loads \/ Switches PROVE UNCHANGED serverVars
      BY <1>6 DEF Hidden, Loads, Switches, SnapshotLoads, SnapshotShows, SnapshotBreaks, SessionReloads,
                  SessionBreaks, SwitchLoads, SwitchShows, ShowSession, SwitchShowsEmpty
<1>7. ASSUME NEW p \in Process, Answer(p) \/ Breaks(p) \/ Loses(p), ~Serve(p) PROVE UNCHANGED serverVars
      BY <1>7 DEF Answer, Leave, Poll, ReadRow, Refused, Breaks, Loses
<1>8. ASSUME Continue PROVE UNCHANGED serverVars
      BY <1>8 DEF Continue, LoadEnds, RunOn, Served, Reloaded, Start, End, Catch
<1> QED BY <1>1, <1>2, <1>3, <1>4, <1>5, <1>6, <1>7, <1>8 DEF Next, Turn, vars

-----------------------------------------------------------------------------
(* The view *)

LEMMA EmptyViewOk ==
  ASSUME NEW s \in Session \cup {NoSession}, view' = EmptyView(s)
  PROVE  ViewInv'
BY DEF ViewInv, EmptyView, ViewFields

LEMMA AdoptOk ==
  ASSUME ServerInv, ViewInv, Grows, NEW r \in Run, row[r] # NoRow, NEW v,
         v = Adopt(view, r, home[r]),
         DOMAIN view' = DOMAIN v, view'.sid = v.sid, view'.rid = v.rid, view'.result = v.result
  PROVE  ViewInv'
<1>1. v.sid = home[r] /\ v.rid = r /\ v.result = view.result /\ DOMAIN v = ViewFields
      BY DEF Adopt, ViewInv, ViewFields
<1>2. home[r] \in Session /\ home'[r] = home[r] /\ row'[r] # NoRow
      BY DEF ServerInv, Grows
<1> QED BY <1>1, <1>2 DEF ViewInv, Begun

\* A step that changes what the view shows of the same run.
LEMMA SameRunOk ==
  ASSUME ViewInv, Grows, DOMAIN view' = DOMAIN view,
         view'.sid = view.sid, view'.rid = view.rid, view'.result = view.result
  PROVE  ViewInv'
BY DEF ViewInv, Grows, Begun

LEMMA ViewUser ==
  ASSUME ViewInv, Grows, User
  PROVE  ViewInv'
<1>1. ASSUME NEW v, v = BeginVisibleRun(view, TRUE) \/ v = BeginVisibleRun(view, IsAwaiting(view))
      PROVE  /\ DOMAIN v = DOMAIN view
             /\ v.sid = view.sid /\ v.rid = view.rid /\ v.result = view.result
      BY <1>1 DEF BeginVisibleRun, ViewInv, ViewFields
<1>2. CASE Send
      BY <1>1, <1>2, SameRunOk DEF Send
<1>3. ASSUME NEW kind, NEW status, Act(kind, status) PROVE ViewInv'
  <2>1. view' = [BeginVisibleRun(view, TRUE) EXCEPT !.status = status]
        BY <1>3 DEF Act
  <2> QED BY <1>1, <2>1, SameRunOk DEF ViewInv, ViewFields
<1>4. CASE Control \/ AnswerPending
      BY <1>3, <1>4 DEF Control, AnswerPending
<1>5. CASE NewSession
      BY <1>5, EmptyViewOk DEF NewSession
<1>6. ASSUME NEW s \in Session, Hide(s) PROVE ViewInv'
      BY <1>6, ViewStays DEF Hide
<1>7. ASSUME NEW s \in Session, NEW k \in Slot, Switch(k, s) PROVE ViewInv'
      BY <1>7, ViewStays DEF Switch
<1> QED BY <1>2, <1>4, <1>5, <1>6, <1>7 DEF User

LEMMA ViewLoads ==
  ASSUME IInv, Grows, Loads
  PROVE  ViewInv'
<1>1. ASSUME NEW r \in Run, SnapshotLoads(r) PROVE ViewInv'
      BY <1>1, ViewStays DEF IInv, SnapshotLoads
<1>2. ASSUME NEW r \in Run, SnapshotShows(r) PROVE ViewInv'
  <2>1. CASE view' = view
        BY <2>1, ViewStays DEF IInv
  <2>2. CASE view' # view
    <3>1. view' = [Adopt(view, r, home[r]) EXCEPT !.snap = [run |-> r, status |-> load[r].status],
                                                  !.status = load[r].status]
          BY <1>2, <2>2 DEF SnapshotShows
    <3>2. row[r] # NoRow
          BY <1>2 DEF SnapshotShows, IInv, LoadInv
    <3> DEFINE v == Adopt(view, r, home[r])
    <3>3. DOMAIN v = ViewFields
          BY DEF Adopt, IInv, ViewInv
    <3>4. /\ DOMAIN view' = DOMAIN v /\ view'.sid = v.sid
          /\ view'.rid = v.rid /\ view'.result = v.result
          BY <3>1, <3>3 DEF ViewFields
    <3> QED BY <3>2, <3>4, AdoptOk DEF IInv
  <2> QED BY <2>1, <2>2
<1>3. ASSUME NEW s \in Session, SessionReloads(s) PROVE ViewInv'
      BY <1>3 DEF SessionReloads, IInv, ViewInv, ViewFields, Grows, Begun
<1>4. ASSUME (\E r \in Run : SnapshotBreaks(r)) \/ (\E s \in Session : SessionBreaks(s)) PROVE ViewInv'
      BY <1>4, ViewStays DEF SnapshotBreaks, SessionBreaks, IInv
<1> QED BY <1>1, <1>2, <1>3, <1>4 DEF Loads

LEMMA ViewSwitches ==
  ASSUME IInv, Grows, NEW k \in Slot, SwitchLoads(k) \/ SwitchShows(k) \/ SwitchShowsEmpty(k)
  PROVE  ViewInv'
<1>1. CASE view' = view
      BY <1>1, ViewStays DEF IInv
<1>2. CASE view' # view /\ SwitchShows(k)
  <2> DEFINE r == switch[k].run
             s == switch[k].sid
  <2>1. /\ DOMAIN view' = ViewFields
        /\ view'.sid = s /\ view'.rid = r /\ view'.result = s
        BY <1>2 DEF SwitchShows, ShowSession, EmptyView, ViewFields
  <2>2. Begun(r) /\ home[r] = s /\ s \in Session
        BY <1>2 DEF SwitchShows, ShowSession, IInv, SwitchInv, SwitchOk
  <2> QED BY <2>1, <2>2 DEF ViewInv, Begun, Grows
<1>3. CASE view' # view /\ SwitchShowsEmpty(k)
  <2>1. switch[k].sid \in Session
        BY <1>3 DEF SwitchShowsEmpty, IInv, SwitchInv, SwitchOk
  <2> QED BY <1>3, <2>1, EmptyViewOk DEF SwitchShowsEmpty
<1> QED BY <1>1, <1>2, <1>3 DEF SwitchLoads

LEMMA ViewProcess ==
  ASSUME IInv, Grows, NEW p \in Process, Answer(p) \/ Breaks(p) \/ Loses(p) \/ RunOn(p)
  PROVE  ViewInv'
<1>1. CASE view' = view
      BY <1>1, ViewStays DEF IInv
<1>2. DOMAIN view = ViewFields
      BY DEF IInv, ViewInv
<1>3. ASSUME Catch(p) PROVE ViewInv'
      BY <1>1, <1>2, <1>3, SameRunOk DEF Catch, IInv, ViewFields
<1>4. CASE End(p)
      BY <1>1, <1>2, <1>4, SameRunOk DEF End, IInv, ViewFields
<1>5. ASSUME proc[p].pc \notin {"idle", "sending", "broken"} PROVE Begun(proc[p].run)
      BY <1>5 DEF IInv, ProcInv, ProcOk
<1>6. CASE Served(p) /\ view' # view
  <2>1. view' = Adopt(view, proc[p].run, home[proc[p].run])
        BY <1>6 DEF Served, RunSession
  <2>2. Begun(proc[p].run)
        BY <1>5, <1>6 DEF Served
  <2> QED BY <2>1, <2>2, AdoptOk DEF IInv, Begun
<1>7. CASE Poll(p) /\ view' # view
  <2> DEFINE r == proc[p].run
             v == Adopt(view, r, home[r])
             news == SubSeq(feed[r], proc[p].after + 1, Len(feed[r]))
  <2>1. view' = ShowEvents(v, news)
        BY <1>7 DEF Poll
  <2>2. Begun(r)
        BY <1>5, <1>7 DEF Poll
  <2>3. DOMAIN v = ViewFields
        BY <1>2 DEF Adopt
  <2> HIDE DEF v, news
  <2>4. /\ DOMAIN view' = DOMAIN v /\ view'.sid = v.sid
        /\ view'.rid = v.rid /\ view'.result = v.result
        BY <2>1, <2>3 DEF ShowEvents, ViewFields
  <2> QED BY <2>2, <2>4, AdoptOk DEF IInv, Begun, v
<1> QED BY <1>1, <1>3, <1>4, <1>6, <1>7
        DEF Answer, Serve, ServeRequest, ServeControl, ServeAnswer, Leave, ReadRow, Refused,
            Breaks, Loses, RunOn, Reloaded, Start

LEMMA ViewStep ==
  ASSUME IInv, [Next]_vars
  PROVE  ViewInv'
<1>1. Grows
      BY ServerStep DEF IInv
<1>2. CASE view' = view
      BY <1>1, <1>2, ViewStays DEF IInv
<1>3. CASE Hidden
      BY <1>2, <1>3, EmptyViewOk DEF Hidden
<1>4. ASSUME NEW r \in Run, Worker(r) \/ LoadEnds(r) PROVE view' = view
      BY <1>4 DEF Worker, EmitResult, Finish, LoadEnds, clientVars
<1> QED BY <1>1, <1>2, <1>3, <1>4, ViewUser, ViewLoads, ViewSwitches, ViewProcess
        DEF Next, Turn, Continue, Switches, IInv, vars, clientVars

-----------------------------------------------------------------------------
(* The asynchronous functions *)

\* A function that goes on with the run and the session it has.
LEMMA GoesOnOk ==
  ASSUME NEW p, ProcOk(p), Grows, proc[p].pc \notin {"idle", "sending", "served", "broken"},
         DOMAIN proc'[p] = ProcFields, proc'[p].pc \in AllPcs \ {"idle", "sending"},
         proc'[p].after \in Nat,
         proc'[p].run = proc[p].run, proc'[p].sid = proc[p].sid,
         proc'[p].kind = proc[p].kind, proc'[p].launch = proc[p].launch
  PROVE  ProcOk(p)'
BY DEF ProcOk, Begun, Grows

LEMMA IdleOk ==
  ASSUME NEW p, proc'[p] = Idle
  PROVE  ProcOk(p)'
BY DEF ProcOk, Idle, ProcFields, AllPcs

\* A step of one function.
LEMMA OneProcess ==
  ASSUME ProcInv, Grows, NEW p \in Process, DOMAIN proc' = Process, ProcOk(p)',
         \A q \in Process \ {p} : proc'[q] = proc[q]
  PROVE  ProcInv'
BY ProcOkStays DEF ProcInv

\* A failed call takes everything that awaits it out of its run.
LEMMA BreakOk ==
  ASSUME ProcInv, Grows, NEW broken, Break(broken), \A p \in broken : proc[p].pc # "idle"
  PROVE  ProcInv'
<1>1. DOMAIN proc' = Process
      BY DEF Break
<1>2. ASSUME NEW p \in Process PROVE ProcOk(p)'
  <2>1. CASE p \notin broken
        BY <2>1, ProcOkStays DEF Break, ProcInv
  <2>2. CASE p \in broken
    <3>1. ProcOk(p) /\ proc[p].pc # "idle" /\ DOMAIN proc[p] = ProcFields
          BY <2>2 DEF ProcInv, ProcOk
    <3>2. proc'[p] = [proc[p] EXCEPT !.pc = "broken"]
          BY <2>2 DEF Break
    <3>3. /\ DOMAIN proc'[p] = ProcFields /\ proc'[p].pc = "broken"
          /\ proc'[p].after = proc[p].after /\ proc'[p].kind = proc[p].kind
          BY <3>1, <3>2 DEF ProcFields
    <3> QED BY <3>1, <3>3 DEF ProcOk, AllPcs, RunningOnPcs
  <2> QED BY <2>1, <2>2
<1> QED BY <1>1, <1>2 DEF ProcInv

LEMMA LastSeqIsNat ==
  ASSUME ServerInv, NEW r \in Run, NEW known \in Nat
  PROVE  LastSeq(r, known) \in Nat
<1> DEFINE earlier == { i \in DOMAIN begun : begun[i] # r /\ home[begun[i]] = home[r] }
           parts == { {i} \X DOMAIN feed[begun[i]] : i \in earlier }
           offset == Cardinality(UNION parts)
<1>1. begun \in Seq(Run) /\ \A q \in Run : feed[q] \in Seq(RunEvent(q))
      BY DEF ServerInv
<1>2. IsFiniteSet(earlier)
  <2>1. IsFiniteSet(1..Len(begun))
        BY <1>1, FS_Interval
  <2> QED BY <1>1, <2>1, FS_Subset
<1>3. IsFiniteSet(parts)
  <2> DEFINE f == [i \in earlier |-> {i} \X DOMAIN feed[begun[i]]]
  <2>1. f \in Surjection(earlier, parts)
        BY DEF Surjection
  <2> QED BY <1>2, <2>1, FS_Surjection
<1>4. ASSUME NEW part \in parts PROVE IsFiniteSet(part)
  <2>1. PICK i \in earlier : part = {i} \X DOMAIN feed[begun[i]]
        OBVIOUS
  <2>2. IsFiniteSet(1..Len(feed[begun[i]])) /\ DOMAIN feed[begun[i]] = 1..Len(feed[begun[i]])
        BY <1>1, FS_Interval
  <2>3. IsFiniteSet({i})
        BY FS_Singleton
  <2> QED BY <2>1, <2>2, <2>3, FS_Product
<1>5. offset \in Nat
      BY <1>3, <1>4, FS_UNION, FS_CardinalityType
<1>6. Len(feed[r]) \in Nat
      BY <1>1
<1>7. LastSeq(r, known) = IF Len(feed[r]) > known + offset THEN Len(feed[r]) - offset ELSE known
      BY DEF LastSeq
<1> HIDE DEF offset
<1> QED BY <1>5, <1>6, <1>7

LEMMA StartLoopOk ==
  ASSUME ProcInv, TokenInv, Grows, NEW p \in Process, NEW r, NEW s, NEW after \in Nat, NEW blank,
         StartLoop(p, r, s, after, blank), Begun(r), home[r] = s,
         p = "request" => proc[p].kind = "message" /\ proc[p].launch \in {s, NoSession}
  PROVE  ProcInv' /\ TokenInv'
<1>1. TokenInv'
      BY DEF TokenInv, StartLoop, Begun
<1>2. DOMAIN proc' = Process
      BY DEF StartLoop
<1>3. ProcOk(p)'
  <2>1. /\ proc'[p] = [proc[p] EXCEPT !.pc = "poll", !.run = r, !.sid = s, !.after = after,
                                      !.blank = blank, !.quiet = FALSE, !.cancelled = FALSE]
        /\ DOMAIN proc[p] = ProcFields
        BY DEF StartLoop, ProcInv, ProcOk
  <2>2. /\ DOMAIN proc'[p] = ProcFields /\ proc'[p].pc = "poll" /\ proc'[p].run = r
        /\ proc'[p].sid = s /\ proc'[p].after = after
        /\ proc'[p].kind = proc[p].kind /\ proc'[p].launch = proc[p].launch
        BY <2>1 DEF ProcFields
  <2>3. Begun(r)' /\ home'[r] = s
        BY DEF Begun, Grows
  <2> QED BY <2>2, <2>3 DEF ProcOk, AllPcs, LoopPcs, Begun
<1>4. ASSUME NEW q \in Process \ {p} PROVE ProcOk(q)'
  <2>1. CASE proc'[q] = proc[q]
        BY <2>1, ProcOkStays DEF ProcInv
  <2>2. CASE proc'[q] = [proc[q] EXCEPT !.cancelled = TRUE] /\ proc[q].pc \in LoopPcs
        BY <2>2, GoesOnOk DEF ProcInv, ProcOk, ProcFields, LoopPcs
  <2> QED BY <2>1, <2>2 DEF StartLoop
<1> QED BY <1>1, <1>2, <1>3, <1>4 DEF ProcInv

LEMMA ProcUser ==
  ASSUME IInv, Grows, User
  PROVE  ProcInv'
<1>1. CASE Send
  <2> DEFINE sent == [Idle EXCEPT !.pc = "sending", !.kind = "message", !.sid = view.sid,
                                  !.blank = view.sid = NoSession, !.launch = view.sid]
  <2>1. proc' = [proc EXCEPT !["request"] = sent]
        BY <1>1 DEF Send
  <2>2. /\ DOMAIN sent = ProcFields /\ sent.pc = "sending" /\ sent.kind = "message"
        /\ sent.launch = sent.sid /\ sent.after = 0
        BY DEF Idle, ProcFields
  <2> HIDE DEF sent
  <2>3. DOMAIN proc' = Process /\ proc'["request"] = sent
        BY <2>1 DEF IInv, ProcInv, Process
  <2>4. ProcOk("request")'
        BY <2>2, <2>3 DEF ProcOk, AllPcs
  <2>5. "request" \in Process /\ \A q \in Process \ {"request"} : proc'[q] = proc[q]
        BY <2>1 DEF IInv, ProcInv, Process
  <2> QED BY <2>3, <2>4, <2>5, OneProcess DEF IInv
<1>2. ASSUME NEW kind, kind # "message", NEW status, Act(kind, status) PROVE ProcInv'
  <2> DEFINE sent == [Idle EXCEPT !.pc = "sending", !.kind = kind, !.run = view.rid]
  <2>1. proc' = [proc EXCEPT !["action"] = sent] /\ view.rid # NoRun
        BY <1>2 DEF Act
  <2>2. /\ DOMAIN sent = ProcFields /\ sent.pc = "sending" /\ sent.kind = kind
        /\ sent.run = view.rid /\ sent.after = 0
        BY DEF Idle, ProcFields
  <2> HIDE DEF sent
  <2>3. DOMAIN proc' = Process /\ proc'["action"] = sent
        BY <2>1 DEF IInv, ProcInv, Process
  <2>4. PICK o \in Run : o = view.rid /\ row[o] # NoRow
        BY <2>1 DEF IInv, ViewInv, Begun
  <2>5. ProcOk("action")'
    <3>1. row'[o] # NoRow
          BY <2>4 DEF Grows
    <3>2. /\ DOMAIN proc'["action"] = ProcFields /\ proc'["action"].pc = "sending"
          /\ proc'["action"].run = o /\ proc'["action"].after = 0
          BY <2>2, <2>3, <2>4
    <3> QED BY <3>1, <3>2 DEF ProcOk, AllPcs, Begun
  <2>6. "action" \in Process /\ \A q \in Process \ {"action"} : proc'[q] = proc[q]
        BY <2>1 DEF IInv, ProcInv, Process
  <2> QED BY <2>3, <2>5, <2>6, OneProcess DEF IInv
<1>3. CASE Control
  <2>1. PICK request \in REQUESTS : Act(request, request)
        BY <1>3, OutcomeAssumption DEF Control
  <2> QED BY <1>2, <2>1 DEF REQUESTS
<1>4. CASE AnswerPending
      BY <1>2, <1>4 DEF AnswerPending
<1>5. ASSUME NewSession \/ \E s \in Session : Hide(s) \/ \E k \in Slot : Switch(k, s)
      PROVE ProcInv'
      BY <1>5, ProcStays DEF NewSession, Hide, Switch, IInv
<1> QED BY <1>1, <1>3, <1>4, <1>5 DEF User

\* The server's answers to requests.
LEMMA ProcServe ==
  ASSUME IInv, NEW p \in Process, Serve(p)
  PROVE  ProcInv'
<1>1. DOMAIN proc[p] = ProcFields /\ proc[p].after \in Nat /\ DOMAIN proc = Process
      BY DEF IInv, ProcInv, ProcOk
<1>2. ASSUME NEW r \in Run, ServeRequest(p, r) PROVE ProcInv'
  <2>1. PICK s \in Session :
          /\ Begin(r, s) /\ (proc[p].sid # NoSession => s = proc[p].sid)
          /\ proc' = [proc EXCEPT ![p].pc = "served", ![p].run = r, ![p].sid = s]
        BY <1>2 DEF ServeRequest
  <2>2. Grows /\ row'[r] # NoRow /\ home'[r] = s
        BY <1>2, <2>1, BeginKeeps DEF IInv, Begun, ServeRequest
  <2>3. /\ DOMAIN proc' = Process /\ \A q \in Process \ {p} : proc'[q] = proc[q]
        /\ DOMAIN proc'[p] = ProcFields /\ proc'[p].pc = "served" /\ proc'[p].run = r
        /\ proc'[p].sid = s /\ proc'[p].after = proc[p].after
        /\ proc'[p].kind = proc[p].kind /\ proc'[p].launch = proc[p].launch
        BY <1>1, <2>1 DEF ProcFields
  <2>4. p = "request" => proc[p].kind = "message" /\ proc[p].launch = proc[p].sid
        BY <1>2 DEF ServeRequest, IInv, ProcInv, ProcOk
  <2>5. ProcOk(p)'
        BY <1>1, <2>1, <2>2, <2>3, <2>4 DEF ProcOk, AllPcs, RunningOnPcs, Begun
  <2> QED BY <2>2, <2>3, <2>5, OneProcess DEF IInv
<1>3. ASSUME NEW request \in Controls, ServeControl(p, request) PROVE ProcInv'
  <2>1. request \in REQUESTS
        BY OutcomeAssumption
  <2>2. /\ DOMAIN proc' = Process /\ \A q \in Process \ {p} : proc'[q] = proc[q]
        /\ DOMAIN proc'[p] = ProcFields /\ proc'[p].pc = "served" /\ proc'[p].run = proc[p].run
        /\ proc'[p].after = proc[p].after
        BY <1>1, <1>3 DEF ServeControl, Goto, ProcFields
  <2>3. p # "request" /\ Begun(proc[p].run)
        BY <1>3, <2>1 DEF ServeControl, IInv, ProcInv, ProcOk, REQUESTS
  <2>4. Grows
        BY <1>3, <2>1, ServeControlKeeps DEF IInv
  <2>5. ProcOk(p)'
        BY <1>1, <2>2, <2>3, <2>4 DEF ProcOk, AllPcs, RunningOnPcs, Begun, Grows
  <2> QED BY <2>2, <2>4, <2>5, OneProcess DEF IInv
<1>4. ASSUME NEW r \in Run, ServeAnswer(p, r) PROVE ProcInv'
  <2>1. /\ DOMAIN proc' = Process /\ \A q \in Process \ {p} : proc'[q] = proc[q]
        /\ DOMAIN proc'[p] = ProcFields /\ proc'[p].pc = "served" /\ proc'[p].run = r
        /\ proc'[p].after = proc[p].after
        BY <1>1, <1>4 DEF ServeAnswer, ProcFields
  <2>2. p # "request"
        BY <1>4 DEF ServeAnswer, IInv, ProcInv, ProcOk
  <2>3. Grows /\ row'[r] # NoRow
        BY <1>4, ServeAnswerKeeps DEF IInv, Begun
  <2>4. ProcOk(p)'
        BY <1>1, <2>1, <2>2, <2>3 DEF ProcOk, AllPcs, RunningOnPcs, Begun
  <2> QED BY <2>1, <2>3, <2>4, OneProcess DEF IInv
<1> QED BY <1>2, <1>3, <1>4 DEF Serve

\* Loads that end and let those go on that wait for them.
LEMMA ProcLoads ==
  ASSUME IInv, Grows
  PROVE  /\ Loads => ProcInv'
         /\ \A r \in Run : LoadEnds(r) => ProcInv'
<1>1. ASSUME NEW r \in Run, SnapshotLoads(r) \/ SnapshotShows(r) PROVE ProcInv'
      BY <1>1, ProcStays DEF SnapshotLoads, SnapshotShows, IInv
<1>2. ASSUME DOMAIN proc' = Process,
             \A p \in Process :
               \/ proc'[p] = proc[p]
               \/ /\ proc[p].pc \in WaitPcs \cup {"session"}
                  /\ \E pc \in RunningOnPcs \cup {"row"} : proc'[p] = [proc[p] EXCEPT !.pc = pc]
                  /\ proc'[p].pc # "served"
      PROVE  ProcInv'
  <2>1. SUFFICES ASSUME NEW p \in Process, proc'[p] # proc[p] PROVE ProcOk(p)'
        BY <1>2, ProcOkStays DEF ProcInv, IInv
  <2>2. PICK pc \in RunningOnPcs \cup {"row"} : proc'[p] = [proc[p] EXCEPT !.pc = pc]
        BY <1>2, <2>1
  <2>3. DOMAIN proc[p] = ProcFields /\ ProcOk(p) /\ proc[p].pc \in WaitPcs \cup {"session"}
        BY <1>2, <2>1 DEF IInv, ProcInv, ProcOk
  <2>4. /\ DOMAIN proc'[p] = ProcFields /\ proc'[p].pc = pc
        /\ proc'[p].run = proc[p].run /\ proc'[p].sid = proc[p].sid
        /\ proc'[p].kind = proc[p].kind /\ proc'[p].launch = proc[p].launch
        /\ proc'[p].after = proc[p].after
        BY <2>2, <2>3 DEF ProcFields
  <2> QED BY <2>3, <2>4, GoesOnOk DEF ProcOk, AllPcs, LoopPcs, WaitPcs, RunningOnPcs
<1>3. ASSUME NEW s \in Session, SessionReloads(s) PROVE ProcInv'
  <2>1. \A p \in Process : DOMAIN proc[p] = ProcFields
        BY DEF IInv, ProcInv, ProcOk
  <2>2. \A p \in Process : \/ proc'[p] = proc[p]
                           \/ /\ proc[p].pc = "session"
                              /\ proc'[p] = [proc[p] EXCEPT !.pc = "reloaded"]
        BY <1>3 DEF SessionReloads
  <2> QED BY <1>2, <1>3, <2>1, <2>2 DEF SessionReloads, RunningOnPcs, ProcFields
<1>4. ASSUME NEW r \in Run, LoadEnds(r) PROVE ProcInv'
  <2>1. \A p \in Process : DOMAIN proc[p] = ProcFields
        BY DEF IInv, ProcInv, ProcOk
  <2>2. \A p \in Process : \/ proc'[p] = proc[p]
                           \/ /\ proc[p].pc \in WaitPcs
                              /\ proc'[p] = [proc[p] EXCEPT !.pc = AfterLoad(proc[p].pc)]
        BY <1>4, <2>1 DEF LoadEnds, ProcFields
  <2>3. \A label \in WaitPcs : AfterLoad(label) \in (RunningOnPcs \cup {"row"}) \ {"served"}
        BY DEF AfterLoad, WaitPcs, RunningOnPcs
  <2> QED BY <1>2, <1>4, <2>1, <2>2, <2>3 DEF LoadEnds, ProcFields
<1>5. ASSUME NEW r \in Run, SnapshotBreaks(r) PROVE ProcInv'
      BY <1>5, BreakOk DEF SnapshotBreaks, Waiters, WaitPcs, IInv
<1>6. ASSUME NEW s \in Session, SessionBreaks(s) PROVE ProcInv'
  <2>1. PICK loads \in SUBSET Run :
          Break({ p \in Process : proc[p].pc = "session" /\ proc[p].sid = s } \cup UNION { Waiters(r) : r \in loads })
        BY <1>6 DEF SessionBreaks
  <2> QED BY <2>1, BreakOk DEF Waiters, WaitPcs, IInv
<1> QED BY <1>1, <1>3, <1>4, <1>5, <1>6 DEF Loads

LEMMA ProcRunsOn ==
  ASSUME IInv, Grows, NEW p \in Process, RunOn(p)
  PROVE  ProcInv'
<1>1. DOMAIN proc[p] = ProcFields /\ DOMAIN proc = Process /\ ProcOk(p)
      BY DEF IInv, ProcInv, ProcOk
<1>2. CASE Served(p)
  <2>1. PICK label \in {"session", "starting"} :
          proc' = [proc EXCEPT ![p].pc = label, ![p].sid = home[proc[p].run]]
        BY <1>2 DEF Served, RunSession
  <2>2. /\ DOMAIN proc' = Process /\ \A q \in Process \ {p} : proc'[q] = proc[q]
        /\ DOMAIN proc'[p] = ProcFields /\ proc'[p].pc = label /\ proc'[p].run = proc[p].run
        /\ proc'[p].sid = home[proc[p].run] /\ proc'[p].after = proc[p].after
        /\ proc'[p].kind = proc[p].kind /\ proc'[p].launch = proc[p].launch
        BY <1>1, <2>1 DEF ProcFields
  <2>3. proc[p].pc = "served"
        BY <1>2 DEF Served
  <2>4. ProcOk(p)'
        BY <1>1, <2>2, <2>3 DEF ProcOk, AllPcs, RunningOnPcs, Begun, Grows
  <2> QED BY <2>2, <2>4, OneProcess DEF IInv
<1>3. CASE Reloaded(p)
  <2>1. /\ DOMAIN proc' = Process /\ \A q \in Process \ {p} : proc'[q] = proc[q]
        /\ DOMAIN proc'[p] = ProcFields /\ proc'[p].pc = "snapshot" /\ proc'[p].run = proc[p].run
        /\ proc'[p].sid = proc[p].sid /\ proc'[p].after = proc[p].after
        /\ proc'[p].kind = proc[p].kind /\ proc'[p].launch = proc[p].launch
        BY <1>1, <1>3 DEF Reloaded, Goto, ProcFields
  <2>2. ProcOk(p)'
        BY <1>1, <1>3, <2>1, GoesOnOk DEF Reloaded, ProcOk, AllPcs, WaitPcs
  <2> QED BY <2>1, <2>2, OneProcess DEF IInv
<1>4. CASE Start(p)
  <2>1. /\ Begun(proc[p].run) /\ home[proc[p].run] = proc[p].sid
        /\ p = "request" => proc[p].kind = "message" /\ proc[p].launch \in {proc[p].sid, NoSession}
        BY <1>1, <1>4 DEF Start, ProcOk
  <2> QED BY <1>4, <2>1, StartLoopOk DEF Start, IInv
<1>5. CASE End(p)
  <2>1. DOMAIN proc' = Process /\ proc'[p] = Idle /\ \A q \in Process \ {p} : proc'[q] = proc[q]
        BY <1>1, <1>5 DEF End
  <2> QED BY <2>1, IdleOk, OneProcess DEF IInv
<1>6. CASE Catch(p)
  <2>1. DOMAIN proc' = Process /\ proc'[p] = Idle /\ \A q \in Process \ {p} : proc'[q] = proc[q]
        BY <1>1, <1>6 DEF Catch
  <2> QED BY <2>1, IdleOk, OneProcess DEF IInv
<1> QED BY <1>2, <1>3, <1>4, <1>5, <1>6 DEF RunOn

LEMMA ProcAnswer ==
  ASSUME IInv, Grows, NEW p \in Process, Answer(p) \/ Breaks(p) \/ Loses(p)
  PROVE  ProcInv'
<1>1. DOMAIN proc[p] = ProcFields /\ DOMAIN proc = Process /\ ProcOk(p)
      BY DEF IInv, ProcInv, ProcOk
<1>2. CASE Leave(p)
  <2>1. DOMAIN proc' = Process /\ proc'[p] = Idle /\ \A q \in Process \ {p} : proc'[q] = proc[q]
        BY <1>1, <1>2 DEF Leave
  <2> QED BY <2>1, IdleOk, OneProcess DEF IInv
<1>3. CASE Poll(p)
  <2>1. PICK label \in {"refresh", "row"}, quiet \in BOOLEAN :
          proc' = [proc EXCEPT ![p].pc = label, ![p].after = Len(feed[proc[p].run]),
                               ![p].quiet = quiet]
        BY <1>3 DEF Poll
  <2>2. Len(feed[proc[p].run]) \in Nat
    <3>1. proc[p].run \in Run
          BY <1>1, <1>3 DEF Poll, ProcOk, Begun
    <3> QED BY <3>1 DEF IInv, ServerInv
  <2>3. /\ DOMAIN proc' = Process /\ \A q \in Process \ {p} : proc'[q] = proc[q]
        /\ DOMAIN proc'[p] = ProcFields /\ proc'[p].pc = label /\ proc'[p].run = proc[p].run
        /\ proc'[p].sid = proc[p].sid /\ proc'[p].after \in Nat
        /\ proc'[p].kind = proc[p].kind /\ proc'[p].launch = proc[p].launch
        BY <1>1, <2>1, <2>2 DEF ProcFields
  <2>4. ProcOk(p)'
        BY <1>1, <1>3, <2>3, GoesOnOk DEF Poll, AllPcs, LoopPcs
  <2> QED BY <2>3, <2>4, OneProcess DEF IInv
<1>4. CASE ReadRow(p)
  <2>1. PICK label \in {"poll", "leave", "last", "ending"} :
          proc' = [proc EXCEPT ![p].quiet = FALSE, ![p].pc = label]
        BY <1>4 DEF ReadRow
  <2>2. /\ DOMAIN proc' = Process /\ \A q \in Process \ {p} : proc'[q] = proc[q]
        /\ DOMAIN proc'[p] = ProcFields /\ proc'[p].pc = label /\ proc'[p].run = proc[p].run
        /\ proc'[p].sid = proc[p].sid /\ proc'[p].after = proc[p].after
        /\ proc'[p].kind = proc[p].kind /\ proc'[p].launch = proc[p].launch
        BY <1>1, <2>1 DEF ProcFields
  <2>3. ProcOk(p)'
        BY <1>1, <1>4, <2>2, GoesOnOk DEF ReadRow, ProcOk, AllPcs, LoopPcs
  <2> QED BY <2>2, <2>3, OneProcess DEF IInv
<1>5. CASE Refused(p)
  <2>1. /\ DOMAIN proc' = Process /\ \A q \in Process \ {p} : proc'[q] = proc[q]
        /\ DOMAIN proc'[p] = ProcFields /\ proc'[p].pc = "broken"
        /\ proc'[p].after = proc[p].after /\ proc'[p].kind = proc[p].kind
        BY <1>1, <1>5 DEF Refused, Goto, ProcFields
  <2>2. ProcOk(p)'
        BY <1>1, <1>5, <2>1 DEF Refused, ProcOk, AllPcs, RunningOnPcs
  <2> QED BY <2>1, <2>2, OneProcess DEF IInv
<1>6. CASE Breaks(p) \/ Loses(p)
      BY <1>6, BreakOk DEF Breaks, Loses, IInv
<1> QED BY <1>2, <1>3, <1>4, <1>5, <1>6, ProcServe DEF Answer

LEMMA ProcSwitches ==
  ASSUME IInv, Grows, NEW k \in Slot, SwitchLoads(k) \/ SwitchShows(k) \/ SwitchShowsEmpty(k)
  PROVE  ProcInv' /\ TokenInv'
<1>1. CASE proc' = proc /\ token' = token
      BY <1>1, ProcStays, TokenStays DEF IInv
<1>2. CASE SwitchShows(k) /\ ~(proc' = proc /\ token' = token)
  <2> DEFINE r == switch[k].run
             s == switch[k].sid
  <2>1. PICK after \in {LastSeq(r, switch[k].after), switch[k].after} :
          StartLoop(FreeLoop, r, s, after, FALSE)
        BY <1>2 DEF SwitchShows, ShowSession
  <2>2. Begun(r) /\ home[r] = s /\ switch[k].after \in Nat
        BY <1>2 DEF SwitchShows, ShowSession, IInv, SwitchInv, SwitchOk
  <2>3. after \in Nat
        BY <2>1, <2>2, LastSeqIsNat DEF IInv, Begun
  <2>4. FreeLoop \in Process /\ FreeLoop # "request"
        BY DEF FreeLoop, Process, Resumes
  <2> QED BY <2>1, <2>2, <2>3, <2>4, StartLoopOk DEF IInv
<1> QED BY <1>1, <1>2 DEF SwitchLoads, SwitchShowsEmpty

LEMMA ProcStep ==
  ASSUME IInv, [Next]_vars
  PROVE  ProcInv' /\ TokenInv'
<1>1. Grows
      BY ServerStep DEF IInv
<1>2. ASSUME proc' = proc PROVE ProcInv'
      BY <1>1, <1>2, ProcStays DEF IInv
<1>3. ASSUME token' = token PROVE TokenInv'
      BY <1>3, TokenStays DEF IInv
<1>4. CASE User
  <2>1. token' = token
        BY <1>4 DEF User, Send, Control, AnswerPending, Act, NewSession, Hide, Switch
  <2> QED BY <1>1, <1>3, <1>4, <2>1, ProcUser
<1>5. CASE UNCHANGED vars \/ Hidden \/ \E r \in Run : Worker(r)
      BY <1>2, <1>3, <1>5 DEF vars, clientVars, Hidden, Worker, EmitResult, Finish
<1>6. CASE Loads \/ \E r \in Run : LoadEnds(r)
  <2>1. token' = token
        BY <1>6 DEF Loads, SnapshotLoads, SnapshotShows, SnapshotBreaks, SessionReloads, SessionBreaks,
                    LoadEnds
  <2> QED BY <1>1, <1>3, <1>6, <2>1, ProcLoads
<1>7. ASSUME NEW p \in Process, Answer(p) \/ Breaks(p) \/ Loses(p) PROVE ProcInv' /\ TokenInv'
  <2>1. token' = token
        BY <1>7 DEF Answer, Serve, ServeRequest, ServeControl, ServeAnswer, Leave, Poll, ReadRow,
                    Refused, Breaks, Loses
  <2> QED BY <1>1, <1>3, <1>7, <2>1, ProcAnswer
<1>8. ASSUME NEW p \in Process, RunOn(p) PROVE ProcInv' /\ TokenInv'
  <2>1. CASE Start(p)
    <3>1. TokenInv'
      <4>1. proc[p].run \in Run
            BY <2>1 DEF Start, IInv, ProcInv, ProcOk, Begun
      <4> QED BY <2>1, <4>1, <1>8 DEF Start, StartLoop, IInv, TokenInv
    <3> QED BY <1>1, <1>8, <3>1, ProcRunsOn
  <2>2. CASE ~Start(p)
    <3>1. TokenInv'
          BY <1>8, <2>2 DEF RunOn, Served, Reloaded, End, Catch, IInv, TokenInv
    <3> QED BY <1>1, <1>8, <3>1, ProcRunsOn
  <2> QED BY <2>1, <2>2
<1> QED BY <1>1, <1>4, <1>5, <1>6, <1>7, <1>8, ProcSwitches DEF Next, Turn, Continue, Switches

-----------------------------------------------------------------------------
(* Loads and switches *)

LEMMA StartLoadOk ==
  ASSUME LoadInv, Grows, NEW r, Begun(r), load' = StartLoad(load, r), reload' \subseteq Session
  PROVE  LoadInv'
<1>1. load' = load \/ load' = [load EXCEPT ![r].pc = "loading"]
      BY DEF StartLoad
<1> QED BY <1>1 DEF LoadInv, Begun, Grows

LEMMA LoadProcess ==
  ASSUME IInv, Grows, NEW p \in Process, Answer(p) \/ Breaks(p) \/ Loses(p) \/ RunOn(p)
  PROVE  LoadInv'
<1>1. CASE load' = load /\ reload' = reload
      BY <1>1, LoadStays DEF IInv
<1>2. CASE proc[p].pc \in {"idle", "sending", "broken"}
      BY <1>1, <1>2 DEF Answer, Serve, ServeRequest, ServeControl, ServeAnswer, Leave, Poll, ReadRow,
                        Refused, Breaks, Loses, RunOn, Served, Reloaded, Start, End, Catch
<1>3. CASE proc[p].pc \notin {"idle", "sending", "broken"}
  <2> DEFINE r == proc[p].run
  <2>1. Begun(r) /\ home[r] \in Session /\ reload \subseteq Session
        BY <1>3 DEF IInv, ProcInv, ProcOk, Begun, ServerInv, LoadInv
  <2>2. /\ load' \in {load, StartLoad(load, r)}
        /\ reload' \in {reload, reload \cup {home[r]}}
        BY DEF Answer, Serve, ServeRequest, ServeControl, ServeAnswer, Leave, Poll, ReadRow,
               Refused, Breaks, Loses, RunOn, Served, RunSession, Reloaded, Start, End, Catch
  <2>3. reload' \subseteq Session
        BY <2>1, <2>2
  <2>4. CASE load' = load
        BY <2>3, <2>4 DEF IInv, LoadInv, Grows
  <2> QED BY <2>1, <2>2, <2>3, <2>4, StartLoadOk DEF IInv
<1> QED BY <1>2, <1>3

LEMMA LoadStep ==
  ASSUME IInv, [Next]_vars
  PROVE  LoadInv'
<1>1. Grows
      BY ServerStep DEF IInv
<1>2. CASE load' = load /\ reload' = reload
      BY <1>1, <1>2, LoadStays DEF IInv
<1>3. CASE UNCHANGED vars \/ User \/ Hidden \/ \E r \in Run : Worker(r)
      BY <1>2, <1>3 DEF vars, clientVars, User, Send, Control, AnswerPending, Act, NewSession, Hide,
                        Switch, Hidden, Worker, EmitResult, Finish
<1>4. ASSUME NEW r \in Run, SnapshotLoads(r) \/ SnapshotShows(r) \/ LoadEnds(r) PROVE LoadInv'
  <2>1. load[r].pc # "none" /\ row'[r] # NoRow /\ home[r] \in Session
        BY <1>1, <1>4 DEF SnapshotLoads, SnapshotShows, LoadEnds, IInv, LoadInv, ServerInv, Grows
  <2>2. /\ DOMAIN load' = Run /\ DOMAIN load'[r] = {"pc", "status"}
        /\ \A o \in Run \ {r} : load'[o] = load[o]
        BY <1>4 DEF SnapshotLoads, SnapshotShows, LoadEnds, NoLoad, IInv, LoadInv
  <2>3. reload' \in {reload, reload \cup {home[r]}}
        BY <1>4 DEF SnapshotLoads, SnapshotShows, LoadEnds
  <2> QED BY <1>1, <2>1, <2>2, <2>3 DEF IInv, LoadInv, Grows
<1>5. ASSUME NEW s \in Session, SessionReloads(s) PROVE LoadInv'
  <2>1. /\ DOMAIN load' = Run /\ reload' \subseteq Session
        /\ \A r \in Run : load'[r] = load[r] \/ (load[r].pc = "session"
                                                 /\ load'[r] = [load[r] EXCEPT !.pc = "done"])
        BY <1>5 DEF SessionReloads, IInv, LoadInv
  <2> QED BY <1>1, <2>1 DEF IInv, LoadInv, Grows
<1>6. ASSUME NEW k \in Slot, SwitchLoads(k) \/ SwitchShows(k) \/ SwitchShowsEmpty(k)
      PROVE  LoadInv'
  <2>1. CASE load' # load
    <3>1. Begun(switch[k].run) /\ load' = StartLoad(load, switch[k].run) /\ reload' = reload
          BY <1>6, <2>1 DEF SwitchLoads, SwitchShows, ShowSession, SwitchShowsEmpty, IInv, SwitchInv, SwitchOk
    <3> QED BY <1>1, <3>1, StartLoadOk DEF IInv, LoadInv
  <2> QED BY <1>2, <1>6, <2>1 DEF SwitchLoads, SwitchShows, ShowSession, SwitchShowsEmpty
<1>7. ASSUME (\E r \in Run : SnapshotBreaks(r)) \/ (\E s \in Session : SessionBreaks(s)) PROVE LoadInv'
  <2>1. /\ DOMAIN load' = Run /\ reload' \subseteq reload
        /\ \A r \in Run : load'[r] \in {load[r], NoLoad}
        BY <1>7 DEF SnapshotBreaks, SessionBreaks, IInv, LoadInv
  <2> QED BY <1>1, <2>1 DEF IInv, LoadInv, Grows, NoLoad
<1> QED BY <1>1, <1>3, <1>4, <1>5, <1>6, <1>7, LoadProcess DEF Next, Turn, Loads, Continue, Switches

LEMMA SwitchStep ==
  ASSUME IInv, [Next]_vars
  PROVE  SwitchInv'
<1>1. Grows
      BY ServerStep DEF IInv
<1>2. CASE switch' = switch
      BY <1>1, <1>2, SwitchStays DEF IInv
<1>3. ASSUME NEW k \in Slot, DOMAIN switch' = Slot, SwitchOk(k)',
             \A j \in Slot \ {k} : switch'[j] = switch[j]
      PROVE  SwitchInv'
  <2>1. ASSUME NEW j \in Slot \ {k} PROVE SwitchOk(j)'
        BY <1>1, <1>3 DEF IInv, SwitchInv, SwitchOk, Begun, Grows
  <2> QED BY <1>3, <2>1 DEF SwitchInv
<1>4. ASSUME NEW k \in Slot, NEW s \in Session, Switch(k, s) PROVE SwitchInv'
  <2>1. /\ DOMAIN switch' = Slot /\ \A j \in Slot \ {k} : switch'[j] = switch[j]
        /\ switch'[k] = [NoSwitch EXCEPT !.pc = "session", !.sid = s, !.token = latestSwitch + 1]
        BY <1>4 DEF Switch, IInv, SwitchInv
  <2>2. SwitchOk(k)'
        BY <2>1 DEF SwitchOk, SwitchFields, NoSwitch
  <2> QED BY <1>3, <2>1, <2>2
<1>5. ASSUME NEW k \in Slot, SwitchLoads(k) PROVE SwitchInv'
  <2>1. /\ DOMAIN switch = Slot /\ DOMAIN switch[k] = SwitchFields
        /\ switch[k].after \in Nat /\ switch[k].sid \in Session
        BY <1>5 DEF SwitchLoads, IInv, SwitchInv, SwitchOk
  <2>2. CASE switch' = [switch EXCEPT ![k].pc = "absent"]
    <3>1. SwitchOk(k)'
          BY <2>1, <2>2 DEF SwitchOk, SwitchFields
    <3> QED BY <1>3, <2>1, <2>2, <3>1
  <2>3. ASSUME NEW r \in Run, IsLatestRun(r, switch[k].sid),
               switch' = [switch EXCEPT ![k].pc = "run", ![k].run = r, ![k].status = row[r],
                                        ![k].after = Len(feed[r])]
        PROVE SwitchInv'
    <3>1. Begun(r) /\ home[r] = switch[k].sid /\ Len(feed[r]) \in Nat
          BY <2>1, <2>3, NameAssumption DEF IsLatestRun, IInv, ServerInv, Begun
    <3>2. /\ DOMAIN switch'[k] = SwitchFields /\ switch'[k].pc = "run" /\ switch'[k].run = r
          /\ switch'[k].after = Len(feed[r]) /\ switch'[k].sid = switch[k].sid
          BY <2>1, <2>3 DEF SwitchFields
    <3>3. SwitchOk(k)'
          BY <1>1, <2>1, <3>1, <3>2 DEF SwitchOk, Begun, Grows
    <3> QED BY <1>3, <2>1, <2>3, <3>3
  <2> QED BY <1>5, <2>2, <2>3 DEF SwitchLoads
<1>6. ASSUME NEW k \in Slot, SwitchShows(k) \/ SwitchShowsEmpty(k) PROVE SwitchInv'
  <2>1. switch' = [switch EXCEPT ![k] = NoSwitch] /\ DOMAIN switch = Slot
        BY <1>6 DEF SwitchShows, ShowSession, SwitchShowsEmpty, IInv, SwitchInv
  <2>2. SwitchOk(k)'
        BY <2>1 DEF SwitchOk, SwitchFields, NoSwitch
  <2> QED BY <1>3, <2>1, <2>2
<1>7. CASE UNCHANGED vars \/ Hidden \/ Loads \/ \E r \in Run : Worker(r) \/ LoadEnds(r)
      BY <1>2, <1>7 DEF vars, clientVars, Hidden, Loads, SnapshotLoads, SnapshotShows, SnapshotBreaks,
                        SessionReloads, SessionBreaks, Worker, EmitResult, Finish, LoadEnds
<1>8. ASSUME NEW p \in Process, Answer(p) \/ Breaks(p) \/ Loses(p) \/ RunOn(p) PROVE SwitchInv'
      BY <1>2, <1>8 DEF Answer, Serve, ServeRequest, ServeControl, ServeAnswer, Leave, Poll, ReadRow,
                        Refused, Breaks, Loses, RunOn, Served, Reloaded, Start, End, Catch
<1>9. CASE User /\ switch' = switch
      BY <1>2, <1>9
<1> QED BY <1>4, <1>5, <1>6, <1>7, <1>8, <1>9
        DEF Next, Turn, Continue, Switches, User, Send, Control, AnswerPending, Act, NewSession, Hide

-----------------------------------------------------------------------------
(* The theorems *)

\* Every pending answer carries a run that has begun and that run's session.
THEOREM IInvAlways == Spec => []IInv
<1>1. Init => IInv
      BY Initially
<1>2. IInv /\ [Next]_vars => IInv'
      BY ServerStep, ViewStep, ProcStep, LoadStep, SwitchStep DEF IInv
<1> QED BY <1>1, <1>2, PTL DEF Spec

\* The state keeps its types.
THEOREM TypeOKAlways == Spec => []TypeOK
<1>1. IInv => TypeOK
      BY DEF IInv, ServerInv, ViewInv, ProcInv, ProcOk, TokenInv, TypeOK, AllPcs
<1> QED BY <1>1, IInvAlways, PTL

\* The run on display is a run of the session on display, for any number of runs,
\* sessions, clicks and failures.
THEOREM ViewRunOfSessionAlways == Spec => []ViewRunOfSession
<1>1. IInv => ViewRunOfSession
      BY DEF IInv, ViewInv, ViewRunOfSession
<1> QED BY <1>1, IInvAlways, PTL

-----------------------------------------------------------------------------
(* The background *)

\* What BackgroundKeepsView asks of a step.
Keeps ==
  /\ view'.sid = view.sid
  /\ view'.result # view.result => view'.result = view.sid
  /\ view'.snap.run # view.snap.run => home[view'.snap.run] = view.sid

LEMMA KeepsAdopted ==
  ASSUME ViewInv, NEW r \in Run, view.sid = home[r], NEW v, v = Adopt(view, r, home[r]),
         view'.sid = v.sid, view'.result = v.result, view'.snap.run \in {v.snap.run, r}
  PROVE  Keeps
<1>1. v.sid = home[r] /\ v.result = view.result /\ v.snap = view.snap
      BY DEF Adopt, ViewInv, ViewFields
<1> QED BY <1>1 DEF Keeps

\* The events of a run are its own.
LEMMA LastNewsIsOwn ==
  ASSUME ServerInv, NEW r \in Run, NEW n \in Nat, SubSeq(feed[r], n + 1, Len(feed[r])) # <<>>
  PROVE  Last(SubSeq(feed[r], n + 1, Len(feed[r]))).run = r
<1> DEFINE news == SubSeq(feed[r], n + 1, Len(feed[r]))
<1>1. feed[r] \in Seq(RunEvent(r)) /\ Len(feed[r]) \in Nat
      BY DEF ServerInv
<1>2. news \in Seq(RunEvent(r))
      BY <1>1, SubSeqProperties
<1> HIDE DEF news
<1>3. Len(news) \in 1..Len(news)
      BY <1>2, EmptySeq, LenProperties DEF news
<1>4. news[Len(news)] \in RunEvent(r)
      BY <1>2, <1>3, ElementOfSeq
<1> QED BY <1>4 DEF Last, RunEvent, news

LEMMA PollKeeps ==
  ASSUME IInv, NEW p \in Process, Poll(p), view.sid # NoSession
  PROVE  Keeps
<1> DEFINE r == proc[p].run
           v == Adopt(view, r, home[r])
           news == SubSeq(feed[r], proc[p].after + 1, Len(feed[r]))
<1>1. CASE view' = view
      BY <1>1 DEF Keeps
<1>2. CASE view' # view
  <2>1. /\ view' = ShowEvents(v, news) /\ news # <<>>
        /\ CanApplyActiveRunEvent(view, r, home[r], proc[p].blank)
        BY <1>2 DEF Poll
  <2>2. r \in Run /\ proc[p].after \in Nat
        BY DEF Poll, IInv, ProcInv, ProcOk, Begun
  <2>3. view.sid = home[r]
        BY <2>1 DEF CanApplyActiveRunEvent
  <2>4. Last(news).run = r
        BY <2>1, <2>2, LastNewsIsOwn DEF IInv
  <2>5. DOMAIN v = ViewFields
        BY DEF Adopt, IInv, ViewInv
  <2> HIDE DEF v, news
  <2>6. view'.sid = v.sid /\ view'.result = v.result /\ view'.snap.run = Last(news).run
        BY <2>1, <2>5 DEF ShowEvents, ViewFields
  <2> QED BY <2>2, <2>3, <2>4, <2>6, KeepsAdopted DEF IInv, v
<1> QED BY <1>1, <1>2

LEMMA LoadsKeep ==
  ASSUME IInv, view.sid # NoSession
  PROVE  /\ \A r \in Run : SnapshotShows(r) => Keeps
         /\ \A s \in Session : SessionReloads(s) => Keeps
<1>1. DOMAIN view = ViewFields
      BY DEF IInv, ViewInv
<1>2. ASSUME NEW r \in Run, SnapshotShows(r) PROVE Keeps
  <2> DEFINE v == Adopt(view, r, home[r])
  <2>1. CASE view' = view
        BY <2>1 DEF Keeps
  <2>2. CASE view' # view
    <3>1. /\ CanApplyActiveRunSnapshot(view, r, home[r])
          /\ view' = [v EXCEPT !.snap = [run |-> r, status |-> load[r].status],
                               !.status = load[r].status]
          BY <1>2, <2>2 DEF SnapshotShows
    <3>2. view.sid = home[r]
          BY <3>1 DEF CanApplyActiveRunSnapshot
    <3>3. DOMAIN v = ViewFields
          BY <1>1 DEF Adopt
    <3> HIDE DEF v
    <3>4. view'.sid = v.sid /\ view'.result = v.result /\ view'.snap.run = r
          BY <3>1, <3>3 DEF ViewFields
    <3> QED BY <3>2, <3>4, KeepsAdopted DEF IInv, v
  <2> QED BY <2>1, <2>2
<1>3. ASSUME NEW s \in Session, SessionReloads(s) PROVE Keeps
      BY <1>1, <1>3 DEF SessionReloads, TakesSession, Keeps, ViewFields
<1> QED BY <1>2, <1>3

LEMMA ServedKeeps ==
  ASSUME IInv, Served("request"), view.sid # NoSession
  PROVE  Keeps
<1> DEFINE r == proc["request"].run
<1>1. CASE view' = view
      BY <1>1 DEF Keeps
<1>2. CASE view' # view
  <2>1. /\ proc["request"].pc = "served" /\ proc["request"].kind = "message" /\ r \in Run
        /\ proc["request"].launch # NoSession => home[r] = proc["request"].launch
        BY DEF Served, IInv, ProcInv, ProcOk, Begun, Process
  <2>2. /\ ShouldAdoptStartedRun(view, r, home[r], proc["request"].launch, proc["request"].blank)
        /\ view' = Adopt(view, r, home[r])
        BY <1>2, <2>1 DEF Served, RunSession
  <2>3. view.sid = home[r]
        BY <2>1, <2>2 DEF ShouldAdoptStartedRun
  <2> QED BY <2>1, <2>2, <2>3, KeepsAdopted DEF IInv
<1> QED BY <1>1, <1>2

\* Nothing in the background turns the view to another session or shows another's
\* transcript or snapshot in it, for any number of runs, sessions, clicks and failures.
THEOREM BackgroundKeepsViewAlways == Spec => BackgroundKeepsView
<1>1. ASSUME IInv, Background, view.sid # NoSession PROVE Keeps
  <2>1. ASSUME NEW p \in Process, End(p) PROVE Keeps
        BY <2>1 DEF End, Keeps, IInv, ViewInv, ViewFields
  <2>2. ASSUME NEW k \in Slot, ~(switch[k].token = latestSwitch),
               SwitchShows(k) \/ SwitchShowsEmpty(k)
        PROVE  Keeps
        BY <2>2 DEF SwitchShows, ShowSession, SwitchShowsEmpty, IsNewest, Keeps
  <2> QED BY <1>1, <2>1, <2>2, PollKeeps, LoadsKeep, ServedKeeps DEF Background
<1>2. IInv /\ [Next]_vars => [Background /\ view.sid # NoSession => Keeps]_vars
      BY <1>1
<1> QED BY <1>2, IInvAlways, PTL DEF Spec, BackgroundKeepsView, Keeps
=============================================================================
