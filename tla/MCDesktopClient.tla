-------------------------- MODULE MCDesktopClient --------------------------
(* Bounds for checking DesktopClient with TLC. *)
EXTENDS DesktopClient

CONSTANTS r1, r2, s1, s2

\* The run of a first message is on display and is polled: what a click, and the
\* answers to it, lead to when nothing else happens meanwhile.
OneSession ==
  /\ home = [r \in Run |-> IF r = r1 THEN s1 ELSE NoSession]
  /\ begun = <<r1>>

\* The run of one session has ended, and one of another is on display and is polled.
TwoSessions ==
  /\ home = [r \in Run |-> IF r = r1 THEN s1 ELSE s2]
  /\ begun = <<r2, r1>>

Polled ==
  /\ OneSession \/ TwoSessions
  /\ row = [r \in Run |-> CASE home[r] = NoSession -> NoRow
                             [] r = r1 -> "running" [] OTHER -> "completed"]
  /\ snap = row
  /\ feed = [r \in Run |->
       IF row[r] = "completed" THEN <<[run |-> r, name |-> "completed", status |-> "completed"]>>
       ELSE <<>>]
  /\ view = [EmptyView(s1) EXCEPT !.rid = r1, !.status = "running", !.result = s1,
                                  !.snap = [run |-> r1, status |-> "running"]]
  /\ proc = [p \in Process |->
       IF p = "request"
         THEN [Idle EXCEPT !.pc = "poll", !.kind = "message", !.run = r1, !.sid = s1, !.blank = TRUE]
         ELSE Idle]
  /\ token = [r \in Run |-> IF r = r1 THEN "request" ELSE "none"]
  /\ load = [r \in Run |-> NoLoad]
  /\ switch = [k \in Slot |-> NoSwitch] /\ latestSwitch = 0 /\ hiding = NotHiding
  /\ hidden = {} /\ reload = {} /\ blind = {}
  /\ clicks = 0

MCFairSpec == Polled /\ [][Next]_vars /\ Fairness
=============================================================================
