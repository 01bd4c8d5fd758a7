SPECIFICATION MCFairSpec
CONSTANTS
  r1 = r1
  r2 = r2
  s1 = s1
  s2 = s2
  Run = {r1, r2}
  Session = {s1, s2}
  NoRun = NoRun
  NoSession = NoSession
  Outcomes = {"awaiting_user"}
  Controls = {"pause_requested"}
  MaxClicks = 2
INVARIANTS
  TypeOK
  ViewRunOfSession
PROPERTIES
  BackgroundKeepsView
  RequestReleased
  EndIsShown
CHECK_DEADLOCK FALSE
