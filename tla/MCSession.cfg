SPECIFICATION MCSpec
CONSTANTS
  Worlds <- MCWorlds
  Sources <- MCSources
  Turn = {1, 2, 3}
  UserText = {"a"}
  Limits <- MCLimits
  MemoryTurn = {1, 2, 3}
  Habits <- MCHabits
  Worker = {1, 2, 3}
  TempName = {"buffer"}
  Given = {"mine"}
  Room <- MCRoom
INVARIANTS
  AgentTypeOK
  ConfirmedIsCured
  DuplicateSkipsSameWork
  OverwriteOnlyConfirmed
  StopIsPrompt
  
  ConversationKept
  RecordsAgree
  DisplayShowsSession
  MemoryIsOneLine
  ArtifactsKept
  LineageKnown
  OutputIntact
PROPERTIES
  NamesStay
  HiddenStaysHidden
CHECK_DEADLOCK FALSE
