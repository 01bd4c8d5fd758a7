SPECIFICATION FairSpec
CONSTANTS
  Caller = {c1, c2}
  MaxLines = 2
  MaxAsked = 4
  MaxPrinted = 2
  MaxCrashes = 1
INVARIANTS
  IInv
PROPERTIES
  AnswerLag
  ImplementsCalls
  HolderReturns
