SPECIFICATION FairSpec
CONSTANTS
  r1 = r1
  r2 = r2
  None = None
  Ids = {r1, r2}
  Head = 2
  MaxFaults = 1
INVARIANTS
  HistoryKept
  DecisionsSurviveRestarts
  NoDecisionIsMigrated
  IndexHasFile
PROPERTIES
  ComesUp
CONSTRAINT OneKindOfWork
