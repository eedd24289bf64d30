SPECIFICATION FairSpec
CONSTANTS
  Writers = {w1, w2}
  Flushers = {f1}
  MaxVersion = 2
  MaxFailures = 1
  RemarkOnFailure = TRUE
INVARIANTS
  AckedIsCovered
PROPERTIES
  ImplementsFile
  EventuallySaved
  CloseReturns
CHECK_DEADLOCK FALSE
