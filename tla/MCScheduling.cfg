SPECIFICATION BothSpec
CONSTANTS
  Jobs = {j1, j2, j3}
  Stuck = {j3}
  Workers = {w1, w2}
  Capacity = 1
  Drainers = {d1}
  Closers = {c1, c2}
  None = None
  Slots = {t1, t2}
  MaxDef = 2
  MaxDesired = 2
  Deleters = {x1, x2}
  MaxEvents = 3
INVARIANTS
  NoPanic
  NoSurplus
  DrainedIsQuiet
  RolloutOneAtATime
PROPERTIES
  ClosedJobsFinish
  DrainReturns
  Converges
CHECK_DEADLOCK FALSE
