SPECIFICATION FairPollSpec
CONSTANTS
  Queues = {"src", "dlq"}
  FifoQueues = {"src", "dlq"}
  QueueDelay <- MCNoDelay
  Groups = {"-", "g"}
  NoGroup = "-"
  Dedups = {"none", "d"}
  NoDedup = "none"
  Policies <- MCOneWay
  VisTimeouts = {0}
  Delays = {0, 1}
  BatchSizes = {2}
  Retention = 1
  DedupWindow = 1
  StaleCount = 2
  MinReceipt = 1
  MaxMsgs = 2
  MaxReceives = 1
  Pollers = {p1}
  Polled = "dlq"
  WaitTime = 1
  PollBatch = 2
  PollHide = 0
INVARIANTS
  NoLostWakeup
  DedupHolds
PROPERTIES
  PollReturns
CHECK_DEADLOCK FALSE
