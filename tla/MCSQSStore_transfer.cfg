SPECIFICATION Spec
CONSTANTS
  Queues = {"src", "dlq"}
  FifoQueues = {}
  QueueDelay <- MCNoDelay
  Groups = {"-"}
  NoGroup = "-"
  Dedups = {"none"}
  NoDedup = "none"
  Policies <- MCPolicies
  VisTimeouts = {0, 1}
  Delays = {0}
  BatchSizes = {1, 2}
  Retention = 3
  DedupWindow = 2
  StaleCount = 2
  MinReceipt = 1
  MaxMsgs = 2
  MaxReceives = 2
INVARIANTS
  NothingLost
PROPERTIES
  ReaperSparesInFlight
CHECK_DEADLOCK FALSE
