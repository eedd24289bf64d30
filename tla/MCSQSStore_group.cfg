SPECIFICATION Spec
CONSTANTS
  Queues = {"src", "dlq"}
  FifoQueues = {"src", "dlq"}
  QueueDelay <- MCNoDelay
  Groups = {"-", "g"}
  NoGroup = "-"
  Dedups = {"none"}
  NoDedup = "none"
  Policies <- MCOneWay
  VisTimeouts = {1}
  Delays = {0, 1}
  BatchSizes = {2}
  Retention = 2
  DedupWindow = 1
  StaleCount = 2
  MinReceipt = 1
  MaxMsgs = 3
  MaxReceives = 2
INVARIANTS
  AtMostOneLive
PROPERTIES
  FifoInOrder
CHECK_DEADLOCK FALSE
