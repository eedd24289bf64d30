SPECIFICATION AllSpec
CONSTANTS
  Root = "root"
  Main = "main"
  Children = {"b1", "b2", "i1", "i2", "n1"}
  Machine <- McMachine
  StartAt <- McStartAt
  MaxConcurrency = 1
  TaskCount = 2
  Machines = {"m1"}
  Names = {"n1", "n2"}
  Definitions = {"d1"}
  TagKeys = {"k"}
  Outcomes = {"SUCCEEDED"}
  Callers = {"c"}
  MaxExecutions = 1
  MaxRuns = 2
  MaxStarted = 2
  Containers = {"c1", "c2"}
  Essential = {"c1"}
  DependsOn <- McDependsOn
  MaxStops = 1
  MaxCrashes = 1
  Keys = {"k1", "k2"}
  Vals = {"v", "x"}
  Expired = {"x"}
  Writes <- McWrites
  Requests <- McRequests
  MaxRecords = 2
  Readers = {"r1"}
  MaxStreams = 2
  MaxWrites = 3
  MaxRestarts = 1
  Targets = {"t", "e"}
  EcsTargets = {"e"}
  Intervals = {1, 2}
  Workers = {"w1"}
  Backlog = 1
  EcsLimit = 1
  MaxMinute = 2
  MaxEdits = 3
  UserNames = {"n"}
  SignInCallers = {"c"}
  MaxUsers = 2
  MaxSessions = 2
  MaxChallenges = 1
  MaxRequests = 5
  Objects = {"a", "b"}
  Sizes = {1}
  Settings = {"v"}
  Clients = {"c", "d"}
  RecentLimit = 1
  MaxBuckets = 2
  MaxPuts = 3
  MaxTransfers = 6
  Groups = {"sys", "fn"}
  SystemGroups = {"sys"}
  LogStreams = {"a", "b"}
  MaxEvents = 2
  MaxLogStreams = 1
  Retentions = {1}
  Today = 1
  MaxLines = 4
  Account = {"a"}
  Kinds = {"request", "import", "archive", "restore", "delete"}
  MaxCalls = 2
  MaxStarts = 2
INVARIANTS
  NoAbandonedTask
  HistoryComplete
  RunningIsDriven
  NoEscape
  TrackedWhileRunning
  StreamMirrorsItems
  NoSleepOverRecords
  StateAndTargetsKept
  RefreshIndexExact
  IndexExact
  ArchivedNotLoaded
  RecordsSaved
PROPERTIES
  ImplementsLog
CHECK_DEADLOCK FALSE
