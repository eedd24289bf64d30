SPECIFICATION Spec
CONSTANTS
  m1 = m1
  m2 = m2
  c1 = c1
  c2 = c2
  Sources = {"sqs", "dynamodb-stream"}
  Callers = {c1}
  Msgs = {m1}
  Filters = {{}, {m1}}
  MaxReceiveCount = 2
  Concurrency = 2
  NotFoundMax = 2
  BatchSize = 1
  PromptSteps = TRUE
  Kinds = {"create", "update", "delete", "tag"}
  MaxCalls = 2
  MaxRestarts = 0
  MaxReceives = 2
  MaxRecords = 2
INVARIANT StoreMatchesPoller
CHECK_DEADLOCK FALSE
