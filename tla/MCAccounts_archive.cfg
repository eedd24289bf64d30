SPECIFICATION Spec
CONSTANTS
  Account = {"a"}
  Kinds = {"request", "archive"}
  MaxCalls = 2
  MaxStarts = 1
INVARIANTS
  ServedByItsAccount
CHECK_DEADLOCK FALSE
