SPECIFICATION RuleSpec
CONSTANTS
  Targets = {"t"}
  EcsTargets = {}
  Intervals = {1, 2}
  Workers = {"w1"}
  Backlog = 1
  EcsLimit = 1
  MaxMinute = 2
  MaxEdits = 4
INVARIANTS
  SchedulesRun
CHECK_DEADLOCK FALSE
