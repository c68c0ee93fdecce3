SPECIFICATION Spec
CONSTANTS
  NR_TASKS = 1
  NR_PROCS = 5
  LOW_USER = 2
  Pids = {2, 3}
  PERCENT = 4
  PERIOD = 8
  INT_MAX = 10
  MaxEvents = 6
  MaxPicks = 0
  NIL = NIL
CHECK_DEADLOCK FALSE
PROPERTY OwnGroup
