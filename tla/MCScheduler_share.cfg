SPECIFICATION Spec
CONSTANTS
  NR_TASKS = 1
  NR_PROCS = 4
  LOW_USER = 2
  Pids = {3}
  PERCENT = 4
  PERIOD = 8
  INT_MAX = 100
  MaxEvents = 5
  MaxPicks = 30
  NIL = NIL
CHECK_DEADLOCK FALSE
INVARIANT ShareKept
