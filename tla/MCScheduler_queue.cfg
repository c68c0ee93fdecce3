SPECIFICATION FairSpec
CONSTANTS
  NR_TASKS = 1
  NR_PROCS = 5
  LOW_USER = 2
  Pids = {2, 3}
  PERCENT = 3
  PERIOD = 5
  INT_MAX = 6
  MaxEvents = 7
  MaxPicks = 0
  NIL = NIL
CHECK_DEADLOCK FALSE
INVARIANTS
  TypeOK
  QueueExact
PROPERTIES
  SpinEnds
  Served
