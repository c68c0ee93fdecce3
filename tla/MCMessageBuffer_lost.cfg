SPECIFICATION Spec
CONSTANTS
  Producers = {n1}
  Privileged = {p1}
  Consumers = {c1}
  Threads = {n1, p1, c1}
  Conditions = {"prod", "cons"}
  Cells = {a1, a2, a3, a4}
  NULL = NULL
  CAPACITY = 3
  MaxPush = 2
  MaxPriPush = 2
  MaxPop = 4
INVARIANT
  NothingLost
CHECK_DEADLOCK FALSE
