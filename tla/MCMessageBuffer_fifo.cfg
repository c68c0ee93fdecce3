SPECIFICATION FairSpec
CONSTANTS
  Producers = {n1}
  Privileged = {p1}
  Consumers = {c1}
  Threads = {n1, p1, c1}
  Conditions = {"prod", "cons"}
  Cells = {a1, a2, a3, a4}
  NULL = NULL
  CAPACITY = 2
  MaxPush = 3
  MaxPriPush = 1
  MaxPop = 4
PROPERTIES
  ImplementsPriorityChat
  AllCollected
CHECK_DEADLOCK FALSE
