SPECIFICATION Spec
CONSTANTS
  Producers = {n1}
  Privileged = {p1}
  Consumers = {c1, c2}
  Threads = {n1, p1, c1, c2}
  Conditions = {"prod", "cons"}
  Cells = {a1, a2, a3, a4, a5}
  NULL = NULL
  CAPACITY = 2
  MaxPush = 3
  MaxPriPush = 2
  MaxPop = 3
SYMMETRY CellSymmetry
INVARIANTS
  TypeOK
  OneToken
  WaitersCounted
  HandOverClaimable
  ConditionHolds
  NoMissedSignal
  NeverBothAsleep
  ListExact
CHECK_DEADLOCK FALSE
