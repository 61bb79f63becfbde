CONSTANTS
  p1 = p1
  p2 = p2
  t1 = t1
  t2 = t2
  NoTask = NoTask
  Replica <- TwoReplicas
  Task <- TwoTasks
  First = p1
  MaxMinted = 3
  MaxFaults = 1
SPECIFICATION Spec
INVARIANTS OneGrant EndsForAReason NewestAccepted InStep
SYMMETRY Symmetry
CHECK_DEADLOCK FALSE
