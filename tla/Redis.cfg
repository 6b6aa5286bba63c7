SPECIFICATION Spec
CONSTANTS
  p1 = p1
  t1 = t1
  t2 = t2
  Procs = {p1}
  TaskSeq <- MCTasks
  Strangers = {s1}
  Keys = {k}
  Values = {v1, v2}
  Capacity = 1
  MaxCrashes = 1
  None = none
  Nil = nil
  Error = error
INVARIANTS TypeOK FaultsHaveACause
PROPERTIES Linearizable MainEnds
