SPECIFICATION Spec
CONSTANTS
  t1 = t1
  t2 = t2
  Tasks <- MCTasks
  Capacity = 2
  MaxRuns = 2
  Numbers = 2
  Absent = Absent
SYMMETRY Symmetry
CHECK_DEADLOCK FALSE
INVARIANTS InStep Converges WaitHasEnd
