SPECIFICATION Spec
CONSTANTS
  t1 = t1
  t2 = t2
  Tasks <- MCTasks
  Capacity = 2
  MaxRuns = 2
  Numbers = 2
  Absent = Absent
CHECK_DEADLOCK FALSE
INVARIANTS RemovedStaysRemoved
