SPECIFICATION Spec
CONSTANTS
  g1 = g1
  g2 = g2
  g3 = g3
  Generations <- MCGenerations
  MaxGenerations = 2
  MaxCrashes = 2
  MaxFaults = 2
  Absent = Absent
  Torn = Torn
  Foreign = Foreign
  EmptyKey = EmptyKey
INVARIANTS
  RegisteredIsWhole
  NoOrphans
  RecoverableUnlessTorn
PROPERTIES
  AllOrNothing
  UnknownKept
CHECK_DEADLOCK FALSE
