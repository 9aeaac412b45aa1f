\* An old and a new container of one role; every statement may fail.
SYMMETRY ContainerSymmetry
SPECIFICATION Spec
CONSTANTS
  Containers = {old, new}
  None = None
  LeaseSeconds = 5
  Interval = 1
  Delay = 1
  Faults = {"renew", "record", "mark", "release"}
  MaxClaims = 3
  MaxTime = 8
INVARIANTS
  TypeOK
  ToldInTime
  ChildUnderLease
PROPERTIES
  ServiceEpochGrows
CHECK_DEADLOCK FALSE
