\* One window with two instruments, finalized by two runs under one lease owner.
SYMMETRY RunSymmetry
SPECIFICATION Spec
CONSTANTS
  Windows <- OneWindow
  Deadline <- Deadlines
  Members = {aaa, bbb}
  Runners = {run1, run2}
  WindowOf <- SameWindow
  OwnerOf <- SameOwner
  LeaseSeconds = 1
  RetryDelay = 1
  MaximumAttempts = 2
  ClaimLimit = 2
  None = None
  run1 = run1
  run2 = run2
  CommitLag = 1
  MaxRevisions = 1
  MaxTime = 2
INVARIANTS
  TypeOK
  MembersAgreeWithJobs
  VerdictIsExact
  OutputIsOfItsClosure
PROPERTIES
  ImplementsLeasedWork
CHECK_DEADLOCK FALSE
