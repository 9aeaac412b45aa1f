\* Two processes, reference facts and bars, two revisions and one lease duration and
\* a half; three claims, or fewer with a split and a change of the cohort among them.
SYMMETRY OwnerSymmetry
SPECIFICATION Spec
CONSTANTS
  Owners = {a, b}
  None = None
  Actions <- TwoActions
  Chunks <- OneChunk
  References <- OneReference
  MaximumAttempts = 2
  AccountCeiling = 6
  LeaseSeconds = 2
  RetryInitial = 1
  RetryMaximum = 4
  Headroom = 1
  SessionOpen = 3
  MaxRevisions = 2
  MaxCohorts = 2
  MaxEvents = 3
  MaxTime = 2
INVARIANTS
  TypeOK
  BudgetHeld
  
PROPERTIES
  OutcomeOfItsLease
CHECK_DEADLOCK FALSE
