SPECIFICATION FairSpec
CONSTANTS
  Runs = {r1, r2}
  r1 = r1
  r2 = r2
  None = None
  Ceiling = 7
  AttemptCeiling = 3
  ControlMessages = 1
  Quantum = 2
  LowWater = 1
  BufferLimit = 2
  BatchLimit = 2
  MaxControls = 1
  Overlap = FALSE
  CanCrash = FALSE
  CanFail = FALSE
  CanReject = FALSE
\* A run that is over stays so, and the system stops when all are.
CHECK_DEADLOCK FALSE
INVARIANT HolesAreGaps
INVARIANT CompleteIsNormalized
PROPERTY StopEnds
