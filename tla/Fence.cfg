\* One window, two processes, one stage whose runner writes data.
SYMMETRY OwnerSymmetry
SPECIFICATION Spec
CONSTANTS
  Stages = {"EQUITY"}
  Enabled = {"EQUITY"}
  Prerequisites <- ChainPrerequisites
  LaneOf <- ChainLane
  Rank <- ChainRank
  Resident = {}
  Session = {}
  Shared = {}
  Windows <- OneWindow
  ReleaseAt <- ReleaseTimes
  Deadline <- Deadlines
  LaneOffset <- ShortOffsets
  Owners = {o1, o2}
  LeaseSeconds = 1
  RetryDelay = 1
  MaxAttempts = 2
  MaxLaneSeconds = 2
  LaneGrace = 0
  WritingStages = {"EQUITY"}
  ReceiptStages = {}
  ReleaseStages = {}
  Contents = {}
  None = None
  Outcomes = {"COMPLETE", "DEFERRED", "FAILED"}
  Failures = {"crash", "thread"}
  MaxEpoch = 2
  MaxTime = 2
INVARIANTS
  OneRunningAttempt
PROPERTIES
  ImplementsExclusiveExecution
CHECK_DEADLOCK FALSE
