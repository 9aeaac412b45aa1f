\* Two windows of one cohort, two processes, two receipt contents.
SYMMETRY ReceiptSymmetry
SPECIFICATION Spec
CONSTANTS
  Stages = {"EQUITY"}
  Enabled = {"EQUITY"}
  Prerequisites <- ChainPrerequisites
  LaneOf <- ChainLane
  Rank <- ChainRank
  Resident = {}
  Session = {}
  Shared = {}
  Windows <- TwoWindows
  ReleaseAt <- ReleaseTimes
  Deadline <- Deadlines
  LaneOffset <- ShortOffsets
  Owners = {o1, o2}
  LeaseSeconds = 1
  RetryDelay = 1
  MaxAttempts = 2
  MaxLaneSeconds = 2
  LaneGrace = 0
  WritingStages = {}
  ReceiptStages = {"EQUITY"}
  ReleaseStages = {"EQUITY"}
  Contents = {x, y}
  None = None
  Outcomes = {"COMPLETE"}
  Failures = {}
  MaxEpoch = 2
  MaxTime = 1
INVARIANTS
  ReleaseIsBacked
PROPERTIES
  ReleaseMonotone
CHECK_DEADLOCK FALSE
