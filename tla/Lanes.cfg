\* One window, one process with two claims, two stages in two lanes.
SPECIFICATION Spec
CONSTANTS
  Stages = {"EQUITY", "ALERTS"}
  Enabled = {"EQUITY", "ALERTS"}
  Prerequisites <- ChainPrerequisites
  LaneOf <- ChainLane
  Rank <- ChainRank
  Resident = {}
  Session = {}
  Shared = {}
  Windows <- OneWindow
  ReleaseAt <- ReleaseTimes
  Deadline <- Deadlines
  LaneOffset <- ShortOffsets
  Owners = {o1}
  LeaseSeconds = 1
  RetryDelay = 1
  MaxAttempts = 2
  MaxLaneSeconds = 2
  LaneGrace = 0
  WritingStages = {}
  ReceiptStages = {}
  ReleaseStages = {}
  Contents = {}
  None = None
  Outcomes = {"COMPLETE", "FAILED"}
  Failures = {"call"}
  MaxEpoch = 2
  MaxTime = 2
INVARIANTS
  PrerequisitesComplete
  BlockedForCause
  ClosedWindowSettled
CHECK_DEADLOCK FALSE
