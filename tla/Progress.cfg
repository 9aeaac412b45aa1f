\* A stage runner may hang; a resident stage gates the window.
SPECIFICATION FairSpec
CONSTANTS
  Stages = {"REFERENCE", "EQUITY"}
  Enabled = {"REFERENCE", "EQUITY"}
  Prerequisites <- ReferencePrerequisites
  LaneOf <- ChainLane
  Rank <- ChainRank
  Resident = {"REFERENCE"}
  Session = {}
  Shared = {"REFERENCE"}
  Windows <- OneWindow
  ReleaseAt <- ReleaseTimes
  Deadline <- Deadlines
  LaneOffset <- ShortOffsets
  Owners = {o1}
  LeaseSeconds = 1
  RetryDelay = 1
  MaxAttempts = 2
  MaxLaneSeconds = 2
  LaneGrace = 0
  WritingStages = {}
  ReceiptStages = {}
  ReleaseStages = {}
  Contents = {}
  None = None
  Outcomes = {"COMPLETE", "DEFERRED"}
  Failures = {"call"}
  MaxEpoch = 2
  MaxTime = 3
PROPERTIES
  SessionsEnd
CHECK_DEADLOCK FALSE
