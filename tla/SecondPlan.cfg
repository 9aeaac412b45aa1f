\* One process, one claim: the operator and the controller are enough.
CONSTANTS
  b = b
  m1 = m1
  m2 = m2
  None = None
  Owners = {a}
  Base <- Established
  Intents <- AllOrBase
  Stages = 2
  Chunks <- OneChunk
  Slots <- OneRequest
  Day = 3
  Concurrency = 1
  MemberRequests = 1
  LeaseSeconds = 1
  MaxRevisions = 3
  MaxTime = 3
  MaxClaims = 1
SPECIFICATION Spec
INVARIANT FirstPlanPinned
