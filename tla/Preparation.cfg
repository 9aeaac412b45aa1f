CONSTANTS
  b = b
  m1 = m1
  m2 = m2
  None = None
  Owners = {a, c}
  Base <- Established
  Intents <- AllOrBase
  Stages = 2
  Chunks <- OneChunk
  Slots <- OneRequest
  Day = 3
  Concurrency = 1
  MemberRequests = 1
  LeaseSeconds = 1
  MaxRevisions = 3
  MaxTime = 3
  MaxClaims = 4
SPECIFICATION Spec
SYMMETRY PreparationSymmetry
INVARIANTS
  TypeOK
  ReadinessMatchesWork
  OnePlanPerChange
PROPERTIES
  SessionMembershipKept
  CurrentGoesForward
