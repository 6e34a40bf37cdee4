SPECIFICATION ChildFairSpec
CONSTANTS
  k1 = k1
  k2 = k2
  Kids <- MCKids
  Declaring <- MCKids
  MaxRunning = 1
  MaxGen = 2
  GensOf <- MCGensOf
  MaxAsks = 1
INVARIANTS
  ChildTypeOK
  ClaimsAccounted
  LiveEngineHeard
PROPERTIES
  CancelledResumeStands
  ResumesEnd
  StalledFails
CHECK_DEADLOCK FALSE
