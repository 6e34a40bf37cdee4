SPECIFICATION RestoredFairSpec
CONSTANTS
  p = p
  d = d
  Kids <- MCKids
  Declaring = {}
  MaxRunning = 2
  MaxGen = 2
  GensOf <- MCGensOf
  MaxAsks = 0
  Parent <- MCParent
INVARIANTS
  RestoredTypeOK
  NothingOutlivesRoot
  ContextInForce
PROPERTIES
  DrainKeepsOutcome
  RootEnds
CHECK_DEADLOCK FALSE
