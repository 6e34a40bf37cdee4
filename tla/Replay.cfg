SPECIFICATION ReplaySpec
CONSTANTS
  k1 = k1
  k2 = k2
  k3 = k3
  Keys = {k1, k2, k3}
  Scripts <- Edited
  MaxRuns = 3
CHECK_DEADLOCK FALSE
INVARIANT ReplayTypeOK
INVARIANT ServedIsPriorAnswer
INVARIANT ServedPrefix
INVARIANT PrefixCarried
