SPECIFICATION WorkflowSpec
CONSTANTS
  a1 = a1
  a2 = a2
  a3 = a3
  Calls = {a1, a2}
  Permits = 1
  TotalCap = 1
  Budget = 0
INVARIANT TotalCapHolds
CHECK_DEADLOCK FALSE
