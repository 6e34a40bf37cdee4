SPECIFICATION WorkflowSpec
CONSTANTS
  a1 = a1
  a2 = a2
  a3 = a3
  Calls = {a1, a2, a3}
  Permits = 2
  TotalCap = 2
  Budget = 1
INVARIANT WorkflowTypeOK
INVARIANT ReportMatchesStatus
INVARIANT ResourcesAccounted
PROPERTY WaitersServed
PROPERTY ExitSettlesWaiter
CHECK_DEADLOCK FALSE
