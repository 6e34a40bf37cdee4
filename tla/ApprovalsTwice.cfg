SPECIFICATION ApprovalSpec
CONSTANTS
  Requests = {1}
  c1 = c1
  c2 = c2
  Contexts <- MCContexts
  MaxResumes = 4
  MaxCuts = 1
  MaxResponses = 1
  MaxSwitches = 0
INVARIANT RunsOnce
CHECK_DEADLOCK FALSE
