SPECIFICATION ApprovalSpec
CONSTANTS
  Requests <- MCRequests
  c1 = c1
  c2 = c2
  Contexts <- MCContexts
  MaxResumes = 4
  MaxCuts = 1
  MaxResponses = 2
  MaxSwitches = 1
SYMMETRY MCSymmetry
INVARIANTS
  ApprovalTypeOK
  RunsOnceUnlessSwallowed
  DeferredIsDurable
PROPERTIES
  RefusedNeverRuns
  RunsAsIssued
CHECK_DEADLOCK FALSE
