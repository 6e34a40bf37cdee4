SPECIFICATION SessionTasksEndSpec
CONSTANTS
  main = main
  ag = ag
  sh = sh
  cs = cs
  Main = main
  Tasks <- MCTasks
  OwnerOf <- MCOwnerOf
  Agents = {ag}
  Inputs = 2
  Compacts = {2}
  Ceiling = TRUE
INVARIANTS
  SessionTypeOK
  NoProcessOutlives
  NoticesKept
  ResultsKept
PROPERTIES
  NoticeSpec
  ClosedInputEnds
CHECK_DEADLOCK FALSE
