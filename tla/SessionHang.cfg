SPECIFICATION SessionFairSpec
CONSTANTS
  main = main
  ag = ag
  sh = sh
  cs = cs
  Main = main
  Tasks <- MCShells
  OwnerOf <- MCMainOwns
  Agents = {}
  Inputs = 1
  Compacts = {}
  Ceiling = TRUE
PROPERTY ClosedInputEnds
CHECK_DEADLOCK FALSE
