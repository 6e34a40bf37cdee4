SPECIFICATION StoreSpec
CONSTANTS
  p1 = p1
  p2 = p2
  p3 = p3
  linux = linux
  Procs = {p1, p2, p3}
  Kernels = {linux}
  Linux = {linux}
  KernelOf <- OneKernel
  PidOf <- DistinctPids
  MaxAttempts = 1
  MaxEntries = 2
  MaxRenames = 1
  Missing = Missing
  Corrupt = Corrupt
INVARIANT StoreTypeOK
INVARIANT TranscriptIsAcked
INVARIANT SummaryKept
PROPERTY RepairTakesOnlyTorn
CHECK_DEADLOCK FALSE
SYMMETRY Symmetry
