SPECIFICATION FairLeaseSpec
CONSTANTS
  p1 = p1
  p2 = p2
  p3 = p3
  m1 = m1
  m2 = m2
  m3 = m3
  linuxA = linuxA
  linuxB = linuxB
  mac = mac
  Procs = {p1, m1, m2, m3}
  Kernels = {linuxA, linuxB, mac}
  Linux = {linuxA, linuxB}
  KernelOf <- MCKernelOf
  PidOf <- MCPidOf
  MaxAttempts = 2
  Missing = Missing
  Corrupt = Corrupt
INVARIANT LeaseTypeOK
INVARIANT WriterExclusion
INVARIANT HolderOnDisk
PROPERTY TakeoverHarmsOnlyInGap
PROPERTY AcquireEnds
CHECK_DEADLOCK FALSE
