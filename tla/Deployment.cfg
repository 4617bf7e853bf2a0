\* Every fleet of the two, with and without a pooler; two faults.
CONSTANTS
  Procs = {w, f}
  Workers = {w}
  Functions = {f}
  Sums = {a, b, c}
  a = a
  b = b
  c = c
  Releases <- Builds
  None = None
  Orphan = Orphan
  MaxFaults = 2
CHECK_DEADLOCK FALSE
SPECIFICATION FairSpec
INVARIANTS IInv ServingIsMigrated
PROPERTIES ServesOrRefuses ExpiredRowsGo
