CONSTANTS
  W = 8
  Calls = {c1, c2}
  Times = {0, 3}
  NumProbes = 2
  Tracked = 1
  ProbeSize = 2
  BufferSizes = {0, 3, 4}
  MaxTries = 2
SPECIFICATION ExportSpec
SYMMETRY CallSymmetry
\* Every call returns, and then nothing is left to do.
CHECK_DEADLOCK FALSE
INVARIANTS
  AcceptedCopyConsistent
