SPECIFICATION CheckSpec
CONSTANTS
  Versions <- MCVersions
  Vnodes = {v1, v2}
  Files = {f1, f2, f3}
  Unsigned = {f3}
  NULLVP = NULLVP
INVARIANTS
  InfoIsOfOneFile
  TrueMeansInformed
\* An unsigned executable ends in a fault.
CHECK_DEADLOCK FALSE
