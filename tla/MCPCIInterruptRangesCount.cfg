CONSTANTS
  Counts = {0, 1, 2, 3, 4, 5, 6, 7}
SPECIFICATION Spec
INVARIANTS
  RangeCountsItsKind
\* The scan returns.
CHECK_DEADLOCK FALSE
