SPECIFICATION FairSpec
CONSTANTS
  W = 8
  Calls = {c1, c2, c3}
  Times = {0, 2}
INVARIANTS
  IInv
  ExactAtRest
PROPERTIES
  ExtremesOnlyWiden
  KeepsPromise
  EveryCallReturns
\* Every call returns, and then nothing is left to do.
CHECK_DEADLOCK FALSE
