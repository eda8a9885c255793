SPECIFICATION FairSpec
CONSTANTS
  Threads = {t1, t2, t3}
  Owner = owner
  Nobody = nobody
  Events = {e1, e2}
INVARIANTS
  IInv
  LockOutlivesGuards
PROPERTIES
  KeepsPromise
  FreedInTheEnd
\* The lock is freed, and then nothing is left to do.
CHECK_DEADLOCK FALSE
