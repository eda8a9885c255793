SPECIFICATION GizmoSpec
CONSTANTS
  Keys = {k1, k2}
  Objects = {o1, o2, o3}
  Null = Null
  DataLengths = {0, 1, 15, 16, 17, 31, 32, 47}
  Numbers = {0, 1, 3, 6}
  IntRange = 4
  default_value = 1
  Queues = {framework, own}
  FrameworkQueue = framework
  Nullptr = Nullptr
  Threads = {t1, t2, t3}
  MaxOwned = 2
  Word16 = {1, 5}
  Word8 = {0, 1}
  ByteRange = 4
  Names = {n1, n2}
INVARIANTS
  CountsAreHolders
  MergedAllOrNothing
  LastLineFits
  ReadsWhatWasPublished
  MethodsRunOnDefaultQueue
  LastReleaseIsLogged
  MatchesWhatIsDescribed
\* Unchecked allocations fault, an object is gone, a client finalized.
CHECK_DEADLOCK FALSE
