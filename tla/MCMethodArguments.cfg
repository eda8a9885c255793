SPECIFICATION Spec
CONSTANTS
  MaxParams = 4
  TypeNames <- MCTypeNames
  SizeOf <- MCSizeOf
  Signatures <- MCSignatures
INVARIANTS
  LimitsCoverReads
  LimitsAreTight
  EveryElementReadOnce
  ParametersInOrder
\* An instantiation ends.
CHECK_DEADLOCK FALSE
