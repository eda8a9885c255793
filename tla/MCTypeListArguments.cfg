SPECIFICATION ListSpec
CONSTANTS
  MaxParams = 4
  TypeNames <- MCTypeNames
  SizeOf <- MCSizeOf
  Signatures <- MCSignatures
INVARIANT ArgumentsInPlace
PROPERTY ImplementsVariadic
\* An instantiation ends.
CHECK_DEADLOCK FALSE
