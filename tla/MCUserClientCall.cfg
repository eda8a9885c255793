SPECIFICATION CallSpec
CONSTANTS
  TypeNames <- MCTypeNames
  SizeOf <- MCSizeOf
  Signatures <- MCSignatures
  Word = 4
  ScalarCounts = {0, 1, 2}
  InlineSizes = {0, 2, 3}
  Lengths = {2, 4, 5}
INVARIANTS
  NoMappingLeaks
  StructSizesBacked
  ReadsWhatWasGiven
  FixedStructsWhole
\* A class that does not compile gets no calls.
CHECK_DEADLOCK FALSE
