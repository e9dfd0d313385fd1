SPECIFICATION Spec
CONSTANTS
  Radix = 8
  TextLength = 3
INVARIANTS
  IndexComplete
PROPERTIES
  ImplementsScalar
