CONSTANTS
  Undefined = Undefined
  Inputs <- MCInputs
  MaxSafeInteger <- MCMaxSafeInteger
SPECIFICATION Spec
INVARIANTS TypeOK
PROPERTIES DecodeImplementsSpec
CHECK_DEADLOCK FALSE
