CONSTANTS
  Undefined = Undefined
  Inputs <- MCFramingInputs
  MaxSafeInteger <- MCMaxSafeInteger
SPECIFICATION Spec

PROPERTIES DecodeImplementsSpec
CHECK_DEADLOCK FALSE
