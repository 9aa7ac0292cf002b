CONSTANTS
  Undefined = Undefined
  Inputs <- MCInputs
  MaxSafeInteger <- MCMaxSafeInteger
  Int64s <- UnsafeInt64s
SPECIFICATION MCSpec
INVARIANTS RoundTrip
CHECK_DEADLOCK FALSE
