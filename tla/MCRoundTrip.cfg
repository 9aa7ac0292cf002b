CONSTANTS
  Undefined = Undefined
  Inputs <- MCInputs
  MaxSafeInteger <- MCMaxSafeInteger
  Int64s <- SafeInt64s
SPECIFICATION MCSpec
INVARIANTS RoundTrip
CHECK_DEADLOCK FALSE
