CONSTANTS
  Undefined = Undefined
  Inputs <- MCEnumInputs
  MaxSafeInteger <- MCMaxSafeInteger
SPECIFICATION Spec
INVARIANTS DecodedEnumsDeclared
CHECK_DEADLOCK FALSE
