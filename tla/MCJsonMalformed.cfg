CONSTANTS
  Undefined = Undefined
  NaN = NaN
  OnePointFive = OnePointFive
  JsonError = JsonError
  JsonMessages <- AllMessages
  ExtraNumbers <- OddNumbers
SPECIFICATION JsonSpec
INVARIANTS FromJSONRejectsMalformed
CHECK_DEADLOCK FALSE
