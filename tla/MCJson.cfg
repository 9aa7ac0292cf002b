CONSTANTS
  Undefined = Undefined
  NaN = NaN
  OnePointFive = OnePointFive
  JsonError = JsonError
  JsonMessages <- AllMessages
  ExtraNumbers = {}
SPECIFICATION JsonSpec
INVARIANTS JsonRoundTrip FromJSONEnumsAsSpec
CHECK_DEADLOCK FALSE
