CONSTANTS
  Undefined = Undefined
  NaN = NaN
  OnePointFive = OnePointFive
  JsonError = JsonError
  JsonMessages <- AllMessages
  ExtraNumbers = {}
SPECIFICATION JsonSpec
INVARIANTS HostsAgree
CHECK_DEADLOCK FALSE
