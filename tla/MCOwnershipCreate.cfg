CONSTANTS
  Undefined = Undefined
  Null = Null
  X = "Action"
  Writers = {"arg", "rec"}
  Elements = {0, 1}
SPECIFICATION Spec
INVARIANTS RecordOwnsBuffers
CHECK_DEADLOCK FALSE
