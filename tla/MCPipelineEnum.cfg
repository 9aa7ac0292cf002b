CONSTANTS
  Undefined = Undefined
  NaN = NaN
  OnePointFive = OnePointFive
  JsonError = JsonError
  Null = Null
  Inputs <- MCInputs
  MaxSafeInteger <- MCMaxSafeInteger
  PipelineMessages <- ActionOnly
  Ordinals <- UndeclaredOrdinals
SPECIFICATION PipelineSpec
INVARIANTS CreatedRecordSurvives
CHECK_DEADLOCK FALSE
