SPECIFICATION PipelineSpec
CONSTANTS
  MaxLength = 3
  Size = 2
  Capacity = 1
  MayFail = TRUE

PROPERTY FailureReported
CHECK_DEADLOCK FALSE
