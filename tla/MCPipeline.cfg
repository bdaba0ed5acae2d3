SPECIFICATION PipelineSpec
CONSTANTS
  MaxLength = 3
  Size = 2
  Capacity = 1
  MayFail = TRUE
INVARIANTS SuccessTruthful CountExact
PROPERTY StagesEnd
CHECK_DEADLOCK FALSE
