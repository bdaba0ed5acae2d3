SPECIFICATION Spec
CONSTANTS
  PageUnits = 7
  MaxPages = 2
  NumFreeLists = 3
  SizeLimit = 1024
  Requests = {0, 24, 60}
  Aligns = {3, 4}
  Lookalike = TRUE
  Forget = TRUE
INVARIANTS
  PointersTold
CHECK_DEADLOCK FALSE
