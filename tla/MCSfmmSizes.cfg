\* Two properties that fail apart: TLC shows both with -continue.
SPECIFICATION Spec
CONSTANTS
  PageUnits = 7
  MaxPages = 2
  NumFreeLists = 3
  SizeLimit = 1024
  Requests = {0, 24, 60, 1023}
  Aligns = {3, 4}
  Lookalike = FALSE
  Forget = TRUE
INVARIANTS
  LiveSound WildernessAlone
CHECK_DEADLOCK FALSE
