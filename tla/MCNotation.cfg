SPECIFICATION Spec
CONSTANTS
  Inputs <- Games
  Options <- Cmds
  Disciplined = TRUE
  DEFAULT_LANGUAGE = "english"
  VARIATION_MAX = 2
  NB_MOVE_TO_DISP = 3
INVARIANTS MemorySound BoardOfLine SheetConsistent ReadsBack
CHECK_DEADLOCK FALSE
