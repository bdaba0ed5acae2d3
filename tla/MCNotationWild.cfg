\* Inputs that do not keep to the manual's rules.
SPECIFICATION Spec
CONSTANTS
  Inputs <- Games
  Options <- Cmds
  Disciplined = FALSE
  DEFAULT_LANGUAGE = "english"
  VARIATION_MAX = 2
  NB_MOVE_TO_DISP = 3
INVARIANT MemorySound
CHECK_DEADLOCK FALSE
