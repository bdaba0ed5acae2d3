SPECIFICATION Spec
CONSTANTS
  ps = ps
  txt = txt
  MAX_JOBS = 1
  MAX_PRINTERS = 1
  Pids = {1}
  Types = {ps, txt}
  NoType = NoType
  PrinterType <- OnlyPs
  Files <- AnyPs
  Programs <- PsToTxt
  MayFail = FALSE
  CallocFails = {}
PROPERTY QuitEnds
CHECK_DEADLOCK FALSE
