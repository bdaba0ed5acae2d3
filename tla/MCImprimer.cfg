\* A file for any printer, and one for printer 1 needs a conversion.
SPECIFICATION Spec
CONSTANTS
  ps = ps
  txt = txt
  MAX_JOBS = 2
  MAX_PRINTERS = 2
  Pids = {1, 2}
  Types = {ps, txt}
  NoType = NoType
  PrinterType <- PsTxt
  Files <- AnyFile
  Programs <- PsToTxt
  MayFail = TRUE
  CallocFails = {1}
INVARIANTS SlotSound OneJobPerPrinter CountsMasters StatusTruthful NoIdleWait
PROPERTIES ImplementsPrintQueue ServedJobsEnd
CHECK_DEADLOCK FALSE
