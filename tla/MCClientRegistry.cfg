SPECIFICATION Spec
CONSTANTS
  c1 = c1
  c2 = c2
  c3 = c3
  Conns = {c1, c2, c3}
  MaxClients = 2
  MaxRequests <- OneOneNone
  HangingUp = {c1, c2}
  Stalled = {}
  Late = FALSE
  SigPipe = TRUE
  MayFail = TRUE
  NoClient = NoClient
INVARIANTS RegistrySound RefCountExact ShutdownOrderly
PROPERTY ShutdownCompletes
CHECK_DEADLOCK FALSE
