\* A client logs out and in again, and then hangs up.
SPECIFICATION Spec
CONSTANTS
  a = a
  b = b
  Clients = {b}
  MaxLogins = 2
  Traffic <- NoTraffic
  LoggingOut = {b}
  HangingUp = {b}
  EarlyLeave = {b}
  FreshHooks = {"null"}
  NoThread = NoThread
  NoMailbox = NoMailbox
PROPERTY ServiceTerminates
CHECK_DEADLOCK FALSE
