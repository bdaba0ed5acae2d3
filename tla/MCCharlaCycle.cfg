\* Two clients that write to each other.
SPECIFICATION Spec
CONSTANTS
  a = a
  b = b
  Clients = {a, b}
  MaxLogins = 1
  Traffic <- TwoWay
  LoggingOut = {}
  HangingUp = {}
  EarlyLeave = {}
  FreshHooks = {"null"}
  NoThread = NoThread
  NoMailbox = NoMailbox
INVARIANT NoLockCycle
CHECK_DEADLOCK FALSE
