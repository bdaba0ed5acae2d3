\* The sender logs out before its message is delivered, or the receiver
\* does; -continue shows both violations.
SPECIFICATION Spec
CONSTANTS
  a = a
  b = b
  Clients = {a, b}
  MaxLogins = 1
  Traffic <- OneMessage
  LoggingOut = {a, b}
  HangingUp = {}
  EarlyLeave = {a, b}
  FreshHooks = {"null"}
  NoThread = NoThread
  NoMailbox = NoMailbox
INVARIANTS SenderAlive NoticesNamed
CHECK_DEADLOCK FALSE
