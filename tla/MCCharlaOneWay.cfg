\* Messages from a to b and from a to itself; a logs out when it likes, b
\* hangs up once its mailbox thread has set the hook.
SPECIFICATION Spec
CONSTANTS
  a = a
  b = b
  Clients = {a, b}
  MaxLogins = 1
  Traffic <- OneWay
  LoggingOut = {a}
  HangingUp = {b}
  EarlyLeave = {a}
  FreshHooks = {"null"}
  NoThread = NoThread
  NoMailbox = NoMailbox
INVARIANTS NoticesTruthful SenderOrder OnlyLogoutRaces
PROPERTIES EveryMessageAnswered ServiceTerminates
CHECK_DEADLOCK FALSE
ACTION_CONSTRAINT IdsInOrder
