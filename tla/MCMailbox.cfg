\* Two mailboxes and two threads: a mailbox may have two consumers, and the
\* two mailboxes may send to each other.
SPECIFICATION Spec
CONSTANTS
  Threads = {t1, t2}
  Mailboxes = {m1, m2}
  MsgIds = {1}
  NoThread = NoThread
  NoMailbox = NoMailbox
  Kinds = {"BOUNCE"}
  FreshHooks = {"null"}
  MaxRefs = 2
  MaxEntries = 2
VIEW View
SYMMETRY Symmetry
INVARIANTS SemAccounting LockDiscipline
PROPERTY ImplementsQueue
\* Threads may block each other for good (the server does: MCCharlaCycle).
CHECK_DEADLOCK FALSE
