\* Two handles, three addresses so that they are reused, three pointers.
SPECIFICATION Spec
CONSTANTS
  Threads = {t1, t2}
  Handles = {alice, bob}
  Users = {u1, u2, u3}
  Pointers = {p1, p2, p3}
  NoThread = NoThread
  NoHandle = NoHandle
  NoUser = NoUser
  MaxLeaks = 1
CONSTRAINT Bound
SYMMETRY Symmetry
INVARIANTS RefCountExact HandlesUnique
\* A thread that unregisters an unknown handle keeps the mutex for good, and
\* everybody may then be waiting for it.
CHECK_DEADLOCK FALSE
