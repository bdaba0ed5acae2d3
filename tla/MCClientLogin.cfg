\* Two clients and two handles.  Three addresses: two handles in use, and one
\* that was lost when mb_init failed.
SPECIFICATION Spec
CONSTANTS
  Clients = {c1, c2}
  Handles = {alice, bob}
  Users = {u1, u2, u3}
  NoClient = NoClient
  NoHandle = NoHandle
  NoUser = NoUser
  Careless = {}
  FirstAlone = TRUE
  MayFail = TRUE
  MaxRequests = 2
INVARIANTS LoginExclusive UserReadable
PROPERTIES LoginAnswered ImplementsSessions
\* Every client has sent its packets and is logged out.
CHECK_DEADLOCK FALSE
