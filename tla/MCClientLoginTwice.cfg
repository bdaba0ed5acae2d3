\* A client that sends LOGIN again while it is logged in.
SPECIFICATION Spec
CONSTANTS
  Clients = {c1, c2}
  Handles = {alice}
  Users = {u1, u2}
  NoClient = NoClient
  NoHandle = NoHandle
  NoUser = NoUser
  Careless = {c1}
  FirstAlone = TRUE
  MayFail = FALSE
  MaxRequests = 2
PROPERTY LoginAnswered
CHECK_DEADLOCK FALSE
