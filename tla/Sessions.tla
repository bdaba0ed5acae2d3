------------------------------ MODULE Sessions ------------------------------
(***************************************************************************)
(* What client_login and client_logout promise together: a client enters   *)
(* under a handle that nobody else is using, and leaves again.             *)
(***************************************************************************)
CONSTANTS Clients, Handles, NoHandle

VARIABLE who   \* the handle each client is logged in under

Init == who = [c \in Clients |-> NoHandle]

Enter(c, h) ==
  /\ who[c] = NoHandle
  /\ \A d \in Clients : who[d] # h
  /\ who' = [who EXCEPT ![c] = h]

Leave(c) ==
  /\ who[c] # NoHandle
  /\ who' = [who EXCEPT ![c] = NoHandle]

Next ==
  \E c \in Clients : Leave(c) \/ \E h \in Handles : Enter(c, h)

Spec == Init /\ [][Next]_who
=============================================================================
