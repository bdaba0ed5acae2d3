---------------------------- MODULE ClientLogin ----------------------------
(***************************************************************************)
(* client_login and client_logout of hw5 (client.c), as the service        *)
(* threads of the connected clients run them, over the user registry.      *)
(*                                                                         *)
(* client_login is guarded by a function-local mutex that the first call   *)
(* initialises.  It registers the handle, looks at every registered        *)
(* client, one after the other, for one that is logged in as the same      *)
(* USER, and enters the client or gives up.  client_logout and the reads   *)
(* of other threads take no part in that mutex.                            *)
(*                                                                         *)
(* The set of connected clients is fixed (ClientRegistry of the plan is    *)
(* about its changes).  The mailbox of a login is module Charla's; here    *)
(* mb_init only may fail.  In a scan, the status and the user of a client  *)
(* are read in one step: reading them apart only lets a client that logs   *)
(* out in between count as not logged in.                                  *)
(*                                                                         *)
(* Bounds: MaxRequests LOGIN packets per client.                           *)
(***************************************************************************)
EXTENDS Naturals, FiniteSets

CONSTANTS
  Clients, Handles, Users, NoClient, NoHandle, NoUser,
  Careless,     \* clients that may send LOGIN while they are logged in
  FirstAlone,   \* whether the first LOGIN initialises the mutex unrivalled
  MayFail,      \* whether malloc may fail in ureg_register and mb_init
  MaxRequests

ASSUME ClientsFinite == IsFiniteSet(Clients) /\ NoClient \notin Clients
ASSUME UsersFresh    == NoUser \notin Users
ASSUME HandlesFresh  == NoHandle \notin Handles
ASSUME MaxRequestsOK == MaxRequests \in Nat

VARIABLES
  open, listed, handle, rc, owner, ptr, leaked,   \* module UserRegistry
  init,      \* the static flag of client_login
  lm,        \* who holds login_mutex
  status,    \* CLIENT.status
  user,      \* CLIENT.user
  pc, want,  \* the call a thread is in, and the handle it is about
  toscan,    \* the clients of creg_all_clients still to be looked at
  taken,     \* the local variable already_exists
  requests   \* LOGIN packets so far

(* ptr[c] is the reference c owns: the local variable `user' of            *)
(* client_login until the client has entered, then the field.              *)
R == INSTANCE UserRegistry WITH
       Threads <- Clients, Pointers <- Clients, NoThread <- NoClient

regVars  == <<open, listed, handle, rc, owner, ptr, leaked>>
scanVars == <<toscan, taken>>
vars     == <<regVars, init, lm, status, user, pc, want, scanVars, requests>>

Init ==
  /\ R!Init
  /\ init = FALSE /\ lm = NoClient
  /\ status = [c \in Clients |-> "NO_USER"]
  /\ user   = [c \in Clients |-> NoUser]
  /\ pc     = [c \in Clients |-> "idle"]
  /\ want   = [c \in Clients |-> NoHandle]
  /\ toscan = [c \in Clients |-> {}]
  /\ taken  = [c \in Clients |-> FALSE]
  /\ requests = [c \in Clients |-> 0]

LoggedIn(c)    == status[c] = "LOGGED_IN"
Goto(c, label) == pc' = [pc EXCEPT ![c] = label]
(* pthread_mutex_unlock(&login_mutex) and return.                          *)
Return(c) == lm' = NoClient /\ Goto(c, "idle")
Scanned(c) == pc[c] = "scan" /\ toscan[c] = {}

-----------------------------------------------------------------------------
(* A LOGIN packet: client_login is called and tests the static flag.       *)
LoginPacket(c) ==
  /\ pc[c] = "idle" /\ requests[c] < MaxRequests
  /\ LoggedIn(c) => c \in Careless
  /\ FirstAlone => init \/ \A d \in Clients : pc[d] = "idle"
  /\ \E h \in Handles : want' = [want EXCEPT ![c] = h]
  /\ requests' = [requests EXCEPT ![c] = @ + 1]
  /\ Goto(c, IF init THEN "lock" ELSE "init")
  /\ UNCHANGED <<regVars, init, lm, status, user, scanVars>>

(* pthread_mutex_init leaves the mutex unlocked, whoever may hold it.      *)
InitMutex(c) ==
  /\ pc[c] = "init"
  /\ lm' = NoClient
  /\ Goto(c, "set_init")
  /\ UNCHANGED <<regVars, init, status, user, want, scanVars, requests>>

SetInit(c) ==
  /\ pc[c] = "set_init"
  /\ init' = TRUE
  /\ Goto(c, "lock")
  /\ UNCHANGED <<regVars, lm, status, user, want, scanVars, requests>>

(* Mutant: the mutex is not waited for.                                    *)
LockAnyway(c) ==
  /\ pc[c] = "lock"
  /\ lm' = c
  /\ Goto(c, IF LoggedIn(c) THEN "idle" ELSE "register")
  /\ UNCHANGED <<regVars, init, status, user, want, scanVars, requests>>

(* A client that is logged in already gets its NACK with the mutex held.   *)
Lock(c) ==
  /\ pc[c] = "lock" /\ lm = NoClient
  /\ lm' = c
  /\ Goto(c, IF LoggedIn(c) THEN "idle" ELSE "register")
  /\ UNCHANGED <<regVars, init, status, user, want, scanVars, requests>>

(* ureg_register and creg_all_clients.                                     *)
Register(c) ==
  /\ pc[c] = "register"
  /\ R!Register(c, want[c])
  /\ toscan' = [toscan EXCEPT ![c] = Clients]
  /\ taken' = [taken EXCEPT ![c] = FALSE]
  /\ Goto(c, "scan")
  /\ UNCHANGED <<init, lm, status, user, want, requests>>

(* Mutant: the mutex is kept.                                              *)
RegisterFailsLocked(c) ==
  /\ pc[c] = "register" /\ MayFail
  /\ Goto(c, "idle")
  /\ UNCHANGED <<regVars, init, lm, status, user, want, scanVars, requests>>

RegisterFails(c) ==
  /\ pc[c] = "register" /\ MayFail
  /\ Return(c)
  /\ UNCHANGED <<regVars, init, status, user, want, scanVars, requests>>

Scan(c, d) ==
  /\ pc[c] = "scan" /\ d \in toscan[c]
  /\ toscan' = [toscan EXCEPT ![c] = @ \ {d}]
  /\ taken' = [taken EXCEPT ![c] = @ \/ (LoggedIn(d) /\ user[d] = ptr[c])]
  /\ UNCHANGED <<regVars, init, lm, status, user, pc, want, requests>>

Reject(c) ==
  /\ Scanned(c) /\ taken[c]
  /\ R!DropPointer(c)
  /\ Return(c)
  /\ UNCHANGED <<init, status, user, want, scanVars, requests>>

(* mb_init succeeds: the fields are set.                                   *)
Enter(c) ==
  /\ Scanned(c) /\ ~taken[c]
  /\ status' = [status EXCEPT ![c] = "LOGGED_IN"]
  /\ user' = [user EXCEPT ![c] = ptr[c]]
  /\ Return(c)
  /\ UNCHANGED <<regVars, init, want, scanVars, requests>>

(* Mutant: the mailbox is made before it is known whether the name is free.*)
MailboxFailsEarly(c) ==
  /\ pc[c] = "scan" /\ MayFail
  /\ R!Unregister(want[c])
  /\ Goto(c, "lose")
  /\ UNCHANGED <<init, lm, status, user, want, scanVars, requests>>

(* mb_init fails: the handle is unregistered, and the reference that       *)
(* ureg_register returned is forgotten.                                    *)
MailboxFails(c) ==
  /\ Scanned(c) /\ ~taken[c] /\ MayFail
  /\ R!Unregister(want[c])
  /\ Goto(c, "lose")
  /\ UNCHANGED <<init, lm, status, user, want, scanVars, requests>>

(* Mutant: return without unlocking.                                       *)
LoseLocked(c) ==
  /\ pc[c] = "lose"
  /\ R!LosePointer(c)
  /\ Goto(c, "idle")
  /\ UNCHANGED <<init, lm, status, user, want, scanVars, requests>>

Lose(c) ==
  /\ pc[c] = "lose"
  /\ R!LosePointer(c)
  /\ Return(c)
  /\ UNCHANGED <<init, status, user, want, scanVars, requests>>

(* client_logout: user_unref, and then the fields.                         *)
Logout(c) ==
  /\ pc[c] = "idle" /\ LoggedIn(c)
  /\ R!DropPointer(c)
  /\ Goto(c, "clear")
  /\ UNCHANGED <<init, lm, status, user, want, scanVars, requests>>

LogoutClear(c) ==
  /\ pc[c] = "clear"
  /\ status' = [status EXCEPT ![c] = "NO_USER"]
  /\ user' = [user EXCEPT ![c] = NoUser]
  /\ Goto(c, "idle")
  /\ UNCHANGED <<regVars, init, lm, want, scanVars, requests>>

-----------------------------------------------------------------------------
(* The steps of a call that has begun.                                     *)
Continue(c) ==
  \/ InitMutex(c) \/ SetInit(c) \/ Lock(c)
  \/ Register(c) \/ RegisterFails(c)
  \/ \E d \in Clients : Scan(c, d)
  \/ Reject(c) \/ Enter(c) \/ MailboxFails(c) \/ Lose(c)
  \/ LogoutClear(c)

Next == \E c \in Clients : LoginPacket(c) \/ Logout(c) \/ Continue(c)

(* Threads are preemptively scheduled.  Since every client sends finitely  *)
(* many packets, a thread that waits for login_mutex finds it free for     *)
(* good in the end, unless somebody keeps it: weak fairness is enough.     *)
Spec == Init /\ [][Next]_vars /\ \A c \in Clients : WF_vars(Continue(c))

-----------------------------------------------------------------------------
Inside(c) == pc[c] \in {"register", "scan", "lose"}

(* Types; the user field is set exactly while the status says so.          *)
LocalTypeOK ==
  /\ init \in BOOLEAN /\ lm \in Clients \cup {NoClient}
  /\ status \in [Clients -> {"NO_USER", "LOGGED_IN"}]
  /\ user \in [Clients -> Users \cup {NoUser}]
  /\ \A c \in Clients : user[c] = NoUser <=> ~LoggedIn(c)
  /\ pc \in [Clients -> {"idle", "init", "set_init", "lock", "register",
                         "scan", "lose", "clear"}]
  /\ want \in [Clients -> Handles \cup {NoHandle}]
  /\ toscan \in [Clients -> SUBSET Clients]
  /\ taken \in [Clients -> BOOLEAN]
  /\ requests \in [Clients -> 0..MaxRequests]

TypeOK == R!TypeOK /\ LocalTypeOK

(* client.c: login_mutex is held by the one thread between registering the *)
(* handle and the end of its login, and by nobody otherwise.               *)
LoginExclusive == \A c \in Clients : Inside(c) <=> lm = c

(* client.c, user.h: with all paths of client_login and client_logout, the *)
(* count of a USER is the registry's reference, one per client that owns   *)
(* it, and those lost when mb_init failed.                                 *)
RefCountExact == R!RefCountExact

(* server.c: USERS and SEND read the handle of any client whose status is  *)
(* LOGGED_IN, without a reference.  Its USER is not freed, even while      *)
(* client_logout has dropped its own and another login unregisters.        *)
UserReadable == \A c \in Clients : LoggedIn(c) => user[c] \in listed

(* protocol.h: each packet from a client engenders an ACK or a NACK.       *)
LoginAnswered == \A c \in Clients : pc[c] # "idle" ~> pc[c] = "idle"

Session == INSTANCE Sessions WITH
  who <- [c \in Clients |-> IF LoggedIn(c) THEN handle[user[c]] ELSE NoHandle]

(* client.h: a login fails if some other client is logged in under the     *)
(* handle; a client enters and leaves in one step as others see it.        *)
ImplementsSessions == Session!Spec
=============================================================================
