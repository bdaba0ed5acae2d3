------------------------- MODULE ClientLogin_proofs -------------------------
(***************************************************************************)
(* client_login and client_logout implement Sessions: whatever the number  *)
(* of clients and handles, a client enters only under a handle that nobody *)
(* is logged in under, if the static mutex was initialised before a second *)
(* LOGIN came in.                                                          *)
(*                                                                         *)
(* The argument: login_mutex is held from ureg_register to the end, so     *)
(* while c scans nobody else enters, and nobody unregisters the USER that  *)
(* c got.  A client that was looked at and is still logged in as that USER *)
(* has been noticed.  Counts of the registry are exact (UserRegistry), so  *)
(* a listed USER keeps its handle through every unref; handles are unique  *)
(* in the registry, so another USER is another handle.                     *)
(***************************************************************************)
EXTENDS ClientLogin, TLAPS

(* The lemmas of the registry, for the registry of this module.            *)
RP == INSTANCE UserRegistry_proofs WITH
        Threads <- Clients, Pointers <- Clients, NoThread <- NoClient

Initialising(c) == pc[c] \in {"init", "set_init"}

(* The mutex is initialised while no other thread is in client_login, and  *)
(* before anybody has logged in.                                           *)
FirstInv ==
  /\ ~init => \A c \in Clients :
       ~LoggedIn(c) /\ (pc[c] = "idle" \/ Initialising(c))
  /\ \A c \in Clients : Initialising(c) =>
       ~init /\ \A d \in Clients : d # c => pc[d] = "idle"

(* Nobody is inside without the mutex; and nobody keeps it, if no client   *)
(* logs in twice.                                                          *)
MutexInv ==
  /\ \A c \in Clients : Inside(c) => lm = c /\ ~LoggedIn(c)
  /\ Careless = {} =>
       /\ \A c \in Clients : lm = c => Inside(c)
       /\ \A c \in Clients : pc[c] \in {"init", "set_init", "lock"} => ~LoggedIn(c)

(* What is known of the USER a client is, or is about to be, logged in as. *)
UserInv ==
  \A c \in Clients :
    /\ LoggedIn(c) => user[c] \in listed
    /\ pc[c] = "clear" => LoggedIn(c)
    /\ LoggedIn(c) /\ pc[c] # "clear" => ptr[c] = user[c]
    /\ pc[c] \in {"init", "set_init", "lock", "register", "scan"}
         => want[c] \in Handles
    /\ pc[c] = "scan" => ptr[c] \in listed /\ handle[ptr[c]] = want[c]

(* A client that was looked at and is logged in as the USER was noticed.   *)
ScanInv ==
  \A c, d \in Clients :
    pc[c] = "scan" /\ d \notin toscan[c] /\ LoggedIn(d) /\ user[d] = ptr[c]
      => taken[c]

Named == \A u \in listed : u \in Users /\ handle[u] \in Handles

LoginInv ==
  /\ RP!RegistryInv /\ Named /\ LocalTypeOK
  /\ FirstInv /\ MutexInv /\ UserInv /\ ScanInv

-----------------------------------------------------------------------------
(* The assumptions of the registry hold of its instance here.              *)
LEMMA ClientsFiniteInRP == RP!IsFiniteSet(Clients)
BY ClientsFinite DEF IsFiniteSet, RP!IsFiniteSet

(* What the registry's operations do to the list and to the handles in it. *)
LEMMA RegisterFacts ==
  ASSUME RP!RegistryInv, Named, NEW c \in Clients, NEW h \in Handles,
         R!Register(c, h)
  PROVE  /\ RP!RegistryInv' /\ Named'
         /\ listed \subseteq listed'
         /\ \A v \in listed : handle'[v] = handle[v]
         /\ \E u \in Users : /\ ptr' = [ptr EXCEPT ![c] = u]
                             /\ u \in listed' /\ handle'[u] = h
<1>1. RP!RegistryInv'
  <2>1. RP!Register(c, h)
    BY DEF R!Register, RP!Register, R!RegisterIn, RP!RegisterIn, R!RegisterNew,
           RP!RegisterNew, R!RegisterFound, RP!RegisterFound, R!Found, RP!Found
  <2> QED
    BY <2>1, RP!RegisterPreserves, ClientsFiniteInRP, ClientsFinite, UsersFresh,
       HandlesFresh
<1>2. PICK u \in Users : R!RegisterIn(h, u) /\ ptr' = [ptr EXCEPT ![c] = u]
  BY DEF R!Register
<1>3. handle \in [Users -> Handles \cup {NoHandle}] /\ listed \subseteq Users
  BY DEF RP!RegistryInv, RP!TypeOK
<1>4. \A v \in listed : rc[v] # 0
  <2> SUFFICES ASSUME NEW v \in listed PROVE rc[v] # 0
    OBVIOUS
  <2>1. RP!Cardinality(RP!Holders(v)) \in Nat
    BY <1>3, RP!HoldersNat, ClientsFiniteInRP, ClientsFinite, UsersFresh,
       HandlesFresh
  <2>2. rc[v] = 1 + RP!Cardinality(RP!Holders(v)) + leaked[v] /\ leaked[v] \in Nat
    BY <1>3 DEF RP!RegistryInv, RP!RefCountExact, RP!TypeOK
  <2> QED
    BY <2>1, <2>2
<1>5. /\ listed' = listed \cup {u} /\ handle'[u] = h
      /\ \A v \in listed : handle'[v] = handle[v]
  <2>1. CASE R!RegisterFound(h, u)
    BY <2>1, <1>3 DEF R!RegisterFound, R!Found
  <2>2. CASE R!RegisterNew(h, u)
    BY <2>2, <1>3, <1>4 DEF R!RegisterNew
  <2> QED
    BY <1>2, <2>1, <2>2 DEF R!RegisterIn
<1>6. Named'
  BY <1>3, <1>5 DEF Named
<1> QED
  BY <1>1, <1>2, <1>5, <1>6

LEMMA UnregisterFacts ==
  ASSUME RP!RegistryInv, Named, NEW h \in Handles, R!Unregister(h)
  PROVE  /\ RP!RegistryInv' /\ Named' /\ ptr' = ptr
         /\ \E u \in listed : handle[u] = h /\ listed' = listed \ {u}
         /\ \A v \in listed' : handle'[v] = handle[v]
<1>1. RP!RegistryInv'
  <2>1. RP!Unregister(h)
    BY DEF R!Unregister, RP!Unregister, R!UnregisterIn, RP!UnregisterIn,
           R!UnrefAll, RP!UnrefAll, R!Found, RP!Found
  <2> QED
    BY <2>1, RP!UnregisterPreserves, ClientsFiniteInRP, ClientsFinite,
       UsersFresh, HandlesFresh
<1>2. PICK u \in R!Found(h) : R!UnrefAll({u}) /\ listed' = listed \ {u}
  BY DEF R!Unregister, R!UnregisterIn
<1>3. \A v \in listed' : handle'[v] = handle[v]
  BY <1>2 DEF R!UnrefAll, Named
<1> QED
  BY <1>1, <1>2, <1>3 DEF R!Unregister, R!Found, Named

LEMMA DropFacts ==
  ASSUME RP!RegistryInv, Named, NEW c \in Clients, R!DropPointer(c)
  PROVE  /\ RP!RegistryInv' /\ Named'
         /\ listed' = listed /\ ptr' = [ptr EXCEPT ![c] = NoUser]
         /\ \A v \in listed : handle'[v] = handle[v]
<1>1. RP!DropPointer(c)
  BY DEF R!DropPointer, RP!DropPointer, R!UnrefAll, RP!UnrefAll
<1>2. RP!RegistryInv'
  BY <1>1, RP!DropPreserves, ClientsFiniteInRP, ClientsFinite, UsersFresh,
     HandlesFresh
<1>3. \A v \in listed : handle'[v] = handle[v]
  <2> SUFFICES ASSUME NEW v \in listed PROVE handle'[v] = handle[v]
    OBVIOUS
  <2>1. v \in Users /\ leaked[v] \in Nat
    BY DEF Named, RP!RegistryInv, RP!TypeOK
  <2>2. CASE v = ptr[c]
    <3>1. /\ RP!Cardinality(RP!Holders(v)) > 0
          /\ RP!Cardinality(RP!Holders(v)) \in Nat
      BY <1>1, <2>1, <2>2, RP!HoldersLose, RP!HoldersNat, ClientsFiniteInRP,
         ClientsFinite, UsersFresh, HandlesFresh
         DEF RP!DropPointer, RP!RegistryInv
    <3>2. rc[v] = 1 + RP!Cardinality(RP!Holders(v)) + leaked[v]
      BY <2>1 DEF RP!RegistryInv, RP!RefCountExact
    <3>3. rc[v] # 1
      BY <3>1, <3>2, <2>1
    <3> QED
      BY <3>3, <2>1 DEF R!DropPointer, R!UnrefAll
  <2>3. CASE v # ptr[c]
    BY <2>3, <2>1 DEF R!DropPointer, R!UnrefAll
  <2> QED
    BY <2>2, <2>3
<1> QED
  BY <1>2, <1>3 DEF R!DropPointer, Named

LEMMA LoseFacts ==
  ASSUME RP!RegistryInv, Named, NEW c \in Clients, R!LosePointer(c)
  PROVE  /\ RP!RegistryInv' /\ Named'
         /\ listed' = listed /\ ptr' = [ptr EXCEPT ![c] = NoUser]
         /\ handle' = handle
<1>1. RP!RegistryInv'
  <2>1. RP!LosePointer(c)
    BY DEF R!LosePointer, RP!LosePointer, R!objVars, RP!objVars
  <2> QED
    BY <2>1, RP!LosePreserves, ClientsFiniteInRP, ClientsFinite, UsersFresh,
       HandlesFresh
<1> QED
  BY <1>1 DEF R!LosePointer, R!objVars, Named

LEMMA SameFacts ==
  ASSUME RP!RegistryInv, Named, UNCHANGED regVars
  PROVE  RP!RegistryInv' /\ Named'
<1>1. UNCHANGED <<open, RP!objVars, ptr, leaked>> /\ owner' \in Clients \cup {NoClient}
  BY DEF regVars, RP!objVars, RP!RegistryInv, RP!TypeOK
<1>2. RP!RegistryInv'
  BY <1>1, RP!IdlePreserves, ClientsFiniteInRP, ClientsFinite, UsersFresh,
     HandlesFresh
<1> QED
  BY <1>2 DEF regVars, Named

-----------------------------------------------------------------------------
LEMMA LoginInit == Init => LoginInv
<1> SUFFICES ASSUME Init PROVE LoginInv
  OBVIOUS
<1>1. RP!Init
  BY DEF Init, R!Init, RP!Init
<1>2. RP!RegistryInv
  BY <1>1, RP!RegistryInit, ClientsFiniteInRP, ClientsFinite, UsersFresh,
     HandlesFresh
<1>3. Named
  BY DEF Init, R!Init, Named
<1>4. LocalTypeOK
  <2>1. 0 \in 0..MaxRequests
    BY MaxRequestsOK
  <2>2. /\ requests \in [Clients -> 0..MaxRequests]
        /\ toscan \in [Clients -> SUBSET Clients]
        /\ taken \in [Clients -> BOOLEAN]
    BY <2>1 DEF Init
  <2> QED
    BY <2>2 DEF Init, LocalTypeOK, LoggedIn
<1> QED
  BY <1>2, <1>3, <1>4, ClientsFinite
     DEF Init, LoginInv, FirstInv, MutexInv, UserInv, ScanInv, Inside, LoggedIn,
         Initialising
(* A LOGIN packet begins a call.                                           *)
LEMMA LoginPacketKeeps ==
  ASSUME FirstAlone, LoginInv, NEW c \in Clients, LoginPacket(c)
  PROVE  LoginInv'
<1> USE DEF LoginInv, LoggedIn, Goto, Return, Scanned, scanVars
<1>1. RP!RegistryInv' /\ Named'
  BY SameFacts DEF LoginPacket
<1>2. LocalTypeOK'
  <2>1. requests' \in [Clients -> 0..MaxRequests]
    BY MaxRequestsOK DEF LoginPacket, LocalTypeOK
  <2> QED
    BY <2>1 DEF LoginPacket, LocalTypeOK
<1>3. FirstInv'
  BY DEF LoginPacket, LocalTypeOK, FirstInv, Initialising, MutexInv, Inside, UserInv
<1>4. MutexInv'
  BY ClientsFinite DEF LoginPacket, LocalTypeOK, FirstInv, Initialising, MutexInv,
     Inside, UserInv
<1>5. UserInv'
  BY DEF LoginPacket, regVars, LocalTypeOK, UserInv, MutexInv, Inside
<1>6. ScanInv'
  BY DEF LoginPacket, regVars, LocalTypeOK, ScanInv, MutexInv, Inside
<1> QED
  BY <1>1, <1>2, <1>3, <1>4, <1>5, <1>6

(* Nobody is inside when the mutex is initialised, as the first call is alone. *)
LEMMA InitMutexKeeps ==
  ASSUME FirstAlone, LoginInv, NEW c \in Clients, InitMutex(c)
  PROVE  LoginInv'
<1> USE DEF LoginInv, LoggedIn, Goto, Return, Scanned, scanVars
<1>1. RP!RegistryInv' /\ Named'
  BY SameFacts DEF InitMutex
<1>2. LocalTypeOK'
  BY ClientsFinite, UsersFresh DEF InitMutex, LocalTypeOK, UserInv, Named
<1>3. FirstInv'
  BY DEF InitMutex, LocalTypeOK, FirstInv, Initialising, MutexInv, Inside, UserInv
<1>4. MutexInv'
  BY ClientsFinite DEF InitMutex, LocalTypeOK, FirstInv, Initialising, MutexInv,
     Inside, UserInv
<1>5. UserInv'
  BY DEF InitMutex, regVars, LocalTypeOK, UserInv, MutexInv, Inside
<1>6. ScanInv'
  BY DEF InitMutex, regVars, LocalTypeOK, ScanInv, MutexInv, Inside
<1> QED
  BY <1>1, <1>2, <1>3, <1>4, <1>5, <1>6

(* From now on every call goes straight to the mutex.                      *)
LEMMA SetInitKeeps ==
  ASSUME FirstAlone, LoginInv, NEW c \in Clients, SetInit(c)
  PROVE  LoginInv'
<1> USE DEF LoginInv, LoggedIn, Goto, Return, Scanned, scanVars
<1>1. RP!RegistryInv' /\ Named'
  BY SameFacts DEF SetInit
<1>2. LocalTypeOK'
  BY ClientsFinite, UsersFresh DEF SetInit, LocalTypeOK, UserInv, Named
<1>3. FirstInv'
  BY DEF SetInit, LocalTypeOK, FirstInv, Initialising, MutexInv, Inside, UserInv
<1>4. MutexInv'
  BY ClientsFinite DEF SetInit, LocalTypeOK, FirstInv, Initialising, MutexInv,
     Inside, UserInv
<1>5. UserInv'
  BY DEF SetInit, regVars, LocalTypeOK, UserInv, MutexInv, Inside
<1>6. ScanInv'
  BY DEF SetInit, regVars, LocalTypeOK, ScanInv, MutexInv, Inside
<1> QED
  BY <1>1, <1>2, <1>3, <1>4, <1>5, <1>6

(* The mutex is taken, by a client that is not logged in or for good.      *)
LEMMA LockKeeps ==
  ASSUME FirstAlone, LoginInv, NEW c \in Clients, Lock(c)
  PROVE  LoginInv'
<1> USE DEF LoginInv, LoggedIn, Goto, Return, Scanned, scanVars
<1>1. RP!RegistryInv' /\ Named'
  BY SameFacts DEF Lock
<1>2. LocalTypeOK'
  BY ClientsFinite, UsersFresh DEF Lock, LocalTypeOK, UserInv, Named
<1>3. FirstInv'
  BY DEF Lock, LocalTypeOK, FirstInv, Initialising, MutexInv, Inside, UserInv
<1>4. MutexInv'
  BY ClientsFinite DEF Lock, LocalTypeOK, FirstInv, Initialising, MutexInv,
     Inside, UserInv
<1>5. UserInv'
  BY DEF Lock, regVars, LocalTypeOK, UserInv, MutexInv, Inside
<1>6. ScanInv'
  BY DEF Lock, regVars, LocalTypeOK, ScanInv, MutexInv, Inside
<1> QED
  BY <1>1, <1>2, <1>3, <1>4, <1>5, <1>6

(* A failed registration gives the mutex back.                             *)
LEMMA RegisterFailsKeeps ==
  ASSUME FirstAlone, LoginInv, NEW c \in Clients, RegisterFails(c)
  PROVE  LoginInv'
<1> USE DEF LoginInv, LoggedIn, Goto, Return, Scanned, scanVars
<1>1. RP!RegistryInv' /\ Named'
  BY SameFacts DEF RegisterFails
<1>2. LocalTypeOK'
  BY ClientsFinite, UsersFresh DEF RegisterFails, LocalTypeOK, UserInv, Named
<1>3. FirstInv'
  BY DEF RegisterFails, LocalTypeOK, FirstInv, Initialising, MutexInv, Inside, UserInv
<1>4. MutexInv'
  BY ClientsFinite DEF RegisterFails, LocalTypeOK, FirstInv, Initialising, MutexInv,
     Inside, UserInv
<1>5. UserInv'
  BY DEF RegisterFails, regVars, LocalTypeOK, UserInv, MutexInv, Inside
<1>6. ScanInv'
  BY DEF RegisterFails, regVars, LocalTypeOK, ScanInv, MutexInv, Inside
<1> QED
  BY <1>1, <1>2, <1>3, <1>4, <1>5, <1>6

(* The client enters: it is the only one that was not looked at as a USER. *)
LEMMA EnterKeeps ==
  ASSUME FirstAlone, LoginInv, NEW c \in Clients, Enter(c)
  PROVE  LoginInv'
<1> USE DEF LoginInv, LoggedIn, Goto, Return, Scanned, scanVars
<1>1. RP!RegistryInv' /\ Named'
  BY SameFacts DEF Enter
<1>2. LocalTypeOK'
  BY ClientsFinite, UsersFresh DEF Enter, LocalTypeOK, UserInv, Named
<1>3. FirstInv'
  BY DEF Enter, LocalTypeOK, FirstInv, Initialising, MutexInv, Inside, UserInv
<1>4. MutexInv'
  BY ClientsFinite DEF Enter, LocalTypeOK, FirstInv, Initialising, MutexInv,
     Inside, UserInv
<1>5. UserInv'
  BY DEF Enter, regVars, LocalTypeOK, UserInv, MutexInv, Inside
<1>6. ScanInv'
  BY DEF Enter, regVars, LocalTypeOK, ScanInv, MutexInv, Inside
<1> QED
  BY <1>1, <1>2, <1>3, <1>4, <1>5, <1>6

(* The fields of a client that leaves are cleared.                         *)
LEMMA LogoutClearKeeps ==
  ASSUME FirstAlone, LoginInv, NEW c \in Clients, LogoutClear(c)
  PROVE  LoginInv'
<1> USE DEF LoginInv, LoggedIn, Goto, Return, Scanned, scanVars
<1>1. RP!RegistryInv' /\ Named'
  BY SameFacts DEF LogoutClear
<1>2. LocalTypeOK'
  BY ClientsFinite, UsersFresh DEF LogoutClear, LocalTypeOK, UserInv, Named
<1>3. FirstInv'
  BY DEF LogoutClear, LocalTypeOK, FirstInv, Initialising, MutexInv, Inside, UserInv
<1>4. MutexInv'
  BY ClientsFinite DEF LogoutClear, LocalTypeOK, FirstInv, Initialising, MutexInv,
     Inside, UserInv
<1>5. UserInv'
  BY DEF LogoutClear, regVars, LocalTypeOK, UserInv, MutexInv, Inside
<1>6. ScanInv'
  BY DEF LogoutClear, regVars, LocalTypeOK, ScanInv, MutexInv, Inside
<1> QED
  BY <1>1, <1>2, <1>3, <1>4, <1>5, <1>6

(* One more client is looked at.                                           *)
LEMMA ScanKeeps ==
  ASSUME FirstAlone, LoginInv, NEW c \in Clients, NEW d \in Clients,
         Scan(c, d)
  PROVE  LoginInv'
<1> USE DEF LoginInv, LoggedIn, Goto, Return, Scanned, scanVars
<1>1. RP!RegistryInv' /\ Named'
  BY SameFacts DEF Scan
<1>2. LocalTypeOK'
  BY ClientsFinite, UsersFresh DEF Scan, LocalTypeOK, UserInv, Named
<1>3. FirstInv'
  BY DEF Scan, LocalTypeOK, FirstInv, Initialising, MutexInv, Inside, UserInv
<1>4. MutexInv'
  BY ClientsFinite DEF Scan, LocalTypeOK, FirstInv, Initialising, MutexInv,
     Inside, UserInv
<1>5. UserInv'
  BY DEF Scan, regVars, LocalTypeOK, UserInv, MutexInv, Inside
<1>6. ScanInv'
  BY DEF Scan, regVars, LocalTypeOK, ScanInv, MutexInv, Inside
<1> QED
  BY <1>1, <1>2, <1>3, <1>4, <1>5, <1>6

(* The client owns a listed USER of its handle, and has looked at nobody.  *)
LEMMA RegisterKeeps ==
  ASSUME FirstAlone, LoginInv, NEW c \in Clients, Register(c)
  PROVE  LoginInv'
<1> USE DEF LoginInv, LoggedIn, Goto, Return, Scanned, scanVars
<1>0. want[c] \in Handles
  BY DEF Register, UserInv
<1>1. /\ RP!RegistryInv' /\ Named' /\ listed \subseteq listed'
      /\ \A v \in listed : handle'[v] = handle[v]
      /\ \E u \in Users : /\ ptr' = [ptr EXCEPT ![c] = u]
                          /\ u \in listed' /\ handle'[u] = want[c]
  BY <1>0, RegisterFacts DEF Register
<1>2. LocalTypeOK'
  BY ClientsFinite, UsersFresh DEF Register, LocalTypeOK, UserInv, Named
<1>3. FirstInv'
  BY DEF Register, LocalTypeOK, FirstInv, Initialising, MutexInv, Inside, UserInv
<1>4. MutexInv'
  BY ClientsFinite DEF Register, LocalTypeOK, FirstInv, Initialising, MutexInv,
     Inside, UserInv
<1>5. UserInv'
  BY <1>1 DEF Register, LocalTypeOK, UserInv, MutexInv, Inside, RP!RegistryInv,
     RP!TypeOK
<1>6. ScanInv'
  BY <1>1 DEF Register, LocalTypeOK, ScanInv, MutexInv, Inside
<1> QED
  BY <1>1, <1>2, <1>3, <1>4, <1>5, <1>6

(* The reference is given back; the USER stays listed under its handle.    *)
LEMMA RejectKeeps ==
  ASSUME FirstAlone, LoginInv, NEW c \in Clients, Reject(c)
  PROVE  LoginInv'
<1> USE DEF LoginInv, LoggedIn, Goto, Return, Scanned, scanVars
<1>1. /\ RP!RegistryInv' /\ Named'
      /\ listed' = listed /\ ptr' = [ptr EXCEPT ![c] = NoUser]
      /\ \A v \in listed : handle'[v] = handle[v]
  BY DropFacts DEF Reject
<1>2. LocalTypeOK'
  BY ClientsFinite, UsersFresh DEF Reject, LocalTypeOK, UserInv, Named
<1>3. FirstInv'
  BY DEF Reject, LocalTypeOK, FirstInv, Initialising, MutexInv, Inside, UserInv
<1>4. MutexInv'
  BY ClientsFinite DEF Reject, LocalTypeOK, FirstInv, Initialising, MutexInv,
     Inside, UserInv
<1>5. UserInv'
  BY <1>1 DEF Reject, LocalTypeOK, UserInv, MutexInv, Inside, RP!RegistryInv,
     RP!TypeOK
<1>6. ScanInv'
  BY <1>1 DEF Reject, LocalTypeOK, ScanInv, MutexInv, Inside, RP!RegistryInv,
     RP!TypeOK
<1> QED
  BY <1>1, <1>2, <1>3, <1>4, <1>5, <1>6

(* A client that leaves drops its reference first; its USER stays listed.  *)
LEMMA LogoutKeeps ==
  ASSUME FirstAlone, LoginInv, NEW c \in Clients, Logout(c)
  PROVE  LoginInv'
<1> USE DEF LoginInv, LoggedIn, Goto, Return, Scanned, scanVars
<1>1. /\ RP!RegistryInv' /\ Named'
      /\ listed' = listed /\ ptr' = [ptr EXCEPT ![c] = NoUser]
      /\ \A v \in listed : handle'[v] = handle[v]
  BY DropFacts DEF Logout
<1>2. LocalTypeOK'
  BY ClientsFinite, UsersFresh DEF Logout, LocalTypeOK, UserInv, Named
<1>3. FirstInv'
  BY DEF Logout, LocalTypeOK, FirstInv, Initialising, MutexInv, Inside, UserInv
<1>4. MutexInv'
  BY ClientsFinite DEF Logout, LocalTypeOK, FirstInv, Initialising, MutexInv,
     Inside, UserInv
<1>5. UserInv'
  BY <1>1 DEF Logout, LocalTypeOK, UserInv, MutexInv, Inside, RP!RegistryInv,
     RP!TypeOK
<1>6. ScanInv'
  BY <1>1 DEF Logout, LocalTypeOK, ScanInv, MutexInv, Inside, RP!RegistryInv,
     RP!TypeOK
<1> QED
  BY <1>1, <1>2, <1>3, <1>4, <1>5, <1>6

(* Only the USER that nobody is logged in as is taken off the list.        *)
LEMMA MailboxFailsKeeps ==
  ASSUME FirstAlone, LoginInv, NEW c \in Clients, MailboxFails(c)
  PROVE  LoginInv'
<1> USE DEF LoginInv, LoggedIn, Goto, Return, Scanned, scanVars
<1>0. want[c] \in Handles /\ ptr[c] \in listed /\ handle[ptr[c]] = want[c]
  BY DEF MailboxFails, UserInv
<1>1. /\ RP!RegistryInv' /\ Named' /\ ptr' = ptr
      /\ \E u \in listed : handle[u] = want[c] /\ listed' = listed \ {u}
      /\ \A v \in listed' : handle'[v] = handle[v]
  BY <1>0, UnregisterFacts DEF MailboxFails
<1>2. LocalTypeOK'
  BY ClientsFinite, UsersFresh DEF MailboxFails, LocalTypeOK, UserInv, Named
<1>3. FirstInv'
  BY DEF MailboxFails, LocalTypeOK, FirstInv, Initialising, MutexInv, Inside, UserInv
<1>4. MutexInv'
  BY ClientsFinite DEF MailboxFails, LocalTypeOK, FirstInv, Initialising, MutexInv,
     Inside, UserInv
<1>5. UserInv'
  <2>1. listed' = listed \ {ptr[c]}
    BY <1>0, <1>1 DEF RP!RegistryInv, RP!HandlesUnique
  <2>2. \A d \in Clients : LoggedIn(d) => user[d] # ptr[c]
    BY DEF MailboxFails, ScanInv, LocalTypeOK
  <2> QED
    BY <1>1, <2>1, <2>2
       DEF MailboxFails, LocalTypeOK, UserInv, MutexInv, Inside
<1>6. ScanInv'
  BY <1>1 DEF MailboxFails, LocalTypeOK, ScanInv, MutexInv, Inside
<1> QED
  BY <1>1, <1>2, <1>3, <1>4, <1>5, <1>6

(* The reference is forgotten, nothing else.                               *)
LEMMA LoseKeeps ==
  ASSUME FirstAlone, LoginInv, NEW c \in Clients, Lose(c)
  PROVE  LoginInv'
<1> USE DEF LoginInv, LoggedIn, Goto, Return, Scanned, scanVars
<1>1. /\ RP!RegistryInv' /\ Named'
      /\ listed' = listed /\ ptr' = [ptr EXCEPT ![c] = NoUser]
      /\ handle' = handle
  BY LoseFacts DEF Lose
<1>2. LocalTypeOK'
  BY ClientsFinite, UsersFresh DEF Lose, LocalTypeOK, UserInv, Named
<1>3. FirstInv'
  BY DEF Lose, LocalTypeOK, FirstInv, Initialising, MutexInv, Inside, UserInv
<1>4. MutexInv'
  BY ClientsFinite DEF Lose, LocalTypeOK, FirstInv, Initialising, MutexInv,
     Inside, UserInv
<1>5. UserInv'
  BY <1>1 DEF Lose, LocalTypeOK, UserInv, MutexInv, Inside, RP!RegistryInv,
     RP!TypeOK
<1>6. ScanInv'
  BY <1>1 DEF Lose, LocalTypeOK, ScanInv, MutexInv, Inside, RP!RegistryInv,
     RP!TypeOK
<1> QED
  BY <1>1, <1>2, <1>3, <1>4, <1>5, <1>6

LEMMA LoginStutters ==
  ASSUME LoginInv, UNCHANGED vars
  PROVE  LoginInv'
<1> USE DEF LoginInv, vars, scanVars
<1>1. RP!RegistryInv' /\ Named'
  BY SameFacts
<1>2. LocalTypeOK' /\ FirstInv' /\ MutexInv'
  BY DEF LocalTypeOK, FirstInv, MutexInv, LoggedIn, Inside, Initialising
<1>3. UserInv' /\ ScanInv'
  BY DEF regVars, UserInv, ScanInv, LoggedIn
<1> QED
  BY <1>1, <1>2, <1>3

LEMMA LoginStep == FirstAlone /\ LoginInv /\ [Next]_vars => LoginInv'
<1> SUFFICES ASSUME FirstAlone, LoginInv, [Next]_vars PROVE LoginInv'
  OBVIOUS
<1>1. CASE UNCHANGED vars
  BY <1>1, LoginStutters
<1>2. CASE \E c \in Clients : LoginPacket(c) \/ Logout(c) \/ Continue(c)
  <2>1. PICK c \in Clients : LoginPacket(c) \/ Logout(c) \/ Continue(c)
    BY <1>2
  <2>2. CASE LoginPacket(c) \/ Logout(c)
    BY <2>2, LoginPacketKeeps, LogoutKeeps
  <2>3. CASE InitMutex(c) \/ SetInit(c) \/ Lock(c)
    BY <2>3, InitMutexKeeps, SetInitKeeps, LockKeeps
  <2>4. CASE Register(c) \/ RegisterFails(c) \/ \E d \in Clients : Scan(c, d)
    BY <2>4, RegisterKeeps, RegisterFailsKeeps, ScanKeeps
  <2>5. CASE Reject(c) \/ Enter(c) \/ MailboxFails(c) \/ Lose(c) \/ LogoutClear(c)
    BY <2>5, RejectKeeps, EnterKeeps, MailboxFailsKeeps, LoseKeeps,
       LogoutClearKeeps
  <2> QED
    BY <2>1, <2>2, <2>3, <2>4, <2>5 DEF Continue
<1> QED
  BY <1>1, <1>2 DEF Next

-----------------------------------------------------------------------------
(* The inductive invariant of client_login and client_logout.              *)
THEOREM LoginCorrect ==
  ASSUME FirstAlone
  PROVE  Spec => []LoginInv
<1>1. LoginInv /\ [Next]_vars => LoginInv'
  BY LoginStep
<1> QED
  BY LoginInit, <1>1, PTL DEF Spec

(* server.c reads the USER of any client that is marked as logged in: that *)
(* USER is still listed, hence not freed, in every reachable state.        *)
THEOREM UserReadableHolds ==
  ASSUME FirstAlone
  PROVE  Spec => []UserReadable
<1>1. LoginInv => UserReadable
  BY DEF LoginInv, UserInv, UserReadable
<1> QED
  BY LoginCorrect, <1>1, PTL

(* login_mutex is held exactly by the thread between ureg_register and the *)
(* end of its login, provided that no logged-in client sends LOGIN again.  *)
THEOREM LoginExclusiveHolds ==
  ASSUME FirstAlone, Careless = {}
  PROVE  Spec => []LoginExclusive
<1>1. LoginInv => LoginExclusive
  BY DEF LoginInv, MutexInv, LoginExclusive
<1> QED
  BY LoginCorrect, <1>1, PTL

(* The initial states have nobody logged in.                               *)
LEMMA SessionInit == Init => Session!Init
BY DEF Init, Session!Init, LoggedIn

-----------------------------------------------------------------------------
Who == [c \in Clients |-> IF LoggedIn(c) THEN handle[user[c]] ELSE NoHandle]

(* A step that keeps the fields of the clients and the handles of the      *)
(* USERs they are logged in as is not seen by others.                      *)
LEMMA SessionStutters ==
  ASSUME UNCHANGED <<status, user>>,
         \A d \in Clients : LoggedIn(d) => handle'[user[d]] = handle[user[d]]
  PROVE  UNCHANGED Who
BY DEF Who, LoggedIn

(* A client enters only when nobody is logged in under its handle.         *)
LEMMA EnterIsEnter ==
  ASSUME LoginInv, NEW c \in Clients, Enter(c)
  PROVE  Session!Enter(c, want[c])
<1> USE DEF LoginInv
<1>1. ~LoggedIn(c)
  BY DEF Enter, Scanned, MutexInv, Inside
<1>2. want[c] \in Handles /\ ptr[c] \in listed /\ handle[ptr[c]] = want[c]
  BY DEF Enter, Scanned, UserInv
<1>3. Who[c] = NoHandle
  BY <1>1 DEF Who
<1>4. ASSUME NEW d \in Clients PROVE Who[d] # want[c]
  <2>1. CASE LoggedIn(d)
    <3>1. user[d] # ptr[c]
      BY <2>1 DEF Enter, Scanned, ScanInv
    <3>2. user[d] \in listed
      BY <2>1 DEF UserInv
    <3>3. handle[user[d]] # handle[ptr[c]]
      BY <1>2, <3>1, <3>2 DEF RP!RegistryInv, RP!HandlesUnique
    <3> QED
      BY <1>2, <2>1, <3>3 DEF Who
  <2>2. CASE ~LoggedIn(d)
    BY <1>2, <2>2, HandlesFresh DEF Who
  <2> QED
    BY <2>1, <2>2
<1>5. /\ status' = [status EXCEPT ![c] = "LOGGED_IN"]
      /\ user' = [user EXCEPT ![c] = ptr[c]]
      /\ handle' = handle
  BY DEF Enter, regVars
<1>6. Who' = [Who EXCEPT ![c] = want[c]]
  BY <1>2, <1>5 DEF Who, LoggedIn, LocalTypeOK
<1> QED
  BY <1>3, <1>4, <1>6 DEF Session!Enter, Who

LEMMA LogoutClearIsLeave ==
  ASSUME LoginInv, NEW c \in Clients, LogoutClear(c)
  PROVE  Session!Leave(c)
<1> USE DEF LoginInv
<1>1. LoggedIn(c) /\ user[c] \in listed
  BY DEF LogoutClear, UserInv
<1>2. Who[c] # NoHandle
  BY <1>1, HandlesFresh DEF Who, Named
<1>3. /\ status' = [status EXCEPT ![c] = "NO_USER"]
      /\ user' = [user EXCEPT ![c] = NoUser]
      /\ handle' = handle
  BY DEF LogoutClear, regVars
<1>4. Who' = [Who EXCEPT ![c] = NoHandle]
  BY <1>3 DEF Who, LoggedIn, LocalTypeOK
<1> QED
  BY <1>2, <1>4 DEF Session!Leave, Who

(* The registry's operations keep the handle of every listed USER.         *)
LEMMA OthersStutter ==
  ASSUME LoginInv, LoginInv', NEW c \in Clients,
         \/ LoginPacket(c) \/ Logout(c)
         \/ InitMutex(c) \/ SetInit(c) \/ Lock(c)
         \/ Register(c) \/ RegisterFails(c)
         \/ \E d \in Clients : Scan(c, d)
         \/ Reject(c) \/ MailboxFails(c) \/ Lose(c)
  PROVE  UNCHANGED Who
<1> USE DEF LoginInv
<1>1. UNCHANGED <<status, user>>
  BY DEF LoginPacket, Logout, InitMutex, SetInit, Lock, Register, RegisterFails,
         Scan, Reject, MailboxFails, Lose
<1>2. \A d \in Clients : LoggedIn(d) => user[d] \in listed
  BY DEF UserInv
<1>3. \A d \in Clients : LoggedIn(d) => user[d] \in listed'
  BY <1>1 DEF UserInv, LoggedIn
<1>4. CASE UNCHANGED handle
  BY <1>1, <1>4, SessionStutters
<1>5. CASE Register(c)
  <2>1. want[c] \in Handles
    BY <1>5 DEF Register, UserInv
  <2>2. \A v \in listed : handle'[v] = handle[v]
    BY <1>5, <2>1, RegisterFacts DEF Register
  <2> QED
    BY <1>1, <1>2, <2>2, SessionStutters
<1>6. CASE Reject(c) \/ Logout(c)
  <2>1. \A v \in listed : handle'[v] = handle[v]
    BY <1>6, DropFacts DEF Reject, Logout
  <2> QED
    BY <1>1, <1>2, <2>1, SessionStutters
<1>7. CASE MailboxFails(c)
  <2>1. want[c] \in Handles
    BY <1>7 DEF MailboxFails, Scanned, UserInv
  <2>2. \A v \in listed' : handle'[v] = handle[v]
    BY <1>7, <2>1, UnregisterFacts DEF MailboxFails
  <2> QED
    BY <1>1, <1>3, <2>2, SessionStutters
<1>8. CASE Lose(c)
  BY <1>8, <1>4, LoseFacts DEF Lose
<1>9. CASE LoginPacket(c) \/ InitMutex(c) \/ SetInit(c) \/ Lock(c)
             \/ RegisterFails(c) \/ \E d \in Clients : Scan(c, d)
  BY <1>9, <1>4 DEF LoginPacket, InitMutex, SetInit, Lock, RegisterFails, Scan,
                    regVars
<1> QED
  BY <1>5, <1>6, <1>7, <1>8, <1>9

LEMMA SessionStep ==
  LoginInv /\ LoginInv' /\ [Next]_vars => [Session!Next]_Who
<1> SUFFICES ASSUME LoginInv, LoginInv', [Next]_vars PROVE [Session!Next]_Who
  OBVIOUS
<1>1. CASE UNCHANGED vars
  BY <1>1 DEF vars, regVars, Who, LoggedIn
<1>2. CASE Next
  <2>1. PICK c \in Clients : LoginPacket(c) \/ Logout(c) \/ Continue(c)
    BY <1>2 DEF Next
  <2>2. CASE Enter(c)
    <3>1. want[c] \in Handles
      BY <2>2 DEF Enter, Scanned, LoginInv, UserInv
    <3>2. Session!Enter(c, want[c])
      BY <2>2, EnterIsEnter
    <3> QED
      BY <3>1, <3>2 DEF Session!Next, Session!Enter
  <2>3. CASE LogoutClear(c)
    BY <2>3, LogoutClearIsLeave DEF Session!Next
  <2>4. CASE ~Enter(c) /\ ~LogoutClear(c)
    BY <2>1, <2>4, OthersStutter DEF Continue
  <2> QED
    BY <2>2, <2>3, <2>4
<1> QED
  BY <1>1, <1>2

(* client_login and client_logout implement the abstract sessions: a login *)
(* succeeds only under a handle nobody is logged in under, however many    *)
(* clients log in and out at once.                                         *)
THEOREM ImplementsSessionsHolds ==
  ASSUME FirstAlone
  PROVE  Spec => ImplementsSessions
<1>1. LoginInv /\ LoginInv' /\ [Next]_vars => [Session!Next]_Who
  BY SessionStep
<1>2. Init => Session!Init
  BY SessionInit
<1> QED
  BY <1>1, <1>2, LoginCorrect, PTL DEF Spec, ImplementsSessions, Session!Spec, Who
=============================================================================
