---------------------------- MODULE UserRegistry ----------------------------
(***************************************************************************)
(* The USER objects of hw5 (user.c) and the registry that maps handles to  *)
(* them (user_registry.c).                                                 *)
(*                                                                         *)
(* A USER is identified by its address: malloc may hand out the address of *)
(* a USER that was freed, so the identities are reused.  `ptr' says which  *)
(* USER each pointer of the rest of the program owns a reference to; it is *)
(* what the reference count has to agree with.                             *)
(*                                                                         *)
(* Grain of atomicity.  What a function does between taking ureg->mutex    *)
(* and releasing it is one step.  The mutex inside a USER is only ever     *)
(* held for straight-line code that takes no other lock, so it blocks      *)
(* nobody across a step and is not modelled.                               *)
(***************************************************************************)
EXTENDS Naturals, FiniteSets

CONSTANTS Threads,    \* the threads that call the registry
          Handles,    \* user names
          Users,      \* addresses malloc may return for a USER
          Pointers,   \* places outside the registry that can own a USER *
          NoThread, NoHandle, NoUser

ASSUME PointersFinite == IsFiniteSet(Pointers)
ASSUME NoUserFresh    == NoUser \notin Users
ASSUME NoThreadFresh  == NoThread \notin Threads
ASSUME NoHandleFresh  == NoHandle \notin Handles

VARIABLES
  open,      \* between ureg_init and ureg_fini
  listed,    \* the USERs of the doubly linked list (its order decides
             \* nothing: handles are unique in it, see HandlesUnique)
  handle,    \* USER.handle, NoHandle when the address is not allocated
  rc,        \* USER.referenceCount, 0 when the address is not allocated
  owner,     \* the thread that holds ureg->mutex
  ptr,       \* the USER each pointer owns a reference to
  leaked     \* per USER, the pointers lost without a user_unref

objVars == <<listed, handle, rc>>
vars    == <<open, listed, handle, rc, owner, ptr, leaked>>

Holders(u) == {p \in Pointers : ptr[p] = u}
Found(h)   == {u \in listed : handle[u] = h}

Init ==
  /\ open = TRUE
  /\ listed = {}
  /\ handle = [u \in Users |-> NoHandle]
  /\ rc = [u \in Users |-> 0]
  /\ owner = NoThread
  /\ ptr = [p \in Pointers |-> NoUser]
  /\ leaked = [u \in Users |-> 0]

-----------------------------------------------------------------------------
(* user_unref on every USER of S: a count that reaches 0 frees the USER    *)
(* and its handle.                                                         *)
UnrefAll(S) ==
  /\ rc' = [u \in Users |-> IF u \in S THEN rc[u] - 1 ELSE rc[u]]
  /\ handle' = [u \in Users |-> IF u \in S /\ rc[u] = 1 THEN NoHandle
                                                        ELSE handle[u]]

(* Mutant: an existing entry is returned without user_ref.                 *)
RegisterFoundNoRef(h, u) ==
  /\ u \in Found(h)
  /\ UNCHANGED <<listed, handle, rc>>

(* ureg_register, the handle is found: user_ref and return the entry.      *)
RegisterFound(h, u) ==
  /\ u \in Found(h)
  /\ rc' = [rc EXCEPT ![u] = @ + 1]
  /\ UNCHANGED <<listed, handle>>

(* Mutant: a new entry is appended without searching the list first.       *)
RegisterNewUnsearched(h, u) ==
  /\ u \in Users /\ rc[u] = 0
  /\ listed' = listed \cup {u}
  /\ handle' = [handle EXCEPT ![u] = h]
  /\ rc' = [rc EXCEPT ![u] = 2]

(* ureg_register, the handle is new: the reference of user_create is the   *)
(* registry's, the one of user_ref the caller's.                           *)
RegisterNew(h, u) ==
  /\ Found(h) = {}
  /\ u \in Users /\ rc[u] = 0
  /\ listed' = listed \cup {u}
  /\ handle' = [handle EXCEPT ![u] = h]
  /\ rc' = [rc EXCEPT ![u] = 2]

RegisterIn(h, u) == RegisterFound(h, u) \/ RegisterNew(h, u)

(* ureg_unregister, the handle is found: drop the registry's reference and *)
(* unlink the entry.                                                       *)
UnregisterIn(h) ==
  \E u \in Found(h) : UnrefAll({u}) /\ listed' = listed \ {u}

-----------------------------------------------------------------------------
Register(p, h) ==
  /\ open /\ owner = NoThread /\ ptr[p] = NoUser
  /\ \E u \in Users : RegisterIn(h, u) /\ ptr' = [ptr EXCEPT ![p] = u]
  /\ UNCHANGED <<open, owner, leaked>>

Unregister(h) ==
  /\ open /\ owner = NoThread
  /\ UnregisterIn(h)
  /\ UNCHANGED <<open, owner, ptr, leaked>>

(* ureg_unregister, the handle is not found: the loop falls through and    *)
(* the function returns without unlocking.                                 *)
UnregisterMissing(t, h) ==
  /\ open /\ owner = NoThread /\ Found(h) = {}
  /\ owner' = t
  /\ UNCHANGED <<open, objVars, ptr, leaked>>

(* user_ref: the pointer q is copied into p.                               *)
CopyPointer(p, q) ==
  /\ ptr[p] = NoUser /\ ptr[q] # NoUser
  /\ ptr' = [ptr EXCEPT ![p] = ptr[q]]
  /\ rc' = [rc EXCEPT ![ptr[q]] = @ + 1]
  /\ UNCHANGED <<open, listed, handle, owner, leaked>>

(* user_unref on behalf of the pointer p, which is discarded.              *)
DropPointer(p) ==
  /\ ptr[p] # NoUser
  /\ UnrefAll({ptr[p]})
  /\ ptr' = [ptr EXCEPT ![p] = NoUser]
  /\ UNCHANGED <<open, listed, owner, leaked>>

(* The pointer p goes out of scope and nobody calls user_unref, as on the  *)
(* path of client_login where mb_init fails.                               *)
LosePointer(p) ==
  /\ ptr[p] # NoUser
  /\ leaked' = [leaked EXCEPT ![ptr[p]] = @ + 1]
  /\ ptr' = [ptr EXCEPT ![p] = NoUser]
  /\ UNCHANGED <<open, objVars, owner>>

(* ureg_fini: unref every entry, free the list.  It takes no lock.         *)
Fini ==
  /\ open /\ open' = FALSE
  /\ UnrefAll(listed)
  /\ listed' = {}
  /\ UNCHANGED <<owner, ptr, leaked>>

Next ==
  \/ \E h \in Handles :
       \/ \E p \in Pointers : Register(p, h)
       \/ Unregister(h)
       \/ \E t \in Threads : UnregisterMissing(t, h)
  \/ \E p \in Pointers :
       \/ \E q \in Pointers : CopyPointer(p, q)
       \/ DropPointer(p)
       \/ LosePointer(p)
  \/ Fini

Spec == Init /\ [][Next]_vars

-----------------------------------------------------------------------------
TypeOK ==
  /\ open \in BOOLEAN
  /\ listed \in SUBSET Users
  /\ handle \in [Users -> Handles \cup {NoHandle}]
  /\ rc \in [Users -> Nat]
  /\ owner \in Threads \cup {NoThread}
  /\ ptr \in [Pointers -> Users \cup {NoUser}]
  /\ leaked \in [Users -> Nat]

(* user.h: the count "corresponds to the number of references that exist". *)
(* Every unit of a count is the registry's, a live pointer's or that of a  *)
(* pointer the program lost; so no pointer ever outlives its USER.         *)
RefCountExact ==
  \A u \in Users :
    rc[u] = (IF u \in listed THEN 1 ELSE 0)
            + Cardinality(Holders(u)) + leaked[u]

(* user_registry.h: the registry is a mapping from handles to USERs, so    *)
(* two entries of the list never carry the same handle, whatever the order *)
(* of registrations, removals and reuse of addresses.                      *)
HandlesUnique ==
  \A u, v \in listed : handle[u] = handle[v] => u = v
=============================================================================
