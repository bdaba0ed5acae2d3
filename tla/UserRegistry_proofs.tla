------------------------ MODULE UserRegistry_proofs ------------------------
(***************************************************************************)
(* The reference counts of the USER objects are exact and handles are      *)
(* unique in the registry, for any number of threads, handles, addresses   *)
(* and pointers.  The inductive invariant is the conjunction itself: a     *)
(* count that is exact is what keeps a listed USER from being freed, hence *)
(* its handle from disappearing under the registry.                        *)
(***************************************************************************)
EXTENDS UserRegistry, FiniteSetTheorems, TLAPS

RegistryInv == TypeOK /\ RefCountExact /\ HandlesUnique

(* Counting the pointers to a USER always gives a natural number.          *)
LEMMA HoldersNat ==
  ASSUME NEW u \in Users
  PROVE  IsFiniteSet(Holders(u)) /\ Cardinality(Holders(u)) \in Nat
<1>1. Holders(u) \subseteq Pointers
  BY DEF Holders
<1>2. IsFiniteSet(Holders(u))
  BY <1>1, PointersFinite, FS_Subset
<1> QED
  BY <1>2, FS_CardinalityType

(* A pointer that was empty and now owns v adds one holder to v, and none  *)
(* to any other USER.                                                      *)
LEMMA HoldersGain ==
  ASSUME TypeOK, NEW p \in Pointers, NEW v \in Users,
         ptr[p] = NoUser, ptr' = [ptr EXCEPT ![p] = v]
  PROVE  \A u \in Users :
           Cardinality(Holders(u)')
             = Cardinality(Holders(u)) + (IF u = v THEN 1 ELSE 0)
<1> SUFFICES ASSUME NEW u \in Users
             PROVE  Cardinality(Holders(u)')
                      = Cardinality(Holders(u)) + (IF u = v THEN 1 ELSE 0)
  OBVIOUS
<1>1. IsFiniteSet(Holders(u)) /\ Cardinality(Holders(u)) \in Nat
  BY HoldersNat
<1>2. CASE u = v
  <2>1. Holders(u)' = Holders(u) \cup {p} /\ p \notin Holders(u)
    BY <1>2, NoUserFresh DEF Holders, TypeOK
  <2> QED
    BY <2>1, <1>1, <1>2, FS_AddElement
<1>3. CASE u # v
  <2>1. Holders(u)' = Holders(u)
    BY <1>3, NoUserFresh DEF Holders, TypeOK
  <2> QED
    BY <2>1, <1>1, <1>3
<1> QED
  BY <1>2, <1>3

(* A pointer to v that is emptied removes one holder of v, and v had one.  *)
LEMMA HoldersLose ==
  ASSUME TypeOK, NEW p \in Pointers, ptr[p] # NoUser,
         ptr' = [ptr EXCEPT ![p] = NoUser]
  PROVE  \A u \in Users :
           /\ Cardinality(Holders(u)')
                = Cardinality(Holders(u)) - (IF u = ptr[p] THEN 1 ELSE 0)
           /\ u = ptr[p] => Cardinality(Holders(u)) > 0
<1> SUFFICES ASSUME NEW u \in Users
             PROVE  /\ Cardinality(Holders(u)')
                        = Cardinality(Holders(u))
                          - (IF u = ptr[p] THEN 1 ELSE 0)
                    /\ u = ptr[p] => Cardinality(Holders(u)) > 0
  OBVIOUS
<1>1. IsFiniteSet(Holders(u)) /\ Cardinality(Holders(u)) \in Nat
  BY HoldersNat
<1>2. CASE u = ptr[p]
  <2>1. Holders(u)' = Holders(u) \ {p} /\ p \in Holders(u)
    BY <1>2, NoUserFresh DEF Holders, TypeOK
  <2>2. Cardinality(Holders(u)) > 0
    BY <2>1, <1>1, FS_EmptySet
  <2> QED
    BY <2>1, <2>2, <1>1, <1>2, FS_RemoveElement
<1>3. CASE u # ptr[p]
  <2>1. Holders(u)' = Holders(u)
    BY <1>3, NoUserFresh DEF Holders, TypeOK
  <2> QED
    BY <2>1, <1>1, <1>3
<1> QED
  BY <1>2, <1>3

(* Pointers that do not move keep every holder.                            *)
LEMMA HoldersSame ==
  ASSUME ptr' = ptr
  PROVE  \A u \in Users : Cardinality(Holders(u)') = Cardinality(Holders(u))
BY DEF Holders

-----------------------------------------------------------------------------
LEMMA RegistryInit == Init => RegistryInv
<1> SUFFICES ASSUME Init PROVE RegistryInv
  OBVIOUS
<1>1. TypeOK
  BY DEF Init, TypeOK
<1>2. RefCountExact
  <2> SUFFICES ASSUME NEW u \in Users
               PROVE  rc[u] = (IF u \in listed THEN 1 ELSE 0)
                              + Cardinality(Holders(u)) + leaked[u]
    BY DEF RefCountExact
  <2>1. Holders(u) = {}
    BY NoUserFresh DEF Init, Holders
  <2> QED
    BY <2>1, FS_EmptySet DEF Init
<1>3. HandlesUnique
  BY DEF Init, HandlesUnique
<1> QED
  BY <1>1, <1>2, <1>3 DEF RegistryInv

(* What each step needs to know of the counts, as plain arithmetic.        *)
LEMMA RegisterPreserves ==
  ASSUME RegistryInv, NEW p \in Pointers, NEW h \in Handles, Register(p, h)
  PROVE  RegistryInv'
<1> USE DEF RegistryInv
<1>1. PICK u \in Users : RegisterIn(h, u) /\ ptr' = [ptr EXCEPT ![p] = u]
  BY DEF Register
<1>2. \A w \in Users : Cardinality(Holders(w)')
                 = Cardinality(Holders(w)) + (IF w = u THEN 1 ELSE 0)
  BY <1>1, HoldersGain DEF Register
<1>3. \A w \in Users : Cardinality(Holders(w)) \in Nat
  BY HoldersNat
<1>4. CASE RegisterFound(h, u)
  <2>1. TypeOK'
    BY <1>1, <1>4 DEF TypeOK, Register, RegisterFound, Found
  <2>2. RefCountExact'
    BY <1>2, <1>3, <1>4 DEF TypeOK, Register, RegisterFound, Found, RefCountExact
  <2>3. HandlesUnique'
    BY <1>4 DEF RegisterFound, HandlesUnique
  <2> QED
    BY <2>1, <2>2, <2>3
<1>5. CASE RegisterNew(h, u)
  <2>0. u \notin listed /\ leaked[u] = 0 /\ Cardinality(Holders(u)) = 0
    BY <1>3, <1>5 DEF TypeOK, RegisterNew, RefCountExact
  <2>1. TypeOK'
    BY <1>1, <1>5 DEF TypeOK, Register, RegisterNew
  <2>2. RefCountExact'
    BY <1>2, <1>3, <1>5, <2>0 DEF TypeOK, Register, RegisterNew, RefCountExact
  <2>3. HandlesUnique'
    BY <1>5, <2>0 DEF TypeOK, RegisterNew, Found, HandlesUnique
  <2> QED
    BY <2>1, <2>2, <2>3
<1> QED
  BY <1>1, <1>4, <1>5 DEF RegisterIn

LEMMA UnregisterPreserves ==
  ASSUME RegistryInv, NEW h \in Handles, Unregister(h)
  PROVE  RegistryInv'
<1> USE DEF RegistryInv
<1>1. PICK u \in Found(h) : UnrefAll({u}) /\ listed' = listed \ {u}
  BY DEF Unregister, UnregisterIn
<1>2. \A w \in Users : /\ Cardinality(Holders(w)') = Cardinality(Holders(w))
                       /\ Cardinality(Holders(w)) \in Nat
  BY HoldersSame, HoldersNat DEF Unregister
<1>3. u \in listed /\ u \in Users /\ rc[u] >= 1
  BY <1>1, <1>2 DEF TypeOK, Found, RefCountExact
<1>4. TypeOK'
  BY <1>1, <1>3 DEF TypeOK, Unregister, UnrefAll
<1>5. RefCountExact'
  BY <1>1, <1>2, <1>3 DEF TypeOK, Unregister, UnrefAll, RefCountExact
<1>6. HandlesUnique'
  BY <1>1, <1>3 DEF TypeOK, UnrefAll, HandlesUnique
<1> QED
  BY <1>4, <1>5, <1>6

LEMMA CopyPreserves ==
  ASSUME RegistryInv, NEW p \in Pointers, NEW q \in Pointers, CopyPointer(p, q)
  PROVE  RegistryInv'
<1> USE DEF RegistryInv
<1>1. ptr[q] \in Users
  BY DEF TypeOK, CopyPointer
<1>2. \A w \in Users :
        /\ Cardinality(Holders(w)')
             = Cardinality(Holders(w)) + (IF w = ptr[q] THEN 1 ELSE 0)
        /\ Cardinality(Holders(w)) \in Nat
  BY <1>1, HoldersGain, HoldersNat DEF CopyPointer
<1>3. TypeOK'
  BY <1>1 DEF TypeOK, CopyPointer
<1>4. RefCountExact'
  BY <1>1, <1>2 DEF TypeOK, CopyPointer, RefCountExact
<1>5. HandlesUnique'
  BY DEF CopyPointer, HandlesUnique
<1> QED
  BY <1>3, <1>4, <1>5

LEMMA DropPreserves ==
  ASSUME RegistryInv, NEW p \in Pointers, DropPointer(p)
  PROVE  RegistryInv'
<1> USE DEF RegistryInv
<1>1. ptr[p] \in Users
  BY DEF TypeOK, DropPointer
<1>2. \A w \in Users :
        /\ Cardinality(Holders(w)')
             = Cardinality(Holders(w)) - (IF w = ptr[p] THEN 1 ELSE 0)
        /\ w = ptr[p] => Cardinality(Holders(w)) > 0
        /\ Cardinality(Holders(w)) \in Nat
  BY HoldersLose, HoldersNat DEF DropPointer
<1>3. rc[ptr[p]] >= 1 /\ (ptr[p] \in listed => rc[ptr[p]] >= 2)
  BY <1>1, <1>2 DEF TypeOK, RefCountExact
<1>4. TypeOK'
  BY <1>1, <1>3 DEF TypeOK, DropPointer, UnrefAll
<1>5. RefCountExact'
  BY <1>1, <1>2, <1>3 DEF TypeOK, DropPointer, UnrefAll, RefCountExact
<1>6. HandlesUnique'
  <2>1. \A u \in listed : handle'[u] = handle[u]
    BY <1>3 DEF TypeOK, DropPointer, UnrefAll
  <2> QED
    BY <2>1 DEF DropPointer, HandlesUnique
<1> QED
  BY <1>4, <1>5, <1>6

LEMMA LosePreserves ==
  ASSUME RegistryInv, NEW p \in Pointers, LosePointer(p)
  PROVE  RegistryInv'
<1> USE DEF RegistryInv
<1>1. ptr[p] \in Users
  BY DEF TypeOK, LosePointer
<1>2. \A w \in Users :
        /\ Cardinality(Holders(w)')
             = Cardinality(Holders(w)) - (IF w = ptr[p] THEN 1 ELSE 0)
        /\ Cardinality(Holders(w)) \in Nat
  BY HoldersLose, HoldersNat DEF LosePointer
<1>3. TypeOK'
  BY <1>1 DEF TypeOK, LosePointer, objVars
<1>4. RefCountExact'
  BY <1>1, <1>2 DEF TypeOK, LosePointer, objVars, RefCountExact
<1>5. HandlesUnique'
  BY DEF LosePointer, objVars, HandlesUnique
<1> QED
  BY <1>3, <1>4, <1>5

LEMMA FiniPreserves ==
  ASSUME RegistryInv, Fini
  PROVE  RegistryInv'
<1> USE DEF RegistryInv
<1>1. \A w \in Users : /\ Cardinality(Holders(w)') = Cardinality(Holders(w))
                       /\ Cardinality(Holders(w)) \in Nat
  BY HoldersSame, HoldersNat DEF Fini
<1>2. \A u \in Users : u \in listed => rc[u] >= 1
  BY <1>1 DEF TypeOK, RefCountExact
<1>3. TypeOK'
  <2>1. \A u \in Users : (IF u \in listed THEN rc[u] - 1 ELSE rc[u]) \in Nat
    BY <1>2 DEF TypeOK
  <2>2. rc' \in [Users -> Nat]
    BY <2>1 DEF Fini, UnrefAll
  <2>3. handle' \in [Users -> Handles \cup {NoHandle}]
    BY DEF TypeOK, Fini, UnrefAll
  <2> QED
    BY <2>2, <2>3 DEF TypeOK, Fini
<1>4. RefCountExact'
  BY <1>1, <1>2 DEF TypeOK, Fini, UnrefAll, RefCountExact
<1>5. HandlesUnique'
  BY DEF Fini, HandlesUnique
<1> QED
  BY <1>3, <1>4, <1>5

(* Steps that touch neither counts nor list: the leaked mutex, stuttering. *)
LEMMA IdlePreserves ==
  ASSUME RegistryInv, UNCHANGED <<open, objVars, ptr, leaked>>,
         owner' \in Threads \cup {NoThread}
  PROVE  RegistryInv'
<1>1. \A w \in Users : Cardinality(Holders(w)') = Cardinality(Holders(w))
  BY HoldersSame
<1> QED
  BY <1>1 DEF RegistryInv, TypeOK, RefCountExact, HandlesUnique, objVars

LEMMA RegistryStep == RegistryInv /\ [Next]_vars => RegistryInv'
<1> SUFFICES ASSUME RegistryInv, [Next]_vars PROVE RegistryInv'
  OBVIOUS
<1>1. CASE \E p \in Pointers, h \in Handles : Register(p, h)
  BY <1>1, RegisterPreserves
<1>2. CASE \E h \in Handles : Unregister(h)
  BY <1>2, UnregisterPreserves
<1>3. CASE \E t \in Threads, h \in Handles : UnregisterMissing(t, h)
  BY <1>3, IdlePreserves DEF UnregisterMissing
<1>4. CASE \E p, q \in Pointers : CopyPointer(p, q)
  BY <1>4, CopyPreserves
<1>5. CASE \E p \in Pointers : DropPointer(p)
  BY <1>5, DropPreserves
<1>6. CASE \E p \in Pointers : LosePointer(p)
  BY <1>6, LosePreserves
<1>7. CASE Fini
  BY <1>7, FiniPreserves
<1>8. CASE UNCHANGED vars
  BY <1>8, IdlePreserves DEF vars, RegistryInv, TypeOK, objVars
<1> QED
  BY <1>1, <1>2, <1>3, <1>4, <1>5, <1>6, <1>7, <1>8 DEF Next

-----------------------------------------------------------------------------
(* Types, exact counts and unique handles, together: each needs the others *)
(* to be preserved (user.c, user_registry.c).                              *)
THEOREM RegistryCorrect == Spec => []RegistryInv
BY RegistryInit, RegistryStep, PTL DEF Spec

(* Every reference count is exact, so no pointer ever outlives its USER.   *)
THEOREM RefCountExactHolds == Spec => []RefCountExact
<1>1. RegistryInv => RefCountExact
  BY DEF RegistryInv
<1> QED
  BY RegistryCorrect, <1>1, PTL

(* The registry never holds two USERs of one handle.                       *)
THEOREM HandlesUniqueHolds == Spec => []HandlesUnique
<1>1. RegistryInv => HandlesUnique
  BY DEF RegistryInv
<1> QED
  BY RegistryCorrect, <1>1, PTL
=============================================================================
