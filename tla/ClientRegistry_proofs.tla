----------------------- MODULE ClientRegistry_proofs -----------------------
(***************************************************************************)
(* The slots and the count of the client registry agree, the reference     *)
(* counts of CLIENTs are exact, and the shutdown waits for every service   *)
(* thread, for any number of connections, slots and packets.               *)
(*                                                                         *)
(* The argument: a client is registered exactly while its service thread   *)
(* is between creg_register and the removal in creg_unregister, so the     *)
(* registry's reference is there for whoever lists it; whoever lists holds *)
(* the registry's mutex, so what it still has to come to stays registered. *)
(***************************************************************************)
EXTENDS ClientRegistry, FiniteSetTheorems, TLAPS

Fresh    == {"none", "start", "null"}
WithList == {"listing", "measure", "visit"}
Occupied == {i \in Slots : slots[i] # NoClient}

(* A client is registered from creg_register to creg_unregister.           *)
PlaceInv ==
  \A c \in Conns :
    /\ c \in Registered <=> HoldsSelf(c) \/ pc[c] = "unregister"
    /\ pc[c] \in Fresh => rc[c] = 0

SlotsInv ==
  /\ count = Cardinality(Occupied)
  /\ \A i, j \in Slots : slots[i] # NoClient /\ slots[j] = slots[i] => j = i

(* The list of clients is made under the registry's mutex.                 *)
ListInv ==
  \A c \in Conns :
    /\ pc[c] = "listing" <=> cm = c
    /\ held[c] # {} => pc[c] \in WithList
    /\ pc[c] = "listing" => todo[c] \subseteq Registered \ held[c]

RegInv == TypeOK /\ SlotsInv /\ RefCountExact /\ PlaceInv /\ ListInv

-----------------------------------------------------------------------------
(* Counting the arrays a client is in.                                     *)
LEMMA ListingsNat ==
  ASSUME NEW c \in Conns
  PROVE  IsFiniteSet(Listings(c)) /\ Cardinality(Listings(c)) \in Nat
<1>1. Listings(c) \subseteq Conns
  BY DEF Listings
<1>2. IsFiniteSet(Listings(c))
  BY <1>1, ConnsFinite, FS_Subset
<1> QED
  BY <1>2, FS_CardinalityType

LEMMA ListingsGain ==
  ASSUME held \in [Conns -> SUBSET Conns], NEW t \in Conns, NEW d \in Conns,
         d \notin held[t], held' = [held EXCEPT ![t] = @ \cup {d}]
  PROVE  \A c \in Conns :
           Cardinality(Listings(c)') = Cardinality(Listings(c)) + One(c = d)
<1> SUFFICES ASSUME NEW c \in Conns
             PROVE  Cardinality(Listings(c)')
                      = Cardinality(Listings(c)) + One(c = d)
  OBVIOUS
<1>1. IsFiniteSet(Listings(c)) /\ Cardinality(Listings(c)) \in Nat
  BY ListingsNat
<1>2. CASE c = d
  <2>1. Listings(c)' = Listings(c) \cup {t} /\ t \notin Listings(c)
    BY <1>2 DEF Listings
  <2> QED
    BY <2>1, <1>1, <1>2, FS_AddElement DEF One
<1>3. CASE c # d
  <2>1. Listings(c)' = Listings(c)
    BY <1>3 DEF Listings
  <2> QED
    BY <2>1, <1>1, <1>3 DEF One
<1> QED
  BY <1>2, <1>3

LEMMA ListingsLose ==
  ASSUME held \in [Conns -> SUBSET Conns], NEW t \in Conns,
         NEW S \in SUBSET held[t], held' = [held EXCEPT ![t] = @ \ S]
  PROVE  \A c \in Conns :
           /\ Cardinality(Listings(c)')
                = Cardinality(Listings(c)) - One(c \in S)
           /\ c \in S => Cardinality(Listings(c)) > 0
<1> SUFFICES ASSUME NEW c \in Conns
             PROVE  /\ Cardinality(Listings(c)')
                        = Cardinality(Listings(c)) - One(c \in S)
                    /\ c \in S => Cardinality(Listings(c)) > 0
  OBVIOUS
<1>1. IsFiniteSet(Listings(c)) /\ Cardinality(Listings(c)) \in Nat
  BY ListingsNat
<1>2. CASE c \in S
  <2>1. Listings(c)' = Listings(c) \ {t} /\ t \in Listings(c)
    BY <1>2 DEF Listings
  <2>2. Cardinality(Listings(c)) > 0
    BY <2>1, <1>1, FS_EmptySet
  <2> QED
    BY <2>1, <2>2, <1>1, <1>2, FS_RemoveElement DEF One
<1>3. CASE c \notin S
  <2>1. Listings(c)' = Listings(c)
    BY <1>3 DEF Listings
  <2> QED
    BY <2>1, <1>1, <1>3 DEF One
<1> QED
  BY <1>2, <1>3

(* The occupied slots are finitely many.                                   *)
LEMMA OccupiedFinite == IsFiniteSet(Occupied) /\ Cardinality(Occupied) \in Nat
<1>1. IsFiniteSet(Slots)
  BY BoundsNat, FS_Interval DEF Slots
<1>2. Occupied \subseteq Slots
  BY DEF Occupied
<1> QED
  BY <1>1, <1>2, FS_Subset, FS_CardinalityType

(* A client with a reference is not freed.                                 *)
LEMMA RegisteredLive ==
  ASSUME TypeOK, RefCountExact, NEW c \in Conns, c \in Registered
  PROVE  rc[c] > 0 /\ life[c] = "live"
<1>1. Cardinality(Listings(c)) \in Nat
  BY ListingsNat
<1>2. rc[c] = 1 + One(HoldsSelf(c)) + Cardinality(Listings(c)) + leaked[c]
  BY DEF RefCountExact, One
<1>3. leaked[c] \in Nat /\ One(HoldsSelf(c)) \in Nat
  BY DEF TypeOK, One
<1>4. rc[c] > 0
  BY <1>1, <1>2, <1>3
<1> QED
  BY <1>4 DEF RefCountExact

LEMMA RegistrySoundHere ==
  ASSUME RegInv PROVE RegistrySound
<1>1. \A i \in Slots : slots[i] # NoClient => life[slots[i]] = "live"
  BY RegisteredLive DEF RegInv, TypeOK, Registered
<1> QED
  BY <1>1 DEF RegInv, SlotsInv, RegistrySound, Occupied

LEMMA RegistryInit == Init => RegInv
<1> SUFFICES ASSUME Init PROVE RegInv
  OBVIOUS
<1>1. TypeOK
  BY BoundsNat DEF Init, TypeOK, Labels
<1>2. Occupied = {} /\ Registered = {}
  BY DEF Init, Occupied, Registered
<1>3. \A c \in Conns : Listings(c) = {}
  BY DEF Init, Listings
<1>4. RefCountExact
  <2> SUFFICES ASSUME NEW c \in Conns
               PROVE  /\ rc[c] = One(c \in Registered) + One(HoldsSelf(c))
                                 + Cardinality(Listings(c)) + leaked[c]
                      /\ life[c] = "live" <=> rc[c] > 0
    BY DEF RefCountExact
  <2>1. Cardinality(Listings(c)) = 0
    BY <1>3, FS_EmptySet
  <2>2. ~HoldsSelf(c) /\ c \notin Registered
    BY <1>2 DEF Init, HoldsSelf
  <2> QED
    BY <2>1, <2>2 DEF Init, One
<1>5. SlotsInv
  BY <1>2, FS_EmptySet DEF Init, SlotsInv
<1>6. PlaceInv /\ ListInv
  BY <1>2, ConnsFinite DEF Init, PlaceInv, ListInv, HoldsSelf
<1> QED
  BY <1>1, <1>4, <1>5, <1>6 DEF RegInv

-----------------------------------------------------------------------------
(* Most steps move neither slots nor references.                           *)
LEMMA QuietKeeps ==
  ASSUME RegInv, TypeOK', UNCHANGED <<slots, count, life, rc, held, leaked, cm>>,
         \A c \in Conns :
           /\ HoldsSelf(c)' <=> HoldsSelf(c)
           /\ pc'[c] = "unregister" <=> pc[c] = "unregister"
           /\ pc'[c] = "listing" <=> pc[c] = "listing"
           /\ pc'[c] \in Fresh => pc[c] \in Fresh
           /\ pc[c] = "listing" => todo'[c] = todo[c]
           /\ held[c] # {} => pc'[c] \in WithList
  PROVE  RegInv'
<1> USE DEF RegInv
<1>1. Registered' = Registered /\ Occupied' = Occupied
  BY DEF Registered, Occupied
<1>2. \A c \in Conns : Listings(c)' = Listings(c)
  BY DEF Listings
<1>3. RefCountExact'
  BY <1>1, <1>2 DEF RefCountExact, One
<1>4. SlotsInv' /\ PlaceInv' /\ ListInv'
  BY <1>1 DEF SlotsInv, PlaceInv, ListInv
<1> QED
  BY <1>3, <1>4

(* Types of the steps that do not count references.                        *)
LEMMA QuietTypes ==
  ASSUME TypeOK, NEW c \in Conns,
         \/ Accept(c) \/ HangUp(c) \/ Undefined(c) \/ RegisterFull(c) \/ Crash(c)
         \/ \E d \in Conns : Measure(c, d)
         \/ SomebodyThere(c) \/ ListDone(c) \/ Enter(c) \/ Logout(c)
         \/ ReplyLock(c) \/ ReplySent(c) \/ BrokenPipe(c) \/ ReadEOF(c)
  PROVE  TypeOK'
<1> USE DEF TypeOK, Labels, Goto, regVars, objVars, threadVars, listVars
<1>1. CASE Accept(c) \/ RegisterFull(c) \/ SomebodyThere(c) \/ ListDone(c)
  BY <1>1 DEF Accept, RegisterFull, SomebodyThere, ListDone
<1>2. CASE HangUp(c) \/ Undefined(c) \/ Crash(c) \/ BrokenPipe(c)
  BY <1>2 DEF HangUp, Undefined, Crash, BrokenPipe
<1>3. CASE \E d \in Conns : Measure(c, d)
  BY <1>3 DEF Measure
<1>4. CASE Enter(c) \/ Logout(c)
  BY <1>4 DEF Enter, Logout
<1>5. CASE ReplyLock(c) \/ ReplySent(c)
  BY <1>5 DEF ReplyLock, ReplySent
<1>6. CASE ReadEOF(c)
  BY <1>6 DEF ReadEOF
<1> QED
  BY <1>1, <1>2, <1>3, <1>4, <1>5, <1>6

LEMMA ThreadQuiet ==
  ASSUME RegInv, NEW c \in Conns,
         \/ Accept(c) \/ HangUp(c) \/ Undefined(c) \/ RegisterFull(c) \/ Crash(c)
         \/ \E d \in Conns : Measure(c, d)
         \/ SomebodyThere(c) \/ ListDone(c) \/ Enter(c) \/ Logout(c)
         \/ ReplyLock(c) \/ ReplySent(c) \/ BrokenPipe(c) \/ ReadEOF(c)
  PROVE  RegInv'
<1>1. TypeOK'
  BY QuietTypes DEF RegInv
<1>2. UNCHANGED <<slots, count, life, rc, held, leaked, cm>>
  BY DEF Accept, HangUp, Undefined, RegisterFull, Crash,
       Measure, SomebodyThere, ListDone, Enter, Logout, ReplyLock,
       ReplySent, BrokenPipe, ReadEOF, regVars, objVars, threadVars, listVars
<1>3. \A t \in Conns : pc[t] = "listing" => todo'[t] = todo[t]
  BY DEF RegInv, TypeOK, Accept, HangUp, Undefined, RegisterFull, Crash,
       Measure, SomebodyThere, ListDone, Enter, Logout, ReplyLock,
       ReplySent, BrokenPipe, ReadEOF, threadVars, listVars
<1>4. \A t \in Conns :
        /\ HoldsSelf(t)' <=> HoldsSelf(t)
        /\ pc'[t] = "unregister" <=> pc[t] = "unregister"
        /\ pc'[t] = "listing" <=> pc[t] = "listing"
        /\ pc'[t] \in Fresh => pc[t] \in Fresh
        /\ held[t] # {} => pc'[t] \in WithList
  BY DEF RegInv, TypeOK, Labels, ListInv, HoldsSelf, Fresh, WithList, Goto,
       Accept, HangUp, Undefined, RegisterFull, Crash,
       Measure, SomebodyThere, ListDone, Enter, Logout, ReplyLock,
       ReplySent, BrokenPipe, ReadEOF, threadVars, listVars
<1> QED
  BY <1>1, <1>2, <1>3, <1>4, QuietKeeps

LEMMA PacketKeeps ==
  ASSUME RegInv, NEW c \in Conns, Packet(c)
  PROVE  RegInv'
<1>1. TypeOK'
  <2>1. \A d \in Conns : requests'[d] \in 0..MaxRequests[d]
    BY BoundsNat DEF RegInv, TypeOK, Packet
  <2> QED
    BY <2>1 DEF RegInv, TypeOK, Labels, Goto, Packet, regVars, objVars, listVars
<1>2. UNCHANGED <<slots, count, life, rc, held, leaked, cm, todo>>
  BY DEF Packet, regVars, objVars, listVars
<1>3. \A t \in Conns :
        /\ HoldsSelf(t)' <=> HoldsSelf(t)
        /\ pc'[t] = "unregister" <=> pc[t] = "unregister"
        /\ pc'[t] = "listing" <=> pc[t] = "listing"
        /\ pc'[t] \in Fresh => pc[t] \in Fresh
        /\ held[t] # {} => pc'[t] \in WithList
  BY DEF RegInv, TypeOK, Labels, ListInv, HoldsSelf, Fresh, WithList, Goto, Packet
<1> QED
  BY <1>1, <1>2, <1>3, QuietKeeps

LEMMA PostKeeps ==
  ASSUME RegInv, NEW c \in Conns, Post(c)
  PROVE  RegInv'
<1>1. TypeOK'
  BY DEF RegInv, TypeOK, Labels, Goto, Post, objVars, listVars
<1>2. UNCHANGED <<slots, count, life, rc, held, leaked, cm, todo>>
  BY DEF Post, objVars, listVars
<1>3. \A t \in Conns :
        /\ HoldsSelf(t)' <=> HoldsSelf(t)
        /\ pc'[t] = "unregister" <=> pc[t] = "unregister"
        /\ pc'[t] = "listing" <=> pc[t] = "listing"
        /\ pc'[t] \in Fresh => pc[t] \in Fresh
        /\ held[t] # {} => pc'[t] \in WithList
  BY DEF RegInv, TypeOK, Labels, ListInv, HoldsSelf, Fresh, WithList, Goto, Post
<1> QED
  BY <1>1, <1>2, <1>3, QuietKeeps

LEMMA MainKeeps ==
  ASSUME RegInv, Sighup \/ Main
  PROVE  RegInv'
<1>1. TypeOK'
  <2> USE DEF RegInv, TypeOK, regVars, objVars, threadVars, listVars
  <2>1. CASE Sighup \/ CheckCount \/ Exit
    BY <2>1 DEF Sighup, CheckCount, Exit
  <2>2. CASE ShutdownAll
    BY <2>2 DEF ShutdownAll
  <2>3. CASE Wait \/ Fini
    BY <2>3 DEF Wait, Fini
  <2> QED
    BY <2>1, <2>2, <2>3 DEF Main
<1>2. UNCHANGED <<slots, count, life, rc, held, leaked, cm, todo, pc>>
  BY DEF Sighup, Main, ShutdownAll, CheckCount, Wait, Fini, Exit,
         regVars, objVars, threadVars, listVars
<1>3. \A t \in Conns : HoldsSelf(t)' <=> HoldsSelf(t)
  BY <1>2 DEF HoldsSelf
<1>4. \A t \in Conns : held[t] # {} => pc'[t] \in WithList
  BY <1>2 DEF RegInv, ListInv
<1> QED
  BY <1>1, <1>2, <1>3, <1>4, QuietKeeps

-----------------------------------------------------------------------------
(* A new client takes a slot, with a reference for the registry and one    *)
(* for its service thread.                                                 *)
LEMMA RegisterKeeps ==
  ASSUME RegInv, NEW c \in Conns, Register(c)
  PROVE  RegInv'
<1> USE DEF RegInv
<1>1. PICK i \in Slots : slots[i] = NoClient /\ slots' = [slots EXCEPT ![i] = c]
  BY DEF Register
<1>2. UNCHANGED <<held, leaked, cm, todo>>
  BY DEF Register, listVars
<1>3. pc[c] = "start" /\ pc' = [pc EXCEPT ![c] = "serve"] /\ rc[c] = 0
  BY DEF Register, Goto, PlaceInv, Fresh
<1>4. c \notin Registered
  BY <1>3 DEF PlaceInv, HoldsSelf
<1>5. Registered' = Registered \cup {c}
  BY <1>1, ConnsFinite DEF Registered, TypeOK
<1>6. TypeOK'
  <2>1. count' \in 0..MaxClients
    BY BoundsNat DEF Register, TypeOK
  <2> QED
    BY <2>1, <1>1 DEF Register, TypeOK, Goto, Labels, listVars
<1>7. SlotsInv'
  <2>1. Occupied' = Occupied \cup {i} /\ i \notin Occupied
    BY <1>1, ConnsFinite DEF Occupied, TypeOK
  <2>2. Cardinality(Occupied') = Cardinality(Occupied) + 1
    BY <2>1, OccupiedFinite, FS_AddElement
  <2>3. count' = Cardinality(Occupied')
    BY <2>2 DEF Register, SlotsInv
  <2>4. \A j \in Slots : slots[j] # c
    BY <1>4, ConnsFinite DEF Registered
  <2> QED
    BY <2>3, <2>4, <1>1 DEF SlotsInv, TypeOK
<1>8. RefCountExact'
  <2> SUFFICES ASSUME NEW d \in Conns
               PROVE  /\ rc'[d] = One(d \in Registered') + One(HoldsSelf(d)')
                                  + Cardinality(Listings(d)') + leaked'[d]
                      /\ life'[d] = "live" <=> rc'[d] > 0
    BY DEF RefCountExact
  <2>1. Listings(d)' = Listings(d) /\ Cardinality(Listings(d)) \in Nat
    BY <1>2, ListingsNat DEF Listings
  <2>2. leaked[d] \in Nat /\ rc[d] \in Nat
    BY DEF TypeOK
  <2>3. /\ rc[d] = One(d \in Registered) + One(HoldsSelf(d))
                   + Cardinality(Listings(d)) + leaked[d]
        /\ life[d] = "live" <=> rc[d] > 0
    BY DEF RefCountExact
  <2>4. CASE d = c
    <3>1. One(d \in Registered) = 0 /\ One(HoldsSelf(d)) = 0
      BY <2>4, <1>3, <1>4 DEF One, HoldsSelf
    <3>2. Cardinality(Listings(d)) = 0 /\ leaked[d] = 0
      BY <3>1, <2>1, <2>2, <2>3, <2>4, <1>3
    <3>3. One(d \in Registered') = 1 /\ One(HoldsSelf(d)') = 1
      BY <2>4, <1>3, <1>5 DEF One, HoldsSelf, Labels, TypeOK
    <3>4. rc'[d] = 2 /\ life'[d] = "live"
      BY <2>4 DEF Register, TypeOK
    <3> QED
      BY <3>2, <3>3, <3>4, <2>1, <1>2
  <2>5. CASE d # c
    <3>1. One(d \in Registered') = One(d \in Registered)
      BY <2>5, <1>5 DEF One
    <3>2. HoldsSelf(d)' = HoldsSelf(d)
      BY <2>5, <1>3 DEF HoldsSelf, TypeOK
    <3>3. rc'[d] = rc[d] /\ life'[d] = life[d]
      BY <2>5 DEF Register, TypeOK
    <3> QED
      BY <3>1, <3>2, <3>3, <2>1, <2>3, <1>2
  <2> QED
    BY <2>4, <2>5
<1>9. PlaceInv'
  BY <1>3, <1>5 DEF PlaceInv, HoldsSelf, Labels, Fresh, Register, TypeOK
<1>10. ListInv'
  BY <1>2, <1>3, <1>5 DEF ListInv, WithList, TypeOK
<1> QED
  BY <1>6, <1>7, <1>8, <1>9, <1>10

LEMMA ListLockKeeps ==
  ASSUME RegInv, NEW c \in Conns, ListLock(c)
  PROVE  RegInv'
<1> USE DEF RegInv
<1>1. UNCHANGED <<slots, count, life, rc, held, leaked>>
  BY DEF ListLock, objVars
<1>2. pc[c] = "list" /\ pc' = [pc EXCEPT ![c] = "listing"] /\ held[c] = {}
  BY DEF ListLock, Goto, ListInv, WithList
<1>3. /\ cm = NoClient /\ cm' = c
      /\ todo' = [todo EXCEPT ![c] = Registered] /\ Registered' = Registered
  BY <1>1 DEF ListLock, Registered
<1>4. TypeOK'
  BY DEF ListLock, TypeOK, Goto, Labels, objVars, Registered
<1>5. \A d \in Conns : HoldsSelf(d)' = HoldsSelf(d) /\ Listings(d)' = Listings(d)
  BY <1>1, <1>2 DEF HoldsSelf, Listings, TypeOK, Labels
<1>6. RefCountExact'
  BY <1>1, <1>3, <1>5 DEF RefCountExact, One
<1>7. SlotsInv' /\ PlaceInv'
  BY <1>1, <1>2, <1>3, <1>5 DEF SlotsInv, PlaceInv, Occupied, Fresh, TypeOK
<1>8. ListInv'
  BY <1>1, <1>2, <1>3, ConnsFinite DEF ListInv, WithList, TypeOK
<1> QED
  BY <1>4, <1>6, <1>7, <1>8

(* The listed client is registered, so it is live and gains a reference.   *)
LEMMA ListRefKeeps ==
  ASSUME RegInv, NEW c \in Conns, NEW d \in Conns, ListRef(c, d)
  PROVE  RegInv'
<1> USE DEF RegInv
<1>1. /\ UNCHANGED <<slots, count, life, leaked, cm, pc>>
      /\ held' = [held EXCEPT ![c] = @ \cup {d}]
      /\ todo' = [todo EXCEPT ![c] = @ \ {d}]
      /\ rc' = [rc EXCEPT ![d] = @ + 1]
      /\ pc[c] = "listing"
  BY DEF ListRef, regVars, threadVars
<1>2. Registered' = Registered
  BY <1>1 DEF Registered
<1>3. d \in Registered /\ d \notin held[c]
  BY DEF ListRef, ListInv
<1>4. rc[d] > 0 /\ life[d] = "live"
  BY <1>3, RegisteredLive
<1>5. TypeOK'
  BY DEF ListRef, TypeOK, regVars, threadVars
<1>5a. \A x \in Conns :
         Cardinality(Listings(x)') = Cardinality(Listings(x)) + One(x = d)
  <2>1. held \in [Conns -> SUBSET Conns]
    BY DEF TypeOK
  <2> HIDE DEF RegInv
  <2> QED
    BY <1>1, <1>3, <2>1, ListingsGain
<1>6. RefCountExact'
  <2> SUFFICES ASSUME NEW x \in Conns
               PROVE  /\ rc'[x] = One(x \in Registered') + One(HoldsSelf(x)')
                                  + Cardinality(Listings(x)') + leaked'[x]
                      /\ life'[x] = "live" <=> rc'[x] > 0
    BY DEF RefCountExact
  <2>1. Cardinality(Listings(x)') = Cardinality(Listings(x)) + One(x = d)
    BY <1>5a
  <2>2. HoldsSelf(x)' = HoldsSelf(x)
    BY <1>1 DEF HoldsSelf
  <2>3. /\ Cardinality(Listings(x)) \in Nat /\ leaked[x] \in Nat /\ rc[x] \in Nat
        /\ One(x \in Registered) \in Nat /\ One(HoldsSelf(x)) \in Nat
    BY ListingsNat DEF TypeOK, One
  <2>4. /\ rc[x] = One(x \in Registered) + One(HoldsSelf(x))
                   + Cardinality(Listings(x)) + leaked[x]
        /\ life[x] = "live" <=> rc[x] > 0
    BY DEF RefCountExact
  <2>5. rc'[x] = rc[x] + One(x = d)
    BY <1>1 DEF TypeOK, One
  <2>6. One(x = d) \in {0, 1} /\ (x = d => rc[x] > 0)
    BY <1>4 DEF One
  <2> QED
    BY <2>1, <2>2, <2>3, <2>4, <2>5, <2>6, <1>1, <1>2 DEF One
<1>7. SlotsInv'
  BY <1>1 DEF SlotsInv, Occupied
<1>8. PlaceInv'
  <2>1. pc[d] \notin Fresh
    BY <1>4 DEF PlaceInv
  <2> QED
    BY <2>1, <1>1, <1>2 DEF PlaceInv, HoldsSelf, TypeOK
<1>9. ListInv'
  BY <1>1, <1>2 DEF ListInv, WithList, TypeOK
<1> QED
  BY <1>5, <1>6, <1>7, <1>8, <1>9

LEMMA ListUnlockKeeps ==
  ASSUME RegInv, NEW c \in Conns, ListUnlock(c)
  PROVE  RegInv'
<1> USE DEF RegInv
<1>1. UNCHANGED <<slots, count, life, rc, held, leaked>>
  BY DEF ListUnlock, objVars
<1>2. /\ pc[c] = "listing" /\ cm = c /\ cm' = NoClient
      /\ todo' = [todo EXCEPT ![c] = held[c]] /\ Registered' = Registered
  BY <1>1 DEF ListUnlock, ListInv, Registered
<1>3. PICK l \in {"measure", "visit"} : pc' = [pc EXCEPT ![c] = l]
  BY DEF ListUnlock, Goto
<1>4. TypeOK'
  BY DEF ListUnlock, TypeOK, Goto, Labels, objVars
<1>5. \A d \in Conns : HoldsSelf(d)' = HoldsSelf(d) /\ Listings(d)' = Listings(d)
  BY <1>1, <1>2, <1>3 DEF HoldsSelf, Listings, TypeOK, Labels
<1>6. RefCountExact'
  BY <1>1, <1>2, <1>5 DEF RefCountExact, One
<1>7. SlotsInv' /\ PlaceInv'
  BY <1>1, <1>2, <1>3, <1>5 DEF SlotsInv, PlaceInv, Occupied, Fresh, TypeOK
<1>8. ListInv'
  BY <1>1, <1>2, <1>3, ConnsFinite DEF ListInv, WithList, TypeOK
<1> QED
  BY <1>4, <1>6, <1>7, <1>8

(* The references of the array become lost ones.                           *)
LEMMA NobodyThereKeeps ==
  ASSUME RegInv, NEW c \in Conns, NobodyThere(c)
  PROVE  RegInv'
<1> USE DEF RegInv
<1>1. /\ UNCHANGED <<slots, count, life, rc, cm, todo>>
      /\ held' = [held EXCEPT ![c] = @ \ held[c]]
      /\ leaked' = [d \in Conns |-> leaked[d] + IF d \in held[c] THEN 1 ELSE 0]
  BY DEF NobodyThere, regVars, objVars, TypeOK
<1>2. pc[c] = "measure" /\ pc' = [pc EXCEPT ![c] = "reply"]
  BY DEF NobodyThere, Goto
<1>3. Registered' = Registered
  BY <1>1 DEF Registered
<1>4. TypeOK'
  BY <1>1, <1>2 DEF NobodyThere, TypeOK, Labels, regVars, objVars
<1>5. \A x \in Conns : HoldsSelf(x)' = HoldsSelf(x)
  BY <1>2 DEF HoldsSelf, TypeOK, Labels
<1>6. RefCountExact'
  <2> SUFFICES ASSUME NEW x \in Conns
               PROVE  /\ rc'[x] = One(x \in Registered') + One(HoldsSelf(x)')
                                  + Cardinality(Listings(x)') + leaked'[x]
                      /\ life'[x] = "live" <=> rc'[x] > 0
    BY DEF RefCountExact
  <2>1. Cardinality(Listings(x)') = Cardinality(Listings(x)) - One(x \in held[c])
    BY <1>1, ListingsLose DEF TypeOK
  <2>2. /\ Cardinality(Listings(x)) \in Nat /\ leaked[x] \in Nat /\ rc[x] \in Nat
        /\ One(x \in Registered) \in Nat /\ One(HoldsSelf(x)) \in Nat
        /\ One(x \in held[c]) \in Nat
    BY ListingsNat DEF TypeOK, One
  <2>3. /\ rc[x] = One(x \in Registered) + One(HoldsSelf(x))
                   + Cardinality(Listings(x)) + leaked[x]
        /\ life[x] = "live" <=> rc[x] > 0
    BY DEF RefCountExact
  <2>4. leaked'[x] = leaked[x] + One(x \in held[c])
    BY <1>1 DEF One
  <2>5. /\ One(x \in Registered') = One(x \in Registered)
        /\ One(HoldsSelf(x)') = One(HoldsSelf(x))
    BY <1>3, <1>5 DEF One
  <2>6. rc' = rc /\ life' = life
    BY <1>1
  <2> QED
    BY <2>1, <2>2, <2>3, <2>4, <2>5, <2>6
<1>7. SlotsInv'
  BY <1>1 DEF SlotsInv, Occupied
<1>8. PlaceInv'
  BY <1>1, <1>2, <1>3, <1>5 DEF PlaceInv, Fresh, TypeOK
<1>9. ListInv'
  BY <1>1, <1>2, <1>3 DEF ListInv, WithList, TypeOK
<1> QED
  BY <1>4, <1>6, <1>7, <1>8, <1>9

LEMMA VisitKeeps ==
  ASSUME RegInv, NEW c \in Conns, NEW d \in Conns, Visit(c, d)
  PROVE  RegInv'
<1> USE DEF RegInv
<1>1. /\ UNCHANGED <<slots, count, leaked, cm, pc, todo>>
      /\ held' = [held EXCEPT ![c] = @ \ {d}]
      /\ rc' = [rc EXCEPT ![d] = @ - 1]
      /\ life' = [life EXCEPT ![d] = IF rc[d] = 1 THEN "freed" ELSE @]
      /\ pc[c] = "visit" /\ d \in held[c]
  BY DEF Visit, UnrefClient, regVars, threadVars
<1>2. \A x \in Conns :
        /\ Cardinality(Listings(x)') = Cardinality(Listings(x)) - One(x \in {d})
        /\ x \in {d} => Cardinality(Listings(x)) > 0
  <2>1. {d} \in SUBSET held[c]
    BY <1>1
  <2> HIDE DEF RegInv
  <2>2. held \in [Conns -> SUBSET Conns]
    BY DEF RegInv, TypeOK
  <2> QED
    BY <1>1, <2>1, <2>2, ListingsLose
<1>3. \A x \in Conns :
        /\ rc[x] = One(x \in Registered) + One(HoldsSelf(x))
                   + Cardinality(Listings(x)) + leaked[x]
        /\ life[x] = "live" <=> rc[x] > 0
        /\ Cardinality(Listings(x)) \in Nat /\ leaked[x] \in Nat /\ rc[x] \in Nat
        /\ One(x \in Registered) \in Nat /\ One(HoldsSelf(x)) \in Nat
  BY ListingsNat DEF RefCountExact, TypeOK, One
<1>4. rc[d] > 0
  BY <1>2, <1>3
<1>5. TypeOK'
  <2>1. rc' \in [Conns -> Nat]
    BY <1>1, <1>4 DEF TypeOK
  <2> QED
    BY <2>1, <1>1 DEF Visit, TypeOK, regVars, threadVars
<1>6. Registered' = Registered
  BY <1>1 DEF Registered
<1>7. RefCountExact'
  <2> SUFFICES ASSUME NEW x \in Conns
               PROVE  /\ rc'[x] = One(x \in Registered') + One(HoldsSelf(x)')
                                  + Cardinality(Listings(x)') + leaked'[x]
                      /\ life'[x] = "live" <=> rc'[x] > 0
    BY DEF RefCountExact
  <2>1. /\ One(x \in Registered') = One(x \in Registered)
        /\ One(HoldsSelf(x)') = One(HoldsSelf(x))
    BY <1>1, <1>6 DEF One, HoldsSelf
  <2>2. rc'[x] = rc[x] - One(x \in {d})
    BY <1>1, <1>3 DEF TypeOK, One
  <2>3. leaked' = leaked
    BY <1>1
  <2>4. life'[x] = "live" <=> rc'[x] > 0
    BY <1>1, <1>3, <1>4 DEF TypeOK
  <2>5. One(x \in {d}) \in Nat
    BY DEF One
  <2> QED
    BY <2>1, <2>2, <2>3, <2>4, <2>5, <1>2, <1>3
<1>8. SlotsInv'
  BY <1>1 DEF SlotsInv, Occupied
<1>9. PlaceInv'
  <2>1. pc[d] \notin Fresh
    BY <1>4 DEF PlaceInv
  <2> QED
    BY <2>1, <1>1, <1>6 DEF PlaceInv, HoldsSelf, TypeOK
<1>10. ListInv'
  BY <1>1, <1>6 DEF ListInv, WithList, TypeOK
<1> QED
  BY <1>5, <1>7, <1>8, <1>9, <1>10

(* A service thread drops the reference that creg_register returned.       *)
LEMMA UnrefSelfKeeps ==
  ASSUME RegInv, NEW c \in Conns, UnrefSelf(c)
  PROVE  RegInv'
<1> USE DEF RegInv
<1>1. /\ UNCHANGED <<slots, count, leaked, cm, held, todo>>
      /\ rc' = [rc EXCEPT ![c] = @ - 1]
      /\ life' = [life EXCEPT ![c] = IF rc[c] = 1 THEN "freed" ELSE @]
      /\ pc[c] = "unref" /\ pc' = [pc EXCEPT ![c] = "unregister"]
  BY DEF UnrefSelf, UnrefClient, Goto, regVars, listVars
<1>2. HoldsSelf(c) /\ ~HoldsSelf(c)'
  BY <1>1 DEF HoldsSelf, Labels, TypeOK
<1>3. c \in Registered /\ Registered' = Registered
  BY <1>1, <1>2 DEF PlaceInv, Registered
<1>4. \A x \in Conns :
        /\ rc[x] = One(x \in Registered) + One(HoldsSelf(x))
                   + Cardinality(Listings(x)) + leaked[x]
        /\ life[x] = "live" <=> rc[x] > 0
        /\ Cardinality(Listings(x)) \in Nat /\ leaked[x] \in Nat /\ rc[x] \in Nat
        /\ One(x \in Registered) \in Nat /\ One(HoldsSelf(x)) \in Nat
  BY ListingsNat DEF RefCountExact, TypeOK, One
<1>5. rc[c] > 0 /\ life[c] = "live"
  BY <1>3, RegisteredLive
<1>6. TypeOK'
  <2>1. rc' \in [Conns -> Nat]
    BY <1>1, <1>5 DEF TypeOK
  <2> QED
    BY <2>1, <1>1 DEF UnrefSelf, TypeOK, Labels, regVars, listVars
<1>7. RefCountExact'
  <2> SUFFICES ASSUME NEW x \in Conns
               PROVE  /\ rc'[x] = One(x \in Registered') + One(HoldsSelf(x)')
                                  + Cardinality(Listings(x)') + leaked'[x]
                      /\ life'[x] = "live" <=> rc'[x] > 0
    BY DEF RefCountExact
  <2>1. Cardinality(Listings(x)') = Cardinality(Listings(x)) /\ leaked' = leaked
    BY <1>1 DEF Listings
  <2>2. CASE x = c
    <3>1. One(HoldsSelf(x)) = 1 /\ One(HoldsSelf(x)') = 0
      BY <2>2, <1>2 DEF One
    <3>2. rc'[x] = rc[x] - 1 /\ (life'[x] = "live" <=> rc'[x] > 0)
      BY <2>2, <1>1, <1>4, <1>5 DEF TypeOK
    <3> QED
      BY <3>1, <3>2, <2>1, <1>3, <1>4
  <2>3. CASE x # c
    <3>1. HoldsSelf(x)' = HoldsSelf(x) /\ rc'[x] = rc[x] /\ life'[x] = life[x]
      BY <2>3, <1>1 DEF HoldsSelf, TypeOK
    <3> QED
      BY <3>1, <2>1, <1>3, <1>4
  <2> QED
    BY <2>2, <2>3
<1>8. SlotsInv'
  BY <1>1 DEF SlotsInv, Occupied
<1>9. PlaceInv'
  BY <1>1, <1>2, <1>3 DEF PlaceInv, Fresh, HoldsSelf, TypeOK
<1>10. ListInv'
  BY <1>1, <1>3 DEF ListInv, WithList, TypeOK
<1> QED
  BY <1>6, <1>7, <1>8, <1>9, <1>10

(* The one slot of the client is emptied, with the registry's reference.   *)
LEMMA UnregisterKeeps ==
  ASSUME RegInv, NEW c \in Conns, Unregister(c)
  PROVE  RegInv'
<1> USE DEF RegInv
<1>1. /\ UNCHANGED <<leaked, cm, held, todo>> /\ cm = NoClient
      /\ rc' = [rc EXCEPT ![c] = @ - 1]
      /\ life' = [life EXCEPT ![c] = IF rc[c] = 1 THEN "freed" ELSE @]
      /\ slots' = [i \in Slots |-> IF slots[i] = c THEN NoClient ELSE slots[i]]
      /\ count' = count - 1
      /\ pc[c] = "unregister" /\ pc' = [pc EXCEPT ![c] = "post"]
  BY DEF Unregister, UnrefClient, Goto, listVars
<1>2. c \in Registered
  BY <1>1 DEF PlaceInv
<1>3. Registered' = Registered \ {c}
  BY <1>1, ConnsFinite DEF Registered, TypeOK
<1>4. \A x \in Conns :
        /\ rc[x] = One(x \in Registered) + One(HoldsSelf(x))
                   + Cardinality(Listings(x)) + leaked[x]
        /\ life[x] = "live" <=> rc[x] > 0
        /\ Cardinality(Listings(x)) \in Nat /\ leaked[x] \in Nat /\ rc[x] \in Nat
        /\ One(x \in Registered) \in Nat /\ One(HoldsSelf(x)) \in Nat
  BY ListingsNat DEF RefCountExact, TypeOK, One
<1>5. rc[c] > 0 /\ life[c] = "live"
  BY <1>2, RegisteredLive
<1>6. PICK i \in Slots : slots[i] = c
  BY <1>2 DEF Registered
<1>7. Occupied' = Occupied \ {i} /\ i \in Occupied
  BY <1>1, <1>6, ConnsFinite DEF Occupied, SlotsInv, TypeOK
<1>8. Cardinality(Occupied') = Cardinality(Occupied) - 1 /\ Cardinality(Occupied) > 0
  BY <1>7, OccupiedFinite, FS_RemoveElement, FS_EmptySet
<1>9. TypeOK'
  <2>1. rc' \in [Conns -> Nat]
    BY <1>1, <1>5 DEF TypeOK
  <2>2. count' \in 0..MaxClients
    BY <1>1, <1>8, OccupiedFinite, BoundsNat DEF SlotsInv, TypeOK
  <2> QED
    BY <2>1, <2>2, <1>1 DEF Unregister, TypeOK, Labels, listVars
<1>10. RefCountExact'
  <2> SUFFICES ASSUME NEW x \in Conns
               PROVE  /\ rc'[x] = One(x \in Registered') + One(HoldsSelf(x)')
                                  + Cardinality(Listings(x)') + leaked'[x]
                      /\ life'[x] = "live" <=> rc'[x] > 0
    BY DEF RefCountExact
  <2>1. /\ Cardinality(Listings(x)') = Cardinality(Listings(x)) /\ leaked' = leaked
        /\ HoldsSelf(x)' = HoldsSelf(x)
    BY <1>1 DEF Listings, HoldsSelf, Labels, TypeOK
  <2>2. CASE x = c
    <3>1. One(x \in Registered) = 1 /\ One(x \in Registered') = 0
      BY <2>2, <1>2, <1>3 DEF One
    <3>2. rc'[x] = rc[x] - 1 /\ (life'[x] = "live" <=> rc'[x] > 0)
      BY <2>2, <1>1, <1>4, <1>5 DEF TypeOK
    <3> QED
      BY <3>1, <3>2, <2>1, <1>4
  <2>3. CASE x # c
    <3>1. rc'[x] = rc[x] /\ life'[x] = life[x]
      BY <2>3, <1>1 DEF TypeOK
    <3>2. One(x \in Registered') = One(x \in Registered)
      BY <2>3, <1>3 DEF One
    <3> QED
      BY <3>1, <3>2, <2>1, <1>4
  <2> QED
    BY <2>2, <2>3
<1>11. SlotsInv'
  <2>1. count' = Cardinality(Occupied')
    BY <1>1, <1>8 DEF SlotsInv
  <2>2. \A m, n \in Slots :
          slots'[m] # NoClient /\ slots'[n] = slots'[m] => n = m
    BY <1>1 DEF SlotsInv
  <2> QED
    BY <2>1, <2>2 DEF SlotsInv
<1>12. PlaceInv'
  BY <1>1, <1>3 DEF PlaceInv, Fresh, HoldsSelf, Labels, TypeOK
<1>13. ListInv'
  BY <1>1, <1>3, ConnsFinite DEF ListInv, WithList, TypeOK
<1> QED
  BY <1>9, <1>10, <1>11, <1>12, <1>13

LEMMA RegistryStep == RegInv /\ [Next]_vars => RegInv'
<1> SUFFICES ASSUME RegInv, [Next]_vars PROVE RegInv'
  OBVIOUS
<1>1. CASE UNCHANGED vars
  <2>1. TypeOK'
    BY <1>1 DEF RegInv, TypeOK, vars, regVars, objVars, threadVars, listVars
  <2>2. UNCHANGED <<slots, count, life, rc, held, leaked, cm, todo, pc>>
    BY <1>1 DEF vars, regVars, objVars, threadVars, listVars
  <2>3. \A t \in Conns : HoldsSelf(t)' <=> HoldsSelf(t)
    BY <2>2 DEF HoldsSelf
  <2>4. \A t \in Conns : held[t] # {} => pc'[t] \in WithList
    BY <2>2 DEF RegInv, ListInv
  <2> QED
    BY <2>1, <2>2, <2>3, <2>4, QuietKeeps
<1>2. CASE Next
  <2>1. CASE Sighup \/ Main
    BY <2>1, MainKeeps
  <2>2. CASE \E c \in Conns : Continue(c) \/ Environment(c)
    <3>1. PICK c \in Conns : Continue(c) \/ Environment(c)
      BY <2>2
    <3>2. CASE Environment(c)
      BY <3>2, ThreadQuiet, PacketKeeps DEF Environment
    <3>3. CASE ListStep(c)
      BY <3>3, ThreadQuiet, ListLockKeeps, ListUnlockKeeps, NobodyThereKeeps,
         ListRefKeeps, VisitKeeps DEF ListStep
    <3>4. CASE Continue(c) /\ ~ListStep(c)
      BY <3>4, ThreadQuiet, RegisterKeeps, UnrefSelfKeeps, UnregisterKeeps,
         PostKeeps DEF Continue
    <3> QED
      BY <3>1, <3>2, <3>3, <3>4
  <2> QED
    BY <1>2, <2>1, <2>2 DEF Next
<1> QED
  BY <1>1, <1>2

-----------------------------------------------------------------------------
(* The inductive invariant of the registry and the reference counts.       *)
THEOREM RegistryCorrect == Spec => []RegInv
<1>1. RegInv /\ [Next]_vars => RegInv'
  BY RegistryStep
<1> QED
  BY RegistryInit, <1>1, PTL DEF Spec

(* cr->count is the number of occupied slots, and those hold live clients. *)
THEOREM RegistrySoundHolds == Spec => []RegistrySound
<1>1. RegInv => RegistrySound
  BY RegistrySoundHere
<1> QED
  BY RegistryCorrect, <1>1, PTL

(* The reference count of a CLIENT is exact, so no array, registry slot or *)
(* service thread that owns a reference sees it freed.                     *)
THEOREM RefCountExactHolds == Spec => []RefCountExact
<1>1. RegInv => RefCountExact
  BY DEF RegInv
<1> QED
  BY RegistryCorrect, <1>1, PTL

-----------------------------------------------------------------------------
(* A client is logged in only while its service thread serves it; and once *)
(* main has seen a count of zero, no service thread is at work.            *)
Working(c) == HoldsSelf(c) \/ pc[c] = "unregister"

DownInv ==
  /\ \A c \in Conns : LoggedIn(c) => HoldsSelf(c) /\ pc[c] # "unref"
  /\ main # "accept" => \A c \in Conns : pc[c] # "start"
  /\ main \in {"fini", "exit"} => \A c \in Conns : ~Working(c)

(* A thread at work stays so, or was about to register.                    *)
LEMMA DownThread ==
  ASSUME TypeOK, DownInv, NEW c \in Conns, Continue(c) \/ Environment(c)
  PROVE  DownInv'
<1> USE DEF TypeOK, DownInv, LoggedIn, HoldsSelf, Working, Labels, Goto
<1>1. CASE Packet(c) \/ ListLock(c) \/ ListUnlock(c)
  BY <1>1 DEF Packet, ListLock, ListUnlock, objVars
<1>2. CASE NobodyThere(c) \/ SomebodyThere(c) \/ ListDone(c)
  BY <1>2 DEF NobodyThere, SomebodyThere, ListDone, objVars
<1>3. CASE \E d \in Conns : ListRef(c, d) \/ Measure(c, d) \/ Visit(c, d)
  BY <1>3 DEF ListRef, Measure, Visit, objVars, threadVars
<1>4. CASE Enter(c) \/ Logout(c)
  BY <1>4 DEF Enter, Logout
<1>5. CASE ReplyLock(c) \/ ReplySent(c)
  BY <1>5 DEF ReplyLock, ReplySent
<1>6. CASE ReadEOF(c) \/ RegisterFull(c) \/ Accept(c)
  BY <1>6 DEF ReadEOF, RegisterFull, Accept, objVars
<1>7. CASE UnrefSelf(c) \/ Unregister(c) \/ Post(c)
  <2>1. UNCHANGED <<status, main>>
    BY <1>7 DEF UnrefSelf, Unregister, Post, objVars
  <2>2. \/ pc[c] = "unref" /\ pc' = [pc EXCEPT ![c] = "unregister"]
        \/ pc[c] = "unregister" /\ pc' = [pc EXCEPT ![c] = "post"]
        \/ pc[c] = "post" /\ pc' = [pc EXCEPT ![c] = "done"]
    BY <1>7 DEF UnrefSelf, Unregister, Post
  <2> QED
    BY <2>1, <2>2
<1>8. CASE Register(c)
  BY <1>8 DEF Register
<1>9. CASE HangUp(c) \/ Crash(c) \/ BrokenPipe(c) \/ Undefined(c)
  BY <1>9 DEF HangUp, Crash, BrokenPipe, Undefined, objVars, threadVars
<1> QED
  BY <1>1, <1>2, <1>3, <1>4, <1>5, <1>6, <1>7, <1>8, <1>9
     DEF Continue, Environment, ListStep

(* A count of zero means that no service thread is at work.                *)
LEMMA CountZero ==
  ASSUME RegInv, count = 0
  PROVE  \A c \in Conns : ~Working(c)
<1>1. Occupied = {}
  BY OccupiedFinite, FS_EmptySet DEF RegInv, SlotsInv
<1>2. Registered = {}
  BY <1>1 DEF Occupied, Registered
<1> QED
  BY <1>2 DEF RegInv, PlaceInv, Working

LEMMA DownMain ==
  ASSUME ~Late, RegInv, DownInv, Sighup \/ Main
  PROVE  DownInv'
<1> USE DEF DownInv, LoggedIn, HoldsSelf, Working
<1>1. UNCHANGED <<status, pc>>
  BY DEF Sighup, Main, ShutdownAll, CheckCount, Wait, Fini, Exit, objVars,
         threadVars
<1>2. CASE Sighup
  BY <1>1, <1>2 DEF Sighup
<1>3. CASE CheckCount
  BY <1>1, <1>3, CountZero DEF CheckCount
<1>4. CASE ShutdownAll \/ Wait \/ Fini \/ Exit
  BY <1>1, <1>4 DEF ShutdownAll, Wait, Fini, Exit
<1> QED
  BY <1>2, <1>3, <1>4 DEF Main

LEMMA DownStep ==
  ASSUME ~Late
  PROVE  RegInv /\ DownInv /\ [Next]_vars => DownInv'
<1> SUFFICES ASSUME RegInv, DownInv, [Next]_vars PROVE DownInv'
  OBVIOUS
<1>1. CASE UNCHANGED vars
  BY <1>1 DEF vars, objVars, threadVars, DownInv, LoggedIn, HoldsSelf, Working
<1>2. CASE Next
  BY <1>2, DownThread, DownMain DEF Next, RegInv
<1> QED
  BY <1>1, <1>2

(* If no new connection is on its way when SIGHUP comes, main finalises    *)
(* the registry only after every service thread has logged its client out  *)
(* and taken it off the registry.                                          *)
THEOREM ShutdownOrderlyHolds ==
  ASSUME ~Late
  PROVE  Spec => []ShutdownOrderly
<1>1. Init => DownInv
  BY DEF Init, DownInv, LoggedIn
<1>2. RegInv /\ DownInv /\ [Next]_vars => DownInv'
  BY DownStep
<1>3. RegInv /\ DownInv => ShutdownOrderly
  BY DEF RegInv, TypeOK, Labels, DownInv, ShutdownOrderly, HoldsSelf, Working
<1> QED
  BY RegistryCorrect, <1>1, <1>2, <1>3, PTL DEF Spec
=============================================================================
