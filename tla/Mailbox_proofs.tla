--------------------------- MODULE Mailbox_proofs ---------------------------
(***************************************************************************)
(* Two facts about the mailbox module that hold whatever its callers do:   *)
(* the semaphore counts the entries, and the mutexes are held exactly by   *)
(* the threads inside a nested call.  The strengthening says what a thread *)
(* in the middle of a call carries (CallsOK) and that nothing is about a   *)
(* mailbox that was not allocated yet (UnbornOK).                          *)
(***************************************************************************)
EXTENDS MailboxRefinement, FiniteSetTheorems, TLAPS

CallsOK ==
  \A t \in Threads :
    /\ pc[t] # "idle" => mb[t] \in Mailboxes /\ life[mb[t]] # "unborn"
    /\ pc[t] \in {"add_ref", "next_unref", "next_discard"}
         => entry[t] \in Message

UnbornOK ==
  \A m \in Mailboxes :
    life[m] = "unborn" => box[m] = << >> /\ store[m] = 0

MailboxInv == TypeOK /\ CallsOK /\ UnbornOK /\ SemAccounting /\ LockDiscipline

-----------------------------------------------------------------------------
LEMMA PastNat ==
  ASSUME NEW m \in Mailboxes
  PROVE  IsFiniteSet(Past(m)) /\ Cardinality(Past(m)) \in Nat
<1>1. Past(m) \subseteq Threads
  BY DEF Past
<1> QED
  BY <1>1, ThreadsFinite, FS_Subset, FS_CardinalityType

(* Steps of threads that are not, and do not get, past a semaphore.        *)
LEMMA PastSame ==
  ASSUME TypeOK, NEW t \in Threads, NEW l, NEW x,
         l # "next_lock", pc[t] # "next_lock",
         pc' = [pc EXCEPT ![t] = l], mb' = [mb EXCEPT ![t] = x]
  PROVE  \A m \in Mailboxes : Past(m)' = Past(m)
BY DEF Past, TypeOK

LEMMA PastUnchanged ==
  ASSUME pc' = pc, mb' = mb
  PROVE  \A m \in Mailboxes : Past(m)' = Past(m)
BY DEF Past

(* A consumer gets past the semaphore of m.                                *)
LEMMA PastGain ==
  ASSUME TypeOK, NEW t \in Threads, NEW m \in Mailboxes,
         pc[t] # "next_lock",
         pc' = [pc EXCEPT ![t] = "next_lock"], mb' = [mb EXCEPT ![t] = m]
  PROVE  \A x \in Mailboxes :
           Cardinality(Past(x)')
             = Cardinality(Past(x)) + (IF x = m THEN 1 ELSE 0)
<1> SUFFICES ASSUME NEW x \in Mailboxes
             PROVE  Cardinality(Past(x)')
                      = Cardinality(Past(x)) + (IF x = m THEN 1 ELSE 0)
  OBVIOUS
<1>1. IsFiniteSet(Past(x)) /\ Cardinality(Past(x)) \in Nat
  BY PastNat
<1>2. CASE x = m
  <2>1. Past(x)' = Past(x) \cup {t} /\ t \notin Past(x)
    BY <1>2 DEF Past, TypeOK
  <2> QED
    BY <2>1, <1>1, <1>2, FS_AddElement
<1>3. CASE x # m
  <2>1. Past(x)' = Past(x)
    BY <1>3 DEF Past, TypeOK
  <2> QED
    BY <2>1, <1>1, <1>3
<1> QED
  BY <1>2, <1>3

(* A consumer that was past the semaphore of its mailbox moves on.         *)
LEMMA PastLose ==
  ASSUME TypeOK, NEW t \in Threads, NEW l, NEW n,
         pc[t] = "next_lock", mb[t] \in Mailboxes, l # "next_lock",
         pc' = [pc EXCEPT ![t] = l], mb' = [mb EXCEPT ![t] = n]
  PROVE  \A x \in Mailboxes :
           Cardinality(Past(x)')
             = Cardinality(Past(x)) - (IF x = mb[t] THEN 1 ELSE 0)
<1> SUFFICES ASSUME NEW x \in Mailboxes
             PROVE  Cardinality(Past(x)')
                      = Cardinality(Past(x)) - (IF x = mb[t] THEN 1 ELSE 0)
  OBVIOUS
<1>1. IsFiniteSet(Past(x)) /\ Cardinality(Past(x)) \in Nat
  BY PastNat
<1>2. CASE x = mb[t]
  <2>1. Past(x)' = Past(x) \ {t} /\ t \in Past(x)
    BY <1>2 DEF Past, TypeOK
  <2> QED
    BY <2>1, <1>1, <1>2, FS_RemoveElement
<1>3. CASE x # mb[t]
  <2>1. Past(x)' = Past(x)
    BY <1>3 DEF Past, TypeOK
  <2> QED
    BY <2>1, <1>1, <1>3
<1> QED
  BY <1>2, <1>3

(* What adding an entry does to the types, the lengths and the semaphores. *)
LEMMA EnqueueEffect ==
  ASSUME TypeOK, NEW m \in Mailboxes, NEW e \in Entry, Enqueue(m, e)
  PROVE  /\ box' \in [Mailboxes -> Seq(Entry)] /\ store' \in [Mailboxes -> Nat]
         /\ \A x \in Mailboxes :
              /\ Len(box'[x]) = Len(box[x]) + (IF x = m THEN 1 ELSE 0)
              /\ store'[x] = store[x] + (IF x = m THEN 1 ELSE 0)
              /\ x # m => box'[x] = box[x]
BY DEF TypeOK, Enqueue

(* Adding an entry and posting the semaphore keep the accounts.            *)
LEMMA EnqueueAccounting ==
  ASSUME TypeOK, SemAccounting, NEW m \in Mailboxes, NEW e \in Entry,
         Enqueue(m, e), life' = life, status' = status,
         \A x \in Mailboxes : Past(x)' = Past(x)
  PROVE  SemAccounting'
<1> SUFFICES ASSUME NEW x \in Mailboxes,
                    life[x] = "live", status[x] = "ACTIVE"
             PROVE  Len(box'[x]) = store'[x] + Cardinality(Past(x)')
  BY DEF SemAccounting
<1>1. Len(box[x]) = store[x] + Cardinality(Past(x))
  BY DEF SemAccounting
<1>2. /\ Len(box'[x]) = Len(box[x]) + (IF x = m THEN 1 ELSE 0)
      /\ store'[x] = store[x] + (IF x = m THEN 1 ELSE 0)
  BY EnqueueEffect
<1>3. store[x] \in Nat /\ Cardinality(Past(x)) \in Nat
  BY PastNat DEF TypeOK
<1>4. Past(x)' = Past(x)
  OBVIOUS
<1> QED
  BY <1>1, <1>2, <1>3, <1>4

-----------------------------------------------------------------------------
LEMMA MailboxInit == Init => MailboxInv
<1> SUFFICES ASSUME Init PROVE MailboxInv
  OBVIOUS
<1>1. TypeOK
  BY DEF Init, BoxInit, CallInit, TypeOK, Labels, Hooks
<1>2. CallsOK /\ UnbornOK /\ SemAccounting
  BY DEF Init, BoxInit, CallInit, CallsOK, UnbornOK, SemAccounting
<1>3. LockDiscipline
  BY ThreadsFinite DEF Init, BoxInit, CallInit, LockDiscipline, HoldsLock
<1> QED
  BY <1>1, <1>2, <1>3 DEF MailboxInv

(* The calls of one step.                                                  *)
LEMMA ShortPreserves ==
  ASSUME MailboxInv, NEW m \in Mailboxes, ShortCall(m), UNCHANGED threadVars
  PROVE  MailboxInv'
<1> USE DEF MailboxInv
<1>0. /\ \A x \in Mailboxes : Past(x)' = Past(x) /\ Cardinality(Past(x)) \in Nat
      /\ pc' = pc /\ mb' = mb /\ entry' = entry /\ todo' = todo
  BY PastUnchanged, PastNat DEF threadVars
<1>1. CASE Create(m)
  <2>1. Past(m) = {}
    BY <1>1 DEF Create, Past, CallsOK
  <2>2. TypeOK'
    BY <1>0, <1>1, FreshHooksOK DEF Create, TypeOK, Hooks
  <2>3. SemAccounting'
    <3>1. Cardinality(Past(m)') = 0
      BY <1>0, <2>1, FS_EmptySet
    <3>2. Len(box[m]) = 0 /\ store[m] = 0
      BY <1>1 DEF Create, UnbornOK
    <3> QED
      BY <1>0, <1>1, <3>1, <3>2 DEF Create, TypeOK, SemAccounting
  <2>4. CallsOK' /\ UnbornOK' /\ LockDiscipline'
    BY <1>0, <1>1
    DEF Create, TypeOK, CallsOK, UnbornOK, LockDiscipline, HoldsLock
  <2> QED
    BY <2>2, <2>3, <2>4
<1>2. CASE SetDiscardHook(m)
  <2>1. TypeOK'
    BY <1>0, <1>2 DEF SetDiscardHook, TypeOK, Hooks
  <2>2. CallsOK' /\ UnbornOK' /\ LockDiscipline'
    BY <1>0, <1>2
    DEF SetDiscardHook, CallsOK, UnbornOK, LockDiscipline, HoldsLock
  <2>3. SemAccounting'
    BY <1>0, <1>2 DEF SetDiscardHook, SemAccounting
  <2> QED
    BY <2>1, <2>2, <2>3
<1>3. CASE Ref(m) \/ UnrefSome(m)
  <2>1. TypeOK'
    BY <1>0, <1>3 DEF Ref, UnrefSome, TypeOK
  <2>2. CallsOK' /\ UnbornOK' /\ LockDiscipline'
    BY <1>0, <1>3
    DEF Ref, UnrefSome, CallsOK, UnbornOK, LockDiscipline, HoldsLock
  <2>3. SemAccounting'
    BY <1>0, <1>3 DEF Ref, UnrefSome, SemAccounting
  <2> QED
    BY <2>1, <2>2, <2>3
<1>4. CASE Shutdown(m)
  <2>1. TypeOK'
    BY <1>0, <1>4 DEF Shutdown, TypeOK
  <2>2. CallsOK' /\ LockDiscipline'
    BY <1>0, <1>4 DEF Shutdown, CallsOK, LockDiscipline, HoldsLock
  <2>3. SemAccounting' /\ UnbornOK'
    BY <1>0, <1>4 DEF Shutdown, Unlocked, TypeOK, SemAccounting, UnbornOK
  <2> QED
    BY <2>1, <2>2, <2>3
<1>5. ASSUME NEW e \in Entry, Unlocked(m), Enqueue(m, e),
             UNCHANGED <<life, status, hook, rc, lock, leaked>>
      PROVE  MailboxInv'
  <2>1. TypeOK'
    BY <1>0, <1>5 DEF Enqueue, TypeOK
  <2>2. CallsOK' /\ LockDiscipline'
    BY <1>0, <1>5 DEF CallsOK, LockDiscipline, HoldsLock
  <2>3. UnbornOK'
    BY <1>5 DEF Enqueue, Unlocked, UnbornOK, TypeOK
  <2>4. SemAccounting'
    BY <1>0, <1>5 DEF Enqueue, TypeOK, SemAccounting
  <2> QED
    BY <2>1, <2>2, <2>3, <2>4
<1>6. CASE \E id \in MsgIds : AddOwnMessage(m, id)
  BY <1>5, <1>6 DEF AddOwnMessage, Entry, Message
<1>7. CASE \E id \in MsgIds, kind \in Kinds : AddNotice(m, kind, id)
  BY <1>5, <1>7 DEF AddNotice, Entry, Notice
<1> QED
  BY <1>1, <1>2, <1>3, <1>4, <1>6, <1>7 DEF ShortCall

(* The first steps of the long calls.                                      *)
LEMMA LongPreserves ==
  ASSUME MailboxInv, NEW t \in Threads, NEW m \in Mailboxes,
         pc[t] = "idle", LongCall(t, m)
  PROVE  MailboxInv'
<1> USE DEF MailboxInv
<1>0. \A x \in Mailboxes : Cardinality(Past(x)) \in Nat
  BY PastNat
<1>1. ASSUME NEW from \in Mailboxes, NEW id \in MsgIds,
             AddMessageLock(t, m, from, id)
      PROVE  MailboxInv'
  <2>0. \A x \in Mailboxes : Past(x)' = Past(x)
    BY <1>1, PastSame DEF AddMessageLock, Goto
  <2>1. [type |-> "message", id |-> id, from |-> from] \in Message
    BY DEF Message
  <2>2. TypeOK'
    BY <1>1, <2>1 DEF AddMessageLock, Goto, TypeOK, Labels, Entry
  <2>3. CallsOK'
    BY <1>1, <2>1 DEF AddMessageLock, Goto, Unlocked, TypeOK, CallsOK
  <2>4. UnbornOK' /\ SemAccounting'
    BY <1>1, <2>0 DEF AddMessageLock, UnbornOK, SemAccounting
  <2>5. LockDiscipline'
    BY <1>1, ThreadsFinite
    DEF AddMessageLock, Goto, Unlocked, TypeOK, LockDiscipline, HoldsLock
  <2> QED
    BY <2>2, <2>3, <2>4, <2>5
<1>2. CASE UnrefLast(t, m)
  <2>0. \A x \in Mailboxes : Past(x)' = Past(x)
    BY <1>2, PastSame DEF UnrefLast, Goto
  <2>1. TypeOK'
    BY <1>2 DEF UnrefLast, Finalise, Goto, TypeOK, Labels
  <2>2. CallsOK'
    BY <1>2 DEF UnrefLast, Finalise, Goto, Unlocked, TypeOK, CallsOK
  <2>3. UnbornOK' /\ SemAccounting'
    BY <1>2, <2>0 DEF UnrefLast, Finalise, TypeOK, UnbornOK, SemAccounting
  <2>4. LockDiscipline'
    BY <1>2 DEF UnrefLast, Goto, TypeOK, LockDiscipline, HoldsLock
  <2> QED
    BY <2>1, <2>2, <2>3, <2>4
<1>3. CASE SemWait(t, m)
  <2>0. \A x \in Mailboxes :
          Cardinality(Past(x)')
            = Cardinality(Past(x)) + (IF x = m THEN 1 ELSE 0)
    BY <1>3, PastGain DEF SemWait, Goto
  <2>1. TypeOK'
    BY <1>3 DEF SemWait, Goto, TypeOK, Labels
  <2>2. CallsOK'
    BY <1>3 DEF SemWait, Goto, TypeOK, CallsOK
  <2>3. UnbornOK'
    BY <1>3 DEF SemWait, TypeOK, UnbornOK
  <2>4. SemAccounting'
    BY <1>0, <1>3, <2>0 DEF SemWait, TypeOK, SemAccounting
  <2>5. LockDiscipline'
    BY <1>3 DEF SemWait, Goto, TypeOK, LockDiscipline, HoldsLock
  <2> QED
    BY <2>1, <2>2, <2>3, <2>4, <2>5
<1> QED
  BY <1>1, <1>2, <1>3 DEF LongCall

-----------------------------------------------------------------------------
(* The rest of mb_add_message and mb_next_entry.                           *)
LEMMA AddRefPreserves ==
  ASSUME MailboxInv, NEW t \in Threads, AddMessageRef(t, "idle")
  PROVE  MailboxInv'
<1> USE DEF MailboxInv
<1>0. /\ pc[t] = "add_ref" /\ mb[t] \in Mailboxes /\ entry[t] \in Message
      /\ entry[t].from \in Mailboxes /\ entry[t] \in Entry
  BY DEF AddMessageRef, CallsOK, Message, Entry
<1>1. \A x \in Mailboxes : Past(x)' = Past(x) /\ Cardinality(Past(x)) \in Nat
  BY <1>0, PastSame, PastNat DEF AddMessageRef, Goto
<1>e. Enqueue(mb[t], entry[t])
  BY DEF AddMessageRef
<1>2. TypeOK'
  <2>1. box' \in [Mailboxes -> Seq(Entry)] /\ store' \in [Mailboxes -> Nat]
    BY <1>0, <1>e, EnqueueEffect
  <2>2. /\ rc' \in [Mailboxes -> Nat]
        /\ lock' \in [Mailboxes -> Threads \cup {NoThread}]
        /\ pc' \in [Threads -> Labels]
        /\ mb' \in [Threads -> Mailboxes \cup {NoMailbox}]
        /\ entry' \in [Threads -> Entry \cup {NULL}]
    BY <1>0 DEF AddMessageRef, Goto, TypeOK, Labels
  <2> QED
    BY <2>1, <2>2 DEF AddMessageRef, TypeOK
<1>3. CallsOK'
  BY <1>0 DEF AddMessageRef, Goto, TypeOK, CallsOK
<1>4. UnbornOK'
  BY <1>0, <1>e, EnqueueEffect DEF AddMessageRef, Enqueue, TypeOK, UnbornOK, CallsOK
<1>5. SemAccounting'
  <2>1. life' = life /\ status' = status
    BY DEF AddMessageRef
  <2> QED
    BY <1>0, <1>1, <1>e, <2>1, EnqueueAccounting
<1>6. LockDiscipline'
  BY <1>0, ThreadsFinite
  DEF AddMessageRef, Goto, TypeOK, LockDiscipline, HoldsLock
<1> QED
  BY <1>2, <1>3, <1>4, <1>5, <1>6

LEMMA NextPreserves ==
  ASSUME MailboxInv, NEW t \in Threads,
         NextDefunct(t, "idle") \/ NextRemove(t, "idle")
  PROVE  MailboxInv'
<1> USE DEF MailboxInv
<1>0. pc[t] = "next_lock" /\ mb[t] \in Mailboxes
  BY DEF NextDefunct, NextRemove, CallsOK
<1>1. \A x \in Mailboxes : Cardinality(Past(x)) \in Nat
  BY PastNat
<1>2. CASE NextDefunct(t, "idle")
  <2>0. \A x \in Mailboxes :
          Cardinality(Past(x)')
            = Cardinality(Past(x)) - (IF x = mb[t] THEN 1 ELSE 0)
    BY <1>0, <1>2, PastLose DEF NextDefunct, Goto
  <2>1. TypeOK'
    BY <1>0, <1>2 DEF NextDefunct, Goto, boxVars, TypeOK, Labels
  <2>2. CallsOK' /\ UnbornOK'
    BY <1>0, <1>2 DEF NextDefunct, Goto, boxVars, TypeOK, CallsOK, UnbornOK
  <2>3. SemAccounting'
    <3>1. status[mb[t]] # "ACTIVE"
      BY <1>2 DEF NextDefunct
    <3>2. ASSUME NEW x \in Mailboxes, x # mb[t]
          PROVE  Cardinality(Past(x)') = Cardinality(Past(x))
      BY <1>1, <2>0, <3>2
    <3> QED
      BY <1>2, <3>1, <3>2 DEF NextDefunct, boxVars, SemAccounting
  <2>4. LockDiscipline'
    BY <1>0, <1>2
    DEF NextDefunct, Goto, boxVars, TypeOK, LockDiscipline, HoldsLock
  <2> QED
    BY <2>1, <2>2, <2>3, <2>4
<1>3. CASE NextRemove(t, "idle")
  <2> DEFINE m == mb[t]
             e == Head(box[m])
  <2>0. /\ box[m] \in Seq(Entry) /\ box[m] # << >> /\ e \in Entry
        /\ Tail(box[m]) \in Seq(Entry) /\ Len(Tail(box[m])) = Len(box[m]) - 1
        /\ HoldsRef(m, e) => e \in Message
    BY <1>0, <1>3 DEF NextRemove, TypeOK, Entry, Message, Notice, HoldsRef, IsMessage
  <2>1. \E l \in {"idle", "next_unref"}, n \in Mailboxes \cup {NoMailbox} :
          /\ pc' = [pc EXCEPT ![t] = l]
          /\ mb' = [mb EXCEPT ![t] = n]
          /\ \/ /\ l = "next_unref" /\ n = m /\ HoldsRef(m, e)
                /\ lock' = [lock EXCEPT ![m] = t]
             \/ l = "idle" /\ n = NoMailbox /\ lock' = lock
    <3>1. CASE HoldsRef(m, e)
      <4>1. /\ lock' = [lock EXCEPT ![m] = t]
            /\ pc' = [pc EXCEPT ![t] = "next_unref"] /\ mb' = mb
        BY <1>3, <3>1 DEF NextRemove, Goto
      <4>2. mb' = [mb EXCEPT ![t] = m]
        BY <4>1 DEF TypeOK
      <4> QED
        BY <1>0, <3>1, <4>1, <4>2
    <3>2. CASE ~HoldsRef(m, e)
      BY <1>3, <3>2 DEF NextRemove, Goto
    <3> QED
      BY <3>1, <3>2
  <2>p. PICK l \in {"idle", "next_unref"}, n \in Mailboxes \cup {NoMailbox} :
          /\ pc' = [pc EXCEPT ![t] = l]
          /\ mb' = [mb EXCEPT ![t] = n]
          /\ \/ /\ l = "next_unref" /\ n = m /\ HoldsRef(m, e)
                /\ lock' = [lock EXCEPT ![m] = t]
             \/ l = "idle" /\ n = NoMailbox /\ lock' = lock
    BY <2>1
  <2>2. \A x \in Mailboxes :
          Cardinality(Past(x)')
            = Cardinality(Past(x)) - (IF x = m THEN 1 ELSE 0)
    BY <1>0, <2>p, PastLose
  <2>3. TypeOK'
    BY <1>0, <1>3, <2>0, <2>p DEF NextRemove, TypeOK, Labels
  <2>4. CallsOK'
    BY <1>0, <1>3, <2>0, <2>p DEF NextRemove, TypeOK, CallsOK
  <2>5. UnbornOK'
    BY <1>0, <1>3 DEF NextRemove, Unlocked, TypeOK, UnbornOK
  <2>6. SemAccounting'
    <3> SUFFICES ASSUME NEW x \in Mailboxes,
                        life'[x] = "live", status'[x] = "ACTIVE"
                 PROVE  Len(box'[x]) = store'[x] + Cardinality(Past(x)')
      BY DEF SemAccounting
    <3>1. /\ life[x] = "live" /\ status[x] = "ACTIVE" /\ store'[x] = store[x]
          /\ store[x] \in Nat /\ Cardinality(Past(x)) \in Nat
      BY <1>1, <1>3 DEF NextRemove, TypeOK
    <3>2. Len(box[x]) = store[x] + Cardinality(Past(x))
      BY <3>1 DEF SemAccounting
    <3>3. box' = [box EXCEPT ![m] = Tail(@)]
      BY <1>3 DEF NextRemove
    <3>4. CASE x = m
      <4>1. Len(box'[x]) = Len(box[x]) - 1
        BY <1>0, <2>0, <3>3, <3>4 DEF TypeOK
      <4>2. Cardinality(Past(x)') = Cardinality(Past(x)) - 1
        BY <2>2, <3>4
      <4> QED
        BY <3>1, <3>2, <4>1, <4>2
    <3>5. CASE x # m
      <4>1. box'[x] = box[x]
        BY <3>3, <3>5 DEF TypeOK
      <4>2. Cardinality(Past(x)') = Cardinality(Past(x))
        BY <2>2, <3>1, <3>5
      <4> QED
        BY <3>1, <3>2, <4>1, <4>2
    <3> QED
      BY <3>4, <3>5
  <2>7. LockDiscipline'
    BY <1>0, <1>3, <2>p, ThreadsFinite
    DEF NextRemove, Unlocked, TypeOK, LockDiscipline, HoldsLock
  <2> QED
    BY <2>3, <2>4, <2>5, <2>6, <2>7
<1> QED
  BY <1>2, <1>3

LEMMA NextUnrefPreserves ==
  ASSUME MailboxInv, NEW t \in Threads,
         NextUnrefSome(t, "idle") \/ NextUnrefLast(t)
  PROVE  MailboxInv'
<1> USE DEF MailboxInv
<1>0. /\ pc[t] = "next_unref" /\ mb[t] \in Mailboxes
      /\ entry[t] \in Message /\ entry[t].from \in Mailboxes
  BY DEF NextUnrefSome, NextUnrefLast, CallsOK, Message
<1>1. CASE NextUnrefSome(t, "idle")
  <2>0. \A x \in Mailboxes : Past(x)' = Past(x)
    BY <1>0, <1>1, PastSame DEF NextUnrefSome, Goto
  <2>1. TypeOK'
    BY <1>0, <1>1 DEF NextUnrefSome, Goto, TypeOK, Labels
  <2>2. CallsOK' /\ UnbornOK' /\ SemAccounting'
    BY <1>0, <1>1, <2>0
    DEF NextUnrefSome, Goto, TypeOK, CallsOK, UnbornOK, SemAccounting
  <2>3. LockDiscipline'
    BY <1>0, <1>1, ThreadsFinite
    DEF NextUnrefSome, Goto, TypeOK, LockDiscipline, HoldsLock
  <2> QED
    BY <2>1, <2>2, <2>3
<1>2. CASE NextUnrefLast(t)
  <2>0. \A x \in Mailboxes : Past(x)' = Past(x)
    <3>1. mb' = [mb EXCEPT ![t] = mb[t]]
      BY <1>2 DEF NextUnrefLast, TypeOK
    <3> QED
      BY <1>0, <1>2, <3>1, PastSame DEF NextUnrefLast, Goto
  <2>1. TypeOK'
    BY <1>0, <1>2 DEF NextUnrefLast, Finalise, Goto, TypeOK, Labels
  <2>2. CallsOK' /\ UnbornOK' /\ SemAccounting'
    BY <1>0, <1>2, <2>0
    DEF NextUnrefLast, Finalise, Goto, TypeOK, CallsOK, UnbornOK, SemAccounting
  <2>3. LockDiscipline'
    BY <1>0, <1>2 DEF NextUnrefLast, Goto, TypeOK, LockDiscipline, HoldsLock
  <2> QED
    BY <2>1, <2>2, <2>3
<1> QED
  BY <1>1, <1>2

(* The discarding loop of mb_unref.                                        *)
LEMMA DiscardPreserves ==
  ASSUME MailboxInv, NEW t \in Threads,
         DiscardToHook(t) \/ DiscardUnhooked(t) \/ DiscardDone(t, "idle")
  PROVE  MailboxInv'
<1> USE DEF MailboxInv
<1>0. /\ pc[t] \in {"discard", "next_discard"} /\ mb[t] \in Mailboxes
      /\ todo[t] \in Seq(Entry)
  BY DEF DiscardToHook, DiscardUnhooked, DiscardDone, Hooked, Discarding,
         CallsOK, TypeOK
<1>1. CASE DiscardToHook(t)
  <2> DEFINE from == Head(todo[t]).from
             n    == [type |-> "notice", id |-> NoMsgId, kind |-> "BOUNCE"]
  <2>0. /\ \A x \in Mailboxes : Past(x)' = Past(x) /\ Cardinality(Past(x)) \in Nat
        /\ pc' = pc /\ mb' = mb /\ entry' = entry
    BY <1>1, PastUnchanged, PastNat DEF DiscardToHook
  <2>1. n \in Entry /\ Tail(todo[t]) \in Seq(Entry) /\ from \in Mailboxes
    BY <1>0, <1>1, KindsOK
    DEF DiscardToHook, Hooked, HoldsRef, IsMessage, Entry, Notice, Message
  <2>e. Enqueue(from, n)
    BY <1>1 DEF DiscardToHook
  <2>2. TypeOK'
    <3>1. box' \in [Mailboxes -> Seq(Entry)] /\ store' \in [Mailboxes -> Nat]
      BY <2>1, <2>e, EnqueueEffect
    <3>2. leaked' \in [Mailboxes -> Nat] /\ todo' \in [Threads -> Seq(Entry)]
      BY <1>1, <2>1 DEF DiscardToHook, TypeOK
    <3> QED
      BY <1>1, <2>0, <3>1, <3>2 DEF DiscardToHook, TypeOK
  <2>3. CallsOK' /\ LockDiscipline'
    BY <1>1, <2>0 DEF DiscardToHook, CallsOK, LockDiscipline, HoldsLock
  <2>4. UnbornOK'
    BY <1>1, <2>1 DEF DiscardToHook, Enqueue, Unlocked, TypeOK, UnbornOK
  <2>5. SemAccounting'
    <3>1. life' = life /\ status' = status
      BY <1>1 DEF DiscardToHook
    <3> QED
      BY <2>0, <2>1, <2>e, <3>1, EnqueueAccounting
  <2> QED
    BY <2>2, <2>3, <2>4, <2>5
<1>2. CASE DiscardUnhooked(t)
  <2>0. /\ \A x \in Mailboxes : Past(x)' = Past(x)
        /\ pc' = pc /\ mb' = mb /\ entry' = entry
    BY <1>2, PastUnchanged DEF DiscardUnhooked
  <2>1. leaked' \in [Mailboxes -> Nat]
    <3>1. CASE leaked' = leaked
      BY <3>1 DEF TypeOK
    <3>2. ASSUME NEW f \in Mailboxes, leaked' = [leaked EXCEPT ![f] = @ + 1]
          PROVE  leaked' \in [Mailboxes -> Nat]
      BY <3>2 DEF TypeOK
    <3>3. CASE HoldsRef(Dying(t), Head(todo[t]))
      <4>1. Head(todo[t]).from \in Mailboxes
        BY <1>0, <1>2, <3>3
        DEF DiscardUnhooked, HoldsRef, IsMessage, Entry, Notice, Message
      <4> QED
        BY <1>2, <3>2, <3>3, <4>1 DEF DiscardUnhooked
    <3> QED
      BY <1>2, <3>1, <3>3 DEF DiscardUnhooked
  <2>2. TypeOK'
    <3>1. Tail(todo[t]) \in Seq(Entry)
      BY <1>0, <1>2 DEF DiscardUnhooked
    <3> QED
      BY <1>2, <2>0, <2>1, <3>1 DEF DiscardUnhooked, TypeOK
  <2>3. CallsOK' /\ LockDiscipline' /\ UnbornOK' /\ SemAccounting'
    BY <1>2, <2>0
    DEF DiscardUnhooked, CallsOK, LockDiscipline, HoldsLock, UnbornOK, SemAccounting
  <2> QED
    BY <2>2, <2>3
<1>3. CASE DiscardDone(t, "idle")
  <2>0. \A x \in Mailboxes : Past(x)' = Past(x)
    BY <1>0, <1>3, PastSame DEF DiscardDone, Goto
  <2>1. TypeOK'
    BY <1>0, <1>3 DEF DiscardDone, Goto, TypeOK, Labels
  <2>2. CallsOK' /\ UnbornOK' /\ SemAccounting'
    BY <1>0, <1>3, <2>0
    DEF DiscardDone, Goto, TypeOK, CallsOK, UnbornOK, SemAccounting
  <2>3. LockDiscipline'
    BY <1>0, <1>3, ThreadsFinite
    DEF DiscardDone, Goto, TypeOK, LockDiscipline, HoldsLock
  <2> QED
    BY <2>1, <2>2, <2>3
<1> QED
  BY <1>1, <1>2, <1>3

-----------------------------------------------------------------------------
LEMMA MailboxStep == MailboxInv /\ [Next]_vars => MailboxInv'
<1> SUFFICES ASSUME MailboxInv, [Next]_vars PROVE MailboxInv'
  OBVIOUS
<1>1. ASSUME NEW t \in Threads, NEW m \in Mailboxes,
             ShortCall(m), UNCHANGED threadVars
      PROVE  MailboxInv'
  BY <1>1, ShortPreserves
<1>2. ASSUME NEW t \in Threads, NEW m \in Mailboxes,
             pc[t] = "idle", LongCall(t, m)
      PROVE  MailboxInv'
  BY <1>2, LongPreserves
<1>3. ASSUME NEW t \in Threads, Continue(t, "idle")
      PROVE  MailboxInv'
  BY <1>3, AddRefPreserves, NextPreserves, NextUnrefPreserves, DiscardPreserves
  DEF Continue
<1>4. CASE UNCHANGED vars
  <2>1. \A x \in Mailboxes : Past(x)' = Past(x)
    BY <1>4, PastUnchanged DEF vars, threadVars
  <2> QED
    BY <1>4, <2>1
    DEF vars, boxVars, threadVars, MailboxInv, TypeOK, CallsOK, UnbornOK,
        SemAccounting, LockDiscipline, HoldsLock
<1> QED
  BY <1>1, <1>2, <1>3, <1>4 DEF Next

(* The inductive invariant of the mailbox module.                          *)
THEOREM MailboxCorrect == Spec => []MailboxInv
BY MailboxInit, MailboxStep, PTL DEF Spec

(* The semaphore counts the entries of every active mailbox, whatever the  *)
(* callers do: mb_next_entry never runs off the end of the list.           *)
THEOREM SemAccountingHolds == Spec => []SemAccounting
<1>1. MailboxInv => SemAccounting
  BY DEF MailboxInv
<1> QED
  BY MailboxCorrect, <1>1, PTL

(* Every mailbox mutex is held exactly by the thread in a nested call.     *)
THEOREM LockDisciplineHolds == Spec => []LockDiscipline
<1>1. MailboxInv => LockDiscipline
  BY DEF MailboxInv
<1> QED
  BY MailboxCorrect, <1>1, PTL
-----------------------------------------------------------------------------
(* The refinement needs more of the life of a mailbox: the one a thread    *)
(* holds the mutex of is live, the one it is discarding is freed, and a    *)
(* mailbox that was not allocated is as Init left it.                      *)
LivesOK ==
  \A t \in Threads :
    /\ pc[t] \in {"add_ref", "next_unref", "next_discard"} => life[mb[t]] = "live"
    /\ Discarding(t) => life[Dying(t)] = "freed"

FreshOK ==
  \A m \in Mailboxes :
    life[m] = "unborn" => status[m] = "ACTIVE" /\ hook[m] # "discard_hook"

QueueInv == MailboxInv /\ LivesOK /\ FreshOK

(* What may happen to a mailbox while someone depends on it.               *)
Ageing ==
  \A m \in Mailboxes :
    /\ life[m] = "freed" => life'[m] = "freed"
    /\ life[m] = "live" => life'[m] \in {"live", "freed"}
    /\ life[m] = "live" /\ lock[m] # NoThread => life'[m] = "live"
    /\ life[m] # "unborn" => life'[m] # "unborn"

LEMMA AgeingSame ==
  ASSUME life' = life
  PROVE  Ageing
BY DEF Ageing

LEMMA AgeingFinalise ==
  ASSUME TypeOK, NEW t \in Threads, NEW m \in Mailboxes, Finalise(t, m)
  PROVE  Ageing /\ life'[m] = "freed"
BY DEF Ageing, Finalise, Unlocked, TypeOK

(* Threads that stay where they are keep what they depend on.              *)
LEMMA LivesOfOthers ==
  ASSUME MailboxInv, LivesOK, Ageing, NEW u \in Threads,
         pc'[u] = pc[u], mb'[u] = mb[u], entry'[u] = entry[u]
  PROVE  /\ pc'[u] \in {"add_ref", "next_unref", "next_discard"}
              => life'[mb'[u]] = "live"
         /\ Discarding(u)' => life'[Dying(u)'] = "freed"
<1>1. ASSUME pc[u] \in {"add_ref", "next_unref", "next_discard"}
      PROVE  life'[mb[u]] = "live"
  <2>1. mb[u] \in Mailboxes /\ life[mb[u]] = "live"
    BY <1>1 DEF MailboxInv, CallsOK, LivesOK
  <2>2. lock[mb[u]] = u /\ u # NoThread
    BY <1>1, <2>1, ThreadsFinite DEF MailboxInv, LockDiscipline, HoldsLock
  <2> QED
    BY <2>1, <2>2 DEF Ageing
<1>2. ASSUME Discarding(u)
      PROVE  life'[Dying(u)] = "freed"
  <2>1. Dying(u) \in Mailboxes
    BY <1>2 DEF Discarding, Dying, MailboxInv, CallsOK, Message
  <2>2. life[Dying(u)] = "freed"
    BY <1>2 DEF LivesOK
  <2> QED
    BY <2>1, <2>2 DEF Ageing
<1>3. (Discarding(u)' <=> Discarding(u)) /\ Dying(u)' = Dying(u)
  BY DEF Discarding, Dying
<1> QED
  BY <1>1, <1>2, <1>3

(* A step in which only t moves.                                           *)
LEMMA LivesStep ==
  ASSUME MailboxInv, LivesOK, Ageing, NEW t \in Threads,
         \A u \in Threads \ {t} :
           pc'[u] = pc[u] /\ mb'[u] = mb[u] /\ entry'[u] = entry[u],
         pc'[t] \in {"add_ref", "next_unref", "next_discard"}
           => life'[mb'[t]] = "live",
         Discarding(t)' => life'[Dying(t)'] = "freed"
  PROVE  LivesOK'
<1> SUFFICES ASSUME NEW u \in Threads
             PROVE  /\ pc'[u] \in {"add_ref", "next_unref", "next_discard"}
                         => life'[mb'[u]] = "live"
                    /\ Discarding(u)' => life'[Dying(u)'] = "freed"
  BY DEF LivesOK
<1>1. CASE u = t
  BY <1>1
<1>2. CASE u # t
  BY <1>2, LivesOfOthers
<1> QED
  BY <1>1, <1>2

LEMMA LivesShort ==
  ASSUME QueueInv, NEW m \in Mailboxes, ShortCall(m), UNCHANGED threadVars
  PROVE  LivesOK' /\ FreshOK'
<1> USE DEF QueueInv
<1>1. Ageing
  BY AgeingSame
  DEF ShortCall, Create, SetDiscardHook, Ref, Shutdown, UnrefSome,
      AddOwnMessage, AddNotice, Ageing, MailboxInv, TypeOK
<1>2. LivesOK'
  <2>1. pc' = pc /\ mb' = mb /\ entry' = entry
    BY DEF threadVars
  <2> QED
    BY <1>1, <2>1, LivesOfOthers DEF LivesOK
<1>3. FreshOK'
  <2> USE DEF MailboxInv, TypeOK, FreshOK
  <2>1. CASE Create(m)
    BY <2>1 DEF Create
  <2>2. CASE SetDiscardHook(m)
    BY <2>2 DEF SetDiscardHook, Unlocked
  <2>3. CASE Shutdown(m)
    BY <2>3 DEF Shutdown, Unlocked
  <2>4. CASE UNCHANGED <<life, status, hook>>
    BY <2>4
  <2> QED
    BY <2>1, <2>2, <2>3, <2>4
    DEF ShortCall, Ref, UnrefSome, AddOwnMessage, AddNotice
<1> QED
  BY <1>2, <1>3

LEMMA LivesLong ==
  ASSUME QueueInv, NEW t \in Threads, NEW m \in Mailboxes, LongCall(t, m)
  PROVE  LivesOK' /\ FreshOK'
<1> USE DEF QueueInv
<1>1. ASSUME NEW from \in Mailboxes, NEW id \in MsgIds,
             AddMessageLock(t, m, from, id)
      PROVE  LivesOK' /\ FreshOK'
  <2>1. Ageing /\ FreshOK'
    BY <1>1, AgeingSame DEF AddMessageLock, FreshOK
  <2>2. pc'[t] = "add_ref" /\ mb'[t] = m /\ life'[m] = "live"
    BY <1>1 DEF AddMessageLock, Goto, Unlocked, MailboxInv, TypeOK
  <2>3. \A u \in Threads \ {t} :
          pc'[u] = pc[u] /\ mb'[u] = mb[u] /\ entry'[u] = entry[u]
    BY <1>1 DEF AddMessageLock, Goto, MailboxInv, TypeOK
  <2> QED
    BY <2>1, <2>2, <2>3, LivesStep DEF Discarding
<1>2. CASE UnrefLast(t, m)
  <2>1. Ageing /\ life'[m] = "freed" /\ FreshOK'
    BY <1>2, AgeingFinalise DEF UnrefLast, Ageing, MailboxInv, FreshOK
  <2>2. pc'[t] = "discard" /\ mb'[t] = m
    BY <1>2 DEF UnrefLast, Goto, MailboxInv, TypeOK
  <2>3. \A u \in Threads \ {t} :
          pc'[u] = pc[u] /\ mb'[u] = mb[u] /\ entry'[u] = entry[u]
    BY <1>2 DEF UnrefLast, Goto, MailboxInv, TypeOK
  <2> QED
    BY <2>1, <2>2, <2>3, LivesStep DEF Dying
<1>3. CASE SemWait(t, m)
  <2>1. Ageing /\ FreshOK'
    BY <1>3, AgeingSame DEF SemWait, FreshOK
  <2>2. pc'[t] = "next_lock"
    BY <1>3 DEF SemWait, Goto, MailboxInv, TypeOK
  <2>3. \A u \in Threads \ {t} :
          pc'[u] = pc[u] /\ mb'[u] = mb[u] /\ entry'[u] = entry[u]
    BY <1>3 DEF SemWait, Goto, MailboxInv, TypeOK
  <2> QED
    BY <2>1, <2>2, <2>3, LivesStep DEF Discarding
<1> QED
  BY <1>1, <1>2, <1>3 DEF LongCall

LEMMA LivesContinue ==
  ASSUME QueueInv, NEW t \in Threads, Continue(t, "idle")
  PROVE  LivesOK' /\ FreshOK'
<1> USE DEF QueueInv
<1>o. \A u \in Threads \ {t} :
        pc'[u] = pc[u] /\ mb'[u] = mb[u] /\ entry'[u] = entry[u]
  BY DEF Continue, AddMessageRef, NextDefunct, NextRemove, NextUnrefSome,
         NextUnrefLast, DiscardToHook, DiscardUnhooked, DiscardDone, Goto,
         MailboxInv, TypeOK
<1>1. CASE \/ AddMessageRef(t, "idle") \/ NextDefunct(t, "idle")
           \/ NextUnrefSome(t, "idle") \/ DiscardDone(t, "idle")
  <2>1. life' = life /\ status' = status /\ hook' = hook
    BY <1>1 DEF AddMessageRef, NextDefunct, NextUnrefSome, DiscardDone, boxVars
  <2>2. pc'[t] = "idle"
    BY <1>1 DEF AddMessageRef, NextDefunct, NextUnrefSome, DiscardDone, Goto,
                MailboxInv, TypeOK
  <2> QED
    BY <1>o, <2>1, <2>2, AgeingSame, LivesStep DEF Discarding, FreshOK
<1>2. CASE NextRemove(t, "idle")
  <2>1. life' = life /\ status' = status /\ hook' = hook
    BY <1>2 DEF NextRemove
  <2>2. /\ mb[t] \in Mailboxes /\ life[mb[t]] = "live"
        /\ pc'[t] \in {"idle", "next_unref"}
        /\ pc'[t] = "next_unref" => mb'[t] = mb[t]
    BY <1>2 DEF NextRemove, Goto, Unlocked, MailboxInv, CallsOK, TypeOK
  <2> QED
    BY <1>o, <2>1, <2>2, AgeingSame, LivesStep DEF Discarding, FreshOK
<1>3. CASE NextUnrefLast(t)
  <2> DEFINE from == entry[t].from
  <2>1. /\ from \in Mailboxes /\ mb[t] \in Mailboxes /\ pc[t] = "next_unref"
        /\ lock[mb[t]] = t /\ t # NoThread /\ life[mb[t]] = "live"
    BY <1>3, ThreadsFinite
    DEF NextUnrefLast, MailboxInv, CallsOK, Message, LockDiscipline, HoldsLock,
        LivesOK
  <2>2. Ageing /\ life'[from] = "freed" /\ FreshOK'
    BY <1>3, <2>1, AgeingFinalise DEF NextUnrefLast, Ageing, MailboxInv, FreshOK
  <2>3. pc'[t] = "next_discard" /\ mb'[t] = mb[t] /\ entry'[t] = entry[t]
    BY <1>3 DEF NextUnrefLast, Goto, MailboxInv, TypeOK
  <2>4. life'[mb'[t]] = "live"
    BY <2>1, <2>2, <2>3 DEF Ageing
  <2> QED
    BY <1>o, <2>2, <2>3, <2>4, LivesStep DEF Dying
<1>4. CASE DiscardToHook(t) \/ DiscardUnhooked(t)
  <2>1. UNCHANGED <<life, status, hook, pc, mb, entry>>
    BY <1>4 DEF DiscardToHook, DiscardUnhooked
  <2> QED
    BY <2>1, AgeingSame, LivesOfOthers DEF LivesOK, FreshOK
<1> QED
  BY <1>1, <1>2, <1>3, <1>4 DEF Continue

LEMMA QueueInvInit == Init => QueueInv
<1>1. Init => LivesOK /\ FreshOK
  BY DEF Init, BoxInit, CallInit, LivesOK, FreshOK, Discarding
<1> QED
  BY <1>1, MailboxInit DEF QueueInv

LEMMA QueueInvStep == QueueInv /\ [Next]_vars => QueueInv'
<1> SUFFICES ASSUME QueueInv, [Next]_vars PROVE QueueInv'
  OBVIOUS
<1>0. MailboxInv'
  BY MailboxStep DEF QueueInv
<1>1. ASSUME NEW m \in Mailboxes, ShortCall(m), UNCHANGED threadVars
      PROVE  LivesOK' /\ FreshOK'
  BY <1>1, LivesShort
<1>2. ASSUME NEW t \in Threads, NEW m \in Mailboxes, LongCall(t, m)
      PROVE  LivesOK' /\ FreshOK'
  BY <1>2, LivesLong
<1>3. ASSUME NEW t \in Threads, Continue(t, "idle")
      PROVE  LivesOK' /\ FreshOK'
  BY <1>3, LivesContinue
<1>4. ASSUME UNCHANGED vars
      PROVE  LivesOK' /\ FreshOK'
  <2>1. UNCHANGED <<life, status, hook, pc, mb, entry>>
    BY <1>4 DEF vars, boxVars, threadVars
  <2> QED
    BY <2>1, AgeingSame, LivesOfOthers DEF QueueInv, LivesOK, FreshOK
<1>5. LivesOK' /\ FreshOK'
  BY <1>1, <1>2, <1>3, <1>4 DEF Next
<1> QED
  BY <1>0, <1>5 DEF QueueInv
-----------------------------------------------------------------------------
(* What the variables of the queue stand for.                              *)
qPhase  == [m \in Mailboxes |-> Phase(m)]
qHooked == [m \in Mailboxes |-> hook[m] = "discard_hook"]
qQueue  == [m \in Mailboxes |-> IF life[m] = "live" THEN box[m] ELSE << >>]
qOwed   == [x \in Mailboxes |-> Cardinality(OwedTo(x))]

LEMMA PhaseNames ==
  ASSUME TypeOK, NEW m \in Mailboxes
  PROVE  /\ life[m] = "unborn" <=> Phase(m) = "unborn"
         /\ life[m] = "freed" <=> Phase(m) = "gone"
         /\ life[m] = "live" /\ status[m] = "ACTIVE" <=> Phase(m) = "open"
         /\ life[m] = "live" /\ status[m] = "DEFUNCT" <=> Phase(m) = "closed"
         /\ life[m] = "live" <=> Phase(m) \in {"open", "closed"}
<1>1. life[m] \in {"unborn", "live", "freed"} /\ status[m] \in {"ACTIVE", "DEFUNCT"}
  BY DEF TypeOK
<1>2. CASE life[m] = "unborn"
  BY <1>2 DEF Phase
<1>3. CASE life[m] = "freed"
  BY <1>3 DEF Phase
<1>4. CASE life[m] = "live" /\ status[m] = "ACTIVE"
  BY <1>4 DEF Phase
<1>5. CASE life[m] = "live" /\ status[m] = "DEFUNCT"
  BY <1>5 DEF Phase
<1> QED
  BY <1>1, <1>2, <1>3, <1>4, <1>5

LEMMA PhaseKept ==
  ASSUME life' = life, status' = status
  PROVE  qPhase' = qPhase
BY DEF qPhase, Phase

LEMMA PhaseBecomes ==
  ASSUME NEW m \in Mailboxes, NEW p, Phase(m)' = p,
         \A x \in Mailboxes \ {m} : life'[x] = life[x] /\ status'[x] = status[x]
  PROVE  qPhase' = [qPhase EXCEPT ![m] = p]
<1>1. \A x \in Mailboxes \ {m} : Phase(x)' = Phase(x)
  BY DEF Phase
<1> QED
  BY <1>1 DEF qPhase

LEMMA HookedKept ==
  ASSUME \A m \in Mailboxes : hook'[m] = "discard_hook" <=> hook[m] = "discard_hook"
  PROVE  qHooked' = qHooked
BY Zenon DEF qHooked

LEMMA QueueKept ==
  ASSUME life' = life, box' = box
  PROVE  qQueue' = qQueue
BY DEF qQueue

(* An entry is added to, or taken from, the list of a live mailbox.        *)
LEMMA QueueChanges ==
  ASSUME TypeOK, NEW m \in Mailboxes, life[m] = "live", life' = life,
         NEW q, box' = [box EXCEPT ![m] = q]
  PROVE  qQueue' = [qQueue EXCEPT ![m] = q]
BY DEF qQueue, TypeOK

-----------------------------------------------------------------------------
(* The notices that are owed.                                              *)
LEMMA DueBound ==
  ASSUME TypeOK, NEW t \in Threads, NEW x
  PROVE  /\ Due(t, x) \subseteq 1..Len(todo[t])
         /\ IsFiniteSet(Due(t, x))
<1>1. Due(t, x) \subseteq 1..Len(todo[t])
  BY DEF Due
<1>2. IsFiniteSet(1..Len(todo[t]))
  <2>1. Len(todo[t]) \in Int
    BY DEF TypeOK
  <2> QED
    BY <2>1, FS_Interval
<1> QED
  BY <1>1, <1>2, FS_Subset

LEMMA OwedFinite ==
  ASSUME TypeOK, NEW x
  PROVE  IsFiniteSet(OwedTo(x)) /\ Cardinality(OwedTo(x)) \in Nat
<1> DEFINE Of(t) == {t} \X Due(t, x)
           S     == {Of(t) : t \in Threads}
           f     == [t \in Threads |-> Of(t)]
<1>1. f \in Surjection(Threads, S)
  BY DEF Surjection
<1>2. IsFiniteSet(S)
  BY <1>1, ThreadsFinite, FS_Surjection
<1>3. ASSUME NEW T \in S PROVE IsFiniteSet(T)
  <2>1. PICK t \in Threads : T = Of(t)
    OBVIOUS
  <2> QED
    BY <2>1, DueBound, FS_Singleton, FS_Product
<1>4. IsFiniteSet(UNION S)
  BY <1>2, <1>3, FS_UNION
<1> QED
  BY <1>4, FS_CardinalityType DEF OwedTo

LEMMA InOwed ==
  ASSUME NEW x, NEW t, NEW k
  PROVE  <<t, k>> \in OwedTo(x) <=> t \in Threads /\ k \in Due(t, x)
BY DEF OwedTo

LEMMA OwedPairs ==
  ASSUME NEW x, NEW p \in OwedTo(x)
  PROVE  \E t \in Threads : \E k \in Due(t, x) : p = <<t, k>>
BY DEF OwedTo

LEMMA DueKept ==
  ASSUME NEW t \in Threads,
         todo'[t] = todo[t], pc'[t] = pc[t], mb'[t] = mb[t], entry'[t] = entry[t],
         Discarding(t) => hook'[Dying(t)] = hook[Dying(t)]
  PROVE  \A x \in Mailboxes : Due(t, x)' = Due(t, x)
<1>1. (Discarding(t)' <=> Discarding(t)) /\ Dying(t)' = Dying(t)
  BY DEF Discarding, Dying
<1> QED
  BY <1>1 DEF Due, HoldsRef, IsMessage

LEMMA DueNone ==
  ASSUME NEW t \in Threads, ~Discarding(t)
  PROVE  \A x \in Mailboxes : Due(t, x) = {}
BY DEF Due

LEMMA OwedKept ==
  ASSUME \A t \in Threads, x \in Mailboxes : Due(t, x)' = Due(t, x)
  PROVE  qOwed' = qOwed
<1>1. \A x \in Mailboxes : OwedTo(x)' = OwedTo(x)
  BY DEF OwedTo
<1> QED
  BY <1>1 DEF qOwed

(* Steps outside the discarding loop, that touch no hook of a freed        *)
(* mailbox, leave what is owed as it is.                                   *)
LEMMA OwedElsewhere ==
  ASSUME QueueInv, NEW t \in Threads, ~Discarding(t), ~Discarding(t)',
         \A u \in Threads \ {t} :
           /\ todo'[u] = todo[u] /\ pc'[u] = pc[u]
           /\ mb'[u] = mb[u] /\ entry'[u] = entry[u],
         hook' = hook
  PROVE  qOwed' = qOwed
<1>1. ASSUME NEW u \in Threads, NEW x \in Mailboxes PROVE Due(u, x)' = Due(u, x)
  <2>1. CASE u = t
    BY <2>1 DEF Due
  <2>2. CASE u # t
    BY <2>2, DueKept
  <2> QED
    BY <2>1, <2>2
<1> QED
  BY <1>1, OwedKept

(* A number and the position it has when one counts from the other end.    *)
LEMMA CountedBack ==
  ASSUME NEW n \in Nat, NEW S \in SUBSET (1..n)
  PROVE  LET B == {k \in 1..n : n + 1 - k \in S}
         IN  IsFiniteSet(B) /\ Cardinality(B) = Cardinality(S)
<1> DEFINE B == {k \in 1..n : n + 1 - k \in S}
           f == [i \in S |-> n + 1 - i]
<1>1. IsFiniteSet(S)
  <2>1. IsFiniteSet(1..n)
    BY FS_Interval
  <2> QED
    BY <2>1, FS_Subset
<1>2. \A i \in S : f[i] \in B /\ n + 1 - f[i] = i
  OBVIOUS
<1>3. \A k \in B : n + 1 - k \in S /\ f[n + 1 - k] = k
  OBVIOUS
<1>4. f \in [S -> B]
  BY <1>2
<1>5. \A i, j \in S : f[i] = f[j] => i = j
  BY <1>2
<1>6. \A k \in B : \E i \in S : f[i] = k
  BY <1>3
<1>7. f \in Bijection(S, B)
  BY <1>4, <1>5, <1>6 DEF Bijection, Injection, Surjection, IsInjective
<1> QED
  BY <1>1, <1>7, FS_Bijection DEF ExistsBijection
-----------------------------------------------------------------------------
(* The steps of mailbox.c are steps of the queue.                          *)
LEMMA QueueStutter ==
  ASSUME UNCHANGED <<life, status, box>>, qHooked' = qHooked, qOwed' = qOwed
  PROVE  UNCHANGED Queue!vars
<1>1. qPhase' = qPhase /\ qQueue' = qQueue
  BY PhaseKept, QueueKept
<1> QED
  BY <1>1, Zenon DEF Queue!vars, qPhase, qHooked, qQueue, qOwed

LEMMA QueuePut ==
  ASSUME QueueInv, NEW m \in Mailboxes, NEW e, life[m] = "live",
         UNCHANGED <<life, status, hook>>, Enqueue(m, e), qOwed' = qOwed
  PROVE  Queue!Put(m, e)
<1>1. qPhase[m] \in {"open", "closed"}
  BY PhaseNames DEF QueueInv, MailboxInv, qPhase
<1>2. qPhase' = qPhase /\ qHooked' = qHooked
  BY PhaseKept, HookedKept
<1>3. qQueue' = [qQueue EXCEPT ![m] = Append(@, e)]
  <2>1. box' = [box EXCEPT ![m] = Append(box[m], e)]
    BY DEF Enqueue
  <2>2. qQueue' = [qQueue EXCEPT ![m] = Append(box[m], e)]
    BY <2>1, QueueChanges DEF QueueInv, MailboxInv
  <2> QED
    BY <2>2 DEF qQueue
<1> QED
  BY <1>1, <1>2, <1>3, Zenon
  DEF Queue!Put, Queue!Exists, qPhase, qHooked, qQueue, qOwed

LEMMA QueueTake ==
  ASSUME QueueInv, NEW m \in Mailboxes,
         life[m] = "live", status[m] = "ACTIVE", box[m] # << >>,
         UNCHANGED <<life, status, hook>>,
         box' = [box EXCEPT ![m] = Tail(@)], qOwed' = qOwed
  PROVE  Queue!Take(m)
<1>1. qPhase[m] = "open" /\ qQueue[m] # << >>
  BY PhaseNames DEF QueueInv, MailboxInv, qPhase, qQueue
<1>2. qPhase' = qPhase /\ qHooked' = qHooked
  BY PhaseKept, HookedKept
<1>3. qQueue' = [qQueue EXCEPT ![m] = Tail(@)]
  <2>1. qQueue' = [qQueue EXCEPT ![m] = Tail(box[m])]
    BY QueueChanges DEF QueueInv, MailboxInv
  <2> QED
    BY <2>1 DEF qQueue
<1> QED
  BY <1>1, <1>2, <1>3, Zenon DEF Queue!Take, qPhase, qHooked, qQueue, qOwed

LEMMA QueueOpen ==
  ASSUME QueueInv, NEW m \in Mailboxes, Create(m), qOwed' = qOwed
  PROVE  Queue!Open(m)
<1> USE DEF QueueInv, MailboxInv
<1>1. qPhase[m] = "unborn"
  BY PhaseNames DEF Create, qPhase
<1>2. qPhase' = [qPhase EXCEPT ![m] = "open"]
  <2>1. Phase(m)' = "open"
    BY DEF Create, FreshOK, Phase, TypeOK
  <2> QED
    BY <2>1, PhaseBecomes DEF Create, TypeOK
<1>3. qHooked' = qHooked
  <2>1. \A x \in Mailboxes : hook'[x] = "discard_hook" <=> hook[x] = "discard_hook"
    BY FreshHooksOK DEF Create, FreshOK, TypeOK
  <2> QED
    BY <2>1, HookedKept
<1>4. qQueue' = qQueue
  BY DEF Create, qQueue, UnbornOK, TypeOK
<1> QED
  BY <1>1, <1>2, <1>3, <1>4, Zenon DEF Queue!Open, qPhase, qHooked, qQueue, qOwed

LEMMA QueueInstall ==
  ASSUME QueueInv, NEW m \in Mailboxes, SetDiscardHook(m), qOwed' = qOwed
  PROVE  Queue!Install(m)
<1>1. qPhase[m] \in {"open", "closed"}
  BY PhaseNames DEF SetDiscardHook, Unlocked, QueueInv, MailboxInv, qPhase
<1>2. qPhase' = qPhase /\ qQueue' = qQueue
  BY PhaseKept, QueueKept DEF SetDiscardHook
<1>3. qHooked' = [qHooked EXCEPT ![m] = TRUE]
  <2>1. /\ hook'[m] = "discard_hook"
        /\ \A x \in Mailboxes : x # m => hook'[x] = hook[x]
    BY DEF SetDiscardHook, QueueInv, MailboxInv, TypeOK
  <2> QED
    BY <2>1 DEF qHooked
<1> QED
  BY <1>1, <1>2, <1>3, Zenon
  DEF Queue!Install, Queue!Exists, qPhase, qHooked, qQueue, qOwed

LEMMA QueueClose ==
  ASSUME QueueInv, NEW m \in Mailboxes, Shutdown(m), qOwed' = qOwed
  PROVE  Queue!Close(m)
<1> USE DEF QueueInv, MailboxInv
<1>1. qPhase[m] \in {"open", "closed"}
  BY PhaseNames DEF Shutdown, Unlocked, qPhase
<1>2. qPhase' = [qPhase EXCEPT ![m] = "closed"]
  <2>1. Phase(m)' = "closed"
    BY DEF Shutdown, Unlocked, Phase, TypeOK
  <2> QED
    BY <2>1, PhaseBecomes DEF Shutdown, TypeOK
<1>3. qHooked' = qHooked /\ qQueue' = qQueue
  BY HookedKept, QueueKept DEF Shutdown
<1> QED
  BY <1>1, <1>2, <1>3, Zenon
  DEF Queue!Close, Queue!Exists, qPhase, qHooked, qQueue, qOwed

(* The messages of m that the thread which finalises it owes a notice for. *)
LEMMA DueForeign ==
  ASSUME QueueInv, NEW t \in Threads, NEW m \in Mailboxes, NEW x \in Mailboxes,
         life[m] = "live", hook'[m] = hook[m], todo'[t] = box[m],
         Discarding(t)', Dying(t)' = m
  PROVE  /\ IsFiniteSet(Due(t, x)')
         /\ Cardinality(Due(t, x)') = IF qHooked[m] THEN Queue!Foreign(m, x) ELSE 0
<1>1. CASE hook[m] = "discard_hook"
  <2> DEFINE n == Len(box[m])
             S == {i \in 1..n : HoldsRef(m, box[m][i]) /\ box[m][i].from = x}
             B == {k \in 1..n : n + 1 - k \in S}
  <2>1. n \in Nat
    BY DEF QueueInv, MailboxInv, TypeOK
  <2>2. Due(t, x)' = B
    <3>1. \A k \in 1..n : n + 1 - k \in 1..n
      BY <2>1
    <3> QED
      BY <1>1, <3>1 DEF Due, HoldsRef, IsMessage
  <2>3. IsFiniteSet(B) /\ Cardinality(B) = Cardinality(S)
    <3> HIDE DEF n
    <3>1. S \in SUBSET (1..n)
      OBVIOUS
    <3> HIDE DEF S
    <3> QED
      BY <2>1, <3>1, CountedBack
  <2>4. S = {i \in DOMAIN qQueue[m] :
               /\ qQueue[m][i].type = "message"
               /\ qQueue[m][i].from = x /\ x # m}
    <3>1. qQueue[m] = box[m] /\ DOMAIN box[m] = 1..n
      BY DEF qQueue, QueueInv, MailboxInv, TypeOK
    <3> QED
      BY <3>1 DEF HoldsRef, IsMessage
  <2>5. Queue!Foreign(m, x) = Cardinality(S)
    <3>1. Queue!Foreign(m, x) = Queue!Cardinality(S)
      BY <2>4 DEF Queue!Foreign, qQueue
    <3>2. Queue!Cardinality(S) = Cardinality(S)
      BY Zenon DEF Queue!Cardinality, Cardinality, Queue!IsFiniteSet, IsFiniteSet
    <3> QED
      BY <3>1, <3>2
  <2>6. qHooked[m]
    BY <1>1 DEF qHooked
  <2> QED
    BY <2>2, <2>3, <2>5, <2>6
<1>2. CASE hook[m] # "discard_hook"
  <2>1. Due(t, x)' = {} /\ ~qHooked[m]
    BY <1>2 DEF Due, qHooked
  <2> QED
    BY <2>1, FS_EmptySet
<1> QED
  BY <1>1, <1>2

LEMMA QueueDestroy ==
  ASSUME QueueInv, NEW t \in Threads, NEW m \in Mailboxes, Finalise(t, m),
         ~Discarding(t), Discarding(t)', Dying(t)' = m,
         UNCHANGED <<status, hook, box>>,
         \A u \in Threads \ {t} :
           pc'[u] = pc[u] /\ mb'[u] = mb[u] /\ entry'[u] = entry[u]
  PROVE  Queue!Destroy(m)
<1> USE DEF QueueInv, MailboxInv
<1>1. qPhase[m] \in {"open", "closed"}
  BY PhaseNames DEF Finalise, Unlocked, qPhase
<1>2. qPhase' = [qPhase EXCEPT ![m] = "gone"]
  <2>1. Phase(m)' = "gone"
    BY DEF Finalise, Phase, TypeOK
  <2> QED
    BY <2>1, PhaseBecomes DEF Finalise, TypeOK
<1>3. qHooked' = qHooked
  BY HookedKept
<1>4. qQueue' = [qQueue EXCEPT ![m] = << >>]
  BY DEF Finalise, qQueue, TypeOK
<1>5. qOwed' = [x \in Mailboxes |->
                  qOwed[x] + (IF qHooked[m] THEN Queue!Foreign(m, x) ELSE 0)]
  <2> SUFFICES ASSUME NEW x \in Mailboxes
               PROVE  Cardinality(OwedTo(x)')
                        = Cardinality(OwedTo(x))
                          + (IF qHooked[m] THEN Queue!Foreign(m, x) ELSE 0)
    BY DEF qOwed
  <2>1. /\ IsFiniteSet(Due(t, x)')
        /\ Cardinality(Due(t, x)')
             = IF qHooked[m] THEN Queue!Foreign(m, x) ELSE 0
    BY DueForeign DEF Finalise, Unlocked, TypeOK
  <2> DEFINE New == {t} \X Due(t, x)'
  <2>2. IsFiniteSet(New) /\ Cardinality(New) = Cardinality(Due(t, x)')
    <3>1. IsFiniteSet({t}) /\ Cardinality({t}) = 1
      BY FS_Singleton
    <3>2. /\ IsFiniteSet(New)
          /\ Cardinality(New) = Cardinality({t}) * Cardinality(Due(t, x)')
      BY <2>1, <3>1, FS_Product
    <3>3. Cardinality(Due(t, x)') \in Nat
      BY <2>1, FS_CardinalityType
    <3> QED
      BY <3>1, <3>2, <3>3
  <2>3. OwedTo(x)' = OwedTo(x) \cup New
    <3>1. \A u \in Threads \ {t} : Due(u, x)' = Due(u, x)
      BY DueKept DEF Finalise, TypeOK
    <3>2. Due(t, x) = {}
      BY DueNone
    <3> QED
      BY <3>1, <3>2 DEF OwedTo
  <2>4. OwedTo(x) \cap New = {}
    <3>1. Due(t, x) = {}
      BY DueNone
    <3> QED
      BY <3>1 DEF OwedTo
  <2>5. IsFiniteSet(OwedTo(x)) /\ Cardinality(OwedTo(x)) \in Nat
    BY OwedFinite
  <2>6. Cardinality(OwedTo(x) \cup New)
          = Cardinality(OwedTo(x)) + Cardinality(New) - Cardinality({})
    BY <2>2, <2>4, <2>5, FS_Union
  <2>7. Cardinality({}) = 0 /\ Cardinality(New) \in Nat
    BY <2>2, FS_EmptySet, FS_CardinalityType
  <2> QED
    BY <2>1, <2>2, <2>3, <2>5, <2>6, <2>7
<1> QED
  BY <1>1, <1>2, <1>3, <1>4, <1>5, Zenon
  DEF Queue!Destroy, Queue!Exists, Queue!Foreign, qPhase, qHooked, qQueue, qOwed

(* One message is passed to the hook, and one notice less is owed.         *)
LEMMA QueuePayBounce ==
  ASSUME QueueInv, NEW t \in Threads, DiscardToHook(t)
  PROVE  \E m \in Mailboxes : Queue!PayBounce(m)
<1> USE DEF QueueInv, MailboxInv
<1> DEFINE from == Head(todo[t]).from
           n    == Len(todo[t])
           b    == [type |-> "notice", id |-> NoMsgId, kind |-> "BOUNCE"]
<1>0. /\ todo[t] \in Seq(Entry) /\ todo[t] # << >> /\ n \in Nat \ {0}
      /\ Head(todo[t]) = todo[t][1] /\ HoldsRef(Dying(t), todo[t][1])
      /\ from \in Mailboxes /\ life[from] = "live"
  <2>1. todo[t] \in Seq(Entry) /\ todo[t] # << >>
    BY DEF DiscardToHook, Hooked, TypeOK
  <2>2. Head(todo[t]) = todo[t][1] /\ todo[t][1] \in Entry /\ n \in Nat \ {0}
    BY <2>1
  <2>3. HoldsRef(Dying(t), todo[t][1]) /\ life[from] = "live"
    BY <2>2 DEF DiscardToHook, Hooked, Unlocked
  <2> QED
    BY <2>1, <2>2, <2>3 DEF HoldsRef, IsMessage, Entry, Notice, Message
<1>1. qPhase[from] \in {"open", "closed"}
  BY <1>0, PhaseNames DEF qPhase
<1>2. qPhase' = qPhase /\ qHooked' = qHooked
  BY PhaseKept, HookedKept DEF DiscardToHook
<1>3. qQueue' = [qQueue EXCEPT ![from] = Append(@, b)]
  <2>1. life' = life /\ box' = [box EXCEPT ![from] = Append(box[from], b)]
    BY DEF DiscardToHook, Enqueue
  <2>2. qQueue' = [qQueue EXCEPT ![from] = Append(box[from], b)]
    BY <1>0, <2>1, QueueChanges
  <2> QED
    BY <1>0, <2>2 DEF qQueue
<1>4. /\ Discarding(t) /\ Discarding(t)' /\ Dying(t)' = Dying(t)
      /\ hook[Dying(t)] = "discard_hook" /\ hook' = hook
      /\ todo'[t] = Tail(todo[t])
  BY DEF DiscardToHook, Hooked, Discarding, Dying, TypeOK
<1>5. \A x \in Mailboxes :
        Due(t, x)' = IF x = from THEN Due(t, x) \ {n} ELSE Due(t, x)
  <2>1. /\ Len(Tail(todo[t])) = n - 1
        /\ \A k \in 1..(n - 1) : Tail(todo[t])[n - k] = todo[t][n + 1 - k]
    BY <1>0
  <2> SUFFICES ASSUME NEW x \in Mailboxes
               PROVE  Due(t, x)' = IF x = from THEN Due(t, x) \ {n} ELSE Due(t, x)
    OBVIOUS
  <2> DEFINE Owes(e) == HoldsRef(Dying(t), e) /\ e.from = x
  <2>2. Due(t, x) = {k \in 1..n : Owes(todo[t][n + 1 - k])}
    BY <1>4 DEF Due
  <2>3. Due(t, x)' = {k \in 1..(n - 1) : Owes(todo[t][n + 1 - k])}
    <3>1. Due(t, x)' = {k \in 1..Len(Tail(todo[t])) :
                          Owes(Tail(todo[t])[Len(Tail(todo[t])) + 1 - k])}
      BY <1>4 DEF Due, HoldsRef, IsMessage
    <3> QED
      BY <1>0, <2>1, <3>1
  <2>4. Owes(todo[t][n + 1 - n]) <=> x = from
    BY <1>0
  <2> HIDE DEF Owes, n
  <2> QED
    BY <1>0, <2>2, <2>3, <2>4
<1>6. n \in Due(t, from)
  BY <1>0, <1>4 DEF Due
<1>7. \A u \in Threads \ {t}, x \in Mailboxes : Due(u, x)' = Due(u, x)
  BY DueKept DEF DiscardToHook, TypeOK
<1>8. \A x \in Mailboxes :
        Cardinality(OwedTo(x)') = Cardinality(OwedTo(x)) - (IF x = from THEN 1 ELSE 0)
  <2> SUFFICES ASSUME NEW x \in Mailboxes
               PROVE  Cardinality(OwedTo(x)')
                        = Cardinality(OwedTo(x)) - (IF x = from THEN 1 ELSE 0)
    OBVIOUS
  <2>1. IsFiniteSet(OwedTo(x)) /\ Cardinality(OwedTo(x)) \in Nat
    BY OwedFinite
  <2>2. CASE x = from
    <3>1. OwedTo(x)' = OwedTo(x) \ {<<t, n>>}
      BY <1>5, <1>7, <2>2 DEF OwedTo
    <3>2. <<t, n>> \in OwedTo(x)
      BY <1>6, <2>2, InOwed
    <3> QED
      BY <2>1, <2>2, <3>1, <3>2, FS_RemoveElement
  <2>3. CASE x # from
    <3>1. OwedTo(x)' = OwedTo(x)
      BY <1>5, <1>7, <2>3 DEF OwedTo
    <3> QED
      BY <2>1, <2>3, <3>1
  <2> QED
    BY <2>2, <2>3
<1>9. qOwed' = [qOwed EXCEPT ![from] = @ - 1]
  <2>1. \A x \in Mailboxes : Cardinality(OwedTo(x)) \in Nat
    BY OwedFinite
  <2> QED
    BY <1>0, <1>8, <2>1 DEF qOwed
<1>10. qOwed[from] > 0
  <2>1. <<t, n>> \in OwedTo(from)
    BY <1>6, InOwed
  <2>2. IsFiniteSet(OwedTo(from)) /\ Cardinality(OwedTo(from)) \in Nat
    BY OwedFinite
  <2>3. Cardinality(OwedTo(from)) # 0
    BY <2>1, <2>2, FS_EmptySet
  <2> QED
    BY <1>0, <2>2, <2>3 DEF qOwed
<1>11. PICK m \in Mailboxes : m = from
  BY <1>0
<1>12. /\ qPhase[m] \in {"open", "closed"} /\ qOwed[m] > 0
       /\ qOwed' = [qOwed EXCEPT ![m] = @ - 1]
       /\ qQueue' = [qQueue EXCEPT ![m] = Append(@, b)]
  BY <1>1, <1>3, <1>9, <1>10, <1>11
<1>13. Queue!PayBounce(m)
  BY <1>2, <1>12, Zenon
  DEF Queue!PayBounce, Queue!Exists, qPhase, qHooked, qQueue, qOwed
<1> QED
  BY <1>13

(* What is dropped without a notice was owed none.                         *)
LEMMA QueueDrop ==
  ASSUME QueueInv, NEW t \in Threads, DiscardUnhooked(t)
  PROVE  UNCHANGED Queue!vars
<1> USE DEF QueueInv, MailboxInv
<1> DEFINE n == Len(todo[t])
<1>0. /\ todo[t] \in Seq(Entry) /\ todo[t] # << >> /\ n \in Nat \ {0}
      /\ Head(todo[t]) = todo[t][1]
  BY DEF DiscardUnhooked, TypeOK
<1>1. /\ Discarding(t)' /\ Dying(t)' = Dying(t) /\ hook' = hook
      /\ hook[Dying(t)] = "discard_hook" => ~HoldsRef(Dying(t), todo[t][1])
      /\ todo'[t] = Tail(todo[t])
  BY <1>0 DEF DiscardUnhooked, Hooked, Discarding, Dying, TypeOK
<1>2. \A x \in Mailboxes : Due(t, x)' = Due(t, x)
  <2> SUFFICES ASSUME NEW x \in Mailboxes, hook[Dying(t)] = "discard_hook"
               PROVE  Due(t, x)' = Due(t, x)
    BY <1>1 DEF Due
  <2>1. /\ Len(Tail(todo[t])) = n - 1
        /\ \A k \in 1..(n - 1) : Tail(todo[t])[n - k] = todo[t][n + 1 - k]
    BY <1>0
  <2> DEFINE Owes(e) == HoldsRef(Dying(t), e) /\ e.from = x
  <2>2. Due(t, x) = {k \in 1..n : Owes(todo[t][n + 1 - k])}
    BY DEF Due, DiscardUnhooked
  <2>3. Due(t, x)' = {k \in 1..(n - 1) : Owes(todo[t][n + 1 - k])}
    <3>1. Due(t, x)' = {k \in 1..Len(Tail(todo[t])) :
                          Owes(Tail(todo[t])[Len(Tail(todo[t])) + 1 - k])}
      BY <1>1 DEF Due, HoldsRef, IsMessage
    <3> QED
      BY <1>0, <2>1, <3>1
  <2>4. ~Owes(todo[t][n + 1 - n])
    BY <1>0, <1>1
  <2> HIDE DEF Owes, n
  <2> QED
    BY <1>0, <2>2, <2>3, <2>4
<1>3. \A u \in Threads \ {t}, x \in Mailboxes : Due(u, x)' = Due(u, x)
  BY DueKept DEF DiscardUnhooked, TypeOK
<1>4. qOwed' = qOwed
  BY <1>2, <1>3, OwedKept
<1> QED
  BY <1>4, HookedKept, QueueStutter DEF DiscardUnhooked

-----------------------------------------------------------------------------
(* The calls of one step move no thread, and no hook of a freed mailbox.   *)
LEMMA OwedShort ==
  ASSUME QueueInv, UNCHANGED threadVars,
         \A m \in Mailboxes : life[m] = "freed" => hook'[m] = hook[m]
  PROVE  qOwed' = qOwed
<1>1. ASSUME NEW u \in Threads, NEW x \in Mailboxes PROVE Due(u, x)' = Due(u, x)
  <2>1. ASSUME Discarding(u) PROVE hook'[Dying(u)] = hook[Dying(u)]
    <3>1. Dying(u) \in Mailboxes
      BY <2>1 DEF Discarding, Dying, QueueInv, MailboxInv, CallsOK, Message
    <3> QED
      BY <2>1, <3>1 DEF QueueInv, LivesOK
  <2> QED
    BY <2>1, DueKept DEF threadVars
<1> QED
  BY <1>1, OwedKept

LEMMA QueueShort ==
  ASSUME QueueInv, NEW m \in Mailboxes, ShortCall(m), UNCHANGED threadVars
  PROVE  Queue!Next \/ UNCHANGED Queue!vars
<1> USE DEF QueueInv
<1>0. qOwed' = qOwed
  <2>1. \A x \in Mailboxes : life[x] = "freed" => hook'[x] = hook[x]
    BY DEF ShortCall, Create, SetDiscardHook, Ref, Shutdown, UnrefSome, Unlocked,
           AddOwnMessage, AddNotice, MailboxInv, TypeOK
  <2> QED
    BY <2>1, OwedShort
<1>1. CASE Create(m)
  BY <1>0, <1>1, QueueOpen, Zenon DEF Queue!Next
<1>2. CASE SetDiscardHook(m)
  BY <1>0, <1>2, QueueInstall, Zenon DEF Queue!Next
<1>3. CASE Shutdown(m)
  BY <1>0, <1>3, QueueClose, Zenon DEF Queue!Next
<1>4. CASE Ref(m) \/ UnrefSome(m)
  BY <1>0, <1>4, HookedKept, QueueStutter DEF Ref, UnrefSome
<1>5. ASSUME NEW e \in Entry, Unlocked(m), Enqueue(m, e),
             UNCHANGED <<life, status, hook>>
      PROVE  Queue!Next
  <2>1. Queue!Put(m, e)
    BY <1>0, <1>5, QueuePut DEF Unlocked
  <2> QED
    BY <1>5, <2>1, Zenon DEF Queue!Next
<1>6. ASSUME NEW id \in MsgIds, AddOwnMessage(m, id)
      PROVE  Queue!Next
  BY <1>5, <1>6 DEF AddOwnMessage, Entry, Message
<1>7. ASSUME NEW id \in MsgIds, NEW kind \in Kinds, AddNotice(m, kind, id)
      PROVE  Queue!Next
  BY <1>5, <1>7 DEF AddNotice, Entry, Notice
<1> QED
  BY <1>1, <1>2, <1>3, <1>4, <1>6, <1>7 DEF ShortCall

LEMMA QueueLong ==
  ASSUME QueueInv, NEW t \in Threads, pc[t] = "idle",
         NEW m \in Mailboxes, LongCall(t, m)
  PROVE  Queue!Next \/ UNCHANGED Queue!vars
<1> USE DEF QueueInv, MailboxInv, TypeOK
<1>0. ~Discarding(t)
  BY DEF Discarding
<1>1. ASSUME NEW from \in Mailboxes, NEW id \in MsgIds,
             AddMessageLock(t, m, from, id)
      PROVE  UNCHANGED Queue!vars
  <2>1. qOwed' = qOwed
    BY <1>0, <1>1, OwedElsewhere DEF AddMessageLock, Goto, Discarding
  <2> QED
    BY <1>1, <2>1, HookedKept, QueueStutter DEF AddMessageLock
<1>2. CASE SemWait(t, m)
  <2>1. qOwed' = qOwed
    BY <1>0, <1>2, OwedElsewhere DEF SemWait, Goto, Discarding
  <2> QED
    BY <1>2, <2>1, HookedKept, QueueStutter DEF SemWait
<1>3. CASE UnrefLast(t, m)
  <2>1. /\ Discarding(t)' /\ Dying(t)' = m /\ Finalise(t, m)
        /\ UNCHANGED <<status, hook, box>>
        /\ \A u \in Threads \ {t} :
             pc'[u] = pc[u] /\ mb'[u] = mb[u] /\ entry'[u] = entry[u]
    BY <1>3 DEF UnrefLast, Goto, Discarding, Dying
  <2>2. Queue!Destroy(m)
    BY <1>0, <2>1, QueueDestroy
  <2> QED
    BY <2>2, Zenon DEF Queue!Next
<1> QED
  BY <1>1, <1>2, <1>3 DEF LongCall

LEMMA QueueContinue ==
  ASSUME QueueInv, NEW t \in Threads, Continue(t, "idle")
  PROVE  Queue!Next \/ UNCHANGED Queue!vars
<1> USE DEF QueueInv, MailboxInv, TypeOK
<1>1. CASE AddMessageRef(t, "idle")
  <2>1. /\ mb[t] \in Mailboxes /\ life[mb[t]] = "live"
        /\ entry[t] \in Entry /\ Enqueue(mb[t], entry[t])
        /\ UNCHANGED <<life, status, hook>>
    BY <1>1 DEF AddMessageRef, CallsOK, LivesOK, Entry
  <2>2. qOwed' = qOwed
    BY <1>1, OwedElsewhere DEF AddMessageRef, Goto, Discarding
  <2>3. PICK m \in Mailboxes, e \in Entry : m = mb[t] /\ e = entry[t]
    BY <2>1
  <2>4. Queue!Put(m, e)
    BY <2>1, <2>2, <2>3, QueuePut
  <2> QED
    BY <2>4, Zenon DEF Queue!Next
<1>2. CASE NextDefunct(t, "idle")
  <2>1. qOwed' = qOwed
    BY <1>2, OwedElsewhere DEF NextDefunct, Goto, Discarding, boxVars
  <2> QED
    BY <1>2, <2>1, HookedKept, QueueStutter DEF NextDefunct, boxVars
<1>3. CASE NextRemove(t, "idle")
  <2>1. /\ mb[t] \in Mailboxes /\ life[mb[t]] = "live" /\ status[mb[t]] = "ACTIVE"
        /\ box[mb[t]] # << >> /\ box' = [box EXCEPT ![mb[t]] = Tail(@)]
        /\ UNCHANGED <<life, status, hook>>
    BY <1>3 DEF NextRemove, Unlocked, CallsOK
  <2>2. /\ ~Discarding(t) /\ ~Discarding(t)'
        /\ \A u \in Threads \ {t} :
             /\ todo'[u] = todo[u] /\ pc'[u] = pc[u]
             /\ mb'[u] = mb[u] /\ entry'[u] = entry[u]
    BY <1>3 DEF NextRemove, Goto, Discarding
  <2>3. qOwed' = qOwed
    BY <2>1, <2>2, OwedElsewhere
  <2>4. PICK m \in Mailboxes : m = mb[t]
    BY <2>1
  <2>5. Queue!Take(m)
    BY <2>1, <2>3, <2>4, QueueTake
  <2> QED
    BY <2>5, Zenon DEF Queue!Next
<1>4. CASE NextUnrefSome(t, "idle")
  <2>1. qOwed' = qOwed
    BY <1>4, OwedElsewhere DEF NextUnrefSome, Goto, Discarding
  <2> QED
    BY <1>4, <2>1, HookedKept, QueueStutter DEF NextUnrefSome
<1>5. CASE NextUnrefLast(t)
  <2>0. PICK from \in Mailboxes : from = entry[t].from
    BY <1>5 DEF NextUnrefLast, CallsOK, Message
  <2>1. /\ Finalise(t, from)
        /\ ~Discarding(t) /\ Discarding(t)' /\ Dying(t)' = from
        /\ UNCHANGED <<status, hook, box>>
        /\ \A u \in Threads \ {t} :
             pc'[u] = pc[u] /\ mb'[u] = mb[u] /\ entry'[u] = entry[u]
    BY <1>5, <2>0 DEF NextUnrefLast, Finalise, Goto, Discarding, Dying
  <2>2. Queue!Destroy(from)
    BY <2>1, QueueDestroy
  <2> QED
    BY <2>2, Zenon DEF Queue!Next
<1>6. CASE DiscardToHook(t)
  BY <1>6, QueuePayBounce, Zenon DEF Queue!Next
<1>7. CASE DiscardUnhooked(t)
  BY <1>7, QueueDrop
<1>8. CASE DiscardDone(t, "idle")
  <2>1. qOwed' = qOwed
    <3>1. \A x \in Mailboxes : Due(t, x) = {} /\ Due(t, x)' = {}
      BY <1>8 DEF DiscardDone, Goto, Due, Discarding
    <3>2. \A u \in Threads \ {t}, x \in Mailboxes : Due(u, x)' = Due(u, x)
      BY <1>8, DueKept DEF DiscardDone, Goto
    <3> QED
      BY <3>1, <3>2, OwedKept
  <2> QED
    BY <1>8, <2>1, HookedKept, QueueStutter DEF DiscardDone
<1> QED
  BY <1>1, <1>2, <1>3, <1>4, <1>5, <1>6, <1>7, <1>8 DEF Continue

LEMMA QueueInit == Init => Queue!Init
<1> SUFFICES ASSUME Init PROVE Queue!Init
  OBVIOUS
<1>1. \A x \in Mailboxes : OwedTo(x) = {}
  BY DEF Init, OwedTo, Due, Discarding
<1>2. qOwed = [x \in Mailboxes |-> 0]
  BY <1>1, FS_EmptySet DEF qOwed
<1>3. qPhase = [m \in Mailboxes |-> "unborn"] /\ qQueue = [m \in Mailboxes |-> << >>]
  BY DEF Init, BoxInit, qPhase, Phase, qQueue
<1>4. qHooked = [m \in Mailboxes |-> FALSE]
  <2>1. \A m \in Mailboxes : (hook[m] = "discard_hook") = FALSE
    BY DEF Init, BoxInit
  <2> QED
    BY <2>1, Zenon DEF qHooked
<1> QED
  BY <1>2, <1>3, <1>4, Zenon DEF Queue!Init, qPhase, qHooked, qQueue, qOwed

LEMMA QueueStep ==
  ASSUME QueueInv, [Next]_vars
  PROVE  [Queue!Next]_(Queue!vars)
<1>1. ASSUME NEW m \in Mailboxes, ShortCall(m), UNCHANGED threadVars
      PROVE  Queue!Next \/ UNCHANGED Queue!vars
  BY <1>1, QueueShort
<1>2. ASSUME NEW t \in Threads, pc[t] = "idle", NEW m \in Mailboxes, LongCall(t, m)
      PROVE  Queue!Next \/ UNCHANGED Queue!vars
  BY <1>2, QueueLong
<1>3. ASSUME NEW t \in Threads, Continue(t, "idle")
      PROVE  Queue!Next \/ UNCHANGED Queue!vars
  BY <1>3, QueueContinue
<1>4. ASSUME UNCHANGED vars PROVE UNCHANGED Queue!vars
  <2>1. qOwed' = qOwed
    <3>1. UNCHANGED threadVars /\ hook' = hook
      BY <1>4 DEF vars, boxVars
    <3> QED
      BY <3>1, OwedShort
  <2> QED
    BY <1>4, <2>1, HookedKept, QueueStutter DEF vars, boxVars
<1> QED
  BY <1>1, <1>2, <1>3, <1>4, Zenon DEF Next

(* A mailbox is the queue its callers are promised, whatever they do and   *)
(* whatever malloc leaves in the hook: each entry leaves once and in order *)
(* of arrival, a mailbox that was shut down hands out nothing, and when it *)
(* is finalised each message in it is bounced to its sender exactly once,  *)
(* if the hook was set.                                                    *)
THEOREM ImplementsQueueHolds == Spec => ImplementsQueue
<1>1. QueueInv /\ [Next]_vars => [Queue!Next]_(Queue!vars)
  BY QueueStep
<1> QED
  BY <1>1, QueueInit, QueueInvInit, QueueInvStep, PTL
  DEF Spec, ImplementsQueue, Queue!Spec
=============================================================================
