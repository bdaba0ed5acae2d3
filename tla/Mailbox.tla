------------------------------ MODULE Mailbox ------------------------------
(***************************************************************************)
(* The mailboxes of hw5 (mailbox.c): reference-counted queues of messages  *)
(* and notices, each with a mutex, a semaphore that counts entries and a   *)
(* discard hook.                                                           *)
(*                                                                         *)
(* Grain of atomicity.  A step runs from one acquisition that can block (a *)
(* mailbox mutex, the semaphore) to the next.  Three calls hold one mutex  *)
(* while they wait for another, and are split there: mb_add_message locks  *)
(* the receiver and then the sender; mb_next_entry locks the mailbox and   *)
(* then the sender; the discard hook, run by mb_unref on the last          *)
(* reference, locks every sender in turn.  mb_next_entry is also split     *)
(* between its sem_wait and its lock.                                      *)
(*                                                                         *)
(* Next is the most general client of the module: any thread makes any     *)
(* call on any allocated mailbox, whatever references it has.  A call on a *)
(* mailbox that was freed is undefined, and the thread takes no step.      *)
(* Bounds: each mailbox address is allocated once and shut down once, and  *)
(* MaxRefs and MaxEntries cap what callers make one mailbox collect.       *)
(***************************************************************************)
EXTENDS Naturals, Sequences, FiniteSets

CONSTANTS Threads, Mailboxes, MsgIds, NoThread, NoMailbox,
          Kinds,        \* the notice types in use
          FreshHooks,   \* what malloc may leave in the hook field, see Hooks
          MaxRefs, MaxEntries

Hooks == {"null", "wild", "discard_hook"}
NoMsgId == 0

ASSUME ThreadsFinite   == IsFiniteSet(Threads) /\ NoThread \notin Threads
ASSUME MailboxesFresh  == NoMailbox \notin Mailboxes
ASSUME FreshHooksOK    == FreshHooks \subseteq {"null", "wild"}
ASSUME KindsOK         == "BOUNCE" \in Kinds
ASSUME MsgIdsOK        == NoMsgId \notin MsgIds

Message == [type : {"message"}, id : MsgIds, from : Mailboxes]
Notice  == [type : {"notice"}, id : MsgIds \cup {NoMsgId}, kind : Kinds]
Entry   == Message \cup Notice
NULL    == [type |-> "null"]

VARIABLES
  life,     \* "unborn", "live" or "freed"
  status,   \* MAILBOX.status
  hook,     \* MAILBOX.hook
  rc,       \* MAILBOX.referenceCount
  box,      \* the circular list, from box->next on
  store,    \* the value of the semaphore
  lock,     \* who holds MAILBOX.mutex
  leaked,   \* messages discarded without mb_unref on their sender
  pc, mb,   \* the call a thread is in, and the mailbox it is about
  entry,    \* the message being added, or the entry mb_next_entry removed
  todo      \* the entries mb_unref still has to discard

boxVars    == <<life, status, hook, rc, box, store, lock, leaked>>
threadVars == <<pc, mb, entry, todo>>
vars       == <<boxVars, threadVars>>

BoxInit ==
  /\ life   = [m \in Mailboxes |-> "unborn"]
  /\ status = [m \in Mailboxes |-> "ACTIVE"]
  /\ hook   = [m \in Mailboxes |-> "null"]
  /\ rc     = [m \in Mailboxes |-> 0]
  /\ box    = [m \in Mailboxes |-> << >>]
  /\ store  = [m \in Mailboxes |-> 0]
  /\ lock   = [m \in Mailboxes |-> NoThread]
  /\ leaked = [m \in Mailboxes |-> 0]

CallInit ==
  /\ mb    = [t \in Threads |-> NoMailbox]
  /\ entry = [t \in Threads |-> NULL]
  /\ todo  = [t \in Threads |-> << >>]

Init == BoxInit /\ CallInit /\ pc = [t \in Threads |-> "idle"]

-----------------------------------------------------------------------------
Unlocked(m)   == life[m] = "live" /\ lock[m] = NoThread
Room(m)       == Len(box[m]) < MaxEntries
IsMessage(e)  == e.type = "message"
(* A message holds a reference to its sender unless that is m itself.      *)
HoldsRef(m, e) == IsMessage(e) /\ e.from # m

(* Mutant: the entry is queued before the others.                          *)
EnqueueAtHead(m, e) ==
  /\ box'   = [box EXCEPT ![m] = <<e>> \o @]
  /\ store' = [store EXCEPT ![m] = @ + 1]

(* Mutant: no sem_post.                                                    *)
EnqueueSilent(m, e) ==
  /\ box' = [box EXCEPT ![m] = Append(@, e)]
  /\ UNCHANGED store

(* Append an entry and sem_post: the end of mb_add_message, mb_add_notice. *)
Enqueue(m, e) ==
  /\ box'   = [box EXCEPT ![m] = Append(@, e)]
  /\ store' = [store EXCEPT ![m] = @ + 1]

Goto(t, label) == pc' = [pc EXCEPT ![t] = label]

-----------------------------------------------------------------------------
(* mb_init.  The hook field is not assigned: it is what malloc left there. *)
Create(m) ==
  /\ life[m] = "unborn"
  /\ life' = [life EXCEPT ![m] = "live"]
  /\ rc' = [rc EXCEPT ![m] = 1]
  /\ \E h \in FreshHooks : hook' = [hook EXCEPT ![m] = h]
  /\ UNCHANGED <<status, box, store, lock, leaked>>

SetDiscardHook(m) ==
  /\ Unlocked(m)
  /\ hook' = [hook EXCEPT ![m] = "discard_hook"]
  /\ UNCHANGED <<life, status, rc, box, store, lock, leaked>>

Ref(m) ==
  /\ Unlocked(m)
  /\ rc' = [rc EXCEPT ![m] = @ + 1]
  /\ UNCHANGED <<life, status, hook, box, store, lock, leaked>>

(* Mutant: no sem_post.                                                    *)
ShutdownSilent(m) ==
  /\ Unlocked(m)
  /\ status' = [status EXCEPT ![m] = "DEFUNCT"]
  /\ UNCHANGED <<life, hook, rc, box, store, lock, leaked>>

(* mb_shutdown: the extra sem_post is there to wake the service thread.    *)
Shutdown(m) ==
  /\ Unlocked(m)
  /\ status' = [status EXCEPT ![m] = "DEFUNCT"]
  /\ store' = [store EXCEPT ![m] = @ + 1]
  /\ UNCHANGED <<life, hook, rc, box, lock, leaked>>

(* mb_add_notice; neither it nor mb_add_message looks at the status.       *)
AddNotice(m, kind, id) ==
  /\ Unlocked(m)
  /\ Enqueue(m, [type |-> "notice", id |-> id, kind |-> kind])
  /\ UNCHANGED <<life, status, hook, rc, lock, leaked>>

(* mb_add_message to oneself takes no reference and no second mutex.       *)
AddOwnMessage(m, id) ==
  /\ Unlocked(m)
  /\ Enqueue(m, [type |-> "message", id |-> id, from |-> m])
  /\ UNCHANGED <<life, status, hook, rc, lock, leaked>>

(* mb_add_message, lines 149-158: lock the receiver, make the entry.       *)
AddMessageLock(t, m, from, id) ==
  /\ Unlocked(m) /\ m # from
  /\ lock' = [lock EXCEPT ![m] = t]
  /\ mb' = [mb EXCEPT ![t] = m]
  /\ entry' = [entry EXCEPT ![t] = [type |-> "message", id |-> id, from |-> from]]
  /\ Goto(t, "add_ref")
  /\ UNCHANGED <<life, status, hook, rc, box, store, leaked, todo>>

(* Mutant: no mb_ref of the sender.                                        *)
AddMessageRefNone(t, label) ==
  LET m == mb[t]  e == entry[t] IN
  /\ pc[t] = "add_ref"
  /\ Enqueue(m, e)
  /\ lock' = [lock EXCEPT ![m] = NoThread]
  /\ entry' = [entry EXCEPT ![t] = NULL]
  /\ mb' = [mb EXCEPT ![t] = NoMailbox]
  /\ Goto(t, label)
  /\ UNCHANGED <<life, status, hook, rc, leaked, todo>>

(* mb_add_message, lines 159-167: mb_ref(from), enqueue, unlock.           *)
AddMessageRef(t, label) ==
  LET m == mb[t]  e == entry[t] IN
  /\ pc[t] = "add_ref"
  /\ Unlocked(e.from)
  /\ rc' = [rc EXCEPT ![e.from] = @ + 1]
  /\ Enqueue(m, e)
  /\ lock' = [lock EXCEPT ![m] = NoThread]
  /\ entry' = [entry EXCEPT ![t] = NULL]
  /\ mb' = [mb EXCEPT ![t] = NoMailbox]
  /\ Goto(t, label)
  /\ UNCHANGED <<life, status, hook, leaked, todo>>

-----------------------------------------------------------------------------
(* mb_unref with other references left.                                    *)
UnrefSome(m) ==
  /\ Unlocked(m) /\ rc[m] > 1
  /\ rc' = [rc EXCEPT ![m] = @ - 1]
  /\ UNCHANGED <<life, status, hook, box, store, lock, leaked>>

(* mb_unref of the last reference: the mailbox and its mutex go, its       *)
(* entries wait in todo for the discarding loop.                           *)
Finalise(t, m) ==
  /\ Unlocked(m) /\ rc[m] = 1
  /\ rc' = [rc EXCEPT ![m] = 0]
  /\ life' = [life EXCEPT ![m] = "freed"]
  /\ todo' = [todo EXCEPT ![t] = box[m]]

(* mb_unref as a call of its own.                                          *)
UnrefLast(t, m) ==
  /\ Finalise(t, m)
  /\ mb' = [mb EXCEPT ![t] = m]
  /\ Goto(t, "discard")
  /\ UNCHANGED <<status, hook, box, store, lock, leaked, entry>>

(* mb_next_entry, line 189: the semaphore is taken without the mutex.      *)
SemWait(t, m) ==
  /\ life[m] = "live" /\ store[m] > 0
  /\ store' = [store EXCEPT ![m] = @ - 1]
  /\ mb' = [mb EXCEPT ![t] = m]
  /\ entry' = [entry EXCEPT ![t] = NULL]
  /\ Goto(t, "next_lock")
  /\ UNCHANGED <<life, status, hook, rc, box, lock, leaked, todo>>

(* mb_next_entry on a defunct mailbox returns NULL and removes nothing.    *)
NextDefunct(t, label) ==
  LET m == mb[t] IN
  /\ pc[t] = "next_lock"
  /\ Unlocked(m) /\ status[m] = "DEFUNCT"
  /\ mb' = [mb EXCEPT ![t] = NoMailbox]
  /\ Goto(t, label)
  /\ UNCHANGED <<boxVars, entry, todo>>

(* Mutant: the head is returned but not unlinked.                          *)
NextRemoveKeep(t, label) ==
  LET m == mb[t]  e == Head(box[m]) IN
  /\ pc[t] = "next_lock"
  /\ Unlocked(m) /\ status[m] = "ACTIVE" /\ box[m] # << >>
  /\ entry' = [entry EXCEPT ![t] = e]
  /\ \/ /\ HoldsRef(m, e)
        /\ lock' = [lock EXCEPT ![m] = t]
        /\ Goto(t, "next_unref")
        /\ UNCHANGED mb
     \/ /\ ~HoldsRef(m, e)
        /\ mb' = [mb EXCEPT ![t] = NoMailbox]
        /\ Goto(t, label)
        /\ UNCHANGED lock
  /\ UNCHANGED <<life, status, hook, rc, box, store, leaked, todo>>

(* mb_next_entry, lines 192-196: unlink the head.  A message of another    *)
(* mailbox is kept in hand, with the mutex held, for mb_unref(from).       *)
NextRemove(t, label) ==
  LET m == mb[t]  e == Head(box[m]) IN
  /\ pc[t] = "next_lock"
  /\ Unlocked(m) /\ status[m] = "ACTIVE" /\ box[m] # << >>
  /\ box' = [box EXCEPT ![m] = Tail(@)]
  /\ entry' = [entry EXCEPT ![t] = e]
  /\ \/ /\ HoldsRef(m, e)
        /\ lock' = [lock EXCEPT ![m] = t]
        /\ Goto(t, "next_unref")
        /\ UNCHANGED mb
     \/ /\ ~HoldsRef(m, e)
        /\ mb' = [mb EXCEPT ![t] = NoMailbox]
        /\ Goto(t, label)
        /\ UNCHANGED lock
  /\ UNCHANGED <<life, status, hook, rc, store, leaked, todo>>

(* Mutant: the mutex is not unlocked.                                      *)
NextUnrefSomeLocked(t, label) ==
  LET from == entry[t].from IN
  /\ pc[t] = "next_unref"
  /\ Unlocked(from) /\ rc[from] > 1
  /\ rc' = [rc EXCEPT ![from] = @ - 1]
  /\ mb' = [mb EXCEPT ![t] = NoMailbox]
  /\ Goto(t, label)
  /\ UNCHANGED <<life, status, hook, box, store, lock, leaked, entry, todo>>

(* mb_next_entry, lines 197-202: mb_unref(from), unlock, return the entry. *)
NextUnrefSome(t, label) ==
  LET m == mb[t]  from == entry[t].from IN
  /\ pc[t] = "next_unref"
  /\ Unlocked(from) /\ rc[from] > 1
  /\ rc' = [rc EXCEPT ![from] = @ - 1]
  /\ lock' = [lock EXCEPT ![m] = NoThread]
  /\ mb' = [mb EXCEPT ![t] = NoMailbox]
  /\ Goto(t, label)
  /\ UNCHANGED <<life, status, hook, box, store, leaked, entry, todo>>

(* The same, but the message held the last reference: the sender's mailbox *)
(* is finalised with the mutex of m still held.                            *)
NextUnrefLast(t) ==
  /\ pc[t] = "next_unref"
  /\ Finalise(t, entry[t].from)
  /\ Goto(t, "next_discard")
  /\ UNCHANGED <<status, hook, box, store, lock, leaked, mb, entry>>

-----------------------------------------------------------------------------
(* mb_unref, lines 116-126: one entry of the dying mailbox.  A message of  *)
(* another mailbox goes to the hook, which adds a BOUNCE notice with msgid *)
(* 0 to its sender; no mb_unref is called on that sender.                  *)
Dying(t)      == IF pc[t] = "next_discard" THEN entry[t].from ELSE mb[t]
Discarding(t) == pc[t] \in {"discard", "next_discard"}
Hooked(t)     == /\ Discarding(t) /\ todo[t] # << >>
                 /\ hook[Dying(t)] # "null" /\ HoldsRef(Dying(t), Head(todo[t]))

DiscardToHook(t) ==
  LET from == Head(todo[t]).from IN
  /\ Hooked(t) /\ hook[Dying(t)] = "discard_hook"
  /\ Unlocked(from)
  /\ Enqueue(from, [type |-> "notice", id |-> NoMsgId, kind |-> "BOUNCE"])
  /\ leaked' = [leaked EXCEPT ![from] = @ + 1]
  /\ todo' = [todo EXCEPT ![t] = Tail(@)]
  /\ UNCHANGED <<life, status, hook, rc, lock, pc, mb, entry>>

DiscardUnhooked(t) ==
  LET e == Head(todo[t]) IN
  /\ Discarding(t) /\ todo[t] # << >> /\ ~Hooked(t)
  /\ leaked' = IF HoldsRef(Dying(t), e) THEN [leaked EXCEPT ![e.from] = @ + 1]
                                        ELSE leaked
  /\ todo' = [todo EXCEPT ![t] = Tail(@)]
  /\ UNCHANGED <<life, status, hook, rc, box, store, lock, pc, mb, entry>>

(* The end of mb_unref, and of the mb_next_entry that called it.           *)
DiscardDone(t, label) ==
  /\ Discarding(t) /\ todo[t] = << >>
  /\ lock' = IF pc[t] = "next_discard" THEN [lock EXCEPT ![mb[t]] = NoThread]
                                       ELSE lock
  /\ mb' = [mb EXCEPT ![t] = NoMailbox]
  /\ Goto(t, label)
  /\ UNCHANGED <<life, status, hook, rc, box, store, leaked, entry, todo>>

-----------------------------------------------------------------------------
(* Calls that are one step and leave the thread where it was.              *)
ShortCall(m) ==
  \/ Create(m)
  \/ SetDiscardHook(m)
  \/ rc[m] < MaxRefs /\ Ref(m)
  \/ status[m] = "ACTIVE" /\ Shutdown(m)
  \/ UnrefSome(m)
  \/ Room(m) /\ \E id \in MsgIds :
       \/ AddOwnMessage(m, id)
       \/ \E kind \in Kinds : AddNotice(m, kind, id)

(* Calls that take several steps, from their first one.                    *)
LongCall(t, m) ==
  \/ Room(m) /\ \E from \in Mailboxes, id \in MsgIds :
       rc[from] < MaxRefs /\ life[from] = "live" /\ AddMessageLock(t, m, from, id)
  \/ UnrefLast(t, m)
  \/ SemWait(t, m)

(* The steps a thread takes on its way out of a call, to `label'.          *)
Continue(t, label) ==
  \/ AddMessageRef(t, label)
  \/ NextDefunct(t, label)
  \/ NextRemove(t, label)
  \/ NextUnrefSome(t, label)
  \/ NextUnrefLast(t)
  \/ DiscardToHook(t)
  \/ DiscardUnhooked(t)
  \/ DiscardDone(t, label)

Next ==
  \E t \in Threads :
    \/ pc[t] = "idle" /\ \E m \in Mailboxes :
         \/ ShortCall(m) /\ UNCHANGED threadVars
         \/ LongCall(t, m)
    \/ Continue(t, "idle")

Spec == Init /\ [][Next]_vars

-----------------------------------------------------------------------------
Labels == {"idle", "add_ref", "next_lock", "next_unref", "discard",
           "next_discard"}

TypeOK ==
  /\ life \in [Mailboxes -> {"unborn", "live", "freed"}]
  /\ status \in [Mailboxes -> {"ACTIVE", "DEFUNCT"}]
  /\ hook \in [Mailboxes -> Hooks]
  /\ rc \in [Mailboxes -> Nat]
  /\ box \in [Mailboxes -> Seq(Entry)]
  /\ store \in [Mailboxes -> Nat]
  /\ lock \in [Mailboxes -> Threads \cup {NoThread}]
  /\ leaked \in [Mailboxes -> Nat]
  /\ pc \in [Threads -> Labels]
  /\ mb \in [Threads -> Mailboxes \cup {NoMailbox}]
  /\ entry \in [Threads -> Entry \cup {NULL}]
  /\ todo \in [Threads -> Seq(Entry)]

(* Threads past the sem_wait of mb_next_entry(m) and not yet in its lock.  *)
Past(m) == {t \in Threads : pc[t] = "next_lock" /\ mb[t] = m}

(* The semaphore counts the entries: in an active mailbox every entry is   *)
(* matched by a unit of the semaphore or by a consumer that already took   *)
(* one.  So a consumer that gets the mutex of an active mailbox always     *)
(* finds an entry (mb_next_entry, line 192, does not check), however many  *)
(* consumers, producers and hooks work on it.                              *)
SemAccounting ==
  \A m \in Mailboxes :
    life[m] = "live" /\ status[m] = "ACTIVE"
      => Len(box[m]) = store[m] + Cardinality(Past(m))

(* The mutex of m is held exactly by the thread that is in a nested call   *)
(* on behalf of m; nobody returns with it or loses it to another.          *)
HoldsLock(t, m) ==
  pc[t] \in {"add_ref", "next_unref", "next_discard"} /\ mb[t] = m

LockDiscipline ==
  \A m \in Mailboxes, t \in Threads :
    HoldsLock(t, m) <=> lock[m] = t

(* The mutexes a thread that holds one is waiting for.                     *)
Wants(t) ==
  CASE pc[t] \in {"add_ref", "next_unref"} -> {entry[t].from}
    [] Hooked(t) -> {Head(todo[t]).from}
    [] pc[t] = "next_lock" -> {mb[t]}
    [] OTHER -> {}

(* client.h, README: the functions are thread-safe.  No set of threads     *)
(* waits in a circle for each other's mailbox mutexes.                     *)
NoLockCycle ==
  ~\E S \in SUBSET Threads \ {{}} :
      \A t \in S : \E m \in Wants(t) : lock[m] \in S
=============================================================================
