------------------------------- MODULE Charla -------------------------------
(***************************************************************************)
(* The threads of the Charla server (hw5, server.c) on top of the mailbox  *)
(* module.  Every connected client has a service thread, which handles the *)
(* packets of that client one after the other; every login starts a        *)
(* mailbox service thread, which sends the entries of the client's mailbox *)
(* over the connection.                                                    *)
(*                                                                         *)
(* The n-th login of client c creates mailbox <<c, n>> and starts thread   *)
(* <<c, n>>; thread <<c, 0>> is the service thread of c.  Each client logs *)
(* in under a handle of its own, one login at a time; what client_login    *)
(* does with handles is module ClientLogin.  USERS requests and refused    *)
(* packets change no state and are left out.  The CLIENT mutex is not      *)
(* modelled: no thread asks for it while it holds a mailbox mutex, and     *)
(* what a thread does inside it commutes with what client_logout does      *)
(* inside it.  A failed write returns -1, as when SIGPIPE is ignored; its  *)
(* default action is in module ClientRegistry.                             *)
(*                                                                         *)
(* A step that would use freed memory or a NULL mailbox is undefined: the  *)
(* thread takes no further step, and the safety properties say whether     *)
(* such a step can be reached.                                             *)
(*                                                                         *)
(* Bounds: MaxLogins per client, each message of Traffic sent once.        *)
(***************************************************************************)
EXTENDS Naturals, Sequences, FiniteSetsExt

CONSTANTS
  Clients,
  MaxLogins,
  Traffic,      \* the messages clients may send: [id, from, to]
  LoggingOut,   \* clients that may send a LOGOUT packet
  HangingUp,    \* clients that may close their connection
  EarlyLeave,   \* those of them that may do so at any time, see MayLeave
  FreshHooks,   \* what malloc leaves in the hook field of a mailbox
  NoThread, NoMailbox

Threads   == Clients \X (0..MaxLogins)
Mailboxes == Clients \X (1..MaxLogins)
Service(c) == <<c, 0>>
MailboxThreads == Mailboxes

ASSUME TrafficOK ==
  /\ \A x \in Traffic : x.id # 0 /\ x.from \in Clients /\ x.to \in Clients
  /\ \A x, y \in Traffic : x.id = y.id => x = y
ASSUME LoginsOK == MaxLogins \in Nat
ASSUME NoMailboxOK == NoMailbox \notin Clients \X (1..MaxLogins)
ASSUME NoThreadOK == NoThread \notin Clients \X (0..MaxLogins)
ASSUME TrafficFinite == IsFiniteSet(Traffic)

VARIABLES
  life, status, hook, rc, box, store, lock, leaked,   \* module Mailbox
  pc, mb, entry, todo,                                \* module Mailbox
  cstat,    \* CLIENT.status
  cbox,     \* CLIENT.mailbox
  tid,      \* mailbox_tid: the latest mailbox thread, 0 when none
  logins,   \* logins so far
  leaving,  \* the service thread left its loop
  eof,      \* the connection was closed by the peer
  unsent,   \* Traffic still to be sent
  job,      \* the SEND packet a service thread is handling
  target,   \* the mailbox it looked up for it
  mine,     \* the local variable `mailbox' of a mailbox thread
  accepted, \* ids in the order in which mb_add_message queued them
  out       \* the MESG, RCVD and BOUNCE packets sent to each client

boxVars    == <<life, status, hook, rc, box, store, lock, leaked>>
callVars   == <<mb, entry, todo>>
clientVars == <<cstat, cbox, tid, logins, leaving, eof>>
sendVars   == <<unsent, job, target, accepted>>
vars == <<boxVars, pc, callVars, clientVars, sendVars, mine, out>>

M == INSTANCE Mailbox WITH
       MsgIds <- {x.id : x \in Traffic}, Kinds <- {"BOUNCE", "RRCPT"},
       MaxRefs <- 0, MaxEntries <- 0

Init ==
  /\ M!BoxInit /\ M!CallInit
  /\ pc = [t \in Threads |-> IF t[2] = 0 THEN "serve" ELSE "none"]
  /\ cstat   = [c \in Clients |-> "NO_USER"]
  /\ cbox    = [c \in Clients |-> NoMailbox]
  /\ tid     = [c \in Clients |-> 0]
  /\ logins  = [c \in Clients |-> 0]
  /\ leaving = [c \in Clients |-> FALSE]
  /\ eof     = [c \in Clients |-> FALSE]
  /\ unsent  = Traffic
  /\ job     = [c \in Clients |-> NoMailbox]
  /\ target  = [c \in Clients |-> NoMailbox]
  /\ mine    = [t \in MailboxThreads |-> NoMailbox]
  /\ accepted = << >>
  /\ out     = [c \in Clients |-> << >>]

Goto(t, label) == pc' = [pc EXCEPT ![t] = label]
At(c, label)   == pc[Service(c)] = label
Go(c, label)   == Goto(Service(c), label)
LoggedIn(c)    == cstat[c] = "LOGGED_IN"

(* The others leave only after they logged in and their mailbox thread has *)
(* set the hook: what is discarded before that is lost without a notice.   *)
Settled(c) ==
  /\ logins[c] > 0
  /\ pc[<<c, logins[c]>>] \notin {"none", "start", "field", "ref", "get", "hook"}
MayLeave(c) == c \in EarlyLeave \/ Settled(c)

-----------------------------------------------------------------------------
(* The peer closes its connection.  Packets that it sent before may be     *)
(* read after that, until the service thread sees the end of file.         *)
HangUp(c) ==
  /\ c \in HangingUp /\ MayLeave(c) /\ ~eof[c]
  /\ eof' = [eof EXCEPT ![c] = TRUE]
  /\ UNCHANGED <<boxVars, pc, callVars, cstat, cbox, tid, logins, leaving,
                 sendVars, mine, out>>

(* LOGIN, handled by client_login: the mailbox is created and becomes the  *)
(* client's; the ACK is sent.                                              *)
Login(c) ==
  LET n == logins[c] + 1 IN
  /\ At(c, "serve") /\ ~LoggedIn(c) /\ n <= MaxLogins
  /\ M!Create(<<c, n>>)
  /\ cstat' = [cstat EXCEPT ![c] = "LOGGED_IN"]
  /\ cbox' = [cbox EXCEPT ![c] = <<c, n>>]
  /\ logins' = [logins EXCEPT ![c] = n]
  /\ Go(c, "spawn")
  /\ UNCHANGED <<callVars, tid, leaving, eof, sendVars, mine, out>>

(* The pthread_create that follows; an earlier mailbox_tid is forgotten.   *)
Spawn(c) ==
  LET n == logins[c] IN
  /\ At(c, "spawn")
  /\ tid' = [tid EXCEPT ![c] = n]
  /\ pc' = [pc EXCEPT ![Service(c)] = "serve", ![<<c, n>>] = "start"]
  /\ UNCHANGED <<boxVars, callVars, cstat, cbox, logins, leaving, eof,
                 sendVars, mine, out>>

(* LOGOUT while logged in starts client_logout; otherwise it is refused.   *)
LogoutPacket(c) ==
  /\ c \in LoggingOut /\ MayLeave(c)
  /\ At(c, "serve") /\ LoggedIn(c)
  /\ Go(c, "shutdown")
  /\ UNCHANGED <<boxVars, callVars, clientVars, sendVars, mine, out>>

(* The end of the service loop also calls client_logout.                   *)
ReadEOF(c) ==
  /\ At(c, "serve") /\ eof[c]
  /\ leaving' = [leaving EXCEPT ![c] = TRUE]
  /\ Go(c, IF LoggedIn(c) THEN "shutdown" ELSE "join")
  /\ UNCHANGED <<boxVars, callVars, cstat, cbox, tid, logins, eof,
                 sendVars, mine, out>>

(* client_logout: mb_shutdown, mb_unref, and only then the fields.         *)
LogoutShutdown(c) ==
  /\ At(c, "shutdown")
  /\ M!Shutdown(cbox[c])
  /\ Go(c, "unref")
  /\ UNCHANGED <<callVars, clientVars, sendVars, mine, out>>

LogoutUnref(c) ==
  /\ At(c, "unref")
  /\ \/ M!UnrefSome(cbox[c]) /\ Go(c, "clear") /\ UNCHANGED callVars
     \/ M!UnrefLast(Service(c), cbox[c])
  /\ UNCHANGED <<clientVars, sendVars, mine, out>>

LogoutClear(c) ==
  /\ At(c, "clear")
  /\ cstat' = [cstat EXCEPT ![c] = "NO_USER"]
  /\ cbox' = [cbox EXCEPT ![c] = NoMailbox]
  /\ Go(c, IF leaving[c] THEN "join" ELSE "serve")
  /\ UNCHANGED <<boxVars, callVars, tid, logins, leaving, eof, sendVars,
                 mine, out>>

(* pthread_join of the latest mailbox thread, then client_unref and        *)
(* creg_unregister.                                                        *)
JoinMailboxThread(c) ==
  /\ At(c, "join")
  /\ tid[c] # 0 => pc[<<c, tid[c]>>] = "done"
  /\ Go(c, "gone")
  /\ UNCHANGED <<boxVars, callVars, clientVars, sendVars, mine, out>>

-----------------------------------------------------------------------------
(* SEND: scan the registered clients for one that is logged in under the   *)
(* receiver's handle.  The reference to that CLIENT is dropped in the scan *)
(* and none is taken on its mailbox.                                       *)
SendPacket(c) ==
  /\ At(c, "serve") /\ LoggedIn(c)
  /\ \E x \in unsent :
       /\ x.from = c
       /\ unsent' = unsent \ {x}
       /\ IF LoggedIn(x.to) /\ ~At(x.to, "gone")
            THEN Go(c, "lookup") /\ job' = [job EXCEPT ![c] = x]
            ELSE UNCHANGED <<pc, job>>                \* NACK
  /\ UNCHANGED <<boxVars, callVars, clientVars, target, accepted, mine, out>>

(* The references to a CLIENT: its service thread's, the registry's, and   *)
(* that of each mailbox thread from its client_ref on.                     *)
ClientFreed(c) ==
  /\ At(c, "gone")
  /\ \A n \in 1..MaxLogins : pc[<<c, n>>] \in {"none", "start", "done"}

(* client_get_mailbox(endpoint, 1): two unlocked reads of a CLIENT that    *)
(* this thread has no reference to any more.                               *)
SendLookup(c) ==
  LET r == job[c].to IN
  /\ At(c, "lookup") /\ ~ClientFreed(r)
  /\ target' = [target EXCEPT ![c] = IF LoggedIn(r) THEN cbox[r] ELSE NoMailbox]
  /\ Go(c, "add")
  /\ UNCHANGED <<boxVars, callVars, clientVars, unsent, job, accepted, mine, out>>

(* mb_add_message, then the ACK.                                           *)
SendToSelf(c) ==
  /\ At(c, "add") /\ target[c] = cbox[c]
  /\ M!AddOwnMessage(cbox[c], job[c].id)
  /\ accepted' = Append(accepted, job[c].id)
  /\ Go(c, "serve")
  /\ UNCHANGED <<callVars, clientVars, unsent, job, target, mine, out>>

SendLock(c) ==
  /\ At(c, "add") /\ target[c] # NoMailbox
  /\ M!AddMessageLock(Service(c), target[c], cbox[c], job[c].id)
  /\ UNCHANGED <<clientVars, sendVars, mine, out>>

SendEnqueue(c) ==
  /\ M!AddMessageRef(Service(c), "serve")
  /\ accepted' = Append(accepted, job[c].id)
  /\ UNCHANGED <<clientVars, unsent, job, target, mine, out>>

-----------------------------------------------------------------------------
(* A mailbox thread starts: client_ref and the unlocked status check of    *)
(* client_get_mailbox.  The creator took no reference on its behalf.       *)
ThreadStart(t) ==
  /\ pc[t] = "start" /\ ~ClientFreed(t[1])
  /\ Goto(t, IF LoggedIn(t[1]) THEN "field" ELSE "done")
  /\ UNCHANGED <<boxVars, callVars, clientVars, sendVars, mine, out>>

(* It reads the field; a logout since the check may have set it to NULL.   *)
ThreadField(t) ==
  /\ pc[t] = "field"
  /\ mine' = [mine EXCEPT ![t] = cbox[t[1]]]
  /\ Goto(t, "ref")
  /\ UNCHANGED <<boxVars, callVars, clientVars, sendVars, out>>

(* Mutant: as with no_ref, without mb_ref.                                 *)
ThreadRefNone(t) ==
  /\ pc[t] = "ref" /\ mine[t] # NoMailbox
  /\ Goto(t, "get")
  /\ UNCHANGED <<boxVars, callVars, clientVars, sendVars, mine, out>>

(* The rest of client_get_mailbox(client, 0): mb_ref of the mailbox, and   *)
(* then the field is read again for the value returned.                    *)
ThreadRef(t) ==
  /\ pc[t] = "ref" /\ mine[t] # NoMailbox
  /\ M!Ref(mine[t])
  /\ Goto(t, "get")
  /\ UNCHANGED <<callVars, clientVars, sendVars, mine, out>>

ThreadGet(t) ==
  LET m == cbox[t[1]] IN
  /\ pc[t] = "get"
  /\ mine' = [mine EXCEPT ![t] = m]
  /\ leaked' = IF m = mine[t] THEN leaked ELSE [leaked EXCEPT ![mine[t]] = @ + 1]
  /\ Goto(t, IF m = NoMailbox THEN "done" ELSE "hook")
  /\ UNCHANGED <<life, status, hook, rc, box, store, lock, callVars,
                 clientVars, sendVars, out>>

(* Mutant: no hook is set.                                                 *)
ThreadHookNone(t) ==
  /\ pc[t] = "hook"
  /\ Goto(t, "loop")
  /\ UNCHANGED <<boxVars, callVars, clientVars, sendVars, mine, out>>

(* mb_set_discard_hook, and the loop of mb_next_entry.                     *)
ThreadHook(t) ==
  /\ pc[t] = "hook"
  /\ M!SetDiscardHook(mine[t])
  /\ Goto(t, "loop")
  /\ UNCHANGED <<callVars, clientVars, sendVars, mine, out>>

ThreadWait(t) ==
  /\ pc[t] = "loop"
  /\ M!SemWait(t, mine[t])
  /\ UNCHANGED <<clientVars, sendVars, mine, out>>

ThreadNext(t) ==
  /\ \/ M!NextDefunct(t, "quit")
     \/ M!NextRemove(t, "got")
     \/ M!NextUnrefSome(t, "got")
     \/ M!NextUnrefLast(t)
  /\ UNCHANGED <<clientVars, sendVars, mine, out>>

Packet(e) ==
  IF M!IsMessage(e) THEN [type |-> "MESG", id |-> e.id]
  ELSE [type |-> IF e.kind = "RRCPT" THEN "RCVD" ELSE "BOUNCE", id |-> e.id]

(* Mutant: the result of client_send_packet is not looked at.              *)
ThreadSendUnchecked(t) ==
  LET c == t[1]  e == entry[t] IN
  /\ pc[t] = "got"
  /\ out' = [out EXCEPT ![c] = IF eof[c] THEN @ ELSE Append(@, Packet(e))]
  /\ Goto(t, IF M!IsMessage(e) THEN "rrcpt" ELSE "loop")
  /\ UNCHANGED <<boxVars, callVars, clientVars, sendVars, mine>>

(* client_send_packet of the entry: it succeeds, or fails once the peer is *)
(* gone.  What happened to a message decides the notice to its sender.     *)
ThreadSend(t) ==
  LET c == t[1]  e == entry[t] IN
  /\ pc[t] = "got"
  /\ \/ /\ out' = [out EXCEPT ![c] = Append(@, Packet(e))]
        /\ Goto(t, IF M!IsMessage(e) THEN "rrcpt" ELSE "loop")
     \/ /\ eof[c] /\ UNCHANGED out
        /\ Goto(t, IF M!IsMessage(e) THEN "bounce" ELSE "loop")
  /\ UNCHANGED <<boxVars, callVars, clientVars, sendVars, mine>>

(* mb_add_notice(from): the reference to from was dropped by mb_next_entry.*)
ThreadNotify(t) ==
  /\ \/ pc[t] = "rrcpt"  /\ M!AddNotice(entry[t].from, "RRCPT", entry[t].id)
     \/ pc[t] = "bounce" /\ M!AddNotice(entry[t].from, "BOUNCE", entry[t].id)
  /\ Goto(t, "loop")
  /\ UNCHANGED <<callVars, clientVars, sendVars, mine, out>>

(* The final mb_unref and client_unref.                                    *)
ThreadQuit(t) ==
  /\ pc[t] = "quit"
  /\ \/ M!UnrefSome(mine[t]) /\ Goto(t, "done") /\ UNCHANGED callVars
     \/ M!UnrefLast(t, mine[t])
  /\ UNCHANGED <<clientVars, sendVars, mine, out>>

(* The discarding loop of mb_unref, wherever it was called from.           *)
AfterDiscard(t) ==
  CASE t[2] = 0 -> "clear"
    [] pc[t] = "next_discard" -> "got"
    [] OTHER -> "done"

Discard(t) ==
  /\ M!DiscardToHook(t) \/ M!DiscardUnhooked(t) \/ M!DiscardDone(t, AfterDiscard(t))
  /\ UNCHANGED <<clientVars, sendVars, mine, out>>

-----------------------------------------------------------------------------
(* What clients choose to do, and what threads do on their own.            *)
Request(c) ==
  HangUp(c) \/ Login(c) \/ LogoutPacket(c) \/ SendPacket(c)

ServiceStep(c) ==
  \/ Spawn(c) \/ ReadEOF(c)
  \/ LogoutShutdown(c) \/ LogoutUnref(c) \/ LogoutClear(c)
  \/ JoinMailboxThread(c)
  \/ SendLookup(c) \/ SendToSelf(c) \/ SendLock(c) \/ SendEnqueue(c)
  \/ Discard(Service(c))

MailboxStep(t) ==
  \/ ThreadStart(t) \/ ThreadField(t) \/ ThreadRef(t) \/ ThreadGet(t)
  \/ ThreadHook(t) \/ ThreadWait(t) \/ ThreadNext(t) \/ ThreadSend(t)
  \/ ThreadNotify(t) \/ ThreadQuit(t) \/ Discard(t)

Next ==
  \/ \E c \in Clients : Request(c) \/ ServiceStep(c)
  \/ \E t \in MailboxThreads : MailboxStep(t)

(* Threads are preemptively scheduled: a thread that can go on does.       *)
Fairness ==
  /\ \A c \in Clients : WF_vars(ServiceStep(c))
  /\ \A t \in MailboxThreads : WF_vars(MailboxStep(t))

Spec == Init /\ [][Next]_vars /\ Fairness
-----------------------------------------------------------------------------
Ids == {x.id : x \in Traffic}

ServiceLabels == {"serve", "spawn", "shutdown", "unref", "discard", "clear",
                  "join", "gone", "lookup", "add", "add_ref"}
ThreadLabels  == {"none", "start", "field", "ref", "get", "hook", "loop",
                  "next_lock", "next_unref", "next_discard", "got", "rrcpt",
                  "bounce", "quit", "discard", "done"}

(* Types; a client's mailbox is the one of its latest login exactly while  *)
(* its status says that it is logged in (client_login, client_logout).     *)
TypeOK ==
  /\ life \in [Mailboxes -> {"unborn", "live", "freed"}]
  /\ rc \in [Mailboxes -> Nat] /\ store \in [Mailboxes -> Nat]
  /\ lock \in [Mailboxes -> Threads \cup {NoThread}]
  /\ \A t \in Threads :
       pc[t] \in IF t[2] = 0 THEN ServiceLabels ELSE ThreadLabels
  /\ mine \in [MailboxThreads -> Mailboxes \cup {NoMailbox}]
  /\ \A c \in Clients : cbox[c] = IF LoggedIn(c) THEN <<c, logins[c]>>
                                                 ELSE NoMailbox
  /\ tid \in [Clients -> 0..MaxLogins] /\ logins \in [Clients -> 0..MaxLogins]

(* mailbox.c: the semaphore of an active mailbox counts its entries, with  *)
(* every consumer and producer the server has (see module Mailbox).        *)
SemAccounting == M!SemAccounting

(* mailbox.h, mb_ref: the count always matches the pointers to a mailbox:  *)
(* the client field until client_logout drops it, a mailbox thread's local *)
(* variable, each queued message whose sender it is, in a live mailbox or  *)
(* one being discarded, and the message mb_next_entry has in hand; plus    *)
(* what mb_unref and client_get_mailbox leaked.                            *)
Holding == {"get", "hook", "loop", "next_lock", "next_unref", "next_discard",
            "got", "rrcpt", "bounce", "quit"}
MessagesFrom(m, owner, s) ==
  Cardinality({i \in DOMAIN s : M!HoldsRef(owner, s[i]) /\ s[i].from = m})

Pointers(m) ==
  Cardinality({c \in Clients : cbox[c] = m
                 /\ pc[Service(c)] \notin {"discard", "clear"}})
  + Cardinality({t \in MailboxThreads : mine[t] = m /\ pc[t] \in Holding})
  + MapThenSumSet(LAMBDA x : IF life[x] = "live" THEN MessagesFrom(m, x, box[x])
                                                ELSE 0, Mailboxes)
  + MapThenSumSet(LAMBDA t : IF M!Discarding(t)
                               THEN MessagesFrom(m, M!Dying(t), todo[t])
                               ELSE 0, Threads)
  + Cardinality({t \in Threads : pc[t] = "next_unref" /\ entry[t].from = m})

RefCountExact ==
  \A m \in Mailboxes : life[m] # "unborn" => rc[m] = Pointers(m) + leaked[m]

Sent(c, type, id) ==
  Cardinality({i \in DOMAIN out[c] : out[c][i] = [type |-> type, id |-> id]})

(* protocol.h: a message reaches its receiver at most once, and its sender *)
(* gets at most one notice about it: RCVD only after the MESG packet was   *)
(* sent to the receiver, BOUNCE only if it was not and never will be.      *)
NoticesTruthful ==
  \A x \in Traffic :
    LET mesg == Sent(x.to, "MESG", x.id)
        rcvd == Sent(x.from, "RCVD", x.id)
        bounce == Sent(x.from, "BOUNCE", x.id)
    IN mesg <= 1 /\ rcvd <= mesg /\ bounce + mesg <= 1

(* mailbox.h, mb_next_entry: messages of one sender arrive in the order in *)
(* which they were accepted.                                               *)
SenderOrder ==
  \A x, y \in Traffic :
    x.from = y.from /\ x.to = y.to /\ Sent(x.to, "MESG", x.id) = 1
      /\ Sent(x.to, "MESG", y.id) = 1 =>
    LET At2(s, e) == CHOOSE i \in DOMAIN s : s[i] = e
        Mesg(id) == [type |-> "MESG", id |-> id]
    IN At2(accepted, x.id) < At2(accepted, y.id)
         => At2(out[x.to], Mesg(x.id)) < At2(out[x.to], Mesg(y.id))

(* README: the functions are thread-safe.  No set of threads waits in a    *)
(* circle for each other's mailbox mutexes.                                *)
NoLockCycle == M!NoLockCycle

(* mailbox.h: the mailbox a message refers to is not deallocated as long   *)
(* as the message exists, so that a notice can be sent back to it.         *)
SenderAlive ==
  \A t \in Threads : pc[t] \in {"rrcpt", "bounce"} => life[entry[t].from] = "live"

(* The mailboxes that the next step of t reads or writes.                  *)
Uses(t) ==
  CASE pc[t] \in {"ref", "hook", "loop", "quit"} -> {mine[t]}
    [] pc[t] = "next_lock" -> {mb[t]}
    [] pc[t] \in {"next_unref", "rrcpt", "bounce"} -> {entry[t].from}
    [] pc[t] = "add_ref" -> {mb[t], entry[t].from}
    [] pc[t] = "add" -> {target[t[1]], cbox[t[1]]}
    [] pc[t] \in {"shutdown", "unref"} -> {cbox[t[1]]}
    [] M!Hooked(t) -> {Head(todo[t]).from}
    [] OTHER -> {}

(* mailbox.h, client.h: no thread goes on with a mailbox or a CLIENT that  *)
(* was freed, with a NULL mailbox or through a hook that was never set.    *)
Usable(m) == m # NoMailbox /\ life[m] = "live"
NoUndefinedUse ==
  /\ \A t \in Threads : \A m \in Uses(t) : Usable(m)
  /\ \A t \in MailboxThreads : pc[t] = "start" => ~ClientFreed(t[1])
  /\ \A c \in Clients : At(c, "lookup") => ~ClientFreed(job[c].to)
  /\ \A t \in Threads : M!Hooked(t) => hook[M!Dying(t)] = "discard_hook"

(* Three places use the mailbox of a client, their lender, with no         *)
(* reference of their own: a SEND after it looked the receiver up, the     *)
(* mb_ref of a starting mailbox thread, and the notice to the sender of a  *)
(* message that mb_next_entry has returned.                                *)
Lender(t, m) ==
  CASE pc[t] = "add" /\ m = target[t[1]] -> {job[t[1]].to}
    [] pc[t] = "ref" -> {t[1]}
    [] pc[t] \in {"rrcpt", "bounce"} -> {m[1]}
    [] OTHER -> {}

(* client_logout has dropped the client's own reference to its mailbox.    *)
LoggedOut(c) ==
  logins[c] > 0 /\ (LoggedIn(c) => pc[Service(c)] \in {"discard", "clear"})

(* mailbox.h, client.h: the reference counts protect everything else.  If  *)
(* each client logs in once, a thread gets to a mailbox that is freed or   *)
(* NULL only there, and only when the lender has logged out; no thread     *)
(* starts on a CLIENT that was freed; and entries are discarded through a  *)
(* hook that was never set only if the mailbox thread had not come to it.  *)
OnlyLogoutRaces ==
  /\ \A t \in Threads : \A m \in Uses(t) :
       Usable(m) \/ \E c \in Lender(t, m) : LoggedOut(c)
  /\ \A t \in MailboxThreads : pc[t] = "start" => ~ClientFreed(t[1])
  /\ \A t \in Threads :
       M!Hooked(t) /\ mine[M!Dying(t)] # NoMailbox /\ pc[M!Dying(t)] # "ref"
         => hook[M!Dying(t)] = "discard_hook"

(* README: when a connection is closed, the service thread waits for the   *)
(* mailbox thread and terminates.                                          *)
ServiceTerminates ==
  \A c \in Clients : []<>(eof[c] => At(c, "gone") \/ ~NoUndefinedUse)

(* README: a message that is not delivered is bounced, once the receiver's *)
(* mailbox thread has set the hook.  Every accepted message is eventually  *)
(* answered while its sender is logged in: by a receipt or a bounce with   *)
(* its id or, if it was discarded, by a bounce of its own with id 0.       *)
AcceptedFrom(c) ==
  {x \in Traffic : x.from = c /\ \E i \in DOMAIN accepted : accepted[i] = x.id}
Unanswered(c) ==
  {x \in AcceptedFrom(c) : Sent(c, "RCVD", x.id) + Sent(c, "BOUNCE", x.id) = 0}

EveryMessageAnswered ==
  \A c \in {x.from : x \in Traffic} :
    []<>(\/ Sent(c, "BOUNCE", M!NoMsgId) = Cardinality(Unanswered(c))
         \/ ~LoggedIn(c) \/ ~NoUndefinedUse)

(* mailbox.h, protocol.h: a notice carries the id of the message that it   *)
(* is about, so that the client can tell which one was not delivered.      *)
NoticesNamed ==
  \A c \in Clients : \A i \in DOMAIN out[c] :
    out[c][i].type # "MESG" => \E x \in Traffic : x.from = c /\ x.id = out[c][i].id
=============================================================================
