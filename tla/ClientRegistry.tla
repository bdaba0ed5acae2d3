--------------------------- MODULE ClientRegistry ---------------------------
(***************************************************************************)
(* The client registry of hw5 (client_registry.c), the reference counts of *)
(* CLIENT objects (client.c), and the end of the server (main.c).          *)
(*                                                                         *)
(* Connection c has one service thread, called c too, and at most one      *)
(* CLIENT object, called c again.  A request is a packet, looked at from   *)
(* here: LOGIN, USERS and SEND go through the list of all clients, LOGOUT  *)
(* does not, and each ends with an ACK or NACK written under the CLIENT    *)
(* mutex.  The mutexes of this module are held over several steps where    *)
(* the holder may have to wait for another one or for the peer.            *)
(*                                                                         *)
(* What LOGIN decides is ClientLogin's, what SEND does with the mailboxes  *)
(* is Charla's; so are login_mutex and the mailbox threads.                *)
(*                                                                         *)
(* Bounds: MaxRequests[c] packets on connection c, one SIGHUP.             *)
(***************************************************************************)
EXTENDS Naturals, FiniteSets

CONSTANTS
  Conns,
  MaxClients,    \* MAX_CLIENTS
  MaxRequests,   \* how many packets each peer may send
  HangingUp,     \* connections that the peer may close
  Stalled,       \* connections whose peer does not read what is sent
  Late,          \* whether SIGHUP may come before a new thread registers
  SigPipe,       \* whether a write to a closed connection ends the process
  MayFail,       \* whether malloc may fail
  NoClient

ASSUME ConnsFinite  == IsFiniteSet(Conns) /\ NoClient \notin Conns
ASSUME BoundsNat    == MaxClients \in Nat /\ MaxRequests \in [Conns -> Nat]

VARIABLES
  slots,     \* cr->clients
  count,     \* cr->count
  cm,        \* who holds cr->mutex
  sem,       \* cr->terminate
  cr,        \* whether the registry is allocated
  life, rc, status,   \* the CLIENT objects
  cmx,       \* who holds the mutex of a CLIENT
  pc, req,   \* what a service thread is doing, and for which packet
  todo,      \* clients it still has to come to in a loop
  held,      \* references in the array of creg_all_clients
  counted, copied,   \* USERS: clients in payload_length, and in the payload
  leaked,    \* references in arrays that were dropped
  eof,       \* the connection is closed, by the peer or by shutdown(2)
  requests,
  main,      \* what the main thread is doing
  proc       \* the process: running, exited, killed by a signal, or undefined

regVars    == <<slots, count, cm, sem, cr>>
objVars    == <<life, rc, status, cmx>>
listVars   == <<todo, held, counted, copied, leaked>>
threadVars == <<pc, req, requests>>
vars == <<regVars, objVars, threadVars, listVars, eof, main, proc>>

Slots == 1..MaxClients

Init ==
  /\ slots = [i \in Slots |-> NoClient]
  /\ count = 0 /\ cm = NoClient /\ sem = 0 /\ cr = "live"
  /\ life   = [c \in Conns |-> "none"]
  /\ rc     = [c \in Conns |-> 0]
  /\ status = [c \in Conns |-> "NO_USER"]
  /\ cmx    = [c \in Conns |-> NoClient]
  /\ pc     = [c \in Conns |-> "none"]
  /\ req    = [c \in Conns |-> "EOF"]
  /\ requests = [c \in Conns |-> 0]
  /\ todo    = [c \in Conns |-> {}]
  /\ held    = [c \in Conns |-> {}]
  /\ counted = [c \in Conns |-> {}]
  /\ copied  = [c \in Conns |-> {}]
  /\ leaked  = [c \in Conns |-> 0]
  /\ eof     = [c \in Conns |-> FALSE]
  /\ main = "accept" /\ proc = "running"

Goto(c, label) == pc' = [pc EXCEPT ![c] = label]
LoggedIn(c)    == status[c] = "LOGGED_IN"
Registered     == {slots[i] : i \in Slots} \ {NoClient}
Running        == proc = "running"

(* client_unref, once its mutex is free.  The service thread logged out    *)
(* before it drops its own reference, so there is no mailbox to drop.      *)
UnrefClient(c) ==
  /\ cmx[c] = NoClient
  /\ rc' = [rc EXCEPT ![c] = @ - 1]
  /\ life' = [life EXCEPT ![c] = IF rc[c] = 1 THEN "freed" ELSE @]

-----------------------------------------------------------------------------
(* accept(2), and the start of a service thread.                           *)
Accept(c) ==
  /\ main = "accept" /\ pc[c] = "none"
  /\ Goto(c, "start")
  /\ UNCHANGED <<regVars, objVars, req, requests, listVars, eof, main, proc>>

(* The peer closes the connection.                                         *)
HangUp(c) ==
  /\ c \in HangingUp /\ pc[c] # "none" /\ ~eof[c]
  /\ eof' = [eof EXCEPT ![c] = TRUE]
  /\ UNCHANGED <<regVars, objVars, threadVars, listVars, main, proc>>

(* A step on the registry after main freed it: what follows is undefined.  *)
Undefined(c) ==
  /\ pc[c] \in {"start", "list", "unregister", "post"} /\ cr = "freed"
  /\ proc' = "undefined"
  /\ UNCHANGED <<regVars, objVars, threadVars, listVars, eof, main>>

(* creg_register: the first free slot takes the new CLIENT.                *)
Register(c) ==
  /\ pc[c] = "start" /\ cr = "live" /\ cm = NoClient
  /\ count < MaxClients
  /\ \E i \in Slots :
       /\ slots[i] = NoClient
       /\ \A j \in 1..i-1 : slots[j] # NoClient
       /\ slots' = [slots EXCEPT ![i] = c]
  /\ count' = count + 1
  /\ life' = [life EXCEPT ![c] = "live"]
  /\ rc' = [rc EXCEPT ![c] = 2]
  /\ Goto(c, "serve")
  /\ UNCHANGED <<cm, sem, cr, status, cmx, req, requests, listVars, eof, main,
                 proc>>

(* All slots are taken: the service thread goes on without a CLIENT.       *)
RegisterFull(c) ==
  /\ pc[c] = "start" /\ cr = "live" /\ cm = NoClient
  /\ count >= MaxClients
  /\ Goto(c, "null")
  /\ UNCHANGED <<regVars, objVars, req, requests, listVars, eof, main, proc>>

(* A NULL pointer is followed: there is no CLIENT for the packet or the    *)
(* end of file, or malloc failed in client_create or creg_all_clients.     *)
Crash(c) ==
  /\ \/ pc[c] = "null"
     \/ /\ MayFail /\ cr = "live" /\ cm = NoClient
        /\ pc[c] = "list" \/ (pc[c] = "start" /\ count < MaxClients)
  /\ proc' = "killed"
  /\ UNCHANGED <<regVars, objVars, threadVars, listVars, eof, main>>

-----------------------------------------------------------------------------
(* A packet is read; data sent before the connection was closed can be     *)
(* read after that.  A packet that is refused at once (LOGIN of a client   *)
(* that is logged in, SEND of one that is not) is as LOGOUT of one that is *)
(* not.                                                                    *)
Packet(c) ==
  /\ pc[c] = "serve" /\ requests[c] < MaxRequests[c]
  /\ \/ /\ ~LoggedIn(c) /\ req' = [req EXCEPT ![c] = "LOGIN"]
        /\ Goto(c, "list")
     \/ /\ LoggedIn(c) /\ req' = [req EXCEPT ![c] = "SEND"]
        /\ Goto(c, "list")
     \/ /\ req' = [req EXCEPT ![c] = "USERS"]
        /\ Goto(c, "list")
     \/ /\ req' = [req EXCEPT ![c] = "LOGOUT"]
        /\ Goto(c, IF LoggedIn(c) THEN "logout" ELSE "reply")
  /\ requests' = [requests EXCEPT ![c] = @ + 1]
  /\ UNCHANGED <<regVars, objVars, listVars, eof, main, proc>>

(* creg_all_clients: the registry's mutex is held while the mutex of each  *)
(* client is waited for.                                                   *)
ListLock(c) ==
  /\ pc[c] = "list" /\ cr = "live" /\ cm = NoClient
  /\ cm' = c
  /\ todo' = [todo EXCEPT ![c] = Registered]
  /\ Goto(c, "listing")
  /\ UNCHANGED <<slots, count, sem, cr, objVars, req, requests, held, counted,
                 copied, leaked, eof, main, proc>>

ListRef(c, d) ==
  /\ pc[c] = "listing" /\ d \in todo[c] /\ cmx[d] = NoClient
  /\ rc' = [rc EXCEPT ![d] = @ + 1]
  /\ held' = [held EXCEPT ![c] = @ \cup {d}]
  /\ todo' = [todo EXCEPT ![c] = @ \ {d}]
  /\ UNCHANGED <<regVars, life, status, cmx, threadVars, counted, copied, leaked,
                 eof, main, proc>>

ListUnlock(c) ==
  /\ pc[c] = "listing" /\ todo[c] = {}
  /\ cm' = NoClient
  /\ todo' = [todo EXCEPT ![c] = held[c]]
  /\ counted' = [counted EXCEPT ![c] = {}]
  /\ copied' = [copied EXCEPT ![c] = {}]
  /\ Goto(c, IF req[c] = "USERS" THEN "measure" ELSE "visit")
  /\ UNCHANGED <<slots, count, sem, cr, objVars, req, requests, held, leaked, eof,
                 main, proc>>

(* USERS, first loop: the handles are measured.                            *)
Measure(c, d) ==
  /\ pc[c] = "measure" /\ d \in todo[c]
  /\ todo' = [todo EXCEPT ![c] = @ \ {d}]
  /\ counted' = [counted EXCEPT ![c] = IF LoggedIn(d) THEN @ \cup {d} ELSE @]
  /\ UNCHANGED <<regVars, objVars, threadVars, held, copied, leaked, eof, main,
                 proc>>

(* Nobody is logged in: there is no payload, and the array is forgotten.   *)
NobodyThere(c) ==
  /\ pc[c] = "measure" /\ todo[c] = {} /\ counted[c] = {}
  /\ held' = [held EXCEPT ![c] = {}]
  /\ leaked' = [d \in Conns |-> leaked[d] + IF d \in held[c] THEN 1 ELSE 0]
  /\ Goto(c, "reply")
  /\ UNCHANGED <<regVars, objVars, req, requests, todo, counted, copied, eof, main,
                 proc>>

SomebodyThere(c) ==
  /\ pc[c] = "measure" /\ todo[c] = {} /\ counted[c] # {}
  /\ Goto(c, "visit")
  /\ UNCHANGED <<regVars, objVars, req, requests, listVars, eof, main, proc>>

(* Mutant: the reference is not given back.                                *)
VisitNoUnref(c, d) ==
  /\ pc[c] = "visit" /\ d \in held[c]
  /\ held' = [held EXCEPT ![c] = @ \ {d}]
  /\ UNCHANGED <<regVars, objVars, threadVars, todo, counted, copied, leaked, eof,
                 main, proc>>

(* A loop over the array: each client is looked at and its reference given *)
(* back.  USERS copies the handle of each that is logged in now.           *)
Visit(c, d) ==
  /\ pc[c] = "visit" /\ d \in held[c]
  /\ UnrefClient(d)
  /\ held' = [held EXCEPT ![c] = @ \ {d}]
  /\ copied' = [copied EXCEPT ![c] =
                  IF req[c] = "USERS" /\ LoggedIn(d) THEN @ \cup {d} ELSE @]
  /\ UNCHANGED <<regVars, status, cmx, threadVars, todo, counted, leaked, eof,
                 main, proc>>

(* The array is freed; a LOGIN enters the client, or is refused.           *)
ListDone(c) ==
  /\ pc[c] = "visit" /\ held[c] = {}
  /\ \/ Goto(c, "reply")
     \/ req[c] = "LOGIN" /\ Goto(c, "enter")
  /\ UNCHANGED <<regVars, objVars, req, requests, listVars, eof, main, proc>>

Enter(c) ==
  /\ pc[c] = "enter" /\ cmx[c] = NoClient
  /\ status' = [status EXCEPT ![c] = "LOGGED_IN"]
  /\ Goto(c, "reply")
  /\ UNCHANGED <<regVars, life, rc, cmx, req, requests, listVars, eof, main, proc>>

(* client_logout, for a packet or for the end of file.                     *)
Logout(c) ==
  /\ pc[c] = "logout" /\ cmx[c] = NoClient
  /\ status' = [status EXCEPT ![c] = "NO_USER"]
  /\ Goto(c, IF req[c] = "EOF" THEN "unref" ELSE "reply")
  /\ UNCHANGED <<regVars, life, rc, cmx, req, requests, listVars, eof, main, proc>>

(* client_send_packet of the answer: the peer may make it wait.            *)
ReplyLock(c) ==
  /\ pc[c] = "reply" /\ cmx[c] = NoClient
  /\ cmx' = [cmx EXCEPT ![c] = c]
  /\ Goto(c, "sending")
  /\ UNCHANGED <<regVars, life, rc, status, req, requests, listVars, eof, main,
                 proc>>

(* USERS frees send_payload, which has no value if there was no payload:   *)
(* nothing happens, or the process is killed by free.                      *)
ReplySent(c) ==
  /\ pc[c] = "sending" /\ (c \in Stalled => eof[c])
  /\ cmx' = [cmx EXCEPT ![c] = NoClient]
  /\ Goto(c, "serve")
  /\ \/ UNCHANGED proc
     \/ req[c] = "USERS" /\ counted[c] = {} /\ proc' = "killed"
  /\ UNCHANGED <<regVars, life, rc, status, req, requests, listVars, eof, main>>

(* main.c leaves SIGPIPE at its default.                                   *)
BrokenPipe(c) ==
  /\ SigPipe /\ pc[c] = "sending" /\ eof[c]
  /\ proc' = "killed"
  /\ UNCHANGED <<regVars, objVars, threadVars, listVars, eof, main>>

-----------------------------------------------------------------------------
ReadEOF(c) ==
  /\ pc[c] = "serve" /\ eof[c]
  /\ req' = [req EXCEPT ![c] = "EOF"]
  /\ Goto(c, IF LoggedIn(c) THEN "logout" ELSE "unref")
  /\ UNCHANGED <<regVars, objVars, requests, listVars, eof, main, proc>>

UnrefSelf(c) ==
  /\ pc[c] = "unref"
  /\ UnrefClient(c)
  /\ Goto(c, "unregister")
  /\ UNCHANGED <<regVars, status, cmx, req, requests, listVars, eof, main, proc>>

(* Mutant: the slot is left as it is.                                      *)
UnregisterNoClear(c) ==
  /\ pc[c] = "unregister" /\ cr = "live" /\ cm = NoClient
  /\ UnrefClient(c)
  /\ count' = count - 1
  /\ Goto(c, "post")
  /\ UNCHANGED <<slots, cm, sem, cr, status, cmx, req, requests, listVars, eof,
                 main, proc>>

(* creg_unregister, up to the release of the registry's mutex.             *)
Unregister(c) ==
  /\ pc[c] = "unregister" /\ cr = "live" /\ cm = NoClient
  /\ UnrefClient(c)
  /\ slots' = [i \in Slots |-> IF slots[i] = c THEN NoClient ELSE slots[i]]
  /\ count' = count - 1
  /\ Goto(c, "post")
  /\ UNCHANGED <<cm, sem, cr, status, cmx, req, requests, listVars, eof, main, proc>>

(* Mutant: sem_post is left to the thread that finds clients remaining.    *)
PostIfAny(c) ==
  /\ pc[c] = "post" /\ cr = "live"
  /\ sem' = IF count > 0 THEN sem + 1 ELSE sem
  /\ Goto(c, "done")
  /\ UNCHANGED <<slots, count, cm, cr, objVars, req, requests, listVars, eof, main,
                 proc>>

(* creg_unregister: sem_post, without the mutex.                           *)
Post(c) ==
  /\ pc[c] = "post" /\ cr = "live"
  /\ sem' = sem + 1
  /\ Goto(c, "done")
  /\ UNCHANGED <<slots, count, cm, cr, objVars, req, requests, listVars, eof, main,
                 proc>>

-----------------------------------------------------------------------------
(* SIGHUP, taken by the main thread in accept(2): terminate is called.     *)
Sighup ==
  /\ main = "accept"
  /\ Late \/ \A c \in Conns : pc[c] # "start"
  /\ main' = "shutdown"
  /\ UNCHANGED <<regVars, objVars, threadVars, listVars, eof, proc>>

(* creg_shutdown_all: shutdown(2) of every registered connection.          *)
ShutdownAll ==
  /\ main = "shutdown" /\ cm = NoClient
  /\ eof' = [c \in Conns |-> eof[c] \/ c \in Registered]
  /\ main' = "check"
  /\ UNCHANGED <<regVars, objVars, threadVars, listVars, proc>>

(* The loop reads the count without the mutex.                             *)
CheckCount ==
  /\ main = "check"
  /\ main' = IF count = 0 THEN "fini" ELSE "wait"
  /\ UNCHANGED <<regVars, objVars, threadVars, listVars, eof, proc>>

(* Mutant: the count is not looked at again.                               *)
WaitOnce ==
  /\ main = "wait" /\ sem > 0
  /\ sem' = sem - 1
  /\ main' = "fini"
  /\ UNCHANGED <<slots, count, cm, cr, objVars, threadVars, listVars, eof, proc>>

Wait ==
  /\ main = "wait" /\ sem > 0
  /\ sem' = sem - 1
  /\ main' = "check"
  /\ UNCHANGED <<slots, count, cm, cr, objVars, threadVars, listVars, eof, proc>>

(* creg_fini and ureg_fini.                                                *)
Fini ==
  /\ main = "fini" /\ cm = NoClient
  /\ cr' = "freed"
  /\ main' = "exit"
  /\ UNCHANGED <<slots, count, cm, sem, objVars, threadVars, listVars, eof, proc>>

Exit ==
  /\ main = "exit"
  /\ proc' = "exited"
  /\ UNCHANGED <<regVars, objVars, threadVars, listVars, eof, main>>

-----------------------------------------------------------------------------
ListStep(c) ==
  \/ ListLock(c) \/ ListUnlock(c)
  \/ NobodyThere(c) \/ SomebodyThere(c) \/ ListDone(c)
  \/ \E d \in Conns : ListRef(c, d) \/ Measure(c, d) \/ Visit(c, d)

(* What a service thread does without waiting for a packet.                *)
Continue(c) ==
  \/ Register(c) \/ RegisterFull(c) \/ Undefined(c)
  \/ ListStep(c) \/ Enter(c) \/ Logout(c) \/ ReplyLock(c) \/ ReplySent(c)
  \/ ReadEOF(c) \/ UnrefSelf(c) \/ Unregister(c) \/ Post(c)

(* What the peers, the kernel and the allocator may do.                    *)
Environment(c) ==
  Accept(c) \/ HangUp(c) \/ Packet(c) \/ Crash(c) \/ BrokenPipe(c)

Main == ShutdownAll \/ CheckCount \/ Wait \/ Fini \/ Exit

Next ==
  /\ Running
  /\ \/ \E c \in Conns : Continue(c) \/ Environment(c)
     \/ Sighup \/ Main

(* Threads are preemptively scheduled.  Requests are finite, so a mutex or *)
(* a unit of the semaphore that a thread waits for is there for good in    *)
(* the end, unless somebody keeps it: weak fairness is enough.             *)
Spec ==
  /\ Init /\ [][Next]_vars
  /\ \A c \in Conns : WF_vars(Running /\ Continue(c))
  /\ WF_vars(Running /\ Main)

-----------------------------------------------------------------------------
Labels == {"none", "start", "null", "serve", "list", "listing", "measure",
           "visit", "enter", "logout", "reply", "sending", "unref",
           "unregister", "post", "done"}

TypeOK ==
  /\ slots \in [Slots -> Conns \cup {NoClient}] /\ count \in 0..MaxClients
  /\ cm \in Conns \cup {NoClient} /\ sem \in Nat /\ cr \in {"live", "freed"}
  /\ life \in [Conns -> {"none", "live", "freed"}]
  /\ rc \in [Conns -> Nat]
  /\ status \in [Conns -> {"NO_USER", "LOGGED_IN"}]
  /\ cmx \in [Conns -> Conns \cup {NoClient}]
  /\ pc \in [Conns -> Labels]
  /\ req \in [Conns -> {"LOGIN", "SEND", "USERS", "LOGOUT", "EOF"}]
  /\ \A c \in Conns : requests[c] \in 0..MaxRequests[c]
  /\ todo \in [Conns -> SUBSET Conns] /\ held \in [Conns -> SUBSET Conns]
  /\ counted \in [Conns -> SUBSET Conns] /\ copied \in [Conns -> SUBSET Conns]
  /\ leaked \in [Conns -> Nat]
  /\ eof \in [Conns -> BOOLEAN]
  /\ main \in {"accept", "shutdown", "check", "wait", "fini", "exit"}
  /\ proc \in {"running", "exited", "killed", "undefined"}

(* client_registry.c: cr->count is the number of occupied slots, no CLIENT *)
(* has two, and an occupied slot is a CLIENT that was not freed.           *)
RegistrySound ==
  /\ count = Cardinality({i \in Slots : slots[i] # NoClient})
  /\ \A i \in Slots : slots[i] # NoClient =>
       /\ life[slots[i]] = "live"
       /\ \A j \in Slots : slots[j] = slots[i] => j = i

HoldsSelf(c) ==
  pc[c] \in Labels \ {"none", "start", "null", "unregister", "post", "done"}
Listings(c)  == {t \in Conns : c \in held[t]}
One(b)       == IF b THEN 1 ELSE 0

(* client.h: the count of a CLIENT is that of the references that exist to *)
(* it: the registry's, its service thread's, those in arrays, those lost   *)
(* with an array; it is freed at zero.                                     *)
RefCountExact ==
  \A c \in Conns :
    /\ rc[c] = One(c \in Registered) + One(HoldsSelf(c))
               + Cardinality(Listings(c)) + leaked[c]
    /\ life[c] = "live" <=> rc[c] > 0

(* README, main.c: when creg_shutdown_all returns, every service thread    *)
(* has logged its client out and unregistered it.                          *)
ShutdownOrderly ==
  main \in {"fini", "exit"} =>
    \A c \in Conns : pc[c] \in {"none", "null", "post", "done"} /\ ~LoggedIn(c)

(* README: a SIGHUP ends the server, whatever its threads are doing.       *)
ShutdownCompletes == main = "shutdown" ~> ~Running

(* protocol.h: the payload of the answer to USERS is what its length says. *)
UsersReplyExact ==
  \A c \in Conns :
    pc[c] = "reply" /\ req[c] = "USERS" => counted[c] = copied[c]

(* README: the server exits only after all service threads terminated.     *)
EndsOrderly ==
  proc \in {"exited", "killed"} => \A c \in Conns : pc[c] \in {"none", "post", "done"}
=============================================================================
