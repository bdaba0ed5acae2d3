----------------------------- MODULE Charla_proofs -----------------------------
(***************************************************************************)
(* Proofs about the threads of the Charla server (module Charla), for any   *)
(* set of clients, number of logins and set of messages, whatever malloc    *)
(* leaves in a hook, and whoever logs out or hangs up at any time.          *)
(*                                                                          *)
(* What the server tells a sender rests on two tokens for each message.     *)
(* The fate of a message is at one place at a time: with its sender, in     *)
(* the job of the sender's service thread, in a mailbox, in the hands of a  *)
(* mailbox thread, or out on a connection; first as the message, and when   *)
(* it cannot be delivered as the bounce.  The receipt is a second token,    *)
(* which a mailbox thread makes at the moment the message goes out.  Since  *)
(* fate and message cannot be in two places, nobody makes a second receipt  *)
(* and no bounce follows a delivery; a message in a mailbox that is         *)
(* discarded loses its token, for its notice has the id 0.                  *)
(*                                                                          *)
(* That a message goes out to its receiver, and to nobody else, is Routes.  *)
(*                                                                          *)
(* Orders is about the messages of one receiver: while it has logged in     *)
(* once, a message accepted later is nowhere ahead of one accepted before.  *)
(*                                                                          *)
(* LoanInv, for one login of each client, is why only a logout takes a      *)
(* mailbox from somebody who uses it: the count of a mailbox is at least    *)
(* the references that its client, its thread and the messages from it      *)
(* have, and whoever uses a mailbox without one of these borrowed it from a *)
(* client that had it and either still does or has logged out since.        *)
(***************************************************************************)
EXTENDS Charla, SequenceTheorems, FiniteSetTheorems, TLAPS

Packets == [type : {"MESG", "RCVD", "BOUNCE"}, id : Ids \cup {0}]
Sending == {"lookup", "add", "add_ref"}
InNext  == {"next_unref", "next_discard", "got"}

(* What the variables may hold; box, entry, todo and out more closely than  *)
(* in TypeOK, which has no need of them.                                    *)
BoxTypes ==
  /\ life \in [Mailboxes -> {"unborn", "live", "freed"}]
  /\ rc \in [Mailboxes -> Nat] /\ store \in [Mailboxes -> Nat]
  /\ lock \in [Mailboxes -> Threads \cup {NoThread}]
  /\ box \in [Mailboxes -> Seq(M!Entry)]

CallTypes ==
  /\ pc \in [Threads -> ServiceLabels \cup ThreadLabels]
  /\ \A c \in Clients : pc[Service(c)] \in ServiceLabels
  /\ \A t \in MailboxThreads : pc[t] \in ThreadLabels
  /\ mb \in [Threads -> Mailboxes \cup {NoMailbox}]
  /\ entry \in [Threads -> M!Entry \cup {M!NULL}]
  /\ todo \in [Threads -> Seq(M!Entry)]
  /\ mine \in [MailboxThreads -> Mailboxes \cup {NoMailbox}]

ClientTypes ==
  /\ cstat \in [Clients -> {"NO_USER", "LOGGED_IN"}]
  /\ cbox \in [Clients -> Mailboxes \cup {NoMailbox}]
  /\ \A c \in Clients : cbox[c] = IF LoggedIn(c) THEN <<c, logins[c]>> ELSE NoMailbox
  /\ \A c \in Clients : LoggedIn(c) => logins[c] # 0
  /\ tid \in [Clients -> 0..MaxLogins] /\ logins \in [Clients -> 0..MaxLogins]

SendTypes ==
  /\ unsent \subseteq Traffic
  /\ job \in [Clients -> Traffic \cup {NoMailbox}]
  /\ target \in [Clients -> Mailboxes \cup {NoMailbox}]
  /\ out \in [Clients -> Seq(Packets)]

Types == BoxTypes /\ CallTypes /\ ClientTypes /\ SendTypes

(* The message e, if it is one, is for client c.                            *)
For(e, c) == M!IsMessage(e) => \A x \in Traffic : x.id = e.id => x.to = c

(* A client that is being served is logged in, and the SEND packet in hand  *)
(* is one of Traffic, for the client whose mailbox was looked up.           *)
ServiceOK(c) ==
  LET t == Service(c) IN
  /\ pc[t] \in {"spawn", "lookup", "add", "add_ref", "shutdown", "unref"} => LoggedIn(c)
  /\ pc[t] \in Sending => job[c] \in Traffic
  /\ pc[t] = "add" /\ target[c] # NoMailbox => target[c][1] = job[c].to
  /\ pc[t] = "add_ref" =>
       /\ mb[t] \in Mailboxes /\ mb[t][1] = job[c].to /\ life[mb[t]] # "unborn"
       /\ entry[t] = [type |-> "message", id |-> job[c].id, from |-> cbox[c]]

(* A mailbox thread works on the mailboxes of its own client only, and has  *)
(* an entry for that client in hand wherever it uses one.                   *)
ThreadOK(t) ==
  /\ mine[t] # NoMailbox => mine[t][1] = t[1]
  /\ mb[t] # NoMailbox => mb[t][1] = t[1]
  /\ pc[t] \notin {"none", "start", "field", "ref", "discard", "done"} => mine[t] \in Mailboxes
  /\ pc[t] \in {"next_lock", "next_unref", "next_discard", "discard"} => mb[t] \in Mailboxes
  /\ pc[t] \in {"next_unref", "next_discard", "rrcpt", "bounce"} => entry[t] \in M!Message
  /\ pc[t] = "got" => entry[t] \in M!Entry
  /\ pc[t] \in InNext \cup {"rrcpt", "bounce"} => For(entry[t], t[1])

(* The messages in a mailbox are for its client.                            *)
BoxOK(m) ==
  /\ life[m] = "unborn" => box[m] = << >>
  /\ \A i \in DOMAIN box[m] : For(box[m][i], m[1])

Routes ==
  /\ \A c \in Clients : ServiceOK(c)
  /\ \A t \in MailboxThreads : ThreadOK(t)
  /\ \A m \in Mailboxes : BoxOK(m)

-----------------------------------------------------------------------------
(* Which token an entry carries and a packet reports, and where a token can *)
(* be.                                                                      *)
Tokens == {"fate", "receipt"}
Carries(f, e, x) ==
  IF f = "fate" THEN \/ M!IsMessage(e) /\ e.id = x.id
                     \/ e.type = "notice" /\ e.kind = "BOUNCE" /\ e.id = x.id
                ELSE e.type = "notice" /\ e.kind = "RRCPT" /\ e.id = x.id
Reports(f, p, x) ==
  p.id = x.id /\ p.type \in IF f = "fate" THEN {"MESG", "BOUNCE"} ELSE {"RCVD"}

InHand(f, x, t) ==
  \/ pc[t] \in InNext /\ Carries(f, entry[t], x)
  \/ pc[t] = (IF f = "fate" THEN "bounce" ELSE "rrcpt") /\ entry[t].id = x.id
InBox(f, x, m) == life[m] = "live" /\ \E i \in DOMAIN box[m] : Carries(f, box[m][i], x)
InOut(f, x, c) == \E i \in DOMAIN out[c] : Reports(f, out[c][i], x)

Places == {"unsent", "job", "box", "hand", "out"}
Owners == Clients \cup Threads
Holds(f, x, k, a) ==
  \/ k = "unsent" /\ f = "fate" /\ a = x.from /\ x \in unsent
  \/ k = "job" /\ f = "fate" /\ a \in Clients /\ pc[Service(a)] \in Sending /\ job[a] = x
  \/ k = "box" /\ a \in Mailboxes /\ InBox(f, x, a)
  \/ k = "hand" /\ a \in MailboxThreads /\ InHand(f, x, a)
  \/ k = "out" /\ a \in Clients /\ InOut(f, x, a)

(* A token is at one place, and there once.                                 *)
Single(f, x) ==
  \A k, l \in Places, a, b \in Owners :
    Holds(f, x, k, a) /\ Holds(f, x, l, b) => k = l /\ a = b
OnceInBox(f, x) ==
  \A m \in Mailboxes : life[m] = "live" => \A i, j \in DOMAIN box[m] :
    Carries(f, box[m][i], x) /\ Carries(f, box[m][j], x) => i = j
OnceOut(f, x) ==
  \A c \in Clients : \A i, j \in DOMAIN out[c] :
    Reports(f, out[c][i], x) /\ Reports(f, out[c][j], x) => i = j

Delivered(x) == \E i \in DOMAIN out[x.to] : out[x.to][i] = [type |-> "MESG", id |-> x.id]

(* The part of the invariant about one message: there is a receipt only     *)
(* after the MESG packet was sent.                                          *)
Fate(x) ==
  /\ \A f \in Tokens : Single(f, x) /\ OnceInBox(f, x) /\ OnceOut(f, x)
  /\ \A k \in Places, a \in Owners : Holds("receipt", x, k, a) => Delivered(x)

Fates == \A x \in Traffic : Fate(x)

(* Where a message is while it is one, at position i of what is there; the   *)
(* message waits until it is accepted, once, and is then under way.          *)
AcceptedAt(x, i) == i \in DOMAIN accepted /\ accepted[i] = x.id
Waits(x) == x \in unsent \/ \E c \in Clients : pc[Service(c)] \in Sending /\ job[c] = x
Queued(x, m, i) ==
  /\ life[m] = "live" /\ i \in DOMAIN box[m]
  /\ M!IsMessage(box[m][i]) /\ box[m][i].id = x.id
Held(x, t) == pc[t] \in InNext /\ M!IsMessage(entry[t]) /\ entry[t].id = x.id
SentAt(x, i) == i \in DOMAIN out[x.to] /\ out[x.to][i] = [type |-> "MESG", id |-> x.id]

Underway(x) ==
  \/ \E m \in Mailboxes, i \in Nat : Queued(x, m, i)
  \/ \E t \in MailboxThreads : Held(x, t)
  \/ \E i \in Nat : SentAt(x, i)
Admitted(x) ==
  /\ \A i, j \in Nat : AcceptedAt(x, i) /\ AcceptedAt(x, j) => i = j
  /\ Waits(x) => \A i \in Nat : ~AcceptedAt(x, i)
  /\ Underway(x) => \E i \in Nat : AcceptedAt(x, i)

(* A message y that was accepted after x, for the same client, is not ahead  *)
(* of x anywhere.                                                            *)
Before(x, y) == \E i, j \in Nat : AcceptedAt(x, i) /\ AcceptedAt(y, j) /\ i < j
Ordered(x, y) ==
  /\ \A m \in Mailboxes, i \in Nat : Queued(x, m, i) =>
       /\ \A t \in MailboxThreads : ~Held(y, t)
       /\ \A j \in Nat : ~SentAt(y, j)
       /\ \A j \in Nat : Queued(y, m, j) => i < j
  /\ \A t \in MailboxThreads : Held(x, t) => \A j \in Nat : ~SentAt(y, j)
  /\ \A i, j \in Nat : SentAt(x, i) /\ SentAt(y, j) => i < j

Orders ==
  /\ accepted \in Seq(Ids)
  /\ \A x \in Traffic : Admitted(x)
  /\ MaxLogins = 1 => \A x, y \in Traffic : x.to = y.to /\ Before(x, y) => Ordered(x, y)

CharlaInv == Types /\ Routes /\ Fates /\ Orders

-----------------------------------------------------------------------------
(* Threads are service threads or mailbox threads, and no thread is both.   *)
LEMMA Names ==
  /\ MailboxThreads = Mailboxes
  /\ \A c \in Clients : /\ Service(c) \in Threads /\ Service(c) \notin Mailboxes
                        /\ Service(c)[1] = c /\ Service(c)[2] = 0
  /\ \A t \in Mailboxes : t \in Threads /\ t[1] \in Clients /\ t[2] # 0
  /\ \A t \in Threads : t \in Mailboxes \/ (t[1] \in Clients /\ t = Service(t[1]))
  /\ \A c \in Clients, n \in 1..MaxLogins : <<c, n>> \in Mailboxes /\ <<c, n>>[1] = c
  /\ NoMailbox \notin Mailboxes
BY LoginsOK, NoMailboxOK DEF MailboxThreads, Mailboxes, Threads, Service

(* A message has a sender and an id; a notice is no message.                *)
LEMMA Entries ==
  /\ \A e \in M!Message : /\ e \in M!Entry /\ e.type = "message" /\ M!IsMessage(e)
                           /\ e.id \in Ids /\ e.from \in Mailboxes
  /\ \A e \in M!Entry : e \in M!Message \/ (e.type = "notice" /\ ~M!IsMessage(e))
  /\ \A e \in M!Entry : M!IsMessage(e) => e \in M!Message
  /\ \A e \in M!Entry : e.id \in Ids \cup {0}
  /\ M!NULL.type = "null"
BY DEF M!Message, M!Notice, M!Entry, M!IsMessage, M!NULL, M!NoMsgId, Ids

(* The records that mb_add_message and mb_add_notice make are entries.      *)
LEMMA Made ==
  /\ \A id \in Ids, m \in Mailboxes :
       [type |-> "message", id |-> id, from |-> m] \in M!Message
  /\ \A id \in Ids \cup {0}, k \in {"BOUNCE", "RRCPT"} :
       [type |-> "notice", id |-> id, kind |-> k] \in M!Entry
BY DEF M!Message, M!Notice, M!Entry, M!NoMsgId, Ids

(* client_send_packet reports the tokens its entry carries, and no others.  *)
LEMMA PacketFacts ==
  ASSUME NEW e \in M!Entry
  PROVE  /\ Packet(e) \in Packets
         /\ \A f \in Tokens, x \in Traffic : Carries(f, e, x) <=> Reports(f, Packet(e), x)
<1>1. e \in M!Message \/ e \in M!Notice
  BY DEF M!Entry
<1>2. e.id \in Ids \cup {0}
  BY Entries
<1>3. CASE e \in M!Message
  BY <1>2, <1>3 DEF Packet, Packets, Carries, Reports, Tokens, M!IsMessage, M!Message
<1>4. CASE e \in M!Notice
  BY <1>2, <1>4 DEF Packet, Packets, Carries, Reports, Tokens, M!IsMessage, M!Notice
<1> QED
  BY <1>1, <1>3, <1>4

-----------------------------------------------------------------------------
(* The types.                                                               *)
LEMMA BoxPlain ==
  ASSUME BoxTypes, NEW m \in Mailboxes,
         \/ M!Create(m) \/ M!SetDiscardHook(m) \/ M!Ref(m) \/ M!Shutdown(m) \/ M!UnrefSome(m)
  PROVE  BoxTypes'
<1>1. CASE M!Create(m)
  BY <1>1 DEF BoxTypes, M!Create
<1>2. CASE M!SetDiscardHook(m)
  BY <1>2 DEF BoxTypes, M!SetDiscardHook
<1>3. CASE M!Ref(m)
  BY <1>3 DEF BoxTypes, M!Ref
<1>4. CASE M!Shutdown(m)
  BY <1>4 DEF BoxTypes, M!Shutdown
<1>5. CASE M!UnrefSome(m)
  BY <1>5 DEF BoxTypes, M!UnrefSome
<1> QED
  BY <1>1, <1>2, <1>3, <1>4, <1>5

(* An entry that is queued is the last one of its mailbox.                  *)
LEMMA BoxEnqueue ==
  ASSUME BoxTypes, NEW m \in Mailboxes, NEW e \in M!Entry, M!Enqueue(m, e)
  PROVE  /\ box' \in [Mailboxes -> Seq(M!Entry)] /\ store' \in [Mailboxes -> Nat]
         /\ \A x \in Mailboxes : box'[x] = IF x = m THEN Append(box[m], e) ELSE box[x]
BY DEF BoxTypes, M!Enqueue

(* The calls that queue one entry keep the types.                           *)
LEMMA BoxAdd ==
  ASSUME BoxTypes, NEW m \in Mailboxes,
         \/ \E id \in Ids, k \in {"BOUNCE", "RRCPT"} : M!AddNotice(m, k, id)
         \/ \E id \in Ids : M!AddOwnMessage(m, id)
  PROVE  BoxTypes'
<1>1. ASSUME NEW id \in Ids, NEW k \in {"BOUNCE", "RRCPT"}, M!AddNotice(m, k, id)
      PROVE  BoxTypes'
  <2> DEFINE e == [type |-> "notice", id |-> id, kind |-> k]
  <2>1. e \in M!Entry
    BY Made
  <2>2. M!Enqueue(m, e) /\ UNCHANGED <<life, rc, lock>>
    BY <1>1 DEF M!AddNotice
  <2> HIDE DEF e
  <2> QED
    BY <2>1, <2>2, BoxEnqueue DEF BoxTypes
<1>2. ASSUME NEW id \in Ids, M!AddOwnMessage(m, id)
      PROVE  BoxTypes'
  <2> DEFINE e == [type |-> "message", id |-> id, from |-> m]
  <2>1. e \in M!Entry
    BY Made, Entries
  <2>2. M!Enqueue(m, e) /\ UNCHANGED <<life, rc, lock>>
    BY <1>2 DEF M!AddOwnMessage
  <2> HIDE DEF e
  <2> QED
    BY <2>1, <2>2, BoxEnqueue DEF BoxTypes
<1> QED
  BY <1>1, <1>2

(* So does mb_unref of the last reference.                                  *)
LEMMA BoxFinalise ==
  ASSUME BoxTypes, NEW m \in Mailboxes, NEW t \in Threads, M!Finalise(t, m),
         UNCHANGED <<box, store, lock>>
  PROVE  BoxTypes'
BY DEF BoxTypes, M!Finalise

(* What a step on mailboxes does to the types of calls.                     *)
LEMMA GotoTypes ==
  ASSUME CallTypes, NEW t \in Threads, NEW l,
         \/ \E c \in Clients : t = Service(c) /\ l \in ServiceLabels
         \/ t \in MailboxThreads /\ l \in ThreadLabels,
         pc' = [pc EXCEPT ![t] = l]
  PROVE  /\ pc' \in [Threads -> ServiceLabels \cup ThreadLabels]
         /\ \A c \in Clients : pc'[Service(c)] \in ServiceLabels
         /\ \A u \in MailboxThreads : pc'[u] \in ThreadLabels
         /\ pc'[t] = l /\ \A u \in Threads : u # t => pc'[u] = pc[u]
<1>1. l \in ServiceLabels \cup ThreadLabels
  OBVIOUS
<1>2. /\ pc' \in [Threads -> ServiceLabels \cup ThreadLabels]
      /\ pc'[t] = l /\ \A u \in Threads : u # t => pc'[u] = pc[u]
  BY <1>1 DEF CallTypes
<1>3. \A c \in Clients : pc'[Service(c)] \in ServiceLabels
  BY <1>2, Names DEF CallTypes
<1>4. \A u \in MailboxThreads : pc'[u] \in ThreadLabels
  BY <1>2, Names DEF CallTypes
<1> QED
  BY <1>2, <1>3, <1>4

(* What is known of the mailbox of a client, and of the one a call is about. *)
LEMMA OwnBox ==
  ASSUME Types, NEW c \in Clients, LoggedIn(c)
  PROVE  cbox[c] \in Mailboxes /\ cbox[c][1] = c /\ cbox[c] = <<c, logins[c]>>
<1>1. cbox[c] = <<c, logins[c]>> /\ logins[c] \in 1..MaxLogins
  BY LoginsOK DEF Types, ClientTypes
<1> QED
  BY <1>1, Names

(* The sequences of a step on the own variables of one thread.              *)
LEMMA CallSame ==
  ASSUME CallTypes, UNCHANGED <<mb, entry, todo, mine>>, NEW t \in Threads, NEW l,
         \/ \E c \in Clients : t = Service(c) /\ l \in ServiceLabels
         \/ t \in MailboxThreads /\ l \in ThreadLabels,
         pc' = [pc EXCEPT ![t] = l]
  PROVE  CallTypes'
BY GotoTypes DEF CallTypes

(* The same when the thread sets its own mb, entry or todo as well.         *)
LEMMA CallSet ==
  ASSUME CallTypes, NEW t \in Threads, NEW l, NEW m \in Mailboxes \cup {NoMailbox},
         NEW e \in M!Entry \cup {M!NULL}, NEW s \in Seq(M!Entry),
         \/ \E c \in Clients : t = Service(c) /\ l \in ServiceLabels
         \/ t \in MailboxThreads /\ l \in ThreadLabels,
         pc' = [pc EXCEPT ![t] = l], mine' = mine,
         mb' = [mb EXCEPT ![t] = m] \/ mb' = mb,
         entry' = [entry EXCEPT ![t] = e] \/ entry' = entry,
         todo' = [todo EXCEPT ![t] = s] \/ todo' = todo
  PROVE  CallTypes'
<1>1. mb' \in [Threads -> Mailboxes \cup {NoMailbox}]
  BY DEF CallTypes
<1>2. entry' \in [Threads -> M!Entry \cup {M!NULL}]
  BY DEF CallTypes
<1>3. todo' \in [Threads -> Seq(M!Entry)]
  BY DEF CallTypes
<1> QED
  BY <1>1, <1>2, <1>3, GotoTypes DEF CallTypes

(* The steps of a request, and of the service thread in its own loop.       *)
LEMMA RequestTypes ==
  ASSUME Types, Routes, NEW c \in Clients, Request(c)
  PROVE  Types'
<1> USE DEF Types
<1>s. Service(c) \in Threads
  BY Names
<1>1. CASE HangUp(c)
  BY <1>1 DEF HangUp, BoxTypes, CallTypes, ClientTypes, SendTypes, LoggedIn, boxVars, callVars, sendVars
<1>2. CASE Login(c)
  <2> DEFINE n == logins[c] + 1
  <2>1. n \in 1..MaxLogins /\ <<c, n>> \in Mailboxes
    BY <1>2, LoginsOK, Names DEF Login, ClientTypes
  <2>2. M!Create(<<c, n>>)
    BY <1>2 DEF Login
  <2>3. BoxTypes'
    BY <2>1, <2>2, BoxPlain
  <2>4. CallTypes'
    BY <1>2, <1>s, CallSame DEF Login, callVars, Go, Goto, ServiceLabels
  <2>5. ClientTypes'
    BY <1>2, <2>1 DEF Login, ClientTypes, LoggedIn
  <2>6. SendTypes'
    BY <1>2 DEF Login, SendTypes, sendVars
  <2> QED
    BY <2>3, <2>4, <2>5, <2>6
<1>3. CASE LogoutPacket(c)
  <2>1. CallTypes'
    BY <1>3, <1>s, CallSame DEF LogoutPacket, callVars, Go, Goto, ServiceLabels
  <2> QED
    BY <1>3, <2>1 DEF LogoutPacket, BoxTypes, ClientTypes, SendTypes, LoggedIn, boxVars, clientVars, sendVars
<1>4. CASE SendPacket(c)
  <2>0. PICK x \in unsent :
          /\ unsent' = unsent \ {x}
          /\ \/ Go(c, "lookup") /\ job' = [job EXCEPT ![c] = x]
             \/ UNCHANGED <<pc, job>>
    BY <1>4 DEF SendPacket
  <2>1. CallTypes'
    <3>1. CASE pc' = pc
      BY <1>4, <3>1 DEF SendPacket, CallTypes, callVars
    <3>2. CASE Go(c, "lookup")
      BY <1>4, <1>s, <3>2, CallSame DEF SendPacket, callVars, Go, Goto, ServiceLabels
    <3> QED
      BY <2>0, <3>1, <3>2
  <2>2. SendTypes'
    BY <1>4, <2>0 DEF SendPacket, SendTypes
  <2> QED
    BY <1>4, <2>1, <2>2 DEF SendPacket, BoxTypes, ClientTypes, LoggedIn, boxVars, clientVars
<1> QED
  BY <1>1, <1>2, <1>3, <1>4 DEF Request

(* The last reference: the dying mailbox's entries are the caller's to discard. *)
LEMMA UnrefLastTypes ==
  ASSUME BoxTypes, CallTypes, NEW t \in Threads, NEW m \in Mailboxes, M!UnrefLast(t, m), mine' = mine
  PROVE  BoxTypes' /\ CallTypes'
<1>1. BoxTypes'
  BY BoxFinalise DEF M!UnrefLast
<1>2. box[m] \in Seq(M!Entry)
  BY DEF BoxTypes
<1>3. /\ mb' = [mb EXCEPT ![t] = m] /\ todo' = [todo EXCEPT ![t] = box[m]] /\ entry' = entry
      /\ pc' = [pc EXCEPT ![t] = "discard"]
  BY DEF M!UnrefLast, M!Finalise, M!Goto
<1>4. \/ \E c \in Clients : t = Service(c) /\ "discard" \in ServiceLabels
      \/ t \in MailboxThreads /\ "discard" \in ThreadLabels
  BY Names DEF ServiceLabels, ThreadLabels
<1>5. M!NULL \in M!Entry \cup {M!NULL}
  OBVIOUS
<1> QED
  BY <1>1, <1>2, <1>3, <1>4, <1>5, CallSet

(* The discarding loop of mb_unref keeps the types.                         *)
LEMMA DiscardTypes ==
  ASSUME Types, NEW t \in Threads, NEW l,
         \/ \E c \in Clients : t = Service(c) /\ l \in ServiceLabels
         \/ t \in MailboxThreads /\ l \in ThreadLabels,
         pc[t] = "next_discard" => mb[t] \in Mailboxes, mine' = mine,
         M!DiscardToHook(t) \/ M!DiscardUnhooked(t) \/ M!DiscardDone(t, l)
  PROVE  BoxTypes' /\ CallTypes'
<1>1. todo[t] \in Seq(M!Entry)
  BY DEF Types, CallTypes
<1>2. CASE M!DiscardToHook(t)
  <2> DEFINE from == Head(todo[t]).from
             e == [type |-> "notice", id |-> M!NoMsgId, kind |-> "BOUNCE"]
  <2>1. todo[t] # << >> /\ M!IsMessage(Head(todo[t]))
    BY <1>2 DEF M!DiscardToHook, M!Hooked, M!HoldsRef
  <2>2. Head(todo[t]) \in M!Entry /\ Tail(todo[t]) \in Seq(M!Entry)
    BY <1>1, <2>1
  <2>3. from \in Mailboxes
    BY <2>1, <2>2, Entries
  <2>4. e \in M!Entry
    BY Made DEF M!NoMsgId
  <2>5. /\ M!Enqueue(from, e) /\ todo' = [todo EXCEPT ![t] = Tail(@)]
        /\ UNCHANGED <<life, rc, lock, pc, mb, entry>>
    BY <1>2 DEF M!DiscardToHook
  <2> HIDE DEF from, e
  <2>6. BoxTypes'
    BY <2>3, <2>4, <2>5, BoxEnqueue DEF Types, BoxTypes
  <2>7. todo' \in [Threads -> Seq(M!Entry)]
    BY <2>2, <2>5 DEF Types, CallTypes
  <2> QED
    BY <2>5, <2>6, <2>7 DEF Types, CallTypes
<1>3. CASE M!DiscardUnhooked(t)
  <2>1. Tail(todo[t]) \in Seq(M!Entry)
    BY <1>1, <1>3 DEF M!DiscardUnhooked
  <2>2. todo' \in [Threads -> Seq(M!Entry)]
    BY <1>3, <2>1 DEF M!DiscardUnhooked, Types, CallTypes
  <2> QED
    BY <1>3, <2>2 DEF M!DiscardUnhooked, Types, CallTypes, BoxTypes
<1>4. CASE M!DiscardDone(t, l)
  <2>1. BoxTypes'
    BY <1>4 DEF M!DiscardDone, Types, BoxTypes
  <2>2. NoMailbox \in Mailboxes \cup {NoMailbox} /\ M!NULL \in M!Entry \cup {M!NULL}
    OBVIOUS
  <2> QED
    BY <1>1, <1>4, <2>1, <2>2, CallSet DEF M!DiscardDone, M!Goto, Types
<1> QED
  BY <1>2, <1>3, <1>4

(* Every step of a service thread keeps the types.                          *)
LEMMA ServiceTypes ==
  ASSUME Types, Routes, NEW c \in Clients, ServiceStep(c)
  PROVE  Types'
<1> DEFINE t == Service(c)
<1>s. t \in Threads /\ t \notin MailboxThreads /\ ServiceOK(c) /\ t = Service(c)
  BY Names DEF Routes
<1>l. \E d \in Clients : t = Service(d)
  BY <1>s
<1> HIDE DEF t
<1> USE DEF Types
<1>1. CASE Spawn(c)
  <2> DEFINE n == logins[c]
             u == <<c, n>>
             p == [pc EXCEPT ![t] = "serve"]
  <2>1. n \in 1..MaxLogins /\ u \in Mailboxes /\ u \in MailboxThreads
    BY <1>1, <1>s, LoginsOK, Names DEF Spawn, ClientTypes, ServiceOK, At
  <2>2. pc' = [p EXCEPT ![u] = "start"]
    BY <1>1, <1>s DEF Spawn
  <2> HIDE DEF u
  <2>3. pc' \in [Threads -> ServiceLabels \cup ThreadLabels]
    BY <2>2 DEF CallTypes, ServiceLabels, ThreadLabels
  <2>a. \A w \in Threads : pc'[w] = IF w = u THEN "start" ELSE IF w = t THEN "serve" ELSE pc[w]
    BY <2>2 DEF CallTypes
  <2>b. \A d \in Clients : Service(d) \in Threads /\ Service(d) # u
    BY <2>1, Names
  <2>c. \A v \in MailboxThreads : v \in Threads /\ v # t
    BY <1>s, Names
  <2>d. "serve" \in ServiceLabels /\ "start" \in ThreadLabels
    BY DEF ServiceLabels, ThreadLabels
  <2>4. /\ \A d \in Clients : pc'[Service(d)] \in ServiceLabels
        /\ \A v \in MailboxThreads : pc'[v] \in ThreadLabels
    BY <2>a, <2>b, <2>c, <2>d DEF CallTypes
  <2>5. CallTypes'
    BY <1>1, <2>3, <2>4 DEF Spawn, CallTypes, callVars
  <2>6. ClientTypes'
    BY <1>1, <2>1 DEF Spawn, ClientTypes, LoggedIn
  <2> QED
    BY <1>1, <2>5, <2>6 DEF Spawn, BoxTypes, SendTypes, boxVars, sendVars
<1>2. CASE ReadEOF(c)
  <2>1. CallTypes'
    BY <1>2, <1>s, <1>l, CallSame DEF ReadEOF, callVars, Go, Goto, ServiceLabels
  <2> QED
    BY <1>2, <2>1 DEF ReadEOF, BoxTypes, ClientTypes, SendTypes, LoggedIn, boxVars, sendVars
<1>3. CASE LogoutShutdown(c)
  <2>1. cbox[c] \in Mailboxes
    BY <1>3, <1>s, OwnBox DEF LogoutShutdown, At, ServiceOK
  <2>2. BoxTypes'
    BY <1>3, <2>1, BoxPlain DEF LogoutShutdown
  <2>3. CallTypes'
    BY <1>3, <1>s, <1>l, CallSame DEF LogoutShutdown, callVars, Go, Goto, ServiceLabels
  <2> QED
    BY <1>3, <2>2, <2>3 DEF LogoutShutdown, ClientTypes, SendTypes, LoggedIn, clientVars, sendVars
<1>4. CASE LogoutUnref(c)
  <2>1. cbox[c] \in Mailboxes
    BY <1>4, <1>s, OwnBox DEF LogoutUnref, At, ServiceOK
  <2>2. BoxTypes' /\ CallTypes'
    <3>1. CASE M!UnrefLast(t, cbox[c])
      BY <1>4, <1>s, <2>1, <3>1, UnrefLastTypes DEF LogoutUnref
    <3>2. CASE M!UnrefSome(cbox[c]) /\ Go(c, "clear") /\ UNCHANGED callVars
      BY <1>4, <1>s, <1>l, <2>1, <3>2, BoxPlain, CallSame DEF LogoutUnref, callVars, Go, Goto, ServiceLabels
    <3> QED
      BY <1>4, <1>s, <3>1, <3>2 DEF LogoutUnref
  <2> QED
    BY <1>4, <2>2 DEF LogoutUnref, ClientTypes, SendTypes, LoggedIn, clientVars, sendVars
<1>5. CASE LogoutClear(c)
  <2>1. CallTypes'
    BY <1>5, <1>s, <1>l, CallSame DEF LogoutClear, callVars, Go, Goto, ServiceLabels
  <2>2. ClientTypes'
    BY <1>5 DEF LogoutClear, ClientTypes, LoggedIn
  <2> QED
    BY <1>5, <2>1, <2>2 DEF LogoutClear, BoxTypes, SendTypes, boxVars, sendVars
<1>6. CASE JoinMailboxThread(c)
  <2>1. CallTypes'
    BY <1>6, <1>s, <1>l, CallSame DEF JoinMailboxThread, callVars, Go, Goto, ServiceLabels
  <2> QED
    BY <1>6, <2>1 DEF JoinMailboxThread, BoxTypes, ClientTypes, SendTypes, LoggedIn, boxVars, clientVars, sendVars
<1>7. CASE SendLookup(c)
  <2>1. CallTypes'
    BY <1>7, <1>s, <1>l, CallSame DEF SendLookup, callVars, Go, Goto, ServiceLabels
  <2>2. job[c] \in Traffic /\ job[c].to \in Clients
    BY <1>7, <1>s, TrafficOK DEF SendLookup, At, ServiceOK, Sending
  <2>3. SendTypes'
    BY <1>7, <2>2 DEF SendLookup, SendTypes, ClientTypes
  <2> QED
    BY <1>7, <2>1, <2>3 DEF SendLookup, BoxTypes, ClientTypes, LoggedIn, boxVars, clientVars
<1>8. CASE SendToSelf(c)
  <2>1. cbox[c] \in Mailboxes /\ job[c] \in Traffic
    BY <1>8, <1>s, OwnBox DEF SendToSelf, At, ServiceOK, Sending
  <2>2. job[c].id \in Ids
    BY <2>1 DEF Ids
  <2>3. BoxTypes'
    BY <1>8, <2>1, <2>2, BoxAdd DEF SendToSelf
  <2>4. CallTypes'
    BY <1>8, <1>s, <1>l, CallSame DEF SendToSelf, callVars, Go, Goto, ServiceLabels
  <2> QED
    BY <1>8, <2>3, <2>4 DEF SendToSelf, ClientTypes, SendTypes, LoggedIn, clientVars
<1>9. CASE SendLock(c)
  <2> DEFINE e == [type |-> "message", id |-> job[c].id, from |-> cbox[c]]
  <2>1. cbox[c] \in Mailboxes /\ job[c] \in Traffic /\ target[c] \in Mailboxes
    BY <1>9, <1>s, OwnBox DEF SendLock, At, ServiceOK, Sending, SendTypes
  <2>2. e \in M!Entry
    BY <2>1, Made, Entries DEF Ids
  <2>3. M!AddMessageLock(t, target[c], cbox[c], job[c].id)
    BY <1>9, <1>s DEF SendLock
  <2>4. /\ pc' = [pc EXCEPT ![t] = "add_ref"] /\ mb' = [mb EXCEPT ![t] = target[c]]
        /\ entry' = [entry EXCEPT ![t] = e] /\ lock' = [lock EXCEPT ![target[c]] = t]
        /\ UNCHANGED <<life, rc, box, store, todo>>
    BY <2>3 DEF M!AddMessageLock, M!Goto
  <2> HIDE DEF e
  <2>5. << >> \in Seq(M!Entry) /\ "add_ref" \in ServiceLabels
    BY DEF ServiceLabels
  <2>6. CallTypes'
    BY <1>9, <1>s, <1>l, <2>1, <2>2, <2>4, <2>5, CallSet DEF SendLock
  <2> QED
    BY <1>9, <1>s, <2>1, <2>4, <2>6 DEF SendLock, BoxTypes, ClientTypes, SendTypes, LoggedIn, clientVars, sendVars
<1>10. CASE SendEnqueue(c)
  <2>1. /\ cbox[c] \in Mailboxes /\ job[c] \in Traffic /\ mb[t] \in Mailboxes
        /\ entry[t] = [type |-> "message", id |-> job[c].id, from |-> cbox[c]]
    BY <1>10, <1>s, OwnBox DEF SendEnqueue, M!AddMessageRef, ServiceOK, Sending
  <2>2. entry[t] \in M!Entry /\ entry[t].from = cbox[c]
    BY <2>1, Made, Entries DEF Ids
  <2>3. /\ M!Enqueue(mb[t], entry[t]) /\ rc' = [rc EXCEPT ![cbox[c]] = @ + 1]
        /\ lock' = [lock EXCEPT ![mb[t]] = NoThread] /\ life' = life /\ todo' = todo
        /\ pc' = [pc EXCEPT ![t] = "serve"] /\ entry' = [entry EXCEPT ![t] = M!NULL]
        /\ mb' = [mb EXCEPT ![t] = NoMailbox]
    BY <1>10, <1>s, <2>2 DEF SendEnqueue, M!AddMessageRef, M!Goto
  <2>4. box' \in [Mailboxes -> Seq(M!Entry)] /\ store' \in [Mailboxes -> Nat]
    BY <2>1, <2>2, <2>3, BoxEnqueue
  <2>a. rc' \in [Mailboxes -> Nat]
    BY <2>1, <2>3 DEF BoxTypes
  <2>b. lock' \in [Mailboxes -> Threads \cup {NoThread}]
    BY <2>1, <2>3 DEF BoxTypes
  <2>5. BoxTypes'
    BY <2>3, <2>4, <2>a, <2>b DEF BoxTypes
  <2>6. << >> \in Seq(M!Entry) /\ "serve" \in ServiceLabels
    BY DEF ServiceLabels
  <2>7. CallTypes'
    BY <1>10, <1>s, <1>l, <2>3, <2>6, CallSet DEF SendEnqueue
  <2> QED
    BY <1>10, <2>5, <2>7 DEF SendEnqueue, ClientTypes, SendTypes, LoggedIn, clientVars
<1>11. CASE Discard(t)
  <2>2. pc[t] # "next_discard"
    BY <1>s DEF CallTypes, ServiceLabels
  <2>1. AfterDiscard(t) = "clear"
    BY <1>s, <2>2, Names DEF AfterDiscard
  <2>3. BoxTypes' /\ CallTypes'
    BY <1>11, <1>s, <1>l, <2>1, <2>2, DiscardTypes DEF Discard, ServiceLabels
  <2> QED
    BY <1>11, <2>3 DEF Discard, ClientTypes, SendTypes, LoggedIn, clientVars, sendVars
<1> QED
  BY <1>s, <1>1, <1>2, <1>3, <1>4, <1>5, <1>6, <1>7, <1>8, <1>9, <1>10, <1>11 DEF ServiceStep

(* The steps of a mailbox thread.                                           *)
LEMMA ThreadTypes ==
  ASSUME Types, Routes, NEW t \in MailboxThreads, MailboxStep(t)
  PROVE  Types'
<1>s. t \in Threads /\ ThreadOK(t) /\ t[1] \in Clients /\ t[2] # 0
  BY Names DEF Routes
<1>l. << >> \in Seq(M!Entry) /\ M!NULL \in M!Entry \cup {M!NULL}
  OBVIOUS
<1> USE DEF Types
<1>c. ASSUME UNCHANGED clientVars PROVE ClientTypes'
  BY <1>c DEF ClientTypes, LoggedIn, clientVars
<1>d. ASSUME UNCHANGED <<sendVars, out>> PROVE SendTypes'
  BY <1>d DEF SendTypes, sendVars
<1>b. ASSUME UNCHANGED boxVars PROVE BoxTypes'
  BY <1>b DEF BoxTypes, boxVars
<1>m. ASSUME NEW m \in Mailboxes \cup {NoMailbox}, NEW l \in ThreadLabels,
             mine' = [mine EXCEPT ![t] = m], Goto(t, l), UNCHANGED callVars
      PROVE  CallTypes'
  <2>1. mine' \in [MailboxThreads -> Mailboxes \cup {NoMailbox}]
    BY <1>m DEF CallTypes
  <2> QED
    BY <1>m, <1>s, <2>1, GotoTypes DEF CallTypes, callVars, Goto
<1>g. ASSUME NEW l \in ThreadLabels, Goto(t, l), UNCHANGED <<callVars, mine>>
      PROVE  CallTypes'
  BY <1>g, <1>s, CallSame DEF callVars, Goto
<1>1. CASE ThreadStart(t)
  BY <1>1, <1>c, <1>d, <1>b, <1>g DEF ThreadStart, ThreadLabels
<1>0. CASE ThreadField(t)
  BY <1>0, <1>s, <1>c, <1>d, <1>b, <1>m DEF ThreadField, ThreadLabels, ClientTypes
<1>2. CASE ThreadRef(t)
  <2>1. mine[t] \in Mailboxes
    BY <1>2 DEF ThreadRef, CallTypes
  <2>2. BoxTypes'
    BY <1>2, <2>1, BoxPlain DEF ThreadRef
  <2> QED
    BY <1>2, <2>2, <1>c, <1>d, <1>g DEF ThreadRef, ThreadLabels
<1>3. CASE ThreadGet(t)
  <2>1. cbox[t[1]] \in Mailboxes \cup {NoMailbox}
    BY <1>s DEF ClientTypes
  <2>2. CallTypes'
    BY <1>3, <1>s, <1>m, <2>1 DEF ThreadGet, ThreadLabels
  <2> QED
    BY <1>3, <2>2, <1>c, <1>d DEF ThreadGet, BoxTypes
<1>4. CASE ThreadHook(t)
  <2>1. mine[t] \in Mailboxes
    BY <1>4, <1>s DEF ThreadHook, ThreadOK
  <2>2. BoxTypes'
    BY <1>4, <2>1, BoxPlain DEF ThreadHook
  <2> QED
    BY <1>4, <2>2, <1>c, <1>d, <1>g DEF ThreadHook, ThreadLabels
<1>5. CASE ThreadWait(t)
  <2>1. mine[t] \in Mailboxes
    BY <1>5, <1>s DEF ThreadWait, ThreadOK
  <2>2. /\ mb' = [mb EXCEPT ![t] = mine[t]] /\ entry' = [entry EXCEPT ![t] = M!NULL]
        /\ pc' = [pc EXCEPT ![t] = "next_lock"] /\ todo' = todo /\ mine' = mine
        /\ store[mine[t]] > 0 /\ store' = [store EXCEPT ![mine[t]] = @ - 1]
        /\ UNCHANGED <<life, rc, box, lock>>
    BY <1>5 DEF ThreadWait, M!SemWait, M!Goto
  <2>3. CallTypes'
    BY <1>s, <1>l, <2>1, <2>2, CallSet DEF ThreadLabels
  <2>4. BoxTypes'
    BY <2>1, <2>2 DEF BoxTypes
  <2> QED
    BY <1>5, <2>3, <2>4, <1>c, <1>d DEF ThreadWait
<1>6. CASE ThreadNext(t)
  <2>0. mine' = mine /\ UNCHANGED <<clientVars, sendVars, out>>
    BY <1>6 DEF ThreadNext
  <2>1. CASE M!NextDefunct(t, "quit")
    <3>1. CallTypes'
      BY <1>s, <1>l, <2>0, <2>1, CallSet DEF M!NextDefunct, M!Goto, ThreadLabels
    <3>2. BoxTypes'
      BY <2>1 DEF M!NextDefunct, M!boxVars, BoxTypes
    <3> QED
      BY <2>0, <3>1, <3>2, <1>c, <1>d
  <2>2. CASE M!NextRemove(t, "got")
    <3> DEFINE m == mb[t]  e == Head(box[m])
    <3>1. m \in Mailboxes /\ box[m] # << >> /\ box[m] \in Seq(M!Entry)
      BY <2>2, <1>s DEF M!NextRemove, ThreadOK, BoxTypes
    <3>2. e \in M!Entry /\ Tail(box[m]) \in Seq(M!Entry)
      BY <3>1
    <3>3. /\ box' = [box EXCEPT ![m] = Tail(@)] /\ entry' = [entry EXCEPT ![t] = e]
          /\ UNCHANGED <<life, rc, store, todo>>
          /\ \/ lock' = [lock EXCEPT ![m] = t] /\ pc' = [pc EXCEPT ![t] = "next_unref"] /\ mb' = mb
             \/ /\ lock' = lock /\ pc' = [pc EXCEPT ![t] = "got"]
                /\ mb' = [mb EXCEPT ![t] = NoMailbox]
      BY <2>2 DEF M!NextRemove, M!Goto
    <3> HIDE DEF m, e
    <3>4. CallTypes'
      <4>1. PICK l \in {"next_unref", "got"} :
                 pc' = [pc EXCEPT ![t] = l] /\ (mb' = mb \/ mb' = [mb EXCEPT ![t] = NoMailbox])
        BY <3>3
      <4>2. /\ CallTypes /\ t \in Threads /\ t \in MailboxThreads
            /\ l \in ThreadLabels /\ NoMailbox \in Mailboxes \cup {NoMailbox}
        BY <1>s DEF ThreadLabels
      <4>3. /\ e \in M!Entry \cup {M!NULL} /\ entry' = [entry EXCEPT ![t] = e]
            /\ todo' = todo /\ mine' = mine
        BY <2>0, <3>2, <3>3
      <4> HIDE DEF Types
      <4> QED
        BY <1>l, <4>1, <4>2, <4>3, CallSet
    <3>5. box' \in [Mailboxes -> Seq(M!Entry)] /\ lock' \in [Mailboxes -> Threads \cup {NoThread}]
      BY <1>s, <3>1, <3>2, <3>3 DEF BoxTypes
    <3>6. BoxTypes'
      BY <3>3, <3>5 DEF BoxTypes
    <3> QED
      BY <2>0, <3>4, <3>6, <1>c, <1>d
  <2>3. CASE M!NextUnrefSome(t, "got")
    <3>1. /\ mb[t] \in Mailboxes /\ entry[t].from \in Mailboxes
      BY <2>3, <1>s, Entries DEF M!NextUnrefSome, ThreadOK
    <3>2. CallTypes'
      BY <1>s, <1>l, <2>0, <2>3, CallSet DEF M!NextUnrefSome, M!Goto, ThreadLabels
    <3>3. BoxTypes'
      BY <2>3, <3>1 DEF M!NextUnrefSome, BoxTypes
    <3> QED
      BY <2>0, <3>2, <3>3, <1>c, <1>d
  <2>4. CASE M!NextUnrefLast(t)
    <3> DEFINE m == entry[t].from
    <3>1. m \in Mailboxes
      BY <2>4, <1>s, Entries DEF M!NextUnrefLast, ThreadOK
    <3>2. M!Finalise(t, m) /\ pc' = [pc EXCEPT ![t] = "next_discard"] /\ UNCHANGED <<box, store, lock, mb, entry>>
      BY <2>4 DEF M!NextUnrefLast, M!Goto
    <3> HIDE DEF m
    <3>3. BoxTypes' /\ box[m] \in Seq(M!Entry)
      BY <1>s, <3>1, <3>2, BoxFinalise DEF BoxTypes
    <3>4. todo' = [todo EXCEPT ![t] = box[m]]
      BY <3>2 DEF M!Finalise
    <3>5. CallTypes'
      BY <1>s, <1>l, <2>0, <3>2, <3>3, <3>4, CallSet DEF ThreadLabels
    <3> QED
      BY <2>0, <3>3, <3>5, <1>c, <1>d
  <2> QED
    BY <1>6, <2>1, <2>2, <2>3, <2>4 DEF ThreadNext
<1>7. CASE ThreadSend(t)
  <2> DEFINE c == t[1]  e == entry[t]
  <2>1. e \in M!Entry /\ Packet(e) \in Packets
    BY <1>7, <1>s, PacketFacts DEF ThreadSend, ThreadOK
  <2>2. out' = [out EXCEPT ![c] = Append(@, Packet(e))] \/ out' = out
    BY <1>7 DEF ThreadSend
  <2>3. CallTypes'
    <3>1. \E l \in ThreadLabels : Goto(t, l)
      BY <1>7 DEF ThreadSend, ThreadLabels
    <3> QED
      BY <1>7, <1>g, <3>1 DEF ThreadSend
  <2> DEFINE p == Packet(e)
  <2>a. c \in Clients /\ p \in Packets /\ out \in [Clients -> Seq(Packets)]
    BY <1>s, <2>1 DEF SendTypes
  <2> HIDE DEF e, c, p
  <2>b. Append(out[c], p) \in Seq(Packets)
    BY <2>a
  <2>c. out' \in [Clients -> Seq(Packets)]
    BY <2>a, <2>b, <2>2 DEF p
  <2>4. SendTypes'
    BY <1>7, <2>c DEF ThreadSend, SendTypes, sendVars
  <2> QED
    BY <1>7, <2>3, <2>4, <1>b, <1>c DEF ThreadSend
<1>8. CASE ThreadNotify(t)
  <2>1. entry[t].from \in Mailboxes /\ entry[t].id \in Ids
    BY <1>8, <1>s, Entries DEF ThreadNotify, ThreadOK
  <2>2. BoxTypes'
    BY <1>8, <2>1, BoxAdd DEF ThreadNotify
  <2> QED
    BY <1>8, <2>2, <1>c, <1>d, <1>g DEF ThreadNotify, ThreadLabels
<1>9. CASE ThreadQuit(t)
  <2>1. mine[t] \in Mailboxes
    BY <1>9, <1>s DEF ThreadQuit, ThreadOK
  <2>2. BoxTypes' /\ CallTypes'
    <3>1. CASE M!UnrefSome(mine[t]) /\ Goto(t, "done") /\ UNCHANGED callVars
      BY <1>9, <2>1, <3>1, <1>g, BoxPlain DEF ThreadQuit, ThreadLabels
    <3>2. CASE M!UnrefLast(t, mine[t])
      BY <1>9, <1>s, <2>1, <3>2, UnrefLastTypes DEF ThreadQuit
    <3> QED
      BY <1>9, <3>1, <3>2 DEF ThreadQuit
  <2> QED
    BY <1>9, <2>2, <1>c, <1>d DEF ThreadQuit
<1>10. CASE Discard(t)
  <2>1. AfterDiscard(t) \in ThreadLabels
    BY <1>s DEF AfterDiscard, ThreadLabels
  <2>2. pc[t] = "next_discard" => mb[t] \in Mailboxes
    BY <1>s DEF ThreadOK
  <2>3. BoxTypes' /\ CallTypes'
    BY <1>10, <1>s, <2>1, <2>2, DiscardTypes DEF Discard
  <2> QED
    BY <1>10, <2>3, <1>c, <1>d DEF Discard
<1> QED
  BY <1>0, <1>1, <1>2, <1>3, <1>4, <1>5, <1>6, <1>7, <1>8, <1>9, <1>10 DEF MailboxStep

-----------------------------------------------------------------------------
(* What is where.  A step of the threads in S leaves the others where they are. *)
LEMMA RoutesOfOthers ==
  ASSUME Routes, NEW S,
         \A u \in Threads \ S : pc'[u] = pc[u] /\ mb'[u] = mb[u] /\ entry'[u] = entry[u],
         \A u \in MailboxThreads \ S : mine'[u] = mine[u],
         \A c \in Clients : Service(c) \notin S =>
           cstat'[c] = cstat[c] /\ cbox'[c] = cbox[c] /\ job'[c] = job[c] /\ target'[c] = target[c],
         \A m \in Mailboxes : life'[m] = "unborn" => life[m] = "unborn",
         \A c \in Clients : Service(c) \in S => ServiceOK(c)',
         \A u \in MailboxThreads : u \in S => ThreadOK(u)',
         \A m \in Mailboxes : BoxOK(m)'
  PROVE  Routes'
<1>1. ASSUME NEW c \in Clients PROVE ServiceOK(c)'
  <2>1. CASE Service(c) \in S
    BY <2>1
  <2>2. CASE Service(c) \notin S
    <3>1. Service(c) \in Threads \ S /\ ServiceOK(c)
      BY <2>2, Names DEF Routes
    <3> QED
      BY <2>2, <3>1 DEF ServiceOK, LoggedIn
  <2> QED
    BY <2>1, <2>2
<1>2. ASSUME NEW u \in MailboxThreads PROVE ThreadOK(u)'
  <2>1. CASE u \notin S
    <3>1. u \in Threads \ S /\ u \in MailboxThreads \ S /\ ThreadOK(u)
      BY <2>1, Names DEF Routes
    <3> QED
      BY <3>1 DEF ThreadOK, For
  <2> QED
    BY <2>1
<1> QED
  BY <1>1, <1>2 DEF Routes

(* A step of the service thread of c, of one mailbox thread, or of neither. *)
LEMMA RoutesOfService ==
  ASSUME Routes, NEW c \in Clients,
         \A u \in Threads : u # Service(c) => pc'[u] = pc[u] /\ mb'[u] = mb[u] /\ entry'[u] = entry[u],
         mine' = mine,
         \A d \in Clients : d # c =>
           cstat'[d] = cstat[d] /\ cbox'[d] = cbox[d] /\ job'[d] = job[d] /\ target'[d] = target[d],
         \A m \in Mailboxes : life'[m] = "unborn" => life[m] = "unborn",
         ServiceOK(c)', \A m \in Mailboxes : BoxOK(m)'
  PROVE  Routes'
<1> DEFINE S == {Service(c)}
<1>1. \A u \in Threads \ S : pc'[u] = pc[u] /\ mb'[u] = mb[u] /\ entry'[u] = entry[u]
  OBVIOUS
<1>2. \A u \in MailboxThreads \ S : mine'[u] = mine[u]
  OBVIOUS
<1>3. \A d \in Clients : Service(d) \notin S =>
        cstat'[d] = cstat[d] /\ cbox'[d] = cbox[d] /\ job'[d] = job[d] /\ target'[d] = target[d]
  OBVIOUS
<1>4. \A d \in Clients : Service(d) \in S => ServiceOK(d)'
  <2>1. \A d \in Clients : Service(d) \in S => d = c
    BY Names
  <2> QED
    BY <2>1
<1>5. \A u \in MailboxThreads : u \in S => ThreadOK(u)'
  BY Names
<1> HIDE DEF S
<1> QED
  BY <1>1, <1>2, <1>3, <1>4, <1>5, RoutesOfOthers

(* A step of a mailbox thread likewise.                                     *)
LEMMA RoutesOfThread ==
  ASSUME Routes, NEW t \in MailboxThreads,
         \A u \in Threads : u # t => pc'[u] = pc[u] /\ mb'[u] = mb[u] /\ entry'[u] = entry[u],
         \A u \in MailboxThreads : u # t => mine'[u] = mine[u],
         cstat' = cstat, cbox' = cbox, job' = job, target' = target,
         \A m \in Mailboxes : life'[m] = "unborn" => life[m] = "unborn",
         ThreadOK(t)', \A m \in Mailboxes : BoxOK(m)'
  PROVE  Routes'
<1> DEFINE S == {t}
<1>1. \A u \in Threads \ S : pc'[u] = pc[u] /\ mb'[u] = mb[u] /\ entry'[u] = entry[u]
  OBVIOUS
<1>2. \A u \in MailboxThreads \ S : mine'[u] = mine[u]
  OBVIOUS
<1>4. \A d \in Clients : Service(d) \in S => ServiceOK(d)'
  BY Names
<1>5. \A u \in MailboxThreads : u \in S => ThreadOK(u)'
  OBVIOUS
<1> HIDE DEF S
<1> QED
  BY <1>1, <1>2, <1>4, <1>5, RoutesOfOthers

(* Nothing that Routes is about changes.                                    *)
LEMMA RoutesSame ==
  ASSUME Routes, UNCHANGED <<pc, mb, entry, mine, cstat, cbox, job, target, box, life>>
  PROVE  Routes'
BY DEF Routes, ServiceOK, ThreadOK, BoxOK, For, LoggedIn

(* The calls that queue nothing leave the contents of mailboxes alone.      *)
LEMMA BoxesSame ==
  ASSUME Routes, box' = box, \A m \in Mailboxes : life'[m] = "unborn" => life[m] = "unborn"
  PROVE  \A m \in Mailboxes : BoxOK(m)'
BY DEF Routes, BoxOK, For

(* Queueing an entry for the client of a mailbox.                           *)
LEMMA BoxesPut ==
  ASSUME Types, Routes, NEW m \in Mailboxes, NEW e \in M!Entry, For(e, m[1]), life[m] # "unborn",
         M!Enqueue(m, e), life' = life
  PROVE  \A x \in Mailboxes : BoxOK(x)'
<1>1. \A x \in Mailboxes : box'[x] = IF x = m THEN Append(box[m], e) ELSE box[x]
  BY BoxEnqueue DEF Types
<1> SUFFICES ASSUME NEW x \in Mailboxes PROVE BoxOK(x)'
  OBVIOUS
<1>2. BoxOK(x) /\ BoxOK(m) /\ box[m] \in Seq(M!Entry)
  BY DEF Routes, Types, BoxTypes
<1>3. CASE x # m
  BY <1>1, <1>2, <1>3 DEF BoxOK, For
<1>4. CASE x = m
  <2>1. \A i \in DOMAIN box'[m] : For(box'[m][i], m[1])
    <3> SUFFICES ASSUME NEW i \in DOMAIN box'[m] PROVE For(box'[m][i], m[1])
      OBVIOUS
    <3>1. box'[m] = Append(box[m], e)
      BY <1>1
    <3>2. box'[m][i] = e \/ (i \in DOMAIN box[m] /\ box'[m][i] = box[m][i])
      BY <1>2, <3>1
    <3> QED
      BY <1>2, <3>2 DEF BoxOK
  <2> QED
    BY <1>4, <2>1 DEF BoxOK, For
<1> QED
  BY <1>3, <1>4

(* Any client may get a notice.                                             *)
LEMMA ForNotice ==
  \A id, k, c : For([type |-> "notice", id |-> id, kind |-> k], c)
BY DEF For, M!IsMessage

(* No call takes a mailbox back to before mb_init.                          *)
LEMMA LivesOn ==
  ASSUME BoxTypes, NEW m \in Mailboxes, NEW t \in Threads
  PROVE  /\ M!Create(m) \/ M!SetDiscardHook(m) \/ M!Ref(m) \/ M!Shutdown(m) \/ M!UnrefSome(m)
              => box' = box /\ \A x \in Mailboxes : life'[x] = "unborn" => life[x] = "unborn"
         /\ M!Finalise(t, m) => \A x \in Mailboxes : life'[x] = "unborn" => life[x] = "unborn"
BY DEF BoxTypes, M!Create, M!SetDiscardHook, M!Ref, M!Shutdown, M!UnrefSome, M!Finalise

(* What a client asks for: the mailbox a LOGIN creates is the client's own. *)
LEMMA RequestRoutes ==
  ASSUME Types, Routes, NEW c \in Clients, Request(c)
  PROVE  Routes'
<1> DEFINE t == Service(c)
<1>s. t \in Threads /\ t \notin MailboxThreads /\ ServiceOK(c) /\ t = Service(c)
  BY Names DEF Routes
<1>p. ASSUME NEW l, Go(c, l)
      PROVE  pc'[t] = l /\ \A u \in Threads : u # Service(c) => pc'[u] = pc[u]
  BY <1>p, <1>s DEF Types, CallTypes, Go, Goto
<1> HIDE DEF t
<1>1. CASE HangUp(c)
  BY <1>1, RoutesSame DEF HangUp, boxVars, callVars, sendVars
<1>2. CASE Login(c)
  <2> DEFINE n == logins[c] + 1
  <2>1. n \in 1..MaxLogins /\ <<c, n>> \in Mailboxes /\ M!Create(<<c, n>>)
    BY <1>2, LoginsOK, Names DEF Login, Types, ClientTypes
  <2>2. box' = box /\ \A x \in Mailboxes : life'[x] = "unborn" => life[x] = "unborn"
    BY <2>1, <1>s, LivesOn DEF Types
  <2>3. /\ cstat'[c] = "LOGGED_IN"
        /\ \A d \in Clients : d # c => cstat'[d] = cstat[d] /\ cbox'[d] = cbox[d]
        /\ mb' = mb /\ entry' = entry /\ mine' = mine /\ job' = job /\ target' = target
    BY <1>2 DEF Login, callVars, sendVars, Types, ClientTypes
  <2>4. pc'[t] = "spawn" /\ \A u \in Threads : u # Service(c) => pc'[u] = pc[u]
    BY <1>2, <1>p DEF Login
  <2>5. ServiceOK(c)'
    BY <2>3, <2>4, <1>s DEF ServiceOK, LoggedIn, Sending
  <2> QED
    BY <2>2, <2>3, <2>4, <2>5, BoxesSame, RoutesOfService
<1>3. CASE LogoutPacket(c)
  <2>1. pc'[t] = "shutdown" /\ LoggedIn(c) /\ \A u \in Threads : u # Service(c) => pc'[u] = pc[u]
    BY <1>3, <1>p DEF LogoutPacket
  <2>2. UNCHANGED <<mb, entry, mine, cstat, cbox, job, target, box, life>>
    BY <1>3 DEF LogoutPacket, boxVars, callVars, clientVars, sendVars
  <2>3. ServiceOK(c)'
    BY <2>1, <2>2, <1>s DEF ServiceOK, LoggedIn, Sending
  <2> QED
    BY <2>1, <2>2, <2>3, BoxesSame, RoutesOfService
<1>4. CASE SendPacket(c)
  <2>1. PICK x \in unsent :
          \/ Go(c, "lookup") /\ job' = [job EXCEPT ![c] = x]
          \/ UNCHANGED <<pc, job>>
    BY <1>4 DEF SendPacket
  <2>2. UNCHANGED <<mb, entry, mine, cstat, cbox, target, box, life>> /\ LoggedIn(c)
    BY <1>4 DEF SendPacket, boxVars, callVars, clientVars
  <2>3. CASE UNCHANGED <<pc, job>>
    BY <2>2, <2>3, RoutesSame
  <2>4. CASE Go(c, "lookup") /\ job' = [job EXCEPT ![c] = x]
    <3>1. pc'[t] = "lookup" /\ \A u \in Threads : u # Service(c) => pc'[u] = pc[u]
      BY <2>4, <1>p
    <3>2. job'[c] = x /\ x \in Traffic /\ \A d \in Clients : d # c => job'[d] = job[d]
      BY <2>4 DEF Types, SendTypes
    <3>3. ServiceOK(c)'
      BY <2>2, <3>1, <3>2, <1>s DEF ServiceOK, LoggedIn, Sending
    <3> QED
      BY <2>2, <3>1, <3>2, <3>3, BoxesSame, RoutesOfService
  <2> QED
    BY <2>1, <2>3, <2>4
<1> QED
  BY <1>1, <1>2, <1>3, <1>4 DEF Request

(* The discarding loop adds notices, which are for anyone, and then moves on. *)
LEMMA DiscardBoxes ==
  ASSUME Types, Routes, NEW t \in Threads, NEW l,
         M!DiscardToHook(t) \/ M!DiscardUnhooked(t) \/ M!DiscardDone(t, l)
  PROVE  /\ life' = life /\ entry' = entry
         /\ \A m \in Mailboxes : BoxOK(m)'
         /\ \/ pc' = pc /\ mb' = mb
            \/ /\ M!Discarding(t)
               /\ pc' = [pc EXCEPT ![t] = l] /\ mb' = [mb EXCEPT ![t] = NoMailbox]
<1>1. CASE M!DiscardToHook(t)
  <2> DEFINE from == Head(todo[t]).from
             e == [type |-> "notice", id |-> M!NoMsgId, kind |-> "BOUNCE"]
  <2>1. todo[t] # << >> /\ M!IsMessage(Head(todo[t])) /\ todo[t] \in Seq(M!Entry)
    BY <1>1 DEF M!DiscardToHook, M!Hooked, M!HoldsRef, Types, CallTypes
  <2>2. from \in Mailboxes
    BY <2>1, Entries
  <2>3. e \in M!Entry /\ For(e, from[1])
    BY Made, ForNotice DEF M!NoMsgId
  <2>4. /\ M!Enqueue(from, e) /\ life[from] = "live"
        /\ UNCHANGED <<life, pc, mb, entry>>
    BY <1>1 DEF M!DiscardToHook, M!Unlocked
  <2> HIDE DEF from, e
  <2> QED
    BY <2>2, <2>3, <2>4, BoxesPut
<1>2. CASE M!DiscardUnhooked(t)
  <2>1. UNCHANGED <<life, box, pc, mb, entry>>
    BY <1>2 DEF M!DiscardUnhooked
  <2> QED
    BY <2>1, BoxesSame
<1>3. CASE M!DiscardDone(t, l)
  <2>1. /\ UNCHANGED <<life, box, entry>> /\ M!Discarding(t)
        /\ pc' = [pc EXCEPT ![t] = l] /\ mb' = [mb EXCEPT ![t] = NoMailbox]
    BY <1>3 DEF M!DiscardDone, M!Goto
  <2> QED
    BY <2>1, BoxesSame
<1> QED
  BY <1>1, <1>2, <1>3

(* The service thread: the mailbox that SEND looks up is one of the         *)
(* receiver's, of whichever login.                                          *)
LEMMA ServiceRoutes ==
  ASSUME Types, Routes, NEW c \in Clients, ServiceStep(c)
  PROVE  Routes'
<1> DEFINE t == Service(c)
<1>s. t \in Threads /\ t \notin MailboxThreads /\ ServiceOK(c) /\ t = Service(c)
  BY Names DEF Routes
<1>p. ASSUME NEW l, Go(c, l)
      PROVE  pc'[t] = l /\ \A u \in Threads : u # Service(c) => pc'[u] = pc[u]
  BY <1>p, <1>s DEF Types, CallTypes, Go, Goto
<1> HIDE DEF t
<1>1. CASE Spawn(c)
  <2> DEFINE p == [pc EXCEPT ![t] = "serve"]
  <2>0. logins[c] \in 1..MaxLogins
    BY <1>1, <1>s, LoginsOK DEF Spawn, Types, ClientTypes, ServiceOK, At
  <2>1. PICK u \in MailboxThreads : u = <<c, logins[c]>>
    BY <2>0, Names
  <2>2. pc' = [p EXCEPT ![u] = "start"]
    BY <1>1, <1>s, <2>1 DEF Spawn
  <2>3. UNCHANGED <<mb, entry, mine, cstat, cbox, job, target, box, life>>
    BY <1>1 DEF Spawn, boxVars, callVars, sendVars
  <2> DEFINE S == {t, u}
  <2>4. /\ pc'[t] = "serve" /\ pc'[u] = "start"
        /\ \A w \in Threads : w # t /\ w # u => pc'[w] = pc[w]
    BY <1>s, <2>1, <2>2, Names DEF Types, CallTypes
  <2>5. ServiceOK(c)'
    BY <2>4, <1>s DEF ServiceOK, Sending
  <2>6. ThreadOK(u)'
    BY <2>1, <2>3, <2>4 DEF ThreadOK, Routes, InNext
  <2>7. \A d \in Clients : Service(d) \in S => ServiceOK(d)'
    BY <2>1, <2>5, <1>s, Names
  <2>8. \A w \in MailboxThreads : w \in S => ThreadOK(w)'
    BY <2>6, <1>s
  <2>9. \A m \in Mailboxes : BoxOK(m)'
    BY <2>3, BoxesSame
  <2>10. \A w \in Threads \ S : pc'[w] = pc[w]
    BY <2>4
  <2> HIDE DEF S
  <2> QED
    BY <2>3, <2>7, <2>8, <2>9, <2>10, RoutesOfOthers
<1>2. CASE ReadEOF(c)
  <2>1. PICK l \in {"shutdown", "join"} : Go(c, l) /\ (l = "shutdown" => LoggedIn(c))
    BY <1>2 DEF ReadEOF
  <2>2. pc'[t] = l /\ \A u \in Threads : u # Service(c) => pc'[u] = pc[u]
    BY <2>1, <1>p
  <2>3. UNCHANGED <<mb, entry, mine, cstat, cbox, job, target, box, life>>
    BY <1>2 DEF ReadEOF, boxVars, callVars, sendVars
  <2>4. ServiceOK(c)'
    BY <2>1, <2>2, <2>3, <1>s DEF ServiceOK, LoggedIn, Sending
  <2> QED
    BY <2>2, <2>3, <2>4, BoxesSame, RoutesOfService
<1>3. CASE LogoutShutdown(c)
  <2>1. cbox[c] \in Mailboxes /\ LoggedIn(c)
    BY <1>3, <1>s, OwnBox DEF LogoutShutdown, At, ServiceOK
  <2>2. pc'[t] = "unref" /\ \A u \in Threads : u # Service(c) => pc'[u] = pc[u]
    BY <1>3, <1>p DEF LogoutShutdown
  <2>3. UNCHANGED <<mb, entry, mine, cstat, cbox, job, target>>
    BY <1>3 DEF LogoutShutdown, callVars, clientVars, sendVars
  <2>4. ServiceOK(c)'
    BY <2>1, <2>2, <2>3, <1>s DEF ServiceOK, LoggedIn, Sending
  <2>5. box' = box /\ \A x \in Mailboxes : life'[x] = "unborn" => life[x] = "unborn"
    BY <1>3, <1>s, <2>1, LivesOn DEF LogoutShutdown, Types
  <2> QED
    BY <2>2, <2>3, <2>4, <2>5, BoxesSame, RoutesOfService
<1>4. CASE LogoutUnref(c)
  <2>1. cbox[c] \in Mailboxes
    BY <1>4, <1>s, OwnBox DEF LogoutUnref, At, ServiceOK
  <2>2. UNCHANGED <<entry, mine, cstat, cbox, job, target>>
    BY <1>4 DEF LogoutUnref, M!UnrefLast, callVars, clientVars, sendVars
  <2>3. box' = box /\ \A x \in Mailboxes : life'[x] = "unborn" => life[x] = "unborn"
    BY <1>4, <1>s, <2>1, LivesOn DEF LogoutUnref, M!UnrefLast, Types
  <2>4. /\ pc'[t] \in {"clear", "discard"}
        /\ \A u \in Threads : u # Service(c) => pc'[u] = pc[u] /\ mb'[u] = mb[u]
    <3>1. CASE M!UnrefLast(t, cbox[c])
      BY <3>1, <1>s DEF M!UnrefLast, M!Goto, Types, CallTypes
    <3>2. CASE Go(c, "clear") /\ UNCHANGED callVars
      BY <3>2, <1>p DEF callVars
    <3> QED
      BY <1>4, <1>s, <3>1, <3>2 DEF LogoutUnref
  <2>5. ServiceOK(c)'
    BY <2>4, <1>s DEF ServiceOK, Sending
  <2> QED
    BY <2>2, <2>3, <2>4, <2>5, BoxesSame, RoutesOfService
<1>5. CASE LogoutClear(c)
  <2>1. PICK l \in {"join", "serve"} : Go(c, l)
    BY <1>5 DEF LogoutClear
  <2>2. pc'[t] = l /\ \A u \in Threads : u # Service(c) => pc'[u] = pc[u]
    BY <2>1, <1>p
  <2>3. /\ UNCHANGED <<mb, entry, mine, job, target, box, life>>
        /\ \A d \in Clients : d # c => cstat'[d] = cstat[d] /\ cbox'[d] = cbox[d]
    BY <1>5 DEF LogoutClear, boxVars, callVars, sendVars, Types, ClientTypes
  <2>4. ServiceOK(c)'
    BY <2>2, <1>s DEF ServiceOK, Sending
  <2> QED
    BY <2>2, <2>3, <2>4, BoxesSame, RoutesOfService
<1>6. CASE JoinMailboxThread(c)
  <2>2. pc'[t] = "gone" /\ \A u \in Threads : u # Service(c) => pc'[u] = pc[u]
    BY <1>6, <1>p DEF JoinMailboxThread
  <2>3. UNCHANGED <<mb, entry, mine, cstat, cbox, job, target, box, life>>
    BY <1>6 DEF JoinMailboxThread, boxVars, callVars, clientVars, sendVars
  <2>4. ServiceOK(c)'
    BY <2>2, <1>s DEF ServiceOK, Sending
  <2> QED
    BY <2>2, <2>3, <2>4, BoxesSame, RoutesOfService
<1>7. CASE SendLookup(c)
  <2> DEFINE r == job[c].to
  <2>1. job[c] \in Traffic /\ r \in Clients /\ LoggedIn(c)
    BY <1>7, <1>s, TrafficOK DEF SendLookup, At, ServiceOK, Sending
  <2>2. pc'[t] = "add" /\ \A u \in Threads : u # Service(c) => pc'[u] = pc[u]
    BY <1>7, <1>p DEF SendLookup
  <2>3. UNCHANGED <<mb, entry, mine, cstat, cbox, job, box, life>>
    BY <1>7 DEF SendLookup, boxVars, callVars, clientVars
  <2>4. /\ target'[c] = IF LoggedIn(r) THEN cbox[r] ELSE NoMailbox
        /\ \A d \in Clients : d # c => target'[d] = target[d]
    BY <1>7 DEF SendLookup, Types, SendTypes
  <2>5. target'[c] # NoMailbox => target'[c][1] = r
    BY <2>1, <2>4, OwnBox
  <2>6. ServiceOK(c)'
    BY <2>1, <2>2, <2>3, <2>5, <1>s DEF ServiceOK, LoggedIn, Sending
  <2> QED
    BY <2>2, <2>3, <2>4, <2>6, BoxesSame, RoutesOfService
<1>8. CASE SendToSelf(c)
  <2> DEFINE e == [type |-> "message", id |-> job[c].id, from |-> cbox[c]]
  <2>1. cbox[c] \in Mailboxes /\ job[c] \in Traffic /\ target[c] = cbox[c] /\ cbox[c][1] = job[c].to
    BY <1>8, <1>s, OwnBox, Names DEF SendToSelf, At, ServiceOK, Sending
  <2>2. e \in M!Entry /\ For(e, cbox[c][1])
    BY <2>1, Made, Entries, TrafficOK DEF Ids, For
  <2>3. M!Enqueue(cbox[c], e) /\ life[cbox[c]] = "live" /\ life' = life
    BY <1>8 DEF SendToSelf, M!AddOwnMessage, M!Unlocked
  <2> HIDE DEF e
  <2>4. \A m \in Mailboxes : BoxOK(m)'
    BY <2>1, <2>2, <2>3, BoxesPut
  <2>5. pc'[t] = "serve" /\ \A u \in Threads : u # Service(c) => pc'[u] = pc[u]
    BY <1>8, <1>p DEF SendToSelf
  <2>6. UNCHANGED <<mb, entry, mine, cstat, cbox, job, target>>
    BY <1>8 DEF SendToSelf, callVars, clientVars
  <2>7. ServiceOK(c)'
    BY <2>5, <1>s DEF ServiceOK, Sending
  <2> QED
    BY <2>3, <2>4, <2>5, <2>6, <2>7, RoutesOfService
<1>9. CASE SendLock(c)
  <2> DEFINE e == [type |-> "message", id |-> job[c].id, from |-> cbox[c]]
  <2>1. /\ target[c] \in Mailboxes /\ LoggedIn(c) /\ job[c] \in Traffic /\ target[c][1] = job[c].to
    BY <1>9, <1>s DEF SendLock, At, ServiceOK, Sending, Types, SendTypes
  <2>2. M!AddMessageLock(t, target[c], cbox[c], job[c].id)
    BY <1>9, <1>s DEF SendLock
  <2>3. /\ pc' = [pc EXCEPT ![t] = "add_ref"] /\ mb' = [mb EXCEPT ![t] = target[c]]
        /\ entry' = [entry EXCEPT ![t] = e] /\ UNCHANGED <<life, box>>
        /\ life[target[c]] = "live"
    BY <2>2 DEF M!AddMessageLock, M!Goto, M!Unlocked
  <2>4. UNCHANGED <<mine, cstat, cbox, job, target>>
    BY <1>9 DEF SendLock, clientVars, sendVars
  <2>5. /\ pc'[t] = "add_ref" /\ mb'[t] = target[c] /\ entry'[t] = e
        /\ \A u \in Threads : u # t => pc'[u] = pc[u] /\ mb'[u] = mb[u] /\ entry'[u] = entry[u]
    BY <2>3, <1>s DEF Types, CallTypes
  <2>6. ServiceOK(c)'
    BY <2>1, <2>3, <2>4, <2>5, <1>s DEF ServiceOK, LoggedIn, Sending
  <2> HIDE DEF e
  <2> QED
    BY <2>3, <2>4, <2>5, <2>6, <1>s, BoxesSame, RoutesOfService
<1>10. CASE SendEnqueue(c)
  <2>1. /\ cbox[c] \in Mailboxes /\ job[c] \in Traffic /\ mb[t] \in Mailboxes
        /\ mb[t][1] = job[c].to /\ life[mb[t]] # "unborn"
        /\ entry[t] = [type |-> "message", id |-> job[c].id, from |-> cbox[c]]
    BY <1>10, <1>s, OwnBox DEF SendEnqueue, M!AddMessageRef, ServiceOK, Sending
  <2>2. entry[t] \in M!Entry /\ For(entry[t], mb[t][1])
    BY <2>1, Made, Entries, TrafficOK DEF Ids, For
  <2>3. /\ M!Enqueue(mb[t], entry[t]) /\ life' = life
        /\ pc' = [pc EXCEPT ![t] = "serve"] /\ entry' = [entry EXCEPT ![t] = M!NULL]
        /\ mb' = [mb EXCEPT ![t] = NoMailbox]
    BY <1>10, <1>s DEF SendEnqueue, M!AddMessageRef, M!Goto
  <2>4. \A m \in Mailboxes : BoxOK(m)'
    BY <2>1, <2>2, <2>3, BoxesPut
  <2>5. /\ pc'[t] = "serve"
        /\ \A u \in Threads : u # t => pc'[u] = pc[u] /\ mb'[u] = mb[u] /\ entry'[u] = entry[u]
    BY <2>3, <1>s DEF Types, CallTypes
  <2>6. UNCHANGED <<mine, cstat, cbox, job, target>>
    BY <1>10 DEF SendEnqueue, clientVars
  <2>7. ServiceOK(c)'
    BY <2>5, <1>s DEF ServiceOK, Sending
  <2> QED
    BY <2>3, <2>4, <2>5, <2>6, <2>7, <1>s, RoutesOfService
<1>11. CASE Discard(t)
  <2> DEFINE l == AfterDiscard(t)
  <2>1. pc[t] # "next_discard"
    BY <1>s DEF Types, CallTypes, ServiceLabels
  <2>2. l = "clear"
    BY <1>s, <2>1, Names DEF AfterDiscard
  <2>3. UNCHANGED <<mine, cstat, cbox, job, target>>
    BY <1>11 DEF Discard, clientVars, sendVars
  <2> HIDE DEF l
  <2>4. M!DiscardToHook(t) \/ M!DiscardUnhooked(t) \/ M!DiscardDone(t, l)
    BY <1>11 DEF Discard, l
  <2>5. /\ life' = life /\ entry' = entry
        /\ \A m \in Mailboxes : BoxOK(m)'
        /\ \/ pc' = pc /\ mb' = mb
           \/ /\ M!Discarding(t)
              /\ pc' = [pc EXCEPT ![t] = l] /\ mb' = [mb EXCEPT ![t] = NoMailbox]
    BY <1>s, <2>4, DiscardBoxes
  <2>6. \A u \in Threads : u # t => pc'[u] = pc[u] /\ mb'[u] = mb[u]
    BY <1>s, <2>5 DEF Types, CallTypes
  <2>7. ServiceOK(c)'
    <3>1. CASE pc' = pc /\ mb' = mb
      BY <2>3, <2>5, <3>1, <1>s DEF ServiceOK, LoggedIn
    <3>2. CASE pc' = [pc EXCEPT ![t] = l]
      <4>1. pc'[t] = "clear"
        BY <3>2, <2>2, <1>s DEF Types, CallTypes
      <4> QED
        BY <4>1, <1>s DEF ServiceOK, Sending
    <3> QED
      BY <2>5, <3>1, <3>2
  <2> QED
    BY <2>3, <2>5, <2>6, <2>7, <1>s, RoutesOfService
<1> QED
  BY <1>s, <1>1, <1>2, <1>3, <1>4, <1>5, <1>6, <1>7, <1>8, <1>9, <1>10, <1>11 DEF ServiceStep

(* The mailbox thread: what mb_next_entry returns comes from its own        *)
(* client's mailbox.                                                        *)
LEMMA ThreadRoutes ==
  ASSUME Types, Routes, NEW t \in MailboxThreads, MailboxStep(t)
  PROVE  Routes'
<1>s. /\ t \in Threads /\ t \in Mailboxes /\ ThreadOK(t) /\ t[1] \in Clients /\ t[2] # 0
      /\ NoMailbox \notin Mailboxes
  BY Names DEF Routes
<1>p. ASSUME NEW l, Goto(t, l)
      PROVE  pc'[t] = l /\ \A u \in Threads : u # t => pc'[u] = pc[u]
  BY <1>p, <1>s DEF Types, CallTypes, Goto
<1>1. CASE ThreadStart(t)
  <2>1. UNCHANGED <<mb, entry, mine, cstat, cbox, job, target, box, life>>
    BY <1>1 DEF ThreadStart, boxVars, callVars, clientVars, sendVars
  <2>2. PICK l \in {"field", "done"} : Goto(t, l)
    BY <1>1 DEF ThreadStart
  <2>3. pc'[t] = l /\ \A u \in Threads : u # t => pc'[u] = pc[u]
    BY <2>2, <1>p
  <2>4. ThreadOK(t)'
    BY <1>s, <2>1, <2>3 DEF ThreadOK, InNext
  <2> QED
    BY <2>1, <2>3, <2>4, BoxesSame, RoutesOfThread
<1>0. CASE ThreadField(t)
  <2>1. UNCHANGED <<mb, entry, cstat, cbox, job, target, box, life>>
    BY <1>0 DEF ThreadField, boxVars, callVars, clientVars, sendVars
  <2>2. pc'[t] = "ref" /\ \A u \in Threads : u # t => pc'[u] = pc[u]
    BY <1>0, <1>p DEF ThreadField
  <2>3. mine'[t] = cbox[t[1]] /\ \A u \in MailboxThreads : u # t => mine'[u] = mine[u]
    BY <1>0 DEF ThreadField, Types, CallTypes
  <2>4. cbox[t[1]] # NoMailbox => cbox[t[1]][1] = t[1]
    BY <1>s, OwnBox DEF Types, ClientTypes
  <2>5. ThreadOK(t)'
    BY <1>s, <2>1, <2>2, <2>3, <2>4 DEF ThreadOK, InNext
  <2> QED
    BY <2>1, <2>2, <2>3, <2>5, BoxesSame, RoutesOfThread
<1>2. CASE ThreadRef(t)
  <2>1. mine[t] \in Mailboxes
    BY <1>2 DEF ThreadRef, Types, CallTypes
  <2>2. box' = box /\ \A x \in Mailboxes : life'[x] = "unborn" => life[x] = "unborn"
    BY <1>2, <1>s, <2>1, LivesOn DEF ThreadRef, Types
  <2>3. UNCHANGED <<mb, entry, mine, cstat, cbox, job, target>>
    BY <1>2 DEF ThreadRef, callVars, clientVars, sendVars
  <2>4. pc'[t] = "get" /\ \A u \in Threads : u # t => pc'[u] = pc[u]
    BY <1>2, <1>p DEF ThreadRef
  <2>5. ThreadOK(t)'
    BY <1>s, <2>1, <2>3, <2>4 DEF ThreadOK, InNext
  <2> QED
    BY <2>2, <2>3, <2>4, <2>5, BoxesSame, RoutesOfThread
<1>3. CASE ThreadGet(t)
  <2> DEFINE m == cbox[t[1]]
  <2>1. m # NoMailbox => m \in Mailboxes /\ m[1] = t[1]
    <3>1. CASE LoggedIn(t[1])
      BY <1>s, <3>1, OwnBox
    <3>2. CASE ~LoggedIn(t[1])
      BY <1>s, <3>2 DEF Types, ClientTypes
    <3> QED
      BY <3>1, <3>2
  <2>2. UNCHANGED <<mb, entry, cstat, cbox, job, target, box, life>>
    BY <1>3 DEF ThreadGet, callVars, clientVars, sendVars
  <2>3. mine'[t] = m /\ \A u \in MailboxThreads : u # t => mine'[u] = mine[u]
    BY <1>3 DEF ThreadGet, Types, CallTypes
  <2>4. /\ pc'[t] = (IF m = NoMailbox THEN "done" ELSE "hook")
        /\ \A u \in Threads : u # t => pc'[u] = pc[u]
    BY <1>3, <1>p DEF ThreadGet
  <2>5. ThreadOK(t)'
    BY <1>s, <2>1, <2>2, <2>3, <2>4 DEF ThreadOK, InNext
  <2> QED
    BY <2>2, <2>3, <2>4, <2>5, BoxesSame, RoutesOfThread
<1>4. CASE ThreadHook(t)
  <2>1. mine[t] \in Mailboxes
    BY <1>4, <1>s DEF ThreadHook, ThreadOK
  <2>2. box' = box /\ \A x \in Mailboxes : life'[x] = "unborn" => life[x] = "unborn"
    BY <1>4, <1>s, <2>1, LivesOn DEF ThreadHook, Types
  <2>3. UNCHANGED <<mb, entry, mine, cstat, cbox, job, target>>
    BY <1>4 DEF ThreadHook, callVars, clientVars, sendVars
  <2>4. pc'[t] = "loop" /\ \A u \in Threads : u # t => pc'[u] = pc[u]
    BY <1>4, <1>p DEF ThreadHook
  <2>5. ThreadOK(t)'
    BY <1>s, <2>1, <2>3, <2>4 DEF ThreadOK, InNext
  <2> QED
    BY <2>2, <2>3, <2>4, <2>5, BoxesSame, RoutesOfThread
<1>5. CASE ThreadWait(t)
  <2>1. mine[t] \in Mailboxes /\ mine[t][1] = t[1]
    BY <1>5, <1>s DEF ThreadWait, ThreadOK
  <2>2. /\ mb' = [mb EXCEPT ![t] = mine[t]] /\ entry' = [entry EXCEPT ![t] = M!NULL]
        /\ Goto(t, "next_lock") /\ UNCHANGED <<life, box>>
        /\ UNCHANGED <<mine, cstat, cbox, job, target>>
    BY <1>5 DEF ThreadWait, M!SemWait, M!Goto, Goto, clientVars, sendVars
  <2>3. /\ pc'[t] = "next_lock" /\ mb'[t] = mine[t]
        /\ \A u \in Threads : u # t => pc'[u] = pc[u] /\ mb'[u] = mb[u] /\ entry'[u] = entry[u]
    BY <1>s, <1>p, <2>2 DEF Types, CallTypes
  <2>4. ThreadOK(t)'
    BY <1>s, <2>1, <2>2, <2>3 DEF ThreadOK, InNext
  <2> QED
    BY <2>2, <2>3, <2>4, BoxesSame, RoutesOfThread
<1>6. CASE ThreadNext(t)
  <2>0. UNCHANGED <<mine, cstat, cbox, job, target>>
    BY <1>6 DEF ThreadNext, clientVars, sendVars
  <2>1. CASE M!NextDefunct(t, "quit")
    <3>1. /\ mb' = [mb EXCEPT ![t] = NoMailbox] /\ Goto(t, "quit") /\ pc[t] = "next_lock"
          /\ UNCHANGED <<life, box, entry>>
      BY <2>1 DEF M!NextDefunct, M!Goto, Goto, M!boxVars
    <3>2. /\ pc'[t] = "quit" /\ mb'[t] = NoMailbox
          /\ \A u \in Threads : u # t => pc'[u] = pc[u] /\ mb'[u] = mb[u]
      BY <1>s, <1>p, <3>1 DEF Types, CallTypes
    <3>3. ThreadOK(t)'
      BY <1>s, <2>0, <3>1, <3>2 DEF ThreadOK, InNext
    <3> QED
      BY <2>0, <3>1, <3>2, <3>3, BoxesSame, RoutesOfThread
  <2>2. CASE M!NextRemove(t, "got")
    <3>1. PICK m \in Mailboxes : m = mb[t] /\ m[1] = t[1]
      BY <2>2, <1>s DEF M!NextRemove, ThreadOK
    <3>2. PICK e : e = Head(box[m])
      OBVIOUS
    <3>3. /\ pc[t] = "next_lock" /\ box[m] # << >> /\ life' = life
          /\ box' = [box EXCEPT ![m] = Tail(@)] /\ entry' = [entry EXCEPT ![t] = e]
          /\ \/ M!HoldsRef(m, e) /\ Goto(t, "next_unref") /\ mb' = mb
             \/ Goto(t, "got") /\ mb' = [mb EXCEPT ![t] = NoMailbox]
      BY <2>2, <3>1, <3>2 DEF M!NextRemove, M!Goto, Goto
    <3>4. box[m] \in Seq(M!Entry) /\ BoxOK(m)
      BY DEF Types, BoxTypes, Routes
    <3>5. e \in M!Entry /\ For(e, m[1])
      BY <3>2, <3>3, <3>4 DEF BoxOK
    <3>6. /\ pc'[t] \in {"next_unref", "got"} /\ entry'[t] = e
          /\ mb'[t] \in {m, NoMailbox} /\ (pc'[t] = "next_unref" => mb'[t] = m /\ M!IsMessage(e))
          /\ \A u \in Threads : u # t => pc'[u] = pc[u] /\ mb'[u] = mb[u] /\ entry'[u] = entry[u]
      BY <1>s, <1>p, <3>1, <3>3 DEF Types, CallTypes, M!HoldsRef
    <3>7. For(entry'[t], t[1])
      BY <3>1, <3>5, <3>6
    <3>8. pc'[t] = "next_unref" => entry'[t] \in M!Message
      BY <3>5, <3>6, Entries
    <3>9. ThreadOK(t)'
      BY <1>s, <2>0, <3>1, <3>3, <3>5, <3>6, <3>7, <3>8 DEF ThreadOK, InNext, For
    <3>10. \A x \in Mailboxes : BoxOK(x)'
      <4> SUFFICES ASSUME NEW x \in Mailboxes PROVE BoxOK(x)'
        OBVIOUS
      <4>1. box'[x] = IF x = m THEN Tail(box[m]) ELSE box[x]
        BY <3>3 DEF Types, BoxTypes
      <4>2. BoxOK(x)
        BY DEF Routes
      <4>3. CASE x # m
        BY <3>3, <4>1, <4>2, <4>3 DEF BoxOK, For
      <4>4. CASE x = m
        <5>1. \A i \in DOMAIN box'[m] : For(box'[m][i], m[1])
          <6> SUFFICES ASSUME NEW i \in DOMAIN box'[m] PROVE For(box'[m][i], m[1])
            OBVIOUS
          <6>1. i + 1 \in DOMAIN box[m] /\ box'[m][i] = box[m][i + 1]
            <7>1. box'[m] = Tail(box[m]) /\ box[m] \in Seq(M!Entry) /\ box[m] # << >>
              BY <3>3, <3>4, <4>1, <4>4
            <7>2. i \in 1..Len(Tail(box[m])) /\ Len(Tail(box[m])) = Len(box[m]) - 1
              BY <7>1, HeadTailProperties
            <7> QED
              BY <7>1, <7>2, HeadTailProperties
          <6> QED
            BY <3>4, <6>1 DEF BoxOK
        <5>2. life[m] # "unborn"
          BY <3>3, <3>4 DEF BoxOK
        <5> QED
          BY <3>3, <4>4, <5>1, <5>2 DEF BoxOK, For
      <4> QED
        BY <4>3, <4>4
    <3> QED
      BY <2>0, <3>3, <3>6, <3>9, <3>10, RoutesOfThread
  <2>3. CASE M!NextUnrefSome(t, "got")
    <3>1. /\ pc[t] = "next_unref" /\ Goto(t, "got") /\ mb' = [mb EXCEPT ![t] = NoMailbox]
          /\ UNCHANGED <<life, box, entry>>
      BY <2>3 DEF M!NextUnrefSome, M!Goto, Goto
    <3>2. /\ pc'[t] = "got" /\ mb'[t] = NoMailbox
          /\ \A u \in Threads : u # t => pc'[u] = pc[u] /\ mb'[u] = mb[u]
      BY <1>s, <1>p, <3>1 DEF Types, CallTypes
    <3>3. entry[t] \in M!Entry /\ For(entry[t], t[1]) /\ mine[t] \in Mailboxes
      BY <1>s, <3>1, Entries DEF ThreadOK, InNext
    <3>4. ThreadOK(t)'
      BY <1>s, <2>0, <3>1, <3>2, <3>3 DEF ThreadOK, InNext, For
    <3> QED
      BY <2>0, <3>1, <3>2, <3>4, BoxesSame, RoutesOfThread
  <2>4. CASE M!NextUnrefLast(t)
    <3>1. /\ pc[t] = "next_unref" /\ Goto(t, "next_discard") /\ M!Finalise(t, entry[t].from)
          /\ UNCHANGED <<box, mb, entry>>
      BY <2>4 DEF M!NextUnrefLast, M!Goto, Goto
    <3>2. entry[t].from \in Mailboxes
      BY <1>s, <3>1, Entries DEF ThreadOK
    <3>3. \A x \in Mailboxes : life'[x] = "unborn" => life[x] = "unborn"
      BY <1>s, <3>1, <3>2, LivesOn DEF Types
    <3>4. pc'[t] = "next_discard" /\ \A u \in Threads : u # t => pc'[u] = pc[u]
      BY <1>p, <3>1
    <3>5. ThreadOK(t)'
      BY <1>s, <2>0, <3>1, <3>4 DEF ThreadOK, InNext, For
    <3> QED
      BY <2>0, <3>1, <3>3, <3>4, <3>5, BoxesSame, RoutesOfThread
  <2> QED
    BY <1>6, <2>1, <2>2, <2>3, <2>4 DEF ThreadNext
<1>7. CASE ThreadSend(t)
  <2>1. UNCHANGED <<mb, entry, mine, cstat, cbox, job, target, box, life>> /\ pc[t] = "got"
    BY <1>7 DEF ThreadSend, boxVars, callVars, clientVars, sendVars
  <2>2. PICK l \in {"rrcpt", "bounce", "loop"} :
          Goto(t, l) /\ (l # "loop" => M!IsMessage(entry[t]))
    BY <1>7 DEF ThreadSend
  <2>3. pc'[t] = l /\ \A u \in Threads : u # t => pc'[u] = pc[u]
    BY <2>2, <1>p
  <2>4. /\ entry[t] \in M!Entry /\ For(entry[t], t[1]) /\ mine[t] \in Mailboxes
        /\ l # "loop" => entry[t] \in M!Message
    BY <1>s, <2>1, <2>2, Entries DEF ThreadOK, InNext
  <2>5. ThreadOK(t)'
    BY <1>s, <2>1, <2>3, <2>4 DEF ThreadOK, InNext, For
  <2> QED
    BY <2>1, <2>3, <2>5, BoxesSame, RoutesOfThread
<1>8. CASE ThreadNotify(t)
  <2>1. pc[t] \in {"rrcpt", "bounce"} /\ entry[t].from \in Mailboxes /\ entry[t].id \in Ids
    BY <1>8, <1>s, Entries DEF ThreadNotify, ThreadOK
  <2>2. PICK k \in {"RRCPT", "BOUNCE"} : M!AddNotice(entry[t].from, k, entry[t].id)
    BY <1>8 DEF ThreadNotify
  <2> DEFINE e == [type |-> "notice", id |-> entry[t].id, kind |-> k]
  <2>3. e \in M!Entry /\ For(e, entry[t].from[1])
    BY <2>1, Made, ForNotice
  <2>4. M!Enqueue(entry[t].from, e) /\ life' = life /\ life[entry[t].from] = "live"
    BY <2>2 DEF M!AddNotice, M!Unlocked
  <2> HIDE DEF e
  <2>5. \A x \in Mailboxes : BoxOK(x)'
    BY <2>1, <2>3, <2>4, BoxesPut
  <2>6. UNCHANGED <<mb, entry, mine, cstat, cbox, job, target>>
    BY <1>8 DEF ThreadNotify, callVars, clientVars, sendVars
  <2>7. pc'[t] = "loop" /\ \A u \in Threads : u # t => pc'[u] = pc[u]
    BY <1>8, <1>p DEF ThreadNotify
  <2>8. ThreadOK(t)'
    BY <1>s, <2>1, <2>6, <2>7 DEF ThreadOK, InNext
  <2> QED
    BY <2>4, <2>5, <2>6, <2>7, <2>8, RoutesOfThread
<1>9. CASE ThreadQuit(t)
  <2>1. mine[t] \in Mailboxes /\ mine[t][1] = t[1]
    BY <1>9, <1>s DEF ThreadQuit, ThreadOK
  <2>2. UNCHANGED <<entry, mine, cstat, cbox, job, target>>
    BY <1>9 DEF ThreadQuit, M!UnrefLast, callVars, clientVars, sendVars
  <2>3. box' = box /\ \A x \in Mailboxes : life'[x] = "unborn" => life[x] = "unborn"
    BY <1>9, <1>s, <2>1, LivesOn DEF ThreadQuit, M!UnrefLast, Types
  <2>4. /\ \/ pc'[t] = "done" /\ mb'[t] = mb[t]
           \/ pc'[t] = "discard" /\ mb'[t] = mine[t]
        /\ \A u \in Threads : u # t => pc'[u] = pc[u] /\ mb'[u] = mb[u]
    <3>1. CASE M!UnrefLast(t, mine[t])
      BY <3>1, <1>s DEF M!UnrefLast, M!Goto, Types, CallTypes
    <3>2. CASE Goto(t, "done") /\ UNCHANGED callVars
      BY <3>2, <1>p DEF callVars
    <3> QED
      BY <1>9, <3>1, <3>2 DEF ThreadQuit
  <2>5. ThreadOK(t)'
    BY <1>s, <2>1, <2>2, <2>4 DEF ThreadOK, InNext
  <2> QED
    BY <2>2, <2>3, <2>4, <2>5, BoxesSame, RoutesOfThread
<1>10. CASE Discard(t)
  <2>1. PICK l : l = AfterDiscard(t)
    OBVIOUS
  <2>2. l = IF pc[t] = "next_discard" THEN "got" ELSE "done"
    <3>1. CASE pc[t] = "next_discard"
      BY <1>s, <2>1, <3>1 DEF AfterDiscard
    <3>2. CASE pc[t] # "next_discard"
      BY <1>s, <2>1, <3>2 DEF AfterDiscard
    <3> QED
      BY <3>1, <3>2
  <2>3. UNCHANGED <<mine, cstat, cbox, job, target>>
    BY <1>10 DEF Discard, clientVars, sendVars
  <2>4. M!DiscardToHook(t) \/ M!DiscardUnhooked(t) \/ M!DiscardDone(t, l)
    BY <1>10, <2>1 DEF Discard
  <2>5. /\ life' = life /\ entry' = entry
        /\ \A m \in Mailboxes : BoxOK(m)'
        /\ \/ pc' = pc /\ mb' = mb
           \/ /\ M!Discarding(t)
              /\ pc' = [pc EXCEPT ![t] = l] /\ mb' = [mb EXCEPT ![t] = NoMailbox]
    BY <1>s, <2>4, DiscardBoxes
  <2>6. \A u \in Threads : u # t => pc'[u] = pc[u] /\ mb'[u] = mb[u]
    BY <1>s, <2>5 DEF Types, CallTypes
  <2>7. ThreadOK(t)'
    <3>1. CASE pc' = pc /\ mb' = mb
      BY <2>3, <2>5, <3>1, <1>s DEF ThreadOK, For
    <3>2. CASE pc' = [pc EXCEPT ![t] = l] /\ mb' = [mb EXCEPT ![t] = NoMailbox]
      <4>1. pc'[t] = l /\ mb'[t] = NoMailbox
        BY <3>2, <1>s DEF Types, CallTypes
      <4>2. l = "got" => entry[t] \in M!Entry /\ For(entry[t], t[1]) /\ mine[t] \in Mailboxes
        BY <1>s, <2>2, Entries DEF ThreadOK, InNext
      <4> QED
        BY <1>s, <2>2, <2>3, <2>5, <4>1, <4>2 DEF ThreadOK, InNext, For
    <3> QED
      BY <2>5, <3>1, <3>2
  <2> QED
    BY <2>3, <2>5, <2>6, <2>7, <1>s, RoutesOfThread
<1> QED
  BY <1>0, <1>1, <1>2, <1>3, <1>4, <1>5, <1>6, <1>7, <1>8, <1>9, <1>10 DEF MailboxStep

-----------------------------------------------------------------------------
(* The fate of one message.  In a step a token stays where it is, goes from *)
(* one place to another, is lost, or is made once the message was delivered. *)
Kept(f, x) ==
  \A k \in Places, a \in Owners : Holds(f, x, k, a)' => Holds(f, x, k, a)
Moved(f, x) ==
  \E k0, l \in Places, a0, b \in Owners :
    /\ Holds(f, x, k0, a0)
    /\ \A k \in Places, a \in Owners : Holds(f, x, k, a)' =>
         \/ k = l /\ a = b
         \/ Holds(f, x, k, a) /\ (k # k0 \/ a # a0)
Fresh(f, x) ==
  /\ Delivered(x)'
  /\ \A k \in Places, a \in Owners : ~Holds(f, x, k, a)
  /\ \E l \in Places, b \in Owners :
       \A k \in Places, a \in Owners : Holds(f, x, k, a)' => k = l /\ a = b

(* In such a step the token stays single.                                   *)
LEMMA FateStep ==
  ASSUME NEW x \in Traffic, Fate(x),
         \A f \in Tokens : /\ OnceInBox(f, x)' /\ OnceOut(f, x)'
                           /\ Kept(f, x) \/ Moved(f, x) \/ Fresh(f, x),
         Delivered(x) => Delivered(x)'
  PROVE  Fate(x)'
<1>1. ASSUME NEW f \in Tokens
      PROVE  /\ Single(f, x)'
             /\ \/ \A k \in Places, a \in Owners : ~Holds(f, x, k, a)'
                \/ Delivered(x)'
                \/ \E k \in Places, a \in Owners : Holds(f, x, k, a)
  <2>1. Single(f, x)
    BY DEF Fate
  <2>2. CASE Kept(f, x)
    BY <2>1, <2>2 DEF Kept, Single
  <2>3. CASE Moved(f, x)
    <3>1. PICK k0 \in Places, l \in Places, a0 \in Owners, b \in Owners :
            /\ Holds(f, x, k0, a0)
            /\ \A k \in Places, a \in Owners : Holds(f, x, k, a)' =>
                 \/ k = l /\ a = b
                 \/ Holds(f, x, k, a) /\ (k # k0 \/ a # a0)
      BY <2>3 DEF Moved
    <3>2. \A k \in Places, a \in Owners : Holds(f, x, k, a) => k = k0 /\ a = a0
      BY <2>1, <3>1 DEF Single
    <3>3. \A k \in Places, a \in Owners : Holds(f, x, k, a)' => k = l /\ a = b
      BY <3>1, <3>2
    <3> QED
      BY <3>1, <3>3 DEF Single
  <2>4. CASE Fresh(f, x)
    BY <2>4 DEF Fresh, Single
  <2> QED
    BY <2>2, <2>3, <2>4
<1>2. "receipt" \in Tokens
  BY DEF Tokens
<1>3. ASSUME NEW k \in Places, NEW a \in Owners, Holds("receipt", x, k, a)'
      PROVE  Delivered(x)'
  <2>1. Delivered(x)' \/ \E l \in Places, b \in Owners : Holds("receipt", x, l, b)
    BY <1>1, <1>2, <1>3
  <2> QED
    BY <2>1 DEF Fate
<1> QED
  BY <1>1, <1>3 DEF Fate

(* Who may own a token, and the names of the places.                        *)
LEMMA PlaceOwners ==
  /\ \A c \in Clients : c \in Owners
  /\ \A t \in Mailboxes : t \in Owners
  /\ \A x \in Traffic : x.from \in Owners /\ x.to \in Clients /\ x.id # 0
  /\ {"unsent", "job", "box", "hand", "out"} \subseteq Places
BY TrafficOK, Names DEF Owners, Places

(* What is in a sequence after an Append, or a Tail.                        *)
LEMMA AppendAt ==
  ASSUME NEW S, NEW s \in Seq(S), NEW e \in S, NEW r, r = Append(s, e)
  PROVE  /\ \A i \in DOMAIN r : (i \in DOMAIN s /\ r[i] = s[i]) \/ (i = Len(s) + 1 /\ r[i] = e)
         /\ \A i \in DOMAIN s : i \in DOMAIN r /\ r[i] = s[i]
         /\ Len(s) + 1 \in DOMAIN r /\ r[Len(s) + 1] = e
OBVIOUS

(* And after the first element was taken.                                   *)
LEMMA TailAt ==
  ASSUME NEW S, NEW s \in Seq(S), s # << >>, NEW r, r = Tail(s)
  PROVE  /\ \A i \in DOMAIN r : i + 1 \in DOMAIN s /\ r[i] = s[i + 1] /\ i \in Nat /\ i # 0
         /\ 1 \in DOMAIN s /\ Head(s) = s[1]
<1>1. /\ r \in Seq(S) /\ Len(r) = Len(s) - 1 /\ Len(s) \in Nat /\ Len(s) # 0
      /\ \A i \in 1..Len(r) : r[i] = s[i + 1]
  BY HeadTailProperties
<1> QED
  BY <1>1

(* Mailboxes that do not change, or only lose what they have.               *)
LEMMA SameBoxes ==
  ASSUME NEW f, NEW x,
         \A m \in Mailboxes : life'[m] = "live" =>
           box'[m] = box[m] /\ (life[m] = "live" \/ box[m] = << >>)
  PROVE  /\ \A m \in Mailboxes : InBox(f, x, m)' => InBox(f, x, m)
         /\ OnceInBox(f, x) => OnceInBox(f, x)'
<1>1. ASSUME NEW m \in Mailboxes, life'[m] = "live", NEW i \in DOMAIN box'[m]
      PROVE  life[m] = "live" /\ box'[m] = box[m]
  BY <1>1
<1>2. \A m \in Mailboxes : InBox(f, x, m)' => InBox(f, x, m)
  BY <1>1 DEF InBox, Carries
<1>3. OnceInBox(f, x) => OnceInBox(f, x)'
  BY <1>1 DEF OnceInBox, Carries
<1> QED
  BY <1>2, <1>3

(* An entry queued in a mailbox is the only thing that is new in any        *)
(* mailbox.                                                                 *)
LEMMA PutBoxes ==
  ASSUME Types, NEW f, NEW x, NEW m \in Mailboxes, NEW e \in M!Entry, M!Enqueue(m, e), life' = life,
         OnceInBox(f, x), Carries(f, e, x) => ~InBox(f, x, m)
  PROVE  /\ \A y \in Mailboxes :
              InBox(f, x, y)' => InBox(f, x, y) \/ (y = m /\ Carries(f, e, x))
         /\ OnceInBox(f, x)'
<1>1. \A y \in Mailboxes : box'[y] = IF y = m THEN Append(box[m], e) ELSE box[y]
  BY BoxEnqueue DEF Types
<1>2. box[m] \in Seq(M!Entry)
  BY DEF Types, BoxTypes
<1>3. \A i \in DOMAIN box'[m] :
        \/ i \in DOMAIN box[m] /\ box'[m][i] = box[m][i]
        \/ i = Len(box[m]) + 1 /\ box'[m][i] = e
  <2>1. box'[m] = Append(box[m], e)
    BY <1>1
  <2> QED
    BY <1>2, <2>1, AppendAt
<1>4. \A y \in Mailboxes : InBox(f, x, y)' => InBox(f, x, y) \/ (y = m /\ Carries(f, e, x))
  <2> SUFFICES ASSUME NEW y \in Mailboxes, InBox(f, x, y)'
               PROVE  InBox(f, x, y) \/ (y = m /\ Carries(f, e, x))
    OBVIOUS
  <2>1. life[y] = "live" /\ \E i \in DOMAIN box'[y] : Carries(f, box'[y][i], x)
    BY DEF InBox, Carries
  <2>2. CASE y = m
    BY <1>3, <2>1, <2>2 DEF InBox
  <2>3. CASE y # m
    BY <1>1, <2>1, <2>3 DEF InBox
  <2> QED
    BY <2>2, <2>3
<1>5. ASSUME NEW y \in Mailboxes, life'[y] = "live", NEW i \in DOMAIN box'[y], NEW j \in DOMAIN box'[y],
             Carries(f, box'[y][i], x), Carries(f, box'[y][j], x)
      PROVE  i = j
  <2>1. CASE y # m
    BY <1>1, <1>5, <2>1 DEF OnceInBox
  <2>2. CASE y = m
    <3>1. life[m] = "live"
      BY <1>5, <2>2
    <3>2. CASE Carries(f, e, x)
      <4>1. \A k \in DOMAIN box[m] : ~Carries(f, box[m][k], x)
        BY <3>1, <3>2 DEF InBox
      <4> QED
        BY <1>3, <1>5, <2>2, <4>1
    <3>3. CASE ~Carries(f, e, x)
      BY <1>3, <1>5, <2>2, <3>1, <3>3 DEF OnceInBox
    <3> QED
      BY <3>2, <3>3
  <2> QED
    BY <2>1, <2>2
<1>6. OnceInBox(f, x)'
  BY <1>5 DEF OnceInBox, Carries
<1> QED
  BY <1>4, <1>6

(* The head that mb_next_entry unlinks takes its token out of the mailbox.  *)
LEMMA TakeBoxes ==
  ASSUME Types, NEW f, NEW x, NEW m \in Mailboxes, life[m] = "live", box[m] # << >>,
         box' = [box EXCEPT ![m] = Tail(@)], life' = life, OnceInBox(f, x)
  PROVE  /\ \A y \in Mailboxes : InBox(f, x, y)' => InBox(f, x, y)
         /\ Carries(f, Head(box[m]), x) => InBox(f, x, m) /\ ~InBox(f, x, m)'
         /\ OnceInBox(f, x)'
<1>1. \A y \in Mailboxes : box'[y] = IF y = m THEN Tail(box[m]) ELSE box[y]
  BY DEF Types, BoxTypes
<1>2. box[m] \in Seq(M!Entry) /\ box[m] # << >> /\ Len(box[m]) \in Nat /\ Len(box[m]) > 0
  BY DEF Types, BoxTypes
<1>3. \A i \in DOMAIN box'[m] : i + 1 \in DOMAIN box[m] /\ box'[m][i] = box[m][i + 1] /\ i \in Nat /\ i # 0
  <2>1. box'[m] = Tail(box[m])
    BY <1>1
  <2> QED
    BY <1>2, <2>1, TailAt
<1>4. 1 \in DOMAIN box[m] /\ Head(box[m]) = box[m][1]
  BY <1>2, TailAt
<1>5. \A y \in Mailboxes : InBox(f, x, y)' => InBox(f, x, y)
  <2> SUFFICES ASSUME NEW y \in Mailboxes, InBox(f, x, y)' PROVE InBox(f, x, y)
    OBVIOUS
  <2>1. life[y] = "live" /\ \E i \in DOMAIN box'[y] : Carries(f, box'[y][i], x)
    BY DEF InBox, Carries
  <2>2. CASE y = m
    BY <1>3, <2>1, <2>2 DEF InBox
  <2>3. CASE y # m
    BY <1>1, <2>1, <2>3 DEF InBox
  <2> QED
    BY <2>2, <2>3
<1>6. ASSUME Carries(f, Head(box[m]), x) PROVE InBox(f, x, m) /\ ~InBox(f, x, m)'
  <2>1. InBox(f, x, m)
    BY <1>4, <1>6 DEF InBox
  <2>2. ASSUME InBox(f, x, m)' PROVE FALSE
    <3>1. PICK i \in DOMAIN box'[m] : Carries(f, box'[m][i], x)
      BY <2>2 DEF InBox, Carries
    <3>2. i + 1 = 1
      BY <1>3, <1>4, <1>6, <3>1 DEF OnceInBox
    <3> QED
      BY <1>3, <3>2
  <2> QED
    BY <2>1, <2>2
<1>7. ASSUME NEW y \in Mailboxes, life'[y] = "live", NEW i \in DOMAIN box'[y], NEW j \in DOMAIN box'[y],
             Carries(f, box'[y][i], x), Carries(f, box'[y][j], x)
      PROVE  i = j
  <2>1. CASE y # m
    BY <1>1, <1>7, <2>1 DEF OnceInBox
  <2>2. CASE y = m
    <3>1. i + 1 = j + 1
      BY <1>3, <1>7, <2>2 DEF OnceInBox
    <3> QED
      BY <1>3, <2>2, <3>1
  <2> QED
    BY <2>1, <2>2
<1>8. OnceInBox(f, x)'
  <2>1. \A y \in Mailboxes : life'[y] = "live" => \A i, j \in DOMAIN box'[y] :
          Carries(f, box'[y][i], x) /\ Carries(f, box'[y][j], x) => i = j
    BY <1>7
  <2> QED
    BY <2>1 DEF OnceInBox, Carries
<1> QED
  BY <1>5, <1>6, <1>8

(* A packet sent is the only thing that is new on any connection.           *)
LEMMA PutOut ==
  ASSUME Types, NEW f, NEW x, NEW c \in Clients, NEW p \in Packets, out' = [out EXCEPT ![c] = Append(@, p)],
         OnceOut(f, x), Reports(f, p, x) => ~InOut(f, x, c)
  PROVE  /\ \A d \in Clients :
              InOut(f, x, d)' => InOut(f, x, d) \/ (d = c /\ Reports(f, p, x))
         /\ OnceOut(f, x)'
         /\ \A d \in Clients : \A i \in DOMAIN out[d] : i \in DOMAIN out'[d] /\ out'[d][i] = out[d][i]
         /\ \E i \in DOMAIN out'[c] : out'[c][i] = p
<1>1. \A d \in Clients : out'[d] = IF d = c THEN Append(out[c], p) ELSE out[d]
  BY DEF Types, SendTypes
<1>2. out[c] \in Seq(Packets) /\ Len(out[c]) \in Nat
  BY DEF Types, SendTypes
<1>3. \A i \in DOMAIN out'[c] :
        \/ i \in DOMAIN out[c] /\ out'[c][i] = out[c][i]
        \/ i = Len(out[c]) + 1 /\ out'[c][i] = p
  <2>1. out'[c] = Append(out[c], p)
    BY <1>1
  <2> QED
    BY <1>2, <2>1, AppendAt
<1>4. \A d \in Clients : InOut(f, x, d)' => InOut(f, x, d) \/ (d = c /\ Reports(f, p, x))
  <2> SUFFICES ASSUME NEW d \in Clients, InOut(f, x, d)'
               PROVE  InOut(f, x, d) \/ (d = c /\ Reports(f, p, x))
    OBVIOUS
  <2>1. \E i \in DOMAIN out'[d] : Reports(f, out'[d][i], x)
    BY DEF InOut, Reports
  <2>2. CASE d = c
    BY <1>3, <2>1, <2>2 DEF InOut
  <2>3. CASE d # c
    BY <1>1, <2>1, <2>3 DEF InOut
  <2> QED
    BY <2>2, <2>3
<1>5. ASSUME NEW d \in Clients, NEW i \in DOMAIN out'[d], NEW j \in DOMAIN out'[d],
             Reports(f, out'[d][i], x), Reports(f, out'[d][j], x)
      PROVE  i = j
  <2>1. CASE d # c
    BY <1>1, <1>5, <2>1 DEF OnceOut
  <2>2. CASE d = c
    <3>2. CASE Reports(f, p, x)
      <4>1. \A k \in DOMAIN out[c] : ~Reports(f, out[c][k], x)
        BY <3>2 DEF InOut
      <4> QED
        BY <1>3, <1>5, <2>2, <4>1
    <3>3. CASE ~Reports(f, p, x)
      BY <1>3, <1>5, <2>2, <3>3 DEF OnceOut
    <3> QED
      BY <3>2, <3>3
  <2> QED
    BY <2>1, <2>2
<1>6. OnceOut(f, x)'
  BY <1>5 DEF OnceOut, Reports
<1>7. /\ \A i \in DOMAIN out[c] : i \in DOMAIN out'[c] /\ out'[c][i] = out[c][i]
      /\ Len(out[c]) + 1 \in DOMAIN out'[c] /\ out'[c][Len(out[c]) + 1] = p
  <2>1. out'[c] = Append(out[c], p)
    BY <1>1
  <2> QED
    BY <1>2, <2>1, AppendAt
<1> QED
  BY <1>1, <1>4, <1>6, <1>7

(* A step that accepts nothing, and after which every message is where it was, *)
(* or gone.                                                                    *)
LEMMA KeepOrders ==
  ASSUME Orders, accepted' = accepted,
         \A x \in Traffic : Waits(x)' => Waits(x),
         \A x \in Traffic :
           /\ \A m \in Mailboxes, i \in Nat : Queued(x, m, i)' => Queued(x, m, i)
           /\ \A t \in MailboxThreads : Held(x, t)' => Held(x, t)
           /\ \A i \in Nat : SentAt(x, i)' => SentAt(x, i)
  PROVE  Orders'
<1>1. \A x \in Traffic, i \in Nat : AcceptedAt(x, i)' <=> AcceptedAt(x, i)
  BY DEF AcceptedAt
<1>2. \A x \in Traffic : Admitted(x)'
  <2> SUFFICES ASSUME NEW x \in Traffic PROVE Admitted(x)'
    OBVIOUS
  <2>1. Underway(x)' => Underway(x)
    BY DEF Underway
  <2> QED
    BY <1>1, <2>1 DEF Orders, Admitted
<1>3. \A x, y \in Traffic : Before(x, y)' => Before(x, y)
  BY <1>1 DEF Before
<1>4. \A x, y \in Traffic : Ordered(x, y) => Ordered(x, y)'
  BY DEF Ordered
<1> QED
  BY <1>2, <1>3, <1>4 DEF Orders

(* A step that moves no token.                                              *)
Calm ==
  /\ out' = out /\ unsent' = unsent /\ accepted' = accepted
  /\ \A m \in Mailboxes : life'[m] = "live" =>
       box'[m] = box[m] /\ (life[m] = "live" \/ box[m] = << >>)
  /\ \A c \in Clients : pc'[Service(c)] \in Sending =>
       pc[Service(c)] \in Sending /\ job'[c] = job[c]
  /\ \A t \in MailboxThreads : pc'[t] \in InNext \cup {"rrcpt", "bounce"} =>
       entry'[t] = entry[t] /\ (pc'[t] = pc[t] \/ (pc[t] \in InNext /\ pc'[t] \in InNext))

(* Such a step keeps every token where it was, or loses it.                 *)
LEMMA CalmFates ==
  ASSUME Fates, Calm
  PROVE  Fates'
<1> SUFFICES ASSUME NEW x \in Traffic PROVE Fate(x)'
  BY DEF Fates
<1>1. Fate(x) /\ (Delivered(x) => Delivered(x)')
  BY DEF Fates, Calm, Delivered
<1>2. ASSUME NEW f \in Tokens
      PROVE  OnceInBox(f, x)' /\ OnceOut(f, x)' /\ Kept(f, x)
  <2>1. /\ \A m \in Mailboxes : InBox(f, x, m)' => InBox(f, x, m)
        /\ OnceInBox(f, x)'
    BY <1>1, SameBoxes DEF Calm, Fate
  <2>2. OnceOut(f, x)' /\ \A c \in Clients : InOut(f, x, c)' => InOut(f, x, c)
    BY <1>1 DEF Calm, Fate, OnceOut, InOut
  <2>3. \A t \in MailboxThreads : InHand(f, x, t)' => InHand(f, x, t)
    BY DEF Calm, InHand, InNext, Carries
  <2>4. ASSUME NEW k \in Places, NEW a \in Owners, Holds(f, x, k, a)'
        PROVE  Holds(f, x, k, a)
    BY <2>1, <2>2, <2>3, <2>4 DEF Holds, Calm, Places
  <2> QED
    BY <2>1, <2>2, <2>4 DEF Kept
<1> QED
  BY <1>1, <1>2, FateStep

LEMMA CalmOrders ==
  ASSUME Orders, Calm
  PROVE  Orders'
<1>1. \A x \in Traffic : Waits(x)' => Waits(x)
  BY DEF Calm, Waits
<1>2. ASSUME NEW x \in Traffic
      PROVE  /\ \A m \in Mailboxes, i \in Nat : Queued(x, m, i)' => Queued(x, m, i)
             /\ \A t \in MailboxThreads : Held(x, t)' => Held(x, t)
             /\ \A i \in Nat : SentAt(x, i)' => SentAt(x, i)
  <2>1. \A m \in Mailboxes, i \in Nat : Queued(x, m, i)' => Queued(x, m, i)
    BY DEF Calm, Queued
  <2>2. \A t \in MailboxThreads : Held(x, t)' => Held(x, t)
    BY DEF Calm, Held, InNext
  <2>3. \A i \in Nat : SentAt(x, i)' => SentAt(x, i)
    BY DEF Calm, SentAt
  <2> QED
    BY <2>1, <2>2, <2>3
<1> QED
  BY <1>1, <1>2, KeepOrders DEF Calm

(* The calls on mailboxes that queue and unlink nothing move no token.      *)
LEMMA BoxesCalm ==
  ASSUME BoxTypes, Routes, NEW m \in Mailboxes, NEW t \in Threads,
         \/ M!Create(m) \/ M!SetDiscardHook(m) \/ M!Ref(m) \/ M!Shutdown(m) \/ M!UnrefSome(m)
         \/ M!Finalise(t, m) /\ box' = box
  PROVE  \A x \in Mailboxes : life'[x] = "live" =>
           box'[x] = box[x] /\ (life[x] = "live" \/ box[x] = << >>)
<1>1. life[m] = "unborn" => box[m] = << >>
  BY DEF Routes, BoxOK
<1> QED
  BY <1>1 DEF BoxTypes, M!Create, M!SetDiscardHook, M!Ref, M!Shutdown, M!UnrefSome, M!Finalise

(* A calm step of one thread.                                               *)
LEMMA CalmService ==
  ASSUME Fates, Orders, NEW c \in Clients, NEW l,
         \A u \in Threads : u # Service(c) => pc'[u] = pc[u],
         pc'[Service(c)] = l, l \in Sending => pc[Service(c)] \in Sending,
         UNCHANGED <<out, unsent, job, accepted>>,
         \A u \in MailboxThreads : entry'[u] = entry[u],
         \A m \in Mailboxes : life'[m] = "live" =>
           box'[m] = box[m] /\ (life[m] = "live" \/ box[m] = << >>)
  PROVE  Fates' /\ Orders'
<1>1. Calm
  BY Names DEF Calm
<1> QED
  BY <1>1, CalmFates, CalmOrders

(* The same for a mailbox thread.                                           *)
LEMMA CalmThread ==
  ASSUME Fates, Orders, NEW t \in MailboxThreads, NEW l,
         \A u \in Threads : u # t => pc'[u] = pc[u] /\ entry'[u] = entry[u],
         pc'[t] = l,
         \/ l \notin InNext \cup {"rrcpt", "bounce"}
         \/ pc[t] \in InNext /\ l \in InNext /\ entry'[t] = entry[t],
         UNCHANGED <<out, unsent, job, accepted>>,
         \A m \in Mailboxes : life'[m] = "live" =>
           box'[m] = box[m] /\ (life[m] = "live" \/ box[m] = << >>)
  PROVE  Fates' /\ Orders'
<1>1. \A c \in Clients : pc'[Service(c)] = pc[Service(c)]
  BY Names
<1>2. \A u \in MailboxThreads : u # t => pc'[u] = pc[u] /\ entry'[u] = entry[u]
  BY Names
<1>3. Calm
  BY <1>1, <1>2 DEF Calm
<1> QED
  BY <1>3, CalmFates, CalmOrders

(* A message that arrives, or any entry that is no token or whose token is  *)
(* handed in.                                                               *)
LEMMA EnqueueFates ==
  ASSUME Types, Fates, NEW m \in Mailboxes, NEW e \in M!Entry, M!Enqueue(m, e), life' = life,
         UNCHANGED <<out, unsent, job>>, NEW k0 \in Places, NEW a0 \in Owners, k0 # "box",
         \A f \in Tokens, x \in Traffic : Carries(f, e, x) =>
           Holds(f, x, k0, a0) /\ ~Holds(f, x, k0, a0)',
         \A c \in Clients : pc'[Service(c)] \in Sending => pc[Service(c)] \in Sending,
         \A t \in MailboxThreads : pc'[t] \in InNext \cup {"rrcpt", "bounce"} =>
           entry'[t] = entry[t] /\ pc'[t] = pc[t]
  PROVE  Fates'
<1> SUFFICES ASSUME NEW x \in Traffic PROVE Fate(x)'
  BY DEF Fates
<1>1. Fate(x) /\ (Delivered(x) => Delivered(x)')
  BY DEF Fates, Delivered
<1>2. ASSUME NEW f \in Tokens
      PROVE  OnceInBox(f, x)' /\ OnceOut(f, x)' /\ (Kept(f, x) \/ Moved(f, x))
  <2>1. Carries(f, e, x) => ~InBox(f, x, m)
    <3> SUFFICES ASSUME Carries(f, e, x), InBox(f, x, m) PROVE FALSE
      OBVIOUS
    <3>1. Holds(f, x, k0, a0) /\ Holds(f, x, "box", m)
      BY DEF Holds
    <3> QED
      BY <1>1, <3>1, PlaceOwners DEF Fate, Single, Places
  <2>2. /\ \A y \in Mailboxes : InBox(f, x, y)' => InBox(f, x, y) \/ (y = m /\ Carries(f, e, x))
        /\ OnceInBox(f, x)'
    BY <1>1, <2>1, PutBoxes DEF Fate
  <2>3. OnceOut(f, x)' /\ \A c \in Clients : InOut(f, x, c)' => InOut(f, x, c)
    BY <1>1 DEF Fate, OnceOut, InOut
  <2>4. \A t \in MailboxThreads : InHand(f, x, t)' => InHand(f, x, t)
    BY DEF InHand, Carries
  <2>5. \A k \in Places, a \in Owners : Holds(f, x, k, a)' =>
          Holds(f, x, k, a) \/ (k = "box" /\ a = m /\ Carries(f, e, x))
    BY <2>2, <2>3, <2>4 DEF Holds, Places
  <2>6. CASE Carries(f, e, x)
    <3>1. Holds(f, x, k0, a0) /\ ~Holds(f, x, k0, a0)'
      BY <2>6
    <3>2. \A k \in Places, a \in Owners : Holds(f, x, k, a)' =>
            \/ k = "box" /\ a = m
            \/ Holds(f, x, k, a) /\ (k # k0 \/ a # a0)
      BY <2>5, <3>1
    <3>3. Moved(f, x)
      BY <3>1, <3>2, PlaceOwners DEF Moved, Places
    <3> QED
      BY <2>2, <2>3, <3>3
  <2>7. CASE ~Carries(f, e, x)
    BY <2>2, <2>3, <2>5, <2>7 DEF Kept
  <2> QED
    BY <2>6, <2>7
<1> QED
  BY <1>1, <1>2, FateStep

(* An entry that is queued, and what that means for the order of messages: a   *)
(* notice does not count, and an accepted message is the last one everywhere.  *)
LEMMA QueuedAfter ==
  ASSUME Types, NEW m \in Mailboxes, NEW e \in M!Entry, M!Enqueue(m, e), life' = life,
         NEW x \in Traffic, NEW y \in Mailboxes, NEW i \in Nat, Queued(x, y, i)'
  PROVE  \/ Queued(x, y, i)
         \/ y = m /\ i = Len(box[m]) + 1 /\ M!IsMessage(e) /\ e.id = x.id
<1>1. box'[y] = (IF y = m THEN Append(box[m], e) ELSE box[y]) /\ box[m] \in Seq(M!Entry)
  BY BoxEnqueue DEF Types, BoxTypes
<1>2. CASE y = m
  <2>1. \/ i \in DOMAIN box[m] /\ box'[m][i] = box[m][i]
        \/ i = Len(box[m]) + 1 /\ box'[m][i] = e
    BY <1>1, <1>2, AppendAt DEF Queued
  <2> QED
    BY <1>2, <2>1 DEF Queued
<1>3. CASE y # m
  BY <1>1, <1>3 DEF Queued
<1> QED
  BY <1>2, <1>3

LEMMA NoticeOrders ==
  ASSUME Types, Orders, NEW m \in Mailboxes, NEW e \in M!Entry, ~M!IsMessage(e), M!Enqueue(m, e),
         life' = life, UNCHANGED <<out, unsent, job, accepted>>,
         \A c \in Clients : pc'[Service(c)] \in Sending => pc[Service(c)] \in Sending,
         \A t \in MailboxThreads : pc'[t] \in InNext \cup {"rrcpt", "bounce"} =>
           entry'[t] = entry[t] /\ pc'[t] = pc[t]
  PROVE  Orders'
<1>1. \A x \in Traffic : Waits(x)' => Waits(x)
  BY DEF Waits
<1>2. ASSUME NEW x \in Traffic
      PROVE  /\ \A y \in Mailboxes, i \in Nat : Queued(x, y, i)' => Queued(x, y, i)
             /\ \A t \in MailboxThreads : Held(x, t)' => Held(x, t)
             /\ \A i \in Nat : SentAt(x, i)' => SentAt(x, i)
  <2>1. \A y \in Mailboxes, i \in Nat : Queued(x, y, i)' => Queued(x, y, i)
    BY QueuedAfter
  <2>2. \A t \in MailboxThreads : Held(x, t)' => Held(x, t)
    BY DEF Held
  <2>3. \A i \in Nat : SentAt(x, i)' => SentAt(x, i)
    BY DEF SentAt
  <2> QED
    BY <2>1, <2>2, <2>3
<1> QED
  BY <1>1, <1>2, KeepOrders

LEMMA AcceptOrders ==
  ASSUME Types, Fates, Orders, NEW c \in Clients, job[c] \in Traffic, pc[Service(c)] \in Sending,
         NEW m \in Mailboxes, NEW e \in M!Entry, e.type = "message", e.id = job[c].id,
         M!Enqueue(m, e), life' = life, accepted' = Append(accepted, job[c].id),
         UNCHANGED <<out, unsent, job>>, pc'[Service(c)] = "serve",
         \A u \in Threads : u # Service(c) => pc'[u] = pc[u],
         \A u \in MailboxThreads : entry'[u] = entry[u]
  PROVE  Orders'
<1>1. PICK z \in Traffic : z = job[c]
  OBVIOUS
<1>2. M!IsMessage(e) /\ e.id = z.id /\ \A x \in Traffic : x.id = z.id => x = z
  BY <1>1, TrafficOK DEF M!IsMessage
<1>3. (\A i \in Nat : ~AcceptedAt(z, i)) /\ ~Underway(z)
  BY <1>1 DEF Orders, Admitted, Waits
<1>4. PICK n \in Nat : n = Len(accepted)
  BY DEF Orders
<1>5. /\ accepted' \in Seq(Ids) /\ accepted' = Append(accepted, z.id)
      /\ accepted \in Seq(Ids) /\ z.id \in Ids
  BY <1>1 DEF Orders, Ids
<1>6. \A x \in Traffic, i \in Nat :
        AcceptedAt(x, i)' <=> (AcceptedAt(x, i) \/ (x = z /\ i = n + 1))
  <2> SUFFICES ASSUME NEW x \in Traffic, NEW i \in Nat
               PROVE  AcceptedAt(x, i)' <=> (AcceptedAt(x, i) \/ (x = z /\ i = n + 1))
    OBVIOUS
  <2>1. /\ i \in DOMAIN accepted' => \/ i \in DOMAIN accepted /\ accepted'[i] = accepted[i]
                                     \/ i = n + 1 /\ accepted'[i] = z.id
        /\ i \in DOMAIN accepted => i \in DOMAIN accepted' /\ accepted'[i] = accepted[i]
        /\ n + 1 \in DOMAIN accepted' /\ accepted'[n + 1] = z.id
    BY <1>4, <1>5, AppendAt
  <2> QED
    BY <1>2, <2>1 DEF AcceptedAt
<1>7. \A x \in Traffic, i \in Nat : AcceptedAt(x, i) => i <= n
  BY <1>4, <1>5 DEF AcceptedAt
<1>8. \A x \in Traffic, y \in Mailboxes, i \in Nat : Queued(x, y, i)' =>
        \/ Queued(x, y, i)
        \/ x = z /\ y = m /\ i = Len(box[m]) + 1
  BY <1>2, QueuedAfter
<1>9. /\ \A x \in Traffic, u \in MailboxThreads : Held(x, u)' => Held(x, u)
      /\ \A x \in Traffic, i \in Nat : SentAt(x, i)' <=> SentAt(x, i)
  BY Names DEF Held, SentAt
<1>10. \A x \in Traffic : Waits(x)' => Waits(x) /\ x # z
  <2> SUFFICES ASSUME NEW x \in Traffic, Waits(x)' PROVE Waits(x) /\ x # z
    OBVIOUS
  <2>1. \/ x \in unsent
        \/ \E d \in Clients : d # c /\ pc[Service(d)] \in Sending /\ job[d] = x
    <3>1. "serve" \notin Sending
      BY DEF Sending
    <3> QED
      BY <3>1, Names DEF Waits
  <2>2. x # z
    <3> SUFFICES ASSUME x = z PROVE FALSE
      OBVIOUS
    <3>1. Holds("fate", x, "job", c)
      BY <1>1 DEF Holds
    <3>2. \/ Holds("fate", x, "unsent", x.from)
          \/ \E d \in Clients : d # c /\ Holds("fate", x, "job", d)
      BY <2>1 DEF Holds
    <3>3. Single("fate", x)
      BY DEF Fates, Fate, Tokens
    <3> QED
      BY <3>1, <3>2, <3>3, PlaceOwners DEF Single
  <2> QED
    BY <2>1, <2>2 DEF Waits
<1>11. ASSUME NEW x \in Traffic
       PROVE  Admitted(x)'
  <2>1. Admitted(x)
    BY DEF Orders
  <2>2. \A i, j \in Nat : AcceptedAt(x, i)' /\ AcceptedAt(x, j)' => i = j
    BY <1>3, <1>6, <2>1 DEF Admitted
  <2>3. Waits(x)' => \A i \in Nat : ~AcceptedAt(x, i)'
    BY <1>6, <1>10, <2>1 DEF Admitted
  <2>4. Underway(x)' => \E i \in Nat : AcceptedAt(x, i)'
    <3>1. CASE x = z
      BY <1>6, <3>1
    <3>2. CASE x # z
      <4>1. Underway(x)' => Underway(x)
        BY <1>8, <1>9, <3>2 DEF Underway
      <4> QED
        BY <1>6, <2>1, <4>1 DEF Admitted
    <3> QED
      BY <3>1, <3>2
  <2> QED
    BY <2>2, <2>3, <2>4 DEF Admitted
<1>12. ASSUME MaxLogins = 1, NEW x \in Traffic, NEW y \in Traffic, x.to = y.to, Before(x, y)'
       PROVE  Ordered(x, y)'
  <2>1. x # z
    <3> SUFFICES ASSUME x = z PROVE FALSE
      OBVIOUS
    <3>1. PICK i \in Nat, j \in Nat : AcceptedAt(x, i)' /\ AcceptedAt(y, j)' /\ i < j
      BY <1>12 DEF Before, AcceptedAt
    <3>2. i = n + 1 /\ j <= n + 1
      BY <1>3, <1>6, <1>7, <3>1
    <3> QED
      BY <3>1, <3>2
  <2>2. CASE y = z
    <3>1. /\ \A t \in MailboxThreads : ~Held(y, t)'
          /\ \A j \in Nat : ~SentAt(y, j)'
          /\ \A j \in Nat, b \in Mailboxes : Queued(y, b, j)' => b = m /\ j = Len(box[m]) + 1
      BY <1>3, <1>8, <1>9, <2>2 DEF Underway
    <3>2. \A i \in Nat, b \in Mailboxes : Queued(x, b, i)' => Queued(x, b, i)
      BY <1>8, <2>1
    <3>3. \A i \in Nat : Queued(x, m, i) => i < Len(box[m]) + 1
      BY DEF Queued, Types, BoxTypes
    <3> QED
      BY <3>1, <3>2, <3>3 DEF Ordered
  <2>3. CASE y # z
    <3>1. Before(x, y)
      BY <1>6, <1>12, <2>1, <2>3 DEF Before
    <3>2. Ordered(x, y)
      BY <1>12, <3>1 DEF Orders
    <3> QED
      BY <1>8, <1>9, <2>1, <2>3, <3>2 DEF Ordered
  <2> QED
    BY <2>2, <2>3
<1> QED
  BY <1>5, <1>11, <1>12 DEF Orders

(* A notice carries the receipt or the bounce of the message it names.      *)
LEMMA NoticeCarries ==
  ASSUME NEW f \in Tokens, NEW x \in Traffic, NEW id, NEW k \in {"BOUNCE", "RRCPT"}
  PROVE  Carries(f, [type |-> "notice", id |-> id, kind |-> k], x)
           <=> id = x.id /\ k = IF f = "fate" THEN "BOUNCE" ELSE "RRCPT"
BY DEF Carries, Tokens, M!IsMessage

(* A message carries its own fate.                                          *)
LEMMA MessageCarries ==
  ASSUME NEW f \in Tokens, NEW x \in Traffic, NEW e, e.type = "message"
  PROVE  Carries(f, e, x) <=> f = "fate" /\ e.id = x.id
BY DEF Carries, Tokens, M!IsMessage

(* What a client asks for: SEND takes a message from its sender.            *)
LEMMA RequestFlow ==
  ASSUME Types, Routes, Fates, Orders, NEW c \in Clients, Request(c)
  PROVE  Fates' /\ Orders'
<1>s. Service(c) \in Threads
  BY Names
<1>p. ASSUME NEW l, Go(c, l)
      PROVE  pc'[Service(c)] = l /\ \A u \in Threads : u # Service(c) => pc'[u] = pc[u]
  BY <1>p, <1>s DEF Types, CallTypes, Go, Goto
<1>b. ASSUME UNCHANGED boxVars
      PROVE  \A m \in Mailboxes : life'[m] = "live" =>
               box'[m] = box[m] /\ (life[m] = "live" \/ box[m] = << >>)
  BY <1>b DEF boxVars
<1>1. CASE HangUp(c)
  <2>1. Calm
    BY <1>1 DEF HangUp, Calm, boxVars, callVars, sendVars
  <2> QED
    BY <2>1, CalmFates, CalmOrders
<1>2. CASE Login(c)
  <2> DEFINE n == logins[c] + 1
  <2>1. <<c, n>> \in Mailboxes /\ M!Create(<<c, n>>)
    BY <1>2, LoginsOK, Names DEF Login, Types, ClientTypes
  <2> HIDE DEF n
  <2>2. \A m \in Mailboxes : life'[m] = "live" =>
           box'[m] = box[m] /\ (life[m] = "live" \/ box[m] = << >>)
    BY <1>s, <2>1, BoxesCalm DEF Types
  <2>3. pc'[Service(c)] = "spawn" /\ \A u \in Threads : u # Service(c) => pc'[u] = pc[u]
    BY <1>2, <1>p DEF Login
  <2>4. UNCHANGED <<out, unsent, job, entry, accepted>>
    BY <1>2 DEF Login, callVars, sendVars
  <2> QED
    BY <2>2, <2>3, <2>4, CalmService DEF Sending
<1>3. CASE LogoutPacket(c)
  <2>1. pc'[Service(c)] = "shutdown" /\ \A u \in Threads : u # Service(c) => pc'[u] = pc[u]
    BY <1>3, <1>p DEF LogoutPacket
  <2>2. UNCHANGED <<out, unsent, job, entry, accepted>> /\ UNCHANGED boxVars
    BY <1>3 DEF LogoutPacket, callVars, sendVars
  <2> QED
    BY <1>b, <2>1, <2>2, CalmService DEF Sending
<1>4. CASE SendPacket(c)
  <2>1. PICK y \in unsent :
          /\ y.from = c /\ unsent' = unsent \ {y}
          /\ \/ Go(c, "lookup") /\ job' = [job EXCEPT ![c] = y]
             \/ UNCHANGED <<pc, job>>
    BY <1>4 DEF SendPacket
  <2>2. UNCHANGED <<out, entry, life, box>> /\ pc[Service(c)] = "serve"
    BY <1>4 DEF SendPacket, At, boxVars, callVars
  <2>3. \A d \in Clients : pc'[Service(d)] \in Sending =>
          \/ pc[Service(d)] \in Sending /\ job'[d] = job[d]
          \/ d = c /\ job'[d] = y
    <3>1. CASE UNCHANGED <<pc, job>>
      BY <3>1
    <3>2. CASE Go(c, "lookup") /\ job' = [job EXCEPT ![c] = y]
      <4>1. \A d \in Clients : d # c => Service(d) \in Threads /\ Service(d) # Service(c)
        BY Names
      <4>2. job'[c] = y /\ \A d \in Clients : d # c => job'[d] = job[d]
        BY <3>2 DEF Types, SendTypes
      <4> QED
        BY <3>2, <1>p, <4>1, <4>2
    <3> QED
      BY <2>1, <3>1, <3>2
  <2>4. \A t \in MailboxThreads : pc'[t] = pc[t]
    BY <2>1, <1>p, Names
  <2>o. Orders'
    <3>1. \A x \in Traffic : Waits(x)' => Waits(x)
      BY <2>1, <2>3 DEF Waits, SendTypes, Types
    <3>2. \A x \in Traffic : /\ \A m \in Mailboxes, i \in Nat : Queued(x, m, i)' => Queued(x, m, i)
                             /\ \A t \in MailboxThreads : Held(x, t)' => Held(x, t)
                             /\ \A i \in Nat : SentAt(x, i)' => SentAt(x, i)
      BY <2>2, <2>4 DEF Queued, Held, SentAt
    <3>3. accepted' = accepted
      BY <1>4 DEF SendPacket
    <3> QED
      BY <3>1, <3>2, <3>3, KeepOrders
  <2> SUFFICES ASSUME NEW x \in Traffic PROVE Fate(x)'
    BY <2>o DEF Fates
  <2>5. Fate(x) /\ (Delivered(x) => Delivered(x)')
    BY <2>2 DEF Fates, Delivered
  <2>6. ASSUME NEW f \in Tokens
        PROVE  OnceInBox(f, x)' /\ OnceOut(f, x)' /\ (Kept(f, x) \/ Moved(f, x))
    <3>1. OnceInBox(f, x)' /\ \A m \in Mailboxes : InBox(f, x, m)' => InBox(f, x, m)
      BY <2>2, <2>5, SameBoxes DEF Fate
    <3>2. OnceOut(f, x)' /\ \A d \in Clients : InOut(f, x, d)' => InOut(f, x, d)
      BY <2>2, <2>5 DEF Fate, OnceOut, InOut
    <3>3. \A t \in MailboxThreads : InHand(f, x, t)' => InHand(f, x, t)
      BY <2>2, <2>4 DEF InHand, Carries
    <3>4. \A k \in Places, a \in Owners : Holds(f, x, k, a)' =>
            \/ Holds(f, x, k, a) /\ ~(f = "fate" /\ x = y /\ k = "unsent")
            \/ f = "fate" /\ x = y /\ k = "job" /\ a = c
      BY <2>1, <2>3, <3>1, <3>2, <3>3 DEF Holds, Places
    <3>5. CASE f = "fate" /\ x = y
      <4>1. Holds(f, x, "unsent", x.from)
        BY <2>1, <3>5 DEF Holds
      <4>2. Moved(f, x)
        BY <3>4, <3>5, <4>1, PlaceOwners DEF Moved, Places
      <4> QED
        BY <3>1, <3>2, <4>2
    <3>6. CASE ~(f = "fate" /\ x = y)
      BY <3>1, <3>2, <3>4, <3>6 DEF Kept
    <3> QED
      BY <3>5, <3>6
  <2> QED
    BY <2>5, <2>6, FateStep
<1> QED
  BY <1>1, <1>2, <1>3, <1>4 DEF Request

(* The discarding loop: the notices it sends carry the message id 0, so that *)
(* they move no token.                                                      *)
LEMMA DiscardFlow ==
  ASSUME Types, Routes, Fates, Orders, NEW t \in Threads, NEW l,
         \/ \E c \in Clients : t = Service(c) /\ l = "clear"
         \/ t \in MailboxThreads /\ (l = "done" \/ (l = "got" /\ pc[t] = "next_discard")),
         UNCHANGED <<out, unsent, job, accepted>>,
         M!DiscardToHook(t) \/ M!DiscardUnhooked(t) \/ M!DiscardDone(t, l)
  PROVE  Fates' /\ Orders'
<1>1. CASE M!DiscardToHook(t)
  <2>1. PICK from : from = Head(todo[t]).from
    OBVIOUS
  <2>2. PICK e : e = [type |-> "notice", id |-> 0, kind |-> "BOUNCE"]
    OBVIOUS
  <2>3. /\ M!Enqueue(from, e) /\ UNCHANGED <<life, pc, entry>>
        /\ todo[t] # << >> /\ M!IsMessage(Head(todo[t]))
    BY <1>1, <2>1, <2>2 DEF M!DiscardToHook, M!Hooked, M!HoldsRef, M!NoMsgId
  <2>4. from \in Mailboxes
    <3>1. Head(todo[t]) \in M!Entry
      BY <2>3 DEF Types, CallTypes
    <3> QED
      BY <2>1, <2>3, <3>1, Entries
  <2>5. e \in M!Entry
    BY <2>2, Made
  <2>6. \A f \in Tokens, x \in Traffic : ~Carries(f, e, x)
    BY <2>2, NoticeCarries, TrafficOK
  <2>7. "job" \in Places /\ t \in Owners /\ "job" # "box"
    BY DEF Places, Owners
  <2> QED
    BY <2>2, <2>3, <2>4, <2>5, <2>6, <2>7, EnqueueFates, NoticeOrders DEF M!IsMessage
<1>2. CASE M!DiscardUnhooked(t)
  <2>1. Calm
    BY <1>2 DEF M!DiscardUnhooked, Calm
  <2> QED
    BY <2>1, CalmFates, CalmOrders
<1>3. CASE M!DiscardDone(t, l)
  <2>1. UNCHANGED <<life, box, entry>> /\ pc' = [pc EXCEPT ![t] = l]
    BY <1>3 DEF M!DiscardDone, M!Goto
  <2>2. pc'[t] = l /\ \A u \in Threads : u # t => pc'[u] = pc[u]
    BY <2>1 DEF Types, CallTypes
  <2>3. CASE \E c \in Clients : t = Service(c) /\ l = "clear"
    BY <2>1, <2>2, <2>3, CalmService DEF Sending
  <2>4. CASE t \in MailboxThreads /\ (l = "done" \/ (l = "got" /\ pc[t] = "next_discard"))
    BY <2>1, <2>2, <2>4, CalmThread DEF InNext
  <2> QED
    BY <2>3, <2>4
<1> QED
  BY <1>1, <1>2, <1>3

(* The service thread: mb_add_message takes the message from the job to the *)
(* mailbox.                                                                 *)
LEMMA ServiceFlow ==
  ASSUME Types, Routes, Fates, Orders, NEW c \in Clients, ServiceStep(c)
  PROVE  Fates' /\ Orders'
<1> DEFINE t == Service(c)
<1>s. t \in Threads /\ t \notin MailboxThreads /\ ServiceOK(c) /\ t = Service(c)
  BY Names DEF Routes
<1>n. \A u \in MailboxThreads : u \in Threads /\ u # t
  BY <1>s, Names
<1>p. ASSUME NEW l, Go(c, l)
      PROVE  pc'[t] = l /\ \A u \in Threads : u # Service(c) => pc'[u] = pc[u]
  BY <1>p, <1>s DEF Types, CallTypes, Go, Goto
<1>b. ASSUME UNCHANGED boxVars
      PROVE  \A m \in Mailboxes : life'[m] = "live" =>
               box'[m] = box[m] /\ (life[m] = "live" \/ box[m] = << >>)
  BY <1>b DEF boxVars
<1>c. ASSUME NEW l, Go(c, l), l \notin Sending, UNCHANGED <<out, unsent, job, entry, accepted>>, UNCHANGED boxVars
      PROVE  Fates' /\ Orders'
  BY <1>b, <1>c, <1>p, <1>s, CalmService
<1> HIDE DEF t
<1>1. CASE Spawn(c)
  <2>0. logins[c] \in 1..MaxLogins
    BY <1>1, <1>s, LoginsOK DEF Spawn, Types, ClientTypes, ServiceOK, At
  <2>1. PICK u \in MailboxThreads : u = <<c, logins[c]>>
    BY <2>0, Names
  <2> DEFINE p == [pc EXCEPT ![t] = "serve"]
  <2>2. pc' = [p EXCEPT ![u] = "start"] /\ UNCHANGED <<out, unsent, job, entry, accepted>> /\ UNCHANGED boxVars
    BY <1>1, <1>s, <2>1 DEF Spawn, callVars, sendVars
  <2>3. \A w \in Threads : pc'[w] = IF w = u THEN "start" ELSE IF w = t THEN "serve" ELSE pc[w]
    BY <2>2 DEF Types, CallTypes
  <2>4. \A d \in Clients : pc'[Service(d)] \in Sending => pc[Service(d)] \in Sending
    <3> SUFFICES ASSUME NEW d \in Clients, pc'[Service(d)] \in Sending PROVE pc[Service(d)] \in Sending
      OBVIOUS
    <3>1. Service(d) \in Threads
      BY Names
    <3> QED
      BY <2>3, <3>1 DEF Sending
  <2>5. \A w \in MailboxThreads : pc'[w] \in InNext \cup {"rrcpt", "bounce"} => pc'[w] = pc[w]
    BY <2>3, <1>n DEF InNext
  <2>6. Calm
    BY <1>b, <2>2, <2>4, <2>5 DEF Calm
  <2> QED
    BY <2>6, CalmFates, CalmOrders
<1>2. CASE ReadEOF(c)
  BY <1>2, <1>c DEF ReadEOF, callVars, sendVars, Sending
<1>3. CASE LogoutShutdown(c)
  <2>1. cbox[c] \in Mailboxes
    BY <1>3, <1>s, OwnBox DEF LogoutShutdown, At, ServiceOK
  <2>2. \A m \in Mailboxes : life'[m] = "live" =>
           box'[m] = box[m] /\ (life[m] = "live" \/ box[m] = << >>)
    BY <1>3, <1>s, <2>1, BoxesCalm DEF LogoutShutdown, Types
  <2>3. pc'[t] = "unref" /\ \A u \in Threads : u # Service(c) => pc'[u] = pc[u]
    BY <1>3, <1>p DEF LogoutShutdown
  <2>4. UNCHANGED <<out, unsent, job, entry, accepted>>
    BY <1>3 DEF LogoutShutdown, callVars, sendVars
  <2> QED
    BY <1>s, <2>2, <2>3, <2>4, CalmService DEF Sending
<1>4. CASE LogoutUnref(c)
  <2>1. cbox[c] \in Mailboxes
    BY <1>4, <1>s, OwnBox DEF LogoutUnref, At, ServiceOK
  <2>2. UNCHANGED <<out, unsent, job, entry, accepted>>
    BY <1>4 DEF LogoutUnref, M!UnrefLast, callVars, sendVars
  <2>3. CASE M!UnrefLast(t, cbox[c])
    <3>1. M!Finalise(t, cbox[c]) /\ box' = box
      BY <2>3 DEF M!UnrefLast
    <3>2. \A m \in Mailboxes : life'[m] = "live" =>
             box'[m] = box[m] /\ (life[m] = "live" \/ box[m] = << >>)
      BY <1>s, <2>1, <3>1, BoxesCalm DEF Types
    <3>3. pc'[t] = "discard" /\ \A u \in Threads : u # Service(c) => pc'[u] = pc[u]
      BY <2>3, <1>s DEF M!UnrefLast, M!Goto, Types, CallTypes
    <3> QED
      BY <1>s, <2>2, <3>2, <3>3, CalmService DEF Sending
  <2>4. CASE M!UnrefSome(cbox[c]) /\ Go(c, "clear")
    <3>2. \A m \in Mailboxes : life'[m] = "live" =>
             box'[m] = box[m] /\ (life[m] = "live" \/ box[m] = << >>)
      BY <1>s, <2>1, <2>4, BoxesCalm DEF Types
    <3>3. pc'[t] = "clear" /\ \A u \in Threads : u # Service(c) => pc'[u] = pc[u]
      BY <2>4, <1>p
    <3> QED
      BY <1>s, <2>2, <3>2, <3>3, CalmService DEF Sending
  <2> QED
    BY <1>4, <1>s, <2>3, <2>4 DEF LogoutUnref
<1>5. CASE LogoutClear(c)
  BY <1>5, <1>c DEF LogoutClear, callVars, sendVars, Sending
<1>6. CASE JoinMailboxThread(c)
  BY <1>6, <1>c DEF JoinMailboxThread, callVars, sendVars, Sending
<1>7. CASE SendLookup(c)
  <2>1. pc[t] \in Sending /\ UNCHANGED <<out, unsent, job, entry, accepted>> /\ UNCHANGED boxVars
    BY <1>7, <1>s DEF SendLookup, At, Sending, callVars
  <2>2. pc'[t] = "add" /\ \A u \in Threads : u # Service(c) => pc'[u] = pc[u]
    BY <1>7, <1>p DEF SendLookup
  <2> QED
    BY <1>b, <1>s, <2>1, <2>2, CalmService
<1>8. CASE SendToSelf(c)
  <2>1. cbox[c] \in Mailboxes /\ job[c] \in Traffic /\ pc[t] = "add"
    BY <1>8, <1>s, OwnBox DEF SendToSelf, At, ServiceOK, Sending
  <2>2. PICK e : e = [type |-> "message", id |-> job[c].id, from |-> cbox[c]]
    OBVIOUS
  <2>3. e \in M!Entry /\ e.type = "message" /\ e.id = job[c].id
    BY <2>1, <2>2, Made, Entries DEF Ids
  <2>4. M!Enqueue(cbox[c], e) /\ life' = life /\ UNCHANGED <<out, unsent, job, entry>>
    BY <1>8, <2>2 DEF SendToSelf, M!AddOwnMessage, callVars
  <2>5. pc'[t] = "serve" /\ \A u \in Threads : u # Service(c) => pc'[u] = pc[u]
    BY <1>8, <1>p DEF SendToSelf
  <2>6. \A f \in Tokens, x \in Traffic : Carries(f, e, x) =>
           Holds(f, x, "job", c) /\ ~Holds(f, x, "job", c)'
    BY <1>s, <2>1, <2>3, <2>5, MessageCarries, TrafficOK DEF Holds, Sending
  <2>7. \A d \in Clients : pc'[Service(d)] \in Sending => pc[Service(d)] \in Sending
    BY <1>s, <2>5, Names DEF Sending
  <2>8. \A u \in MailboxThreads : pc'[u] \in InNext \cup {"rrcpt", "bounce"} =>
          entry'[u] = entry[u] /\ pc'[u] = pc[u]
    BY <1>n, <1>s, <2>4, <2>5
  <2>9. "job" \in Places /\ c \in Owners /\ "job" # "box"
    BY PlaceOwners
  <2>10. Fates'
    BY <2>1, <2>3, <2>4, <2>6, <2>7, <2>8, <2>9, EnqueueFates
  <2>11. accepted' = Append(accepted, job[c].id)
    BY <1>8 DEF SendToSelf
  <2>12. Orders'
    <3>1. pc[Service(c)] \in Sending /\ pc'[Service(c)] = "serve"
      BY <1>s, <2>1, <2>5 DEF Sending
    <3>2. (\A u \in MailboxThreads : entry'[u] = entry[u]) /\ UNCHANGED <<out, unsent, job>>
      BY <2>4
    <3> QED
      BY <2>1, <2>3, <2>4, <2>5, <2>11, <3>1, <3>2, AcceptOrders
  <2> QED
    BY <2>10, <2>12
<1>9. CASE SendLock(c)
  <2>1. pc[t] \in Sending /\ M!AddMessageLock(t, target[c], cbox[c], job[c].id)
    BY <1>9, <1>s DEF SendLock, At, Sending
  <2>2. /\ pc'[t] = "add_ref" /\ UNCHANGED <<life, box>>
        /\ \A u \in Threads : u # Service(c) => pc'[u] = pc[u] /\ entry'[u] = entry[u]
    BY <1>s, <2>1 DEF M!AddMessageLock, M!Goto, Types, CallTypes
  <2>3. UNCHANGED <<out, unsent, job, accepted>>
    BY <1>9 DEF SendLock, sendVars
  <2> QED
    BY <1>n, <1>s, <2>1, <2>2, <2>3, CalmService
<1>10. CASE SendEnqueue(c)
  <2>1. /\ cbox[c] \in Mailboxes /\ job[c] \in Traffic /\ pc[t] = "add_ref" /\ mb[t] \in Mailboxes
        /\ entry[t] = [type |-> "message", id |-> job[c].id, from |-> cbox[c]]
    BY <1>10, <1>s, OwnBox DEF SendEnqueue, M!AddMessageRef, ServiceOK, Sending
  <2>3. entry[t] \in M!Entry /\ entry[t].type = "message" /\ entry[t].id = job[c].id
    BY <2>1, Made, Entries DEF Ids
  <2>4. /\ M!Enqueue(mb[t], entry[t]) /\ life' = life /\ UNCHANGED <<out, unsent, job>>
        /\ pc' = [pc EXCEPT ![t] = "serve"] /\ entry' = [entry EXCEPT ![t] = M!NULL]
    BY <1>10, <1>s DEF SendEnqueue, M!AddMessageRef, M!Goto
  <2>5. /\ pc'[t] = "serve"
        /\ \A u \in Threads : u # Service(c) => pc'[u] = pc[u] /\ entry'[u] = entry[u]
    BY <1>s, <2>4 DEF Types, CallTypes
  <2>6. \A f \in Tokens, x \in Traffic : Carries(f, entry[t], x) =>
           Holds(f, x, "job", c) /\ ~Holds(f, x, "job", c)'
    BY <1>s, <2>1, <2>3, <2>5, MessageCarries, TrafficOK DEF Holds, Sending
  <2>7. \A d \in Clients : pc'[Service(d)] \in Sending => pc[Service(d)] \in Sending
    BY <1>s, <2>5, Names DEF Sending
  <2>8. \A u \in MailboxThreads : pc'[u] \in InNext \cup {"rrcpt", "bounce"} =>
          entry'[u] = entry[u] /\ pc'[u] = pc[u]
    BY <1>n, <1>s, <2>5
  <2>9. "job" \in Places /\ c \in Owners /\ "job" # "box"
    BY PlaceOwners
  <2>10. Fates'
    BY <2>1, <2>3, <2>4, <2>6, <2>7, <2>8, <2>9, EnqueueFates
  <2>11. accepted' = Append(accepted, job[c].id)
    BY <1>10 DEF SendEnqueue
  <2>12. Orders'
    <3>1. pc[Service(c)] \in Sending /\ pc'[Service(c)] = "serve"
      BY <1>s, <2>1, <2>5 DEF Sending
    <3>2. \A u \in MailboxThreads : entry'[u] = entry[u]
      BY <1>n, <1>s, <2>5
    <3>3. UNCHANGED <<out, unsent, job>> /\ \A u \in Threads : u # Service(c) => pc'[u] = pc[u]
      BY <2>4, <2>5
    <3> QED
      BY <2>1, <2>3, <2>4, <2>11, <3>1, <3>2, <3>3, AcceptOrders
  <2> QED
    BY <2>10, <2>12
<1>11. CASE Discard(t)
  <2>1. pc[t] # "next_discard"
    BY <1>s DEF Types, CallTypes, ServiceLabels
  <2>2. AfterDiscard(t) = "clear"
    BY <1>s, <2>1, Names DEF AfterDiscard
  <2>3. M!DiscardToHook(t) \/ M!DiscardUnhooked(t) \/ M!DiscardDone(t, "clear")
    BY <1>11, <2>2 DEF Discard
  <2>4. UNCHANGED <<out, unsent, job, accepted>>
    BY <1>11 DEF Discard, sendVars
  <2> QED
    BY <1>s, <2>3, <2>4, DiscardFlow
<1> QED
  BY <1>s, <1>1, <1>2, <1>3, <1>4, <1>5, <1>6, <1>7, <1>8, <1>9, <1>10, <1>11 DEF ServiceStep

(* The packet of the entry in hand is sent: its token is out, and a message *)
(* that was delivered gets a receipt, its only one.                         *)
LEMMA SentFates ==
  ASSUME Types, Routes, Fates, NEW t \in MailboxThreads, pc[t] = "got",
         out' = [out EXCEPT ![t[1]] = Append(@, Packet(entry[t]))],
         Goto(t, IF M!IsMessage(entry[t]) THEN "rrcpt" ELSE "loop"),
         UNCHANGED <<life, box, entry, unsent, job, accepted>>
  PROVE  Fates'
<1>1. PICK c \in Clients : c = t[1]
  BY Names
<1>2. PICK e \in M!Entry : e = entry[t] /\ For(e, c)
  BY <1>1 DEF Routes, ThreadOK, InNext
<1>3. PICK p \in Packets : p = Packet(e)
  BY PacketFacts
<1>4. \A f \in Tokens, x \in Traffic : Carries(f, e, x) <=> Reports(f, p, x)
  BY <1>3, PacketFacts
<1>5. /\ t \in Threads /\ t \in Owners /\ c \in Owners
      /\ out' = [out EXCEPT ![c] = Append(@, p)]
      /\ pc'[t] = IF M!IsMessage(e) THEN "rrcpt" ELSE "loop"
      /\ \A u \in Threads : u # t => pc'[u] = pc[u]
  BY <1>1, <1>2, <1>3, Names, PlaceOwners DEF Goto, Types, CallTypes
<1>6. \A d \in Clients : pc'[Service(d)] = pc[Service(d)]
  BY <1>5, Names
<1> SUFFICES ASSUME NEW x \in Traffic PROVE Fate(x)'
  BY DEF Fates
<1>7. Fate(x)
  BY DEF Fates
<1>8. ASSUME NEW f \in Tokens
      PROVE  /\ OnceInBox(f, x)' /\ OnceOut(f, x)'
             /\ \A k \in Places, a \in Owners : Holds(f, x, k, a)' =>
                  \/ Holds(f, x, k, a) /\ (k # "hand" \/ a # t)
                  \/ k = "out" /\ a = c /\ Carries(f, e, x)
                  \/ k = "hand" /\ a = t /\ f = "receipt" /\ M!IsMessage(e) /\ e.id = x.id
             /\ Carries(f, e, x) => Holds(f, x, "hand", t)
  <2>1. Carries(f, e, x) => Holds(f, x, "hand", t)
    BY <1>2 DEF Holds, InHand, InNext
  <2>2. Reports(f, p, x) => ~InOut(f, x, c)
    <3> SUFFICES ASSUME Reports(f, p, x), InOut(f, x, c) PROVE FALSE
      OBVIOUS
    <3>1. Holds(f, x, "hand", t) /\ Holds(f, x, "out", c)
      BY <1>4, <2>1 DEF Holds
    <3> QED
      BY <1>5, <1>7, <3>1, PlaceOwners DEF Fate, Single
  <2>3. /\ \A d \in Clients : InOut(f, x, d)' => InOut(f, x, d) \/ (d = c /\ Carries(f, e, x))
        /\ OnceOut(f, x)'
    <3>1. OnceOut(f, x) /\ out' = [out EXCEPT ![c] = Append(@, p)]
      BY <1>5, <1>7 DEF Fate
    <3>2. /\ \A d \in Clients : InOut(f, x, d)' => InOut(f, x, d) \/ (d = c /\ Reports(f, p, x))
          /\ OnceOut(f, x)'
      BY <2>2, <3>1, PutOut
    <3> QED
      BY <1>4, <3>2
  <2>4. OnceInBox(f, x)' /\ \A m \in Mailboxes : InBox(f, x, m)' => InBox(f, x, m)
    BY <1>7, SameBoxes DEF Fate
  <2>5. ASSUME NEW u \in MailboxThreads, InHand(f, x, u)'
        PROVE  \/ u # t /\ InHand(f, x, u)
               \/ u = t /\ f = "receipt" /\ M!IsMessage(e) /\ e.id = x.id
    <3>1. CASE u = t
      BY <1>2, <1>5, <2>5, <3>1 DEF InHand, InNext, Tokens
    <3>2. CASE u # t
      BY <1>5, <2>5, <3>2, Names DEF InHand, Carries
    <3> QED
      BY <3>1, <3>2
  <2>6. ASSUME NEW k \in Places, NEW a \in Owners, Holds(f, x, k, a)'
        PROVE  \/ Holds(f, x, k, a) /\ (k # "hand" \/ a # t)
               \/ k = "out" /\ a = c /\ Carries(f, e, x)
               \/ k = "hand" /\ a = t /\ f = "receipt" /\ M!IsMessage(e) /\ e.id = x.id
    BY <1>6, <2>3, <2>4, <2>5, <2>6 DEF Holds, Places
  <2> QED
    BY <2>1, <2>3, <2>4, <2>6
<1>9. Delivered(x) => Delivered(x)'
  <2>1. \A i \in DOMAIN out[x.to] : i \in DOMAIN out'[x.to] /\ out'[x.to][i] = out[x.to][i]
    BY <1>5, PlaceOwners, AppendAt DEF Types, SendTypes
  <2> QED
    BY <2>1 DEF Delivered
<1>10. M!IsMessage(e) /\ e.id = x.id => Delivered(x)' /\ Carries("fate", e, x)
  <2> SUFFICES ASSUME M!IsMessage(e), e.id = x.id PROVE Delivered(x)' /\ Carries("fate", e, x)
    OBVIOUS
  <2>1. x.to = c /\ p = [type |-> "MESG", id |-> x.id]
    BY <1>2, <1>3 DEF For, Packet
  <2>2. \E i \in DOMAIN out'[c] : out'[c][i] = p
    BY <1>5, AppendAt DEF Types, SendTypes
  <2> QED
    BY <2>1, <2>2 DEF Delivered, Carries
<1>11. ASSUME NEW f \in Tokens
       PROVE  Kept(f, x) \/ Moved(f, x) \/ Fresh(f, x)
  <2>1. CASE Carries(f, e, x)
    <3>1. ~(f = "receipt" /\ M!IsMessage(e))
      BY <2>1, Entries DEF Carries
    <3>2. \A k \in Places, a \in Owners : Holds(f, x, k, a)' =>
            \/ k = "out" /\ a = c
            \/ Holds(f, x, k, a) /\ (k # "hand" \/ a # t)
      BY <1>8, <3>1
    <3>3. Moved(f, x)
      BY <1>5, <1>8, <2>1, <3>2, PlaceOwners DEF Moved, Places
    <3> QED
      BY <3>3
  <2>2. CASE f = "receipt" /\ M!IsMessage(e) /\ e.id = x.id
    <3>1. "fate" \in Tokens /\ "receipt" \in Tokens
      BY DEF Tokens
    <3>2. Holds("fate", x, "hand", t) /\ Delivered(x)'
      BY <1>8, <1>10, <2>2, <3>1
    <3>3. ~Delivered(x)
      <4> SUFFICES ASSUME Delivered(x) PROVE FALSE
        OBVIOUS
      <4>1. Holds("fate", x, "out", x.to)
        BY PlaceOwners DEF Holds, InOut, Delivered, Reports
      <4> QED
        BY <1>5, <1>7, <3>1, <3>2, <4>1, PlaceOwners DEF Fate, Single
    <3>4. \A k \in Places, a \in Owners : ~Holds(f, x, k, a)
      BY <1>7, <2>2, <3>3 DEF Fate
    <3>5. \A k \in Places, a \in Owners : Holds(f, x, k, a)' => k = "hand" /\ a = t
      <4>1. ~Carries(f, e, x)
        BY <2>2, Entries DEF Carries
      <4> QED
        BY <1>8, <3>4, <4>1
    <3>6. Fresh(f, x)
      BY <1>5, <3>2, <3>4, <3>5, PlaceOwners DEF Fresh
    <3> QED
      BY <3>6
  <2>3. CASE ~Carries(f, e, x) /\ ~(f = "receipt" /\ M!IsMessage(e) /\ e.id = x.id)
    BY <1>8, <2>3 DEF Kept
  <2> QED
    BY <2>1, <2>2, <2>3
<1> QED
  BY <1>7, <1>8, <1>9, <1>11, FateStep

(* The packet could not be sent: a message stays in hand for its bounce, and a *)
(* notice is dropped with its token.                                        *)
LEMMA FailedFates ==
  ASSUME Types, Routes, Fates, NEW t \in MailboxThreads, pc[t] = "got",
         Goto(t, IF M!IsMessage(entry[t]) THEN "bounce" ELSE "loop"),
         UNCHANGED <<life, box, entry, unsent, job, accepted, out>>
  PROVE  Fates'
<1>1. PICK e \in M!Entry : e = entry[t]
  BY DEF Routes, ThreadOK
<1>2. /\ pc'[t] = IF M!IsMessage(e) THEN "bounce" ELSE "loop"
      /\ \A u \in Threads : u # t => pc'[u] = pc[u]
  BY <1>1, Names DEF Goto, Types, CallTypes
<1>3. \A d \in Clients : pc'[Service(d)] = pc[Service(d)]
  BY <1>2, Names
<1> SUFFICES ASSUME NEW x \in Traffic PROVE Fate(x)'
  BY DEF Fates
<1>4. Fate(x) /\ (Delivered(x) => Delivered(x)')
  BY DEF Fates, Delivered
<1>5. ASSUME NEW f \in Tokens
      PROVE  OnceInBox(f, x)' /\ OnceOut(f, x)' /\ Kept(f, x)
  <2>1. OnceInBox(f, x)' /\ \A m \in Mailboxes : InBox(f, x, m)' => InBox(f, x, m)
    BY <1>4, SameBoxes DEF Fate
  <2>2. OnceOut(f, x)' /\ \A d \in Clients : InOut(f, x, d)' => InOut(f, x, d)
    BY <1>4 DEF Fate, OnceOut, InOut
  <2>3. ASSUME NEW u \in MailboxThreads, InHand(f, x, u)'
        PROVE  InHand(f, x, u)
    <3>1. CASE u = t
      BY <1>1, <1>2, <2>3, <3>1 DEF InHand, InNext, Tokens, Carries
    <3>2. CASE u # t
      BY <1>2, <2>3, <3>2, Names DEF InHand, Carries
    <3> QED
      BY <3>1, <3>2
  <2>4. ASSUME NEW k \in Places, NEW a \in Owners, Holds(f, x, k, a)'
        PROVE  Holds(f, x, k, a)
    BY <1>3, <2>1, <2>2, <2>3, <2>4 DEF Holds, Places
  <2> QED
    BY <2>1, <2>2, <2>4 DEF Kept
<1> QED
  BY <1>4, <1>5, FateStep

(* mb_next_entry: the token of the head goes from the mailbox to the thread. *)
LEMMA TakeFates ==
  ASSUME Types, Routes, Fates, NEW t \in MailboxThreads, M!NextRemove(t, "got"),
         UNCHANGED <<unsent, job, out, accepted>>
  PROVE  Fates'
<1>1. PICK m \in Mailboxes : m = mb[t]
  BY DEF M!NextRemove, Routes, ThreadOK
<1>2. PICK e : e = Head(box[m])
  OBVIOUS
<1>3. /\ pc[t] = "next_lock" /\ life[m] = "live" /\ box[m] # << >> /\ life' = life
      /\ box' = [box EXCEPT ![m] = Tail(@)] /\ entry' = [entry EXCEPT ![t] = e]
      /\ \E l \in {"next_unref", "got"} : Goto(t, l)
  BY <1>1, <1>2 DEF M!NextRemove, M!Goto, Goto, M!Unlocked
<1>4. /\ pc'[t] \in {"next_unref", "got"} /\ entry'[t] = e
      /\ \A u \in Threads : u # t => pc'[u] = pc[u] /\ entry'[u] = entry[u]
  BY <1>3, Names DEF Goto, Types, CallTypes
<1>5. /\ \A d \in Clients : pc'[Service(d)] = pc[Service(d)]
      /\ t \in Owners /\ m \in Owners
  BY <1>4, Names, PlaceOwners
<1> SUFFICES ASSUME NEW x \in Traffic PROVE Fate(x)'
  BY DEF Fates
<1>6. Fate(x) /\ (Delivered(x) => Delivered(x)')
  BY DEF Fates, Delivered
<1>7. ASSUME NEW f \in Tokens
      PROVE  OnceInBox(f, x)' /\ OnceOut(f, x)' /\ (Kept(f, x) \/ Moved(f, x))
  <2>1. /\ \A y \in Mailboxes : InBox(f, x, y)' => InBox(f, x, y)
        /\ Carries(f, e, x) => InBox(f, x, m) /\ ~InBox(f, x, m)'
        /\ OnceInBox(f, x)'
    BY <1>2, <1>3, <1>6, TakeBoxes DEF Fate
  <2>2. OnceOut(f, x)' /\ \A d \in Clients : InOut(f, x, d)' => InOut(f, x, d)
    BY <1>6 DEF Fate, OnceOut, InOut
  <2>3. ASSUME NEW u \in MailboxThreads, InHand(f, x, u)'
        PROVE  InHand(f, x, u) \/ (u = t /\ Carries(f, e, x))
    <3>1. CASE u = t
      BY <1>4, <2>3, <3>1 DEF InHand, InNext, Carries
    <3>2. CASE u # t
      BY <1>4, <2>3, <3>2, Names DEF InHand, Carries
    <3> QED
      BY <3>1, <3>2
  <2>4. ASSUME NEW k \in Places, NEW a \in Owners, Holds(f, x, k, a)'
        PROVE  \/ Holds(f, x, k, a) /\ ~(k = "box" /\ a = m /\ Carries(f, e, x))
               \/ k = "hand" /\ a = t /\ Carries(f, e, x)
    BY <1>5, <2>1, <2>2, <2>3, <2>4 DEF Holds, Places
  <2>5. CASE Carries(f, e, x)
    <3>1. Holds(f, x, "box", m)
      BY <2>1, <2>5 DEF Holds
    <3>2. Moved(f, x)
      BY <1>5, <2>4, <2>5, <3>1, PlaceOwners DEF Moved, Places
    <3> QED
      BY <2>1, <2>2, <3>2
  <2>6. CASE ~Carries(f, e, x)
    BY <2>1, <2>2, <2>4, <2>6 DEF Kept
  <2> QED
    BY <2>5, <2>6
<1> QED
  BY <1>6, <1>7, FateStep

(* What these three steps do to the order of messages.  A receiver that logs   *)
(* in once has one mailbox and one mailbox thread.                             *)
LEMMA OneLogin ==
  ASSUME MaxLogins = 1, NEW m \in Mailboxes, NEW u \in Mailboxes, m[1] = u[1]
  PROVE  m = u
BY DEF Mailboxes

(* A message in a mailbox or in hand is for the client of that mailbox, and    *)
(* two messages in one place are the same.                                     *)
LEMMA Receivers ==
  ASSUME Routes, NEW x \in Traffic
  PROVE  /\ \A m \in Mailboxes, i \in Nat : Queued(x, m, i) => m[1] = x.to
         /\ \A t \in MailboxThreads : Held(x, t) => t[1] = x.to
<1>1. \A m \in Mailboxes, i \in Nat : Queued(x, m, i) => m[1] = x.to
  BY DEF Queued, Routes, BoxOK, For
<1>2. \A t \in MailboxThreads : Held(x, t) => t[1] = x.to
  BY DEF Held, Routes, ThreadOK, For
<1> QED
  BY <1>1, <1>2

LEMMA FailedOrders ==
  ASSUME Types, Orders, NEW t \in MailboxThreads, pc[t] = "got",
         Goto(t, IF M!IsMessage(entry[t]) THEN "bounce" ELSE "loop"),
         UNCHANGED <<life, box, entry, unsent, job, accepted, out>>
  PROVE  Orders'
<1>1. /\ pc'[t] \in {"bounce", "loop"}
      /\ \A u \in Threads : u # t => pc'[u] = pc[u]
  BY Names DEF Goto, Types, CallTypes
<1>2. \A d \in Clients : pc'[Service(d)] = pc[Service(d)]
  BY <1>1, Names
<1>3. \A x \in Traffic : Waits(x)' => Waits(x)
  BY <1>2 DEF Waits
<1>4. ASSUME NEW x \in Traffic
      PROVE  /\ \A y \in Mailboxes, i \in Nat : Queued(x, y, i)' => Queued(x, y, i)
             /\ \A u \in MailboxThreads : Held(x, u)' => Held(x, u)
             /\ \A i \in Nat : SentAt(x, i)' => SentAt(x, i)
  BY <1>1, Names DEF Queued, Held, SentAt, InNext
<1> QED
  BY <1>3, <1>4, KeepOrders

LEMMA TakeOrders ==
  ASSUME Types, Routes, Orders, NEW t \in MailboxThreads, M!NextRemove(t, "got"),
         UNCHANGED <<unsent, job, out, accepted>>
  PROVE  Orders'
<1>1. PICK m \in Mailboxes : m = mb[t]
  BY DEF M!NextRemove, Routes, ThreadOK
<1>2. PICK e : e = Head(box[m])
  OBVIOUS
<1>3. /\ pc[t] = "next_lock" /\ life[m] = "live" /\ box[m] # << >> /\ life' = life
      /\ box' = [box EXCEPT ![m] = Tail(@)] /\ entry' = [entry EXCEPT ![t] = e]
      /\ \E l \in {"next_unref", "got"} : Goto(t, l)
  BY <1>1, <1>2 DEF M!NextRemove, M!Goto, Goto, M!Unlocked
<1>4. /\ pc'[t] \in {"next_unref", "got"} /\ entry'[t] = e
      /\ \A u \in Threads : u # t => pc'[u] = pc[u] /\ entry'[u] = entry[u]
  BY <1>3, Names DEF Goto, Types, CallTypes
<1>5. \A d \in Clients : pc'[Service(d)] = pc[Service(d)]
  BY <1>4, Names
<1>6. /\ \A y \in Mailboxes : box'[y] = IF y = m THEN Tail(box[m]) ELSE box[y]
      /\ box[m] \in Seq(M!Entry)
  BY <1>3 DEF Types, BoxTypes
<1>7. \A x \in Traffic, y \in Mailboxes, i \in Nat : Queued(x, y, i)' =>
        \/ y # m /\ Queued(x, y, i)
        \/ y = m /\ Queued(x, m, i + 1) /\ i # 0
  <2> SUFFICES ASSUME NEW x \in Traffic, NEW y \in Mailboxes, NEW i \in Nat, Queued(x, y, i)'
               PROVE  \/ y # m /\ Queued(x, y, i)
                      \/ y = m /\ Queued(x, m, i + 1) /\ i # 0
    OBVIOUS
  <2>1. CASE y = m
    <3>1. box'[m] = Tail(box[m]) /\ i \in DOMAIN box'[m]
      BY <1>6, <2>1 DEF Queued
    <3>2. i + 1 \in DOMAIN box[m] /\ box'[m][i] = box[m][i + 1] /\ i # 0
      <4>1. box[m] \in Seq(M!Entry) /\ box[m] # << >>
        BY <1>3, <1>6
      <4> QED
        BY <3>1, <4>1, TailAt
    <3> QED
      BY <1>3, <2>1, <3>2 DEF Queued
  <2>2. CASE y # m
    BY <1>3, <1>6, <2>2 DEF Queued
  <2> QED
    BY <2>1, <2>2
<1>8. \A x \in Traffic : M!IsMessage(e) /\ e.id = x.id => Queued(x, m, 1)
  <2>1. 1 \in DOMAIN box[m] /\ e = box[m][1]
    BY <1>2, <1>3, <1>6, TailAt
  <2> QED
    BY <1>3, <2>1 DEF Queued
<1>9. \A x \in Traffic, u \in MailboxThreads : Held(x, u)' =>
        \/ u # t /\ Held(x, u)
        \/ u = t /\ Queued(x, m, 1)
  <2> SUFFICES ASSUME NEW x \in Traffic, NEW u \in MailboxThreads, Held(x, u)'
               PROVE  \/ u # t /\ Held(x, u)
                      \/ u = t /\ Queued(x, m, 1)
    OBVIOUS
  <2>1. CASE u = t
    BY <1>4, <1>8, <2>1 DEF Held
  <2>2. CASE u # t
    BY <1>4, <2>2, Names DEF Held
  <2> QED
    BY <2>1, <2>2
<1>10. /\ \A x \in Traffic, i \in Nat : SentAt(x, i)' <=> SentAt(x, i)
       /\ \A x \in Traffic, i \in Nat : AcceptedAt(x, i)' <=> AcceptedAt(x, i)
       /\ \A x \in Traffic : Waits(x)' => Waits(x)
  BY <1>5 DEF SentAt, AcceptedAt, Waits
<1>11. \A x \in Traffic : Admitted(x)'
  <2> SUFFICES ASSUME NEW x \in Traffic PROVE Admitted(x)'
    OBVIOUS
  <2>1. ASSUME Underway(x)' PROVE Underway(x)
    <3>1. CASE \E y \in Mailboxes, i \in Nat : Queued(x, y, i)'
      <4>1. PICK y \in Mailboxes, i \in Nat : Queued(x, y, i)'
        BY <3>1
      <4>2. i + 1 \in Nat
        OBVIOUS
      <4> QED
        BY <1>7, <4>1, <4>2 DEF Underway
    <3>2. CASE \E u \in MailboxThreads : Held(x, u)'
      BY <1>9, <3>2 DEF Underway
    <3>3. CASE \E i \in Nat : SentAt(x, i)'
      BY <1>10, <3>3 DEF Underway
    <3> QED
      BY <2>1, <3>1, <3>2, <3>3 DEF Underway, Queued, Held, SentAt
  <2> QED
    BY <1>10, <2>1 DEF Orders, Admitted
<1>12. ASSUME MaxLogins = 1, NEW x \in Traffic, NEW y \in Traffic, x.to = y.to, Before(x, y)'
       PROVE  Ordered(x, y)'
  <2>1. Before(x, y)
    BY <1>10, <1>12 DEF Before, AcceptedAt
  <2>2. Ordered(x, y)
    BY <1>12, <2>1 DEF Orders
  <2>3. ASSUME NEW b \in Mailboxes, NEW i \in Nat, Queued(x, b, i)'
        PROVE  /\ \A u \in MailboxThreads : ~Held(y, u)'
               /\ \A j \in Nat : ~SentAt(y, j)'
               /\ \A j \in Nat : Queued(y, b, j)' => i < j
    <3>1. PICK k \in Nat : /\ Queued(x, b, k) /\ k = IF b = m THEN i + 1 ELSE i
                           /\ b = m => i # 0
      <4>1. i + 1 \in Nat
        OBVIOUS
      <4> QED
        BY <1>7, <2>3, <4>1
    <3>2. ~Queued(y, m, 1)
      <4> SUFFICES ASSUME Queued(y, m, 1) PROVE FALSE
        OBVIOUS
      <4>1. m[1] = b[1]
        BY <1>12, <3>1, Receivers
      <4>2. b = m
        BY <1>12, <4>1, OneLogin
      <4> QED
        BY <2>2, <3>1, <4>2 DEF Ordered
    <3>3. \A u \in MailboxThreads : ~Held(y, u)'
      BY <1>9, <2>2, <3>1, <3>2 DEF Ordered
    <3>4. \A j \in Nat : ~SentAt(y, j)'
      BY <1>10, <2>2, <3>1 DEF Ordered
    <3>5. ASSUME NEW j \in Nat, Queued(y, b, j)'
          PROVE  i < j
      <4>1. CASE b = m
        <5>1. Queued(y, m, j + 1) /\ j + 1 \in Nat
          BY <1>7, <3>5, <4>1
        <5>2. k < j + 1
          BY <2>2, <3>1, <4>1, <5>1 DEF Ordered
        <5> QED
          BY <3>1, <4>1, <5>2
      <4>2. CASE b # m
        BY <1>7, <2>2, <3>1, <3>5, <4>2 DEF Ordered
      <4> QED
        BY <4>1, <4>2
    <3> QED
      BY <3>3, <3>4, <3>5
  <2>4. \A u \in MailboxThreads : Held(x, u)' => \A j \in Nat : ~SentAt(y, j)'
    BY <1>9, <1>10, <2>2 DEF Ordered
  <2>5. \A i, j \in Nat : SentAt(x, i)' /\ SentAt(y, j)' => i < j
    BY <1>10, <2>2 DEF Ordered
  <2> QED
    BY <2>3, <2>4, <2>5 DEF Ordered
<1> QED
  BY <1>11, <1>12 DEF Orders

LEMMA SentOrders ==
  ASSUME Types, Routes, Orders, NEW t \in MailboxThreads, pc[t] = "got",
         out' = [out EXCEPT ![t[1]] = Append(@, Packet(entry[t]))],
         Goto(t, IF M!IsMessage(entry[t]) THEN "rrcpt" ELSE "loop"),
         UNCHANGED <<life, box, entry, unsent, job, accepted>>
  PROVE  Orders'
<1>1. PICK c \in Clients : c = t[1]
  BY Names
<1>2. PICK e \in M!Entry : e = entry[t] /\ For(e, c)
  BY <1>1 DEF Routes, ThreadOK, InNext
<1>3. PICK p \in Packets : p = Packet(e)
  BY PacketFacts
<1>4. /\ pc'[t] \in {"rrcpt", "loop"} /\ t \in Mailboxes
      /\ \A u \in Threads : u # t => pc'[u] = pc[u]
  BY Names DEF Goto, Types, CallTypes
<1>5. \A d \in Clients : pc'[Service(d)] = pc[Service(d)]
  BY <1>4, Names
<1>6. /\ \A d \in Clients : out'[d] = IF d = c THEN Append(out[c], p) ELSE out[d]
      /\ out[c] \in Seq(Packets)
  BY <1>1, <1>2, <1>3 DEF Types, SendTypes
<1>7. \A x \in Traffic, i \in Nat : SentAt(x, i)' =>
        \/ SentAt(x, i)
        \/ x.to = c /\ i = Len(out[c]) + 1 /\ Held(x, t)
  <2> SUFFICES ASSUME NEW x \in Traffic, NEW i \in Nat, SentAt(x, i)'
               PROVE  SentAt(x, i) \/ (x.to = c /\ i = Len(out[c]) + 1 /\ Held(x, t))
    OBVIOUS
  <2>1. x.to \in Clients
    BY TrafficOK
  <2>2. CASE x.to = c
    <3>1. \/ i \in DOMAIN out[c] /\ out'[c][i] = out[c][i]
          \/ i = Len(out[c]) + 1 /\ out'[c][i] = p
      <4>1. out'[c] = Append(out[c], p) /\ i \in DOMAIN out'[c] /\ out[c] \in Seq(Packets)
        BY <1>6, <2>2 DEF SentAt
      <4> QED
        BY <4>1, AppendAt
    <3>2. p = [type |-> "MESG", id |-> x.id] => Held(x, t)
      BY <1>2, <1>3 DEF Packet, Held, InNext
    <3> QED
      BY <2>2, <3>1, <3>2 DEF SentAt
  <2>3. CASE x.to # c
    BY <1>6, <2>1, <2>3 DEF SentAt
  <2> QED
    BY <2>2, <2>3
<1>8. \A x \in Traffic, u \in MailboxThreads : Held(x, u)' => Held(x, u) /\ u # t
  BY <1>4, Names DEF Held, InNext
<1>9. /\ \A x \in Traffic, m \in Mailboxes, i \in Nat : Queued(x, m, i)' <=> Queued(x, m, i)
      /\ \A x \in Traffic, i \in Nat : AcceptedAt(x, i)' <=> AcceptedAt(x, i)
      /\ \A x \in Traffic : Waits(x)' => Waits(x)
  BY <1>5 DEF Queued, AcceptedAt, Waits
<1>10. \A x \in Traffic : Admitted(x)'
  <2> SUFFICES ASSUME NEW x \in Traffic PROVE Admitted(x)'
    OBVIOUS
  <2>1. Underway(x)' => Underway(x)
    BY <1>7, <1>8, <1>9 DEF Underway
  <2> QED
    BY <1>9, <2>1 DEF Orders, Admitted
<1>11. ASSUME MaxLogins = 1, NEW x \in Traffic, NEW y \in Traffic, x.to = y.to, Before(x, y)'
       PROVE  Ordered(x, y)'
  <2>1. Before(x, y)
    BY <1>9, <1>11 DEF Before, AcceptedAt
  <2>2. Ordered(x, y)
    BY <1>11, <2>1 DEF Orders
  <2>3. ~(Held(x, t) /\ Held(y, t))
    <3> SUFFICES ASSUME Held(x, t), Held(y, t) PROVE FALSE
      OBVIOUS
    <3>1. x = y
      BY TrafficOK DEF Held
    <3> QED
      BY <2>1, <3>1 DEF Before, Orders, Admitted
  <2>4. ASSUME NEW m \in Mailboxes, NEW i \in Nat, Queued(x, m, i)'
        PROVE  /\ \A u \in MailboxThreads : ~Held(y, u)'
               /\ \A j \in Nat : ~SentAt(y, j)'
               /\ \A j \in Nat : Queued(y, m, j)' => i < j
    BY <1>7, <1>8, <1>9, <2>2, <2>4 DEF Ordered
  <2>5. ASSUME NEW u \in MailboxThreads, Held(x, u)', NEW j \in Nat, SentAt(y, j)'
        PROVE  FALSE
    <3>1. Held(x, u) /\ u # t
      BY <1>8, <2>5
    <3>2. u[1] = x.to
      BY <3>1, Receivers
    <3>3. ~(y.to = c)
      BY <1>1, <1>4, <1>11, <3>1, <3>2, Names, OneLogin
    <3>4. SentAt(y, j)
      BY <1>7, <2>5, <3>3
    <3> QED
      BY <2>2, <3>1, <3>4 DEF Ordered
  <2>6. ASSUME NEW i \in Nat, NEW j \in Nat, SentAt(x, i)', SentAt(y, j)'
        PROVE  i < j
    <3>1. SentAt(y, j) => ~Held(x, t)
      BY <2>2 DEF Ordered
    <3>2. CASE SentAt(y, j)
      BY <1>7, <2>2, <2>6, <3>1, <3>2 DEF Ordered
    <3>3. CASE j = Len(out[c]) + 1 /\ y.to = c /\ Held(y, t)
      <4>1. SentAt(x, i) /\ x.to = c
        BY <1>7, <1>11, <2>3, <2>6, <3>3
      <4>2. i <= Len(out[c]) /\ Len(out[c]) \in Nat
        BY <1>6, <4>1 DEF SentAt
      <4> QED
        BY <3>3, <4>2
    <3> QED
      BY <1>7, <2>6, <3>2, <3>3
  <2> QED
    BY <2>4, <2>5, <2>6 DEF Ordered
<1> QED
  BY <1>10, <1>11 DEF Orders

(* The mailbox thread: from the mailbox to its hand, and out.               *)
LEMMA ThreadFlow ==
  ASSUME Types, Routes, Fates, Orders, NEW t \in MailboxThreads, MailboxStep(t)
  PROVE  Fates' /\ Orders'
<1>s. /\ t \in Threads /\ t \in Mailboxes /\ ThreadOK(t) /\ t[1] \in Clients /\ t[2] # 0
      /\ NoMailbox \notin Mailboxes
  BY Names DEF Routes
<1>p. ASSUME NEW l, Goto(t, l)
      PROVE  pc'[t] = l /\ \A u \in Threads : u # t => pc'[u] = pc[u]
  BY <1>p, <1>s DEF Types, CallTypes, Goto
<1>c. ASSUME NEW l, Goto(t, l), l \notin InNext \cup {"rrcpt", "bounce"},
             UNCHANGED <<out, unsent, job, entry, accepted>>,
             \A m \in Mailboxes : life'[m] = "live" =>
               box'[m] = box[m] /\ (life[m] = "live" \/ box[m] = << >>)
      PROVE  Fates' /\ Orders'
  BY <1>c, <1>p, CalmThread
<1>1. CASE ThreadStart(t)
  <2>1. UNCHANGED <<out, unsent, job, entry, accepted, life, box>> /\ \E l \in {"field", "done"} : Goto(t, l)
    BY <1>1 DEF ThreadStart, boxVars, callVars, sendVars
  <2> QED
    BY <2>1, <1>c DEF InNext
<1>0. CASE ThreadField(t)
  <2>1. UNCHANGED <<out, unsent, job, entry, accepted, life, box>> /\ Goto(t, "ref")
    BY <1>0 DEF ThreadField, boxVars, callVars, sendVars
  <2> QED
    BY <2>1, <1>c DEF InNext
<1>2. CASE ThreadRef(t)
  <2>1. UNCHANGED <<out, unsent, job, entry, accepted>> /\ Goto(t, "get") /\ mine[t] \in Mailboxes /\ M!Ref(mine[t])
    BY <1>2 DEF ThreadRef, Types, CallTypes, callVars, sendVars
  <2> QED
    BY <2>1, <1>c, <1>s, BoxesCalm DEF InNext, Types
<1>3. CASE ThreadGet(t)
  <2>1. UNCHANGED <<out, unsent, job, entry, accepted, life, box>> /\ \E l \in {"done", "hook"} : Goto(t, l)
    BY <1>3 DEF ThreadGet, callVars, sendVars
  <2> QED
    BY <2>1, <1>c DEF InNext
<1>4. CASE ThreadHook(t)
  <2>1. UNCHANGED <<out, unsent, job, entry, accepted>> /\ Goto(t, "loop") /\ mine[t] \in Mailboxes /\ M!SetDiscardHook(mine[t])
    BY <1>4, <1>s DEF ThreadHook, ThreadOK, callVars, sendVars
  <2> QED
    BY <2>1, <1>c, <1>s, BoxesCalm DEF InNext, Types
<1>5. CASE ThreadWait(t)
  <2>1. /\ entry' = [entry EXCEPT ![t] = M!NULL] /\ Goto(t, "next_lock")
        /\ UNCHANGED <<out, unsent, job, accepted, life, box>>
    BY <1>5 DEF ThreadWait, M!SemWait, M!Goto, Goto, sendVars
  <2>2. pc'[t] = "next_lock" /\ \A u \in Threads : u # t => pc'[u] = pc[u] /\ entry'[u] = entry[u]
    BY <1>p, <2>1 DEF Types, CallTypes
  <2> QED
    BY <2>1, <2>2, CalmThread DEF InNext
<1>6. CASE ThreadNext(t)
  <2>0. UNCHANGED <<out, unsent, job, accepted>>
    BY <1>6 DEF ThreadNext, sendVars
  <2>1. CASE M!NextDefunct(t, "quit")
    <3>1. UNCHANGED <<life, box, entry>> /\ Goto(t, "quit")
      BY <2>1 DEF M!NextDefunct, M!boxVars, M!Goto, Goto
    <3> QED
      BY <2>0, <3>1, <1>c DEF InNext
  <2>2. CASE M!NextRemove(t, "got")
    BY <2>0, <2>2, TakeFates, TakeOrders
  <2>3. CASE M!NextUnrefSome(t, "got")
    <3>1. UNCHANGED <<life, box, entry>> /\ Goto(t, "got") /\ pc[t] = "next_unref"
      BY <2>3 DEF M!NextUnrefSome, M!Goto, Goto
    <3> QED
      BY <2>0, <3>1, <1>p, CalmThread DEF InNext
  <2>4. CASE M!NextUnrefLast(t)
    <3>1. /\ M!Finalise(t, entry[t].from) /\ UNCHANGED <<box, entry>>
          /\ Goto(t, "next_discard") /\ pc[t] = "next_unref"
      BY <2>4 DEF M!NextUnrefLast, M!Goto, Goto
    <3>2. entry[t].from \in Mailboxes
      BY <1>s, <3>1, Entries DEF ThreadOK
    <3>3. \A x \in Mailboxes : life'[x] = "live" =>
            box'[x] = box[x] /\ (life[x] = "live" \/ box[x] = << >>)
      BY <1>s, <3>1, <3>2, BoxesCalm DEF Types
    <3> QED
      BY <2>0, <3>1, <3>3, <1>p, CalmThread DEF InNext
  <2> QED
    BY <1>6, <2>1, <2>2, <2>3, <2>4 DEF ThreadNext
<1>7. CASE ThreadSend(t)
  <2>1. UNCHANGED <<life, box, entry, unsent, job, accepted>> /\ pc[t] = "got"
    BY <1>7 DEF ThreadSend, boxVars, callVars, sendVars
  <2>2. \/ /\ out' = [out EXCEPT ![t[1]] = Append(@, Packet(entry[t]))]
           /\ Goto(t, IF M!IsMessage(entry[t]) THEN "rrcpt" ELSE "loop")
        \/ /\ out' = out
           /\ Goto(t, IF M!IsMessage(entry[t]) THEN "bounce" ELSE "loop")
    BY <1>7 DEF ThreadSend
  <2> QED
    BY <2>1, <2>2, SentFates, SentOrders, FailedFates, FailedOrders
<1>8. CASE ThreadNotify(t)
  <2>1. /\ entry[t].from \in Mailboxes /\ entry[t].id \in Ids
        /\ pc[t] \in {"rrcpt", "bounce"}
    BY <1>8, <1>s, Entries DEF ThreadNotify, ThreadOK
  <2>2. PICK k \in {"RRCPT", "BOUNCE"} :
          /\ pc[t] = (IF k = "RRCPT" THEN "rrcpt" ELSE "bounce")
          /\ M!AddNotice(entry[t].from, k, entry[t].id)
    BY <1>8 DEF ThreadNotify
  <2>3. PICK e \in M!Entry : e = [type |-> "notice", id |-> entry[t].id, kind |-> k]
    BY <2>1, Made
  <2>4. M!Enqueue(entry[t].from, e) /\ life' = life
    BY <2>2, <2>3 DEF M!AddNotice
  <2>5. UNCHANGED <<out, unsent, job, entry, accepted>>
    BY <1>8 DEF ThreadNotify, callVars, sendVars
  <2>6. pc'[t] = "loop" /\ \A u \in Threads : u # t => pc'[u] = pc[u]
    BY <1>8, <1>p DEF ThreadNotify
  <2>7. "hand" \in Places /\ t \in Owners /\ "hand" # "box"
    BY <1>s, PlaceOwners
  <2>8. ASSUME NEW f \in Tokens, NEW x \in Traffic, Carries(f, e, x)
        PROVE  Holds(f, x, "hand", t) /\ ~Holds(f, x, "hand", t)'
    <3>1. entry[t].id = x.id /\ k = IF f = "fate" THEN "BOUNCE" ELSE "RRCPT"
      BY <2>3, <2>8, NoticeCarries
    <3>2. InHand(f, x, t)
      BY <2>2, <3>1 DEF InHand, Tokens
    <3>3. ~InHand(f, x, t)'
      BY <2>6 DEF InHand, InNext
    <3> QED
      BY <3>2, <3>3 DEF Holds
  <2>9. \A d \in Clients : pc'[Service(d)] \in Sending => pc[Service(d)] \in Sending
    BY <2>6, <1>s, Names
  <2>10. \A u \in MailboxThreads : pc'[u] \in InNext \cup {"rrcpt", "bounce"} =>
           entry'[u] = entry[u] /\ pc'[u] = pc[u]
    BY <2>5, <2>6, Names DEF InNext
  <2> QED
    <3>1. ~M!IsMessage(e)
      BY <2>3 DEF M!IsMessage
    <3> QED
      BY <2>1, <2>4, <2>5, <2>7, <2>8, <2>9, <2>10, <3>1, EnqueueFates, NoticeOrders
<1>9. CASE ThreadQuit(t)
  <2>1. mine[t] \in Mailboxes /\ UNCHANGED <<out, unsent, job, entry, accepted>>
    BY <1>9, <1>s DEF ThreadQuit, ThreadOK, M!UnrefLast, callVars, sendVars
  <2>2. CASE M!UnrefLast(t, mine[t])
    <3>1. M!Finalise(t, mine[t]) /\ box' = box /\ Goto(t, "discard")
      BY <2>2 DEF M!UnrefLast, M!Goto, Goto
    <3> QED
      BY <2>1, <3>1, <1>c, <1>s, BoxesCalm DEF InNext, Types
  <2>3. CASE M!UnrefSome(mine[t]) /\ Goto(t, "done")
    BY <2>1, <2>3, <1>c, <1>s, BoxesCalm DEF InNext, Types
  <2> QED
    BY <1>9, <2>2, <2>3 DEF ThreadQuit
<1>10. CASE Discard(t)
  <2>1. PICK l : l = AfterDiscard(t)
    OBVIOUS
  <2>2. l = "done" \/ (l = "got" /\ pc[t] = "next_discard")
    <3>1. CASE pc[t] = "next_discard"
      BY <1>s, <2>1, <3>1 DEF AfterDiscard
    <3>2. CASE pc[t] # "next_discard"
      BY <1>s, <2>1, <3>2 DEF AfterDiscard
    <3> QED
      BY <3>1, <3>2
  <2>3. M!DiscardToHook(t) \/ M!DiscardUnhooked(t) \/ M!DiscardDone(t, l)
    BY <1>10, <2>1 DEF Discard
  <2>4. UNCHANGED <<out, unsent, job, accepted>>
    BY <1>10 DEF Discard, sendVars
  <2> QED
    BY <1>s, <2>2, <2>3, <2>4, DiscardFlow
<1> QED
  BY <1>0, <1>1, <1>2, <1>3, <1>4, <1>5, <1>6, <1>7, <1>8, <1>9, <1>10 DEF MailboxStep

-----------------------------------------------------------------------------
(* At the start nobody has sent anything, every mailbox is unborn and every *)
(* message is still unsent.                                                 *)
LEMMA CharlaInit ==
  ASSUME Init
  PROVE  CharlaInv
<1>1. Types
  <2>1. BoxTypes
    BY DEF Init, M!BoxInit, BoxTypes
  <2>2. CallTypes
    <3>1. pc = [t \in Threads |-> IF t[2] = 0 THEN "serve" ELSE "none"]
      BY DEF Init
    <3>2. /\ pc \in [Threads -> ServiceLabels \cup ThreadLabels]
          /\ \A c \in Clients : pc[Service(c)] \in ServiceLabels
          /\ \A t \in MailboxThreads : pc[t] \in ThreadLabels
      BY <3>1, Names DEF ServiceLabels, ThreadLabels
    <3> QED
      BY <3>2 DEF Init, M!CallInit, CallTypes
  <2>3. ClientTypes
    BY LoginsOK DEF Init, ClientTypes, LoggedIn
  <2>4. SendTypes
    BY DEF Init, SendTypes
  <2> QED
    BY <2>1, <2>2, <2>3, <2>4 DEF Types
<1>2. /\ \A c \in Clients : pc[Service(c)] = "serve"
      /\ \A t \in MailboxThreads : pc[t] = "none" /\ mb[t] = NoMailbox /\ mine[t] = NoMailbox
      /\ \A m \in Mailboxes : life[m] = "unborn" /\ box[m] = << >>
      /\ \A c \in Clients : out[c] = << >>
  BY Names DEF Init, M!BoxInit, M!CallInit
<1>3. Routes
  <2>1. \A c \in Clients : ServiceOK(c)
    BY <1>2 DEF ServiceOK, Sending
  <2>2. \A t \in MailboxThreads : ThreadOK(t)
    BY <1>2 DEF ThreadOK, InNext
  <2>3. \A m \in Mailboxes : BoxOK(m)
    BY <1>2 DEF BoxOK
  <2> QED
    BY <2>1, <2>2, <2>3 DEF Routes
<1>4. Fates
  <2> SUFFICES ASSUME NEW x \in Traffic PROVE Fate(x)
    BY DEF Fates
  <2>1. \A f \in Tokens, k \in Places, a \in Owners :
          Holds(f, x, k, a) => f = "fate" /\ k = "unsent" /\ a = x.from
    BY <1>2 DEF Holds, Places, Sending, InBox, InHand, InNext, Tokens, InOut
  <2>2. \A f \in Tokens : Single(f, x) /\ OnceInBox(f, x) /\ OnceOut(f, x)
    BY <1>2, <2>1 DEF Single, OnceInBox, OnceOut
  <2> QED
    BY <2>1, <2>2 DEF Fate, Tokens
<1>5. Orders
  <2>1. accepted = << >>
    BY DEF Init
  <2>2. \A x \in Traffic, i \in Nat : ~AcceptedAt(x, i)
    BY <2>1 DEF AcceptedAt
  <2>3. \A x \in Traffic : ~Underway(x)
    <3> SUFFICES ASSUME NEW x \in Traffic PROVE ~Underway(x)
      OBVIOUS
    <3>1. \A m \in Mailboxes, i \in Nat : ~Queued(x, m, i)
      BY <1>2 DEF Queued
    <3>2. \A u \in MailboxThreads : ~Held(x, u)
      BY <1>2 DEF Held, InNext
    <3>3. out[x.to] = << >>
      BY <1>2, TrafficOK
    <3>4. \A i \in Nat : ~SentAt(x, i)
      BY <3>3 DEF SentAt
    <3> QED
      BY <3>1, <3>2, <3>4 DEF Underway
  <2> QED
    BY <2>1, <2>2, <2>3 DEF Orders, Admitted, Before
<1> QED
  BY <1>1, <1>3, <1>4, <1>5 DEF CharlaInv

(* Every step of a client, of its service thread and of a mailbox thread keeps *)
(* the invariant.                                                           *)
LEMMA CharlaStep ==
  ASSUME CharlaInv, [Next]_vars
  PROVE  CharlaInv'
<1> USE DEF CharlaInv
<1>1. ASSUME NEW c \in Clients, Request(c)
      PROVE  CharlaInv'
  BY <1>1, RequestTypes, RequestRoutes, RequestFlow
<1>2. ASSUME NEW c \in Clients, ServiceStep(c)
      PROVE  CharlaInv'
  BY <1>2, ServiceTypes, ServiceRoutes, ServiceFlow
<1>3. ASSUME NEW t \in MailboxThreads, MailboxStep(t)
      PROVE  CharlaInv'
  BY <1>3, ThreadTypes, ThreadRoutes, ThreadFlow
<1>4. CASE UNCHANGED vars
  <2>1. /\ UNCHANGED <<life, rc, box, store, lock, pc, mb, entry, todo, mine>>
        /\ UNCHANGED <<cstat, cbox, tid, logins, unsent, job, target, accepted, out>>
    BY <1>4 DEF vars, boxVars, callVars, clientVars, sendVars
  <2>2. Types'
    BY <2>1 DEF Types, BoxTypes, CallTypes, ClientTypes, SendTypes, LoggedIn
  <2>3. Routes'
    BY <2>1 DEF Routes, ServiceOK, ThreadOK, BoxOK, For, LoggedIn
  <2>4. Calm
    BY <2>1 DEF Calm, Routes, BoxOK
  <2> QED
    BY <2>2, <2>3, <2>4, CalmFates, CalmOrders
<1> QED
  BY <1>1, <1>2, <1>3, <1>4 DEF Next

(* The invariant says more about types than TypeOK.                         *)
LEMMA TypesFollow ==
  ASSUME CharlaInv
  PROVE  TypeOK
<1>1. \A t \in Threads : pc[t] \in IF t[2] = 0 THEN ServiceLabels ELSE ThreadLabels
  <2> SUFFICES ASSUME NEW t \in Threads
               PROVE  pc[t] \in IF t[2] = 0 THEN ServiceLabels ELSE ThreadLabels
    OBVIOUS
  <2>1. CASE t \in Mailboxes
    BY <2>1, Names DEF CharlaInv, Types, CallTypes
  <2>2. CASE t \notin Mailboxes
    <3>1. PICK c \in Clients : t = Service(c)
      BY <2>2, Names
    <3>2. t[2] = 0 /\ pc[t] \in ServiceLabels
      BY <3>1, Names DEF CharlaInv, Types, CallTypes
    <3> QED
      BY <3>2
  <2> QED
    BY <2>1, <2>2
<1> QED
  BY <1>1 DEF TypeOK, CharlaInv, Types, BoxTypes, CallTypes, ClientTypes

(* A set with at most one member.                                           *)
LEMMA AtMostOne ==
  ASSUME NEW S, \A i, j \in S : i = j
  PROVE  Cardinality(S) = IF S = {} THEN 0 ELSE 1
<1>1. CASE S = {}
  BY <1>1, FS_EmptySet
<1>2. CASE S # {}
  <2>1. PICK i \in S : TRUE
    BY <1>2
  <2>2. S = {i}
    BY <2>1
  <2> QED
    BY <2>2, FS_Singleton
<1> QED
  BY <1>1, <1>2

(* The packets about one message are those the places of its tokens allow.  *)
LEMMA NoticesFollow ==
  ASSUME CharlaInv
  PROVE  NoticesTruthful
<1> SUFFICES ASSUME NEW x \in Traffic
             PROVE  /\ Sent(x.to, "MESG", x.id) <= 1
                    /\ Sent(x.from, "RCVD", x.id) <= Sent(x.to, "MESG", x.id)
                    /\ Sent(x.from, "BOUNCE", x.id) + Sent(x.to, "MESG", x.id) <= 1
  BY DEF NoticesTruthful
<1> DEFINE Copies(c, type) == {i \in DOMAIN out[c] : out[c][i] = [type |-> type, id |-> x.id]}
<1>1. Fate(x) /\ x.to \in Clients /\ x.from \in Clients /\ x.to \in Owners /\ x.from \in Owners
  BY TrafficOK, PlaceOwners DEF CharlaInv, Fates
<1>2. "fate" \in Tokens /\ "receipt" \in Tokens /\ "out" \in Places
  BY DEF Tokens, Places
<1>3. ASSUME NEW c \in Clients, NEW f \in Tokens,
             NEW type \in IF f = "fate" THEN {"MESG", "BOUNCE"} ELSE {"RCVD"}
      PROVE  /\ Sent(c, type, x.id) = IF Copies(c, type) = {} THEN 0 ELSE 1
             /\ Copies(c, type) # {} => Holds(f, x, "out", c)
  <2>1. \A i \in Copies(c, type) : i \in DOMAIN out[c] /\ Reports(f, out[c][i], x)
    BY <1>3 DEF Reports
  <2>2. \A i, j \in Copies(c, type) : i = j
    BY <1>1, <2>1 DEF Fate, OnceOut
  <2>3. Cardinality(Copies(c, type)) = IF Copies(c, type) = {} THEN 0 ELSE 1
    BY <2>2, AtMostOne
  <2>4. Copies(c, type) # {} => Holds(f, x, "out", c)
    BY <2>1 DEF Holds, InOut
  <2> QED
    BY <2>3, <2>4 DEF Sent
<1>4. Copies(x.from, "RCVD") # {} => Copies(x.to, "MESG") # {}
  BY <1>1, <1>2, <1>3 DEF Fate, Delivered
<1>5. Copies(x.from, "BOUNCE") = {} \/ Copies(x.to, "MESG") = {}
  <2> SUFFICES ASSUME NEW i \in Copies(x.from, "BOUNCE"), NEW j \in Copies(x.to, "MESG") PROVE FALSE
    OBVIOUS
  <2>1. Holds("fate", x, "out", x.from) /\ Holds("fate", x, "out", x.to)
    BY <1>1, <1>2, <1>3
  <2>2. x.from = x.to
    BY <1>1, <1>2, <2>1 DEF Fate, Single
  <2>3. Reports("fate", out[x.to][i], x) /\ Reports("fate", out[x.to][j], x)
    BY <2>2 DEF Reports
  <2>4. i = j
    BY <1>1, <1>2, <2>2, <2>3 DEF Fate, OnceOut
  <2> QED
    BY <2>2, <2>4
<1>6. /\ Sent(x.to, "MESG", x.id) = IF Copies(x.to, "MESG") = {} THEN 0 ELSE 1
      /\ Sent(x.from, "BOUNCE", x.id) = IF Copies(x.from, "BOUNCE") = {} THEN 0 ELSE 1
      /\ Sent(x.from, "RCVD", x.id) = IF Copies(x.from, "RCVD") = {} THEN 0 ELSE 1
  BY <1>1, <1>2, <1>3
<1> HIDE DEF Copies
<1> QED
  BY <1>4, <1>5, <1>6

(* With one login for every client, the MESG packets of a connection are in  *)
(* the order in which their messages were accepted.                          *)
LEMMA OrderFollows ==
  ASSUME CharlaInv, MaxLogins = 1
  PROVE  SenderOrder
<1> DEFINE Mesg(id) == [type |-> "MESG", id |-> id]
           Place(s, e) == CHOOSE i \in DOMAIN s : s[i] = e
<1> SUFFICES ASSUME NEW x \in Traffic, NEW y \in Traffic, x.to = y.to,
                    Sent(x.to, "MESG", x.id) = 1, Sent(x.to, "MESG", y.id) = 1,
                    Place(accepted, x.id) < Place(accepted, y.id)
             PROVE  Place(out[x.to], Mesg(x.id)) < Place(out[x.to], Mesg(y.id))
  BY DEF SenderOrder
<1>1. ASSUME NEW z \in Traffic, z.to = x.to, Sent(x.to, "MESG", z.id) = 1
      PROVE  SentAt(z, Place(out[x.to], Mesg(z.id))) /\ Place(out[x.to], Mesg(z.id)) \in Nat
  <2> DEFINE Copies == {i \in DOMAIN out[x.to] : out[x.to][i] = Mesg(z.id)}
  <2>1. Copies # {}
    <3>1. Sent(x.to, "MESG", z.id) = Cardinality(Copies)
      BY DEF Sent
    <3>2. Cardinality({}) = 0
      BY FS_EmptySet
    <3> QED
      BY <1>1, <3>1, <3>2
  <2>2. PICK i \in DOMAIN out[x.to] : out[x.to][i] = Mesg(z.id)
    BY <2>1
  <2>3. /\ Place(out[x.to], Mesg(z.id)) \in DOMAIN out[x.to]
        /\ out[x.to][Place(out[x.to], Mesg(z.id))] = Mesg(z.id)
    BY <2>2
  <2>4. out[x.to] \in Seq(Packets)
    BY TrafficOK DEF CharlaInv, Types, SendTypes
  <2>5. \A j \in DOMAIN out[x.to] : j \in Nat
    BY <2>4
  <2> HIDE DEF Place
  <2> QED
    BY <1>1, <2>3, <2>5 DEF SentAt
<1>2. ASSUME NEW z \in Traffic, z.to = x.to, Sent(x.to, "MESG", z.id) = 1
      PROVE  AcceptedAt(z, Place(accepted, z.id)) /\ Place(accepted, z.id) \in Nat
  <2>1. PICK i \in Nat : AcceptedAt(z, i)
    BY <1>1, <1>2 DEF CharlaInv, Orders, Admitted, Underway
  <2>2. Place(accepted, z.id) \in DOMAIN accepted /\ accepted[Place(accepted, z.id)] = z.id
    BY <2>1 DEF AcceptedAt
  <2>3. \A j \in DOMAIN accepted : j \in Nat
    BY DEF CharlaInv, Orders
  <2> HIDE DEF Place
  <2> QED
    BY <2>2, <2>3 DEF AcceptedAt
<1> HIDE DEF Place, Mesg
<1>3. Before(x, y)
  BY <1>2 DEF Before
<1>4. Ordered(x, y)
  BY <1>3 DEF CharlaInv, Orders
<1> QED
  BY <1>1, <1>4 DEF Ordered

(* The types of server.c's and client_registry.c's fields and locals hold in *)
(* every state, and a client has the mailbox of its latest login exactly while *)
(* it is logged in, for any clients, logins and messages.                   *)
THEOREM TypesCorrect == Spec => []TypeOK
<1>1. CharlaInv /\ [Next]_vars => CharlaInv'
  BY CharlaStep
<1> QED
  BY CharlaInit, <1>1, TypesFollow, PTL DEF Spec

(* However the threads of the server interleave, whoever leaves and whichever *)
(* write fails: a message is delivered at most once, its sender is told RCVD *)
(* only after that, at most once, and BOUNCE only if it never was delivered. *)
THEOREM NoticesTruthfulHolds == Spec => []NoticesTruthful
<1>1. CharlaInv /\ [Next]_vars => CharlaInv'
  BY CharlaStep
<1> QED
  BY CharlaInit, <1>1, NoticesFollow, PTL DEF Spec

(* As long as every client logs in once, messages of one sender are sent to *)
(* their receiver in the order in which mb_add_message queued them: they    *)
(* pass one mailbox and one mailbox thread.  With a second login it is not  *)
(* so; the thread of the first login may still have a message in hand.      *)
THEOREM SenderOrderHolds ==
  ASSUME MaxLogins = 1
  PROVE  Spec => []SenderOrder
<1>1. CharlaInv /\ [Next]_vars => CharlaInv'
  BY CharlaStep
<1>2. CharlaInv => SenderOrder
  BY OrderFollows
<1> QED
  BY CharlaInit, <1>1, <1>2, PTL DEF Spec

-----------------------------------------------------------------------------
(* Only a logout takes a mailbox from somebody who borrows it, if each       *)
(* client logs in once: it has one mailbox and one mailbox thread then.      *)
Box(c) == <<c, 1>>
Early  == {"none", "start", "field", "ref", "get", "hook"}
Nested == {"add_ref", "next_unref", "next_discard"}

(* pthread_create comes after the login, and pthread_join before the service *)
(* thread gives up its CLIENT.                                               *)
Begun(c) ==
  /\ pc[Box(c)] # "none" => logins[c] = 1 /\ tid[c] = 1
  /\ pc[Service(c)] = "spawn" => pc[Box(c)] = "none"
  /\ pc[Service(c)] = "gone" => pc[Box(c)] \in {"none", "done"}

(* A mailbox thread sets the hook of the mailbox it found; it finds none     *)
(* only if its client has logged out.                                        *)
HookSet(c) ==
  /\ pc[Box(c)] \in {"none", "start", "field"} => mine[Box(c)] = NoMailbox
  /\ pc[Box(c)] = "ref" => mine[Box(c)] = Box(c) \/ LoggedOut(c)
  /\ pc[Box(c)] \notin Early /\ mine[Box(c)] # NoMailbox => hook[Box(c)] = "discard_hook"

(* A SEND packet in hand is the client's own, for one that has logged in,    *)
(* and what was found for it is that one's mailbox unless it has logged out. *)
Addressed(c) ==
  /\ pc[Service(c)] \in Sending => job[c].from = c /\ logins[job[c].to] = 1
  /\ pc[Service(c)] = "add" => target[c] = Box(job[c].to) \/ LoggedOut(job[c].to)

(* A message tells the truth about its sender, who has logged in.           *)
FromOK(e) ==
  M!IsMessage(e) =>
    \E x \in Traffic : x.id = e.id /\ e.from = Box(x.from) /\ logins[x.from] = 1
Froms ==
  /\ \A m \in Mailboxes : \A i \in DOMAIN box[m] : FromOK(box[m][i])
  /\ \A t \in Threads : FromOK(entry[t]) /\ \A i \in DOMAIN todo[t] : FromOK(todo[t][i])

(* What a thread discards was in a mailbox that has been freed.             *)
Doomed(t) ==
  /\ ~M!Discarding(t) => todo[t] = << >>
  /\ M!Discarding(t) => /\ M!Dying(t) \in Mailboxes /\ life[M!Dying(t)] = "freed"
                        /\ \A i \in DOMAIN todo[t] : For(todo[t][i], M!Dying(t)[1])

(* In a nested call a thread has the mutex of its mailbox, which is live.   *)
Locked(t) == pc[t] \in Nested => lock[mb[t]] = t /\ life[mb[t]] = "live"

(* Who has a reference to the mailbox of c: the client until it logs out,   *)
(* its mailbox thread, and each message to another that waits in a mailbox, *)
(* is being discarded, or was just taken out.                               *)
OwnRef(c) == IF LoggedIn(c) /\ pc[Service(c)] \notin {"discard", "clear"} THEN 1 ELSE 0
ThreadRefs(c) == IF pc[Box(c)] \in Holding THEN 1 ELSE 0
InHandOf(x, t) == pc[t] = "next_unref" /\ M!IsMessage(entry[t]) /\ entry[t].id = x.id
DoomedAt(x, t, i) == i \in DOMAIN todo[t] /\ M!IsMessage(todo[t][i]) /\ todo[t][i].id = x.id
Pinned(x) ==
  \/ x.from # x.to /\ \E i \in Nat : Queued(x, Box(x.to), i)
  \/ x.from # x.to /\ \E t \in Threads, i \in Nat : DoomedAt(x, t, i)
  \/ InHandOf(x, Box(x.to))
Pins(c) == {x \in Traffic : x.from = c /\ Pinned(x)}

(* The count of a mailbox is at least that, and only a live one has any.    *)
Counted(c) ==
  /\ rc[Box(c)] >= OwnRef(c) + ThreadRefs(c) + Cardinality(Pins(c))
  /\ rc[Box(c)] > 0 => life[Box(c)] = "live"

LoanInv ==
  /\ hook \in [Mailboxes -> FreshHooks \cup {"null", "discard_hook"}]
  /\ \A c \in Clients : Begun(c) /\ HookSet(c) /\ Addressed(c) /\ Counted(c)
  /\ \A t \in Threads : Doomed(t) /\ Locked(t)
  /\ Froms

-----------------------------------------------------------------------------
(* With one login each client has one mailbox and one mailbox thread, of    *)
(* the same name.                                                           *)
LEMMA OneBox ==
  ASSUME MaxLogins = 1
  PROVE  /\ \A c \in Clients : /\ Box(c) \in Mailboxes /\ Box(c) \in MailboxThreads
                               /\ Box(c) \in Threads /\ Service(c) \in Threads
                               /\ Service(c) \notin Mailboxes /\ Box(c) # NoMailbox
                               /\ Box(c)[1] = c /\ Service(c)[1] = c
                               /\ Service(c)[2] = 0 /\ Box(c)[2] = 1
         /\ \A c, d \in Clients : /\ Service(c) # Box(d)
                                  /\ Service(c) = Service(d) => c = d
                                  /\ Box(c) = Box(d) => c = d
         /\ \A t \in Mailboxes : t = Box(t[1]) /\ t[1] \in Clients
         /\ \A t \in Threads : t \in Mailboxes \/ \E c \in Clients : t = Service(c)
         /\ MailboxThreads = Mailboxes
BY NoMailboxOK DEF Box, Mailboxes, MailboxThreads, Threads, Service

(* What the steps below start from.                                         *)
LEMMA Ground ==
  ASSUME MaxLogins = 1, CharlaInv, LoanInv
  PROVE  /\ \A d \in Clients :
              /\ Box(d) \in Mailboxes /\ Box(d) \in Threads /\ Service(d) \in Threads
              /\ \A e \in Clients : /\ Service(d) # Box(e)
                                    /\ (Service(d) = Service(e) => d = e)
                                    /\ (Box(d) = Box(e) => d = e)
         /\ \A m \in Mailboxes : m = Box(m[1]) /\ m[1] \in Clients
         /\ \A d \in Clients : Begun(d) /\ HookSet(d) /\ Addressed(d)
         /\ \A t \in Threads : Doomed(t) /\ Locked(t)
         /\ pc \in [Threads -> ServiceLabels \cup ThreadLabels]
         /\ mb \in [Threads -> Mailboxes \cup {NoMailbox}]
         /\ mine \in [MailboxThreads -> Mailboxes \cup {NoMailbox}]
         /\ cstat \in [Clients -> {"NO_USER", "LOGGED_IN"}]
         /\ logins \in [Clients -> 0..1] /\ tid \in [Clients -> 0..1]
         /\ life \in [Mailboxes -> {"unborn", "live", "freed"}]
         /\ lock \in [Mailboxes -> Threads \cup {NoThread}]
         /\ rc \in [Mailboxes -> Nat]
         /\ job \in [Clients -> Traffic \cup {NoMailbox}]
         /\ target \in [Clients -> Mailboxes \cup {NoMailbox}]
         /\ hook \in [Mailboxes -> FreshHooks \cup {"null", "discard_hook"}]
<1>1. /\ pc \in [Threads -> ServiceLabels \cup ThreadLabels]
      /\ mb \in [Threads -> Mailboxes \cup {NoMailbox}]
      /\ mine \in [MailboxThreads -> Mailboxes \cup {NoMailbox}]
      /\ cstat \in [Clients -> {"NO_USER", "LOGGED_IN"}]
      /\ logins \in [Clients -> 0..1] /\ tid \in [Clients -> 0..1]
      /\ life \in [Mailboxes -> {"unborn", "live", "freed"}]
      /\ lock \in [Mailboxes -> Threads \cup {NoThread}]
      /\ rc \in [Mailboxes -> Nat]
      /\ job \in [Clients -> Traffic \cup {NoMailbox}]
      /\ target \in [Clients -> Mailboxes \cup {NoMailbox}]
  BY DEF CharlaInv, Types, BoxTypes, CallTypes, ClientTypes, SendTypes
<1>2. /\ hook \in [Mailboxes -> FreshHooks \cup {"null", "discard_hook"}]
      /\ \A d \in Clients : Begun(d) /\ HookSet(d) /\ Addressed(d)
      /\ \A t \in Threads : Doomed(t) /\ Locked(t)
  BY DEF LoanInv
<1> QED
  BY <1>1, <1>2, OneBox

(* A mailbox thread works on the mailbox of its name.                       *)
LEMMA OwnThread ==
  ASSUME MaxLogins = 1, CharlaInv, LoanInv, NEW t \in MailboxThreads
  PROVE  /\ t \in Threads /\ t \in Mailboxes /\ t = Box(t[1]) /\ t[1] \in Clients
         /\ pc[t] \in ThreadLabels /\ mine[t] \in {t, NoMailbox}
         /\ pc[t] \notin {"none", "start", "field", "ref", "discard", "done"} => mine[t] = t
         /\ pc[t] \in {"next_lock", "next_unref", "next_discard", "discard"} => mb[t] = t
         /\ pc[t] \in {"next_unref", "next_discard", "rrcpt", "bounce"} =>
              entry[t] \in M!Message /\ M!IsMessage(entry[t]) /\ entry[t].from \in Mailboxes
<1>1. t \in Threads /\ t \in Mailboxes /\ t = Box(t[1]) /\ t[1] \in Clients
  BY OneBox
<1>2. \A m \in Mailboxes : m = Box(m[1])
  BY Ground
<1>3. ThreadOK(t) /\ mine[t] \in Mailboxes \cup {NoMailbox} /\ pc[t] \in ThreadLabels
  BY Ground DEF CharlaInv, Routes, Types, CallTypes
<1>4. mine[t] \in {t, NoMailbox}
  BY <1>1, <1>2, <1>3 DEF ThreadOK
<1>5. pc[t] \notin {"none", "start", "field", "ref", "discard", "done"} =>
        mine[t] \in Mailboxes /\ mine[t][1] = t[1]
  BY <1>3, Names DEF ThreadOK
<1>6. pc[t] \in {"next_lock", "next_unref", "next_discard", "discard"} =>
        mb[t] \in Mailboxes /\ mb[t][1] = t[1]
  BY <1>3, Names DEF ThreadOK
<1>7. pc[t] \in {"next_unref", "next_discard", "rrcpt", "bounce"} => entry[t] \in M!Message
  BY <1>3 DEF ThreadOK
<1> QED
  BY <1>1, <1>2, <1>3, <1>4, <1>5, <1>6, <1>7, Entries

(* A service thread works on the mailbox of its client.                     *)
LEMMA OwnService ==
  ASSUME MaxLogins = 1, CharlaInv, LoanInv, NEW c \in Clients
  PROVE  /\ pc[Service(c)] \in ServiceLabels
         /\ LoggedIn(c) => logins[c] = 1
         /\ cbox[c] = IF LoggedIn(c) THEN Box(c) ELSE NoMailbox
         /\ pc[Service(c)] \in {"spawn", "lookup", "add", "add_ref", "shutdown", "unref"} => LoggedIn(c)
         /\ pc[Service(c)] \in Sending => job[c] \in Traffic /\ job[c].to \in Clients /\ job[c].id \in Ids
         /\ pc[Service(c)] = "add_ref" => mb[Service(c)] = Box(job[c].to)
<1>1. pc[Service(c)] \in ServiceLabels /\ ServiceOK(c)
  BY DEF CharlaInv, Types, CallTypes, Routes
<1>2. LoggedIn(c) => logins[c] = 1
  <2>1. LoggedIn(c) => logins[c] # 0
    BY DEF CharlaInv, Types, ClientTypes
  <2> QED
    BY <2>1, Ground
<1>3. cbox[c] = IF LoggedIn(c) THEN Box(c) ELSE NoMailbox
  BY <1>2 DEF CharlaInv, Types, ClientTypes, Box
<1>4. pc[Service(c)] \in Sending => job[c] \in Traffic /\ job[c].to \in Clients /\ job[c].id \in Ids
  BY <1>1, TrafficOK DEF ServiceOK, Ids
<1>5. pc[Service(c)] = "add_ref" => mb[Service(c)] = Box(job[c].to)
  BY <1>1, Ground DEF ServiceOK
<1> QED
  BY <1>1, <1>2, <1>3, <1>4, <1>5 DEF ServiceOK

-----------------------------------------------------------------------------

(* What a step of t leaves alone: what other threads have in hand, mutexes   *)
(* that they hold, and mailboxes that are locked or freed.  Messages come to *)
(* be discarded only out of a live mailbox.                                  *)
OthersKept(t) ==
  \A u \in Threads : u # t =>
    /\ pc'[u] = pc[u] \/ (pc[u] = "none" /\ pc'[u] = "start")
    /\ mb'[u] = mb[u] /\ entry'[u] = entry[u] /\ todo'[u] = todo[u]
LocksKept(t) == \A m \in Mailboxes : lock'[m] = lock[m] \/ lock[m] \in {NoThread, t}
LivesKept ==
  \A m \in Mailboxes : \/ life'[m] = life[m] \/ life[m] = "unborn"
                       \/ life[m] = "live" /\ lock[m] = NoThread /\ life'[m] = "freed"
TodoKept(t) ==
  \/ todo'[t] = todo[t]
  \/ todo[t] # << >> /\ todo'[t] = Tail(todo[t])
  \/ \E m \in Mailboxes : life[m] = "live" /\ todo'[t] = box[m]
Frame(t) == OthersKept(t) /\ LocksKept(t) /\ LivesKept /\ TodoKept(t)

(* The steps of a thread are of this kind if it changes only its own         *)
(* variables and at most one mailbox.                                        *)
LEMMA FrameOf ==
  ASSUME MaxLogins = 1, CharlaInv, LoanInv, NEW t \in Threads,
         \/ pc' = pc \/ \E l : pc' = [pc EXCEPT ![t] = l],
         \/ mb' = mb \/ \E m : mb' = [mb EXCEPT ![t] = m],
         \/ entry' = entry \/ \E e : entry' = [entry EXCEPT ![t] = e],
         \/ todo' = todo
         \/ todo[t] # << >> /\ todo' = [todo EXCEPT ![t] = Tail(todo[t])]
         \/ \E m \in Mailboxes : life[m] = "live" /\ todo' = [todo EXCEPT ![t] = box[m]],
         \/ lock' = lock
         \/ \E m, u : lock[m] \in {NoThread, t} /\ lock' = [lock EXCEPT ![m] = u],
         \/ life' = life
         \/ \E m : life[m] = "unborn" /\ life' = [life EXCEPT ![m] = "live"]
         \/ \E m : life[m] = "live" /\ lock[m] = NoThread /\ life' = [life EXCEPT ![m] = "freed"]
  PROVE  Frame(t)
<1>0. /\ pc \in [Threads -> ServiceLabels \cup ThreadLabels]
      /\ mb \in [Threads -> Mailboxes \cup {NoMailbox}]
      /\ entry \in [Threads -> M!Entry \cup {M!NULL}] /\ todo \in [Threads -> Seq(M!Entry)]
      /\ lock \in [Mailboxes -> Threads \cup {NoThread}]
      /\ life \in [Mailboxes -> {"unborn", "live", "freed"}]
  BY DEF CharlaInv, Types, CallTypes, BoxTypes
<1>1. \A u \in Threads : u # t => pc'[u] = pc[u]
  BY <1>0
<1>2. \A u \in Threads : u # t => mb'[u] = mb[u] /\ entry'[u] = entry[u]
  BY <1>0
<1>3. \A u \in Threads : u # t => todo'[u] = todo[u]
  BY <1>0
<1>4. TodoKept(t)
  <2>1. CASE todo' = todo
    BY <2>1 DEF TodoKept
  <2>2. CASE todo[t] # << >> /\ todo' = [todo EXCEPT ![t] = Tail(todo[t])]
    BY <1>0, <2>2 DEF TodoKept
  <2>3. CASE \E m \in Mailboxes : life[m] = "live" /\ todo' = [todo EXCEPT ![t] = box[m]]
    BY <1>0, <2>3 DEF TodoKept
  <2> QED
    BY <2>1, <2>2, <2>3
<1>5. LocksKept(t)
  BY <1>0 DEF LocksKept
<1>6. LivesKept
  BY <1>0 DEF LivesKept
<1> QED
  BY <1>1, <1>2, <1>3, <1>4, <1>5, <1>6 DEF Frame, OthersKept

LEMMA DiscardFrame ==
  ASSUME MaxLogins = 1, CharlaInv, LoanInv, NEW t \in Threads, Discard(t)
  PROVE  Frame(t)
<1>1. UNCHANGED <<life, entry>>
  BY DEF Discard, M!DiscardToHook, M!DiscardUnhooked, M!DiscardDone
<1>2. CASE M!DiscardDone(t, AfterDiscard(t))
  <2>1. /\ todo' = todo /\ pc' = [pc EXCEPT ![t] = AfterDiscard(t)]
        /\ mb' = [mb EXCEPT ![t] = NoMailbox]
        /\ lock' = lock \/ (pc[t] = "next_discard" /\ lock' = [lock EXCEPT ![mb[t]] = NoThread])
    BY <1>2 DEF M!DiscardDone, M!Goto
  <2>2. pc[t] = "next_discard" => lock[mb[t]] = t
    BY Ground DEF Locked, Nested
  <2> QED
    BY <1>1, <2>1, <2>2, FrameOf
<1>3. CASE M!DiscardToHook(t) \/ M!DiscardUnhooked(t)
  <2>1. UNCHANGED <<pc, mb, lock>> /\ todo[t] # << >> /\ todo' = [todo EXCEPT ![t] = Tail(@)]
    BY <1>3 DEF M!DiscardToHook, M!DiscardUnhooked, M!Hooked
  <2>2. todo' = [todo EXCEPT ![t] = Tail(todo[t])]
    BY <2>1
  <2> QED
    BY <1>1, <2>1, <2>2, FrameOf
<1> QED
  BY <1>2, <1>3 DEF Discard

LEMMA RequestFrame ==
  ASSUME MaxLogins = 1, CharlaInv, LoanInv, NEW c \in Clients, Request(c)
  PROVE  Frame(Service(c)) /\ \A u \in Threads : u # Service(c) => pc'[u] = pc[u]
<1>s. Service(c) \in Threads
  BY Ground
<1>1. /\ UNCHANGED <<mb, entry, todo, lock>>
      /\ \/ pc' = pc \/ \E l : pc' = [pc EXCEPT ![Service(c)] = l]
      /\ \/ life' = life
         \/ \E m : life[m] = "unborn" /\ life' = [life EXCEPT ![m] = "live"]
  <2>1. CASE Login(c)
    BY <2>1 DEF Login, M!Create, callVars, Go, Goto
  <2>2. CASE HangUp(c) \/ LogoutPacket(c) \/ SendPacket(c)
    BY <2>2 DEF HangUp, LogoutPacket, SendPacket, boxVars, callVars, Go, Goto
  <2> QED
    BY <2>1, <2>2 DEF Request
<1>2. \A u \in Threads : u # Service(c) => pc'[u] = pc[u]
  BY <1>1, Ground
<1> QED
  BY <1>s, <1>1, <1>2, FrameOf

LEMMA ServiceFrame ==
  ASSUME MaxLogins = 1, CharlaInv, LoanInv, NEW c \in Clients, ServiceStep(c)
  PROVE  Frame(Service(c))
<1> DEFINE t == Service(c)
<1>s. t \in Threads
  BY Ground
<1>1. CASE Spawn(c)
  <2>1. /\ UNCHANGED <<mb, entry, todo, lock, life>> /\ pc[t] = "spawn"
        /\ pc' = [pc EXCEPT ![t] = "serve", ![<<c, logins[c]>>] = "start"]
    BY <1>1 DEF Spawn, boxVars, callVars, At
  <2>2. <<c, logins[c]>> = Box(c) /\ pc[Box(c)] = "none"
    BY <2>1, OwnService, Ground DEF Box, Begun
  <2>3. \A u \in Threads : u # t => pc'[u] = pc[u] \/ (pc[u] = "none" /\ pc'[u] = "start")
    BY <2>1, <2>2, Ground
  <2> QED
    BY <2>1, <2>3 DEF Frame, OthersKept, LocksKept, LivesKept, TodoKept
<1>2. CASE ReadEOF(c) \/ LogoutShutdown(c) \/ LogoutClear(c) \/ JoinMailboxThread(c)
            \/ SendLookup(c) \/ SendToSelf(c)
  <2>1. UNCHANGED <<mb, entry, todo, lock, life>> /\ \E l : pc' = [pc EXCEPT ![t] = l]
    BY <1>2 DEF ReadEOF, LogoutShutdown, M!Shutdown, LogoutClear, JoinMailboxThread, SendLookup,
                SendToSelf, M!AddOwnMessage, boxVars, callVars, Go, Goto
  <2> QED
    BY <1>s, <2>1, FrameOf
<1>3. CASE LogoutUnref(c)
  <2>1. CASE M!UnrefSome(cbox[c]) /\ Go(c, "clear") /\ UNCHANGED callVars
    <3>1. UNCHANGED <<mb, entry, todo, lock, life>> /\ pc' = [pc EXCEPT ![t] = "clear"]
      BY <2>1 DEF M!UnrefSome, callVars, Go, Goto
    <3> QED
      BY <1>s, <3>1, FrameOf
  <2>2. CASE M!UnrefLast(t, cbox[c])
    <3>0. cbox[c] \in Mailboxes
      BY <1>3, OwnService, Ground DEF LogoutUnref, At
    <3>1. /\ UNCHANGED <<entry, lock>> /\ pc' = [pc EXCEPT ![t] = "discard"]
          /\ mb' = [mb EXCEPT ![t] = cbox[c]] /\ todo' = [todo EXCEPT ![t] = box[cbox[c]]]
          /\ life[cbox[c]] = "live" /\ lock[cbox[c]] = NoThread
          /\ life' = [life EXCEPT ![cbox[c]] = "freed"]
      BY <2>2 DEF M!UnrefLast, M!Finalise, M!Unlocked, M!Goto
    <3> QED
      BY <1>s, <3>0, <3>1, FrameOf
  <2> QED
    BY <1>3, <2>1, <2>2 DEF LogoutUnref
<1>4. CASE SendLock(c)
  <2>1. /\ UNCHANGED <<todo, life>> /\ lock[target[c]] = NoThread
        /\ lock' = [lock EXCEPT ![target[c]] = t] /\ pc' = [pc EXCEPT ![t] = "add_ref"]
        /\ (\E m : mb' = [mb EXCEPT ![t] = m]) /\ (\E e : entry' = [entry EXCEPT ![t] = e])
    BY <1>4 DEF SendLock, M!AddMessageLock, M!Unlocked, M!Goto
  <2> QED
    BY <1>s, <2>1, FrameOf
<1>5. CASE SendEnqueue(c)
  <2>1. /\ UNCHANGED <<todo, life>> /\ pc[t] = "add_ref"
        /\ lock' = [lock EXCEPT ![mb[t]] = NoThread] /\ pc' = [pc EXCEPT ![t] = "serve"]
        /\ (\E m : mb' = [mb EXCEPT ![t] = m]) /\ (\E e : entry' = [entry EXCEPT ![t] = e])
    BY <1>5 DEF SendEnqueue, M!AddMessageRef, M!Goto
  <2>2. lock[mb[t]] = t
    BY <1>s, <2>1, Ground DEF Locked, Nested
  <2> QED
    BY <1>s, <2>1, <2>2, FrameOf
<1>6. CASE Discard(t)
  BY <1>s, <1>6, DiscardFrame
<1> QED
  BY <1>1, <1>2, <1>3, <1>4, <1>5, <1>6 DEF ServiceStep

LEMMA ThreadFrame ==
  ASSUME MaxLogins = 1, CharlaInv, LoanInv, NEW t \in MailboxThreads, MailboxStep(t)
  PROVE  Frame(t) /\ \A u \in Threads : u # t => pc'[u] = pc[u]
<1>s. t \in Threads
  BY OwnThread
<1>p. \A u \in Threads : u # t => pc'[u] = pc[u]
  <2>1. pc' = pc \/ \E l : pc' = [pc EXCEPT ![t] = l]
    BY DEF MailboxStep, ThreadStart, ThreadField, ThreadRef, ThreadGet, ThreadHook, ThreadWait,
           M!SemWait, ThreadNext, M!NextDefunct, M!NextRemove, M!NextUnrefSome, M!NextUnrefLast,
           ThreadSend, ThreadNotify, ThreadQuit, M!UnrefLast, Goto, M!Goto,
           Discard, M!DiscardToHook, M!DiscardUnhooked, M!DiscardDone
  <2> QED
    BY <2>1, Ground
<1>1. CASE ThreadStart(t) \/ ThreadField(t) \/ ThreadRef(t) \/ ThreadGet(t) \/ ThreadHook(t)
            \/ ThreadSend(t) \/ ThreadNotify(t)
  <2>1. UNCHANGED <<mb, entry, todo, lock, life>> /\ \E l : pc' = [pc EXCEPT ![t] = l]
    BY <1>1 DEF ThreadStart, ThreadField, ThreadRef, M!Ref, ThreadGet, ThreadHook, M!SetDiscardHook,
                ThreadSend, ThreadNotify, M!AddNotice, boxVars, callVars, Goto
  <2> QED
    BY <1>s, <1>p, <2>1, FrameOf
<1>2. CASE ThreadWait(t)
  <2>1. /\ UNCHANGED <<todo, lock, life>> /\ (\E l : pc' = [pc EXCEPT ![t] = l])
        /\ (\E m : mb' = [mb EXCEPT ![t] = m]) /\ (\E e : entry' = [entry EXCEPT ![t] = e])
    BY <1>2 DEF ThreadWait, M!SemWait, M!Goto
  <2> QED
    BY <1>s, <1>p, <2>1, FrameOf
<1>3. CASE ThreadNext(t)
  <2>1. CASE M!NextDefunct(t, "quit")
    <3>1. /\ UNCHANGED <<todo, lock, life, entry>> /\ (\E l : pc' = [pc EXCEPT ![t] = l])
          /\ (\E m : mb' = [mb EXCEPT ![t] = m])
      BY <2>1 DEF M!NextDefunct, M!Goto, M!boxVars
    <3> QED
      BY <1>s, <1>p, <3>1, FrameOf
  <2>2. CASE M!NextRemove(t, "got")
    <3>1. /\ UNCHANGED <<todo, life>> /\ (\E l : pc' = [pc EXCEPT ![t] = l])
          /\ mb' = mb \/ (\E m : mb' = [mb EXCEPT ![t] = m])
          /\ (\E e : entry' = [entry EXCEPT ![t] = e])
          /\ lock[mb[t]] = NoThread /\ (lock' = lock \/ lock' = [lock EXCEPT ![mb[t]] = t])
      BY <2>2 DEF M!NextRemove, M!Unlocked, M!Goto
    <3> QED
      BY <1>s, <1>p, <3>1, FrameOf
  <2>3. CASE M!NextUnrefSome(t, "got")
    <3>1. /\ UNCHANGED <<todo, life, entry>> /\ (\E l : pc' = [pc EXCEPT ![t] = l])
          /\ (\E m : mb' = [mb EXCEPT ![t] = m]) /\ pc[t] = "next_unref"
          /\ lock' = [lock EXCEPT ![mb[t]] = NoThread]
      BY <2>3 DEF M!NextUnrefSome, M!Goto
    <3>2. lock[mb[t]] = t
      BY <1>s, <3>1, Ground DEF Locked, Nested
    <3> QED
      BY <1>s, <1>p, <3>1, <3>2, FrameOf
  <2>4. CASE M!NextUnrefLast(t)
    <3> DEFINE m == entry[t].from
    <3>1. /\ UNCHANGED <<mb, entry, lock>> /\ (\E l : pc' = [pc EXCEPT ![t] = l])
          /\ todo' = [todo EXCEPT ![t] = box[m]] /\ life[m] = "live" /\ lock[m] = NoThread
          /\ life' = [life EXCEPT ![m] = "freed"] /\ pc[t] = "next_unref"
      BY <2>4 DEF M!NextUnrefLast, M!Finalise, M!Unlocked, M!Goto
    <3>2. m \in Mailboxes
      BY <3>1, OwnThread
    <3> HIDE DEF m
    <3> QED
      BY <1>s, <1>p, <3>1, <3>2, FrameOf
  <2> QED
    BY <1>3, <2>1, <2>2, <2>3, <2>4 DEF ThreadNext
<1>4. CASE ThreadQuit(t)
  <2>0. mine[t] \in Mailboxes
    BY <1>4, OwnThread DEF ThreadQuit
  <2>1. CASE M!UnrefSome(mine[t]) /\ Goto(t, "done") /\ UNCHANGED callVars
    <3>1. UNCHANGED <<mb, entry, todo, lock, life>> /\ pc' = [pc EXCEPT ![t] = "done"]
      BY <2>1 DEF M!UnrefSome, callVars, Goto
    <3> QED
      BY <1>s, <1>p, <3>1, FrameOf
  <2>2. CASE M!UnrefLast(t, mine[t])
    <3>1. /\ UNCHANGED <<entry, lock>> /\ pc' = [pc EXCEPT ![t] = "discard"]
          /\ mb' = [mb EXCEPT ![t] = mine[t]] /\ todo' = [todo EXCEPT ![t] = box[mine[t]]]
          /\ life[mine[t]] = "live" /\ lock[mine[t]] = NoThread
          /\ life' = [life EXCEPT ![mine[t]] = "freed"]
      BY <2>2 DEF M!UnrefLast, M!Finalise, M!Unlocked, M!Goto
    <3> QED
      BY <1>s, <1>p, <2>0, <3>1, FrameOf
  <2> QED
    BY <1>4, <2>1, <2>2 DEF ThreadQuit
<1>5. CASE Discard(t)
  BY <1>s, <1>p, <1>5, DiscardFrame
<1> QED
  BY <1>1, <1>2, <1>3, <1>4, <1>5 DEF MailboxStep

(* Hence the mutexes and the entries of other threads are as they were.     *)
LEMMA FrameKeeps ==
  ASSUME MaxLogins = 1, CharlaInv, LoanInv, NEW t \in Threads, Frame(t), NEW u \in Threads, u # t
  PROVE  Doomed(u)' /\ Locked(u)'
<1>1. Doomed(u) /\ Locked(u)
  BY Ground
<1>2. /\ mb'[u] = mb[u] /\ entry'[u] = entry[u] /\ todo'[u] = todo[u]
      /\ pc'[u] = pc[u] \/ (pc[u] = "none" /\ pc'[u] = "start")
  BY DEF Frame, OthersKept
<1>3. (M!Discarding(u)' <=> M!Discarding(u)) /\ M!Dying(u)' = M!Dying(u)
  BY <1>2 DEF M!Discarding, M!Dying
<1>4. \A m \in Mailboxes : life[m] = "freed" => life'[m] = "freed"
  BY DEF Frame, LivesKept
<1>5. Doomed(u)'
  <2>1. ASSUME NEW e, NEW c PROVE For(e, c)' <=> For(e, c)
    BY DEF For
  <2>2. M!Discarding(u) => \A i \in DOMAIN todo'[u] : For(todo'[u][i], M!Dying(u)[1])
    BY <1>1, <1>2 DEF Doomed
  <2> QED
    BY <1>1, <1>2, <1>3, <1>4, <2>1, <2>2 DEF Doomed
<1>6. Locked(u)'
  <2> SUFFICES ASSUME pc'[u] \in Nested PROVE lock'[mb[u]] = u /\ life'[mb[u]] = "live"
    BY <1>2 DEF Locked
  <2>1. pc[u] \in Nested
    BY <1>2 DEF Nested
  <2>2. lock[mb[u]] = u /\ life[mb[u]] = "live"
    BY <1>1, <2>1 DEF Locked
  <2>3. mb[u] \in Mailboxes
    <3>1. CASE u \in MailboxThreads
      BY <2>1, <3>1, OwnThread DEF Nested, ThreadLabels
    <3>2. ASSUME NEW c \in Clients, u = Service(c) PROVE mb[u] \in Mailboxes
      <4>1. pc[Service(c)] = "add_ref"
        BY <2>1, <3>2, OwnService DEF Nested, ServiceLabels
      <4>2. mb[Service(c)] = Box(job[c].to) /\ job[c].to \in Clients
        BY <4>1, OwnService DEF Sending
      <4> QED
        BY <3>2, <4>2, Ground
    <3> QED
      BY <3>1, <3>2, OneBox
  <2>4. u # NoThread
    BY NoThreadOK DEF Threads
  <2> QED
    BY <2>2, <2>3, <2>4 DEF Frame, LocksKept, LivesKept
<1> QED
  BY <1>5, <1>6

(* A thread that was not discarding, and is not in a nested call after the   *)
(* step, or in the one it was in.                                           *)
LEMMA NothingDoomed ==
  ASSUME MaxLogins = 1, CharlaInv, LoanInv, NEW t \in Threads, ~M!Discarding(t),
         todo' = todo, pc'[t] \notin {"discard", "next_discard"}, pc'[t] \notin Nested
  PROVE  Doomed(t)' /\ Locked(t)'
BY Ground DEF Doomed, Locked, M!Discarding

(* The entries of a freed mailbox are for its client, as they were in it.   *)
LEMMA FinaliseDoomed ==
  ASSUME MaxLogins = 1, CharlaInv, LoanInv, NEW t \in Threads, NEW m \in Mailboxes, M!Finalise(t, m),
         pc'[t] \in {"discard", "next_discard"}, M!Dying(t)' = m
  PROVE  Doomed(t)'
<1>1. todo' = [todo EXCEPT ![t] = box[m]] /\ life' = [life EXCEPT ![m] = "freed"]
  BY DEF M!Finalise
<1>2. todo \in [Threads -> Seq(M!Entry)] /\ life \in [Mailboxes -> {"unborn", "live", "freed"}]
  BY DEF CharlaInv, Types, CallTypes, BoxTypes
<1>3. todo'[t] = box[m] /\ life'[m] = "freed"
  BY <1>1, <1>2
<1>4. \A i \in DOMAIN box[m] : For(box[m][i], m[1])
  BY DEF CharlaInv, Routes, BoxOK
<1>5. ASSUME NEW e, NEW c PROVE For(e, c)' <=> For(e, c)
  BY DEF For
<1>6. M!Discarding(t)'
  BY DEF M!Discarding
<1>7. \A i \in DOMAIN todo'[t] : For(todo'[t][i], m[1])
  BY <1>3, <1>4
<1> QED
  BY <1>3, <1>5, <1>6, <1>7 DEF Doomed

LEMMA DiscardDoomed ==
  ASSUME MaxLogins = 1, CharlaInv, LoanInv, NEW t \in Threads, Discard(t)
  PROVE  Doomed(t)' /\ Locked(t)'
<1>0. /\ todo \in [Threads -> Seq(M!Entry)] /\ pc \in [Threads -> ServiceLabels \cup ThreadLabels]
      /\ Doomed(t) /\ Locked(t) /\ M!Discarding(t) /\ life' = life
  BY Ground DEF CharlaInv, Types, CallTypes, Discard, M!DiscardToHook, M!DiscardUnhooked,
                M!DiscardDone, M!Hooked
<1>1. CASE M!DiscardDone(t, AfterDiscard(t))
  <2>1. todo[t] = << >> /\ todo' = todo /\ pc' = [pc EXCEPT ![t] = AfterDiscard(t)]
    BY <1>1 DEF M!DiscardDone, M!Goto
  <2>2. pc'[t] \in {"clear", "got", "done"}
    BY <1>0, <2>1 DEF AfterDiscard
  <2> QED
    BY <2>1, <2>2 DEF Doomed, Locked, Nested, M!Discarding
<1>2. CASE M!DiscardToHook(t) \/ M!DiscardUnhooked(t)
  <2>1. UNCHANGED <<pc, mb, entry, lock>> /\ todo[t] # << >> /\ todo' = [todo EXCEPT ![t] = Tail(@)]
    BY <1>2 DEF M!DiscardToHook, M!DiscardUnhooked, M!Hooked
  <2>2. todo'[t] = Tail(todo[t]) /\ todo[t] \in Seq(M!Entry)
    BY <1>0, <2>1
  <2>3. \A i \in DOMAIN todo'[t] : i + 1 \in DOMAIN todo[t] /\ todo'[t][i] = todo[t][i + 1]
    <3> DEFINE r == Tail(todo[t])
    <3>1. \A i \in DOMAIN r : i + 1 \in DOMAIN todo[t] /\ r[i] = todo[t][i + 1]
      BY <2>1, <2>2, TailAt
    <3> HIDE DEF r
    <3> QED
      BY <2>2, <3>1 DEF r
  <2>4. M!Discarding(t)' /\ M!Dying(t)' = M!Dying(t)
    BY <1>0, <2>1 DEF M!Discarding, M!Dying
  <2>5. ASSUME NEW e, NEW c PROVE For(e, c)' <=> For(e, c)
    BY DEF For
  <2>6. \A i \in DOMAIN todo'[t] : For(todo'[t][i], M!Dying(t)[1])
    BY <1>0, <2>3 DEF Doomed
  <2>7. Doomed(t)'
    BY <1>0, <2>4, <2>5, <2>6 DEF Doomed
  <2>8. Locked(t)'
    BY <1>0, <2>1 DEF Locked
  <2> QED
    BY <2>7, <2>8
<1> QED
  BY <1>1, <1>2 DEF Discard

LEMMA ServiceDoomed ==
  ASSUME MaxLogins = 1, CharlaInv, LoanInv, NEW c \in Clients, Request(c) \/ ServiceStep(c)
  PROVE  \A u \in Threads : Doomed(u)' /\ Locked(u)'
<1> DEFINE t == Service(c)
<1>s. t \in Threads /\ pc \in [Threads -> ServiceLabels \cup ThreadLabels]
  BY Ground
<1>o. \A u \in Threads : u # t => Doomed(u)' /\ Locked(u)'
  BY <1>s, RequestFrame, ServiceFrame, FrameKeeps
<1>n. ASSUME ~M!Discarding(t), todo' = todo, NEW l, l \notin Nested \cup {"discard"},
             pc' = [pc EXCEPT ![t] = l]
      PROVE  Doomed(t)' /\ Locked(t)'
  <2>1. pc'[t] = l
    BY <1>s, <1>n
  <2> QED
    BY <1>s, <1>n, <2>1, NothingDoomed DEF Nested
<1>1. CASE Login(c) \/ LogoutPacket(c)
  <2>1. todo' = todo /\ pc[t] = "serve" /\ \E l \in {"spawn", "shutdown"} : pc' = [pc EXCEPT ![t] = l]
    BY <1>1 DEF Login, LogoutPacket, callVars, At, Go, Goto
  <2> QED
    BY <1>n, <1>o, <2>1 DEF M!Discarding, Nested
<1>2. CASE HangUp(c) \/ SendPacket(c)
  <2>1. CASE pc' = pc
    <3>1. UNCHANGED <<pc, mb, entry, todo, lock, life>>
      BY <1>2, <2>1 DEF HangUp, SendPacket, boxVars, callVars
    <3> QED
      BY <1>s, <3>1, Ground DEF Doomed, Locked, M!Discarding, M!Dying, For
  <2>2. CASE pc' # pc
    <3>1. todo' = todo /\ pc[t] = "serve" /\ pc' = [pc EXCEPT ![t] = "lookup"]
      BY <1>2, <2>2 DEF HangUp, SendPacket, callVars, At, Go, Goto
    <3> QED
      BY <1>n, <1>o, <3>1 DEF M!Discarding, Nested
  <2> QED
    BY <2>1, <2>2
<1>3. CASE Spawn(c)
  <2>1. /\ todo' = todo /\ pc[t] = "spawn"
        /\ pc' = [pc EXCEPT ![t] = "serve", ![<<c, logins[c]>>] = "start"]
    BY <1>3 DEF Spawn, callVars, At
  <2>2. <<c, logins[c]>> = Box(c) /\ t # Box(c)
    BY <2>1, OwnService, Ground DEF Box
  <2>3. pc'[t] = "serve"
    BY <1>s, <2>1, <2>2
  <2> QED
    BY <1>s, <1>o, <2>1, <2>3, NothingDoomed DEF M!Discarding, Nested
<1>4. CASE ReadEOF(c) \/ LogoutShutdown(c) \/ LogoutClear(c) \/ JoinMailboxThread(c)
            \/ SendLookup(c) \/ SendToSelf(c)
  <2>1. /\ todo' = todo /\ pc[t] \in {"serve", "shutdown", "clear", "join", "lookup", "add"}
        /\ \E l \in {"shutdown", "join", "unref", "serve", "gone", "add"} : pc' = [pc EXCEPT ![t] = l]
    BY <1>4 DEF ReadEOF, LogoutShutdown, LogoutClear, JoinMailboxThread, SendLookup, SendToSelf,
                callVars, At, Go, Goto
  <2> QED
    BY <1>n, <1>o, <2>1 DEF M!Discarding, Nested
<1>5. CASE LogoutUnref(c)
  <2>0. pc[t] = "unref" /\ cbox[c] \in Mailboxes
    BY <1>5, OwnService, Ground DEF LogoutUnref, At
  <2>1. CASE M!UnrefSome(cbox[c]) /\ Go(c, "clear") /\ UNCHANGED callVars
    <3>1. todo' = todo /\ pc' = [pc EXCEPT ![t] = "clear"]
      BY <2>1 DEF callVars, Go, Goto
    <3> QED
      BY <1>n, <1>o, <2>0, <3>1 DEF M!Discarding, Nested
  <2>2. CASE M!UnrefLast(t, cbox[c])
    <3>1. /\ M!Finalise(t, cbox[c]) /\ pc' = [pc EXCEPT ![t] = "discard"]
          /\ mb' = [mb EXCEPT ![t] = cbox[c]]
      BY <2>2 DEF M!UnrefLast, M!Goto
    <3>2. pc'[t] = "discard" /\ mb'[t] = cbox[c]
      BY <1>s, <3>1, Ground
    <3>3. Doomed(t)'
      BY <1>s, <2>0, <3>1, <3>2, FinaliseDoomed DEF M!Dying
    <3>4. Locked(t)'
      BY <3>2 DEF Locked, Nested
    <3> QED
      BY <1>o, <3>3, <3>4
  <2> QED
    BY <1>5, <2>1, <2>2 DEF LogoutUnref
<1>6. CASE SendLock(c)
  <2>1. /\ todo' = todo /\ pc[t] = "add" /\ pc' = [pc EXCEPT ![t] = "add_ref"]
        /\ mb' = [mb EXCEPT ![t] = target[c]] /\ lock' = [lock EXCEPT ![target[c]] = t]
        /\ life[target[c]] = "live" /\ life' = life /\ target[c] # NoMailbox
    BY <1>6 DEF SendLock, M!AddMessageLock, M!Unlocked, M!Goto, At
  <2>2. target[c] \in Mailboxes
    BY <2>1, Ground
  <2>3. pc'[t] = "add_ref" /\ mb'[t] = target[c] /\ lock'[target[c]] = t
    BY <1>s, <2>1, <2>2, Ground
  <2>4. Doomed(t)'
    BY <1>s, <2>1, <2>3, Ground DEF Doomed, M!Discarding
  <2>5. Locked(t)'
    BY <2>1, <2>3 DEF Locked
  <2> QED
    BY <1>o, <2>4, <2>5
<1>7. CASE SendEnqueue(c)
  <2>1. todo' = todo /\ pc[t] = "add_ref" /\ pc' = [pc EXCEPT ![t] = "serve"]
    BY <1>7 DEF SendEnqueue, M!AddMessageRef, M!Goto
  <2> QED
    BY <1>n, <1>o, <2>1 DEF M!Discarding, Nested
<1>8. CASE Discard(t)
  BY <1>s, <1>o, <1>8, DiscardDoomed
<1> QED
  BY <1>1, <1>2, <1>3, <1>4, <1>5, <1>6, <1>7, <1>8 DEF Request, ServiceStep

LEMMA ThreadDoomed ==
  ASSUME MaxLogins = 1, CharlaInv, LoanInv, NEW t \in MailboxThreads, MailboxStep(t)
  PROVE  \A u \in Threads : Doomed(u)' /\ Locked(u)'
<1>s. t \in Threads /\ pc \in [Threads -> ServiceLabels \cup ThreadLabels]
  BY OwnThread, Ground
<1>o. \A u \in Threads : u # t => Doomed(u)' /\ Locked(u)'
  BY <1>s, ThreadFrame, FrameKeeps
<1>n. ASSUME ~M!Discarding(t), todo' = todo, NEW l, l \notin Nested \cup {"discard"},
             pc' = [pc EXCEPT ![t] = l]
      PROVE  Doomed(t)' /\ Locked(t)'
  <2>1. pc'[t] = l
    BY <1>s, <1>n
  <2> QED
    BY <1>s, <1>n, <2>1, NothingDoomed DEF Nested
<1>1. CASE ThreadStart(t) \/ ThreadField(t) \/ ThreadRef(t) \/ ThreadGet(t) \/ ThreadHook(t)
            \/ ThreadWait(t) \/ ThreadSend(t) \/ ThreadNotify(t)
  <2>1. /\ todo' = todo /\ pc[t] \in {"start", "field", "ref", "get", "hook", "loop", "got", "rrcpt", "bounce"}
        /\ \E l \in {"field", "ref", "get", "hook", "loop", "next_lock", "rrcpt", "bounce", "done"} :
             pc' = [pc EXCEPT ![t] = l]
    BY <1>1 DEF ThreadStart, ThreadField, ThreadRef, ThreadGet, ThreadHook, ThreadWait, M!SemWait,
                ThreadSend, ThreadNotify, callVars, Goto, M!Goto
  <2> QED
    BY <1>n, <1>o, <2>1 DEF M!Discarding, Nested
<1>2. CASE ThreadNext(t) /\ (M!NextDefunct(t, "quit") \/ M!NextUnrefSome(t, "got"))
  <2>1. /\ todo' = todo /\ pc[t] \in {"next_lock", "next_unref"}
        /\ \E l \in {"quit", "got"} : pc' = [pc EXCEPT ![t] = l]
    BY <1>2 DEF M!NextDefunct, M!NextUnrefSome, M!Goto
  <2> QED
    BY <1>n, <1>o, <2>1 DEF M!Discarding, Nested
<1>3. CASE M!NextRemove(t, "got")
  <2>0. pc[t] = "next_lock" /\ todo' = todo /\ mb[t] \in Mailboxes /\ M!Unlocked(mb[t]) /\ life' = life
    BY <1>3, OwnThread DEF M!NextRemove
  <2>1. CASE pc' = [pc EXCEPT ![t] = "got"]
    BY <1>n, <1>o, <2>0, <2>1 DEF M!Discarding, Nested
  <2>2. CASE pc' # [pc EXCEPT ![t] = "got"]
    <3>1. pc' = [pc EXCEPT ![t] = "next_unref"] /\ mb' = mb /\ lock' = [lock EXCEPT ![mb[t]] = t]
      BY <1>3, <2>2 DEF M!NextRemove, M!Goto
    <3>2. pc'[t] = "next_unref" /\ lock'[mb[t]] = t
      BY <1>s, <2>0, <3>1, Ground
    <3>3. Doomed(t)'
      BY <1>s, <2>0, <3>2, Ground DEF Doomed, M!Discarding
    <3>4. Locked(t)'
      BY <2>0, <3>1, <3>2 DEF Locked, M!Unlocked
    <3> QED
      BY <1>o, <3>3, <3>4
  <2> QED
    BY <2>1, <2>2
<1>4. CASE M!NextUnrefLast(t)
  <2> DEFINE m == entry[t].from
  <2>1. /\ pc[t] = "next_unref" /\ M!Finalise(t, m) /\ pc' = [pc EXCEPT ![t] = "next_discard"]
        /\ UNCHANGED <<mb, entry, lock>>
    BY <1>4 DEF M!NextUnrefLast, M!Goto
  <2>2. m \in Mailboxes /\ mb[t] \in Mailboxes /\ lock[mb[t]] = t /\ life[mb[t]] = "live"
    BY <1>s, <2>1, OwnThread, Ground DEF Locked, Nested
  <2>3. pc'[t] = "next_discard" /\ M!Dying(t)' = m
    BY <1>s, <2>1 DEF M!Dying
  <2> HIDE DEF m
  <2>4. Doomed(t)'
    BY <1>s, <2>1, <2>2, <2>3, FinaliseDoomed
  <2>5. m # mb[t]
    <3>1. lock[m] = NoThread /\ t # NoThread
      BY <1>s, <2>1, NoThreadOK DEF M!Finalise, M!Unlocked, Threads
    <3> QED
      BY <2>2, <3>1
  <2>6. life'[mb[t]] = "live"
    BY <2>1, <2>2, <2>5, Ground DEF M!Finalise
  <2>7. Locked(t)'
    BY <2>1, <2>2, <2>6 DEF Locked
  <2> QED
    BY <1>o, <2>4, <2>7
<1>5. CASE ThreadQuit(t)
  <2>0. pc[t] = "quit" /\ mine[t] \in Mailboxes
    BY <1>5, OwnThread DEF ThreadQuit
  <2>1. CASE M!UnrefSome(mine[t]) /\ Goto(t, "done") /\ UNCHANGED callVars
    <3>1. todo' = todo /\ pc' = [pc EXCEPT ![t] = "done"]
      BY <2>1 DEF callVars, Goto
    <3> QED
      BY <1>n, <1>o, <2>0, <3>1 DEF M!Discarding, Nested
  <2>2. CASE M!UnrefLast(t, mine[t])
    <3>1. /\ M!Finalise(t, mine[t]) /\ pc' = [pc EXCEPT ![t] = "discard"]
          /\ mb' = [mb EXCEPT ![t] = mine[t]]
      BY <2>2 DEF M!UnrefLast, M!Goto
    <3>2. pc'[t] = "discard" /\ mb'[t] = mine[t]
      BY <1>s, <3>1, Ground
    <3>3. Doomed(t)'
      BY <1>s, <2>0, <3>1, <3>2, FinaliseDoomed DEF M!Dying
    <3>4. Locked(t)'
      BY <3>2 DEF Locked, Nested
    <3> QED
      BY <1>o, <3>3, <3>4
  <2> QED
    BY <1>5, <2>1, <2>2 DEF ThreadQuit
<1>6. CASE Discard(t)
  BY <1>s, <1>o, <1>6, DiscardDoomed
<1> QED
  BY <1>1, <1>2, <1>3, <1>4, <1>5, <1>6 DEF MailboxStep, ThreadNext

-----------------------------------------------------------------------------

(* A client that has logged out does not come back, for it logs in once.    *)
LEMMA LoggedOutStays ==
  ASSUME MaxLogins = 1, CharlaInv, LoanInv, [Next]_vars, NEW d \in Clients, LoggedOut(d)
  PROVE  LoggedOut(d)'
<1>0. /\ cstat \in [Clients -> {"NO_USER", "LOGGED_IN"}] /\ logins \in [Clients -> 0..1]
      /\ pc \in [Threads -> ServiceLabels \cup ThreadLabels] /\ Service(d) \in Threads
      /\ logins[d] = 1
  BY Ground DEF LoggedOut
<1>1. CASE UNCHANGED <<logins, cstat>> /\ pc'[Service(d)] = pc[Service(d)]
  BY <1>1 DEF LoggedOut, LoggedIn
<1>2. ASSUME NEW t \in Threads, Discard(t) PROVE LoggedOut(d)'
  <2>1. /\ UNCHANGED <<logins, cstat>>
        /\ pc' = pc \/ pc' = [pc EXCEPT ![t] = AfterDiscard(t)]
    BY <1>2 DEF Discard, M!DiscardToHook, M!DiscardUnhooked, M!DiscardDone, M!Goto, clientVars
  <2>0. ASSUME t = Service(d) PROVE AfterDiscard(t) = "clear"
    <3>1. t[2] = 0 /\ pc[t] # "next_discard"
      BY <2>0, OneBox, OwnService DEF ServiceLabels
    <3> QED
      BY <3>1 DEF AfterDiscard
  <2>2. t = Service(d) => pc'[t] = pc[t] \/ pc'[t] = "clear"
    BY <1>0, <2>0, <2>1
  <2>3. pc'[Service(d)] = pc[Service(d)] \/ pc'[Service(d)] = "clear"
    BY <1>0, <2>1, <2>2
  <2>4. logins'[d] = 1 /\ cstat'[d] = cstat[d]
    BY <1>0, <2>1
  <2> QED
    BY <2>3, <2>4 DEF LoggedOut, LoggedIn
<1>3. ASSUME NEW c \in Clients, Request(c) PROVE LoggedOut(d)'
  <2>1. c # d => pc'[Service(d)] = pc[Service(d)]
    BY <1>0, <1>3, RequestFrame, Ground
  <2>2. CASE Login(c)
    <3>1. /\ cstat' = [cstat EXCEPT ![c] = "LOGGED_IN"] /\ logins' = [logins EXCEPT ![c] = logins[c] + 1]
          /\ logins[c] + 1 <= 1
      BY <2>2 DEF Login
    <3>2. c # d
      BY <1>0, <3>1
    <3>3. cstat'[d] = cstat[d] /\ logins'[d] = logins[d]
      BY <1>0, <3>1, <3>2
    <3> QED
      BY <2>1, <3>2, <3>3 DEF LoggedOut, LoggedIn
  <2>3. CASE ~Login(c)
    <3>1. UNCHANGED <<logins, cstat>> /\ (pc' = pc \/ (pc[Service(c)] = "serve" /\ LoggedIn(c)))
      BY <1>3, <2>3 DEF Request, HangUp, LogoutPacket, SendPacket, clientVars, At
    <3>2. c = d => pc' = pc
      BY <3>1 DEF LoggedOut
    <3> QED
      BY <2>1, <3>1, <3>2 DEF LoggedOut, LoggedIn
  <2> QED
    BY <2>2, <2>3
<1>4. ASSUME NEW c \in Clients, ServiceStep(c) PROVE LoggedOut(d)'
  <2>1. c # d => pc'[Service(d)] = pc[Service(d)]
    <3>1. pc[Service(d)] # "none"
      BY OwnService DEF ServiceLabels
    <3> QED
      BY <1>0, <1>4, <3>1, ServiceFrame, Ground DEF Frame, OthersKept
  <2>2. CASE LogoutClear(c)
    <3>1. logins' = logins /\ cstat' = [cstat EXCEPT ![c] = "NO_USER"]
      BY <2>2 DEF LogoutClear
    <3>2. cstat'[c] = "NO_USER" /\ (c # d => cstat'[d] = cstat[d])
      BY <1>0, <3>1
    <3> QED
      BY <1>0, <2>1, <3>1, <3>2 DEF LoggedOut, LoggedIn
  <2>3. CASE Discard(Service(c))
    BY <1>2, <2>3, Ground
  <2>4. CASE ~LogoutClear(c) /\ ~Discard(Service(c))
    <3>1. /\ UNCHANGED <<logins, cstat>>
          /\ pc[Service(c)] \in {"spawn", "serve", "shutdown", "unref", "join", "lookup", "add", "add_ref"}
      BY <1>4, <2>4 DEF ServiceStep, Spawn, ReadEOF, LogoutShutdown, LogoutUnref, JoinMailboxThread,
           SendLookup, SendToSelf, SendLock, SendEnqueue, M!AddMessageRef, clientVars, At
    <3>2. CASE c # d
      BY <2>1, <3>1, <3>2 DEF LoggedOut, LoggedIn
    <3>3. CASE c = d
      BY <3>1, <3>3 DEF LoggedOut, LoggedIn
    <3> QED
      BY <3>2, <3>3
  <2> QED
    BY <2>2, <2>3, <2>4
<1>5. ASSUME NEW t \in MailboxThreads, MailboxStep(t) PROVE LoggedOut(d)'
  <2>1. pc'[Service(d)] = pc[Service(d)]
    BY <1>0, <1>5, ThreadFrame, Names
  <2>2. CASE Discard(t)
    BY <1>2, <2>2, OwnThread
  <2>3. CASE ~Discard(t)
    <3>1. UNCHANGED <<logins, cstat>>
      BY <1>5, <2>3 DEF MailboxStep, ThreadStart, ThreadField, ThreadRef, ThreadGet, ThreadHook, ThreadWait,
           ThreadNext, ThreadSend, ThreadNotify, ThreadQuit, clientVars
    <3> QED
      BY <1>1, <2>1, <3>1
  <2> QED
    BY <2>2, <2>3
<1>6. CASE UNCHANGED vars
  BY <1>6 DEF vars, clientVars, LoggedOut, LoggedIn
<1> QED
  BY <1>3, <1>4, <1>5, <1>6 DEF Next

-----------------------------------------------------------------------------
(* Logins, SEND packets and hooks.  First the steps of a mailbox thread: it *)
(* has been started and is not done.                                        *)
Goes(t, l) ==
  /\ pc' = [pc EXCEPT ![t] = l] /\ l \in ThreadLabels \ {"none", "start"}
  /\ pc[t] \notin {"none", "done"}
  /\ UNCHANGED <<tid, logins, cstat, job, target>>
  /\ \A u \in MailboxThreads : u # t => mine'[u] = mine[u]

LEMMA ThreadGoes ==
  ASSUME MaxLogins = 1, CharlaInv, LoanInv, NEW t \in MailboxThreads, MailboxStep(t)
  PROVE  \E l \in ThreadLabels :
           /\ Goes(t, l)
           /\ l = "field" => mine'[t] = NoMailbox
           /\ l = "ref" => mine'[t] = cbox[t[1]]
           /\ \/ hook' = hook /\ (l \notin Early => mine'[t] = NoMailbox \/ (pc[t] \notin Early /\ mine'[t] = mine[t]))
              \/ hook' = [hook EXCEPT ![t] = "discard_hook"]
<1> DEFINE Ends(l) ==
             /\ Goes(t, l)
             /\ l = "field" => mine'[t] = NoMailbox
             /\ l = "ref" => mine'[t] = cbox[t[1]]
             /\ \/ hook' = hook /\ (l \notin Early => mine'[t] = NoMailbox \/ (pc[t] \notin Early /\ mine'[t] = mine[t]))
                \/ hook' = [hook EXCEPT ![t] = "discard_hook"]
<1> SUFFICES \E l : Ends(l)
  BY DEF Goes
<1>0. /\ t = Box(t[1]) /\ t[1] \in Clients /\ mine \in [MailboxThreads -> Mailboxes \cup {NoMailbox}]
      /\ pc \in [Threads -> ServiceLabels \cup ThreadLabels] /\ t \in Threads
      /\ HookSet(t[1])
  BY OwnThread, Ground
<1>1. CASE ThreadStart(t)
  <2>0. /\ pc[t] = "start" /\ UNCHANGED <<tid, logins, cstat, job, target, mine, hook>>
        /\ pc' = [pc EXCEPT ![t] = "field"] \/ pc' = [pc EXCEPT ![t] = "done"]
    BY <1>1 DEF ThreadStart, Goto, boxVars, clientVars, sendVars
  <2>1. mine[t] = NoMailbox
    BY <1>0, <2>0 DEF HookSet
  <2>2. Ends("field") \/ Ends("done")
    BY <2>0, <2>1 DEF Goes, ThreadLabels
  <2> QED
    BY <2>2
<1>2. CASE ThreadField(t)
  <2>0. /\ pc[t] = "field" /\ UNCHANGED <<tid, logins, cstat, job, target, hook>>
        /\ pc' = [pc EXCEPT ![t] = "ref"] /\ mine' = [mine EXCEPT ![t] = cbox[t[1]]]
    BY <1>2 DEF ThreadField, Goto, boxVars, clientVars, sendVars
  <2>1. mine'[t] = cbox[t[1]] /\ \A u \in MailboxThreads : u # t => mine'[u] = mine[u]
    BY <1>0, <2>0
  <2>2. Ends("ref")
    BY <2>0, <2>1 DEF Goes, ThreadLabels, Early
  <2> QED
    BY <2>2
<1>3. CASE ThreadRef(t)
  <2>0. /\ pc[t] = "ref" /\ UNCHANGED <<tid, logins, cstat, job, target, mine, hook>>
        /\ pc' = [pc EXCEPT ![t] = "get"]
    BY <1>3 DEF ThreadRef, M!Ref, Goto, clientVars, sendVars
  <2>1. Ends("get")
    BY <2>0 DEF Goes, ThreadLabels, Early
  <2> QED
    BY <2>1
<1>4. CASE ThreadGet(t)
  <2>0. /\ pc[t] = "get" /\ UNCHANGED <<tid, logins, cstat, job, target, hook>>
        /\ mine' = [mine EXCEPT ![t] = cbox[t[1]]]
        /\ \/ pc' = [pc EXCEPT ![t] = "done"] /\ cbox[t[1]] = NoMailbox
           \/ pc' = [pc EXCEPT ![t] = "hook"]
    BY <1>4 DEF ThreadGet, Goto, clientVars, sendVars
  <2>1. mine'[t] = cbox[t[1]] /\ \A u \in MailboxThreads : u # t => mine'[u] = mine[u]
    BY <1>0, <2>0
  <2>2. Ends("done") \/ Ends("hook")
    BY <2>0, <2>1 DEF Goes, ThreadLabels, Early
  <2> QED
    BY <2>2
<1>5. CASE ThreadHook(t)
  <2>0. /\ pc[t] = "hook" /\ UNCHANGED <<tid, logins, cstat, job, target, mine>>
        /\ pc' = [pc EXCEPT ![t] = "loop"] /\ hook' = [hook EXCEPT ![mine[t]] = "discard_hook"]
    BY <1>5 DEF ThreadHook, M!SetDiscardHook, Goto, callVars, clientVars, sendVars
  <2>1. mine[t] = t
    BY <2>0, OwnThread
  <2>2. Ends("loop")
    BY <2>0, <2>1 DEF Goes, ThreadLabels
  <2> QED
    BY <2>2
<1>6. CASE ThreadWait(t) \/ ThreadNext(t) \/ ThreadSend(t) \/ ThreadNotify(t) \/ ThreadQuit(t)
  <2>1. /\ pc[t] \in {"loop", "next_lock", "next_unref", "got", "rrcpt", "bounce", "quit"}
        /\ UNCHANGED <<tid, logins, cstat, job, target, mine>>
    BY <1>6 DEF ThreadWait, M!SemWait, ThreadNext, M!NextDefunct, M!NextRemove, M!NextUnrefSome,
                M!NextUnrefLast, ThreadSend, ThreadNotify, ThreadQuit, clientVars, sendVars
  <2>2. hook' = hook
    BY <1>6 DEF ThreadWait, M!SemWait, ThreadNext, M!NextDefunct, M!NextRemove, M!NextUnrefSome,
                M!NextUnrefLast, ThreadSend, ThreadNotify, M!AddNotice, ThreadQuit, M!UnrefSome,
                M!UnrefLast, boxVars, M!boxVars
  <2>3. PICK l \in {"loop", "next_lock", "next_unref", "next_discard", "got", "rrcpt", "bounce",
                    "quit", "discard", "done"} : pc' = [pc EXCEPT ![t] = l]
    BY <1>6 DEF ThreadWait, M!SemWait, ThreadNext, M!NextDefunct, M!NextRemove, M!NextUnrefSome,
                M!NextUnrefLast, ThreadSend, ThreadNotify, ThreadQuit, M!UnrefLast, Goto, M!Goto
  <2>4. Ends(l)
    BY <2>1, <2>2, <2>3 DEF Goes, ThreadLabels, Early
  <2> QED
    BY <2>4
<1>7. CASE Discard(t)
  <2>1. /\ pc[t] \in {"discard", "next_discard"}
        /\ UNCHANGED <<tid, logins, cstat, job, target, mine, hook>>
        /\ pc' = pc \/ pc' = [pc EXCEPT ![t] = AfterDiscard(t)]
    BY <1>7 DEF Discard, M!DiscardToHook, M!DiscardUnhooked, M!DiscardDone, M!Hooked, M!Discarding,
                M!Goto, clientVars, sendVars
  <2>2. AfterDiscard(t) \in {"got", "done"}
    BY Names DEF AfterDiscard
  <2>3. \E l \in {"discard", "next_discard", "got", "done"} : pc' = [pc EXCEPT ![t] = l]
    BY <1>0, <2>1, <2>2
  <2>4. \E l \in {"discard", "next_discard", "got", "done"} : Ends(l)
    BY <2>1, <2>3 DEF Goes, ThreadLabels, Early
  <2> QED
    BY <2>4
<1> QED
  BY <1>1, <1>2, <1>3, <1>4, <1>5, <1>6, <1>7 DEF MailboxStep

LEMMA ThreadBegun ==
  ASSUME MaxLogins = 1, CharlaInv, LoanInv, NEW t \in MailboxThreads, MailboxStep(t),
         \A d \in Clients : LoggedOut(d) => LoggedOut(d)'
  PROVE  \A d \in Clients : Begun(d)' /\ HookSet(d)' /\ Addressed(d)'
<1>1. PICK l \in ThreadLabels :
        /\ Goes(t, l)
        /\ l = "field" => mine'[t] = NoMailbox
        /\ l = "ref" => mine'[t] = cbox[t[1]]
        /\ \/ hook' = hook /\ (l \notin Early => mine'[t] = NoMailbox \/ (pc[t] \notin Early /\ mine'[t] = mine[t]))
           \/ hook' = [hook EXCEPT ![t] = "discard_hook"]
  BY ThreadGoes
<1>2. /\ pc[t] \notin {"none", "done"} /\ l \notin {"none", "start"}
      /\ UNCHANGED <<tid, logins, cstat, job, target>>
      /\ \A u \in MailboxThreads : u # t => mine'[u] = mine[u]
  BY <1>1 DEF Goes
<1>3. t \in Threads /\ t \in Mailboxes /\ t = Box(t[1]) /\ t[1] \in Clients
  BY OwnThread
<1>4. pc'[t] = l /\ \A u \in Threads : u # t => pc'[u] = pc[u]
  BY <1>1, <1>3, Ground DEF Goes
<1>5. \A m \in Mailboxes : m # t => hook'[m] = hook[m]
  BY <1>1, Ground
<1> SUFFICES ASSUME NEW d \in Clients PROVE Begun(d)' /\ HookSet(d)' /\ Addressed(d)'
  OBVIOUS
<1>6. /\ Box(d) \in Mailboxes /\ Box(d) \in Threads /\ Box(d) \in MailboxThreads
      /\ pc'[Service(d)] = pc[Service(d)]
  <2>1. /\ Box(d) \in Mailboxes /\ Box(d) \in Threads /\ Box(d) \in MailboxThreads
        /\ Service(d) \in Threads /\ Service(d) # Box(t[1])
    BY <1>3, OneBox
  <2> QED
    BY <1>3, <1>4, <2>1
<1>7. Begun(d) /\ HookSet(d) /\ Addressed(d)
  BY Ground
<1>8. pc[Box(d)] = "none" <=> pc'[Box(d)] = "none"
  BY <1>2, <1>4, <1>6
<1>9. Begun(d)'
  <2>1. pc[Service(d)] = "gone" => Box(d) # t
    BY <1>2, <1>7 DEF Begun
  <2>2. pc[Service(d)] = "gone" => pc'[Box(d)] = pc[Box(d)]
    BY <1>4, <1>6, <2>1
  <2> QED
    BY <1>2, <1>6, <1>7, <1>8, <2>2 DEF Begun
<1>10. Addressed(d)'
  <2>1. job' = job /\ target' = target /\ logins' = logins
    BY <1>2
  <2>2. pc[Service(d)] = "add" => job[d].to \in Clients
    BY OwnService DEF Sending
  <2>3. ASSUME pc[Service(d)] = "add", LoggedOut(job[d].to) PROVE LoggedOut(job[d].to)'
    <3>1. \A e \in Clients : LoggedOut(e) =>
            logins'[e] > 0 /\ (cstat'[e] = "LOGGED_IN" => pc'[Service(e)] \in {"discard", "clear"})
      BY DEF LoggedOut, LoggedIn
    <3>2. /\ logins'[job[d].to] > 0
          /\ cstat'[job[d].to] = "LOGGED_IN" => pc'[Service(job[d].to)] \in {"discard", "clear"}
      BY <2>2, <2>3, <3>1
    <3> QED
      BY <2>1, <3>2 DEF LoggedOut, LoggedIn, Service
  <2> QED
    BY <1>6, <1>7, <2>1, <2>3 DEF Addressed
<1>11. HookSet(d)'
  <2>1. CASE Box(d) # t
    <3>1. /\ pc'[Box(d)] = pc[Box(d)] /\ mine'[Box(d)] = mine[Box(d)] /\ hook'[Box(d)] = hook[Box(d)]
      BY <1>2, <1>4, <1>5, <1>6, <2>1
    <3> QED
      BY <1>7, <3>1 DEF HookSet
  <2>2. CASE Box(d) = t
    <3>1. t[1] = d
      BY <2>2 DEF Box
    <3>2. l = "ref" => mine'[t] = t \/ LoggedOut(d)'
      <4> SUFFICES ASSUME l = "ref", ~LoggedIn(d) PROVE LoggedOut(d)'
        BY <1>1, <2>2, <3>1, OwnService
      <4>1. logins[d] = 1
        BY <1>2, <1>7, <2>2 DEF Begun
      <4> QED
        BY <1>2, <4>1 DEF LoggedOut, LoggedIn
    <3>3. l \notin Early /\ mine'[t] # NoMailbox => hook'[t] = "discard_hook"
      <4>1. CASE hook' = [hook EXCEPT ![t] = "discard_hook"]
        BY <1>3, <4>1, Ground
      <4>2. CASE hook' = hook /\ (l \notin Early => mine'[t] = NoMailbox \/ (pc[t] \notin Early /\ mine'[t] = mine[t]))
        BY <1>7, <2>2, <4>2 DEF HookSet
      <4> QED
        BY <1>1, <4>1, <4>2
    <3> QED
      BY <1>1, <1>2, <1>4, <2>2, <3>2, <3>3 DEF HookSet
  <2> QED
    BY <2>1, <2>2
<1> QED
  BY <1>9, <1>10, <1>11

(* Then the steps of a service thread.                                      *)
LEMMA AddressedKept ==
  ASSUME MaxLogins = 1, CharlaInv, LoanInv, NEW d \in Clients,
         \A e \in Clients : LoggedOut(e) => LoggedOut(e)',
         \A e \in Clients : logins[e] = 1 => logins'[e] = 1,
         job'[d] = job[d], target'[d] = target[d], pc'[Service(d)] = pc[Service(d)]
  PROVE  Addressed(d)'
<1>1. Addressed(d)
  BY Ground
<1>2. pc[Service(d)] \in Sending => job[d].to \in Clients
  BY OwnService
<1>3. ASSUME pc[Service(d)] = "add", LoggedOut(job[d].to) PROVE LoggedOut(job[d].to)'
  <2>1. \A e \in Clients : LoggedOut(e) =>
          logins'[e] > 0 /\ (cstat'[e] = "LOGGED_IN" => pc'[Service(e)] \in {"discard", "clear"})
    BY DEF LoggedOut, LoggedIn
  <2>2. /\ logins'[job[d].to] > 0
        /\ cstat'[job[d].to] = "LOGGED_IN" => pc'[Service(job[d].to)] \in {"discard", "clear"}
    BY <1>2, <1>3, <2>1 DEF Sending
  <2> QED
    BY <2>2 DEF LoggedOut, LoggedIn, Service
<1>4. pc[Service(d)] \in Sending => job'[d].from = d /\ logins'[job'[d].to] = 1
  BY <1>1, <1>2 DEF Addressed
<1>5. pc[Service(d)] = "add" => target'[d] = Box(job'[d].to) \/ LoggedOut(job[d].to)'
  BY <1>1, <1>3 DEF Addressed
<1> QED
  BY <1>4, <1>5 DEF Addressed

LEMMA BegunKept ==
  ASSUME MaxLogins = 1, CharlaInv, LoanInv, NEW c \in Clients,
         \A d \in Clients : LoggedOut(d) => LoggedOut(d)',
         \A u \in Threads : u # Service(c) => pc'[u] = pc[u],
         UNCHANGED <<tid, mine, hook, logins>>,
         \A d \in Clients : d # c => job'[d] = job[d] /\ target'[d] = target[d],
         pc'[Service(c)] # "spawn",
         pc'[Service(c)] = "gone" => pc[Box(c)] \in {"none", "done"},
         Addressed(c)'
  PROVE  \A d \in Clients : Begun(d)' /\ HookSet(d)' /\ Addressed(d)'
<1> SUFFICES ASSUME NEW d \in Clients PROVE Begun(d)' /\ HookSet(d)' /\ Addressed(d)'
  OBVIOUS
<1>1. pc'[Box(d)] = pc[Box(d)] /\ (d # c => pc'[Service(d)] = pc[Service(d)])
  BY Ground
<1>2. Begun(d) /\ HookSet(d)
  BY Ground
<1>3. Begun(d)'
  BY <1>1, <1>2 DEF Begun
<1>4. HookSet(d)'
  BY <1>1, <1>2 DEF HookSet
<1>5. d # c => Addressed(d)'
  BY <1>1, AddressedKept
<1> QED
  BY <1>3, <1>4, <1>5

LEMMA RequestBegun ==
  ASSUME MaxLogins = 1, CharlaInv, LoanInv, NEW c \in Clients, Request(c),
         \A d \in Clients : LoggedOut(d) => LoggedOut(d)'
  PROVE  \A d \in Clients : Begun(d)' /\ HookSet(d)' /\ Addressed(d)'
<1> DEFINE t == Service(c)
<1>s. t \in Threads /\ Box(c) \in Mailboxes /\ Box(c) \in Threads
  BY Ground
<1>p. \A u \in Threads : u # t => pc'[u] = pc[u]
  BY RequestFrame
<1>1. CASE Login(c)
  <2>1. /\ logins[c] = 0 /\ logins' = [logins EXCEPT ![c] = 1]
        /\ \E h : hook' = [hook EXCEPT ![Box(c)] = h]
    <3>1. logins[c] + 1 <= 1 /\ logins[c] \in 0..1
      BY <1>1, Ground DEF Login
    <3>2. logins[c] = 0 /\ logins[c] + 1 = 1
      BY <3>1
    <3>3. Box(c) = <<c, logins[c] + 1>>
      BY <3>2 DEF Box
    <3>4. /\ logins' = [logins EXCEPT ![c] = logins[c] + 1]
          /\ M!Create(<<c, logins[c] + 1>>)
      BY <1>1 DEF Login
    <3>5. M!Create(Box(c))
      BY <3>3, <3>4
    <3> QED
      BY <3>2, <3>4, <3>5 DEF M!Create
  <2>2. UNCHANGED <<tid, mine, job, target>> /\ pc' = [pc EXCEPT ![t] = "spawn"]
    BY <1>1 DEF Login, Go, Goto, sendVars
  <2>3. pc[Box(c)] = "none"
    <3>1. Begun(c)
      BY Ground
    <3> QED
      BY <2>1, <3>1 DEF Begun
  <2>4. pc'[t] = "spawn" /\ \A e \in Clients : pc'[Box(e)] = pc[Box(e)]
    BY <1>s, <1>p, <2>2, Ground
  <2>5. ASSUME NEW d \in Clients PROVE Begun(d)' /\ HookSet(d)' /\ Addressed(d)'
    <3>0. Begun(d) /\ HookSet(d)
      BY Ground
    <3>1. /\ d # c => pc'[Service(d)] = pc[Service(d)] /\ hook'[Box(d)] = hook[Box(d)]
          /\ logins[d] = 1 => logins'[d] = 1
      BY <1>p, <2>1, Ground
    <3>2. Begun(d)'
      BY <2>2, <2>3, <2>4, <3>0, <3>1 DEF Begun
    <3>3. HookSet(d)'
      BY <2>2, <2>3, <2>4, <3>0, <3>1 DEF HookSet, Early
    <3>4. \A e \in Clients : logins[e] = 1 => logins'[e] = 1
      BY <2>1, Ground
    <3>5. d = c => Addressed(d)'
      BY <2>4 DEF Addressed, Sending
    <3>6. d # c => Addressed(d)'
      BY <2>2, <3>1, <3>4, AddressedKept
    <3> QED
      BY <3>2, <3>3, <3>5, <3>6
  <2> QED
    BY <2>5
<1>2. CASE HangUp(c) \/ LogoutPacket(c)
  <2>1. /\ UNCHANGED <<tid, mine, hook, logins, job, target>>
        /\ pc' = pc \/ pc' = [pc EXCEPT ![t] = "shutdown"]
        /\ pc' = pc \/ pc[t] = "serve"
    BY <1>2 DEF HangUp, LogoutPacket, Go, Goto, At, boxVars, clientVars, sendVars
  <2>2. CASE pc' = pc
    <3>1. Addressed(c)'
      BY <2>1, <2>2, AddressedKept
    <3>2. Begun(c)
      BY Ground
    <3>3. ASSUME NEW d \in Clients PROVE Begun(d)' /\ HookSet(d)' /\ Addressed(d)'
      <4>1. Begun(d) /\ HookSet(d)
        BY Ground
      <4>2. Begun(d)' /\ HookSet(d)'
        BY <2>1, <2>2, <4>1 DEF Begun, HookSet
      <4> QED
        BY <2>1, <2>2, <4>2, AddressedKept
    <3> QED
      BY <3>3
  <2>3. CASE pc' = [pc EXCEPT ![t] = "shutdown"]
    <3>1. pc'[t] = "shutdown"
      BY <1>s, <2>3, Ground
    <3>2. Addressed(c)'
      BY <3>1 DEF Addressed, Sending
    <3> QED
      BY <1>p, <2>1, <3>1, <3>2, BegunKept
  <2> QED
    BY <2>1, <2>2, <2>3
<1>3. CASE SendPacket(c)
  <2>0. PICK x \in unsent :
          /\ x.from = c
          /\ IF LoggedIn(x.to) /\ ~At(x.to, "gone")
               THEN Go(c, "lookup") /\ job' = [job EXCEPT ![c] = x]
               ELSE UNCHANGED <<pc, job>>
    BY <1>3 DEF SendPacket
  <2>1. UNCHANGED <<tid, mine, hook, logins, target>> /\ pc[t] = "serve"
    BY <1>3 DEF SendPacket, boxVars, clientVars, At
  <2>2. x \in Traffic /\ x.to \in Clients
    BY TrafficOK DEF CharlaInv, Types, SendTypes
  <2>3. CASE UNCHANGED <<pc, job>>
    <3>1. Addressed(c)'
      BY <2>1, <2>3, AddressedKept
    <3> QED
      BY <1>p, <2>1, <2>3, <3>1, BegunKept
  <2>4. CASE /\ pc' = [pc EXCEPT ![t] = "lookup"] /\ job' = [job EXCEPT ![c] = x]
             /\ LoggedIn(x.to)
    <3>1. pc'[t] = "lookup" /\ job'[c] = x /\ \A d \in Clients : d # c => job'[d] = job[d]
      BY <1>s, <2>4, Ground
    <3>2. logins[x.to] = 1
      BY <2>2, <2>4, OwnService
    <3>3. Addressed(c)'
      BY <2>0, <2>1, <3>1, <3>2 DEF Addressed
    <3> QED
      BY <1>p, <2>1, <3>1, <3>3, BegunKept
  <2> QED
    BY <2>0, <2>3, <2>4 DEF Go, Goto
<1> QED
  BY <1>1, <1>2, <1>3 DEF Request

LEMMA ServiceBegun ==
  ASSUME MaxLogins = 1, CharlaInv, LoanInv, NEW c \in Clients, ServiceStep(c),
         \A d \in Clients : LoggedOut(d) => LoggedOut(d)'
  PROVE  \A d \in Clients : Begun(d)' /\ HookSet(d)' /\ Addressed(d)'
<1> DEFINE t == Service(c)
           Goal == \A d \in Clients : Begun(d)' /\ HookSet(d)' /\ Addressed(d)'
<1>s. t \in Threads /\ Box(c) \in Mailboxes /\ Box(c) \in Threads
  BY Ground
<1>w. /\ LoggedIn(c) => logins[c] = 1
      /\ pc[t] \in {"spawn", "lookup", "add", "add_ref"} => LoggedIn(c)
  BY OwnService
<1>k. ASSUME UNCHANGED <<tid, mine, hook, logins, job, target>>,
             NEW l, pc' = [pc EXCEPT ![t] = l], l \notin Sending \cup {"spawn"},
             l = "gone" => pc[Box(c)] \in {"none", "done"}
      PROVE  Goal
  <2>1. pc'[t] = l /\ \A u \in Threads : u # t => pc'[u] = pc[u]
    BY <1>s, <1>k, Ground
  <2>2. Addressed(c)'
    BY <1>k, <2>1 DEF Addressed, Sending
  <2> QED
    BY <1>k, <2>1, <2>2, BegunKept
<1>1. CASE Spawn(c)
  <2>0. pc[t] = "spawn" /\ logins[c] = 1 /\ UNCHANGED <<mine, hook, logins, job, target>>
    BY <1>1, <1>w DEF Spawn, At, boxVars, sendVars
  <2>1. /\ tid' = [tid EXCEPT ![c] = 1]
        /\ pc' = [pc EXCEPT ![t] = "serve", ![Box(c)] = "start"]
    BY <1>1, <2>0 DEF Spawn, Box
  <2>2. \A d \in Clients : /\ pc'[Box(d)] = IF d = c THEN "start" ELSE pc[Box(d)]
                           /\ pc'[Service(d)] = IF d = c THEN "serve" ELSE pc[Service(d)]
                           /\ tid'[d] = IF d = c THEN 1 ELSE tid[d]
    BY <2>1, Ground
  <2>3. pc[Box(c)] = "none" /\ mine[Box(c)] = NoMailbox
    <3>1. Begun(c) /\ HookSet(c)
      BY Ground
    <3> QED
      BY <2>0, <3>1 DEF Begun, HookSet
  <2>4. ASSUME NEW d \in Clients PROVE Begun(d)' /\ HookSet(d)' /\ Addressed(d)'
    <3>1. Begun(d) /\ HookSet(d)
      BY Ground
    <3>2. Begun(d)'
      BY <2>0, <2>2, <3>1 DEF Begun
    <3>3. HookSet(d)'
      BY <2>0, <2>2, <2>3, <3>1 DEF HookSet, Early
    <3>4. d = c => Addressed(d)'
      BY <2>2 DEF Addressed, Sending
    <3>5. d # c => Addressed(d)'
      BY <2>0, <2>2, AddressedKept
    <3> QED
      BY <3>2, <3>3, <3>4, <3>5
  <2> QED
    BY <2>4
<1>2. CASE ReadEOF(c) \/ LogoutShutdown(c) \/ LogoutClear(c)
  <2>1. /\ UNCHANGED <<tid, mine, hook, logins, job, target>>
        /\ \E l \in {"shutdown", "join", "unref", "serve"} : pc' = [pc EXCEPT ![t] = l]
    BY <1>2 DEF ReadEOF, LogoutShutdown, M!Shutdown, LogoutClear, Go, Goto, boxVars, clientVars, sendVars
  <2> QED
    BY <1>k, <2>1 DEF Sending
<1>3. CASE LogoutUnref(c)
  <2>1. /\ UNCHANGED <<tid, mine, hook, logins, job, target>>
        /\ \E l \in {"clear", "discard"} : pc' = [pc EXCEPT ![t] = l]
    BY <1>3 DEF LogoutUnref, M!UnrefSome, M!UnrefLast, Go, Goto, M!Goto, clientVars, sendVars
  <2> QED
    BY <1>k, <2>1 DEF Sending
<1>4. CASE JoinMailboxThread(c)
  <2>1. UNCHANGED <<tid, mine, hook, logins, job, target>> /\ pc' = [pc EXCEPT ![t] = "gone"]
    BY <1>4 DEF JoinMailboxThread, Go, Goto, boxVars, clientVars, sendVars
  <2>2. pc[Box(c)] \in {"none", "done"}
    <3>1. Begun(c)
      BY Ground
    <3>2. tid[c] = 1 => pc[Box(c)] = "done"
      BY <1>4 DEF JoinMailboxThread, Box
    <3> QED
      BY <3>1, <3>2 DEF Begun
  <2> QED
    BY <1>k, <2>1, <2>2 DEF Sending
<1>5. CASE SendLookup(c)
  <2> DEFINE r == job[c].to
  <2>1. /\ UNCHANGED <<tid, mine, hook, logins, job, cstat>> /\ pc[t] = "lookup"
        /\ pc' = [pc EXCEPT ![t] = "add"]
        /\ target' = [target EXCEPT ![c] = IF LoggedIn(r) THEN cbox[r] ELSE NoMailbox]
    BY <1>5 DEF SendLookup, boxVars, clientVars, Go, Goto, At
  <2>2. r \in Clients /\ job[c].from = c /\ logins[r] = 1
    <3>1. Addressed(c)
      BY Ground
    <3> QED
      BY <2>1, <3>1, OwnService DEF Addressed, Sending
  <2>3. LoggedIn(r) => cbox[r] = Box(r)
    BY <2>2, OwnService
  <2>4. ~LoggedIn(r) => LoggedOut(r)'
    <3>1. ~LoggedIn(r) => cstat'[job'[c].to] # "LOGGED_IN" /\ logins'[job'[c].to] > 0
      BY <2>1, <2>2 DEF LoggedIn
    <3> QED
      BY <3>1 DEF LoggedOut, LoggedIn
  <2>5. target'[c] = Box(r) \/ LoggedOut(r)'
    BY <2>1, <2>3, <2>4, Ground
  <2>6. /\ pc'[t] = "add" /\ (\A u \in Threads : u # t => pc'[u] = pc[u])
        /\ \A d \in Clients : d # c => target'[d] = target[d]
    BY <1>s, <2>1, Ground
  <2>7. Addressed(c)'
    BY <2>1, <2>2, <2>5, <2>6 DEF Addressed, LoggedOut, LoggedIn, Service
  <2> QED
    BY <2>1, <2>6, <2>7, BegunKept
<1>6. CASE SendToSelf(c) \/ SendEnqueue(c)
  <2>1. /\ UNCHANGED <<tid, mine, hook, logins, job, target>>
        /\ pc' = [pc EXCEPT ![t] = "serve"]
    BY <1>6 DEF SendToSelf, M!AddOwnMessage, SendEnqueue, M!AddMessageRef, Go, Goto, M!Goto, clientVars
  <2> QED
    BY <1>k, <2>1 DEF Sending
<1>7. CASE SendLock(c)
  <2>1. /\ UNCHANGED <<tid, mine, hook, logins, job, target>> /\ pc[t] = "add"
        /\ pc' = [pc EXCEPT ![t] = "add_ref"]
    BY <1>7 DEF SendLock, M!AddMessageLock, M!Goto, At, clientVars, sendVars
  <2>2. pc'[t] = "add_ref" /\ \A u \in Threads : u # t => pc'[u] = pc[u]
    BY <1>s, <2>1, Ground
  <2>3. Addressed(c)'
    <3>1. Addressed(c)
      BY Ground
    <3> QED
      BY <2>1, <2>2, <3>1 DEF Addressed, Sending
  <2> QED
    BY <2>1, <2>2, <2>3, BegunKept
<1>8. CASE Discard(t)
  <2>1. /\ UNCHANGED <<tid, mine, hook, logins, job, target>> /\ pc[t] \in {"discard", "next_discard"}
        /\ pc' = pc \/ pc' = [pc EXCEPT ![t] = AfterDiscard(t)]
    BY <1>8 DEF Discard, M!DiscardToHook, M!DiscardUnhooked, M!DiscardDone, M!Hooked, M!Discarding,
                M!Goto, clientVars, sendVars
  <2>2. pc[t] = "discard" /\ AfterDiscard(t) = "clear"
    <3>1. t[2] = 0 /\ pc[t] = "discard"
      BY <2>1, OneBox, OwnService DEF ServiceLabels
    <3> QED
      BY <3>1 DEF AfterDiscard
  <2>3. \E l \in {"discard", "clear"} : pc' = [pc EXCEPT ![t] = l]
    BY <2>1, <2>2, Ground
  <2> QED
    BY <1>k, <2>1, <2>3 DEF Sending
<1> QED
  BY <1>1, <1>2, <1>3, <1>4, <1>5, <1>6, <1>7, <1>8 DEF ServiceStep

(* Senders.  What a message says of its sender stays true, and a step adds  *)
(* only messages of which it is.                                            *)
FromsIn(s) == \A i \in DOMAIN s : FromOK(s[i])

LEMMA FromsKeep ==
  ASSUME MaxLogins = 1, CharlaInv, LoanInv,
         logins' = logins \/ (\E c \in Clients : logins' = [logins EXCEPT ![c] = 1]),
         \A m \in Mailboxes : FromsIn(box'[m]),
         \A t \in Threads : FromOK(entry'[t]) /\ FromsIn(todo'[t])
  PROVE  Froms'
<1>1. \A d \in Clients : logins[d] = 1 => logins'[d] = 1
  BY Ground
<1>2. ASSUME NEW e, FromOK(e) PROVE FromOK(e)'
  BY <1>1, <1>2, TrafficOK DEF FromOK
<1>3. ASSUME NEW m \in Mailboxes, NEW i \in DOMAIN box'[m] PROVE FromOK(box[m][i])'
  <2>1. FromOK(box'[m][i])
    BY DEF FromsIn
  <2> QED
    BY <1>1, <2>1, TrafficOK DEF FromOK
<1>4. ASSUME NEW t \in Threads PROVE FromOK(entry[t])'
  <2>1. FromOK(entry'[t])
    OBVIOUS
  <2> QED
    BY <1>1, <2>1, TrafficOK DEF FromOK
<1>5. ASSUME NEW t \in Threads, NEW i \in DOMAIN todo'[t] PROVE FromOK(todo[t][i])'
  <2>1. FromOK(todo'[t][i])
    BY DEF FromsIn
  <2> QED
    BY <1>1, <2>1, TrafficOK DEF FromOK
<1> QED
  BY <1>3, <1>4, <1>5 DEF Froms

LEMMA FromsGround ==
  ASSUME LoanInv
  PROVE  /\ \A m \in Mailboxes : FromsIn(box[m])
         /\ \A t \in Threads : FromOK(entry[t]) /\ FromsIn(todo[t])
BY DEF LoanInv, Froms, FromsIn

(* The ends of sequences, and what is no message.                           *)
LEMMA FromsEnds ==
  /\ \A s \in Seq(M!Entry), e \in M!Entry : FromsIn(s) /\ FromOK(e) => FromsIn(Append(s, e))
  /\ \A s \in Seq(M!Entry) : FromsIn(s) /\ s # << >> => FromsIn(Tail(s)) /\ FromOK(Head(s))
  /\ FromOK(M!NULL)
  /\ \A id, k : FromOK([type |-> "notice", id |-> id, kind |-> k])
<1>1. ASSUME NEW s \in Seq(M!Entry), NEW e \in M!Entry, FromsIn(s), FromOK(e)
      PROVE  FromsIn(Append(s, e))
  <2> DEFINE r == Append(s, e)
  <2>1. \A i \in DOMAIN r : (i \in DOMAIN s /\ r[i] = s[i]) \/ (i = Len(s) + 1 /\ r[i] = e)
    BY AppendAt
  <2> HIDE DEF r
  <2>2. FromsIn(r)
    BY <1>1, <2>1 DEF FromsIn
  <2> QED
    BY <2>2 DEF r
<1>2. ASSUME NEW s \in Seq(M!Entry), FromsIn(s), s # << >>
      PROVE  FromsIn(Tail(s)) /\ FromOK(Head(s))
  <2> DEFINE r == Tail(s)
  <2>1. /\ \A i \in DOMAIN r : i + 1 \in DOMAIN s /\ r[i] = s[i + 1]
        /\ 1 \in DOMAIN s /\ Head(s) = s[1]
    BY <1>2, TailAt
  <2> HIDE DEF r
  <2>2. FromsIn(r) /\ FromOK(Head(s))
    BY <1>2, <2>1 DEF FromsIn
  <2> QED
    BY <2>2 DEF r
<1>3. FromOK(M!NULL) /\ \A id, k : FromOK([type |-> "notice", id |-> id, kind |-> k])
  BY Entries DEF FromOK, M!IsMessage
<1> QED
  BY <1>1, <1>2, <1>3

(* An entry is queued.                                                      *)
LEMMA FromsPut ==
  ASSUME LoanInv, CharlaInv, NEW m \in Mailboxes, NEW e \in M!Entry, FromOK(e), M!Enqueue(m, e)
  PROVE  \A y \in Mailboxes : FromsIn(box'[y])
<1>1. box[m] \in Seq(M!Entry) /\ \A y \in Mailboxes : box'[y] = IF y = m THEN Append(box[m], e) ELSE box[y]
  BY BoxEnqueue DEF CharlaInv, Types, BoxTypes
<1>2. FromsIn(Append(box[m], e)) /\ \A y \in Mailboxes : FromsIn(box[y])
  BY <1>1, FromsGround, FromsEnds
<1> QED
  BY <1>1, <1>2

LEMMA FromsFinalise ==
  ASSUME LoanInv, CharlaInv, NEW m \in Mailboxes, NEW t \in Threads, M!UnrefLast(t, m)
  PROVE  /\ \A y \in Mailboxes : FromsIn(box'[y])
         /\ \A u \in Threads : FromOK(entry'[u]) /\ FromsIn(todo'[u])
<1>1. box' = box /\ entry' = entry /\ todo' = [todo EXCEPT ![t] = box[m]]
  BY DEF M!UnrefLast, M!Finalise
<1>2. todo \in [Threads -> Seq(M!Entry)]
  BY DEF CharlaInv, Types, CallTypes
<1> QED
  BY <1>1, <1>2, FromsGround

(* The message that a service thread makes.                                 *)
LEMMA FromsMade ==
  ASSUME MaxLogins = 1, CharlaInv, LoanInv, NEW c \in Clients, pc[Service(c)] \in Sending
  PROVE  /\ job[c] \in Traffic /\ job[c].from = c /\ job[c].id \in Ids
         /\ LoggedIn(c) /\ cbox[c] = Box(c) /\ logins[c] = 1
         /\ FromOK([type |-> "message", id |-> job[c].id, from |-> cbox[c]])
<1>1. job[c] \in Traffic /\ job[c].from = c
  BY Ground DEF Addressed, CharlaInv, Routes, ServiceOK
<1>2. LoggedIn(c) /\ logins[c] # 0 /\ cbox[c] = <<c, logins[c]>>
  BY DEF CharlaInv, Routes, ServiceOK, Types, ClientTypes, Sending
<1>3. logins[c] = 1
  BY <1>2, Ground
<1>4. cbox[c] = Box(c)
  BY <1>2, <1>3 DEF Box
<1> QED
  BY <1>1, <1>2, <1>3, <1>4 DEF FromOK, Ids

LEMMA DiscardFroms ==
  ASSUME MaxLogins = 1, CharlaInv, LoanInv, NEW t \in Threads, Discard(t)
  PROVE  Froms'
<1>1. logins' = logins /\ entry' = entry
  BY DEF Discard, M!DiscardToHook, M!DiscardUnhooked, M!DiscardDone, clientVars
<1>2. todo \in [Threads -> Seq(M!Entry)] /\ box \in [Mailboxes -> Seq(M!Entry)]
  BY DEF CharlaInv, Types, CallTypes, BoxTypes
<1>3. todo' = todo \/ (todo[t] # << >> /\ todo' = [todo EXCEPT ![t] = Tail(todo[t])])
  <2>1. CASE M!DiscardToHook(t)
    BY <1>2, <2>1 DEF M!DiscardToHook, M!Hooked
  <2>2. CASE M!DiscardUnhooked(t)
    BY <1>2, <2>2 DEF M!DiscardUnhooked
  <2>3. CASE M!DiscardDone(t, AfterDiscard(t))
    BY <2>3 DEF M!DiscardDone
  <2> QED
    BY <2>1, <2>2, <2>3 DEF Discard
<1>4. \A u \in Threads : FromOK(entry'[u]) /\ FromsIn(todo'[u])
  BY <1>1, <1>2, <1>3, FromsGround, FromsEnds
<1>5. \A m \in Mailboxes : FromsIn(box'[m])
  <2>1. CASE box' = box
    BY <2>1, FromsGround
  <2>2. CASE M!DiscardToHook(t)
    <3> DEFINE e == [type |-> "notice", id |-> M!NoMsgId, kind |-> "BOUNCE"]
               from == Head(todo[t]).from
    <3>1. todo[t] # << >> /\ M!IsMessage(Head(todo[t])) /\ M!Enqueue(from, e)
      BY <2>2 DEF M!DiscardToHook, M!Hooked, M!HoldsRef
    <3>2. Head(todo[t]) \in M!Entry
      BY <1>2, <3>1
    <3>3. from \in Mailboxes
      BY <3>1, <3>2, Entries
    <3>4. e \in M!Entry /\ FromOK(e)
      BY Made, FromsEnds DEF M!NoMsgId
    <3> HIDE DEF e, from
    <3> QED
      BY <3>1, <3>3, <3>4, FromsPut
  <2> QED
    BY <2>1, <2>2 DEF Discard, M!DiscardUnhooked, M!DiscardDone
<1> QED
  BY <1>1, <1>4, <1>5, FromsKeep

LEMMA RequestFroms ==
  ASSUME MaxLogins = 1, CharlaInv, LoanInv, NEW c \in Clients, Request(c)
  PROVE  Froms'
<1>1. UNCHANGED <<box, entry, todo>>
  BY DEF Request, HangUp, Login, LogoutPacket, SendPacket, M!Create, boxVars, callVars
<1>2. logins' = logins \/ logins' = [logins EXCEPT ![c] = 1]
  <2>1. CASE Login(c)
    <3>1. logins[c] + 1 <= 1 /\ logins[c] \in 0..1 /\ logins' = [logins EXCEPT ![c] = logins[c] + 1]
      BY <2>1, Ground DEF Login
    <3>2. logins[c] + 1 = 1
      BY <3>1
    <3> QED
      BY <3>1, <3>2
  <2> QED
    BY <2>1 DEF Request, HangUp, LogoutPacket, SendPacket, clientVars
<1> QED
  BY <1>1, <1>2, FromsGround, FromsKeep

LEMMA ServiceFroms ==
  ASSUME MaxLogins = 1, CharlaInv, LoanInv, NEW c \in Clients, ServiceStep(c)
  PROVE  Froms'
<1> DEFINE t == Service(c)
<1>s. t \in Threads
  BY Ground
<1>t. entry \in [Threads -> M!Entry \cup {M!NULL}]
  BY DEF CharlaInv, Types, CallTypes
<1>l. ~Discard(t) => logins' = logins
  BY DEF ServiceStep, Spawn, ReadEOF, LogoutShutdown, LogoutUnref, LogoutClear, JoinMailboxThread,
         SendLookup, SendToSelf, SendLock, SendEnqueue, clientVars
<1>1. CASE Spawn(c) \/ ReadEOF(c) \/ LogoutShutdown(c) \/ LogoutClear(c) \/ JoinMailboxThread(c)
            \/ SendLookup(c)
  <2>1. UNCHANGED <<box, entry, todo, logins>>
    BY <1>1 DEF Spawn, ReadEOF, LogoutShutdown, M!Shutdown, LogoutClear, JoinMailboxThread,
                SendLookup, boxVars, callVars, clientVars
  <2> QED
    BY <2>1, FromsGround, FromsKeep
<1>2. CASE LogoutUnref(c)
  <2>0. logins' = logins
    BY <1>2 DEF LogoutUnref, clientVars
  <2>1. CASE M!UnrefSome(cbox[c]) /\ Go(c, "clear") /\ UNCHANGED callVars
    <3>1. UNCHANGED <<box, entry, todo>>
      BY <2>1 DEF M!UnrefSome, callVars
    <3> QED
      BY <2>0, <3>1, FromsGround, FromsKeep
  <2>2. CASE M!UnrefLast(t, cbox[c])
    <3>1. pc[t] = "unref"
      BY <1>2 DEF LogoutUnref, At
    <3>2. cbox[c] \in Mailboxes
      BY <3>1, OwnBox DEF CharlaInv, Routes, ServiceOK
    <3> QED
      BY <1>s, <2>0, <2>2, <3>2, FromsFinalise, FromsKeep
  <2> QED
    BY <1>2, <2>1, <2>2 DEF LogoutUnref
<1>3. CASE SendToSelf(c)
  <2> DEFINE e == [type |-> "message", id |-> job[c].id, from |-> cbox[c]]
  <2>1. pc[t] \in Sending /\ UNCHANGED <<entry, todo, logins>> /\ M!Enqueue(cbox[c], e)
    BY <1>3 DEF SendToSelf, M!AddOwnMessage, At, Sending, callVars, clientVars
  <2>2. FromOK(e) /\ cbox[c] \in Mailboxes /\ e \in M!Entry
    BY <2>1, FromsMade, Ground, Made, Entries
  <2> HIDE DEF e
  <2> QED
    BY <2>1, <2>2, FromsGround, FromsPut, FromsKeep
<1>4. CASE SendLock(c)
  <2> DEFINE e == [type |-> "message", id |-> job[c].id, from |-> cbox[c]]
  <2>1. /\ pc[t] \in Sending /\ UNCHANGED <<box, todo, logins>>
        /\ entry' = [entry EXCEPT ![t] = e]
    BY <1>4 DEF SendLock, M!AddMessageLock, At, Sending, clientVars
  <2>2. FromOK(e)
    BY <2>1, FromsMade
  <2> HIDE DEF e
  <2>3. \A u \in Threads : FromOK(entry'[u])
    BY <1>t, <2>1, <2>2, FromsGround
  <2> QED
    BY <2>1, <2>3, FromsGround, FromsKeep
<1>5. CASE SendEnqueue(c)
  <2>1. /\ pc[t] = "add_ref" /\ UNCHANGED <<todo, logins>> /\ M!Enqueue(mb[t], entry[t])
        /\ entry' = [entry EXCEPT ![t] = M!NULL]
    BY <1>5 DEF SendEnqueue, M!AddMessageRef, clientVars
  <2>2. mb[t] \in Mailboxes /\ entry[t] \in M!Entry
    <3>1. /\ mb[t] \in Mailboxes
          /\ entry[t] = [type |-> "message", id |-> job[c].id, from |-> cbox[c]]
      BY <2>1 DEF CharlaInv, Routes, ServiceOK
    <3>0. pc[t] \in Sending
      BY <2>1 DEF Sending
    <3>3. job[c].id \in Ids /\ cbox[c] = Box(c)
      BY <3>0, FromsMade
    <3>4. Box(c) \in Mailboxes
      BY Ground
    <3>2. job[c].id \in Ids /\ cbox[c] \in Mailboxes
      BY <3>3, <3>4
    <3> QED
      BY <3>1, <3>2, Made, Entries
  <2>3. \A u \in Threads : FromOK(entry'[u])
    BY <1>t, <2>1, FromsGround, FromsEnds
  <2>4. \A m \in Mailboxes : FromsIn(box'[m])
    BY <1>s, <2>1, <2>2, FromsGround, FromsPut
  <2> QED
    BY <2>1, <2>3, <2>4, FromsGround, FromsKeep
<1>6. CASE Discard(t)
  BY <1>s, <1>6, DiscardFroms
<1> QED
  BY <1>1, <1>2, <1>3, <1>4, <1>5, <1>6 DEF ServiceStep

LEMMA ThreadFroms ==
  ASSUME MaxLogins = 1, CharlaInv, LoanInv, NEW t \in MailboxThreads, MailboxStep(t)
  PROVE  Froms'
<1>s. t \in Threads /\ t \in Mailboxes
  BY OneBox
<1>t. /\ entry \in [Threads -> M!Entry \cup {M!NULL}] /\ box \in [Mailboxes -> Seq(M!Entry)]
      /\ todo \in [Threads -> Seq(M!Entry)]
  BY DEF CharlaInv, Types, CallTypes, BoxTypes
<1>o. /\ pc[t] \notin {"none", "start", "field", "ref", "discard", "done"} => mine[t] \in Mailboxes
      /\ pc[t] = "next_lock" => mb[t] \in Mailboxes
      /\ pc[t] \in {"rrcpt", "bounce"} => entry[t] \in M!Message
  BY DEF CharlaInv, Routes, ThreadOK
<1>1. CASE ThreadStart(t) \/ ThreadField(t) \/ ThreadRef(t) \/ ThreadGet(t) \/ ThreadHook(t)
            \/ ThreadSend(t)
  <2>1. UNCHANGED <<box, entry, todo, logins>>
    BY <1>1 DEF ThreadStart, ThreadField, ThreadRef, M!Ref, ThreadGet, ThreadHook, M!SetDiscardHook,
                ThreadSend,
                boxVars, callVars, clientVars
  <2> QED
    BY <2>1, FromsGround, FromsKeep
<1>2. CASE ThreadWait(t)
  <2>1. UNCHANGED <<box, todo, logins>> /\ entry' = [entry EXCEPT ![t] = M!NULL]
    BY <1>2 DEF ThreadWait, M!SemWait, clientVars
  <2>2. \A u \in Threads : FromOK(entry'[u])
    BY <1>t, <2>1, FromsGround, FromsEnds
  <2> QED
    BY <2>1, <2>2, FromsGround, FromsKeep
<1>3. CASE ThreadNext(t)
  <2>0. logins' = logins
    BY <1>3 DEF ThreadNext, clientVars
  <2>1. CASE M!NextRemove(t, "got")
    <3>1. /\ box[mb[t]] # << >> /\ todo' = todo /\ pc[t] = "next_lock"
          /\ box' = [box EXCEPT ![mb[t]] = Tail(@)]
          /\ entry' = [entry EXCEPT ![t] = Head(box[mb[t]])]
      BY <2>1 DEF M!NextRemove
    <3>2. mb[t] \in Mailboxes
      BY <1>o, <3>1
    <3>3. FromsIn(Tail(box[mb[t]])) /\ FromOK(Head(box[mb[t]]))
      BY <1>t, <3>1, <3>2, FromsGround, FromsEnds
    <3>4. \A u \in Threads : FromOK(entry'[u])
      BY <1>t, <3>1, <3>3, FromsGround
    <3>5. \A m \in Mailboxes : FromsIn(box'[m])
      BY <1>t, <3>1, <3>2, <3>3, FromsGround
    <3> QED
      BY <2>0, <3>1, <3>4, <3>5, FromsGround, FromsKeep
  <2>2. CASE M!NextDefunct(t, "quit") \/ M!NextUnrefSome(t, "got")
    <3>1. UNCHANGED <<box, entry, todo>>
      BY <2>2 DEF M!NextDefunct, M!NextUnrefSome, M!boxVars
    <3> QED
      BY <2>0, <3>1, FromsGround, FromsKeep
  <2>3. CASE M!NextUnrefLast(t)
    <3>1. UNCHANGED <<box, entry>> /\ todo' = [todo EXCEPT ![t] = box[entry[t].from]]
      BY <2>3 DEF M!NextUnrefLast, M!Finalise
    <3>2. entry[t].from \in Mailboxes
      BY <2>3, OwnThread DEF M!NextUnrefLast
    <3>3. \A u \in Threads : FromsIn(todo'[u])
      BY <1>t, <3>1, <3>2, FromsGround
    <3> QED
      BY <2>0, <3>1, <3>3, FromsGround, FromsKeep
  <2> QED
    BY <1>3, <2>1, <2>2, <2>3 DEF ThreadNext
<1>4. CASE ThreadNotify(t)
  <2>1. PICK k \in {"RRCPT", "BOUNCE"} :
          pc[t] \in {"rrcpt", "bounce"} /\ M!AddNotice(entry[t].from, k, entry[t].id)
    BY <1>4 DEF ThreadNotify
  <2> DEFINE e == [type |-> "notice", id |-> entry[t].id, kind |-> k]
  <2>2. entry[t].id \in Ids /\ entry[t].from \in Mailboxes
    BY <1>o, <2>1, Entries
  <2>3. e \in M!Entry /\ FromOK(e)
    BY <2>2, Made, FromsEnds
  <2>4. M!Enqueue(entry[t].from, e) /\ UNCHANGED <<entry, todo, logins>>
    BY <1>4, <2>1 DEF ThreadNotify, M!AddNotice, callVars, clientVars
  <2> HIDE DEF e
  <2>5. \A m \in Mailboxes : FromsIn(box'[m])
    BY <2>2, <2>3, <2>4, FromsPut
  <2> QED
    BY <2>4, <2>5, FromsGround, FromsKeep
<1>5. CASE ThreadQuit(t)
  <2>0. logins' = logins /\ pc[t] = "quit"
    BY <1>5 DEF ThreadQuit, clientVars
  <2>1. CASE M!UnrefSome(mine[t]) /\ Goto(t, "done") /\ UNCHANGED callVars
    <3>1. UNCHANGED <<box, entry, todo>>
      BY <2>1 DEF M!UnrefSome, callVars
    <3> QED
      BY <2>0, <3>1, FromsGround, FromsKeep
  <2>2. CASE M!UnrefLast(t, mine[t])
    BY <1>s, <1>o, <2>0, <2>2, FromsFinalise, FromsKeep
  <2> QED
    BY <1>5, <2>1, <2>2 DEF ThreadQuit
<1>6. CASE Discard(t)
  BY <1>s, <1>6, DiscardFroms
<1> QED
  BY <1>1, <1>2, <1>3, <1>4, <1>5, <1>6 DEF MailboxStep

-----------------------------------------------------------------------------
(* References.  Only so many messages can be pinned.                        *)
LEMMA PinsFinite ==
  ASSUME NEW c
  PROVE  /\ Pins(c) \subseteq Traffic /\ IsFiniteSet(Pins(c)) /\ Cardinality(Pins(c)) \in Nat
         /\ Pins(c)' \subseteq Traffic /\ IsFiniteSet(Pins(c)') /\ Cardinality(Pins(c)') \in Nat
<1>1. Pins(c) \subseteq Traffic /\ Pins(c)' \subseteq Traffic
  BY DEF Pins
<1> QED
  BY <1>1, TrafficFinite, FS_Subset, FS_CardinalityType

(* A mailbox that a client still has is live.                               *)
LEMMA OwnLive ==
  ASSUME MaxLogins = 1, CharlaInv, LoanInv, NEW c \in Clients
  PROVE  /\ rc[Box(c)] \in Nat /\ OwnRef(c) \in {0, 1} /\ ThreadRefs(c) \in {0, 1}
         /\ OwnRef(c) = 1 \/ ThreadRefs(c) = 1 => life[Box(c)] = "live"
<1>1. rc[Box(c)] \in Nat /\ Cardinality(Pins(c)) \in Nat
  BY OneBox, PinsFinite DEF CharlaInv, Types, BoxTypes
<1>2. OwnRef(c) \in {0, 1} /\ ThreadRefs(c) \in {0, 1}
  BY DEF OwnRef, ThreadRefs
<1>3. Counted(c)
  BY DEF LoanInv
<1> QED
  BY <1>1, <1>2, <1>3 DEF Counted

(* References.  A step that gives up no more of them than it takes off the  *)
(* count.                                                                   *)
LEMMA CountedKeep ==
  ASSUME MaxLogins = 1, CharlaInv, LoanInv, NEW d \in Clients, NEW k \in Int,
         rc'[Box(d)] \in Nat, rc'[Box(d)] = rc[Box(d)] + k,
         OwnRef(d)' + ThreadRefs(d)' <= OwnRef(d) + ThreadRefs(d) + k,
         Pins(d)' \subseteq Pins(d), rc'[Box(d)] > 0 => life'[Box(d)] = "live"
  PROVE  Counted(d)'
<1>1. /\ Cardinality(Pins(d)) \in Nat /\ Cardinality(Pins(d)') \in Nat /\ IsFiniteSet(Pins(d))
  BY PinsFinite
<1>2. Cardinality(Pins(d)') <= Cardinality(Pins(d))
  BY <1>1, FS_Subset
<1>3. OwnRef(d) \in Nat /\ ThreadRefs(d) \in Nat /\ OwnRef(d)' \in Nat /\ ThreadRefs(d)' \in Nat
  BY DEF OwnRef, ThreadRefs
<1>4. rc[Box(d)] >= OwnRef(d) + ThreadRefs(d) + Cardinality(Pins(d)) /\ rc[Box(d)] \in Nat
  BY OwnLive DEF LoanInv, Counted
<1>5. rc'[Box(d)] >= OwnRef(d)' + ThreadRefs(d)' + Cardinality(Pins(d)')
  BY <1>1, <1>2, <1>3, <1>4
<1> QED
  BY <1>5 DEF Counted

(* The same when a reference goes that was the last one, or was not.        *)
LEMMA CountedUnref ==
  ASSUME MaxLogins = 1, CharlaInv, LoanInv, NEW d \in Clients, NEW t \in Threads, NEW m \in Mailboxes,
         M!UnrefSome(m) \/ M!UnrefLast(t, m),
         OwnRef(d)' + ThreadRefs(d)' <= OwnRef(d) + ThreadRefs(d) - (IF m = Box(d) THEN 1 ELSE 0),
         Pins(d)' \subseteq Pins(d)
  PROVE  Counted(d)'
<1>1. rc \in [Mailboxes -> Nat] /\ Box(d) \in Mailboxes /\ Counted(d)
  BY Ground DEF LoanInv
<1>2. life \in [Mailboxes -> {"unborn", "live", "freed"}]
  BY Ground
<1>3. /\ rc[m] >= 1 /\ rc' = [rc EXCEPT ![m] = rc[m] - 1]
      /\ \/ rc[m] > 1 /\ life' = life /\ life[m] = "live"
         \/ rc[m] = 1 /\ life' = [life EXCEPT ![m] = "freed"]
  BY <1>1 DEF M!UnrefSome, M!UnrefLast, M!Finalise, M!Unlocked
<1>4. CASE m = Box(d)
  <2>1. rc'[Box(d)] = rc[Box(d)] - 1 /\ rc'[Box(d)] \in Nat
    BY <1>1, <1>3, <1>4
  <2>2. rc'[Box(d)] > 0 => life'[Box(d)] = "live"
    BY <1>1, <1>3, <1>4, <2>1
  <2>3. OwnRef(d)' + ThreadRefs(d)' <= OwnRef(d) + ThreadRefs(d) + (-1)
    BY <1>4 DEF OwnRef, ThreadRefs
  <2>4. rc'[Box(d)] = rc[Box(d)] + (-1)
    BY <1>1, <2>1
  <2> QED
    BY <2>1, <2>2, <2>3, <2>4, CountedKeep
<1>5. CASE m # Box(d)
  <2>1. rc'[Box(d)] = rc[Box(d)] + 0 /\ rc'[Box(d)] \in Nat /\ life'[Box(d)] = life[Box(d)]
    BY <1>1, <1>2, <1>3, <1>5
  <2>2. rc'[Box(d)] > 0 => life'[Box(d)] = "live"
    BY <1>1, <2>1 DEF Counted
  <2>3. OwnRef(d)' + ThreadRefs(d)' <= OwnRef(d) + ThreadRefs(d) + 0
    BY <1>5 DEF OwnRef, ThreadRefs
  <2> QED
    BY <2>1, <2>2, <2>3, CountedKeep
<1> QED
  BY <1>4, <1>5

(* A step that counts nothing.                                              *)
LEMMA CountedSame ==
  ASSUME MaxLogins = 1, CharlaInv, LoanInv, NEW d \in Clients, UNCHANGED <<rc, life>>,
         OwnRef(d)' <= OwnRef(d), ThreadRefs(d)' <= ThreadRefs(d), Pins(d)' \subseteq Pins(d)
  PROVE  Counted(d)'
<1>1. rc \in [Mailboxes -> Nat] /\ Box(d) \in Mailboxes /\ Counted(d)
  BY Ground DEF LoanInv
<1>2. PICK k \in Int : k = 0
  OBVIOUS
<1>3. rc'[Box(d)] = rc[Box(d)] + k /\ rc'[Box(d)] \in Nat
  BY <1>1, <1>2
<1>4. rc'[Box(d)] > 0 => life'[Box(d)] = "live"
  BY <1>1 DEF Counted
<1>5. OwnRef(d)' + ThreadRefs(d)' <= OwnRef(d) + ThreadRefs(d) + k
  BY <1>2 DEF OwnRef, ThreadRefs
<1> QED
  BY <1>3, <1>4, <1>5, CountedKeep

(* A message that is pinned was pinned before the step, or it waits in a    *)
(* mailbox or is in hand after it: what comes to be discarded waited.       *)
LEMMA PinnedBefore ==
  ASSUME MaxLogins = 1, CharlaInv, LoanInv, NEW t \in Threads, Frame(t), NEW x \in Traffic, Pinned(x)'
  PROVE  \/ Pinned(x)
         \/ x.from # x.to /\ \E i \in Nat : Queued(x, Box(x.to), i)'
         \/ InHandOf(x, Box(x.to))'
<1> SUFFICES ASSUME x.from # x.to, NEW u \in Threads, NEW i \in Nat, DoomedAt(x, u, i)'
             PROVE  Pinned(x)
  BY DEF Pinned
<1>0. /\ i \in DOMAIN todo'[u] /\ M!IsMessage(todo'[u][i]) /\ todo'[u][i].id = x.id
      /\ todo[t] \in Seq(M!Entry)
  BY DEF DoomedAt, M!IsMessage, CharlaInv, Types, CallTypes
<1>1. CASE todo'[u] = todo[u]
  <2>1. DoomedAt(x, u, i)
    BY <1>0, <1>1 DEF DoomedAt
  <2> QED
    BY <2>1 DEF Pinned
<1>2. CASE u = t /\ todo[t] # << >> /\ todo'[t] = Tail(todo[t])
  <2>1. i + 1 \in DOMAIN todo[t] /\ todo'[t][i] = todo[t][i + 1]
    BY <1>0, <1>2, TailAt
  <2>2. DoomedAt(x, t, i + 1)
    BY <1>0, <1>2, <2>1 DEF DoomedAt
  <2> QED
    BY <2>2 DEF Pinned
<1>3. ASSUME u = t, NEW m \in Mailboxes, life[m] = "live", todo'[t] = box[m] PROVE Pinned(x)
  <2>1. i \in DOMAIN box[m] /\ M!IsMessage(box[m][i]) /\ box[m][i].id = x.id
    BY <1>0, <1>3
  <2>2. For(box[m][i], m[1])
    BY <2>1 DEF CharlaInv, Routes, BoxOK
  <2>3. m = Box(x.to)
    BY <2>1, <2>2, Ground DEF For
  <2>4. Queued(x, Box(x.to), i)
    BY <1>3, <2>1, <2>3 DEF Queued
  <2> QED
    BY <2>4 DEF Pinned
<1> QED
  BY <1>1, <1>2, <1>3 DEF Frame, OthersKept, TodoKept

(* Steps that bring no message into a mailbox or a hand.                    *)
LEMMA PinsCalm ==
  ASSUME MaxLogins = 1, CharlaInv, LoanInv, NEW t \in Threads, Frame(t),
         \A m \in Mailboxes : life'[m] = "live" =>
           box'[m] = box[m] /\ (life[m] = "live" \/ box[m] = << >>),
         \A u \in MailboxThreads : pc'[u] = "next_unref" =>
           pc[u] = "next_unref" /\ entry'[u] = entry[u]
  PROVE  \A d \in Clients : Pins(d)' \subseteq Pins(d)
<1> SUFFICES ASSUME NEW x \in Traffic, Pinned(x)' PROVE Pinned(x)
  BY DEF Pins
<1>1. Box(x.to) \in Mailboxes /\ Box(x.to) \in MailboxThreads
  BY OneBox, TrafficOK
<1>2. ASSUME NEW i \in Nat, Queued(x, Box(x.to), i)' PROVE Queued(x, Box(x.to), i)
  BY <1>1, <1>2 DEF Queued
<1>3. InHandOf(x, Box(x.to))' => InHandOf(x, Box(x.to))
  BY <1>1 DEF InHandOf
<1>4. Pinned(x) \/ (x.from # x.to /\ \E i \in Nat : Queued(x, Box(x.to), i)') \/ InHandOf(x, Box(x.to))'
  BY PinnedBefore
<1> QED
  BY <1>2, <1>3, <1>4 DEF Pinned

LEMMA PinsPut ==
  ASSUME MaxLogins = 1, CharlaInv, LoanInv, NEW t \in Threads, Frame(t),
         NEW m \in Mailboxes, NEW e \in M!Entry, M!Enqueue(m, e), life' = life,
         \A x \in Traffic : M!IsMessage(e) /\ e.id = x.id => x.from = x.to \/ m # Box(x.to),
         \A u \in MailboxThreads : pc'[u] = "next_unref" =>
           pc[u] = "next_unref" /\ entry'[u] = entry[u]
  PROVE  \A d \in Clients : Pins(d)' \subseteq Pins(d)
<1> SUFFICES ASSUME NEW x \in Traffic, Pinned(x)' PROVE Pinned(x)
  BY DEF Pins
<1>1. Box(x.to) \in Mailboxes /\ Box(x.to) \in MailboxThreads
  BY OneBox, TrafficOK
<1>2. ASSUME NEW i \in Nat, Queued(x, Box(x.to), i)', x.from # x.to
      PROVE  Queued(x, Box(x.to), i)
  BY <1>1, <1>2, QueuedAfter DEF CharlaInv
<1>3. InHandOf(x, Box(x.to))' => InHandOf(x, Box(x.to))
  BY <1>1 DEF InHandOf
<1>4. Pinned(x) \/ (x.from # x.to /\ \E i \in Nat : Queued(x, Box(x.to), i)') \/ InHandOf(x, Box(x.to))'
  BY PinnedBefore
<1> QED
  BY <1>2, <1>3, <1>4 DEF Pinned

(* Whose references a thread can change.                                    *)
LEMMA RefsService ==
  ASSUME MaxLogins = 1, NEW c \in Clients,
         \A u \in Threads : u # Service(c) => pc'[u] = pc[u],
         \A d \in Clients : d # c => cstat'[d] = cstat[d]
  PROVE  \A d \in Clients : /\ ThreadRefs(d)' = ThreadRefs(d)
                            /\ d # c => OwnRef(d)' = OwnRef(d)
<1> SUFFICES ASSUME NEW d \in Clients
             PROVE  ThreadRefs(d)' = ThreadRefs(d) /\ (d # c => OwnRef(d)' = OwnRef(d))
  OBVIOUS
<1>1. pc'[Box(d)] = pc[Box(d)] /\ (d # c => pc'[Service(d)] = pc[Service(d)])
  BY OneBox
<1> QED
  BY <1>1 DEF ThreadRefs, OwnRef, LoggedIn

LEMMA RefsThread ==
  ASSUME MaxLogins = 1, NEW t \in MailboxThreads,
         \A u \in Threads : u # t => pc'[u] = pc[u], cstat' = cstat
  PROVE  \A d \in Clients : /\ OwnRef(d)' = OwnRef(d)
                            /\ Box(d) # t => ThreadRefs(d)' = ThreadRefs(d)
<1> SUFFICES ASSUME NEW d \in Clients
             PROVE  OwnRef(d)' = OwnRef(d) /\ (Box(d) # t => ThreadRefs(d)' = ThreadRefs(d))
  OBVIOUS
<1>1. pc'[Service(d)] = pc[Service(d)] /\ (Box(d) # t => pc'[Box(d)] = pc[Box(d)])
  BY OneBox
<1> QED
  BY <1>1 DEF ThreadRefs, OwnRef, LoggedIn

(* What a client asks for.                                                  *)
LEMMA RequestCounted ==
  ASSUME MaxLogins = 1, CharlaInv, LoanInv, NEW c \in Clients, Request(c)
  PROVE  \A d \in Clients : Counted(d)'
<1> DEFINE t == Service(c)
<1>s. t \in Threads /\ Frame(t)
  BY Ground, RequestFrame
<1>f. /\ box' = box /\ entry' = entry
      /\ \A d \in Clients : d # c => cstat'[d] = cstat[d]
  <2>1. CASE Login(c)
    <3>1. box' = box /\ entry' = entry /\ cstat' = [cstat EXCEPT ![c] = "LOGGED_IN"]
      BY <2>1 DEF Login, M!Create, callVars
    <3> QED
      BY <3>1, Ground
  <2>2. CASE ~Login(c)
    BY <2>2 DEF Request, HangUp, LogoutPacket, SendPacket, boxVars, callVars, clientVars
  <2> QED
    BY <2>1, <2>2
<1>p. /\ \A u \in Threads : u # t => pc'[u] = pc[u]
      /\ pc'[t] \in {pc[t], "spawn", "shutdown", "lookup"}
  <2>1. \/ pc' = pc \/ pc' = [pc EXCEPT ![t] = "spawn"] \/ pc' = [pc EXCEPT ![t] = "shutdown"]
        \/ pc' = [pc EXCEPT ![t] = "lookup"]
    BY DEF Request, HangUp, Login, LogoutPacket, SendPacket, Go, Goto
  <2> QED
    BY <1>s, <2>1, Ground
<1>r. \A d \in Clients : ThreadRefs(d)' = ThreadRefs(d) /\ (d # c => OwnRef(d)' = OwnRef(d))
  BY <1>f, <1>p, RefsService
<1>u. \A u \in MailboxThreads : pc'[u] = "next_unref" => pc[u] = "next_unref" /\ entry'[u] = entry[u]
  BY <1>f, <1>p, OneBox
<1>1. CASE Login(c)
  <2>1. logins[c] = 0 /\ M!Create(Box(c))
    <3>1. logins[c] + 1 <= 1 /\ logins[c] \in 0..1 /\ M!Create(<<c, logins[c] + 1>>)
      BY <1>1, Ground DEF Login
    <3>2. logins[c] = 0
      BY <3>1
    <3> QED
      BY <3>1, <3>2 DEF Box
  <2>2. \A m \in Mailboxes : life'[m] = "live" => box'[m] = box[m] /\ (life[m] = "live" \/ box[m] = << >>)
    BY <1>s, <2>1, Ground, BoxesCalm DEF CharlaInv, Types
  <2>3. \A d \in Clients : Pins(d)' \subseteq Pins(d)
    BY <1>s, <1>u, <2>2, PinsCalm
  <2>4. /\ life[Box(c)] = "unborn" /\ life' = [life EXCEPT ![Box(c)] = "live"]
        /\ rc' = [rc EXCEPT ![Box(c)] = 1]
    BY <2>1 DEF M!Create
  <2>5. Counted(c) /\ rc \in [Mailboxes -> Nat] /\ Box(c) \in Mailboxes
    BY Ground DEF LoanInv
  <2>6. rc[Box(c)] = 0
    BY <2>4, <2>5 DEF Counted
  <2>7. Counted(c)'
    <3>1. rc'[Box(c)] = rc[Box(c)] + 1 /\ rc'[Box(c)] \in Nat
      BY <2>4, <2>5, <2>6
    <3>2. life'[Box(c)] = "live"
      BY <2>4, Ground
    <3>3. OwnRef(c)' + ThreadRefs(c)' <= OwnRef(c) + ThreadRefs(c) + 1
      BY <1>r DEF OwnRef, ThreadRefs
    <3> QED
      BY <2>3, <3>1, <3>2, <3>3, CountedKeep
  <2>8. ASSUME NEW d \in Clients, d # c PROVE Counted(d)'
    <3>0. PICK k \in Int : k = 0
      OBVIOUS
    <3>1. /\ rc'[Box(d)] = rc[Box(d)] + k /\ rc'[Box(d)] \in Nat /\ life'[Box(d)] = life[Box(d)]
      BY <2>4, <2>8, <3>0, Ground
    <3>2. rc'[Box(d)] > 0 => life'[Box(d)] = "live"
      BY <3>0, <3>1, Ground DEF LoanInv, Counted
    <3>3. OwnRef(d)' + ThreadRefs(d)' <= OwnRef(d) + ThreadRefs(d) + k
      BY <1>r, <2>8, <3>0 DEF OwnRef, ThreadRefs
    <3> QED
      BY <2>3, <3>1, <3>2, <3>3, CountedKeep
  <2> QED
    BY <2>7, <2>8
<1>2. CASE ~Login(c)
  <2>1. UNCHANGED <<rc, life, cstat>>
    BY <1>2 DEF Request, HangUp, LogoutPacket, SendPacket, boxVars, clientVars
  <2>2. OwnRef(c)' <= OwnRef(c)
    <3>1. pc' = pc \/ pc[t] = "serve"
      BY <1>2 DEF Request, HangUp, LogoutPacket, SendPacket, At
    <3> QED
      BY <2>1, <3>1 DEF OwnRef, LoggedIn
  <2>3. \A d \in Clients : Pins(d)' \subseteq Pins(d)
    BY <1>s, <1>f, <1>u, <2>1, PinsCalm
  <2>4. ASSUME NEW d \in Clients PROVE Counted(d)'
    <3>1. OwnRef(d)' <= OwnRef(d) /\ ThreadRefs(d)' <= ThreadRefs(d)
      BY <1>r, <2>2 DEF OwnRef, ThreadRefs
    <3> QED
      BY <2>1, <2>3, <3>1, CountedSame
  <2> QED
    BY <2>4
<1> QED
  BY <1>1, <1>2

(* The discarding loop gives up nothing: a reference it drops is leaked.    *)
LEMMA DiscardCounted ==
  ASSUME MaxLogins = 1, CharlaInv, LoanInv, NEW t \in Threads, Discard(t)
  PROVE  \A d \in Clients : Counted(d)'
<1>1. /\ UNCHANGED <<life, rc, cstat, entry>> /\ pc[t] \in {"discard", "next_discard"}
      /\ pc' = pc \/ pc' = [pc EXCEPT ![t] = AfterDiscard(t)]
  BY DEF Discard, M!DiscardToHook, M!DiscardUnhooked, M!DiscardDone, M!Hooked, M!Discarding,
         M!Goto, clientVars
<1>2. \A u \in Threads : u # t => pc'[u] = pc[u]
  BY <1>1, Ground
<1>3. pc'[t] \in {pc[t], "clear", "got", "done"}
  BY <1>1, Ground DEF AfterDiscard
<1>4. \A u \in MailboxThreads : pc'[u] = "next_unref" => pc[u] = "next_unref" /\ entry'[u] = entry[u]
  BY <1>1, <1>2, <1>3, OneBox
<1>f. Frame(t)
  BY DiscardFrame
<1>5. \A d \in Clients : Pins(d)' \subseteq Pins(d)
  <2>1. CASE M!DiscardToHook(t)
    <3> DEFINE e == [type |-> "notice", id |-> M!NoMsgId, kind |-> "BOUNCE"]
               from == Head(todo[t]).from
    <3>1. todo[t] # << >> /\ M!IsMessage(Head(todo[t])) /\ M!Enqueue(from, e)
      BY <2>1 DEF M!DiscardToHook, M!Hooked, M!HoldsRef
    <3>2. todo[t] \in Seq(M!Entry)
      BY DEF CharlaInv, Types, CallTypes
    <3>3. Head(todo[t]) \in M!Entry
      BY <3>1, <3>2
    <3>4. from \in Mailboxes
      BY <3>1, <3>3, Entries
    <3>5. e \in M!Entry /\ ~M!IsMessage(e)
      BY Made DEF M!NoMsgId, M!IsMessage
    <3> HIDE DEF e, from
    <3> QED
      BY <1>1, <1>4, <1>f, <3>1, <3>4, <3>5, PinsPut
  <2>2. CASE box' = box
    BY <1>1, <1>4, <1>f, <2>2, PinsCalm
  <2> QED
    BY <2>1, <2>2 DEF Discard, M!DiscardUnhooked, M!DiscardDone
<1>6. ASSUME NEW d \in Clients PROVE OwnRef(d)' <= OwnRef(d) /\ ThreadRefs(d)' <= ThreadRefs(d)
  <2>1. Box(d) \in Threads /\ Service(d) \in Threads
    BY Ground
  <2>2. pc[t] = "next_discard" => ThreadRefs(d)' <= ThreadRefs(d)
    BY <1>2, <1>3, <2>1 DEF ThreadRefs, Holding
  <2>3. pc[t] = "discard" => ThreadRefs(d)' <= ThreadRefs(d)
    <3> SUFFICES ASSUME pc[t] = "discard", pc[Box(d)] \notin Holding PROVE pc'[Box(d)] \notin Holding
      BY DEF ThreadRefs
    <3>1. pc'[t] \in {"discard", "clear", "done"}
      BY <1>1, Ground DEF AfterDiscard
    <3> QED
      BY <1>2, <2>1, <3>1 DEF Holding
  <2>4. OwnRef(d)' <= OwnRef(d)
    <3>1. CASE Service(d) # t
      BY <1>1, <1>2, <2>1, <3>1 DEF OwnRef, LoggedIn
    <3>2. CASE Service(d) = t
      <4>1. pc[t] = "discard"
        <5>1. pc[t] \in ServiceLabels
          BY <3>2 DEF CharlaInv, Types, CallTypes
        <5> QED
          BY <1>1, <5>1 DEF ServiceLabels
      <4>2. AfterDiscard(t) = "clear"
        BY <3>2, <4>1, Names DEF AfterDiscard
      <4>3. pc'[t] \in {"discard", "clear"}
        BY <1>1, <4>1, <4>2, Ground
      <4> QED
        BY <3>2, <4>3 DEF OwnRef
    <3> QED
      BY <3>1, <3>2
  <2> QED
    BY <1>1, <2>2, <2>3, <2>4
<1> QED
  BY <1>1, <1>5, <1>6, CountedSame

(* The service thread: a client that logs out gives up its reference, and a *)
(* message takes one on its sender.                                         *)
LEMMA EnqueueCounted ==
  ASSUME MaxLogins = 1, CharlaInv, LoanInv, NEW c \in Clients, SendEnqueue(c)
  PROVE  \A d \in Clients : Counted(d)'
<1> DEFINE t == Service(c)
           x == job[c]
           e == entry[t]
<1>1. /\ pc[t] = "add_ref" /\ UNCHANGED <<life, cstat>> /\ M!Enqueue(mb[t], e)
      /\ rc' = [rc EXCEPT ![e.from] = @ + 1] /\ entry' = [entry EXCEPT ![t] = M!NULL]
      /\ pc' = [pc EXCEPT ![t] = "serve"] /\ life[e.from] = "live"
  BY DEF SendEnqueue, M!AddMessageRef, M!Unlocked, M!Goto, clientVars
<1>2. pc[t] \in Sending
  BY <1>1 DEF Sending
<1>3. x \in Traffic /\ x.from = c /\ x.id \in Ids /\ LoggedIn(c) /\ cbox[c] = Box(c)
  BY <1>2, FromsMade
<1>4. e = [type |-> "message", id |-> x.id, from |-> Box(c)] /\ mb[t] \in Mailboxes
  BY <1>1, <1>3 DEF CharlaInv, Routes, ServiceOK
<1>5. e.from = Box(c) /\ M!IsMessage(e) /\ e.id = x.id /\ Box(c) \in Mailboxes
  BY <1>4, Ground DEF M!IsMessage
<1>6. e \in M!Entry
  BY <1>3, <1>4, <1>5, Made, Entries
<1>s. t \in Threads /\ Frame(t)
  BY Ground, ServiceFrame DEF ServiceStep
<1>p. /\ \A u \in Threads : u # t => pc'[u] = pc[u]
      /\ pc'[t] = "serve" /\ \A u \in MailboxThreads : pc'[u] = pc[u] /\ entry'[u] = entry[u]
  <2>1. entry \in [Threads -> M!Entry \cup {M!NULL}]
    BY DEF CharlaInv, Types, CallTypes
  <2>2. (\A u \in Threads : u # t => pc'[u] = pc[u] /\ entry'[u] = entry[u]) /\ pc'[t] = "serve"
    BY <1>1, <1>s, <2>1, Ground
  <2> QED
    BY <2>2, Names
<1>r. \A d \in Clients : ThreadRefs(d)' = ThreadRefs(d) /\ OwnRef(d)' <= OwnRef(d)
  <2>1. \A d \in Clients : ThreadRefs(d)' = ThreadRefs(d) /\ (d # c => OwnRef(d)' = OwnRef(d))
    BY <1>1, <1>p, RefsService
  <2>2. OwnRef(c)' <= OwnRef(c)
    BY <1>1 DEF OwnRef, LoggedIn
  <2> QED
    BY <2>1, <2>2 DEF OwnRef
<1> HIDE DEF x, e
(* Only the message that was enqueued is pinned anew.                       *)
<1>7. ASSUME NEW y \in Traffic, Pinned(y)', y # x PROVE Pinned(y)
  <2>1. Box(y.to) \in Mailboxes /\ Box(y.to) \in MailboxThreads
    BY OneBox, TrafficOK
  <2>2. ASSUME NEW i \in Nat, Queued(y, Box(y.to), i)' PROVE Queued(y, Box(y.to), i)
    <3>1. y.id # x.id
      BY <1>3, <1>7, TrafficOK
    <3> QED
      BY <1>1, <1>4, <1>5, <1>6, <2>1, <2>2, <3>1, QueuedAfter DEF CharlaInv
  <2>3. InHandOf(y, Box(y.to))' => InHandOf(y, Box(y.to))
    BY <1>p, <2>1 DEF InHandOf
  <2>4. Pinned(y) \/ (y.from # y.to /\ \E i \in Nat : Queued(y, Box(y.to), i)') \/ InHandOf(y, Box(y.to))'
    BY <1>s, <1>7, PinnedBefore
  <2> QED
    BY <2>2, <2>3, <2>4 DEF Pinned
<1>8. ASSUME NEW d \in Clients, d # c PROVE Counted(d)'
  <2>1. Pins(d)' \subseteq Pins(d)
    BY <1>3, <1>7, <1>8 DEF Pins
  <2>2. rc \in [Mailboxes -> Nat] /\ Box(d) \in Mailboxes /\ Box(d) # Box(c)
    BY <1>8, Ground
  <2>3. PICK k \in Int : k = 0
    OBVIOUS
  <2>4. rc'[Box(d)] = rc[Box(d)] + k /\ rc'[Box(d)] \in Nat /\ rc'[Box(d)] = rc[Box(d)]
    BY <1>1, <1>5, <2>2, <2>3
  <2>5. rc'[Box(d)] > 0 => life'[Box(d)] = "live"
    BY <1>1, <2>4 DEF LoanInv, Counted
  <2>6. OwnRef(d)' + ThreadRefs(d)' <= OwnRef(d) + ThreadRefs(d) + k
    BY <1>r, <2>3 DEF OwnRef, ThreadRefs
  <2> QED
    BY <2>1, <2>4, <2>5, <2>6, CountedKeep
<1>9. Counted(c)'
  <2>1. Pins(c)' \subseteq Pins(c) \cup {x}
    BY <1>7 DEF Pins
  <2>2. /\ IsFiniteSet(Pins(c)) /\ Cardinality(Pins(c)) \in Nat
        /\ IsFiniteSet(Pins(c)') /\ Cardinality(Pins(c)') \in Nat
    BY PinsFinite
  <2>3. /\ IsFiniteSet(Pins(c) \cup {x}) /\ Cardinality(Pins(c) \cup {x}) <= Cardinality(Pins(c)) + 1
    <3>1. Cardinality(Pins(c) \cup {x}) = (IF x \in Pins(c) THEN Cardinality(Pins(c))
                                                          ELSE Cardinality(Pins(c)) + 1)
      BY <2>2, FS_AddElement
    <3>2. IsFiniteSet(Pins(c) \cup {x})
      BY <2>2, FS_AddElement
    <3> QED
      BY <2>2, <3>1, <3>2
  <2>4. Cardinality(Pins(c)') <= Cardinality(Pins(c) \cup {x}) /\ Cardinality(Pins(c) \cup {x}) \in Nat
    BY <2>1, <2>3, FS_Subset, FS_CardinalityType
  <2>5. rc[Box(c)] \in Nat /\ rc'[Box(c)] = rc[Box(c)] + 1
    BY <1>1, <1>5, Ground
  <2>6. rc[Box(c)] >= OwnRef(c) + ThreadRefs(c) + Cardinality(Pins(c))
    BY DEF LoanInv, Counted
  <2>7. OwnRef(c) \in {0, 1} /\ ThreadRefs(c) \in {0, 1} /\ OwnRef(c)' \in {0, 1}
    BY DEF OwnRef, ThreadRefs
  <2>8. rc'[Box(c)] >= OwnRef(c)' + ThreadRefs(c)' + Cardinality(Pins(c)')
    BY <1>r, <2>2, <2>3, <2>4, <2>5, <2>6, <2>7
  <2>9. life'[Box(c)] = "live"
    BY <1>1, <1>5
  <2> QED
    BY <2>8, <2>9 DEF Counted
<1> QED
  BY <1>8, <1>9

LEMMA ServiceCounted ==
  ASSUME MaxLogins = 1, CharlaInv, LoanInv, NEW c \in Clients, ServiceStep(c)
  PROVE  \A d \in Clients : Counted(d)'
<1> DEFINE t == Service(c)
<1>s. t \in Threads /\ Frame(t)
  BY Ground, ServiceFrame
<1>t. entry \in [Threads -> M!Entry \cup {M!NULL}]
  BY DEF CharlaInv, Types, CallTypes
<1>k. ASSUME UNCHANGED <<rc, life>>, NEW l, pc' = [pc EXCEPT ![t] = l],
             \A u \in Threads : u # t => entry'[u] = entry[u],
             \A d \in Clients : d # c => cstat'[d] = cstat[d],
             OwnRef(c)' <= OwnRef(c), box' = box
      PROVE  \A d \in Clients : Counted(d)'
  <2>1. \A u \in Threads : u # t => pc'[u] = pc[u]
    BY <1>k, Ground
  <2>2. \A u \in MailboxThreads : pc'[u] = "next_unref" => pc[u] = "next_unref" /\ entry'[u] = entry[u]
    BY <1>k, <2>1, OneBox
  <2>3. \A d \in Clients : Pins(d)' \subseteq Pins(d)
    BY <1>k, <1>s, <2>2, PinsCalm
  <2>4. \A d \in Clients : ThreadRefs(d)' = ThreadRefs(d) /\ (d # c => OwnRef(d)' = OwnRef(d))
    BY <1>k, <2>1, RefsService
  <2>5. ASSUME NEW d \in Clients PROVE Counted(d)'
    <3>1. OwnRef(d)' <= OwnRef(d) /\ ThreadRefs(d)' <= ThreadRefs(d)
      BY <1>k, <2>4 DEF OwnRef, ThreadRefs
    <3> QED
      BY <1>k, <2>3, <3>1, CountedSame
  <2> QED
    BY <2>5
<1>1. CASE Spawn(c)
  <2>1. /\ UNCHANGED <<rc, life, entry, box, cstat>> /\ pc[t] = "spawn"
        /\ pc' = [pc EXCEPT ![t] = "serve", ![<<c, logins[c]>>] = "start"]
    BY <1>1 DEF Spawn, At, boxVars, callVars
  <2>2. /\ LoggedIn(c) /\ logins[c] # 0 /\ logins[c] \in 0..1
        /\ pc[Box(c)] = "none"
    <3>1. Begun(c) /\ logins[c] \in 0..1
      BY Ground
    <3>2. LoggedIn(c) /\ logins[c] # 0
      BY <2>1 DEF CharlaInv, Routes, ServiceOK, Types, ClientTypes
    <3> QED
      BY <2>1, <3>1, <3>2 DEF Begun
  <2>3. logins[c] = 1
    BY <2>2
  <2>4. pc' = [pc EXCEPT ![t] = "serve", ![Box(c)] = "start"]
    BY <2>1, <2>3 DEF Box
  <2>5. \A u \in Threads : pc'[u] = IF u = t THEN "serve" ELSE IF u = Box(c) THEN "start" ELSE pc[u]
    BY <2>4, Ground
  <2>6. \A u \in MailboxThreads : pc'[u] = "next_unref" => pc[u] = "next_unref" /\ entry'[u] = entry[u]
    BY <2>1, <2>5, Names
  <2>7. \A d \in Clients : Pins(d)' \subseteq Pins(d)
    BY <1>s, <2>1, <2>6, PinsCalm
  <2>8. ASSUME NEW d \in Clients PROVE Counted(d)'
    <3>1. /\ pc'[Service(d)] = IF d = c THEN "serve" ELSE pc[Service(d)]
          /\ pc'[Box(d)] = IF d = c THEN "start" ELSE pc[Box(d)]
      BY <2>5, Ground
    <3>2. OwnRef(d)' <= OwnRef(d)
      BY <2>1, <3>1 DEF OwnRef, LoggedIn
    <3>3. ThreadRefs(d)' <= ThreadRefs(d)
      BY <3>1 DEF ThreadRefs, Holding
    <3> QED
      BY <2>1, <2>7, <3>2, <3>3, CountedSame
  <2> QED
    BY <2>8
<1>2. CASE ReadEOF(c) \/ LogoutShutdown(c) \/ JoinMailboxThread(c) \/ SendLookup(c)
  <2>1. UNCHANGED <<rc, life, entry, box, cstat>> /\ pc[t] \in {"serve", "shutdown", "join", "lookup"}
    BY <1>2 DEF ReadEOF, LogoutShutdown, M!Shutdown, JoinMailboxThread, SendLookup, At,
                boxVars, callVars, clientVars
  <2>2. PICK l : pc' = [pc EXCEPT ![t] = l]
    BY <1>2 DEF ReadEOF, LogoutShutdown, JoinMailboxThread, SendLookup, Go, Goto
  <2>3. OwnRef(c)' <= OwnRef(c)
    BY <2>1 DEF OwnRef, LoggedIn
  <2> QED
    BY <1>k, <2>1, <2>2, <2>3
<1>3. CASE LogoutClear(c)
  <2>1. UNCHANGED <<rc, life, entry, box>> /\ cstat' = [cstat EXCEPT ![c] = "NO_USER"]
    BY <1>3 DEF LogoutClear, boxVars, callVars
  <2>2. PICK l : pc' = [pc EXCEPT ![t] = l]
    BY <1>3 DEF LogoutClear, Go, Goto
  <2>3. cstat'[c] = "NO_USER" /\ \A d \in Clients : d # c => cstat'[d] = cstat[d]
    BY <2>1, Ground
  <2>4. OwnRef(c)' <= OwnRef(c)
    BY <2>3 DEF OwnRef, LoggedIn
  <2> QED
    BY <1>k, <2>1, <2>2, <2>3, <2>4
<1>4. CASE LogoutUnref(c)
  <2>1. cstat' = cstat /\ pc[t] = "unref"
    BY <1>4 DEF LogoutUnref, clientVars, At
  <2>2. LoggedIn(c) /\ cbox[c] = Box(c) /\ Box(c) \in Mailboxes
    <3>1. LoggedIn(c) /\ logins[c] # 0 /\ cbox[c] = <<c, logins[c]>>
      BY <2>1 DEF CharlaInv, Routes, ServiceOK, Types, ClientTypes
    <3>2. logins[c] = 1 /\ Box(c) \in Mailboxes
      BY <3>1, Ground
    <3> QED
      BY <3>1, <3>2 DEF Box
  <2>3. /\ UNCHANGED <<entry, box>> /\ (M!UnrefSome(Box(c)) \/ M!UnrefLast(t, Box(c)))
        /\ pc' = [pc EXCEPT ![t] = "clear"] \/ pc' = [pc EXCEPT ![t] = "discard"]
    BY <1>4, <2>2 DEF LogoutUnref, M!UnrefSome, M!UnrefLast, Go, Goto, M!Goto, callVars
  <2>4. pc'[t] \in {"clear", "discard"} /\ \A u \in Threads : u # t => pc'[u] = pc[u]
    BY <2>3, Ground
  <2>5. \A u \in MailboxThreads : pc'[u] = "next_unref" => pc[u] = "next_unref" /\ entry'[u] = entry[u]
    BY <2>3, <2>4, Names
  <2>6. \A m \in Mailboxes : life'[m] = "live" => box'[m] = box[m] /\ (life[m] = "live" \/ box[m] = << >>)
    <3>1. M!UnrefSome(Box(c)) \/ (M!Finalise(t, Box(c)) /\ box' = box)
      BY <2>3 DEF M!UnrefLast
    <3> QED
      BY <1>s, <2>2, <3>1, BoxesCalm DEF CharlaInv, Types
  <2>7. \A d \in Clients : Pins(d)' \subseteq Pins(d)
    BY <1>s, <2>5, <2>6, PinsCalm
  <2>8. \A d \in Clients : ThreadRefs(d)' = ThreadRefs(d) /\ (d # c => OwnRef(d)' = OwnRef(d))
    BY <2>1, <2>4, RefsService
  <2>9. OwnRef(c) = 1 /\ OwnRef(c)' = 0
    BY <2>1, <2>2, <2>4 DEF OwnRef
  <2>10. ASSUME NEW d \in Clients PROVE Counted(d)'
    <3>1. Box(c) = Box(d) <=> c = d
      BY Ground
    <3>2. OwnRef(d)' + ThreadRefs(d)' <= OwnRef(d) + ThreadRefs(d) - (IF Box(c) = Box(d) THEN 1 ELSE 0)
      BY <2>8, <2>9, <3>1 DEF OwnRef, ThreadRefs
    <3> QED
      BY <1>s, <2>2, <2>3, <2>7, <3>2, CountedUnref
  <2> QED
    BY <2>10
<1>5. CASE SendToSelf(c)
  <2> DEFINE e == [type |-> "message", id |-> job[c].id, from |-> cbox[c]]
  <2>1. /\ UNCHANGED <<rc, life, entry, cstat>> /\ pc[t] = "add" /\ target[c] = cbox[c]
        /\ M!Enqueue(cbox[c], e) /\ pc' = [pc EXCEPT ![t] = "serve"]
    BY <1>5 DEF SendToSelf, M!AddOwnMessage, At, Go, Goto, callVars, clientVars
  <2>2. pc[t] \in Sending
    BY <2>1 DEF Sending
  <2>3. job[c] \in Traffic /\ job[c].from = c /\ job[c].id \in Ids /\ cbox[c] = Box(c)
    BY <2>2, FromsMade
  <2>4. target[c][1] = job[c].to
    <3>1. target[c] # NoMailbox
      BY <2>1, <2>3, Ground, Names
    <3> QED
      BY <2>1, <3>1 DEF CharlaInv, Routes, ServiceOK
  <2>5. cbox[c] \in Mailboxes /\ e \in M!Entry
    BY <2>3, Ground, Made, Entries
  <2>6. \A x \in Traffic : e.id = x.id => x.from = x.to
    <3>1. job[c].to = c
      BY <2>1, <2>3, <2>4, Names DEF Box, Service
    <3> QED
      BY <2>3, <3>1, TrafficOK
  <2> HIDE DEF e
  <2>7. pc'[t] = "serve" /\ \A u \in Threads : u # t => pc'[u] = pc[u]
    BY <1>s, <2>1, Ground
  <2>8. \A u \in MailboxThreads : pc'[u] = "next_unref" => pc[u] = "next_unref" /\ entry'[u] = entry[u]
    BY <2>1, <2>7, Names
  <2>9. \A d \in Clients : Pins(d)' \subseteq Pins(d)
    BY <1>s, <2>1, <2>5, <2>6, <2>8, PinsPut
  <2>10. \A d \in Clients : ThreadRefs(d)' = ThreadRefs(d) /\ (d # c => OwnRef(d)' = OwnRef(d))
    BY <2>1, <2>7, RefsService
  <2>11. OwnRef(c)' <= OwnRef(c)
    BY <2>1 DEF OwnRef, LoggedIn
  <2>12. ASSUME NEW d \in Clients PROVE Counted(d)'
    <3>1. OwnRef(d)' <= OwnRef(d) /\ ThreadRefs(d)' <= ThreadRefs(d)
      BY <2>10, <2>11 DEF OwnRef, ThreadRefs
    <3> QED
      BY <2>1, <2>9, <3>1, CountedSame
  <2> QED
    BY <2>12
<1>6. CASE SendLock(c)
  <2>1. /\ UNCHANGED <<rc, life, box, cstat>> /\ pc[t] = "add"
        /\ pc' = [pc EXCEPT ![t] = "add_ref"]
        /\ \E e : entry' = [entry EXCEPT ![t] = e]
    BY <1>6 DEF SendLock, M!AddMessageLock, At, M!Goto, clientVars
  <2>2. \A u \in Threads : u # t => entry'[u] = entry[u]
    BY <1>t, <2>1
  <2>3. OwnRef(c)' <= OwnRef(c)
    BY <2>1 DEF OwnRef, LoggedIn
  <2> QED
    BY <1>k, <2>1, <2>2, <2>3
<1>7. CASE SendEnqueue(c)
  BY <1>7, EnqueueCounted
<1>8. CASE Discard(t)
  BY <1>s, <1>8, DiscardCounted
<1> QED
  BY <1>1, <1>2, <1>3, <1>4, <1>5, <1>6, <1>7, <1>8 DEF ServiceStep

-----------------------------------------------------------------------------
(* A mailbox thread takes a message from its mailbox: the message stays     *)
(* pinned while it is in hand, and its reference is given up after that.    *)
LEMMA InHandPins ==
  ASSUME MaxLogins = 1, CharlaInv, LoanInv, NEW t \in MailboxThreads, pc[t] = "next_unref"
  PROVE  \E x \in Traffic :
           /\ x.id = entry[t].id /\ entry[t].from = Box(x.from) /\ t = Box(x.to)
           /\ x.from \in Clients /\ x \in Pins(x.from)
<1>1. t \in Threads /\ t = Box(t[1]) /\ t \in Mailboxes
  BY OneBox
<1>2. entry[t] \in M!Message /\ For(entry[t], t[1]) /\ FromOK(entry[t])
  BY <1>1 DEF CharlaInv, Routes, ThreadOK, InNext, LoanInv, Froms
<1>3. M!IsMessage(entry[t])
  BY <1>2, Entries
<1>4. PICK x \in Traffic : x.id = entry[t].id /\ entry[t].from = Box(x.from) /\ logins[x.from] = 1
  BY <1>2, <1>3 DEF FromOK
<1>5. t = Box(x.to)
  BY <1>1, <1>2, <1>3, <1>4 DEF For
<1>6. x \in Pins(x.from)
  BY <1>3, <1>4, <1>5 DEF Pins, Pinned, InHandOf
<1> QED
  BY <1>4, <1>5, <1>6, TrafficOK

LEMMA TakeCounted ==
  ASSUME MaxLogins = 1, CharlaInv, LoanInv, NEW t \in MailboxThreads, M!NextRemove(t, "got"), cstat' = cstat,
         Frame(t)
  PROVE  \A d \in Clients : Counted(d)'
<1> DEFINE e == Head(box[t])
<1>s. t \in Threads /\ t \in Mailboxes
  BY OwnThread
<1>1. pc[t] = "next_lock"
  BY DEF M!NextRemove
<1>2. mb[t] = t
  BY <1>1, OwnThread
<1>3. /\ life[t] = "live" /\ box[t] # << >> /\ UNCHANGED <<rc, life>>
      /\ box' = [box EXCEPT ![t] = Tail(box[t])] /\ entry' = [entry EXCEPT ![t] = e]
      /\ \/ M!HoldsRef(t, e) /\ pc' = [pc EXCEPT ![t] = "next_unref"]
         \/ pc' = [pc EXCEPT ![t] = "got"]
  BY <1>2 DEF M!NextRemove, M!Unlocked, M!Goto
<1>4. box \in [Mailboxes -> Seq(M!Entry)] /\ entry \in [Threads -> M!Entry \cup {M!NULL}]
  BY DEF CharlaInv, Types, BoxTypes, CallTypes
<1>5. /\ \A u \in Threads : u # t => pc'[u] = pc[u] /\ entry'[u] = entry[u]
      /\ pc'[t] \in {"next_unref", "got"} /\ entry'[t] = e
      /\ pc'[t] = "next_unref" => M!HoldsRef(t, e)
  <2>1. entry'[t] = e /\ \A u \in Threads : u # t => entry'[u] = entry[u]
    BY <1>s, <1>3, <1>4
  <2>2. /\ \A u \in Threads : u # t => pc'[u] = pc[u]
        /\ pc'[t] \in {"next_unref", "got"} /\ (pc'[t] = "next_unref" => M!HoldsRef(t, e))
    BY <1>s, <1>3, Ground
  <2> QED
    BY <2>1, <2>2
<1>6. box[t] \in Seq(M!Entry) /\ \A y \in Mailboxes : box'[y] = IF y = t THEN Tail(box[t]) ELSE box[y]
  BY <1>s, <1>3, <1>4
<1>7. 1 \in DOMAIN box[t] /\ e = box[t][1] /\ FromOK(e)
  <2>1. 1 \in DOMAIN box[t] /\ e = box[t][1]
    BY <1>3, <1>6, TailAt
  <2> QED
    BY <1>s, <2>1 DEF LoanInv, Froms
<1> HIDE DEF e
<1>8. ASSUME NEW x \in Traffic, Pinned(x)' PROVE Pinned(x)
  <2>1. Box(x.to) \in Mailboxes /\ Box(x.to) \in Threads /\ x.to \in Clients /\ x.from \in Clients
    BY Ground, TrafficOK
  <2>2. ASSUME NEW i \in Nat, Queued(x, Box(x.to), i)'
        PROVE  \E j \in Nat : Queued(x, Box(x.to), j)
    <3>1. CASE Box(x.to) = t
      <4>1. box'[t] = Tail(box[t]) /\ i \in DOMAIN box'[t]
        BY <1>s, <1>6, <2>2, <3>1 DEF Queued
      <4>2. i + 1 \in DOMAIN box[t] /\ box'[t][i] = box[t][i + 1]
        <5>1. box[t] \in Seq(M!Entry) /\ box[t] # << >>
          BY <1>3, <1>6
        <5> QED
          BY <4>1, <5>1, TailAt
      <4>3. Queued(x, t, i + 1)
        BY <1>3, <2>2, <3>1, <4>2 DEF Queued
      <4> QED
        BY <3>1, <4>3
    <3>2. CASE Box(x.to) # t
      <4>1. box'[Box(x.to)] = box[Box(x.to)] /\ life' = life
        BY <1>3, <1>6, <2>1, <3>2
      <4>2. Queued(x, Box(x.to), i)
        BY <2>2, <4>1 DEF Queued
      <4> QED
        BY <4>2
    <3> QED
      BY <3>1, <3>2
  <2>3. CASE InHandOf(x, Box(x.to))' /\ Box(x.to) # t
    BY <1>5, <2>1, <2>3 DEF InHandOf, Pinned
  <2>4. CASE InHandOf(x, Box(x.to))' /\ Box(x.to) = t
    <3>1. M!IsMessage(e) /\ e.id = x.id /\ e.from # t
      BY <1>5, <2>4 DEF InHandOf, M!HoldsRef
    <3>2. PICK y \in Traffic : y.id = e.id /\ e.from = Box(y.from)
      BY <1>7, <3>1 DEF FromOK
    <3>3. y = x
      BY <3>1, <3>2, TrafficOK
    <3>4. x.from # x.to
      BY <2>4, <3>1, <3>2, <3>3
    <3>5. Queued(x, Box(x.to), 1)
      BY <1>3, <1>7, <2>4, <3>1 DEF Queued
    <3> QED
      BY <3>4, <3>5 DEF Pinned
  <2>5. Pinned(x) \/ (x.from # x.to /\ \E i \in Nat : Queued(x, Box(x.to), i)') \/ InHandOf(x, Box(x.to))'
    BY <1>s, <1>8, PinnedBefore
  <2> QED
    BY <2>2, <2>3, <2>4, <2>5 DEF Pinned
<1>9. \A d \in Clients : Pins(d)' \subseteq Pins(d)
  BY <1>8 DEF Pins
<1>10. ASSUME NEW d \in Clients PROVE Counted(d)'
  <2>1. OwnRef(d)' = OwnRef(d) /\ (Box(d) # t => ThreadRefs(d)' = ThreadRefs(d))
    BY <1>5, RefsThread
  <2>2. Box(d) = t => ThreadRefs(d)' = ThreadRefs(d)
    BY <1>1, <1>5 DEF ThreadRefs, Holding
  <2>3. OwnRef(d)' <= OwnRef(d) /\ ThreadRefs(d)' <= ThreadRefs(d)
    BY <2>1, <2>2 DEF OwnRef, ThreadRefs
  <2> QED
    BY <1>3, <1>9, <2>3, CountedSame
<1> QED
  BY <1>10

LEMMA DropCounted ==
  ASSUME MaxLogins = 1, CharlaInv, LoanInv, NEW t \in MailboxThreads,
         M!NextUnrefSome(t, "got") \/ M!NextUnrefLast(t), cstat' = cstat, Frame(t)
  PROVE  \A d \in Clients : Counted(d)'
<1>s. t \in Threads /\ t \in Mailboxes
  BY OwnThread
<1>1. /\ pc[t] = "next_unref" /\ UNCHANGED <<box, entry>>
      /\ pc' = [pc EXCEPT ![t] = "got"] \/ pc' = [pc EXCEPT ![t] = "next_discard"]
  BY DEF M!NextUnrefSome, M!NextUnrefLast, M!Goto
<1>2. PICK x \in Traffic :
        /\ x.id = entry[t].id /\ entry[t].from = Box(x.from) /\ t = Box(x.to)
        /\ x.from \in Clients /\ x \in Pins(x.from)
  BY <1>1, InHandPins
<1>c. /\ rc \in [Mailboxes -> Nat] /\ life \in [Mailboxes -> {"unborn", "live", "freed"}]
      /\ Box(x.from) \in Mailboxes
  BY <1>2, Ground
<1>d. /\ rc[Box(x.from)] >= 1 /\ life[Box(x.from)] = "live"
      /\ rc' = [rc EXCEPT ![Box(x.from)] = rc[Box(x.from)] - 1]
      /\ \/ rc[Box(x.from)] > 1 /\ life' = life /\ todo' = todo
         \/ /\ rc[Box(x.from)] = 1 /\ life' = [life EXCEPT ![Box(x.from)] = "freed"]
            /\ todo' = [todo EXCEPT ![t] = box[Box(x.from)]]
  BY <1>2, <1>c DEF M!NextUnrefSome, M!NextUnrefLast, M!Finalise, M!Unlocked
<1>3. pc'[t] \in {"got", "next_discard"} /\ \A u \in Threads : u # t => pc'[u] = pc[u]
  BY <1>s, <1>1, Ground
<1>4. \A u \in MailboxThreads : pc'[u] = "next_unref" => pc[u] = "next_unref" /\ entry'[u] = entry[u]
  BY <1>1, <1>3, Names
<1>5. \A d \in Clients : Pins(d)' \subseteq Pins(d)
  <2>1. \A m \in Mailboxes : life'[m] = "live" => box'[m] = box[m] /\ life[m] = "live"
    BY <1>1, <1>c, <1>d
  <2> QED
    BY <1>s, <1>4, <2>1, PinsCalm
(* The message is in hand, so it waits in no mailbox, and it was not in one *)
(* that was freed, for t has the mutex of the mailbox it was in.            *)
<1>q. ASSUME NEW m \in Mailboxes, NEW i \in Nat, Queued(x, m, i) PROVE FALSE
  <2>1. Holds("fate", x, "box", m)
    BY <1>q DEF Queued, Holds, InBox, Carries
  <2>2. M!IsMessage(entry[t])
    BY <1>1, OwnThread
  <2>3. Holds("fate", x, "hand", t)
    BY <1>1, <1>2, <2>2 DEF Holds, InHand, InNext, Carries
  <2>4. Single("fate", x)
    BY DEF CharlaInv, Fates, Fate, Tokens
  <2>5. m \in Owners /\ t \in Owners
    BY <1>s, Names DEF Owners
  <2> QED
    BY <2>1, <2>3, <2>4, <2>5 DEF Single, Places
<1>6. ASSUME Pinned(x)' PROVE FALSE
  <2>1. ~InHandOf(x, Box(x.to))'
    BY <1>2, <1>3 DEF InHandOf
  <2>2. ASSUME NEW i \in Nat, Queued(x, Box(x.to), i)' PROVE FALSE
    <3>1. life[t] = "live" /\ i \in DOMAIN box[t] /\ M!IsMessage(box[t][i]) /\ box[t][i].id = x.id
      BY <1>s, <1>1, <1>2, <1>c, <1>d, <2>2 DEF Queued
    <3>2. Queued(x, t, i)
      BY <3>1 DEF Queued
    <3> QED
      BY <1>s, <1>q, <3>2
  <2>3. ASSUME NEW u \in Threads, NEW i \in Nat, DoomedAt(x, u, i)' PROVE FALSE
    <3>0. i \in DOMAIN todo'[u] /\ M!IsMessage(todo'[u][i]) /\ todo'[u][i].id = x.id
      BY <2>3 DEF DoomedAt, M!IsMessage
    <3>1. CASE todo'[u] = todo[u]
      <4>1. i \in DOMAIN todo[u] /\ M!IsMessage(todo[u][i]) /\ todo[u][i].id = x.id
        BY <3>0, <3>1
      <4>2. Doomed(u) /\ Locked(t)
        BY <1>s, Ground
      <4>3. M!Discarding(u)
        BY <4>1, <4>2 DEF Doomed
      <4>4. M!Dying(u) \in Mailboxes /\ life[M!Dying(u)] = "freed" /\ For(todo[u][i], M!Dying(u)[1])
        BY <4>1, <4>2, <4>3 DEF Doomed
      <4>5. M!Dying(u) = t
        BY <1>2, <4>1, <4>4, Ground DEF For
      <4>6. mb[t] = t /\ life[mb[t]] = "live"
        BY <1>1, <4>2, OwnThread DEF Locked, Nested
      <4> QED
        BY <4>4, <4>5, <4>6
    <3>2. CASE u = t /\ todo'[t] = box[Box(x.from)]
      <4>1. Queued(x, Box(x.from), i)
        BY <1>d, <3>0, <3>2 DEF Queued
      <4> QED
        BY <1>c, <1>q, <4>1
    <3>3. todo \in [Threads -> Seq(M!Entry)]
      BY DEF CharlaInv, Types, CallTypes
    <3> QED
      BY <1>d, <3>1, <3>2, <3>3
  <2> QED
    BY <1>6, <2>1, <2>2, <2>3 DEF Pinned
<1>r. \A d \in Clients : OwnRef(d)' = OwnRef(d) /\ ThreadRefs(d)' = ThreadRefs(d)
  <2>1. \A d \in Clients : OwnRef(d)' = OwnRef(d) /\ (Box(d) # t => ThreadRefs(d)' = ThreadRefs(d))
    BY <1>3, RefsThread
  <2>2. \A d \in Clients : Box(d) = t => ThreadRefs(d)' = ThreadRefs(d)
    BY <1>1, <1>3 DEF ThreadRefs, Holding
  <2> QED
    BY <2>1, <2>2
<1>7. ASSUME NEW d \in Clients, d # x.from PROVE Counted(d)'
  <2>1. PICK k \in Int : k = 0
    OBVIOUS
  <2>2. Box(d) # Box(x.from) /\ Box(d) \in Mailboxes
    BY <1>2, <1>7, Ground
  <2>3. rc'[Box(d)] = rc[Box(d)] + k /\ rc'[Box(d)] \in Nat /\ rc'[Box(d)] = rc[Box(d)]
    BY <1>c, <1>d, <2>1, <2>2
  <2>4. rc'[Box(d)] > 0 => life'[Box(d)] = "live"
    BY <1>c, <1>d, <2>2, <2>3 DEF LoanInv, Counted
  <2>5. OwnRef(d)' + ThreadRefs(d)' <= OwnRef(d) + ThreadRefs(d) + k
    BY <1>r, <2>1 DEF OwnRef, ThreadRefs
  <2> QED
    BY <1>5, <2>1, <2>3, <2>4, <2>5, CountedKeep
<1>8. Counted(x.from)'
  <2> DEFINE d == x.from
  <2>1. Pins(d)' \subseteq Pins(d) \ {x}
    BY <1>2, <1>5, <1>6 DEF Pins
  <2>2. /\ IsFiniteSet(Pins(d)) /\ Cardinality(Pins(d)) \in Nat /\ Cardinality(Pins(d)') \in Nat
    BY PinsFinite
  <2>3. IsFiniteSet(Pins(d) \ {x}) /\ Cardinality(Pins(d) \ {x}) = Cardinality(Pins(d)) - 1
    BY <1>2, <2>2, FS_RemoveElement
  <2>4. Cardinality(Pins(d)') <= Cardinality(Pins(d) \ {x})
    BY <2>1, <2>3, FS_Subset
  <2>5. rc[Box(d)] \in Nat /\ rc'[Box(d)] = rc[Box(d)] - 1
    BY <1>c, <1>d
  <2>6. rc[Box(d)] >= OwnRef(d) + ThreadRefs(d) + Cardinality(Pins(d)) /\ life[Box(d)] = "live"
    BY <1>2, <1>d DEF LoanInv, Counted
  <2>7. OwnRef(d) \in Nat /\ ThreadRefs(d) \in Nat
    BY DEF OwnRef, ThreadRefs
  <2>8. rc'[Box(d)] >= OwnRef(d)' + ThreadRefs(d)' + Cardinality(Pins(d)')
    BY <1>2, <1>r, <2>2, <2>3, <2>4, <2>5, <2>6, <2>7
  <2>9. rc'[Box(d)] > 0 => life'[Box(d)] = "live"
    BY <1>c, <1>d, <2>5
  <2> QED
    BY <2>8, <2>9 DEF Counted
<1> QED
  BY <1>7, <1>8

LEMMA ThreadCounted ==
  ASSUME MaxLogins = 1, CharlaInv, LoanInv, NEW t \in MailboxThreads, MailboxStep(t)
  PROVE  \A d \in Clients : Counted(d)'
<1>s. t \in Threads /\ t \in Mailboxes /\ t = Box(t[1]) /\ t[1] \in Clients /\ Frame(t)
  BY OwnThread, ThreadFrame
<1>t. entry \in [Threads -> M!Entry \cup {M!NULL}]
  BY DEF CharlaInv, Types, CallTypes
<1>m. /\ pc[t] \notin {"none", "start", "field", "ref", "discard", "done"} => mine[t] = t
      /\ pc[t] = "ref" /\ mine[t] # NoMailbox => mine[t] = t
  BY OwnThread
<1>u. ASSUME NEW l, pc' = [pc EXCEPT ![t] = l], l # "next_unref",
             \A u \in Threads : u # t => entry'[u] = entry[u]
      PROVE  /\ pc'[t] = l /\ \A u \in Threads : u # t => pc'[u] = pc[u]
             /\ \A u \in MailboxThreads : pc'[u] = "next_unref" =>
                  pc[u] = "next_unref" /\ entry'[u] = entry[u]
  <2>1. pc'[t] = l /\ \A u \in Threads : u # t => pc'[u] = pc[u]
    BY <1>s, <1>u, Ground
  <2> QED
    BY <1>u, <2>1, Names
<1>k. ASSUME UNCHANGED <<rc, life, cstat>>, NEW l, pc' = [pc EXCEPT ![t] = l], l # "next_unref",
             \A u \in Threads : u # t => entry'[u] = entry[u],
             l \in Holding => pc[t] \in Holding, \A d \in Clients : Pins(d)' \subseteq Pins(d)
      PROVE  \A d \in Clients : Counted(d)'
  <2>1. pc'[t] = l /\ \A u \in Threads : u # t => pc'[u] = pc[u]
    BY <1>k, <1>u
  <2>2. \A d \in Clients : OwnRef(d)' = OwnRef(d) /\ (Box(d) # t => ThreadRefs(d)' = ThreadRefs(d))
    BY <1>k, <2>1, RefsThread
  <2>3. ASSUME NEW d \in Clients PROVE Counted(d)'
    <3>1. OwnRef(d)' <= OwnRef(d)
      BY <2>2 DEF OwnRef
    <3>2. ThreadRefs(d)' <= ThreadRefs(d)
      BY <1>k, <2>1, <2>2 DEF ThreadRefs
    <3> QED
      BY <1>k, <3>1, <3>2, CountedSame
  <2> QED
    BY <2>3
<1>1. CASE ThreadStart(t) \/ ThreadField(t) \/ ThreadGet(t) \/ ThreadHook(t) \/ ThreadWait(t) \/ ThreadSend(t)
            \/ (ThreadNext(t) /\ M!NextDefunct(t, "quit"))
  <2>1. UNCHANGED <<rc, life, box>>
    BY <1>1 DEF ThreadStart, ThreadField, ThreadGet, ThreadHook, M!SetDiscardHook, ThreadWait,
                M!SemWait, ThreadSend, M!NextDefunct, boxVars, M!boxVars
  <2>2. PICK l \in {"field", "ref", "done", "hook", "loop", "next_lock", "rrcpt", "bounce", "quit"} :
          pc' = [pc EXCEPT ![t] = l] /\ (l \in Holding => pc[t] \in Holding)
    <3>1. CASE ThreadStart(t)
      BY <3>1 DEF ThreadStart, Goto, Holding
    <3>7. CASE ThreadField(t)
      BY <3>7 DEF ThreadField, Goto, Holding
    <3>2. CASE ThreadGet(t)
      BY <3>2 DEF ThreadGet, Goto, Holding
    <3>3. CASE ThreadHook(t)
      BY <3>3 DEF ThreadHook, Goto, Holding
    <3>4. CASE ThreadWait(t)
      BY <3>4 DEF ThreadWait, M!SemWait, M!Goto, Holding
    <3>5. CASE ThreadSend(t)
      BY <3>5 DEF ThreadSend, Goto, Holding
    <3>6. CASE ThreadNext(t) /\ M!NextDefunct(t, "quit")
      BY <3>6 DEF M!NextDefunct, M!Goto, Holding
    <3> QED
      BY <1>1, <3>1, <3>2, <3>3, <3>4, <3>5, <3>6, <3>7
  <2>3. entry' = entry \/ entry' = [entry EXCEPT ![t] = M!NULL]
    BY <1>1 DEF ThreadStart, ThreadField, ThreadGet, ThreadHook, ThreadWait, M!SemWait, ThreadSend,
                M!NextDefunct,
                callVars
  <2>4. \A u \in Threads : u # t => entry'[u] = entry[u]
    BY <1>t, <2>3
  <2>5. cstat' = cstat
    BY <1>1 DEF ThreadStart, ThreadField, ThreadGet, ThreadHook, ThreadWait, ThreadSend, ThreadNext,
                clientVars
  <2>6. \A d \in Clients : Pins(d)' \subseteq Pins(d)
    BY <1>s, <1>u, <2>1, <2>2, <2>4, PinsCalm
  <2> QED
    BY <1>k, <2>1, <2>2, <2>4, <2>5, <2>6
<1>2. CASE ThreadRef(t)
  <2>1. /\ pc[t] = "ref" /\ pc' = [pc EXCEPT ![t] = "get"] /\ UNCHANGED <<life, box, entry, cstat>>
        /\ rc' = [rc EXCEPT ![t] = @ + 1] /\ life[t] = "live"
    BY <1>2, <1>m DEF ThreadRef, M!Ref, M!Unlocked, Goto, callVars, clientVars
  <2>2. /\ pc'[t] = "get" /\ \A u \in Threads : u # t => pc'[u] = pc[u]
        /\ \A u \in MailboxThreads : pc'[u] = "next_unref" => pc[u] = "next_unref" /\ entry'[u] = entry[u]
    BY <1>u, <2>1
  <2>3. \A d \in Clients : Pins(d)' \subseteq Pins(d)
    BY <1>s, <2>1, <2>2, PinsCalm
  <2>4. \A d \in Clients : OwnRef(d)' = OwnRef(d) /\ (Box(d) # t => ThreadRefs(d)' = ThreadRefs(d))
    BY <2>1, <2>2, RefsThread
  <2>5. rc \in [Mailboxes -> Nat]
    BY Ground
  <2>6. ASSUME NEW d \in Clients, Box(d) = t PROVE Counted(d)'
    <3>1. rc'[Box(d)] = rc[Box(d)] + 1 /\ rc'[Box(d)] \in Nat /\ life'[Box(d)] = "live"
      BY <1>s, <2>1, <2>5, <2>6
    <3>2. ThreadRefs(d) = 0 /\ ThreadRefs(d)' = 1
      BY <2>1, <2>2, <2>6 DEF ThreadRefs, Holding
    <3>3. OwnRef(d)' + ThreadRefs(d)' <= OwnRef(d) + ThreadRefs(d) + 1
      BY <2>4, <3>2 DEF OwnRef
    <3> QED
      BY <2>3, <3>1, <3>3, CountedKeep
  <2>7. ASSUME NEW d \in Clients, Box(d) # t PROVE Counted(d)'
    <3>0. PICK k \in Int : k = 0
      OBVIOUS
    <3>1. rc'[Box(d)] = rc[Box(d)] + k /\ rc'[Box(d)] \in Nat /\ rc'[Box(d)] = rc[Box(d)]
      <4>1. Box(d) \in Mailboxes
        BY Ground
      <4> QED
        BY <1>s, <2>1, <2>5, <2>7, <3>0, <4>1
    <3>2. rc'[Box(d)] > 0 => life'[Box(d)] = "live"
      BY <2>1, <3>1 DEF LoanInv, Counted
    <3>3. OwnRef(d)' + ThreadRefs(d)' <= OwnRef(d) + ThreadRefs(d) + k
      BY <2>4, <2>7, <3>0 DEF OwnRef, ThreadRefs
    <3> QED
      BY <2>3, <3>0, <3>1, <3>2, <3>3, CountedKeep
  <2> QED
    BY <2>6, <2>7
<1>3. CASE ThreadNext(t) /\ ~M!NextDefunct(t, "quit")
  <2>1. cstat' = cstat /\ (M!NextRemove(t, "got") \/ M!NextUnrefSome(t, "got") \/ M!NextUnrefLast(t))
    BY <1>3 DEF ThreadNext, clientVars
  <2> QED
    BY <1>s, <2>1, TakeCounted, DropCounted
<1>4. CASE ThreadNotify(t)
  <2>1. PICK kind \in {"BOUNCE", "RRCPT"} : M!AddNotice(entry[t].from, kind, entry[t].id)
    BY <1>4 DEF ThreadNotify
  <2> DEFINE e == [type |-> "notice", id |-> entry[t].id, kind |-> kind]
             m == entry[t].from
  <2>2. /\ pc[t] \in {"rrcpt", "bounce"} /\ pc' = [pc EXCEPT ![t] = "loop"]
        /\ UNCHANGED <<entry, cstat>>
    BY <1>4 DEF ThreadNotify, Goto, callVars, clientVars
  <2>3. UNCHANGED <<rc, life>> /\ M!Enqueue(m, e)
    BY <2>1 DEF M!AddNotice
  <2>4. entry[t] \in M!Message /\ m \in Mailboxes
    BY <2>2, OwnThread
  <2>5. e \in M!Entry /\ ~M!IsMessage(e)
    <3>1. entry[t].id \in Ids
      BY <2>4, Entries
    <3> QED
      BY <3>1, Made DEF M!IsMessage
  <2> HIDE DEF e, m
  <2>6. \A u \in MailboxThreads : pc'[u] = "next_unref" => pc[u] = "next_unref" /\ entry'[u] = entry[u]
    BY <1>u, <2>2
  <2>7. \A d \in Clients : Pins(d)' \subseteq Pins(d)
    BY <1>s, <2>3, <2>4, <2>5, <2>6, PinsPut
  <2>8. pc[t] \in Holding
    BY <2>2 DEF Holding
  <2> QED
    BY <1>k, <2>2, <2>3, <2>7, <2>8
<1>5. CASE ThreadQuit(t)
  <2>1. pc[t] = "quit" /\ cstat' = cstat /\ mine[t] = t
    BY <1>5, <1>m DEF ThreadQuit, clientVars
  <2>2. /\ M!UnrefSome(t) \/ M!UnrefLast(t, t)
        /\ entry' = entry
        /\ pc' = [pc EXCEPT ![t] = "done"] \/ pc' = [pc EXCEPT ![t] = "discard"]
    BY <1>5, <2>1 DEF ThreadQuit, M!UnrefLast, Goto, M!Goto, callVars
  <2>3. /\ pc'[t] \in {"done", "discard"} /\ \A u \in Threads : u # t => pc'[u] = pc[u]
        /\ \A u \in MailboxThreads : pc'[u] = "next_unref" => pc[u] = "next_unref" /\ entry'[u] = entry[u]
    BY <1>u, <2>2
  <2>4. \A m \in Mailboxes : life'[m] = "live" => box'[m] = box[m] /\ (life[m] = "live" \/ box[m] = << >>)
    <3>1. M!UnrefSome(t) \/ (M!Finalise(t, t) /\ box' = box)
      BY <2>2 DEF M!UnrefLast
    <3> QED
      BY <1>s, <3>1, BoxesCalm DEF CharlaInv, Types
  <2>5. \A d \in Clients : Pins(d)' \subseteq Pins(d)
    BY <1>s, <2>3, <2>4, PinsCalm
  <2>6. \A d \in Clients : OwnRef(d)' = OwnRef(d) /\ (Box(d) # t => ThreadRefs(d)' = ThreadRefs(d))
    BY <2>1, <2>3, RefsThread
  <2>7. ASSUME NEW d \in Clients PROVE Counted(d)'
    <3>1. Box(d) = t => ThreadRefs(d) = 1 /\ ThreadRefs(d)' = 0
      BY <2>1, <2>3 DEF ThreadRefs, Holding
    <3>2. OwnRef(d)' + ThreadRefs(d)' <= OwnRef(d) + ThreadRefs(d) - (IF t = Box(d) THEN 1 ELSE 0)
      BY <2>6, <3>1 DEF OwnRef, ThreadRefs
    <3> QED
      BY <1>s, <2>2, <2>5, <3>2, CountedUnref
  <2> QED
    BY <2>7
<1>6. CASE Discard(t)
  BY <1>s, <1>6, DiscardCounted
<1> QED
  BY <1>1, <1>2, <1>3, <1>4, <1>5, <1>6 DEF MailboxStep

-----------------------------------------------------------------------------
(* The type of the one field that only this invariant speaks of.            *)
LEMMA HookTypes ==
  ASSUME hook \in [Mailboxes -> FreshHooks \cup {"null", "discard_hook"}], [Next]_vars
  PROVE  hook' \in [Mailboxes -> FreshHooks \cup {"null", "discard_hook"}]
<1> DEFINE Kinds == FreshHooks \cup {"discard_hook"}
           Goal == hook' = hook \/ \E m, h : h \in Kinds /\ hook' = [hook EXCEPT ![m] = h]
<1>0. ASSUME NEW t, Discard(t) PROVE UNCHANGED hook
  BY <1>0 DEF Discard, M!DiscardToHook, M!DiscardUnhooked, M!DiscardDone, clientVars
<1>1. ASSUME NEW c \in Clients, Request(c) PROVE Goal
  <2>1. CASE HangUp(c)
    BY <2>1 DEF HangUp, boxVars
  <2>2. CASE Login(c)
    <3>1. PICK h \in FreshHooks : hook' = [hook EXCEPT ![<<c, logins[c] + 1>>] = h]
      BY <2>2 DEF Login, M!Create
    <3> QED
      BY <3>1
  <2>3. CASE LogoutPacket(c) \/ SendPacket(c)
    BY <2>3 DEF LogoutPacket, SendPacket, boxVars, clientVars
  <2> QED
    BY <1>1, <2>1, <2>2, <2>3 DEF Request
<1>2. ASSUME NEW c \in Clients, ServiceStep(c) PROVE UNCHANGED hook
  <2>1. CASE Discard(Service(c))
    BY <1>0, <2>1
  <2> QED
    BY <1>2, <2>1 DEF ServiceStep, Spawn, ReadEOF, LogoutShutdown, M!Shutdown, LogoutUnref, M!UnrefSome,
      M!UnrefLast, LogoutClear, JoinMailboxThread, SendLookup, SendToSelf, M!AddOwnMessage, SendLock,
      M!AddMessageLock, SendEnqueue, M!AddMessageRef, boxVars, clientVars
<1>3. ASSUME NEW t \in MailboxThreads, MailboxStep(t) PROVE Goal
  <2>1. CASE Discard(t)
    BY <1>0, <2>1
  <2>2. CASE ThreadHook(t)
    <3>1. hook' = [hook EXCEPT ![mine[t]] = "discard_hook"]
      BY <2>2 DEF ThreadHook, M!SetDiscardHook
    <3> QED
      BY <3>1
  <2>3. CASE ThreadNext(t)
    BY <2>3 DEF ThreadNext, M!NextDefunct, M!boxVars, M!NextRemove, M!NextUnrefSome, M!NextUnrefLast, clientVars
  <2>4. CASE ThreadStart(t) \/ ThreadField(t) \/ ThreadRef(t) \/ ThreadGet(t) \/ ThreadWait(t) \/ ThreadSend(t)
               \/ ThreadNotify(t) \/ ThreadQuit(t)
    BY <2>4 DEF ThreadStart, ThreadField, ThreadRef, M!Ref, ThreadGet, ThreadWait, M!SemWait, ThreadSend,
      ThreadNotify, M!AddNotice, ThreadQuit, M!UnrefSome, M!UnrefLast, boxVars, clientVars
  <2> QED
    BY <1>3, <2>1, <2>2, <2>3, <2>4 DEF MailboxStep
<1>4. ASSUME UNCHANGED vars PROVE Goal
  BY <1>4 DEF vars, boxVars, clientVars
<1>5. Goal
  BY <1>1, <1>2, <1>3, <1>4 DEF Next
<1> QED
  BY <1>5

(* At the start nothing is there.                                           *)
LEMMA LoanInit ==
  ASSUME MaxLogins = 1, Init
  PROVE  LoanInv
<1>1. hook = [m \in Mailboxes |-> "null"] /\ logins = [c \in Clients |-> 0]
  BY DEF Init, M!BoxInit
<1>2. ASSUME NEW c \in Clients
      PROVE  /\ Box(c) \in Mailboxes /\ Box(c) \in Threads
             /\ pc[Box(c)] = "none" /\ pc[Service(c)] = "serve" /\ ~LoggedIn(c)
             /\ mine[Box(c)] = NoMailbox
             /\ logins[c] = 0 /\ life[Box(c)] = "unborn" /\ rc[Box(c)] = 0
  <2>1. /\ Box(c) \in Mailboxes /\ Box(c) \in Threads /\ Service(c) \in Threads
        /\ Box(c) \in MailboxThreads /\ Box(c)[2] = 1 /\ Service(c)[2] = 0
    BY OneBox
  <2> QED
    BY <2>1 DEF Init, M!BoxInit, LoggedIn
<1>3. \A t \in Threads : entry[t] = M!NULL /\ todo[t] = << >> /\ pc[t] \in {"serve", "none"}
  BY DEF Init, M!CallInit
<1>4. \A x \in Traffic : ~Pinned(x)
  <2> SUFFICES ASSUME NEW x \in Traffic, Pinned(x) PROVE FALSE
    OBVIOUS
  <2>1. x.to \in Clients
    BY TrafficOK
  <2> QED
    BY <1>2, <1>3, <2>1 DEF Pinned, Queued, InHandOf, DoomedAt
<1>5. ASSUME NEW c \in Clients PROVE Begun(c) /\ HookSet(c) /\ Addressed(c) /\ Counted(c)
  <2>1. Begun(c) /\ HookSet(c) /\ Addressed(c)
    BY <1>2, <1>5 DEF Begun, HookSet, Early, Addressed, Sending
  <2>2. Pins(c) = {}
    BY <1>4 DEF Pins
  <2>3. Cardinality(Pins(c)) = 0
    BY <2>2, FS_EmptySet
  <2>4. OwnRef(c) = 0 /\ ThreadRefs(c) = 0
    BY <1>2, <1>5 DEF OwnRef, ThreadRefs, Holding
  <2>5. Counted(c)
    BY <1>2, <1>5, <2>3, <2>4 DEF Counted
  <2> QED
    BY <2>1, <2>5
<1>6. \A t \in Threads : Doomed(t) /\ Locked(t)
  BY <1>3 DEF Doomed, Locked, Nested, M!Discarding
<1>7. Froms
  <2>1. \A m \in Mailboxes : box[m] = << >>
    BY DEF Init, M!BoxInit
  <2>2. FromOK(M!NULL)
    BY FromsEnds
  <2> QED
    BY <1>3, <2>1, <2>2 DEF Froms
<1> QED
  BY <1>1, <1>5, <1>6, <1>7 DEF LoanInv

LEMMA LoanStep ==
  ASSUME MaxLogins = 1, CharlaInv, LoanInv, [Next]_vars
  PROVE  LoanInv'
<1> DEFINE Goal == /\ \A d \in Clients : Begun(d)' /\ HookSet(d)' /\ Addressed(d)' /\ Counted(d)'
                   /\ \A t \in Threads : Doomed(t)' /\ Locked(t)'
                   /\ Froms'
<1>0. \A d \in Clients : LoggedOut(d) => LoggedOut(d)'
  BY LoggedOutStays
<1>1. ASSUME NEW c \in Clients, Request(c) PROVE Goal
  BY <1>0, <1>1, RequestBegun, RequestCounted, ServiceDoomed, RequestFroms
<1>2. ASSUME NEW c \in Clients, ServiceStep(c) PROVE Goal
  BY <1>0, <1>2, ServiceBegun, ServiceCounted, ServiceDoomed, ServiceFroms
<1>3. ASSUME NEW t \in MailboxThreads, MailboxStep(t) PROVE Goal
  BY <1>0, <1>3, ThreadBegun, ThreadCounted, ThreadDoomed, ThreadFroms
<1>4. ASSUME UNCHANGED vars PROVE Goal
  <2>1. /\ UNCHANGED <<life, rc, hook, box, lock, pc, mb, entry, todo>>
        /\ UNCHANGED <<cstat, tid, logins, job, target, mine>>
    BY <1>4 DEF vars, boxVars, callVars, clientVars, sendVars
  <2>2. ASSUME NEW d \in Clients PROVE Begun(d)' /\ HookSet(d)' /\ Addressed(d)'
    <3>1. Begun(d) /\ HookSet(d)
      BY Ground
    <3>2. LoggedOut(d)' <=> LoggedOut(d)
      BY <2>1 DEF LoggedOut, LoggedIn
    <3> QED
      BY <1>0, <2>1, <3>1, <3>2, AddressedKept DEF Begun, HookSet
  <2>3. ASSUME NEW t \in Threads PROVE Doomed(t)' /\ Locked(t)'
    <3>1. Doomed(t) /\ Locked(t)
      BY Ground
    <3>2. (M!Discarding(t)' <=> M!Discarding(t)) /\ M!Dying(t)' = M!Dying(t)
      BY <2>1 DEF M!Discarding, M!Dying
    <3> QED
      BY <2>1, <3>1, <3>2 DEF Doomed, Locked, For, M!IsMessage
  <2>4. Froms'
    BY <2>1 DEF LoanInv, Froms, FromOK, M!IsMessage
  <2>5. \A d \in Clients : Pins(d)' \subseteq Pins(d)
    BY <2>1 DEF Pins, Pinned, Queued, InHandOf, DoomedAt, M!IsMessage
  <2>6. ASSUME NEW d \in Clients PROVE Counted(d)'
    <3>1. OwnRef(d)' = OwnRef(d) /\ ThreadRefs(d)' = ThreadRefs(d)
      BY <2>1 DEF OwnRef, ThreadRefs, LoggedIn
    <3>2. OwnRef(d)' <= OwnRef(d) /\ ThreadRefs(d)' <= ThreadRefs(d)
      BY <3>1 DEF OwnRef, ThreadRefs
    <3> QED
      BY <2>1, <2>5, <3>2, CountedSame
  <2> QED
    BY <2>2, <2>3, <2>4, <2>6
<1>5. Goal
  BY <1>1, <1>2, <1>3, <1>4 DEF Next
<1>6. hook' \in [Mailboxes -> FreshHooks \cup {"null", "discard_hook"}]
  BY HookTypes DEF LoanInv
<1> QED
  BY <1>5, <1>6 DEF LoanInv

-----------------------------------------------------------------------------
(* What is lent is there until the lender logs out, and the mailbox of who  *)
(* sent a pinned message as long as it is.                                  *)
LEMMA LentLive ==
  ASSUME MaxLogins = 1, CharlaInv, LoanInv, NEW c \in Clients, logins[c] = 1
  PROVE  LoggedOut(c) \/ Usable(Box(c))
<1>1. LoggedOut(c) \/ OwnRef(c) = 1
  BY DEF LoggedOut, OwnRef
<1>2. Box(c) # NoMailbox
  BY OneBox
<1> QED
  BY <1>1, <1>2, OwnLive DEF Usable

LEMMA PinnedLive ==
  ASSUME MaxLogins = 1, CharlaInv, LoanInv, NEW x \in Traffic, Pinned(x)
  PROVE  Usable(Box(x.from))
<1>1. x.from \in Clients /\ x \in Pins(x.from)
  BY TrafficOK DEF Pins
<1>2. Cardinality(Pins(x.from)) # 0 /\ Cardinality(Pins(x.from)) \in Nat
  BY <1>1, PinsFinite, FS_EmptySet
<1>3. /\ rc[Box(x.from)] \in Nat /\ OwnRef(x.from) \in Nat /\ ThreadRefs(x.from) \in Nat
      /\ rc[Box(x.from)] >= OwnRef(x.from) + ThreadRefs(x.from) + Cardinality(Pins(x.from))
      /\ rc[Box(x.from)] > 0 => life[Box(x.from)] = "live"
  BY <1>1, OwnLive DEF LoanInv, Counted
<1>4. rc[Box(x.from)] > 0
  BY <1>2, <1>3
<1> QED
  BY <1>1, <1>3, <1>4, OneBox DEF Usable

(* A message that is bounced out of a mailbox is pinned until then, and the *)
(* mailbox thread of a freed mailbox has set the hook if it ever got there. *)
LEMMA HookedUse ==
  ASSUME MaxLogins = 1, CharlaInv, LoanInv, NEW t \in Threads, M!Hooked(t)
  PROVE  /\ Usable(Head(todo[t]).from)
         /\ mine[M!Dying(t)] # NoMailbox /\ pc[M!Dying(t)] # "ref" => hook[M!Dying(t)] = "discard_hook"
<1> DEFINE e == Head(todo[t])
           m == M!Dying(t)
<1>1. M!Discarding(t) /\ todo[t] # << >> /\ M!IsMessage(e) /\ e.from # m
  BY DEF M!Hooked, M!HoldsRef
<1>2. 1 \in DOMAIN todo[t] /\ e = todo[t][1] /\ FromOK(e)
  <2>1. todo[t] \in Seq(M!Entry)
    BY DEF CharlaInv, Types, CallTypes
  <2>2. FromsIn(todo[t])
    BY FromsGround
  <2> QED
    BY <1>1, <2>1, <2>2, FromsEnds, TailAt
<1>3. m \in Mailboxes /\ life[m] = "freed" /\ For(e, m[1])
  <2>1. Doomed(t)
    BY Ground
  <2> QED
    BY <1>1, <1>2, <2>1 DEF Doomed
<1> HIDE DEF e, m
<1>4. PICK x \in Traffic : x.id = e.id /\ e.from = Box(x.from)
  BY <1>1, <1>2 DEF FromOK
<1>5. m = Box(x.to)
  BY <1>1, <1>3, <1>4, Ground DEF For
<1>6. x.from # x.to
  BY <1>1, <1>4, <1>5
<1>7. DoomedAt(x, t, 1)
  BY <1>1, <1>2, <1>4 DEF DoomedAt
<1>8. Usable(e.from)
  BY <1>4, <1>6, <1>7, PinnedLive DEF Pinned
<1>9. ASSUME mine[m] # NoMailbox, pc[m] # "ref" PROVE hook[m] = "discard_hook"
  <2>1. m = Box(m[1]) /\ m[1] \in Clients /\ pc[m] \in ThreadLabels
    BY <1>3, OneBox, OwnThread
  <2>2. HookSet(m[1])
    BY <2>1, Ground
  <2>3. pc[m] \notin Holding
    <3> SUFFICES ASSUME pc[m] \in Holding PROVE FALSE
      OBVIOUS
    <3>1. ThreadRefs(m[1]) = 1
      BY <2>1 DEF ThreadRefs
    <3> QED
      BY <1>3, <2>1, <3>1, OwnLive
  <2>4. pc[m] \notin Early
    BY <1>9, <2>1, <2>2, <2>3 DEF HookSet, Early, Holding
  <2> QED
    BY <1>9, <2>1, <2>2, <2>4 DEF HookSet
<1> QED
  BY <1>8, <1>9 DEF e, m

LEMMA UsesAre ==
  ASSUME NEW t \in Threads
  PROVE  /\ pc[t] \in {"ref", "hook", "loop", "quit"} => Uses(t) = {mine[t]}
         /\ pc[t] = "next_lock" => Uses(t) = {mb[t]}
         /\ pc[t] \in {"next_unref", "rrcpt", "bounce"} => Uses(t) = {entry[t].from}
         /\ pc[t] = "add_ref" => Uses(t) = {mb[t], entry[t].from}
         /\ pc[t] = "add" => Uses(t) = {target[t[1]], cbox[t[1]]}
         /\ pc[t] \in {"shutdown", "unref"} => Uses(t) = {cbox[t[1]]}
         /\ \/ pc[t] \in {"ref", "hook", "loop", "quit", "next_lock", "next_unref", "rrcpt", "bounce",
                         "add_ref", "add", "shutdown", "unref"}
            \/ \A m \in Uses(t) : M!Hooked(t) /\ m = Head(todo[t]).from
<1>1. pc[t] \notin {"discard", "next_discard"} => ~M!Hooked(t)
  BY DEF M!Hooked, M!Discarding
<1>2. pc[t] \in {"ref", "hook", "loop", "quit"} => Uses(t) = {mine[t]}
  BY <1>1 DEF Uses
<1>3. pc[t] = "next_lock" => Uses(t) = {mb[t]}
  BY <1>1 DEF Uses
<1>4. pc[t] \in {"next_unref", "rrcpt", "bounce"} => Uses(t) = {entry[t].from}
  BY <1>1 DEF Uses
<1>5. pc[t] = "add_ref" => Uses(t) = {mb[t], entry[t].from}
  BY <1>1 DEF Uses
<1>6. pc[t] = "add" => Uses(t) = {target[t[1]], cbox[t[1]]}
  BY <1>1 DEF Uses
<1>7. pc[t] \in {"shutdown", "unref"} => Uses(t) = {cbox[t[1]]}
  BY <1>1 DEF Uses
<1>8. \/ pc[t] \in {"ref", "hook", "loop", "quit", "next_lock", "next_unref", "rrcpt", "bounce",
                   "add_ref", "add", "shutdown", "unref"}
      \/ \A m \in Uses(t) : M!Hooked(t) /\ m = Head(todo[t]).from
  BY DEF Uses
<1> QED
  BY <1>2, <1>3, <1>4, <1>5, <1>6, <1>7, <1>8

LEMMA ServiceUse ==
  ASSUME MaxLogins = 1, CharlaInv, LoanInv, NEW c \in Clients, NEW m \in Uses(Service(c))
  PROVE  Usable(m) \/ \E d \in Lender(Service(c), m) : LoggedOut(d)
<1> DEFINE t == Service(c)
<1>1. t \in Threads /\ t[1] = c /\ pc[t] \in ServiceLabels
  BY OneBox, OwnService
<1>2. ASSUME pc[t] \in {"add", "add_ref", "shutdown", "unref"} PROVE cbox[c] = Box(c) /\ Usable(Box(c))
  <2>1. LoggedIn(c) /\ cbox[c] = Box(c)
    BY <1>2, OwnService
  <2>2. OwnRef(c) = 1
    BY <1>2, <2>1 DEF OwnRef
  <2> QED
    BY <2>1, <2>2, OwnLive, OneBox DEF Usable
<1>3. CASE pc[t] = "add"
  <2>1. m = target[c] \/ m = Box(c)
    BY <1>1, <1>2, <1>3, UsesAre
  <2>2. /\ job[c].to \in Clients /\ logins[job[c].to] = 1
        /\ target[c] = Box(job[c].to) \/ LoggedOut(job[c].to)
    <3>1. Addressed(c)
      BY Ground
    <3> QED
      BY <1>3, <3>1, OwnService DEF Addressed, Sending
  <2>3. Usable(target[c]) \/ LoggedOut(job[c].to)
    BY <2>2, LentLive
  <2>4. m = target[c] => Lender(t, m) = {job[c].to}
    BY <1>1, <1>3 DEF Lender
  <2> QED
    BY <1>2, <1>3, <2>1, <2>3, <2>4
<1>4. CASE pc[t] = "add_ref"
  <2>1. Usable(mb[t])
    <3>1. mb[t] = Box(job[c].to) /\ job[c].to \in Clients
      BY <1>4, OwnService DEF Sending
    <3>2. Locked(t)
      BY <1>1, Ground
    <3> QED
      BY <1>4, <3>1, <3>2, OneBox DEF Locked, Nested, Usable
  <2>2. entry[t].from = cbox[c]
    <3>1. ServiceOK(c)
      BY DEF CharlaInv, Routes
    <3>2. entry[t] = [type |-> "message", id |-> job[c].id, from |-> cbox[c]]
      BY <1>4, <3>1 DEF ServiceOK
    <3> QED
      BY <3>2
  <2> QED
    BY <1>1, <1>2, <1>4, <2>1, <2>2, UsesAre
<1>5. CASE pc[t] \in {"shutdown", "unref"}
  BY <1>1, <1>2, <1>5, UsesAre
<1>6. CASE pc[t] \notin {"add", "add_ref", "shutdown", "unref"}
  <2>1. M!Hooked(t) /\ m = Head(todo[t]).from
    BY <1>1, <1>6, UsesAre DEF ServiceLabels
  <2> QED
    BY <1>1, <2>1, HookedUse
<1> QED
  BY <1>3, <1>4, <1>5, <1>6

LEMMA ThreadUse ==
  ASSUME MaxLogins = 1, CharlaInv, LoanInv, NEW t \in MailboxThreads, NEW m \in Uses(t)
  PROVE  Usable(m) \/ \E d \in Lender(t, m) : LoggedOut(d)
<1> DEFINE c == t[1]
<1>1. t \in Threads /\ t \in Mailboxes /\ t = Box(c) /\ c \in Clients /\ pc[t] \in ThreadLabels
  BY OwnThread
<1>2. CASE pc[t] = "ref"
  <2>1. m = mine[t] /\ Lender(t, m) = {c}
    BY <1>1, <1>2, UsesAre DEF Lender
  <2>2. logins[c] = 1 /\ (mine[t] = Box(c) \/ LoggedOut(c))
    <3>1. Begun(c) /\ HookSet(c)
      BY <1>1, Ground
    <3> QED
      BY <1>1, <1>2, <3>1 DEF Begun, HookSet
  <2> QED
    BY <1>1, <2>1, <2>2, LentLive
<1>3. CASE pc[t] \in {"hook", "loop", "quit", "next_lock"}
  <2>1. m = t
    BY <1>1, <1>3, OwnThread, UsesAre
  <2>2. ThreadRefs(c) = 1
    BY <1>1, <1>3 DEF ThreadRefs, Holding
  <2> QED
    BY <1>1, <2>1, <2>2, OwnLive, OneBox DEF Usable
<1>4. CASE pc[t] = "next_unref"
  <2>1. m = entry[t].from
    BY <1>1, <1>4, UsesAre
  <2>2. PICK x \in Traffic : entry[t].from = Box(x.from) /\ x \in Pins(x.from)
    BY <1>4, InHandPins
  <2> QED
    BY <2>1, <2>2, PinnedLive DEF Pins
<1>5. CASE pc[t] \in {"rrcpt", "bounce"}
  <2>1. m = entry[t].from /\ Lender(t, m) = {m[1]}
    BY <1>1, <1>5, UsesAre DEF Lender
  <2>2. M!IsMessage(entry[t]) /\ FromOK(entry[t])
    BY <1>1, <1>5, OwnThread DEF LoanInv, Froms
  <2>3. PICK x \in Traffic : entry[t].from = Box(x.from) /\ logins[x.from] = 1
    BY <2>2 DEF FromOK
  <2>4. x.from \in Clients /\ Box(x.from)[1] = x.from
    BY TrafficOK, OneBox
  <2> QED
    BY <2>1, <2>3, <2>4, LentLive
<1>6. CASE pc[t] \notin {"ref", "hook", "loop", "quit", "next_lock", "next_unref", "rrcpt", "bounce"}
  <2>1. M!Hooked(t) /\ m = Head(todo[t]).from
    BY <1>1, <1>6, UsesAre DEF ThreadLabels
  <2> QED
    BY <1>1, <2>1, HookedUse
<1> QED
  BY <1>2, <1>3, <1>4, <1>5, <1>6

LEMMA LoansFollow ==
  ASSUME MaxLogins = 1, CharlaInv, LoanInv
  PROVE  OnlyLogoutRaces
<1>1. \A t \in Threads : \A m \in Uses(t) : Usable(m) \/ \E c \in Lender(t, m) : LoggedOut(c)
  BY ServiceUse, ThreadUse, OneBox
<1>2. ASSUME NEW t \in MailboxThreads, pc[t] = "start" PROVE ~ClientFreed(t[1])
  <2>1. t = Box(t[1]) /\ t[1] \in Clients
    BY OwnThread
  <2>2. Begun(t[1])
    BY <2>1, Ground
  <2> QED
    BY <1>2, <2>1, <2>2 DEF Begun, ClientFreed, At
<1>3. \A t \in Threads :
        M!Hooked(t) /\ mine[M!Dying(t)] # NoMailbox /\ pc[M!Dying(t)] # "ref"
          => hook[M!Dying(t)] = "discard_hook"
  BY HookedUse
<1> QED
  BY <1>1, <1>2, <1>3 DEF OnlyLogoutRaces

(* For any clients and messages, as long as each client logs in once and    *)
(* whoever logs out or hangs up at any time, whatever malloc left in a hook *)
(* and whichever write fails: the reference counts of mailbox.c and         *)
(* client.c protect every use of a mailbox except the three that server.c   *)
(* makes of one it only borrows, and these until the lender logs out; and   *)
(* entries are discarded through the hook that the mailbox thread set.      *)
THEOREM OnlyLogoutRacesHolds ==
  ASSUME MaxLogins = 1
  PROVE  Spec => []OnlyLogoutRaces
<1>1. Init => CharlaInv /\ LoanInv
  BY CharlaInit, LoanInit
<1>2. CharlaInv /\ LoanInv /\ [Next]_vars => (CharlaInv /\ LoanInv)'
  BY CharlaStep, LoanStep
<1>3. CharlaInv /\ LoanInv => OnlyLogoutRaces
  BY LoansFollow
<1> QED
  BY <1>1, <1>2, <1>3, PTL DEF Spec
=============================================================================
