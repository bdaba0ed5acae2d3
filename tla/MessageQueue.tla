---------------------------- MODULE MessageQueue ----------------------------
(***************************************************************************)
(* What a mailbox promises to its callers, without mutexes, semaphores or  *)
(* reference counts: entries are added at the end and removed, each once,  *)
(* from the front; nothing is removed once the mailbox is closed; when it  *)
(* is destroyed, the sender of every message left in it is owed exactly    *)
(* one bounce notice, provided a discard hook was installed by then.       *)
(***************************************************************************)
EXTENDS Naturals, Sequences, FiniteSets

CONSTANTS Mailboxes, Entry, Bounce

VARIABLES phase,    \* "unborn", "open", "closed" or "gone"
          hooked,   \* the discard hook is installed
          queue,    \* the entries, oldest first
          owed      \* bounce notices each mailbox is still owed

vars == <<phase, hooked, queue, owed>>

Init ==
  /\ phase  = [m \in Mailboxes |-> "unborn"]
  /\ hooked = [m \in Mailboxes |-> FALSE]
  /\ queue  = [m \in Mailboxes |-> << >>]
  /\ owed   = [m \in Mailboxes |-> 0]

Exists(m) == phase[m] \in {"open", "closed"}

Open(m) ==
  /\ phase[m] = "unborn"
  /\ phase' = [phase EXCEPT ![m] = "open"]
  /\ UNCHANGED <<hooked, queue, owed>>

Install(m) ==
  /\ Exists(m)
  /\ hooked' = [hooked EXCEPT ![m] = TRUE]
  /\ UNCHANGED <<phase, queue, owed>>

Put(m, e) ==
  /\ Exists(m)
  /\ queue' = [queue EXCEPT ![m] = Append(@, e)]
  /\ UNCHANGED <<phase, hooked, owed>>

Take(m) ==
  /\ phase[m] = "open" /\ queue[m] # << >>
  /\ queue' = [queue EXCEPT ![m] = Tail(@)]
  /\ UNCHANGED <<phase, hooked, owed>>

Close(m) ==
  /\ Exists(m)
  /\ phase' = [phase EXCEPT ![m] = "closed"]
  /\ UNCHANGED <<hooked, queue, owed>>

(* The messages in m that x sent, other than to itself.                    *)
Foreign(m, x) ==
  Cardinality({i \in DOMAIN queue[m] :
                 queue[m][i].type = "message" /\ queue[m][i].from = x /\ x # m})

Destroy(m) ==
  /\ Exists(m)
  /\ phase' = [phase EXCEPT ![m] = "gone"]
  /\ queue' = [queue EXCEPT ![m] = << >>]
  /\ owed' = [x \in Mailboxes |->
                owed[x] + (IF hooked[m] THEN Foreign(m, x) ELSE 0)]
  /\ UNCHANGED hooked

PayBounce(m) ==
  /\ Exists(m) /\ owed[m] > 0
  /\ owed' = [owed EXCEPT ![m] = @ - 1]
  /\ queue' = [queue EXCEPT ![m] = Append(@, Bounce)]
  /\ UNCHANGED <<phase, hooked>>

Next ==
  \E m \in Mailboxes :
    \/ Open(m) \/ Install(m) \/ Take(m) \/ Close(m) \/ Destroy(m)
    \/ PayBounce(m)
    \/ \E e \in Entry : Put(m, e)

Spec == Init /\ [][Next]_vars
=============================================================================
