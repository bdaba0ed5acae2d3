------------------------- MODULE MailboxRefinement -------------------------
(***************************************************************************)
(* mailbox.c implements MessageQueue.  The list of a live mailbox is the   *)
(* abstract queue.  The bounce notices owed to x are the messages from x   *)
(* that some thread, finalising a mailbox, still has to pass to its        *)
(* discard hook.  (A thread that meets a hook mb_init left uninitialised   *)
(* goes no further, and owes nothing.)                                     *)
(***************************************************************************)
EXTENDS Mailbox

Phase(m) ==
  CASE life[m] = "unborn" -> "unborn"
    [] life[m] = "freed" -> "gone"
    [] life[m] = "live" /\ status[m] = "ACTIVE" -> "open"
    [] life[m] = "live" /\ status[m] # "ACTIVE" -> "closed"

(* The messages from x that t has to pass on: their distances from the end *)
(* of the list, which do not change as the list gets shorter.              *)
Due(t, x) ==
  IF Discarding(t) /\ hook[Dying(t)] = "discard_hook"
    THEN {k \in 1..Len(todo[t]) :
            LET e == todo[t][Len(todo[t]) + 1 - k]
            IN  HoldsRef(Dying(t), e) /\ e.from = x}
    ELSE {}

OwedTo(x) == UNION {{t} \X Due(t, x) : t \in Threads}

Queue == INSTANCE MessageQueue WITH
  Bounce <- [type |-> "notice", id |-> NoMsgId, kind |-> "BOUNCE"],
  phase  <- [m \in Mailboxes |-> Phase(m)],
  hooked <- [m \in Mailboxes |-> hook[m] = "discard_hook"],
  queue  <- [m \in Mailboxes |-> IF life[m] = "live" THEN box[m] ELSE << >>],
  owed   <- [x \in Mailboxes |-> Cardinality(OwedTo(x))]

(* mailbox.h, README: every entry leaves its mailbox once and in order, a  *)
(* closed mailbox hands out nothing, and every message that is discarded   *)
(* with a hook installed is bounced to its sender exactly once.            *)
ImplementsQueue == Queue!Spec
=============================================================================
