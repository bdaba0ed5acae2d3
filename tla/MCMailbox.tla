----------------------------- MODULE MCMailbox -----------------------------
(* Small instances of the mailbox module under its most general client.    *)
EXTENDS MailboxRefinement, TLC

(* What an idle thread last got from mb_next_entry and the count of leaked *)
(* references influence no step.                                           *)
View == <<life, status, hook, rc, box, store, lock, pc, mb, todo,
          [t \in Threads |-> IF pc[t] = "idle" THEN NULL ELSE entry[t]]>>

(* Message ids are numbers in Mailbox, so they are not permuted.           *)
Symmetry == Permutations(Threads) \cup Permutations(Mailboxes)
=============================================================================
