----------------------------- MODULE PrintQueue -----------------------------
(***************************************************************************)
(* What a print spooler promises: a queue of jobs, each of which waits, is *)
(* served by one enabled printer that it suits and that serves no other    *)
(* job, may be paused and resumed, ends well or badly, and leaves.         *)
(*                                                                         *)
(* The user may turn down a job that waits, and also one that has ended.   *)
(***************************************************************************)
CONSTANTS Jobs, Printers, Nobody

VARIABLES
  state,     \* of each place in the queue
  server,    \* the printer that serves it, or Nobody
  asked,     \* the printers the user would have it served by
  enabled    \* printers that may be given a job

qvars == <<state, server, asked, enabled>>

Init ==
  /\ state = [i \in Jobs |-> "none"]
  /\ server = [i \in Jobs |-> Nobody]
  /\ asked = [i \in Jobs |-> {}]
  /\ enabled = {}

Become(i, s) == state' = [state EXCEPT ![i] = s]

Submit(i) ==
  /\ state[i] = "none"
  /\ Become(i, "created")
  /\ \E P \in SUBSET Printers : asked' = [asked EXCEPT ![i] = P]
  /\ UNCHANGED <<server, enabled>>

Serve(i, p) ==
  /\ state[i] = "created"
  /\ p \in enabled \cap asked[i] /\ \A j \in Jobs : server[j] # p
  /\ Become(i, "running")
  /\ server' = [server EXCEPT ![i] = p]
  /\ UNCHANGED <<asked, enabled>>

Hold(i) ==
  /\ state[i] \in {"running", "paused"}
  /\ \E s \in {"running", "paused"} : Become(i, s)
  /\ UNCHANGED <<server, asked, enabled>>

Finish(i) ==
  /\ state[i] \in {"running", "paused"}
  /\ \E s \in {"finished", "aborted"} : Become(i, s)
  /\ server' = [server EXCEPT ![i] = Nobody]
  /\ UNCHANGED <<asked, enabled>>

TurnDown(i) ==
  /\ state[i] \in {"created", "finished", "aborted"}
  /\ Become(i, "aborted")
  /\ UNCHANGED <<server, asked, enabled>>

(* Several jobs may leave at once.                                         *)
Leave(S) ==
  /\ \A i \in S : state[i] \in {"finished", "aborted"}
  /\ state' = [i \in Jobs |-> IF i \in S THEN "none" ELSE state[i]]
  /\ UNCHANGED <<server, asked, enabled>>

(* A printer is enabled or disabled, also while it serves a job.           *)
Switch(p) ==
  /\ \E E \in {enabled \cup {p}, enabled \ {p}} : enabled' = E
  /\ UNCHANGED <<state, server, asked>>

Next ==
  \/ \E i \in Jobs : Submit(i) \/ Hold(i) \/ Finish(i) \/ TurnDown(i)
                     \/ \E p \in Printers : Serve(i, p)
  \/ \E S \in SUBSET Jobs : Leave(S)
  \/ \E p \in Printers : Switch(p)

Spec == Init /\ [][Next]_qvars
=============================================================================
