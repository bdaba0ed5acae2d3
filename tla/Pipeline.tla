------------------------------ MODULE Pipeline ------------------------------
(***************************************************************************)
(* The master process of one job of hw4: the child's branch of start_job   *)
(* and pipeline_handler (custom_functions.c).                              *)
(*                                                                         *)
(* Stage k is the process of path[k].  It reads a unit of data, from the   *)
(* file or from the pipe before it, and writes it, to the printer or to    *)
(* the pipe behind it, until the end of what it reads; it may also fail.   *)
(* The write end of pipe k is open in stage k alone, because the master    *)
(* closes its own.  The read end stays open in the master and in all the   *)
(* later stages, so that a stage that writes to a dead one is not told.    *)
(*                                                                         *)
(* Stopping and continuing the group changes nothing here and is left out; *)
(* that a stage is killed is one of the ways it may fail.                  *)
(***************************************************************************)
EXTENDS Integers, FiniteSets

CONSTANTS
  MaxLength,     \* bound: conversions in a path
  Size,          \* units in the file
  Capacity,      \* units that a pipe holds
  MayFail        \* whether the printer, the file, fork or a stage may fail

ASSUME BoundsNat == MaxLength \in Nat /\ Size \in Nat /\ Capacity \in Nat \ {0}

VARIABLES
  length,        \* of path
  master_pc,
  forks,         \* the i of start_job's loop: how many times the master forked
  job_process_count, exitValue,
  exit_status,   \* the argument of exit, once the master called it
  handling, sigchld,
  stage,         \* not forked, running, ended (with 0 or not), or reaped
  failed,        \* stages that ended otherwise than with 0
  taken, given   \* how many units a stage has read, and written

masterVars == <<master_pc, forks, job_process_count, exitValue, exit_status, handling>>
dataVars   == <<taken, given>>
pipelineVars == <<length, masterVars, sigchld, stage, failed, dataVars>>

AllStages == 0..MaxLength

(* With an empty path one stage runs cat.                                  *)
Cat       == length = 0
Stages    == IF Cat THEN {0} ELSE 0..(length - 1)
IsLast(k) == Cat \/ k = length - 1

PipelineInit ==
  /\ length \in 0..MaxLength
  /\ master_pc = "connect" /\ forks = 0 /\ job_process_count = 0 /\ exitValue = 0
  /\ exit_status = -1 /\ handling = FALSE /\ sigchld = FALSE
  /\ stage = [k \in AllStages |-> "none"]
  /\ failed = {}
  /\ taken = [k \in AllStages |-> 0]
  /\ given = [k \in AllStages |-> 0]

Exit(n) == master_pc' = "exited" /\ exit_status' = n
Runs(k) == stage[k] = "running"

-----------------------------------------------------------------------------
(* Stages.                                                                 *)
Offered(k) == IF k = 0 THEN Size ELSE given[k - 1]
Carries(k) == given[k] < taken[k]
Full(k)    == ~IsLast(k) /\ given[k] - taken[k + 1] = Capacity

Read(k) ==
  /\ Runs(k) /\ ~Carries(k) /\ taken[k] < Offered(k)
  /\ taken' = [taken EXCEPT ![k] = @ + 1]
  /\ UNCHANGED <<length, masterVars, sigchld, stage, failed, given>>

Deaf(k) == ~IsLast(k) /\ master_pc = "exited" /\ \A j \in Stages : j > k => ~Runs(j)

Write(k) ==
  /\ Runs(k) /\ Carries(k) /\ ~Full(k) /\ ~Deaf(k)
  /\ given' = [given EXCEPT ![k] = @ + 1]
  /\ UNCHANGED <<length, masterVars, sigchld, stage, failed, taken>>

(* A stage that ends is a zombie until the master reaps it, or gone when   *)
(* the master is.                                                          *)
StageEnds(k) ==
  /\ stage' = [stage EXCEPT ![k] = "ended"]
  /\ sigchld' = (sigchld \/ master_pc # "exited")
  /\ UNCHANGED <<length, masterVars, dataVars>>

Gone(k) == stage[k] \in {"ended", "reaped"}

(* Mutant: the master keeps the write ends of the pipes.                   *)
InputEndsHeld(k) ==
  taken[k] = Offered(k) /\ (k > 0 => Gone(k - 1) /\ master_pc = "exited")

InputEnds(k) == taken[k] = Offered(k) /\ (k > 0 => Gone(k - 1))

StageSucceeds(k) ==
  /\ Runs(k) /\ ~Carries(k) /\ InputEnds(k)
  /\ StageEnds(k) /\ UNCHANGED failed

(* Of its own accord, hence not while it waits to write.                   *)
StageFails(k) ==
  /\ Runs(k) /\ MayFail /\ ~(Carries(k) /\ Full(k))
  /\ StageEnds(k) /\ failed' = failed \cup {k}

(* SIGPIPE.                                                                *)
StageBreaks(k) ==
  /\ Runs(k) /\ Carries(k) /\ Deaf(k)
  /\ StageEnds(k) /\ failed' = failed \cup {k}

-----------------------------------------------------------------------------
(* The master.                                                             *)
Connect ==
  /\ master_pc = "connect" /\ master_pc' = IF Cat THEN "cat" ELSE "loop"
  /\ UNCHANGED <<length, forks, job_process_count, exitValue, exit_status, handling,
                 sigchld, stage, failed, dataVars>>

(* imp_connect_to_printer, open or a call on the signal mask fails.        *)
ConnectFails ==
  /\ master_pc = "connect" /\ MayFail /\ Exit(1)
  /\ UNCHANGED <<length, forks, job_process_count, exitValue, handling, sigchld,
                 stage, failed, dataVars>>

Fork(k) == stage' = [stage EXCEPT ![k] = "running"] /\ forks' = forks + 1

(* An empty path: SIGCHLD is still blocked, waitpid waits.                 *)
ForkCat ==
  /\ master_pc = "cat" /\ forks = 0 /\ Fork(0)
  /\ UNCHANGED <<length, master_pc, job_process_count, exitValue, exit_status, handling,
                 sigchld, failed, dataVars>>

WaitCat ==
  /\ master_pc = "cat" /\ stage[0] = "ended"
  /\ stage' = [stage EXCEPT ![0] = "reaped"]
  /\ Exit(IF 0 \in failed THEN 1 ELSE 0)
  /\ UNCHANGED <<length, forks, job_process_count, exitValue, handling, sigchld,
                 failed, dataVars>>

(* A pending SIGCHLD is taken before the next step of the master.          *)
Undisturbed == ~handling /\ ~sigchld

ForkStage ==
  /\ master_pc = "loop" /\ Undisturbed
  /\ forks < length /\ exitValue # 1
  /\ Fork(forks)
  /\ UNCHANGED <<length, master_pc, job_process_count, exitValue, exit_status, handling,
                 sigchld, failed, dataVars>>

(* fork or pipe fails; the stages that run are left to themselves.         *)
ForkFails ==
  /\ MayFail
  /\ \/ master_pc = "cat" /\ forks = 0
     \/ master_pc = "loop" /\ Undisturbed /\ forks < length /\ exitValue # 1
  /\ Exit(1)
  /\ UNCHANGED <<length, forks, job_process_count, exitValue, handling, sigchld,
                 stage, failed, dataVars>>

LoopEnds ==
  /\ master_pc = "loop" /\ Undisturbed
  /\ forks = length \/ exitValue = 1
  /\ master_pc' = "check"
  /\ UNCHANGED <<length, forks, job_process_count, exitValue, exit_status, handling,
                 sigchld, stage, failed, dataVars>>

(* while (job_process_count != length) sigsuspend.                         *)
CheckCount ==
  /\ master_pc = "check" /\ Undisturbed
  /\ IF job_process_count = length THEN Exit(exitValue)
                                   ELSE master_pc' = "suspend" /\ UNCHANGED exit_status
  /\ UNCHANGED <<length, forks, job_process_count, exitValue, handling, sigchld,
                 stage, failed, dataVars>>

Suspend ==
  /\ master_pc = "suspend" /\ Undisturbed
  /\ master_pc' = "suspended"
  /\ UNCHANGED <<length, forks, job_process_count, exitValue, exit_status, handling,
                 sigchld, stage, failed, dataVars>>

-----------------------------------------------------------------------------
(* pipeline_handler.                                                       *)
HandlerEnter ==
  /\ sigchld /\ ~handling /\ master_pc \in {"loop", "check", "suspend", "suspended"}
  /\ handling' = TRUE /\ sigchld' = FALSE
  /\ UNCHANGED <<length, master_pc, forks, job_process_count, exitValue, exit_status, stage,
                 failed, dataVars>>

(* Mutants: one that fails is not counted, or the last one decides.        *)
HandlerReapGood(k) ==
  /\ handling /\ stage[k] = "ended"
  /\ stage' = [stage EXCEPT ![k] = "reaped"]
  /\ job_process_count' = IF k \in failed THEN job_process_count
                                          ELSE job_process_count + 1
  /\ exitValue' = IF k \in failed THEN 1 ELSE exitValue
  /\ UNCHANGED <<length, master_pc, forks, exit_status, handling, sigchld, failed, dataVars>>

HandlerReapLast(k) ==
  /\ handling /\ stage[k] = "ended"
  /\ stage' = [stage EXCEPT ![k] = "reaped"]
  /\ job_process_count' = job_process_count + 1
  /\ exitValue' = IF k \in failed THEN 1 ELSE 0
  /\ UNCHANGED <<length, master_pc, forks, exit_status, handling, sigchld, failed, dataVars>>

HandlerReap(k) ==
  /\ handling /\ stage[k] = "ended"
  /\ stage' = [stage EXCEPT ![k] = "reaped"]
  /\ job_process_count' = job_process_count + 1
  /\ exitValue' = IF k \in failed THEN 1 ELSE exitValue
  /\ UNCHANGED <<length, master_pc, forks, exit_status, handling, sigchld, failed, dataVars>>

HandlerReturn ==
  /\ handling /\ \A k \in Stages : stage[k] # "ended"
  /\ handling' = FALSE
  /\ master_pc' = IF master_pc = "suspended" THEN "check" ELSE master_pc
  /\ UNCHANGED <<length, forks, job_process_count, exitValue, exit_status, sigchld, stage,
                 failed, dataVars>>

-----------------------------------------------------------------------------
Master ==
  \/ Connect \/ ConnectFails \/ ForkCat \/ WaitCat \/ ForkStage \/ ForkFails
  \/ LoopEnds \/ CheckCount \/ Suspend
Handler == HandlerEnter \/ HandlerReturn \/ \E k \in Stages : HandlerReap(k)
Stage(k) == Read(k) \/ Write(k) \/ StageSucceeds(k) \/ StageBreaks(k)

PipelineNext == Master \/ Handler \/ \E k \in Stages : Stage(k) \/ StageFails(k)

(* Processes that can run do; failing is up to them.                       *)
Fairness ==
  /\ WF_pipelineVars(Master) /\ WF_pipelineVars(Handler)
  /\ \A k \in AllStages : WF_pipelineVars(k \in Stages /\ Stage(k))

PipelineSpec == PipelineInit /\ [][PipelineNext]_pipelineVars /\ Fairness

-----------------------------------------------------------------------------
Reaped  == {k \in Stages : stage[k] = "reaped"}
Printed == given[IF Cat THEN 0 ELSE length - 1]

PipelineTypeOK ==
  /\ length \in 0..MaxLength
  /\ master_pc \in {"connect", "cat", "loop", "check", "suspend", "suspended", "exited"}
  /\ forks \in 0..(MaxLength + 1) /\ job_process_count \in 0..MaxLength
  /\ exitValue \in {0, 1} /\ exit_status \in {-1, 0, 1}
  /\ handling \in BOOLEAN /\ sigchld \in BOOLEAN
  /\ stage \in [AllStages -> {"none", "running", "ended", "reaped"}]
  /\ failed \subseteq Stages
  /\ taken \in [AllStages -> 0..Size] /\ given \in [AllStages -> 0..Size]

(* A master that exits with 0 has forked and reaped every stage, all of    *)
(* them ended with 0, and the printer got the whole file; a stage that     *)
(* ends with 0 because the one before it died does not hide that.          *)
SuccessTruthful ==
  exit_status = 0 => Reaped = Stages /\ failed = {} /\ Printed = Size

(* What the master waits for is the number of the stages it has reaped,    *)
(* and exitValue says whether one of them failed.                          *)
CountExact ==
  ~Cat => /\ job_process_count = Cardinality(Reaped)
          /\ exitValue = 1 <=> Reaped \cap failed # {}

(* Unless something fails, every stage comes to the end of its input: no   *)
(* end of a pipe that should be closed is kept open.                       *)
StagesEnd ==
  [](failed = {} /\ exit_status # 1) => <>(\A k \in Stages : Gone(k))

(* A stage that fails makes the master exit, with 1.                       *)
FailureReported == failed # {} ~> exit_status = 1
=============================================================================
