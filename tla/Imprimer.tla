------------------------------ MODULE Imprimer ------------------------------
(***************************************************************************)
(* The main process of hw4's printer spooler: the command loop (cli.c), and *)
(* scanner, start_job and the SIGCHLD handler (custom_functions.c).        *)
(*                                                                         *)
(* Signals are masked while scanner runs, which sf_readline calls before   *)
(* each read, and while a command touches jobs or printers; a command is   *)
(* one step, a scan one step for each printer and job.  Everywhere else a  *)
(* SIGCHLD is taken before the next instruction, and the loop of the       *)
(* handler runs to its end, one step for each waitpid.                     *)
(*                                                                         *)
(* A master process is seen through what killpg and waitpid tell of it: it *)
(* has no process group yet ("forked"), a group without a pipeline in      *)
(* which SIGTERM stays blocked ("grouped"), or a pipeline ("working"), and *)
(* it ends well or badly.  Linux keeps one report of a stop or of a        *)
(* continuation for each child, and drops it for the next or for the end.  *)
(*                                                                         *)
(* File names, types that are not declared, and output are left out.  The  *)
(* ten seconds before a job is deleted are a step of their own.            *)
(***************************************************************************)
EXTENDS Integers, FiniteSets

CONSTANTS
  MAX_JOBS, MAX_PRINTERS,
  Pids,          \* process ids of masters; as many can exist at a time
  Types, NoType,
  PrinterType,   \* the type a printer is defined with
  Files,         \* what can be printed: a type and the printers asked for
  Programs,      \* conversions that can be defined, pairs of types
  MayFail,       \* whether fork and malloc may fail
  CallocFails    \* bound: the printers for which start_job may give up a job
                 \* in calloc, for one of them, once

Jobs     == 0..(MAX_JOBS - 1)
Printers == 0..(MAX_PRINTERS - 1)

ASSUME BoundsNat   == /\ MAX_JOBS \in Nat /\ MAX_PRINTERS \in Nat
                     /\ CallocFails \subseteq Printers
ASSUME PidsFinite  == IsFiniteSet(Pids) /\ 0 \notin Pids
ASSUME FilesKnown  ==
  /\ NoType \notin Types
  /\ PrinterType \in [Printers -> Types]
  /\ Files \subseteq [type : Types, eligible : SUBSET Printers]
  /\ Programs \subseteq Types \X Types

NoFile == [type |-> NoType, eligible |-> {}]

VARIABLES
  job_count,      \* the bitmap, as a set
  file, status, pid, timestamp,   \* the fields of jobs[i]
  printer_count, printer_status, printer_pid,
  job_process_count, jobs_done, program_failure,
  conversions,    \* what define_conversion was told
  pc,             \* where the main process is
  scan,           \* how many pairs of a printer and a job scanner is past
  missed,         \* whether a fork failed in this scan
  handling,       \* whether the SIGCHLD handler runs
  sigchld,        \* SIGCHLD is pending
  phase, stopped, termed, report,   \* master processes
  prints_on,      \* the printer a master is started for
  orphans         \* masters that start_job forked and then gave up

jobVars     == <<job_count, file, status, pid, timestamp>>
printerVars == <<printer_count, printer_status, printer_pid>>
countVars   == <<job_process_count, jobs_done>>
procVars    == <<phase, stopped, termed, report, prints_on, orphans>>
loopVars    == <<pc, scan, missed>>
vars == <<jobVars, printerVars, countVars, procVars, loopVars,
          program_failure, conversions, handling, sigchld>>

Init ==
  /\ job_count = {}
  /\ file = [i \in Jobs |-> NoFile]
  /\ status = [i \in Jobs |-> "CREATED"]
  /\ pid = [i \in Jobs |-> 0]
  /\ timestamp = [i \in Jobs |-> "0"]
  /\ printer_count = 0
  /\ printer_status = [p \in Printers |-> "DISABLED"]
  /\ printer_pid = [p \in Printers |-> 0]
  /\ job_process_count = 0 /\ jobs_done = FALSE
  /\ program_failure = FALSE /\ conversions = {}
  /\ pc = "scan" /\ scan = 0 /\ missed = FALSE
  /\ handling = FALSE /\ sigchld = FALSE
  /\ phase = [q \in Pids |-> "none"]
  /\ stopped = {} /\ termed = {}
  /\ report = [q \in Pids |-> "none"]
  /\ prints_on = [q \in Pids |-> 0]
  /\ orphans = {}

-----------------------------------------------------------------------------
(* Masters, as killpg, the kernel and waitpid see them.                    *)
Alive(q)    == phase[q] \in {"forked", "grouped", "working"}
Ended(q)    == phase[q] \in {"succeeded", "failed"}
Group(q)    == phase[q] \in {"grouped", "working"}
Waitable(q) == Ended(q) \/ report[q] # "none"

(* The program has not ended, one way or another.                          *)
Runs == pc \notin {"done", "undefined"}

(* killpg(q, SIGTERM) and killpg(q, SIGCONT) for q in Q.  The master keeps *)
(* SIGTERM blocked, the processes of its pipeline do not.                  *)
TermAndCont(Q) ==
  LET C == {q \in Q \cap stopped : Group(q)}
  IN  /\ termed' = termed \cup {q \in Q : phase[q] = "working"}
      /\ stopped' = stopped \ C
      /\ report' = [q \in Pids |-> IF q \in C THEN "continued" ELSE report[q]]
      /\ sigchld' = (sigchld \/ C # {})
      /\ UNCHANGED <<phase, prints_on, orphans>>

NoSignal == UNCHANGED <<procVars, sigchld>>

(* The master calls setpgid, and later forks the pipeline.                 *)
Progress(q) ==
  /\ Runs /\ q \notin stopped
  /\ \/ phase[q] = "forked"  /\ phase' = [phase EXCEPT ![q] = "grouped"]
     \/ phase[q] = "grouped" /\ phase' = [phase EXCEPT ![q] = "working"]
  /\ UNCHANGED <<jobVars, printerVars, countVars, loopVars, program_failure,
                 conversions, handling, sigchld, stopped, termed, report,
                 prints_on, orphans>>

(* The master exits; the report of an earlier stop goes.                   *)
End(q) ==
  /\ Runs /\ Alive(q) /\ q \notin stopped
  /\ \/ phase[q] = "working" /\ q \notin termed
        /\ phase' = [phase EXCEPT ![q] = "succeeded"]
     \/ phase' = [phase EXCEPT ![q] = "failed"]
  /\ report' = [report EXCEPT ![q] = "none"]
  /\ sigchld' = TRUE
  /\ UNCHANGED <<jobVars, printerVars, countVars, loopVars, program_failure,
                 conversions, handling, stopped, termed, prints_on, orphans>>

-----------------------------------------------------------------------------
(* scanner.  Pairs are numbered in the order of its two loops.             *)
Pairs      == printer_count * MAX_JOBS
PrinterAt(n) == n \div MAX_JOBS
JobAt(n)   == n % MAX_JOBS

(* find_conversion_path: a chain of conversions, or none at all.           *)
Path(from, to) ==
  \A S \in SUBSET Types :
    from \in S /\ (\A c \in conversions : c[1] \in S => c[2] \in S) => to \in S

(* Mutant: a printer that is not disabled will do.                         *)
StartableBusy(i, p) ==
  /\ i \in job_count
  /\ p \in file[i].eligible
  /\ status[i] = "CREATED"
  /\ printer_status[p] # "DISABLED"
  /\ Path(file[i].type, PrinterType[p])

Startable(i, p) ==
  /\ i \in job_count
  /\ p \in file[i].eligible
  /\ status[i] = "CREATED"
  /\ printer_status[p] = "IDLE"
  /\ Path(file[i].type, PrinterType[p])

(* The next pair that scanner acts on, past those it skips.                *)
StartableAt(n) == Startable(JobAt(n), PrinterAt(n))
NextPair(n) ==
  /\ pc = "scan" /\ n \in scan..(Pairs - 1) /\ StartableAt(n)
  /\ \A m \in scan..(n - 1) : ~StartableAt(m)

(* The process id that fork returns.  Ids are only compared for equality,  *)
(* so that the lowest free one stands for any.                             *)
Fresh(q) ==
  /\ phase[q] = "none"
  /\ \A r \in Pids : r < q => phase[r] # "none"

(* start_job and what scanner does after it.                               *)
Start(i, p, q) ==
  /\ Startable(i, p) /\ Fresh(q)
  /\ phase' = [phase EXCEPT ![q] = "forked"]
  /\ prints_on' = [prints_on EXCEPT ![q] = p]
  /\ status' = [status EXCEPT ![i] = "RUNNING"]
  /\ printer_status' = [printer_status EXCEPT ![p] = "BUSY"]
  /\ job_process_count' = job_process_count + 1
  /\ jobs_done' = TRUE
  /\ printer_pid' = [printer_pid EXCEPT ![p] = q]
  /\ pid' = [pid EXCEPT ![i] = q]
  /\ UNCHANGED <<job_count, file, timestamp, printer_count, stopped, termed,
                 report, orphans>>

ScanStart(n) ==
  /\ NextPair(n)
  /\ \E q \in Pids : Start(JobAt(n), PrinterAt(n), q)
  /\ scan' = n + 1
  /\ UNCHANGED <<pc, missed, program_failure, conversions, handling, sigchld>>

(* fork fails, for want of a process id or otherwise.                      *)
ScanNoFork(n) ==
  /\ NextPair(n)
  /\ MayFail \/ \A q \in Pids : phase[q] # "none"
  /\ scan' = n + 1 /\ missed' = TRUE
  /\ UNCHANGED <<jobVars, printerVars, countVars, procVars, pc,
                 program_failure, conversions, handling, sigchld>>

(* fork succeeds and calloc fails: start_job returns -1, the master runs.  *)
(* No signal is sent to it, so that its first two phases are left out.     *)
ScanOrphan(n) ==
  /\ NextPair(n) /\ PrinterAt(n) \in CallocFails /\ orphans = {}
  /\ \E q \in Pids :
       /\ Fresh(q)
       /\ phase' = [phase EXCEPT ![q] = "working"]
       /\ prints_on' = [prints_on EXCEPT ![q] = PrinterAt(n)]
       /\ orphans' = orphans \cup {q}
  /\ scan' = n + 1 /\ missed' = TRUE
  /\ UNCHANGED <<jobVars, printerVars, countVars, stopped, termed, report, pc,
                 program_failure, conversions, handling, sigchld>>

(* scanner returns, and sf_readline waits for input.                       *)
ScanEnd ==
  /\ pc = "scan" /\ \A n \in scan..(Pairs - 1) : ~StartableAt(n)
  /\ pc' = "wait" /\ scan' = 0
  /\ UNCHANGED <<jobVars, printerVars, countVars, procVars, missed,
                 program_failure, conversions, handling, sigchld>>

Rescan == pc' = "scan" /\ missed' = FALSE

-----------------------------------------------------------------------------
(* job_handler.                                                            *)
HandlerEnter ==
  /\ sigchld /\ ~handling /\ pc \notin {"scan", "done", "undefined"}
  /\ handling' = TRUE /\ sigchld' = FALSE
  /\ UNCHANGED <<jobVars, printerVars, countVars, procVars, loopVars,
                 program_failure, conversions>>

(* The first job and the first printer with this pid.                      *)
JobIs(i, q)     == pid[i] = q /\ \A j \in Jobs : j < i => pid[j] # q
PrinterIs(p, q) == /\ p < printer_count /\ printer_pid[p] = q
                   /\ \A r \in Printers : r < p => printer_pid[r] # q

(* Mutant: one end is taken for the last.                                  *)
OneMasterLessAllDone ==
  job_process_count' = job_process_count - 1 /\ jobs_done' = FALSE

OneMasterLess ==
  /\ job_process_count' = job_process_count - 1
  /\ jobs_done' = (jobs_done /\ job_process_count # 1)

(* WIFEXITED or WIFSIGNALED.                                               *)
Reap(i, p, q) ==
  /\ Ended(q) /\ JobIs(i, q) /\ PrinterIs(p, q)
  /\ OneMasterLess
  /\ pid' = [pid EXCEPT ![i] = 0]
  /\ printer_pid' = [printer_pid EXCEPT ![p] = 0]
  /\ status' = [status EXCEPT ![i] = IF phase[q] = "succeeded" THEN "FINISHED"
                                                               ELSE "ABORTED"]
  /\ printer_status' = [printer_status EXCEPT ![p] = IF @ = "BUSY" THEN "IDLE" ELSE @]
  /\ timestamp' = [timestamp EXCEPT ![i] = "now"]
  /\ phase' = [phase EXCEPT ![q] = "none"]
  /\ termed' = termed \ {q}
  /\ prints_on' = [prints_on EXCEPT ![q] = 0]
  /\ UNCHANGED <<job_count, file, printer_count, stopped, report, orphans>>

(* Mutant: a continued master is not taken note of.                        *)
NoteStopped(i, q) ==
  /\ ~Ended(q) /\ report[q] # "none" /\ JobIs(i, q)
  /\ status' = [status EXCEPT ![i] = IF report[q] = "stopped" THEN "PAUSED" ELSE @]
  /\ jobs_done' = (jobs_done /\ job_process_count # 0)
  /\ report' = [report EXCEPT ![q] = "none"]
  /\ UNCHANGED <<job_count, file, pid, timestamp, printerVars, job_process_count,
                 phase, stopped, termed, prints_on, orphans>>

(* WIFSTOPPED or WIFCONTINUED.                                             *)
Note(i, q) ==
  /\ ~Ended(q) /\ report[q] # "none" /\ JobIs(i, q)
  /\ status' = [status EXCEPT ![i] = IF report[q] = "stopped" THEN "PAUSED"
                                                              ELSE "RUNNING"]
  /\ jobs_done' = (jobs_done /\ job_process_count # 0)
  /\ report' = [report EXCEPT ![q] = "none"]
  /\ UNCHANGED <<job_count, file, pid, timestamp, printerVars, job_process_count,
                 phase, stopped, termed, prints_on, orphans>>

HandlerReap ==
  /\ handling
  /\ \E q \in Pids, i \in Jobs, p \in Printers : Reap(i, p, q)
  /\ UNCHANGED <<loopVars, program_failure, conversions, handling, sigchld>>

HandlerNote ==
  /\ handling
  /\ \E q \in Pids, i \in Jobs : Note(i, q)
  /\ UNCHANGED <<loopVars, program_failure, conversions, handling, sigchld>>

(* No job has this pid: the handler goes on with a job_id and a printer_id *)
(* that have no value.                                                     *)
HandlerLost ==
  /\ handling
  /\ \E q \in Pids : Waitable(q) /\ \A i \in Jobs : pid[i] # q
  /\ pc' = "undefined" /\ handling' = FALSE
  /\ UNCHANGED <<jobVars, printerVars, countVars, procVars, scan, missed,
                 program_failure, conversions, sigchld>>

(* Mutants: one waitpid for each SIGCHLD, and a wait that goes on without  *)
(* a scan.                                                                 *)
HandlerReturnEarly ==
  /\ handling
  /\ handling' = FALSE
  /\ \/ pc = "wait" /\ Rescan
     \/ pc = "suspended" /\ pc' = "check" /\ UNCHANGED missed
     \/ pc \notin {"wait", "suspended"} /\ UNCHANGED <<pc, missed>>
  /\ UNCHANGED <<scan, jobVars, printerVars, countVars, procVars, program_failure,
                 conversions, sigchld>>

HandlerReturnNoScan ==
  /\ handling /\ \A q \in Pids : ~Waitable(q)
  /\ handling' = FALSE
  /\ pc' = IF pc = "suspended" THEN "check" ELSE pc
  /\ UNCHANGED <<scan, missed, jobVars, printerVars, countVars, procVars,
                 program_failure, conversions, sigchld>>

(* pselect and sigsuspend return when the handler has run.                 *)
HandlerReturn ==
  /\ handling /\ \A q \in Pids : ~Waitable(q)
  /\ handling' = FALSE
  /\ \/ pc = "wait" /\ Rescan
     \/ pc = "suspended" /\ pc' = "check" /\ UNCHANGED missed
     \/ pc \notin {"wait", "suspended"} /\ UNCHANGED <<pc, missed>>
  /\ UNCHANGED <<scan, jobVars, printerVars, countVars, procVars, program_failure,
                 conversions, sigchld>>

-----------------------------------------------------------------------------
(* The command loop.  A pending SIGCHLD is taken before its next step.     *)
Undisturbed == ~handling /\ ~sigchld

(* A line is there.  pselect may see the line and not the signal.          *)
ReadLine ==
  /\ pc = "wait" /\ ~handling
  /\ pc' = "command" /\ missed' = FALSE
  /\ UNCHANGED <<jobVars, printerVars, countVars, procVars, scan,
                 program_failure, conversions, handling, sigchld>>

Command == pc = "command" /\ Undisturbed /\ pc' = "cleanup"
Keeps   == UNCHANGED <<scan, missed, handling>>

(* help, printers, jobs, type, and every command that is refused.          *)
NoEffect ==
  /\ Command
  /\ UNCHANGED <<jobVars, printerVars, countVars, program_failure, conversions>>
  /\ Keeps /\ NoSignal

(* printer: define_printer.                                                *)
DefinePrinter ==
  /\ Command /\ printer_count < MAX_PRINTERS
  /\ printer_count' = printer_count + 1
  /\ printer_status' = [printer_status EXCEPT ![printer_count] = "DISABLED"]
  /\ UNCHANGED <<jobVars, printer_pid, countVars, program_failure, conversions>>
  /\ Keeps /\ NoSignal

(* A malloc of split_string or define_printer fails.                       *)
OutOfMemory ==
  /\ Command /\ MayFail
  /\ program_failure' = TRUE
  /\ UNCHANGED <<jobVars, printerVars, countVars, conversions>>
  /\ Keeps /\ NoSignal

DefineConversion ==
  /\ Command
  /\ \E c \in Programs : conversions' = conversions \cup {c}
  /\ UNCHANGED <<jobVars, printerVars, countVars, program_failure>>
  /\ Keeps /\ NoSignal

(* print: create_job takes the first slot that is free.                    *)
FreeSlot(i) == i \notin job_count /\ \A j \in Jobs : j < i => j \in job_count

PrintFile(i, f) ==
  /\ Command
  /\ \A p \in f.eligible : p < printer_count \/ f.eligible = Printers
  /\ FreeSlot(i)
  /\ job_count' = job_count \cup {i}
  /\ file' = [file EXCEPT ![i] = f]
  /\ status' = [status EXCEPT ![i] = "CREATED"]
  /\ UNCHANGED <<pid, timestamp, printerVars, countVars, program_failure, conversions>>
  /\ Keeps /\ NoSignal

(* create_job copies the name to where malloc pointed before it looks.     *)
PrintNoMemory ==
  /\ pc = "command" /\ Undisturbed /\ MayFail /\ \E i \in Jobs : FreeSlot(i)
  /\ pc' = "undefined"
  /\ UNCHANGED <<jobVars, printerVars, countVars, program_failure, conversions>>
  /\ Keeps /\ NoSignal

(* cancel, for a job that has no master and for one that has.              *)
Cancel(i) ==
  /\ Command /\ pid[i] = 0 /\ i \in job_count
  /\ status' = [status EXCEPT ![i] = "ABORTED"]
  /\ timestamp' = [timestamp EXCEPT ![i] = "now"]
  /\ UNCHANGED <<job_count, file, pid, printerVars, countVars, program_failure,
                 conversions>>
  /\ Keeps /\ NoSignal

CancelMaster(i) ==
  /\ Command /\ pid[i] # 0
  /\ TermAndCont({pid[i]})
  /\ UNCHANGED <<jobVars, printerVars, countVars, program_failure, conversions>>
  /\ Keeps

(* pause: SIGSTOP cannot be blocked.                                       *)
Pause(i) ==
  /\ Command /\ pid[i] # 0
  /\ LET q == pid[i] IN
       IF Group(q) /\ q \notin stopped
       THEN /\ stopped' = stopped \cup {q}
            /\ report' = [report EXCEPT ![q] = "stopped"]
            /\ sigchld' = TRUE
            /\ UNCHANGED <<phase, termed, prints_on, orphans>>
       ELSE NoSignal
  /\ UNCHANGED <<jobVars, printerVars, countVars, program_failure, conversions>>
  /\ Keeps

Resume(i) ==
  /\ Command /\ pid[i] # 0
  /\ LET q == pid[i] IN
       IF q \in stopped
       THEN /\ stopped' = stopped \ {q}
            /\ report' = [report EXCEPT ![q] = "continued"]
            /\ sigchld' = TRUE
            /\ UNCHANGED <<phase, termed, prints_on, orphans>>
       ELSE NoSignal
  /\ UNCHANGED <<jobVars, printerVars, countVars, program_failure, conversions>>
  /\ Keeps

Disable(p) ==
  /\ Command /\ p < printer_count
  /\ printer_status' = [printer_status EXCEPT ![p] = "DISABLED"]
  /\ UNCHANGED <<jobVars, printer_count, printer_pid, countVars, program_failure,
                 conversions>>
  /\ Keeps /\ NoSignal

(* Mutant: an enabled printer is idle.                                     *)
EnableIdle(p) ==
  /\ Command /\ p < printer_count
  /\ printer_status' = [printer_status EXCEPT ![p] = "IDLE"]
  /\ UNCHANGED <<jobVars, printer_count, printer_pid, countVars, program_failure,
                 conversions>>
  /\ Keeps /\ NoSignal

Enable(p) ==
  /\ Command /\ p < printer_count
  /\ printer_status' = [printer_status EXCEPT ![p] = IF printer_pid[p] # 0 THEN "BUSY"
                                                                          ELSE "IDLE"]
  /\ UNCHANGED <<jobVars, printer_count, printer_pid, countVars, program_failure,
                 conversions>>
  /\ Keeps /\ NoSignal

(* quit, or the end of the input.                                          *)
Quit ==
  /\ pc = "command" /\ Undisturbed
  /\ pc' = "exit"
  /\ UNCHANGED <<jobVars, printerVars, countVars, program_failure, conversions>>
  /\ Keeps /\ NoSignal

(* After each command: jobs that ended ten seconds ago leave the queue.    *)
Expired == {i \in Jobs : timestamp[i] = "old"}

(* Mutant: the time stamp stays.                                           *)
CleanupStamped ==
  /\ pc = "cleanup" /\ Undisturbed
  /\ job_count' = (job_count \ Expired) \cup (Expired \ job_count)
  /\ IF program_failure THEN pc' = "exit" /\ UNCHANGED missed ELSE Rescan
  /\ UNCHANGED <<scan, file, status, pid, timestamp, printerVars, countVars,
                 program_failure, conversions, handling>>
  /\ NoSignal

Cleanup ==
  /\ pc = "cleanup" /\ Undisturbed
  /\ timestamp' = [i \in Jobs |-> IF i \in Expired THEN "0" ELSE timestamp[i]]
  /\ job_count' = (job_count \ Expired) \cup (Expired \ job_count)
  /\ IF program_failure THEN pc' = "exit" /\ UNCHANGED missed ELSE Rescan
  /\ UNCHANGED <<scan, file, status, pid, printerVars, countVars, program_failure,
                 conversions, handling>>
  /\ NoSignal

TenSeconds(i) ==
  /\ Runs /\ timestamp[i] = "now"
  /\ timestamp' = [timestamp EXCEPT ![i] = "old"]
  /\ UNCHANGED <<job_count, file, status, pid, printerVars, countVars, loopVars,
                 program_failure, conversions, handling>>
  /\ NoSignal

-----------------------------------------------------------------------------
(* The end of run_cli.                                                     *)
CancelPaused ==
  /\ pc = "exit" /\ Undisturbed
  /\ pc' = "check"
  /\ TermAndCont({pid[i] : i \in {j \in Jobs : status[j] = "PAUSED"}})
  /\ UNCHANGED <<jobVars, printerVars, countVars, program_failure, conversions>>
  /\ Keeps

(* while (jobs_done != 0) sigsuspend: the test, the call, and its wait.    *)
CheckDone ==
  /\ pc = "check" /\ Undisturbed
  /\ pc' = IF jobs_done THEN "suspend" ELSE "done"
  /\ UNCHANGED <<jobVars, printerVars, countVars, program_failure, conversions>>
  /\ Keeps /\ NoSignal

Suspend ==
  /\ pc = "suspend" /\ Undisturbed
  /\ pc' = "suspended"
  /\ UNCHANGED <<jobVars, printerVars, countVars, program_failure, conversions>>
  /\ Keeps /\ NoSignal

-----------------------------------------------------------------------------
Scanner ==
  ScanEnd \/ \E n \in 0..(Pairs - 1) : ScanStart(n) \/ ScanNoFork(n) \/ ScanOrphan(n)
Handler == HandlerEnter \/ HandlerReap \/ HandlerNote \/ HandlerLost \/ HandlerReturn
Commands ==
  \/ NoEffect \/ DefinePrinter \/ OutOfMemory \/ DefineConversion \/ PrintNoMemory
  \/ \E i \in Jobs : Cancel(i) \/ CancelMaster(i) \/ Pause(i) \/ Resume(i)
                     \/ \E f \in Files : PrintFile(i, f)
  \/ \E p \in Printers : Disable(p) \/ Enable(p)
  \/ Quit
Ending  == CancelPaused \/ CheckDone \/ Suspend
Program == Scanner \/ Handler \/ Commands \/ Cleanup \/ Ending
Master(q) == Progress(q) \/ End(q)

Next ==
  \/ Program \/ ReadLine
  \/ \E q \in Pids : Master(q)
  \/ \E i \in Jobs : TenSeconds(i)

(* The program runs on, and masters that are not stopped come to an end.   *)
(* Nothing makes the user type.                                            *)
Fairness == WF_vars(Program) /\ \A q \in Pids : WF_vars(Master(q))

Spec == Init /\ [][Next]_vars /\ Fairness

-----------------------------------------------------------------------------
Statuses == {"CREATED", "RUNNING", "PAUSED", "FINISHED", "ABORTED"}
Labels   == {"scan", "wait", "command", "cleanup", "exit", "check", "suspend",
             "suspended", "done", "undefined"}
Served   == {i \in Jobs : pid[i] # 0}

TypeOK ==
  /\ job_count \subseteq Jobs
  /\ file \in [Jobs -> Files \cup {NoFile}]
  /\ status \in [Jobs -> Statuses]
  /\ pid \in [Jobs -> Pids \cup {0}]
  /\ timestamp \in [Jobs -> {"0", "now", "old"}]
  /\ printer_count \in 0..MAX_PRINTERS
  /\ printer_status \in [Printers -> {"DISABLED", "IDLE", "BUSY"}]
  /\ printer_pid \in [Printers -> Pids \cup {0}]
  /\ job_process_count \in 0..Cardinality(Pids)
  /\ jobs_done \in BOOLEAN /\ program_failure \in BOOLEAN /\ missed \in BOOLEAN
  /\ handling \in BOOLEAN /\ sigchld \in BOOLEAN
  /\ conversions \subseteq Programs
  /\ pc \in Labels /\ scan \in Nat
  /\ phase \in [Pids -> {"none", "forked", "grouped", "working", "succeeded", "failed"}]
  /\ stopped \subseteq Pids /\ termed \subseteq Pids /\ orphans \subseteq Pids
  /\ report \in [Pids -> {"none", "stopped", "continued"}]
  /\ prints_on \in [Pids -> Printers \cup {0}]

(* A slot of jobs[] is in use from the command print to its deletion, and  *)
(* the flip of its bit never takes a free slot into use: a job waits for   *)
(* deletion exactly when it has ended, a job that has a master is neither  *)
(* new nor over, and a paused one has a group that killpg can reach.       *)
SlotSound ==
  \A i \in Jobs :
    /\ timestamp[i] # "0" => i \in job_count
    /\ i \in job_count => (timestamp[i] # "0" <=> status[i] \in {"FINISHED", "ABORTED"})
    /\ pid[i] # 0 <=> status[i] \in {"RUNNING", "PAUSED"}
    /\ pid[i] # 0 => i \in job_count /\ phase[pid[i]] # "none"

(* A printer prints one job at a time, whatever is disabled and enabled    *)
(* meanwhile, and one that the user asked for; it is idle when it has no   *)
(* job.  A master that start_job gave up is not counted here.              *)
OneJobPerPrinter ==
  /\ \A i \in Served :
       \E p \in file[i].eligible : printer_pid[p] = pid[i] /\ prints_on[pid[i]] = p
  /\ \A i, j \in Served : pid[i] = pid[j] => i = j
  /\ \A p \in Printers :
       /\ printer_status[p] = "IDLE" => printer_pid[p] = 0
       /\ printer_status[p] = "BUSY" => printer_pid[p] # 0
       /\ printer_pid[p] # 0 => \E i \in Served : pid[i] = printer_pid[p]

(* The count that run_cli waits on is that of the masters of jobs, and the *)
(* flag says whether there are any: the program does not leave a job       *)
(* behind.                                                                 *)
CountsMasters ==
  /\ job_process_count = Cardinality(Served)
  /\ jobs_done <=> Served # {}
  /\ pc = "done" => Served = {}

(* When the handler has seen all there was to see, a job is called paused  *)
(* exactly when its master is stopped, however pauses, resumptions and     *)
(* cancellations followed each other.                                      *)
StatusTruthful ==
  \A i \in Served :
    ~Waitable(pid[i]) => (status[i] = "PAUSED" <=> pid[i] \in stopped)

(* Whatever sf_readline waits with, no job could be started: each end of a *)
(* job and each command was followed by a scan.  Only a fork that failed   *)
(* leaves such a job, until the next scan.                                 *)
NoIdleWait ==
  pc = "wait" /\ ~handling /\ ~missed =>
    \A i \in Jobs : \A p \in Printers : p < printer_count => ~Startable(i, p)

(* Jobs and printers follow the rules of a print queue.                    *)
StateOf(i) ==
  IF i \notin job_count THEN "none"
  ELSE CASE status[i] = "CREATED"  -> "created"
         [] status[i] = "RUNNING"  -> "running"
         [] status[i] = "PAUSED"   -> "paused"
         [] status[i] = "FINISHED" -> "finished"
         [] status[i] = "ABORTED"  -> "aborted"

Queue == INSTANCE PrintQueue WITH
  Nobody  <- -1,
  state   <- [i \in Jobs |-> StateOf(i)],
  server  <- [i \in Jobs |-> IF pid[i] = 0 THEN -1 ELSE prints_on[pid[i]]],
  asked   <- [i \in Jobs |-> file[i].eligible],
  enabled <- {p \in Printers : printer_status[p] # "DISABLED"}

ImplementsPrintQueue == Queue!Spec

(* A job that is served ends, and is known to have ended, unless its       *)
(* master is stopped: no SIGCHLD is lost, whatever the program is doing.   *)
ServedJobsEnd ==
  \A i \in Jobs :
    []<>(pid[i] = 0 \/ pid[i] \in stopped \/ pc = "undefined")

(* quit ends the program.                                                  *)
QuitEnds == pc = "exit" ~> pc = "done"
=============================================================================
