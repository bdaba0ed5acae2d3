--------------------------- MODULE Imprimer_proofs ---------------------------
(***************************************************************************)
(* The invariants of the spooler, and that it follows the rules of a print *)
(* queue, for every number of jobs, printers and masters.                  *)
(*                                                                         *)
(* The strengthening says what the reports that the kernel keeps tell of   *)
(* the masters, that a printer and the master it waits for know each       *)
(* other, and which pairs scanner has shown not to be startable.  Most     *)
(* actions change little of what the invariants speak of: StepEffects says *)
(* which effects a step can have on it, and each invariant is shown to be  *)
(* kept by each effect.                                                    *)
(***************************************************************************)
EXTENDS Imprimer, FiniteSetTheorems, TLAPS

(* What the kernel keeps for a master that is not reaped yet.              *)
MastersOK ==
  \A q \in Pids :
    /\ q \in stopped => Group(q)
    /\ report[q] # "none" => Group(q)
    /\ report[q] = "stopped" => q \in stopped
    /\ report[q] = "continued" => q \notin stopped

(* A status is behind its master only while there is a report to come.     *)
ReportsOK ==
  \A i \in Served :
    report[pid[i]] = "none" /\ ~Ended(pid[i])
      => (status[i] = "PAUSED" <=> pid[i] \in stopped)

(* A printer's master is one that was started for it.                      *)
PrintersOK ==
  \A p \in Printers : printer_pid[p] # 0 => prints_on[printer_pid[p]] = p

(* No pair that the scan is past can be started, unless a fork failed.     *)
ScanOK ==
  /\ pc # "scan" => scan = 0
  /\ pc = "scan" => ~handling
  /\ pc = "scan" /\ ~missed => \A n \in 0..(scan - 1) : ~StartableAt(n)

(* All that does not depend on where the main process is, and the whole.   *)
JobsInv ==
  /\ TypeOK /\ SlotSound /\ OneJobPerPrinter /\ CountsMasters
  /\ MastersOK /\ ReportsOK /\ PrintersOK

ImprimerInv == JobsInv /\ ScanOK /\ NoIdleWait

-----------------------------------------------------------------------------
(* The numbers of pairs.                                                   *)
LEMMA DivMod ==
  ASSUME NEW N \in Nat, N > 0, NEW n \in Int
  PROVE  n = (N * (n \div N)) + (n % N)
OBVIOUS

LEMMA MultMono ==
  ASSUME NEW N \in Nat, N > 0, NEW a \in Int, NEW b \in Int, a < b
  PROVE  (N * a) + N <= N * b
OBVIOUS

LEMMA DivModUnique ==
  ASSUME NEW N \in Nat, N > 0, NEW i \in 0..(N - 1), NEW p \in Nat
  PROVE  ((p * N) + i) \div N = p /\ ((p * N) + i) % N = i
<1> DEFINE n == (p * N) + i
<1>0. n \in Int
  OBVIOUS
<1>1. n = (N * (n \div N)) + (n % N)
  BY <1>0, DivMod
<1>2. n \div N \in Int /\ n % N \in 0..(N - 1)
  BY <1>0
<1>3. ~ (p < n \div N)
  BY <1>0, <1>1, <1>2, MultMono
<1>4. ~ (n \div N < p)
  BY <1>0, <1>1, <1>2, MultMono
<1> QED
  BY <1>1, <1>2, <1>3, <1>4

(* The number of a pair is that of a job and of a printer that is defined. *)
LEMMA PairSplit ==
  ASSUME TypeOK, NEW n \in 0..(Pairs - 1)
  PROVE  /\ JobAt(n) \in Jobs
         /\ PrinterAt(n) \in Printers /\ PrinterAt(n) < printer_count
<1>1. MAX_JOBS \in Nat /\ printer_count \in Nat /\ printer_count <= MAX_PRINTERS
  BY BoundsNat DEF TypeOK
<1>2. MAX_JOBS > 0
  <2>1. CASE MAX_JOBS = 0
    BY <2>1, <1>1 DEF Pairs
  <2> QED
    BY <2>1, <1>1
<1> DEFINE d == n \div MAX_JOBS
<1>3. d \in Int /\ n % MAX_JOBS \in 0..(MAX_JOBS - 1) /\ n \in Nat
  BY <1>1, <1>2 DEF Pairs
<1>4. n = (MAX_JOBS * d) + (n % MAX_JOBS)
  BY <1>1, <1>2, <1>3, DivMod
<1>5. n < MAX_JOBS * printer_count
  <2>1. Pairs = MAX_JOBS * printer_count /\ Pairs \in Int
    BY <1>1 DEF Pairs
  <2>2. n < Pairs
    BY <2>1
  <2> QED
    BY <2>1, <2>2
<1> HIDE DEF d
<1>6. d < printer_count
  <2>1. CASE d = printer_count
    BY <2>1, <1>1, <1>3, <1>4, <1>5
  <2>2. CASE printer_count < d
    BY <2>2, <1>1, <1>2, <1>3, <1>4, <1>5, MultMono
  <2> QED
    BY <2>1, <2>2, <1>1, <1>3
<1>7. d >= 0
  <2> SUFFICES ASSUME d < 0 PROVE FALSE
    BY <1>3
  <2>1. (MAX_JOBS * d) + MAX_JOBS <= MAX_JOBS * 0
    BY <1>1, <1>2, <1>3, MultMono
  <2> QED
    BY <2>1, <1>1, <1>3, <1>4
<1> QED
  BY <1>1, <1>3, <1>6, <1>7, BoundsNat DEF JobAt, PrinterAt, Jobs, Printers, d

(* Each pair has a number.                                                 *)
LEMMA PairNumber ==
  ASSUME TypeOK, NEW i \in Jobs, NEW p \in Printers, p < printer_count
  PROVE  \E n \in 0..(Pairs - 1) : JobAt(n) = i /\ PrinterAt(n) = p
<1>1. /\ MAX_JOBS \in Nat /\ MAX_JOBS > 0 /\ printer_count \in Nat
      /\ i \in 0..(MAX_JOBS - 1) /\ p \in Nat
  BY BoundsNat DEF TypeOK, Jobs, Printers
<1> DEFINE n == (p * MAX_JOBS) + i
<1>2. n \in Nat
  BY <1>1
<1>3. n < printer_count * MAX_JOBS
  <2>1. (MAX_JOBS * p) + MAX_JOBS <= MAX_JOBS * printer_count
    BY <1>1, MultMono
  <2> QED
    BY <2>1, <1>1
<1>4. n \in 0..(Pairs - 1)
  BY <1>1, <1>2, <1>3 DEF Pairs
<1>5. JobAt(n) = i /\ PrinterAt(n) = p
  BY <1>1, DivModUnique DEF JobAt, PrinterAt
<1> HIDE DEF n
<1> QED
  BY <1>4, <1>5

-----------------------------------------------------------------------------
(* Every job that has a master has one of its own, and the count is right: *)
(* there is room for one more as long as a process id is free.             *)
LEMMA ServedFinite == IsFiniteSet(Served) /\ Cardinality(Served) \in Nat
<1>1. IsFiniteSet(Jobs)
  BY BoundsNat, FS_Interval DEF Jobs
<1> QED
  BY <1>1, FS_Subset, FS_CardinalityType DEF Served

LEMMA RoomForOne ==
  ASSUME TypeOK, SlotSound, OneJobPerPrinter, CountsMasters,
         NEW q \in Pids, phase[q] = "none"
  PROVE  job_process_count + 1 \in 0..Cardinality(Pids)
<1> DEFINE master == [i \in Served |-> pid[i]]
           Others == Pids \ {q}
<1>1. \A i \in Served : pid[i] \in Others
  BY DEF Served, TypeOK, SlotSound
<1>2. master \in Injection(Served, Others)
  BY <1>1, Zenon DEF Injection, IsInjective, OneJobPerPrinter
<1>3. /\ IsFiniteSet(Others) /\ Cardinality(Others) = Cardinality(Pids) - 1
      /\ Cardinality(Pids) \in Nat
  BY PidsFinite, FS_RemoveElement, FS_CardinalityType
<1>4. Cardinality(Served) <= Cardinality(Others)
  BY <1>2, <1>3, FS_Injection
<1> QED
  BY <1>3, <1>4, ServedFinite DEF CountsMasters

LEMMA OneLess ==
  ASSUME TypeOK, CountsMasters, NEW i \in Served
  PROVE  job_process_count - 1 \in 0..Cardinality(Pids)
<1>1. Cardinality(Served) # 0
  BY ServedFinite, FS_EmptySet
<1>2. Cardinality(Pids) \in Nat
  BY PidsFinite, FS_CardinalityType
<1> QED
  BY <1>1, <1>2, ServedFinite DEF CountsMasters, TypeOK

-----------------------------------------------------------------------------
(* Types.                                                                  *)
LEMMA TypesInit == Init => TypeOK
<1>1. Cardinality(Pids) \in Nat
  BY PidsFinite, FS_CardinalityType
<1>2. Init => /\ job_count \subseteq Jobs
              /\ file \in [Jobs -> Files \cup {NoFile}]
              /\ status \in [Jobs -> Statuses]
              /\ pid \in [Jobs -> Pids \cup {0}]
              /\ timestamp \in [Jobs -> {"0", "now", "old"}]
  BY DEF Init, Statuses
<1>3. Init => /\ printer_count \in 0..MAX_PRINTERS
              /\ printer_status \in [Printers -> {"DISABLED", "IDLE", "BUSY"}]
              /\ printer_pid \in [Printers -> Pids \cup {0}]
              /\ job_process_count \in 0..Cardinality(Pids)
  BY <1>1, BoundsNat DEF Init
<1>4. Init => /\ jobs_done \in BOOLEAN /\ program_failure \in BOOLEAN
              /\ missed \in BOOLEAN /\ handling \in BOOLEAN /\ sigchld \in BOOLEAN
  BY Zenon DEF Init
<1>5. Init => /\ conversions \subseteq Programs /\ pc \in Labels /\ scan \in Nat
  BY DEF Init, Labels
<1>6. Init => /\ stopped \subseteq Pids /\ termed \subseteq Pids /\ orphans \subseteq Pids
              /\ phase \in [Pids -> {"none", "forked", "grouped", "working",
                                     "succeeded", "failed"}]
              /\ report \in [Pids -> {"none", "stopped", "continued"}]
              /\ prints_on \in [Pids -> Printers \cup {0}]
  BY DEF Init
<1> QED
  BY <1>2, <1>3, <1>4, <1>5, <1>6 DEF TypeOK

LEMMA TypesScanner ==
  ASSUME JobsInv, Scanner
  PROVE  TypeOK'
<1> USE DEF JobsInv
<1>1. CASE ScanEnd
  BY <1>1 DEF ScanEnd, TypeOK, jobVars, printerVars, countVars, procVars, Labels
<1> SUFFICES ASSUME NEW n \in 0..(Pairs - 1),
                    ScanStart(n) \/ ScanNoFork(n) \/ ScanOrphan(n)
             PROVE  TypeOK'
  BY <1>1 DEF Scanner
<1>2. /\ JobAt(n) \in Jobs /\ PrinterAt(n) \in Printers
      /\ n \in Nat
  BY PairSplit
<1>3. CASE ScanStart(n)
  <2>1. PICK q \in Pids : Start(JobAt(n), PrinterAt(n), q)
    BY <1>3 DEF ScanStart
  <2>2. job_process_count + 1 \in 0..Cardinality(Pids)
    BY <2>1, RoomForOne DEF Start, Fresh
  <2> QED
    BY <1>2, <1>3, <2>1, <2>2
    DEF ScanStart, Start, TypeOK, Statuses
<1>4. CASE ScanNoFork(n)
  BY <1>2, <1>4 DEF ScanNoFork, TypeOK, jobVars, printerVars, countVars, procVars
<1>5. CASE ScanOrphan(n)
  BY <1>2, <1>5 DEF ScanOrphan, TypeOK, jobVars, printerVars, countVars
<1> QED
  BY <1>3, <1>4, <1>5

LEMMA TypesHandler ==
  ASSUME JobsInv, Handler
  PROVE  TypeOK'
<1> USE DEF JobsInv, jobVars, printerVars, countVars, procVars, loopVars
<1>1. CASE HandlerEnter
  BY <1>1 DEF HandlerEnter, TypeOK
<1>2. CASE HandlerReap
  <2>1. PICK q \in Pids, i \in Jobs, p \in Printers : Reap(i, p, q)
    BY <1>2 DEF HandlerReap
  <2>2. job_process_count - 1 \in 0..Cardinality(Pids)
    BY <2>1, PidsFinite, OneLess DEF Reap, JobIs, Served
  <2> QED
    BY <1>2, <2>1, <2>2, BoundsNat
    DEF HandlerReap, Reap, OneMasterLess, TypeOK, Statuses, Printers
<1>3. CASE HandlerNote
  BY <1>3 DEF HandlerNote, Note, TypeOK, Statuses
<1>4. CASE HandlerLost
  BY <1>4 DEF HandlerLost, TypeOK, Labels
<1>5. CASE HandlerReturn
  BY <1>5 DEF HandlerReturn, Rescan, TypeOK, Labels
<1> QED
  BY <1>1, <1>2, <1>3, <1>4, <1>5 DEF Handler

LEMMA TypesTermAndCont ==
  ASSUME TypeOK, NEW Q \in SUBSET Pids, TermAndCont(Q)
  PROVE  /\ termed' \subseteq Pids /\ stopped' \subseteq Pids
         /\ report' \in [Pids -> {"none", "stopped", "continued"}]
         /\ sigchld' \in BOOLEAN
         /\ UNCHANGED <<phase, prints_on, orphans>>
BY DEF TermAndCont, TypeOK

LEMMA TypesCommands ==
  ASSUME JobsInv, Commands
  PROVE  TypeOK'
<1> USE DEF JobsInv, jobVars, printerVars, countVars, procVars,
            Command, Keeps, NoSignal
<1>1. CASE NoEffect
  BY <1>1 DEF NoEffect, TypeOK, Labels
<1>2. CASE DefinePrinter
  <2>1. printer_count' \in 0..MAX_PRINTERS
    BY <1>2, BoundsNat DEF DefinePrinter, TypeOK
  <2>2. printer_status' \in [Printers -> {"DISABLED", "IDLE", "BUSY"}]
    BY <1>2 DEF DefinePrinter, TypeOK
  <2> QED
    BY <1>2, <2>1, <2>2 DEF DefinePrinter, TypeOK, Labels
<1>3. CASE OutOfMemory
  BY <1>3 DEF OutOfMemory, TypeOK, Labels
<1>4. CASE DefineConversion
  BY <1>4 DEF DefineConversion, TypeOK, Labels
<1>5. CASE PrintNoMemory
  BY <1>5 DEF PrintNoMemory, TypeOK, Labels
<1>6. ASSUME NEW i \in Jobs, Cancel(i)
      PROVE  TypeOK'
  BY <1>6 DEF Cancel, TypeOK, Labels, Statuses
<1>7. ASSUME NEW i \in Jobs, CancelMaster(i)
      PROVE  TypeOK'
  <2>1. {pid[i]} \in SUBSET Pids
    BY <1>7 DEF CancelMaster, TypeOK
  <2>2. TermAndCont({pid[i]})
    BY <1>7 DEF CancelMaster
  <2>3. /\ termed' \subseteq Pids /\ stopped' \subseteq Pids
        /\ report' \in [Pids -> {"none", "stopped", "continued"}]
        /\ sigchld' \in BOOLEAN
        /\ UNCHANGED <<phase, prints_on, orphans>>
    BY <2>1, <2>2, TypesTermAndCont
  <2> QED
    BY <1>7, <2>3 DEF CancelMaster, TypeOK, Labels
<1>8. ASSUME NEW i \in Jobs, Pause(i)
      PROVE  TypeOK'
  <2>1. /\ stopped' \subseteq Pids /\ sigchld' \in BOOLEAN
        /\ report' \in [Pids -> {"none", "stopped", "continued"}]
        /\ UNCHANGED <<phase, termed, prints_on, orphans>>
    <3> DEFINE q == pid[i]
    <3>1. q \in Pids
      BY <1>8 DEF Pause, TypeOK
    <3>2. CASE Group(q) /\ q \notin stopped
      <4>1. /\ stopped' = stopped \cup {q} /\ sigchld' = TRUE
            /\ report' = [report EXCEPT ![q] = "stopped"]
            /\ UNCHANGED <<phase, termed, prints_on, orphans>>
        BY <1>8, <3>2, Zenon DEF Pause
      <4> QED
        BY <3>1, <4>1 DEF TypeOK
    <3>3. CASE ~(Group(q) /\ q \notin stopped)
      <4>1. UNCHANGED <<procVars, sigchld>>
        BY <1>8, <3>3, Zenon DEF Pause
      <4> QED
        BY <4>1 DEF TypeOK
    <3> QED
      BY <3>2, <3>3
  <2>2. /\ pc' = "cleanup"
        /\ UNCHANGED <<jobVars, printerVars, countVars, program_failure,
                       conversions, scan, missed, handling>>
    BY <1>8, Zenon DEF Pause
  <2> QED
    BY <2>1, <2>2 DEF TypeOK, Labels
<1>9. ASSUME NEW i \in Jobs, Resume(i)
      PROVE  TypeOK'
  BY <1>9 DEF Resume, TypeOK, Labels
<1>10. ASSUME NEW i \in Jobs, NEW f \in Files, PrintFile(i, f)
       PROVE  TypeOK'
  BY <1>10 DEF PrintFile, TypeOK, Labels, Statuses
<1>11. ASSUME NEW p \in Printers, Disable(p)
       PROVE  TypeOK'
  BY <1>11 DEF Disable, TypeOK, Labels
<1>12. ASSUME NEW p \in Printers, Enable(p)
       PROVE  TypeOK'
  BY <1>12 DEF Enable, TypeOK, Labels
<1>13. CASE Quit
  BY <1>13 DEF Quit, TypeOK, Labels
<1> QED
  BY <1>1, <1>2, <1>3, <1>4, <1>5, <1>6, <1>7, <1>8, <1>9, <1>10, <1>11,
     <1>12, <1>13 DEF Commands

LEMMA PausedMasters ==
  ASSUME TypeOK, SlotSound
  PROVE  {pid[i] : i \in {j \in Jobs : status[j] = "PAUSED"}} \in SUBSET Pids
BY DEF TypeOK, SlotSound

LEMMA TypesEnding ==
  ASSUME JobsInv, Ending
  PROVE  TypeOK'
<1> USE DEF JobsInv, jobVars, printerVars, countVars, procVars, Keeps, NoSignal
<1>1. CASE CancelPaused
  <2> DEFINE Q == {pid[i] : i \in {j \in Jobs : status[j] = "PAUSED"}}
  <2>1. TermAndCont(Q)
    BY <1>1 DEF CancelPaused
  <2>2. Q \in SUBSET Pids
    BY PausedMasters
  <2> HIDE DEF Q
  <2>3. /\ termed' \subseteq Pids /\ stopped' \subseteq Pids
        /\ report' \in [Pids -> {"none", "stopped", "continued"}]
        /\ sigchld' \in BOOLEAN
        /\ UNCHANGED <<phase, prints_on, orphans>>
    BY <2>1, <2>2, TypesTermAndCont
  <2> QED
    BY <1>1, <2>3 DEF CancelPaused, TypeOK, Labels
<1>2. CASE CheckDone
  BY <1>2 DEF CheckDone, TypeOK, Labels
<1>3. CASE Suspend
  BY <1>3 DEF Suspend, TypeOK, Labels
<1> QED
  BY <1>1, <1>2, <1>3 DEF Ending

LEMMA TypesStep ==
  ASSUME JobsInv, [Next]_vars
  PROVE  TypeOK'
<1> USE DEF JobsInv, jobVars, printerVars, countVars, procVars, loopVars, NoSignal
<1>1. CASE Program
  <2>1. CASE Cleanup
    <3>1. job_count' \subseteq Jobs
      BY <2>1 DEF Cleanup, Expired, TypeOK
    <3> QED
      BY <2>1, <3>1 DEF Cleanup, Rescan, TypeOK, Labels
  <2> QED
    BY <1>1, <2>1, TypesScanner, TypesHandler, TypesCommands, TypesEnding
    DEF Program
<1>2. CASE ReadLine
  BY <1>2 DEF ReadLine, TypeOK, Labels
<1>3. ASSUME NEW q \in Pids, Master(q)
      PROVE  TypeOK'
  <2>1. CASE Progress(q)
    BY <2>1 DEF Progress, TypeOK
  <2>2. CASE End(q)
    BY <2>2 DEF End, TypeOK
  <2> QED
    BY <1>3, <2>1, <2>2 DEF Master
<1>4. ASSUME NEW i \in Jobs, TenSeconds(i)
      PROVE  TypeOK'
  BY <1>4 DEF TenSeconds, TypeOK
<1>5. CASE UNCHANGED vars
  BY <1>5 DEF vars, TypeOK
<1> QED
  BY <1>1, <1>2, <1>3, <1>4, <1>5 DEF Next

-----------------------------------------------------------------------------
(* What a step can do to the jobs, the printers' states and the masters.   *)
masterVars == <<phase, stopped, report, prints_on>>
serveVars  == <<printer_status, printer_pid>>

Quiet == UNCHANGED <<jobVars, serveVars, countVars, masterVars>>

Starts(i, p, q) == pc = "scan" /\ pc' = "scan" /\ Start(i, p, q)

Adopts(q) ==
  /\ phase[q] = "none"
  /\ phase' = [phase EXCEPT ![q] = "working"]
  /\ \E p \in Printers : prints_on' = [prints_on EXCEPT ![q] = p]
  /\ UNCHANGED <<jobVars, serveVars, countVars, stopped, report>>

Submits(i, f) ==
  /\ i \notin job_count
  /\ job_count' = job_count \cup {i}
  /\ file' = [file EXCEPT ![i] = f]
  /\ status' = [status EXCEPT ![i] = "CREATED"]
  /\ UNCHANGED <<pid, timestamp, serveVars, countVars, masterVars>>

Rejects(i) ==
  /\ pid[i] = 0 /\ i \in job_count
  /\ status' = [status EXCEPT ![i] = "ABORTED"]
  /\ timestamp' = [timestamp EXCEPT ![i] = "now"]
  /\ UNCHANGED <<job_count, file, pid, serveVars, countVars, masterVars>>

Deletes ==
  /\ timestamp' = [i \in Jobs |-> IF i \in Expired THEN "0" ELSE timestamp[i]]
  /\ job_count' = (job_count \ Expired) \cup (Expired \ job_count)
  /\ UNCHANGED <<file, status, pid, serveVars, countVars, masterVars>>

Ages(i) ==
  /\ timestamp[i] = "now"
  /\ timestamp' = [timestamp EXCEPT ![i] = "old"]
  /\ UNCHANGED <<job_count, file, status, pid, serveVars, countVars, masterVars>>

Stops(q) ==
  /\ Group(q) /\ q \notin stopped
  /\ stopped' = stopped \cup {q}
  /\ report' = [report EXCEPT ![q] = "stopped"]
  /\ UNCHANGED <<jobVars, serveVars, countVars, phase, prints_on>>

Continues(C) ==
  /\ C \subseteq stopped
  /\ stopped' = stopped \ C
  /\ report' = [q \in Pids |-> IF q \in C THEN "continued" ELSE report[q]]
  /\ UNCHANGED <<jobVars, serveVars, countVars, phase, prints_on>>

Switches(p) ==
  /\ \E s \in {"DISABLED", IF printer_pid[p] # 0 THEN "BUSY" ELSE "IDLE"} :
       printer_status' = [printer_status EXCEPT ![p] = s]
  /\ UNCHANGED <<jobVars, printer_pid, countVars, masterVars>>

Grows(q) ==
  /\ Alive(q)
  /\ \E s \in {"grouped", "working"} : phase' = [phase EXCEPT ![q] = s]
  /\ UNCHANGED <<jobVars, serveVars, countVars, stopped, report, prints_on>>

Ends(q) ==
  /\ Alive(q) /\ q \notin stopped
  /\ \E s \in {"succeeded", "failed"} : phase' = [phase EXCEPT ![q] = s]
  /\ report' = [report EXCEPT ![q] = "none"]
  /\ UNCHANGED <<jobVars, serveVars, countVars, stopped, prints_on>>

JobEffect ==
  \/ \E i \in Jobs, p \in Printers, q \in Pids : Starts(i, p, q) \/ Reap(i, p, q)
  \/ \E i \in Jobs, q \in Pids : Note(i, q)
  \/ \E i \in Jobs, f \in Files : Submits(i, f)
  \/ \E i \in Jobs : Rejects(i) \/ Ages(i)
  \/ Deletes
MasterEffect ==
  \/ \E q \in Pids : Adopts(q) \/ Stops(q) \/ Grows(q) \/ Ends(q)
  \/ \E C \in SUBSET Pids : Continues(C)
  \/ \E p \in Printers : Switches(p)
Effect == JobEffect \/ MasterEffect \/ Quiet

LEMMA EffectTermAndCont ==
  ASSUME TypeOK, NEW Q \in SUBSET Pids, TermAndCont(Q),
         UNCHANGED <<jobVars, printerVars, countVars>>
  PROVE  Effect
<1> DEFINE C == {q \in Q \cap stopped : Group(q)}
<1>1. C \in SUBSET Pids /\ C \subseteq stopped
  OBVIOUS
<1>2. /\ stopped' = stopped \ C
      /\ report' = [q \in Pids |-> IF q \in C THEN "continued" ELSE report[q]]
      /\ UNCHANGED <<phase, prints_on>>
  BY DEF TermAndCont
<1> HIDE DEF C
<1>3. Continues(C)
  BY <1>1, <1>2 DEF Continues, printerVars, serveVars
<1> QED
  BY <1>1, <1>3, Zenon DEF Effect, MasterEffect

LEMMA EffectScanner ==
  ASSUME TypeOK, Scanner
  PROVE  Effect
<1> USE DEF Effect, serveVars, printerVars, masterVars, procVars
<1>1. CASE ScanEnd
  BY <1>1 DEF ScanEnd, Quiet
<1> SUFFICES ASSUME NEW n \in 0..(Pairs - 1),
                    ScanStart(n) \/ ScanNoFork(n) \/ ScanOrphan(n)
             PROVE  Effect
  BY <1>1, Zenon DEF Scanner
<1>2. JobAt(n) \in Jobs /\ PrinterAt(n) \in Printers
  BY PairSplit
<1>3. CASE ScanStart(n)
  <2>1. PICK q \in Pids : Start(JobAt(n), PrinterAt(n), q)
    BY <1>3 DEF ScanStart
  <2>2. Starts(JobAt(n), PrinterAt(n), q)
    BY <1>3, <2>1 DEF ScanStart, NextPair, Starts
  <2> QED
    BY <1>2, <2>2, Zenon DEF JobEffect
<1>4. CASE ScanNoFork(n)
  BY <1>4 DEF ScanNoFork, Quiet
<1>5. CASE ScanOrphan(n)
  <2>1. PICK q \in Pids : Adopts(q)
    BY <1>2, <1>5, Zenon DEF ScanOrphan, Fresh, Adopts
  <2> QED
    BY <2>1, Zenon DEF MasterEffect
<1> QED
  BY <1>3, <1>4, <1>5

LEMMA EffectHandler ==
  ASSUME Handler
  PROVE  Effect
<1> USE DEF Effect, serveVars, printerVars, masterVars, procVars
<1>1. CASE HandlerEnter
  BY <1>1 DEF HandlerEnter, Quiet
<1>2. CASE HandlerReap
  BY <1>2, Zenon DEF HandlerReap, JobEffect
<1>3. CASE HandlerNote
  BY <1>3, Zenon DEF HandlerNote, JobEffect
<1>4. CASE HandlerLost
  BY <1>4 DEF HandlerLost, Quiet
<1>5. CASE HandlerReturn
  BY <1>5 DEF HandlerReturn, Quiet
<1> QED
  BY <1>1, <1>2, <1>3, <1>4, <1>5 DEF Handler

LEMMA EffectCommands ==
  ASSUME TypeOK, Commands
  PROVE  Effect
<1> USE DEF serveVars, printerVars, masterVars, procVars, Command, NoSignal
<1>1. CASE NoEffect
  BY <1>1 DEF Effect, NoEffect, Quiet
<1>2. CASE DefinePrinter
  <2>1. printer_count \in Printers
    BY <1>2, BoundsNat DEF DefinePrinter, TypeOK, Printers
  <2>2. Switches(printer_count)
    BY <1>2, Zenon DEF DefinePrinter, Switches
  <2> QED
    BY <2>1, <2>2, Zenon DEF Effect, MasterEffect
<1>3. CASE OutOfMemory
  BY <1>3 DEF Effect, OutOfMemory, Quiet
<1>4. CASE DefineConversion
  BY <1>4 DEF Effect, DefineConversion, Quiet
<1>5. CASE PrintNoMemory
  BY <1>5 DEF Effect, PrintNoMemory, Quiet
<1>6. ASSUME NEW i \in Jobs, Cancel(i)
      PROVE  Effect
  <2>1. Rejects(i)
    BY <1>6, Zenon DEF Cancel, Rejects
  <2> QED
    BY <2>1, Zenon DEF Effect, JobEffect
<1>7. ASSUME NEW i \in Jobs, CancelMaster(i)
      PROVE  Effect
  <2>1. {pid[i]} \in SUBSET Pids
    BY <1>7 DEF CancelMaster, TypeOK
  <2> QED
    BY <1>7, <2>1, EffectTermAndCont, Zenon DEF CancelMaster
<1>8. ASSUME NEW i \in Jobs, Pause(i)
      PROVE  Effect
  <2>1. pid[i] \in Pids
    BY <1>8 DEF Pause, TypeOK
  <2>2. Stops(pid[i]) \/ Quiet
    BY <1>8, Zenon DEF Pause, Stops, Quiet
  <2> QED
    BY <2>1, <2>2, Zenon DEF Effect, MasterEffect
<1>9. ASSUME NEW i \in Jobs, Resume(i)
      PROVE  Effect
  <2>1. pid[i] \in Pids
    BY <1>9 DEF Resume, TypeOK
  <2>2. CASE pid[i] \in stopped
    <3>1. /\ stopped' = stopped \ {pid[i]}
          /\ report' = [report EXCEPT ![pid[i]] = "continued"]
          /\ UNCHANGED <<jobVars, serveVars, countVars, phase, prints_on>>
      BY <1>9, <2>2, Zenon DEF Resume
    <3>2. Continues({pid[i]})
      BY <2>1, <2>2, <3>1 DEF Continues, TypeOK
    <3> QED
      BY <2>1, <3>2, Zenon DEF Effect, MasterEffect
  <2>3. CASE pid[i] \notin stopped
    BY <1>9, <2>3 DEF Resume, Effect, Quiet
  <2> QED
    BY <2>2, <2>3
<1>10. ASSUME NEW i \in Jobs, NEW f \in Files, PrintFile(i, f)
       PROVE  Effect
  <2>1. Submits(i, f)
    BY <1>10, Zenon DEF PrintFile, FreeSlot, Submits
  <2> QED
    BY <2>1, Zenon DEF Effect, JobEffect
<1>11. ASSUME NEW p \in Printers, Disable(p) \/ Enable(p)
       PROVE  Effect
  <2>1. Switches(p)
    BY <1>11, Zenon DEF Disable, Enable, Switches
  <2> QED
    BY <2>1, Zenon DEF Effect, MasterEffect
<1>12. CASE Quit
  BY <1>12 DEF Effect, Quit, Quiet
<1> QED
  BY <1>1, <1>2, <1>3, <1>4, <1>5, <1>6, <1>7, <1>8, <1>9, <1>10, <1>11,
     <1>12 DEF Commands

LEMMA EffectEnding ==
  ASSUME TypeOK, SlotSound, Ending
  PROVE  Effect
<1> USE DEF serveVars, printerVars, masterVars, procVars, NoSignal
<1>1. CASE CancelPaused
  BY <1>1, PausedMasters, EffectTermAndCont, Zenon DEF CancelPaused
<1>2. CASE CheckDone
  BY <1>2 DEF Effect, CheckDone, Quiet
<1>3. CASE Suspend
  BY <1>3 DEF Effect, Suspend, Quiet
<1> QED
  BY <1>1, <1>2, <1>3 DEF Ending

LEMMA StepEffects ==
  ASSUME TypeOK, SlotSound, [Next]_vars
  PROVE  Effect
<1> USE DEF serveVars, printerVars, masterVars, procVars, NoSignal
<1>1. CASE Cleanup
  BY <1>1, Zenon DEF Effect, JobEffect, Cleanup, Deletes
<1>2. CASE ReadLine
  BY <1>2 DEF Effect, ReadLine, Quiet
<1>3. ASSUME NEW q \in Pids, Master(q)
      PROVE  Effect
  <2>1. CASE Progress(q)
    <3>1. Grows(q)
      BY <2>1 DEF Progress, Alive, Grows
    <3> QED
      BY <3>1, Zenon DEF Effect, MasterEffect
  <2>2. CASE End(q)
    <3>1. Ends(q)
      BY <2>2, Zenon DEF End, Ends
    <3> QED
      BY <3>1, Zenon DEF Effect, MasterEffect
  <2> QED
    BY <1>3, <2>1, <2>2 DEF Master
<1>4. ASSUME NEW i \in Jobs, TenSeconds(i)
      PROVE  Effect
  <2>1. Ages(i)
    BY <1>4, Zenon DEF TenSeconds, Ages
  <2> QED
    BY <2>1, Zenon DEF Effect, JobEffect
<1>5. CASE UNCHANGED vars
  BY <1>5 DEF Effect, vars, Quiet
<1> QED
  BY <1>1, <1>2, <1>3, <1>4, <1>5, EffectScanner, EffectHandler, EffectCommands,
     EffectEnding, Zenon DEF Next, Program

-----------------------------------------------------------------------------
(* Slots.                                                                  *)
LEMMA SlotSoundJobs ==
  ASSUME JobsInv, JobEffect
  PROVE  SlotSound'
<1> USE DEF JobsInv, jobVars, serveVars, countVars, masterVars
<1>1. ASSUME NEW i \in Jobs, NEW p \in Printers, NEW q \in Pids, Starts(i, p, q)
      PROVE  SlotSound'
  BY <1>1, PidsFinite
  DEF Starts, Start, Startable, Fresh, SlotSound, TypeOK, Statuses
<1>2. ASSUME NEW i \in Jobs, NEW p \in Printers, NEW q \in Pids, Reap(i, p, q)
      PROVE  SlotSound'
  <2>1. pid[i] = q /\ q # 0 /\ \A j \in Jobs : j # i => pid[j] # q
    BY <1>2, PidsFinite DEF Reap, JobIs, OneJobPerPrinter, Served
  <2> QED
    BY <1>2, <2>1 DEF Reap, SlotSound, TypeOK, Statuses
<1>3. ASSUME NEW i \in Jobs, NEW q \in Pids, Note(i, q)
      PROVE  SlotSound'
  BY <1>3, PidsFinite DEF Note, JobIs, SlotSound, TypeOK, Statuses
<1>4. ASSUME NEW i \in Jobs, NEW f \in Files, Submits(i, f)
      PROVE  SlotSound'
  BY <1>4 DEF Submits, SlotSound, TypeOK, Statuses
<1>5. ASSUME NEW i \in Jobs, Rejects(i)
      PROVE  SlotSound'
  BY <1>5 DEF Rejects, SlotSound, TypeOK, Statuses
<1>6. ASSUME NEW i \in Jobs, Ages(i)
      PROVE  SlotSound'
  BY <1>6 DEF Ages, SlotSound, TypeOK
<1>7. CASE Deletes
  BY <1>7 DEF Deletes, Expired, SlotSound, TypeOK
<1> QED
  BY <1>1, <1>2, <1>3, <1>4, <1>5, <1>6, <1>7, Zenon DEF JobEffect

LEMMA SlotSoundMasters ==
  ASSUME JobsInv, MasterEffect
  PROVE  SlotSound'
<1> USE DEF JobsInv, jobVars, serveVars, countVars, masterVars
<1>1. ASSUME NEW q \in Pids, Adopts(q)
      PROVE  SlotSound'
  BY <1>1 DEF Adopts, SlotSound, TypeOK
<1>2. ASSUME NEW q \in Pids, Stops(q)
      PROVE  SlotSound'
  BY <1>2 DEF Stops, SlotSound
<1>3. ASSUME NEW q \in Pids, Grows(q)
      PROVE  SlotSound'
  BY <1>3 DEF Grows, SlotSound, TypeOK
<1>4. ASSUME NEW q \in Pids, Ends(q)
      PROVE  SlotSound'
  BY <1>4 DEF Ends, SlotSound, TypeOK
<1>5. ASSUME NEW C \in SUBSET Pids, Continues(C)
      PROVE  SlotSound'
  BY <1>5 DEF Continues, SlotSound
<1>6. ASSUME NEW p \in Printers, Switches(p)
      PROVE  SlotSound'
  BY <1>6 DEF Switches, SlotSound
<1> QED
  BY <1>1, <1>2, <1>3, <1>4, <1>5, <1>6, Zenon DEF MasterEffect

LEMMA SlotSoundStep ==
  ASSUME JobsInv, Effect
  PROVE  SlotSound'
<1>1. CASE Quiet
  BY <1>1 DEF JobsInv, Quiet, jobVars, masterVars, SlotSound
<1> QED
  BY <1>1, SlotSoundJobs, SlotSoundMasters DEF Effect

-----------------------------------------------------------------------------
(* Printers and the masters they wait for.                                 *)

(* A printer's master is that of the one job it prints.                    *)
LEMMA PrinterOfJob ==
  ASSUME JobsInv, NEW i \in Served
  PROVE  /\ prints_on[pid[i]] \in file[i].eligible \cap Printers
         /\ printer_pid[prints_on[pid[i]]] = pid[i]
         /\ \A p \in Printers : printer_pid[p] = pid[i] => p = prints_on[pid[i]]
<1>1. file[i].eligible \subseteq Printers
  BY FilesKnown DEF JobsInv, TypeOK, Served, NoFile
<1>2. pid[i] # 0
  BY DEF Served
<1> QED
  BY <1>1, <1>2 DEF JobsInv, OneJobPerPrinter, PrintersOK

LEMMA PrintersOKStep ==
  ASSUME JobsInv, Effect
  PROVE  PrintersOK'
<1> USE DEF JobsInv, jobVars, serveVars, countVars, masterVars
<1>1. ASSUME NEW i \in Jobs, NEW p \in Printers, NEW q \in Pids, Starts(i, p, q)
      PROVE  PrintersOK'
  <2>1. \A r \in Printers : printer_pid[r] # q
    BY <1>1, PidsFinite DEF Starts, Start, Fresh, OneJobPerPrinter, SlotSound, Served
  <2> QED
    BY <1>1, <2>1 DEF Starts, Start, PrintersOK, TypeOK
<1>2. ASSUME NEW i \in Jobs, NEW p \in Printers, NEW q \in Pids, Reap(i, p, q)
      PROVE  PrintersOK'
  BY <1>2 DEF Reap, PrinterIs, PrintersOK, TypeOK
<1>3. ASSUME NEW q \in Pids, Adopts(q)
      PROVE  PrintersOK'
  <2>1. \A r \in Printers : printer_pid[r] # q
    BY <1>3, PidsFinite DEF Adopts, OneJobPerPrinter, SlotSound, Served
  <2> QED
    BY <1>3, <2>1 DEF Adopts, PrintersOK, TypeOK
<1>4. CASE UNCHANGED <<printer_pid, prints_on>>
  BY <1>4 DEF PrintersOK
<1> QED
  BY <1>1, <1>2, <1>3, <1>4
  DEF Effect, JobEffect, MasterEffect, Quiet, Note, printerVars, Submits, Rejects,
      Ages, Deletes, Stops, Grows, Ends, Continues, Switches

LEMMA OneJobStart ==
  ASSUME JobsInv, NEW i \in Jobs, NEW p \in Printers, NEW q \in Pids,
         Starts(i, p, q)
  PROVE  OneJobPerPrinter'
<1> USE DEF JobsInv, Starts, Start, Startable, Fresh
<1>1. /\ q # 0 /\ \A j \in Jobs : pid[j] # q
      /\ \A r \in Printers : printer_pid[r] # q
  BY PidsFinite DEF SlotSound, OneJobPerPrinter, Served, TypeOK
<1>2. printer_pid[p] = 0 /\ pid[i] = 0
  BY DEF OneJobPerPrinter, SlotSound, TypeOK
<1>3. Served' = Served \cup {i}
  BY <1>1 DEF Served, TypeOK
<1>4. ASSUME NEW j \in Served'
      PROVE  \E r \in file'[j].eligible : printer_pid'[r] = pid'[j] /\ prints_on'[pid'[j]] = r
  <2>1. CASE j = i
    BY <2>1, <1>1 DEF TypeOK
  <2>2. CASE j # i
    <3>1. j \in Served /\ pid'[j] = pid[j] /\ pid[j] # 0 /\ pid[j] # q
      BY <2>2, <1>1, <1>3, <1>4 DEF Served, TypeOK
    <3> DEFINE r == prints_on[pid[j]]
    <3>2. r \in file[j].eligible \cap Printers /\ printer_pid[r] = pid[j]
      BY <3>1, PrinterOfJob
    <3>3. r # p
      BY <3>1, <3>2, <1>2
    <3>4. printer_pid'[r] = pid[j] /\ prints_on'[pid[j]] = r
      BY <3>1, <3>2, <3>3 DEF TypeOK, Served
    <3> QED
      BY <3>1, <3>2, <3>4
  <2> QED
    BY <2>1, <2>2
<1>5. \A j, k \in Served' : pid'[j] = pid'[k] => j = k
  BY <1>1, <1>3 DEF OneJobPerPrinter, Served, TypeOK
<1>6. ASSUME NEW r \in Printers
      PROVE  /\ printer_status'[r] = "IDLE" => printer_pid'[r] = 0
             /\ printer_status'[r] = "BUSY" => printer_pid'[r] # 0
             /\ printer_pid'[r] # 0 => \E j \in Served' : pid'[j] = printer_pid'[r]
  <2>1. CASE r = p
    BY <2>1, <1>1, <1>3 DEF TypeOK
  <2>2. CASE r # p
    <3>1. printer_status'[r] = printer_status[r] /\ printer_pid'[r] = printer_pid[r]
      BY <2>2 DEF TypeOK
    <3>2. ASSUME printer_pid[r] # 0
          PROVE  \E j \in Served' : pid'[j] = printer_pid[r]
      <4>1. PICK j \in Served : pid[j] = printer_pid[r]
        BY <3>2 DEF OneJobPerPrinter
      <4>2. pid'[j] = pid[j] /\ j \in Served'
        BY <1>2, <1>3 DEF Served, TypeOK
      <4> QED
        BY <4>1, <4>2
    <3> QED
      BY <3>1, <3>2 DEF OneJobPerPrinter
  <2> QED
    BY <2>1, <2>2
<1> QED
  BY <1>4, <1>5, <1>6, Zenon DEF OneJobPerPrinter

LEMMA OneJobReap ==
  ASSUME JobsInv, NEW i \in Jobs, NEW p \in Printers, NEW q \in Pids,
         Reap(i, p, q)
  PROVE  OneJobPerPrinter'
<1> USE DEF JobsInv, Reap, JobIs, PrinterIs
<1>1. /\ q # 0 /\ pid[i] = q /\ i \in Served /\ printer_pid[p] = q
      /\ \A j \in Jobs : j # i => pid[j] # q
  BY PidsFinite DEF OneJobPerPrinter, Served
<1>2. p = prints_on[q] /\ \A r \in Printers : r # p => printer_pid[r] # q
  BY <1>1, PrinterOfJob
<1>3. Served' = Served \ {i}
  BY <1>1 DEF Served, TypeOK
<1>4. ASSUME NEW j \in Served'
      PROVE  \E r \in file'[j].eligible : printer_pid'[r] = pid'[j] /\ prints_on'[pid'[j]] = r
  <2>1. j \in Served /\ j # i /\ pid'[j] = pid[j] /\ pid[j] # 0 /\ pid[j] # q
    BY <1>1, <1>3 DEF Served, TypeOK
  <2> DEFINE r == prints_on[pid[j]]
  <2>2. r \in file[j].eligible \cap Printers /\ printer_pid[r] = pid[j]
    BY <2>1, PrinterOfJob
  <2>3. r # p
    BY <2>1, <2>2, <1>1
  <2>4. printer_pid'[r] = pid[j] /\ prints_on'[pid[j]] = r
    BY <2>1, <2>2, <2>3 DEF TypeOK, Served
  <2> QED
    BY <2>1, <2>2, <2>4
<1>5. \A j, k \in Served' : pid'[j] = pid'[k] => j = k
  BY <1>1, <1>3 DEF OneJobPerPrinter, Served, TypeOK
<1>6. ASSUME NEW r \in Printers
      PROVE  /\ printer_status'[r] = "IDLE" => printer_pid'[r] = 0
             /\ printer_status'[r] = "BUSY" => printer_pid'[r] # 0
             /\ printer_pid'[r] # 0 => \E j \in Served' : pid'[j] = printer_pid'[r]
  <2>1. CASE r = p
    BY <2>1, <1>1 DEF TypeOK
  <2>2. CASE r # p
    BY <2>2, <1>1, <1>2, <1>3 DEF TypeOK, OneJobPerPrinter, Served
  <2> QED
    BY <2>1, <2>2
<1> QED
  BY <1>4, <1>5, <1>6, Zenon DEF OneJobPerPrinter

LEMMA OneJobStep ==
  ASSUME JobsInv, Effect
  PROVE  OneJobPerPrinter'
<1> USE DEF JobsInv, jobVars, serveVars, countVars, masterVars
<1>1. ASSUME NEW i \in Jobs, NEW f \in Files, Submits(i, f)
      PROVE  OneJobPerPrinter'
  <2>1. Served' = Served /\ i \notin Served /\ \A j \in Served : file'[j] = file[j]
    BY <1>1 DEF Submits, Served, SlotSound, TypeOK
  <2> QED
    BY <1>1, <2>1 DEF Submits, OneJobPerPrinter
<1>2. ASSUME NEW q \in Pids, Adopts(q)
      PROVE  OneJobPerPrinter'
  <2>1. Served' = Served /\ \A j \in Served : prints_on'[pid[j]] = prints_on[pid[j]]
    BY <1>2 DEF Adopts, Served, SlotSound, TypeOK
  <2> QED
    BY <1>2, <2>1 DEF Adopts, OneJobPerPrinter
<1>3. ASSUME NEW p \in Printers, Switches(p)
      PROVE  OneJobPerPrinter'
  <2>1. \A r \in Printers :
          /\ printer_status'[r] = "IDLE" => printer_pid[r] = 0
          /\ printer_status'[r] = "BUSY" => printer_pid[r] # 0
    BY <1>3 DEF Switches, OneJobPerPrinter, TypeOK
  <2> QED
    BY <1>3, <2>1 DEF Switches, OneJobPerPrinter, Served
<1>4. CASE UNCHANGED <<file, pid, printer_status, printer_pid, prints_on>>
  BY <1>4 DEF OneJobPerPrinter, Served
<1> QED
  BY <1>1, <1>2, <1>3, <1>4, OneJobStart, OneJobReap
  DEF Effect, JobEffect, MasterEffect, Quiet, Note, printerVars, Rejects,
      Ages, Deletes, Stops, Grows, Ends, Continues

-----------------------------------------------------------------------------
(* The count of masters.                                                   *)
LEMMA CountsStep ==
  ASSUME JobsInv, Effect, pc' = "done" => pc = "done" \/ ~jobs_done
  PROVE  CountsMasters'
<1> USE DEF JobsInv, jobVars, serveVars, countVars, masterVars
<1>1. ASSUME NEW i \in Jobs, NEW p \in Printers, NEW q \in Pids, Starts(i, p, q)
      PROVE  CountsMasters'
  <2>1. Served' = Served \cup {i} /\ i \notin Served
    BY <1>1, PidsFinite DEF Starts, Start, Startable, Served, SlotSound, TypeOK
  <2>2. Cardinality(Served') = Cardinality(Served) + 1
    BY <2>1, ServedFinite, FS_AddElement
  <2> QED
    BY <1>1, <2>1, <2>2 DEF Starts, Start, CountsMasters
<1>2. ASSUME NEW i \in Jobs, NEW p \in Printers, NEW q \in Pids, Reap(i, p, q)
      PROVE  CountsMasters'
  <2>1. Served' = Served \ {i} /\ i \in Served
    BY <1>2, PidsFinite DEF Reap, JobIs, Served, TypeOK
  <2>2. IsFiniteSet(Served') /\ Cardinality(Served') = Cardinality(Served) - 1
    BY <2>1, ServedFinite, FS_RemoveElement
  <2>3. Served' = {} <=> Cardinality(Served) = 1
    BY <2>2, ServedFinite, FS_EmptySet
  <2>4. job_process_count' = Cardinality(Served')
    BY <1>2, <2>2 DEF Reap, OneMasterLess, CountsMasters
  <2>5. jobs_done' <=> Served' # {}
    BY <1>2, <2>1, <2>3 DEF Reap, OneMasterLess, CountsMasters
  <2>6. pc' = "done" => Served' = {}
    BY <2>1 DEF CountsMasters
  <2> QED
    BY <2>4, <2>5, <2>6 DEF CountsMasters
<1>3. ASSUME NEW i \in Jobs, NEW q \in Pids, Note(i, q)
      PROVE  CountsMasters'
  <2>1. Served' = Served /\ job_process_count' = job_process_count
    BY <1>3 DEF Note, Served
  <2>2. jobs_done' = (jobs_done /\ job_process_count # 0)
    BY <1>3 DEF Note
  <2>3. job_process_count = 0 <=> Served = {}
    BY ServedFinite, FS_EmptySet DEF CountsMasters
  <2> QED
    BY <2>1, <2>2, <2>3 DEF CountsMasters
<1>4. CASE UNCHANGED <<pid, job_process_count, jobs_done>>
  BY <1>4 DEF CountsMasters, Served
<1> QED
  BY <1>1, <1>2, <1>3, <1>4
  DEF Effect, JobEffect, MasterEffect, Quiet, Submits, Rejects, Adopts, Switches,
      Ages, Deletes, Stops, Grows, Ends, Continues

-----------------------------------------------------------------------------
(* Reports.                                                                *)
LEMMA MastersOKStep ==
  ASSUME JobsInv, Effect
  PROVE  MastersOK'
<1> USE DEF JobsInv, jobVars, serveVars, countVars, masterVars, Group, Alive, Ended
<1>1. ASSUME NEW i \in Jobs, NEW p \in Printers, NEW q \in Pids, Starts(i, p, q)
      PROVE  MastersOK'
  BY <1>1 DEF Starts, Start, Fresh, MastersOK, TypeOK
<1>2. ASSUME NEW i \in Jobs, NEW p \in Printers, NEW q \in Pids, Reap(i, p, q)
      PROVE  MastersOK'
  BY <1>2 DEF Reap, MastersOK, TypeOK
<1>3. ASSUME NEW i \in Jobs, NEW q \in Pids, Note(i, q)
      PROVE  MastersOK'
  BY <1>3 DEF Note, MastersOK, TypeOK
<1>4. ASSUME NEW q \in Pids, Adopts(q)
      PROVE  MastersOK'
  BY <1>4 DEF Adopts, MastersOK, TypeOK
<1>5. ASSUME NEW q \in Pids, Stops(q)
      PROVE  MastersOK'
  BY <1>5 DEF Stops, MastersOK, TypeOK
<1>6. ASSUME NEW q \in Pids, Grows(q)
      PROVE  MastersOK'
  BY <1>6 DEF Grows, MastersOK, TypeOK
<1>7. ASSUME NEW q \in Pids, Ends(q)
      PROVE  MastersOK'
  BY <1>7 DEF Ends, MastersOK, TypeOK
<1>8. ASSUME NEW C \in SUBSET Pids, Continues(C)
      PROVE  MastersOK'
  BY <1>8 DEF Continues, MastersOK, TypeOK
<1>9. CASE UNCHANGED <<phase, stopped, report>>
  BY <1>9 DEF MastersOK
<1> QED
  BY <1>1, <1>2, <1>3, <1>4, <1>5, <1>6, <1>7, <1>8, <1>9
  DEF Effect, JobEffect, MasterEffect, Quiet, Submits, Rejects, Ages, Deletes, Switches

LEMMA ReportsOKJobs ==
  ASSUME JobsInv, JobEffect
  PROVE  ReportsOK'
<1> USE DEF JobsInv, jobVars, serveVars, countVars, masterVars, Ended
<1>1. ASSUME NEW i \in Jobs, NEW p \in Printers, NEW q \in Pids, Starts(i, p, q)
      PROVE  ReportsOK'
  <2>1. q \notin stopped
    BY <1>1 DEF Starts, Start, Fresh, MastersOK, Group
  <2>2. \A j \in Served : pid[j] # q
    BY <1>1 DEF Starts, Start, Fresh, SlotSound, Served
  <2> QED
    BY <1>1, <2>1, <2>2
    DEF Starts, Start, Startable, ReportsOK, Served, SlotSound, TypeOK
<1>2. ASSUME NEW i \in Jobs, NEW p \in Printers, NEW q \in Pids, Reap(i, p, q)
      PROVE  ReportsOK'
  <2>1. \A j \in Jobs : j # i => pid[j] # q
    BY <1>2, PidsFinite DEF Reap, JobIs, OneJobPerPrinter, Served
  <2> QED
    BY <1>2, <2>1 DEF Reap, JobIs, ReportsOK, Served, TypeOK
<1>3. ASSUME NEW i \in Jobs, NEW q \in Pids, Note(i, q)
      PROVE  ReportsOK'
  <2>1. \A j \in Jobs : j # i => pid[j] # q
    BY <1>3, PidsFinite DEF Note, JobIs, OneJobPerPrinter, Served
  <2>2. /\ report[q] = "stopped" <=> q \in stopped
        /\ report[q] \in {"stopped", "continued"}
    BY <1>3 DEF Note, MastersOK, TypeOK
  <2> QED
    BY <1>3, <2>1, <2>2 DEF Note, JobIs, ReportsOK, Served, TypeOK
<1>4. ASSUME NEW i \in Jobs, NEW f \in Files, Submits(i, f)
      PROVE  ReportsOK'
  BY <1>4 DEF Submits, ReportsOK, Served, SlotSound, TypeOK
<1>5. ASSUME NEW i \in Jobs, Rejects(i)
      PROVE  ReportsOK'
  BY <1>5 DEF Rejects, ReportsOK, Served, TypeOK
<1>6. CASE UNCHANGED <<pid, status, phase, stopped, report>>
  BY <1>6 DEF ReportsOK, Served
<1> QED
  BY <1>1, <1>2, <1>3, <1>4, <1>5, <1>6 DEF JobEffect, Ages, Deletes

LEMMA ReportsOKMasters ==
  ASSUME JobsInv, MasterEffect
  PROVE  ReportsOK'
<1> USE DEF JobsInv, jobVars, serveVars, countVars, masterVars
<1>0. \A i \in Served : pid[i] \in Pids /\ phase[pid[i]] # "none"
  BY DEF Served, SlotSound, TypeOK
<1>1. ASSUME NEW q \in Pids, Adopts(q)
      PROVE  ReportsOK'
  BY <1>0, <1>1 DEF Adopts, ReportsOK, Served, Ended, TypeOK
<1>2. ASSUME NEW q \in Pids, Stops(q)
      PROVE  ReportsOK'
  BY <1>0, <1>2 DEF Stops, ReportsOK, Served, Ended, TypeOK
<1>3. ASSUME NEW q \in Pids, Grows(q)
      PROVE  ReportsOK'
  BY <1>0, <1>3 DEF Grows, Alive, ReportsOK, Served, Ended, TypeOK
<1>4. ASSUME NEW q \in Pids, Ends(q)
      PROVE  ReportsOK'
  BY <1>0, <1>4 DEF Ends, ReportsOK, Served, Ended, TypeOK
<1>5. ASSUME NEW C \in SUBSET Pids, Continues(C)
      PROVE  ReportsOK'
  BY <1>0, <1>5 DEF Continues, ReportsOK, Served, Ended, TypeOK
<1>6. CASE UNCHANGED <<pid, status, phase, stopped, report>>
  BY <1>6 DEF ReportsOK, Served, Ended
<1> QED
  BY <1>1, <1>2, <1>3, <1>4, <1>5, <1>6 DEF MasterEffect, Switches

LEMMA ReportsOKStep ==
  ASSUME JobsInv, Effect
  PROVE  ReportsOK'
<1>1. CASE Quiet
  BY <1>1 DEF Quiet, JobsInv, jobVars, masterVars, ReportsOK, Served, Ended
<1> QED
  BY <1>1, ReportsOKJobs, ReportsOKMasters DEF Effect

-----------------------------------------------------------------------------
(* What can be started depends on the jobs, the printers' states and the   *)
(* conversions alone.                                                      *)
LEMMA StartableSame ==
  ASSUME UNCHANGED <<job_count, file, status, printer_status, conversions>>
  PROVE  /\ \A i, p : Startable(i, p)' = Startable(i, p)
         /\ \A n : StartableAt(n)' = StartableAt(n)
BY DEF StartableAt, Startable, Path, JobAt, PrinterAt

(* A job that is started, and its printer, are out of the scan's sight.    *)
LEMMA StartableLess ==
  ASSUME JobsInv, NEW i \in Jobs, NEW p \in Printers, NEW q \in Pids,
         Start(i, p, q), UNCHANGED conversions
  PROVE  /\ ~Startable(i, p)'
         /\ \A j, r : j \in Jobs /\ r \in Printers /\ ~Startable(j, r) => ~Startable(j, r)'
<1>1. status'[i] = "RUNNING"
  BY DEF Start, JobsInv, TypeOK
<1>2. ASSUME NEW j \in Jobs, NEW r \in Printers, Startable(j, r)'
      PROVE  Startable(j, r)
  <2>1. j # i /\ r # p
    BY <1>1, <1>2 DEF Startable, Start, JobsInv, TypeOK
  <2>2. /\ status'[j] = status[j] /\ printer_status'[r] = printer_status[r]
        /\ job_count' = job_count /\ file' = file
    BY <2>1 DEF Start, JobsInv, TypeOK
  <2>3. Path(file[j].type, PrinterType[r])' <=> Path(file[j].type, PrinterType[r])
    BY <2>2 DEF Path
  <2> QED
    BY <1>2, <2>2, <2>3 DEF Startable
<1>3. ~Startable(i, p)'
  BY <1>1 DEF Startable
<1> QED
  BY <1>2, <1>3

(* The end of the scan: what scanner is past is all there is.              *)
LEMMA ScanComplete ==
  ASSUME TypeOK, ScanOK, ~missed, pc = "scan",
         \A n \in scan..(Pairs - 1) : ~StartableAt(n),
         NEW i \in Jobs, NEW p \in Printers, p < printer_count
  PROVE  ~Startable(i, p)
<1>1. PICK n \in 0..(Pairs - 1) : JobAt(n) = i /\ PrinterAt(n) = p
  BY PairNumber
<1>2. scan \in Nat /\ Pairs \in Int
  BY BoundsNat DEF TypeOK, Pairs
<1>3. ~StartableAt(n)
  BY <1>2 DEF ScanOK
<1> QED
  BY <1>1, <1>3 DEF StartableAt

LEMMA ScanOKScanner ==
  ASSUME ImprimerInv, Scanner
  PROVE  ScanOK' /\ NoIdleWait'
<1> USE DEF ImprimerInv, JobsInv
<1>1. CASE ScanEnd
  <2>1. /\ pc = "scan" /\ pc' = "wait" /\ scan' = 0 /\ missed' = missed
        /\ printer_count' = printer_count
        /\ \A n \in scan..(Pairs - 1) : ~StartableAt(n)
    BY <1>1 DEF ScanEnd, printerVars
  <2>2. \A i, p : Startable(i, p)' = Startable(i, p)
    BY <1>1, StartableSame DEF ScanEnd, jobVars, printerVars
  <2>3. ScanOK'
    BY <2>1 DEF ScanOK
  <2>4. NoIdleWait'
    BY <2>1, <2>2, ScanComplete DEF NoIdleWait
  <2> QED
    BY <2>3, <2>4
<1> SUFFICES ASSUME NEW n \in 0..(Pairs - 1),
                    ScanStart(n) \/ ScanNoFork(n) \/ ScanOrphan(n)
             PROVE  ScanOK' /\ NoIdleWait'
  BY <1>1, Zenon DEF Scanner
<1>2. /\ pc = "scan" /\ pc' = "scan" /\ handling' = handling
      /\ scan' = n + 1 /\ NextPair(n)
  BY DEF ScanStart, ScanNoFork, ScanOrphan, NextPair
<1>3. CASE ScanStart(n)
  <2>1. PICK q \in Pids : Start(JobAt(n), PrinterAt(n), q)
    BY <1>3 DEF ScanStart
  <2>2. missed' = missed /\ conversions' = conversions
    BY <1>3 DEF ScanStart
  <2>3. ASSUME ~missed, NEW m \in 0..n
        PROVE  ~StartableAt(m)'
    <3>1. /\ JobAt(n) \in Jobs /\ PrinterAt(n) \in Printers
          /\ JobAt(m) \in Jobs /\ PrinterAt(m) \in Printers
      <4>1. Pairs \in Int
        BY BoundsNat DEF TypeOK, Pairs
      <4>2. m \in 0..(Pairs - 1)
        BY <4>1
      <4> QED
        BY <4>2, PairSplit
    <3>2. m # n => ~StartableAt(m)
      BY <1>2, <2>3 DEF ScanOK, NextPair, TypeOK
    <3> QED
      BY <2>1, <2>2, <3>1, <3>2, StartableLess DEF StartableAt, JobAt, PrinterAt
  <2> QED
    BY <1>2, <2>2, <2>3 DEF ScanOK, NoIdleWait
<1>4. CASE ScanNoFork(n) \/ ScanOrphan(n)
  BY <1>2, <1>4 DEF ScanNoFork, ScanOrphan, ScanOK, NoIdleWait
<1> QED
  BY <1>3, <1>4

LEMMA ScanOKHandler ==
  ASSUME ImprimerInv, Handler
  PROVE  ScanOK' /\ NoIdleWait'
<1> USE DEF ImprimerInv, ScanOK, NoIdleWait, loopVars
<1>1. CASE HandlerEnter
  BY <1>1 DEF HandlerEnter
<1>2. CASE HandlerReap \/ HandlerNote
  BY <1>2 DEF HandlerReap, HandlerNote
<1>3. CASE HandlerLost
  BY <1>3 DEF HandlerLost
<1>4. CASE HandlerReturn
  BY <1>4 DEF HandlerReturn, Rescan
<1> QED
  BY <1>1, <1>2, <1>3, <1>4 DEF Handler

(* Every other step of the main process leaves the scan at its start.      *)
LEMMA ScanOKMoves ==
  ASSUME ImprimerInv, pc # "scan", ~handling,
         scan' = scan, handling' = handling, pc' # "wait"
  PROVE  ScanOK' /\ NoIdleWait'
BY DEF ImprimerInv, ScanOK, NoIdleWait

LEMMA ScanOKMain ==
  ASSUME ImprimerInv, Commands \/ Cleanup \/ Ending \/ ReadLine
  PROVE  ScanOK' /\ NoIdleWait'
<1>1. CASE Commands
  <2>1. /\ pc = "command" /\ ~handling /\ pc' # "wait"
        /\ scan' = scan /\ handling' = handling
    BY <1>1
    DEF Commands, NoEffect, DefinePrinter, OutOfMemory, DefineConversion,
        PrintNoMemory, Cancel, CancelMaster, Pause, Resume, PrintFile, Disable,
        Enable, Quit, Command, Keeps, Undisturbed
  <2> QED
    BY <2>1, ScanOKMoves
<1>2. CASE Cleanup
  <2>1. /\ pc = "cleanup" /\ ~handling /\ pc' # "wait"
        /\ scan' = scan /\ handling' = handling
    BY <1>2 DEF Cleanup, Rescan, Undisturbed
  <2> QED
    BY <2>1, ScanOKMoves
<1>3. CASE Ending
  <2>1. /\ pc \in {"exit", "check", "suspend"} /\ ~handling /\ pc' # "wait"
        /\ scan' = scan /\ handling' = handling
    BY <1>3 DEF Ending, CancelPaused, CheckDone, Suspend, Undisturbed, Keeps
  <2> QED
    BY <2>1, ScanOKMoves
<1>4. CASE ReadLine
  <2>1. /\ pc = "wait" /\ ~handling /\ pc' = "command"
        /\ scan' = scan /\ handling' = handling
    BY <1>4 DEF ReadLine
  <2> QED
    BY <2>1, ScanOKMoves
<1> QED
  BY <1>1, <1>2, <1>3, <1>4

(* Masters and time change nothing that scanner looks at.                  *)
LEMMA ScanOKElse ==
  ASSUME ImprimerInv,
         UNCHANGED <<job_count, file, status, printer_status, conversions,
                     printer_count, pc, scan, missed, handling>>
  PROVE  ScanOK' /\ NoIdleWait'
<1>1. /\ \A i, p : Startable(i, p)' = Startable(i, p)
      /\ \A n : StartableAt(n)' = StartableAt(n)
  BY StartableSame
<1> QED
  BY <1>1 DEF ImprimerInv, ScanOK, NoIdleWait

LEMMA ScanOKStep ==
  ASSUME ImprimerInv, [Next]_vars
  PROVE  ScanOK' /\ NoIdleWait'
<1> USE DEF jobVars, printerVars, loopVars
<1>1. ASSUME NEW q \in Pids, Master(q)
      PROVE  ScanOK' /\ NoIdleWait'
  BY <1>1, ScanOKElse DEF Master, Progress, End
<1>2. ASSUME NEW i \in Jobs, TenSeconds(i)
      PROVE  ScanOK' /\ NoIdleWait'
  BY <1>2, ScanOKElse DEF TenSeconds
<1>3. CASE UNCHANGED vars
  BY <1>3, ScanOKElse DEF vars
<1> QED
  BY <1>1, <1>2, <1>3, ScanOKScanner, ScanOKHandler, ScanOKMain
  DEF Next, Program

(* The program is done only once the flag says that no master is left.     *)
LEMMA DoneChecked ==
  ASSUME ImprimerInv, [Next]_vars
  PROVE  pc' = "done" => pc = "done" \/ ~jobs_done
<1> USE DEF loopVars
<1>1. CASE Scanner
  BY <1>1 DEF Scanner, ScanEnd, ScanStart, ScanNoFork, ScanOrphan
<1>2. CASE Handler
  BY <1>2
  DEF Handler, HandlerEnter, HandlerReap, HandlerNote, HandlerLost, HandlerReturn, Rescan
<1>3. CASE Commands
  BY <1>3
  DEF Commands, NoEffect, DefinePrinter, OutOfMemory, DefineConversion,
      PrintNoMemory, Cancel, CancelMaster, Pause, Resume, PrintFile, Disable,
      Enable, Quit, Command
<1>4. CASE Cleanup \/ ReadLine
  BY <1>4 DEF Cleanup, ReadLine, Rescan
<1>5. CASE Ending
  BY <1>5 DEF Ending, CancelPaused, CheckDone, Suspend
<1>6. CASE (\E q \in Pids : Master(q)) \/ (\E i \in Jobs : TenSeconds(i)) \/ UNCHANGED vars
  BY <1>6 DEF Master, Progress, End, TenSeconds, vars
<1> QED
  BY <1>1, <1>2, <1>3, <1>4, <1>5, <1>6 DEF Next, Program

-----------------------------------------------------------------------------
(* The invariant.                                                          *)
LEMMA InvInit == Init => ImprimerInv
<1> SUFFICES ASSUME Init PROVE ImprimerInv
  OBVIOUS
<1>1. TypeOK
  BY TypesInit
<1>2. Served = {}
  BY DEF Init, Served
<1>3. SlotSound /\ OneJobPerPrinter /\ PrintersOK
  BY <1>2 DEF Init, SlotSound, OneJobPerPrinter, PrintersOK
<1>4. CountsMasters
  BY <1>2, FS_EmptySet DEF Init, CountsMasters
<1>5. MastersOK /\ ReportsOK
  BY <1>2 DEF Init, MastersOK, ReportsOK
<1>6. ScanOK /\ NoIdleWait
  BY DEF Init, ScanOK, NoIdleWait
<1> QED
  BY <1>1, <1>3, <1>4, <1>5, <1>6 DEF ImprimerInv, JobsInv

LEMMA InvStep == ImprimerInv /\ [Next]_vars => ImprimerInv'
<1> SUFFICES ASSUME ImprimerInv, [Next]_vars PROVE ImprimerInv'
  OBVIOUS
<1>1. JobsInv /\ TypeOK /\ SlotSound
  BY DEF ImprimerInv, JobsInv
<1>2. Effect
  BY <1>1, StepEffects
<1>3. TypeOK'
  BY <1>1, TypesStep
<1>4. CountsMasters'
  BY <1>1, <1>2, CountsStep, DoneChecked
<1>5. SlotSound' /\ OneJobPerPrinter' /\ MastersOK' /\ ReportsOK' /\ PrintersOK'
  BY <1>1, <1>2, SlotSoundStep, OneJobStep, MastersOKStep, ReportsOKStep, PrintersOKStep
<1>6. ScanOK' /\ NoIdleWait'
  BY ScanOKStep
<1> QED
  BY <1>3, <1>4, <1>5, <1>6 DEF ImprimerInv, JobsInv

LEMMA InvAlways == Spec => []ImprimerInv
BY InvInit, InvStep, PTL DEF Spec

(* The tables, the counts and the masters keep their types: in particular  *)
(* there are never more masters counted than process ids.                  *)
THEOREM TypesCorrect == Spec => []TypeOK
<1>1. ImprimerInv => TypeOK
  BY DEF ImprimerInv, JobsInv
<1> QED
  BY <1>1, InvAlways, PTL

(* jobs[] is used as the bitmap says, whatever commands, reaped masters,   *)
(* stops and deletions follow each other (create_job, job_handler, cancel, *)
(* and the deletion after each command).                                   *)
THEOREM SlotsSound == Spec => []SlotSound
<1>1. ImprimerInv => SlotSound
  BY DEF ImprimerInv, JobsInv
<1> QED
  BY <1>1, InvAlways, PTL

(* A printer prints one job at a time, one it was asked for, also when it  *)
(* is disabled and enabled while it prints (start_job, enable).            *)
THEOREM OneJobEach == Spec => []OneJobPerPrinter
<1>1. ImprimerInv => OneJobPerPrinter
  BY DEF ImprimerInv, JobsInv
<1> QED
  BY <1>1, InvAlways, PTL

(* job_process_count counts the masters of jobs and jobs_done says whether *)
(* there is one, so that run_cli does not leave a job behind.              *)
THEOREM MastersCounted == Spec => []CountsMasters
<1>1. ImprimerInv => CountsMasters
  BY DEF ImprimerInv, JobsInv
<1> QED
  BY <1>1, InvAlways, PTL

(* A status that is not that of its master has a report still to come: the *)
(* handler, which reads reports until there is none, ends with every       *)
(* status true.                                                            *)
THEOREM StatusesTruthful == Spec => []StatusTruthful
<1>1. ImprimerInv => StatusTruthful
  BY DEF ImprimerInv, JobsInv, ReportsOK, StatusTruthful, Waitable
<1> QED
  BY <1>1, InvAlways, PTL

(* sf_readline never waits while a job could be started, unless a fork     *)
(* failed: scanner ran after all that could make a job startable.          *)
THEOREM NeverIdle == Spec => []NoIdleWait
<1>1. ImprimerInv => NoIdleWait
  BY DEF ImprimerInv
<1> QED
  BY <1>1, InvAlways, PTL

-----------------------------------------------------------------------------
(* The print queue: what its variables stand for.                          *)
qState   == [i \in Jobs |-> StateOf(i)]
qServer  == [i \in Jobs |-> IF pid[i] = 0 THEN -1 ELSE prints_on[pid[i]]]
qAsked   == [i \in Jobs |-> file[i].eligible]
qEnabled == {p \in Printers : printer_status[p] # "DISABLED"}

LEMMA BecomesState ==
  ASSUME NEW i \in Jobs, NEW s, StateOf(i)' = s,
         \A j \in Jobs : j # i => StateOf(j)' = StateOf(j)
  PROVE  qState' = [qState EXCEPT ![i] = s]
BY DEF qState

LEMMA BecomesServer ==
  ASSUME NEW i \in Jobs, NEW p, qServer'[i] = p,
         \A j \in Jobs : j # i => qServer'[j] = qServer[j]
  PROVE  qServer' = [qServer EXCEPT ![i] = p]
BY DEF qServer

(* What a status is called in the queue.                                   *)
LEMMA StateNames ==
  ASSUME TypeOK, NEW i \in Jobs
  PROVE  /\ i \notin job_count => StateOf(i) = "none"
         /\ i \in job_count =>
              /\ status[i] = "CREATED" => StateOf(i) = "created"
              /\ status[i] = "RUNNING" => StateOf(i) = "running"
              /\ status[i] = "PAUSED" => StateOf(i) = "paused"
              /\ status[i] = "FINISHED" => StateOf(i) = "finished"
              /\ status[i] = "ABORTED" => StateOf(i) = "aborted"
BY DEF StateOf, TypeOK, Statuses

LEMMA StateKept ==
  ASSUME TypeOK, NEW i \in Jobs, i \in job_count' <=> i \in job_count,
         status'[i] = status[i]
  PROVE  StateOf(i)' = StateOf(i)
BY DEF StateOf, TypeOK, Statuses

LEMMA QueueServe ==
  ASSUME JobsInv, TypeOK', NEW i \in Jobs, NEW p \in Printers, NEW q \in Pids,
         Starts(i, p, q)
  PROVE  Queue!Serve(i, p)
<1> USE DEF JobsInv, Starts, Start, Startable, Fresh
<1>1. /\ q # 0 /\ pid[i] = 0 /\ \A j \in Jobs : pid[j] # q
  BY PidsFinite DEF SlotSound, TypeOK
<1>2. StateOf(i) = "created" /\ StateOf(i)' = "running"
  <2>1. status'[i] = "RUNNING" /\ i \in job_count'
    BY DEF TypeOK
  <2> QED
    BY <2>1, StateNames DEF StateOf
<1>3. \A j \in Jobs : j # i => StateOf(j)' = StateOf(j)
  BY StateKept DEF TypeOK
<1>4. qState[i] = "created" /\ qState' = [qState EXCEPT ![i] = "running"]
  BY <1>2, <1>3, BecomesState DEF qState
<1>5. qServer' = [qServer EXCEPT ![i] = p]
  <2>1. qServer'[i] = p
    BY <1>1 DEF qServer, TypeOK
  <2>2. \A j \in Jobs : j # i => qServer'[j] = qServer[j]
    BY <1>1 DEF qServer, TypeOK
  <2> QED
    BY <2>1, <2>2, BecomesServer
<1>6. \A j \in Jobs : qServer[j] # p
  <2> SUFFICES ASSUME NEW j \in Jobs, qServer[j] = p PROVE FALSE
    OBVIOUS
  <2>1. pid[j] # 0
    BY DEF qServer, Printers
  <2>2. printer_pid[p] = pid[j]
    BY <2>1, PrinterOfJob DEF qServer, Served
  <2> QED
    BY <2>1, <2>2 DEF OneJobPerPrinter
<1>7. p \in qEnabled \cap qAsked[i]
  BY DEF qEnabled, qAsked
<1>8. qEnabled' = qEnabled
  BY DEF qEnabled, TypeOK
<1>9. qAsked' = qAsked
  BY DEF qAsked
<1> QED
  BY <1>4, <1>5, <1>6, <1>7, <1>8, <1>9
  DEF Queue!Serve, Queue!Become, qState, qServer, qAsked, qEnabled

LEMMA QueueFinish ==
  ASSUME JobsInv, TypeOK', NEW i \in Jobs, NEW p \in Printers, NEW q \in Pids,
         Reap(i, p, q)
  PROVE  Queue!Finish(i)
<1> USE DEF JobsInv, Reap, JobIs
<1>1. /\ q # 0 /\ pid[i] = q /\ i \in job_count /\ status[i] \in {"RUNNING", "PAUSED"}
      /\ \A j \in Jobs : j # i => pid[j] # q
  BY PidsFinite DEF OneJobPerPrinter, Served, SlotSound
<1>2. StateOf(i) \in {"running", "paused"} /\ StateOf(i)' \in {"finished", "aborted"}
  <2>1. status'[i] \in {"FINISHED", "ABORTED"} /\ i \in job_count'
    BY <1>1 DEF TypeOK
  <2> QED
    BY <1>1, <2>1, StateNames DEF StateOf
<1>3. \A j \in Jobs : j # i => StateOf(j)' = StateOf(j)
  BY StateKept DEF TypeOK
<1>4. /\ qState[i] \in {"running", "paused"}
      /\ \E s \in {"finished", "aborted"} : qState' = [qState EXCEPT ![i] = s]
  BY <1>2, <1>3, BecomesState DEF qState
<1>5. qServer' = [qServer EXCEPT ![i] = -1]
  <2>1. qServer'[i] = -1
    BY DEF qServer, TypeOK
  <2>2. \A j \in Jobs : j # i => qServer'[j] = qServer[j]
    BY <1>1 DEF qServer, TypeOK
  <2> QED
    BY <2>1, <2>2, BecomesServer
<1>6. qEnabled' = qEnabled
  BY DEF qEnabled, TypeOK
<1>7. qAsked' = qAsked
  BY DEF qAsked
<1> QED
  BY <1>4, <1>5, <1>6, <1>7
  DEF Queue!Finish, Queue!Become, qState, qServer, qAsked, qEnabled

LEMMA QueueHold ==
  ASSUME JobsInv, TypeOK', NEW i \in Jobs, NEW q \in Pids, Note(i, q)
  PROVE  Queue!Hold(i)
<1> USE DEF JobsInv, Note, JobIs, printerVars
<1>1. pid[i] # 0 /\ i \in job_count /\ status[i] \in {"RUNNING", "PAUSED"}
  BY PidsFinite DEF SlotSound
<1>2. StateOf(i) \in {"running", "paused"} /\ StateOf(i)' \in {"running", "paused"}
  <2>1. status'[i] \in {"RUNNING", "PAUSED"} /\ i \in job_count'
    BY <1>1 DEF TypeOK
  <2> QED
    BY <1>1, <2>1, StateNames DEF StateOf
<1>3. \A j \in Jobs : j # i => StateOf(j)' = StateOf(j)
  BY StateKept DEF TypeOK
<1>4. /\ qState[i] \in {"running", "paused"}
      /\ \E s \in {"running", "paused"} : qState' = [qState EXCEPT ![i] = s]
  BY <1>2, <1>3, BecomesState DEF qState
<1>5. UNCHANGED <<qServer, qAsked, qEnabled>>
  BY DEF qServer, qAsked, qEnabled
<1> QED
  BY <1>4, <1>5 DEF Queue!Hold, Queue!Become, qState, qServer, qAsked, qEnabled

LEMMA QueueSubmit ==
  ASSUME JobsInv, TypeOK', NEW i \in Jobs, NEW f \in Files, Submits(i, f)
  PROVE  Queue!Submit(i)
<1> USE DEF JobsInv, Submits, serveVars, masterVars
<1>1. StateOf(i) = "none" /\ StateOf(i)' = "created"
  <2>1. status'[i] = "CREATED" /\ i \in job_count'
    BY DEF TypeOK
  <2> QED
    BY <2>1, StateNames DEF StateOf
<1>2. \A j \in Jobs : j # i => StateOf(j)' = StateOf(j)
  BY StateKept DEF TypeOK
<1>3. qState[i] = "none" /\ qState' = [qState EXCEPT ![i] = "created"]
  BY <1>1, <1>2, BecomesState DEF qState
<1>4. f.eligible \in SUBSET Printers /\ qAsked' = [qAsked EXCEPT ![i] = f.eligible]
  BY FilesKnown DEF qAsked, TypeOK
<1>5. UNCHANGED <<qServer, qEnabled>>
  BY DEF qServer, qEnabled
<1> QED
  BY <1>3, <1>4, <1>5
  DEF Queue!Submit, Queue!Become, qState, qServer, qAsked, qEnabled

LEMMA QueueTurnDown ==
  ASSUME JobsInv, TypeOK', NEW i \in Jobs, Rejects(i)
  PROVE  Queue!TurnDown(i)
<1> USE DEF JobsInv, Rejects, serveVars, masterVars
<1>1. StateOf(i) \in {"created", "finished", "aborted"} /\ StateOf(i)' = "aborted"
  <2>1. status[i] \in {"CREATED", "FINISHED", "ABORTED"}
    BY DEF SlotSound, TypeOK, Statuses
  <2>2. status'[i] = "ABORTED" /\ i \in job_count'
    BY DEF TypeOK
  <2> QED
    BY <2>1, <2>2, StateNames DEF StateOf
<1>2. \A j \in Jobs : j # i => StateOf(j)' = StateOf(j)
  BY StateKept DEF TypeOK
<1>3. /\ qState[i] \in {"created", "finished", "aborted"}
      /\ qState' = [qState EXCEPT ![i] = "aborted"]
  BY <1>1, <1>2, BecomesState DEF qState
<1>4. UNCHANGED <<qServer, qAsked, qEnabled>>
  BY DEF qServer, qAsked, qEnabled
<1> QED
  BY <1>3, <1>4 DEF Queue!TurnDown, Queue!Become, qState, qServer, qAsked, qEnabled

LEMMA QueueLeave ==
  ASSUME JobsInv, TypeOK', Deletes
  PROVE  Queue!Leave(Expired)
<1> USE DEF JobsInv, Deletes, serveVars, masterVars
<1>1. Expired \in SUBSET Jobs /\ Expired \subseteq job_count
  BY DEF Expired, SlotSound
<1>2. \A i \in Expired : qState[i] \in {"finished", "aborted"}
  <2> SUFFICES ASSUME NEW i \in Expired
               PROVE  StateOf(i) \in {"finished", "aborted"}
    BY <1>1 DEF qState
  <2>1. i \in job_count /\ status[i] \in {"FINISHED", "ABORTED"}
    BY <1>1 DEF Expired, SlotSound
  <2> QED
    BY <1>1, <2>1, StateNames
<1>3. job_count' = job_count \ Expired
  BY <1>1
<1>4. ASSUME NEW i \in Jobs
      PROVE  StateOf(i)' = IF i \in Expired THEN "none" ELSE StateOf(i)
  <2>1. CASE i \in Expired
    BY <1>3, <2>1 DEF StateOf
  <2>2. CASE i \notin Expired
    BY <1>3, <2>2, StateKept
  <2> QED
    BY <2>1, <2>2
<1>5. qState' = [i \in Jobs |-> IF i \in Expired THEN "none" ELSE qState[i]]
  BY <1>4 DEF qState
<1>6. UNCHANGED <<qServer, qAsked, qEnabled>>
  BY DEF qServer, qAsked, qEnabled
<1> QED
  BY <1>2, <1>5, <1>6 DEF Queue!Leave, qState, qServer, qAsked, qEnabled

LEMMA QueueSwitch ==
  ASSUME JobsInv, TypeOK', NEW p \in Printers, Switches(p)
  PROVE  Queue!Switch(p)
<1> USE DEF JobsInv, Switches, jobVars, masterVars
<1>1. qEnabled' \in {qEnabled \cup {p}, qEnabled \ {p}}
  <2>1. \A r \in Printers : r # p => printer_status'[r] = printer_status[r]
    BY DEF TypeOK
  <2> QED
    BY <2>1 DEF qEnabled
<1>2. UNCHANGED <<qState, qServer, qAsked>>
  BY DEF qState, StateOf, qServer, qAsked
<1> QED
  BY <1>1, <1>2 DEF Queue!Switch, qState, qServer, qAsked, qEnabled

(* Nothing that the queue speaks of.                                       *)
LEMMA QueueStutter ==
  ASSUME UNCHANGED <<job_count, status, pid, file, printer_status>>,
         \A i \in Served : prints_on'[pid[i]] = prints_on[pid[i]]
  PROVE  UNCHANGED Queue!qvars
BY DEF Queue!qvars, StateOf, Served

LEMMA QueueInit == Init => Queue!Init
BY DEF Init, Queue!Init, StateOf, NoFile

LEMMA QueueStep ==
  ASSUME JobsInv, TypeOK', Effect
  PROVE  [Queue!Next]_(Queue!qvars)
<1> USE DEF jobVars, serveVars, countVars, masterVars
<1>1. ASSUME NEW i \in Jobs, NEW p \in Printers, NEW q \in Pids, Starts(i, p, q)
      PROVE  Queue!Next
  BY <1>1, QueueServe, Zenon DEF Queue!Next
<1>2. ASSUME NEW i \in Jobs, NEW p \in Printers, NEW q \in Pids, Reap(i, p, q)
      PROVE  Queue!Next
  BY <1>2, QueueFinish, Zenon DEF Queue!Next
<1>3. ASSUME NEW i \in Jobs, NEW q \in Pids, Note(i, q)
      PROVE  Queue!Next
  BY <1>3, QueueHold, Zenon DEF Queue!Next
<1>4. ASSUME NEW i \in Jobs, NEW f \in Files, Submits(i, f)
      PROVE  Queue!Next
  BY <1>4, QueueSubmit, Zenon DEF Queue!Next
<1>5. ASSUME NEW i \in Jobs, Rejects(i)
      PROVE  Queue!Next
  BY <1>5, QueueTurnDown, Zenon DEF Queue!Next
<1>6. CASE Deletes
  <2>1. Expired \in SUBSET Jobs
    BY DEF Expired
  <2> QED
    BY <1>6, <2>1, QueueLeave, Zenon DEF Queue!Next
<1>7. ASSUME NEW p \in Printers, Switches(p)
      PROVE  Queue!Next
  BY <1>7, QueueSwitch, Zenon DEF Queue!Next
<1>8. ASSUME NEW q \in Pids, Adopts(q)
      PROVE  UNCHANGED Queue!qvars
  <2>1. \A i \in Served : prints_on'[pid[i]] = prints_on[pid[i]]
    BY <1>8 DEF Adopts, Served, JobsInv, SlotSound, TypeOK
  <2> QED
    BY <1>8, <2>1, QueueStutter DEF Adopts
<1>9. ASSUME UNCHANGED <<job_count, status, pid, file, printer_status, prints_on>>
      PROVE  UNCHANGED Queue!qvars
  BY <1>9, QueueStutter
<1>10. ASSUME NEW i \in Jobs, Ages(i)
       PROVE  UNCHANGED Queue!qvars
  BY <1>9, <1>10 DEF Ages
<1>11. ASSUME NEW q \in Pids, Stops(q) \/ Grows(q) \/ Ends(q)
       PROVE  UNCHANGED Queue!qvars
  BY <1>9, <1>11 DEF Stops, Grows, Ends
<1>12. ASSUME NEW C \in SUBSET Pids, Continues(C)
       PROVE  UNCHANGED Queue!qvars
  BY <1>9, <1>12 DEF Continues
<1>13. CASE Quiet
  BY <1>9, <1>13 DEF Quiet
<1> QED
  BY <1>1, <1>2, <1>3, <1>4, <1>5, <1>6, <1>7, <1>8, <1>10, <1>11, <1>12, <1>13,
     Zenon DEF Effect, JobEffect, MasterEffect

(* The spooler follows the rules of a print queue: each step of it is one  *)
(* of the queue, or none.                                                  *)
THEOREM FollowsQueue == Spec => ImplementsPrintQueue
<1>1. ImprimerInv /\ ImprimerInv' /\ [Next]_vars => [Queue!Next]_(Queue!qvars)
  BY StepEffects, QueueStep DEF ImprimerInv, JobsInv
<1> QED
  BY <1>1, QueueInit, InvAlways, PTL DEF Spec, ImplementsPrintQueue, Queue!Spec
=============================================================================
