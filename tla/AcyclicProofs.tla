--------------------------- MODULE AcyclicProofs ---------------------------
(***************************************************************************)
(* For any time limits and any number of modules: the commands that read SDOs   *)
(* answer in time, they keep the monitor waiting for no longer than they say,    *)
(* and the monitor's use of the lock leaves the AL poll as module AlPoll has it.  *)
(***************************************************************************)
EXTENDS Acyclic, AlPollProofs

Threads == {"monitor", "control", "none"}
Commands == {"none", "scan", "test", "scan-modules", "diagnostics-slave"}

Ctl == [pc : {"idle", "own_context", "lock", "waiting", "held", "sdo"}, command : Commands,
        step : Nat, elapsed : Nat, until : Nat, deadline : Nat, sdo : Nat]

Typed ==
    /\ lock \in [owner : Threads, waiter : Threads]
    /\ chore \in {"pass", "recover", "drain", "error"}
    /\ waited \in Nat
    /\ ctl \in Ctl

(* Who has the mutex, and who waits for it.                                       *)
LockInv ==
    /\ ctl.pc \in {"held", "sdo"} <=> lock.owner = "control"
    /\ ctl.pc = "waiting" <=> lock.waiter = "control"
    /\ lock.waiter = "control" => lock.owner = "monitor"
    /\ lock.waiter = "monitor" => lock.owner = "control"
    /\ "monitor" \in {lock.owner, lock.waiter} => chore \in {"recover", "drain"}
    /\ lock.waiter # "monitor" => waited = 0

(* diagnostics-slave: the command's own acquisition, then the reads against one       *)
(* deadline.  A read in progress has no more time than the deadline leaves, and the   *)
(* monitor has waited only since it began.                                           *)
DiagInv == ctl.command = "diagnostics-slave" =>
    /\ ctl.pc # "own_context"
    /\ ctl.step = Probe => ctl.until = ECAT_ACYCLIC_WAIT_MS /\ ctl.elapsed <= ctl.until
    /\ ctl.step # Probe =>
           /\ ctl.deadline <= ECAT_ACYCLIC_WAIT_MS + ECAT_DIAG_BUDGET_MS
           /\ ctl.until = ctl.deadline
           /\ ctl.elapsed <= ctl.deadline
    /\ ctl.pc = "held" => waited = 0
    /\ ctl.pc = "sdo" =>
           /\ ctl.step # Probe
           /\ ctl.elapsed + ctl.sdo <= ctl.deadline
           /\ waited + ctl.sdo <= EC_TIMEOUTRXM

(* scan-modules: one acquisition, then a read per subindex.                         *)
ScanInv == ctl.command = "scan-modules" =>
    /\ ctl.step <= Modules
    /\ ctl.pc = "own_context" => ctl.elapsed = 0
    /\ ctl.pc \in {"lock", "waiting"} =>
           ctl.step = 0 /\ ctl.until = ECAT_ACYCLIC_WAIT_MS /\ ctl.elapsed <= ctl.until
    /\ ctl.pc = "held" =>
           /\ ctl.elapsed <= ECAT_ACYCLIC_WAIT_MS + Reads(ctl.step)
           /\ waited <= Reads(ctl.step)
    /\ ctl.pc = "sdo" =>
           /\ ctl.elapsed + ctl.sdo <= ECAT_ACYCLIC_WAIT_MS + Reads(ctl.step + 1)
           /\ waited + ctl.sdo <= Reads(ctl.step + 1)

(* The other commands, and none, take no lock.                                      *)
IdleInv ==
    /\ ctl.pc = "idle" => ctl.command = "none"
    /\ ctl.command \in {"none", "scan", "test"} =>
           ctl.pc \in {"idle", "own_context"} /\ ctl.elapsed = 0

AInv == Typed /\ LockInv /\ DiagInv /\ ScanInv /\ IdleInv

(* The time limits are numbers.                                                     *)
LEMMA Limits ==
    /\ ECAT_ACYCLIC_WAIT_MS \in Nat /\ ECAT_DIAG_BUDGET_MS \in Nat
    /\ EC_TIMEOUTRXM \in Nat /\ Modules \in Nat
  BY AcyclicAssumptions

(* The time of n reads, step by step (Reads is a product).                          *)
LEMMA ReadsSteps ==
    /\ Reads(0) = 0
    /\ \A n \in Nat : Reads(n) \in Nat /\ Reads(n + 1) = Reads(n) + EC_TIMEOUTRXM
    /\ \A n \in Nat : n <= Modules => Reads(n) <= Reads(Modules)
<1> USE Limits DEF Reads
<1>1. Reads(0) = 0
  OBVIOUS
<1>2. ASSUME NEW n \in Nat PROVE Reads(n) \in Nat /\ Reads(n + 1) = Reads(n) + EC_TIMEOUTRXM
  OBVIOUS
<1>3. ASSUME NEW n \in Nat, n <= Modules PROVE Reads(n) <= Reads(Modules)
  <2>1. Modules - n \in Nat /\ EC_TIMEOUTRXM \in Nat
    BY <1>3
  <2>2. (Modules - n) * EC_TIMEOUTRXM \in Nat
    BY <2>1
  <2>3. (Modules - n) * EC_TIMEOUTRXM = Modules * EC_TIMEOUTRXM - n * EC_TIMEOUTRXM
    BY <2>1
  <2> QED
    BY <2>1, <2>2, <2>3
<1> QED
  BY <1>1, <1>2, <1>3

(* What the control thread's next step is.                                            *)
LEMMA NextStepIs ==
    ASSUME ctl \in Ctl, NEW pc \in {"lock", "held"}
    PROVE  /\ Idle \in Ctl
           /\ NextStep(pc) \in Ctl
           /\ \/ NextStep(pc) = Idle
              \/ /\ NextStep(pc).pc = pc /\ NextStep(pc).command = ctl.command
                 /\ NextStep(pc).step = ctl.step + 1 /\ NextStep(pc).elapsed = ctl.elapsed
                 /\ NextStep(pc).until = ctl.deadline /\ NextStep(pc).deadline = ctl.deadline
<1>1. Idle \in Ctl
  BY DEF Idle, Ctl, Commands, Probe
<1>2. ctl.step + 1 \in Nat /\ ctl.deadline \in Nat
  BY DEF Ctl
<1>3. CASE ctl.step = Status + Modules
  BY <1>1, <1>3 DEF NextStep
<1>4. CASE ctl.step # Status + Modules
  <2>1. NextStep(pc) = [ctl EXCEPT !.pc = pc, !.step = @ + 1, !.until = ctl.deadline, !.sdo = 0]
    BY <1>4 DEF NextStep
  <2>2. [ctl EXCEPT !.pc = pc, !.step = @ + 1, !.until = ctl.deadline, !.sdo = 0] \in Ctl
    BY <1>2 DEF Ctl
  <2>3. /\ NextStep(pc).pc = pc /\ NextStep(pc).command = ctl.command
        /\ NextStep(pc).step = ctl.step + 1 /\ NextStep(pc).elapsed = ctl.elapsed
        /\ NextStep(pc).until = ctl.deadline /\ NextStep(pc).deadline = ctl.deadline
    BY <2>1 DEF Ctl
  <2> QED
    BY <1>1, <2>1, <2>2, <2>3
<1> QED
  BY <1>3, <1>4

(* AcyclicInit establishes the invariant.                                           *)
LEMMA InitAInv == AcyclicInit => AInv
  BY Limits, ReadsSteps
     DEF AcyclicInit, AInv, Typed, LockInv, DiagInv, ScanInv, IdleInv, Idle, NoLock, Probe,
         Threads, Commands, Ctl

(* The bus thread's steps, and the monitor's outside the lock.                        *)
LEMMA LockFreeAInv == AInv /\ (Cyclic \/ OperationalPass) => AInv'
  BY DEF AInv, Typed, LockInv, DiagInv, ScanInv, IdleInv, Cyclic, OperationalPass

(* The monitor takes the lock and gives it back.                                      *)
LEMMA MonitorAInv ==
    AInv /\ (AttemptRecovery \/ Recovered \/ DrainBegins \/ DrainEnds) => AInv'
<1> SUFFICES ASSUME AInv, AttemptRecovery \/ Recovered \/ DrainBegins \/ DrainEnds PROVE AInv'
  OBVIOUS
<1> USE Limits, ReadsSteps DEF AInv, Typed, LockInv, DiagInv, ScanInv, IdleInv, Threads, Commands, Ctl
<1>1. CASE AttemptRecovery
  <2>1. Typed'
    BY <1>1 DEF AttemptRecovery, Locked
  <2>2. LockInv'
    BY <1>1 DEF AttemptRecovery, Locked
  <2>3. DiagInv'
    BY <1>1 DEF AttemptRecovery, Locked
  <2>4. ScanInv'
    BY <1>1 DEF AttemptRecovery, Locked
  <2>5. IdleInv'
    BY <1>1 DEF AttemptRecovery, Locked
  <2> QED
    BY <2>1, <2>2, <2>3, <2>4, <2>5
<1>2. CASE Recovered
  <2>1. Typed'
    BY <1>2 DEF Recovered, Unlocked, Granted
  <2>2. LockInv'
    BY <1>2 DEF Recovered, Unlocked, Granted
  <2>3. DiagInv'
    BY <1>2 DEF Recovered, Unlocked, Granted
  <2>4. ScanInv'
    BY <1>2 DEF Recovered, Unlocked, Granted
  <2>5. IdleInv'
    BY <1>2 DEF Recovered, Unlocked, Granted
  <2> QED
    BY <2>1, <2>2, <2>3, <2>4, <2>5
<1>3. CASE DrainBegins
  <2>1. Typed'
    BY <1>3 DEF DrainBegins, Locked
  <2>2. LockInv'
    BY <1>3 DEF DrainBegins, Locked
  <2>3. DiagInv'
    BY <1>3 DEF DrainBegins, Locked
  <2>4. ScanInv'
    BY <1>3 DEF DrainBegins, Locked
  <2>5. IdleInv'
    BY <1>3 DEF DrainBegins, Locked
  <2> QED
    BY <2>1, <2>2, <2>3, <2>4, <2>5
<1>4. CASE DrainEnds
  <2>1. Typed'
    BY <1>4 DEF DrainEnds, Unlocked, Granted
  <2>2. LockInv'
    BY <1>4 DEF DrainEnds, Unlocked, Granted
  <2>3. DiagInv'
    BY <1>4 DEF DrainEnds, Unlocked, Granted
  <2>4. ScanInv'
    BY <1>4 DEF DrainEnds, Unlocked, Granted
  <2>5. IdleInv'
    BY <1>4 DEF DrainEnds, Unlocked, Granted
  <2> QED
    BY <2>1, <2>2, <2>3, <2>4, <2>5
<1> QED
  BY <1>1, <1>2, <1>3, <1>4

(* How a command begins.                                                            *)
LEMMA RequestBegins ==
    Request => \/ \E c \in {"scan-modules", "diagnostics-slave"} : WithLock(c)
               \/ \E c \in {"scan", "test", "scan-modules"} : OwnContext(c)
BY DEF Request, handle_scan_command, handle_test_command, scan_modules_on_interface,
       handle_scan_modules_command, handle_diagnostics_slave_command

(* The control thread keeps its record a record.                                      *)
LEMMA ControlTyped == Typed /\ (Request \/ Control \/ Tick) => Typed'
<1> SUFFICES ASSUME Typed, Request \/ Control \/ Tick PROVE Typed'
  OBVIOUS
<1>1. /\ Idle \in Ctl /\ NextStep("lock") \in Ctl /\ ctl \in Ctl
      /\ waited \in Nat /\ waited + 1 \in Nat
  BY NextStepIs DEF Typed
<1>2. /\ ctl.step + 1 \in Nat /\ ctl.elapsed + 1 \in Nat /\ Timeout \in Nat
      /\ ctl.elapsed + ECAT_DIAG_BUDGET_MS \in Nat
      /\ (IF ctl.sdo > 0 THEN ctl.sdo - 1 ELSE 0) \in Nat
  BY <1>1, Limits DEF Ctl, Timeout
<1>3. Locked("control") \in [owner : Threads, waiter : Threads]
  BY DEF Typed, Locked, Threads
<1>4. Unlocked \in [owner : Threads, waiter : Threads]
  BY DEF Typed, Unlocked, Threads
<1>5. ctl' \in Ctl
  <2>1. CASE Request
    <3>1. PICK c \in Commands : WithLock(c) \/ OwnContext(c)
      BY <2>1, RequestBegins DEF Commands
    <3> QED
      BY <1>1, <3>1, Limits DEF WithLock, OwnContext, Ctl
  <2>2. CASE TimedLock
    BY <1>1, <2>2 DEF TimedLock, Ctl
  <2>3. CASE ProbeDone
    BY <1>1, <1>2, <2>3 DEF ProbeDone, Ctl, Reach
  <2>4. CASE SdoBegins
    BY <1>1, <1>2, <2>4 DEF SdoBegins, Ctl
  <2>5. CASE IdentRead
    <3>1. [ctl EXCEPT !.pc = "held", !.step = @ + 1, !.sdo = 0] \in Ctl
      BY <1>1, <1>2 DEF Ctl
    <3> QED
      BY <1>1, <2>5, <3>1 DEF IdentRead
  <2>6. CASE Tick
    BY <1>1, <1>2, <2>6 DEF Tick, Ctl
  <2> QED
    BY <1>1, <2>1, <2>2, <2>3, <2>4, <2>5, <2>6
       DEF Control, OwnContextDone, SkipModule, LockTimesOut, ReachDone, ScanRefused, StatusRead
<1>6. lock' \in [owner : Threads, waiter : Threads]
  BY <1>3, <1>4, RequestBegins DEF Typed, Threads, WithLock, OwnContext, Control, OwnContextDone, SkipModule,
     TimedLock, LockTimesOut, ProbeDone, ReachDone, SdoBegins, ScanRefused, StatusRead,
     IdentRead, Tick, Unlock
<1>7. waited' \in Nat /\ chore' = chore
  BY <1>1, RequestBegins DEF WithLock, OwnContext, Control, OwnContextDone, SkipModule, TimedLock, LockTimesOut,
     ProbeDone, ReachDone, SdoBegins, ScanRefused, StatusRead, IdentRead, Tick, Unlock
<1> QED
  BY <1>5, <1>6, <1>7 DEF Typed

(* The control thread, and time.                                                     *)
LEMMA ControlAInv == AInv /\ (Request \/ Control \/ Tick) => AInv'
<1> SUFFICES ASSUME AInv, Request \/ Control \/ Tick PROVE AInv'
  OBVIOUS
<1> USE Limits, ReadsSteps
    DEF AInv, Typed, LockInv, DiagInv, ScanInv, IdleInv, Threads, Commands, Ctl, Probe, Reach,
        Status
<1>1. CASE Request
  <2>1. PICK c \in Commands :
            \/ c \in {"scan-modules", "diagnostics-slave"} /\ WithLock(c)
            \/ c \in {"scan", "test", "scan-modules"} /\ OwnContext(c)
    BY <1>1, RequestBegins
  <2>2. CASE /\ c \in {"scan-modules", "diagnostics-slave"}
             /\ ctl' = [Idle EXCEPT !.pc = "lock", !.command = c, !.until = ECAT_ACYCLIC_WAIT_MS]
    <3>1. ctl' = [pc |-> "lock", command |-> c, step |-> 0, elapsed |-> 0,
                  until |-> ECAT_ACYCLIC_WAIT_MS, deadline |-> 0, sdo |-> 0]
      BY <2>2 DEF Idle
    <3>2. /\ ctl'.pc = "lock" /\ ctl'.command = c /\ ctl'.step = 0 /\ ctl'.elapsed = 0
          /\ ctl'.until = ECAT_ACYCLIC_WAIT_MS
      BY <3>1
    <3>3. Typed'
      BY <1>1, ControlTyped
    <3>4. LockInv'
      BY <2>1, <2>2, <3>1 DEF WithLock, OwnContext
    <3>5. DiagInv'
      BY <2>2, <3>2
    <3>6. ScanInv'
      BY <2>2, <3>2
    <3>7. IdleInv'
      BY <2>2, <3>2
    <3> QED
      BY <3>3, <3>4, <3>5, <3>6, <3>7
  <2>3. CASE /\ c \in {"scan", "test", "scan-modules"}
             /\ ctl' = [Idle EXCEPT !.pc = "own_context", !.command = c]
    <3>1. ctl' = [pc |-> "own_context", command |-> c, step |-> 0, elapsed |-> 0,
                  until |-> 0, deadline |-> 0, sdo |-> 0]
      BY <2>3 DEF Idle
    <3>2. /\ ctl'.pc = "own_context" /\ ctl'.command = c /\ ctl'.step = 0 /\ ctl'.elapsed = 0
          /\ ctl'.until = 0
      BY <3>1
    <3>3. Typed'
      BY <1>1, ControlTyped
    <3>4. LockInv'
      BY <2>1, <2>3, <3>1 DEF WithLock, OwnContext
    <3>5. DiagInv'
      BY <2>3, <3>2
    <3>6. ScanInv'
      BY <2>3, <3>2
    <3>7. IdleInv'
      BY <2>3, <3>2
    <3> QED
      BY <3>3, <3>4, <3>5, <3>6, <3>7
  <2> QED
    BY <2>1, <2>2, <2>3 DEF WithLock, OwnContext
<1>2. CASE OwnContextDone
  BY <1>2 DEF OwnContextDone, Idle
<1>3. CASE SkipModule
  <2>1. Typed'
    BY ControlTyped DEF Control
  <2>2. LockInv'
    BY <1>3 DEF SkipModule, Skips, NextStep, Idle
  <2>3. DiagInv'
    BY <1>3 DEF SkipModule, Skips, NextStep, Idle
  <2>4. ScanInv'
    BY <1>3 DEF SkipModule, Skips, NextStep, Idle
  <2>5. IdleInv'
    BY <1>3 DEF SkipModule, Skips, NextStep, Idle
  <2> QED
    BY <2>1, <2>2, <2>3, <2>4, <2>5
<1>4. CASE TimedLock
  <2>1. Typed'
    BY ControlTyped DEF Control
  <2>2. LockInv'
    BY <1>4 DEF TimedLock, Locked
  <2>3. DiagInv'
    BY <1>4 DEF TimedLock, Locked
  <2>4. ScanInv'
    BY <1>4 DEF TimedLock, Locked
  <2>5. IdleInv'
    BY <1>4 DEF TimedLock, Locked
  <2> QED
    BY <2>1, <2>2, <2>3, <2>4, <2>5
<1>5. CASE LockTimesOut
  <2>1. Typed'
    BY ControlTyped DEF Control
  <2>2. LockInv'
    BY <1>5 DEF LockTimesOut, NextStep, Idle
  <2>3. DiagInv'
    BY <1>5 DEF LockTimesOut, NextStep, Idle
  <2>4. ScanInv'
    BY <1>5 DEF LockTimesOut, NextStep, Idle
  <2>5. IdleInv'
    BY <1>5 DEF LockTimesOut, NextStep, Idle
  <2> QED
    BY <2>1, <2>2, <2>3, <2>4, <2>5
<1>6. CASE ProbeDone
  <2>1. Typed'
    BY ControlTyped DEF Control
  <2>2. LockInv'
    BY <1>6 DEF ProbeDone, Unlock, Unlocked
  <2>3. DiagInv'
    BY <1>6 DEF ProbeDone, Unlock, Unlocked
  <2>4. ScanInv'
    BY <1>6 DEF ProbeDone, Unlock, Unlocked
  <2>5. IdleInv'
    BY <1>6 DEF ProbeDone, Unlock, Unlocked
  <2> QED
    BY <2>1, <2>2, <2>3, <2>4, <2>5
<1>7. CASE ReachDone
  <2>1. CASE ctl' = NextStep("lock")
    <3>1. Typed'
      BY ControlTyped DEF Control
    <3>2. LockInv'
      BY <1>7, <2>1 DEF ReachDone, NextStep, Idle, Unlock, Unlocked
    <3>3. DiagInv'
      BY <1>7, <2>1 DEF ReachDone, NextStep, Idle, Unlock, Unlocked
    <3>4. ScanInv'
      BY <1>7, <2>1 DEF ReachDone, NextStep, Idle, Unlock, Unlocked
    <3>5. IdleInv'
      BY <1>7, <2>1 DEF ReachDone, NextStep, Idle, Unlock, Unlocked
    <3> QED
      BY <3>1, <3>2, <3>3, <3>4, <3>5
  <2>2. CASE ctl' = Idle
    <3>1. Typed'
      BY ControlTyped DEF Control
    <3>2. LockInv'
      BY <1>7, <2>2 DEF ReachDone, Idle, Unlock, Unlocked
    <3>3. DiagInv'
      BY <1>7, <2>2 DEF ReachDone, Idle, Unlock, Unlocked
    <3>4. ScanInv'
      BY <1>7, <2>2 DEF ReachDone, Idle, Unlock, Unlocked
    <3>5. IdleInv'
      BY <1>7, <2>2 DEF ReachDone, Idle, Unlock, Unlocked
    <3> QED
      BY <3>1, <3>2, <3>3, <3>4, <3>5
  <2> QED
    BY <1>7, <2>1, <2>2 DEF ReachDone
<1>8. CASE SdoBegins
  <2>1. CASE Timeout = 0
    <3>1. ctl.command = "diagnostics-slave"
      BY <2>1, AcyclicAssumptions DEF Timeout
    <3>2. ctl.pc = "held" /\ ctl' = NextStep("lock") /\ Unlock
      BY <1>8, <2>1 DEF SdoBegins
    <3>3. Typed'
      BY ControlTyped DEF Control
    <3>4. LockInv'
      BY <3>1, <3>2, <1>8 DEF SdoBegins, NextStep, Idle, Unlock, Unlocked
    <3>5. DiagInv'
      BY <3>1, <3>2, <1>8 DEF SdoBegins, NextStep, Idle, Unlock, Unlocked
    <3>6. ScanInv'
      BY <3>1, <3>2, <1>8 DEF SdoBegins, NextStep, Idle, Unlock, Unlocked
    <3>7. IdleInv'
      BY <3>1, <3>2, <1>8 DEF SdoBegins, NextStep, Idle, Unlock, Unlocked
    <3> QED
      BY <3>3, <3>4, <3>5, <3>6, <3>7
  <2>2. CASE Timeout # 0
    <3>1. /\ ctl.pc = "held" /\ ctl' = [ctl EXCEPT !.pc = "sdo", !.sdo = Timeout]
          /\ UNCHANGED <<lock, chore, waited>>
          /\ ctl.command = "diagnostics-slave" => ctl.step >= Status
      BY <1>8, <2>2 DEF SdoBegins
    <3>2. /\ Timeout \in Nat /\ Timeout <= EC_TIMEOUTRXM
          /\ ctl.command = "diagnostics-slave" => ctl.elapsed + Timeout <= ctl.deadline
      BY <2>2, <3>1 DEF Timeout
    <3>3. Typed'
      BY ControlTyped DEF Control
    <3>4. LockInv'
      BY <3>1, <3>2, <1>8 DEF Status
    <3>5. DiagInv'
      BY <3>1, <3>2, <1>8 DEF Status
    <3>6. ScanInv'
      BY <3>1, <3>2, <1>8 DEF Status
    <3>7. IdleInv'
      BY <3>1, <3>2, <1>8 DEF Status
    <3> QED
      BY <3>3, <3>4, <3>5, <3>6, <3>7
  <2> QED
    BY <2>1, <2>2
<1>9. CASE ScanRefused
  <2>1. Typed'
    BY ControlTyped DEF Control
  <2>2. LockInv'
    BY <1>9 DEF ScanRefused, Idle, Unlock, Unlocked
  <2>3. DiagInv'
    BY <1>9 DEF ScanRefused, Idle, Unlock, Unlocked
  <2>4. ScanInv'
    BY <1>9 DEF ScanRefused, Idle, Unlock, Unlocked
  <2>5. IdleInv'
    BY <1>9 DEF ScanRefused, Idle, Unlock, Unlocked
  <2> QED
    BY <2>1, <2>2, <2>3, <2>4, <2>5
<1>10. CASE StatusRead
  <2>1. Typed'
    BY ControlTyped DEF Control
  <2>2. LockInv'
    BY <1>10 DEF StatusRead, NextStep, Idle, Unlock, Unlocked
  <2>3. DiagInv'
    BY <1>10 DEF StatusRead, NextStep, Idle, Unlock, Unlocked
  <2>4. ScanInv'
    BY <1>10 DEF StatusRead, NextStep, Idle, Unlock, Unlocked
  <2>5. IdleInv'
    BY <1>10 DEF StatusRead, NextStep, Idle, Unlock, Unlocked
  <2> QED
    BY <2>1, <2>2, <2>3, <2>4, <2>5
<1>11. CASE IdentRead
  <2>1. CASE ctl' = Idle /\ Unlock
    <3>1. Typed'
      BY ControlTyped DEF Control
    <3>2. LockInv'
      BY <1>11, <2>1 DEF IdentRead, Idle, Unlock, Unlocked
    <3>3. DiagInv'
      BY <1>11, <2>1 DEF IdentRead, Idle, Unlock, Unlocked
    <3>4. ScanInv'
      BY <1>11, <2>1 DEF IdentRead, Idle, Unlock, Unlocked
    <3>5. IdleInv'
      BY <1>11, <2>1 DEF IdentRead, Idle, Unlock, Unlocked
    <3> QED
      BY <3>1, <3>2, <3>3, <3>4, <3>5
  <2>2. CASE /\ ctl.step < Modules
             /\ ctl' = [ctl EXCEPT !.pc = "held", !.step = @ + 1, !.sdo = 0]
             /\ UNCHANGED <<vars, master, lock, chore, waited>>
    <3>1. Typed'
      BY ControlTyped DEF Control
    <3>2. LockInv'
      BY <1>11, <2>2 DEF IdentRead
    <3>3. DiagInv'
      BY <1>11, <2>2 DEF IdentRead
    <3>4. ScanInv'
      BY <1>11, <2>2 DEF IdentRead
    <3>5. IdleInv'
      BY <1>11, <2>2 DEF IdentRead
    <3> QED
      BY <3>1, <3>2, <3>3, <3>4, <3>5
  <2> QED
    BY <1>11, <2>1, <2>2 DEF IdentRead
<1>12. CASE Tick
  <2>1. Typed'
    BY ControlTyped DEF Control
  <2>2. LockInv'
    BY <1>12 DEF Tick
  <2>3. DiagInv'
    BY <1>12 DEF Tick
  <2>4. ScanInv'
    BY <1>12 DEF Tick
  <2>5. IdleInv'
    BY <1>12 DEF Tick
  <2> QED
    BY <2>1, <2>2, <2>3, <2>4, <2>5
<1> QED
  BY <1>1, <1>2, <1>3, <1>4, <1>5, <1>6, <1>7, <1>8, <1>9, <1>10, <1>11, <1>12 DEF Control

(* Every step keeps the invariant.                                                   *)
LEMMA NextAInv == AInv /\ [AcyclicNext]_all => AInv'
<1>1. AInv /\ UNCHANGED all => AInv'
  BY DEF AInv, Typed, LockInv, DiagInv, ScanInv, IdleInv, all
<1> QED
  BY <1>1, LockFreeAInv, MonitorAInv, ControlAInv DEF AcyclicNext, Monitor

(* The invariant holds throughout.                                                   *)
LEMMA Invariant == AcyclicSpec => []AInv
  BY InitAInv, NextAInv, PTL DEF AcyclicSpec

(* scan-modules and diagnostics-slave answer within their time, for any time limits,   *)
(* any number of modules and any use the monitor makes of the lock (bus.c:2168, 2238,   *)
(* master.c:1355).                                                                    *)
THEOREM InTime == AcyclicSpec => []AnswerInTime
<1>1. AInv => AnswerInTime
  BY Limits, ReadsSteps
     DEF AInv, Typed, DiagInv, ScanInv, IdleInv, AnswerInTime, Commands, Ctl, Probe
<1> QED
  BY <1>1, Invariant, PTL

(* The monitor waits for one read of diagnostics-slave at most (the comment at           *)
(* bus.c:2237), and for the list of scan-modules.                                       *)
THEOREM BetweenReads == AcyclicSpec => []RecoveryRunsBetweenReads
<1>1. AInv => RecoveryRunsBetweenReads
  BY Limits, ReadsSteps
     DEF AInv, Typed, LockInv, DiagInv, ScanInv, IdleInv, RecoveryRunsBetweenReads, Commands,
         Ctl, Threads
<1> QED
  BY <1>1, Invariant, PTL

(* The monitor thread with its locks still runs the AL poll of module AlPoll             *)
(* (bus.c:422-458): the composition implements AlPoll, and inherits its invariant.       *)
THEOREM ImplementsAlPoll == AcyclicSpec => Spec
<1>1. AcyclicInit => Init
  BY DEF AcyclicInit
<1>2. [AcyclicNext]_all => [Next]_vars
  <2> SUFFICES ASSUME [AcyclicNext]_all PROVE [Next]_vars
    OBVIOUS
  <2>1. CASE Cyclic \/ Monitor
    BY <2>1 DEF Cyclic, Monitor, OperationalPass, AttemptRecovery, Recovered, DrainBegins,
                DrainEnds, Next
  <2>2. CASE Request \/ Control \/ Tick
    BY <2>2, RequestBegins DEF WithLock, OwnContext, Control, OwnContextDone, SkipModule, TimedLock, LockTimesOut,
                ProbeDone, ReachDone, SdoBegins, ScanRefused, StatusRead, IdentRead, Tick, Unlock
  <2> QED
    BY <2>1, <2>2 DEF AcyclicNext, all
<1> QED
  BY <1>1, <1>2, PTL DEF AcyclicSpec, Spec

(* NoFaultOverlooked holds of the composition.                                          *)
THEOREM MonitorOverlooksNoFault == AcyclicSpec => []NoFaultOverlooked
  BY ImplementsAlPoll, NoFaultOverlookedHolds, PTL

=============================================================================
