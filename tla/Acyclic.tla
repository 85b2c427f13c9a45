------------------------------ MODULE Acyclic ------------------------------
(***************************************************************************)
(* The acyclic lock of src/bus.c.  The monitor thread holds it while it         *)
(* recovers slaves and while it drains mailboxes; the control thread takes it    *)
(* with a time limit for the SDO reads of scan-modules and diagnostics-slave.    *)
(*                                                                           *)
(* The monitor's pass in OPERATIONAL is module AlPoll's, to which this module     *)
(* adds the rest of the pass.  Time passes only while the control thread waits,  *)
(* for the lock or for a slave's answer: its own steps take none.                *)
(***************************************************************************)
EXTENDS AlPoll

CONSTANTS
    ECAT_ACYCLIC_WAIT_MS, ECAT_DIAG_BUDGET_MS, EC_TIMEOUTRXM,  \* in ticks
    Modules,   \* the number of modules of the coupler
    Indexed    \* those whose object has an index (none without slot_index_increment)

ASSUME AcyclicAssumptions ==
    /\ {ECAT_ACYCLIC_WAIT_MS, ECAT_DIAG_BUDGET_MS, EC_TIMEOUTRXM} \subseteq Nat \ {0}
    /\ Modules \in Nat
    /\ Indexed \subseteq 1..Modules

VARIABLES
    master,  \* "running", "half" (context open, bus thread not running), "down"
    lock,    \* acyclic_lock: [owner, waiter], each "monitor", "control" or "none"
    chore,   \* monitor thread: what it is at: "pass", "recover", "drain", "error"
    waited,  \* history: the time the monitor has been waiting for the lock
    ctl      \* control thread: [pc, command, step, elapsed, until, deadline, sdo]; elapsed is
             \* the time since the command came, until and deadline are on that clock, sdo is
             \* what is left of the timeout of the SDO read in progress

all == <<vars, master, lock, chore, waited, ctl>>

NoLock == [owner |-> "none", waiter |-> "none"]

\* The steps of diagnostics-slave, one per acquisition of the lock: the command's own, the
\* reader's first, the status word; the k-th module is Status + k.  For scan-modules the
\* step is the subindex, from 0.
Probe == 0
Reach == 1
Status == 2

Idle == [pc |-> "idle", command |-> "none", step |-> Probe,
         elapsed |-> 0, until |-> 0, deadline |-> 0, sdo |-> 0]

AcyclicInit ==
    /\ Init
    /\ master \in {"running", "half", "down"}
    /\ lock = NoLock
    /\ chore = "pass"
    /\ waited = 0
    /\ ctl = Idle

-----------------------------------------------------------------------------
(* The mutex.  It inherits priority: an unlock hands it to the thread that waits.         *)

Locked(who) == IF lock.owner = "none" THEN [lock EXCEPT !.owner = who]
               ELSE [lock EXCEPT !.waiter = who]
Unlocked == [owner |-> lock.waiter, waiter |-> "none"]

\* The control thread's part when the monitor unlocks.
Granted == IF lock.waiter = "control" THEN [ctl EXCEPT !.pc = "held"] ELSE ctl

-----------------------------------------------------------------------------
(* The bus thread and the monitor thread. *)

Cyclic ==
    /\ master = "running"
    /\ SlavesChange \/ CountFault \/ CountReply
    /\ UNCHANGED <<master, lock, chore, waited, ctl>>

\* A pass in OPERATIONAL takes no lock; mailboxes follow.
OperationalPass ==
    /\ master = "running" /\ chore = "pass"
    /\ MonitorStart \/ LoadReplies \/ LoadFaults \/ Decide
    /\ chore' = IF mon.pc = "decide" THEN "drain" ELSE "pass"
    /\ UNCHANGED <<master, lock, waited, ctl>>

\* attempt_recovery begins.
AttemptRecovery ==
    /\ master = "running" /\ chore = "pass" /\ mon.pc = "top"
    /\ chore' = "recover"
    /\ lock' = Locked("monitor")
    /\ UNCHANGED <<vars, master, waited, ctl>>

\* It ends; the master is in ERROR after the last attempt, and then no mailbox is drained
\* and no pass does anything.
Recovered ==
    /\ chore = "recover" /\ lock.owner = "monitor"
    /\ RecoveringPass
    /\ lock' = Unlocked
    /\ ctl' = Granted
    /\ chore' \in {"drain", "error"}
    /\ UNCHANGED <<master, waited>>

\* drain_mailbox_and_errors
DrainBegins ==
    /\ chore = "drain" /\ "monitor" \notin {lock.owner, lock.waiter}
    /\ lock' = Locked("monitor")
    /\ UNCHANGED <<vars, master, chore, waited, ctl>>

DrainEnds ==
    /\ chore = "drain" /\ lock.owner = "monitor"
    /\ lock' = Unlocked
    /\ ctl' = Granted
    /\ chore' = "pass"
    /\ UNCHANGED <<vars, master, waited>>

Monitor == OperationalPass \/ AttemptRecovery \/ Recovered \/ DrainBegins \/ DrainEnds

-----------------------------------------------------------------------------
(* The control thread. *)

\* any_master_active: a master in ERROR does not count.
Active == master = "running" /\ chore # "error"

\* A command begins, with the lock or in a SOEM context of its own; one that is refused at
\* once changes nothing.
WithLock(c) ==
    /\ ctl.pc = "idle"
    /\ ctl' = [Idle EXCEPT !.pc = "lock", !.command = c, !.until = ECAT_ACYCLIC_WAIT_MS]
    /\ UNCHANGED <<vars, master, lock, chore, waited>>

OwnContext(c) ==
    /\ ctl.pc = "idle"
    /\ ctl' = [Idle EXCEPT !.pc = "own_context", !.command = c]
    /\ UNCHANGED <<vars, master, lock, chore, waited>>

handle_scan_command == ~Active /\ OwnContext("scan")
handle_test_command == ~Active /\ OwnContext("test")

\* For an interface that no open master uses.
scan_modules_on_interface == OwnContext("scan-modules")

handle_scan_modules_command ==
    \/ master = "running" /\ WithLock("scan-modules")
    \/ master = "down" /\ OwnContext("scan-modules")
    \/ scan_modules_on_interface

handle_diagnostics_slave_command == master = "running" /\ WithLock("diagnostics-slave")

OwnContextDone ==
    /\ ctl.pc = "own_context"
    /\ ctl' = Idle
    /\ UNCHANGED <<vars, master, lock, chore, waited>>

\* The next acquisition of diagnostics-slave, or the reply after the last module.
NextStep(pc) ==
    IF ctl.step = Status + Modules THEN Idle
    ELSE [ctl EXCEPT !.pc = pc, !.step = @ + 1, !.until = ctl.deadline, !.sdo = 0]

\* A module without an object of its own is passed over; its value is null.
Skips == ctl.command = "diagnostics-slave" /\ ctl.step > Status /\ ctl.step - Status \notin Indexed

SkipModule ==
    /\ ctl.pc = "lock" /\ Skips
    /\ ctl' = NextStep("lock")
    /\ UNCHANGED <<vars, master, lock, chore, waited>>

\* pthread_mutex_timedlock; a free mutex is taken even when the time is over.
TimedLock ==
    /\ ctl.pc = "lock" /\ ~Skips
    /\ lock' = Locked("control")
    /\ ctl' = [ctl EXCEPT !.pc = IF lock.owner = "none" THEN "held" ELSE "waiting"]
    /\ UNCHANGED <<vars, master, chore, waited>>

\* A slip in LockTimesOut: only the command's own acquisition has a time limit.
LockTimesOutOnce ==
    /\ ctl.pc = "waiting" /\ ctl.elapsed >= ctl.until /\ ctl.step = Probe
    /\ lock' = [lock EXCEPT !.waiter = "none"]
    /\ ctl' = Idle
    /\ UNCHANGED <<vars, master, chore, waited>>

\* The reply is an error ("retry") for the first two acquisitions; later the value is null.
LockTimesOut ==
    /\ ctl.pc = "waiting" /\ ctl.elapsed >= ctl.until
    /\ lock' = [lock EXCEPT !.waiter = "none"]
    /\ ctl' = IF ctl.command = "diagnostics-slave" /\ ctl.step >= Status
              THEN NextStep("lock") ELSE Idle
    /\ UNCHANGED <<vars, master, chore, waited>>

\* pthread_mutex_unlock by the control thread.
Unlock ==
    /\ lock' = Unlocked
    /\ waited' = IF lock.waiter = "monitor" THEN 0 ELSE waited
    /\ UNCHANGED <<vars, master, chore>>

\* The command only looked whether it could have the lock; the budget starts now.
ProbeDone ==
    /\ ctl.pc = "held" /\ ctl.command = "diagnostics-slave" /\ ctl.step = Probe
    /\ LET deadline == ctl.elapsed + ECAT_DIAG_BUDGET_MS
       IN  ctl' = [ctl EXCEPT !.pc = "lock", !.step = Reach, !.deadline = deadline,
                              !.until = deadline]
    /\ Unlock

\* The slave is there and has CoE, or the command ends.
ReachDone ==
    /\ ctl.pc = "held" /\ ctl.command = "diagnostics-slave" /\ ctl.step = Reach
    /\ ctl' = NextStep("lock") \/ ctl' = Idle
    /\ Unlock

\* A slip in Timeout: each SDO gets the SOEM default.
TimeoutUnbudgeted == EC_TIMEOUTRXM

\* budget_timeout_us, 0 when the budget is spent; scan-modules has no budget.
Timeout ==
    LET left == IF ctl.deadline > ctl.elapsed THEN ctl.deadline - ctl.elapsed ELSE 0
    IN  IF ctl.command = "diagnostics-slave" /\ left < EC_TIMEOUTRXM
        THEN left ELSE EC_TIMEOUTRXM

\* With the lock held: ecx_SDOread, or nothing when there is no time for it.
SdoBegins ==
    /\ ctl.pc = "held"
    /\ ctl.command = "diagnostics-slave" => ctl.step >= Status
    /\ IF Timeout = 0
       THEN ctl' = NextStep("lock") /\ Unlock
       ELSE /\ ctl' = [ctl EXCEPT !.pc = "sdo", !.sdo = Timeout]
            /\ UNCHANGED <<vars, master, lock, chore, waited>>

\* scan-modules finds that the position is out of range, or has no CoE.
ScanRefused ==
    /\ ctl.pc = "held" /\ ctl.command = "scan-modules" /\ ctl.step = 0
    /\ ctl' = Idle
    /\ Unlock

\* A slip in StatusRead: the lock is kept for the next read.
StatusReadKeepsLock ==
    /\ ctl.pc = "sdo" /\ ctl.command = "diagnostics-slave"
    /\ ctl' = NextStep("held")
    /\ IF ctl' = Idle THEN Unlock ELSE UNCHANGED <<vars, master, lock, chore, waited>>

\* An SDO read of diagnostics-slave ends, with a value or without.
StatusRead ==
    /\ ctl.pc = "sdo" /\ ctl.command = "diagnostics-slave"
    /\ ctl' = NextStep("lock")
    /\ Unlock

\* One of scan-modules ends.  The lock is kept until one fails or there are no more.
IdentRead ==
    /\ ctl.pc = "sdo" /\ ctl.command = "scan-modules"
    /\ \/ /\ ctl.step < Modules
          /\ ctl' = [ctl EXCEPT !.pc = "held", !.step = @ + 1, !.sdo = 0]
          /\ UNCHANGED <<vars, master, lock, chore, waited>>
       \/ ctl' = Idle /\ Unlock

Request ==
    \/ handle_scan_command \/ handle_test_command
    \/ handle_scan_modules_command \/ handle_diagnostics_slave_command

Control ==
    \/ OwnContextDone \/ SkipModule \/ TimedLock \/ LockTimesOut
    \/ ProbeDone \/ ReachDone \/ SdoBegins \/ ScanRefused \/ StatusRead \/ IdentRead

\* Time passes while the control thread waits and its time limit is not reached.
Tick ==
    /\ \/ ctl.pc = "waiting" /\ ctl.elapsed < ctl.until
       \/ ctl.pc = "sdo" /\ ctl.sdo > 0
    /\ ctl' = [ctl EXCEPT !.elapsed = @ + 1, !.sdo = IF @ > 0 THEN @ - 1 ELSE 0]
    /\ waited' = IF lock.waiter = "monitor" THEN waited + 1 ELSE waited
    /\ UNCHANGED <<vars, master, lock, chore>>

-----------------------------------------------------------------------------
AcyclicNext == Cyclic \/ Monitor \/ Request \/ Control \/ Tick

AcyclicSpec == AcyclicInit /\ [][AcyclicNext]_all

(* The control thread is scheduled and time goes on.  Nothing is assumed of the monitor:    *)
(* SOEM's timeouts while it holds the lock add up to any length.                            *)
FairAcyclicSpec == AcyclicSpec /\ WF_all(Control) /\ WF_all(Tick)

-----------------------------------------------------------------------------
Reads(n) == n * EC_TIMEOUTRXM

(* docs/PROTOCOL.md: the commands wait up to 1 s for the lock, and "the whole read is       *)
(* bounded to about 2 s": the time is not exceeded however often the monitor takes the     *)
(* lock between two reads, and although a read that began in time may use it up.           *)
AnswerInTime ==
    ctl.elapsed <= ECAT_ACYCLIC_WAIT_MS +
        (IF ctl.command = "diagnostics-slave" THEN ECAT_DIAG_BUDGET_MS
         ELSE Reads(Modules + 1))

(* "The reader takes the lock per SDO so recovery can run between reads" (bus.c:2237):      *)
(* diagnostics-slave keeps the monitor from its work for one SDO read at most;              *)
(* scan-modules, which reads the list under one acquisition, for the whole list.           *)
RecoveryRunsBetweenReads ==
    waited <= IF ctl.command = "scan-modules" THEN Reads(Modules + 1) ELSE EC_TIMEOUTRXM

(* A command is answered even when the monitor never gives the lock back.                   *)
CommandAnswered == ctl.pc # "idle" ~> ctl.pc = "idle"

=============================================================================
