------------------------------ MODULE Recovery ------------------------------
(***************************************************************************)
(* One running master of src/bus.c: the bus thread (ecat_run_one_cycle) and *)
(* the monitor thread (ecat_monitor_thread, attempt_recovery) share         *)
(* bus_state and two error counters without a lock, while the slaves on the *)
(* wire leave and re-enter OP.                                              *)
(*                                                                         *)
(* Every atomic load or store another thread can observe is a step of its   *)
(* own.  Counters that only diagnostics report are left out.  What a pass   *)
(* does in OPERATIONAL, and the slaves snapshot, are in module AlPoll; start *)
(* and stop are in module Lifecycle.                                        *)
(***************************************************************************)
EXTENDS Naturals, FiniteSets

CONSTANTS
    Slaves,     \* bus positions 1..slave_count of the configured slaves
    Outputs,    \* the slaves with an output region (they count in the WKC only in OP)
    Inputs,     \* the slaves with an input region (they count from SAFE-OP on)
    ECAT_WKC_ERROR_THRESHOLD,
    ECAT_AL_FAULT_THRESHOLD,
    ECAT_MAX_RECOVERY_ATTEMPTS

ASSUME RecoveryAssumption ==
    /\ IsFiniteSet(Slaves) /\ Slaves # {}
    /\ Outputs \subseteq Slaves /\ Inputs \subseteq Slaves
    /\ ECAT_WKC_ERROR_THRESHOLD \in Nat \ {0}
    /\ ECAT_AL_FAULT_THRESHOLD \in Nat \ {0}
    /\ ECAT_MAX_RECOVERY_ATTEMPTS \in Nat \ {0}

VARIABLES
    bus_state,               \* inst->bus_state, atomic
    consecutive_wkc_errors,  \* atomic: the bus thread counts, the monitor resets
    consecutive_al_faults,   \* bus thread only
    recovery_attempts,       \* monitor thread only while the master runs
    bus,                     \* bus thread: [pc, state, consec]
    mon,                     \* monitor thread: [pc, down, todo]
    al,                      \* the AL state each slave is really in
    slavelist,               \* slavelist[].state, SOEM's copy
    islost,                  \* the slaves whose slavelist[].islost is set
    shortRun,                \* history: exchanges in a row with a short WKC
    disturbed                \* history: "yes" once a slave failed again, was not there, or lost
                             \* a frame in this recovery

vars == <<bus_state, consecutive_wkc_errors, consecutive_al_faults,
          recovery_attempts, bus, mon, al, slavelist, islost, shortRun, disturbed>>

wireVars == <<al, slavelist, islost>>
busVars  == <<bus, consecutive_al_faults, shortRun>>

(***************************************************************************)
(* AL states, PRE_OP standing for every state below SAFE-OP that answers.   *)
(***************************************************************************)
AlStates == {"NONE", "PRE_OP", "SAFE_OP", "SAFE_OP_ERR", "OP"}

BusStates == {"OPERATIONAL", "RECOVERING", "ERROR"}

\* Both threads at the top of their loops: their locals hold nothing.
BusIdle == [pc |-> "top", state |-> "OPERATIONAL", consec |-> 0]
MonIdle == [pc |-> "top", down |-> {}, todo |-> {}]

\* A counter of which every reader only asks whether it reached limit.
Saturate(n, limit) == IF n < limit THEN n ELSE limit

\* start_single_master, phase 4, up to the creation of both threads.
Init ==
    /\ bus_state = "OPERATIONAL"
    /\ consecutive_wkc_errors = 0
    /\ consecutive_al_faults = 0
    /\ recovery_attempts = 0
    /\ bus = BusIdle
    /\ mon = MonIdle
    /\ al = [s \in Slaves |-> "OP"]
    /\ slavelist = [s \in Slaves |-> "OP"]
    /\ islost = {}
    /\ shortRun = 0
    /\ disturbed = "no"

-----------------------------------------------------------------------------
(***************************************************************************)
(* The slaves.                                                              *)
(***************************************************************************)

\* Where a slave goes by itself: it leaves OP (AL error, SM watchdog, power cycle,
\* unplugged), sinks further, or comes back on the wire after it was gone.
Falls == [OP          |-> {"SAFE_OP", "SAFE_OP_ERR", "PRE_OP", "NONE"},
          SAFE_OP     |-> {"SAFE_OP_ERR", "PRE_OP", "NONE"},
          SAFE_OP_ERR |-> {"PRE_OP", "NONE"},
          PRE_OP      |-> {"NONE"},
          NONE        |-> {"PRE_OP"}]

\* In ERROR nobody asks the slaves any more; what they do then is left out.
SlaveChanges(s) ==
    /\ bus_state # "ERROR"
    /\ \E a \in Falls[al[s]] : al' = [al EXCEPT ![s] = a]
    /\ disturbed' = IF bus_state = "RECOVERING" THEN "yes" ELSE disturbed
    /\ UNCHANGED <<bus_state, consecutive_wkc_errors, recovery_attempts, mon,
                   slavelist, islost, busVars>>

\* The process-data working counter is below expected_wkc: (outputsWKC * 2) + inputsWKC.
WkcShort ==
    \/ \E s \in Outputs : al[s] # "OP"
    \/ \E s \in Inputs : al[s] \in {"NONE", "PRE_OP"}

\* ecat_al_poll_healthy: every slave answered the broadcast and the OR of the
\* states is exactly OP.
AlPollHealthy == \A s \in Slaves : al[s] = "OP"

-----------------------------------------------------------------------------
(***************************************************************************)
(* Bus thread: ecat_run_one_cycle.                                          *)
(***************************************************************************)

\* The state is read once; only OPERATIONAL and RECOVERING exchange.
CycleBegin ==
    /\ bus.pc = "top"
    /\ bus_state \in {"OPERATIONAL", "RECOVERING"}
    /\ bus' = [bus EXCEPT !.pc = "exchange", !.state = bus_state]
    /\ UNCHANGED <<bus_state, consecutive_wkc_errors, consecutive_al_faults,
                   recovery_attempts, mon, shortRun, disturbed, wireVars>>

\* A slip in CollectAlPoll: a missed poll ends the run of faults.
CollectAlPollMissResets(missed) ==
    consecutive_al_faults' =
        IF missed \/ AlPollHealthy THEN 0
        ELSE Saturate(consecutive_al_faults + 1, ECAT_AL_FAULT_THRESHOLD)

\* collect_al_poll: a missed poll changes no fault counter.
CollectAlPoll(missed) ==
    consecutive_al_faults' =
        IF missed THEN consecutive_al_faults
        ELSE IF AlPollHealthy THEN 0
        ELSE Saturate(consecutive_al_faults + 1, ECAT_AL_FAULT_THRESHOLD)

\* A slip in Exchange: a good exchange does not end the run of errors.
ExchangeKeepsCount(frame_lost, al_missed) ==
    LET short == frame_lost \/ WkcShort
        Run(n) == IF short THEN Saturate(n + 1, ECAT_WKC_ERROR_THRESHOLD) ELSE n
    IN  /\ bus.pc = "exchange"
        /\ CollectAlPoll(al_missed)
        /\ consecutive_wkc_errors' = Run(consecutive_wkc_errors)
        /\ shortRun' = IF short THEN Run(shortRun) ELSE 0
        /\ bus' = [bus EXCEPT !.pc = "trigger", !.consec = Run(consecutive_wkc_errors)]
        /\ UNCHANGED <<bus_state, recovery_attempts, mon, disturbed, wireVars>>

\* Process-data exchange, AL poll, and the shared counter of short exchanges (a
\* fetch_add, or a store of 0).  Either frame can be lost; with no slave on the
\* wire none comes back.
Exchange(frame_lost, al_missed) ==
    LET short == frame_lost \/ WkcShort
        Run(n) == IF short THEN Saturate(n + 1, ECAT_WKC_ERROR_THRESHOLD) ELSE 0
    IN  /\ bus.pc = "exchange"
        /\ (\A s \in Slaves : al[s] = "NONE") => frame_lost /\ al_missed
        /\ CollectAlPoll(al_missed)
        /\ consecutive_wkc_errors' = Run(consecutive_wkc_errors)
        /\ shortRun' = Run(shortRun)
        /\ bus' = [bus EXCEPT !.pc = "trigger", !.consec = Run(consecutive_wkc_errors)]
        /\ UNCHANGED <<bus_state, recovery_attempts, mon, disturbed, wireVars>>

\* A slip in Trigger: the state is not required to have been OPERATIONAL.
TriggerInAnyState ==
    LET wkc == bus.consec >= ECAT_WKC_ERROR_THRESHOLD
    IN  /\ bus.pc = "trigger"
        /\ bus' = BusIdle
        /\ bus_state' = IF wkc THEN "RECOVERING" ELSE bus_state
        /\ UNCHANGED <<consecutive_wkc_errors, consecutive_al_faults,
                       recovery_attempts, mon, shortRun, disturbed, wireVars>>

\* The thresholds, judged with the state read at the top of the cycle.
Trigger ==
    LET wkc == /\ bus.state = "OPERATIONAL"
               /\ bus.consec >= ECAT_WKC_ERROR_THRESHOLD
        alf == /\ bus.state = "OPERATIONAL"
               /\ consecutive_al_faults >= ECAT_AL_FAULT_THRESHOLD
    IN  /\ bus.pc = "trigger"
        /\ bus' = BusIdle
        /\ \/ /\ wkc \/ alf
              /\ bus_state' = "RECOVERING"
              /\ disturbed' = IF \E s \in Slaves : al[s] = "NONE" THEN "yes" ELSE "no"
           \/ /\ ~wkc /\ ~alf
              /\ UNCHANGED <<bus_state, disturbed>>
        /\ UNCHANGED <<consecutive_wkc_errors, consecutive_al_faults,
                       recovery_attempts, mon, shortRun, wireVars>>

BusStep ==
    \/ CycleBegin
    \/ \E frame_lost, al_missed \in BOOLEAN : Exchange(frame_lost, al_missed)
    \/ Trigger

-----------------------------------------------------------------------------
(***************************************************************************)
(* Monitor thread: one pass every ECAT_MONITOR_INTERVAL_MS.                 *)
(***************************************************************************)

\* A slip in PassBegin: slaves are recovered in OPERATIONAL as well.
PassBeginUnlessError ==
    /\ mon.pc = "top"
    /\ bus_state # "ERROR"
    /\ mon' = [mon EXCEPT !.pc = "read"]
    /\ UNCHANGED <<bus_state, consecutive_wkc_errors, recovery_attempts,
                   disturbed, busVars, wireVars>>

\* A pass that reads RECOVERING.
PassBegin ==
    /\ mon.pc = "top"
    /\ bus_state = "RECOVERING"
    /\ mon' = [mon EXCEPT !.pc = "read"]
    /\ UNCHANGED <<bus_state, consecutive_wkc_errors, recovery_attempts,
                   disturbed, busVars, wireVars>>

\* A slip in ReadStates: a slave in SAFE-OP counts as recovered.
ReadStatesSafeOpIsFine(lost) ==
    LET read == [s \in Slaves |-> IF s \in lost THEN "NONE" ELSE al[s]]
    IN  /\ mon.pc = "read"
        /\ slavelist' = read
        /\ mon' = [pc |-> "slaves",
                   down |-> {s \in Slaves : read[s] \notin {"OP", "SAFE_OP"}},
                   todo |-> {s \in Slaves : read[s] # "OP"}]
        /\ disturbed' = IF lost = {} THEN disturbed ELSE "yes"
        /\ UNCHANGED <<bus_state, consecutive_wkc_errors, recovery_attempts,
                       busVars, al, islost>>

\* attempt_recovery: ecx_readstate (a slave whose answer is lost reads as NONE),
\* then each slave not in OP is recovered in turn.
ReadStates(lost) ==
    LET read == [s \in Slaves |-> IF s \in lost THEN "NONE" ELSE al[s]]
    IN  /\ mon.pc = "read"
        /\ slavelist' = read
        /\ mon' = [pc |-> "slaves",
                   down |-> {s \in Slaves : read[s] # "OP"},
                   todo |-> {s \in Slaves : read[s] # "OP"}]
        /\ disturbed' = IF lost = {} THEN disturbed ELSE "yes"
        /\ UNCHANGED <<bus_state, consecutive_wkc_errors, recovery_attempts,
                       busVars, al, islost>>

\* Where a request to enter OP takes a slave (external); the error bit is first
\* acknowledged only for a slave last read with it.
OpRequest(s) ==
    IF \/ al[s] = "SAFE_OP"
       \/ al[s] = "SAFE_OP_ERR" /\ slavelist[s] = "SAFE_OP_ERR"
    THEN {"OP", "SAFE_OP", "SAFE_OP_ERR"}
    ELSE {al[s]}

\* ecx_reconfig_slave takes a slave through INIT and PRE-OP to SAFE-OP (external).
Reconfig(s) == IF al[s] = "NONE" THEN {"NONE"} ELSE {"PRE_OP", "SAFE_OP"}

\* The slave ends in state a; slavelist[] says so, or NONE if its answer is lost.
\* Anything but the state asked for is a disturbance of this recovery.
Settle(s, a, asked, answered) ==
    /\ al' = [al EXCEPT ![s] = a]
    /\ slavelist' = [slavelist EXCEPT ![s] = IF answered THEN a ELSE "NONE"]
    /\ disturbed' = IF a = asked /\ answered THEN disturbed ELSE "yes"

\* A slave that does not answer is marked lost, one that does is no longer.
MarkLost(s, answered) ==
    islost' = IF answered /\ al[s] # "NONE" THEN islost \ {s} ELSE islost \cup {s}

\* ecat_master_recover_slave, on the state ecx_readstate left in slavelist[]: in
\* SAFE-OP, in a lower state (reconfiguration done, or failed), not answering for
\* the first time, and marked lost before.
RecoverSlave(s, answered) ==
    /\ mon.pc = "slaves"
    /\ s \in mon.todo /\ \A t \in mon.todo : s <= t
    /\ mon' = [mon EXCEPT !.todo = @ \ {s}]
    /\ \/ /\ slavelist[s] \in {"SAFE_OP", "SAFE_OP_ERR"}
          /\ \E a \in OpRequest(s) : Settle(s, a, "OP", answered)
          /\ UNCHANGED islost
       \/ /\ slavelist[s] = "PRE_OP"
          /\ \E a \in Reconfig(s) \ {"NONE"} : Settle(s, a, "SAFE_OP", answered)
          /\ islost' = islost \ {s}
       \/ /\ slavelist[s] = "PRE_OP"
          /\ "NONE" \in Reconfig(s) \/ ~answered
          /\ disturbed' = "yes"
          /\ UNCHANGED wireVars
       \/ /\ slavelist[s] = "NONE" /\ s \notin islost
          /\ Settle(s, al[s], al[s], answered)
          /\ MarkLost(s, answered)
       \/ /\ slavelist[s] = "NONE" /\ s \in islost
          /\ MarkLost(s, answered)
          /\ UNCHANGED <<al, slavelist, disturbed>>
    /\ UNCHANGED <<bus_state, consecutive_wkc_errors, recovery_attempts, busVars>>

\* Slips in Judge: attempts that survive a success, one attempt too many, and a
\* failed attempt that is not counted.
JudgeWith(onSuccess, onFailure, limit) ==
    /\ mon.pc = "slaves" /\ mon.todo = {}
    /\ \/ /\ mon.down = {}
          /\ recovery_attempts' = onSuccess
          /\ consecutive_wkc_errors' = 0
          /\ mon' = [mon EXCEPT !.pc = "ok"]
       \/ /\ mon.down # {}
          /\ recovery_attempts' = onFailure
          /\ mon' = IF onFailure >= limit THEN [mon EXCEPT !.pc = "failed"] ELSE MonIdle
          /\ UNCHANGED consecutive_wkc_errors
    /\ UNCHANGED <<bus_state, disturbed, busVars, wireVars>>

JudgeKeepsAttempts ==
    JudgeWith(recovery_attempts, recovery_attempts + 1, ECAT_MAX_RECOVERY_ATTEMPTS)
JudgeOneTooMany ==
    JudgeWith(0, recovery_attempts + 1, ECAT_MAX_RECOVERY_ATTEMPTS + 1)
JudgeForgetsFailure ==
    JudgeWith(0, recovery_attempts, ECAT_MAX_RECOVERY_ATTEMPTS)

\* The end of attempt_recovery: its verdict and the counters it stores.
Judge ==
    LET attempts == recovery_attempts + 1
    IN  /\ mon.pc = "slaves" /\ mon.todo = {}
        /\ \/ /\ mon.down = {}
              /\ recovery_attempts' = 0
              /\ consecutive_wkc_errors' = 0
              /\ mon' = [mon EXCEPT !.pc = "ok"]
           \/ /\ mon.down # {}
              /\ recovery_attempts' = attempts
              /\ mon' = IF attempts >= ECAT_MAX_RECOVERY_ATTEMPTS
                        THEN [mon EXCEPT !.pc = "failed"] ELSE MonIdle
              /\ UNCHANGED consecutive_wkc_errors
        /\ UNCHANGED <<bus_state, disturbed, busVars, wireVars>>

\* The monitor stores the verdict in bus_state.
Verdict(pc, next) ==
    /\ mon.pc = pc
    /\ bus_state' = next
    /\ mon' = MonIdle
    /\ disturbed' = IF next = "ERROR" THEN disturbed ELSE "no"
    /\ UNCHANGED <<consecutive_wkc_errors, recovery_attempts, busVars, wireVars>>

Recovered == Verdict("ok", "OPERATIONAL")
GiveUp == Verdict("failed", "ERROR")

MonitorStep ==
    \/ PassBegin
    \/ \E lost \in SUBSET Slaves : ReadStates(lost)
    \/ \E s \in Slaves, answered \in BOOLEAN : RecoverSlave(s, answered)
    \/ Judge \/ Recovered \/ GiveUp

-----------------------------------------------------------------------------
\* In ERROR both threads only wait for the stop.
Failed == bus_state = "ERROR" /\ UNCHANGED vars

Next == BusStep \/ MonitorStep \/ (\E s \in Slaves : SlaveChanges(s)) \/ Failed

Spec == Init /\ [][Next]_vars

\* Both threads keep being scheduled; nothing is assumed of the slaves or the wire.
FairSpec == Spec /\ WF_vars(BusStep) /\ WF_vars(MonitorStep)

\* In addition the wire does not lose every AL poll.
PolledSpec ==
    FairSpec /\ SF_vars(\E frame_lost \in BOOLEAN : Exchange(frame_lost, FALSE))

-----------------------------------------------------------------------------
(***************************************************************************)
(* Properties.                                                              *)
(***************************************************************************)

TypeOK ==
    /\ bus_state \in BusStates
    /\ consecutive_wkc_errors \in 0..ECAT_WKC_ERROR_THRESHOLD
    /\ consecutive_al_faults \in 0..ECAT_AL_FAULT_THRESHOLD
    /\ recovery_attempts \in 0..ECAT_MAX_RECOVERY_ATTEMPTS
    /\ bus \in [pc : {"top", "exchange", "trigger"}, state : BusStates,
                consec : 0..ECAT_WKC_ERROR_THRESHOLD]
    /\ mon \in [pc : {"top", "read", "slaves", "ok", "failed"}, down : SUBSET Slaves,
                todo : SUBSET Slaves]
    /\ al \in [Slaves -> AlStates]
    /\ slavelist \in [Slaves -> AlStates]
    /\ islost \in SUBSET Slaves
    /\ shortRun \in 0..ECAT_WKC_ERROR_THRESHOLD
    /\ disturbed \in {"yes", "no"}

(* bus_state is written by two threads without a lock or a compare-and-swap   *)
(* (bus.c:919, 924, 442, 447).  No update is lost: the state a thread read     *)
(* at the top of its cycle or pass, and acts on, is still the current one.     *)
StateOwnership ==
    /\ bus.pc # "top" /\ bus.state = "OPERATIONAL" => bus_state = "OPERATIONAL"
    /\ mon.pc # "top" => bus_state = "RECOVERING"

(* While the threads run the master moves only along the edges config.h:420    *)
(* draws: OPERATIONAL <-> RECOVERING and RECOVERING -> ERROR, which is final.  *)
BusStateGraph ==
    [][bus_state' # bus_state =>
         <<bus_state, bus_state'>> \in {<<"OPERATIONAL", "RECOVERING">>,
                                        <<"RECOVERING", "OPERATIONAL">>,
                                        <<"RECOVERING", "ERROR">>}]_vars

(* recovery_attempts counts the current recovery (docs/PROTOCOL.md:139): it    *)
(* is 0 in OPERATIONAL, below the maximum while the monitor goes on trying,    *)
(* and at the maximum exactly when it gave up.                                 *)
AttemptsCountTheRecovery ==
    /\ bus_state = "OPERATIONAL" => recovery_attempts = 0
    /\ bus_state = "ERROR" => recovery_attempts = ECAT_MAX_RECOVERY_ATTEMPTS
    /\ bus_state = "RECOVERING" /\ mon.pc # "failed"
         => recovery_attempts < ECAT_MAX_RECOVERY_ATTEMPTS

(* Recovery starts only after the documented number of short working counters  *)
(* in a row, or of AL replies not all in OP in a row: the resets the monitor   *)
(* makes beside the bus thread never make a run look longer than it was.       *)
RecoveryIsJustified ==
    [][bus_state = "OPERATIONAL" /\ bus_state' = "RECOVERING" =>
         \/ shortRun >= ECAT_WKC_ERROR_THRESHOLD
         \/ consecutive_al_faults >= ECAT_AL_FAULT_THRESHOLD]_vars

(* The monitor returns to OPERATIONAL only when the last ecx_readstate found   *)
(* every slave in OP, not when the recovery calls merely reported success.     *)
RecoveredMeansAllOp ==
    [][bus_state = "RECOVERING" /\ bus_state' = "OPERATIONAL" =>
         \A s \in Slaves : slavelist[s] = "OP"]_vars

(* ECAT_MAX_RECOVERY_ATTEMPTS is enough: a recovery in which every slave is on *)
(* the wire from the start, obeys every request, and no frame is lost, never   *)
(* ends in ERROR, whatever states the slaves had fallen to.                    *)
EnoughAttempts == bus_state = "ERROR" => disturbed = "yes"

(* A recovery always ends, in OPERATIONAL or in ERROR.                         *)
RecoveryEnds == (bus_state = "RECOVERING") ~> (bus_state # "RECOVERING")

(* A slave with outputs that leaves OP for good takes the master to ERROR: no  *)
(* sequence of resets and passes keeps the fault from being acted on.          *)
OutputFaultEndsInError ==
    \A s \in Outputs : <>[](al[s] # "OP") => <>[](bus_state = "ERROR")

(* The same of a slave the working counter does not see, a coupler without     *)
(* process data: the AL poll detects it, although missed polls intervene.      *)
CouplerFaultEndsInError ==
    \A s \in Slaves \ (Outputs \cup Inputs) :
        <>[](al[s] # "OP") => <>[](bus_state = "ERROR")

=============================================================================
