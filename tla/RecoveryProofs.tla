--------------------------- MODULE RecoveryProofs ---------------------------
(***************************************************************************)
(* Proofs about module Recovery, for any set of slaves and any thresholds.  *)
(***************************************************************************)
EXTENDS Recovery, TLAPS

(***************************************************************************)
(* A saturating counter stays within its limit and never exceeds another    *)
(* that counts the same events from at least as far.                        *)
(***************************************************************************)
LEMMA SaturateInRange ==
    ASSUME NEW limit \in Nat, NEW n \in Nat
    PROVE  Saturate(n, limit) \in 0..limit
BY DEF Saturate

LEMMA SaturateMonotone ==
    ASSUME NEW limit \in Nat, NEW m \in Nat, NEW n \in Nat, m <= n
    PROVE  Saturate(m, limit) <= Saturate(n, limit)
BY DEF Saturate

-----------------------------------------------------------------------------
(***************************************************************************)
(* The inductive invariant.  StateOwnership alone is inductive; what the     *)
(* monitor has decided but not yet stored (pc "ok" and "failed") ties        *)
(* recovery_attempts and slavelist[] to the state it is about to store, and   *)
(* the shared counter never runs ahead of the run it counts.                 *)
(***************************************************************************)
MonitorDecided ==
    /\ mon.pc = "ok" => recovery_attempts = 0 /\ \A s \in Slaves : slavelist[s] = "OP"
    /\ mon.pc = "failed" => recovery_attempts = ECAT_MAX_RECOVERY_ATTEMPTS
    /\ mon.pc = "slaves" /\ mon.down = {} =>
         mon.todo = {} /\ \A s \in Slaves : slavelist[s] = "OP"

CountersWithinRun ==
    /\ consecutive_wkc_errors <= shortRun
    /\ bus.pc = "trigger" => bus.consec <= shortRun

IInv ==
    /\ TypeOK
    /\ StateOwnership
    /\ AttemptsCountTheRecovery
    /\ MonitorDecided
    /\ CountersWithinRun

(* Both threads start with the master OPERATIONAL and all counters at 0.     *)
LEMMA InitIInv == Init => IInv
<1> SUFFICES ASSUME Init
             PROVE  IInv
  OBVIOUS
<1> USE RecoveryAssumption DEF Init, BusIdle, MonIdle
<1>1. TypeOK
  BY DEF TypeOK, BusStates, AlStates
<1>2. StateOwnership /\ AttemptsCountTheRecovery
  BY DEF StateOwnership, AttemptsCountTheRecovery
<1>3. MonitorDecided /\ CountersWithinRun
  BY DEF MonitorDecided, CountersWithinRun
<1> QED
  BY <1>1, <1>2, <1>3 DEF IInv

(* Every step of the slaves, the bus thread and the monitor keeps IInv.       *)
LEMMA NextIInv == IInv /\ [Next]_vars => IInv'
<1> SUFFICES ASSUME IInv, [Next]_vars
             PROVE  IInv'
  OBVIOUS
<1> USE RecoveryAssumption
<1>1. ASSUME NEW s \in Slaves, SlaveChanges(s)
      PROVE  IInv'
  BY <1>1 DEF SlaveChanges, Falls, busVars, IInv, TypeOK, StateOwnership,
     AttemptsCountTheRecovery, MonitorDecided, CountersWithinRun, AlStates, BusStates
<1>2. CASE CycleBegin
  BY <1>2 DEF CycleBegin, wireVars, IInv, TypeOK, StateOwnership,
     AttemptsCountTheRecovery, MonitorDecided, CountersWithinRun, BusStates
<1>3. ASSUME NEW frame_lost \in BOOLEAN, NEW al_missed \in BOOLEAN,
             Exchange(frame_lost, al_missed)
      PROVE  IInv'
  <2> DEFINE short == frame_lost \/ WkcShort
             Run(n) == IF short THEN Saturate(n + 1, ECAT_WKC_ERROR_THRESHOLD) ELSE 0
  <2>1. /\ Run(consecutive_wkc_errors) \in 0..ECAT_WKC_ERROR_THRESHOLD
        /\ Run(shortRun) \in 0..ECAT_WKC_ERROR_THRESHOLD
    <3>1. consecutive_wkc_errors + 1 \in Nat /\ shortRun + 1 \in Nat
      BY DEF IInv, TypeOK
    <3>2. /\ Saturate(consecutive_wkc_errors + 1, ECAT_WKC_ERROR_THRESHOLD)
               \in 0..ECAT_WKC_ERROR_THRESHOLD
          /\ Saturate(shortRun + 1, ECAT_WKC_ERROR_THRESHOLD) \in 0..ECAT_WKC_ERROR_THRESHOLD
      BY <3>1, SaturateInRange
    <3> QED
      BY <3>2
  <2>2. Run(consecutive_wkc_errors) <= Run(shortRun)
    BY SaturateMonotone DEF IInv, TypeOK, CountersWithinRun
  <2>3. /\ consecutive_wkc_errors' = Run(consecutive_wkc_errors)
        /\ shortRun' = Run(shortRun)
        /\ bus' = [bus EXCEPT !.pc = "trigger", !.consec = Run(consecutive_wkc_errors)]
        /\ bus.pc = "exchange"
        /\ UNCHANGED <<bus_state, recovery_attempts, mon, disturbed, wireVars>>
    BY <1>3 DEF Exchange
  <2>4. consecutive_al_faults' \in 0..ECAT_AL_FAULT_THRESHOLD
    BY <1>3, SaturateInRange DEF Exchange, CollectAlPoll, IInv, TypeOK
  <2> HIDE DEF Run
  <2>5. TypeOK'
    BY <2>1, <2>3, <2>4 DEF IInv, TypeOK, wireVars
  <2>6. (StateOwnership /\ AttemptsCountTheRecovery /\ MonitorDecided)'
    BY <2>3 DEF IInv, TypeOK, StateOwnership, AttemptsCountTheRecovery, MonitorDecided, wireVars
  <2>7. CountersWithinRun'
    BY <2>2, <2>3 DEF IInv, TypeOK, CountersWithinRun
  <2> QED
    BY <2>5, <2>6, <2>7 DEF IInv
<1>4. CASE Trigger
  <2>1. TypeOK'
    BY <1>4 DEF Trigger, BusIdle, wireVars, IInv, TypeOK, BusStates
  <2>2. (StateOwnership /\ AttemptsCountTheRecovery)'
    BY <1>4 DEF Trigger, BusIdle, wireVars, IInv, TypeOK, BusStates, StateOwnership,
       AttemptsCountTheRecovery
  <2>3. (MonitorDecided /\ CountersWithinRun)'
    BY <1>4 DEF Trigger, BusIdle, wireVars, IInv, TypeOK, MonitorDecided, CountersWithinRun
  <2> QED
    BY <2>1, <2>2, <2>3 DEF IInv
<1>5. CASE PassBegin
  BY <1>5 DEF PassBegin, busVars, wireVars, IInv, TypeOK, StateOwnership,
     AttemptsCountTheRecovery, MonitorDecided, CountersWithinRun, BusStates
<1>6. ASSUME NEW lost \in SUBSET Slaves, ReadStates(lost)
      PROVE  IInv'
  BY <1>6 DEF ReadStates, busVars, IInv, TypeOK, StateOwnership,
     AttemptsCountTheRecovery, MonitorDecided, CountersWithinRun, BusStates, AlStates
<1>7. ASSUME NEW s \in Slaves, NEW answered \in BOOLEAN, RecoverSlave(s, answered)
      PROVE  IInv'
  <2>1. /\ mon.pc = "slaves" /\ s \in mon.todo
        /\ mon' = [mon EXCEPT !.todo = @ \ {s}]
        /\ UNCHANGED <<bus_state, consecutive_wkc_errors, recovery_attempts, busVars>>
    BY <1>7 DEF RecoverSlave
  <2>2. /\ al' \in [Slaves -> AlStates]
        /\ slavelist' \in [Slaves -> AlStates]
        /\ islost' \in SUBSET Slaves
        /\ disturbed' \in {"yes", "no"}
    BY <1>7 DEF RecoverSlave, Settle, MarkLost, OpRequest, Reconfig, wireVars, IInv, TypeOK, AlStates
  <2>3. TypeOK'
    BY <2>1, <2>2 DEF IInv, TypeOK, busVars
  <2>4. (StateOwnership /\ AttemptsCountTheRecovery /\ CountersWithinRun)'
    BY <2>1 DEF IInv, TypeOK, StateOwnership, AttemptsCountTheRecovery, CountersWithinRun, busVars
  <2>5. MonitorDecided'
    BY <2>1 DEF IInv, TypeOK, MonitorDecided
  <2> QED
    BY <2>3, <2>4, <2>5 DEF IInv
<1>8. CASE Judge
  <2>1. CASE mon.down = {}
    <3>1. /\ recovery_attempts' = 0
          /\ consecutive_wkc_errors' = 0
          /\ mon' = [mon EXCEPT !.pc = "ok"]
          /\ mon.pc = "slaves"
          /\ UNCHANGED <<bus_state, disturbed, busVars, wireVars>>
      BY <1>8, <2>1 DEF Judge
    <3> QED
      BY <2>1, <3>1 DEF busVars, wireVars, IInv, TypeOK, StateOwnership,
         AttemptsCountTheRecovery, MonitorDecided, CountersWithinRun
  <2>2. CASE mon.down # {}
    <3>1. /\ recovery_attempts' = recovery_attempts + 1
          /\ mon.pc = "slaves"
          /\ UNCHANGED <<bus_state, disturbed, busVars, wireVars, consecutive_wkc_errors>>
          /\ mon' = IF recovery_attempts + 1 >= ECAT_MAX_RECOVERY_ATTEMPTS
                    THEN [mon EXCEPT !.pc = "failed"] ELSE MonIdle
      BY <1>8, <2>2 DEF Judge
    <3>2. bus_state = "RECOVERING" /\ recovery_attempts < ECAT_MAX_RECOVERY_ATTEMPTS
      BY <3>1 DEF IInv, StateOwnership, AttemptsCountTheRecovery
    <3> QED
      BY <3>1, <3>2 DEF MonIdle, busVars, wireVars, IInv, TypeOK, StateOwnership,
         AttemptsCountTheRecovery, MonitorDecided, CountersWithinRun
  <2> QED
    BY <2>1, <2>2
<1>9. CASE Recovered
  BY <1>9 DEF Recovered, Verdict, MonIdle, busVars, wireVars, IInv, TypeOK, StateOwnership,
     AttemptsCountTheRecovery, MonitorDecided, CountersWithinRun, BusStates
<1>10. CASE GiveUp
  BY <1>10 DEF GiveUp, Verdict, MonIdle, busVars, wireVars, IInv, TypeOK, StateOwnership,
     AttemptsCountTheRecovery, MonitorDecided, CountersWithinRun, BusStates
<1>11. CASE UNCHANGED vars
  BY <1>11 DEF vars, IInv, TypeOK, StateOwnership,
     AttemptsCountTheRecovery, MonitorDecided, CountersWithinRun
<1> QED
  BY <1>1, <1>2, <1>3, <1>4, <1>5, <1>6, <1>7, <1>8, <1>9, <1>10, <1>11
     DEF Next, BusStep, MonitorStep, Failed

-----------------------------------------------------------------------------
(* IInv holds in every reachable state.                                       *)
THEOREM IInvHolds == Spec => []IInv
BY InitIInv, NextIInv, PTL DEF Spec

(* The variables keep their types: no counter passes its limit.               *)
THEOREM TypeCorrect == Spec => []TypeOK
<1>1. IInv => TypeOK
  BY DEF IInv
<1> QED
  BY <1>1, IInvHolds, PTL

(* Two writers of bus_state without a lock lose no update: each thread stores  *)
(* only over the state it read at the top of its cycle or pass.                *)
THEOREM OwnershipHolds == Spec => []StateOwnership
<1>1. IInv => StateOwnership
  BY DEF IInv
<1> QED
  BY <1>1, IInvHolds, PTL

(* recovery_attempts is 0 in OPERATIONAL, at the maximum in ERROR and below it *)
(* while the monitor still tries.                                              *)
THEOREM AttemptsHold == Spec => []AttemptsCountTheRecovery
<1>1. IInv => AttemptsCountTheRecovery
  BY DEF IInv
<1> QED
  BY <1>1, IInvHolds, PTL

(* Only the bus thread leaves OPERATIONAL, only the monitor leaves RECOVERING, *)
(* and ERROR is final while the threads run.                                   *)
THEOREM GraphHolds == Spec => BusStateGraph
<1> DEFINE Edge == bus_state' # bus_state =>
         <<bus_state, bus_state'>> \in {<<"OPERATIONAL", "RECOVERING">>,
                                        <<"RECOVERING", "OPERATIONAL">>,
                                        <<"RECOVERING", "ERROR">>}
<1>1. IInv /\ [Next]_vars => [Edge]_vars
  <2> SUFFICES ASSUME IInv, Next, bus_state' # bus_state
               PROVE  Edge
    BY DEF vars
  <2>1. \/ Trigger
        \/ Recovered
        \/ GiveUp
    BY DEF Next, BusStep, MonitorStep, Failed, vars, SlaveChanges, CycleBegin, Exchange, PassBegin,
       ReadStates, RecoverSlave, Judge
  <2>2. CASE Trigger
    BY <2>2 DEF Trigger, IInv, StateOwnership
  <2>3. CASE Recovered
    BY <2>3 DEF Recovered, Verdict, IInv, StateOwnership
  <2>4. CASE GiveUp
    BY <2>4 DEF GiveUp, Verdict, IInv, StateOwnership
  <2> QED
    BY <2>1, <2>2, <2>3, <2>4
<1> QED
  BY <1>1, IInvHolds, PTL DEF Spec, BusStateGraph

(* The monitor goes back to OPERATIONAL only on a read with every slave in OP. *)
THEOREM RecoveredHolds == Spec => RecoveredMeansAllOp
<1>1. IInv /\ [Next]_vars =>
        [bus_state = "RECOVERING" /\ bus_state' = "OPERATIONAL" =>
           \A s \in Slaves : slavelist[s] = "OP"]_vars
  <2> SUFFICES ASSUME IInv, Next, bus_state = "RECOVERING", bus_state' = "OPERATIONAL"
               PROVE  \A s \in Slaves : slavelist[s] = "OP"
    BY DEF vars
  <2>1. Recovered
    BY DEF Next, BusStep, MonitorStep, Failed, vars, SlaveChanges, CycleBegin, Exchange, PassBegin,
       ReadStates, RecoverSlave, Judge, Trigger, GiveUp, Verdict
  <2> QED
    BY <2>1 DEF Recovered, Verdict, IInv, MonitorDecided
<1> QED
  BY <1>1, IInvHolds, PTL DEF Spec, RecoveredMeansAllOp

(* The bus thread starts a recovery for the working counter only when that many *)
(* exchanges in a row really were short, although the monitor resets the same   *)
(* counter concurrently.                                                        *)
THEOREM JustifiedHolds == Spec => RecoveryIsJustified
<1> DEFINE Justified == bus_state = "OPERATIONAL" /\ bus_state' = "RECOVERING" =>
         \/ shortRun >= ECAT_WKC_ERROR_THRESHOLD
         \/ consecutive_al_faults >= ECAT_AL_FAULT_THRESHOLD
<1>1. IInv /\ [Next]_vars => [Justified]_vars
  <2> SUFFICES ASSUME IInv, Next, bus_state = "OPERATIONAL", bus_state' = "RECOVERING"
               PROVE  Justified
    BY DEF vars
  <2>1. Trigger
    BY DEF Next, BusStep, MonitorStep, Failed, vars, SlaveChanges, CycleBegin, Exchange, PassBegin,
       ReadStates, RecoverSlave, Judge, Recovered, GiveUp, Verdict
  <2> QED
    BY <2>1, RecoveryAssumption DEF Trigger, IInv, TypeOK, CountersWithinRun
<1> QED
  BY <1>1, IInvHolds, PTL DEF Spec, RecoveryIsJustified

=============================================================================
