--------------------------- MODULE IfaceStateProofs ---------------------------
(***************************************************************************)
(* When every ethtool call and file write succeeds and the process does not *)
(* crash between tuning and writing the file, the settings in effect before *)
(* the master was brought up are never lost (IfaceState.tla), whatever the  *)
(* settings are and however starts, stops and crashes follow one another.   *)
(***************************************************************************)
EXTENDS IfaceState, TLAPS

\* The groups the current step has done.
Done == {g \in Groups : g < at}

\* Where the former settings are, step by step.
Whereabouts ==
    /\ exists = "no" => file = Nothing
    /\ pc \in {"idle", "down"} =>
          /\ exists = "yes" => file = before
          /\ exists = "no" => nic = before
          /\ state = Nothing
    /\ pc \in {"recover", "remove_stale"} => file = before /\ state = Nothing
    /\ pc = "capture" =>
          /\ nic = before /\ file = Nothing /\ exists = "no"
          /\ \A g \in Groups : state[g] = IF g \in Done THEN before[g] ELSE None
    /\ pc \in {"tune", "persist"} => state = before /\ file = Nothing /\ exists = "no"
    /\ pc \in {"running", "revert", "remove"} =>
          state = before /\ file = before /\ exists = "yes"
    /\ pc \in {"recover", "revert"} => \A g \in Done : nic[g] = before[g]
    /\ pc \in {"remove_stale", "remove"} => nic = before
    /\ pc \notin {"recover", "capture", "tune", "revert"} => at = 1

IInv == TypeOK /\ Whereabouts

\* The initial states satisfy the invariant.
LEMMA InitIInv == Init => IInv
  BY SettingsAssumption DEF Init, IInv, TypeOK, Whereabouts, Nothing, Groups, Done

\* No group is done before the first one is; the first is once the second is next.
LEMMA DoneGroups ==
    /\ at = 1 => Done = {}
    /\ at = 2 => Done = {1}
  BY DEF Done, Groups

\* Every step preserves it when nothing fails.
LEMMA NextIInv ==
    ASSUME Faults = {}, IInv, [Next]_vars
    PROVE  IInv'
  <1> USE SettingsAssumption DEF IInv
  <1>a. TypeOK /\ Whereabouts /\ at \in {1, 2} /\ Groups = {1, 2}
    BY DEF TypeOK, Groups
  <1>1. CASE Apply
    BY <1>1, <1>a DEF Apply, TypeOK, Whereabouts, Nothing, Done, Groups
  <1>2. CASE Recover
    <2>1. nic' = [nic EXCEPT ![at] = before[at]]
      BY <1>2, <1>a DEF Recover, restore_nic_settings, TypeOK, Whereabouts
    <2>2. CASE at = 1
      BY <1>2, <1>a, <2>1, <2>2 DEF Recover, Continue, TypeOK, Whereabouts, Done, Groups
    <2>3. CASE at = 2
      <3>1. nic' = before
        BY <1>a, <1>2, <2>1, <2>3, DoneGroups DEF Recover, TypeOK, Whereabouts
      <3> QED
        BY <1>2, <1>a, <3>1, <2>3 DEF Recover, Continue, TypeOK, Whereabouts, Done, Groups
    <2> QED BY <1>a, <2>2, <2>3
  <1>3. CASE RemoveStale
    BY <1>3, <1>a DEF RemoveStale, TypeOK, Whereabouts, Nothing, Done, Groups
  <1>4. CASE capture_nic_settings
    <2>1. state' = [state EXCEPT ![at] = before[at]]
      BY <1>4, <1>a DEF capture_nic_settings, Whereabouts
    <2>2. CASE at = 1
      BY <1>4, <1>a, <2>1, <2>2
      DEF capture_nic_settings, Continue, TypeOK, Whereabouts, Done, Groups
    <2>3. CASE at = 2
      <3>1. state' = before
        BY <1>a, <1>4, <2>1, <2>3, DoneGroups DEF capture_nic_settings, TypeOK, Whereabouts
      <3> QED
        BY <1>4, <1>a, <3>1, <2>3
        DEF capture_nic_settings, Continue, TypeOK, Whereabouts, Done, Groups
    <2> QED BY <1>a, <2>2, <2>3
  <1>5. CASE apply_low_latency_nic
    BY <1>5, <1>a DEF apply_low_latency_nic, Continue, TypeOK, Whereabouts, Done, Groups
  <1>6. CASE persist_state
    BY <1>6, <1>a DEF persist_state, TypeOK, Whereabouts, Done, Groups
  <1>7. CASE Revert
    BY <1>7, <1>a DEF Revert, TypeOK, Whereabouts, Done, Groups
  <1>8. CASE RevertGroup
    <2>1. nic' = [nic EXCEPT ![at] = before[at]]
      BY <1>8, <1>a DEF RevertGroup, restore_nic_settings, TypeOK, Whereabouts
    <2>2. CASE at = 1
      BY <1>8, <1>a, <2>1, <2>2 DEF RevertGroup, Continue, TypeOK, Whereabouts, Done, Groups
    <2>3. CASE at = 2
      <3>1. nic' = before
        BY <1>a, <1>8, <2>1, <2>3, DoneGroups DEF RevertGroup, TypeOK, Whereabouts
      <3> QED
        BY <1>8, <1>a, <3>1, <2>3 DEF RevertGroup, Continue, TypeOK, Whereabouts, Done, Groups
    <2> QED BY <1>a, <2>2, <2>3
  <1>9. CASE RevertDone
    BY <1>9, <1>a DEF RevertDone, TypeOK, Whereabouts, Nothing, Done, Groups
  <1>10. CASE Crash
    BY <1>10, <1>a DEF Crash, TypeOK, Whereabouts, Nothing, Done, Groups
  <1>11. CASE Restart
    BY <1>11, <1>a DEF Restart, TypeOK, Whereabouts, Done, Groups
  <1>12. ASSUME NEW g \in Groups, NEW v \in Settings, Administer(g, v)
         PROVE  IInv'
    BY <1>12, <1>a DEF Administer, TypeOK, Whereabouts, Nothing, Done, Groups
  <1>13. CASE UNCHANGED vars
    BY <1>13, <1>a DEF vars, TypeOK, Whereabouts, Nothing, Done, Groups
  <1> QED
    BY <1>1, <1>2, <1>3, <1>4, <1>5, <1>6, <1>7, <1>8, <1>9, <1>10, <1>11, <1>12, <1>13
    DEF Next

\* The invariant gives the three properties.
LEMMA IInvSuffices == IInv => OriginalsKept /\ SavedIsBefore /\ RestoredWhenDone
  <1> SUFFICES ASSUME IInv PROVE OriginalsKept /\ SavedIsBefore /\ RestoredWhenDone
    OBVIOUS
  <1>1. OriginalsKept
    BY DEF IInv, TypeOK, Whereabouts, OriginalsKept, Nothing, Done, Groups
  <1>2. SavedIsBefore
    BY DEF IInv, TypeOK, Whereabouts, SavedIsBefore, Nothing, Done, Groups
  <1>3. RestoredWhenDone
    BY DEF IInv, Whereabouts, RestoredWhenDone
  <1> QED BY <1>1, <1>2, <1>3

\* The settings in effect before the master was brought up are always in memory or in the
\* state file while the interface differs from them (ecat_iface_state_apply and _revert).
THEOREM OriginalsKeptHolds == ASSUME Faults = {} PROVE Spec => []OriginalsKept
  <1>1. IInv /\ [Next]_vars => IInv'
    BY NextIInv
  <1> QED BY <1>1, InitIInv, IInvSuffices, PTL DEF Spec

\* Nothing but those settings is ever captured or written to the state file.
THEOREM SavedIsBeforeHolds == ASSUME Faults = {} PROVE Spec => []SavedIsBefore
  <1>1. IInv /\ [Next]_vars => IInv'
    BY NextIInv
  <1> QED BY <1>1, InitIInv, IInvSuffices, PTL DEF Spec

\* With no state file and nothing running the interface is as it was.
THEOREM RestoredWhenDoneHolds == ASSUME Faults = {} PROVE Spec => []RestoredWhenDone
  <1>1. IInv /\ [Next]_vars => IInv'
    BY NextIInv
  <1> QED BY <1>1, InitIInv, IInvSuffices, PTL DEF Spec

=============================================================================
