----------------------------- MODULE IfaceState -----------------------------
(***************************************************************************)
(* The interface tuning of src/iface_state.c.  apply captures the settings  *)
(* of the interface, tunes it and writes what it captured to a state file;  *)
(* revert, or the apply of a process started after a crash, restores them.  *)
(* The process may crash between any two steps; the interface and the file  *)
(* survive it.                                                              *)
(***************************************************************************)
EXTENDS Naturals

CONSTANTS
    Settings, \* values a group of settings can have
    Tuned,    \* the low-latency value: rx-usecs and tx-usecs 0, offloads off
    None,     \* "not saved"
    Faults    \* what may go wrong: "ethtool" a call fails, "disk" the file cannot be
              \* written, "early_crash" a crash between tuning and writing the file

ASSUME SettingsAssumption == Tuned \in Settings /\ None \notin Settings
ASSUME FaultsAssumption == Faults \subseteq {"ethtool", "disk", "early_crash"}

\* The groups of settings, one ethtool call each, in the order of the calls:
\* 1 the coalescing (-c, -C), 2 the offloads (-k, -K).
Groups == 1..2

VARIABLES
    nic,     \* the live settings of the interface
    before,  \* the settings in effect before the master was brought up
    file,    \* the values in the state file
    exists,  \* whether there is a state file: "yes" or "no"
    state,   \* the captured values, in memory
    pc,      \* "idle", "running", "down" after a crash, or the step apply or revert is at
    at       \* the group that step does next

vars == <<nic, before, file, exists, state, pc, at>>

Nothing == [g \in Groups |-> None]

Init ==
    /\ nic \in [Groups -> Settings]
    /\ before = nic
    /\ file = Nothing /\ exists = "no"
    /\ state = Nothing
    /\ pc = "idle" /\ at = 1

\* One group after the other, then on to the next step.
Continue(next) ==
    /\ at' = IF at = 2 THEN 1 ELSE at + 1
    /\ pc' = IF at = 2 THEN next ELSE pc

-----------------------------------------------------------------------------
(* ecat_iface_state_apply *)

ApplyNoRecovery ==
    /\ pc \in {"idle", "running"}
    /\ state' = Nothing
    /\ pc' = "capture" /\ at' = 1
    /\ UNCHANGED <<nic, before, file, exists>>

ApplyRemovesFirst ==
    /\ pc \in {"idle", "running"}
    /\ state' = Nothing /\ file' = Nothing
    /\ pc' = IF exists = "yes" THEN "recover" ELSE "capture"
    /\ at' = 1
    /\ UNCHANGED <<nic, before, exists>>

\* A start calls it: after a stop, after the restart of a crashed process, or on a bus in
\* ERROR whose tuning is still applied.
Apply ==
    /\ pc \in {"idle", "running"}
    /\ state' = Nothing
    /\ pc' = IF exists = "yes" THEN "recover" ELSE "capture"
    /\ at' = 1
    /\ UNCHANGED <<nic, before, file, exists>>

\* A group that was saved is set back; a failed call goes unnoticed.
restore_nic_settings(saved) ==
    \/ nic' = IF saved[at] = None THEN nic ELSE [nic EXCEPT ![at] = saved[at]]
    \/ "ethtool" \in Faults /\ nic' = nic

\* recover_from_crash: restore what the file says ...
Recover ==
    /\ pc = "recover"
    /\ restore_nic_settings(file)
    /\ Continue("remove_stale")
    /\ UNCHANGED <<before, file, exists, state>>

\* ... and remove it, whether or not that worked.
RemoveStale ==
    /\ pc = "remove_stale"
    /\ file' = Nothing /\ exists' = "no"
    /\ pc' = "capture"
    /\ UNCHANGED <<nic, before, state, at>>

capture_nic_settings ==
    /\ pc = "capture"
    /\ \/ state' = [state EXCEPT ![at] = nic[at]]
       \/ "ethtool" \in Faults /\ state' = state
    /\ Continue("tune")
    /\ UNCHANGED <<nic, before, file, exists>>

apply_low_latency_nic ==
    /\ pc = "tune"
    /\ \/ nic' = [nic EXCEPT ![at] = Tuned]
       \/ "ethtool" \in Faults /\ nic' = nic
    /\ Continue("persist")
    /\ UNCHANGED <<before, file, exists, state>>

\* A temporary file, renamed into place.
persist_state ==
    /\ pc = "persist"
    /\ \/ file' = state /\ exists' = "yes"
       \/ "disk" \in Faults /\ UNCHANGED <<file, exists>>
    /\ pc' = "running"
    /\ UNCHANGED <<nic, before, state, at>>

-----------------------------------------------------------------------------
(* ecat_iface_state_revert *)

RevertSkipsOne ==
    /\ pc = "running"
    /\ pc' = "revert" /\ at' = 2
    /\ UNCHANGED <<nic, before, file, exists, state>>

Revert ==
    /\ pc = "running"
    /\ pc' = "revert" /\ at' = 1
    /\ UNCHANGED <<nic, before, file, exists, state>>

RevertGroup ==
    /\ pc = "revert"
    /\ restore_nic_settings(state)
    /\ Continue("remove")
    /\ UNCHANGED <<before, file, exists, state>>

\* The captured values are forgotten and the file is removed.
RevertDone ==
    /\ pc = "remove"
    /\ state' = Nothing
    /\ file' = Nothing /\ exists' = "no"
    /\ pc' = "idle"
    /\ UNCHANGED <<nic, before, at>>

-----------------------------------------------------------------------------
\* The process dies; what it had in memory is gone.
Crash ==
    /\ pc # "down"
    /\ pc \in {"tune", "persist"} => "early_crash" \in Faults
    /\ pc' = "down" /\ at' = 1
    /\ state' = Nothing
    /\ UNCHANGED <<nic, before, file, exists>>

Restart ==
    /\ pc = "down"
    /\ pc' = "idle"
    /\ UNCHANGED <<nic, before, file, exists, state, at>>

\* The administrator sets up the interface while no master uses it.
Administer(g, v) ==
    /\ pc \in {"idle", "down"} /\ exists = "no"
    /\ nic' = [nic EXCEPT ![g] = v]
    /\ before' = [before EXCEPT ![g] = v]
    /\ UNCHANGED <<file, exists, state, pc, at>>

Next ==
    \/ Apply \/ Recover \/ RemoveStale
    \/ capture_nic_settings \/ apply_low_latency_nic \/ persist_state
    \/ Revert \/ RevertGroup \/ RevertDone
    \/ Crash \/ Restart
    \/ \E g \in Groups, v \in Settings : Administer(g, v)

Spec == Init /\ [][Next]_vars

-----------------------------------------------------------------------------
(* The variables have their types; a group index never passes the last group. *)
TypeOK ==
    /\ nic \in [Groups -> Settings] /\ before \in [Groups -> Settings]
    /\ file \in [Groups -> Settings \cup {None}]
    /\ state \in [Groups -> Settings \cup {None}]
    /\ exists \in {"yes", "no"}
    /\ pc \in {"idle", "recover", "remove_stale", "capture", "tune", "persist", "running",
               "revert", "remove", "down"}
    /\ at \in Groups

(* iface_state.c:12-18: a shutdown, and the next start of a crashed process, restore the *)
(* settings that were in effect before the master was brought up.  So at any time, in     *)
(* particular right after a crash, a group that is not as it was before has its former    *)
(* value in memory or in the state file.                                                  *)
OriginalsKept ==
    \A g \in Groups : nic[g] # before[g] => before[g] \in {state[g], file[g]}

(* iface_state.c:367-371 captures only after a leftover file was rolled back: what is     *)
(* captured or written is what was there before, never the tuning of an earlier start     *)
(* (a later revert would make that permanent).                                            *)
SavedIsBefore ==
    \A g \in Groups : {state[g], file[g]} \subseteq {None, before[g]}

(* ecat_iface_state_revert gives the interface back as it was, over any number of starts, *)
(* stops and crashes: with no state file and nothing running it has its former settings.  *)
RestoredWhenDone ==
    pc \in {"idle", "down"} /\ exists = "no" => nic = before

=============================================================================
