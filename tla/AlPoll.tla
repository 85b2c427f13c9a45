------------------------------- MODULE AlPoll -------------------------------
(***************************************************************************)
(* The AL status poll of src/bus.c: the bus thread counts each reply with    *)
(* two separate atomic increments (collect_al_poll), the monitor thread       *)
(* loads the two counters one after the other and, when it finds new replies  *)
(* and no new fault, marks every slave OPERATIONAL without asking them.       *)
(*                                                                           *)
(* Whether the monitor pass runs in OPERATIONAL or RECOVERING is decided in    *)
(* module Recovery; here either may happen.  The slaves count as one: "op"     *)
(* when all of them are in OP, else "down".                                    *)
(***************************************************************************)
EXTENDS Naturals, Sequences

CONSTANT MaxReplies  \* bound: replies counted in a behaviour

ASSUME MaxRepliesAssumption == MaxReplies \in Nat

VARIABLES
    al_replies, al_faults,  \* atomic counters, written by the bus thread
    bus,        \* bus thread: "poll", or "counting" between the two increments
    mon,        \* monitor thread: [pc, replies, faults, last_al_replies, last_al_faults]
    slaves,     \* the slaves on the wire
    slavelist,  \* SOEM's copy of their states
    snapshot,   \* what status reports
    faultOf,    \* history: for each reply counted, the number of its fault, 0 if healthy
    judged      \* history: the newest fault that made the monitor read the slaves, or
                \* that was counted before the monitor ran

vars == <<al_replies, al_faults, bus, mon, slaves, slavelist, snapshot, faultOf, judged>>

\* start_single_master has reset the counters and created both threads.
Init ==
    /\ al_replies = 0 /\ al_faults = 0
    /\ bus = "poll"
    /\ mon = [pc |-> "start", replies |-> 0, faults |-> 0,
              last_al_replies |-> 0, last_al_faults |-> 0]
    /\ slaves = "op" /\ slavelist = "op" /\ snapshot = "op"
    /\ faultOf = <<>>
    /\ judged = 0

SlavesChange ==
    /\ slaves' = IF slaves = "op" THEN "down" ELSE "op"
    /\ UNCHANGED <<al_replies, al_faults, bus, mon, slavelist, snapshot, faultOf, judged>>

\* collect_al_poll, an unhealthy reply: the fault first, then the reply.  A missed
\* poll changes neither counter.
CountFault ==
    /\ bus = "poll"
    /\ al_replies < MaxReplies
    /\ slaves = "down"
    /\ al_faults' = al_faults + 1
    /\ bus' = "counting"
    /\ UNCHANGED <<al_replies, mon, slaves, slavelist, snapshot, faultOf, judged>>

\* The reply is counted: straight away when it is healthy, else after its fault.
CountReply ==
    /\ al_replies < MaxReplies
    /\ bus = "counting" \/ slaves = "op"
    /\ al_replies' = al_replies + 1
    /\ faultOf' = Append(faultOf, IF bus = "counting" THEN al_faults ELSE 0)
    /\ bus' = "poll"
    /\ UNCHANGED <<al_faults, mon, slaves, slavelist, snapshot, judged>>

-----------------------------------------------------------------------------
\* The monitor thread runs for the first time, perhaps long after it was created.
MonitorStart ==
    /\ mon.pc = "start"
    /\ mon' = [mon EXCEPT !.pc = "top", !.last_al_faults = al_faults]
    /\ judged' = al_faults
    /\ UNCHANGED <<al_replies, al_faults, bus, slaves, slavelist, snapshot, faultOf>>

\* A pass in OPERATIONAL: al_replies is loaded before al_faults.
LoadReplies ==
    /\ mon.pc = "top"
    /\ mon' = [mon EXCEPT !.pc = "faults", !.replies = al_replies]
    /\ UNCHANGED <<al_replies, al_faults, bus, slaves, slavelist, snapshot, faultOf, judged>>

LoadFaults ==
    /\ mon.pc = "faults"
    /\ mon' = [mon EXCEPT !.pc = "decide", !.faults = al_faults]
    /\ UNCHANGED <<al_replies, al_faults, bus, slaves, slavelist, snapshot, faultOf, judged>>

\* New replies and no new fault.
Trusts == mon.replies # mon.last_al_replies /\ mon.faults = mon.last_al_faults

\* ecat_master_mark_all_operational, or ecat_master_read_states; then the last values
\* are set and the snapshot is published.
DecideWith(replies, faults) ==
    /\ mon.pc = "decide"
    /\ slavelist' = IF Trusts THEN "op" ELSE slaves
    /\ snapshot' = slavelist'
    /\ mon' = [mon EXCEPT !.pc = "top", !.last_al_replies = replies,
                          !.last_al_faults = faults]
    /\ judged' = IF Trusts THEN judged ELSE mon.faults
    /\ UNCHANGED <<al_replies, al_faults, bus, slaves, faultOf>>

\* A slip in Decide: the last faults are loaded afresh instead of taken from the pass.
DecideReloads == DecideWith(mon.replies, al_faults)

\* The values the pass loaded become the last ones.
Decide == DecideWith(mon.replies, mon.faults)

\* A pass in RECOVERING reads the slaves and leaves the last values alone.
RecoveringPass ==
    /\ mon.pc = "top"
    /\ slavelist' = slaves
    /\ snapshot' = slavelist'
    /\ UNCHANGED <<al_replies, al_faults, bus, mon, slaves, faultOf, judged>>

-----------------------------------------------------------------------------
Next ==
    \/ SlavesChange
    \/ CountFault \/ CountReply
    \/ MonitorStart \/ LoadReplies \/ LoadFaults \/ Decide \/ RecoveringPass

Spec == Init /\ [][Next]_vars

-----------------------------------------------------------------------------
TypeOK ==
    /\ al_replies \in 0..MaxReplies
    /\ al_faults \in Nat
    /\ bus \in {"poll", "counting"}
    /\ mon \in [pc : {"start", "top", "faults", "decide"}, replies : Nat, faults : Nat,
                last_al_replies : Nat, last_al_faults : Nat]
    /\ {slaves, slavelist, snapshot} \subseteq {"op", "down"}
    /\ faultOf \in Seq(Nat)
    /\ Len(faultOf) = al_replies
    /\ judged \in Nat

(* The order of the two increments and of the two loads (bus.c:817 "Counted     *)
(* after faults: the monitor reads replies first"): when the monitor trusts the  *)
(* poll, every unhealthy reply among the new ones has a fault that already made  *)
(* an earlier pass read the slaves, or that was counted before the monitor ran.  *)
NoFaultOverlooked ==
    mon.pc = "decide" /\ Trusts =>
        \A k \in (mon.last_al_replies + 1)..mon.replies : faultOf[k] <= judged

=============================================================================
