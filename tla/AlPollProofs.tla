---------------------------- MODULE AlPollProofs ----------------------------
(***************************************************************************)
(* For any number of replies, the monitor never overlooks a fault of the AL   *)
(* status poll.                                                               *)
(***************************************************************************)
EXTENDS AlPoll, SequenceTheorems, TLAPS

(* The fault of a counted reply is counted already (the order of the two        *)
(* increments in collect_al_poll).                                             *)
FaultBeforeReply == \A k \in 1..al_replies : faultOf[k] <= al_faults

(* What the monitor has loaded: no more than there is, and in "decide" the       *)
(* faults of all the replies it saw (the order of the two loads).               *)
LoadedInOrder ==
    /\ mon.replies <= al_replies
    /\ mon.pc = "decide" => \A k \in 1..mon.replies : faultOf[k] <= mon.faults

(* The faults the monitor compares with are the ones it has judged.             *)
LastIsJudged == mon.pc # "start" => judged = mon.last_al_faults

IInv == TypeOK /\ FaultBeforeReply /\ LoadedInOrder /\ LastIsJudged

(* Init establishes the inductive invariant.                                    *)
LEMMA InitIInv == Init => IInv
  BY MaxRepliesAssumption, EmptySeq
     DEF Init, IInv, TypeOK, FaultBeforeReply, LoadedInOrder, LastIsJudged

(* Counting a reply (collect_al_poll's last line) appends to the history and     *)
(* keeps the invariant.                                                         *)
LEMMA CountReplyIInv == IInv /\ CountReply => IInv'
<1> SUFFICES ASSUME IInv, CountReply PROVE IInv'
  OBVIOUS
<1> USE MaxRepliesAssumption
<1> DEFINE f == IF bus = "counting" THEN al_faults ELSE 0
<1>1. f \in Nat /\ f <= al_faults
  BY DEF IInv, TypeOK
<1>2. /\ faultOf \in Seq(Nat) /\ Len(faultOf) = al_replies /\ al_replies \in Nat
      /\ faultOf' = Append(faultOf, f) /\ al_replies' = al_replies + 1
      /\ UNCHANGED <<al_faults, mon, slaves, slavelist, snapshot, judged>>
  BY DEF IInv, TypeOK, CountReply
<1> HIDE DEF f
<1>3. /\ faultOf' \in Seq(Nat) /\ Len(faultOf') = al_replies'
      /\ \A k \in 1..al_replies : faultOf'[k] = faultOf[k]
      /\ faultOf'[al_replies + 1] = f
  BY <1>1, <1>2, AppendProperties
<1>4. TypeOK'
  BY <1>2, <1>3 DEF IInv, TypeOK, CountReply
<1>5. FaultBeforeReply'
  <2> SUFFICES ASSUME NEW k \in 1..al_replies' PROVE faultOf'[k] <= al_faults'
    BY DEF FaultBeforeReply
  <2>1. k \in 1..al_replies \/ k = al_replies + 1
    BY <1>2
  <2> QED
    BY <2>1, <1>1, <1>2, <1>3 DEF IInv, FaultBeforeReply
<1>6. LoadedInOrder'
  <2>1. mon.replies <= al_replies /\ mon.replies \in Nat
    BY DEF IInv, TypeOK, LoadedInOrder
  <2> QED
    BY <2>1, <1>2, <1>3 DEF IInv, LoadedInOrder
<1>7. LastIsJudged'
  BY <1>2 DEF IInv, LastIsJudged
<1> QED
  BY <1>4, <1>5, <1>6, <1>7 DEF IInv

(* Every step of the two threads keeps the invariant.                            *)
LEMMA NextIInv == IInv /\ [Next]_vars => IInv'
<1> SUFFICES ASSUME IInv, [Next]_vars PROVE IInv'
  OBVIOUS
<1> USE MaxRepliesAssumption DEF IInv, TypeOK, FaultBeforeReply, LoadedInOrder, LastIsJudged
<1>1. CASE SlavesChange
  BY <1>1 DEF SlavesChange
<1>2. CASE CountFault
  <2>1. /\ al_faults' = al_faults + 1
        /\ UNCHANGED <<al_replies, mon, slaves, slavelist, snapshot, faultOf, judged>>
        /\ bus' = "counting"
    BY <1>2 DEF CountFault
  <2>2. \A k \in 1..al_replies : faultOf[k] \in Nat
    OBVIOUS
  <2>3. FaultBeforeReply'
    BY <2>1, <2>2
  <2> QED
    BY <2>1, <2>3
<1>3. CASE CountReply
  BY <1>3, CountReplyIInv
<1>4. CASE MonitorStart
  BY <1>4 DEF MonitorStart
<1>5. CASE LoadReplies
  <2>1. /\ mon' = [mon EXCEPT !.pc = "faults", !.replies = al_replies]
        /\ UNCHANGED <<al_replies, al_faults, bus, slaves, slavelist, snapshot, faultOf, judged>>
        /\ mon.pc = "top"
    BY <1>5 DEF LoadReplies
  <2>2. al_replies \in Nat
    OBVIOUS
  <2>3. mon' \in [pc : {"start", "top", "faults", "decide"}, replies : Nat, faults : Nat,
                  last_al_replies : Nat, last_al_faults : Nat]
    BY <2>1, <2>2
  <2>4. TypeOK'
    BY <2>1, <2>3
  <2>5. mon'.replies = al_replies /\ mon'.pc = "faults" /\ judged' = mon'.last_al_faults
    BY <2>1
  <2>6. FaultBeforeReply'
    BY <2>1
  <2>7. LoadedInOrder' /\ LastIsJudged'
    BY <2>1, <2>5
  <2> QED
    BY <2>4, <2>6, <2>7
<1>6. CASE LoadFaults
  <2>1. /\ mon' = [mon EXCEPT !.pc = "decide", !.faults = al_faults]
        /\ UNCHANGED <<al_replies, al_faults, bus, slaves, slavelist, snapshot, faultOf, judged>>
    BY <1>6 DEF LoadFaults
  <2>2. mon'.replies = mon.replies /\ mon'.faults = al_faults
    BY <2>1
  <2>3. \A k \in 1..mon.replies : faultOf[k] <= al_faults
    OBVIOUS
  <2>4. LoadedInOrder'
    BY <2>1, <2>2, <2>3
  <2>5. TypeOK' /\ FaultBeforeReply'
    BY <2>1
  <2>6. LastIsJudged'
    BY <1>6, <2>1 DEF LoadFaults
  <2> QED
    BY <2>4, <2>5, <2>6
<1>7. CASE Decide
  <2>1. /\ mon' = [mon EXCEPT !.pc = "top", !.last_al_replies = mon.replies,
                               !.last_al_faults = mon.faults]
        /\ judged' = IF Trusts THEN judged ELSE mon.faults
        /\ UNCHANGED <<al_replies, al_faults, bus, slaves, faultOf>>
        /\ {slavelist', snapshot'} \subseteq {"op", "down"}
        /\ mon.pc = "decide"
    BY <1>7 DEF Decide, DecideWith
  <2>2. judged' = mon.faults
    BY <2>1 DEF Trusts
  <2>3. TypeOK'
    BY <2>1, <2>2
  <2>4. FaultBeforeReply' /\ LoadedInOrder' /\ LastIsJudged'
    BY <2>1, <2>2
  <2> QED
    BY <2>3, <2>4
<1>8. CASE RecoveringPass
  BY <1>8 DEF RecoveringPass
<1>9. CASE UNCHANGED vars
  BY <1>9 DEF vars
<1> QED
  BY <1>1, <1>2, <1>3, <1>4, <1>5, <1>6, <1>7, <1>8, <1>9 DEF Next

(* In every behaviour of the two threads the invariant holds.                    *)
THEOREM IInvHolds == Spec => []IInv
  BY InitIInv, NextIInv, PTL DEF Spec

(* However the two threads interleave and however many replies there are, when   *)
(* the monitor marks the slaves OPERATIONAL on the poll's word (bus.c:429), each *)
(* unhealthy reply it counts as new had its fault judged before.                 *)
THEOREM NoFaultOverlookedHolds == Spec => []NoFaultOverlooked
<1>1. IInv => NoFaultOverlooked
  <2> SUFFICES ASSUME IInv, mon.pc = "decide", Trusts,
                      NEW k \in (mon.last_al_replies + 1)..mon.replies
               PROVE  faultOf[k] <= judged
    BY DEF NoFaultOverlooked
  <2>1. judged = mon.faults
    BY DEF IInv, LastIsJudged, Trusts
  <2>2. k \in 1..mon.replies
    BY DEF IInv, TypeOK
  <2> QED
    BY <2>1, <2>2 DEF IInv, LoadedInOrder
<1> QED
  BY <1>1, IInvHolds, PTL

=============================================================================
