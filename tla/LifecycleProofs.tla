-------------------------- MODULE LifecycleProofs --------------------------
(***************************************************************************)
(* For any number of masters, arrays and threads, and a client that sends stop   *)
(* before each start and configure: threads and resources have one owner, none   *)
(* is used after it is freed or left behind, and bus_state follows BusState.      *)
(***************************************************************************)
EXTENDS Lifecycle, FiniteSetTheorems, TLAPS

StartPcs == {"start", "scan", "map", "to_op", "monitor", "bus"}
StopPcs == {"stop", "shutdown", "join_bus", "stop_monitor", "join_monitor", "close"}

(* Where the control thread is at work on the current master.                          *)
Busy == {"scan", "map", "to_op", "monitor", "bus", "join_bus", "stop_monitor",
         "join_monitor", "close"}

Pcs == {"poll", "free", "exited"} \cup StartPcs \cup StopPcs
Ctl == [pc : Pcs, cmd : {"none", "start", "stop", "shutdown"}, i : 1..N]

ThreadTypes ==
    /\ bus_thread \in [Insts -> Threads \cup {NoThread}]
    /\ monitor_thread \in [Insts -> Threads \cup {NoThread}]
    /\ thr \in [Threads -> [kind : {"none", "bus", "monitor"}, of : Insts \cup {NoInst},
                            pc : {"none", "check", "work", "done"},
                            state : BusStates \cup {"none"}]]

Typed ==
    /\ g_masters \in 0..Arrays
    /\ heap \in [1..Arrays -> {"free", "live"}]
    /\ bus_state \in [Insts -> BusStates]
    /\ held \in [Insts -> SUBSET Resources]
    /\ ThreadTypes
    /\ ctl \in Ctl
    /\ last \in {"start", "stop"}

(* Where the control thread is, and which array is allocated.                          *)
CtlInv ==
    /\ ctl.pc \in StartPcs => ctl.cmd = "start" /\ last = "start" /\ g_masters # 0
    /\ ctl.pc \in StopPcs => ctl.cmd \in {"stop", "shutdown"} /\ g_masters # 0
    /\ \A g \in 1..Arrays : heap[g] = "live" <=> g = g_masters

Quiet(m) == bus_state[m] \in {"IDLE", "STOPPED"}

(* A master that is idle or stopped holds nothing.  Such are all others than the current  *)
(* ones, all after a stop, those a start has yet to come to and those a stop has been to. *)
QuietInv ==
    /\ lost = {}
    /\ \A m \in Insts : m \notin Masters => Quiet(m)
    /\ \A m \in Insts : Quiet(m) => held[m] = {} /\ (m = Current => ctl.pc \notin Busy)
    /\ last = "stop" \/ ctl.pc \in {"free", "exited"} => \A m \in Insts : Quiet(m)
    /\ ctl.pc \in StartPcs => \A m \in Masters :
           m[2] > ctl.i \/ (m[2] = ctl.i /\ ctl.pc = "start") => Quiet(m)
    /\ ctl.pc \in StopPcs => \A m \in Masters : m[2] < ctl.i => Quiet(m)

Opened == {"soem", "iface", "iomap", "snapshot"}
Mapped == Opened \cup {"layout", "buffers"}

Rising == {"SCANNING", "CONFIGURING", "TRANSITIONING"}

(* What goes with the place of the control thread: the state of the current master, and   *)
(* what it holds.                                                                     *)
PhaseAt(pc, state, holds) ==
    /\ pc = "scan" => state = "SCANNING" /\ holds = {}
    /\ pc = "map" => state = "CONFIGURING" /\ holds = Opened
    /\ pc = "to_op" => state = "TRANSITIONING" /\ holds = Mapped
    /\ pc = "monitor" => state = "OPERATIONAL" /\ holds = Mapped
    /\ pc = "bus" => state = "OPERATIONAL" /\ holds = Mapped \cup {"monitor_running"}
    /\ pc \in {"join_bus", "stop_monitor", "join_monitor", "close"} => "bus_running" \notin holds
    /\ pc \in {"join_monitor", "close"} => "monitor_running" \notin holds
    /\ state \in Rising => pc \in {"scan", "map", "to_op"}

PhaseInv ==
    /\ g_masters # 0 => PhaseAt(ctl.pc, bus_state[Current], held[Current])
    /\ \A m \in Insts : m # Current => bus_state[m] \notin Rising

Handle(kind, m) == IF kind = "bus" THEN bus_thread[m] ELSE monitor_thread[m]
JoinPc(kind) == IF kind = "bus" THEN "join_bus" ELSE "join_monitor"

(* A thread is the one its instance has the handle of, and has all that its work needs.  *)
(* Its flag is set, or the control thread waits for it.  The state a round of work has     *)
(* loaded is still there when the round may replace it.                                 *)
ThreadOk(t) ==
    LET kind == thr[t].kind
        m == thr[t].of
    IN  /\ kind \in {"bus", "monitor"} /\ m \in Insts /\ thr[t].pc # "none"
        /\ Handle(kind, m) = t
        /\ Mapped \subseteq held[m]
        /\ Flag(t) \in held[m] \/ (m = Current /\ ctl.pc = JoinPc(kind))
        /\ thr[t].pc = "work" /\ Outcomes(kind, thr[t].state) # {} =>
               bus_state[m] = thr[t].state

ThreadInv == \A t \in Threads : thr[t] = Unused \/ ThreadOk(t)

IInv == Typed /\ CtlInv /\ QuietInv /\ PhaseInv /\ ThreadInv

-----------------------------------------------------------------------------
(* Facts about a state that satisfies the invariant. *)

(* The current master is an instance, and the only one of the array with its index.        *)
LEMMA CurrentInst ==
    ASSUME Typed, g_masters # 0
    PROVE  /\ Current \in Insts /\ Current \in Masters
           /\ \A m \in Masters : m[2] = ctl.i => m = Current
BY LifecycleAssumptions DEF Typed, Ctl, Insts, Current, Masters

LEMMA InstIndex == \A m \in Insts : m[1] \in 1..Arrays /\ m[2] \in 1..N
BY DEF Insts

(* An instance with a thread is at work; it is not one the control thread opens or closes. *)
LEMMA ThreadFacts ==
    ASSUME IInv, NEW t \in Threads, thr[t] # Unused, NEW m, m = thr[t].of
    PROVE  /\ m \in Insts /\ m \in Masters /\ ~Quiet(m) /\ ThreadOk(t)
           /\ Mapped \subseteq held[m]
           /\ m = Current => ctl.pc \notin {"scan", "map", "to_op", "monitor", "close"}
           /\ m = Current /\ thr[t].kind = "bus" =>
                  ctl.pc \notin {"bus", "stop_monitor", "join_monitor"}
<1>1. ThreadOk(t)
  BY DEF IInv, ThreadInv
<1>2. m \in Insts /\ Mapped \subseteq held[m] /\ thr[t].kind \in {"bus", "monitor"}
  BY <1>1 DEF ThreadOk
<1>3. "soem" \in held[m] /\ "layout" \in held[m]
  BY <1>2 DEF Mapped, Opened
<1>4. ~Quiet(m) /\ m \in Masters
  BY <1>2, <1>3 DEF IInv, QuietInv
<1>5. Flag(t) \in held[m] \/ (m = Current /\ ctl.pc = JoinPc(thr[t].kind))
  BY <1>1 DEF ThreadOk
<1>6. ASSUME m = Current
      PROVE  /\ ctl.pc \notin {"scan", "map", "to_op", "monitor", "close"}
             /\ thr[t].kind = "bus" => ctl.pc \notin {"bus", "stop_monitor", "join_monitor"}
  <2>0. PhaseAt(ctl.pc, bus_state[m], held[m])
    <3>1. g_masters # 0
      BY <1>4, InstIndex DEF Masters
    <3> QED
      BY <1>6, <3>1 DEF IInv, PhaseInv
  <2>1. ctl.pc \notin {"scan", "map"}
    BY <1>3, <2>0 DEF PhaseAt, Opened
  <2>2. ctl.pc \notin {"to_op", "monitor", "close"}
    BY <1>2, <1>5, <2>0 DEF PhaseAt, Mapped, Opened, Flag, JoinPc
  <2>3. thr[t].kind = "bus" => ctl.pc \notin {"bus", "stop_monitor", "join_monitor"}
    BY <1>2, <1>5, <2>0 DEF PhaseAt, Mapped, Opened, Flag, JoinPc
  <2> QED
    BY <2>1, <2>2, <2>3
<1> QED
  BY <1>1, <1>2, <1>4, <1>6

(* Steps that leave the threads alone.                                                 *)
LEMMA ThreadsKept ==
    ASSUME IInv, UNCHANGED <<thr, bus_thread, monitor_thread>>,
           \A t \in Threads : thr[t] # Unused =>
               /\ Mapped \subseteq held'[thr[t].of]
               /\ Flag(t) \in held'[thr[t].of] \/
                      (thr[t].of = Current' /\ ctl'.pc = JoinPc(thr[t].kind))
               /\ thr[t].pc = "work" /\ Outcomes(thr[t].kind, thr[t].state) # {} =>
                      bus_state'[thr[t].of] = bus_state[thr[t].of]
    PROVE  ThreadInv'
<1> SUFFICES ASSUME NEW t \in Threads, thr[t] # Unused PROVE ThreadOk(t)'
  BY DEF ThreadInv
<1>1. ThreadOk(t)
  BY DEF IInv, ThreadInv
<1>2. Flag(t)' = Flag(t) /\ Handle(thr[t].kind, thr[t].of)' = Handle(thr[t].kind, thr[t].of)
  BY DEF Flag, Handle
<1> QED
  BY <1>1, <1>2 DEF ThreadOk

LEMMA InitIInv == Init => IInv
<1> SUFFICES ASSUME Init PROVE IInv
  OBVIOUS
<1>1. Typed
  BY LifecycleAssumptions DEF Init, Typed, ThreadTypes, BusStates, Unused, Ctl, Pcs
<1>2. CtlInv
  BY LifecycleAssumptions DEF Init, CtlInv, StartPcs, StopPcs
<1>3. QuietInv /\ PhaseInv
  BY DEF Init, QuietInv, PhaseInv, Rising, Quiet, StartPcs, StopPcs, Busy
<1> QED
  BY <1>1, <1>2, <1>3 DEF IInv, ThreadInv, Init

(* The control thread after a step to the next master.                                  *)
LEMMA NextMasterIs ==
    ASSUME ctl \in Ctl, ctl.cmd \in {"start", "stop", "shutdown"},
           NEW after \in {"poll", "free"}, NextMaster(after)
    PROVE  /\ ctl' \in Ctl
           /\ \/ ctl.i < N /\ ctl'.pc = ctl.cmd /\ ctl'.cmd = ctl.cmd /\ ctl'.i = ctl.i + 1
              \/ ctl.i = N /\ ctl'.pc = after
<1>1. CASE ctl.i < N
  <2>1. ctl' = [ctl EXCEPT !.pc = ctl.cmd, !.i = ctl.i + 1]
    BY <1>1 DEF NextMaster
  <2>2. ctl.i + 1 \in 1..N /\ ctl.cmd \in Pcs
    BY <1>1, LifecycleAssumptions DEF Ctl, Pcs, StartPcs, StopPcs
  <2> QED
    BY <1>1, <2>1, <2>2 DEF Ctl
<1>2. CASE ~(ctl.i < N)
  <2>1. ctl' = [pc |-> after, cmd |-> IF after = "poll" THEN "none" ELSE ctl.cmd, i |-> 1]
    BY <1>2 DEF NextMaster
  <2>2. 1 \in 1..N /\ ctl.i = N /\ after \in Pcs
    BY <1>2, LifecycleAssumptions DEF Ctl, Pcs
  <2> QED
    BY <2>1, <2>2 DEF Ctl
<1> QED
  BY <1>1, <1>2

-----------------------------------------------------------------------------
(* The steps of a command on the current master. *)

(* A step that leaves the control thread at work on the current master.                  *)
LEMMA StayKeeps ==
    ASSUME IInv, ctl.pc \in StartPcs \/ (ctl.pc \in StopPcs /\ ~Quiet(Current)),
           NEW state \in BusStates, state \notin {"IDLE", "STOPPED"},
           NEW holds \in SUBSET Resources,
           NEW pc \in Busy, pc \in StartPcs <=> ctl.pc \in StartPcs,
           bus_state' = [bus_state EXCEPT ![Current] = state],
           held' = [held EXCEPT ![Current] = holds],
           ctl' = [ctl EXCEPT !.pc = pc],
           PhaseAt(pc, state, holds), ThreadTypes', ThreadInv',
           UNCHANGED <<g_masters, heap, last, lost>>
    PROVE  IInv'
<1>1. PICK c \in Insts : c = Current /\ c \in Masters
  BY CurrentInst DEF IInv, CtlInv
<1>2. /\ ctl' \in Ctl /\ ctl'.pc = pc /\ ctl'.cmd = ctl.cmd /\ ctl'.i = ctl.i
      /\ Current' = c
      /\ g_masters # 0
  BY <1>1 DEF IInv, Typed, Ctl, Pcs, Busy, StartPcs, StopPcs, Current, CtlInv
<1>3. /\ bus_state'[c] = state /\ held'[c] = holds
      /\ \A m \in Insts : m # c => bus_state'[m] = bus_state[m] /\ held'[m] = held[m]
      /\ bus_state' \in [Insts -> BusStates] /\ held' \in [Insts -> SUBSET Resources]
  BY <1>1 DEF IInv, Typed
<1>4. Typed'
  BY <1>2, <1>3 DEF IInv, Typed
<1>5. CtlInv'
  BY <1>2 DEF IInv, CtlInv, StartPcs, StopPcs, Busy
<1>6. ~Quiet(c)' /\ \A m \in Insts : m # c => Quiet(m)' = Quiet(m)
  BY <1>3 DEF Quiet
<1>7. last # "stop"
  BY <1>1 DEF IInv, CtlInv, QuietInv
<1>8. QuietInv'
  <2>1. Masters' = Masters
    BY DEF Masters
  <2>2. \A m \in Insts : m \notin Masters => Quiet(m)'
    BY <1>1, <1>6 DEF IInv, QuietInv
  <2>3. \A m \in Insts : Quiet(m)' => held'[m] = {} /\ m # c
    BY <1>3, <1>6 DEF IInv, QuietInv
  <2>4. pc \in StartPcs => \A m \in Masters : m[2] > ctl.i => Quiet(m)'
    <3>1. c[2] = ctl.i
      BY <1>1 DEF Current
    <3>2. \A m \in Masters : m[2] > ctl.i => m # c
      BY <3>1, InstIndex, <1>1 DEF Masters
    <3> QED
      BY <1>6, <3>2 DEF IInv, QuietInv, Masters
  <2>5. pc \in StopPcs => \A m \in Masters : m[2] < ctl.i => Quiet(m)'
    <3>1. c[2] = ctl.i
      BY <1>1 DEF Current
    <3>2. \A m \in Masters : m[2] < ctl.i => m # c
      BY <3>1, InstIndex, <1>1 DEF Masters
    <3>3. pc \in StopPcs => ctl.pc \in StopPcs
      BY DEF StartPcs, StopPcs
    <3> QED
      BY <1>6, <3>2, <3>3 DEF IInv, QuietInv, Masters
  <2>6. pc # "start" /\ pc \notin {"free", "exited"}
    BY DEF Busy
  <2>7. lost' = {}
    BY DEF IInv, QuietInv
  <2> QED
    BY <1>2, <1>7, <2>1, <2>2, <2>3, <2>4, <2>5, <2>6, <2>7 DEF QuietInv
<1>9. PhaseInv'
  <2>1. \A m \in Insts : m # c => bus_state'[m] \notin Rising
    BY <1>1, <1>3 DEF IInv, PhaseInv
  <2> QED
    BY <1>2, <1>3, <2>1 DEF PhaseInv
<1> QED
  BY <1>4, <1>5, <1>8, <1>9 DEF IInv

(* A step with which the control thread is done with the current master.                 *)
LEMMA MoveKeeps ==
    ASSUME IInv, ctl.pc \in StartPcs \cup StopPcs,
           NEW state \in BusStates \ Rising,
           NEW holds \in SUBSET Resources,
           state \in {"IDLE", "STOPPED"} => holds = {},
           ctl.pc \in StopPcs => state \in {"IDLE", "STOPPED"},
           bus_state' = [bus_state EXCEPT ![Current] = state],
           held' = [held EXCEPT ![Current] = holds],
           NextMaster(IF ctl.pc \in StartPcs THEN "poll" ELSE AfterStop),
           last' = IF ctl.pc \in StopPcs /\ ctl.i = N THEN "stop" ELSE last,
           ThreadTypes', ThreadInv',
           UNCHANGED <<g_masters, heap, lost>>
    PROVE  IInv'
<1>1. PICK c \in Insts : c = Current /\ c \in Masters
  BY CurrentInst DEF IInv, CtlInv
<1>2. PICK after \in {"poll", "free"} :
          after = IF ctl.pc \in StartPcs THEN "poll" ELSE AfterStop
  BY DEF AfterStop
<1>3. /\ ctl \in Ctl /\ g_masters # 0
      /\ ctl.cmd = "start" <=> ctl.pc \in StartPcs
      /\ ctl.cmd \in {"start", "stop", "shutdown"}
      /\ after = "free" => ctl.pc \in StopPcs
  BY <1>2 DEF IInv, Typed, CtlInv, StartPcs, StopPcs
<1>4. /\ ctl' \in Ctl
      /\ \/ ctl.i < N /\ ctl'.pc = ctl.cmd /\ ctl'.cmd = ctl.cmd /\ ctl'.i = ctl.i + 1
         \/ ctl.i = N /\ ctl'.pc = after
  BY <1>2, <1>3, NextMasterIs
<1>5. /\ bus_state'[c] = state /\ held'[c] = holds
      /\ \A m \in Insts : m # c => bus_state'[m] = bus_state[m] /\ held'[m] = held[m]
      /\ bus_state' \in [Insts -> BusStates] /\ held' \in [Insts -> SUBSET Resources]
  BY <1>1 DEF IInv, Typed
<1>6. Typed'
  BY <1>4, <1>5 DEF IInv, Typed
<1>7. CtlInv'
  BY <1>3, <1>4 DEF IInv, CtlInv, StartPcs, StopPcs
<1>8. /\ Quiet(c)' <=> state \in {"IDLE", "STOPPED"}
      /\ \A m \in Insts : m # c => Quiet(m)' = Quiet(m)
  BY <1>5 DEF Quiet
<1>9. ctl'.pc \notin Busy
  BY <1>3, <1>4 DEF Busy
<1>10. c[2] = ctl.i /\ \A m \in Masters : m[2] = ctl.i => m = c
  BY <1>1, <1>3, CurrentInst DEF Current, IInv
<1>11. \A m \in Masters : m \in Insts /\ m[2] \in 1..N
  BY InstIndex DEF Masters
<1>12. QuietInv'
  <2>1. Masters' = Masters
    BY DEF Masters
  <2>2. \A m \in Insts : m \notin Masters => Quiet(m)'
    BY <1>1, <1>8 DEF IInv, QuietInv
  <2>3. \A m \in Insts : Quiet(m)' => held'[m] = {}
    BY <1>5, <1>8 DEF IInv, QuietInv
  <2>4. ctl.pc \in StopPcs /\ ctl.i = N => \A m \in Insts : Quiet(m)'
    <3> SUFFICES ASSUME ctl.pc \in StopPcs, ctl.i = N, NEW m \in Masters PROVE Quiet(m)'
      BY <2>2
    <3>1. m[2] < ctl.i \/ m = c
      BY <1>10, <1>11, LifecycleAssumptions
    <3> QED
      BY <1>8, <1>11, <3>1 DEF IInv, QuietInv
  <2>5. last = "stop" => \A m \in Insts : Quiet(m)'
    BY <1>8 DEF IInv, QuietInv, CtlInv
  <2>6. ctl'.pc \in {"free", "exited"} => ctl.pc \in StopPcs /\ ctl.i = N
    BY <1>3, <1>4
  <2>7. ctl'.pc \in StartPcs => /\ ctl.pc \in StartPcs /\ ctl'.i = ctl.i + 1
                                /\ ctl.i \in Nat
    BY <1>3, <1>4 DEF StartPcs, Ctl
  <2>8. ctl'.pc \in StartPcs => \A m \in Masters : m[2] >= ctl'.i => Quiet(m)'
    <3> SUFFICES ASSUME ctl'.pc \in StartPcs, NEW m \in Masters, m[2] >= ctl'.i PROVE Quiet(m)'
      OBVIOUS
    <3>1. m[2] > ctl.i /\ m # c
      BY <1>10, <1>11, <2>7
    <3> QED
      BY <1>8, <1>11, <2>7, <3>1 DEF IInv, QuietInv
  <2>9. ctl'.pc \in StopPcs => /\ ctl.pc \in StopPcs /\ ctl'.i = ctl.i + 1
                               /\ ctl.i \in Nat
    BY <1>3, <1>4 DEF StopPcs, Ctl
  <2>10. ctl'.pc \in StopPcs => \A m \in Masters : m[2] < ctl'.i => Quiet(m)'
    <3> SUFFICES ASSUME ctl'.pc \in StopPcs, NEW m \in Masters, m[2] < ctl'.i PROVE Quiet(m)'
      OBVIOUS
    <3>1. m[2] < ctl.i \/ m = c
      BY <1>10, <1>11, <2>9
    <3> QED
      BY <1>8, <1>11, <2>9, <3>1 DEF IInv, QuietInv
  <2>11. lost' = {}
    BY DEF IInv, QuietInv
  <2>12. \A m \in Masters : m[2] > ctl'.i \/ m[2] = ctl'.i => m[2] >= ctl'.i
    BY <1>4, <1>11 DEF Ctl
  <2> QED
    BY <1>9, <2>1, <2>2, <2>3, <2>4, <2>5, <2>6, <2>8, <2>10, <2>11, <2>12 DEF QuietInv
<1>13. PhaseInv'
  <2>1. \A m \in Insts : bus_state'[m] \notin Rising
    BY <1>1, <1>5 DEF IInv, PhaseInv
  <2>2. Current' \in Insts
    BY <1>3, <1>6, CurrentInst DEF Current, Insts, Typed, Ctl
  <2>3. PhaseAt(ctl'.pc, bus_state'[Current'], held'[Current'])
    BY <1>9, <2>1, <2>2 DEF PhaseAt, Busy
  <2> QED
    BY <2>1, <2>3 DEF PhaseInv
<1> QED
  BY <1>6, <1>7, <1>12, <1>13 DEF IInv


(* A step on a master that has no threads.                                             *)
LEMMA AwayKept ==
    ASSUME IInv, ctl.pc \in StartPcs \cup StopPcs,
           \A t \in Threads : thr[t] # Unused => thr[t].of # Current,
           NEW state, NEW holds,
           bus_state' = [bus_state EXCEPT ![Current] = state],
           held' = [held EXCEPT ![Current] = holds],
           UNCHANGED <<thr, bus_thread, monitor_thread>>
    PROVE  ThreadTypes' /\ ThreadInv'
<1>1. \A m \in Insts : m # Current => bus_state'[m] = bus_state[m] /\ held'[m] = held[m]
  BY DEF IInv, Typed
<1>2. ASSUME NEW t \in Threads, thr[t] # Unused
      PROVE  /\ thr[t].of \in Insts /\ thr[t].of # Current
             /\ Mapped \subseteq held[thr[t].of] /\ Flag(t) \in held[thr[t].of]
  BY <1>2, ThreadFacts DEF ThreadOk
<1>3. ThreadInv'
  BY <1>1, <1>2, ThreadsKept
<1> QED
  BY <1>3 DEF IInv, Typed, ThreadTypes

LEMMA SkipMasterIInv == IInv /\ SkipMaster => IInv'
<1> SUFFICES ASSUME IInv, SkipMaster PROVE IInv'
  OBVIOUS
<1>1. /\ ctl.pc = "start" /\ ctl.pc \in StartPcs /\ ctl.pc \notin StopPcs
      /\ NextMaster("poll")
      /\ UNCHANGED <<g_masters, heap, bus_state, held, bus_thread, monitor_thread, thr, last, lost>>
  BY DEF SkipMaster, StartPcs, StopPcs
<1>2. PICK c \in Insts : c = Current
  BY <1>1, CurrentInst DEF IInv, CtlInv
<1>3. /\ bus_state[c] \in BusStates \ Rising /\ held[c] \in SUBSET Resources
      /\ bus_state[c] \in {"IDLE", "STOPPED"} => held[c] = {}
  BY <1>1, <1>2 DEF IInv, Typed, CtlInv, PhaseInv, PhaseAt, QuietInv, Quiet
<1>4. /\ bus_state' = [bus_state EXCEPT ![Current] = bus_state[c]]
      /\ held' = [held EXCEPT ![Current] = held[c]]
  BY <1>1, <1>2 DEF IInv, Typed
<1>5. ThreadInv'
  <2>1. ASSUME NEW t \in Threads, thr[t] # Unused
        PROVE  Mapped \subseteq held[thr[t].of] /\ Flag(t) \in held[thr[t].of]
    BY <1>1, <2>1, ThreadFacts DEF ThreadOk, JoinPc
  <2> QED
    BY <1>1, <2>1, ThreadsKept
<1>6. ThreadTypes'
  BY <1>1 DEF IInv, Typed, ThreadTypes
<1> QED
  BY <1>1, <1>3, <1>4, <1>5, <1>6, MoveKeeps

LEMMA StartMasterIInv == IInv /\ StartMaster => IInv'
<1> SUFFICES ASSUME IInv, StartMaster PROVE IInv'
  OBVIOUS
<1>1. ctl.pc = "start" /\ ctl.pc \in StartPcs
  BY DEF StartMaster, StartPcs
<1>2. PICK c \in Insts : c = Current /\ c \in Masters /\ c[2] = ctl.i
  BY <1>1, CurrentInst DEF IInv, CtlInv, Current
<1>3. Quiet(c) /\ held[c] = {}
  BY <1>1, <1>2 DEF IInv, QuietInv
<1>4. \A t \in Threads : thr[t] # Unused => thr[t].of # Current
  BY <1>2, <1>3, ThreadFacts
<1>5. /\ bus_state' = [bus_state EXCEPT ![Current] = "SCANNING"]
      /\ held' = [held EXCEPT ![Current] = {}]
      /\ lost' = lost
      /\ ctl' = [ctl EXCEPT !.pc = "scan"]
      /\ UNCHANGED <<g_masters, heap, bus_thread, monitor_thread, thr, last>>
  BY <1>2, <1>3 DEF StartMaster
<1>6. /\ "SCANNING" \in BusStates /\ {} \in SUBSET Resources /\ "scan" \in Busy
      /\ "scan" \in StartPcs /\ PhaseAt("scan", "SCANNING", {})
  BY DEF BusStates, Busy, StartPcs, PhaseAt
<1>7. ThreadTypes' /\ ThreadInv'
  BY <1>1, <1>4, <1>5, AwayKept
<1> QED
  BY <1>1, <1>5, <1>6, <1>7, StayKeeps

(* The phases of a start up to the creation of the threads.                              *)
LEMMA PhaseDoneIInv == IInv /\ (ScanDone \/ MapDone \/ ToOpDone) => IInv'
<1>1. ASSUME IInv, NEW phase \in {"scan", "map", "to_op"},
             NEW state \in BusStates, state \notin {"IDLE", "STOPPED"}, NEW got,
             NEW pc \in Busy \cap StartPcs,
             PhaseDone(phase, state, got, pc),
             held[Current] \cup got \in SUBSET Resources,
             PhaseAt(pc, state, held[Current] \cup got)
      PROVE  IInv'
  <2>1. /\ ctl.pc \in StartPcs
        /\ bus_state' = [bus_state EXCEPT ![Current] = state]
        /\ held' = [held EXCEPT ![Current] = held[Current] \cup got]
        /\ ctl' = [ctl EXCEPT !.pc = pc]
        /\ UNCHANGED <<g_masters, heap, bus_thread, monitor_thread, thr, last, lost>>
    BY <1>1 DEF PhaseDone, StartPcs
  <2>2. \A t \in Threads : thr[t] # Unused => thr[t].of # Current
    BY <1>1, ThreadFacts DEF PhaseDone
  <2>3. PICK holds \in SUBSET Resources : holds = held[Current] \cup got
    BY <1>1
  <2>4. ThreadTypes' /\ ThreadInv'
    BY <1>1, <2>1, <2>2, AwayKept
  <2> QED
    BY <1>1, <2>1, <2>3, <2>4, StayKeeps
<1>2. ASSUME IInv, ctl.pc \in {"scan", "map", "to_op"}
      PROVE  g_masters # 0 /\ PhaseAt(ctl.pc, bus_state[Current], held[Current])
  BY <1>2 DEF IInv, CtlInv, PhaseInv, StartPcs
<1>3. ASSUME IInv, ScanDone PROVE IInv'
  <2>1. held[Current] \cup {"soem", "iface", "iomap", "snapshot"} = Opened
    BY <1>2, <1>3 DEF ScanDone, PhaseDone, PhaseAt, Opened
  <2>2. /\ Opened \in SUBSET Resources /\ PhaseAt("map", "CONFIGURING", Opened)
        /\ "CONFIGURING" \in BusStates /\ "map" \in Busy \cap StartPcs
    BY DEF Opened, Resources, PhaseAt, BusStates, Busy, StartPcs
  <2> QED
    BY <1>1, <1>3, <2>1, <2>2 DEF ScanDone
<1>4. ASSUME IInv, MapDone PROVE IInv'
  <2>1. held[Current] \cup {"layout", "buffers"} = Mapped
    BY <1>2, <1>4 DEF MapDone, PhaseDone, PhaseAt, Mapped
  <2>2. /\ Mapped \in SUBSET Resources /\ PhaseAt("to_op", "TRANSITIONING", Mapped)
        /\ "TRANSITIONING" \in BusStates /\ "to_op" \in Busy \cap StartPcs
    BY DEF Mapped, Opened, Resources, PhaseAt, BusStates, Busy, StartPcs
  <2> QED
    BY <1>1, <1>4, <2>1, <2>2 DEF MapDone
<1>5. ASSUME IInv, ToOpDone PROVE IInv'
  <2>1. held[Current] \cup {} = Mapped
    BY <1>2, <1>5 DEF ToOpDone, PhaseDone, PhaseAt
  <2>2. /\ Mapped \in SUBSET Resources /\ PhaseAt("monitor", "OPERATIONAL", Mapped)
        /\ "OPERATIONAL" \in BusStates /\ "monitor" \in Busy \cap StartPcs
    BY DEF Mapped, Opened, Resources, PhaseAt, Rising, BusStates, Busy, StartPcs
  <2> QED
    BY <1>1, <1>5, <2>1, <2>2 DEF ToOpDone
<1> QED
  BY <1>3, <1>4, <1>5

LEMMA PhaseFailedIInv ==
    ASSUME IInv, NEW phase \in {"scan", "map", "to_op"}, NEW dropped, PhaseFailed(phase, dropped)
    PROVE  IInv'
<1>1. PICK holds : holds = Closed(held[Current]) \ dropped
  OBVIOUS
<1>2. /\ ctl.pc \in StartPcs /\ ctl.pc \notin StopPcs
      /\ bus_state' = [bus_state EXCEPT ![Current] = "ERROR"]
      /\ held' = [held EXCEPT ![Current] = holds]
      /\ NextMaster("poll")
      /\ UNCHANGED <<g_masters, heap, bus_thread, monitor_thread, thr, last, lost>>
  BY <1>1 DEF PhaseFailed, StartPcs, StopPcs
<1>3. Current \in Insts
  BY <1>2, CurrentInst DEF IInv, CtlInv
<1>4. holds \in SUBSET Resources /\ "ERROR" \in BusStates \ Rising
  BY <1>1, <1>3 DEF IInv, Typed, Closed, BusStates, Rising
<1>5. \A t \in Threads : thr[t] # Unused => thr[t].of # Current
  BY ThreadFacts DEF PhaseFailed
<1>6. ThreadTypes' /\ ThreadInv'
  BY <1>2, <1>5, AwayKept
<1> QED
  BY <1>2, <1>4, <1>6, MoveKeeps

(* What a round of work may replace.                                                  *)
LEMMA OutcomesAre ==
    ASSUME NEW kind \in {"bus", "monitor"}, NEW state, Outcomes(kind, state) # {}
    PROVE  state = IF kind = "bus" THEN "OPERATIONAL" ELSE "RECOVERING"
BY DEF Outcomes

LEMMA CreateFailedIInv == IInv /\ CreateFailed => IInv'
<1> SUFFICES ASSUME IInv, CreateFailed PROVE IInv'
  OBVIOUS
<1>1. ctl.pc \in {"monitor", "bus"} /\ ctl.pc \in StartPcs /\ ctl.pc \notin StopPcs
  BY DEF CreateFailed, StartPcs, StopPcs
<1>2. PICK c \in Insts : c = Current
  BY <1>1, CurrentInst DEF IInv, CtlInv
<1>3. PICK holds : holds = held[c] \ {IF ctl.pc = "bus" THEN "bus_running" ELSE "monitor_running"}
  OBVIOUS
<1>4. /\ bus_state' = [bus_state EXCEPT ![Current] = "ERROR"]
      /\ held' = [held EXCEPT ![Current] = holds]
      /\ NextMaster("poll")
      /\ UNCHANGED <<g_masters, heap, bus_thread, monitor_thread, thr, last, lost>>
  BY <1>2, <1>3 DEF CreateFailed
<1>5. holds \in SUBSET Resources /\ "ERROR" \in BusStates \ Rising
  BY <1>2, <1>3 DEF IInv, Typed, BusStates, Rising
<1>6. ThreadInv'
  <2>1. ASSUME NEW t \in Threads, thr[t] # Unused, NEW m, m = thr[t].of
        PROVE  /\ m \in Insts /\ Mapped \subseteq held[m] /\ Flag(t) \in held[m]
               /\ m = c => /\ ctl.pc = "bus" /\ thr[t].kind = "monitor"
                           /\ bus_state[c] = "OPERATIONAL"
               /\ thr[t].pc = "work" /\ Outcomes(thr[t].kind, thr[t].state) # {} => m # c
    <3>1. /\ m \in Insts /\ Mapped \subseteq held[m] /\ thr[t].kind \in {"bus", "monitor"}
          /\ ThreadOk(t)
          /\ m = c => ctl.pc = "bus" /\ thr[t].kind # "bus"
      BY <1>1, <1>2, <2>1, ThreadFacts DEF ThreadOk
    <3>2. Flag(t) \in held[m]
      BY <1>1, <2>1, <3>1 DEF ThreadOk, JoinPc
    <3>3. ctl.pc = "bus" => bus_state[c] = "OPERATIONAL"
      BY <1>1, <1>2 DEF IInv, CtlInv, PhaseInv, PhaseAt
    <3>4. ASSUME thr[t].pc = "work", Outcomes(thr[t].kind, thr[t].state) # {} PROVE m # c
      BY <2>1, <3>1, <3>3, <3>4, OutcomesAre DEF ThreadOk
    <3> QED
      BY <3>1, <3>2, <3>3, <3>4
  <2>2. /\ held'[c] = holds
        /\ \A m \in Insts : m # c => bus_state'[m] = bus_state[m] /\ held'[m] = held[m]
    BY <1>2, <1>4 DEF IInv, Typed
  <2>3. ASSUME NEW t \in Threads, thr[t] # Unused
        PROVE  Mapped \subseteq held'[thr[t].of] /\ Flag(t) \in held'[thr[t].of]
    <3>1. CASE thr[t].of = c
      <4>1. Mapped \subseteq held[c] /\ "monitor_running" \in held[c] /\ ctl.pc = "bus"
            /\ Flag(t) = "monitor_running"
        BY <2>1, <2>3, <3>1 DEF Flag
      <4> QED
        BY <1>3, <2>2, <3>1, <4>1 DEF Mapped, Opened
    <3>2. CASE thr[t].of # c
      BY <2>1, <2>2, <2>3, <3>2
    <3> QED
      BY <3>1, <3>2
  <2> QED
    BY <1>4, <2>1, <2>2, <2>3, ThreadsKept
<1>7. ThreadTypes'
  BY <1>4 DEF IInv, Typed, ThreadTypes
<1> QED
  BY <1>1, <1>4, <1>5, <1>6, <1>7, MoveKeeps

(* A new thread joins the others.                                                     *)
LEMMA SpawnKept ==
    ASSUME IInv, NEW t \in Threads, thr[t] = Unused, NEW kind \in {"bus", "monitor"},
           NEW c \in Insts, c = Current,
           ctl.pc = kind,
           thr' = Spawned(t, kind),
           UNCHANGED bus_state,
           held' = [held EXCEPT ![c] = held[c] \cup
                        {IF kind = "bus" THEN "bus_running" ELSE "monitor_running"}],
           bus_thread' = IF kind = "bus" THEN [bus_thread EXCEPT ![c] = t] ELSE bus_thread,
           monitor_thread' = IF kind = "bus" THEN monitor_thread
                             ELSE [monitor_thread EXCEPT ![c] = t]
    PROVE  ThreadTypes' /\ ThreadInv'
<1>1. /\ thr'[t] = [kind |-> kind, of |-> c, pc |-> "check", state |-> "none"]
      /\ \A u \in Threads : u # t => thr'[u] = thr[u]
      /\ thr' = [thr EXCEPT ![t] = [kind |-> kind, of |-> c, pc |-> "check", state |-> "none"]]
  BY DEF IInv, Typed, ThreadTypes, Spawned
<1>2. ThreadTypes'
  <2>1. [kind |-> kind, of |-> c, pc |-> "check", state |-> "none"]
            \in [kind : {"none", "bus", "monitor"}, of : Insts \cup {NoInst},
                 pc : {"none", "check", "work", "done"}, state : BusStates \cup {"none"}]
    OBVIOUS
  <2> QED
    BY <1>1, <2>1 DEF IInv, Typed, ThreadTypes
<1>3. /\ held'[c] = held[c] \cup {IF kind = "bus" THEN "bus_running" ELSE "monitor_running"}
      /\ \A m \in Insts : m # c => held'[m] = held[m]
      /\ \A m \in Insts : held[m] \subseteq held'[m]
  BY DEF IInv, Typed
<1>4. Mapped \subseteq held[c]
  BY DEF IInv, CtlInv, PhaseInv, PhaseAt, StartPcs
<1>5. ThreadOk(t)'
  <2>1. Handle(kind, c)' = t
    BY DEF Handle, IInv, Typed, ThreadTypes
  <2>2. Flag(t)' \in held'[c]
    BY <1>1, <1>3 DEF Flag
  <2>3. Mapped \subseteq held'[c]
    BY <1>3, <1>4
  <2> QED
    BY <1>1, <2>1, <2>2, <2>3 DEF ThreadOk
<1>6. ASSUME NEW u \in Threads, u # t, thr[u] # Unused PROVE ThreadOk(u)'
  <2>1. /\ thr'[u] = thr[u] /\ ThreadOk(u) /\ thr[u].of \in Insts
        /\ thr[u].kind \in {"bus", "monitor"} /\ Mapped \subseteq held[thr[u].of]
        /\ thr[u].of = c => thr[u].kind # kind
    BY <1>1, <1>6, ThreadFacts DEF ThreadOk
  <2>2. Flag(u)' = Flag(u) /\ Flag(u) \in held[thr[u].of]
    BY <2>1 DEF Flag, ThreadOk, JoinPc
  <2>3. Handle(thr[u].kind, thr[u].of)' = Handle(thr[u].kind, thr[u].of)
    BY <2>1 DEF Handle, IInv, Typed, ThreadTypes
  <2>4. Mapped \subseteq held'[thr[u].of] /\ Flag(u) \in held'[thr[u].of]
    BY <1>3, <2>1, <2>2
  <2> QED
    BY <2>1, <2>2, <2>3, <2>4 DEF ThreadOk
<1>7. ThreadInv'
  BY <1>1, <1>5, <1>6 DEF ThreadInv
<1> QED
  BY <1>2, <1>7

LEMMA CreateMonitorIInv == ASSUME IInv, NEW t \in Threads, CreateMonitor(t) PROVE IInv'
<1>1. ctl.pc = "monitor" /\ ctl.pc \in StartPcs /\ "bus" \in StartPcs /\ "bus" \in Busy
  BY DEF CreateMonitor, StartPcs, Busy
<1>2. PICK c \in Insts : c = Current
  BY <1>1, CurrentInst DEF IInv, CtlInv
<1>3. bus_state[c] = "OPERATIONAL" /\ held[c] = Mapped
  BY <1>1, <1>2 DEF IInv, CtlInv, PhaseInv, PhaseAt
<1>4. PICK holds : holds = Mapped \cup {"monitor_running"}
  OBVIOUS
<1>5. /\ holds \in SUBSET Resources /\ PhaseAt("bus", "OPERATIONAL", holds)
      /\ "OPERATIONAL" \in BusStates
  BY <1>4 DEF Mapped, Opened, Resources, PhaseAt, Rising, BusStates
<1>6. /\ bus_state' = [bus_state EXCEPT ![Current] = "OPERATIONAL"]
      /\ held' = [held EXCEPT ![Current] = holds]
      /\ ctl' = [ctl EXCEPT !.pc = "bus"]
      /\ UNCHANGED <<g_masters, heap, last, lost>>
  BY <1>2, <1>3, <1>4 DEF CreateMonitor, IInv, Typed
<1>7. ThreadTypes' /\ ThreadInv'
  BY <1>1, <1>2, <1>3, <1>4, <1>6, SpawnKept DEF CreateMonitor
<1> QED
  BY <1>1, <1>5, <1>6, <1>7, StayKeeps

LEMMA CreateBusIInv == ASSUME IInv, NEW t \in Threads, CreateBus(t) PROVE IInv'
<1>1. ctl.pc = "bus" /\ ctl.pc \in StartPcs /\ ctl.pc \notin StopPcs
  BY DEF CreateBus, StartPcs, StopPcs
<1>2. PICK c \in Insts : c = Current
  BY <1>1, CurrentInst DEF IInv, CtlInv
<1>3. bus_state[c] = "OPERATIONAL"
  BY <1>1, <1>2 DEF IInv, CtlInv, PhaseInv, PhaseAt
<1>4. PICK holds : holds = held[c] \cup {"bus_running"}
  OBVIOUS
<1>5. holds \in SUBSET Resources /\ "OPERATIONAL" \in BusStates \ Rising
  BY <1>4 DEF IInv, Typed, Resources, Rising, BusStates
<1>6. /\ bus_state' = [bus_state EXCEPT ![Current] = "OPERATIONAL"]
      /\ held' = [held EXCEPT ![Current] = holds]
      /\ NextMaster("poll")
      /\ UNCHANGED <<g_masters, heap, last, lost>>
  BY <1>2, <1>3, <1>4 DEF CreateBus, IInv, Typed
<1>7. ThreadTypes' /\ ThreadInv'
  BY <1>1, <1>2, <1>4, <1>6, SpawnKept DEF CreateBus
<1> QED
  BY <1>1, <1>5, <1>6, <1>7, MoveKeeps

LEMMA StopSkipIInv == IInv /\ StopSkip => IInv'
<1> SUFFICES ASSUME IInv, StopSkip PROVE IInv'
  OBVIOUS
<1>1. ctl.pc \in StopPcs /\ ctl.pc \notin StartPcs
  BY DEF StopSkip, StartPcs, StopPcs
<1>2. PICK c \in Insts : c = Current
  BY <1>1, CurrentInst DEF IInv, CtlInv
<1>3. Quiet(c) /\ held[c] = {} /\ bus_state[c] \in {"IDLE", "STOPPED"}
  BY <1>2 DEF StopSkip, IInv, QuietInv, Quiet
<1>4. PICK state \in BusStates \ Rising : state = bus_state[c]
  BY <1>3 DEF BusStates, Rising
<1>5. /\ bus_state' = [bus_state EXCEPT ![Current] = state]
      /\ held' = [held EXCEPT ![Current] = {}]
      /\ NextMaster(AfterStop)
      /\ last' = IF ctl.i = N THEN "stop" ELSE last
      /\ UNCHANGED <<g_masters, heap, bus_thread, monitor_thread, thr, lost>>
  BY <1>2, <1>3, <1>4 DEF StopSkip, IInv, Typed
<1>6. \A t \in Threads : thr[t] # Unused => thr[t].of # Current
  BY <1>2, <1>3, ThreadFacts
<1>7. ThreadTypes' /\ ThreadInv'
  BY <1>1, <1>5, <1>6, AwayKept
<1> QED
  BY <1>1, <1>3, <1>4, <1>5, <1>7, MoveKeeps

LEMMA CloseMasterIInv == IInv /\ CloseMaster => IInv'
<1> SUFFICES ASSUME IInv, CloseMaster PROVE IInv'
  OBVIOUS
<1>1. ctl.pc = "close" /\ ctl.pc \in StopPcs /\ ctl.pc \notin StartPcs
  BY DEF CloseMaster, StartPcs, StopPcs
<1>2. PICK c \in Insts : c = Current
  BY <1>1, CurrentInst DEF IInv, CtlInv
<1>3. held[c] \subseteq Resources \ {"bus_running", "monitor_running"}
  BY <1>1, <1>2 DEF IInv, Typed, CtlInv, PhaseInv, PhaseAt
<1>4. Closed(held[c] \ {"session", "buffers", "layout"}) = {}
  BY <1>3 DEF Closed, Resources
<1>5. /\ bus_state' = [bus_state EXCEPT ![Current] = "STOPPED"]
      /\ held' = [held EXCEPT ![Current] = {}]
      /\ NextMaster(AfterStop)
      /\ last' = IF ctl.i = N THEN "stop" ELSE last
      /\ UNCHANGED <<g_masters, heap, bus_thread, monitor_thread, thr, lost>>
  BY <1>2, <1>4 DEF CloseMaster
<1>6. \A t \in Threads : thr[t] # Unused => thr[t].of # Current
  BY <1>1, ThreadFacts
<1>7. ThreadTypes' /\ ThreadInv'
  BY <1>1, <1>5, <1>6, AwayKept
<1>8. PICK state \in BusStates \ Rising : state = "STOPPED"
  BY DEF BusStates, Rising
<1>9. PICK holds \in SUBSET Resources : holds = {}
  OBVIOUS
<1>10. /\ bus_state' = [bus_state EXCEPT ![Current] = state]
       /\ held' = [held EXCEPT ![Current] = holds]
       /\ NextMaster(IF ctl.pc \in StartPcs THEN "poll" ELSE AfterStop)
       /\ last' = IF ctl.pc \in StopPcs /\ ctl.i = N THEN "stop" ELSE last
  BY <1>1, <1>5, <1>8, <1>9
<1> QED
  BY <1>1, <1>5, <1>7, <1>8, <1>9, <1>10, MoveKeeps

(* Clearing a flag: the thread is then one to wait for.                                  *)
LEMMA ClearFlagIInv ==
    ASSUME IInv, ~Quiet(Current),
           NEW kind \in {"bus", "monitor"},
           NEW flag, flag = IF kind = "bus" THEN "bus_running" ELSE "monitor_running",
           NEW next, next = IF kind = "bus" THEN "stop_monitor" ELSE "close",
           ctl.pc \in IF kind = "bus" THEN {"stop", "shutdown"} ELSE {"stop_monitor"},
           ClearFlag(flag, JoinPc(kind), next)
    PROVE  IInv'
<1>1. ctl.pc \in StopPcs /\ ctl.pc \notin StartPcs
  BY DEF StartPcs, StopPcs
<1>2. PICK c \in Insts : c = Current
  BY <1>1, CurrentInst DEF IInv, CtlInv
<1>3. PICK state \in BusStates : state = bus_state[c] /\ state \notin {"IDLE", "STOPPED"}
  BY <1>2 DEF IInv, Typed, Quiet
<1>4. PICK holds \in SUBSET Resources : holds = held[c] \ {flag}
  BY <1>2 DEF IInv, Typed
<1>5. PICK pc \in Busy : /\ pc = IF flag \in held[c] THEN JoinPc(kind) ELSE next
                         /\ pc \notin StartPcs
                         /\ pc \in {"join_bus", "stop_monitor", "join_monitor", "close"}
                         /\ pc \in {"join_monitor", "close"} => kind = "monitor"
  BY DEF Busy, JoinPc, StartPcs
<1>6. /\ bus_state' = [bus_state EXCEPT ![Current] = state]
      /\ held' = [held EXCEPT ![Current] = holds]
      /\ ctl' = [ctl EXCEPT !.pc = pc]
      /\ UNCHANGED <<g_masters, heap, bus_thread, monitor_thread, thr, last, lost>>
  BY <1>2, <1>3, <1>4, <1>5 DEF ClearFlag, IInv, Typed
<1>7. PhaseAt(pc, state, holds)
  <2>1. PhaseAt(ctl.pc, state, held[c])
    BY <1>1, <1>2, <1>3 DEF IInv, CtlInv, PhaseInv
  <2> QED
    BY <1>4, <1>5, <2>1 DEF PhaseAt
<1>8. /\ held'[c] = holds /\ Current' = c /\ ctl'.pc = pc
      /\ \A m \in Insts : m # c => held'[m] = held[m]
      /\ \A m \in Insts : bus_state'[m] = bus_state[m]
  BY <1>2, <1>3, <1>6 DEF IInv, Typed, Ctl, Current
<1>9. ThreadInv'
  <2>1. ASSUME NEW t \in Threads, thr[t] # Unused, NEW m, m = thr[t].of
        PROVE  /\ m \in Insts /\ Mapped \subseteq held'[m]
               /\ Flag(t) \in held'[m] \/ (m = c /\ pc = JoinPc(thr[t].kind))
    <3>1. /\ m \in Insts /\ Mapped \subseteq held[m] /\ thr[t].kind \in {"bus", "monitor"}
          /\ m = c /\ kind = "monitor" => thr[t].kind = "monitor"
          /\ ThreadOk(t)
      BY <1>2, <2>1, ThreadFacts DEF ThreadOk
    <3>2. Flag(t) \in held[m]
      BY <2>1, <3>1 DEF ThreadOk, JoinPc
    <3>3. flag \notin Mapped
      BY DEF Mapped, Opened
    <3>4. Flag(t) = flag <=> thr[t].kind = kind
      BY <3>1 DEF Flag
    <3>5. CASE m = c
      BY <1>4, <1>5, <1>8, <3>1, <3>2, <3>3, <3>4, <3>5
    <3>6. CASE m # c
      BY <1>8, <3>1, <3>2, <3>6
    <3> QED
      BY <3>5, <3>6
  <2> QED
    BY <1>6, <1>8, <2>1, ThreadsKept
<1>10. ThreadTypes'
  BY <1>6 DEF IInv, Typed, ThreadTypes
<1> QED
  BY <1>1, <1>3, <1>4, <1>5, <1>6, <1>7, <1>9, <1>10, StayKeeps

LEMMA StopThreadIInv == IInv /\ (StopBus \/ StopMonitor) => IInv'
<1>1. ASSUME IInv, StopBus PROVE IInv'
  <2>1. ~Quiet(Current) /\ ClearFlag("bus_running", JoinPc("bus"), "stop_monitor")
        /\ ctl.pc \in {"stop", "shutdown"}
    BY <1>1 DEF StopBus, Quiet, JoinPc
  <2> QED
    BY <1>1, <2>1, ClearFlagIInv
<1>2. ASSUME IInv, StopMonitor PROVE IInv'
  <2>1. Current \in Insts
    BY <1>2, CurrentInst DEF StopMonitor, IInv, CtlInv, StopPcs
  <2>2. ~Quiet(Current)
    BY <1>2, <2>1 DEF StopMonitor, IInv, QuietInv, Busy
  <2>3. ClearFlag("monitor_running", JoinPc("monitor"), "close") /\ ctl.pc = "stop_monitor"
    BY <1>2 DEF StopMonitor, JoinPc
  <2> QED
    BY <1>2, <2>2, <2>3, ClearFlagIInv
<1> QED
  BY <1>1, <1>2

(* Once it is joined, a thread is gone, and it was the only one of its kind.               *)
LEMMA JoinIInv ==
    ASSUME IInv, NEW kind \in {"bus", "monitor"},
           NEW next, next = IF kind = "bus" THEN "stop_monitor" ELSE "close",
           Join(JoinPc(kind), Handle(kind, Current), next),
           bus_thread' = IF kind = "bus" THEN [bus_thread EXCEPT ![Current] = NoThread]
                         ELSE bus_thread,
           monitor_thread' = IF kind = "bus" THEN monitor_thread
                             ELSE [monitor_thread EXCEPT ![Current] = NoThread]
    PROVE  IInv'
<1>1. /\ ctl.pc = JoinPc(kind) /\ ctl.pc \in StopPcs /\ ctl.pc \notin StartPcs
      /\ ctl.pc \in Busy /\ next \in Busy /\ next \notin StartPcs
  BY DEF Join, JoinPc, StartPcs, StopPcs, Busy
<1>2. PICK c \in Insts : c = Current /\ ~Quiet(c)
  BY <1>1, CurrentInst DEF IInv, CtlInv, QuietInv
<1>3. PICK state \in BusStates : state = bus_state[c] /\ state \notin {"IDLE", "STOPPED"}
  BY <1>2 DEF IInv, Typed, Quiet
<1>4. PICK holds \in SUBSET Resources : holds = held[c]
  BY <1>2 DEF IInv, Typed
<1>5. /\ bus_state' = [bus_state EXCEPT ![Current] = state]
      /\ held' = [held EXCEPT ![Current] = holds]
      /\ ctl' = [ctl EXCEPT !.pc = next]
      /\ UNCHANGED <<g_masters, heap, bus_state, held, last, lost>>
      /\ thr' = [thr EXCEPT ![Handle(kind, c)] = Unused]
  BY <1>2, <1>3, <1>4 DEF Join, IInv, Typed
<1>6. PhaseAt(next, state, holds)
  <2>1. PhaseAt(ctl.pc, state, holds)
    BY <1>1, <1>2, <1>3, <1>4 DEF IInv, CtlInv, PhaseInv
  <2>2. \/ ctl.pc = "join_bus" /\ next = "stop_monitor"
        \/ ctl.pc = "join_monitor" /\ next = "close"
    BY <1>1 DEF JoinPc
  <2> QED
    BY <2>1, <2>2 DEF PhaseAt
<1>7. ThreadTypes'
  <2>1. Unused \in [kind : {"none", "bus", "monitor"}, of : Insts \cup {NoInst},
                    pc : {"none", "check", "work", "done"}, state : BusStates \cup {"none"}]
    BY DEF Unused
  <2> QED
    BY <1>2, <1>5, <2>1 DEF IInv, Typed, ThreadTypes
<1>8. ASSUME NEW t \in Threads, thr'[t] # Unused PROVE ThreadOk(t)'
  <2>1. t # Handle(kind, c) /\ thr'[t] = thr[t] /\ thr[t] # Unused
    BY <1>5, <1>8 DEF IInv, Typed, ThreadTypes
  <2>2. /\ ThreadOk(t) /\ thr[t].of \in Insts /\ thr[t].kind \in {"bus", "monitor"}
        /\ Handle(thr[t].kind, thr[t].of) = t
    BY <2>1, ThreadFacts DEF ThreadOk
  <2>3. thr[t].of # c \/ thr[t].kind # kind
    BY <2>1, <2>2
  <2>4. Handle(thr[t].kind, thr[t].of)' = Handle(thr[t].kind, thr[t].of)
    BY <1>2, <2>1, <2>2, <2>3 DEF Handle, IInv, Typed, ThreadTypes
  <2>5. Flag(t)' = Flag(t) /\ Flag(t) \in held[thr[t].of]
    BY <1>1, <1>2, <2>1, <2>2, <2>3 DEF Flag, ThreadOk, JoinPc
  <2> QED
    BY <1>5, <2>1, <2>2, <2>4, <2>5 DEF ThreadOk
<1>9. ThreadInv'
  BY <1>8 DEF ThreadInv
<1> QED
  BY <1>1, <1>2, <1>3, <1>4, <1>5, <1>6, <1>7, <1>9, StayKeeps

-----------------------------------------------------------------------------
(* Commands that begin or end at once, and the threads. *)

LEMMA StartCommandIInv ==
    ASSUME IInv, Client = "stops_first", StartCommand PROVE IInv'
<1>1. /\ g_masters # 0 /\ last = "stop" /\ last' = "start"
      /\ ctl.pc = "poll" /\ ctl' = [pc |-> "start", cmd |-> "start", i |-> 1]
      /\ UNCHANGED <<g_masters, heap, bus_state, held, bus_thread, monitor_thread, thr, lost>>
  BY DEF StartCommand
<1>2. ctl' \in Ctl /\ ctl'.pc = "start" /\ ctl'.cmd = "start" /\ ctl'.i = 1
  BY <1>1, LifecycleAssumptions DEF Ctl, Pcs, StartPcs
<1>3. \A m \in Insts : Quiet(m) /\ Quiet(m)' /\ held[m] = {} /\ held'[m] = {}
  BY <1>1 DEF IInv, QuietInv, Quiet
<1>4. Typed' /\ CtlInv'
  BY <1>1, <1>2 DEF IInv, Typed, ThreadTypes, CtlInv, StopPcs
<1>5. QuietInv'
  BY <1>1, <1>2, <1>3 DEF IInv, QuietInv, Masters, Busy, StopPcs
<1>6. \A m \in Insts : bus_state'[m] \notin Rising
  BY <1>3 DEF Quiet, Rising
<1>7. Current' \in Insts
  BY <1>1, <1>4, LifecycleAssumptions DEF Typed, Ctl, Current, Insts
<1>8. PhaseInv'
  BY <1>2, <1>6, <1>7 DEF PhaseInv, PhaseAt
<1>9. ThreadInv'
  BY <1>1, <1>3, ThreadFacts DEF ThreadInv
<1> QED
  BY <1>4, <1>5, <1>8, <1>9 DEF IInv

LEMMA StopCommandIInv ==
    ASSUME IInv, NEW cmd \in {"stop", "shutdown"}, StopCommand(cmd) PROVE IInv'
<1>1. /\ ctl.pc = "poll"
      /\ ctl' = [pc |-> IF g_masters = 0 THEN "free" ELSE cmd, cmd |-> cmd, i |-> 1]
      /\ UNCHANGED <<g_masters, heap, bus_state, held, bus_thread, monitor_thread, thr, last, lost>>
  BY DEF StopCommand
<1>2. /\ ctl' \in Ctl /\ ctl'.cmd = cmd /\ ctl'.i = 1
      /\ ctl'.pc = IF g_masters = 0 THEN "free" ELSE cmd
      /\ ctl'.pc \notin StartPcs /\ ctl'.pc \notin Busy
  BY <1>1, LifecycleAssumptions DEF Ctl, Pcs, StartPcs, StopPcs, Busy
<1>3. Typed'
  BY <1>1, <1>2 DEF IInv, Typed, ThreadTypes
<1>4. CtlInv'
  BY <1>1, <1>2 DEF IInv, CtlInv, StopPcs
<1>5. QuietInv'
  <2>1. \A m \in Insts : Quiet(m)' = Quiet(m)
    BY <1>1 DEF Quiet
  <2>2. g_masters = 0 => \A m \in Insts : Quiet(m)
    BY InstIndex DEF IInv, QuietInv, Masters
  <2>3. \A m \in Masters : ~(m[2] < 1)
    BY InstIndex, LifecycleAssumptions DEF Masters
  <2>4. Masters' = Masters
    BY <1>1 DEF Masters
  <2>5. ctl'.pc \in {"free", "exited"} => g_masters = 0
    BY <1>2
  <2> QED
    BY <1>1, <1>2, <2>1, <2>2, <2>3, <2>4, <2>5 DEF IInv, QuietInv
<1>6. PhaseInv'
  <2>1. \A m \in Insts : bus_state[m] \notin Rising
    <3>1. g_masters # 0 => bus_state[Current] \notin Rising
      BY <1>1 DEF IInv, PhaseInv, PhaseAt
    <3>2. \A m \in Insts : m = Current => g_masters # 0
      BY InstIndex DEF Current
    <3> QED
      BY <3>1, <3>2 DEF IInv, PhaseInv
  <2>2. g_masters # 0 => Current' \in Insts
    BY <1>1, <1>3, LifecycleAssumptions DEF Typed, Ctl, Current, Insts
  <2> QED
    BY <1>1, <1>2, <2>1, <2>2 DEF PhaseInv, PhaseAt, Busy
<1>7. ThreadInv'
  <2>1. ASSUME NEW t \in Threads, thr[t] # Unused
        PROVE  Mapped \subseteq held[thr[t].of] /\ Flag(t) \in held[thr[t].of]
    BY <1>1, <2>1, ThreadFacts DEF ThreadOk, JoinPc
  <2> QED
    BY <1>1, <2>1, ThreadsKept
<1> QED
  BY <1>3, <1>4, <1>5, <1>6, <1>7 DEF IInv

(* open_data and close_data change who has a session, which needs a running master.        *)
LEMMA DataIInv ==
    ASSUME IInv, ctl.pc = "poll", held' \in [Insts -> SUBSET Resources],
           \A m \in Insts : /\ held'[m] \ {"session"} = held[m] \ {"session"}
                            /\ Quiet(m) => held'[m] \subseteq held[m],
           UNCHANGED <<g_masters, heap, bus_state, bus_thread, monitor_thread, thr, ctl, last, lost>>
    PROVE  IInv'
<1>1. Typed' /\ CtlInv'
  BY DEF IInv, Typed, ThreadTypes, CtlInv
<1>2. QuietInv'
  BY DEF IInv, QuietInv, Quiet, Masters, Current
<1>3. PhaseInv'
  BY DEF IInv, PhaseInv, PhaseAt, Current
<1>4. ThreadInv'
  <2>1. ASSUME NEW t \in Threads, thr[t] # Unused
        PROVE  Mapped \subseteq held'[thr[t].of] /\ Flag(t) \in held'[thr[t].of]
    <3>1. /\ thr[t].of \in Insts /\ Mapped \subseteq held[thr[t].of]
          /\ Flag(t) \in held[thr[t].of]
      BY <2>1, ThreadFacts DEF ThreadOk, JoinPc
    <3>2. "session" \notin Mapped /\ Flag(t) # "session"
      BY DEF Mapped, Opened, Flag
    <3> QED
      BY <3>1, <3>2
  <2> QED
    BY <2>1, ThreadsKept
<1> QED
  BY <1>1, <1>2, <1>3, <1>4 DEF IInv

LEMMA OpenCloseIInv ==
    ASSUME IInv, (\E failing \in 1..(N + 1) : OpenData(failing)) \/ CloseData PROVE IInv'
<1>1. \A m \in Insts : Quiet(m) => ~Running(m)
  BY DEF Quiet, Running
<1>2. ASSUME NEW failing \in 1..(N + 1), OpenData(failing) PROVE IInv'
  <2>1. held' \in [Insts -> SUBSET Resources]
    BY <1>2 DEF OpenData, IInv, Typed, Resources
  <2>2. \A m \in Insts : /\ held'[m] \ {"session"} = held[m] \ {"session"}
                         /\ Quiet(m) => held'[m] \subseteq held[m]
    BY <1>1, <1>2 DEF OpenData
  <2> QED
    BY <1>2, <2>1, <2>2, DataIInv DEF OpenData
<1>3. ASSUME CloseData PROVE IInv'
  <2>1. held' \in [Insts -> SUBSET Resources]
    BY <1>3 DEF CloseData, IInv, Typed
  <2>2. \A m \in Insts : /\ held'[m] \ {"session"} = held[m] \ {"session"}
                         /\ Quiet(m) => held'[m] \subseteq held[m]
    BY <1>3 DEF CloseData
  <2> QED
    BY <1>3, <2>1, <2>2, DataIInv DEF CloseData
<1> QED
  BY <1>2, <1>3

(* free_masters, after a stop: nobody holds anything and there is no thread, so the whole  *)
(* array is freed.                                                                     *)
LEMMA FreeQuiet ==
    ASSUME IInv, \A m \in Insts : Quiet(m),
           NEW after \in [1..Arrays -> {"free", "live"}], FreeMasters(after)
    PROVE  /\ held' = [m \in Insts |-> {}] /\ lost' = {}
           /\ bus_state' \in [Insts -> {"IDLE", "STOPPED"}]
           /\ heap' = [g \in 1..Arrays |-> IF g # g_masters THEN after[g] ELSE "free"]
           /\ \A t \in Threads : thr[t] = Unused
<1>1. \A m \in Insts : held[m] = {}
  BY DEF IInv, QuietInv
<1>2. Destroyed = Masters
  BY <1>1 DEF Destroyed, Destroyable, Masters
<1>3. held' = [m \in Insts |-> {}]
  BY <1>1 DEF FreeMasters
<1>4. lost' = {}
  BY <1>1 DEF FreeMasters, IInv, QuietInv, Destroyed, Masters
<1>5. bus_state' \in [Insts -> {"IDLE", "STOPPED"}]
  BY DEF FreeMasters, Quiet
<1>6. heap' = [g \in 1..Arrays |-> IF g # g_masters THEN after[g] ELSE "free"]
  BY <1>2 DEF FreeMasters
<1>7. \A t \in Threads : thr[t] = Unused
  BY ThreadFacts
<1> QED
  BY <1>3, <1>4, <1>5, <1>6, <1>7

LEMMA FreedIInv ==
    ASSUME IInv, \A m \in Insts : Quiet(m), NEW masters \in 0..Arrays,
           NEW after \in [1..Arrays -> {"free", "live"}], FreeMasters(after),
           \A g \in 1..Arrays : g # g_masters => (after[g] = "live" <=> g = masters),
           masters = 0 \/ masters # g_masters,
           g_masters' = masters,
           ctl' \in Ctl, ctl'.pc \in {"poll", "exited"},
           UNCHANGED <<bus_thread, monitor_thread, thr, last>>
    PROVE  IInv'
<1>1. /\ held' = [m \in Insts |-> {}] /\ lost' = {}
      /\ bus_state' \in [Insts -> {"IDLE", "STOPPED"}]
      /\ heap' = [g \in 1..Arrays |-> IF g # g_masters THEN after[g] ELSE "free"]
      /\ \A t \in Threads : thr[t] = Unused
  BY FreeQuiet
<1>2. heap' \in [1..Arrays -> {"free", "live"}]
  BY <1>1
<1>3. bus_state' \in [Insts -> BusStates] /\ held' \in [Insts -> SUBSET Resources]
  BY <1>1 DEF BusStates
<1>4. Typed'
  BY <1>2, <1>3 DEF IInv, Typed, ThreadTypes
<1>5. \A g \in 1..Arrays : heap'[g] = "live" <=> g = g_masters'
  BY <1>1
<1>6. ctl'.pc \notin StartPcs /\ ctl'.pc \notin StopPcs /\ ctl'.pc \notin Busy
  BY DEF StartPcs, StopPcs, Busy
<1>7. CtlInv'
  BY <1>5, <1>6 DEF CtlInv
<1>8. \A m \in Insts : Quiet(m)' /\ held'[m] = {} /\ bus_state'[m] \notin Rising
  BY <1>1 DEF Quiet, Rising
<1>9. QuietInv'
  BY <1>1, <1>6, <1>8 DEF QuietInv
<1>10. g_masters' # 0 => Current' \in Insts
  BY <1>4, LifecycleAssumptions DEF Typed, Ctl, Current, Insts
<1>11. PhaseInv'
  BY <1>8, <1>10 DEF PhaseInv, PhaseAt
<1>12. ThreadInv'
  BY <1>1 DEF ThreadInv
<1> QED
  BY <1>4, <1>7, <1>9, <1>11, <1>12 DEF IInv

LEMMA ConfigureIInv ==
    ASSUME IInv, Client = "stops_first",
           ConfigureClear \/ \E g \in 1..Arrays : ConfigureLoad(g)
    PROVE  IInv'
<1>1. ASSUME MayConfigure PROVE ctl.pc = "poll" /\ \A m \in Insts : Quiet(m)
  BY <1>1 DEF MayConfigure, IInv, QuietInv
<1>2. ctl \in Ctl /\ heap \in [1..Arrays -> {"free", "live"}] /\ 0 \in 0..Arrays
  BY LifecycleAssumptions DEF IInv, Typed
<1>3. \A g \in 1..Arrays : heap[g] = "live" <=> g = g_masters
  BY DEF IInv, CtlInv
<1>4. CASE ConfigureClear
  <2>1. /\ MayConfigure /\ FreeMasters(heap) /\ g_masters' = 0
        /\ UNCHANGED <<bus_thread, monitor_thread, thr, ctl, last>>
    BY <1>4 DEF ConfigureClear
  <2>2. PICK masters \in 0..Arrays : masters = 0
    BY <1>2
  <2>3. \A g \in 1..Arrays : g # g_masters => (heap[g] = "live" <=> g = masters)
    BY <1>3, <2>2
  <2> QED
    BY <1>1, <1>2, <2>1, <2>2, <2>3, FreedIInv
<1>5. ASSUME NEW g \in 1..Arrays, ConfigureLoad(g) PROVE IInv'
  <2>1. /\ MayConfigure /\ heap[g] = "free" /\ FreeMasters([heap EXCEPT ![g] = "live"])
        /\ g_masters' = g
        /\ UNCHANGED <<bus_thread, monitor_thread, thr, ctl, last>>
    BY <1>5 DEF ConfigureLoad
  <2>2. PICK after \in [1..Arrays -> {"free", "live"}] : after = [heap EXCEPT ![g] = "live"]
    BY <1>2
  <2>3. \A h \in 1..Arrays : h # g_masters => (after[h] = "live" <=> h = g)
    BY <1>2, <1>3, <2>2
  <2>4. g \in 0..Arrays /\ g # g_masters
    BY <1>3, <2>1
  <2>5. FreeMasters(after)
    BY <2>1, <2>2
  <2> QED
    BY <1>1, <1>2, <2>1, <2>3, <2>4, <2>5, FreedIInv
<1> QED
  BY <1>4, <1>5

LEMMA ExitIInv == IInv /\ Exit => IInv'
<1> SUFFICES ASSUME IInv, Exit PROVE IInv'
  OBVIOUS
<1>1. /\ ctl.pc = "free" /\ FreeMasters(heap) /\ g_masters' = 0
      /\ ctl' = [ctl EXCEPT !.pc = "exited"]
      /\ UNCHANGED <<bus_thread, monitor_thread, thr, last>>
  BY DEF Exit
<1>2. ctl' \in Ctl /\ ctl'.pc = "exited"
  BY <1>1 DEF IInv, Typed, Ctl, Pcs
<1>3. \A m \in Insts : Quiet(m)
  BY <1>1 DEF IInv, QuietInv
<1>4. heap \in [1..Arrays -> {"free", "live"}]
  BY DEF IInv, Typed
<1>5. PICK masters \in 0..Arrays : masters = 0
  BY LifecycleAssumptions
<1>6. \A g \in 1..Arrays : g # g_masters => (heap[g] = "live" <=> g = masters)
  BY <1>5 DEF IInv, CtlInv
<1> QED
  BY <1>1, <1>2, <1>3, <1>4, <1>5, <1>6, FreedIInv

(* A step of a thread: only the bus thread leaves OPERATIONAL and only the monitor leaves   *)
(* RECOVERING, so neither replaces a state the other one has loaded to replace.            *)
LEMMA ThreadStepKeeps ==
    ASSUME IInv, NEW t \in Threads, thr[t] # Unused, NEW m \in Insts, m = thr[t].of,
           NEW r \in [kind : {"none", "bus", "monitor"}, of : Insts \cup {NoInst},
                      pc : {"none", "check", "work", "done"}, state : BusStates \cup {"none"}],
           r.kind = thr[t].kind, r.of = m, r.pc # "none",
           NEW state \in BusStates,
           \/ state = bus_state[m]
           \/ thr[t].pc = "work" /\ state \in Outcomes(thr[t].kind, thr[t].state),
           r.pc = "work" => r.state = state,
           thr' = [thr EXCEPT ![t] = r],
           bus_state' = [bus_state EXCEPT ![m] = state],
           UNCHANGED <<g_masters, heap, held, bus_thread, monitor_thread, ctl, last, lost>>
    PROVE  IInv'
<1>1. /\ m \in Masters /\ ~Quiet(m) /\ ThreadOk(t) /\ thr[t].kind \in {"bus", "monitor"}
      /\ m = Current => ctl.pc \notin {"scan", "map", "to_op", "monitor", "close"}
      /\ m = Current /\ thr[t].kind = "bus" => ctl.pc # "bus"
  BY ThreadFacts DEF ThreadOk
<1>2. state # bus_state[m] =>
          \/ /\ thr[t].kind = "bus" /\ bus_state[m] = "OPERATIONAL" /\ state = "RECOVERING"
          \/ /\ thr[t].kind = "monitor" /\ bus_state[m] = "RECOVERING"
             /\ state \in {"OPERATIONAL", "ERROR"}
  <2> SUFFICES ASSUME state # bus_state[m]
               PROVE  \/ /\ thr[t].kind = "bus" /\ bus_state[m] = "OPERATIONAL"
                         /\ state = "RECOVERING"
                      \/ /\ thr[t].kind = "monitor" /\ bus_state[m] = "RECOVERING"
                         /\ state \in {"OPERATIONAL", "ERROR"}
    OBVIOUS
  <2>1. bus_state[m] = thr[t].state
    BY <1>1 DEF ThreadOk
  <2> QED
    BY <2>1 DEF Outcomes
<1>3. /\ thr'[t] = r /\ \A u \in Threads : u # t => thr'[u] = thr[u]
      /\ bus_state'[m] = state /\ \A x \in Insts : x # m => bus_state'[x] = bus_state[x]
      /\ bus_state' \in [Insts -> BusStates]
  BY DEF IInv, Typed, ThreadTypes
<1>4. Typed' /\ CtlInv'
  BY <1>3 DEF IInv, Typed, ThreadTypes, CtlInv
<1>5. \A x \in Insts : Quiet(x)' = Quiet(x)
  BY <1>1, <1>2, <1>3 DEF Quiet
<1>6. Masters' = Masters /\ Current' = Current
  BY DEF Masters, Current
<1>7. QuietInv'
  <2>1. \A x \in Masters : x \in Insts
    BY DEF Masters
  <2> QED
    BY <1>5, <1>6, <2>1 DEF IInv, QuietInv
<1>8. \A x \in Insts : bus_state'[x] \in Rising => bus_state'[x] = bus_state[x]
  BY <1>2, <1>3 DEF Rising
<1>9. PhaseInv'
  <2>1. ASSUME g_masters # 0 PROVE PhaseAt(ctl.pc, bus_state'[Current], held[Current])
    <3>1. PICK c \in Insts : c = Current
      BY <2>1, CurrentInst DEF IInv
    <3>2. PhaseAt(ctl.pc, bus_state[c], held[c])
      BY <2>1, <3>1 DEF IInv, PhaseInv
    <3>3. CASE c # m \/ state = bus_state[m]
      BY <1>3, <3>1, <3>2, <3>3
    <3>4. CASE c = m /\ state # bus_state[m]
      <4>1. ctl.pc = "bus" => bus_state[m] = "OPERATIONAL" /\ thr[t].kind = "monitor"
        BY <1>1, <3>1, <3>2, <3>4 DEF PhaseAt
      <4>2. ctl.pc # "bus" /\ state \notin Rising
        BY <1>2, <3>4, <4>1 DEF Rising
      <4>3. PhaseAt(ctl.pc, state, held[c])
        BY <1>1, <3>1, <3>2, <3>4, <4>2 DEF PhaseAt
      <4> QED
        BY <1>3, <3>1, <3>4, <4>3
    <3> QED
      BY <3>3, <3>4
  <2> QED
    BY <1>6, <1>8, <2>1 DEF IInv, PhaseInv
<1>10. ASSUME NEW u \in Threads, thr'[u] # Unused PROVE ThreadOk(u)'
  <2>1. CASE u = t
    <3>1. Flag(t)' = Flag(t) /\ Handle(thr[t].kind, m)' = Handle(thr[t].kind, m)
      BY <1>3 DEF Flag, Handle
    <3> QED
      BY <1>1, <1>3, <1>6, <2>1, <3>1 DEF ThreadOk
  <2>2. CASE u # t
    <3>1. thr'[u] = thr[u] /\ ThreadOk(u)
      BY <1>3, <1>10, <2>2 DEF IInv, ThreadInv
    <3>2. Flag(u)' = Flag(u) /\ Handle(thr[u].kind, thr[u].of)' = Handle(thr[u].kind, thr[u].of)
      BY <3>1 DEF Flag, Handle
    <3>3. thr[u].of # m \/ thr[u].kind # thr[t].kind
      BY <1>1, <2>2, <3>1 DEF ThreadOk
    <3>4. thr[u].pc = "work" /\ Outcomes(thr[u].kind, thr[u].state) # {} =>
              bus_state'[thr[u].of] = bus_state[thr[u].of]
      <4>1. thr[u].of # m => bus_state'[thr[u].of] = bus_state[thr[u].of]
        BY <1>3, <3>1 DEF ThreadOk
      <4>2. ASSUME thr[u].of = m, thr[u].pc = "work", Outcomes(thr[u].kind, thr[u].state) # {}
            PROVE  state = bus_state[m]
        <5>1. bus_state[m] = thr[u].state
          BY <3>1, <4>2 DEF ThreadOk
        <5>2. \/ thr[u].kind = "bus" /\ thr[u].state = "OPERATIONAL"
              \/ thr[u].kind = "monitor" /\ thr[u].state = "RECOVERING"
          BY <4>2 DEF Outcomes
        <5> QED
          BY <1>2, <3>3, <4>2, <5>1, <5>2
      <4> QED
        BY <1>3, <4>1, <4>2
    <3> QED
      BY <1>6, <3>1, <3>2, <3>4 DEF ThreadOk
  <2> QED
    BY <2>1, <2>2
<1>11. ThreadInv'
  BY <1>10 DEF ThreadInv
<1> QED
  BY <1>4, <1>7, <1>9, <1>11 DEF IInv

LEMMA ThreadIInv == ASSUME IInv, NEW t \in Threads, ThreadStep(t) PROVE IInv'
<1>1. thr[t] # Unused
  BY DEF ThreadStep, ThreadBegins, ThreadWorks, ThreadEnds, Unused
<1>2. PICK m \in Insts : m = thr[t].of
  BY <1>1, ThreadFacts
<1>3. thr[t] \in [kind : {"none", "bus", "monitor"}, of : Insts \cup {NoInst},
                  pc : {"none", "check", "work", "done"}, state : BusStates \cup {"none"}]
  BY DEF IInv, Typed, ThreadTypes
<1>4. bus_state \in [Insts -> BusStates] /\ bus_state[m] \in BusStates
  BY DEF IInv, Typed
<1>5. thr \in [Threads -> [kind : {"none", "bus", "monitor"}, of : Insts \cup {NoInst},
                           pc : {"none", "check", "work", "done"},
                           state : BusStates \cup {"none"}]]
  BY DEF IInv, Typed, ThreadTypes
<1>6. CASE ThreadEnds(t)
  <2>1. PICK r \in [kind : {"none", "bus", "monitor"}, of : Insts \cup {NoInst},
                    pc : {"none", "check", "work", "done"}, state : BusStates \cup {"none"}] :
            r = [thr[t] EXCEPT !.pc = "done"]
    BY <1>3
  <2>2. r.kind = thr[t].kind /\ r.of = m /\ r.pc = "done"
    BY <1>2, <1>3, <2>1
  <2>3. thr' = [thr EXCEPT ![t] = r]
    BY <1>5, <1>6, <2>1 DEF ThreadEnds
  <2>4. bus_state' = [bus_state EXCEPT ![m] = bus_state[m]]
    BY <1>4, <1>6 DEF ThreadEnds
  <2>5. UNCHANGED <<g_masters, heap, held, bus_thread, monitor_thread, ctl, last, lost>>
    BY <1>6 DEF ThreadEnds
  <2>6. PICK state \in BusStates : state = bus_state[m]
    BY <1>4
  <2> QED
    BY <1>1, <1>2, <2>2, <2>3, <2>4, <2>5, <2>6, ThreadStepKeeps
<1>7. CASE ThreadBegins(t)
  <2>1. PICK r \in [kind : {"none", "bus", "monitor"}, of : Insts \cup {NoInst},
                    pc : {"none", "check", "work", "done"}, state : BusStates \cup {"none"}] :
            r = [thr[t] EXCEPT !.pc = "work", !.state = bus_state[m]]
    BY <1>3, <1>4
  <2>2. r.kind = thr[t].kind /\ r.of = m /\ r.pc = "work" /\ r.state = bus_state[m]
    BY <1>2, <1>3, <2>1
  <2>3. thr' = [thr EXCEPT ![t] = r]
    BY <1>2, <1>5, <1>7, <2>1 DEF ThreadBegins
  <2>4. bus_state' = [bus_state EXCEPT ![m] = bus_state[m]]
    BY <1>4, <1>7 DEF ThreadBegins
  <2>5. UNCHANGED <<g_masters, heap, held, bus_thread, monitor_thread, ctl, last, lost>>
    BY <1>7 DEF ThreadBegins
  <2>6. PICK state \in BusStates : state = bus_state[m]
    BY <1>4
  <2> QED
    BY <1>1, <1>2, <2>2, <2>3, <2>4, <2>5, <2>6, ThreadStepKeeps
<1>8. CASE ThreadWorks(t)
  <2>1. PICK r \in [kind : {"none", "bus", "monitor"}, of : Insts \cup {NoInst},
                    pc : {"none", "check", "work", "done"}, state : BusStates \cup {"none"}] :
            r = [thr[t] EXCEPT !.pc = "check", !.state = "none"]
    BY <1>3
  <2>2. r.kind = thr[t].kind /\ r.of = m /\ r.pc = "check"
    BY <1>2, <1>3, <2>1
  <2>3. thr' = [thr EXCEPT ![t] = r]
    BY <1>5, <1>8, <2>1 DEF ThreadWorks
  <2>4. PICK state \in Outcomes(thr[t].kind, thr[t].state) \cup {bus_state[m]} :
            bus_state' = [bus_state EXCEPT ![m] = state]
    BY <1>2, <1>8 DEF ThreadWorks
  <2>5. /\ thr[t].pc = "work"
        /\ UNCHANGED <<g_masters, heap, held, bus_thread, monitor_thread, ctl, last, lost>>
    BY <1>8 DEF ThreadWorks
  <2>6. state \in BusStates
    BY <1>4, <2>4 DEF Outcomes
  <2> QED
    BY <1>1, <1>2, <2>2, <2>3, <2>4, <2>5, <2>6, ThreadStepKeeps
<1> QED
  BY <1>6, <1>7, <1>8 DEF ThreadStep

-----------------------------------------------------------------------------
LEMMA ControlIInv == IInv /\ ControlStep => IInv'
<1> SUFFICES ASSUME IInv, ControlStep PROVE IInv'
  OBVIOUS
<1>1. CASE SkipMaster \/ StartMaster
  BY <1>1, SkipMasterIInv, StartMasterIInv
<1>2. CASE ScanDone \/ MapDone \/ ToOpDone
  BY <1>2, PhaseDoneIInv
<1>3. CASE ScanFailed \/ MapFailed \/ ToOpFailed
  BY <1>3, PhaseFailedIInv DEF ScanFailed, MapFailed, ToOpFailed
<1>4. CASE Create
  BY <1>4, CreateFailedIInv, CreateMonitorIInv, CreateBusIInv DEF Create
<1>5. CASE StopSkip \/ StopBus \/ StopMonitor \/ CloseMaster
  BY <1>5, StopSkipIInv, StopThreadIInv, CloseMasterIInv
<1>6. CASE JoinBus
  <2>1. PICK kind \in {"bus", "monitor"} : kind = "bus"
    OBVIOUS
  <2>2. PICK next : next = "stop_monitor"
    OBVIOUS
  <2>3. Join(JoinPc(kind), Handle(kind, Current), next)
    BY <1>6, <2>1, <2>2 DEF JoinBus, JoinPc, Handle
  <2> QED
    BY <1>6, <2>1, <2>2, <2>3, JoinIInv DEF JoinBus
<1>7. CASE JoinMonitor
  <2>1. PICK kind \in {"bus", "monitor"} : kind = "monitor"
    OBVIOUS
  <2>2. PICK next : next = "close"
    OBVIOUS
  <2>3. Join(JoinPc(kind), Handle(kind, Current), next)
    BY <1>7, <2>1, <2>2 DEF JoinMonitor, JoinPc, Handle
  <2> QED
    BY <1>7, <2>1, <2>2, <2>3, JoinIInv DEF JoinMonitor
<1>8. CASE Exit
  BY <1>8, ExitIInv
<1> QED
  BY <1>1, <1>2, <1>3, <1>4, <1>5, <1>6, <1>7, <1>8 DEF ControlStep

LEMMA NextIInv == Client = "stops_first" /\ IInv /\ [Next]_vars => IInv'
<1> SUFFICES ASSUME Client = "stops_first", IInv, [Next]_vars PROVE IInv'
  OBVIOUS
<1>1. CASE Command
  <2>1. StopCommand("stop") \/ StopCommand("shutdown") => IInv'
    BY StopCommandIInv
  <2> QED
    BY <1>1, <2>1, ConfigureIInv, StartCommandIInv, OpenCloseIInv DEF Command
<1>2. CASE ControlStep
  BY <1>2, ControlIInv
<1>3. CASE \E t \in Threads : ThreadStep(t)
  BY <1>3, ThreadIInv
<1>4. CASE UNCHANGED vars
  <2>1. UNCHANGED <<g_masters, heap, bus_state, held, bus_thread, monitor_thread, thr, ctl,
                    lost, last>>
    BY <1>4 DEF vars
  <2>2. Typed' /\ CtlInv'
    BY <2>1 DEF IInv, Typed, ThreadTypes, CtlInv
  <2>3. QuietInv' /\ PhaseInv'
    BY <2>1 DEF IInv, QuietInv, PhaseInv, Quiet, Masters, Current
  <2>4. ThreadInv'
    BY <2>1 DEF IInv, ThreadInv, ThreadOk, Handle, Flag, Current
  <2> QED
    BY <2>2, <2>3, <2>4 DEF IInv
<1> QED
  BY <1>1, <1>2, <1>3, <1>4 DEF Next, Exited

(* The invariant of the client that sends stop first.                                     *)
LEMMA Invariant == Client = "stops_first" => (Spec => []IInv)
<1> SUFFICES ASSUME Client = "stops_first" PROVE Spec => []IInv
  OBVIOUS
<1>1. IInv /\ [Next]_vars => IInv'
  BY NextIInv
<1> QED
  BY <1>1, InitIInv, PTL DEF Spec

-----------------------------------------------------------------------------
(* An instance's live threads of a kind are the one it has the handle of.                   *)
LEMMA OneThread ==
    ASSUME IInv, NEW m \in Insts, NEW kind \in {"bus", "monitor"}
    PROVE  /\ ThreadsOf(m, kind) \subseteq {Handle(kind, m)}
           /\ \A t \in ThreadsOf(m, kind) : t \in Threads /\ thr[t] # Unused /\ thr[t].of = m
                                            /\ thr[t].kind = kind
<1>1. ASSUME NEW t \in ThreadsOf(m, kind)
      PROVE  /\ t \in Threads /\ thr[t] # Unused /\ thr[t].of = m /\ thr[t].kind = kind
             /\ t = Handle(kind, m)
  <2>1. t \in Threads /\ thr[t].of = m /\ thr[t].kind = kind /\ thr[t] # Unused
    BY <1>1 DEF ThreadsOf, Unused
  <2> QED
    BY <2>1 DEF IInv, ThreadInv, ThreadOk
<1> QED
  BY <1>1

(* An instance never has two bus threads or two monitors, and none where the control thread  *)
(* brings it up or closes it (bus.c:663, :831), whatever start or thread creation fails.     *)
THEOREM Owner == Client = "stops_first" => (Spec => []OneOwner)
<1>1. IInv => OneOwner
  <2> SUFFICES ASSUME IInv, NEW m \in Insts, NEW kind \in {"bus", "monitor"}
               PROVE  /\ Cardinality(ThreadsOf(m, kind)) <= 1
                      /\ ControlOwns(m, kind) => ThreadsOf(m, kind) = {}
    BY DEF OneOwner
  <2>1. Cardinality(ThreadsOf(m, kind)) <= 1
    <3>1. ThreadsOf(m, kind) = {} \/ ThreadsOf(m, kind) = {Handle(kind, m)}
      BY OneThread
    <3>2. Cardinality({}) = 0
      BY FS_EmptySet
    <3>3. Cardinality({Handle(kind, m)}) = 1
      BY FS_Singleton
    <3> QED
      BY <3>1, <3>2, <3>3
  <2>2. ASSUME ControlOwns(m, kind), NEW t \in ThreadsOf(m, kind) PROVE FALSE
    <3>1. t \in Threads /\ thr[t] # Unused /\ thr[t].of = m /\ thr[t].kind = kind
      BY <2>2, OneThread
    <3> QED
      BY <2>2, <3>1, ThreadFacts DEF ControlOwns
  <2> QED
    BY <2>1, <2>2
<1> QED
  BY <1>1, Invariant, PTL

(* A thread's instance is never freed under it, and what a round of work reads stays         *)
(* (free_masters and stop_single_master of bus.c).                                        *)
THEOREM UseAfterFree == Client = "stops_first" => (Spec => []NoUseAfterFree)
<1>1. IInv => NoUseAfterFree
  <2> SUFFICES ASSUME IInv, NEW t \in Threads, Live(t)
               PROVE  /\ heap[thr[t].of[1]] # "free"
                      /\ Needs(thr[t].kind) \subseteq held[thr[t].of]
    BY DEF NoUseAfterFree
  <2>1. thr[t] # Unused
    BY DEF Live, Unused
  <2>2. /\ thr[t].of \in Masters /\ thr[t].of \in Insts
        /\ Mapped \subseteq held[thr[t].of]
    BY <2>1, ThreadFacts
  <2>3. heap[thr[t].of[1]] = "live"
    BY <2>2, InstIndex DEF Masters, IInv, CtlInv
  <2> QED
    BY <2>2, <2>3 DEF Needs, Mapped, Opened
<1> QED
  BY <1>1, Invariant, PTL

(* stop_single_master takes back all that start_single_master handed out, whichever of its     *)
(* phases failed.                                                                         *)
THEOREM StoppedQuiet == Client = "stops_first" => (Spec => []StoppedIsQuiet)
<1>1. IInv => StoppedIsQuiet
  <2> SUFFICES ASSUME IInv, NEW m \in Insts, bus_state[m] \in {"IDLE", "STOPPED"}
               PROVE  /\ held[m] = {}
                      /\ \A kind \in {"bus", "monitor"} : ThreadsOf(m, kind) = {}
    BY DEF StoppedIsQuiet
  <2>1. Quiet(m) /\ held[m] = {}
    BY DEF Quiet, IInv, QuietInv
  <2>2. ASSUME NEW kind \in {"bus", "monitor"}, NEW t \in ThreadsOf(m, kind) PROVE FALSE
    BY <2>1, <2>2, OneThread, ThreadFacts
  <2> QED
    BY <2>1, <2>2
<1> QED
  BY <1>1, Invariant, PTL

(* docs/PROTOCOL.md:193: the process leaves no socket open and no interface tuned, from      *)
(* whichever state it is shut down.                                                        *)
THEOREM CleanExit == Client = "stops_first" => (Spec => []ExitIsClean)
<1>1. IInv => ExitIsClean
  BY DEF IInv, QuietInv, ExitIsClean
<1> QED
  BY <1>1, Invariant, PTL

-----------------------------------------------------------------------------
(* One master's state is replaced along an edge.                                         *)
LEMMA OneEdge ==
    ASSUME IInv, NEW m \in Insts, NEW state,
           bus_state' = [bus_state EXCEPT ![m] = state],
           state = bus_state[m] \/ <<bus_state[m], state>> \in Status!Edges
    PROVE  Status!Next
BY DEF Status!Next, IInv, Typed

(* Masters that are freed go to IDLE; after a stop they are in IDLE or STOPPED.              *)
LEMMA FreeEdge ==
    ASSUME IInv, \A m \in Insts : Quiet(m), NEW after, FreeMasters(after)
    PROVE  Status!Next
<1> SUFFICES ASSUME NEW m \in Insts
             PROVE  bus_state'[m] = bus_state[m]
                    \/ <<bus_state[m], bus_state'[m]>> \in Status!Edges
  BY DEF Status!Next
<1>1. bus_state'[m] \in {"IDLE", bus_state[m]} /\ bus_state[m] \in {"IDLE", "STOPPED"}
  BY DEF FreeMasters, Quiet
<1> QED
  BY <1>1 DEF Status!Edges

(* The steps of start and stop that replace the state of the current master.               *)
LEMMA ControlEdge == IInv /\ ControlStep => [Status!Next]_bus_state
<1> SUFFICES ASSUME IInv, ControlStep PROVE Status!Next \/ UNCHANGED bus_state
  OBVIOUS
<1>1. ASSUME ctl.pc \in StartPcs \cup StopPcs
      PROVE  Current \in Insts /\ PhaseAt(ctl.pc, bus_state[Current], held[Current])
  BY <1>1, CurrentInst DEF IInv, CtlInv, PhaseInv
<1>2. CASE StartMaster
  <2>1. PICK c \in Insts : c = Current /\ bus_state' = [bus_state EXCEPT ![c] = "SCANNING"]
    BY <1>1, <1>2 DEF StartMaster, StartPcs
  <2>2. <<bus_state[c], "SCANNING">> \in Status!Edges
    BY <1>2, <2>1 DEF StartMaster, Startable, Status!Edges
  <2> QED
    BY <2>1, <2>2, OneEdge
<1>3. ASSUME NEW phase, NEW state, NEW got, NEW pc, PhaseDone(phase, state, got, pc),
             <<phase, state>> \in {<<"scan", "CONFIGURING">>, <<"map", "TRANSITIONING">>,
                                   <<"to_op", "OPERATIONAL">>}
      PROVE  Status!Next
  <2>1. ctl.pc = phase /\ ctl.pc \in StartPcs \cup StopPcs
    BY <1>3 DEF PhaseDone, StartPcs
  <2>2. PICK c \in Insts : /\ c = Current /\ bus_state' = [bus_state EXCEPT ![c] = state]
                           /\ PhaseAt(phase, bus_state[c], held[c])
    BY <1>1, <1>3, <2>1 DEF PhaseDone
  <2>3. <<bus_state[c], state>> \in Status!Edges
    BY <1>3, <2>2 DEF PhaseAt, Status!Edges
  <2> QED
    BY <2>2, <2>3, OneEdge
<1>4. ASSUME NEW phase \in {"scan", "map", "to_op"}, NEW dropped, PhaseFailed(phase, dropped)
      PROVE  Status!Next
  <2>1. ctl.pc = phase /\ ctl.pc \in StartPcs \cup StopPcs
    BY <1>4 DEF PhaseFailed, StartPcs
  <2>2. PICK c \in Insts : /\ c = Current /\ bus_state' = [bus_state EXCEPT ![c] = "ERROR"]
                           /\ PhaseAt(phase, bus_state[c], held[c])
    BY <1>1, <1>4, <2>1 DEF PhaseFailed
  <2>3. <<bus_state[c], "ERROR">> \in Status!Edges
    BY <1>4, <2>2 DEF PhaseAt, Status!Edges, Status!Up
  <2> QED
    BY <2>2, <2>3, OneEdge
<1>5. CASE ScanDone \/ MapDone \/ ToOpDone
  BY <1>3, <1>5 DEF ScanDone, MapDone, ToOpDone
<1>6. CASE ScanFailed \/ MapFailed \/ ToOpFailed
  BY <1>4, <1>6 DEF ScanFailed, MapFailed, ToOpFailed
<1>7. CASE CreateFailed
  <2>1. ctl.pc \in {"monitor", "bus"} /\ ctl.pc \in StartPcs \cup StopPcs
    BY <1>7 DEF CreateFailed, StartPcs
  <2>2. PICK c \in Insts : /\ c = Current /\ bus_state' = [bus_state EXCEPT ![c] = "ERROR"]
                           /\ PhaseAt(ctl.pc, bus_state[c], held[c])
    BY <1>1, <1>7, <2>1 DEF CreateFailed
  <2>3. <<bus_state[c], "ERROR">> \in Status!Edges
    BY <2>1, <2>2 DEF PhaseAt, Status!Edges, Status!Up
  <2> QED
    BY <2>2, <2>3, OneEdge
<1>8. CASE CloseMaster
  <2>1. ctl.pc = "close" /\ ctl.pc \in StartPcs \cup StopPcs /\ ctl.pc \in Busy
    BY <1>8 DEF CloseMaster, StopPcs, Busy
  <2>2. PICK c \in Insts : /\ c = Current /\ bus_state' = [bus_state EXCEPT ![c] = "STOPPED"]
                           /\ PhaseAt(ctl.pc, bus_state[c], held[c])
    BY <1>1, <1>8, <2>1 DEF CloseMaster
  <2>3. bus_state[c] \in BusStates /\ ~Quiet(c) /\ bus_state[c] \notin Rising
    BY <2>1, <2>2 DEF IInv, Typed, QuietInv, PhaseAt
  <2>4. <<bus_state[c], "STOPPED">> \in Status!Edges
    BY <2>3 DEF BusStates, Quiet, Rising, Status!Edges
  <2> QED
    BY <2>2, <2>4, OneEdge
<1>9. CASE Exit
  BY <1>9, FreeEdge DEF Exit, IInv, QuietInv
<1>10. CASE SkipMaster \/ StopSkip \/ StopBus \/ StopMonitor \/ JoinBus \/ JoinMonitor
  BY <1>10 DEF SkipMaster, StopSkip, StopBus, StopMonitor, ClearFlag, JoinBus, JoinMonitor, Join
<1>11. CASE \E t \in Threads : CreateMonitor(t) \/ CreateBus(t)
  BY <1>11 DEF CreateMonitor, CreateBus
<1> QED
  BY <1>2, <1>5, <1>6, <1>7, <1>8, <1>9, <1>10, <1>11 DEF ControlStep, Create

(* A thread's round of work: the state it loaded is the one it replaces.                   *)
LEMMA ThreadEdge ==
    ASSUME IInv, NEW t \in Threads, ThreadStep(t) PROVE Status!Next \/ UNCHANGED bus_state
<1>1. CASE ThreadEnds(t) \/ ThreadBegins(t)
  BY <1>1 DEF ThreadEnds, ThreadBegins
<1>2. CASE ThreadWorks(t)
  <2>1. thr[t] # Unused /\ thr[t].pc = "work"
    BY <1>2 DEF ThreadWorks, Unused
  <2>2. PICK m \in Insts : m = thr[t].of /\ ThreadOk(t)
    BY <2>1, ThreadFacts
  <2>3. PICK state \in Outcomes(thr[t].kind, thr[t].state) \cup {bus_state[m]} :
            bus_state' = [bus_state EXCEPT ![m] = state]
    BY <1>2, <2>2 DEF ThreadWorks
  <2>4. CASE state \in Outcomes(thr[t].kind, thr[t].state)
    <3>1. bus_state[m] = thr[t].state
      BY <2>1, <2>2, <2>4 DEF ThreadOk
    <3>2. <<bus_state[m], state>> \in Status!Edges
      BY <2>4, <3>1 DEF Outcomes, Status!Edges, Status!Up
    <3> QED
      BY <2>3, <3>2, OneEdge
  <2>5. CASE state = bus_state[m]
    BY <2>3, <2>5, OneEdge
  <2> QED
    BY <2>3, <2>4, <2>5
<1> QED
  BY <1>1, <1>2 DEF ThreadStep

(* The three writers of a master's bus_state together follow the state machine of           *)
(* config.h:420: no late round of work of the bus thread or the monitor overwrites a state    *)
(* that stop, start or the other thread has set.                                           *)
THEOREM BusStateRefined == Client = "stops_first" => (Spec => ImplementsBusState)
<1> SUFFICES ASSUME Client = "stops_first" PROVE Spec => Status!Spec
  BY DEF ImplementsBusState
<1>1. Init => Status!Init
  BY DEF Init, Status!Init
<1>2. IInv /\ [Next]_vars => [Status!Next]_bus_state
  <2> SUFFICES ASSUME IInv, [Next]_vars PROVE Status!Next \/ UNCHANGED bus_state
    OBVIOUS
  <2>1. CASE Command
    <3>1. CASE ConfigureClear \/ \E g \in 1..Arrays : ConfigureLoad(g)
      <4>1. MayConfigure /\ \E after : FreeMasters(after)
        BY <3>1 DEF ConfigureClear, ConfigureLoad
      <4>2. \A m \in Insts : Quiet(m)
        BY <4>1 DEF MayConfigure, IInv, QuietInv
      <4> QED
        BY <4>1, <4>2, FreeEdge
    <3>2. CASE ~(ConfigureClear \/ \E g \in 1..Arrays : ConfigureLoad(g))
      BY <2>1, <3>2 DEF Command, StartCommand, StopCommand, OpenData, CloseData
    <3> QED
      BY <3>1, <3>2
  <2>2. CASE ControlStep
    BY <2>2, ControlEdge
  <2>3. CASE \E t \in Threads : ThreadStep(t)
    BY <2>3, ThreadEdge
  <2>4. CASE UNCHANGED vars
    BY <2>4 DEF vars
  <2> QED
    BY <2>1, <2>2, <2>3, <2>4 DEF Next, Exited
<1>3. Spec => []IInv
  BY Invariant
<1> QED
  BY <1>1, <1>2, <1>3, PTL DEF Spec, Status!Spec

=============================================================================
