------------------------------ MODULE Lifecycle ------------------------------
(***************************************************************************)
(* configure, start, stop and shutdown of src/bus.c.  The control thread runs  *)
(* the commands one at a time, each in several steps; a started master has a   *)
(* bus thread and a monitor thread, which are told to end through two flags    *)
(* and are joined.  The module is about who owns what: instances on the heap,   *)
(* threads, the SOEM socket, the tuned interface, the process image, the data   *)
(* session.                                                                    *)
(*                                                                           *)
(* Why a running master goes to RECOVERING and to ERROR is module Recovery's   *)
(* subject; here it may do so at any time.                                     *)
(***************************************************************************)
EXTENDS Naturals, FiniteSets

CONSTANTS
    N,           \* masters in a configuration (g_master_count)
    NoSlaves,    \* the ones configured without slaves
    Arrays,      \* bound: arrays of masters the heap has room for
    Threads,     \* bound: threads that may exist at one time
    NoThread,
    Client       \* "stops_first": the client sends stop before each start and configure;
                 \* "any": it sends commands in any order

ASSUME LifecycleAssumptions ==
    /\ N \in Nat \ {0}
    /\ NoSlaves \subseteq 1..N
    /\ Arrays \in Nat \ {0}
    /\ NoThread \notin Threads
    /\ Client \in {"stops_first", "any"}

Insts == (1..Arrays) \X (1..N)   \* an instance: which array, which element

BusStates == {"IDLE", "SCANNING", "CONFIGURING", "TRANSITIONING", "OPERATIONAL",
              "RECOVERING", "ERROR", "STOPPED"}

(* What an instance holds.                                                     *)
Resources == {"soem", "iface", "iomap", "snapshot", "layout", "buffers", "session",
              "bus_running", "monitor_running"}

(* What must be given back to the system outside the process.                  *)
External == {"soem", "iface"}

VARIABLES
    g_masters,  \* the current array, 0 when there is none
    heap,       \* per array: "free", "live", "leaked"
    bus_state,  \* per instance
    held,       \* per instance: the resources it holds
    bus_thread, monitor_thread,  \* per instance: the handle of the last thread created
    thr,        \* per thread: [kind, of, pc, state]
    ctl,        \* control thread: [pc, cmd, i], i the master of the loop
    lost,       \* external resources no instance holds any more, still open
    last        \* the last of the commands start and stop

vars == <<g_masters, heap, bus_state, held, bus_thread, monitor_thread, thr, ctl, lost, last>>

NoInst == <<0, 0>>
Unused == [kind |-> "none", of |-> NoInst, pc |-> "none", state |-> "none"]
Live(t) == thr[t].pc \in {"check", "work"}
ThreadsOf(m, kind) == {t \in Threads : thr[t].kind = kind /\ thr[t].of = m /\ Live(t)}

Init ==
    /\ g_masters = 0
    /\ heap = [g \in 1..Arrays |-> "free"]
    /\ bus_state = [m \in Insts |-> "IDLE"]
    /\ held = [m \in Insts |-> {}]
    /\ bus_thread = [m \in Insts |-> NoThread]
    /\ monitor_thread = [m \in Insts |-> NoThread]
    /\ thr = [t \in Threads |-> Unused]
    /\ ctl = [pc |-> "poll", cmd |-> "none", i |-> 1]
    /\ lost = {}
    /\ last = "stop"

Current == <<g_masters, ctl.i>>   \* &g_masters[i]
Masters == {m \in Insts : m[1] = g_masters}

-----------------------------------------------------------------------------
(* configure *)

\* ecat_bus_any_active: a master in ERROR does not count.
AnyActive == \E m \in Masters : bus_state[m] \notin {"IDLE", "STOPPED", "ERROR"}

\* destroy_instance refuses while one of the threads is flagged as running.
Destroyable(m) == held[m] \cap {"bus_running", "monitor_running"} = {}
Destroyed == {m \in Masters : Destroyable(m)}

\* free_masters: the array is leaked when one of its instances is not destroyed.  What a
\* destroyed instance held outside the process stays open; its memory may be used again.
FreeMasters(heapAfter) ==
    /\ held' = [m \in Insts |-> IF m \in Destroyed THEN {} ELSE held[m]]
    /\ lost' = lost \cup (External \cap UNION {held[m] : m \in Destroyed})
    /\ bus_state' = [m \in Insts |-> IF m \in Destroyed THEN "IDLE" ELSE bus_state[m]]
    /\ heap' = [g \in 1..Arrays |->
                    IF g # g_masters THEN heapAfter[g]
                    ELSE IF Destroyed = Masters THEN "free" ELSE "leaked"]

MayConfigure ==
    /\ ctl.pc = "poll"
    /\ ~AnyActive
    /\ Client = "stops_first" => last = "stop"

\* configure without a path
ConfigureClear ==
    /\ MayConfigure
    /\ g_masters # 0
    /\ FreeMasters(heap)
    /\ g_masters' = 0
    /\ UNCHANGED <<bus_thread, monitor_thread, thr, ctl, last>>

\* configure with a path that parses; one that does not changes nothing.  The new array
\* is allocated before the old one is freed.
ConfigureLoad(g) ==
    /\ MayConfigure
    /\ heap[g] = "free"
    /\ FreeMasters([heap EXCEPT ![g] = "live"])
    /\ g_masters' = g
    /\ UNCHANGED <<bus_thread, monitor_thread, thr, ctl, last>>

-----------------------------------------------------------------------------
(* start: ecat_bus_start's loop over start_single_master *)

\* The loop moves on to the next master, or the command is answered.
NextMaster(after) ==
    ctl' = IF ctl.i < N THEN [ctl EXCEPT !.pc = ctl.cmd, !.i = ctl.i + 1]
           ELSE [pc |-> after, cmd |-> IF after = "poll" THEN "none" ELSE ctl.cmd, i |-> 1]

StartCommand ==
    /\ ctl.pc = "poll"
    /\ g_masters # 0
    /\ Client = "stops_first" => last = "stop"
    /\ ctl' = [pc |-> "start", cmd |-> "start", i |-> 1]
    /\ last' = "start"
    /\ UNCHANGED <<g_masters, heap, bus_state, held, bus_thread, monitor_thread, thr, lost>>

\* Only these states start; a master without slaves is skipped, state unchanged.
Startable == bus_state[Current] \in {"IDLE", "STOPPED", "ERROR"} /\ ctl.i \notin NoSlaves

SkipMaster ==
    /\ ctl.pc = "start"
    /\ ~Startable
    /\ NextMaster("poll")
    /\ UNCHANGED <<g_masters, heap, bus_state, held, bus_thread, monitor_thread, thr, last, lost>>

\* SCANNING; open_and_scan zeroes the SOEM context, so a socket still open is lost, and
\* frees what an earlier start left.
StartMaster ==
    /\ ctl.pc = "start"
    /\ Startable
    /\ bus_state' = [bus_state EXCEPT ![Current] = "SCANNING"]
    /\ held' = [held EXCEPT ![Current] = @ \ {"iomap", "snapshot"}]
    /\ lost' = lost \cup ({"soem"} \cap held[Current])
    /\ ctl' = [ctl EXCEPT !.pc = "scan"]
    /\ UNCHANGED <<g_masters, heap, bus_thread, monitor_thread, thr, last>>

\* ecat_master_close: outputs zeroed, slaves to INIT, socket closed, interface reverted.
Closed(r) == r \ {"soem", "iface", "iomap", "snapshot"}

\* The phase after which start_single_master goes on to pc, having taken what it got, ...
PhaseDone(phase, state, got, pc) ==
    /\ ctl.pc = phase
    /\ bus_state' = [bus_state EXCEPT ![Current] = state]
    /\ held' = [held EXCEPT ![Current] = @ \cup got]
    /\ ctl' = [ctl EXCEPT !.pc = pc]
    /\ UNCHANGED <<g_masters, heap, bus_thread, monitor_thread, thr, last, lost>>

\* ... and the phase that fails: the master is closed and goes to ERROR.
PhaseFailed(phase, dropped) ==
    /\ ctl.pc = phase
    /\ bus_state' = [bus_state EXCEPT ![Current] = "ERROR"]
    /\ held' = [held EXCEPT ![Current] = Closed(@) \ dropped]
    /\ NextMaster("poll")
    /\ UNCHANGED <<g_masters, heap, bus_thread, monitor_thread, thr, last, lost>>

\* ecat_master_open_and_scan
ScanDone == PhaseDone("scan", "CONFIGURING", {"soem", "iface", "iomap", "snapshot"}, "map")
ScanFailed == PhaseFailed("scan", {})

\* SDO writes, fixed mappings, process data mapping, layout, frame buffers; the layout is
\* destroyed when building it, or allocating the buffers, fails.
MapDone == PhaseDone("map", "TRANSITIONING", {"layout", "buffers"}, "to_op")
MapFailed == \E dropped \in {{}, {"layout"}} : PhaseFailed("map", dropped)

\* ecat_master_transition_to_op; a failure leaves layout and buffers.
ToOpDone == PhaseDone("to_op", "OPERATIONAL", {}, "monitor")
ToOpFailed == PhaseFailed("to_op", {})

Spawned(t, kind) == [thr EXCEPT ![t] = [kind |-> kind, of |-> Current, pc |-> "check",
                                        state |-> "none"]]

\* pthread_create of the monitor, then of the bus thread.  Where one fails the master
\* goes to ERROR with everything still open, and the monitor still running.
CreateMonitor(t) ==
    /\ ctl.pc = "monitor"
    /\ thr[t] = Unused
    /\ thr' = Spawned(t, "monitor")
    /\ monitor_thread' = [monitor_thread EXCEPT ![Current] = t]
    /\ held' = [held EXCEPT ![Current] = @ \cup {"monitor_running"}]
    /\ ctl' = [ctl EXCEPT !.pc = "bus"]
    /\ UNCHANGED <<g_masters, heap, bus_state, bus_thread, last, lost>>

CreateBus(t) ==
    /\ ctl.pc = "bus"
    /\ thr[t] = Unused
    /\ thr' = Spawned(t, "bus")
    /\ bus_thread' = [bus_thread EXCEPT ![Current] = t]
    /\ held' = [held EXCEPT ![Current] = @ \cup {"bus_running"}]
    /\ NextMaster("poll")
    /\ UNCHANGED <<g_masters, heap, bus_state, monitor_thread, last, lost>>

CreateFailed ==
    /\ ctl.pc \in {"monitor", "bus"}
    /\ held' = [held EXCEPT ![Current] =
                    @ \ {IF ctl.pc = "bus" THEN "bus_running" ELSE "monitor_running"}]
    /\ bus_state' = [bus_state EXCEPT ![Current] = "ERROR"]
    /\ NextMaster("poll")
    /\ UNCHANGED <<g_masters, heap, bus_thread, monitor_thread, thr, last, lost>>

-----------------------------------------------------------------------------
(* stop: stop_single_master for every master; shutdown, on the command or a signal, does   *)
(* the same, frees the masters and ends the process.                                     *)

StopCommand(cmd) ==
    /\ ctl.pc = "poll"
    /\ cmd = "stop" => g_masters # 0
    /\ ctl' = [pc |-> IF g_masters = 0 THEN "free" ELSE cmd, cmd |-> cmd, i |-> 1]
    /\ UNCHANGED <<g_masters, heap, bus_state, held, bus_thread, monitor_thread, thr, last, lost>>

AfterStop == IF ctl.cmd = "shutdown" THEN "free" ELSE "poll"

\* A slip in StopSkip: a master in ERROR counts as stopped.
StopSkipsError ==
    /\ ctl.pc \in {"stop", "shutdown"}
    /\ bus_state[Current] \in {"IDLE", "STOPPED", "ERROR"}
    /\ NextMaster(AfterStop)
    /\ last' = IF ctl.i = N THEN "stop" ELSE last
    /\ UNCHANGED <<g_masters, heap, bus_state, held, bus_thread, monitor_thread, thr, lost>>

\* A stopped or idle master is left alone.
StopSkip ==
    /\ ctl.pc \in {"stop", "shutdown"}
    /\ bus_state[Current] \in {"IDLE", "STOPPED"}
    /\ NextMaster(AfterStop)
    /\ last' = IF ctl.i = N THEN "stop" ELSE last
    /\ UNCHANGED <<g_masters, heap, bus_state, held, bus_thread, monitor_thread, thr, lost>>

\* Clear a running flag and go on to join, or skip both when it is clear already.
ClearFlag(flag, join, next) ==
    /\ held' = [held EXCEPT ![Current] = @ \ {flag}]
    /\ ctl' = [ctl EXCEPT !.pc = IF flag \in held[Current] THEN join ELSE next]
    /\ UNCHANGED <<g_masters, heap, bus_state, bus_thread, monitor_thread, thr, last, lost>>

\* Slips in StopBus and StopMonitor: no join, or a join before the flag is cleared.
StopBusNoJoin ==
    /\ ctl.pc \in {"stop", "shutdown"}
    /\ bus_state[Current] \notin {"IDLE", "STOPPED"}
    /\ ClearFlag("bus_running", "stop_monitor", "stop_monitor")

StopBusJoinsFirst ==
    /\ ctl.pc \in {"stop", "shutdown"}
    /\ bus_state[Current] \notin {"IDLE", "STOPPED"}
    /\ ctl' = [ctl EXCEPT !.pc = IF "bus_running" \in held[Current] THEN "join_bus" ELSE "stop_monitor"]
    /\ UNCHANGED <<g_masters, heap, bus_state, held, bus_thread, monitor_thread, thr, last, lost>>

StopMonitorNoJoin ==
    /\ ctl.pc = "stop_monitor"
    /\ ClearFlag("monitor_running", "close", "close")

StopBus ==
    /\ ctl.pc \in {"stop", "shutdown"}
    /\ bus_state[Current] \notin {"IDLE", "STOPPED"}
    /\ ClearFlag("bus_running", "join_bus", "stop_monitor")

StopMonitor ==
    /\ ctl.pc = "stop_monitor"
    /\ ClearFlag("monitor_running", "join_monitor", "close")

\* pthread_join of the thread whose handle the instance has.  Nobody reads the handle
\* after it.
Join(pc, t, next) ==
    /\ ctl.pc = pc
    /\ thr[t].pc = "done"
    /\ thr' = [thr EXCEPT ![t] = Unused]
    /\ ctl' = [ctl EXCEPT !.pc = next]
    /\ UNCHANGED <<g_masters, heap, bus_state, held, lost, last>>

JoinBus ==
    /\ Join("join_bus", bus_thread[Current], "stop_monitor")
    /\ bus_thread' = [bus_thread EXCEPT ![Current] = NoThread]
    /\ UNCHANGED monitor_thread

JoinMonitor ==
    /\ Join("join_monitor", monitor_thread[Current], "close")
    /\ monitor_thread' = [monitor_thread EXCEPT ![Current] = NoThread]
    /\ UNCHANGED bus_thread

\* A slip in CloseMaster: the data session is not closed.
CloseMasterKeepsSession ==
    /\ ctl.pc = "close"
    /\ held' = [held EXCEPT ![Current] = Closed(@ \ {"buffers", "layout"})]
    /\ bus_state' = [bus_state EXCEPT ![Current] = "STOPPED"]
    /\ NextMaster(AfterStop)
    /\ last' = IF ctl.i = N THEN "stop" ELSE last
    /\ UNCHANGED <<g_masters, heap, bus_thread, monitor_thread, thr, lost>>

\* Session, buffers, layout, then ecat_master_close, then STOPPED.
CloseMaster ==
    /\ ctl.pc = "close"
    /\ held' = [held EXCEPT ![Current] = Closed(@ \ {"session", "buffers", "layout"})]
    /\ bus_state' = [bus_state EXCEPT ![Current] = "STOPPED"]
    /\ NextMaster(AfterStop)
    /\ last' = IF ctl.i = N THEN "stop" ELSE last
    /\ UNCHANGED <<g_masters, heap, bus_thread, monitor_thread, thr, lost>>

\* free_masters, and main returns.
Exit ==
    /\ ctl.pc = "free"
    /\ FreeMasters(heap)
    /\ g_masters' = 0
    /\ ctl' = [ctl EXCEPT !.pc = "exited"]
    /\ UNCHANGED <<bus_thread, monitor_thread, thr, last>>

-----------------------------------------------------------------------------
(* open_data and close_data *)

Running(m) == bus_state[m] \in {"OPERATIONAL", "RECOVERING"}   \* master_has_layout

\* Masters before the one that fails get a session, that one loses its old one, the
\* rest keep theirs; nobody fails when failing is N + 1.
OpenData(failing) ==
    /\ ctl.pc = "poll"
    /\ held' = [m \in Insts |->
                    IF m \notin Masters \/ ~Running(m) \/ m[2] > failing THEN held[m]
                    ELSE IF m[2] < failing /\ "buffers" \in held[m]
                         THEN held[m] \cup {"session"} ELSE held[m] \ {"session"}]
    /\ UNCHANGED <<g_masters, heap, bus_state, bus_thread, monitor_thread, thr, ctl, last, lost>>

CloseData ==
    /\ ctl.pc = "poll"
    /\ held' = [m \in Insts |-> IF m \in Masters THEN held[m] \ {"session"} ELSE held[m]]
    /\ UNCHANGED <<g_masters, heap, bus_state, bus_thread, monitor_thread, thr, ctl, last, lost>>

-----------------------------------------------------------------------------
(* The two threads.  Their flag is tested between two rounds of work. *)

Flag(t) == IF thr[t].kind = "bus" THEN "bus_running" ELSE "monitor_running"

ThreadEnds(t) ==
    /\ ctl.pc # "exited"
    /\ thr[t].pc = "check"
    /\ Flag(t) \notin held[thr[t].of]
    /\ thr' = [thr EXCEPT ![t].pc = "done"]
    /\ UNCHANGED <<g_masters, heap, bus_state, held, bus_thread, monitor_thread, ctl, last, lost>>

\* A round begins with bus_state; in other states than these there is nothing to do.
ThreadBegins(t) ==
    /\ ctl.pc # "exited"
    /\ thr[t].pc = "check"
    /\ Flag(t) \in held[thr[t].of]
    /\ Running(thr[t].of)
    /\ thr' = [thr EXCEPT ![t].pc = "work", ![t].state = bus_state[thr[t].of]]
    /\ UNCHANGED <<g_masters, heap, bus_state, held, bus_thread, monitor_thread, ctl, last, lost>>

\* What a round of work may do to bus_state, given the state loaded at its beginning: the
\* bus thread reports a fault, the monitor ends a recovery.
Outcomes(kind, state) ==
    {s \in BusStates : \/ kind = "bus" /\ state = "OPERATIONAL" /\ s = "RECOVERING"
                       \/ kind = "monitor" /\ state = "RECOVERING" /\ s \in {"OPERATIONAL", "ERROR"}}

ThreadWorks(t) ==
    /\ ctl.pc # "exited"
    /\ thr[t].pc = "work"
    /\ \E s \in Outcomes(thr[t].kind, thr[t].state) \cup {bus_state[thr[t].of]} :
           bus_state' = [bus_state EXCEPT ![thr[t].of] = s]
    /\ thr' = [thr EXCEPT ![t].pc = "check", ![t].state = "none"]
    /\ UNCHANGED <<g_masters, heap, held, bus_thread, monitor_thread, ctl, last, lost>>

-----------------------------------------------------------------------------
Command ==
    \/ ConfigureClear
    \/ \E g \in 1..Arrays : ConfigureLoad(g)
    \/ StartCommand
    \/ StopCommand("stop") \/ StopCommand("shutdown")
    \/ \E failing \in 1..(N + 1) : OpenData(failing)
    \/ CloseData

Create == CreateFailed \/ \E t \in Threads : CreateMonitor(t) \/ CreateBus(t)

ControlStep ==
    \/ SkipMaster \/ StartMaster
    \/ ScanDone \/ ScanFailed \/ MapDone \/ MapFailed \/ ToOpDone \/ ToOpFailed
    \/ Create
    \/ StopSkip \/ StopBus \/ JoinBus \/ StopMonitor \/ JoinMonitor \/ CloseMaster
    \/ Exit

ThreadStep(t) == ThreadBegins(t) \/ ThreadWorks(t) \/ ThreadEnds(t)

\* The process is gone.
Exited == ctl.pc = "exited" /\ UNCHANGED vars

Next == Command \/ ControlStep \/ (\E t \in Threads : ThreadStep(t)) \/ Exited

Spec == Init /\ [][Next]_vars

(* The control thread does not block except in join; each thread is scheduled.        *)
FairSpec == Spec /\ WF_vars(ControlStep) /\ \A t \in Threads : WF_vars(ThreadStep(t))

-----------------------------------------------------------------------------
(* "Only this thread touches the IOmap" (bus.c:831), "before the monitor and bus   *)
(* threads exist: no concurrency yet" (bus.c:663): an instance has at most one bus  *)
(* thread and one monitor thread, and none while the control thread brings it up   *)
(* or closes it.                                                                  *)
ControlOwns(m, kind) ==
    /\ m = Current
    /\ \/ ctl.pc \in {"scan", "map", "to_op", "monitor", "close"}
       \/ ctl.pc = "bus" /\ kind = "bus"

OneOwner ==
    \A m \in Insts, kind \in {"bus", "monitor"} :
        /\ Cardinality(ThreadsOf(m, kind)) <= 1
        /\ ControlOwns(m, kind) => ThreadsOf(m, kind) = {}

(* The same for the bus thread alone, whatever the client sends.                    *)
OneBusThread == \A m \in Insts : Cardinality(ThreadsOf(m, "bus")) <= 1

(* A thread never outlives its instance (free_masters, bus.c:1129), and whatever a   *)
(* round of its work reads is there for the whole round: the context, the process   *)
(* image and the layout for the bus thread, the context and the snapshot for the    *)
(* monitor.                                                                        *)
Needs(kind) == IF kind = "bus" THEN {"soem", "iomap", "layout"} ELSE {"soem", "snapshot"}

NoUseAfterFree ==
    \A t \in Threads : Live(t) =>
        /\ heap[thr[t].of[1]] # "free"
        /\ thr[t].pc = "work" => Needs(thr[t].kind) \subseteq held[thr[t].of]

(* stop_single_master takes back all that any failed or successful start handed out: *)
(* a master that shows IDLE or STOPPED has no thread and holds nothing.              *)
StoppedIsQuiet ==
    \A m \in Insts : bus_state[m] \in {"IDLE", "STOPPED"} =>
        /\ held[m] = {}
        /\ \A kind \in {"bus", "monitor"} : ThreadsOf(m, kind) = {}

(* docs/PROTOCOL.md:193 "EtherDOG drives the outputs to zero whenever it leaves the   *)
(* bus: on stop, on shutdown, and when it receives SIGINT ...": once the process has  *)
(* exited, ecat_master_close has been through every master it ever opened.            *)
ExitIsClean ==
    ctl.pc = "exited" => lost = {} /\ \A m \in Insts : held[m] \cap External = {}

(* The three writers of bus_state (control, bus thread, monitor) together follow the   *)
(* state machine of BusState for every master.                                       *)
Status == INSTANCE BusState WITH Masters <- Insts, state <- bus_state
ImplementsBusState == Status!Spec

(* stop and start end: no join waits for ever (bus.c:721, :731), and a shutdown gets   *)
(* to the exit.                                                                      *)
CommandsEnd ==
    /\ ctl.cmd \in {"start", "stop"} ~> ctl.pc = "poll"
    /\ ctl.cmd = "shutdown" ~> ctl.pc = "exited"

=============================================================================
