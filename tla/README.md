# TLA+ models of EtherDOG

EtherDOG is an EtherCAT master service in C. A client configures and starts it
over a control socket, then exchanges process data with it over datagrams, one
frame per bus cycle in each direction. This directory holds TLA+ specifications
of the service, TLC configurations that check them on small instances, and
proofs checked by TLAPS. `PROJECT.json` maps every definition to the lines it
models and lists runs, findings, hazards and theorems.

To check a run: `tlc -workers 2 -config <cfg> <module>`; to check the proofs of
a module: `tlapm <module>.tla`.

## The system

| Part | Source | State it owns | Runs on |
|---|---|---|---|
| Control server | `control.c`, `main.c` | client slots, line buffers, stop flag | control thread |
| Lifecycle | `bus.c` (configure, start, stop, shutdown) | `g_masters`, `bus_state`, thread handles and flags | control thread |
| Configuration | `config.c` | parsed masters, slaves, PDOs, SDOs, stations | control thread |
| Start sequence | `bus.c:520-698`, `master.c` | SOEM context, IOmap, slaves' configuration | control thread |
| Layout | `layout.c` | where each PDO entry lies in the image | control thread |
| Bus cycle | `bus.c:836-1080` | error counters, AL poll counters | bus thread, one per master, SCHED_FIFO |
| Monitor and recovery | `bus.c:194-502`, `master.c:1046-1177` | `recovery_attempts`, `slavelist[]`, slaves snapshot | monitor thread, one per master, every 500 ms |
| Acyclic access | `bus.c` (`scan`, `test`, `scan-modules`, `diagnostics-slave`) | `acyclic_lock` | control thread, against the monitor |
| Data session | `data.c`, `dgram.c`, `etherdog_protocol.h` | socket, session, sequence numbers, output watchdog | bus thread and control thread, `data.lock` |
| Interface tuning | `iface_state.c` | NIC settings, state file | control thread; the file survives a crash |
| Log | `log.c` | ring of entries, sink position | every thread, one sink thread |

What interacts: the control thread creates and joins the other two threads and
frees what they use; the bus thread and the monitor both write `bus_state`
without a lock; the bus thread and the control thread share the data session
under a lock the bus thread only tries; the monitor reads counters the bus
thread publishes with two separate atomic increments; SDO reads of the control
thread and recoveries of the monitor exclude each other with `acyclic_lock`; all
clients are served by the one control thread; a crash leaves NIC settings behind
that the next start has to undo from a file.

## Modules and runs

| Module | Models | Passing run | Counterexample run | Proofs |
|---|---|---|---|---|
| `Recovery` (`MCRecovery`) | bus cycle, monitor pass in RECOVERING, `attempt_recovery`, the slaves | `recovery` | | `RecoveryProofs` |
| `AlPoll` | AL status poll, monitor pass in OPERATIONAL, slaves snapshot | as part of `Acyclic` | | `AlPollProofs` |
| `Acyclic` (extends `AlPoll`) | the rest of the monitor's pass, `acyclic_lock`, the commands that read SDOs | `monitor` | | `AcyclicProofs` |
| `Lifecycle`, `BusState` | configure, start, stop, shutdown; ownership of threads and resources | `lifecycle` | `lifecycle_restart` | `LifecycleProofs` |
| `DataSession`, `Outputs` | data session, output watchdog, datagrams | `data` | `data_reopen` | `DataSessionProofs` |
| `IfaceState` | capture, tune, persist, revert, crash | `iface` | `iface_crash` | `IfaceStateProofs` |
| `Log` | ring, sink thread, `logs` command | `log` | `log_next_id` | `LogProofs` |
| `ControlServer` (`MCControlServer`) | poll loop, client slots, line buffers, hello, replies, stop | `control` | | `ControlServerProofs` |
| `Config`, `Layout`, `Startup` (`MCStartup`) | parser rules, validation, start sequence, layout | `startup` | | |

`BusState` and `Outputs` are abstract specifications: what `status` may show of
a master over time, and what the data channel promises of the output image.
`Lifecycle` and `DataSession` are shown to implement them (`INSTANCE ... WITH`).

### Recovery

One master after `start_single_master` succeeded. The variables keep the names
of the C fields; `bus` and `mon` hold the program counter and the locals of the
two threads. Each atomic access the other thread can see is a step. The slaves
are the environment: they leave OP, sink, vanish and come back at any time, a
request may be refused and any frame may be lost.

`recovery` checks that the two writers of `bus_state` never overwrite each
other's update, that a recovery has a documented cause, that it ends in
OPERATIONAL only on a read with every slave in OP, and that the attempts are
enough for slaves that obey. It also checks that a recovery ends and that a
slave lost for good leads to ERROR.

Bounds: two slaves, one with process data and one without.
`consecutive_wkc_errors` and `consecutive_al_faults` saturate at their
thresholds, because their readers only compare with the threshold. The
thresholds are 2 so that a run of errors can be interrupted. There are three
attempts: reconfigure, request OP, confirm.

Fairness: both threads keep being scheduled. They sleep on timers; the monitor
also waits for `acyclic_lock`, which a command holds only for its SDO transfers,
and those have timeouts (the time limits are in `Acyclic`). The wire is assumed
not to lose every AL poll. Nothing is assumed of the slaves.

### AlPoll and Acyclic

The bus thread counts a reply with two increments, faults first; the monitor
loads the counters in the opposite order and, on new replies without a new
fault, marks every slave OPERATIONAL without asking (`AlPoll`). `Acyclic` adds
what else the monitor does in a pass, recovering slaves and draining mailboxes,
both under `acyclic_lock`, and the control thread's commands. `scan-modules` and
`diagnostics-slave` take the lock of a running master with a time limit; `scan`,
`test` and `scan-modules` on another interface open a SOEM context of their own.
The steps of a command are its acquisitions and its SDO reads; what is read is
left out.

`monitor` checks that a command is answered within the time docs/PROTOCOL.md
states, even when the monitor never gives the lock back, that it keeps a
recovery waiting for no longer than the code says, and that no unhealthy reply
is taken for a healthy one in between.

Time is counted in ticks and passes only while the control thread waits for the
lock or for a slave. The limits are 1 for the lock, 3 for the diagnostics budget
and 2 for an SDO, so that the budget ends within a read; three modules, one of
them without an index; `MaxReplies` is 3. The theorems are for any values. The
slaves count as one. An unlock hands the mutex to the thread that waits, as the
priority-inheriting mutex does; builds without that protocol (Cygwin) promise
less, and `RecoveryRunsBetweenReads` is not about them.

Fairness: the control thread is scheduled and time goes on. Nothing is assumed
of the monitor.

### Lifecycle

The control thread runs one command at a time, in the steps between which other
threads can act; thread creation and every phase of a start may fail. `held`
records what each instance owns. `lifecycle` has three masters, one without
slaves, and four threads: two running masters. Its client sends `stop` before
each `start` and `configure` (`Client = "stops_first"`). Without that assumption
the properties do not hold: see `lifecycle_restart`.

Fairness: the control thread blocks only in `join`, and each thread is scheduled.

### DataSession

Frames are lost, reordered and late; a frame may outlive its session. The wire
sequence number is taken modulo `2 * Half` (2^32 in the code, 6 in the run) and
the client begins shortly before the wrap. A frame is assumed to arrive before
the sequence number has moved on by half its range (`WithinHalf`): 2^31 cycles.
`Outputs` has no such number; it speaks of the age of frames. At most four frames, two sessions and
two frames in flight. Sessions get distinct ids, as `random_session` makes them
up to chance. A cycle time of 50 ms makes the watchdog three cycles long.

Fairness: the bus thread runs; the control thread gives the lock back and does
not hold it at every one of the bus thread's tries. `EventuallySafe` is about a
client that stops sending, which the bound on frames ensures.

### IfaceState

Two groups of settings, one `ethtool` call each, three values. The process may
crash between any two steps; the interface and the file survive. `Faults` names
what else may go wrong. The passing run and the theorems take `Faults = {}`: no
call fails, the file can be written and no crash falls between tuning and
writing. `iface_crash` allows that last one alone.

### Log

A ring of two entries, three entries logged, two levels. The sink thread
connects, waits, sends and reconnects; the log server goes up and down. Every
send ends, with or without success. Fairness: the sink thread keeps running.

### ControlServer

A connection carries a stream of symbols: text inside a line, or the end of a
line, which stands for the request the line makes. `recv` hands out any piece of
it. A slot is a `client_t`; the thread's program counter is its place in
`edog_control_run`, `service_client` or a blocking `send_all`. Clients connect,
send, read and hang up at any time, and a signal may come at any time. What a
command does is left to the other modules.

`control` checks that requests are answered once and in order, that no command
is executed before the right `hello` whoever had the slot before, that nobody who
keeps to the protocol is dropped, that every request is answered and that
`shutdown` and a signal end the server.

Bounds: two slots and three clients. One makes two requests, in pieces or at
once, in a buffer of two symbols, and may hang up; one has the wrong token and
sends empty lines; one only connects, so that the slots run out. At most two
symbols wait to be received and one reply to be read.

Fairness: the control thread is scheduled, and clients read their replies.
Without the second `RequestsAnswered` and `StopEnds` do not hold: `send_all`
blocks, and a signal does not end it.

### Config, Layout, Startup

`Config` states what the parser and `ecat_config_validate` refuse, `Layout` how
SOEM packs slaves into the image and what `layout.c` publishes, `Startup` the
start of one master phase by phase. Writes, reads and transitions fail at will.
A device is its identity, its mappings and what it was told.

The run loads eleven files on five buses: one or two masters, a terminal without
a mailbox and a drive with a fixed PDO, swapped, missing or mapped differently.
`StationRules` compares the loop of `validate_station` with a definition without
loops on 80,217 stations of up to two slot definitions and three slots (those
the parser would refuse are skipped); that half of it depends on no variable, so
it is evaluated in the initial states only. SDO types are those of up to 16 bits.
The slack and minimum of the IOmap are set to their smallest values so that sizing
errors are not hidden.

A master that reached OPERATIONAL and failed afterwards stays open in ERROR; as
in `lifecycle`, the client is assumed to stop it first.

## Findings

Each is a run in which TLC finds a behaviour of the model that contradicts a
sentence of the repository. They come from the models and were not reproduced on
a running service.

- `lifecycle_restart`: `start` on a master in ERROR after a failed recovery
  starts it over its running threads (`bus.c:1232`; PROTOCOL.md:50 "Safe to
  repeat").
- `data_reopen`: `open_data` restarts the output watchdog and keeps the outputs
  (`data.c:153`; PROTOCOL.md:189).
- `iface_crash`: the interface is tuned before the state file is written
  (`iface_state.c:374`; comment at `:13`).
- `log_next_id`: an entry logged between the query and `edog_log_next_id` is
  skipped by a client that follows `next_id` (`control.c:221`; PROTOCOL.md:99).

## Proofs

Every theorem is for all values of the constants that satisfy the assumptions
named in the modules.

- `RecoveryProofs`: type correctness, `StateOwnership`,
  `AttemptsCountTheRecovery`, `BusStateGraph`, `RecoveredMeansAllOp`,
  `RecoveryIsJustified`. The invariant adds `MonitorDecided` (what the monitor
  has decided but not stored fixes `recovery_attempts` and `slavelist`) and
  `CountersWithinRun` (the shared counter never exceeds the run of short
  exchanges, despite the monitor's resets).
- `AcyclicProofs`: `AnswerInTime`, `RecoveryRunsBetweenReads`, and that `Acyclic`
  implements `AlPoll` (`ImplementsAlPoll`), from which `NoFaultOverlooked` holds
  for it too. The invariant relates the clock of the command to its deadline: a
  read in progress has no more time than the deadline leaves, and the monitor
  has been waiting only since the read began.
- `AlPollProofs`: `NoFaultOverlooked`. The invariant states what the order of
  the increments and of the loads gives: the fault of a counted reply is
  counted, and the monitor has loaded the faults of the replies it saw.
- `DataSessionProofs`: `WatchdogArmed`, and `RefinesOutputs`: the data session
  implements `Outputs`. The invariant says that all frames on the way and the
  last one accepted are less than half the range apart, and that before a session
  has accepted a frame all its frames are younger than what was applied before.
  The arithmetic lemma is that the signed difference of `edog_seq_newer` then
  tells the order of any two.
- `IfaceStateProofs`: `OriginalsKept`, `SavedIsBefore`, `RestoredWhenDone`, all
  under `Faults = {}`. The invariant (`Whereabouts`) says for each step where the
  former settings are.
- `LogProofs`: `RingIsFaithful`, `StreamInOrder`. The invariant adds that a slot
  never holds an entry older than an id that maps to it, and that what was
  streamed lies behind the sink's place. The arithmetic lemma is that ids less
  than a ring apart have different slots.
- `ControlServerProofs`: `AuthBeforeCommand`, `AnswersInOrder`. The invariant is
  about the stream of a slot, the buffer followed by what is not received yet:
  it holds exactly the requests after the last one handled, in order (`Holds`),
  and an unauthenticated slot has handled none, but for one that ends its
  connection. `recv` leaves that stream as it is, sending appends to it, and a
  line that is handled is its first.
- `LifecycleProofs`: `OneOwner`, `NoUseAfterFree`, `StoppedIsQuiet`,
  `ExitIsClean`, and that `Lifecycle` implements `BusState`, all for
  `Client = "stops_first"` (`lifecycle_restart` shows why). The invariant says
  where in a command which masters are idle or stopped (`QuietInv`), what goes
  with the place of the control thread (`PhaseInv`), and that a thread is the one
  its instance has the handle of, has its flag set unless the control thread
  waits for it, and finds the state it is about to replace still there
  (`ThreadInv`). That last part is why no late round of work overwrites a state
  set by `stop` or by the other thread.

Only model-checked, on the instances above: all liveness properties (the prover
does not handle fairness), `EnoughAttempts`, `RepliesInOrder`,
`DropsAreDeserved`, and everything about `Startup`.

## Not modelled

- In the control server: opening the listener, a failing `poll`, NUL bytes in a
  stream. In the commands: `list-interfaces`, what `scan` and `test` find, and
  how replies are built.
- The length of one drain of the data socket (`data.c:193`), and output of
  `ethtool` that is only partly parsed (`iface_state.c:106`).
- JSON, command-line options, socket addresses, child processes: input and
  output without state of their own.
- Distributed clocks, and durations other than those of `Acyclic` and the output
  watchdog: a timeout is an outcome.
- SOEM and the devices, except for what the code observes of them.

## Observations without a run

Found while reading; no run shows them.

- A recovery whose last attempt succeeds still ends in ERROR (`bus.c:347`).
- `bit_length` is cut to eight bits (`config.c:381`), and 64-bit SDO values from
  2^63 up pass the range check but not the cast (`master.c:339`).
- The wait on the way to OP can exceed the quarter of the watchdog its comment
  promises (`master.c:861`).
- The comment at `master.c:732` calls an IOmap mismatch unreachable; a mailbox
  that is silent while sizing and answers SOEM reaches it. The model has this
  path; the start fails.
- A slave whose SDOs do not assign its PDOs gets a layout from the configuration
  that nothing compares with its mapping.
- Failure after a scan closes the socket before `ecat_master_close`, so the
  slaves stay in PRE-OP.
- Failed restores of NIC settings are forgotten (`iface_state.c:340`).
- `edog_log_stop_sink` does not send what is left, although `log.h:58` says it
  flushes what it can.
- `send_all` (`control.c:150`) blocks on a client that does not read; the stop
  flag is then not looked at. (`control` assumes that clients read.)
- A slot freed while clients are served is given out in the next iteration only,
  after the poll.
- `scan-modules` holds `acyclic_lock` for its whole list, and a recovery waits
  that long; `diagnostics-slave` gives it back between reads.
- A `diagnostics-slave` that got the lock once may still answer with another
  error, or with nulls, when a recovery begins right after (1 s and then 2 s).
- `scan` and `test` are allowed while a master in ERROR still has its context
  open on the same interface.
- A master in ERROR after its bus thread could not be created is reported as
  "starting or stopping, retry", which no retry changes.

## Plan

1. `Lifecycle` with `Recovery` composed, in place of "may fail at any time".
2. Proofs: `Startup` (`FailedIsReleased`, `StrictIsConfigured`),
   `DropsAreDeserved`.
3. `IfaceState` with `ethtool` and disk faults, stating what still holds.
4. `ControlServer` with the commands of `Lifecycle` and `Acyclic` composed: how
   long one client's command keeps the others waiting.
