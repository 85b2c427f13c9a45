----------------------------- MODULE DataSession -----------------------------
(***************************************************************************)
(* The cyclic data session of src/data.c for one master: the control thread    *)
(* opens and closes it, the bus thread drains the datagram socket at the start *)
(* of each cycle and writes the newest outputs, or zeros, into the process      *)
(* image.  Both take the session lock; the bus thread only tries to.            *)
(*                                                                           *)
(* Frames travel over a datagram socket that may lose and reorder them.  A      *)
(* frame carries the number n of its place in the client's stream, from which   *)
(* the wire sequence number is taken modulo 2 * Half (2^32 in the code).        *)
(***************************************************************************)
EXTENDS Integers, Sequences, FiniteSets

CONSTANTS
    Half,         \* half the range of the sequence number
    CycleTimeUs,  \* config.master.cycle_time_us
    FirstN,       \* the client's first frame: where in the range it begins
    MaxFrames,    \* bound: frames sent in a behaviour
    MaxSessions,  \* bound: sessions opened in a behaviour
    MaxInFlight   \* bound: frames on the way or waiting in the socket

ASSUME DataAssumptions ==
    /\ Half \in Nat \ {0, 1}
    /\ CycleTimeUs \in Nat
    /\ FirstN \in Nat \ {0}
    /\ {MaxFrames, MaxSessions, MaxInFlight} \subseteq Nat

VARIABLES
    session,    \* d->session, 0 when d->open is false
    opened,     \* sessions opened so far: ids are distinct, as random_session makes them
    lock,       \* d->lock: "free", "control" or "bus"
    rx_last,    \* d->rx_last_seq, -1 when d->rx_seen is false
    cycles_since_output,
    outputs_zeroed,   \* "yes" or "no"
    region,     \* output region of the IOmap: a frame, or Zero
    bus,        \* bus thread: [pc, latest], latest the newest frame of this cycle or Zero
    tx_seq,
    client,     \* the client: [session, n], n the number of its next frame
    net,        \* frames on the way
    socket,     \* frames waiting in the socket
    accepted,   \* history: the number of the last frame accepted in this session
    newest,     \* history: the youngest frame applied to the region
    age         \* history: rounds the region has kept a frame without a new one accepted

rx == <<rx_last, accepted>>
image == <<cycles_since_output, outputs_zeroed, region, newest, age>>
env == <<client, net, socket>>
vars == <<session, opened, lock, rx, image, bus, tx_seq, env>>

Zero == [session |-> 0, n |-> 0, valid |-> "no"]

Init ==
    /\ session = 0 /\ opened = 0
    /\ lock = "free"
    /\ rx_last = -1
    /\ cycles_since_output = 0
    /\ outputs_zeroed = "no"
    /\ region = Zero
    /\ bus = [pc |-> "sleep", latest |-> Zero]
    /\ tx_seq = 0
    /\ client = [session |-> 0, n |-> FirstN]
    /\ net = {} /\ socket = <<>>
    /\ accepted = 0 /\ newest = 0 /\ age = 0

-----------------------------------------------------------------------------
(* The client and the datagram socket, outside the program. *)

Sequence(n) == n % (2 * Half)

\* The client's stream stays within half the range: a frame is sent while the older ones
\* on the way and the last one accepted are less than Half behind.
Pending == net \cup {socket[k] : k \in DOMAIN socket}
WithinHalf(n) ==
    /\ accepted > 0 => n - accepted < Half
    /\ \A f \in Pending : n - f.n < Half

ClientSends(valid) ==
    /\ client.session # 0
    /\ client.n < FirstN + MaxFrames
    /\ Cardinality(net) + Len(socket) < MaxInFlight
    /\ WithinHalf(client.n)
    /\ net' = net \cup {[session |-> client.session, n |-> client.n, valid |-> valid]}
    /\ client' = [client EXCEPT !.n = client.n + 1]
    /\ UNCHANGED <<session, opened, lock, rx, image, bus, tx_seq, socket>>

\* A frame arrives, in any order, at the socket of the session of the moment, or is lost.
Arrives(f) ==
    /\ net' = net \ {f}
    /\ \/ session # 0 /\ socket' = Append(socket, f)
       \/ socket' = socket
    /\ UNCHANGED <<session, opened, lock, rx, image, bus, tx_seq, client>>

-----------------------------------------------------------------------------
(* Control thread: ecat_data_open and ecat_data_close, under the session lock. *)

OpenData ==
    /\ lock = "free"
    /\ opened < MaxSessions
    /\ lock' = "control"
    /\ opened' = opened + 1 /\ session' = opened'
    /\ socket' = <<>>
    /\ tx_seq' = 0
    /\ rx_last' = -1 /\ accepted' = 0
    /\ cycles_since_output' = 0
    /\ outputs_zeroed' = "no"
    /\ UNCHANGED <<region, newest, age, bus, client, net>>

\* close_data, or an open_data that has closed the old session when it cannot open the
\* socket of the new one.  (With no session this changes nothing.)
CloseData ==
    /\ lock = "free"
    /\ session # 0
    /\ lock' = "control"
    /\ session' = 0 /\ socket' = <<>> /\ rx_last' = -1 /\ accepted' = 0
    /\ UNCHANGED <<opened, image, bus, tx_seq, client, net>>

\* The command is answered: the client learns the id of its session.
Unlock ==
    /\ lock = "control"
    /\ lock' = "free"
    /\ client' = IF session = 0 THEN client ELSE [client EXCEPT !.session = session]
    /\ UNCHANGED <<session, opened, rx, image, bus, tx_seq, net, socket>>

-----------------------------------------------------------------------------
(* Bus thread: ecat_data_apply_outputs, the exchange, ecat_data_publish_inputs. *)

\* A slip in SeqNewer: sequence numbers compared as plain numbers.
SeqGreater(seq, last) == seq > last

\* edog_seq_newer: the difference, as a signed number, is positive.
SeqNewer(seq, last) == (seq - last) % (2 * Half) \in 1..(Half - 1)

\* At least 3 cycles, whatever the cycle time.
timeout_cycles ==
    LET cycle_us == IF CycleTimeUs > 0 THEN CycleTimeUs ELSE 1000
        cycles == (100 * 1000) \div cycle_us
    IN  IF cycles < 3 THEN 3 ELSE cycles

\* The control thread has the lock: the outputs stay for this cycle.
RoundSkipped ==
    /\ bus.pc = "sleep"
    /\ lock = "control"
    /\ bus' = [bus EXCEPT !.pc = "publish"]
    /\ UNCHANGED <<session, opened, lock, rx, image, tx_seq, env>>

RoundBegins ==
    /\ bus.pc = "sleep"
    /\ lock = "free"
    /\ lock' = "bus"
    /\ bus' = [pc |-> IF session = 0 THEN "zero" ELSE "drain", latest |-> Zero]
    /\ UNCHANGED <<session, opened, rx, image, tx_seq, env>>

\* No session: zero the region once.
RoundWithoutSession ==
    /\ bus.pc = "zero"
    /\ region' = IF outputs_zeroed = "no" THEN Zero ELSE region
    /\ outputs_zeroed' = "yes"
    /\ age' = IF region' = Zero THEN 0 ELSE age
    /\ bus' = [bus EXCEPT !.pc = "publish"]
    /\ lock' = "free"
    /\ UNCHANGED <<session, opened, rx, cycles_since_output, newest, tx_seq, env>>

\* One datagram of the drain loop: dropped, or the newest of this cycle so far.
Accepts(f) ==
    /\ f.session = session
    /\ rx_last = -1 \/ SeqNewer(Sequence(f.n), rx_last)

Receive ==
    /\ bus.pc = "drain"
    /\ socket # <<>>
    /\ LET f == Head(socket) IN
       IF Accepts(f)
       THEN /\ rx_last' = Sequence(f.n) /\ accepted' = f.n
            /\ bus' = [bus EXCEPT !.latest = f]
       ELSE UNCHANGED <<rx, bus>>
    /\ socket' = Tail(socket)
    /\ UNCHANGED <<session, opened, lock, image, tx_seq, client, net>>

\* A slip in NewFrame: valid outputs do not arm the watchdog again.
NewFrameUnarmed(f) ==
    /\ cycles_since_output' = 0
    /\ age' = 0
    /\ UNCHANGED outputs_zeroed
    /\ IF f.valid = "yes" THEN region' = f /\ newest' = f.n
       ELSE region' = Zero /\ UNCHANGED newest

\* The socket is drained: apply the newest frame, or zeros when it is not VALID; without a
\* frame, zeros once the client has been quiet for too long.  The code counts on after
\* that; the model stops at the first value past the limit.
NothingNew ==
    /\ cycles_since_output' = IF cycles_since_output > timeout_cycles THEN cycles_since_output
                              ELSE cycles_since_output + 1
    /\ IF cycles_since_output' > timeout_cycles /\ outputs_zeroed = "no"
       THEN region' = Zero /\ outputs_zeroed' = "yes" /\ age' = 0
       ELSE /\ UNCHANGED <<region, outputs_zeroed>>
            /\ age' = IF region = Zero THEN 0 ELSE age + 1
    /\ UNCHANGED newest

NewFrame(f) ==
    /\ cycles_since_output' = 0
    /\ age' = 0
    /\ IF f.valid = "yes"
       THEN region' = f /\ outputs_zeroed' = "no" /\ newest' = f.n
       ELSE region' = Zero /\ outputs_zeroed' = "yes" /\ UNCHANGED newest

Settle ==
    /\ bus.pc = "drain"
    /\ socket = <<>>
    /\ IF bus.latest = Zero THEN NothingNew ELSE NewFrame(bus.latest)
    /\ bus' = [pc |-> "publish", latest |-> Zero]
    /\ lock' = "free"
    /\ UNCHANGED <<session, opened, rx, tx_seq, env>>

\* The inputs of the cycle are sent, numbered, when there is a session and the lock is free.
PublishInputs ==
    /\ bus.pc = "publish"
    /\ tx_seq' = IF lock = "free" /\ session # 0 THEN (tx_seq + 1) % (2 * Half) ELSE tx_seq
    /\ bus' = [bus EXCEPT !.pc = "sleep"]
    /\ UNCHANGED <<session, opened, lock, rx, image, env>>

-----------------------------------------------------------------------------
Client == \E valid \in {"yes", "no"} : ClientSends(valid)
Control == OpenData \/ CloseData \/ Unlock
Bus == RoundSkipped \/ RoundBegins \/ RoundWithoutSession \/ Receive \/ Settle \/ PublishInputs

Next == Client \/ (\E f \in net : Arrives(f)) \/ Control \/ Bus

Spec == Init /\ [][Next]_vars

(* The bus thread runs; the control thread holds the lock for a moment only, so that     *)
(* not every try of the bus thread meets it.                                             *)
FairSpec == Spec /\ WF_vars(Bus) /\ WF_vars(Unlock) /\ SF_vars(RoundBegins)

-----------------------------------------------------------------------------
Frames == [session : Nat, n : Nat, valid : {"yes", "no"}]

(* The data channel keeps what Outputs promises although frames are lost, overtake each  *)
(* other, outlive their session and wrap their sequence number (data.c:201): no frame     *)
(* replaces a younger one, and none is applied in a session other than its own.           *)
Image == INSTANCE Outputs WITH out <- [session |-> region.session, n |-> region.n]
ImplementsOutputs == Image!Spec

(* While there are outputs in the image the watchdog can still take them back             *)
(* (data.c:225): it has not been told that they are zero, and its count has not passed    *)
(* the limit, however sessions are opened, closed and reopened in between.                *)
WatchdogArmed ==
    region # Zero => outputs_zeroed = "no" /\ cycles_since_output <= timeout_cycles

(* The client sends finitely many frames here: in the end the outputs are zero.           *)
EventuallySafe == <>[](region = Zero)

(* docs/PROTOCOL.md:189 "If no valid output frame arrives for 100 ms, EtherDOG writes      *)
(* zeros to the outputs": outputs are never older than the timeout.                       *)
OutputsNeverStale == age <= timeout_cycles

=============================================================================
