------------------------------ MODULE Startup ------------------------------
(***************************************************************************)
(* How a configured master gets from IDLE to OPERATIONAL: ecat_bus_configure *)
(* and start_single_master of src/bus.c with the phases of src/master.c they *)
(* call, against a bus whose devices answer or do not.  One master is        *)
(* started at a time; the threads it then runs are in Lifecycle.  A master    *)
(* that reached OPERATIONAL and then went to ERROR is still open; the client  *)
(* stops it before it configures or starts again (Lifecycle shows what a      *)
(* restart without a stop does).                                              *)
(*                                                                           *)
(* bus[p] is the device at position p: its identity, whether it has a CoE    *)
(* mailbox, the entries it maps by default (rx, tx) and, by index, the ones  *)
(* of the PDOs whose mapping is fixed in it (fixed).  dev[p] is what the     *)
(* start changed in it: the entries it maps now, the SDO values it holds as  *)
(* bytes, and whether its SM watchdog was set.  An SDO with assigns set is   *)
(* the one that makes the device map the configured PDOs.                    *)
(***************************************************************************)
EXTENDS Layout

CONSTANTS Files,    \* the configuration files a client may send
          Buses,    \* the devices that may be on the wire
          Objects,  \* the objects SDOs write
          Stations  \* stations a file may describe

VARIABLES
    bus,               \* the devices on the wire
    dev,               \* what they were told
    masters,           \* g_masters: the configurations of the loaded file
    inst,              \* the master being started: a configuration's slaves
    step,              \* the loop or call start_single_master is in
    at,                \* the slave of inst the loop handles next
    bus_state,
    soem_initialized,
    tuned,             \* the interface has the settings of ecat_iface_state_apply
    iomap_capacity,    \* 0 without an iomap
    iomap_used_size,
    layout,            \* the published rows
    requested,         \* the AL state last requested of all slaves
    noted              \* positions the log says were not configured or verified

vars == <<bus, dev, masters, inst, step, at, bus_state, soem_initialized, tuned, iomap_capacity,
          iomap_used_size, layout, requested, noted>>

NotWritten == -1

PowerOn(b) == [p \in DOMAIN b |-> [rx |-> b[p].rx, tx |-> b[p].tx, sm |-> "default",
                                   objects |-> [o \in Objects |-> NotWritten]]]

Positions == DOMAIN bus
Slave(i) == inst[i]
Mapped == [out |-> [p \in Positions |-> BitsOf(dev[p].rx)],
           in  |-> [p \in Positions |-> BitsOf(dev[p].tx)]]
ImageBytes == Bytes(ecx_config_map_group(Mapped.out).end)
                + Bytes(ecx_config_map_group(Mapped.in).end)

Idle == bus_state \in {"IDLE", "STOPPED", "ERROR"}

\* The master was started and not stopped since.
Live == step = "live"

Init ==
    /\ bus \in Buses
    /\ dev = PowerOn(bus)
    /\ masters = <<>>
    /\ inst = <<>>
    /\ step = "none"
    /\ at = 0
    /\ bus_state = "IDLE"
    /\ soem_initialized = 0
    /\ tuned = "no"
    /\ iomap_capacity = 0
    /\ iomap_used_size = 0
    /\ layout = <<>>
    /\ requested = "none"
    /\ noted = {}

----------------------------------------------------------------------------
(* Commands between runs *)

NoFile == <<>>

\* A file that is refused leaves the loaded masters as they are; no file at
\* all clears them.
ecat_bus_configure(file) ==
    /\ Idle /\ ~Live
    /\ LET parsed == ecat_config_parse_all(file)
       IN  /\ file = NoFile \/ parsed # <<>>
           /\ masters' = parsed
    /\ bus_state' = "IDLE"
    /\ inst' = <<>>
    /\ layout' = <<>>
    /\ UNCHANGED <<bus, dev, step, at, soem_initialized, tuned, iomap_capacity, iomap_used_size,
                   requested, noted>>

\* Devices are exchanged while the interface is closed.
Rewire ==
    /\ soem_initialized = 0
    /\ bus' \in Buses
    /\ dev' = PowerOn(bus')
    /\ requested' = "none"
    /\ noted' = {}
    /\ UNCHANGED <<masters, inst, step, at, bus_state, soem_initialized, tuned, iomap_capacity,
                   iomap_used_size, layout>>

----------------------------------------------------------------------------
(* The start sequence *)

\* A bug: the interface is closed but the slaves are left as they are.
ecat_master_close_silently ==
    /\ soem_initialized' = 0
    /\ tuned' = "no"
    /\ iomap_capacity' = 0
    /\ iomap_used_size' = 0
    /\ requested' = requested

ecat_master_close ==
    /\ requested' = IF soem_initialized = 1 THEN "INIT" ELSE requested
    /\ soem_initialized' = 0
    /\ tuned' = "no"
    /\ iomap_capacity' = 0
    /\ iomap_used_size' = 0

\* How every phase of start_single_master ends when it fails.
Fail ==
    /\ ecat_master_close
    /\ bus_state' = "ERROR"
    /\ step' = "none"
    /\ at' = 0

\* The loop over the slaves goes on, or its successor begins.
Advance(next) ==
    /\ at' = IF at < Len(inst) THEN at + 1 ELSE 1
    /\ step' = IF at < Len(inst) THEN step ELSE next
    /\ UNCHANGED <<bus_state, soem_initialized, tuned, iomap_capacity, iomap_used_size, requested>>

start_single_master(m) ==
    /\ Idle /\ ~Live
    /\ m.slaves # <<>>
    /\ bus_state' = "SCANNING"
    /\ inst' = m.slaves
    /\ iomap_capacity' = 0
    /\ iomap_used_size' = 0
    /\ tuned' = "yes"
    /\ noted' = {}
    /\ UNCHANGED <<bus, dev, masters, step, at, soem_initialized, layout, requested>>

\* A bug: a slave is looked up by its place in the file.
ecat_master_validate_topology_by_order ==
    /\ Len(bus) = Len(inst)
    /\ \A i \in DOMAIN inst :
          /\ Slave(i).check_vendor => bus[i].vendor = Slave(i).vendor
          /\ Slave(i).check_product => bus[i].product = Slave(i).product

ecat_master_validate_topology ==
    /\ Len(bus) = Len(inst)
    /\ \A i \in DOMAIN inst :
          LET s == Slave(i) IN
          /\ s.position \in 1..Len(bus)
          /\ s.check_vendor => bus[s.position].vendor = s.vendor
          /\ s.check_product => bus[s.position].product = s.product

\* The interface opens and the scan finds a device.
Scanned ==
    /\ bus_state = "SCANNING"
    /\ soem_initialized = 0
    /\ bus # <<>>
    /\ requested' = "PRE_OP"
    /\ soem_initialized' = 1
    /\ iomap_capacity' = compute_iomap_bytes(inst)
    /\ UNCHANGED <<bus, dev, masters, inst, step, at, bus_state, tuned, iomap_used_size, layout, noted>>

\* The rest of ecat_master_open_and_scan: all slaves reach PRE-OP.
Checked ==
    /\ bus_state = "SCANNING"
    /\ soem_initialized = 1
    /\ ecat_master_validate_topology
    /\ bus_state' = "CONFIGURING"
    /\ step' = "sdos"
    /\ at' = 1
    /\ UNCHANGED <<bus, dev, masters, inst, soem_initialized, tuned, iomap_capacity,
                   iomap_used_size, layout, requested, noted>>

\* The interface does not open, no device answers, memory runs out, the
\* topology is wrong or a slave stays below PRE-OP.  Once the interface is
\* open it is closed before ecat_master_close runs, which then requests nothing.
ScanFails ==
    /\ bus_state = "SCANNING"
    /\ bus_state' = "ERROR"
    /\ step' = "none"
    /\ at' = 0
    /\ soem_initialized' = 0
    /\ tuned' = "no"
    /\ iomap_capacity' = 0
    /\ iomap_used_size' = 0
    /\ UNCHANGED <<bus, dev, masters, inst, layout, requested, noted>>

\* What a device maps once its PDO assignment was written: the configured
\* PDOs, those with a fixed mapping as the device has it.
Assigned(p, pdos) ==
    Entries([k \in DOMAIN pdos |->
                IF pdos[k].fixed /\ pdos[k].index \in DOMAIN bus[p].fixed
                  THEN [entries |-> bus[p].fixed[pdos[k].index]]
                  ELSE [entries |-> pdos[k].entries]])

\* The device at s.position after the SDOs of s numbered in written.
AfterSdos(s, written) ==
    LET d == dev[s.position]
        assigned == \E k \in written : s.sdos[k].assigns
        Writes(o) == {k \in written : s.sdos[k].object = o}
        Wire(k) == IF s.sdos[k].bytes THEN s.sdos[k].value
                   ELSE encode_sdo_value(s.sdos[k].type, s.sdos[k].value)
    IN  [d EXCEPT
            !.rx = IF assigned THEN Assigned(s.position, s.rx) ELSE @,
            !.tx = IF assigned THEN Assigned(s.position, s.tx) ELSE @,
            !.objects = [o \in Objects |-> IF Writes(o) = {} THEN @[o] ELSE Wire(Max(Writes(o)))]]

\* A bug: a failed write is only logged.
StrictFailureIgnored(s, ok) == FALSE

\* Whether the failed SDOs of a slave abort the start.
StrictFailure(s, ok) == s.strict /\ ~ok

\* ecat_master_write_sdos for one slave: the writes in failed get no answer,
\* and none is sent to a slave without a CoE mailbox.
ecat_master_write_sdos ==
    /\ bus_state = "CONFIGURING"
    /\ step = "sdos"
    /\ LET s == Slave(at) IN
       \E failed \in SUBSET DOMAIN s.sdos :
          LET lost == IF bus[s.position].coe THEN failed ELSE DOMAIN s.sdos
          IN  /\ dev' = [dev EXCEPT ![s.position] = AfterSdos(s, DOMAIN s.sdos \ lost)]
              /\ noted' = IF lost = {} THEN noted ELSE noted \cup {s.position}
              /\ IF StrictFailure(s, lost = {})
                   THEN Fail
                   ELSE Advance("verify")
    /\ UNCHANGED <<bus, masters, inst, layout>>

\* A bug: only the number of entries is compared.
SameLength(p, pdo) == Len(bus[p].fixed[pdo.index]) = Len(pdo.entries)

\* The device maps a fixed PDO as configured.
SameMapping(p, pdo) == bus[p].fixed[pdo.index] = pdo.entries

\* The PDOs of a slave whose mapping is read back: not those of a coupler,
\* whose PDOs belong to its modules, nor of a slave without a mailbox.
FixedPdos(s) ==
    IF s.station.present \/ ~bus[s.position].coe THEN {}
    ELSE {p \in ToSet(Pdos(s)) : p.fixed}

\* ecat_master_verify_fixed_pdos for one slave: a mapping that cannot be read,
\* in whole or from some entry on, is skipped.
ecat_master_verify_fixed_pdos ==
    /\ bus_state = "CONFIGURING"
    /\ step = "verify"
    /\ LET s == Slave(at)
           unknown == {p \in FixedPdos(s) : p.index \notin DOMAIN bus[s.position].fixed}
       IN \E skipped \in SUBSET FixedPdos(s) :
            /\ unknown \subseteq skipped
            /\ IF \A p \in FixedPdos(s) \ skipped : SameMapping(s.position, p)
                 THEN /\ noted' = IF skipped = {} THEN noted ELSE noted \cup {s.position}
                      /\ Advance("map")
                 ELSE Fail /\ UNCHANGED noted
    /\ UNCHANGED <<bus, dev, masters, inst, layout>>

----------------------------------------------------------------------------
(* Mapping, layout and the way to OPERATIONAL *)

\* What size_iomap_from_slaves is told by the slave at p.  A mailbox that does
\* not answer leaves it with the mapping in the slave's EEPROM.
Reported(p, silent) ==
    IF p \in silent THEN <<BitsOf(bus[p].rx), BitsOf(bus[p].tx)>>
    ELSE <<Mapped.out[p], Mapped.in[p]>>

\* SOEM has mapped no more than the iomap holds.
IomapHolds(capacity) == ImageBytes <= capacity

\* The slaves whose SM watchdog write is not answered; the loop ends at the
\* first strict one.
WatchdogsTried(lost) ==
    {i \in DOMAIN inst : \A j \in 1..(i - 1) : ~(Slave(j).position \in lost /\ Slave(j).strict)}

\* ecat_master_configure: grow the iomap, map, set the watchdogs.  Distributed
\* clocks are set up without a result.
ecat_master_configure ==
    /\ bus_state = "CONFIGURING"
    /\ step = "map"
    /\ \E silent \in SUBSET {p \in Positions : bus[p].coe},
          lost \in SUBSET {Slave(i).position : i \in {j \in DOMAIN inst : Slave(j).sm}} :
          LET need == size_iomap_from_slaves([p \in Positions |-> Reported(p, silent)])
              capacity == Max({iomap_capacity, need})
              tried == {Slave(i).position : i \in {j \in WatchdogsTried(lost) : Slave(j).sm}}
              strict == {Slave(i).position : i \in {j \in DOMAIN inst : Slave(j).strict}}
          IN  IF ImageBytes = 0 \/ ~IomapHolds(capacity)
                THEN Fail /\ UNCHANGED <<dev, noted>>
                ELSE /\ dev' = [p \in Positions |->
                                  [dev[p] EXCEPT !.sm = IF p \in tried \ lost THEN "set" ELSE @]]
                     /\ noted' = noted \cup (tried \cap lost)
                     /\ IF lost \cap strict # {}
                          THEN Fail
                          ELSE /\ iomap_capacity' = capacity
                               /\ iomap_used_size' = ImageBytes
                               /\ requested' = "SAFE_OP"
                               /\ step' = "layout"
                               /\ UNCHANGED <<at, bus_state, soem_initialized, tuned>>
    /\ UNCHANGED <<bus, masters, inst, layout>>

\* ecat_layout_build, ecat_data_alloc_buffers and the timeouts.
Publish ==
    /\ bus_state = "CONFIGURING"
    /\ step = "layout"
    /\ LayoutFits(inst, Mapped)
    /\ layout' = LayoutRows(inst, Mapped)
    /\ bus_state' = "TRANSITIONING"
    /\ step' = "none"
    /\ at' = 0
    /\ UNCHANGED <<bus, dev, masters, inst, soem_initialized, tuned, iomap_capacity,
                   iomap_used_size, requested, noted>>

\* SOEM cannot map, the image is too large for a frame or memory runs out.
ConfiguringFails ==
    /\ bus_state = "CONFIGURING"
    /\ step \in {"map", "layout"}
    /\ layout' = IF step = "layout" THEN <<>> ELSE layout
    /\ Fail
    /\ UNCHANGED <<bus, dev, masters, inst, noted>>

\* ecat_master_transition_to_op: every slave confirms SAFE-OP, then OP.
RequestOp ==
    /\ bus_state = "TRANSITIONING"
    /\ requested = "SAFE_OP"
    /\ requested' = "OPERATIONAL"
    /\ UNCHANGED <<bus, dev, masters, inst, step, at, bus_state, soem_initialized, tuned,
                   iomap_capacity, iomap_used_size, layout, noted>>

ReachOp ==
    /\ bus_state = "TRANSITIONING"
    /\ requested = "OPERATIONAL"
    /\ bus_state' = "OPERATIONAL"
    /\ step' = "live"
    /\ UNCHANGED <<bus, dev, masters, inst, at, soem_initialized, tuned, iomap_capacity,
                   iomap_used_size, layout, requested, noted>>

\* A thread cannot be created, or later recovery gives up: nothing is closed.
LiveFails ==
    /\ bus_state = "OPERATIONAL"
    /\ bus_state' = "ERROR"
    /\ UNCHANGED <<bus, dev, masters, inst, step, at, soem_initialized, tuned, iomap_capacity,
                   iomap_used_size, layout, requested, noted>>

\* A slave stays below SAFE-OP, or below OP after every retry.
TransitionFails ==
    /\ bus_state = "TRANSITIONING"
    /\ Fail
    /\ UNCHANGED <<bus, dev, masters, inst, layout, noted>>

stop_single_master ==
    /\ bus_state \in {"OPERATIONAL", "ERROR"}
    /\ ecat_master_close
    /\ layout' = <<>>
    /\ bus_state' = "STOPPED"
    /\ step' = "none"
    /\ UNCHANGED <<bus, dev, masters, inst, at, noted>>

Next ==
    \/ \E f \in Files : ecat_bus_configure(f)
    \/ Rewire
    \/ \E m \in ToSet(masters) : start_single_master(m)
    \/ Scanned
    \/ Checked
    \/ ScanFails
    \/ ecat_master_write_sdos
    \/ ecat_master_verify_fixed_pdos
    \/ ecat_master_configure
    \/ Publish
    \/ ConfiguringFails
    \/ RequestOp
    \/ ReachOp
    \/ TransitionFails
    \/ LiveFails
    \/ stop_single_master

Spec == Init /\ [][Next]_vars

----------------------------------------------------------------------------
(* Properties *)

\* The verdict of validate_station on a station the parser lets through is right:
\* one it accepts can be dealt out to the slot definitions, and one that can be
\* dealt out in a single way is accepted.
EveryStationJudged ==
    \A st \in Stations : parse_modular(st) =>
        /\ validate_station(st) => Fits(st)
        /\ Unambiguous(st) /\ Fits(st) => validate_station(st)

(***************************************************************************)
(* The loop of validate_station judges stations right, by the rules           *)
(* docs/BUSCONFIG.md:115 describes, and so every station of the masters that  *)
(* are loaded, whatever files were refused before, fits its coupler.  The     *)
(* first half depends on no variable and is evaluated at power-on only.       *)
(***************************************************************************)
StationRules ==
    /\ Init => EveryStationJudged
    /\ \A m \in ToSet(masters) : \A s \in ToSet(m.slaves) :
          s.station.slots # <<>> => Fits(s.station)

(***************************************************************************)
(* Once the scan was checked every device on the wire belongs to exactly one  *)
(* configured slave, and where the startup checks are on it has the           *)
(* configured identity: ecat_config_validate refuses shared positions and     *)
(* ecat_master_validate_topology a wrong count, a position out of range or    *)
(* another device.                                                            *)
(***************************************************************************)
EveryDeviceConfigured ==
    bus_state \in {"CONFIGURING", "TRANSITIONING", "OPERATIONAL"} =>
        /\ \A p \in Positions : Cardinality({i \in DOMAIN inst : Slave(i).position = p}) = 1
        /\ \A i \in DOMAIN inst :
              LET s == Slave(i) IN
              /\ s.check_vendor => bus[s.position].vendor = s.vendor
              /\ s.check_product => bus[s.position].product = s.product

\* What a device reads from the bytes of an SDO of the given type.
Decoded(type, wire) ==
    IF type \in {"INT8", "INT16"} /\ wire >= 2 ^ (Width[type] - 1)
      THEN wire - 2 ^ Width[type] ELSE wire

(***************************************************************************)
(* src/bus.c:550: a master "never enters OPERATIONAL with a half-configured   *)
(* slave" when strict_sdo is set.  Every SDO of such a slave is in the device *)
(* with the configured value and its SM watchdog was written.                 *)
(***************************************************************************)
StrictIsConfigured ==
    bus_state = "OPERATIONAL" =>
        \A i \in {j \in DOMAIN inst : Slave(j).strict} :
            LET s == Slave(i) IN
            /\ \A k \in DOMAIN s.sdos :
                  /\ dev[s.position].objects[s.sdos[k].object] # NotWritten
                  /\ Decoded(s.sdos[k].type, dev[s.position].objects[s.sdos[k].object])
                       = s.sdos[k].value
            /\ s.sm => dev[s.position].sm = "set"

\* The published rows of a position and what the device there exchanges,
\* both as [id, offset, bits].
RowsOf(p, dir) ==
    {[id |-> r.id, offset |-> r.offset, bits |-> r.bits] :
        r \in {x \in ToSet(layout) : x.slave = p /\ x.dir = dir}}
DeviceRows(entries, start) ==
    {[id |-> entries[k].id, offset |-> start + BitsBefore(entries, k), bits |-> entries[k].bits] :
        k \in {j \in DOMAIN entries : entries[j].id # 0}}

(***************************************************************************)
(* The published layout is where the device puts its data, for a slave whose  *)
(* SDOs assign its PDOs and about which the log has no complaint: the strict  *)
(* writes, the check of fixed mappings, SOEM's packing of small slaves and    *)
(* the walk of src/layout.c agree.  (A coupler's fixed PDOs are not checked.) *)
(***************************************************************************)
LayoutAgrees ==
    bus_state = "OPERATIONAL" =>
        \A i \in DOMAIN inst :
            LET s == Slave(i)
                p == s.position
            IN  /\ p \notin noted
                /\ \E k \in DOMAIN s.sdos : s.sdos[k].assigns
                /\ s.station.present => \A pdo \in ToSet(Pdos(s)) : ~pdo.fixed
                => /\ RowsOf(p, "out") =
                          DeviceRows(dev[p].rx, ecx_config_map_group(Mapped.out).start[p])
                   /\ RowsOf(p, "in") =
                          DeviceRows(dev[p].tx, ecx_config_map_group(Mapped.in).start[p])

(***************************************************************************)
(* A start that failed in any phase before OPERATIONAL, and a stop, leave     *)
(* nothing behind: the interface is closed with its settings restored, the    *)
(* iomap is gone, and the slaves were not last asked for a state in which     *)
(* they drive outputs.  (When a thread of start_single_master cannot be       *)
(* created, the master stays open in ERROR until it is stopped.)              *)
(***************************************************************************)
FailedIsReleased ==
    Idle /\ ~Live =>
        /\ soem_initialized = 0
        /\ tuned = "no"
        /\ iomap_capacity = 0
        /\ requested \in {"none", "PRE_OP", "INIT"}

=============================================================================
