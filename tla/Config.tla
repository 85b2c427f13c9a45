------------------------------- MODULE Config -------------------------------
(***************************************************************************)
(* The bus configuration: what the parsers of src/config.c refuse and what   *)
(* ecat_config_validate requires of what they accept.  A file is a sequence  *)
(* of entries, one per master; an index, an identity or a class is a small   *)
(* number or a name, and an SDO value keeps the width of its type.           *)
(*                                                                           *)
(* A slave's station is [present, slots, modules]: the coupler's slot        *)
(* definitions [min, max, idents, classes] in order and its configured       *)
(* modules [slot, ident, class].  A PDO is [index, fixed, entries] and an    *)
(* entry [id, bits], with id 0 for padding.                                  *)
(***************************************************************************)
EXTENDS Integers, Sequences, SequencesExt

CONSTANT ECAT_MAX_MASTERS  \* how many masters one file may configure

ASSUME MaxMastersAssumption == ECAT_MAX_MASTERS \in Nat \ {0}

NoClass == ""

----------------------------------------------------------------------------
(* SDO values *)

Width == [BOOL |-> 8, INT8 |-> 8, UINT8 |-> 8, INT16 |-> 16, UINT16 |-> 16]

sdo_value_in_range(type, v) ==
    CASE type = "BOOL" -> v \in {0, 1}
      [] type \in {"INT8", "INT16"} ->
            -(2 ^ (Width[type] - 1)) <= v /\ v < 2 ^ (Width[type] - 1)
      [] OTHER -> 0 <= v /\ v < 2 ^ Width[type]

\* The low bytes of the two's complement of v, read as one number.
encode_sdo_value(type, v) == v % (2 ^ Width[type])

\* A payload of bytes needs the byte-string type and the other way round; an
\* unknown type and PAD have no width.
parse_sdo(sdo) ==
    \/ sdo.bytes /\ sdo.type = "BYTESTRING"
    \/ ~sdo.bytes /\ sdo.type \in DOMAIN Width /\ sdo_value_in_range(sdo.type, sdo.value)

----------------------------------------------------------------------------
(* Stations *)

parse_slot_def(def) == 0 <= def.min /\ 1 <= def.max /\ def.min <= def.max

parse_modular(station) ==
    /\ \A d \in ToSet(station.slots) : parse_slot_def(d)
    /\ \A m \in ToSet(station.modules) : m.slot >= 1

slot_accepts(def, mod) ==
    \/ def.classes = {} /\ def.idents = {}
    \/ mod.ident \in def.idents
    \/ mod.class # NoClass /\ mod.class \in def.classes

LastSlot(station) == IF station.modules = <<>> THEN 0 ELSE Last(station.modules).slot

\* The modules in a slot: one, or none where the slot is empty.
InSlot(station, slot) == {m \in ToSet(station.modules) : m.slot = slot}

Refuses(def, mods) == \E m \in mods : ~slot_accepts(def, m)

\* Definition def, holding count slots, is left before the next slot is placed.
Leaves(def, count, mods) ==
    count >= def.max \/ (Refuses(def, mods) /\ count >= def.min)

\* Where the loop over the definitions stops: past the last one when none stays.
Placed(station, at, mods) ==
    LET Stays(d) == d > Len(station.slots) \/ ~Leaves(station.slots[d], 0, mods)
    IN  IF at.def <= Len(station.slots) /\ Leaves(station.slots[at.def], at.count, mods)
          THEN [def |-> Min({d \in (at.def + 1)..(Len(station.slots) + 1) : Stays(d)}),
                count |-> 0]
          ELSE at

\* One turn of the loop over the physical slots; def 0 is a refused station.
PlaceSlot(station, at, slot) ==
    LET mods == InSlot(station, slot)
        to   == Placed(station, at, mods)
    IN  IF at.def = 0 \/ to.def > Len(station.slots) \/ Refuses(station.slots[to.def], mods)
          THEN [def |-> 0, count |-> 0]
          ELSE [to EXCEPT !.count = @ + 1]

\* A bug the last loop of validate_station guards against.
validate_station_open(station) ==
    LET at == FoldLeft(LAMBDA a, s : PlaceSlot(station, a, s), [def |-> 1, count |-> 0],
                       [s \in 1..LastSlot(station) |-> s])
    IN  station.modules = <<>> \/ (station.slots # <<>> /\ at.def # 0)

validate_station(station) ==
    \/ station.slots = <<>> /\ station.modules = <<>>
    \/ /\ station.slots # <<>>
       /\ \A i \in 1..(Len(station.modules) - 1) :
             station.modules[i].slot < station.modules[i + 1].slot
       /\ LET at == FoldLeft(LAMBDA a, s : PlaceSlot(station, a, s), [def |-> 1, count |-> 0],
                             [s \in 1..LastSlot(station) |-> s])
          IN  /\ at.def # 0
              /\ \A d \in at.def..Len(station.slots) :
                    (IF d = at.def THEN at.count ELSE 0) >= station.slots[d].min

----------------------------------------------------------------------------
(* Slaves and masters *)

Pdos(slave) == slave.rx \o slave.tx

parse_pdo(pdo) == pdo.index # 0

parse_slave(slave) ==
    /\ \A s \in ToSet(slave.sdos) : parse_sdo(s)
    /\ \A p \in ToSet(Pdos(slave)) : parse_pdo(p)
    /\ parse_modular(slave.station)

validate_pdos(slave) ==
    /\ \A a, b \in DOMAIN Pdos(slave) :
          Pdos(slave)[a].index = Pdos(slave)[b].index => a = b
    /\ slave.mandatory \subseteq {p.index : p \in ToSet(Pdos(slave))}

ecat_config_validate(slaves) ==
    \A i \in DOMAIN slaves :
        /\ slaves[i].position >= 1
        /\ slaves[i].vendor # 0
        /\ slaves[i].product # 0
        /\ \A j \in (i + 1)..Len(slaves) : slaves[i].position # slaves[j].position
        /\ validate_pdos(slaves[i])
        /\ validate_station(slaves[i].station)

Masters(file) == SelectSeq(file, LAMBDA e : e.protocol = "ETHERCAT")

\* The masters of a file, none when any part of it is refused.
ecat_config_parse_all(file) ==
    LET masters == Masters(file)
        ok == /\ Len(masters) \in 1..ECAT_MAX_MASTERS
              /\ \A i \in DOMAIN masters :
                    /\ \A s \in ToSet(masters[i].slaves) : parse_slave(s)
                    /\ ecat_config_validate(masters[i].slaves)
              /\ \A i, j \in DOMAIN masters : masters[i].interface = masters[j].interface => i = j
    IN  IF ok THEN masters ELSE <<>>

----------------------------------------------------------------------------
(* What the rules are for, stated without the loops *)

\* The physical slots of the station can be dealt out to the definitions in
\* order, each within its bounds and each module to one that accepts it.
Fits(station) ==
    LET n == LastSlot(station)
        defs == DOMAIN station.slots
    IN  \E f \in [1..n -> defs] :
            /\ \A s \in 1..(n - 1) : f[s] <= f[s + 1]
            /\ \A s \in 1..n : ~Refuses(station.slots[f[s]], InSlot(station, s))
            /\ \A d \in defs : Cardinality({s \in 1..n : f[s] = d})
                                 \in station.slots[d].min..station.slots[d].max

\* No choice is left in dealing them out: every slot holds one module, and no
\* module is accepted by two definitions.
Unambiguous(station) ==
    /\ \A s \in 1..LastSlot(station) : InSlot(station, s) # {}
    /\ \A m \in ToSet(station.modules), d, e \in DOMAIN station.slots :
          slot_accepts(station.slots[d], m) /\ slot_accepts(station.slots[e], m) => d = e

=============================================================================
