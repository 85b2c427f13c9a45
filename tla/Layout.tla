------------------------------- MODULE Layout -------------------------------
(***************************************************************************)
(* Where process data sits: the image SOEM maps for the slaves of a bus, and  *)
(* the layout src/layout.c publishes from the configured PDOs over it.  Both  *)
(* directions are handled alike; an offset is in bits from the start of the   *)
(* direction's region.                                                        *)
(***************************************************************************)
EXTENDS Config

CONSTANTS EDOG_FRAME_MAX_PAYLOAD,       \* bytes of process image per direction
          ECAT_IOMAP_MIN_BYTES,
          ECAT_IOMAP_SLACK_PER_SLAVE

ASSUME LayoutAssumption ==
    /\ EDOG_FRAME_MAX_PAYLOAD \in Nat
    /\ ECAT_IOMAP_MIN_BYTES \in Nat
    /\ ECAT_IOMAP_SLACK_PER_SLAVE \in Nat

Entries(pdos) == FlattenSeq([p \in DOMAIN pdos |-> pdos[p].entries])
BitsOf(entries) == FoldLeft(LAMBDA n, e : n + e.bits, 0, entries)
Bytes(bits) == (bits + 7) \div 8

\* The bits before the k-th entry.
BitsBefore(entries, k) == BitsOf(SubSeq(entries, 1, k - 1))

\* SOEM packs slaves of fewer than eight bits one after the other and starts
\* every other slave on a byte of its own.
ecx_config_map_group(bits) ==
    LET Place(image, b) ==
            LET start == IF b < 8 THEN image.end ELSE 8 * Bytes(image.end)
            IN  [start |-> Append(image.start, start),
                 end   |-> start + (IF b < 8 THEN b ELSE 8 * Bytes(b))]
    IN  FoldLeft(Place, [start |-> <<>>, end |-> 0], bits)

compute_iomap_bytes(slaves) ==
    LET bits == FoldLeft(LAMBDA n, s : n + BitsOf(Entries(Pdos(s))), 0, slaves)
        need == Bytes(bits) + Len(slaves) * ECAT_IOMAP_SLACK_PER_SLAVE
    IN  Max({need, ECAT_IOMAP_MIN_BYTES})

\* reported[i] is the pair of bit counts of the slave at position i.
size_iomap_from_slaves(reported) ==
    LET need == FoldLeft(LAMBDA n, r : n + Bytes(r[1]) + Bytes(r[2])
                                         + ECAT_IOMAP_SLACK_PER_SLAVE, 0, reported)
    IN  Max({need, ECAT_IOMAP_MIN_BYTES})

\* The offset of an entry counted without the padding before it.
add_direction_packed(slave, dir, pdos, start) ==
    LET Publish(at, e) ==
            IF e.id = 0 THEN at
            ELSE [bit |-> at.bit + e.bits,
                  rows |-> Append(at.rows, [slave |-> slave.position, dir |-> dir, id |-> e.id,
                                            offset |-> at.bit, bits |-> e.bits])]
    IN  FoldLeft(Publish, [bit |-> start, rows |-> <<>>], Entries(pdos)).rows

\* The rows of one direction of a slave whose slice starts at start.
add_direction(slave, dir, pdos, start) ==
    LET Publish(at, e) ==
            [bit |-> at.bit + e.bits,
             rows |-> IF e.id = 0 THEN at.rows
                      ELSE Append(at.rows, [slave |-> slave.position, dir |-> dir, id |-> e.id,
                                            offset |-> at.bit, bits |-> e.bits])]
    IN  FoldLeft(Publish, [bit |-> start, rows |-> <<>>], Entries(pdos)).rows

count_layout_max(slaves) == FoldLeft(LAMBDA n, s : n + Len(Entries(Pdos(s))), 0, slaves)

\* bits.out and bits.in are what SOEM mapped for each position.  A slave with
\* nothing mapped in a direction publishes nothing there.
LayoutRows(slaves, bits) ==
    LET out == ecx_config_map_group(bits.out)
        in  == ecx_config_map_group(bits.in)
        Rows(rows, s) ==
            rows \o (IF bits.out[s.position] = 0 THEN <<>>
                     ELSE add_direction(s, "out", s.rx, out.start[s.position]))
                 \o (IF bits.in[s.position] = 0 THEN <<>>
                     ELSE add_direction(s, "in", s.tx, in.start[s.position]))
    IN  FoldLeft(Rows, <<>>, slaves)

\* Whether ecat_layout_build succeeds.
LayoutFits(slaves, bits) ==
    /\ Bytes(ecx_config_map_group(bits.out).end) <= EDOG_FRAME_MAX_PAYLOAD
    /\ Bytes(ecx_config_map_group(bits.in).end) <= EDOG_FRAME_MAX_PAYLOAD
    /\ Len(LayoutRows(slaves, bits)) <= count_layout_max(slaves)

=============================================================================
