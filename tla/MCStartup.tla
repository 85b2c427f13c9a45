----------------------------- MODULE MCStartup -----------------------------
(* Instances for Startup: a digital terminal and a drive behind it. *)
EXTENDS Startup

E(id, bits) == [id |-> id, bits |-> bits]
Pdo(index, fixed, entries) == [index |-> index, fixed |-> fixed, entries |-> entries]
Sdo(object, type, value, assigns) ==
    [object |-> object, type |-> type, value |-> value, bytes |-> FALSE, assigns |-> assigns]
NoStation == [present |-> FALSE, slots |-> <<>>, modules |-> <<>>]

\* Two drives of one identity: the second maps its fixed PDO 11 differently.
Drive(second) ==
    [vendor |-> 1, product |-> 1, coe |-> TRUE, rx |-> <<E(1, 1)>>, tx |-> <<>>,
     fixed |-> (11 :> <<E(5, 4), E(0, 4), E(second, 8)>>)]
Terminal ==
    [vendor |-> 1, product |-> 2, coe |-> FALSE, rx |-> <<E(3, 2)>>, tx |-> <<E(4, 2)>>,
     fixed |-> <<>>]

MCBuses == {<<Terminal, Drive(6)>>, <<Terminal, Drive(7)>>, <<Drive(6), Terminal>>,
            <<Terminal>>, <<>>}

DriveSlave ==
    [position |-> 2, vendor |-> 1, product |-> 1, check_vendor |-> TRUE, check_product |-> TRUE,
     strict |-> TRUE, sm |-> TRUE, mandatory |-> {10}, station |-> NoStation,
     sdos |-> <<Sdo(1, "INT8", -3, FALSE), Sdo(2, "UINT8", 200, TRUE)>>,
     rx |-> <<Pdo(10, FALSE, <<E(1, 8), E(0, 8), E(2, 8)>>)>>,
     tx |-> <<Pdo(11, TRUE, <<E(5, 4), E(0, 4), E(6, 8)>>)>>]
TerminalSlave ==
    [position |-> 1, vendor |-> 1, product |-> 2, check_vendor |-> TRUE, check_product |-> TRUE,
     strict |-> TRUE, sm |-> FALSE, mandatory |-> {}, station |-> NoStation, sdos |-> <<>>,
     rx |-> <<Pdo(12, FALSE, <<E(3, 2)>>)>>,
     tx |-> <<Pdo(13, FALSE, <<E(4, 2)>>)>>]

Master(interface, slaves) ==
    [protocol |-> "ETHERCAT", interface |-> interface, slaves |-> slaves]
One(drive, terminal) == <<Master("eth0", <<drive, terminal>>)>>

Coupler == [present |-> TRUE,
            slots |-> <<[min |-> 1, max |-> 1, idents |-> {1}, classes |-> {}]>>,
            modules |-> <<[slot |-> 1, ident |-> 1, class |-> NoClass]>>]

MCFiles ==
    {NoFile,
     One(DriveSlave, TerminalSlave),
     One([DriveSlave EXCEPT !.strict = FALSE], TerminalSlave),
     \* refused or failing configurations
     One([DriveSlave EXCEPT !.position = 3], TerminalSlave),
     One([DriveSlave EXCEPT !.position = 1], TerminalSlave),
     One([DriveSlave EXCEPT !.sdos[1].value = 200], TerminalSlave),
     One([DriveSlave EXCEPT !.sdos[1].bytes = TRUE], TerminalSlave),
     One([DriveSlave EXCEPT !.sdos[1].bytes = TRUE, !.sdos[1].type = "BYTESTRING",
                            !.sdos[1].value = 300], TerminalSlave),
     One([DriveSlave EXCEPT !.check_product = FALSE, !.station = Coupler,
                            !.position = 1], [TerminalSlave EXCEPT !.position = 2]),
     <<Master("eth0", <<DriveSlave, TerminalSlave>>), Master("eth0", <<TerminalSlave>>)>>,
     <<Master("eth0", <<>>), Master("eth1", <<TerminalSlave>>),
       [Master("eth1", <<>>) EXCEPT !.protocol = "MODBUS"]>>}

SlotDefs == [min : 0..2, max : 0..2, idents : {{}, {1}, {1, 2}}, classes : {{}, {"a"}}]
ModuleAt(slot, ident) == [slot |-> slot, ident |-> ident,
                          class |-> IF ident = 1 THEN NoClass ELSE "a"]
ModuleSeqs ==
    {SetToSortSeq({ModuleAt(s, f[s]) : s \in {t \in 1..3 : f[t] # 0}},
                  LAMBDA a, b : a.slot < b.slot) : f \in [1..3 -> 0..2]}
MCStations ==
    {[present |-> TRUE, slots |-> d, modules |-> m] :
        d \in {<<>>} \cup {<<a>> : a \in SlotDefs} \cup {<<a, b>> : a \in SlotDefs, b \in SlotDefs},
        m \in ModuleSeqs}
=============================================================================
