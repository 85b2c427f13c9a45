------------------------------ MODULE BusState ------------------------------
(***************************************************************************)
(* What status may show of the masters over time: the states of               *)
(* ecat_bus_state_t and the steps between them.  src/config.h:420 lists the    *)
(* successful ones; a start that fails and a thread that cannot be created     *)
(* also end in ERROR, start leaves STOPPED and ERROR directly, and configure   *)
(* replaces masters by new ones in IDLE.                                       *)
(***************************************************************************)
CONSTANT Masters
VARIABLE state

Up == {"SCANNING", "CONFIGURING", "TRANSITIONING", "OPERATIONAL", "RECOVERING"}

Edges ==
    ({"IDLE", "STOPPED", "ERROR"} \X {"SCANNING"})
    \cup {<<"SCANNING", "CONFIGURING">>, <<"CONFIGURING", "TRANSITIONING">>,
          <<"TRANSITIONING", "OPERATIONAL">>,
          <<"OPERATIONAL", "RECOVERING">>, <<"RECOVERING", "OPERATIONAL">>}
    \cup (Up \X {"ERROR"})
    \cup ({"OPERATIONAL", "RECOVERING", "ERROR"} \X {"STOPPED"})
    \cup ({"STOPPED", "ERROR"} \X {"IDLE"})

Init == state = [m \in Masters |-> "IDLE"]
Next == \A m \in Masters : state'[m] = state[m] \/ <<state[m], state'[m]>> \in Edges
Spec == Init /\ [][Next]_state

=============================================================================
