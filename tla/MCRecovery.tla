----------------------------- MODULE MCRecovery -----------------------------
(***************************************************************************)
(* Two slaves: position 1 with outputs and inputs, position 2 a coupler     *)
(* without process data, which only the AL poll watches.                    *)
(***************************************************************************)
EXTENDS Recovery

MCSlaves == {1, 2}
MCOutputs == {1}
MCInputs == {1}

=============================================================================
