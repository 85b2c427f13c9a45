------------------------------- MODULE Outputs -------------------------------
(***************************************************************************)
(* What the data channel promises of the output image: it is zero, the safe    *)
(* state, or the outputs of one client frame; a frame that replaces it belongs  *)
(* to the session of the moment and is younger than every frame applied before. *)
(***************************************************************************)
EXTENDS Naturals

VARIABLES
    session,  \* the session of the moment, 0 for none
    out,      \* [session, n] of the frame in the image, n 0 for the safe state
    newest    \* the youngest frame ever applied

Nothing == [session |-> 0, n |-> 0]

Init == session = 0 /\ out = Nothing /\ newest = 0

\* Opening and closing a session leaves the image to the next cycle.
Sessions == session' # session /\ UNCHANGED <<out, newest>>
Safe == out' = Nothing /\ UNCHANGED <<session, newest>>
Take == out'.session = session /\ out'.n > newest /\ newest' = out'.n /\ UNCHANGED session

Next == Sessions \/ Safe \/ Take
Spec == Init /\ [][Next]_<<session, out, newest>>

=============================================================================
