-------------------------- MODULE MCControlServer --------------------------
(***************************************************************************)
(* A server with a token, two slots and three connections: one makes two       *)
(* requests, in pieces or at once, and may hang up; one has the wrong token     *)
(* and sends any number of empty lines; one only connects.                     *)
(***************************************************************************)
EXTENDS ControlServer

MCConns == {1, 2, 3}
MCSays == <<{"hello", "command", "shutdown", "part", "hangup"}, {"bad_hello", "blank"}, {}>>
MCMaxRequests == <<2, 1, 0>>

=============================================================================
