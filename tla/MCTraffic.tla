------------------------------ MODULE MCTraffic ------------------------------
(***************************************************************************)
(* Traffic for TLC: any two of a visit to the front page or a WebSocket, a *)
(* message and a notice.                                                   *)
(***************************************************************************)
EXTENDS Traffic

TwoUpOneDown == [up |-> 2, down |-> 1]

=============================================================================
