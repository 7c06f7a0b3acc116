------------------------------ MODULE MCFusion ------------------------------
(* One room with a camera, a radar and a presence-only source.               *)
EXTENDS Fusion, TLC

CONSTANTS camera, radar, ble

RoomWeight == camera :> 10 @@ radar :> 9 @@ ble :> 7
\* The camera has been wrong in this room before.
RoomReliability == camera :> 4 @@ radar :> 10 @@ ble :> 10
\* Just now, and so far ahead that it is dead for a while.
RoomArrival == {-3, 0}

=============================================================================
