---------------------------- MODULE MCPublishing ----------------------------
(* Publishing with two sources and a room that is empty, holds one or two.   *)
EXTENDS Publishing, TLC

CONSTANTS camera, radar, empty, one, two

RoomValues == {empty, one, two}
RoomClass == empty :> 0 @@ one :> 1 @@ two :> 1

=============================================================================
