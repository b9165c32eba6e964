---------------------------- MODULE MCRoomAccess ----------------------------
(* Instances of RoomAccess for TLC. *)
EXTENDS RoomAccess
CONSTANTS a1, a2, owner
=============================================================================
