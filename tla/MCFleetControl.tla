--------------------------- MODULE MCFleetControl ---------------------------
(* Instances of FleetControl for TLC. *)
EXTENDS FleetControl, TLC

Symmetric == Permutations(Ops)
=============================================================================
