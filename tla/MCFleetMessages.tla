-------------------------- MODULE MCFleetMessages --------------------------
(* Instances of FleetMessages for TLC. *)
EXTENDS FleetMessages, TLC

Symmetric == Permutations(Agents)
=============================================================================
