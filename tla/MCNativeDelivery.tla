-------------------------- MODULE MCNativeDelivery --------------------------
(* Instances of NativeDelivery for TLC. *)
EXTENDS NativeDelivery, TLC

InputSymmetry == Permutations(Inputs)
=============================================================================
