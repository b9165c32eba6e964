------------------------ MODULE MCReceiverPublication ------------------------
(* Instances of ReceiverPublication for TLC. *)
EXTENDS ReceiverPublication, TLC
=============================================================================
