-------------------------- MODULE DeliveryContract --------------------------
(***************************************************************************)
(* What a native session promises to the producers of agent input (chat,   *)
(* steering, controller messages and wake-ups).  One input at a time is    *)
(* pending; the native history takes it in at most once; it is confirmed   *)
(* only when the history holds it; and it is forgotten only after its      *)
(* producer has acknowledged the confirmation.                             *)
(*                                                                         *)
(* NativeDelivery implements this contract with a durable journal.         *)
(***************************************************************************)
EXTENDS Naturals, FiniteSets

CONSTANTS Inputs,    \* message identities, each standing for one exact text
          Capacity   \* confirmations a session keeps for its producers

VARIABLES stage,     \* where each input is
          recorded   \* the inputs the native history has taken in

contractVars == <<stage, recorded>>

Stages == {"absent", "pending", "confirmed", "acknowledged"}

InStage(s) == {i \in Inputs : stage[i] = s}

ContractInit ==
  /\ stage = [i \in Inputs |-> "absent"]
  /\ recorded = {}

(* The journal takes responsibility for an input.                          *)
Take(i) ==
  /\ stage[i] = "absent"
  /\ InStage("pending") = {}
  /\ Cardinality(InStage("confirmed")) < Capacity
  /\ stage' = [stage EXCEPT ![i] = "pending"]
  /\ UNCHANGED recorded

(* The native history takes the pending input in, once.                    *)
Enter(i) ==
  /\ stage[i] = "pending"
  /\ i \notin recorded
  /\ recorded' = recorded \cup {i}
  /\ UNCHANGED stage

(* The entry has been seen: the producer may move its read position.       *)
Confirm(i) ==
  /\ stage[i] = "pending"
  /\ i \in recorded
  /\ stage' = [stage EXCEPT ![i] = "confirmed"]
  /\ UNCHANGED recorded

(* A turn that ended without taking the input gives it back to its owner.  *)
GiveBack(i) ==
  /\ stage[i] = "pending"
  /\ i \notin recorded
  /\ stage' = [stage EXCEPT ![i] = "absent"]
  /\ UNCHANGED recorded

(* The producer has saved its own checkpoint.                              *)
Forget(i) ==
  /\ stage[i] = "confirmed"
  /\ stage' = [stage EXCEPT ![i] = "acknowledged"]
  /\ UNCHANGED recorded

ContractNext ==
  \E i \in Inputs : Take(i) \/ Enter(i) \/ Confirm(i) \/ GiveBack(i) \/ Forget(i)

Contract == ContractInit /\ [][ContractNext]_contractVars
=============================================================================
