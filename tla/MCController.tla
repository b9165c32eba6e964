---------------------------- MODULE MCController ----------------------------
(* Instances of Controller for TLC. *)
EXTENDS Controller, TLC

Ask(act, tgt) == [act |-> act, tgt |-> tgt]
StartStop == {Ask("start", WholeFleet), Ask("stop", WholeFleet), Ask("stop", 1)}
Everything == StartStop \cup {Ask("reset", WholeFleet), Ask("update", WholeFleet),
                              Ask("enroll", WholeFleet), Ask("start", 1)}
=============================================================================
