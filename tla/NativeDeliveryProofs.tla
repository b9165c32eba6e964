------------------------ MODULE NativeDeliveryProofs ------------------------
(***************************************************************************)
(* Proofs about NativeDelivery, for every set of inputs, every capacity of *)
(* the journal and every number of faults.  The argument: the history only *)
(* grows, so a sighting of an entry stays true until it is acted on, and   *)
(* only a sighting makes a confirmation.                                   *)
(***************************************************************************)
EXTENDS NativeDelivery, FiniteSetTheorems, TLAPS

(* A pending record is either empty or a record of an input.               *)
LEMMA PendingInput ==
  ASSUME TypeOK, pending # NoPending
  PROVE  pending \in Pending /\ pending.input \in Inputs
BY DEF TypeOK, Pending

(* Initially nothing is pending, confirmed or recorded.                    *)
LEMMA InitInv == Init => DeliveryInv
<1> SUFFICES ASSUME Init PROVE DeliveryInv
  OBVIOUS
<1>1. TypeOK
  <2>1. call \in Call
    BY DEF Init, NoCall, Call, Points, Sightings
  <2>2. up \in BOOLEAN /\ resumed \in BOOLEAN /\ busy \in BOOLEAN
    BY Zenon DEF Init
  <2>3. turns \in Seq(Message) /\ DOMAIN turns = {} /\ running = {} /\ entries = {}
        /\ interrupted = {} /\ finished = {}
    BY DEF Init
  <2>4. pending = NoPending /\ confirmed = {} /\ settled = {} /\ restored = None
        /\ notices = 0 /\ wire = NoMessage /\ reply = 0 /\ faults = 0
    BY Zenon DEF Init
  <2> QED BY <2>1, <2>2, <2>3, <2>4, FaultsAssumption DEF TypeOK
<1>2. JournalReadable /\ RoomForPending
  BY FS_EmptySet, CapacityAssumption DEF Init, JournalReadable, RoomForPending, NoPending
<1>3. ConfirmedIsRecorded /\ CallOwnsPending /\ SightingHolds
  BY DEF Init, ConfirmedIsRecorded, CallOwnsPending, SightingHolds, NoCall
<1> QED BY <1>1, <1>2, <1>3 DEF DeliveryInv

(* Every step keeps the type invariant.                                    *)
LEMMA TypeStep ==
  ASSUME DeliveryInv, [Next]_vars
  PROVE  TypeOK'
<1> USE NoneAssumption, FaultsAssumption
<1>0. TypeOK /\ CallOwnsPending
  BY DEF DeliveryInv
<1>1. ASSUME NEW i \in Inputs, Deliver(i) PROVE TypeOK'
  BY <1>0, <1>1, PendingInput
  DEF Deliver, TypeOK, CallOwnsPending, Pending, NoPending, Message, NoMessage,
      MessageOf, Call, NoCall, Points, Sightings, journalVars, processVars, nativeVars
<1>2. ASSUME NEW i \in Inputs, Acknowledge(i) PROVE TypeOK'
  BY <1>0, <1>2, PendingInput
  DEF Acknowledge, TypeOK, CallOwnsPending, Pending, NoPending, Message, NoMessage,
      MessageOf, Call, NoCall, Points, Sightings, journalVars, processVars, nativeVars
<1>3. CASE Recover
  BY <1>0, <1>3, PendingInput
  DEF Recover, TypeOK, CallOwnsPending, Pending, NoPending, Message, NoMessage,
      MessageOf, Call, NoCall, Points, Sightings, journalVars, processVars, nativeVars
<1>4. CASE Prepare
  BY <1>0, <1>4, PendingInput
  DEF Prepare, TypeOK, CallOwnsPending, Pending, NoPending, Message, NoMessage,
      MessageOf, Call, NoCall, Points, Sightings, journalVars, processVars, nativeVars
<1>5. CASE Refuse
  BY <1>0, <1>5, PendingInput
  DEF Refuse, TypeOK, CallOwnsPending, Pending, NoPending, Message, NoMessage,
      MessageOf, Call, NoCall, Points, Sightings, journalVars, processVars, nativeVars
<1>6. CASE Submit
  BY <1>0, <1>6, PendingInput
  DEF Submit, TypeOK, CallOwnsPending, Pending, NoPending, Message, NoMessage,
      MessageOf, Call, NoCall, Points, Sightings, journalVars, processVars, nativeVars
<1>7. CASE SaveTurn
  <2>1. pending \in Pending /\ reply \in Nat
    BY <1>0, <1>7, PendingInput DEF SaveTurn, TypeOK, CallOwnsPending
  <2>2. pending' \in Pending
    BY <1>7, <2>1 DEF SaveTurn, Pending
  <2>3. call' \in Call
    BY <1>0, <1>7 DEF SaveTurn, TypeOK, Call, Points
  <2>4. reply' = 0
    BY <1>7 DEF SaveTurn
  <2>5. UNCHANGED <<confirmed, settled, up, restored, resumed, notices, wire, turns,
                    running, entries, interrupted, finished, busy, faults>>
    BY <1>7 DEF SaveTurn, processVars, nativeVars
  <2> QED BY <1>0, <2>2, <2>3, <2>4, <2>5 DEF TypeOK
<1>8. CASE Poll
  <2>1. Scan \in Sightings
    BY DEF Scan, Sightings
  <2>2. call' \in Call
    BY <1>0, <1>8, <2>1 DEF Poll, TypeOK, Call, Points
  <2>3. UNCHANGED <<pending, confirmed, settled, up, restored, resumed, notices, wire,
                    reply, turns, running, entries, interrupted, finished, busy, faults>>
    BY <1>8 DEF Poll, journalVars, processVars, nativeVars
  <2> QED BY <1>0, <2>2, <2>3 DEF TypeOK
<1>9. CASE PollUnavailable
  <2>1. call' \in Call
    BY <1>9 DEF PollUnavailable, NoCall, Call, Points, Sightings
  <2>2. UNCHANGED <<pending, confirmed, settled, up, restored, resumed, notices, wire,
                    reply, turns, running, entries, interrupted, finished, busy, faults>>
    BY <1>9 DEF PollUnavailable, journalVars, processVars, nativeVars
  <2> QED BY <1>0, <2>1, <2>2 DEF TypeOK
<1>10. CASE Receive
  BY <1>0, <1>10, PendingInput
  DEF Receive, TypeOK, CallOwnsPending, Pending, NoPending, Message, NoMessage,
      MessageOf, Call, NoCall, Points, Sightings, journalVars, processVars, nativeVars
<1>11. CASE Restart
  BY <1>0, <1>11, PendingInput
  DEF Restart, TypeOK, CallOwnsPending, Pending, NoPending, Message, NoMessage,
      MessageOf, Call, NoCall, Points, Sightings, journalVars, processVars, nativeVars
<1>12. CASE SaveNotice
  <2>1. pending.input \in Inputs /\ call \in Call /\ notices \in Nat
    BY <1>0, <1>12, PendingInput DEF SaveNotice, TypeOK, CallOwnsPending
  <2>2. pending' \in Pending /\ notices' \in Nat
    BY <1>12, <2>1 DEF SaveNotice, Pending
  <2>3. call' \in Call
    BY <1>12, <2>1 DEF SaveNotice, Call, Points
  <2>4. resumed' \in BOOLEAN
    BY <1>12, Zenon DEF SaveNotice
  <2>5. UNCHANGED <<confirmed, settled, up, restored, wire, reply, turns, running,
                    entries, interrupted, finished, busy, faults>>
    BY <1>12, Zenon DEF SaveNotice, nativeVars
  <2> QED BY <1>0, <2>2, <2>3, <2>4, <2>5 DEF TypeOK
<1>13. CASE Uncertain
  BY <1>0, <1>13, PendingInput
  DEF Uncertain, NoRestart, TypeOK, CallOwnsPending, Pending, NoPending, Message, NoMessage,
      MessageOf, Call, NoCall, Points, Sightings, journalVars, processVars, nativeVars
<1>14. CASE Wait
  BY <1>0, <1>14, PendingInput
  DEF Wait, NoRestart, TypeOK, CallOwnsPending, Pending, NoPending, Message, NoMessage,
      MessageOf, Call, NoCall, Points, Sightings, journalVars, processVars, nativeVars
<1>15. CASE Missed
  BY <1>0, <1>15, PendingInput
  DEF Missed, NoRestart, TypeOK, CallOwnsPending, Pending, NoPending, Message, NoMessage,
      MessageOf, Call, NoCall, Points, Sightings, journalVars, processVars, nativeVars
<1>16. CASE Interrupted
  BY <1>0, <1>16, PendingInput
  DEF Interrupted, NoRestart, TypeOK, CallOwnsPending, Pending, NoPending, Message, NoMessage,
      MessageOf, Call, NoCall, Points, Sightings, journalVars, processVars, nativeVars
<1>17. CASE Complete
  BY <1>0, <1>17, PendingInput
  DEF Complete, TypeOK, CallOwnsPending, Pending, NoPending, Message, NoMessage,
      MessageOf, Call, NoCall, Points, Sightings, journalVars, processVars, nativeVars
<1>18. CASE Drop
  BY <1>0, <1>18, PendingInput
  DEF Drop, Fault, TypeOK, CallOwnsPending, Pending, NoPending, Message, NoMessage,
      MessageOf, Call, NoCall, Points, Sightings, journalVars, processVars, nativeVars
<1>19. CASE Crash
  <2>1. up' \in BOOLEAN /\ resumed' \in BOOLEAN /\ busy' \in BOOLEAN
    BY <1>19, Zenon DEF Crash
  <2>2. /\ call' = NoCall /\ wire' = NoMessage /\ reply' = 0 /\ running' = {}
        /\ restored' = None /\ faults < MaxFaults /\ faults' = faults + 1
    BY <1>19, Zenon DEF Crash, Fault
  <2>3. UNCHANGED <<pending, confirmed, settled, notices, turns, entries, interrupted,
                    finished>>
    BY <1>19, Zenon DEF Crash, journalVars
  <2>4. call' \in Call
    BY <2>2 DEF NoCall, Call, Points, Sightings
  <2> QED BY <1>0, <2>1, <2>2, <2>3, <2>4 DEF TypeOK
<1>20. CASE Open
  BY <1>0, <1>20, PendingInput
  DEF Open, TypeOK, CallOwnsPending, Pending, NoPending, Message, NoMessage,
      MessageOf, Call, NoCall, Points, Sightings, journalVars, processVars, nativeVars
<1>21. CASE Accept
  BY <1>0, <1>21, PendingInput
  DEF Accept, TypeOK, CallOwnsPending, Pending, NoPending, Message, NoMessage,
      MessageOf, Call, NoCall, Points, Sightings, journalVars, processVars, nativeVars
<1>22. CASE Reject
  BY <1>0, <1>22, PendingInput
  DEF Reject, Fault, TypeOK, CallOwnsPending, Pending, NoPending, Message, NoMessage,
      MessageOf, Call, NoCall, Points, Sightings, journalVars, processVars, nativeVars
<1>23. CASE Occupy
  BY <1>0, <1>23, PendingInput
  DEF Occupy, Fault, TypeOK, CallOwnsPending, Pending, NoPending, Message, NoMessage,
      MessageOf, Call, NoCall, Points, Sightings, journalVars, processVars, nativeVars
<1>24. CASE Vacate
  <2>1. busy' \in BOOLEAN
    BY <1>24, Zenon DEF Vacate
  <2>2. UNCHANGED <<pending, confirmed, settled, up, restored, resumed, notices, call,
                    wire, reply, turns, running, entries, interrupted, finished, faults>>
    BY <1>24, Zenon DEF Vacate, journalVars, processVars, nativeVars
  <2> QED BY <1>0, <2>1, <2>2 DEF TypeOK
<1>25. ASSUME NEW t \in DOMAIN turns, Record(t) PROVE TypeOK'
  BY <1>0, <1>25, PendingInput
  DEF Record, TypeOK, CallOwnsPending, Pending, NoPending, Message, NoMessage,
      MessageOf, Call, NoCall, Points, Sightings, journalVars, processVars, nativeVars
<1>26. ASSUME NEW t \in DOMAIN turns, Finish(t) PROVE TypeOK'
  BY <1>0, <1>26, PendingInput
  DEF Finish, TypeOK, CallOwnsPending, Pending, NoPending, Message, NoMessage,
      MessageOf, Call, NoCall, Points, Sightings, journalVars, processVars, nativeVars
<1>27. ASSUME NEW t \in DOMAIN turns, Lose(t) PROVE TypeOK'
  BY <1>0, <1>27, PendingInput
  DEF Lose, Fault, TypeOK, CallOwnsPending, Pending, NoPending, Message, NoMessage,
      MessageOf, Call, NoCall, Points, Sightings, journalVars, processVars, nativeVars
<1>28. ASSUME NEW t \in DOMAIN turns, Interrupt(t) PROVE TypeOK'
  BY <1>0, <1>28, PendingInput
  DEF Interrupt, Fault, TypeOK, CallOwnsPending, Pending, NoPending, Message, NoMessage,
      MessageOf, Call, NoCall, Points, Sightings, journalVars, processVars, nativeVars
<1>29. CASE UNCHANGED vars
  BY <1>0, <1>29 DEF vars, TypeOK
<1> QED
  BY <1>1, <1>2, <1>3, <1>4, <1>5, <1>6, <1>7, <1>8, <1>9, <1>10, <1>11, <1>12, <1>13, <1>14, <1>15, <1>16, <1>17, <1>18, <1>19, <1>20, <1>21, <1>22, <1>23, <1>24, <1>25, <1>26, <1>27, <1>28, <1>29 DEF Next, CallStep

(* Which steps write the history and the journal.                          *)
LEMMA HistoryWriters ==
  ASSUME [Next]_vars
  PROVE  /\ turns' = turns \/ Accept
         /\ entries' = entries \/ \E t \in DOMAIN turns : Record(t)
BY DEF Next, CallStep, Deliver, Acknowledge, Recover, Prepare, Refuse, Submit, SaveTurn,
      Poll, PollUnavailable, Receive, Restart, SaveNotice, Uncertain, Wait, Missed,
      Interrupted, Complete, Drop, Crash, Open, Accept, Reject, Record, Finish, Lose,
      Interrupt, Occupy, Vacate, NoRestart, vars, journalVars, processVars, nativeVars

(* The journal is written by the call that holds its lock, by the          *)
(* acknowledgment of a producer and by nothing else.                       *)
LEMMA JournalWriters ==
  ASSUME [Next]_vars
  PROVE  /\ confirmed' = confirmed \/ Receive \/ \E i \in Inputs : Acknowledge(i)
         /\ settled' = settled \/ \E i \in Inputs : Acknowledge(i)
         /\ pending' = pending \/ Prepare \/ SaveTurn \/ SaveNotice \/ Missed
              \/ Interrupted \/ Receive \/ Complete
BY DEF Next, CallStep, Deliver, Acknowledge, Recover, Prepare, Refuse, Submit, SaveTurn,
      Poll, PollUnavailable, Receive, Restart, SaveNotice, Uncertain, Wait, Missed,
      Interrupted, Complete, Drop, Crash, Open, Accept, Reject, Record, Finish, Lose,
      Interrupt, Occupy, Vacate, NoRestart, vars, journalVars, processVars, nativeVars

(* Which steps write the call in progress, and which of them leave it at   *)
(* an await of its own.                                                    *)
LEMMA CallWriters ==
  ASSUME [Next]_vars
  PROVE  \/ call' = call
         \/ call' = NoCall
         \/ \E i \in Inputs : Deliver(i)
         \/ Recover \/ Prepare \/ Submit \/ SaveTurn \/ Poll \/ Restart
         \/ SaveNotice \/ Wait \/ Interrupted \/ Complete
BY DEF Next, CallStep, Refuse, PollUnavailable, Receive, Uncertain, Missed, Drop,
      Crash, Acknowledge, Open, Accept, Reject, Record, Finish, Lose, Interrupt,
      Occupy, Vacate, vars, journalVars, processVars, nativeVars

(* Turns are only appended and entries are only added.                     *)
LEMMA HistoryGrows ==
  ASSUME TypeOK, [Next]_vars, NEW i
  PROVE  EntriesOf(i) \subseteq EntriesOf(i)'
<1>1. entries \subseteq entries'
  BY HistoryWriters DEF Record
<1>2. \A t \in DOMAIN turns : turns'[t] = turns[t]
  <2>1. CASE turns' = turns
    BY <2>1
  <2>2. CASE Accept
    BY <2>2 DEF Accept, TypeOK
  <2> QED BY <2>1, <2>2, HistoryWriters
<1> QED BY <1>1, <1>2 DEF EntriesOf, TypeOK

(* Only a sighting of the entry makes a confirmation.                      *)
LEMMA ConfirmedStep ==
  ASSUME DeliveryInv, [Next]_vars
  PROVE  ConfirmedIsRecorded'
<1> SUFFICES ASSUME NEW i \in (confirmed \cup settled)'
             PROVE  EntriesOf(i)' # {}
  BY DEF ConfirmedIsRecorded
<1>1. i \in confirmed \cup settled \/ (Receive /\ i = pending.input)
  BY JournalWriters DEF Receive, Acknowledge
<1>2. EntriesOf(i) # {}
  BY <1>1 DEF DeliveryInv, ConfirmedIsRecorded, SightingHolds, Receive
<1> QED BY <1>2, HistoryGrows DEF DeliveryInv

(* A call comes to decide on a sighting only by a scan of the history.     *)
LEMMA SightingWriters ==
  ASSUME TypeOK, [Next]_vars, call'.at = "decide"
  PROVE  call' = call \/ Poll
<1>1. call' # NoCall /\ ~Recover /\ \A i \in Inputs : ~Deliver(i)
  BY DEF NoCall, Recover, Deliver
<1>2. \A p \in Points : p # "decide" =>
        call' # [call EXCEPT !.at = p] /\ call' # [call EXCEPT !.at = p, !.seen = "none"]
  BY DEF TypeOK, Call
<1>3. ~Prepare /\ ~Submit /\ ~SaveTurn
  BY <1>2 DEF Prepare, Submit, SaveTurn, Points
<1>4. ~Restart /\ ~SaveNotice /\ ~Interrupted
  BY <1>2 DEF Restart, SaveNotice, Interrupted, Points
<1>5. ~Wait /\ ~Complete
  BY <1>1, <1>2 DEF Wait, Complete, Points
<1> QED BY <1>1, <1>3, <1>4, <1>5, CallWriters

(* A sighting stays true until the call acts on it: the pending record is  *)
(* the call's own and the history only grows.                              *)
LEMMA SightingStep ==
  ASSUME DeliveryInv, [Next]_vars
  PROVE  SightingHolds'
<1> SUFFICES ASSUME (call.at = "decide" /\ call.seen = "received")'
             PROVE  (EntriesOf(pending.input) # {})'
  BY DEF SightingHolds
<1>0. TypeOK
  BY DEF DeliveryInv
<1>1. CASE Poll
  <2>1. Scan = "received" /\ pending' = pending
    BY <1>0, <1>1 DEF Poll, journalVars, TypeOK, Call
  <2>2. Matches # {}
    BY <2>1 DEF Scan
  <2>3. EntriesOf(pending.input) # {}
    BY <2>2 DEF Matches, EntriesOf, MessageOf
  <2> QED BY <1>0, <2>1, <2>3, HistoryGrows
<1>2. CASE call' = call
  <2>1. ~Prepare /\ ~SaveTurn /\ ~SaveNotice /\ ~Missed /\ ~Interrupted
    BY <1>0, <1>2 DEF Prepare, SaveTurn, SaveNotice, Missed, Interrupted, NoRestart,
        TypeOK, Call, NoCall
  <2>2. ~Receive /\ ~Complete
    BY <1>0, <1>2 DEF Receive, Complete, TypeOK, Call, NoCall
  <2>3. pending' = pending
    BY <2>1, <2>2, JournalWriters
  <2>4. EntriesOf(pending.input) # {}
    BY <1>2 DEF DeliveryInv, SightingHolds
  <2> QED BY <1>0, <2>3, <2>4, HistoryGrows
<1> QED BY <1>0, <1>1, <1>2, SightingWriters

(* A call past its save owns the pending record, and a request in flight   *)
(* carries it.                                                             *)
LEMMA OwnershipStep ==
  ASSUME DeliveryInv, [Next]_vars
  PROVE  CallOwnsPending'
<1> USE NoneAssumption
<1>0. TypeOK /\ CallOwnsPending
  BY DEF DeliveryInv
<1>1. ASSUME NEW i \in Inputs, Deliver(i) PROVE CallOwnsPending'
  BY <1>0, <1>1, PendingInput
  DEF Deliver, CallOwnsPending, TypeOK, Call, NoCall, Pending, NoPending, Message, NoMessage,
      MessageOf, journalVars, processVars, nativeVars
<1>2. ASSUME NEW i \in Inputs, Acknowledge(i) PROVE CallOwnsPending'
  BY <1>0, <1>2, PendingInput
  DEF Acknowledge, CallOwnsPending, TypeOK, Call, NoCall, Pending, NoPending, Message, NoMessage,
      MessageOf, journalVars, processVars, nativeVars
<1>3. CASE Recover
  BY <1>0, <1>3, PendingInput
  DEF Recover, CallOwnsPending, TypeOK, Call, NoCall, Pending, NoPending, Message, NoMessage,
      MessageOf, journalVars, processVars, nativeVars
<1>4. CASE Prepare
  BY <1>0, <1>4, PendingInput
  DEF Prepare, CallOwnsPending, TypeOK, Call, NoCall, Pending, NoPending, Message, NoMessage,
      MessageOf, journalVars, processVars, nativeVars
<1>5. CASE Refuse
  BY <1>0, <1>5, PendingInput
  DEF Refuse, CallOwnsPending, TypeOK, Call, NoCall, Pending, NoPending, Message, NoMessage,
      MessageOf, journalVars, processVars, nativeVars
<1>6. CASE Submit
  BY <1>0, <1>6, PendingInput
  DEF Submit, CallOwnsPending, TypeOK, Call, NoCall, Pending, NoPending, Message, NoMessage,
      MessageOf, journalVars, processVars, nativeVars
<1>7. CASE SaveTurn
  BY <1>0, <1>7, PendingInput
  DEF SaveTurn, CallOwnsPending, TypeOK, Call, NoCall, Pending, NoPending, Message, NoMessage,
      MessageOf, journalVars, processVars, nativeVars
<1>8. CASE Poll
  BY <1>0, <1>8, PendingInput
  DEF Poll, CallOwnsPending, TypeOK, Call, NoCall, Pending, NoPending, Message, NoMessage,
      MessageOf, journalVars, processVars, nativeVars
<1>9. CASE PollUnavailable
  BY <1>0, <1>9, PendingInput
  DEF PollUnavailable, CallOwnsPending, TypeOK, Call, NoCall, Pending, NoPending, Message, NoMessage,
      MessageOf, journalVars, processVars, nativeVars
<1>10. CASE Receive
  BY <1>0, <1>10, PendingInput
  DEF Receive, CallOwnsPending, TypeOK, Call, NoCall, Pending, NoPending, Message, NoMessage,
      MessageOf, journalVars, processVars, nativeVars
<1>11. CASE Restart
  BY <1>0, <1>11, PendingInput
  DEF Restart, CallOwnsPending, TypeOK, Call, NoCall, Pending, NoPending, Message, NoMessage,
      MessageOf, journalVars, processVars, nativeVars
<1>12. CASE SaveNotice
  BY <1>0, <1>12, PendingInput
  DEF SaveNotice, CallOwnsPending, TypeOK, Call, NoCall, Pending, NoPending, Message, NoMessage,
      MessageOf, journalVars, processVars, nativeVars
<1>13. CASE Uncertain
  BY <1>0, <1>13, PendingInput
  DEF Uncertain, NoRestart, CallOwnsPending, TypeOK, Call, NoCall, Pending, NoPending, Message, NoMessage,
      MessageOf, journalVars, processVars, nativeVars
<1>14. CASE Wait
  BY <1>0, <1>14, PendingInput
  DEF Wait, NoRestart, CallOwnsPending, TypeOK, Call, NoCall, Pending, NoPending, Message, NoMessage,
      MessageOf, journalVars, processVars, nativeVars
<1>15. CASE Missed
  BY <1>0, <1>15, PendingInput
  DEF Missed, NoRestart, CallOwnsPending, TypeOK, Call, NoCall, Pending, NoPending, Message, NoMessage,
      MessageOf, journalVars, processVars, nativeVars
<1>16. CASE Interrupted
  BY <1>0, <1>16, PendingInput
  DEF Interrupted, NoRestart, CallOwnsPending, TypeOK, Call, NoCall, Pending, NoPending, Message, NoMessage,
      MessageOf, journalVars, processVars, nativeVars
<1>17. CASE Complete
  <2>1. wire = NoMessage /\ wire' = NoMessage /\ reply' = 0 /\ pending' = NoPending
    BY <1>0, <1>17 DEF Complete, CallOwnsPending, nativeVars
  <2>2. CASE call' = NoCall
    BY <2>1, <2>2 DEF CallOwnsPending, NoCall
  <2>3. CASE call' = [call EXCEPT !.at = "capture", !.seen = "none"]
    <3>1. call'.at = "capture" /\ call'.input = call.input
      BY <1>0, <2>3 DEF TypeOK, Call
    <3>2. call.input \in Inputs
      BY <1>0, <1>17, PendingInput DEF Complete, CallOwnsPending
    <3> QED BY <2>1, <3>1, <3>2 DEF CallOwnsPending
  <2> QED BY <1>17, <2>2, <2>3 DEF Complete
<1>18. CASE Drop
  BY <1>0, <1>18, PendingInput
  DEF Drop, CallOwnsPending, TypeOK, Call, NoCall, Pending, NoPending, Message, NoMessage,
      MessageOf, journalVars, processVars, nativeVars
<1>19. CASE Crash
  BY <1>0, <1>19, PendingInput
  DEF Crash, CallOwnsPending, TypeOK, Call, NoCall, Pending, NoPending, Message, NoMessage,
      MessageOf, journalVars, processVars, nativeVars
<1>20. CASE Open
  BY <1>0, <1>20, PendingInput
  DEF Open, CallOwnsPending, TypeOK, Call, NoCall, Pending, NoPending, Message, NoMessage,
      MessageOf, journalVars, processVars, nativeVars
<1>21. CASE Accept
  BY <1>0, <1>21, PendingInput
  DEF Accept, CallOwnsPending, TypeOK, Call, NoCall, Pending, NoPending, Message, NoMessage,
      MessageOf, journalVars, processVars, nativeVars
<1>22. CASE Reject
  BY <1>0, <1>22, PendingInput
  DEF Reject, CallOwnsPending, TypeOK, Call, NoCall, Pending, NoPending, Message, NoMessage,
      MessageOf, journalVars, processVars, nativeVars
<1>23. ASSUME NEW t \in DOMAIN turns, Record(t) PROVE CallOwnsPending'
  BY <1>0, <1>23, PendingInput
  DEF Record, CallOwnsPending, TypeOK, Call, NoCall, Pending, NoPending, Message, NoMessage,
      MessageOf, journalVars, processVars, nativeVars
<1>24. ASSUME NEW t \in DOMAIN turns, Finish(t) PROVE CallOwnsPending'
  BY <1>0, <1>24, PendingInput
  DEF Finish, CallOwnsPending, TypeOK, Call, NoCall, Pending, NoPending, Message, NoMessage,
      MessageOf, journalVars, processVars, nativeVars
<1>25. ASSUME NEW t \in DOMAIN turns, Lose(t) PROVE CallOwnsPending'
  BY <1>0, <1>25, PendingInput
  DEF Lose, CallOwnsPending, TypeOK, Call, NoCall, Pending, NoPending, Message, NoMessage,
      MessageOf, journalVars, processVars, nativeVars
<1>26. ASSUME NEW t \in DOMAIN turns, Interrupt(t) PROVE CallOwnsPending'
  BY <1>0, <1>26, PendingInput
  DEF Interrupt, CallOwnsPending, TypeOK, Call, NoCall, Pending, NoPending, Message, NoMessage,
      MessageOf, journalVars, processVars, nativeVars
<1>27. CASE Occupy
  BY <1>0, <1>27, PendingInput
  DEF Occupy, CallOwnsPending, TypeOK, Call, NoCall, Pending, NoPending, Message, NoMessage,
      MessageOf, journalVars, processVars, nativeVars
<1>28. CASE Vacate
  BY <1>0, <1>28, PendingInput
  DEF Vacate, CallOwnsPending, TypeOK, Call, NoCall, Pending, NoPending, Message, NoMessage,
      MessageOf, journalVars, processVars, nativeVars
<1>29. CASE UNCHANGED vars
  BY <1>0, <1>29 DEF vars, CallOwnsPending, MessageOf
<1> QED
  BY <1>1, <1>2, <1>3, <1>4, <1>5, <1>6, <1>7, <1>8, <1>9, <1>10, <1>11, <1>12, <1>13, <1>14, <1>15, <1>16, <1>17, <1>18, <1>19, <1>20, <1>21, <1>22, <1>23, <1>24, <1>25, <1>26, <1>27, <1>28, <1>29 DEF Next, CallStep

(* The journal stays readable, and a pending input keeps room for its      *)
(* confirmation.                                                           *)
LEMMA JournalStep ==
  ASSUME DeliveryInv, [Next]_vars
  PROVE  JournalReadable' /\ RoomForPending'
<1>0. TypeOK /\ CallOwnsPending /\ JournalReadable /\ RoomForPending
  BY DEF DeliveryInv
<1>1. Cardinality(confirmed) \in Nat /\ IsFiniteSet(confirmed)
  BY <1>0, FS_CardinalityType DEF RoomForPending
<1>2. CASE Receive
  <2>1. pending # NoPending /\ Cardinality(confirmed) < Capacity
    BY <1>0, <1>2 DEF Receive, CallOwnsPending, RoomForPending
  <2>2. pending.input \notin confirmed /\ None \notin confirmed'
    BY <1>0, <1>2, <2>1, PendingInput, NoneAssumption DEF Receive, JournalReadable, TypeOK
  <2>3. IsFiniteSet(confirmed') /\ Cardinality(confirmed') = Cardinality(confirmed) + 1
    BY <1>1, <1>2, <2>2, FS_AddElement DEF Receive
  <2>4. pending' = NoPending
    BY <1>2 DEF Receive
  <2> QED
    BY <1>1, <2>1, <2>2, <2>3, <2>4, CapacityAssumption
    DEF JournalReadable, RoomForPending, NoPending
<1>3. ASSUME NEW i \in Inputs, Acknowledge(i) PROVE JournalReadable' /\ RoomForPending'
  <2>1. confirmed' = confirmed \ {i} /\ i \in confirmed /\ pending' = pending
    BY <1>3 DEF Acknowledge
  <2>2. IsFiniteSet(confirmed') /\ Cardinality(confirmed') = Cardinality(confirmed) - 1
    BY <1>1, <2>1, FS_RemoveElement
  <2> QED BY <1>0, <1>1, <2>1, <2>2, CapacityAssumption DEF JournalReadable, RoomForPending
<1>4. CASE confirmed' = confirmed /\ pending' = pending
  BY <1>0, <1>4 DEF JournalReadable, RoomForPending
<1>5. CASE confirmed' = confirmed /\ Prepare
  <2>1. pending'.input = call.input /\ Cardinality(confirmed) < Capacity
        /\ call.input \notin confirmed
    BY <1>5 DEF Prepare
  <2> QED BY <1>0, <1>5, <2>1 DEF JournalReadable, RoomForPending
<1>6. CASE confirmed' = confirmed /\ Complete
  <2>1. pending' = NoPending /\ None \notin confirmed
    BY <1>0, <1>6, NoneAssumption DEF Complete, TypeOK
  <2> QED BY <1>0, <1>6, <2>1 DEF JournalReadable, RoomForPending, NoPending
<1>7. CASE confirmed' = confirmed /\ (SaveTurn \/ SaveNotice \/ Missed \/ Interrupted)
  <2>1. pending # NoPending
    BY <1>0, <1>7 DEF SaveTurn, SaveNotice, Missed, Interrupted, NoRestart, CallOwnsPending
  <2>2. pending'.input = pending.input
    BY <1>0, <1>7, <2>1, PendingInput
    DEF SaveTurn, SaveNotice, Missed, Interrupted, NoRestart, Pending
  <2> QED BY <1>0, <1>7, <2>1, <2>2 DEF JournalReadable, RoomForPending
<1> QED BY <1>2, <1>3, <1>4, <1>5, <1>6, <1>7, JournalWriters

(* The inductive invariant of a native session.                            *)
THEOREM DeliveryInvariant == Spec => []DeliveryInv
<1>1. DeliveryInv /\ [Next]_vars => DeliveryInv'
  <2> SUFFICES ASSUME DeliveryInv, [Next]_vars PROVE DeliveryInv'
    OBVIOUS
  <2> QED
    BY TypeStep, ConfirmedStep, SightingStep, OwnershipStep, JournalStep DEF DeliveryInv
<1> QED BY InitInv, <1>1, PTL DEF Spec

(* Every variable keeps its type, in every instance.                       *)
THEOREM TypeCorrect == Spec => []TypeOK
<1>1. DeliveryInv => TypeOK
  BY DEF DeliveryInv
<1> QED BY DeliveryInvariant, <1>1, PTL

(* An input is confirmed, and its producer told so, only if the native     *)
(* history holds it: for every set of inputs and every number of faults.   *)
THEOREM ConfirmedOnlyWhenRecorded == Spec => []ConfirmedIsRecorded
<1>1. DeliveryInv => ConfirmedIsRecorded
  BY DEF DeliveryInv
<1> QED BY DeliveryInvariant, <1>1, PTL

(* The journal on disk can always be opened again, for every capacity.     *)
THEOREM JournalAlwaysReadable == Spec => []JournalReadable
<1>1. DeliveryInv => JournalReadable
  BY DEF DeliveryInv
<1> QED BY DeliveryInvariant, <1>1, PTL

-----------------------------------------------------------------------------
(* At most once.  Turns in progress and entries of the history bear an     *)
(* input; without a terminal on the session no step submits an input that  *)
(* something still bears.                                                  *)

Bearers(i) == {t \in running \cup entries : turns[t].input = i}

(* Nothing of the pending input is under way or recorded.                  *)
Untried == Bearers(pending.input) = {} /\ wire = NoMessage

OneBearer ==
  \A t, u \in running \cup entries : turns[t].input = turns[u].input => t = u

EndedTurns == running \cap (interrupted \cup finished) = {}

(* An input the journal does not know has left no trace.                   *)
JournalKnows ==
  /\ confirmed \cap settled = {} /\ pending.input \notin settled
  /\ \A i \in Inputs : i \notin confirmed \cup settled \cup {pending.input}
                         => Bearers(i) = {}

(* What bears the pending input is its present submission.                 *)
PresentSubmission ==
  \A t \in Bearers(pending.input) :
     pending # NoPending => /\ turns[t] = MessageOf(pending)
                            /\ wire = NoMessage
                            /\ pending.turn \in {0, t}
                            /\ reply \in {0, t}

Unanswered ==
  call.at = "send" \/ wire # NoMessage \/ reply # 0 => pending.turn = 0

(* What a call has seen, and is about to act on, is still so.              *)
CallKnows ==
  /\ call.at \in {"send", "notice", "complete"} => Untried
  /\ call.at = "capture" => call.input \notin confirmed \cup settled
  /\ call.at = "decide" =>
       /\ wire = NoMessage
       /\ call.seen \in {"interrupted", "missing"} => Untried
       /\ call.seen = "pending" /\ restored = pending.input /\ ~resumed => Untried

DownIsQuiet ==
  ~up => running = {} /\ wire = NoMessage /\ call = NoCall /\ ~resumed

(* Before its first notice a restarted listener has submitted nothing.     *)
RestoredIsQuiet ==
  up /\ ~resumed /\ restored # None =>
    \/ restored \in confirmed \cup settled
    \/ /\ restored = pending.input /\ running = {} /\ wire = NoMessage
       /\ call.at \notin {"send", "reply", "complete"}

OnceInv ==
  /\ ~busy
  /\ OneBearer
  /\ EndedTurns
  /\ JournalKnows
  /\ PresentSubmission
  /\ Unanswered
  /\ CallKnows
  /\ DownIsQuiet
  /\ RestoredIsQuiet

(* The proof of OnceInv. *)
LEMMA OnceInit == Init => OnceInv
<1> SUFFICES ASSUME Init PROVE OnceInv
  OBVIOUS
<1>1. ~busy /\ up /\ restored = None
  BY Zenon DEF Init
<1>2. /\ running = {} /\ entries = {} /\ settled = {} /\ confirmed = {}
      /\ wire = NoMessage /\ reply = 0 /\ call = NoCall /\ pending = NoPending
  BY DEF Init
<1>3. OneBearer /\ EndedTurns /\ JournalKnows /\ PresentSubmission
  BY <1>2 DEF OneBearer, EndedTurns, JournalKnows, PresentSubmission, Bearers
<1>4. Unanswered /\ CallKnows /\ DownIsQuiet /\ RestoredIsQuiet
  BY <1>1, <1>2 DEF Unanswered, CallKnows, NoCall, DownIsQuiet, RestoredIsQuiet
<1> QED BY <1>1, <1>3, <1>4 DEF OnceInv

(* Without a terminal the session is never busy with another's turn.       *)
LEMMA BusyStep ==
  ASSUME ~Shared, ~busy, [Next]_vars
  PROVE  ~busy'
BY DEF Next, CallStep, Deliver, Acknowledge, Recover, Prepare, Refuse, Submit, SaveTurn,
      Poll, PollUnavailable, Receive, Restart, SaveNotice, Uncertain, Wait, Missed,
      Interrupted, Complete, Drop, Crash, Open, Accept, Reject, Record, Finish, Lose,
      Interrupt, Occupy, Vacate, NoRestart, vars, nativeVars

(* A step that leaves the turns alone brings no bearer.                    *)
LEMMA BearersShrink ==
  ASSUME turns' = turns, (running \cup entries)' \subseteq running \cup entries, NEW i
  PROVE  Bearers(i)' \subseteq Bearers(i)
BY DEF Bearers

(* The steps of the Codex server on its turns.                             *)
LEMMA OnceTurn ==
  ASSUME DeliveryInv, OnceInv, NEW t \in DOMAIN turns,
         Record(t) \/ Finish(t) \/ Lose(t) \/ Interrupt(t)
  PROVE  OnceInv'
<1>1. /\ turns' = turns /\ (running \cup entries)' \subseteq running \cup entries
      /\ running' \subseteq running /\ busy' = busy
  BY DEF Record, Finish, Lose, Interrupt
<1>2. UNCHANGED <<pending, confirmed, settled, up, restored, resumed, call, wire, reply>>
  BY DEF Record, Finish, Lose, Interrupt, journalVars, processVars
<1>3. \A i : Bearers(i)' \subseteq Bearers(i)
  BY <1>1, BearersShrink
<1>4. OneBearer' /\ ~busy'
  BY <1>1 DEF OnceInv, OneBearer
<1>5. EndedTurns'
  BY DEF OnceInv, EndedTurns, Record, Finish, Lose, Interrupt
<1>6. JournalKnows'
  BY <1>2, <1>3 DEF OnceInv, JournalKnows
<1>7. PresentSubmission'
  BY <1>1, <1>2, <1>3 DEF OnceInv, PresentSubmission, MessageOf
<1>8. Unanswered'
  BY <1>2 DEF OnceInv, Unanswered
<1>9. CallKnows'
  BY <1>2, <1>3 DEF OnceInv, CallKnows, Untried
<1>10. DownIsQuiet'
  BY <1>1, <1>2 DEF OnceInv, DownIsQuiet
<1>11. RestoredIsQuiet'
  BY <1>1, <1>2 DEF OnceInv, RestoredIsQuiet
<1> QED
  BY <1>4, <1>5, <1>6, <1>7, <1>8, <1>9, <1>10, <1>11 DEF OnceInv

(* A request that reaches Codex becomes the one bearer of its input.       *)
LEMMA OnceAccept ==
  ASSUME DeliveryInv, OnceInv, Accept
  PROVE  OnceInv'
<1> DEFINE new == Len(turns) + 1
<1>0. TypeOK /\ CallOwnsPending
  BY DEF DeliveryInv
<1>1. pending # NoPending /\ wire = MessageOf(pending) /\ wire.input = pending.input
  BY <1>0 DEF Accept, CallOwnsPending, MessageOf, NoPending, NoMessage
<1>2. /\ new \notin DOMAIN turns /\ turns'[new] = wire
      /\ \A t \in DOMAIN turns : turns'[t] = turns[t]
  BY <1>0 DEF Accept, TypeOK
<1>3. running' = running \cup {new} /\ entries' = entries /\ wire' = NoMessage
      /\ reply' \in {0, new}
  BY DEF Accept
<1>4. running \cup entries \subseteq DOMAIN turns
  BY <1>0 DEF TypeOK
<1>5. Bearers(pending.input) = {}
  BY <1>1 DEF OnceInv, PresentSubmission, Bearers, Accept
<1>6. \A i : Bearers(i)' = IF i = pending.input THEN {new} ELSE Bearers(i)
  <2>1. \A i, t : t \in Bearers(i)' <=>
           t \in Bearers(i) \/ (t = new /\ i = pending.input)
    BY <1>1, <1>2, <1>3, <1>4 DEF Bearers
  <2> QED BY <1>5, <2>1
<1>7. UNCHANGED <<pending, confirmed, settled, up, restored, resumed, call, busy,
                  interrupted, finished>>
  BY DEF Accept, journalVars, processVars
<1>8. OneBearer' /\ ~busy'
  <2> SUFFICES ASSUME NEW t \in (running \cup entries)', NEW u \in (running \cup entries)',
                      turns'[t].input = turns'[u].input
               PROVE  t = u
    BY <1>7 DEF OneBearer, OnceInv
  <2>1. CASE t # new /\ u # new
    BY <1>2, <1>3, <1>4, <2>1 DEF OnceInv, OneBearer
  <2>2. CASE t = new \/ u = new
    BY <1>1, <1>2, <1>3, <1>4, <1>5, <2>2 DEF Bearers
  <2> QED BY <2>1, <2>2
<1>9. EndedTurns'
  <2>1. new \notin interrupted \cup finished
    BY <1>0, <1>2 DEF TypeOK
  <2> QED BY <1>3, <1>7, <2>1 DEF OnceInv, EndedTurns
<1>10. JournalKnows'
  BY <1>6, <1>7 DEF OnceInv, JournalKnows
<1>11. PresentSubmission'
  <2>1. pending.turn = 0
    BY DEF OnceInv, Unanswered, Accept
  <2> QED BY <1>1, <1>2, <1>3, <1>6, <1>7, <2>1 DEF PresentSubmission, MessageOf
<1>12. Unanswered'
  BY <1>7 DEF OnceInv, Unanswered, Accept
<1>13. CallKnows'
  <2>1. call.at \in {"idle", "reply", "poll"}
    BY <1>0 DEF CallOwnsPending, Accept
  <2> QED BY <1>7, <2>1 DEF CallKnows
<1>14. DownIsQuiet'
  BY <1>7 DEF OnceInv, DownIsQuiet, Accept
<1>15. RestoredIsQuiet'
  BY <1>7 DEF OnceInv, RestoredIsQuiet, Accept
<1> QED
  BY <1>8, <1>9, <1>10, <1>11, <1>12, <1>13, <1>14, <1>15 DEF OnceInv

(* A step that leaves the turns alone keeps who bears what.                *)
LEMMA BearersSame ==
  ASSUME UNCHANGED nativeVars
  PROVE  /\ \A i : Bearers(i)' = Bearers(i)
         /\ (OneBearer /\ EndedTurns => OneBearer' /\ EndedTurns')
BY DEF nativeVars, Bearers, OneBearer, EndedTurns

(* The steps of calls and producers that change neither journal nor turns  *)
(* nor what is in flight.                                                  *)
LEMMA OnceQuiet ==
  ASSUME DeliveryInv, OnceInv,
         UNCHANGED <<journalVars, settled, processVars, wire, reply, nativeVars>>, ~busy',
         \/ call' = NoCall
         \/ call' = call
         \/ /\ up /\ call'.at = "capture" /\ call'.input \notin confirmed \cup settled
            /\ pending = NoPending
         \/ up /\ call'.at = "poll"
         \/ up /\ call'.at = "notice" /\ Untried
  PROVE  OnceInv'
<1>1. UNCHANGED <<pending, confirmed, settled, up, restored, resumed, wire, reply, running>>
  BY DEF journalVars, processVars, nativeVars
<1>2. (\A i : Bearers(i)' = Bearers(i)) /\ OneBearer' /\ EndedTurns'
  BY BearersSame DEF OnceInv
<1>3. TypeOK /\ NoCall.at = "idle" /\ (pending = NoPending => pending.input = None)
  BY DEF DeliveryInv, NoCall, NoPending
<1>4. JournalKnows' /\ PresentSubmission'
  <2>1. \A t \in Bearers(pending.input) : turns'[t] = turns[t]
    BY DEF nativeVars
  <2> QED BY <1>1, <1>2, <2>1 DEF OnceInv, JournalKnows, PresentSubmission, MessageOf
<1>5. Unanswered'
  BY <1>1, <1>3 DEF OnceInv, Unanswered
<1>6. CallKnows'
  BY <1>1, <1>2, <1>3 DEF OnceInv, CallKnows, Untried
<1>7. DownIsQuiet'
  BY <1>1, <1>3 DEF OnceInv, DownIsQuiet
<1>8. RestoredIsQuiet'
  BY <1>1, <1>3 DEF OnceInv, RestoredIsQuiet
<1> QED BY <1>2, <1>4, <1>5, <1>6, <1>7, <1>8 DEF OnceInv

(* A call acts on a sighting only while the listener runs.                 *)
LEMMA CallIsUp ==
  ASSUME OnceInv, call.at # "idle"
  PROVE  up
BY DEF OnceInv, DownIsQuiet, NoCall

(* The scan: an ended turn, or a quiet restart, without the present        *)
(* submission in the history leaves nothing that could bear the input.     *)
LEMMA OncePoll ==
  ASSUME DeliveryInv, OnceInv, Poll
  PROVE  OnceInv'
<1>0. TypeOK /\ CallOwnsPending /\ up
  BY CallIsUp DEF DeliveryInv, Poll
<1>1. UNCHANGED <<pending, confirmed, settled, up, restored, resumed, wire, reply, running,
                  busy, turns, entries>>
  BY DEF Poll, journalVars, processVars, nativeVars
<1>2. (\A i : Bearers(i)' = Bearers(i)) /\ OneBearer' /\ EndedTurns'
  BY BearersSame DEF OnceInv, Poll
<1>3. call'.at = "decide" /\ call'.seen = Scan /\ wire = NoMessage /\ pending # NoPending
  BY <1>0 DEF Poll, TypeOK, Call, CallOwnsPending
<1>4. JournalKnows' /\ PresentSubmission' /\ Unanswered' /\ DownIsQuiet' /\ RestoredIsQuiet'
  BY <1>0, <1>1, <1>2, <1>3
  DEF OnceInv, JournalKnows, PresentSubmission, MessageOf, Unanswered, DownIsQuiet,
      RestoredIsQuiet
<1>5. Matches = {} /\ Bearers(pending.input) \cap running = {} => Untried
  BY <1>3 DEF OnceInv, PresentSubmission, Bearers, Matches, Untried
<1>6. Scan \in {"interrupted", "missing"} => Untried
  <2> SUFFICES ASSUME Scan \in {"interrupted", "missing"} PROVE Untried
    OBVIOUS
  <2>1. Matches = {} /\ pending.turn \in interrupted \cup finished
    BY DEF Scan
  <2>2. pending.turn # 0
    BY <1>0, <2>1 DEF TypeOK
  <2>3. Bearers(pending.input) \cap running = {}
    BY <1>3, <2>1, <2>2 DEF OnceInv, PresentSubmission, EndedTurns
  <2> QED BY <1>5, <2>1, <2>3
<1>7. Scan = "pending" /\ restored = pending.input /\ ~resumed => Untried
  <2> SUFFICES ASSUME Scan = "pending", restored = pending.input, ~resumed PROVE Untried
    OBVIOUS
  <2>1. Matches = {}
    BY DEF Scan
  <2>2. running = {}
    BY <1>0, <1>3, PendingInput, NoneAssumption
    DEF OnceInv, RestoredIsQuiet, DeliveryInv, JournalReadable, JournalKnows
  <2> QED BY <1>5, <2>1, <2>2
<1>8. CallKnows'
  BY <1>1, <1>2, <1>3, <1>6, <1>7 DEF CallKnows, Untried
<1> QED BY <1>1, <1>2, <1>4, <1>8 DEF OnceInv

(* A notice is chosen only for an input nothing bears.                     *)
LEMMA RestartUntried ==
  ASSUME DeliveryInv, OnceInv, call.at = "decide", MayRestart, Idle,
         call.seen \in {"pending", "interrupted", "missing"}
  PROVE  Untried
BY DEF OnceInv, CallKnows, MayRestart

(* An interrupted turn is passed over only when no notice was due: so the  *)
(* input a quiet restart has restored is not given up.                     *)
LEMMA OnceInterrupted ==
  ASSUME DeliveryInv, OnceInv, Interrupted
  PROVE  OnceInv'
<1>0. TypeOK /\ CallOwnsPending /\ JournalReadable /\ up
  BY CallIsUp DEF DeliveryInv, Interrupted, NoRestart
<1>1. UNCHANGED <<confirmed, settled, up, restored, resumed, wire, reply, running, busy,
                  turns, entries>>
  BY DEF Interrupted, processVars, nativeVars
<1>2. (\A i : Bearers(i)' = Bearers(i)) /\ OneBearer' /\ EndedTurns'
  BY BearersSame DEF OnceInv, Interrupted
<1>3. call.at = "decide" /\ call'.at = "complete" /\ pending # NoPending
  BY <1>0 DEF Interrupted, NoRestart, TypeOK, Call, CallOwnsPending
<1>4. pending \in Pending /\ pending.input \in Inputs
  BY <1>0, <1>3, PendingInput
<1>5. pending'.input = pending.input /\ pending'.turn = pending.turn
      /\ pending' # NoPending /\ MessageOf(pending)' = MessageOf(pending)
  BY <1>4, NoneAssumption DEF Interrupted, Pending, NoPending, MessageOf
<1>6. Untried
  BY <1>3 DEF OnceInv, CallKnows, Interrupted
<1>7. ~(up /\ ~resumed /\ restored = pending.input)
  BY <1>0, <1>3, <1>4, NoneAssumption
  DEF OnceInv, RestoredIsQuiet, JournalReadable, JournalKnows, Interrupted, NoRestart, MayRestart, Idle
<1>8. JournalKnows' /\ PresentSubmission'
  BY <1>1, <1>2, <1>3, <1>5 DEF OnceInv, JournalKnows, PresentSubmission
<1>9. Unanswered' /\ CallKnows' /\ DownIsQuiet'
  BY <1>0, <1>1, <1>2, <1>3, <1>5, <1>6
  DEF OnceInv, Unanswered, CallKnows, Untried, DownIsQuiet
<1>10. RestoredIsQuiet'
  BY <1>1, <1>5, <1>7 DEF OnceInv, RestoredIsQuiet
<1> QED BY <1>1, <1>2, <1>8, <1>9, <1>10 DEF OnceInv

(* The steps that change the journal or what is in flight.                 *)
LEMMA OncePrepare ==
  ASSUME DeliveryInv, OnceInv, Prepare
  PROVE  OnceInv'
<1>0. TypeOK /\ CallOwnsPending /\ up
  BY CallIsUp DEF DeliveryInv, Prepare
<1>1. UNCHANGED <<confirmed, settled, up, restored, resumed, wire, reply, running, busy,
                  turns, entries>>
  BY DEF Prepare, processVars, nativeVars
<1>2. (\A i : Bearers(i)' = Bearers(i)) /\ OneBearer' /\ EndedTurns'
  BY BearersSame DEF OnceInv, Prepare
<1>3. call'.at = "send" /\ call.input \in Inputs /\ pending = NoPending
      /\ wire = NoMessage /\ reply = 0 /\ call.input \notin confirmed \cup settled
  BY <1>0 DEF Prepare, CallOwnsPending, OnceInv, CallKnows, TypeOK, Call
<1>4. pending'.input = call.input /\ pending'.turn = 0 /\ pending'.input # None
  BY <1>3, NoneAssumption DEF Prepare
<1>5. Bearers(call.input) = {}
  BY <1>3, NoneAssumption DEF OnceInv, JournalKnows, NoPending
<1>6. JournalKnows' /\ PresentSubmission'
  BY <1>1, <1>2, <1>3, <1>4, <1>5, NoneAssumption
  DEF OnceInv, JournalKnows, PresentSubmission, NoPending
<1>7. Unanswered' /\ CallKnows' /\ DownIsQuiet'
  BY <1>0, <1>1, <1>2, <1>3, <1>4, <1>5
  DEF OnceInv, Unanswered, CallKnows, Untried, DownIsQuiet
<1>8. RestoredIsQuiet'
  BY <1>0, <1>1, <1>3 DEF OnceInv, RestoredIsQuiet, NoPending
<1> QED BY <1>1, <1>2, <1>6, <1>7, <1>8 DEF OnceInv

LEMMA OnceSubmit ==
  ASSUME DeliveryInv, OnceInv, Submit
  PROVE  OnceInv'
<1>0. TypeOK /\ CallOwnsPending /\ JournalReadable /\ up
  BY CallIsUp DEF DeliveryInv, Submit
<1>1. UNCHANGED <<pending, confirmed, settled, up, restored, resumed, reply, running, busy,
                  turns, entries>>
  BY DEF Submit, journalVars, processVars, nativeVars
<1>2. (\A i : Bearers(i)' = Bearers(i)) /\ OneBearer' /\ EndedTurns'
  BY BearersSame DEF OnceInv, Submit
<1>3. call'.at = "reply" /\ Bearers(pending.input) = {} /\ pending.turn = 0
  BY <1>0 DEF Submit, OnceInv, CallKnows, Untried, Unanswered, TypeOK, Call
<1>4. JournalKnows' /\ PresentSubmission' /\ Unanswered' /\ CallKnows' /\ DownIsQuiet'
  BY <1>0, <1>1, <1>2, <1>3
  DEF OnceInv, JournalKnows, PresentSubmission, Unanswered, CallKnows, DownIsQuiet
<1>5. RestoredIsQuiet'
  BY <1>0, <1>1 DEF OnceInv, RestoredIsQuiet, Submit
<1> QED BY <1>1, <1>2, <1>4, <1>5 DEF OnceInv

LEMMA OnceSaveTurn ==
  ASSUME DeliveryInv, OnceInv, SaveTurn
  PROVE  OnceInv'
<1>0. TypeOK /\ CallOwnsPending /\ up
  BY CallIsUp DEF DeliveryInv, SaveTurn
<1>1. UNCHANGED <<confirmed, settled, up, restored, resumed, wire, running, busy, turns,
                  entries>> /\ reply' = 0
  BY DEF SaveTurn, processVars, nativeVars
<1>2. (\A i : Bearers(i)' = Bearers(i)) /\ OneBearer' /\ EndedTurns'
  BY BearersSame DEF OnceInv, SaveTurn
<1>3. call'.at = "poll" /\ pending # NoPending /\ wire = NoMessage
  BY <1>0 DEF SaveTurn, CallOwnsPending, TypeOK, Call
<1>4. pending'.input = pending.input /\ pending'.turn = reply
      /\ MessageOf(pending)' = MessageOf(pending)
  BY <1>0, <1>3, PendingInput DEF SaveTurn, Pending, MessageOf
<1>5. \A t \in Bearers(pending.input) : reply = t
  BY <1>3 DEF OnceInv, PresentSubmission, SaveTurn
<1>6. JournalKnows' /\ PresentSubmission'
  BY <1>1, <1>2, <1>3, <1>4, <1>5 DEF OnceInv, JournalKnows, PresentSubmission
<1>7. Unanswered' /\ CallKnows' /\ DownIsQuiet'
  BY <1>0, <1>1, <1>3 DEF OnceInv, Unanswered, CallKnows, DownIsQuiet
<1>8. RestoredIsQuiet'
  BY <1>1, <1>3, <1>4 DEF OnceInv, RestoredIsQuiet
<1> QED BY <1>1, <1>2, <1>6, <1>7, <1>8 DEF OnceInv

LEMMA OnceSaveNotice ==
  ASSUME DeliveryInv, OnceInv, SaveNotice
  PROVE  OnceInv'
<1>0. TypeOK /\ CallOwnsPending /\ up
  BY CallIsUp DEF DeliveryInv, SaveNotice
<1>1. UNCHANGED <<confirmed, settled, up, restored, wire, reply, running, busy, turns,
                  entries>> /\ resumed'
  BY DEF SaveNotice, nativeVars
<1>2. (\A i : Bearers(i)' = Bearers(i)) /\ OneBearer' /\ EndedTurns'
  BY BearersSame DEF OnceInv, SaveNotice
<1>3. call'.at = "send" /\ Untried /\ pending'.input = pending.input /\ pending'.turn = 0
  BY <1>0 DEF SaveNotice, OnceInv, CallKnows, TypeOK, Call
<1>4. JournalKnows' /\ PresentSubmission'
  BY <1>1, <1>2, <1>3 DEF OnceInv, JournalKnows, PresentSubmission, Untried
<1>5. Unanswered' /\ CallKnows' /\ DownIsQuiet' /\ RestoredIsQuiet'
  BY <1>0, <1>1, <1>2, <1>3
  DEF OnceInv, Unanswered, CallKnows, Untried, DownIsQuiet, RestoredIsQuiet
<1> QED BY <1>1, <1>2, <1>4, <1>5 DEF OnceInv

LEMMA OnceReceive ==
  ASSUME DeliveryInv, OnceInv, Receive
  PROVE  OnceInv'
<1>0. TypeOK /\ CallOwnsPending /\ up
  BY CallIsUp DEF DeliveryInv, Receive
<1>1. UNCHANGED <<settled, up, restored, resumed, wire, reply, running, busy, turns,
                  entries>> /\ call' = NoCall /\ pending' = NoPending
      /\ confirmed' = confirmed \cup {pending.input}
  BY DEF Receive, processVars, nativeVars
<1>2. (\A i : Bearers(i)' = Bearers(i)) /\ OneBearer' /\ EndedTurns'
  BY BearersSame DEF OnceInv, Receive
<1>3. wire = NoMessage /\ reply = 0
  BY <1>0 DEF Receive, CallOwnsPending
<1>4. JournalKnows'
  BY <1>0, <1>1, <1>2, NoneAssumption DEF OnceInv, JournalKnows, NoPending, TypeOK
<1>5. PresentSubmission' /\ Unanswered' /\ CallKnows' /\ DownIsQuiet' /\ RestoredIsQuiet'
  BY <1>0, <1>1, <1>3
  DEF OnceInv, PresentSubmission, Unanswered, CallKnows, NoCall, DownIsQuiet, RestoredIsQuiet
<1> QED BY <1>1, <1>2, <1>4, <1>5 DEF OnceInv

LEMMA OnceMissed ==
  ASSUME DeliveryInv, OnceInv, Missed
  PROVE  OnceInv'
<1>0. TypeOK /\ CallOwnsPending /\ up
  BY CallIsUp DEF DeliveryInv, Missed, NoRestart
<1>1. UNCHANGED <<confirmed, settled, up, restored, resumed, wire, reply, running, busy,
                  turns, entries>> /\ call' = NoCall
  BY DEF Missed, processVars, nativeVars
<1>2. (\A i : Bearers(i)' = Bearers(i)) /\ OneBearer' /\ EndedTurns'
  BY BearersSame DEF OnceInv, Missed
<1>3. pending # NoPending
  BY <1>0 DEF Missed, NoRestart, CallOwnsPending
<1>4. pending'.input = pending.input /\ pending'.turn = pending.turn
      /\ MessageOf(pending)' = MessageOf(pending)
  BY <1>0, <1>3, PendingInput DEF Missed, Pending, MessageOf
<1>5. JournalKnows' /\ PresentSubmission'
  BY <1>1, <1>2, <1>3, <1>4 DEF OnceInv, JournalKnows, PresentSubmission
<1>6. Unanswered' /\ CallKnows' /\ DownIsQuiet' /\ RestoredIsQuiet'
  BY <1>0, <1>1, <1>4
  DEF OnceInv, Unanswered, CallKnows, NoCall, DownIsQuiet, RestoredIsQuiet
<1> QED BY <1>1, <1>2, <1>5, <1>6 DEF OnceInv

LEMMA OnceComplete ==
  ASSUME DeliveryInv, OnceInv, Complete
  PROVE  OnceInv'
<1>0. TypeOK /\ CallOwnsPending /\ JournalReadable /\ up
  BY CallIsUp DEF DeliveryInv, Complete
<1>1. UNCHANGED <<confirmed, settled, up, restored, resumed, wire, reply, running, busy,
                  turns, entries>> /\ pending' = NoPending
  BY DEF Complete, processVars, nativeVars
<1>2. (\A i : Bearers(i)' = Bearers(i)) /\ OneBearer' /\ EndedTurns'
  BY BearersSame DEF OnceInv, Complete
<1>3. Untried /\ call.input = pending.input /\ reply = 0
  BY <1>0 DEF Complete, OnceInv, CallKnows, CallOwnsPending
<1>4. \/ call' = NoCall
      \/ call'.at = "capture" /\ call'.input \notin confirmed \cup settled
  BY <1>0, <1>3 DEF Complete, TypeOK, Call, OnceInv, JournalKnows, JournalReadable
<1>5. JournalKnows' /\ PresentSubmission'
  BY <1>0, <1>1, <1>2, <1>3, NoneAssumption
  DEF OnceInv, JournalKnows, PresentSubmission, Untried, NoPending, TypeOK
<1>6. Unanswered' /\ CallKnows' /\ DownIsQuiet'
  BY <1>0, <1>1, <1>3, <1>4
  DEF OnceInv, Unanswered, CallKnows, Untried, NoCall, DownIsQuiet
<1>7. RestoredIsQuiet'
  BY <1>1 DEF OnceInv, RestoredIsQuiet, Complete
<1> QED BY <1>1, <1>2, <1>5, <1>6, <1>7 DEF OnceInv

LEMMA OnceAcknowledge ==
  ASSUME DeliveryInv, OnceInv, NEW j \in Inputs, Acknowledge(j)
  PROVE  OnceInv'
<1>0. TypeOK /\ JournalReadable
  BY DEF DeliveryInv
<1>1. UNCHANGED <<pending, up, restored, resumed, call, wire, reply, running, busy, turns,
                  entries>> /\ call.at = "idle" /\ confirmed' = confirmed \ {j}
      /\ settled' = settled \cup {j} /\ j \in confirmed
  BY DEF Acknowledge, processVars, nativeVars
<1>2. (\A i : Bearers(i)' = Bearers(i)) /\ OneBearer' /\ EndedTurns'
  BY BearersSame DEF OnceInv, Acknowledge
<1>3. JournalKnows' /\ PresentSubmission'
  BY <1>0, <1>1, <1>2
  DEF OnceInv, JournalKnows, JournalReadable, PresentSubmission, MessageOf
<1>4. Unanswered' /\ CallKnows' /\ DownIsQuiet' /\ RestoredIsQuiet'
  BY <1>1 DEF OnceInv, Unanswered, CallKnows, DownIsQuiet, RestoredIsQuiet
<1> QED BY <1>1, <1>2, <1>3, <1>4 DEF OnceInv

(* The steps that lose what is in flight, and the reopening.               *)
LEMMA OnceDrop ==
  ASSUME DeliveryInv, OnceInv, Drop \/ Reject
  PROVE  OnceInv'
<1>1. UNCHANGED <<pending, confirmed, settled, up, restored, resumed, running, busy, turns,
                  entries>> /\ call' \in {call, NoCall} /\ wire' \in {wire, NoMessage}
      /\ reply' \in {reply, 0}
  BY DEF Drop, Reject, journalVars, processVars, nativeVars
<1>2. (\A i : Bearers(i)' = Bearers(i)) /\ OneBearer' /\ EndedTurns'
  BY BearersSame DEF OnceInv, Drop, Reject
<1>3. JournalKnows' /\ PresentSubmission'
  BY <1>1, <1>2 DEF OnceInv, JournalKnows, PresentSubmission, MessageOf
<1>4. Unanswered' /\ CallKnows' /\ DownIsQuiet' /\ RestoredIsQuiet'
  BY <1>1, <1>2
  DEF OnceInv, Unanswered, CallKnows, Untried, NoCall, DownIsQuiet, RestoredIsQuiet
<1> QED BY <1>1, <1>2, <1>3, <1>4 DEF OnceInv

LEMMA OnceCrash ==
  ASSUME DeliveryInv, OnceInv, Crash
  PROVE  OnceInv'
<1>1. ~up' /\ ~resumed' /\ ~busy' /\ restored' = None
  BY Zenon DEF Crash
<1>2. /\ call' = NoCall /\ wire' = NoMessage /\ reply' = 0 /\ running' = {}
      /\ UNCHANGED <<pending, confirmed, settled, turns, entries>>
  BY DEF Crash, journalVars
<1>3. \A i : Bearers(i)' \subseteq Bearers(i)
  BY <1>2, BearersShrink
<1>4. OneBearer' /\ EndedTurns'
  BY <1>2 DEF OnceInv, OneBearer, EndedTurns
<1>5. JournalKnows' /\ PresentSubmission'
  BY <1>2, <1>3 DEF OnceInv, JournalKnows, PresentSubmission, MessageOf
<1>6. Unanswered' /\ CallKnows' /\ DownIsQuiet' /\ RestoredIsQuiet'
  BY <1>1, <1>2 DEF Unanswered, CallKnows, NoCall, DownIsQuiet, RestoredIsQuiet
<1> QED BY <1>1, <1>4, <1>5, <1>6 DEF OnceInv

LEMMA OnceOpen ==
  ASSUME DeliveryInv, OnceInv, Open
  PROVE  OnceInv'
<1>1. UNCHANGED <<pending, confirmed, settled, resumed, call, wire, reply, running, busy,
                  turns, entries>> /\ restored' = pending.input /\ ~up
  BY DEF Open, journalVars, nativeVars
<1>2. (\A i : Bearers(i)' = Bearers(i)) /\ OneBearer' /\ EndedTurns'
  BY BearersSame DEF OnceInv, Open
<1>3. running = {} /\ wire = NoMessage /\ call = NoCall /\ ~resumed
  BY <1>1 DEF OnceInv, DownIsQuiet
<1>4. JournalKnows' /\ PresentSubmission'
  BY <1>1, <1>2 DEF OnceInv, JournalKnows, PresentSubmission, MessageOf
<1>5. Unanswered' /\ CallKnows' /\ DownIsQuiet' /\ RestoredIsQuiet'
  BY <1>1, <1>3
  DEF OnceInv, Unanswered, CallKnows, NoCall, DownIsQuiet, RestoredIsQuiet
<1> QED BY <1>1, <1>2, <1>4, <1>5 DEF OnceInv

(* Every step of a session without a terminal keeps OnceInv.               *)
LEMMA OnceStep ==
  ASSUME ~Shared, DeliveryInv, OnceInv, [Next]_vars
  PROVE  OnceInv'
<1>1. ~busy' /\ TypeOK
  BY BusyStep DEF OnceInv, DeliveryInv
<1>2. ASSUME NEW i \in Inputs, Deliver(i) PROVE OnceInv'
  <2>1. /\ UNCHANGED <<journalVars, settled, processVars, wire, reply, nativeVars>>
        /\ up /\ call'.input = i /\ i \notin confirmed \cup settled
        /\ call'.at = IF pending = NoPending THEN "capture" ELSE "poll"
    BY <1>2 DEF Deliver
  <2> QED BY <1>1, <2>1, OnceQuiet
<1>3. CASE Recover
  BY <1>1, <1>3, OnceQuiet DEF Recover
<1>4. CASE Refuse \/ PollUnavailable \/ Uncertain
  BY <1>1, <1>4, OnceQuiet DEF Refuse, PollUnavailable, Uncertain
<1>5. CASE Restart
  <2>1. Untried /\ up
    BY <1>5, RestartUntried, CallIsUp DEF Restart
  <2>2. call'.at = "notice"
    BY <1>1, <1>5 DEF Restart, TypeOK, Call
  <2> QED BY <1>1, <1>5, <2>1, <2>2, OnceQuiet DEF Restart
<1>6. CASE Wait
  <2>1. up /\ call'.at = "poll"
    BY <1>1, <1>6, CallIsUp DEF Wait, NoRestart, TypeOK, Call
  <2> QED BY <1>1, <1>6, <2>1, OnceQuiet DEF Wait
<1>7. CASE Occupy \/ Vacate
  BY <1>1, <1>7, OnceQuiet DEF Occupy, Vacate
<1>8. CASE UNCHANGED vars
  BY <1>1, <1>8, OnceQuiet DEF vars, journalVars, processVars, nativeVars
<1> QED
  BY <1>2, <1>3, <1>4, <1>5, <1>6, <1>7, <1>8, OnceTurn, OnceAccept, OncePoll,
     OnceInterrupted, OncePrepare, OnceSubmit, OnceSaveTurn, OnceSaveNotice, OnceReceive,
     OnceMissed, OnceComplete, OnceAcknowledge, OnceDrop, OnceCrash, OnceOpen
  DEF Next, CallStep

(* From here on: what a session without a terminal promises.               *)
THEOREM OnceInvariant == ~Shared => (Spec => [](DeliveryInv /\ OnceInv))
<1> SUFFICES ASSUME ~Shared PROVE Spec => [](DeliveryInv /\ OnceInv)
  OBVIOUS
<1>1. Init => DeliveryInv /\ OnceInv
  BY InitInv, OnceInit
<1>2. (DeliveryInv /\ OnceInv) /\ [Next]_vars => (DeliveryInv /\ OnceInv)'
  <2> SUFFICES ASSUME DeliveryInv, OnceInv, [Next]_vars PROVE DeliveryInv' /\ OnceInv'
    OBVIOUS
  <2>1. DeliveryInv'
    BY TypeStep, ConfirmedStep, SightingStep, OwnershipStep, JournalStep DEF DeliveryInv
  <2>2. OnceInv'
    BY OnceStep
  <2> QED BY <2>1, <2>2
<1> QED BY <1>1, <1>2, PTL DEF Spec

(* However calls are dropped and the listener crashes, the native history  *)
(* takes an input in at most once, as the original or as one notice.       *)
THEOREM GivenAtMostOnce == ~Shared => (Spec => []AtMostOnce)
<1> SUFFICES ASSUME ~Shared PROVE Spec => []AtMostOnce
  OBVIOUS
<1>1. OnceInv => AtMostOnce
  <2> SUFFICES ASSUME OnceInv, NEW i \in Inputs PROVE Cardinality(EntriesOf(i)) <= 1
    BY DEF AtMostOnce
  <2>1. CASE EntriesOf(i) = {}
    BY <2>1, FS_EmptySet
  <2>2. ASSUME NEW t \in EntriesOf(i) PROVE Cardinality(EntriesOf(i)) <= 1
    <3>1. EntriesOf(i) = {t}
      BY <2>2 DEF OnceInv, OneBearer, EntriesOf
    <3>2. Cardinality({t}) = 1
      BY FS_Singleton, Zenon
    <3> QED BY <3>1, <3>2
  <2> QED BY <2>1, <2>2
<1> QED BY <1>1, OnceInvariant, PTL

(* An input is given up without a confirmation only when neither a turn    *)
(* nor a request can still bring it into the history.                      *)
THEOREM GivenUpDead == ~Shared => (Spec => GivenUpOnlyWhenDead)
<1> SUFFICES ASSUME ~Shared PROVE Spec => GivenUpOnlyWhenDead
  OBVIOUS
<1> DEFINE Gives == pending # NoPending /\ pending'.input # pending.input
                      /\ pending.input \notin confirmed'
<1>1. ASSUME DeliveryInv, OnceInv, [Next]_vars, Gives PROVE ~CanStillEnter(pending.input)
  <2>1. pending \in Pending /\ pending.input \in Inputs /\ CallOwnsPending
    BY <1>1, PendingInput DEF DeliveryInv
  <2>2. ~Receive /\ ~Prepare
    BY <1>1, <2>1 DEF Receive, Prepare, CallOwnsPending
  <2>3. ~SaveTurn /\ ~SaveNotice /\ ~Missed /\ ~Interrupted
    BY <1>1, <2>1 DEF SaveTurn, SaveNotice, Missed, Interrupted, Pending
  <2>4. Untried
    BY <1>1, <2>2, <2>3, JournalWriters DEF Complete, OnceInv, CallKnows
  <2> QED
    BY <2>1, <2>4, NoneAssumption
    DEF Untried, Bearers, CanStillEnter, EntriesOf, NoMessage
<1>2. DeliveryInv /\ OnceInv /\ [Next]_vars => [Gives => ~CanStillEnter(pending.input)]_vars
  BY <1>1
<1> QED BY <1>2, OnceInvariant, PTL DEF Spec, GivenUpOnlyWhenDead

(* A restart notice is never sent for an input the history holds.          *)
THEOREM NoticeUnproven == ~Shared => (Spec => NoticeOnlyForUnproven)
<1> SUFFICES ASSUME ~Shared PROVE Spec => NoticeOnlyForUnproven
  OBVIOUS
<1>1. ASSUME OnceInv, [Next]_vars, NEW i \in Inputs,
             wire' # wire, wire'.input = i, wire'.notice # 0
      PROVE  EntriesOf(i) = {}
  <2>1. wire' # NoMessage
    BY <1>1, NoneAssumption DEF NoMessage
  <2>2. Submit
    BY <1>1, <2>1
    DEF Next, CallStep, Deliver, Acknowledge, Recover, Prepare, Refuse, SaveTurn, Poll,
        PollUnavailable, Receive, Restart, SaveNotice, Uncertain, Wait, Missed, Interrupted,
        Complete, Drop, Crash, Open, Accept, Reject, Record, Finish, Lose, Interrupt,
        Occupy, Vacate, NoRestart, vars
  <2> QED
    BY <1>1, <2>2
    DEF Submit, MessageOf, OnceInv, CallKnows, Untried, Bearers, EntriesOf
<1>2. OnceInv /\ [Next]_vars =>
        [\A i \in Inputs :
           (wire' # wire /\ wire'.input = i /\ wire'.notice # 0) => EntriesOf(i) = {}]_vars
  BY <1>1
<1> QED BY <1>2, OnceInvariant, PTL DEF Spec, NoticeOnlyForUnproven

(* Each step of the journal and of Codex is one step of the contract, of   *)
(* one input, or none that the contract sees.                              *)
LEMMA StagesKept ==
  ASSUME UNCHANGED <<confirmed, settled>>, pending'.input = pending.input
  PROVE  \A i : StageOf(i)' = StageOf(i)
BY DEF StageOf

LEMMA PendingStage ==
  ASSUME DeliveryInv, OnceInv, pending # NoPending
  PROVE  StageOf(pending.input) = "pending"
BY DEF StageOf, DeliveryInv, JournalReadable, OnceInv, JournalKnows

LEMMA ContractStep ==
  ASSUME ~Shared, DeliveryInv, OnceInv, [Next]_vars
  PROVE  Promise!ContractNext \/ UNCHANGED Promise!contractVars
<1> DEFINE held == {i \in Inputs : EntriesOf(i) # {}}
           stage == [i \in Inputs |-> StageOf(i)]
<1>0. /\ TypeOK /\ CallOwnsPending /\ JournalReadable /\ OnceInv'
      /\ RoomForPending /\ ConfirmedIsRecorded /\ SightingHolds /\ JournalKnows
  BY OnceStep DEF DeliveryInv, OnceInv
<1>1. (turns' = turns /\ entries' = entries) => held' = held
  BY DEF EntriesOf
<1>2. ASSUME NEW t \in DOMAIN turns, Record(t) PROVE Promise!ContractNext
  <2>0. turns[t] \in Message
    BY <1>0 DEF TypeOK
  <2>1. PICK i \in Inputs : i = turns[t].input
    BY <2>0 DEF Message
  <2>2. UNCHANGED <<pending, confirmed, settled, turns>> /\ entries' = entries \cup {t}
        /\ t \in running /\ t \notin entries
    BY <1>2 DEF Record, journalVars
  <2>3. EntriesOf(i) = {}
    BY <2>1, <2>2 DEF EntriesOf, OnceInv, OneBearer
  <2>4. i \notin confirmed \cup settled
    BY <1>0, <2>3 DEF ConfirmedIsRecorded
  <2>5. i = pending.input
    BY <1>0, <2>1, <2>2, <2>4 DEF JournalKnows, Bearers
  <2>6. StageOf(i) = "pending"
    BY <2>4, <2>5 DEF StageOf
  <2>7. \A j : StageOf(j)' = StageOf(j)
    BY <2>2, StagesKept
  <2>8. held' = held \cup {i}
    <3>1. \A j : EntriesOf(j)' = IF j = i THEN EntriesOf(j) \cup {t} ELSE EntriesOf(j)
      BY <2>1, <2>2 DEF EntriesOf
    <3> QED BY <2>1, <3>1
  <2>9. Promise!Enter(i)
    BY <2>1, <2>3, <2>6, <2>7, <2>8 DEF Promise!Enter
  <2> QED BY <2>1, <2>9 DEF Promise!ContractNext
<1>3. ASSUME turns' = turns, entries' = entries
      PROVE  Promise!ContractNext \/ UNCHANGED Promise!contractVars
  <2>1. held' = held
    BY <1>1, <1>3
  <2>2. ASSUME NEW i \in Inputs, NEW old, NEW new, stage[i] = old, StageOf(i)' = new,
               \A j \in Inputs : j # i => StageOf(j)' = StageOf(j)
        PROVE  stage' = [stage EXCEPT ![i] = new]
    BY <2>2
  <2>3. CASE Receive
    <3>0. pending # NoPending /\ pending.input \in Inputs
      BY <1>0, <2>3, PendingInput DEF Receive, CallOwnsPending
    <3>1. PICK i \in Inputs : i = pending.input
      BY <3>0
    <3>2. EntriesOf(i) # {} /\ StageOf(i) = "pending"
      BY <1>0, <2>3, <3>0, <3>1, PendingStage DEF Receive, SightingHolds
    <3>3. confirmed' = confirmed \cup {i} /\ settled' = settled /\ pending' = NoPending
          /\ i \notin settled
      BY <1>0, <2>3, <3>1 DEF Receive, JournalKnows
    <3>4. StageOf(i)' = "confirmed" /\ \A j \in Inputs : j # i => StageOf(j)' = StageOf(j)
      BY <3>1, <3>3, NoneAssumption DEF StageOf, NoPending
    <3>5. Promise!Confirm(i)
      BY <2>1, <3>1, <3>2, <3>4 DEF Promise!Confirm
    <3> QED BY <3>1, <3>5 DEF Promise!ContractNext
  <2>4. ASSUME NEW i \in Inputs, Acknowledge(i) PROVE Promise!ContractNext
    <3>1. confirmed' = confirmed \ {i} /\ settled' = settled \cup {i} /\ pending' = pending
          /\ i \in confirmed /\ i \notin settled /\ i # pending.input
      BY <1>0, <2>4 DEF Acknowledge, JournalKnows, JournalReadable
    <3>2. StageOf(i) = "confirmed" /\ StageOf(i)' = "acknowledged"
      BY <3>1 DEF StageOf
    <3>3. ASSUME NEW j \in Inputs, j # i PROVE StageOf(j)' = StageOf(j)
      <4>1. (j \in confirmed' <=> j \in confirmed) /\ (j \in settled' <=> j \in settled)
        BY <3>1, <3>3
      <4> QED BY <3>1, <4>1 DEF StageOf
    <3>4. Promise!Forget(i)
      BY <2>1, <3>2, <3>3 DEF Promise!Forget
    <3> QED BY <3>4 DEF Promise!ContractNext
  <2>5. CASE Complete
    <3>0. pending.input \in Inputs /\ pending # NoPending /\ Untried
      BY <1>0, <2>5, PendingInput DEF Complete, CallOwnsPending, OnceInv, CallKnows
    <3>1. PICK i \in Inputs : i = pending.input
      BY <3>0
    <3>2. EntriesOf(i) = {} /\ StageOf(i) = "pending"
      BY <3>0, <3>1, PendingStage DEF Untried, Bearers, EntriesOf
    <3>3. confirmed' = confirmed /\ settled' = settled /\ pending' = NoPending
          /\ i \notin confirmed \cup settled
      BY <1>0, <2>5, <3>1 DEF Complete, JournalKnows, JournalReadable
    <3>4. StageOf(i)' = "absent" /\ \A j \in Inputs : j # i => StageOf(j)' = StageOf(j)
      BY <3>1, <3>3, NoneAssumption DEF StageOf, NoPending
    <3>5. Promise!GiveBack(i)
      BY <2>1, <3>1, <3>2, <3>4 DEF Promise!GiveBack
    <3> QED BY <3>1, <3>5 DEF Promise!ContractNext
  <2>6. CASE Prepare
    <3>0. call.input \in Inputs /\ pending = NoPending /\ call.input \notin confirmed \cup settled
      BY <1>0, <2>6 DEF Prepare, CallOwnsPending, OnceInv, CallKnows
    <3>1. PICK i \in Inputs : i = call.input
      BY <3>0
    <3>2. confirmed' = confirmed /\ settled' = settled /\ pending'.input = i
          /\ Cardinality(confirmed) < Capacity
      BY <2>6, <3>1 DEF Prepare
    <3>3. StageOf(i) = "absent" /\ StageOf(i)' = "pending"
          /\ \A j \in Inputs : j # i => StageOf(j)' = StageOf(j)
      BY <3>0, <3>1, <3>2, NoneAssumption DEF StageOf, NoPending
    <3>4. Promise!InStage("pending") = {}
      BY <3>0, NoneAssumption DEF Promise!InStage, StageOf, NoPending
    <3>5. Promise!InStage("confirmed") = confirmed
      <4>1. \A j \in Inputs : StageOf(j) = "confirmed" <=> j \in confirmed
        BY <1>0, <3>0, NoneAssumption DEF StageOf, JournalKnows, NoPending
      <4> QED BY <1>0, <4>1 DEF Promise!InStage, TypeOK
    <3>6. Promise!Cardinality(Promise!InStage("confirmed")) < Capacity
      <4>1. Promise!Cardinality(Promise!InStage("confirmed"))
              = Cardinality(Promise!InStage("confirmed"))
        BY Zenon DEF Promise!Cardinality, Cardinality
      <4> QED BY <3>2, <3>5, <4>1
    <3>7. stage[i] = "absent" /\ stage' = [stage EXCEPT ![i] = "pending"]
      BY <3>1, <3>3
    <3>8. Promise!Take(i)
      BY <2>1, <3>4, <3>6, <3>7 DEF Promise!Take
    <3> QED BY <3>1, <3>8 DEF Promise!ContractNext
  <2>7. CASE UNCHANGED <<confirmed, settled>> /\ pending'.input = pending.input
    BY <2>1, <2>7, StagesKept DEF Promise!contractVars
  <2>8. CASE SaveTurn \/ SaveNotice \/ Missed \/ Interrupted
    <3>1. pending \in Pending
      BY <1>0, <2>8, PendingInput
      DEF SaveTurn, SaveNotice, Missed, Interrupted, NoRestart, CallOwnsPending
    <3>2. pending'.input = pending.input /\ UNCHANGED <<confirmed, settled>>
      BY <2>8, <3>1 DEF SaveTurn, SaveNotice, Missed, Interrupted, Pending
    <3> QED BY <2>7, <3>2
  <2> QED
    BY <2>3, <2>4, <2>5, <2>6, <2>7, <2>8, JournalWriters
<1>4. CASE Accept
  <2>1. UNCHANGED <<confirmed, settled, pending, entries>>
    BY <1>4 DEF Accept, journalVars
  <2>2. \A i : EntriesOf(i)' = EntriesOf(i)
    BY <1>0, <1>4, <2>1 DEF EntriesOf, Accept, TypeOK
  <2> QED BY <2>1, <2>2, StagesKept DEF Promise!contractVars
<1>5. (\E t \in DOMAIN turns : Record(t)) => turns' = turns
  BY DEF Record
<1> QED BY <1>2, <1>3, <1>4, HistoryWriters

(* The journal implements the contract its producers rely on: without a    *)
(* terminal, for every set of inputs, every capacity and all faults.       *)
THEOREM JournalImplements == ~Shared => (Spec => ImplementsContract)
<1> SUFFICES ASSUME ~Shared PROVE Spec => ImplementsContract
  OBVIOUS
<1>1. Init => Promise!ContractInit
  <2> SUFFICES ASSUME Init PROVE Promise!ContractInit
    OBVIOUS
  <2>1. confirmed = {} /\ settled = {} /\ pending = NoPending /\ entries = {}
    BY DEF Init
  <2> QED
    BY <2>1, NoneAssumption DEF Promise!ContractInit, StageOf, NoPending, EntriesOf
<1>2. DeliveryInv /\ OnceInv /\ [Next]_vars => [Promise!ContractNext]_(Promise!contractVars)
  BY ContractStep
<1> QED BY <1>1, <1>2, OnceInvariant, PTL DEF Spec, ImplementsContract, Promise!Contract
=============================================================================
