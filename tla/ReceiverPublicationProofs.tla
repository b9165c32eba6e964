---------------------- MODULE ReceiverPublicationProofs ----------------------
(***************************************************************************)
(* For any room, faults and actions of the owner: the read position covers *)
(* only what the agent was given, a steering message is reported accepted  *)
(* only when it was, and the native session keeps nothing of a plan that   *)
(* is gone.  As long as delivery is not paused, steering goes ahead of the *)
(* backlog.  Where the owner neither pauses nor stops the agent and no     *)
(* sender loses the authority to steer, every message is given once, and   *)
(* without wake-ups no run ends with an error.                             *)
(***************************************************************************)
EXTENDS ReceiverPublication, WellFoundedInduction, TLAPS

(* Nobody interferes with the steering of the agent but its senders.       *)
Undisturbed == Stops = {} /\ ~MayRevoke /\ ~MayPause

Ends == {"accepted", "cursor", "checkpoint", "forget", "clear"}

(* A pass of acquire works on messages past the synchronized position.     *)
AcqTrue ==
  /\ acq.at \in {"sync", "capture", "interrupt", "cancel"} =>
       since < acq.msg /\ since <= acq.upto /\ acq.upto <= posted
  /\ acq.at \in {"capture", "interrupt", "cancel"} => acq.msg <= acq.upto

(* The publish loop is where its plan allows it to be.                     *)
PubTrue ==
  /\ pub.at \in Sends => pub.kind # "none" /\ Current.status # "none"
  /\ pub.at \in Ends => Current.status = "delivered" \/ Current.step = {}
  /\ pub.at \in {"settle", "submit"} => Current.step # {}
  /\ pub.at \in {"recover", "deliver"} => Current.status = "publishing"
  /\ pub.at \in {"cursor", "checkpoint"} => pub.kind = "chat"
  /\ pub.at \in {"prepare", "collect", "skim"} \/ pub.kind = "wake" => chat = NoPlan
  /\ pub.at = "admit" => pub.kind = "steer" /\ pub.msg \in Messages
  /\ pub.at = "collect" => cursor <= pub.msg /\ pub.msg <= since

PlanTrue(p) ==
  /\ p.status = "none" => p = NoPlan
  /\ p.status = "publishing" => p.step # {}
  /\ p.status = "delivered" => \A m \in p.step : given[m] > 0
PlansTrue ==
  /\ PlanTrue(chat) /\ PlanTrue(priority) /\ PlanTrue(wake)
  /\ chat.step \subseteq (chat.base + 1)..chat.upto /\ chat.upto <= since
  /\ chat # NoPlan => cursor \in {chat.base, chat.upto} /\ chat.base <= chat.upto
  /\ priority.step \subseteq Messages /\ wake.step \subseteq WakeInput

(* What the session holds belongs to a plan that is being published; a     *)
(* confirmation waits for its plan to be finished.                         *)
Owns(p) == p.status = "publishing" /\ p.step = journal
Keeps(p, s) == p.status \in {"publishing", "delivered"} /\ p.step = s
SessionTrue ==
  /\ journal # {} => Owns(chat) \/ Owns(priority) \/ Owns(wake)
  /\ journal \notin confirmed
  /\ entered => journal # {} /\ \A m \in journal : given[m] > 0
  /\ \A s \in confirmed : /\ s # {} /\ \A m \in s : given[m] > 0
                          /\ Keeps(chat, s) \/ Keeps(priority, s) \/ Keeps(wake, s)
  /\ pub.at = "clear" => Current.step \notin confirmed

(* What is passed over has been given, the owner's stops excepted.         *)
Has(m) == given[m] > 0 \/ m \in Stops
CoversTrue ==
  /\ \A m \in 1..cursor : Has(m)
  /\ \A m \in Messages : controls[m] = "delivered" => Has(m)
  /\ \A m \in 1..chat.upto : m \in chat.step \/ Has(m)

ReceiverInv == TypeOK /\ AcqTrue /\ PubTrue /\ PlansTrue /\ SessionTrue /\ CoversTrue
-----------------------------------------------------------------------------
(* Steps of the two loops that leave the plans and the session alone.      *)

LEMMA PubFields ==
  ASSUME pub \in Pub
  PROVE  /\ pub.at \in {"top", "choose", "admit", "prepare", "collect", "skim"} \cup Sends
         /\ pub.kind \in {"none", "resume", "steer", "chat", "wake"} /\ pub.msg \in 0..N
BY DEF Pub

LEMMA GoFields ==
  ASSUME pub \in Pub, NEW p \in Sends \cup {"prepare"}, Go(p)
  PROVE  pub' \in Pub /\ pub'.at = p /\ pub'.kind = pub.kind /\ pub'.msg = pub.msg
BY DEF Go, Pub

LEMMA TopFields ==
  /\ Top \in Pub /\ Top.at = "top" /\ Top.kind = "none" /\ Top.msg = 0
  /\ Resumed \in Pub /\ Resumed.at \in {"top", "choose", "prepare"}
  /\ Resumed.kind = "none"
  /\ Resumed.at = "prepare" <=> pub.kind = "wake"
  /\ Resumed.at = "choose" <=> pub.kind = "resume"
BY SizeAssumption DEF Top, Resumed, Pub

LEMMA NoPlanFields ==
  /\ NoPlan \in Plan /\ NoPlan.status = "none" /\ NoPlan.step = {}
  /\ NoPlan.base = 0 /\ NoPlan.upto = 0
BY SizeAssumption DEF NoPlan, Plan, Statuses

LEMMA Typed ==
  ASSUME TypeOK
  PROVE  /\ posted \in Nat /\ since \in Nat /\ cursor \in Nat
         /\ cursor <= since /\ since <= posted /\ posted <= N
         /\ chat \in Plan /\ priority \in Plan /\ wake \in Plan
         /\ \A p \in Plan : /\ p.base \in 0..N /\ p.upto \in 0..N
                            /\ p.step \subseteq 0..N /\ p.status \in Statuses
         /\ controls \in [Messages -> Stages] /\ given \in [0..N -> Nat]
         /\ pub \in Pub /\ acq \in Acq
         /\ acq.msg \in 0..N + 1 /\ acq.upto \in 0..N
<1>1. /\ posted \in Nat /\ since \in Nat /\ cursor \in Nat
      /\ cursor <= since /\ since <= posted /\ posted <= N
  BY SizeAssumption DEF TypeOK
<1>2. chat \in Plan /\ priority \in Plan /\ wake \in Plan  BY DEF TypeOK
<1>3. \A p \in Plan : /\ p.base \in 0..N /\ p.upto \in 0..N
                     /\ p.step \subseteq 0..N /\ p.status \in Statuses
  BY DEF Plan
<1>4. acq.msg \in 0..N + 1 /\ acq.upto \in 0..N  BY DEF TypeOK, Acq
<1>5. /\ controls \in [Messages -> Stages] /\ given \in [0..N -> Nat]
      /\ pub \in Pub /\ acq \in Acq
  BY DEF TypeOK
<1>. QED  BY <1>1, <1>2, <1>3, <1>4, <1>5

(* A step that at most ends the cycle or cancels the send.                 *)
LEMMA Retreats ==
  ASSUME ReceiverInv, TypeOK', AcqTrue',
         UNCHANGED <<cursor, planVars, sessionVars>>,
         since <= since', pub' = pub \/ pub' = Top \/ pub' = Cancelled,
         \A m \in Messages : controls'[m] = "delivered" => controls[m] = "delivered" \/ m \in Stops
  PROVE  ReceiverInv'
<1>1. TypeOK /\ PubTrue /\ PlansTrue /\ SessionTrue /\ CoversTrue  BY DEF ReceiverInv
<1>2. /\ pub \in Pub /\ since \in Nat /\ since' \in Nat
      /\ chat.upto \in Nat /\ controls \in [Messages -> Stages]
  <2>1. chat.upto \in 0..N /\ chat.upto \in Nat  BY <1>1, Typed, SizeAssumption
  <2>2. since' \in Nat  BY SizeAssumption DEF TypeOK
  <2>. QED  BY <1>1, <2>1, <2>2, Typed
<1>3. ASSUME pub' = pub PROVE PubTrue' /\ SessionTrue'
  <2>1. Current' = Current  BY <1>3 DEF Current, planVars
  <2>2. PubTrue'  BY <1>1, <1>2, <1>3, <2>1, PubFields DEF PubTrue, planVars
  <2>3. SessionTrue'
    BY <1>1, <1>3, <2>1 DEF SessionTrue, Owns, Keeps, planVars, sessionVars
  <2>. QED  BY <2>2, <2>3
<1>4. ASSUME pub' = Top \/ pub' = Resumed PROVE PubTrue' /\ SessionTrue'
  <2>1. /\ pub'.at \in {"top", "choose", "prepare"} /\ pub'.kind = "none"
        /\ pub'.at = "prepare" => pub.kind = "wake"
    BY <1>4, TopFields
  <2>2. PubTrue'
    BY <1>1, <2>1 DEF PubTrue, Sends, Ends, planVars
  <2>3. SessionTrue'
    BY <1>1, <2>1 DEF SessionTrue, Owns, Keeps, planVars, sessionVars
  <2>. QED  BY <2>2, <2>3
<1>5. PlansTrue'
  BY <1>1, <1>2 DEF PlansTrue, PlanTrue, planVars, sessionVars
<1>6. CoversTrue'
  BY <1>1 DEF CoversTrue, Has, planVars, sessionVars
<1>7. PubTrue' /\ SessionTrue'  BY <1>3, <1>4 DEF Cancelled
<1>. QED  BY <1>5, <1>6, <1>7 DEF ReceiverInv

LEMMA AcqFields ==
  ASSUME NEW p \in {"start", "idle"}
  PROVE  AcqAt(p) \in Acq /\ AcqAt(p).at = p
BY SizeAssumption DEF AcqAt, Acq

LEMMA FaultsCount ==
  ASSUME TypeOK, Fault
  PROVE  faults' \in 0..MaxFaults
BY SizeAssumption DEF Fault, TypeOK

LEMMA RetreatPub ==
  ASSUME TypeOK
  PROVE  Top \in Pub /\ Cancelled \in Pub
BY TopFields DEF Cancelled, TypeOK

LEMMA RoomKeeps ==
  ASSUME ReceiverInv, Room
  PROVE  ReceiverInv'
<1>1. TypeOK /\ AcqTrue  BY DEF ReceiverInv
<1>2. CASE Post
  <2>1. UNCHANGED <<since, cursor, steerVars, planVars, sessionVars, acq, pub>>  BY <1>2 DEF Post
  <2>2. TypeOK'
    BY <1>1, <1>2, SizeAssumption
    DEF Post, TypeOK, steerVars, planVars, sessionVars
  <2>3. AcqTrue'
    BY <1>1, <1>2, Typed, SizeAssumption DEF Post, AcqTrue
  <2>. QED  BY <1>1, <2>1, <2>2, <2>3, Typed, Retreats DEF steerVars
<1>3. CASE \E m \in Messages : Revoke(m)
  <2>1. UNCHANGED <<posted, since, cursor, steerVars, planVars, sessionVars, acq, pub>>
    BY <1>3 DEF Revoke
  <2>2. TypeOK'
    BY <1>1, <1>3, FaultsCount, KindAssumption
    DEF Revoke, TypeOK, steerVars, planVars, sessionVars
  <2>3. AcqTrue'  BY <1>1, <2>1 DEF AcqTrue
  <2>. QED  BY <1>1, <2>1, <2>2, <2>3, Typed, Retreats DEF steerVars
<1>4. CASE Pause
  <2>1. /\ UNCHANGED <<posted, since, cursor, steerVars, planVars, sessionVars>>
        /\ pub' = Top \/ pub' = Cancelled
        /\ acq' = acq \/ acq' = AcqAt("idle")
    BY <1>4 DEF Pause
  <2>2. pub' \in Pub /\ acq' \in Acq /\ faults' \in 0..MaxFaults
    BY <1>1, <1>4, <2>1, FaultsCount, RetreatPub, AcqFields DEF TypeOK, Pause
  <2>3. TypeOK'
    BY <1>1, <1>4, <2>2 DEF Pause, TypeOK, steerVars, planVars, sessionVars
  <2>4. AcqTrue'  BY <1>1, <2>1, AcqFields DEF AcqTrue
  <2>. QED  BY <1>1, <2>1, <2>3, <2>4, Typed, Retreats DEF steerVars
<1>5. CASE Unpause
  <2>1. UNCHANGED <<posted, since, cursor, steerVars, planVars, sessionVars, acq, pub>>
    BY <1>5 DEF Unpause
  <2>2. TypeOK'
    BY <1>1, <1>5 DEF Unpause, TypeOK, roomVars, steerVars, planVars, sessionVars
  <2>3. AcqTrue'  BY <1>1, <2>1 DEF AcqTrue
  <2>. QED  BY <1>1, <2>1, <2>2, <2>3, Typed, Retreats DEF steerVars
<1>. QED  BY <1>2, <1>3, <1>4, <1>5 DEF Room

LEMMA AcquireKeeps ==
  ASSUME ReceiverInv, Acquire \/ Refresh \/ AcquireFails
  PROVE  ReceiverInv'
<1>1. /\ TypeOK /\ AcqTrue
      /\ UNCHANGED <<roomVars, cursor, planVars, sessionVars>>
  BY DEF ReceiverInv, Acquire, Refresh, AcquireFails, Initialize, Sync, Pass, Preempt, Capture,
         InterruptTurn, CancelDelivery, Synchronized
<1>2. posted' = posted  BY <1>1 DEF roomVars
<1>3. CASE Initialize
  <2>1. /\ acq' = AcqAt("idle")
        /\ UNCHANGED <<since, pub, ordinary, synced, claims, failed, faults>>
    BY <1>3 DEF Initialize
  <2>2. controls' \in [Messages -> Stages] /\ paused' \in BOOLEAN
    BY <1>1, <1>3 DEF Initialize, TypeOK, Stages
  <2>3. \A m \in Messages : controls'[m] = "delivered" => controls[m] = "delivered" \/ m \in Stops
    BY <1>3 DEF Initialize
  <2>4. acq' \in Acq /\ AcqTrue'  BY <2>1, AcqFields DEF AcqTrue
  <2>5. TypeOK'
    BY <1>1, <2>1, <2>2, <2>4 DEF TypeOK, roomVars, planVars, sessionVars
  <2>. QED  BY <1>1, <2>1, <2>3, <2>4, <2>5, Typed, Retreats
<1>4. CASE Sync
  <2>1. /\ UNCHANGED <<since, steerVars, pub, ordinary, synced, claims, failed, faults>>
        /\ acq' = [at |-> "sync", msg |-> since + 1, upto |-> posted]
    BY <1>4 DEF Sync
  <2>2. acq' \in Acq  BY <1>1, <2>1, Typed, SizeAssumption DEF Acq
  <2>3. AcqTrue'  BY <1>1, <1>2, <2>1, Typed DEF AcqTrue
  <2>4. TypeOK'
    BY <1>1, <2>1, <2>2 DEF TypeOK, roomVars, steerVars, planVars, sessionVars
  <2>. QED  BY <1>1, <2>1, <2>3, <2>4, Typed, Retreats DEF steerVars
<1>5. CASE Pass
  <2>1. /\ UNCHANGED <<since, controls, pub, ordinary, synced, claims, failed, faults>>
        /\ acq.at = "sync" /\ acq.msg <= acq.upto
        /\ acq' = [acq EXCEPT !.msg = @ + 1] /\ paused' \in BOOLEAN
    BY <1>1, <1>5 DEF Pass, TypeOK
  <2>2. /\ acq' \in Acq /\ acq'.at = "sync" /\ acq'.msg = acq.msg + 1 /\ acq'.upto = acq.upto
    <3>1. acq \in Acq /\ acq.upto \in 0..N /\ acq.msg \in 0..N + 1  BY <1>1, Typed
    <3>2. acq.msg + 1 \in 0..N + 1  BY <1>1, <2>1, <3>1, SizeAssumption DEF AcqTrue
    <3>. QED  BY <2>1, <3>1, <3>2 DEF Acq
  <2>3. AcqTrue'  BY <1>1, <1>2, <2>1, <2>2, Typed DEF AcqTrue
  <2>4. TypeOK'
    BY <1>1, <2>1, <2>2 DEF TypeOK, roomVars, planVars, sessionVars
  <2>. QED  BY <1>1, <2>1, <2>3, <2>4, Typed, Retreats
<1>6. CASE Preempt
  <2>1. /\ UNCHANGED <<since, steerVars, synced, claims, failed, faults>>
        /\ acq.at = "sync" /\ acq.msg <= acq.upto /\ ordinary' \in BOOLEAN
        /\ acq' = [acq EXCEPT !.at = "capture"]
        /\ pub' = pub \/ pub' = Top \/ pub' = Cancelled
    BY <1>6 DEF Preempt
  <2>2. /\ acq' \in Acq /\ acq'.at = "capture" /\ acq'.msg = acq.msg /\ acq'.upto = acq.upto
    BY <1>1, <2>1, Typed DEF Acq
  <2>3. AcqTrue'  BY <1>1, <1>2, <2>1, <2>2 DEF AcqTrue
  <2>4. pub' \in Pub  BY <1>1, <2>1, RetreatPub, Typed
  <2>5. TypeOK'
    BY <1>1, <2>1, <2>2, <2>4 DEF TypeOK, roomVars, steerVars, planVars, sessionVars
  <2>. QED  BY <1>1, <2>1, <2>3, <2>5, Typed, Retreats DEF steerVars
<1>7. CASE Capture
  <2>1. /\ UNCHANGED <<since, paused, pub, ordinary, synced, claims, failed, faults>>
        /\ acq.at = "capture"
        /\ \/ acq' = [acq EXCEPT !.at = "cancel"]
           \/ acq' = [acq EXCEPT !.at = "interrupt"]
    BY <1>7 DEF Capture
  <2>2. /\ acq' \in Acq /\ acq'.at \in {"cancel", "interrupt"} /\ acq'.msg = acq.msg
        /\ acq'.upto = acq.upto
    BY <1>1, <2>1, Typed DEF Acq
  <2>3. AcqTrue'  BY <1>1, <1>2, <2>1, <2>2 DEF AcqTrue
  <2>4. /\ controls' \in [Messages -> Stages]
        /\ \A m \in Messages : controls'[m] = "delivered" => controls[m] = "delivered"
    <3>1. CASE controls' = controls  BY <1>1, <3>1, Typed
    <3>2. CASE controls' = [m \in Messages |->
                              CASE m = acq.msg -> "interrupting"
                                [] controls[m] = "interrupted" -> "superseded"
                                [] OTHER -> controls[m]]
      BY <1>1, <3>2, Typed DEF Stages
    <3>. QED  BY <1>7, <3>1, <3>2 DEF Capture
  <2>5. TypeOK'
    BY <1>1, <2>1, <2>2, <2>4 DEF TypeOK, roomVars, planVars, sessionVars
  <2>. QED  BY <1>1, <2>1, <2>3, <2>4, <2>5, Typed, Retreats
<1>8. CASE InterruptTurn
  <2>1. /\ UNCHANGED <<since, pub, ordinary, synced, claims, failed, faults>>
        /\ acq.at = "interrupt" /\ paused' \in BOOLEAN
        /\ acq' = [acq EXCEPT !.at = "cancel"]
        /\ controls' = [controls EXCEPT ![acq.msg] =
                          IF acq.msg \in Stops THEN "delivered" ELSE "interrupted"]
    BY <1>8 DEF InterruptTurn
  <2>2. /\ acq' \in Acq /\ acq'.at = "cancel" /\ acq'.msg = acq.msg /\ acq'.upto = acq.upto
    BY <1>1, <2>1, Typed DEF Acq
  <2>3. AcqTrue'  BY <1>1, <1>2, <2>1, <2>2 DEF AcqTrue
  <2>4. /\ controls' \in [Messages -> Stages]
        /\ \A m \in Messages :
             controls'[m] = "delivered" => controls[m] = "delivered" \/ m \in Stops
    BY <1>1, <2>1, Typed DEF Stages
  <2>5. TypeOK'
    BY <1>1, <2>1, <2>2, <2>4 DEF TypeOK, roomVars, planVars, sessionVars
  <2>. QED  BY <1>1, <2>1, <2>3, <2>4, <2>5, Typed, Retreats
<1>9. CASE CancelDelivery
  <2>1. /\ UNCHANGED <<since, steerVars, ordinary, synced, claims, failed, faults>>
        /\ acq.at = "cancel" /\ pub' = Cancelled
        /\ acq' = [acq EXCEPT !.at = "sync", !.msg = @ + 1]
    BY <1>9 DEF CancelDelivery
  <2>2. /\ acq' \in Acq /\ acq'.at = "sync" /\ acq'.msg = acq.msg + 1 /\ acq'.upto = acq.upto
    <3>1. acq \in Acq /\ acq.upto \in 0..N /\ acq.msg \in 0..N + 1  BY <1>1, Typed
    <3>2. acq.msg + 1 \in 0..N + 1  BY <1>1, <2>1, <3>1, SizeAssumption DEF AcqTrue
    <3>. QED  BY <2>1, <3>1, <3>2 DEF Acq
  <2>3. AcqTrue'  BY <1>1, <1>2, <2>1, <2>2, Typed DEF AcqTrue
  <2>4. pub' \in Pub  BY <1>1, <2>1, RetreatPub
  <2>5. TypeOK'
    BY <1>1, <2>1, <2>2, <2>4 DEF TypeOK, roomVars, steerVars, planVars, sessionVars
  <2>. QED  BY <1>1, <2>1, <2>3, <2>5, Typed, Retreats DEF steerVars
<1>10. CASE Synchronized
  <2>1. /\ UNCHANGED <<steerVars, pub, claims, failed, faults>>
        /\ acq.at = "sync" /\ since' = acq.upto
        /\ synced' \in BOOLEAN /\ ordinary' \in BOOLEAN /\ acq' = AcqAt("idle")
    BY <1>10 DEF Synchronized
  <2>2. acq' \in Acq /\ AcqTrue'  BY <2>1, AcqFields DEF AcqTrue
  <2>3. since <= since' /\ since' \in 0..posted /\ cursor \in 0..since'
    BY <1>1, <2>1, Typed DEF AcqTrue
  <2>4. TypeOK'
    BY <1>1, <2>1, <2>2, <2>3 DEF TypeOK, roomVars, steerVars, planVars, sessionVars
  <2>. QED  BY <1>1, <2>1, <2>2, <2>3, <2>4, Retreats DEF steerVars
<1>11. CASE Refresh
  <2>1. /\ UNCHANGED <<since, steerVars, acq, ordinary, synced, claims, failed>>
        /\ pub' = Cancelled /\ Fault
    BY <1>11 DEF Refresh
  <2>2. AcqTrue'  BY <1>1, <1>2, <2>1 DEF AcqTrue
  <2>3. pub' \in Pub /\ faults' \in 0..MaxFaults  BY <1>1, <2>1, RetreatPub, FaultsCount
  <2>4. TypeOK'
    BY <1>1, <2>1, <2>3 DEF TypeOK, roomVars, steerVars, planVars, sessionVars
  <2>. QED  BY <1>1, <2>1, <2>2, <2>4, Typed, Retreats DEF steerVars
<1>12. CASE AcquireFails
  <2>1. /\ UNCHANGED <<since, steerVars, pub, ordinary, synced, claims, failed>>
        /\ acq' = AcqAt("idle") /\ Fault
    BY <1>12 DEF AcquireFails
  <2>2. acq' \in Acq /\ AcqTrue' /\ faults' \in 0..MaxFaults
    BY <1>1, <2>1, AcqFields, FaultsCount DEF AcqTrue
  <2>3. TypeOK'
    BY <1>1, <2>1, <2>2 DEF TypeOK, roomVars, steerVars, planVars, sessionVars
  <2>. QED  BY <1>1, <2>1, <2>2, <2>3, Typed, Retreats DEF steerVars
<1>. QED
  BY <1>3, <1>4, <1>5, <1>6, <1>7, <1>8, <1>9, <1>10, <1>11, <1>12 DEF Acquire

LEMMA InterruptionsKeep ==
  ASSUME ReceiverInv, SendFails \/ Crash
  PROVE  ReceiverInv'
<1>1. TypeOK /\ AcqTrue  BY DEF ReceiverInv
<1>2. /\ UNCHANGED <<roomVars, since, cursor, steerVars, planVars, sessionVars, claims, failed>>
      /\ pub' = Top /\ acq' \in {acq, AcqAt("start")} /\ Fault
      /\ ordinary' \in {ordinary, TRUE} /\ synced' \in {synced, FALSE}
  BY DEF SendFails, Crash
<1>3. pub' \in Pub /\ acq' \in Acq /\ faults' \in 0..MaxFaults
  BY <1>1, <1>2, RetreatPub, Typed, AcqFields, FaultsCount
<1>4. AcqTrue'  BY <1>1, <1>2, AcqFields DEF AcqTrue, roomVars
<1>5. TypeOK'
  BY <1>1, <1>2, <1>3 DEF TypeOK, roomVars, steerVars, planVars, sessionVars
<1>. QED  BY <1>1, <1>2, <1>4, <1>5, Typed, Retreats DEF steerVars

(* Steps of publish that change nothing but where it is.                   *)
LEMMA Moves ==
  ASSUME ReceiverInv, pub' \in Pub, PubTrue', pub'.at # "clear",
         UNCHANGED <<roomVars, since, cursor, steerVars, planVars, sessionVars, acq,
                     ordinary, synced, claims, failed, faults>>
  PROVE  ReceiverInv'
<1>1. TypeOK /\ AcqTrue /\ PlansTrue /\ SessionTrue /\ CoversTrue  BY DEF ReceiverInv
<1>2. TypeOK'  BY <1>1 DEF TypeOK, roomVars, steerVars, planVars, sessionVars
<1>3. AcqTrue'  BY <1>1 DEF AcqTrue, roomVars
<1>4. PlansTrue'  BY <1>1 DEF PlansTrue, PlanTrue, planVars, sessionVars
<1>5. SessionTrue'  BY <1>1 DEF SessionTrue, Owns, Keeps, planVars, sessionVars
<1>6. CoversTrue'  BY <1>1 DEF CoversTrue, Has, planVars, sessionVars, steerVars
<1>. QED  BY <1>2, <1>3, <1>4, <1>5, <1>6 DEF ReceiverInv

LEMMA CurrentIs ==
  /\ pub.kind = "chat" => Current = chat
  /\ pub.kind = "wake" => Current = wake
  /\ pub.kind \notin {"chat", "wake"} => Current = priority
BY DEF Current

LEMMA CurrentNext ==
  /\ pub'.kind = "chat" => Current' = chat'
  /\ pub'.kind = "wake" => Current' = wake'
  /\ pub'.kind \notin {"chat", "wake"} => Current' = priority'
BY DEF Current

LEMMA CurrentTyped ==
  ASSUME TypeOK
  PROVE  Current \in Plan
BY Typed, CurrentIs

(* The latest of the controls that wait for their input, if there is one.  *)
LEMMA UrgentIs ==
  /\ Urgent # 0 => Urgent \in Messages /\ controls[Urgent] = "interrupted"
  /\ Urgent = 0 => \A m \in Messages : controls[m] # "interrupted"
<1>1. CASE UrgentOnes = {}
  <2>1. Urgent = 0  BY <1>1 DEF Urgent
  <2>. QED  BY <1>1, <2>1 DEF UrgentOnes
<1>2. CASE UrgentOnes # {}
  <2>. DEFINE Less == {ss \in Nat \X Nat : ss[1] < ss[2]}
              below == {n \in Nat : \E m \in UrgentOnes : n = N - m}
  <2>1. below \subseteq Nat /\ below # {}
    <3>1. PICK m \in UrgentOnes : TRUE  BY <1>2
    <3>2. N - m \in Nat  BY <3>1, SizeAssumption DEF UrgentOnes, Messages
    <3>. QED  BY <3>1, <3>2
  <2>2. IsWellFoundedOn(Less, Nat)  BY NatLessThanWellFounded DEF OpToRel
  <2>3. PICK n \in below : \A k \in below : ~(<<k, n>> \in Less)
    <3>. HIDE DEF Less, below
    <3>. QED  BY <2>1, <2>2, WFMin
  <2>4. PICK m \in UrgentOnes : n = N - m  BY <2>3
  <2>5. \A o \in UrgentOnes : o <= m
    <3>. SUFFICES ASSUME NEW o \in UrgentOnes PROVE o <= m  OBVIOUS
    <3>1. N - o \in Nat /\ o \in Nat /\ m \in Nat /\ n \in Nat /\ N \in Nat
      BY <2>3, <2>4, SizeAssumption DEF UrgentOnes, Messages
    <3>2. N - o \in below  BY <3>1
    <3>3. ~(N - o < n)  BY <2>3, <3>1, <3>2
    <3>. QED  BY <2>4, <3>1, <3>3
  <2>6. Urgent \in UrgentOnes
    <3>. HIDE DEF Less, below
    <3>. QED  BY <1>2, <2>4, <2>5 DEF Urgent
  <2>. QED  BY <2>6 DEF UrgentOnes, Messages
<1>. QED  BY <1>1, <1>2

LEMMA CycleKeeps ==
  ASSUME ReceiverInv,
         BeginCycle \/ ChooseSteering \/ ChooseChat \/ ChoosePrepare \/ ChoosePaused
         \/ StartCollect \/ CollectNothing
  PROVE  ReceiverInv'
<1>1. /\ TypeOK /\ PubTrue /\ PlansTrue
      /\ UNCHANGED <<roomVars, since, cursor, steerVars, planVars, sessionVars, acq,
                     ordinary, synced, claims, failed, faults>>
      /\ UNCHANGED <<chat, priority, wake>>
  BY DEF ReceiverInv, BeginCycle, ChooseSteering, ChooseChat, ChoosePrepare, ChoosePaused,
         StartCollect, CollectNothing, planVars
<1>2. SUFFICES pub' \in Pub /\ PubTrue' /\ pub'.at # "clear"
  BY <1>1, Moves
<1>3. CASE BeginCycle
  <2>1. \/ pub' = [Top EXCEPT !.at = "recover", !.kind = "resume"] /\ priority.status = "publishing"
        \/ pub' = [Top EXCEPT !.at = "accepted", !.kind = "resume"] /\ priority.status = "delivered"
        \/ pub' = [Top EXCEPT !.at = "choose"]
    BY <1>3 DEF BeginCycle
  <2>2. /\ pub' \in Pub
        /\ \/ pub'.at = "recover" /\ pub'.kind = "resume" /\ priority.status = "publishing"
           \/ pub'.at = "accepted" /\ pub'.kind = "resume" /\ priority.status = "delivered"
           \/ pub'.at = "choose" /\ pub'.kind = "none"
    BY <2>1, TopFields DEF Pub, Sends, Top
  <2>3. pub'.at # "choose" => Current' = priority
    BY <1>1, <2>2, CurrentNext
  <2>. QED  BY <2>2, <2>3 DEF PubTrue, Sends, Ends
<1>4. CASE ChooseSteering
  <2>1. pub' = [at |-> "admit", kind |-> "steer", msg |-> Urgent] /\ Urgent \in Messages
    BY <1>4, UrgentIs DEF ChooseSteering
  <2>2. pub' \in Pub /\ pub'.at = "admit" /\ pub'.kind = "steer" /\ pub'.msg \in Messages
    BY <2>1 DEF Pub, Messages
  <2>. QED  BY <2>2 DEF PubTrue, Sends, Ends
<1>5. CASE ChooseChat
  <2>1. /\ chat # NoPlan
        /\ pub' = Top \/ pub' = [Top EXCEPT !.at = "publish", !.kind = "chat"]
    BY <1>5 DEF ChooseChat
  <2>2. /\ pub' \in Pub
        /\ \/ pub'.at = "top" /\ pub'.kind = "none"
           \/ pub'.at = "publish" /\ pub'.kind = "chat"
    BY <2>1, TopFields DEF Pub, Sends, Top
  <2>3. pub'.at # "top" => Current' = chat /\ chat.status # "none"
    BY <1>1, <2>1, <2>2, CurrentNext DEF PlansTrue, PlanTrue
  <2>. QED  BY <2>2, <2>3 DEF PubTrue, Sends, Ends
<1>6. CASE ChoosePrepare
  <2>1. Go("prepare") /\ pub.at = "choose" /\ chat = NoPlan  BY <1>6 DEF ChoosePrepare
  <2>2. pub' \in Pub /\ pub'.at = "prepare" /\ pub'.kind = pub.kind
    BY <1>1, <2>1, GoFields, Typed
  <2>. QED  BY <1>1, <2>1, <2>2 DEF PubTrue, Sends, Ends
<1>7. CASE ChoosePaused
  BY <1>1, <1>7, TopFields DEF ChoosePaused, PubTrue, Sends, Ends
<1>8. CASE StartCollect
  <2>1. /\ pub.at = "prepare"
        /\ pub' = Top \/ pub' = [Top EXCEPT !.at = "collect", !.msg = since]
    BY <1>8 DEF StartCollect
  <2>2. since \in 0..N /\ since' = since /\ cursor' = cursor /\ cursor <= since
    BY <1>1, Typed, SizeAssumption
  <2>3. /\ pub' \in Pub
        /\ \/ pub'.at = "top" /\ pub'.kind = "none"
           \/ pub'.at = "collect" /\ pub'.kind = "none" /\ pub'.msg = since
    BY <2>1, <2>2, TopFields DEF Pub, Sends, Top
  <2>4. since \in Nat  BY <1>1, Typed
  <2>. QED  BY <1>1, <2>1, <2>2, <2>3, <2>4 DEF PubTrue, Sends, Ends
<1>9. CASE CollectNothing
  BY <1>1, <1>9, TopFields DEF CollectNothing, PubTrue, Sends, Ends
<1>. QED  BY <1>3, <1>4, <1>5, <1>6, <1>7, <1>8, <1>9

LEMMA SendMovesKeep ==
  ASSUME ReceiverInv, PublishDone \/ PublishNew \/ PublishAgain \/ Settled
  PROVE  ReceiverInv'
<1>1. /\ TypeOK /\ PubTrue /\ PlansTrue /\ pub \in Pub /\ Current \in Plan
      /\ UNCHANGED <<roomVars, since, cursor, steerVars, planVars, sessionVars, acq,
                     ordinary, synced, claims, failed, faults>>
      /\ UNCHANGED <<chat, priority, wake>>
  BY CurrentTyped
  DEF ReceiverInv, PublishDone, PublishNew, PublishAgain, Settled, planVars, TypeOK
<1>2. SUFFICES pub' \in Pub /\ PubTrue' /\ pub'.at # "clear"
  BY <1>1, Moves
<1>3. ASSUME NEW p \in Sends, Go(p), pub.at \in Sends,
             p \in Ends => Current.status = "delivered" \/ Current.step = {},
             p \in {"settle", "submit"} => Current.step # {},
             p \in {"recover", "deliver"} => Current.status = "publishing",
             p \in {"cursor", "checkpoint"} => pub.kind = "chat",
             p # "clear"
      PROVE  pub' \in Pub /\ PubTrue' /\ pub'.at # "clear"
  <2>1. pub' \in Pub /\ pub'.at = p /\ pub'.kind = pub.kind  BY <1>1, <1>3, GoFields
  <2>2. Current' = Current  BY <1>1, <2>1, CurrentNext, CurrentIs
  <2>3. pub.kind # "none" /\ Current.status # "none" /\ (pub.kind = "wake" => chat = NoPlan)
    BY <1>1, <1>3 DEF PubTrue
  <2>. QED  BY <1>1, <1>3, <2>1, <2>2, <2>3 DEF PubTrue, Sends
<1>4. CASE PublishDone
  <2>. DEFINE p == CASE pub.kind = "chat" -> "cursor" [] pub.kind = "wake" -> "forget"
                     [] OTHER -> "accepted"
  <2>1. p \in {"cursor", "forget", "accepted"} /\ (p = "cursor" => pub.kind = "chat")
    OBVIOUS
  <2>2. /\ Go(p) /\ pub.at = "publish"
        /\ Current.status = "delivered" \/ Current.step = {}
    BY <1>4 DEF PublishDone
  <2>. HIDE DEF p
  <2>. QED  BY <1>3, <2>1, <2>2 DEF Sends, Ends
<1>5. CASE PublishNew
  <2>. DEFINE p == IF pub.kind = "steer" THEN "settle" ELSE "submit"
  <2>1. p \in {"settle", "submit"} /\ Go(p) /\ pub.at = "publish" /\ Current.step # {}
    BY <1>5 DEF PublishNew
  <2>. HIDE DEF p
  <2>. QED  BY <1>3, <2>1 DEF Sends, Ends
<1>6. CASE PublishAgain
  BY <1>3, <1>6 DEF PublishAgain, Sends, Ends
<1>7. CASE Settled
  <2>1. Go("submit") /\ pub.at = "settle"  BY <1>7 DEF Settled
  <2>2. Current.step # {}  BY <1>1, <2>1 DEF PubTrue
  <2>. QED  BY <1>3, <2>1, <2>2 DEF Sends, Ends
<1>. QED  BY <1>4, <1>5, <1>6, <1>7

(* Steps of a send that change its plan.                                   *)
LEMMA PutIs ==
  ASSUME NEW q, Put(q)
  PROVE  /\ pub.kind = "chat" => chat' = q /\ UNCHANGED <<priority, wake>>
         /\ pub.kind = "wake" => wake' = q /\ UNCHANGED <<chat, priority>>
         /\ pub.kind \in {"resume", "steer"} => priority' = q /\ UNCHANGED <<chat, wake>>
BY DEF Put

LEMMA PlanChanges ==
  ASSUME ReceiverInv, NEW q \in Plan, Put(q), pub.at \in Sends,
         UNCHANGED <<roomVars, since, cursor, steerVars, sessionVars, acq,
                     ordinary, synced, claims, failed, faults>>,
         pub' \in Pub, PubTrue', pub'.at # "clear", PlanTrue(q), q.step \subseteq Current.step,
         \/ q = NoPlan
         \/ q.base = Current.base /\ q.upto = Current.upto,
         pub.kind = "chat" => \A m \in 1..q.upto : m \in q.step \/ Has(m),
         journal # {} /\ Owns(Current) => Owns(q),
         \A s \in confirmed : Keeps(Current, s) => Keeps(q, s)
  PROVE  ReceiverInv'
<1>1. TypeOK /\ AcqTrue /\ PubTrue /\ PlansTrue /\ SessionTrue /\ CoversTrue
  BY DEF ReceiverInv
<1>2. pub.kind \in {"chat", "wake", "resume", "steer"} /\ Current.status # "none"
  BY <1>1, Typed, PubFields DEF PubTrue
<1>3. chat' \in Plan /\ priority' \in Plan /\ wake' \in Plan
  BY <1>1, <1>2, PutIs, Typed
<1>4. TypeOK'
  BY <1>1, <1>3 DEF TypeOK, roomVars, steerVars, sessionVars
<1>5. AcqTrue'  BY <1>1 DEF AcqTrue, roomVars
<1>6. given' = given /\ journal' = journal /\ entered' = entered /\ confirmed' = confirmed
      /\ controls' = controls
  BY DEF sessionVars, steerVars
<1>7. PlansTrue'
  <2>1. PlanTrue(chat)' /\ PlanTrue(priority)' /\ PlanTrue(wake)'
    BY <1>1, <1>2, <1>6, PutIs DEF PlansTrue, PlanTrue
  <2>2. CASE pub.kind = "chat"
    <3>1. Current = chat /\ chat' = q /\ UNCHANGED <<priority, wake>>  BY <2>2, PutIs, CurrentIs
    <3>2. chat # NoPlan /\ since \in Nat  BY <1>1, <1>2, <3>1, Typed, NoPlanFields
    <3>. QED  BY <1>1, <2>1, <3>1, <3>2, NoPlanFields DEF PlansTrue
  <2>3. CASE pub.kind # "chat"
    <3>1. /\ chat' = chat
          /\ \/ Current = priority /\ priority' = q /\ wake' = wake
             \/ Current = wake /\ wake' = q /\ priority' = priority
      BY <1>2, <2>3, PutIs, CurrentIs
    <3>. QED  BY <1>1, <2>1, <3>1 DEF PlansTrue
  <2>. QED  BY <2>2, <2>3
<1>8. SessionTrue'
  <2>1. \/ Current = chat /\ chat' = q /\ priority' = priority /\ wake' = wake
        \/ Current = priority /\ chat' = chat /\ priority' = q /\ wake' = wake
        \/ Current = wake /\ chat' = chat /\ priority' = priority /\ wake' = q
    BY <1>2, PutIs, CurrentIs
  <2>2. journal' # {} => Owns(chat)' \/ Owns(priority)' \/ Owns(wake)'
    BY <1>1, <1>6, <2>1 DEF SessionTrue, Owns
  <2>3. \A s \in confirmed' : Keeps(chat', s) \/ Keeps(priority', s) \/ Keeps(wake', s)
    BY <1>1, <1>6, <2>1 DEF SessionTrue
  <2>. QED  BY <1>1, <1>6, <2>2, <2>3 DEF SessionTrue, Keeps
<1>9. CoversTrue'
  <2>1. CASE pub.kind = "chat"
    <3>1. chat' = q  BY <2>1, PutIs
    <3>. QED  BY <1>1, <1>6, <2>1, <3>1 DEF CoversTrue, Has
  <2>2. CASE pub.kind # "chat"
    <3>1. chat' = chat  BY <1>2, <2>2, PutIs
    <3>. QED  BY <1>1, <1>6, <3>1 DEF CoversTrue, Has
  <2>. QED  BY <2>1, <2>2
<1>. QED  BY <1>4, <1>5, <1>7, <1>8, <1>9 DEF ReceiverInv

(* A plan with another status or fewer messages.                           *)
LEMMA PlanWith ==
  ASSUME NEW p \in Plan, NEW st \in Statuses
  PROVE  LET q == [p EXCEPT !.status = st] IN
         /\ q \in Plan /\ q.status = st /\ q.step = p.step /\ q.base = p.base /\ q.upto = p.upto
BY DEF Plan

LEMMA PlanOf ==
  ASSUME NEW p \in Plan, NEW S \in SUBSET (0..N)
  PROVE  LET q == [p EXCEPT !.step = S, !.status = "prepared"] IN
         /\ q \in Plan /\ q.status = "prepared" /\ q.step = S
         /\ q.base = p.base /\ q.upto = p.upto
BY DEF Plan, Statuses

(* The status of the plan changes and the send goes on.                    *)
LEMMA StatusKeeps ==
  ASSUME ReceiverInv, pub.at \in Sends, NEW st \in {"prepared", "publishing", "delivered"},
         Put([Current EXCEPT !.status = st]),
         UNCHANGED <<roomVars, since, cursor, steerVars, sessionVars, acq,
                     ordinary, synced, claims, failed, faults>>,
         NEW p, pub' = Resumed \/ Go(p),
         p \in {"publish", "settle", "submit", "deliver", "accepted"},
         p \in {"settle", "submit"} => Current.step # {},
         p = "deliver" => st = "publishing",
         p = "accepted" => st = "delivered",
         st = "publishing" => Current.step # {},
         st = "delivered" => Current.step \in confirmed,
         st # "publishing" => journal # Current.step,
         st = "prepared" => Current.step \notin confirmed
  PROVE  ReceiverInv'
<1>. DEFINE q == [Current EXCEPT !.status = st]
<1>1. TypeOK /\ PubTrue /\ PlansTrue /\ SessionTrue /\ CoversTrue
  BY DEF ReceiverInv
<1>2. /\ q \in Plan /\ q.status = st /\ q.step = Current.step
      /\ q.base = Current.base /\ q.upto = Current.upto
  <2>1. Current \in Plan /\ st \in Statuses  BY <1>1, CurrentTyped DEF Statuses
  <2>. QED  BY <2>1, PlanWith
<1>3. Put(q)  OBVIOUS
<1>. HIDE DEF q
<1>4. /\ pub.kind \in {"chat", "wake", "resume", "steer"}
      /\ pub.kind = "wake" => chat = NoPlan
  BY <1>1, Typed, PubFields DEF PubTrue
<1>5. pub' \in Pub /\ PubTrue' /\ pub'.at # "clear"
  <2>1. CASE Go(p)
    <3>1. pub' \in Pub /\ pub'.at = p /\ pub'.kind = pub.kind
      BY <1>1, <2>1, GoFields, Typed DEF Sends
    <3>2. Current' = q  BY <1>3, <1>4, <3>1, PutIs, CurrentNext
    <3>3. pub.kind = "wake" => chat' = NoPlan  BY <1>3, <1>4, PutIs
    <3>. QED  BY <1>2, <1>4, <3>1, <3>2, <3>3 DEF PubTrue, Sends, Ends
  <2>2. CASE pub' = Resumed
    <3>1. /\ pub' \in Pub /\ pub'.at \in {"top", "choose", "prepare"} /\ pub'.kind = "none"
          /\ pub'.at = "prepare" => pub.kind = "wake"
      BY <2>2, TopFields
    <3>2. pub.kind = "wake" => chat' = NoPlan  BY <1>3, <1>4, PutIs
    <3>. QED  BY <3>1, <3>2 DEF PubTrue, Sends, Ends
  <2>. QED  BY <2>1, <2>2
<1>6. PlanTrue(q)  BY <1>1, <1>2 DEF PlanTrue, SessionTrue
<1>7. pub.kind = "chat" => \A m \in 1..q.upto : m \in q.step \/ Has(m)
  BY <1>1, <1>2, CurrentIs DEF CoversTrue
<1>8. journal # {} /\ Owns(Current) => Owns(q)  BY <1>2 DEF Owns
<1>9. \A s \in confirmed : Keeps(Current, s) => Keeps(q, s)  BY <1>2 DEF Keeps
<1>. QED  BY <1>2, <1>3, <1>5, <1>6, <1>7, <1>8, <1>9, PlanChanges

LEMMA PublishingKeeps ==
  ASSUME ReceiverInv,
         RecoverReceived \/ RecoverAbsent \/ SavePublishing \/ Delivered
  PROVE  ReceiverInv'
<1>1. /\ TypeOK /\ PubTrue /\ PlansTrue /\ SessionTrue
      /\ pub.at \in {"recover", "submit", "deliver"} /\ pub.at \in Sends
      /\ UNCHANGED <<roomVars, since, cursor, steerVars, sessionVars, acq,
                     ordinary, synced, claims, failed, faults>>
  BY DEF ReceiverInv, RecoverReceived, RecoverAbsent, SavePublishing, Delivered, Sends
<1>2. Current.step # {}
  <2>1. PlanTrue(Current)  BY <1>1, CurrentIs DEF PlansTrue
  <2>. QED  BY <1>1, <2>1 DEF PubTrue, PlanTrue
<1>3. CASE RecoverReceived \/ Delivered
  <2>1. PICK p \in {"accepted", "publish"} :
          /\ Put([Current EXCEPT !.status = "delivered"]) /\ Go(p)
          /\ journal = {} /\ Current.step \in confirmed
    BY <1>3 DEF RecoverReceived, Delivered
  <2>. QED  BY <1>1, <1>2, <2>1, StatusKeeps
<1>4. CASE SavePublishing
  <2>1. Put([Current EXCEPT !.status = "publishing"]) /\ Go("deliver")
    BY <1>4 DEF SavePublishing
  <2>. QED  BY <1>1, <1>2, <2>1, StatusKeeps
<1>5. CASE RecoverAbsent
  <2>. DEFINE st == IF pub.kind \in {"resume", "wake"} THEN "prepared" ELSE Current.status
  <2>1. /\ Put([Current EXCEPT !.status = st])
        /\ pub.at = "recover" /\ journal = {} /\ Current.step \notin confirmed
    BY <1>5 DEF RecoverAbsent
  <2>2. st \in {"prepared", "publishing"}  BY <1>1, <2>1 DEF PubTrue
  <2>3. PICK p \in {"publish", "settle", "submit"} : pub' = Resumed \/ Go(p)
    BY <1>5 DEF RecoverAbsent
  <2>. HIDE DEF st
  <2>. QED  BY <1>1, <1>2, <2>1, <2>2, <2>3, StatusKeeps
<1>. QED  BY <1>3, <1>4, <1>5

LEMMA SpliceKeeps ==
  ASSUME ReceiverInv, Splice
  PROVE  ReceiverInv'
<1>. DEFINE q == [Current EXCEPT !.step = Remaining, !.status = "prepared"]
<1>1. /\ TypeOK /\ PubTrue /\ PlansTrue /\ SessionTrue /\ CoversTrue
      /\ pub.at \in {"publish", "recover"} /\ pub.at \in Sends
      /\ UNCHANGED <<roomVars, since, cursor, steerVars, sessionVars, acq,
                     ordinary, synced, claims, failed, faults>>
      /\ Remaining # Current.step /\ Put(q) /\ Go("publish")
  BY DEF ReceiverInv, Splice, Sends
<1>2. pub.kind = "chat" /\ Current = chat /\ Remaining = {m \in chat.step : Accepts(m)}
  BY <1>1, CurrentIs DEF Remaining
<1>3. Current \in Plan /\ chat.step \subseteq 0..N  BY <1>1, CurrentTyped, Typed
<1>4. /\ q \in Plan /\ q.status = "prepared" /\ q.step = Remaining
      /\ q.base = Current.base /\ q.upto = Current.upto
  <2>1. Remaining \in SUBSET (0..N)  BY <1>2, <1>3
  <2>. QED  BY <1>3, <2>1, PlanOf
<1>. HIDE DEF q
<1>5. pub' \in Pub /\ PubTrue' /\ pub'.at # "clear"
  <2>1. pub' \in Pub /\ pub'.at = "publish" /\ pub'.kind = "chat"
    BY <1>1, <1>2, GoFields, Typed DEF Sends
  <2>2. Current' = q  BY <1>1, <1>2, <2>1, PutIs, CurrentNext
  <2>. QED  BY <1>4, <2>1, <2>2 DEF PubTrue, Sends, Ends
<1>6. PlanTrue(q) /\ q.step \subseteq Current.step  BY <1>2, <1>4 DEF PlanTrue
<1>7. \A m \in 1..q.upto : m \in q.step \/ Has(m)
  <2>. SUFFICES ASSUME NEW m \in 1..chat.upto, m \in chat.step, ~Accepts(m) PROVE Has(m)
    BY <1>1, <1>2, <1>4 DEF CoversTrue
  <2>1. m \in Messages  BY <1>1, Typed DEF Messages
  <2>. QED  BY <1>1, <2>1 DEF CoversTrue, Accepts
<1>8. \/ chat.status = "prepared"
      \/ journal = {} /\ chat.step \notin confirmed
  BY <1>2 DEF Splice
<1>9. /\ journal # {} /\ Owns(Current) => Owns(q)
      /\ \A s \in confirmed : Keeps(Current, s) => Keeps(q, s)
  BY <1>2, <1>8 DEF Owns, Keeps
<1>. QED  BY <1>1, <1>4, <1>5, <1>6, <1>7, <1>9, PlanChanges

(* What is gone from a plan is gone from the session.                      *)
LEMMA ClearKeeps ==
  ASSUME ReceiverInv, Clear
  PROVE  ReceiverInv'
<1>1. /\ TypeOK /\ PubTrue /\ SessionTrue /\ pub.at = "clear" /\ pub.at \in Sends
      /\ UNCHANGED <<roomVars, since, cursor, steerVars, sessionVars, acq,
                     ordinary, synced, claims, failed, faults>>
      /\ Put(NoPlan) /\ pub' = Resumed
  BY DEF ReceiverInv, Clear, Sends
<1>2. pub.kind \in {"chat", "wake", "resume", "steer"} /\ (pub.kind = "wake" => chat = NoPlan)
  BY <1>1, Typed, PubFields DEF PubTrue
<1>3. pub' \in Pub /\ PubTrue' /\ pub'.at # "clear"
  <2>1. /\ pub' \in Pub /\ pub'.at \in {"top", "choose", "prepare"} /\ pub'.kind = "none"
        /\ pub'.at = "prepare" => pub.kind = "wake"
    BY <1>1, TopFields
  <2>2. pub.kind = "wake" => chat' = NoPlan  BY <1>1, <1>2, PutIs
  <2>. QED  BY <2>1, <2>2 DEF PubTrue, Sends, Ends
<1>4. PlanTrue(NoPlan)  BY NoPlanFields DEF PlanTrue
<1>5. \A m \in 1..NoPlan.upto : m \in NoPlan.step \/ Has(m)  BY NoPlanFields
<1>6. ~(journal # {} /\ Owns(Current)) /\ \A s \in confirmed : ~Keeps(Current, s)
  BY <1>1 DEF PubTrue, SessionTrue, Owns, Keeps, Ends
<1>. QED  BY <1>1, <1>3, <1>4, <1>5, <1>6, NoPlanFields, PlanChanges

(* A plan that nothing of is in the session yet comes or goes.             *)
LEMMA UnsentKeeps ==
  ASSUME ReceiverInv, TypeOK',
         UNCHANGED <<roomVars, since, cursor, steerVars, sessionVars, acq, ordinary, synced>>,
         PubTrue', pub'.at # "clear",
         chat' = chat \/ (chat.status \in {"none", "prepared"} /\ PlanTrue(chat')),
         priority' = priority \/ (priority.status = "none" /\ PlanTrue(priority')),
         wake' = wake \/ (wake.status \in {"none", "prepared"} /\ PlanTrue(wake')),
         chat'.step \subseteq (chat'.base + 1)..chat'.upto /\ chat'.upto <= since,
         chat' # NoPlan => cursor \in {chat'.base, chat'.upto} /\ chat'.base <= chat'.upto,
         priority'.step \subseteq Messages /\ wake'.step \subseteq WakeInput,
         \A m \in 1..chat'.upto : m \in chat'.step \/ Has(m)
  PROVE  ReceiverInv'
<1>1. AcqTrue /\ PlansTrue /\ SessionTrue /\ CoversTrue  BY DEF ReceiverInv
<1>2. AcqTrue'  BY <1>1 DEF AcqTrue, roomVars
<1>3. given' = given /\ journal' = journal /\ entered' = entered /\ confirmed' = confirmed
      /\ controls' = controls
  BY DEF sessionVars, steerVars
<1>4. PlanTrue(chat)' /\ PlanTrue(priority)' /\ PlanTrue(wake)'
  BY <1>1, <1>3 DEF PlansTrue, PlanTrue
<1>5. PlansTrue'  BY <1>4 DEF PlansTrue
<1>6. SessionTrue'
  <2>1. journal' # {} => Owns(chat)' \/ Owns(priority)' \/ Owns(wake)'
    BY <1>1, <1>3 DEF SessionTrue, Owns
  <2>2. \A s \in confirmed' : Keeps(chat', s) \/ Keeps(priority', s) \/ Keeps(wake', s)
    BY <1>1, <1>3 DEF SessionTrue, Keeps
  <2>. QED  BY <1>1, <1>3, <2>1, <2>2 DEF SessionTrue, Keeps
<1>7. CoversTrue'  BY <1>1, <1>3 DEF CoversTrue, Has
<1>. QED  BY <1>2, <1>5, <1>6, <1>7 DEF ReceiverInv

LEMMA PlansComeAndGo ==
  ASSUME ReceiverInv, Discard \/ ChooseWake \/ Admit \/ Collect \/ WakeIneligible
  PROVE  ReceiverInv'
<1>1. /\ TypeOK /\ PubTrue /\ PlansTrue /\ CoversTrue /\ pub \in Pub
      /\ UNCHANGED <<roomVars, since, cursor, steerVars, sessionVars, acq, ordinary, synced,
                     faults>>
  BY DEF ReceiverInv, Discard, ChooseWake, Admit, Collect, WakeIneligible, TypeOK
<1>2. chat \in Plan /\ priority \in Plan /\ wake \in Plan /\ PlanTrue(NoPlan)
  BY <1>1, Typed, NoPlanFields DEF PlanTrue
<1>3. CASE Discard
  <2>a. failed \in BOOLEAN  BY <1>1 DEF TypeOK
  <2>1. /\ chat' = chat \/ (chat' = NoPlan /\ chat.status = "prepared")
        /\ UNCHANGED <<priority, wake, pub, claims>> /\ failed' \in BOOLEAN /\ pub.at = "top"
    BY <2>a, <1>3 DEF Discard
  <2>2. chat' \in Plan  BY <1>2, <2>1, NoPlanFields
  <2>3. TypeOK'
    BY <1>1, <2>1, <2>2 DEF TypeOK, roomVars, steerVars, sessionVars
  <2>4. PubTrue' /\ pub'.at # "clear"  BY <1>1, <2>1 DEF PubTrue, Sends, Ends
  <2>5. /\ chat'.step \subseteq (chat'.base + 1)..chat'.upto /\ chat'.upto <= since
        /\ \A m \in 1..chat'.upto : m \in chat'.step \/ Has(m)
    <3>1. CASE chat' = chat
      BY <1>1, <3>1 DEF PlansTrue, CoversTrue
    <3>2. CASE chat' = NoPlan
      <4>1. chat'.step = {} /\ chat'.base = 0 /\ chat'.upto = 0
        BY <3>2, NoPlanFields
      <4>2. since \in Nat
        BY <1>1, Typed
      <4>. QED  BY <4>1, <4>2
    <3>. QED  BY <2>1, <3>1, <3>2
  <2>. QED  BY <1>1, <1>2, <2>1, <2>3, <2>4, <2>5, UnsentKeeps DEF PlansTrue
<1>4. CASE ChooseWake
  <2>. DEFINE w == [NoPlan EXCEPT !.step = WakeInput, !.status = "prepared"]
  <2>1. /\ UNCHANGED <<chat, priority, failed>> /\ chat = NoPlan /\ pub.at = "choose"
        /\ \/ wake # NoPlan /\ wake' = wake /\ claims' = claims
           \/ wake = NoPlan /\ wake' = w /\ claims < Wakes /\ claims' = claims + 1
        /\ \/ pub' = [Top EXCEPT !.at = "publish", !.kind = "wake"]
           \/ pub' = [Top EXCEPT !.at = "prepare"]
    BY <1>4 DEF ChooseWake
  <2>2. w \in Plan /\ w.step = WakeInput /\ w.status = "prepared"
    <3>1. NoPlan \in Plan /\ WakeInput \in SUBSET (0..N)
      BY NoPlanFields, SizeAssumption DEF WakeInput
    <3>. QED  BY <3>1, PlanOf
  <2>. HIDE DEF w
  <2>3. wake' \in Plan /\ wake'.status # "none" /\ wake'.step \subseteq WakeInput
        /\ (wake' = wake \/ PlanTrue(wake'))
    BY <1>1, <1>2, <2>1, <2>2 DEF PlansTrue, PlanTrue
  <2>4. claims' \in 0..Wakes  BY <1>1, <2>1, SizeAssumption DEF TypeOK
  <2>5. /\ pub' \in Pub
        /\ \/ pub'.at = "publish" /\ pub'.kind = "wake"
           \/ pub'.at = "prepare" /\ pub'.kind = "none"
    BY <2>1, TopFields DEF Pub, Sends, Top
  <2>6. TypeOK'
    BY <1>1, <2>1, <2>3, <2>4, <2>5 DEF TypeOK, roomVars, steerVars, sessionVars
  <2>7. pub'.kind = "wake" => Current' = wake'  BY CurrentNext
  <2>8. PubTrue' /\ pub'.at # "clear"
    BY <2>1, <2>3, <2>5, <2>7 DEF PubTrue, Sends, Ends
  <2>. QED
    BY <1>1, <1>2, <2>1, <2>3, <2>6, <2>8, NoPlanFields, UnsentKeeps DEF PlansTrue, CoversTrue
<1>5. CASE Admit
  <2>. DEFINE p == [NoPlan EXCEPT !.step = {pub.msg}, !.status = "prepared"]
  <2>1. /\ UNCHANGED <<chat, wake, claims, failed>> /\ pub.at = "admit"
        /\ \/ priority # NoPlan /\ priority' = priority
           \/ priority = NoPlan /\ priority' = p
        /\ pub' = Top \/ pub' = [pub EXCEPT !.at = "publish"]
    BY <1>5 DEF Admit
  <2>2. pub.kind = "steer" /\ pub.msg \in Messages /\ pub.msg \in 0..N
    BY <1>1, <2>1, PubFields DEF PubTrue
  <2>3. p \in Plan /\ p.step = {pub.msg} /\ p.status = "prepared"
    <3>1. NoPlan \in Plan /\ {pub.msg} \in SUBSET (0..N)  BY <2>2, NoPlanFields
    <3>. QED  BY <3>1, PlanOf
  <2>. HIDE DEF p
  <2>4. priority' \in Plan /\ priority'.status # "none" /\ priority'.step \subseteq Messages
        /\ (priority' = priority \/ (priority = NoPlan /\ PlanTrue(priority')))
    BY <1>1, <1>2, <2>1, <2>2, <2>3 DEF PlansTrue, PlanTrue
  <2>5. /\ pub' \in Pub
        /\ \/ pub'.at = "publish" /\ pub'.kind = "steer"
           \/ pub'.at = "top" /\ pub'.kind = "none"
    BY <1>1, <2>1, <2>2, TopFields DEF Pub, Sends
  <2>6. TypeOK'
    BY <1>1, <2>1, <2>4, <2>5 DEF TypeOK, roomVars, steerVars, sessionVars
  <2>7. pub'.kind = "steer" => Current' = priority'  BY CurrentNext
  <2>8. PubTrue' /\ pub'.at # "clear"
    BY <2>4, <2>5, <2>7 DEF PubTrue, Sends, Ends
  <2>. QED
    BY <1>1, <1>2, <2>1, <2>4, <2>6, <2>8, NoPlanFields, UnsentKeeps DEF PlansTrue, CoversTrue
<1>6. CASE Collect
  <2>1. /\ UNCHANGED <<priority, wake, claims, failed>> /\ pub.at = "collect"
        /\ Selected # {} /\ pub' = Top
        /\ chat' = [base |-> cursor, upto |-> pub.msg, step |-> Selected, status |-> "prepared"]
    BY <1>6 DEF Collect
  <2>2. /\ chat = NoPlan /\ cursor <= pub.msg /\ pub.msg <= since
        /\ cursor \in Nat /\ since \in Nat /\ since <= N /\ pub.msg \in Nat
    BY <1>1, <2>1, Typed, PubFields, SizeAssumption DEF PubTrue
  <2>3. Selected \subseteq (cursor + 1)..pub.msg  BY DEF Selected, Unread
  <2>4. cursor \in 0..N /\ pub.msg \in 0..N /\ Selected \subseteq 0..N
    BY <2>2, <2>3, SizeAssumption
  <2>5. /\ chat' \in Plan /\ chat'.base = cursor /\ chat'.upto = pub.msg
        /\ chat'.step = Selected /\ chat'.status = "prepared"
    BY <2>1, <2>4 DEF Plan, Statuses
  <2>6. TypeOK'
    BY <1>1, <2>1, <2>5, TopFields DEF TypeOK, roomVars, steerVars, sessionVars
  <2>7. PubTrue' /\ pub'.at # "clear"  BY <2>1, TopFields DEF PubTrue, Sends, Ends
  <2>8. \A m \in 1..chat'.upto : m \in chat'.step \/ Has(m)
    <3>. SUFFICES ASSUME NEW m \in 1..pub.msg, m \notin Selected PROVE Has(m)
      BY <2>5
    <3>1. CASE m <= cursor
      <4>1. m \in 1..cursor  BY <2>2, <3>1
      <4>. QED  BY <1>1, <4>1 DEF CoversTrue
    <3>2. CASE m > cursor
      <4>1. m \in Unread /\ m \in Messages  BY <2>2, <3>2, SizeAssumption DEF Unread, Messages
      <4>. QED  BY <1>1, <4>1 DEF CoversTrue, Selected, Accepts
    <3>. QED  BY <2>2, <3>1, <3>2
  <2>9. PlanTrue(chat')  BY <2>5 DEF PlanTrue
  <2>. QED
    BY <1>1, <1>2, <2>1, <2>2, <2>3, <2>5, <2>6, <2>7, <2>8, <2>9, NoPlanFields, UnsentKeeps
    DEF PlansTrue
<1>7. CASE WakeIneligible
  <2>1. /\ UNCHANGED <<chat, priority, claims, failed>> /\ wake.status = "prepared"
        /\ wake' = NoPlan /\ pub' = Resumed /\ pub.kind = "wake"
    BY <1>7 DEF WakeIneligible
  <2>2. TypeOK'
    BY <1>1, <2>1, TopFields, NoPlanFields DEF TypeOK, roomVars, steerVars, sessionVars
  <2>3. chat = NoPlan  BY <1>1, <2>1 DEF PubTrue
  <2>4. PubTrue' /\ pub'.at # "clear"
    BY <2>1, <2>3, TopFields DEF PubTrue, Sends, Ends
  <2>. QED
    BY <1>1, <1>2, <2>1, <2>2, <2>4, NoPlanFields, UnsentKeeps DEF PlansTrue, CoversTrue
<1>. QED  BY <1>3, <1>4, <1>5, <1>6, <1>7

(* The session takes its pending input in, confirms it or gives it back.   *)
LEMMA SessionChanges ==
  ASSUME ReceiverInv, TypeOK', SessionTrue',
         UNCHANGED <<roomVars, since, cursor, steerVars, planVars, acq, pub>>,
         \A m \in 0..N : given[m] > 0 => given'[m] > 0
  PROVE  ReceiverInv'
<1>1. TypeOK /\ AcqTrue /\ PubTrue /\ PlansTrue /\ CoversTrue  BY DEF ReceiverInv
<1>2. UNCHANGED <<chat, priority, wake, controls>>  BY DEF planVars, steerVars
<1>3. Current' = Current  BY <1>2 DEF Current
<1>4. AcqTrue' /\ PubTrue'  BY <1>1, <1>2, <1>3 DEF AcqTrue, PubTrue, roomVars
<1>5. chat.step \subseteq 0..N /\ priority.step \subseteq 0..N /\ wake.step \subseteq 0..N
  BY <1>1, Typed
<1>6. PlansTrue'
  <2>1. PlanTrue(chat)' /\ PlanTrue(priority)' /\ PlanTrue(wake)'
    BY <1>1, <1>2, <1>5 DEF PlansTrue, PlanTrue
  <2>. QED  BY <1>1, <1>2, <2>1 DEF PlansTrue
<1>7. CoversTrue'
  <2>1. \A m \in 0..N : Has(m) => Has(m)'  BY DEF Has
  <2>2. \A m \in 1..cursor : m \in 0..N  BY <1>1, Typed, SizeAssumption
  <2>3. \A m \in 1..chat.upto : m \in 0..N  BY <1>1, Typed, SizeAssumption
  <2>4. \A m \in Messages : m \in 0..N  BY SizeAssumption DEF Messages
  <2>. QED  BY <1>1, <1>2, <2>1, <2>2, <2>3, <2>4 DEF CoversTrue
<1>. QED  BY <1>4, <1>6, <1>7 DEF ReceiverInv

LEMMA EnterKeeps ==
  ASSUME ReceiverInv, Enter
  PROVE  ReceiverInv'
<1>1. /\ TypeOK /\ SessionTrue /\ journal # {} /\ ~entered /\ entered' = TRUE
      /\ UNCHANGED <<roomVars, since, cursor, steerVars, planVars, journal, confirmed,
                     acq, pub, ordinary, synced, claims, failed, faults>>
      /\ given' = [m \in 0..N |-> IF m \in journal THEN given[m] + 1 ELSE given[m]]
  BY DEF ReceiverInv, Enter
<1>2. given \in [0..N -> Nat]  BY <1>1, Typed
<1>3. /\ given' \in [0..N -> Nat]
      /\ \A m \in 0..N : given[m] > 0 => given'[m] > 0
      /\ \A m \in 0..N : m \in journal => given'[m] > 0
  BY <1>1, <1>2
<1>4. TypeOK'
  BY <1>1, <1>3 DEF TypeOK, roomVars, steerVars, planVars
<1>5. UNCHANGED <<chat, priority, wake>> /\ Current' = Current
  BY <1>1 DEF Current, planVars
<1>6. journal \subseteq 0..N /\ \A s \in confirmed : s \subseteq 0..N
  BY <1>1 DEF TypeOK
<1>7. SessionTrue'
  <2>1. journal' # {} => Owns(chat)' \/ Owns(priority)' \/ Owns(wake)'
    BY <1>1, <1>5 DEF SessionTrue, Owns
  <2>2. \A m \in journal' : given'[m] > 0  BY <1>1, <1>3, <1>6
  <2>3. \A s \in confirmed' : /\ s # {} /\ \A m \in s : given'[m] > 0
                              /\ Keeps(chat', s) \/ Keeps(priority', s) \/ Keeps(wake', s)
    BY <1>1, <1>3, <1>5, <1>6 DEF SessionTrue, Keeps
  <2>. QED  BY <1>1, <1>5, <2>1, <2>2, <2>3 DEF SessionTrue
<1>. QED  BY <1>1, <1>3, <1>4, <1>7, SessionChanges

LEMMA ConfirmKeeps ==
  ASSUME ReceiverInv, Confirm
  PROVE  ReceiverInv'
<1>1. /\ TypeOK /\ SessionTrue /\ journal # {} /\ entered /\ pub.at \in Awaits
      /\ journal' = {} /\ entered' = FALSE /\ confirmed' = confirmed \cup {journal}
      /\ UNCHANGED <<roomVars, since, cursor, steerVars, planVars, given, acq, pub,
                     ordinary, synced, claims, failed, faults>>
  BY DEF ReceiverInv, Confirm
<1>2. TypeOK'
  <2>1. confirmed' \subseteq SUBSET (0..N)  BY <1>1 DEF TypeOK
  <2>. QED  BY <1>1, <2>1 DEF TypeOK, roomVars, steerVars, planVars
<1>3. UNCHANGED <<chat, priority, wake>>  BY <1>1 DEF planVars
<1>4. SessionTrue'
  <2>1. \A s \in confirmed' : /\ s # {} /\ \A m \in s : given'[m] > 0
                              /\ Keeps(chat', s) \/ Keeps(priority', s) \/ Keeps(wake', s)
    <3>1. /\ \A m \in journal : given[m] > 0
          /\ Keeps(chat, journal) \/ Keeps(priority, journal) \/ Keeps(wake, journal)
      BY <1>1 DEF SessionTrue, Owns, Keeps
    <3>. QED  BY <1>1, <1>3, <3>1 DEF SessionTrue
  <2>2. journal' \notin confirmed'  BY <1>1 DEF SessionTrue
  <2>3. pub'.at # "clear"  BY <1>1 DEF Awaits
  <2>. QED  BY <1>1, <2>1, <2>2, <2>3 DEF SessionTrue
<1>. QED  BY <1>1, <1>2, <1>4, SessionChanges

LEMMA GiveBackKeeps ==
  ASSUME ReceiverInv, GiveBack
  PROVE  ReceiverInv'
<1>1. /\ TypeOK /\ SessionTrue /\ ~entered /\ journal' = {} /\ Fault
      /\ UNCHANGED <<roomVars, since, cursor, steerVars, planVars, entered, confirmed,
                     given, acq, pub, ordinary, synced, claims, failed>>
  BY DEF ReceiverInv, GiveBack
<1>2. TypeOK'
  BY <1>1, FaultsCount DEF TypeOK, roomVars, steerVars, planVars
<1>3. UNCHANGED <<chat, priority, wake>> /\ Current' = Current
  BY <1>1 DEF Current, planVars
<1>4. SessionTrue'  BY <1>1, <1>3 DEF SessionTrue, Keeps
<1>. QED  BY <1>1, <1>2, <1>4, SessionChanges

LEMMA SubmitKeeps ==
  ASSUME ReceiverInv, Submit
  PROVE  ReceiverInv'
<1>1. /\ TypeOK /\ PubTrue /\ SessionTrue /\ pub.at = "deliver" /\ journal = {}
      /\ Current.step \notin confirmed /\ journal' = Current.step
      /\ UNCHANGED <<roomVars, since, cursor, steerVars, planVars, entered, confirmed,
                     given, acq, pub, ordinary, synced, claims, failed, faults>>
  BY DEF ReceiverInv, Submit
<1>2. Current \in Plan /\ Current.step \subseteq 0..N  BY <1>1, CurrentTyped, Typed
<1>3. TypeOK'
  BY <1>1, <1>2 DEF TypeOK, roomVars, steerVars, planVars
<1>4. UNCHANGED <<chat, priority, wake>> /\ Current' = Current
  BY <1>1 DEF Current, planVars
<1>5. SessionTrue'
  <2>1. Owns(chat)' \/ Owns(priority)' \/ Owns(wake)'
    BY <1>1, <1>4, CurrentIs DEF PubTrue, Owns
  <2>2. ~entered  BY <1>1 DEF SessionTrue
  <2>. QED  BY <1>1, <1>4, <2>1, <2>2 DEF SessionTrue, Keeps
<1>. QED  BY <1>1, <1>3, <1>5, SessionChanges

(* The confirmation of a plan goes before the plan does.                   *)
LEMMA ForgetKeeps ==
  ASSUME ReceiverInv, Forget
  PROVE  ReceiverInv'
<1>1. /\ TypeOK /\ AcqTrue /\ PubTrue /\ PlansTrue /\ SessionTrue /\ CoversTrue
      /\ pub.at = "forget" /\ confirmed' = confirmed \ {Current.step} /\ Go("clear")
      /\ UNCHANGED <<roomVars, since, cursor, steerVars, planVars, journal, entered, given,
                     acq, ordinary, synced, claims, failed, faults>>
  BY DEF ReceiverInv, Forget
<1>2. UNCHANGED <<chat, priority, wake, controls>>  BY <1>1 DEF planVars, steerVars
<1>3. pub' \in Pub /\ pub'.at = "clear" /\ pub'.kind = pub.kind
  BY <1>1, GoFields, Typed DEF Sends
<1>4. Current' = Current  BY <1>2, <1>3 DEF Current
<1>5. TypeOK'
  BY <1>1, <1>3 DEF TypeOK, roomVars, steerVars, planVars
<1>6. AcqTrue'  BY <1>1 DEF AcqTrue, roomVars
<1>7. PubTrue'  BY <1>1, <1>2, <1>3, <1>4 DEF PubTrue, Sends, Ends
<1>8. PlansTrue'  BY <1>1, <1>2 DEF PlansTrue, PlanTrue
<1>9. SessionTrue'
  <2>1. journal' # {} => Owns(chat)' \/ Owns(priority)' \/ Owns(wake)'
    BY <1>1, <1>2 DEF SessionTrue, Owns
  <2>. QED  BY <1>1, <1>2, <1>4, <2>1 DEF SessionTrue, Keeps
<1>10. CoversTrue'  BY <1>1, <1>2 DEF CoversTrue, Has
<1>. QED  BY <1>5, <1>6, <1>7, <1>8, <1>9, <1>10 DEF ReceiverInv

LEMMA ConflictKeeps ==
  ASSUME ReceiverInv, Conflict
  PROVE  ReceiverInv'
<1>1. /\ TypeOK /\ AcqTrue /\ PubTrue /\ PlansTrue /\ SessionTrue /\ CoversTrue
      /\ failed' = TRUE
      /\ UNCHANGED <<roomVars, since, cursor, steerVars, planVars, sessionVars, acq, pub,
                     ordinary, synced, claims, faults>>
  BY DEF ReceiverInv, Conflict
<1>2. TypeOK'  BY <1>1 DEF TypeOK, roomVars, steerVars, planVars, sessionVars
<1>3. AcqTrue'  BY <1>1 DEF AcqTrue, roomVars
<1>. QED  BY <1>1, <1>2, <1>3, Typed, Retreats DEF steerVars

(* Steps of publish that change the controls or the read position.         *)
LEMMA PositionChanges ==
  ASSUME ReceiverInv, TypeOK', PubTrue', pub'.at # "clear",
         UNCHANGED <<roomVars, since, planVars, sessionVars, acq>>,
         chat # NoPlan => cursor' \in {chat.base, chat.upto},
         \A m \in 1..cursor' : Has(m),
         \A m \in Messages : controls'[m] = "delivered" => Has(m)
  PROVE  ReceiverInv'
<1>1. AcqTrue /\ PlansTrue /\ SessionTrue /\ CoversTrue  BY DEF ReceiverInv
<1>2. UNCHANGED <<chat, priority, wake, journal, entered, confirmed, given>>
  BY DEF planVars, sessionVars
<1>3. AcqTrue'  BY <1>1 DEF AcqTrue, roomVars
<1>4. PlansTrue'
  <2>1. PlanTrue(chat)' /\ PlanTrue(priority)' /\ PlanTrue(wake)'
    BY <1>1, <1>2 DEF PlansTrue, PlanTrue
  <2>. QED  BY <1>1, <1>2, <2>1 DEF PlansTrue
<1>5. SessionTrue'  BY <1>1, <1>2 DEF SessionTrue, Owns, Keeps
<1>6. CoversTrue'  BY <1>1, <1>2 DEF CoversTrue, Has
<1>. QED  BY <1>3, <1>4, <1>5, <1>6 DEF ReceiverInv

LEMMA CheckpointFields ==
  ASSUME TypeOK, NEW batch, Checkpoint(batch)
  PROVE  /\ controls' \in [Messages -> Stages]
         /\ \A m \in Messages : controls'[m] = "delivered" => controls[m] = "delivered"
BY Typed DEF Checkpoint, Stages

LEMMA ControlsKeep ==
  ASSUME ReceiverInv, AdmitRefused \/ Skim \/ CheckpointControls
  PROVE  ReceiverInv'
<1>1. /\ TypeOK /\ PubTrue /\ PlansTrue /\ CoversTrue /\ pub \in Pub
      /\ UNCHANGED <<roomVars, since, cursor, paused, planVars, sessionVars, acq,
                     ordinary, synced, claims, failed, faults>>
      /\ UNCHANGED <<chat, priority, wake>>
  BY DEF ReceiverInv, AdmitRefused, Skim, CheckpointControls, TypeOK, planVars
<1>2. /\ controls' \in [Messages -> Stages]
      /\ \A m \in Messages : controls'[m] = "delivered" => controls[m] = "delivered"
  <2>1. CASE AdmitRefused
    BY <1>1, <2>1, Typed DEF AdmitRefused, Stages
  <2>2. CASE Skim  BY <1>1, <2>2, CheckpointFields DEF Skim
  <2>3. CASE CheckpointControls  BY <1>1, <2>3, CheckpointFields DEF CheckpointControls
  <2>. QED  BY <2>1, <2>2, <2>3
<1>3. pub' \in Pub /\ PubTrue' /\ pub'.at # "clear"
  <2>1. CASE pub' = Top  BY <2>1, TopFields DEF PubTrue, Sends, Ends
  <2>2. CASE CheckpointControls
    <3>1. pub.at = "checkpoint" /\ pub' \in Pub /\ pub'.at = "forget" /\ pub'.kind = pub.kind
      BY <1>1, <2>2, GoFields DEF CheckpointControls, Sends
    <3>2. Current' = Current  BY <1>1, <3>1 DEF Current
    <3>. QED  BY <1>1, <3>1, <3>2 DEF PubTrue, Sends, Ends
  <2>. QED  BY <2>1, <2>2 DEF AdmitRefused, Skim
<1>4. TypeOK'
  BY <1>1, <1>2, <1>3 DEF TypeOK, roomVars, planVars, sessionVars
<1>. QED  BY <1>1, <1>2, <1>3, <1>4, PositionChanges DEF PlansTrue, CoversTrue

LEMMA AcceptedKeeps ==
  ASSUME ReceiverInv, Accepted
  PROVE  ReceiverInv'
<1>1. /\ TypeOK /\ PubTrue /\ PlansTrue /\ CoversTrue /\ pub.at = "accepted"
      /\ UNCHANGED <<roomVars, since, cursor, paused, planVars, sessionVars, acq,
                     ordinary, synced, claims, failed, faults>>
      /\ UNCHANGED <<chat, priority, wake>> /\ Go("forget")
      /\ controls' = [m \in Messages |-> IF m \in Current.step /\ controls[m] # "none"
                                         THEN "delivered" ELSE controls[m]]
  BY DEF ReceiverInv, Accepted, planVars
<1>2. pub' \in Pub /\ pub'.at = "forget" /\ pub'.kind = pub.kind
  BY <1>1, GoFields, Typed DEF Sends
<1>3. Current' = Current  BY <1>1, <1>2 DEF Current
<1>4. PubTrue'  BY <1>1, <1>2, <1>3 DEF PubTrue, Sends, Ends
<1>5. controls' \in [Messages -> Stages]
  BY <1>1, Typed DEF Stages
<1>6. \A m \in Messages : controls'[m] = "delivered" => Has(m)
  <2>1. \A m \in Current.step : given[m] > 0
    <3>1. PlanTrue(Current)  BY <1>1, CurrentIs DEF PlansTrue
    <3>. QED  BY <1>1, <3>1 DEF PubTrue, PlanTrue, Ends
  <2>. QED  BY <1>1, <2>1 DEF CoversTrue, Has
<1>7. TypeOK'
  BY <1>1, <1>2, <1>5 DEF TypeOK, roomVars, planVars, sessionVars
<1>. QED  BY <1>1, <1>2, <1>4, <1>6, <1>7, PositionChanges DEF PlansTrue, CoversTrue

LEMMA MoveCursorKeeps ==
  ASSUME ReceiverInv, MoveCursor
  PROVE  ReceiverInv'
<1>1. /\ TypeOK /\ PubTrue /\ PlansTrue /\ CoversTrue /\ pub.at = "cursor"
      /\ UNCHANGED <<roomVars, since, steerVars, planVars, sessionVars, acq,
                     ordinary, synced, claims, failed, faults>>
      /\ UNCHANGED <<chat, priority, wake, controls>> /\ Go("checkpoint")
      /\ cursor' = chat.upto
  BY DEF ReceiverInv, MoveCursor, planVars, steerVars
<1>2. pub' \in Pub /\ pub'.at = "checkpoint" /\ pub'.kind = pub.kind
  BY <1>1, GoFields, Typed DEF Sends
<1>3. Current' = Current /\ Current = chat  BY <1>1, <1>2, CurrentIs DEF Current, PubTrue
<1>4. PubTrue'  BY <1>1, <1>2, <1>3 DEF PubTrue, Sends, Ends
<1>5. \A m \in 1..cursor' : Has(m)
  <2>1. chat.status = "delivered" \/ chat.step = {}  BY <1>1, <1>3 DEF PubTrue, Ends
  <2>2. \A m \in chat.step : given[m] > 0  BY <1>1, <2>1 DEF PlansTrue, PlanTrue
  <2>. QED  BY <1>1, <2>2 DEF CoversTrue, Has
<1>6. TypeOK'
  <2>1. cursor' \in 0..since
    <3>1. chat.upto \in 0..N /\ since \in Nat  BY <1>1, Typed
    <3>. QED  BY <1>1, <3>1, SizeAssumption DEF PlansTrue
  <2>. QED
    BY <1>1, <1>2, <2>1 DEF TypeOK, roomVars, steerVars, planVars, sessionVars
<1>. QED  BY <1>1, <1>2, <1>4, <1>5, <1>6, PositionChanges DEF CoversTrue

LEMMA CollectDeliveredKeeps ==
  ASSUME ReceiverInv, CollectDelivered
  PROVE  ReceiverInv'
<1>1. /\ TypeOK /\ PubTrue /\ PlansTrue /\ CoversTrue /\ pub.at = "collect" /\ pub \in Pub
      /\ UNCHANGED <<roomVars, since, steerVars, planVars, sessionVars, acq,
                     ordinary, synced, claims, failed, faults>>
      /\ UNCHANGED <<chat, priority, wake, controls>> /\ Selected = {}
      /\ cursor' = pub.msg /\ pub' = [pub EXCEPT !.at = "skim", !.msg = cursor]
  BY DEF ReceiverInv, CollectDelivered, planVars, steerVars, TypeOK
<1>2. /\ chat = NoPlan /\ cursor <= pub.msg /\ pub.msg <= since
      /\ cursor \in Nat /\ since \in Nat /\ since <= N /\ pub.msg \in Nat
  BY <1>1, Typed, PubFields, SizeAssumption DEF PubTrue
<1>3. pub' \in Pub /\ pub'.at = "skim" /\ pub'.kind = pub.kind
  <2>1. cursor \in 0..N  BY <1>2, SizeAssumption
  <2>. QED  BY <1>1, <2>1 DEF Pub
<1>4. PubTrue'  BY <1>1, <1>2, <1>3 DEF PubTrue, Sends, Ends
<1>5. \A m \in 1..cursor' : Has(m)
  <2>. SUFFICES ASSUME NEW m \in 1..pub.msg PROVE Has(m)  BY <1>1
  <2>1. CASE m <= cursor
    <3>1. m \in 1..cursor  BY <1>2, <2>1
    <3>. QED  BY <1>1, <3>1 DEF CoversTrue
  <2>2. CASE m > cursor
    <3>1. m \in Unread /\ m \in Messages  BY <1>2, <2>2, SizeAssumption DEF Unread, Messages
    <3>. QED  BY <1>1, <3>1 DEF CoversTrue, Selected, Accepts
  <2>. QED  BY <1>2, <2>1, <2>2
<1>6. TypeOK'
  <2>1. cursor' \in 0..since  BY <1>1, <1>2
  <2>. QED
    BY <1>1, <1>3, <2>1 DEF TypeOK, roomVars, steerVars, planVars, sessionVars
<1>. QED  BY <1>1, <1>2, <1>3, <1>4, <1>5, <1>6, PositionChanges DEF CoversTrue

LEMMA ReceiverInit ==
  ASSUME Init
  PROVE  ReceiverInv
<1>1. TypeOK
  <2>1. /\ pub \in Pub /\ acq \in Acq /\ {chat, priority, wake} \subseteq Plan
    BY TopFields, AcqFields, NoPlanFields DEF Init
  <2>2. posted \in 0..N /\ since \in 0..posted /\ cursor \in 0..since
    BY SizeAssumption DEF Init
  <2>3. /\ controls \in [Messages -> Stages] /\ given \in [0..N -> Nat]
        /\ journal \subseteq 0..N /\ confirmed \subseteq SUBSET (0..N) /\ revoked \subseteq Messages
        /\ {active, paused, entered, ordinary, synced, failed} \subseteq BOOLEAN
    BY DEF Init, Stages
  <2>4. claims \in 0..Wakes /\ faults \in 0..MaxFaults  BY SizeAssumption DEF Init
  <2>. QED  BY <2>1, <2>2, <2>3, <2>4 DEF TypeOK
<1>2. AcqTrue /\ PubTrue  BY TopFields, AcqFields DEF Init, AcqTrue, PubTrue, Sends, Ends
<1>3. PlansTrue  BY NoPlanFields DEF Init, PlansTrue, PlanTrue
<1>4. SessionTrue  BY TopFields DEF Init, SessionTrue
<1>5. CoversTrue  BY NoPlanFields DEF Init, CoversTrue
<1>. QED  BY <1>1, <1>2, <1>3, <1>4, <1>5 DEF ReceiverInv

LEMMA StutterKeeps ==
  ASSUME ReceiverInv, UNCHANGED vars
  PROVE  ReceiverInv'
<1>1. /\ TypeOK /\ AcqTrue
      /\ UNCHANGED <<roomVars, since, cursor, steerVars, planVars, sessionVars, acq, pub,
                     ordinary, synced, claims, failed, faults>>
  BY DEF ReceiverInv, vars
<1>2. TypeOK'  BY <1>1 DEF TypeOK, roomVars, steerVars, planVars, sessionVars
<1>3. AcqTrue'  BY <1>1 DEF AcqTrue, roomVars
<1>. QED  BY <1>1, <1>2, <1>3, Typed, Retreats DEF steerVars

(* Every step of the listener keeps the invariant.                         *)
LEMMA ReceiverStep ==
  ASSUME ReceiverInv, [Next]_vars
  PROVE  ReceiverInv'
<1>1. CASE Publish
  BY <1>1, PlansComeAndGo, CycleKeeps, ControlsKeep, CollectDeliveredKeeps, SendMovesKeep,
     SpliceKeeps, PublishingKeeps, SubmitKeeps, ConflictKeeps, ConfirmKeeps, AcceptedKeeps,
     MoveCursorKeeps, ForgetKeeps, ClearKeeps
  DEF Publish
<1>2. CASE Room \/ Enter \/ Acquire \/ Refresh \/ GiveBack \/ WakeIneligible
           \/ SendFails \/ AcquireFails \/ Crash
  BY <1>2, RoomKeeps, EnterKeeps, AcquireKeeps, GiveBackKeeps, PlansComeAndGo, InterruptionsKeep
<1>3. CASE UNCHANGED vars  BY <1>3, StutterKeeps
<1>. QED  BY <1>1, <1>2, <1>3 DEF Next

(* The inductive invariant of the listener.                                *)
THEOREM ReceiverInvariant == Spec => []ReceiverInv
<1>1. Init => ReceiverInv  BY ReceiverInit
<1>2. ReceiverInv /\ [Next]_vars => ReceiverInv'  BY ReceiverStep
<1>. QED  BY <1>1, <1>2, PTL DEF Spec

(* The read position covers only what the native history holds, whatever   *)
(* crashes, pauses, cancelled sends and inputs given back there are.       *)
THEOREM PositionCoversGiven == Spec => []CursorCovers
<1>1. ReceiverInv => CursorCovers  BY DEF ReceiverInv, CoversTrue, Has, CursorCovers
<1>. QED  BY <1>1, ReceiverInvariant, PTL

(* A steering message is reported accepted only if the history holds it.   *)
THEOREM AcceptedWasGiven == Spec => []AcceptedIsGiven
<1>1. ReceiverInv => AcceptedIsGiven  BY DEF ReceiverInv, CoversTrue, Has, AcceptedIsGiven
<1>. QED  BY <1>1, ReceiverInvariant, PTL

(* Once no plan is left, the session holds neither an input nor a          *)
(* confirmation.                                                           *)
THEOREM SessionEmpties == Spec => []SessionDrained
<1>1. ReceiverInv => SessionDrained
  BY NoPlanFields DEF ReceiverInv, SessionTrue, Owns, Keeps, SessionDrained
<1>. QED  BY <1>1, ReceiverInvariant, PTL

-----------------------------------------------------------------------------
(* Steering goes ahead of the backlog.                                     *)

Open(m) == controls[m] \in {"interrupting", "interrupted"}

(* An interruption under way belongs to the pass, ahead of the position;   *)
(* ordinary work waits for it, and only with its token live is unread chat *)
(* collected.                                                              *)
AheadTrue ==
  /\ active
  /\ \A m \in Messages : controls[m] = "interrupting" =>
       since < m /\ ((acq.at = "interrupt" /\ acq.msg = m) \/ acq.at = "start")
  /\ \A m \in Messages : Open(m) => cursor < m /\ chat.upto < m
  /\ acq.at \in {"capture", "interrupt"} => ~ordinary
  /\ acq.at = "start" => pub.at = "top"
  /\ pub.at = "collect" => ordinary
  /\ pub.at = "admit" => pub.msg > cursor /\ pub.msg > chat.upto

(* A step of publish.                                                      *)
LEMMA AheadStays ==
  ASSUME AheadTrue, UNCHANGED <<active, since, acq, ordinary>>,
         \A m \in Messages : Open(m)' => controls'[m] = controls[m],
         \A m \in Messages : Open(m) => cursor' < m /\ chat'.upto < m,
         acq.at = "start" => pub'.at = "top",
         pub'.at = "collect" => ordinary,
         pub'.at = "admit" => pub'.msg > cursor' /\ pub'.msg > chat'.upto
  PROVE  AheadTrue'
<1>1. \A m \in Messages : Open(m)' => Open(m)  BY DEF Open
<1>. QED  BY <1>1 DEF AheadTrue, Open

LEMMA PutUpto ==
  ASSUME TypeOK, NEW q, Put(q),
         q = NoPlan \/ q.upto = Current.upto
  PROVE  chat'.upto \in {chat.upto, 0} /\ (chat' = chat \/ pub.kind = "chat")
BY CurrentIs, NoPlanFields DEF Put

LEMMA MovesAhead ==
  ASSUME ReceiverInv, AheadTrue, UNCHANGED <<active, since, acq, ordinary, controls, cursor>>,
         chat'.upto \in {chat.upto, 0},
         pub.at # "top" \/ pub'.at = "top" \/ acq.at = "idle",
         pub'.at \notin {"collect", "admit"}
  PROVE  AheadTrue'
<1>1. \A m \in Messages : Open(m) => cursor' < m /\ chat'.upto < m
  BY SizeAssumption DEF AheadTrue, Messages
<1>. QED  BY <1>1, AheadStays DEF AheadTrue

LEMMA PublishAhead ==
  ASSUME ReceiverInv, AheadTrue, Publish \/ WakeIneligible \/ SendFails
  PROVE  AheadTrue'
<1>1. TypeOK /\ PubTrue /\ PlansTrue /\ pub \in Pub /\ Current \in Plan /\ active
  BY CurrentTyped DEF ReceiverInv, TypeOK, AheadTrue
<1>2. UNCHANGED <<active, since, acq, ordinary>>
  BY DEF Publish, WakeIneligible, SendFails, Discard, BeginCycle, ChooseSteering, ChooseChat,
         ChooseWake, ChoosePrepare, ChoosePaused, Admit, AdmitRefused, StartCollect, Collect,
         CollectNothing, CollectDelivered, Skim, PublishDone, Splice, PublishNew, PublishAgain,
         RecoverReceived, RecoverAbsent, Settled, SavePublishing, Submit, Delivered, Conflict,
         Confirm, Accepted, MoveCursor, CheckpointControls, Forget, Clear, roomVars
<1>3. CASE BeginCycle \/ ChooseChat \/ ChoosePrepare \/ ChoosePaused
  <2>1. UNCHANGED <<controls, cursor, chat>> /\ (pub.at # "top" \/ acq.at = "idle")
    BY <1>3 DEF BeginCycle, ChooseChat, ChoosePrepare, ChoosePaused, steerVars, planVars
  <2>2. pub'.at \notin {"collect", "admit"}
    <3>1. CASE ChoosePrepare  BY <1>1, <3>1, GoFields DEF ChoosePrepare
    <3>2. CASE BeginCycle
      <4>1. \/ pub' = [Top EXCEPT !.at = "recover", !.kind = "resume"]
            \/ pub' = [Top EXCEPT !.at = "accepted", !.kind = "resume"]
            \/ pub' = [Top EXCEPT !.at = "choose"]
        BY <3>2 DEF BeginCycle
      <4>. QED  BY <4>1 DEF Top
    <3>3. CASE ChooseChat \/ ChoosePaused
      <4>1. pub' = Top \/ pub' = [Top EXCEPT !.at = "publish", !.kind = "chat"]
        BY <3>3 DEF ChooseChat, ChoosePaused
      <4>2. CASE pub' = Top  BY <4>2, TopFields
      <4>3. CASE pub' = [Top EXCEPT !.at = "publish", !.kind = "chat"]  BY <4>3 DEF Top
      <4>. QED  BY <4>1, <4>2, <4>3
    <3>. QED  BY <1>3, <3>1, <3>2, <3>3
  <2>. QED  BY <1>2, <2>1, <2>2, MovesAhead
<1>4. CASE PublishDone \/ PublishNew \/ PublishAgain \/ Settled \/ Forget
  <2>1. /\ UNCHANGED <<controls, cursor, chat>> /\ pub.at # "top"
        /\ \E p \in Sends : Go(p)
    BY <1>4 DEF PublishDone, PublishNew, PublishAgain, Settled, Forget, steerVars, planVars, Sends
  <2>2. pub'.at \notin {"collect", "admit"}  BY <1>1, <2>1, GoFields DEF Sends
  <2>. QED  BY <1>2, <2>1, <2>2, MovesAhead
<1>5. CASE CollectNothing \/ SendFails \/ ChooseWake \/ Admit \/ WakeIneligible
  <2>1. UNCHANGED <<controls, cursor, chat>> /\ pub.at # "top"
    BY <1>5 DEF CollectNothing, SendFails, ChooseWake, Admit, WakeIneligible, steerVars,
                planVars, Sends
  <2>2. pub'.at \notin {"collect", "admit"}
    BY <1>1, <1>5, TopFields
    DEF CollectNothing, SendFails, ChooseWake, Admit, WakeIneligible, Top, Pub
  <2>. QED  BY <1>2, <2>1, <2>2, MovesAhead
<1>6. CASE Submit \/ Conflict \/ Confirm
  <2>1. UNCHANGED <<controls, cursor, chat, pub>> /\ pub.at \in Sends
    BY <1>6 DEF Submit, Conflict, Confirm, steerVars, planVars, Sends, Awaits
  <2>. QED  BY <1>2, <2>1, MovesAhead DEF Sends
<1>7. CASE Discard
  BY <1>1, <1>7 DEF Discard
<1>8. CASE ChooseSteering
  <2>1. /\ UNCHANGED <<controls, cursor, chat>> /\ pub.at = "choose"
        /\ pub'.at = "admit" /\ pub'.msg = Urgent /\ Urgent \in Messages /\ Open(Urgent)
    BY <1>8, UrgentIs DEF ChooseSteering, steerVars, planVars, Open
  <2>2. Urgent > cursor /\ Urgent > chat.upto
    BY <1>1, <2>1, Typed, SizeAssumption DEF AheadTrue, Messages
  <2>. QED  BY <1>2, <2>1, <2>2, AheadStays DEF AheadTrue
<1>9. CASE StartCollect
  <2>1. /\ UNCHANGED <<controls, cursor, chat>> /\ pub.at = "prepare"
        /\ pub'.at \in {"top", "collect"} /\ (pub'.at = "collect" => ordinary)
    BY <1>9 DEF StartCollect, steerVars, planVars, Top
  <2>. QED  BY <1>2, <2>1, AheadStays DEF AheadTrue
<1>10. CASE Collect \/ CollectDelivered
  <2>1. /\ pub.at = "collect" /\ Urgent = 0 /\ controls' = controls
        /\ cursor' \in {cursor, pub.msg} /\ chat'.upto \in {chat.upto, pub.msg}
        /\ pub'.at \in {"top", "skim"}
    <3>1. CASE Collect  BY <1>1, <3>1 DEF Collect, steerVars, Top
    <3>2. CASE CollectDelivered
      BY <1>1, <3>2 DEF CollectDelivered, steerVars, planVars, Pub
    <3>. QED  BY <1>10, <3>1, <3>2
  <2>2. acq.at # "start" /\ ordinary  BY <2>1 DEF AheadTrue
  <2>3. \A m \in Messages : ~Open(m)
    BY <2>1, <2>2, UrgentIs DEF Open, AheadTrue
  <2>. QED  BY <1>2, <2>1, <2>2, <2>3, AheadStays
<1>11. CASE MoveCursor
  <2>1. UNCHANGED <<controls, chat>> /\ cursor' = chat.upto /\ pub.at = "cursor"
        /\ pub'.at = "checkpoint"
    BY <1>1, <1>11 DEF MoveCursor, steerVars, planVars, Go, Pub
  <2>. QED  BY <1>2, <2>1, AheadStays DEF AheadTrue
<1>12. CASE Skim \/ CheckpointControls \/ Accepted \/ AdmitRefused
  <2>1. /\ UNCHANGED <<cursor, chat>> /\ pub.at # "top" /\ pub'.at \in {"top", "forget"}
        /\ \A m \in Messages : Open(m)' => controls'[m] = controls[m]
    <3>1. controls \in [Messages -> Stages]  BY <1>1, Typed
    <3>2. UNCHANGED <<cursor, chat>> /\ pub.at # "top" /\ pub'.at \in {"top", "forget"}
      BY <1>1, <1>12 DEF Skim, CheckpointControls, Accepted, AdmitRefused, planVars, Go, Top, Pub
    <3>3. \A m \in Messages : Open(m)' => controls'[m] = controls[m]
      BY <1>12, <3>1
      DEF Skim, CheckpointControls, Accepted, AdmitRefused, Checkpoint, Open, Stages
    <3>. QED  BY <3>2, <3>3
  <2>. QED  BY <1>2, <2>1, AheadStays DEF AheadTrue
<1>13. CASE Splice \/ RecoverReceived \/ RecoverAbsent \/ SavePublishing \/ Delivered \/ Clear
  <2>1. /\ UNCHANGED <<controls, cursor>> /\ pub.at # "top"
        /\ \E q : Put(q) /\ (q = NoPlan \/ q.upto = Current.upto)
    <3>1. UNCHANGED <<controls, cursor>> /\ pub.at # "top"
      BY <1>13 DEF Splice, RecoverReceived, RecoverAbsent, SavePublishing, Delivered, Clear,
         steerVars
    <3>2. \E q : Put(q) /\ (q = NoPlan \/ q.upto = Current.upto)
      <4>1. CASE Clear  BY <4>1 DEF Clear
      <4>2. CASE Splice
        <5>1. Put([Current EXCEPT !.step = Remaining, !.status = "prepared"])
          BY <4>2 DEF Splice
        <5>2. [Current EXCEPT !.step = Remaining, !.status = "prepared"].upto = Current.upto
          BY <1>1 DEF Plan
        <5>. QED  BY <5>1, <5>2
      <4>3. CASE RecoverReceived \/ RecoverAbsent \/ SavePublishing \/ Delivered
        <5>1. PICK st : Put([Current EXCEPT !.status = st])
          BY <4>3 DEF RecoverReceived, RecoverAbsent, SavePublishing, Delivered
        <5>2. [Current EXCEPT !.status = st].upto = Current.upto
          BY <1>1 DEF Plan
        <5>. QED  BY <5>1, <5>2
      <4>. QED  BY <1>13, <4>1, <4>2, <4>3
    <3>. QED  BY <3>1, <3>2
  <2>2. chat'.upto \in {chat.upto, 0}  BY <1>1, <2>1, PutUpto
  <2>3. pub'.at \notin {"collect", "admit"}
    BY <1>1, <1>13, TopFields
    DEF Splice, RecoverReceived, RecoverAbsent, SavePublishing, Delivered, Clear, Go, Pub
  <2>. QED  BY <1>2, <2>1, <2>2, <2>3, MovesAhead
<1>. QED
  BY <1>3, <1>4, <1>5, <1>6, <1>7, <1>8, <1>9, <1>10, <1>11, <1>12, <1>13 DEF Publish

LEMMA AcquireAhead ==
  ASSUME ReceiverInv, AheadTrue, Acquire \/ Refresh \/ AcquireFails
  PROVE  AheadTrue'
<1>1. /\ TypeOK /\ AcqTrue /\ PubTrue /\ PlansTrue /\ active /\ UNCHANGED <<active, cursor, chat>>
      /\ pub \in Pub /\ acq \in Acq /\ controls \in [Messages -> Stages]
  BY DEF ReceiverInv, TypeOK, AheadTrue, Acquire, Refresh, AcquireFails, Initialize, Sync,
     Pass, Preempt,
         Capture, InterruptTurn, CancelDelivery, Synchronized, roomVars, planVars
<1>2. \A m \in Messages : m > since => cursor < m /\ chat.upto < m
  BY <1>1, Typed, SizeAssumption DEF PlansTrue, Messages
<1>3. ASSUME pub' = pub \/ pub' = Top \/ pub' = Cancelled, ordinary' \/ pub'.at # "collect"
      PROVE  /\ pub'.at = "collect" => ordinary'
             /\ pub'.at = "admit" => pub'.msg > cursor /\ pub'.msg > chat.upto
  BY <1>3, TopFields DEF Cancelled, AheadTrue
<1>4. CASE Initialize
  <2>1. /\ acq.at = "start" /\ acq'.at = "idle" /\ UNCHANGED <<since, pub, ordinary>>
        /\ controls' = [m \in Messages |->
                          IF controls[m] = "interrupting"
                          THEN IF m \in Stops THEN "delivered" ELSE "interrupted"
                          ELSE controls[m]]
    BY <1>4, AcqFields DEF Initialize
  <2>2. \A m \in Messages : controls'[m] # "interrupting"  BY <2>1
  <2>3. \A m \in Messages : Open(m)' => cursor < m /\ chat.upto < m
    BY <1>2, <2>1, SizeAssumption DEF AheadTrue, Open, Messages
  <2>. QED  BY <1>1, <2>1, <2>2, <2>3 DEF AheadTrue
<1>5. CASE Sync \/ Pass \/ AcquireFails
  <2>1. /\ acq.at \notin {"start", "interrupt"} \/ \A m \in Messages : controls[m] # "interrupting"
        /\ acq.at # "start" /\ acq'.at \in {"idle", "sync"}
        /\ UNCHANGED <<since, pub, ordinary, controls>>
    BY <1>1, <1>5, AcqFields DEF Sync, Pass, AcquireFails, steerVars, Acq
  <2>2. \A m \in Messages : controls[m] # "interrupting"  BY <2>1 DEF AheadTrue
  <2>. QED  BY <1>1, <2>1, <2>2 DEF AheadTrue, Open
<1>6. CASE Preempt
  <2>1. /\ acq.at = "sync" /\ acq'.at = "capture" /\ UNCHANGED <<since, controls>>
        /\ ordinary' = FALSE
        /\ pub' = IF pub.at \in {"collect", "skim"} THEN Top
                  ELSE IF pub.kind \in {"chat", "wake"} THEN Cancelled ELSE pub
    BY <1>1, <1>6 DEF Preempt, steerVars, Acq
  <2>2. pub'.at # "collect" /\ (pub' = pub \/ pub' = Top \/ pub' = Cancelled)
    BY <2>1, TopFields DEF Cancelled, Sends
  <2>3. \A m \in Messages : controls[m] # "interrupting"  BY <2>1 DEF AheadTrue
  <2>. QED  BY <1>1, <1>3, <2>1, <2>2, <2>3 DEF AheadTrue, Open
<1>7. CASE Capture
  <2>1. /\ acq.at = "capture" /\ UNCHANGED <<since, pub, ordinary>> /\ acq'.msg = acq.msg
        /\ \/ acq'.at = "cancel" /\ controls' = controls
           \/ /\ acq'.at = "interrupt"
              /\ controls' = [m \in Messages |->
                                CASE m = acq.msg -> "interrupting"
                                  [] controls[m] = "interrupted" -> "superseded"
                                  [] OTHER -> controls[m]]
    BY <1>1, <1>7 DEF Capture, Acq
  <2>2. \A m \in Messages : controls[m] # "interrupting"  BY <2>1 DEF AheadTrue
  <2>3. \A m \in Messages : controls'[m] = "interrupting" => acq'.at = "interrupt" /\ acq.msg = m
    BY <2>1, <2>2
  <2>4. \A m \in Messages : Open(m)' => m = acq.msg \/ Open(m)
    BY <2>1, <2>2 DEF Open
  <2>5. since < acq.msg  BY <1>1, <2>1 DEF AcqTrue
  <2>6. \A m \in Messages : Open(m)' => cursor < m /\ chat.upto < m
    BY <1>2, <2>4, <2>5 DEF AheadTrue
  <2>. QED  BY <1>1, <2>1, <2>3, <2>5, <2>6 DEF AheadTrue
<1>8. CASE InterruptTurn
  <2>1. /\ acq.at = "interrupt" /\ UNCHANGED <<since, pub, ordinary>> /\ acq'.at = "cancel"
        /\ controls' = [controls EXCEPT ![acq.msg] =
                          IF acq.msg \in Stops THEN "delivered" ELSE "interrupted"]
    BY <1>1, <1>8 DEF InterruptTurn, Acq
  <2>2. \A m \in Messages : controls[m] = "interrupting" => acq.msg = m
    BY <2>1 DEF AheadTrue
  <2>3. \A m \in Messages : controls'[m] # "interrupting"  BY <1>1, <2>1, <2>2
  <2>4. \A m \in Messages : Open(m)' => m = acq.msg \/ Open(m)
    BY <1>1, <2>1 DEF Open
  <2>5. since < acq.msg  BY <1>1, <2>1 DEF AcqTrue
  <2>6. \A m \in Messages : Open(m)' => cursor < m /\ chat.upto < m
    BY <1>2, <2>4, <2>5 DEF AheadTrue
  <2>. QED  BY <1>1, <2>1, <2>3, <2>6 DEF AheadTrue
<1>9. CASE CancelDelivery \/ Refresh
  <2>1. /\ acq.at \in {"cancel", "sync"} /\ acq'.at = "sync"
        /\ UNCHANGED <<since, controls, ordinary>> /\ pub' = Cancelled
    BY <1>1, <1>9 DEF CancelDelivery, Refresh, steerVars, Acq
  <2>2. \A m \in Messages : controls[m] # "interrupting"  BY <2>1 DEF AheadTrue
  <2>3. pub'.at = "collect" => ordinary'
    BY <2>1, TopFields DEF Cancelled, AheadTrue
  <2>. QED  BY <1>1, <1>3, <2>1, <2>2, <2>3 DEF AheadTrue, Open
<1>10. CASE Synchronized
  <2>1. /\ acq.at = "sync" /\ acq'.at = "idle"
        /\ UNCHANGED <<controls, pub>> /\ ordinary' = TRUE
    BY <1>1, <1>10, AcqFields DEF Synchronized, steerVars, Acq
  <2>2. \A m \in Messages : controls[m] # "interrupting"  BY <2>1 DEF AheadTrue
  <2>. QED  BY <1>1, <2>1, <2>2 DEF AheadTrue, Open
<1>. QED
  BY <1>4, <1>5, <1>6, <1>7, <1>8, <1>9, <1>10 DEF Acquire

LEMMA OthersAhead ==
  ASSUME ReceiverInv, AheadTrue, ~MayPause, Room \/ Enter \/ GiveBack \/ Crash \/ UNCHANGED vars
  PROVE  AheadTrue'
<1>1. /\ UNCHANGED <<active, since, cursor, controls, chat>>
      /\ \/ UNCHANGED <<acq, pub, ordinary>>
         \/ acq'.at = "start" /\ pub'.at = "top" /\ ordinary'
  BY TopFields, AcqFields
  DEF Room, Post, Revoke, Pause, Unpause, Enter, GiveBack, Crash, vars, roomVars, steerVars,
      planVars, AheadTrue
<1>2. CASE acq'.at = "start" /\ pub'.at = "top" /\ ordinary'
  BY <1>1, <1>2 DEF AheadTrue, Open
<1>3. CASE UNCHANGED <<acq, pub, ordinary>>
  BY <1>1, <1>3 DEF AheadTrue, Open
<1>. QED  BY <1>1, <1>2, <1>3

LEMMA AheadStep ==
  ASSUME ReceiverInv, AheadTrue, ~MayPause, [Next]_vars
  PROVE  AheadTrue'
BY PublishAhead, AcquireAhead, OthersAhead DEF Next

LEMMA AheadInit ==
  ASSUME Init
  PROVE  AheadTrue
BY TopFields, AcqFields, NoPlanFields DEF Init, AheadTrue, Open

(* As long as the controller does not pause delivery, a mention whose turn *)
(* was captured is not handed to the agent with unread chat.               *)
THEOREM SteeringIsAhead == ~MayPause => (Spec => []AheadOfBacklog)
<1>. SUFFICES ASSUME ~MayPause PROVE Spec => []AheadOfBacklog  OBVIOUS
<1>1. Init => AheadTrue  BY AheadInit
<1>2. ReceiverInv /\ AheadTrue /\ [Next]_vars => AheadTrue'  BY AheadStep
<1>3. ReceiverInv /\ AheadTrue => AheadOfBacklog
  <2>. SUFFICES ASSUME ReceiverInv, AheadTrue, NEW m \in chat.step PROVE ~Open(m)
    BY DEF AheadOfBacklog, Open
  <2>1. m \in (chat.base + 1)..chat.upto  BY DEF ReceiverInv, PlansTrue
  <2>2. /\ m \in Messages /\ m <= chat.upto
    BY <2>1, Typed, SizeAssumption DEF ReceiverInv, Messages
  <2>. QED  BY <2>2, Typed, SizeAssumption DEF AheadTrue, Messages, ReceiverInv
<1>. QED  BY <1>1, <1>2, <1>3, ReceiverInvariant, PTL DEF Spec

-----------------------------------------------------------------------------
(* Where nobody disturbs the steering, every message is given once.        *)

SomeOpen == \E o \in Messages : Open(o)
Live(m) == controls[m] \in {"interrupted", "superseded"} /\ m > cursor /\ m > chat.upto
Finished(m) == controls[m] = "delivered" \/ (controls[m] = "none" /\ m <= cursor)

(* The history holds the input of a plan that is Taken, and nothing of one *)
(* that is Fresh.                                                          *)
Busy(p) == p.status \in {"prepared", "publishing"}
Sent(p) == p.step \in confirmed \/ (journal = p.step /\ entered)
Taken(p) == p.status = "delivered" \/ (p.status = "publishing" /\ Sent(p))
Fresh(p) == Busy(p) /\ ~Taken(p) => \A m \in p.step : given[m] = 0

(* A message is captured once.                                             *)
ControlsTrue ==
  /\ revoked = {} /\ ~paused
  /\ acq.at = "capture" => controls[acq.msg] = "none"
  /\ acq.at = "interrupt" => controls[acq.msg] = "interrupting"

(* Unread chat is sent while no steering waits for its input.              *)
SendTrue ==
  /\ pub.at = "admit" => Live(pub.msg) /\ SomeOpen
  /\ pub.kind = "chat" => pub.at \in Sends /\ ordinary /\ ~SomeOpen
  /\ pub.at = "accepted" => pub.kind \in {"steer", "resume"}
  /\ pub.at \in {"settle", "submit"} => Busy(Current)
  /\ pub.kind = "chat" /\ pub.at \in {"checkpoint", "forget", "clear"} => cursor = chat.upto

(* A steering plan carries one mention, which waits for its input or is    *)
(* done with.                                                              *)
Finishing == pub.kind \in {"steer", "resume"} /\ pub.at \in {"forget", "clear"}
Steers(m) ==
  /\ priority.step = {m}
  /\ (Live(m) /\ SomeOpen) \/ (priority.status = "delivered" /\ Finished(m))
  /\ Finishing => Finished(m)
SteersTrue == priority # NoPlan => \E m \in Messages : Steers(m)

(* What was given is passed over, reported accepted or in a plan that the  *)
(* session has taken.                                                      *)
Held(m) == \/ m <= cursor \/ controls[m] = "delivered"
           \/ m \in chat.step /\ Taken(chat)
           \/ m \in priority.step /\ Taken(priority)
GivenTrue ==
  /\ chat.step \cap priority.step = {}
  /\ Fresh(chat) /\ Fresh(priority)
  /\ \A m \in Messages : given[m] <= 1 /\ (given[m] > 0 => Held(m))
WakeTrue ==
  /\ given[0] <= claims
  /\ wake # NoPlan => wake.step = WakeInput
  /\ Busy(wake) /\ ~Taken(wake) => given[0] < claims

OnceTrue == ControlsTrue /\ SendTrue /\ SteersTrue /\ GivenTrue /\ WakeTrue

LEMMA NoneOpen ==
  ASSUME AheadTrue, Urgent = 0, acq.at # "start", ordinary
  PROVE  ~SomeOpen
BY UrgentIs DEF AheadTrue, Open, SomeOpen

LEMMA SteersStay ==
  ASSUME SteersTrue, priority' = priority,
         \A m \in Messages : Live(m) /\ SomeOpen => Live(m)' /\ SomeOpen',
         \A m \in Messages : Finished(m) => Finished(m)',
         Finishing' => Finishing
  PROVE  SteersTrue'
BY DEF SteersTrue, Steers

LEMMA GivenStays ==
  ASSUME GivenTrue, TypeOK, TypeOK',
         UNCHANGED <<chat, priority, given, journal, entered, confirmed>>,
         cursor <= cursor',
         \A m \in Messages : controls[m] = "delivered" => controls'[m] = "delivered" \/ m <= cursor'
  PROVE  GivenTrue'
<1>1. /\ Fresh(chat)' /\ Fresh(priority)'
      /\ Taken(chat)' = Taken(chat) /\ Taken(priority)' = Taken(priority)
  BY DEF GivenTrue, Fresh, Busy, Taken, Sent
<1>2. cursor \in Nat /\ cursor' \in Nat
  BY SizeAssumption DEF TypeOK
<1>3. \A m \in Messages : Held(m) => Held(m)'
  BY <1>1, <1>2, SizeAssumption DEF Held, Messages
<1>. QED  BY <1>1, <1>3 DEF GivenTrue

LEMMA WakeStays ==
  ASSUME WakeTrue, UNCHANGED <<wake, given, journal, entered, confirmed, claims>>
  PROVE  WakeTrue'
BY DEF WakeTrue, Busy, Taken, Sent

(* A step that changes neither the plans, the session, the controls nor    *)
(* the position.                                                           *)
LEMMA MovesOnce ==
  ASSUME OnceTrue, ControlsTrue', SendTrue', TypeOK, TypeOK',
         UNCHANGED <<planVars, sessionVars, claims, cursor, controls>>,
         Finishing' => Finishing
  PROVE  OnceTrue'
<1>1. UNCHANGED <<chat, priority, wake, given, journal, entered, confirmed>>
  BY DEF planVars, sessionVars
<1>2. SteersTrue'  BY <1>1, SteersStay DEF OnceTrue, Live, SomeOpen, Open, Finished
<1>3. cursor <= cursor'  BY SizeAssumption DEF TypeOK
<1>4. GivenTrue' /\ WakeTrue'  BY <1>1, <1>3, GivenStays, WakeStays DEF OnceTrue
<1>. QED  BY <1>2, <1>4 DEF OnceTrue

(* The cycle or the send ends, and nothing else changes in the publish     *)
(* loop.                                                                   *)
LEMMA Rests ==
  ASSUME SendTrue, pub' = pub \/ pub' = Top \/ pub' = Resumed,
         UNCHANGED <<chat, priority, wake, cursor>>,
         pub' = pub /\ pub.kind = "chat" => (ordinary => ordinary') /\ (SomeOpen' => SomeOpen),
         \A m \in Messages : Live(m) /\ SomeOpen => Live(m)' /\ SomeOpen',
         pub.at = "admit" => pub.msg \in Messages
  PROVE  SendTrue' /\ (Finishing' => Finishing)
<1>1. CASE pub' = pub
  <2>1. Current' = Current  BY <1>1 DEF Current
  <2>2. /\ Finishing' => Finishing
        /\ pub'.at = "admit" => Live(pub.msg)' /\ SomeOpen'
    BY <1>1 DEF SendTrue, Finishing
  <2>. QED  BY <1>1, <2>1, <2>2 DEF SendTrue, Busy
<1>2. CASE pub' = Top \/ pub' = Resumed
  <2>1. pub'.at \in {"top", "choose", "prepare"} /\ pub'.kind = "none"
    BY <1>2, TopFields
  <2>. QED  BY <2>1 DEF SendTrue, Finishing, Sends
<1>. QED  BY <1>1, <1>2

(* A step of acquire, or of what surrounds it, that changes no control.    *)
LEMMA QuietOnce ==
  ASSUME Undisturbed, ReceiverInv, ReceiverInv', AheadTrue, OnceTrue,
         \/ Room \/ Sync \/ Pass \/ Preempt \/ CancelDelivery \/ Synchronized
         \/ Refresh \/ AcquireFails \/ SendFails \/ Crash \/ UNCHANGED vars
  PROVE  OnceTrue'
<1>1. /\ TypeOK /\ TypeOK' /\ pub \in Pub /\ acq \in Acq /\ PubTrue
      /\ ControlsTrue /\ SendTrue /\ active /\ acq.msg \in 0..N + 1
  BY Typed DEF ReceiverInv, OnceTrue, AheadTrue, TypeOK
<1>2. UNCHANGED <<planVars, sessionVars, claims, cursor, controls, active>>
  BY <1>1
  DEF Undisturbed, Room, Post, Pause, Unpause, Revoke, Sync, Pass, Preempt, CancelDelivery,
      Synchronized, Refresh, AcquireFails, SendFails, Crash, vars, roomVars, steerVars
<1>3. revoked' = {} /\ paused' = FALSE
  <2>1. revoked = {} /\ paused = FALSE  BY <1>1 DEF ControlsTrue, TypeOK
  <2>. QED
    BY <1>1, <2>1
    DEF Undisturbed, Room, Post, Pause, Unpause, Revoke, Sync, Pass, Preempt, CancelDelivery,
        Synchronized, Refresh, AcquireFails, SendFails, Crash, vars, roomVars, steerVars
<1>4. ControlsTrue'
  <2>1. CASE Preempt
    <3>1. acq' = [acq EXCEPT !.at = "capture"] /\ controls[acq.msg] = "none"
      BY <2>1 DEF Preempt
    <3>2. acq'.at = "capture" /\ acq'.msg = acq.msg  BY <1>1, <3>1 DEF Acq
    <3>. QED  BY <1>1, <1>2, <1>3, <3>1, <3>2 DEF ControlsTrue
  <2>2. CASE acq' = acq  BY <1>1, <1>2, <1>3, <2>2 DEF ControlsTrue
  <2>3. CASE Sync \/ Pass \/ CancelDelivery \/ Synchronized \/ AcquireFails \/ Crash
    <3>1. acq'.at \in {"sync", "idle", "start"}
      <4>1. CASE Sync  BY <4>1 DEF Sync
      <4>3. CASE Pass \/ CancelDelivery  BY <1>1, <4>3 DEF Pass, CancelDelivery, Acq
      <4>2. CASE Synchronized \/ AcquireFails \/ Crash
        BY <4>2, AcqFields DEF Synchronized, AcquireFails, Crash
      <4>. QED  BY <2>3, <4>1, <4>2, <4>3
    <3>. QED  BY <1>1, <1>2, <1>3, <3>1 DEF ControlsTrue
  <2>4. Room \/ Refresh \/ SendFails \/ UNCHANGED vars => acq' = acq
    BY <1>1 DEF Undisturbed, Room, Post, Pause, Unpause, Revoke, Refresh, SendFails, vars
  <2>. QED  BY <2>1, <2>2, <2>3, <2>4
<1>5. SendTrue' /\ (Finishing' => Finishing)
  <2>1. UNCHANGED <<chat, priority, wake, cursor>>  BY <1>2 DEF planVars
  <2>2. \A m \in Messages : Live(m) /\ SomeOpen => Live(m)' /\ SomeOpen'
    BY <1>2, <2>1 DEF Live, SomeOpen, Open
  <2>3. SomeOpen' => SomeOpen  BY <1>2 DEF SomeOpen, Open
  <2>4. pub.at = "admit" => pub.msg \in Messages  BY <1>1 DEF PubTrue
  <2>5. /\ pub' = pub \/ pub' = Top \/ pub' = Resumed
        /\ pub' = pub /\ pub.kind = "chat" => (ordinary => ordinary')
    <3>1. CASE Preempt
      <4>1. pub' = IF pub.at \in {"collect", "skim"} THEN Top
                   ELSE IF pub.kind \in {"chat", "wake"} THEN Cancelled ELSE pub
        BY <3>1 DEF Preempt
      <4>2. pub.kind = "chat" => pub.at \in Sends  BY <1>1 DEF SendTrue
      <4>3. pub.kind = "chat" => pub' = Resumed  BY <4>1, <4>2 DEF Cancelled, Sends
      <4>. QED  BY <4>1, <4>3, TopFields DEF Cancelled
    <3>2. CASE ~Preempt
      <4>1. pub' = pub \/ pub' = Top \/ pub' = Cancelled
        BY <1>1, <3>2
        DEF Undisturbed, Room, Post, Pause, Unpause, Revoke, Sync, Pass, CancelDelivery,
            Synchronized, Refresh, AcquireFails, SendFails, Crash, vars
      <4>2. ordinary' = ordinary \/ ordinary' = TRUE
        BY <1>1, <3>2
        DEF Undisturbed, Room, Post, Pause, Unpause, Revoke, Sync, Pass, CancelDelivery,
            Synchronized, Refresh, AcquireFails, SendFails, Crash, vars
      <4>. QED  BY <4>1, <4>2 DEF Cancelled
    <3>. QED  BY <3>1, <3>2
  <2>. QED  BY <1>1, <2>1, <2>2, <2>3, <2>4, <2>5, Rests
<1>. QED  BY <1>1, <1>2, <1>4, <1>5, MovesOnce

(* A step of acquire that changes the controls.                            *)
LEMMA ControlsOnce ==
  ASSUME Undisturbed, ReceiverInv, ReceiverInv', AheadTrue, OnceTrue,
         Initialize \/ Capture \/ InterruptTurn
  PROVE  OnceTrue'
<1>1. /\ TypeOK /\ TypeOK' /\ acq \in Acq /\ PubTrue /\ AcqTrue
      /\ ControlsTrue /\ SendTrue /\ SteersTrue /\ GivenTrue /\ WakeTrue
      /\ controls \in [Messages -> Stages] /\ cursor \in Nat /\ since \in Nat /\ cursor <= since
      /\ revoked = {} /\ paused = FALSE
  BY Typed DEF ReceiverInv, OnceTrue, TypeOK, ControlsTrue
<1>2. UNCHANGED <<chat, priority, wake, given, journal, entered, confirmed, claims, cursor,
                  pub, ordinary, revoked>>
  BY DEF Initialize, Capture, InterruptTurn, planVars, sessionVars, roomVars
<1>3. SUFFICES /\ ControlsTrue'
               /\ \A m \in Messages : controls[m] = "delivered" => controls'[m] = "delivered"
               /\ \A m \in Messages : Finished(m) => Finished(m)'
               /\ \A m \in Messages : Live(m) /\ SomeOpen => Live(m)' /\ SomeOpen'
               /\ pub.kind = "chat" => (SomeOpen' => SomeOpen)
  <2>1. /\ SendTrue' /\ (Finishing' => Finishing)
    BY <1>1, <1>2, <1>3, Rests DEF PubTrue
  <2>2. SteersTrue'  BY <1>1, <1>2, <1>3, <2>1, SteersStay
  <2>3. GivenTrue'  BY <1>1, <1>2, <1>3, GivenStays
  <2>4. WakeTrue'  BY <1>1, <1>2, WakeStays
  <2>. QED  BY <1>3, <2>1, <2>2, <2>3, <2>4 DEF OnceTrue
<1>4. CASE Initialize
  <2>1. /\ acq'.at = "idle" /\ paused' = FALSE
        /\ \A m \in Messages : controls'[m] = IF controls[m] = "interrupting"
                                               THEN "interrupted" ELSE controls[m]
    <3>1. Stops = {} /\ acq' = AcqAt("idle")  BY <1>4 DEF Undisturbed, Initialize
    <3>2. paused' = FALSE  BY <1>1, <1>4, <3>1 DEF Initialize
    <3>3. \A m \in Messages : controls'[m] = IF controls[m] = "interrupting"
                                             THEN "interrupted" ELSE controls[m]
      BY <1>4, <3>1 DEF Initialize
    <3>. QED  BY <3>1, <3>2, <3>3, AcqFields
  <2>2. ControlsTrue'  BY <1>1, <1>2, <2>1 DEF ControlsTrue
  <2>3. \A m \in Messages : Finished(m) => Finished(m)'  BY <1>2, <2>1 DEF Finished
  <2>4. \A m \in Messages : Open(m)' <=> Open(m)  BY <2>1 DEF Open
  <2>5. SomeOpen' <=> SomeOpen  BY <2>4 DEF SomeOpen
  <2>6. \A m \in Messages : Live(m) => Live(m)'  BY <1>2, <2>1 DEF Live
  <2>. QED  BY <2>1, <2>2, <2>3, <2>5, <2>6
<1>5. CASE Capture
  <2>1. /\ acq.at = "capture" /\ acq'.at = "interrupt" /\ acq'.msg = acq.msg /\ paused' = paused
        /\ controls' = [m \in Messages |->
                          CASE m = acq.msg -> "interrupting"
                            [] controls[m] = "interrupted" -> "superseded"
                            [] OTHER -> controls[m]]
    BY <1>1, <1>5 DEF Capture, ControlsTrue, Acq
  <2>2. controls[acq.msg] = "none" /\ acq.msg \in Messages /\ acq.msg > cursor
    <3>1. controls[acq.msg] = "none" /\ since < acq.msg /\ acq.msg <= acq.upto /\ acq.upto <= posted
      BY <1>1, <2>1 DEF ControlsTrue, AcqTrue
    <3>2. acq.msg \in Messages
      BY <1>1, <3>1, Typed, SizeAssumption DEF Messages
    <3>. QED  BY <1>1, <3>1, <3>2, SizeAssumption DEF Messages
  <2>3. ControlsTrue'  BY <1>1, <1>2, <2>1, <2>2 DEF ControlsTrue
  <2>4. \A m \in Messages : Finished(m) => Finished(m)'
    BY <1>1, <1>2, <2>1, <2>2, SizeAssumption DEF Finished, Messages
  <2>5. SomeOpen'  BY <2>1, <2>2 DEF SomeOpen, Open
  <2>6. \A m \in Messages : Live(m) => Live(m)'  BY <1>2, <2>1, <2>2 DEF Live
  <2>7. pub.kind # "chat"  BY <1>1, <2>1 DEF SendTrue, AheadTrue
  <2>8. \A m \in Messages : controls[m] = "delivered" => controls'[m] = "delivered"
    BY <2>1, <2>2
  <2>. QED  BY <2>3, <2>4, <2>5, <2>6, <2>7, <2>8
<1>6. CASE InterruptTurn
  <2>1. /\ acq.at = "interrupt" /\ acq'.at = "cancel" /\ ~paused'
        /\ controls' = [controls EXCEPT ![acq.msg] = "interrupted"]
        /\ controls[acq.msg] = "interrupting"
    <3>1. acq.msg \notin Stops  BY DEF Undisturbed
    <3>2. acq.at = "interrupt" /\ acq'.at = "cancel"  BY <1>1, <1>6 DEF InterruptTurn, Acq
    <3>3. ~paused'  BY <1>6, <3>1 DEF InterruptTurn
    <3>4. controls' = [controls EXCEPT ![acq.msg] = "interrupted"]
      BY <1>6, <3>1 DEF InterruptTurn
    <3>. QED  BY <1>1, <3>2, <3>3, <3>4 DEF ControlsTrue
  <2>2. ControlsTrue'  BY <1>1, <1>2, <2>1 DEF ControlsTrue
  <2>3. \A m \in Messages : Finished(m) => Finished(m)'  BY <1>1, <1>2, <2>1 DEF Finished
  <2>4. \A m \in Messages : Open(m)' <=> Open(m)  BY <1>1, <2>1 DEF Open
  <2>5. SomeOpen' <=> SomeOpen  BY <2>4 DEF SomeOpen
  <2>6. \A m \in Messages : Live(m) => Live(m)'  BY <1>1, <1>2, <2>1 DEF Live
  <2>7. \A m \in Messages : controls[m] = "delivered" => controls'[m] = "delivered"
    BY <1>1, <2>1
  <2>. QED  BY <2>2, <2>3, <2>5, <2>6, <2>7
<1>. QED  BY <1>4, <1>5, <1>6

(* A step of publish that changes nothing but where it is.                 *)
LEMMA CycleOnce ==
  ASSUME ReceiverInv, ReceiverInv', AheadTrue, OnceTrue,
         \/ BeginCycle \/ ChooseSteering \/ ChooseChat \/ ChoosePrepare \/ ChoosePaused
         \/ StartCollect \/ CollectNothing \/ PublishDone \/ PublishNew \/ PublishAgain
         \/ Settled \/ Conflict
  PROVE  OnceTrue'
<1>1. /\ TypeOK /\ TypeOK' /\ pub \in Pub /\ PubTrue /\ ControlsTrue /\ SendTrue
  BY DEF ReceiverInv, OnceTrue, TypeOK
<1>2. /\ UNCHANGED <<planVars, sessionVars, claims, cursor, controls>>
      /\ UNCHANGED <<chat, priority, wake, acq, ordinary, revoked, paused>>
  BY DEF BeginCycle, ChooseSteering, ChooseChat, ChoosePrepare, ChoosePaused, StartCollect,
         CollectNothing, PublishDone, PublishNew, PublishAgain, Settled, Conflict, roomVars,
         steerVars, planVars
<1>3. ControlsTrue'  BY <1>1, <1>2 DEF ControlsTrue
<1>4. SUFFICES SendTrue' /\ (Finishing' => Finishing)
  BY <1>1, <1>2, <1>3, MovesOnce
<1>5. /\ SomeOpen' <=> SomeOpen
      /\ \A m \in Messages : Live(m)' <=> Live(m)
  BY <1>2 DEF SomeOpen, Open, Live
<1>6. ASSUME pub'.at \in {"top", "choose", "prepare", "collect", "recover", "publish"},
             pub'.kind # "chat"
      PROVE  SendTrue' /\ (Finishing' => Finishing)
  BY <1>6 DEF SendTrue, Finishing
<1>7. CASE BeginCycle
  <2>1. \/ pub' = [Top EXCEPT !.at = "recover", !.kind = "resume"]
        \/ pub' = [Top EXCEPT !.at = "accepted", !.kind = "resume"]
        \/ pub' = [Top EXCEPT !.at = "choose"]
    BY <1>7 DEF BeginCycle
  <2>2. pub'.at \in {"recover", "accepted", "choose"} /\ pub'.kind # "chat"
        /\ (pub'.at = "accepted" => pub'.kind = "resume")
    BY <2>1 DEF Top
  <2>. QED  BY <2>2 DEF SendTrue, Finishing
<1>8. CASE ChooseSteering
  <2>1. /\ pub'.at = "admit" /\ pub'.kind = "steer" /\ pub'.msg = Urgent /\ pub.at = "choose"
        /\ Urgent \in Messages /\ controls[Urgent] = "interrupted"
    BY <1>8, UrgentIs DEF ChooseSteering
  <2>2. Live(Urgent) /\ SomeOpen
    <3>1. /\ Urgent \in Nat /\ cursor \in Nat /\ chat.upto \in Nat
          /\ cursor < Urgent /\ chat.upto < Urgent /\ Open(Urgent)
      BY <1>1, <2>1, Typed, SizeAssumption DEF AheadTrue, Open, Messages
    <3>. QED  BY <2>1, <3>1 DEF Live, SomeOpen
  <2>3. controls'[pub'.msg] = controls[Urgent] /\ pub'.msg > cursor' /\ pub'.msg > chat'.upto
    BY <1>2, <2>1, <2>2 DEF Live
  <2>. QED  BY <1>5, <2>1, <2>2, <2>3 DEF SendTrue, Finishing, Live
<1>9. CASE ChooseChat
  <2>1. pub.at = "choose" /\ acq.at # "start"  BY <1>9 DEF ChooseChat, AheadTrue
  <2>2. CASE pub' = Top  BY <1>6, <2>2, TopFields
  <2>3. CASE MaySend /\ pub' = [Top EXCEPT !.at = "publish", !.kind = "chat"]
    <3>1. pub'.at = "publish" /\ pub'.kind = "chat"  BY <2>3 DEF Top
    <3>2. ordinary /\ ~SomeOpen  BY <2>1, <2>3, NoneOpen DEF MaySend
    <3>. QED  BY <1>2, <1>5, <3>1, <3>2 DEF SendTrue, Finishing, Sends
  <2>. QED  BY <1>9, <2>2, <2>3 DEF ChooseChat
<1>10. CASE ChoosePrepare
  <2>1. pub.at = "choose" /\ pub'.at = "prepare" /\ pub'.kind = pub.kind
    BY <1>1, <1>10, GoFields DEF ChoosePrepare
  <2>. QED  BY <1>1, <1>6, <2>1 DEF SendTrue, Sends
<1>11. CASE ChoosePaused \/ CollectNothing
  BY <1>6, <1>11, TopFields DEF ChoosePaused, CollectNothing
<1>12. CASE StartCollect
  <2>1. pub' = Top \/ pub' = [Top EXCEPT !.at = "collect", !.msg = since]
    BY <1>12 DEF StartCollect
  <2>2. CASE pub' = Top  BY <1>6, <2>2, TopFields
  <2>3. CASE pub' = [Top EXCEPT !.at = "collect", !.msg = since]
    <3>1. pub'.at = "collect" /\ pub'.kind = "none"  BY <2>3 DEF Top
    <3>. QED  BY <1>6, <3>1
  <2>. QED  BY <2>1, <2>2, <2>3
<1>13. ASSUME NEW p \in Sends, Go(p), pub.at \in Sends,
              p \in {"publish", "recover", "settle", "submit", "cursor", "forget", "accepted"},
              p = "accepted" => pub.kind \notin {"chat", "wake"},
              p = "forget" => pub.kind = "wake",
              p \in {"settle", "submit"} => Busy(Current)
       PROVE  SendTrue' /\ (Finishing' => Finishing)
  <2>1. pub'.at = p /\ pub'.kind = pub.kind  BY <1>1, <1>13, GoFields
  <2>2. Current' = Current  BY <1>2, <2>1 DEF Current
  <2>3. pub.kind \in {"resume", "steer", "chat", "wake"}  BY <1>1, <1>13, PubFields DEF PubTrue
  <2>4. p \in {"settle", "submit"} => Busy(Current)'  BY <1>13, <2>2 DEF Busy
  <2>. QED  BY <1>1, <1>2, <1>5, <1>13, <2>1, <2>3, <2>4 DEF SendTrue, Finishing, Sends
<1>14. CASE PublishDone
  <2>. DEFINE p == CASE pub.kind = "chat" -> "cursor" [] pub.kind = "wake" -> "forget"
                     [] OTHER -> "accepted"
  <2>1. /\ p \in {"cursor", "forget", "accepted"} /\ (p = "forget" => pub.kind = "wake")
        /\ (p = "accepted" => pub.kind \notin {"chat", "wake"})
    OBVIOUS
  <2>2. Go(p) /\ pub.at = "publish"  BY <1>14 DEF PublishDone
  <2>. HIDE DEF p
  <2>. QED  BY <1>13, <2>1, <2>2 DEF Sends
<1>15. CASE PublishNew
  <2>. DEFINE p == IF pub.kind = "steer" THEN "settle" ELSE "submit"
  <2>1. p \in {"settle", "submit"} /\ Go(p) /\ pub.at = "publish" /\ Busy(Current)
    BY <1>15 DEF PublishNew, Busy
  <2>. HIDE DEF p
  <2>. QED  BY <1>13, <2>1 DEF Sends
<1>16. CASE PublishAgain
  BY <1>13, <1>16 DEF PublishAgain, Sends
<1>17. CASE Settled
  <2>1. Go("submit") /\ pub.at = "settle"  BY <1>17 DEF Settled
  <2>2. Busy(Current)  BY <1>1, <2>1 DEF SendTrue
  <2>. QED  BY <1>13, <2>1, <2>2 DEF Sends
<1>18. CASE Conflict
  <2>1. pub' = pub  BY <1>18 DEF Conflict
  <2>. QED  BY <1>1, <1>2, <1>5, <2>1, Rests DEF PubTrue
<1>. QED
  BY <1>7, <1>8, <1>9, <1>10, <1>11, <1>12, <1>14, <1>15, <1>16, <1>17, <1>18

(* A step of a send that changes its plan.                                 *)
LEMMA PutOnce ==
  ASSUME ReceiverInv, OnceTrue, SendTrue', pub.at \in Sends, NEW q, Put(q),
         UNCHANGED <<cursor, controls, sessionVars, claims, acq, revoked, paused>>,
         Finishing' => Finishing, q.step \subseteq Current.step,
         q = NoPlan \/ q.upto = Current.upto, pub.kind # "wake" => Fresh(q),
         \A m \in Messages : m \in Current.step /\ Taken(Current) =>
           (m \in q.step /\ Taken(q)) \/ m <= cursor \/ controls[m] = "delivered",
         pub.kind # "chat" => q = NoPlan \/ q.step = Current.step,
         pub.kind \in {"steer", "resume"} /\ Current.status = "delivered" /\ q # NoPlan =>
           q.status = "delivered",
         pub.kind = "wake" /\ Busy(q) /\ ~Taken(q) => given[0] < claims
  PROVE  OnceTrue'
<1>1. /\ TypeOK /\ ControlsTrue /\ SteersTrue /\ GivenTrue /\ WakeTrue
      /\ pub.kind \in {"chat", "wake", "resume", "steer"} /\ Current.status # "none"
      /\ UNCHANGED <<given, journal, entered, confirmed>>
  BY Typed, PubFields DEF ReceiverInv, OnceTrue, PubTrue, sessionVars
<1>2. ControlsTrue'  BY <1>1 DEF ControlsTrue
<1>3. SomeOpen' <=> SomeOpen  BY DEF SomeOpen, Open
<1>4. \A m \in Messages : Finished(m) <=> Finished(m)'  BY DEF Finished
<1>6. CASE pub.kind = "chat"
  <2>1. Current = chat /\ chat' = q /\ UNCHANGED <<priority, wake>>  BY <1>6, PutIs, CurrentIs
  <2>2. \A m \in Messages : Live(m) => Live(m)'
    <3>1. chat.upto \in Nat /\ (q.upto = 0 \/ q.upto = chat.upto)
      BY <1>1, <2>1, Typed, NoPlanFields, SizeAssumption
    <3>. QED  BY <2>1, <3>1, SizeAssumption DEF Live, Messages
  <2>3. SteersTrue'  BY <1>1, <1>3, <1>4, <2>1, <2>2, SteersStay
  <2>4. /\ Taken(chat)' <=> Taken(q)
        /\ Taken(priority)' <=> Taken(priority)
    BY <1>1, <2>1 DEF Taken, Sent
  <2>5. Fresh(chat)' /\ Fresh(priority)'
    BY <1>1, <1>6, <2>1, <2>4 DEF GivenTrue, Fresh, Busy
  <2>6. \A m \in Messages : Held(m) => Held(m)'
    BY <2>1, <2>4 DEF Held
  <2>7. GivenTrue'  BY <1>1, <2>1, <2>5, <2>6 DEF GivenTrue
  <2>8. WakeTrue'  BY <1>1, <2>1, WakeStays
  <2>. QED  BY <1>2, <2>3, <2>7, <2>8 DEF OnceTrue
<1>7. CASE pub.kind = "wake"
  <2>1. Current = wake /\ wake' = q /\ UNCHANGED <<priority, chat>>  BY <1>7, PutIs, CurrentIs
  <2>2. \A m \in Messages : Live(m) => Live(m)'  BY <2>1 DEF Live
  <2>3. SteersTrue'  BY <1>1, <1>3, <1>4, <2>1, <2>2, SteersStay
  <2>4. GivenTrue'
    <3>1. /\ Taken(chat)' <=> Taken(chat)
          /\ Taken(priority)' <=> Taken(priority)
      BY <1>1, <2>1 DEF Taken, Sent
    <3>2. Fresh(chat)' /\ Fresh(priority)'
      BY <1>1, <2>1, <3>1 DEF GivenTrue, Fresh, Busy
    <3>3. \A m \in Messages : Held(m) => Held(m)'  BY <2>1, <3>1 DEF Held
    <3>. QED  BY <1>1, <2>1, <3>2, <3>3 DEF GivenTrue
  <2>5. WakeTrue'
    <3>1. Taken(wake)' <=> Taken(q)  BY <1>1, <2>1 DEF Taken, Sent
    <3>2. wake # NoPlan  BY <1>1, <2>1, NoPlanFields
    <3>. QED  BY <1>1, <1>7, <2>1, <3>1, <3>2 DEF WakeTrue, Busy
  <2>. QED  BY <1>2, <2>3, <2>4, <2>5 DEF OnceTrue
<1>8. CASE pub.kind \in {"resume", "steer"}
  <2>1. Current = priority /\ priority' = q /\ UNCHANGED <<wake, chat>>
    BY <1>8, PutIs, CurrentIs
  <2>2. \A m \in Messages : Live(m) <=> Live(m)'  BY <2>1 DEF Live
  <2>3. SteersTrue'
    <3>. SUFFICES ASSUME q # NoPlan PROVE \E m \in Messages : Steers(m)'
      BY <2>1 DEF SteersTrue
    <3>1. PICK m \in Messages : Steers(m)
      BY <1>1, <2>1, NoPlanFields DEF SteersTrue
    <3>2. q.step = priority.step /\ (priority.status = "delivered" => q.status = "delivered")
      BY <1>8, <2>1
    <3>. QED  BY <1>3, <1>4, <2>1, <2>2, <3>1, <3>2 DEF Steers
  <2>4. GivenTrue'
    <3>1. /\ Taken(chat)' <=> Taken(chat)
          /\ Taken(priority)' <=> Taken(q)
      BY <1>1, <2>1 DEF Taken, Sent
    <3>2. Fresh(chat)' /\ Fresh(priority)'
      BY <1>1, <1>8, <2>1, <3>1 DEF GivenTrue, Fresh, Busy
    <3>3. \A m \in Messages : Held(m) => Held(m)'  BY <2>1, <3>1 DEF Held
    <3>. QED  BY <1>1, <2>1, <3>2, <3>3 DEF GivenTrue
  <2>5. WakeTrue'  BY <1>1, <2>1, WakeStays
  <2>. QED  BY <1>2, <2>3, <2>4, <2>5 DEF OnceTrue
<1>. QED  BY <1>1, <1>6, <1>7, <1>8

LEMMA StatusOnce ==
  ASSUME ReceiverInv, OnceTrue, pub.at \in Sends,
         NEW st \in {"prepared", "publishing", "delivered"},
         Put([Current EXCEPT !.status = st]), pub' = Resumed \/ \E p \in Sends : Go(p),
         UNCHANGED <<cursor, controls, sessionVars, claims, acq, ordinary, revoked, paused>>,
         pub'.at \in {"top", "choose", "prepare", "publish", "deliver", "settle", "submit",
                      "accepted"},
         pub'.at = "accepted" => pub.kind = "resume",
         pub'.at \in {"settle", "submit"} => st # "delivered",
         st # "delivered" => Busy(Current),
         st = "prepared" => ~Taken(Current)
  PROVE  OnceTrue'
<1>. DEFINE q == [Current EXCEPT !.status = st]
<1>1. /\ TypeOK /\ PubTrue /\ GivenTrue /\ WakeTrue /\ SendTrue /\ pub \in Pub
      /\ pub.kind \in {"chat", "wake", "resume", "steer"}
  BY Typed, PubFields DEF ReceiverInv, OnceTrue, PubTrue
<1>2. /\ q.status = st /\ q.step = Current.step /\ q.upto = Current.upto
  <2>1. Current \in Plan /\ st \in Statuses  BY <1>1, CurrentTyped DEF Statuses
  <2>. QED  BY <2>1, PlanWith
<1>3. Put(q)  OBVIOUS
<1>. HIDE DEF q
<1>4. SendTrue' /\ (Finishing' => Finishing)
  <2>1. CASE pub' = Resumed
    <3>1. pub'.at \in {"top", "choose", "prepare"} /\ pub'.kind = "none"  BY <2>1, TopFields
    <3>. QED  BY <3>1 DEF SendTrue, Finishing, Sends
  <2>2. CASE \E p \in Sends : Go(p)
    <3>1. pub'.kind = pub.kind /\ pub'.at \in Sends  BY <1>1, <2>2, GoFields
    <3>2. Current' = q  BY <1>1, <1>3, <3>1, PutIs, CurrentNext
    <3>3. pub'.at \in {"settle", "submit"} => Busy(Current)'  BY <1>2, <3>2 DEF Busy
    <3>4. SomeOpen' <=> SomeOpen  BY DEF SomeOpen, Open
    <3>. QED  BY <1>1, <3>1, <3>3, <3>4 DEF SendTrue, Finishing
  <2>. QED  BY <2>1, <2>2
<1>5. Taken(Current) => Taken(q)
  BY <1>2 DEF Taken, Sent, Busy
<1>6. Busy(q) /\ ~Taken(q) => Busy(Current) /\ ~Taken(Current)
  BY <1>2 DEF Taken, Sent, Busy
<1>7. pub.kind # "wake" => Fresh(q)
  <2>1. pub.kind # "wake" => Fresh(Current)  BY <1>1, CurrentIs DEF GivenTrue
  <2>. QED  BY <1>2, <1>6, <2>1 DEF Fresh
<1>8. pub.kind = "wake" /\ Busy(q) /\ ~Taken(q) => given[0] < claims
  BY <1>1, <1>6, CurrentIs DEF WakeTrue
<1>9. Current.status = "delivered" => q.status = "delivered"
  BY <1>2 DEF Busy
<1>. QED  BY <1>2, <1>3, <1>4, <1>5, <1>7, <1>8, <1>9, PutOnce

LEMMA PublishingOnce ==
  ASSUME ReceiverInv, OnceTrue, RecoverReceived \/ RecoverAbsent \/ SavePublishing \/ Delivered
  PROVE  OnceTrue'
<1>1. /\ TypeOK /\ PubTrue /\ SessionTrue /\ SendTrue /\ pub \in Pub
      /\ pub.at \in {"recover", "submit", "deliver"} /\ pub.at \in Sends
      /\ UNCHANGED <<cursor, controls, sessionVars, claims, acq, ordinary, revoked, paused>>
      /\ pub.at = "recover" => Current.status = "publishing"
  BY DEF ReceiverInv, OnceTrue, TypeOK, RecoverReceived, RecoverAbsent, SavePublishing, Delivered,
         Sends, roomVars, steerVars, PubTrue
<1>2. CASE RecoverReceived \/ Delivered
  <2>1. PICK p \in {"accepted", "publish"} :
          /\ Put([Current EXCEPT !.status = "delivered"]) /\ Go(p)
          /\ p = "accepted" => pub.kind = "resume"
    BY <1>2 DEF RecoverReceived, Delivered
  <2>2. pub'.at = p  BY <1>1, <2>1, GoFields DEF Sends
  <2>3. \E r \in Sends : Go(r)  BY <2>1 DEF Sends
  <2>. QED  BY <1>1, <2>1, <2>2, <2>3, StatusOnce
<1>3. CASE SavePublishing
  <2>1. Put([Current EXCEPT !.status = "publishing"]) /\ Go("deliver") /\ pub.at = "submit"
    BY <1>3 DEF SavePublishing
  <2>2. pub'.at = "deliver" /\ Busy(Current)  BY <1>1, <2>1, GoFields DEF Sends, SendTrue
  <2>3. \E r \in Sends : Go(r)  BY <2>1 DEF Sends
  <2>. QED  BY <1>1, <2>1, <2>2, <2>3, StatusOnce
<1>4. CASE RecoverAbsent
  <2>. DEFINE st == IF pub.kind \in {"resume", "wake"} THEN "prepared" ELSE Current.status
  <2>1. /\ Put([Current EXCEPT !.status = st])
        /\ pub.at = "recover" /\ journal = {} /\ Current.step \notin confirmed
    BY <1>4 DEF RecoverAbsent
  <2>2. st \in {"prepared", "publishing"}  BY <1>1, <2>1
  <2>. HIDE DEF st
  <2>3. Busy(Current) /\ ~Taken(Current)
    BY <1>1, <2>1 DEF Busy, Taken, Sent, SessionTrue
  <2>4. pub' = Resumed \/ \E r \in {"publish", "settle", "submit"} : Go(r)
    BY <1>4 DEF RecoverAbsent
  <2>5. /\ pub'.at \in {"top", "choose", "prepare", "publish", "settle", "submit"}
        /\ pub' = Resumed \/ \E r \in Sends : Go(r)
    BY <1>1, <2>4, TopFields, GoFields DEF Sends
  <2>. QED  BY <1>1, <2>1, <2>2, <2>3, <2>5, StatusOnce
<1>. QED  BY <1>2, <1>3, <1>4

LEMMA SpliceOnce ==
  ASSUME ReceiverInv, OnceTrue, Splice
  PROVE  OnceTrue'
<1>. DEFINE q == [Current EXCEPT !.step = Remaining, !.status = "prepared"]
<1>1. /\ TypeOK /\ SessionTrue /\ SendTrue /\ GivenTrue /\ pub \in Pub
      /\ pub.at \in {"publish", "recover"} /\ pub.at \in Sends
      /\ UNCHANGED <<cursor, controls, sessionVars, claims, acq, ordinary, revoked, paused>>
      /\ Remaining # Current.step /\ Put(q) /\ Go("publish")
  BY DEF ReceiverInv, OnceTrue, TypeOK, Splice, Sends, roomVars, steerVars
<1>2. pub.kind = "chat" /\ Current = chat /\ Remaining = {m \in chat.step : Accepts(m)}
  BY <1>1, CurrentIs DEF Remaining
<1>3. /\ q.status = "prepared" /\ q.step = Remaining /\ q.upto = Current.upto
  <2>1. Current \in Plan /\ chat.step \subseteq 0..N  BY <1>1, CurrentTyped, Typed
  <2>2. Remaining \in SUBSET (0..N)  BY <1>2, <2>1
  <2>. QED  BY <2>1, <2>2, PlanOf
<1>. HIDE DEF q
<1>4. SendTrue' /\ (Finishing' => Finishing)
  <2>1. pub'.at = "publish" /\ pub'.kind = "chat"  BY <1>1, <1>2, GoFields DEF Sends
  <2>2. SomeOpen' <=> SomeOpen  BY <1>1 DEF SomeOpen, Open
  <2>. QED  BY <1>1, <1>2, <2>1, <2>2 DEF SendTrue, Finishing, Sends
<1>5. Busy(chat) /\ ~Taken(chat)
  <2>1. \/ chat.status = "prepared"
        \/ pub.at = "recover" /\ journal = {} /\ chat.step \notin confirmed
    BY <1>2 DEF Splice
  <2>2. pub.at = "recover" => chat.status = "publishing"
    BY <1>2 DEF ReceiverInv, PubTrue
  <2>. QED  BY <1>1, <2>1, <2>2 DEF Busy, Taken, Sent, SessionTrue
<1>6. Fresh(q) /\ q.step \subseteq Current.step
  BY <1>1, <1>2, <1>3, <1>5 DEF GivenTrue, Fresh
<1>. QED  BY <1>1, <1>2, <1>3, <1>4, <1>5, <1>6, PutOnce

LEMMA ClearOnce ==
  ASSUME ReceiverInv, OnceTrue, Clear
  PROVE  OnceTrue'
<1>1. /\ TypeOK /\ PubTrue /\ PlansTrue /\ SendTrue /\ SteersTrue
      /\ pub.at = "clear" /\ pub.at \in Sends
      /\ UNCHANGED <<cursor, controls, sessionVars, claims, acq, ordinary, revoked, paused>>
      /\ Put(NoPlan) /\ pub' = Resumed
  BY DEF ReceiverInv, OnceTrue, Clear, Sends, roomVars, steerVars
<1>2. pub.kind \in {"chat", "wake", "resume", "steer"} /\ Current.status # "none"
  BY <1>1, Typed, PubFields DEF PubTrue
<1>3. SendTrue' /\ (Finishing' => Finishing)
  <2>1. pub'.at \in {"top", "choose", "prepare"} /\ pub'.kind = "none"  BY <1>1, TopFields
  <2>. QED  BY <2>1 DEF SendTrue, Finishing, Sends
<1>4. Fresh(NoPlan) /\ ~Busy(NoPlan) /\ NoPlan.step \subseteq Current.step
  BY NoPlanFields DEF Fresh, Busy
<1>5. ASSUME NEW m \in Messages, m \in Current.step
      PROVE  m <= cursor \/ controls[m] = "delivered"
  <2>1. CASE pub.kind = "chat"
    <3>1. Current = chat /\ cursor = chat.upto  BY <1>1, <2>1, CurrentIs DEF SendTrue
    <3>2. m \in (chat.base + 1)..chat.upto  BY <1>1, <1>5, <3>1 DEF PlansTrue
    <3>. QED  BY <1>1, <3>1, <3>2, Typed, SizeAssumption
  <2>2. CASE pub.kind \in {"steer", "resume"}
    <3>1. Current = priority /\ Finishing  BY <1>1, <2>2, CurrentIs DEF Finishing
    <3>2. PICK n \in Messages : priority.step = {n} /\ Finished(n)
      BY <1>1, <1>2, <3>1, NoPlanFields DEF SteersTrue, Steers
    <3>. QED  BY <1>5, <3>1, <3>2 DEF Finished
  <2>3. CASE pub.kind = "wake"
    <3>1. m \in WakeInput  BY <1>1, <1>5, <2>3, CurrentIs DEF PlansTrue
    <3>. QED  BY <3>1, SizeAssumption DEF WakeInput, Messages
  <2>. QED  BY <1>2, <2>1, <2>2, <2>3
<1>. QED  BY <1>1, <1>3, <1>4, <1>5, PutOnce

(* A wake-up is claimed or given up.                                       *)
LEMMA WakesOnce ==
  ASSUME ReceiverInv, OnceTrue, ChooseWake \/ WakeIneligible
  PROVE  OnceTrue'
<1>1. /\ TypeOK /\ PlansTrue /\ ControlsTrue /\ SendTrue /\ SteersTrue /\ GivenTrue /\ WakeTrue
      /\ given \in [0..N -> Nat] /\ claims \in Nat
  BY Typed, SizeAssumption DEF ReceiverInv, OnceTrue, TypeOK
<1>2. /\ UNCHANGED <<chat, priority, given, journal, entered, confirmed, cursor, controls, acq,
                     revoked, paused>>
      /\ claims' \in {claims, claims + 1}
      /\ \/ wake' = wake
         \/ wake' = NoPlan
         \/ /\ wake' = [NoPlan EXCEPT !.step = WakeInput, !.status = "prepared"]
            /\ claims' = claims + 1
  BY DEF ChooseWake, WakeIneligible, sessionVars, roomVars, steerVars
<1>3. /\ pub'.at \in {"publish", "prepare", "top", "choose"} /\ pub'.kind # "chat"
  <2>1. \/ pub' = [Top EXCEPT !.at = "publish", !.kind = "wake"]
        \/ pub' = [Top EXCEPT !.at = "prepare"]
        \/ pub' = Resumed
    BY DEF ChooseWake, WakeIneligible
  <2>. QED  BY <2>1, TopFields DEF Top
<1>4. SendTrue' /\ (Finishing' => Finishing)  BY <1>3 DEF SendTrue, Finishing
<1>5. ControlsTrue'  BY <1>1, <1>2 DEF ControlsTrue
<1>6. /\ \A m \in Messages : Live(m) /\ SomeOpen => Live(m)' /\ SomeOpen'
      /\ \A m \in Messages : Finished(m) => Finished(m)'
  BY <1>2 DEF Live, SomeOpen, Open, Finished
<1>7. SteersTrue'  BY <1>1, <1>2, <1>4, <1>6, SteersStay
<1>8. GivenTrue'
  <2>1. /\ Taken(chat)' <=> Taken(chat)
        /\ Taken(priority)' <=> Taken(priority)
    BY <1>2 DEF Taken, Sent
  <2>2. Fresh(chat)' /\ Fresh(priority)'
    BY <1>1, <1>2, <2>1 DEF GivenTrue, Fresh, Busy
  <2>3. \A m \in Messages : Held(m) => Held(m)'  BY <1>2, <2>1 DEF Held
  <2>. QED  BY <1>1, <1>2, <2>2, <2>3 DEF GivenTrue
<1>9. WakeTrue'
  <2>1. given[0] <= claims /\ given[0] <= claims' /\ given[0] \in Nat
    BY <1>1, <1>2, SizeAssumption DEF WakeTrue
  <2>2. CASE wake' = wake
    <3>1. Busy(wake)' /\ ~Taken(wake)' => Busy(wake) /\ ~Taken(wake)
      BY <1>2, <2>2 DEF Busy, Taken, Sent
    <3>. QED  BY <1>1, <1>2, <2>1, <2>2, <3>1 DEF WakeTrue
  <2>3. CASE wake' = NoPlan
    BY <1>2, <2>1, <2>3, NoPlanFields DEF WakeTrue, Busy
  <2>4. CASE wake' = [NoPlan EXCEPT !.step = WakeInput, !.status = "prepared"]
             /\ claims' = claims + 1
    <3>1. wake'.step = WakeInput
      BY <2>4 DEF NoPlan
    <3>. QED  BY <1>1, <1>2, <2>1, <2>4, <3>1 DEF WakeTrue
  <2>. QED  BY <1>2, <2>2, <2>3, <2>4
<1>. QED  BY <1>4, <1>5, <1>7, <1>8, <1>9 DEF OnceTrue

(* A mention is planned as steering.                                       *)
LEMMA AdmitOnce ==
  ASSUME ReceiverInv, ReceiverInv', OnceTrue, Admit
  PROVE  OnceTrue'
<1>1. /\ TypeOK /\ TypeOK' /\ PubTrue /\ PlansTrue /\ pub \in Pub
      /\ ControlsTrue /\ SendTrue /\ SteersTrue /\ GivenTrue /\ WakeTrue
      /\ given \in [0..N -> Nat]
      /\ pub.at = "admit" /\ pub.kind = "steer" /\ pub.msg \in Messages
  BY Typed DEF ReceiverInv, OnceTrue, TypeOK, Admit, PubTrue
<1>2. /\ UNCHANGED <<chat, wake, given, journal, entered, confirmed, cursor, controls, acq,
                     revoked, paused, claims>>
      /\ UNCHANGED sessionVars
      /\ \/ priority' = priority
         \/ /\ priority = NoPlan
            /\ priority' = [NoPlan EXCEPT !.step = {pub.msg}, !.status = "prepared"]
  BY DEF Admit, sessionVars, roomVars, steerVars
<1>3. pub'.at \in {"publish", "top"} /\ pub'.kind # "chat"
  <2>1. pub' = Top \/ pub' = [pub EXCEPT !.at = "publish"]  BY DEF Admit
  <2>. QED  BY <1>1, <2>1, TopFields DEF Pub
<1>4. SendTrue' /\ ~Finishing'  BY <1>3 DEF SendTrue, Finishing
<1>5. ControlsTrue'  BY <1>1, <1>2 DEF ControlsTrue
<1>6. CASE priority' = priority
  <2>1. UNCHANGED planVars  BY <1>2, <1>6 DEF planVars
  <2>. QED  BY <1>1, <1>2, <1>4, <1>5, <2>1, MovesOnce
<1>7. CASE /\ priority = NoPlan
           /\ priority' = [NoPlan EXCEPT !.step = {pub.msg}, !.status = "prepared"]
  <2>1. priority'.step = {pub.msg} /\ priority'.status = "prepared"
    BY <1>7 DEF NoPlan
  <2>2. Live(pub.msg) /\ SomeOpen  BY <1>1 DEF SendTrue
  <2>3. PICK n \in Messages : n = pub.msg  BY <1>1
  <2>4. SteersTrue'
    <3>1. SomeOpen'  BY <1>2, <2>2 DEF SomeOpen, Open
    <3>2. Live(n)'  BY <1>2, <2>2, <2>3 DEF Live
    <3>. QED  BY <1>4, <2>1, <2>3, <3>1, <3>2 DEF SteersTrue, Steers
  <2>5. pub.msg \notin chat.step /\ given[pub.msg] = 0
    <3>1. /\ pub.msg > chat.upto /\ pub.msg > cursor /\ controls[pub.msg] # "delivered"
      BY <2>2 DEF Live
    <3>2. pub.msg \notin chat.step
      BY <1>1, <3>1, Typed, SizeAssumption DEF PlansTrue, Messages
    <3>3. ~(pub.msg <= cursor)  BY <1>1, <3>1, Typed, SizeAssumption DEF Messages
    <3>4. ~Held(pub.msg)  BY <1>7, <3>1, <3>2, <3>3, NoPlanFields DEF Held
    <3>5. given[pub.msg] \in Nat  BY <1>1, SizeAssumption DEF Messages
    <3>. QED  BY <1>1, <3>2, <3>4, <3>5 DEF GivenTrue
  <2>6. GivenTrue'
    <3>1. Taken(chat)' <=> Taken(chat)  BY <1>2 DEF Taken, Sent
    <3>2. Fresh(chat)'  BY <1>1, <1>2, <3>1 DEF GivenTrue, Fresh, Busy
    <3>3. Fresh(priority)'  BY <1>2, <2>1, <2>5 DEF Fresh
    <3>4. \A m \in Messages : Held(m) => Held(m)'
      BY <1>2, <1>7, <3>1, NoPlanFields DEF Held
    <3>5. chat'.step \cap priority'.step = {}  BY <1>2, <2>1, <2>5
    <3>. QED  BY <1>1, <1>2, <3>2, <3>3, <3>4, <3>5 DEF GivenTrue
  <2>7. WakeTrue'  BY <1>1, <1>2, WakeStays
  <2>. QED  BY <1>4, <1>5, <2>4, <2>6, <2>7 DEF OnceTrue
<1>. QED  BY <1>2, <1>6, <1>7

(* Unread chat becomes a plan: nothing of it was given, and no steering    *)
(* plan waits for its input.                                               *)
LEMMA CollectOnce ==
  ASSUME ReceiverInv, AheadTrue, OnceTrue, Collect
  PROVE  OnceTrue'
<1>1. /\ TypeOK /\ PubTrue /\ PlansTrue /\ ControlsTrue /\ SteersTrue /\ GivenTrue /\ WakeTrue
      /\ given \in [0..N -> Nat] /\ pub.at = "collect" /\ Urgent = 0 /\ chat = NoPlan
      /\ cursor \in Nat /\ pub.msg \in Nat
  BY Typed, PubFields, SizeAssumption DEF ReceiverInv, OnceTrue, TypeOK, Collect, PubTrue
<1>2. /\ UNCHANGED <<priority, wake, given, journal, entered, confirmed, cursor, controls, acq,
                     revoked, paused, claims>>
      /\ pub' = Top /\ chat'.step = Selected /\ chat'.upto = pub.msg /\ chat'.status = "prepared"
  BY DEF Collect, sessionVars, roomVars, steerVars
<1>3. ~SomeOpen  BY <1>1, NoneOpen DEF AheadTrue
<1>4. SendTrue' /\ ~Finishing'
  BY <1>2, TopFields DEF SendTrue, Finishing
<1>5. ControlsTrue'  BY <1>1, <1>2 DEF ControlsTrue
<1>6. \A m \in Messages : Finished(m) => Finished(m)'  BY <1>2 DEF Finished
<1>7. SteersTrue'  BY <1>1, <1>2, <1>3, <1>4, <1>6, SteersStay
<1>8. ASSUME NEW m \in Selected
      PROVE  m \in Messages /\ m \notin priority.step /\ given[m] = 0
  <2>1. m \in (cursor + 1)..pub.msg /\ controls[m] # "delivered"  BY DEF Selected, Unread, Accepts
  <2>2. m \in Messages /\ ~(m <= cursor)
    <3>1. pub.msg <= N
      BY <1>1, Typed, PubFields, SizeAssumption DEF TypeOK
    <3>. QED  BY <1>1, <2>1, <3>1, SizeAssumption DEF Messages
  <2>3. m \notin priority.step
    <3>. SUFFICES ASSUME m \in priority.step PROVE FALSE  OBVIOUS
    <3>1. PICK n \in Messages : Steers(n)  BY <1>1, NoPlanFields DEF SteersTrue
    <3>2. Finished(m)  BY <1>3, <3>1 DEF Steers
    <3>. QED  BY <2>1, <2>2, <3>2 DEF Finished
  <2>4. ~Held(m)  BY <1>1, <2>1, <2>2, <2>3, NoPlanFields DEF Held
  <2>5. given[m] \in Nat  BY <1>1, <2>2, SizeAssumption DEF Messages
  <2>. QED  BY <1>1, <2>2, <2>3, <2>4, <2>5 DEF GivenTrue
<1>9. GivenTrue'
  <2>1. Taken(priority)' <=> Taken(priority)  BY <1>2 DEF Taken, Sent
  <2>2. Fresh(priority)'  BY <1>1, <1>2, <2>1 DEF GivenTrue, Fresh, Busy
  <2>3. Fresh(chat)'  BY <1>2, <1>8 DEF Fresh
  <2>4. \A m \in Messages : Held(m) => Held(m)'
    BY <1>1, <1>2, <2>1, NoPlanFields DEF Held
  <2>5. chat'.step \cap priority'.step = {}  BY <1>2, <1>8
  <2>. QED  BY <1>1, <1>2, <2>2, <2>3, <2>4, <2>5 DEF GivenTrue
<1>10. WakeTrue'  BY <1>1, <1>2, WakeStays
<1>. QED  BY <1>4, <1>5, <1>7, <1>9, <1>10 DEF OnceTrue

(* A step of publish that changes the controls or the read position.       *)
LEMMA PositionOnce ==
  ASSUME ReceiverInv, ReceiverInv', OnceTrue, SendTrue',
         UNCHANGED <<chat, priority, wake, given, journal, entered, confirmed, acq, claims,
                     revoked, paused>>,
         cursor <= cursor',
         \A m \in Messages : controls[m] = "delivered"
                               => controls'[m] = "delivered" \/ m <= cursor',
         \A m \in Messages : Live(m) /\ SomeOpen => Live(m)' /\ SomeOpen',
         \A m \in Messages : Finished(m) => Finished(m)',
         Finishing' => Finishing,
         \A m \in Messages : controls[m] \in {"none", "interrupting"} => controls'[m] = controls[m]
  PROVE  OnceTrue'
<1>1. /\ TypeOK /\ TypeOK' /\ AcqTrue /\ ControlsTrue /\ SteersTrue /\ GivenTrue /\ WakeTrue
  BY DEF ReceiverInv, OnceTrue
<1>2. acq.at \in {"capture", "interrupt"} => acq.msg \in Messages
  BY <1>1, Typed, SizeAssumption DEF AcqTrue, Messages
<1>3. ControlsTrue'  BY <1>1, <1>2 DEF ControlsTrue
<1>4. SteersTrue'  BY <1>1, SteersStay
<1>5. GivenTrue' /\ WakeTrue'  BY <1>1, GivenStays, WakeStays
<1>. QED  BY <1>3, <1>4, <1>5 DEF OnceTrue

LEMMA CheckpointOnce ==
  ASSUME ReceiverInv, ReceiverInv', OnceTrue, Skim \/ CheckpointControls
  PROVE  OnceTrue'
<1>1. /\ TypeOK /\ PubTrue /\ PlansTrue /\ SendTrue /\ pub \in Pub /\ cursor \in Nat
      /\ chat.upto \in Nat /\ chat.base \in Nat /\ pub.msg \in Nat
  <2>1. TypeOK /\ PubTrue /\ PlansTrue /\ SendTrue /\ pub \in Pub
    BY DEF ReceiverInv, OnceTrue, TypeOK
  <2>2. cursor \in Nat /\ chat.upto \in Nat /\ chat.base \in Nat
    BY <2>1, Typed, SizeAssumption
  <2>. QED  BY <2>1, <2>2, PubFields, SizeAssumption
<1>2. /\ UNCHANGED <<chat, priority, wake, given, journal, entered, confirmed, acq, claims,
                     revoked, paused, cursor, ordinary>>
  BY DEF Skim, CheckpointControls, planVars, sessionVars, roomVars
<1>3. \A m \in Messages :
        \/ controls'[m] = controls[m]
        \/ controls[m] \in {"delivered", "superseded"} /\ controls'[m] = "none" /\ m <= cursor
  <2>1. CASE Skim
    <3>1. Checkpoint((pub.msg + 1)..cursor)  BY <2>1 DEF Skim
    <3>. QED  BY <1>1, <3>1, SizeAssumption DEF Checkpoint, Messages
  <2>2. CASE CheckpointControls
    <3>1. Checkpoint((chat.base + 1)..chat.upto) /\ pub.at = "checkpoint"
      BY <2>2 DEF CheckpointControls
    <3>2. cursor = chat.upto  BY <1>1, <3>1 DEF SendTrue, PubTrue
    <3>. QED  BY <1>1, <3>1, <3>2, SizeAssumption DEF Checkpoint, Messages
  <2>. QED  BY <2>1, <2>2
<1>4. \A m \in Messages : Open(m)' <=> Open(m)  BY <1>3 DEF Open
<1>5. SomeOpen' <=> SomeOpen  BY <1>4 DEF SomeOpen
<1>6. SendTrue' /\ (Finishing' => Finishing)
  <2>1. CASE pub' = Top  BY <2>1, TopFields DEF SendTrue, Finishing
  <2>2. CASE CheckpointControls
    <3>1. pub.kind = "chat" /\ pub.at = "checkpoint" /\ pub'.at = "forget" /\ pub'.kind = "chat"
      BY <1>1, <2>2, GoFields DEF CheckpointControls, Sends, PubTrue
    <3>2. cursor = chat.upto /\ ordinary /\ ~SomeOpen  BY <1>1, <3>1 DEF SendTrue
    <3>. QED  BY <1>2, <1>5, <3>1, <3>2 DEF SendTrue, Finishing, Sends
  <2>. QED  BY <2>1, <2>2 DEF Skim
<1>7. \A m \in Messages : Live(m) => Live(m)'
  <2>. SUFFICES ASSUME NEW m \in Messages, Live(m) PROVE Live(m)'  OBVIOUS
  <2>1. ~(m <= cursor)  BY <1>1, SizeAssumption DEF Live, Messages
  <2>. QED  BY <1>2, <1>3, <2>1 DEF Live
<1>8. \A m \in Messages : Finished(m) => Finished(m)'  BY <1>2, <1>3 DEF Finished
<1>9. cursor <= cursor'  BY <1>1, <1>2
<1>. QED  BY <1>2, <1>3, <1>5, <1>6, <1>7, <1>8, <1>9, PositionOnce

LEMMA AcceptedOnce ==
  ASSUME ReceiverInv, ReceiverInv', OnceTrue, Accepted
  PROVE  OnceTrue'
<1>1. /\ TypeOK /\ TypeOK' /\ AcqTrue /\ PubTrue /\ PlansTrue /\ SendTrue /\ SteersTrue
      /\ ControlsTrue /\ GivenTrue /\ WakeTrue /\ pub \in Pub
      /\ pub.at = "accepted" /\ Go("forget") /\ cursor \in Nat
  BY Typed DEF ReceiverInv, OnceTrue, TypeOK, Accepted
<1>2. /\ UNCHANGED <<chat, priority, wake, given, journal, entered, confirmed, acq, claims,
                     revoked, paused, cursor, ordinary>>
      /\ controls' = [m \in Messages |-> IF m \in Current.step /\ controls[m] # "none"
                                         THEN "delivered" ELSE controls[m]]
  BY DEF Accepted, planVars, sessionVars, roomVars
<1>3. /\ pub.kind \in {"steer", "resume"} /\ Current = priority /\ priority # NoPlan
  BY <1>1, CurrentIs, NoPlanFields DEF SendTrue, PubTrue, Sends
<1>4. PICK n \in Messages : Steers(n)  BY <1>1, <1>3 DEF SteersTrue
<1>5. priority.step = {n} /\ priority.status = "delivered" /\ controls[n] # "interrupting"
  BY <1>1, <1>3, <1>4 DEF Steers, PubTrue, Ends, Live, Finished
<1>6. \A m \in Messages : controls'[m] = IF m = n /\ controls[n] # "none"
                                         THEN "delivered" ELSE controls[m]
  BY <1>2, <1>3, <1>5
<1>7. pub'.at = "forget" /\ pub'.kind \in {"steer", "resume"}
  BY <1>1, <1>3, GoFields DEF Sends
<1>8. SendTrue'  BY <1>7 DEF SendTrue
<1>9. ControlsTrue'
  <2>1. acq.at \in {"capture", "interrupt"} => acq.msg \in Messages
    BY <1>1, Typed, SizeAssumption DEF AcqTrue, Messages
  <2>. QED  BY <1>1, <1>2, <1>5, <1>6, <2>1 DEF ControlsTrue
<1>10. SteersTrue'
  <2>1. Finished(n)'
    BY <1>2, <1>4, <1>6 DEF Steers, Live, Finished
  <2>. QED  BY <1>2, <1>5, <2>1 DEF SteersTrue, Steers
<1>11. GivenTrue' /\ WakeTrue'
  BY <1>1, <1>2, <1>6, GivenStays, WakeStays
<1>. QED  BY <1>8, <1>9, <1>10, <1>11 DEF OnceTrue

(* The position moves: no steering waits, so what it passes is settled.    *)
LEMMA CursorOnce ==
  ASSUME ReceiverInv, ReceiverInv', AheadTrue, OnceTrue, MoveCursor \/ CollectDelivered
  PROVE  OnceTrue'
<1>1. /\ TypeOK /\ TypeOK' /\ PubTrue /\ PlansTrue /\ SendTrue /\ pub \in Pub
      /\ cursor \in Nat /\ chat.upto \in Nat /\ chat.base \in Nat /\ pub.msg \in Nat
  <2>1. TypeOK /\ TypeOK' /\ PubTrue /\ PlansTrue /\ SendTrue /\ pub \in Pub
    BY DEF ReceiverInv, OnceTrue, TypeOK
  <2>2. cursor \in Nat /\ chat.upto \in Nat /\ chat.base \in Nat
    BY <2>1, Typed, SizeAssumption
  <2>. QED  BY <2>1, <2>2, PubFields, SizeAssumption
<1>2. /\ UNCHANGED <<chat, priority, wake, given, journal, entered, confirmed, acq, claims,
                     revoked, paused, controls, ordinary>>
  BY DEF MoveCursor, CollectDelivered, planVars, sessionVars, roomVars, steerVars
<1>3. CASE MoveCursor
  <2>1. /\ cursor' = chat.upto /\ pub.kind = "chat" /\ pub'.kind = "chat"
        /\ pub.at = "cursor" /\ pub'.at = "checkpoint"
    BY <1>1, <1>3, GoFields DEF MoveCursor, PubTrue, Sends
  <2>2. chat # NoPlan  BY <1>1, <2>1, CurrentIs, NoPlanFields DEF PubTrue, Sends
  <2>3. cursor <= cursor' /\ cursor' \in Nat  BY <1>1, <2>1, <2>2 DEF PlansTrue
  <2>4. ordinary /\ ~SomeOpen  BY <1>1, <2>1 DEF SendTrue
  <2>5. SomeOpen' <=> SomeOpen  BY <1>2 DEF SomeOpen, Open
  <2>6. SendTrue' /\ ~Finishing'
    BY <1>2, <2>1, <2>4, <2>5 DEF SendTrue, Finishing, Sends
  <2>7. \A m \in Messages : Finished(m) => Finished(m)'
    BY <1>1, <1>2, <2>3, SizeAssumption DEF Finished, Messages
  <2>. QED  BY <1>2, <2>3, <2>4, <2>6, <2>7, PositionOnce
<1>4. CASE CollectDelivered
  <2>1. /\ cursor' = pub.msg /\ pub.at = "collect" /\ Urgent = 0
        /\ pub' = [pub EXCEPT !.at = "skim", !.msg = cursor]
    BY <1>4 DEF CollectDelivered
  <2>2. pub'.at = "skim" /\ pub'.kind = pub.kind  BY <1>1, <2>1 DEF Pub
  <2>3. cursor <= cursor' /\ cursor' \in Nat  BY <1>1, <2>1 DEF PubTrue
  <2>4. ~SomeOpen  BY <2>1, NoneOpen DEF AheadTrue
  <2>5. pub.kind # "chat"  BY <1>1, <2>1 DEF SendTrue, Sends
  <2>6. SendTrue' /\ ~Finishing'  BY <2>2, <2>5 DEF SendTrue, Finishing
  <2>7. \A m \in Messages : Finished(m) => Finished(m)'
    BY <1>1, <1>2, <2>3, SizeAssumption DEF Finished, Messages
  <2>. QED  BY <1>2, <2>3, <2>4, <2>6, <2>7, PositionOnce
<1>. QED  BY <1>3, <1>4

(* No message is in two plans.                                             *)
LEMMA PlansDisjoint ==
  ASSUME ReceiverInv, GivenTrue
  PROVE  /\ chat.step \subseteq Messages /\ priority.step \subseteq Messages /\ 0 \notin Messages
         /\ chat.step \cap priority.step = {}
         /\ chat.step \cap wake.step = {} /\ priority.step \cap wake.step = {}
<1>1. TypeOK /\ PlansTrue  BY DEF ReceiverInv
<1>2. chat.step \subseteq Messages
  <2>1. chat.step \subseteq 0..N /\ chat.base \in 0..N  BY <1>1, Typed
  <2>. QED  BY <1>1, <2>1, SizeAssumption DEF PlansTrue, Messages
<1>3. 0 \notin Messages  BY SizeAssumption DEF Messages
<1>. QED  BY <1>1, <1>2, <1>3 DEF PlansTrue, GivenTrue, WakeInput

(* A step of the session that leaves what the history holds.               *)
LEMMA SessionOnce ==
  ASSUME OnceTrue, SendTrue', Finishing' => Finishing,
         UNCHANGED <<chat, priority, wake, given, cursor, controls, acq, revoked, paused, claims>>,
         Taken(chat)' <=> Taken(chat), Taken(priority)' <=> Taken(priority),
         Taken(wake)' <=> Taken(wake)
  PROVE  OnceTrue'
<1>1. ControlsTrue /\ SteersTrue /\ GivenTrue /\ WakeTrue  BY DEF OnceTrue
<1>2. ControlsTrue'  BY <1>1 DEF ControlsTrue
<1>3. /\ \A m \in Messages : Live(m) /\ SomeOpen => Live(m)' /\ SomeOpen'
      /\ \A m \in Messages : Finished(m) => Finished(m)'
  BY DEF Live, SomeOpen, Open, Finished
<1>4. SteersTrue'  BY <1>1, <1>3, SteersStay
<1>5. GivenTrue'
  <2>1. Fresh(chat)' /\ Fresh(priority)'  BY <1>1 DEF GivenTrue, Fresh, Busy
  <2>2. \A m \in Messages : Held(m) => Held(m)'  BY DEF Held
  <2>. QED  BY <1>1, <2>1, <2>2 DEF GivenTrue
<1>6. WakeTrue'  BY <1>1 DEF WakeTrue, Busy
<1>. QED  BY <1>2, <1>4, <1>5, <1>6 DEF OnceTrue

LEMMA JournalOnce ==
  ASSUME ReceiverInv, OnceTrue, Confirm \/ GiveBack \/ Submit
  PROVE  OnceTrue'
<1>1. /\ UNCHANGED <<chat, priority, wake, given, cursor, controls, acq, revoked, paused, claims>>
      /\ UNCHANGED <<pub, ordinary>>
  BY DEF Confirm, GiveBack, Submit, roomVars, steerVars, planVars
<1>2. SessionTrue /\ SendTrue /\ PubTrue  BY DEF ReceiverInv, OnceTrue
<1>3. SendTrue' /\ (Finishing' => Finishing)
  <2>1. \A m \in Messages : Live(m) /\ SomeOpen => Live(m)' /\ SomeOpen'
    BY <1>1 DEF Live, SomeOpen, Open
  <2>2. SomeOpen' => SomeOpen  BY <1>1 DEF SomeOpen, Open
  <2>. QED  BY <1>1, <1>2, <2>1, <2>2, Rests DEF PubTrue
<1>4. \A p \in {chat, priority, wake} : p.status = "publishing" =>
        (Sent(p) <=> p.step \in confirmed' \/ (journal' = p.step /\ entered'))
  <2>1. \A p \in {chat, priority, wake} : p.status = "publishing" => p.step # {}
    BY DEF ReceiverInv, PlansTrue, PlanTrue
  <2>2. CASE Confirm
    BY <1>2, <2>1, <2>2 DEF Confirm, Sent
  <2>3. CASE GiveBack
    BY <1>2, <2>1, <2>3 DEF GiveBack, Sent
  <2>4. CASE Submit
    <3>1. journal = {} /\ ~entered  BY <1>2, <2>4 DEF Submit, SessionTrue
    <3>. QED  BY <2>4, <3>1 DEF Submit, Sent
  <2>. QED  BY <2>2, <2>3, <2>4
<1>5. /\ Taken(chat)' <=> Taken(chat)
      /\ Taken(priority)' <=> Taken(priority)
      /\ Taken(wake)' <=> Taken(wake)
  BY <1>1, <1>4 DEF Taken, Sent
<1>. QED  BY <1>1, <1>3, <1>5, SessionOnce

LEMMA ForgetOnce ==
  ASSUME ReceiverInv, OnceTrue, Forget
  PROVE  OnceTrue'
<1>1. /\ UNCHANGED <<chat, priority, wake, given, cursor, controls, acq, revoked, paused, claims>>
      /\ UNCHANGED <<journal, entered, ordinary>>
      /\ confirmed' = confirmed \ {Current.step} /\ Go("clear") /\ pub.at = "forget"
  BY DEF Forget, roomVars, steerVars, planVars
<1>2. TypeOK /\ SessionTrue /\ SendTrue /\ PubTrue /\ PlansTrue /\ GivenTrue /\ pub \in Pub
  BY DEF ReceiverInv, OnceTrue, TypeOK
<1>3. SendTrue' /\ (Finishing' => Finishing)
  <2>1. pub'.at = "clear" /\ pub'.kind = pub.kind  BY <1>1, <1>2, GoFields DEF Sends
  <2>2. SomeOpen' <=> SomeOpen  BY <1>1 DEF SomeOpen, Open
  <2>. QED  BY <1>1, <1>2, <2>1, <2>2 DEF SendTrue, Finishing, Sends
<1>4. \A p \in {chat, priority, wake} : p.status = "publishing" => p.step # Current.step
  <2>1. \A p \in {chat, priority, wake} : p.status = "publishing" => p.step # {}
    BY <1>2 DEF PlansTrue, PlanTrue
  <2>2. Current.status = "delivered" \/ Current.step = {}  BY <1>1, <1>2 DEF PubTrue, Ends
  <2>. SUFFICES ASSUME NEW p \in {chat, priority, wake}, p.status = "publishing",
                       p.step = Current.step
                PROVE  FALSE
    OBVIOUS
  <2>3. Current.step # {} /\ Current.status = "delivered" /\ p # Current  BY <2>1, <2>2
  <2>4. Current \in {chat, priority, wake}  BY DEF Current
  <2>5. p.step \cap Current.step = {}
    BY <1>2, <2>3, <2>4, PlansDisjoint
  <2>. QED  BY <2>3, <2>5
<1>5. \A p \in {chat, priority, wake} : p.status = "publishing" =>
        (Sent(p) <=> p.step \in confirmed' \/ (journal' = p.step /\ entered'))
  BY <1>1, <1>4 DEF Sent
<1>6. /\ Taken(chat)' <=> Taken(chat)
      /\ Taken(priority)' <=> Taken(priority)
      /\ Taken(wake)' <=> Taken(wake)
  BY <1>1, <1>5 DEF Taken, Sent
<1>. QED  BY <1>1, <1>3, <1>6, SessionOnce

(* The history takes the input of a plan in once: nothing of it was there. *)
LEMMA EnterOnce ==
  ASSUME ReceiverInv, OnceTrue, Enter
  PROVE  OnceTrue'
<1>1. /\ UNCHANGED <<chat, priority, wake, cursor, controls, acq, revoked, paused, claims>>
      /\ UNCHANGED <<pub, ordinary, journal, confirmed>>
      /\ journal # {} /\ ~entered /\ entered'
      /\ given' = [m \in 0..N |-> IF m \in journal THEN given[m] + 1 ELSE given[m]]
  BY DEF Enter, roomVars, steerVars, planVars
<1>2. /\ TypeOK /\ SessionTrue /\ SendTrue /\ PubTrue /\ PlansTrue /\ SteersTrue
      /\ ControlsTrue /\ GivenTrue /\ WakeTrue /\ given \in [0..N -> Nat]
  BY Typed DEF ReceiverInv, OnceTrue
<1>3. SendTrue' /\ (Finishing' => Finishing)
  <2>1. \A m \in Messages : Live(m) /\ SomeOpen => Live(m)' /\ SomeOpen'
    BY <1>1 DEF Live, SomeOpen, Open
  <2>2. SomeOpen' => SomeOpen  BY <1>1 DEF SomeOpen, Open
  <2>. QED  BY <1>1, <1>2, <2>1, <2>2, Rests DEF PubTrue
<1>4. ControlsTrue'  BY <1>1, <1>2 DEF ControlsTrue
<1>5. SteersTrue'
  <2>1. /\ \A m \in Messages : Live(m) /\ SomeOpen => Live(m)' /\ SomeOpen'
        /\ \A m \in Messages : Finished(m) => Finished(m)'
    BY <1>1 DEF Live, SomeOpen, Open, Finished
  <2>. QED  BY <1>1, <1>2, <1>3, <2>1, SteersStay
<1>6. Owns(chat) \/ Owns(priority) \/ Owns(wake)  BY <1>1, <1>2 DEF SessionTrue
<1>7. ASSUME NEW p \in {chat, priority, wake}, Owns(p)
      PROVE  /\ Busy(p) /\ ~Taken(p)
             /\ \A q \in {chat, priority, wake} : q # p => q.step \cap journal = {}
  <2>1. p.status = "publishing" /\ p.step = journal  BY <1>7 DEF Owns
  <2>2. ~Sent(p)  BY <1>1, <1>2, <2>1 DEF Sent, SessionTrue
  <2>3. \A q \in {chat, priority, wake} : q # p => q.step \cap p.step = {}
    BY <1>2, PlansDisjoint
  <2>. QED  BY <2>1, <2>2, <2>3 DEF Busy, Taken
<1>8. \A p \in {chat, priority, wake} :
        (p.status = "publishing" /\ p.step = journal => ~Taken(p))
  BY <1>7 DEF Owns
<1>9. /\ Taken(chat)' <=> Taken(chat) \/ Owns(chat)
      /\ Taken(priority)' <=> Taken(priority) \/ Owns(priority)
      /\ Taken(wake)' <=> Taken(wake) \/ Owns(wake)
  BY <1>1 DEF Taken, Sent, Owns
<1>10. /\ chat.step \subseteq Messages /\ priority.step \subseteq Messages /\ 0 \notin Messages
       /\ \A m \in Messages : m \in 0..N
       /\ 0 \in 0..N
  BY <1>2, PlansDisjoint, SizeAssumption DEF Messages
<1>11. \A m \in journal : m \in Messages => given[m] = 0
  <2>1. CASE Owns(chat)
    BY <1>2, <1>7, <2>1 DEF GivenTrue, Fresh, Owns
  <2>2. CASE Owns(priority)
    BY <1>2, <1>7, <2>2 DEF GivenTrue, Fresh, Owns
  <2>3. CASE Owns(wake)
    <3>1. journal \subseteq WakeInput  BY <1>2, <2>3 DEF PlansTrue, Owns
    <3>. QED  BY <1>10, <3>1 DEF WakeInput
  <2>. QED  BY <1>6, <2>1, <2>2, <2>3
<1>12. \A m \in Messages : given'[m] = IF m \in journal THEN 1 ELSE given[m]
  BY <1>1, <1>10, <1>11
<1>13. GivenTrue'
  <2>1. Fresh(chat)' /\ Fresh(priority)'
    <3>1. ASSUME NEW p \in {chat, priority}, Busy(p), ~Taken(p), ~Owns(p)
          PROVE  \A m \in p.step : given'[m] = 0
      <4>1. \A m \in p.step : given[m] = 0  BY <1>2, <3>1 DEF GivenTrue, Fresh
      <4>2. p.step \cap journal = {}  BY <1>6, <1>7, <3>1
      <4>3. p.step \subseteq Messages  BY <1>10, <3>1
      <4>. QED  BY <1>12, <4>1, <4>2, <4>3
    <3>. QED  BY <1>1, <1>9, <3>1 DEF Fresh, Busy
  <2>2. ASSUME NEW m \in Messages PROVE given'[m] <= 1 /\ (given'[m] > 0 => Held(m)')
    <3>1. CASE m \in journal
      <4>1. given'[m] = 1  BY <1>12, <3>1
      <4>2. Held(m)'
        <5>1. ~Owns(wake)  BY <1>2, <1>10, <3>1 DEF Owns, PlansTrue, WakeInput
        <5>. QED  BY <1>1, <1>6, <1>9, <3>1, <5>1 DEF Held, Owns
      <4>. QED  BY <4>1, <4>2
    <3>2. CASE m \notin journal
      <4>1. given'[m] = given[m]  BY <1>12, <3>2
      <4>2. Held(m) => Held(m)'  BY <1>1, <1>9 DEF Held
      <4>. QED  BY <1>2, <4>1, <4>2 DEF GivenTrue
    <3>. QED  BY <3>1, <3>2
  <2>. QED  BY <1>1, <1>2, <2>1, <2>2 DEF GivenTrue
<1>14. WakeTrue'
  <2>1. CASE Owns(wake)
    <3>1. given[0] < claims  BY <1>2, <1>7, <2>1 DEF WakeTrue
    <3>2. given'[0] \in {given[0], given[0] + 1}  BY <1>1, <1>10
    <3>3. given[0] \in Nat /\ claims \in Nat  BY <1>2, <1>10, SizeAssumption DEF TypeOK
    <3>4. Taken(wake)'  BY <1>9, <2>1
    <3>. QED  BY <1>1, <1>2, <3>1, <3>2, <3>3, <3>4 DEF WakeTrue
  <2>2. CASE ~Owns(wake)
    <3>1. 0 \notin journal
      BY <1>6, <1>10, <2>2 DEF Owns
    <3>2. given'[0] = given[0]  BY <1>1, <1>10, <3>1
    <3>. QED  BY <1>1, <1>2, <1>9, <2>2, <3>2 DEF WakeTrue, Busy
  <2>. QED  BY <2>1, <2>2
<1>. QED  BY <1>3, <1>4, <1>5, <1>13, <1>14 DEF OnceTrue

LEMMA OnceStep ==
  ASSUME Undisturbed, ReceiverInv, ReceiverInv', AheadTrue, OnceTrue, [Next]_vars
  PROVE  OnceTrue'
<1>1. ~Discard /\ ~AdmitRefused
  BY DEF Discard, AheadTrue, AdmitRefused, OnceTrue, ControlsTrue
<1>2. CASE Publish
  BY <1>1, <1>2, CycleOnce, WakesOnce, AdmitOnce, CollectOnce, CursorOnce, CheckpointOnce,
     SpliceOnce, PublishingOnce, JournalOnce, AcceptedOnce, ForgetOnce, ClearOnce
  DEF Publish
<1>3. CASE Acquire
  BY <1>3, QuietOnce, ControlsOnce DEF Acquire
<1>4. CASE Room \/ Enter \/ Refresh \/ GiveBack \/ WakeIneligible \/ SendFails \/ AcquireFails
           \/ Crash \/ UNCHANGED vars
  BY <1>4, QuietOnce, EnterOnce, JournalOnce, WakesOnce
<1>. QED  BY <1>2, <1>3, <1>4 DEF Next

LEMMA OnceInit ==
  ASSUME Init
  PROVE  OnceTrue
<1>1. ControlsTrue  BY AcqFields DEF Init, ControlsTrue
<1>2. SendTrue  BY TopFields DEF Init, SendTrue
<1>3. SteersTrue  BY DEF Init, SteersTrue
<1>4. GivenTrue
  BY NoPlanFields, SizeAssumption DEF Init, GivenTrue, Fresh, Busy, Messages
<1>5. WakeTrue  BY NoPlanFields, SizeAssumption DEF Init, WakeTrue, Busy
<1>. QED  BY <1>1, <1>2, <1>3, <1>4, <1>5 DEF OnceTrue

(* The three invariants hold together.                                     *)
LEMMA OnceInvariant == Undisturbed => (Spec => [](ReceiverInv /\ AheadTrue /\ OnceTrue))
<1>. SUFFICES ASSUME Undisturbed PROVE Spec => [](ReceiverInv /\ AheadTrue /\ OnceTrue)
  OBVIOUS
<1>1. Init => ReceiverInv /\ AheadTrue /\ OnceTrue  BY ReceiverInit, AheadInit, OnceInit
<1>2. ReceiverInv /\ AheadTrue /\ OnceTrue /\ [Next]_vars => (ReceiverInv /\ AheadTrue /\ OnceTrue)'
  BY ReceiverStep, AheadStep, OnceStep DEF Undisturbed
<1>. QED  BY <1>1, <1>2, PTL DEF Spec

(* Where the owner neither stops nor pauses the agent and no sender loses  *)
(* the authority to steer, the agent is given every message at most once,  *)
(* as steering or as unread chat, whatever crashes, cancelled sends and    *)
(* inputs given back there are; and a wake-up once for each claim.         *)
THEOREM GivenOnce == Undisturbed => (Spec => []EventOnce)
<1>. SUFFICES ASSUME Undisturbed PROVE Spec => []EventOnce  OBVIOUS
<1>1. OnceTrue => EventOnce  BY DEF OnceTrue, GivenTrue, WakeTrue, EventOnce
<1>. QED  BY <1>1, OnceInvariant, PTL

-----------------------------------------------------------------------------
(* Without wake-ups the session never holds the input of another plan.     *)

SurvTrue ==
  /\ ~failed /\ wake = NoPlan /\ pub.kind # "wake"
  /\ journal # {} /\ priority.status = "publishing" => journal = priority.step
  /\ pub.kind = "steer" /\ pub.at = "submit" => journal = {}
  /\ pub.kind = "resume" => pub.at \in {"recover", "accepted", "forget", "clear"}

(* While unread chat is sent no steering plan is being published.          *)
LEMMA ChatAlone ==
  ASSUME OnceTrue, pub.kind = "chat"
  PROVE  priority.status # "publishing"
<1>. SUFFICES ASSUME priority.status = "publishing" PROVE FALSE  OBVIOUS
<1>1. priority # NoPlan  BY NoPlanFields
<1>2. PICK m \in Messages : Steers(m)  BY <1>1 DEF OnceTrue, SteersTrue
<1>. QED  BY <1>2 DEF OnceTrue, SendTrue, Steers

LEMMA NeverConflicts ==
  ASSUME ReceiverInv, OnceTrue, SurvTrue
  PROVE  ~Conflict
<1>. SUFFICES ASSUME Conflict PROVE FALSE  OBVIOUS
<1>1. /\ pub.at \in {"recover", "deliver"} /\ journal # {} /\ journal # Current.step
      /\ Current.status = "publishing"
  BY DEF Conflict, ReceiverInv, PubTrue
<1>2. pub.kind = "chat"
  <2>1. pub.kind # "chat" => Current = priority  BY CurrentIs DEF SurvTrue
  <2>. QED  BY <1>1, <2>1 DEF SurvTrue
<1>3. Owns(priority)
  <2>1. Current = chat  BY <1>2, CurrentIs
  <2>2. ~Owns(wake)  BY NoPlanFields DEF SurvTrue, Owns
  <2>. QED  BY <1>1, <2>1, <2>2 DEF ReceiverInv, SessionTrue, Owns
<1>. QED  BY <1>2, <1>3, ChatAlone DEF Owns

(* A step that keeps the session and the steering plan.                    *)
LEMMA SurvStays ==
  ASSUME SurvTrue, UNCHANGED <<failed, wake, journal, priority>>,
         \/ pub' = pub \/ pub' = Top \/ pub' = Resumed
         \/ /\ pub'.kind = pub.kind \/ pub'.kind \in {"none", "steer", "chat"}
            /\ pub'.kind = "steer" => pub'.at # "submit" \/ journal = {}
            /\ pub'.kind = "resume" => pub'.at \in {"recover", "accepted", "forget", "clear"}
  PROVE  SurvTrue'
<1>1. CASE pub' = pub  BY <1>1 DEF SurvTrue
<1>2. CASE pub' = Top \/ pub' = Resumed
  <2>1. pub'.kind = "none"  BY <1>2, TopFields
  <2>. QED  BY <2>1 DEF SurvTrue
<1>. QED  BY <1>1, <1>2 DEF SurvTrue

LEMMA QuietSurvives ==
  ASSUME Wakes = 0, TypeOK, AheadTrue, SurvTrue,
         Room \/ Acquire \/ Refresh \/ AcquireFails \/ SendFails \/ Crash \/ UNCHANGED vars
         \/ Discard \/ ChoosePaused \/ CollectNothing \/ AdmitRefused \/ Collect \/ Skim
         \/ ChooseWake \/ WakeIneligible \/ Enter
  PROVE  SurvTrue'
<1>1. CASE Room \/ Refresh \/ AcquireFails \/ SendFails \/ Crash \/ UNCHANGED vars \/ Enter
  <2>1. UNCHANGED <<failed, wake, journal, priority>>
    BY <1>1 DEF Room, Post, Pause, Unpause, Revoke, Refresh, AcquireFails, SendFails, Crash,
                Enter, vars, planVars, sessionVars
  <2>2. pub' = pub \/ pub' = Top \/ pub' = Resumed
    BY <1>1 DEF Room, Post, Pause, Unpause, Revoke, Refresh, AcquireFails, SendFails, Crash,
                Enter, vars, Cancelled
  <2>. QED  BY <2>1, <2>2, SurvStays
<1>2. CASE Acquire
  <2>1. UNCHANGED <<failed, wake, journal, priority>>
    BY <1>2 DEF Acquire, Initialize, Sync, Pass, Preempt, Capture, InterruptTurn,
                CancelDelivery, Synchronized, planVars, sessionVars
  <2>2. pub' = pub \/ pub' = Top \/ pub' = Resumed
    BY <1>2 DEF Acquire, Initialize, Sync, Pass, Preempt, Capture, InterruptTurn,
                CancelDelivery, Synchronized, Cancelled
  <2>. QED  BY <2>1, <2>2, SurvStays
<1>3. CASE ChoosePaused \/ CollectNothing \/ AdmitRefused \/ Collect \/ Skim
  <2>1. UNCHANGED <<failed, wake, journal, priority>> /\ pub' = Top
    BY <1>3 DEF ChoosePaused, CollectNothing, AdmitRefused, Collect, Skim, planVars, sessionVars
  <2>. QED  BY <2>1, SurvStays
<1>4. ~Discard  BY DEF Discard, AheadTrue
<1>5. ~WakeIneligible  BY DEF WakeIneligible, SurvTrue
<1>6. ~ChooseWake
  <2>1. claims \in 0..0  BY DEF TypeOK
  <2>2. ~(claims < Wakes)  BY <2>1
  <2>. QED  BY <2>2 DEF ChooseWake, SurvTrue
<1>. QED  BY <1>1, <1>2, <1>3, <1>4, <1>5, <1>6

(* Where publish goes next.                                                *)
LEMMA MovesSurvive ==
  ASSUME ReceiverInv, OnceTrue, SurvTrue,
         \/ BeginCycle \/ ChooseSteering \/ ChooseChat \/ ChoosePrepare \/ StartCollect
         \/ CollectDelivered \/ PublishDone \/ PublishNew \/ PublishAgain \/ Settled
         \/ Accepted \/ MoveCursor \/ CheckpointControls \/ Forget
  PROVE  SurvTrue'
<1>1. /\ UNCHANGED <<failed, wake, journal, priority>> /\ pub \in Pub /\ PubTrue /\ SendTrue
  BY DEF ReceiverInv, TypeOK, OnceTrue, BeginCycle, ChooseSteering, ChooseChat, ChoosePrepare,
         StartCollect, CollectDelivered, PublishDone, PublishNew, PublishAgain, Settled,
         Accepted, MoveCursor, CheckpointControls, Forget, planVars, sessionVars
<1>2. CASE BeginCycle
  <2>1. \/ pub' = [Top EXCEPT !.at = "recover", !.kind = "resume"]
        \/ pub' = [Top EXCEPT !.at = "accepted", !.kind = "resume"]
        \/ pub' = [Top EXCEPT !.at = "choose"]
    BY <1>2 DEF BeginCycle
  <2>2. pub'.at \in {"recover", "accepted", "choose"} /\ pub'.kind \in {"none", "resume"}
        /\ (pub'.kind = "resume" => pub'.at # "choose")
    BY <2>1 DEF Top
  <2>. QED  BY <1>1, <2>2 DEF SurvTrue
<1>3. CASE ChooseSteering
  <2>1. pub'.at = "admit" /\ pub'.kind = "steer"  BY <1>3 DEF ChooseSteering
  <2>. QED  BY <1>1, <2>1, SurvStays
<1>4. CASE ChooseChat
  <2>1. pub' = Top \/ pub' = [Top EXCEPT !.at = "publish", !.kind = "chat"]
    BY <1>4 DEF ChooseChat
  <2>2. CASE pub' = [Top EXCEPT !.at = "publish", !.kind = "chat"]
    <3>1. pub'.kind = "chat"  BY <2>2 DEF Top
    <3>. QED  BY <1>1, <3>1, SurvStays
  <2>. QED  BY <1>1, <2>1, <2>2, SurvStays
<1>5. CASE ChoosePrepare
  <2>1. pub.at = "choose" /\ pub'.at = "prepare" /\ pub'.kind = pub.kind
    BY <1>1, <1>5, GoFields DEF ChoosePrepare
  <2>. QED  BY <1>1, <2>1 DEF SurvTrue
<1>6. CASE StartCollect
  <2>1. pub' = Top \/ pub' = [Top EXCEPT !.at = "collect", !.msg = since]
    BY <1>6 DEF StartCollect
  <2>2. CASE pub' = [Top EXCEPT !.at = "collect", !.msg = since]
    <3>1. pub'.kind = "none"  BY <2>2 DEF Top
    <3>. QED  BY <1>1, <3>1, SurvStays
  <2>. QED  BY <1>1, <2>1, <2>2, SurvStays
<1>7. CASE CollectDelivered
  <2>1. pub.at = "collect" /\ pub'.at = "skim" /\ pub'.kind = pub.kind
    BY <1>1, <1>7 DEF CollectDelivered, Pub
  <2>. QED  BY <1>1, <2>1 DEF SurvTrue
<1>8. CASE PublishDone \/ PublishNew \/ PublishAgain
  <2>1. pub.at = "publish" /\ pub.kind # "resume"
    BY <1>8 DEF PublishDone, PublishNew, PublishAgain, SurvTrue
  <2>2. PICK p \in Sends : Go(p) /\ (p = "submit" => pub.kind # "steer")
    BY <1>8 DEF PublishDone, PublishNew, PublishAgain, Sends
  <2>3. pub'.at = p /\ pub'.kind = pub.kind  BY <1>1, <2>2, GoFields
  <2>. QED  BY <1>1, <2>1, <2>2, <2>3 DEF SurvTrue
<1>9. CASE Settled
  <2>1. pub.at = "settle" /\ journal = {} /\ pub'.at = "submit" /\ pub'.kind = pub.kind
    BY <1>1, <1>9, GoFields DEF Settled, Sends
  <2>. QED  BY <1>1, <2>1 DEF SurvTrue
<1>10. CASE Accepted \/ MoveCursor \/ CheckpointControls \/ Forget
  <2>1. PICK p \in {"forget", "checkpoint", "clear"} :
          Go(p) /\ (p = "checkpoint" \/ MoveCursor => pub.kind = "chat")
    BY <1>1, <1>10 DEF Accepted, MoveCursor, CheckpointControls, Forget, PubTrue
  <2>2. pub'.at = p /\ pub'.kind = pub.kind  BY <1>1, <2>1, GoFields DEF Sends
  <2>. QED  BY <1>1, <2>1, <2>2 DEF SurvTrue
<1>. QED
  BY <1>2, <1>3, <1>4, <1>5, <1>6, <1>7, <1>8, <1>9, <1>10

LEMMA SendSurvives ==
  ASSUME ReceiverInv, OnceTrue, SurvTrue,
         \/ Admit \/ Confirm \/ GiveBack \/ Submit
         \/ Splice \/ RecoverReceived \/ RecoverAbsent \/ SavePublishing \/ Delivered \/ Clear
  PROVE  SurvTrue'
<1>1. pub \in Pub /\ PubTrue /\ SendTrue /\ TypeOK
  BY DEF ReceiverInv, TypeOK, OnceTrue
<1>2. CASE Admit
  <2>1. /\ UNCHANGED <<failed, wake, journal>> /\ pub.at = "admit" /\ pub.kind = "steer"
        /\ pub' = Top \/ pub' = [pub EXCEPT !.at = "publish"]
        /\ \/ priority' = priority
           \/ priority' = [NoPlan EXCEPT !.step = {pub.msg}, !.status = "prepared"]
    BY <1>1, <1>2 DEF Admit, sessionVars, PubTrue
  <2>2. pub'.at \in {"top", "publish"} /\ pub'.kind \in {"none", "steer"}
    BY <1>1, <2>1, TopFields DEF Pub
  <2>3. priority' = priority \/ priority'.status = "prepared"
    BY <2>1 DEF NoPlan
  <2>. QED  BY <2>1, <2>2, <2>3 DEF SurvTrue
<1>3. CASE Confirm \/ GiveBack
  <2>1. UNCHANGED <<failed, wake, priority, pub>> /\ journal' = {}
    BY <1>3 DEF Confirm, GiveBack, planVars
  <2>. QED  BY <2>1 DEF SurvTrue
<1>4. CASE Submit
  <2>1. UNCHANGED <<failed, wake, priority, pub>> /\ journal' = Current.step /\ pub.at = "deliver"
    BY <1>4 DEF Submit, planVars
  <2>2. Current = priority \/ priority.status # "publishing"
    BY ChatAlone, CurrentIs DEF SurvTrue
  <2>. QED  BY <2>1, <2>2 DEF SurvTrue
<1>5. CASE Splice \/ RecoverReceived \/ RecoverAbsent \/ SavePublishing \/ Delivered \/ Clear
  <2>1. /\ UNCHANGED <<failed, journal>> /\ pub.at \in Sends
    BY <1>5 DEF Splice, RecoverReceived, RecoverAbsent, SavePublishing, Delivered, Clear,
                sessionVars, Sends
  <2>2. pub.kind \in {"resume", "steer", "chat"}
    BY <1>1, <2>1, PubFields DEF PubTrue, SurvTrue
  <2>3. PICK q : Put(q) /\ (pub.kind \in {"resume", "steer"} /\ q.status = "publishing" =>
                              /\ q.step = priority.step
                              /\ journal = {} \/ priority.status = "publishing")
    <3>0. Current \in Plan  BY <1>1, CurrentTyped
    <3>1. CASE Clear  BY <3>1, NoPlanFields DEF Clear
    <3>2. CASE Splice
      <4>1. Put([Current EXCEPT !.step = Remaining, !.status = "prepared"])  BY <3>2 DEF Splice
      <4>2. [Current EXCEPT !.step = Remaining, !.status = "prepared"].status = "prepared"
        BY <3>0 DEF Plan
      <4>. QED  BY <4>1, <4>2
    <3>3. CASE RecoverReceived \/ Delivered
      <4>1. Put([Current EXCEPT !.status = "delivered"])
        BY <3>3 DEF RecoverReceived, Delivered
      <4>2. [Current EXCEPT !.status = "delivered"].status = "delivered"  BY <3>0 DEF Plan
      <4>. QED  BY <4>1, <4>2
    <3>4. CASE SavePublishing
      <4>1. Put([Current EXCEPT !.status = "publishing"]) /\ pub.at = "submit"
        BY <3>4 DEF SavePublishing
      <4>2. [Current EXCEPT !.status = "publishing"].step = Current.step  BY <3>0 DEF Plan
      <4>3. pub.kind \in {"resume", "steer"} => journal = {} /\ Current = priority
        BY <4>1, CurrentIs DEF SurvTrue
      <4>. QED  BY <4>1, <4>2, <4>3
    <3>5. CASE RecoverAbsent
      <4>. DEFINE st == IF pub.kind \in {"resume", "wake"} THEN "prepared" ELSE Current.status
      <4>1. Put([Current EXCEPT !.status = st]) /\ journal = {}
        BY <3>5 DEF RecoverAbsent
      <4>2. [Current EXCEPT !.status = st].step = Current.step
        BY <3>0 DEF Plan
      <4>3. pub.kind \in {"resume", "steer"} => Current = priority  BY CurrentIs
      <4>. QED  BY <4>1, <4>2, <4>3
    <3>. QED  BY <1>5, <3>1, <3>2, <3>3, <3>4, <3>5
  <2>4. wake' = wake  BY <2>2, <2>3, PutIs
  <2>5. journal' # {} /\ priority'.status = "publishing" => journal' = priority'.step
    <3>1. pub.kind = "chat" => priority' = priority  BY <2>3, PutIs
    <3>2. pub.kind \in {"resume", "steer"} => priority' = q  BY <2>3, PutIs
    <3>. QED  BY <2>1, <2>2, <2>3, <3>1, <3>2 DEF SurvTrue
  <2>6. /\ pub'.kind \in {pub.kind, "none"}
        /\ pub'.kind = "steer" => pub'.at # "submit"
        /\ pub'.kind = "resume" => pub'.at \in {"recover", "accepted", "forget", "clear"}
    <3>1. CASE pub' = Resumed  BY <3>1, TopFields
    <3>2. CASE \E p \in Sends : Go(p) /\ (p = "submit" => pub.kind # "steer")
                                /\ (pub.kind = "resume" => p = "accepted")
      <4>1. PICK p \in Sends : Go(p) /\ (p = "submit" => pub.kind # "steer")
                               /\ (pub.kind = "resume" => p = "accepted")
        BY <3>2
      <4>2. pub'.at = p /\ pub'.kind = pub.kind  BY <1>1, <4>1, GoFields
      <4>. QED  BY <4>1, <4>2
    <3>3. CASE Splice
      <4>1. Go("publish") /\ pub.kind = "chat"  BY <3>3, CurrentIs DEF Splice, Remaining
      <4>. QED  BY <3>2, <4>1 DEF Sends
    <3>4. CASE RecoverReceived
      <4>1. Go(IF pub.kind = "resume" THEN "accepted" ELSE "publish")  BY <3>4 DEF RecoverReceived
      <4>. QED  BY <3>2, <4>1 DEF Sends
    <3>5. CASE SavePublishing \/ Delivered
      <4>1. pub.kind # "resume" /\ (Go("deliver") \/ Go("publish"))
        BY <3>5 DEF SavePublishing, Delivered, SurvTrue
      <4>. QED  BY <3>2, <4>1 DEF Sends
    <3>6. CASE RecoverAbsent
      <4>1. \/ pub' = Resumed
            \/ pub.kind = "steer" /\ Go("settle")
            \/ pub.kind = "chat" /\ Go("submit")
        BY <2>2, <3>6 DEF RecoverAbsent
      <4>. QED  BY <3>1, <3>2, <4>1 DEF Sends
    <3>7. CASE Clear  BY <3>1, <3>7 DEF Clear
    <3>. QED  BY <1>5, <3>3, <3>4, <3>5, <3>6, <3>7
  <2>. QED  BY <2>1, <2>2, <2>4, <2>5, <2>6 DEF SurvTrue
<1>. QED  BY <1>2, <1>3, <1>4, <1>5

LEMMA SurvStep ==
  ASSUME Wakes = 0, ReceiverInv, AheadTrue, OnceTrue, SurvTrue, [Next]_vars
  PROVE  SurvTrue'
<1>1. TypeOK /\ ~Conflict  BY NeverConflicts DEF ReceiverInv
<1>2. CASE Publish
  BY <1>1, <1>2, QuietSurvives, MovesSurvive, SendSurvives DEF Publish
<1>3. CASE Room \/ Enter \/ Acquire \/ Refresh \/ GiveBack \/ WakeIneligible \/ SendFails
           \/ AcquireFails \/ Crash \/ UNCHANGED vars
  BY <1>1, <1>3, QuietSurvives, SendSurvives
<1>. QED  BY <1>2, <1>3 DEF Next

LEMMA SurvInit ==
  ASSUME Init
  PROVE  SurvTrue
BY TopFields, NoPlanFields DEF Init, SurvTrue

(* Without wake-ups too, the two loops never bring the session or a plan   *)
(* into a state that publication refuses: no run ends with that error.     *)
THEOREM RunNeverRefused == Undisturbed /\ Wakes = 0 => (Spec => []RunSurvives)
<1>. SUFFICES ASSUME Undisturbed, Wakes = 0 PROVE Spec => []RunSurvives  OBVIOUS
<1>1. Init => SurvTrue  BY SurvInit
<1>2. ReceiverInv /\ AheadTrue /\ OnceTrue /\ SurvTrue /\ [Next]_vars => SurvTrue'
  BY SurvStep
<1>3. SurvTrue => RunSurvives  BY DEF SurvTrue, RunSurvives
<1>. QED  BY <1>1, <1>2, <1>3, OnceInvariant, PTL DEF Spec

=============================================================================
