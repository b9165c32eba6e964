------------------------- MODULE ReceiverPublication -------------------------
(***************************************************************************)
(* The listener of one agent with one shared native history (agent-core    *)
(* listener/, chat_publication.rs, source_control.rs, receive_state.rs,    *)
(* scheduled.rs).  Two loops run concurrently.  acquire follows the rooms, *)
(* finds mentions that steer the agent and interrupts what is running.     *)
(* publish owns the native input: steering first, then unread chat, then   *)
(* scheduled wake-ups.  Every plan is a durable file; the read position    *)
(* moves only after its plan has been delivered.                           *)
(*                                                                         *)
(* The native session is the journal of NativeDelivery reduced to its      *)
(* contract: one pending input, its entry in the history, confirmations.   *)
(*                                                                         *)
(* Abstractions.  One room, messages 1..N in order.  An input is the set   *)
(* of messages it carries: its identity is a hash of exactly these.  The   *)
(* scheduled wake-up is the input {0}.  The read position moves with the   *)
(* write of its .ack file, which flush and initialize carry through.       *)
(* Muted rooms, queries, controller input and release notices are left     *)
(* out; Refresh stands for every change of the policy that cancels a send. *)
(***************************************************************************)
EXTENDS Naturals, FiniteSets

CONSTANTS N,         \* messages in the room
          Mentions,  \* messages that mention the agent
          Stops,     \* the owner's "!!" messages
          Wakes,     \* scheduled wake-ups to claim
          MayPause,  \* the controller pauses and resumes delivery
          MayRevoke, \* a sender loses the authority to steer
          MaxFaults  \* bound on crashes, failed or cancelled sends, pauses,
                     \* revocations and inputs given back

Messages == 1..N
ASSUME SizeAssumption == N \in Nat /\ Wakes \in Nat /\ MaxFaults \in Nat
ASSUME KindAssumption == Mentions \subseteq Messages /\ Stops \subseteq Messages
ASSUME FlagAssumption == MayPause \in BOOLEAN /\ MayRevoke \in BOOLEAN

VARIABLES
  posted,     \* messages in the room so far
  revoked,    \* messages whose sender may no longer steer
  active,     \* the controller admits delivery
  since,      \* durable: the sync position acquire has worked up to
  cursor,     \* durable: the read position
  controls,   \* durable: the stage of every steering message
  paused,     \* durable: the owner said "!!"
  chat, priority, wake,  \* durable: the plans
  journal,    \* durable: the session's pending input, {} if none
  entered,    \* the history holds the pending input
  confirmed,  \* durable: the session's confirmations
  given,      \* how often the history holds each message
  acq,        \* the acquire loop
  pub,        \* the publish loop
  ordinary,   \* the token of ordinary work is live
  synced,     \* acquire has completed a pass in this run
  claims,     \* wake-ups claimed
  failed,     \* the run ended with an error that is not retried
  faults

roomVars == <<posted, revoked, active>>
planVars == <<chat, priority, wake>>
sessionVars == <<journal, entered, confirmed, given>>
steerVars == <<controls, paused>>
vars == <<roomVars, since, cursor, steerVars, planVars, sessionVars, acq, pub,
          ordinary, synced, claims, failed, faults>>

-----------------------------------------------------------------------------
Stages == {"none", "interrupting", "interrupted", "delivered", "superseded"}
Statuses == {"none", "prepared", "publishing", "delivered"}
Plan == [base : 0..N, upto : 0..N, step : SUBSET (0..N), status : Statuses]
NoPlan == [base |-> 0, upto |-> 0, step |-> {}, status |-> "none"]
WakeInput == {0}

(* Where publish is: between two awaits or two durable writes.             *)
Sends == {"publish", "recover", "settle", "submit", "deliver", "accepted",
          "cursor", "checkpoint", "forget", "clear"}
Awaits == {"recover", "settle", "deliver"}
Pub == [at : {"top", "choose", "admit", "prepare", "collect", "skim"} \cup Sends,
        kind : {"none", "resume", "steer", "chat", "wake"}, msg : 0..N]
Top == [at |-> "top", kind |-> "none", msg |-> 0]
Acq == [at : {"start", "idle", "sync", "capture", "interrupt", "cancel"},
        msg : 0..N + 1, upto : 0..N]
AcqAt(p) == [at |-> p, msg |-> 0, upto |-> 0]

Fault == faults < MaxFaults /\ faults' = faults + 1
Go(p) == pub' = [pub EXCEPT !.at = p]

Steering == Mentions \cup Stops
UrgentOnes == {m \in Messages : controls[m] = "interrupted"}
Urgent == IF UrgentOnes = {} THEN 0
          ELSE CHOOSE m \in UrgentOnes : \A o \in UrgentOnes : o <= m
(* Mutant: superseded steering is left out of unread chat.                 *)
AcceptsUntouched(m) == controls[m] \notin {"delivered", "superseded"}

(* Mutant: unread chat repeats what was delivered as steering.             *)
AcceptsAll(m) == TRUE

Accepts(m) == controls[m] # "delivered"

(* The plan a send works on.                                               *)
Current == CASE pub.kind = "chat" -> chat
             [] pub.kind = "wake" -> wake
             [] OTHER -> priority
Put(plan) ==
  /\ chat' = IF pub.kind = "chat" THEN plan ELSE chat
  /\ wake' = IF pub.kind = "wake" THEN plan ELSE wake
  /\ priority' = IF pub.kind \in {"resume", "steer"} THEN plan ELSE priority

(* What the cycle does after a send: recovery of the priority plan and     *)
(* the wake-up go on in the same cycle, the others start a new one.        *)
Resumed == CASE pub.kind = "resume" -> [Top EXCEPT !.at = "choose"]
             [] pub.kind = "wake" -> [Top EXCEPT !.at = "prepare"]
             [] OTHER -> Top
Cancelled == IF pub.at \in Sends THEN Resumed ELSE pub

Init ==
  /\ posted = 0 /\ revoked = {} /\ active = TRUE
  /\ since = 0 /\ cursor = 0
  /\ controls = [m \in Messages |-> "none"] /\ paused = FALSE
  /\ chat = NoPlan /\ priority = NoPlan /\ wake = NoPlan
  /\ journal = {} /\ entered = FALSE /\ confirmed = {}
  /\ given = [m \in 0..N |-> 0]
  /\ acq = AcqAt("start") /\ pub = Top
  /\ ordinary = TRUE /\ synced = FALSE
  /\ claims = 0 /\ failed = FALSE /\ faults = 0

-----------------------------------------------------------------------------
(* Environment: the room, the controller and the native session.           *)

Post ==
  /\ posted < N
  /\ posted' = posted + 1
  /\ UNCHANGED <<revoked, active, since, cursor, steerVars, planVars,
                 sessionVars, acq, pub, ordinary, synced, claims, failed, faults>>

Revoke(m) ==
  /\ MayRevoke
  /\ m \in Mentions \ revoked
  /\ Fault
  /\ revoked' = revoked \cup {m}
  /\ UNCHANGED <<posted, active, since, cursor, steerVars, planVars,
                 sessionVars, acq, pub, ordinary, synced, claims, failed>>

(* The controller closes delivery: the generation token drops acquisition, *)
(* preparation and the send in progress.                                   *)
Pause ==
  /\ MayPause
  /\ active
  /\ Fault
  /\ active' = FALSE
  /\ acq' = IF acq.at = "start" THEN acq ELSE AcqAt("idle")
  /\ pub' = IF pub.at \in {"prepare", "collect", "skim"} \/ pub.kind = "wake"
            THEN Top ELSE Cancelled
  /\ UNCHANGED <<posted, revoked, since, cursor, steerVars, planVars,
                 sessionVars, ordinary, synced, claims, failed>>

Unpause ==
  /\ ~active
  /\ active' = TRUE
  /\ UNCHANGED <<posted, revoked, since, cursor, steerVars, planVars,
                 sessionVars, acq, pub, ordinary, synced, claims, failed, faults>>

(* The native history takes the pending input in.                          *)
Enter ==
  /\ journal # {}
  /\ ~entered
  /\ entered' = TRUE
  /\ given' = [m \in 0..N |-> IF m \in journal THEN given[m] + 1 ELSE given[m]]
  /\ UNCHANGED <<roomVars, since, cursor, steerVars, planVars, journal,
                 confirmed, acq, pub, ordinary, synced, claims, failed, faults>>

(* A call that waits for the pending input sees its entry ...              *)
Confirm ==
  /\ pub.at \in Awaits
  /\ journal # {}
  /\ pub.at = "settle" \/ journal = Current.step
  /\ entered
  /\ journal' = {}
  /\ entered' = FALSE
  /\ confirmed' = confirmed \cup {journal}
  /\ UNCHANGED <<roomVars, since, cursor, steerVars, planVars, given, acq, pub,
                 ordinary, synced, claims, failed, faults>>

(* ... or that its turn was interrupted before it took the input.          *)
GiveBack ==
  /\ pub.at \in Awaits
  /\ journal # {}
  /\ pub.at = "settle" \/ journal = Current.step
  /\ ~entered
  /\ Fault
  /\ journal' = {}
  /\ UNCHANGED <<roomVars, since, cursor, steerVars, planVars, entered,
                 confirmed, given, acq, pub, ordinary, synced, claims, failed>>

-----------------------------------------------------------------------------
(* The acquire loop.                                                       *)

(* Mutant: interruptions of an earlier run are forgotten.                  *)
InitializeNothing ==
  /\ acq.at = "start"
  /\ acq' = AcqAt("idle")
  /\ UNCHANGED <<roomVars, since, cursor, steerVars, planVars, sessionVars, pub,
                 ordinary, synced, claims, failed, faults>>

(* initialize: interruptions of an earlier run are carried through.        *)
Initialize ==
  /\ acq.at = "start"
  /\ controls' = [m \in Messages |->
                    IF controls[m] = "interrupting"
                    THEN IF m \in Stops THEN "delivered" ELSE "interrupted"
                    ELSE controls[m]]
  /\ paused' = IF \E m \in Messages : controls[m] = "interrupting"
               THEN \E m \in Stops : controls[m] = "interrupting"
               ELSE paused
  /\ acq' = AcqAt("idle")
  /\ UNCHANGED <<roomVars, since, cursor, planVars, sessionVars, pub, ordinary,
                 synced, claims, failed, faults>>

Sync ==
  /\ acq.at = "idle"
  /\ active
  /\ since < posted \/ ~synced \/ ~ordinary
  /\ acq' = [at |-> "sync", msg |-> since + 1, upto |-> posted]
  /\ UNCHANGED <<roomVars, since, cursor, steerVars, planVars, sessionVars, pub,
                 ordinary, synced, claims, failed, faults>>

(* refresh: a changed policy cancels the send in progress.                 *)
Refresh ==
  /\ acq.at = "sync"
  /\ pub.at \in Sends
  /\ Fault
  /\ pub' = Cancelled
  /\ UNCHANGED <<roomVars, since, cursor, steerVars, planVars, sessionVars, acq,
                 ordinary, synced, claims, failed>>

(* A message that does not steer, or is a control already, is passed; the  *)
(* owner's plain text ends the owner's pause.                              *)
Pass ==
  /\ acq.at = "sync"
  /\ acq.msg <= acq.upto
  /\ acq.msg \notin Steering \ revoked \/ controls[acq.msg] # "none"
  /\ paused' \in {paused, paused /\ acq.msg \in Steering}
  /\ acq' = [acq EXCEPT !.msg = @ + 1]
  /\ UNCHANGED <<roomVars, since, cursor, controls, planVars, sessionVars, pub,
                 ordinary, synced, claims, failed, faults>>

(* Ordinary work is cancelled for a steering message ...                   *)
Preempt ==
  /\ acq.at = "sync"
  /\ acq.msg <= acq.upto
  /\ acq.msg \in Steering \ revoked
  /\ controls[acq.msg] = "none"
  /\ ordinary' = FALSE
  /\ pub' = IF pub.at \in {"collect", "skim"} THEN Top
            ELSE IF pub.kind \in {"chat", "wake"} THEN Cancelled ELSE pub
  /\ acq' = [acq EXCEPT !.at = "capture"]
  /\ UNCHANGED <<roomVars, since, cursor, steerVars, planVars, sessionVars,
                 synced, claims, failed, faults>>

(* ... and, unless its sender lost the authority meanwhile, the control is *)
(* saved and the controls that wait for their input are superseded.        *)
Capture ==
  /\ acq.at = "capture"
  /\ IF acq.msg \in revoked
     THEN /\ acq' = [acq EXCEPT !.at = "cancel"]
          /\ UNCHANGED controls
     ELSE /\ acq' = [acq EXCEPT !.at = "interrupt"]
          /\ controls' = [m \in Messages |->
                            CASE m = acq.msg -> "interrupting"
                              [] controls[m] = "interrupted" -> "superseded"
                              [] OTHER -> controls[m]]
  /\ UNCHANGED <<roomVars, since, cursor, paused, planVars, sessionVars, pub,
                 ordinary, synced, claims, failed, faults>>

(* The native turn is interrupted, or was idle.                            *)
InterruptTurn ==
  /\ acq.at = "interrupt"
  /\ controls' = [controls EXCEPT ![acq.msg] =
                    IF acq.msg \in Stops THEN "delivered" ELSE "interrupted"]
  /\ paused' = (acq.msg \in Stops)
  /\ acq' = [acq EXCEPT !.at = "cancel"]
  /\ UNCHANGED <<roomVars, since, cursor, planVars, sessionVars, pub, ordinary,
                 synced, claims, failed, faults>>

(* cancel_delivery drops the send in progress, steering included.          *)
CancelDelivery ==
  /\ acq.at = "cancel"
  /\ pub' = Cancelled
  /\ acq' = [acq EXCEPT !.at = "sync", !.msg = @ + 1]
  /\ UNCHANGED <<roomVars, since, cursor, steerVars, planVars, sessionVars,
                 ordinary, synced, claims, failed, faults>>

(* Mutant: the token of ordinary work stays cancelled.                      *)
SynchronizedOnly ==
  /\ acq.at = "sync"
  /\ acq.msg > acq.upto
  /\ since' = acq.upto
  /\ synced' = TRUE
  /\ acq' = AcqAt("idle")
  /\ UNCHANGED <<roomVars, cursor, steerVars, planVars, sessionVars, pub,
                 ordinary, claims, failed, faults>>

Synchronized ==
  /\ acq.at = "sync"
  /\ acq.msg > acq.upto
  /\ since' = acq.upto
  /\ synced' = TRUE
  /\ ordinary' = TRUE
  /\ acq' = AcqAt("idle")
  /\ UNCHANGED <<roomVars, cursor, steerVars, planVars, sessionVars, pub,
                 claims, failed, faults>>

(* A call of the pass fails: the next pass starts from the same position.  *)
(* While an interruption is not confirmed the run ends instead (Crash).    *)
AcquireFails ==
  /\ acq.at \in {"sync", "capture", "cancel"}
  /\ Fault
  /\ \A m \in Messages : controls[m] # "interrupting"
  /\ acq' = AcqAt("idle")
  /\ UNCHANGED <<roomVars, since, cursor, steerVars, planVars, sessionVars, pub,
                 ordinary, synced, claims, failed>>

-----------------------------------------------------------------------------
(* The publish loop.                                                       *)

(* Mutant: a plan the session may hold is discarded as well.                *)
DiscardAny ==
  /\ pub.at = "top"
  /\ ~active
  /\ chat # NoPlan
  /\ IF chat.status # "delivered"
     THEN chat' = NoPlan /\ UNCHANGED failed
     ELSE failed' = TRUE /\ UNCHANGED chat
  /\ UNCHANGED <<roomVars, since, cursor, steerVars, priority, wake,
                 sessionVars, acq, pub, ordinary, synced, claims, faults>>

(* The controller has closed delivery: an unpublished chat plan is         *)
(* discarded.  A delivered one is refused, and the refusal ends the run.   *)
Discard ==
  /\ pub.at = "top"
  /\ ~active
  /\ chat.status \in {"prepared", "delivered"}
  /\ IF chat.status = "prepared"
     THEN chat' = NoPlan /\ UNCHANGED failed
     ELSE failed' = TRUE /\ UNCHANGED chat
  /\ UNCHANGED <<roomVars, since, cursor, steerVars, priority, wake,
                 sessionVars, acq, pub, ordinary, synced, claims, faults>>

(* A cycle begins with what a steering plan has left.                      *)
BeginCycle ==
  /\ pub.at = "top"
  /\ active
  /\ synced
  /\ acq.at = "idle"
  /\ pub' = CASE priority.status = "publishing" ->
                   [Top EXCEPT !.at = "recover", !.kind = "resume"]
              [] priority.status = "delivered" ->
                   [Top EXCEPT !.at = "accepted", !.kind = "resume"]
              [] OTHER -> [Top EXCEPT !.at = "choose"]
  /\ UNCHANGED <<roomVars, since, cursor, steerVars, planVars, sessionVars, acq,
                 ordinary, synced, claims, failed, faults>>

MaySend == active /\ Urgent = 0 /\ ordinary

ChooseSteering ==
  /\ pub.at = "choose"
  /\ ~paused
  /\ Urgent # 0
  /\ pub' = [at |-> "admit", kind |-> "steer", msg |-> Urgent]
  /\ UNCHANGED <<roomVars, since, cursor, steerVars, planVars, sessionVars, acq,
                 ordinary, synced, claims, failed, faults>>

ChooseChat ==
  /\ pub.at = "choose"
  /\ paused \/ Urgent = 0
  /\ chat # NoPlan
  /\ pub' = IF MaySend THEN [Top EXCEPT !.at = "publish", !.kind = "chat"] ELSE Top
  /\ UNCHANGED <<roomVars, since, cursor, steerVars, planVars, sessionVars, acq,
                 ordinary, synced, claims, failed, faults>>

(* A wake-up in hand, or one claimed now, is sent; then unread chat is     *)
(* collected in the same cycle, whatever became of the send.               *)
ChooseWake ==
  /\ pub.at = "choose"
  /\ ~paused /\ Urgent = 0 /\ chat = NoPlan
  /\ \/ wake # NoPlan /\ UNCHANGED <<wake, claims>>
     \/ /\ wake = NoPlan /\ claims < Wakes /\ ordinary
        /\ wake' = [NoPlan EXCEPT !.step = WakeInput, !.status = "prepared"]
        /\ claims' = claims + 1
  /\ pub' = IF MaySend THEN [Top EXCEPT !.at = "publish", !.kind = "wake"]
            ELSE [Top EXCEPT !.at = "prepare"]
  /\ UNCHANGED <<roomVars, since, cursor, steerVars, chat, priority,
                 sessionVars, acq, ordinary, synced, failed, faults>>

ChoosePrepare ==
  /\ pub.at = "choose"
  /\ ~paused /\ Urgent = 0 /\ chat = NoPlan /\ wake = NoPlan
  /\ Go("prepare")
  /\ UNCHANGED <<roomVars, since, cursor, steerVars, planVars, sessionVars, acq,
                 ordinary, synced, claims, failed, faults>>

ChoosePaused ==
  /\ pub.at = "choose"
  /\ paused
  /\ chat = NoPlan
  /\ pub' = Top
  /\ UNCHANGED <<roomVars, since, cursor, steerVars, planVars, sessionVars, acq,
                 ordinary, synced, claims, failed, faults>>

(* urgent: the control chosen above is checked again and planned, unless a *)
(* steering plan is there already, and the plan is published.              *)
Admit ==
  /\ pub.at = "admit"
  /\ pub.msg \notin revoked
  /\ priority' = IF priority # NoPlan THEN priority
                 ELSE [NoPlan EXCEPT !.step = {pub.msg}, !.status = "prepared"]
  /\ pub' = IF active THEN [pub EXCEPT !.at = "publish"] ELSE Top
  /\ UNCHANGED <<roomVars, since, cursor, steerVars, chat, wake, sessionVars,
                 acq, ordinary, synced, claims, failed, faults>>

AdmitRefused ==
  /\ pub.at = "admit"
  /\ pub.msg \in revoked
  /\ controls' = [controls EXCEPT ![pub.msg] =
                    IF @ = "none" THEN @ ELSE "superseded"]
  /\ pub' = Top
  /\ UNCHANGED <<roomVars, since, cursor, paused, planVars, sessionVars, acq,
                 ordinary, synced, claims, failed, faults>>

(* Mutant: messages that acquire has not seen yet are collected.             *)
CollectLatest ==
  /\ pub.at = "prepare"
  /\ pub' = IF active /\ ordinary
            THEN [Top EXCEPT !.at = "collect", !.msg = posted] ELSE Top
  /\ UNCHANGED <<roomVars, since, cursor, steerVars, planVars, sessionVars, acq,
                 ordinary, synced, claims, failed, faults>>

(* prepare: the unread messages up to the synchronized boundary that was   *)
(* read at its start become one plan.                                      *)
StartCollect ==
  /\ pub.at = "prepare"
  /\ pub' = IF active /\ ordinary
            THEN [Top EXCEPT !.at = "collect", !.msg = since] ELSE Top
  /\ UNCHANGED <<roomVars, since, cursor, steerVars, planVars, sessionVars, acq,
                 ordinary, synced, claims, failed, faults>>

Unread == (cursor + 1)..pub.msg
Selected == {m \in Unread : Accepts(m)}

Collect ==
  /\ pub.at = "collect"
  /\ Urgent = 0
  /\ Selected # {}
  /\ chat' = [base |-> cursor, upto |-> pub.msg, step |-> Selected,
              status |-> "prepared"]
  /\ pub' = Top
  /\ UNCHANGED <<roomVars, since, cursor, steerVars, priority, wake,
                 sessionVars, acq, ordinary, synced, claims, failed, faults>>

CollectNothing ==
  /\ pub.at = "collect"
  /\ Urgent # 0 \/ Unread = {}
  /\ pub' = Top
  /\ UNCHANGED <<roomVars, since, cursor, steerVars, planVars, sessionVars, acq,
                 ordinary, synced, claims, failed, faults>>

Checkpoint(batch) ==
  controls' = [m \in Messages |->
                 IF m \in batch /\ controls[m] \in {"delivered", "superseded"}
                 THEN "none" ELSE controls[m]]

(* Everything unread was delivered as steering: the position moves alone.  *)
CollectDelivered ==
  /\ pub.at = "collect"
  /\ Urgent = 0
  /\ Unread # {}
  /\ Selected = {}
  /\ cursor' = pub.msg
  /\ pub' = [pub EXCEPT !.at = "skim", !.msg = cursor]
  /\ UNCHANGED <<roomVars, since, steerVars, planVars, sessionVars, acq,
                 ordinary, synced, claims, failed, faults>>

Skim ==
  /\ pub.at = "skim"
  /\ Checkpoint((pub.msg + 1)..cursor)
  /\ pub' = Top
  /\ UNCHANGED <<roomVars, since, cursor, paused, planVars, sessionVars, acq,
                 ordinary, synced, claims, failed, faults>>

-----------------------------------------------------------------------------
(* Publication of one plan.                                                *)

Remaining == IF pub.kind = "chat" THEN {m \in Current.step : Accepts(m)}
             ELSE Current.step

PublishDone ==
  /\ pub.at = "publish"
  /\ Current.status = "delivered" \/ Current.step = {}
  /\ Go(CASE pub.kind = "chat" -> "cursor"
          [] pub.kind = "wake" -> "forget"
          [] OTHER -> "accepted")
  /\ UNCHANGED <<roomVars, since, cursor, steerVars, planVars, sessionVars, acq,
                 ordinary, synced, claims, failed, faults>>

(* Messages delivered as steering meanwhile are taken out of the plan.     *)
Splice ==
  /\ \/ pub.at = "publish" /\ Current.status = "prepared"
     \/ /\ pub.at = "recover" /\ pub.kind = "chat"
        /\ journal = {} /\ Current.step \notin confirmed
  /\ Remaining # Current.step
  /\ Put([Current EXCEPT !.step = Remaining, !.status = "prepared"])
  /\ Go("publish")
  /\ UNCHANGED <<roomVars, since, cursor, steerVars, sessionVars, acq,
                 ordinary, synced, claims, failed, faults>>

(* Mutant: steering does not settle what the session holds.                 *)
PublishUnsettled ==
  /\ pub.at = "publish"
  /\ Current.status = "prepared"
  /\ Current.step # {}
  /\ Remaining = Current.step
  /\ Go("submit")
  /\ UNCHANGED <<roomVars, since, cursor, steerVars, planVars, sessionVars, acq,
                 ordinary, synced, claims, failed, faults>>

PublishNew ==
  /\ pub.at = "publish"
  /\ Current.status = "prepared"
  /\ Current.step # {}
  /\ Remaining = Current.step
  /\ Go(IF pub.kind = "steer" THEN "settle" ELSE "submit")
  /\ UNCHANGED <<roomVars, since, cursor, steerVars, planVars, sessionVars, acq,
                 ordinary, synced, claims, failed, faults>>

(* The rule of the wake-up is no longer eligible.                          *)
WakeIneligible ==
  /\ pub.at = "publish"
  /\ pub.kind = "wake"
  /\ wake.status = "prepared"
  /\ wake' = NoPlan
  /\ pub' = Resumed
  /\ UNCHANGED <<roomVars, since, cursor, steerVars, chat, priority,
                 sessionVars, acq, ordinary, synced, claims, failed, faults>>

PublishAgain ==
  /\ pub.at = "publish"
  /\ Current.status = "publishing"
  /\ Go("recover")
  /\ UNCHANGED <<roomVars, since, cursor, steerVars, planVars, sessionVars, acq,
                 ordinary, synced, claims, failed, faults>>

RecoverReceived ==
  /\ pub.at = "recover"
  /\ journal = {}
  /\ Current.step \in confirmed
  /\ Put([Current EXCEPT !.status = "delivered"])
  /\ Go(IF pub.kind = "resume" THEN "accepted" ELSE "publish")
  /\ UNCHANGED <<roomVars, since, cursor, steerVars, sessionVars, acq,
                 ordinary, synced, claims, failed, faults>>

RecoverAbsent ==
  /\ pub.at = "recover"
  /\ journal = {}
  /\ Current.step \notin confirmed
  /\ Remaining = Current.step
  /\ Put([Current EXCEPT !.status =
            IF pub.kind \in {"resume", "wake"} THEN "prepared" ELSE @])
  /\ CASE pub.kind = "resume" -> pub' = Resumed
       [] pub.kind = "wake" -> Go("publish")
       [] pub.kind = "steer" -> Go("settle")
       [] OTHER -> Go("submit")
  /\ UNCHANGED <<roomVars, since, cursor, steerVars, sessionVars, acq,
                 ordinary, synced, claims, failed, faults>>

(* Steering settles whatever the session holds before its own input.       *)
Settled ==
  /\ pub.at = "settle"
  /\ journal = {}
  /\ Go("submit")
  /\ UNCHANGED <<roomVars, since, cursor, steerVars, planVars, sessionVars, acq,
                 ordinary, synced, claims, failed, faults>>

(* Mutant: the plan is saved as delivered before its delivery.              *)
SaveDelivered ==
  /\ pub.at = "submit"
  /\ Put([Current EXCEPT !.status = "delivered"])
  /\ Go("deliver")
  /\ UNCHANGED <<roomVars, since, cursor, steerVars, sessionVars, acq,
                 ordinary, synced, claims, failed, faults>>

SavePublishing ==
  /\ pub.at = "submit"
  /\ Put([Current EXCEPT !.status = "publishing"])
  /\ Go("deliver")
  /\ UNCHANGED <<roomVars, since, cursor, steerVars, sessionVars, acq,
                 ordinary, synced, claims, failed, faults>>

Submit ==
  /\ pub.at = "deliver"
  /\ journal = {}
  /\ Current.step \notin confirmed
  /\ journal' = Current.step
  /\ UNCHANGED <<roomVars, since, cursor, steerVars, planVars, entered,
                 confirmed, given, acq, pub, ordinary, synced, claims, failed,
                 faults>>

Delivered ==
  /\ pub.at = "deliver"
  /\ journal = {}
  /\ Current.step \in confirmed
  /\ Put([Current EXCEPT !.status = "delivered"])
  /\ Go("publish")
  /\ UNCHANGED <<roomVars, since, cursor, steerVars, sessionVars, acq,
                 ordinary, synced, claims, failed, faults>>

(* The session holds other input: a conflict, which ends the run.          *)
Conflict ==
  /\ pub.at \in {"recover", "deliver"}
  /\ journal \notin {{}, Current.step}
  /\ failed' = TRUE
  /\ UNCHANGED <<roomVars, since, cursor, steerVars, planVars, sessionVars, acq,
                 pub, ordinary, synced, claims, faults>>

(* finish: notices and controls, the read position, the checkpoint of the  *)
(* controls, the session's confirmation, the plan.                         *)
Accepted ==
  /\ pub.at = "accepted"
  /\ controls' = [m \in Messages |->
                    IF m \in Current.step /\ controls[m] # "none"
                    THEN "delivered" ELSE controls[m]]
  /\ Go("forget")
  /\ UNCHANGED <<roomVars, since, cursor, paused, planVars, sessionVars, acq,
                 ordinary, synced, claims, failed, faults>>

(* Mutant: the position moves to the end of the room.                       *)
MoveToLatest ==
  /\ pub.at = "cursor"
  /\ cursor' = posted
  /\ Go("checkpoint")
  /\ UNCHANGED <<roomVars, since, steerVars, planVars, sessionVars, acq,
                 ordinary, synced, claims, failed, faults>>

MoveCursor ==
  /\ pub.at = "cursor"
  /\ cursor' = chat.upto
  /\ Go("checkpoint")
  /\ UNCHANGED <<roomVars, since, steerVars, planVars, sessionVars, acq,
                 ordinary, synced, claims, failed, faults>>

CheckpointControls ==
  /\ pub.at = "checkpoint"
  /\ Checkpoint((chat.base + 1)..chat.upto)
  /\ Go("forget")
  /\ UNCHANGED <<roomVars, since, cursor, paused, planVars, sessionVars, acq,
                 ordinary, synced, claims, failed, faults>>

Forget ==
  /\ pub.at = "forget"
  /\ confirmed' = confirmed \ {Current.step}
  /\ Go("clear")
  /\ UNCHANGED <<roomVars, since, cursor, steerVars, planVars, journal, entered,
                 given, acq, ordinary, synced, claims, failed, faults>>

Clear ==
  /\ pub.at = "clear"
  /\ Put(NoPlan)
  /\ pub' = Resumed
  /\ UNCHANGED <<roomVars, since, cursor, steerVars, sessionVars, acq,
                 ordinary, synced, claims, failed, faults>>

(* A save, a call to the service or the native session fails: the cycle    *)
(* ends and the next one starts over from the files.                       *)
SendFails ==
  /\ pub.at \in Sends
  /\ Fault
  /\ pub' = Top
  /\ UNCHANGED <<roomVars, since, cursor, steerVars, planVars, sessionVars, acq,
                 ordinary, synced, claims, failed>>

(* The listener dies and is started again.                                 *)
Crash ==
  /\ Fault
  /\ acq' = AcqAt("start")
  /\ pub' = Top
  /\ ordinary' = TRUE
  /\ synced' = FALSE
  /\ UNCHANGED <<roomVars, since, cursor, steerVars, planVars, sessionVars,
                 claims, failed>>

-----------------------------------------------------------------------------
Room == Post \/ Pause \/ Unpause \/ \E m \in Messages : Revoke(m)
Acquire == \/ Initialize \/ Sync \/ Pass \/ Preempt \/ Capture \/ InterruptTurn
           \/ CancelDelivery \/ Synchronized
Publish ==
  \/ Discard \/ BeginCycle
  \/ ChooseSteering \/ ChooseChat \/ ChooseWake \/ ChoosePrepare \/ ChoosePaused
  \/ Admit \/ AdmitRefused
  \/ StartCollect \/ Collect \/ CollectNothing \/ CollectDelivered \/ Skim
  \/ PublishDone \/ Splice \/ PublishNew \/ PublishAgain
  \/ RecoverReceived \/ RecoverAbsent \/ Settled \/ SavePublishing \/ Submit
  \/ Delivered \/ Conflict \/ Confirm
  \/ Accepted \/ MoveCursor \/ CheckpointControls \/ Forget \/ Clear

Next ==
  \/ Room \/ Enter
  \/ ~failed /\ (Acquire \/ Publish \/ Refresh \/ GiveBack \/ WakeIneligible
                   \/ SendFails \/ AcquireFails \/ Crash)

Spec == Init /\ [][Next]_vars

(* Both loops run, the controller does not pause for ever and the native   *)
(* session takes its pending input in.                                     *)
FairSpec ==
  Spec /\ WF_vars(Unpause) /\ WF_vars(Enter)
       /\ WF_vars(~failed /\ Acquire) /\ WF_vars(~failed /\ Publish)

-----------------------------------------------------------------------------
(* Properties.                                                             *)

(* Every variable has its type.                                            *)
TypeOK ==
  /\ posted \in 0..N /\ since \in 0..posted /\ cursor \in 0..since
  /\ revoked \subseteq Messages
  /\ controls \in [Messages -> Stages]
  /\ {chat, priority, wake} \subseteq Plan
  /\ journal \subseteq 0..N /\ confirmed \subseteq SUBSET (0..N)
  /\ given \in [0..N -> Nat]
  /\ acq \in Acq /\ pub \in Pub
  /\ {active, paused, entered, ordinary, synced, failed} \subseteq BOOLEAN
  /\ claims \in 0..Wakes /\ faults \in 0..MaxFaults

(* The agent is given a message once, whether as steering or as unread     *)
(* chat, and a wake-up once for each claim.                                *)
EventOnce ==
  /\ \A m \in Messages : given[m] <= 1
  /\ given[0] <= claims

(* The read position covers only what the native history holds.            *)
CursorCovers == \A m \in 1..cursor : given[m] > 0 \/ m \in Stops

(* A steering message is reported accepted, and left out of unread chat,   *)
(* only if the native history holds it.                                    *)
AcceptedIsGiven ==
  \A m \in Messages \ Stops : controls[m] = "delivered" => given[m] > 0

(* Steering goes ahead of the backlog: a mention whose turn was captured   *)
(* is not handed to the agent with unread chat.                            *)
AheadOfBacklog ==
  chat.status # "none" =>
    \A m \in chat.step : controls[m] \notin {"interrupting", "interrupted"}

(* When no plan is left the session keeps nothing of theirs: neither a     *)
(* pending input, which would block the next one, nor a confirmation,      *)
(* which would fill the journal.                                           *)
SessionDrained ==
  {chat, priority, wake} = {NoPlan} => journal = {} /\ confirmed = {}

(* The two loops never bring the session or a plan into a state that the   *)
(* publication refuses.                                                    *)
RunSurvives == ~failed

(* A superseded mention is context, as its owner was told: it is not       *)
(* submitted as steering.                                                  *)
SupersededStaysUnread ==
  [][\A m \in Messages :
       (journal' = {m} /\ journal # {m} /\ pub.kind = "steer")
         => controls[m] # "superseded"]_vars

(* Every message of the room reaches the agent, unless the owner pauses.   *)
AllGiven == \A m \in Messages \ Stops : posted >= m ~> given[m] > 0 \/ paused

(* A captured mention does not wait for ever.                              *)
SteeringSettles ==
  \A m \in Messages :
    controls[m] \in {"interrupting", "interrupted"}
      ~> controls[m] \notin {"interrupting", "interrupted"}
=============================================================================
