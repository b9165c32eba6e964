--------------------------- MODULE NativeDelivery ---------------------------
(***************************************************************************)
(* Delivery of input to one native Codex session: the durable journal      *)
(* (adapter-runtime journal.rs), the delivery loop that owns it            *)
(* (delivery.rs), the Codex publication (adapter-codex publication.rs,     *)
(* timeline.rs) and, as its environment, the Codex server with its turns.  *)
(*                                                                         *)
(* A call (deliver, or recover/settle) holds the journal lock from its     *)
(* start to its end and advances one await or one durable write at a time. *)
(* It can be dropped at any of them (preemption, a pause, a failed save, a *)
(* protocol error) and the listener can crash at any of them; its native   *)
(* process dies with it.                                                   *)
(*                                                                         *)
(* Abstractions.  An input identity stands for its text as well.  The      *)
(* verification boundary is kept as the one thing it decides: whether the  *)
(* end of the current turn lies behind it ("past").  A poll that answers   *)
(* Absent leaves the state alone and is not distinguished from the error   *)
(* it becomes after three tries.                                           *)
(***************************************************************************)
EXTENDS Naturals, FiniteSets, Sequences

CONSTANTS Inputs,        \* message identities
          None,          \* no input
          Capacity,      \* unacknowledged confirmations a journal may hold
          Materialized,  \* TRUE: the session has had a user message before
          Shared,        \* TRUE: a terminal may keep the session busy
          MaxFaults      \* bound on crashes, drops, interruptions, rejections

ASSUME NoneAssumption == None \notin Inputs
ASSUME CapacityAssumption == Capacity \in Nat \ {0}
ASSUME FlagsAssumption == Materialized \in BOOLEAN /\ Shared \in BOOLEAN
ASSUME FaultsAssumption == MaxFaults \in Nat

VARIABLES
  pending,      \* durable: the journal's pending input
  confirmed,    \* durable: the journal's unacknowledged confirmations
  settled,      \* inputs whose producer has acknowledged the confirmation
  up,           \* the listener runs
  restored,     \* the input that was pending when the journal was opened
  resumed,      \* this process has submitted a restart notice
  notices,      \* restart notices made so far: each has a fresh identity
  call,         \* the call that holds the journal lock
  wire,         \* a turn/start request Codex has not handled yet
  reply,        \* the turn in the unread response to that request, or 0
  turns,        \* the message each accepted turn was started with
  running,      \* turns in progress
  entries,      \* turns whose user entry is in the native history
  interrupted,  \* turns the history shows as interrupted
  finished,     \* turns the history shows as ended otherwise
  busy,         \* another client of the session has a turn in progress
  faults        \* faults so far

journalVars == <<pending, confirmed>>
processVars == <<up, restored, resumed>>
nativeVars  == <<turns, running, entries, interrupted, finished>>
vars == <<pending, confirmed, settled, up, restored, resumed, notices, call,
          wire, reply, turns, running, entries, interrupted, finished, busy,
          faults>>

-----------------------------------------------------------------------------
(* The journal's pending record: the input, its current submission (the    *)
(* original, notice 0, or a restart notice), the turn Codex answered with  *)
(* and whether the boundary has moved past the end of that turn.           *)
Pending == [input : Inputs, notice : Nat, turn : Nat, past : BOOLEAN]
NoPending == [input |-> None, notice |-> 0, turn |-> 0, past |-> FALSE]

Message == [input : Inputs, notice : Nat]
NoMessage == [input |-> None, notice |-> 0]
MessageOf(p) == [input |-> p.input, notice |-> p.notice]

Points == {"idle", "capture", "send", "reply", "poll", "decide", "notice",
           "complete"}
Sightings == {"none", "received", "foreign", "pending", "interrupted", "missing"}
Call == [kind : {"none", "deliver", "recover"}, input : Inputs \cup {None},
         at : Points, seen : Sightings]
NoCall == [kind |-> "none", input |-> None, at |-> "idle", seen |-> "none"]

Fault == faults < MaxFaults /\ faults' = faults + 1

(* thread/timeline/list answers "method not found" before the first user   *)
(* message of a session.                                                   *)
TimelineAvailable == Materialized \/ entries # {}

(* thread/read reports the session idle.                                   *)
Idle == running = {} /\ wire = NoMessage /\ ~busy

(* Mutant of Matches: only the original text is looked for.                *)
MatchesOriginal ==
  {t \in entries : turns[t] = [input |-> pending.input, notice |-> 0]}

(* The newest-first scan of the history for the pending submission.        *)
Matches == {t \in entries : turns[t] = MessageOf(pending)}
(* Mutant of Scan: the end of the turn is taken for a receipt.             *)
ScanEndIsReceipt ==
  CASE Matches # {} /\ pending.turn \in {0} \cup Matches -> "received"
    [] Matches # {} /\ pending.turn \notin {0} \cup Matches -> "foreign"
    [] Matches = {} /\ ~pending.past /\ pending.turn \in interrupted -> "interrupted"
    [] Matches = {} /\ ~pending.past /\ pending.turn \in finished -> "received"
    [] OTHER -> "pending"

Scan ==
  CASE Matches # {} /\ pending.turn \in {0} \cup Matches -> "received"
    [] Matches # {} /\ pending.turn \notin {0} \cup Matches -> "foreign"
    [] Matches = {} /\ ~pending.past /\ pending.turn \in interrupted -> "interrupted"
    [] Matches = {} /\ ~pending.past /\ pending.turn \in finished -> "missing"
    [] OTHER -> "pending"

Init ==
  /\ pending = NoPending
  /\ confirmed = {}
  /\ settled = {}
  /\ up = TRUE
  /\ restored = None
  /\ resumed = FALSE
  /\ notices = 0
  /\ call = NoCall
  /\ wire = NoMessage
  /\ reply = 0
  /\ turns = <<>>
  /\ running = {}
  /\ entries = {}
  /\ interrupted = {}
  /\ finished = {}
  /\ busy = FALSE
  /\ faults = 0

-----------------------------------------------------------------------------
(* Calls by the producers.  A call for an input that is already confirmed, *)
(* or while another input is pending, answers without a change of state.   *)

Deliver(i) ==
  /\ up
  /\ call.at = "idle"
  /\ i \notin confirmed \cup settled
  /\ pending.input \in {None, i}
  /\ call' = [kind |-> "deliver", input |-> i, seen |-> "none",
              at |-> IF pending = NoPending THEN "capture" ELSE "poll"]
  /\ UNCHANGED <<journalVars, settled, processVars, notices, wire, reply,
                 nativeVars, busy, faults>>

(* Recover of the pending input, and settle, which takes whichever input   *)
(* is pending.                                                             *)
Recover ==
  /\ up
  /\ call.at = "idle"
  /\ pending # NoPending
  /\ call' = [kind |-> "recover", input |-> pending.input, at |-> "poll",
              seen |-> "none"]
  /\ UNCHANGED <<journalVars, settled, processVars, notices, wire, reply,
                 nativeVars, busy, faults>>

(* The producer saved its own checkpoint: the confirmation is dropped.     *)
Acknowledge(i) ==
  /\ up
  /\ call.at = "idle"
  /\ i \in confirmed
  /\ confirmed' = confirmed \ {i}
  /\ settled' = settled \cup {i}
  /\ UNCHANGED <<pending, processVars, notices, call, wire, reply, nativeVars,
                 busy, faults>>

-----------------------------------------------------------------------------
(* Steps of the call in progress.                                          *)

(* The input is saved before it is submitted.                              *)
Prepare ==
  /\ call.at = "capture"
  /\ Cardinality(confirmed) < Capacity
  /\ call.input \notin confirmed
  /\ pending' = [input |-> call.input, notice |-> 0, turn |-> 0, past |-> FALSE]
  /\ call' = [call EXCEPT !.at = "send"]
  /\ UNCHANGED <<confirmed, settled, processVars, notices, wire, reply,
                 nativeVars, busy, faults>>

(* A full journal refuses: confirmations have to be acknowledged first.    *)
Refuse ==
  /\ call.at = "capture"
  /\ Cardinality(confirmed) >= Capacity \/ call.input \in confirmed
  /\ call' = NoCall
  /\ UNCHANGED <<journalVars, settled, processVars, notices, wire, reply,
                 nativeVars, busy, faults>>

Submit ==
  /\ call.at = "send"
  /\ wire' = MessageOf(pending)
  /\ call' = [call EXCEPT !.at = "reply"]
  /\ UNCHANGED <<journalVars, settled, processVars, notices, reply,
                 nativeVars, busy, faults>>

(* The response names the turn; it is saved beside the input.              *)
SaveTurn ==
  /\ call.at = "reply"
  /\ reply # 0
  /\ pending' = [pending EXCEPT !.turn = reply]
  /\ reply' = 0
  /\ call' = [call EXCEPT !.at = "poll"]
  /\ UNCHANGED <<confirmed, settled, processVars, notices, wire, nativeVars,
                 busy, faults>>

(* Requests are handled in order, so the scan sees the effect of every     *)
(* request sent before it.                                                 *)
Poll ==
  /\ call.at = "poll"
  /\ wire = NoMessage
  /\ TimelineAvailable
  /\ call' = [call EXCEPT !.at = "decide", !.seen = Scan]
  /\ UNCHANGED <<journalVars, settled, processVars, notices, wire, reply,
                 nativeVars, busy, faults>>

PollUnavailable ==
  /\ call.at = "poll"
  /\ wire = NoMessage
  /\ ~TimelineAvailable
  /\ call' = NoCall
  /\ UNCHANGED <<journalVars, settled, processVars, notices, wire, reply,
                 nativeVars, busy, faults>>

(* The history holds the submission: confirm it.                           *)
Receive ==
  /\ call.at = "decide"
  /\ call.seen = "received"
  /\ pending' = NoPending
  /\ confirmed' = confirmed \cup {pending.input}
  /\ call' = NoCall
  /\ UNCHANGED <<settled, processVars, notices, wire, reply, nativeVars,
                 busy, faults>>

(* Mutants of MayRestart: a notice after every restart and every retry;    *)
(* and a restart that leaves the input to its first submission.            *)
MayRestartAgain ==
  \/ restored = pending.input
  \/ pending.notice # 0 /\ call.seen = "interrupted"

MayRestartNever == pending.notice # 0 /\ call.seen = "interrupted"

MayRestart ==
  \/ restored = pending.input /\ ~resumed
  \/ pending.notice # 0 /\ call.seen = "interrupted"

(* Nothing proves the submission and the session is idle: start a notice.  *)
Restart ==
  /\ call.at = "decide"
  /\ call.seen \in {"pending", "interrupted", "missing"}
  /\ MayRestart
  /\ Idle
  /\ call' = [call EXCEPT !.at = "notice"]
  /\ UNCHANGED <<journalVars, settled, processVars, notices, wire, reply,
                 nativeVars, busy, faults>>

SaveNotice ==
  /\ call.at = "notice"
  /\ pending' = [input |-> pending.input, notice |-> notices + 1, turn |-> 0,
                 past |-> FALSE]
  /\ notices' = notices + 1
  /\ resumed' = TRUE
  /\ call' = [call EXCEPT !.at = "send"]
  /\ UNCHANGED <<confirmed, settled, up, restored, wire, reply, nativeVars,
                 busy, faults>>

NoRestart ==
  /\ call.at = "decide"
  /\ call.seen \in {"pending", "interrupted", "missing"}
  /\ ~(MayRestart /\ Idle)

(* Mutant of Uncertain: a submission without a known turn is repeated.     *)
UncertainResubmits ==
  /\ call.at = "decide"
  /\ call.seen = "foreign" \/ (NoRestart /\ pending.turn = 0)
  /\ call' = [call EXCEPT !.at = "send"]
  /\ UNCHANGED <<journalVars, settled, processVars, notices, wire, reply,
                 nativeVars, busy, faults>>

(* No turn is known: the call fails and the journal keeps the input.       *)
Uncertain ==
  /\ call.at = "decide"
  /\ call.seen = "foreign" \/ (NoRestart /\ pending.turn = 0)
  /\ call' = NoCall
  /\ UNCHANGED <<journalVars, settled, processVars, notices, wire, reply,
                 nativeVars, busy, faults>>

Wait ==
  /\ NoRestart
  /\ pending.turn # 0
  /\ call.seen = "pending"
  /\ call' = [call EXCEPT !.at = "poll", !.seen = "none"]
  /\ UNCHANGED <<journalVars, settled, processVars, notices, wire, reply,
                 nativeVars, busy, faults>>

(* The turn ended without the input: the boundary moves past its end and   *)
(* the call fails.                                                         *)
Missed ==
  /\ NoRestart
  /\ pending.turn # 0
  /\ call.seen = "missing"
  /\ pending' = [pending EXCEPT !.past = TRUE]
  /\ call' = NoCall
  /\ UNCHANGED <<confirmed, settled, processVars, notices, wire, reply,
                 nativeVars, busy, faults>>

(* The turn was interrupted without the input: the boundary is saved       *)
(* first, the journal is completed by a second save.                       *)
Interrupted ==
  /\ NoRestart
  /\ pending.turn # 0
  /\ call.seen = "interrupted"
  /\ pending' = [pending EXCEPT !.past = TRUE]
  /\ call' = [call EXCEPT !.at = "complete"]
  /\ UNCHANGED <<confirmed, settled, processVars, notices, wire, reply,
                 nativeVars, busy, faults>>

(* Mutant of Complete: the interrupted input is confirmed with the others. *)
CompleteConfirms ==
  /\ call.at = "complete"
  /\ pending' = NoPending
  /\ confirmed' = confirmed \cup {pending.input}
  /\ call' = NoCall
  /\ UNCHANGED <<settled, processVars, notices, wire, reply, nativeVars,
                 busy, faults>>

(* ... and deliver submits the same input again.                           *)
Complete ==
  /\ call.at = "complete"
  /\ pending' = NoPending
  /\ call' = IF call.kind = "deliver"
             THEN [call EXCEPT !.at = "capture", !.seen = "none"]
             ELSE NoCall
  /\ UNCHANGED <<confirmed, settled, processVars, notices, wire, reply,
                 nativeVars, busy, faults>>

(* Mutant of Drop: a dropped call takes its pending record with it.        *)
DropForgets ==
  /\ call.at # "idle"
  /\ Fault
  /\ call' = NoCall
  /\ pending' = NoPending
  /\ reply' = 0
  /\ UNCHANGED <<confirmed, settled, processVars, notices, wire, nativeVars,
                 busy>>

(* The call is dropped, cancelled, or fails to save or to reach Codex.  A  *)
(* request already handed to the connection is still handled by Codex.     *)
Drop ==
  /\ call.at # "idle"
  /\ Fault
  /\ call' = NoCall
  /\ reply' = 0
  /\ UNCHANGED <<journalVars, settled, processVars, notices, wire, nativeVars,
                 busy>>

-----------------------------------------------------------------------------
(* Process lifetime.                                                       *)

Crash ==
  /\ up
  /\ Fault
  /\ up' = FALSE
  /\ restored' = None
  /\ resumed' = FALSE
  /\ call' = NoCall
  /\ wire' = NoMessage
  /\ reply' = 0
  /\ running' = {}
  /\ busy' = FALSE
  /\ UNCHANGED <<journalVars, settled, notices, turns, entries, interrupted,
                 finished>>

Open ==
  /\ ~up
  /\ up' = TRUE
  /\ restored' = pending.input
  /\ UNCHANGED <<journalVars, settled, resumed, notices, call, wire, reply,
                 nativeVars, busy, faults>>

-----------------------------------------------------------------------------
(* The Codex server.                                                       *)

(* Mutant of Accept: the response names the turn after the accepted one.   *)
AcceptNextTurn ==
  /\ wire # NoMessage
  /\ turns' = Append(turns, wire)
  /\ running' = running \cup {Len(turns) + 1}
  /\ wire' = NoMessage
  /\ reply' = IF call.at = "reply" THEN Len(turns) + 2 ELSE 0
  /\ UNCHANGED <<journalVars, settled, processVars, notices, call, entries,
                 interrupted, finished, busy, faults>>

Accept ==
  /\ wire # NoMessage
  /\ turns' = Append(turns, wire)
  /\ running' = running \cup {Len(turns) + 1}
  /\ wire' = NoMessage
  /\ reply' = IF call.at = "reply" THEN Len(turns) + 1 ELSE 0
  /\ UNCHANGED <<journalVars, settled, processVars, notices, call, entries,
                 interrupted, finished, busy, faults>>

Reject ==
  /\ wire # NoMessage
  /\ Fault
  /\ wire' = NoMessage
  /\ call' = IF call.at = "reply" THEN NoCall ELSE call
  /\ UNCHANGED <<journalVars, settled, processVars, notices, reply, nativeVars,
                 busy>>

(* A turn records its user message, if ever, while it runs.                *)
Record(t) ==
  /\ t \in running \ entries
  /\ entries' = entries \cup {t}
  /\ UNCHANGED <<journalVars, settled, processVars, notices, call, wire, reply,
                 turns, running, interrupted, finished, busy, faults>>

Finish(t) ==
  /\ t \in running \cap entries
  /\ running' = running \ {t}
  /\ finished' = finished \cup {t}
  /\ UNCHANGED <<journalVars, settled, processVars, notices, call, wire, reply,
                 turns, entries, interrupted, busy, faults>>

(* A turn that fails before it has recorded its input.                     *)
Lose(t) ==
  /\ t \in running \ entries
  /\ Fault
  /\ running' = running \ {t}
  /\ finished' = finished \cup {t}
  /\ UNCHANGED <<journalVars, settled, processVars, notices, call, wire, reply,
                 turns, entries, interrupted, busy>>

(* Steering, or the owner, interrupts a turn.                              *)
Interrupt(t) ==
  /\ t \in running
  /\ Fault
  /\ running' = running \ {t}
  /\ interrupted' = interrupted \cup {t}
  /\ UNCHANGED <<journalVars, settled, processVars, notices, call, wire, reply,
                 turns, entries, finished, busy>>

Occupy ==
  /\ Shared
  /\ up
  /\ ~busy
  /\ Fault
  /\ busy' = TRUE
  /\ UNCHANGED <<journalVars, settled, processVars, notices, call, wire, reply,
                 nativeVars>>

Vacate ==
  /\ busy
  /\ busy' = FALSE
  /\ UNCHANGED <<journalVars, settled, processVars, notices, call, wire, reply,
                 nativeVars, faults>>

-----------------------------------------------------------------------------
CallStep ==
  \/ Prepare \/ Refuse \/ Submit \/ SaveTurn \/ Poll \/ PollUnavailable
  \/ Receive \/ Restart \/ SaveNotice \/ Uncertain \/ Wait \/ Missed
  \/ Interrupted \/ Complete

Next ==
  \/ \E i \in Inputs : Deliver(i) \/ Acknowledge(i)
  \/ Recover
  \/ CallStep
  \/ Drop
  \/ Crash \/ Open
  \/ Accept \/ Reject \/ Occupy \/ Vacate
  \/ \E t \in DOMAIN turns : Record(t) \/ Finish(t) \/ Lose(t) \/ Interrupt(t)

Spec == Init /\ [][Next]_vars

(* The listener's publication loop retries the pending input until it is   *)
(* settled, an operation in progress is polled, and Codex handles its      *)
(* requests, records and finishes its turns.  Nothing forces a fault, a    *)
(* new input or an acknowledgment.                                         *)
Fairness ==
  /\ WF_vars(Recover)
  /\ WF_vars(CallStep)
  /\ WF_vars(Open)
  /\ WF_vars(Accept)
  /\ WF_vars(Vacate)
  /\ WF_vars(\E t \in DOMAIN turns : Record(t))
  /\ WF_vars(\E t \in DOMAIN turns : Finish(t))

FairSpec == Spec /\ Fairness

-----------------------------------------------------------------------------
(* Properties.                                                             *)

(* Every variable has its type; every turn the journal, a response or the  *)
(* history names has been accepted.                                        *)
TypeOK ==
  /\ pending \in Pending \cup {NoPending}
  /\ confirmed \subseteq Inputs
  /\ settled \subseteq Inputs
  /\ up \in BOOLEAN
  /\ restored \in Inputs \cup {None}
  /\ resumed \in BOOLEAN
  /\ notices \in Nat
  /\ call \in Call
  /\ wire \in Message \cup {NoMessage}
  /\ turns \in Seq(Message)
  /\ reply \in {0} \cup DOMAIN turns
  /\ running \subseteq DOMAIN turns
  /\ entries \subseteq DOMAIN turns
  /\ interrupted \subseteq DOMAIN turns
  /\ finished \subseteq DOMAIN turns
  /\ busy \in BOOLEAN
  /\ faults \in 0..MaxFaults

(* The native history holds input i, itself or through a restart notice.   *)
EntriesOf(i) == {t \in entries : turns[t].input = i}

(* A read position never moves ahead of the evidence: an input is          *)
(* confirmed, and its producer told so, only if the native history holds   *)
(* it.                                                                     *)
ConfirmedIsRecorded == \A i \in confirmed \cup settled : EntriesOf(i) # {}

(* However calls are dropped and the listener crashes, the agent is given  *)
(* an input at most once: either the original or one restart notice.       *)
AtMostOnce == \A i \in Inputs : Cardinality(EntriesOf(i)) <= 1

(* The journal on disk can always be opened again: journal::read refuses   *)
(* a pending input that is also confirmed, and too many confirmations.     *)
JournalReadable ==
  /\ pending.input \notin confirmed
  /\ Cardinality(confirmed) <= Capacity

(* The strengthening that makes the three invariants above inductive: a    *)
(* call past its save owns the pending record; a sighting of the entry,    *)
(* however old, is still true when it is acted on; and a journal with a    *)
(* pending input has room for its confirmation.                            *)
CallOwnsPending ==
  /\ call.at = "capture" => /\ pending = NoPending
                            /\ call.input \in Inputs
  /\ call.at \notin {"idle", "capture"} => /\ pending # NoPending
                                           /\ call.input = pending.input
  /\ reply # 0 => call.at = "reply"
  /\ wire # NoMessage => /\ wire = MessageOf(pending)
                         /\ call.at \in {"idle", "reply", "poll"}
                         /\ reply = 0

SightingHolds ==
  call.at = "decide" /\ call.seen = "received" => EntriesOf(pending.input) # {}

RoomForPending ==
  /\ IsFiniteSet(confirmed)
  /\ pending # NoPending => Cardinality(confirmed) < Capacity

DeliveryInv ==
  /\ TypeOK
  /\ ConfirmedIsRecorded
  /\ JournalReadable
  /\ CallOwnsPending
  /\ SightingHolds
  /\ RoomForPending

(* The pending input is given up without a confirmation only when no turn  *)
(* and no request can still bring it into the history.                     *)
CanStillEnter(i) ==
  \/ EntriesOf(i) # {}
  \/ wire.input = i
  \/ \E t \in running : turns[t].input = i

GivenUpOnlyWhenDead ==
  [][(pending # NoPending /\ pending'.input # pending.input
       /\ pending.input \notin confirmed')
     => ~CanStillEnter(pending.input)]_vars

(* A restart notice says that earlier delivery is unknown.  It never       *)
(* enters the history for an input the history already holds.              *)
NoticeOnlyForUnproven ==
  [][\A i \in Inputs :
       (wire' # wire /\ wire'.input = i /\ wire'.notice # 0) => EntriesOf(i) = {}]_vars

(* The journal implements the contract its producers rely on.              *)
StageOf(i) ==
  CASE i \in settled -> "acknowledged"
    [] i \in confirmed -> "confirmed"
    [] i = pending.input -> "pending"
    [] OTHER -> "absent"

Promise == INSTANCE DeliveryContract
             WITH stage <- [i \in Inputs |-> StageOf(i)],
                  recorded <- {i \in Inputs : EntriesOf(i) # {}}

ImplementsContract == Promise!Contract

(* After a restart the pending input does not stay uncertain: once faults  *)
(* have ended, its original is found or its notice is received.            *)
Undisturbed(i) == up /\ pending.input = i /\ faults = MaxFaults

RestartSettles ==
  \A i \in Inputs :
    (Undisturbed(i) /\ restored = i /\ ~resumed) ~> (pending.input # i)

(* Without a restart: an input whose turn is known and still running is    *)
(* confirmed once faults have ended.                                       *)
AcceptedSettles ==
  \A i \in Inputs :
    (Undisturbed(i) /\ pending.turn \in running) ~> (i \in confirmed \cup settled)

(* tests/delivery.rs: "interrupted before receipt retries".  In a running  *)
(* listener the turn that was interrupted before it took the input does    *)
(* not stay the turn the journal waits for.                                *)
InterruptedRetries ==
  \A i \in Inputs :
    (Undisturbed(i) /\ pending.turn \in interrupted \ entries)
      ~> (pending.input # i \/ pending.turn \notin interrupted)
=============================================================================
