---------------------------- MODULE FleetControl ----------------------------
(***************************************************************************)
(* Session operations that people request on the server and the fleetd     *)
(* controller executes.  The server (crossfire domain/fleet) keeps one     *)
(* lease per fleet and the requested operations; the controller's          *)
(* connection (adapter-crossfire fleet_connection) reports its lease,      *)
(* polls for the pending operation, claims it, hands it to the local       *)
(* controller and reports the outcome.  The local journal remembers an     *)
(* operation by its identity until its receipt is known to have arrived.   *)
(*                                                                         *)
(* A call to the server may fail without effect, fail after its effect, or *)
(* fail and still take effect later.                                       *)
(***************************************************************************)
EXTENDS Naturals

CONSTANTS Ops,        \* identities of requested operations
          Faults,     \* the kinds of faults that may happen
          MaxFaults,  \* bound on them
          Gens        \* connection generations, enough that one is always fresh

FaultKinds == {"lost",      \* a call fails, with or without its effect
               "late",      \* a call fails and takes effect later
               "expire",    \* the lease of a running controller expires
               "crash",     \* the daemon dies or is stopped
               "busy",      \* fleetd refuses the operation, or fails at its checkpoint
               "change",    \* the fleet changes between request and claim
               "withdraw"}  \* the requester loses the authority
ASSUME FaultsAssumption == Faults \subseteq FaultKinds /\ MaxFaults \in Nat /\ 1 \in Gens /\ Gens \subseteq Nat \ {0}

VARIABLES
  op,         \* server: the operations
  lease,      \* server: the connection record of the fleet
  authorized, \* server: the requester may still ask
  up,         \* the daemon runs
  gen,        \* binding.connection_id
  stale,      \* the token `requests` is cancelled
  releasing,  \* release_required
  poll,       \* where the polling task is, and the operation it has read
  run,        \* the task of a remote operation
  local,      \* durable: the local journal
  outcome,    \* history: what came of each execution, and how many there were
  net,        \* calls given up that may still reach the server
  faults

serverVars == <<op, lease, authorized>>
clientVars == <<up, gen, stale, releasing, poll, run>>
localVars == <<local, outcome>>
vars == <<serverVars, clientVars, localVars, net, faults>>

-----------------------------------------------------------------------------
NoOp == "none"
Results == {"succeeded", "failed"}
Settled(o) == op[o].st \in Results
Pending == {o \in Ops : op[o].st \in {"pending", "running"}}
NoLocal == [st |-> "none", pinned |-> FALSE]
Idle == [at |-> "none", op |-> NoOp, gen |-> 0, result |-> "none"]

(* A generation is an identity of its own: one that nothing names any more  *)
(* is as good as a new one.                                                *)
InUse == {gen, lease.gen, run.gen} \cup {op[o].gen : o \in Ops} \cup {m.gen : m \in net}
FreshGen == CHOOSE g \in Gens \ InUse : \A h \in Gens \ InUse : g <= h

Fault(kind) == kind \in Faults /\ faults < MaxFaults /\ faults' = faults + 1
NoFault == faults' = faults

Init == /\ op = [o \in Ops |-> [st |-> "none", current |-> FALSE, gen |-> 0]]
        /\ lease = [gen |-> 0, live |-> FALSE]
        /\ authorized = TRUE
        /\ up = TRUE /\ gen = 1 /\ stale = FALSE /\ releasing = FALSE
        /\ poll = [at |-> "top", op |-> NoOp]
        /\ run = Idle
        /\ local = [o \in Ops |-> NoLocal]
        /\ outcome = [o \in Ops |-> [result |-> "none", times |-> 0, refused |-> FALSE]]
        /\ net = {}
        /\ faults = 0

-----------------------------------------------------------------------------
(* The server: what a call answers and what it changes.                    *)

(* A live lease of another generation is never taken over, a generation    *)
(* that was closed or has expired is never used again, only the owner of   *)
(* the record closes it.                                                   *)
Report(g, stopped) ==
  LET refused == \/ lease.gen # g /\ lease.live
                 \/ stopped /\ lease.gen # g
                 \/ ~stopped /\ lease.gen = g /\ ~lease.live
  IN [ok |-> ~refused, lease |-> IF refused THEN lease ELSE [gen |-> g, live |-> ~stopped]]

Live(g) == lease.gen = g /\ lease.live

(* Mutant: a restarted controller cannot claim what its predecessor did. *)
ClaimOnce(o, g) ==
  IF ~Live(g) \/ op[o].st = "running" THEN [ok |-> FALSE, op |-> op[o]]
  ELSE [ok |-> TRUE,
        op |-> IF Settled(o) THEN op[o]
               ELSE IF authorized /\ op[o].current THEN [op[o] EXCEPT !.st = "running", !.gen = g]
                    ELSE [op[o] EXCEPT !.st = "failed"]]

(* A pending operation needs its author's authority and the revision that  *)
(* its own request left; a running one the authority alone.                *)
Claim(o, g) ==
  LET valid == authorized /\ (op[o].st = "pending" => op[o].current)
  IN IF ~Live(g) THEN [ok |-> FALSE, op |-> op[o]]
     ELSE [ok |-> TRUE,
           op |-> IF Settled(o) THEN op[o]
                  ELSE IF valid THEN [op[o] EXCEPT !.st = "running", !.gen = g]
                       ELSE [op[o] EXCEPT !.st = "failed"]]

Receipt(o, g, result) ==
  IF ~Live(g) THEN [ok |-> FALSE, op |-> op[o]]
  ELSE IF Settled(o) THEN [ok |-> op[o].st = result, op |-> op[o]]
  ELSE IF op[o].st # "running" \/ op[o].gen # g THEN [ok |-> FALSE, op |-> op[o]]
  ELSE [ok |-> TRUE, op |-> [op[o] EXCEPT !.st = result]]

Call(kind, g, o, result) == [kind |-> kind, gen |-> g, op |-> o, result |-> result]
OpAnswer(m) == IF m.kind = "claim" THEN Claim(m.op, m.gen) ELSE Receipt(m.op, m.gen, m.result)
Accepted(m) == IF m.kind \in {"report", "release"} THEN Report(m.gen, m.kind = "release").ok
               ELSE OpAnswer(m).ok
Effect(m) ==
  /\ authorized' = authorized
  /\ IF m.kind \in {"report", "release"}
     THEN lease' = Report(m.gen, m.kind = "release").lease /\ op' = op
     ELSE op' = [op EXCEPT ![m.op] = OpAnswer(m).op] /\ lease' = lease

(* The two ends of a call.                                                 *)
Answered(m) == Effect(m) /\ NoFault /\ UNCHANGED net
Unanswered(m) == \/ Fault("lost") /\ (Effect(m) \/ UNCHANGED serverVars) /\ UNCHANGED net
                 \/ Fault("late") /\ net' = net \cup {m} /\ UNCHANGED serverVars

-----------------------------------------------------------------------------
(* People and the rest of the server *)

(* A request needs a connected controller and no other request under way.  *)
Request(o) == /\ op[o].st = "none" /\ lease.live /\ authorized /\ Pending = {}
              /\ op' = [op EXCEPT ![o] = [st |-> "pending", current |-> TRUE, gen |-> 0]]
              /\ UNCHANGED <<lease, authorized, clientVars, localVars, net, faults>>
(* Activation or deactivation of delivery takes the next revision.         *)
ChangeDelivery == /\ Pending # {} /\ Fault("change")
                  /\ op' = [o \in Ops |-> [op[o] EXCEPT !.current = FALSE]]
                  /\ UNCHANGED <<lease, authorized, clientVars, localVars, net>>
Withdraw == /\ authorized /\ Fault("withdraw") /\ authorized' = FALSE
            /\ UNCHANGED <<op, lease, clientVars, localVars, net>>
(* Thirty seconds without a report.                                        *)
Expire == /\ lease.live /\ lease' = [lease EXCEPT !.live = FALSE]
          /\ IF up /\ lease.gen = gen THEN Fault("expire") ELSE NoFault
          /\ UNCHANGED <<op, authorized, clientVars, localVars, net>>
Arrive == \E m \in net : /\ net' = net \ {m} /\ Effect(m)
                         /\ UNCHANGED <<clientVars, localVars, faults>>

-----------------------------------------------------------------------------
(* The polling task *)

At(p) == up /\ poll.at = p
Poll(p) == poll' = [at |-> p, op |-> NoOp]
Disconnect == stale' = TRUE

(* A generation that may hold the lease is released before the next one;   *)
(* a refusal is an answer as well.                                         *)
Release ==
  LET m == Call("release", gen, NoOp, "none") IN
  /\ At("top") /\ stale /\ releasing
  /\ \/ /\ Answered(m)
        /\ releasing' = FALSE /\ gen' = FreshGen /\ stale' = FALSE
     \/ /\ Unanswered(m)
        /\ UNCHANGED <<releasing, gen, stale>>
  /\ UNCHANGED <<up, poll, run, localVars>>
Rotate == /\ At("top") /\ stale /\ ~releasing
          /\ gen' = FreshGen /\ stale' = FALSE
          /\ UNCHANGED <<serverVars, up, releasing, poll, run, localVars, net, faults>>

ReportLease ==
  LET m == Call("report", gen, NoOp, "none") IN
  /\ At("top") /\ ~stale
  /\ releasing' = TRUE
  /\ \/ /\ Answered(m)
        /\ IF Accepted(m) THEN Poll("control") /\ UNCHANGED stale
           ELSE Poll("top") /\ Disconnect
     \/ /\ Unanswered(m) /\ Poll("top") /\ Disconnect
  /\ UNCHANGED <<up, gen, run, localVars>>

(* The snapshot names the one operation that is under way.                 *)
ReadControl ==
  /\ At("control") /\ UNCHANGED net
  /\ \/ /\ Live(gen) /\ ~stale /\ NoFault
        /\ poll' = [at |-> "apply",
                    op |-> IF Pending = {} THEN NoOp ELSE CHOOSE o \in Ops : o \in Pending]
        /\ UNCHANGED stale
     \/ /\ ~(Live(gen) /\ ~stale) /\ NoFault
        /\ Poll("top") /\ Disconnect
     \/ /\ Fault("lost") /\ Poll("top") /\ Disconnect
  /\ UNCHANGED <<serverVars, up, gen, releasing, run, localVars>>

(* start_remote: one task at a time, with the binding of its start.  The   *)
(* error of the task before, which disconnected once, does so once more.   *)
Apply == /\ At("apply") /\ Poll("top")
         /\ IF poll.op # NoOp /\ run.at \in {"none", "failed"}
            THEN /\ run' = [at |-> "claim", op |-> poll.op, gen |-> gen, result |-> "none"]
                 /\ stale' = (stale \/ run.at = "failed")
            ELSE UNCHANGED <<run, stale>>
         /\ UNCHANGED <<serverVars, up, gen, releasing, localVars, net, faults>>

-----------------------------------------------------------------------------
(* execute_remote *)

Running(p) == up /\ run.at = p
RunFails == run' = [Idle EXCEPT !.at = "failed"] /\ Disconnect
RunGoes(p) == run' = [run EXCEPT !.at = p] /\ UNCHANGED stale

ClaimOp ==
  LET m == Call("claim", run.gen, run.op, "none") IN
  /\ Running("claim")
  /\ \/ /\ Answered(m)
        /\ IF ~Accepted(m) THEN RunFails
           ELSE RunGoes(IF OpAnswer(m).op.st \in Results THEN "acknowledge" ELSE "execute")
     \/ /\ Unanswered(m) /\ RunFails
  /\ UNCHANGED <<up, gen, releasing, poll, localVars>>

(* operate with receipt_pending: an identity that is known is not executed *)
(* again.  A refusal leaves the journal alone, whether it knows the        *)
(* operation or not, and is the outcome; an execution that fails at its    *)
(* checkpoint is in the journal as failed.                                 *)
Refused == /\ run' = [run EXCEPT !.at = "receipt", !.result = "failed"]
           /\ UNCHANGED stale
Begun(result) == outcome' = [outcome EXCEPT ![run.op] =
                   [result |-> result, times |-> @.times + 1, refused |-> @.refused]]
Journaled(st) == local' = [local EXCEPT ![run.op] = [st |-> st, pinned |-> TRUE]]
Execute ==
  /\ Running("execute")
  /\ \/ /\ local[run.op].st = "none" /\ NoFault
        /\ Journaled("accepted") /\ Begun("none") /\ RunGoes("wait")
     \/ /\ local[run.op].st = "none" /\ Fault("busy")
        /\ Journaled("failed") /\ Begun("failed") /\ Refused
     \/ /\ local[run.op].st # "none" /\ NoFault
        /\ RunGoes("wait") /\ UNCHANGED localVars
     \/ /\ Fault("busy") /\ Refused
        /\ outcome' = [outcome EXCEPT ![run.op].refused = TRUE]
        /\ UNCHANGED local
  /\ UNCHANGED <<serverVars, up, gen, releasing, poll, net>>

LocalDone(o) ==
  /\ up /\ local[o].st = "accepted"
  /\ \E result \in Results :
       /\ local' = [local EXCEPT ![o].st = result]
       /\ outcome' = [outcome EXCEPT ![o].result = result]
  /\ UNCHANGED <<serverVars, clientVars, net, faults>>

(* Mutant: the outcome loses its pin when it is known. *)
WaitLocalUnpins ==
  /\ Running("wait") /\ local[run.op].st \in Results
  /\ run' = [run EXCEPT !.at = "receipt", !.result = local[run.op].st]
  /\ local' = [local EXCEPT ![run.op].pinned = FALSE]
  /\ UNCHANGED <<serverVars, up, gen, stale, releasing, poll, outcome, net, faults>>

(* Mutant: an operation that is not complete counts as failed. *)
WaitLocalNot ==
  /\ Running("wait")
  /\ run' = [run EXCEPT !.at = "receipt",
                        !.result = IF local[run.op].st = "succeeded" THEN "succeeded" ELSE "failed"]
  /\ UNCHANGED <<serverVars, up, gen, stale, releasing, poll, localVars, net, faults>>

WaitLocal ==
  /\ Running("wait") /\ local[run.op].st \in Results
  /\ run' = [run EXCEPT !.at = "receipt", !.result = local[run.op].st]
  /\ UNCHANGED <<serverVars, up, gen, stale, releasing, poll, localVars, net, faults>>

ReportOutcome ==
  LET m == Call("receipt", run.gen, run.op, run.result) IN
  /\ Running("receipt")
  /\ \/ /\ Answered(m)
        /\ IF Accepted(m) THEN RunGoes("acknowledge") ELSE RunFails
     \/ /\ Unanswered(m) /\ RunFails
  /\ UNCHANGED <<up, gen, releasing, poll, localVars>>

(* The pin goes with the acknowledgment; an operation that was refused     *)
(* without execution has no record, which is an error of the task.         *)
Acknowledge ==
  /\ Running("acknowledge")
  /\ IF local[run.op].st \in Results
     THEN /\ local' = [local EXCEPT ![run.op].pinned = FALSE]
          /\ run' = Idle /\ UNCHANGED stale
     ELSE RunFails /\ UNCHANGED local
  /\ UNCHANGED <<serverVars, up, gen, releasing, poll, outcome, net, faults>>

(* Retention removes outcomes without a pin.                               *)
Prune(o) == /\ up /\ local[o].st \in Results /\ ~local[o].pinned
            /\ local' = [local EXCEPT ![o] = NoLocal]
            /\ UNCHANGED <<serverVars, clientVars, outcome, net, faults>>

-----------------------------------------------------------------------------
(* The daemon ends, in order (with a last release, two seconds at most) or *)
(* not; the next one fails what the journal left open and has a fresh      *)
(* generation.                                                             *)
Down == /\ up /\ Fault("crash") /\ up' = FALSE
        /\ poll' = [at |-> "top", op |-> NoOp] /\ run' = Idle
        /\ stale' = FALSE /\ releasing' = FALSE
        /\ \/ UNCHANGED serverVars
           \/ releasing /\ Effect(Call("release", gen, NoOp, "none"))
        /\ UNCHANGED <<gen, localVars, net>>
Open == /\ ~up /\ up' = TRUE /\ gen' = FreshGen
        /\ local' = [o \in Ops |-> IF local[o].st = "accepted"
                                   THEN [local[o] EXCEPT !.st = "failed"] ELSE local[o]]
        /\ outcome' = [o \in Ops |-> IF local[o].st = "accepted"
                                     THEN [outcome[o] EXCEPT !.result = "failed"] ELSE outcome[o]]
        /\ UNCHANGED <<serverVars, stale, releasing, poll, run, net, faults>>

-----------------------------------------------------------------------------
PollStep == Release \/ Rotate \/ ReportLease \/ ReadControl \/ Apply
RunStep == ClaimOp \/ Execute \/ WaitLocal \/ ReportOutcome \/ Acknowledge

Next == \/ \E o \in Ops : Request(o) \/ LocalDone(o) \/ Prune(o)
        \/ ChangeDelivery \/ Withdraw \/ Expire \/ Arrive \/ Down \/ Open
        \/ PollStep \/ RunStep

Spec == Init /\ [][Next]_vars

(* The two tasks and the local operations go on; a lease nobody renews     *)
(* expires.                                                                *)
Fairness == /\ WF_vars(PollStep) /\ WF_vars(RunStep)
            /\ WF_vars(Expire /\ ~(up /\ lease.gen = gen))
            /\ WF_vars(Arrive)
            /\ \A o \in Ops : WF_vars(LocalDone(o))
FairSpec == Spec /\ Fairness

-----------------------------------------------------------------------------
(* Properties *)

(* "Reconnection cannot repeat execution": whatever call is lost, late or  *)
(* repeated, whichever process or generation takes it up again, and        *)
(* whatever retention removes, a request is executed once at most.         *)
ExecutedOnce == \A o \in Ops : outcome[o].times <= 1

(* What the server shows as the outcome is the outcome: a success it shows *)
(* was one, and one that happened is not shown as a failure, unless the    *)
(* author had lost the authority over the running operation, or fleetd     *)
(* refused it once, before it was executed or when it was handed over      *)
(* again.                                                                  *)
OutcomeTrue ==
  \A o \in Ops : /\ op[o].st = "succeeded" => outcome[o].result = "succeeded"
                 /\ op[o].st = "failed" /\ outcome[o].result = "succeeded"
                      => ~authorized \/ outcome[o].refused

(* The generation changes while the task of an operation is between two of *)
(* its calls and has nothing to wait for.                                  *)
Overtaken == /\ gen' # gen /\ up /\ up'
             /\ \/ run.at \in {"claim", "execute", "receipt"}
                \/ run.at = "wait" /\ local[run.op].st \in Results

(* Once calls come through again, a request is settled, also one that the  *)
(* process which claimed it did not live to report: provided the second    *)
(* that the polling task pauses is in the end enough for the task of the   *)
(* operation to have its answers.                                          *)
RequestSettles ==
  <>[][~Overtaken]_vars =>
    \A o \in Ops : op[o].st \in {"pending", "running"} ~> (Settled(o) \/ ~up)

(* "Completed outcomes remain pinned until remote acknowledgment": with    *)
(* the outcome at the server and nothing under way, the pin is gone.       *)
PinReleased == \A o \in Ops : Settled(o) /\ local[o].pinned ~> (~local[o].pinned \/ ~up)
=============================================================================
