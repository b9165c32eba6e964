----------------------------- MODULE Controller -----------------------------
(***************************************************************************)
(* The fleetd controller for one registered fleet (services/fleetd,        *)
(* packages/domain/src/controller).  An operation is accepted under the    *)
(* state lock and runs as a task of its own; only Stop may overtake a      *)
(* running one, which it cancels and waits for.  A runtime that ends is    *)
(* brought back by a recovery task, a restarted daemon restores what is    *)
(* wanted through the same task.  All of them share the maps running,      *)
(* recovering and operations under the lock and await between its holds.   *)
(*                                                                         *)
(* A step goes from one await, durable write or lock section to the next.  *)
(* The registration, its revision and its files do not change: roster      *)
(* edits and set-up are left out, as is a failing write of the registry.   *)
(***************************************************************************)
EXTENDS Naturals, FiniteSets

CONSTANTS Instances,  \* the roster, in the order of its keys
          Requests,   \* the operations that may be asked for
          MaxOps,     \* bound on operations
          Admission,  \* recoveries that may start a runtime at once (4)
          Faults,     \* the kinds of faults that may happen
          MaxFaults   \* bound on them

WholeFleet == 0
Actions == {"start", "stop", "reset", "update", "enroll"}
FaultKinds == {"die",      \* a runtime ends by itself
               "leave",    \* its listener is stopped on purpose
               "flaky",    \* an external call fails, worth a retry
               "refused",  \* a start fails for good
               "stuck",    \* a runtime cannot be closed
               "approval", \* the owner's approval is asked for
               "crash",    \* the daemon dies
               "close"}    \* the daemon is stopped in order
ASSUME InstancesAssumption == Instances \subseteq Nat \ {0} /\ IsFiniteSet(Instances)
ASSUME RequestsAssumption ==
  Requests \subseteq [act : Actions, tgt : Instances \cup {WholeFleet}]
ASSUME BoundsAssumption ==
  MaxOps \in Nat /\ MaxFaults \in Nat /\ Admission \in Nat \ {0} /\ Faults \subseteq FaultKinds

Ops == 1..MaxOps

VARIABLES
  wanted,     \* durable: desired-intent.json
  selection,  \* durable: resume-selections.json, if the fleet has an entry
  journal,    \* durable: the operations and their status
  daemon,     \* the process
  current,    \* state.operations[fleet], 0 if none
  task,       \* the tasks of the operations
  running,    \* state.running, and what the runtime itself is in
  phase,      \* state.instances[k].phase
  rec,        \* state.recovering[k] and its task
  restoring,  \* the calls of recover that restore() makes and awaits
  faults

durableVars == <<wanted, selection, journal>>
vars == <<durableVars, daemon, current, task, running, phase, rec, restoring, faults>>

-----------------------------------------------------------------------------
Phases == {"Stopped", "Starting", "AwaitingApproval", "Running", "Stopping", "Failed"}
Stages == {"none", "cancel", "wait", "begin", "stop", "join", "get", "close", "confirm",
           "inspect", "reset", "update", "ready", "prepare", "approve", "intent", "start",
           "opening", "launch", "drop", "end", "final", "save", "done"}
Statuses == {"none", "accepted", "succeeded", "failed"}
Journal == [act : Actions \cup {"none"}, tgt : Instances \cup {WholeFleet}, status : Statuses]
Task == [at : Stages, todo : SUBSET Instances, sel : SUBSET Instances,
         errs : SUBSET Instances, snap : SUBSET Instances, then : Stages,
         fail : BOOLEAN, cancelled : BOOLEAN, pred : 0..MaxOps]
Runtime == [st : {"none", "live", "dead", "left"}, by : 0..MaxOps, watched : BOOLEAN]
Recovery == [at : {"none", "leave", "close", "delay", "lease", "start", "opening",
                   "launch", "drop"},
             stop : BOOLEAN]

NoTask == [at |-> "none", todo |-> {}, sel |-> {}, errs |-> {}, snap |-> {},
           then |-> "none", fail |-> FALSE, cancelled |-> FALSE, pred |-> 0]
NoRuntime == [st |-> "none", by |-> 0, watched |-> FALSE]
NoRecovery == [at |-> "none", stop |-> FALSE]

Act(i) == journal[i].act
First(S) == CHOOSE k \in S : \A l \in S : k <= l
(* Mutant: the whole fleet is taken as the name of an instance. *)
TargetsByName(t) == {t}

Targets(t) == IF t = WholeFleet THEN Instances ELSE {t}
Enabled(t) == wanted \cap Targets(t)
Up == daemon \in {"up", "closing", "drain", "unclosed", "off"}  \* the process exists
Stopping == daemon # "up"
Present(k) == running[k].st # "none"                \* in state.running
Recovering(k) == rec[k].at # "none"                 \* in state.recovering

(* StateLock: one runtime or one attempt at it at a time has the instance. *)
Attempt == {"opening", "launch", "drop"}
Held(k) == \/ Present(k)
           \/ rec[k].at \in Attempt
           \/ \E i \in Ops : task[i].at \in Attempt /\ First(task[i].todo) = k

Fault(kind) == kind \in Faults /\ faults < MaxFaults /\ faults' = faults + 1
NoFault == faults' = faults
Flaky(failing) == IF failing THEN Fault("flaky") ELSE NoFault

(* A recovery ends: restore() hears of it, and so does the operation that  *)
(* waits for it.                                                           *)
Attempted(k) == restoring' = [restoring EXCEPT ![k] = IF @ = "await" THEN "no" ELSE @]
Joined(k) == task' = [i \in Ops |-> IF task[i].at = "join" /\ First(task[i].todo) = k
                                    THEN [task[i] EXCEPT !.at = "get"] ELSE task[i]]
(* Mutant: a recovery that ends without an attempt tells the restore nothing. *)
RecoveryEndsSilently(k) == rec' = [rec EXCEPT ![k] = NoRecovery] /\ Joined(k) /\ UNCHANGED restoring

RecoveryEnds(k) == rec' = [rec EXCEPT ![k] = NoRecovery] /\ Attempted(k) /\ Joined(k)
RecoveryGoes(k, at) == rec' = [rec EXCEPT ![k].at = at]
Show(k, p) == phase' = [phase EXCEPT ![k] = p]

(* An ended task is kept as its stage, to know when it is waited for.      *)
Step(i, t) == task' = [task EXCEPT ![i] = t]
Goto(i, at) == Step(i, [task[i] EXCEPT !.at = at])
Skip(i, at) == [task[i] EXCEPT !.at = at, !.todo = @ \ {First(@)}]
Bad(i, at) == [task[i] EXCEPT !.at = at, !.todo = @ \ {First(@)}, !.errs = @ \cup {First(task[i].todo)}]

Init == /\ wanted = {}
        /\ selection = [saved |-> FALSE, keys |-> {}]
        /\ journal = [i \in Ops |-> [act |-> "none", tgt |-> WholeFleet, status |-> "none"]]
        /\ daemon = "up"
        /\ current = 0
        /\ task = [i \in Ops |-> NoTask]
        /\ running = [k \in Instances |-> NoRuntime]
        /\ phase = [k \in Instances |-> "Stopped"]
        /\ rec = [k \in Instances |-> NoRecovery]
        /\ restoring = [k \in Instances |-> "no"]
        /\ faults = 0

-----------------------------------------------------------------------------
(* operate: everything up to the unlock, then the token of the predecessor *)

(* Selections::select and ::stop.                                          *)
Select == IF ~selection.saved /\ wanted = {} THEN Instances
          ELSE selection.keys \cup wanted
(* Mutant: a repeated Stop saves the empty selection over the first one. *)
SavedByLastStop(t, enabled) ==
  [saved |-> TRUE, keys |-> IF t = WholeFleet THEN enabled ELSE (selection.keys \cup enabled) \ {t}]

SavedByStop(t, enabled) ==
  IF t = WholeFleet
  THEN IF enabled = {} /\ selection.saved THEN selection
       ELSE [saved |-> TRUE, keys |-> enabled]
  ELSE [saved |-> TRUE, keys |-> (selection.keys \cup enabled) \ {t}]

Chosen(r) == IF r.act = "start" /\ r.tgt = WholeFleet THEN Select ELSE Targets(r.tgt)
Executing == current # 0 \/ wanted # {} \/ \E k \in Instances : Present(k)
Admissible(r) ==
  /\ daemon = "up"
  /\ r.act # "stop" =>
       /\ current = 0
       /\ \A k \in Chosen(r) : Present(k) => running[k].st = "live" /\ phase[k] # "Failed"
  /\ r.act = "enroll" => r.tgt = WholeFleet /\ ~Executing

(* The durable part of the acceptance, write by write: the operation, the  *)
(* resume selection, the intent.  A Stop that replays at the next open of  *)
(* the controller does the same with what its target alone has enabled.    *)
SaveSelection(r, enabled) == IF r.act = "stop" THEN SavedByStop(r.tgt, enabled) ELSE selection
Disabled(r, keys) == IF r.act \in {"stop", "reset"} THEN wanted \ keys ELSE wanted
Writes(i, r, enabled, status, upto) ==
  /\ journal' = IF upto >= 1 THEN [journal EXCEPT ![i] = [act |-> r.act, tgt |-> r.tgt,
                                                          status |-> status]]
                ELSE journal
  /\ selection' = IF upto >= 2 THEN SaveSelection(r, enabled) ELSE selection
  /\ wanted' = IF upto >= 3 THEN Disabled(r, Chosen(r)) ELSE wanted

Fresh(i) == journal[i].status = "none" /\ \A j \in Ops : j < i => journal[j].status # "none"

Accept(i, r) ==
  /\ Fresh(i) /\ Admissible(r)
  /\ Writes(i, r, wanted, "accepted", 3)
  /\ current' = i
  /\ Step(i, [NoTask EXCEPT !.at = IF current = 0 THEN "begin" ELSE "cancel",
                            !.sel = Chosen(r), !.pred = current])
  /\ UNCHANGED <<daemon, running, phase, rec, restoring, faults>>

(* Mutant: the predecessor is waited for, not cancelled. *)
CancelNothing(i) ==
  /\ task[i].at = "cancel" /\ Goto(i, "wait")
  /\ UNCHANGED <<durableVars, daemon, current, running, phase, rec, restoring, faults>>

(* previous.stop.cancel(), after the unlock.  The runtimes that operation  *)
(* has started live under a child of its token.                            *)
CancelPredecessor(i) ==
  /\ task[i].at = "cancel"
  /\ task' = [task EXCEPT ![i].at = "wait", ![task[i].pred].cancelled = TRUE]
  /\ running' = [k \in Instances |-> IF running[k].st = "live" /\ running[k].by = task[i].pred
                                     THEN [running[k] EXCEPT !.st = "dead"] ELSE running[k]]
  /\ UNCHANGED <<durableVars, daemon, current, phase, rec, restoring, faults>>

(* Mutant: a Stop starts its work as soon as it has cancelled its predecessor. *)
WaitForNobody(i) ==
  /\ task[i].at = "wait" /\ Goto(i, "begin")
  /\ UNCHANGED <<durableVars, daemon, current, running, phase, rec, restoring, faults>>

Wait(i) ==
  /\ task[i].at = "wait" /\ task[task[i].pred].at = "done"
  /\ Goto(i, "begin")
  /\ UNCHANGED <<durableVars, daemon, current, running, phase, rec, restoring, faults>>

-----------------------------------------------------------------------------
(* run_action *)

StopLoop(i, S, then) == [task[i] EXCEPT !.at = IF S = {} THEN then ELSE "stop",
                                        !.todo = S, !.then = then]
AfterStop(t) == IF t.todo = {} THEN [t EXCEPT !.at = t.then, !.todo =
                  CASE t.then = "confirm" -> t.sel \ t.errs
                    [] t.then = "reset"   -> t.sel \ t.errs
                    [] t.then = "update"  -> t.sel \ t.errs
                    [] OTHER -> {}]
                ELSE t

(* The recoveries a start must end are looked up once, here.               *)
Begin(i) ==
  /\ task[i].at = "begin"
  /\ LET sel == task[i].sel
         recovering == {k \in sel : Recovering(k)}
     IN Step(i, CASE Act(i) = "stop"   -> AfterStop(StopLoop(i, sel, "confirm"))
                  [] Act(i) = "update" -> [StopLoop(i, sel, "update") EXCEPT !.snap = sel \cap wanted]
                  [] Act(i) = "start" /\ sel = {} -> [task[i] EXCEPT !.at = "end"]
                  [] Act(i) = "reset"  -> StopLoop(i, recovering, "inspect")
                  [] OTHER -> StopLoop(i, recovering, "ready"))
  /\ UNCHANGED <<durableVars, daemon, current, running, phase, rec, restoring, faults>>

(* stop_instance of the next instance: cancel its recovery and wait for    *)
(* it, then close what is running.                                         *)
StopInstance(i) ==
  LET k == First(task[i].todo) IN
  /\ task[i].at = "stop"
  /\ phase' = IF Recovering(k) \/ Present(k) THEN [phase EXCEPT ![k] = "Stopping"] ELSE phase
  /\ rec' = IF Recovering(k) THEN [rec EXCEPT ![k].stop = TRUE] ELSE rec
  /\ Goto(i, IF Recovering(k) THEN "join" ELSE "get")
  /\ UNCHANGED <<durableVars, daemon, current, running, restoring, faults>>

StoppedInstance(i, k) ==
  /\ Show(k, "Stopped")
  /\ Step(i, AfterStop(Skip(i, "stop")))

GetRuntime(i) ==
  LET k == First(task[i].todo) IN
  /\ task[i].at = "get"
  /\ IF Present(k) THEN Goto(i, "close") /\ UNCHANGED phase ELSE StoppedInstance(i, k)
  /\ UNCHANGED <<durableVars, daemon, current, running, rec, restoring, faults>>

(* runtime.close() ends the runtime's token first and may still fail.      *)
CloseInstance(i) ==
  LET k == First(task[i].todo) IN
  /\ task[i].at = "close"
  /\ \/ /\ running' = [running EXCEPT ![k] = NoRuntime]
        /\ StoppedInstance(i, k)
        /\ NoFault
     \/ /\ Fault("stuck")
        /\ running' = [running EXCEPT ![k].st = IF @ = "live" THEN "dead" ELSE @]
        /\ Show(k, "Failed")
        /\ Step(i, AfterStop(Bad(i, "stop")))
  /\ UNCHANGED <<durableVars, daemon, current, rec, restoring>>

(* The calls that go from instance to instance: confirm_stopped, reset,    *)
(* update.  A failure counts for its instance.                             *)
LoopDone(i) == CASE task[i].at = "confirm" -> "end"
                 [] task[i].at = "reset"   -> "ready"
                 [] task[i].at = "update"  -> "start"
EachInstance(i) ==
  LET t == task[i] IN
  /\ t.at \in {"confirm", "reset", "update"} /\ t.todo # {}
  /\ ~(t.at = "update" /\ t.cancelled)
  /\ \E failing \in BOOLEAN :
       /\ Flaky(failing)
       /\ Step(i, IF failing THEN Bad(i, t.at) ELSE Skip(i, t.at))
       /\ phase' = IF failing THEN [phase EXCEPT ![First(t.todo)] = "Failed"] ELSE phase
  /\ UNCHANGED <<durableVars, daemon, current, running, rec, restoring>>
EndLoop(i) ==
  LET t == task[i] IN
  /\ t.at \in {"confirm", "reset", "update"}
  /\ \/ /\ t.todo = {}
        /\ Step(i, [t EXCEPT !.at = LoopDone(i),
                             !.todo = IF t.at = "update" THEN t.snap ELSE {}])
     \/ /\ t.at = "update" /\ t.todo # {} /\ t.cancelled
        /\ Step(i, [t EXCEPT !.at = "end", !.fail = TRUE])
  /\ UNCHANGED <<durableVars, daemon, current, running, phase, rec, restoring, faults>>

(* A reset looks at everything before it stops anything.                   *)
Inspect(i) ==
  LET t == task[i] IN
  /\ t.at = "inspect"
  /\ \E failing \in BOOLEAN :
       /\ Flaky(failing)
       /\ Step(i, IF failing THEN [t EXCEPT !.at = "end", !.fail = TRUE]
                  ELSE AfterStop(StopLoop(i, t.sel \ t.errs, "reset")))
  /\ UNCHANGED <<durableVars, daemon, current, running, phase, rec, restoring>>

Ready(i) ==
  /\ task[i].at = "ready"
  /\ phase' = [k \in Instances |-> IF k \in task[i].sel \ task[i].errs /\ ~Present(k)
                                   THEN "Starting" ELSE phase[k]]
  /\ Goto(i, "prepare")
  /\ UNCHANGED <<durableVars, daemon, current, running, rec, restoring, faults>>

(* prepare may come back with an approval to wait for.  cancelled(stop) is *)
(* asked after it and before the intent is written, not with it.           *)
Prepare(i) ==
  LET t == task[i] IN
  /\ t.at \in {"prepare", "approve"}
  /\ \E failing \in BOOLEAN :
       /\ IF failing /\ t.cancelled THEN NoFault ELSE Flaky(failing)
       /\ Step(i, IF failing \/ t.cancelled THEN [t EXCEPT !.at = "end", !.fail = TRUE]
                  ELSE [t EXCEPT !.at = "intent"])
  /\ UNCHANGED <<durableVars, daemon, current, running, phase, rec, restoring>>

AskApproval(i) ==
  /\ task[i].at = "prepare" /\ Fault("approval")
  /\ phase' = [k \in Instances |-> IF k \in task[i].sel /\ ~Present(k) /\ phase[k] # "Failed"
                                   THEN "AwaitingApproval" ELSE phase[k]]
  /\ Goto(i, "approve")
  /\ UNCHANGED <<durableVars, daemon, current, running, rec, restoring>>

Intent(i) ==
  LET t == task[i] IN
  /\ t.at = "intent"
  /\ IF Act(i) = "enroll"
     THEN /\ Step(i, [t EXCEPT !.at = "end"])
          /\ phase' = [k \in Instances |-> IF k \in t.errs THEN "Failed" ELSE "Stopped"]
          /\ UNCHANGED wanted
     ELSE /\ Step(i, [t EXCEPT !.at = "start", !.todo = t.sel])
          /\ wanted' = wanted \cup (t.sel \ t.errs)
          /\ UNCHANGED phase
  /\ UNCHANGED <<selection, journal, daemon, current, running, rec, restoring, faults>>

-----------------------------------------------------------------------------
(* start_selected of the next instance *)

NeedsNoStart(i, k) == \/ k \in task[i].errs
                      \/ Act(i) = "update" /\ k \notin wanted
                      \/ Present(k)
StartInstance(i) ==
  LET t == task[i]
      k == First(t.todo) IN
  /\ t.at = "start" /\ t.todo # {} /\ ~(t.cancelled /\ Act(i) # "update")
  /\ Step(i, CASE NeedsNoStart(i, k) -> Skip(i, "start")
               [] ~NeedsNoStart(i, k) /\ Held(k) -> Bad(i, "start")
               [] OTHER -> [t EXCEPT !.at = "opening"])
  /\ phase' = IF ~NeedsNoStart(i, k) /\ Held(k) THEN [phase EXCEPT ![k] = "Failed"] ELSE phase
  /\ UNCHANGED <<durableVars, daemon, current, running, rec, restoring, faults>>

StartLoopEnds(i) ==
  LET t == task[i] IN
  /\ t.at = "start"
  /\ \/ /\ t.todo = {}
        /\ Step(i, [t EXCEPT !.at = "end"])
     \/ /\ t.todo # {} /\ t.cancelled /\ Act(i) # "update"
        /\ Step(i, [t EXCEPT !.at = "end", !.fail = TRUE])
  /\ UNCHANGED <<durableVars, daemon, current, running, phase, rec, restoring, faults>>

(* execution.start comes back.  A failure worth a retry is handed to a     *)
(* recovery, unless the operation has been cancelled.                      *)
Opened(i) ==
  LET t == task[i]
      k == First(t.todo) IN
  /\ t.at = "opening"
  /\ \/ /\ Goto(i, "launch") /\ NoFault
        /\ UNCHANGED <<phase, rec>>
     \/ /\ \/ t.cancelled /\ NoFault /\ UNCHANGED rec
           \/ ~t.cancelled /\ Fault("refused") /\ UNCHANGED rec
           \/ /\ ~t.cancelled /\ Fault("flaky")
              /\ rec' = IF Stopping \/ Recovering(k) THEN rec
                        ELSE [rec EXCEPT ![k] = [NoRecovery EXCEPT !.at = "delay"]]
        /\ Show(k, "Failed")
        /\ Step(i, Bad(i, "start"))
  /\ UNCHANGED <<durableVars, daemon, current, running, restoring>>

(* Mutant: a finished start is admitted though the intent has gone meanwhile. *)
MayLaunchUnwanted(k, cancelled) == ~Stopping /\ ~cancelled /\ ~Present(k)

(* launched: admit the runtime under the lock, or close it again.          *)
MayLaunch(k, cancelled) == ~Stopping /\ ~cancelled /\ k \in wanted /\ ~Present(k)
Live(i) == [st |-> "live", by |-> i, watched |-> TRUE]
Launch(i) ==
  LET t == task[i]
      k == First(t.todo) IN
  /\ t.at = "launch"
  /\ IF MayLaunch(k, t.cancelled)
     THEN /\ running' = [running EXCEPT ![k] = Live(i)]
          /\ Show(k, "Running")
          /\ Step(i, Skip(i, "start"))
     ELSE Goto(i, "drop") /\ UNCHANGED <<running, phase>>
  /\ UNCHANGED <<durableVars, daemon, current, rec, restoring, faults>>
Drop(i) ==
  /\ task[i].at = "drop"
  /\ \/ NoFault /\ Step(i, Skip(i, "start"))
     \/ Fault("stuck") /\ Step(i, [task[i] EXCEPT !.at = "end", !.fail = TRUE])
  /\ UNCHANGED <<durableVars, daemon, current, running, phase, rec, restoring>>

-----------------------------------------------------------------------------
(* execute_operation after run_action, and the outcome *)

EndAction(i) ==
  /\ task[i].at = "end"
  /\ Step(i, IF task[i].cancelled /\ Act(i) # "stop"
             THEN AfterStop(StopLoop(i, task[i].sel, "final"))
             ELSE [task[i] EXCEPT !.at = "final"])
  /\ UNCHANGED <<durableVars, daemon, current, running, phase, rec, restoring, faults>>

Final(i) ==
  /\ task[i].at = "final"
  /\ phase' = [k \in Instances |->
                 IF k \in task[i].sel /\ phase[k] \in {"Starting", "AwaitingApproval"}
                 THEN "Failed" ELSE phase[k]]
  /\ Goto(i, "save")
  /\ UNCHANGED <<durableVars, daemon, current, running, rec, restoring, faults>>

Save(i) ==
  /\ task[i].at = "save"
  /\ current' = IF current = i THEN 0 ELSE current
  /\ journal' = [journal EXCEPT ![i].status =
                   IF task[i].errs = {} /\ ~task[i].fail THEN "succeeded" ELSE "failed"]
  /\ Step(i, [NoTask EXCEPT !.at = "done"])
  /\ UNCHANGED <<wanted, selection, daemon, running, phase, rec, restoring, faults>>

-----------------------------------------------------------------------------
(* Runtimes that end, and recovery *)

Dies(k) ==
  /\ running[k].st = "live"
  /\ \/ Fault("die") /\ running' = [running EXCEPT ![k].st = "dead"]
     \/ Fault("leave") /\ running' = [running EXCEPT ![k].st = "left"]
  /\ UNCHANGED <<durableVars, daemon, current, task, phase, rec, restoring>>

(* The watcher of a runtime, once: the check and recover's own under the   *)
(* lock are one.                                                           *)
Watch(k) ==
  LET eligible == k \in wanted /\ phase[k] = "Running" /\ ~Recovering(k) IN
  /\ running[k].st \in {"dead", "left"} /\ running[k].watched /\ ~Stopping
  /\ running' = [running EXCEPT ![k].watched = FALSE]
  /\ phase' = IF ~eligible THEN phase
              ELSE [phase EXCEPT ![k] = IF running[k].st = "left" THEN "Stopping" ELSE "Failed"]
  /\ rec' = IF ~eligible THEN rec
            ELSE [rec EXCEPT ![k] = [NoRecovery EXCEPT
                    !.at = IF running[k].st = "left" THEN "leave" ELSE "close"]]
  /\ UNCHANGED <<durableVars, daemon, current, task, restoring, faults>>

(* A listener stopped on purpose: the intent goes before the runtime.      *)
RecoverLeaves(k) ==
  /\ rec[k].at = "leave"
  /\ wanted' = wanted \ {k}
  /\ RecoveryGoes(k, "close")
  /\ UNCHANGED <<selection, journal, daemon, current, task, running, phase, restoring, faults>>

(* The exact generation that failed is closed before there is another.     *)
RecoverCloses(k) ==
  /\ rec[k].at = "close"
  /\ \/ /\ NoFault
        /\ running' = [running EXCEPT ![k] = NoRuntime]
        /\ IF running[k].st = "left"
           THEN Show(k, "Stopped") /\ RecoveryEnds(k)
           ELSE RecoveryGoes(k, "delay") /\ UNCHANGED <<phase, task, restoring>>
     \/ /\ Fault("stuck")
        /\ Show(k, "Failed") /\ RecoveryEnds(k)
        /\ UNCHANGED running
  /\ UNCHANGED <<durableVars, daemon, current>>

(* The delay is over (there is none before the first attempt of a          *)
(* restore), and the recovery looks whether it may go on.                  *)
RecoverDelays(k) ==
  /\ rec[k].at = "delay"
  /\ \/ /\ rec[k].stop \/ Stopping \/ k \notin wanted
        /\ RecoveryEnds(k)
     \/ /\ ~rec[k].stop /\ ~Stopping /\ k \in wanted
        /\ RecoveryGoes(k, IF current # 0 THEN "delay" ELSE "lease")
        /\ UNCHANGED <<task, restoring>>
  /\ UNCHANGED <<durableVars, daemon, current, running, phase, faults>>

(* recovery_starts.acquire, then execution.start.                          *)
Admitted == Cardinality({l \in Instances : rec[l].at = "opening"}) < Admission
RecoverStarts(k) ==
  /\ rec[k].at = "lease"
  /\ \/ /\ rec[k].stop
        /\ RecoveryEnds(k) /\ UNCHANGED phase
     \/ /\ ~rec[k].stop /\ Admitted /\ Held(k)
        /\ Show(k, "Failed") /\ RecoveryEnds(k)
     \/ /\ ~rec[k].stop /\ Admitted /\ ~Held(k)
        /\ RecoveryGoes(k, "opening") /\ UNCHANGED <<task, phase, restoring>>
  /\ UNCHANGED <<durableVars, daemon, current, running, faults>>

RecoverOpened(k) ==
  /\ rec[k].at = "opening"
  /\ \/ /\ RecoveryGoes(k, "launch") /\ NoFault
        /\ UNCHANGED <<task, phase, restoring>>
     \/ /\ rec[k].stop /\ NoFault
        /\ RecoveryEnds(k) /\ UNCHANGED phase
     \/ /\ ~rec[k].stop /\ Fault("flaky")
        /\ Show(k, "Failed") /\ Attempted(k)
        /\ RecoveryGoes(k, "delay") /\ UNCHANGED task
     \/ /\ ~rec[k].stop /\ Fault("refused")
        /\ Show(k, "Failed") /\ RecoveryEnds(k)
  /\ UNCHANGED <<durableVars, daemon, current, running>>

RecoverLaunches(k) ==
  /\ rec[k].at = "launch"
  /\ IF MayLaunch(k, rec[k].stop)
     THEN /\ running' = [running EXCEPT ![k] = Live(0)]
          /\ Show(k, "Running")
          /\ RecoveryEnds(k)
     ELSE RecoveryGoes(k, "drop") /\ UNCHANGED <<task, running, phase, restoring>>
  /\ UNCHANGED <<durableVars, daemon, current, faults>>
RecoverDrops(k) ==
  /\ rec[k].at = "drop"
  /\ \/ NoFault /\ UNCHANGED phase
     \/ Fault("stuck") /\ Show(k, "Failed")
  /\ RecoveryEnds(k)
  /\ UNCHANGED <<durableVars, daemon, current, running>>

-----------------------------------------------------------------------------
(* The process *)

Die == /\ daemon' = "down"
       /\ current' = 0
       /\ task' = [i \in Ops |-> NoTask]
       /\ running' = [k \in Instances |-> NoRuntime]
       /\ phase' = [k \in Instances |-> "Stopped"]
       /\ rec' = [k \in Instances |-> NoRecovery]
       /\ restoring' = [k \in Instances |-> "no"]
Crash == /\ Up /\ Fault("crash")
         /\ Die
         /\ UNCHANGED durableVars
CrashInAccept(i, r) == /\ Fresh(i) /\ Admissible(r) /\ Fault("crash")
                       /\ \E upto \in 1..2 : Writes(i, r, wanted, "accepted", upto)
                       /\ Die

(* Mutant: close() ends the recoveries and the runtimes, not the operations. *)
CloseKeepsOperations ==
  /\ daemon = "up" /\ Fault("close") /\ daemon' = "closing"
  /\ rec' = [k \in Instances |-> IF Recovering(k) THEN [rec[k] EXCEPT !.stop = TRUE] ELSE rec[k]]
  /\ running' = [k \in Instances |-> IF running[k].st = "live"
                                     THEN [running[k] EXCEPT !.st = "dead"] ELSE running[k]]
  /\ UNCHANGED <<durableVars, current, task, phase, restoring>>

(* close(): no admission any more, every token cancelled, then wait for    *)
(* the restore, the operations and the recoveries, then close the rest.  A *)
(* runtime that cannot be closed leaves the controller stopping; another   *)
(* Stop of the daemon may try again, and a signal ends the process anyway. *)
Close == /\ daemon = "up" /\ Fault("close")
         /\ daemon' = "closing"
         /\ task' = [i \in Ops |-> IF task[i].at \in {"none", "done"} THEN task[i]
                                   ELSE [task[i] EXCEPT !.cancelled = TRUE]]
         /\ rec' = [k \in Instances |-> IF Recovering(k) THEN [rec[k] EXCEPT !.stop = TRUE]
                                        ELSE rec[k]]
         /\ running' = [k \in Instances |-> IF running[k].st = "live"
                                            THEN [running[k] EXCEPT !.st = "dead"] ELSE running[k]]
         /\ UNCHANGED <<durableVars, current, phase, restoring>>
(* Mutant: close() waits for the operations and not for the recoveries. *)
CloseWaitsForOperations ==
  /\ daemon = "closing" /\ \A i \in Ops : task[i].at \in {"none", "done"}
  /\ daemon' = "drain"
  /\ UNCHANGED <<durableVars, current, task, running, phase, rec, restoring, faults>>

CloseWaits == /\ daemon = "closing"
              /\ \A k \in Instances : restoring[k] = "no" /\ ~Recovering(k)
              /\ \A i \in Ops : task[i].at \in {"none", "done"}
              /\ daemon' = "drain"
              /\ UNCHANGED <<durableVars, current, task, running, phase, rec, restoring, faults>>
CloseRuntimes == /\ daemon = "drain"
                 /\ \E S \in SUBSET {k \in Instances : Present(k)} :
                      /\ IF S = {} THEN NoFault ELSE Fault("stuck")
                      /\ running' = [k \in Instances |-> IF k \in S THEN running[k] ELSE NoRuntime]
                      /\ daemon' = IF S = {} THEN "off" ELSE "unclosed"
                 /\ UNCHANGED <<durableVars, current, task, phase, rec, restoring>>
CloseAgain == /\ daemon = "unclosed" /\ daemon' = "closing"
              /\ UNCHANGED <<durableVars, current, task, running, phase, rec, restoring, faults>>
Exit == daemon \in {"off", "unclosed"} /\ Die /\ UNCHANGED <<durableVars, faults>>

(* open: every operation the last process left is failed, a Stop or Reset  *)
(* takes its effect on the intent first.                                   *)
Open == /\ daemon = "down" /\ daemon' = "opening"
        /\ UNCHANGED <<durableVars, current, task, running, phase, rec, restoring, faults>>
Replay(i) ==
  LET r == [act |-> journal[i].act, tgt |-> journal[i].tgt]
      enabled == Enabled(journal[i].tgt)
  IN /\ daemon = "opening" /\ journal[i].status = "accepted"
     /\ \/ /\ selection' = SaveSelection(r, enabled)
           /\ wanted' = Disabled(r, enabled)
           /\ journal' = [journal EXCEPT ![i].status = "failed"]
           /\ NoFault /\ UNCHANGED daemon
        \/ /\ Fault("crash") /\ daemon' = "down"
           /\ selection' = SaveSelection(r, enabled)
           /\ wanted' \in {wanted, Disabled(r, enabled)}
           /\ UNCHANGED journal
     /\ UNCHANGED <<current, task, running, phase, rec, restoring>>
(* restore() lists what is wanted before the socket is served, and calls   *)
(* recover for each.                                                       *)
Serve == /\ daemon = "opening" /\ \A i \in Ops : journal[i].status # "accepted"
         /\ daemon' = "up"
         /\ restoring' = [k \in Instances |-> IF k \in wanted THEN "call" ELSE "no"]
         /\ phase' = [k \in Instances |-> IF k \in wanted THEN "Starting" ELSE "Stopped"]
         /\ UNCHANGED <<durableVars, current, task, running, rec, faults>>
Restore(k) ==
  /\ restoring[k] = "call"
  /\ IF Stopping \/ Recovering(k)
     THEN restoring' = [restoring EXCEPT ![k] = "no"] /\ UNCHANGED <<phase, rec>>
     ELSE /\ restoring' = [restoring EXCEPT ![k] = "await"]
          /\ Show(k, "Starting")
          /\ rec' = [rec EXCEPT ![k] = [NoRecovery EXCEPT !.at = "delay"]]
  /\ UNCHANGED <<durableVars, daemon, current, task, running, faults>>

-----------------------------------------------------------------------------
TaskStep(i) == \/ CancelPredecessor(i) \/ Wait(i) \/ Begin(i) \/ StopInstance(i) \/ GetRuntime(i)
               \/ CloseInstance(i) \/ EachInstance(i) \/ EndLoop(i) \/ Inspect(i) \/ Ready(i)
               \/ Prepare(i) \/ Intent(i) \/ StartInstance(i) \/ StartLoopEnds(i) \/ Opened(i)
               \/ Launch(i) \/ Drop(i) \/ EndAction(i) \/ Final(i) \/ Save(i)
RecoveryStep(k) == \/ RecoverLeaves(k) \/ RecoverCloses(k) \/ RecoverDelays(k)
                   \/ RecoverStarts(k) \/ RecoverOpened(k) \/ RecoverLaunches(k)
                   \/ RecoverDrops(k)
ProcessStep == CloseWaits \/ CloseRuntimes \/ Serve \/ \E i \in Ops : Replay(i)

Next == \/ \E i \in Ops : \/ \E r \in Requests : Accept(i, r) \/ CrashInAccept(i, r)
                          \/ TaskStep(i) \/ AskApproval(i)
        \/ \E k \in Instances : RecoveryStep(k) \/ Dies(k) \/ Watch(k) \/ Restore(k)
        \/ Crash \/ Close \/ CloseAgain \/ Exit \/ Open \/ ProcessStep

Spec == Init /\ [][Next]_vars

(* Tasks of the runtime run; external calls come back within their         *)
(* deadlines.  Nobody has to give an approval, or to start the daemon.     *)
Fairness == /\ \A i \in Ops : WF_vars(TaskStep(i) /\ (task[i].at = "approve" => task[i].cancelled))
            /\ \A k \in Instances : /\ WF_vars(RecoveryStep(k))
                                    /\ WF_vars(Watch(k))
                                    /\ WF_vars(Restore(k))
            /\ WF_vars(ProcessStep)
FairSpec == Spec /\ Fairness

-----------------------------------------------------------------------------
(* Properties *)

TypeOK == /\ wanted \subseteq Instances
          /\ selection \in [saved : BOOLEAN, keys : SUBSET Instances]
          /\ journal \in [Ops -> Journal]
          /\ daemon \in {"down", "opening", "up", "closing", "drain", "unclosed", "off"}
          /\ current \in 0..MaxOps
          /\ task \in [Ops -> Task]
          /\ running \in [Instances -> Runtime]
          /\ phase \in [Instances -> Phases]
          /\ rec \in [Instances -> Recovery]
          /\ restoring \in [Instances -> {"no", "call", "await"}]
          /\ faults \in 0..MaxFaults

Acting(i) == task[i].at \notin {"none", "cancel", "wait", "done"}

(* A Stop overtakes an operation at any await of it; the two never act on  *)
(* the fleet together.                                                     *)
OneOperation == \A i, j \in Ops : Acting(i) /\ Acting(j) => i = j

ResetFailed == \E i \in Ops : Act(i) = "reset" /\ journal[i].status = "failed"

(* Once no operation is under way, what is not wanted neither runs nor is  *)
(* about to run, whatever start, recovery or restore was under way when    *)
(* the intent went.  A runtime that has ended and could not be closed is   *)
(* shown as failed (as starting, if restore() comes to its instance only   *)
(* then) or is still being closed.  A Reset that fails in its inspection   *)
(* keeps what runs while it has given up the intent.                       *)
NothingUnwanted ==
  daemon = "up" /\ current = 0 =>
    \A k \in Instances \ wanted :
      Held(k) => \/ /\ running[k].st \in {"dead", "left"}
                    /\ phase[k] \in {"Failed", "Starting"} \/ rec[k].at = "close"
                 \/ ResetFailed

(* An orderly close leaves no runtime and no attempt at one behind.        *)
CloseLeavesNothing == daemon = "off" => \A k \in Instances : ~Held(k)

Named(k) == \E i \in Ops : journal'[i].status # "none" /\ \/ journal'[i].act = "reset"
                                                          \/ journal'[i].tgt = k

(* What was enabled when the fleet was stopped is resumed: an instance     *)
(* loses its intent only with a place in the selection, or because its     *)
(* listener was left; it loses its place only to a later selection.        *)
(* Crashes and replays of a half accepted Stop included.  An instance      *)
(* that an operation of its own or a Reset has named before is exempt:     *)
(* its intent and its place may have been taken for good.                  *)
KeptForResume ==
  [][\A k \in Instances :
       /\ k \in wanted /\ k \notin wanted' => \/ k \in selection'.keys \/ Named(k)
                                              \/ running[k].st = "left"
       /\ k \in selection.keys /\ k \notin selection'.keys => wanted # {} \/ Named(k)]_vars

(* A Stop ends, also one that overtakes an operation that waits for the    *)
(* owner's approval, or a recovery in the middle of a start.               *)
StopEnds == \A i \in Ops : (Act(i) = "stop" /\ task[i].at # "none") ~>
                             (task[i].at = "done" \/ daemon # "up")

(* close() waits for the restore, every operation and every recovery; none *)
(* of them waits for ever.                                                 *)
CloseTerminates == daemon = "closing" ~> daemon \in {"off", "unclosed", "down"}

(* What a restarted daemon shows as starting comes to an answer, unless an *)
(* operation waits for the owner meanwhile.                                *)
RestoreSettles == \A k \in Instances : restoring[k] # "no" ~> (restoring[k] = "no" \/ current # 0)

(* "Save enabled selection, disable intent": after a Stop that succeeded,  *)
(* its instances are not wanted.                                           *)
StopSticks == \A i \in Ops :
  journal[i].act = "stop" /\ journal[i].status = "succeeded" /\ (\A j \in Ops : j > i => journal[j].status = "none")
    => wanted \cap Targets(journal[i].tgt) = {}

(* A runtime that runs can be recovered: with nothing under way it is      *)
(* shown as running, which is what its watcher asks for.                   *)
RunningIsShown ==
  daemon = "up" /\ current = 0 =>
    \A k \in Instances : running[k].st = "live" /\ ~Recovering(k) => phase[k] = "Running"
=============================================================================
