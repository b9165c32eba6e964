-------------------------- MODULE ControllerProofs --------------------------
(***************************************************************************)
(* For any roster, requests, bounds and faults: one operation acts on the  *)
(* fleet at a time, what is not wanted does not stay, an orderly close     *)
(* leaves nothing, and a stopped fleet is kept for its resume.             *)
(*                                                                         *)
(* The argument.  The tasks under way are in the order of their numbers:   *)
(* all but the first wait, each for the task before it, and the last is    *)
(* the current one.  When the intent of an instance goes, either nothing   *)
(* of it is left, or a Stop or Reset that has not come to it yet ends its  *)
(* recovery and its runtime; while it closes them the phase of the         *)
(* instance keeps the watcher from starting a recovery, and the recovery   *)
(* it joins has been told to stop.  close() goes on only when no task and  *)
(* no recovery is left, and none starts while the daemon stops.            *)
(***************************************************************************)
EXTENDS Controller, WellFoundedInduction, TLAPS

Busy(i) == task[i].at \notin {"none", "done"}
Waiting(i) == task[i].at \in {"cancel", "wait"}
StopStages == {"stop", "join", "get", "close"}
AfterStages == {"confirm", "update", "inspect", "ready", "reset", "final"}
StopsOrResets(i) == Act(i) \in {"stop", "reset"}
(* A recovery that has asked whether its instance is wanted for the last   *)
(* time before the lock section that admits the runtime.                   *)
Starting(k) == rec[k].at \in {"lease", "opening", "launch", "drop"}

TaskTrue(i) ==
  /\ task[i].at \in StopStages \cup {"opening", "launch", "drop"} => task[i].todo # {}
  /\ task[i].at \in StopStages => task[i].then \in AfterStages
  /\ Waiting(i) => task[i].pred \in Ops /\ task[i].pred < i
TasksTrue == \A i \in Ops : TaskTrue(i)
JournalTrue == /\ \A i \in Ops : Busy(i) => journal[i].status = "accepted"
               /\ \A i \in Ops : task[i].at # "none" => journal[i].status # "none"
               /\ \A i, j \in Ops : i < j /\ journal[j].status # "none" => journal[i].status # "none"
(* The line of the operations: only the first under way acts, the others   *)
(* wait for one behind which no task is forgotten, the last is current.    *)
Line == /\ \A i, j \in Ops : i < j /\ Busy(i) /\ Busy(j) => Waiting(j)
        /\ \A j \in Ops : Waiting(j) =>
             \A i \in Ops : i < j /\ Busy(i) => i <= task[j].pred /\ Busy(task[j].pred)
        /\ \A i \in Ops : Busy(i) => i <= current
        /\ current # 0 => Busy(current)
(* What close() has waited for, and what a new process begins with.        *)
Quiet == daemon \in {"drain", "unclosed", "off", "down", "opening"} =>
           /\ \A i \in Ops : ~Busy(i)
           /\ \A k \in Instances : ~Recovering(k) /\ restoring[k] = "no"
           /\ daemon \notin {"drain", "unclosed"} => \A k \in Instances : ~Present(k)
SelectionTrue == ~selection.saved => selection.keys = {}
LeavingTrue == \A k \in Instances : rec[k].at = "leave" => running[k].st = "left"
(* An instance that a task stops: its recovery has been told to, and its   *)
(* runtime is not shown as running, so no watcher starts another one.      *)
Joins(k) == Recovering(k) /\ rec[k].stop /\ phase[k] # "Running"
Closes(k) == rec[k].at \in {"none", "delay"} /\ (Present(k) => phase[k] # "Running")
TaskStops(i) ==
  /\ task[i].at = "join" => Joins(First(task[i].todo))
  /\ task[i].at \in {"get", "close"} => Closes(First(task[i].todo))
StoppingTrue == \A i \in Ops : TaskStops(i)
(* An enrollment runs alone, in a fleet that is stopped.                   *)
EnrollTrue == \A i \in Ops : Busy(i) /\ Act(i) = "enroll" =>
  ~Waiting(i) /\ wanted = {} /\ \A k \in Instances : ~Present(k)
(* The operation that will end the start of an instance: before it acts it *)
(* answers for all its targets, in its loop for those that are left.       *)
EndsStart(i, k) == /\ StopsOrResets(i) /\ k \in task[i].sel
                   /\ \/ task[i].at \in {"cancel", "wait", "begin"}
                      \/ task[i].at \in StopStages /\ k \in task[i].todo
StartsTrue == \A k \in Instances \ wanted : Starting(k) => \E i \in Ops : EndsStart(i, k)
(* The operation that will end the runtime of an instance, or will have    *)
(* failed as a Reset.                                                      *)
Ends(i, k) ==
  \/ StopsOrResets(i) /\ k \in task[i].sel /\ task[i].at \in {"cancel", "wait", "begin"}
  \/ task[i].at \in StopStages /\ k \in task[i].todo
  \/ /\ Act(i) = "reset" /\ k \in task[i].sel
     /\ \/ task[i].at = "inspect"
        \/ task[i].at \in StopStages /\ task[i].then = "inspect"
  \/ Act(i) = "reset" /\ Busy(i) /\ (task[i].fail \/ task[i].errs # {})
(* A runtime that has ended, and that one can see to have failed or that a *)
(* recovery is about to close.                                             *)
Shown(k) == /\ running[k].st # "live"
            /\ phase[k] \in {"Failed", "Starting"} \/ rec[k].at = "close"
Accounted(k) == Shown(k) \/ ResetFailed \/ \E i \in Ops : Ends(i, k)
RuntimesTrue == daemon = "up" => \A k \in Instances \ wanted : Present(k) => Accounted(k)

ControllerInv == /\ TypeOK /\ TasksTrue /\ JournalTrue /\ Line /\ Quiet /\ SelectionTrue
                 /\ LeavingTrue /\ StoppingTrue /\ EnrollTrue /\ StartsTrue /\ RuntimesTrue
-----------------------------------------------------------------------------
(* The next instance of a loop is one of those that are left.              *)
LEMMA FirstIn ==
  ASSUME NEW S \in SUBSET Instances, S # {}
  PROVE  First(S) \in S
<1>. DEFINE Less == {ss \in Nat \X Nat : ss[1] < ss[2]}
<1>1. S \subseteq Nat  BY InstancesAssumption
<1>2. IsWellFoundedOn(Less, Nat)  BY NatLessThanWellFounded DEF OpToRel
<1>3. PICK x \in S : \A y \in S : ~(<<y, x>> \in Less)
  <2>. HIDE DEF Less
  <2>. QED  BY <1>1, <1>2, WFMin
<1>4. \A y \in S : ~(y < x)  BY <1>1, <1>3
<1>5. \A y \in S : x <= y  BY <1>1, <1>4
<1>. QED  BY <1>5 DEF First

(* The tasks of the loop over instances that are to be stopped.            *)
Carries(t, u) == /\ t \in Task /\ t.sel = u.sel /\ t.pred = u.pred
                 /\ u.errs \subseteq t.errs /\ (u.fail => t.fail)

LEMMA LoopIsSet ==
  ASSUME TypeOK, NEW i \in Ops, NEW S \in SUBSET Instances, NEW then \in AfterStages
  PROVE  LET t == StopLoop(i, S, then) IN
         /\ Carries(t, task[i]) /\ t.then = then /\ t.todo = S
         /\ t.at = IF S = {} THEN then ELSE "stop"
<1>. DEFINE t == StopLoop(i, S, then)
<1>1. task[i] \in Task  BY DEF TypeOK
<1>2. /\ t.then = then /\ t.todo = S /\ t.at = IF S = {} THEN then ELSE "stop"
      /\ t.sel = task[i].sel /\ t.pred = task[i].pred /\ t.errs = task[i].errs
      /\ t.fail = task[i].fail
  BY <1>1 DEF Task, StopLoop
<1>3. t \in Task  BY <1>1 DEF Task, StopLoop, AfterStages, Stages
<1>. QED  BY <1>2, <1>3 DEF Carries

LEMMA LoopStarts ==
  ASSUME TypeOK, NEW i \in Ops, NEW S \in SUBSET Instances, NEW then \in AfterStages
  PROVE  LET t == AfterStop(StopLoop(i, S, then)) IN
         /\ Carries(t, task[i]) /\ t.then = then
         /\ IF S = {} THEN t.at = then ELSE t.at = "stop" /\ t.todo = S
<1>. DEFINE u == StopLoop(i, S, then)
<1>1. /\ Carries(u, task[i])
      /\ u.then = then /\ u.todo = S /\ u.at = IF S = {} THEN then ELSE "stop"
  BY LoopIsSet
<1>. HIDE DEF u
<1>2. CASE S = {}
  <2>1. /\ Carries(AfterStop(u), u)
        /\ AfterStop(u).at = then /\ AfterStop(u).then = then
    BY <1>1, <1>2 DEF AfterStop, Task, Carries, AfterStages, Stages
  <2>. QED  BY <1>1, <1>2, <2>1 DEF u, Carries
<1>3. CASE S # {}
  BY <1>1, <1>3 DEF AfterStop, u
<1>. QED  BY <1>2, <1>3

LEMMA LoopGoesOn ==
  ASSUME TypeOK, NEW i \in Ops, task[i].todo # {}, task[i].then \in AfterStages,
         NEW t, t = Skip(i, "stop") \/ t = Bad(i, "stop")
  PROVE  LET k == First(task[i].todo)
             u == AfterStop(t) IN
         /\ Carries(u, task[i]) /\ u.then = task[i].then
         /\ IF task[i].todo = {k} THEN u.at = u.then
            ELSE u.at = "stop" /\ u.todo = task[i].todo \ {k} /\ u.todo # {}
<1>. DEFINE k == First(task[i].todo)
<1>1. k \in task[i].todo /\ k \in Instances  BY FirstIn DEF TypeOK, Task
<1>2. /\ Carries(t, task[i]) /\ t.then = task[i].then
      /\ t.at = "stop" /\ t.todo = task[i].todo \ {k}
  <2>. HIDE DEF k
  <2>1. CASE t = Skip(i, "stop")
    <3>1. task[i] \in Task  BY DEF TypeOK
    <3>2. /\ t.then = task[i].then /\ t.at = "stop" /\ t.todo = task[i].todo \ {k}
          /\ t.sel = task[i].sel /\ t.pred = task[i].pred /\ t.fail = task[i].fail
          /\ task[i].errs \subseteq t.errs
      BY <2>1, <3>1 DEF Task, Skip, k
    <3>3. t \in Task  BY <1>1, <2>1, <3>1 DEF Task, Skip, Stages, k
    <3>. QED  BY <3>2, <3>3 DEF Carries
  <2>2. CASE t = Bad(i, "stop")
    <3>1. task[i] \in Task  BY DEF TypeOK
    <3>2. /\ t.then = task[i].then /\ t.at = "stop" /\ t.todo = task[i].todo \ {k}
          /\ t.sel = task[i].sel /\ t.pred = task[i].pred /\ t.fail = task[i].fail
          /\ task[i].errs \subseteq t.errs
      BY <2>2, <3>1 DEF Task, Bad, k
    <3>3. t \in Task  BY <1>1, <2>2, <3>1 DEF Task, Bad, Stages, k
    <3>. QED  BY <3>2, <3>3 DEF Carries
  <2>. QED  BY <2>1, <2>2
<1>. HIDE DEF k
<1>3. CASE t.todo = {}
  <2>1. Carries(AfterStop(t), t) /\ AfterStop(t).at = t.then /\ AfterStop(t).then = t.then
    BY <1>2, <1>3 DEF AfterStop, Task, Carries, AfterStages, Stages
  <2>. QED  BY <1>1, <1>2, <1>3, <2>1 DEF Carries, k
<1>4. CASE t.todo # {}
  BY <1>1, <1>2, <1>4 DEF AfterStop, k
<1>. QED  BY <1>3, <1>4

LEMMA Moves ==
  ASSUME TypeOK, NEW i \in Ops, NEW at \in Stages
  PROVE  LET t == [task[i] EXCEPT !.at = at] IN
         /\ Carries(t, task[i])
         /\ t.at = at /\ t.todo = task[i].todo /\ t.then = task[i].then
<1>. DEFINE t == [task[i] EXCEPT !.at = at]
<1>1. task[i] \in Task  BY DEF TypeOK
<1>2. t \in Task  BY <1>1 DEF Task
<1>3. /\ t.sel = task[i].sel /\ t.pred = task[i].pred /\ t.fail = task[i].fail
      /\ t.errs = task[i].errs
  BY <1>1 DEF Task
<1>4. t.at = at /\ t.todo = task[i].todo /\ t.then = task[i].then  BY <1>1 DEF Task
<1>. QED  BY <1>2, <1>3, <1>4 DEF Carries

LEMMA Fails ==
  ASSUME TypeOK, NEW i \in Ops
  PROVE  LET t == [task[i] EXCEPT !.at = "end", !.fail = TRUE] IN
         Carries(t, task[i]) /\ t.at = "end" /\ t.fail
<1>. DEFINE t == [task[i] EXCEPT !.at = "end", !.fail = TRUE]
<1>1. task[i] \in Task  BY DEF TypeOK
<1>2. t \in Task  BY <1>1 DEF Task, Stages
<1>3. t.sel = task[i].sel /\ t.pred = task[i].pred /\ t.errs = task[i].errs  BY <1>1 DEF Task
<1>4. t.at = "end" /\ t.fail = TRUE  BY <1>1 DEF Task
<1>. QED  BY <1>2, <1>3, <1>4 DEF Carries

LEMMA GoesOn ==
  ASSUME TypeOK, NEW i \in Ops, NEW at \in Stages, task[i].todo # {}
  PROVE  /\ Carries(Skip(i, at), task[i]) /\ Skip(i, at).at = at
         /\ Carries(Bad(i, at), task[i]) /\ Bad(i, at).at = at
<1>. DEFINE t == Skip(i, at)
            u == Bad(i, at)
<1>1. task[i] \in Task  BY DEF TypeOK
<1>2. First(task[i].todo) \in Instances  BY <1>1, FirstIn DEF Task
<1>3. t \in Task /\ u \in Task  BY <1>1, <1>2 DEF Task, Skip, Bad
<1>4. /\ t.sel = task[i].sel /\ t.pred = task[i].pred /\ t.fail = task[i].fail
      /\ t.errs = task[i].errs /\ t.at = at
  BY <1>1 DEF Task, Skip
<1>5. /\ u.sel = task[i].sel /\ u.pred = task[i].pred /\ u.fail = task[i].fail
      /\ task[i].errs \subseteq u.errs /\ u.at = at
  BY <1>1 DEF Task, Bad
<1>. QED  BY <1>3, <1>4, <1>5 DEF Carries

-----------------------------------------------------------------------------
(* A task that acts and goes on acting; Works is what such a step does to  *)
(* the task, Spares what it does to the instances.                         *)
Works(i) ==
  /\ Acting(i) /\ task'[i].at \notin {"none", "cancel", "wait", "done"}
  /\ task' \in [Ops -> Task]
  /\ \A j \in Ops \ {i} : task'[j] = task[j]
  /\ Carries(task'[i], task[i])
  /\ TaskTrue(i)'
  /\ UNCHANGED <<selection, journal, daemon, current, restoring>>

Spares(i) ==
  /\ LeavingTrue'
  /\ TaskStops(i)'
  /\ Act(i) = "enroll" => wanted' = wanted /\ \A k \in Instances : ~Present(k) => ~Present(k)'
  /\ \A k \in Instances \ wanted' :
       /\ k \notin wanted
       /\ Starting(k)' => Starting(k) /\ (EndsStart(i, k) => EndsStart(i, k)')
       /\ Present(k)' => Present(k) /\ (Shown(k) \/ Ends(i, k) => (Shown(k) \/ Ends(i, k))')

OthersTypeOK == /\ wanted \subseteq Instances
                /\ running \in [Instances -> Runtime]
                /\ phase \in [Instances -> Phases]
                /\ rec \in [Instances -> Recovery]
                /\ faults \in 0..MaxFaults

LEMMA StepWorks ==
  ASSUME TypeOK, NEW i \in Ops, Acting(i), NEW t, Carries(t, task[i]), Step(i, t),
         t.at \notin {"none", "cancel", "wait", "done"},
         t.at \in StopStages \cup {"opening", "launch", "drop"} => t.todo # {},
         t.at \in StopStages => t.then \in AfterStages,
         UNCHANGED <<selection, journal, daemon, current, restoring>>
  PROVE  Works(i) /\ task'[i] = t
<1>1. task \in [Ops -> Task] /\ t \in Task  BY DEF TypeOK, Carries
<1>2. task' = [task EXCEPT ![i] = t]  BY DEF Step
<1>3. task'[i] = t /\ task' \in [Ops -> Task]  BY <1>1, <1>2
<1>4. \A j \in Ops \ {i} : task'[j] = task[j]  BY <1>1, <1>2
<1>5. TaskTrue(i)'  BY <1>3 DEF TaskTrue, Waiting
<1>. QED  BY <1>3, <1>4, <1>5 DEF Works

(* The order of the tasks is that of their classes of stages.              *)
LEMMA LineStands ==
  ASSUME TasksTrue, Line, current \in 0..MaxOps, current' = current,
         \A j \in Ops : /\ Busy(j)' = Busy(j) /\ Waiting(j)' = Waiting(j)
                        /\ task'[j].pred = task[j].pred
  PROVE  Line'
<1>1. \A i, j \in Ops : i < j /\ Busy(i)' /\ Busy(j)' => Waiting(j)'  BY DEF Line
<1>2. ASSUME NEW j \in Ops, Waiting(j)', NEW i \in Ops, i < j, Busy(i)'
      PROVE  i <= task'[j].pred /\ Busy(task[j].pred)'
  <2>1. Waiting(j) /\ task[j].pred \in Ops  BY <1>2 DEF TasksTrue, TaskTrue
  <2>. QED  BY <1>2, <2>1 DEF Line
<1>3. \A i \in Ops : Busy(i)' => i <= current'  BY DEF Line
<1>4. current # 0 => current \in Ops /\ Busy(current)'
  BY DEF Line, Ops
<1>. QED  BY <1>1, <1>2, <1>3, <1>4 DEF Line, Busy, Waiting

LEMMA WorksKeeps ==
  ASSUME ControllerInv, NEW i \in Ops, Works(i), Spares(i), OthersTypeOK'
  PROVE  ControllerInv'
<1>. USE DEF ControllerInv
<1>1. TypeOK'  BY DEF TypeOK, Works, OthersTypeOK
<1>2. \A j \in Ops : /\ Busy(j)' = Busy(j) /\ Waiting(j)' = Waiting(j)
                     /\ Acting(j)' = Acting(j)
  <2>1. Busy(i)' = Busy(i) /\ Waiting(i)' = Waiting(i) /\ Acting(i)' = Acting(i)
    BY DEF Works, Busy, Waiting, Acting
  <2>. QED  BY <2>1 DEF Works, Busy, Waiting, Acting
<1>3. TasksTrue'  BY DEF TasksTrue, TaskTrue, Waiting, Works
<1>4. JournalTrue'
  BY <1>2 DEF JournalTrue, Works, Acting
<1>5. Line'
  <2>1. \A j \in Ops : task'[j].pred = task[j].pred  BY DEF Works, Carries
  <2>. QED  BY <1>2, <2>1, LineStands DEF Works, TypeOK
<1>6. \A j \in Ops : Acting(j) => j = i
  BY DEF Line, Works, Acting, Busy, Waiting, Ops
<1>7. Quiet'
  BY DEF Quiet, Works, Busy, Acting
<1>8. SelectionTrue'  BY DEF SelectionTrue, Works
<1>9. LeavingTrue'  BY DEF Spares
<1>10. StoppingTrue'
  <2>. SUFFICES ASSUME NEW j \in Ops, j # i PROVE TaskStops(j)'
    BY DEF StoppingTrue, Spares
  <2>. QED  BY <1>6, <1>2 DEF TaskStops, Acting
<1>11. EnrollTrue'
  <2>. SUFFICES ASSUME NEW j \in Ops, Busy(j)', Act(j)' = "enroll"
               PROVE  (~Waiting(j) /\ wanted = {} /\ \A k \in Instances : ~Present(k))'
    BY DEF EnrollTrue
  <2>1. Act(j) = Act(j)'  BY DEF Works, Act
  <2>2. /\ Busy(j) /\ ~Waiting(j) /\ ~Waiting(j)' /\ wanted = {}
        /\ \A k \in Instances : ~Present(k)
    BY <1>2, <2>1 DEF EnrollTrue
  <2>3. j = i  BY <1>6, <2>2 DEF Busy, Waiting, Acting
  <2>. QED  BY <2>1, <2>2, <2>3 DEF Spares
<1>12. StartsTrue'
  <2>. SUFFICES ASSUME NEW k \in Instances, k \notin wanted', Starting(k)'
               PROVE  \E j \in Ops : EndsStart(j, k)'
    BY DEF StartsTrue
  <2>1. k \notin wanted /\ Starting(k) /\ (EndsStart(i, k) => EndsStart(i, k)')  BY DEF Spares
  <2>2. PICK j \in Ops : EndsStart(j, k)  BY <2>1 DEF StartsTrue
  <2>3. CASE j = i  BY <2>1, <2>2, <2>3
  <2>4. CASE j # i
    BY <2>2, <2>4 DEF Works, EndsStart, StopsOrResets, Act
  <2>. QED  BY <2>3, <2>4
<1>13. RuntimesTrue'
  <2>. SUFFICES ASSUME daemon' = "up", NEW k \in Instances, k \notin wanted', Present(k)'
               PROVE  Accounted(k)'
    BY DEF RuntimesTrue
  <2>1. /\ daemon = "up" /\ k \notin wanted /\ Present(k)
        /\ Shown(k) \/ Ends(i, k) => (Shown(k) \/ Ends(i, k))'
    BY DEF Spares, Works
  <2>2. Shown(k) \/ ResetFailed \/ \E j \in Ops : Ends(j, k)
    BY <2>1 DEF RuntimesTrue, Accounted
  <2>3. CASE Shown(k) \/ Ends(i, k)  BY <2>1, <2>3 DEF Accounted
  <2>4. CASE ResetFailed  BY <2>4 DEF Accounted, ResetFailed, Act, Works
  <2>5. ASSUME NEW j \in Ops, j # i, Ends(j, k) PROVE Accounted(k)'
    <3>1. Ends(j, k)'  BY <2>5 DEF Ends, StopsOrResets, Busy, Act, Works
    <3>. QED  BY <3>1 DEF Accounted
  <2>. QED  BY <2>2, <2>3, <2>4, <2>5
<1>. QED  BY <1>1, <1>3, <1>4, <1>5, <1>7, <1>8, <1>9, <1>10, <1>11, <1>12, <1>13

(* What a step in which no runtime and no recovery changes has to show.    *)
LEMMA WorksInward ==
  ASSUME ControllerInv, NEW i \in Ops, Works(i), UNCHANGED <<wanted, running, rec>>,
         task'[i].at \notin {"join", "get", "close"},
         phase' \in [Instances -> Phases], faults' \in 0..MaxFaults,
         \A k \in Instances \ wanted :
           /\ Starting(k) /\ EndsStart(i, k) => EndsStart(i, k)'
           /\ Present(k) => (Shown(k) => Shown(k)') /\ (Ends(i, k) => Ends(i, k)')
  PROVE  ControllerInv'
<1>. USE DEF ControllerInv
<1>1. LeavingTrue'  BY DEF LeavingTrue
<1>2. TaskStops(i)'  BY DEF TaskStops
<1>3. \A k \in Instances : Present(k)' = Present(k) /\ Starting(k)' = Starting(k)
  BY DEF Present, Starting
<1>4. Spares(i)  BY <1>1, <1>2, <1>3 DEF Spares
<1>5. OthersTypeOK'  BY DEF OthersTypeOK, TypeOK
<1>. QED  BY <1>4, <1>5, WorksKeeps

(* Outside the loop a task accounts for a runtime by its errors only.      *)
LEMMA WorksOutside ==
  ASSUME ControllerInv, NEW i \in Ops, Works(i), UNCHANGED <<wanted, running, rec>>,
         task[i].at \notin StopStages \cup {"begin", "inspect"},
         task'[i].at \notin {"join", "get", "close"},
         phase' \in [Instances -> Phases], faults' \in 0..MaxFaults,
         \A k \in Instances \ wanted : Present(k) /\ Shown(k) => Shown(k)'
  PROVE  ControllerInv'
<1>1. \A k : ~EndsStart(i, k)  BY DEF EndsStart, Works, Acting
<1>2. ASSUME NEW k, Ends(i, k) PROVE Ends(i, k)'
  <2>1. Act(i) = "reset" /\ (task[i].fail \/ task[i].errs # {})
    BY <1>2 DEF Ends, Works, Acting
  <2>2. Act(i)' = "reset" /\ Busy(i)' /\ (task'[i].fail \/ task'[i].errs # {})
    BY <2>1 DEF Works, Carries, Busy, Act
  <2>. QED  BY <2>2 DEF Ends
<1>. QED  BY <1>1, <1>2, WorksInward

LEMMA FaultsCount ==
  ASSUME TypeOK, NEW kind, NoFault \/ Fault(kind)
  PROVE  faults' \in 0..MaxFaults
BY BoundsAssumption DEF TypeOK, NoFault, Fault

LEMMA BeginKeeps ==
  ASSUME ControllerInv, NEW i \in Ops, Begin(i)
  PROVE  ControllerInv'
<1>. USE DEF ControllerInv
<1>. DEFINE sel == task[i].sel
            recovering == {k \in sel : Recovering(k)}
<1>1. /\ task[i].at = "begin" /\ Acting(i) /\ sel \in SUBSET Instances
      /\ recovering \in SUBSET Instances
  BY DEF Begin, TypeOK, Task, Acting
<1>2. /\ UNCHANGED <<selection, journal, daemon, current, restoring, wanted, running, rec>>
      /\ phase' \in [Instances -> Phases] /\ faults' \in 0..MaxFaults
      /\ \A k \in Instances : Present(k) => (Shown(k) => Shown(k)')
  BY DEF Begin, durableVars, TypeOK, Shown
<1>3. \A k \in Instances : Starting(k) => Recovering(k)  BY DEF Starting, Recovering
<1>4. CASE Act(i) = "stop"
  <2>. DEFINE t == AfterStop(StopLoop(i, sel, "confirm"))
  <2>1. Step(i, t)  BY <1>4 DEF Begin
  <2>2. /\ Carries(t, task[i]) /\ t.then = "confirm"
        /\ IF sel = {} THEN t.at = "confirm" ELSE t.at = "stop" /\ t.todo = sel
    BY <1>1, LoopStarts DEF AfterStages
  <2>. HIDE DEF t
  <2>3. Works(i) /\ task'[i] = t
    BY <1>1, <1>2, <2>1, <2>2, StepWorks DEF StopStages, AfterStages
  <2>4. \A k \in sel : EndsStart(i, k)' /\ Ends(i, k)'
    BY <1>2, <1>4, <2>2, <2>3 DEF EndsStart, Ends, StopsOrResets, Act, StopStages, Carries
  <2>5. \A k : (EndsStart(i, k) => k \in sel) /\ (Ends(i, k) => k \in sel)
    BY <1>1, <1>4 DEF EndsStart, Ends, StopStages
  <2>. QED  BY <1>2, <2>2, <2>3, <2>4, <2>5, WorksInward DEF StopStages
<1>5. CASE Act(i) = "reset"
  <2>. DEFINE t == StopLoop(i, recovering, "inspect")
  <2>1. Step(i, t)  BY <1>5 DEF Begin
  <2>2. /\ Carries(t, task[i]) /\ t.then = "inspect" /\ t.todo = recovering
        /\ t.at = IF recovering = {} THEN "inspect" ELSE "stop"
    BY <1>1, LoopIsSet DEF AfterStages
  <2>. HIDE DEF t
  <2>3. Works(i) /\ task'[i] = t
    BY <1>1, <1>2, <2>1, <2>2, StepWorks DEF StopStages, AfterStages
  <2>4. \A k \in sel : Ends(i, k)' /\ (Starting(k) => EndsStart(i, k)')
    BY <1>1, <1>2, <1>3, <1>5, <2>2, <2>3
    DEF EndsStart, Ends, StopsOrResets, Act, StopStages, Carries, TypeOK, Task
  <2>5. \A k : EndsStart(i, k) => k \in sel
    BY DEF EndsStart
  <2>6. ASSUME NEW k, Ends(i, k), k \notin sel PROVE Ends(i, k)'
    <3>1. task[i].fail \/ task[i].errs # {}  BY <1>1, <2>6 DEF Ends, StopStages
    <3>. QED  BY <1>2, <1>5, <2>2, <2>3, <3>1 DEF Ends, Busy, Act, Carries, StopStages
  <2>. QED  BY <1>2, <2>2, <2>3, <2>4, <2>5, <2>6, WorksInward
<1>6. CASE Act(i) \notin {"stop", "reset"}
  <2>1. \A k : ~EndsStart(i, k) /\ ~Ends(i, k)
    BY <1>1, <1>6 DEF EndsStart, Ends, StopsOrResets, StopStages
  <2>2. Works(i) /\ task'[i].at \in {"end", "stop", "update", "ready"}
    <3>1. CASE Act(i) = "update"
      <4>. DEFINE u == StopLoop(i, sel, "update")
                  t == [u EXCEPT !.snap = sel \cap wanted]
      <4>1. Step(i, t)  BY <3>1, <1>6 DEF Begin
      <4>2. sel \cap wanted \in SUBSET Instances  BY <1>1
      <4>3. /\ Carries(u, task[i]) /\ u.then = "update" /\ u.todo = sel
            /\ u.at = IF sel = {} THEN "update" ELSE "stop"
        BY <1>1, LoopIsSet DEF AfterStages
      <4>4. u \in Task  BY <4>3 DEF Carries
      <4>. HIDE DEF u
      <4>5. /\ t.then = "update" /\ t.todo = sel /\ t.at = IF sel = {} THEN "update" ELSE "stop"
            /\ t.sel = u.sel /\ t.pred = u.pred /\ t.errs = u.errs /\ t.fail = u.fail
        BY <4>3, <4>4 DEF Task
      <4>6. t \in Task  BY <4>2, <4>4 DEF Task
      <4>. HIDE DEF t
      <4>7. Carries(t, task[i])  BY <4>3, <4>5, <4>6 DEF Carries
      <4>. QED  BY <1>1, <1>2, <4>1, <4>5, <4>7, StepWorks DEF StopStages, AfterStages
    <3>2. CASE Act(i) = "start" /\ sel = {}
      <4>. DEFINE t == [task[i] EXCEPT !.at = "end"]
      <4>1. Step(i, t)  BY <3>2 DEF Begin
      <4>2. Carries(t, task[i]) /\ t.at = "end"  
        <5>1. "end" \in Stages  BY DEF Stages
        <5>. QED  BY <5>1, Moves
      <4>. HIDE DEF t
      <4>. QED  BY <1>1, <1>2, <4>1, <4>2, StepWorks DEF StopStages
    <3>3. CASE Act(i) # "update" /\ ~(Act(i) = "start" /\ sel = {})
      <4>. DEFINE t == StopLoop(i, recovering, "ready")
      <4>1. Step(i, t)  BY <1>6, <3>3 DEF Begin
      <4>2. /\ Carries(t, task[i]) /\ t.then = "ready" /\ t.todo = recovering
            /\ t.at = IF recovering = {} THEN "ready" ELSE "stop"
        BY <1>1, LoopIsSet DEF AfterStages
      <4>. HIDE DEF t
      <4>. QED  BY <1>1, <1>2, <4>1, <4>2, StepWorks DEF StopStages, AfterStages
    <3>. QED  BY <3>1, <3>2, <3>3
  <2>. QED  BY <1>2, <2>1, <2>2, WorksInward
<1>. QED  BY <1>4, <1>5, <1>6

LEMMA StepOutside ==
  ASSUME ControllerInv, NEW i \in Ops, Acting(i), NEW t, Carries(t, task[i]), Step(i, t),
         task[i].at \notin StopStages \cup {"begin", "inspect"},
         t.at \notin {"none", "cancel", "wait", "done", "join", "get", "close"},
         t.at \in {"stop", "opening", "launch", "drop"} => t.todo # {},
         t.at = "stop" => t.then \in AfterStages,
         UNCHANGED <<selection, journal, daemon, current, restoring, wanted, running, rec>>,
         phase' \in [Instances -> Phases], faults' \in 0..MaxFaults,
         \A k \in Instances \ wanted : Present(k) /\ Shown(k) => Shown(k)'
  PROVE  ControllerInv'
<1>1. Works(i) /\ task'[i] = t  BY StepWorks DEF ControllerInv, StopStages
<1>. QED  BY <1>1, WorksOutside

LEMMA LoopKeeps ==
  ASSUME ControllerInv, NEW i \in Ops, EachInstance(i) \/ EndLoop(i)
  PROVE  ControllerInv'
<1>1. TypeOK /\ task[i] \in Task  BY DEF ControllerInv, TypeOK
<1>2. /\ UNCHANGED <<selection, journal, daemon, current, restoring, wanted, running, rec>>
      /\ task[i].at \in {"confirm", "reset", "update"}
  BY DEF EachInstance, EndLoop, durableVars
<1>3. Acting(i) /\ task[i].at \notin StopStages \cup {"begin", "inspect"}
  BY <1>2 DEF Acting, StopStages
<1>4. CASE EachInstance(i)
  <2>1. PICK failing \in BOOLEAN :
          /\ Flaky(failing)
          /\ Step(i, IF failing THEN Bad(i, task[i].at) ELSE Skip(i, task[i].at))
          /\ phase' = IF failing THEN [phase EXCEPT ![First(task[i].todo)] = "Failed"] ELSE phase
    BY <1>4 DEF EachInstance
  <2>2. task[i].at \in Stages /\ task[i].todo # {}  BY <1>1, <1>4 DEF EachInstance, Task
  <2>3. faults' \in 0..MaxFaults  BY <1>1, <2>1, FaultsCount DEF Flaky
  <2>4. /\ phase' \in [Instances -> Phases]
        /\ \A k \in Instances : Shown(k) => Shown(k)'
    BY <1>1, <1>2, <2>1 DEF TypeOK, Shown, Phases
  <2>. DEFINE t == IF failing THEN Bad(i, task[i].at) ELSE Skip(i, task[i].at)
  <2>5. Carries(t, task[i]) /\ t.at = task[i].at  BY <1>1, <2>2, GoesOn
  <2>6. Step(i, t)  BY <2>1
  <2>. HIDE DEF t
  <2>. QED  BY <1>2, <1>3, <2>3, <2>4, <2>5, <2>6, StepOutside
<1>5. CASE EndLoop(i)
  <2>1. /\ faults' \in 0..MaxFaults /\ phase' \in [Instances -> Phases]
        /\ \A k \in Instances : Shown(k) => Shown(k)'
    BY <1>1, <1>2, <1>5 DEF EndLoop, TypeOK, Shown
  <2>2. CASE task[i].todo = {}
             /\ Step(i, [task[i] EXCEPT !.at = LoopDone(i),
                          !.todo = IF task[i].at = "update" THEN task[i].snap ELSE {}])
    <3>. DEFINE next == LoopDone(i)
                left == IF task[i].at = "update" THEN task[i].snap ELSE {}
                t == [task[i] EXCEPT !.at = next, !.todo = left]
    <3>1. next \in Stages /\ next \in {"end", "ready", "start"}
      BY <1>2 DEF LoopDone, Stages
    <3>2. left \in SUBSET Instances  BY <1>1 DEF Task
    <3>3. Carries(t, task[i]) /\ t.at = next
      <4>. HIDE DEF next, left
      <4>1. t \in Task  BY <1>1, <3>1, <3>2 DEF Task
      <4>2. /\ t.sel = task[i].sel /\ t.pred = task[i].pred /\ t.fail = task[i].fail
            /\ t.errs = task[i].errs /\ t.at = next
        BY <1>1 DEF Task
      <4>. QED  BY <4>1, <4>2 DEF Carries
    <3>4. Step(i, t)  BY <2>2
    <3>. HIDE DEF t
    <3>. QED  BY <1>2, <1>3, <2>1, <3>1, <3>3, <3>4, StepOutside
  <2>3. CASE Step(i, [task[i] EXCEPT !.at = "end", !.fail = TRUE])
    <3>. DEFINE t == [task[i] EXCEPT !.at = "end", !.fail = TRUE]
    <3>1. Carries(t, task[i]) /\ t.at = "end"  BY <1>1, Fails
    <3>2. Step(i, t)  BY <2>3
    <3>. HIDE DEF t
    <3>. QED  BY <1>2, <1>3, <2>1, <3>1, <3>2, StepOutside
  <2>. QED  BY <1>5, <2>2, <2>3 DEF EndLoop
<1>. QED  BY <1>4, <1>5

LEMMA InspectKeeps ==
  ASSUME ControllerInv, NEW i \in Ops, Inspect(i)
  PROVE  ControllerInv'
<1>1. TypeOK /\ task[i] \in Task  BY DEF ControllerInv, TypeOK
<1>2. /\ UNCHANGED <<selection, journal, daemon, current, restoring, wanted, running, rec, phase>>
      /\ task[i].at = "inspect" /\ Acting(i)
  BY DEF Inspect, durableVars, Acting
<1>3. PICK failing \in BOOLEAN :
        /\ Flaky(failing)
        /\ Step(i, IF failing THEN [task[i] EXCEPT !.at = "end", !.fail = TRUE]
                   ELSE AfterStop(StopLoop(i, task[i].sel \ task[i].errs, "reset")))
  BY DEF Inspect
<1>4. /\ faults' \in 0..MaxFaults /\ phase' \in [Instances -> Phases]
      /\ \A k \in Instances : Shown(k) => Shown(k)'
  BY <1>1, <1>2, <1>3, FaultsCount DEF Flaky, TypeOK, Shown
<1>5. \A k : ~EndsStart(i, k)  BY <1>2 DEF EndsStart, StopStages
<1>6. \A k : Ends(i, k) => /\ Act(i) = "reset" /\ Act(i)' = "reset"
                           /\ k \in task[i].sel \/ task[i].fail \/ task[i].errs # {}
  BY <1>2 DEF Ends, StopStages, Act
<1>7. CASE failing
  <2>. DEFINE t == [task[i] EXCEPT !.at = "end", !.fail = TRUE]
  <2>1. Carries(t, task[i]) /\ t.at = "end" /\ t.fail  BY <1>1, Fails
  <2>2. Step(i, t)  BY <1>3, <1>7
  <2>. HIDE DEF t
  <2>3. Works(i) /\ task'[i] = t  BY <1>1, <1>2, <2>1, <2>2, StepWorks DEF StopStages
  <2>4. \A k : Ends(i, k) => Ends(i, k)'  BY <1>6, <2>1, <2>3 DEF Ends, Busy
  <2>. QED  BY <1>2, <1>4, <1>5, <2>1, <2>3, <2>4, WorksInward
<1>8. CASE ~failing
  <2>. DEFINE S == task[i].sel \ task[i].errs
              t == AfterStop(StopLoop(i, S, "reset"))
  <2>1. S \in SUBSET Instances  BY <1>1 DEF Task
  <2>2. /\ Carries(t, task[i]) /\ t.then = "reset"
        /\ IF S = {} THEN t.at = "reset" ELSE t.at = "stop" /\ t.todo = S
    BY <1>1, <2>1, LoopStarts DEF AfterStages
  <2>3. Step(i, t)  BY <1>3, <1>8
  <2>. HIDE DEF t
  <2>4. Works(i) /\ task'[i] = t
    BY <1>1, <1>2, <2>2, <2>3, StepWorks DEF StopStages, AfterStages
  <2>5. ASSUME NEW k, Ends(i, k) PROVE Ends(i, k)'
    <3>1. CASE k \in S  BY <2>2, <2>4, <3>1 DEF Ends, StopStages
    <3>2. CASE k \notin S
      <4>1. t.fail \/ t.errs # {}  BY <1>6, <2>2, <2>5, <3>2 DEF Carries
      <4>. QED  BY <1>6, <2>2, <2>4, <2>5, <4>1 DEF Ends, Busy
    <3>. QED  BY <3>1, <3>2
  <2>. QED  BY <1>2, <1>4, <1>5, <2>2, <2>4, <2>5, WorksInward
<1>. QED  BY <1>7, <1>8

(* The stages in which a task goes from one to the next and a runtime that *)
(* is there keeps what it is shown as.                                     *)
LEMMA StagesKeep ==
  ASSUME ControllerInv, NEW i \in Ops,
         \/ Ready(i) \/ Prepare(i) \/ AskApproval(i) \/ StartLoopEnds(i) \/ Drop(i)
         \/ EndAction(i) \/ Final(i)
  PROVE  ControllerInv'
<1>1. TypeOK /\ task[i] \in Task /\ TaskTrue(i)  BY DEF ControllerInv, TypeOK, TasksTrue
<1>2. /\ UNCHANGED <<selection, journal, daemon, current, restoring, wanted, running, rec>>
      /\ task[i].at \in {"ready", "prepare", "approve", "start", "drop", "end", "final"}
  BY DEF Ready, Prepare, AskApproval, StartLoopEnds, Drop, EndAction, Final, durableVars
<1>3. Acting(i) /\ task[i].at \notin StopStages \cup {"begin", "inspect"}
  BY <1>2 DEF Acting, StopStages
<1>4. faults' \in 0..MaxFaults
  BY <1>1, FaultsCount
  DEF Ready, Prepare, AskApproval, StartLoopEnds, Drop, EndAction, Final, Flaky, NoFault, TypeOK
<1>5. phase' \in [Instances -> Phases]
  BY <1>1
  DEF Ready, Prepare, AskApproval, StartLoopEnds, Drop, EndAction, Final, TypeOK, Phases
<1>6. \A k \in Instances : Present(k) /\ Shown(k) => Shown(k)'
  BY <1>1, <1>2
  DEF Ready, Prepare, AskApproval, StartLoopEnds, Drop, EndAction, Final, TypeOK, Shown
<1>7. ASSUME NEW at \in Stages, at \in {"prepare", "approve", "intent", "end", "final", "save"},
             Goto(i, at)
      PROVE  ControllerInv'
  <2>. DEFINE t == [task[i] EXCEPT !.at = at]
  <2>1. Carries(t, task[i]) /\ t.at = at  BY <1>1, Moves
  <2>2. Step(i, t)  BY <1>7 DEF Goto
  <2>. HIDE DEF t
  <2>. QED  BY <1>2, <1>3, <1>4, <1>5, <1>6, <1>7, <2>1, <2>2, StepOutside
<1>8. ASSUME Step(i, [task[i] EXCEPT !.at = "end", !.fail = TRUE]) PROVE ControllerInv'
  <2>. DEFINE t == [task[i] EXCEPT !.at = "end", !.fail = TRUE]
  <2>1. Carries(t, task[i]) /\ t.at = "end"  BY <1>1, Fails
  <2>2. Step(i, t)  BY <1>8
  <2>. HIDE DEF t
  <2>. QED  BY <1>2, <1>3, <1>4, <1>5, <1>6, <2>1, <2>2, StepOutside
<1>9. CASE Ready(i)
  BY <1>7, <1>9 DEF Ready, Stages
<1>10. CASE Prepare(i)
  <2>1. \/ Step(i, [task[i] EXCEPT !.at = "end", !.fail = TRUE])
        \/ Goto(i, "intent")
    BY <1>10 DEF Prepare, Goto
  <2>. QED  BY <1>7, <1>8, <2>1 DEF Stages
<1>11. CASE AskApproval(i)  BY <1>7, <1>11 DEF AskApproval, Stages
<1>12. CASE StartLoopEnds(i)
  <2>1. \/ Step(i, [task[i] EXCEPT !.at = "end", !.fail = TRUE])
        \/ Goto(i, "end")
    BY <1>12 DEF StartLoopEnds, Goto
  <2>. QED  BY <1>7, <1>8, <2>1 DEF Stages
<1>13. CASE Drop(i)
  <2>1. CASE Step(i, [task[i] EXCEPT !.at = "end", !.fail = TRUE])  BY <1>8, <2>1
  <2>2. CASE Step(i, Skip(i, "start"))
    <3>. DEFINE t == Skip(i, "start")
    <3>1. task[i].todo # {}  BY <1>1, <1>13 DEF Drop, TaskTrue
    <3>2. "start" \in Stages  BY DEF Stages
    <3>3. Carries(t, task[i]) /\ t.at = "start"  BY <1>1, <3>1, <3>2, GoesOn
    <3>4. Step(i, t)  BY <2>2
    <3>. HIDE DEF t
    <3>. QED  BY <1>2, <1>3, <1>4, <1>5, <1>6, <3>3, <3>4, StepOutside
  <2>. QED  BY <1>13, <2>1, <2>2 DEF Drop
<1>14. CASE EndAction(i)
  <2>1. CASE task[i].cancelled /\ Act(i) # "stop"
    <3>. DEFINE S == task[i].sel
                t == AfterStop(StopLoop(i, S, "final"))
    <3>1. S \in SUBSET Instances  BY <1>1 DEF Task
    <3>2. /\ Carries(t, task[i]) /\ t.then = "final"
          /\ IF S = {} THEN t.at = "final" ELSE t.at = "stop" /\ t.todo = S
      BY <1>1, <3>1, LoopStarts DEF AfterStages
    <3>3. Step(i, t)  BY <1>14, <2>1 DEF EndAction
    <3>. HIDE DEF t
    <3>. QED  BY <1>2, <1>3, <1>4, <1>5, <1>6, <3>2, <3>3, StepOutside DEF AfterStages
  <2>2. CASE ~(task[i].cancelled /\ Act(i) # "stop")
    <3>1. Goto(i, "final")  BY <1>14, <2>2 DEF EndAction, Goto
    <3>. QED  BY <1>7, <3>1 DEF Stages
  <2>. QED  BY <2>1, <2>2
<1>15. CASE Final(i)  BY <1>7, <1>15 DEF Final, Stages
<1>. QED  BY <1>9, <1>10, <1>11, <1>12, <1>13, <1>14, <1>15

LEMMA StartInstanceKeeps ==
  ASSUME ControllerInv, NEW i \in Ops, StartInstance(i)
  PROVE  ControllerInv'
<1>. DEFINE k == First(task[i].todo)
<1>1. TypeOK /\ task[i] \in Task  BY DEF ControllerInv, TypeOK
<1>2. /\ UNCHANGED <<selection, journal, daemon, current, restoring, wanted, running, rec>>
      /\ task[i].at = "start" /\ Acting(i) /\ faults' \in 0..MaxFaults /\ task[i].todo # {}
      /\ task[i].at \notin StopStages \cup {"begin", "inspect"}
  BY <1>1 DEF StartInstance, durableVars, Acting, TypeOK, StopStages
<1>3. /\ phase' \in [Instances -> Phases]
      /\ \A l \in Instances : Shown(l) => Shown(l)'
  BY <1>1, <1>2 DEF StartInstance, TypeOK, Shown, Phases
<1>4. PICK t : Step(i, t) /\ \/ t = Skip(i, "start") \/ t = Bad(i, "start")
                             \/ t = [task[i] EXCEPT !.at = "opening"]
  BY DEF StartInstance
<1>5. "start" \in Stages /\ "opening" \in Stages  BY DEF Stages
<1>6. CASE t = Skip(i, "start") \/ t = Bad(i, "start")
  <2>1. Carries(t, task[i]) /\ t.at = "start"  BY <1>1, <1>2, <1>5, <1>6, GoesOn
  <2>. QED  BY <1>2, <1>3, <1>4, <2>1, StepOutside
<1>7. CASE t = [task[i] EXCEPT !.at = "opening"]
  <2>1. Carries(t, task[i]) /\ t.at = "opening" /\ t.todo = task[i].todo
    BY <1>1, <1>5, <1>7, Moves
  <2>. QED  BY <1>2, <1>3, <1>4, <2>1, StepOutside
<1>. QED  BY <1>4, <1>6, <1>7

(* What the approval of an enrolment leaves stopped does not run; the      *)
(* intent of any other operation only grows.                               *)
LEMMA IntentKeeps ==
  ASSUME ControllerInv, NEW i \in Ops, Intent(i)
  PROVE  ControllerInv'
<1>1. TypeOK /\ task[i] \in Task  BY DEF ControllerInv, TypeOK
<1>2. /\ UNCHANGED <<selection, journal, daemon, current, restoring, running, rec>>
      /\ task[i].at = "intent" /\ Acting(i) /\ Busy(i) /\ faults' \in 0..MaxFaults
      /\ task[i].at \notin StopStages \cup {"begin", "inspect"}
  BY <1>1 DEF Intent, Acting, Busy, TypeOK, StopStages
<1>3. CASE Act(i) = "enroll"
  <2>. DEFINE t == [task[i] EXCEPT !.at = "end"]
  <2>1. "end" \in Stages  BY DEF Stages
  <2>2. Carries(t, task[i]) /\ t.at = "end"  BY <1>1, <2>1, Moves
  <2>3. Step(i, t) /\ wanted' = wanted  BY <1>3 DEF Intent
  <2>. HIDE DEF t
  <2>4. \A k \in Instances : ~Present(k)  BY <1>2, <1>3 DEF ControllerInv, EnrollTrue
  <2>5. phase' \in [Instances -> Phases]  BY <1>1, <1>3 DEF Intent, Phases
  <2>. QED  BY <1>2, <2>2, <2>3, <2>4, <2>5, StepOutside
<1>4. CASE Act(i) # "enroll"
  <2>. DEFINE t == [task[i] EXCEPT !.at = "start", !.todo = task[i].sel]
  <2>1. t \in Task  BY <1>1 DEF Task, Stages
  <2>2. /\ t.sel = task[i].sel /\ t.pred = task[i].pred /\ t.fail = task[i].fail
        /\ t.errs = task[i].errs /\ t.at = "start"
    BY <1>1 DEF Task
  <2>3. Carries(t, task[i])  BY <2>1, <2>2 DEF Carries
  <2>4. Step(i, t) /\ wanted' = wanted \cup (task[i].sel \ task[i].errs) /\ phase' = phase
    BY <1>4 DEF Intent
  <2>. HIDE DEF t
  <2>5. Works(i) /\ task'[i] = t  BY <1>1, <1>2, <2>2, <2>3, <2>4, StepWorks DEF StopStages
  <2>6. OthersTypeOK'
    BY <1>1, <1>2, <2>4 DEF OthersTypeOK, TypeOK, Task
  <2>7. LeavingTrue' /\ TaskStops(i)'
    BY <1>2, <2>2, <2>5 DEF ControllerInv, LeavingTrue, TaskStops
  <2>8. \A k : ~EndsStart(i, k)  BY <1>2 DEF EndsStart
  <2>9. \A k : Ends(i, k) => Ends(i, k)'
    BY <1>2, <2>2, <2>5 DEF Ends, Busy, Act
  <2>10. \A k : Present(k)' = Present(k) /\ Starting(k)' = Starting(k) /\ Shown(k)' = Shown(k)
    BY <1>2, <2>4 DEF Present, Starting, Shown
  <2>11. Spares(i)  BY <1>4, <2>4, <2>7, <2>8, <2>9, <2>10 DEF Spares
  <2>. QED  BY <2>5, <2>6, <2>11, WorksKeeps
<1>. QED  BY <1>3, <1>4

-----------------------------------------------------------------------------
(* The steps on an instance                                                *)

LEMMA StopInstanceKeeps ==
  ASSUME ControllerInv, NEW i \in Ops, StopInstance(i)
  PROVE  ControllerInv'
<1>1. TypeOK /\ task[i] \in Task /\ TaskTrue(i)  BY DEF ControllerInv, TypeOK, TasksTrue
<1>2. /\ UNCHANGED <<selection, journal, daemon, current, restoring, wanted, running, faults>>
      /\ task[i].at = "stop" /\ Acting(i)
  BY DEF StopInstance, durableVars, Acting
<1>3. PICK k \in Instances :
        k = First(task[i].todo) /\ k \in task[i].todo /\ task[i].then \in AfterStages
  BY <1>1, <1>2, FirstIn DEF TaskTrue, StopStages, Task
<1>. DEFINE at == IF Recovering(k) THEN "join" ELSE "get"
            t == [task[i] EXCEPT !.at = at]
<1>4. at \in Stages  BY DEF Stages
<1>5. Step(i, t)  BY <1>3 DEF StopInstance, Goto
<1>6. Carries(t, task[i]) /\ t.at = at /\ t.todo = task[i].todo /\ t.then = task[i].then
  <2>. HIDE DEF at
  <2>. QED  BY <1>1, <1>4, Moves
<1>7. /\ phase' = IF Recovering(k) \/ Present(k) THEN [phase EXCEPT ![k] = "Stopping"] ELSE phase
      /\ rec' = IF Recovering(k) THEN [rec EXCEPT ![k].stop = TRUE] ELSE rec
  BY <1>3 DEF StopInstance
<1>. HIDE DEF t
<1>8. Works(i) /\ task'[i] = t
  BY <1>1, <1>2, <1>3, <1>5, <1>6, StepWorks DEF StopStages
<1>9. /\ rec' \in [Instances -> Recovery] /\ phase' \in [Instances -> Phases]
      /\ \A l \in Instances : rec'[l].at = rec[l].at /\ (l # k => rec'[l] = rec[l])
      /\ Recovering(k) => rec'[k].stop
  <2>1. rec \in [Instances -> Recovery] /\ phase \in [Instances -> Phases]  BY <1>1 DEF TypeOK
  <2>2. phase' \in [Instances -> Phases]  BY <1>7, <2>1 DEF Phases
  <2>3. CASE Recovering(k)
    <3>1. rec' = [rec EXCEPT ![k] = [rec[k] EXCEPT !.stop = TRUE]]  BY <1>7, <2>3
    <3>2. [rec[k] EXCEPT !.stop = TRUE] \in Recovery  BY <2>1 DEF Recovery
    <3>3. /\ [rec[k] EXCEPT !.stop = TRUE].at = rec[k].at
          /\ [rec[k] EXCEPT !.stop = TRUE].stop = TRUE
      BY <2>1 DEF Recovery
    <3>. QED  BY <2>1, <2>2, <3>1, <3>2, <3>3
  <2>4. CASE ~Recovering(k)  BY <1>7, <2>1, <2>2, <2>4
  <2>. QED  BY <2>3, <2>4
<1>10. \A l \in Instances : l # k => phase'[l] = phase[l]  BY <1>1, <1>7 DEF TypeOK
<1>11. Recovering(k) \/ Present(k) => phase'[k] = "Stopping"  BY <1>1, <1>3, <1>7 DEF TypeOK
<1>12. OthersTypeOK'  BY <1>1, <1>2, <1>9 DEF OthersTypeOK, TypeOK
<1>13. LeavingTrue'  BY <1>2, <1>9 DEF ControllerInv, LeavingTrue
<1>14. TaskStops(i)'
  <2>1. First(task'[i].todo) = k  BY <1>3, <1>6, <1>8
  <2>2. CASE Recovering(k)
    BY <1>3, <1>6, <1>8, <1>9, <1>11, <2>1, <2>2 DEF TaskStops, Joins, Recovering
  <2>3. CASE ~Recovering(k)
    BY <1>2, <1>3, <1>6, <1>8, <1>9, <1>11, <2>1, <2>3 DEF TaskStops, Closes, Recovering, Present
  <2>. QED  BY <2>2, <2>3
<1>15. \A l \in Instances : Present(l)' = Present(l) /\ Starting(l)' = Starting(l)
  BY <1>2, <1>9 DEF Present, Starting
<1>16. \A l : (EndsStart(i, l) => EndsStart(i, l)') /\ (Ends(i, l) => Ends(i, l)')
  <2>1. Act(i)' = Act(i) /\ StopsOrResets(i)' = StopsOrResets(i)
    BY <1>2 DEF Act, StopsOrResets
  <2>2. at \in StopStages /\ task[i].at \in StopStages  BY <1>2 DEF StopStages
  <2>3. /\ task'[i].at \in StopStages /\ task'[i].todo = task[i].todo
        /\ task'[i].then = task[i].then /\ task'[i].sel = task[i].sel
        /\ task[i].errs \subseteq task'[i].errs /\ (task[i].fail => task'[i].fail)
    BY <1>6, <1>8, <2>2 DEF Carries
  <2>. QED  BY <2>1, <2>2, <2>3 DEF EndsStart, Ends, Busy, StopStages
<1>17. \A l \in Instances : Shown(l) => Shown(l)' \/ Ends(i, l)'
  <2>1. ASSUME NEW l \in Instances, l # k PROVE Shown(l) => Shown(l)'
    BY <1>2, <1>9, <1>10, <2>1 DEF Shown
  <2>2. Ends(i, k)'
    BY <1>3, <1>6, <1>8 DEF Ends, StopStages
  <2>. QED  BY <2>1, <2>2
<1>18. Spares(i)  BY <1>2, <1>13, <1>14, <1>15, <1>16, <1>17 DEF Spares
<1>. QED  BY <1>8, <1>12, <1>18, WorksKeeps

(* The loop leaves an instance that has ended or is shown as failed.       *)
LEMMA LeavesInstance ==
  ASSUME ControllerInv, NEW i \in Ops, task[i].at \in {"get", "close"},
         NEW k \in Instances, k = First(task[i].todo),
         NEW t, t = Skip(i, "stop") \/ t = Bad(i, "stop"), Step(i, AfterStop(t)),
         UNCHANGED <<selection, journal, daemon, current, restoring, wanted, rec>>,
         running' \in [Instances -> Runtime], phase' \in [Instances -> Phases],
         faults' \in 0..MaxFaults,
         \A l \in Instances \ {k} : running'[l] = running[l] /\ phase'[l] = phase[l],
         Present(k)' => Present(k) /\ phase'[k] = "Failed" /\ running'[k].st # "live"
  PROVE  ControllerInv'
<1>. DEFINE u == AfterStop(t)
<1>1. TypeOK /\ TaskTrue(i) /\ task[i] \in Task /\ TaskStops(i) /\ LeavingTrue
  BY DEF ControllerInv, TypeOK, TasksTrue, StoppingTrue
<1>2. /\ task[i].todo # {} /\ task[i].then \in AfterStages /\ k \in task[i].todo
      /\ task[i].at \in StopStages /\ Acting(i)
  BY <1>1, FirstIn DEF TaskTrue, StopStages, Task, Acting
<1>3. /\ Carries(u, task[i]) /\ u.then = task[i].then
      /\ IF task[i].todo = {k} THEN u.at = u.then
         ELSE u.at = "stop" /\ u.todo = task[i].todo \ {k} /\ u.todo # {}
  BY <1>1, <1>2, LoopGoesOn
<1>. HIDE DEF u
<1>4. Works(i) /\ task'[i] = u
  <2>1. Step(i, u)  BY DEF u
  <2>2. u.at \in {"stop"} \cup AfterStages  BY <1>2, <1>3
  <2>. QED  BY <1>1, <1>2, <1>3, <2>1, <2>2, StepWorks DEF StopStages, AfterStages
<1>5. OthersTypeOK'  BY <1>1 DEF OthersTypeOK, TypeOK
<1>6. rec[k].at \in {"none", "delay"}  BY <1>1 DEF TaskStops, Closes
<1>7. LeavingTrue'  BY <1>1, <1>6 DEF LeavingTrue
<1>8. TaskStops(i)'  BY <1>2, <1>3, <1>4 DEF TaskStops, AfterStages
<1>9. \A l \in Instances : Starting(l)' = Starting(l)  BY DEF Starting
<1>10. ~Starting(k)  BY <1>6 DEF Starting
<1>11. \A l \in Instances \ {k} : EndsStart(i, l) => EndsStart(i, l)'
  <2>. SUFFICES ASSUME NEW l \in Instances, l # k, EndsStart(i, l) PROVE EndsStart(i, l)'
    OBVIOUS
  <2>1. StopsOrResets(i) /\ l \in task[i].sel /\ l \in task[i].todo
    BY <1>2 DEF EndsStart, StopStages
  <2>2. task'[i].sel = task[i].sel /\ task'[i].at = "stop" /\ l \in task'[i].todo
    BY <1>3, <1>4, <2>1 DEF Carries
  <2>. QED  BY <2>1, <2>2 DEF EndsStart, StopsOrResets, Act, StopStages
<1>12. \A l \in Instances \ {k} : Present(l)' = Present(l) /\ (Shown(l) => Shown(l)')
  BY DEF Present, Shown
<1>13. \A l \in Instances \ {k} : Ends(i, l) => Ends(i, l)'
  <2>. SUFFICES ASSUME NEW l \in Instances, l # k, Ends(i, l) PROVE Ends(i, l)'
    OBVIOUS
  <2>1. CASE l \in task[i].todo
    BY <1>3, <1>4, <2>1 DEF Ends, StopStages
  <2>2. CASE Act(i) = "reset" /\ l \in task[i].sel /\ task[i].then = "inspect"
    BY <1>3, <1>4, <2>2 DEF Ends, StopStages, Act, Carries
  <2>3. CASE Act(i) = "reset" /\ (task[i].fail \/ task[i].errs # {})
    <3>1. task'[i].fail \/ task'[i].errs # {}  BY <1>3, <1>4, <2>3 DEF Carries
    <3>2. Busy(i)' /\ Act(i)' = "reset"  BY <1>4, <2>3 DEF Works, Busy, Act
    <3>. QED  BY <3>1, <3>2 DEF Ends
  <2>. QED  BY <1>2, <2>1, <2>2, <2>3 DEF Ends, StopStages
<1>14. Present(k)' => Present(k) /\ Shown(k)'  BY DEF Shown
<1>15. \A l \in Instances : ~Present(l) => ~Present(l)'  BY <1>12, <1>14
<1>16. Spares(i)
  BY <1>7, <1>8, <1>9, <1>10, <1>11, <1>12, <1>13, <1>14, <1>15 DEF Spares
<1>. QED  BY <1>4, <1>5, <1>16, WorksKeeps

LEMMA GetRuntimeKeeps ==
  ASSUME ControllerInv, NEW i \in Ops, GetRuntime(i)
  PROVE  ControllerInv'
<1>1. /\ TypeOK /\ TaskTrue(i) /\ task[i] \in Task /\ TaskStops(i) /\ LeavingTrue
      /\ task[i].at = "get"
  BY DEF ControllerInv, TypeOK, TasksTrue, StoppingTrue, GetRuntime
<1>2. /\ UNCHANGED <<selection, journal, daemon, current, restoring, wanted, running, rec, faults>>
      /\ Acting(i)
  BY <1>1 DEF GetRuntime, durableVars, Acting
<1>3. PICK k \in Instances :
        k = First(task[i].todo) /\ k \in task[i].todo /\ task[i].then \in AfterStages
  BY <1>1, FirstIn DEF TaskTrue, StopStages, Task
<1>4. CASE Present(k)
  <2>. DEFINE t == [task[i] EXCEPT !.at = "close"]
  <2>1. Step(i, t) /\ phase' = phase  BY <1>3, <1>4 DEF GetRuntime, Goto
  <2>2. "close" \in Stages  BY DEF Stages
  <2>3. Carries(t, task[i]) /\ t.at = "close" /\ t.todo = task[i].todo /\ t.then = task[i].then
    BY <1>1, <2>2, Moves
  <2>. HIDE DEF t
  <2>4. Works(i) /\ task'[i] = t
    BY <1>1, <1>2, <1>3, <2>1, <2>3, StepWorks DEF StopStages
  <2>5. OthersTypeOK' /\ LeavingTrue'
    BY <1>1, <1>2, <2>1 DEF OthersTypeOK, TypeOK, LeavingTrue
  <2>6. TaskStops(i)'
    BY <1>1, <1>2, <2>1, <2>3, <2>4 DEF TaskStops, Closes, Present
  <2>7. \A l : /\ Present(l)' = Present(l) /\ Starting(l)' = Starting(l) /\ Shown(l)' = Shown(l)
               /\ EndsStart(i, l) => EndsStart(i, l)'
               /\ Ends(i, l) => Ends(i, l)'
    BY <1>1, <1>2, <2>1, <2>3, <2>4
    DEF Present, Starting, Shown, EndsStart, Ends, StopsOrResets, Act, Busy, StopStages, Carries
  <2>8. Spares(i)  BY <1>2, <2>5, <2>6, <2>7 DEF Spares
  <2>. QED  BY <2>4, <2>5, <2>8, WorksKeeps
<1>5. CASE ~Present(k)
  <2>1. Show(k, "Stopped") /\ Step(i, AfterStop(Skip(i, "stop")))
    BY <1>3, <1>5 DEF GetRuntime, StoppedInstance
  <2>2. /\ phase' \in [Instances -> Phases]
        /\ \A l \in Instances \ {k} : phase'[l] = phase[l]
    BY <1>1, <2>1 DEF Show, TypeOK, Phases
  <2>3. ~Present(k)'  BY <1>2, <1>5 DEF Present
  <2>4. running' \in [Instances -> Runtime] /\ faults' \in 0..MaxFaults
    BY <1>1, <1>2 DEF TypeOK
  <2>. QED  BY <1>1, <1>2, <1>3, <2>1, <2>2, <2>3, <2>4, LeavesInstance
<1>. QED  BY <1>4, <1>5

LEMMA CloseInstanceKeeps ==
  ASSUME ControllerInv, NEW i \in Ops, CloseInstance(i)
  PROVE  ControllerInv'
<1>1. /\ TypeOK /\ TaskTrue(i) /\ task[i] \in Task /\ task[i].at = "close"
      /\ running \in [Instances -> Runtime] /\ phase \in [Instances -> Phases]
  BY DEF ControllerInv, TypeOK, TasksTrue, CloseInstance
<1>2. UNCHANGED <<selection, journal, daemon, current, restoring, wanted, rec>>
  BY DEF CloseInstance, durableVars
<1>3. PICK k \in Instances : k = First(task[i].todo)
  BY <1>1, FirstIn DEF TaskTrue, StopStages, Task
<1>4. CASE /\ running' = [running EXCEPT ![k] = NoRuntime]
           /\ StoppedInstance(i, k)
           /\ NoFault
  <2>1. Show(k, "Stopped") /\ Step(i, AfterStop(Skip(i, "stop")))
    BY <1>4 DEF StoppedInstance
  <2>2. /\ phase' \in [Instances -> Phases]
        /\ \A l \in Instances \ {k} : phase'[l] = phase[l]
    BY <1>1, <2>1 DEF Show, Phases
  <2>3. /\ running' \in [Instances -> Runtime] /\ ~Present(k)'
        /\ \A l \in Instances \ {k} : running'[l] = running[l]
    BY <1>1, <1>4, BoundsAssumption DEF Runtime, NoRuntime, Present
  <2>4. faults' \in 0..MaxFaults  BY <1>1, <1>4, FaultsCount
  <2>. QED  BY <1>1, <1>2, <1>3, <2>1, <2>2, <2>3, <2>4, LeavesInstance
<1>5. CASE /\ Fault("stuck")
           /\ running' = [running EXCEPT ![k].st = IF @ = "live" THEN "dead" ELSE @]
           /\ Show(k, "Failed")
           /\ Step(i, AfterStop(Bad(i, "stop")))
  <2>1. /\ phase' \in [Instances -> Phases] /\ phase'[k] = "Failed"
        /\ \A l \in Instances \ {k} : phase'[l] = phase[l]
    BY <1>1, <1>5 DEF Show, Phases
  <2>2. /\ running' \in [Instances -> Runtime] /\ (Present(k)' => Present(k))
        /\ running'[k].st # "live"
        /\ \A l \in Instances \ {k} : running'[l] = running[l]
    <3>. DEFINE r == [running[k] EXCEPT !.st = IF @ = "live" THEN "dead" ELSE @]
    <3>1. r \in Runtime /\ (r.st # "none" => running[k].st # "none") /\ r.st # "live"
      BY <1>1 DEF Runtime
    <3>2. running' = [running EXCEPT ![k] = r]  BY <1>1, <1>5
    <3>. HIDE DEF r
    <3>. QED  BY <1>1, <3>1, <3>2 DEF Present
  <2>3. faults' \in 0..MaxFaults  BY <1>1, <1>5, FaultsCount
  <2>. QED  BY <1>1, <1>2, <1>3, <1>5, <2>1, <2>2, <2>3, LeavesInstance
<1>. QED  BY <1>3, <1>4, <1>5 DEF CloseInstance

LEMMA FreshRecovery ==
  ASSUME NEW at \in {"leave", "close", "delay"}
  PROVE  LET r == [NoRecovery EXCEPT !.at = at] IN r \in Recovery /\ r.at = at
BY DEF NoRecovery, Recovery

LEMMA OpenedKeeps ==
  ASSUME ControllerInv, NEW i \in Ops, Opened(i)
  PROVE  ControllerInv'
<1>1. /\ TypeOK /\ TaskTrue(i) /\ task[i] \in Task /\ LeavingTrue
      /\ task[i].at = "opening" /\ Acting(i)
      /\ phase \in [Instances -> Phases] /\ rec \in [Instances -> Recovery]
  BY DEF ControllerInv, TypeOK, TasksTrue, Opened, Acting
<1>2. UNCHANGED <<selection, journal, daemon, current, restoring, wanted, running>>
  BY DEF Opened, durableVars
<1>3. PICK k \in Instances : k = First(task[i].todo)
  BY <1>1, FirstIn DEF TaskTrue, Task
<1>4. task[i].todo # {}  BY <1>1 DEF TaskTrue
<1>5. CASE Goto(i, "launch") /\ NoFault /\ UNCHANGED <<phase, rec>>
  <2>. DEFINE t == [task[i] EXCEPT !.at = "launch"]
  <2>1. "launch" \in Stages  BY DEF Stages
  <2>2. Carries(t, task[i]) /\ t.at = "launch" /\ t.todo = task[i].todo  BY <1>1, <2>1, Moves
  <2>3. Step(i, t)  BY <1>5 DEF Goto
  <2>4. faults' \in 0..MaxFaults  BY <1>1, <1>5, FaultsCount
  <2>5. \A l \in Instances : Shown(l)' = Shown(l)  BY <1>2, <1>5 DEF Shown
  <2>. HIDE DEF t
  <2>. QED  BY <1>1, <1>2, <1>4, <1>5, <2>2, <2>3, <2>4, <2>5, StepOutside DEF StopStages
<1>6. CASE /\ Step(i, Bad(i, "start")) /\ Show(k, "Failed")
           /\ NoFault \/ Fault("refused") \/ Fault("flaky")
           /\ \/ rec' = rec
              \/ ~Recovering(k) /\ rec' = [rec EXCEPT ![k] = [NoRecovery EXCEPT !.at = "delay"]]
  <2>. DEFINE t == Bad(i, "start")
  <2>1. /\ Step(i, t) /\ Show(k, "Failed")
        /\ \/ rec' = rec
           \/ ~Recovering(k) /\ rec' = [rec EXCEPT ![k] = [NoRecovery EXCEPT !.at = "delay"]]
    BY <1>6
  <2>2. faults' \in 0..MaxFaults  BY <1>1, <1>6, FaultsCount
  <2>3. "start" \in Stages  BY DEF Stages
  <2>4. Carries(t, task[i]) /\ t.at = "start"  BY <1>1, <1>4, <2>3, GoesOn
  <2>. HIDE DEF t
  <2>5. Works(i) /\ task'[i] = t  BY <1>1, <1>2, <2>1, <2>4, StepWorks DEF StopStages
  <2>6. /\ phase' \in [Instances -> Phases] /\ phase'[k] = "Failed"
        /\ \A l \in Instances \ {k} : phase'[l] = phase[l]
    BY <1>1, <2>1 DEF Show, Phases
  <2>7. /\ rec' \in [Instances -> Recovery]
        /\ \A l \in Instances : rec'[l] = rec[l] \/ (l = k /\ rec'[l].at = "delay")
    <3>. DEFINE r == [NoRecovery EXCEPT !.at = "delay"]
    <3>1. r \in Recovery /\ r.at = "delay"  BY FreshRecovery
    <3>2. rec' = rec \/ rec' = [rec EXCEPT ![k] = r]  BY <2>1
    <3>. HIDE DEF r
    <3>. QED  BY <1>1, <3>1, <3>2
  <2>8. OthersTypeOK'  BY <1>1, <1>2, <2>2, <2>6, <2>7 DEF OthersTypeOK, TypeOK
  <2>9. LeavingTrue'  BY <1>1, <1>2, <2>7 DEF LeavingTrue
  <2>10. TaskStops(i)'  BY <2>4, <2>5 DEF TaskStops
  <2>11. \A l : ~EndsStart(i, l) /\ (Ends(i, l) => Ends(i, l)')
    BY <1>1, <1>2, <2>4, <2>5 DEF EndsStart, Ends, StopStages, Busy, Act, Carries
  <2>12. \A l \in Instances :
           /\ Present(l)' = Present(l) /\ (Starting(l)' => Starting(l))
           /\ Shown(l) => Shown(l)'
    BY <1>2, <2>6, <2>7 DEF Present, Starting, Shown
  <2>13. Spares(i)  BY <1>2, <2>9, <2>10, <2>11, <2>12 DEF Spares
  <2>. QED  BY <2>5, <2>8, <2>13, WorksKeeps
<1>. QED  BY <1>3, <1>5, <1>6 DEF Opened

LEMMA LaunchKeeps ==
  ASSUME ControllerInv, NEW i \in Ops, Launch(i)
  PROVE  ControllerInv'
<1>1. /\ TypeOK /\ TaskTrue(i) /\ task[i] \in Task /\ LeavingTrue
      /\ task[i].at = "launch" /\ Acting(i) /\ Busy(i) /\ task[i].todo # {}
      /\ phase \in [Instances -> Phases] /\ running \in [Instances -> Runtime]
  BY DEF ControllerInv, TypeOK, TasksTrue, TaskTrue, Launch, Acting, Busy
<1>2. UNCHANGED <<selection, journal, daemon, current, restoring, wanted, rec, faults>>
  BY DEF Launch, durableVars
<1>3. PICK k \in Instances : k = First(task[i].todo)
  BY <1>1, FirstIn DEF TaskTrue, Task
<1>4. faults' \in 0..MaxFaults  BY <1>1, <1>2 DEF TypeOK
<1>5. CASE MayLaunch(k, task[i].cancelled)
  <2>. DEFINE t == Skip(i, "start")
  <2>1. "start" \in Stages  BY DEF Stages
  <2>2. Carries(t, task[i]) /\ t.at = "start"  BY <1>1, <2>1, GoesOn
  <2>3. /\ Step(i, t) /\ Show(k, "Running") /\ running' = [running EXCEPT ![k] = Live(i)]
        /\ k \in wanted /\ ~Present(k)
    BY <1>3, <1>5 DEF Launch, MayLaunch
  <2>. HIDE DEF t
  <2>4. Works(i) /\ task'[i] = t  BY <1>1, <1>2, <2>2, <2>3, StepWorks DEF StopStages
  <2>5. /\ phase' \in [Instances -> Phases] /\ running' \in [Instances -> Runtime]
        /\ \A l \in Instances \ {k} : running'[l] = running[l] /\ phase'[l] = phase[l]
    BY <1>1, <2>3 DEF Show, Phases, Live, Runtime, Ops
  <2>6. OthersTypeOK'  BY <1>1, <1>2, <1>4, <2>5 DEF OthersTypeOK, TypeOK
  <2>7. LeavingTrue'
    BY <1>1, <1>2, <2>3, <2>5 DEF LeavingTrue, Present
  <2>8. TaskStops(i)'  BY <2>2, <2>4 DEF TaskStops
  <2>9. Act(i) # "enroll"  BY <1>1, <2>3 DEF ControllerInv, EnrollTrue
  <2>10. \A l : ~EndsStart(i, l) /\ (Ends(i, l) => Ends(i, l)')
    BY <1>1, <1>2, <2>2, <2>4 DEF EndsStart, Ends, StopStages, Busy, Act, Carries
  <2>11. \A l \in Instances \ {k} : /\ Present(l)' = Present(l) /\ Shown(l)' = Shown(l)
                                    /\ Starting(l)' = Starting(l)
    BY <1>2, <2>5 DEF Present, Shown, Starting
  <2>12. Spares(i)  BY <1>2, <2>3, <2>7, <2>8, <2>9, <2>10, <2>11 DEF Spares
  <2>. QED  BY <2>4, <2>6, <2>12, WorksKeeps
<1>6. CASE ~MayLaunch(k, task[i].cancelled)
  <2>. DEFINE t == [task[i] EXCEPT !.at = "drop"]
  <2>1. "drop" \in Stages  BY DEF Stages
  <2>2. Carries(t, task[i]) /\ t.at = "drop" /\ t.todo = task[i].todo  BY <1>1, <2>1, Moves
  <2>3. Step(i, t) /\ UNCHANGED <<running, phase>>  BY <1>3, <1>6 DEF Launch, Goto
  <2>4. \A l \in Instances : Shown(l)' = Shown(l)  BY <1>2, <2>3 DEF Shown
  <2>. HIDE DEF t
  <2>. QED  BY <1>1, <1>2, <1>4, <2>2, <2>3, <2>4, StepOutside DEF StopStages
<1>. QED  BY <1>5, <1>6

-----------------------------------------------------------------------------
(* The steps of a recovery, of a watcher and of the restore: one instance  *)
(* changes, and a task that waits for its recovery may go on.              *)
Stands(j) == /\ \/ task'[j].at = task[j].at
                \/ task[j].at = "join" /\ task'[j].at = "get"
             /\ task'[j].todo = task[j].todo /\ task'[j].sel = task[j].sel
             /\ task'[j].errs = task[j].errs /\ task'[j].then = task[j].then
             /\ task'[j].fail = task[j].fail /\ task'[j].pred = task[j].pred

LEMMA TasksStand ==
  ASSUME ControllerInv, UNCHANGED <<selection, journal, current>>, \A j \in Ops : Stands(j)
  PROVE  /\ TasksTrue' /\ JournalTrue' /\ Line' /\ SelectionTrue' /\ (ResetFailed => ResetFailed')
         /\ \A j \in Ops :
              /\ Busy(j)' = Busy(j) /\ Waiting(j)' = Waiting(j) /\ Act(j)' = Act(j)
              /\ \A k \in Instances : /\ EndsStart(j, k) => EndsStart(j, k)'
                                      /\ Ends(j, k) => Ends(j, k)'
<1>1. \A j \in Ops : Busy(j)' = Busy(j) /\ Waiting(j)' = Waiting(j) /\ Act(j)' = Act(j)
  BY DEF Busy, Waiting, Act, Stands
<1>2. ASSUME NEW j \in Ops PROVE TaskTrue(j)'
  <2>1. TaskTrue(j)  BY DEF ControllerInv, TasksTrue
  <2>. QED  BY <1>1, <2>1 DEF TaskTrue, StopStages, Stands
<1>3. JournalTrue'
  <2>1. \A j \in Ops : task'[j].at # "none" => task[j].at # "none"  BY DEF Stands
  <2>. QED  BY <1>1, <2>1 DEF ControllerInv, JournalTrue
<1>4. Line'
  <2>1. \A j \in Ops : task'[j].pred = task[j].pred  BY DEF Stands
  <2>. QED  BY <1>1, <2>1, LineStands DEF ControllerInv, TypeOK
<1>5. SelectionTrue' /\ (ResetFailed => ResetFailed')
  BY DEF ControllerInv, SelectionTrue, ResetFailed, Act
<1>6. ASSUME NEW j \in Ops, NEW k \in Instances
      PROVE  (EndsStart(j, k) => EndsStart(j, k)') /\ (Ends(j, k) => Ends(j, k)')
  <2>1. StopsOrResets(j)' = StopsOrResets(j)  BY DEF StopsOrResets, Act
  <2>2. (task[j].at \in StopStages) = (task'[j].at \in StopStages)  BY DEF StopStages, Stands
  <2>3. EndsStart(j, k) => EndsStart(j, k)'
    BY <2>1, <2>2 DEF EndsStart, Stands
  <2>4. Ends(j, k) => Ends(j, k)'
    BY <1>1, <2>1, <2>2 DEF Ends, Stands
  <2>. QED  BY <2>3, <2>4
<1>. QED  BY <1>1, <1>2, <1>3, <1>4, <1>5, <1>6 DEF TasksTrue

LEMMA InstanceKeeps ==
  ASSUME ControllerInv, NEW k \in Instances, TypeOK', Quiet',
         UNCHANGED <<selection, journal, daemon, current>>,
         \/ wanted' = wanted
         \/ wanted' = wanted \ {k} /\ rec'[k].at = "close" /\ running'[k].st # "live",
         \A l \in Instances \ {k} :
           running'[l] = running[l] /\ phase'[l] = phase[l] /\ rec'[l] = rec[l],
         \/ task' = task /\ (Joins(k) => Joins(k)')
         \/ Joined(k) /\ (Joins(k) => Closes(k)'),
         Closes(k) /\ current # 0 => Closes(k)',
         rec'[k].at = "leave" => running'[k].st = "left",
         Present(k)' => Present(k) \/ k \in wanted,
         Starting(k)' /\ k \notin wanted => Starting(k),
         Present(k)' /\ k \notin wanted => Present(k) /\ (Shown(k) => Shown(k)')
  PROVE  ControllerInv'
<1>0. TypeOK /\ task \in [Ops -> Task]  BY DEF ControllerInv, TypeOK
<1>1. \A j \in Ops : /\ Stands(j)
                     /\ task'[j].at # task[j].at => First(task[j].todo) = k /\ (Joins(k) => Closes(k)')
  BY <1>0 DEF Stands, Joined, Task
<1>2. /\ TasksTrue' /\ JournalTrue' /\ Line' /\ SelectionTrue' /\ (ResetFailed => ResetFailed')
      /\ \A j \in Ops :
           /\ Busy(j)' = Busy(j) /\ Waiting(j)' = Waiting(j) /\ Act(j)' = Act(j)
           /\ \A l \in Instances : /\ EndsStart(j, l) => EndsStart(j, l)'
                                   /\ Ends(j, l) => Ends(j, l)'
  BY <1>1, TasksStand
<1>3. LeavingTrue'
  BY DEF ControllerInv, LeavingTrue
<1>4. ASSUME NEW j \in Ops PROVE TaskStops(j)'
  <2>1. /\ TaskStops(j) /\ TaskTrue(j) /\ task'[j].todo = task[j].todo
    BY <1>1 DEF ControllerInv, StoppingTrue, TasksTrue, Stands
  <2>2. CASE task[j].at \notin {"join", "get", "close"}
    BY <1>1, <2>2 DEF TaskStops, Stands
  <2>3. CASE task[j].at \in {"join", "get", "close"}
    <3>1. PICK l \in Instances : l = First(task[j].todo)
      BY <1>0, <2>1, <2>3, FirstIn DEF TaskTrue, StopStages, Task
    <3>2. Busy(j) /\ current # 0
      BY <2>3 DEF Busy, ControllerInv, Line, Ops
    <3>3. CASE l # k
      <4>1. task'[j].at = task[j].at  BY <1>1, <3>1, <3>3
      <4>. QED  BY <2>1, <3>1, <3>3, <4>1 DEF TaskStops, Joins, Closes, Recovering, Present
    <3>4. CASE l = k /\ task[j].at = "join"
      <4>1. Joins(k)  BY <2>1, <3>1, <3>4 DEF TaskStops
      <4>2. CASE task'[j].at = "join"
        <5>1. ~Joined(k)
          <6>1. task[j] \in Task  BY <1>0
          <6>2. [task[j] EXCEPT !.at = "get"].at = "get"  BY <6>1 DEF Task
          <6>. QED  BY <3>1, <3>4, <4>2, <6>2 DEF Joined
        <5>. QED  BY <2>1, <3>1, <3>4, <4>1, <4>2, <5>1 DEF TaskStops, Joins, Recovering
      <4>3. CASE task'[j].at = "get"
        <5>1. Closes(k)'  BY <1>1, <3>4, <4>1, <4>3
        <5>. QED  BY <2>1, <3>1, <3>4, <4>3, <5>1 DEF TaskStops, Closes, Present
      <4>. QED  BY <1>1, <3>4, <4>2, <4>3 DEF Stands
    <3>5. CASE l = k /\ task[j].at \in {"get", "close"}
      <4>1. Closes(k)' /\ task'[j].at = task[j].at
        BY <1>1, <2>1, <3>1, <3>2, <3>5 DEF TaskStops, Stands
      <4>. QED  BY <2>1, <3>1, <3>5, <4>1 DEF TaskStops, Closes, Present
    <3>. QED  BY <2>3, <3>3, <3>4, <3>5
  <2>. QED  BY <2>2, <2>3
<1>5. EnrollTrue'
  <2>. SUFFICES ASSUME NEW j \in Ops, Busy(j), Act(j) = "enroll"
               PROVE  (~Waiting(j) /\ wanted = {} /\ \A l \in Instances : ~Present(l))'
    BY <1>2 DEF EnrollTrue
  <2>1. ~Waiting(j) /\ wanted = {} /\ \A l \in Instances : ~Present(l)
    BY DEF ControllerInv, EnrollTrue
  <2>2. \A l \in Instances \ {k} : Present(l)' = Present(l)  BY DEF Present
  <2>. QED  BY <1>2, <2>1, <2>2
<1>6. StartsTrue'
  <2>. SUFFICES ASSUME NEW l \in Instances, l \notin wanted', Starting(l)'
               PROVE  \E j \in Ops : EndsStart(j, l)'
    BY DEF StartsTrue
  <2>1. l \notin wanted /\ Starting(l)
    BY DEF Starting
  <2>. QED  BY <1>2, <2>1 DEF ControllerInv, StartsTrue
<1>7. RuntimesTrue'
  <2>. SUFFICES ASSUME daemon = "up", NEW l \in Instances, l \notin wanted', Present(l)'
               PROVE  Accounted(l)'
    BY DEF RuntimesTrue
  <2>1. CASE l \in wanted
    <3>1. rec'[l].at = "close" /\ running'[l].st # "live"  BY <2>1
    <3>. QED  BY <3>1 DEF Accounted, Shown
  <2>2. CASE l \notin wanted
    <3>1. Present(l) /\ (Shown(l) => Shown(l)')
      BY <2>2 DEF Present, Shown
    <3>2. Shown(l) \/ ResetFailed \/ \E j \in Ops : Ends(j, l)
      BY <2>2, <3>1 DEF ControllerInv, RuntimesTrue, Accounted
    <3>. QED  BY <1>2, <3>1, <3>2 DEF Accounted
  <2>. QED  BY <2>1, <2>2
<1>. QED  BY <1>2, <1>3, <1>4, <1>5, <1>6, <1>7 DEF ControllerInv, StoppingTrue

OnlyTouches(k) ==
  /\ UNCHANGED <<selection, journal, daemon, current>>
  /\ running' \in [Instances -> Runtime] /\ phase' \in [Instances -> Phases]
  /\ restoring' \in [Instances -> {"no", "call", "await"}] /\ faults' \in 0..MaxFaults
  /\ \A l \in Instances \ {k} : running'[l] = running[l] /\ phase'[l] = phase[l]

(* The lock is held by nobody else: what is shown of an instance while its *)
(* task or recovery is at it.                                              *)
LEMMA RecoveryEndKeeps ==
  ASSUME ControllerInv, NEW k \in Instances, Recovering(k), RecoveryEnds(k), OnlyTouches(k),
         wanted' = wanted,
         Joins(k) \/ Closes(k) => (Present(k)' => phase'[k] # "Running"),
         Present(k)' => Present(k) \/ k \in wanted,
         Present(k)' /\ k \notin wanted /\ Shown(k) =>
           running'[k].st # "live" /\ phase'[k] \in {"Failed", "Starting"}
  PROVE  ControllerInv'
<1>1. /\ TypeOK /\ rec \in [Instances -> Recovery] /\ task \in [Ops -> Task]
  BY DEF ControllerInv, TypeOK
<1>2. /\ rec' \in [Instances -> Recovery] /\ rec'[k].at = "none"
      /\ \A l \in Instances \ {k} : rec'[l] = rec[l]
  <2>1. NoRecovery \in Recovery /\ NoRecovery.at = "none"  BY DEF NoRecovery, Recovery
  <2>. QED  BY <1>1, <2>1 DEF RecoveryEnds
<1>3. Joined(k)  BY DEF RecoveryEnds
<1>4. task' \in [Ops -> Task]
  <2>1. \A j \in Ops : task[j] \in Task /\ [task[j] EXCEPT !.at = "get"] \in Task
    <3>1. "get" \in Stages  BY DEF Stages
    <3>. QED  BY <1>1, <3>1, Moves DEF Carries
  <2>. QED  BY <1>3, <2>1 DEF Joined
<1>5. TypeOK'  BY <1>1, <1>2, <1>4 DEF TypeOK, OnlyTouches
<1>6. Quiet'  BY DEF ControllerInv, Quiet, OnlyTouches
<1>7. ~Starting(k)' /\ (Present(k)' /\ k \notin wanted /\ Shown(k) => Shown(k)')
  BY <1>2 DEF Starting, Shown
<1>8. Joins(k) \/ Closes(k) => Closes(k)'  BY <1>2 DEF Closes, Present
<1>. QED  BY <1>2, <1>3, <1>5, <1>6, <1>7, <1>8, InstanceKeeps DEF OnlyTouches

LEMMA RecoveryGoKeeps ==
  ASSUME ControllerInv, NEW k \in Instances, Recovering(k), OnlyTouches(k), task' = task,
         NEW at, RecoveryGoes(k, at),
         at \in {"close", "delay", "lease", "opening", "launch", "drop"},
         \/ wanted' = wanted
         \/ wanted' = wanted \ {k} /\ at = "close" /\ running'[k].st # "live",
         at \notin {"close", "delay"} => Starting(k) \/ k \in wanted,
         phase'[k] # phase[k] => phase'[k] = "Failed",
         rec[k].at = "close" => phase'[k] = "Failed" \/ ~Present(k)',
         Closes(k) /\ current # 0 => at = "delay",
         Present(k)' => Present(k) /\ running'[k] = running[k]
  PROVE  ControllerInv'
<1>1. TypeOK /\ rec \in [Instances -> Recovery] /\ task \in [Ops -> Task]
  BY DEF ControllerInv, TypeOK
<1>2. /\ rec' \in [Instances -> Recovery] /\ rec'[k].at = at /\ rec'[k].stop = rec[k].stop
      /\ \A l \in Instances \ {k} : rec'[l] = rec[l]
  <2>. DEFINE r == [rec[k] EXCEPT !.at = at]
  <2>1. r \in Recovery /\ r.at = at /\ r.stop = rec[k].stop  BY <1>1 DEF Recovery
  <2>2. rec' = [rec EXCEPT ![k] = r]  BY DEF RecoveryGoes
  <2>. HIDE DEF r
  <2>. QED  BY <1>1, <2>1, <2>2
<1>3. TypeOK'  BY <1>1, <1>2 DEF TypeOK, OnlyTouches
<1>4. Quiet'  BY DEF ControllerInv, Quiet, OnlyTouches
<1>5. Joins(k) => Joins(k)'
  BY <1>2 DEF Joins, Recovering
<1>6. Closes(k) /\ current # 0 => Closes(k)'
  BY <1>2 DEF Closes, Present
<1>7. Starting(k)' /\ k \notin wanted => Starting(k)  BY <1>2 DEF Starting
<1>8. Present(k)' /\ Shown(k) => Shown(k)'
  BY <1>2 DEF Shown
<1>. QED
  BY <1>2, <1>3, <1>4, <1>5, <1>6, <1>7, <1>8, InstanceKeeps DEF OnlyTouches

LEMMA RecoveryKeeps ==
  ASSUME ControllerInv, NEW k \in Instances, RecoveryStep(k)
  PROVE  ControllerInv'
<1>1. /\ TypeOK /\ LeavingTrue /\ Recovering(k) /\ StartsTrue
      /\ running \in [Instances -> Runtime] /\ phase \in [Instances -> Phases]
      /\ rec \in [Instances -> Recovery]
      /\ restoring \in [Instances -> {"no", "call", "await"}]
  BY DEF ControllerInv, TypeOK, RecoveryStep, RecoverLeaves, RecoverCloses, RecoverDelays,
         RecoverStarts, RecoverOpened, RecoverLaunches, RecoverDrops, Recovering
<1>2. UNCHANGED <<selection, journal, daemon, current>>
  BY DEF RecoveryStep, RecoverLeaves, RecoverCloses, RecoverDelays,
         RecoverStarts, RecoverOpened, RecoverLaunches, RecoverDrops, durableVars
<1>3. faults' \in 0..MaxFaults
  BY <1>1, FaultsCount
  DEF RecoveryStep, RecoverLeaves, RecoverCloses, RecoverDelays,
      RecoverStarts, RecoverOpened, RecoverLaunches, RecoverDrops, NoFault
<1>4. restoring' \in [Instances -> {"no", "call", "await"}]
  BY <1>1 DEF RecoveryStep, RecoverLeaves, RecoverCloses, RecoverDelays,
         RecoverStarts, RecoverOpened, RecoverLaunches, RecoverDrops, RecoveryEnds, Attempted
<1>5. ASSUME running' = running \/ running' = [running EXCEPT ![k] = NoRuntime]
                                \/ running' = [running EXCEPT ![k] = Live(0)],
             phase' = phase \/ (\E p \in Phases : Show(k, p))
      PROVE  OnlyTouches(k)
  <2>1. NoRuntime \in Runtime /\ Live(0) \in Runtime
    BY BoundsAssumption DEF NoRuntime, Live, Runtime
  <2>2. running' \in [Instances -> Runtime] /\ \A l \in Instances \ {k} : running'[l] = running[l]
    BY <1>1, <1>5, <2>1
  <2>3. phase' \in [Instances -> Phases] /\ \A l \in Instances \ {k} : phase'[l] = phase[l]
    BY <1>1, <1>5 DEF Show
  <2>. QED  BY <1>2, <1>3, <1>4, <2>2, <2>3 DEF OnlyTouches
<1>6. "Failed" \in Phases /\ "Stopped" \in Phases /\ "Running" \in Phases  BY DEF Phases
<1>7. \A p : Show(k, p) => phase'[k] = p  BY <1>1 DEF Show
<1>8. CASE RecoverLeaves(k)
  <2>1. /\ rec[k].at = "leave" /\ RecoveryGoes(k, "close") /\ task' = task
        /\ wanted' = wanted \ {k} /\ running' = running /\ phase' = phase
    BY <1>8 DEF RecoverLeaves
  <2>2. OnlyTouches(k) /\ ~Closes(k)  BY <1>5, <2>1 DEF Closes
  <2>3. Present(k)' = Present(k)  BY <2>1 DEF Present
  <2>4. running'[k].st # "live"  BY <1>1, <2>1 DEF LeavingTrue
  <2>. QED  BY <1>1, <2>1, <2>2, <2>3, <2>4, RecoveryGoKeeps
<1>9. CASE RecoverCloses(k)
  <2>1. rec[k].at = "close" /\ wanted' = wanted /\ ~Closes(k)
    BY <1>9 DEF RecoverCloses, Closes, durableVars
  <2>2. CASE running' = [running EXCEPT ![k] = NoRuntime]
    <3>1. ~Present(k)'  BY <1>1, <2>2 DEF Present, NoRuntime
    <3>2. CASE Show(k, "Stopped") /\ RecoveryEnds(k)
      <4>1. OnlyTouches(k)  BY <1>5, <1>6, <2>2, <3>2
      <4>. QED  BY <1>1, <2>1, <3>1, <3>2, <4>1, RecoveryEndKeeps
    <3>3. CASE RecoveryGoes(k, "delay") /\ UNCHANGED <<phase, task, restoring>>
      <4>1. OnlyTouches(k)  BY <1>5, <2>2, <3>3
      <4>. QED  BY <1>1, <2>1, <3>1, <3>3, <4>1, RecoveryGoKeeps
    <3>4. CASE Show(k, "Failed") /\ RecoveryEnds(k)
      <4>1. OnlyTouches(k)  BY <1>5, <1>6, <2>2, <3>4
      <4>. QED  BY <1>1, <2>1, <3>1, <3>4, <4>1, RecoveryEndKeeps
    <3>. QED  BY <1>9, <3>2, <3>3, <3>4 DEF RecoverCloses
  <2>3. CASE Show(k, "Failed") /\ RecoveryEnds(k) /\ running' = running
    <3>1. OnlyTouches(k) /\ phase'[k] = "Failed"  BY <1>5, <1>6, <1>7, <2>3
    <3>2. Present(k)' = Present(k)  BY <2>3 DEF Present
    <3>. QED  BY <1>1, <2>1, <2>3, <3>1, <3>2, RecoveryEndKeeps DEF Shown
  <2>. QED  BY <1>9, <2>2, <2>3 DEF RecoverCloses
<1>10. CASE RecoverDelays(k)
  <2>1. /\ rec[k].at = "delay" /\ wanted' = wanted /\ running' = running /\ phase' = phase
    BY <1>10 DEF RecoverDelays, durableVars
  <2>2. OnlyTouches(k) /\ Present(k)' = Present(k)  BY <1>5, <2>1 DEF Present
  <2>3. CASE RecoveryEnds(k)
    BY <1>1, <2>1, <2>2, <2>3, RecoveryEndKeeps DEF Joins, Closes, Shown
  <2>4. CASE /\ RecoveryGoes(k, IF current # 0 THEN "delay" ELSE "lease") /\ k \in wanted
             /\ task' = task
    <3>. DEFINE at == IF current # 0 THEN "delay" ELSE "lease"
    <3>1. at \in {"delay", "lease"} /\ (current # 0 => at = "delay") /\ RecoveryGoes(k, at)
      BY <2>4
    <3>. HIDE DEF at
    <3>. QED  BY <1>1, <2>1, <2>2, <2>4, <3>1, RecoveryGoKeeps
  <2>. QED  BY <1>10, <2>3, <2>4 DEF RecoverDelays
<1>11. CASE RecoverStarts(k)
  <2>1. /\ rec[k].at = "lease" /\ wanted' = wanted /\ running' = running /\ ~Closes(k)
        /\ Starting(k) /\ (phase' = phase \/ Show(k, "Failed"))
    BY <1>11 DEF RecoverStarts, durableVars, Closes, Starting
  <2>2. OnlyTouches(k) /\ Present(k)' = Present(k)  BY <1>5, <1>6, <2>1 DEF Present
  <2>3. CASE RecoveryEnds(k)
    BY <1>1, <1>7, <2>1, <2>2, <2>3, RecoveryEndKeeps DEF Joins, Shown
  <2>4. CASE RecoveryGoes(k, "opening") /\ UNCHANGED <<task, phase, restoring>>
    BY <1>1, <2>1, <2>2, <2>4, RecoveryGoKeeps
  <2>. QED  BY <1>11, <2>3, <2>4 DEF RecoverStarts
<1>12. CASE RecoverOpened(k)
  <2>1. /\ rec[k].at = "opening" /\ wanted' = wanted /\ running' = running /\ ~Closes(k)
        /\ Starting(k) /\ (phase' = phase \/ Show(k, "Failed"))
    BY <1>12 DEF RecoverOpened, durableVars, Closes, Starting
  <2>2. OnlyTouches(k) /\ Present(k)' = Present(k)  BY <1>5, <1>6, <2>1 DEF Present
  <2>3. CASE RecoveryEnds(k)
    BY <1>1, <1>7, <2>1, <2>2, <2>3, RecoveryEndKeeps DEF Joins, Shown
  <2>4. CASE RecoveryGoes(k, "launch") /\ task' = task
    BY <1>1, <1>7, <2>1, <2>2, <2>4, RecoveryGoKeeps
  <2>5. CASE RecoveryGoes(k, "delay") /\ task' = task
    BY <1>1, <1>7, <2>1, <2>2, <2>5, RecoveryGoKeeps
  <2>. QED  BY <1>12, <2>3, <2>4, <2>5 DEF RecoverOpened
<1>13. CASE RecoverLaunches(k)
  <2>1. rec[k].at = "launch" /\ wanted' = wanted /\ ~Closes(k) /\ Starting(k)
    BY <1>13 DEF RecoverLaunches, durableVars, Closes, Starting
  <2>2. CASE /\ MayLaunch(k, rec[k].stop) /\ running' = [running EXCEPT ![k] = Live(0)]
             /\ Show(k, "Running") /\ RecoveryEnds(k)
    <3>1. ~Joins(k) /\ k \in wanted  BY <2>2 DEF MayLaunch, Joins
    <3>2. OnlyTouches(k)  BY <1>5, <1>6, <2>2
    <3>. QED  BY <1>1, <2>1, <2>2, <3>1, <3>2, RecoveryEndKeeps
  <2>3. CASE RecoveryGoes(k, "drop") /\ UNCHANGED <<task, running, phase, restoring>>
    <3>1. OnlyTouches(k) /\ Present(k)' = Present(k)  BY <1>5, <2>3 DEF Present
    <3>. QED  BY <1>1, <2>1, <2>3, <3>1, RecoveryGoKeeps
  <2>. QED  BY <1>13, <2>2, <2>3 DEF RecoverLaunches
<1>14. CASE RecoverDrops(k)
  <2>1. /\ rec[k].at = "drop" /\ wanted' = wanted /\ running' = running /\ ~Closes(k)
        /\ (phase' = phase \/ Show(k, "Failed")) /\ RecoveryEnds(k)
    BY <1>14 DEF RecoverDrops, durableVars, Closes
  <2>2. OnlyTouches(k) /\ Present(k)' = Present(k)  BY <1>5, <1>6, <2>1 DEF Present
  <2>. QED
    BY <1>1, <1>7, <2>1, <2>2, RecoveryEndKeeps DEF Joins, Shown
<1>. QED
  BY <1>8, <1>9, <1>10, <1>11, <1>12, <1>13, <1>14 DEF RecoveryStep

LEMMA DiesKeeps ==
  ASSUME ControllerInv, NEW k \in Instances, Dies(k)
  PROVE  ControllerInv'
<1>1. /\ TypeOK /\ LeavingTrue /\ running \in [Instances -> Runtime] /\ running[k].st = "live"
      /\ UNCHANGED <<durableVars, daemon, current, task, phase, rec, restoring>>
      /\ faults' \in 0..MaxFaults
  BY FaultsCount DEF ControllerInv, TypeOK, Dies
<1>2. PICK st \in {"dead", "left"} : running' = [running EXCEPT ![k].st = st]
  BY DEF Dies
<1>3. /\ running' \in [Instances -> Runtime] /\ running'[k].st = st
      /\ \A l \in Instances \ {k} : running'[l] = running[l]
  <2>. DEFINE r == [running[k] EXCEPT !.st = st]
  <2>1. r \in Runtime /\ r.st = st  BY <1>1 DEF Runtime
  <2>2. running' = [running EXCEPT ![k] = r]  BY <1>2
  <2>. HIDE DEF r
  <2>. QED  BY <1>1, <2>1, <2>2
<1>4. TypeOK'  BY <1>1, <1>3 DEF TypeOK, durableVars
<1>5. \A l \in Instances : Present(l)' = Present(l)  BY <1>1, <1>3 DEF Present
<1>6. Quiet'  BY <1>1, <1>5 DEF ControllerInv, Quiet, Busy, Recovering
<1>7. (Joins(k) => Joins(k)') /\ (Closes(k) => Closes(k)') /\ (Shown(k) => Shown(k)')
  BY <1>1, <1>5 DEF Joins, Closes, Recovering, Shown
<1>8. rec[k].at # "leave"  BY <1>1 DEF LeavingTrue
<1>9. Starting(k)' = Starting(k)  BY <1>1 DEF Starting
<1>. QED
  BY <1>1, <1>3, <1>4, <1>5, <1>6, <1>7, <1>8, <1>9, InstanceKeeps DEF durableVars

LEMMA WatchKeeps ==
  ASSUME ControllerInv, NEW k \in Instances, Watch(k)
  PROVE  ControllerInv'
<1>1. /\ TypeOK /\ LeavingTrue /\ running \in [Instances -> Runtime]
      /\ phase \in [Instances -> Phases] /\ rec \in [Instances -> Recovery]
      /\ UNCHANGED <<durableVars, daemon, current, task, restoring, faults>>
      /\ running[k].st \in {"dead", "left"} /\ daemon = "up"
      /\ running' = [running EXCEPT ![k].watched = FALSE]
  BY DEF ControllerInv, TypeOK, Watch, Stopping
<1>2. /\ running' \in [Instances -> Runtime] /\ running'[k].st = running[k].st
      /\ \A l \in Instances \ {k} : running'[l] = running[l]
  <2>. DEFINE r == [running[k] EXCEPT !.watched = FALSE]
  <2>1. r \in Runtime /\ r.st = running[k].st  BY <1>1 DEF Runtime
  <2>2. running' = [running EXCEPT ![k] = r]  BY <1>1
  <2>. HIDE DEF r
  <2>. QED  BY <1>1, <2>1, <2>2
<1>3. Present(k) /\ Present(k)'  BY <1>1, <1>2 DEF Present
<1>4. Quiet'  BY <1>1 DEF Quiet
<1>5. CASE ~(k \in wanted /\ phase[k] = "Running" /\ ~Recovering(k))
  <2>1. phase' = phase /\ rec' = rec  BY <1>5 DEF Watch
  <2>2. TypeOK'  BY <1>1, <1>2, <2>1 DEF TypeOK, durableVars
  <2>3. /\ (Joins(k) => Joins(k)') /\ (Closes(k) => Closes(k)') /\ (Shown(k) => Shown(k)')
        /\ Starting(k)' = Starting(k)
    BY <1>2, <1>3, <2>1 DEF Joins, Closes, Recovering, Shown, Starting
  <2>4. rec'[k].at = "leave" => running'[k].st = "left"  BY <1>1, <1>2, <2>1 DEF LeavingTrue
  <2>. QED
    BY <1>1, <1>2, <1>3, <1>4, <2>1, <2>2, <2>3, <2>4, InstanceKeeps DEF durableVars
<1>6. CASE k \in wanted /\ phase[k] = "Running" /\ ~Recovering(k)
  <2>. DEFINE at == IF running[k].st = "left" THEN "leave" ELSE "close"
              p == IF running[k].st = "left" THEN "Stopping" ELSE "Failed"
              r == [NoRecovery EXCEPT !.at = at]
  <2>1. rec' = [rec EXCEPT ![k] = r] /\ phase' = [phase EXCEPT ![k] = p]
    BY <1>6 DEF Watch
  <2>2. r \in Recovery /\ r.at = at
    BY FreshRecovery
  <2>3. /\ rec' \in [Instances -> Recovery] /\ rec'[k].at = at
        /\ \A l \in Instances \ {k} : rec'[l] = rec[l]
    <3>. HIDE DEF r
    <3>. QED  BY <1>1, <2>1, <2>2
  <2>4. phase' \in [Instances -> Phases] /\ \A l \in Instances \ {k} : phase'[l] = phase[l]
    BY <1>1, <2>1 DEF Phases
  <2>5. TypeOK'  BY <1>1, <1>2, <2>3, <2>4 DEF TypeOK, durableVars
  <2>6. ~Joins(k) /\ ~Closes(k)  BY <1>3, <1>6 DEF Joins, Closes
  <2>7. rec'[k].at = "leave" => running'[k].st = "left"  BY <1>2, <2>3
  <2>8. ~Starting(k)'  BY <2>3 DEF Starting
  <2>. QED
    BY <1>1, <1>2, <1>3, <1>4, <1>6, <2>3, <2>4, <2>5, <2>6, <2>7, <2>8, InstanceKeeps
    DEF durableVars
<1>. QED  BY <1>5, <1>6

LEMMA RestoreKeeps ==
  ASSUME ControllerInv, NEW k \in Instances, Restore(k)
  PROVE  ControllerInv'
<1>1. /\ TypeOK /\ LeavingTrue /\ phase \in [Instances -> Phases]
      /\ rec \in [Instances -> Recovery]
      /\ restoring \in [Instances -> {"no", "call", "await"}]
      /\ UNCHANGED <<durableVars, daemon, current, task, running, faults>>
      /\ restoring[k] = "call"
  BY DEF ControllerInv, TypeOK, Restore
<1>2. daemon \notin {"drain", "unclosed", "off", "down", "opening"}
  BY <1>1 DEF ControllerInv, Quiet
<1>3. Quiet'  BY <1>1, <1>2 DEF Quiet
<1>4. Present(k)' = Present(k)  BY <1>1 DEF Present
<1>5. CASE UNCHANGED <<phase, rec>> /\ restoring' = [restoring EXCEPT ![k] = "no"]
  <2>1. TypeOK'  BY <1>1, <1>5 DEF TypeOK, durableVars
  <2>2. /\ (Joins(k) => Joins(k)') /\ (Closes(k) => Closes(k)') /\ (Shown(k) => Shown(k)')
        /\ Starting(k)' = Starting(k)
    BY <1>1, <1>4, <1>5 DEF Joins, Closes, Recovering, Shown, Starting
  <2>3. rec'[k].at = "leave" => running'[k].st = "left"  BY <1>1, <1>5 DEF LeavingTrue
  <2>. QED  BY <1>1, <1>3, <1>4, <1>5, <2>1, <2>2, <2>3, InstanceKeeps DEF durableVars
<1>6. CASE ~Recovering(k) /\ restoring' = [restoring EXCEPT ![k] = "await"] /\ Show(k, "Starting")
           /\ rec' = [rec EXCEPT ![k] = [NoRecovery EXCEPT !.at = "delay"]]
  <2>. DEFINE r == [NoRecovery EXCEPT !.at = "delay"]
  <2>1. r \in Recovery /\ r.at = "delay"  BY FreshRecovery
  <2>2. /\ rec' \in [Instances -> Recovery] /\ rec'[k].at = "delay"
        /\ \A l \in Instances \ {k} : rec'[l] = rec[l]
    <3>1. rec' = [rec EXCEPT ![k] = r]  BY <1>6
    <3>. HIDE DEF r
    <3>. QED  BY <1>1, <2>1, <3>1
  <2>3. /\ phase' \in [Instances -> Phases] /\ phase'[k] = "Starting"
        /\ \A l \in Instances \ {k} : phase'[l] = phase[l]
    BY <1>1, <1>6 DEF Show, Phases
  <2>4. TypeOK'  BY <1>1, <1>6, <2>2, <2>3 DEF TypeOK, durableVars
  <2>5. ~Joins(k) /\ Closes(k)' /\ (Shown(k) => Shown(k)') /\ ~Starting(k)'
    BY <1>1, <1>6, <2>2, <2>3 DEF Joins, Closes, Shown, Starting
  <2>. QED  BY <1>1, <1>3, <1>4, <2>2, <2>3, <2>4, <2>5, InstanceKeeps DEF durableVars
<1>. QED  BY <1>5, <1>6 DEF Restore

-----------------------------------------------------------------------------
(* Operations come, wait for the one before them and go                    *)

LEMMA NoTaskIsOne ==
  /\ NoTask \in Task /\ NoTask.at = "none" /\ NoTask.sel = {} /\ NoTask.todo = {}
  /\ NoTask.errs = {} /\ NoTask.fail = FALSE /\ NoTask.cancelled = FALSE /\ NoTask.pred = 0
BY BoundsAssumption DEF NoTask, Task, Stages

LEMMA CancelKeeps ==
  ASSUME ControllerInv, NEW i \in Ops, CancelPredecessor(i)
  PROVE  ControllerInv'
<1>. DEFINE p == task[i].pred
<1>1. /\ TypeOK /\ task \in [Ops -> Task] /\ running \in [Instances -> Runtime]
      /\ task[i].at = "cancel" /\ Busy(i) /\ Waiting(i) /\ TaskTrue(i)
      /\ UNCHANGED <<durableVars, daemon, current, phase, rec, restoring, faults>>
  BY DEF ControllerInv, TypeOK, CancelPredecessor, Busy, Waiting, TasksTrue
<1>2. p \in Ops /\ p < i  BY <1>1 DEF TaskTrue
<1>3. /\ task' \in [Ops -> Task]
      /\ \A j \in Ops : /\ task'[j].at = IF j = i THEN "wait" ELSE task[j].at
                        /\ task'[j].todo = task[j].todo /\ task'[j].sel = task[j].sel
                        /\ task'[j].errs = task[j].errs /\ task'[j].then = task[j].then
                        /\ task'[j].fail = task[j].fail /\ task'[j].pred = task[j].pred
  <2>. DEFINE t == [task[i] EXCEPT !.at = "wait"]
              u == [task[p] EXCEPT !.cancelled = TRUE]
  <2>1. task[i] \in Task /\ task[p] \in Task /\ p # i  BY <1>1, <1>2 DEF Ops
  <2>2. t \in Task /\ u \in Task  BY <2>1 DEF Task, Stages
  <2>3. /\ t.at = "wait" /\ t.todo = task[i].todo /\ t.sel = task[i].sel /\ t.errs = task[i].errs
        /\ t.then = task[i].then /\ t.fail = task[i].fail /\ t.pred = task[i].pred
    BY <2>1 DEF Task
  <2>4. /\ u.at = task[p].at /\ u.todo = task[p].todo /\ u.sel = task[p].sel
        /\ u.errs = task[p].errs /\ u.then = task[p].then /\ u.fail = task[p].fail
        /\ u.pred = task[p].pred
    BY <2>1 DEF Task
  <2>5. task' = [task EXCEPT ![i] = t, ![p] = u]
    BY <1>1, <2>1 DEF CancelPredecessor
  <2>. HIDE DEF t, u
  <2>6. /\ task' \in [Ops -> Task] /\ task'[i] = t /\ task'[p] = u
        /\ \A j \in Ops \ {i, p} : task'[j] = task[j]
    BY <1>1, <1>2, <2>1, <2>2, <2>5
  <2>. QED  BY <2>1, <2>3, <2>4, <2>6
<1>4. /\ running' \in [Instances -> Runtime]
      /\ \A k \in Instances : (Present(k)' = Present(k)) /\ (running[k].st = "left" => running'[k].st = "left")
                               /\ (running'[k].st = "live" => running[k].st = "live")
  <2>1. \A k \in Instances : [running[k] EXCEPT !.st = "dead"] \in Runtime
                             /\ [running[k] EXCEPT !.st = "dead"].st = "dead"
    BY <1>1 DEF Runtime
  <2>. QED  BY <1>1, <2>1 DEF CancelPredecessor, Present
<1>5. TypeOK'  BY <1>1, <1>3, <1>4 DEF TypeOK, durableVars
<1>6. \A j \in Ops : /\ Busy(j)' = Busy(j) /\ Waiting(j)' = Waiting(j) /\ Act(j)' = Act(j)
                     /\ task'[j].pred = task[j].pred
                     /\ (task'[j].at # "none") = (task[j].at # "none")
  BY <1>1, <1>3 DEF Busy, Waiting, Act, durableVars
<1>7. TasksTrue'  BY <1>1, <1>3, <1>6 DEF ControllerInv, TasksTrue, TaskTrue, StopStages
<1>8. JournalTrue'  BY <1>1, <1>6 DEF ControllerInv, JournalTrue, durableVars
<1>9. Line'  BY <1>1, <1>6, LineStands DEF ControllerInv, TypeOK
<1>10. Quiet'  BY <1>1 DEF ControllerInv, Quiet
<1>11. SelectionTrue' /\ LeavingTrue'
  BY <1>1, <1>4 DEF ControllerInv, SelectionTrue, LeavingTrue, durableVars
<1>12. StoppingTrue'
  <2>. SUFFICES ASSUME NEW j \in Ops PROVE TaskStops(j)'  BY DEF StoppingTrue
  <2>1. TaskStops(j) /\ TaskTrue(j)  BY DEF ControllerInv, StoppingTrue, TasksTrue
  <2>2. CASE task[j].at \in {"join", "get", "close"}
    <3>1. PICK k \in Instances : k = First(task[j].todo)
      BY <1>1, <2>1, <2>2, FirstIn DEF TaskTrue, StopStages, Task
    <3>2. task'[j].at = task[j].at /\ task'[j].todo = task[j].todo  BY <1>1, <1>3, <2>2
    <3>3. /\ Joins(k) => Joins(k)'
          /\ Closes(k) => Closes(k)'
      BY <1>1, <1>4 DEF Joins, Closes, Recovering
    <3>. QED  BY <2>1, <3>1, <3>2, <3>3 DEF TaskStops
  <2>3. CASE task[j].at \notin {"join", "get", "close"}
    BY <1>3, <2>3 DEF TaskStops
  <2>. QED  BY <2>2, <2>3
<1>13. EnrollTrue'
  BY <1>1, <1>4, <1>6 DEF ControllerInv, EnrollTrue, durableVars
<1>14. \A j \in Ops : \A k \in Instances :
         (EndsStart(j, k) => EndsStart(j, k)') /\ (Ends(j, k) => Ends(j, k)')
  BY <1>1, <1>3, <1>6 DEF EndsStart, Ends, StopsOrResets, StopStages
<1>15. StartsTrue'
  BY <1>1, <1>14 DEF ControllerInv, StartsTrue, Starting, durableVars
<1>16. RuntimesTrue'
  <2>. SUFFICES ASSUME daemon = "up", NEW k \in Instances, k \notin wanted, Present(k)
               PROVE  Accounted(k)'
    BY <1>1, <1>4 DEF RuntimesTrue, durableVars
  <2>1. Accounted(k)  BY DEF ControllerInv, RuntimesTrue
  <2>2. (Shown(k) => Shown(k)') /\ ResetFailed' = ResetFailed
    BY <1>1, <1>4, <1>6 DEF Shown, ResetFailed, durableVars
  <2>. QED  BY <1>14, <2>1, <2>2 DEF Accounted
<1>. QED
  BY <1>5, <1>7, <1>8, <1>9, <1>10, <1>11, <1>12, <1>13, <1>15, <1>16 DEF ControllerInv

LEMMA WaitKeeps ==
  ASSUME ControllerInv, NEW i \in Ops, Wait(i)
  PROVE  ControllerInv'
<1>1. /\ TypeOK /\ task \in [Ops -> Task] /\ task[i].at = "wait"
      /\ Busy(i) /\ Waiting(i) /\ TaskTrue(i) /\ task[task[i].pred].at = "done"
      /\ UNCHANGED <<durableVars, daemon, current, running, phase, rec, restoring, faults>>
  BY DEF ControllerInv, TypeOK, Wait, Busy, Waiting, TasksTrue
<1>2. task[i].pred \in Ops /\ ~Busy(task[i].pred)  BY <1>1 DEF TaskTrue, Busy
<1>3. /\ task' \in [Ops -> Task] /\ Carries(task'[i], task[i]) /\ task'[i].at = "begin"
      /\ \A j \in Ops \ {i} : task'[j] = task[j]
  <2>. DEFINE t == [task[i] EXCEPT !.at = "begin"]
  <2>1. "begin" \in Stages  BY DEF Stages
  <2>2. Carries(t, task[i]) /\ t.at = "begin"  BY <1>1, <2>1, Moves
  <2>3. task' = [task EXCEPT ![i] = t]  BY DEF Wait, Goto, Step
  <2>. HIDE DEF t
  <2>. QED  BY <1>1, <2>2, <2>3 DEF Carries
<1>4. TypeOK'  BY <1>1, <1>3 DEF TypeOK, durableVars
<1>5. /\ \A j \in Ops : /\ Busy(j)' = Busy(j) /\ Act(j)' = Act(j) /\ task'[j].pred = task[j].pred
                        /\ (task'[j].at # "none") = (task[j].at # "none")
      /\ ~Waiting(i)' /\ \A j \in Ops \ {i} : Waiting(j)' = Waiting(j)
  BY <1>1, <1>3 DEF Busy, Waiting, Act, durableVars, Carries
<1>6. TasksTrue'  BY <1>1, <1>3 DEF ControllerInv, TasksTrue, TaskTrue, StopStages, Waiting
<1>7. JournalTrue'  BY <1>1, <1>5 DEF ControllerInv, JournalTrue, durableVars
<1>8. \A j \in Ops : j < i => ~Busy(j)  BY <1>1, <1>2 DEF ControllerInv, Line
<1>9. Line'
  <2>1. \A a, b \in Ops : a < b /\ Busy(a)' /\ Busy(b)' => Waiting(b)'
    BY <1>5, <1>8 DEF ControllerInv, Line
  <2>2. ASSUME NEW b \in Ops, Waiting(b)', NEW a \in Ops, a < b, Busy(a)'
        PROVE  a <= task'[b].pred /\ Busy(task[b].pred)'
    <3>1. Waiting(b) /\ Busy(a) /\ task[b].pred \in Ops
      BY <1>5, <2>2 DEF ControllerInv, TasksTrue, TaskTrue
    <3>2. a <= task[b].pred /\ Busy(task[b].pred)
      BY <2>2, <3>1 DEF ControllerInv, Line
    <3>. QED  BY <1>5, <2>2, <3>1, <3>2
  <2>3. \A a \in Ops : Busy(a)' => a <= current'
    BY <1>1, <1>5 DEF ControllerInv, Line
  <2>4. current' # 0 => Busy(current)'
    BY <1>1, <1>5 DEF ControllerInv, Line, TypeOK, Ops
  <2>. QED  BY <2>1, <2>2, <2>3, <2>4 DEF Line, Busy
<1>10. Quiet'  BY <1>1 DEF ControllerInv, Quiet
<1>11. SelectionTrue' /\ LeavingTrue'
  BY <1>1 DEF ControllerInv, SelectionTrue, LeavingTrue, durableVars
<1>12. StoppingTrue'
  BY <1>1, <1>3 DEF ControllerInv, StoppingTrue, TaskStops, Joins, Closes, Recovering, Present
<1>13. EnrollTrue'
  BY <1>1, <1>5 DEF ControllerInv, EnrollTrue, durableVars, Present
<1>14. \A j \in Ops : \A k \in Instances :
         (EndsStart(j, k) => EndsStart(j, k)') /\ (Ends(j, k) => Ends(j, k)')
  <2>1. \A j \in Ops \ {i} : \A k \in Instances :
         (EndsStart(j, k) => EndsStart(j, k)') /\ (Ends(j, k) => Ends(j, k)')
    BY <1>3, <1>5 DEF EndsStart, Ends, StopsOrResets
  <2>2. \A k \in Instances :
         (EndsStart(i, k) => EndsStart(i, k)') /\ (Ends(i, k) => Ends(i, k)')
    BY <1>1, <1>3, <1>5 DEF EndsStart, Ends, StopsOrResets, StopStages, Carries
  <2>. QED  BY <2>1, <2>2
<1>15. StartsTrue'
  BY <1>1, <1>14 DEF ControllerInv, StartsTrue, Starting, durableVars
<1>16. RuntimesTrue'
  <2>. SUFFICES ASSUME daemon = "up", NEW k \in Instances, k \notin wanted, Present(k)
               PROVE  Accounted(k)'
    BY <1>1 DEF RuntimesTrue, durableVars, Present
  <2>1. Accounted(k)  BY DEF ControllerInv, RuntimesTrue
  <2>2. Shown(k)' = Shown(k) /\ ResetFailed' = ResetFailed
    BY <1>1, <1>5 DEF Shown, ResetFailed, durableVars
  <2>. QED  BY <1>14, <2>1, <2>2 DEF Accounted
<1>. QED
  BY <1>4, <1>6, <1>7, <1>9, <1>10, <1>11, <1>12, <1>13, <1>15, <1>16 DEF ControllerInv

(* The task of an operation that ends was the first of those under way, so *)
(* no one waits any more for a task before it.                             *)
LEMMA SaveKeeps ==
  ASSUME ControllerInv, NEW i \in Ops, Save(i)
  PROVE  ControllerInv'
<1>. DEFINE status == IF task[i].errs = {} /\ ~task[i].fail THEN "succeeded" ELSE "failed"
<1>1. /\ TypeOK /\ task \in [Ops -> Task] /\ journal \in [Ops -> Journal] /\ task[i].at = "save"
      /\ Busy(i) /\ ~Waiting(i)
      /\ UNCHANGED <<wanted, selection, daemon, running, phase, rec, restoring, faults>>
      /\ current' = (IF current = i THEN 0 ELSE current)
      /\ journal' = [journal EXCEPT ![i].status = status]
  BY DEF ControllerInv, TypeOK, Save, Busy, Waiting
<1>2. /\ task' \in [Ops -> Task] /\ task'[i].at = "done"
      /\ \A j \in Ops \ {i} : task'[j] = task[j]
  <2>. DEFINE t == [NoTask EXCEPT !.at = "done"]
  <2>1. t \in Task /\ t.at = "done"  BY NoTaskIsOne DEF Task, Stages
  <2>2. task' = [task EXCEPT ![i] = t]  BY DEF Save, Step
  <2>. HIDE DEF t
  <2>. QED  BY <1>1, <2>1, <2>2
<1>3. /\ journal' \in [Ops -> Journal] /\ journal'[i].status = status
      /\ \A j \in Ops : /\ journal'[j].act = journal[j].act
                        /\ j # i => journal'[j] = journal[j]
  <2>. DEFINE r == [journal[i] EXCEPT !.status = status]
  <2>1. status \in Statuses  BY DEF Statuses
  <2>2. r \in Journal /\ r.status = status /\ r.act = journal[i].act
    BY <1>1, <2>1 DEF Journal
  <2>3. journal' = [journal EXCEPT ![i] = r]  BY <1>1
  <2>. HIDE DEF r
  <2>. QED  BY <1>1, <2>2, <2>3
<1>4. TypeOK'
  <2>1. current' \in 0..MaxOps  BY <1>1, BoundsAssumption DEF TypeOK
  <2>. QED  BY <1>1, <1>2, <1>3, <2>1 DEF TypeOK
<1>5. /\ ~Busy(i)' /\ ~Waiting(i)'
      /\ \A j \in Ops \ {i} : Busy(j)' = Busy(j) /\ Waiting(j)' = Waiting(j)
      /\ \A j \in Ops : Act(j)' = Act(j)
  BY <1>2, <1>3 DEF Busy, Waiting, Act
<1>6. TasksTrue'
  BY <1>1, <1>2, <1>5 DEF ControllerInv, TasksTrue, TaskTrue, StopStages, Waiting
<1>7. JournalTrue'
  BY <1>1, <1>2, <1>3, <1>5 DEF ControllerInv, JournalTrue
<1>8. \A j \in Ops : j < i => ~Busy(j)  BY <1>1 DEF ControllerInv, Line
<1>9. Line'
  <2>1. \A a, b \in Ops : a < b /\ Busy(a)' /\ Busy(b)' => Waiting(b)'
    BY <1>5 DEF ControllerInv, Line
  <2>2. ASSUME NEW b \in Ops, Waiting(b)', NEW a \in Ops, a < b, Busy(a)'
        PROVE  a <= task'[b].pred /\ Busy(task[b].pred)'
    <3>1. b # i /\ a # i /\ Waiting(b) /\ Busy(a) /\ task[b].pred \in Ops
      BY <1>5, <2>2 DEF ControllerInv, TasksTrue, TaskTrue
    <3>2. a <= task[b].pred /\ Busy(task[b].pred) /\ task'[b].pred = task[b].pred
      BY <1>2, <2>2, <3>1 DEF ControllerInv, Line
    <3>3. i < a  BY <1>8, <3>1 DEF Ops
    <3>4. task[b].pred # i  BY <3>1, <3>2, <3>3 DEF Ops
    <3>. QED  BY <1>5, <2>2, <3>1, <3>2, <3>4
  <2>3. ASSUME NEW a \in Ops, Busy(a)' PROVE a <= current'
    <3>1. a # i /\ Busy(a) /\ a <= current /\ i < a
      BY <1>5, <1>8, <2>3 DEF ControllerInv, Line, Ops
    <3>. QED  BY <1>1, <3>1 DEF Ops, TypeOK
  <2>4. current' # 0 => Busy(current)'
    BY <1>1, <1>5 DEF ControllerInv, Line, TypeOK, Ops
  <2>. QED  BY <2>1, <2>2, <2>3, <2>4 DEF Line, Busy
<1>10. Quiet'  BY <1>1 DEF ControllerInv, Quiet
<1>11. SelectionTrue' /\ LeavingTrue'
  BY <1>1 DEF ControllerInv, SelectionTrue, LeavingTrue
<1>12. StoppingTrue'
  <2>1. TaskStops(i)'  BY <1>2 DEF TaskStops
  <2>. QED
    BY <1>1, <1>2, <2>1 DEF ControllerInv, StoppingTrue, TaskStops, Joins, Closes, Recovering, Present
<1>13. EnrollTrue'
  BY <1>1, <1>5 DEF ControllerInv, EnrollTrue, Present
<1>14. \A j \in Ops \ {i} : \A k \in Instances :
         (EndsStart(j, k) => EndsStart(j, k)') /\ (Ends(j, k) => Ends(j, k)')
  BY <1>2, <1>5 DEF EndsStart, Ends, StopsOrResets
<1>15. \A k \in Instances : ~EndsStart(i, k) /\ (Ends(i, k) => ResetFailed')
  <2>1. \A k \in Instances : ~EndsStart(i, k)  BY <1>1 DEF EndsStart, StopStages
  <2>2. ASSUME NEW k \in Instances, Ends(i, k) PROVE ResetFailed'
    <3>1. Act(i) = "reset" /\ (task[i].fail \/ task[i].errs # {})
      BY <1>1, <2>2 DEF Ends, StopStages
    <3>. QED  BY <1>3, <1>5, <3>1 DEF ResetFailed
  <2>. QED  BY <2>1, <2>2
<1>16. ResetFailed => ResetFailed'
  BY <1>1, <1>3, <1>5 DEF ResetFailed, ControllerInv, JournalTrue
<1>17. StartsTrue'
  <2>. SUFFICES ASSUME NEW k \in Instances, k \notin wanted, Starting(k)
               PROVE  \E j \in Ops : EndsStart(j, k)'
    BY <1>1 DEF StartsTrue, Starting
  <2>. QED  BY <1>14, <1>15 DEF ControllerInv, StartsTrue
<1>18. RuntimesTrue'
  <2>. SUFFICES ASSUME daemon = "up", NEW k \in Instances, k \notin wanted, Present(k)
               PROVE  Accounted(k)'
    BY <1>1 DEF RuntimesTrue, Present
  <2>1. Accounted(k)  BY DEF ControllerInv, RuntimesTrue
  <2>2. Shown(k)' = Shown(k)  BY <1>1 DEF Shown
  <2>. QED  BY <1>14, <1>15, <1>16, <2>1, <2>2 DEF Accounted
<1>. QED
  BY <1>4, <1>6, <1>7, <1>9, <1>10, <1>11, <1>12, <1>13, <1>17, <1>18 DEF ControllerInv

(* What an entry of the journal asks for.                                  *)
Request == [act : Actions \cup {"none"}, tgt : Instances \cup {WholeFleet}]
Selection == [saved : BOOLEAN, keys : SUBSET Instances]

(* What a Stop saves for a later start: what was enabled, its own target   *)
(* and nothing else taken from what was saved before.                      *)
LEMMA SavedSelection ==
  ASSUME selection \in Selection, SelectionTrue, NEW r \in Request, NEW enabled \in SUBSET Instances
  PROVE  LET s == SaveSelection(r, enabled) IN
         /\ s \in Selection /\ (~s.saved => s.keys = {})
         /\ \A k \in selection.keys : k \in s.keys \/ enabled # {} \/ k = r.tgt
         /\ r.act = "stop" => \A k \in enabled : k \in s.keys \/ k = r.tgt
<1>. DEFINE s == SaveSelection(r, enabled)
<1>1. CASE r.act # "stop" \/ (r.tgt = WholeFleet /\ enabled = {} /\ selection.saved)
  <2>1. s = selection  BY <1>1 DEF SaveSelection, SavedByStop
  <2>. QED  BY <1>1, <2>1 DEF SelectionTrue
<1>2. CASE r.act = "stop" /\ r.tgt = WholeFleet /\ ~(enabled = {} /\ selection.saved)
  <2>1. s = [saved |-> TRUE, keys |-> enabled]  BY <1>2 DEF SaveSelection, SavedByStop
  <2>2. s \in Selection /\ s.saved = TRUE /\ s.keys = enabled  BY <2>1 DEF Selection
  <2>. QED  BY <1>2, <2>2 DEF SelectionTrue
<1>3. CASE r.act = "stop" /\ r.tgt # WholeFleet
  <2>1. s = [saved |-> TRUE, keys |-> (selection.keys \cup enabled) \ {r.tgt}]
    BY <1>3 DEF SaveSelection, SavedByStop
  <2>2. selection.keys \in SUBSET Instances  BY DEF Selection
  <2>3. s \in Selection /\ s.saved = TRUE /\ s.keys = (selection.keys \cup enabled) \ {r.tgt}
    BY <2>1, <2>2 DEF Selection
  <2>. QED  BY <2>3
<1>. QED  BY <1>1, <1>2, <1>3

LEMMA ChosenOnes ==
  ASSUME TypeOK, NEW r \in Request
  PROVE  Chosen(r) \in SUBSET Instances
<1>1. Targets(r.tgt) \in SUBSET Instances  BY DEF Request, Targets, WholeFleet
<1>2. Select \in SUBSET Instances  BY DEF TypeOK, Select
<1>. QED  BY <1>1, <1>2 DEF Chosen

LEMMA AcceptKeeps ==
  ASSUME ControllerInv, NEW i \in Ops, NEW r \in Requests, Accept(i, r)
  PROVE  ControllerInv'
<1>1. /\ TypeOK /\ task \in [Ops -> Task] /\ journal \in [Ops -> Journal] /\ daemon = "up"
      /\ selection \in Selection /\ wanted \subseteq Instances /\ current \in 0..MaxOps
      /\ journal[i].status = "none"
      /\ UNCHANGED <<daemon, running, phase, rec, restoring, faults>>
      /\ current' = i /\ r \in Request
  BY RequestsAssumption
  DEF ControllerInv, TypeOK, Accept, Fresh, Admissible, Selection, Request
<1>2. /\ task[i].at = "none" /\ ~Busy(i)
      /\ \A j \in Ops : j > i => journal[j].status = "none" /\ ~Busy(j)
  BY <1>1 DEF ControllerInv, JournalTrue, Busy, Ops
<1>3. \A j \in Ops : Busy(j) => j < i  BY <1>2 DEF Ops
<1>4. Chosen(r) \in SUBSET Instances  BY <1>1, ChosenOnes
<1>5. /\ task' \in [Ops -> Task]
      /\ task'[i].at = (IF current = 0 THEN "begin" ELSE "cancel")
      /\ task'[i].sel = Chosen(r) /\ task'[i].pred = current
      /\ \A j \in Ops \ {i} : task'[j] = task[j]
  <2>. DEFINE sel == Chosen(r)
              at == IF current = 0 THEN "begin" ELSE "cancel"
              t == [NoTask EXCEPT !.at = at, !.sel = sel, !.pred = current]
  <2>1. at \in Stages  BY DEF Stages
  <2>2. task' = [task EXCEPT ![i] = t]  BY DEF Accept, Step
  <2>3. t \in Task /\ t.at = at /\ t.sel = sel /\ t.pred = current
    <3>. HIDE DEF at, sel
    <3>. QED  BY <1>1, <1>4, <2>1, NoTaskIsOne DEF Task, sel
  <2>. HIDE DEF t
  <2>. QED  BY <1>1, <2>2, <2>3
<1>6. /\ journal' \in [Ops -> Journal] /\ journal'[i].status = "accepted"
      /\ journal'[i].act = r.act
      /\ \A j \in Ops \ {i} : journal'[j] = journal[j]
  <2>. DEFINE e == [act |-> r.act, tgt |-> r.tgt, status |-> "accepted"]
  <2>1. e \in Journal /\ e.status = "accepted" /\ e.act = r.act
    BY <1>1 DEF Journal, Request, Statuses
  <2>2. journal' = [journal EXCEPT ![i] = e]  BY DEF Accept, Writes
  <2>. HIDE DEF e
  <2>. QED  BY <1>1, <2>1, <2>2
<1>7. selection' \in Selection /\ SelectionTrue'
  <2>1. selection' = SaveSelection(r, wanted)  BY DEF Accept, Writes
  <2>. QED  BY <1>1, <2>1, SavedSelection DEF ControllerInv, SelectionTrue
<1>8. wanted' = (IF r.act \in {"stop", "reset"} THEN wanted \ Chosen(r) ELSE wanted)
  BY DEF Accept, Writes, Disabled
<1>9. TypeOK'
  <2>1. current' \in 0..MaxOps  BY <1>1 DEF Ops
  <2>. QED  BY <1>1, <1>5, <1>6, <1>7, <1>8, <2>1 DEF TypeOK, Selection
<1>10. /\ Busy(i)' /\ (Waiting(i)' <=> current # 0)
       /\ \A j \in Ops \ {i} : Busy(j)' = Busy(j) /\ Waiting(j)' = Waiting(j) /\ Act(j)' = Act(j)
       /\ Act(i)' = r.act
  BY <1>5, <1>6 DEF Busy, Waiting, Act
<1>11. current # 0 => current \in Ops /\ current < i /\ Busy(current)
  BY <1>1, <1>3 DEF ControllerInv, Line, Ops
<1>12. TasksTrue'
  <2>1. TaskTrue(i)'  BY <1>5, <1>10, <1>11 DEF TaskTrue, StopStages, Waiting
  <2>2. \A j \in Ops \ {i} : TaskTrue(j)'
    BY <1>5, <1>10 DEF ControllerInv, TasksTrue, TaskTrue
  <2>. QED  BY <2>1, <2>2 DEF TasksTrue
<1>13. JournalTrue'
  <2>1. \A j \in Ops : j < i => journal[j].status # "none"  BY DEF Accept, Fresh
  <2>. QED
    BY <1>1, <1>2, <1>5, <1>6, <1>10, <2>1 DEF ControllerInv, JournalTrue
<1>14. Line'
  <2>1. \A a, b \in Ops : a < b /\ Busy(a)' /\ Busy(b)' => Waiting(b)'
    <3>. SUFFICES ASSUME NEW a \in Ops, NEW b \in Ops, a < b, Busy(a)', Busy(b)'
                 PROVE  Waiting(b)'
      OBVIOUS
    <3>1. a # i  BY <1>2, <1>10 DEF Ops
    <3>2. CASE b = i
      <4>1. a <= current  BY <1>10, <3>1 DEF ControllerInv, Line
      <4>. QED  BY <1>1, <1>10, <3>2, <4>1 DEF Ops
    <3>3. CASE b # i  BY <1>10, <3>1, <3>3 DEF ControllerInv, Line
    <3>. QED  BY <3>2, <3>3
  <2>2. ASSUME NEW b \in Ops, Waiting(b)', NEW a \in Ops, a < b, Busy(a)'
        PROVE  a <= task'[b].pred /\ Busy(task[b].pred)'
    <3>0. a # i
      BY <1>2, <1>10, <2>2 DEF Waiting, Busy, Ops
    <3>1. CASE b = i
      <4>1. current # 0 /\ a <= current  BY <1>10, <2>2, <3>0, <3>1 DEF ControllerInv, Line
      <4>2. PICK p \in Ops : p = current  BY <1>11, <4>1
      <4>3. p # i /\ Busy(p) /\ Busy(p)'  BY <1>10, <1>11, <4>1, <4>2 DEF Ops
      <4>4. task'[b].pred = p /\ task[b]' = task'[b]  BY <1>5, <3>1, <4>2
      <4>5. a <= p /\ task'[p].at \notin {"none", "done"}  BY <4>1, <4>2, <4>3 DEF Busy
      <4>. QED  BY <4>4, <4>5 DEF Busy
    <3>2. CASE b # i
      <4>1. Waiting(b) /\ Busy(a) /\ task[b].pred \in Ops /\ task'[b].pred = task[b].pred
        BY <1>5, <1>10, <2>2, <3>0, <3>2 DEF ControllerInv, TasksTrue, TaskTrue
      <4>2. a <= task[b].pred /\ Busy(task[b].pred)
        BY <2>2, <4>1 DEF ControllerInv, Line
      <4>3. task[b].pred # i  BY <1>2, <4>2
      <4>. QED  BY <1>10, <4>1, <4>2, <4>3 DEF Busy
    <3>. QED  BY <3>1, <3>2
  <2>3. \A a \in Ops : Busy(a)' => a <= current'
    BY <1>1, <1>3, <1>10 DEF Ops
  <2>4. current' # 0 => Busy(current)'
    BY <1>1, <1>10 DEF Busy
  <2>. QED  BY <2>1, <2>2, <2>3, <2>4 DEF Line, Busy
<1>15. Quiet'  BY <1>1 DEF Quiet
<1>16. LeavingTrue'  BY <1>1 DEF ControllerInv, LeavingTrue
<1>17. StoppingTrue'
  <2>1. TaskStops(i)'  BY <1>5 DEF TaskStops
  <2>. QED
    BY <1>1, <1>5, <2>1 DEF ControllerInv, StoppingTrue, TaskStops, Joins, Closes, Recovering, Present
<1>18. EnrollTrue'
  <2>. SUFFICES ASSUME NEW j \in Ops, Busy(j)', Act(j)' = "enroll"
               PROVE  (~Waiting(j) /\ wanted = {} /\ \A k \in Instances : ~Present(k))'
    BY DEF EnrollTrue
  <2>1. CASE j = i
    <3>1. ~Executing  BY <1>10, <2>1 DEF Accept, Admissible
    <3>. QED  BY <1>1, <1>8, <1>10, <2>1, <3>1 DEF Executing, Present
  <2>2. CASE j # i
    BY <1>1, <1>8, <1>10, <2>2 DEF ControllerInv, EnrollTrue, Present
  <2>. QED  BY <2>1, <2>2
<1>19. \A j \in Ops : \A k \in Instances :
         (EndsStart(j, k) => EndsStart(j, k)') /\ (Ends(j, k) => Ends(j, k)')
  <2>1. \A j \in Ops \ {i} : \A k \in Instances :
         (EndsStart(j, k) => EndsStart(j, k)') /\ (Ends(j, k) => Ends(j, k)')
    BY <1>5, <1>10 DEF EndsStart, Ends, StopsOrResets
  <2>2. \A k \in Instances : ~EndsStart(i, k) /\ ~Ends(i, k)
    BY <1>2 DEF EndsStart, Ends, StopStages
  <2>. QED  BY <2>1, <2>2
<1>20. \A k \in Instances : k \in wanted /\ k \notin wanted' => EndsStart(i, k)' /\ Ends(i, k)'
  BY <1>5, <1>8, <1>10 DEF EndsStart, Ends, StopsOrResets
<1>21. ResetFailed => ResetFailed'
  BY <1>1, <1>6, <1>10 DEF ResetFailed
<1>22. StartsTrue'
  <2>. SUFFICES ASSUME NEW k \in Instances, k \notin wanted', Starting(k)
               PROVE  \E j \in Ops : EndsStart(j, k)'
    BY <1>1 DEF StartsTrue, Starting
  <2>. QED  BY <1>19, <1>20 DEF ControllerInv, StartsTrue
<1>23. RuntimesTrue'
  <2>. SUFFICES ASSUME NEW k \in Instances, k \notin wanted', Present(k)
               PROVE  Accounted(k)'
    BY <1>1 DEF RuntimesTrue, Present
  <2>1. CASE k \in wanted  BY <1>20, <2>1 DEF Accounted
  <2>2. CASE k \notin wanted
    <3>1. Accounted(k)  BY <1>1, <2>2 DEF ControllerInv, RuntimesTrue
    <3>2. Shown(k)' = Shown(k)  BY <1>1 DEF Shown
    <3>. QED  BY <1>19, <1>21, <3>1, <3>2 DEF Accounted
  <2>. QED  BY <2>1, <2>2
<1>. QED
  BY <1>7, <1>9, <1>12, <1>13, <1>14, <1>15, <1>16, <1>17, <1>18, <1>22, <1>23
  DEF ControllerInv

-----------------------------------------------------------------------------
(* The process                                                             *)

(* A state in which nothing is under way and nothing runs.                 *)
InOrder == \A i, j \in Ops : i < j /\ journal[j].status # "none" => journal[i].status # "none"
Durables == /\ wanted \subseteq Instances /\ selection \in Selection /\ SelectionTrue
            /\ journal \in [Ops -> Journal] /\ InOrder
Empty == /\ TypeOK /\ Durables /\ current = 0
         /\ \A i \in Ops : /\ task[i].at \in {"none", "done"}
                           /\ task[i].at # "none" => journal[i].status # "none"
         /\ \A k \in Instances : ~Recovering(k) /\ restoring[k] = "no" /\ ~Present(k)

LEMMA EmptyIsTrue == Empty => ControllerInv
<1>. SUFFICES ASSUME Empty PROVE ControllerInv
  OBVIOUS
<1>1. \A i \in Ops : ~Busy(i) /\ ~Waiting(i) /\ TaskTrue(i) /\ TaskStops(i)
  BY DEF Empty, Busy, Waiting, TaskTrue, TaskStops, StopStages
<1>2. TasksTrue /\ StoppingTrue /\ EnrollTrue /\ Line
  BY <1>1 DEF TasksTrue, StoppingTrue, EnrollTrue, Line, Empty
<1>3. JournalTrue  BY <1>1 DEF JournalTrue, Empty, Durables, InOrder
<1>4. Quiet  BY <1>1 DEF Quiet, Empty
<1>5. LeavingTrue /\ StartsTrue /\ RuntimesTrue
  BY DEF LeavingTrue, StartsTrue, RuntimesTrue, Empty, Recovering, Starting
<1>. QED  BY <1>2, <1>3, <1>4, <1>5 DEF ControllerInv, Empty, Durables

LEMMA EmptyNext == Empty' => ControllerInv'
BY EmptyIsTrue, PTL

LEMMA DurablesHold == ControllerInv => Durables
BY DEF ControllerInv, Durables, TypeOK, Selection, JournalTrue, InOrder

LEMMA InitTrue == Init => ControllerInv
<1>. SUFFICES ASSUME Init PROVE ControllerInv
  OBVIOUS
<1>1. journal \in [Ops -> Journal] /\ \A i \in Ops : journal[i].status = "none"
  BY DEF Init, Journal, Statuses
<1>2. task \in [Ops -> Task] /\ \A i \in Ops : task[i].at = "none"
  BY NoTaskIsOne DEF Init
<1>3. /\ running \in [Instances -> Runtime] /\ rec \in [Instances -> Recovery]
      /\ \A k \in Instances : ~Recovering(k) /\ ~Present(k)
  BY BoundsAssumption DEF Init, NoRuntime, Runtime, NoRecovery, Recovery, Recovering, Present
<1>4. TypeOK
  BY <1>1, <1>2, <1>3, BoundsAssumption DEF Init, TypeOK, Phases
<1>5. Durables  BY <1>1 DEF Init, Durables, Selection, SelectionTrue, InOrder
<1>6. Empty  BY <1>2, <1>3, <1>4, <1>5 DEF Empty, Init
<1>. QED  BY <1>6, EmptyIsTrue

LEMMA DieKeeps ==
  ASSUME Die, Durables', faults' \in 0..MaxFaults
  PROVE  ControllerInv'
<1>1. task' \in [Ops -> Task] /\ \A i \in Ops : task'[i].at = "none"
  BY NoTaskIsOne DEF Die
<1>2. /\ running' \in [Instances -> Runtime] /\ rec' \in [Instances -> Recovery]
      /\ \A k \in Instances : ~Recovering(k)' /\ ~Present(k)'
  BY BoundsAssumption DEF Die, NoRuntime, Runtime, NoRecovery, Recovery, Recovering, Present
<1>3. TypeOK'
  BY <1>1, <1>2, BoundsAssumption DEF Die, TypeOK, Phases, Durables, Selection
<1>4. Empty'  BY <1>1, <1>2, <1>3 DEF Empty, Die
<1>. QED  BY <1>4, EmptyNext

LEMMA ExitKeeps ==
  ASSUME ControllerInv, Crash \/ Exit
  PROVE  ControllerInv'
<1>1. Die /\ UNCHANGED durableVars /\ faults' \in 0..MaxFaults
  BY FaultsCount DEF Crash, Exit, ControllerInv, NoFault
<1>2. Durables'
  BY <1>1, DurablesHold DEF Durables, durableVars, SelectionTrue, InOrder
<1>. QED  BY <1>1, <1>2, DieKeeps

LEMMA CrashInAcceptKeeps ==
  ASSUME ControllerInv, NEW i \in Ops, NEW r \in Requests, CrashInAccept(i, r)
  PROVE  ControllerInv'
<1>1. /\ Durables /\ Fresh(i) /\ Die /\ faults' \in 0..MaxFaults /\ r \in Request
  BY RequestsAssumption, FaultsCount, DurablesHold DEF CrashInAccept, ControllerInv, Request
<1>2. PICK upto \in 1..2 : Writes(i, r, wanted, "accepted", upto)
  BY DEF CrashInAccept
<1>3. /\ journal' \in [Ops -> Journal] /\ journal'[i].status = "accepted"
      /\ \A j \in Ops \ {i} : journal'[j] = journal[j]
  <2>. DEFINE e == [act |-> r.act, tgt |-> r.tgt, status |-> "accepted"]
  <2>1. e \in Journal /\ e.status = "accepted"
    BY <1>1 DEF Journal, Request, Statuses
  <2>2. journal' = [journal EXCEPT ![i] = e]  BY <1>2 DEF Writes
  <2>. HIDE DEF e
  <2>. QED  BY <1>1, <2>1, <2>2 DEF Durables
<1>4. InOrder'
  <2>1. \A j \in Ops : j > i => journal[j].status = "none"
    BY <1>1 DEF Durables, InOrder, Fresh
  <2>. QED  BY <1>1, <1>3, <2>1 DEF Fresh, InOrder, Ops
<1>5. selection' \in Selection /\ SelectionTrue'
  <2>1. selection' \in {selection, SaveSelection(r, wanted)}  BY <1>2 DEF Writes
  <2>. QED  BY <1>1, <2>1, SavedSelection DEF Durables, SelectionTrue
<1>6. wanted' = wanted  BY <1>2 DEF Writes
<1>7. Durables'  BY <1>1, <1>3, <1>4, <1>5, <1>6 DEF Durables
<1>. QED  BY <1>1, <1>7, DieKeeps

(* A replay meets a process in which nothing has started yet.              *)
LEMMA ReplayKeeps ==
  ASSUME ControllerInv, NEW i \in Ops, Replay(i)
  PROVE  ControllerInv'
<1>. DEFINE r == [act |-> journal[i].act, tgt |-> journal[i].tgt]
            enabled == Enabled(journal[i].tgt)
<1>1. /\ TypeOK /\ Durables /\ daemon = "opening" /\ journal[i].status = "accepted"
      /\ UNCHANGED <<current, task, running, phase, rec, restoring>>
      /\ faults' \in 0..MaxFaults
      /\ selection' = SaveSelection(r, enabled)
      /\ wanted' \in {wanted, Disabled(r, enabled)}
      /\ journal' \in {journal, [journal EXCEPT ![i].status = "failed"]}
      /\ daemon' \in {"opening", "down"}
  BY FaultsCount, DurablesHold DEF Replay, ControllerInv
<1>2. r \in Request /\ enabled \in SUBSET Instances /\ Disabled(r, enabled) \subseteq wanted
  BY <1>1 DEF TypeOK, Journal, Request, Enabled, Disabled
<1>3. selection' \in Selection /\ SelectionTrue'
  BY <1>1, <1>2, SavedSelection DEF Durables, SelectionTrue
<1>4. /\ journal' \in [Ops -> Journal]
      /\ \A j \in Ops : (journal'[j].status = "none") = (journal[j].status = "none")
  <2>. DEFINE e == [journal[i] EXCEPT !.status = "failed"]
  <2>1. e \in Journal /\ e.status = "failed"  BY <1>1 DEF Durables, Journal, Statuses
  <2>2. journal' \in {journal, [journal EXCEPT ![i] = e]}  BY <1>1
  <2>. HIDE DEF e
  <2>. QED  BY <1>1, <2>1, <2>2 DEF Durables
<1>5. Durables'
  BY <1>1, <1>2, <1>3, <1>4 DEF Durables, InOrder
<1>6. TypeOK'
  BY <1>1, <1>5 DEF TypeOK, Durables, Selection
<1>7. Empty'
  <2>1. /\ \A j \in Ops : ~Busy(j) /\ (task[j].at # "none" => journal[j].status # "none")
        /\ \A k \in Instances : ~Recovering(k) /\ restoring[k] = "no" /\ ~Present(k)
    BY <1>1 DEF ControllerInv, Quiet, JournalTrue
  <2>2. current = 0
    <3>1. current # 0 => current \in Ops /\ Busy(current)  BY <1>1 DEF ControllerInv, Line, TypeOK, Ops
    <3>. QED  BY <2>1, <3>1
  <2>3. \A j \in Ops : /\ task'[j].at \in {"none", "done"}
                       /\ task'[j].at # "none" => journal'[j].status # "none"
    BY <1>1, <1>4, <2>1 DEF Busy
  <2>4. \A k \in Instances : ~Recovering(k)' /\ restoring'[k] = "no" /\ ~Present(k)'
    BY <1>1, <2>1 DEF Recovering, Present
  <2>. QED  BY <1>1, <1>5, <1>6, <2>2, <2>3, <2>4 DEF Empty
<1>. QED  BY <1>7, EmptyNext

(* The tasks stay where they are, and no runtime comes.                    *)
LEMMA ProcessKeeps ==
  ASSUME ControllerInv, TypeOK', Quiet', UNCHANGED <<durableVars, current>>,
         \A j \in Ops : Stands(j) /\ TaskStops(j)',
         \A k \in Instances : (Present(k)' => Present(k)) /\ Starting(k)' = Starting(k),
         LeavingTrue', RuntimesTrue'
  PROVE  ControllerInv'
<1>1. /\ TasksTrue' /\ JournalTrue' /\ Line' /\ SelectionTrue'
      /\ \A j \in Ops : /\ Busy(j)' = Busy(j) /\ Waiting(j)' = Waiting(j) /\ Act(j)' = Act(j)
                        /\ \A k \in Instances : EndsStart(j, k) => EndsStart(j, k)'
  BY TasksStand DEF durableVars
<1>2. EnrollTrue'  BY <1>1 DEF ControllerInv, EnrollTrue, durableVars
<1>3. StartsTrue'  BY <1>1 DEF ControllerInv, StartsTrue, durableVars
<1>4. StoppingTrue'  BY DEF StoppingTrue
<1>. QED  BY <1>1, <1>2, <1>3, <1>4 DEF ControllerInv

LEMMA CloseKeeps ==
  ASSUME ControllerInv, Close
  PROVE  ControllerInv'
<1>1. /\ TypeOK /\ task \in [Ops -> Task] /\ running \in [Instances -> Runtime]
      /\ rec \in [Instances -> Recovery] /\ LeavingTrue /\ StoppingTrue
      /\ daemon' = "closing" /\ UNCHANGED <<durableVars, current, phase, restoring>>
      /\ faults' \in 0..MaxFaults
  BY FaultsCount DEF ControllerInv, TypeOK, Close
<1>2. ASSUME NEW j \in Ops PROVE task'[j] \in Task /\ Stands(j) /\ task'[j].at = task[j].at
  <2>. DEFINE t == [task[j] EXCEPT !.cancelled = TRUE]
  <2>1. /\ t \in Task /\ t.at = task[j].at /\ t.todo = task[j].todo /\ t.sel = task[j].sel
        /\ t.errs = task[j].errs /\ t.then = task[j].then /\ t.fail = task[j].fail
        /\ t.pred = task[j].pred
    BY <1>1 DEF Task
  <2>2. task'[j] \in {task[j], t}  BY DEF Close
  <2>. HIDE DEF t
  <2>. QED  BY <1>1, <2>1, <2>2 DEF Stands
<1>3. ASSUME NEW k \in Instances
      PROVE  rec'[k] \in Recovery /\ rec'[k].at = rec[k].at /\ (rec[k].stop => rec'[k].stop)
  <2>. DEFINE r == [rec[k] EXCEPT !.stop = TRUE]
  <2>1. r \in Recovery /\ r.at = rec[k].at /\ r.stop  BY <1>1 DEF Recovery
  <2>2. rec'[k] \in {rec[k], r}  BY DEF Close
  <2>. HIDE DEF r
  <2>. QED  BY <1>1, <2>1, <2>2
<1>4. ASSUME NEW k \in Instances
      PROVE  /\ running'[k] \in Runtime /\ Present(k)' = Present(k)
             /\ running[k].st = "left" => running'[k].st = "left"
  <2>. DEFINE r == [running[k] EXCEPT !.st = "dead"]
  <2>1. r \in Runtime /\ r.st = "dead"  BY <1>1 DEF Runtime
  <2>2. running'[k] = IF running[k].st = "live" THEN r ELSE running[k]  BY DEF Close
  <2>. HIDE DEF r
  <2>. QED  BY <1>1, <2>1, <2>2 DEF Present
<1>5. TypeOK'
  <2>1. task' \in [Ops -> Task]  BY <1>2 DEF Close
  <2>2. rec' \in [Instances -> Recovery]  BY <1>3 DEF Close
  <2>3. running' \in [Instances -> Runtime]  BY <1>4 DEF Close
  <2>. QED  BY <1>1, <2>1, <2>2, <2>3 DEF TypeOK, durableVars
<1>6. Quiet' /\ RuntimesTrue'  BY <1>1 DEF Quiet, RuntimesTrue
<1>7. LeavingTrue'  BY <1>1, <1>3, <1>4 DEF LeavingTrue
<1>8. \A k \in Instances : /\ Starting(k)' = Starting(k)
                           /\ (Joins(k) => Joins(k)') /\ (Closes(k) => Closes(k)')
  BY <1>1, <1>3, <1>4 DEF Starting, Joins, Closes, Recovering
<1>9. ASSUME NEW j \in Ops PROVE TaskStops(j)'
  <2>1. task'[j].at = task[j].at /\ task'[j].todo = task[j].todo  BY <1>2 DEF Stands
  <2>2. task[j].at \in StopStages => task[j].todo # {} /\ task[j].todo \in SUBSET Instances
    BY <1>1 DEF ControllerInv, TasksTrue, TaskTrue, Task
  <2>3. CASE task[j].at \in StopStages
    <3>1. PICK k \in Instances : k = First(task[j].todo)  BY <2>2, <2>3, FirstIn
    <3>2. k = First(task'[j].todo)  BY <2>1, <3>1
    <3>. QED  BY <1>1, <1>8, <2>1, <3>1, <3>2 DEF StoppingTrue, TaskStops
  <2>4. CASE task[j].at \notin StopStages  BY <2>1, <2>4 DEF TaskStops, StopStages
  <2>. QED  BY <2>3, <2>4
<1>. QED  BY <1>1, <1>2, <1>4, <1>5, <1>6, <1>7, <1>8, <1>9, ProcessKeeps

LEMMA ProcessStepsKeep ==
  ASSUME ControllerInv, CloseWaits \/ CloseRuntimes \/ CloseAgain \/ Open \/ Serve \/ UNCHANGED vars
  PROVE  ControllerInv'
<1>1. /\ TypeOK /\ task \in [Ops -> Task] /\ running \in [Instances -> Runtime]
      /\ LeavingTrue /\ StoppingTrue /\ Quiet
      /\ UNCHANGED <<durableVars, current, task, rec>>
  BY DEF ControllerInv, TypeOK, CloseWaits, CloseRuntimes, CloseAgain, Open, Serve, vars
<1>2. \A j \in Ops : Stands(j) /\ task'[j].at = task[j].at  BY <1>1 DEF Stands
<1>3. \A k \in Instances : Starting(k)' = Starting(k) /\ Recovering(k)' = Recovering(k)
  BY <1>1 DEF Starting, Recovering
<1>4. CASE UNCHANGED vars
  <2>. QED
    BY <1>1, <1>2, <1>4 DEF vars, durableVars, ControllerInv, TypeOK, TasksTrue, TaskTrue, JournalTrue,
       Line, Quiet, SelectionTrue, LeavingTrue, StoppingTrue, EnrollTrue, StartsTrue, RuntimesTrue,
       Busy, Waiting, Recovering, Present, TaskStops, Joins, Closes, Act, Starting, EndsStart,
       StopsOrResets, Accounted, Shown, Ends, ResetFailed
<1>5. CASE CloseWaits \/ CloseAgain \/ Open
  <2>1. /\ UNCHANGED <<running, phase, restoring, faults>>
        /\ daemon' \in {"drain", "closing", "opening"}
    BY <1>5 DEF CloseWaits, CloseAgain, Open
  <2>2. Quiet'  BY <1>1, <1>3, <1>5, <2>1 DEF CloseWaits, CloseAgain, Open, Quiet, Busy, Present
  <2>3. TypeOK'  BY <1>1, <2>1 DEF TypeOK, durableVars
  <2>4. RuntimesTrue'  BY <2>1 DEF RuntimesTrue
  <2>5. \A j \in Ops : TaskStops(j)'
    BY <1>1, <2>1 DEF StoppingTrue, TaskStops, Joins, Closes, Recovering, Present
  <2>6. LeavingTrue' /\ \A k \in Instances : Present(k)' = Present(k)
    BY <1>1, <2>1 DEF LeavingTrue, Present
  <2>. QED  BY <1>1, <1>2, <1>3, <2>2, <2>3, <2>4, <2>5, <2>6, ProcessKeeps
<1>6. CASE CloseRuntimes
  <2>1. /\ UNCHANGED <<phase, restoring>> /\ daemon = "drain"
        /\ daemon' \in {"off", "unclosed"} /\ faults' \in 0..MaxFaults
    BY <1>1, <1>6, FaultsCount DEF CloseRuntimes
  <2>2. /\ running' \in [Instances -> Runtime]
        /\ \A k \in Instances : (Present(k)' => Present(k)) /\ (daemon' = "off" => ~Present(k)')
    <3>1. NoRuntime \in Runtime /\ NoRuntime.st = "none"
      BY BoundsAssumption DEF NoRuntime, Runtime
    <3>. QED  BY <1>1, <1>6, <3>1 DEF CloseRuntimes, Present
  <2>3. Quiet'  BY <1>1, <1>3, <2>1, <2>2 DEF Quiet, Busy
  <2>4. TypeOK'  BY <1>1, <2>1, <2>2 DEF TypeOK, durableVars
  <2>5. RuntimesTrue'  BY <2>1 DEF RuntimesTrue
  <2>6. (\A j \in Ops : TaskStops(j)') /\ LeavingTrue'
    BY <1>1, <1>2, <1>3, <2>1 DEF Quiet, Busy, TaskStops, LeavingTrue, Recovering
  <2>. QED  BY <1>1, <1>2, <1>3, <2>2, <2>3, <2>4, <2>5, <2>6, ProcessKeeps
<1>7. CASE Serve
  <2>1. /\ UNCHANGED <<running, faults>> /\ daemon = "opening" /\ daemon' = "up"
        /\ phase' \in [Instances -> Phases]
        /\ restoring' \in [Instances -> {"no", "call", "await"}]
    BY <1>7 DEF Serve, Phases
  <2>2. Quiet'  BY <2>1 DEF Quiet
  <2>3. TypeOK'  BY <1>1, <2>1 DEF TypeOK, durableVars
  <2>4. \A k \in Instances : Present(k)' = Present(k) /\ ~Present(k)
    BY <1>1, <2>1 DEF Quiet, Present
  <2>5. RuntimesTrue'  BY <2>4 DEF RuntimesTrue
  <2>6. (\A j \in Ops : TaskStops(j)') /\ LeavingTrue'
    BY <1>1, <1>2, <1>3, <2>1 DEF Quiet, Busy, TaskStops, LeavingTrue, Recovering
  <2>. QED  BY <1>1, <1>2, <1>3, <2>2, <2>3, <2>4, <2>5, <2>6, ProcessKeeps
<1>. QED  BY <1>4, <1>5, <1>6, <1>7

-----------------------------------------------------------------------------
LEMMA TaskStepKeeps ==
  ASSUME ControllerInv, NEW i \in Ops, TaskStep(i) \/ AskApproval(i)
  PROVE  ControllerInv'
<1>1. CASE CancelPredecessor(i) \/ Wait(i) \/ Begin(i) \/ Save(i)
  BY <1>1, CancelKeeps, WaitKeeps, BeginKeeps, SaveKeeps
<1>2. CASE StopInstance(i) \/ GetRuntime(i) \/ CloseInstance(i) \/ EachInstance(i) \/ EndLoop(i)
  BY <1>2, StopInstanceKeeps, GetRuntimeKeeps, CloseInstanceKeeps, LoopKeeps
<1>3. CASE \/ Inspect(i) \/ Ready(i) \/ Prepare(i) \/ AskApproval(i) \/ StartLoopEnds(i)
           \/ Drop(i) \/ EndAction(i) \/ Final(i)
  BY <1>3, InspectKeeps, StagesKeep
<1>4. CASE Intent(i) \/ StartInstance(i) \/ Opened(i) \/ Launch(i)
  BY <1>4, IntentKeeps, StartInstanceKeeps, OpenedKeeps, LaunchKeeps
<1>. QED  BY <1>1, <1>2, <1>3, <1>4 DEF TaskStep

LEMMA ControllerStep == ControllerInv /\ [Next]_vars => ControllerInv'
<1>. SUFFICES ASSUME ControllerInv, [Next]_vars PROVE ControllerInv'
  OBVIOUS
<1>1. ASSUME NEW i \in Ops, \E r \in Requests : Accept(i, r) \/ CrashInAccept(i, r)
      PROVE  ControllerInv'
  BY <1>1, AcceptKeeps, CrashInAcceptKeeps
<1>2. ASSUME NEW i \in Ops, TaskStep(i) \/ AskApproval(i) PROVE ControllerInv'
  BY <1>2, TaskStepKeeps
<1>3. ASSUME NEW k \in Instances, RecoveryStep(k) \/ Dies(k) \/ Watch(k) \/ Restore(k)
      PROVE  ControllerInv'
  BY <1>3, RecoveryKeeps, DiesKeeps, WatchKeeps, RestoreKeeps
<1>4. ASSUME NEW i \in Ops, Replay(i) PROVE ControllerInv'
  BY <1>4, ReplayKeeps
<1>5. CASE Crash \/ Exit \/ Close
  BY <1>5, ExitKeeps, CloseKeeps
<1>6. CASE CloseWaits \/ CloseRuntimes \/ CloseAgain \/ Open \/ Serve \/ UNCHANGED vars
  BY <1>6, ProcessStepsKeep
<1>. QED  BY <1>1, <1>2, <1>3, <1>4, <1>5, <1>6 DEF Next, ProcessStep

(* The invariant of the operations, the recoveries and the runtimes of a   *)
(* fleet, across crashes, orderly closes and replays of the journal.       *)
THEOREM ControllerInvariant == Spec => []ControllerInv
BY InitTrue, ControllerStep, PTL DEF Spec

(* However many Stops overtake one another, and at whatever await of the   *)
(* operation they overtake, one task acts on the fleet.                    *)
THEOREM OneOperationActs == Spec => []OneOperation
<1>1. ControllerInv => OneOperation
  <2>. SUFFICES ASSUME ControllerInv, NEW i \in Ops, NEW j \in Ops, Acting(i), Acting(j), i # j
               PROVE  FALSE
    BY DEF OneOperation
  <2>1. Busy(i) /\ Busy(j) /\ ~Waiting(i) /\ ~Waiting(j)  BY DEF Acting, Busy, Waiting
  <2>2. i < j \/ j < i  BY DEF Ops
  <2>. QED  BY <2>1, <2>2 DEF ControllerInv, Line
<1>. QED  BY <1>1, ControllerInvariant, PTL

(* Whatever start, recovery or restore was under way when the intent went: *)
(* once no operation is left, an instance that is not wanted neither runs  *)
(* nor is about to, but for the runtimes NothingUnwanted names.            *)
THEOREM NothingUnwantedRuns == Spec => []NothingUnwanted
<1>1. ControllerInv => NothingUnwanted
  <2>. SUFFICES ASSUME ControllerInv, daemon = "up", current = 0,
                       NEW k \in Instances, k \notin wanted, Held(k)
               PROVE  Present(k) /\ (Shown(k) \/ ResetFailed)
    <3>1. ASSUME ControllerInv, NEW k \in Instances
          PROVE  running[k].st \in {"none", "live", "dead", "left"}
      BY <3>1 DEF ControllerInv, TypeOK, Runtime
    <3>. QED  BY <3>1 DEF NothingUnwanted, Shown, Present
  <2>1. \A i \in Ops : ~Busy(i)  BY DEF ControllerInv, Line, Ops
  <2>2. \A i \in Ops : ~EndsStart(i, k) /\ ~Ends(i, k)
    BY <2>1 DEF EndsStart, Ends, Busy, StopStages
  <2>3. ~Starting(k)  BY <2>2 DEF ControllerInv, StartsTrue
  <2>4. Present(k)  BY <2>1, <2>3 DEF Held, Attempt, Starting, Busy
  <2>. QED  BY <2>2, <2>4 DEF ControllerInv, RuntimesTrue, Accounted
<1>. QED  BY <1>1, ControllerInvariant, PTL

(* Every task, recovery and call of restore() that close() waits for, and  *)
(* every runtime it closes, is accounted for: nothing is left behind.      *)
THEOREM ClosedLeavesNothing == Spec => []CloseLeavesNothing
<1>1. ControllerInv => CloseLeavesNothing
  <2>. SUFFICES ASSUME ControllerInv, daemon = "off", NEW k \in Instances PROVE ~Held(k)
    BY DEF CloseLeavesNothing
  <2>1. ~Present(k) /\ ~Recovering(k) /\ \A i \in Ops : ~Busy(i)  BY DEF ControllerInv, Quiet
  <2>. QED  BY <2>1 DEF Held, Attempt, Recovering, Busy
<1>. QED  BY <1>1, ControllerInvariant, PTL

(* Most steps take nothing from what is wanted or saved for a later start. *)
LEMMA TakesNothing ==
  ASSUME ControllerInv,
         \/ \E i \in Ops : TaskStep(i) \/ AskApproval(i)
         \/ \E k \in Instances : (RecoveryStep(k) /\ ~RecoverLeaves(k)) \/ Dies(k) \/ Watch(k) \/ Restore(k)
         \/ Crash \/ Close \/ CloseAgain \/ Exit \/ Open
         \/ CloseWaits \/ CloseRuntimes \/ Serve \/ UNCHANGED vars
  PROVE  wanted \subseteq wanted' /\ selection' = selection
<1>1. ASSUME NEW i \in Ops, TaskStep(i) \/ AskApproval(i)
      PROVE  wanted \subseteq wanted' /\ selection' = selection
  <2>1. CASE Intent(i)  BY <2>1 DEF Intent
  <2>2. CASE CancelPredecessor(i) \/ Wait(i) \/ Begin(i) \/ Save(i)
    BY <2>2 DEF CancelPredecessor, Wait, Begin, Save, durableVars
  <2>3. CASE StopInstance(i) \/ GetRuntime(i) \/ CloseInstance(i) \/ EachInstance(i) \/ EndLoop(i)
    BY <2>3 DEF StopInstance, GetRuntime, CloseInstance, EachInstance, EndLoop, durableVars
  <2>4. CASE \/ Inspect(i) \/ Ready(i) \/ Prepare(i) \/ AskApproval(i) \/ StartLoopEnds(i)
             \/ Drop(i) \/ EndAction(i) \/ Final(i)
    BY <2>4 DEF Inspect, Ready, Prepare, AskApproval, StartLoopEnds, Drop, EndAction, Final, durableVars
  <2>5. CASE StartInstance(i) \/ Opened(i) \/ Launch(i)
    BY <2>5 DEF StartInstance, Opened, Launch, durableVars
  <2>. QED  BY <1>1, <2>1, <2>2, <2>3, <2>4, <2>5 DEF TaskStep
<1>2. ASSUME NEW k \in Instances,
             (RecoveryStep(k) /\ ~RecoverLeaves(k)) \/ Dies(k) \/ Watch(k) \/ Restore(k)
      PROVE  wanted \subseteq wanted' /\ selection' = selection
  BY <1>2 DEF RecoveryStep, RecoverCloses, RecoverDelays, RecoverStarts, RecoverOpened,
              RecoverLaunches, RecoverDrops, Dies, Watch, Restore, durableVars
<1>3. CASE \/ Crash \/ Close \/ CloseAgain \/ Exit \/ Open
           \/ CloseWaits \/ CloseRuntimes \/ Serve \/ UNCHANGED vars
  BY <1>3 DEF Crash, Close, CloseAgain, Exit, Open, CloseWaits, CloseRuntimes, Serve, vars, durableVars
<1>. QED  BY <1>1, <1>2, <1>3

Kept == \A k \in Instances :
  /\ k \in wanted /\ k \notin wanted' => \/ k \in selection'.keys \/ Named(k)
                                         \/ running[k].st = "left"
  /\ k \in selection.keys /\ k \notin selection'.keys => wanted # {} \/ Named(k)

(* What a request takes, accepted or replayed, it has saved or it names.   *)
LEMMA RequestKeeps ==
  ASSUME ControllerInv, NEW i \in Ops, NEW r \in Request, NEW enabled \in SUBSET wanted,
         selection' \in {selection, SaveSelection(r, enabled)},
         wanted' # wanted => /\ r.act \in {"stop", "reset"} /\ selection' = SaveSelection(r, enabled)
                             /\ wanted \ wanted' \subseteq enabled,
         journal'[i].status # "none" /\ journal'[i].act = r.act /\ journal'[i].tgt = r.tgt
  PROVE  Kept
<1>. DEFINE s == SaveSelection(r, enabled)
<1>1. /\ \A k \in selection.keys : k \in s.keys \/ enabled # {} \/ k = r.tgt
      /\ r.act = "stop" => \A k \in enabled : k \in s.keys \/ k = r.tgt
  BY SavedSelection DEF ControllerInv, TypeOK, Selection
<1>2. \A k \in Instances : k = r.tgt \/ r.act = "reset" => Named(k)  BY DEF Named
<1>3. ASSUME NEW k \in Instances, k \in wanted, k \notin wanted'
      PROVE  k \in selection'.keys \/ Named(k)
  BY <1>1, <1>2, <1>3
<1>4. ASSUME NEW k \in Instances, k \in selection.keys, k \notin selection'.keys
      PROVE  wanted # {} \/ Named(k)
  BY <1>1, <1>2, <1>4
<1>. QED  BY <1>3, <1>4 DEF Kept

LEMMA KeptStep == ControllerInv /\ [Next]_vars => Kept
<1>. SUFFICES ASSUME ControllerInv, [Next]_vars PROVE Kept
  OBVIOUS
<1>0. TypeOK /\ journal \in [Ops -> Journal] /\ LeavingTrue  BY DEF ControllerInv, TypeOK
<1>1. CASE wanted \subseteq wanted' /\ selection' = selection  BY <1>1 DEF Kept
<1>2. ASSUME NEW i \in Ops, NEW r \in Requests, Accept(i, r) PROVE Kept
  <2>1. r \in Request  BY RequestsAssumption DEF Request
  <2>2. /\ selection' = SaveSelection(r, wanted)
        /\ wanted' # wanted => r.act \in {"stop", "reset"}
        /\ journal' = [journal EXCEPT ![i] = [act |-> r.act, tgt |-> r.tgt, status |-> "accepted"]]
    BY <1>2 DEF Accept, Writes, Disabled
  <2>3. /\ journal'[i].status # "none" /\ journal'[i].act = r.act /\ journal'[i].tgt = r.tgt
    BY <1>0, <2>2
  <2>. QED  BY <2>1, <2>2, <2>3, RequestKeeps
<1>3. ASSUME NEW i \in Ops, NEW r \in Requests, CrashInAccept(i, r) PROVE Kept
  <2>1. r \in Request  BY RequestsAssumption DEF Request
  <2>2. /\ selection' \in {selection, SaveSelection(r, wanted)} /\ wanted' = wanted
        /\ journal' = [journal EXCEPT ![i] = [act |-> r.act, tgt |-> r.tgt, status |-> "accepted"]]
    BY <1>3 DEF CrashInAccept, Writes
  <2>3. /\ journal'[i].status # "none" /\ journal'[i].act = r.act /\ journal'[i].tgt = r.tgt
    BY <1>0, <2>2
  <2>. QED  BY <2>1, <2>2, <2>3, RequestKeeps
<1>4. ASSUME NEW i \in Ops, Replay(i) PROVE Kept
  <2>. DEFINE r == [act |-> journal[i].act, tgt |-> journal[i].tgt]
              enabled == Enabled(journal[i].tgt)
  <2>1. /\ selection' = SaveSelection(r, enabled) /\ wanted' \in {wanted, Disabled(r, enabled)}
        /\ journal[i].status = "accepted"
        /\ journal' \in {journal, [journal EXCEPT ![i].status = "failed"]}
    BY <1>4 DEF Replay
  <2>2. r \in Request /\ enabled \in SUBSET wanted
    BY <1>0 DEF Journal, Request, Enabled
  <2>3. wanted' # wanted => r.act \in {"stop", "reset"} /\ wanted \ wanted' \subseteq enabled
    BY <2>1 DEF Disabled
  <2>4. /\ journal'[i].status # "none" /\ journal'[i].act = r.act /\ journal'[i].tgt = r.tgt
    BY <1>0, <2>1 DEF Journal
  <2>. HIDE DEF r, enabled
  <2>. QED  BY <2>1, <2>2, <2>3, <2>4, RequestKeeps
<1>5. ASSUME NEW k \in Instances, RecoverLeaves(k) PROVE Kept
  BY <1>0, <1>5 DEF RecoverLeaves, LeavingTrue, Kept
<1>. QED
  BY <1>1, <1>2, <1>3, <1>4, <1>5, TakesNothing DEF Next, ProcessStep

(* What was enabled when the fleet was stopped is resumed: no step, crash  *)
(* or replay of a half accepted Stop takes an instance from the intent or  *)
(* from the saved selection but for the reasons KeptForResume names.       *)
THEOREM ResumeKeeps == Spec => KeptForResume
<1>1. ControllerInv /\ [Next]_vars => [Kept]_vars
  BY KeptStep
<1>. QED  BY <1>1, ControllerInvariant, PTL DEF Spec, KeptForResume, Kept
=============================================================================
