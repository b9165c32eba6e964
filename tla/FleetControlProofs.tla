------------------------- MODULE FleetControlProofs -------------------------
(***************************************************************************)
(* A requested operation is executed once and shown with its outcome: for  *)
(* any set of operations, any number of faults and any set of generations. *)
(*                                                                         *)
(* The argument.  Execution is safe as long as the local journal still     *)
(* knows the operation, or the operation was never executed (Kept).  Only  *)
(* an acknowledged record may be pruned, an operation is acknowledged only *)
(* after the server has settled it, and what the server has settled is     *)
(* never handed to execution again; so what could still be executed is     *)
(* kept.  No argument about leases and generations is needed: a claim or a *)
(* receipt of any generation, however late, leaves this true.              *)
(***************************************************************************)
EXTENDS FleetControl, TLAPS

(* The records and functions of the state.  Nothing is said of the         *)
(* identities of generations: the argument does not look at them.          *)
CallShape(m) == /\ m = Call(m.kind, m.gen, m.op, m.result)
                /\ m.kind \in {"report", "release", "claim", "receipt"}
                /\ m.kind \in {"claim", "receipt"} => m.op \in Ops
                /\ m.kind = "receipt" => m.result \in Results
OpShape == op = [o \in Ops |-> [st |-> op[o].st, current |-> op[o].current, gen |-> op[o].gen]]
Busy == {"claim", "execute", "wait", "receipt", "acknowledge"}
Shapes == /\ OpShape
          /\ \A o \in Ops : op[o].st \in {"none", "pending", "running", "succeeded", "failed"}
          /\ authorized \in BOOLEAN
          /\ poll = [at |-> poll.at, op |-> poll.op]
          /\ poll.op \in Ops \cup {NoOp}
          /\ run = [at |-> run.at, op |-> run.op, gen |-> run.gen, result |-> run.result]
          /\ run.at \in Busy \cup {"none", "failed"}
          /\ run.at \in Busy => run.op \in Ops
          /\ local \in [Ops -> [st : {"none", "accepted", "succeeded", "failed"}, pinned : BOOLEAN]]
          /\ outcome \in [Ops -> [result : {"none", "succeeded", "failed"}, times : Nat, refused : BOOLEAN]]
          /\ \A m \in net : CallShape(m)

(* An execution now, or once more, would do no harm.                       *)
Kept(o) == \/ local[o].st # "none" /\ local[o].pinned
           \/ local[o].st = "none" /\ outcome[o].times = 0
(* The task is past the claim of o and not yet sure that it is settled.    *)
InHand(o) == run.at \in {"execute", "wait", "receipt"} /\ run.op = o
Never(o) == outcome[o].times = 0 /\ ~InHand(o)
(* A report of r about o is true, or comes from a refusal.                 *)
Truthful(o, r) == /\ r = "succeeded" => outcome[o].result = "succeeded"
                  /\ r = "failed" => outcome[o].refused \/ outcome[o].result = "failed"

(* The journal and the history of executions agree.                        *)
Records == \A o \in Ops : /\ local[o].st = "accepted" => outcome[o].result = "none"
                          /\ local[o].st \in Results => outcome[o].result = local[o].st
                          /\ local[o].st # "none" => outcome[o].times # 0
                          /\ outcome[o].result # "none" => outcome[o].times # 0
OpenIsKept == \A o \in Ops : ~Settled(o) \/ InHand(o) => Kept(o)
UnclaimedIsNew == \A o \in Ops : op[o].st \in {"none", "pending"} => Never(o)
TaskTrue == /\ run.at = "receipt" => run.result \in Results /\ Truthful(run.op, run.result)
            /\ run.at = "acknowledge" => Settled(run.op)
LateTrue == \A m \in net : m.kind = "receipt" => /\ op[m.op].st \notin {"none", "pending"}
                                                 /\ Truthful(m.op, m.result)
ShownTrue == \A o \in Ops :
               /\ op[o].st = "succeeded" => outcome[o].result = "succeeded"
               /\ op[o].st = "failed" => \/ ~authorized \/ outcome[o].refused
                                         \/ outcome[o].result = "failed" \/ Never(o)

ControlInv == /\ Shapes /\ Records /\ ExecutedOnce /\ OpenIsKept
              /\ UnclaimedIsNew /\ TaskTrue /\ LateTrue /\ ShownTrue

-----------------------------------------------------------------------------
(* The steps of the server *)

(* What a step may do to an operation: it settles one that is under way    *)
(* with a true outcome, or one without authority, or one never claimed.    *)
OpStep(o) ==
  /\ op'[o].st \in {"none", "pending", "running", "succeeded", "failed"}
  /\ \/ op'[o].st = op[o].st
     \/ ~Settled(o) /\ op'[o].st = "running"
     \/ op[o].st = "none" /\ op'[o].st = "pending"
     \/ /\ ~Settled(o) /\ op'[o].st = "failed"
        /\ ~authorized \/ op[o].st \in {"none", "pending"}
     \/ /\ ~Settled(o) /\ op'[o].st \in Results
        /\ op[o].st \notin {"none", "pending"} /\ Truthful(o, op'[o].st)
ServerStep == /\ OpShape'
              /\ authorized' \in BOOLEAN /\ (authorized' => authorized)
              /\ \A o \in Ops : OpStep(o)

(* A call that may be under way: what it says of an outcome is true.       *)
TrueCall(m) == /\ CallShape(m)
               /\ m.kind = "receipt" => /\ op[m.op].st \notin {"none", "pending"}
                                        /\ Truthful(m.op, m.result)

LEMMA StandsStill == ASSUME Shapes, UNCHANGED <<op, authorized>> PROVE ServerStep
BY DEF Shapes, OpShape, ServerStep, OpStep

(* Whatever call takes effect, at whatever time, the server does a step    *)
(* of this kind.                                                           *)
LEMMA EffectStep ==
  ASSUME Shapes, NEW m, TrueCall(m), Effect(m)
  PROVE  ServerStep
<1>1. CASE m.kind \in {"report", "release"}
  BY <1>1, StandsStill DEF Effect
<1>2. CASE m.kind = "claim"
  <2>1. m.op \in Ops /\ op' = [op EXCEPT ![m.op] = Claim(m.op, m.gen).op]
        /\ authorized' = authorized
    BY <1>2 DEF TrueCall, CallShape, Effect, OpAnswer
  <2> DEFINE new == Claim(m.op, m.gen).op
  <2>2. \/ new = op[m.op]
        \/ ~Settled(m.op) /\ new = [op[m.op] EXCEPT !.st = "running", !.gen = m.gen]
        \/ /\ ~Settled(m.op) /\ new = [op[m.op] EXCEPT !.st = "failed"]
           /\ ~authorized \/ op[m.op].st = "pending"
    BY DEF Claim, Shapes
  <2>3. op[m.op] = [st |-> op[m.op].st, current |-> op[m.op].current, gen |-> op[m.op].gen]
    BY <2>1 DEF Shapes, OpShape
  <2>4. /\ new = [st |-> new.st, current |-> new.current, gen |-> new.gen]
        /\ \/ new.st = op[m.op].st
           \/ ~Settled(m.op) /\ new.st = "running"
           \/ ~Settled(m.op) /\ new.st = "failed" /\ (~authorized \/ op[m.op].st = "pending")
    BY <2>2, <2>3
  <2> HIDE DEF new
  <2>5. op' = [o \in Ops |-> IF o = m.op THEN new ELSE op[o]]
    BY <2>1 DEF Shapes, OpShape, new
  <2>6. \A o \in Ops : op'[o] = IF o = m.op THEN new ELSE op[o]
    BY <2>5
  <2>7. ASSUME NEW o \in Ops
        PROVE  op'[o] = [st |-> op'[o].st, current |-> op'[o].current, gen |-> op'[o].gen]
    <3>1. op[o] = [st |-> op[o].st, current |-> op[o].current, gen |-> op[o].gen]
      BY DEF Shapes, OpShape
    <3>2. CASE o = m.op
      <4>1. op'[o] = new
        BY <2>6, <3>2
      <4> QED BY <4>1, <2>4
    <3>3. CASE o # m.op
      <4>1. op'[o] = op[o]
        BY <2>6, <3>3
      <4> QED BY <4>1, <3>1
    <3> QED BY <3>2, <3>3
  <2>8. OpShape'
    BY <2>5, <2>7 DEF OpShape
  <2>9. \A o \in Ops : OpStep(o)
    BY <2>1, <2>4, <2>6 DEF Shapes, OpStep, Results
  <2> QED BY <2>1, <2>8, <2>9 DEF Shapes, ServerStep
<1>3. CASE m.kind = "receipt"
  <2>1. m.op \in Ops /\ op' = [op EXCEPT ![m.op] = Receipt(m.op, m.gen, m.result).op]
        /\ authorized' = authorized
    BY <1>3 DEF TrueCall, CallShape, Effect, OpAnswer
  <2> DEFINE new == Receipt(m.op, m.gen, m.result).op
  <2>2. \/ new = op[m.op]
        \/ ~Settled(m.op) /\ new = [op[m.op] EXCEPT !.st = m.result]
    BY DEF Receipt
  <2>3. op[m.op] = [st |-> op[m.op].st, current |-> op[m.op].current, gen |-> op[m.op].gen]
    BY <2>1 DEF Shapes, OpShape
  <2>4. /\ new = [st |-> new.st, current |-> new.current, gen |-> new.gen]
        /\ \/ new.st = op[m.op].st
           \/ ~Settled(m.op) /\ new.st = m.result
    BY <2>2, <2>3
  <2> HIDE DEF new
  <2>5. op' = [o \in Ops |-> IF o = m.op THEN new ELSE op[o]]
    BY <2>1 DEF Shapes, OpShape, new
  <2>6. m.result \in Results /\ op[m.op].st \notin {"none", "pending"}
        /\ Truthful(m.op, m.result)
    BY <1>3 DEF TrueCall, CallShape
  <2>7. \A o \in Ops : op'[o] = IF o = m.op THEN new ELSE op[o]
    BY <2>5
  <2>8. ASSUME NEW o \in Ops
        PROVE  op'[o] = [st |-> op'[o].st, current |-> op'[o].current, gen |-> op'[o].gen]
    <3>1. op[o] = [st |-> op[o].st, current |-> op[o].current, gen |-> op[o].gen]
      BY DEF Shapes, OpShape
    <3>2. CASE o = m.op
      <4>1. op'[o] = new
        BY <2>7, <3>2
      <4> QED BY <4>1, <2>4
    <3>3. CASE o # m.op
      <4>1. op'[o] = op[o]
        BY <2>7, <3>3
      <4> QED BY <4>1, <3>1
    <3> QED BY <3>2, <3>3
  <2>9. OpShape'
    BY <2>5, <2>8 DEF OpShape
  <2>10. \A o \in Ops : OpStep(o)
    BY <2>1, <2>4, <2>7, <2>6 DEF Shapes, OpStep, Results
  <2> QED BY <2>1, <2>9, <2>10 DEF Shapes, ServerStep
<1> QED BY <1>1, <1>2, <1>3 DEF TrueCall, CallShape

(* After an accepted claim the operation is running or settled, after an   *)
(* accepted receipt it is settled.                                         *)
LEMMA ClaimAnswer ==
  ASSUME Shapes, NEW m, CallShape(m), m.kind = "claim", Effect(m), Accepted(m)
  PROVE  /\ op'[m.op].st = OpAnswer(m).op.st
         /\ op'[m.op].st \in Results \cup {"running"}
<1>1. m.op \in Ops /\ op' = [op EXCEPT ![m.op] = Claim(m.op, m.gen).op] /\ Claim(m.op, m.gen).ok
      /\ OpAnswer(m) = Claim(m.op, m.gen)
  BY DEF CallShape, Effect, OpAnswer, Accepted
<1>2. op[m.op] = [st |-> op[m.op].st, current |-> op[m.op].current, gen |-> op[m.op].gen]
  BY <1>1 DEF Shapes, OpShape
<1>3. op'[m.op] = Claim(m.op, m.gen).op
  BY <1>1 DEF Shapes, OpShape
<1>4. Claim(m.op, m.gen).op.st \in Results \cup {"running"}
  BY <1>1, <1>2 DEF Claim, Settled, Results
<1> QED BY <1>1, <1>3, <1>4

LEMMA ReceiptAnswer ==
  ASSUME Shapes, NEW m, CallShape(m), m.kind = "receipt", Effect(m), Accepted(m)
  PROVE  op'[m.op].st \in Results
<1>1. m.op \in Ops /\ op' = [op EXCEPT ![m.op] = Receipt(m.op, m.gen, m.result).op]
      /\ Receipt(m.op, m.gen, m.result).ok /\ m.result \in Results
  BY DEF CallShape, Effect, OpAnswer, Accepted
<1>2. op[m.op] = [st |-> op[m.op].st, current |-> op[m.op].current, gen |-> op[m.op].gen]
  BY <1>1 DEF Shapes, OpShape
<1>3. op'[m.op] = Receipt(m.op, m.gen, m.result).op
  BY <1>1 DEF Shapes, OpShape
<1>4. Receipt(m.op, m.gen, m.result).op.st \in Results
  BY <1>1, <1>2 DEF Receipt, Settled
<1> QED BY <1>3, <1>4

(* A step of the server, of the polling task, or of the operation's task   *)
(* between two looks at the local journal.                                 *)
TaskStep ==
  /\ run' = [at |-> run'.at, op |-> run'.op, gen |-> run'.gen, result |-> run'.result]
  /\ run'.at \in Busy \cup {"none", "failed"} /\ (run'.at \in Busy => run'.op \in Ops)
  /\ \/ run' = run
     \/ run'.at \in {"none", "failed", "claim"}
     \/ run'.at = "execute" /\ op'[run'.op].st = "running"
     \/ run'.at = "acknowledge" /\ op'[run'.op].st \in Results
PollShape == poll = [at |-> poll.at, op |-> poll.op] /\ poll.op \in Ops \cup {NoOp}

LEMMA RemoteKeeps ==
  ASSUME ControlInv, ServerStep, TaskStep, PollShape', UNCHANGED localVars,
         \A m \in net' : m \in net \/ TrueCall(m)
  PROVE  ControlInv'
<1> USE DEF localVars
<1>1. ASSUME NEW o \in Ops, InHand(o)'
      PROVE  Kept(o)' /\ op'[o].st \notin {"none", "pending"} /\ (InHand(o) \/ op'[o].st = "running")
  <2>1. CASE run' = run
    BY <1>1, <2>1 DEF InHand, ControlInv, OpenIsKept, UnclaimedIsNew, Never, Kept, ServerStep, OpStep, Settled, Results
  <2>2. CASE run' # run
    <3>1. op'[o].st = "running"
      BY <1>1, <2>2 DEF InHand, TaskStep
    <3>2. ~Settled(o)
      BY <3>1 DEF ServerStep, OpStep, Settled, Results
    <3> QED BY <3>1, <3>2 DEF ControlInv, OpenIsKept, Kept
  <2> QED BY <2>1, <2>2
<1>2. Shapes'
  <2>1. \A m \in net' : CallShape(m)
    BY DEF ControlInv, Shapes, TrueCall
  <2> QED BY <2>1 DEF ControlInv, Shapes, ServerStep, OpStep, TaskStep, PollShape, CallShape, Call, Results
<1>3. Records' /\ ExecutedOnce'
  BY DEF ControlInv, Records, ExecutedOnce
<1>4. OpenIsKept'
  <2> SUFFICES ASSUME NEW o \in Ops, (~Settled(o) \/ InHand(o))' PROVE Kept(o)'
    BY DEF OpenIsKept
  <2>1. CASE InHand(o)'
    BY <1>1, <2>1
  <2>2. CASE ~Settled(o)'
    <3>1. ~Settled(o)
      BY <2>2 DEF ServerStep, OpStep, Settled, Results
    <3> QED BY <3>1 DEF ControlInv, OpenIsKept, Kept
  <2> QED BY <2>1, <2>2
<1>5. UnclaimedIsNew'
  <2> SUFFICES ASSUME NEW o \in Ops, op'[o].st \in {"none", "pending"} PROVE Never(o)'
    BY DEF UnclaimedIsNew
  <2>1. op[o].st \in {"none", "pending"}
    BY DEF ServerStep, OpStep, Settled, Results
  <2>2. Never(o) /\ ~InHand(o)'
    BY <2>1, <1>1 DEF ControlInv, UnclaimedIsNew
  <2> QED BY <2>2 DEF Never
<1>6. TaskTrue'
  <2>1. CASE run' = run
    BY <2>1 DEF ControlInv, Shapes, TaskTrue, Truthful, Settled, ServerStep, OpStep, Results, Busy
  <2>2. CASE run' # run
    BY <2>2 DEF TaskStep, TaskTrue, Settled
  <2> QED BY <2>1, <2>2
<1>7. LateTrue'
  <2> SUFFICES ASSUME NEW m \in net', m.kind = "receipt"
               PROVE  op'[m.op].st \notin {"none", "pending"} /\ Truthful(m.op, m.result)'
    BY DEF LateTrue
  <2>1. m.op \in Ops /\ op[m.op].st \notin {"none", "pending"} /\ Truthful(m.op, m.result)
    BY DEF ControlInv, Shapes, LateTrue, TrueCall, CallShape
  <2> QED BY <2>1 DEF ServerStep, OpStep, Truthful, Results
<1>8. ShownTrue'
  <2> SUFFICES ASSUME NEW o \in Ops
               PROVE  /\ op'[o].st = "succeeded" => outcome[o].result = "succeeded"
                      /\ op'[o].st = "failed" => \/ ~authorized' \/ outcome[o].refused
                                                 \/ outcome[o].result = "failed" \/ Never(o)'
    BY DEF ShownTrue
  <2>1. OpStep(o) /\ (authorized' => authorized)
    BY DEF ServerStep
  <2>2. ~InHand(o)' \/ InHand(o) \/ op'[o].st = "running"
    BY <1>1
  <2>3. CASE op'[o].st = op[o].st
    BY <2>1, <2>2, <2>3 DEF ControlInv, ShownTrue, Never
  <2>4. CASE op'[o].st # op[o].st
    BY <2>1, <2>2, <2>4 DEF OpStep, Settled, Results, ControlInv, UnclaimedIsNew, Never, Truthful
  <2> QED BY <2>3, <2>4
<1> QED BY <1>2, <1>3, <1>4, <1>5, <1>6, <1>7, <1>8 DEF ControlInv

(* A call with or without an answer.                                       *)
LEMMA CallTaken ==
  ASSUME Shapes, NEW m, TrueCall(m), Answered(m) \/ Unanswered(m)
  PROVE  ServerStep /\ \A k \in net' : k \in net \/ TrueCall(k)
<1>1. CASE Effect(m) /\ net' = net
  BY <1>1, EffectStep
<1>2. CASE UNCHANGED serverVars /\ net' \subseteq net \cup {m}
  BY <1>2, StandsStill DEF serverVars
<1> QED BY <1>1, <1>2 DEF Answered, Unanswered

LEMMA SameTask == ASSUME Shapes, run' = run PROVE TaskStep
BY DEF Shapes, TaskStep

LEMMA SamePoll == ASSUME Shapes, poll' = poll PROVE PollShape'
BY DEF Shapes, PollShape

-----------------------------------------------------------------------------
(* The actions that do not touch the local journal *)

LEMMA RequestKeeps == ASSUME ControlInv, NEW o \in Ops, Request(o) PROVE ControlInv'
<1>1. ServerStep
  <2>1. op[o].st = "none" /\ op' = [op EXCEPT ![o] = [st |-> "pending", current |-> TRUE, gen |-> 0]]
        /\ authorized' = authorized
    BY DEF Request
  <2>2. \A p \in Ops : op'[p] = IF p = o THEN [st |-> "pending", current |-> TRUE, gen |-> 0] ELSE op[p]
    BY <2>1 DEF ControlInv, Shapes, OpShape
  <2>3. OpShape'
    BY <2>1, <2>2 DEF ControlInv, Shapes, OpShape
  <2>4. \A p \in Ops : OpStep(p)
    BY <2>1, <2>2 DEF ControlInv, Shapes, OpStep
  <2> QED BY <2>1, <2>3, <2>4 DEF ServerStep, ControlInv, Shapes
<1> QED BY <1>1, SameTask, SamePoll, RemoteKeeps DEF Request, clientVars, ControlInv

LEMMA EnvironmentKeeps ==
  ASSUME ControlInv, ChangeDelivery \/ Withdraw \/ Expire \/ Arrive
  PROVE  ControlInv'
<1>1. ServerStep
  <2>1. CASE ChangeDelivery
    <3>1. op' = [o \in Ops |-> [op[o] EXCEPT !.current = FALSE]] /\ authorized' = authorized
      BY <2>1 DEF ChangeDelivery
    <3>2. \A o \in Ops : op[o] = [st |-> op[o].st, current |-> op[o].current, gen |-> op[o].gen]
      BY DEF ControlInv, Shapes, OpShape
    <3>3. ASSUME NEW o \in Ops
          PROVE  op'[o] = [st |-> op[o].st, current |-> FALSE, gen |-> op[o].gen]
      <4>1. op'[o] = [op[o] EXCEPT !.current = FALSE]
        BY <3>1
      <4> QED BY <4>1, <3>2
    <3>4. OpShape' /\ \A o \in Ops : OpStep(o)
      BY <3>1, <3>3 DEF OpShape, OpStep, ControlInv, Shapes
    <3> QED BY <3>1, <3>4 DEF ServerStep, ControlInv, Shapes
  <2>2. CASE Withdraw
    BY <2>2 DEF Withdraw, ServerStep, OpStep, ControlInv, Shapes, OpShape
  <2>3. CASE Expire
    BY <2>3, StandsStill DEF Expire, ControlInv
  <2>4. CASE Arrive
    <3>1. PICK m \in net : Effect(m)
      BY <2>4 DEF Arrive
    <3>2. TrueCall(m)
      BY DEF ControlInv, Shapes, LateTrue, TrueCall
    <3> QED BY <3>1, <3>2, EffectStep DEF ControlInv
  <2> QED BY <2>1, <2>2, <2>3, <2>4
<1>2. UNCHANGED <<run, poll, localVars>> /\ net' \subseteq net
  BY DEF ChangeDelivery, Withdraw, Expire, Arrive, clientVars
<1> QED BY <1>1, <1>2, SameTask, SamePoll, RemoteKeeps DEF ControlInv

(* Calls about the lease and about reading say nothing of an outcome.      *)
LEMMA LeaseCall == ASSUME NEW g, NEW kind \in {"report", "release"}
                   PROVE  TrueCall(Call(kind, g, NoOp, "none"))
BY DEF TrueCall, CallShape, Call

LEMMA PollKeeps == ASSUME ControlInv, PollStep PROVE ControlInv'
<1> USE DEF ControlInv
<1>1. CASE Release
  <2> DEFINE m == Call("release", gen, NoOp, "none")
  <2>1. (Answered(m) \/ Unanswered(m)) /\ UNCHANGED <<run, poll, localVars>>
    BY <1>1 DEF Release
  <2>2. TrueCall(m)
    BY LeaseCall
  <2> HIDE DEF m
  <2>3. ServerStep /\ \A k \in net' : k \in net \/ TrueCall(k)
    BY <2>1, <2>2, CallTaken
  <2> QED BY <2>1, <2>3, SameTask, SamePoll, RemoteKeeps
<1>2. CASE Rotate
  BY <1>2, StandsStill, SameTask, SamePoll, RemoteKeeps DEF Rotate, serverVars
<1>3. CASE ReportLease
  <2> DEFINE m == Call("report", gen, NoOp, "none")
  <2>1. (Answered(m) \/ Unanswered(m)) /\ UNCHANGED <<run, localVars>>
        /\ (Poll("control") \/ Poll("top"))
    BY <1>3 DEF ReportLease
  <2>2. TrueCall(m)
    BY LeaseCall
  <2> HIDE DEF m
  <2>3. ServerStep /\ \A k \in net' : k \in net \/ TrueCall(k)
    BY <2>1, <2>2, CallTaken
  <2>4. PollShape'
    BY <2>1 DEF Poll, PollShape
  <2> QED BY <2>1, <2>3, <2>4, SameTask, RemoteKeeps
<1>4. CASE ReadControl
  <2>1. UNCHANGED <<op, authorized, net, run, localVars>>
    BY <1>4 DEF ReadControl, serverVars
  <2> DEFINE under == IF Pending = {} THEN NoOp ELSE CHOOSE o \in Ops : o \in Pending
  <2>2. under \in Ops \cup {NoOp}
    BY DEF Pending
  <2>3. PollShape'
    <3>1. poll' = [at |-> "apply", op |-> under] \/ poll' = [at |-> "top", op |-> NoOp]
      BY <1>4 DEF ReadControl, Poll
    <3> HIDE DEF under
    <3> QED BY <2>2, <3>1 DEF PollShape
  <2> QED BY <2>1, <2>3, StandsStill, SameTask, RemoteKeeps
<1>5. CASE Apply
  <2>1. UNCHANGED <<op, authorized, net, localVars>> /\ Poll("top")
    BY <1>5 DEF Apply, serverVars
  <2>2. TaskStep
    <3>1. CASE run' = run
      BY <3>1, SameTask
    <3>2. CASE run' = [at |-> "claim", op |-> poll.op, gen |-> gen, result |-> "none"] /\ poll.op \in Ops
      BY <3>2 DEF TaskStep, Busy
    <3> QED BY <1>5, <3>1, <3>2 DEF Apply, Shapes
  <2>3. PollShape'
    BY <2>1 DEF Poll, PollShape
  <2> QED BY <2>1, <2>2, <2>3, StandsStill, RemoteKeeps
<1> QED BY <1>1, <1>2, <1>3, <1>4, <1>5 DEF PollStep

LEMMA ClaimKeeps == ASSUME ControlInv, ClaimOp PROVE ControlInv'
<1> USE DEF ControlInv
<1> DEFINE m == Call("claim", run.gen, run.op, "none")
<1>1. /\ run.at = "claim" /\ run.op \in Ops
      /\ \/ /\ Answered(m)
            /\ \/ RunFails
               \/ /\ Accepted(m)
                  /\ RunGoes(IF OpAnswer(m).op.st \in Results THEN "acknowledge" ELSE "execute")
         \/ Unanswered(m) /\ RunFails
      /\ UNCHANGED <<poll, localVars>>
  BY DEF ClaimOp, Running, Shapes, Busy
<1>2. TrueCall(m) /\ m.kind = "claim" /\ m.op = run.op
  BY <1>1 DEF TrueCall, CallShape, Call
<1> HIDE DEF m
<1>3. ServerStep /\ \A k \in net' : k \in net \/ TrueCall(k)
  BY <1>1, <1>2, CallTaken
<1>4. TaskStep
  <2>1. CASE RunFails
    BY <2>1 DEF RunFails, TaskStep, Idle, Busy, NoOp
  <2>2. CASE /\ Answered(m) /\ Accepted(m)
             /\ RunGoes(IF OpAnswer(m).op.st \in Results THEN "acknowledge" ELSE "execute")
    <3>1. op'[run.op].st = OpAnswer(m).op.st /\ op'[run.op].st \in Results \cup {"running"}
      BY <2>2, <1>2, ClaimAnswer DEF TrueCall, Answered
    <3>2. run' = [run EXCEPT !.at = IF op'[run.op].st \in Results THEN "acknowledge" ELSE "execute"]
      BY <2>2, <3>1 DEF RunGoes
    <3>3. CASE op'[run.op].st \in Results
      BY <1>1, <3>2, <3>3 DEF TaskStep, Shapes, Busy
    <3>4. CASE op'[run.op].st = "running"
      BY <1>1, <3>2, <3>4 DEF TaskStep, Shapes, Busy, Results
    <3> QED BY <3>1, <3>3, <3>4
  <2> QED BY <1>1, <2>1, <2>2
<1> QED BY <1>1, <1>3, <1>4, SamePoll, RemoteKeeps

LEMMA ReceiptKeeps == ASSUME ControlInv, ReportOutcome PROVE ControlInv'
<1> USE DEF ControlInv
<1> DEFINE m == Call("receipt", run.gen, run.op, run.result)
<1>1. /\ run.at = "receipt" /\ run.op \in Ops
      /\ \/ Answered(m) /\ (RunFails \/ (Accepted(m) /\ RunGoes("acknowledge")))
         \/ Unanswered(m) /\ RunFails
      /\ UNCHANGED <<poll, localVars>>
  BY DEF ReportOutcome, Running, Shapes, Busy
<1>2. TrueCall(m) /\ m.kind = "receipt" /\ m.op = run.op
  <2>1. op[run.op].st \notin {"none", "pending"}
    BY <1>1 DEF UnclaimedIsNew, Never, InHand
  <2> QED BY <1>1, <2>1 DEF TrueCall, CallShape, Call, TaskTrue
<1> HIDE DEF m
<1>3. ServerStep /\ \A k \in net' : k \in net \/ TrueCall(k)
  BY <1>1, <1>2, CallTaken
<1>4. TaskStep
  <2>1. CASE RunFails
    BY <2>1 DEF RunFails, TaskStep, Idle, Busy, NoOp
  <2>2. CASE Answered(m) /\ Accepted(m) /\ RunGoes("acknowledge")
    <3>1. op'[run.op].st \in Results
      BY <2>2, <1>2, ReceiptAnswer DEF TrueCall, Answered
    <3> QED BY <1>1, <2>2, <3>1 DEF RunGoes, TaskStep, Shapes, Busy
  <2> QED BY <1>1, <2>1, <2>2
<1> QED BY <1>1, <1>3, <1>4, SamePoll, RemoteKeeps

(* The end of the daemon: its calls may still arrive, its task is gone.    *)
LEMMA DownKeeps == ASSUME ControlInv, Down PROVE ControlInv'
<1> USE DEF ControlInv
<1> DEFINE m == Call("release", gen, NoOp, "none")
<1>1. /\ UNCHANGED serverVars \/ Effect(m)
      /\ run' = Idle /\ poll' = [at |-> "top", op |-> NoOp] /\ UNCHANGED <<localVars, net>>
  BY DEF Down
<1>2. TrueCall(m)
  BY LeaseCall
<1> HIDE DEF m
<1>3. ServerStep
  BY <1>1, <1>2, EffectStep, StandsStill DEF serverVars
<1>4. TaskStep /\ PollShape'
  BY <1>1 DEF TaskStep, PollShape, Idle, Busy, NoOp
<1> QED BY <1>1, <1>3, <1>4, RemoteKeeps

-----------------------------------------------------------------------------
(* The actions on the local journal: the server stands still *)

LEMMA ExecuteKeeps == ASSUME ControlInv, Execute PROVE ControlInv'
<1> USE DEF ControlInv
<1>1. /\ run.at = "execute" /\ run.op \in Ops /\ UNCHANGED <<op, authorized, poll, net>>
      /\ run = [at |-> run.at, op |-> run.op, gen |-> run.gen, result |-> run.result]
  BY DEF Execute, Running, Shapes, Busy, serverVars
<1>2. Kept(run.op) /\ op[run.op].st \notin {"none", "pending"}
  BY <1>1 DEF OpenIsKept, UnclaimedIsNew, Never, InHand
<1>3. ASSUME NEW st \in {"accepted", "failed"}, local[run.op].st = "none", Journaled(st),
             \/ st = "accepted" /\ Begun("none") /\ RunGoes("wait")
             \/ st = "failed" /\ Begun("failed") /\ Refused
      PROVE  ControlInv'
  <2> DEFINE result == IF st = "failed" THEN "failed" ELSE "none"
             at == IF st = "failed" THEN "receipt" ELSE "wait"
             said == IF st = "failed" THEN "failed" ELSE run.result
  <2>1. outcome[run.op].times = 0 /\ outcome[run.op].result = "none"
    BY <1>1, <1>2, <1>3 DEF Kept, Records, Shapes
  <2>2. /\ run' = [at |-> at, op |-> run.op, gen |-> run.gen, result |-> said]
        /\ local'[run.op] = [st |-> st, pinned |-> TRUE]
        /\ outcome'[run.op] = [result |-> result, times |-> 1, refused |-> outcome[run.op].refused]
        /\ \A o \in Ops : o # run.op => local'[o] = local[o] /\ outcome'[o] = outcome[o]
    <3>1. Begun(result)
      BY <1>3
    <3>2. outcome'[run.op] = [result |-> result, times |-> 1, refused |-> outcome[run.op].refused]
      BY <1>1, <3>1, <2>1 DEF Begun, Shapes
    <3>3. local'[run.op] = [st |-> st, pinned |-> TRUE]
          /\ \A o \in Ops : o # run.op => local'[o] = local[o] /\ outcome'[o] = outcome[o]
      BY <1>1, <1>3, <3>1 DEF Journaled, Begun, Shapes
    <3>4. run' = [at |-> at, op |-> run.op, gen |-> run.gen, result |-> said]
      BY <1>1, <1>3 DEF RunGoes, Refused
    <3> QED BY <3>2, <3>3, <3>4
  <2>3. /\ at \in {"wait", "receipt"} /\ result \in {"none", "failed"} /\ result # "succeeded"
        /\ st = "accepted" => result = "none"
        /\ st \in Results => result = st
        /\ at = "receipt" => said = "failed" /\ result = "failed"
    BY <1>3 DEF Results
  <2>4. /\ outcome' = [o \in Ops |-> outcome'[o]] /\ local' = [o \in Ops |-> local'[o]]
    BY <1>1, <1>3 DEF Journaled, Begun, Shapes
  <2> HIDE DEF result, at, said
  <2>5. Shapes'
    <3>1. /\ local'[run.op] \in [st : {"none", "accepted", "succeeded", "failed"}, pinned : BOOLEAN]
          /\ outcome'[run.op] \in [result : {"none", "succeeded", "failed"}, times : Nat, refused : BOOLEAN]
      BY <1>1, <1>3, <2>2, <2>3 DEF Shapes
    <3>2. /\ local' \in [Ops -> [st : {"none", "accepted", "succeeded", "failed"}, pinned : BOOLEAN]]
          /\ outcome' \in [Ops -> [result : {"none", "succeeded", "failed"}, times : Nat, refused : BOOLEAN]]
      <4>1. \A o \in Ops :
              /\ local'[o] \in [st : {"none", "accepted", "succeeded", "failed"}, pinned : BOOLEAN]
              /\ outcome'[o] \in [result : {"none", "succeeded", "failed"}, times : Nat, refused : BOOLEAN]
        BY <2>2, <3>1 DEF Shapes
      <4> QED BY <2>4, <4>1
    <3>3. run' = [at |-> run'.at, op |-> run'.op, gen |-> run'.gen, result |-> run'.result]
          /\ run'.at \in Busy /\ run'.op \in Ops
      BY <1>1, <2>2, <2>3 DEF Busy
    <3> QED BY <1>1, <3>2, <3>3 DEF Shapes, OpShape, CallShape
  <2>6. Records' /\ ExecutedOnce'
    BY <2>2, <2>3 DEF Records, ExecutedOnce, Results
  <2>7. /\ run'.at = at /\ run'.op = run.op /\ run'.result = said
        /\ \A o \in Ops : InHand(o)' = InHand(o)
    BY <1>1, <2>2, <2>3 DEF InHand
  <2>8. OpenIsKept'
    BY <1>1, <1>3, <2>2, <2>7 DEF OpenIsKept, Kept, Settled
  <2>9. UnclaimedIsNew'
    BY <1>1, <1>2, <2>2, <2>7 DEF UnclaimedIsNew, Never
  <2>10. TaskTrue' /\ LateTrue'
    BY <1>1, <2>1, <2>2, <2>3, <2>7 DEF TaskTrue, LateTrue, Truthful, Shapes, CallShape, Results
  <2>11. ShownTrue'
    BY <1>1, <2>1, <2>2, <2>7 DEF ShownTrue, Never, InHand
  <2> QED BY <2>5, <2>6, <2>8, <2>9, <2>10, <2>11
<1>4. CASE RunGoes("wait") /\ UNCHANGED localVars
  <2>1. run' = [at |-> "wait", op |-> run.op, gen |-> run.gen, result |-> run.result]
    BY <1>1, <1>4 DEF RunGoes
  <2>2. \A o \in Ops : InHand(o)' = InHand(o)
    BY <1>1, <2>1 DEF InHand
  <2> QED BY <1>1, <1>4, <2>1, <2>2 DEF localVars, Shapes, OpShape, Busy, CallShape, Records, ExecutedOnce,
          OpenIsKept, Kept, Settled, UnclaimedIsNew, Never, TaskTrue, LateTrue, Truthful, ShownTrue
<1>5. CASE /\ Refused
           /\ outcome' = [outcome EXCEPT ![run.op].refused = TRUE] /\ UNCHANGED local
  <2>1. /\ run' = [at |-> "receipt", op |-> run.op, gen |-> run.gen, result |-> "failed"]
        /\ \A o \in Ops : /\ outcome'[o].times = outcome[o].times
                          /\ outcome'[o].result = outcome[o].result
                          /\ outcome[o].refused => outcome'[o].refused
        /\ outcome'[run.op].refused
        /\ outcome' \in [Ops -> [result : {"none", "succeeded", "failed"}, times : Nat, refused : BOOLEAN]]
    <3>1. outcome'[run.op] = [outcome[run.op] EXCEPT !.refused = TRUE]
      BY <1>1, <1>5 DEF Shapes
    <3>2. outcome'[run.op] = [result |-> outcome[run.op].result, times |-> outcome[run.op].times,
                              refused |-> TRUE]
      BY <1>1, <3>1 DEF Shapes
    <3>3. \A o \in Ops : o # run.op => outcome'[o] = outcome[o]
      BY <1>5 DEF Shapes
    <3>4. outcome' = [o \in Ops |-> outcome'[o]]
      BY <1>5 DEF Shapes
    <3>5. outcome'[run.op] \in [result : {"none", "succeeded", "failed"}, times : Nat, refused : BOOLEAN]
      BY <1>1, <3>2 DEF Shapes
    <3>6. \A o \in Ops : outcome'[o] \in [result : {"none", "succeeded", "failed"}, times : Nat, refused : BOOLEAN]
      BY <3>3, <3>5 DEF Shapes
    <3>7. outcome' \in [Ops -> [result : {"none", "succeeded", "failed"}, times : Nat, refused : BOOLEAN]]
      BY <3>4, <3>6
    <3>8. /\ outcome'[run.op].times = outcome[run.op].times
          /\ outcome'[run.op].result = outcome[run.op].result
          /\ outcome'[run.op].refused
      BY <3>2
    <3>9. run' = [at |-> "receipt", op |-> run.op, gen |-> run.gen, result |-> "failed"]
      BY <1>1, <1>5 DEF Refused
    <3> QED BY <3>3, <3>7, <3>8, <3>9
  <2>2. \A o \in Ops : InHand(o)' = InHand(o)
    BY <1>1, <2>1 DEF InHand
  <2>3. Shapes'
    <3>1. /\ run' = [at |-> run'.at, op |-> run'.op, gen |-> run'.gen, result |-> run'.result]
          /\ run'.at = "receipt" /\ run'.op \in Ops
      BY <1>1, <2>1
    <3> QED BY <1>1, <1>5, <2>1, <3>1 DEF Shapes, OpShape, Busy, CallShape
  <2>4. Records' /\ ExecutedOnce' /\ OpenIsKept' /\ UnclaimedIsNew'
    BY <1>1, <1>5, <2>1, <2>2 DEF Records, ExecutedOnce, OpenIsKept, Kept, Settled, UnclaimedIsNew, Never
  <2>5. TaskTrue' /\ LateTrue'
    BY <1>1, <2>1 DEF TaskTrue, LateTrue, Truthful, Shapes, CallShape, Results
  <2>6. ShownTrue'
    BY <1>1, <2>1, <2>2 DEF ShownTrue, Never
  <2> QED BY <2>3, <2>4, <2>5, <2>6
<1> QED BY <1>3, <1>4, <1>5 DEF Execute

LEMMA LocalDoneKeeps == ASSUME ControlInv, NEW o \in Ops, LocalDone(o) PROVE ControlInv'
<1> USE DEF ControlInv
<1>1. PICK result \in Results :
        /\ local[o].st = "accepted" /\ outcome[o].result = "none" /\ outcome[o].times # 0
        /\ local' = [local EXCEPT ![o].st = result]
        /\ outcome' = [outcome EXCEPT ![o].result = result]
        /\ UNCHANGED <<op, authorized, poll, run, net>>
  BY DEF LocalDone, serverVars, clientVars, Records
<1>2. /\ local'[o] = [st |-> result, pinned |-> local[o].pinned]
      /\ outcome'[o] = [result |-> result, times |-> outcome[o].times, refused |-> outcome[o].refused]
      /\ \A p \in Ops : p # o => local'[p] = local[p] /\ outcome'[p] = outcome[p]
      /\ local' = [p \in Ops |-> local'[p]] /\ outcome' = [p \in Ops |-> outcome'[p]]
  <2>1. local'[o] = [local[o] EXCEPT !.st = result] /\ outcome'[o] = [outcome[o] EXCEPT !.result = result]
    BY <1>1 DEF Shapes
  <2>2. local'[o] = [st |-> result, pinned |-> local[o].pinned]
    BY <2>1 DEF Shapes
  <2>3. outcome'[o] = [result |-> result, times |-> outcome[o].times, refused |-> outcome[o].refused]
    BY <2>1 DEF Shapes
  <2> QED BY <1>1, <2>2, <2>3 DEF Shapes
<1>3. local' \in [Ops -> [st : {"none", "accepted", "succeeded", "failed"}, pinned : BOOLEAN]]
  BY <1>1, <1>2 DEF Shapes, Results
<1>4. outcome' \in [Ops -> [result : {"none", "succeeded", "failed"}, times : Nat, refused : BOOLEAN]]
  BY <1>1, <1>2 DEF Shapes, Results
<1>5. Shapes'
  BY <1>1, <1>3, <1>4 DEF Shapes, OpShape, Busy, CallShape
<1>6. \A p \in Ops : /\ outcome'[p].times = outcome[p].times
                     /\ outcome'[p].refused = outcome[p].refused
                     /\ Kept(p) => Kept(p)'
                     /\ InHand(p)' = InHand(p)
                     /\ outcome[p].result # "none" => outcome'[p].result = outcome[p].result
  BY <1>1, <1>2 DEF Kept, InHand, Results
<1>7. Records' /\ ExecutedOnce'
  BY <1>1, <1>2 DEF Records, ExecutedOnce, Results
<1>8. OpenIsKept' /\ UnclaimedIsNew'
  BY <1>1, <1>6 DEF OpenIsKept, Settled, UnclaimedIsNew, Never
<1>9. \A p \in Ops, r \in Results : Truthful(p, r) => Truthful(p, r)'
  BY <1>6 DEF Truthful
<1>10. TaskTrue' /\ LateTrue'
  BY <1>1, <1>9 DEF TaskTrue, LateTrue, Settled, Shapes, Busy, CallShape
<1>11. ShownTrue'
  BY <1>1, <1>6 DEF ShownTrue, Never
<1> QED BY <1>5, <1>7, <1>8, <1>10, <1>11

LEMMA WaitKeeps == ASSUME ControlInv, WaitLocal PROVE ControlInv'
<1> USE DEF ControlInv
<1>1. /\ run.at = "wait" /\ run.op \in Ops /\ local[run.op].st \in Results
      /\ UNCHANGED <<op, authorized, poll, net, local, outcome>>
      /\ run' = [at |-> "receipt", op |-> run.op, gen |-> run.gen, result |-> local[run.op].st]
  <2>1. run' = [run EXCEPT !.at = "receipt", !.result = local[run.op].st] /\ run.at = "wait"
        /\ local[run.op].st \in Results
    BY DEF WaitLocal, Running
  <2> QED BY <2>1 DEF WaitLocal, Running, serverVars, localVars, Shapes, Busy
<1>2. \A o \in Ops : InHand(o)' = InHand(o)
  BY <1>1 DEF InHand
<1>3. Shapes'
  BY <1>1 DEF Shapes, OpShape, Busy, CallShape
<1>4. Records' /\ ExecutedOnce' /\ OpenIsKept' /\ UnclaimedIsNew' /\ ShownTrue'
  BY <1>1, <1>2 DEF Records, ExecutedOnce, OpenIsKept, Kept, Settled, UnclaimedIsNew, Never, ShownTrue
<1>5. TaskTrue' /\ LateTrue'
  BY <1>1 DEF TaskTrue, LateTrue, Truthful, Records
<1> QED BY <1>3, <1>4, <1>5

(* The pin goes when the server has settled the operation, and the task    *)
(* that could have executed it is the one that is done.                    *)
LEMMA AcknowledgeKeeps == ASSUME ControlInv, Acknowledge PROVE ControlInv'
<1> USE DEF ControlInv
<1>1. /\ run.at = "acknowledge" /\ run.op \in Ops /\ Settled(run.op)
      /\ UNCHANGED <<op, authorized, poll, net, outcome>>
      /\ run'.at \in {"none", "failed"} /\ run' = [at |-> run'.at, op |-> NoOp, gen |-> 0, result |-> "none"]
      /\ local' = local \/ local' = [local EXCEPT ![run.op].pinned = FALSE]
  BY DEF Acknowledge, Running, serverVars, TaskTrue, Shapes, Busy, RunFails, Idle
<1>2. /\ \A o \in Ops : /\ local'[o].st = local[o].st
                        /\ o # run.op => local'[o] = local[o]
      /\ local' \in [Ops -> [st : {"none", "accepted", "succeeded", "failed"}, pinned : BOOLEAN]]
  <2>1. CASE local' = local
    BY <2>1 DEF Shapes
  <2>2. CASE local' = [local EXCEPT ![run.op].pinned = FALSE]
    <3>1. local'[run.op] = [local[run.op] EXCEPT !.pinned = FALSE]
          /\ \A o \in Ops : o # run.op => local'[o] = local[o]
      BY <1>1, <2>2 DEF Shapes
    <3>2. local'[run.op] = [st |-> local[run.op].st, pinned |-> FALSE]
      <4>1. local[run.op] = [st |-> local[run.op].st, pinned |-> local[run.op].pinned]
        BY <1>1 DEF Shapes
      <4> QED BY <3>1, <4>1
    <3>3. local' = [o \in Ops |-> local'[o]]
      BY <2>2 DEF Shapes
    <3> QED BY <1>1, <3>1, <3>2, <3>3 DEF Shapes
  <2> QED BY <1>1, <2>1, <2>2
<1>3. \A o \in Ops : ~InHand(o)' /\ ~InHand(run.op)
  BY <1>1 DEF InHand
<1>4. Shapes'
  BY <1>1, <1>2 DEF Shapes, OpShape, Busy, CallShape
<1>5. Records' /\ ExecutedOnce' /\ UnclaimedIsNew' /\ ShownTrue'
  BY <1>1, <1>2, <1>3 DEF Records, ExecutedOnce, UnclaimedIsNew, Never, ShownTrue
<1>6. OpenIsKept'
  BY <1>1, <1>2, <1>3 DEF OpenIsKept, Kept, Settled
<1>7. TaskTrue' /\ LateTrue'
  BY <1>1 DEF TaskTrue, LateTrue, Truthful
<1> QED BY <1>4, <1>5, <1>6, <1>7

LEMMA PruneKeeps == ASSUME ControlInv, NEW o \in Ops, Prune(o) PROVE ControlInv'
<1> USE DEF ControlInv
<1>1. /\ local[o].st \in Results /\ ~local[o].pinned
      /\ local' = [local EXCEPT ![o] = NoLocal]
      /\ UNCHANGED <<op, authorized, poll, run, net, outcome>>
  BY DEF Prune, serverVars, clientVars
<1>2. /\ local'[o] = [st |-> "none", pinned |-> FALSE]
      /\ \A p \in Ops : p # o => local'[p] = local[p]
      /\ local' \in [Ops -> [st : {"none", "accepted", "succeeded", "failed"}, pinned : BOOLEAN]]
  BY <1>1 DEF Shapes, NoLocal
<1>3. ~Kept(o)
  BY <1>1 DEF Kept, Results
<1>4. \A p \in Ops : InHand(p)' = InHand(p)
  BY <1>1 DEF InHand
<1>5. Shapes'
  BY <1>1, <1>2 DEF Shapes, OpShape, Busy, CallShape
<1>6. Records' /\ ExecutedOnce' /\ UnclaimedIsNew' /\ ShownTrue'
  BY <1>1, <1>2, <1>4 DEF Records, ExecutedOnce, UnclaimedIsNew, Never, ShownTrue, Results
<1>7. OpenIsKept'
  BY <1>1, <1>2, <1>3, <1>4 DEF OpenIsKept, Kept, Settled
<1>8. TaskTrue' /\ LateTrue'
  BY <1>1 DEF TaskTrue, LateTrue, Truthful, Settled
<1> QED BY <1>5, <1>6, <1>7, <1>8

(* The next daemon fails what the journal left open; what had an outcome   *)
(* keeps it.                                                               *)
LEMMA OpenKeeps == ASSUME ControlInv, Open PROVE ControlInv'
<1> USE DEF ControlInv
<1>1. UNCHANGED <<op, authorized, poll, run, net>>
  BY DEF Open, serverVars
<1> DEFINE Agrees(o) ==
      /\ local'[o].st = "failed" /\ local'[o].pinned = local[o].pinned
      /\ outcome'[o].result = "failed" /\ outcome'[o].times = outcome[o].times
      /\ outcome'[o].refused = outcome[o].refused
      /\ local'[o] \in [st : {"none", "accepted", "succeeded", "failed"}, pinned : BOOLEAN]
      /\ outcome'[o] \in [result : {"none", "succeeded", "failed"}, times : Nat, refused : BOOLEAN]
<1>2. \A o \in Ops : local[o].st = "accepted" => Agrees(o)
  <2> SUFFICES ASSUME NEW o \in Ops, local[o].st = "accepted" PROVE Agrees(o)
    OBVIOUS
  <2>1. local'[o] = [local[o] EXCEPT !.st = "failed"] /\ outcome'[o] = [outcome[o] EXCEPT !.result = "failed"]
    BY DEF Open
  <2>2. local'[o] = [st |-> "failed", pinned |-> local[o].pinned]
    BY <2>1 DEF Shapes
  <2>3. outcome'[o] = [result |-> "failed", times |-> outcome[o].times, refused |-> outcome[o].refused]
    BY <2>1 DEF Shapes
  <2> QED BY <2>2, <2>3 DEF Shapes
<1>3. \A o \in Ops : local[o].st # "accepted" => local'[o] = local[o] /\ outcome'[o] = outcome[o]
  BY DEF Open
<1>4. local' = [o \in Ops |-> local'[o]] /\ outcome' = [o \in Ops |-> outcome'[o]]
  BY DEF Open
<1>5. local' \in [Ops -> [st : {"none", "accepted", "succeeded", "failed"}, pinned : BOOLEAN]]
  BY <1>2, <1>3, <1>4 DEF Shapes
<1>6. outcome' \in [Ops -> [result : {"none", "succeeded", "failed"}, times : Nat, refused : BOOLEAN]]
  BY <1>2, <1>3, <1>4 DEF Shapes
<1>7. Shapes'
  BY <1>1, <1>5, <1>6 DEF Shapes, OpShape, Busy, CallShape
<1>8. \A o \in Ops : /\ outcome'[o].times = outcome[o].times
                     /\ outcome'[o].refused = outcome[o].refused
                     /\ Kept(o) => Kept(o)'
                     /\ InHand(o)' = InHand(o)
                     /\ outcome[o].result # "none" => outcome'[o].result = outcome[o].result
  <2> SUFFICES ASSUME NEW o \in Ops
               PROVE  /\ outcome'[o].times = outcome[o].times
                      /\ outcome'[o].refused = outcome[o].refused
                      /\ Kept(o) => Kept(o)'
                      /\ outcome[o].result # "none" => outcome'[o].result = outcome[o].result
    BY <1>1 DEF InHand
  <2>1. CASE local[o].st = "accepted"
    <3>1. /\ local[o].pinned = local'[o].pinned /\ local'[o].st = "failed"
          /\ outcome'[o].times = outcome[o].times /\ outcome'[o].refused = outcome[o].refused
      BY <1>2, <2>1
    <3>2. outcome[o].result = "none"
      BY <2>1 DEF Records
    <3> QED BY <2>1, <3>1, <3>2 DEF Kept
  <2>2. CASE local[o].st # "accepted"
    BY <1>3, <2>2 DEF Kept
  <2> QED BY <2>1, <2>2
<1>9. Records' /\ ExecutedOnce'
  <2> SUFFICES ASSUME NEW o \in Ops
               PROVE  /\ local'[o].st = "accepted" => outcome'[o].result = "none"
                      /\ local'[o].st \in Results => outcome'[o].result = local'[o].st
                      /\ local'[o].st # "none" => outcome'[o].times # 0
                      /\ outcome'[o].result # "none" => outcome'[o].times # 0
                      /\ outcome'[o].times <= 1
    BY DEF Records, ExecutedOnce
  <2>1. CASE local[o].st = "accepted"
    <3>1. /\ local'[o].st = "failed" /\ outcome'[o].result = "failed"
          /\ outcome'[o].times = outcome[o].times
      BY <1>2, <2>1
    <3>2. outcome[o].times # 0 /\ outcome[o].times <= 1
      BY <2>1 DEF Records, ExecutedOnce
    <3> QED BY <3>1, <3>2 DEF Results
  <2>2. CASE local[o].st # "accepted"
    BY <1>3, <2>2 DEF Records, ExecutedOnce
  <2> QED BY <2>1, <2>2
<1>10. OpenIsKept' /\ UnclaimedIsNew'
  BY <1>1, <1>8 DEF OpenIsKept, Settled, UnclaimedIsNew, Never
<1>11. \A o \in Ops, r \in Results : Truthful(o, r) => Truthful(o, r)'
  BY <1>8 DEF Truthful
<1>12. TaskTrue' /\ LateTrue'
  BY <1>1, <1>11 DEF TaskTrue, LateTrue, Settled, Shapes, Busy, CallShape
<1>13. ShownTrue'
  BY <1>1, <1>8 DEF ShownTrue, Never
<1> QED BY <1>7, <1>9, <1>10, <1>12, <1>13

LEMMA StutterKeeps == ASSUME ControlInv, UNCHANGED vars PROVE ControlInv'
BY SameTask, SamePoll, StandsStill, RemoteKeeps
   DEF vars, serverVars, clientVars, localVars, ControlInv

-----------------------------------------------------------------------------
LEMMA ControlInit == ASSUME Init PROVE ControlInv
<1> USE DEF Init, Idle, NoLocal, NoOp
<1>1. Shapes
  BY DEF Shapes, OpShape, Busy
<1>2. Records /\ ExecutedOnce /\ UnclaimedIsNew /\ TaskTrue /\ LateTrue /\ ShownTrue
  BY DEF Records, ExecutedOnce, UnclaimedIsNew, Never, InHand, TaskTrue, LateTrue, ShownTrue, Results
<1>3. OpenIsKept
  BY DEF OpenIsKept, Kept
<1> QED BY <1>1, <1>2, <1>3 DEF ControlInv

LEMMA ControlStep == ControlInv /\ [Next]_vars => ControlInv'
<1> SUFFICES ASSUME ControlInv, [Next]_vars PROVE ControlInv'
  OBVIOUS
<1>1. ASSUME NEW o \in Ops, Request(o) \/ LocalDone(o) \/ Prune(o) PROVE ControlInv'
  BY <1>1, RequestKeeps, LocalDoneKeeps, PruneKeeps
<1>2. CASE ChangeDelivery \/ Withdraw \/ Expire \/ Arrive
  BY <1>2, EnvironmentKeeps
<1>3. CASE Down
  BY <1>3, DownKeeps
<1>4. CASE Open
  BY <1>4, OpenKeeps
<1>5. CASE PollStep
  BY <1>5, PollKeeps
<1>6. CASE RunStep
  BY <1>6, ClaimKeeps, ExecuteKeeps, WaitKeeps, ReceiptKeeps, AcknowledgeKeeps DEF RunStep
<1>7. CASE UNCHANGED vars
  BY <1>7, StutterKeeps
<1> QED BY <1>1, <1>2, <1>3, <1>4, <1>5, <1>6, <1>7 DEF Next

(* The invariant of requested operations: whatever calls are lost, late or *)
(* answered twice, what may still be executed is known to the local        *)
(* journal or was never executed, and every report under way is true.      *)
THEOREM ControlInvariant == Spec => []ControlInv
<1>1. Init => ControlInv
  BY ControlInit
<1> QED BY <1>1, ControlStep, PTL DEF Spec

(* "Reconnection cannot repeat execution" (fleet_connection.rs): a request *)
(* is executed once at most.                                               *)
THEOREM OperationOnce == Spec => []ExecutedOnce
<1>1. ControlInv => ExecutedOnce
  BY DEF ControlInv
<1> QED BY <1>1, ControlInvariant, PTL

(* What the server shows of a settled operation is what came of it.        *)
THEOREM OutcomeShown == Spec => []OutcomeTrue
<1>1. ControlInv => OutcomeTrue
  BY DEF ControlInv, OutcomeTrue, ShownTrue, Never, Records
<1> QED BY <1>1, ControlInvariant, PTL
=============================================================================
