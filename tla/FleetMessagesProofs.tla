------------------------ MODULE FleetMessagesProofs ------------------------
(***************************************************************************)
(* For every set of recipients and every number of messages, stops and     *)
(* faults: a session is given a message once at most, and a receipt that   *)
(* says delivered is true.  The argument: a message that was given stays   *)
(* in the file until its receipt is accepted, and from then on no snapshot *)
(* offers it that the client has not marked as answered.                   *)
(***************************************************************************)
EXTENDS FleetMessages, WellFoundedInduction, NaturalsInduction, TLAPS

States == Finals \union {"none", "pending", "inactive"}
Files == [msg : 0..MaxMsg, stage : {"none", "queued", "publishing", "delivered"}]
Snaps == {s \in [msg : 0..MaxMsg, agents : SUBSET Agents, active : SUBSET Agents] :
             s.agents # {} => s.msg \in Msgs}
Polls == [at : {"top", "apply", "skip", "answer"}, snap : Snaps, todo : SUBSET Agents,
          agent : Agents \union {"none"}]
Answers == [msg : Msgs, agent : Agents, state : Finals]

Typed ==
  /\ to \in [Msgs -> [Agents -> States]]
  /\ given \in [Msgs -> [Agents -> Nat]]
  /\ saved \in [Agents -> Files]
  /\ pub \in [Agents -> {"idle", "deliver", "given", "clear"}]
  /\ snap \in Snaps
  /\ poll \in Polls
  /\ net \subseteq Answers
  /\ poll.todo \subseteq poll.snap.agents
  /\ poll.at = "answer" => (poll.agent \in Agents /\ poll.snap.msg \in Msgs)
  /\ \A a \in Agents : saved[a].stage # "none" => saved[a].msg \in Msgs
  /\ \A a \in Agents : saved[a].stage = "none" => saved[a] = NoFile

(* What the file says of the message in it.                                *)
FileHolds ==
  \A a \in Agents :
    LET m == saved[a].msg IN
    /\ saved[a].stage = "queued" => given[m][a] = 0
    /\ saved[a].stage = "delivered" => given[m][a] = 1
    /\ pub[a] = "deliver" => (saved[a].stage = "publishing" /\ given[m][a] = 0)
    /\ pub[a] = "given" => (saved[a].stage = "publishing" /\ given[m][a] = 1)
    /\ pub[a] = "clear" => saved[a].stage \in {"queued", "delivered"}

(* An answer that says delivered is about a message that was given.        *)
AnswersTrue ==
  /\ \A m \in Msgs, a \in Agents : to[m][a] = "delivered" => given[m][a] = 1
  /\ \A c \in net : c.state = "delivered" => given[c.msg][c.agent] = 1

(* No snapshot the client has, or is about to apply, offers m to a.        *)
Covered(m, a) ==
  /\ (snap.msg = m /\ a \in snap.agents) => <<m, a>> \in completed
  /\ (poll.at = "apply" /\ poll.snap.msg = m /\ a \in poll.snap.agents)
        => <<m, a>> \in completed

(* A message that was given and is not in the file has its final outcome.  *)
Settled ==
  \A m \in Msgs, a \in Agents :
    ((given[m][a] > 0 /\ saved[a].msg # m) \/ (pub[a] = "clear" /\ saved[a].msg = m))
      => (to[m][a] \in Finals /\ Covered(m, a))

IInv == Typed /\ FileHolds /\ AnswersTrue /\ Settled /\ GivenOnce

(* A set of messages has a first one.                                      *)
LEMMA FirstExists ==
  ASSUME NEW S, S \subseteq Nat, S # {}
  PROVE  \E x \in S : \A y \in S : x <= y
<1> DEFINE R == OpToRel(<, Nat)
<1>1. IsWellFoundedOn(R, Nat)
  BY NatLessThanWellFounded
<1>2. \A x, y \in Nat : x < y => <<x, y>> \in R
  BY DEF OpToRel
<1> HIDE DEF R
<1>3. PICK x \in S : \A y \in S : ~ (<<y, x>> \in R)
  BY <1>1, WFMin
<1>4. \A y \in S : ~(y < x)
  BY <1>2, <1>3, Zenon
<1> QED BY <1>4

(* What the server offers is pending, and a snapshot.                      *)
LEMMA ControlIsPending ==
  ASSUME NEW active \in SUBSET Agents
  PROVE  /\ Control(active) \in Snaps
         /\ \A a \in Control(active).agents : to[Control(active).msg][a] = "pending"
<1>1. CASE Open = {}
  <2>1. Control(active) = [msg |-> 0, agents |-> {}, active |-> active]
    BY <1>1 DEF Control, NoSnap, NoMsg
  <2> QED BY <2>1, BoundsAssumption DEF Snaps, Msgs
<1>2. CASE Open # {}
  <2>1. Min(Open) \in Open
    <3>1. \E x \in Open : \A y \in Open : x <= y
      <4>1. Open \subseteq Nat
        BY DEF Open, Msgs
      <4> QED BY <4>1, <1>2, FirstExists
    <3> QED BY <3>1 DEF Min
  <2>2. Min(Open) \in Msgs
    BY <2>1 DEF Open
  <2>3. Control(active) = [msg |-> Min(Open), agents |-> PendingOf(Min(Open)), active |-> active]
    BY <1>2 DEF Control
  <2> HIDE DEF Min
  <2> QED BY <2>2, <2>3 DEF PendingOf, Snaps, Msgs
<1> QED BY <1>1, <1>2

(* An answer at the server: what is final stays, and a delivered appears    *)
(* only where one was told.                                                *)
LEMMA AnswerStep ==
  ASSUME Typed, NEW m \in Msgs, NEW a \in Agents, NEW state \in Finals,
         \/ Acknowledged(m, a, state) /\ UNCHANGED net
         \/ Unanswered(m, a, state)
  PROVE  /\ to' \in [Msgs -> [Agents -> States]]
         /\ net' \subseteq Answers
         /\ \A k \in Msgs, b \in Agents :
              /\ to[k][b] \in Finals => to'[k][b] \in Finals
              /\ to'[k][b] = "delivered" =>
                   (to[k][b] = "delivered" \/ (k = m /\ b = a /\ state = "delivered"))
         /\ \A c \in net' : c \in net \/ (c.msg = m /\ c.agent = a /\ c.state = state)
<1>1. CASE UNCHANGED to
  <2>1. CASE UNCHANGED net
    BY <1>1, <2>1 DEF Typed
  <2>2. CASE net' = net \cup {[msg |-> m, agent |-> a, state |-> state]}
    BY <1>1, <2>2 DEF Typed, Answers
  <2> QED BY <2>1, <2>2, <1>1 DEF Unanswered
<1>2. CASE Acknowledged(m, a, state) /\ UNCHANGED net
  BY <1>2 DEF Acknowledged, Accepts, Typed, States, Finals
<1> QED BY <1>1, <1>2 DEF Unanswered

LEMMA InitIInv == Init => IInv
<1> SUFFICES ASSUME Init PROVE IInv
  OBVIOUS
<1>1. Typed
  BY BoundsAssumption DEF Init, Typed, States, Finals, Files, NoFile, NoMsg, Snaps, NoSnap,
     Polls, Top, Answers, Msgs
<1>2. FileHolds /\ AnswersTrue /\ Settled /\ GivenOnce
  BY BoundsAssumption DEF Init, FileHolds, AnswersTrue, Settled, GivenOnce, NoFile, NoMsg, Msgs
<1> QED BY <1>1, <1>2 DEF IInv

LEMMA StepIInv ==
  ASSUME IInv, [Next]_vars
  PROVE  IInv'
<1> USE BoundsAssumption
<1> USE DEF Msgs
<1>1. ASSUME NEW m \in Msgs, Create(m) PROVE IInv'
  <2>1. Typed'
    BY <1>1 DEF Create, Created, IInv, Typed, States
  <2>2. FileHolds'
    BY <1>1 DEF Create, Created, IInv, Typed, FileHolds, GivenOnce, Settled, Covered, States
  <2>3. AnswersTrue'
    BY <1>1 DEF Create, Created, IInv, Typed, FileHolds, AnswersTrue, States
  <2>4. Settled'
    BY <1>1 DEF Create, Created, IInv, Typed, FileHolds, Settled, Covered, Finals, States
  <2>5. GivenOnce'
    BY <1>1 DEF Create, Created, IInv, Typed, FileHolds, GivenOnce, States
  <2> QED BY <2>1, <2>2, <2>3, <2>4, <2>5 DEF IInv
<1>2. ASSUME NEW m \in Msgs, Lapse(m) PROVE IInv'
  <2>1. Typed'
    BY <1>2 DEF Lapse, IInv, Typed
  <2>2. FileHolds'
    BY <1>2 DEF Lapse, IInv, Typed, FileHolds, GivenOnce, Settled, Covered
  <2>3. AnswersTrue'
    BY <1>2 DEF Lapse, IInv, Typed, FileHolds, AnswersTrue
  <2>4. Settled'
    BY <1>2 DEF Lapse, IInv, Typed, FileHolds, Settled, Covered, Finals
  <2>5. GivenOnce'
    BY <1>2 DEF Lapse, IInv, Typed, FileHolds, GivenOnce
  <2> QED BY <2>1, <2>2, <2>3, <2>4, <2>5 DEF IInv
<1>3. CASE Arrive
  <2>1. Typed'
    BY <1>3 DEF Arrive, Acknowledged, Accepts, IInv, Typed, States, Answers
  <2>2. FileHolds'
    BY <1>3 DEF Arrive, Acknowledged, Accepts, IInv, Typed, FileHolds, GivenOnce, Settled, Covered, States, Answers
  <2>3. AnswersTrue'
    BY <1>3 DEF Arrive, Acknowledged, Accepts, IInv, Typed, FileHolds, AnswersTrue, States, Answers
  <2>4. Settled'
    BY <1>3 DEF Arrive, Acknowledged, Accepts, IInv, Typed, FileHolds, Settled, Covered, Finals, States, Answers
  <2>5. GivenOnce'
    BY <1>3 DEF Arrive, Acknowledged, Accepts, IInv, Typed, FileHolds, GivenOnce, States, Answers
  <2> QED BY <2>1, <2>2, <2>3, <2>4, <2>5 DEF IInv
<1>4. CASE Read
  <2>1. /\ UNCHANGED <<to, given, saved, snap, net, completed>>
        /\ pub' = pub \/ pub' = [a \in Agents |-> "idle"]
    BY <1>4 DEF Read, Disconnect
  <2>2. /\ poll' \in Polls /\ poll'.todo \subseteq poll'.snap.agents /\ poll'.at # "answer"
        /\ poll'.at = "apply" => \A a \in poll'.snap.agents : to[poll'.snap.msg][a] = "pending"
    <3>1. ASSUME NEW active \in SUBSET Agents, Poll("apply", Control(active), {})
          PROVE  /\ poll' \in Polls /\ poll'.todo \subseteq poll'.snap.agents
                 /\ poll'.at # "answer"
                 /\ \A a \in poll'.snap.agents : to[poll'.snap.msg][a] = "pending"
      BY <3>1, ControlIsPending DEF Poll, Polls
    <3>2. CASE UNCHANGED poll
      BY <1>4, <3>2 DEF Read, At, IInv, Typed
    <3> QED BY <1>4, <3>1, <3>2 DEF Read
  <2>3. Typed' /\ FileHolds' /\ AnswersTrue' /\ GivenOnce'
    BY <2>1, <2>2 DEF IInv, Typed, FileHolds, AnswersTrue, GivenOnce
  <2>4. Settled'
    BY <2>1, <2>2 DEF IInv, Settled, Covered, Finals
  <2> QED BY <2>3, <2>4 DEF IInv
<1>5. CASE Apply
  <2>1. /\ UNCHANGED <<to, given, saved, net>>
        /\ \/ /\ snap' = poll.snap /\ completed' = {c \in completed : c[1] = poll.snap.msg}
              /\ pub' = [a \in Agents |-> IF a \in poll.snap.active THEN pub[a] ELSE "idle"]
           \/ UNCHANGED <<snap, completed, pub>>
    BY <1>5 DEF Apply
  <2>2. /\ poll.at = "apply" /\ poll.snap \in Snaps
        /\ poll' = [at |-> "skip", snap |-> poll.snap, todo |-> poll.snap.agents, agent |-> "none"]
        /\ poll' \in Polls
    BY <1>5 DEF Apply, At, Poll, IInv, Typed, Polls, Snaps
  <2>3. Typed' /\ FileHolds' /\ AnswersTrue' /\ GivenOnce'
    BY <2>1, <2>2 DEF IInv, Typed, FileHolds, AnswersTrue, GivenOnce
  <2>4. Settled'
    BY <2>1, <2>2 DEF IInv, Typed, Settled, Covered
  <2> QED BY <2>3, <2>4 DEF IInv
<1>6. CASE Consider
  <2>1. /\ UNCHANGED <<to, given, saved, pub, snap, net, completed>>
        /\ poll' \in Polls /\ poll'.todo \subseteq poll'.snap.agents
        /\ poll'.at = "answer" => (poll'.agent \in Agents /\ poll'.snap.msg \in Msgs)
        /\ poll'.at # "apply"
    <3>1. ASSUME poll' = Top
          PROVE  /\ poll' \in Polls /\ poll'.todo \subseteq poll'.snap.agents
                 /\ poll'.at = "top"
      BY <3>1 DEF Top, NoSnap, NoMsg, Polls, Snaps
    <3>2. ASSUME NEW a \in Absent,
                 poll' = [poll EXCEPT !.at = "answer", !.agent = a, !.todo = @ \ {a}]
          PROVE  /\ poll' \in Polls /\ poll'.todo \subseteq poll'.snap.agents
                 /\ poll'.agent \in Agents /\ poll'.snap.msg \in Msgs
                 /\ poll'.at = "answer"
      BY <3>2 DEF IInv, Typed, Absent, Polls, Snaps
    <3> QED BY <1>6, <3>1, <3>2 DEF Consider
  <2>2. Typed' /\ FileHolds' /\ AnswersTrue' /\ GivenOnce'
    BY <2>1 DEF IInv, Typed, FileHolds, AnswersTrue, GivenOnce
  <2>3. Settled'
    BY <2>1 DEF IInv, Settled, Covered
  <2> QED BY <2>2, <2>3 DEF IInv
<1>7. CASE Skip
  <2> DEFINE m == poll.snap.msg
             a == poll.agent
  <2>1. m \in Msgs /\ a \in Agents
    BY <1>7 DEF Skip, At, IInv, Typed
  <2>2. /\ UNCHANGED <<snap, saved, given>> /\ completed \subseteq completed'
        /\ pub' = pub \/ pub' = [x \in Agents |-> "idle"]
        /\ \/ poll' = Top
           \/ poll' = [at |-> "skip", snap |-> poll.snap, todo |-> poll.todo, agent |-> "none"]
    BY <1>7 DEF Skip, Poll, Disconnect
  <2>3. \/ Acknowledged(m, a, "skipped") /\ UNCHANGED net
        \/ Unanswered(m, a, "skipped")
    BY <1>7 DEF Skip, Unanswered
  <2>4. /\ poll' \in Polls /\ poll'.todo \subseteq poll'.snap.agents
        /\ poll'.at \notin {"answer", "apply"}
    BY <2>2 DEF IInv, Typed, Top, NoSnap, NoMsg, Polls, Snaps
  <2>5. /\ to' \in [Msgs -> [Agents -> States]]
        /\ net' \subseteq Answers
        /\ \A k \in Msgs, b \in Agents :
             /\ to[k][b] \in Finals => to'[k][b] \in Finals
             /\ to'[k][b] = "delivered" => to[k][b] = "delivered"
        /\ \A c \in net' : c \in net \/ c.state = "skipped"
    BY <2>1, <2>3, AnswerStep DEF IInv, Finals
  <2> HIDE DEF m, a
  <2>6. Typed' /\ FileHolds' /\ AnswersTrue' /\ GivenOnce'
    BY <2>2, <2>4, <2>5 DEF IInv, Typed, FileHolds, AnswersTrue, GivenOnce
  <2>7. Settled'
    BY <2>2, <2>4, <2>5 DEF IInv, Settled, Covered
  <2> QED BY <2>6, <2>7 DEF IInv
<1>8. CASE Crash
  <2>1. Typed'
    BY <1>8 DEF Crash, Top, NoSnap, IInv, Typed, Polls, Snaps, NoMsg
  <2>2. FileHolds'
    BY <1>8 DEF Crash, Top, NoSnap, IInv, Typed, FileHolds, GivenOnce, Settled, Covered, Polls, Snaps, NoMsg
  <2>3. AnswersTrue'
    BY <1>8 DEF Crash, Top, NoSnap, IInv, Typed, FileHolds, AnswersTrue, Polls, Snaps, NoMsg
  <2>4. Settled'
    BY <1>8 DEF Crash, Top, NoSnap, IInv, Typed, FileHolds, Settled, Covered, Finals, Polls, Snaps, NoMsg
  <2>5. GivenOnce'
    BY <1>8 DEF Crash, Top, NoSnap, IInv, Typed, FileHolds, GivenOnce, Polls, Snaps, NoMsg
  <2> QED BY <2>1, <2>2, <2>3, <2>4, <2>5 DEF IInv
<1>9. ASSUME NEW a \in Agents, Bind(a) PROVE IInv'
  <2>1. Typed'
    BY <1>9 DEF Bind, IInv, Typed
  <2>2. FileHolds'
    BY <1>9 DEF Bind, IInv, Typed, FileHolds, GivenOnce, Settled, Covered
  <2>3. AnswersTrue'
    BY <1>9 DEF Bind, IInv, Typed, FileHolds, AnswersTrue
  <2>4. Settled'
    BY <1>9 DEF Bind, IInv, Typed, FileHolds, Settled, Covered, Finals
  <2>5. GivenOnce'
    BY <1>9 DEF Bind, IInv, Typed, FileHolds, GivenOnce
  <2> QED BY <2>1, <2>2, <2>3, <2>4, <2>5 DEF IInv
<1>10. ASSUME NEW a \in Agents, Unbind(a) PROVE IInv'
  <2>1. Typed'
    BY <1>10 DEF Unbind, Bound, IInv, Typed
  <2>2. FileHolds'
    BY <1>10 DEF Unbind, Bound, IInv, Typed, FileHolds, GivenOnce, Settled, Covered
  <2>3. AnswersTrue'
    BY <1>10 DEF Unbind, Bound, IInv, Typed, FileHolds, AnswersTrue
  <2>4. Settled'
    BY <1>10 DEF Unbind, Bound, IInv, Typed, FileHolds, Settled, Covered, Finals
  <2>5. GivenOnce'
    BY <1>10 DEF Unbind, Bound, IInv, Typed, FileHolds, GivenOnce
  <2> QED BY <2>1, <2>2, <2>3, <2>4, <2>5 DEF IInv
<1>11. ASSUME NEW a \in Agents, Take(a) PROVE IInv'
  <2>1. Typed'
    BY <1>11 DEF Take, Ready, Offer, NoMsg, NoFile, OnlyPublishes, IInv, Typed, Files, Snaps
  <2>2. FileHolds'
    <3> DEFINE m == snap.msg
    <3>1. /\ m \in Msgs /\ a \in snap.agents /\ <<m, a>> \notin completed
          /\ saved[a].msg = 0 /\ m # 0 /\ pub[a] = "idle"
          /\ saved' = [saved EXCEPT ![a] = [msg |-> m, stage |-> "queued"]]
          /\ UNCHANGED <<given, pub>>
      <4>1. /\ a \in snap.agents /\ <<m, a>> \notin completed /\ Offer(a) = m /\ m # 0
        BY <1>11 DEF Take, Offer, NoMsg
      <4>2. m \in Msgs
        BY <4>1 DEF IInv, Typed, Snaps
      <4>3. /\ saved[a].msg = 0 /\ pub[a] = "idle" /\ UNCHANGED <<given, pub>>
            /\ saved' = [saved EXCEPT ![a] = [msg |-> Offer(a), stage |-> "queued"]]
        BY <1>11 DEF Take, Ready, OnlyPublishes, NoFile, NoMsg
      <4> QED BY <4>1, <4>2, <4>3
    <3>2. given[m][a] = 0
      BY <3>1 DEF IInv, Typed, Settled, Covered
    <3> HIDE DEF m
    <3> QED BY <3>1, <3>2 DEF IInv, Typed, FileHolds
  <2>3. AnswersTrue'
    BY <1>11 DEF Take, Ready, Offer, NoMsg, NoFile, OnlyPublishes, IInv, Typed, FileHolds, AnswersTrue, Files, Snaps
  <2>4. Settled'
    BY <1>11 DEF Take, Ready, Offer, NoMsg, NoFile, OnlyPublishes, IInv, Typed, FileHolds, Settled, Covered, Finals, Files, Snaps
  <2>5. GivenOnce'
    BY <1>11 DEF Take, Ready, Offer, NoMsg, NoFile, OnlyPublishes, IInv, Typed, FileHolds, GivenOnce, Files, Snaps
  <2> QED BY <2>1, <2>2, <2>3, <2>4, <2>5 DEF IInv
<1>12. ASSUME NEW a \in Agents, Recover(a) PROVE IInv'
  <2>1. Typed'
    BY <1>12 DEF Recover, Ready, Stage, OnlyPublishes, IInv, Typed, Files, NoFile, NoMsg
  <2>2. FileHolds'
    BY <1>12 DEF Recover, Ready, Stage, OnlyPublishes, IInv, Typed, FileHolds, GivenOnce, Settled, Covered, Files, NoFile, NoMsg
  <2>3. AnswersTrue'
    BY <1>12 DEF Recover, Ready, Stage, OnlyPublishes, IInv, Typed, FileHolds, AnswersTrue, Files, NoFile, NoMsg
  <2>4. Settled'
    BY <1>12 DEF Recover, Ready, Stage, OnlyPublishes, IInv, Typed, FileHolds, Settled, Covered, Finals, Files, NoFile, NoMsg
  <2>5. GivenOnce'
    BY <1>12 DEF Recover, Ready, Stage, OnlyPublishes, IInv, Typed, FileHolds, GivenOnce, Files, NoFile, NoMsg
  <2> QED BY <2>1, <2>2, <2>3, <2>4, <2>5 DEF IInv
<1>13. ASSUME NEW a \in Agents, Submit(a) PROVE IInv'
  <2>1. Typed'
    BY <1>13 DEF Submit, Ready, Stage, Goes, OnlyPublishes, IInv, Typed, Files, NoFile, NoMsg
  <2>2. FileHolds'
    BY <1>13 DEF Submit, Ready, Stage, Goes, OnlyPublishes, IInv, Typed, FileHolds, GivenOnce, Settled, Covered, Files, NoFile, NoMsg
  <2>3. AnswersTrue'
    BY <1>13 DEF Submit, Ready, Stage, Goes, OnlyPublishes, IInv, Typed, FileHolds, AnswersTrue, Files, NoFile, NoMsg
  <2>4. Settled'
    BY <1>13 DEF Submit, Ready, Stage, Goes, OnlyPublishes, IInv, Typed, FileHolds, Settled, Covered, Finals, Files, NoFile, NoMsg
  <2>5. GivenOnce'
    BY <1>13 DEF Submit, Ready, Stage, Goes, OnlyPublishes, IInv, Typed, FileHolds, GivenOnce, Files, NoFile, NoMsg
  <2> QED BY <2>1, <2>2, <2>3, <2>4, <2>5 DEF IInv
<1>14. ASSUME NEW a \in Agents, Give(a) PROVE IInv'
  <2>1. Typed'
    BY <1>14 DEF Give, Ready, Goes, IInv, Typed, Files, NoFile, FileHolds
  <2>2. FileHolds'
    BY <1>14 DEF Give, Ready, Goes, IInv, Typed, FileHolds, GivenOnce, Settled, Covered, Files, NoFile
  <2>3. AnswersTrue'
    BY <1>14 DEF Give, Ready, Goes, IInv, Typed, FileHolds, AnswersTrue, Files, NoFile
  <2>4. Settled'
    BY <1>14 DEF Give, Ready, Goes, IInv, Typed, FileHolds, Settled, Covered, Finals, Files, NoFile
  <2>5. GivenOnce'
    BY <1>14 DEF Give, Ready, Goes, IInv, Typed, FileHolds, GivenOnce, Files, NoFile
  <2> QED BY <2>1, <2>2, <2>3, <2>4, <2>5 DEF IInv
<1>15. ASSUME NEW a \in Agents, SaveDelivered(a) PROVE IInv'
  <2>1. Typed'
    BY <1>15 DEF SaveDelivered, Ready, Stage, Goes, OnlyPublishes, IInv, Typed, Files, NoFile, FileHolds
  <2>2. FileHolds'
    BY <1>15 DEF SaveDelivered, Ready, Stage, Goes, OnlyPublishes, IInv, Typed, FileHolds, GivenOnce, Settled, Covered, Files, NoFile
  <2>3. AnswersTrue'
    BY <1>15 DEF SaveDelivered, Ready, Stage, Goes, OnlyPublishes, IInv, Typed, FileHolds, AnswersTrue, Files, NoFile
  <2>4. Settled'
    BY <1>15 DEF SaveDelivered, Ready, Stage, Goes, OnlyPublishes, IInv, Typed, FileHolds, Settled, Covered, Finals, Files, NoFile
  <2>5. GivenOnce'
    BY <1>15 DEF SaveDelivered, Ready, Stage, Goes, OnlyPublishes, IInv, Typed, FileHolds, GivenOnce, Files, NoFile
  <2> QED BY <2>1, <2>2, <2>3, <2>4, <2>5 DEF IInv
<1>16. ASSUME NEW a \in Agents, Report(a) PROVE IInv'
  <2> DEFINE m == saved[a].msg
             st == Answer(a)
  <2>1. /\ m \in Msgs /\ st \in Finals /\ saved[a].stage \in {"queued", "delivered"}
        /\ st = "delivered" => given[m][a] = 1
    BY <1>16 DEF Report, Answer, Finals, IInv, Typed, FileHolds
  <2>2. UNCHANGED <<snap, saved, poll, given>> /\ completed \subseteq completed'
    BY <1>16 DEF Report, OnlyPublishes
  <2>3. \/ Acknowledged(m, a, st) /\ UNCHANGED net
        \/ Unanswered(m, a, st)
    BY <1>16 DEF Report, Unanswered
  <2>4. \/ pub' = [x \in Agents |-> "idle"]
        \/ /\ pub' = [pub EXCEPT ![a] = "clear"] /\ <<m, a>> \in completed'
           /\ Accepts(m, a, st) /\ Acknowledged(m, a, st)
    BY <1>16 DEF Report, Goes, Disconnect
  <2>5. /\ to' \in [Msgs -> [Agents -> States]]
        /\ net' \subseteq Answers
        /\ \A k \in Msgs, b \in Agents :
             /\ to[k][b] \in Finals => to'[k][b] \in Finals
             /\ to'[k][b] = "delivered" => (to[k][b] = "delivered" \/ given[k][b] = 1)
        /\ \A c \in net' :
             c \in net \/ (c.msg = m /\ c.agent = a /\ c.state = st)
    BY <2>1, <2>3, AnswerStep DEF IInv
  <2>6. (Accepts(m, a, st) /\ Acknowledged(m, a, st)) => to'[m][a] \in Finals
    BY <2>1 DEF Accepts, Acknowledged, IInv, Typed
  <2> HIDE DEF m, st
  <2>7. saved[a].msg = m
    BY DEF m
  <2>8. Typed' /\ FileHolds' /\ GivenOnce'
    BY <2>1, <2>2, <2>4, <2>5 DEF IInv, Typed, FileHolds, GivenOnce
  <2>9. AnswersTrue'
    BY <2>1, <2>2, <2>5 DEF IInv, AnswersTrue
  <2>10. Settled'
    <3>1. CASE pub' = [x \in Agents |-> "idle"]
      BY <3>1, <2>2, <2>5 DEF IInv, Settled, Covered
    <3>2. CASE pub' = [pub EXCEPT ![a] = "clear"] /\ <<m, a>> \in completed'
               /\ to'[m][a] \in Finals
      BY <3>2, <2>1, <2>2, <2>5, <2>7 DEF IInv, Typed, Settled, Covered
    <3> QED BY <3>1, <3>2, <2>4, <2>6
  <2> QED BY <2>8, <2>9, <2>10 DEF IInv
<1>17. ASSUME NEW a \in Agents, Clear(a) PROVE IInv'
  <2>1. Typed'
    BY <1>17 DEF Clear, Ready, Goes, NoFile, NoMsg, OnlyPublishes, IInv, Typed, Files
  <2>2. FileHolds'
    BY <1>17 DEF Clear, Ready, Goes, NoFile, NoMsg, OnlyPublishes, IInv, Typed, FileHolds, GivenOnce, Settled, Covered, Files
  <2>3. AnswersTrue'
    BY <1>17 DEF Clear, Ready, Goes, NoFile, NoMsg, OnlyPublishes, IInv, Typed, FileHolds, AnswersTrue, Files
  <2>4. Settled'
    BY <1>17 DEF Clear, Ready, Goes, NoFile, NoMsg, OnlyPublishes, IInv, Typed, FileHolds, Settled, Covered, Finals, Files
  <2>5. GivenOnce'
    BY <1>17 DEF Clear, Ready, Goes, NoFile, NoMsg, OnlyPublishes, IInv, Typed, FileHolds, GivenOnce, Files
  <2> QED BY <2>1, <2>2, <2>3, <2>4, <2>5 DEF IInv
<1>18. ASSUME NEW a \in Agents, Interrupt(a) PROVE IInv'
  <2>1. Typed'
    BY <1>18 DEF Interrupt, Goes, OnlyPublishes, IInv, Typed
  <2>2. FileHolds'
    BY <1>18 DEF Interrupt, Goes, OnlyPublishes, IInv, Typed, FileHolds, GivenOnce, Settled, Covered
  <2>3. AnswersTrue'
    BY <1>18 DEF Interrupt, Goes, OnlyPublishes, IInv, Typed, FileHolds, AnswersTrue
  <2>4. Settled'
    BY <1>18 DEF Interrupt, Goes, OnlyPublishes, IInv, Typed, FileHolds, Settled, Covered, Finals
  <2>5. GivenOnce'
    BY <1>18 DEF Interrupt, Goes, OnlyPublishes, IInv, Typed, FileHolds, GivenOnce
  <2> QED BY <2>1, <2>2, <2>3, <2>4, <2>5 DEF IInv
<1>19. CASE UNCHANGED vars
  <2>1. Typed'
    BY <1>19 DEF vars, IInv, Typed
  <2>2. FileHolds'
    BY <1>19 DEF vars, IInv, Typed, FileHolds, GivenOnce, Settled, Covered
  <2>3. AnswersTrue'
    BY <1>19 DEF vars, IInv, Typed, FileHolds, AnswersTrue
  <2>4. Settled'
    BY <1>19 DEF vars, IInv, Typed, FileHolds, Settled, Covered, Finals
  <2>5. GivenOnce'
    BY <1>19 DEF vars, IInv, Typed, FileHolds, GivenOnce
  <2> QED BY <2>1, <2>2, <2>3, <2>4, <2>5 DEF IInv
<1> QED
  BY <1>1, <1>2, <1>3, <1>4, <1>5, <1>6, <1>7, <1>8, <1>9, <1>10, <1>11, <1>12, <1>13, <1>14, <1>15, <1>16, <1>17, <1>18, <1>19
     DEF Next, PollStep, Publish

(* No session is given a message twice: not after a crash between the input
   and its receipt, a lost or late receipt, or a snapshot taken before it. *)
THEOREM MessagesGivenOnce == Spec => []GivenOnce
<1>1. IInv => GivenOnce
  BY DEF IInv
<1> QED BY InitIInv, StepIInv, <1>1, PTL DEF Spec

(* A delivery the server shows as delivered was given to the session.      *)
THEOREM DeliveredTrue == Spec => []DeliveredIsGiven
<1>1. IInv => DeliveredIsGiven
  BY DEF IInv, AnswersTrue, DeliveredIsGiven
<1> QED BY InitIInv, StepIInv, <1>1, PTL DEF Spec
=============================================================================
