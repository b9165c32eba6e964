--------------------------- MODULE FleetMessages ---------------------------
(***************************************************************************)
(* Direct messages to the agents of a fleet: the server keeps a message    *)
(* with one delivery per recipient (crossfire domain/fleet/message), the   *)
(* controller's connection offers the first pending message to the bound   *)
(* listeners and answers "skipped" for the recipients that have none       *)
(* (adapter-crossfire fleet_connection), and a listener gives the message  *)
(* to its native session and answers "delivered" (agent-core               *)
(* controller_input), through a file that outlives it.                     *)
(***************************************************************************)
EXTENDS Naturals, FiniteSets, FiniteSetsExt

CONSTANTS Agents,    \* the recipients
          MaxMsg,    \* messages, in the order they are created
          MaxStops,  \* bound on stopped listeners
          MaxFaults  \* bound on lost calls, suspended accounts and interrupted publications
ASSUME BoundsAssumption == MaxMsg \in Nat /\ MaxStops \in Nat /\ MaxFaults \in Nat

VARIABLES
  to,         \* server: [message -> [agent -> delivery state]]
  expired,    \* server: the messages past their ten minutes
  connected,  \* client: status.connected
  stale,      \* client: the token `requests` is cancelled
  snap,       \* client: the last snapshot: its message, the recipients, the active agents
  completed,  \* client: what has been answered of it
  poll,       \* where the polling task is
  listener,   \* client: the state of each agent's listener
  pub,        \* where the publisher of a bound listener is
  saved,      \* durable: the controller-input file of each agent
  given,      \* native: how often a message was given to a session
  net,        \* calls given up that may still reach the server
  stops, faults

vars == <<to, expired, connected, stale, snap, completed, poll, listener, pub, saved,
          given, net, stops, faults>>

-----------------------------------------------------------------------------
Msgs == 1..MaxMsg
NoMsg == 0
NoSnap == [msg |-> NoMsg, agents |-> {}, active |-> {}]
NoFile == [msg |-> NoMsg, stage |-> "none"]
Top == [at |-> "top", snap |-> NoSnap, todo |-> {}, agent |-> "none"]

(* "skipped" and "lapsed" are both the state skipped, with the error       *)
(* messages of the polling task and of the publisher.                      *)
Finals == {"delivered", "skipped", "lapsed"}
PendingOf(m) == {a \in Agents : to[m][a] = "pending"}
Created(m) == \E a \in Agents : to[m][a] # "none"
Open == {m \in Msgs \ expired : PendingOf(m) # {}}

Fault == faults < MaxFaults /\ faults' = faults + 1

Init == /\ to = [m \in Msgs |-> [a \in Agents |-> "none"]] /\ expired = {}
        /\ connected = FALSE /\ stale = FALSE /\ snap = NoSnap /\ completed = {}
        /\ poll = Top
        /\ listener \in [Agents -> {"off", "bound"}]
        /\ pub = [a \in Agents |-> "idle"]
        /\ saved = [a \in Agents |-> NoFile]
        /\ given = [m \in Msgs |-> [a \in Agents |-> 0]]
        /\ net = {} /\ stops = 0 /\ faults = 0

-----------------------------------------------------------------------------
(* The server *)

Create(m) == /\ ~Created(m) /\ \A k \in 1..(m-1) : Created(k)
             /\ \E active \in SUBSET Agents :
                  to' = [to EXCEPT ![m] = [a \in Agents |-> IF a \in active THEN "pending"
                                                            ELSE "inactive"]]
             /\ UNCHANGED <<expired, connected, stale, snap, completed, poll, listener, pub,
                            saved, given, net, stops, faults>>
Lapse(m) == /\ Created(m) /\ m \notin expired /\ expired' = expired \cup {m}
            /\ UNCHANGED <<to, connected, stale, snap, completed, poll, listener, pub, saved,
                           given, net, stops, faults>>

(* The first open message, with the recipients that have not answered, and *)
(* the agents whose accounts are active at the time.                       *)
Control(active) ==
  IF Open = {} THEN [NoSnap EXCEPT !.active = active]
  ELSE LET m == Min(Open) IN [msg |-> m, agents |-> PendingOf(m), active |-> active]

(* A final outcome is repeated, never changed; a message that has expired  *)
(* still takes its answers.                                                *)
Accepts(m, a, state) == to[m][a] \in {"pending", state}
Acknowledged(m, a, state) == to' = IF Accepts(m, a, state) THEN [to EXCEPT ![m][a] = state] ELSE to

Arrive == \E c \in net : /\ net' = net \ {c} /\ Acknowledged(c.msg, c.agent, c.state)
                         /\ UNCHANGED <<expired, connected, stale, snap, completed, poll,
                                        listener, pub, saved, given, stops, faults>>

(* A call without an answer: it has arrived, it never will or it may yet.  *)
Unanswered(m, a, state) ==
  \/ Acknowledged(m, a, state) /\ UNCHANGED net
  \/ UNCHANGED <<to, net>>
  \/ net' = net \cup {[msg |-> m, agent |-> a, state |-> state]} /\ UNCHANGED to

-----------------------------------------------------------------------------
(* The client's shared state.  A listener loses its generation, and with   *)
(* it the publication under way, when the connection is lost.              *)

Bound(a) == listener[a] # "off"
Disconnect == /\ connected' = FALSE /\ stale' = TRUE
              /\ pub' = [a \in Agents |-> "idle"]

(* Mutant: the listener is offered what it has answered already. *)
OfferCompleted(a) == IF a \in snap.agents THEN snap.msg ELSE NoMsg

(* refresh: the input that a bound listener sees.                          *)
Offer(a) == IF a \in snap.agents /\ <<snap.msg, a>> \notin completed THEN snap.msg ELSE NoMsg

-----------------------------------------------------------------------------
(* The polling task *)

At(p) == poll.at = p
Poll(p, s, todo) == poll' = [at |-> p, snap |-> s, todo |-> todo, agent |-> "none"]

(* A new iteration has a fresh token; its answer is a snapshot of the      *)
(* server that is applied some time after it was taken.                    *)
Read == /\ At("top")
        /\ \/ /\ \E active \in SUBSET Agents :
                    /\ Poll("apply", Control(active), {})
                    /\ IF active = Agents THEN UNCHANGED faults ELSE Fault
              /\ stale' = FALSE
              /\ UNCHANGED <<connected, pub>>
           \/ /\ Fault /\ Disconnect /\ UNCHANGED poll
        /\ UNCHANGED <<to, expired, snap, completed, listener, saved, given, net, stops>>

(* The listener of an agent that is not active loses its connection.  When *)
(* a change of delivery has overtaken the snapshot, it is not applied, but *)
(* its recipients are gone through all the same.                           *)
Apply == /\ At("apply")
         /\ \/ /\ completed' = {c \in completed : c[1] = poll.snap.msg}
               /\ snap' = poll.snap /\ connected' = TRUE
               /\ pub' = [a \in Agents |-> IF a \in poll.snap.active THEN pub[a] ELSE "idle"]
               /\ UNCHANGED faults
            \/ Fault /\ UNCHANGED <<completed, snap, connected, pub>>
         /\ Poll("skip", poll.snap, poll.snap.agents)
         /\ UNCHANGED <<to, expired, stale, listener, saved, given, net, stops>>

(* The recipients without a listener, at the moment each one's turn comes, *)
(* and those that are not active.                                          *)
Absent == {a \in poll.todo : /\ ~(Bound(a) /\ a \in poll.snap.active)
                             /\ <<poll.snap.msg, a>> \notin completed}
Consider ==
  /\ At("skip")
  /\ \/ /\ Absent = {} /\ poll' = Top
     \/ \E a \in Absent :
          poll' = [poll EXCEPT !.at = "answer", !.agent = a, !.todo = @ \ {a}]
  /\ UNCHANGED <<to, expired, connected, stale, snap, completed, listener, pub, saved, given,
                 net, stops, faults>>

Skip ==
  LET m == poll.snap.msg
      a == poll.agent IN
  /\ At("answer")
  /\ \/ /\ stale /\ poll' = Top /\ Unanswered(m, a, "skipped")
        /\ UNCHANGED <<connected, stale, completed, pub, faults>>
     \/ /\ ~stale /\ Accepts(m, a, "skipped") /\ Acknowledged(m, a, "skipped")
        /\ completed' = completed \cup {<<m, a>>}
        /\ Poll("skip", poll.snap, poll.todo)
        /\ UNCHANGED <<connected, stale, pub, net, faults>>
     \/ /\ ~stale /\ ~Accepts(m, a, "skipped")
        /\ Disconnect /\ poll' = Top
        /\ UNCHANGED <<to, completed, net, faults>>
     \/ /\ ~stale /\ Fault /\ Unanswered(m, a, "skipped")
        /\ Disconnect /\ poll' = Top
        /\ UNCHANGED completed
  /\ UNCHANGED <<expired, snap, listener, saved, given, stops>>

-----------------------------------------------------------------------------
(* A listener: bound and working, bound with a receiver that has failed,   *)
(* or off.                                                                 *)

Bind(a) == /\ listener[a] = "off" /\ listener' = [listener EXCEPT ![a] = "bound"]
           /\ UNCHANGED <<to, expired, connected, stale, snap, completed, poll, pub, saved,
                          given, net, stops, faults>>
Unbind(a) == /\ Bound(a) /\ stops < MaxStops /\ stops' = stops + 1
             /\ listener' = [listener EXCEPT ![a] = "off"]
             /\ pub' = [pub EXCEPT ![a] = "idle"]
             /\ UNCHANGED <<to, expired, connected, stale, snap, completed, poll, saved, given,
                            net, faults>>

(* The daemon dies; its files and the native sessions remain.              *)
Crash == /\ stops < MaxStops /\ stops' = stops + 1
         /\ connected' = FALSE /\ stale' = FALSE /\ snap' = NoSnap /\ completed' = {}
         /\ poll' = Top
         /\ listener' = [a \in Agents |-> "off"] /\ pub' = [a \in Agents |-> "idle"]
         /\ UNCHANGED <<to, expired, saved, given, net, faults>>

-----------------------------------------------------------------------------
(* The publisher of controller input *)

Ready(a, p) == connected /\ a \in snap.active /\ listener[a] = "bound" /\ pub[a] = p
Stage(a, s) == saved' = [saved EXCEPT ![a].stage = s]
Goes(a, p) == pub' = [pub EXCEPT ![a] = p]
OnlyPublishes == UNCHANGED <<expired, snap, poll, given, stops>>

Take(a) == /\ Ready(a, "idle") /\ saved[a] = NoFile /\ Offer(a) # NoMsg
           /\ saved' = [saved EXCEPT ![a] = [msg |-> Offer(a), stage |-> "queued"]]
           /\ UNCHANGED <<to, connected, stale, completed, listener, pub, net, faults>>
           /\ OnlyPublishes

(* A publication that was interrupted: the native session knows.           *)
Recover(a) == /\ Ready(a, "idle") /\ saved[a].stage = "publishing"
              /\ Stage(a, IF given[saved[a].msg][a] > 0 THEN "delivered" ELSE "queued")
              /\ UNCHANGED <<to, connected, stale, completed, listener, pub, net, faults>>
              /\ OnlyPublishes

(* Mutant: the stage is saved one step too far. *)
SubmitDelivered(a) == /\ Ready(a, "idle") /\ saved[a].stage = "queued"
                      /\ saved[a].msg \notin expired
                      /\ Stage(a, "delivered") /\ Goes(a, "deliver")
                      /\ UNCHANGED <<to, connected, stale, completed, listener, net, faults>>
                      /\ OnlyPublishes

Submit(a) == /\ Ready(a, "idle") /\ saved[a].stage = "queued"
             /\ saved[a].msg \notin expired
             /\ Stage(a, "publishing") /\ Goes(a, "deliver")
             /\ UNCHANGED <<to, connected, stale, completed, listener, net, faults>>
             /\ OnlyPublishes

Give(a) == /\ Ready(a, "deliver") /\ Goes(a, "given")
           /\ given' = [given EXCEPT ![saved[a].msg][a] = @ + 1]
           /\ UNCHANGED <<to, expired, connected, stale, snap, completed, poll, listener, saved,
                          net, stops, faults>>
SaveDelivered(a) == /\ Ready(a, "given") /\ Stage(a, "delivered") /\ Goes(a, "idle")
                    /\ UNCHANGED <<to, connected, stale, completed, listener, net, faults>>
                    /\ OnlyPublishes

(* What the publisher has to tell the server.                              *)
Answer(a) == IF saved[a].stage = "delivered" THEN "delivered"
             ELSE IF saved[a].stage = "queued" /\ saved[a].msg \in expired THEN "lapsed"
                  ELSE "none"

(* Mutant: the file goes with the call, whatever comes of it. *)
ReportForgets(a) ==
  LET m == saved[a].msg IN
  /\ Ready(a, "idle") /\ Answer(a) # "none"
  /\ \/ /\ Accepts(m, a, Answer(a)) /\ Acknowledged(m, a, Answer(a))
        /\ completed' = completed \cup {<<m, a>>}
        /\ Goes(a, "clear") /\ UNCHANGED <<connected, stale, listener, saved, net, faults>>
     \/ /\ ~Accepts(m, a, Answer(a)) /\ Disconnect
        /\ listener' = [listener EXCEPT ![a] = "failed"]
        /\ UNCHANGED <<to, completed, saved, net, faults>>
     \/ /\ Fault /\ Unanswered(m, a, Answer(a)) /\ Disconnect
        /\ saved' = [saved EXCEPT ![a] = NoFile]
        /\ UNCHANGED <<completed, listener>>
  /\ OnlyPublishes

(* The receipt.  A refusal ends the connection and the receiver, whose     *)
(* file stays; an answer that does not come ends the connection.           *)
Report(a) ==
  LET m == saved[a].msg IN
  /\ Ready(a, "idle") /\ Answer(a) # "none"
  /\ \/ /\ Accepts(m, a, Answer(a)) /\ Acknowledged(m, a, Answer(a))
        /\ completed' = completed \cup {<<m, a>>}
        /\ Goes(a, "clear") /\ UNCHANGED <<connected, stale, listener, saved, net, faults>>
     \/ /\ ~Accepts(m, a, Answer(a)) /\ Disconnect
        /\ listener' = [listener EXCEPT ![a] = "failed"]
        /\ UNCHANGED <<to, completed, saved, net, faults>>
     \/ /\ Fault /\ Unanswered(m, a, Answer(a)) /\ Disconnect
        /\ UNCHANGED <<completed, listener, saved>>
  /\ OnlyPublishes

Clear(a) == /\ Ready(a, "clear") /\ Goes(a, "idle")
            /\ saved' = [saved EXCEPT ![a] = NoFile]
            /\ UNCHANGED <<to, connected, stale, completed, listener, net, faults>>
            /\ OnlyPublishes

(* Deactivation or more urgent input drops the publication where it is.    *)
Interrupt(a) == /\ pub[a] # "idle" /\ Fault /\ Goes(a, "idle")
                /\ UNCHANGED <<to, connected, stale, completed, listener, saved, net>>
                /\ OnlyPublishes

-----------------------------------------------------------------------------
PollStep == Read \/ Apply \/ Consider \/ Skip
Publish(a) == \/ Take(a) \/ Recover(a) \/ Submit(a) \/ Give(a) \/ SaveDelivered(a)
              \/ Report(a) \/ Clear(a)

Next == \/ \E m \in Msgs : Create(m) \/ Lapse(m)
        \/ Arrive \/ PollStep \/ Crash
        \/ \E a \in Agents : Bind(a) \/ Unbind(a) \/ Publish(a) \/ Interrupt(a)

Spec == Init /\ [][Next]_vars

(* Both loops go on, and a stopped listener is started again.              *)
Fairness == /\ WF_vars(PollStep)
            /\ \A a \in Agents : WF_vars(Publish(a)) /\ WF_vars(Bind(a))
FairSpec == Spec /\ Fairness

-----------------------------------------------------------------------------
(* Properties *)

(* Whatever is lost, repeated or interrupted, a session is given a message *)
(* once at most.                                                           *)
GivenOnce == \A m \in Msgs, a \in Agents : given[m][a] <= 1

(* "Per-recipient receipts mean native delivery."                          *)
DeliveredIsGiven == \A m \in Msgs, a \in Agents : to[m][a] = "delivered" => given[m][a] = 1

(* A message that was given gets its final outcome at the server, also     *)
(* when the listener or the daemon stops before the receipt.               *)
ReceiptArrives == \A m \in Msgs, a \in Agents : given[m][a] > 0 ~> to[m][a] \in Finals

(* "Stopped/unavailable targets are skipped": what the server shows as     *)
(* skipped was not given to the session.                                   *)
SkippedIsNotGiven ==
  \A m \in Msgs, a \in Agents : to[m][a] \in {"skipped", "lapsed"} => given[m][a] = 0
=============================================================================
