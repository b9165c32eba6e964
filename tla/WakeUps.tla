------------------------------ MODULE WakeUps ------------------------------
(* Scheduled wake-ups of one agent: the server's rules and deliveries      *)
(* (crossfire domain, wake_up/), and the client that claims a delivery,    *)
(* writes it to a file, gives it to the native runtime and acknowledges it *)
(* (agent-core, scheduled.rs).                                             *)
(*                                                                         *)
(* A claim binds a delivery to the run of the listener that asked; another *)
(* run takes a pending delivery over once the first is stopped or has not  *)
(* reported for the heartbeat's expiry.  The file outlives the process; so *)
(* does a call that is on its way when its caller goes.                    *)
EXTENDS Integers, Sequences, FiniteSetsExt

CONSTANTS
    Rules,          \* the rules, numbered: their order breaks ties of deadlines
    Cron,           \* those with a calendar schedule; the rest are intervals
    Period,         \* of each rule, in ticks
    MaxTime,        \* bound: the last tick
    MaxEdits,       \* bound: saves, removals and changes of authority
    MaxRuns,        \* bound: runs of the listener, one per start
    MaxSession,     \* bound: native sessions, one more at each reset
    MaxDeliveries,  \* bound: deliveries the server creates
    MaxFaults       \* bound: lost calls, interruptions, refusals

ASSUME RulesAssumption == Rules \subseteq Nat /\ Cron \subseteq Rules
ASSUME PeriodAssumption == \A r \in Rules : Period[r] \in Nat \ {0}
ASSUME BoundsAssumption == MaxTime \in Nat /\ MaxDeliveries \in Nat

VARIABLES
    now,            \* the server's clock
    edits,          \* edits of the owner so far
    rules,          \* wake_rule and wake_rule_agent for this agent
    deliveries,     \* wake_delivery, in the order of their creation
    expired,        \* runs up to this one have not reported within the expiry
    stopped,        \* runs whose last report said stopped
    cur,            \* the run of the listener process, 0 when it is down
    runs,           \* the runs started so far
    session,        \* the native session
    net,            \* calls on their way to the server
    op,             \* what the publication loop is doing
    answer,         \* the delivery the claim was answered with, 0 for none
    file,           \* the scheduled-input file
    hint,           \* Timing.next: when the next claim is worth a call
    given,          \* how often the native runtime took each delivery
    faults

server == <<now, edits, rules, deliveries, expired>>
client == <<cur, runs, session, stopped>>
loop == <<op, answer, file, hint>>
vars == <<server, client, loop, net, given, faults>>

NoFile == [delivery |-> 0, run |-> 0, stage |-> "none"]
Never == MaxTime + 1

Fault == faults < MaxFaults /\ faults' = faults + 1

-----------------------------------------------------------------------------
(* Schedules. *)

NextAfter(r, after) ==
    IF r \in Cron THEN ((after \div Period[r]) + 1) * Period[r]
                  ELSE after + Period[r]

\* An interval rule keeps its phase: the last occurrence that is not after now.
LastMissed(r) ==
    IF r \in Cron THEN now
    ELSE rules[r].due + ((now - rules[r].due) \div Period[r]) * Period[r]

Enabled(r) == rules[r].state = "assigned" /\ rules[r].enabled
CanWake(r) == Enabled(r) /\ rules[r].able
Due == {r \in Rules : Enabled(r) /\ rules[r].due <= now}
Before(a, b) == \/ rules[a].due < rules[b].due
                \/ rules[a].due = rules[b].due /\ a < b

Live(run) == run > expired /\ run \notin stopped
Pending == {d \in DOMAIN deliveries : deliveries[d].status = "pending"}
OldestPending == Min(Pending)

\* What metadata tells the client: a pending delivery of its own session is
\* due at once, else the earliest deadline of an enabled rule.
MetadataNext ==
    IF Live(cur) /\ Pending # {} /\ deliveries[OldestPending].session = session
    THEN now
    ELSE Min({Never} \union {rules[r].due : r \in {x \in Rules : Enabled(x)}})

NoRule == [state |-> "new", enabled |-> FALSE, able |-> TRUE, rev |-> 0, due |-> 0]

Init ==
    /\ now = 0 /\ edits = 0
    /\ rules = [r \in Rules |-> NoRule]
    /\ deliveries = <<>>
    /\ expired = 0 /\ stopped = {}
    /\ cur = 0 /\ runs = 0 /\ session = 1
    /\ net = {}
    /\ op = "idle" /\ answer = 0 /\ file = NoFile /\ hint = Never
    /\ given = [d \in 1..MaxDeliveries |-> 0]
    /\ faults = 0

-----------------------------------------------------------------------------
(* The clock and the owner. *)

Tick ==
    /\ now < MaxTime
    /\ now' = now + 1
    /\ UNCHANGED <<edits, rules, deliveries, expired, client, loop, net, given, faults>>

Edited == edits < MaxEdits /\ edits' = edits + 1

Cancelled(r) ==
    [d \in DOMAIN deliveries |->
        IF deliveries[d].rule = r /\ deliveries[d].status = "pending"
        THEN [deliveries[d] EXCEPT !.status = "cancelled"] ELSE deliveries[d]]

\* The rows of an assignment's deliveries go with the assignment.
Cascaded(r) ==
    [d \in DOMAIN deliveries |->
        IF deliveries[d].rule = r
        THEN [deliveries[d] EXCEPT !.status = "removed"] ELSE deliveries[d]]

\* Creates or updates a rule; an update cancels what is pending, and every
\* save starts the schedule again from now.
Save(r, enabled, assigned) ==
    /\ Edited
    /\ rules[r].state # "removed"
    /\ rules' = [rules EXCEPT ![r] =
            [state |-> IF assigned THEN "assigned" ELSE "unassigned",
             enabled |-> enabled, able |-> TRUE,
             rev |-> IF @.state = "new" THEN 0 ELSE @.rev + 1,
             due |-> NextAfter(r, now)]]
    /\ deliveries' = IF assigned THEN Cancelled(r) ELSE Cascaded(r)
    /\ UNCHANGED <<now, expired, client, loop, net, given, faults>>

Remove(r) ==
    /\ Edited
    /\ rules[r].state \in {"assigned", "unassigned"}
    /\ rules' = [rules EXCEPT ![r].state = "removed"]
    /\ deliveries' = Cascaded(r)
    /\ UNCHANGED <<now, expired, client, loop, net, given, faults>>

\* The owner or the configuring member loses, or regains, what the rule needs.
Authority(r) ==
    /\ Edited
    /\ rules[r].state = "assigned"
    /\ rules' = [rules EXCEPT ![r].able = ~@]
    /\ UNCHANGED <<now, deliveries, expired, client, loop, net, given, faults>>

-----------------------------------------------------------------------------
(* The listener's runs.  Reports of one process follow those of the process *)
(* before it, so runs expire in the order they were started.                *)

Start ==
    /\ cur = 0
    /\ runs < MaxRuns
    /\ runs' = runs + 1
    /\ cur' = runs + 1
    /\ hint' = Never
    /\ UNCHANGED <<server, session, stopped, op, answer, file, net, given, faults>>

\* A process whose reports have not come through for long reports again.
Report ==
    /\ cur > 0 /\ expired = cur
    /\ expired' = cur - 1
    /\ UNCHANGED <<now, edits, rules, deliveries, client, loop, net, given, faults>>

\* The expiry passes after the last report of a run that has ended.
Expire ==
    /\ expired < runs /\ expired + 1 # cur
    /\ expired' = expired + 1
    /\ UNCHANGED <<now, edits, rules, deliveries, client, loop, net, given, faults>>

\* The process lives, but none of its reports comes through for that long.
Lapse ==
    /\ cur > 0 /\ expired + 1 = cur
    /\ Fault
    /\ expired' = cur
    /\ UNCHANGED <<now, edits, rules, deliveries, client, loop, net, given>>

\* The calls of a caller that waits no more; they still arrive.
Left == {[c EXCEPT !.live = FALSE] : c \in net}

\* Steering, a stop or an error leaves the loop before its call is answered.
Interrupt ==
    /\ cur > 0 /\ op # "idle"
    /\ Fault
    /\ op' = "idle" /\ answer' = 0
    /\ net' = Left
    /\ UNCHANGED <<server, client, file, hint, given>>

\* The process ends; a proper stop is reported.  The file stays.
End(reported) ==
    /\ cur > 0 /\ runs < MaxRuns
    /\ stopped' = IF reported THEN stopped \union {cur} ELSE stopped
    /\ cur' = 0
    /\ op' = "idle" /\ answer' = 0 /\ net' = Left
    /\ UNCHANGED <<server, runs, session, file, hint, given, faults>>

\* A reset of the history starts another native session and archives the file.
Reset ==
    /\ cur = 0 /\ session < MaxSession
    /\ session' = session + 1
    /\ file' = NoFile
    /\ UNCHANGED <<server, cur, runs, stopped, op, answer, hint, net, given, faults>>

-----------------------------------------------------------------------------
(* The client: claim. *)

Refresh ==
    /\ cur > 0 /\ op = "idle" /\ file = NoFile
    /\ hint # MetadataNext
    /\ hint' = MetadataNext
    /\ UNCHANGED <<server, client, op, answer, file, net, given, faults>>

\* The end of prepare: a due claim, while the native runtime is not busy.
Claim ==
    /\ cur > 0 /\ op = "idle" /\ file = NoFile
    /\ hint <= now
    /\ op' = "claiming"
    /\ net' = net \union {[call |-> "claim", delivery |-> 0, run |-> cur,
                           session |-> session, live |-> TRUE]}
    /\ UNCHANGED <<server, client, answer, file, hint, given, faults>>

Answered(c, to, d) ==
    /\ net' = net \ {c}
    /\ op' = IF c.live THEN to ELSE op
    /\ answer' = IF c.live THEN d ELSE answer

\* A run that is not live, or whose controller is not admitted just now.
ClaimRefused(c) ==
    /\ c.call = "claim"
    /\ \/ ~Live(c.run) /\ UNCHANGED faults
       \/ Live(c.run) /\ Fault
    /\ Answered(c, "claimed", 0)
    /\ UNCHANGED <<server, client, file, hint, given>>

HeldByRun(d, c) ==      \* the run that claimed it keeps it, alive or not
    deliveries[d].session # c.session \/ deliveries[d].run # c.run

\* Another run that is alive, or another session, keeps the pending delivery.
Held(d, c) ==
    \/ deliveries[d].session # c.session
    \/ deliveries[d].run # c.run /\ Live(deliveries[d].run)

Stale(d) ==
    LET r == deliveries[d].rule
    IN ~CanWake(r) \/ rules[r].rev # deliveries[d].rev

ClaimPending(c) ==
    /\ c.call = "claim" /\ Live(c.run)
    /\ Pending # {}
    /\ LET d == OldestPending IN
         \/ /\ Held(d, c)
            /\ UNCHANGED deliveries
            /\ Answered(c, "claimed", 0)
         \/ /\ ~Held(d, c) /\ Stale(d)
            /\ deliveries' = [deliveries EXCEPT ![d].status = "cancelled"]
            /\ Answered(c, "claimed", 0)
         \/ /\ ~Held(d, c) /\ ~Stale(d)
            /\ deliveries' = [deliveries EXCEPT ![d].run = c.run]
            /\ Answered(c, "claimed", d)
    /\ UNCHANGED <<now, edits, rules, expired, client, file, hint, given, faults>>

\* The due rules in the order of their deadlines, up to the first that may
\* wake the agent: all of them move to their next deadline, that one delivers.
Chosen == {r \in Due : CanWake(r) /\ \A x \in Due : CanWake(x) => ~Before(x, r)}
Passed == {r \in Due : \A x \in Chosen : ~Before(x, r)}

AdvancedFromDue ==      \* the next deadline counted from the missed one
    [r \in Rules |-> IF r \in Passed
                     THEN [rules[r] EXCEPT !.due = NextAfter(r, @)] ELSE rules[r]]

Advanced ==
    [r \in Rules |-> IF r \in Passed
                     THEN [rules[r] EXCEPT !.due = NextAfter(r, LastMissed(r))]
                     ELSE rules[r]]

NewDelivery(r, c) ==
    [rule |-> r, rev |-> rules[r].rev, run |-> c.run, session |-> c.session,
     at |-> rules[r].due, created |-> now, status |-> "pending"]

ClaimDue(c) ==
    /\ c.call = "claim" /\ Live(c.run)
    /\ Pending = {}
    /\ rules' = Advanced
    /\ \/ /\ Chosen = {}
          /\ UNCHANGED deliveries
          /\ Answered(c, "claimed", 0)
       \/ /\ Len(deliveries) < MaxDeliveries
          /\ \E r \in Chosen : deliveries' = Append(deliveries, NewDelivery(r, c))
          /\ Answered(c, "claimed", Len(deliveries) + 1)
    /\ UNCHANGED <<now, edits, expired, client, file, hint, given, faults>>

\* The claimed delivery is written to the file, or the timing is refreshed.
Claimed ==
    /\ cur > 0 /\ op = "claimed"
    /\ op' = "idle" /\ answer' = 0
    /\ IF answer = 0
       THEN hint' = MetadataNext /\ UNCHANGED file
       ELSE /\ file' = [delivery |-> answer, run |-> cur, stage |-> "queued"]
            /\ UNCHANGED hint
    /\ UNCHANGED <<server, client, net, given, faults>>

-----------------------------------------------------------------------------
(* The client: publication. *)

Eligible ==
    LET d == deliveries[file.delivery]
    IN /\ Live(file.run)
       /\ d.run = file.run /\ d.session = session /\ d.status = "pending"
       /\ rules[d.rule].rev = d.rev /\ CanWake(d.rule)

\* The validation before publication, under the run the file names.
Validate ==
    /\ cur > 0 /\ op = "idle" /\ file.stage = "queued"
    /\ \/ /\ Eligible
          /\ op' = "valid"
          /\ UNCHANGED <<file, hint, faults>>
       \/ /\ \/ ~Eligible /\ UNCHANGED faults
             \/ Eligible /\ Fault
          /\ file' = NoFile /\ hint' = MetadataNext
          /\ UNCHANGED op
    /\ UNCHANGED <<server, client, answer, net, given>>

SaveNothing ==          \* the native runtime is called without the checkpoint
    /\ cur > 0 /\ op = "valid"
    /\ op' = "delivering"
    /\ UNCHANGED <<server, client, answer, file, hint, net, given, faults>>

SavePublishing ==
    /\ cur > 0 /\ op = "valid"
    /\ file' = [file EXCEPT !.stage = "publishing"]
    /\ op' = "delivering"
    /\ UNCHANGED <<server, client, answer, hint, net, given, faults>>

\* The native runtime takes the input; the caller does not know yet.
NativeTakes ==
    /\ op = "delivering"
    /\ given' = [given EXCEPT ![file.delivery] = @ + 1]
    /\ op' = "given"
    /\ UNCHANGED <<server, client, answer, file, hint, net, faults>>

Delivered ==
    /\ cur > 0 /\ op = "given"
    /\ file' = [file EXCEPT !.stage = "delivered"]
    /\ op' = "idle"
    /\ UNCHANGED <<server, client, answer, hint, net, given, faults>>

\* After an interruption or a restart the native history says what happened.
Recover ==
    /\ cur > 0 /\ op = "idle" /\ file.stage = "publishing"
    /\ file' = [file EXCEPT !.stage =
                    IF given[file.delivery] > 0 THEN "delivered" ELSE "queued"]
    /\ UNCHANGED <<server, client, op, answer, hint, net, given, faults>>

AcknowledgeAsRun ==     \* under the run of this process
    /\ cur > 0 /\ op = "idle" /\ file.stage = "delivered"
    /\ op' = "acknowledging"
    /\ net' = net \union {[call |-> "ack", delivery |-> file.delivery,
                           run |-> cur, session |-> session, live |-> TRUE]}
    /\ UNCHANGED <<server, client, answer, file, hint, given, faults>>

Acknowledge ==
    /\ cur > 0 /\ op = "idle" /\ file.stage = "delivered"
    /\ op' = "acknowledging"
    /\ net' = net \union {[call |-> "ack", delivery |-> file.delivery,
                           run |-> file.run, session |-> session, live |-> TRUE]}
    /\ UNCHANGED <<server, client, answer, file, hint, given, faults>>

\* A delivery whose rows are gone has no receipt: the client goes on as if it
\* had one.  A cancelled delivery takes its receipt.
Receipt(c) ==
    /\ c.call = "ack"
    /\ LET d == deliveries[c.delivery] IN
         \/ /\ d.status = "removed"
            /\ UNCHANGED deliveries
            /\ Answered(c, "acknowledged", 0)
         \/ /\ d.status # "removed"
            /\ d.run = c.run /\ d.session = c.session
            /\ deliveries' = [deliveries EXCEPT ![c.delivery].status = "delivered"]
            /\ Answered(c, "acknowledged", 0)
         \/ /\ d.status # "removed"
            /\ ~(d.run = c.run /\ d.session = c.session)
            /\ UNCHANGED deliveries
            /\ Answered(c, "refused", 0)
    /\ UNCHANGED <<now, edits, rules, expired, client, file, hint, given, faults>>

Acknowledged ==
    /\ cur > 0 /\ op = "acknowledged"
    /\ op' = "idle" /\ file' = NoFile /\ hint' = MetadataNext
    /\ UNCHANGED <<server, client, answer, net, given, faults>>

Lose(c) ==
    /\ Fault
    /\ net' = net \ {c}
    /\ op' = IF c.live THEN "idle" ELSE op
    /\ UNCHANGED <<server, client, answer, file, hint, given>>

-----------------------------------------------------------------------------
Owner == \E r \in Rules :
    \/ \E enabled, assigned \in BOOLEAN : Save(r, enabled, assigned)
    \/ Remove(r)
    \/ Authority(r)

Runs == Start \/ Report \/ Expire \/ Lapse \/ Interrupt \/ Reset
        \/ \E reported \in BOOLEAN : End(reported)

AtServer == \E c \in net :
    ClaimRefused(c) \/ ClaimPending(c) \/ ClaimDue(c) \/ Receipt(c)

Publisher ==
    \/ Refresh \/ Claim \/ Claimed
    \/ Validate \/ SavePublishing \/ NativeTakes \/ Delivered
    \/ Recover \/ Acknowledge \/ Acknowledged

Next == Tick \/ Owner \/ Runs \/ AtServer \/ Publisher \/ \E c \in net : Lose(c)

Spec == Init /\ [][Next]_vars

\* The controller starts the listener again, a process reports every 30 s, the
\* expiry of a run that has ended passes, the client's loop runs (at most 30 s
\* between two refreshes), and the server handles the calls it is sent.
Fairness ==
    /\ WF_vars(Start) /\ WF_vars(Report) /\ WF_vars(Expire)
    /\ WF_vars(AtServer)
    /\ WF_vars(Refresh) /\ WF_vars(Claim) /\ WF_vars(Claimed)
    /\ WF_vars(Validate) /\ WF_vars(SavePublishing) /\ WF_vars(NativeTakes)
    /\ WF_vars(Delivered) /\ WF_vars(Recover)
    /\ WF_vars(Acknowledge) /\ WF_vars(Acknowledged)

FairSpec == Spec /\ Fairness

-----------------------------------------------------------------------------
(* Properties. *)

\* No wake-up reaches the native runtime twice, whatever process, run or call
\* is lost or late between the claim and the receipt.
GivenOnce == \A d \in DOMAIN given : given[d] <= 1

\* Late occurrences coalesce (docs/specification.md, section 14): a delivery of
\* a revision of a rule is for an occurrence after every earlier delivery of it
\* was created, none is early, and at most one delivery is pending.
Coalesced ==
    /\ Cardinality(Pending) <= 1
    /\ \A e \in DOMAIN deliveries :
          /\ deliveries[e].at <= deliveries[e].created
          /\ \A d \in 1..(e - 1) :
                (deliveries[d].rule = deliveries[e].rule
                 /\ deliveries[d].rev = deliveries[e].rev)
                => deliveries[d].created < deliveries[e].at

\* The server shows delivered only what the runtime took; and the receipt of the
\* file names the run the server has, so that it is accepted, but in one case: the
\* run that published has stopped and a claim of a run before it, which crashed
\* and still counts as live, was on its way all that time and takes the delivery.
ReceiptTrue ==
    /\ \A d \in DOMAIN deliveries :
          deliveries[d].status = "delivered" => given[d] > 0
    /\ op = "refused" => file.run \in stopped

\* "Claims bind ... reporting run" (docs/specification.md, section 14), without
\* that exception: a receipt is never refused.  A refused one ends the listener
\* at each of its starts.
ReceiptAccepted == op # "refused"

\* A pending delivery of the native session does not stay pending: it is
\* delivered, cancelled or removed, or the session is reset.
PendingSettles ==
    \A d \in 1..MaxDeliveries, s \in 1..MaxSession :
        (d \in Pending /\ deliveries[d].session = s /\ session = s)
            ~> (d \notin Pending \/ session # s)
=============================================================================
