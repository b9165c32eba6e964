--------------------------- MODULE WakeUpsProofs ---------------------------
(***************************************************************************)
(* For any rules, schedules, runs, sessions and faults: a wake-up is given *)
(* once at most, late occurrences coalesce, and receipts are true.         *)
(*                                                                         *)
(* The argument.  A delivery that was given is in the file of its session, *)
(* or the server no longer offers it, or its session is over; so the       *)
(* answer to a claim of this session is a delivery that was not given.  A  *)
(* claim that is still on its way when there is a file was sent by that    *)
(* file's run or an earlier one, so it takes the delivery away only when   *)
(* the file's run has stopped.  A due rule moves past now whenever it      *)
(* delivers, and an edit takes the next revision: two deliveries of one    *)
(* revision stand for disjoint spans of time.                              *)
(***************************************************************************)
EXTENDS WakeUps, FiniteSetTheorems, TLAPS

Statuses == {"pending", "delivered", "cancelled", "removed"}
Delivery == [rule : Rules, rev : Nat, run : Nat, session : Nat, at : Nat, created : Nat,
             status : Statuses]
RuleState == [state : {"new", "assigned", "unassigned", "removed"}, enabled : BOOLEAN,
              able : BOOLEAN, rev : Nat, due : Nat]
Calls == [call : {"claim", "ack"}, delivery : Nat, run : Nat, session : Nat, live : BOOLEAN]
Ops == {"idle", "claiming", "claimed", "valid", "delivering", "given", "acknowledging",
        "acknowledged", "refused"}
Files == [delivery : Nat, run : Nat, stage : {"none", "queued", "publishing", "delivered"}]

Typed ==
    /\ now \in Nat /\ expired \in Nat /\ runs \in Nat /\ session \in Nat
    /\ rules \in [Rules -> RuleState]
    /\ deliveries \in Seq(Delivery) /\ Len(deliveries) <= MaxDeliveries
    /\ stopped \subseteq 1..runs
    /\ cur \in {0, runs}
    /\ net \subseteq Calls
    /\ op \in Ops /\ answer \in Nat
    /\ file \in Files /\ (file.stage = "none" => file = NoFile)
    /\ given \in [1..MaxDeliveries -> Nat]

(* One pending delivery, none early, and none of a revision of a rule for  *)
(* a time before the deadline of that revision.                            *)
OnePending == \A d, e \in DOMAIN deliveries :
    deliveries[d].status = "pending" /\ deliveries[e].status = "pending" => d = e
Spans == \A d \in DOMAIN deliveries :
    LET D == deliveries[d] IN
    /\ D.at <= D.created /\ D.created <= now
    /\ rules[D.rule].state # "new" /\ D.rev <= rules[D.rule].rev
    /\ D.rev = rules[D.rule].rev => D.created < rules[D.rule].due
Disjoint == \A e \in DOMAIN deliveries : \A d \in 1..(e - 1) :
    deliveries[d].rule = deliveries[e].rule /\ deliveries[d].rev = deliveries[e].rev
        => deliveries[d].created < deliveries[e].at

(* A call that somebody waits for is the one the loop is in; the others    *)
(* are of this session or an earlier one.                                  *)
Waited == \A c \in net : c.live =>
    /\ c.session = session
    /\ c.call = "claim" => op = "claiming" /\ c.delivery = 0 /\ c.run = cur
    /\ c.call = "ack" => op = "acknowledging" /\ c.delivery = file.delivery /\ c.run = file.run
Late == \A c \in net :
    /\ c.run <= runs /\ c.session <= session
    /\ c.call = "ack" => c.delivery \in DOMAIN deliveries /\ given[c.delivery] > 0
    /\ c.call = "claim" /\ file # NoFile => c.run <= file.run

(* Where the loop is, and what it holds there.                             *)
Holding ==
    /\ op # "idle" => cur > 0
    /\ cur > 0 => cur \notin stopped
    /\ op \in {"claiming", "claimed"} => file = NoFile
    /\ op = "valid" => file.stage = "queued"
    /\ op \in {"delivering", "given"} => file.stage = "publishing"
    /\ op \in {"acknowledging", "acknowledged", "refused"} => file.stage = "delivered"
    /\ op = "acknowledged" => deliveries[file.delivery].status # "pending"
    /\ op = "refused" => file.run \in stopped
    /\ answer # 0 => /\ op = "claimed" /\ answer \in DOMAIN deliveries
                     /\ deliveries[answer].session = session /\ deliveries[answer].run = cur
                     /\ given[answer] = 0

(* The file, the delivery it names and what was given of it.               *)
FileTrue == file # NoFile =>
    /\ file.delivery \in DOMAIN deliveries /\ file.run <= runs
    /\ deliveries[file.delivery].session = session
    /\ deliveries[file.delivery].run = file.run \/ file.run \in stopped
    /\ file.stage = "queued" \/ op = "delivering" => given[file.delivery] = 0
    /\ file.stage = "delivered" \/ op = "given" => given[file.delivery] = 1

(* What was given is in the file, or will not be offered to this session.  *)
GivenKnown == \A d \in 1..MaxDeliveries :
    /\ given[d] <= 1
    /\ given[d] > 0 => /\ d \in DOMAIN deliveries
                       /\ \/ file # NoFile /\ file.delivery = d
                          \/ deliveries[d].status # "pending"
                          \/ deliveries[d].session < session
DeliveriesTrue == \A d \in DOMAIN deliveries :
    /\ deliveries[d].session <= session
    /\ deliveries[d].status = "delivered" => given[d] > 0

WakeInv == /\ Typed /\ OnePending /\ Spans /\ Disjoint /\ Waited /\ Late
           /\ Holding /\ FileTrue /\ GivenKnown /\ DeliveriesTrue

-----------------------------------------------------------------------------
(* Schedules *)

LEMMA Division ==
  ASSUME NEW a \in Nat, NEW p \in Nat \ {0}
  PROVE  /\ a \div p \in Nat
         /\ (a \div p) * p \in Nat
         /\ (a \div p) * p <= a
         /\ a < (a \div p) * p + p
OBVIOUS

(* The next deadline after any time is later, and once the deadline of a   *)
(* rule is reached, its next deadline is after now.                        *)
LEMMA NextIsLater ==
  ASSUME NEW r \in Rules, NEW after \in Nat
  PROVE  NextAfter(r, after) \in Nat /\ NextAfter(r, after) > after
<1>1. Period[r] \in Nat \ {0}
  BY PeriodAssumption
<1> DEFINE p == Period[r]
<1>2. NextAfter(r, after) = IF r \in Cron THEN ((after \div p) + 1) * p ELSE after + p
  BY DEF NextAfter
<1> HIDE DEF p
<1>3. ((after \div p) + 1) * p = (after \div p) * p + p
  BY <1>1, Division DEF p
<1>4. (after \div p) * p \in Nat /\ after < (after \div p) * p + p /\ p \in Nat \ {0}
  BY <1>1, Division DEF p
<1> DEFINE reached == (after \div p) * p
<1>5. NextAfter(r, after) = reached + p \/ NextAfter(r, after) = after + p
  BY <1>2, <1>3
<1> HIDE DEF reached
<1>6. reached \in Nat /\ after < reached + p
  BY <1>4 DEF reached
<1> QED BY <1>4, <1>5, <1>6

LEMMA AdvanceIsLater ==
  ASSUME NEW r \in Rules, now \in Nat, rules[r].due \in Nat, rules[r].due <= now
  PROVE  NextAfter(r, LastMissed(r)) \in Nat /\ NextAfter(r, LastMissed(r)) > now
<1>1. CASE r \in Cron
  BY <1>1, NextIsLater DEF LastMissed
<1>2. CASE r \notin Cron
  <2> DEFINE p == Period[r]
             a == now - rules[r].due
  <2>1. p \in Nat \ {0} /\ a \in Nat
    BY PeriodAssumption
  <2>2. NextAfter(r, LastMissed(r)) = rules[r].due + (a \div p) * p + p
    BY <1>2 DEF NextAfter, LastMissed
  <2>3. (a \div p) * p \in Nat /\ a < (a \div p) * p + p
    BY <2>1, Division
  <2>4. rules[r].due + a = now
    OBVIOUS
  <2> HIDE DEF p, a
  <2> QED BY <2>1, <2>2, <2>3, <2>4
<1> QED BY <1>1, <1>2

-----------------------------------------------------------------------------
(* Time passes, the owner edits, runs expire or come back *)

(* An edit ends deliveries but changes nothing else of them; a rule keeps  *)
(* its revision and a deadline that is no earlier, or takes a new one.     *)
EndsDelivery(d) ==
    /\ deliveries'[d] = [deliveries[d] EXCEPT !.status = deliveries'[d].status]
    /\ deliveries'[d].status \in {deliveries[d].status, "cancelled", "removed"}
EditsRule(r) ==
    \/ rules[r].state = "new"
    \/ /\ rules'[r].state # "new"
       /\ \/ rules'[r].rev > rules[r].rev
          \/ rules'[r].rev = rules[r].rev /\ rules'[r].due >= rules[r].due
ServerEdit ==
    /\ now' \in Nat /\ now' >= now
    /\ expired' \in Nat
    /\ rules' \in [Rules -> RuleState]
    /\ \A r \in Rules : EditsRule(r)
    /\ deliveries' \in Seq(Delivery) /\ Len(deliveries') = Len(deliveries)
    /\ \A d \in DOMAIN deliveries : EndsDelivery(d)

LEMMA EndsOnly ==
  ASSUME Typed, NEW d \in DOMAIN deliveries, ServerEdit
  PROVE  /\ deliveries[d] \in Delivery /\ deliveries'[d] \in Delivery
         /\ deliveries'[d].rule = deliveries[d].rule /\ deliveries'[d].rev = deliveries[d].rev
         /\ deliveries'[d].run = deliveries[d].run /\ deliveries'[d].session = deliveries[d].session
         /\ deliveries'[d].at = deliveries[d].at /\ deliveries'[d].created = deliveries[d].created
         /\ deliveries'[d].status \in {deliveries[d].status, "cancelled", "removed"}
         /\ DOMAIN deliveries' = DOMAIN deliveries
<1>1. DOMAIN deliveries' = DOMAIN deliveries
  BY DEF Typed, ServerEdit
<1>2. deliveries[d] \in Delivery /\ deliveries'[d] \in Delivery
  BY <1>1 DEF Typed, ServerEdit
<1> QED BY <1>1, <1>2 DEF ServerEdit, EndsDelivery, Delivery

LEMMA EditKeeps ==
  ASSUME WakeInv, ServerEdit,
         UNCHANGED <<client, op, answer, file, net, given>>
  PROVE  WakeInv'
<1> USE DEF WakeInv, client
<1>1. DOMAIN deliveries' = DOMAIN deliveries
  BY DEF Typed, ServerEdit
<1>2. Typed'
  BY DEF Typed, ServerEdit
<1>3. OnePending'
  BY <1>1, EndsOnly DEF OnePending
<1>4. Spans'
  <2> SUFFICES ASSUME NEW d \in DOMAIN deliveries
               PROVE  /\ deliveries[d].at <= deliveries[d].created /\ deliveries[d].created <= now'
                      /\ rules'[deliveries[d].rule].state # "new"
                      /\ deliveries[d].rev <= rules'[deliveries[d].rule].rev
                      /\ deliveries[d].rev = rules'[deliveries[d].rule].rev
                           => deliveries[d].created < rules'[deliveries[d].rule].due
    BY <1>1, EndsOnly DEF Spans
  <2> DEFINE r == deliveries[d].rule
  <2>1. deliveries[d] \in Delivery
    BY EndsOnly
  <2>2. r \in Rules
    BY <2>1 DEF Delivery
  <2>3. rules[r] \in RuleState /\ rules'[r] \in RuleState /\ EditsRule(r)
    BY <2>2 DEF Typed, ServerEdit
  <2>4. /\ deliveries[d].at <= deliveries[d].created /\ deliveries[d].created <= now
        /\ rules[r].state # "new" /\ deliveries[d].rev <= rules[r].rev
        /\ deliveries[d].rev = rules[r].rev => deliveries[d].created < rules[r].due
    BY DEF Spans
  <2> HIDE DEF r
  <2>5. /\ rules'[r].state # "new" /\ deliveries[d].rev <= rules'[r].rev
        /\ deliveries[d].rev = rules'[r].rev => deliveries[d].created < rules'[r].due
    BY <2>1, <2>3, <2>4 DEF EditsRule, RuleState, Delivery
  <2> QED BY <2>1, <2>4, <2>5 DEF r, ServerEdit, Typed, Delivery
<1>5. Disjoint'
  <2>1. \A e \in DOMAIN deliveries : \A d \in 1..(e - 1) : d \in DOMAIN deliveries
    BY DEF Typed
  <2> QED BY <1>1, <2>1, EndsOnly DEF Disjoint
<1>6. Waited' /\ Late'
  BY <1>1 DEF Waited, Late
<1>7. Holding'
  <2>1. answer # 0 => answer \in DOMAIN deliveries
    BY DEF Holding
  <2>2. op = "acknowledged" => file.delivery \in DOMAIN deliveries
    BY DEF Holding, FileTrue, NoFile
  <2> QED BY <1>1, <2>1, <2>2, EndsOnly DEF Holding
<1>8. FileTrue'
  BY <1>1, EndsOnly DEF FileTrue
<1>9. GivenKnown' /\ DeliveriesTrue'
  BY <1>1, EndsOnly DEF GivenKnown, DeliveriesTrue
<1> QED BY <1>2, <1>3, <1>4, <1>5, <1>6, <1>7, <1>8, <1>9

LEMMA NothingEdited ==
  ASSUME Typed, expired' \in Nat, now' \in Nat, now' >= now, UNCHANGED <<rules, deliveries>>
  PROVE  ServerEdit
<1>1. \A d \in DOMAIN deliveries : deliveries[d] \in Delivery
  BY DEF Typed
<1>2. \A d \in DOMAIN deliveries : EndsDelivery(d)
  BY <1>1 DEF EndsDelivery, Delivery
<1>3. \A r \in Rules : EditsRule(r)
  BY DEF Typed, EditsRule, RuleState
<1> QED BY <1>2, <1>3 DEF Typed, ServerEdit

(* What a saved or removed rule does to its deliveries.                    *)
LEMMA EndedByEdit ==
  ASSUME Typed, NEW r \in Rules, deliveries' = Cancelled(r) \/ deliveries' = Cascaded(r)
  PROVE  /\ deliveries' \in Seq(Delivery) /\ Len(deliveries') = Len(deliveries)
         /\ \A d \in DOMAIN deliveries : EndsDelivery(d)
<1>1. \A d \in DOMAIN deliveries : deliveries[d] \in Delivery
  BY DEF Typed
<1>2. Len(deliveries) \in Nat /\ DOMAIN deliveries = 1..Len(deliveries)
  BY DEF Typed
<1>3. deliveries' = [d \in 1..Len(deliveries) |-> deliveries'[d]]
  BY <1>2 DEF Cancelled, Cascaded
<1>4. ASSUME NEW d \in DOMAIN deliveries
      PROVE  deliveries'[d] = [deliveries[d] EXCEPT !.status = deliveries'[d].status]
             /\ deliveries'[d].status \in {deliveries[d].status, "cancelled", "removed"}
             /\ deliveries'[d] \in Delivery
  <2>1. \/ deliveries'[d] = deliveries[d]
        \/ deliveries'[d] = [deliveries[d] EXCEPT !.status = "cancelled"]
        \/ deliveries'[d] = [deliveries[d] EXCEPT !.status = "removed"]
    BY DEF Cancelled, Cascaded
  <2> QED BY <1>1, <2>1 DEF Delivery, Statuses
<1>5. deliveries' \in Seq(Delivery)
  BY <1>2, <1>3, <1>4
<1>6. Len(deliveries') = Len(deliveries)
  BY <1>2, <1>3, <1>5
<1> QED BY <1>4, <1>5, <1>6 DEF EndsDelivery

LEMMA OwnerKeeps == ASSUME WakeInv, Owner PROVE WakeInv'
<1> USE DEF WakeInv, NoRule
<1>1. PICK r \in Rules : \/ \E enabled, assigned \in BOOLEAN : Save(r, enabled, assigned)
                         \/ Remove(r) \/ Authority(r)
  BY DEF Owner
<1>2. rules[r] \in RuleState /\ \A x \in Rules : rules[x] \in RuleState
  BY DEF Typed
<1>3. \A x \in Rules : rules'[x] = rules[x] => EditsRule(x)
  BY <1>2 DEF EditsRule, RuleState
<1>4. CASE \E enabled, assigned \in BOOLEAN : Save(r, enabled, assigned)
  <2>1. PICK enabled, assigned \in BOOLEAN : Save(r, enabled, assigned)
    BY <1>4
  <2>2. deliveries' = Cancelled(r) \/ deliveries' = Cascaded(r)
    BY <2>1 DEF Save
  <2>3. NextAfter(r, now) \in Nat
    BY NextIsLater DEF Typed
  <2>4. /\ rules'[r] = [state |-> IF assigned THEN "assigned" ELSE "unassigned",
                        enabled |-> enabled, able |-> TRUE,
                        rev |-> IF rules[r].state = "new" THEN 0 ELSE rules[r].rev + 1,
                        due |-> NextAfter(r, now)]
        /\ rules' = [rules EXCEPT ![r] = rules'[r]]
    BY <2>1 DEF Save, Typed
  <2>5. rules'[r] \in RuleState /\ EditsRule(r)
    BY <1>2, <2>3, <2>4 DEF RuleState, EditsRule
  <2>6. rules' \in [Rules -> RuleState] /\ \A x \in Rules : EditsRule(x)
    BY <1>3, <2>4, <2>5 DEF Typed
  <2>7. ServerEdit
    BY <2>1, <2>2, <2>6, EndedByEdit DEF Save, ServerEdit, Typed
  <2> QED BY <2>1, <2>7, EditKeeps DEF Save, loop
<1>5. CASE Remove(r)
  <2>1. deliveries' = Cascaded(r)
    BY <1>5 DEF Remove
  <2>2. /\ rules' = [rules EXCEPT ![r] = rules'[r]]
        /\ rules'[r] = [rules[r] EXCEPT !.state = "removed"]
    BY <1>5 DEF Remove, Typed
  <2>3. rules'[r] \in RuleState /\ EditsRule(r)
    BY <1>2, <2>2 DEF RuleState, EditsRule
  <2>4. rules' \in [Rules -> RuleState] /\ \A x \in Rules : EditsRule(x)
    BY <1>3, <2>2, <2>3 DEF Typed
  <2>5. ServerEdit
    BY <1>5, <2>1, <2>4, EndedByEdit DEF Remove, ServerEdit, Typed
  <2> QED BY <1>5, <2>5, EditKeeps DEF Remove, loop
<1>6. CASE Authority(r)
  <2>1. /\ rules' = [rules EXCEPT ![r] = rules'[r]]
        /\ rules'[r] = [rules[r] EXCEPT !.able = ~rules[r].able]
        /\ rules[r].state = "assigned"
    BY <1>6 DEF Authority, Typed
  <2>2. rules'[r] \in RuleState /\ EditsRule(r)
    <3> DEFINE able == ~rules[r].able
    <3>1. able \in BOOLEAN /\ rules'[r] = [rules[r] EXCEPT !.able = able]
      BY <2>1
    <3> HIDE DEF able
    <3> QED BY <1>2, <2>1, <3>1 DEF RuleState, EditsRule
  <2>3. rules' \in [Rules -> RuleState] /\ \A x \in Rules : EditsRule(x)
    BY <1>3, <2>1, <2>2 DEF Typed
  <2>4. \A d \in DOMAIN deliveries : deliveries[d] \in Delivery
    BY DEF Typed
  <2>5. \A d \in DOMAIN deliveries' : EndsDelivery(d)
    BY <1>6, <2>4 DEF Authority, EndsDelivery, Delivery
  <2>6. ServerEdit
    BY <1>6, <2>3, <2>5 DEF Authority, ServerEdit, Typed
  <2> QED BY <1>6, <2>6, EditKeeps DEF Authority, loop
<1> QED BY <1>1, <1>4, <1>5, <1>6

LEMMA ClockKeeps == ASSUME WakeInv, Tick \/ Report \/ Expire \/ Lapse \/ Refresh PROVE WakeInv'
<1>1. UNCHANGED <<client, op, answer, file, net, given>> /\ UNCHANGED <<rules, deliveries>>
  BY DEF Tick, Report, Expire, Lapse, Refresh, loop, server
<1>2. expired' \in Nat /\ now' \in Nat /\ now' >= now
  BY DEF WakeInv, Typed, Tick, Report, Expire, Lapse, Refresh, server
<1> QED BY <1>1, <1>2, NothingEdited, EditKeeps DEF WakeInv

LEMMA StutterKeeps == ASSUME WakeInv, UNCHANGED vars PROVE WakeInv'
<1>1. expired' \in Nat /\ now' \in Nat /\ now' >= now
  BY DEF WakeInv, Typed, vars, server
<1> QED BY <1>1, NothingEdited, EditKeeps DEF WakeInv, vars, server, loop

-----------------------------------------------------------------------------
(* The client *)

LEMMA ServerSame ==
  ASSUME OnePending, Spans, Disjoint, UNCHANGED <<now, rules, deliveries>>
  PROVE  OnePending' /\ Spans' /\ Disjoint'
BY DEF OnePending, Spans, Disjoint

(* A pending delivery of this session that is not in the file is new to    *)
(* the runtime.                                                            *)
LEMMA OfferedIsNew ==
  ASSUME WakeInv, file = NoFile, NEW d \in DOMAIN deliveries,
         deliveries[d].status = "pending", deliveries[d].session = session
  PROVE  given[d] = 0
<1>1. d \in 1..MaxDeliveries /\ given[d] \in Nat
  BY BoundsAssumption DEF WakeInv, Typed
<1>2. ~(deliveries[d].session < session)
  BY DEF WakeInv, Typed
<1> QED BY <1>1, <1>2 DEF WakeInv, GivenKnown

LEMMA LeftCalls ==
  ASSUME net \subseteq Calls
  PROVE  /\ Left \subseteq Calls
         /\ \A c \in Left : ~c.live /\ \E b \in net : /\ c.call = b.call /\ c.delivery = b.delivery
                                                      /\ c.run = b.run /\ c.session = b.session
<1>1. \A b \in Calls :
        /\ [b EXCEPT !.live = FALSE] \in Calls
        /\ [b EXCEPT !.live = FALSE].call = b.call /\ [b EXCEPT !.live = FALSE].delivery = b.delivery
        /\ [b EXCEPT !.live = FALSE].run = b.run /\ [b EXCEPT !.live = FALSE].session = b.session
        /\ [b EXCEPT !.live = FALSE].live = FALSE
  BY DEF Calls
<1> QED BY <1>1 DEF Left

LEMMA StartKeeps == ASSUME WakeInv, Start PROVE WakeInv'
<1> USE DEF WakeInv, client, server, Start
<1>1. Typed'
  BY BoundsAssumption DEF Typed, Ops, Files, Calls, NoFile
<1>2. OnePending' /\ Spans' /\ Disjoint'
  BY ServerSame
<1>3. Waited'
  BY DEF Waited, Typed, NoFile, Calls, Holding
<1>4. Late'
  BY DEF Late, Typed, NoFile, Calls, FileTrue, Holding
<1>5. Holding'
  BY DEF Holding, Typed, NoFile, FileTrue, Waited
<1>6. FileTrue'
  BY DEF FileTrue, Typed, NoFile, Holding, Files
<1>7. GivenKnown' /\ DeliveriesTrue'
  BY DEF GivenKnown, DeliveriesTrue, Typed, NoFile, Holding, FileTrue
<1> QED BY <1>1, <1>2, <1>3, <1>4, <1>5, <1>6, <1>7

LEMMA InterruptKeeps == ASSUME WakeInv, Interrupt PROVE WakeInv'
<1> USE DEF WakeInv, client, server, Interrupt, Fault, Left
<1>1. Typed'
  BY LeftCalls DEF Typed, Ops, NoFile
<1>2. OnePending' /\ Spans' /\ Disjoint'
  BY ServerSame
<1>3. Waited'
  BY DEF Waited, Typed, NoFile, Calls, Holding
<1>4. Late'
  BY DEF Late, Typed, NoFile, Calls, FileTrue, Holding
<1>5. Holding'
  BY DEF Holding, Typed, NoFile, FileTrue, Waited
<1>6. FileTrue'
  BY DEF FileTrue, Typed, NoFile, Holding, Files
<1>7. GivenKnown' /\ DeliveriesTrue'
  BY DEF GivenKnown, DeliveriesTrue, Typed, NoFile, Holding, FileTrue
<1> QED BY <1>1, <1>2, <1>3, <1>4, <1>5, <1>6, <1>7

LEMMA ResetKeeps == ASSUME WakeInv, Reset PROVE WakeInv'
<1> USE DEF WakeInv, client, server, Reset
<1>1. Typed'
  BY BoundsAssumption DEF Typed, Ops, Files, Calls, NoFile
<1>2. OnePending' /\ Spans' /\ Disjoint'
  BY ServerSame
<1>3. Waited'
  BY DEF Waited, Typed, NoFile, Calls, Holding
<1>4. Late'
  BY DEF Late, Typed, NoFile, Calls, FileTrue, Holding
<1>5. Holding'
  BY DEF Holding, Typed, NoFile, FileTrue, Waited
<1>6. FileTrue'
  BY DEF FileTrue, Typed, NoFile, Holding, Files
<1>7. GivenKnown' /\ DeliveriesTrue'
  <2>1. \A d \in DOMAIN deliveries : deliveries[d].session \in Nat /\ deliveries[d].session < session'
    <3>1. \A d \in DOMAIN deliveries : deliveries[d] \in Delivery
      BY DEF Typed
    <3> QED BY <3>1 DEF DeliveriesTrue, Delivery, Typed
  <2>2. \A d \in DOMAIN deliveries : deliveries[d].session <= session'
    BY <2>1 DEF Typed
  <2> QED BY <2>1, <2>2 DEF GivenKnown, DeliveriesTrue
<1> QED BY <1>1, <1>2, <1>3, <1>4, <1>5, <1>6, <1>7

LEMMA ClaimKeeps == ASSUME WakeInv, Claim PROVE WakeInv'
<1> USE DEF WakeInv, client, server, Claim
<1>1. Typed'
  <2>1. cur \in Nat
    BY DEF Typed
  <2>2. [call |-> "claim", delivery |-> 0, run |-> cur, session |-> session, live |-> TRUE] \in Calls
    BY <2>1 DEF Typed, Calls
  <2>3. net' \subseteq Calls
    BY <2>2 DEF Typed
  <2> QED BY <2>3 DEF Typed, Ops
<1>2. OnePending' /\ Spans' /\ Disjoint'
  BY ServerSame
<1>3. Waited'
  BY DEF Waited, Typed, NoFile, Calls, Holding
<1>4. Late'
  BY DEF Late, Typed, NoFile, Calls, FileTrue, Holding
<1>5. Holding'
  BY DEF Holding, Typed, NoFile, FileTrue, Waited
<1>6. FileTrue'
  BY DEF FileTrue, Typed, NoFile, Holding, Files
<1>7. GivenKnown' /\ DeliveriesTrue'
  BY DEF GivenKnown, DeliveriesTrue, Typed, NoFile, Holding, FileTrue
<1> QED BY <1>1, <1>2, <1>3, <1>4, <1>5, <1>6, <1>7

LEMMA ClaimedKeeps == ASSUME WakeInv, Claimed PROVE WakeInv'
<1> USE DEF WakeInv, client, server, Claimed
<1>1. Typed'
  BY BoundsAssumption DEF Typed, Ops, Files, Calls, NoFile
<1>2. OnePending' /\ Spans' /\ Disjoint'
  BY ServerSame
<1>3. Waited'
  BY DEF Waited, Typed, NoFile, Calls, Holding
<1>4. Late'
  BY DEF Late, Typed, NoFile, Calls, FileTrue, Holding
<1>5. Holding'
  BY DEF Holding, Typed, NoFile, FileTrue, Waited
<1>6. FileTrue'
  BY DEF FileTrue, Typed, NoFile, Holding, Files
<1>7. GivenKnown' /\ DeliveriesTrue'
  BY DEF GivenKnown, DeliveriesTrue, Typed, NoFile, Holding, FileTrue
<1> QED BY <1>1, <1>2, <1>3, <1>4, <1>5, <1>6, <1>7

LEMMA ValidateKeeps == ASSUME WakeInv, Validate PROVE WakeInv'
<1> USE DEF WakeInv, client, server, Validate, Eligible
<1>1. Typed'
  BY BoundsAssumption DEF Typed, Ops, Files, Calls, NoFile
<1>2. OnePending' /\ Spans' /\ Disjoint'
  BY ServerSame
<1>3. Waited'
  BY DEF Waited, Typed, NoFile, Calls, Holding
<1>4. Late'
  BY DEF Late, Typed, NoFile, Calls, FileTrue, Holding
<1>5. Holding'
  BY DEF Holding, Typed, NoFile, FileTrue, Waited
<1>6. FileTrue'
  BY DEF FileTrue, Typed, NoFile, Holding, Files
<1>7. GivenKnown' /\ DeliveriesTrue'
  BY DEF GivenKnown, DeliveriesTrue, Typed, NoFile, Holding, FileTrue
<1> QED BY <1>1, <1>2, <1>3, <1>4, <1>5, <1>6, <1>7

LEMMA SavePublishingKeeps == ASSUME WakeInv, SavePublishing PROVE WakeInv'
<1> USE DEF WakeInv, client, server, SavePublishing
<1>1. Typed'
  BY BoundsAssumption DEF Typed, Ops, Files, Calls, NoFile
<1>2. OnePending' /\ Spans' /\ Disjoint'
  BY ServerSame
<1>3. Waited'
  BY DEF Waited, Typed, NoFile, Calls, Holding
<1>4. Late'
  BY DEF Late, Typed, NoFile, Calls, FileTrue, Holding
<1>5. Holding'
  BY DEF Holding, Typed, NoFile, FileTrue, Waited
<1>6. FileTrue'
  BY DEF FileTrue, Typed, NoFile, Holding, Files
<1>7. GivenKnown' /\ DeliveriesTrue'
  BY DEF GivenKnown, DeliveriesTrue, Typed, NoFile, Holding, FileTrue
<1> QED BY <1>1, <1>2, <1>3, <1>4, <1>5, <1>6, <1>7

LEMMA NativeTakesKeeps == ASSUME WakeInv, NativeTakes PROVE WakeInv'
<1> USE DEF WakeInv, client, server, NativeTakes
<1>8. /\ op = "delivering" /\ file # NoFile /\ file.delivery \in DOMAIN deliveries
      /\ file.delivery \in 1..MaxDeliveries /\ given[file.delivery] = 0
  BY BoundsAssumption DEF Typed, Holding, FileTrue, NoFile
<1>9. /\ given'[file.delivery] = 1
      /\ \A d \in 1..MaxDeliveries : d # file.delivery => given'[d] = given[d]
      /\ given' \in [1..MaxDeliveries -> Nat]
  BY <1>8 DEF Typed
<1>1. Typed'
  BY <1>9 DEF Typed, Ops
<1>2. OnePending' /\ Spans' /\ Disjoint'
  BY ServerSame
<1>3. Waited'
  BY DEF Waited, Typed, NoFile, Calls, Holding
<1>4. Late'
  BY DEF Late, Typed, NoFile, Calls, FileTrue, Holding
<1>5. Holding'
  BY DEF Holding, Typed, NoFile, FileTrue, Waited
<1>6. FileTrue'
  BY <1>8, <1>9 DEF FileTrue, Holding
<1>7. GivenKnown' /\ DeliveriesTrue'
  BY DEF GivenKnown, DeliveriesTrue, Typed, NoFile, Holding, FileTrue
<1> QED BY <1>1, <1>2, <1>3, <1>4, <1>5, <1>6, <1>7

LEMMA DeliveredKeeps == ASSUME WakeInv, Delivered PROVE WakeInv'
<1> USE DEF WakeInv, client, server, Delivered
<1>1. Typed'
  BY BoundsAssumption DEF Typed, Ops, Files, Calls, NoFile
<1>2. OnePending' /\ Spans' /\ Disjoint'
  BY ServerSame
<1>3. Waited'
  BY DEF Waited, Typed, NoFile, Calls, Holding
<1>4. Late'
  BY DEF Late, Typed, NoFile, Calls, FileTrue, Holding
<1>5. Holding'
  BY DEF Holding, Typed, NoFile, FileTrue, Waited
<1>6. FileTrue'
  BY DEF FileTrue, Typed, NoFile, Holding, Files
<1>7. GivenKnown' /\ DeliveriesTrue'
  BY DEF GivenKnown, DeliveriesTrue, Typed, NoFile, Holding, FileTrue
<1> QED BY <1>1, <1>2, <1>3, <1>4, <1>5, <1>6, <1>7

LEMMA RecoverKeeps == ASSUME WakeInv, Recover PROVE WakeInv'
<1> USE DEF WakeInv, client, server, Recover
<1>1. Typed'
  BY BoundsAssumption DEF Typed, Ops, Files, Calls, NoFile
<1>2. OnePending' /\ Spans' /\ Disjoint'
  BY ServerSame
<1>3. Waited'
  BY DEF Waited, Typed, NoFile, Calls, Holding
<1>4. Late'
  BY DEF Late, Typed, NoFile, Calls, FileTrue, Holding
<1>5. Holding'
  BY DEF Holding, Typed, NoFile, FileTrue, Waited
<1>6. FileTrue'
  <2>1. file.delivery \in 1..MaxDeliveries /\ file # NoFile
    BY BoundsAssumption DEF Typed, FileTrue, NoFile
  <2>2. given[file.delivery] \in {0, 1}
    BY <2>1 DEF GivenKnown, Typed
  <2>3. file' = [delivery |-> file.delivery, run |-> file.run,
                 stage |-> IF given[file.delivery] > 0 THEN "delivered" ELSE "queued"]
    BY DEF Typed, Files
  <2> QED BY <2>1, <2>2, <2>3 DEF FileTrue
<1>7. GivenKnown' /\ DeliveriesTrue'
  BY DEF GivenKnown, DeliveriesTrue, Typed, NoFile, Holding, FileTrue
<1> QED BY <1>1, <1>2, <1>3, <1>4, <1>5, <1>6, <1>7

LEMMA AcknowledgeKeeps == ASSUME WakeInv, Acknowledge PROVE WakeInv'
<1> USE DEF WakeInv, client, server, Acknowledge
<1>1. Typed'
  <2>1. [call |-> "ack", delivery |-> file.delivery, run |-> file.run,
         session |-> session, live |-> TRUE] \in Calls
    BY DEF Typed, Calls, Files
  <2>2. net' \subseteq Calls
    BY <2>1 DEF Typed
  <2> QED BY <2>2 DEF Typed, Ops
<1>2. OnePending' /\ Spans' /\ Disjoint'
  BY ServerSame
<1>3. Waited'
  BY DEF Waited, Typed, NoFile, Calls, Holding
<1>4. Late'
  BY DEF Late, Typed, NoFile, Calls, FileTrue, Holding
<1>5. Holding'
  BY DEF Holding, Typed, NoFile, FileTrue, Waited
<1>6. FileTrue'
  BY DEF FileTrue, Typed, NoFile, Holding, Files
<1>7. GivenKnown' /\ DeliveriesTrue'
  BY DEF GivenKnown, DeliveriesTrue, Typed, NoFile, Holding, FileTrue
<1> QED BY <1>1, <1>2, <1>3, <1>4, <1>5, <1>6, <1>7

LEMMA AcknowledgedKeeps == ASSUME WakeInv, Acknowledged PROVE WakeInv'
<1> USE DEF WakeInv, client, server, Acknowledged
<1>1. Typed'
  BY BoundsAssumption DEF Typed, Ops, Files, Calls, NoFile
<1>2. OnePending' /\ Spans' /\ Disjoint'
  BY ServerSame
<1>3. Waited'
  BY DEF Waited, Typed, NoFile, Calls, Holding
<1>4. Late'
  BY DEF Late, Typed, NoFile, Calls, FileTrue, Holding
<1>5. Holding'
  BY DEF Holding, Typed, NoFile, FileTrue, Waited
<1>6. FileTrue'
  BY DEF FileTrue, Typed, NoFile, Holding, Files
<1>7. GivenKnown' /\ DeliveriesTrue'
  BY DEF GivenKnown, DeliveriesTrue, Typed, NoFile, Holding, FileTrue
<1> QED BY <1>1, <1>2, <1>3, <1>4, <1>5, <1>6, <1>7

LEMMA EndKeeps == ASSUME WakeInv, NEW reported \in BOOLEAN, End(reported) PROVE WakeInv'
<1> USE DEF WakeInv, client, server, End, Left
<1>1. Typed'
  BY LeftCalls DEF Typed, Ops, NoFile
<1>2. OnePending' /\ Spans' /\ Disjoint'
  BY ServerSame
<1>3. Waited'
  BY DEF Waited, Typed, NoFile, Calls, Holding
<1>4. Late'
  BY DEF Late, Typed, NoFile, Calls, FileTrue, Holding
<1>5. Holding'
  BY DEF Holding, Typed, NoFile, FileTrue, Waited
<1>6. FileTrue'
  BY DEF FileTrue, Typed, NoFile, Holding, Files
<1>7. GivenKnown' /\ DeliveriesTrue'
  BY DEF GivenKnown, DeliveriesTrue, Typed, NoFile, Holding, FileTrue
<1> QED BY <1>1, <1>2, <1>3, <1>4, <1>5, <1>6, <1>7

-----------------------------------------------------------------------------
(* The server answers a call, or it is lost *)

(* A call that somebody waits for is the only one.                         *)
LEMMA OneWaits ==
  ASSUME WakeInv, NEW b \in net, NEW c \in net, b.live, c.live
  PROVE  b = c
<1>1. b \in Calls /\ c \in Calls
  BY DEF WakeInv, Typed
<1>2. /\ b.call = c.call /\ b.delivery = c.delivery /\ b.run = c.run /\ b.session = c.session
  BY <1>1 DEF WakeInv, Waited, Calls
<1> QED BY <1>1, <1>2 DEF Calls

(* What the end of a call c may change, for any answer: nothing given is   *)
(* offered again, and the delivery in the file keeps its run unless that   *)
(* has stopped.                                                            *)
AnswerStep(c, to, a) ==
    /\ net' = net \ {c}
    /\ op' = IF c.live THEN to ELSE op
    /\ answer' = IF c.live THEN a ELSE answer
    /\ UNCHANGED <<client, file, given>>
    /\ now' \in Nat /\ expired' \in Nat /\ rules' \in [Rules -> RuleState]
    /\ deliveries' \in Seq(Delivery) /\ Len(deliveries') <= MaxDeliveries
    /\ DOMAIN deliveries \subseteq DOMAIN deliveries'
    /\ OnePending' /\ Spans' /\ Disjoint'
KeepsDelivery(d) ==
    /\ deliveries'[d].session = deliveries[d].session
    /\ deliveries[d].status # "pending" => deliveries'[d].status # "pending"
    /\ deliveries'[d].status = "delivered" => deliveries[d].status = "delivered" \/ given[d] > 0

LEMMA AnswerKeeps ==
  ASSUME WakeInv, NEW c \in net, NEW to, NEW a \in Nat, AnswerStep(c, to, a),
         c.call = "claim" => to \in {"idle", "claimed"},
         c.call = "ack" => to \in {"idle", "acknowledged", "refused"},
         c.live /\ to = "acknowledged" => deliveries'[c.delivery].status # "pending",
         c.live /\ to = "refused" => file.run \in stopped,
         \A d \in DOMAIN deliveries : KeepsDelivery(d),
         \A d \in DOMAIN deliveries' \ DOMAIN deliveries :
            deliveries'[d].session <= session /\ deliveries'[d].status = "pending",
         file # NoFile => deliveries'[file.delivery].run = file.run \/ file.run \in stopped,
         ~c.live /\ answer # 0 => deliveries'[answer].run = cur,
         c.live /\ a # 0 => /\ to = "claimed" /\ a \in DOMAIN deliveries'
                            /\ deliveries'[a].session = c.session /\ deliveries'[a].run = c.run
                            /\ deliveries'[a].status = "pending"
  PROVE  WakeInv'
<1> USE DEF WakeInv, client
<1>1. Typed'
  <2>1. op' \in Ops
    BY DEF AnswerStep, Typed, Ops, Calls
  <2> QED BY <2>1 DEF AnswerStep, Typed
<1>2. OnePending' /\ Spans' /\ Disjoint'
  BY DEF AnswerStep
<1>3. Waited'
  <2>1. ASSUME NEW b \in net', b.live PROVE ~c.live
    BY <2>1, OneWaits DEF AnswerStep
  <2> QED BY <2>1 DEF Waited, AnswerStep
<1>4. Late'
  BY DEF Late, AnswerStep
<1>5. GivenKnown'
  <2>1. \A d \in DOMAIN deliveries : KeepsDelivery(d) /\ d \in DOMAIN deliveries'
    BY DEF AnswerStep
  <2> QED BY <2>1 DEF GivenKnown, AnswerStep, KeepsDelivery
<1>6. DeliveriesTrue'
  BY DEF DeliveriesTrue, AnswerStep, KeepsDelivery
<1>7. FileTrue'
  <2>1. SUFFICES ASSUME file # NoFile
                 PROVE  /\ file.delivery \in DOMAIN deliveries' /\ file.run <= runs
                        /\ deliveries'[file.delivery].session = session
                        /\ deliveries'[file.delivery].run = file.run \/ file.run \in stopped
                        /\ file.stage = "queued" \/ op' = "delivering" => given[file.delivery] = 0
                        /\ file.stage = "delivered" \/ op' = "given" => given[file.delivery] = 1
    BY DEF FileTrue, AnswerStep
  <2>2. op' = op \/ op' \notin {"delivering", "given"}
    BY DEF AnswerStep, Typed, Calls
  <2> QED BY <2>1, <2>2 DEF FileTrue, AnswerStep, KeepsDelivery
<1>8. Holding'
  <2>1. CASE ~c.live
    <3>1. op' = op /\ answer' = answer /\ UNCHANGED <<client, file, given>>
      BY <2>1 DEF AnswerStep
    <3>2. answer # 0 => answer \in DOMAIN deliveries
      BY DEF Holding
    <3>3. op = "acknowledged" => file.delivery \in DOMAIN deliveries
      BY DEF Holding, FileTrue, NoFile
    <3> QED BY <3>1, <3>2, <3>3, <2>1 DEF Holding, AnswerStep, KeepsDelivery
  <2>2. CASE c.live
    <3>1. /\ op' = to /\ answer' = a /\ UNCHANGED <<client, file, given>> /\ c.session = session
          /\ c.call \in {"claim", "ack"}
      BY <2>2 DEF AnswerStep, Waited, Typed, Calls
    <3>2. CASE c.call = "claim"
      <4>1. op = "claiming" /\ c.run = cur /\ to \in {"idle", "claimed"}
        BY <2>2, <3>2 DEF Waited
      <4>2. file = NoFile /\ cur > 0 /\ cur \notin stopped
        BY <4>1 DEF Holding
      <4>3. a # 0 => /\ a \in DOMAIN deliveries' /\ deliveries'[a].session = session
                     /\ deliveries'[a].run = cur /\ given[a] = 0 /\ to = "claimed"
        <5>1. SUFFICES ASSUME a # 0 PROVE given[a] = 0
          BY <2>2, <3>1, <4>1
        <5>2. a \in 1..MaxDeliveries /\ given[a] \in Nat
          BY <2>2, <5>1, BoundsAssumption DEF AnswerStep, Typed
        <5>3. ~(deliveries'[a].session < session)
          BY <2>2, <3>1, <5>1 DEF Typed
        <5> QED BY <1>5, <2>2, <3>1, <4>2, <5>1, <5>2, <5>3 DEF GivenKnown
      <4> QED BY <3>1, <4>1, <4>2, <4>3 DEF Holding
    <3>3. CASE c.call = "ack"
      <4>1. op = "acknowledging" /\ c.delivery = file.delivery
            /\ to \in {"idle", "acknowledged", "refused"} /\ a = 0
        BY <2>2, <3>3 DEF Waited
      <4>2. file.stage = "delivered" /\ cur > 0 /\ cur \notin stopped
        BY <4>1 DEF Holding
      <4> QED BY <2>2, <3>1, <4>1, <4>2 DEF Holding
    <3> QED BY <3>1, <3>2, <3>3
  <2> QED BY <2>1, <2>2
<1> QED BY <1>1, <1>2, <1>3, <1>4, <1>5, <1>6, <1>7, <1>8

(* The deliveries there were keep what the schedule is judged by.          *)
LEMMA SpansKept ==
  ASSUME WakeInv, now' = now, rules' \in [Rules -> RuleState],
         \A r \in Rules : EditsRule(r),
         deliveries' \in Seq(Delivery), DOMAIN deliveries \subseteq DOMAIN deliveries',
         \A d \in DOMAIN deliveries :
            /\ deliveries'[d].rule = deliveries[d].rule /\ deliveries'[d].rev = deliveries[d].rev
            /\ deliveries'[d].at = deliveries[d].at /\ deliveries'[d].created = deliveries[d].created
            /\ deliveries'[d].status = "pending" => deliveries[d].status = "pending"
  PROVE  /\ \A d, e \in DOMAIN deliveries :
              deliveries'[d].status = "pending" /\ deliveries'[e].status = "pending" => d = e
         /\ \A d \in DOMAIN deliveries :
              LET D == deliveries'[d] IN
              /\ D.at <= D.created /\ D.created <= now'
              /\ rules'[D.rule].state # "new" /\ D.rev <= rules'[D.rule].rev
              /\ D.rev = rules'[D.rule].rev => D.created < rules'[D.rule].due
         /\ \A e \in DOMAIN deliveries : \A d \in 1..(e - 1) :
              deliveries'[d].rule = deliveries'[e].rule /\ deliveries'[d].rev = deliveries'[e].rev
                => deliveries'[d].created < deliveries'[e].at
<1> USE DEF WakeInv
<1>1. \A d, e \in DOMAIN deliveries :
        deliveries'[d].status = "pending" /\ deliveries'[e].status = "pending" => d = e
  BY DEF OnePending
<1>2. ASSUME NEW d \in DOMAIN deliveries
      PROVE  LET D == deliveries'[d] IN
             /\ D.at <= D.created /\ D.created <= now'
             /\ rules'[D.rule].state # "new" /\ D.rev <= rules'[D.rule].rev
             /\ D.rev = rules'[D.rule].rev => D.created < rules'[D.rule].due
  <2> DEFINE r == deliveries[d].rule
  <2>1. deliveries[d] \in Delivery
    BY DEF Typed
  <2>2. r \in Rules
    BY <2>1 DEF Delivery
  <2>3. rules[r] \in RuleState /\ rules'[r] \in RuleState /\ EditsRule(r)
    BY <2>2 DEF Typed
  <2>4. /\ deliveries[d].at <= deliveries[d].created /\ deliveries[d].created <= now
        /\ rules[r].state # "new" /\ deliveries[d].rev <= rules[r].rev
        /\ deliveries[d].rev = rules[r].rev => deliveries[d].created < rules[r].due
    BY DEF Spans
  <2> HIDE DEF r
  <2>5. /\ rules'[r].state # "new" /\ deliveries[d].rev <= rules'[r].rev
        /\ deliveries[d].rev = rules'[r].rev => deliveries[d].created < rules'[r].due
    <3>1. /\ deliveries[d].rev \in Nat /\ deliveries[d].created \in Nat
          /\ rules[r].rev \in Nat /\ rules'[r].rev \in Nat /\ rules[r].due \in Nat /\ rules'[r].due \in Nat
      BY <2>1, <2>3 DEF RuleState, Delivery
    <3>2. CASE rules'[r].rev > rules[r].rev
      BY <2>3, <2>4, <3>1, <3>2 DEF EditsRule
    <3>3. CASE rules'[r].rev = rules[r].rev /\ rules'[r].due >= rules[r].due
      BY <2>3, <2>4, <3>1, <3>3 DEF EditsRule
    <3> QED BY <2>3, <2>4, <3>2, <3>3 DEF EditsRule
  <2> QED BY <2>4, <2>5 DEF r
<1>3. \A e \in DOMAIN deliveries : \A d \in 1..(e - 1) :
        deliveries'[d].rule = deliveries'[e].rule /\ deliveries'[d].rev = deliveries'[e].rev
          => deliveries'[d].created < deliveries'[e].at
  <2>1. \A e \in DOMAIN deliveries : \A d \in 1..(e - 1) : d \in DOMAIN deliveries
    BY DEF Typed
  <2> QED BY <2>1 DEF Disjoint
<1> QED BY <1>1, <1>2, <1>3

LEMMA RulesSame == ASSUME Typed, rules' = rules PROVE rules' \in [Rules -> RuleState] /\ \A r \in Rules : EditsRule(r)
BY DEF Typed, EditsRule, RuleState

(* No delivery changes.                                                    *)
LEMMA UnchangedAnswer ==
  ASSUME WakeInv, NEW c \in net, NEW to, Answered(c, to, 0),
         UNCHANGED <<server, client, file, given>>,
         c.call = "claim" => to \in {"idle", "claimed"},
         c.call = "ack" => to \in {"idle", "acknowledged", "refused"},
         c.live /\ to = "acknowledged" => deliveries[c.delivery].status # "pending",
         c.live /\ to = "refused" => file.run \in stopped
  PROVE  WakeInv'
<1> USE DEF WakeInv, server
<1>1. OnePending' /\ Spans' /\ Disjoint'
  BY ServerSame
<1>2. AnswerStep(c, to, 0)
  BY <1>1 DEF AnswerStep, Answered, Typed
<1>3. \A d \in DOMAIN deliveries : KeepsDelivery(d)
  BY DEF KeepsDelivery
<1>4. file # NoFile => deliveries'[file.delivery].run = file.run \/ file.run \in stopped
  BY DEF FileTrue
<1>5. ~c.live /\ answer # 0 => deliveries'[answer].run = cur
  BY DEF Holding
<1> QED BY <1>2, <1>3, <1>4, <1>5, AnswerKeeps

LEMMA LoseKeeps == ASSUME WakeInv, NEW c \in net, Lose(c) PROVE WakeInv'
<1>1. Answered(c, "idle", 0)
  <2>1. c.live => answer = 0
    BY DEF WakeInv, Waited, Holding, Typed, Calls
  <2> QED BY <2>1 DEF Lose, Answered
<1> QED BY <1>1, UnchangedAnswer DEF Lose

LEMMA RefusedKeeps == ASSUME WakeInv, NEW c \in net, ClaimRefused(c) PROVE WakeInv'
BY UnchangedAnswer DEF ClaimRefused

(* A receipt is refused only when the run of the file has stopped.         *)
LEMMA ReceiptKeeps == ASSUME WakeInv, NEW c \in net, Receipt(c) PROVE WakeInv'
<1> USE DEF WakeInv
<1>1. c.call = "ack" /\ c.delivery \in DOMAIN deliveries /\ given[c.delivery] > 0
      /\ UNCHANGED <<now, edits, rules, expired, client, file, given>>
  BY DEF Receipt, Late
<1>2. CASE /\ deliveries[c.delivery].status = "removed"
           /\ UNCHANGED deliveries /\ Answered(c, "acknowledged", 0)
  BY <1>1, <1>2, UnchangedAnswer DEF server
<1>3. CASE /\ ~(deliveries[c.delivery].run = c.run /\ deliveries[c.delivery].session = c.session)
           /\ UNCHANGED deliveries /\ Answered(c, "refused", 0)
  <2>1. c.live => file.run \in stopped
    <3>1. SUFFICES ASSUME c.live PROVE file.run \in stopped
      OBVIOUS
    <3>2. c.delivery = file.delivery /\ c.run = file.run /\ c.session = session /\ op = "acknowledging"
      BY <1>1, <3>1 DEF Waited
    <3>3. file # NoFile
      BY <3>2 DEF Holding, NoFile
    <3> QED BY <1>3, <3>2, <3>3 DEF FileTrue
  <2> QED BY <1>1, <1>3, <2>1, UnchangedAnswer DEF server
<1>4. CASE /\ deliveries' = [deliveries EXCEPT ![c.delivery].status = "delivered"]
           /\ Answered(c, "acknowledged", 0)
  <2>1. deliveries[c.delivery] \in Delivery
    BY <1>1 DEF Typed
  <2>2. /\ deliveries' = [deliveries EXCEPT ![c.delivery] = deliveries'[c.delivery]]
        /\ deliveries'[c.delivery] = [deliveries[c.delivery] EXCEPT !.status = "delivered"]
        /\ \A d \in DOMAIN deliveries : d # c.delivery => deliveries'[d] = deliveries[d]
    BY <1>1, <1>4
  <2>3. deliveries'[c.delivery] \in Delivery
    BY <2>1, <2>2 DEF Delivery, Statuses
  <2>4. deliveries' \in Seq(Delivery) /\ Len(deliveries') = Len(deliveries)
        /\ DOMAIN deliveries' = DOMAIN deliveries
    BY <1>1, <2>2, <2>3 DEF Typed
  <2>5. \A d \in DOMAIN deliveries :
          /\ deliveries'[d].rule = deliveries[d].rule /\ deliveries'[d].rev = deliveries[d].rev
          /\ deliveries'[d].at = deliveries[d].at /\ deliveries'[d].created = deliveries[d].created
          /\ deliveries'[d].session = deliveries[d].session /\ deliveries'[d].run = deliveries[d].run
          /\ deliveries'[d].status = deliveries[d].status \/ (d = c.delivery /\ deliveries'[d].status = "delivered")
    BY <2>1, <2>2 DEF Delivery
  <2>6. OnePending' /\ Spans' /\ Disjoint'
    BY <1>1, <2>4, <2>5, RulesSame, SpansKept DEF OnePending, Spans, Disjoint
  <2>7. AnswerStep(c, "acknowledged", 0)
    BY <1>1, <1>4, <2>4, <2>6 DEF AnswerStep, Answered, Typed
  <2>8. \A d \in DOMAIN deliveries : KeepsDelivery(d)
    BY <1>1, <2>5 DEF KeepsDelivery
  <2>9. file # NoFile => deliveries'[file.delivery].run = file.run \/ file.run \in stopped
    BY <2>5 DEF FileTrue
  <2>10. ~c.live /\ answer # 0 => deliveries'[answer].run = cur
    BY <2>5 DEF Holding
  <2>11. deliveries'[c.delivery].status = "delivered"
    BY <2>1, <2>2 DEF Delivery
  <2> QED BY <1>1, <2>4, <2>7, <2>8, <2>9, <2>10, <2>11, AnswerKeeps
<1> QED BY <1>2, <1>3, <1>4 DEF Receipt

(* A pending delivery goes to the run that asks, is cancelled because the  *)
(* rule has changed, or is held by a run that lives.                       *)
LEMMA ClaimPendingKeeps == ASSUME WakeInv, NEW c \in net, ClaimPending(c) PROVE WakeInv'
<1> USE DEF WakeInv
<1> DEFINE o == OldestPending
<1>1. /\ c.call = "claim" /\ Live(c.run) /\ c.run <= runs
      /\ UNCHANGED <<now, edits, rules, expired, client, file, hint, given>>
  BY DEF ClaimPending, Late
<1>2. o \in DOMAIN deliveries /\ deliveries[o].status = "pending"
  <2>1. PICK d \in Pending : TRUE
    BY DEF ClaimPending
  <2>2. d \in Nat /\ \A e \in Pending : e = d
    BY <2>1 DEF Pending, OnePending, Typed
  <2>3. d \in Pending /\ \A y \in Pending : d =< y
    BY <2>1, <2>2
  <2>4. o \in Pending
    BY <2>3 DEF OldestPending, Min
  <2> QED BY <2>4 DEF Pending
<1>3. deliveries[o] \in Delivery
  BY <1>2 DEF Typed
<1> HIDE DEF o
<1>4. CASE UNCHANGED deliveries /\ Answered(c, "claimed", 0)
  BY <1>1, <1>4, UnchangedAnswer DEF server
<1>5. CASE /\ deliveries' = [deliveries EXCEPT ![o].status = "cancelled"]
           /\ Answered(c, "claimed", 0)
  <2>1. /\ deliveries' = [deliveries EXCEPT ![o] = deliveries'[o]]
        /\ deliveries'[o] = [deliveries[o] EXCEPT !.status = "cancelled"]
        /\ \A d \in DOMAIN deliveries : d # o => deliveries'[d] = deliveries[d]
    BY <1>2, <1>5
  <2>2. deliveries'[o] \in Delivery
    BY <1>3, <2>1 DEF Delivery, Statuses
  <2>3. deliveries' \in Seq(Delivery) /\ Len(deliveries') = Len(deliveries)
        /\ DOMAIN deliveries' = DOMAIN deliveries
    <3>1. deliveries \in Seq(Delivery)
      BY DEF Typed
    <3> QED BY <1>2, <2>1, <2>2, <3>1
  <2>4. \A d \in DOMAIN deliveries :
          /\ deliveries'[d].rule = deliveries[d].rule /\ deliveries'[d].rev = deliveries[d].rev
          /\ deliveries'[d].at = deliveries[d].at /\ deliveries'[d].created = deliveries[d].created
          /\ deliveries'[d].session = deliveries[d].session /\ deliveries'[d].run = deliveries[d].run
          /\ deliveries'[d].status \in {deliveries[d].status, "cancelled"}
    BY <1>3, <2>1 DEF Delivery
  <2>5. OnePending' /\ Spans' /\ Disjoint'
    BY <1>1, <2>3, <2>4, RulesSame, SpansKept DEF OnePending, Spans, Disjoint
  <2>6. AnswerStep(c, "claimed", 0)
    BY <1>1, <1>5, <2>3, <2>5 DEF AnswerStep, Answered, Typed
  <2>7. \A d \in DOMAIN deliveries : KeepsDelivery(d)
    BY <2>4 DEF KeepsDelivery
  <2>8. file # NoFile => deliveries'[file.delivery].run = file.run \/ file.run \in stopped
    BY <2>4 DEF FileTrue
  <2>9. ~c.live /\ answer # 0 => deliveries'[answer].run = cur
    BY <2>4 DEF Holding
  <2> QED BY <1>1, <2>3, <2>6, <2>7, <2>8, <2>9, AnswerKeeps
<1>6. CASE /\ ~Held(o, c)
           /\ deliveries' = [deliveries EXCEPT ![o].run = c.run]
           /\ Answered(c, "claimed", o)
  <2>1. c \in Calls /\ c.run \in Nat
    BY DEF Typed, Calls
  <2>2. /\ deliveries' = [deliveries EXCEPT ![o] = deliveries'[o]]
        /\ deliveries'[o] = [deliveries[o] EXCEPT !.run = c.run]
        /\ \A d \in DOMAIN deliveries : d # o => deliveries'[d] = deliveries[d]
    BY <1>2, <1>6
  <2>3. deliveries'[o] \in Delivery
    BY <1>3, <2>1, <2>2 DEF Delivery
  <2>4. deliveries' \in Seq(Delivery) /\ Len(deliveries') = Len(deliveries)
        /\ DOMAIN deliveries' = DOMAIN deliveries
    <3>1. deliveries \in Seq(Delivery)
      BY DEF Typed
    <3> QED BY <1>2, <2>2, <2>3, <3>1
  <2>5. \A d \in DOMAIN deliveries :
          /\ deliveries'[d].rule = deliveries[d].rule /\ deliveries'[d].rev = deliveries[d].rev
          /\ deliveries'[d].at = deliveries[d].at /\ deliveries'[d].created = deliveries[d].created
          /\ deliveries'[d].session = deliveries[d].session
          /\ deliveries'[d].status = deliveries[d].status
          /\ d # o => deliveries'[d].run = deliveries[d].run
    BY <1>3, <2>2 DEF Delivery
  <2>6. deliveries'[o].run = c.run
    BY <1>3, <2>2 DEF Delivery
  <2>7. OnePending' /\ Spans' /\ Disjoint'
    BY <1>1, <2>4, <2>5, RulesSame, SpansKept DEF OnePending, Spans, Disjoint
  <2>8. o \in Nat /\ o # 0
    BY <1>2 DEF Typed
  <2>9. AnswerStep(c, "claimed", o)
    BY <1>1, <1>6, <2>4, <2>7 DEF AnswerStep, Answered, Typed
  <2>10. \A d \in DOMAIN deliveries : KeepsDelivery(d)
    BY <2>5 DEF KeepsDelivery
  <2>11. deliveries[o].session = c.session /\ (deliveries[o].run = c.run \/ ~Live(deliveries[o].run))
    BY <1>6 DEF Held
  (* The file's run is not overtaken by a claim older than the file.       *)
  <2>12. file # NoFile => deliveries'[file.delivery].run = file.run \/ file.run \in stopped
    <3>1. SUFFICES ASSUME file # NoFile, file.delivery = o, file.run \notin stopped
                   PROVE  c.run = file.run
      BY <2>5, <2>6 DEF FileTrue
    <3>2. c.run <= file.run /\ deliveries[o].run = file.run
      BY <1>1, <3>1 DEF Late, FileTrue
    <3>3. c.run > expired /\ file.run \in Nat /\ expired \in Nat
      BY <1>1 DEF Live, Typed, Files
    <3>4. Live(file.run)
      BY <2>1, <3>1, <3>2, <3>3 DEF Live
    <3> QED BY <2>11, <3>2, <3>4
  <2>13. ~c.live /\ answer # 0 => deliveries'[answer].run = cur
    <3>1. SUFFICES ASSUME answer # 0, answer = o PROVE c.run = cur
      BY <2>5, <2>6 DEF Holding
    <3>2. deliveries[o].run = cur /\ cur = runs /\ cur \notin stopped /\ cur \in Nat
      BY <3>1 DEF Holding, Typed
    <3>3. Live(cur)
      BY <1>1, <2>1, <3>2 DEF Live, Typed
    <3> QED BY <2>11, <3>2, <3>3
  <2>14. o \in DOMAIN deliveries' /\ deliveries'[o].session = c.session
         /\ deliveries'[o].status = "pending"
    BY <1>2, <2>4, <2>5, <2>11
  <2> QED BY <1>1, <2>4, <2>6, <2>8, <2>9, <2>10, <2>12, <2>13, <2>14, AnswerKeeps
<1> QED BY <1>4, <1>5, <1>6 DEF ClaimPending, o

(* All rules that are due and come before the chosen one move past now.    *)
LEMMA AdvancedRules ==
  ASSUME WakeInv, rules' = Advanced
  PROVE  /\ rules' \in [Rules -> RuleState]
         /\ \A r \in Rules : EditsRule(r) /\ rules'[r].rev = rules[r].rev
                             /\ rules'[r].state = rules[r].state
         /\ \A r \in Passed : rules'[r].due > now
<1> USE DEF WakeInv
<1>1. \A r \in Rules : rules[r] \in RuleState
  BY DEF Typed
<1>2. ASSUME NEW r \in Passed
      PROVE  /\ r \in Rules /\ rules[r].due <= now /\ rules'[r] \in RuleState
             /\ rules'[r].state = rules[r].state /\ rules'[r].rev = rules[r].rev
             /\ rules'[r].due > now
  <2>1. r \in Rules /\ rules[r].due <= now
    BY DEF Passed, Due
  <2>2. rules[r].due \in Nat
    BY <1>1, <2>1 DEF RuleState
  <2>3. NextAfter(r, LastMissed(r)) \in Nat /\ NextAfter(r, LastMissed(r)) > now
    BY <2>1, <2>2, AdvanceIsLater DEF Typed
  <2> DEFINE next == NextAfter(r, LastMissed(r))
  <2>4. rules'[r] = [rules[r] EXCEPT !.due = next]
    BY <2>1 DEF Advanced
  <2> HIDE DEF next
  <2>5. rules'[r] \in RuleState /\ rules'[r].due = next
        /\ rules'[r].state = rules[r].state /\ rules'[r].rev = rules[r].rev
    BY <1>1, <2>1, <2>3, <2>4 DEF RuleState, next
  <2> QED BY <2>1, <2>3, <2>5 DEF next
<1>3. \A r \in Rules \ Passed : rules'[r] = rules[r]
  BY DEF Advanced
<1>4. ASSUME NEW r \in Rules
      PROVE  rules'[r] \in RuleState /\ EditsRule(r) /\ rules'[r].rev = rules[r].rev
             /\ rules'[r].state = rules[r].state
  <2>1. CASE r \in Passed
    <3>1. /\ rules[r].due <= now /\ rules'[r] \in RuleState
          /\ rules'[r].state = rules[r].state /\ rules'[r].rev = rules[r].rev
          /\ rules'[r].due > now
      BY <1>2, <2>1
    <3>2. rules[r].due \in Nat /\ rules'[r].due \in Nat /\ now \in Nat
      BY <1>1, <3>1 DEF RuleState, Typed
    <3> QED BY <3>1, <3>2 DEF EditsRule
  <2>2. CASE r \notin Passed
    BY <1>1, <1>3, <2>2 DEF EditsRule, RuleState
  <2> QED BY <2>1, <2>2
<1>5. rules' = [r \in Rules |-> rules'[r]]
  BY DEF Advanced
<1>6. \A r \in Passed : rules'[r].due > now
  BY <1>2
<1> QED BY <1>4, <1>5, <1>6

(* The occurrences a rule has missed become one delivery, for the deadline *)
(* that none of its earlier deliveries has reached.                        *)
LEMMA ClaimDueKeeps == ASSUME WakeInv, NEW c \in net, ClaimDue(c) PROVE WakeInv'
<1> USE DEF WakeInv
<1>1. /\ c.call = "claim" /\ Pending = {} /\ rules' = Advanced
      /\ UNCHANGED <<now, edits, expired, client, file, hint, given>>
  BY DEF ClaimDue
<1>2. /\ rules' \in [Rules -> RuleState]
      /\ \A r \in Rules : EditsRule(r) /\ rules'[r].rev = rules[r].rev
                          /\ rules'[r].state = rules[r].state
      /\ \A r \in Passed : rules'[r].due > now
  BY <1>1, AdvancedRules
<1>3. c \in Calls /\ c.session \in Nat /\ c.run \in Nat /\ c.session <= session
  BY DEF Typed, Calls, Late
<1>4. CASE UNCHANGED deliveries /\ Answered(c, "claimed", 0)
  <2>1. OnePending' /\ Spans' /\ Disjoint'
    BY <1>1, <1>2, <1>4, SpansKept DEF OnePending, Spans, Disjoint, Typed
  <2>2. AnswerStep(c, "claimed", 0)
    BY <1>1, <1>2, <1>4, <2>1 DEF AnswerStep, Answered, Typed
  <2>3. \A d \in DOMAIN deliveries : KeepsDelivery(d)
    BY <1>4 DEF KeepsDelivery
  <2>4. file # NoFile => deliveries'[file.delivery].run = file.run \/ file.run \in stopped
    BY <1>4 DEF FileTrue
  <2>5. ~c.live /\ answer # 0 => deliveries'[answer].run = cur
    BY <1>4 DEF Holding
  <2> QED BY <1>1, <1>4, <2>2, <2>3, <2>4, <2>5, AnswerKeeps
<1>5. CASE /\ Len(deliveries) < MaxDeliveries
           /\ \E r \in Chosen : deliveries' = Append(deliveries, NewDelivery(r, c))
           /\ Answered(c, "claimed", Len(deliveries) + 1)
  <2> DEFINE n == Len(deliveries) + 1
  <2>1. PICK r \in Chosen : deliveries' = Append(deliveries, NewDelivery(r, c))
    BY <1>5
  <2>2. r \in Passed /\ r \in Rules /\ rules[r].due <= now /\ rules[r].state = "assigned"
    BY DEF Chosen, Passed, Due, Enabled
  <2>3. rules[r] \in RuleState /\ rules'[r] \in RuleState
    BY <1>2, <2>2 DEF Typed
  <2>4. rules[r].due \in Nat /\ rules[r].rev \in Nat /\ now \in Nat /\ rules'[r].due > now
        /\ rules'[r].rev = rules[r].rev /\ rules'[r].state = "assigned"
    BY <1>2, <2>2, <2>3 DEF RuleState, Typed
  <2> DEFINE new == NewDelivery(r, c)
  <2>5. /\ new \in Delivery
        /\ new.rule = r /\ new.rev = rules[r].rev /\ new.run = c.run /\ new.session = c.session
        /\ new.at = rules[r].due /\ new.created = now /\ new.status = "pending"
    BY <1>3, <2>2, <2>4 DEF NewDelivery, Delivery, Statuses
  <2> HIDE DEF new
  <2>6. /\ deliveries' \in Seq(Delivery) /\ Len(deliveries') = n /\ deliveries'[n] = new
        /\ \A d \in DOMAIN deliveries : deliveries'[d] = deliveries[d]
        /\ DOMAIN deliveries = 1..Len(deliveries) /\ DOMAIN deliveries' = 1..n
        /\ Len(deliveries) \in Nat
    <3>1. deliveries \in Seq(Delivery) /\ deliveries' = Append(deliveries, new)
      BY <2>1 DEF Typed, new
    <3> QED BY <2>5, <3>1
  <2>7. DOMAIN deliveries \subseteq DOMAIN deliveries' /\ DOMAIN deliveries' = DOMAIN deliveries \cup {n}
        /\ n \notin DOMAIN deliveries /\ n \in Nat /\ n # 0
    BY <2>6
  <2> HIDE DEF n
  <2>8. \A d \in DOMAIN deliveries : deliveries[d].status # "pending"
    BY <1>1 DEF Pending
  <2>9. /\ \A d, e \in DOMAIN deliveries :
             deliveries'[d].status = "pending" /\ deliveries'[e].status = "pending" => d = e
        /\ \A d \in DOMAIN deliveries :
             LET D == deliveries'[d] IN
             /\ D.at <= D.created /\ D.created <= now'
             /\ rules'[D.rule].state # "new" /\ D.rev <= rules'[D.rule].rev
             /\ D.rev = rules'[D.rule].rev => D.created < rules'[D.rule].due
        /\ \A e \in DOMAIN deliveries : \A d \in 1..(e - 1) :
             deliveries'[d].rule = deliveries'[e].rule /\ deliveries'[d].rev = deliveries'[e].rev
               => deliveries'[d].created < deliveries'[e].at
    BY <1>1, <1>2, <2>6, <2>7, SpansKept
  <2>10. OnePending'
    BY <2>6, <2>7, <2>8 DEF OnePending
  <2>11. Spans'
    <3>1. /\ new.at <= new.created /\ new.created <= now'
          /\ rules'[new.rule].state # "new" /\ new.rev <= rules'[new.rule].rev
          /\ new.rev = rules'[new.rule].rev => new.created < rules'[new.rule].due
      BY <1>1, <2>2, <2>4, <2>5
    <3> QED BY <2>6, <2>7, <2>9, <3>1 DEF Spans
  <2>12. Disjoint'
    <3>1. ASSUME NEW d \in 1..(n - 1), deliveries[d].rule = r, deliveries[d].rev = rules[r].rev
          PROVE  deliveries[d].created < rules[r].due
      <4>1. d \in DOMAIN deliveries
        BY <2>6 DEF n
      <4> QED BY <3>1, <4>1 DEF Spans
    <3>2. \A d \in 1..(n - 1) : deliveries'[d] = deliveries[d]
      BY <2>6 DEF n
    <3>3. \A d \in 1..(n - 1) :
            deliveries'[d].rule = deliveries'[n].rule /\ deliveries'[d].rev = deliveries'[n].rev
              => deliveries'[d].created < deliveries'[n].at
      BY <2>5, <2>6, <3>1, <3>2
    <3> QED BY <2>7, <2>9, <3>3 DEF Disjoint
  <2>13. AnswerStep(c, "claimed", n)
    <3>1. n <= MaxDeliveries
      BY <1>5, <2>6, BoundsAssumption DEF n
    <3>2. /\ net' = net \ {c}
          /\ op' = IF c.live THEN "claimed" ELSE op
          /\ answer' = IF c.live THEN n ELSE answer
      <4>1. Answered(c, "claimed", n)
        BY <1>5 DEF n
      <4> QED BY <4>1 DEF Answered
    <3>3. now' \in Nat /\ expired' \in Nat
      BY <1>1 DEF Typed
    <3>4. UNCHANGED <<client, file, given>>
      BY <1>1
    <3>5. DOMAIN deliveries \subseteq DOMAIN deliveries' /\ Len(deliveries') <= MaxDeliveries
          /\ deliveries' \in Seq(Delivery)
      BY <2>6, <2>7, <3>1
    <3>6. rules' \in [Rules -> RuleState]
      BY <1>2
    <3> QED BY <2>10, <2>11, <2>12, <3>2, <3>3, <3>4, <3>5, <3>6 DEF AnswerStep
  <2>14. \A d \in DOMAIN deliveries : KeepsDelivery(d)
    BY <2>6 DEF KeepsDelivery
  <2>15. file # NoFile => deliveries'[file.delivery].run = file.run \/ file.run \in stopped
    BY <2>6 DEF FileTrue
  <2>16. ~c.live /\ answer # 0 => deliveries'[answer].run = cur
    BY <2>6 DEF Holding
  <2> QED BY <1>1, <1>3, <2>5, <2>6, <2>7, <2>13, <2>14, <2>15, <2>16, AnswerKeeps
<1> QED BY <1>4, <1>5 DEF ClaimDue

-----------------------------------------------------------------------------
LEMMA WakeInit == ASSUME Init PROVE WakeInv
<1> USE DEF Init, NoFile, NoRule
<1>1. Typed
  BY BoundsAssumption DEF Typed, RuleState, Ops, Files
<1>2. OnePending /\ Spans /\ Disjoint /\ DeliveriesTrue
  BY DEF OnePending, Spans, Disjoint, DeliveriesTrue
<1>3. Waited /\ Late /\ Holding /\ FileTrue /\ GivenKnown
  BY DEF Waited, Late, Holding, FileTrue, GivenKnown
<1> QED BY <1>1, <1>2, <1>3 DEF WakeInv

LEMMA WakeStep == WakeInv /\ [Next]_vars => WakeInv'
<1> SUFFICES ASSUME WakeInv, [Next]_vars PROVE WakeInv'
  OBVIOUS
<1>1. CASE Tick \/ Owner
  BY <1>1, ClockKeeps, OwnerKeeps
<1>2. CASE Runs
  BY <1>2, StartKeeps, ClockKeeps, InterruptKeeps, ResetKeeps, EndKeeps DEF Runs
<1>3. CASE AtServer
  BY <1>3, RefusedKeeps, ClaimPendingKeeps, ClaimDueKeeps, ReceiptKeeps DEF AtServer
<1>4. CASE Publisher
  BY <1>4, ClockKeeps, ClaimKeeps, ClaimedKeeps, ValidateKeeps, SavePublishingKeeps, NativeTakesKeeps,
     DeliveredKeeps, RecoverKeeps, AcknowledgeKeeps, AcknowledgedKeeps DEF Publisher
<1>5. CASE \E c \in net : Lose(c)
  BY <1>5, LoseKeeps
<1>6. CASE UNCHANGED vars
  BY <1>6, StutterKeeps
<1> QED BY <1>1, <1>2, <1>3, <1>4, <1>5, <1>6 DEF Next

(* The invariant of a wake-up between its rule, the server's delivery, the *)
(* calls on their way, the file and the runtime.                           *)
THEOREM WakeInvariant == Spec => []WakeInv
<1>1. Init => WakeInv
  BY WakeInit
<1> QED BY <1>1, WakeStep, PTL DEF Spec

(* No wake-up reaches the native runtime twice, whatever process, run or   *)
(* call is lost or late between the claim and the receipt.                 *)
THEOREM WokenOnce == Spec => []GivenOnce
<1>1. WakeInv => GivenOnce
  BY DEF WakeInv, Typed, GivenKnown, GivenOnce
<1> QED BY <1>1, WakeInvariant, PTL

(* Late occurrences coalesce: one delivery is pending at most, none is     *)
(* early, and two of one revision stand for disjoint spans of time.        *)
THEOREM OccurrencesCoalesce == Spec => []Coalesced
<1>1. WakeInv => Coalesced
  <2> SUFFICES ASSUME WakeInv PROVE Coalesced
    OBVIOUS
  <2>1. Cardinality(Pending) <= 1
    <3>1. CASE Pending = {}
      BY <3>1, FS_EmptySet
    <3>2. CASE Pending # {}
      <4>1. PICK d \in Pending : TRUE
        BY <3>2
      <4>2. Pending = {d}
        BY <4>1 DEF WakeInv, OnePending, Pending
      <4>3. Cardinality({d}) = 1
        BY FS_Singleton
      <4> QED BY <4>2, <4>3
    <3> QED BY <3>1, <3>2
  <2>2. \A e \in DOMAIN deliveries : deliveries[e].at <= deliveries[e].created
    BY DEF WakeInv, Spans
  <2> QED BY <2>1, <2>2 DEF WakeInv, Disjoint, Coalesced
<1> QED BY <1>1, WakeInvariant, PTL

(* The server shows delivered only what the runtime took, and refuses a    *)
(* receipt only when the run that published has stopped.                   *)
THEOREM ReceiptsTrue == Spec => []ReceiptTrue
<1>1. WakeInv => ReceiptTrue
  BY DEF WakeInv, DeliveriesTrue, Holding, ReceiptTrue
<1> QED BY <1>1, WakeInvariant, PTL
=============================================================================
