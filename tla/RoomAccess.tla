----------------------------- MODULE RoomAccess -----------------------------
(***************************************************************************)
(* Agents in one Matrix room: the desired grants of the server's database  *)
(* (crossfire domain, room_access), and the membership at the homeserver.  *)
(* A change of grants is prepared against a snapshot, authorised at the    *)
(* homeserver and rechecked where it is committed.  A reconciliation holds *)
(* the room's guard, takes a snapshot, calls the homeserver and saves what *)
(* it has seen unless the authority has changed.  The reconciliation of an *)
(* account (principal.rs) sweeps its rooms without that guard.             *)
(*                                                                         *)
(* A call to the homeserver may fail without effect or after it.  The      *)
(* owner stands for the people that may manage the agents.                 *)
(***************************************************************************)
EXTENDS Naturals, FiniteSets

CONSTANTS Agents,          \* of one owner
          Owner,           \* the human, always active
          Levels,          \* the access levels a grant may have
          PolicyInvites,   \* agents whose approved fleet policy lets them invite
          Settled,         \* agents the owner has added before, joined since
          MaxChanges,      \* bound: changes of grants, permissions and status
          MaxEvents,       \* bound: invitations at the homeserver, departures or
                           \* removals by people, and reconciliations of accounts
          MaxFaults        \* bound: failing calls and crashes of the server
ASSUME ActorsAssumption == Owner \notin Agents /\ PolicyInvites \cup Settled \subseteq Agents
ASSUME LevelsAssumption == "reply" \in Levels /\ Levels \cap {"none", "absent"} = {}
ASSUME BoundsAssumption == {MaxChanges, MaxEvents, MaxFaults} \subseteq Nat

VARIABLES
  active,    \* database: agents that are not suspended
  rev,       \* database: the revision of each agent
  grant,     \* database: the grant of each agent in this room
  perm,      \* database: agents with a permission of their grant's generation
  app,       \* database: what is known to be applied of each grant
  native,    \* homeserver: the membership of each agent
  asks,      \* memory: changes between their authorisation and their commit
  rec,       \* memory: the reconciliation that holds the room's guard
  sweep,     \* memory: the reconciliation of each account
  admitted,  \* history: agents joined for the generation of their grant
  ousted,    \* history: agents taken out since by anything but that grant
  count

database == <<active, rev, grant, perm, app>>
history == <<admitted, ousted>>
vars == <<database, native, asks, rec, sweep, history, count>>

-----------------------------------------------------------------------------
Actors == Agents \cup {Owner}
NoGrant == [access |-> "absent", by |-> Owner, added |-> Owner, event |-> 0, managed |-> TRUE]
NotApplied == [current |-> FALSE, access |-> FALSE, joined |-> FALSE, error |-> FALSE]
Applied == [current |-> TRUE, access |-> TRUE, joined |-> TRUE, error |-> FALSE]
Outside == [at |-> "out", event |-> 0, sender |-> Owner]
Inside == [at |-> "in", event |-> 0, sender |-> Owner]
In(a) == native[a].at = "in"
Wanted(a) == grant[a].access \in Levels
Delegated(s) == Wanted(s) /\ s \in perm
NoRec == [at |-> "idle", agent |-> Owner, grant |-> NoGrant, command |-> FALSE,
          revs |-> <<0, 0>>, seen |-> "none", ok |-> FALSE]
NoSweep == [at |-> "idle", active |-> TRUE]

Count(kind, max) == count[kind] < max /\ count' = [count EXCEPT ![kind] = @ + 1]
Change == Count("changes", MaxChanges)
Event == Count("events", MaxEvents)
Fault == Count("faults", MaxFaults)
Bump(S) == rev' = [a \in Agents |-> IF a \in S THEN rev[a] + 1 ELSE rev[a]]

Init == /\ active = Agents /\ rev = [a \in Agents |-> 0]
        /\ grant = [a \in Agents |->
                      IF a \in Settled THEN [NoGrant EXCEPT !.access = "reply"] ELSE NoGrant]
        /\ perm = Settled \cap PolicyInvites
        /\ app = [a \in Agents |-> IF a \in Settled THEN Applied ELSE NotApplied]
        /\ native = [a \in Agents |-> IF a \in Settled THEN Inside ELSE Outside]
        /\ asks = {} /\ rec = NoRec /\ sweep = [a \in Agents |-> NoSweep]
        /\ admitted = Settled /\ ousted = {}
        /\ count = [changes |-> 0, events |-> 0, faults |-> 0]

-----------------------------------------------------------------------------
(* Changes of grants.  A change names the level every agent it lists is to *)
(* have; a room plan lists several.  event is the invitation an agent      *)
(* accepts, whose sender is the one who asks.                              *)

Fresh(a, event) == event # 0 /\ event # grant[a].event
Differs(a, level) == grant[a].access # level /\ ~(grant[a].access = "absent" /\ level = "none")
Changes(a, level, event) == Fresh(a, event) \/ Differs(a, level)
Raises(a, level, event) == level \in Levels /\ Changes(a, level, event)

(* prepare: an agent adds others by its delegation, and takes back only    *)
(* what it has added.  A withdrawn invitation is not accepted.             *)
MayChange(by, a, level, event) ==
  /\ level \in Levels => a \in active
  /\ event # 0 => ~(grant[a].event = event /\ grant[a].access = "none")
  /\ by \in Agents =>
       /\ by # a /\ by \in active /\ Delegated(by)
       /\ Wanted(a) /\ Changes(a, level, event) => grant[a].added = by
       /\ Raises(a, level, event) => In(by)

Ask(by, to, event) ==
  /\ \A a \in DOMAIN to : MayChange(by, a, to[a], event)
  /\ \E a \in DOMAIN to : Changes(a, to[a], event)
  /\ asks' = asks \cup
       {[by |-> by, to |-> to, event |-> event,
         revs |-> [a \in DOMAIN to \cup (Agents \cap {by}) |-> rev[a]]]}
  /\ Change
  /\ UNCHANGED <<database, native, rec, sweep, history>>

AskChange(by) == \/ \E a \in Agents, level \in Levels \cup {"none"} :
                      Ask(by, [x \in {a} |-> level], 0)
                 \/ by = Owner /\ \E to \in [Agents -> Levels \cup {"none"}] : Ask(by, to, 0)

(* accept: the agent reads its invitation and the server asks for its      *)
(* sender, unless the grant already rests on it.                           *)
Accept(a) == /\ native[a].at = "invited" /\ a \in active
             /\ Fresh(a, native[a].event)
             /\ Ask(native[a].sender, [x \in {a} |-> "reply"], native[a].event)

(* Mutant: the proof is committed as it was prepared. *)
RecheckSkipped(p) == Cardinality(DOMAIN p.to) > 0

(* recheck: nothing has changed of the targets and of an agent that asks.  *)
Recheck(p) == /\ \A a \in DOMAIN p.revs : rev[a] = p.revs[a]
              /\ p.by \in Agents => Delegated(p.by)

(* Mutant: readmission keeps the generation. *)
RenewsInvited(a, level, event) == Fresh(a, event) \/ grant[a].access = "absent"

(* A new generation: the first grant, readmission, another invitation.     *)
Renews(a, level, event) ==
  \/ Fresh(a, event)
  \/ level \in Levels /\ ~Wanted(a)

Granted(a, p) ==
  LET level == p.to[a] raises == Raises(a, level, p.event) IN
  [access |-> level,
   managed |-> IF p.event # 0 THEN FALSE ELSE raises \/ grant[a].managed,
   by |-> IF raises THEN p.by ELSE grant[a].by,
   added |-> IF Renews(a, level, p.event) THEN p.by ELSE grant[a].added,
   event |-> IF p.event # 0 THEN p.event ELSE grant[a].event]

(* commit, of all the changes or of none. *)
Commit(p) ==
  LET changed == {a \in DOMAIN p.to : Changes(a, p.to[a], p.event)}
      renewed == {a \in changed : Renews(a, p.to[a], p.event)}
      removed == {a \in changed : p.to[a] = "none"}
  IN
  /\ Recheck(p)
  /\ asks' = asks \ {p}
  /\ grant' = [a \in Agents |-> IF a \in changed THEN Granted(a, p) ELSE grant[a]]
  /\ perm' = (perm \ (renewed \cup removed)) \cup (renewed \cap PolicyInvites)
  /\ app' = [a \in Agents |->
               [app[a] EXCEPT !.current = @ /\ a \notin renewed,
                              !.access = @ /\ ~(a \in changed /\ Differs(a, p.to[a]))]]
  /\ Bump(changed)
  /\ admitted' = admitted \ {a \in changed : Fresh(a, p.event) \/ p.to[a] = "none"}
  /\ ousted' = ousted \ {a \in changed : Raises(a, p.to[a], p.event)}
  /\ UNCHANGED <<active, native, rec, sweep, count>>

Refuse(p) == /\ ~Recheck(p) /\ asks' = asks \ {p}
             /\ UNCHANGED <<database, native, rec, sweep, history, count>>

SetPermission(a, on) ==
  /\ Wanted(a) /\ a \in active
  /\ perm' = IF on THEN perm \cup {a} ELSE perm \ {a}
  /\ Bump({a}) /\ Change
  /\ UNCHANGED <<active, grant, app, native, asks, rec, sweep, history>>

(* Retirement of an instance, and its restoration by an enrollment. *)
Retire(a) == /\ a \in active /\ active' = active \ {a} /\ Bump({a}) /\ Change
             /\ UNCHANGED <<grant, perm, app, native, asks, rec, sweep, history>>
Restore(a) == /\ a \notin active /\ active' = active \cup {a} /\ Bump({a}) /\ Change
              /\ UNCHANGED <<grant, perm, app, native, asks, rec, sweep, history>>

-----------------------------------------------------------------------------
(* The homeserver, and people who use it directly. *)

Invite(a, s) == /\ native[a].at = "out" /\ a # s /\ (s \in Agents => In(s))
                /\ Event
                /\ native' = [native EXCEPT ![a] =
                     [at |-> "invited", event |-> count.events + 1, sender |-> s]]
                /\ UNCHANGED <<database, asks, rec, sweep, history>>
Oust(a) == /\ native[a].at # "out" /\ native' = [native EXCEPT ![a] = Outside]
           /\ ousted' = ousted \cup {a} /\ Event
           /\ UNCHANGED <<database, asks, rec, sweep, admitted>>

-----------------------------------------------------------------------------
(* reconcile *)

RevsOf(a, g) == <<rev[a], IF g.by \in Agents THEN rev[g.by] ELSE 0>>
At(point) == rec.at = point
Goes(point) == rec' = [rec EXCEPT !.at = point]
Ends(seen, ok) == rec' = [rec EXCEPT !.at = "save", !.seen = seen, !.ok = ok]

(* The snapshot, and what it decides: whether to remove, with which        *)
(* result, or to look at the room first.                                   *)
Start(a) ==
  /\ At("idle") /\ grant[a].access # "absent"
  /\ LET g == grant[a]
         leaves == g.access = "none" \/ a \notin active
         orphan == g.by \in Agents /\ g.by \notin active
     IN rec' = [at |-> IF leaves \/ orphan THEN "remove"
                       ELSE IF g.by \in Agents THEN "permitted" ELSE "look",
                agent |-> a, grant |-> g, revs |-> RevsOf(a, g),
                command |-> ~app[a].current \/ ~app[a].access,
                seen |-> "none", ok |-> leaves]
  /\ UNCHANGED <<database, native, asks, sweep, history, count>>

(* Mutant: a delegation is taken to hold for as long as the grant. *)
PermittedOnce == /\ At("permitted") /\ Goes("look")
                 /\ UNCHANGED <<database, native, asks, sweep, history, count>>

Permitted == /\ At("permitted")
             /\ Goes(IF Delegated(rec.grant.by) THEN "look" ELSE "remove")
             /\ UNCHANGED <<database, native, asks, sweep, history, count>>

Reaches == rec.grant.by \in Agents => In(rec.grant.by)

(* membership: read as the authorizer.  Who has left is not called back.   *)
Look == LET a == rec.agent IN
        /\ At("look")
        /\ \/ /\ Reaches /\ (rec.command \/ In(a))
              /\ rec' = [rec EXCEPT !.at = "set", !.seen = native[a].at]
              /\ UNCHANGED count
           \/ Reaches /\ ~rec.command /\ ~In(a) /\ Ends(native[a].at, TRUE) /\ UNCHANGED count
           \/ ~Reaches /\ Ends("none", FALSE) /\ UNCHANGED count
           \/ Ends("none", FALSE) /\ Fault
        /\ UNCHANGED <<database, native, asks, sweep, history>>

(* set_room_access joins the agent for a grant not yet applied, on an      *)
(* invitation of the server's own or on the one the grant names.           *)
Named(a) == native[a].at = "invited" /\ native[a].event = rec.grant.event
                                     /\ native[a].sender = rec.grant.by
Admissible == \/ In(rec.agent)
              \/ rec.command /\ (rec.grant.managed \/ Named(rec.agent))
Set == LET a == rec.agent
           joins == native' = [native EXCEPT ![a] = Inside] IN
       /\ At("set")
       /\ \/ /\ Reaches /\ Admissible /\ joins /\ Ends("in", TRUE) /\ UNCHANGED count
             /\ admitted' = IF rev[a] = rec.revs[1] THEN admitted \cup {a} ELSE admitted
          \/ /\ Reaches /\ ~rec.command /\ ~In(a) /\ Ends(native[a].at, TRUE)
             /\ UNCHANGED <<native, admitted, count>>
          \/ /\ ~Reaches \/ (rec.command /\ ~Admissible)
             /\ Goes("remove")
             /\ UNCHANGED <<native, admitted, count>>
          \/ /\ Goes("remove") /\ Fault /\ UNCHANGED admitted
             /\ \/ UNCHANGED native
                \/ Reaches /\ Admissible /\ joins
                \/ /\ Reaches /\ rec.command /\ rec.grant.managed /\ native[a].at = "out"
                   /\ native' = [native EXCEPT ![a] =
                        [at |-> "invited", event |-> MaxEvents + count.faults + 1,
                         sender |-> rec.grant.by]]
       /\ UNCHANGED <<database, asks, sweep, ousted>>

(* remove: leaves a room the agent is in, and refuses the grant's own      *)
(* invitation.                                                             *)
Removed(a) == IF In(a) \/ (rec.grant.event # 0 /\ native[a].event = rec.grant.event)
              THEN [native EXCEPT ![a] = Outside] ELSE native
Remove == LET a == rec.agent IN
          /\ At("remove")
          /\ \/ /\ native' = Removed(a) /\ Ends("out", rec.ok) /\ UNCHANGED count
                /\ ousted' = IF rec.ok THEN ousted \cup {a} ELSE ousted
             \/ /\ native' \in {native, Removed(a)} /\ Ends(rec.seen, FALSE) /\ Fault
                /\ ousted' = IF rec.ok THEN ousted \cup {a} ELSE ousted
          /\ UNCHANGED <<database, asks, sweep, admitted>>

(* Mutant: what was applied is saved for whatever grant there is now. *)
SaveAny == LET a == rec.agent IN
  app' = [app EXCEPT ![a].joined = IF rec.seen = "none" THEN @ ELSE rec.seen = "in",
                     ![a].current = @ \/ rec.ok, ![a].access = @ \/ rec.ok,
                     ![a].error = ~rec.ok]

SaveOutcome ==
  LET a == rec.agent IN
  app' = IF RevsOf(a, rec.grant) # rec.revs THEN app
         ELSE [app EXCEPT ![a].joined = IF rec.seen = "none" THEN @ ELSE rec.seen = "in",
                          ![a].current = @ \/ rec.ok, ![a].access = @ \/ rec.ok,
                          ![a].error = ~rec.ok]
Save == /\ At("save") /\ SaveOutcome /\ rec' = NoRec
        /\ UNCHANGED <<active, rev, grant, perm, native, asks, sweep, history, count>>

-----------------------------------------------------------------------------
(* reconcile of principal.rs, as far as it is about rooms: the status, the *)
(* rooms the account is in, its grants, and the rooms to leave.            *)

SweepBegins(a) == /\ sweep[a].at = "idle" /\ Event
                  /\ sweep' = [sweep EXCEPT ![a] = [at |-> "list", active |-> a \in active]]
                  /\ UNCHANGED <<database, native, asks, rec, history>>
SweepLists(a) == /\ sweep[a].at = "list"
                 /\ sweep' = [sweep EXCEPT ![a] = IF In(a) THEN [@ EXCEPT !.at = "grants"]
                                                  ELSE NoSweep]
                 /\ UNCHANGED <<database, native, asks, rec, history, count>>
SweepDecides(a) == /\ sweep[a].at = "grants"
                   /\ sweep' = [sweep EXCEPT ![a] = IF sweep[a].active /\ Wanted(a) THEN NoSweep
                                                    ELSE [@ EXCEPT !.at = "leave"]]
                   /\ UNCHANGED <<database, native, asks, rec, history, count>>
SweepLeaves(a) == /\ sweep[a].at = "leave" /\ sweep' = [sweep EXCEPT ![a] = NoSweep]
                  /\ \/ /\ native' = [native EXCEPT ![a] = Outside]
                        /\ ousted' = ousted \cup {a} /\ UNCHANGED count
                     \/ Fault /\ UNCHANGED <<native, ousted>>
                  /\ UNCHANGED <<database, asks, rec, admitted>>

(* The server dies: what it was about is lost, the database is not. *)
Crash == /\ asks # {} \/ rec # NoRec
         /\ asks' = {} /\ rec' = NoRec /\ sweep' = [a \in Agents |-> NoSweep] /\ Fault
         /\ UNCHANGED <<database, native, history>>

-----------------------------------------------------------------------------
RecStep == Permitted \/ Look \/ Set \/ Remove \/ Save
Sweeps(a) == SweepBegins(a) \/ SweepLists(a) \/ SweepDecides(a) \/ SweepLeaves(a)
Next == \/ \E by \in Actors : AskChange(by) \/ \E a \in Agents : Invite(a, by)
        \/ \E p \in asks : Commit(p) \/ Refuse(p)
        \/ \E a \in Agents : \/ Accept(a) \/ SetPermission(a, TRUE) \/ SetPermission(a, FALSE)
                             \/ Retire(a) \/ Restore(a) \/ Oust(a) \/ Start(a) \/ Sweeps(a)
        \/ RecStep \/ Crash
Spec == Init /\ [][Next]_vars
FairSpec == Spec /\ WF_vars(RecStep) /\ \A a \in Agents : SF_vars(Start(a))

-----------------------------------------------------------------------------
(* delivery::read hands a room to the agent's listener only after the      *)
(* agent was joined for the very generation of the grant: a readmitted     *)
(* agent gets nothing on the strength of its earlier membership.           *)
Eligible(a) == Wanted(a) /\ app[a].current /\ app[a].joined /\ ~app[a].error
EligibleWasAdmitted == \A a \in Agents : Eligible(a) => a \in admitted

(* "They can remove only additions attributed to themselves": what agents  *)
(* change, they change with a delegation that holds at that moment, and    *)
(* nobody else's addition, whatever happened since they asked.             *)
AgentsActOnAuthority ==
  [][\A p \in asks \ asks' : p.by \in Agents =>
       \A a \in DOMAIN p.to : grant'[a] # grant[a] =>
         /\ Delegated(p.by) /\ p.by \in active
         /\ Wanted(a) => grant[a].added = p.by]_vars

(* The membership settles to the authority, however reconciliations, their *)
(* failures and changes of authority interleave: who is no longer entitled *)
(* leaves, and a grant nobody works against is applied.                    *)
Entitled(a) ==
  /\ Wanted(a) /\ a \in active
  /\ grant[a].by \in Agents => grant[a].by \in active /\ Delegated(grant[a].by)
Applicable(a) == /\ Entitled(a) /\ a \notin ousted /\ grant[a].managed
                 /\ grant[a].by \in Agents => In(grant[a].by)

MembershipSettles ==
  \A a \in Agents : /\ (In(a) /\ ~Entitled(a)) ~> (~In(a) \/ Entitled(a))
                    /\ Applicable(a) ~> (a \in admitted \/ ~Applicable(a))
=============================================================================
