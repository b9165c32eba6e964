# Verification of ctlflow

TLA+ specifications of ctlflow, kept beside the Rust implementation. A module
is a translation of named source lines (the `map` of `PROJECT.json`). TLC
checks it on small instances and TLAPS proves the most important invariants
for every value of the constants.

Paths below are relative to `src/services/crossfire/rust/packages/` unless
they begin with `src/`. *Spec* is `src/docs/specification.md`.

## 1. The system

Crossfire connects people and native coding agents (Codex, Pi) through Matrix
rooms. On an agent's machine a *listener* follows the rooms and hands unread
messages, mentions ("steering"), controller messages and scheduled wake-ups to
one native session. A *fleetd* daemon starts, stops and recovers the listeners
and their native processes. The Crossfire server keeps the authority: who may
be in which room, which fleet holds the lease, which wake-up is due.

```
 Matrix room ──► acquire ──┐ controls, policy          Crossfire server
                           ▼                             │ wake-ups, leases,
 read position ◄── publish ── plans (files)  ◄───────────┤ messages, decisions
                     │  ▲                                │
                     ▼  │ confirmation                   ▼
                 delivery journal (file)              fleetd controller
                     │  ▲ history scan                   │ start/stop/recover
                     ▼  │                                ▼
                 Codex session  ◄──── terminal        listener process
```

### Inventory

| Component | State | Operations | Hard part | What makes it correct |
|---|---|---|---|---|
| Native delivery journal and loop (`adapter-runtime`: `journal.rs`, `delivery.rs`, `resumption.rs`) | one journal file: pending input (text, turn, verification boundary, notice), at most 128 confirmations; the input restored at start | `deliver`, `recover`/`settle`, `acknowledge`, `cancel`, open, close | every await can be dropped, every save can fail, the process can die between sending a turn and saving it | given to the agent at most once; confirmed only on evidence in the history; a pending input settles |
| Codex publication (`adapter-codex`: `publication.rs`, `timeline.rs`, `input.rs`, `control.rs`) | none of its own: reads the history newest first, submits turns | `submit`, `received`, `interrupt`, restart notice | evidence is read, then acted on several awaits later; another client uses the session | never takes a foreign entry for a receipt; a notice only where receipt is unproven |
| Listener receiver (`agent-core`: `listener/*`, `chat_publication.rs`, `receive_state.rs`) | read position, sync position, chat and priority plans, all durable files; the live token of ordinary work | acquire loop, publish loop (choose, prepare, publish, finish), pause, policy refresh | two loops over shared files; `finish` is five durable writes; steering preempts a send in progress | nothing is skipped or repeated; steering goes ahead of the backlog; the run survives its own interleavings |
| Source controls (`source_control.rs`, `steering*.rs`) | stage of every steering message, the owner's pause | capture, interrupted, supersede, accept, checkpoint, recover | crash while a turn is being interrupted; supersession while a send is prepared | a captured mention settles; "accepted" means given; "superseded" means unread |
| Scheduled input of the listener (`scheduled.rs`) | the saved wake-up | claim, validate, publish, acknowledge, release | eligibility changes between claim and send | once per claim |
| Listener control (`listener_control.rs`) | whether delivery is admitted, generation | activate, deactivate, rebind | the connection is replaced during a send | a send of an old generation never completes as a new one |
| Receiver gate, native queries (`receiver_gate.rs`, `listener_budget.rs`) | leases of publication, query, reset | acquire, release, reset | a reset waits for leases that wait for it | never a query during publication; no deadlock |
| Human decision broker (`decision_broker.rs`, `domain/src/runtime/decisions.rs`) | open questions, answers, receipts | ask, answer, cancel, expire, acknowledge | answer, cancellation and expiry in any order | one outcome per question; the native side sees the one the server keeps |
| Server wake-ups (`domain/src/wake_up/*`) | rules, deadlines, pending claims | claim, take over, validate, acknowledge, edit | takeover on an expired heartbeat; missed periods | one claim per deadline; edits invalidate old claims |
| Fleet lease, control, messages (`domain/src/fleet/*`) | lease with generation, operations, direct messages and receipts | acquire, renew, release, request, claim, complete, expire | takeover races with a late report of the old holder | a stale holder changes nothing; each message ends once |
| fleetd controller (`src/services/fleetd/rust/packages/domain/src/controller/*`) | runtimes, recoveries, desired intent, Resume selections, operations in progress | operate (start, stop, reset, enroll, update), recover, restore, close | Stop overtakes work at any await; daemon restart between intent and outcome | one runtime per instance; nothing runs after Stop; intent survives a restart |
| Native lifecycle observer (fleetd `native_lifecycle*`) | last report, pending reports | observe, report | reports reordered or repeated | reports appear in their order |
| Static report publication (`domain/src/publication/service.rs`) | records in the database, files in a store | stage, upload, commit, delete, clean up | two stores, no common transaction | a visible report has its files; files without record are cleaned up |
| Room access (`domain/src/room_access/*`) | intended membership, outcomes | plan, reconcile, owner conversation | a homeserver call with unknown outcome | membership converges to intent |
| Enrollment, sign-up (`domain/src/enrollment/*`, `member/signup.rs`) | requests, approvals, credentials | preflight, decide, introduce, exchange | a decision next to a withdrawal; an introduction or exchange repeated after a lost answer | one account per request; credentials once |
| Incidents, observations (`domain/src/runtime/incidents.rs`, `observations.rs`) | open incidents | report, clear | late or repeated reports | newest state wins |
| Public request budget (`adapter-http/src/public_request_budget.rs`) | windows per client and in total | admit | windows end at different times; full table | the limits hold in each window |
| Pi adapter (`adapter-pi/src/receipt.rs`) | none of its own | as Codex publication | other history format | as Codex publication |
| REST, contracts, codecs; SQLite and file storage; Matrix adapter; C#/TypeScript counterparts; fleet CLI | – | parsing, routing, storage, presentation | – | taken as atomic or left out, see section 9 |

`PROJECT.json` lists for every component whether it is modelled, and every
hazard at the line where it bites.

## 2. Plan

Done, in this order:

1. `NativeDelivery` with `DeliveryContract` and proofs;
2. `ReceiverPublication`, the producers above it, with proofs;
3. `Controller`, the fleetd controller, with proofs;
4. `FleetControl` and `FleetMessages`, what the server and fleetd say to each
   other, with proofs;
5. `WakeUps`, the server's rules and deliveries with the client that claims
   them, with proofs;
6. `Decisions`, the owner's answers to native requests, with proofs;
7. `ReportPublication`, database and file store, with proofs;
8. `RoomAccess`, desired grants against the membership at the homeserver, with
   proofs.

These decide whether an agent misses something or acts on it twice, whether it
runs when it should not, and whether the server tells people the truth about it.

Left, in this order:

9. `Enrollment` – preflight, the decision (one transaction), introduction and the
   one-time credentials;
10. `ReceiverGate` – leases of publication, query and reset on one session;
11. the Pi history scan as a variant of `NativeDelivery`; lifecycle reports;
    incidents.

Every invariant and every action property of a run has its theorem (section 7);
what is left to TLC is in section 8.

## 3. Modules

| Module | What it is |
|---|---|
| `DeliveryContract` | abstract: each input is absent, pending, confirmed or acknowledged; the history takes it in once |
| `NativeDelivery` | detailed: journal, delivery loop, Codex publication, and the Codex server as environment |
| `ReceiverPublication` | the listener: acquire and publish loops over durable plans, controls and positions, with the session reduced to the contract |
| `Controller` | the fleetd controller of one fleet: operations, overtaking Stop, recovery, restore, close and restart of the daemon |
| `FleetControl` | session operations asked for on the server, and the controller's connection that executes them |
| `FleetMessages` | direct messages from the server over the connection to each agent's listener and session |
| `WakeUps` | rules and deliveries of the server, and the listener that claims, publishes and acknowledges them |
| `Decisions` | native requests, the listener's broker and its receipts, the server's records and the owner |
| `ReportPublication` | reports over a database and a file store without a common transaction |
| `RoomAccess` | the grants of agents in a room, the reconciliation with the homeserver, and the sweep of an account |
| `NativeDeliveryProofs`, `ControllerProofs`, `FleetControlProofs`, `FleetMessagesProofs`, `WakeUpsProofs`, `DecisionsProofs`, `ReceiverPublicationProofs` | theorems about the module they are named after |
| `ServerProofs` | theorems about `ReportPublication` and `RoomAccess` |
| `MC...` | instances for TLC |

How they fit together: `NativeDelivery` is what `ReceiverPublication`,
`FleetMessages` and `WakeUps` take for "the session is given an input": each
uses the contract, an atomic take-up that happens once per input, and models
what its own durable file adds to it. `Controller` is the listener process that
the others see start and stop. `FleetControl` stands on it: its `Execute` and
`LocalDone` are an operation of `Controller` seen from outside, with a journal
that remembers the outcome.

### NativeDelivery

Every call of the delivery loop holds the journal's lock, so there is one
`call` at a time, and a step of it goes from one await or durable write to the
next.

| Code | Model |
|---|---|
| journal file (`journal.rs`) | `pending`, `confirmed` |
| the producer's own checkpoint after `acknowledge` | `settled` |
| `restored`, `resumed` of the open session | `restored`, `resumed`, reset by `Crash`, set by `Open` |
| `deliver` | `Deliver`, `Prepare` or `Refuse`, `Submit`, `SaveTurn`, then the poll loop |
| `recover`, `settle` | `Recover`, then the poll loop |
| `received` of `publication.rs` with `timeline.rs` | `Poll` (`Scan`) or `PollUnavailable`, `Receive`, `Restart`, `SaveNotice`, `Uncertain` |
| `settle_pending` and the wait for a running turn | `Complete`, `Interrupted`, `Missed`, `Wait` |
| a dropped future, a failed save or request | `Drop`, at any point |
| the process dies | `Crash`, then `Open` (journal read and checked) |
| Codex (external) | `Accept`, `Reject`, `Record`, `Finish`, `Lose`, `Interrupt` |
| a terminal on the same session (external) | `Occupy`, `Vacate` |

Main abstractions: an identity stands for its text; the verification boundary
is kept as the one bit it decides (whether the end of the current turn lies
behind it); an `Absent` answer leaves the state alone; the history is a set of
turns with entries, with the newest-first scan as a set expression (`Scan`).

### ReceiverPublication

| Code | Model |
|---|---|
| `.ack`/position files (`receive_state.rs`) | `cursor`, `since` |
| `source_control.rs` | `controls`, `paused`; `Capture`, `InterruptTurn`, `Initialize` (recovery at start), `Checkpoint` |
| chat, priority and scheduled plans (`chat_publication.rs`, `scheduled.rs`) | `chat`, `priority`, `wake` |
| native session | `journal`, `entered`, `confirmed`, `given`; `Enter`, `Confirm`, `GiveBack` |
| acquire (`listener/acquisition.rs`) | `acq`; `Sync`, `Pass`, `Preempt`, `Capture`, `InterruptTurn`, `CancelDelivery`, `Synchronized` |
| one cycle of publish (`listener/publication.rs`) | `pub`; `Discard`, `BeginCycle`, `Choose...`, `Admit`, `Collect...`, `Publish...`, `Recover...`, `Settled`, `Submit`, `Delivered`, `Conflict` |
| `finish` | `Accepted`, `MoveCursor`, `CheckpointControls`, `Forget`, `Clear`: five steps because they are five durable writes |
| the token of ordinary work (`listener/mod.rs`) | `ordinary`, cancelled by `Capture`, replaced by `Synchronized` |
| delivery gate (`listener_control.rs`) | `active`; `Pause`, `Unpause` |
| run ends with an error that is not retried | `failed` |

One room, messages `1..N` in order. An input is the set of messages it
carries, because the code derives its identity from exactly these; the wake-up
is the input `{0}`.

### Controller

Operations are tasks that share three maps with recovery tasks, under a lock
that is not held over an await. A step goes from one await, durable write or
lock section to the next.

| Code (`src/services/fleetd/rust/packages/domain/src/controller/*`) | Model |
|---|---|
| `desired-intent.json`, `resume-selections.json`, the operation journal | `wanted`, `selection`, `journal`: the variables a crash keeps |
| `operate`: checks, selection and durable records under the lock, then the spawned task | `Accept`, with the daemon's death inside it (`CrashInAccept`) |
| a Stop that overtakes: cancel, wait for the predecessor | `CancelPredecessor`, `Wait` |
| `execute` of `actions.rs`: stop loop, close, inspect, reset, update, prepare, approve, intent, start loop | `Begin`, `StopInstance`, `StoppedInstance`, `GetRuntime`, `CloseInstance`, `EachInstance`, `Inspect`, `Ready`, `Prepare`, `AskApproval`, `Intent`, `StartInstance`, `Opened`, `Launch`, `Drop`, `Final`, `Save` |
| a runtime that ends, its watcher, the recovery task | `Dies`, `Watch`, `RecoverCloses`, `RecoverDelays`, `RecoverStarts`, `RecoverOpened`, `RecoverLaunches`, `RecoverDrops`, `RecoverLeaves` |
| daemon: open, replay of unfinished operations, restore, close, crash | `Open` (`Replay`), `Serve`, `Restore`, `Close`, `CloseWaits`, `CloseRuntimes`, `Exit`, `Crash` |

A task keeps what the code keeps in its locals (the snapshot of recoveries, the
list it still has to go through, the errors so far), because the interesting
orders are the ones in which these are stale.

### FleetControl and FleetMessages

| Code | Model |
|---|---|
| lease and operations (`domain/src/fleet/runtime.rs`, `control.rs`) | `lease`, `op`; `Report`, `Claim`, `Receipt`, `Expire`, `Request` |
| polling task of `fleet_connection.rs` | `poll`; `ReportLease`, `ReadControl`, `Apply`, `Rotate`, `Disconnect`, `Release` |
| `execute_operation` (`adapter-crossfire` `remote.rs`, fleetd `remote.rs`) | `run`; `ClaimOp`, `Execute`, `WaitLocal`, `ReportOutcome`, `Acknowledge` |
| local operation journal | `local`: status and the pin that keeps it; `LocalDone`, `Prune` |
| a request that fails: without effect, after it, or before it | `Call` and its outcomes, `net`, `Arrive` |
| messages (`domain/src/fleet/message.rs`) | `to`, `expired`; `Create`, `Lapse`, `Control`, `Acknowledged` |
| snapshot with its active agents, offer, skipped receipts (`fleet_connection.rs`) | `snap`, `completed`, `poll`; `Read`, `Apply` (a snapshot that another has overtaken is passed over), `Consider`, `Skip` |
| bound listeners, `controller_input.rs` | `listener`, `pub`, `saved`; `Bind`, `Unbind`, `Take`, `Recover`, `Submit`, `Give`, `SaveDelivered`, `Answer`, `Clear`, `Interrupt` |

A connection generation is an identity: `FreshGen` takes one that nothing names
any more, so a bounded set of them stands for unboundedly many.

### WakeUps

| Code | Model |
|---|---|
| rules, assignments (`wake_up/manage.rs`) | `rules`; `Save`, `Remove`, `Authority`, each with the deliveries it cancels |
| `claim`, takeover, next deadline (`wake_up/delivery.rs`) | `deliveries`; `ClaimRefused`, `ClaimPending`, `ClaimDue` with `Advanced` |
| `validate`, `acknowledge` | `Eligible`, `Receipt` |
| heartbeat and its expiry (`listener.rs`) | `Report`, `Expire`, `stopped` |
| `scheduled.rs` with its file and timing hint | `op`, `file`, `hint`; `Refresh`, `Claim`, `Claimed`, `Validate`, `SavePublishing`, `NativeTakes`, `Delivered`, `Recover`, `Acknowledge`, `Acknowledged` |
| start, stop and reset of the listener | `Start`, `Left`, `Interrupt`, `End`, `Reset` |

A calendar schedule is the set of multiples of its period, an interval keeps its
phase: `NextAfter` and `LastMissed`.

### Decisions

| Code | Model |
|---|---|
| callback of the adapter (`websocket/worker.rs`) | `task`, `native`; `Request`, `Write`, `Confirm`, `Fails`, `Ends` |
| broker and its file (`decision_broker.rs`) | `receipt`, `flushing`; `Offer`, `Poll`, `Responded`, `Flush`, `FlushFails`, `Open`, `Close` |
| server records (`runtime/decisions.rs`) | `server`, `bound`, `over`, `live`; `Create`, `OwnerAnswers`, `Accepts`, `Receipt`, `Expire` |

### ReportPublication

| Code | Model |
|---|---|
| rows (`domain/src/publication/service.rs`, `adapter-sqlite`) | `row`, `born` |
| directories (`adapter-filesystem/src/publication.rs`) | `store`: present, complete files, files of interrupted uploads |
| the guard of a report and the operation under it | `op`; upload: `UploadStart`, `UploadOpens`, `UploadStores`, `UploadRecords`; commit: `CommitStart`, `Verify`, `CommitPublishes`; clean-up: `RemoveFiles`, `RecordCleaned` |
| `delete`: the fence without the guard, then the clean-up | `Delete`, `DeleteCleans` |
| the worker's maintenance | `MaintainStart`, `MaintainItem`, `batch` |

### RoomAccess

| Code (`domain/src/room_access/*`) | Model |
|---|---|
| grants, permissions, revisions, applications | `grant`, `perm`, `rev`, `active`, `app` |
| `authorize`, room plans (`plan.rs`), `accept` of an invitation: what is prepared before the await of the homeserver | `AskChange`, `Accept` with `MayChange`; the proofs in flight are `asks` |
| `recheck` and `commit` in one transaction | `Commit` (`Recheck`, `Renews`, `Granted`) or `Refuse` |
| `set_permission`; retirement (`fleet/retire.rs`), restoration (`enrollment/decide.rs`) | `SetPermission`, `Retire`, `Restore` |
| `reconcile` under the room's guard | `rec`: `Start`, `Permitted`, `Look`, `Set`, `Remove`, `Save` |
| the reconciliation of an account (`principal.rs`), under another guard | `sweep`: `SweepBegins`, `SweepLists`, `SweepDecides`, `SweepLeaves` |
| homeserver (external) and `adapter-matrix/src/membership.rs` | `native`; `Invite`, `Oust`, what `Set` and `Removed` do |
| `delivery.rs`: what the listener is handed | `Eligible` |

One room of one owner, whose agents may invite each other. The revision of an
agent stands for the revisions of principal and grant, which the code raises
together; a generation is kept as the one bit it decides, whether the
application is of the grant's generation (`app[a].current`).

## 4. Runs

| Run | Bounds | Distinct states | Question |
|---|---|---|---|
| `delivery_safety` | 3 inputs (symmetric), capacity 2, 4 faults, a session without history, no terminal | 1.1 million | evidence, at most once, notices, what is given up; does the journal implement `DeliveryContract` |
| `delivery_liveness` | 2 inputs, capacity 1, 3 faults, a terminal on the session, fair | 87 thousand | does a pending input settle after the last fault |
| `receiver_steering` | 4 messages, two mentions, 2 faults, fair | 90 thousand | once each, ahead of the backlog, no refused publication; every message is given, every mention settles |
| `receiver_policy` | 3 messages, two mentions, one owner stop, one wake-up, pause and revocation, 2 faults | 1.4 million | the read position, "accepted" and the session's leftovers under all kinds of cancellation |
| `controller` | 2 instances, any 2 of 7 operations, 2 faults of 8 kinds, one recovery starting at a time, fair | 355 thousand | no two operations act together, nothing unwanted runs, Resume keeps what was enabled, Stop, close and restore end |
| `fleet_control` | 1 operation, 2 faults of 7 kinds, 7 generations, fair | 165 thousand | executed once, with its true outcome, settled in the end |
| `fleet_messages` | 1 agent, 2 messages, 2 stops, 2 faults (a suspended account and an overtaken snapshot among them), fair | 796 thousand | given once, "delivered" is true, every delivery is answered |
| `wake_ups` | an interval and a calendar rule, 2 ticks, 2 edits, 2 runs, 2 sessions, 2 deliveries, 1 fault, fair | 319 thousand | occurrences coalesce, each is given once, receipts are true, a pending delivery settles |
| `decisions` | 2 requests, 2 runs, 1 fault, fair | 270 thousand | "responded" is true, a receipt leaves only when its record is settled, and it leaves |
| `reports` | 2 reports of 2 files for 1 reservation, 1 upload, batches of 1, 2 faults, fair | 610 thousand | database and store agree, what is fenced is reclaimed |
| `room_access` | 2 agents, one settled and allowed to invite, 2 changes, 1 event at the homeserver or sweep, 1 fault, fair | 240 thousand | a room is handed out for the present grant only, agents act on authority that holds, the membership follows the authority |
| `controller_stop` | the instance of `controller` | – | the first disagreement of section 5 |

Why these bounds are enough to be interesting.

- *Delivery.* Only one input is pending at a time, so a third input matters only
  as the one that meets a full journal: capacity 2 with three inputs, or
  capacity 1 with two, fills it. Three faults allow a drop, a crash and an
  interruption (or a rejection) of the same input, which covers each order of
  the journal's four saves; the fourth lets the next input meet what they left.
- *Receiver.* Three messages give a mention with unread chat before and after
  it; four are needed for two mentions with chat between and after them; two
  faults allow a cancelled send and a crash of its recovery.
- *Controller.* Two operations are one and the Stop that overtakes it, or one
  and the next; `Admission = 1` with two instances makes a recovery wait for
  another; two faults are a runtime that dies and a daemon that dies, or a
  recovery that fails on the way.
- *Fleet.* One operation suffices because the server serves one at a time per
  fleet; two faults are a lost claim and a lost receipt, or either and an expired
  lease. Two messages are needed for one that is pending while another is in the
  file.
- *Wake-ups.* Two rules compete for the one open delivery and with their
  deadlines; two deliveries are one and its coalesced successor; two runs and
  two sessions allow a takeover and a reset.
- *Decisions.* Two requests are needed for a receipt that is flushed while
  another is answered; two runs for a receipt of an earlier run.
- *Reports.* Two reports for one reservation make the second wait for the
  clean-up of the first; a batch of one makes maintenance leave work over.

- *Room access.* An agent that invites another and then loses its delegation, its
  grant or its status takes two changes, because it starts out settled; two
  changes are also two requests in flight of which one has to be refused, and a
  removal with a readmission. One event is an invitation to accept, a departure,
  or a sweep; one fault is a call with an unknown outcome or a crash. One access
  level is used: a change of level differs from a readmission only in what it
  renews.

`MaxFaults` bounds faults and not the steps between them. `Gens`, `MaxTime`,
`MaxEdits`, `MaxChanges`, `MaxEvents`, `MaxRuns`, `MaxSession`, `MaxDeliveries`, `MaxStops`, `MaxOps` and
`MaxMsg` bound what the environment may ask for.

The runs that pass are narrower than the code where a wider instance shows a
disagreement of section 5: `AtMostOnce`, `NoticeOnlyForUnproven`,
`GivenUpOnlyWhenDead` and `ImplementsContract` are
checked without a terminal, `RestartSettles` with a session that has had a
message, `RunSurvives`, `EventOnce` and `AheadOfBacklog` without pauses,
wake-ups, stops and senders that lose their authority.

`CHECK_DEADLOCK FALSE` everywhere: inputs, messages, requests and faults run
out, and a system with nothing to do is not an error. That work is not left
undone in such a state is what the liveness properties say.

Every property of a passing run has a mutant in `PROJECT.json`: a plausible
mistake in one definition (kept next to it, commented `Mutant`) under which TLC
finds the property violated.

## 5. Where the code and its documents disagree

One is a run of the project; `PROJECT.json` quotes the document. `controller_stop`:
a Start looks at its cancellation, a Stop takes the intent back and then cancels
the Start, the Start writes its intent all the same (`controller/actions.rs:215`,
`:258`, `operations.rs:218`). The Stop succeeds and the instance is wanted: the next
daemon starts it.

The others are seen by changing the constants of a run and checking the one
property named.

| Module, constants | Property | What it shows |
|---|---|---|
| `NativeDelivery`, `FairSpec`, 2 inputs, `Capacity = 1`, `Materialized = FALSE`, `Shared = FALSE`, `MaxFaults = 1` | `RestartSettles` | the listener dies between saving the first input of a session and its record: the history is unavailable until a first message exists, the error precedes the restart branch (`publication.rs:168`), and the input stays pending for ever |
| the same, `Materialized = TRUE`, `MaxFaults = 2` | `InterruptedRetries` | the advanced boundary is saved before the interruption it passed over is acted on (`publication.rs:192`, `delivery.rs:140`); a failure in between loses the interruption |
| `NativeDelivery`, `Spec`, 2 inputs, `Capacity = 1`, `Materialized = TRUE`, `Shared = TRUE`, `MaxFaults = 3` | `NoticeOnlyForUnproven` | `restored` stays set for the life of the process (`delivery.rs:130`); a notice "earlier delivery is unknown" can be sent for an input that was received |
| the same, 1 input, `MaxFaults = 5` | `GivenUpOnlyWhenDead`, `ImplementsContract` | by the same cause: the notice takes the place of an original that the history holds by then, the notice's own turn is interrupted, and the input is given back as if nothing had received it |
| `ReceiverPublication`, `N = 2`, no mentions, `MayPause = TRUE`, `MaxFaults = 1` | `RunSurvives` | closing delivery between the end of a chat plan and its clearing makes `clear(Prepared)` refuse it, which ends the run (`publication.rs:237`) |
| `N = 2`, no mentions, `Wakes = 1`, `MaxFaults = 1` | `RunSurvives` | a cancelled wake-up stays pending in the session while chat is collected; the next chat publication conflicts and ends the run |
| `N = 2`, `Mentions = {1, 2}`, `MaxFaults = 1` | `SupersededStaysUnread` | a control chosen before several awaits is not looked at again; a mention reported as superseded is submitted as steering |
| `N = 4`, `Mentions = {1, 4}`, `Stops = {2}`, `MaxFaults = 1`; or `Mentions = {1, 2, 3, 4}`, `MayRevoke = TRUE`, `MaxFaults = 3` | `RunSurvives` | a steering plan that was being published is put off by a stop or by a sender that has lost its authority, and its input stays in the session; the chat that is published next conflicts with it |
| `N = 4`, `Mentions = {1, 4}`, `Stops = {2}`, `MaxFaults = 1`; or `Mentions = {1, 2, 4}`, `MayRevoke = TRUE`, `MaxFaults = 2` | `EventOnce` | a steering plan left prepared is published in the place of a later one; its message, given as unread chat meanwhile, is given twice |
| `N = 4`, `Mentions = {1, 4}`, `MayPause = TRUE`, `MaxFaults = 2` | `EventOnce` | a control left *interrupting* by a pause: its message is given with unread chat, and again as steering when the interruption is taken up |
| `N = 2`, `Mentions = {2}`, `MayPause = TRUE`, `MaxFaults = 1` | `AheadOfBacklog` | closing delivery during an interruption leaves the control *interrupting* until a restart (`listener/acquisition.rs:272`) |
| `Controller`, as in `controller.cfg` | `RunningIsShown` | a runtime can run while its phase says otherwise |
| `FleetControl`, `FairSpec`, `Faults = {"lost"}`, `MaxFaults = 1` | `PinReleased` | a receipt whose answer is lost is never acknowledged locally: the outcome stays pinned for good, where *Spec*:502 says "until remote acknowledgment" |
| `FleetMessages`, `Spec`, 1 agent, 1 message, no stops, no faults | `SkippedIsNotGiven` | a listener that binds while the poll loop answers "skipped" for it is given the message (`fleet_connection.rs:177`, `:307`; *Spec*:590 "skipped, not started"). Its own receipt "delivered" is then a conflict (`message.rs:376-386`) that ends the receiver at each of its starts |
| `Decisions`, `FairSpec`, 1 request, 1 run, no faults | `ObsoleteRetired` | a callback that the native runtime has resolved by itself waits on for the owner (`decision_broker.rs:46-65`, `websocket/worker.rs:157-170`) |
| `WakeUps`, `Rules = {1}`, `MaxRuns = 3`, `MaxSession = 1` | `ReceiptAccepted` | the receipt of a delivery given by an earlier run is refused when a later run has taken it over |

Four orders were met while modelling `RoomAccess`; `MembershipSettles` excepts
them by `ousted` or because the agent has joined once:

- when `set_room_access` fails in a routine check, `reconcile` takes the agent out
  (`reconcile.rs:182`); the next check has nothing to apply, finds that the agent has
  left and clears the error (`reconcile.rs:151-153`): one transient failure keeps it
  out until its grant is changed;
- an agent that is suspended when its grant is first applied, or after, is removed
  with success, which records the generation as observed; restored, it is not
  joined again;
- the sweep of an account reads the grants and then leaves, without the guard of
  the room (`principal.rs:74-88`): it can leave a room granted in between, and the
  reconciliation takes that for a departure;
- an invitation that `set_room_access` has sent, and whose join has failed, is left at
  the homeserver. The grant does not name it, so that after the grant is removed
  the agent can accept it and is granted the room again, where *Spec*, section 10,
  says that retained event evidence prevents an old invite undoing removal.

Four further orders were met while modelling `Controller` and follow from its
actions. The first came out of the proof of `NothingUnwanted`, with three
operations and three faults: `restore()` lists what is wanted, a Start launches
such an instance before `restore()` has come to it, and its listener is left on
purpose but cannot be closed, so that it is not wanted any more and shown as
failed; the late call of `recover` then shows it as starting (`recovery.rs:60-104`)
and ends without an attempt, and nothing changes the phase after that. The
property therefore allows "starting" too, of a runtime that has ended. The
others: a Reset whose `inspect` fails leaves its runtimes running with the
intent removed (`NothingUnwanted` excepts it by `ResetFailed`); a Stop of one
instance that overtakes a Start of the fleet ends the whole Start; after a Reset
a pending wake-up of the old session blocks later claims of the agent until its
rule is edited.

## 6. Fairness

*Delivery* (`FairSpec` of `NativeDelivery`). The publication loop calls recover
again for as long as an input is pending; a call in progress is a polled
future; the supervisor opens the listener again; Codex handles a request,
records the message of a turn it has accepted and ends its turns; another
client's turn ends. Weak fairness is enough for each: nothing disables them
for good except faults, which are bounded. No fairness is assumed for
producers, for acknowledgments or for faults.

*Receiver* (`FairSpec` of `ReceiverPublication`). Both loops are branches of
one `try_join`, so each is polled; the controller does not pause for ever; the
native session takes its pending input in, which is what the delivery module
shows (`AcceptedSettles`, `RestartSettles`) under its own assumptions. Nothing
is assumed about the room, the policy or faults. `AllGiven` excepts the
owner's own pause, which lasts until a person ends it.

*Controller.* A spawned task runs, and the external calls it awaits have
deadlines in the code. Nobody has to approve (`AskApproval` is excluded unless
the task is cancelled), to ask for anything, or to start the daemon again.

*FleetControl.* The polling task, the operation's task and the local controller
run; a request on the wire arrives or is lost; the server lets a lease expire
that nobody renews. A rotation during a claim can be repeated by the next
rotation without end in the model, which has no pause between polls: the code
waits one second after a failure (`fleet_connection.rs`), so `RequestSettles`
assumes that the operation is not overtaken for ever
(`<>[][~Overtaken]_vars`).

*FleetMessages.* The polling task and the publishers run, and a listener that
was stopped is started again. Messages lapse or not as they like.

*WakeUps.* The listener is started again, reports, and its loop runs; a run that
is gone expires; the server handles its calls. Time need not pass, and the owner
need not do anything.

*Decisions.* Callbacks run, the server handles its calls and ends what is over
its time; the connection comes back after its last loss, since the listener
flushes only while connected (`listener/reporting.rs:19`). `Flush` is strongly fair: one flushing task takes the receipts in
turn, and a receipt waits while another is on its way.

*ReportPublication.* Operations end, a deletion cleans up after its fence, and
maintenance, the last step of the worker's round (`apps/server/src/worker.rs`),
runs again. An earlier step of that round that fails every time would starve
it; that is outside the module.

*RoomAccess.* A reconciliation that has begun goes on, and each agent's is taken up
again and again (`SF`): the worker runs through everything that is due
(`apps/server/src/worker.rs`), one round after another, while the room's guard is
taken by one reconciliation at a time. A save that is refused leaves the
reconciliation due. Nothing is assumed about changes, events, sweeps, commits
and faults.

## 7. Proofs

### NativeDeliveryProofs

`NativeDeliveryProofs` proves, for every set of inputs, capacity and number of
faults and for both values of `Materialized`, the first four also for both of
`Shared`:

| Theorem | Statement |
|---|---|
| `DeliveryInvariant` | `Spec => []DeliveryInv`, the inductive invariant |
| `TypeCorrect` | `Spec => []TypeOK` |
| `ConfirmedOnlyWhenRecorded` | an input is confirmed or acknowledged only if the history holds it |
| `JournalAlwaysReadable` | the file on disk can always be opened again; no run lists it, nor `DeliveryInv`, since the proof covers every instance |
| `OnceInvariant` | `~Shared => (Spec => [](DeliveryInv /\ OnceInv))`, the inductive invariant of the next four |
| `GivenAtMostOnce` | `~Shared => (Spec => []AtMostOnce)`: the history takes an input in at most once |
| `GivenUpDead` | `~Shared => (Spec => GivenUpOnlyWhenDead)`: what is given back can no longer enter the history |
| `NoticeUnproven` | `~Shared => (Spec => NoticeOnlyForUnproven)` |
| `JournalImplements` | `~Shared => (Spec => ImplementsContract)`: the step simulation of `DeliveryContract` |

Assumptions: `NoneAssumption`, `CapacityAssumption`, `FlagsAssumption` and
`FaultsAssumption` of `NativeDelivery`, which TLC evaluates in every run.

The invariant. "Confirmed implies recorded" is not inductive: `Complete` does
not look at the history, it acts on a sighting made some steps before.
`DeliveryInv` therefore adds

- `SightingHolds`: a call that is about to decide on "received" is right about
  it. It needs that the history only grows, so that an old sighting stays true:
  `HistoryGrows`, a fact about the modelled Codex and not a result about the code;
- `CallOwnsPending`: a call past its save, a request on the wire and a response
  belong to the pending input. Otherwise a sighting could confirm another
  input, and a response could bind a turn to it;
- `RoomForPending`: a pending input has a free place among the confirmations.
  Without it `Complete` could overflow the journal; it is `Prepare` that keeps
  the place free.

Layout: `InitInv`; `TypeStep`; `HistoryWriters`, `JournalWriters` and
`CallWriters` say which actions write what, so that each of the step lemmas
(`ConfirmedStep`, `SightingStep`, `OwnershipStep`, `JournalStep`) looks only at
the actions that can disturb its conjunct. The theorems combine them.

`ConfirmedOnlyWhenRecorded` is proved for `Shared = TRUE` too. The last four have
`~Shared` as their hypothesis because a terminal on the session makes them false
(section 5): it can take the session between the sighting and the notice.

`OnceInv` says of everything that can bring an input into the history (a
*bearer*: a turn in progress, an entry) that it is unique (`OneBearer`), that
what the journal does not know has none (`JournalKnows`), that the bearer of the
pending input is its present submission and not an earlier one
(`PresentSubmission`), and that a call that is about to submit, to give back or
to send a notice is right that there is none (`CallKnows`). A restart is what
threatens it: `RestoredIsQuiet` says that until its first notice the new process
has submitted nothing, so that an absent original stays absent. The refinement
needs the three theorems before it: a step of the journal that gives up, takes
in or confirms is a step of the contract because of them, and every other step
leaves the stages of all inputs alone (`StagesKept`, `PendingStage`,
`ContractStep`).

### ControllerProofs

For every roster, every set of requests and every number of operations and faults:

| Theorem | Statement |
|---|---|
| `ControllerInvariant` | `Spec => []ControllerInv`, the inductive invariant, which contains the type invariant |
| `OneOperationActs` | `Spec => []OneOperation` |
| `NothingUnwantedRuns` | `Spec => []NothingUnwanted` |
| `ClosedLeavesNothing` | `Spec => []CloseLeavesNothing` |
| `ResumeKeeps` | `Spec => KeptForResume` |

None of the four is inductive. `ControllerInv` consists of

- `Line`, for `OneOperation`: of the tasks under way only the first acts; each of
  the others waits, for a task that no earlier one outlives, and the last is the
  current operation. Two Stops in a row make it necessary: the second waits for
  the first, not for the operation both overtake;
- `StartsTrue` and `RuntimesTrue`, for `NothingUnwanted`: behind every start and
  every runtime that nobody wants there is a Stop or Reset that will still come
  to it (`EndsStart`, `Ends`), or the runtime has ended and is shown as failed or
  being closed (`Shown`), or a Reset has failed. A
  recovery looks at the intent when its delay is over and not again before its
  start, so a Stop that has its target's recovery behind it needs
  `StoppingTrue`: while it stops an instance the recovery it joins has been told
  to stop, and the phase keeps the watcher from starting another;
- `Quiet`, for `CloseLeavesNothing`: past the wait of `close()` and before the
  service there is no task, no recovery and no call of the restore;
- `EnrollTrue` (an enrollment, which changes phases without regard to
  runtimes, meets a stopped fleet), `LeavingTrue`, `SelectionTrue`, `JournalTrue`
  and `TasksTrue`, the smaller facts.

`KeptForResume` is about the durable state and follows step by step:
`SavedSelection` says what a Stop saves, `RequestKeeps` uses it for the three
places that take something (acceptance, an acceptance cut off by a crash, and the
replay), `TakesNothing` dismisses the other steps, and `LeavingTrue` covers the
recovery that gives up the intent of a listener left on purpose.

Layout: `WorksKeeps` is the lemma of a task's step, `InstanceKeeps` that of a
recovery, a watcher or the restore, `ProcessKeeps` and `EmptyIsTrue` those of the
process; each action then has to show only what it disturbs. `FirstIn` (the next
instance of a loop is one of those left, by well-founded induction) and
`LoopStarts`, `LoopGoesOn` are the lemmas about the loops.

### FleetControlProofs

`OperationOnce` (`Spec => []ExecutedOnce`) and `OutcomeShown`
(`Spec => []OutcomeTrue`), from `ControlInvariant`, for every set of operations
and of generations and every number of faults. What could be executed now, or
once more, is either still pinned in the local journal or was never executed
(`Kept`): only an acknowledged record is pruned, only a settled operation is
acknowledged, and what the server has settled is not handed out again. A
checkpoint that fails counts as an execution that failed, and its record is
pinned too. Late claims and receipts of any generation keep this, so nothing has
to be known of leases: the lease orders the work, the journal makes it safe.

### WakeUpsProofs

`WokenOnce` (`Spec => []GivenOnce`), `OccurrencesCoalesce` (`Spec => []Coalesced`)
and `ReceiptsTrue` (`Spec => []ReceiptTrue`), from `WakeInvariant`, for every set
of rules and schedules and every number of runs, sessions and faults. A delivery
that was given is in the file of its session, or no longer offered, or its
session is over (`GivenKnown`, `FileTrue`, `Holding`). `Late` bounds what a call
that nobody waits for can still do; `Spans` and `Disjoint` are the arithmetic of
deadlines: every delivery moves its rule past now.

### FleetMessagesProofs

`MessagesGivenOnce` (`Spec => []GivenOnce`) and `DeliveredTrue`
(`Spec => []DeliveredIsGiven`), for every set of recipients and every bound.

"Given once" is not inductive, since nothing in it keeps a message from being
taken from the snapshot again. `IInv` adds `FileHolds` (what the stage of the
file says of the message in it: queued means not given, delivered means given
once, and what the publisher's place adds to that), `AnswersTrue` (every
"delivered" at the server or on the wire is about a message that was given) and
`Settled`: a message that was given is in the file, or has its final answer, and
then no snapshot the client has or is about to apply offers it. `FirstExists`
(the first open message, by well-founded induction over the naturals),
`ControlIsPending` and `AnswerStep` are the lemmas about the server.

### DecisionsProofs

`ResponsesTrue` (`Spec => []RespondedTrue`) and `SettlementKnown`
(`Spec => []SettledIsKnown`). "Responded" reaches the server four steps after
the answer did the native runtime. `IInv` says for each of these steps that the
answer was written (`WordIsTrue`), that the callback that carries an answer has
the owner's and a request that still waits (`AnswerOwned`), and that a request
has one creation somebody waits for (`CallsTrue`). `KInv` adds what the broker
knows (`Known`, `CallsKnown`).

### ReceiverPublicationProofs

For every number of messages, every set of mentions and stops, any number of
wake-ups, sends cancelled, inputs given back, pauses, revoked senders and crashes:

| Theorem | Statement |
|---|---|
| `ReceiverInvariant` | `Spec => []ReceiverInv`, the inductive invariant, which contains the type invariant |
| `PositionCoversGiven` | `Spec => []CursorCovers` |
| `AcceptedWasGiven` | `Spec => []AcceptedIsGiven` |
| `SessionEmpties` | `Spec => []SessionDrained` |
| `SteeringIsAhead` | `~MayPause => (Spec => []AheadOfBacklog)` |
| `GivenOnce` | `Undisturbed => (Spec => []EventOnce)` |
| `RunNeverRefused` | `Undisturbed /\ Wakes = 0 => (Spec => []RunSurvives)` |

`Undisturbed` is `Stops = {} /\ ~MayRevoke /\ ~MayPause`: the room's people talk to
the agent and steer it, and nobody takes that right away in between. Each
conjunct of a hypothesis is needed: TLC refutes the property when any one of them
is dropped (section 5). The hypotheses are therefore the exact line between where
the code keeps these three promises and where it does not; the first four
theorems need none.

The position is moved by the plan that is being finished, so `CursorCovers` is a
fact about three durable plans, a session and two loops that work on them in
turn. `ReceiverInv` consists of

- `PubTrue`, `AcqTrue`: where the loops can be, given the plan they work on; a
  plan can be replaced only where the loop that works on it does it;
- `PlansTrue`: a plan lies between the position it starts from and the one that
  acquisition has reached, and it is marked delivered only when all of it was
  given;
- `SessionTrue`, for `SessionDrained`: each input and each confirmation of the
  session belongs to a plan that is being published or finished. It is what a
  restart relies on when it finds an input it did not send;
- `CoversTrue`: what is passed over, or is between the plan's messages, was given
  or is one of the owner's stops, which are not given.

`AheadTrue` adds the handshake of the loops: an interruption under way lies ahead
of the synchronized position and holds back ordinary work (`ordinary`), which
alone may collect. `OnceTrue` adds, for `EventOnce`, that a steering plan carries
one mention which is still waited for or done with (`SteersTrue`), that no unread
chat is sent while one waits (`SendTrue`), and for each message that was given
where this is remembered (`Held`): in the position, in its control, or in a plan
whose input the session has taken (`Taken`). The plan left prepared, by which a
message can be given twice where the agent may be stopped, is what `SteersTrue`
excludes. `SurvTrue` says which plan the input of the session belongs to, from
which `NeverConflicts` concludes that publication never meets another's.

Layout: one lemma for each action or group of actions that changes the same
things (`Retreats`, `RoomKeeps`, `EnterKeeps`, `AcquireKeeps`, `PlansComeAndGo`),
and for the three stronger invariants a lemma that dismisses the steps which
change nothing they speak of (`AheadStays`, `MovesOnce`). The invariants were
checked by TLC before they were proved, with three and with four messages.

### ServerProofs

Two specifications that share no variable, proved in one module. Names both have
are prefixed in `ReportPublication` (`ReportsSpec`, `ReportsNext`).

*Reports.* `StoreAgrees` (`ReportsSpec => []StoreMatches`), `DeletionFinal`
(`ReportsSpec => DeletedStays`) and `DiskBounded` (`ReportsSpec =>
[]DiskWithinBudget`), for every set of
reports and files, every budget and any number of crashes. `Sound(r)` says, report
by report, what the holder of the guard knows: its row has not been cleaned, a
verified report is whole, only a fenced row is cleaned up, and a directory that
was removed stays away because nothing writes without the guard. `OneReport`
reduces a step to the one report it is about; `StepBudget` bounds the
reservations and `DiskBounded` follows, because a directory has one.

*Rooms.* `EligibleAdmitted` (`Spec => []EligibleWasAdmitted`) and `AuthorityHolds`
(`Spec => AgentsActOnAuthority`), for every set of agents, levels and policies and
any number of changes, events and faults.

Both are about something seen before an await and used after it, so the argument
is one about revisions. `StepMoves`: a step raises the revision of each agent whose
grant or status it changes, and lowers none. `AskHolds` then says of a request in
flight that what it was prepared on holds for as long as the revisions it carries
are the present ones, and `RecHolds` says of a reconciliation that a success it is
about to save is the join of the very grant it has read, unless the revision has
moved, in which case the save is refused. `EligibleStep` adds that `commit` renews
the generation whenever it ends a membership.

Assumptions of these: those the modules state (`BoundsAssumption`,
`InstancesAssumption`, `RequestsAssumption`, `RulesAssumption`, `PeriodAssumption`,
`FaultsAssumption`, `ActorsAssumption`, `LevelsAssumption`,
`MaxRunsAssumption`, `ReportsAssumption`, `LimitsAssumption`, `SizeAssumption`), which TLC
evaluates in every run.

## 8. Only model-checked

- Liveness (`RestartSettles`, `AcceptedSettles`, `AllGiven`, `SteeringSettles`,
  `StopEnds`, `CloseTerminates`, `RestoreSettles`, `RequestSettles`,
  `ReceiptArrives`, `PendingSettles`, `ReceiptsLeave`, `FencedIsReclaimed`,
  `MembershipSettles`). Liveness under fairness and `ENABLED` are out of the
  prover's reach.
- Nothing of safety that a run checks. The type invariants are theorems or a part
  of the invariants of the proofs. What fairness adds to a specification is not
  used by any proof: the theorems are about `Spec`, and each `FairSpec` implies it.
- Induction over data and `RECURSIVE` operators cannot be proved about. No module
  uses `RECURSIVE`.

## 9. Not modelled, and why

- *NativeDelivery, ReceiverPublication*: session start-up and paging of the Codex
  history; muted rooms, histories of their own per room, debounce windows,
  queries and release notices of the listener; the notices written to the room
  about steering; the retirement of controls when a room is left. Each is
  control that would multiply the state space. A publication is one step of a
  plan, where the code goes through the inputs of the plan one after the other
  (`chat_publication.rs:375-455`), each in the way the model shows for one;
  recovery of the controls at start is one step for all of them, where the code
  interrupts and saves control by control (`source_control.rs:213-227`): a crash
  in between is a crash before, because recovery does again what it finds.
- One hazard of the modelled code has no property: a crash between the move of
  the read position and the checkpoint of the controls in `prepare`
  (`listener/chat_acquisition.rs:206-214`) leaves delivered controls behind, and
  the table holds at most 1000 (`source_control.rs:312`).
- *Controller*: roster edits and set-up, several fleets, a failing write of the
  registry, revisions, a `validate` that fails, and an operation asked for again
  under its own identity (answered from the journal without a change). A Stop
  finds a recovery and cancels it in one step (`recovery.rs:272-281`; only the
  lookup holds the lock), and `CloseRuntimes` is one step for the loop over the
  runtimes: a recovery that ends in between is cancelled without effect, and when
  the runtimes are closed no task is left that could see the loop half done.
- *FleetControl, FleetMessages*: the content of requests; the text of an error,
  which is a part of the comparison of receipts (`domain/src/fleet/runtime.rs:281`);
  rate limits, listing and retention of messages; changes of the roster; in
  `FleetMessages` the lease, a suspended account other than as the snapshot shows
  it, and the native session's answer to a recovery, which is taken for exact
  (what `NativeDelivery` shows).
- *WakeUps*: a report of the listener that arrives after its run has expired;
  calendar arithmetic and time zones; limits of rules. A rule's identity is not
  used again. A session that is busy when a claim is due only puts the claim off;
  a disconnection that was asked for, and the controller's admission, make the
  server refuse a claim, which is one of the faults (`ClaimRefused`).
- *Decisions*: the content of questions and answers, notices to the owner, a
  native request identity that is used again; a save of the receipts that fails,
  after which the broker answers every call with that error
  (`decision_broker.rs:67`, `:143-145`, `:261`) and `ReceiptsLeave` has to wait for the next start of
  the listener.
- *ReportPublication*: budgets in bytes and per agent (their form is that of the
  reservations), public reads, revisions, the checks of a manifest.
- *RoomAccess*: the owner's private conversation and its repair, muting, the power
  levels that `set_room_access` sets (its failure is one of the faults), native
  access, the policy that is approved with an enrollment (`enrollment/decide.rs:386`):
  what it changes about who may invite is a `SetPermission` of the model,
  several owners, revoked accounts, the limit of grants. The sweep of an
  account begins with the same question for every room; its other steps (password,
  display name) are not about rooms.
- Receiver gate, enrollment, lifecycle reports and incidents, the
  Pi history scan: section 2. The public request budget is a counter under one
  lock.
- Storage: a SQLite transaction and an atomic file replacement are one step.
  REST, contracts and codecs parse and route without protocol state. Matrix and
  the native agents are environment. The C# and TypeScript packages have the
  same contracts and are not translated a second time. The fleet CLI has no
  state.

## 10. Running it

```
tlc -workers 2 -config delivery_safety.cfg MCNativeDelivery.tla
tlc -workers 2 -config controller.cfg MCController.tla
tlc -workers 2 -config reports.cfg MCReportPublication.tla
tlapm NativeDeliveryProofs.tla
tlapm ReceiverPublicationProofs.tla
```

`PROJECT.json` names the module and the configuration of every run, and
whether it is expected to pass.
