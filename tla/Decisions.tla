----------------------------- MODULE Decisions -----------------------------
(* Decisions of the owner about native permission requests and questions:  *)
(* the native callback (Codex adapter), the broker of the listener with    *)
(* its file of receipts (agent-core, decision_broker.rs), and the server's *)
(* record (crossfire domain, runtime/decisions.rs).                        *)
(*                                                                         *)
(* The answer goes owner -> server -> broker -> native runtime; what       *)
(* became of it comes back as a receipt, which a restart keeps.            *)
EXTENDS Naturals, FiniteSets

CONSTANTS
    Asked,      \* the native requests
    MaxRuns,    \* bound: runs of the listener
    MaxFaults   \* bound: failures, lost calls, lapses of the lease

ASSUME MaxRunsAssumption == MaxRuns \in Nat \ {0}

VARIABLES
    server,     \* runtime_decision.status, "none" before it is created
    bound,      \* the run the record names
    over,       \* records past their expiry
    live,       \* runs the server takes for live and admitted
    owner,      \* requests the owner has submitted an answer to
    phase,      \* of the listener: "down", "up", "closing"
    cur,        \* its run, the last one while it is down
    receipt,    \* the broker's receipts, kept in a file
    task,       \* where the callback of each request is
    flushing,   \* the receipt on its way, "none" for none
    native,     \* what the native runtime knows of its request
    net,        \* calls on their way to the server
    orphans,    \* history: created after the broker had given the request up
    faults

serverVars == <<server, bound, over, live, owner>>
broker == <<receipt, task, flushing>>
vars == <<serverVars, phase, cur, broker, native, net, orphans, faults>>

NoReceipt == "none"
Waiting == {"offering", "creating", "polling"}

Fault == faults < MaxFaults /\ faults' = faults + 1

Init ==
    /\ server = [d \in Asked |-> "none"] /\ bound = [d \in Asked |-> 0]
    /\ over = {} /\ live = {1} /\ owner = {}
    /\ phase = "up" /\ cur = 1
    /\ receipt = [d \in Asked |-> NoReceipt]
    /\ task = [d \in Asked |-> "none"]
    /\ flushing = "none"
    /\ native = [d \in Asked |-> "none"]
    /\ net = {} /\ orphans = {} /\ faults = 0

-----------------------------------------------------------------------------
(* The server. *)

\* What a read shows: an open record is expired when its time is over or its
\* run is not live.
Current(d) ==
    IF server[d] \in {"pending", "answered"} /\ (d \in over \/ bound[d] \notin live)
    THEN "expired" ELSE server[d]

\* The answer of a call reaches its caller if that still waits.
Create(c) ==
    /\ c.call = "create"
    /\ IF c.run \in live /\ c.d \notin over
       THEN /\ server' = [server EXCEPT ![c.d] = "pending"]
            /\ bound' = [bound EXCEPT ![c.d] = c.run]
            /\ orphans' = IF receipt[c.d] = NoReceipt THEN orphans \union {c.d}
                                                      ELSE orphans
            /\ task' = IF c.live THEN [task EXCEPT ![c.d] = "polling"] ELSE task
            /\ UNCHANGED receipt
       ELSE /\ task' = IF c.live THEN [task EXCEPT ![c.d] = "denying"] ELSE task
            /\ receipt' = IF c.live THEN [receipt EXCEPT ![c.d] = "cancelled"] ELSE receipt
            /\ UNCHANGED <<server, bound, orphans>>
    /\ net' = net \ {c}
    /\ UNCHANGED <<over, live, owner, phase, cur, flushing, native, faults>>

OwnerAnswers(d) ==
    /\ Current(d) = "pending"
    /\ server' = [server EXCEPT ![d] = "answered"]
    /\ owner' = owner \union {d}
    /\ UNCHANGED <<bound, over, live, phase, cur, broker, native, net, orphans, faults>>

\* The record an accepted receipt leaves; one of nothing, or of what is settled
\* otherwise, changes nothing, and the broker takes that for an answer too.
Accepts(d, status) ==
    IF status = "responded" THEN server[d] \in {"answered", "responded"}
                            ELSE server[d] \in {"pending", "answered", "cancelled"}

Receipt(c) ==
    /\ c.call = "receipt"
    /\ server' = IF Accepts(c.d, c.status) THEN [server EXCEPT ![c.d] = c.status]
                                           ELSE server
    /\ receipt' = IF c.live THEN [receipt EXCEPT ![c.d] = NoReceipt] ELSE receipt
    /\ flushing' = IF c.live THEN "none" ELSE flushing
    /\ net' = net \ {c}
    /\ UNCHANGED <<bound, over, live, owner, phase, cur, task, native, orphans, faults>>

\* The server's worker, and every list of decisions, store what is expired.
Expire(d) ==
    /\ Current(d) # server[d]
    /\ server' = [server EXCEPT ![d] = "expired"]
    /\ UNCHANGED <<bound, over, live, owner, phase, cur, broker, native, net, orphans, faults>>

TimeOver(d) ==
    /\ server[d] # "none" /\ d \notin over
    /\ Fault
    /\ over' = over \union {d}
    /\ UNCHANGED <<server, bound, live, owner, phase, cur, broker, native, net, orphans>>

\* The lease of the controller lapses or the reports do not come through.
Lapse ==
    /\ cur \in live
    /\ Fault
    /\ live' = live \ {cur}
    /\ UNCHANGED <<server, bound, over, owner, phase, cur, broker, native, net, orphans>>

Regain ==
    /\ phase # "down" /\ cur \notin live
    /\ live' = live \union {cur}
    /\ UNCHANGED <<server, bound, over, owner, phase, cur, broker, native, net, orphans, faults>>

\* The heartbeat of a run that has ended expires.
RunExpires(r) ==
    /\ r \in live /\ (r # cur \/ phase = "down")
    /\ live' = live \ {r}
    /\ UNCHANGED <<server, bound, over, owner, phase, cur, broker, native, net, orphans, faults>>

-----------------------------------------------------------------------------
(* The native callback and the broker. *)

Left(d) == {IF c.d = d /\ c.call = "create" THEN [c EXCEPT !.live = FALSE] ELSE c : c \in net}

\* The native runtime asks; the broker writes a pending receipt.
Request(d) ==
    /\ phase = "up" /\ native[d] = "none"
    /\ native' = [native EXCEPT ![d] = "open"]
    /\ receipt' = [receipt EXCEPT ![d] = "pending"]
    /\ task' = [task EXCEPT ![d] = "offering"]
    /\ UNCHANGED <<serverVars, phase, cur, flushing, net, orphans, faults>>

\* The reporting run is known and the owner's authority checked.
Offer(d) ==
    /\ phase = "up" /\ task[d] = "offering"
    /\ task' = [task EXCEPT ![d] = "creating"]
    /\ net' = net \union {[call |-> "create", d |-> d, run |-> cur, status |-> "pending",
                           live |-> TRUE]}
    /\ UNCHANGED <<serverVars, phase, cur, receipt, flushing, native, orphans, faults>>

PollResponded(d) ==     \* the answer is receipted when it is read
    /\ phase = "up" /\ task[d] = "polling"
    /\ Current(d) # "pending"
    /\ IF Current(d) = "answered"
       THEN /\ task' = [task EXCEPT ![d] = "answering"]
            /\ receipt' = [receipt EXCEPT ![d] = "responded"]
       ELSE /\ task' = [task EXCEPT ![d] = "denying"]
            /\ receipt' = [receipt EXCEPT ![d] = "cancelled"]
    /\ UNCHANGED <<serverVars, phase, cur, flushing, native, net, orphans, faults>>

\* The owner's answer is returned and the receipt stays pending ("offered"),
\* or the request is lost and its receipt cancelled.
Poll(d) ==
    /\ phase = "up" /\ task[d] = "polling"
    /\ Current(d) # "pending"
    /\ IF Current(d) = "answered"
       THEN /\ task' = [task EXCEPT ![d] = "answering"]
            /\ UNCHANGED receipt
       ELSE /\ task' = [task EXCEPT ![d] = "denying"]
            /\ receipt' = [receipt EXCEPT ![d] = "cancelled"]
    /\ UNCHANGED <<serverVars, phase, cur, flushing, native, net, orphans, faults>>

\* The expiry, the owner's channel, the authority or a call fails: the native
\* runtime is told that the request is denied.
Fails(d) ==
    /\ phase = "up" /\ task[d] \in Waiting
    /\ Fault
    /\ task' = [task EXCEPT ![d] = "denying"]
    /\ receipt' = [receipt EXCEPT ![d] = "cancelled"]
    /\ net' = Left(d)
    /\ UNCHANGED <<serverVars, phase, cur, flushing, native, orphans>>

\* The writer of the connection sends the response, then confirms it.
Write(d) ==
    /\ phase = "up" /\ task[d] \in {"answering", "denying"}
    /\ native' = [native EXCEPT ![d] = IF task[d] = "answering" THEN "answered" ELSE "denied"]
    /\ task' = [task EXCEPT ![d] = IF task[d] = "answering" THEN "written" ELSE "none"]
    /\ UNCHANGED <<serverVars, phase, cur, receipt, flushing, net, orphans, faults>>

Confirm(d) ==
    /\ phase = "up" /\ task[d] = "written"
    /\ task' = [task EXCEPT ![d] = "confirmed"]
    /\ UNCHANGED <<serverVars, phase, cur, receipt, flushing, native, net, orphans, faults>>

Responded(d) ==
    /\ phase = "up" /\ task[d] = "confirmed"
    /\ task' = [task EXCEPT ![d] = "none"]
    /\ receipt' = [receipt EXCEPT ![d] = IF @ = "pending" THEN "responded" ELSE @]
    /\ UNCHANGED <<serverVars, phase, cur, flushing, native, net, orphans, faults>>

\* The turn ends, the thread closes, or the runtime clears the request: the
\* callback is cancelled.  One that still waits for the owner cancels its
\* receipt; one that has its answer only goes.
Ends(d) ==
    /\ phase = "up"
    /\ task[d] \in Waiting \union {"answering", "denying", "written"}
    /\ native' = [native EXCEPT ![d] = IF @ = "open" THEN "ended" ELSE @]
    /\ task' = [task EXCEPT ![d] = "none"]
    /\ receipt' = [receipt EXCEPT ![d] =
                      IF task[d] \in Waiting THEN "cancelled" ELSE @]
    /\ net' = Left(d)
    /\ UNCHANGED <<serverVars, phase, cur, flushing, orphans, faults>>

-----------------------------------------------------------------------------
(* Receipts, and the listener's life. *)

\* With each report, and at the close, the settled receipts are sent.
Flush(d) ==
    /\ phase # "down" /\ flushing = "none"
    /\ receipt[d] \in {"responded", "cancelled"}
    /\ flushing' = d
    /\ net' = net \union {[call |-> "receipt", d |-> d, run |-> cur,
                           status |-> receipt[d], live |-> TRUE]}
    /\ UNCHANGED <<serverVars, phase, cur, receipt, task, native, orphans, faults>>

FlushFailsForgets ==    \* the receipt goes with the call
    /\ flushing # "none"
    /\ Fault
    /\ net' = {c \in net : ~(c.call = "receipt" /\ c.live)}
    /\ flushing' = "none"
    /\ receipt' = [receipt EXCEPT ![flushing] = NoReceipt]
    /\ UNCHANGED <<serverVars, phase, cur, task, native, orphans>>

FlushFailsStops ==      \* the report does not try again
    /\ flushing # "none"
    /\ Fault
    /\ net' = {c \in net : ~(c.call = "receipt" /\ c.live)}
    /\ UNCHANGED <<serverVars, phase, cur, broker, native, orphans>>

\* The report times out or fails; its call is lost or late, the receipt stays.
FlushFails ==
    /\ flushing # "none"
    /\ Fault
    /\ \/ net' = {c \in net : ~(c.call = "receipt" /\ c.live)}
       \/ net' = {IF c.call = "receipt" THEN [c EXCEPT !.live = FALSE] ELSE c : c \in net}
    /\ flushing' = "none"
    /\ UNCHANGED <<serverVars, phase, cur, receipt, task, native, orphans>>

Unresolved ==
    [d \in Asked |-> IF receipt[d] = "pending" THEN "cancelled" ELSE receipt[d]]

AllLeft == {[c EXCEPT !.live = FALSE] : c \in net}

\* The listener closes: the native connection first, then the broker, which
\* cancels what is unresolved and flushes.
Close ==
    /\ phase = "up" /\ cur < MaxRuns
    /\ phase' = "closing"
    /\ native' = [d \in Asked |-> IF native[d] = "open" THEN "ended" ELSE native[d]]
    /\ task' = [d \in Asked |-> "none"]
    /\ receipt' = Unresolved
    /\ flushing' = "none" /\ net' = AllLeft
    /\ UNCHANGED <<serverVars, cur, orphans, faults>>

\* The last report says stopped, when the flush has ended or its time is over.
Closed ==
    /\ phase = "closing"
    /\ phase' = "down" /\ flushing' = "none" /\ net' = AllLeft
    /\ \/ \A d \in Asked : receipt[d] = NoReceipt
       \/ flushing # "none"
    /\ live' = live \ {cur}
    /\ UNCHANGED <<server, bound, over, owner, cur, receipt, task, native, orphans, faults>>

Crash ==
    /\ phase # "down" /\ cur < MaxRuns
    /\ phase' = "down"
    /\ native' = [d \in Asked |-> IF native[d] = "open" THEN "ended" ELSE native[d]]
    /\ task' = [d \in Asked |-> "none"]
    /\ flushing' = "none" /\ net' = AllLeft
    /\ UNCHANGED <<serverVars, cur, receipt, orphans, faults>>

Open ==
    /\ phase = "down" /\ cur < MaxRuns
    /\ phase' = "up" /\ cur' = cur + 1
    /\ live' = live \union {cur + 1}
    /\ receipt' = Unresolved
    /\ UNCHANGED <<server, bound, over, owner, task, flushing, native, net, orphans, faults>>

-----------------------------------------------------------------------------
AtServer == \E c \in net : Create(c) \/ Receipt(c)

World ==
    \/ Lapse \/ Regain \/ \E r \in 1..MaxRuns : RunExpires(r)
    \/ \E d \in Asked : OwnerAnswers(d) \/ Expire(d) \/ TimeOver(d)

Callback(d) ==
    \/ Offer(d) \/ Poll(d) \/ Write(d) \/ Confirm(d) \/ Responded(d)

Listener ==
    \/ \E d \in Asked : Request(d) \/ Callback(d) \/ Fails(d) \/ Ends(d) \/ Flush(d)
    \/ FlushFails \/ Close \/ Closed \/ Crash \/ Open

Next == AtServer \/ World \/ Listener

Spec == Init /\ [][Next]_vars

\* The tasks of the listener run, the server handles its calls, the reports
\* flush every receipt in turn, and the controller opens the listener again.
FairSpec ==
    /\ Spec
    /\ WF_vars(AtServer) /\ WF_vars(Regain) /\ WF_vars(Open)
    /\ \A d \in Asked :
          WF_vars(Callback(d)) /\ SF_vars(Flush(d)) /\ WF_vars(Expire(d))

-----------------------------------------------------------------------------
(* Properties. *)

\* "responded is confirmed native transmission" (docs/specification.md, section
\* 12): the server shows it only of a request whose native runtime has the
\* answer, and an answer the runtime has is one the owner submitted.
RespondedTrue ==
    \A d \in Asked :
        /\ server[d] = "responded" => native[d] = "answered"
        /\ native[d] = "answered" => d \in owner

\* When a receipt has left the broker the server has settled the decision: no
\* lost, late, refused or repeated receipt leaves it open, except for a record
\* whose creation arrived when the broker had already given the request up.
SettledIsKnown ==
    \A d \in Asked :
        (native[d] # "none" /\ receipt[d] = NoReceipt /\ d \notin orphans)
            => server[d] \notin {"pending", "answered"}

\* A settled receipt is delivered in the end, across failed reports and restarts.
ReceiptsLeave ==
    \A d \in Asked :
        receipt[d] \in {"responded", "cancelled"} ~> receipt[d] = NoReceipt

\* "Completion/interruption/closure/revocation retire obsolete requests"
\* (docs/specification.md, section 12): the receipt of a request the native
\* runtime waits for no more does not stay pending.
ObsoleteRetired ==
    \A d \in Asked :
        (native[d] = "ended" /\ receipt[d] = "pending") ~> receipt[d] # "pending"
=============================================================================
