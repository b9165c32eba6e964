------------------------- MODULE ReportPublication -------------------------
(***************************************************************************)
(* Static reports: the rows of the database (crossfire domain/publication) *)
(* and the private directories of the file store (adapter-filesystem       *)
(* publication.rs).  An operation works on both, outside any common        *)
(* transaction: it takes the report's guard, checks the row, leaves the    *)
(* database for the store and checks the row again.  Deletion fences the   *)
(* row without the guard; what it cannot remove at once, and what expires  *)
(* in staging, is reclaimed by the server's maintenance.                   *)
(***************************************************************************)
EXTENDS Naturals, Sequences, FiniteSets

CONSTANTS Reports,        \* identities that create() may draw
          Files,          \* the manifest of a report
          InstanceCount,  \* reservations (the other budgets have its form)
          Uploads,        \* permits of the store
          Batch,          \* reports of one maintenance pass
          MaxStoreFaults  \* bound on crashes and failed removals or saves
ASSUME ReportsAssumption == IsFiniteSet(Reports) /\ IsFiniteSet(Files) /\ Files # {}
ASSUME LimitsAssumption ==
  InstanceCount \in Nat /\ Uploads \in Nat /\ Batch \in Nat \ {0} /\ MaxStoreFaults \in Nat

VARIABLES
  row,       \* database: the publication and the files marked uploaded
  born,      \* database: the reports in the order in which they expire
  store,     \* disk: the directory of each report
  op,        \* memory: the operation that holds the report's guard
  deleting,  \* memory: deletions between their fence and their clean-up
  batch,     \* memory: what is left of the maintenance pass
  faults

reportsVars == <<row, born, store, op, deleting, batch, faults>>

-----------------------------------------------------------------------------
(* The revision counts the changes of the state and is not kept: a request *)
(* that expects another one is refused and changes nothing.                *)
NoRow == [state |-> "none", expired |-> FALSE, cleaned |-> FALSE, uploaded |-> {}]
NoDirectory == [present |-> FALSE, files |-> {}, pending |-> 0]
Free == [kind |-> "free", at |-> "free", files |-> {}]
Holds(r, kind, at) == op[r].kind = kind /\ op[r].at = at
Take(r, kind, at, files) == op' = [op EXCEPT ![r] = [kind |-> kind, at |-> at, files |-> files]]
Release(r) == op' = [op EXCEPT ![r] = Free]

Writable(r) == row[r].state = "staging" /\ ~row[r].expired
Reserved == {r \in Reports : row[r].state # "none" /\ ~row[r].cleaned}

StoreFault == faults < MaxStoreFaults /\ faults' = faults + 1

ReportsInit ==
  /\ row = [r \in Reports |-> NoRow] /\ born = <<>>
  /\ store = [r \in Reports |-> NoDirectory]
  /\ op = [r \in Reports |-> Free]
  /\ deleting = {} /\ batch = <<>> /\ faults = 0

-----------------------------------------------------------------------------
(* The publisher: create, upload and commit *)

(* A staged report reserves its place until it has been cleaned. *)
Create(r) == /\ row[r].state = "none" /\ Cardinality(Reserved) < InstanceCount
             /\ row' = [row EXCEPT ![r].state = "staging"] /\ born' = Append(born, r)
             /\ UNCHANGED <<store, op, deleting, batch, faults>>
Expire(r) == /\ Writable(r) /\ row' = [row EXCEPT ![r].expired = TRUE]
             /\ UNCHANGED <<born, store, op, deleting, batch, faults>>

UploadStart(r, f) == /\ op[r] = Free /\ Writable(r) /\ Take(r, "upload", "open", {f})
                     /\ UNCHANGED <<row, born, store, deleting, batch, faults>>

(* Mutant: the copies of interrupted uploads are left. *)
Added(d) == [d EXCEPT !.present = TRUE, !.pending = @ + 1]

(* The copy of an interrupted upload is discarded before a new one starts. *)
Opened(d) == [d EXCEPT !.present = TRUE, !.pending = 1]

(* Above the capacity the upload ends at once; one that fails here may     *)
(* have made the directory, and left the old copy in it or not.            *)
UploadOpens(r) ==
  /\ Holds(r, "upload", "open")
  /\ LET full == Cardinality({q \in Reports : Holds(q, "upload", "writing")}) >= Uploads IN
     \/ /\ full /\ Release(r) /\ UNCHANGED <<store, faults>>
     \/ /\ ~full /\ Take(r, "upload", "writing", op[r].files)
        /\ store' = [store EXCEPT ![r] = Opened(@)] /\ UNCHANGED faults
     \/ /\ ~full /\ StoreFault /\ Release(r)
        /\ \/ UNCHANGED store
           \/ \E copies \in 0..store[r].pending :
                store' = [store EXCEPT ![r].present = TRUE, ![r].pending = copies]
  /\ UNCHANGED <<row, born, deleting, batch>>

(* The copy takes the place of the file only when its digest is the        *)
(* declared one; otherwise, and when the request is given up, it goes.     *)
UploadStores(r) ==
  /\ Holds(r, "upload", "writing") /\ store[r].pending > 0
  /\ store' = [store EXCEPT ![r].pending = @ - 1, ![r].files = @ \cup op[r].files]
  /\ Take(r, "upload", "stored", op[r].files)
  /\ UNCHANGED <<row, born, deleting, batch, faults>>
UploadFails(r) ==
  /\ Holds(r, "upload", "writing") /\ Release(r)
  /\ \/ store' = [store EXCEPT ![r].pending = IF @ = 0 THEN 0 ELSE @ - 1] /\ UNCHANGED faults
     \/ StoreFault /\ UNCHANGED store
  /\ UNCHANGED <<row, born, deleting, batch>>

(* The row is checked again: it may have been fenced, it may have expired, *)
(* the publisher may have lost its authority (`granted`).                  *)
UploadRecords(r) ==
  /\ Holds(r, "upload", "stored") /\ Release(r)
  /\ \E granted \in BOOLEAN :
       row' = IF granted /\ Writable(r)
              THEN [row EXCEPT ![r].uploaded = @ \cup op[r].files] ELSE row
  /\ UNCHANGED <<born, store, deleting, batch, faults>>

CommitStart(r) == /\ op[r] = Free /\ Writable(r) /\ row[r].uploaded = Files
                  /\ Take(r, "commit", "verify", {})
                  /\ UNCHANGED <<row, born, store, deleting, batch, faults>>
Verify(r) ==
  /\ Holds(r, "commit", "verify")
  /\ \/ /\ IF store[r].present /\ store[r].files = Files
           THEN /\ store' = [store EXCEPT ![r].pending = 0]
                /\ Take(r, "commit", "publish", {})
           ELSE Release(r) /\ UNCHANGED store
        /\ UNCHANGED faults
     \/ StoreFault /\ Release(r) /\ UNCHANGED store
  /\ UNCHANGED <<row, born, deleting, batch>>

CommitPublishes(r) ==
  /\ Holds(r, "commit", "publish") /\ Release(r)
  /\ \E granted \in BOOLEAN :
       row' = IF granted /\ Writable(r)
              THEN [row EXCEPT ![r].state = "published"] ELSE row
  /\ UNCHANGED <<born, store, deleting, batch, faults>>

-----------------------------------------------------------------------------
(* Deletion and maintenance *)

Fenced(r) == [row EXCEPT ![r].state = "deleted"]

(* A retry of a deletion that has been done cleans up again. *)
Delete(r) == /\ row[r].state # "none" /\ r \notin deleting
             /\ row' = IF row[r].state = "deleted" THEN row ELSE Fenced(r)
             /\ deleting' = deleting \cup {r}
             /\ UNCHANGED <<born, store, op, batch, faults>>

(* The clean-up of a deletion is left to maintenance when the guard is     *)
(* taken.                                                                  *)
DeleteCleans(r) == /\ r \in deleting /\ deleting' = deleting \ {r}
                   /\ IF op[r] = Free THEN Take(r, "delete", "remove", {}) ELSE UNCHANGED op
                   /\ UNCHANGED <<row, born, store, batch, faults>>

(* What maintenance selects, and what it checks again under the guard. *)
Reclaimable(r) == /\ ~row[r].cleaned
                  /\ row[r].state = "deleted" \/ (row[r].state = "staging" /\ row[r].expired)

Due == SelectSeq(born, Reclaimable)
MaintainStart == /\ batch = <<>> /\ Due # <<>>
                 /\ batch' = SubSeq(Due, 1, IF Len(Due) < Batch THEN Len(Due) ELSE Batch)
                 /\ UNCHANGED <<row, born, store, op, deleting, faults>>

(* A report in use is left to the next pass. *)
MaintainItem(r) ==
  /\ batch # <<>> /\ Head(batch) = r /\ op[r].kind # "maintain"
  /\ IF op[r] = Free /\ Reclaimable(r)
     THEN /\ Take(r, "maintain", "remove", {}) /\ UNCHANGED batch
          /\ row' = IF row[r].state = "staging" THEN Fenced(r) ELSE row
     ELSE batch' = Tail(batch) /\ UNCHANGED <<row, op>>
  /\ UNCHANGED <<born, store, deleting, faults>>

Cleaning(r, at) == Holds(r, "delete", at) \/ Holds(r, "maintain", at)
Done(r) == Release(r) /\ batch' = IF op[r].kind = "maintain" THEN Tail(batch) ELSE batch

(* The directory is listed with room for one copy, emptied and removed; a  *)
(* failure on the way leaves some of it.                                   *)
Listable(r) == Cardinality(store[r].files) + store[r].pending <= Cardinality(Files) + 1

(* Mutant: the clean-up goes on when the removal has failed. *)
RemoveIgnored(r) ==
  /\ Cleaning(r, "remove") /\ Take(r, op[r].kind, "record", {})
  /\ \/ store' = [store EXCEPT ![r] = NoDirectory] /\ UNCHANGED faults
     \/ StoreFault /\ UNCHANGED store
  /\ UNCHANGED <<row, born, deleting, batch>>

RemoveFiles(r) ==
  /\ Cleaning(r, "remove")
  /\ \/ /\ IF Listable(r)
           THEN /\ store' = [store EXCEPT ![r] = NoDirectory]
                /\ Take(r, op[r].kind, "record", {}) /\ UNCHANGED batch
           ELSE Done(r) /\ UNCHANGED store
        /\ UNCHANGED faults
     \/ /\ StoreFault /\ Done(r) /\ store[r].present
        /\ \E left \in SUBSET store[r].files, copies \in 0..store[r].pending :
             store' = [store EXCEPT ![r].files = left, ![r].pending = copies]
  /\ UNCHANGED <<row, born, deleting>>
RecordCleaned(r) ==
  /\ Cleaning(r, "record") /\ Done(r)
  /\ \/ row' = [row EXCEPT ![r].cleaned = TRUE] /\ UNCHANGED faults
     \/ StoreFault /\ UNCHANGED row
  /\ UNCHANGED <<born, store, deleting>>

(* The server stops, between any two steps. *)
ServerStops ==
  /\ StoreFault /\ op' = [r \in Reports |-> Free] /\ deleting' = {} /\ batch' = <<>>
  /\ UNCHANGED <<row, born, store>>

-----------------------------------------------------------------------------
UploadEnds(r) == UploadStores(r) \/ UploadFails(r)
Guarded(r) == \/ UploadOpens(r) \/ UploadEnds(r) \/ UploadRecords(r)
              \/ Verify(r) \/ CommitPublishes(r)
              \/ RemoveFiles(r) \/ RecordCleaned(r)
ReportsNext ==
  \/ \E r \in Reports : \/ Create(r) \/ Expire(r) \/ CommitStart(r) \/ Delete(r)
                        \/ \E f \in Files : UploadStart(r, f)
                        \/ Guarded(r) \/ DeleteCleans(r) \/ MaintainItem(r)
  \/ MaintainStart \/ ServerStops

ReportsSpec == ReportsInit /\ [][ReportsNext]_reportsVars

(* The worker comes back to maintenance, and what an operation has begun   *)
(* goes on: every request has a deadline, and its steps wait for nobody.   *)
ReportsFairSpec ==
  /\ ReportsSpec /\ WF_reportsVars(MaintainStart)
  /\ \A r \in Reports : /\ WF_reportsVars(Guarded(r)) /\ WF_reportsVars(DeleteCleans(r))
                        /\ WF_reportsVars(MaintainItem(r))

-----------------------------------------------------------------------------
(* The database and the store agree, whatever stops between the two: a     *)
(* public report has all its files, and a report that no longer counts     *)
(* against the budget has left nothing on disk, nor has an identity that   *)
(* was never created.                                                      *)
PublicIsWhole(r) == row[r].state = "published" => store[r].present /\ store[r].files = Files
UnreservedIsGone(r) == r \notin Reserved => store[r] = NoDirectory
StoreMatches == \A r \in Reports : PublicIsWhole(r) /\ UnreservedIsGone(r)

(* The budget of reservations bounds what is on disk. *)
DiskWithinBudget == Cardinality({r \in Reports : store[r].present}) <= InstanceCount

(* A directory never holds more than one interrupted copy, so that it can  *)
(* always be listed and removed (MAX_FILES + 1 entries).                   *)
CopiesBounded == \A r \in Reports : Listable(r)

(* Deletion is final: no operation that was under way makes the report     *)
(* public again.                                                           *)
DeletedStays ==
  [][\A r \in Reports : row[r].state = "deleted" => row'[r].state = "deleted"]_reportsVars

(* A report that was deleted, or expired in staging, is reclaimed after    *)
(* the last fault: its files are removed and its reservation is returned.  *)
FencedIsReclaimed == \A r \in Reports :
  row[r].state = "deleted" \/ (row[r].state = "staging" /\ row[r].expired) ~> row[r].cleaned
=============================================================================
