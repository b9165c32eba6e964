---------------------------- MODULE ServerProofs ----------------------------
(***************************************************************************)
(* Proofs about two parts of the server that hold state in a database and  *)
(* in another system: static reports and the file store, and the grants of *)
(* a room and the homeserver.  The two specifications share no variable    *)
(* and no theorem speaks of both; a name both have is qualified with       *)
(* Reports for the first.                                                  *)
(*                                                                         *)
(* Reports, for every set of reports and files, every budget and any       *)
(* number of faults: the inductive invariant says, report by report, what  *)
(* the holder of the guard knows: that its row has not been cleaned, that  *)
(* a verified report is whole, that only a fenced row is cleaned up and    *)
(* that a directory that was removed stays away.                           *)
(*                                                                         *)
(* Rooms, for every set of agents and every number of changes, events and  *)
(* faults: an agent is offered a room only if it has joined for the grant  *)
(* it has, and what agents change they change on an authority that still   *)
(* holds.  The argument for both: whatever changes the grant or the status *)
(* of an agent raises its revision, so that what was seen before an await  *)
(* still holds when the revisions are the same after it.                   *)
(***************************************************************************)
EXTENDS ReportPublication, RoomAccess, FiniteSetTheorems, TLAPS

-----------------------------------------------------------------------------
(* Static reports *)
Rows == [state : {"none", "staging", "published", "deleted"}, expired : BOOLEAN,
         cleaned : BOOLEAN, uploaded : SUBSET Files]
Directories == [present : BOOLEAN, files : SUBSET Files, pending : {0, 1}]
Operations == [kind : {"free", "upload", "commit", "delete", "maintain"},
               at : {"free", "open", "writing", "stored", "verify", "publish", "remove",
                     "record"},
               files : SUBSET Files]

ReportsTyped ==
  /\ row \in [Reports -> Rows] /\ store \in [Reports -> Directories]
  /\ op \in [Reports -> Operations] /\ deleting \subseteq Reports

Publishing(r) == op[r].kind \in {"upload", "commit"}
Removing(r) == op[r].kind \in {"delete", "maintain"}

(* What holds of one report. *)
Sound(r) == /\ PublicIsWhole(r) /\ UnreservedIsGone(r)
            /\ row[r].cleaned => row[r].state = "deleted"
            /\ op[r] # Free => Publishing(r) \/ Removing(r)
            /\ Publishing(r) => r \in Reserved
            /\ Holds(r, "commit", "publish") => store[r].present /\ store[r].files = Files
            /\ Removing(r) \/ r \in deleting => row[r].state = "deleted"
            /\ Cleaning(r, "record") => store[r] = NoDirectory

ReportsIInv == ReportsTyped /\ \A r \in Reports : Sound(r)

LEMMA InitReportsIInv == ReportsInit => ReportsIInv
BY DEF ReportsInit, ReportsIInv, ReportsTyped, Sound, PublicIsWhole, UnreservedIsGone,
       Reserved, Publishing, Removing, Holds, Cleaning, NoRow, NoDirectory, Free,
       Rows, Directories, Operations

(* A step of the report r keeps the invariant when it keeps the types and  *)
(* r sound, and leaves the other reports alone.                            *)
LEMMA OneReport ==
  ASSUME ReportsIInv, NEW r \in Reports, ReportsTyped', Sound(r)',
         \A q \in Reports \ {r} : /\ row'[q] = row[q] /\ store'[q] = store[q]
                                  /\ op'[q] = op[q] /\ (q \in deleting' <=> q \in deleting)
  PROVE  ReportsIInv'
<1>1. ASSUME NEW q \in Reports \ {r} PROVE Sound(q)'
  BY <1>1 DEF ReportsIInv, Sound, PublicIsWhole, UnreservedIsGone, Reserved, Publishing, Removing,
              Holds, Cleaning
<1> QED BY <1>1 DEF ReportsIInv

(* Taking and releasing the guard. *)
LEMMA Taken ==
  ASSUME op \in [Reports -> Operations], NEW r \in Reports,
         NEW kind \in {"upload", "commit", "delete", "maintain"},
         NEW at \in {"open", "writing", "stored", "verify", "publish", "remove", "record"},
         NEW files \in SUBSET Files, Take(r, kind, at, files)
  PROVE  /\ op' \in [Reports -> Operations] /\ op'[r].kind = kind /\ op'[r].at = at
         /\ op'[r].files = files /\ op'[r] # Free
BY DEF Take, Operations, Free
LEMMA Released ==
  ASSUME op \in [Reports -> Operations], NEW r \in Reports, Release(r)
  PROVE  op' \in [Reports -> Operations] /\ op'[r] = Free /\ op'[r].kind = "free"
BY DEF Release, Operations, Free

(* One report, one step: its row, its directory and its guard. *)
LEMMA StepSound ==
  ASSUME ReportsIInv, NEW r \in Reports,
         \/ Create(r) \/ Expire(r) \/ CommitStart(r) \/ Delete(r)
         \/ \E f \in Files : UploadStart(r, f)
         \/ Guarded(r) \/ DeleteCleans(r) \/ MaintainItem(r)
  PROVE  ReportsIInv'
<1> USE DEF ReportsIInv
<1>1. /\ row[r] \in Rows /\ store[r] \in Directories /\ op[r] \in Operations
      /\ row \in [Reports -> Rows] /\ store \in [Reports -> Directories]
      /\ op \in [Reports -> Operations] /\ deleting \subseteq Reports /\ Sound(r)
  BY DEF ReportsTyped
<1> SUFFICES /\ ReportsTyped' /\ Sound(r)'
             /\ \A q \in Reports \ {r} : /\ row'[q] = row[q] /\ store'[q] = store[q]
                                         /\ op'[q] = op[q]
                                         /\ (q \in deleting' <=> q \in deleting)
  BY OneReport
<1>2. CASE Create(r)
  BY <1>1, <1>2 DEF Create, Writable, Take, Release, Free, NoRow, NoDirectory, Opened,
     Fenced, Reclaimable, Done, ReportsTyped, Rows, Directories, Operations, Sound, PublicIsWhole,
     UnreservedIsGone, Reserved, Publishing, Removing, Holds, Cleaning
<1>3. CASE Expire(r)
  BY <1>1, <1>3 DEF Expire, Writable, Take, Release, Free, NoRow, NoDirectory, Opened,
     Fenced, Reclaimable, Done, ReportsTyped, Rows, Directories, Operations, Sound, PublicIsWhole,
     UnreservedIsGone, Reserved, Publishing, Removing, Holds, Cleaning
<1>4. CASE CommitStart(r)
  BY <1>1, <1>4 DEF CommitStart, Writable, Take, Release, Free, NoRow, NoDirectory, Opened,
     Fenced, Reclaimable, Done, ReportsTyped, Rows, Directories, Operations, Sound, PublicIsWhole,
     UnreservedIsGone, Reserved, Publishing, Removing, Holds, Cleaning
<1>5. CASE Delete(r)
  BY <1>1, <1>5 DEF Delete, Writable, Take, Release, Free, NoRow, NoDirectory, Opened,
     Fenced, Reclaimable, Done, ReportsTyped, Rows, Directories, Operations, Sound, PublicIsWhole,
     UnreservedIsGone, Reserved, Publishing, Removing, Holds, Cleaning
<1>6. CASE \E f \in Files : UploadStart(r, f)
  BY <1>1, <1>6 DEF UploadStart, Writable, Take, Release, Free, NoRow, NoDirectory, Opened,
     Fenced, Reclaimable, Done, ReportsTyped, Rows, Directories, Operations, Sound, PublicIsWhole,
     UnreservedIsGone, Reserved, Publishing, Removing, Holds, Cleaning
<1>7. CASE UploadOpens(r)
  <2>1. \A q \in Reports \ {r} : /\ row'[q] = row[q] /\ store'[q] = store[q]
                              /\ op'[q] = op[q] /\ (q \in deleting' <=> q \in deleting)
    BY <1>1, <1>7 DEF UploadOpens, Take, Release, Fenced, Done
  <2>2. /\ op' \in [Reports -> Operations]
        /\ op'[r] # Free => op'[r].kind = "upload"
        /\ op'[r].kind \in {"free", "upload"}
    <3>1. op[r].files \in SUBSET Files
      BY <1>1 DEF Operations
    <3>2. Take(r, "upload", "writing", op[r].files) \/ Release(r)
      BY <1>7 DEF UploadOpens
    <3> QED BY <1>1, <3>1, <3>2, Taken, Released
  <2>3. /\ store' \in [Reports -> Directories] /\ store'[r].files = store[r].files
        /\ store'[r] = store[r] \/ store'[r].present
    <3>1. ASSUME NEW d \in Directories, store' = [store EXCEPT ![r] = d],
                 d.files = store[r].files, d.present
          PROVE  /\ store' \in [Reports -> Directories] /\ store'[r].files = store[r].files
                 /\ store'[r] = store[r] \/ store'[r].present
      BY <1>1, <3>1
    <3>2. CASE store' = store
      BY <1>1, <3>2
    <3>3. CASE store' = [store EXCEPT ![r] = Opened(@)]
      <4>1. /\ Opened(store[r]) \in Directories /\ Opened(store[r]).present
            /\ Opened(store[r]).files = store[r].files
        BY <1>1 DEF Opened, Directories
      <4> QED BY <1>1, <3>1, <3>3, <4>1
    <3>4. ASSUME NEW copies \in 0..store[r].pending,
                 store' = [store EXCEPT ![r].present = TRUE, ![r].pending = copies]
          PROVE  /\ store' \in [Reports -> Directories] /\ store'[r].files = store[r].files
                 /\ store'[r] = store[r] \/ store'[r].present
      <4> DEFINE d == [[store[r] EXCEPT !.present = TRUE] EXCEPT !.pending = copies]
      <4>1. store' = [store EXCEPT ![r] = d]
        BY <1>1, <3>4
      <4>2. copies \in {0, 1}
        BY <1>1, <3>4 DEF Directories
      <4>3. d \in Directories /\ d.files = store[r].files /\ d.present
        BY <1>1, <4>2 DEF Directories
      <4> HIDE DEF d
      <4> QED BY <3>1, <4>1, <4>3
    <3> QED BY <1>7, <3>2, <3>3, <3>4 DEF UploadOpens
  <2>4. /\ row' = row /\ deleting' = deleting /\ op[r].kind = "upload"
    BY <1>7 DEF UploadOpens, Holds
  <2>5. Sound(r)'
    BY <1>1, <2>2, <2>3, <2>4 DEF Sound, PublicIsWhole, UnreservedIsGone, Reserved,
       Publishing, Removing, Holds, Cleaning
  <2> QED BY <1>1, <2>1, <2>2, <2>3, <2>4, <2>5 DEF ReportsTyped
<1>8. CASE UploadStores(r)
  <2>1. \A q \in Reports \ {r} : /\ row'[q] = row[q] /\ store'[q] = store[q]
                              /\ op'[q] = op[q] /\ (q \in deleting' <=> q \in deleting)
    BY <1>1, <1>8 DEF UploadStores, Take, Release, Fenced, Done
  <2>2. /\ op' \in [Reports -> Operations] /\ op'[r] # Free /\ op'[r].kind = "upload"
    BY <1>1, <1>8, Taken DEF UploadStores, Operations
  <2>3. op[r].files \subseteq Files /\ store[r].pending - 1 \in {0, 1}
    BY <1>1, <1>8 DEF UploadStores, Operations, Directories
  <2>4. /\ store' \in [Reports -> Directories] /\ store'[r].present = store[r].present
        /\ store'[r].files = store[r].files \cup op[r].files
    BY <1>1, <1>8, <2>3 DEF UploadStores, Directories
  <2>5. /\ row' = row /\ deleting' = deleting /\ op[r].kind = "upload"
    BY <1>8 DEF UploadStores, Holds
  <2>6. store[r].files \subseteq Files
    BY <1>1 DEF Directories
  <2>7. Sound(r)'
    BY <1>1, <2>2, <2>3, <2>4, <2>5, <2>6 DEF Sound, PublicIsWhole, UnreservedIsGone, Reserved,
       Publishing, Removing, Holds, Cleaning
  <2> QED BY <1>1, <2>1, <2>2, <2>4, <2>5, <2>7 DEF ReportsTyped
<1>9. CASE UploadFails(r)
  BY <1>1, <1>9 DEF UploadFails, Writable, Take, Release, Free, NoRow, NoDirectory, Opened,
     Fenced, Reclaimable, Done, ReportsTyped, Rows, Directories, Operations, Sound, PublicIsWhole,
     UnreservedIsGone, Reserved, Publishing, Removing, Holds, Cleaning
<1>10. CASE UploadRecords(r)
  BY <1>1, <1>10 DEF UploadRecords, Writable, Take, Release, Free, NoRow, NoDirectory, Opened,
     Fenced, Reclaimable, Done, ReportsTyped, Rows, Directories, Operations, Sound, PublicIsWhole,
     UnreservedIsGone, Reserved, Publishing, Removing, Holds, Cleaning
<1>11. CASE Verify(r)
  <2>1. \A q \in Reports \ {r} : /\ row'[q] = row[q] /\ store'[q] = store[q]
                              /\ op'[q] = op[q] /\ (q \in deleting' <=> q \in deleting)
    BY <1>1, <1>11 DEF Verify, Take, Release, Fenced, Done
  <2>2. /\ op' \in [Reports -> Operations]
        /\ op'[r] # Free => op'[r].kind = "commit"
        /\ op'[r].kind \in {"free", "commit"}
        /\ op'[r].kind = "commit" => store[r].present /\ store[r].files = Files
    <3>1. \/ Take(r, "commit", "publish", {}) /\ store[r].present /\ store[r].files = Files
          \/ Release(r)
      BY <1>11 DEF Verify
    <3> QED BY <1>1, <3>1, Taken, Released
  <2>3. /\ store' \in [Reports -> Directories] /\ store'[r].present = store[r].present
        /\ store'[r].files = store[r].files
    BY <1>1, <1>11 DEF Verify, Directories
  <2>4. row' = row /\ deleting' = deleting /\ op[r].kind = "commit"
    BY <1>11 DEF Verify, Holds
  <2>5. Sound(r)'
    BY <1>1, <2>2, <2>3, <2>4 DEF Sound, PublicIsWhole, UnreservedIsGone, Reserved,
       Publishing, Removing, Holds, Cleaning
  <2> QED BY <1>1, <2>1, <2>2, <2>3, <2>4, <2>5 DEF ReportsTyped
<1>12. CASE CommitPublishes(r)
  <2>1. \A q \in Reports \ {r} : /\ row'[q] = row[q] /\ store'[q] = store[q]
                              /\ op'[q] = op[q] /\ (q \in deleting' <=> q \in deleting)
    BY <1>1, <1>12 DEF CommitPublishes, Take, Release, Fenced, Done
  <2>2. ReportsTyped'
    BY <1>1, <1>12 DEF CommitPublishes, Take, Release, Free, NoDirectory, Opened, Fenced, Done,
       Holds, Cleaning, ReportsTyped, Rows, Directories, Operations
  <2>3. Sound(r)'
    BY <1>1, <1>12 DEF CommitPublishes, Take, Release, Free, NoDirectory, Opened, Fenced, Done,
       Holds, Cleaning, Writable, Reclaimable, Rows, Directories, Operations, Sound, PublicIsWhole,
       UnreservedIsGone, Reserved, Publishing, Removing
  <2> QED BY <2>1, <2>2, <2>3

<1>13. CASE RemoveFiles(r)
  <2>1. \A q \in Reports \ {r} : /\ row'[q] = row[q] /\ store'[q] = store[q]
                              /\ op'[q] = op[q] /\ (q \in deleting' <=> q \in deleting)
    BY <1>1, <1>13 DEF RemoveFiles, Take, Release, Fenced, Done
  <2>2. /\ op[r].kind \in {"delete", "maintain"} /\ row' = row /\ deleting' = deleting
    BY <1>13 DEF RemoveFiles, Cleaning, Holds
  <2>3. CASE Take(r, op[r].kind, "record", {}) /\ store' = [store EXCEPT ![r] = NoDirectory]
    <3>1. /\ op' \in [Reports -> Operations] /\ op'[r].kind = op[r].kind
      BY <1>1, <2>2, <2>3, Taken
    <3>2. store' \in [Reports -> Directories] /\ store'[r] = NoDirectory
      BY <1>1, <2>3 DEF NoDirectory, Directories
    <3>3. row[r].state = "deleted"
      BY <1>1, <2>2 DEF Sound, Removing
    <3>4. Sound(r)'
      BY <1>1, <2>2, <3>1, <3>2, <3>3 DEF Sound, PublicIsWhole, UnreservedIsGone, Reserved,
       Publishing, Removing, Holds, Cleaning
    <3> QED BY <1>1, <2>1, <2>2, <3>1, <3>2, <3>4 DEF ReportsTyped
  <2>4. CASE Release(r) /\ UNCHANGED store
    <3>1. op' \in [Reports -> Operations] /\ op'[r] = Free /\ op'[r].kind = "free"
      BY <1>1, <2>4, Released
    <3>2. Sound(r)'
      BY <1>1, <2>2, <2>4, <3>1 DEF Sound, PublicIsWhole, UnreservedIsGone, Reserved,
       Publishing, Removing, Holds, Cleaning
    <3> QED BY <1>1, <2>1, <2>2, <2>4, <3>1, <3>2 DEF ReportsTyped
  <2>5. CASE /\ Release(r) /\ store[r].present
             /\ \E left \in SUBSET store[r].files, copies \in 0..store[r].pending :
                  store' = [store EXCEPT ![r].files = left, ![r].pending = copies]
    <3>1. op' \in [Reports -> Operations] /\ op'[r] = Free /\ op'[r].kind = "free"
      BY <1>1, <2>5, Released
    <3>2. PICK left \in SUBSET store[r].files, copies \in 0..store[r].pending :
            store' = [store EXCEPT ![r].files = left, ![r].pending = copies]
      BY <2>5
    <3>3. left \subseteq Files /\ copies \in {0, 1}
      BY <1>1, <3>2 DEF Directories
    <3>4. store' \in [Reports -> Directories]
      BY <1>1, <3>2, <3>3 DEF Directories
    <3>5. row[r].state = "deleted" /\ r \in Reserved
      BY <1>1, <2>2, <2>5 DEF Sound, Removing, UnreservedIsGone, NoDirectory
    <3>6. Sound(r)'
      BY <1>1, <2>2, <3>1, <3>5 DEF Sound, PublicIsWhole, UnreservedIsGone, Reserved,
       Publishing, Removing, Holds, Cleaning
    <3> QED BY <1>1, <2>1, <2>2, <3>1, <3>4, <3>6 DEF ReportsTyped
  <2> QED BY <1>13, <2>3, <2>4, <2>5 DEF RemoveFiles, Done
<1>14. CASE RecordCleaned(r)
  <2>1. \A q \in Reports \ {r} : /\ row'[q] = row[q] /\ store'[q] = store[q]
                              /\ op'[q] = op[q] /\ (q \in deleting' <=> q \in deleting)
    BY <1>1, <1>14 DEF RecordCleaned, Take, Release, Fenced, Done
  <2>2. op' \in [Reports -> Operations] /\ op'[r] = Free /\ op'[r].kind = "free"
    BY <1>1, <1>14, Released DEF RecordCleaned, Done
  <2>3. /\ store' = store /\ store[r] = NoDirectory /\ deleting' = deleting
        /\ row[r].state = "deleted"
    BY <1>1, <1>14 DEF RecordCleaned, Sound, Removing, Cleaning, Holds
  <2>4. row' \in [Reports -> Rows] /\ row'[r].state = "deleted"
    <3>1. row' = [row EXCEPT ![r].cleaned = TRUE] \/ row' = row
      BY <1>14 DEF RecordCleaned
    <3>2. CASE row' = [row EXCEPT ![r].cleaned = TRUE]
      BY <1>1, <2>3, <3>2 DEF Rows
    <3>3. CASE row' = row
      BY <1>1, <2>3, <3>3
    <3> QED BY <3>1, <3>2, <3>3
  <2>5. Sound(r)'
    BY <1>1, <2>2, <2>3, <2>4 DEF Sound, PublicIsWhole, UnreservedIsGone, Reserved,
       Publishing, Removing, Holds, Cleaning
  <2> QED BY <1>1, <2>1, <2>2, <2>3, <2>4, <2>5 DEF ReportsTyped
<1>15. CASE DeleteCleans(r)
  <2>1. \A q \in Reports \ {r} : /\ row'[q] = row[q] /\ store'[q] = store[q]
                              /\ op'[q] = op[q] /\ (q \in deleting' <=> q \in deleting)
    BY <1>1, <1>15 DEF DeleteCleans, Take, Release, Fenced, Done
  <2>2. /\ store' = store /\ row' = row /\ row[r].state = "deleted"
        /\ deleting' = deleting \ {r}
    BY <1>1, <1>15 DEF DeleteCleans, Sound
  <2>3. CASE Take(r, "delete", "remove", {})
    <3>1. /\ op' \in [Reports -> Operations] /\ op'[r].kind = "delete" /\ op'[r].at = "remove"
      BY <1>1, <2>3, Taken
    <3>2. Sound(r)'
      BY <1>1, <2>2, <3>1 DEF Sound, PublicIsWhole, UnreservedIsGone, Reserved,
       Publishing, Removing, Holds, Cleaning
    <3> QED BY <1>1, <2>1, <2>2, <3>1, <3>2 DEF ReportsTyped
  <2>4. CASE op' = op
    <3>1. Sound(r)'
      BY <1>1, <2>2, <2>4 DEF Sound, PublicIsWhole, UnreservedIsGone, Reserved,
       Publishing, Removing, Holds, Cleaning
    <3> QED BY <1>1, <2>1, <2>2, <2>4, <3>1 DEF ReportsTyped
  <2> QED BY <1>15, <2>3, <2>4 DEF DeleteCleans
<1>16. CASE MaintainItem(r)
  <2>1. \A q \in Reports \ {r} : /\ row'[q] = row[q] /\ store'[q] = store[q]
                              /\ op'[q] = op[q] /\ (q \in deleting' <=> q \in deleting)
    BY <1>1, <1>16 DEF MaintainItem, Take, Release, Fenced, Done
  <2>2. store' = store /\ deleting' = deleting
    BY <1>16 DEF MaintainItem
  <2>3. CASE op' = op /\ row' = row
    <3>1. Sound(r)'
      BY <1>1, <2>2, <2>3 DEF Sound, PublicIsWhole, UnreservedIsGone, Reserved,
       Publishing, Removing, Holds, Cleaning
    <3> QED BY <1>1, <2>1, <2>2, <2>3, <3>1 DEF ReportsTyped
  <2>4. CASE /\ Take(r, "maintain", "remove", {}) /\ op[r] = Free /\ Reclaimable(r)
             /\ row' = IF row[r].state = "staging" THEN Fenced(r) ELSE row
    <3>1. /\ op' \in [Reports -> Operations] /\ op'[r].kind = "maintain"
          /\ op'[r].at = "remove"
      BY <1>1, <2>4, Taken
    <3>2. /\ row' \in [Reports -> Rows] /\ row'[r].state = "deleted" /\ ~row'[r].cleaned
          /\ r \in Reserved
      BY <1>1, <2>4 DEF Reclaimable, Fenced, Rows, Reserved
    <3>3. Sound(r)'
      BY <1>1, <2>2, <3>1, <3>2 DEF Sound, PublicIsWhole, UnreservedIsGone, Reserved,
       Publishing, Removing, Holds, Cleaning
    <3> QED BY <1>1, <2>1, <2>2, <3>1, <3>2, <3>3 DEF ReportsTyped
  <2> QED BY <1>16, <2>3, <2>4 DEF MaintainItem
<1> QED BY <1>2, <1>3, <1>4, <1>5, <1>6, <1>7, <1>8, <1>9, <1>10, <1>11, <1>12, <1>13, <1>14,
           <1>15, <1>16 DEF Guarded, UploadEnds

LEMMA StepReportsIInv == ReportsIInv /\ [ReportsNext]_reportsVars => ReportsIInv'
<1> SUFFICES ASSUME ReportsIInv, [ReportsNext]_reportsVars PROVE ReportsIInv'
  OBVIOUS
<1>1. CASE \E r \in Reports : \/ Create(r) \/ Expire(r) \/ CommitStart(r) \/ Delete(r)
                              \/ \E f \in Files : UploadStart(r, f)
                              \/ Guarded(r) \/ DeleteCleans(r) \/ MaintainItem(r)
  BY <1>1, StepSound
<1>2. CASE UNCHANGED <<row, store, op, deleting>>
  BY <1>2 DEF ReportsIInv, ReportsTyped, Sound, PublicIsWhole, UnreservedIsGone, Reserved,
     Publishing, Removing, Holds, Cleaning
<1>3. CASE ServerStops
  <2>1. /\ row' = row /\ store' = store /\ deleting' = {} /\ op' \in [Reports -> Operations]
        /\ \A r \in Reports : op'[r] = Free /\ op'[r].kind = "free"
    BY <1>3 DEF ServerStops, Free, Operations
  <2> QED BY <2>1 DEF ReportsIInv, ReportsTyped, Sound, PublicIsWhole, UnreservedIsGone, Reserved,
                      Publishing, Removing, Holds, Cleaning
<1> QED BY <1>1, <1>2, <1>3 DEF ReportsNext, MaintainStart, reportsVars

(* What the guard of a report protects holds of every report at every      *)
(* moment, whatever fails.                                                 *)
THEOREM ReportsInv == ReportsSpec => []ReportsIInv
BY InitReportsIInv, StepReportsIInv, PTL DEF ReportsSpec

(* The database and the file store agree at every moment: in every crash,  *)
(* a public report is whole and a report without reservation is gone.      *)
THEOREM StoreAgrees == ReportsSpec => []StoreMatches
<1>1. ReportsIInv => StoreMatches
  BY DEF ReportsIInv, Sound, StoreMatches
<1> QED BY <1>1, ReportsInv, PTL

(* How a step changes the row of a report: nothing is taken back, and only *)
(* create makes a report.                                                  *)
RowKept(q) == /\ row[q].state = "deleted" => row'[q].state = "deleted"
              /\ row[q].state = "none" => row'[q].state = "none" /\ row'[q].cleaned = row[q].cleaned
              /\ row[q].cleaned => row'[q].cleaned

LEMMA RowSteps ==
  ASSUME ReportsIInv, [ReportsNext]_reportsVars, NEW q \in Reports, ~Create(q)
  PROVE  RowKept(q)
<1>1. row \in [Reports -> Rows]
  BY DEF ReportsIInv, ReportsTyped
<1>2. CASE row' = row
  BY <1>2 DEF RowKept
<1>3. ASSUME NEW r \in Reports, Create(r) PROVE RowKept(q)
  BY <1>1, <1>3 DEF Create, RowKept, Rows
<1>4. ASSUME NEW r \in Reports, Expire(r) \/ UploadRecords(r) \/ CommitPublishes(r)
      PROVE  RowKept(q)
  <2>1. Writable(r) \/ row' = row
    BY <1>4 DEF Expire, UploadRecords, CommitPublishes
  <2>2. /\ \A p \in Reports \ {r} : row'[p] = row[p]
        /\ row'[r].cleaned = row[r].cleaned
    BY <1>1, <1>4 DEF Expire, UploadRecords, CommitPublishes, Rows
  <2> QED BY <1>1, <1>2, <2>1, <2>2 DEF Writable, RowKept
<1>5. ASSUME NEW r \in Reports, Delete(r) \/ MaintainItem(r) PROVE RowKept(q)
  <2>1. row' = row \/ (row[r].state # "none" /\ row' = Fenced(r))
    BY <1>5 DEF Delete, MaintainItem
  <2> QED BY <1>1, <1>2, <2>1 DEF Fenced, RowKept, Rows
<1>6. ASSUME NEW r \in Reports, RecordCleaned(r) PROVE RowKept(q)
  <2>1. row[r].state = "deleted"
    BY <1>6 DEF RecordCleaned, ReportsIInv, Sound, Removing, Cleaning, Holds
  <2>2. row' = row \/ row' = [row EXCEPT ![r].cleaned = TRUE]
    BY <1>6 DEF RecordCleaned
  <2> QED BY <1>1, <1>2, <2>1, <2>2 DEF RowKept, Rows
<1>7. \/ row' = row
      \/ \E r \in Reports : \/ Create(r) \/ Expire(r) \/ UploadRecords(r) \/ CommitPublishes(r)
                            \/ Delete(r) \/ MaintainItem(r) \/ RecordCleaned(r)
  BY DEF ReportsNext, reportsVars, Guarded, UploadEnds, UploadStart, CommitStart, UploadOpens,
     UploadStores, UploadFails, Verify, RemoveFiles, DeleteCleans, MaintainStart, ServerStops
<1> QED BY <1>2, <1>3, <1>4, <1>5, <1>6, <1>7

(* Deletion is final: an upload or a commit that was under way when the    *)
(* row was fenced never makes the report public again.                     *)
THEOREM DeletionFinal == ReportsSpec => DeletedStays
<1>1. ASSUME ReportsIInv, [ReportsNext]_reportsVars
      PROVE  [\A r \in Reports :
                row[r].state = "deleted" => row'[r].state = "deleted"]_reportsVars
  <2> SUFFICES ASSUME NEW q \in Reports, row[q].state = "deleted" PROVE row'[q].state = "deleted"
    OBVIOUS
  <2>1. ~Create(q)
    BY DEF Create
  <2> QED BY <1>1, <2>1, RowSteps DEF RowKept
<1> QED BY <1>1, ReportsInv, PTL DEF ReportsSpec, DeletedStays

(* The reservations never exceed the budget. *)
WithinBudget == Cardinality(Reserved) <= InstanceCount

LEMMA StepBudget == ReportsIInv /\ WithinBudget /\ [ReportsNext]_reportsVars => WithinBudget'
<1> SUFFICES ASSUME ReportsIInv, WithinBudget, [ReportsNext]_reportsVars PROVE WithinBudget'
  OBVIOUS
<1>1. IsFiniteSet(Reserved) /\ row \in [Reports -> Rows]
  BY FS_Subset, ReportsAssumption DEF Reserved, ReportsIInv, ReportsTyped
<1>2. CASE \E r \in Reports : Create(r)
  <2>1. PICK r \in Reports : Create(r)
    BY <1>2
  <2>2. Reserved' \subseteq Reserved \cup {r} /\ Cardinality(Reserved) < InstanceCount
    BY <1>1, <2>1 DEF Create, Reserved, Rows
  <2>3. /\ Cardinality(Reserved \cup {r}) <= Cardinality(Reserved) + 1
        /\ IsFiniteSet(Reserved \cup {r})
    <3>1. Cardinality(Reserved) \in Nat
      BY <1>1, FS_CardinalityType
    <3>2. /\ IsFiniteSet(Reserved \cup {r})
          /\ \/ Cardinality(Reserved \cup {r}) = Cardinality(Reserved)
             \/ Cardinality(Reserved \cup {r}) = Cardinality(Reserved) + 1
      BY <1>1, FS_AddElement
    <3> QED BY <3>1, <3>2
  <2>4. /\ Cardinality(Reserved') <= Cardinality(Reserved \cup {r})
        /\ IsFiniteSet(Reserved')
    BY <2>2, <2>3, FS_Subset
  <2>5. /\ Cardinality(Reserved) \in Nat /\ Cardinality(Reserved') \in Nat
        /\ Cardinality(Reserved \cup {r}) \in Nat
    BY <1>1, <2>3, <2>4, FS_CardinalityType
  <2> QED BY <2>2, <2>3, <2>4, <2>5, LimitsAssumption DEF WithinBudget
<1>3. CASE ~\E r \in Reports : Create(r)
  <2>1. Reserved' \subseteq Reserved
    BY <1>3, RowSteps DEF RowKept, Reserved
  <2>2. Cardinality(Reserved') <= Cardinality(Reserved) /\ IsFiniteSet(Reserved')
    BY <1>1, <2>1, FS_Subset
  <2>3. Cardinality(Reserved) \in Nat /\ Cardinality(Reserved') \in Nat
    BY <1>1, <2>2, FS_CardinalityType
  <2> QED BY <2>2, <2>3, LimitsAssumption DEF WithinBudget
<1> QED BY <1>2, <1>3

(* What is on disk never exceeds the configured number of reports, however *)
(* many clean-ups have failed.                                             *)
THEOREM DiskBounded == ReportsSpec => []DiskWithinBudget
<1>1. ReportsInit => WithinBudget
  <2> SUFFICES ASSUME ReportsInit PROVE WithinBudget
    OBVIOUS
  <2>1. Reserved = {}
    BY DEF ReportsInit, Reserved, NoRow
  <2> QED BY <2>1, FS_EmptySet, LimitsAssumption DEF WithinBudget
<1>2. ReportsIInv /\ WithinBudget => DiskWithinBudget
  <2> SUFFICES ASSUME ReportsIInv, WithinBudget PROVE DiskWithinBudget
    OBVIOUS
  <2>1. {r \in Reports : store[r].present} \subseteq Reserved
    BY DEF ReportsIInv, Sound, UnreservedIsGone, NoDirectory
  <2>2. IsFiniteSet(Reserved)
    BY FS_Subset, ReportsAssumption DEF Reserved
  <2>3. /\ Cardinality({r \in Reports : store[r].present}) <= Cardinality(Reserved)
        /\ IsFiniteSet({r \in Reports : store[r].present})
    BY <2>1, <2>2, FS_Subset
  <2> QED BY <2>2, <2>3, FS_CardinalityType, LimitsAssumption DEF WithinBudget, DiskWithinBudget
<1> QED BY <1>1, <1>2, StepBudget, InitReportsIInv, StepReportsIInv, PTL DEF ReportsSpec

-----------------------------------------------------------------------------
(* Room access *)
Grants == [access : Levels \union {"none", "absent"}, by : Actors, added : Actors,
           event : Nat, managed : BOOLEAN]
Memberships == [at : {"out", "invited", "in"}, event : Nat, sender : Actors]
Points == {"idle", "remove", "permitted", "look", "set", "save"}
Recs == [at : Points, agent : Actors, grant : Grants, command : BOOLEAN,
         revs : Nat \X Nat, seen : {"none", "out", "invited", "in"}, ok : BOOLEAN]

AskTyped(p) ==
  /\ p.by \in Actors /\ p.event \in Nat
  /\ DOMAIN p.to \subseteq Agents
  /\ \A a \in DOMAIN p.to : p.to[a] \in Levels \union {"none"}
  /\ DOMAIN p.revs = DOMAIN p.to \union (Agents \intersect {p.by})
  /\ \A a \in DOMAIN p.revs : p.revs[a] \in Nat /\ p.revs[a] <= rev[a]

Typed ==
  /\ active \subseteq Agents
  /\ rev \in [Agents -> Nat]
  /\ grant \in [Agents -> Grants]
  /\ app \in [Agents -> [current : BOOLEAN, access : BOOLEAN, joined : BOOLEAN,
                         error : BOOLEAN]]
  /\ native \in [Agents -> Memberships]
  /\ \A p \in asks : AskTyped(p)
  /\ rec \in Recs
  /\ rec.at # "idle" => rec.agent \in Agents
  /\ count \in [{"changes", "events", "faults"} -> Nat]

(* What was found when an agent asked holds while nobody's revision moves. *)
AskHolds(p) ==
  (p.by \in Agents /\ \A a \in DOMAIN p.revs : rev[a] = p.revs[a])
    => /\ p.by \in active
       /\ \A a \in DOMAIN p.to :
            Wanted(a) /\ Changes(a, p.to[a], p.event) => grant[a].added = p.by

(* What the reconciliation is about to save as a success is a success.     *)
RecHolds ==
  rec.at # "idle" =>
    /\ rec.revs[1] <= rev[rec.agent]
    /\ rec.at \in {"permitted", "look", "set"} => ~rec.ok
    /\ rec.at = "save" /\ rec.ok => rec.seen # "none"
    /\ rec.at = "save" /\ rec.ok /\ rec.seen = "in" /\ rec.revs[1] = rev[rec.agent]
         => rec.agent \in admitted

IInv == Typed /\ (\A p \in asks : AskHolds(p)) /\ RecHolds /\ EligibleWasAdmitted

-----------------------------------------------------------------------------
(* A step raises the revision of every agent whose grant or status it      *)
(* changes, and lowers none.                                               *)
Moves(a) == /\ rev'[a] >= rev[a]
            /\ rev'[a] = rev[a] => /\ grant'[a] = grant[a]
                                   /\ (a \in active') <=> (a \in active)

(* A change of authority raises the revisions it is about, and no other.   *)
LEMMA BumpRaises ==
  ASSUME Typed, NEW S, Bump(S)
  PROVE  /\ rev' \in [Agents -> Nat]
         /\ \A a \in Agents : rev'[a] >= rev[a] /\ (a \in S => rev'[a] > rev[a])
BY DEF Typed, Bump

(* Every step of the system is of that kind.                               *)
LEMMA StepMoves ==
  ASSUME Typed, [Next]_vars
  PROVE  \A a \in Agents : Moves(a)
<1> SUFFICES ASSUME NEW a \in Agents PROVE Moves(a)
  OBVIOUS
<1>1. ASSUME NEW p \in asks, Commit(p) PROVE Moves(a)
  <2> DEFINE changed == {b \in DOMAIN p.to : Changes(b, p.to[b], p.event)}
  <2>1. /\ Bump(changed) /\ active' = active
        /\ grant' = [b \in Agents |-> IF b \in changed THEN Granted(b, p) ELSE grant[b]]
    BY <1>1 DEF Commit
  <2>2. rev'[a] >= rev[a] /\ (a \in changed => rev'[a] > rev[a])
    BY <2>1, BumpRaises
  <2>3. rev[a] \in Nat /\ rev'[a] \in Nat
    BY <2>1, BumpRaises DEF Typed
  <2>4. a \notin changed => grant'[a] = grant[a]
    <3> HIDE DEF changed
    <3> QED BY <2>1
  <2> HIDE DEF changed
  <2> QED
    BY <2>1, <2>2, <2>3, <2>4 DEF Moves
<1>2. ASSUME NEW b \in Agents,
             SetPermission(b, TRUE) \/ SetPermission(b, FALSE) \/ Retire(b) \/ Restore(b)
      PROVE  Moves(a)
  BY <1>2, BumpRaises DEF SetPermission, Retire, Restore, Moves
<1>3. ASSUME UNCHANGED <<rev, grant, active>> PROVE Moves(a)
  BY <1>3 DEF Moves, Typed
<1>4. ASSUME Next, ~\E p \in asks : Commit(p),
             ~\E b \in Agents : \/ SetPermission(b, TRUE) \/ SetPermission(b, FALSE)
                                \/ Retire(b) \/ Restore(b)
      PROVE  UNCHANGED <<rev, grant, active>>
  BY <1>4 DEF Next, AskChange, Ask, Accept, Refuse, Invite, Oust, Start, RecStep, Permitted,
       Look, Set, Remove, Save, Sweeps, SweepBegins, SweepLists, SweepDecides, SweepLeaves,
       Crash, database
<1>5. CASE UNCHANGED vars
  BY <1>5, <1>3 DEF vars, database
<1> QED
  BY <1>1, <1>2, <1>3, <1>4, <1>5

-----------------------------------------------------------------------------
(* Types.                                                                  *)

(* The bounds count in the naturals.                                       *)
LEMMA Counted ==
  ASSUME Typed, NEW kind \in {"changes", "events", "faults"}, NEW max, Count(kind, max)
  PROVE  count' \in [{"changes", "events", "faults"} -> Nat]
BY DEF Typed, Count

(* A request in flight keeps its type: revisions only grow past it.        *)
LEMMA AskStays ==
  ASSUME Typed, [Next]_vars, NEW p \in asks, rev' \in [Agents -> Nat]
  PROVE  AskTyped(p)'
<1>1. \A a \in Agents : rev'[a] >= rev[a]
  BY StepMoves DEF Moves
<1>2. \A a \in DOMAIN p.revs : a \in Agents
  BY DEF Typed, AskTyped
<1>3. \A a \in DOMAIN p.revs : /\ p.revs[a] \in Nat /\ p.revs[a] <= rev[a]
                                /\ rev[a] \in Nat /\ rev'[a] \in Nat /\ rev'[a] >= rev[a]
  BY <1>1, <1>2 DEF Typed, AskTyped
<1>4. \A a \in DOMAIN p.revs : p.revs[a] \in Nat /\ p.revs[a] <= rev'[a]
  BY <1>3
<1> QED
  BY <1>4 DEF Typed, AskTyped

(* A new request carries the revisions it has read.                        *)
LEMMA NewAsk ==
  ASSUME Typed, NEW by \in Actors, NEW to, NEW event \in Nat, Ask(by, to, event),
         DOMAIN to \subseteq Agents,
         \A a \in DOMAIN to : to[a] \in Levels \union {"none"}
  PROVE  Typed'
<1> DEFINE new == [by |-> by, to |-> to, event |-> event,
                   revs |-> [a \in DOMAIN to \union (Agents \intersect {by}) |-> rev[a]]]
<1>1. asks' = asks \union {new}
  BY DEF Ask
<1>2. UNCHANGED <<active, rev, grant, app, native, rec>>
  BY DEF Ask, database
<1>3. AskTyped(new)
  BY DEF AskTyped, Typed
<1>4. \A p : AskTyped(p)' <=> AskTyped(p)
  BY <1>2 DEF AskTyped
<1>5. count' \in [{"changes", "events", "faults"} -> Nat]
  BY Counted DEF Ask, Change
<1> HIDE DEF new
<1> QED
  BY <1>1, <1>2, <1>3, <1>4, <1>5 DEF Typed

(* Every step keeps the types.                                             *)
LEMMA TypedStep ==
  ASSUME Typed, [Next]_vars
  PROVE  Typed'
<1> USE ActorsAssumption, LevelsAssumption DEF Typed
<1>1. ASSUME NEW by \in Actors, AskChange(by) PROVE Typed'
  <2>1. CASE \E a \in Agents, level \in Levels \union {"none"} :
               Ask(by, [x \in {a} |-> level], 0)
    <3>1. PICK a \in Agents, level \in Levels \union {"none"} :
                 Ask(by, [x \in {a} |-> level], 0)
      BY <2>1
    <3> QED BY <3>1, NewAsk
  <2>2. CASE \E to \in [Agents -> Levels \union {"none"}] : Ask(by, to, 0)
    BY <2>2, NewAsk
  <2> QED BY <1>1, <2>1, <2>2 DEF AskChange
<1>2. ASSUME NEW a \in Agents, Accept(a) PROVE Typed'
  <2>1. native[a].sender \in Actors /\ native[a].event \in Nat
    BY DEF Memberships
  <2>2. Ask(native[a].sender, [x \in {a} |-> "reply"], native[a].event)
    BY <1>2 DEF Accept
  <2> QED BY <2>1, <2>2, NewAsk
<1>3. ASSUME NEW p \in asks, Commit(p) PROVE Typed'
  <2> DEFINE changed == {a \in DOMAIN p.to : Changes(a, p.to[a], p.event)}
  <2>1. AskTyped(p)
    OBVIOUS
  <2>2. \A a \in changed : Granted(a, p) \in Grants
    BY <2>1 DEF AskTyped, Granted, Grants, Actors
  <2>3. grant' \in [Agents -> Grants]
    <3>1. grant' = [a \in Agents |-> IF a \in changed THEN Granted(a, p) ELSE grant[a]]
      BY <1>3 DEF Commit
    <3> HIDE DEF changed
    <3> QED BY <3>1, <2>2
  <2>4. rev' \in [Agents -> Nat]
    BY <1>3, BumpRaises DEF Commit
  <2>5. app' \in [Agents -> [current : BOOLEAN, access : BOOLEAN, joined : BOOLEAN,
                             error : BOOLEAN]]
    BY <1>3 DEF Commit
  <2>6. \A q \in asks' : AskTyped(q)'
    BY <1>3, <2>4, AskStays DEF Commit
  <2>7. UNCHANGED <<active, native, rec, count>>
    BY <1>3 DEF Commit
  <2> QED BY <2>3, <2>4, <2>5, <2>6, <2>7
<1>4. ASSUME NEW a \in Agents,
             SetPermission(a, TRUE) \/ SetPermission(a, FALSE) \/ Retire(a) \/ Restore(a)
      PROVE  Typed'
  <2>1. Bump({a}) /\ Change /\ UNCHANGED <<grant, app, native, asks, rec>>
    BY <1>4 DEF SetPermission, Retire, Restore
  <2>2. active' \subseteq Agents
    BY <1>4 DEF SetPermission, Retire, Restore
  <2>3. rev' \in [Agents -> Nat]
    BY <2>1, BumpRaises
  <2>4. \A q \in asks' : AskTyped(q)'
    BY <2>1, <2>3, AskStays
  <2>5. count' \in [{"changes", "events", "faults"} -> Nat]
    BY <2>1, Counted DEF Change
  <2> QED BY <2>1, <2>2, <2>3, <2>4, <2>5
<1>5. ASSUME UNCHANGED <<active, rev, grant>>, asks' \subseteq asks,
             app' \in [Agents -> [current : BOOLEAN, access : BOOLEAN, joined : BOOLEAN,
                                  error : BOOLEAN]],
             native' \in [Agents -> Memberships], rec' \in Recs,
             rec'.at # "idle" => rec'.agent \in Agents,
             count' \in [{"changes", "events", "faults"} -> Nat]
      PROVE  Typed'
  <2>1. \A p : AskTyped(p)' <=> AskTyped(p)
    BY <1>5 DEF AskTyped
  <2> QED BY <1>5, <2>1
<1>6. ASSUME NEW a \in Agents, NEW s \in Actors, Invite(a, s) PROVE Typed'
  <2>1. count' \in [{"changes", "events", "faults"} -> Nat]
    BY <1>6, Counted DEF Invite, Event
  <2>2. native' \in [Agents -> Memberships]
    BY <1>6 DEF Invite, Memberships
  <2> QED BY <1>6, <1>5, <2>1, <2>2 DEF Invite, database
<1>7. ASSUME NEW a \in Agents, Oust(a) PROVE Typed'
  <2>1. count' \in [{"changes", "events", "faults"} -> Nat]
    BY <1>7, Counted DEF Oust, Event
  <2>2. native' \in [Agents -> Memberships]
    BY <1>7 DEF Oust, Memberships, Outside, Actors
  <2> QED BY <1>7, <1>5, <2>1, <2>2 DEF Oust, database
<1>8. ASSUME NEW a \in Agents, Start(a) PROVE Typed'
  <2>1. grant[a] \in Grants /\ app[a] \in [current : BOOLEAN, access : BOOLEAN,
                                         joined : BOOLEAN, error : BOOLEAN]
    OBVIOUS
  <2>2. RevsOf(a, grant[a]) \in Nat \X Nat
    BY DEF RevsOf
  <2>3. rec' \in Recs /\ rec'.agent \in Agents
    BY <1>8, <2>1, <2>2 DEF Start, Recs, Points, Actors
  <2> QED BY <1>8, <1>5, <2>3 DEF Start, database
<1>9. ASSUME Fault PROVE count' \in [{"changes", "events", "faults"} -> Nat]
  BY <1>9, Counted DEF Fault
<1>10. ASSUME rec.agent \in Agents, native' = [native EXCEPT ![rec.agent] = Inside]
                                 \/ native' = Removed(rec.agent) \/ native' = native
       PROVE  native' \in [Agents -> Memberships]
  BY <1>10 DEF Removed, Memberships, Inside, Outside, Actors
<1>11. ASSUME rec.at # "idle", NEW point \in Points, Goes(point)
       PROVE  rec' \in Recs /\ (rec'.at # "idle" => rec'.agent \in Agents)
  BY <1>11 DEF Goes, Recs
<1>12. ASSUME rec.at # "idle", NEW seen \in {"none", "out", "invited", "in"},
              NEW ok \in BOOLEAN, Ends(seen, ok)
       PROVE  rec' \in Recs /\ (rec'.at # "idle" => rec'.agent \in Agents)
  BY <1>12 DEF Ends, Recs, Points
<1>13. ASSUME Permitted PROVE Typed'
  <2>1. rec' \in Recs /\ (rec'.at # "idle" => rec'.agent \in Agents)
    BY <1>13, <1>11 DEF Permitted, At, Points
  <2> QED BY <1>13, <1>5, <2>1 DEF Permitted, database
<1>14. ASSUME Look PROVE Typed'
  <2>1. rec.at # "idle" /\ rec.agent \in Agents
    BY <1>14 DEF Look, At
  <2>2. native[rec.agent].at \in {"none", "out", "invited", "in"}
    BY <2>1 DEF Memberships
  <2>3. rec' \in Recs /\ (rec'.at # "idle" => rec'.agent \in Agents)
    <3>1. CASE rec' = [rec EXCEPT !.at = "set", !.seen = native[rec.agent].at]
      BY <3>1, <2>1, <2>2 DEF Recs, Points
    <3>2. CASE Ends(native[rec.agent].at, TRUE) \/ Ends("none", FALSE)
      BY <3>2, <2>1, <2>2, <1>12
    <3> QED BY <1>14, <3>1, <3>2 DEF Look
  <2>4. count' \in [{"changes", "events", "faults"} -> Nat]
    BY <1>14, <1>9 DEF Look
  <2> QED BY <1>14, <1>5, <2>3, <2>4 DEF Look, database
<1>15. ASSUME Set PROVE Typed'
  <2>1. rec.at # "idle" /\ rec.agent \in Agents
    BY <1>15 DEF Set, At
  <2>2. native[rec.agent].at \in {"none", "out", "invited", "in"}
    BY <2>1 DEF Memberships
  <2>3. rec' \in Recs /\ (rec'.at # "idle" => rec'.agent \in Agents)
    <3>1. CASE Goes("remove")
      BY <3>1, <2>1, <1>11 DEF Points
    <3>2. CASE Ends(native[rec.agent].at, TRUE) \/ Ends("in", TRUE)
      BY <3>2, <2>1, <2>2, <1>12
    <3> QED BY <1>15, <3>1, <3>2 DEF Set
  <2>4. count' \in [{"changes", "events", "faults"} -> Nat]
    BY <1>15, <1>9 DEF Set
  <2>5. native' \in [Agents -> Memberships]
    <3> DEFINE invites == [native EXCEPT ![rec.agent] =
                             [at |-> "invited", event |-> MaxEvents + count.faults + 1,
                              sender |-> rec.grant.by]]
    <3>1. invites \in [Agents -> Memberships]
      BY <2>1, BoundsAssumption DEF Recs, Grants, Memberships
    <3>2. \/ native' = [native EXCEPT ![rec.agent] = Inside]
          \/ native' = native
          \/ native' = invites
      BY <1>15 DEF Set
    <3> QED BY <3>1, <3>2, <2>1, <1>10
  <2>6. asks' = asks /\ UNCHANGED <<active, rev, grant, app>>
    BY <1>15 DEF Set, database
  <2> QED BY <1>5, <2>3, <2>4, <2>5, <2>6
<1>16. ASSUME Remove PROVE Typed'
  <2>1. rec.at # "idle" /\ rec.agent \in Agents
    BY <1>16 DEF Remove, At
  <2>2. rec.ok \in BOOLEAN /\ rec.seen \in {"none", "out", "invited", "in"}
    BY DEF Recs
  <2>3. rec' \in Recs /\ (rec'.at # "idle" => rec'.agent \in Agents)
    <3>1. Ends("out", rec.ok) \/ Ends(rec.seen, FALSE)
      BY <1>16 DEF Remove
    <3> QED BY <3>1, <2>1, <2>2, <1>12
  <2>4. count' \in [{"changes", "events", "faults"} -> Nat]
    BY <1>16, <1>9 DEF Remove
  <2>5. native' \in [Agents -> Memberships]
    BY <1>16, <2>1, <1>10 DEF Remove
  <2> QED BY <1>16, <1>5, <2>3, <2>4, <2>5 DEF Remove, database
<1>17. NoRec \in Recs /\ NoRec.at = "idle"
  BY DEF NoRec, Recs, Points, Grants, Actors, NoGrant
<1>18. ASSUME Save PROVE Typed'
  <2>1. rec.agent \in Agents /\ rec.ok \in BOOLEAN /\ rec.seen = rec.seen
    BY <1>18 DEF Save, At, Recs
  <2>2. app' \in [Agents -> [current : BOOLEAN, access : BOOLEAN, joined : BOOLEAN,
                             error : BOOLEAN]]
    BY <1>18, <2>1 DEF Save, SaveOutcome
  <2> QED BY <1>18, <1>5, <1>17, <2>2 DEF Save
<1>19. ASSUME NEW a \in Agents, Sweeps(a) PROVE Typed'
  <2>1. count' \in [{"changes", "events", "faults"} -> Nat]
    BY <1>19, <1>9, Counted DEF Sweeps, SweepBegins, SweepLists, SweepDecides, SweepLeaves, Event
  <2>2. native' \in [Agents -> Memberships]
    BY <1>19 DEF Sweeps, SweepBegins, SweepLists, SweepDecides, SweepLeaves, Memberships,
         Outside, Actors
  <2>3. UNCHANGED <<active, rev, grant, app, asks, rec>>
    BY <1>19 DEF Sweeps, SweepBegins, SweepLists, SweepDecides, SweepLeaves, database
  <2> QED BY <1>5, <2>1, <2>2, <2>3
<1>20. ASSUME Crash PROVE Typed'
  BY <1>20, <1>5, <1>9, <1>17 DEF Crash, database
<1>21. ASSUME NEW p \in asks, Refuse(p) PROVE Typed'
  BY <1>21, <1>5 DEF Refuse, database
<1>22. CASE UNCHANGED vars
  BY <1>22, <1>5 DEF vars, database
<1> QED
  BY <1>1, <1>2, <1>3, <1>4, <1>6, <1>7, <1>8, <1>13, <1>14, <1>15, <1>16, <1>18, <1>19,
     <1>20, <1>21, <1>22 DEF Next, RecStep

-----------------------------------------------------------------------------
(* What an agent's request rests on.                                       *)

(* prepare: a new request rests on what holds now.                         *)
LEMMA NewAskHolds ==
  ASSUME Typed, NEW by \in Actors, NEW to, NEW event \in Nat, Ask(by, to, event),
         \A p \in asks : AskHolds(p)
  PROVE  \A p \in asks' : AskHolds(p)'
<1> DEFINE new == [by |-> by, to |-> to, event |-> event,
                   revs |-> [a \in DOMAIN to \union (Agents \intersect {by}) |-> rev[a]]]
<1>1. asks' = asks \union {new} /\ UNCHANGED <<active, rev, grant>>
  BY DEF Ask, database
<1>2. \A p : AskHolds(p)' <=> AskHolds(p)
  BY <1>1 DEF AskHolds, Wanted, Changes, Fresh, Differs
<1>3. AskHolds(new)
  BY DEF AskHolds, Ask, MayChange
<1> HIDE DEF new
<1> QED BY <1>1, <1>2, <1>3

(* What a request rests on is not disturbed behind its revisions.          *)
LEMMA AskHoldsStep ==
  ASSUME Typed, [Next]_vars, \A p \in asks : AskHolds(p)
  PROVE  \A p \in asks' : AskHolds(p)'
<1>1. ASSUME NEW p \in asks PROVE AskHolds(p)'
  <2> SUFFICES ASSUME p.by \in Agents, \A a \in DOMAIN p.revs : rev'[a] = p.revs[a]
               PROVE  /\ p.by \in active'
                      /\ \A a \in DOMAIN p.to :
                           (Wanted(a) /\ Changes(a, p.to[a], p.event))'
                             => grant'[a].added = p.by
    BY DEF AskHolds
  <2>1. DOMAIN p.revs = DOMAIN p.to \union {p.by} /\ DOMAIN p.revs \subseteq Agents
    BY DEF Typed, AskTyped
  <2>2. \A a \in DOMAIN p.revs : /\ p.revs[a] \in Nat /\ p.revs[a] <= rev[a]
                                  /\ rev[a] \in Nat /\ rev'[a] >= rev[a]
    BY <2>1, StepMoves DEF Typed, AskTyped, Moves
  <2>3. \A a \in DOMAIN p.revs : rev[a] = p.revs[a]
    BY <2>2
  <2>4. \A a \in DOMAIN p.revs : grant'[a] = grant[a] /\ ((a \in active') <=> (a \in active))
    BY <2>1, <2>3, StepMoves DEF Moves
  <2>5. AskHolds(p)
    OBVIOUS
  <2>6. /\ p.by \in active
        /\ \A a \in DOMAIN p.to :
             Wanted(a) /\ Changes(a, p.to[a], p.event) => grant[a].added = p.by
    BY <2>3, <2>5 DEF AskHolds
  <2> QED
    BY <2>1, <2>4, <2>6 DEF Wanted, Changes, Fresh, Differs
<1>2. CASE asks' \subseteq asks
  BY <1>1, <1>2
<1>3. ASSUME NEW by \in Actors, AskChange(by) PROVE \A p \in asks' : AskHolds(p)'
  BY <1>3, NewAskHolds DEF AskChange
<1>4. ASSUME NEW a \in Agents, Accept(a) PROVE \A p \in asks' : AskHolds(p)'
  <2>1. native[a].sender \in Actors /\ native[a].event \in Nat
    BY DEF Typed, Memberships
  <2> QED BY <1>4, <2>1, NewAskHolds DEF Accept
<1>5. ASSUME Next, ~\E by \in Actors : AskChange(by), ~\E a \in Agents : Accept(a)
      PROVE  asks' \subseteq asks
  BY <1>5 DEF Next, Commit, Refuse, SetPermission, Retire, Restore, Invite, Oust, Start,
       RecStep, Permitted, Look, Set, Remove, Save, Sweeps, SweepBegins, SweepLists,
       SweepDecides, SweepLeaves, Crash
<1>6. CASE UNCHANGED vars
  BY <1>6, <1>2 DEF vars
<1> QED
  BY <1>2, <1>3, <1>4, <1>5, <1>6

-----------------------------------------------------------------------------
(* What a reconciliation is about to save.                                 *)

(* A success to be saved is the join of the very grant that was read.      *)
LEMMA RecHoldsStep ==
  ASSUME Typed, Typed', [Next]_vars, RecHolds
  PROVE  RecHolds'
<1> DEFINE a == rec.agent
<1>1. rec.at # "idle" => /\ a \in Agents /\ rev[a] \in Nat /\ rev'[a] \in Nat
                         /\ rev'[a] >= rev[a] /\ rec.revs[1] \in Nat
  BY StepMoves DEF Typed, Moves, Recs
<1>2. ASSUME rec' = rec, admitted \ {b \in Agents : rev'[b] > rev[b]} \subseteq admitted'
      PROVE  RecHolds'
  BY <1>1, <1>2 DEF RecHolds
<1>3. ASSUME NEW p \in asks, Commit(p) PROVE RecHolds'
  <2> DEFINE changed == {b \in DOMAIN p.to : Changes(b, p.to[b], p.event)}
  <2>1. Bump(changed) /\ rec' = rec /\ admitted \ changed \subseteq admitted'
    BY <1>3 DEF Commit
  <2>2. changed \subseteq Agents
    BY DEF Typed, AskTyped
  <2> HIDE DEF changed
  <2>3. \A b \in changed : rev'[b] > rev[b]
    BY <2>1, <2>2, BumpRaises
  <2> QED BY <1>2, <2>1, <2>2, <2>3
<1>4. ASSUME NEW b \in Agents, Start(b) PROVE RecHolds'
  <2>1. /\ rec'.at \in {"remove", "permitted", "look"} /\ rec'.agent = b
        /\ rec'.at # "remove" => ~rec'.ok
        /\ rec'.revs[1] = rev[b] /\ rev'[b] = rev[b] /\ rev[b] \in Nat
    BY <1>4 DEF Start, RevsOf, Typed, database
  <2> QED BY <2>1 DEF RecHolds
<1>5. CASE Permitted
  BY <1>1, <1>5 DEF Permitted, At, Goes, RecHolds, Typed, Recs, database, history
<1>6. CASE Look
  <2>1. native[a].at \in {"out", "invited", "in"}
    BY <1>1, <1>6 DEF Look, At, Typed, Memberships
  <2>2. rev' = rev /\ admitted' = admitted
    BY <1>6 DEF Look, database, history
  <2>3. CASE rec' = [rec EXCEPT !.at = "set", !.seen = native[a].at]
    BY <1>1, <1>6, <2>2, <2>3 DEF Look, At, RecHolds, Typed, Recs
  <2>4. CASE ~In(a) /\ Ends(native[a].at, TRUE)
    BY <1>1, <1>6, <2>1, <2>2, <2>4 DEF Look, At, In, Ends, RecHolds, Typed, Recs
  <2>5. CASE Ends("none", FALSE)
    BY <1>1, <1>6, <2>2, <2>5 DEF Look, At, Ends, RecHolds, Typed, Recs
  <2> QED BY <1>6, <2>3, <2>4, <2>5 DEF Look
<1>7. CASE Set
  <2>1. native[a].at \in {"out", "invited", "in"}
    BY <1>1, <1>7 DEF Set, At, Typed, Memberships
  <2>2. rev' = rev /\ rec.at = "set"
    BY <1>7 DEF Set, At, database
  <2>3. CASE /\ Ends("in", TRUE)
             /\ admitted' = IF rev[a] = rec.revs[1] THEN admitted \union {a} ELSE admitted
    BY <1>1, <2>2, <2>3 DEF Ends, RecHolds, Typed, Recs
  <2>4. CASE ~In(a) /\ Ends(native[a].at, TRUE)
    BY <1>1, <2>1, <2>2, <2>4 DEF In, Ends, RecHolds, Typed, Recs
  <2>5. CASE Goes("remove")
    BY <1>1, <2>2, <2>5 DEF Goes, RecHolds, Typed, Recs
  <2> QED BY <1>7, <2>3, <2>4, <2>5 DEF Set
<1>8. CASE Remove
  <2>1. rev' = rev /\ rec.at = "remove"
    BY <1>8 DEF Remove, At, database
  <2>2. CASE Ends("out", rec.ok)
    BY <1>1, <2>1, <2>2 DEF Ends, RecHolds, Typed, Recs
  <2>3. CASE Ends(rec.seen, FALSE)
    BY <1>1, <2>1, <2>3 DEF Ends, RecHolds, Typed, Recs
  <2> QED BY <1>8, <2>2, <2>3 DEF Remove
<1>9. CASE Save \/ Crash
  BY <1>9 DEF Save, Crash, NoRec, RecHolds
<1>10. ASSUME NEW b \in Agents, SetPermission(b, TRUE) \/ SetPermission(b, FALSE)
                               \/ Retire(b) \/ Restore(b) \/ Oust(b) \/ Sweeps(b) \/ Accept(b)
       PROVE  RecHolds'
  BY <1>10, <1>2 DEF SetPermission, Retire, Restore, Oust, Sweeps, SweepBegins, SweepLists,
       SweepDecides, SweepLeaves, Accept, Ask, history
<1>11. ASSUME NEW p \in asks, Refuse(p) PROVE RecHolds'
  BY <1>11, <1>2 DEF Refuse, history
<1>12. ASSUME NEW by \in Actors, AskChange(by) \/ \E b \in Agents : Invite(b, by)
       PROVE  RecHolds'
  BY <1>12, <1>2 DEF AskChange, Ask, Invite, history
<1>13. CASE UNCHANGED vars
  BY <1>13, <1>2 DEF vars, history
<1> QED
  BY <1>3, <1>4, <1>5, <1>6, <1>7, <1>8, <1>9, <1>10, <1>11, <1>12, <1>13 DEF Next, RecStep

-----------------------------------------------------------------------------
(* Who is offered the room.                                                *)

(* commit renews the generation whenever it ends a membership, and a       *)
(* save is refused for another grant: no step offers a room too early.     *)
LEMMA EligibleStep ==
  ASSUME Typed, Typed', [Next]_vars, RecHolds, EligibleWasAdmitted
  PROVE  EligibleWasAdmitted'
<1>1. ASSUME UNCHANGED <<grant, app>>, admitted \subseteq admitted'
      PROVE  EligibleWasAdmitted'
  BY <1>1 DEF EligibleWasAdmitted, Eligible, Wanted
<1>2. ASSUME NEW p \in asks, Commit(p) PROVE EligibleWasAdmitted'
  <2> SUFFICES ASSUME NEW a \in Agents, Eligible(a)' PROVE a \in admitted'
    BY DEF EligibleWasAdmitted
  <2> DEFINE changed == {b \in DOMAIN p.to : Changes(b, p.to[b], p.event)}
             renewed == {b \in changed : Renews(b, p.to[b], p.event)}
  <2>1. /\ grant' = [b \in Agents |-> IF b \in changed THEN Granted(b, p) ELSE grant[b]]
        /\ app' = [b \in Agents |->
                     [app[b] EXCEPT !.current = @ /\ b \notin renewed,
                                    !.access = @ /\ ~(b \in changed /\ Differs(b, p.to[b]))]]
        /\ admitted' = admitted \ {b \in changed : Fresh(b, p.event) \/ p.to[b] = "none"}
    BY <1>2 DEF Commit
  <2>2. a \notin renewed /\ app[a].current /\ app[a].joined /\ ~app[a].error
    <3>1. app'[a] = [app[a] EXCEPT !.current = @ /\ a \notin renewed,
                                   !.access = @ /\ ~(a \in changed /\ Differs(a, p.to[a]))]
      BY <2>1
    <3>2. app[a] \in [current : BOOLEAN, access : BOOLEAN, joined : BOOLEAN, error : BOOLEAN]
      BY DEF Typed
    <3> HIDE DEF changed, renewed
    <3> QED BY <3>1, <3>2 DEF Eligible
  <2>3. CASE a \notin changed
    <3>1. grant'[a] = grant[a] /\ (a \in admitted => a \in admitted')
      <4> HIDE DEF changed
      <4> QED BY <2>1, <2>3
    <3> QED BY <2>2, <3>1 DEF EligibleWasAdmitted, Eligible, Wanted
  <2>4. CASE a \in changed
    <3>1. grant'[a].access = p.to[a]
      BY <2>1, <2>4 DEF Granted
    <3>2. p.to[a] \in Levels /\ p.to[a] # "none"
      BY <3>1, LevelsAssumption DEF Eligible, Wanted
    <3>3. Wanted(a) /\ ~Fresh(a, p.event)
      BY <2>2, <2>4, <3>2 DEF Renews
    <3> QED BY <2>1, <2>2, <3>2, <3>3 DEF EligibleWasAdmitted, Eligible
  <2> QED BY <2>3, <2>4
<1>3. CASE Save
  <2> DEFINE b == rec.agent
  <2>1. grant' = grant /\ admitted' = admitted /\ b \in Agents /\ rec.at = "save"
    BY <1>3 DEF Save, At, history, Typed
  <2>2. CASE app' = app
    BY <2>1, <2>2, <1>1
  <2>3. CASE /\ RevsOf(b, rec.grant) = rec.revs
             /\ app' = [app EXCEPT
                          ![b].joined = IF rec.seen = "none" THEN @ ELSE rec.seen = "in",
                          ![b].current = @ \/ rec.ok, ![b].access = @ \/ rec.ok,
                          ![b].error = ~rec.ok]
    <3> SUFFICES ASSUME NEW a \in Agents, Eligible(a)' PROVE a \in admitted
      BY <2>1 DEF EligibleWasAdmitted
    <3>1. CASE a # b
      <4>1. app'[a] = app[a]
        BY <2>1, <2>3, <3>1 DEF Typed
      <4> QED BY <2>1, <4>1 DEF EligibleWasAdmitted, Eligible, Wanted
    <3>2. CASE a = b
      <4>1. app'[b].error = ~rec.ok /\ (rec.seen # "none" => app'[b].joined = (rec.seen = "in"))
        BY <2>1, <2>3 DEF Typed
      <4>2. rec.ok /\ rec.seen = "in"
        BY <2>1, <3>2, <4>1 DEF Eligible, RecHolds, Typed, Recs
      <4>3. rec.revs[1] = rev[b]
        BY <2>3 DEF RevsOf
      <4> QED BY <2>1, <3>2, <4>2, <4>3 DEF RecHolds
    <3> QED BY <3>1, <3>2
  <2> QED BY <1>3, <2>2, <2>3 DEF Save, SaveOutcome
<1>4. ASSUME Next, ~Save, ~\E p \in asks : Commit(p) PROVE EligibleWasAdmitted'
  <2>1. UNCHANGED <<grant, app>> /\ admitted \subseteq admitted'
    BY <1>4 DEF Next, AskChange, Ask, Accept, Refuse, SetPermission, Retire, Restore, Invite,
         Oust, Start, RecStep, Permitted, Look, Set, Remove, Sweeps, SweepBegins, SweepLists,
         SweepDecides, SweepLeaves, Crash, database, history
  <2> QED BY <2>1, <1>1
<1>5. CASE UNCHANGED vars
  BY <1>5, <1>1 DEF vars, database, history
<1> QED
  BY <1>2, <1>3, <1>4, <1>5

-----------------------------------------------------------------------------
(* The initial states satisfy the invariant.                               *)
LEMMA IInvInit == Init => IInv
<1> USE ActorsAssumption
<1> SUFFICES ASSUME Init PROVE IInv
  OBVIOUS
<1>1. Typed
  <2>1. NoRec \in Recs /\ NoRec.at = "idle"
    BY DEF NoRec, Recs, Points, Grants, Actors, NoGrant
  <2>2. grant \in [Agents -> Grants]
    BY LevelsAssumption DEF Init, Grants, NoGrant, Actors
  <2>3. native \in [Agents -> Memberships]
    BY DEF Init, Memberships, Inside, Outside, Actors
  <2>4. app \in [Agents -> [current : BOOLEAN, access : BOOLEAN, joined : BOOLEAN,
                           error : BOOLEAN]]
    BY DEF Init, Applied, NotApplied
  <2> QED BY <2>1, <2>2, <2>3, <2>4 DEF Init, Typed
<1>2. RecHolds
  BY DEF Init, NoRec, RecHolds
<1>3. EligibleWasAdmitted
  BY DEF Init, EligibleWasAdmitted, Eligible, NotApplied
<1> QED
  BY <1>1, <1>2, <1>3 DEF Init, IInv

(* Every step preserves it.                                                *)
LEMMA IInvStep == IInv /\ [Next]_vars => IInv'
BY TypedStep, AskHoldsStep, RecHoldsStep, EligibleStep DEF IInv

(* Types, the premises of requests and reconciliations, and eligibility    *)
(* hold in every reachable state.                                          *)
THEOREM RoomInvariant == Spec => []IInv
<1> QED
  BY IInvInit, IInvStep, PTL DEF Spec

(* A room is handed to an agent's listener only when the agent has joined  *)
(* for the grant it has: delivery.rs, read, with commit and reconcile.     *)
THEOREM EligibleAdmitted == Spec => []EligibleWasAdmitted
<1>1. IInv => EligibleWasAdmitted
  BY DEF IInv
<1> QED
  BY <1>1, RoomInvariant, PTL

(* An agent's change is committed on a delegation that holds, and touches  *)
(* nobody else's addition, for any number of requests in flight: recheck.  *)
THEOREM AuthorityHolds == Spec => AgentsActOnAuthority
<1> DEFINE Act == \A p \in asks \ asks' : p.by \in Agents =>
                    \A a \in DOMAIN p.to : grant'[a] # grant[a] =>
                      /\ Delegated(p.by) /\ p.by \in active
                      /\ Wanted(a) => grant[a].added = p.by
<1>1. ASSUME IInv, [Next]_vars PROVE Act
  <2> SUFFICES ASSUME NEW p \in asks \ asks', p.by \in Agents,
                      NEW a \in DOMAIN p.to, grant'[a] # grant[a]
               PROVE  /\ Delegated(p.by) /\ p.by \in active
                      /\ Wanted(a) => grant[a].added = p.by
    OBVIOUS
  <2>0. p \in asks /\ AskTyped(p) /\ AskHolds(p)
    BY <1>1 DEF IInv, Typed
  <2>1. PICK q \in asks : Commit(q)
    <3>1. ASSUME ~\E q \in asks : Commit(q) PROVE grant' = grant
      BY <1>1, <3>1 DEF Next, AskChange, Ask, Accept, Refuse, SetPermission, Retire, Restore,
           Invite, Oust, Start, RecStep, Permitted, Look, Set, Remove, Save, Sweeps,
           SweepBegins, SweepLists, SweepDecides, SweepLeaves, Crash, database, vars
    <3> QED BY <3>1
  <2>2. q = p
    BY <2>1 DEF Commit
  <2>3. Recheck(p)
    BY <2>1, <2>2 DEF Commit
  <2>4. Changes(a, p.to[a], p.event)
    <3> DEFINE changed == {b \in DOMAIN p.to : Changes(b, p.to[b], p.event)}
    <3>1. grant' = [b \in Agents |-> IF b \in changed THEN Granted(b, p) ELSE grant[b]]
      BY <2>1, <2>2 DEF Commit
    <3>2. a \in Agents
      BY <1>1, <2>0 DEF AskTyped
    <3>3. a \in changed
      <4> HIDE DEF changed
      <4> QED BY <3>1, <3>2
    <3> QED BY <3>3
  <2> QED BY <2>0, <2>3, <2>4 DEF AskHolds, Recheck
<1>2. QED
  BY <1>1, RoomInvariant, PTL DEF Spec, AgentsActOnAuthority
=============================================================================
