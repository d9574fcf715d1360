--------------------------- MODULE LibraryTypeProofs ---------------------------
(***************************************************************************)
(* Type correctness of Library, for every value of its constants.  The     *)
(* invariant adds to LibraryTypeOK that a migration under way has a work   *)
(* and the manifest of a whole source, and what MetadataSchedulerProofs    *)
(* needs of the scheduler.                                                 *)
(***************************************************************************)
EXTENDS Library, MetadataSchedulerProofs, PathUpdateProofs

UnderWay == step \notin {"idle", "next"} => work \in Works /\ manifest \in Whole

MigrationInv == EngineTypeOK /\ UnderWay

GhostTypeOK ==
  /\ joined \subseteq Works /\ overtaken \subseteq Works /\ orphaned \subseteq Works
  /\ begun \in 0..MaxBegun /\ queued \in 0..MaxQueued

HeldTypeOK == fallback \subseteq pending /\ held \subseteq Works

LibraryInv ==
  /\ SharedTypeOK /\ MigrationInv /\ RebuildTypeOK /\ MaintenanceTypeOK
  /\ SchedulerInv /\ HeldTypeOK /\ GhostTypeOK

-----------------------------------------------------------------------------
(* Folders, rows and entries                                                *)

\* The three folders of a work.
LEMMA FolderTypes ==
  ASSUME NEW w \in Works
  PROVE  /\ Old(w) \in Folders /\ Out(w) \in Folders /\ Copying(w) \in Folders
         /\ FoldersOf(w) \subseteq Folders
         /\ NoFolder \notin Folders
BY LibraryAssumption, FolderAssumption DEF Old, Out, Copying, FoldersOf

LEMMA ReindexedEntry ==
  ASSUME SharedTypeOK, RebuildTypeOK, NEW w \in Works
  PROVE  Reindexed(w) \in Entry
<1> DEFINE c        == chosen[w]
           indexed  == [db[w] EXCEPT !.index = seen \intersect FoldersOf(w), !.item = c]
           external == [indexed EXCEPT !.status = "external", !.path = c]
           found    == [indexed EXCEPT !.status = "indexed", !.path = c]
           verified == [indexed EXCEPT !.path = c]
           missing  == [indexed EXCEPT !.status = "missing"]
<1>1. c \in Folders \union {NoFolder} /\ seen \intersect FoldersOf(w) \in SUBSET Folders
  BY FolderTypes DEF RebuildTypeOK
<1>2. db[w] \in Entry
  BY DEF SharedTypeOK
<1>3. indexed \in Entry
  BY <1>1, <1>2, EntryIs
<1>4. {external, found, verified, missing} \subseteq Entry
  <2> HIDE DEF indexed, c
  <2>1. {"external", "indexed", "missing"} \subseteq WorkStatuses
    BY DEF WorkStatuses
  <2> QED BY <1>1, <1>3, <2>1, EntryIs
<1>5. Reindexed(w) =
        IF c # NoFolder /\ db[w].status = "none" THEN external
        ELSE IF HasPending(db[w]) THEN indexed
        ELSE IF c # NoFolder /\ db[w].status \in {"external", "indexed", "prepared", "missing"}
          THEN found
        ELSE IF c # NoFolder /\ db[w].status = "verified" THEN verified
        ELSE IF /\ c = NoFolder /\ db[w].path # NoFolder /\ RootOf(db[w].path) \in Roots
                /\ db[w].status \in {"external", "indexed", "prepared", "missing", "verified"}
          THEN missing
        ELSE indexed
  BY DEF Reindexed
<1> HIDE DEF indexed, external, found, verified, missing, c
<1> QED BY <1>3, <1>4, <1>5

LEMMA RequeuedEntry ==
  ASSUME NEW e \in Entry
  PROVE  Requeued(e) \in Entry
<1> DEFINE r == [f \in DOMAIN e.rows |->
                   IF e.rows[f].status \in GivenUp
                     THEN [e.rows[f] EXCEPT !.status = "queued"] ELSE e.rows[f]]
<1>1. r \in [DOMAIN e.rows -> Row]
  BY EntryRows, RowRestated DEF RowStatuses
<1>2. r \in RowTables
  BY <1>1, EntryRows, IsRowTable
<1>3. Requeued(e) = [e EXCEPT !.rows = r]
  BY DEF Requeued
<1> HIDE DEF r
<1> QED BY <1>2, <1>3, RowsReplaced

-----------------------------------------------------------------------------
(* Migration                                                                *)

LEMMA FaultType == SharedTypeOK /\ Fault => faults' \in 0..MaxFaults
BY LibraryAssumption DEF SharedTypeOK, Fault

\* Another tree in one folder.
LEMMA DiskWrite ==
  ASSUME SharedTypeOK, NEW p \in Folders, NEW t \in Tree, disk' = [disk EXCEPT ![p] = t],
         UNCHANGED <<db, cache, running, preserved, edits>>, faults' \in 0..MaxFaults
  PROVE  SharedTypeOK'
BY DEF SharedTypeOK

\* Another entry for one work.
LEMMA EntryWrite ==
  ASSUME SharedTypeOK, NEW w \in Works, NEW e \in Entry, db' = [db EXCEPT ![w] = e],
         UNCHANGED <<disk, cache, running, preserved, bounds>>
  PROVE  SharedTypeOK'
BY DEF SharedTypeOK, bounds

LEMMA SharedStutter == SharedTypeOK /\ UNCHANGED <<shared, bounds>> => SharedTypeOK'
BY DEF SharedTypeOK, shared, bounds

LEMMA SharedFault ==
  SharedTypeOK /\ Fault /\ UNCHANGED <<shared, edits>> => SharedTypeOK'
BY FaultType DEF SharedTypeOK, shared

\* The step moves on, and the migration stays under way.
LEMMA GotoKeeps ==
  ASSUME MigrationInv, NEW s \in Steps, step \notin {"idle", "next"}, Goto(s)
  PROVE  MigrationInv'
BY DEF MigrationInv, EngineTypeOK, UnderWay, Goto

LEMMA MigrationWork ==
  ASSUME MigrationInv, step \notin {"idle", "next"}
  PROVE  /\ work \in Works /\ manifest \in Whole
         /\ Old(work) \in Folders /\ Out(work) \in Folders /\ Copying(work) \in Folders
BY FolderTypes DEF MigrationInv, UnderWay

LEMMA TreeIs == Whole \subseteq Tree /\ {"none", "partial"} \subseteq Tree
BY DEF Tree

LEMMA ManifestType ==
  ASSUME NEW p PROVE Manifest(p) \in {"none"} \union Whole
BY DEF Manifest

LEMMA ExecuteTypes ==
  ASSUME SharedTypeOK, MigrationInv, Execute
  PROVE  SharedTypeOK' /\ MigrationInv'
<1>1. SharedTypeOK'
  BY SharedStutter DEF Execute
<1>2. batch' \in [Works -> {"none"} \union Whole]
  BY ManifestType DEF Execute
<1>3. MigrationInv'
  BY <1>2 DEF Execute, MigrationInv, EngineTypeOK, UnderWay, SharedTypeOK, Steps
<1> QED BY <1>1, <1>3

LEMMA BeginTypes ==
  ASSUME SharedTypeOK, MigrationInv, NEW w \in Works, Begin(w)
  PROVE  SharedTypeOK' /\ MigrationInv'
<1>1. SharedTypeOK'
  BY SharedStutter DEF Begin
<1>2. batch[w] \in Whole /\ step = "next"
  BY DEF Begin, MigrationInv, EngineTypeOK
<1>3. MigrationInv'
  BY <1>2 DEF Begin, MigrationInv, EngineTypeOK, UnderWay, Steps
<1> QED BY <1>1, <1>3

LEMMA BatchTypes ==
  ASSUME SharedTypeOK, MigrationInv, BatchEnds \/ Snapshot \/ SnapshotFails
  PROVE  SharedTypeOK' /\ MigrationInv'
<1>1. CASE BatchEnds
  <2>1. SharedTypeOK'
    BY <1>1, SharedStutter DEF BatchEnds
  <2> QED BY <1>1, <2>1 DEF BatchEnds, MigrationInv, EngineTypeOK, UnderWay, Steps
<1>2. CASE Snapshot
  <2>1. SharedTypeOK'
    BY <1>2, SharedStutter DEF Snapshot
  <2>2. db[work] \in Entry
    BY <1>2, MigrationWork DEF Snapshot, SharedTypeOK
  <2> QED BY <1>2, <2>1, <2>2 DEF Snapshot, MigrationInv, EngineTypeOK, UnderWay, Steps
<1>3. CASE SnapshotFails
  <2>1. SharedTypeOK'
    BY <1>3, SharedFault DEF SnapshotFails
  <2> QED BY <1>3, <2>1 DEF SnapshotFails, MigrationInv, EngineTypeOK, UnderWay, Steps
<1> QED BY <1>1, <1>2, <1>3

LEMMA ChecksTypes ==
  ASSUME SharedTypeOK, MigrationInv,
         CopyFails \/ CheckStaging \/ CheckAbsent \/ CheckTarget \/ ReverseFails \/ PreserveFails
  PROVE  SharedTypeOK' /\ MigrationInv'
<1>1. SharedTypeOK'
  BY SharedStutter, SharedFault
     DEF CopyFails, CheckStaging, CheckAbsent, CheckTarget, ReverseFails, PreserveFails
<1>2. \E s \in Steps : Goto(s)
  BY DEF CopyFails, CheckStaging, CheckAbsent, CheckTarget, ReverseFails, PreserveFails, Steps
<1>3. step \notin {"idle", "next"}
  BY DEF CopyFails, CheckStaging, CheckAbsent, CheckTarget, ReverseFails, PreserveFails
<1>4. MigrationInv'
  BY <1>2, <1>3, GotoKeeps
<1> QED BY <1>1, <1>4

LEMMA CopyTypes ==
  ASSUME SharedTypeOK, MigrationInv, Copy \/ CopyEnds \/ Rename
  PROVE  SharedTypeOK' /\ MigrationInv'
<1>1. step \notin {"idle", "next"}
  BY DEF Copy, CopyEnds, Rename
<1>2. \E s \in Steps : Goto(s)
  BY DEF Copy, CopyEnds, Rename, Steps
<1>3. MigrationInv'
  BY <1>1, <1>2, GotoKeeps
<1>4. /\ Old(work) \in Folders /\ Out(work) \in Folders /\ Copying(work) \in Folders
      /\ manifest \in Whole
  BY <1>1, MigrationWork
<1>5. disk' \in [Folders -> Tree]
  BY <1>4, TreeIs DEF Copy, CopyEnds, Rename, SharedTypeOK
<1>6. UNCHANGED <<db, cache, running, preserved, edits, faults>>
  BY DEF Copy, CopyEnds, Rename, DiskOnly
<1> QED BY <1>3, <1>5, <1>6 DEF SharedTypeOK

LEMMA UpdateTypes ==
  ASSUME SharedTypeOK, MigrationInv, Update \/ Reverse
  PROVE  SharedTypeOK' /\ MigrationInv'
<1>1. step \notin {"idle", "next"}
  BY DEF Update, Reverse
<1>2. work \in Works /\ Old(work) \in Folders /\ Out(work) \in Folders
  BY <1>1, MigrationWork
<1>3. db[work] \in Entry
  BY <1>2 DEF SharedTypeOK
<1>4. /\ PathsMoved(db[work], Old(work), Out(work), Tracks) \in Entry
      /\ PathsMoved(db[work], Out(work), Old(work), Tracks) \in Entry
  BY <1>2, <1>3, MovedEntry
<1>5. /\ \/ UNCHANGED db
         \/ \E e \in Entry : db' = [db EXCEPT ![work] = e]
      /\ UNCHANGED <<disk, cache, running, preserved, bounds>>
  BY <1>4 DEF Update, Reverse
<1>6. SharedTypeOK'
  BY <1>2, <1>5, EntryWrite, SharedStutter DEF shared
<1>7. CASE Update
  <2>1. db'[work] \in Entry
    BY <1>2, <1>6 DEF SharedTypeOK
  <2>2. step' \in Steps
    BY <1>7 DEF Update, Steps
  <2>3. /\ token' = db'[work]
        /\ UNCHANGED <<batch, barred, deletes, work, manifest, done>>
    BY <1>7 DEF Update
  <2> QED BY <1>1, <1>6, <2>1, <2>2, <2>3 DEF MigrationInv, EngineTypeOK, UnderWay
<1>8. CASE Reverse
  <2>1. \E s \in Steps : Goto(s)
    BY <1>8 DEF Reverse, Steps
  <2> QED BY <1>1, <1>6, <2>1, GotoKeeps
<1> QED BY <1>7, <1>8

\* A migration ends: the step changes, the result is noted.
LEMMA FinishedKeeps ==
  ASSUME MigrationInv, step \notin {"idle", "next"}, Finished
  PROVE  MigrationInv'
BY DEF MigrationInv, EngineTypeOK, UnderWay, Finished, Steps

LEMMA RemovalTypes ==
  ASSUME SharedTypeOK, MigrationInv,
         DeleteSource \/ DeleteFails \/ Remove \/ RemoveFails
  PROVE  SharedTypeOK' /\ MigrationInv'
<1>1. step \notin {"idle", "next"}
  BY DEF DeleteSource, DeleteFails, Remove, RemoveFails
<1>2. Old(work) \in Folders /\ Out(work) \in Folders
  BY <1>1, MigrationWork
<1>3. disk' \in [Folders -> Tree]
  BY <1>2, TreeIs DEF DeleteSource, DeleteFails, Remove, RemoveFails, SharedTypeOK
<1>4. /\ UNCHANGED <<db, cache, running, preserved, edits>>
      /\ faults' \in 0..MaxFaults
  BY FaultType DEF DeleteSource, DeleteFails, Remove, RemoveFails, DiskOnly, SharedTypeOK
<1>5. Finished \/ \E s \in Steps : Goto(s)
  BY DEF DeleteSource, DeleteFails, Remove, RemoveFails, Steps
<1>6. MigrationInv'
  BY <1>1, <1>5, GotoKeeps, FinishedKeeps
<1> QED BY <1>3, <1>4, <1>6 DEF SharedTypeOK

LEMMA PreserveTypes ==
  ASSUME SharedTypeOK, MigrationInv, Preserve
  PROVE  SharedTypeOK' /\ MigrationInv'
<1>1. step \notin {"idle", "next"} /\ Finished
  BY DEF Preserve
<1>2. work \in Works
  BY <1>1, MigrationWork
<1>3. SharedTypeOK'
  BY <1>2 DEF Preserve, SharedTypeOK, bounds
<1> QED BY <1>1, <1>3, FinishedKeeps

LEMMA EndTypes ==
  ASSUME SharedTypeOK, MigrationInv, End \/ EndFails
  PROVE  SharedTypeOK' /\ MigrationInv'
<1>1. step \notin {"idle", "next"}
  BY DEF End, EndFails
<1>2. Copying(work) \in Folders
  BY <1>1, MigrationWork
<1>3. disk' \in [Folders -> Tree]
  BY <1>2, TreeIs DEF End, EndFails, SharedTypeOK
<1>4. /\ UNCHANGED <<db, cache, running, preserved, edits>>
      /\ faults' \in 0..MaxFaults
  BY FaultType DEF End, EndFails, DiskOnly, SharedTypeOK
<1>5. MigrationInv'
  BY DEF End, EndFails, MigrationInv, EngineTypeOK, UnderWay, Steps
<1> QED BY <1>3, <1>4, <1>5 DEF SharedTypeOK

LEMMA MigrateTypes ==
  ASSUME SharedTypeOK, MigrationInv, Migrate
  PROVE  SharedTypeOK' /\ MigrationInv'
BY BeginTypes, BatchTypes, ChecksTypes, CopyTypes, UpdateTypes, RemovalTypes, PreserveTypes,
   EndTypes DEF Migrate

-----------------------------------------------------------------------------
(* Rebuild and maintenance                                                  *)

LEMMA ResetTypes == Reset => RebuildTypeOK'
BY DEF Reset, RebuildTypeOK

LEMMA ScanTypes ==
  ASSUME SharedTypeOK, RebuildTypeOK,
         StartRebuild \/ ScanFails \/ CheckSeen \/ \E r \in Roots : ScanRoot(r)
  PROVE  SharedTypeOK' /\ RebuildTypeOK'
<1>1. SharedTypeOK'
  BY SharedStutter, SharedFault DEF StartRebuild, ScanFails, CheckSeen, ScanRoot, ReadOnly
<1>2. CASE Reset
  BY <1>1, <1>2, ResetTypes
<1>3. CASE ~Reset
  BY <1>1, <1>3 DEF StartRebuild, ScanFails, CheckSeen, ScanRoot, RebuildTypeOK
<1> QED BY <1>2, <1>3

LEMMA CanonicalType ==
  ASSUME NEW w \in Works PROVE Canonical(w) \subseteq Folders \union {NoFolder}
BY FolderTypes, Zenon DEF Canonical

LEMMA ChooseTypes ==
  ASSUME SharedTypeOK, RebuildTypeOK, Choose \/ Replace \/ ReplaceFails
  PROVE  SharedTypeOK' /\ RebuildTypeOK'
<1>1. CASE Choose
  <2>1. SharedTypeOK'
    BY <1>1, SharedStutter DEF Choose, ReadOnly
  <2> QED BY <1>1, <2>1 DEF Choose, RebuildTypeOK
<1>2. CASE Replace
  <2>1. db' \in [Works -> Entry]
    BY <1>2, ReindexedEntry DEF Replace
  <2>2. RebuildTypeOK'
    BY <1>2, ResetTypes DEF Replace
  <2> QED BY <1>2, <2>1, <2>2 DEF Replace, SharedTypeOK, bounds
<1>3. CASE ReplaceFails
  BY <1>3, SharedFault, ResetTypes DEF ReplaceFails
<1> QED BY <1>1, <1>2, <1>3

\* The rows given up of one work.
LEMMA GivenUpType ==
  ASSUME NEW e \in Entry
  PROVE  GivenUpRows(e) \in UNION {[files -> RowStatuses] : files \in SUBSET Tracks}
<1> DEFINE files == {f \in DOMAIN e.rows : e.rows[f].status \in GivenUp}
<1>1. files \in SUBSET Tracks
  BY EntryRows
<1>2. GivenUpRows(e) \in [files -> RowStatuses]
  BY EntryRows DEF GivenUpRows
<1> QED BY <1>1, <1>2

LEMMA NoRowsGivenUp ==
  << >> \in UNION {[files -> RowStatuses] : files \in SUBSET Tracks}
<1>1. << >> \in [{} -> RowStatuses]
  OBVIOUS
<1> QED BY <1>1

LEMMA CleanupTypes ==
  ASSUME SharedTypeOK, MaintenanceTypeOK, ClearCache \/ Cleanup
  PROVE  SharedTypeOK' /\ MaintenanceTypeOK'
<1>1. CASE ClearCache \/ PreviewCache \/ CompareCache
  <2>1. SharedTypeOK'
    BY <1>1, SharedStutter DEF ClearCache, PreviewCache, CompareCache
  <2> QED BY <1>1, <2>1
       DEF ClearCache, PreviewCache, CompareCache, MaintenanceTypeOK, Removable, backlog
<1>2. CASE DeleteCache
  BY <1>2 DEF DeleteCache, MaintenanceTypeOK, SharedTypeOK, backlog, bounds
<1> QED BY <1>1, <1>2 DEF Cleanup

LEMMA BacklogTypes ==
  ASSUME SharedTypeOK, MaintenanceTypeOK,
         SelectBacklog \/ AskReenable \/ ConfirmReenable \/ CancelReenable \/ Reenable
  PROVE  SharedTypeOK' /\ MaintenanceTypeOK'
<1> USE DEF MaintenanceTypeOK, clearing
<1>1. CASE SelectBacklog \/ AskReenable \/ ConfirmReenable \/ CancelReenable
  <2>1. SharedTypeOK'
    BY <1>1, SharedStutter
       DEF SelectBacklog, AskReenable, ConfirmReenable, CancelReenable, Answered
  <2> QED BY <1>1, <2>1
       DEF SelectBacklog, AskReenable, ConfirmReenable, CancelReenable, Answered
<1>2. CASE ReadBacklog
  <2>1. SharedTypeOK'
    BY <1>2, SharedStutter DEF ReadBacklog
  <2>2. Preimage \in [Works -> UNION {[files -> RowStatuses] : files \in SUBSET Tracks}]
    BY GivenUpType, NoRowsGivenUp DEF Preimage, SharedTypeOK
  <2> QED BY <1>2, <2>1, <2>2 DEF ReadBacklog
<1>3. CASE WriteBacklog
  <2>1. db' \in [Works -> Entry]
    BY <1>3, RequeuedEntry DEF WriteBacklog, SharedTypeOK
  <2>2. NoPreimage \in [Works -> UNION {[files -> RowStatuses] : files \in SUBSET Tracks}]
    BY NoRowsGivenUp DEF NoPreimage
  <2> QED BY <1>3, <2>1, <2>2 DEF WriteBacklog, SharedTypeOK, bounds
<1> QED BY <1>1, <1>2, <1>3 DEF Reenable

LEMMA CloseOutTypes ==
  ASSUME SharedTypeOK, MaintenanceTypeOK, NEW w \in Works, CloseOut(w)
  PROVE  SharedTypeOK' /\ MaintenanceTypeOK'
<1> DEFINE e == db[w]
           r == [f \in DOMAIN e.rows |-> [e.rows[f] EXCEPT !.status = CloseoutStatus(e, f)]]
<1>1. e \in Entry
  BY DEF SharedTypeOK
<1>2. ASSUME NEW f \in DOMAIN e.rows PROVE CloseoutStatus(e, f) \in RowStatuses
  <2>1. /\ e.rows[f].status \in RowStatuses
        /\ {"stale", "ignored"} \subseteq RowStatuses
    BY <1>1, <1>2, EntryRows DEF RowStatuses
  <2> QED BY <2>1, Zenon DEF CloseoutStatus
<1>3. r \in [DOMAIN e.rows -> Row]
  BY <1>1, <1>2, EntryRows, RowRestated
<1>4. [e EXCEPT !.rows = r] \in Entry
  BY <1>1, <1>3, EntryRows, IsRowTable, RowsReplaced
<1>5. /\ db' = [db EXCEPT ![w] = [e EXCEPT !.rows = r]]
      /\ UNCHANGED <<disk, cache, running, preserved, bounds>>
  BY DEF CloseOut
<1>6. SharedTypeOK'
  BY <1>4, <1>5, EntryWrite
<1>7. MaintenanceTypeOK'
  BY DEF CloseOut, MaintenanceTypeOK, maintenance
<1> QED BY <1>6, <1>7

-----------------------------------------------------------------------------
(* The downloader                                                           *)

LEMMA PreparedTypes ==
  ASSUME NEW w \in Works PROVE PreparedRows(w) \in RowTables
<1>1. PreparedRows(w) \in [Tracks -> Row]
  BY FolderTypes DEF PreparedRows, Row, RowStatuses
<1> QED BY <1>1, IsRowTable

LEMMA ResumedTypes ==
  ASSUME SharedTypeOK, NEW w \in Works PROVE ResumedRows(w) \in RowTables
<1> DEFINE e == db[w]
<1>1. e \in Entry
  BY DEF SharedTypeOK
<1>2. ASSUME NEW f \in DOMAIN e.rows
      PROVE  LET row == e.rows[f] IN
             /\ row \in Row
             /\ [row EXCEPT !.status = "completed"] \in Row
             /\ [at |-> IF row.at = NoFolder THEN Out(w) ELSE row.at, status |-> "queued"] \in Row
  <2>1. e.rows[f] \in Row
    BY <1>1, <1>2, EntryRows
  <2> QED BY <2>1, FolderTypes, RowRestated DEF Row, RowStatuses
<1>3. ResumedRows(w) \in [DOMAIN e.rows -> Row]
  <2> DEFINE here(f) == e.rows[f].at # NoFolder /\ disk[e.rows[f].at] \in Whole
             resumed(f) ==
               IF \/ e.rows[f].status \in GivenUp \union {"cancelled"}
                  \/ e.rows[f].status \in {"completed", "registered"} /\ here(f)
                 THEN e.rows[f]
               ELSE IF here(f) THEN [e.rows[f] EXCEPT !.status = "completed"]
               ELSE [at |-> IF e.rows[f].at = NoFolder THEN Out(w) ELSE e.rows[f].at,
                     status |-> "queued"]
  <2>1. ResumedRows(w) = [f \in DOMAIN e.rows |-> resumed(f)]
    BY DEF ResumedRows
  <2>2. ASSUME NEW f \in DOMAIN e.rows PROVE resumed(f) \in Row
    BY <1>2, <2>2, Zenon
  <2> HIDE DEF resumed
  <2> QED BY <2>1, <2>2
<1> QED BY <1>1, <1>3, EntryRows, IsRowTable

\* A write of status and rows by the downloader.
LEMMA EntryRestated ==
  ASSUME NEW e \in Entry, NEW s \in WorkStatuses, NEW r \in RowTables
  PROVE  [e EXCEPT !.rows = r, !.status = s] \in Entry
BY EntryIs

LEMMA PrepareTypes ==
  ASSUME SharedTypeOK, NEW w \in Works, Prepare(w)
  PROVE  SharedTypeOK'
<1>1. db[w] \in Entry /\ Out(w) \in Folders /\ PreparedRows(w) \in RowTables
  BY FolderTypes, PreparedTypes DEF SharedTypeOK
<1>2. [db[w] EXCEPT !.status = "prepared", !.path = Out(w), !.rows = PreparedRows(w)] \in Entry
  <2>1. "prepared" \in WorkStatuses
    BY DEF WorkStatuses
  <2> QED BY <1>1, <2>1, EntryIs
<1>3. db' \in [Works -> Entry]
  <2>1. db' = [db EXCEPT ![w] = [db[w] EXCEPT !.status = "prepared", !.path = Out(w),
                                              !.rows = PreparedRows(w)]]
    BY DEF Prepare, SharedTypeOK
  <2> QED BY <1>2, <2>1 DEF SharedTypeOK
<1>4. disk' \in [Folders -> Tree]
  BY TreeIs DEF Prepare, SharedTypeOK
<1> QED BY <1>3, <1>4 DEF Prepare, SharedTypeOK, bounds

LEMMA ResumeTypes ==
  ASSUME SharedTypeOK, NEW w \in Works, Resume(w)
  PROVE  SharedTypeOK'
<1>1. db[w] \in Entry /\ ResumedRows(w) \in RowTables
  BY ResumedTypes DEF SharedTypeOK
<1>2. PICK s \in WorkStatuses :
        db' = [db EXCEPT ![w] = [db[w] EXCEPT !.rows = ResumedRows(w), !.status = s]]
  <2>1. db[w].status \in WorkStatuses /\ {"queued", "completed"} \subseteq WorkStatuses
    BY <1>1, EntryIs DEF WorkStatuses
  <2> QED BY <2>1 DEF Resume, SharedTypeOK
<1>3. db' \in [Works -> Entry]
  BY <1>1, <1>2, EntryRestated DEF SharedTypeOK
<1> QED BY <1>3 DEF Resume, SharedTypeOK, bounds

LEMMA StopTypes ==
  ASSUME SharedTypeOK, NEW w \in Works, Stop(w)
  PROVE  SharedTypeOK'
<1> DEFINE e == db[w]
           r(end) == [f \in DOMAIN e.rows |->
             IF e.rows[f].status \in Pending THEN [e.rows[f] EXCEPT !.status = end] ELSE e.rows[f]]
<1>1. e \in Entry
  BY DEF SharedTypeOK
<1>2. PICK end \in {"paused", "failed", "cancelled"} :
        db' = [db EXCEPT ![w] = [e EXCEPT !.rows = r(end),
                                          !.status = IF end = "failed" THEN @ ELSE end]]
  BY DEF Stop, SharedTypeOK
<1>3. r(end) \in [DOMAIN e.rows -> Row]
  BY <1>1, EntryRows, RowRestated DEF RowStatuses
<1>4. r(end) \in RowTables
  BY <1>1, <1>3, EntryRows, IsRowTable
<1> HIDE DEF r
<1>5. (IF end = "failed" THEN e.status ELSE end) \in WorkStatuses
  BY <1>1, EntryIs DEF WorkStatuses
<1>6. [e EXCEPT !.rows = r(end), !.status = IF end = "failed" THEN @ ELSE end] \in Entry
  BY <1>1, <1>4, <1>5, EntryIs
<1>7. db' \in [Works -> Entry]
  BY <1>2, <1>6 DEF SharedTypeOK
<1> QED BY <1>7 DEF Stop, SharedTypeOK, bounds

LEMMA FinishTypes ==
  ASSUME SharedTypeOK, NEW w \in Works, Finish(w)
  PROVE  SharedTypeOK'
<1> DEFINE e == db[w]
           r == [f \in DOMAIN e.rows |->
             IF e.rows[f].status \in {"queued", "completed"}
               THEN [e.rows[f] EXCEPT !.status = "registered"] ELSE e.rows[f]]
<1>1. e \in Entry /\ Out(w) \in Folders
  BY FolderTypes DEF SharedTypeOK
<1>2. db' = [db EXCEPT ![w] = [e EXCEPT !.status = "completed", !.path = Out(w), !.rows = r]]
  BY DEF Finish, SharedTypeOK
<1>3. r \in [DOMAIN e.rows -> Row]
  BY <1>1, EntryRows, RowRestated DEF RowStatuses
<1>4. r \in RowTables
  BY <1>1, <1>3, EntryRows, IsRowTable
<1> HIDE DEF r
<1>5. [e EXCEPT !.status = "completed", !.path = Out(w), !.rows = r] \in Entry
  <2>1. "completed" \in WorkStatuses
    BY DEF WorkStatuses
  <2> QED BY <1>1, <1>4, <2>1, EntryIs
<1>6. db' \in [Works -> Entry]
  BY <1>2, <1>5 DEF SharedTypeOK
<1>7. disk' \in [Folders -> Tree]
  BY TreeIs DEF Finish, SharedTypeOK, Whole
<1> QED BY <1>6, <1>7 DEF Finish, SharedTypeOK, bounds

-----------------------------------------------------------------------------
(* All steps                                                                *)

LEMMA Unchanged ==
  /\ MigrationInv /\ UNCHANGED migration => MigrationInv'
  /\ RebuildTypeOK /\ UNCHANGED rebuild => RebuildTypeOK'
  /\ MaintenanceTypeOK /\ UNCHANGED maintenance => MaintenanceTypeOK'
  /\ SchedulerInv /\ UNCHANGED scheduler => SchedulerInv'
  /\ SchedulerInv /\ HeldTypeOK /\ UNCHANGED requests => SchedulerInv' /\ HeldTypeOK'
<1>1. SchedulerInv /\ UNCHANGED scheduler => SchedulerInv'
  BY SchedulerStepKeeps
<1>2. HeldTypeOK /\ UNCHANGED requests => UNCHANGED scheduler /\ HeldTypeOK'
  BY DEF requests, scheduler, HeldTypeOK
<1> QED BY <1>1, <1>2 DEF migration, MigrationInv, EngineTypeOK, UnderWay, rebuild,
                          RebuildTypeOK, maintenance, MaintenanceTypeOK

LEMMA BeginsTypes ==
  /\ GhostTypeOK /\ Begins => begun' \in 0..MaxBegun /\ queued' \in 0..MaxQueued
  /\ GhostTypeOK /\ Queues => begun' \in 0..MaxBegun /\ queued' \in 0..MaxQueued
  /\ GhostTypeOK /\ UNCHANGED counts => begun' \in 0..MaxBegun /\ queued' \in 0..MaxQueued
BY BegunAssumption DEF GhostTypeOK, Begins, Queues, counts

LEMMA ToolsKeep ==
  ASSUME LibraryInv,
         \/ MigrationStarts \/ MigrationSteps \/ RebuildStarts \/ RebuildSteps
         \/ ToolStarts \/ CleanupSteps \/ BacklogSteps
  PROVE  LibraryInv'
<1> USE DEF LibraryInv
<1>1. CASE MigrationStarts \/ MigrationSteps
  <2>1. SharedTypeOK' /\ MigrationInv'
    BY <1>1, ExecuteTypes, MigrateTypes DEF MigrationStarts, MigrationSteps
  <2>2. GhostTypeOK'
    BY <1>1, BeginsTypes DEF MigrationStarts, MigrationSteps, ghosts, GhostTypeOK
  <2> QED BY <1>1, <2>1, <2>2, Unchanged DEF MigrationStarts, MigrationSteps
<1>2. CASE RebuildStarts
  <2>1. SharedTypeOK' /\ RebuildTypeOK'
    BY <1>2, ScanTypes DEF RebuildStarts
  <2>2. GhostTypeOK'
    BY <1>2, BeginsTypes DEF RebuildStarts, ghosts, GhostTypeOK
  <2> QED BY <1>2, <2>1, <2>2, Unchanged DEF RebuildStarts
<1>3. CASE RebuildSteps
  <2>1. SharedTypeOK' /\ RebuildTypeOK'
    BY <1>3, ScanTypes, ChooseTypes DEF RebuildSteps, Rebuild
  <2>2. GhostTypeOK'
    BY <1>3, BeginsTypes DEF RebuildSteps, GhostTypeOK
  <2> QED BY <1>3, <2>1, <2>2, Unchanged DEF RebuildSteps
<1>4. CASE ToolStarts
  <2>1. SharedTypeOK' /\ MaintenanceTypeOK'
    BY <1>4, CleanupTypes, BacklogTypes DEF ToolStarts
  <2>2. GhostTypeOK'
    BY <1>4, BeginsTypes DEF ToolStarts, ghosts, GhostTypeOK
  <2> QED BY <1>4, <2>1, <2>2, Unchanged DEF ToolStarts
<1>5. CASE CleanupSteps \/ BacklogSteps
  <2>1. SharedTypeOK' /\ MaintenanceTypeOK'
    BY <1>5, CleanupTypes, BacklogTypes DEF CleanupSteps, BacklogSteps
  <2>2. GhostTypeOK'
    BY <1>5, BeginsTypes DEF CleanupSteps, BacklogSteps, ghosts, GhostTypeOK
  <2> QED BY <1>5, <2>1, <2>2, Unchanged DEF CleanupSteps, BacklogSteps
<1> QED BY <1>1, <1>2, <1>3, <1>4, <1>5

\* What a prepare_work learns from a request is about a work.
LEMMA HeldKeeps ==
  ASSUME HeldTypeOK, SchedulerTypeOK,
         \/ SchedulerSteps \/ CallerLeaves \/ \E r \in Requests : Request(r) \/ Fetched(r)
         \/ \E w \in Works : Lookup(w) \/ Prepare(w)
  PROVE  HeldTypeOK'
<1>1. \A r \in Requests : WorkOf(r) \in Works
  BY RequestAssumption DEF WorkOf
<1>2. CASE SchedulerSteps \/ CallerLeaves
  BY <1>2 DEF SchedulerSteps, CallerLeaves, HeldTypeOK
<1>3. ASSUME NEW r \in Requests, Request(r) PROVE HeldTypeOK'
  BY <1>3 DEF Request, Submit, HeldTypeOK
<1>4. ASSUME NEW r \in Requests, Fetched(r) PROVE HeldTypeOK'
  <2>1. fallback' = fallback \ {r} /\ pending' = pending \ {r}
        /\ held' \in {held, held \union {WorkOf(r)}}
    BY <1>4 DEF Fetched, Answer
  <2> QED BY <1>1, <2>1 DEF HeldTypeOK
<1>5. CASE \E w \in Works : Lookup(w) \/ Prepare(w)
  BY <1>5 DEF Lookup, Prepare, HeldTypeOK, scheduler
<1> QED BY <1>2, <1>3, <1>4, <1>5

\* A step of the scheduler, with what it may do to the cache.
LEMMA RequestsKeep ==
  ASSUME LibraryInv,
         SchedulerSteps \/ CallerLeaves \/ \E r \in Requests : Request(r) \/ Fetched(r)
  PROVE  LibraryInv'
<1> USE DEF LibraryInv
<1>1. SchedulerInv' /\ HeldTypeOK'
  <2>1. SchedulerNext
    BY DEF SchedulerSteps, CallerLeaves, Request, Fetched, SchedulerNext
  <2> QED BY <2>1, SchedulerStepKeeps, HeldKeeps DEF SchedulerInv
<1>2. UNCHANGED <<migration, rebuild, maintenance>>
  BY DEF SchedulerSteps, CallerLeaves, Request, Fetched, NoTool
<1>3. GhostTypeOK'
  <2>1. UNCHANGED <<joined, overtaken>> /\ orphaned' \subseteq orphaned
        /\ (Begins \/ UNCHANGED counts)
    BY DEF SchedulerSteps, CallerLeaves, Request, Fetched, ghosts
  <2> QED BY <2>1, BeginsTypes DEF GhostTypeOK
<1>4. SharedTypeOK'
  <2>1. CASE UNCHANGED <<shared, bounds>>
    BY <2>1, SharedStutter
  <2>2. CASE \E r \in Requests : Fetched(r)
    BY <2>2 DEF Fetched, SharedTypeOK, bounds, shared
  <2> QED BY <2>1, <2>2 DEF SchedulerSteps, CallerLeaves, Request
<1> QED BY <1>1, <1>2, <1>3, <1>4, Unchanged

LEMMA DownloadsKeep ==
  ASSUME LibraryInv, NEW w \in Works,
         Lookup(w) \/ Prepare(w) \/ Resume(w) \/ Stop(w) \/ Finish(w)
  PROVE  LibraryInv'
<1> USE DEF LibraryInv
<1>1. SharedTypeOK'
  BY PrepareTypes, ResumeTypes, StopTypes, FinishTypes, SharedStutter DEF Lookup
<1>2. UNCHANGED <<migration, rebuild, maintenance>>
  BY DEF Lookup, Prepare, Resume, Stop, Finish, NoTool
<1>3. GhostTypeOK'
  <2>1. joined' \subseteq Works /\ orphaned' \subseteq Works /\ UNCHANGED overtaken
    BY DEF Lookup, Prepare, Resume, Stop, Finish, ghosts, GhostTypeOK
  <2>2. begun' \in 0..MaxBegun /\ queued' \in 0..MaxQueued
    BY BeginsTypes DEF Lookup, Prepare, Resume, Stop, Finish
  <2> QED BY <2>1, <2>2 DEF GhostTypeOK
<1>4. SchedulerInv' /\ HeldTypeOK'
  <2>1. CASE Lookup(w) \/ Prepare(w)
    BY <2>1, HeldKeeps, Unchanged DEF Lookup, Prepare, SchedulerInv
  <2>2. CASE Resume(w) \/ Stop(w) \/ Finish(w)
    BY <2>2, Unchanged DEF Resume, Stop, Finish, NoRequest
  <2> QED BY <2>1, <2>2
<1> QED BY <1>1, <1>2, <1>3, <1>4, Unchanged

LEMMA CloseoutKeeps ==
  ASSUME LibraryInv, NEW w \in Works, CloseoutApplied(w)
  PROVE  LibraryInv'
<1> USE DEF LibraryInv
<1>1. SharedTypeOK' /\ MaintenanceTypeOK'
  BY CloseOutTypes DEF CloseoutApplied
<1>2. GhostTypeOK'
  BY BeginsTypes DEF CloseoutApplied, GhostTypeOK
<1> QED BY <1>1, <1>2, Unchanged DEF CloseoutApplied

LEMMA WorldKeeps ==
  ASSUME LibraryInv,
         \/ \E w \in Works : Expire(w)
         \/ \E p \in Folders : UserEdits(p)
  PROVE  LibraryInv'
<1> USE DEF LibraryInv
<1>1. CASE \E w \in Works : Expire(w)
  <2>1. SharedTypeOK'
    BY <1>1 DEF Expire, SharedTypeOK, bounds
  <2>2. GhostTypeOK'
    BY <1>1, BeginsTypes DEF Expire, ghosts, GhostTypeOK
  <2> QED BY <1>1, <2>1, <2>2, Unchanged DEF Expire, NoTool, NoRequest
<1>2. CASE \E p \in Folders : UserEdits(p)
  <2>1. edits' \in 0..MaxEdits
    BY <1>2, LibraryAssumption DEF UserEdits, SharedTypeOK
  <2>2. SharedTypeOK'
    BY <1>2, <2>1 DEF UserEdits, SharedTypeOK, Tree, Whole
  <2>3. GhostTypeOK'
    BY <1>2, BeginsTypes DEF UserEdits, ghosts, GhostTypeOK
  <2> QED BY <1>2, <2>2, <2>3, Unchanged DEF UserEdits, NoTool, NoRequest
<1> QED BY <1>1, <1>2

\* Nothing of the process is left: what it keeps in memory has the types it
\* began with.
LEMMA EngineInitTypes ==
  /\ EngineInit => MigrationInv
  /\ RebuildInit => RebuildTypeOK
  /\ MaintenanceInit => MaintenanceTypeOK
<1>1. NoPreimage \in [Works -> UNION {[files -> RowStatuses] : files \in SUBSET Tracks}]
  BY NoRowsGivenUp DEF NoPreimage
<1>2. MaintenanceInit => MaintenanceTypeOK
  BY <1>1 DEF MaintenanceInit, MaintenanceTypeOK
<1> QED BY <1>2 DEF EngineInit, MigrationInv, EngineTypeOK, UnderWay, Steps,
                    RebuildInit, RebuildTypeOK

LEMMA ProcessEndKeeps == LibraryInv /\ ProcessEnds => LibraryInv'
<1> SUFFICES ASSUME LibraryInv, ProcessEnds PROVE LibraryInv'
  OBVIOUS
<1> USE DEF LibraryInv
<1>1. SharedTypeOK'
  BY DEF ProcessEnds, SharedTypeOK, bounds
<1>2. MigrationInv'
  BY DEF ProcessEnds, MigrationInv, EngineTypeOK, UnderWay, Steps
<1>3. RebuildTypeOK'
  BY ResetTypes DEF ProcessEnds
<1>4. MaintenanceTypeOK'
  <2>1. NoPreimage \in [Works -> UNION {[files -> RowStatuses] : files \in SUBSET Tracks}]
    BY NoRowsGivenUp DEF NoPreimage
  <2> QED BY <2>1 DEF ProcessEnds, MaintenanceTypeOK
<1>5. SchedulerInv'
  <2>1. /\ line' = << >> /\ pending' = {} /\ active' = {}
        /\ closing' = "no" /\ workers' = 0
    BY DEF ProcessEnds
  <2>2. IsFiniteSet({}) /\ Cardinality({}) = 0
    BY FS_EmptySet
  <2>3. IsFiniteSet(active)' /\ (Cardinality(active) <= workers)'
    <3>1. Cardinality(active)' = 0 /\ IsFiniteSet(active)'
      BY <2>1, <2>2, Zenon
    <3> QED BY <2>1, <3>1
  <2> QED BY <2>1, <2>3, SlotsType
       DEF SchedulerInv, SchedulerTypeOK, NoRequestLost, Drained, OnLine
<1>6. HeldTypeOK' /\ GhostTypeOK'
  BY BeginsTypes DEF ProcessEnds, ghosts, HeldTypeOK, GhostTypeOK
<1> QED BY <1>1, <1>2, <1>3, <1>4, <1>5, <1>6

LEMMA LibraryStutters == LibraryInv /\ UNCHANGED vars => LibraryInv'
<1> SUFFICES ASSUME LibraryInv, UNCHANGED vars PROVE LibraryInv'
  OBVIOUS
<1>1. UNCHANGED <<shared, bounds, migration, rebuild, maintenance, requests, ghosts, counts>>
  BY DEF vars
<1>2. GhostTypeOK'
  BY <1>1, BeginsTypes DEF ghosts, GhostTypeOK, LibraryInv
<1> QED BY <1>1, <1>2, Unchanged, SharedStutter DEF LibraryInv

-----------------------------------------------------------------------------
(* The beginning                                                            *)

LEMMA FoundTypes == ASSUME NEW w \in Works PROVE FoundEntries(w) \subseteq Entry
<1>1. Old(w) \in Folders
  BY FolderTypes
<1> DEFINE rows(s) == [f \in Tracks |-> [at |-> Old(w), status |-> s]]
<1>2. ASSUME NEW s \in RowStatuses PROVE rows(s) \in RowTables
  <2>1. rows(s) \in [Tracks -> Row]
    BY <1>1 DEF Row
  <2> QED BY <2>1, IsRowTable
<1>3. << >> \in RowTables
  <2>1. << >> \in [{} -> Row]
    OBVIOUS
  <2> QED BY <2>1, IsRowTable
<1>4. rows("registered") \in RowTables /\ rows("stale") \in RowTables
  BY <1>2 DEF RowStatuses
<1> HIDE DEF rows
<1>5. FoundEntries(w) =
        { [status |-> "completed", path |-> Old(w), item |-> NoFolder, index |-> {},
           rows |-> rows("registered")],
          [status |-> "verified", path |-> Old(w), item |-> Old(w), index |-> {Old(w)},
           rows |-> << >>],
          [status |-> "external", path |-> Old(w), item |-> Old(w), index |-> {Old(w)},
           rows |-> << >>],
          [status |-> "completed", path |-> Old(w), item |-> NoFolder, index |-> {Old(w)},
           rows |-> rows("stale")] }
  BY DEF FoundEntries, rows
<1> QED BY <1>1, <1>3, <1>4, <1>5, EntryIs DEF WorkStatuses

LEMMA LibraryInitHolds == Init => LibraryInv
<1> SUFFICES ASSUME Init PROVE LibraryInv
  OBVIOUS
<1>1. db \in [Works -> Entry]
  <2>1. ASSUME NEW w \in Works PROVE db[w] \in Entry
    BY <2>1, FoundTypes DEF Init, SharedInit
  <2>2. db = [w \in Works |-> db[w]]
    BY DEF Init, SharedInit
  <2> QED BY <2>1, <2>2
<1>2. SharedTypeOK
  BY <1>1, LibraryAssumption DEF Init, SharedInit, SharedTypeOK, Tree, Whole
<1>3. MigrationInv /\ RebuildTypeOK /\ MaintenanceTypeOK
  BY EngineInitTypes DEF Init
<1>4. SchedulerInv
  BY SchedulerInitHolds DEF Init
<1>5. HeldTypeOK /\ GhostTypeOK
  BY BegunAssumption DEF Init, HeldTypeOK, GhostTypeOK
<1> QED BY <1>2, <1>3, <1>4, <1>5 DEF LibraryInv

LEMMA LibraryStepKeeps == LibraryInv /\ [Next]_vars => LibraryInv'
<1> SUFFICES ASSUME LibraryInv, [Next]_vars PROVE LibraryInv'
  OBVIOUS
<1>1. CASE UNCHANGED vars
  BY <1>1, LibraryStutters
<1>2. CASE Next
  BY <1>2, ToolsKeep, RequestsKeep, DownloadsKeep, CloseoutKeeps, WorldKeeps,
     ProcessEndKeeps DEF Next
<1> QED BY <1>1, <1>2

LEMMA LibraryInvariant == Spec => []LibraryInv
BY LibraryInitHolds, LibraryStepKeeps, PTL DEF Spec

\* Every step of every tool, of the downloader and of the scheduler leaves
\* tables, folders and the tools' own state well formed, for any number of
\* works, tracks, requests, failures and edits.
THEOREM LibraryTypeCorrect == Spec => []LibraryTypeOK
<1>1. LibraryInv => LibraryTypeOK
  BY DEF LibraryInv, LibraryTypeOK, MigrationInv, SchedulerInv, HeldTypeOK, GhostTypeOK
<1> QED BY <1>1, LibraryInvariant, PTL

\* No metadata request is lost while the tools run, the user leaves and the
\* process ends (submit, _worker, shutdown).
THEOREM RequestsNeverLost == Spec => []NoRequestLost
<1>1. LibraryInv => NoRequestLost
  BY DEF LibraryInv, SchedulerInv
<1> QED BY <1>1, LibraryInvariant, PTL
===============================================================================
