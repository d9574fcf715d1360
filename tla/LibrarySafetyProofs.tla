--------------------------- MODULE LibrarySafetyProofs ---------------------------
(***************************************************************************)
(* What the tools never do to a work, for every value of the constants:    *)
(* CopySurvives, SourceLeftUnused, MetadataKept, TablesNameFolder and      *)
(* SuccessVerifies.                                                        *)
(*                                                                         *)
(* The first two need to know, of each position in migrate_one, which of   *)
(* the two folders is whole, and that after the update of the tables no    *)
(* row is left in the source.  The third is inductive with the types.  The *)
(* last two follow from PlaceInv: a work that was neither joined nor       *)
(* overtaken lies, with all its rows, in one folder that is there, and     *)
(* which one that is follows from the position of its migration.           *)
(***************************************************************************)
EXTENDS LibraryTypeProofs

\* Up to the deletion, and on the way back from it, the source is whole.
SourceWhole ==
  step \in {"snapshot", "copy", "copying", "check", "absent", "rename", "recheck", "update",
            "reverse", "remove"}
    => disk[Old(work)] \in Whole

\* From the second comparison to the end of the deletion, the target is.
TargetWhole == step \in {"update", "delete", "preserve"} => disk[Out(work)] \in Whole

\* When the source is deleted the tables have left it.
TablesLeft ==
  step = "delete" =>
    /\ \A f \in DOMAIN db[work].rows : db[work].rows[f].at # Old(work)
    /\ db[work].path # Old(work) \/ work \in overtaken

WholeInv == SourceWhole /\ TargetWhole /\ CopySurvives
SafetyInv == WholeInv /\ TablesLeft

-----------------------------------------------------------------------------
(* Steps outside of the migration                                           *)

\* A step that leaves the migration and every whole folder alone.
LEMMA WholeStays ==
  ASSUME LibraryInv, WholeInv, UNCHANGED <<step, work>>,
         \A p \in Folders : disk[p] \in Whole => disk'[p] \in Whole
  PROVE  WholeInv'
<1>1. CopySurvives'
  BY FolderTypes DEF WholeInv, CopySurvives
<1>2. SourceWhole' /\ TargetWhole'
  <2>1. CASE step \in {"idle", "next"}
    BY <2>1 DEF SourceWhole, TargetWhole
  <2>2. CASE step \notin {"idle", "next"}
    <3>1. Old(work) \in Folders /\ Out(work) \in Folders
      BY <2>2, MigrationWork DEF LibraryInv
    <3>2. Old(work)' = Old(work) /\ Out(work)' = Out(work)
      BY DEF Old, Out
    <3> QED BY <3>1, <3>2 DEF WholeInv, SourceWhole, TargetWhole
  <2> QED BY <2>1, <2>2
<1> QED BY <1>1, <1>2 DEF WholeInv

\* What the downloader and the user do to folders.
LEMMA OthersKeepWhole ==
  ASSUME LibraryInv, NEW w \in Works, NEW q \in Folders,
         \/ Lookup(w) \/ Prepare(w) \/ Resume(w) \/ Stop(w) \/ Finish(w)
         \/ Expire(w) \/ CloseoutApplied(w)
         \/ UserEdits(q)
  PROVE  /\ UNCHANGED migration
         /\ \A p \in Folders : disk[p] \in Whole => disk'[p] \in Whole
<1> SUFFICES ASSUME NEW p \in Folders, disk[p] \in Whole
             PROVE  UNCHANGED migration /\ disk'[p] \in Whole
  BY DEF Lookup, Prepare, Resume, Stop, Finish, Expire, CloseoutApplied, UserEdits, NoTool
<1>1. DOMAIN disk = Folders /\ Out(w) \in Folders
  BY FolderTypes DEF LibraryInv, SharedTypeOK
<1>2. CASE Prepare(w)
  BY <1>1, <1>2 DEF Prepare, Whole, NoTool
<1>3. CASE Finish(w)
  BY <1>1, <1>3 DEF Finish, Whole, NoTool
<1>4. CASE UserEdits(q)
  BY <1>1, <1>4 DEF UserEdits, Whole, NoTool
<1>5. CASE Lookup(w) \/ Resume(w) \/ Stop(w) \/ Expire(w) \/ CloseoutApplied(w)
  BY <1>5 DEF Lookup, Resume, Stop, Expire, CloseoutApplied, CloseOut, NoTool, shared
<1> QED BY <1>2, <1>3, <1>4, <1>5

\* The tools that never touch a folder.
LEMMA ToolsKeepFolders ==
  ASSUME RebuildStarts \/ RebuildSteps \/ ToolStarts \/ CleanupSteps \/ BacklogSteps
         \/ SchedulerSteps \/ CallerLeaves \/ \E r \in Requests : Request(r) \/ Fetched(r)
  PROVE  UNCHANGED migration /\ UNCHANGED disk
<1>1. CASE RebuildStarts \/ RebuildSteps
  BY <1>1 DEF RebuildStarts, RebuildSteps, StartRebuild, Rebuild, ScanRoot, ScanFails, CheckSeen,
              Choose, Replace, ReplaceFails, ReadOnly, shared
<1>2. CASE ToolStarts
  BY <1>2 DEF ToolStarts, ClearCache, SelectBacklog, AskReenable, ConfirmReenable, CancelReenable,
              Answered, shared
<1>3. CASE CleanupSteps
  BY <1>3 DEF CleanupSteps, Cleanup, PreviewCache, CompareCache, DeleteCache, shared
<1>4. CASE BacklogSteps
  BY <1>4 DEF BacklogSteps, Reenable, ReadBacklog, WriteBacklog, shared
<1>5. CASE SchedulerSteps \/ CallerLeaves \/ \E r \in Requests : Request(r) \/ Fetched(r)
  BY <1>5 DEF SchedulerSteps, CallerLeaves, Request, Fetched, NoTool, shared
<1> QED BY <1>1, <1>2, <1>3, <1>4, <1>5

LEMMA IdleKeepsWhole ==
  ASSUME WholeInv, step' \in {"idle", "next", "end"}, UNCHANGED disk
  PROVE  WholeInv'
BY DEF WholeInv, SourceWhole, TargetWhole, CopySurvives, Old, Out

-----------------------------------------------------------------------------
(* Steps of the migration                                                   *)

LEMMA FoldersDiffer ==
  ASSUME NEW v, NEW w
  PROVE  /\ Old(w) # Out(v) /\ Old(w) # Copying(v) /\ Out(w) # Copying(v)
         /\ Old(w) = Old(v) => w = v
         /\ Out(w) = Out(v) => w = v
BY DEF Old, Out, Copying

\* While only the two folders that are the migration's own are written and the
\* source is whole, every work has a whole copy.
LEMMA SourceSuffices ==
  ASSUME LibraryInv, WholeInv, step \notin {"idle", "next"}, disk[Old(work)] \in Whole,
         \A p \in Folders \ {Out(work), Copying(work)} : disk'[p] = disk[p]
  PROVE  CopySurvives' /\ disk'[Old(work)] \in Whole
<1>1. work \in Works
  BY MigrationWork DEF LibraryInv
<1>2. disk'[Old(work)] \in Whole
  BY <1>1, FolderTypes, FoldersDiffer
<1>3. ASSUME NEW w \in Works PROVE disk'[Old(w)] \in Whole \/ disk'[Out(w)] \in Whole
  <2>1. CASE w = work
    BY <1>2, <2>1
  <2>2. CASE w # work
    <3>1. /\ disk'[Old(w)] = disk[Old(w)]
          /\ disk'[Out(w)] = disk[Out(w)]
      BY <2>2, FolderTypes, FoldersDiffer
    <3> QED BY <3>1 DEF WholeInv, CopySurvives
  <2> QED BY <2>1, <2>2
<1>4. CopySurvives'
  BY <1>3 DEF CopySurvives, Old, Out
<1> QED BY <1>2, <1>4

\* A step that only moves on inside the migration.
LEMMA GotoKeepsWhole ==
  ASSUME WholeInv, NEW s, Goto(s), UNCHANGED disk,
         s \in {"copying", "check", "absent", "rename", "recheck", "update", "reverse", "remove"}
           => disk[Old(work)] \in Whole,
         s \in {"update", "preserve", "delete"} => disk[Out(work)] \in Whole,
         s \notin {"snapshot", "copy"}
  PROVE  WholeInv'
BY DEF WholeInv, SourceWhole, TargetWhole, CopySurvives, Goto, Old, Out

LEMMA StartsKeepWhole ==
  ASSUME LibraryInv, WholeInv,
         Execute \/ BatchEnds \/ Snapshot \/ SnapshotFails \/ \E w \in Works : Begin(w)
  PROVE  WholeInv'
<1>1. UNCHANGED disk
  BY DEF Execute, BatchEnds, Snapshot, SnapshotFails, Begin, shared
<1>2. CASE Execute \/ BatchEnds \/ SnapshotFails
  BY <1>1, <1>2, IdleKeepsWhole DEF Execute, BatchEnds, SnapshotFails
<1>3. CASE Snapshot
  BY <1>1, <1>3 DEF Snapshot, WholeInv, SourceWhole, TargetWhole, CopySurvives, Old, Out
<1>4. ASSUME NEW w \in Works, Begin(w) PROVE WholeInv'
  <2>1. CASE Validated(w)
    <3>1. step' = "snapshot" /\ work' = w /\ batch[w] # "none" /\ Manifest(Old(w)) = batch[w]
      BY <1>4, <2>1 DEF Begin, Validated
    <3>2. disk[Old(w)] \in Whole
      BY <3>1 DEF Manifest
    <3> QED BY <1>1, <3>1, <3>2
         DEF WholeInv, SourceWhole, TargetWhole, CopySurvives, Old, Out
  <2>2. CASE ~Validated(w)
    BY <1>1, <1>4, <2>2 DEF Begin, WholeInv, SourceWhole, TargetWhole, CopySurvives, Old, Out
  <2> QED BY <2>1, <2>2
<1> QED BY <1>2, <1>3, <1>4

LEMMA ComparedWhole ==
  ASSUME NEW p \in Folders, manifest \in Whole, TRUE \in Compared(p)
  PROVE  disk[p] \in Whole
BY DEF Compared

LEMMA ChecksKeepWhole ==
  ASSUME LibraryInv, WholeInv,
         CheckStaging \/ CheckAbsent \/ CheckTarget \/ CopyFails \/ ReverseFails \/ PreserveFails
  PROVE  WholeInv'
<1> USE DEF WholeInv
<1>1. UNCHANGED disk
  BY DEF CheckStaging, CheckAbsent, CheckTarget, CopyFails, ReverseFails, PreserveFails, shared
<1>2. CASE CheckStaging \/ CheckAbsent
  <2>1. disk[Old(work)] \in Whole
    BY <1>2 DEF CheckStaging, CheckAbsent, SourceWhole
  <2> QED BY <1>1, <1>2, <2>1, GotoKeepsWhole DEF CheckStaging, CheckAbsent
<1>3. CASE CheckTarget
  <2>1. disk[Old(work)] \in Whole
    BY <1>3 DEF CheckTarget, SourceWhole
  <2>2. PICK same \in Compared(Out(work)) : Goto(IF same THEN "update" ELSE "remove")
    BY <1>3 DEF CheckTarget
  <2>3. Out(work) \in Folders /\ manifest \in Whole
    BY <1>3, MigrationWork DEF CheckTarget, LibraryInv
  <2>4. CASE same = TRUE
    <3>1. disk[Out(work)] \in Whole
      BY <2>2, <2>3, <2>4, ComparedWhole
    <3>2. Goto("update")
      BY <2>2, <2>4
    <3> QED BY <1>1, <2>1, <3>1, <3>2, GotoKeepsWhole
  <2>5. CASE same = FALSE
    <3>1. Goto("remove")
      BY <2>2, <2>5
    <3> QED BY <1>1, <2>1, <3>1, GotoKeepsWhole
  <2>6. same \in BOOLEAN
    BY <2>2 DEF Compared
  <2> QED BY <2>4, <2>5, <2>6
<1>4. CASE CopyFails
  <2>1. disk[Old(work)] \in Whole
    BY <1>4 DEF CopyFails, SourceWhole
  <2> QED BY <1>1, <1>4, <2>1, GotoKeepsWhole DEF CopyFails
<1>5. CASE ReverseFails \/ PreserveFails
  BY <1>1, <1>5, GotoKeepsWhole DEF ReverseFails, PreserveFails
<1> QED BY <1>2, <1>3, <1>4, <1>5

\* Copying and removing: the source is whole and stays so.
LEMMA CopyKeepsWhole ==
  ASSUME LibraryInv, WholeInv,
         Copy \/ CopyEnds \/ Rename \/ Remove \/ RemoveFails
  PROVE  WholeInv'
<1>1. step \notin {"idle", "next"} /\ disk[Old(work)] \in Whole
  BY DEF Copy, CopyEnds, Rename, Remove, RemoveFails, WholeInv, SourceWhole
<1>2. DOMAIN disk = Folders /\ DOMAIN disk' = DOMAIN disk
  BY DEF LibraryInv, SharedTypeOK, Copy, CopyEnds, Rename, Remove, RemoveFails
<1>3. \A p \in Folders \ {Out(work), Copying(work)} : disk'[p] = disk[p]
  BY <1>2 DEF Copy, CopyEnds, Rename, Remove, RemoveFails
<1>4. CopySurvives' /\ disk'[Old(work)] \in Whole
  BY <1>1, <1>3, SourceSuffices
<1>5. /\ step' \in {"copying", "check", "recheck", "remove", "end"}
      /\ UNCHANGED work
  BY DEF Copy, CopyEnds, Rename, Remove, RemoveFails, Goto
<1> QED BY <1>4, <1>5 DEF WholeInv, SourceWhole, TargetWhole, Old, Out

LEMMA UpdateKeepsWhole ==
  ASSUME LibraryInv, WholeInv, Update \/ Reverse \/ Preserve
  PROVE  WholeInv'
<1> USE DEF WholeInv
<1>1. UNCHANGED <<disk, work>>
  BY DEF Update, Reverse, Preserve, Goto, Finished
<1>2. CASE Update
  <2>1. disk[Old(work)] \in Whole /\ disk[Out(work)] \in Whole
    BY <1>2 DEF Update, SourceWhole, TargetWhole
  <2> QED BY <1>1, <2>1 DEF SourceWhole, TargetWhole, CopySurvives, Old, Out
<1>3. CASE Reverse
  <2>1. disk[Old(work)] \in Whole
    BY <1>3 DEF Reverse, SourceWhole
  <2>2. step' \in {"remove", "end"}
    BY <1>3 DEF Reverse, Goto
  <2> QED BY <1>1, <2>1, <2>2 DEF SourceWhole, TargetWhole, CopySurvives, Old, Out
<1>4. CASE Preserve
  BY <1>1, <1>4, IdleKeepsWhole DEF Preserve, Finished
<1> QED BY <1>2, <1>3, <1>4

LEMMA DeletionKeepsWhole ==
  ASSUME LibraryInv, WholeInv, DeleteSource \/ DeleteFails
  PROVE  WholeInv'
<1> USE DEF WholeInv
<1>1. /\ step = "delete" /\ disk[Out(work)] \in Whole /\ work \in Works /\ manifest \in Whole
      /\ UNCHANGED work
  BY MigrationWork DEF DeleteSource, DeleteFails, TargetWhole, LibraryInv, Finished, Goto
<1>2. PICK left : disk' = [disk EXCEPT ![Old(work)] = left]
                  /\ step' \in {"reverse", "end"} /\ (step' = "reverse" => left = manifest)
  BY DEF DeleteSource, DeleteFails, Finished, Goto
<1>3. DOMAIN disk = Folders
  BY DEF LibraryInv, SharedTypeOK
<1>4. ASSUME NEW w \in Works PROVE disk'[Old(w)] \in Whole \/ disk'[Out(w)] \in Whole
  <2>1. disk'[Out(w)] = disk[Out(w)]
    BY <1>2, <1>3, FolderTypes, FoldersDiffer
  <2>2. CASE w = work
    BY <1>1, <2>1, <2>2
  <2>3. CASE w # work
    <3>1. disk'[Old(w)] = disk[Old(w)]
      BY <1>2, <1>3, <2>3, FolderTypes, FoldersDiffer
    <3> QED BY <2>1, <3>1 DEF CopySurvives
  <2> QED BY <2>2, <2>3
<1>5. step' = "reverse" => disk'[Old(work)] \in Whole
  BY <1>1, <1>2, <1>3, FolderTypes
<1> QED BY <1>1, <1>2, <1>4, <1>5 DEF SourceWhole, TargetWhole, CopySurvives, Old, Out

LEMMA EndKeepsWhole ==
  ASSUME LibraryInv, WholeInv, End \/ EndFails
  PROVE  WholeInv'
<1>1. DOMAIN disk = Folders
  BY DEF LibraryInv, SharedTypeOK
<1>2. ASSUME NEW w \in Works
      PROVE  disk'[Old(w)] = disk[Old(w)] /\ disk'[Out(w)] = disk[Out(w)]
  BY <1>1, FolderTypes, FoldersDiffer DEF End, EndFails
<1>3. step' = "next"
  BY DEF End, EndFails
<1> QED BY <1>2, <1>3 DEF WholeInv, SourceWhole, TargetWhole, CopySurvives, Old, Out

LEMMA MigrateKeepsWhole ==
  ASSUME LibraryInv, WholeInv, Execute \/ Migrate
  PROVE  WholeInv'
BY StartsKeepWhole, ChecksKeepWhole, CopyKeepsWhole, UpdateKeepsWhole, DeletionKeepsWhole,
   EndKeepsWhole DEF Migrate

LEMMA StepKeepsWhole == LibraryInv /\ WholeInv /\ [Next]_vars => WholeInv'
<1> SUFFICES ASSUME LibraryInv, WholeInv, [Next]_vars PROVE WholeInv'
  OBVIOUS
<1>1. CASE MigrationStarts \/ MigrationSteps
  BY <1>1, MigrateKeepsWhole DEF MigrationStarts, MigrationSteps
<1>2. CASE \/ RebuildStarts \/ RebuildSteps \/ ToolStarts \/ CleanupSteps \/ BacklogSteps
           \/ SchedulerSteps \/ CallerLeaves \/ \E r \in Requests : Request(r) \/ Fetched(r)
  BY <1>2, ToolsKeepFolders, WholeStays DEF migration
<1>3. ASSUME NEW w \in Works,
             \/ Lookup(w) \/ Prepare(w) \/ Resume(w) \/ Stop(w) \/ Finish(w)
             \/ Expire(w) \/ CloseoutApplied(w)
      PROVE  WholeInv'
  BY <1>3, FolderTypes, OthersKeepWhole, WholeStays DEF migration
<1>4. ASSUME NEW p \in Folders, UserEdits(p) PROVE WholeInv'
  <2>1. UNCHANGED <<step, work>>
    BY <1>4 DEF UserEdits, NoTool, migration
  <2>2. \A q \in Folders : disk[q] \in Whole => disk'[q] \in Whole
    BY <1>4 DEF UserEdits, LibraryInv, SharedTypeOK, Whole
  <2> QED BY <2>1, <2>2, WholeStays
<1>5. CASE ProcessEnds
  BY <1>5, IdleKeepsWhole DEF ProcessEnds
<1>6. CASE UNCHANGED vars
  BY <1>6, WholeStays DEF vars, shared, migration
<1> QED BY <1>1, <1>2, <1>3, <1>4, <1>5, <1>6 DEF Next

-----------------------------------------------------------------------------
(* The tables of the work that is migrated                                  *)

\* No row of the work is in the source, and neither is the work, unless a
\* rebuild brought it back.
LeftSource(v) ==
  /\ \A f \in DOMAIN db[v].rows : db[v].rows[f].at # Old(v)
  /\ db[v].path # Old(v) \/ v \in overtaken

LEMMA UpdateLeaves ==
  ASSUME LibraryInv, Update, step' = "delete"
  PROVE  LeftSource(work)'
<1>1. work \in Works /\ UNCHANGED work
  BY MigrationWork DEF LibraryInv, Update
<1>2. db'[work] = PathsMoved(db[work], Old(work), Out(work), Tracks)
  BY <1>1 DEF Update, LibraryInv, SharedTypeOK
<1>3. db[work] \in Entry /\ Out(work) # Old(work)
  BY <1>1, FoldersDiffer DEF LibraryInv, SharedTypeOK
<1>4. db'[work].path # Old(work)
  BY <1>2, <1>3, EntryIs DEF PathsMoved
<1>5. ASSUME NEW f \in DOMAIN db'[work].rows PROVE db'[work].rows[f].at # Old(work)
  <2> DEFINE e == db[work]
  <2>1. /\ DOMAIN db'[work].rows = DOMAIN e.rows
        /\ db'[work].rows[f] =
             IF f \in MovedRows(e, Old(work), Tracks)
               THEN [e.rows[f] EXCEPT !.at = Out(work)] ELSE e.rows[f]
    BY <1>2, <1>5 DEF PathsMoved
  <2>2. f \in Tracks /\ e.rows[f] \in Row
    BY <1>3, <1>5, <2>1, EntryRows
  <2> QED BY <1>3, <2>1, <2>2 DEF MovedRows, Row
<1> QED BY <1>1, <1>4, <1>5 DEF LeftSource, Old

\* A write of one entry that leaves it out of the source.
LEMMA OneEntryLeaves ==
  ASSUME LibraryInv, NEW v \in Works, NEW w \in Works, NEW e, LeftSource(v),
         db' = [db EXCEPT ![w] = e], overtaken \subseteq overtaken',
         w = v => /\ \A f \in DOMAIN e.rows : e.rows[f].at # Old(v)
                  /\ e.path # Old(v) \/ v \in overtaken
  PROVE  LeftSource(v)'
<1>1. db'[v] = IF v = w THEN e ELSE db[v]
  BY DEF LibraryInv, SharedTypeOK
<1> QED BY <1>1 DEF LeftSource, Old

LEMMA DownloadsLeave ==
  ASSUME LibraryInv, NEW v \in Works, NEW w \in Works, LeftSource(v),
         Prepare(w) \/ Resume(w) \/ Stop(w) \/ Finish(w) \/ CloseoutApplied(w)
  PROVE  LeftSource(v)'
<1> DEFINE e == db[w]
<1>1. /\ e \in Entry /\ DOMAIN db = Works
      /\ Out(w) # Old(v)
      /\ overtaken' = overtaken
  BY FoldersDiffer
     DEF LibraryInv, SharedTypeOK, Prepare, Resume, Stop, Finish, CloseoutApplied, ghosts
<1>2. CASE Prepare(w)
  <2>1. db' = [db EXCEPT ![w] = [e EXCEPT !.status = "prepared", !.path = Out(w),
                                          !.rows = PreparedRows(w)]]
    BY <1>1, <1>2 DEF Prepare
  <2> DEFINE n == [e EXCEPT !.status = "prepared", !.path = Out(w), !.rows = PreparedRows(w)]
  <2>2. n.path = Out(w) /\ n.rows = PreparedRows(w)
    BY <1>1, EntryIs
  <2>3. \A f \in DOMAIN PreparedRows(w) : PreparedRows(w)[f].at # Old(v)
    BY <1>1 DEF PreparedRows
  <2> HIDE DEF n
  <2> QED BY <1>1, <2>1, <2>2, <2>3, OneEntryLeaves DEF n
<1>3. CASE Resume(w)
  <2>1. PICK s : db' = [db EXCEPT ![w] = [e EXCEPT !.rows = ResumedRows(w), !.status = s]]
    BY <1>1, <1>3 DEF Resume
  <2> DEFINE n == [e EXCEPT !.rows = ResumedRows(w), !.status = s]
  <2>2. n.path = e.path /\ n.rows = ResumedRows(w)
    BY <1>1, EntryIs
  <2>3. ASSUME NEW f \in DOMAIN e.rows PROVE ResumedRows(w)[f].at \in {e.rows[f].at, Out(w)}
    <3>1. e.rows[f] \in Row
      BY <1>1, <2>3, EntryRows
    <3> DEFINE here == e.rows[f].at # NoFolder /\ disk[e.rows[f].at] \in Whole
               r == IF \/ e.rows[f].status \in GivenUp \union {"cancelled"}
                       \/ e.rows[f].status \in {"completed", "registered"} /\ here
                      THEN e.rows[f]
                    ELSE IF here THEN [e.rows[f] EXCEPT !.status = "completed"]
                    ELSE [at |-> IF e.rows[f].at = NoFolder THEN Out(w) ELSE e.rows[f].at,
                          status |-> "queued"]
    <3>2. ResumedRows(w)[f] = r
      BY <2>3 DEF ResumedRows
    <3>3. r.at \in {e.rows[f].at, Out(w)}
      BY <3>1 DEF Row
    <3> HIDE DEF r
    <3> QED BY <3>2, <3>3
  <2>4. DOMAIN ResumedRows(w) = DOMAIN e.rows
    BY DEF ResumedRows
  <2>5. w = v => /\ \A f \in DOMAIN n.rows : n.rows[f].at # Old(v)
                 /\ n.path # Old(v) \/ v \in overtaken
    <3> HIDE DEF n
    <3> QED BY <1>1, <2>2, <2>3, <2>4 DEF LeftSource
  <2> HIDE DEF n
  <2> QED BY <1>1, <2>1, <2>5, OneEntryLeaves DEF n
<1>4. CASE Stop(w)
  <2>1. PICK end \in {"paused", "failed", "cancelled"} :
          db' = [db EXCEPT ![w] = [e EXCEPT !.rows = [f \in DOMAIN e.rows |->
                   IF e.rows[f].status \in Pending THEN [e.rows[f] EXCEPT !.status = end]
                   ELSE e.rows[f]], !.status = IF end = "failed" THEN @ ELSE end]]
    BY <1>1, <1>4 DEF Stop
  <2> DEFINE s == IF end = "failed" THEN e.status ELSE end
             r == [f \in DOMAIN e.rows |->
                     IF e.rows[f].status \in Pending THEN [e.rows[f] EXCEPT !.status = end]
                     ELSE e.rows[f]]
             n == [e EXCEPT !.rows = r, !.status = s]
  <2>0. db' = [db EXCEPT ![w] = n]
    BY <2>1, <1>1, EntryIs
  <2>2. \A f \in DOMAIN e.rows : e.rows[f] \in Row
    BY <1>1, EntryRows
  <2>3. DOMAIN r = DOMAIN e.rows /\ \A f \in DOMAIN e.rows : r[f].at = e.rows[f].at
    BY <2>2 DEF Row
  <2> HIDE DEF r
  <2>4. n.path = e.path /\ n.rows = r
    BY <1>1, EntryIs
  <2> HIDE DEF n
  <2>5. w = v => /\ \A f \in DOMAIN n.rows : n.rows[f].at # Old(v)
                 /\ n.path # Old(v) \/ v \in overtaken
    BY <2>3, <2>4 DEF LeftSource
  <2> QED BY <1>1, <2>0, <2>5, OneEntryLeaves
<1>5. CASE Finish(w)
  <2> DEFINE r == [f \in DOMAIN e.rows |->
                     IF e.rows[f].status \in {"queued", "completed"}
                       THEN [e.rows[f] EXCEPT !.status = "registered"] ELSE e.rows[f]]
             n == [e EXCEPT !.status = "completed", !.path = Out(w), !.rows = r]
  <2>1. db' = [db EXCEPT ![w] = n]
    BY <1>1, <1>5 DEF Finish
  <2>2. \A f \in DOMAIN e.rows : e.rows[f] \in Row
    BY <1>1, EntryRows
  <2>3. DOMAIN r = DOMAIN e.rows /\ \A f \in DOMAIN e.rows : r[f].at = e.rows[f].at
    BY <2>2 DEF Row
  <2> HIDE DEF r
  <2>4. n.path = Out(w) /\ n.rows = r
    BY <1>1, EntryIs
  <2> HIDE DEF n
  <2>5. w = v => /\ \A f \in DOMAIN n.rows : n.rows[f].at # Old(v)
                 /\ n.path # Old(v) \/ v \in overtaken
    BY <1>1, <2>3, <2>4 DEF LeftSource
  <2> QED BY <1>1, <2>1, <2>5, OneEntryLeaves
<1>6. CASE CloseoutApplied(w)
  <2> DEFINE r == [f \in DOMAIN e.rows |-> [e.rows[f] EXCEPT !.status = CloseoutStatus(e, f)]]
             n == [e EXCEPT !.rows = r]
  <2>1. db' = [db EXCEPT ![w] = n]
    BY <1>1, <1>6 DEF CloseoutApplied, CloseOut
  <2>2. \A f \in DOMAIN e.rows : e.rows[f] \in Row
    BY <1>1, EntryRows
  <2>3. DOMAIN r = DOMAIN e.rows /\ \A f \in DOMAIN e.rows : r[f].at = e.rows[f].at
    BY <2>2 DEF Row
  <2> HIDE DEF r
  <2>4. n.path = e.path /\ n.rows = r
    BY <1>1, EntryIs
  <2> HIDE DEF n
  <2>5. w = v => /\ \A f \in DOMAIN n.rows : n.rows[f].at # Old(v)
                 /\ n.path # Old(v) \/ v \in overtaken
    BY <2>3, <2>4 DEF LeftSource
  <2> QED BY <1>1, <2>1, <2>5, OneEntryLeaves
<1> QED BY <1>2, <1>3, <1>4, <1>5, <1>6

\* A rebuild leaves the rows of downloads alone and lists what it found.
LEMMA ReindexedRows ==
  ASSUME LibraryInv, NEW w \in Works
  PROVE  /\ Reindexed(w).rows = db[w].rows
         /\ Reindexed(w).index = seen \intersect FoldersOf(w)
<1> DEFINE c        == chosen[w]
           indexed  == [db[w] EXCEPT !.index = seen \intersect FoldersOf(w), !.item = c]
           external == [indexed EXCEPT !.status = "external", !.path = c]
           found    == [indexed EXCEPT !.status = "indexed", !.path = c]
           verified == [indexed EXCEPT !.path = c]
           missing  == [indexed EXCEPT !.status = "missing"]
<1>1. db[w] \in Entry
  BY DEF LibraryInv, SharedTypeOK
<1>2. \A n \in {indexed, external, found, verified, missing} :
        n.rows = db[w].rows /\ n.index = seen \intersect FoldersOf(w)
  BY <1>1, EntryIs
<1>3. Reindexed(w) \in {indexed, external, found, verified, missing}
  <2>1. Reindexed(w) =
          IF c # NoFolder /\ db[w].status = "none" THEN external
          ELSE IF HasPending(db[w]) THEN indexed
          ELSE IF c # NoFolder /\ db[w].status \in {"external", "indexed", "prepared", "missing"}
            THEN found
          ELSE IF c # NoFolder /\ db[w].status = "verified" THEN verified
          ELSE IF /\ c = NoFolder /\ db[w].path # NoFolder /\ RootOf(db[w].path) \in Roots
                  /\ db[w].status \in {"external", "indexed", "prepared", "missing", "verified"}
            THEN missing
          ELSE indexed
    BY DEF Reindexed
  <2> HIDE DEF indexed, external, found, verified, missing, c
  <2> QED BY <2>1
<1> HIDE DEF indexed, external, found, verified, missing, c
<1> QED BY <1>2, <1>3

\* A rebuild never writes the folder of a row, and says whom it overtook.
LEMMA RebuildLeaves ==
  ASSUME LibraryInv, NEW v \in Works, LeftSource(v), BeingMigrated(v), RebuildSteps
  PROVE  LeftSource(v)'
<1>1. CASE Replace
  <2>1. db'[v] = Reindexed(v)
    BY <1>1 DEF Replace
  <2>2. Reindexed(v).rows = db[v].rows
    BY ReindexedRows
  <2>3. db' = db \/ v \in overtaken'
    BY <1>1 DEF RebuildSteps, Replace
  <2>4. overtaken \subseteq overtaken'
    BY DEF RebuildSteps
  <2> QED BY <2>1, <2>2, <2>3, <2>4 DEF LeftSource, Old
<1>2. CASE ~Replace
  <2>1. db' = db /\ overtaken \subseteq overtaken'
    BY <1>2 DEF RebuildSteps, Rebuild, ScanRoot, ScanFails, CheckSeen, Choose, ReplaceFails,
                ReadOnly, shared
  <2> QED BY <2>1 DEF LeftSource, Old
<1> QED BY <1>1, <1>2

LEMMA BacklogLeaves ==
  ASSUME LibraryInv, NEW v \in Works, LeftSource(v), BacklogSteps
  PROVE  LeftSource(v)'
<1>1. overtaken' = overtaken
  BY DEF BacklogSteps, ghosts
<1>2. CASE db'[v] = db[v]
  BY <1>1, <1>2 DEF LeftSource, Old
<1>3. CASE db'[v] = Requeued(db[v])
  <2> DEFINE e == db[v]
             r == [f \in DOMAIN e.rows |->
                     IF e.rows[f].status \in GivenUp
                       THEN [e.rows[f] EXCEPT !.status = "queued"] ELSE e.rows[f]]
  <2>1. e \in Entry
    BY DEF LibraryInv, SharedTypeOK
  <2>2. \A f \in DOMAIN e.rows : e.rows[f] \in Row
    BY <2>1, EntryRows
  <2>3. DOMAIN r = DOMAIN e.rows /\ \A f \in DOMAIN e.rows : r[f].at = e.rows[f].at
    BY <2>2 DEF Row
  <2>4. Requeued(e) = [e EXCEPT !.rows = r]
    BY DEF Requeued
  <2> HIDE DEF r
  <2>5. db'[v].path = e.path /\ db'[v].rows = r
    BY <1>3, <2>1, <2>4, EntryIs
  <2> QED BY <1>1, <2>3, <2>5 DEF LeftSource, Old
<1>4. db'[v] = db[v] \/ db'[v] = Requeued(db[v])
  BY DEF BacklogSteps, Reenable, ReadBacklog, WriteBacklog, LibraryInv, SharedTypeOK, shared
<1> QED BY <1>2, <1>3, <1>4

LEMMA StepKeepsTables == LibraryInv /\ TablesLeft /\ [Next]_vars => TablesLeft'
<1> SUFFICES ASSUME LibraryInv, TablesLeft, [Next]_vars, step' = "delete"
             PROVE  LeftSource(work)'
  BY DEF TablesLeft, LeftSource, Old
<1>1. CASE Update
  BY <1>1, UpdateLeaves
<1>2. CASE ~Update
  <2>1. /\ UNCHANGED <<step, work>>
        /\ ~MigrationStarts /\ ~MigrationSteps /\ ~ProcessEnds
    <3>1. ~MigrationStarts /\ ~MigrationSteps /\ ~ProcessEnds
      BY <1>2 DEF MigrationStarts, MigrationSteps, ProcessEnds, Execute, Migrate, Begin, BatchEnds,
        Snapshot, SnapshotFails, Copy, CopyEnds, CopyFails, CheckStaging, CheckAbsent, Rename,
        CheckTarget, DeleteSource, DeleteFails, Reverse, ReverseFails, Preserve, PreserveFails,
        Remove, RemoveFails, End, EndFails, Goto, Finished
    <3>2. ASSUME NEW w \in Works,
                 \/ Lookup(w) \/ Prepare(w) \/ Resume(w) \/ Stop(w) \/ Finish(w)
                 \/ Expire(w) \/ CloseoutApplied(w)
          PROVE  UNCHANGED migration
      BY <3>2 DEF Lookup, Prepare, Resume, Stop, Finish, Expire, CloseoutApplied, NoTool
    <3>3. ASSUME NEW p \in Folders, UserEdits(p) PROVE UNCHANGED migration
      BY <3>3 DEF UserEdits, NoTool
    <3>4. UNCHANGED vars => UNCHANGED migration
      BY DEF vars
    <3>5. UNCHANGED migration
      BY <3>1, <3>2, <3>3, <3>4, ToolsKeepFolders DEF Next
    <3> QED BY <3>1, <3>5 DEF migration
  <2>2. step = "delete" /\ work \in Works /\ BeingMigrated(work)
    BY <2>1, MigrationWork DEF LibraryInv, BeingMigrated
  <2>3. LeftSource(work)
    BY <2>2 DEF TablesLeft, LeftSource
  <2>4. ASSUME NEW v \in Works, v = work, LeftSource(v)' PROVE LeftSource(work)'
    BY <2>1, <2>4 DEF LeftSource, Old
  <2>5. CASE RebuildSteps
    BY <2>2, <2>3, <2>4, <2>5, RebuildLeaves
  <2>6. CASE BacklogSteps
    BY <2>2, <2>3, <2>4, <2>6, BacklogLeaves
  <2>7. ASSUME NEW w \in Works,
               Prepare(w) \/ Resume(w) \/ Stop(w) \/ Finish(w) \/ CloseoutApplied(w)
        PROVE  LeftSource(work)'
    BY <2>2, <2>3, <2>4, <2>7, DownloadsLeave
  <2>8. CASE UNCHANGED <<db, overtaken>>
    BY <2>1, <2>3, <2>8 DEF LeftSource, Old
  <2>9. CASE \/ RebuildStarts \/ ToolStarts \/ CleanupSteps \/ SchedulerSteps \/ CallerLeaves
             \/ (\E r \in Requests : Request(r) \/ Fetched(r))
             \/ (\E w \in Works : Lookup(w) \/ Expire(w)) \/ (\E p \in Folders : UserEdits(p))
             \/ UNCHANGED vars
    <3>1. UNCHANGED db
      BY <2>9 DEF RebuildStarts, StartRebuild, ReadOnly, ToolStarts, ClearCache, SelectBacklog,
        AskReenable, ConfirmReenable, CancelReenable, Answered, CleanupSteps, Cleanup,
        PreviewCache, CompareCache, DeleteCache, SchedulerSteps, CallerLeaves, Request, Fetched,
        Lookup, Expire, UserEdits, vars, shared
    <3>2. UNCHANGED overtaken
      BY <2>9 DEF RebuildStarts, ToolStarts, CleanupSteps, SchedulerSteps, CallerLeaves, Request,
        Fetched, Lookup, Expire, UserEdits, vars, ghosts
    <3> QED BY <2>8, <3>1, <3>2
  <2> QED BY <2>1, <2>5, <2>6, <2>7, <2>9 DEF Next
<1> QED BY <1>1, <1>2

LEMMA SafetyInitHolds == Init => SafetyInv
<1> SUFFICES ASSUME Init PROVE SafetyInv
  OBVIOUS
<1>1. ASSUME NEW w \in Works PROVE disk[Old(w)] = "v1"
  BY FolderTypes DEF Init, SharedInit, Old
<1> QED BY <1>1 DEF Init, EngineInit, SafetyInv, WholeInv, SourceWhole, TargetWhole,
                    CopySurvives, TablesLeft, Whole

LEMMA SafetyInvariant == Spec => [](LibraryInv /\ SafetyInv)
<1>1. Init => LibraryInv /\ SafetyInv
  BY LibraryInitHolds, SafetyInitHolds
<1>2. LibraryInv /\ SafetyInv /\ [Next]_vars => (LibraryInv /\ SafetyInv)'
  BY LibraryStepKeeps, StepKeepsWhole, StepKeepsTables DEF SafetyInv
<1> QED BY <1>1, <1>2, PTL DEF Spec

\* Whatever fails, is interrupted, downloaded, rebuilt or edited while works are
\* migrated, a whole copy of each of them is left, for any number of works
\* (the order of copy, comparison, update and deletion in migrate_one).
THEOREM CopyAlwaysSurvives == Spec => []CopySurvives
<1>1. SafetyInv => CopySurvives
  BY DEF SafetyInv, WholeInv
<1> QED BY <1>1, SafetyInvariant, PTL

-----------------------------------------------------------------------------
(* The end of a source                                                      *)

\* Only the deletion by the migration of a work removes its source.
LEMMA OnlyDeletionRemoves ==
  ASSUME LibraryInv, Next, NEW w \in Works, disk[Old(w)] # "none", disk'[Old(w)] = "none"
  PROVE  step = "delete" /\ work = w
<1>1. DOMAIN disk = Folders /\ Old(w) \in Folders
  BY FolderTypes DEF LibraryInv, SharedTypeOK
<1>2. CASE DeleteSource \/ DeleteFails
  <2>1. step = "delete" /\ \E left : disk' = [disk EXCEPT ![Old(work)] = left]
    BY <1>2 DEF DeleteSource, DeleteFails
  <2> QED BY <1>1, <2>1, FoldersDiffer
<1>3. CASE Copy \/ CopyEnds \/ Rename \/ Remove \/ RemoveFails \/ End \/ EndFails
  <2>1. disk'[Old(w)] = disk[Old(w)]
    BY <1>1, <1>3, FoldersDiffer DEF Copy, CopyEnds, Rename, Remove, RemoveFails, End, EndFails
  <2> QED BY <2>1
<1>4. CASE UNCHANGED disk
  BY <1>4
<1>5. CASE MigrationStarts \/ MigrationSteps
  <2>1. CASE \/ Execute \/ BatchEnds \/ Snapshot \/ SnapshotFails \/ CopyFails \/ CheckStaging
             \/ CheckAbsent \/ CheckTarget \/ Update \/ Reverse \/ ReverseFails \/ Preserve
             \/ PreserveFails \/ \E v \in Works : Begin(v)
    <3>1. UNCHANGED disk
      BY <2>1 DEF Execute, BatchEnds, Snapshot, SnapshotFails, CopyFails, CheckStaging,
        CheckAbsent, CheckTarget, Update, Reverse, ReverseFails, Preserve, PreserveFails, Begin,
        shared
    <3> QED BY <1>4, <3>1
  <2> QED BY <1>2, <1>3, <1>5, <2>1 DEF MigrationStarts, MigrationSteps, Migrate
<1>6. ASSUME NEW v \in Works, Prepare(v) \/ Finish(v) PROVE FALSE
  <2>1. Old(w) # Out(v)
    BY FoldersDiffer
  <2>2. disk'[Old(w)] # "none"
    BY <1>1, <1>6, <2>1 DEF Prepare, Finish, Whole
  <2> QED BY <2>2
<1>7. ASSUME NEW p \in Folders, UserEdits(p) PROVE FALSE
  BY <1>1, <1>7 DEF UserEdits
<1>8. CASE \E v \in Works : Lookup(v) \/ Resume(v) \/ Stop(v) \/ Expire(v) \/ CloseoutApplied(v)
  BY <1>8 DEF Lookup, Resume, Stop, Expire, CloseoutApplied, CloseOut, shared
<1>9. CASE ProcessEnds
  BY <1>9 DEF ProcessEnds
<1> QED BY <1>4, <1>5, <1>6, <1>7, <1>8, <1>9, ToolsKeepFolders DEF Next

LEMMA StepGoesUnused == LibraryInv /\ SafetyInv /\ [Next]_vars => [SourceGoesUnused]_vars
<1> SUFFICES ASSUME LibraryInv, SafetyInv, Next,
                    NEW w \in Works, disk[Old(w)] # "none", disk'[Old(w)] = "none"
             PROVE  /\ disk[Out(w)] \in Whole
                    /\ \A f \in DOMAIN db[w].rows : db[w].rows[f].at # Old(w)
                    /\ db[w].path # Old(w) \/ w \in overtaken
  BY DEF SourceGoesUnused
<1> QED BY OnlyDeletionRemoves DEF SafetyInv, WholeInv, TargetWhole, TablesLeft

\* A source is removed only once the target is whole and the tables have left
\* it, for any number of works and failures (deletion after db_update in
\* migrate_one).
THEOREM SourceGoesLast == Spec => SourceLeftUnused
BY SafetyInvariant, StepGoesUnused, PTL DEF Spec, SourceLeftUnused

-----------------------------------------------------------------------------
(* Metadata                                                                 *)

KeptStatuses == Pending \union {"stale", "ignored", "cancelled"}

\* Rows protect no more than the rows did that they come from.
LEMMA ProtectionComes ==
  ASSUME NEW e, NEW n, DOMAIN n.rows \subseteq DOMAIN e.rows,
         \A f \in DOMAIN n.rows : n.rows[f].status \in KeptStatuses
                                    => e.rows[f].status \in KeptStatuses,
         Protected(n)
  PROVE  Protected(e)
BY DEF Protected, KeptStatuses

\* A move, a rebuild and a return to the queue protect what was protected.
LEMMA MovedProtection ==
  ASSUME NEW e \in Entry, NEW src, NEW dst, NEW mapped,
         Protected(PathsMoved(e, src, dst, mapped))
  PROVE  Protected(e)
<1> DEFINE r == [f \in DOMAIN e.rows |->
                   IF f \in MovedRows(e, src, mapped)
                     THEN [e.rows[f] EXCEPT !.at = dst] ELSE e.rows[f]]
           n == PathsMoved(e, src, dst, mapped)
<1>1. \A f \in DOMAIN e.rows : e.rows[f] \in Row
  BY EntryRows
<1>2. DOMAIN r = DOMAIN e.rows /\ \A f \in DOMAIN e.rows : r[f].status = e.rows[f].status
  BY <1>1 DEF Row
<1>3. n.rows = r
  BY DEF PathsMoved
<1> HIDE DEF r, n
<1> QED BY <1>2, <1>3, ProtectionComes DEF n

LEMMA RequeuedProtection ==
  ASSUME NEW e \in Entry, Protected(Requeued(e))
  PROVE  Protected(e)
<1> DEFINE r == [f \in DOMAIN e.rows |->
                   IF e.rows[f].status \in GivenUp
                     THEN [e.rows[f] EXCEPT !.status = "queued"] ELSE e.rows[f]]
<1>1. \A f \in DOMAIN e.rows : e.rows[f] \in Row
  BY EntryRows
<1>2. /\ DOMAIN r = DOMAIN e.rows
      /\ \A f \in DOMAIN e.rows : r[f].status \in KeptStatuses => e.rows[f].status \in KeptStatuses
  BY <1>1 DEF Row, GivenUp, KeptStatuses
<1>3. Requeued(e).rows = r
  BY EntryIs DEF Requeued
<1> HIDE DEF r
<1> QED BY <1>2, <1>3, ProtectionComes

\* A step that protects nothing new and loses no metadata of a work.
LEMMA MetadataStays ==
  ASSUME MetadataKept, NEW w \in Works \ orphaned',
         cache'[w] = "none" => cache[w] = "none",
         Protected(db'[w]) => Protected(db[w]),
         orphaned \subseteq orphaned'
  PROVE  Protected(db'[w]) => cache'[w] # "none"
BY DEF MetadataKept

LEMMA DownloadsKeepMetadata ==
  ASSUME LibraryInv, MetadataKept, NEW v \in Works,
         \/ Lookup(v) \/ Prepare(v) \/ Resume(v) \/ Stop(v) \/ Finish(v)
         \/ CloseoutApplied(v) \/ Expire(v),
         NEW w \in Works \ orphaned', Protected(db'[w])
  PROVE  cache'[w] # "none"
<1>1. /\ DOMAIN db = Works /\ DOMAIN cache = Works /\ db[v] \in Entry
      /\ \A f \in DOMAIN db[v].rows : db[v].rows[f] \in Row
  <2>1. DOMAIN db = Works /\ DOMAIN cache = Works /\ db[v] \in Entry
    BY DEF LibraryInv, SharedTypeOK
  <2> QED BY <2>1, EntryRows
<1>2. CASE Expire(v) \/ Lookup(v)
  <2>1. /\ cache'[w] = "none" => cache[w] = "none"
        /\ db' = db /\ orphaned' = orphaned
    BY <1>1, <1>2 DEF Expire, Lookup, ghosts, shared
  <2> QED BY <2>1, MetadataStays
<1>3. CASE w # v /\ ~Expire(v) /\ ~Lookup(v)
  <2>1. db'[w] = db[w]
    BY <1>1, <1>3 DEF Prepare, Resume, Stop, Finish, CloseoutApplied, CloseOut
  <2>2. cache' = cache /\ orphaned \subseteq orphaned'
    BY <1>3 DEF Prepare, Resume, Stop, Finish, CloseoutApplied, CloseOut, ghosts
  <2> QED BY <2>1, <2>2, MetadataStays
<1>4. CASE w = v /\ (Prepare(v) \/ Resume(v))
  BY <1>4 DEF Prepare, Resume
<1>5. CASE w = v /\ CloseoutApplied(v)
  BY <1>5 DEF CloseoutApplied, CloseOut
<1>6. CASE w = v /\ Stop(v)
  <2> DEFINE e == db[v]
  <2>1. PICK end \in {"paused", "failed", "cancelled"} :
          db' = [db EXCEPT ![v] = [e EXCEPT !.rows = [f \in DOMAIN e.rows |->
                   IF e.rows[f].status \in Pending THEN [e.rows[f] EXCEPT !.status = end]
                   ELSE e.rows[f]], !.status = IF end = "failed" THEN @ ELSE end]]
    BY <1>1, <1>6 DEF Stop
  <2> DEFINE r == [f \in DOMAIN e.rows |->
                     IF e.rows[f].status \in Pending THEN [e.rows[f] EXCEPT !.status = end]
                     ELSE e.rows[f]]
  <2>2. DOMAIN r = DOMAIN e.rows
        /\ \A f \in DOMAIN e.rows : r[f].status \in KeptStatuses => e.rows[f].status \in KeptStatuses
    BY <1>1 DEF Row, KeptStatuses
  <2>3. db'[v].rows = r
    BY <1>1, <2>1, EntryIs
  <2> HIDE DEF r
  <2>4. Protected(db'[v]) => Protected(e)
    BY <2>2, <2>3, ProtectionComes
  <2>5. cache' = cache /\ orphaned' = orphaned
    BY <1>6 DEF Stop, ghosts
  <2> QED BY <1>6, <2>4, <2>5, MetadataStays
<1>7. CASE w = v /\ Finish(v)
  <2> DEFINE e == db[v]
             r == [f \in DOMAIN e.rows |->
                     IF e.rows[f].status \in {"queued", "completed"}
                       THEN [e.rows[f] EXCEPT !.status = "registered"] ELSE e.rows[f]]
  <2>1. db' = [db EXCEPT ![v] = [e EXCEPT !.status = "completed", !.path = Out(v), !.rows = r]]
    BY <1>1, <1>7 DEF Finish
  <2>2. DOMAIN r = DOMAIN e.rows
        /\ \A f \in DOMAIN e.rows : r[f].status \in KeptStatuses => e.rows[f].status \in KeptStatuses
    BY <1>1 DEF Row, KeptStatuses, Pending
  <2> HIDE DEF r
  <2>3. db'[v].rows = r
    BY <1>1, <2>1, EntryIs
  <2>4. Protected(db'[v]) => Protected(e)
    BY <2>2, <2>3, ProtectionComes
  <2>5. cache' = cache /\ orphaned' = orphaned
    BY <1>7 DEF Finish, ghosts
  <2> QED BY <1>7, <2>4, <2>5, MetadataStays
<1> QED BY <1>2, <1>3, <1>4, <1>5, <1>6, <1>7

\* The tools that write the tables or the cache.
LEMMA ToolsKeepMetadata ==
  ASSUME LibraryInv, MetadataKept,
         MigrationSteps \/ RebuildSteps \/ CleanupSteps \/ BacklogSteps,
         NEW w \in Works \ orphaned', Protected(db'[w])
  PROVE  cache'[w] # "none"
<1>1. DOMAIN db = Works /\ DOMAIN cache = Works /\ db[w] \in Entry
  BY DEF LibraryInv, SharedTypeOK
<1>2. orphaned' = orphaned
  BY DEF MigrationSteps, RebuildSteps, CleanupSteps, BacklogSteps, ghosts
<1>3. CASE MigrationSteps
  <2>1. cache' = cache
    BY <1>3 DEF MigrationSteps, Migrate, Begin, BatchEnds, Snapshot, SnapshotFails, Copy, CopyEnds,
      CopyFails, CheckStaging, CheckAbsent, Rename, CheckTarget, Update, DeleteSource,
      DeleteFails, Reverse, ReverseFails, Preserve, PreserveFails, Remove, RemoveFails, End,
      EndFails, DiskOnly, shared
  <2>2. \/ db'[w] = db[w]
        \/ db'[w] = PathsMoved(db[w], Old(work), Out(work), Tracks)
        \/ db'[w] = PathsMoved(db[w], Out(work), Old(work), Tracks)
    <3>1. CASE Update \/ Reverse
      BY <1>1, <3>1 DEF Update, Reverse
    <3>2. CASE ~(Update \/ Reverse)
      BY <1>3, <3>2 DEF MigrationSteps, Migrate, Begin, BatchEnds, Snapshot, SnapshotFails, Copy,
        CopyEnds, CopyFails, CheckStaging, CheckAbsent, Rename, CheckTarget, DeleteSource,
        DeleteFails, ReverseFails, Preserve, PreserveFails, Remove, RemoveFails, End, EndFails,
        DiskOnly, shared
    <3> QED BY <3>1, <3>2
  <2>3. Protected(db[w])
    BY <1>1, <2>2, MovedProtection
  <2> QED BY <1>2, <2>1, <2>3, MetadataStays
<1>4. CASE RebuildSteps
  <2>1. cache' = cache
    BY <1>4 DEF RebuildSteps, Rebuild, ScanRoot, ScanFails, CheckSeen, Choose, Replace,
      ReplaceFails, ReadOnly, shared
  <2>2. db'[w] = db[w] \/ db'[w].rows = db[w].rows
    BY <1>4, ReindexedRows DEF RebuildSteps, Rebuild, ScanRoot, ScanFails, CheckSeen, Choose,
      Replace, ReplaceFails, ReadOnly, shared
  <2>3. Protected(db[w])
    BY <2>2 DEF Protected
  <2> QED BY <1>2, <2>1, <2>3, MetadataStays
<1>5. CASE BacklogSteps
  <2>1. /\ cache' = cache
        /\ db'[w] = db[w] \/ db'[w] = Requeued(db[w])
    BY <1>1, <1>5 DEF BacklogSteps, Reenable, ReadBacklog, WriteBacklog, shared
  <2>2. Protected(db[w])
    BY <1>1, <2>1, RequeuedProtection
  <2> QED BY <1>2, <2>1, <2>2, MetadataStays
<1>6. CASE CleanupSteps
  <2>1. /\ db' = db
        /\ cache'[w] = "none" => cache[w] = "none" \/ ~Protected(db[w])
    BY <1>6 DEF CleanupSteps, Cleanup, PreviewCache, CompareCache, DeleteCache, shared
  <2> QED BY <1>2, <2>1 DEF MetadataKept
<1> QED BY <1>3, <1>4, <1>5, <1>6

LEMMA StepKeepsMetadata == LibraryInv /\ MetadataKept /\ [Next]_vars => MetadataKept'
<1> SUFFICES ASSUME LibraryInv, MetadataKept, [Next]_vars,
                    NEW w \in Works \ orphaned', Protected(db'[w])
             PROVE  cache'[w] # "none"
  BY DEF MetadataKept, Protected
<1>1. CASE MigrationSteps \/ RebuildSteps \/ CleanupSteps \/ BacklogSteps
  BY <1>1, ToolsKeepMetadata
<1>2. ASSUME NEW v \in Works,
             \/ Lookup(v) \/ Prepare(v) \/ Resume(v) \/ Stop(v) \/ Finish(v)
             \/ CloseoutApplied(v) \/ Expire(v)
      PROVE  cache'[w] # "none"
  BY <1>2, DownloadsKeepMetadata
<1>3. ASSUME NEW r \in Requests, Fetched(r) PROVE cache'[w] # "none"
  <2>1. db' = db /\ DOMAIN cache = Works
    BY <1>3 DEF Fetched, LibraryInv, SharedTypeOK
  <2>2. CASE orphaned' = orphaned /\ cache' = cache
    BY <2>1, <2>2, MetadataStays
  <2>3. CASE /\ cache' = [cache EXCEPT ![WorkOf(r)] = "fresh"]
             /\ orphaned' = orphaned \ {WorkOf(r)}
    BY <2>1, <2>3 DEF MetadataKept
  <2> QED BY <1>3, <2>2, <2>3 DEF Fetched
<1>4. CASE UNCHANGED <<db, cache, orphaned>>
  BY <1>4 DEF MetadataKept
<1>5. CASE MigrationStarts \/ RebuildStarts \/ ToolStarts
  <2>1. UNCHANGED <<db, cache, orphaned>>
    BY <1>5 DEF MigrationStarts, RebuildStarts, ToolStarts, Execute, StartRebuild, ReadOnly,
      ClearCache, SelectBacklog, AskReenable, ConfirmReenable, CancelReenable, Answered,
      shared, ghosts
  <2> QED BY <1>4, <2>1
<1>6. CASE \/ SchedulerSteps \/ CallerLeaves \/ (\E r \in Requests : Request(r))
           \/ (\E p \in Folders : UserEdits(p)) \/ ProcessEnds \/ UNCHANGED vars
  <2>1. UNCHANGED <<db, cache, orphaned>>
    BY <1>6 DEF SchedulerSteps, CallerLeaves, Request, UserEdits, ProcessEnds, vars, shared, ghosts
  <2> QED BY <1>4, <2>1
<1> QED BY <1>1, <1>2, <1>3, <1>5, <1>6 DEF Next

\* The metadata of a work that can still be resumed or given back is never
\* cleaned away, whatever the rows, the rebuilds and the migrations do between
\* the preview of the cleanup and its deletion (cleanup_metadata_cache): a work
\* with such rows and no metadata had none already when prepare_work wrote the
\* rows, or when they were given up.
THEOREM MetadataStaysWithRows == Spec => []MetadataKept
<1>1. Init => MetadataKept
  BY DEF Init, SharedInit, MetadataKept
<1>2. LibraryInv /\ MetadataKept /\ [Next]_vars => MetadataKept'
  BY StepKeepsMetadata
<1> QED BY <1>1, <1>2, LibraryInvariant, PTL DEF Spec

-----------------------------------------------------------------------------
(* Where a work is, on the disks and in the tables                          *)

BeforeUpdate == {"snapshot", "copy", "copying", "check", "absent", "rename", "recheck",
                 "update", "remove"}
AfterUpdate  == {"delete", "preserve", "reverse"}

\* The tables have followed the migration of w that runs.
Followed(w) == BeingMigrated(w) /\ (step \in AfterUpdate \/ done)

\* The work and its rows name one folder, which is there.
Placed(w) ==
  LET e == db[w] IN
  /\ e.path \in {Old(w), Out(w)}
  /\ \A f \in DOMAIN e.rows : e.rows[f].at = e.path
  /\ e.path = Old(w) => disk[Old(w)] \in Whole
  /\ e.path = Out(w) => Present(Out(w))

\* A download runs under output_dir only, and a folder that is not whole is one
\* that a download has begun and that is neither finished nor given up.
Unfinished(w) ==
  LET e == db[w] IN
  /\ w \in running => e.path = Out(w)
  /\ e.path = Out(w) /\ disk[Out(w)] \notin Whole =>
       /\ e.status \in {"prepared", "queued", "paused", "cancelled"}
       /\ e.status = "prepared" => HasPending(e)
       /\ w \in running => \E f \in DOMAIN e.rows : e.rows[f].status = "queued"

\* The tables name the source up to their update, and a whole target after it.
Moving(w) ==
  BeingMigrated(w) =>
    /\ w \notin running
    /\ step \in BeforeUpdate => db[w].path = Old(w)
    /\ step \in AfterUpdate \/ done => db[w].path = Out(w)
    /\ db[w].path = Out(w) => disk[Out(w)] \in Whole

\* After the update, item and index have left the source.
Referred(w) ==
  Followed(w) => db[w].item \in {NoFolder, Out(w)} /\ Old(w) \notin db[w].index

\* The cleanup plan names the sources that a migration left behind, and those
\* only.
SourceKept(w) ==
  /\ w \in preserved => db[w].path # Old(w)
  /\ Followed(w) =>
       /\ step = "preserve" => disk[Old(w)] \in Whole
       /\ step \in {"delete", "reverse"} => w \notin preserved
       /\ done => IF w \in preserved THEN disk[Old(w)] \in Whole ELSE disk[Old(w)] = "none"

Agreed(w) == Placed(w) /\ Unfinished(w) /\ Moving(w) /\ Referred(w) /\ SourceKept(w)

Excepted == joined \union overtaken

PlaceInv ==
  /\ \A w \in Works \ Excepted : Agreed(w)
  /\ done => step = "end"

-----------------------------------------------------------------------------
(* Steps that leave a work where it is                                      *)

\* The new entry of w has every folder of the old one.
SamePlaces(w) ==
  /\ db'[w].path = db[w].path /\ db'[w].item = db[w].item /\ db'[w].index = db[w].index
  /\ DOMAIN db'[w].rows = DOMAIN db[w].rows
  /\ \A f \in DOMAIN db[w].rows : db'[w].rows[f].at = db[w].rows[f].at

\* What is whole stays whole, what is there stays there, a source that is gone
\* stays gone.
FoldersKept(w) ==
  /\ disk[Old(w)] \in Whole => disk'[Old(w)] \in Whole
  /\ disk[Out(w)] \in Whole => disk'[Out(w)] \in Whole
  /\ disk[Out(w)] # "none" => disk'[Out(w)] # "none"
  /\ disk[Old(w)] = "none" => disk'[Old(w)] = "none"

LEMMA AgreementStays ==
  ASSUME NEW w \in Works, Agreed(w), SamePlaces(w), FoldersKept(w),
         BeingMigrated(w)' => UNCHANGED <<step, work, done>> /\ w \notin running',
         w \in preserved' <=> w \in preserved,
         Unfinished(w)'
  PROVE  Agreed(w)'
<1>1. Placed(w)'
  BY DEF Agreed, Placed, SamePlaces, FoldersKept, Present, Old, Out
<1>2. BeingMigrated(w)' => BeingMigrated(w)
  BY DEF BeingMigrated
<1>3. Moving(w)'
  BY <1>2 DEF Agreed, Moving, SamePlaces, FoldersKept, Old, Out
<1>4. Followed(w)' => Followed(w) /\ UNCHANGED <<step, done>>
  BY <1>2 DEF Followed
<1>5. Referred(w)'
  BY <1>4 DEF Agreed, Referred, SamePlaces, Old, Out
<1>6. SourceKept(w)'
  BY <1>4 DEF Agreed, SourceKept, SamePlaces, FoldersKept, Old
<1> QED BY <1>1, <1>3, <1>5, <1>6 DEF Agreed

\* A step that does not write the entry of w or put it to work.
LEMMA UntouchedStays ==
  ASSUME NEW w \in Works, Agreed(w), db'[w] = db[w], FoldersKept(w),
         BeingMigrated(w)' => UNCHANGED <<step, work, done>>,
         w \in preserved' <=> w \in preserved,
         w \in running' => w \in running
  PROVE  Agreed(w)'
<1>1. SamePlaces(w)
  BY DEF SamePlaces
<1>2. Unfinished(w)'
  BY DEF Agreed, Unfinished, FoldersKept, HasPending, Old, Out
<1>3. BeingMigrated(w)' => w \notin running'
  BY DEF Agreed, Moving, BeingMigrated
<1> QED BY <1>1, <1>2, <1>3, AgreementStays

LEMMA SameFoldersKept ==
  ASSUME NEW w, UNCHANGED disk PROVE FoldersKept(w)
BY DEF FoldersKept

-----------------------------------------------------------------------------
(* The migration                                                            *)

\* Before the tables follow, only the source matters.
LEMMA BeforeUpdateStays ==
  ASSUME NEW w \in Works, Agreed(w), work = w, step \in BeforeUpdate, ~done,
         step' \in BeforeUpdate \union {"end"}, UNCHANGED <<work, done>>,
         db'[w] = db[w], UNCHANGED <<running, preserved>>,
         disk'[Old(w)] = disk[Old(w)]
  PROVE  Agreed(w)'
<1>1. BeingMigrated(w) /\ db[w].path = Old(w) /\ Out(w) # Old(w) /\ w \notin running
  BY FoldersDiffer DEF BeforeUpdate, BeingMigrated, Agreed, Moving
<1>2. Placed(w)'
  BY <1>1 DEF Agreed, Placed, Old, Out
<1>3. Unfinished(w)'
  BY <1>1 DEF Unfinished, Old, Out
<1>4. ~Followed(w)'
  BY DEF Followed, BeforeUpdate, AfterUpdate
<1>5. Moving(w)'
  BY <1>1 DEF Moving, Old, Out, BeforeUpdate, AfterUpdate
<1>6. Referred(w)' /\ SourceKept(w)'
  BY <1>4 DEF Referred, SourceKept, Agreed, Old
<1> QED BY <1>2, <1>3, <1>5, <1>6 DEF Agreed

\* The steps up to the update that the migration of w takes, its own removal of
\* the target included.
LEMMA EarlyStepsAgree ==
  ASSUME LibraryInv, NEW w \in Works, Agreed(w), work = w, ~done,
         \/ Snapshot \/ Copy \/ CopyEnds \/ CopyFails \/ CheckStaging \/ CheckAbsent \/ Rename
         \/ CheckTarget \/ Remove \/ RemoveFails
  PROVE  Agreed(w)'
<1>1. /\ step \in BeforeUpdate /\ step' \in BeforeUpdate \union {"end"}
      /\ UNCHANGED <<work, done>>
  BY DEF Snapshot, Copy, CopyEnds, CopyFails, CheckStaging, CheckAbsent, Rename, CheckTarget,
         Remove, RemoveFails, Goto, BeforeUpdate
<1>2. UNCHANGED <<db, running, preserved>>
  BY DEF Snapshot, Copy, CopyEnds, CopyFails, CheckStaging, CheckAbsent, Rename, CheckTarget,
         Remove, RemoveFails, shared, DiskOnly
<1>3. disk'[Old(w)] = disk[Old(w)]
  <2>1. DOMAIN disk = Folders /\ Old(w) \in Folders /\ Old(w) # Out(w) /\ Old(w) # Copying(w)
    BY FolderTypes, FoldersDiffer DEF LibraryInv, SharedTypeOK
  <2> QED BY <2>1
       DEF Snapshot, Copy, CopyEnds, CopyFails, CheckStaging, CheckAbsent, Rename, CheckTarget,
           Remove, RemoveFails, shared
<1> QED BY <1>1, <1>2, <1>3, BeforeUpdateStays

\* A work whose folder under output_dir is absent is not there in the tables.
LEMMA BeginAgrees ==
  ASSUME LibraryInv, NEW w \in Works, Agreed(w), ~done, Begin(w), Validated(w)
  PROVE  Agreed(w)'
<1>1. /\ step' = "snapshot" /\ work' = w /\ ~done'
      /\ UNCHANGED <<disk, db, running, preserved>>
  BY DEF Begin, shared
<1>2. db[w].path = Old(w) /\ Old(w) # Out(w) /\ w \notin running
  BY FoldersDiffer DEF Validated, Agreed, Placed, Unfinished
<1>3. Placed(w)' /\ Unfinished(w)'
  BY <1>1, <1>2 DEF Agreed, Placed, Unfinished, Old, Out
<1>4. Moving(w)'
  BY <1>1, <1>2 DEF Moving, BeforeUpdate, AfterUpdate, Old, Out
<1>5. ~Followed(w)'
  BY <1>1 DEF Followed, AfterUpdate
<1>6. Referred(w)' /\ SourceKept(w)'
  BY <1>1, <1>5 DEF Referred, SourceKept, Agreed, Old
<1> QED BY <1>3, <1>4, <1>6 DEF Agreed

\* A work that lies in src with all its rows lies in dst after the move.
LEMMA MovedPlace ==
  ASSUME NEW e \in Entry, NEW src \in Folders, NEW dst \in Folders, src # dst,
         e.path = src, \A f \in DOMAIN e.rows : e.rows[f].at = src
  PROVE  LET n == PathsMoved(e, src, dst, Tracks) IN
         /\ n.path = dst /\ n.status = e.status
         /\ n.item = IF e.item = src THEN dst ELSE e.item
         /\ n.index = (e.index \ {src}) \union {dst}
         /\ DOMAIN n.rows = DOMAIN e.rows
         /\ \A f \in DOMAIN n.rows : n.rows[f].at = dst
<1> DEFINE n == PathsMoved(e, src, dst, Tracks)
<1>1. /\ n.path = dst /\ n.status = e.status
      /\ n.item = IF e.item = src THEN dst ELSE e.item
      /\ n.index = (e.index \ {src}) \union {dst}
      /\ DOMAIN n.rows = DOMAIN e.rows
  BY DEF PathsMoved
<1>2. ASSUME NEW f \in DOMAIN e.rows PROVE n.rows[f].at = dst
  <2>1. n.rows[f] = IF f \in MovedRows(e, src, Tracks)
                      THEN [e.rows[f] EXCEPT !.at = dst] ELSE e.rows[f]
    BY DEF PathsMoved
  <2>2. f \in Tracks /\ e.rows[f] \in Row
    BY EntryRows
  <2> QED BY <2>1, <2>2 DEF MovedRows, Row
<1> QED BY <1>1, <1>2

\* The update brings work, rows, item and index to the target.
LEMMA UpdateAgrees ==
  ASSUME LibraryInv, WholeInv, NEW w \in Works, Agreed(w), work = w, ~done, Update
  PROVE  Agreed(w)'
<1>1. /\ step = "update" /\ UNCHANGED <<work, done, disk, running, preserved>>
      /\ DOMAIN db = Works /\ db[w] \in Entry
      /\ Old(w) \in Folders /\ Out(w) \in Folders /\ Old(w) # Out(w)
      /\ disk[Old(w)] \in Whole /\ disk[Out(w)] \in Whole
  BY FolderTypes, FoldersDiffer
     DEF Update, LibraryInv, SharedTypeOK, WholeInv, SourceWhole, TargetWhole
<1>2. CASE ~PathUpdateAllowed(db, work, Old(work), Out(work), token, Tracks)
  <2>1. db'[w] = db[w] /\ step' = "remove"
    BY <1>2 DEF Update
  <2> QED BY <1>1, <2>1, BeforeUpdateStays DEF BeforeUpdate
<1>3. CASE PathUpdateAllowed(db, work, Old(work), Out(work), token, Tracks)
  <2> DEFINE n == PathsMoved(db[w], Old(w), Out(w), Tracks)
  <2>1. db'[w] = n /\ step' \in {"delete", "preserve"}
    BY <1>1, <1>3 DEF Update
  <2>2. /\ BeingMigrated(w) /\ db[w].path = Old(w) /\ w \notin running
        /\ \A f \in DOMAIN db[w].rows : db[w].rows[f].at = Old(w)
        /\ w \notin preserved
    BY <1>1 DEF Agreed, Placed, Moving, BeingMigrated, BeforeUpdate, SourceKept
  <2>3. db[w].item \in {NoFolder, Old(w), Out(w)}
    BY <1>3 DEF PathUpdateAllowed
  <2>4. /\ n.path = Out(w)
        /\ n.item \in {NoFolder, Out(w)}
        /\ Old(w) \notin n.index
        /\ \A f \in DOMAIN n.rows : n.rows[f].at = Out(w)
    <3> HIDE DEF n
    <3> QED BY <1>1, <2>2, <2>3, MovedPlace DEF n
  <2> HIDE DEF n
  <2>5. Placed(w)'
    BY <1>1, <2>1, <2>4 DEF Placed, Present, Old, Out, Whole
  <2>6. Unfinished(w)'
    BY <1>1, <2>1, <2>2, <2>4 DEF Unfinished, Old, Out
  <2>7. Moving(w)' /\ Referred(w)' /\ SourceKept(w)'
    BY <1>1, <2>1, <2>2, <2>4
       DEF Moving, Referred, SourceKept, BeforeUpdate, AfterUpdate, Old, Out
  <2> QED BY <2>5, <2>6, <2>7 DEF Agreed
<1> QED BY <1>2, <1>3

LEMMA ReverseAgrees ==
  ASSUME LibraryInv, WholeInv, NEW w \in Works, Agreed(w), work = w, ~done, Reverse
  PROVE  Agreed(w)'
<1>1. /\ step = "reverse" /\ UNCHANGED <<work, done, disk, running, preserved>>
      /\ DOMAIN db = Works /\ db[w] \in Entry
      /\ Old(w) \in Folders /\ Out(w) \in Folders /\ Old(w) # Out(w)
      /\ disk[Old(w)] \in Whole /\ step' \in {"remove", "end"}
  BY FolderTypes, FoldersDiffer
     DEF Reverse, Goto, LibraryInv, SharedTypeOK, WholeInv, SourceWhole
<1>2. /\ BeingMigrated(w) /\ db[w].path = Out(w) /\ w \notin running
      /\ \A f \in DOMAIN db[w].rows : db[w].rows[f].at = Out(w)
      /\ w \notin preserved /\ disk[Out(w)] \in Whole
  BY <1>1 DEF Agreed, Placed, Moving, BeingMigrated, AfterUpdate, SourceKept, Followed
<1>3. ~Followed(w)'
  BY <1>1 DEF Followed, AfterUpdate
<1>4. Referred(w)'
  BY <1>3 DEF Referred
<1>5. CASE ~PathUpdateAllowed(db, work, Out(work), Old(work), token, Tracks)
  <2>1. db'[w] = db[w] /\ step' = "end"
    BY <1>5 DEF Reverse, Goto
  <2>2. Placed(w)' /\ Unfinished(w)'
    BY <1>1, <1>2, <2>1 DEF Agreed, Placed, Unfinished, Present, Old, Out
  <2>3. Moving(w)' /\ SourceKept(w)'
    BY <1>1, <1>2, <1>3, <2>1 DEF Moving, SourceKept, BeforeUpdate, AfterUpdate, Old, Out
  <2> QED BY <1>4, <2>2, <2>3 DEF Agreed
<1>6. CASE PathUpdateAllowed(db, work, Out(work), Old(work), token, Tracks)
  <2> DEFINE n == PathsMoved(db[w], Out(w), Old(w), Tracks)
  <2>1. db'[w] = n /\ step' = "remove"
    BY <1>1, <1>6 DEF Reverse, Goto
  <2>2. n.path = Old(w) /\ \A f \in DOMAIN n.rows : n.rows[f].at = Old(w)
    <3> HIDE DEF n
    <3> QED BY <1>1, <1>2, MovedPlace DEF n
  <2> HIDE DEF n
  <2>3. Placed(w)' /\ Unfinished(w)'
    BY <1>1, <1>2, <2>1, <2>2 DEF Placed, Unfinished, Old, Out
  <2>4. Moving(w)' /\ SourceKept(w)'
    BY <1>1, <1>2, <1>3, <2>1, <2>2 DEF Moving, SourceKept, BeforeUpdate, AfterUpdate, Old, Out
  <2> QED BY <1>4, <2>3, <2>4 DEF Agreed
<1> QED BY <1>5, <1>6

\* After the update the entry is not written; what is said of the source at the
\* end is what the step did to it.
LEMMA LateStepsAgree ==
  ASSUME LibraryInv, WholeInv, NEW w \in Works, Agreed(w), work = w, ~done,
         DeleteSource \/ DeleteFails \/ Preserve \/ PreserveFails \/ ReverseFails
  PROVE  Agreed(w)'
<1>1. /\ step \in AfterUpdate /\ step' \in {"reverse", "end"} /\ (step' = "reverse" => ~done')
      /\ UNCHANGED <<work, db, running>>
      /\ DOMAIN disk = Folders /\ Old(w) \in Folders /\ Out(w) \in Folders /\ Old(w) # Out(w)
  BY FolderTypes, FoldersDiffer
     DEF DeleteSource, DeleteFails, Preserve, PreserveFails, ReverseFails, Goto, Finished,
         DiskOnly, shared, AfterUpdate, LibraryInv, SharedTypeOK
<1>2. /\ BeingMigrated(w) /\ db[w].path = Out(w) /\ w \notin running /\ Followed(w)
      /\ disk[Out(w)] \in Whole
      /\ db[w].item \in {NoFolder, Out(w)} /\ Old(w) \notin db[w].index
  BY <1>1 DEF Agreed, Moving, Referred, BeingMigrated, AfterUpdate, Followed
<1>3. disk'[Out(w)] = disk[Out(w)]
  BY <1>1 DEF DeleteSource, DeleteFails, Preserve, PreserveFails, ReverseFails, shared
<1>4. Placed(w)' /\ Unfinished(w)'
  BY <1>1, <1>2, <1>3 DEF Agreed, Placed, Unfinished, Present, Old, Out
<1>5. Moving(w)' /\ Referred(w)'
  BY <1>1, <1>2, <1>3 DEF Moving, Referred, BeforeUpdate, AfterUpdate, Old, Out
<1>6. SourceKept(w)'
  <2>1. db'[w].path # Old(w)
    BY <1>1, <1>2
  <2>2. CASE DeleteSource
    BY <1>1, <1>2, <2>1, <2>2 DEF DeleteSource, Finished, DiskOnly, Agreed, SourceKept, Old
  <2>3. CASE DeleteFails
    BY <1>1, <1>2, <2>1, <2>3 DEF DeleteFails, Goto, DiskOnly, Agreed, SourceKept, Followed,
                                  AfterUpdate, Old
  <2>4. CASE Preserve
    BY <1>1, <1>2, <2>1, <2>4 DEF Preserve, Finished, Agreed, SourceKept, Old
  <2>5. CASE PreserveFails \/ ReverseFails
    BY <1>1, <1>2, <2>1, <2>5 DEF PreserveFails, ReverseFails, Goto, Agreed, SourceKept, Followed,
                                  AfterUpdate, Old
  <2> QED BY <2>2, <2>3, <2>4, <2>5
<1> QED BY <1>4, <1>5, <1>6 DEF Agreed

\* The migration of another work, and the steps between two works.
LEMMA OtherMigrationAgrees ==
  ASSUME LibraryInv, NEW w \in Works, Agreed(w), Execute \/ Migrate,
         \/ work # w /\ step \notin {"idle", "next"}
         \/ Execute \/ BatchEnds \/ SnapshotFails \/ End \/ EndFails
         \/ \E v \in Works : Begin(v) /\ (v # w \/ ~Validated(v))
  PROVE  Agreed(w)'
<1>1. /\ DOMAIN disk = Folders /\ Old(w) \in Folders /\ Out(w) \in Folders /\ DOMAIN db = Works
  BY FolderTypes DEF LibraryInv, SharedTypeOK
<1>2. CASE Execute \/ BatchEnds \/ SnapshotFails \/ (\E v \in Works : Begin(v))
  <2>1. UNCHANGED <<disk, db, running, preserved>>
    BY <1>2 DEF Execute, BatchEnds, SnapshotFails, Begin, shared
  <2>2. ~BeingMigrated(w)'
    <3>1. CASE Execute \/ BatchEnds \/ SnapshotFails
      BY <3>1 DEF Execute, BatchEnds, SnapshotFails, BeingMigrated
    <3>2. ASSUME NEW v \in Works, Begin(v), v # w \/ ~Validated(v) PROVE ~BeingMigrated(w)'
      BY <3>2 DEF Begin, BeingMigrated
    <3>3. ASSUME NEW v \in Works, Begin(v)
          PROVE  ~Execute /\ ~BatchEnds /\ ~SnapshotFails /\ ~End /\ ~EndFails /\ step = "next"
      BY <3>3 DEF Begin, Execute, BatchEnds, SnapshotFails, End, EndFails
    <3> QED BY <1>2, <3>1, <3>2, <3>3
  <2> QED BY <2>1, <2>2, SameFoldersKept, UntouchedStays
<1>3. CASE End \/ EndFails
  <2>1. UNCHANGED <<db, running, preserved>> /\ step' = "next"
    BY <1>3 DEF End, EndFails, DiskOnly
  <2>2. disk'[Old(w)] = disk[Old(w)] /\ disk'[Out(w)] = disk[Out(w)]
    BY <1>1, <1>3, FoldersDiffer DEF End, EndFails
  <2> QED BY <2>1, <2>2, UntouchedStays DEF FoldersKept, BeingMigrated
<1>4. CASE /\ work # w /\ step \notin {"idle", "next"}
           /\ ~(SnapshotFails \/ End \/ EndFails)
  <2>1. \/ Snapshot \/ Copy \/ CopyEnds \/ CopyFails \/ CheckStaging \/ CheckAbsent \/ Rename
        \/ CheckTarget \/ Update \/ DeleteSource \/ DeleteFails \/ Reverse \/ ReverseFails
        \/ Preserve \/ PreserveFails \/ Remove \/ RemoveFails
    BY <1>4 DEF Migrate, Execute, Begin, BatchEnds
  <2>2. work' = work
    BY <2>1 DEF Snapshot, Copy, CopyEnds, CopyFails, CheckStaging, CheckAbsent, Rename,
      CheckTarget, Update, DeleteSource, DeleteFails, Reverse, ReverseFails, Preserve,
      PreserveFails, Remove, RemoveFails, Goto, Finished
  <2>3. running' = running /\ (w \in preserved' <=> w \in preserved)
    BY <1>4, <2>1 DEF Snapshot, Copy, CopyEnds, CopyFails, CheckStaging, CheckAbsent, Rename,
      CheckTarget, Update, DeleteSource, DeleteFails, Reverse, ReverseFails, Preserve,
      PreserveFails, Remove, RemoveFails, DiskOnly, shared
  <2>4. db'[w] = db[w]
    <3>1. CASE Update \/ Reverse
      BY <1>1, <1>4, <3>1 DEF Update, Reverse
    <3>2. CASE ~(Update \/ Reverse)
      BY <2>1, <3>2 DEF Snapshot, Copy, CopyEnds, CopyFails, CheckStaging, CheckAbsent, Rename,
        CheckTarget, DeleteSource, DeleteFails, ReverseFails, Preserve,
        PreserveFails, Remove, RemoveFails, DiskOnly, shared
    <3> QED BY <3>1, <3>2
  <2>5. disk'[Old(w)] = disk[Old(w)] /\ disk'[Out(w)] = disk[Out(w)]
    <3>1. \A p \in {Old(work), Out(work), Copying(work)} : p # Old(w) /\ p # Out(w)
      BY <1>4, FoldersDiffer
    <3>2. CASE Copy \/ CopyEnds \/ Rename \/ DeleteSource \/ DeleteFails \/ Remove \/ RemoveFails
      BY <1>1, <3>1, <3>2 DEF Copy, CopyEnds, Rename, DeleteSource, DeleteFails, Remove, RemoveFails
    <3>3. CASE ~(Copy \/ CopyEnds \/ Rename \/ DeleteSource \/ DeleteFails \/ Remove \/ RemoveFails)
      BY <2>1, <3>3 DEF Snapshot, CopyFails, CheckStaging, CheckAbsent, CheckTarget, Update,
        Reverse, ReverseFails, Preserve, PreserveFails, shared
    <3> QED BY <3>2, <3>3
  <2>6. FoldersKept(w) /\ ~BeingMigrated(w)'
    BY <1>4, <2>2, <2>5 DEF FoldersKept, BeingMigrated
  <2> QED BY <2>3, <2>4, <2>6, UntouchedStays
<1> QED BY <1>2, <1>3, <1>4

LEMMA MigrateAgrees ==
  ASSUME LibraryInv, WholeInv, NEW w \in Works, Agreed(w), done => step = "end",
         Execute \/ Migrate
  PROVE  Agreed(w)'
<1>1. CASE \E v \in Works : Begin(v)
  <2>1. step = "next"
    BY <1>1 DEF Begin
  <2>2. PICK v \in Works : Begin(v)
    BY <1>1
  <2> QED BY <2>1, <2>2, BeginAgrees, OtherMigrationAgrees
<1>2. CASE Execute \/ BatchEnds \/ SnapshotFails \/ End \/ EndFails
  BY <1>2, OtherMigrationAgrees
<1>3. CASE /\ ~(\E v \in Works : Begin(v))
           /\ ~(Execute \/ BatchEnds \/ SnapshotFails \/ End \/ EndFails)
  <2>1. \/ Snapshot \/ Copy \/ CopyEnds \/ CopyFails \/ CheckStaging \/ CheckAbsent \/ Rename
        \/ CheckTarget \/ Remove \/ RemoveFails \/ Update \/ Reverse
        \/ DeleteSource \/ DeleteFails \/ Preserve \/ PreserveFails \/ ReverseFails
    BY <1>3 DEF Migrate
  <2>2. step \notin {"idle", "next", "end"} /\ ~done
    BY <2>1 DEF Snapshot, Copy, CopyEnds, CopyFails, CheckStaging, CheckAbsent, Rename,
      CheckTarget, Update, DeleteSource, DeleteFails, Reverse, ReverseFails, Preserve,
      PreserveFails, Remove, RemoveFails
  <2>3. CASE work # w
    BY <2>2, <2>3, OtherMigrationAgrees
  <2>4. CASE work = w
    BY <2>1, <2>2, <2>4, EarlyStepsAgree, UpdateAgrees, ReverseAgrees, LateStepsAgree
  <2> QED BY <2>3, <2>4
<1> QED BY <1>1, <1>2, <1>3

\* Success is reported by the last two steps of a migration only.
LEMMA DoneComesLast ==
  ASSUME LibraryInv, done => step = "end", [Next]_vars
  PROVE  done' => step' = "end"
<1>1. CASE MigrationStarts \/ MigrationSteps
  BY <1>1 DEF MigrationStarts, MigrationSteps, Execute, Migrate, Begin, BatchEnds, Snapshot,
    SnapshotFails, Copy, CopyEnds, CopyFails, CheckStaging, CheckAbsent, Rename, CheckTarget,
    Update, DeleteSource, DeleteFails, Reverse, ReverseFails, Preserve, PreserveFails, Remove,
    RemoveFails, End, EndFails, Goto, Finished
<1>2. CASE ProcessEnds
  BY <1>2 DEF ProcessEnds
<1>3. CASE UNCHANGED migration
  BY <1>3 DEF migration
<1>4. ASSUME NEW w \in Works,
             \/ Lookup(w) \/ Prepare(w) \/ Resume(w) \/ Stop(w) \/ Finish(w)
             \/ Expire(w) \/ CloseoutApplied(w)
      PROVE  UNCHANGED migration
  BY <1>4 DEF Lookup, Prepare, Resume, Stop, Finish, Expire, CloseoutApplied, NoTool
<1>5. ASSUME NEW p \in Folders, UserEdits(p) PROVE UNCHANGED migration
  BY <1>5 DEF UserEdits, NoTool
<1>6. UNCHANGED vars => UNCHANGED migration
  BY DEF vars
<1> QED BY <1>1, <1>2, <1>3, <1>4, <1>5, <1>6, ToolsKeepFolders DEF Next

-----------------------------------------------------------------------------
(* The rebuild of the index                                                 *)

\* A rebuild that finds the folder of the work leaves the work there, and its
\* status too while a download of it is unfinished.
LEMMA ReindexedPlace ==
  ASSUME LibraryInv, NEW w \in Works, chosen[w] = db[w].path, db[w].path # NoFolder
  PROVE  /\ Reindexed(w).path = db[w].path
         /\ Reindexed(w).rows = db[w].rows
         /\ HasPending(db[w]) /\ db[w].status # "none" => Reindexed(w).status = db[w].status
         /\ db[w].status \in {"queued", "paused", "cancelled"}
              => Reindexed(w).status = db[w].status
<1> DEFINE c        == chosen[w]
           e        == db[w]
           indexed  == [e EXCEPT !.index = seen \intersect FoldersOf(w), !.item = c]
           external == [indexed EXCEPT !.status = "external", !.path = c]
           found    == [indexed EXCEPT !.status = "indexed", !.path = c]
           verified == [indexed EXCEPT !.path = c]
<1>1. db[w] \in Entry
  BY DEF LibraryInv, SharedTypeOK
<1>2. /\ indexed.path = e.path /\ external.path = e.path /\ found.path = e.path
      /\ verified.path = e.path
      /\ indexed.status = e.status /\ external.status = "external" /\ found.status = "indexed"
      /\ verified.status = e.status
  BY <1>1, EntryIs
<1>3. Reindexed(w) =
        IF e.status = "none" THEN external
        ELSE IF HasPending(e) THEN indexed
        ELSE IF e.status \in {"external", "indexed", "prepared", "missing"} THEN found
        ELSE IF e.status = "verified" THEN verified
        ELSE indexed
  BY DEF Reindexed
<1> HIDE DEF indexed, external, found, verified, c
<1> QED BY <1>2, <1>3, ReindexedRows

LEMMA RebuildAgrees ==
  ASSUME LibraryInv, NEW w \in Works, Agreed(w), RebuildSteps, w \notin overtaken'
  PROVE  Agreed(w)'
<1>1. UNCHANGED <<disk, running, preserved, step, work, done>>
  BY DEF RebuildSteps, Rebuild, ScanRoot, ScanFails, CheckSeen, Choose, Replace, ReplaceFails,
         ReadOnly, shared, migration
<1>2. CASE db' = db
  BY <1>1, <1>2, SameFoldersKept, UntouchedStays
<1>3. CASE db' # db
  <2>1. stage = "replace" /\ Replace
    BY <1>3 DEF RebuildSteps, Rebuild, ScanRoot, ScanFails, CheckSeen, Choose, Replace,
                ReplaceFails, ReadOnly, shared
  <2>2. /\ ~BeingMigrated(w) /\ chosen[w] \in Canonical(w)
        /\ seen \intersect FoldersOf(w) = FoldersNow(w)
    BY <1>3, <2>1 DEF RebuildSteps
  <2>3. Present(db[w].path) /\ db[w].path \in FoldersOf(w) /\ db[w].path # NoFolder
    BY FolderTypes DEF Agreed, Placed, Present, Whole, FoldersOf
  <2>4. chosen[w] = db[w].path
    <3>1. db[w].path \in seen \intersect FoldersOf(w)
      BY <2>2, <2>3 DEF FoldersNow
    <3>2. Canonical(w) = {db[w].path}
      BY <3>1 DEF Canonical
    <3> QED BY <2>2, <3>2
  <2>5. db'[w] = Reindexed(w)
    BY <2>1 DEF Replace
  <2>6. /\ db'[w].path = db[w].path /\ db'[w].rows = db[w].rows
        /\ HasPending(db[w]) /\ db[w].status # "none" => db'[w].status = db[w].status
        /\ db[w].status \in {"queued", "paused", "cancelled"} => db'[w].status = db[w].status
    BY <2>3, <2>4, <2>5, ReindexedPlace
  <2>7. ~BeingMigrated(w)'
    BY <1>1, <2>2 DEF BeingMigrated
  <2>8. Placed(w)'
    BY <1>1, <2>6 DEF Agreed, Placed, Present, Old, Out
  <2>9. Unfinished(w)'
    BY <1>1, <2>6 DEF Agreed, Unfinished, HasPending, Out
  <2>10. Moving(w)' /\ Referred(w)' /\ SourceKept(w)'
    BY <1>1, <2>6, <2>7 DEF Agreed, Moving, Referred, SourceKept, Followed, Old
  <2> QED BY <2>8, <2>9, <2>10 DEF Agreed
<1> QED BY <1>2, <1>3

-----------------------------------------------------------------------------
(* Downloads                                                                *)

\* What the downloader and the closeout leave of the migration.
LEMMA DownloadsLeaveMigration ==
  ASSUME NEW v, \/ Lookup(v) \/ Prepare(v) \/ Resume(v) \/ Stop(v) \/ Finish(v)
                \/ Expire(v) \/ CloseoutApplied(v)
  PROVE  UNCHANGED <<step, work, done, preserved, overtaken>>
BY DEF Lookup, Prepare, Resume, Stop, Finish, Expire, CloseoutApplied, CloseOut, NoTool, migration,
       ghosts, shared

\* A new download of the work begins in its folder under output_dir.
LEMMA PrepareAgrees ==
  ASSUME Tracks # {}, LibraryInv, NEW w \in Works, Agreed(w), Prepare(w), w \notin joined'
  PROVE  Agreed(w)'
<1>1. /\ UNCHANGED <<step, work, done, preserved>> /\ ~BeingMigrated(w)
      /\ DOMAIN db = Works /\ db[w] \in Entry /\ DOMAIN disk = Folders /\ Out(w) \in Folders
      /\ Out(w) # Old(w)
  BY DownloadsLeaveMigration, FolderTypes, FoldersDiffer DEF Prepare, LibraryInv, SharedTypeOK
<1> DEFINE n == [db[w] EXCEPT !.status = "prepared", !.path = Out(w), !.rows = PreparedRows(w)]
<1>2. db'[w] = n
  BY <1>1 DEF Prepare
<1>3. n.path = Out(w) /\ n.rows = PreparedRows(w) /\ n.status = "prepared"
  BY <1>1, EntryIs
<1> HIDE DEF n
<1>4. disk' = [disk EXCEPT ![Out(w)] = IF disk[Out(w)] = "none" THEN "partial" ELSE disk[Out(w)]]
  BY DEF Prepare
<1>5. \A f \in DOMAIN PreparedRows(w) : PreparedRows(w)[f].at = Out(w)
  BY DEF PreparedRows
<1>6. disk[Out(w)] \notin Whole =>
        \A f \in Tracks : f \in DOMAIN PreparedRows(w) /\ PreparedRows(w)[f].status = "queued"
  BY DEF PreparedRows
<1>7. disk'[Out(w)] # "none" /\ (disk[Out(w)] \in Whole => disk'[Out(w)] \in Whole)
  BY <1>1, <1>4, Zenon DEF Whole
<1>8. Placed(w)'
  BY <1>1, <1>2, <1>3, <1>5, <1>7 DEF Placed, Present, Old, Out
<1>9. Unfinished(w)'
  <2>1. disk'[Out(w)] \notin Whole =>
          \E f \in DOMAIN db'[w].rows : db'[w].rows[f].status = "queued"
    BY <1>2, <1>3, <1>6, <1>7
  <2>2. disk'[Out(w)] \notin Whole => HasPending(db'[w])
    BY <2>1 DEF HasPending, Pending
  <2> QED BY <1>2, <1>3, <2>1, <2>2 DEF Unfinished, HasPending, Out
<1>10. ~BeingMigrated(w)'
  BY <1>1 DEF BeingMigrated
<1>11. Moving(w)' /\ Referred(w)' /\ SourceKept(w)'
  BY <1>1, <1>2, <1>3, <1>10 DEF Moving, Referred, SourceKept, Followed, Old, Out
<1> QED BY <1>8, <1>9, <1>11 DEF Agreed

\* What a resume makes of each row.
LEMMA ResumedRow ==
  ASSUME NEW w \in Works, NEW f \in DOMAIN db[w].rows, db[w].rows[f] \in Row,
         db[w].rows[f].at # NoFolder
  PROVE  /\ ResumedRows(w)[f].at = db[w].rows[f].at
         /\ disk[db[w].rows[f].at] \in Whole => ResumedRows(w)[f].status # "queued"
         /\ disk[db[w].rows[f].at] \notin Whole /\ db[w].rows[f].status \in Pending
              => ResumedRows(w)[f].status = "queued"
<1> DEFINE row == db[w].rows[f]
           here == row.at # NoFolder /\ disk[row.at] \in Whole
           r == IF \/ row.status \in GivenUp \union {"cancelled"}
                   \/ row.status \in {"completed", "registered"} /\ here
                  THEN row
                ELSE IF here THEN [row EXCEPT !.status = "completed"]
                ELSE [at |-> IF row.at = NoFolder THEN Out(w) ELSE row.at, status |-> "queued"]
<1>1. ResumedRows(w)[f] = r
  BY DEF ResumedRows
<1>2. r.at = row.at
  BY DEF Row
<1>3. here => r.status # "queued"
  BY DEF Row, GivenUp
<1>4. ~here /\ row.status \in Pending => r.status = "queued"
  BY DEF Row, GivenUp, Pending
<1> HIDE DEF r
<1> QED BY <1>1, <1>2, <1>3, <1>4

\* A resume goes on where the rows say, and completes what is whole there.
LEMMA ResumeAgrees ==
  ASSUME LibraryInv, NEW w \in Works, Agreed(w), Resume(w)
  PROVE  Agreed(w)'
<1> DEFINE e == db[w]
           rows == ResumedRows(w)
           waits == \E f \in DOMAIN rows : rows[f].status = "queued"
           status == IF waits THEN "queued"
                     ELSE IF \E f \in DOMAIN rows : rows[f].status = "cancelled" THEN e.status
                     ELSE "completed"
           n == [e EXCEPT !.rows = rows, !.status = status]
<1>1. /\ UNCHANGED <<step, work, done, preserved, disk>>
      /\ DOMAIN db = Works /\ e \in Entry
      /\ e.path \in Folders /\ NoFolder \notin Folders /\ Out(w) # Old(w)
      /\ HasPending(e)
  BY DownloadsLeaveMigration, FolderTypes, FoldersDiffer
     DEF Resume, LibraryInv, SharedTypeOK, Agreed, Placed
<1>2. db' = [db EXCEPT ![w] = n]
  BY <1>1, EntryIs DEF Resume
<1>3. running' = IF waits THEN running \union {w} ELSE running
  BY DEF Resume
<1>4. \A f \in DOMAIN e.rows : e.rows[f] \in Row /\ e.rows[f].at = e.path
  BY <1>1, EntryRows DEF Agreed, Placed
<1>5. DOMAIN rows = DOMAIN e.rows
  BY DEF ResumedRows
<1>6. \A f \in DOMAIN e.rows :
        /\ rows[f].at = e.path
        /\ disk[e.path] \in Whole => rows[f].status # "queued"
        /\ disk[e.path] \notin Whole /\ e.rows[f].status \in Pending => rows[f].status = "queued"
  BY <1>1, <1>4, ResumedRow
<1> HIDE DEF rows
<1>7. /\ n.path = e.path /\ n.item = e.item /\ n.index = e.index
      /\ n.rows = rows /\ n.status = status
  BY <1>1, EntryIs
<1>8. db'[w] = n
  BY <1>1, <1>2
<1> HIDE DEF n, status
<1>9. waits <=> disk[e.path] \notin Whole
  BY <1>1, <1>5, <1>6 DEF HasPending
<1> HIDE DEF waits
<1>10. SamePlaces(w)
  BY <1>4, <1>5, <1>6, <1>7, <1>8 DEF SamePlaces
<1>11. waits => e.path = Out(w)
  BY <1>9 DEF Agreed, Placed
<1>12. BeingMigrated(w)' => w \notin running'
  BY <1>1, <1>3, <1>9, <1>11 DEF Agreed, Moving, BeingMigrated
<1>13. Unfinished(w)'
  <2>1. w \in running' => e.path = Out(w)
    BY <1>3, <1>11 DEF Agreed, Unfinished
  <2>2. e.path = Out(w) /\ disk[Out(w)] \notin Whole =>
          db'[w].status = "queued" /\ \E f \in DOMAIN rows : rows[f].status = "queued"
    BY <1>7, <1>8, <1>9 DEF waits, status
  <2> QED BY <1>1, <1>7, <1>8, <2>1, <2>2 DEF Unfinished, Out
<1> QED BY <1>1, <1>10, <1>12, <1>13, SameFoldersKept, AgreementStays

\* A stop gives the rows up or leaves them to be resumed; none is called whole.
LEMMA StopAgrees ==
  ASSUME LibraryInv, NEW w \in Works, Agreed(w), Stop(w)
  PROVE  Agreed(w)'
<1> DEFINE e == db[w]
<1>1. /\ UNCHANGED <<step, work, done, preserved, disk>> /\ w \notin running' /\ w \in running
      /\ DOMAIN db = Works /\ e \in Entry
  BY DownloadsLeaveMigration DEF Stop, LibraryInv, SharedTypeOK
<1>2. PICK end \in {"paused", "failed", "cancelled"} :
        db' = [db EXCEPT ![w] = [e EXCEPT !.rows = [f \in DOMAIN e.rows |->
                 IF e.rows[f].status \in Pending THEN [e.rows[f] EXCEPT !.status = end]
                 ELSE e.rows[f]], !.status = IF end = "failed" THEN @ ELSE end]]
  BY <1>1 DEF Stop
<1> DEFINE s == IF end = "failed" THEN e.status ELSE end
           r == [f \in DOMAIN e.rows |->
                   IF e.rows[f].status \in Pending THEN [e.rows[f] EXCEPT !.status = end]
                   ELSE e.rows[f]]
           n == [e EXCEPT !.rows = r, !.status = s]
<1>3. db'[w] = n
  BY <1>1, <1>2, EntryIs
<1>4. \A f \in DOMAIN e.rows : e.rows[f] \in Row
  BY <1>1, EntryRows
<1>5. /\ DOMAIN r = DOMAIN e.rows
      /\ \A f \in DOMAIN e.rows :
           /\ r[f].at = e.rows[f].at
           /\ end = "failed" /\ e.rows[f].status \in Pending => r[f].status \in Pending
  BY <1>4 DEF Row, Pending
<1> HIDE DEF r
<1>6. n.path = e.path /\ n.item = e.item /\ n.index = e.index /\ n.rows = r /\ n.status = s
  BY <1>1, EntryIs
<1> HIDE DEF n
<1>7. SamePlaces(w)
  BY <1>3, <1>5, <1>6 DEF SamePlaces
<1>8. end = "failed" /\ HasPending(e) => HasPending(db'[w])
  BY <1>3, <1>5, <1>6 DEF HasPending
<1>9. Unfinished(w)'
  BY <1>1, <1>3, <1>6, <1>8 DEF Agreed, Unfinished, Out
<1> QED BY <1>1, <1>7, <1>9, SameFoldersKept, AgreementStays

\* The last file makes the folder whole.
LEMMA FinishAgrees ==
  ASSUME LibraryInv, NEW w \in Works, Agreed(w), Finish(w)
  PROVE  Agreed(w)'
<1> DEFINE e == db[w]
           waiting == {f \in DOMAIN e.rows : e.rows[f].status = "queued"}
           r == [f \in DOMAIN e.rows |->
                   IF e.rows[f].status \in {"queued", "completed"}
                     THEN [e.rows[f] EXCEPT !.status = "registered"] ELSE e.rows[f]]
           n == [e EXCEPT !.status = "completed", !.path = Out(w), !.rows = r]
<1>1. /\ UNCHANGED <<step, work, done, preserved>> /\ w \notin running' /\ w \in running
      /\ DOMAIN db = Works /\ e \in Entry
      /\ DOMAIN disk = Folders /\ Old(w) \in Folders /\ Out(w) \in Folders /\ Out(w) # Old(w)
  BY DownloadsLeaveMigration, FolderTypes, FoldersDiffer DEF Finish, LibraryInv, SharedTypeOK
<1>2. db' = [db EXCEPT ![w] = n]
  BY <1>1 DEF Finish
<1>3. \A f \in DOMAIN e.rows : e.rows[f] \in Row
  BY <1>1, EntryRows
<1>4. DOMAIN r = DOMAIN e.rows /\ \A f \in DOMAIN e.rows : r[f].at = e.rows[f].at
  BY <1>3 DEF Row
<1> HIDE DEF r
<1>5. /\ n.path = Out(w) /\ n.item = e.item /\ n.index = e.index /\ n.rows = r
      /\ n.status = "completed"
  BY <1>1, EntryIs
<1>6. db'[w] = n
  BY <1>1, <1>2
<1> HIDE DEF n
<1>7. e.path = Out(w) /\ \A f \in DOMAIN e.rows : e.rows[f].at = Out(w)
  BY <1>1 DEF Agreed, Placed, Unfinished
<1>8. SamePlaces(w)
  BY <1>4, <1>5, <1>6, <1>7 DEF SamePlaces
<1>9. /\ disk'[Out(w)] = IF \E f \in waiting : e.rows[f].at = Out(w)
                           THEN IF disk[Out(w)] \in Whole THEN disk[Out(w)] ELSE "v1"
                           ELSE IF disk[Out(w)] = "none" THEN "partial" ELSE disk[Out(w)]
      /\ disk'[Old(w)] = disk[Old(w)]
  BY <1>1, <1>7 DEF Finish
<1>10. disk'[Out(w)] \in Whole
  <2>1. CASE disk[Out(w)] \in Whole
    BY <1>9, <2>1 DEF Whole
  <2>2. CASE disk[Out(w)] \notin Whole
    <3>1. \E f \in waiting : e.rows[f].at = Out(w)
      BY <1>1, <1>7, <2>2 DEF Agreed, Unfinished
    <3> QED BY <1>9, <2>2, <3>1 DEF Whole
  <2> QED BY <2>1, <2>2
<1>11. FoldersKept(w)
  BY <1>9, <1>10 DEF FoldersKept, Whole
<1>12. Unfinished(w)'
  BY <1>1, <1>10 DEF Unfinished, Out
<1> QED BY <1>1, <1>8, <1>11, <1>12, AgreementStays

\* A closeout gives up no row whose folder is there.
LEMMA CloseoutAgrees ==
  ASSUME LibraryInv, NEW w \in Works, Agreed(w), CloseoutApplied(w)
  PROVE  Agreed(w)'
<1> DEFINE e == db[w]
           r == [f \in DOMAIN e.rows |-> [e.rows[f] EXCEPT !.status = CloseoutStatus(e, f)]]
           n == [e EXCEPT !.rows = r]
<1>1. /\ UNCHANGED <<step, work, done, preserved, disk, running>> /\ running = {}
      /\ DOMAIN db = Works /\ e \in Entry
  BY DownloadsLeaveMigration DEF CloseoutApplied, CloseOut, LibraryInv, SharedTypeOK
<1>2. db' = [db EXCEPT ![w] = n]
  BY <1>1 DEF CloseoutApplied, CloseOut
<1>3. \A f \in DOMAIN e.rows : e.rows[f] \in Row /\ e.rows[f].at # NoFolder /\ Present(e.rows[f].at)
  BY <1>1, EntryRows, FolderTypes DEF Agreed, Placed, Present, Whole
<1>4. /\ DOMAIN r = DOMAIN e.rows
      /\ \A f \in DOMAIN e.rows : r[f].at = e.rows[f].at /\ r[f].status = CloseoutStatus(e, f)
  BY <1>3 DEF Row
<1>5. \A f \in DOMAIN e.rows : e.rows[f].status \in Pending => CloseoutStatus(e, f) \in Pending
  BY <1>3 DEF CloseoutStatus, Pending
<1> HIDE DEF r
<1>6. /\ n.path = e.path /\ n.item = e.item /\ n.index = e.index /\ n.rows = r
      /\ n.status = e.status
  BY <1>1, EntryIs
<1>7. db'[w] = n
  BY <1>1, <1>2
<1> HIDE DEF n
<1>8. SamePlaces(w)
  BY <1>4, <1>6, <1>7 DEF SamePlaces
<1>9. HasPending(e) => HasPending(db'[w])
  BY <1>4, <1>5, <1>6, <1>7 DEF HasPending
<1>10. Unfinished(w)'
  BY <1>1, <1>6, <1>7, <1>9 DEF Agreed, Unfinished, Out
<1> QED BY <1>1, <1>8, <1>10, SameFoldersKept, AgreementStays DEF Agreed, Moving, BeingMigrated

\* Rows that return to the queue stay where they are.
LEMMA BacklogAgrees ==
  ASSUME LibraryInv, NEW w \in Works, Agreed(w), BacklogSteps
  PROVE  Agreed(w)'
<1> DEFINE e == db[w]
           r == [f \in DOMAIN e.rows |->
                   IF e.rows[f].status \in GivenUp
                     THEN [e.rows[f] EXCEPT !.status = "queued"] ELSE e.rows[f]]
<1>1. /\ UNCHANGED <<step, work, done, preserved, disk, running>>
      /\ db'[w] = e \/ db'[w] = Requeued(e)
      /\ e \in Entry
  BY DEF BacklogSteps, Reenable, ReadBacklog, WriteBacklog, LibraryInv, SharedTypeOK, shared,
         migration
<1>2. CASE db'[w] = e
  BY <1>1, <1>2, SameFoldersKept, UntouchedStays
<1>3. CASE db'[w] = Requeued(e)
  <2>1. \A f \in DOMAIN e.rows : e.rows[f] \in Row
    BY <1>1, EntryRows
  <2>2. /\ DOMAIN r = DOMAIN e.rows
        /\ \A f \in DOMAIN e.rows :
             /\ r[f].at = e.rows[f].at
             /\ e.rows[f].status \in Pending => r[f].status \in Pending
             /\ e.rows[f].status = "queued" => r[f].status = "queued"
    BY <2>1 DEF Row, GivenUp, Pending
  <2>3. Requeued(e) = [e EXCEPT !.rows = r]
    BY DEF Requeued
  <2> HIDE DEF r
  <2>4. /\ db'[w].path = e.path /\ db'[w].item = e.item /\ db'[w].index = e.index
        /\ db'[w].rows = r /\ db'[w].status = e.status
    BY <1>1, <1>3, <2>3, EntryIs
  <2>5. SamePlaces(w)
    BY <2>2, <2>4 DEF SamePlaces
  <2>6. HasPending(e) => HasPending(db'[w])
    BY <2>2, <2>4 DEF HasPending
  <2>7. Unfinished(w)'
    BY <1>1, <2>2, <2>4, <2>6 DEF Agreed, Unfinished, Out
  <2> QED BY <1>1, <2>5, <2>7, SameFoldersKept, AgreementStays DEF Agreed, Moving, BeingMigrated
<1> QED BY <1>1, <1>2, <1>3

\* A download of another work writes neither the entry nor a folder of this
\* one, but for a folder that its rows wait in.
LEMMA OtherDownloadsAgree ==
  ASSUME LibraryInv, NEW w \in Works, NEW v \in Works, Agreed(w),
         \/ v # w /\ (Prepare(v) \/ Resume(v) \/ Stop(v) \/ Finish(v) \/ CloseoutApplied(v))
         \/ Lookup(v) \/ Expire(v)
  PROVE  Agreed(w)'
<1>1. /\ UNCHANGED <<step, work, done, preserved>>
      /\ w \in running' => w \in running
  BY DownloadsLeaveMigration
     DEF Lookup, Prepare, Resume, Stop, Finish, Expire, CloseoutApplied, CloseOut, shared
<1>2. /\ DOMAIN db = Works /\ DOMAIN disk = Folders
      /\ Old(w) \in Folders /\ Out(w) \in Folders
      /\ Out(v) # Old(w) /\ (v # w => Out(v) # Out(w))
  BY FolderTypes, FoldersDiffer DEF LibraryInv, SharedTypeOK
<1>3. db'[w] = db[w]
  BY <1>2 DEF Lookup, Prepare, Resume, Stop, Finish, Expire, CloseoutApplied, CloseOut, shared
<1>4. FoldersKept(w)
  <2>1. CASE Prepare(v) /\ v # w
    <3>1. disk'[Old(w)] = disk[Old(w)] /\ disk'[Out(w)] = disk[Out(w)]
      BY <1>2, <2>1 DEF Prepare
    <3> QED BY <3>1 DEF FoldersKept
  <2>2. CASE Finish(v) /\ v # w
    <3> DEFINE waiting == {f \in DOMAIN db[v].rows : db[v].rows[f].status = "queued"}
    <3>1. \A p \in {Old(w), Out(w)} :
            disk'[p] = IF \E f \in waiting : db[v].rows[f].at = p
                         THEN IF disk[p] \in Whole THEN disk[p] ELSE "v1"
                         ELSE disk[p]
      BY <1>2, <2>2 DEF Finish
    <3>2. \A f \in waiting : Present(db[v].rows[f].at)
      BY <2>2 DEF Finish
    <3>3. \A p \in {Old(w), Out(w)} :
            /\ disk[p] \in Whole => disk'[p] \in Whole
            /\ disk[p] # "none" => disk'[p] # "none"
            /\ disk[p] = "none" => disk'[p] = "none"
      BY <3>1, <3>2 DEF Present, Whole
    <3> QED BY <3>3 DEF FoldersKept
  <2>3. CASE Lookup(v) \/ Resume(v) \/ Stop(v) \/ CloseoutApplied(v) \/ Expire(v)
    BY <2>3, SameFoldersKept DEF Lookup, Resume, Stop, CloseoutApplied, CloseOut, Expire, shared
  <2> QED BY <2>1, <2>2, <2>3
<1> QED BY <1>1, <1>3, <1>4, UntouchedStays

LEMMA UserAgrees ==
  ASSUME LibraryInv, NEW w \in Works, Agreed(w),
         (\E p \in Folders : UserEdits(p)) \/ ProcessEnds
  PROVE  Agreed(w)'
<1>1. CASE ProcessEnds
  BY <1>1, SameFoldersKept, UntouchedStays DEF ProcessEnds, BeingMigrated
<1>2. ASSUME NEW p \in Folders, UserEdits(p) PROVE Agreed(w)'
  <2>1. UNCHANGED <<step, work, done, db, running, preserved>>
    BY <1>2 DEF UserEdits, NoTool, migration
  <2>2. FoldersKept(w)
    BY <1>2, FolderTypes DEF UserEdits, FoldersKept, LibraryInv, SharedTypeOK, Whole
  <2> QED BY <2>1, <2>2, UntouchedStays
<1> QED BY <1>1, <1>2

LEMMA ExceptionsStay == [Next]_vars => Excepted \subseteq Excepted'
<1> SUFFICES ASSUME [Next]_vars PROVE joined \subseteq joined' /\ overtaken \subseteq overtaken'
  BY DEF Excepted
<1>1. CASE \/ MigrationStarts \/ MigrationSteps \/ RebuildStarts \/ RebuildSteps \/ ToolStarts
           \/ CleanupSteps \/ BacklogSteps \/ SchedulerSteps \/ CallerLeaves \/ ProcessEnds
           \/ UNCHANGED vars
  BY <1>1 DEF MigrationStarts, MigrationSteps, RebuildStarts, RebuildSteps, ToolStarts,
    CleanupSteps, BacklogSteps, SchedulerSteps, CallerLeaves, ProcessEnds, vars, ghosts
<1>2. CASE \/ \E r \in Requests : Request(r) \/ Fetched(r)
           \/ \E p \in Folders : UserEdits(p)
           \/ \E w \in Works : \/ Lookup(w) \/ Prepare(w) \/ Resume(w) \/ Stop(w) \/ Finish(w)
                               \/ Expire(w) \/ CloseoutApplied(w)
  BY <1>2 DEF Request, Fetched, UserEdits, Lookup, Prepare, Resume, Stop, Finish, Expire,
    CloseoutApplied, ghosts
<1> QED BY <1>1, <1>2 DEF Next

LEMMA StepAgrees ==
  ASSUME Tracks # {}, LibraryInv, WholeInv, PlaceInv, [Next]_vars
  PROVE  PlaceInv'
<1> SUFFICES ASSUME NEW w \in Works, w \notin Excepted'
             PROVE  Agreed(w)'
  BY DoneComesLast DEF PlaceInv
<1>1. Agreed(w) /\ (done => step = "end") /\ w \notin joined' /\ w \notin overtaken'
  BY ExceptionsStay DEF PlaceInv, Excepted
<1>2. CASE MigrationStarts \/ MigrationSteps
  BY <1>1, <1>2, MigrateAgrees DEF MigrationStarts, MigrationSteps
<1>3. CASE RebuildSteps
  BY <1>1, <1>3, RebuildAgrees
<1>4. CASE BacklogSteps
  BY <1>1, <1>4, BacklogAgrees
<1>5. CASE \/ RebuildStarts \/ ToolStarts \/ CleanupSteps \/ SchedulerSteps \/ CallerLeaves
           \/ (\E r \in Requests : Request(r) \/ Fetched(r)) \/ UNCHANGED vars
  <2>1. UNCHANGED <<disk, db, running, preserved>>
    BY <1>5 DEF RebuildStarts, StartRebuild, ReadOnly, ToolStarts, ClearCache, SelectBacklog,
      AskReenable, ConfirmReenable, CancelReenable, Answered, CleanupSteps, Cleanup,
      PreviewCache, CompareCache, DeleteCache, SchedulerSteps, CallerLeaves, Request, Fetched,
      vars, shared
  <2>2. UNCHANGED <<step, work, done>>
    BY <1>5, ToolsKeepFolders DEF migration, vars
  <2> QED BY <1>1, <2>1, <2>2, SameFoldersKept, UntouchedStays
<1>6. ASSUME NEW v \in Works,
             \/ Lookup(v) \/ Prepare(v) \/ Resume(v) \/ Stop(v) \/ Finish(v)
             \/ Expire(v) \/ CloseoutApplied(v)
      PROVE  Agreed(w)'
  BY <1>1, <1>6, PrepareAgrees, ResumeAgrees, StopAgrees, FinishAgrees, CloseoutAgrees,
     OtherDownloadsAgree
<1>7. CASE (\E p \in Folders : UserEdits(p)) \/ ProcessEnds
  BY <1>1, <1>7, UserAgrees
<1> QED BY <1>2, <1>3, <1>4, <1>5, <1>6, <1>7 DEF Next

LEMMA FoundPlace ==
  ASSUME Init, NEW w \in Works
  PROVE  /\ db[w].path = Old(w) /\ \A f \in DOMAIN db[w].rows : db[w].rows[f].at = Old(w)
         /\ db[w].index \subseteq {Old(w)}
         /\ disk[Old(w)] = "v1"
<1>1. disk[Old(w)] = "v1"
  BY FolderTypes DEF Init, SharedInit, Old
<1>2. db[w] \in FoundEntries(w)
  BY DEF Init, SharedInit
<1> DEFINE rows(s) == [f \in Tracks |-> [at |-> Old(w), status |-> s]]
<1>3. ASSUME NEW s, NEW f \in DOMAIN rows(s) PROVE rows(s)[f].at = Old(w)
  BY <1>3
<1> HIDE DEF rows
<1>4. FoundEntries(w) =
        { [status |-> "completed", path |-> Old(w), item |-> NoFolder, index |-> {},
           rows |-> rows("registered")],
          [status |-> "verified", path |-> Old(w), item |-> Old(w), index |-> {Old(w)},
           rows |-> << >>],
          [status |-> "external", path |-> Old(w), item |-> Old(w), index |-> {Old(w)},
           rows |-> << >>],
          [status |-> "completed", path |-> Old(w), item |-> NoFolder, index |-> {Old(w)},
           rows |-> rows("stale")] }
  BY DEF FoundEntries, rows
<1>5. /\ db[w].path = Old(w) /\ db[w].index \subseteq {Old(w)}
      /\ db[w].rows \in {rows("registered"), rows("stale"), << >>}
  BY <1>2, <1>4
<1> QED BY <1>1, <1>3, <1>5

LEMMA PlaceInitHolds == Init => PlaceInv
<1> SUFFICES ASSUME Init, NEW w \in Works PROVE Agreed(w)
  BY DEF PlaceInv, Init, EngineInit
<1>1. step = "idle" /\ ~done /\ running = {} /\ preserved = {}
  BY DEF Init, EngineInit, SharedInit
<1>2. Placed(w) /\ Unfinished(w)
  BY <1>1, FoundPlace, FoldersDiffer DEF Placed, Unfinished, Whole
<1> QED BY <1>1, <1>2 DEF Agreed, Moving, Referred, SourceKept, Followed, BeingMigrated

LEMMA PlaceInvariant ==
  ASSUME Tracks # {}
  PROVE  Spec => [](LibraryInv /\ SafetyInv /\ PlaceInv)
<1>1. Init => PlaceInv
  BY PlaceInitHolds
<1>2. LibraryInv /\ SafetyInv /\ PlaceInv /\ [Next]_vars => PlaceInv'
  BY StepAgrees DEF SafetyInv
<1> QED BY <1>1, <1>2, SafetyInvariant, PTL DEF Spec

LEMMA AgreedNamesFolder == PlaceInv => TablesNameFolder
<1> SUFFICES ASSUME PlaceInv, NEW w \in Works \ Excepted,
                    ~BeingMigrated(w), w \notin running,
                    db[w].status \in {"completed", "verified", "indexed", "external"}
             PROVE  db[w].path # NoFolder /\ disk[db[w].path] \in Whole
  BY DEF TablesNameFolder, Excepted
<1>1. Placed(w) /\ Unfinished(w)
  BY DEF PlaceInv, Agreed
<1> QED BY <1>1, FolderTypes DEF Placed, Unfinished

\* A finished work is whole in the folder that the tables name, for any number
\* of works, migrations, rebuilds, downloads and faults, but for the works named
\* by joined and overtaken (validate_path_update compares the snapshot;
\* rebuild_library prefers the path it finds in the tables).
THEOREM TablesAlwaysName == ASSUME Tracks # {} PROVE Spec => []TablesNameFolder
BY PlaceInvariant, AgreedNamesFolder, PTL

-----------------------------------------------------------------------------
(* What a migration reports                                                 *)

IndexOwn == \A w \in Works : db[w].index \subseteq FoldersOf(w)

\* Without edits every whole folder is the same version.
Unedited ==
  edits = 0 =>
    /\ \A p \in Folders : disk[p] # "edited"
    /\ \A w \in Works : batch[w] # "edited"
    /\ manifest # "edited"

ReportInv == IndexOwn /\ Unedited

LEMMA SuccessIsVerified ==
  LibraryInv /\ SafetyInv /\ PlaceInv /\ ReportInv => SuccessVerifies
<1> SUFFICES ASSUME LibraryInv, SafetyInv, PlaceInv, ReportInv,
                    step = "end", done, work \notin Excepted, edits = 0
             PROVE  VerifiesMigrated(work)
  BY DEF SuccessVerifies, Excepted
<1>1. work \in Works /\ BeingMigrated(work) /\ Followed(work)
  BY MigrationWork DEF LibraryInv, BeingMigrated, Followed
<1>2. Agreed(work)
  BY <1>1 DEF PlaceInv
<1>3. /\ db[work].path = Out(work) /\ disk[Out(work)] \in Whole
      /\ \A f \in DOMAIN db[work].rows : db[work].rows[f].at = Out(work)
      /\ db[work].item \in {NoFolder, Out(work)}
      /\ Old(work) \notin db[work].index
      /\ IF work \in preserved THEN disk[Old(work)] \in Whole ELSE disk[Old(work)] = "none"
  BY <1>1, <1>2 DEF Agreed, Placed, Moving, Referred, SourceKept
<1>4. \A p \in db[work].index : RootOf(p) = "out"
  <2>1. db[work].index \subseteq {Out(work), Copying(work)}
    BY <1>1, <1>3 DEF ReportInv, IndexOwn, FoldersOf
  <2> QED BY <2>1 DEF RootOf, Out, Copying
<1>5. \A p \in Folders : disk[p] \in Whole => disk[p] = "v1"
  BY DEF ReportInv, Unedited, Whole
<1>6. Manifest(Out(work)) = "v1" /\ (disk[Old(work)] \in Whole => Manifest(Old(work)) = "v1")
  BY <1>1, <1>3, <1>5, FolderTypes DEF Manifest, Whole
<1> QED BY <1>3, <1>4, <1>6 DEF VerifiesMigrated, Present

\* What a step may do to the index of a work.
LEMMA IndexStep ==
  ASSUME LibraryInv, NEW w \in Works, [Next]_vars
  PROVE  db'[w].index \subseteq db[w].index \union FoldersOf(w)
<1>1. DOMAIN db = Works /\ db[w] \in Entry
  BY DEF LibraryInv, SharedTypeOK
<1>2. CASE MigrationStarts \/ MigrationSteps
  <2>1. CASE Update \/ Reverse
    <3>1. \/ db'[w] = db[w]
          \/ w = work /\ \E src, dst \in FoldersOf(w) : db'[w] = PathsMoved(db[w], src, dst, Tracks)
      BY <1>1, <2>1 DEF Update, Reverse, FoldersOf
    <3>2. \A src, dst \in FoldersOf(w) :
            PathsMoved(db[w], src, dst, Tracks).index \subseteq db[w].index \union FoldersOf(w)
      BY DEF PathsMoved
    <3> QED BY <3>1, <3>2
  <2>2. CASE ~(Update \/ Reverse)
    BY <1>2, <2>2 DEF MigrationStarts, Execute, MigrationSteps, Migrate, Begin, BatchEnds, Snapshot,
      SnapshotFails, Copy, CopyEnds, CopyFails, CheckStaging, CheckAbsent, Rename, CheckTarget,
      DeleteSource, DeleteFails, ReverseFails, Preserve, PreserveFails, Remove, RemoveFails, End,
      EndFails, DiskOnly, shared
  <2> QED BY <2>1, <2>2
<1>3. CASE RebuildSteps
  <2>1. db' = db \/ db'[w] = Reindexed(w)
    BY <1>3 DEF RebuildSteps, Rebuild, ScanRoot, ScanFails, CheckSeen, Choose, Replace,
      ReplaceFails, ReadOnly, shared
  <2> QED BY <2>1, ReindexedRows
<1>4. CASE BacklogSteps
  <2>1. db'[w] = db[w] \/ db'[w] = Requeued(db[w])
    BY <1>1, <1>4 DEF BacklogSteps, Reenable, ReadBacklog, WriteBacklog, shared
  <2> QED BY <1>1, <2>1, EntryIs DEF Requeued
<1>5. ASSUME NEW v \in Works,
             Prepare(v) \/ Resume(v) \/ Stop(v) \/ Finish(v) \/ CloseoutApplied(v)
      PROVE  db'[w].index = db[w].index
  <2>1. \E n : db' = [db EXCEPT ![v] = n] /\ n.index = db[v].index
    <3>1. db[v] \in Entry
      BY DEF LibraryInv, SharedTypeOK
    <3>2. CASE Prepare(v)
      <4>1. db' = [db EXCEPT ![v] = [db[v] EXCEPT !.status = "prepared", !.path = Out(v),
                                                  !.rows = PreparedRows(v)]]
        BY <1>1, <3>1, <3>2 DEF Prepare
      <4>2. [db[v] EXCEPT !.status = "prepared", !.path = Out(v),
                          !.rows = PreparedRows(v)].index = db[v].index
        BY <3>1, EntryIs
      <4> QED BY <4>1, <4>2
    <3>3. CASE Resume(v)
      <4>1. PICK s : db' = [db EXCEPT ![v] = [db[v] EXCEPT !.rows = ResumedRows(v), !.status = s]]
        BY <1>1, <3>1, <3>3 DEF Resume
      <4>2. [db[v] EXCEPT !.rows = ResumedRows(v), !.status = s].index = db[v].index
        BY <3>1, EntryIs
      <4> QED BY <4>1, <4>2
    <3>4. CASE Stop(v) \/ Finish(v) \/ CloseoutApplied(v)
      <4>1. PICK s, p, r :
              db' = [db EXCEPT ![v] = [db[v] EXCEPT !.status = s, !.path = p, !.rows = r]]
        <5>1. CASE Stop(v)
          <6>1. PICK end \in {"paused", "failed", "cancelled"} :
                  db' = [db EXCEPT ![v] = [db[v] EXCEPT !.rows = [f \in DOMAIN db[v].rows |->
                          IF db[v].rows[f].status \in Pending
                            THEN [db[v].rows[f] EXCEPT !.status = end] ELSE db[v].rows[f]],
                          !.status = IF end = "failed" THEN @ ELSE end]]
            BY <1>1, <5>1 DEF Stop
          <6> DEFINE r == [f \in DOMAIN db[v].rows |->
                          IF db[v].rows[f].status \in Pending
                            THEN [db[v].rows[f] EXCEPT !.status = end] ELSE db[v].rows[f]]
                     s == IF end = "failed" THEN db[v].status ELSE end
          <6> HIDE DEF r
          <6>2. db' = [db EXCEPT ![v] = [db[v] EXCEPT !.status = s, !.path = db[v].path,
                                                      !.rows = r]]
            BY <6>1, <3>1, EntryIs DEF r
          <6> QED BY <6>2
        <5>2. CASE Finish(v)
          BY <1>1, <5>2 DEF Finish
        <5>3. CASE CloseoutApplied(v)
          <6> DEFINE r == [f \in DOMAIN db[v].rows |->
                             [db[v].rows[f] EXCEPT !.status = CloseoutStatus(db[v], f)]]
          <6>1. db' = [db EXCEPT ![v] = [db[v] EXCEPT !.rows = r]]
            BY <1>1, <5>3 DEF CloseoutApplied, CloseOut
          <6> HIDE DEF r
          <6>2. [db[v] EXCEPT !.rows = r] =
                [db[v] EXCEPT !.status = db[v].status, !.path = db[v].path, !.rows = r]
            BY <3>1, EntryIs
          <6> QED BY <6>1, <6>2
        <5> QED BY <3>4, <5>1, <5>2, <5>3
      <4>2. [db[v] EXCEPT !.status = s, !.path = p, !.rows = r].index = db[v].index
        BY <3>1, EntryIs
      <4> QED BY <4>1, <4>2
    <3> QED BY <1>5, <3>2, <3>3, <3>4
  <2> QED BY <1>1, <2>1
<1>6. CASE UNCHANGED db
  BY <1>6
<1>7. CASE \/ RebuildStarts \/ ToolStarts \/ CleanupSteps \/ SchedulerSteps \/ CallerLeaves
           \/ (\E r \in Requests : Request(r) \/ Fetched(r)) \/ (\E p \in Folders : UserEdits(p))
           \/ (\E v \in Works : Lookup(v) \/ Expire(v)) \/ ProcessEnds \/ UNCHANGED vars
  <2>1. UNCHANGED db
    BY <1>7 DEF RebuildStarts, StartRebuild, ReadOnly, ToolStarts, ClearCache, SelectBacklog,
      AskReenable, ConfirmReenable, CancelReenable, Answered, CleanupSteps, Cleanup,
      PreviewCache, CompareCache, DeleteCache, SchedulerSteps, CallerLeaves, Request, Fetched,
      UserEdits, Lookup, Expire, ProcessEnds, vars, shared
  <2> QED BY <2>1
<1> QED BY <1>2, <1>3, <1>4, <1>5, <1>7 DEF Next

\* An edit is what makes a folder differ, and a migration copies what it found.
LEMMA UneditedStays ==
  ASSUME LibraryInv, Unedited, [Next]_vars
  PROVE  Unedited'
<1> SUFFICES ASSUME edits' = 0
             PROVE  /\ \A p \in Folders : disk'[p] # "edited"
                    /\ \A w \in Works : batch'[w] # "edited"
                    /\ manifest' # "edited"
  BY DEF Unedited
<1>1. DOMAIN disk = Folders /\ DOMAIN batch = Works /\ edits \in Nat
  BY LibraryAssumption DEF LibraryInv, SharedTypeOK, MigrationInv, EngineTypeOK
<1>2. CASE UNCHANGED <<disk, batch, manifest, edits>>
  BY <1>2 DEF Unedited
<1>3. CASE MigrationStarts \/ MigrationSteps
  <2>1. edits' = edits
    BY <1>3 DEF MigrationStarts, Execute, MigrationSteps, Migrate, Begin, BatchEnds, Snapshot,
      SnapshotFails, Copy, CopyEnds, CopyFails, CheckStaging, CheckAbsent, Rename, CheckTarget,
      Update, DeleteSource, DeleteFails, Reverse, ReverseFails, Preserve, PreserveFails, Remove,
      RemoveFails, End, EndFails, DiskOnly, bounds
  <2>2. /\ \A p \in Folders : disk[p] # "edited"
        /\ \A w \in Works : batch[w] # "edited"
        /\ manifest # "edited"
    BY <2>1 DEF Unedited
  <2>3. CASE Execute \/ BatchEnds \/ Snapshot \/ SnapshotFails \/ \E w \in Works : Begin(w)
    <3>1. disk' = disk
      BY <2>3 DEF Execute, BatchEnds, Snapshot, SnapshotFails, Begin, shared
    <3>2. CASE Execute
      BY <2>2, <3>1, <3>2, FolderTypes DEF Execute, Manifest
    <3>3. CASE BatchEnds \/ Snapshot \/ SnapshotFails \/ \E w \in Works : Begin(w)
      BY <1>1, <2>2, <3>1, <3>3 DEF BatchEnds, Snapshot, SnapshotFails, Begin
    <3> QED BY <2>3, <3>2, <3>3
  <2>4. CASE \/ CopyFails \/ CheckStaging \/ CheckAbsent \/ CheckTarget \/ Update \/ Reverse
             \/ ReverseFails \/ Preserve \/ PreserveFails
    BY <1>2, <2>1, <2>4 DEF CopyFails, CheckStaging, CheckAbsent, CheckTarget, Update, Reverse,
      ReverseFails, Preserve, PreserveFails, Goto, Finished, shared
  <2>5. CASE End \/ EndFails
    BY <1>1, <2>2, <2>5 DEF End, EndFails
  <2>6. CASE Copy \/ CopyEnds \/ Rename \/ DeleteSource \/ DeleteFails \/ Remove \/ RemoveFails
    <3>1. UNCHANGED <<batch, manifest>> /\ step \notin {"idle", "next"}
      BY <2>6 DEF Copy, CopyEnds, Rename, DeleteSource, DeleteFails, Remove, RemoveFails, Goto,
        Finished
    <3>2. Old(work) \in Folders /\ Out(work) \in Folders /\ Copying(work) \in Folders
      BY <3>1, MigrationWork DEF LibraryInv
    <3>3. \A p \in Folders : disk'[p] # "edited"
      <4>1. CASE Copy \/ Rename \/ DeleteSource \/ Remove
        BY <1>1, <2>2, <3>2, <4>1 DEF Copy, Rename, DeleteSource, Remove
      <4>2. CASE CopyEnds
        <5>1. PICK copy : copy # "edited" /\ disk' = [disk EXCEPT ![Copying(work)] = copy]
          BY <2>2, <3>2, <4>2 DEF CopyEnds
        <5> QED BY <1>1, <2>2, <5>1
      <4>3. CASE DeleteFails \/ RemoveFails
        <5>1. PICK left, q : left # "edited" /\ disk' = [disk EXCEPT ![q] = left]
          BY <2>2, <3>2, <4>3 DEF DeleteFails, RemoveFails
        <5> QED BY <1>1, <2>2, <5>1
      <4> QED BY <2>6, <4>1, <4>2, <4>3
    <3> QED BY <2>2, <3>1, <3>3
  <2> QED BY <1>3, <2>3, <2>4, <2>5, <2>6 DEF MigrationStarts, MigrationSteps, Migrate
<1>4. CASE \/ RebuildStarts \/ RebuildSteps \/ ToolStarts \/ CleanupSteps \/ BacklogSteps
           \/ SchedulerSteps \/ CallerLeaves \/ (\E r \in Requests : Request(r) \/ Fetched(r))
  <2>1. UNCHANGED <<disk, batch, manifest>>
    BY <1>4, ToolsKeepFolders DEF migration
  <2>2. edits' = edits
    BY <1>4 DEF RebuildStarts, RebuildSteps, StartRebuild, Rebuild, ScanRoot, ScanFails, CheckSeen,
      Choose, Replace, ReplaceFails, ReadOnly, ToolStarts, ClearCache, SelectBacklog, AskReenable,
      ConfirmReenable, CancelReenable, Answered, CleanupSteps, Cleanup, PreviewCache,
      CompareCache, DeleteCache, BacklogSteps, Reenable, ReadBacklog, WriteBacklog,
      SchedulerSteps, CallerLeaves, Request, Fetched, bounds
  <2> QED BY <1>2, <2>1, <2>2
<1>5. ASSUME NEW w \in Works,
             \/ Lookup(w) \/ Prepare(w) \/ Resume(w) \/ Stop(w) \/ Finish(w)
             \/ Expire(w) \/ CloseoutApplied(w)
      PROVE  Unedited'
  <2>1. UNCHANGED <<batch, manifest, edits>>
    BY <1>5 DEF Lookup, Prepare, Resume, Stop, Finish, Expire, CloseoutApplied, CloseOut, NoTool,
                migration, bounds
  <2>2. (\A p \in Folders : disk[p] # "edited") => \A p \in Folders : disk'[p] # "edited"
    BY <1>1, <1>5, FolderTypes
       DEF Lookup, Prepare, Resume, Stop, Finish, Expire, CloseoutApplied, CloseOut, shared
  <2> QED BY <2>1, <2>2 DEF Unedited
<1>6. CASE \E p \in Folders : UserEdits(p)
  BY <1>1, <1>6 DEF UserEdits
<1>7. CASE ProcessEnds
  BY <1>7 DEF ProcessEnds, bounds, Unedited
<1>8. CASE UNCHANGED vars
  BY <1>2, <1>8 DEF vars, shared, bounds, migration
<1> QED BY <1>3, <1>4, <1>5, <1>6, <1>7, <1>8 DEF Next, Unedited

\* A migration that says it succeeded is found in order by
\* verify_migrated_work, for any number of works and whatever the other tools
\* do, but for works that were joined or overtaken, and without edits by the
\* user (migrate_one reports success after the deletion or the entry of the
\* cleanup plan only).
THEOREM SuccessIsConfirmed == ASSUME Tracks # {} PROVE Spec => []SuccessVerifies
<1>1. Init => ReportInv
  <2>1. ASSUME Init PROVE IndexOwn
    BY <2>1, FoundPlace DEF IndexOwn, FoldersOf
  <2>2. Init => Unedited
    BY DEF Init, SharedInit, EngineInit, Unedited
  <2> QED BY <2>1, <2>2 DEF ReportInv
<1>2. LibraryInv /\ ReportInv /\ [Next]_vars => ReportInv'
  <2>1. ASSUME LibraryInv, IndexOwn, [Next]_vars PROVE IndexOwn'
    BY <2>1, IndexStep DEF IndexOwn, FoldersOf, Old, Out, Copying
  <2> QED BY <2>1, UneditedStays DEF ReportInv
<1>3. Spec => [](LibraryInv /\ SafetyInv /\ PlaceInv)
  BY PlaceInvariant
<1> QED BY <1>1, <1>2, <1>3, SuccessIsVerified, PTL DEF Spec
===============================================================================
