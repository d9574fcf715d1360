---------------------------- MODULE MigrationEngine ----------------------------
(***************************************************************************)
(* MigrationEngine (core/migration.py, core/migration_manifest.py) and the *)
(* handlers of tools_view that run it: a batch of works is moved from old  *)
(* disks to output_dir, one after the other: validate, copy to staging,    *)
(* compare with the manifest, rename to the target, compare again, update  *)
(* the tables (PathUpdate), then delete the source or note it in the       *)
(* cleanup plan.                                                           *)
(***************************************************************************)
EXTENDS LibraryState

CONSTANT NoWork

VARIABLES
  step,         \* position in migrate_execute and migrate_one
  batch,        \* planned tree of each work still to do, "none" for the others
  barred,       \* active_or_queued, read once for the batch
  deletes,      \* not keep_source_mode
  work,         \* the work being migrated
  manifest,     \* of its source
  token,        \* its rows: preimage, then postimage
  done          \* success

migration == <<step, batch, barred, deletes, work, manifest, token, done>>

Steps == {"idle", "next", "snapshot", "copy", "copying", "check", "absent", "rename",
          "recheck", "update", "delete", "reverse", "preserve", "remove", "end"}
NoRows == [status |-> "none"]

EngineTypeOK ==
  /\ step \in Steps
  /\ batch \in [Works -> {"none"} \union Whole]
  /\ barred \subseteq Works /\ deletes \in BOOLEAN
  /\ work \in Works \union {NoWork}
  /\ manifest \in {"none"} \union Whole
  /\ token \in Entry \union {NoRows}
  /\ done \in BOOLEAN

EngineInit ==
  /\ step = "idle"
  /\ batch = [w \in Works |-> "none"] /\ barred = {} /\ deletes = FALSE
  /\ work = NoWork /\ manifest = "none" /\ token = NoRows
  /\ done = FALSE

Goto(s) == step' = s /\ UNCHANGED <<batch, barred, deletes, work, manifest, token, done>>
DiskOnly == UNCHANGED <<db, cache, running, preserved, edits>>

\* build_migration_manifest: a tree with .part files or without files has none.
Manifest(folder) == IF disk[folder] \in Whole THEN disk[folder] ELSE "none"

\* compare_manifest_to_tree.  A large file is sampled: an edit may escape.
Compared(folder) ==
  IF disk[folder] = manifest THEN {TRUE}
  ELSE IF disk[folder] \in Whole THEN BOOLEAN
  ELSE {FALSE}

\* get_safe_migratable_works.
IsSafeToMove(w) ==
  db[w].status \in {"completed", "verified"} /\ ~HasPending(db[w])

\* scan_candidates: source is works.local_path, target has its name under
\* output_dir.
Candidate(w) ==
  /\ IsSafeToMove(w)
  /\ db[w].path = Old(w) /\ Manifest(Old(w)) # "none"
  /\ ~Present(Out(w))

\* validate_migration_request.
Validated(w) ==
  /\ w \notin barred
  /\ IsSafeToMove(w)
  /\ ~Present(Out(w))
  /\ Manifest(Old(w)) = batch[w]

\* migrate_execute: dry_run, then the candidates that validate, up to
\* batch_limit of them.  The engine validates each again before it begins.
Execute ==
  /\ step = "idle"
  /\ \E chosen \in (SUBSET {w \in Works : Candidate(w) /\ w \notin running}) \ {{}} :
       batch' = [w \in Works |-> IF w \in chosen THEN Manifest(Old(w)) ELSE "none"]
  /\ deletes' \in BOOLEAN
  /\ barred' = running
  /\ step' = "next"
  /\ UNCHANGED <<work, manifest, token, done, shared, bounds>>

\* Mutant: a work that is refused stays in the batch.
BeginKeepsRefused(w) ==
  /\ step = "next" /\ batch[w] # "none" /\ Validated(w)
  /\ batch' = [batch EXCEPT ![w] = "none"]
  /\ step' = "snapshot" /\ work' = w /\ manifest' = batch[w]
  /\ UNCHANGED <<barred, deletes, token, done, shared, bounds>>

Begin(w) ==
  /\ step = "next" /\ batch[w] # "none"
  /\ batch' = [batch EXCEPT ![w] = "none"]
  /\ IF Validated(w)
       THEN step' = "snapshot" /\ work' = w /\ manifest' = batch[w]
       ELSE UNCHANGED <<step, work, manifest>>
  /\ UNCHANGED <<barred, deletes, token, done, shared, bounds>>

\* The batch goes on after a failure, stop_required or not.
BatchEnds ==
  /\ step = "next" /\ \A w \in Works : batch[w] = "none"
  /\ step' = "idle" /\ barred' = {} /\ deletes' = FALSE
  /\ UNCHANGED <<batch, work, manifest, token, done, shared, bounds>>

Snapshot ==
  /\ step = "snapshot"
  /\ token' = db[work] /\ step' = "copy"
  /\ UNCHANGED <<batch, barred, deletes, work, manifest, done, shared, bounds>>

\* The read of the snapshot is outside of the try: the batch ends.
SnapshotFails ==
  /\ step = "snapshot" /\ Fault
  /\ batch' = [w \in Works |-> "none"] /\ barred' = {} /\ deletes' = FALSE
  /\ step' = "idle" /\ work' = NoWork /\ manifest' = "none"
  /\ UNCHANGED <<token, done, shared, edits>>

\* _copy_dir, file by file into a new folder.
Copy ==
  /\ step = "copy"
  /\ disk' = [disk EXCEPT ![Copying(work)] = "partial"]
  /\ Goto("copying")
  /\ UNCHANGED faults /\ DiskOnly

CopyEnds ==
  /\ step = "copying"
  /\ \E copy \in IF disk[Old(work)] \in Whole THEN {manifest, disk[Old(work)]} ELSE {"partial"} :
       disk' = [disk EXCEPT ![Copying(work)] = copy]
  /\ Goto("check")
  /\ UNCHANGED faults /\ DiskOnly

\* Any exception before the tables have followed.
CopyFails ==
  /\ step \in {"copy", "copying", "check", "absent", "rename", "recheck", "update"}
  /\ Fault
  /\ Goto("remove")
  /\ UNCHANGED <<shared, edits>>

CheckStaging ==
  /\ step = "check"
  /\ \E same \in Compared(Copying(work)) : Goto(IF same THEN "absent" ELSE "end")
  /\ UNCHANGED <<shared, bounds>>

CheckAbsent ==
  /\ step = "absent"
  /\ Goto(IF Present(Out(work)) THEN "end" ELSE "rename")
  /\ UNCHANGED <<shared, bounds>>

\* On Windows os.replace does not replace a folder.
Rename ==
  /\ step = "rename"
  /\ IF Present(Out(work))
       THEN Goto("remove") /\ UNCHANGED disk
       ELSE /\ disk' = [disk EXCEPT ![Out(work)] = disk[Copying(work)],
                                    ![Copying(work)] = "none"]
            /\ Goto("recheck")
  /\ UNCHANGED faults /\ DiskOnly

CheckTarget ==
  /\ step = "recheck"
  /\ \E same \in Compared(Out(work)) : Goto(IF same THEN "update" ELSE "remove")
  /\ UNCHANGED <<shared, bounds>>

\* _update_db_paths.
Update ==
  /\ step = "update"
  /\ IF PathUpdateAllowed(db, work, Old(work), Out(work), token, Tracks)
       THEN /\ db' = [db EXCEPT ![work] = PathsMoved(@, Old(work), Out(work), Tracks)]
            /\ step' = IF deletes THEN "delete" ELSE "preserve"
       ELSE step' = "remove" /\ UNCHANGED db
  /\ token' = db'[work]
  /\ UNCHANGED <<batch, barred, deletes, work, manifest, done>>
  /\ UNCHANGED <<disk, cache, running, preserved, bounds>>

Finished == done' = TRUE /\ step' = "end"
            /\ UNCHANGED <<batch, barred, deletes, work, manifest, token>>

DeleteSource ==
  /\ step = "delete"
  /\ disk' = [disk EXCEPT ![Old(work)] = "none"]
  /\ Finished
  /\ UNCHANGED faults /\ DiskOnly

\* Mutant: a source that lost files is given back to the tables.
DeleteFailsReversed ==
  /\ step = "delete" /\ Fault
  /\ \E left \in {disk[Old(work)], "partial"} : disk' = [disk EXCEPT ![Old(work)] = left]
  /\ Goto("reverse")
  /\ DiskOnly

\* The tables are given back only a source that is what the manifest says.
DeleteFails ==
  /\ step = "delete" /\ Fault
  /\ \E left \in {disk[Old(work)], "partial"} :
       /\ disk' = [disk EXCEPT ![Old(work)] = left]
       /\ Goto(IF left = manifest THEN "reverse" ELSE "end")
  /\ DiskOnly

\* _reverse_db_paths.
Reverse ==
  /\ step = "reverse"
  /\ IF PathUpdateAllowed(db, work, Out(work), Old(work), token, Tracks)
       THEN /\ db' = [db EXCEPT ![work] = PathsMoved(@, Out(work), Old(work), Tracks)]
            /\ Goto("remove")
       ELSE Goto("end") /\ UNCHANGED db
  /\ UNCHANGED <<disk, cache, running, preserved, bounds>>

\* Mutant: the cleanup plan does not learn of the source that stays.
PreserveForgets ==
  /\ step = "preserve"
  /\ Finished
  /\ UNCHANGED <<disk, db, cache, running, preserved, bounds>>

ReverseFails ==
  /\ step = "reverse" /\ Fault
  /\ Goto("end")
  /\ UNCHANGED <<shared, edits>>

\* _append_cleanup_plan.
Preserve ==
  /\ step = "preserve"
  /\ preserved' = preserved \union {work}
  /\ Finished
  /\ UNCHANGED <<disk, db, cache, running, bounds>>

PreserveFails ==
  /\ step = "preserve" /\ Fault
  /\ Goto("end")
  /\ UNCHANGED <<shared, edits>>

\* _remove_tree, also by the handler of an exception before the tables have
\* followed: whatever is at the target then, it goes.
Remove ==
  /\ step = "remove"
  /\ disk' = [disk EXCEPT ![Out(work)] = "none"]
  /\ Goto("end")
  /\ UNCHANGED faults /\ DiskOnly

RemoveFails ==
  /\ step = "remove" /\ Present(Out(work)) /\ Fault
  /\ \E left \in {disk[Out(work)], "partial"} : disk' = [disk EXCEPT ![Out(work)] = left]
  /\ Goto("end")
  /\ DiskOnly

\* finally: the staging folder goes.
End ==
  /\ step = "end"
  /\ disk' = [disk EXCEPT ![Copying(work)] = "none"]
  /\ step' = "next"
  /\ work' = NoWork /\ manifest' = "none" /\ token' = NoRows
  /\ done' = FALSE
  /\ UNCHANGED <<batch, barred, deletes, faults>> /\ DiskOnly

\* The staging folder cannot be removed.
EndFails ==
  /\ step = "end" /\ Present(Copying(work)) /\ Fault
  /\ disk' = [disk EXCEPT ![Copying(work)] = "partial"]
  /\ step' = "next"
  /\ work' = NoWork /\ manifest' = "none" /\ token' = NoRows
  /\ done' = FALSE
  /\ UNCHANGED <<batch, barred, deletes>> /\ DiskOnly

\* A batch that has begun goes on.
Migrate ==
  \/ \E w \in Works : Begin(w)
  \/ BatchEnds \/ Snapshot \/ SnapshotFails \/ Copy \/ CopyEnds \/ CopyFails \/ CheckStaging
  \/ CheckAbsent \/ Rename \/ CheckTarget \/ Update \/ DeleteSource \/ DeleteFails
  \/ Reverse \/ ReverseFails \/ Preserve \/ PreserveFails \/ Remove \/ RemoveFails
  \/ End \/ EndFails

\* verify_migrated_work, for a work whose local_path is under output_dir.
VerifiesMigrated(w) ==
  LET path == db[w].path IN
  /\ path \in {Out(w), Copying(w)} /\ Manifest(path) # "none"
  /\ \A f \in DOMAIN db[w].rows : db[w].rows[f].at = path
  /\ db[w].item \in {NoFolder, Out(w), Copying(w)}
  /\ \A p \in db[w].index : RootOf(p) = "out"
  /\ IF w \in preserved THEN Manifest(Old(w)) = Manifest(path)
     ELSE "old" \in Roots => ~Present(Old(w))
=============================================================================
