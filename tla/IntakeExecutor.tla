--------------------------- MODULE IntakeExecutor ---------------------------
(***************************************************************************)
(* ExternalIntakeSandboxExecutor (core/intake_fs.py, core/intake_journal.py,*)
(* core/intake_manifest.py): a work's folder is moved by a journalled      *)
(* transaction: copy to staging, verify, park the source, promote the      *)
(* staging, verify, update the tables (PathUpdate), remove the parked      *)
(* source.  A failed step is undone, and recover takes an interrupted      *)
(* transaction from its journal to one end or the other.                   *)
(*                                                                         *)
(* A folder's contents are a tree: absent, a whole version of the work     *)
(* (v1 as found; edited, with one file replaced by another of the same     *)
(* size; v2, with other files), "partial" for anything less, "other" for   *)
(* what is no part of the work.                                            *)
(***************************************************************************)
EXTENDS IntakePlanner, Sequences, FiniteSets

CONSTANTS
  Tx,           \* transaction ids, never used twice (uuid4)
  NoTx, Stranger,
  Batches,      \* sequences of requests the caller runs
  Held,         \* track files of a whole version
  Shapes,       \* what the folders look like to a scan
  MaxFaults,    \* steps that fail
  MaxCrashes,   \* ends of the process during a call
  MaxEdits      \* changes by the user and by the rest of the application

ASSUME IntakeAssumption ==
  /\ Folders = Works \X {"source", "target", "elsewhere"}
  /\ {NoTx, Stranger} \intersect Tx = {} /\ NoTx # Stranger
  /\ Batches \subseteq Seq(Tx)
  /\ \A s \in Batches : \A i, j \in DOMAIN s : s[i] = s[j] => i = j
  /\ Shapes \subseteq Shape
  /\ Held \in [{"v1", "edited", "v2"} -> SUBSET Tracks]
  /\ MaxFaults \in Nat /\ MaxCrashes \in Nat /\ MaxEdits \in Nat

VARIABLES
  source, target,          \* trees, by work
  staging, rollback,       \* trees, by transaction
  db,                      \* tables
  journal,                 \* state in the journal file, "none" without one
  shape,                   \* of the folder of each work
  scan,                    \* the last scan, by work: tree and action
  plan,                    \* what the planner saw: work, tree, rows
  pc, tx, mode,            \* position in execute or recover
  mem, after,              \* journal.state in memory; where a save returns to
  manifest, clean, go,     \* verification manifest; no undo error; success and not stop_required
  batch,                   \* requests left
  owner, mover, blind,     \* history, see below
  faults, crashes, edits

trees   == <<source, target, staging, rollback>>
planner == <<shape, scan, plan>>
call    == <<pc, tx, mode, mem, after, manifest, clean, go>>
history == <<owner, mover, blind>>
bounds  == <<faults, crashes, edits>>
vars    == <<trees, db, journal, planner, call, batch, history, bounds>>

Whole == {"v1", "edited", "v2"}
Tree  == {"none", "partial", "other"} \union Whole

\* journal.state: those of a transaction under way, and those of one that has
\* nothing more to do to the files.
UnderWay == {"planned", "started", "staged", "source_parked", "target_committed",
             "verified", "stop_required"}
Committed == {"db_updated", "cleanup_pending"}
Closed    == {"completed", "rolled_back"}
State     == {"none", "failed"} \union UnderWay \union Committed \union Closed

Position == {"idle", "next", "save", "validate", "plan", "start", "copy", "copying",
             "check", "park", "commit", "recheck", "update", "cleanup", "raise",
             "undo_target", "undo_source", "undo_staging", "undo_end", "finish"}

Plan == [work : Works, tree : Whole, entry : Entry]
NoPlan == [work |-> "none"]
Scan == [tree : Whole, action : Action]
NoScan == [tree |-> "none"]

IntakeTypeOK ==
  /\ source \in [Works -> Tree] /\ target \in [Works -> Tree]
  /\ staging \in [Tx -> Tree] /\ rollback \in [Tx -> Tree]
  /\ db \in [Works -> Entry]
  /\ journal \in [Tx -> State]
  /\ shape \in [Works -> Shapes]
  /\ scan \in [Works -> Scan \union {NoScan}]
  /\ plan \in [Tx -> Plan \union {NoPlan}]
  /\ pc \in Position /\ tx \in Tx \union {NoTx}
  /\ mode \in {"free", "try", "handler", "recover"}
  /\ mem \in State /\ after \in Position
  /\ manifest \in Tree /\ clean \in BOOLEAN /\ go \in BOOLEAN
  /\ batch \in Seq(Tx)
  /\ owner \in [Works -> Tx \union {NoTx, Stranger}]
  /\ mover \in [Works -> Tx \union {NoTx}]
  /\ blind \subseteq Tx
  /\ faults \in 0..MaxFaults /\ crashes \in 0..MaxCrashes /\ edits \in 0..MaxEdits

Src(w) == <<w, "source">>
Dst(w) == <<w, "target">>
Work   == plan[tx].work              \* of the current transaction

-----------------------------------------------------------------------------
(* What the tables may hold of a work whose folder is found: nothing but an  *)
(* index row, a downloaded work, the same with the row of a file that is not *)
(* in the folder, a work that is kept elsewhere.                             *)

RowAt(p, s) == [at |-> p, status |-> s]
InitialEntries(w) ==
  LET e(status, path, item, rows) ==
        [status |-> status, path |-> path, item |-> item,
         index |-> {Src(w)}, rows |-> rows]
      held == [f \in Held["v1"] |-> RowAt(Src(w), "completed")]
  IN  { e("none", NoFolder, NoFolder, << >>),
        e("verified", Src(w), Src(w), held),
        e("verified", Src(w), Src(w), [f \in Tracks |-> RowAt(Src(w), "completed")]),
        e("external", <<w, "elsewhere">>, <<w, "elsewhere">>, << >>) }

Init ==
  /\ source = [w \in Works |-> "v1"]
  /\ target \in [Works -> {"none", "other"}]
  /\ staging = [t \in Tx |-> "none"] /\ rollback = [t \in Tx |-> "none"]
  /\ db \in {d \in [Works -> UNION {InitialEntries(w) : w \in Works}] :
               \A w \in Works : d[w] \in InitialEntries(w)}
  /\ journal = [t \in Tx |-> "none"]
  /\ shape \in [Works -> Shapes]
  /\ scan = [w \in Works |-> NoScan]
  /\ plan = [t \in Tx |-> NoPlan]
  /\ pc = "idle" /\ tx = NoTx /\ mode = "free"
  /\ mem = "none" /\ after = "idle"
  /\ manifest = "none" /\ clean = TRUE /\ go = FALSE
  /\ batch = << >>
  /\ owner = [w \in Works |-> IF target[w] = "none" THEN NoTx ELSE Stranger]
  /\ mover = [w \in Works |-> NoTx]
  /\ blind = {}
  /\ faults = 0 /\ crashes = 0 /\ edits = 0

-----------------------------------------------------------------------------
(* Manifests.  A plan token changes with any file's path, size or time, so   *)
(* the tree stands for it.  A verification manifest has paths and sizes, and *)
(* digests of some files only.                                               *)

Visible(tree) == IF tree = "edited" THEN "v1" ELSE tree
Matches(expected, actual) == Visible(expected) = Visible(actual)

\* Identity mappings, completed and checked against the planned files.
MappedFiles == Held[plan[tx].tree]

-----------------------------------------------------------------------------
(* Steps.                                                                    *)

Goto(p) == pc' = p /\ UNCHANGED <<tx, mode, mem, after, manifest, clean, go>>

\* journal.transition(s), then _persist, then p.
Transition(s, p) ==
  /\ pc' = "save" /\ mem' = s /\ after' = p
  /\ UNCHANGED <<tx, mode, manifest, clean, go>>

Quiet == UNCHANGED <<db, journal, planner, batch, history, bounds>>
Fault == faults < MaxFaults /\ faults' = faults + 1

\* No call runs any more: what was in memory is gone, the batch with it.
Return ==
  /\ pc' = "idle" /\ tx' = NoTx /\ mode' = "free" /\ mem' = "none" /\ after' = "idle"
  /\ manifest' = "none" /\ clean' = TRUE /\ go' = FALSE
  /\ batch' = << >>

\* build_external_intake_plan reads the folders.  A scan keeps the manifest of
\* a whole folder.
ScanFolder(w) ==
  /\ pc = "idle"
  /\ source[w] \in Whole
  /\ scan' = [scan EXCEPT ![w] =
       [tree |-> source[w], action |-> Scanned(shape[w], target[w] # "none")]]
  /\ UNCHANGED <<trees, db, journal, shape, plan, call, batch, history, bounds>>

\* annotate_plan_with_database reads the tables, later, and
\* request_from_plan_action makes a request of an action it finds executable.
MakePlan(t, w) ==
  /\ pc = "idle"
  /\ plan[t] = NoPlan /\ scan[w] # NoScan
  /\ Executable(Annotated(scan[w].action, db[w], Src(w), Dst(w)))
  /\ plan' = [plan EXCEPT ![t] = [work |-> w, tree |-> scan[w].tree, entry |-> db[w]]]
  /\ UNCHANGED <<trees, db, journal, shape, scan, call, batch, history, bounds>>

StartBatch(s) ==
  /\ pc = "idle"
  /\ \A i \in DOMAIN s : plan[s[i]] # NoPlan /\ journal[s[i]] = "none"
  /\ batch' = s
  /\ pc' = "next" /\ tx' = NoTx
  /\ UNCHANGED <<mode, mem, after, manifest, clean, go>>
  /\ UNCHANGED <<trees, db, journal, planner, history, bounds>>

\* execute: _new_journal.
BeginItem ==
  /\ pc = "next" /\ batch # << >>
  /\ tx' = Head(batch) /\ batch' = Tail(batch)
  /\ pc' = "save" /\ mem' = "planned" /\ after' = "validate"
  /\ mode' = "free" /\ manifest' = "none" /\ clean' = TRUE /\ go' = FALSE
  /\ UNCHANGED <<trees, db, journal, planner, history, bounds>>

BatchEnds ==
  /\ pc = "next" /\ batch = << >>
  /\ Return
  /\ UNCHANGED <<trees, db, journal, planner, history, bounds>>

Save ==
  /\ pc = "save"
  /\ journal' = [journal EXCEPT ![tx] = mem]
  /\ Goto(after)
  /\ UNCHANGED <<trees, db, planner, batch, history, bounds>>

\* An exception inside try goes to the handler, any other to the caller.
SaveFails ==
  /\ pc = "save" /\ Fault
  /\ IF mode = "try" THEN Goto("raise") /\ UNCHANGED batch ELSE Return
  /\ UNCHANGED <<trees, db, journal, planner, history, crashes, edits>>

Valid ==
  /\ source[Work] # "none"
  /\ target[Work] = "none"
  /\ staging[tx] = "none" /\ rollback[tx] = "none"

Validate ==
  /\ pc = "validate"
  /\ IF Valid THEN Goto("plan") ELSE Transition("failed", "finish")
  /\ UNCHANGED trees /\ Quiet

ReadPlan ==
  /\ pc = "plan"
  /\ mode' = "try"
  /\ IF source[Work] = plan[tx].tree
       THEN pc' = "start" /\ UNCHANGED <<mem, after>>
       ELSE pc' = "save" /\ mem' = "failed" /\ after' = "finish"
  /\ UNCHANGED <<tx, manifest, clean, go>>
  /\ UNCHANGED trees /\ Quiet

\* The files are read again for their digests; each must have a mapping.
Start ==
  /\ pc = "start"
  /\ manifest' = source[Work]
  /\ IF source[Work] \in Whole /\ Held[source[Work]] \subseteq MappedFiles
       THEN pc' = "save" /\ mem' = "started" /\ after' = "copy"
       ELSE pc' = "raise" /\ UNCHANGED <<mem, after>>
  /\ UNCHANGED <<tx, mode, clean, go>>
  /\ UNCHANGED trees /\ Quiet

\* _copy_mapped_files, file by file.
Copy ==
  /\ pc = "copy"
  /\ staging' = [staging EXCEPT ![tx] = "partial"]
  /\ Goto("copying")
  /\ UNCHANGED <<source, target, rollback>> /\ Quiet

CopyEnds ==
  /\ pc = "copying"
  /\ \E copy \in IF Matches(manifest, source[Work]) THEN {manifest, source[Work]}
                  ELSE {"partial"} :
       staging' = [staging EXCEPT ![tx] = copy]
  /\ Goto("check")
  /\ UNCHANGED <<source, target, rollback>> /\ Quiet

CopyFails ==
  /\ pc = "copying" /\ Fault
  /\ Goto("raise")
  /\ UNCHANGED <<trees, db, journal, planner, batch, history, crashes, edits>>

CheckStaging ==
  /\ pc = "check"
  /\ IF Matches(manifest, staging[tx]) THEN Transition("staged", "park") ELSE Goto("raise")
  /\ UNCHANGED trees /\ Quiet

Park ==
  /\ pc = "park"
  /\ IF source[Work] # "none" /\ rollback[tx] = "none"
       THEN /\ rollback' = [rollback EXCEPT ![tx] = source[Work]]
            /\ source' = [source EXCEPT ![Work] = "none"]
            /\ Transition("source_parked", "commit")
       ELSE Goto("raise") /\ UNCHANGED <<source, rollback>>
  /\ UNCHANGED <<target, staging>> /\ Quiet

\* os.replace(staging, target): refused when a folder is there.
Commit ==
  /\ pc = "commit"
  /\ IF target[Work] = "none"
       THEN /\ target' = [target EXCEPT ![Work] = staging[tx]]
            /\ staging' = [staging EXCEPT ![tx] = "none"]
            /\ owner' = [owner EXCEPT ![Work] = tx]
            /\ Transition("target_committed", "recheck")
       ELSE Goto("raise") /\ UNCHANGED <<target, staging, owner>>
  /\ UNCHANGED <<source, rollback, db, journal, planner, batch, mover, blind, bounds>>

\* Either rename may fail.
RenameFails ==
  /\ pc \in {"park", "commit"} /\ Fault
  /\ Goto("raise")
  /\ UNCHANGED <<trees, db, journal, planner, batch, history, crashes, edits>>

CheckTarget ==
  /\ pc = "recheck"
  /\ IF Matches(manifest, target[Work]) THEN Transition("verified", "update") ELSE Goto("raise")
  /\ UNCHANGED trees /\ Quiet

UpdateDb ==
  LET w == Work
      allowed == PathUpdateAllowed(db, w, Src(w), Dst(w), plan[tx].entry, MappedFiles)
  IN
  /\ pc = "update"
  /\ IF allowed
       THEN /\ db' = [db EXCEPT ![w] = PathsMoved(@, Src(w), Dst(w), MappedFiles)]
            /\ mover' = [mover EXCEPT ![w] = tx]
            /\ Transition("db_updated", "cleanup")
       ELSE Goto("raise") /\ UNCHANGED <<db, mover>>
  /\ UNCHANGED <<trees, journal, planner, batch, owner, blind, bounds>>

\* A sqlite error rolls the transaction back.
UpdateDbFails ==
  /\ pc = "update" /\ Fault
  /\ Goto("raise")
  /\ UNCHANGED <<trees, db, journal, planner, batch, history, crashes, edits>>

\* shutil.rmtree(rollback), then success and the last state of the journal.
Cleanup ==
  /\ pc = "cleanup"
  /\ rollback' = [rollback EXCEPT ![tx] = "none"]
  /\ go' = TRUE
  /\ pc' = "save" /\ mem' = "completed" /\ after' = "finish"
  /\ UNCHANGED <<tx, mode, manifest, clean>>
  /\ UNCHANGED <<source, target, staging>> /\ Quiet

CleanupFails ==
  /\ pc = "cleanup" /\ rollback[tx] # "none" /\ Fault
  /\ \E left \in {rollback[tx], "partial"} : rollback' = [rollback EXCEPT ![tx] = left]
  /\ Transition("cleanup_pending", "finish")
  /\ UNCHANGED <<source, target, staging>>
  /\ UNCHANGED <<db, journal, planner, batch, history, crashes, edits>>

-----------------------------------------------------------------------------
(* The handler and _rollback_filesystem.                                     *)

\* The transactions that are undone although the tables follow them, or while
\* another's folder is at the target.
Undoing(t) ==
  blind' = IF \/ mover[plan[t].work] = t
              \/ target[plan[t].work] # "none" /\ owner[plan[t].work] # t
             THEN blind \union {t} ELSE blind

\* Mutant: the handler undoes a transaction the journal calls db_updated.
RaiseUndoesAll ==
  /\ pc = "raise"
  /\ mode' = "handler"
  /\ pc' = "undo_target" /\ clean' = TRUE
  /\ UNCHANGED <<mem, after, go, blind>>
  /\ UNCHANGED <<tx, manifest>>
  /\ UNCHANGED <<trees, db, journal, planner, batch, owner, mover, bounds>>

\* except Exception: what the tables already follow is kept.
Raise ==
  /\ pc = "raise"
  /\ mode' = "handler"
  /\ IF mem = "db_updated"
       THEN /\ pc' = "save" /\ mem' = "cleanup_pending" /\ after' = "finish"
            /\ go' = FALSE
            /\ UNCHANGED <<clean, blind>>
       ELSE /\ pc' = "undo_target" /\ clean' = TRUE
            /\ Undoing(tx)
            /\ UNCHANGED <<mem, after, go>>
  /\ UNCHANGED <<tx, manifest>>
  /\ UNCHANGED <<trees, db, journal, planner, batch, owner, mover, bounds>>

Removed(ok, p) == pc' = p /\ clean' = (clean /\ ok)
                  /\ UNCHANGED <<tx, mode, mem, after, manifest, go>>

UndoTarget ==
  /\ pc = "undo_target"
  /\ target' = [target EXCEPT ![Work] = "none"]
  /\ owner' = [owner EXCEPT ![Work] = NoTx]
  /\ Removed(TRUE, "undo_source")
  /\ UNCHANGED <<source, staging, rollback>>
  /\ UNCHANGED <<db, journal, planner, batch, mover, blind, bounds>>

UndoTargetFails ==
  /\ pc = "undo_target" /\ target[Work] # "none" /\ Fault
  /\ \E left \in {target[Work], "partial"} : target' = [target EXCEPT ![Work] = left]
  /\ Removed(FALSE, "undo_source")
  /\ UNCHANGED <<source, staging, rollback>>
  /\ UNCHANGED <<db, journal, planner, batch, history, crashes, edits>>

UndoSource ==
  /\ pc = "undo_source"
  /\ IF rollback[tx] = "none" THEN UNCHANGED <<source, rollback>> /\ Removed(TRUE, "undo_staging")
     ELSE IF source[Work] # "none"
       THEN UNCHANGED <<source, rollback>> /\ Removed(FALSE, "undo_staging")
     ELSE /\ source' = [source EXCEPT ![Work] = rollback[tx]]
          /\ rollback' = [rollback EXCEPT ![tx] = "none"]
          /\ Removed(TRUE, "undo_staging")
  /\ UNCHANGED <<target, staging>> /\ Quiet

UndoSourceFails ==
  /\ pc = "undo_source" /\ rollback[tx] # "none" /\ Fault
  /\ Removed(FALSE, "undo_staging")
  /\ UNCHANGED <<trees, db, journal, planner, batch, history, crashes, edits>>

UndoStaging ==
  /\ pc = "undo_staging"
  /\ staging' = [staging EXCEPT ![tx] = "none"]
  /\ Removed(TRUE, "undo_end")
  /\ UNCHANGED <<source, target, rollback>> /\ Quiet

UndoStagingFails ==
  /\ pc = "undo_staging" /\ staging[tx] # "none" /\ Fault
  /\ staging' = [staging EXCEPT ![tx] = "partial"]
  /\ Removed(FALSE, "undo_end")
  /\ UNCHANGED <<source, target, rollback>>
  /\ UNCHANGED <<db, journal, planner, batch, history, crashes, edits>>

\* recover looks at the folders too.
Undone == clean /\ (mode = "recover" => source[Work] # "none" /\ target[Work] = "none")

\* Mutant: what could not be undone is tried again at once.
UndoEndRetries ==
  /\ pc = "undo_end"
  /\ IF Undone THEN pc' = "save" /\ after' = "finish" /\ mem' = "rolled_back"
     ELSE pc' = "undo_target" /\ UNCHANGED <<after, mem>>
  /\ clean' = TRUE
  /\ UNCHANGED <<tx, mode, manifest, go>>
  /\ UNCHANGED trees /\ Quiet

UndoEnd ==
  /\ pc = "undo_end"
  /\ pc' = "save" /\ after' = "finish"
  /\ IF Undone THEN mem' = "rolled_back" /\ UNCHANGED go
     ELSE mem' = "stop_required" /\ go' = FALSE
  /\ UNCHANGED <<tx, mode, manifest, clean>>
  /\ UNCHANGED trees /\ Quiet

\* Mutant: the batch goes on after an item that failed.
FinishGoesOn ==
  /\ pc = "finish"
  /\ IF mode # "recover" THEN Goto("next") /\ UNCHANGED batch ELSE Return
  /\ UNCHANGED <<trees, db, journal, planner, history, bounds>>

\* execute_batch, stop_on_failure.
Finish ==
  /\ pc = "finish"
  /\ IF mode # "recover" /\ go THEN Goto("next") /\ UNCHANGED batch ELSE Return
  /\ UNCHANGED <<trees, db, journal, planner, history, bounds>>

-----------------------------------------------------------------------------
(* recover, and what happens around a call.                                  *)

\* Mutant: cleanup_pending is undone like the states before the commit.
RecoverUndoesPending(t) ==
  /\ pc = "idle" /\ journal[t] \notin Closed \union {"none"}
  /\ tx' = t /\ mode' = "recover" /\ manifest' = "none" /\ clean' = TRUE /\ go' = FALSE
  /\ pc' = IF journal[t] = "db_updated" THEN "cleanup" ELSE "undo_target"
  /\ mem' = journal[t]
  /\ IF journal[t] \in Committed THEN UNCHANGED blind ELSE Undoing(t)
  /\ UNCHANGED <<after, trees, db, journal, planner, batch, owner, mover, bounds>>

\* Mutant: a completed transaction is undone too.
RecoverUndoesCompleted(t) ==
  /\ pc = "idle" /\ journal[t] \notin {"none", "rolled_back"}
  /\ tx' = t /\ mode' = "recover" /\ manifest' = "none" /\ clean' = TRUE /\ go' = FALSE
  /\ pc' = IF journal[t] \in Committed THEN "cleanup" ELSE "undo_target"
  /\ mem' = journal[t]
  /\ IF journal[t] \in Committed THEN UNCHANGED blind ELSE Undoing(t)
  /\ UNCHANGED <<after, trees, db, journal, planner, batch, owner, mover, bounds>>

\* A closed transaction is returned as it is.
Recover(t) ==
  /\ pc = "idle" /\ journal[t] \notin Closed \union {"none"}
  /\ tx' = t /\ mode' = "recover" /\ manifest' = "none" /\ clean' = TRUE /\ go' = FALSE
  /\ IF journal[t] \in Committed
       THEN IF target[plan[t].work] = "none"
              THEN /\ pc' = "save" /\ mem' = "stop_required" /\ after' = "finish"
                   /\ UNCHANGED blind
              ELSE pc' = "cleanup" /\ mem' = journal[t] /\ UNCHANGED <<after, blind>>
       ELSE /\ pc' = "undo_target" /\ mem' = journal[t] /\ UNCHANGED after
            /\ Undoing(t)
  /\ UNCHANGED <<trees, db, journal, planner, batch, owner, mover, bounds>>

\* The process ends; what is in memory is lost.
Crash ==
  /\ pc # "idle" /\ crashes < MaxCrashes
  /\ crashes' = crashes + 1
  /\ Return
  /\ UNCHANGED <<trees, db, journal, planner, history, faults, edits>>

\* The user changes the files of a folder.
UserEdits(w) ==
  /\ edits < MaxEdits /\ edits' = edits + 1
  /\ \E tree \in {"edited", "v2"} :
       \/ source[w] = "v1" /\ source' = [source EXCEPT ![w] = tree] /\ UNCHANGED target
       \/ target[w] = "v1" /\ target' = [target EXCEPT ![w] = tree] /\ UNCHANGED source
  /\ UNCHANGED <<staging, rollback, db, journal, planner, call, batch, history, faults, crashes>>

\* The user puts another folder where the work is to go.
UserPlaces(w) ==
  /\ edits < MaxEdits /\ edits' = edits + 1
  /\ target[w] = "none"
  /\ target' = [target EXCEPT ![w] = "other"]
  /\ owner' = [owner EXCEPT ![w] = Stranger]
  /\ UNCHANGED <<source, staging, rollback, db, journal, planner, call, batch,
                 mover, blind, faults, crashes>>

\* The application queues a file of the work again.
QueueRow(w, f) ==
  /\ edits < MaxEdits /\ edits' = edits + 1
  /\ f \in DOMAIN db[w].rows /\ db[w].rows[f].status = "completed"
  /\ db' = [db EXCEPT ![w].rows[f].status = "queued"]
  /\ UNCHANGED <<trees, journal, planner, call, batch, history, faults, crashes>>

Step ==
  \/ BeginItem \/ BatchEnds \/ Save \/ SaveFails \/ Validate \/ ReadPlan \/ Start
  \/ Copy \/ CopyEnds \/ CopyFails \/ CheckStaging \/ Park \/ Commit \/ RenameFails
  \/ CheckTarget \/ UpdateDb \/ UpdateDbFails \/ Cleanup \/ CleanupFails \/ Raise
  \/ UndoTarget \/ UndoTargetFails \/ UndoSource \/ UndoSourceFails
  \/ UndoStaging \/ UndoStagingFails \/ UndoEnd \/ Finish

Next ==
  \/ Step
  \/ \E w \in Works : ScanFolder(w)
  \/ \E t \in Tx, w \in Works : MakePlan(t, w)
  \/ \E s \in Batches : StartBatch(s)
  \/ \E t \in Tx : Recover(t)
  \/ Crash
  \/ \E w \in Works : UserEdits(w) \/ UserPlaces(w)
  \/ \E w \in Works, f \in Tracks : QueueRow(w, f)

Spec == Init /\ [][Next]_vars
\* A call that has begun goes on unless the process ends.
FairSpec == Spec /\ WF_vars(Step)

-----------------------------------------------------------------------------
(* Properties.                                                               *)

\* Copies of a work outside a staging folder.
TxOf(w)   == {t \in Tx : plan[t] # NoPlan /\ plan[t].work = w}
Copies(w) == {source[w], target[w]} \union {rollback[t] : t \in TxOf(w)}

\* At every moment of every call, whatever fails, a whole version of the work
\* is in its source, its target or a parked source: execute never removes the
\* last one.  Transactions undone blindly are the exception (blind).
SomeCopySurvives == \A w \in Works : blind = {} => Copies(w) \intersect Whole # {}

\* Once no call runs, the folder that works.local_path names is there and whole
\* for a work none of whose transactions is left half done: tables and folders
\* have moved together or not at all.
SettledAgrees ==
  \A w \in Works :
    /\ pc = "idle" /\ blind = {}
    /\ \A t \in TxOf(w) : journal[t] \notin UnderWay
    => /\ db[w].path = Src(w) => source[w] \in Whole
       /\ db[w].path = Dst(w) => target[w] \in Whole

\* execute_batch stops at the first item that did not complete: the journal of
\* an item left behind says completed (unless it was undone blindly).
BatchStopsAtFailure ==
  pc = "next" /\ tx # NoTx => journal[tx] = "completed" \/ tx \in blind

\* A call comes to its end, whatever fails in it.
CallEnds == (pc # "idle") ~> (pc = "idle")

\* The end of a transaction, as its journal tells it.
Verdict(t) ==
  IF t \in blind THEN "torn"
  ELSE IF journal[t] = "completed"   THEN "moved"
  ELSE IF journal[t] = "rolled_back" THEN "kept"
  ELSE "open"

Move == INSTANCE AtomicMove WITH mover <- mover, verdict <- [t \in Tx |-> Verdict(t)]

\* The tables follow a work once, by one transaction, and the journal's last
\* word says truly whether they did: execute, its handler and recover, with
\* crashes between any two of their steps, implement AtomicMove.
ImplementsAtomicMove == Move!Spec

\* recover's docstring, "Recover a transaction interrupted before or after DB
\* commit": after it the folder that the tables name exists.
RecoveryHealsTables ==
  \A w \in Works : \A t \in TxOf(w) :
    pc = "idle" /\ journal[t] = "rolled_back"
      => /\ db[w].path = Src(w) => source[w] # "none"
         /\ db[w].path = Dst(w) => target[w] # "none"
=============================================================================
