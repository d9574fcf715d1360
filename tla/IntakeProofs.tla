------------------------------ MODULE IntakeProofs ------------------------------
(***************************************************************************)
(* IntakeExecutor for every value of its constants: its types, what its    *)
(* journalled move never does to a work, and that it implements AtomicMove.*)
(*                                                                         *)
(* Each property needs more than itself: what the journal and the memory   *)
(* of the call say must agree with what the tables did (MoveInv), the      *)
(* position of the call must say which copies are whole (SurvivalInv),     *)
(* a parked source must have a journal (ParkedInv).                        *)
(***************************************************************************)
EXTENDS IntakeExecutor, PathUpdateProofs

\* Where the call is, or comes to once the journal is written.
At(p) == pc = p \/ (pc = "save" /\ after = p)
Undo == {"undo_target", "undo_source", "undo_staging", "undo_end"}

\* The call: it has a planned transaction that is not closed yet.
CallInv ==
  /\ pc = "idle" => tx = NoTx /\ batch = << >>
  /\ pc \notin {"idle", "next"} => tx # NoTx
  /\ tx # NoTx => plan[tx] # NoPlan
  /\ \A t \in Tx : journal[t] # "none" => plan[t] # NoPlan
  /\ pc \notin {"idle", "next", "finish"} => journal[tx] \notin Closed
  /\ pc = "save" =>
       /\ after \in {"validate", "copy", "park", "commit", "recheck", "update", "cleanup", "finish"}
       /\ mem \in Closed => after = "finish"
  /\ mode = "recover" => batch = << >> /\ pc \notin {"idle", "next"}

\* The requests left are planned, new and different.
BatchInv ==
  /\ \A i \in DOMAIN batch :
       plan[batch[i]] # NoPlan /\ journal[batch[i]] = "none" /\ batch[i] # tx
  /\ \A i, j \in DOMAIN batch : batch[i] = batch[j] => i = j

\* What the journal and its copy in memory call committed, the tables follow.
JournalInv ==
  /\ \A t \in Tx : journal[t] \in Committed => mover[plan[t].work] = t
  /\ tx # NoTx /\ mem \in Committed \union {"completed"} => mover[Work] = tx
  /\ At("cleanup") => mem \in Committed
  /\ pc \in Undo \/ (pc = "save" /\ mem = "rolled_back") => tx \in blind \/ mover[Work] # tx

\* A transaction undone blindly is never taken up again by execute, and has a
\* journal from then on.
Forward == {"validate", "plan", "start", "copy", "copying", "check", "park", "commit", "recheck",
            "update", "raise"}
BlindInv ==
  /\ \A t \in blind : journal[t] # "none"
  /\ tx \in blind => mode \in {"handler", "recover"}
  /\ (\E p \in Forward : At(p)) => mode \in {"free", "try"}
  /\ pc \notin {"idle", "next", "save"} => journal[tx] # "none"
  /\ mode = "try" /\ tx # NoTx => journal[tx] # "none"
  /\ pc = "save" => mem # "none"

\* What the tables follow has left its source.
MoverInv ==
  \A w \in Works : mover[w] # NoTx =>
    /\ plan[mover[w]] # NoPlan /\ plan[mover[w]].work = w
    /\ ~References(db[w], Src(w))

Typed   == IntakeTypeOK /\ CallInv /\ BatchInv
MoveInv == JournalInv /\ BlindInv /\ MoverInv

\* The copies of the transaction under way, position by position.
CopyInv ==
  /\ (\E p \in {"copy", "copying", "check", "park", "commit", "recheck"} : At(p))
       => manifest \in Whole
  /\ At("park") \/ At("commit") => staging[tx] \in Whole
  /\ At("recheck") \/ At("update") => target[Work] \in Whole /\ owner[Work] = tx
  /\ blind = {} /\ pc \in Undo => mover[Work] = NoTx

\* A work that the tables have not moved is whole in its source or parked; one
\* that they have is whole in its target.
SomeCopy(w) ==
  IF mover[w] = NoTx THEN source[w] \in Whole \/ \E t \in TxOf(w) : rollback[t] \in Whole
  ELSE target[w] \in Whole /\ owner[w] = mover[w]

SurvivalInv == CopyInv /\ (blind = {} => \A w \in Works : SomeCopy(w))

\* A parked source belongs to a transaction whose journal says so.
ParkedInv ==
  /\ \A t \in Tx : rollback[t] # "none" => journal[t] \in UnderWay \union Committed
  /\ pc = "save" /\ rollback[tx] # "none" => mem \in UnderWay \union Committed
  /\ (\E p \in {"validate", "plan", "start", "copy", "copying", "check", "park"} : At(p))
       => rollback[tx] = "none"
  /\ pc = "park" => journal[tx] \in UnderWay
  /\ pc = "save" /\ after = "park" => mem \in UnderWay
  /\ pc \in {"undo_staging", "undo_end"} /\ clean => rollback[tx] = "none"
  /\ \A w \in Works : db[w].path = Dst(w) => mover[w] # NoTx

\* A batch goes on only after a completed request.
BatchGoesInv ==
  /\ pc = "next" /\ tx # NoTx => go
  /\ tx # NoTx /\ go =>
       \/ tx \in blind
       \/ pc \in {"save", "raise"} /\ mem = "completed"
       \/ pc \in {"finish", "next"} /\ journal[tx] = "completed"

-----------------------------------------------------------------------------
(* Types                                                                    *)

LEMMA WorkFolders ==
  ASSUME NEW w \in Works
  PROVE  Src(w) \in Folders /\ Dst(w) \in Folders /\ Src(w) # Dst(w)
BY IntakeAssumption DEF Src, Dst

\* The transaction of a call is a planned one.
LEMMA CallTypes ==
  ASSUME IntakeTypeOK, CallInv, tx # NoTx
  PROVE  /\ tx \in Tx /\ plan[tx] \in Plan
         /\ Work \in Works /\ plan[tx].tree \in Whole /\ plan[tx].entry \in Entry
BY DEF IntakeTypeOK, CallInv, Work, Plan

LEMMA ScannedType ==
  ASSUME NEW s \in Shape, NEW taken \in BOOLEAN
  PROVE  Scanned(s, taken) \in Action
<1>1. /\ \A c \in Classification : Classified(c) \in Action
      /\ \A c \in Classification, b \in BOOLEAN : ForReview(c, b) \in Action
  BY DEF Classified, ForReview, Action
<1>2. UniqueDir(s, taken) \in Action
  BY <1>1 DEF UniqueDir, Classification, Shape
<1>3. \A a \in Action : WithManifest(a, s) \in Action
  BY <1>1 DEF WithManifest, Classification
<1> QED BY <1>1, <1>2, <1>3 DEF Scanned, Classification

LEMMA RequeuedRow ==
  ASSUME NEW e \in Entry, NEW f \in DOMAIN e.rows
  PROVE  [e EXCEPT !.rows[f].status = "queued"] \in Entry
<1> DEFINE r == [e.rows EXCEPT ![f].status = "queued"]
<1>1. e.rows[f] \in Row /\ e.rows \in [DOMAIN e.rows -> Row]
  BY EntryRows, RowTableIs
<1>2. [e.rows[f] EXCEPT !.status = "queued"] \in Row
  BY <1>1, RowRestated DEF RowStatuses
<1>3. r \in [DOMAIN e.rows -> Row]
  BY <1>1, <1>2
<1>4. r \in RowTables
  BY <1>3, EntryRows, IsRowTable
<1>5. [e EXCEPT !.rows[f].status = "queued"] = [e EXCEPT !.rows = r]
  OBVIOUS
<1> HIDE DEF r
<1> QED BY <1>4, <1>5, RowsReplaced

\* The types in four parts: folders, tables and plans, the call, history.
TreesOK ==
  /\ source \in [Works -> Tree] /\ target \in [Works -> Tree]
  /\ staging \in [Tx -> Tree] /\ rollback \in [Tx -> Tree]
TablesOK ==
  /\ db \in [Works -> Entry] /\ journal \in [Tx -> State]
  /\ shape \in [Works -> Shapes] /\ scan \in [Works -> Scan \union {NoScan}]
  /\ plan \in [Tx -> Plan \union {NoPlan}]
CallOK ==
  /\ pc \in Position /\ tx \in Tx \union {NoTx}
  /\ mode \in {"free", "try", "handler", "recover"}
  /\ mem \in State /\ after \in Position
  /\ manifest \in Tree /\ clean \in BOOLEAN /\ go \in BOOLEAN
  /\ batch \in Seq(Tx)
HistoryOK ==
  /\ owner \in [Works -> Tx \union {NoTx, Stranger}]
  /\ mover \in [Works -> Tx \union {NoTx}]
  /\ blind \subseteq Tx
  /\ faults \in 0..MaxFaults /\ crashes \in 0..MaxCrashes /\ edits \in 0..MaxEdits

LEMMA TypeParts ==
  /\ IntakeTypeOK <=> TreesOK /\ TablesOK /\ CallOK /\ HistoryOK
  /\ IntakeTypeOK' <=> TreesOK' /\ TablesOK' /\ CallOK' /\ HistoryOK'
BY DEF IntakeTypeOK, TreesOK, TablesOK, CallOK, HistoryOK

LEMMA PartsStay ==
  /\ TreesOK /\ UNCHANGED trees => TreesOK'
  /\ TablesOK /\ UNCHANGED <<db, journal, planner>> => TablesOK'
  /\ CallOK /\ UNCHANGED <<call, batch>> => CallOK'
  /\ HistoryOK /\ UNCHANGED <<history, bounds>> => HistoryOK'
BY DEF TreesOK, TablesOK, CallOK, HistoryOK, trees, planner, call, history, bounds

\* A fault is counted.
LEMMA FaultStays ==
  HistoryOK /\ Fault /\ UNCHANGED <<history, crashes, edits>> => HistoryOK'
BY IntakeAssumption DEF HistoryOK, Fault, history

LEMMA GotoType == ASSUME CallOK, NEW p \in Position, Goto(p), UNCHANGED batch PROVE CallOK'
BY DEF CallOK, Goto

LEMMA TransitionType ==
  ASSUME CallOK, NEW s \in State, NEW p \in Position, Transition(s, p), UNCHANGED batch
  PROVE  CallOK'
BY DEF CallOK, Transition, Position

LEMMA ReturnType == Return => CallOK'
<1>1. "idle" \in Position /\ "none" \in State /\ "none" \in Tree
  BY DEF Position, State, Tree
<1>2. << >> \in Seq(Tx)
  OBVIOUS
<1> QED BY <1>1, <1>2 DEF Return, CallOK

\* Steps of a call that touch no folder.
LEMMA PlainTypes ==
  ASSUME IntakeTypeOK,
         \/ BatchEnds \/ SaveFails \/ Validate \/ ReadPlan \/ CopyFails \/ CheckStaging
         \/ RenameFails \/ CheckTarget \/ UpdateDbFails \/ UndoEnd \/ Finish \/ Crash
  PROVE  IntakeTypeOK'
<1> USE TypeParts
<1>1. TreesOK' /\ TablesOK'
  BY PartsStay DEF BatchEnds, SaveFails, Validate, ReadPlan, CopyFails, CheckStaging, RenameFails,
    CheckTarget, UpdateDbFails, UndoEnd, Finish, Crash, Quiet
<1>2. HistoryOK'
  <2>1. CASE Crash
    BY <2>1, IntakeAssumption DEF Crash, HistoryOK, history
  <2>2. CASE ~Crash
    BY <2>2, PartsStay, FaultStays DEF BatchEnds, SaveFails, Validate, ReadPlan, CopyFails,
      CheckStaging, RenameFails, CheckTarget, UpdateDbFails, UndoEnd, Finish, Quiet
  <2> QED BY <2>1, <2>2
<1>3. CallOK'
  <2>1. CASE BatchEnds \/ Crash
    BY <2>1, ReturnType DEF BatchEnds, Crash
  <2>2. CASE SaveFails \/ Finish
    <3>1. "raise" \in Position /\ "next" \in Position
      BY DEF Position
    <3> QED BY <2>2, <3>1, ReturnType, GotoType DEF SaveFails, Finish
  <2>3. CASE Validate \/ CheckStaging \/ CheckTarget
    <3>1. {"raise", "plan", "finish", "park", "update"} \subseteq Position
      BY DEF Position
    <3>2. {"failed", "staged", "verified"} \subseteq State
      BY DEF State, UnderWay
    <3> QED BY <2>3, <3>1, <3>2, TransitionType, GotoType
         DEF Validate, CheckStaging, CheckTarget, Quiet
  <2>4. CASE CopyFails \/ RenameFails \/ UpdateDbFails
    <3>1. "raise" \in Position
      BY DEF Position
    <3> QED BY <2>4, <3>1, GotoType DEF CopyFails, RenameFails, UpdateDbFails
  <2>5. CASE ReadPlan \/ UndoEnd
    <3>1. {"start", "save", "finish"} \subseteq Position
      BY DEF Position
    <3>2. {"failed", "rolled_back", "stop_required"} \subseteq State
      BY DEF State, UnderWay, Closed
    <3>3. CASE ReadPlan
      BY <3>1, <3>2, <3>3 DEF ReadPlan, CallOK, Quiet
    <3>4. CASE UndoEnd
      BY <3>1, <3>2, <3>4 DEF UndoEnd, CallOK, Quiet
    <3> QED BY <2>5, <3>3, <3>4
  <2> QED BY <2>1, <2>2, <2>3, <2>4, <2>5
<1> QED BY <1>1, <1>2, <1>3

LEMMA RecordTypes ==
  ASSUME IntakeTypeOK, CallInv,
         \/ BeginItem \/ Save \/ Start \/ Raise
         \/ \E t \in Tx : Recover(t)
         \/ \E s \in Batches : StartBatch(s)
  PROVE  IntakeTypeOK'
<1> USE TypeParts
<1>1. TreesOK'
  BY PartsStay DEF BeginItem, Save, Start, Raise, Recover, StartBatch
<1>2. TablesOK'
  <2>1. CASE Save
    BY <2>1, TypeParts DEF Save, TablesOK, CallOK, planner
  <2>2. CASE ~Save
    BY <2>2, PartsStay DEF BeginItem, Start, Raise, Recover, StartBatch, Quiet
  <2> QED BY <2>1, <2>2
<1>3. HistoryOK'
  <2>1. CASE Raise \/ \E t \in Tx : Recover(t)
    <3>1. Raise => tx \in Tx
      BY CallTypes DEF Raise, CallInv
    <3>2. blind' \subseteq Tx
      BY <2>1, <3>1 DEF Raise, Recover, Undoing, HistoryOK
    <3> QED BY <2>1, <3>2 DEF Raise, Recover, HistoryOK, bounds
  <2>2. CASE BeginItem \/ Save \/ Start \/ \E s \in Batches : StartBatch(s)
    BY <2>2, PartsStay DEF BeginItem, Save, Start, StartBatch, Quiet
  <2> QED BY <2>1, <2>2
<1>4. CallOK'
  <2>0. /\ {"next", "save", "validate", "copy", "raise", "undo_target", "finish", "cleanup"}
             \subseteq Position
        /\ {"planned", "started", "cleanup_pending", "stop_required"} \subseteq State
        /\ "none" \in Tree
    BY DEF Position, State, UnderWay, Committed, Tree
  <2>1. CASE BeginItem
    <3>1. Head(batch) \in Tx /\ Tail(batch) \in Seq(Tx)
      BY <2>1 DEF BeginItem, CallOK
    <3> QED BY <2>0, <2>1, <3>1 DEF BeginItem, CallOK
  <2>2. CASE Save
    BY <2>2, GotoType DEF Save, CallOK
  <2>3. CASE Start
    <3>1. source[Work] \in Tree
      BY <2>3, CallTypes DEF Start, CallInv, TreesOK
    <3> QED BY <2>0, <2>3, <3>1 DEF Start, CallOK, Quiet
  <2>4. CASE Raise
    BY <2>0, <2>4 DEF Raise, CallOK
  <2>5. ASSUME NEW t \in Tx, Recover(t) PROVE CallOK'
    <3>1. journal[t] \in State
      BY DEF TablesOK
    <3> QED BY <2>0, <2>5, <3>1 DEF Recover, CallOK
  <2>6. ASSUME NEW s \in Batches, StartBatch(s) PROVE CallOK'
    BY <2>0, <2>6, IntakeAssumption DEF StartBatch, CallOK
  <2> QED BY <2>1, <2>2, <2>3, <2>4, <2>5, <2>6
<1> QED BY <1>1, <1>2, <1>3, <1>4

\* Steps that move, copy and remove folders.
LEMMA FolderSteps ==
  ASSUME IntakeTypeOK, CallInv,
         \/ Copy \/ CopyEnds \/ Park \/ Commit \/ Cleanup \/ CleanupFails
         \/ UndoTarget \/ UndoTargetFails \/ UndoSource \/ UndoSourceFails
         \/ UndoStaging \/ UndoStagingFails
  PROVE  IntakeTypeOK'
<1> USE TypeParts
<1>1. tx \in Tx /\ Work \in Works
  BY CallTypes
     DEF CallInv, Copy, CopyEnds, Park, Commit, Cleanup, CleanupFails, UndoTarget,
         UndoTargetFails, UndoSource, UndoSourceFails, UndoStaging, UndoStagingFails
<1>2. TablesOK'
  BY PartsStay DEF Copy, CopyEnds, Park, Commit, Cleanup, CleanupFails, UndoTarget,
     UndoTargetFails, UndoSource, UndoSourceFails, UndoStaging, UndoStagingFails, Quiet
<1>3. HistoryOK'
  <2>1. CASE Commit \/ UndoTarget
    BY <1>1, <2>1 DEF Commit, UndoTarget, HistoryOK, bounds
  <2>2. CASE ~(Commit \/ UndoTarget)
    BY <2>2, PartsStay, FaultStays DEF Copy, CopyEnds, Park, Cleanup, CleanupFails,
     UndoTargetFails, UndoSource, UndoSourceFails, UndoStaging, UndoStagingFails, Quiet
  <2> QED BY <2>1, <2>2
<1>4. CallOK'
  <2>0. /\ {"copying", "check", "commit", "raise", "recheck", "save", "finish", "undo_source",
            "undo_staging", "undo_end"} \subseteq Position
        /\ {"source_parked", "target_committed", "completed", "cleanup_pending"} \subseteq State
    BY DEF Position, State, UnderWay, Committed, Closed
  <2>1. UNCHANGED batch
    BY DEF Copy, CopyEnds, Park, Commit, Cleanup, CleanupFails, UndoTarget, UndoTargetFails,
       UndoSource, UndoSourceFails, UndoStaging, UndoStagingFails, Quiet
  <2>2. CASE Copy \/ CopyEnds \/ Park \/ Commit \/ CleanupFails
    BY <2>0, <2>1, <2>2, GotoType, TransitionType DEF Copy, CopyEnds, Park, Commit, CleanupFails
  <2>3. CASE Cleanup
    BY <2>0, <2>1, <2>3 DEF Cleanup, CallOK
  <2>4. ASSUME NEW ok \in BOOLEAN, NEW p \in Position, Removed(ok, p) PROVE CallOK'
    BY <2>1, <2>4 DEF Removed, CallOK
  <2>5. CASE \/ UndoTarget \/ UndoTargetFails \/ UndoSource \/ UndoSourceFails
             \/ UndoStaging \/ UndoStagingFails
    BY <2>0, <2>4, <2>5 DEF UndoTarget, UndoTargetFails, UndoSource, UndoSourceFails, UndoStaging,
      UndoStagingFails
  <2> QED BY <2>2, <2>3, <2>5
<1>5. TreesOK'
  <2> USE <1>1 DEF TreesOK
  <2>1. "none" \in Tree /\ "partial" \in Tree
    BY DEF Tree
  <2>2. CASE Copy \/ Park \/ UndoSourceFails
    BY <2>1, <2>2 DEF Copy, Park, UndoSourceFails, trees
  <2>3. CASE CopyEnds
    BY <2>1, <2>3 DEF CopyEnds, CallOK
  <2>4. CASE Commit
    BY <2>1, <2>4 DEF Commit
  <2>5. CASE Cleanup \/ CleanupFails \/ UndoTarget \/ UndoTargetFails
    BY <2>1, <2>5 DEF Cleanup, CleanupFails, UndoTarget, UndoTargetFails
  <2>6. CASE UndoSource \/ UndoStaging \/ UndoStagingFails
    BY <2>1, <2>6 DEF UndoSource, UndoStaging, UndoStagingFails
  <2> QED BY <2>2, <2>3, <2>4, <2>5, <2>6
<1> QED BY <1>2, <1>3, <1>4, <1>5

\* Steps that write the tables or the plan, and those of others.
LEMMA TableTypes ==
  ASSUME IntakeTypeOK, CallInv,
         \/ UpdateDb
         \/ \E w \in Works : ScanFolder(w) \/ UserEdits(w) \/ UserPlaces(w)
         \/ \E t \in Tx, w \in Works : MakePlan(t, w)
         \/ \E w \in Works, f \in Tracks : QueueRow(w, f)
  PROVE  IntakeTypeOK'
<1> USE TypeParts
<1>1. CASE UpdateDb
  <2>1. tx \in Tx /\ Work \in Works /\ db[Work] \in Entry
    BY <1>1, CallTypes DEF UpdateDb, CallInv, TablesOK
  <2>2. PathsMoved(db[Work], Src(Work), Dst(Work), MappedFiles) \in Entry
    BY <2>1, WorkFolders, MovedEntry
  <2>3. db' \in [Works -> Entry] /\ mover' \in [Works -> Tx \union {NoTx}]
    BY <1>1, <2>1, <2>2 DEF UpdateDb, TablesOK, HistoryOK
  <2>4. TablesOK' /\ HistoryOK' /\ TreesOK'
    BY <1>1, <2>3, PartsStay DEF UpdateDb, TablesOK, HistoryOK, planner, bounds
  <2>5. {"raise", "cleanup"} \subseteq Position /\ "db_updated" \in State
    BY DEF Position, State, Committed
  <2>6. CallOK'
    BY <1>1, <2>5, GotoType, TransitionType DEF UpdateDb
  <2> QED BY <2>4, <2>6
<1>2. ASSUME NEW w \in Works, ScanFolder(w) PROVE IntakeTypeOK'
  <2>1. Scanned(shape[w], target[w] # "none") \in Action
    BY <1>2, ScannedType, IntakeAssumption DEF TablesOK
  <2>2. [tree |-> source[w], action |-> Scanned(shape[w], target[w] # "none")] \in Scan
    BY <1>2, <2>1 DEF ScanFolder, Scan, TreesOK
  <2>3. TablesOK'
    BY <1>2, <2>2 DEF ScanFolder, TablesOK
  <2> QED BY <1>2, <2>3, PartsStay DEF ScanFolder, call
<1>3. ASSUME NEW w \in Works, UserEdits(w) \/ UserPlaces(w) PROVE IntakeTypeOK'
  <2>1. TablesOK' /\ CallOK'
    BY <1>3, PartsStay DEF UserEdits, UserPlaces
  <2>2. HistoryOK'
    BY <1>3, IntakeAssumption DEF UserEdits, UserPlaces, HistoryOK, history
  <2>3. {"edited", "v2", "other"} \subseteq Tree
    BY DEF Tree, Whole
  <2>4. TreesOK'
    BY <1>3, <2>3 DEF UserEdits, UserPlaces, TreesOK
  <2> QED BY <2>1, <2>2, <2>4
<1>4. ASSUME NEW t \in Tx, NEW w \in Works, MakePlan(t, w) PROVE IntakeTypeOK'
  <2>1. scan[w] \in Scan
    BY <1>4 DEF MakePlan, TablesOK
  <2>2. [work |-> w, tree |-> scan[w].tree, entry |-> db[w]] \in Plan
    BY <2>1 DEF Scan, Plan, TablesOK
  <2>3. TablesOK'
    BY <1>4, <2>2 DEF MakePlan, TablesOK
  <2> QED BY <1>4, <2>3, PartsStay DEF MakePlan, call
<1>5. ASSUME NEW w \in Works, NEW f \in Tracks, QueueRow(w, f) PROVE IntakeTypeOK'
  <2>1. [db[w] EXCEPT !.rows[f].status = "queued"] \in Entry
    BY <1>5, RequeuedRow DEF QueueRow, TablesOK
  <2>2. db' \in [Works -> Entry]
    BY <1>5, <2>1 DEF QueueRow, TablesOK
  <2>3. TablesOK' /\ TreesOK' /\ CallOK'
    BY <1>5, <2>2, PartsStay DEF QueueRow, TablesOK, planner
  <2>4. HistoryOK'
    BY <1>5, IntakeAssumption DEF QueueRow, HistoryOK, history
  <2> QED BY <2>3, <2>4
<1> QED BY <1>1, <1>2, <1>3, <1>4, <1>5

-----------------------------------------------------------------------------
(* The call and its batch                                                   *)

\* A step within a transaction.
LEMMA CallGoesOn ==
  ASSUME IntakeTypeOK, CallInv, BatchInv,
         pc \notin {"idle", "next", "finish"}, pc' \notin {"idle", "next"},
         UNCHANGED <<tx, journal, plan, batch>>,
         mode' = "recover" => mode = "recover",
         pc' = "save" =>
           /\ after' \in {"validate", "copy", "park", "commit", "recheck", "update", "cleanup",
                          "finish"}
           /\ mem' \in Closed => after' = "finish"
  PROVE  CallInv' /\ BatchInv'
BY DEF CallInv, BatchInv

\* The end of a call.
LEMMA CallReturns ==
  ASSUME IntakeTypeOK, CallInv, Return, UNCHANGED <<journal, plan>>
  PROVE  CallInv' /\ BatchInv'
BY DEF Return, CallInv, BatchInv

\* A step that is no step of a call.
LEMMA CallStays ==
  ASSUME IntakeTypeOK, CallInv, BatchInv, UNCHANGED <<call, batch, journal>>,
         \A t \in Tx : plan[t] # NoPlan => plan'[t] # NoPlan
  PROVE  CallInv' /\ BatchInv'
<1>1. CallInv'
  BY DEF CallInv, call, IntakeTypeOK
<1>2. \A i \in DOMAIN batch : batch[i] \in Tx
  BY DEF IntakeTypeOK
<1>3. BatchInv'
  BY <1>2 DEF BatchInv, call
<1> QED BY <1>1, <1>3

LEMMA SaveKeepsCall ==
  ASSUME IntakeTypeOK, CallInv, BatchInv, Save
  PROVE  CallInv' /\ BatchInv'
<1>1. tx \in Tx /\ tx # NoTx
  BY CallTypes DEF Save, CallInv
<1>2. /\ journal'[tx] = mem /\ \A t \in Tx \ {tx} : journal'[t] = journal[t]
      /\ UNCHANGED <<tx, plan, batch, mode>> /\ pc' = after
  BY <1>1 DEF Save, Goto, IntakeTypeOK, planner
<1>3. CallInv'
  BY <1>1, <1>2 DEF Save, CallInv
<1>4. \A i \in DOMAIN batch : batch[i] \in Tx
  BY DEF IntakeTypeOK
<1>5. BatchInv'
  BY <1>1, <1>2, <1>4 DEF BatchInv
<1> QED BY <1>3, <1>5

LEMMA BatchKeepsCall ==
  ASSUME IntakeTypeOK, CallInv, BatchInv,
         \/ BeginItem
         \/ \E s \in Batches : StartBatch(s)
         \/ \E t \in Tx : Recover(t)
  PROVE  CallInv' /\ BatchInv'
<1>1. CASE BeginItem
  <2>1. /\ batch # << >> /\ batch \in Seq(Tx)
        /\ tx' = batch[1] /\ batch' = Tail(batch) /\ UNCHANGED <<journal, plan>>
        /\ pc' = "save" /\ mem' = "planned" /\ after' = "validate" /\ mode' = "free"
    BY <1>1 DEF BeginItem, IntakeTypeOK, planner
  <2>2. /\ \A i \in DOMAIN batch' : i + 1 \in DOMAIN batch /\ batch'[i] = batch[i + 1] /\ i + 1 # 1
        /\ 1 \in DOMAIN batch /\ tx' \in Tx
        /\ \A i, j \in DOMAIN batch' : i + 1 = j + 1 => i = j
    BY <2>1
  <2>3. CallInv'
    BY <2>1, <2>2, IntakeAssumption DEF CallInv, BatchInv, Closed
  <2>4. BatchInv'
    BY <2>1, <2>2 DEF BatchInv
  <2> QED BY <2>3, <2>4
<1>2. ASSUME NEW s \in Batches, StartBatch(s) PROVE CallInv' /\ BatchInv'
  <2>1. \A i \in DOMAIN s : s[i] \in Tx /\ s[i] # NoTx
    BY IntakeAssumption
  <2>2. CallInv'
    BY <1>2 DEF StartBatch, CallInv, planner
  <2>3. BatchInv'
    BY <1>2, <2>1, IntakeAssumption DEF StartBatch, BatchInv, planner
  <2> QED BY <2>2, <2>3
<1>3. ASSUME NEW t \in Tx, Recover(t) PROVE CallInv' /\ BatchInv'
  <2>1. batch = << >> /\ plan[t] # NoPlan
    BY <1>3 DEF Recover, CallInv
  <2>2. CallInv'
    BY <1>3, <2>1, IntakeAssumption DEF Recover, CallInv, planner, Closed
  <2>3. BatchInv'
    BY <1>3, <2>1 DEF Recover, BatchInv
  <2> QED BY <2>2, <2>3
<1> QED BY <1>1, <1>2, <1>3

LEMMA CallStep ==
  ASSUME IntakeTypeOK, CallInv, BatchInv, Next
  PROVE  CallInv' /\ BatchInv'
<1>1. CASE BatchEnds \/ Crash
  BY <1>1, CallReturns DEF BatchEnds, Crash, planner
<1>2. CASE SaveFails
  BY <1>2, CallReturns, CallGoesOn DEF SaveFails, Goto, planner
<1>3. CASE Finish
  <2>1. CASE mode # "recover" /\ go
    <3>1. pc' = "next" /\ UNCHANGED <<tx, mode, journal, plan, batch>>
      BY <1>3, <2>1 DEF Finish, Goto, planner
    <3>2. CallInv'
      BY <1>3, <2>1, <3>1 DEF Finish, CallInv
    <3> QED BY <3>1, <3>2 DEF BatchInv
  <2>2. CASE ~(mode # "recover" /\ go)
    BY <1>3, <2>2, CallReturns DEF Finish, planner
  <2> QED BY <2>1, <2>2
<1>4. CASE \/ Validate \/ ReadPlan \/ Start \/ CheckStaging \/ CheckTarget \/ CopyFails
           \/ RenameFails \/ UpdateDbFails \/ Copy \/ CopyEnds
  BY <1>4, CallGoesOn DEF Validate, ReadPlan, Start, CheckStaging, CheckTarget, CopyFails,
     RenameFails, UpdateDbFails, Copy, CopyEnds, Goto, Transition, Quiet, planner, Closed
<1>5. CASE Park \/ Commit \/ UpdateDb \/ Cleanup \/ CleanupFails \/ Raise
  BY <1>5, CallGoesOn DEF Park, Commit, UpdateDb, Cleanup, CleanupFails, Raise, Goto, Transition,
     Quiet, planner, Closed
<1>6. CASE \/ UndoTarget \/ UndoTargetFails \/ UndoSource \/ UndoSourceFails
           \/ UndoStaging \/ UndoStagingFails \/ UndoEnd
  BY <1>6, CallGoesOn DEF UndoTarget, UndoTargetFails, UndoSource, UndoSourceFails, UndoStaging,
     UndoStagingFails, UndoEnd, Removed, Quiet, planner
<1>7. CASE Save
  BY <1>7, SaveKeepsCall
<1>8. CASE \/ BeginItem
           \/ \E s \in Batches : StartBatch(s)
           \/ \E t \in Tx : Recover(t)
  BY <1>8, BatchKeepsCall
<1>9. CASE \/ \E w \in Works : ScanFolder(w) \/ UserEdits(w) \/ UserPlaces(w)
           \/ \E w \in Works, f \in Tracks : QueueRow(w, f)
  BY <1>9, CallStays DEF ScanFolder, UserEdits, UserPlaces, QueueRow, planner
<1>10. ASSUME NEW t \in Tx, NEW w \in Works, MakePlan(t, w) PROVE CallInv' /\ BatchInv'
  <2>1. [work |-> w, tree |-> scan[w].tree, entry |-> db[w]] # NoPlan
    BY DEF NoPlan
  <2>2. \A u \in Tx : plan[u] # NoPlan => plan'[u] # NoPlan
    BY <1>10, <2>1 DEF MakePlan, IntakeTypeOK
  <2> QED BY <1>10, <2>2, CallStays DEF MakePlan
<1> QED BY <1>1, <1>2, <1>3, <1>4, <1>5, <1>6, <1>7, <1>8, <1>9, <1>10 DEF Next, Step

-----------------------------------------------------------------------------
(* Initially                                                                *)

LEMMA InitialTypes ==
  ASSUME NEW w \in Works
  PROVE  InitialEntries(w) \subseteq Entry
<1> DEFINE held == [f \in Held["v1"] |-> RowAt(Src(w), "completed")]
           all  == [f \in Tracks |-> RowAt(Src(w), "completed")]
<1>1. Src(w) \in Folders /\ <<w, "elsewhere">> \in Folders
  BY IntakeAssumption DEF Src
<1>2. RowAt(Src(w), "completed") \in Row
  BY <1>1 DEF RowAt, Row, RowStatuses
<1>3. held \in RowTables /\ all \in RowTables
  <2>1. Held["v1"] \in SUBSET Tracks
    BY IntakeAssumption
  <2> QED BY <1>2, <2>1, IsRowTable
<1>4. << >> \in RowTables
  <2>1. << >> \in [{} -> Row]
    OBVIOUS
  <2> QED BY <2>1, IsRowTable
<1>5. {"none", "verified", "external"} \subseteq WorkStatuses
  BY DEF WorkStatuses
<1> HIDE DEF held, all
<1>6. \A status \in {"none", "verified", "external"}, p \in Folders \union {NoFolder},
         r \in RowTables :
        [status |-> status, path |-> p, item |-> p, index |-> {Src(w)}, rows |-> r] \in Entry
  BY <1>1, <1>5, EntryIs
<1> QED BY <1>1, <1>3, <1>4, <1>6 DEF InitialEntries, held, all

LEMMA InitTypes == Init => IntakeTypeOK
<1> SUFFICES ASSUME Init PROVE TreesOK /\ TablesOK /\ CallOK /\ HistoryOK
  BY TypeParts
<1>1. TreesOK
  BY DEF Init, TreesOK, Tree, Whole
<1>2. TablesOK
  <2>1. db \in [Works -> Entry]
    BY InitialTypes DEF Init
  <2> QED BY <2>1 DEF Init, TablesOK, State
<1>3. CallOK
  <2>1. << >> \in Seq(Tx)
    OBVIOUS
  <2> QED BY <2>1 DEF Init, CallOK, Position, State, Tree
<1>4. HistoryOK
  BY IntakeAssumption DEF Init, HistoryOK
<1> QED BY <1>1, <1>2, <1>3, <1>4

LEMMA InitTyped == Init => Typed
<1> SUFFICES ASSUME Init PROVE CallInv /\ BatchInv
  BY InitTypes DEF Typed
<1> QED BY DEF Init, CallInv, BatchInv, Closed

LEMMA TypedStep == ASSUME Typed, [Next]_vars PROVE Typed'
<1> USE DEF Typed
<1>1. CASE Next
  <2>1. IntakeTypeOK'
    BY <1>1, PlainTypes, RecordTypes, FolderSteps, TableTypes DEF Next, Step
  <2> QED BY <1>1, <2>1, CallStep
<1>2. CASE UNCHANGED vars
  <2>1. IntakeTypeOK'
    BY <1>2, TypeParts, PartsStay DEF vars, call
  <2>2. CallInv' /\ BatchInv'
    BY <1>2, CallStays DEF vars, planner
  <2> QED BY <2>1, <2>2
<1> QED BY <1>1, <1>2

\* IntakeTypeOK, with the shape of a call: every request under way or left in
\* the batch is planned, and none of them is closed.
THEOREM IntakeTypeCorrect == Spec => []IntakeTypeOK
<1>1. Init => Typed
  BY InitTyped
<1>2. Typed /\ [Next]_vars => Typed'
  BY TypedStep
<1>3. Typed => IntakeTypeOK
  BY DEF Typed
<1> QED BY <1>1, <1>2, <1>3, PTL DEF Spec

-----------------------------------------------------------------------------
(* The journal and the tables                                               *)

\* A step of a transaction that neither commits nor judges it.
LEMMA MoveGoesOn ==
  ASSUME Typed, MoveInv,
         pc \notin {"idle", "next", "save", "finish"}, pc' \notin {"idle", "next"},
         UNCHANGED <<tx, mode, journal, plan, db, mover, blind>>,
         \/ pc' # "save" /\ mem' = mem
         \/ pc' = "save" /\ mem' \in UnderWay \union {"failed"},
         ~(pc' = "cleanup" \/ (pc' = "save" /\ after' = "cleanup")),
         pc' \in Undo => pc \in Undo,
         \A p \in Forward : pc' = p \/ (pc' = "save" /\ after' = p) => pc \in Forward
  PROVE  MoveInv'
<1>1. JournalInv'
  <2>1. UnderWay \union {"failed"} \subseteq State \ (Committed \union {"completed", "rolled_back"})
    BY DEF UnderWay, Committed, State
  <2> QED BY <2>1 DEF MoveInv, JournalInv, At, Work
<1>2. BlindInv'
  <2>1. "none" \notin UnderWay \union {"failed"}
    BY DEF UnderWay
  <2>2. (\E p \in Forward : At(p))' => pc \in Forward
    BY DEF At
  <2>3. pc \in Forward => mode \in {"free", "try"}
    BY DEF MoveInv, BlindInv, At
  <2> QED BY <2>1, <2>2, <2>3 DEF MoveInv, BlindInv
<1>3. MoverInv'
  BY DEF MoveInv, MoverInv
<1> QED BY <1>1, <1>2, <1>3 DEF MoveInv

\* The end of a call.
LEMMA MoveReturns ==
  ASSUME Typed, MoveInv, Return, UNCHANGED <<journal, plan, db, mover, blind>>
  PROVE  MoveInv'
<1>1. JournalInv'
  BY DEF Return, MoveInv, JournalInv, At, Undo
<1>2. BlindInv'
  <2>1. NoTx \notin blind
    BY IntakeAssumption DEF Typed, IntakeTypeOK
  <2> QED BY <2>1 DEF Return, MoveInv, BlindInv, At, Forward
<1>3. MoverInv'
  BY DEF MoveInv, MoverInv
<1> QED BY <1>1, <1>2, <1>3 DEF MoveInv

\* A step that is no step of a call and leaves the tables where they are.
LEMMA MoveStays ==
  ASSUME Typed, MoveInv, UNCHANGED <<call, journal, mover, blind>>,
         \A t \in Tx : plan[t] # NoPlan => plan'[t] = plan[t],
         \A w \in Works : References(db'[w], Src(w)) => References(db[w], Src(w))
  PROVE  MoveInv'
<1>1. \A t \in Tx : journal[t] # "none" => plan'[t] = plan[t]
  BY DEF Typed, CallInv
<1>2. tx # NoTx => tx \in Tx /\ plan'[tx] = plan[tx]
  BY DEF Typed, CallInv, IntakeTypeOK
<1>3. JournalInv'
  <2>1. tx = NoTx => pc \notin Undo /\ pc # "save"
    BY DEF Typed, CallInv, Undo
  <2> QED BY <1>1, <1>2, <2>1 DEF call, MoveInv, JournalInv, At, Work, Committed
<1>4. BlindInv'
  BY DEF call, MoveInv, BlindInv, At
<1>5. MoverInv'
  <2>1. \A w \in Works : mover[w] # NoTx => mover[w] \in Tx
    BY DEF Typed, IntakeTypeOK
  <2> QED BY <2>1 DEF MoveInv, MoverInv
<1> QED BY <1>3, <1>4, <1>5 DEF MoveInv

LEMMA PlainMoves ==
  ASSUME Typed, MoveInv,
         \/ Validate \/ Start \/ Copy \/ CopyEnds \/ CopyFails \/ CheckStaging \/ Park \/ Commit
         \/ RenameFails \/ CheckTarget \/ UpdateDbFails
         \/ UndoTarget \/ UndoTargetFails \/ UndoSource \/ UndoSourceFails
         \/ UndoStaging \/ UndoStagingFails
  PROVE  MoveInv'
<1>0. /\ {"failed", "started", "staged", "source_parked", "target_committed", "verified"}
           \subseteq UnderWay \union {"failed"}
      /\ {"validate", "start", "copy", "copying", "check", "park", "commit", "recheck", "update"}
           \subseteq Forward
      /\ {"cleanup", "finish", "undo_target", "undo_source", "undo_staging", "undo_end", "save"}
           \intersect Forward = {}
      /\ {"cleanup", "finish", "save"} \union Forward \subseteq Position \ ({"idle", "next"} \union Undo)
      /\ Undo = {"undo_target", "undo_source", "undo_staging", "undo_end"}
  BY DEF UnderWay, Forward, Undo, Position
<1>1. CASE Validate \/ CheckStaging \/ CheckTarget
  BY <1>0, <1>1, MoveGoesOn DEF Validate, CheckStaging, CheckTarget, Goto, Transition, Quiet,
     planner, history
<1>2. CASE Start \/ Copy \/ CopyEnds
  BY <1>0, <1>2, MoveGoesOn DEF Start, Copy, CopyEnds, Goto, Quiet, planner, history
<1>3. CASE CopyFails \/ RenameFails \/ UpdateDbFails
  BY <1>0, <1>3, MoveGoesOn DEF CopyFails, RenameFails, UpdateDbFails, Goto, planner, history
<1>4. CASE Park \/ Commit
  BY <1>0, <1>4, MoveGoesOn DEF Park, Commit, Goto, Transition, Quiet, planner, history
<1>5. CASE \/ UndoTarget \/ UndoTargetFails \/ UndoSource \/ UndoSourceFails
           \/ UndoStaging \/ UndoStagingFails
  BY <1>0, <1>5, MoveGoesOn DEF UndoTarget, UndoTargetFails, UndoSource, UndoSourceFails,
     UndoStaging, UndoStagingFails, Removed, Quiet, planner, history
<1> QED BY <1>1, <1>2, <1>3, <1>4, <1>5

\* The journal takes over what the memory of the call says.
LEMMA SaveMoves ==
  ASSUME Typed, MoveInv, Save
  PROVE  MoveInv'
<1>1. tx \in Tx /\ tx # NoTx
  BY CallTypes DEF Save, Typed, CallInv
<1>2. /\ journal'[tx] = mem /\ \A t \in Tx \ {tx} : journal'[t] = journal[t]
      /\ UNCHANGED <<tx, mode, mem, plan, db, mover, blind>>
      /\ pc = "save" /\ pc' = after
  BY <1>1 DEF Save, Goto, Typed, IntakeTypeOK, planner, history
<1>3. after \notin Undo \union {"save", "idle", "next", "raise"}
  BY <1>2 DEF Typed, CallInv, Undo
<1>4. JournalInv'
  <2>1. mem \in Committed => mover[Work] = tx
    BY <1>1 DEF MoveInv, JournalInv
  <2> QED BY <1>1, <1>2, <1>3, <2>1 DEF MoveInv, JournalInv, At, Work
<1>5. BlindInv'
  <2>1. mem # "none"
    BY <1>2 DEF MoveInv, BlindInv
  <2>2. \A t \in blind : journal'[t] # "none"
    BY <1>2, <2>1 DEF MoveInv, BlindInv, Typed, IntakeTypeOK
  <2>3. (\E p \in Forward : At(p))' => \E p \in Forward : At(p)
    BY <1>2, <1>3 DEF At
  <2> QED BY <1>2, <1>3, <2>1, <2>2, <2>3 DEF MoveInv, BlindInv
<1>6. MoverInv'
  BY <1>2 DEF MoveInv, MoverInv
<1> QED BY <1>4, <1>5, <1>6 DEF MoveInv

\* The update of the tables: no transaction has moved them before.
LEMMA UpdateIsFirst ==
  ASSUME Typed, MoveInv, UpdateDb, db' # db \/ mover' # mover
  PROVE  /\ tx \in Tx /\ Work \in Works /\ mover[Work] = NoTx
         /\ \A w \in Works : mover[w] # tx
         /\ mover' = [mover EXCEPT ![Work] = tx]
         /\ db' = [db EXCEPT ![Work] = PathsMoved(@, Src(Work), Dst(Work), MappedFiles)]
         /\ ~References(PathsMoved(db[Work], Src(Work), Dst(Work), MappedFiles), Src(Work))
         /\ Transition("db_updated", "cleanup")
<1>1. tx \in Tx /\ Work \in Works /\ db[Work] \in Entry
  BY CallTypes DEF UpdateDb, Typed, CallInv, IntakeTypeOK
<1>2. /\ PathUpdateAllowed(db, Work, Src(Work), Dst(Work), plan[tx].entry, MappedFiles)
      /\ mover' = [mover EXCEPT ![Work] = tx]
      /\ db' = [db EXCEPT ![Work] = PathsMoved(@, Src(Work), Dst(Work), MappedFiles)]
      /\ Transition("db_updated", "cleanup")
  BY DEF UpdateDb
<1>3. References(db[Work], Src(Work))
  BY <1>2, MoveNeedsSource
<1>4. ~References(PathsMoved(db[Work], Src(Work), Dst(Work), MappedFiles), Src(Work))
  BY <1>1, <1>2, WorkFolders, MoveLeavesSource
<1>5. mover[Work] = NoTx
  BY <1>1, <1>3 DEF MoveInv, MoverInv
<1>6. \A w \in Works : mover[w] # tx
  <2>1. tx # NoTx
    BY <1>1, IntakeAssumption
  <2>2. \A w \in Works : mover[w] = tx => w = Work
    BY <2>1 DEF MoveInv, MoverInv, Work
  <2> QED BY <1>5, <2>1, <2>2
<1> QED BY <1>1, <1>2, <1>4, <1>5, <1>6

LEMMA UpdateMoves ==
  ASSUME Typed, MoveInv, UpdateDb
  PROVE  MoveInv'
<1>0. UNCHANGED <<journal, plan, blind>> /\ pc = "update"
  BY DEF UpdateDb, planner
<1>1. CASE db' = db /\ mover' = mover
  <2>1. CASE Goto("raise")
    <3>1. "update" \in Forward /\ "raise" \notin Undo /\ "update" \notin Undo
      BY DEF Forward, Undo
    <3> QED BY <1>0, <1>1, <2>1, <3>1, MoveGoesOn DEF Goto
  <2>2. CASE ~Goto("raise")
    <3>1. tx \in Tx /\ Work \in Works
      BY CallTypes DEF UpdateDb, Typed, CallInv
    <3>2. /\ PathUpdateAllowed(db, Work, Src(Work), Dst(Work), plan[tx].entry, MappedFiles)
          /\ mover' = [mover EXCEPT ![Work] = tx]
      BY <2>2 DEF UpdateDb
    <3>3. mover[Work] = tx
      BY <1>1, <3>1, <3>2 DEF Typed, IntakeTypeOK
    <3>4. References(db[Work], Src(Work))
      BY <3>2, MoveNeedsSource
    <3> QED BY <3>1, <3>3, <3>4, IntakeAssumption DEF MoveInv, MoverInv
  <2> QED BY <2>1, <2>2
<1>2. CASE db' # db \/ mover' # mover
  <2>1. /\ tx \in Tx /\ tx # NoTx /\ Work \in Works /\ mover[Work] = NoTx
        /\ \A w \in Works : mover[w] # tx
        /\ mover'[Work] = tx /\ \A w \in Works \ {Work} : mover'[w] = mover[w]
        /\ ~References(db'[Work], Src(Work)) /\ \A w \in Works \ {Work} : db'[w] = db[w]
        /\ Transition("db_updated", "cleanup")
    BY <1>2, UpdateIsFirst, IntakeAssumption DEF Typed, IntakeTypeOK
  <2>2. pc' = "save" /\ mem' = "db_updated" /\ after' = "cleanup" /\ UNCHANGED <<tx, mode>>
    BY <2>1 DEF Transition
  <2>3. \A t \in Tx : journal[t] \in Committed =>
          plan[t].work \in Works /\ mover[plan[t].work] = t /\ t # NoTx
    <3>1. \A t \in Tx : journal[t] \in Committed => plan[t] \in Plan
      BY DEF Typed, CallInv, IntakeTypeOK, Committed
    <3> QED BY <3>1, IntakeAssumption DEF MoveInv, JournalInv, Plan
  <2>4. JournalInv'
    <3>1. \A t \in Tx : journal[t] \in Committed => mover'[plan[t].work] = t
      BY <2>1, <2>3
    <3>2. "db_updated" \in Committed /\ "save" \notin Undo
      BY DEF Committed, Undo
    <3> QED BY <1>0, <2>1, <2>2, <3>1, <3>2 DEF JournalInv, At, Work
  <2>5. BlindInv'
    <3>1. "cleanup" \notin Forward /\ "save" \notin Forward
      BY DEF Forward
    <3> QED BY <1>0, <2>2, <3>1 DEF MoveInv, BlindInv, At
  <2>6. MoverInv'
    <3>1. plan[tx] # NoPlan
      BY <2>1 DEF Typed, CallInv
    <3> QED BY <1>0, <2>1, <3>1 DEF MoveInv, MoverInv, Work
  <2> QED BY <2>4, <2>5, <2>6 DEF MoveInv
<1> QED BY <1>1, <1>2

\* The end of the cleanup, the handler, the end of an undo.
LEMMA JudgesMove ==
  ASSUME Typed, MoveInv,
         ReadPlan \/ Cleanup \/ CleanupFails \/ Raise \/ UndoEnd
  PROVE  MoveInv'
<1>0. /\ UNCHANGED <<tx, journal, plan, db, mover>> /\ blind \subseteq blind'
      /\ tx # NoTx /\ tx \in Tx /\ Work' = Work
  <2>1. UNCHANGED <<tx, journal, plan, db, mover>> /\ blind \subseteq blind'
    <3>1. CASE Raise
      BY <3>1 DEF Raise, Undoing, planner
    <3>2. CASE ReadPlan \/ Cleanup \/ CleanupFails \/ UndoEnd
      BY <3>2 DEF ReadPlan, Cleanup, CleanupFails, Transition, UndoEnd, Quiet, planner, history
    <3> QED BY <3>1, <3>2
  <2>2. tx # NoTx /\ tx \in Tx
    BY CallTypes DEF Typed, CallInv, ReadPlan, Cleanup, CleanupFails, Raise, UndoEnd
  <2> QED BY <2>1, <2>2 DEF Work
<1>1. MoverInv'
  BY <1>0 DEF MoveInv, MoverInv
<1>2. journal[tx] # "none"
  BY DEF MoveInv, BlindInv, ReadPlan, Cleanup, CleanupFails, Raise, UndoEnd
<1>3. JournalInv'
  <2>0. /\ \A t \in Tx : journal'[t] \in Committed => mover'[plan'[t].work] = t
        /\ mem \in Committed \union {"completed"} => mover[Work] = tx
    BY <1>0 DEF MoveInv, JournalInv
  <2>1. CASE ReadPlan
    BY <1>0, <2>0, <2>1 DEF ReadPlan, JournalInv, At, Committed, Undo, Quiet, history
  <2>2. CASE Cleanup \/ CleanupFails
    <3>1. mem \in Committed
      BY <2>2 DEF Cleanup, CleanupFails, MoveInv, JournalInv, At
    <3> QED BY <1>0, <2>0, <2>2, <3>1
         DEF Cleanup, CleanupFails, Transition, JournalInv, At, Undo, Committed
  <2>3. CASE Raise
    <3>1. CASE mem = "db_updated"
      BY <1>0, <2>0, <2>3, <3>1 DEF Raise, JournalInv, At, Undo, Committed
    <3>2. CASE mem # "db_updated"
      <4>1. pc' = "undo_target" /\ mem' = mem
        BY <2>3, <3>2 DEF Raise
      <4>2. tx \in blind' \/ mover[Work] # tx
        BY <1>0, <2>3, <3>2 DEF Raise, Undoing, Work
      <4> QED BY <1>0, <2>0, <4>1, <4>2 DEF JournalInv, At
    <3> QED BY <3>1, <3>2
  <2>4. CASE UndoEnd
    <3>1. tx \in blind \/ mover[Work] # tx
      BY <2>4 DEF UndoEnd, MoveInv, JournalInv, Undo
    <3> QED BY <1>0, <2>0, <2>4, <3>1 DEF UndoEnd, JournalInv, At, Undo, Committed
  <2> QED BY <2>1, <2>2, <2>3, <2>4
<1>4. BlindInv'
  <2>0. /\ {"plan", "start", "raise"} \subseteq Forward
        /\ {"save", "finish", "undo_target"} \intersect Forward = {}
    BY DEF Forward
  <2>1. CASE ReadPlan
    <3>1. mode \in {"free", "try"} /\ tx \notin blind
      BY <2>0, <2>1 DEF ReadPlan, MoveInv, BlindInv, At
    <3> QED BY <1>0, <1>2, <2>0, <2>1, <3>1 DEF ReadPlan, MoveInv, BlindInv, At, Quiet, history
  <2>2. CASE Cleanup \/ CleanupFails
    BY <1>0, <1>2, <2>0, <2>2 DEF Cleanup, CleanupFails, Transition, MoveInv, BlindInv, At, Quiet, history
  <2>3. CASE Raise
    <3>1. blind' \subseteq blind \union {tx}
      BY <2>3 DEF Raise, Undoing
    <3> QED BY <1>0, <1>2, <2>0, <2>3, <3>1 DEF Raise, MoveInv, BlindInv, At
  <2>4. CASE UndoEnd
    BY <1>0, <1>2, <2>0, <2>4 DEF UndoEnd, MoveInv, BlindInv, At, Quiet, history
  <2> QED BY <2>1, <2>2, <2>3, <2>4
<1> QED BY <1>1, <1>3, <1>4 DEF MoveInv

\* What begins and ends a request.
LEMMA BatchMoves ==
  ASSUME Typed, MoveInv,
         \/ BeginItem \/ Finish
         \/ \E s \in Batches : StartBatch(s)
         \/ \E t \in Tx : Recover(t)
  PROVE  MoveInv'
<1>0. UNCHANGED <<journal, plan, db, mover>>
  BY DEF BeginItem, Finish, StartBatch, Recover, planner, history
<1>1. MoverInv'
  BY <1>0 DEF MoveInv, MoverInv
<1>2. CASE BeginItem
  <2>1. tx' \in Tx /\ tx' # NoTx /\ journal[tx'] = "none"
    <3>1. batch \in Seq(Tx) /\ batch # << >> /\ tx' = batch[1] /\ 1 \in DOMAIN batch
      BY <1>2 DEF BeginItem, Typed, IntakeTypeOK
    <3> QED BY <3>1, IntakeAssumption DEF Typed, BatchInv
  <2>2. JournalInv'
    BY <1>0, <1>2, <2>1 DEF BeginItem, MoveInv, JournalInv, At, Undo, Committed
  <2>3. tx' \notin blind
    BY <2>1 DEF MoveInv, BlindInv
  <2>4. BlindInv'
    BY <1>0, <1>2, <2>3 DEF BeginItem, MoveInv, BlindInv, history
  <2> QED BY <1>1, <2>2, <2>4 DEF MoveInv
<1>3. CASE Finish
  <2>1. CASE mode # "recover" /\ go
    <3>1. pc' = "next" /\ UNCHANGED <<tx, mode, mem, blind>>
      BY <1>3, <2>1 DEF Finish, Goto, history
    <3>2. JournalInv'
      BY <1>0, <3>1 DEF MoveInv, JournalInv, At, Undo, Work
    <3>3. BlindInv'
      BY <1>0, <3>1 DEF MoveInv, BlindInv, At, Forward
    <3> QED BY <1>1, <3>2, <3>3 DEF MoveInv
  <2>2. CASE ~(mode # "recover" /\ go)
    BY <1>0, <1>3, <2>2, MoveReturns DEF Finish, history
  <2> QED BY <2>1, <2>2
<1>4. ASSUME NEW s \in Batches, StartBatch(s) PROVE MoveInv'
  <2>1. pc' = "next" /\ tx' = NoTx /\ UNCHANGED <<mode, blind>>
    BY <1>4 DEF StartBatch, history
  <2>2. NoTx \notin blind
    BY IntakeAssumption DEF Typed, IntakeTypeOK
  <2>3. JournalInv'
    BY <1>0, <2>1 DEF MoveInv, JournalInv, At, Undo
  <2>4. BlindInv'
    BY <1>0, <2>1, <2>2 DEF MoveInv, BlindInv, At, Forward
  <2> QED BY <1>1, <2>3, <2>4 DEF MoveInv
<1>5. ASSUME NEW t \in Tx, Recover(t) PROVE MoveInv'
  <2>1. /\ tx' = t /\ mode' = "recover" /\ t # NoTx
        /\ journal[t] \notin Closed \union {"none"}
        /\ blind' \subseteq blind \union {t}
    BY <1>5, IntakeAssumption DEF Recover, Undoing
  <2>2. \/ pc' = "save" /\ mem' = "stop_required" /\ after' = "finish"
        \/ pc' = "cleanup" /\ mem' = journal[t] /\ mem' \in Committed
        \/ pc' = "undo_target" /\ mem' = journal[t] /\ Undoing(t)
    BY <1>5 DEF Recover
  <2>3. Work' = plan[t].work
    BY <1>0, <2>1 DEF Work
  <2>4. pc' = "undo_target" => t \in blind' \/ mover[plan[t].work] # t
    BY <2>2 DEF Undoing
  <2>5. JournalInv'
    <3>1. \A u \in Tx : journal'[u] \in Committed => mover'[plan'[u].work] = u
      BY <1>0 DEF MoveInv, JournalInv
    <3>2. "stop_required" \notin Committed /\ journal[t] \notin {"completed", "rolled_back"}
      BY <2>1 DEF Committed, Closed
    <3> QED BY <1>0, <2>1, <2>2, <2>3, <2>4, <3>1, <3>2 DEF JournalInv, At, Undo
  <2>6. BlindInv'
    BY <1>0, <2>1, <2>2 DEF MoveInv, BlindInv, At, Forward
  <2> QED BY <1>1, <2>5, <2>6 DEF MoveInv
<1> QED BY <1>2, <1>3, <1>4, <1>5

LEMMA MoveStep ==
  ASSUME Typed, MoveInv, Next
  PROVE  MoveInv'
<1>1. CASE BatchEnds \/ Crash
  BY <1>1, MoveReturns DEF BatchEnds, Crash, planner, history
<1>2. CASE SaveFails
  <2>1. CASE mode = "try"
    <3>1. /\ pc = "save" /\ pc' = "raise" /\ tx # NoTx
          /\ UNCHANGED <<tx, mode, mem, journal, plan, db, mover, blind>>
      BY <1>2, <2>1 DEF SaveFails, Goto, planner, history, Typed, CallInv
    <3>2. JournalInv' /\ BlindInv' /\ MoverInv'
      BY <2>1, <3>1 DEF MoveInv, JournalInv, BlindInv, MoverInv, At, Undo, Work
    <3> QED BY <3>2 DEF MoveInv
  <2>2. CASE mode # "try"
    BY <1>2, <2>2, MoveReturns DEF SaveFails, planner, history
  <2> QED BY <2>1, <2>2
<1>3. CASE \E w \in Works : ScanFolder(w) \/ UserEdits(w) \/ UserPlaces(w)
  BY <1>3, MoveStays DEF ScanFolder, UserEdits, UserPlaces, planner, history
<1>4. ASSUME NEW t \in Tx, NEW w \in Works, MakePlan(t, w) PROVE MoveInv'
  <2>1. \A u \in Tx : plan[u] # NoPlan => plan'[u] = plan[u]
    BY <1>4 DEF MakePlan, Typed, IntakeTypeOK
  <2> QED BY <1>4, <2>1, MoveStays DEF MakePlan, history
<1>5. ASSUME NEW w \in Works, NEW f \in Tracks, QueueRow(w, f) PROVE MoveInv'
  <2>1. db[w] \in Entry /\ f \in DOMAIN db[w].rows
    BY <1>5 DEF QueueRow, Typed, IntakeTypeOK
  <2>2. db'[w] = [db[w] EXCEPT !.rows[f].status = "queued"] /\ \A v \in Works \ {w} : db'[v] = db[v]
    BY <1>5 DEF QueueRow, Typed, IntakeTypeOK
  <2>3. /\ db'[w].path = db[w].path /\ db'[w].item = db[w].item /\ db'[w].index = db[w].index
        /\ DOMAIN db'[w].rows = DOMAIN db[w].rows
        /\ \A g \in DOMAIN db[w].rows : db'[w].rows[g].at = db[w].rows[g].at
    <3>1. \A g \in DOMAIN db[w].rows : db[w].rows[g] \in Row
      BY <2>1, EntryRows
    <3> QED BY <2>1, <2>2, <3>1, EntryIs DEF Row
  <2>4. \A v \in Works : References(db'[v], Src(v)) => References(db[v], Src(v))
    BY <2>2, <2>3 DEF References
  <2> QED BY <1>5, <2>4, MoveStays DEF QueueRow, planner, history
<1>6. CASE \/ Save \/ UpdateDb \/ ReadPlan \/ Cleanup \/ CleanupFails \/ Raise \/ UndoEnd
           \/ BeginItem \/ Finish
           \/ \E s \in Batches : StartBatch(s)
           \/ \E t \in Tx : Recover(t)
  BY <1>6, SaveMoves, UpdateMoves, JudgesMove, BatchMoves
<1>7. CASE \/ Validate \/ Start \/ Copy \/ CopyEnds \/ CopyFails \/ CheckStaging \/ Park \/ Commit
           \/ RenameFails \/ CheckTarget \/ UpdateDbFails
           \/ UndoTarget \/ UndoTargetFails \/ UndoSource \/ UndoSourceFails
           \/ UndoStaging \/ UndoStagingFails
  BY <1>7, PlainMoves
<1> QED BY <1>1, <1>2, <1>3, <1>4, <1>5, <1>6, <1>7 DEF Next, Step

-----------------------------------------------------------------------------
(* IntakeExecutor implements AtomicMove                                     *)

Verdicts == [t \in Tx |-> Verdict(t)]

\* The verdict of one transaction changes, those of the others stay.
LEMMA VerdictIs ==
  ASSUME NEW t \in Tx
  PROVE  /\ t \in blind => Verdict(t) = "torn"
         /\ t \notin blind /\ journal[t] = "completed" => Verdict(t) = "moved"
         /\ t \notin blind /\ journal[t] = "rolled_back" => Verdict(t) = "kept"
         /\ t \notin blind /\ journal[t] \notin Closed => Verdict(t) = "open"
BY DEF Verdict, Closed

LEMMA VerdictStays ==
  ASSUME UNCHANGED <<journal, blind>>
  PROVE  UNCHANGED Verdicts
BY DEF Verdicts, Verdict

\* The journal's last word is true.
LEMMA SaveCloses ==
  ASSUME Typed, MoveInv, Save
  PROVE  [Move!Next]_<<mover, Verdicts>>
<1>1. PICK t \in Tx : t = tx /\ t # NoTx /\ journal[t] \notin Closed
  BY CallTypes DEF Save, Typed, CallInv
<1>2. /\ journal' = [journal EXCEPT ![t] = mem]
      /\ UNCHANGED <<mover, blind>>
  BY <1>1 DEF Save, history
<1>3. /\ journal'[t] = mem /\ \A u \in Tx \ {t} : journal'[u] = journal[u]
  BY <1>1, <1>2 DEF Typed, IntakeTypeOK
<1>4. \A u \in Tx \ {t} : Verdict(u)' = Verdict(u)
  BY <1>2, <1>3 DEF Verdict
<1>5. CASE t \in blind \/ mem \notin Closed
  <2>1. Verdict(t)' = Verdict(t)
    BY <1>1, <1>2, <1>3, <1>5 DEF Verdict, Closed
  <2> QED BY <1>2, <1>4, <2>1 DEF Verdicts
<1>6. CASE t \notin blind /\ mem \in Closed
  <2>1. PICK end \in {"moved", "kept", "torn"} :
          /\ Verdict(t)' = end
          /\ end = "moved" => \E w \in Works : mover[w] = t
          /\ end = "kept" => \A w \in Works : mover[w] # t
    <3>1. CASE mem = "completed"
      <4>1. mover[Work] = t /\ Work \in Works
        BY <1>1, <3>1, CallTypes DEF MoveInv, JournalInv, Typed
      <4>2. Verdict(t)' = "moved"
        BY <1>2, <1>3, <1>6, <3>1 DEF Verdict
      <4> QED BY <4>1, <4>2
    <3>2. CASE mem = "rolled_back"
      <4>1. mover[Work] # t
        BY <1>1, <1>6, <3>2 DEF Save, MoveInv, JournalInv
      <4>2. \A w \in Works : mover[w] # t
        BY <1>1, <4>1 DEF MoveInv, MoverInv, Work
      <4>3. Verdict(t)' = "kept"
        BY <1>2, <1>3, <1>6, <3>2 DEF Verdict
      <4> QED BY <4>2, <4>3
    <3> QED BY <1>6, <3>1, <3>2 DEF Closed
  <2>2. Verdict(t) = "open"
    BY <1>1, <1>6, VerdictIs
  <2>3. Verdicts[t] = "open" /\ Verdicts' = [Verdicts EXCEPT ![t] = end]
    BY <1>1, <1>4, <2>1, <2>2 DEF Verdicts
  <2>4. Move!Close(t, end)
    BY <1>2, <2>1, <2>3 DEF Move!Close, Verdicts
  <2> QED BY <1>1, <2>4 DEF Move!Next
<1> QED BY <1>5, <1>6

\* A transaction that is undone blindly is torn.
LEMMA UndoTears ==
  ASSUME Typed, MoveInv, NEW t \in Tx, blind' \in {blind, blind \union {t}},
         journal[t] \notin Closed, UNCHANGED <<journal, mover>>
  PROVE  [Move!Next]_<<mover, Verdicts>>
<1>1. CASE blind' = blind
  BY <1>1, VerdictStays
<1>2. CASE t \notin blind /\ blind' = blind \union {t}
  <2>1. Verdict(t) = "open" /\ Verdict(t)' = "torn"
    BY <1>2, VerdictIs DEF Verdict
  <2>2. \A u \in Tx \ {t} : Verdict(u)' = Verdict(u)
    BY <1>2 DEF Verdict
  <2>3. Verdicts[t] = "open" /\ Verdicts' = [Verdicts EXCEPT ![t] = "torn"]
    BY <2>1, <2>2 DEF Verdicts
  <2>4. Move!Close(t, "torn")
    BY <2>3 DEF Move!Close, Verdicts
  <2> QED BY <2>4 DEF Move!Next
<1> QED BY <1>1, <1>2

\* The tables follow a work by an open transaction.
LEMMA UpdateIsMove ==
  ASSUME Typed, MoveInv, UpdateDb
  PROVE  [Move!Next]_<<mover, Verdicts>>
<1>1. UNCHANGED Verdicts
  BY VerdictStays DEF UpdateDb
<1>2. CASE mover' = mover
  BY <1>1, <1>2
<1>3. CASE mover' # mover
  <2>1. /\ tx \in Tx /\ Work \in Works /\ mover[Work] = NoTx
        /\ \A w \in Works : mover[w] # tx
        /\ mover' = [mover EXCEPT ![Work] = tx]
    BY <1>3, UpdateIsFirst
  <2>2. pc = "update" /\ "update" \in Forward
    BY DEF UpdateDb, Forward
  <2>3. tx \notin blind /\ journal[tx] \notin Closed
    BY <2>2 DEF MoveInv, BlindInv, At, Typed, CallInv
  <2>4. Verdicts[tx] = "open"
    BY <2>1, <2>3, VerdictIs DEF Verdicts
  <2>5. Move!Move(tx, Work)
    BY <1>1, <2>1, <2>4 DEF Move!Move, Verdicts
  <2> QED BY <2>1, <2>5 DEF Move!Next
<1> QED BY <1>2, <1>3

LEMMA StepMoves ==
  ASSUME Typed, MoveInv, [Next]_vars
  PROVE  [Move!Next]_<<mover, Verdicts>>
<1>1. CASE Save \/ UpdateDb
  BY <1>1, SaveCloses, UpdateIsMove
<1>2. CASE Raise
  <2>1. tx \in Tx /\ journal[tx] \notin Closed
    BY <1>2, CallTypes DEF Raise, Typed, CallInv
  <2>2. blind' \in {blind, blind \union {tx}} /\ UNCHANGED <<journal, mover>>
    BY <1>2 DEF Raise, Undoing
  <2> QED BY <2>1, <2>2, UndoTears
<1>3. ASSUME NEW t \in Tx, Recover(t) PROVE [Move!Next]_<<mover, Verdicts>>
  <2>1. journal[t] \notin Closed
    BY <1>3 DEF Recover
  <2>2. blind' \in {blind, blind \union {t}} /\ UNCHANGED <<journal, mover>>
    BY <1>3 DEF Recover, Undoing
  <2> QED BY <2>1, <2>2, UndoTears
<1>4. CASE UNCHANGED <<journal, mover, blind>>
  BY <1>4, VerdictStays
<1>5. CASE UNCHANGED vars
  BY <1>4, <1>5 DEF vars, history
<1>6. CASE Next /\ ~(Save \/ UpdateDb \/ Raise \/ \E t \in Tx : Recover(t))
  <2>1. CASE \/ BeginItem \/ BatchEnds \/ SaveFails \/ Validate \/ ReadPlan \/ Start
             \/ Copy \/ CopyEnds \/ CopyFails \/ CheckStaging \/ Park \/ Commit \/ RenameFails
             \/ CheckTarget \/ UpdateDbFails \/ Cleanup \/ CleanupFails
    BY <1>4, <2>1 DEF BeginItem, BatchEnds, SaveFails, Validate, ReadPlan, Start, Copy, CopyEnds,
       CopyFails, CheckStaging, Park, Commit, RenameFails, CheckTarget, UpdateDbFails, Cleanup,
       CleanupFails, Quiet, history
  <2>2. CASE \/ UndoTarget \/ UndoTargetFails \/ UndoSource \/ UndoSourceFails
             \/ UndoStaging \/ UndoStagingFails \/ UndoEnd \/ Finish \/ Crash
    BY <1>4, <2>2 DEF UndoTarget, UndoTargetFails, UndoSource, UndoSourceFails, UndoStaging,
       UndoStagingFails, UndoEnd, Finish, Crash, Quiet, history
  <2>3. CASE \/ \E w \in Works : ScanFolder(w) \/ UserEdits(w) \/ UserPlaces(w)
             \/ \E t \in Tx, w \in Works : MakePlan(t, w)
             \/ \E s \in Batches : StartBatch(s)
             \/ \E w \in Works, f \in Tracks : QueueRow(w, f)
    BY <1>4, <2>3 DEF ScanFolder, UserEdits, UserPlaces, MakePlan, StartBatch, QueueRow, history
  <2> QED BY <1>6, <2>1, <2>2, <2>3 DEF Next, Step
<1> QED BY <1>1, <1>2, <1>3, <1>5, <1>6

LEMMA InitMoves == Init => MoveInv /\ Move!Init
<1> SUFFICES ASSUME Init PROVE MoveInv /\ Move!Init
  OBVIOUS
<1>1. JournalInv /\ BlindInv /\ MoverInv
  BY DEF Init, JournalInv, BlindInv, MoverInv, At, Undo, Forward, Committed
<1>2. Move!Init
  BY DEF Init, Move!Init, Verdict
<1> QED BY <1>1, <1>2 DEF MoveInv

LEMMA MoveStepOrStutter == ASSUME Typed, MoveInv, [Next]_vars PROVE MoveInv'
<1>1. CASE UNCHANGED vars
  BY <1>1, MoveStays DEF vars, history, planner
<1> QED BY <1>1, MoveStep

\* The journalled move, its handler and recover, with crashes between any two of
\* their steps, implement the atomic move.
THEOREM MoveIsAtomic == Spec => ImplementsAtomicMove
<1>1. Init => Typed /\ MoveInv /\ Move!Init
  BY InitTyped, InitMoves
<1>2. Typed /\ MoveInv /\ [Next]_vars => (Typed /\ MoveInv)'
  BY TypedStep, MoveStepOrStutter
<1>3. Typed /\ MoveInv /\ [Next]_vars => [Move!Next]_<<mover, [t \in Tx |-> Verdict(t)]>>
  BY StepMoves DEF Verdicts
<1> QED BY <1>1, <1>2, <1>3, PTL DEF Spec, ImplementsAtomicMove, Move!Spec

-----------------------------------------------------------------------------
(* Some copy survives                                                       *)

LEMMA MatchesWhole ==
  ASSUME NEW m \in Whole, NEW a, Matches(m, a) PROVE a \in Whole
BY DEF Whole, Matches, Visible

\* What the positions of a call say of its folders.
LEMMA PositionsKept ==
  ASSUME Typed, SurvivalInv, Next,
         ~(\/ Raise \/ Commit \/ CheckStaging \/ CheckTarget \/ Start
           \/ \E t \in Tx : Recover(t))
  PROVE  CopyInv'
<1>0. Undo = {"undo_target", "undo_source", "undo_staging", "undo_end"}
  BY DEF Undo
<1>1. CASE BatchEnds \/ Crash
  BY <1>0, <1>1 DEF BatchEnds, Crash, Return, CopyInv, At
<1>2. CASE SaveFails \/ Finish
  BY <1>0, <1>2 DEF SaveFails, Finish, Return, Goto, CopyInv, At
<1>3. CASE Save
  <2>1. after \notin Undo \union {"save"}
    BY <1>3 DEF Undo, Save, Typed, CallInv
  <2> QED BY <1>3, <2>1 DEF Save, Goto, SurvivalInv, CopyInv, At, trees, history, planner, Work
<1>4. CASE Validate \/ ReadPlan \/ CopyFails \/ RenameFails \/ UpdateDbFails
  BY <1>0, <1>4 DEF Validate, ReadPlan, CopyFails, RenameFails, UpdateDbFails, Goto, Transition,
     SurvivalInv, CopyInv, At, trees
<1>5. CASE Copy \/ CopyEnds \/ Park
  BY <1>0, <1>5 DEF Copy, CopyEnds, Park, Goto, Transition, SurvivalInv, CopyInv, At
<1>6. CASE UpdateDb \/ Cleanup \/ CleanupFails \/ UndoEnd
  BY <1>0, <1>6 DEF UpdateDb, Cleanup, CleanupFails, UndoEnd, Goto, Transition, CopyInv, At
<1>7. CASE \/ UndoTarget \/ UndoTargetFails \/ UndoSource \/ UndoSourceFails
           \/ UndoStaging \/ UndoStagingFails
  BY <1>0, <1>7 DEF UndoTarget, UndoTargetFails, UndoSource, UndoSourceFails, UndoStaging,
     UndoStagingFails, Removed, SurvivalInv, CopyInv, At, Quiet, history, planner, Work
<1>8. CASE BeginItem \/ \E s \in Batches : StartBatch(s)
  BY <1>0, <1>8 DEF BeginItem, StartBatch, CopyInv, At
<1>9. ASSUME NEW w \in Works, ScanFolder(w) \/ UserEdits(w) \/ UserPlaces(w) PROVE CopyInv'
  <2>1. UNCHANGED <<tx, pc, after, manifest, plan, staging, mover, blind>>
    BY <1>9 DEF ScanFolder, UserEdits, UserPlaces, call, planner, history, trees
  <2>2. \A v \in Works : target[v] \in Whole => target'[v] \in Whole /\ owner'[v] = owner[v]
    BY <1>9 DEF ScanFolder, UserEdits, UserPlaces, trees, history, Whole, Typed, IntakeTypeOK
  <2>3. tx # NoTx => Work \in Works
    BY CallTypes DEF Typed
  <2>4. At("recheck") \/ At("update") => tx # NoTx
    BY DEF Typed, CallInv, At
  <2> QED BY <2>1, <2>2, <2>3, <2>4 DEF SurvivalInv, CopyInv, At, Work
<1>10. ASSUME NEW t \in Tx, NEW w \in Works, MakePlan(t, w) PROVE CopyInv'
  BY <1>0, <1>10 DEF MakePlan, CopyInv, At, call
<1>11. ASSUME NEW w \in Works, NEW f \in Tracks, QueueRow(w, f) PROVE CopyInv'
  BY <1>11 DEF QueueRow, SurvivalInv, CopyInv, At, call, trees, history, planner, Work
<1> QED BY <1>1, <1>2, <1>3, <1>4, <1>5, <1>6, <1>7, <1>8, <1>9, <1>10, <1>11 DEF Next, Step

\* Undoing a transaction whose work another has moved makes it blind.
LEMMA UndoIsOfKept ==
  ASSUME IntakeTypeOK, SurvivalInv, NEW t \in Tx, plan[t] # NoPlan, Undoing(t), blind' = {}
  PROVE  mover[plan[t].work] = NoTx
<1>1. plan[t].work \in Works
  BY DEF IntakeTypeOK, Plan
<1>2. blind = {} /\ mover[plan[t].work] # t
  BY DEF Undoing
<1>3. target[plan[t].work] # "none" => owner[plan[t].work] = t
  BY DEF Undoing
<1>4. SomeCopy(plan[t].work)
  BY <1>1, <1>2 DEF SurvivalInv
<1> QED BY <1>2, <1>3, <1>4 DEF SomeCopy, Whole

LEMMA PositionsStep ==
  ASSUME Typed, SurvivalInv, Next
  PROVE  CopyInv'
<1>0. Undo = {"undo_target", "undo_source", "undo_staging", "undo_end"}
  BY DEF Undo
<1>1. CASE Raise
  <2>1. tx \in Tx /\ plan[tx] # NoPlan
    BY <1>1, CallTypes DEF Raise, Typed, CallInv
  <2>2. pc' \in Undo /\ blind' = {} => mover[Work] = NoTx
    BY <1>0, <1>1, <2>1, UndoIsOfKept DEF Raise, Typed, Work
  <2> QED BY <1>0, <1>1, <2>2 DEF Raise, CopyInv, At, Work, planner
<1>2. ASSUME NEW t \in Tx, Recover(t) PROVE CopyInv'
  <2>1. plan[t] # NoPlan
    BY <1>2 DEF Recover, Typed, CallInv
  <2>2. pc' \in Undo /\ blind' = {} => mover[plan[t].work] = NoTx
    BY <1>0, <1>2, <2>1, UndoIsOfKept DEF Recover, Typed
  <2> QED BY <1>0, <1>2, <2>2 DEF Recover, CopyInv, At, Work, planner
<1>3. CASE Commit
  <2>1. tx \in Tx /\ Work \in Works
    BY <1>3, CallTypes DEF Commit, Typed, CallInv
  <2>2. staging[tx] \in Whole /\ manifest \in Whole
    BY <1>3 DEF Commit, SurvivalInv, CopyInv, At
  <2> QED BY <1>0, <1>3, <2>1, <2>2
       DEF Commit, Goto, Transition, CopyInv, At, Work, planner, Typed, IntakeTypeOK
<1>4. CASE CheckStaging \/ CheckTarget
  <2>1. manifest \in Whole
    BY <1>4 DEF CheckStaging, CheckTarget, SurvivalInv, CopyInv, At
  <2> QED BY <1>0, <1>4, <2>1, MatchesWhole
       DEF CheckStaging, CheckTarget, Goto, Transition, SurvivalInv, CopyInv, At, Work, planner,
           trees, Quiet, history
<1>5. CASE Start
  BY <1>0, <1>5 DEF Start, CopyInv, At
<1> QED BY <1>1, <1>2, <1>3, <1>4, <1>5, PositionsKept

\* A work that a step brings no nearer to its loss.
LEMMA SomeCopyStays ==
  ASSUME IntakeTypeOK, NEW w \in Works, SomeCopy(w), mover'[w] = mover[w],
         source[w] \in Whole => source'[w] \in Whole,
         target[w] \in Whole => target'[w] \in Whole /\ owner'[w] = owner[w],
         \A t \in Tx : rollback[t] \in Whole => rollback'[t] \in Whole,
         \A t \in Tx : plan[t] # NoPlan => plan'[t] = plan[t]
  PROVE  SomeCopy(w)'
BY DEF SomeCopy, TxOf

LEMMA SomeCopyStep ==
  ASSUME Typed, MoveInv, SurvivalInv, Next, blind' = {}, NEW w \in Works
  PROVE  SomeCopy(w)'
<1>0. blind = {} /\ SomeCopy(w)
  <2>1. blind \subseteq blind'
    <3>1. CASE Raise \/ \E t \in Tx : Recover(t)
      BY <3>1 DEF Raise, Recover, Undoing
    <3>2. CASE ~(Raise \/ \E t \in Tx : Recover(t))
      <4>1. blind' = blind
        BY <3>2 DEF Next, Step, BeginItem, BatchEnds, Save, SaveFails, Validate, ReadPlan, Start,
           Copy, CopyEnds, CopyFails, CheckStaging, Park, Commit, RenameFails, CheckTarget,
           UpdateDb, UpdateDbFails, Cleanup, CleanupFails, UndoTarget, UndoTargetFails, UndoSource,
           UndoSourceFails, UndoStaging, UndoStagingFails, UndoEnd, Finish, ScanFolder, MakePlan,
           StartBatch, Crash, UserEdits, UserPlaces, QueueRow, Quiet, history
      <4> QED BY <4>1
    <3> QED BY <3>1, <3>2
  <2> QED BY <2>1 DEF SurvivalInv
<1>1. CASE UNCHANGED <<trees, plan, mover, owner>>
  BY <1>0, <1>1, SomeCopyStays DEF trees, Typed
<1>2. CASE Copy \/ CopyEnds \/ UndoStaging \/ UndoStagingFails
  BY <1>0, <1>2, SomeCopyStays
     DEF Copy, CopyEnds, UndoStaging, UndoStagingFails, Quiet, planner, history, Typed
<1>3. CASE Park
  <2>1. tx \in Tx /\ Work \in Works /\ plan[tx] # NoPlan
    BY <1>3, CallTypes DEF Park, Typed, CallInv
  <2>2. CASE Goto("raise")
    BY <1>1, <1>3, <2>2 DEF Park, Goto, Transition, Quiet, planner, history, trees
  <2>3. CASE source[Work] # "none" /\ rollback[tx] = "none"
    <3>1. /\ rollback'[tx] = source[Work] /\ \A t \in Tx \ {tx} : rollback'[t] = rollback[t]
          /\ \A v \in Works \ {Work} : source'[v] = source[v]
          /\ UNCHANGED <<target, plan, mover, owner>>
      BY <1>3, <2>1, <2>3 DEF Park, Quiet, planner, history, Typed, IntakeTypeOK
    <3>2. rollback[tx] \notin Whole
      BY <2>3 DEF Whole
    <3> QED BY <1>0, <2>1, <3>1, <3>2 DEF SomeCopy, TxOf, Work
  <2> QED BY <1>3, <2>2, <2>3 DEF Park
<1>4. CASE Commit
  <2>1. tx \in Tx /\ Work \in Works
    BY <1>4, CallTypes DEF Commit, Typed, CallInv
  <2>2. CASE target[Work] # "none"
    BY <1>1, <1>4, <2>2 DEF Commit, planner, trees
  <2>3. CASE target[Work] = "none"
    <3>1. target[Work] \notin Whole
      BY <2>3 DEF Whole
    <3> QED BY <1>0, <1>4, <2>1, <2>3, <3>1, SomeCopyStays
         DEF Commit, planner, Typed, IntakeTypeOK
  <2> QED BY <2>2, <2>3
<1>5. CASE UpdateDb
  <2>1. target[Work] \in Whole /\ owner[Work] = tx
    BY <1>5 DEF UpdateDb, SurvivalInv, CopyInv, At
  <2>2. CASE mover' = mover
    BY <1>1, <1>5, <2>2 DEF UpdateDb, planner
  <2>3. CASE mover' # mover
    <3>1. /\ tx \in Tx /\ Work \in Works /\ mover' = [mover EXCEPT ![Work] = tx]
      BY <1>5, <2>3, UpdateIsFirst
    <3>2. UNCHANGED <<source, target, rollback, owner, plan>>
      BY <1>5 DEF UpdateDb, planner, trees
    <3>3. CASE w = Work
      BY <2>1, <3>1, <3>2, <3>3, IntakeAssumption DEF SomeCopy, Typed, IntakeTypeOK
    <3>4. CASE w # Work
      BY <1>0, <3>1, <3>2, <3>4, SomeCopyStays DEF Typed, IntakeTypeOK
    <3> QED BY <3>3, <3>4
  <2> QED BY <2>2, <2>3
<1>6. CASE Cleanup \/ CleanupFails
  <2>1. tx \in Tx /\ plan[tx] # NoPlan /\ mover[Work] = tx /\ tx # NoTx
    <3>1. tx \in Tx /\ plan[tx] # NoPlan /\ tx # NoTx
      BY <1>6, CallTypes DEF Cleanup, CleanupFails, Typed, CallInv
    <3> QED BY <1>6, <3>1 DEF Cleanup, CleanupFails, MoveInv, JournalInv, At
  <2>2. /\ UNCHANGED <<source, target, plan, mover, owner>>
        /\ \A t \in Tx \ {tx} : rollback'[t] = rollback[t]
    BY <1>6 DEF Cleanup, CleanupFails, Quiet, planner, history, Typed, IntakeTypeOK
  <2> QED BY <1>0, <2>1, <2>2 DEF SomeCopy, TxOf, Work
<1>7. CASE UndoTarget \/ UndoTargetFails
  <2>1. mover[Work] = NoTx
    BY <1>0, <1>7 DEF UndoTarget, UndoTargetFails, SurvivalInv, CopyInv, Undo
  <2>2. /\ UNCHANGED <<source, rollback, plan, mover>>
        /\ \A v \in Works \ {Work} : target'[v] = target[v] /\ owner'[v] = owner[v]
    BY <1>7 DEF UndoTarget, UndoTargetFails, planner, history, Typed, IntakeTypeOK
  <2> QED BY <1>0, <2>1, <2>2 DEF SomeCopy, TxOf
<1>8. CASE UndoSource
  <2>1. tx \in Tx /\ Work \in Works /\ plan[tx] # NoPlan
    BY <1>8, CallTypes DEF UndoSource, Typed, CallInv
  <2>2. UNCHANGED <<target, plan, mover, owner>>
    BY <1>8 DEF UndoSource, Quiet, planner, history
  <2>3. CASE UNCHANGED <<source, rollback>>
    BY <1>0, <2>2, <2>3, SomeCopyStays DEF Typed
  <2>4. CASE /\ source[Work] = "none"
             /\ source' = [source EXCEPT ![Work] = rollback[tx]]
             /\ rollback' = [rollback EXCEPT ![tx] = "none"]
    <3>1. /\ source'[Work] = rollback[tx] /\ \A v \in Works \ {Work} : source'[v] = source[v]
          /\ \A t \in Tx \ {tx} : rollback'[t] = rollback[t]
          /\ source[Work] \notin Whole
      BY <2>1, <2>4 DEF Typed, IntakeTypeOK, Whole
    <3> QED BY <1>0, <2>1, <2>2, <3>1 DEF SomeCopy, TxOf, Work
  <2> QED BY <1>8, <2>3, <2>4 DEF UndoSource
<1>9. ASSUME NEW v \in Works, UserEdits(v) \/ UserPlaces(v) PROVE SomeCopy(w)'
  <2>1. UNCHANGED <<rollback, plan, mover>>
    BY <1>9 DEF UserEdits, UserPlaces, planner, history
  <2>2. /\ source[w] \in Whole => source'[w] \in Whole
        /\ target[w] \in Whole => target'[w] \in Whole /\ owner'[w] = owner[w]
    BY <1>9 DEF UserEdits, UserPlaces, history, Whole, Typed, IntakeTypeOK
  <2> QED BY <1>0, <2>1, <2>2, SomeCopyStays DEF Typed
<1>10. ASSUME NEW t \in Tx, NEW v \in Works, MakePlan(t, v) PROVE SomeCopy(w)'
  <2>1. \A u \in Tx : plan[u] # NoPlan => plan'[u] = plan[u]
    BY <1>10 DEF MakePlan, Typed, IntakeTypeOK
  <2> QED BY <1>0, <1>10, <2>1, SomeCopyStays DEF MakePlan, trees, history, Typed
<1>11. CASE \/ BeginItem \/ BatchEnds \/ Save \/ SaveFails \/ Validate \/ ReadPlan \/ Start
            \/ CopyFails \/ CheckStaging \/ RenameFails \/ CheckTarget \/ UpdateDbFails
            \/ Raise \/ UndoSourceFails \/ UndoEnd \/ Finish \/ Crash
  BY <1>1, <1>11 DEF BeginItem, BatchEnds, Save, SaveFails, Validate, ReadPlan, Start, CopyFails,
     CheckStaging, RenameFails, CheckTarget, UpdateDbFails, Raise, UndoSourceFails, UndoEnd, Finish,
     Crash, Quiet, planner, history
<1>12. CASE \/ \E v \in Works : ScanFolder(v)
            \/ \E t \in Tx : Recover(t)
            \/ \E s \in Batches : StartBatch(s)
            \/ \E v \in Works, f \in Tracks : QueueRow(v, f)
  BY <1>1, <1>12 DEF ScanFolder, Recover, StartBatch, QueueRow, planner, history
<1> QED BY <1>2, <1>3, <1>4, <1>5, <1>6, <1>7, <1>8, <1>9, <1>10, <1>11, <1>12 DEF Next, Step

LEMMA SurvivalStep ==
  ASSUME Typed, MoveInv, SurvivalInv, [Next]_vars
  PROVE  SurvivalInv'
<1>1. CASE Next
  BY <1>1, PositionsStep, SomeCopyStep DEF SurvivalInv
<1>2. CASE UNCHANGED vars
  <2>1. CopyInv'
    BY <1>2 DEF vars, call, trees, planner, history, SurvivalInv, CopyInv, At, Work
  <2>2. (blind = {} => \A w \in Works : SomeCopy(w))'
    BY <1>2, SomeCopyStays DEF vars, trees, planner, history, SurvivalInv, Typed
  <2> QED BY <2>1, <2>2 DEF SurvivalInv
<1> QED BY <1>1, <1>2

LEMMA InitSurvives == Init => SurvivalInv
BY DEF Init, SurvivalInv, CopyInv, At, Undo, SomeCopy, Whole

\* execute, its handler and recover leave a whole version of every work in its
\* source, its target or a parked source, whatever fails and wherever they end,
\* unless a transaction was undone blindly.
THEOREM SomeCopyIsKept == Spec => []SomeCopySurvives
<1>1. Init => Typed /\ MoveInv /\ SurvivalInv
  BY InitTyped, InitMoves, InitSurvives
<1>2. Typed /\ MoveInv /\ SurvivalInv /\ [Next]_vars => (Typed /\ MoveInv /\ SurvivalInv)'
  BY TypedStep, MoveStepOrStutter, SurvivalStep
<1>3. SurvivalInv => SomeCopySurvives
  BY DEF SurvivalInv, SomeCopy, SomeCopySurvives, Copies, TxOf
<1> QED BY <1>1, <1>2, <1>3, PTL DEF Spec

-----------------------------------------------------------------------------
(* A batch stops at a failure                                               *)

LEMMA BatchGoesStep ==
  ASSUME Typed, MoveInv, BatchGoesInv, [Next]_vars
  PROVE  BatchGoesInv'
<1>1. CASE UNCHANGED <<call, journal, blind>>
  BY <1>1 DEF BatchGoesInv, call
<1>2. CASE ~go' /\ pc' # "next"
  BY <1>2 DEF BatchGoesInv
<1>3. CASE BatchEnds \/ Crash
  BY <1>2, <1>3 DEF BatchEnds, Crash, Return
<1>4. CASE BeginItem \/ (\E s \in Batches : StartBatch(s)) \/ \E t \in Tx : Recover(t)
  BY <1>4 DEF BeginItem, StartBatch, Recover, BatchGoesInv
<1>5. CASE Finish
  BY <1>5 DEF Finish, Return, Goto, BatchGoesInv, history
<1>6. CASE Save
  <2>1. tx \in Tx /\ after # "next" /\ after # "raise"
    BY <1>6, CallTypes DEF Save, Typed, CallInv
  <2>2. journal'[tx] = mem /\ tx' = tx /\ mem' = mem /\ go' = go /\ pc' = after /\ blind' = blind
    BY <1>6, <2>1 DEF Save, Goto, history, Typed, IntakeTypeOK
  <2>3. go /\ tx \notin blind => mem = "completed" /\ after = "finish"
    BY <1>6, <2>1 DEF Save, BatchGoesInv, Typed, CallInv, Closed
  <2> QED BY <2>1, <2>2, <2>3 DEF BatchGoesInv
<1>7. CASE SaveFails
  BY <1>7 DEF SaveFails, Return, Goto, BatchGoesInv, history
<1>8. CASE Raise
  <2>1. CASE mem = "db_updated"
    BY <1>2, <1>8, <2>1 DEF Raise
  <2>2. CASE mem # "db_updated"
    <3>1. /\ tx' = tx /\ go' = go /\ pc' = "undo_target"
          /\ mem = "completed" => mover[Work] = tx
          /\ mover[Work] = tx => tx \in blind'
      BY <1>8, <2>2, CallTypes
         DEF Raise, Undoing, Work, MoveInv, JournalInv, Typed, CallInv
    <3>2. blind \subseteq blind'
      BY <1>8 DEF Raise, Undoing
    <3> QED BY <1>8, <3>1, <3>2 DEF BatchGoesInv, Raise
  <2> QED BY <2>1, <2>2
<1>9. CASE Cleanup
  BY <1>9 DEF Cleanup, BatchGoesInv
<1>10. CASE \/ Validate \/ ReadPlan \/ Start \/ Copy \/ CopyEnds \/ CopyFails \/ CheckStaging
            \/ Park \/ Commit \/ RenameFails \/ CheckTarget \/ UpdateDb \/ UpdateDbFails
  BY <1>10 DEF Validate, ReadPlan, Start, Copy, CopyEnds, CopyFails, CheckStaging, Park, Commit,
     RenameFails, CheckTarget, UpdateDb, UpdateDbFails, Goto, Transition, Quiet, history,
     BatchGoesInv
<1>11. CASE \/ CleanupFails \/ UndoTarget \/ UndoTargetFails \/ UndoSource \/ UndoSourceFails
            \/ UndoStaging \/ UndoStagingFails \/ UndoEnd
  BY <1>11 DEF CleanupFails, UndoTarget, UndoTargetFails, UndoSource, UndoSourceFails, UndoStaging,
     UndoStagingFails, UndoEnd, Transition, Removed, Quiet, history, BatchGoesInv
<1>12. CASE \/ \E w \in Works : ScanFolder(w) \/ UserEdits(w) \/ UserPlaces(w)
            \/ \E t \in Tx, w \in Works : MakePlan(t, w)
            \/ \E w \in Works, f \in Tracks : QueueRow(w, f)
            \/ UNCHANGED vars
  BY <1>1, <1>12 DEF ScanFolder, UserEdits, UserPlaces, MakePlan, QueueRow, history, vars
<1> QED BY <1>3, <1>4, <1>5, <1>6, <1>7, <1>8, <1>9, <1>10, <1>11, <1>12 DEF Next, Step

\* A batch goes on only after a request whose journal says completed.
THEOREM BatchStops == Spec => []BatchStopsAtFailure
<1>1. Init => Typed /\ MoveInv /\ BatchGoesInv
  <2>1. Init => BatchGoesInv
    BY DEF Init, BatchGoesInv
  <2> QED BY <2>1, InitTyped, InitMoves
<1>2. Typed /\ MoveInv /\ BatchGoesInv /\ [Next]_vars => (Typed /\ MoveInv /\ BatchGoesInv)'
  BY TypedStep, MoveStepOrStutter, BatchGoesStep
<1>3. BatchGoesInv => BatchStopsAtFailure
  BY DEF BatchGoesInv, BatchStopsAtFailure
<1> QED BY <1>1, <1>2, <1>3, PTL DEF Spec

-----------------------------------------------------------------------------
(* Tables and folders agree once a call is over                             *)

LEMMA ParkedStep ==
  ASSUME Typed, MoveInv, ParkedInv, [Next]_vars
  PROVE  ParkedInv'
<1> DEFINE Before == {"validate", "plan", "start", "copy", "copying", "check", "park"}
           Open == UnderWay \union Committed
<1>0. /\ {"started", "staged", "source_parked", "target_committed", "verified", "stop_required"}
           \subseteq UnderWay
      /\ {"db_updated", "cleanup_pending"} \subseteq Open
      /\ "none" \notin Open
      /\ "update" \notin Before /\ "cleanup" \notin Before /\ "finish" \notin Before
  BY DEF UnderWay, Committed
<1>1. CASE UNCHANGED <<call, rollback, journal, mover>> /\ \A w \in Works : db'[w].path = db[w].path
  BY <1>1 DEF ParkedInv, At, call
<1>2. CASE BatchEnds \/ Crash
  BY <1>2 DEF BatchEnds, Crash, Return, ParkedInv, At, trees, history
<1>3. CASE SaveFails \/ Finish
  BY <1>3 DEF SaveFails, Finish, Return, Goto, ParkedInv, At, trees, history
<1>4. CASE BeginItem
  <2>1. tx' \in Tx /\ journal[tx'] = "none"
    <3>1. batch \in Seq(Tx) /\ batch # << >> /\ tx' = batch[1] /\ 1 \in DOMAIN batch
      BY <1>4 DEF BeginItem, Typed, IntakeTypeOK
    <3> QED BY <3>1 DEF Typed, BatchInv
  <2>2. rollback[tx'] = "none"
    BY <1>0, <2>1 DEF ParkedInv
  <2> QED BY <1>4, <2>2 DEF BeginItem, ParkedInv, At, trees, history
<1>5. CASE Save
  <2>1. tx \in Tx /\ after \notin {"save", "undo_staging", "undo_end"}
    BY <1>5, CallTypes DEF Save, Typed, CallInv
  <2>2. /\ journal'[tx] = mem /\ \A t \in Tx \ {tx} : journal'[t] = journal[t]
        /\ tx' = tx /\ pc' = after /\ UNCHANGED <<rollback, db, mover>>
    BY <1>5, <2>1 DEF Save, Goto, trees, history, Typed, IntakeTypeOK
  <2> QED BY <1>5, <2>1, <2>2 DEF Save, ParkedInv, At
<1>6. CASE Validate \/ ReadPlan \/ Start \/ CheckStaging \/ CheckTarget
  BY <1>0, <1>6 DEF Validate, ReadPlan, Start, CheckStaging, CheckTarget, Goto, Transition, Quiet,
     ParkedInv, At, trees, history, MoveInv, BlindInv
<1>7. CASE CopyFails \/ RenameFails \/ UpdateDbFails \/ Copy \/ CopyEnds
  BY <1>7 DEF CopyFails, RenameFails, UpdateDbFails, Copy, CopyEnds, Goto, Quiet, ParkedInv, At,
     trees, history
<1>8. CASE Park
  <2>1. tx \in Tx /\ journal[tx] \in UnderWay
    BY <1>8, CallTypes DEF Park, Typed, CallInv, ParkedInv
  <2>2. \A t \in Tx \ {tx} : rollback'[t] = rollback[t]
    BY <1>8 DEF Park, Typed, IntakeTypeOK
  <2> QED BY <1>0, <1>8, <2>1, <2>2
       DEF Park, Goto, Transition, Quiet, history, ParkedInv, At
<1>9. CASE Commit
  BY <1>0, <1>9 DEF Commit, Goto, Transition, ParkedInv, At
<1>10. CASE UpdateDb
  <2>1. UNCHANGED <<tx, rollback, journal>>
    BY <1>10 DEF UpdateDb, Goto, Transition, trees
  <2>2. pc' \in {"raise", "save"} /\ (pc' = "save" => mem' = "db_updated" /\ after' = "cleanup")
    BY <1>10 DEF UpdateDb, Goto, Transition
  <2>3. \A w \in Works : db'[w].path = Dst(w) => mover'[w] # NoTx
    <3>1. CASE db' = db /\ mover' = mover
      BY <3>1 DEF ParkedInv
    <3>2. CASE db' # db \/ mover' # mover
      <4>1. /\ tx \in Tx /\ Work \in Works /\ mover' = [mover EXCEPT ![Work] = tx]
            /\ db' = [db EXCEPT ![Work] = PathsMoved(@, Src(Work), Dst(Work), MappedFiles)]
        BY <1>10, <3>2, UpdateIsFirst
      <4>2. mover'[Work] # NoTx /\ \A w \in Works \ {Work} : mover'[w] = mover[w] /\ db'[w] = db[w]
        BY <4>1, IntakeAssumption DEF Typed, IntakeTypeOK
      <4> QED BY <4>2 DEF ParkedInv
    <3> QED BY <3>1, <3>2
  <2> QED BY <1>0, <2>1, <2>2, <2>3 DEF ParkedInv, At
<1>11. CASE Cleanup \/ CleanupFails
  <2>1. tx \in Tx
    BY <1>11, CallTypes DEF Cleanup, CleanupFails, Typed, CallInv
  <2>2. \A t \in Tx \ {tx} : rollback'[t] = rollback[t]
    BY <1>11 DEF Cleanup, CleanupFails, Typed, IntakeTypeOK
  <2> QED BY <1>0, <1>11, <2>1, <2>2
       DEF Cleanup, CleanupFails, Transition, Quiet, history, ParkedInv, At, Typed, IntakeTypeOK
<1>12. CASE Raise
  BY <1>0, <1>12 DEF Raise, ParkedInv, At, trees
<1>13. CASE UndoTarget \/ UndoTargetFails \/ UndoSourceFails
  BY <1>13 DEF UndoTarget, UndoTargetFails, UndoSourceFails, Removed, Quiet, trees, history,
     ParkedInv, At
<1>14. CASE UndoSource
  <2>1. tx \in Tx
    BY <1>14, CallTypes DEF UndoSource, Typed, CallInv
  <2>2. /\ \A t \in Tx \ {tx} : rollback'[t] = rollback[t]
        /\ rollback'[tx] # "none" => rollback[tx] # "none"
        /\ clean' => rollback'[tx] = "none"
        /\ tx' = tx /\ pc' = "undo_staging" /\ UNCHANGED <<journal, db, mover>>
    BY <1>14, <2>1 DEF UndoSource, Removed, Quiet, history, Typed, IntakeTypeOK
  <2> QED BY <2>1, <2>2 DEF ParkedInv, At
<1>15. CASE UndoStaging \/ UndoStagingFails
  BY <1>15 DEF UndoStaging, UndoStagingFails, Removed, Quiet, history, ParkedInv, At
<1>16. CASE UndoEnd
  BY <1>0, <1>16 DEF UndoEnd, Undone, Quiet, history, trees, ParkedInv, At
<1>17. CASE (\E s \in Batches : StartBatch(s)) \/ \E t \in Tx : Recover(t)
  BY <1>0, <1>17 DEF StartBatch, Recover, ParkedInv, At, trees, history
<1>18. CASE \/ \E w \in Works : ScanFolder(w) \/ UserEdits(w) \/ UserPlaces(w)
            \/ \E t \in Tx, w \in Works : MakePlan(t, w)
            \/ UNCHANGED vars
  BY <1>1, <1>18 DEF ScanFolder, UserEdits, UserPlaces, MakePlan, history, vars, trees
<1>19. ASSUME NEW w \in Works, NEW f \in Tracks, QueueRow(w, f) PROVE ParkedInv'
  <2>1. \A v \in Works : db'[v].path = db[v].path
    <3>1. db[w] \in Entry
      BY DEF Typed, IntakeTypeOK
    <3>2. [db[w] EXCEPT !.rows[f].status = "queued"].path = db[w].path
      BY <3>1, EntryIs
    <3> QED BY <1>19, <3>2 DEF QueueRow, Typed, IntakeTypeOK
  <2> QED BY <1>1, <1>19, <2>1 DEF QueueRow, trees, history
<1> QED BY <1>2, <1>3, <1>4, <1>5, <1>6, <1>7, <1>8, <1>9, <1>10, <1>11, <1>12, <1>13, <1>14,
           <1>15, <1>16, <1>17, <1>18, <1>19 DEF Next, Step

LEMMA InitParked == Init => ParkedInv
<1> SUFFICES ASSUME Init PROVE ParkedInv
  OBVIOUS
<1>1. \A w \in Works : db[w].path # Dst(w)
  <2>1. ASSUME NEW w \in Works, NEW e \in InitialEntries(w) PROVE e.path # Dst(w)
    <3>1. e.path \in {NoFolder, Src(w), <<w, "elsewhere">>}
      BY <2>1 DEF InitialEntries
    <3>2. Dst(w) # NoFolder /\ Dst(w) # <<w, "elsewhere">>
      BY WorkFolders, FolderAssumption DEF Dst
    <3> QED BY <3>1, <3>2, WorkFolders
  <2> QED BY <2>1 DEF Init
<1> QED BY <1>1 DEF Init, ParkedInv, At

\* Of a work none of whose transactions is half done, the folder that the tables
\* name is whole: the survivor of SurvivalInv is where the tables say.
LEMMA SettledFollows ==
  ASSUME Typed, MoveInv, SurvivalInv, ParkedInv
  PROVE  SettledAgrees
<1> SUFFICES ASSUME NEW w \in Works, blind = {},
                    \A t \in TxOf(w) : journal[t] \notin UnderWay
             PROVE  /\ db[w].path = Src(w) => source[w] \in Whole
                    /\ db[w].path = Dst(w) => target[w] \in Whole
  BY DEF SettledAgrees
<1>1. SomeCopy(w)
  BY DEF SurvivalInv
<1>2. CASE db[w].path = Dst(w)
  <2>1. mover[w] # NoTx
    BY <1>2 DEF ParkedInv
  <2> QED BY <1>1, <1>2, <2>1, WorkFolders DEF SomeCopy
<1>3. CASE db[w].path = Src(w)
  <2>1. mover[w] = NoTx
    BY <1>3 DEF MoveInv, MoverInv, References
  <2>2. \A t \in TxOf(w) : rollback[t] \notin Whole
    <3>1. SUFFICES ASSUME NEW t \in TxOf(w), rollback[t] \in Whole PROVE FALSE
      OBVIOUS
    <3>2. t \in Tx /\ plan[t].work = w
      BY DEF TxOf
    <3>3. rollback[t] # "none"
      BY <3>1 DEF Whole
    <3>4. journal[t] \in Committed
      BY <3>2, <3>3 DEF ParkedInv
    <3>5. mover[w] = t
      BY <3>2, <3>4 DEF MoveInv, JournalInv
    <3> QED BY <2>1, <3>2, <3>5, IntakeAssumption
  <2> QED BY <1>1, <1>3, <2>1, <2>2, WorkFolders DEF SomeCopy
<1> QED BY <1>2, <1>3

\* Tables and folders have moved together or not at all, once no call runs.
THEOREM SettledIsConsistent == Spec => []SettledAgrees
<1>1. Init => Typed /\ MoveInv /\ SurvivalInv /\ ParkedInv
  BY InitTyped, InitMoves, InitSurvives, InitParked
<1>2. Typed /\ MoveInv /\ SurvivalInv /\ ParkedInv /\ [Next]_vars
        => (Typed /\ MoveInv /\ SurvivalInv /\ ParkedInv)'
  BY TypedStep, MoveStepOrStutter, SurvivalStep, ParkedStep
<1>3. Typed /\ MoveInv /\ SurvivalInv /\ ParkedInv => SettledAgrees
  BY SettledFollows
<1> QED BY <1>1, <1>2, <1>3, PTL DEF Spec
===============================================================================
