-------------------------------- MODULE Library --------------------------------
(***************************************************************************)
(* The tools of the library together: migrations, rebuilds of the index,   *)
(* maintenance and metadata requests run on threads and tasks of their own *)
(* over the same folders and tables, while the downloader downloads and    *)
(* the user works in the folders.  Of the downloader (Orchestrator) this   *)
(* module keeps what reaches the tables and folders of a whole work.       *)
(***************************************************************************)
EXTENDS MigrationEngine, LibraryRebuild, Maintenance, MetadataScheduler

CONSTANT
  MaxBegun,     \* tools, requests and edits that users begin
  MaxQueued     \* works that users queue

ASSUME RequestAssumption == Requests \subseteq Works \X Nat
ASSUME BegunAssumption == MaxBegun \in Nat /\ MaxQueued \in Nat

VARIABLES
  fallback,     \* requests whose prepare_work read an expired row before (stale_cached)
  held,         \* works whose metadata a prepare_work has in memory
  joined,       \* works prepared for download while being migrated
  overtaken,    \* works whose tables come from a scan that was out of date
  orphaned,     \* works prepared or given up when their cache row was gone
  begun, queued \* how many

ghosts == <<joined, overtaken, orphaned>>
counts == <<begun, queued>>
requests == <<scheduler, fallback, held>>
vars == <<shared, bounds, migration, rebuild, maintenance, requests, ghosts, counts>>

WorkOf(r) == r[1]

LibraryTypeOK ==
  /\ SharedTypeOK /\ EngineTypeOK /\ RebuildTypeOK /\ MaintenanceTypeOK
  /\ SchedulerTypeOK
  /\ fallback \subseteq pending /\ held \subseteq Works
  /\ {joined, overtaken, orphaned} \subseteq SUBSET Works
  /\ begun \in 0..MaxBegun /\ queued \in 0..MaxQueued

Init ==
  /\ SharedInit /\ EngineInit /\ RebuildInit /\ MaintenanceInit /\ SchedulerInit
  /\ fallback = {} /\ held = {}
  /\ joined = {} /\ overtaken = {} /\ orphaned = {} /\ begun = 0 /\ queued = 0

NoMigration == UNCHANGED migration
NoRebuild   == UNCHANGED rebuild
NoTool      == UNCHANGED <<migration, rebuild, maintenance>>
NoRequest   == UNCHANGED requests

Begins == begun < MaxBegun /\ begun' = begun + 1 /\ UNCHANGED queued
Queues == queued < MaxQueued /\ queued' = queued + 1 /\ UNCHANGED begun

BeingMigrated(w) == step \notin {"idle", "next"} /\ work = w
FoldersNow(w) == {p \in FoldersOf(w) : Present(p)}

-----------------------------------------------------------------------------
(* The tools *)

MigrationStarts == Begins /\ Execute /\ UNCHANGED <<rebuild, maintenance, requests, ghosts>>
MigrationSteps ==
  /\ step # "idle" /\ Migrate
  /\ UNCHANGED <<rebuild, maintenance, requests, ghosts, counts>>

RebuildStarts == Begins /\ StartRebuild /\ UNCHANGED <<migration, maintenance, requests, ghosts>>
RebuildSteps ==
  /\ stage # "idle" /\ Rebuild
  /\ overtaken' = IF stage = "replace" /\ db' # db
       THEN overtaken \union {w \in Works :
            \/ BeingMigrated(w) \/ chosen[w] \notin Canonical(w)
            \/ seen \intersect FoldersOf(w) # FoldersNow(w)}
       ELSE overtaken
  /\ UNCHANGED <<migration, maintenance, requests, joined, orphaned, counts>>

ToolStarts ==
  /\ \/ Begins /\ (ClearCache \/ SelectBacklog)
     \/ (AskReenable \/ ConfirmReenable \/ CancelReenable) /\ UNCHANGED counts
  /\ UNCHANGED <<migration, rebuild, requests, ghosts>>
CloseoutApplied(w) ==
  /\ Begins /\ CloseOut(w)
  /\ orphaned' = IF cache[w] = "none" THEN orphaned \union {w} ELSE orphaned
  /\ UNCHANGED <<migration, rebuild, requests, joined, overtaken>>
CleanupSteps ==
  /\ cleaning # "idle" /\ Cleanup
  /\ UNCHANGED <<migration, rebuild, requests, ghosts, counts>>
BacklogSteps == Reenable /\ UNCHANGED <<migration, rebuild, requests, ghosts, counts>>

-----------------------------------------------------------------------------
(* The downloader *)

\* prepare_work asks for metadata when no row of the cache is fresh, or when
\* it is told to (force_refresh); an expired row is read before it asks.
Request(r) == \E forced \in BOOLEAN :
  /\ forced \/ cache[WorkOf(r)] # "fresh"
  /\ Begins /\ Submit(r)
  /\ fallback' = IF ~forced /\ cache[WorkOf(r)] = "expired" THEN fallback \union {r}
                 ELSE fallback
  /\ NoTool /\ UNCHANGED <<shared, bounds, ghosts, held>>

\* _fetch_metadata_live: the factory writes the cache before it answers.  A
\* caller that still waits goes on with the answer, or with what it read before.
Fetched(r) == \E end \in {"answered", "failed"} :
  /\ Answer(r, end)
  /\ fallback' = fallback \ {r}
  /\ held' = IF r \in (IF end = "answered" THEN pending ELSE fallback)
             THEN held \union {WorkOf(r)} ELSE held
  /\ cache' = IF end = "answered" THEN [cache EXCEPT ![WorkOf(r)] = "fresh"] ELSE cache
  /\ orphaned' = IF end = "answered" THEN orphaned \ {WorkOf(r)} ELSE orphaned
  /\ NoTool /\ UNCHANGED <<disk, db, running, preserved, bounds, joined, overtaken, counts>>

SchedulerSteps ==
  /\ Take \/ Stopped \/ \E r \in Requests : WorkerStops(r)
  /\ fallback' = fallback \intersect pending'
  /\ NoTool /\ UNCHANGED <<shared, bounds, ghosts, counts, held>>
CallerLeaves ==
  /\ \/ OnLine \union active # {} /\ Close
     \/ \E r \in Requests : Abandon(r)
  /\ fallback' = fallback \intersect pending'
  /\ NoTool /\ UNCHANGED <<shared, bounds, ghosts, counts, held>>

\* The ids of rows hold the name of a file and not its folder, so the rows of
\* an earlier download are rewritten.
PreparedRows(w) ==
  [f \in Tracks |-> [at |-> Out(w),
     status |-> IF disk[Out(w)] \in Whole THEN "completed" ELSE "queued"]]

\* prepare_work reads a fresh row of the cache.
Lookup(w) ==
  /\ Queues /\ closing = "no"
  /\ w \notin running /\ cache[w] = "fresh"
  /\ held' = held \union {w}
  /\ NoTool /\ UNCHANGED <<shared, bounds, scheduler, fallback, ghosts>>

\* It goes on with what it has in memory and never looks at the cache again.
\* (A resume that started the work meanwhile is in Orchestrator.)
Prepare(w) ==
  /\ w \in held /\ w \notin running
  /\ held' = held \ {w}
  /\ disk' = [disk EXCEPT ![Out(w)] = IF @ = "none" THEN "partial" ELSE @]
  /\ db' = [db EXCEPT ![w].status = "prepared", ![w].path = Out(w),
                      ![w].rows = PreparedRows(w)]
  /\ running' = running \union {w}
  /\ joined' = IF BeingMigrated(w) THEN joined \union {w} ELSE joined
  /\ orphaned' = IF cache[w] = "none" THEN orphaned \union {w} ELSE orphaned
  /\ NoTool /\ UNCHANGED <<scheduler, fallback, cache, preserved, bounds, overtaken, counts>>

\* Resume keeps the path of a row and looks at the file there; without any
\* metadata it is a request and Prepare.
ResumedRows(w) ==
  [f \in DOMAIN db[w].rows |->
    LET row == db[w].rows[f]
        here == row.at # NoFolder /\ disk[row.at] \in Whole
    IN  IF \/ row.status \in GivenUp \union {"cancelled"}
           \/ row.status \in {"completed", "registered"} /\ here
          THEN row
        ELSE IF here THEN [row EXCEPT !.status = "completed"]
        ELSE [at |-> IF row.at = NoFolder THEN Out(w) ELSE row.at, status |-> "queued"]]

Resume(w) ==
  /\ Queues /\ closing = "no"
  /\ w \notin running /\ cache[w] # "none" /\ HasPending(db[w])
  /\ LET rows == ResumedRows(w)
         waits == \E f \in DOMAIN rows : rows[f].status = "queued"
     IN
     /\ db' = [db EXCEPT ![w].rows = rows,
                         ![w].status = IF waits THEN "queued"
                           ELSE IF \E f \in DOMAIN rows : rows[f].status = "cancelled" THEN @
                           ELSE "completed"]
     /\ running' = IF waits THEN running \union {w} ELSE running
  /\ NoTool /\ NoRequest /\ UNCHANGED <<disk, cache, preserved, bounds, ghosts>>

\* Paused, failed or cancelled; a failure keeps the status of the work.
Stop(w) ==
  /\ w \in running
  /\ \E end \in {"paused", "failed", "cancelled"} :
       db' = [db EXCEPT ![w].rows = [f \in DOMAIN @ |->
                IF @[f].status \in Pending THEN [@[f] EXCEPT !.status = end] ELSE @[f]],
                        ![w].status = IF end = "failed" THEN @ ELSE end]
  /\ running' = running \ {w}
  /\ NoTool /\ NoRequest /\ UNCHANGED <<disk, cache, preserved, bounds, ghosts, counts>>

\* The last file of the work is there: it is registered at get_save_path,
\* wherever its rows say that the files are.
Finish(w) ==
  /\ w \in running
  /\ LET waiting == {f \in DOMAIN db[w].rows : db[w].rows[f].status = "queued"} IN
     /\ \A f \in waiting : Present(db[w].rows[f].at)
     /\ disk' = [p \in Folders |->
                  IF \E f \in waiting : db[w].rows[f].at = p THEN
                    IF disk[p] \in Whole THEN disk[p] ELSE "v1"
                  ELSE IF p = Out(w) /\ disk[p] = "none" THEN "partial" ELSE disk[p]]
     /\ db' = [db EXCEPT ![w].status = "completed", ![w].path = Out(w),
                 ![w].rows = [f \in DOMAIN @ |->
                   IF @[f].status \in {"queued", "completed"}
                     THEN [@[f] EXCEPT !.status = "registered"] ELSE @[f]]]
  /\ running' = running \ {w}
  /\ NoTool /\ NoRequest /\ UNCHANGED <<cache, preserved, bounds, ghosts, counts>>

-----------------------------------------------------------------------------
(* The user, time and the end of the process *)

\* An edit that keeps the sizes of the files; another edit is seen by all.
UserEdits(p) ==
  /\ Begins /\ edits < MaxEdits /\ edits' = edits + 1
  /\ disk[p] = "v1" /\ disk' = [disk EXCEPT ![p] = "edited"]
  /\ NoTool /\ NoRequest
  /\ UNCHANGED <<db, cache, running, preserved, faults, ghosts>>

Expire(w) ==
  /\ cache[w] = "fresh" /\ cache' = [cache EXCEPT ![w] = "expired"]
  /\ NoTool /\ NoRequest
  /\ UNCHANGED <<disk, db, running, preserved, bounds, ghosts, counts>>

\* The next process starts with every row that was downloading queued.
ProcessEnds ==
  /\ running' = {}
  /\ step' = "idle" /\ batch' = [w \in Works |-> "none"] /\ barred' = {} /\ deletes' = FALSE
  /\ work' = NoWork /\ manifest' = "none" /\ token' = NoRows /\ done' = FALSE
  /\ Reset
  /\ cleaning' = "idle" /\ candidates' = {}
  /\ enabling' = "idle" /\ selected' = {} /\ preimage' = NoPreimage
  /\ line' = << >> /\ pending' = {} /\ active' = {} /\ closing' = "no" /\ workers' = 0
  /\ fallback' = {} /\ held' = {}
  /\ UNCHANGED <<disk, db, cache, preserved, bounds, ghosts, counts>>

Next ==
  \/ MigrationStarts \/ MigrationSteps
  \/ RebuildStarts \/ RebuildSteps
  \/ ToolStarts \/ CleanupSteps \/ BacklogSteps
  \/ \E r \in Requests : Request(r) \/ Fetched(r)
  \/ SchedulerSteps \/ CallerLeaves
  \/ \E w \in Works : Lookup(w) \/ Prepare(w) \/ Resume(w) \/ Stop(w) \/ Finish(w) \/ Expire(w)
                      \/ CloseoutApplied(w)
  \/ \E p \in Folders : UserEdits(p)
  \/ ProcessEnds

Spec == Init /\ [][Next]_vars

\* A thread of run_blocking that runs is run on, and so is the event loop; a
\* request ends at the last mirror at the latest.  (Nothing is promised of the
\* backlog, whose next step may be the user's.)
ThreadSteps == MigrationSteps \/ RebuildSteps \/ CleanupSteps
LoopSteps == SchedulerSteps \/ \E r \in Requests : Fetched(r)
Fairness == WF_vars(ThreadSteps) /\ WF_vars(LoopSteps)

FairSpec == Spec /\ Fairness

-----------------------------------------------------------------------------
(* Properties *)

\* Of every work a whole copy stays on the disks, whichever step of its
\* migration fails, is interrupted, or meets a download, a rebuild or an edit
\* (migrate_one deletes the source last, and gives the tables back only an
\* intact one before it removes the target).
CopySurvives ==
  \A w \in Works : disk[Old(w)] \in Whole \/ disk[Out(w)] \in Whole

\* Once no migration of it runs, a finished work whose rows lie where the
\* tables say is there whole, unless a download joined the migration or a
\* rebuild wrote what it had seen before (_update_db_paths refuses rows that
\* are not the snapshot's).
TablesNameFolder ==
  \A w \in Works \ (joined \union overtaken) :
    LET e == db[w] IN
    (/\ ~BeingMigrated(w) /\ w \notin running
     /\ e.status \in {"completed", "verified", "indexed", "external"}
     /\ \A f \in DOMAIN e.rows : e.rows[f].at = e.path)
    => e.path # NoFolder /\ disk[e.path] \in Whole

\* A source goes only when no row of the work points into it any more and the
\* whole target stands, unless a rebuild brought the old rows back
\* (delete after db_update in migrate_one).
SourceGoesUnused ==
  \A w \in Works :
    disk[Old(w)] # "none" /\ disk'[Old(w)] = "none" =>
      /\ disk[Out(w)] \in Whole
      /\ \A f \in DOMAIN db[w].rows : db[w].rows[f].at # Old(w)
      /\ db[w].path # Old(w) \/ w \in overtaken

SourceLeftUnused == [][SourceGoesUnused]_vars

\* A work whose rows can still be resumed or given back keeps its metadata,
\* without which a resume prepares it anew and its rows lose the folder they
\* name (METADATA_PROTECTED_STATUSES, looked at again by the deletion): a
\* cleanup takes it neither from rows that were queued, given up or cancelled
\* since its preview nor from rows that return from the backlog.  Left out are
\* rows that were written, or given up, when the cache row was gone already.
MetadataKept ==
  \A w \in Works \ orphaned : Protected(db[w]) => cache[w] # "none"

\* A migration that reports success is confirmed by verify_migrated_work, as
\* long as nobody edits the folders or writes the tables of the work meanwhile.
SuccessVerifies ==
  step = "end" /\ done /\ work \notin joined \union overtaken /\ edits = 0
    => VerifiesMigrated(work)

\* Every call of submit ends, with an answer, an error or its cancellation,
\* also when the scheduler is shut down meanwhile.
RequestsEnd == \A r \in Requests : []<>(r \notin pending)

\* A batch of migrations ends, and so do a rebuild and a cleanup.
ToolsEnd ==
  /\ []<>(step = "idle")
  /\ []<>(stage = "idle")
  /\ []<>(cleaning = "idle")
================================================================================
