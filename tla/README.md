# A TLA+ model of the ARSM download suite

ARSM Suite is a desktop downloader: the user enters RJ ids (works), the program
fetches the metadata and the track list of each work, downloads its files with
resume, tags them and records everything in SQLite; tools move, adopt and repair
the library. This directory holds models of the part where its logic is, the
runs that check them with TLC, and theorems that TLAPS proves.

## The system

| Component | State | Operations | Modelled in |
|---|---|---|---|
| Download orchestrator, `core/orchestrator.py` | queue and its index, running tasks, stop markers, guards of suspended operations, global pause | queue, pause, cancel, retry, resume, reconnect, pause all, resume all, shutdown, restore; workers; transfers | `Orchestrator` |
| Cards and buttons, `core/services/download_service.py`, `core/status.py`, `ui/views/` | none of their own | a state for the card of a work, the buttons of that state | `DownloadCards` |
| Transfer of one file, `download_file` and `core/download_response.py` | the final and the `.part` file, the row | a response becomes write, append, restart, complete or error; retries | `TrackTransfer`, implementing `VerifiedFile` |
| State tables, `core/database.py`, `core/intake_db.py`, `core/library_rebuild.py` | `works`, `downloads`, `library_items`, `library_index`, `metadata_cache` | upserts by the orchestrator; a move of all paths of a work; rebuild of the index | `Orchestrator` (the rows it uses), `PathUpdate`, `LibraryRebuild` |
| Metadata scheduler, `core/metadata_scheduler.py` | FIFO of requests, workers | submit, work, shutdown | `MetadataScheduler` |
| External intake planner, `tools/external_intake.py` | none | scan, classify, annotate, choose | `IntakePlanner` |
| External intake executor, `core/intake_fs.py`, `intake_journal.py`, `intake_manifest.py` | journal, staging, parked source, target, tables | plan, stage, park, commit, verify, update, clean up, undo, recover | `IntakeExecutor`, implementing `AtomicMove` |
| Library migration, `core/migration.py`, `migration_manifest.py` | source, staging, target, tables, cleanup plan | scan, validate, copy, verify, replace, update, delete, reverse | `MigrationEngine` |
| Maintenance tools, `core/tools_maintenance.py`, `unfinished_closeout.py`, `tools/backlog_reenable.py` | what a preview chose | preview, look again, apply in one transaction | `Maintenance` |
| Application shell, `ui/app_base.py` | loop thread, tool threads, event queue | submits commands, runs tools, shows events | the order of commands; `Library` |
| Network, configuration, speed, tags | sessions, settings | requests with timeouts and failover | their outcomes |
| State policy, reports, diagnostics | none of their own | derive what is shown | no |

How they interact. All of the orchestrator runs on one asyncio loop in its own
thread; the UI thread submits coroutines to it and never waits. Code between two
awaits is atomic, so every race is between handlers that are suspended: a
metadata request inside `queue_job` or `resume_job`, the wait of
`reconnect_job`, the loop of resume-all, a worker awaiting its task, a task
awaiting its cover and its transfers. Commands come from cards that may be out
of date. SQLite and the files survive a crash, the fields do not. The tools run
on threads of their own (`run_blocking`) over the same tables and folders; each
reads, decides and writes later, in one transaction, and meets there whatever
another tool, a download or the user has done in between.

What is hard here: a stop that arrives while something is suspended; the stop
markers, which are sets shared by whatever runs for the same work; entries that
a stop leaves on the queue; results that are written after the command that
stopped them; a crash between a file and its row; the order of a shutdown; a move of
folders and tables that no single transaction covers, failing or ended by a crash
at any step; scans and previews that are out of date when they are used.

What makes the orchestrator right: a work has one task at most; the queue's
three parts agree; a stop wins over what was under way and is undone only by the
user; rows say what the tasks do and what is on disk; finished work stays
finished; queued works start, operations and shutdown end. What makes a transfer
right: bytes are appended only where they belong, a file is recorded only whole,
every transfer ends, and an honest server is enough for it to succeed. What makes
the tools right: a whole copy of every work survives every failure; tables and
folders move together or not at all; what a journal or a report says last is true;
metadata that is still needed stays; every tool and every request ends.

## Orchestrator

One work is an RJ id, one track a file. Correspondence of state:

| Variable | Code |
|---|---|
| `download_queue`, `queued_rj_ids`, `work_data` | the fields of these names (`_queued_work_data`; of its record only the targets) |
| `active_tasks` | the dict, with the worker that awaits the task as its value |
| `cancelled_rjs`, `user_cancelled_rjs`, `preparing_rj_ids`, `resuming_rj_ids`, `global_paused` | the fields of these names |
| `reconnecting` | calls of `reconnect_job` that wait for a task to end |
| `loop`, `batch`, `batch_rj` | the position of `_resume_all_async` or of the delayed auto-resume |
| `job`, `phase`, `cancelling`, `file`, `attempt` | the task of each worker: awaiting the cover or its transfers, told to stop, the state of each transfer |
| `lifecycle` | `_shutting_down` and how far `shutdown` got; `down` after a crash |
| `works`, `row`, `cache` | the tables; a cache is the list of tracks it holds |
| `disk` | the final and the `.part` file of each track, by size against the listed size |
| `wish` | history: what the user last asked for; nothing reads it but properties |

Each handler is one action up to its await and one after it. `QueueWith`,
`PauseWith`, `CancelWith`, `ResumeWith`, `SettleWith` are the bodies that several
handlers share (`queue_job` after `prepare_work`, `pause_job`, `cancel_job`,
`_resume_one`, the second half of `resume_job`), and `PrepareRefused` and `SettleRefused` are
the first and the last of these ended by an exception; they take the rows and the
status as parameters because a caller may have rewritten them in the same turn.
`BatchNext` keeps the loop: a resume that does not suspend gives no one else a
turn, and `Next` says so.

Abstractions:

- Sizes are classes (`none`, `part`, `partfull`, `over`, `final`), and the
  listed size is known. Which response leads to which size is left open
  (`FileWrites`); `TrackTransfer` has the bytes.
- A handler's several row updates are one step. A crash between two of them is
  not modelled; the one that matters, between the renaming of a file, its tags
  and its row, is (`Crash`).
- The OS may refuse the files of `FaultyTracks` wherever the code looks at them, and with
  any such track also the directory of the work. Where the refusal is caught the row or
  the work fails, or the file counts as missing (`local_partial_size`, the cover, a
  transfer, the registration of a work). Where it is not, the handler ends by the
  exception with what it wrote before: `PrepareRefused` (`prepare_work` at 1287-1288),
  `SettleRefused` (`resume_job` looking for a `.part` file at 842 and 864). resume-all only
  notes such an exception and goes on, the auto-resume ends (`BatchThrows`, `ResumeThrows`);
  which of the two loops waits is not kept, so with `AutoResume` either may happen.
  Database errors are not modelled.
- One call of resume-all or the auto-resume runs at a time; two clicks do not overlap.
- A request that succeeds writes the cache and continues its handler in one
  step; two `reconnect_job` of one work are merged.
- A work found in the library is refused before anything changes, so it has no
  action. Statuses that only tools write (`stale`, `ignored`) are left out.
- `resume` and `reconnect` need a row in `works` (`Known`): cards show such works.
- `Room` keeps the queue short: a command that could add another entry starts
  only while the queue holds `QueueBound` entries or fewer.

### Runs

These runs are of `MCOrchestrator`, which names the track lists.

| Run | Instance | Shows |
|---|---|---|
| `commands` | one work, two tracks, two workers, one track refused by the OS, lost caches | `OneTaskPerWork`, `QueueAgrees`, `CancelHolds`, `CancelledRowsStay`, `TypeOK` under all single-work commands |
| `restarts` | one work, two tracks, one worker, two attempts, lists that may come back empty; pause, cancel, pause all, resume all, shutdown, crash | `RunsOnlyWanted`, `DownloadingIsRunning`, `DoneIsOnDisk`, `CompletedMeansDone`, `DoneNeverFails`, `CardsAct` |
| `waiting` | two works, one worker, two attempts; cancel, deleted files | `QueuedStarts` |
| `operations` | one work, one worker, every command that suspends, shutdown, auto-resume, its track refused by the OS | `CancelEnds`, `OperationsEnd`, `ShutdownEnds`, and the two invariants on rows with resume and reconnect |
| `lost_resume`, `paused_yet_runs`, `cancelled_overwritten`, `tagged_file_fails` | the smallest instance of each | the findings below |

Why the bounds are enough to meet the cases: one work already has all races of
one work (its queue entry, its markers, two suspended handlers, a dying task), a
second worker is what a stale entry needs to start it twice, a second work is
what starvation needs, a second track is what a partly finished work needs. Two
attempts show a backoff and a last attempt.

Fairness. The event loop runs every ready coroutine, so each worker, task,
transfer and loop has weak fairness. That a request ends is a little more than the code
says: `core/network.py:48-52` bounds the connection and every single read but not the
total, so a server that goes on sending a byte at a time is never given up. The fairness
assumes that bodies end. Writing bytes (`FileWrites`) owes
nothing: an attempt may fail instead. Users, crashes and starts owe nothing.
`QueuedStarts` is checked with the commands that do not fall under the findings:
a pause and resume of a queued work, and queueing during a global pause, break
it.

### Findings

1. `lost_resume`. Pausing a work that waits on the queue leaves its entry there.
   A resume then answers "Already in queue or resuming" and keeps the pause's
   marker; the worker drops the entry because of the marker.
2. `paused_yet_runs`. `_resume_one` does not look at `preparing_rj_ids`, so a
   refresh by `queue_job` and a `resume_job` of the same work can be suspended
   together. After a pause the first answer's entry is dropped along with the
   shared marker; the second answer then sees no stop and downloads.
3. `cancelled_overwritten`. The failure path of `prepare_work` writes
   `metadata_failed` over `cancelled`.
4. `tagged_file_fails`. Tags lengthen a file. The next resume of the work takes
   it for a file that is too long and fails its row.

Seen with other constants and not kept as runs: with `SwallowsCancel = TRUE`
(`asyncio.wait_for` before Python 3.12 around the cover request) `CancelHolds`
fails; with lists `{t1}` and `{t1, t2}` in turn `CompletedMeansDone` fails,
because `resume_job` completes a work by its listed files only; it fails too with
`resume` and any of a refused file, a tagged one and `loseCache`; with
`AutoResume = TRUE` and pauses `RunsOnlyWanted` fails in the half second before
the auto-resume acts; with `retry` too, when it overlaps a `queue_job` that
fetches; with two works, `resumeAll` and `loseCache` it fails as well: while resume-all
waits for the metadata of one work the user pauses another of its batch, and the loop
then discards that mark and resumes it (`_resume_one` looks at cancellations only). These
are the two hazards of the batch, and no passing run has them: in `restarts` metadata is
never lost, so its batch does not wait, and there is no auto-resume;
with `pauseAll` and `queue` alone `PromisesKept` fails, because the
worker drops what is queued during a global pause.

A preparation that the OS refuses half-way is excepted by name. The user cancels a work
and queues it again; `prepare_work` writes `prepared` and turns the rows of some files
back to `queued` (1265, 1289), then `exists` or `stat` of the next file raises (1287). The
`cancel_job` that would apply the cancellation again (1323-1324) is never reached, and the
cancelled work keeps queued rows. `CancelledRowsStay` allows exactly that step
(`LeavesHalfPrepared`), and run `commands` takes it.

### DownloadCards

`DownloadCards` adds what the user sees: `queue_state` is `_queue_state` of
`download_service.py` on the rows of a work, `Shown` the label as
`WorkStatus.normalize` reads it back, `Buttons` the buttons of
`build_queue_item`. `CardsAct` relates the two ends: a work that has a file to
fetch and that nothing fetches has a button, other than cancel, whose command is
not refused. It is checked in `restarts`, with queue, pause, cancel and crashes;
retry and resume keep it there too. `Accepted` takes a pause for accepted always
(`pause_job` returns its answer on every path), so a card that offers one is not stuck
by this property, even if what follows is a resume. It does not hold everywhere. With a
file that the OS refuses a work that is cancelled and queued again can end with queued rows
under a cancelled work, whose card, after a pause, offers a resume that is refused; and
with a file the OS
refuses to inspect, a resume of a completed work fails a row under the completed
work, whose card then offers nothing. In the instance of `operations` a resume that
waits for metadata is answered while the queued work already runs; it completes
the work by its files, the transfer that still ran fails, and the row is paused under
a completed work until resume-all finds it. Cards of a work that is `prepared` or
`partial` without a row to fetch have no button at all.

## TrackTransfer

One file and its bytes. Byte `i` of the source is the number `i`, a tag byte is 0,
so a sequence shows where each of its bytes came from.

| Variable | Code |
|---|---|
| `final`, `part` | contents of `save_path` and of its `.part` file; empty and missing are the same, as to `local_partial_size` |
| `status`, `total` | status and `total_bytes` of the row (`paused` also stands for `cancelled`, `completed` for `registered`) |
| `size` | `track.size` of the listing in use, 0 when unknown |
| `phase`, `attempt`, `existing_size` | position in `download_file`, its loop counter (from 1) and the offset asked for |
| `pos`, `end` | the body being received |
| `smooth` | history: the transfer met an honest server and no interruption |

`Begin` and `Trim` are the two file operations before the first request; the
actions named `Answer...` are the branches of `plan_download_response` with what
`download_file` does on each; `Reset`, `AttemptFails`, `Publish` are shared ends.
`Queue` and `Resume` are what `prepare_work` and `resume_job` make of the files
between two transfers. A crash is possible at every phase, between the renaming
and the row too; it loses bytes not yet flushed. The server is external: it may
answer anything, with bodies cut short, but a 206 holds the bytes its
`Content-Range` names. The file on the server does not change.

`VerifiedFile` is the promise: bytes of the source are held in order, more arrive
or some are given up, completion is reported only over all of them.
`ImplementsVerifiedFile` maps `held` to the bytes in place (and to an impossible
value when they are not the source's) and `complete` to a completed row with the
source's size.

Run `transfer`: a source of 3 bytes, listings 0 (unknown), 2 (too small), 3 and 4
(too large), two attempts, no tags; files left by earlier downloads of any
length. Three bytes allow a partial file that is neither empty nor one byte
short; a second attempt is needed after a reset. Besides the type invariant it
shows `PartAligned`, `PublishedWhole`, `HonestServerSuffices`, `TransferEnds` and
the refinement. Weak fairness of `Work` is that of the loop and of the timeouts of
connections and reads, with the assumption that a body ends (see Orchestrator); queueing, stops and crashes owe nothing.

Seen with other constants: with tags and listings `{0, 3}` the refinement and
`PartAligned` fail. A file without a listed size whose body ends early is
published and tagged; a later listing with a size makes the tagged file the
`.part` file, and the rest of the source is appended after the tags. With one
attempt `HonestServerSuffices` does not apply: a complete `.part` file of a file
without listed size is answered 416 and dropped.

## PathUpdate

The tables of a work as one record: its row of `works`, of `library_items`, its
rows of `library_index` and of `downloads`. `PathUpdateAllowed` is
`validate_path_update` and `PathsMoved` is `apply_path_update`, which
`update_external_intake_paths` runs in one transaction; both the intake and the
migration change the place of a work by it and by nothing else. A path stands for
the folder it lies in; a snapshot token is equal when the rows are.

## Intake

`IntakePlanner` has the pure part: `Scanned` classifies a folder by name and
shape, `Annotated` adds what the tables say of the work, `Executable` is what a
request may be made of. `IntakeExecutor` has the rest.

| Variable | Code |
|---|---|
| `source`, `target` | the folder of the work under the intake root and its canonical place |
| `staging`, `rollback` | the transaction's staging folder and the parked source |
| `journal`, `mem` | `state` in the journal file and in the `journal` object of the call |
| `pc`, `after`, `mode` | the position in `execute`, its handler or `recover`; a `save` is `_persist` and goes on at `after` |
| `scan`, `plan` | a plan of the planner, and the request made of it, which may be old when it runs |
| `batch`, `go` | the requests left in `execute_batch`; success and not `stop_required` |
| `manifest`, `clean` | the verification manifest of the call; whether the undo met no error |
| `owner`, `mover`, `blind` | history, read by properties only: who put the folder at the target, whose transaction moved the tables, which transactions were undone blindly |

Folders hold a tree: absent, one of three whole versions of the work (`v1`;
`edited`, which differs from it only in bytes that the manifest does not sample;
`v2`, which has another file), something partial, or something foreign. Each file
operation, each write of the journal and the transaction of the tables is one step;
each may fail; the process may end between any two. A copy and a removal have a
step in the middle. A copy of a source that changes under it ends as
partial, or, when the verification cannot tell the versions apart, as one of them; in
`_copy_mapped_files`, which copies file by file, it may be a mixture. The user may change a folder or place one, the rest of the
application may queue a row.

Run `intake`: one work, two transactions, a batch of both or of the second alone,
ten shapes of the folder, two faults, one crash, one change by others. Two
transactions are what it takes to find one's folder at the other's target, and a
batch that must stop; two faults let the undo of a failed step fail as well; the one
change stands for a plan, a copy or a verification that is out of date.

- `SomeCopySurvives`, `SettledAgrees`, `BatchStopsAtFailure`: see the module.
- `ImplementsAtomicMove`: `AtomicMove` says that one transaction moves the tables
  of a work once, and that `completed` is said by that one only, `rolled_back` by
  the others only, and is final.
- `CallEnds`: with weak fairness of `Step` (a thread that runs is run on) every
  call returns, also when undoing fails.

Transactions undone `blindly` are excepted by these properties, and each is a
defect of the code:

- `intake_recovery`: the process ends between the commit of the tables and the
  journal entry that says so. `recover` finds `verified`, moves the files back
  and says `rolled_back`; the tables name the target, which is gone.
- Writing `completed` or `cleanup_pending` fails after the parked source was
  removed. The handler knows only `db_updated` as committed, so it deletes the
  target, the last copy; `journal.success` stays true and the batch goes on.
- `recover` of a transaction that is `planned`, `started`, `staged` or `failed`
  deletes what is at the target, also when it is another's.

Two smaller ones need no exception. A source edited after its staging copy was
verified is parked and deleted with the parked folder. And the planner calls
ready what the executor refuses: a work row with an empty path, or with rows of
files that are not in the folder.

## Library

`LibraryState` is what the tools share: a tree for the folder of each work on an
old disk, at its place under `output_dir` and in staging, the tables of
`PathUpdate`, the metadata cache, the works the downloader runs. `MigrationEngine`,
`LibraryRebuild`, `Maintenance` and `MetadataScheduler` each have the steps of
one tool, and `Library` composes them with what the orchestrator does to a whole
work (`Lookup`, `Prepare`, `Resume`, `Stop`, `Finish`), the user's edits and the end of
the process. Several rows that one of these writes in a turn are one step. A preparation
goes on with what it has in memory: a fresh row it has read (`Lookup`), the answer of its
request, or, when that fails, the expired row it had read before it asked (`fallback`).
Between that and its rows (`held`) every other step may come, a cleanup too. That a resume
of the same work overtakes a preparation is in `Orchestrator`.

| Module | Variables | Code |
|---|---|---|
| `MigrationEngine` | `step`, `work`, `manifest`, `token` | position and locals of `migrate_one` |
| | `batch`, `barred`, `deletes` | the loop of `migrate_execute`: planned manifests, `active_or_queued`, not `keep_source_mode` |
| `LibraryRebuild` | `stage`, `unread`, `seen`, `chosen` | `rebuild_library_index`: roots still to scan, folders found, canonical entries |
| `Maintenance` | `cleaning`, `candidates` | the cleanup of the metadata cache, from preview to deletion |
| | `enabling`, `selected`, `preimage` | the return of rows that were given up, from selection to the transaction |
| `MetadataScheduler` | `line`, `pending`, `active`, `closing`, `workers` | `_queue`, futures not done, running factories, `_closing`, `_workers` |
| `Library` | `fallback`, `held` | `stale_cached` of a waiting `prepare_work`; works whose `meta_raw` and `tracks_raw` one has in memory |
| | `joined`, `overtaken`, `orphaned` | history: see below |

Renaming a folder onto another fails, as on Windows, which the program is built for.

Run `library`: one work with one file, two requests, one worker of the scheduler,
two operations begun and one work queued by users, two faults, one edit. Every pair
of tools meets over the same folder and rows, at every step of either. Five
properties hold in full; four have exceptions, named by history variables, where
the code gives no guarantee:

- `overtaken`: a rebuild replaced the index with what it had seen before a
  migration or a download changed the folders. The tables then name a folder that is
  gone or partial, and later rebuilds keep that path; a rebuild may also index the
  staging folder of a migration.
- `joined`: a download of the work was prepared while its migration ran (the
  active works are read once for the batch). A resumed work with rows in another
  folder is registered at `get_save_path` (`orchestrator.py:1742`) although its
  files lie elsewhere.
- `orphaned`: rows were written, or given up, when the cache row of the work was gone. A
  `prepare_work` works on metadata in memory and does not look at the cache again; a
  cleanup deletes meanwhile the row it stored (1155) or the expired one it falls back to
  (1196, 1220-1229), because no row protects it yet. And registered rows may be given up
  after the cache was cleaned away. Such rows have no metadata: a resume prepares the work
  anew and rewrites the folder its rows name. A later answer ends the exception.

Fairness: a tool thread that runs is run on, and so is the event loop
(`ThreadSteps`, `LoopSteps`); `ARSMKernel.fetch` ends with its last mirror, if bodies end
(see Orchestrator). Users
owe nothing, nor do the steps of the backlog, whose next step may be a dialog.

Disagreements seen here and not kept as runs:

- `docs/TAKEOVER_T8A_MIGRATION_SAFETY.md` section 5 says that a migration does
  not delete a target folder the user already has. The handler of `migrate_one`
  removes the target also when the rename failed because a download had created it
  during the copy.
- Section 4 of the same document says that no later batch goes on after a failure
  that requires a stop; `migrate_execute` does not look at `stop_required`.
- An edit of the source after the second comparison is lost when the source is
  deleted.
- `docs/TOOLS_MAINTENANCE_SAFETY.md:19-36` says that only caches beyond their TTL are
  deleted and that those of queued, paused, downloading and other rows are kept. The
  deletion (`tools_maintenance.py:183-211`) looks at the rows again, but not at the age of
  the cache row: one that was fetched again meanwhile is deleted. And rows that a
  `prepare_work` is about to write do not protect the cache yet: with `Works \ orphaned`
  replaced by `Works`, `MetadataKept` fails in run `library` both by a stale fallback and
  by a fresh answer.

## Runs

| Run | Module | Expected | Asks |
|---|---|---|---|
| `commands`, `restarts`, `waiting`, `operations` | `MCOrchestrator` | pass | see Orchestrator |
| `transfer` | `TrackTransfer` | pass | see TrackTransfer |
| `intake` | `MCIntake` | pass | the journalled move under faults, a crash and changes by others |
| `library` | `MCLibrary` | pass | every tool beside every other |
| `lost_resume`, `paused_yet_runs`, `cancelled_overwritten`, `tagged_file_fails` | `MCOrchestrator` | violation | findings 1 to 4 |
| `intake_recovery` | `MCIntake` | violation | finding 5 |

`intake` and `intake_recovery` set `CHECK_DEADLOCK FALSE`, because no call need ever
be made again; everywhere else a deadlock would be an error.

## Proofs

Each proof module holds its inductive invariants, defined by named parts, and was
begun only after TLC had found no violation of them. The constants are constrained
by the assumptions of the modules and by nothing else, so the theorems hold for any
number of works, tracks, workers, transactions, faults and crashes.

### Orchestrator

`OrchestratorTypeProofs` proves `Typing`, `Spec => []TypeOK`. `TypeOK` is not
inductive: `FileRetries` increments `attempt` one step after `FileFails` found an
attempt left. `Typed` adds `AttemptsLeft`, which carries that over the backoff.
The lemmas follow the shared bodies (`QueueTyped`, `SettleTyped`,
`ResumeTyped`, ...), then the groups of steps, then `StepTyped`.

`OrchestratorSafetyProofs` builds on it:

- `OneTask`: `OneTaskPerWork` is inductive with `Typed`. Only a worker's start
  and its end of a task touch `active_tasks` and `job`; the start needs the
  readiness check.
- `Queue`: `QueueAgrees` is inductive with `Typed`. The step that needs work is a
  worker taking the head while other entries of the same work remain.
- `Cancelled`: `CancelHolds` is inductive with `OneTaskPerWork`, which tells whose
  task a worker has, and the assumption `~SwallowsCancel`.
- `DownloadsRun`: `DownloadingIsRunning` is inductive with `OneTaskPerWork`, for all
  commands. Every operator that tells a task to stop also takes its rows off
  `downloading` (`PauseTrue`, `CancelTrue`, `PauseAllTrue`); steps of commands and
  answers are summed up in `RowsTrue`.
- `DoneStaysOnDisk`: `DoneIsOnDisk`, for all commands but the deletion of a file by
  the user. `DoneInv` adds what a running task knows of its files: one it finished is
  there, and one that an overlapping resume called finished has its final name, which
  no byte is written to.
- `FinishedNeverFails`: the action property `DoneNeverFails`, from `DoneInv`, for all
  commands but without tags (finding 4 is what tags do to it).
- `CancelledFiles`: the action property `CancelledRowsStay`, again with
  `~SwallowsCancel`: a transfer that still writes rows is not one of a cancelled work. The
  answers that queue or resume the work apply its mark again before they end, but for
  `PrepareRefused`, which is the exception the property names.

The three theorems that follow have hypotheses of their own, because findings 1 and 2 and what
was seen with other constants show that the properties fail without them. They are
predicates on the constants of a theorem, no assumptions of the module.

- `NothingOverlaps` leaves out the commands with which a resume can be suspended while
  something else of the work goes on: `retry`, `resume`, `reconnect`, the auto-resume,
  and `resumeAll` together with `loseCache` (resume-all of works with cached metadata
  does not suspend). What is left is queueing, with its metadata requests, pause, cancel,
  pause all, resume all, shutdown, crash, boot, refused files, tags and deleted files.
  (`CardsCanAct` does without refused files.)
- `NothingLost` allows every command but leaves out what goes wrong outside the program:
  the loss of cached metadata, files that the OS refuses and tags.
- `WholeLists`: the site lists a work whole or not at all.

The run `restarts` is an instance of all three.

- `RunsAreWanted` (`RunsOnlyWanted`), with `NothingOverlaps` and `~SwallowsCancel`.
  `Orderly`: a work is in one place at most, being prepared, on the queue or running,
  and what resume-all is about to take up is in none. `Heard`: in each place the work
  is wanted unless a mark says otherwise. A mark goes with a queue entry, so this
  needs that an uncancelled work has one entry at most (`EntryOf`).
- `CompletedIsDone` (`CompletedMeansDone`), with `WholeLists` and either of
  `NothingOverlaps` and `NothingLost`; the two need different invariants. With the
  first, `CompletedInv`: a completed work is neither queued nor run, nor in the batch
  of resume-all, and its cached list is whole or empty. With the second a `queue_job`
  that fetches and a resume of the same work may overlap, and a completed work can be on
  the queue, so `Settled` says instead that no resume is ever suspended
  (`Unsuspended`: whatever the tables know has a cached list, `Listed`), that a work has
  a row for every file or for none (`Entire`), and that a completed work has finished
  rows and no task (`Finished`). A stale entry then finds no file to fetch. That a
  resume of a completed work finds its files whole or gone is `DoneInv`.
- `CardsCanAct` (`CardsAct`), with the same, `~SwallowsCancel` and `FaultyTracks = {}`: a
  preparation refused half-way breaks it (see Findings). `CancelledInv` relates
  the status and the mark of a cancellation to the rows, for all commands; `CardOf` then
  goes through the cases of `queue_state`.

The argument is the same for all three: `StepsByWork` splits every step into those about
one work (`OneStep`: `WorkStep`, or `ResumeStep` for the commands and answers that
resume) and those about all (`WholeStep`), `OneStepAlone` says that a step about one work
leaves the others alone (`Alone`), and the invariants are conjunctions over the works.
Before they were proved TLC found no violation of them on instances larger than
`restarts`. For `NothingOverlaps`: two works with a refused and tagged track and deleted
files (3.4 million states), two works with two workers, and one work with two tracks of
which one is refused and one tagged, with `resumeAll` and with `loseCache`. For
`NothingLost`, with every other command and the auto-resume: one work with two tracks
(2.3 million states), and the same with two workers and `SwallowsCancel` (8.3 million).
That `None` is no work, no worker and no track list is `OrchestratorAssumption`.

### TrackTransfer

`TrackTransferProofs` proves, for every size, listing and number of attempts,
`Aligned` (`PartAligned`), `RecordedWhole` (`PublishedWhole`) and `Refinement`
(`ImplementsVerifiedFile`), `HonestSuffices` (`HonestServerSuffices`) and the types
(`TransferTypeCorrect`), if `TagsHarmless`: tags are off or the listing always gives
the true size. The invariant `TransferInv` is needed because an append is right only
when the offset asked for is the length of the `.part` file (`Offsets`), which the
final file would spoil (`FinalAway`), and because a recorded file is whole only when
its length is the recorded one (`Recorded`, `Published`). The refinement then needs
that a report changes only while all bytes are held (`ReportedWhole`), and which
steps can change it (`ReportingSteps`). `HonestInv` follows a transfer in which
nothing goes wrong: an offset that is refused is asked for once only, and a body
that is accepted runs to the end of the source.

### Intake

`PathUpdateProofs` has the lemmas about the tables: an entry stays an entry when its
paths move, a move needs a reference to its source (`MoveNeedsSource`) and leaves
none (`MoveLeavesSource`). `IntakeProofs` proves every property of the run but
`CallEnds`:

- `IntakeTypeCorrect`. `CallInv` and `BatchInv` carry the shape of a call: what is
  under way or left in the batch is planned and not closed, and differs. That a
  transaction id is used once is the assumption that ids are uuids.
- `MoveIsAtomic`, the refinement. `JournalInv`: what the journal or its copy in
  memory calls committed, the tables follow, and what is undone they do not, unless
  it is blind. `MoverInv`: what the tables follow has left its source, so the update
  of a second transaction finds no reference to it and is refused. `BlindInv`: a
  transaction that was undone blindly is not taken up again by `execute`.
- `SomeCopyIsKept`. `CopyInv` says which copy is whole at which position of the
  call; with it, a work that the tables have not moved is whole in its source or
  parked, and one that they have is whole at its target, put there by the mover.
- `SettledIsConsistent` needs all of that and `ParkedInv`: a parked source has an
  open journal, so with none open the surviving copy is where the tables say.
- `BatchStops`: `BatchGoesInv` follows `success` from `Cleanup` to the next request.

### Library

`MetadataSchedulerProofs` proves for the scheduler alone `SchedulerTypeCorrect`,
never more jobs than workers, and `SchedulerLosesNone` (`NoRequestLost`), which needs
that a scheduler that has closed has no workers. `LibraryTypeProofs` has the types of
the composition (`LibraryTypeCorrect`; `UnderWay` adds that a migration past its
validation has a work and a manifest) and `RequestsNeverLost`. `LibrarySafetyProofs`:

- `CopyAlwaysSurvives`: `SourceWhole` and `TargetWhole` say at which steps of
  `migrate_one` which folder is whole; `CopySurvives` is inductive with them.
- `SourceGoesLast`, an action property: the same, and `TablesLeft`, that from the
  update to the deletion no row points into the source.
- `MetadataStaysWithRows`: `MetadataKept` is inductive with the types. It says that the
  second look of the deletion protects what was queued, given up or cancelled since the
  preview, and that nothing else takes metadata away; `orphaned` is what it leaves out.
- `TablesAlwaysName` (`TablesNameFolder`). `PlaceInv` says of every work that is neither
  `joined` nor `overtaken` that it lies, with all its rows, in one folder that is
  there (`Placed`); that only a download makes that folder less than whole
  (`Unfinished`); at which positions of `migrate_one` it is which folder (`Moving`);
  and that item, index and cleanup plan have then left the source (`Referred`,
  `SourceKept`). The lemmas follow the tools: what leaves a work where it is
  (`SamePlaces`), then each writer of the tables or folders.
- `SuccessIsConfirmed` (`SuccessVerifies`): with `PlaceInv` a migration that
  reports success ends with the target whole and nothing in the tables naming the
  source. `ReportInv` adds that the index holds a work's own folders only and that
  without edits there is one version of every folder.

Both take `Tracks # {}`: `prepare_work` gives up on a work for which the site lists no
track (`orchestrator.py:1279`). It does so after the folder is made and the work is
registered; `Library` has no such work. TLC checked `PlaceInv` and `ReportInv`, before
they were proved, with two works, with two tracks and three operations, and with two
faults and three operations (6 to 10 million states each).

### Only model-checked

Liveness under fairness (`QueuedStarts`, `CancelEnds`, `OperationsEnd`,
`ShutdownEnds`, `TransferEnds`, `CallEnds`, `RequestsEnd`, `ToolsEnd`) and whatever
speaks of ENABLED are out of the prover's reach. Every other
property that a passing run checks is a theorem: `RunsOnlyWanted`,
`CompletedMeansDone`, `CardsAct`, `CancelHolds`, `DoneIsOnDisk` and a few others under the
hypotheses named above, which restrict the commands, the lists, Python or the tags, and
never the number of works, files or workers. Outside of them these properties fail, as
said under Findings and DownloadCards. `PromisesKept`, `CancelledIsTerminal` and
`RecoveryHealsTables`, of runs that expect a violation, do not hold.

## What is left

1. The orchestrator on the tables of `PathUpdate` instead of its own statuses, which
   would join `Orchestrator` and `Library` into one model.
2. A larger `library`: three operations at once exceed what TLC finishes in minutes.

## Not modelled

- Layout, texts, themes, progress and speed figures; sessions, headers and hosts of
  the network kernel; configuration files; reports, snapshots and diagnostics:
  they only read, or their state does not interact.
- `enrich_external_works` and `verify_library_works`: nothing in the program calls
  them. (The first writes an empty track list, of which the second then says that
  the work is verified.)
- The transition table of `core/state_policy.py`: a preview consults it, no writer
  does.
- The schema of the database and its migrations, vacuum, backups, and
  `tools/backlog_batch.py`, a script on a copy of the database.
- A crash between two row updates of one handler of the orchestrator, and errors of
  its database.
