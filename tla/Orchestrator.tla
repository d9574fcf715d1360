----------------------------- MODULE Orchestrator -----------------------------
(***************************************************************************)
(* The download orchestrator of core/orchestrator.py: one asyncio loop on  *)
(* which a few download workers, one task per running work, the file       *)
(* transfers of that task and the user's commands interleave.  Code        *)
(* between two awaits is one action.  A work is an RJ id, a track one file *)
(* of it; names of variables are the source's names.                       *)
(*                                                                         *)
(* Three kinds of state survive differently: the fields of Orchestrator    *)
(* die with the process, the SQLite tables (works, row, cache) and the     *)
(* files (disk) stay.  Nothing here writes the row statuses stale and      *)
(* ignored (maintenance tools do), so they are left out.                   *)
(***************************************************************************)
EXTENDS Naturals, Sequences, FiniteSets

CONSTANTS
  RJs,            \* works the user handles
  Tracks,         \* files a work can list
  Workers,        \* download workers, min(work_concurrency, 4) of them
  None,           \* no work, no worker, no cached metadata
  Catalogues,     \* track lists the site may answer with
  FaultyTracks,   \* tracks whose directory or file the OS may refuse
  TaggedTracks,   \* audio tracks whose file grows when tags are written (tag_audio)
  SwallowsCancel, \* asyncio.wait_for of Python < 3.12 may lose a cancellation
  RetryCount,     \* config.retry_count
  AutoResume,     \* config.auto_resume_on_start
  Commands,       \* what the environment may do in this instance
  QueueBound      \* queue length above which Room is used up

CommandNames ==
  {"queue", "pause", "cancel", "retry", "resume", "reconnect", "pauseAll",
   "resumeAll", "shutdown", "crash", "loseCache", "deleteFile"}

ASSUME OrchestratorAssumption ==
  /\ None \notin RJs \union Workers \union Catalogues
  /\ IsFiniteSet(Workers)
  /\ Catalogues \subseteq SUBSET Tracks
  /\ FaultyTracks \subseteq Tracks
  /\ TaggedTracks \subseteq Tracks
  /\ SwallowsCancel \in BOOLEAN
  /\ RetryCount \in Nat \ {0}
  /\ AutoResume \in BOOLEAN
  /\ Commands \subseteq CommandNames
  /\ QueueBound \in Nat

VARIABLES
  download_queue, queued_rj_ids, work_data,          \* the queue and its index
  active_tasks,                                      \* rj -> worker awaiting it
  cancelled_rjs, user_cancelled_rjs,                 \* stop markers
  preparing_rj_ids, resuming_rj_ids, reconnecting,   \* suspended operations
  global_paused,
  lifecycle,                                         \* of the process
  job, phase, cancelling, file, attempt,             \* the task of each worker
  loop, batch, batch_rj,                             \* the resume-all loop
  works, row, cache,                                 \* SQLite
  disk,                                              \* final and .part files
  wish                                               \* history, see Wishes

queueVars  == <<download_queue, queued_rj_ids, work_data>>
taskVars   == <<active_tasks, job, phase, file, attempt>>
loopVars   == <<loop, batch, batch_rj>>
opVars     == <<preparing_rj_ids, resuming_rj_ids, reconnecting>>
\* What a command on one work may touch; every operator named ...With sets all.
coreVars   == <<queueVars, cancelled_rjs, user_cancelled_rjs, cancelling,
                works, row, disk, wish>>
vars == <<coreVars, taskVars, loopVars, opVars, global_paused, lifecycle, cache>>

WorkStatus == {"none", "prepared", "metadata_failed", "queued", "paused",
               "partial", "completed", "cancelled"}
RowStatus  == {"none", "queued", "downloading", "paused", "failed",
               "completed", "registered", "cancelled"}
\* Sizes of the .part and final files against the expected size: nothing, too
\* short, complete but not renamed, too long (a final file grown by its tags
\* too), complete under the final name.
DiskState  == {"none", "part", "partfull", "over", "final"}
\* What the user last asked for: no code reads it, properties do.
Wishes     == {"none", "run", "stop"}
FileState  == {"none", "new", "try", "backoff", "ok", "fail", "dead"}

TypeOK ==
  /\ download_queue \in Seq(RJs)
  /\ queued_rj_ids \subseteq RJs
  /\ work_data \in [RJs -> SUBSET Tracks]
  /\ active_tasks \in [RJs -> Workers \union {None}]
  /\ cancelled_rjs \subseteq RJs
  /\ user_cancelled_rjs \subseteq RJs
  /\ preparing_rj_ids \subseteq RJs
  /\ resuming_rj_ids \subseteq RJs
  /\ reconnecting \subseteq RJs
  /\ global_paused \in BOOLEAN
  /\ lifecycle \in {"up", "draining", "joining", "stopped", "down"}
  /\ job \in [Workers -> RJs \union {None}]
  /\ phase \in [Workers -> {"idle", "cover", "files", "finished", "exited"}]
  /\ cancelling \in [Workers -> BOOLEAN]
  /\ file \in [Workers -> [Tracks -> FileState]]
  /\ attempt \in [Workers -> [Tracks -> 0..RetryCount]]
  /\ loop \in {"off", "sleep", "spin", "await"}
  /\ batch \subseteq RJs
  /\ batch_rj \in RJs \union {None}
  /\ works \in [RJs -> WorkStatus]
  /\ row \in [RJs -> [Tracks -> RowStatus]]
  /\ cache \in [RJs -> (SUBSET Tracks) \union {None}]
  /\ disk \in [RJs -> [Tracks -> DiskState]]
  /\ wish \in [RJs -> Wishes]

-----------------------------------------------------------------------------
(* Reading the state.                                                       *)

Active(rj) == active_tasks[rj] # None
Busy(rj)   == rj \in queued_rj_ids \union resuming_rj_ids
Live(w)    == phase[w] \in {"cover", "files"}          \* not task.done()
Targets(w) == {t \in Tracks : file[w][t] # "none"}
HasRow(rj, S) == \E t \in Tracks : row[rj][t] \in S

\* Mutant: readiness judged by the rows and the marker alone.
ReadyByRows(rj) ==
  /\ rj \notin cancelled_rjs
  /\ HasRow(rj, {"queued", "downloading"})

\* _is_ready_to_download: not running, not marked, and a row still to fetch.
_is_ready_to_download(rj) ==
  /\ ~Active(rj)
  /\ rj \notin cancelled_rjs
  /\ HasRow(rj, {"queued", "downloading"})

\* Mutant: a stop that misses a task which still waits for its cover.
StopRequestedOfTransfers(ws) ==
  [w \in Workers |-> cancelling[w] \/ (w \in ws /\ phase[w] = "files")]

\* task.cancel() on the tasks of a set of workers; done tasks ignore it.
StopRequested(ws) ==
  [w \in Workers |-> cancelling[w] \/ (w \in ws /\ Live(w))]
TaskOf(rj) == {active_tasks[rj]} \ {None}

-----------------------------------------------------------------------------
(* What the commands write into the tables.                                 *)

\* UPDATE works SET status=... WHERE rj_id=...: no effect without a row.
Updated(s, new) == IF s = "none" THEN s ELSE new

\* Mutant: a pause that leaves the files under transfer alone.
PausedQueuedRows(r) ==
  [t \in Tracks |-> IF r[t] = "queued" THEN "paused" ELSE r[t]]

PausedRows(r) ==
  [t \in Tracks |-> IF r[t] \in {"queued", "downloading"} THEN "paused" ELSE r[t]]
PausedWork(s) == IF s \in {"completed", "cancelled"} THEN s ELSE Updated(s, "paused")

Unfinished == {"queued", "downloading", "paused", "failed"}
\* Mutant: a cancellation that leaves the paused and failed files alone.
CancelledRunningRows(r) ==
  [t \in Tracks |-> IF r[t] \in {"queued", "downloading"} THEN "cancelled" ELSE r[t]]

CancelledRows(r) ==
  [t \in Tracks |-> IF r[t] \in Unfinished THEN "cancelled" ELSE r[t]]
AlreadyTerminal(s, r) == s = "completed" /\ \A t \in Tracks : r[t] \notin Unfinished

\* prepare_work registers every listed track, complete on disk or not.
PreparedRows(rj, listed) ==
  [t \in Tracks |-> IF t \notin listed THEN row[rj][t]
                    ELSE IF disk[rj][t] = "final" THEN "completed" ELSE "queued"]

RetriedRows(r) == [t \in Tracks |-> IF r[t] = "cancelled" THEN "failed" ELSE r[t]]

-----------------------------------------------------------------------------
(* Commands on one work.  r and s are the rows and the status it has when   *)
(* the operator runs, after what the caller already wrote.                  *)

Write(rj, s, r) ==
  /\ works' = [works EXCEPT ![rj] = s]
  /\ row' = [row EXCEPT ![rj] = r]

Wish(rj, goal) == wish' = [wish EXCEPT ![rj] = goal]

PauseWith(rj, s, r, goal) ==
  /\ Write(rj, PausedWork(s), PausedRows(r))
  /\ cancelling' = StopRequested(TaskOf(rj))
  /\ cancelled_rjs' = IF Active(rj) THEN cancelled_rjs ELSE cancelled_rjs \union {rj}
  /\ Wish(rj, goal)
  /\ UNCHANGED <<user_cancelled_rjs, queueVars, disk>>

\* Mutant: the targets go, the mark stays.
UnqueueTargets(rj) ==
  /\ work_data' = [work_data EXCEPT ![rj] = {}]
  /\ UNCHANGED queued_rj_ids

Unqueue(rj) ==
  /\ work_data' = [work_data EXCEPT ![rj] = {}]
  /\ queued_rj_ids' = queued_rj_ids \ {rj}

CancelWith(rj, s, r) ==
  /\ IF AlreadyTerminal(s, r)
     THEN /\ Write(rj, s, r)
          /\ UNCHANGED <<cancelled_rjs, user_cancelled_rjs, queued_rj_ids,
                         work_data, cancelling, wish>>
     ELSE /\ Write(rj, Updated(s, "cancelled"), CancelledRows(r))
          /\ user_cancelled_rjs' = user_cancelled_rjs \union {rj}
          /\ cancelled_rjs' = cancelled_rjs \union {rj}
          /\ Unqueue(rj)
          /\ cancelling' = StopRequested(TaskOf(rj))
          /\ Wish(rj, "stop")
  /\ UNCHANGED <<download_queue, disk>>

Enqueue(rj, targets) ==
  /\ work_data' = [work_data EXCEPT ![rj] = targets]
  /\ queued_rj_ids' = queued_rj_ids \union {rj}
  /\ download_queue' = Append(download_queue, rj)

\* An exception out of prepare_work: the OS refuses to look at one listed file,
\* those before it are registered, and a stop that came meanwhile is not applied.
PrepareRefused(rj, listed, goal) ==
  \E refused \in listed \intersect FaultyTracks : \E before \in SUBSET (listed \ {refused}) :
    /\ Write(rj, "prepared", PreparedRows(rj, before))
    /\ Wish(rj, goal)
    /\ UNCHANGED <<queueVars, cancelled_rjs, user_cancelled_rjs, cancelling, disk>>

\* The rest of queue_job: prepare_work registers the listed tracks, or fails at one.
QueueWith(rj, listed, goal) ==
  LET r == PreparedRows(rj, listed) IN
  \/ PrepareRefused(rj, listed, goal)
  \/ /\ listed = {}                                   \* "No tracks found"
     /\ Write(rj, "prepared", r)
     /\ Wish(rj, goal)
     /\ UNCHANGED <<queueVars, cancelled_rjs, user_cancelled_rjs, cancelling, disk>>
  \/ /\ listed # {} /\ rj \in user_cancelled_rjs
     /\ CancelWith(rj, "prepared", r)
  \/ /\ listed # {} /\ rj \in cancelled_rjs \ user_cancelled_rjs
     /\ PauseWith(rj, "prepared", r, "stop")
  \/ /\ listed # {} /\ rj \notin cancelled_rjs \union user_cancelled_rjs
     /\ Write(rj, "prepared", r)
     /\ Enqueue(rj, listed)
     /\ Wish(rj, goal)
     /\ UNCHANGED <<cancelled_rjs, user_cancelled_rjs, cancelling, disk>>

\* Mutant: a file that is exactly long enough is too long.
LongEnough(rj, t) == disk[rj][t] \in {"final", "partfull", "over"}

TooLong(rj, t) == disk[rj][t] = "over"

\* resume_job compares each listed track's row with its files; broken are the
\* tracks whose files the OS would not let it inspect or rename.
Verdict(rj, r, t, broken) ==
  IF r[t] = "cancelled" THEN "skip"
  ELSE IF t \in broken \/ TooLong(rj, t) THEN "review"
  ELSE IF disk[rj][t] \in {"final", "partfull"} THEN "complete"
  ELSE "fetch"

Judged(rj, r, listed, broken, verdict) ==
  {t \in listed : Verdict(rj, r, t, broken) = verdict}

ReconciledRow(rj, r, t, broken) ==
  LET Kept   == r[t] = "registered" /\ disk[rj][t] = "final"
      Result == [skip |-> r[t], review |-> "failed", fetch |-> "queued",
                 complete |-> IF Kept THEN r[t] ELSE "completed"]
  IN  Result[Verdict(rj, r, t, broken)]

ReconciledRows(rj, r, listed, broken) ==
  [t \in Tracks |-> IF t \in listed THEN ReconciledRow(rj, r, t, broken) ELSE r[t]]

\* Mutant: recorded as complete without the renaming.
UnreconciledDisk(rj, r, listed, broken) == disk[rj]

\* A complete .part file gets its final name.
ReconciledDisk(rj, r, listed, broken) ==
  [t \in Tracks |-> IF t \in Judged(rj, r, listed, broken, "complete")
                    THEN "final" ELSE disk[rj][t]]

\* An exception out of resume_job: a finished file is seen, but the OS refuses to
\* look for its .part file.  The files before it are settled, nothing is queued.
SettleRefused(rj, s, r, listed, goal) ==
  \E broken \in SUBSET FaultyTracks, before \in SUBSET listed :
    /\ \E refused \in before \intersect FaultyTracks :
         disk[rj][refused] = "final" /\ Verdict(rj, r, refused, broken) = "complete"
    /\ Write(rj, s, ReconciledRows(rj, r, before, broken))
    /\ disk' = [disk EXCEPT ![rj] = ReconciledDisk(rj, r, before, broken)]
    /\ Wish(rj, goal)
    /\ UNCHANGED queueVars

\* The rest of resume_job once the track list is known and nobody stopped it.
SettleWith(rj, s, r, listed, goal) == \E broken \in SUBSET FaultyTracks :
  LET J(verdict) == Judged(rj, r, listed, broken, verdict) IN
  /\ row' = [row EXCEPT ![rj] = ReconciledRows(rj, r, listed, broken)]
  /\ disk' = [disk EXCEPT ![rj] = ReconciledDisk(rj, r, listed, broken)]
  /\ Wish(rj, goal)
  /\ \/ /\ J("fetch") # {}
        /\ works' = [works EXCEPT ![rj] = Updated(s, "queued")]
        /\ Enqueue(rj, J("fetch"))
     \/ /\ J("fetch") = {}
        /\ works' = [works EXCEPT ![rj] =
                       IF J("complete") # {} /\ J("review") \union J("skip") = {}
                       THEN Updated(s, "completed") ELSE s]
        /\ UNCHANGED queueVars

\* _resume_one answers at once, suspends for metadata, or runs to its end.
Refused(rj, s, stopped) == Active(rj) \/ Busy(rj) \/ s = "cancelled" \/ rj \in stopped
Suspends(rj, s, stopped) == ~Refused(rj, s, stopped) /\ cache[rj] = None

ResumeWith(rj, s, r, marked, stopped, goal) ==
  /\ user_cancelled_rjs' = stopped
  /\ UNCHANGED cancelling
  /\ \/ /\ Refused(rj, s, stopped)
        /\ Write(rj, s, r)
        /\ cancelled_rjs' = marked
        /\ Wish(rj, IF ~Active(rj) /\ Busy(rj) THEN goal ELSE wish[rj])
        /\ UNCHANGED <<queueVars, disk, resuming_rj_ids>>
     \/ /\ Suspends(rj, s, stopped)
        /\ Write(rj, s, r)
        /\ cancelled_rjs' = marked \ {rj}
        /\ resuming_rj_ids' = resuming_rj_ids \union {rj}
        /\ Wish(rj, goal)
        /\ UNCHANGED <<queueVars, disk>>
     \/ /\ ~Refused(rj, s, stopped) /\ cache[rj] # None
        /\ SettleWith(rj, s, r, cache[rj], goal) \/ SettleRefused(rj, s, r, cache[rj], goal)
        /\ cancelled_rjs' = marked \ {rj}
        /\ UNCHANGED resuming_rj_ids

\* pause_all: every work with something to stop, then the queue, then the tasks.
Pausable == {rj \in RJs : HasRow(rj, {"queued", "downloading"}) \/ works[rj] = "prepared"}

PauseEverything ==
  /\ global_paused' = TRUE
  /\ row' = [rj \in RJs |-> IF rj \in Pausable THEN PausedRows(row[rj]) ELSE row[rj]]
  /\ works' = [rj \in RJs |-> IF rj \in Pausable THEN PausedWork(works[rj]) ELSE works[rj]]
  /\ cancelled_rjs' = cancelled_rjs \union {rj \in Pausable : ~Active(rj)}
  /\ cancelling' = StopRequested({active_tasks[rj] : rj \in RJs} \ {None})
  /\ download_queue' = <<>>
  /\ queued_rj_ids' = {}
  /\ work_data' = [rj \in RJs |-> {}]
  /\ wish' = [rj \in RJs |-> IF rj \in Pausable THEN "stop" ELSE wish[rj]]
  /\ UNCHANGED <<user_cancelled_rjs, disk>>

-----------------------------------------------------------------------------
(* The process starts with empty fields; Boot reads what SQLite kept.       *)

NoTask == [t \in Tracks |-> "none"]
NoTry  == [t \in Tracks |-> 0]

Init ==
  /\ download_queue = <<>> /\ queued_rj_ids = {}
  /\ work_data = [rj \in RJs |-> {}]
  /\ active_tasks = [rj \in RJs |-> None]
  /\ cancelled_rjs = {} /\ user_cancelled_rjs = {}
  /\ preparing_rj_ids = {} /\ resuming_rj_ids = {} /\ reconnecting = {}
  /\ global_paused = FALSE
  /\ lifecycle = "up"
  /\ job = [w \in Workers |-> None]
  /\ phase = [w \in Workers |-> "idle"]
  /\ cancelling = [w \in Workers |-> FALSE]
  /\ file = [w \in Workers |-> NoTask]
  /\ attempt = [w \in Workers |-> NoTry]
  /\ loop = "off" /\ batch = {} /\ batch_rj = None
  /\ works = [rj \in RJs |-> "none"]
  /\ row = [rj \in RJs |-> [t \in Tracks |-> "none"]]
  /\ cache = [rj \in RJs |-> None]
  /\ disk = [rj \in RJs |-> [t \in Tracks |-> "none"]]
  /\ wish = [rj \in RJs |-> "none"]

-----------------------------------------------------------------------------
(* Commands of the user, submitted to the loop while the application is up. *)

May(c) == c \in Commands /\ lifecycle = "up"

\* Resuming and reconnecting are offered on works that the tables know.
Known(rj) == works[rj] # "none"

\* A cancellation leaves its entry on the queue, and a queue_job overtaken by a
\* resume adds a second one: the model starts neither on a longer queue.
Room == Len(download_queue) <= QueueBound

\* A second click is answered already_queued; the first run carries it out.
QueueAgain(rj) ==
  /\ May("queue") /\ ~Active(rj) /\ (Busy(rj) \/ rj \in preparing_rj_ids)
  /\ Wish(rj, "run")
  /\ UNCHANGED <<queueVars, cancelled_rjs, user_cancelled_rjs, cancelling, works,
                 row, disk, taskVars, loopVars, opVars, global_paused, lifecycle, cache>>

\* queue_job with fresh metadata runs to its end without suspending.
QueueCached(rj) ==
  /\ May("queue") /\ ~Active(rj) /\ ~Busy(rj) /\ rj \notin preparing_rj_ids
  /\ cache[rj] # None
  /\ QueueWith(rj, cache[rj], "run")
  /\ UNCHANGED <<taskVars, loopVars, opVars, global_paused, lifecycle, cache>>

\* queue_job with missing, expired or explicitly refreshed metadata suspends.
QueueFetching(rj) ==
  /\ May("queue") /\ Room /\ ~Active(rj) /\ ~Busy(rj) /\ rj \notin preparing_rj_ids
  /\ preparing_rj_ids' = preparing_rj_ids \union {rj}
  /\ Wish(rj, "run")
  /\ UNCHANGED <<queueVars, cancelled_rjs, user_cancelled_rjs, cancelling, works,
                 row, disk, taskVars, loopVars, resuming_rj_ids, reconnecting,
                 global_paused, lifecycle, cache>>

Pause(rj) ==
  /\ May("pause")
  /\ PauseWith(rj, works[rj], row[rj], "stop")
  /\ UNCHANGED <<taskVars, loopVars, opVars, global_paused, lifecycle, cache>>

Cancel(rj) ==
  /\ May("cancel") /\ Room
  /\ CancelWith(rj, works[rj], row[rj])
  /\ UNCHANGED <<taskVars, loopVars, opVars, global_paused, lifecycle, cache>>

Retry(rj) ==
  /\ May("retry")
  /\ works[rj] = "cancelled" \/ HasRow(rj, {"cancelled"})
  /\ ResumeWith(rj, IF works[rj] = "cancelled" THEN "partial" ELSE works[rj],
                RetriedRows(row[rj]), cancelled_rjs \ {rj}, user_cancelled_rjs \ {rj},
                "run")
  /\ UNCHANGED <<taskVars, loopVars, preparing_rj_ids, reconnecting,
                 global_paused, lifecycle, cache>>

Resume(rj) ==
  /\ May("resume") /\ Known(rj)
  /\ ResumeWith(rj, works[rj], row[rj], cancelled_rjs, user_cancelled_rjs, "run")
  /\ UNCHANGED <<taskVars, loopVars, preparing_rj_ids, reconnecting,
                 global_paused, lifecycle, cache>>

\* reconnect_job pauses; with no task to wait for it resumes in the same turn.
ReconnectIdle(rj) ==
  /\ May("reconnect") /\ Known(rj) /\ ~Active(rj)
  /\ ResumeWith(rj, PausedWork(works[rj]), PausedRows(row[rj]),
                cancelled_rjs \union {rj}, user_cancelled_rjs, "run")
  /\ UNCHANGED <<taskVars, loopVars, preparing_rj_ids, reconnecting,
                 global_paused, lifecycle, cache>>

ReconnectActive(rj) ==
  /\ May("reconnect") /\ Known(rj) /\ Active(rj)
  /\ PauseWith(rj, works[rj], row[rj], "run")
  /\ reconnecting' = reconnecting \union {rj}
  /\ UNCHANGED <<taskVars, loopVars, preparing_rj_ids, resuming_rj_ids,
                 global_paused, lifecycle, cache>>

PauseAll ==
  /\ May("pauseAll")
  /\ PauseEverything
  /\ UNCHANGED <<taskVars, loopVars, opVars, lifecycle, cache>>

Restorable ==
  {rj \in RJs : /\ HasRow(rj, Unfinished)
                /\ ~Active(rj) /\ ~Busy(rj) /\ rj \notin preparing_rj_ids}

\* The loop refuses cancelled works.
WishedFor(rjs, s, stopped) ==
  [rj \in RJs |-> IF rj \in rjs \ stopped /\ s[rj] # "cancelled" THEN "run" ELSE wish[rj]]

ResumeAll ==
  /\ May("resumeAll") /\ loop = "off"
  /\ global_paused' = FALSE
  /\ batch' = Restorable
  /\ loop' = "spin"
  /\ wish' = WishedFor(Restorable, works, user_cancelled_rjs)
  /\ UNCHANGED <<queueVars, cancelled_rjs, user_cancelled_rjs, cancelling, works,
                 row, disk, taskVars, batch_rj, opVars, lifecycle, cache>>

-----------------------------------------------------------------------------
(* Suspended operations go on when their metadata request is answered.      *)

Running == lifecycle \in {"up", "draining", "joining"}

\* The fetched list is cached; a failed one may fall back to a stale cache.
QueueAnswered(rj) ==
  /\ Running /\ rj \in preparing_rj_ids
  /\ preparing_rj_ids' = preparing_rj_ids \ {rj}
  /\ \/ \E listed \in Catalogues :
          /\ cache' = [cache EXCEPT ![rj] = listed]
          /\ QueueWith(rj, listed, wish[rj])
     \/ /\ cache[rj] # None
        /\ QueueWith(rj, cache[rj], wish[rj])
        /\ UNCHANGED cache
  /\ UNCHANGED <<taskVars, loopVars, resuming_rj_ids, reconnecting,
                 global_paused, lifecycle>>

\* No metadata: the status of a known work is overwritten; with metadata but no
\* usable directory it is not.
FetchFails(rj) ==
  /\ \/ /\ works' = [works EXCEPT ![rj] = Updated(@, "metadata_failed")]
        /\ UNCHANGED cache
     \/ /\ FaultyTracks # {}
        /\ \E listed \in Catalogues : cache' = [cache EXCEPT ![rj] = listed]
        /\ UNCHANGED works
  /\ UNCHANGED <<queueVars, cancelled_rjs, user_cancelled_rjs, cancelling, row, disk, wish>>

QueueFails(rj) ==
  /\ Running /\ rj \in preparing_rj_ids
  /\ preparing_rj_ids' = preparing_rj_ids \ {rj}
  /\ \/ FetchFails(rj)
     \/ /\ FaultyTracks # {} /\ cache[rj] # None    \* stale metadata, no directory
        /\ UNCHANGED <<coreVars, cache>>
  /\ UNCHANGED <<taskVars, loopVars, resuming_rj_ids, reconnecting,
                 global_paused, lifecycle>>

\* Mutant: the guard of the resume is not given back.
ResumeReturnsGuarded(rj) ==
  /\ batch_rj' = IF batch_rj = rj THEN None ELSE batch_rj
  /\ loop' = IF batch_rj = rj THEN "spin" ELSE loop
  /\ UNCHANGED <<taskVars, batch, opVars, global_paused, lifecycle>>

\* The resume-all loop, if it waited for this work, takes its next turn.
ResumeReturns(rj) ==
  /\ resuming_rj_ids' = resuming_rj_ids \ {rj}
  /\ batch_rj' = IF batch_rj = rj THEN None ELSE batch_rj
  /\ loop' = IF batch_rj = rj THEN "spin" ELSE loop
  /\ UNCHANGED <<taskVars, batch, preparing_rj_ids, reconnecting,
                 global_paused, lifecycle>>

\* An exception ends the auto-resume; resume-all only notes it and goes on.  The
\* model does not keep which of the two loops waits.
ResumeThrows(rj) ==
  /\ AutoResume /\ batch_rj = rj
  /\ resuming_rj_ids' = resuming_rj_ids \ {rj}
  /\ loop' = "off" /\ batch' = {} /\ batch_rj' = None
  /\ UNCHANGED <<taskVars, preparing_rj_ids, reconnecting, global_paused, lifecycle>>

ResumeAnswerRefused(rj) ==
  /\ Running /\ rj \in resuming_rj_ids
  /\ \E listed \in Catalogues :
       /\ cache' = [cache EXCEPT ![rj] = listed]
       /\ \/ PrepareRefused(rj, listed, wish[rj])
          \/ /\ listed # {} /\ rj \notin cancelled_rjs \union user_cancelled_rjs
             /\ SettleRefused(rj, "prepared", PreparedRows(rj, listed), listed, wish[rj])
             /\ UNCHANGED <<cancelled_rjs, user_cancelled_rjs, cancelling>>
  /\ ResumeReturns(rj) \/ ResumeThrows(rj)

\* A stop that arrived during the refresh wins over its result.
ResumeAnswered(rj) ==
  /\ Running /\ rj \in resuming_rj_ids
  /\ \E listed \in Catalogues : LET r == PreparedRows(rj, listed) IN
       /\ cache' = [cache EXCEPT ![rj] = listed]
       /\ \/ /\ listed = {}
             /\ Write(rj, "prepared", r)
             /\ UNCHANGED <<queueVars, cancelled_rjs, user_cancelled_rjs, cancelling,
                            disk, wish>>
          \/ /\ listed # {} /\ rj \in user_cancelled_rjs
             /\ CancelWith(rj, "prepared", r)
          \/ /\ listed # {} /\ rj \in cancelled_rjs \ user_cancelled_rjs
             /\ PauseWith(rj, "prepared", r, "stop")
          \/ /\ listed # {} /\ rj \notin cancelled_rjs \union user_cancelled_rjs
             /\ SettleWith(rj, "prepared", r, listed, wish[rj])
             /\ UNCHANGED <<cancelled_rjs, user_cancelled_rjs, cancelling>>
  /\ ResumeReturns(rj)

ResumeFails(rj) ==
  /\ Running /\ rj \in resuming_rj_ids
  /\ FetchFails(rj)
  /\ ResumeReturns(rj)

\* reconnect_job polls for the end of the task, a hundred times at most.
ReconnectResumes(rj) ==
  /\ Running /\ rj \in reconnecting /\ ~Active(rj)
  /\ reconnecting' = reconnecting \ {rj}
  /\ ResumeWith(rj, works[rj], row[rj], cancelled_rjs, user_cancelled_rjs, wish[rj])
  /\ UNCHANGED <<taskVars, loopVars, preparing_rj_ids, global_paused, lifecycle, cache>>

ReconnectTimesOut(rj) ==
  /\ Running /\ rj \in reconnecting /\ Active(rj)
  /\ reconnecting' = reconnecting \ {rj}
  /\ UNCHANGED <<coreVars, taskVars, loopVars, preparing_rj_ids, resuming_rj_ids,
                 global_paused, lifecycle, cache>>

-----------------------------------------------------------------------------
(* _resume_all_async and the auto-resume of a start are the same loop over  *)
(* _resume_one.  It keeps the event loop ("spin") until a work suspends.    *)

\* An exception ends the auto-resume; resume-all only notes it.
BatchThrows(rj) ==
  /\ AutoResume
  /\ ~Refused(rj, works[rj], user_cancelled_rjs) /\ cache[rj] # None
  /\ SettleRefused(rj, works[rj], row[rj], cache[rj], wish[rj])
  /\ loop' = "off" /\ batch' = {}
  /\ UNCHANGED batch_rj

BatchNext(rj) ==
  /\ loop = "spin" /\ rj \in batch
  /\ ResumeWith(rj, works[rj], row[rj], cancelled_rjs, user_cancelled_rjs, wish[rj])
  /\ \/ /\ batch' = batch \ {rj}
        /\ IF Suspends(rj, works[rj], user_cancelled_rjs)
           THEN loop' = "await" /\ batch_rj' = rj
           ELSE UNCHANGED <<loop, batch_rj>>
     \/ BatchThrows(rj)
  /\ UNCHANGED <<taskVars, preparing_rj_ids, reconnecting, global_paused, lifecycle, cache>>

BatchDone ==
  /\ loop = "spin" /\ batch = {}
  /\ loop' = "off"
  /\ UNCHANGED <<coreVars, taskVars, batch, batch_rj, opVars, global_paused, lifecycle, cache>>

\* The auto-resume loop sleeps half a second before its first turn.
BatchWakes ==
  /\ Running /\ loop = "sleep"
  /\ loop' = "spin"
  /\ UNCHANGED <<coreVars, taskVars, batch, batch_rj, opVars, global_paused, lifecycle, cache>>

-----------------------------------------------------------------------------
(* boot_worker.                                                             *)

MayStart(rj) ==
  /\ ~global_paused
  /\ rj \notin cancelled_rjs
  /\ rj \in queued_rj_ids
  /\ _is_ready_to_download(rj)
  /\ work_data[rj] # {}

\* An entry that fails one of the checks is dropped with its bookkeeping.
WorkerSkips(w) ==
  /\ phase[w] = "idle" /\ lifecycle \in {"up", "draining"}
  /\ download_queue # <<>>
  /\ LET rj == Head(download_queue) IN
       /\ ~MayStart(rj)
       /\ cancelled_rjs' = IF global_paused THEN cancelled_rjs ELSE cancelled_rjs \ {rj}
       /\ Unqueue(rj)
  /\ download_queue' = Tail(download_queue)
  /\ UNCHANGED <<user_cancelled_rjs, cancelling, works, row, disk, wish,
                 taskVars, loopVars, opVars, global_paused, lifecycle, cache>>

WorkerStarts(w) ==
  /\ phase[w] = "idle" /\ lifecycle \in {"up", "draining"}
  /\ download_queue # <<>>
  /\ LET rj == Head(download_queue) IN
       /\ MayStart(rj)
       /\ active_tasks' = [active_tasks EXCEPT ![rj] = w]
       /\ job' = [job EXCEPT ![w] = rj]
       /\ file' = [file EXCEPT ![w] =
                     [t \in Tracks |-> IF t \in work_data[rj] THEN "new" ELSE "none"]]
       /\ Unqueue(rj)
  /\ phase' = [phase EXCEPT ![w] = "cover"]
  /\ download_queue' = Tail(download_queue)
  /\ UNCHANGED <<cancelled_rjs, user_cancelled_rjs, cancelling, works, row, disk, wish, attempt,
                 loopVars, opVars, global_paused, lifecycle, cache>>

\* Mutant: the cancellation of its task ends the worker too.
AfterCleanTask(w) == IF lifecycle = "up" /\ ~cancelling[w] THEN "idle" ELSE "exited"

\* A worker goes on until it sees _shutting_down.
AfterTask(w) == IF lifecycle = "up" THEN "idle" ELSE "exited"

\* The worker wakes up after its task ended, takes the work off active_tasks.
WorkerReaps(w) ==
  /\ phase[w] = "finished"
  /\ active_tasks' = [active_tasks EXCEPT ![job[w]] = None]
  /\ job' = [job EXCEPT ![w] = None]
  /\ phase' = [phase EXCEPT ![w] = AfterTask(w)]
  /\ cancelling' = [cancelling EXCEPT ![w] = FALSE]
  /\ file' = [file EXCEPT ![w] = NoTask]
  /\ attempt' = [attempt EXCEPT ![w] = NoTry]
  /\ UNCHANGED <<queueVars, cancelled_rjs, user_cancelled_rjs, works, row, disk,
                 wish, loopVars, opVars, global_paused, lifecycle, cache>>

\* The loop condition of a worker that waits for the queue while shutting down.
WorkerExits(w) ==
  /\ phase[w] = "idle" /\ lifecycle = "draining"
  /\ phase' = [phase EXCEPT ![w] = "exited"]
  /\ UNCHANGED <<coreVars, active_tasks, job, file, attempt, loopVars, opVars,
                 global_paused, lifecycle, cache>>

-----------------------------------------------------------------------------
(* _process_download and download_file.                                     *)

\* The OS refuses the directory of the work: the task ends with an exception.
CoverFails(w) ==
  /\ phase[w] = "cover" /\ ~cancelling[w] /\ FaultyTracks # {}
  /\ phase' = [phase EXCEPT ![w] = "finished"]
  /\ UNCHANGED <<coreVars, active_tasks, job, file, attempt, loopVars, opVars,
                 global_paused, lifecycle, cache>>

\* The cover request ends, the file transfers start and examine the disk.  Not
\* every refusal of the OS is recorded: those of stat, replace and unlink escape.
CoverDone(w) ==
  /\ phase[w] = "cover" /\ (~cancelling[w] \/ SwallowsCancel)
  /\ \E broken \in SUBSET FaultyTracks : \E unrecorded \in SUBSET broken :
       LET rj == job[w]
           First(t) == IF t \in broken THEN "fail"
                       ELSE IF disk[rj][t] = "final" THEN "ok" ELSE "try"
           Result   == [fail |-> "failed", ok |-> "completed", try |-> "downloading"]
       IN
       /\ file' = [file EXCEPT ![w] =
                     [t \in Tracks |-> IF t \in Targets(w) THEN First(t) ELSE "none"]]
       /\ row' = [row EXCEPT ![rj] =
                     [t \in Tracks |-> IF t \in Targets(w) \ unrecorded
                                       THEN Result[First(t)] ELSE @[t]]]
       /\ disk' = [disk EXCEPT ![rj] =
                     [t \in Tracks |-> IF t \in Targets(w) \ broken /\ @[t] = "over"
                                       THEN "none" ELSE @[t]]]
  /\ attempt' = [attempt EXCEPT ![w] = [t \in Tracks |-> 1]]
  /\ phase' = [phase EXCEPT ![w] = "files"]
  /\ cancelling' = [cancelling EXCEPT ![w] = FALSE]
  /\ UNCHANGED <<queueVars, cancelled_rjs, user_cancelled_rjs, works, wish,
                 active_tasks, job, loopVars, opVars, global_paused, lifecycle, cache>>

Transferring(w, t) == phase[w] = "files" /\ file[w][t] = "try" /\ ~cancelling[w]

FileBecomes(w, t, f) == file' = [file EXCEPT ![w][t] = f]
RowBecomes(w, t, st) == row' = [row EXCEPT ![job[w]][t] = st]

\* The response is written, or the partial file reset, up to some size; it may be
\* renamed and then refused by the OS.  A final file is left to the other actions.
FileWrites(w, t) ==
  /\ Transferring(w, t)
  /\ disk[job[w]][t] # "final"
  /\ \E size \in {"none", "part", "partfull", "over"}
                \union (IF t \in FaultyTracks THEN {"final"} ELSE {}) :
       disk' = [disk EXCEPT ![job[w]][t] = size]
  /\ UNCHANGED <<queueVars, cancelled_rjs, user_cancelled_rjs, cancelling, works, row,
                 wish, taskVars, loopVars, opVars, global_paused, lifecycle, cache>>

\* The whole file is renamed to its final name, tagged and recorded.
FileSucceeds(w, t) ==
  /\ Transferring(w, t)
  /\ disk[job[w]][t] \in {"partfull", "final"}
  /\ disk' = [disk EXCEPT ![job[w]][t] = IF t \in TaggedTracks THEN "over" ELSE "final"]
  /\ RowBecomes(w, t, "completed")
  /\ FileBecomes(w, t, "ok")
  /\ UNCHANGED <<queueVars, cancelled_rjs, user_cancelled_rjs, cancelling, works, wish,
                 active_tasks, job, phase, attempt, loopVars, opVars, global_paused,
                 lifecycle, cache>>

\* Mutant: one attempt too many.
OneMoreTry(w, t) == attempt[w][t] <= RetryCount

TriesLeft(w, t) == attempt[w][t] < RetryCount

\* An error backs off before the next attempt; the last one is recorded, by the
\* size that is left unless the OS refuses to tell it.
FileFails(w, t) ==
  /\ Transferring(w, t)
  /\ IF TriesLeft(w, t)
     THEN FileBecomes(w, t, "backoff") /\ UNCHANGED row
     ELSE /\ FileBecomes(w, t, "fail")
          /\ \/ /\ disk[job[w]][t] \in {"part", "partfull", "final"}
                /\ RowBecomes(w, t, "paused")
             \/ /\ disk[job[w]][t] \in {"none", "over"} \/ t \in FaultyTracks
                /\ RowBecomes(w, t, "failed")
  /\ UNCHANGED <<queueVars, cancelled_rjs, user_cancelled_rjs, cancelling, works, disk,
                 wish, active_tasks, job, phase, attempt, loopVars, opVars,
                 global_paused, lifecycle, cache>>

FileRetries(w, t) ==
  /\ phase[w] = "files" /\ file[w][t] = "backoff" /\ ~cancelling[w]
  /\ FileBecomes(w, t, "try")
  /\ RowBecomes(w, t, "downloading")
  /\ attempt' = [attempt EXCEPT ![w][t] = @ + 1]
  /\ UNCHANGED <<queueVars, cancelled_rjs, user_cancelled_rjs, cancelling, works, disk,
                 wish, active_tasks, job, phase, loopVars, opVars, global_paused,
                 lifecycle, cache>>

\* CancelledError is recorded, except in the sleep after an ordinary error: the
\* sleep after a reset of the partial file is inside the try block.
FileCancelled(w, t) ==
  /\ phase[w] = "files" /\ file[w][t] \in {"try", "backoff"} /\ cancelling[w]
  /\ \/ /\ file[w][t] = "try" \/ disk[job[w]][t] = "none"
        /\ RowBecomes(w, t, IF job[w] \in user_cancelled_rjs THEN "cancelled" ELSE "paused")
     \/ /\ file[w][t] = "backoff"
        /\ UNCHANGED row
  /\ FileBecomes(w, t, "dead")
  /\ UNCHANGED <<queueVars, cancelled_rjs, user_cancelled_rjs, cancelling, works, disk,
                 wish, active_tasks, job, phase, attempt, loopVars, opVars,
                 global_paused, lifecycle, cache>>

\* Mutant: a cancelled transfer is waited for.
EndedUncancelled(w) == \A t \in Targets(w) : file[w][t] \in {"ok", "fail"}

Ended(w) == \A t \in Targets(w) : file[w][t] \in {"ok", "fail", "dead"}

\* A cancelled task raises as soon as its transfers ended: no result is recorded.
TaskCancelled(w) ==
  /\ cancelling[w]
  /\ phase[w] = "cover" \/ (phase[w] = "files" /\ Ended(w))
  /\ phase' = [phase EXCEPT ![w] = "finished"]
  /\ UNCHANGED <<coreVars, active_tasks, job, file, attempt, loopVars, opVars,
                 global_paused, lifecycle, cache>>

\* The result of a task that ran to its end, with the rows of other targets.
Succeeded(w) == {t \in Targets(w) : file[w][t] = "ok"}

\* Mutant: one finished file is enough.
SomeDone(w) == Succeeded(w) # {}

AllDone(w) == Succeeded(w) = Targets(w)
                /\ ~HasRow(job[w], Unfinished \union {"cancelled"})

TaskAnalyses(w) ==
  /\ phase[w] = "files" /\ ~cancelling[w] /\ Ended(w)
  /\ LET rj == job[w] IN
       \/ /\ works' = [works EXCEPT ![rj] = IF AllDone(w) THEN "completed"
                                       ELSE IF Succeeded(w) = {} THEN @
                                       ELSE "partial"]
          /\ row' = [row EXCEPT ![rj] =
                       [t \in Tracks |-> IF t \in Succeeded(w) THEN "registered" ELSE @[t]]]
       \/ /\ Succeeded(w) \intersect FaultyTracks # {}    \* "Failed to register"
          /\ UNCHANGED <<works, row>>
  /\ phase' = [phase EXCEPT ![w] = "finished"]
  /\ UNCHANGED <<queueVars, cancelled_rjs, user_cancelled_rjs, cancelling, disk,
                 wish, active_tasks, job, file, attempt, loopVars, opVars,
                 global_paused, lifecycle, cache>>

-----------------------------------------------------------------------------
(* The process: orderly shutdown, crash, next start.                        *)

\* shutdown sets _shutting_down and pauses everything ...
ShutdownBegin ==
  /\ May("shutdown")
  /\ lifecycle' = "draining"
  /\ PauseEverything
  /\ UNCHANGED <<taskVars, loopVars, opVars, cache>>

\* ... gathers the running tasks, then cancels the workers ...
ShutdownJoin ==
  /\ lifecycle = "draining" /\ \A w \in Workers : ~Live(w)
  /\ lifecycle' = "joining"
  /\ phase' = [w \in Workers |-> IF phase[w] = "idle" THEN "exited" ELSE phase[w]]
  /\ UNCHANGED <<coreVars, active_tasks, job, file, attempt, loopVars, opVars,
                 global_paused, cache>>

\* The fields of a new process.
Forget ==
  /\ download_queue' = <<>> /\ queued_rj_ids' = {}
  /\ work_data' = [rj \in RJs |-> {}]
  /\ active_tasks' = [rj \in RJs |-> None]
  /\ cancelled_rjs' = {} /\ user_cancelled_rjs' = {}
  /\ preparing_rj_ids' = {} /\ resuming_rj_ids' = {} /\ reconnecting' = {}
  /\ global_paused' = FALSE
  /\ job' = [w \in Workers |-> None]
  /\ phase' = [w \in Workers |-> "idle"]
  /\ cancelling' = [w \in Workers |-> FALSE]
  /\ file' = [w \in Workers |-> NoTask]
  /\ attempt' = [w \in Workers |-> NoTry]
  /\ loop' = "off" /\ batch' = {} /\ batch_rj' = None
  /\ wish' = [rj \in RJs |-> "none"]

\* ... and once they are gone cancels the metadata requests and ends.
ShutdownDone ==
  /\ lifecycle = "joining" /\ \A w \in Workers : phase[w] = "exited"
  /\ lifecycle' = "stopped"
  /\ Forget
  /\ UNCHANGED <<works, row, disk, cache>>

\* A crash may fall between the renaming of a file, its tags and the record of it.
Unrecorded(rj) ==
  {t \in Tracks : /\ disk[rj][t] = "partfull"
                  /\ \E w \in Workers : job[w] = rj /\ Transferring(w, t)}

Crash ==
  /\ "crash" \in Commands /\ Running
  /\ \E renamed \in [RJs -> SUBSET Tracks], tagged \in SUBSET TaggedTracks :
       /\ \A rj \in RJs : renamed[rj] \subseteq Unrecorded(rj)
       /\ disk' = [rj \in RJs |-> [t \in Tracks |->
                     IF t \notin renamed[rj] THEN disk[rj][t]
                     ELSE IF t \in tagged THEN "over" ELSE "final"]]
  /\ lifecycle' = "down"
  /\ Forget
  /\ UNCHANGED <<works, row, cache>>

\* restore_pending_downloads: an interrupted file is paused, the rest kept; with
\* auto-resume the first works with cached metadata, one per worker, go on.
Interrupted(rj) == HasRow(rj, {"downloading"})
Resumable ==
  {rj \in RJs : HasRow(rj, {"queued", "paused", "downloading"}) /\ cache[rj] # None}

Boot ==
  /\ lifecycle \in {"stopped", "down"}
  /\ lifecycle' = "up"
  /\ row' = [rj \in RJs |-> [t \in Tracks |->
               IF row[rj][t] = "downloading" THEN "paused" ELSE row[rj][t]]]
  /\ works' = [rj \in RJs |-> IF Interrupted(rj) /\ works[rj] = "queued"
                              THEN "paused" ELSE works[rj]]
  /\ IF AutoResume /\ Resumable # {}
     THEN /\ \E first \in SUBSET Resumable :
               /\ \/ first = Resumable /\ Cardinality(first) <= Cardinality(Workers)
                  \/ Cardinality(first) = Cardinality(Workers)
               /\ batch' = first
               /\ wish' = WishedFor(first, works, {})
          /\ loop' = "sleep"
     ELSE UNCHANGED <<batch, wish, loop>>
  /\ UNCHANGED <<queueVars, cancelled_rjs, user_cancelled_rjs, cancelling, disk,
                 taskVars, batch_rj, opVars, global_paused, cache>>

(* The user may delete a file; unreadable cached metadata is dropped.       *)
LoseCache(rj) ==
  /\ May("loseCache") /\ cache[rj] # None
  /\ cache' = [cache EXCEPT ![rj] = None]
  /\ UNCHANGED <<coreVars, taskVars, loopVars, opVars, global_paused, lifecycle>>

DeleteFile(rj, t) ==
  /\ May("deleteFile") /\ ~Active(rj)
  /\ disk[rj][t] \in {"final", "over"}
  /\ disk' = [disk EXCEPT ![rj][t] = "none"]
  /\ UNCHANGED <<queueVars, cancelled_rjs, user_cancelled_rjs, cancelling, works, row,
                 wish, taskVars, loopVars, opVars, global_paused, lifecycle, cache>>

-----------------------------------------------------------------------------

UserStep ==
  \/ \E rj \in RJs :
       \/ QueueAgain(rj)    \/ QueueCached(rj)   \/ QueueFetching(rj)
       \/ Pause(rj)         \/ Cancel(rj)        \/ Retry(rj)
       \/ Resume(rj)        \/ ReconnectIdle(rj) \/ ReconnectActive(rj)
       \/ LoseCache(rj)
       \/ \E t \in Tracks : DeleteFile(rj, t)
  \/ PauseAll \/ ResumeAll \/ ShutdownBegin

Answer(rj) ==
  \/ QueueAnswered(rj)    \/ QueueFails(rj)
  \/ ResumeAnswered(rj)   \/ ResumeFails(rj)   \/ ResumeAnswerRefused(rj)
  \/ ReconnectResumes(rj) \/ ReconnectTimesOut(rj)

WorkerStep(w) == WorkerSkips(w) \/ WorkerStarts(w) \/ WorkerReaps(w) \/ WorkerExits(w)

FileEnds(w, t) == FileSucceeds(w, t) \/ FileFails(w, t) \/ FileRetries(w, t) \/ FileCancelled(w, t)
FileStep(w, t) == FileWrites(w, t) \/ FileEnds(w, t)
TaskStep(w)    == CoverDone(w) \/ CoverFails(w) \/ TaskCancelled(w) \/ TaskAnalyses(w)

ShutdownStep == ShutdownJoin \/ ShutdownDone

\* The loop over _resume_one keeps the event loop to itself while it spins.
Yielding ==
  \/ UserStep
  \/ \E rj \in RJs : Answer(rj)
  \/ \E w \in Workers : WorkerStep(w) \/ TaskStep(w) \/ \E t \in Tracks : FileStep(w, t)
  \/ BatchWakes \/ ShutdownStep \/ Boot

Spinning == BatchDone \/ \E rj \in RJs : BatchNext(rj)

Next ==
  \/ loop = "spin" /\ Spinning
  \/ loop # "spin" /\ Yielding
  \/ Crash

Spec == Init /\ [][Next]_vars

\* Workers, transfers and polling go on as long as the event loop runs, requests
\* are answered or time out.  Users and crashes owe nothing.
Fairness ==
  /\ WF_vars(Spinning) /\ WF_vars(BatchWakes) /\ WF_vars(ShutdownStep)
  /\ \A rj \in RJs : /\ WF_vars(QueueAnswered(rj) \/ QueueFails(rj))
                     /\ WF_vars(ResumeAnswered(rj) \/ ResumeFails(rj) \/ ResumeAnswerRefused(rj))
                     /\ WF_vars(ReconnectResumes(rj) \/ ReconnectTimesOut(rj))
  /\ \A w \in Workers : /\ WF_vars(WorkerStep(w)) /\ WF_vars(TaskStep(w))
                        /\ \A t \in Tracks : WF_vars(FileEnds(w, t))

FairSpec == Spec /\ Fairness

-----------------------------------------------------------------------------
(* Safety.                                                                  *)

\* A work is on active_tasks exactly while one worker has it as its task: a
\* work is never downloaded by two workers, whatever is left on the queue.
OneTaskPerWork ==
  /\ \A rj \in RJs, w \in Workers : active_tasks[rj] = w <=> job[w] = rj
  /\ \A w \in Workers : job[w] = None <=> phase[w] \in {"idle", "exited"}

\* The three parts of the queue agree: a work marked queued has its targets and
\* an entry that a worker will take, so it cannot stay queued for ever.
QueueAgrees ==
  \A rj \in RJs :
    /\ rj \in queued_rj_ids <=> work_data[rj] # {}
    /\ rj \in queued_rj_ids => \E i \in 1..Len(download_queue) : download_queue[i] = rj

\* A work the user cancelled is neither queued nor downloading: what was
\* suspended in a metadata request or running when it was cancelled stops.
CancelHolds ==
  \A rj \in user_cancelled_rjs :
    /\ rj \notin queued_rj_ids
    /\ Active(rj) => LET w == active_tasks[rj] IN cancelling[w] \/ ~Live(w)

\* A file goes on being transferred only for a user whose last word was not to
\* pause or cancel the work.
RunsOnlyWanted ==
  \A w \in Workers : Live(w) /\ ~cancelling[w] => wish[job[w]] = "run"

\* As long as the process lives, a file recorded as downloading is one that a
\* task is transferring: pause, cancel and shutdown leave none behind.
DownloadingIsRunning ==
  lifecycle # "down" =>
    \A rj \in RJs, t \in Tracks : row[rj][t] = "downloading" =>
      \E w \in Workers : /\ job[w] = rj /\ phase[w] = "files" /\ ~cancelling[w]
                         /\ file[w][t] \in {"try", "backoff"}

\* A file recorded as finished is there under its final name.
DoneIsOnDisk ==
  \A rj \in RJs, t \in Tracks :
    row[rj][t] \in {"completed", "registered"} => disk[rj][t] \in {"final", "over"}

\* A work recorded as completed has no file left to fetch.
CompletedMeansDone ==
  \A rj \in RJs : works[rj] = "completed" => ~HasRow(rj, Unfinished \union {"cancelled"})

-----------------------------------------------------------------------------
(* What a step may never do.                                                *)

\* prepare_work ended at a file the OS refused, after it registered others.
LeavesHalfPrepared(rj) ==
  /\ works'[rj] = "prepared"
  /\ \E refused \in FaultyTracks : row'[rj][refused] = row[rj][refused]

\* A file the user cancelled is not taken up again by anything in the same
\* session but retry_cancelled_job; it may turn out to be complete.  One way out
\* is left open: a preparation that the OS refuses half-way has put files back
\* to queued and skips the cancel_job that would cancel them again.
CancelledRowsStay ==
  [][\A rj \in user_cancelled_rjs \intersect user_cancelled_rjs', t \in Tracks :
       row[rj][t] = "cancelled" =>
         \/ row'[rj][t] \in {"cancelled", "completed"}
         \/ row'[rj][t] = "queued" /\ LeavesHalfPrepared(rj)]_vars

\* A finished file is not failed by anything but the OS refusing access to it.
DoneNeverFails ==
  [][\A rj \in RJs, t \in Tracks \ FaultyTracks :
       row[rj][t] \in {"completed", "registered"} => row'[rj][t] # "failed"]_vars

\* A work the user was told is queued leaves the queue by starting, because the
\* user changed his mind, or because every file of it is finished already.
PromisesKept ==
  [][\A rj \in RJs :
       rj \in queued_rj_ids \ queued_rj_ids' /\ wish[rj] = "run" /\ wish'[rj] = "run"
         => Active(rj)' \/ ~HasRow(rj, Unfinished)]_vars

\* cancelled is a durable end: a failed metadata request does not change it.
CancelledIsTerminal ==
  [][\A rj \in RJs : works[rj] = "cancelled" => works'[rj] # "metadata_failed"]_vars

-----------------------------------------------------------------------------
(* Progress.                                                                *)

\* A queued work is eventually started, unless the user stops it or there is
\* nothing left to fetch.
QueuedStarts ==
  \A rj \in RJs : rj \in queued_rj_ids
                    ~> (Active(rj) \/ wish[rj] # "run" \/ ~HasRow(rj, Unfinished))

\* A task told to stop stops and gives its worker back.
CancelEnds == \A w \in Workers : cancelling[w] ~> phase[w] \in {"idle", "exited"}

\* Every suspended operation ends, and with it its guard against second clicks.
OperationsEnd ==
  \A rj \in RJs : /\ rj \in preparing_rj_ids ~> rj \notin preparing_rj_ids
                  /\ rj \in resuming_rj_ids ~> rj \notin resuming_rj_ids
                  /\ rj \in reconnecting ~> rj \notin reconnecting

\* Shutdown ends, however many transfers and requests were under way.
ShutdownEnds == (lifecycle = "draining") ~> (lifecycle = "stopped")

=============================================================================
