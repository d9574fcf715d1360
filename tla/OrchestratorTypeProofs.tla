------------------------ MODULE OrchestratorTypeProofs ------------------------
(***************************************************************************)
(* Type correctness of Orchestrator.  TypeOK alone is not inductive: the   *)
(* retry of a transfer increments the attempt count in a later step than   *)
(* the one that found an attempt left, so AttemptsLeft carries that guard  *)
(* across the backoff.  Every lemma takes one group of steps.              *)
(***************************************************************************)
EXTENDS Orchestrator, TLAPS

\* A transfer waits for its next attempt only while it has one.
AttemptsLeft ==
  \A w \in Workers, t \in Tracks :
    file[w][t] = "backoff" => attempt[w][t] < RetryCount

\* The inductive invariant.
Typed == TypeOK /\ AttemptsLeft

\* The part of it that a command on one work can disturb.
CoreTyped ==
  /\ download_queue \in Seq(RJs)
  /\ queued_rj_ids \subseteq RJs
  /\ work_data \in [RJs -> SUBSET Tracks]
  /\ cancelled_rjs \subseteq RJs
  /\ user_cancelled_rjs \subseteq RJs
  /\ cancelling \in [Workers -> BOOLEAN]
  /\ works \in [RJs -> WorkStatus]
  /\ row \in [RJs -> [Tracks -> RowStatus]]
  /\ disk \in [RJs -> [Tracks -> DiskState]]
  /\ wish \in [RJs -> Wishes]

\* A new process on an empty database is well-typed.
LEMMA InitTyped == Init => Typed
<1> SUFFICES ASSUME Init PROVE Typed
  OBVIOUS
<1>1. RetryCount \in Nat
  BY OrchestratorAssumption DEF OrchestratorAssumption
<1>2. download_queue \in Seq(RJs)
  BY DEF Init
<1>3. attempt \in [Workers -> [Tracks -> 0..RetryCount]]
  BY <1>1 DEF Init, NoTry
<1>4. TypeOK
  BY <1>1, <1>2, <1>3 DEF Init, TypeOK, NoTask, WorkStatus, RowStatus, DiskState, Wishes,
     FileState
<1>5. AttemptsLeft
  BY DEF Init, AttemptsLeft, NoTask
<1>. QED
  BY <1>4, <1>5 DEF Typed

\* The writes to the tables, the history, the queue and the tasks, one by one.
LEMMA WriteTyped ==
  ASSUME TypeOK, NEW rj \in RJs, NEW s \in WorkStatus, NEW r \in [Tracks -> RowStatus],
         Write(rj, s, r)
  PROVE  works' \in [RJs -> WorkStatus] /\ row' \in [RJs -> [Tracks -> RowStatus]]
  BY DEF TypeOK, Write

LEMMA WishTyped ==
  ASSUME TypeOK, NEW rj \in RJs, NEW goal \in Wishes, Wish(rj, goal)
  PROVE  wish' \in [RJs -> Wishes]
  BY DEF TypeOK, Wish

QueueTypes ==
  /\ download_queue \in Seq(RJs)
  /\ queued_rj_ids \subseteq RJs
  /\ work_data \in [RJs -> SUBSET Tracks]

LEMMA EnqueueTyped ==
  ASSUME TypeOK, NEW rj \in RJs, NEW targets \in SUBSET Tracks,
         Enqueue(rj, targets) \/ UNCHANGED queueVars
  PROVE  QueueTypes'
<1>1. CASE Enqueue(rj, targets)
  <2>1. download_queue' \in Seq(RJs) /\ queued_rj_ids' \subseteq RJs
    BY <1>1 DEF TypeOK, Enqueue
  <2>2. work_data' \in [RJs -> SUBSET Tracks]
    BY <1>1 DEF TypeOK, Enqueue
  <2>. QED
    BY <2>1, <2>2 DEF QueueTypes
<1>2. CASE UNCHANGED queueVars
  BY <1>2 DEF TypeOK, QueueTypes, queueVars
<1>. QED
  BY <1>1, <1>2

LEMMA UnqueueTyped ==
  ASSUME TypeOK, NEW rj \in RJs, Unqueue(rj)
  PROVE  queued_rj_ids' \subseteq RJs /\ work_data' \in [RJs -> SUBSET Tracks]
  BY DEF TypeOK, Unqueue

LEMMA StopTyped ==
  ASSUME TypeOK, NEW ws
  PROVE  StopRequested(ws) \in [Workers -> BOOLEAN]
  BY DEF TypeOK, StopRequested, Live

\* The commands on one work, as the actions use them.
LEMMA PauseTyped ==
  ASSUME TypeOK, NEW rj \in RJs, NEW s \in WorkStatus, NEW r \in [Tracks -> RowStatus],
         NEW goal \in Wishes, PauseWith(rj, s, r, goal)
  PROVE  CoreTyped'
<1>1. PausedRows(r) \in [Tracks -> RowStatus] /\ PausedWork(s) \in WorkStatus
  BY DEF PausedRows, PausedWork, Updated, RowStatus, WorkStatus
<1>2. /\ works' \in [RJs -> WorkStatus] /\ row' \in [RJs -> [Tracks -> RowStatus]]
      /\ wish' \in [RJs -> Wishes] /\ cancelling' \in [Workers -> BOOLEAN]
  BY <1>1, WriteTyped, WishTyped, StopTyped DEF PauseWith
<1>3. cancelled_rjs' \subseteq RJs
  BY DEF PauseWith, TypeOK
<1>4. UNCHANGED <<user_cancelled_rjs, queueVars, disk>>
  BY DEF PauseWith
<1>. QED
  BY <1>2, <1>3, <1>4 DEF TypeOK, CoreTyped, queueVars

LEMMA CancelTyped ==
  ASSUME TypeOK, NEW rj \in RJs, NEW s \in WorkStatus, NEW r \in [Tracks -> RowStatus],
         CancelWith(rj, s, r)
  PROVE  CoreTyped'
<1>1. CASE AlreadyTerminal(s, r)
  BY <1>1, WriteTyped DEF TypeOK, CoreTyped, CancelWith
<1>2. CASE ~AlreadyTerminal(s, r)
  <2>1. CancelledRows(r) \in [Tracks -> RowStatus] /\ Updated(s, "cancelled") \in WorkStatus
    BY DEF CancelledRows, Updated, WorkStatus, RowStatus
  <2>2. "stop" \in Wishes
    BY DEF Wishes
  <2>3. /\ works' \in [RJs -> WorkStatus] /\ row' \in [RJs -> [Tracks -> RowStatus]]
        /\ wish' \in [RJs -> Wishes] /\ cancelling' \in [Workers -> BOOLEAN]
        /\ queued_rj_ids' \subseteq RJs /\ work_data' \in [RJs -> SUBSET Tracks]
    BY <1>2, <2>1, <2>2, WriteTyped, WishTyped, StopTyped, UnqueueTyped DEF CancelWith
  <2>4. cancelled_rjs' \subseteq RJs /\ user_cancelled_rjs' \subseteq RJs
    BY <1>2 DEF CancelWith, TypeOK
  <2>. QED
    BY <2>3, <2>4 DEF TypeOK, CoreTyped, CancelWith
<1>. QED
  BY <1>1, <1>2

LEMMA PreparedTyped ==
  ASSUME TypeOK, NEW rj \in RJs, NEW listed
  PROVE  PreparedRows(rj, listed) \in [Tracks -> RowStatus]
  BY DEF TypeOK, PreparedRows, RowStatus

LEMMA PrepareRefusedTyped ==
  ASSUME TypeOK, NEW rj \in RJs, NEW listed \in SUBSET Tracks, NEW goal \in Wishes,
         PrepareRefused(rj, listed, goal)
  PROVE  CoreTyped'
<1>1. PICK before \in SUBSET listed :
        /\ Write(rj, "prepared", PreparedRows(rj, before))
        /\ Wish(rj, goal)
        /\ UNCHANGED <<queueVars, cancelled_rjs, user_cancelled_rjs, cancelling, disk>>
  BY DEF PrepareRefused
<1>2. /\ works' \in [RJs -> WorkStatus] /\ row' \in [RJs -> [Tracks -> RowStatus]]
      /\ wish' \in [RJs -> Wishes]
  BY <1>1, PreparedTyped, WriteTyped, WishTyped DEF WorkStatus
<1>. QED
  BY <1>1, <1>2 DEF TypeOK, CoreTyped, queueVars

LEMMA QueueTyped ==
  ASSUME TypeOK, NEW rj \in RJs, NEW listed \in SUBSET Tracks, NEW goal \in Wishes,
         QueueWith(rj, listed, goal)
  PROVE  CoreTyped'
<1> DEFINE r == PreparedRows(rj, listed)
<1>1. r \in [Tracks -> RowStatus] /\ "prepared" \in WorkStatus /\ "stop" \in Wishes
  BY PreparedTyped DEF WorkStatus, Wishes
<1>2. CASE CancelWith(rj, "prepared", r)
  BY <1>1, <1>2, CancelTyped
<1>3. CASE PauseWith(rj, "prepared", r, "stop")
  BY <1>1, <1>3, PauseTyped
<1>5. CASE PrepareRefused(rj, listed, goal)
  BY <1>5, PrepareRefusedTyped
<1>4. CASE /\ Write(rj, "prepared", r) /\ Wish(rj, goal)
           /\ Enqueue(rj, listed) \/ UNCHANGED queueVars
           /\ UNCHANGED <<cancelled_rjs, user_cancelled_rjs, cancelling, disk>>
  <2>1. QueueTypes'
    BY <1>4, EnqueueTyped
  <2>2. /\ works' \in [RJs -> WorkStatus] /\ row' \in [RJs -> [Tracks -> RowStatus]]
        /\ wish' \in [RJs -> Wishes]
    BY <1>1, <1>4, WriteTyped, WishTyped
  <2>. QED
    BY <1>4, <2>1, <2>2 DEF TypeOK, CoreTyped, QueueTypes
<1>. QED
  BY <1>2, <1>3, <1>4, <1>5 DEF QueueWith

LEMMA SettleTyped ==
  ASSUME TypeOK, NEW rj \in RJs, NEW s \in WorkStatus, NEW r \in [Tracks -> RowStatus],
         NEW listed \in SUBSET Tracks, NEW goal \in Wishes, SettleWith(rj, s, r, listed, goal)
  PROVE  /\ QueueTypes'
         /\ works' \in [RJs -> WorkStatus]
         /\ row' \in [RJs -> [Tracks -> RowStatus]]
         /\ disk' \in [RJs -> [Tracks -> DiskState]]
         /\ wish' \in [RJs -> Wishes]
<1>1. PICK broken \in SUBSET FaultyTracks :
        /\ row' = [row EXCEPT ![rj] = ReconciledRows(rj, r, listed, broken)]
        /\ disk' = [disk EXCEPT ![rj] = ReconciledDisk(rj, r, listed, broken)]
        /\ Wish(rj, goal)
        /\ \/ /\ works' = [works EXCEPT ![rj] = Updated(s, "queued")]
              /\ Enqueue(rj, Judged(rj, r, listed, broken, "fetch"))
           \/ /\ \/ works' = [works EXCEPT ![rj] = Updated(s, "completed")]
                 \/ works' = [works EXCEPT ![rj] = s]
              /\ UNCHANGED queueVars
  BY Zenon DEF SettleWith
<1>2. ReconciledRows(rj, r, listed, broken) \in [Tracks -> RowStatus]
  BY DEF ReconciledRows, ReconciledRow, Verdict, RowStatus
<1>3. ReconciledDisk(rj, r, listed, broken) \in [Tracks -> DiskState]
  BY DEF ReconciledDisk, DiskState, TypeOK
<1>4. Judged(rj, r, listed, broken, "fetch") \in SUBSET Tracks
  BY DEF Judged
<1>5. QueueTypes'
  BY <1>1, <1>4, EnqueueTyped
<1>6. \A new \in {"queued", "completed"} : Updated(s, new) \in WorkStatus
  BY DEF Updated, WorkStatus
<1>7. works' \in [RJs -> WorkStatus]
  BY <1>1, <1>6 DEF TypeOK
<1>8. row' \in [RJs -> [Tracks -> RowStatus]] /\ disk' \in [RJs -> [Tracks -> DiskState]]
  BY <1>1, <1>2, <1>3 DEF TypeOK
<1>. QED
  BY <1>1, <1>5, <1>7, <1>8, WishTyped

LEMMA SettleRefusedTyped ==
  ASSUME TypeOK, NEW rj \in RJs, NEW s \in WorkStatus, NEW r \in [Tracks -> RowStatus],
         NEW listed \in SUBSET Tracks, NEW goal \in Wishes, SettleRefused(rj, s, r, listed, goal)
  PROVE  /\ QueueTypes'
         /\ works' \in [RJs -> WorkStatus]
         /\ row' \in [RJs -> [Tracks -> RowStatus]]
         /\ disk' \in [RJs -> [Tracks -> DiskState]]
         /\ wish' \in [RJs -> Wishes]
<1>1. PICK broken \in SUBSET FaultyTracks, before \in SUBSET listed :
        /\ Write(rj, s, ReconciledRows(rj, r, before, broken))
        /\ disk' = [disk EXCEPT ![rj] = ReconciledDisk(rj, r, before, broken)]
        /\ Wish(rj, goal)
        /\ UNCHANGED queueVars
  BY DEF SettleRefused
<1>2. ReconciledRows(rj, r, before, broken) \in [Tracks -> RowStatus]
  BY DEF ReconciledRows, ReconciledRow, Verdict, RowStatus
<1>3. ReconciledDisk(rj, r, before, broken) \in [Tracks -> DiskState]
  BY DEF ReconciledDisk, DiskState, TypeOK
<1>4. QueueTypes'
  BY <1>1 DEF TypeOK, QueueTypes, queueVars
<1>5. works' \in [RJs -> WorkStatus] /\ row' \in [RJs -> [Tracks -> RowStatus]]
  BY <1>1, <1>2, WriteTyped
<1>. QED
  BY <1>1, <1>3, <1>4, <1>5, WishTyped DEF TypeOK

LEMMA ResumeTyped ==
  ASSUME TypeOK, NEW rj \in RJs, NEW s \in WorkStatus, NEW r \in [Tracks -> RowStatus],
         NEW marked \in SUBSET RJs, NEW stopped \in SUBSET RJs, NEW goal \in Wishes,
         ResumeWith(rj, s, r, marked, stopped, goal)
  PROVE  CoreTyped' /\ resuming_rj_ids' \subseteq RJs
<1>1. user_cancelled_rjs' \subseteq RJs /\ cancelled_rjs' \subseteq RJs
      /\ cancelling' \in [Workers -> BOOLEAN] /\ resuming_rj_ids' \subseteq RJs
  BY DEF ResumeWith, TypeOK
<1>2. CASE /\ \/ SettleWith(rj, s, r, cache[rj], goal)
              \/ SettleRefused(rj, s, r, cache[rj], goal)
           /\ cache[rj] # None
  <2>1. cache[rj] \in SUBSET Tracks
    BY <1>2 DEF TypeOK
  <2>. QED
    BY <1>1, <1>2, <2>1, SettleTyped, SettleRefusedTyped DEF CoreTyped, QueueTypes
<1>3. CASE /\ Write(rj, s, r) /\ \E g \in Wishes : Wish(rj, g)
           /\ UNCHANGED <<queueVars, disk>>
  <2>1. /\ works' \in [RJs -> WorkStatus] /\ row' \in [RJs -> [Tracks -> RowStatus]]
        /\ wish' \in [RJs -> Wishes]
    BY <1>3, WriteTyped, WishTyped
  <2>. QED
    BY <1>1, <1>3, <2>1 DEF CoreTyped, TypeOK, queueVars
<1>4. wish[rj] \in Wishes
  BY DEF TypeOK
<1>. QED
  BY <1>2, <1>3, <1>4 DEF ResumeWith

LEMMA PauseAllTyped ==
  ASSUME TypeOK, PauseEverything
  PROVE  CoreTyped' /\ global_paused' \in BOOLEAN
<1>1. \A rj \in RJs : /\ PausedRows(row[rj]) \in [Tracks -> RowStatus]
                      /\ PausedWork(works[rj]) \in WorkStatus
  BY DEF TypeOK, PausedRows, PausedWork, Updated, RowStatus, WorkStatus
<1>2. row' \in [RJs -> [Tracks -> RowStatus]] /\ works' \in [RJs -> WorkStatus]
  BY <1>1 DEF TypeOK, PauseEverything
<1>3. cancelling' \in [Workers -> BOOLEAN]
  BY StopTyped DEF PauseEverything
<1>4. cancelled_rjs' \subseteq RJs
  BY DEF TypeOK, PauseEverything, Pausable
<1>5. download_queue' \in Seq(RJs) /\ queued_rj_ids' \subseteq RJs
      /\ work_data' \in [RJs -> SUBSET Tracks]
  BY DEF PauseEverything
<1>6. wish' \in [RJs -> Wishes]
  BY DEF TypeOK, PauseEverything, Wishes
<1>7. UNCHANGED <<user_cancelled_rjs, disk>> /\ global_paused' \in BOOLEAN
  BY DEF PauseEverything
<1>. QED
  BY <1>2, <1>3, <1>4, <1>5, <1>6, <1>7 DEF TypeOK, CoreTyped

\* The rest of the inductive invariant: tasks, and the fields no command touches.
TaskTyped ==
  /\ active_tasks \in [RJs -> Workers \union {None}]
  /\ job \in [Workers -> RJs \union {None}]
  /\ phase \in [Workers -> {"idle", "cover", "files", "finished", "exited"}]
  /\ file \in [Workers -> [Tracks -> FileState]]
  /\ attempt \in [Workers -> [Tracks -> 0..RetryCount]]
  /\ AttemptsLeft

RestTyped ==
  /\ preparing_rj_ids \subseteq RJs
  /\ resuming_rj_ids \subseteq RJs
  /\ reconnecting \subseteq RJs
  /\ global_paused \in BOOLEAN
  /\ lifecycle \in {"up", "draining", "joining", "stopped", "down"}
  /\ loop \in {"off", "sleep", "spin", "await"}
  /\ batch \subseteq RJs
  /\ batch_rj \in RJs \union {None}
  /\ cache \in [RJs -> (SUBSET Tracks) \union {None}]

\* The parts make up the whole.
LEMMA TypedParts == Typed <=> CoreTyped /\ TaskTyped /\ RestTyped
  BY DEF Typed, TypeOK, CoreTyped, TaskTyped, RestTyped

LEMMA TypedPartsNext == Typed' <=> CoreTyped' /\ TaskTyped' /\ RestTyped'
  BY DEF Typed, TypeOK, CoreTyped, TaskTyped, RestTyped

LEMMA TaskKept == ASSUME TaskTyped, UNCHANGED taskVars PROVE TaskTyped'
  BY DEF TaskTyped, taskVars, AttemptsLeft

\* The groups of steps: commands, answers, the loop, workers, transfers, tasks.
LEMMA UserTyped == ASSUME Typed, UserStep PROVE Typed'
<1> USE DEF Typed
<1>1. CoreTyped /\ TaskTyped /\ RestTyped
  BY TypedParts
<1>2. UNCHANGED taskVars
  BY DEF UserStep, QueueAgain, QueueCached, QueueFetching, Pause, Cancel, Retry, Resume,
     ReconnectIdle, ReconnectActive, LoseCache, DeleteFile, PauseAll, ResumeAll, ShutdownBegin
<1>3. TaskTyped'
  BY <1>1, <1>2, TaskKept
<1>4. ASSUME NEW rj \in RJs, QueueAgain(rj) \/ QueueFetching(rj)
      PROVE  CoreTyped' /\ RestTyped'
  <2>1. "run" \in Wishes
    BY DEF Wishes
  <2>2. wish' \in [RJs -> Wishes]
    BY <1>4, <2>1, WishTyped DEF QueueAgain, QueueFetching
  <2>. QED
    BY <1>1, <1>4, <2>2 DEF QueueAgain, QueueFetching, CoreTyped, RestTyped, queueVars,
       loopVars, opVars
<1>5. ASSUME NEW rj \in RJs, QueueCached(rj) PROVE CoreTyped' /\ RestTyped'
  <2>1. cache[rj] \in SUBSET Tracks /\ "run" \in Wishes
    BY <1>1, <1>5 DEF QueueCached, RestTyped, Wishes
  <2>2. CoreTyped'
    BY <1>5, <2>1, QueueTyped DEF QueueCached
  <2>. QED
    BY <1>1, <1>5, <2>2 DEF QueueCached, RestTyped, loopVars, opVars
<1>6. ASSUME NEW rj \in RJs, Pause(rj) \/ ReconnectActive(rj) PROVE CoreTyped' /\ RestTyped'
  <2>1. works[rj] \in WorkStatus /\ row[rj] \in [Tracks -> RowStatus]
    BY <1>1 DEF CoreTyped
  <2>2. CoreTyped'
    BY <1>6, <2>1, PauseTyped DEF Pause, ReconnectActive, Wishes
  <2>. QED
    BY <1>1, <1>6, <2>2 DEF Pause, ReconnectActive, RestTyped, loopVars, opVars
<1>7. ASSUME NEW rj \in RJs, Cancel(rj) PROVE CoreTyped' /\ RestTyped'
  <2>1. works[rj] \in WorkStatus /\ row[rj] \in [Tracks -> RowStatus]
    BY <1>1 DEF CoreTyped
  <2>2. CoreTyped'
    BY <1>7, <2>1, CancelTyped DEF Cancel
  <2>. QED
    BY <1>1, <1>7, <2>2 DEF Cancel, RestTyped, loopVars, opVars
<1>8. ASSUME NEW rj \in RJs, Retry(rj) \/ Resume(rj) \/ ReconnectIdle(rj)
      PROVE  CoreTyped' /\ RestTyped'
  <2>1. works[rj] \in WorkStatus /\ row[rj] \in [Tracks -> RowStatus] /\ "run" \in Wishes
    BY <1>1 DEF CoreTyped, Wishes
  <2>2. /\ "partial" \in WorkStatus /\ RetriedRows(row[rj]) \in [Tracks -> RowStatus]
        /\ PausedWork(works[rj]) \in WorkStatus /\ PausedRows(row[rj]) \in [Tracks -> RowStatus]
    BY <2>1 DEF RetriedRows, PausedWork, PausedRows, Updated, WorkStatus, RowStatus
  <2>3. /\ cancelled_rjs \in SUBSET RJs /\ cancelled_rjs \ {rj} \in SUBSET RJs
        /\ cancelled_rjs \union {rj} \in SUBSET RJs
        /\ user_cancelled_rjs \in SUBSET RJs /\ user_cancelled_rjs \ {rj} \in SUBSET RJs
    BY <1>1 DEF CoreTyped
  <2>4. CoreTyped' /\ resuming_rj_ids' \subseteq RJs
    BY <1>8, <2>1, <2>2, <2>3, ResumeTyped DEF Retry, Resume, ReconnectIdle
  <2>. QED
    BY <1>1, <1>8, <2>4 DEF Retry, Resume, ReconnectIdle, RestTyped, loopVars
<1>9. CASE PauseAll \/ ShutdownBegin
  <2>1. PauseEverything /\ CoreTyped' /\ global_paused' \in BOOLEAN
    BY <1>1, <1>9, PauseAllTyped DEF PauseAll, ShutdownBegin
  <2>. QED
    BY <1>1, <1>3, <1>9, <2>1, TypedPartsNext
       DEF PauseAll, ShutdownBegin, RestTyped, loopVars, opVars
<1>10. CASE ResumeAll
  <2>1. Restorable \subseteq RJs
    BY DEF Restorable
  <2>2. wish' \in [RJs -> Wishes]
    BY <1>1, <1>10 DEF ResumeAll, WishedFor, CoreTyped, Wishes
  <2>. QED
    BY <1>1, <1>3, <1>10, <2>1, <2>2, TypedPartsNext
       DEF ResumeAll, CoreTyped, RestTyped, queueVars, opVars
<1>11. ASSUME NEW rj \in RJs, LoseCache(rj) PROVE CoreTyped' /\ RestTyped'
  BY <1>1, <1>11 DEF LoseCache, CoreTyped, RestTyped, coreVars, queueVars, loopVars, opVars
<1>12. ASSUME NEW rj \in RJs, NEW t \in Tracks, DeleteFile(rj, t)
       PROVE  CoreTyped' /\ RestTyped'
  <2>1. disk' \in [RJs -> [Tracks -> DiskState]]
    BY <1>1, <1>12 DEF DeleteFile, CoreTyped, DiskState
  <2>. QED
    BY <1>1, <1>12, <2>1 DEF DeleteFile, CoreTyped, RestTyped, queueVars, loopVars, opVars
<1>. QED
  BY <1>3, <1>4, <1>5, <1>6, <1>7, <1>8, <1>9, <1>10, <1>11, <1>12, TypedPartsNext DEF UserStep

LEMMA FetchFailsTyped ==
  ASSUME Typed, NEW rj \in RJs, FetchFails(rj)
  PROVE  CoreTyped' /\ cache' \in [RJs -> (SUBSET Tracks) \union {None}]
<1>1. works' \in [RJs -> WorkStatus]
  BY DEF FetchFails, Typed, TypeOK, Updated, WorkStatus
<1>2. \A listed \in Catalogues : listed \in SUBSET Tracks
  BY OrchestratorAssumption DEF OrchestratorAssumption
<1>3. UNCHANGED cache \/ \E listed \in SUBSET Tracks : cache' = [cache EXCEPT ![rj] = listed]
  BY <1>2 DEF FetchFails
<1>4. cache' \in [RJs -> (SUBSET Tracks) \union {None}]
  BY <1>3 DEF Typed, TypeOK
<1>. QED
  BY <1>1, <1>4 DEF FetchFails, Typed, TypeOK, CoreTyped, queueVars

LEMMA AnswerTyped == ASSUME Typed, NEW rj \in RJs, Answer(rj) PROVE Typed'
<1>1. TypeOK /\ CoreTyped /\ TaskTyped /\ RestTyped
  BY TypedParts DEF Typed
<1>2. UNCHANGED taskVars
  BY DEF Answer, QueueAnswered, QueueFails, ResumeAnswered, ResumeAnswerRefused, ResumeFails,
     ResumeReturns, ResumeThrows, ReconnectResumes, ReconnectTimesOut
<1>3. TaskTyped'
  BY <1>1, <1>2, TaskKept
<1>4. /\ wish[rj] \in Wishes /\ "stop" \in Wishes /\ "prepared" \in WorkStatus
      /\ \A listed : PreparedRows(rj, listed) \in [Tracks -> RowStatus]
  BY <1>1, PreparedTyped DEF CoreTyped, Wishes, WorkStatus
<1>5. \A listed \in Catalogues : listed \in SUBSET Tracks
  BY OrchestratorAssumption DEF OrchestratorAssumption
<1>6. CASE QueueAnswered(rj)
  <2>1. PICK listed \in SUBSET Tracks :
          /\ QueueWith(rj, listed, wish[rj])
          /\ cache' = [cache EXCEPT ![rj] = listed] \/ UNCHANGED cache
    BY <1>1, <1>5, <1>6 DEF QueueAnswered, RestTyped
  <2>2. CoreTyped'
    BY <1>1, <1>4, <2>1, QueueTyped
  <2>3. cache' \in [RJs -> (SUBSET Tracks) \union {None}]
    BY <1>1, <2>1 DEF RestTyped
  <2>. QED
    BY <1>1, <1>3, <1>6, <2>2, <2>3, TypedPartsNext DEF QueueAnswered, RestTyped, loopVars
<1>7. CASE QueueFails(rj)
  <2>1. CoreTyped' /\ cache' \in [RJs -> (SUBSET Tracks) \union {None}]
    BY <1>1, <1>7, FetchFailsTyped DEF QueueFails, CoreTyped, RestTyped, coreVars, queueVars
  <2>. QED
    BY <1>1, <1>3, <1>7, <2>1, TypedPartsNext DEF QueueFails, RestTyped, loopVars
<1>8. ASSUME ResumeReturns(rj), CoreTyped', cache' \in [RJs -> (SUBSET Tracks) \union {None}]
      PROVE  Typed'
  BY <1>1, <1>3, <1>8, TypedPartsNext DEF ResumeReturns, RestTyped
<1>9. CASE ResumeAnswered(rj)
  <2>1. PICK listed \in Catalogues :
          /\ cache' = [cache EXCEPT ![rj] = listed]
          /\ LET r == PreparedRows(rj, listed) IN
             \/ /\ Write(rj, "prepared", r)
                /\ UNCHANGED <<queueVars, cancelled_rjs, user_cancelled_rjs, cancelling,
                               disk, wish>>
             \/ CancelWith(rj, "prepared", r)
             \/ PauseWith(rj, "prepared", r, "stop")
             \/ /\ SettleWith(rj, "prepared", r, listed, wish[rj])
                /\ UNCHANGED <<cancelled_rjs, user_cancelled_rjs, cancelling>>
    BY <1>9 DEF ResumeAnswered
  <2> DEFINE r == PreparedRows(rj, listed)
  <2>2. cache' \in [RJs -> (SUBSET Tracks) \union {None}]
    BY <1>1, <1>5, <2>1 DEF RestTyped
  <2>3. CASE /\ Write(rj, "prepared", r)
             /\ UNCHANGED <<queueVars, cancelled_rjs, user_cancelled_rjs, cancelling,
                            disk, wish>>
    <3>1. works' \in [RJs -> WorkStatus] /\ row' \in [RJs -> [Tracks -> RowStatus]]
      BY <1>1, <1>4, <2>3, WriteTyped
    <3>2. CoreTyped'
      BY <1>1, <2>3, <3>1 DEF CoreTyped, queueVars
    <3>. QED
      BY <1>8, <1>9, <2>2, <3>2 DEF ResumeAnswered
  <2>4. CASE CancelWith(rj, "prepared", r) \/ PauseWith(rj, "prepared", r, "stop")
    <3>1. CoreTyped'
      BY <1>1, <1>4, <2>4, CancelTyped, PauseTyped
    <3>. QED
      BY <1>8, <1>9, <2>2, <3>1 DEF ResumeAnswered
  <2>5. CASE /\ SettleWith(rj, "prepared", r, listed, wish[rj])
             /\ UNCHANGED <<cancelled_rjs, user_cancelled_rjs, cancelling>>
    <3>1. /\ QueueTypes' /\ works' \in [RJs -> WorkStatus]
          /\ row' \in [RJs -> [Tracks -> RowStatus]]
          /\ disk' \in [RJs -> [Tracks -> DiskState]] /\ wish' \in [RJs -> Wishes]
      BY <1>1, <1>4, <1>5, <2>5, SettleTyped
    <3>2. CoreTyped'
      BY <1>1, <2>5, <3>1 DEF CoreTyped, QueueTypes
    <3>. QED
      BY <1>8, <1>9, <2>2, <3>2 DEF ResumeAnswered
  <2>. QED
    BY <2>1, <2>3, <2>4, <2>5
<1>13. CASE ResumeAnswerRefused(rj)
  <2>1. PICK listed \in Catalogues :
          /\ cache' = [cache EXCEPT ![rj] = listed]
          /\ \/ PrepareRefused(rj, listed, wish[rj])
             \/ /\ SettleRefused(rj, "prepared", PreparedRows(rj, listed), listed, wish[rj])
                /\ UNCHANGED <<cancelled_rjs, user_cancelled_rjs, cancelling>>
    BY <1>13 DEF ResumeAnswerRefused
  <2>2. cache' \in [RJs -> (SUBSET Tracks) \union {None}]
    BY <1>1, <1>5, <2>1 DEF RestTyped
  <2>3. CoreTyped'
    <3>1. CASE PrepareRefused(rj, listed, wish[rj])
      BY <1>1, <1>4, <1>5, <3>1, PrepareRefusedTyped
    <3>2. CASE /\ SettleRefused(rj, "prepared", PreparedRows(rj, listed), listed, wish[rj])
               /\ UNCHANGED <<cancelled_rjs, user_cancelled_rjs, cancelling>>
      <4>1. /\ QueueTypes' /\ works' \in [RJs -> WorkStatus]
            /\ row' \in [RJs -> [Tracks -> RowStatus]]
            /\ disk' \in [RJs -> [Tracks -> DiskState]] /\ wish' \in [RJs -> Wishes]
        BY <1>1, <1>4, <1>5, <3>2, SettleRefusedTyped
      <4>. QED
        BY <1>1, <3>2, <4>1 DEF CoreTyped, QueueTypes
    <3>. QED
      BY <2>1, <3>1, <3>2
  <2>4. RestTyped'
    BY <1>1, <1>13, <2>2 DEF ResumeAnswerRefused, ResumeReturns, ResumeThrows, RestTyped
  <2>. QED
    BY <1>3, <2>3, <2>4, TypedPartsNext
<1>10. CASE ResumeFails(rj)
  BY <1>8, <1>10, FetchFailsTyped DEF ResumeFails
<1>11. CASE ReconnectResumes(rj)
  <2>1. /\ works[rj] \in WorkStatus /\ row[rj] \in [Tracks -> RowStatus]
        /\ cancelled_rjs \in SUBSET RJs /\ user_cancelled_rjs \in SUBSET RJs
    BY <1>1 DEF CoreTyped
  <2>2. CoreTyped' /\ resuming_rj_ids' \subseteq RJs
    BY <1>1, <1>4, <1>11, <2>1, ResumeTyped DEF ReconnectResumes
  <2>. QED
    BY <1>1, <1>3, <1>11, <2>2, TypedPartsNext DEF ReconnectResumes, RestTyped, loopVars
<1>12. CASE ReconnectTimesOut(rj)
  BY <1>1, <1>3, <1>12, TypedPartsNext
     DEF ReconnectTimesOut, CoreTyped, RestTyped, coreVars, queueVars, loopVars
<1>. QED
  BY <1>6, <1>7, <1>9, <1>10, <1>11, <1>12, <1>13 DEF Answer

LEMMA LoopTyped == ASSUME Typed, BatchWakes \/ Spinning PROVE Typed'
<1>1. TypeOK /\ CoreTyped /\ TaskTyped /\ RestTyped
  BY TypedParts DEF Typed
<1>2. UNCHANGED taskVars
  BY DEF Spinning, BatchWakes, BatchDone, BatchNext
<1>3. TaskTyped'
  BY <1>1, <1>2, TaskKept
<1>4. CASE BatchWakes \/ BatchDone
  BY <1>1, <1>3, <1>4, TypedPartsNext
     DEF BatchWakes, BatchDone, CoreTyped, RestTyped, coreVars, queueVars, opVars
<1>5. ASSUME NEW rj \in RJs, BatchNext(rj) PROVE Typed'
  <2>1. /\ works[rj] \in WorkStatus /\ row[rj] \in [Tracks -> RowStatus]
        /\ cancelled_rjs \in SUBSET RJs /\ user_cancelled_rjs \in SUBSET RJs
        /\ wish[rj] \in Wishes
    BY <1>1 DEF CoreTyped
  <2>2. CoreTyped' /\ resuming_rj_ids' \subseteq RJs
    BY <1>1, <1>5, <2>1, ResumeTyped DEF BatchNext
  <2>. QED
    BY <1>1, <1>3, <1>5, <2>2, TypedPartsNext DEF BatchNext, BatchThrows, RestTyped
<1>. QED
  BY <1>4, <1>5 DEF Spinning

LEMMA WorkerTyped == ASSUME Typed, NEW w \in Workers, WorkerStep(w) PROVE Typed'
<1>1. TypeOK /\ CoreTyped /\ TaskTyped /\ RestTyped
  BY TypedParts DEF Typed
<1>2. RestTyped'
  BY <1>1 DEF WorkerStep, WorkerSkips, WorkerStarts, WorkerReaps, WorkerExits, RestTyped,
     loopVars, opVars
<1>3. CASE WorkerSkips(w) \/ WorkerStarts(w)
  <2>1. download_queue # <<>> /\ download_queue' = Tail(download_queue)
    BY <1>3 DEF WorkerSkips, WorkerStarts
  <2>2. Head(download_queue) \in RJs /\ download_queue' \in Seq(RJs)
    BY <1>1, <2>1 DEF CoreTyped
  <2>3. Unqueue(Head(download_queue)) /\ cancelled_rjs' \subseteq RJs
    BY <1>1, <1>3 DEF WorkerSkips, WorkerStarts, CoreTyped
  <2>4. CoreTyped'
    BY <1>1, <1>3, <2>2, <2>3, UnqueueTyped DEF WorkerSkips, WorkerStarts, CoreTyped
  <2>5. CASE WorkerSkips(w)
    <3>1. TaskTyped'
      BY <1>1, <2>5, TaskKept DEF WorkerSkips
    <3>. QED
      BY <1>2, <2>4, <3>1, TypedPartsNext
  <2>6. CASE WorkerStarts(w)
    <3>1. /\ active_tasks' \in [RJs -> Workers \union {None}]
          /\ job' \in [Workers -> RJs \union {None}]
      BY <1>1, <2>2, <2>6 DEF WorkerStarts, TaskTyped
    <3>2. file' \in [Workers -> [Tracks -> FileState]]
      BY <1>1, <2>6 DEF WorkerStarts, TaskTyped, FileState
    <3>3. phase' \in [Workers -> {"idle", "cover", "files", "finished", "exited"}]
      BY <1>1, <2>6 DEF WorkerStarts, TaskTyped
    <3>4. AttemptsLeft'
      BY <1>1, <2>6 DEF WorkerStarts, TaskTyped, AttemptsLeft
    <3>5. TaskTyped'
      BY <1>1, <2>6, <3>1, <3>2, <3>3, <3>4 DEF WorkerStarts, TaskTyped
    <3>. QED
      BY <1>2, <2>4, <3>5, TypedPartsNext
  <2>. QED
    BY <1>3, <2>5, <2>6
<1>4. CASE WorkerReaps(w)
  <2>1. NoTask \in [Tracks -> FileState] /\ NoTry \in [Tracks -> 0..RetryCount]
        /\ \A t \in Tracks : NoTask[t] # "backoff"
    BY OrchestratorAssumption DEF OrchestratorAssumption, NoTask, NoTry, FileState
  <2>2. AfterTask(w) \in {"idle", "exited"}
    BY DEF AfterTask
  <2>3. TaskTyped'
    BY <1>1, <1>4, <2>1, <2>2 DEF WorkerReaps, TaskTyped, AttemptsLeft
  <2>4. CoreTyped'
    BY <1>1, <1>4 DEF WorkerReaps, CoreTyped, queueVars
  <2>. QED
    BY <1>2, <2>3, <2>4, TypedPartsNext
<1>5. CASE WorkerExits(w)
  BY <1>1, <1>2, <1>5, TypedPartsNext
     DEF WorkerExits, CoreTyped, TaskTyped, AttemptsLeft, coreVars, queueVars
<1>. QED
  BY <1>3, <1>4, <1>5 DEF WorkerStep

LEMMA FileTyped ==
  ASSUME Typed, NEW w \in Workers, NEW t \in Tracks, FileStep(w, t) PROVE Typed'
<1>1. CoreTyped /\ TaskTyped /\ RestTyped /\ TypeOK
  BY TypedParts DEF Typed
<1>2. RestTyped'
  BY <1>1 DEF FileStep, FileEnds, FileWrites, FileSucceeds, FileFails, FileRetries,
     FileCancelled, RestTyped, loopVars, opVars
<1>3. row' \in [RJs -> [Tracks -> RowStatus]]
  <2>1. UNCHANGED row \/ RowBecomes(w, t, "completed") \/ RowBecomes(w, t, "paused")
        \/ RowBecomes(w, t, "failed") \/ RowBecomes(w, t, "downloading")
        \/ RowBecomes(w, t, "cancelled")
    BY DEF FileStep, FileEnds, FileWrites, FileSucceeds, FileFails, FileRetries, FileCancelled
  <2>2. ASSUME NEW st \in RowStatus, RowBecomes(w, t, st)
        PROVE  row' \in [RJs -> [Tracks -> RowStatus]]
    BY <1>1, <2>2 DEF RowBecomes, CoreTyped
  <2>. QED
    BY <1>1, <2>1, <2>2 DEF CoreTyped, RowStatus
<1>4. disk' \in [RJs -> [Tracks -> DiskState]]
  <2>1. ASSUME NEW size \in DiskState, disk' = [disk EXCEPT ![job[w]][t] = size]
        PROVE  disk' \in [RJs -> [Tracks -> DiskState]]
    BY <1>1, <2>1 DEF CoreTyped
  <2>2. CASE FileWrites(w, t)
    BY <2>1, <2>2 DEF FileWrites, DiskState
  <2>3. CASE FileSucceeds(w, t)
    BY <2>1, <2>3 DEF FileSucceeds, DiskState
  <2>. QED
    BY <1>1, <2>2, <2>3 DEF FileStep, FileEnds, FileFails, FileRetries, FileCancelled, CoreTyped
<1>5. CoreTyped'
  BY <1>1, <1>3, <1>4 DEF FileStep, FileEnds, FileWrites, FileSucceeds, FileFails,
     FileRetries, FileCancelled, CoreTyped, queueVars
<1>6. file' \in [Workers -> [Tracks -> FileState]]
  BY <1>1 DEF FileStep, FileEnds, FileWrites, FileSucceeds, FileFails, FileRetries,
     FileCancelled, FileBecomes, TaskTyped, taskVars, FileState
<1>7. attempt' \in [Workers -> [Tracks -> 0..RetryCount]]
  <2>1. CASE FileRetries(w, t)
    <3>1. attempt[w][t] \in Nat /\ attempt[w][t] < RetryCount /\ RetryCount \in Nat
      BY <1>1, <2>1, OrchestratorAssumption
         DEF OrchestratorAssumption, FileRetries, TaskTyped, AttemptsLeft
    <3>2. attempt[w][t] + 1 \in 0..RetryCount
      BY <3>1
    <3>. QED
      BY <1>1, <2>1, <3>2 DEF FileRetries, TaskTyped
  <2>. QED
    BY <1>1, <2>1 DEF FileStep, FileEnds, FileWrites, FileSucceeds, FileFails, FileCancelled,
       TaskTyped, taskVars
<1>8. AttemptsLeft'
  BY <1>1 DEF FileStep, FileEnds, FileWrites, FileSucceeds, FileFails, FileRetries,
     FileCancelled, FileBecomes, TriesLeft, TaskTyped, AttemptsLeft, taskVars
<1>9. TaskTyped'
  BY <1>1, <1>6, <1>7, <1>8 DEF FileStep, FileEnds, FileWrites, FileSucceeds, FileFails,
     FileRetries, FileCancelled, TaskTyped, taskVars
<1>. QED
  BY <1>2, <1>5, <1>9, TypedPartsNext

LEMMA TaskStepTyped == ASSUME Typed, NEW w \in Workers, TaskStep(w) PROVE Typed'
<1>1. CoreTyped /\ TaskTyped /\ RestTyped /\ TypeOK
  BY TypedParts DEF Typed
<1>2. RestTyped'
  BY <1>1 DEF TaskStep, CoverDone, CoverFails, TaskCancelled, TaskAnalyses, RestTyped,
     loopVars, opVars
<1>3. CASE CoverFails(w) \/ TaskCancelled(w)
  BY <1>1, <1>2, <1>3, TypedPartsNext
     DEF CoverFails, TaskCancelled, CoreTyped, TaskTyped, AttemptsLeft, coreVars, queueVars
<1>4. CASE CoverDone(w)
  <2>1. PICK broken \in SUBSET FaultyTracks, unrecorded \in SUBSET FaultyTracks :
          LET rj == job[w]
              First(t) == IF t \in broken THEN "fail"
                          ELSE IF disk[rj][t] = "final" THEN "ok" ELSE "try"
              Result   == [fail |-> "failed", ok |-> "completed", try |-> "downloading"]
          IN
          /\ file' = [file EXCEPT ![w] =
                        [t \in Tracks |-> IF t \in Targets(w) THEN First(t) ELSE "none"]]
          /\ row' = [row EXCEPT ![rj] =
                       [t \in Tracks |-> IF t \in Targets(w) \ unrecorded
                                         THEN Result[First(t)] ELSE @[t]]]
          /\ disk' = [disk EXCEPT ![rj] =
                        [t \in Tracks |-> IF t \in Targets(w) \ broken /\ @[t] = "over"
                                          THEN "none" ELSE @[t]]]
    BY <1>4 DEF CoverDone
  <2>2. /\ file' \in [Workers -> [Tracks -> FileState]]
        /\ \A t \in Tracks : file'[w][t] # "backoff"
    BY <1>1, <2>1 DEF TaskTyped, FileState
  <2>3. row' \in [RJs -> [Tracks -> RowStatus]]
    BY <1>1, <2>1 DEF CoreTyped, RowStatus
  <2>4. disk' \in [RJs -> [Tracks -> DiskState]]
    BY <1>1, <2>1 DEF CoreTyped, DiskState
  <2>5. CoreTyped'
    BY <1>1, <1>4, <2>3, <2>4 DEF CoverDone, CoreTyped, queueVars
  <2>6. 1 \in 0..RetryCount
    BY OrchestratorAssumption DEF OrchestratorAssumption
  <2>7. attempt' \in [Workers -> [Tracks -> 0..RetryCount]]
    BY <1>1, <1>4, <2>6 DEF CoverDone, TaskTyped
  <2>8. AttemptsLeft'
    BY <1>1, <1>4, <2>1, <2>2 DEF CoverDone, TaskTyped, AttemptsLeft
  <2>9. phase' \in [Workers -> {"idle", "cover", "files", "finished", "exited"}]
    BY <1>1, <1>4 DEF CoverDone, TaskTyped
  <2>10. TaskTyped'
    BY <1>1, <1>4, <2>2, <2>7, <2>8, <2>9 DEF CoverDone, TaskTyped
  <2>. QED
    BY <1>2, <2>5, <2>10, TypedPartsNext
<1>5. CASE TaskAnalyses(w)
  <2>1. works' \in [RJs -> WorkStatus]
    BY <1>1, <1>5 DEF TaskAnalyses, CoreTyped, WorkStatus
  <2>2. row' \in [RJs -> [Tracks -> RowStatus]]
    <3>1. CASE UNCHANGED row
      BY <1>1, <3>1 DEF CoreTyped
    <3>2. CASE row' = [row EXCEPT ![job[w]] =
                        [t \in Tracks |-> IF t \in Succeeded(w) THEN "registered" ELSE @[t]]]
      BY <1>1, <3>2 DEF CoreTyped, RowStatus
    <3>. QED
      BY <1>5, <3>1, <3>2 DEF TaskAnalyses
  <2>3. CoreTyped'
    BY <1>1, <1>5, <2>1, <2>2 DEF TaskAnalyses, CoreTyped, queueVars
  <2>4. TaskTyped'
    BY <1>1, <1>5 DEF TaskAnalyses, TaskTyped, AttemptsLeft
  <2>. QED
    BY <1>2, <2>3, <2>4, TypedPartsNext
<1>. QED
  BY <1>3, <1>4, <1>5 DEF TaskStep

\* Shutdown, crash and start.
LEMMA ForgetTyped ==
  ASSUME Typed, Forget, UNCHANGED <<works, row>>, disk' \in [RJs -> [Tracks -> DiskState]]
  PROVE  CoreTyped' /\ TaskTyped' /\ (RestTyped' <=>
           /\ lifecycle' \in {"up", "draining", "joining", "stopped", "down"}
           /\ cache' \in [RJs -> (SUBSET Tracks) \union {None}])
<1>1. download_queue' \in Seq(RJs) /\ NoTask \in [Tracks -> FileState]
      /\ NoTry \in [Tracks -> 0..RetryCount]
  BY OrchestratorAssumption DEF OrchestratorAssumption, Forget, NoTask, NoTry, FileState
<1>2. CoreTyped'
  BY <1>1 DEF Forget, Typed, TypeOK, CoreTyped, Wishes
<1>3. AttemptsLeft'
  BY DEF Forget, AttemptsLeft, NoTask
<1>4. TaskTyped'
  BY <1>1, <1>3 DEF Forget, TaskTyped
<1>. QED
  BY <1>2, <1>4 DEF Forget, RestTyped

LEMMA LifeTyped == ASSUME Typed, ShutdownStep \/ Crash \/ Boot PROVE Typed'
<1>1. CoreTyped /\ TaskTyped /\ RestTyped /\ TypeOK
  BY TypedParts DEF Typed
<1>2. CASE ShutdownJoin
  BY <1>1, <1>2, TypedPartsNext
     DEF ShutdownJoin, CoreTyped, TaskTyped, AttemptsLeft, RestTyped, coreVars, queueVars,
         loopVars, opVars
<1>3. CASE ShutdownDone
  BY <1>1, <1>3, ForgetTyped, TypedPartsNext DEF ShutdownDone, CoreTyped, RestTyped
<1>4. CASE Crash
  <2>1. disk' \in [RJs -> [Tracks -> DiskState]]
    BY <1>1, <1>4 DEF Crash, CoreTyped, DiskState
  <2>. QED
    BY <1>1, <1>4, <2>1, ForgetTyped, TypedPartsNext DEF Crash, RestTyped
<1>5. CASE Boot
  <2>1. row' \in [RJs -> [Tracks -> RowStatus]]
    BY <1>1, <1>5 DEF Boot, CoreTyped, RowStatus
  <2>2. works' \in [RJs -> WorkStatus]
    BY <1>1, <1>5 DEF Boot, CoreTyped, WorkStatus
  <2>3. Resumable \subseteq RJs
    BY DEF Resumable
  <2>4. /\ batch' \subseteq RJs /\ loop' \in {"off", "sleep", "spin", "await"}
        /\ UNCHANGED wish \/ \E first : wish' = WishedFor(first, works, {})
    BY <1>1, <1>5, <2>3 DEF Boot, RestTyped
  <2>5. wish' \in [RJs -> Wishes]
    BY <1>1, <2>4 DEF WishedFor, CoreTyped, Wishes
  <2>6. CoreTyped'
    BY <1>1, <1>5, <2>1, <2>2, <2>5 DEF Boot, CoreTyped, queueVars
  <2>7. TaskTyped'
    BY <1>1, <1>5, TaskKept DEF Boot
  <2>8. RestTyped'
    BY <1>1, <1>5, <2>4 DEF Boot, RestTyped, opVars
  <2>. QED
    BY <2>6, <2>7, <2>8, TypedPartsNext
<1>. QED
  BY <1>2, <1>3, <1>4, <1>5 DEF ShutdownStep

\* Every step keeps the inductive invariant.
LEMMA StepTyped == Typed /\ [Next]_vars => Typed'
<1> SUFFICES ASSUME Typed, [Next]_vars PROVE Typed'
  OBVIOUS
<1>1. CASE UNCHANGED vars
  BY <1>1 DEF Typed, TypeOK, AttemptsLeft, vars, coreVars, queueVars, taskVars, loopVars, opVars
<1>2. CASE Spinning \/ Crash
  BY <1>2, LoopTyped, LifeTyped
<1>3. CASE Yielding
  BY <1>3, UserTyped, AnswerTyped, WorkerTyped, TaskStepTyped, FileTyped, LoopTyped, LifeTyped
     DEF Yielding
<1>. QED
  BY <1>1, <1>2, <1>3 DEF Next

\* Whatever the user clicks, the site answers and the process survives, the
\* fields, tables and files stay within their types, and no transfer is tried
\* more than config.retry_count times.
THEOREM Typing == Spec => []TypeOK
<1>1. Typed => TypeOK
  BY DEF Typed
<1>. QED
  BY <1>1, InitTyped, StepTyped, PTL DEF Spec
===============================================================================
