----------------------- MODULE OrchestratorSafetyProofs -----------------------
(***************************************************************************)
(* Safety of Orchestrator for every number of works, files and workers.    *)
(* OneTaskPerWork and QueueAgrees are inductive once the types are known;  *)
(* CancelHolds also needs OneTaskPerWork, which tells whose task a worker  *)
(* has, and a wait_for that loses no cancellation; DoneIsOnDisk needs what *)
(* a running task knows of its files (DoneInv).  RunsOnlyWanted holds      *)
(* where no resume is suspended, so that each work is in one place         *)
(* (Orderly), which Heard rests on.  CompletedMeansDone holds there too    *)
(* (CompletedInv), and where commands overlap but nothing is lost          *)
(* (Settled); CardsAct needs CancelledInv besides.                         *)
(***************************************************************************)
EXTENDS OrchestratorTypeProofs, DownloadCards

-----------------------------------------------------------------------------
(* One task per work.                                                       *)

\* Commands, answers and the resume loop start and end no task themselves.
LEMMA UserKeepsTasks ==
  ASSUME UserStep \/ BatchWakes \/ Spinning \/ Boot \/ \E rj \in RJs : Answer(rj)
  PROVE  UNCHANGED taskVars
  BY DEF UserStep, QueueAgain, QueueCached, QueueFetching, Pause, Cancel, Retry, Resume,
     ReconnectIdle, ReconnectActive, LoseCache, DeleteFile, PauseAll, ResumeAll,
     ShutdownBegin, Spinning, BatchWakes, BatchDone, BatchNext, Boot, Answer, QueueAnswered,
     QueueFails, ResumeAnswered, ResumeAnswerRefused, ResumeFails, ResumeReturns,
     ResumeThrows, ReconnectResumes, ReconnectTimesOut

\* No task at the start, and none in a new process.
LEMMA InitOneTask == Init => OneTaskPerWork
  BY OrchestratorAssumption DEF OrchestratorAssumption, Init, OneTaskPerWork

LEMMA ForgetOneTask == Forget => OneTaskPerWork'
  BY OrchestratorAssumption DEF OrchestratorAssumption, Forget, OneTaskPerWork

\* Only a worker's start and its end of a task touch both sides at once.
LEMMA StepOneTask == Typed /\ OneTaskPerWork /\ [Next]_vars => OneTaskPerWork'
<1> SUFFICES ASSUME Typed, OneTaskPerWork, [Next]_vars PROVE OneTaskPerWork'
  OBVIOUS
<1>1. /\ active_tasks \in [RJs -> Workers \union {None}]
      /\ job \in [Workers -> RJs \union {None}] /\ None \notin RJs \union Workers
      /\ phase \in [Workers -> {"idle", "cover", "files", "finished", "exited"}]
      /\ download_queue \in Seq(RJs)
  BY OrchestratorAssumption DEF OrchestratorAssumption, Typed, TypeOK
<1>2. ASSUME UNCHANGED <<active_tasks, job>>,
             \A w \in Workers : \/ phase'[w] = phase[w]
                                \/ {phase[w], phase'[w]} \subseteq {"idle", "exited"}
                                \/ {phase[w], phase'[w]} \subseteq {"cover", "files", "finished"}
      PROVE  OneTaskPerWork'
  BY <1>2 DEF OneTaskPerWork
<1>3. CASE UserStep \/ BatchWakes \/ Spinning \/ Boot \/ \E rj \in RJs : Answer(rj)
  BY <1>2, <1>3, UserKeepsTasks DEF taskVars
<1>4. CASE UNCHANGED vars
  BY <1>2, <1>4 DEF vars, taskVars
<1>5. ASSUME NEW w \in Workers, WorkerSkips(w) PROVE OneTaskPerWork'
  BY <1>2, <1>5 DEF WorkerSkips, taskVars
<1>6. ASSUME NEW w \in Workers, WorkerStarts(w) PROVE OneTaskPerWork'
  <2> DEFINE rj == Head(download_queue)
  <2>1. rj \in RJs
    BY <1>1, <1>6 DEF WorkerStarts
  <2>2. active_tasks[rj] = None /\ job[w] = None
    BY <1>6 DEF WorkerStarts, MayStart, _is_ready_to_download, Active, OneTaskPerWork
  <2>3. /\ active_tasks' = [active_tasks EXCEPT ![rj] = w]
        /\ job' = [job EXCEPT ![w] = rj]
        /\ phase' = [phase EXCEPT ![w] = "cover"]
    BY <1>6 DEF WorkerStarts
  <2>. QED
    BY <1>1, <2>1, <2>2, <2>3 DEF OneTaskPerWork
<1>7. ASSUME NEW w \in Workers, WorkerReaps(w) PROVE OneTaskPerWork'
  <2>1. job[w] \in RJs /\ active_tasks[job[w]] = w
    BY <1>1, <1>7 DEF WorkerReaps, OneTaskPerWork
  <2>2. AfterTask(w) \in {"idle", "exited"}
    BY DEF AfterTask
  <2>. QED
    BY <1>1, <1>7, <2>1, <2>2 DEF WorkerReaps, OneTaskPerWork
<1>8. ASSUME NEW w \in Workers, WorkerExits(w) \/ TaskStep(w) PROVE OneTaskPerWork'
  BY <1>1, <1>2, <1>8 DEF WorkerExits, TaskStep, CoverDone, CoverFails, TaskCancelled, TaskAnalyses
<1>9. ASSUME NEW w \in Workers, NEW t \in Tracks, FileStep(w, t) PROVE OneTaskPerWork'
  BY <1>2, <1>9 DEF FileStep, FileEnds, FileWrites, FileSucceeds, FileFails, FileRetries,
     FileCancelled, taskVars
<1>10. CASE ShutdownJoin
  BY <1>1, <1>2, <1>10 DEF ShutdownJoin
<1>11. CASE ShutdownDone \/ Crash
  BY <1>11, ForgetOneTask DEF ShutdownDone, Crash
<1>. QED
  BY <1>3, <1>4, <1>5, <1>6, <1>7, <1>8, <1>9, <1>10, <1>11
     DEF Next, Yielding, WorkerStep, ShutdownStep

\* No work is ever the task of two workers, and no worker awaits a work that
\* active_tasks does not show: the readiness check of boot_worker makes stale and
\* duplicate queue entries harmless.
THEOREM OneTask == Spec => []OneTaskPerWork
  BY InitTyped, StepTyped, InitOneTask, StepOneTask, PTL DEF Spec

-----------------------------------------------------------------------------
(* The three parts of the queue.                                            *)

\* The work has an entry.
OnQueue(rj, queue) == \E i \in 1..Len(queue) : queue[i] = rj

\* The queue of a new process is empty.
LEMMA InitQueue == Init => QueueAgrees
  BY DEF Init, QueueAgrees

\* What each write to the queue keeps.
LEMMA EnqueueAgrees ==
  ASSUME TypeOK, QueueAgrees, NEW rj \in RJs, NEW targets \in (SUBSET Tracks) \ {{}},
         Enqueue(rj, targets)
  PROVE  QueueAgrees'
<1>1. /\ download_queue \in Seq(RJs) /\ download_queue' = Append(download_queue, rj)
      /\ work_data' = [work_data EXCEPT ![rj] = targets] /\ work_data \in [RJs -> SUBSET Tracks]
      /\ queued_rj_ids' = queued_rj_ids \union {rj}
  BY DEF TypeOK, Enqueue
<1>2. \A other \in RJs : OnQueue(other, download_queue) => OnQueue(other, download_queue')
  BY <1>1 DEF OnQueue
<1>3. OnQueue(rj, download_queue')
  <2>1. download_queue'[Len(download_queue) + 1] = rj
        /\ Len(download_queue) + 1 \in 1..Len(download_queue')
    BY <1>1
  <2>. QED
    BY <2>1 DEF OnQueue
<1>. QED
  BY <1>1, <1>2, <1>3 DEF QueueAgrees, OnQueue

LEMMA UnqueueAgrees ==
  ASSUME TypeOK, QueueAgrees, NEW rj \in RJs, Unqueue(rj), UNCHANGED download_queue
  PROVE  QueueAgrees'
  BY DEF TypeOK, QueueAgrees, Unqueue

LEMMA TakenAgrees ==
  ASSUME TypeOK, QueueAgrees, download_queue # <<>>, Unqueue(Head(download_queue)),
         download_queue' = Tail(download_queue)
  PROVE  QueueAgrees'
<1> DEFINE rj == Head(download_queue)
<1>1. /\ rj \in RJs /\ work_data' = [work_data EXCEPT ![rj] = {}]
      /\ work_data \in [RJs -> SUBSET Tracks] /\ queued_rj_ids' = queued_rj_ids \ {rj}
      /\ download_queue \in Seq(RJs)
  BY DEF TypeOK, Unqueue
<1>2. \A other \in RJs \ {rj} :
        OnQueue(other, download_queue) => OnQueue(other, download_queue')
  <2> SUFFICES ASSUME NEW other \in RJs \ {rj}, NEW i \in 1..Len(download_queue),
                      download_queue[i] = other
               PROVE  OnQueue(other, download_queue')
    BY DEF OnQueue
  <2>1. i # 1
    BY <1>1
  <2>2. i - 1 \in 1..Len(download_queue') /\ download_queue'[i - 1] = other
    BY <1>1, <2>1
  <2>. QED
    BY <2>2 DEF OnQueue
<1>. QED
  BY <1>1, <1>2 DEF QueueAgrees, OnQueue

LEMMA QueueKept == ASSUME QueueAgrees, UNCHANGED queueVars PROVE QueueAgrees'
  BY DEF QueueAgrees, queueVars

LEMMA CancelAgrees ==
  ASSUME TypeOK, QueueAgrees, NEW rj \in RJs, NEW s, NEW r, CancelWith(rj, s, r)
  PROVE  QueueAgrees'
  BY UnqueueAgrees, QueueKept DEF CancelWith, queueVars

LEMMA SettleAgrees ==
  ASSUME TypeOK, QueueAgrees, NEW rj \in RJs, NEW s, NEW r, NEW listed \in SUBSET Tracks,
         NEW goal, SettleWith(rj, s, r, listed, goal)
  PROVE  QueueAgrees'
<1>1. \/ \E broken : /\ Judged(rj, r, listed, broken, "fetch") # {}
                     /\ Enqueue(rj, Judged(rj, r, listed, broken, "fetch"))
      \/ UNCHANGED queueVars
  BY Zenon DEF SettleWith
<1>2. \A broken : Judged(rj, r, listed, broken, "fetch") \in SUBSET Tracks
  BY DEF Judged
<1>. QED
  BY <1>1, <1>2, EnqueueAgrees, QueueKept

LEMMA QueueWithAgrees ==
  ASSUME TypeOK, QueueAgrees, NEW rj \in RJs, NEW listed \in SUBSET Tracks, NEW goal,
         QueueWith(rj, listed, goal)
  PROVE  QueueAgrees'
<1>1. \/ UNCHANGED queueVars
      \/ CancelWith(rj, "prepared", PreparedRows(rj, listed))
      \/ listed # {} /\ Enqueue(rj, listed)
  BY DEF QueueWith, PauseWith, PrepareRefused
<1>. QED
  BY <1>1, CancelAgrees, EnqueueAgrees, QueueKept

LEMMA ResumeAgrees ==
  ASSUME TypeOK, QueueAgrees, NEW rj \in RJs, NEW s, NEW r, NEW marked, NEW stopped,
         NEW goal, ResumeWith(rj, s, r, marked, stopped, goal)
  PROVE  QueueAgrees'
<1>1. \/ UNCHANGED queueVars
      \/ cache[rj] # None /\ SettleWith(rj, s, r, cache[rj], goal)
  BY DEF ResumeWith, SettleRefused
<1>2. cache[rj] # None => cache[rj] \in SUBSET Tracks
  BY DEF TypeOK
<1>. QED
  BY <1>1, <1>2, SettleAgrees, QueueKept

LEMMA PauseAllAgrees == ASSUME PauseEverything PROVE QueueAgrees'
  BY DEF PauseEverything, QueueAgrees

\* Every step keeps the parts of the queue in agreement.
LEMMA StepQueue == Typed /\ QueueAgrees /\ [Next]_vars => QueueAgrees'
<1> SUFFICES ASSUME Typed, QueueAgrees, [Next]_vars PROVE QueueAgrees'
  OBVIOUS
<1>1. TypeOK /\ \A listed \in Catalogues : listed \in SUBSET Tracks
  BY OrchestratorAssumption DEF OrchestratorAssumption, Typed
<1>2. CASE UNCHANGED vars
  BY <1>2, QueueKept DEF vars, coreVars
<1>3. CASE UserStep
  <2>1. ASSUME NEW rj \in RJs, QueueCached(rj) PROVE QueueAgrees'
    <3>1. cache[rj] \in SUBSET Tracks
      BY <1>1, <2>1 DEF QueueCached, TypeOK
    <3>. QED
      BY <1>1, <2>1, <3>1, QueueWithAgrees DEF QueueCached
  <2>2. ASSUME NEW rj \in RJs, Cancel(rj) PROVE QueueAgrees'
    BY <1>1, <2>2, CancelAgrees DEF Cancel
  <2>3. ASSUME NEW rj \in RJs, Retry(rj) \/ Resume(rj) \/ ReconnectIdle(rj) PROVE QueueAgrees'
    BY <1>1, <2>3, ResumeAgrees DEF Retry, Resume, ReconnectIdle
  <2>4. CASE PauseAll \/ ShutdownBegin
    BY <2>4, PauseAllAgrees DEF PauseAll, ShutdownBegin
  <2>5. ASSUME NEW rj \in RJs,
               \/ QueueAgain(rj) \/ QueueFetching(rj) \/ Pause(rj) \/ ReconnectActive(rj)
               \/ LoseCache(rj) \/ \E t \in Tracks : DeleteFile(rj, t)
        PROVE  QueueAgrees'
    BY <2>5, QueueKept DEF QueueAgain, QueueFetching, Pause, ReconnectActive, PauseWith,
       LoseCache, DeleteFile, coreVars
  <2>6. CASE ResumeAll
    BY <2>6, QueueKept DEF ResumeAll
  <2>. QED
    BY <1>3, <2>1, <2>2, <2>3, <2>4, <2>5, <2>6 DEF UserStep
<1>4. ASSUME NEW rj \in RJs, Answer(rj) PROVE QueueAgrees'
  <2>1. CASE QueueAnswered(rj)
    <3>1. \E listed \in SUBSET Tracks : QueueWith(rj, listed, wish[rj])
      BY <1>1, <2>1 DEF QueueAnswered, TypeOK
    <3>. QED
      BY <1>1, <3>1, QueueWithAgrees
  <2>2. CASE QueueFails(rj) \/ ResumeFails(rj) \/ ReconnectTimesOut(rj)
    BY <2>2, QueueKept DEF QueueFails, ResumeFails, FetchFails, ReconnectTimesOut, coreVars
  <2>5. CASE ResumeAnswerRefused(rj)
    BY <2>5, QueueKept DEF ResumeAnswerRefused, PrepareRefused, SettleRefused
  <2>3. CASE ResumeAnswered(rj)
    <3>1. PICK listed \in SUBSET Tracks :
            \/ UNCHANGED queueVars
            \/ CancelWith(rj, "prepared", PreparedRows(rj, listed))
            \/ SettleWith(rj, "prepared", PreparedRows(rj, listed), listed, wish[rj])
      BY <1>1, <2>3 DEF ResumeAnswered, PauseWith
    <3>. QED
      BY <1>1, <3>1, CancelAgrees, SettleAgrees, QueueKept
  <2>4. CASE ReconnectResumes(rj)
    BY <1>1, <2>4, ResumeAgrees DEF ReconnectResumes
  <2>. QED
    BY <1>4, <2>1, <2>2, <2>3, <2>4, <2>5 DEF Answer
<1>5. CASE BatchWakes \/ Spinning
  BY <1>1, <1>5, ResumeAgrees, QueueKept DEF BatchWakes, Spinning, BatchDone, BatchNext, coreVars
<1>6. ASSUME NEW w \in Workers, WorkerSkips(w) \/ WorkerStarts(w) PROVE QueueAgrees'
  BY <1>1, <1>6, TakenAgrees DEF WorkerSkips, WorkerStarts
<1>7. ASSUME NEW w \in Workers, WorkerReaps(w) \/ WorkerExits(w) \/ TaskStep(w)
      PROVE  QueueAgrees'
  BY <1>7, QueueKept DEF WorkerReaps, WorkerExits, TaskStep, CoverDone, CoverFails,
     TaskCancelled, TaskAnalyses, coreVars
<1>8. ASSUME NEW w \in Workers, NEW t \in Tracks, FileStep(w, t) PROVE QueueAgrees'
  BY <1>8, QueueKept DEF FileStep, FileEnds, FileWrites, FileSucceeds, FileFails,
     FileRetries, FileCancelled
<1>9. CASE ShutdownJoin \/ Boot
  BY <1>9, QueueKept DEF ShutdownJoin, Boot, coreVars
<1>10. CASE ShutdownDone \/ Crash
  BY <1>10 DEF ShutdownDone, Crash, Forget, QueueAgrees
<1>. QED
  BY <1>2, <1>3, <1>4, <1>5, <1>6, <1>7, <1>8, <1>9, <1>10
     DEF Next, Yielding, WorkerStep, ShutdownStep

\* queued_rj_ids, work_data and download_queue agree whatever stops, restarts and
\* duplicates of a work interleave: none is marked queued without an entry that
\* a worker will take and without files to fetch.
THEOREM Queue == Spec => []QueueAgrees
  BY InitTyped, StepTyped, InitQueue, StepQueue, PTL DEF Spec

-----------------------------------------------------------------------------
(* A cancelled work stays stopped.                                          *)

\* What CancelHolds says of one work.
Stopped(rj) ==
  /\ rj \notin queued_rj_ids
  /\ Active(rj) => cancelling[active_tasks[rj]] \/ ~Live(active_tasks[rj])

\* It says so of every cancelled work.
LEMMA CancelHoldsStopped == CancelHolds <=> \A rj \in user_cancelled_rjs : Stopped(rj)
  BY DEF CancelHolds, Stopped

LEMMA InitCancel == Init => CancelHolds
  BY DEF Init, CancelHolds

\* Steps that neither cancel nor start anything keep it.
LEMMA HoldsKept ==
  ASSUME CancelHolds, user_cancelled_rjs' \subseteq user_cancelled_rjs,
         \A rj \in user_cancelled_rjs' : rj \notin queued_rj_ids',
         UNCHANGED <<active_tasks, phase>>, \A w : cancelling[w] => cancelling'[w]
  PROVE  CancelHolds'
  BY DEF CancelHolds, Active, Live

LEMMA StopGrows ==
  ASSUME NEW ws, TypeOK, cancelling' = StopRequested(ws)
  PROVE  \A w \in Workers : cancelling[w] => cancelling'[w]
  BY DEF StopRequested

\* What each command on one work keeps.
LEMMA CancelWithHolds ==
  ASSUME TypeOK, OneTaskPerWork, CancelHolds, NEW rj \in RJs, NEW s, NEW r,
         CancelWith(rj, s, r), UNCHANGED taskVars
  PROVE  CancelHolds'
<1>1. UNCHANGED <<active_tasks, phase>>
  BY DEF taskVars
<1>2. CASE AlreadyTerminal(s, r)
  BY <1>1, <1>2, HoldsKept DEF CancelWith, CancelHolds
<1>3. CASE ~AlreadyTerminal(s, r)
  <2>1. /\ user_cancelled_rjs' = user_cancelled_rjs \union {rj}
        /\ queued_rj_ids' = queued_rj_ids \ {rj}
        /\ cancelling' = StopRequested(TaskOf(rj))
    BY <1>3 DEF CancelWith, Unqueue
  <2>2. \A other \in RJs : Active(other) => active_tasks[other] \in Workers
    BY DEF TypeOK, Active
  <2>3. ASSUME NEW other \in user_cancelled_rjs' PROVE Stopped(other)'
    <3>1. other \in RJs
      BY <2>1 DEF TypeOK
    <3>2. CASE other = rj
      BY <1>1, <2>1, <2>2, <3>1, <3>2 DEF Stopped, StopRequested, TaskOf, Active, Live
    <3>3. CASE other # rj
      BY <1>1, <2>1, <2>2, <2>3, <3>1, <3>3 DEF CancelHolds, Stopped, StopRequested, Active, Live
    <3>. QED
      BY <3>2, <3>3
  <2>. QED
    BY <2>3 DEF CancelHolds, Stopped
<1>. QED
  BY <1>2, <1>3

LEMMA PauseHolds ==
  ASSUME TypeOK, CancelHolds, UNCHANGED taskVars,
         UNCHANGED user_cancelled_rjs, queued_rj_ids' \subseteq queued_rj_ids,
         NEW ws, cancelling' = StopRequested(ws)
  PROVE  CancelHolds'
<1>1. \A rj \in user_cancelled_rjs : rj \in RJs /\ (Active(rj) => active_tasks[rj] \in Workers)
  BY DEF TypeOK, Active
<1>2. \A w \in Workers : cancelling[w] => cancelling'[w]
  BY StopGrows
<1>. QED
  BY <1>1, <1>2 DEF CancelHolds, Active, Live, taskVars

LEMMA SettleHolds ==
  ASSUME CancelHolds, NEW rj, rj \notin user_cancelled_rjs',
         NEW s, NEW r, NEW listed, NEW goal, SettleWith(rj, s, r, listed, goal),
         user_cancelled_rjs' \subseteq user_cancelled_rjs, UNCHANGED <<taskVars, cancelling>>
  PROVE  CancelHolds'
<1>1. queued_rj_ids' \subseteq queued_rj_ids \union {rj}
  BY DEF SettleWith, Enqueue, queueVars
<1>2. UNCHANGED <<active_tasks, phase>>
  BY DEF taskVars
<1>. QED
  BY <1>1, <1>2, HoldsKept DEF CancelHolds

LEMMA QueueWithHolds ==
  ASSUME TypeOK, OneTaskPerWork, CancelHolds, NEW rj \in RJs, NEW listed, NEW goal,
         QueueWith(rj, listed, goal), UNCHANGED taskVars
  PROVE  CancelHolds'
<1>1. CASE CancelWith(rj, "prepared", PreparedRows(rj, listed))
  BY <1>1, CancelWithHolds
<1>2. CASE PauseWith(rj, "prepared", PreparedRows(rj, listed), "stop")
  BY <1>2, PauseHolds DEF PauseWith, queueVars
<1>3. CASE /\ UNCHANGED <<user_cancelled_rjs, cancelling>>
           /\ \/ UNCHANGED queueVars
              \/ rj \notin user_cancelled_rjs /\ Enqueue(rj, listed)
  <2>1. \A other \in user_cancelled_rjs' : other \notin queued_rj_ids'
    BY <1>3 DEF CancelHolds, Enqueue, queueVars
  <2>. QED
    BY <1>3, <2>1, HoldsKept DEF taskVars
<1>. QED
  BY <1>1, <1>2, <1>3 DEF QueueWith, PrepareRefused

LEMMA ResumeHolds ==
  ASSUME CancelHolds, NEW rj, NEW s, NEW r, NEW marked,
         NEW stopped \in SUBSET user_cancelled_rjs, NEW goal,
         ResumeWith(rj, s, r, marked, stopped, goal), UNCHANGED taskVars
  PROVE  CancelHolds'
<1>1. user_cancelled_rjs' = stopped /\ UNCHANGED cancelling
  BY DEF ResumeWith
<1>2. CASE UNCHANGED queueVars
  BY <1>1, <1>2, HoldsKept DEF taskVars, queueVars, CancelHolds
<1>3. CASE ~Refused(rj, s, stopped) /\ SettleWith(rj, s, r, cache[rj], goal)
  BY <1>1, <1>3, SettleHolds DEF Refused
<1>. QED
  BY <1>2, <1>3 DEF ResumeWith, SettleRefused

\* Commands, and the answers they waited for.
LEMMA UserCancel ==
  ASSUME Typed, OneTaskPerWork, CancelHolds, UserStep PROVE CancelHolds'
<1>1. TypeOK /\ UNCHANGED taskVars
  BY UserKeepsTasks DEF Typed
<1>2. ASSUME NEW rj \in RJs, QueueCached(rj) PROVE CancelHolds'
  BY <1>1, <1>2, QueueWithHolds DEF QueueCached
<1>3. ASSUME NEW rj \in RJs, Cancel(rj) PROVE CancelHolds'
  BY <1>1, <1>3, CancelWithHolds DEF Cancel
<1>4. ASSUME NEW rj \in RJs, Retry(rj) \/ Resume(rj) \/ ReconnectIdle(rj) PROVE CancelHolds'
  BY <1>1, <1>4, ResumeHolds DEF Retry, Resume, ReconnectIdle
<1>5. ASSUME NEW rj \in RJs, Pause(rj) \/ ReconnectActive(rj) PROVE CancelHolds'
  BY <1>1, <1>5, PauseHolds DEF Pause, ReconnectActive, PauseWith, queueVars
<1>6. CASE PauseAll \/ ShutdownBegin
  BY <1>1, <1>6, PauseHolds DEF PauseAll, ShutdownBegin, PauseEverything
<1>7. ASSUME NEW rj \in RJs, \/ QueueAgain(rj) \/ QueueFetching(rj) \/ LoseCache(rj)
                             \/ \E t \in Tracks : DeleteFile(rj, t)
      PROVE  CancelHolds'
  <2>1. UNCHANGED <<user_cancelled_rjs, queued_rj_ids, cancelling>>
    BY <1>7 DEF QueueAgain, QueueFetching, LoseCache, DeleteFile, coreVars, queueVars
  <2>. QED
    BY <1>1, <2>1, HoldsKept DEF CancelHolds, taskVars
<1>8. CASE ResumeAll
  <2>1. UNCHANGED <<user_cancelled_rjs, queued_rj_ids, cancelling>>
    BY <1>8 DEF ResumeAll, queueVars
  <2>. QED
    BY <1>1, <2>1, HoldsKept DEF CancelHolds, taskVars
<1>. QED
  BY <1>2, <1>3, <1>4, <1>5, <1>6, <1>7, <1>8 DEF UserStep

LEMMA AnswerCancel ==
  ASSUME Typed, OneTaskPerWork, CancelHolds, NEW rj \in RJs, Answer(rj) PROVE CancelHolds'
<1>1. TypeOK /\ UNCHANGED taskVars
  BY UserKeepsTasks DEF Typed
<1>2. CASE QueueAnswered(rj)
  BY <1>1, <1>2, QueueWithHolds DEF QueueAnswered
<1>3. CASE QueueFails(rj) \/ ResumeFails(rj) \/ ReconnectTimesOut(rj)
  <2>1. UNCHANGED <<user_cancelled_rjs, queued_rj_ids, cancelling>>
    BY <1>3 DEF QueueFails, ResumeFails, FetchFails, ReconnectTimesOut, coreVars, queueVars
  <2>. QED
    BY <1>1, <2>1, HoldsKept DEF CancelHolds, taskVars
<1>4. CASE ResumeAnswered(rj)
  <2>1. PICK listed : LET r == PreparedRows(rj, listed) IN
          \/ UNCHANGED <<queueVars, user_cancelled_rjs, cancelling>>
          \/ CancelWith(rj, "prepared", r)
          \/ PauseWith(rj, "prepared", r, "stop")
          \/ /\ rj \notin user_cancelled_rjs /\ SettleWith(rj, "prepared", r, listed, wish[rj])
             /\ UNCHANGED <<user_cancelled_rjs, cancelling>>
    BY <1>4 DEF ResumeAnswered
  <2>2. CASE UNCHANGED <<queueVars, user_cancelled_rjs, cancelling>>
    BY <1>1, <2>2, HoldsKept DEF CancelHolds, taskVars, queueVars
  <2>3. CASE CancelWith(rj, "prepared", PreparedRows(rj, listed))
    BY <1>1, <2>3, CancelWithHolds
  <2>4. CASE PauseWith(rj, "prepared", PreparedRows(rj, listed), "stop")
    BY <1>1, <2>4, PauseHolds DEF PauseWith, queueVars
  <2>5. CASE /\ rj \notin user_cancelled_rjs
             /\ SettleWith(rj, "prepared", PreparedRows(rj, listed), listed, wish[rj])
             /\ UNCHANGED <<user_cancelled_rjs, cancelling>>
    BY <1>1, <2>5, SettleHolds
  <2>. QED
    BY <2>1, <2>2, <2>3, <2>4, <2>5
<1>6. CASE ResumeAnswerRefused(rj)
  <2>1. UNCHANGED <<queueVars, user_cancelled_rjs, cancelling>>
    BY <1>6 DEF ResumeAnswerRefused, PrepareRefused, SettleRefused
  <2>. QED
    BY <1>1, <2>1, HoldsKept DEF CancelHolds, taskVars, queueVars
<1>5. CASE ReconnectResumes(rj)
  BY <1>1, <1>5, ResumeHolds DEF ReconnectResumes
<1>. QED
  BY <1>2, <1>3, <1>4, <1>5, <1>6 DEF Answer

\* Every step keeps cancelled works stopped.
LEMMA StepCancel ==
  ~SwallowsCancel /\ Typed /\ OneTaskPerWork /\ CancelHolds /\ [Next]_vars => CancelHolds'
<1> SUFFICES ASSUME ~SwallowsCancel, Typed, OneTaskPerWork, CancelHolds, [Next]_vars
             PROVE  CancelHolds'
  OBVIOUS
<1>1. /\ TypeOK /\ user_cancelled_rjs \subseteq RJs /\ None \notin RJs \union Workers
      /\ active_tasks \in [RJs -> Workers \union {None}]
      /\ phase \in [Workers -> {"idle", "cover", "files", "finished", "exited"}]
      /\ cancelling \in [Workers -> BOOLEAN] /\ job \in [Workers -> RJs \union {None}]
  BY OrchestratorAssumption DEF OrchestratorAssumption, Typed, TypeOK
<1>2. \A rj \in user_cancelled_rjs :
        rj \notin queued_rj_ids /\ (Active(rj) =>
          /\ active_tasks[rj] \in Workers /\ job[active_tasks[rj]] = rj
          /\ cancelling[active_tasks[rj]] \/ ~Live(active_tasks[rj]))
  BY <1>1 DEF CancelHolds, Active, OneTaskPerWork
<1>3. ASSUME UNCHANGED <<user_cancelled_rjs, queued_rj_ids, active_tasks, cancelling, phase>>
      PROVE  CancelHolds'
  BY <1>3, HoldsKept DEF CancelHolds
<1>4. CASE UserStep \/ \E rj \in RJs : Answer(rj)
  BY <1>4, UserCancel, AnswerCancel
<1>5. CASE UNCHANGED vars
  BY <1>3, <1>5 DEF vars, coreVars, queueVars, taskVars
<1>6. CASE BatchWakes \/ Spinning
  <2>1. UNCHANGED taskVars
    BY <1>6, UserKeepsTasks
  <2>2. CASE BatchWakes \/ BatchDone
    BY <1>3, <2>1, <2>2 DEF BatchWakes, BatchDone, coreVars, queueVars, taskVars
  <2>3. ASSUME NEW rj \in RJs, BatchNext(rj) PROVE CancelHolds'
    BY <2>1, <2>3, ResumeHolds DEF BatchNext
  <2>. QED
    BY <1>6, <2>2, <2>3 DEF Spinning
<1>7. ASSUME NEW w \in Workers, WorkerSkips(w) PROVE CancelHolds'
  <2>1. /\ UNCHANGED <<user_cancelled_rjs, cancelling, active_tasks, phase>>
        /\ queued_rj_ids' \subseteq queued_rj_ids
    BY <1>7 DEF WorkerSkips, Unqueue, taskVars
  <2>. QED
    BY <2>1, HoldsKept DEF CancelHolds
<1>8. ASSUME NEW w \in Workers, WorkerStarts(w) PROVE CancelHolds'
  <2> DEFINE rj == Head(download_queue)
  <2>1. /\ rj \in queued_rj_ids /\ phase[w] = "idle"
        /\ active_tasks' = [active_tasks EXCEPT ![rj] = w]
        /\ phase' = [phase EXCEPT ![w] = "cover"]
        /\ queued_rj_ids' = queued_rj_ids \ {rj}
        /\ UNCHANGED <<user_cancelled_rjs, cancelling>>
    BY <1>8 DEF WorkerStarts, MayStart, Unqueue
  <2>2. job[w] = None
    BY <2>1 DEF OneTaskPerWork
  <2>3. ASSUME NEW other \in user_cancelled_rjs PROVE Stopped(other)'
    <3>1. other # rj /\ other \in RJs
      BY <1>1, <1>2, <2>1
    <3>2. Active(other) => active_tasks[other] # w
      BY <1>1, <1>2, <2>2, <3>1
    <3>. QED
      BY <1>1, <1>2, <2>1, <3>1, <3>2 DEF Stopped, Active, Live
  <2>. QED
    BY <2>1, <2>3 DEF CancelHolds, Stopped
<1>9. ASSUME NEW w \in Workers, WorkerReaps(w) PROVE CancelHolds'
  <2>1. /\ active_tasks' = [active_tasks EXCEPT ![job[w]] = None]
        /\ phase' = [phase EXCEPT ![w] = AfterTask(w)]
        /\ cancelling' = [cancelling EXCEPT ![w] = FALSE]
        /\ UNCHANGED <<user_cancelled_rjs, queued_rj_ids>>
    BY <1>9 DEF WorkerReaps, queueVars
  <2>2. AfterTask(w) \in {"idle", "exited"}
    BY DEF AfterTask
  <2>3. ASSUME NEW rj \in user_cancelled_rjs PROVE Stopped(rj)'
    BY <1>1, <1>2, <2>1, <2>2 DEF Stopped, Active, Live
  <2>. QED
    BY <2>1, <2>3 DEF CancelHolds, Stopped
<1>10. ASSUME NEW w \in Workers, CoverDone(w) PROVE CancelHolds'
  <2>1. /\ phase[w] = "cover" /\ ~cancelling[w]
        /\ phase' = [phase EXCEPT ![w] = "files"]
        /\ cancelling' = [cancelling EXCEPT ![w] = FALSE]
        /\ UNCHANGED <<user_cancelled_rjs, queued_rj_ids, active_tasks>>
    BY <1>10 DEF CoverDone, queueVars
  <2>2. ASSUME NEW rj \in user_cancelled_rjs PROVE Stopped(rj)'
    BY <1>1, <1>2, <2>1 DEF Stopped, Active, Live
  <2>. QED
    BY <2>1, <2>2 DEF CancelHolds, Stopped
<1>11. ASSUME NEW w \in Workers, \/ CoverFails(w) \/ TaskCancelled(w) \/ TaskAnalyses(w)
                                \/ WorkerExits(w)
       PROVE  CancelHolds'
  <2>1. /\ \E end \in {"finished", "exited"} : phase' = [phase EXCEPT ![w] = end]
        /\ UNCHANGED <<user_cancelled_rjs, queued_rj_ids, active_tasks, cancelling>>
    BY <1>11 DEF CoverFails, TaskCancelled, TaskAnalyses, WorkerExits, coreVars, queueVars
  <2>2. ASSUME NEW rj \in user_cancelled_rjs PROVE Stopped(rj)'
    BY <1>1, <1>2, <2>1 DEF Stopped, Active, Live
  <2>. QED
    BY <2>1, <2>2 DEF CancelHolds, Stopped
<1>12. ASSUME NEW w \in Workers, NEW t \in Tracks, FileStep(w, t) PROVE CancelHolds'
  BY <1>3, <1>12 DEF FileStep, FileEnds, FileWrites, FileSucceeds, FileFails, FileRetries,
     FileCancelled, queueVars, taskVars
<1>13. CASE ShutdownJoin
  <2>1. /\ \A w \in Workers : phase'[w] \in {phase[w], "exited"}
        /\ UNCHANGED <<user_cancelled_rjs, queued_rj_ids, active_tasks, cancelling>>
    BY <1>13 DEF ShutdownJoin, coreVars, queueVars
  <2>2. ASSUME NEW rj \in user_cancelled_rjs PROVE Stopped(rj)'
    BY <1>1, <1>2, <2>1 DEF Stopped, Active, Live
  <2>. QED
    BY <2>1, <2>2 DEF CancelHolds, Stopped
<1>14. CASE ShutdownDone \/ Crash
  BY <1>14 DEF ShutdownDone, Crash, Forget, CancelHolds
<1>15. CASE Boot
  BY <1>3, <1>15 DEF Boot, queueVars, taskVars
<1>. QED
  BY <1>4, <1>5, <1>6, <1>7, <1>8, <1>9, <1>10, <1>11, <1>12, <1>13, <1>14, <1>15
     DEF Next, Yielding, WorkerStep, TaskStep, ShutdownStep

\* A work the user cancelled is neither queued nor downloading until he retries it,
\* however its cancellation falls among metadata requests, covers and transfers,
\* if asyncio.wait_for loses no cancellation (Python 3.12).
THEOREM Cancelled == ASSUME ~SwallowsCancel PROVE Spec => []CancelHolds
  BY InitTyped, StepTyped, InitOneTask, StepOneTask, InitCancel, StepCancel, PTL DEF Spec

-----------------------------------------------------------------------------
(* Files of a cancelled work are not taken up again.                        *)

\* The rows one step may leave behind: the action under CancelledRowsStay.
RowsStay ==
  \A rj \in user_cancelled_rjs \intersect user_cancelled_rjs', t \in Tracks :
    row[rj][t] = "cancelled" =>
      \/ row'[rj][t] \in {"cancelled", "completed"}
      \/ row'[rj][t] = "queued" /\ LeavesHalfPrepared(rj)

\* r keeps what row has of cancelled files.
KeepsCancelled(rj, r) ==
  \A t \in Tracks : row[rj][t] = "cancelled" => r[t] = "cancelled"

\* A step that rewrites one work, with every other row as it was.
LEMMA OneWorkStays ==
  ASSUME TypeOK, NEW rj \in RJs, NEW r, row' = [row EXCEPT ![rj] = r],
         rj \in user_cancelled_rjs \intersect user_cancelled_rjs' =>
           \A t \in Tracks : row[rj][t] = "cancelled" => r[t] \in {"cancelled", "completed"}
  PROVE  RowsStay
  BY DEF TypeOK, RowsStay

\* A pause rewrites rows that are not cancelled.
LEMMA PausedKeeps ==
  ASSUME NEW rj \in RJs PROVE KeepsCancelled(rj, PausedRows(row[rj]))
  BY DEF KeepsCancelled, PausedRows

\* A cancellation that comes after new metadata finds cancelled files queued or
\* complete: it leaves them cancelled or complete.
LEMMA CancelStays ==
  ASSUME TypeOK, NEW rj \in RJs, NEW s, NEW listed,
         NEW r \in {row[rj], PreparedRows(rj, listed)}, CancelWith(rj, s, r)
  PROVE  RowsStay
<1>1. \A t \in Tracks : row[rj][t] = "cancelled" => r[t] \in {"cancelled", "completed", "queued"}
  BY DEF PreparedRows
<1>2. CASE AlreadyTerminal(s, r)
  <2>1. row' = [row EXCEPT ![rj] = r]
    BY <1>2 DEF CancelWith, Write
  <2>2. \A t \in Tracks : row[rj][t] = "cancelled" => r[t] \in {"cancelled", "completed"}
    BY <1>1, <1>2 DEF AlreadyTerminal, Unfinished
  <2>. QED
    BY <2>1, <2>2, OneWorkStays
<1>3. CASE ~AlreadyTerminal(s, r)
  <2>1. row' = [row EXCEPT ![rj] = CancelledRows(r)]
    BY <1>3 DEF CancelWith, Write
  <2>2. \A t \in Tracks :
          row[rj][t] = "cancelled" => CancelledRows(r)[t] \in {"cancelled", "completed"}
    BY <1>1 DEF CancelledRows, Unfinished
  <2>. QED
    BY <2>1, <2>2, OneWorkStays
<1>. QED
  BY <1>2, <1>3

\* A preparation that is refused half-way leaves the row of the refused file alone.
LEMMA PrepareRefusedStays ==
  ASSUME TypeOK, NEW rj \in RJs, NEW listed, NEW goal, PrepareRefused(rj, listed, goal)
  PROVE  RowsStay
<1>1. PICK refused \in listed \intersect FaultyTracks, before \in SUBSET listed :
        refused \notin before /\ Write(rj, "prepared", PreparedRows(rj, before))
  BY DEF PrepareRefused
<1>2. /\ works'[rj] = "prepared" /\ row'[rj] = PreparedRows(rj, before)
      /\ \A other \in RJs \ {rj} : row'[other] = row[other]
  BY <1>1 DEF TypeOK, Write
<1>3. refused \in Tracks /\ row'[rj][refused] = row[rj][refused]
  BY <1>1, <1>2, OrchestratorAssumption DEF OrchestratorAssumption, PreparedRows
<1>4. LeavesHalfPrepared(rj)
  BY <1>1, <1>2, <1>3 DEF LeavesHalfPrepared
<1>5. \A t \in Tracks : row'[rj][t] \in {row[rj][t], "completed", "queued"}
  BY <1>2 DEF PreparedRows
<1>. QED
  BY <1>2, <1>4, <1>5 DEF RowsStay, TypeOK

LEMMA QueueStays ==
  ASSUME TypeOK, NEW rj \in RJs, NEW listed, NEW goal, QueueWith(rj, listed, goal)
  PROVE  RowsStay
<1>1. CASE CancelWith(rj, "prepared", PreparedRows(rj, listed))
  BY <1>1, CancelStays
<1>2. CASE listed = {} /\ Write(rj, "prepared", PreparedRows(rj, listed))
  <2>1. \A t \in Tracks : PreparedRows(rj, listed)[t] = row[rj][t]
    BY <1>2 DEF PreparedRows
  <2>. QED
    BY <1>2, <2>1, OneWorkStays DEF Write
<1>3. CASE rj \notin user_cancelled_rjs /\ \E r : row' = [row EXCEPT ![rj] = r]
  BY <1>3, OneWorkStays
<1>4. CASE PrepareRefused(rj, listed, goal)
  BY <1>4, PrepareRefusedStays
<1>. QED
  BY <1>1, <1>2, <1>3, <1>4 DEF QueueWith, PauseWith, Write

\* A resume is refused to a cancelled work.
LEMMA ResumeStays ==
  ASSUME TypeOK, NEW rj \in RJs, NEW s, NEW r, NEW marked, NEW stopped, NEW goal,
         ResumeWith(rj, s, r, marked, stopped, goal),
         rj \in stopped => KeepsCancelled(rj, r)
  PROVE  RowsStay
<1>1. user_cancelled_rjs' = stopped
  BY DEF ResumeWith
<1>2. CASE row' = [row EXCEPT ![rj] = r]
  BY <1>1, <1>2, OneWorkStays DEF KeepsCancelled
<1>3. CASE ~Refused(rj, s, stopped) /\ \E new : row' = [row EXCEPT ![rj] = new]
  BY <1>1, <1>3, OneWorkStays DEF Refused
<1>. QED
  BY <1>2, <1>3 DEF ResumeWith, SettleWith, SettleRefused, Write

LEMMA PauseAllStays == ASSUME TypeOK, PauseEverything PROVE RowsStay
  BY DEF TypeOK, PauseEverything, PausedRows, RowsStay

LEMMA UserStays == ASSUME Typed, UserStep PROVE RowsStay
<1>1. TypeOK
  BY DEF Typed
<1>2. ASSUME NEW rj \in RJs, QueueCached(rj) PROVE RowsStay
  BY <1>1, <1>2, QueueStays DEF QueueCached
<1>3. ASSUME NEW rj \in RJs, Cancel(rj) PROVE RowsStay
  BY <1>1, <1>3, CancelStays DEF Cancel
<1>4. ASSUME NEW rj \in RJs, Retry(rj) PROVE RowsStay
  BY <1>1, <1>4, ResumeStays DEF Retry
<1>5. ASSUME NEW rj \in RJs, Resume(rj) \/ ReconnectIdle(rj) PROVE RowsStay
  BY <1>1, <1>5, ResumeStays, PausedKeeps DEF Resume, ReconnectIdle, KeepsCancelled
<1>6. ASSUME NEW rj \in RJs, Pause(rj) \/ ReconnectActive(rj) PROVE RowsStay
  BY <1>1, <1>6, OneWorkStays, PausedKeeps
     DEF Pause, ReconnectActive, PauseWith, Write, KeepsCancelled
<1>7. CASE PauseAll \/ ShutdownBegin
  BY <1>1, <1>7, PauseAllStays DEF PauseAll, ShutdownBegin
<1>8. CASE UNCHANGED row
  BY <1>8 DEF RowsStay
<1>. QED
  BY <1>2, <1>3, <1>4, <1>5, <1>6, <1>7, <1>8
     DEF UserStep, QueueAgain, QueueFetching, LoseCache, DeleteFile, ResumeAll, coreVars

LEMMA AnswerStays == ASSUME Typed, NEW rj \in RJs, Answer(rj) PROVE RowsStay
<1>1. TypeOK
  BY DEF Typed
<1>2. CASE QueueAnswered(rj)
  BY <1>1, <1>2, QueueStays DEF QueueAnswered
<1>3. CASE UNCHANGED row
  BY <1>3 DEF RowsStay
<1>4. CASE ResumeAnswered(rj)
  <2>1. PICK listed : LET r == PreparedRows(rj, listed) IN
          \/ listed = {} /\ row' = [row EXCEPT ![rj] = r]
          \/ CancelWith(rj, "prepared", r)
          \/ rj \notin user_cancelled_rjs /\ \E new : row' = [row EXCEPT ![rj] = new]
    BY <1>4 DEF ResumeAnswered, PauseWith, SettleWith, Write
  <2>2. listed = {} => \A t \in Tracks : PreparedRows(rj, listed)[t] = row[rj][t]
    BY DEF PreparedRows
  <2>. QED
    BY <1>1, <2>1, <2>2, CancelStays, OneWorkStays
<1>6. CASE ResumeAnswerRefused(rj)
  <2>1. CASE \E listed : PrepareRefused(rj, listed, wish[rj])
    BY <1>1, <2>1, PrepareRefusedStays
  <2>2. CASE rj \notin user_cancelled_rjs /\ \E new : row' = [row EXCEPT ![rj] = new]
    BY <1>1, <2>2, OneWorkStays
  <2>. QED
    BY <1>6, <2>1, <2>2 DEF ResumeAnswerRefused, SettleRefused, Write
<1>5. CASE ReconnectResumes(rj)
  BY <1>1, <1>5, ResumeStays DEF ReconnectResumes, KeepsCancelled
<1>. QED
  BY <1>2, <1>3, <1>4, <1>5, <1>6
     DEF Answer, QueueFails, ResumeFails, FetchFails, ReconnectTimesOut, coreVars

\* What runs without a stop pending is not the task of a cancelled work.
LEMMA RunningIsWanted ==
  ASSUME Typed, OneTaskPerWork, CancelHolds, NEW w \in Workers, Live(w), ~cancelling[w]
  PROVE  job[w] \in RJs \ user_cancelled_rjs
<1>1. job[w] \in RJs
  <2>1. job[w] # None
    BY DEF OneTaskPerWork, Live
  <2>. QED
    BY <2>1 DEF Typed, TypeOK
<1>2. active_tasks[job[w]] = w /\ w # None
  BY <1>1, OrchestratorAssumption DEF OneTaskPerWork, OrchestratorAssumption
<1>. QED
  BY <1>1, <1>2 DEF CancelHolds, Active

\* Every step keeps the cancelled files of a cancelled work cancelled.
LEMMA StepStays ==
  ~SwallowsCancel /\ Typed /\ OneTaskPerWork /\ CancelHolds /\ [Next]_vars => [RowsStay]_vars
<1> SUFFICES ASSUME ~SwallowsCancel, Typed, OneTaskPerWork, CancelHolds, Next PROVE RowsStay
  OBVIOUS
<1>1. TypeOK
  BY DEF Typed
<1>2. CASE UserStep \/ \E rj \in RJs : Answer(rj)
  BY <1>2, UserStays, AnswerStays
<1>3. CASE UNCHANGED row
  BY <1>3 DEF RowsStay
<1>4. ASSUME NEW rj \in RJs, BatchNext(rj) PROVE RowsStay
  BY <1>1, <1>4, ResumeStays DEF BatchNext, KeepsCancelled
<1>5. ASSUME NEW w \in Workers, Live(w), ~cancelling[w],
             \E r : row' = [row EXCEPT ![job[w]] = r]
      PROVE  RowsStay
  BY <1>1, <1>5, RunningIsWanted, OneWorkStays
<1>6. ASSUME NEW w \in Workers, CoverDone(w) \/ TaskAnalyses(w) PROVE RowsStay
  BY <1>3, <1>5, <1>6 DEF CoverDone, TaskAnalyses, Live
<1>7. ASSUME NEW w \in Workers, NEW t \in Tracks, FileStep(w, t) PROVE RowsStay
  <2>1. CASE FileCancelled(w, t) /\ row' # row
    <3>1. /\ job[w] \in RJs
          /\ row' = [row EXCEPT ![job[w]][t] =
                       IF job[w] \in user_cancelled_rjs THEN "cancelled" ELSE "paused"]
      BY <1>1, <2>1 DEF FileCancelled, RowBecomes, OneTaskPerWork, TypeOK
    <3>. QED
      BY <1>1, <3>1 DEF TypeOK, RowsStay
  <2>2. CASE (FileSucceeds(w, t) \/ FileFails(w, t) \/ FileRetries(w, t)) /\ row' # row
    <3>1. /\ Live(w) /\ ~cancelling[w]
          /\ \E st : row' = [row EXCEPT ![job[w]][t] = st]
      BY <2>2 DEF FileSucceeds, FileFails, FileRetries, Transferring, RowBecomes, Live
    <3>. QED
      BY <1>1, <1>5, <3>1
  <2>. QED
    BY <1>3, <1>7, <2>1, <2>2 DEF FileStep, FileEnds, FileWrites
<1>8. CASE ShutdownDone \/ Crash
  BY <1>8 DEF ShutdownDone, Crash, Forget, RowsStay
<1>9. CASE Boot
  BY <1>1, <1>9 DEF Boot, TypeOK, RowsStay
<1>. QED
  BY <1>2, <1>3, <1>4, <1>6, <1>7, <1>8, <1>9
     DEF Next, Yielding, Spinning, BatchDone, BatchWakes, WorkerStep, WorkerSkips,
         WorkerStarts, WorkerReaps, WorkerExits, TaskStep, CoverFails, TaskCancelled,
         ShutdownStep, ShutdownJoin, coreVars

\* Nothing but retry_cancelled_job takes up a file that the user cancelled in
\* this session, whatever resume, reconnect, queue or start runs meanwhile; it is
\* found complete, or put back to queued by a preparation that the OS refused at
\* another file, of a work that Cancelled above keeps off the queue.
THEOREM CancelledFiles == ASSUME ~SwallowsCancel PROVE Spec => CancelledRowsStay
<1>1. ~SwallowsCancel
  OBVIOUS
<1>. QED
  BY <1>1, InitTyped, StepTyped, InitOneTask, StepOneTask, InitCancel, StepCancel, StepStays, PTL
     DEF Spec, CancelledRowsStay, RowsStay

-----------------------------------------------------------------------------
(* Rows tell what is on disk and what is under transfer.                    *)

Done == {"completed", "registered"}

\* Only tags lengthen a finished file, and only the user takes it away.
WholeSizes(t) == {"final"} \union (IF t \in TaggedTracks THEN {"over"} ELSE {})
                           \union (IF "deleteFile" \in Commands THEN {"none"} ELSE {})

DoneThere ==
  \A rj \in RJs, t \in Tracks : row[rj][t] \in Done => disk[rj][t] \in WholeSizes(t)

\* DoneIsOnDisk, with the sizes a finished file can have, and what it needs of the
\* files of a running task: a finished one is there, and one that a resume found
\* complete meanwhile has its final name.
DoneInv ==
  /\ DoneThere
  /\ \A w \in Workers, t \in Tracks : phase[w] = "files" =>
       /\ file[w][t] = "ok" => disk[job[w]][t] \in WholeSizes(t)
       /\ file[w][t] \in {"try", "backoff"} /\ row[job[w]][t] \in Done
            => disk[job[w]][t] = "final"

\* What r says of the files of rj, row said or the disk shows.
Sober(rj, r) ==
  \A t \in Tracks :
    /\ r[t] \in Done => row[rj][t] \in Done \/ disk[rj][t] = "final"
    /\ r[t] = "downloading" => row[rj][t] = "downloading"
    /\ r[t] = "failed" => row[rj][t] \notin Done

\* A step of a command or an answer: what it calls finished is there, what it leaves
\* downloading is not told to stop, and a finished file that it fails is refused or
\* too long.
RowsTrue ==
  \A rj \in RJs, t \in Tracks :
    /\ disk'[rj][t] \in {disk[rj][t], "final"}
    /\ row'[rj][t] \in Done => row[rj][t] \in Done \/ disk'[rj][t] = "final"
    /\ row'[rj][t] = "downloading" =>
         /\ row[rj][t] = "downloading"
         /\ \A w \in Workers : job[w] = rj => cancelling'[w] = cancelling[w]
    /\ row'[rj][t] = "failed" /\ row[rj][t] \in Done =>
         t \in FaultyTracks \/ disk[rj][t] = "over"

LEMMA InitRows == Init => DownloadingIsRunning /\ DoneInv
  BY DEF Init, DownloadingIsRunning, DoneInv, DoneThere, WholeSizes, Done

\* Such a step keeps both properties.
LEMMA TrueKeeps ==
  ASSUME TypeOK, RowsTrue, UNCHANGED taskVars
  PROVE  /\ (lifecycle' # "down" => lifecycle # "down") /\ DownloadingIsRunning
              => DownloadingIsRunning'
         /\ OneTaskPerWork /\ DoneInv => DoneInv'
<1>1. ASSUME lifecycle' # "down" => lifecycle # "down", DownloadingIsRunning
      PROVE  DownloadingIsRunning'
  BY <1>1 DEF taskVars, DownloadingIsRunning, RowsTrue
<1>2. ASSUME OneTaskPerWork, DoneInv PROVE DoneInv'
  <2>1. DoneThere'
    BY <1>2 DEF DoneInv, DoneThere, WholeSizes, RowsTrue, Done
  <2>2. ASSUME NEW w \in Workers, NEW t \in Tracks, phase[w] = "files"
        PROVE  /\ file[w][t] = "ok" => disk'[job[w]][t] \in WholeSizes(t)
               /\ file[w][t] \in {"try", "backoff"} /\ row'[job[w]][t] \in Done
                    => disk'[job[w]][t] = "final"
    <3>1. job[w] # None
      BY <1>2, <2>2 DEF OneTaskPerWork
    <3>2. job[w] \in RJs
      BY <3>1 DEF TypeOK
    <3>. QED
      BY <1>2, <2>2, <3>2 DEF DoneInv, RowsTrue, WholeSizes
  <2>. QED
    BY <2>1, <2>2 DEF DoneInv, taskVars
<1>. QED
  BY <1>1, <1>2

\* A step that rewrites the rows of one work and stops no other.
LEMMA OneWorkTrue ==
  ASSUME TypeOK, NEW rj \in RJs, NEW r, row' = [row EXCEPT ![rj] = r], Sober(rj, r),
         UNCHANGED disk,
         \/ UNCHANGED cancelling
         \/ /\ \A t \in Tracks : r[t] # "downloading"
            /\ \A w \in Workers : job[w] # rj => cancelling'[w] = cancelling[w]
  PROVE  RowsTrue
  BY DEF TypeOK, RowsTrue, Sober, Done

\* Only the task of the work is told to stop.
LEMMA StopsOne ==
  ASSUME TypeOK, OneTaskPerWork, NEW rj \in RJs, cancelling' = StopRequested(TaskOf(rj))
  PROVE  \A w \in Workers : job[w] # rj => cancelling'[w] = cancelling[w]
<1> SUFFICES ASSUME NEW w \in Workers, job[w] # rj PROVE cancelling'[w] = cancelling[w]
  OBVIOUS
<1>1. w \notin TaskOf(rj)
  BY DEF TaskOf, OneTaskPerWork
<1>. QED
  BY <1>1 DEF StopRequested, TypeOK

\* The rows that preparing, pausing, retrying and cancelling write.
LEMMA RowsSober ==
  ASSUME NEW rj \in RJs
  PROVE  /\ Sober(rj, row[rj])
         /\ Sober(rj, PausedRows(row[rj]))
         /\ Sober(rj, RetriedRows(row[rj]))
         /\ \A listed : Sober(rj, PreparedRows(rj, listed))
  BY DEF Sober, PausedRows, RetriedRows, PreparedRows, Done

LEMMA PauseTrue ==
  ASSUME TypeOK, OneTaskPerWork, NEW rj \in RJs, NEW s, NEW r, NEW goal, Sober(rj, r),
         PauseWith(rj, s, r, goal)
  PROVE  RowsTrue
<1>1. Sober(rj, PausedRows(r)) /\ \A t \in Tracks : PausedRows(r)[t] # "downloading"
  BY DEF Sober, PausedRows, Done
<1>2. \A w \in Workers : job[w] # rj => cancelling'[w] = cancelling[w]
  BY StopsOne DEF PauseWith
<1>3. row' = [row EXCEPT ![rj] = PausedRows(r)] /\ UNCHANGED disk
  BY DEF PauseWith, Write
<1>. QED
  BY <1>1, <1>2, <1>3, OneWorkTrue

LEMMA CancelTrue ==
  ASSUME TypeOK, OneTaskPerWork, NEW rj \in RJs, NEW s, NEW r, Sober(rj, r),
         CancelWith(rj, s, r)
  PROVE  RowsTrue
<1>1. Sober(rj, CancelledRows(r)) /\ \A t \in Tracks : CancelledRows(r)[t] # "downloading"
  BY DEF Sober, CancelledRows, Unfinished, Done
<1>2. CASE row' = [row EXCEPT ![rj] = r] /\ UNCHANGED <<disk, cancelling>>
  BY <1>2, OneWorkTrue
<1>3. CASE /\ row' = [row EXCEPT ![rj] = CancelledRows(r)]
           /\ cancelling' = StopRequested(TaskOf(rj)) /\ UNCHANGED disk
  BY <1>1, <1>3, StopsOne, OneWorkTrue
<1>. QED
  BY <1>2, <1>3 DEF CancelWith, Write

LEMMA PrepareRefusedTrue ==
  ASSUME TypeOK, NEW rj \in RJs, NEW listed, NEW goal, PrepareRefused(rj, listed, goal)
  PROVE  RowsTrue
<1>1. PICK before : row' = [row EXCEPT ![rj] = PreparedRows(rj, before)]
  BY DEF PrepareRefused, Write
<1>2. UNCHANGED <<disk, cancelling>>
  BY DEF PrepareRefused
<1>. QED
  BY <1>1, <1>2, RowsSober, OneWorkTrue

LEMMA QueueTrue ==
  ASSUME TypeOK, OneTaskPerWork, NEW rj \in RJs, NEW listed, NEW goal,
         QueueWith(rj, listed, goal)
  PROVE  RowsTrue
<1> DEFINE r == PreparedRows(rj, listed)
<1>1. Sober(rj, r)
  BY RowsSober
<1>2. CASE CancelWith(rj, "prepared", r)
  BY <1>1, <1>2, CancelTrue
<1>3. CASE PauseWith(rj, "prepared", r, "stop")
  BY <1>1, <1>3, PauseTrue
<1>4. CASE row' = [row EXCEPT ![rj] = r] /\ UNCHANGED <<disk, cancelling>>
  BY <1>1, <1>4, OneWorkTrue
<1>5. CASE PrepareRefused(rj, listed, goal)
  BY <1>5, PrepareRefusedTrue
<1>. QED
  BY <1>2, <1>3, <1>4, <1>5 DEF QueueWith, Write

\* resume_job calls a file complete that it found whole, or has just renamed.
LEMMA SettleTrue ==
  ASSUME TypeOK, NEW rj \in RJs, NEW s, NEW r, NEW listed, NEW goal, Sober(rj, r),
         SettleWith(rj, s, r, listed, goal) \/ SettleRefused(rj, s, r, listed, goal),
         UNCHANGED cancelling
  PROVE  RowsTrue
<1>1. PICK broken, seen :
        /\ broken \in SUBSET FaultyTracks
        /\ row' = [row EXCEPT ![rj] = ReconciledRows(rj, r, seen, broken)]
        /\ disk' = [disk EXCEPT ![rj] = ReconciledDisk(rj, r, seen, broken)]
  BY DEF SettleWith, SettleRefused, Write
<1> DEFINE new(t) == ReconciledRows(rj, r, seen, broken)[t]
<1>2. ASSUME NEW t \in Tracks
      PROVE  /\ disk'[rj][t] \in {disk[rj][t], "final"}
             /\ new(t) \in Done => row[rj][t] \in Done \/ disk'[rj][t] = "final"
             /\ new(t) = "downloading" => row[rj][t] = "downloading"
             /\ new(t) = "failed" /\ row[rj][t] \in Done =>
                  t \in FaultyTracks \/ disk[rj][t] = "over"
  <2>1. disk'[rj][t] = IF t \in Judged(rj, r, seen, broken, "complete")
                       THEN "final" ELSE disk[rj][t]
    BY <1>1 DEF TypeOK, ReconciledDisk
  <2>2. CASE t \notin seen
    BY <2>1, <2>2 DEF ReconciledRows, Sober
  <2>3. CASE t \in seen
    <3>1. new(t) = ReconciledRow(rj, r, t, broken)
      BY <2>3 DEF ReconciledRows
    <3>2. \/ Verdict(rj, r, t, broken) = "skip" /\ r[t] = "cancelled"
          \/ Verdict(rj, r, t, broken) = "fetch"
          \/ /\ Verdict(rj, r, t, broken) = "review"
             /\ t \in FaultyTracks \/ disk[rj][t] = "over"
          \/ Verdict(rj, r, t, broken) = "complete" /\ disk'[rj][t] = "final"
      BY <1>1, <2>1, <2>3 DEF Judged, Verdict, TooLong
    <3>3. \/ new(t) \in {"cancelled", "queued"}
          \/ new(t) = "failed" /\ (t \in FaultyTracks \/ disk[rj][t] = "over")
          \/ new(t) \in {r[t], "completed"} /\ disk'[rj][t] = "final"
      BY <3>1, <3>2 DEF ReconciledRow
    <3>. QED
      BY <2>1, <3>3 DEF Sober, Done
  <2>. QED
    BY <2>2, <2>3
<1>. QED
  BY <1>1, <1>2 DEF TypeOK, RowsTrue, Done

LEMMA ResumeTrue ==
  ASSUME TypeOK, NEW rj \in RJs, NEW s, NEW r, NEW marked, NEW stopped, NEW goal,
         Sober(rj, r), ResumeWith(rj, s, r, marked, stopped, goal)
  PROVE  RowsTrue
<1>1. UNCHANGED cancelling
  BY DEF ResumeWith
<1>2. CASE row' = [row EXCEPT ![rj] = r] /\ UNCHANGED disk
  BY <1>1, <1>2, OneWorkTrue
<1>3. CASE SettleWith(rj, s, r, cache[rj], goal) \/ SettleRefused(rj, s, r, cache[rj], goal)
  BY <1>1, <1>3, SettleTrue
<1>. QED
  BY <1>2, <1>3 DEF ResumeWith, Write

LEMMA PauseAllTrue == ASSUME TypeOK, PauseEverything PROVE RowsTrue
  BY DEF TypeOK, PauseEverything, Pausable, HasRow, PausedRows, RowsTrue, Done

LEMMA UnchangedTrue == UNCHANGED <<row, disk, cancelling>> => RowsTrue
  BY DEF RowsTrue, Done

\* The commands keep the rows true, but the deletion of a file.
LEMMA UserTrue ==
  ASSUME Typed, OneTaskPerWork, UserStep
  PROVE  RowsTrue \/ \E rj \in RJs, t \in Tracks : DeleteFile(rj, t)
<1>1. TypeOK
  BY DEF Typed
<1>2. ASSUME NEW rj \in RJs, QueueCached(rj) PROVE RowsTrue
  BY <1>1, <1>2, QueueTrue DEF QueueCached
<1>3. ASSUME NEW rj \in RJs, Cancel(rj) PROVE RowsTrue
  BY <1>1, <1>3, CancelTrue, RowsSober DEF Cancel
<1>4. ASSUME NEW rj \in RJs, Retry(rj) \/ Resume(rj) \/ ReconnectIdle(rj) PROVE RowsTrue
  BY <1>1, <1>4, ResumeTrue, RowsSober DEF Retry, Resume, ReconnectIdle
<1>5. ASSUME NEW rj \in RJs, Pause(rj) \/ ReconnectActive(rj) PROVE RowsTrue
  BY <1>1, <1>5, PauseTrue, RowsSober DEF Pause, ReconnectActive
<1>6. CASE PauseAll \/ ShutdownBegin
  BY <1>1, <1>6, PauseAllTrue DEF PauseAll, ShutdownBegin
<1>7. CASE UNCHANGED <<row, disk, cancelling>>
  BY <1>7, UnchangedTrue
<1>. QED
  BY <1>2, <1>3, <1>4, <1>5, <1>6, <1>7
     DEF UserStep, QueueAgain, QueueFetching, LoseCache, ResumeAll, coreVars

\* So do the answers to what was suspended.
LEMMA AnswerTrue ==
  ASSUME Typed, OneTaskPerWork, NEW rj \in RJs, Answer(rj) PROVE RowsTrue
<1>1. TypeOK
  BY DEF Typed
<1>2. CASE QueueAnswered(rj)
  BY <1>1, <1>2, QueueTrue DEF QueueAnswered
<1>3. CASE UNCHANGED <<row, disk, cancelling>>
  BY <1>3, UnchangedTrue
<1>4. CASE ResumeAnswered(rj)
  <2>1. PICK listed : LET r == PreparedRows(rj, listed) IN
          \/ Write(rj, "prepared", r) /\ UNCHANGED <<disk, cancelling>>
          \/ CancelWith(rj, "prepared", r)
          \/ PauseWith(rj, "prepared", r, "stop")
          \/ SettleWith(rj, "prepared", r, listed, wish[rj]) /\ UNCHANGED cancelling
    BY <1>4 DEF ResumeAnswered
  <2>2. Sober(rj, PreparedRows(rj, listed))
    BY RowsSober
  <2>. QED
    BY <1>1, <2>1, <2>2, OneWorkTrue, CancelTrue, PauseTrue, SettleTrue DEF Write
<1>6. CASE ResumeAnswerRefused(rj)
  <2>1. PICK listed :
          \/ PrepareRefused(rj, listed, wish[rj])
          \/ /\ SettleRefused(rj, "prepared", PreparedRows(rj, listed), listed, wish[rj])
             /\ UNCHANGED cancelling
    BY <1>6 DEF ResumeAnswerRefused
  <2>. QED
    BY <1>1, <2>1, RowsSober, PrepareRefusedTrue, SettleTrue
<1>5. CASE ReconnectResumes(rj)
  BY <1>1, <1>5, ResumeTrue, RowsSober DEF ReconnectResumes
<1>. QED
  BY <1>2, <1>3, <1>4, <1>5, <1>6
     DEF Answer, QueueFails, ResumeFails, FetchFails, ReconnectTimesOut, coreVars

\* And the loop of resume-all.
LEMMA SpinningTrue == ASSUME Typed, Spinning PROVE RowsTrue
<1>1. ASSUME NEW rj \in RJs, BatchNext(rj) PROVE RowsTrue
  BY <1>1, ResumeTrue, RowsSober DEF BatchNext, Typed
<1>. QED
  BY <1>1, UnchangedTrue DEF Spinning, BatchDone, coreVars

\* The steps of a worker and of its task touch the files of its work only.
LEMMA TaskOwnsRows ==
  ASSUME TypeOK, OneTaskPerWork, NEW w \in Workers, phase[w] \in {"cover", "files", "finished"}
  PROVE  /\ job[w] \in RJs
         /\ \A v \in Workers : job[v] = job[w] => v = w
<1>1. job[w] # None
  BY DEF OneTaskPerWork
<1>2. job[w] \in RJs
  BY <1>1 DEF TypeOK
<1>. QED
  BY <1>2 DEF OneTaskPerWork

\* A transfer step on one file, as far as the rows are concerned.
LEMMA FileRows ==
  ASSUME TypeOK, OneTaskPerWork, NEW w \in Workers, NEW t \in Tracks, FileStep(w, t)
  PROVE  (DownloadingIsRunning => DownloadingIsRunning') /\ (DoneInv => DoneInv')
<1> DEFINE rj == job[w]
<1>1. /\ phase[w] = "files" /\ file[w][t] \in {"try", "backoff"}
      /\ UNCHANGED <<phase, job, cancelling, lifecycle, active_tasks>>
  BY DEF FileStep, FileEnds, FileWrites, FileSucceeds, FileFails, FileRetries, FileCancelled,
     Transferring, taskVars
<1>2. rj \in RJs /\ \A v \in Workers : job[v] = rj => v = w
  BY <1>1, TaskOwnsRows
<1>3. /\ \A v \in Workers, u \in Tracks : v # w \/ u # t => file'[v][u] = file[v][u]
      /\ \A q \in RJs, u \in Tracks : q # rj \/ u # t =>
           row'[q][u] = row[q][u] /\ disk'[q][u] = disk[q][u]
  BY <1>2 DEF TypeOK, FileStep, FileEnds, FileWrites, FileSucceeds, FileFails, FileRetries,
     FileCancelled, FileBecomes, RowBecomes, taskVars
<1>4. \/ /\ disk[rj][t] # "final" /\ UNCHANGED <<row, file>>
         /\ ~cancelling[w]
      \/ /\ disk'[rj][t] \in WholeSizes(t) /\ row'[rj][t] = "completed"
         /\ file'[w][t] = "ok"
      \/ UNCHANGED <<row, disk>> /\ file'[w][t] = "backoff" /\ ~cancelling[w]
      \/ UNCHANGED disk /\ row'[rj][t] \in {"paused", "failed"} /\ file'[w][t] = "fail"
      \/ UNCHANGED disk /\ row'[rj][t] = "downloading" /\ file'[w][t] = "try" /\ ~cancelling[w]
      \/ UNCHANGED disk /\ file'[w][t] = "dead" /\ cancelling[w]
         /\ row'[rj][t] \in {"cancelled", "paused", row[rj][t]}
  <2>1. CASE FileWrites(w, t)
    BY <2>1 DEF FileWrites, taskVars, Transferring
  <2>2. CASE FileSucceeds(w, t)
    BY <1>2, <2>2 DEF TypeOK, FileSucceeds, RowBecomes, FileBecomes, WholeSizes
  <2>3. CASE FileFails(w, t)
    BY <1>2, <2>3 DEF TypeOK, FileFails, RowBecomes, FileBecomes, Transferring
  <2>4. CASE FileRetries(w, t)
    BY <1>2, <2>4 DEF TypeOK, FileRetries, RowBecomes, FileBecomes
  <2>5. CASE FileCancelled(w, t)
    BY <1>2, <2>5 DEF TypeOK, FileCancelled, RowBecomes, FileBecomes
  <2>. QED
    BY <2>1, <2>2, <2>3, <2>4, <2>5 DEF FileStep, FileEnds
<1>5. ASSUME DownloadingIsRunning PROVE DownloadingIsRunning'
  <2> SUFFICES ASSUME lifecycle' # "down", NEW q \in RJs, NEW u \in Tracks,
                      row'[q][u] = "downloading"
               PROVE  \E v \in Workers : /\ job[v] = q /\ phase[v] = "files" /\ ~cancelling[v]
                                         /\ file'[v][u] \in {"try", "backoff"}
    BY <1>1 DEF DownloadingIsRunning
  <2>1. CASE q = rj /\ u = t
    <3>1. row[rj][t] = "downloading" => ~cancelling[w]
      BY <1>1, <1>2, <1>5 DEF DownloadingIsRunning
    <3>. QED
      BY <1>1, <1>4, <2>1, <3>1
  <2>2. CASE q # rj \/ u # t
    <3>1. PICK v \in Workers : /\ job[v] = q /\ phase[v] = "files" /\ ~cancelling[v]
                               /\ file[v][u] \in {"try", "backoff"}
      BY <1>1, <1>3, <1>5, <2>2 DEF DownloadingIsRunning
    <3>. QED
      BY <1>3, <2>2, <3>1
  <2>. QED
    BY <2>1, <2>2
<1>6. ASSUME DoneInv PROVE DoneInv'
  <2>1. row[rj][t] \in Done => disk[rj][t] = "final"
    BY <1>1, <1>6 DEF DoneInv
  <2>2. DoneThere'
    <3> SUFFICES ASSUME NEW q \in RJs, NEW u \in Tracks, row'[q][u] \in Done
                 PROVE  disk'[q][u] \in WholeSizes(u)
      BY DEF DoneThere
    <3>1. CASE q = rj /\ u = t
      BY <1>4, <2>1, <3>1 DEF Done, WholeSizes
    <3>2. CASE q # rj \/ u # t
      BY <1>3, <1>6, <3>2 DEF DoneInv, DoneThere, WholeSizes, Done
    <3>. QED
      BY <3>1, <3>2
  <2>3. ASSUME NEW v \in Workers, NEW u \in Tracks, phase[v] = "files"
        PROVE  /\ file'[v][u] = "ok" => disk'[job[v]][u] \in WholeSizes(u)
               /\ file'[v][u] \in {"try", "backoff"} /\ row'[job[v]][u] \in Done
                    => disk'[job[v]][u] = "final"
    <3>1. CASE v = w /\ u = t
      BY <1>1, <1>4, <2>1, <3>1 DEF Done, WholeSizes
    <3>2. CASE v # w \/ u # t
      <4>1. job[v] \in RJs /\ (job[v] # rj \/ u # t)
        BY <1>2, <2>3, <3>2, TaskOwnsRows
      <4>. QED
        BY <1>3, <1>6, <2>3, <3>2, <4>1 DEF DoneInv
    <3>. QED
      BY <3>1, <3>2
  <2>. QED
    BY <1>1, <2>2, <2>3 DEF DoneInv
<1>. QED
  BY <1>5, <1>6

\* The start of the transfers: the files are examined, the rows follow.
LEMMA CoverRows ==
  ASSUME TypeOK, OneTaskPerWork, NEW w \in Workers, CoverDone(w)
  PROVE  (DownloadingIsRunning => DownloadingIsRunning') /\ (DoneInv => DoneInv')
<1> DEFINE rj == job[w]
<1>1. /\ phase[w] = "cover" /\ phase' = [phase EXCEPT ![w] = "files"]
      /\ cancelling' = [cancelling EXCEPT ![w] = FALSE]
      /\ UNCHANGED <<job, lifecycle>>
  BY DEF CoverDone
<1>2. rj \in RJs /\ \A v \in Workers : job[v] = rj => v = w
  BY <1>1, TaskOwnsRows
<1>3. PICK broken \in SUBSET FaultyTracks : \E unrecorded \in SUBSET broken :
        LET First(t) == IF t \in broken THEN "fail"
                        ELSE IF disk[rj][t] = "final" THEN "ok" ELSE "try"
            Result   == [fail |-> "failed", ok |-> "completed", try |-> "downloading"]
        IN
        /\ file' = [file EXCEPT ![w] =
                      [t \in Tracks |-> IF t \in Targets(w) THEN First(t) ELSE "none"]]
        /\ row' = [row EXCEPT ![rj] =
                      [t \in Tracks |-> IF t \in Targets(w) \ unrecorded
                                        THEN Result[First(t)] ELSE @[t]]]
        /\ disk' = [disk EXCEPT ![rj] =
                      [t \in Tracks |-> IF t \in Targets(w) \ broken /\ @[t] = "over"
                                        THEN "none" ELSE @[t]]]
  BY DEF CoverDone
<1>4. /\ \A v \in Workers : v # w => file'[v] = file[v]
      /\ \A q \in RJs : q # rj => row'[q] = row[q] /\ disk'[q] = disk[q]
  BY <1>2, <1>3 DEF TypeOK
<1>5. ASSUME NEW t \in Tracks
      PROVE  \/ /\ file'[w][t] \in {"none", "fail"} /\ disk'[rj][t] = disk[rj][t]
                /\ row'[rj][t] \in {row[rj][t], "failed"}
             \/ file'[w][t] = "ok" /\ disk'[rj][t] = "final" /\ row'[rj][t] = "completed"
             \/ file'[w][t] = "try" /\ row'[rj][t] = "downloading"
  BY <1>2, <1>3 DEF TypeOK
<1>6. ASSUME DownloadingIsRunning PROVE DownloadingIsRunning'
  <2> SUFFICES ASSUME lifecycle # "down", NEW q \in RJs, NEW t \in Tracks,
                      row'[q][t] = "downloading"
               PROVE  \E v \in Workers :
                        /\ job[v] = q /\ phase'[v] = "files" /\ ~cancelling'[v]
                        /\ file'[v][t] \in {"try", "backoff"}
    BY <1>1 DEF DownloadingIsRunning
  <2>1. CASE q = rj
    <3>1. row[rj][t] # "downloading"
      BY <1>1, <1>2, <1>6 DEF DownloadingIsRunning
    <3>2. file'[w][t] = "try"
      BY <1>5, <2>1, <3>1
    <3>. QED
      BY <1>1, <2>1, <3>2 DEF TypeOK
  <2>2. CASE q # rj
    <3>1. PICK v \in Workers : /\ job[v] = q /\ phase[v] = "files" /\ ~cancelling[v]
                               /\ file[v][t] \in {"try", "backoff"}
      BY <1>4, <1>6, <2>2 DEF DownloadingIsRunning
    <3>. QED
      BY <1>1, <1>4, <2>2, <3>1 DEF TypeOK
  <2>. QED
    BY <2>1, <2>2
<1>7. ASSUME DoneInv PROVE DoneInv'
  <2>1. DoneThere'
    <3> SUFFICES ASSUME NEW q \in RJs, NEW t \in Tracks, row'[q][t] \in Done
                 PROVE  disk'[q][t] \in WholeSizes(t)
      BY DEF DoneThere
    <3>. QED
      BY <1>4, <1>5, <1>7 DEF DoneInv, DoneThere, WholeSizes, Done
  <2>2. ASSUME NEW v \in Workers, NEW t \in Tracks, phase'[v] = "files"
        PROVE  /\ file'[v][t] = "ok" => disk'[job[v]][t] \in WholeSizes(t)
               /\ file'[v][t] \in {"try", "backoff"} /\ row'[job[v]][t] \in Done
                    => disk'[job[v]][t] = "final"
    <3>1. CASE v = w
      BY <1>5, <3>1 DEF Done, WholeSizes
    <3>2. CASE v # w
      <4>1. phase[v] = "files"
        BY <1>1, <2>2, <3>2 DEF TypeOK
      <4>2. job[v] \in RJs /\ job[v] # rj
        BY <1>2, <3>2, <4>1, TaskOwnsRows
      <4>. QED
        BY <1>4, <1>7, <3>2, <4>1, <4>2 DEF DoneInv
    <3>. QED
      BY <3>1, <3>2
  <2>. QED
    BY <1>1, <2>1, <2>2 DEF DoneInv
<1>. QED
  BY <1>6, <1>7

\* The end of a task: no file of it is under transfer any more.
LEMMA TaskEndRows ==
  ASSUME TypeOK, OneTaskPerWork, NEW w \in Workers,
         CoverFails(w) \/ TaskCancelled(w) \/ TaskAnalyses(w)
  PROVE  (DownloadingIsRunning => DownloadingIsRunning') /\ (DoneInv => DoneInv')
<1> DEFINE rj == job[w]
<1>1. /\ phase[w] \in {"cover", "files"} /\ phase' = [phase EXCEPT ![w] = "finished"]
      /\ UNCHANGED <<job, file, disk, cancelling, lifecycle>>
  BY DEF CoverFails, TaskCancelled, TaskAnalyses, coreVars
<1>2. rj \in RJs /\ \A v \in Workers : job[v] = rj => v = w
  BY <1>1, TaskOwnsRows
<1>3. /\ \A q \in RJs : q # rj => row'[q] = row[q]
      /\ \A t \in Tracks : row'[rj][t] # row[rj][t] =>
           phase[w] = "files" /\ file[w][t] = "ok" /\ row'[rj][t] = "registered"
  BY <1>2 DEF TypeOK, CoverFails, TaskCancelled, TaskAnalyses, Succeeded, coreVars
<1>4. ASSUME DownloadingIsRunning PROVE DownloadingIsRunning'
  <2> SUFFICES ASSUME lifecycle # "down", NEW q \in RJs, NEW t \in Tracks,
                      row'[q][t] = "downloading"
               PROVE  \E v \in Workers :
                        /\ job[v] = q /\ phase'[v] = "files" /\ ~cancelling[v]
                        /\ file[v][t] \in {"try", "backoff"}
    BY <1>1 DEF DownloadingIsRunning
  <2>1. PICK v \in Workers : /\ job[v] = q /\ phase[v] = "files" /\ ~cancelling[v]
                             /\ file[v][t] \in {"try", "backoff"}
    <3>1. row[q][t] = "downloading"
      BY <1>3
    <3>. QED
      BY <1>4, <3>1 DEF DownloadingIsRunning
  <2>2. v # w
    BY <2>1 DEF CoverFails, TaskCancelled, TaskAnalyses, Ended, Targets
  <2>. QED
    BY <1>1, <2>1, <2>2 DEF TypeOK
<1>5. ASSUME DoneInv PROVE DoneInv'
  <2>1. DoneThere'
    <3> SUFFICES ASSUME NEW q \in RJs, NEW t \in Tracks, row'[q][t] \in Done
                 PROVE  disk[q][t] \in WholeSizes(t)
      BY <1>1 DEF DoneThere
    <3>. QED
      BY <1>3, <1>5 DEF DoneInv, DoneThere, WholeSizes, Done
  <2>2. ASSUME NEW v \in Workers, NEW t \in Tracks, phase'[v] = "files"
        PROVE  /\ file[v][t] = "ok" => disk[job[v]][t] \in WholeSizes(t)
               /\ file[v][t] \in {"try", "backoff"} /\ row'[job[v]][t] \in Done
                    => disk[job[v]][t] = "final"
    <3>1. v # w /\ phase[v] = "files"
      BY <1>1, <2>2 DEF TypeOK
    <3>2. job[v] \in RJs /\ job[v] # rj
      BY <1>2, <3>1, TaskOwnsRows
    <3>. QED
      BY <1>3, <1>5, <3>1, <3>2 DEF DoneInv
  <2>. QED
    BY <1>1, <2>1, <2>2 DEF DoneInv
<1>. QED
  BY <1>4, <1>5

\* Workers that skip, start, reap or leave touch no row and no running transfer.
LEMMA WorkerRows ==
  ASSUME UNCHANGED <<row, disk>>, lifecycle' # "down" => lifecycle # "down",
         \A w \in Workers :
           \/ phase[w] # "files" /\ phase'[w] # "files"
           \/ phase'[w] = phase[w] /\ job'[w] = job[w] /\ cancelling'[w] = cancelling[w]
                /\ file'[w] = file[w]
  PROVE  (DownloadingIsRunning => DownloadingIsRunning') /\ (DoneInv => DoneInv')
<1>1. ASSUME DownloadingIsRunning PROVE DownloadingIsRunning'
  BY <1>1 DEF DownloadingIsRunning
<1>2. ASSUME DoneInv PROVE DoneInv'
  BY <1>2 DEF DoneInv, DoneThere, WholeSizes
<1>. QED
  BY <1>1, <1>2

\* The end of the process and its next start.
LEMMA LifeRows ==
  ASSUME Typed, OneTaskPerWork, ShutdownDone \/ Crash \/ Boot
  PROVE  (DownloadingIsRunning => DownloadingIsRunning') /\ (DoneInv => DoneInv')
<1>1. TypeOK
  BY DEF Typed
<1>2. CASE Boot
  <2>1. RowsTrue /\ \A rj \in RJs, t \in Tracks : row'[rj][t] # "downloading"
    BY <1>1, <1>2 DEF TypeOK, Boot, RowsTrue, Done
  <2>2. UNCHANGED taskVars
    BY <1>2 DEF Boot
  <2>. QED
    BY <1>1, <2>1, <2>2, TrueKeeps DEF DownloadingIsRunning
<1>3. CASE ShutdownDone \/ Crash
  <2>1. UNCHANGED row /\ \A w \in Workers : phase'[w] = "idle"
    BY <1>3 DEF ShutdownDone, Crash, Forget
  <2>2. CASE ShutdownDone
    <3>1. lifecycle # "down" /\ \A w \in Workers : phase[w] = "exited"
      BY <2>2 DEF ShutdownDone
    <3>2. UNCHANGED disk
      BY <2>2 DEF ShutdownDone
    <3>. QED
      BY <2>1, <3>1, <3>2 DEF DownloadingIsRunning, DoneInv, DoneThere, WholeSizes
  <2>3. CASE Crash
    <3>1. lifecycle' = "down"
      BY <2>3 DEF Crash
    <3>2. ASSUME NEW rj \in RJs, NEW t \in Tracks, disk[rj][t] \in WholeSizes(t)
          PROVE  disk'[rj][t] \in WholeSizes(t)
      <4>1. PICK renamed \in [RJs -> SUBSET Tracks], tagged \in SUBSET TaggedTracks :
              disk' = [q \in RJs |-> [u \in Tracks |->
                         IF u \notin renamed[q] THEN disk[q][u]
                         ELSE IF u \in tagged THEN "over" ELSE "final"]]
        BY <2>3 DEF Crash
      <4>. QED
        BY <3>2, <4>1 DEF WholeSizes
    <3>. QED
      BY <2>1, <3>1, <3>2 DEF DownloadingIsRunning, DoneInv, DoneThere, WholeSizes
  <2>. QED
    BY <1>3, <2>2, <2>3
<1>. QED
  BY <1>2, <1>3

\* Every step keeps the rows true.
LEMMA StepRows ==
  ASSUME Typed, OneTaskPerWork, [Next]_vars
  PROVE  /\ DownloadingIsRunning => DownloadingIsRunning'
         /\ DoneInv => DoneInv'
<1> DEFINE RowsKept == /\ DownloadingIsRunning => DownloadingIsRunning'
                       /\ DoneInv => DoneInv'
<1>1. TypeOK
  BY DEF Typed
<1>2. ASSUME NEW rj \in RJs, Answer(rj) PROVE RowsKept
  <2>1. UNCHANGED taskVars /\ UNCHANGED lifecycle
    BY <1>2, UserKeepsTasks DEF Answer, QueueAnswered, QueueFails, ResumeAnswered,
       ResumeAnswerRefused, ResumeFails, ResumeReturns, ResumeThrows, ReconnectResumes,
       ReconnectTimesOut
  <2>. QED
    BY <1>1, <1>2, <2>1, AnswerTrue, TrueKeeps
<1>3. CASE UserStep
  <2>1. UNCHANGED taskVars
    BY <1>3, UserKeepsTasks
  <2>2. lifecycle = "up"
    BY <1>3 DEF UserStep, QueueAgain, QueueCached, QueueFetching, Pause, Cancel, Retry,
       Resume, ReconnectIdle, ReconnectActive, LoseCache, DeleteFile, PauseAll, ResumeAll,
       ShutdownBegin, May
  <2>3. ASSUME NEW rj \in RJs, NEW t \in Tracks, DeleteFile(rj, t) PROVE RowsKept
    <3>1. /\ UNCHANGED <<row, cancelling>> /\ "deleteFile" \in Commands /\ ~Active(rj)
          /\ \A q \in RJs, u \in Tracks :
               disk'[q][u] = disk[q][u] \/ (q = rj /\ u = t /\ disk'[q][u] = "none")
      BY <1>1, <2>3 DEF TypeOK, DeleteFile, May
    <3>2. \A w \in Workers : job[w] # rj
      BY <3>1, OrchestratorAssumption DEF OrchestratorAssumption, OneTaskPerWork, Active
    <3>3. \A w \in Workers : phase[w] = "files" => job[w] \in RJs
      BY <1>1, TaskOwnsRows
    <3>4. ASSUME DoneInv PROVE DoneInv'
      <4>1. "none" \in WholeSizes(t)
        BY <3>1 DEF WholeSizes
      <4>2. DoneThere'
        BY <3>1, <3>4, <4>1 DEF DoneInv, DoneThere
      <4>3. \A w \in Workers : phase[w] = "files" =>
              \A u \in Tracks : disk'[job[w]][u] = disk[job[w]][u]
        BY <3>1, <3>2, <3>3
      <4>. QED
        BY <2>1, <3>1, <3>4, <4>2, <4>3 DEF DoneInv, taskVars
    <3>. QED
      BY <2>1, <2>2, <3>1, <3>4 DEF DownloadingIsRunning, taskVars
  <2>4. RowsTrue => RowsKept
    BY <1>1, <2>1, <2>2, TrueKeeps
  <2>. QED
    BY <1>3, <2>3, <2>4, UserTrue
<1>4. CASE Spinning \/ BatchWakes
  <2>1. UNCHANGED taskVars /\ UNCHANGED lifecycle
    BY <1>4 DEF Spinning, BatchDone, BatchNext, BatchWakes
  <2>2. RowsTrue
    BY <1>4, SpinningTrue, UnchangedTrue DEF BatchWakes, coreVars
  <2>. QED
    BY <1>1, <2>1, <2>2, TrueKeeps
<1>5. ASSUME NEW w \in Workers, WorkerStep(w) PROVE RowsKept
  <2>1. /\ UNCHANGED <<row, disk, lifecycle>>
        /\ \A v \in Workers :
             \/ phase[v] # "files" /\ phase'[v] # "files"
             \/ /\ phase'[v] = phase[v] /\ job'[v] = job[v]
                /\ cancelling'[v] = cancelling[v] /\ file'[v] = file[v]
    BY <1>1, <1>5 DEF TypeOK, WorkerStep, WorkerSkips, WorkerStarts, WorkerReaps, WorkerExits,
       AfterTask, taskVars, coreVars
  <2>. QED
    BY <1>1, <2>1, WorkerRows
<1>6. ASSUME NEW w \in Workers, TaskStep(w) PROVE RowsKept
  BY <1>1, <1>6, CoverRows, TaskEndRows DEF TaskStep
<1>7. ASSUME NEW w \in Workers, NEW t \in Tracks, FileStep(w, t)
      PROVE  RowsKept
  BY <1>1, <1>7, FileRows
<1>8. CASE ShutdownJoin
  <2>1. /\ UNCHANGED <<row, disk>> /\ lifecycle # "down"
        /\ \A v \in Workers :
             \/ phase[v] # "files" /\ phase'[v] # "files"
             \/ /\ phase'[v] = phase[v] /\ job'[v] = job[v]
                /\ cancelling'[v] = cancelling[v] /\ file'[v] = file[v]
    BY <1>1, <1>8 DEF TypeOK, ShutdownJoin, coreVars
  <2>. QED
    BY <1>1, <2>1, WorkerRows
<1>9. CASE ShutdownDone \/ Crash \/ Boot
  BY <1>9, LifeRows
<1>10. CASE UNCHANGED vars
  <2>1. UNCHANGED taskVars /\ UNCHANGED <<lifecycle, row, disk, cancelling>>
    BY <1>10 DEF vars, coreVars
  <2>. QED
    BY <1>1, <2>1, UnchangedTrue, TrueKeeps
<1>. QED
  BY <1>2, <1>3, <1>4, <1>5, <1>6, <1>7, <1>8, <1>9, <1>10
     DEF Next, Yielding, ShutdownStep

\* What the tables call downloading is under transfer by a task that nothing has
\* stopped, as long as the process lives: no stop, no shutdown and no answer that
\* comes late leaves a row behind.
THEOREM DownloadsRun == Spec => []DownloadingIsRunning
<1>1. Init => DownloadingIsRunning
  BY InitRows
<1>2. Typed /\ OneTaskPerWork /\ DownloadingIsRunning /\ [Next]_vars => DownloadingIsRunning'
  BY StepRows
<1>. QED
  BY <1>1, <1>2, InitTyped, StepTyped, InitOneTask, StepOneTask, PTL DEF Spec

\* What the tables call finished is on disk.  The user can delete a file behind the
\* program's back; nothing else breaks it.
THEOREM DoneStaysOnDisk ==
  ASSUME "deleteFile" \notin Commands
  PROVE  Spec => []DoneIsOnDisk
<1>1. Init => DoneInv
  BY InitRows
<1>2. Typed /\ OneTaskPerWork /\ DoneInv /\ [Next]_vars => DoneInv'
  BY StepRows
<1>3. DoneInv => DoneIsOnDisk
  BY DEF DoneInv, DoneThere, WholeSizes, DoneIsOnDisk, Done
<1>. QED
  BY <1>1, <1>2, <1>3, InitTyped, StepTyped, InitOneTask, StepOneTask, PTL DEF Spec

\* What a step may fail: the action under DoneNeverFails.
NoneFails ==
  \A rj \in RJs, t \in Tracks \ FaultyTracks : row[rj][t] \in Done => row'[rj][t] # "failed"

\* A resume fails what is too long, and only tags make a finished file too long; a
\* transfer fails what is missing, and a finished file is not.
LEMMA StepNeverFails ==
  ASSUME TaggedTracks = {}, Typed, OneTaskPerWork, DoneInv, [Next]_vars
  PROVE  NoneFails
<1>1. TypeOK
  BY DEF Typed
<1>2. CASE RowsTrue
  BY <1>2 DEF RowsTrue, NoneFails, DoneInv, DoneThere, WholeSizes
<1>3. CASE UNCHANGED row
  BY <1>3 DEF NoneFails, Done
<1>4. ASSUME NEW w \in Workers, CoverDone(w) PROVE NoneFails
  <2>1. job[w] \in RJs
    BY <1>1, <1>4, TaskOwnsRows DEF CoverDone
  <2>2. /\ \A q \in RJs : q # job[w] => row'[q] = row[q]
        /\ \A t \in Tracks \ FaultyTracks :
             row'[job[w]][t] \in {row[job[w]][t], "completed", "downloading"}
    BY <1>1, <1>4, <2>1 DEF CoverDone, TypeOK
  <2>. QED
    BY <2>1, <2>2 DEF NoneFails, Done
<1>5. ASSUME NEW w \in Workers, TaskAnalyses(w) PROVE NoneFails
  <2>1. job[w] \in RJs
    BY <1>1, <1>5, TaskOwnsRows DEF TaskAnalyses
  <2>2. CASE row' = [row EXCEPT ![job[w]] =
                      [t \in Tracks |-> IF t \in Succeeded(w) THEN "registered" ELSE @[t]]]
    BY <1>1, <2>1, <2>2 DEF TypeOK, NoneFails, Done
  <2>. QED
    BY <1>3, <1>5, <2>2 DEF TaskAnalyses
<1>6. ASSUME NEW w \in Workers, NEW t \in Tracks, FileStep(w, t) PROVE NoneFails
  <2>1. phase[w] = "files"
    BY <1>6 DEF FileStep, FileEnds, FileWrites, FileSucceeds, FileFails, FileRetries,
       FileCancelled, Transferring
  <2>2. job[w] \in RJs
    BY <1>1, <2>1, TaskOwnsRows
  <2>3. CASE FileFails(w, t) /\ row' # row
    <3>1. CASE RowBecomes(w, t, "paused")
      BY <1>1, <2>2, <3>1 DEF TypeOK, RowBecomes, NoneFails, Done
    <3>2. CASE t \in FaultyTracks /\ RowBecomes(w, t, "failed")
      BY <1>1, <2>2, <3>2 DEF TypeOK, RowBecomes, NoneFails, Done
    <3>3. CASE disk[job[w]][t] \in {"none", "over"} /\ RowBecomes(w, t, "failed")
      <4>1. row[job[w]][t] \notin Done
        BY <2>1, <2>3, <3>3 DEF DoneInv, FileFails, Transferring
      <4>. QED
        BY <1>1, <2>2, <3>3, <4>1 DEF TypeOK, RowBecomes, NoneFails, Done
    <3>. QED
      BY <2>3, <3>1, <3>2, <3>3 DEF FileFails
  <2>4. CASE FileSucceeds(w, t) \/ FileRetries(w, t) \/ FileCancelled(w, t)
    <3>1. ASSUME NEW st, st # "failed", RowBecomes(w, t, st) PROVE NoneFails
      BY <1>1, <2>2, <3>1 DEF TypeOK, RowBecomes, NoneFails, Done
    <3>. QED
      BY <1>3, <2>4, <3>1 DEF FileSucceeds, FileRetries, FileCancelled
  <2>. QED
    BY <1>3, <1>6, <2>3, <2>4 DEF FileStep, FileEnds, FileWrites
<1>7. CASE Boot
  BY <1>1, <1>7 DEF TypeOK, Boot, NoneFails, Done
<1>8. CASE UserStep
  BY <1>2, <1>3, <1>8, UserTrue DEF DeleteFile
<1>9. CASE Spinning \/ \E rj \in RJs : Answer(rj)
  BY <1>2, <1>9, SpinningTrue, AnswerTrue
<1>. QED
  BY <1>3, <1>4, <1>5, <1>6, <1>7, <1>8, <1>9
     DEF Next, Yielding, BatchWakes, WorkerStep, WorkerSkips, WorkerStarts, WorkerReaps,
         WorkerExits, TaskStep, CoverFails, TaskCancelled, ShutdownStep, ShutdownJoin,
         ShutdownDone, Crash, coreVars, vars

\* Without tags no finished file fails but by a refusal of the OS, whatever commands,
\* answers and transfers of the work overlap and whichever files the user deletes.
THEOREM FinishedNeverFails ==
  ASSUME TaggedTracks = {} PROVE Spec => DoneNeverFails
<1>1. Init => DoneInv
  BY InitRows
<1>2. Typed /\ OneTaskPerWork /\ DoneInv /\ [Next]_vars => DoneInv'
  BY StepRows
<1>3. Typed /\ OneTaskPerWork /\ DoneInv /\ [Next]_vars => [NoneFails]_vars
  BY StepNeverFails
<1>. QED
  BY <1>1, <1>2, <1>3, InitTyped, StepTyped, InitOneTask, StepOneTask, PTL
     DEF Spec, DoneNeverFails, NoneFails, Done

-----------------------------------------------------------------------------
(* Commands that overlap nothing else of the same work.                     *)

\* No resume_job is ever suspended: the user resumes all works or none, and either
\* resume-all or the loss of cached metadata is missing.
NothingOverlaps ==
  /\ Commands \intersect {"retry", "resume", "reconnect"} = {}
  /\ ~({"resumeAll", "loseCache"} \subseteq Commands)
  /\ ~AutoResume

\* Resume-all is the only loop, and no operation waits for metadata to resume with.
Prompt ==
  /\ resuming_rj_ids = {} /\ reconnecting = {}
  /\ loop \in {"off", "spin"}
  /\ loop = "spin" => "resumeAll" \in Commands

\* A work is in one place at most: in its metadata request, on the queue or running.
OnePlace(rj) ==
  /\ rj \in preparing_rj_ids => rj \notin queued_rj_ids /\ ~Active(rj)
  /\ rj \in queued_rj_ids => ~Active(rj)

\* What the tables know has a cached track list, unless it was lost.
Listed(rj) ==
  (\/ rj \in queued_rj_ids \union reconnecting \/ Active(rj)
   \/ works[rj] # "none" \/ \E t \in Tracks : row[rj][t] # "none")
    => cache[rj] # None

\* What resume-all is about to resume is in none of the places.
Waits(rj) ==
  /\ cache[rj] # None
  /\ ~Active(rj) /\ rj \notin queued_rj_ids \union preparing_rj_ids

\* Where the works are while nothing overlaps.
Orderly ==
  /\ Prompt
  /\ \A rj \in RJs : OnePlace(rj)
  /\ "loseCache" \notin Commands => \A rj \in RJs : Listed(rj)
  /\ loop = "spin" => \A rj \in batch : Waits(rj)

\* The steps that are left, by the work they are about.
PlainStep(rj) ==
  \/ QueueAgain(rj) \/ QueueCached(rj) \/ QueueFetching(rj) \/ Pause(rj) \/ Cancel(rj)
  \/ LoseCache(rj) \/ (\E t \in Tracks : DeleteFile(rj, t))
  \/ QueueAnswered(rj) \/ QueueFails(rj)

\* A worker takes the entry at the head of the queue.
QueueHead(rj) ==
  /\ download_queue # <<>> /\ rj = Head(download_queue)
  /\ \E w \in Workers : WorkerSkips(w) \/ WorkerStarts(w)

\* A step of the task that the work has.
OwnStep(rj, w) ==
  /\ job[w] = rj /\ active_tasks[rj] = w /\ phase[w] \in {"cover", "files", "finished"}
  /\ WorkerReaps(w) \/ TaskStep(w) \/ \E t \in Tracks : FileStep(w, t)

\* The steps about one work; the turns of resume-all suspend everything else.
WorkStep(rj) ==
  \/ loop # "spin" /\ (PlainStep(rj) \/ QueueHead(rj) \/ \E w \in Workers : OwnStep(rj, w))
  \/ loop = "spin" /\ BatchNext(rj)

\* The steps about all works.
WholeStep ==
  \/ loop # "spin" /\ \/ PauseAll \/ ResumeAll \/ ShutdownBegin \/ ShutdownJoin
                      \/ ShutdownDone \/ Boot \/ (\E w \in Workers : WorkerExits(w))
  \/ BatchDone \/ Crash \/ UNCHANGED vars

\* The steps that resume a work, or wait until it can be resumed.
ResumeStep(rj) ==
  \/ Retry(rj) \/ Resume(rj) \/ ReconnectIdle(rj) \/ ReconnectActive(rj)
  \/ ResumeAnswered(rj) \/ ResumeAnswerRefused(rj) \/ ResumeFails(rj)
  \/ ReconnectResumes(rj) \/ ReconnectTimesOut(rj)

OneStep(rj) == WorkStep(rj) \/ (loop # "spin" /\ ResumeStep(rj))

\* Every step is about one work or about all of them at once.
LEMMA StepsByWork ==
  ASSUME Typed, OneTaskPerWork, [Next]_vars
  PROVE  WholeStep \/ BatchWakes \/ \E rj \in RJs : OneStep(rj)
<1>1. TypeOK
  BY DEF Typed
<1>2. CASE loop # "spin" /\ UserStep
  BY <1>2 DEF UserStep, PlainStep, ResumeStep, WorkStep, OneStep, WholeStep
<1>3. ASSUME loop # "spin", NEW rj \in RJs, Answer(rj) PROVE OneStep(rj)
  BY <1>3 DEF Answer, PlainStep, ResumeStep, WorkStep, OneStep
<1>4. ASSUME loop # "spin", NEW w \in Workers, WorkerSkips(w) \/ WorkerStarts(w)
      PROVE  \E rj \in RJs : WorkStep(rj)
  <2>1. download_queue # <<>> /\ Head(download_queue) \in RJs
    BY <1>1, <1>4 DEF WorkerSkips, WorkerStarts, TypeOK
  <2> QED BY <1>4, <2>1 DEF QueueHead, WorkStep
<1>5. ASSUME loop # "spin", NEW w \in Workers,
             WorkerReaps(w) \/ TaskStep(w) \/ \E t \in Tracks : FileStep(w, t)
      PROVE  \E rj \in RJs : WorkStep(rj)
  <2>1. phase[w] \in {"cover", "files", "finished"}
    BY <1>5 DEF WorkerReaps, TaskStep, CoverDone, CoverFails, TaskCancelled, TaskAnalyses,
       FileStep, FileEnds, FileWrites, FileSucceeds, FileFails, FileRetries, FileCancelled,
       Transferring
  <2>2. job[w] \in RJs
    BY <1>1, <2>1, TaskOwnsRows
  <2>3. active_tasks[job[w]] = w
    BY <2>2 DEF OneTaskPerWork
  <2> QED BY <1>5, <2>1, <2>2, <2>3 DEF OwnStep, WorkStep
<1>6. CASE loop = "spin" /\ Spinning
  BY <1>6 DEF Spinning, WorkStep, OneStep, WholeStep
<1>7. CASE loop # "spin" /\ Yielding
  <2>1. CASE \E w \in Workers : WorkerExits(w)
    BY <1>7, <2>1 DEF WholeStep
  <2>2. CASE ShutdownStep \/ Boot
    BY <1>7, <2>2 DEF ShutdownStep, WholeStep
  <2>3. CASE \E rj \in RJs : WorkStep(rj)
    BY <2>3 DEF OneStep
  <2> QED BY <1>2, <1>3, <1>4, <1>5, <1>7, <2>1, <2>2, <2>3 DEF Yielding, WorkerStep
<1>8. (\E rj \in RJs : WorkStep(rj)) => \E rj \in RJs : OneStep(rj)
  BY DEF OneStep
<1>9. CASE Crash \/ UNCHANGED vars
  BY <1>9 DEF WholeStep
<1> QED BY <1>6, <1>7, <1>8, <1>9 DEF Next

\* Where no resume is ever suspended none of these is about a resume.
LEMMA PromptSteps ==
  ASSUME NothingOverlaps, Typed, OneTaskPerWork, Prompt, [Next]_vars
  PROVE  WholeStep \/ \E rj \in RJs : WorkStep(rj)
<1>1. \A rj \in RJs : ~ResumeStep(rj)
  BY DEF ResumeStep, Retry, Resume, ReconnectIdle, ReconnectActive, May, NothingOverlaps,
     ResumeAnswered, ResumeAnswerRefused, ResumeFails, ReconnectResumes, ReconnectTimesOut, Prompt
<1>2. ~BatchWakes
  BY DEF BatchWakes, Prompt
<1> QED BY <1>1, <1>2, StepsByWork DEF OneStep

\* What a step about another work leaves of this one.
Alone(q) ==
  /\ row'[q] = row[q] /\ works'[q] = works[q] /\ wish'[q] = wish[q] /\ cache'[q] = cache[q]
  /\ q \in queued_rj_ids' <=> q \in queued_rj_ids
  /\ q \in preparing_rj_ids' <=> q \in preparing_rj_ids
  /\ q \in cancelled_rjs' <=> q \in cancelled_rjs
  /\ q \in user_cancelled_rjs' <=> q \in user_cancelled_rjs
  /\ q \in reconnecting' <=> q \in reconnecting
  /\ work_data'[q] = work_data[q] /\ active_tasks'[q] = active_tasks[q]
  /\ Active(q) => /\ phase'[active_tasks[q]] = phase[active_tasks[q]]
                  /\ file'[active_tasks[q]] = file[active_tasks[q]]
                  /\ cancelling'[active_tasks[q]] = cancelling[active_tasks[q]]

\* What the commands on one work change of the tables, the queue and the marks.
WritesOne(rj) ==
  /\ \A q \in RJs \ {rj} :
       /\ row'[q] = row[q] /\ works'[q] = works[q] /\ wish'[q] = wish[q]
       /\ work_data'[q] = work_data[q] /\ (q \in queued_rj_ids' <=> q \in queued_rj_ids)
       /\ q \in cancelled_rjs' <=> q \in cancelled_rjs
       /\ q \in user_cancelled_rjs' <=> q \in user_cancelled_rjs
  /\ UNCHANGED cancelling \/ cancelling' = StopRequested(TaskOf(rj))

\* So does the second half of a resume.
LEMMA SettleWritesOne ==
  ASSUME TypeOK, NEW rj \in RJs, NEW s, NEW r, NEW listed, NEW goal,
         SettleWith(rj, s, r, listed, goal) \/ SettleRefused(rj, s, r, listed, goal),
         UNCHANGED cancelling,
         cancelled_rjs' \ {rj} = cancelled_rjs \ {rj},
         user_cancelled_rjs' \ {rj} = user_cancelled_rjs \ {rj}
  PROVE  WritesOne(rj)
<1>1. /\ \E r1 : row' = [row EXCEPT ![rj] = r1]
      /\ \E s1 : works' = [works EXCEPT ![rj] = s1]
      /\ wish' = [wish EXCEPT ![rj] = goal]
      /\ queued_rj_ids' \in {queued_rj_ids, queued_rj_ids \union {rj}}
      /\ \E targets : work_data' \in {work_data, [work_data EXCEPT ![rj] = targets]}
  BY DEF SettleWith, SettleRefused, Write, Wish, Enqueue, queueVars
<1> QED BY <1>1 DEF TypeOK, WritesOne

\* And a preparation that the OS refuses.
LEMMA PrepareRefusedWritesOne ==
  ASSUME TypeOK, NEW rj \in RJs, NEW listed, NEW goal, PrepareRefused(rj, listed, goal)
  PROVE  WritesOne(rj)
<1>1. /\ \E r1 : row' = [row EXCEPT ![rj] = r1]
      /\ works' = [works EXCEPT ![rj] = "prepared"]
      /\ wish' = [wish EXCEPT ![rj] = goal]
      /\ UNCHANGED <<queueVars, cancelled_rjs, user_cancelled_rjs, cancelling>>
  BY DEF PrepareRefused, Write, Wish
<1> QED BY <1>1 DEF TypeOK, queueVars, WritesOne

\* The commands' shared endings write the tables of the work they were given.
LEMMA CommandWritesOne ==
  ASSUME TypeOK, NEW rj \in RJs, NEW s, NEW r, NEW listed, NEW goal,
         \/ QueueWith(rj, listed, goal)
         \/ PauseWith(rj, s, r, goal)
         \/ CancelWith(rj, s, r)
  PROVE  WritesOne(rj)
<1>1. ASSUME NEW a, NEW b, CancelWith(rj, a, b) PROVE WritesOne(rj)
  BY <1>1 DEF TypeOK, CancelWith, Write, Wish, Unqueue, WritesOne
<1>2. ASSUME NEW a, NEW b, NEW g, PauseWith(rj, a, b, g) PROVE WritesOne(rj)
  BY <1>2 DEF TypeOK, PauseWith, Write, Wish, queueVars, WritesOne
<1>3. CASE QueueWith(rj, listed, goal)
  <2>1. CASE /\ Write(rj, "prepared", PreparedRows(rj, listed)) /\ Wish(rj, goal)
             /\ Enqueue(rj, listed) \/ UNCHANGED queueVars
             /\ UNCHANGED <<cancelled_rjs, user_cancelled_rjs, cancelling>>
    BY <2>1 DEF TypeOK, Write, Wish, Enqueue, queueVars, WritesOne
  <2>2. CASE PrepareRefused(rj, listed, goal)
    BY <2>2, PrepareRefusedWritesOne
  <2> QED BY <1>1, <1>2, <1>3, <2>1, <2>2 DEF QueueWith
<1> QED BY <1>1, <1>2, <1>3

\* So does a resume, with the marks that its caller takes off or puts on.
LEMMA ResumeWritesOne ==
  ASSUME TypeOK, NEW rj \in RJs, NEW s, NEW r, NEW goal,
         NEW marked, NEW stopped, ResumeWith(rj, s, r, marked, stopped, goal),
         \/ marked = cancelled_rjs \/ marked = cancelled_rjs \union {rj}
         \/ marked = cancelled_rjs \ {rj},
         stopped = user_cancelled_rjs \/ stopped = user_cancelled_rjs \ {rj}
  PROVE  WritesOne(rj)
<1>1. /\ user_cancelled_rjs' = stopped /\ UNCHANGED cancelling
      /\ cancelled_rjs' \in {marked, marked \ {rj}}
  BY DEF ResumeWith
<1>2. /\ cancelled_rjs' \ {rj} = cancelled_rjs \ {rj}
      /\ user_cancelled_rjs' \ {rj} = user_cancelled_rjs \ {rj}
  BY <1>1
<1>3. CASE SettleWith(rj, s, r, cache[rj], goal) \/ SettleRefused(rj, s, r, cache[rj], goal)
  BY <1>1, <1>2, <1>3, SettleWritesOne
<1>4. CASE Write(rj, s, r) /\ UNCHANGED queueVars /\ \E g : Wish(rj, g)
  BY <1>1, <1>2, <1>4 DEF TypeOK, Write, Wish, queueVars, WritesOne
<1> QED BY <1>3, <1>4 DEF ResumeWith

\* A task is stopped by the command on its own work.
LEMMA WritesOneAlone ==
  ASSUME TypeOK, OneTaskPerWork, NEW rj \in RJs, NEW q \in RJs \ {rj}, WritesOne(rj),
         UNCHANGED taskVars, cache'[q] = cache[q],
         q \in preparing_rj_ids' <=> q \in preparing_rj_ids,
         q \in reconnecting' <=> q \in reconnecting
  PROVE  Alone(q)
<1>1. ASSUME Active(q) PROVE cancelling'[active_tasks[q]] = cancelling[active_tasks[q]]
  <2>1. active_tasks[q] \in Workers /\ job[active_tasks[q]] # rj
    BY <1>1 DEF TypeOK, OneTaskPerWork, Active
  <2> QED BY <2>1, StopsOne DEF WritesOne
<1> QED BY <1>1 DEF WritesOne, Alone, taskVars

\* A step about one work leaves the others alone.
LEMMA WorkStepAlone ==
  ASSUME TypeOK, OneTaskPerWork, NEW rj \in RJs, WorkStep(rj), NEW q \in RJs \ {rj}
  PROVE  Alone(q)
<1>1. CASE PlainStep(rj)
  <2>1. /\ UNCHANGED <<taskVars, reconnecting>>
        /\ q \in preparing_rj_ids' <=> q \in preparing_rj_ids
    BY <1>1 DEF PlainStep, QueueAgain, QueueCached, QueueFetching, Pause, Cancel, LoseCache,
       DeleteFile, QueueAnswered, QueueFails, opVars
  <2>2. cache'[q] = cache[q]
    BY <1>1 DEF TypeOK, PlainStep, QueueAgain, QueueCached, QueueFetching, Pause, Cancel,
       LoseCache, DeleteFile, QueueAnswered, QueueFails, FetchFails
  <2>3. CASE QueueCached(rj) \/ Pause(rj) \/ Cancel(rj) \/ QueueAnswered(rj)
    <3>1. WritesOne(rj)
      BY <2>3, CommandWritesOne DEF QueueCached, Pause, Cancel, QueueAnswered
    <3> QED BY <2>1, <2>2, <3>1, WritesOneAlone
  <2>4. CASE ~(QueueCached(rj) \/ Pause(rj) \/ Cancel(rj) \/ QueueAnswered(rj))
    <3>1. WritesOne(rj)
      BY <1>1, <2>4 DEF TypeOK, PlainStep, QueueAgain, QueueFetching, LoseCache, DeleteFile,
         QueueFails, FetchFails, Wish, Updated, coreVars, queueVars, WritesOne
    <3> QED BY <2>1, <2>2, <3>1, WritesOneAlone
  <2> QED BY <2>3, <2>4
<1>2. CASE BatchNext(rj)
  <2>1. WritesOne(rj)
    BY <1>2, ResumeWritesOne DEF BatchNext
  <2> QED BY <1>2, <2>1, WritesOneAlone DEF BatchNext
<1>3. CASE QueueHead(rj)
  <2>1. PICK w \in Workers : WorkerSkips(w) \/ WorkerStarts(w)
    BY <1>3 DEF QueueHead
  <2>2. Active(q) => active_tasks[q] # w
    BY <2>1, OrchestratorAssumption
       DEF OrchestratorAssumption, OneTaskPerWork, WorkerSkips, WorkerStarts, Active
  <2> QED
    BY <1>3, <2>1, <2>2 DEF TypeOK, QueueHead, WorkerSkips, WorkerStarts, Unqueue, opVars, taskVars,
       Active, Alone
<1>4. ASSUME NEW w \in Workers, OwnStep(rj, w) PROVE Alone(q)
  <2>1. Active(q) => active_tasks[q] # w
    BY <1>4 DEF OneTaskPerWork, OwnStep, Active
  <2>2. CASE WorkerReaps(w)
    BY <1>4, <2>1, <2>2 DEF TypeOK, OwnStep, WorkerReaps, queueVars, opVars, Active, Alone
  <2>3. CASE TaskStep(w)
    BY <1>4, <2>1, <2>3 DEF TypeOK, OwnStep, TaskStep, CoverDone, CoverFails, TaskCancelled,
       TaskAnalyses, coreVars, queueVars, opVars, Active, Alone
  <2>4. ASSUME NEW t \in Tracks, FileStep(w, t) PROVE Alone(q)
    <3>1. /\ UNCHANGED <<queueVars, cancelled_rjs, user_cancelled_rjs, cancelling, works, wish,
                         active_tasks, phase, opVars, cache>>
          /\ \E f : file' \in {file, [file EXCEPT ![w][t] = f]}
          /\ \E st : row' \in {row, [row EXCEPT ![rj][t] = st]}
      BY <1>4, <2>4 DEF OwnStep, FileStep, FileEnds, FileWrites, FileSucceeds, FileFails, FileRetries,
         FileCancelled, FileBecomes, RowBecomes, taskVars
    <3>2. row'[q] = row[q] /\ \A v \in Workers \ {w} : file'[v] = file[v]
      BY <3>1 DEF TypeOK
    <3> QED BY <2>1, <3>1, <3>2 DEF TypeOK, queueVars, opVars, Active, Alone
  <2> QED BY <1>4, <2>2, <2>3, <2>4 DEF OwnStep
<1> QED BY <1>1, <1>2, <1>3, <1>4 DEF WorkStep

\* So does a step of a resume.
LEMMA ResumeStepAlone ==
  ASSUME TypeOK, OneTaskPerWork, NEW rj \in RJs, ResumeStep(rj), NEW q \in RJs \ {rj}
  PROVE  Alone(q)
<1>1. /\ UNCHANGED <<taskVars, preparing_rj_ids>> /\ cache'[q] = cache[q]
      /\ q \in reconnecting' <=> q \in reconnecting
  BY DEF TypeOK, ResumeStep, Retry, Resume, ReconnectIdle, ReconnectActive, ResumeAnswered,
     ResumeAnswerRefused, ResumeFails, ResumeReturns, ResumeThrows, FetchFails,
     ReconnectResumes, ReconnectTimesOut
<1>2. CASE Retry(rj) \/ Resume(rj) \/ ReconnectIdle(rj) \/ ReconnectResumes(rj)
  <2>1. Retry(rj) => WritesOne(rj)
    BY ResumeWritesOne DEF Retry
  <2>2. Resume(rj) => WritesOne(rj)
    BY ResumeWritesOne DEF Resume
  <2>3. ReconnectIdle(rj) => WritesOne(rj)
    BY ResumeWritesOne DEF ReconnectIdle
  <2>4. ReconnectResumes(rj) => WritesOne(rj)
    BY ResumeWritesOne DEF ReconnectResumes
  <2> QED BY <1>1, <1>2, <2>1, <2>2, <2>3, <2>4, WritesOneAlone
<1>3. CASE ReconnectActive(rj)
  <2>1. WritesOne(rj)
    BY <1>3, CommandWritesOne DEF ReconnectActive
  <2> QED BY <1>1, <2>1, WritesOneAlone
<1>4. CASE ResumeAnswered(rj)
  <2>1. CASE \E s, r, goal : CancelWith(rj, s, r) \/ PauseWith(rj, s, r, goal)
    <3>1. WritesOne(rj)
      BY <2>1, CommandWritesOne
    <3> QED BY <1>1, <3>1, WritesOneAlone
  <2>2. CASE /\ \E s, r, listed, goal : SettleWith(rj, s, r, listed, goal)
             /\ UNCHANGED <<cancelled_rjs, user_cancelled_rjs, cancelling>>
    <3>1. WritesOne(rj)
      BY <2>2, SettleWritesOne
    <3> QED BY <1>1, <3>1, WritesOneAlone
  <2>3. CASE /\ \E s, r : Write(rj, s, r)
             /\ UNCHANGED <<queueVars, cancelled_rjs, user_cancelled_rjs, cancelling, wish>>
    <3>1. WritesOne(rj)
      BY <2>3 DEF TypeOK, Write, queueVars, WritesOne
    <3> QED BY <1>1, <3>1, WritesOneAlone
  <2> QED BY <1>4, <2>1, <2>2, <2>3 DEF ResumeAnswered
<1>6. CASE ResumeAnswerRefused(rj)
  <2>1. CASE \E listed : PrepareRefused(rj, listed, wish[rj])
    <3>1. WritesOne(rj)
      BY <2>1, PrepareRefusedWritesOne
    <3> QED BY <1>1, <3>1, WritesOneAlone
  <2>2. CASE /\ \E s, r, listed, goal : SettleRefused(rj, s, r, listed, goal)
             /\ UNCHANGED <<cancelled_rjs, user_cancelled_rjs, cancelling>>
    <3>1. WritesOne(rj)
      BY <2>2, SettleWritesOne
    <3> QED BY <1>1, <3>1, WritesOneAlone
  <2> QED BY <1>6, <2>1, <2>2 DEF ResumeAnswerRefused
<1>5. CASE ResumeFails(rj) \/ ReconnectTimesOut(rj)
  <2>1. WritesOne(rj)
    BY <1>5 DEF TypeOK, ResumeFails, FetchFails, ReconnectTimesOut, Updated, coreVars, queueVars,
       WritesOne
  <2> QED BY <1>1, <2>1, WritesOneAlone
<1> QED BY <1>2, <1>3, <1>4, <1>5, <1>6 DEF ResumeStep

\* Whatever one step does about a work, the others are left alone.
LEMMA OneStepAlone ==
  ASSUME TypeOK, OneTaskPerWork, NEW rj \in RJs, OneStep(rj), NEW q \in RJs \ {rj}
  PROVE  Alone(q)
  BY WorkStepAlone, ResumeStepAlone DEF OneStep

\* Workers and transfers touch no suspended operation.
LEMMA RunnersKeep ==
  ASSUME NEW rj \in RJs, QueueHead(rj) \/ \E w \in Workers : OwnStep(rj, w)
  PROVE  UNCHANGED <<loopVars, opVars, cache, user_cancelled_rjs, wish>>
<1>1. CASE QueueHead(rj)
  BY <1>1 DEF QueueHead, WorkerSkips, WorkerStarts
<1>2. ASSUME NEW w \in Workers, WorkerReaps(w) \/ TaskStep(w)
      PROVE  UNCHANGED <<loopVars, opVars, cache, user_cancelled_rjs, wish>>
  BY <1>2 DEF WorkerReaps, TaskStep, CoverDone, CoverFails, TaskCancelled, TaskAnalyses, coreVars
<1>3. ASSUME NEW w \in Workers, NEW t \in Tracks, FileStep(w, t)
      PROVE  UNCHANGED <<loopVars, opVars, cache, user_cancelled_rjs, wish>>
  BY <1>3 DEF FileStep, FileEnds, FileWrites, FileSucceeds, FileFails, FileRetries, FileCancelled
<1> QED BY <1>1, <1>2, <1>3 DEF OwnStep

\* A work that a step leaves alone stays where it was.
LEMMA AloneKeeps ==
  ASSUME NEW q \in RJs, Alone(q)
  PROVE  /\ OnePlace(q) => OnePlace(q)'
         /\ Listed(q) => Listed(q)'
         /\ Waits(q) => Waits(q)'
  BY DEF Alone, OnePlace, Listed, Waits, Active

\* What a work is in after a step about it.
LEMMA OwnPlace ==
  ASSUME Typed, OneTaskPerWork, Orderly, NEW rj \in RJs, WorkStep(rj)
  PROVE  OnePlace(rj)'
<1>1. TypeOK /\ OnePlace(rj)
  BY DEF Typed, Orderly
<1>2. CASE PlainStep(rj)
  <2>1. UNCHANGED active_tasks
    BY <1>2 DEF PlainStep, QueueAgain, QueueCached, QueueFetching, Pause, Cancel, LoseCache,
       DeleteFile, QueueAnswered, QueueFails, taskVars
  <2>2. CASE QueueCached(rj)
    BY <1>1, <2>1, <2>2 DEF QueueCached, OnePlace, Active, opVars
  <2>3. CASE QueueAnswered(rj)
    BY <1>1, <2>1, <2>3 DEF QueueAnswered, OnePlace, Active
  <2>4. CASE QueueFetching(rj)
    BY <1>1, <2>1, <2>4 DEF QueueFetching, OnePlace, Active, Busy, queueVars
  <2>5. CASE Cancel(rj)
    BY <1>1, <2>1, <2>5 DEF Cancel, CancelWith, Unqueue, OnePlace, Active, opVars
  <2>6. CASE Pause(rj)
    BY <1>1, <2>1, <2>6 DEF Pause, PauseWith, OnePlace, Active, opVars, queueVars
  <2>7. CASE QueueAgain(rj) \/ LoseCache(rj) \/ QueueFails(rj) \/ \E t \in Tracks : DeleteFile(rj, t)
    BY <1>1, <2>1, <2>7 DEF QueueAgain, LoseCache, DeleteFile, QueueFails, FetchFails, OnePlace,
       Active, opVars, queueVars, coreVars
  <2> QED BY <1>2, <2>2, <2>3, <2>4, <2>5, <2>6, <2>7 DEF PlainStep
<1>3. CASE loop = "spin" /\ BatchNext(rj)
  <2>1. ~Active(rj) /\ rj \notin preparing_rj_ids
    BY <1>3 DEF BatchNext, Orderly, Waits
  <2> QED BY <1>3, <2>1 DEF BatchNext, OnePlace, Active, taskVars
<1>4. CASE QueueHead(rj)
  BY <1>1, <1>4 DEF TypeOK, QueueHead, WorkerSkips, WorkerStarts, Unqueue, MayStart, OnePlace, Active,
     opVars, taskVars
<1>5. ASSUME NEW w \in Workers, OwnStep(rj, w) PROVE OnePlace(rj)'
  <2>1. UNCHANGED <<queued_rj_ids, preparing_rj_ids>>
    BY <1>5 DEF OwnStep, WorkerReaps, TaskStep, CoverDone, CoverFails, TaskCancelled, TaskAnalyses,
       FileStep, FileEnds, FileWrites, FileSucceeds, FileFails, FileRetries, FileCancelled,
       coreVars, queueVars, opVars
  <2>2. Active(rj)
    BY <1>5, OrchestratorAssumption DEF OrchestratorAssumption, OwnStep, Active
  <2> QED BY <1>1, <2>1, <2>2 DEF OnePlace
<1> QED BY <1>2, <1>3, <1>4, <1>5 DEF WorkStep

\* A work that is not listed gets no place, status or row that its list does not give.
LEMMA OwnListed ==
  ASSUME Typed, "loseCache" \notin Commands, NEW rj \in RJs, Listed(rj), OneStep(rj)
  PROVE  Listed(rj)'
<1>1. TypeOK /\ \A listed \in Catalogues : listed # None
  BY OrchestratorAssumption DEF OrchestratorAssumption, Typed
<1>2. CASE cache'[rj] # None
  BY <1>2 DEF Listed
<1>3. CASE cache'[rj] = None
  <2>1. /\ ~QueueCached(rj) /\ ~QueueAnswered(rj) /\ ~LoseCache(rj)
        /\ ~ResumeAnswered(rj) /\ ~ResumeAnswerRefused(rj)
    BY <1>1, <1>3 DEF TypeOK, QueueCached, QueueAnswered, LoseCache, May, ResumeAnswered,
       ResumeAnswerRefused
  <2>2. cache[rj] = None
    <3>1. CASE \/ QueueAgain(rj) \/ QueueFetching(rj) \/ Pause(rj) \/ Cancel(rj) \/ QueueFails(rj)
               \/ (\E t \in Tracks : DeleteFile(rj, t)) \/ BatchNext(rj)
      BY <1>1, <1>3, <3>1 DEF TypeOK, QueueAgain, QueueFetching, Pause, Cancel, DeleteFile,
         QueueFails, FetchFails, BatchNext
    <3>2. CASE QueueHead(rj) \/ \E w \in Workers : OwnStep(rj, w)
      BY <1>3, <3>2, RunnersKeep
    <3>3. CASE ResumeStep(rj)
      BY <1>1, <1>3, <2>1, <3>3 DEF TypeOK, ResumeStep, Retry, Resume, ReconnectIdle, ReconnectActive,
         ResumeFails, FetchFails, ReconnectResumes, ReconnectTimesOut
    <3> QED BY <2>1, <3>1, <3>2, <3>3 DEF OneStep, WorkStep, PlainStep
  <2>3. /\ rj \notin queued_rj_ids \union reconnecting /\ ~Active(rj)
        /\ works[rj] = "none" /\ \A t \in Tracks : row[rj][t] = "none"
    BY <2>2 DEF Listed
  <2>4. CASE QueueHead(rj)
    <3>1. rj \notin queued_rj_ids' /\ ~Active(rj)'
      BY <2>3, <2>4 DEF QueueHead, WorkerSkips, WorkerStarts, MayStart, Unqueue, Active, taskVars
    <3>2. UNCHANGED <<works, row, reconnecting>>
      BY <2>4 DEF QueueHead, WorkerSkips, WorkerStarts, opVars
    <3> QED BY <2>3, <3>1, <3>2 DEF Listed
  <2>5. ASSUME NEW w \in Workers, OwnStep(rj, w) PROVE FALSE
    BY <2>3, <2>5, OrchestratorAssumption DEF OrchestratorAssumption, OwnStep, Active
  <2>6. CASE PlainStep(rj)
    <3>1. UNCHANGED <<active_tasks, reconnecting>>
      BY <2>6 DEF PlainStep, QueueAgain, QueueCached, QueueFetching, Pause, Cancel, LoseCache,
         DeleteFile, QueueAnswered, QueueFails, taskVars, opVars
    <3>2. CASE Pause(rj)
      <4>1. /\ UNCHANGED queued_rj_ids /\ works'[rj] = PausedWork(works[rj])
            /\ row'[rj] = PausedRows(row[rj])
        BY <1>1, <3>2 DEF TypeOK, Pause, PauseWith, Write, queueVars
      <4> QED BY <2>3, <3>1, <4>1 DEF PausedWork, Updated, PausedRows, Listed, Active
    <3>3. CASE Cancel(rj)
      <4>1. /\ rj \notin queued_rj_ids'
            /\ works'[rj] \in {works[rj], Updated(works[rj], "cancelled")}
            /\ row'[rj] \in {row[rj], CancelledRows(row[rj])}
        BY <1>1, <2>3, <3>3 DEF TypeOK, Cancel, CancelWith, Write, Unqueue
      <4>2. \A t \in Tracks : CancelledRows(row[rj])[t] = "none"
        BY <2>3 DEF CancelledRows, Unfinished
      <4> QED BY <2>3, <3>1, <4>1, <4>2 DEF Updated, Listed, Active
    <3>4. CASE \/ QueueAgain(rj) \/ QueueFetching(rj) \/ QueueFails(rj)
               \/ \E t \in Tracks : DeleteFile(rj, t)
      <4>1. UNCHANGED <<queued_rj_ids, row>> /\ works'[rj] \in {works[rj], Updated(works[rj], "metadata_failed")}
        BY <1>1, <3>4 DEF TypeOK, QueueAgain, QueueFetching, QueueFails, FetchFails, DeleteFile,
           coreVars, queueVars
      <4> QED BY <2>3, <3>1, <4>1 DEF Updated, Listed, Active
    <3> QED BY <2>1, <2>6, <3>2, <3>3, <3>4 DEF PlainStep
  <2>7. CASE BatchNext(rj)
    <3>1. /\ UNCHANGED <<active_tasks, reconnecting, queued_rj_ids>>
          /\ works'[rj] = works[rj] /\ row'[rj] = row[rj]
      BY <1>1, <2>2, <2>7 DEF TypeOK, BatchNext, ResumeWith, Write, queueVars, taskVars
    <3> QED BY <2>3, <3>1 DEF Listed, Active
  <2>8. CASE ResumeStep(rj)
    <3>1. ~Retry(rj) /\ ~Resume(rj) /\ ~ReconnectIdle(rj) /\ ~ReconnectActive(rj)
          /\ ~ReconnectResumes(rj) /\ ~ReconnectTimesOut(rj)
      BY <2>3 DEF Retry, Resume, ReconnectIdle, ReconnectActive, Known, HasRow, ReconnectResumes,
         ReconnectTimesOut
    <3>2. ResumeFails(rj)
      BY <2>1, <2>8, <3>1 DEF ResumeStep
    <3>3. /\ UNCHANGED <<active_tasks, reconnecting, queued_rj_ids, row>>
          /\ works'[rj] \in {works[rj], Updated(works[rj], "metadata_failed")}
      BY <1>1, <3>2 DEF TypeOK, ResumeFails, ResumeReturns, FetchFails, queueVars, taskVars
    <3> QED BY <2>3, <3>3 DEF Updated, Listed, Active
  <2> QED BY <2>1, <2>4, <2>5, <2>6, <2>7, <2>8 DEF OneStep, WorkStep
<1> QED BY <1>2, <1>3

\* Steps about all works add no work to the tables.
LEMMA WholeListed ==
  ASSUME Typed, WholeStep \/ BatchWakes, NEW rj \in RJs, Listed(rj)
  PROVE  Listed(rj)'
<1>1. TypeOK
  BY DEF Typed
<1>2. CASE ShutdownDone \/ Crash
  <2>1. Forget /\ UNCHANGED <<row, works, cache>>
    BY <1>2 DEF ShutdownDone, Crash
  <2> QED BY <2>1 DEF Forget, Listed, Active
<1>3. CASE PauseAll \/ ShutdownBegin
  <2>1. PauseEverything /\ UNCHANGED <<active_tasks, reconnecting, cache>>
    BY <1>3 DEF PauseAll, ShutdownBegin, taskVars, opVars
  <2>2. /\ queued_rj_ids' = {}
        /\ works'[rj] \in {works[rj], PausedWork(works[rj])}
        /\ \A t \in Tracks : row'[rj][t] # "none" => row[rj][t] # "none"
    BY <1>1, <2>1 DEF TypeOK, PauseEverything, PausedRows
  <2> QED BY <2>1, <2>2 DEF PausedWork, Updated, Listed, Active
<1>4. CASE Boot
  <2>1. /\ UNCHANGED <<active_tasks, queued_rj_ids, reconnecting, cache>>
        /\ works'[rj] # "none" => works[rj] # "none"
        /\ \A t \in Tracks : row'[rj][t] # "none" => row[rj][t] # "none"
    BY <1>1, <1>4 DEF TypeOK, Boot, queueVars, taskVars, opVars
  <2> QED BY <2>1 DEF Listed, Active
<1>5. CASE \/ ResumeAll \/ BatchDone \/ BatchWakes \/ ShutdownJoin
           \/ (\E w \in Workers : WorkerExits(w)) \/ UNCHANGED vars
  <2>1. UNCHANGED <<active_tasks, queued_rj_ids, reconnecting, works, row, cache>>
    BY <1>5 DEF ResumeAll, BatchDone, BatchWakes, ShutdownJoin, WorkerExits, vars, coreVars, queueVars,
       taskVars, opVars
  <2> QED BY <2>1 DEF Listed, Active
<1> QED BY <1>2, <1>3, <1>4, <1>5 DEF WholeStep

\* As long as no cached list is lost, every work that the tables know has one.
LEMMA StepListed ==
  ASSUME "loseCache" \notin Commands, Typed, OneTaskPerWork, \A rj \in RJs : Listed(rj), [Next]_vars
  PROVE  \A rj \in RJs : Listed(rj)'
<1>1. ASSUME NEW rj \in RJs, OneStep(rj) PROVE \A q \in RJs : Listed(q)'
  BY <1>1, OwnListed, OneStepAlone, AloneKeeps DEF Typed
<1> QED BY <1>1, WholeListed, StepsByWork

\* The turns of resume-all do not suspend.
LEMMA OwnPrompt ==
  ASSUME NothingOverlaps, Typed, Orderly, NEW rj \in RJs, WorkStep(rj)
  PROVE  /\ Prompt' /\ loop' = loop
         /\ loop = "spin" => batch' = batch \ {rj}
<1>1. CASE loop # "spin"
  <2>1. CASE PlainStep(rj)
    BY <1>1, <2>1 DEF Orderly, Prompt, PlainStep, QueueAgain, QueueCached, QueueFetching, Pause,
       Cancel, LoseCache, DeleteFile, QueueAnswered, QueueFails, loopVars, opVars
  <2>2. CASE QueueHead(rj) \/ \E w \in Workers : OwnStep(rj, w)
    <3>1. UNCHANGED <<loop, resuming_rj_ids, reconnecting>>
      BY <2>2, RunnersKeep DEF loopVars, opVars
    <3> QED BY <1>1, <3>1 DEF Orderly, Prompt
  <2> QED BY <1>1, <2>1, <2>2 DEF WorkStep
<1>2. CASE loop = "spin"
  <2>1. BatchNext(rj) /\ cache[rj] # None
    BY <1>2 DEF WorkStep, BatchNext, Orderly, Waits
  <2>2. ~Suspends(rj, works[rj], user_cancelled_rjs)
    BY <2>1 DEF Suspends
  <2>3. resuming_rj_ids' = resuming_rj_ids
    BY <2>1, <2>2 DEF BatchNext, ResumeWith
  <2> QED BY <1>2, <2>1, <2>2, <2>3 DEF NothingOverlaps, BatchNext, BatchThrows, Orderly, Prompt
<1> QED BY <1>1, <1>2

\* Nor do the steps about all works start anything.
LEMMA WholeOrder ==
  ASSUME NothingOverlaps, Typed, OneTaskPerWork, Orderly, WholeStep
  PROVE  /\ Prompt' /\ \A rj \in RJs : OnePlace(rj)'
         /\ loop' = "spin" => \A rj \in batch' : Waits(rj)'
<1>1. TypeOK /\ Prompt
  BY DEF Typed, Orderly
<1>2. CASE ResumeAll
  <2>1. loop' = "spin" /\ batch' = Restorable /\ "resumeAll" \in Commands
        /\ UNCHANGED <<active_tasks, queued_rj_ids, cache, preparing_rj_ids, resuming_rj_ids,
                       reconnecting>>
    BY <1>2 DEF ResumeAll, May, queueVars, taskVars, opVars
  <2>2. "loseCache" \notin Commands
    BY <2>1 DEF NothingOverlaps
  <2>3. ASSUME NEW rj \in Restorable PROVE Waits(rj)
    <3>1. \E t \in Tracks : row[rj][t] # "none"
      BY DEF Restorable, HasRow, Unfinished
    <3> QED BY <2>2, <3>1 DEF Orderly, Restorable, Listed, Waits, Busy
  <2> QED BY <1>1, <2>1, <2>3 DEF Orderly, Prompt, OnePlace, Waits, Active
<1>3. CASE ShutdownDone \/ Crash
  <2>1. Forget
    BY <1>3 DEF ShutdownDone, Crash
  <2> QED BY <2>1 DEF Forget, Prompt, OnePlace, Active
<1>4. CASE PauseAll \/ ShutdownBegin
  <2>1. /\ queued_rj_ids' = {}
        /\ UNCHANGED <<active_tasks, loop, batch, preparing_rj_ids, resuming_rj_ids, reconnecting,
                       cache>>
    BY <1>4 DEF PauseAll, ShutdownBegin, PauseEverything, taskVars, loopVars, opVars
  <2> QED BY <1>1, <2>1 DEF Orderly, Prompt, OnePlace, Waits, Active
<1>5. CASE \/ Boot \/ BatchDone \/ ShutdownJoin \/ (\E w \in Workers : WorkerExits(w))
           \/ UNCHANGED vars
  <2>1. /\ UNCHANGED <<active_tasks, queued_rj_ids, preparing_rj_ids, resuming_rj_ids, reconnecting,
                       cache, batch>>
        /\ loop' \in {loop, "off"}
    BY <1>1, <1>5 DEF TypeOK, Boot, BatchDone, ShutdownJoin, WorkerExits, NothingOverlaps, vars,
       coreVars, queueVars, taskVars, loopVars, opVars
  <2> QED BY <1>1, <2>1 DEF Orderly, Prompt, OnePlace, Waits, Active
<1> QED BY <1>2, <1>3, <1>4, <1>5 DEF WholeStep

\* At the start every work is in no place at all.
LEMMA InitOrder == Init => Orderly
  BY DEF Init, Orderly, Prompt, OnePlace, Listed, Active

\* A work's own steps keep it in one place, and move no other.
LEMMA StepOrder ==
  ASSUME NothingOverlaps, Typed, OneTaskPerWork, Orderly, [Next]_vars
  PROVE  Orderly'
<1>1. TypeOK /\ Prompt
  BY DEF Typed, Orderly
<1>2. "loseCache" \notin Commands => \A rj \in RJs : Listed(rj)'
  BY StepListed DEF Orderly
<1>3. CASE WholeStep
  BY <1>2, <1>3, WholeOrder DEF Orderly
<1>4. ASSUME NEW rj \in RJs, WorkStep(rj) PROVE Orderly'
  <2>1. Prompt' /\ loop' = loop /\ (loop = "spin" => batch' = batch \ {rj})
    BY <1>4, OwnPrompt
  <2>2. \A q \in RJs \ {rj} : Alone(q)
    BY <1>1, <1>4, WorkStepAlone
  <2>3. OnePlace(rj)'
    BY <1>4, OwnPlace
  <2>4. ASSUME loop = "spin", NEW q \in batch \ {rj} PROVE Waits(q)'
    BY <1>1, <2>2, <2>4, AloneKeeps DEF Orderly, TypeOK
  <2> QED BY <1>2, <2>1, <2>2, <2>3, <2>4, AloneKeeps DEF Orderly
<1> QED BY <1>1, <1>3, <1>4, PromptSteps

-----------------------------------------------------------------------------
(* What runs is wanted.                                                     *)

\* A task of the work goes on.
Going(rj) ==
  Active(rj) /\ Live(active_tasks[rj]) /\ ~cancelling[active_tasks[rj]]

\* Everything of the work that leads to a transfer without another word of the user.
HeardOf(rj) ==
  /\ Going(rj) => wish[rj] = "run"
  /\ rj \in queued_rj_ids \ cancelled_rjs => wish[rj] = "run"
  /\ rj \in preparing_rj_ids \ (cancelled_rjs \union user_cancelled_rjs) => wish[rj] = "run"

\* An entry of a work that the user has not cancelled is the only one of a queued
\* work: a pause is not forgotten with an older entry.
EntryOf(rj) ==
  rj \notin user_cancelled_rjs =>
    \A i, j \in 1..Len(download_queue) :
      download_queue[i] = rj /\ download_queue[j] = rj => i = j /\ rj \in queued_rj_ids

\* Resume-all would refuse the work, or the user wants it.
Wanted(rj) == rj \in user_cancelled_rjs \/ works[rj] = "cancelled" \/ wish[rj] = "run"

\* What every work, its entries and the rest of resume-all's batch lead to is wanted.
Heard ==
  /\ \A rj \in RJs : HeardOf(rj) /\ EntryOf(rj)
  /\ loop = "spin" => \A rj \in batch : Wanted(rj)

\* A live worker's task is the task of the work that it has.
LEMMA HeardRuns == Typed /\ OneTaskPerWork /\ Heard => RunsOnlyWanted
<1> SUFFICES ASSUME Typed, OneTaskPerWork, Heard, NEW w \in Workers, Live(w), ~cancelling[w]
             PROVE  wish[job[w]] = "run"
  BY DEF RunsOnlyWanted
<1>1. job[w] \in RJs
  BY TaskOwnsRows DEF Typed, Live
<1>2. active_tasks[job[w]] = w /\ w # None
  BY <1>1, OrchestratorAssumption DEF OrchestratorAssumption, OneTaskPerWork
<1> QED BY <1>1, <1>2 DEF Heard, HeardOf, Going, Active

\* What the user wants of a work survives the steps about other works.
LEMMA AloneHears ==
  ASSUME NEW q \in RJs, Alone(q)
  PROVE  (HeardOf(q) => HeardOf(q)') /\ (Wanted(q) => Wanted(q)')
  BY DEF Alone, HeardOf, Wanted, Going, Active, Live

\* The entries of the queue as one step changes them.
QueueMoves(rj) ==
  \/ download_queue' = download_queue
  \/ download_queue' = Append(download_queue, rj)
  \/ /\ download_queue # <<>> /\ Head(download_queue) = rj
     /\ download_queue' = Tail(download_queue)

\* An entry of another work comes or goes; this work's only shift.
LEMMA OtherEntries ==
  ASSUME TypeOK, NEW rj \in RJs, QueueMoves(rj), NEW q \in RJs \ {rj}, Alone(q), EntryOf(q)
  PROVE  EntryOf(q)'
<1>1. download_queue \in Seq(RJs)
  BY DEF TypeOK
<1>2. CASE download_queue' = download_queue
  BY <1>2 DEF EntryOf, Alone
<1>3. CASE download_queue' = Append(download_queue, rj)
  <2>1. \A i \in 1..Len(download_queue') : download_queue'[i] = q =>
          i \in 1..Len(download_queue) /\ download_queue[i] = q
    BY <1>1, <1>3
  <2> QED BY <2>1 DEF EntryOf, Alone
<1>4. CASE download_queue # <<>> /\ download_queue' = Tail(download_queue)
  <2>1. \A i \in 1..Len(download_queue') :
          i + 1 \in 1..Len(download_queue) /\ download_queue[i + 1] = download_queue'[i]
    BY <1>1, <1>4
  <2>2. \A i, j \in 1..Len(download_queue') : i + 1 = j + 1 => i = j
    OBVIOUS
  <2> QED BY <2>1, <2>2 DEF EntryOf, Alone
<1> QED BY <1>2, <1>3, <1>4 DEF QueueMoves

\* The only entry of a work goes with its mark, and comes with it.
LEMMA EnqueuedEntry ==
  ASSUME TypeOK, NEW rj \in RJs, EntryOf(rj), rj \notin queued_rj_ids \union user_cancelled_rjs,
         NEW targets, Enqueue(rj, targets)
  PROVE  EntryOf(rj)'
<1>1. download_queue \in Seq(RJs) /\ download_queue' = Append(download_queue, rj)
      /\ rj \in queued_rj_ids'
  BY DEF TypeOK, Enqueue
<1>2. \A i \in 1..Len(download_queue) : download_queue[i] # rj
  BY DEF EntryOf
<1>3. \A i \in 1..Len(download_queue') : download_queue'[i] = rj => i = Len(download_queue) + 1
  BY <1>1, <1>2
<1> QED BY <1>1, <1>3 DEF EntryOf

\* When the only entry of a work is taken there is none.
LEMMA TakenEntry ==
  ASSUME TypeOK, NEW rj \in RJs, EntryOf(rj), download_queue # <<>>, Head(download_queue) = rj,
         download_queue' = Tail(download_queue), UNCHANGED user_cancelled_rjs
  PROVE  EntryOf(rj)'
<1>1. download_queue \in Seq(RJs)
  BY DEF TypeOK
<1>2. /\ 1 \in 1..Len(download_queue) /\ download_queue[1] = rj
      /\ \A i \in 1..Len(download_queue') :
           i + 1 \in 1..Len(download_queue) /\ download_queue[i + 1] = download_queue'[i] /\ i + 1 # 1
  BY <1>1
<1> QED BY <1>2 DEF EntryOf

\* Where the queue does not change, its marks may go with a cancellation.
LEMMA KeptEntry ==
  ASSUME NEW rj \in RJs, EntryOf(rj), UNCHANGED download_queue,
         rj \in user_cancelled_rjs => rj \in user_cancelled_rjs',
         rj \in queued_rj_ids => rj \in queued_rj_ids' \/ rj \in user_cancelled_rjs'
  PROVE  EntryOf(rj)'
  BY DEF EntryOf

\* A work is queued for the user that asked for it, or not at all.
LEMMA QueueWithHeard ==
  ASSUME TypeOK, NEW rj \in RJs, NEW listed, NEW goal, QueueWith(rj, listed, goal),
         UNCHANGED <<active_tasks, phase>>, ~Active(rj), rj \notin queued_rj_ids,
         rj \notin preparing_rj_ids',
         rj \notin cancelled_rjs \union user_cancelled_rjs => goal = "run", EntryOf(rj)
  PROVE  HeardOf(rj)' /\ EntryOf(rj)' /\ QueueMoves(rj)
<1>1. ~Going(rj)'
  BY DEF Going, Active
<1>2. CASE CancelWith(rj, "prepared", PreparedRows(rj, listed))
  <2>1. rj \notin queued_rj_ids' /\ UNCHANGED download_queue
        /\ (rj \in user_cancelled_rjs => rj \in user_cancelled_rjs')
    BY <1>2 DEF CancelWith, Unqueue
  <2> QED BY <1>1, <2>1, KeptEntry DEF HeardOf, QueueMoves
<1>3. CASE UNCHANGED <<queueVars, user_cancelled_rjs>>
  <2>1. UNCHANGED <<download_queue, queued_rj_ids, user_cancelled_rjs>>
    BY <1>3 DEF queueVars
  <2> QED BY <1>1, <2>1, KeptEntry DEF HeardOf, QueueMoves
<1>5. PrepareRefused(rj, listed, goal) => UNCHANGED <<queueVars, user_cancelled_rjs>>
  BY DEF PrepareRefused
<1>4. CASE /\ rj \notin cancelled_rjs \union user_cancelled_rjs
           /\ Enqueue(rj, listed) /\ Wish(rj, goal)
  <2>1. wish'[rj] = "run" /\ QueueMoves(rj)
    BY <1>4 DEF TypeOK, Wish, Enqueue, QueueMoves
  <2>2. EntryOf(rj)'
    BY <1>4, EnqueuedEntry
  <2> QED BY <1>1, <2>1, <2>2 DEF HeardOf
<1> QED BY <1>2, <1>3, <1>4, <1>5 DEF QueueWith, PauseWith

\* A pause or a cancellation takes all of it back.
LEMMA StopHeard ==
  ASSUME TypeOK, OneTaskPerWork, NEW rj \in RJs, OnePlace(rj), HeardOf(rj), EntryOf(rj),
         UNCHANGED <<active_tasks, phase, preparing_rj_ids>>,
         \/ \E s, r, goal : PauseWith(rj, s, r, goal)
         \/ \E s, r : CancelWith(rj, s, r)
  PROVE  HeardOf(rj)' /\ EntryOf(rj)' /\ QueueMoves(rj)
<1>1. Active(rj) => active_tasks[rj] \in Workers
  BY DEF TypeOK, Active
<1>2. ASSUME cancelling' = StopRequested(TaskOf(rj)) PROVE ~Going(rj)'
  BY <1>1, <1>2 DEF Going, Active, Live, StopRequested, TaskOf
<1>3. ASSUME NEW s, NEW r, NEW goal, PauseWith(rj, s, r, goal)
      PROVE  HeardOf(rj)' /\ EntryOf(rj)' /\ QueueMoves(rj)
  <2>1. /\ UNCHANGED <<download_queue, queued_rj_ids, user_cancelled_rjs>>
        /\ cancelled_rjs' = IF Active(rj) THEN cancelled_rjs ELSE cancelled_rjs \union {rj}
        /\ ~Going(rj)'
    BY <1>2, <1>3 DEF PauseWith, queueVars
  <2>2. EntryOf(rj)' /\ QueueMoves(rj)
    BY <2>1, KeptEntry DEF QueueMoves
  <2> QED BY <2>1, <2>2 DEF OnePlace, HeardOf
<1>4. ASSUME NEW s, NEW r, CancelWith(rj, s, r)
      PROVE  HeardOf(rj)' /\ EntryOf(rj)' /\ QueueMoves(rj)
  <2>1. CASE AlreadyTerminal(s, r)
    <3>1. UNCHANGED <<download_queue, queued_rj_ids, user_cancelled_rjs, cancelled_rjs, cancelling,
                      wish>>
      BY <1>4, <2>1 DEF CancelWith
    <3>2. EntryOf(rj)' /\ QueueMoves(rj)
      BY <3>1, KeptEntry DEF QueueMoves
    <3> QED BY <3>1, <3>2 DEF HeardOf, Going, Active, Live
  <2>2. CASE ~AlreadyTerminal(s, r)
    <3>1. /\ UNCHANGED download_queue /\ rj \notin queued_rj_ids'
          /\ rj \in user_cancelled_rjs' /\ ~Going(rj)'
      BY <1>2, <1>4, <2>2 DEF CancelWith, Unqueue
    <3> QED BY <3>1, KeptEntry DEF HeardOf, QueueMoves
  <2> QED BY <2>1, <2>2
<1> QED BY <1>3, <1>4

\* Resume-all acts for a user who still wants what it was told.
LEMMA BatchHeard ==
  ASSUME Typed, OneTaskPerWork, Orderly, Heard, NEW rj \in RJs, loop = "spin", BatchNext(rj)
  PROVE  HeardOf(rj)' /\ EntryOf(rj)' /\ QueueMoves(rj)
<1>1. /\ ~Active(rj) /\ rj \notin queued_rj_ids \union preparing_rj_ids /\ resuming_rj_ids = {}
      /\ EntryOf(rj) /\ Wanted(rj) /\ TypeOK
  BY DEF Typed, BatchNext, Orderly, Prompt, Waits, Heard
<1>2. /\ UNCHANGED <<active_tasks, preparing_rj_ids, user_cancelled_rjs>>
      /\ ResumeWith(rj, works[rj], row[rj], cancelled_rjs, user_cancelled_rjs, wish[rj])
  BY DEF BatchNext, taskVars, ResumeWith
<1>3. CASE UNCHANGED queueVars
  <2>1. UNCHANGED <<download_queue, queued_rj_ids>>
    BY <1>3 DEF queueVars
  <2> QED BY <1>1, <1>2, <2>1, KeptEntry DEF HeardOf, Going, Active, QueueMoves
<1>4. CASE /\ ~Refused(rj, works[rj], user_cancelled_rjs)
           /\ \E targets : Enqueue(rj, targets)
           /\ Wish(rj, wish[rj])
  <2>1. wish'[rj] = "run" /\ QueueMoves(rj)
    BY <1>1, <1>4 DEF TypeOK, Wish, Wanted, Refused, Enqueue, QueueMoves
  <2>2. EntryOf(rj)'
    BY <1>1, <1>4, EnqueuedEntry DEF Refused
  <2> QED BY <1>1, <1>2, <2>1, <2>2 DEF HeardOf, Going, Active
<1> QED BY <1>2, <1>3, <1>4 DEF ResumeWith, SettleWith, SettleRefused

\* A worker that drops an entry forgets no pause of a work that is being prepared.
LEMMA HeadHeard ==
  ASSUME Typed, OneTaskPerWork, Orderly, Heard, NEW rj \in RJs, QueueHead(rj)
  PROVE  HeardOf(rj)' /\ EntryOf(rj)' /\ QueueMoves(rj)
<1>1. TypeOK /\ OnePlace(rj) /\ HeardOf(rj) /\ EntryOf(rj) /\ download_queue \in Seq(RJs)
  BY DEF Typed, TypeOK, Orderly, Heard
<1>2. /\ download_queue # <<>> /\ Head(download_queue) = rj
      /\ download_queue' = Tail(download_queue)
      /\ rj \notin queued_rj_ids'
      /\ UNCHANGED <<user_cancelled_rjs, cancelling, wish, preparing_rj_ids>>
  BY DEF QueueHead, WorkerSkips, WorkerStarts, Unqueue, opVars
<1>3. EntryOf(rj)' /\ QueueMoves(rj)
  BY <1>1, <1>2, TakenEntry DEF QueueMoves
<1>4. rj \notin user_cancelled_rjs => rj \in queued_rj_ids
  <2>1. 1 \in 1..Len(download_queue) /\ download_queue[1] = rj
    BY <1>1, <1>2
  <2> QED BY <1>1, <2>1 DEF EntryOf
<1>5. rj \notin preparing_rj_ids \ user_cancelled_rjs
  BY <1>1, <1>4 DEF OnePlace
<1>6. Going(rj)' => wish[rj] = "run"
  <2>1. CASE \E w \in Workers : WorkerSkips(w)
    BY <1>1, <2>1 DEF WorkerSkips, taskVars, HeardOf, Going, Active, Live
  <2>2. CASE \E w \in Workers : WorkerStarts(w)
    <3>1. rj \in queued_rj_ids \ cancelled_rjs
      BY <1>2, <2>2 DEF WorkerStarts, MayStart
    <3> QED BY <1>1, <3>1 DEF HeardOf
  <2> QED BY <2>1, <2>2 DEF QueueHead
<1> QED BY <1>2, <1>3, <1>5, <1>6 DEF HeardOf

\* No step of a task takes a stop back.
LEMMA OwnStepHeard ==
  ASSUME ~SwallowsCancel, Typed, OneTaskPerWork, Orderly, Heard, NEW rj \in RJs,
         NEW w \in Workers, OwnStep(rj, w)
  PROVE  HeardOf(rj)' /\ EntryOf(rj)' /\ QueueMoves(rj)
<1>1. TypeOK /\ HeardOf(rj) /\ EntryOf(rj)
  BY DEF Typed, Heard
<1>2. UNCHANGED <<download_queue, queued_rj_ids, cancelled_rjs>>
  <2>1. CASE WorkerReaps(w) \/ TaskStep(w)
    BY <2>1 DEF WorkerReaps, TaskStep, CoverDone, CoverFails, TaskCancelled, TaskAnalyses, coreVars,
       queueVars
  <2>2. ASSUME NEW t \in Tracks, FileStep(w, t) PROVE UNCHANGED <<queueVars, cancelled_rjs>>
    BY <2>2 DEF FileStep, FileEnds, FileWrites, FileSucceeds, FileFails, FileRetries, FileCancelled
  <2> QED BY <2>1, <2>2 DEF OwnStep, queueVars
<1>3. UNCHANGED <<preparing_rj_ids, user_cancelled_rjs, wish>>
  BY RunnersKeep DEF opVars
<1>4. Going(rj)' => Going(rj)
  <2>1. active_tasks[rj] = w
    BY DEF OwnStep
  <2>2. CASE WorkerReaps(w)
    BY <1>1, <2>2 DEF OwnStep, WorkerReaps, TypeOK, Going, Active
  <2>3. CASE TaskStep(w)
    BY <1>1, <2>1, <2>3 DEF TaskStep, CoverDone, CoverFails, TaskCancelled, TaskAnalyses, coreVars,
       TypeOK, Going, Active, Live
  <2>4. ASSUME NEW t \in Tracks, FileStep(w, t) PROVE Going(rj)' => Going(rj)
    <3>1. UNCHANGED <<active_tasks, phase, cancelling>>
      BY <2>4 DEF FileStep, FileEnds, FileWrites, FileSucceeds, FileFails, FileRetries,
         FileCancelled, taskVars
    <3> QED BY <3>1 DEF Going, Active, Live
  <2> QED BY <2>2, <2>3, <2>4 DEF OwnStep
<1>5. EntryOf(rj)' /\ QueueMoves(rj)
  BY <1>1, <1>2, <1>3, KeptEntry DEF QueueMoves
<1> QED BY <1>1, <1>2, <1>3, <1>4, <1>5 DEF HeardOf

\* No step about a work starts what the user did not ask for.
LEMMA WorkHeard ==
  ASSUME ~SwallowsCancel, Typed, OneTaskPerWork, Orderly, Heard, NEW rj \in RJs, WorkStep(rj)
  PROVE  HeardOf(rj)' /\ EntryOf(rj)' /\ QueueMoves(rj)
<1>1. TypeOK /\ OnePlace(rj) /\ HeardOf(rj) /\ EntryOf(rj)
  BY DEF Typed, Orderly, Heard
<1>2. CASE QueueCached(rj)
  <2>1. /\ ~Active(rj) /\ rj \notin queued_rj_ids /\ rj \notin preparing_rj_ids'
        /\ UNCHANGED <<active_tasks, phase>> /\ QueueWith(rj, cache[rj], "run")
    BY <1>2 DEF QueueCached, Busy, taskVars, opVars
  <2> QED BY <1>1, <2>1, QueueWithHeard
<1>3. CASE QueueAnswered(rj)
  <2>1. /\ ~Active(rj) /\ rj \notin queued_rj_ids /\ rj \notin preparing_rj_ids'
        /\ UNCHANGED <<active_tasks, phase>>
        /\ rj \notin cancelled_rjs \union user_cancelled_rjs => wish[rj] = "run"
    BY <1>1, <1>3 DEF QueueAnswered, OnePlace, HeardOf, taskVars
  <2>2. \E listed : QueueWith(rj, listed, wish[rj])
    BY <1>3 DEF QueueAnswered
  <2> QED BY <1>1, <2>1, <2>2, QueueWithHeard
<1>4. CASE Pause(rj) \/ Cancel(rj)
  <2>1. UNCHANGED <<active_tasks, phase, preparing_rj_ids>>
    BY <1>4 DEF Pause, Cancel, taskVars, opVars
  <2> QED BY <1>1, <1>4, <2>1, StopHeard DEF Pause, Cancel
<1>5. CASE QueueAgain(rj) \/ QueueFetching(rj)
  <2>1. /\ UNCHANGED <<download_queue, queued_rj_ids, user_cancelled_rjs>> /\ wish'[rj] = "run"
    BY <1>1, <1>5 DEF QueueAgain, QueueFetching, Wish, TypeOK, queueVars
  <2> QED BY <1>1, <2>1, KeptEntry DEF HeardOf, QueueMoves
<1>6. CASE LoseCache(rj) \/ QueueFails(rj) \/ \E t \in Tracks : DeleteFile(rj, t)
  <2>1. /\ UNCHANGED <<download_queue, queued_rj_ids, user_cancelled_rjs, cancelled_rjs, wish,
                       active_tasks, phase, cancelling>>
        /\ preparing_rj_ids' \subseteq preparing_rj_ids
    BY <1>6 DEF LoseCache, QueueFails, FetchFails, DeleteFile, coreVars, queueVars, taskVars, opVars
  <2>2. EntryOf(rj)' /\ QueueMoves(rj)
    BY <1>1, <2>1, KeptEntry DEF QueueMoves
  <2> QED BY <1>1, <2>1, <2>2 DEF HeardOf, Going, Active, Live
<1> QED
  BY <1>2, <1>3, <1>4, <1>5, <1>6, BatchHeard, HeadHeard, OwnStepHeard DEF WorkStep, PlainStep

\* A pause of everything reaches what runs, what is queued and what is prepared.
LEMMA PauseAllHeard ==
  ASSUME Typed, OneTaskPerWork, Orderly, Heard, PauseEverything,
         UNCHANGED <<active_tasks, phase, preparing_rj_ids>>, NEW rj \in RJs
  PROVE  HeardOf(rj)' /\ EntryOf(rj)'
<1>1. OnePlace(rj) /\ HeardOf(rj)
  BY DEF Orderly, Heard
<1>2. /\ download_queue' = <<>> /\ queued_rj_ids' = {} /\ UNCHANGED user_cancelled_rjs
      /\ cancelled_rjs' = cancelled_rjs \union {q \in Pausable : ~Active(q)}
      /\ wish'[rj] = IF rj \in Pausable THEN "stop" ELSE wish[rj]
      /\ cancelling' = StopRequested({active_tasks[q] : q \in RJs} \ {None})
  BY DEF PauseEverything
<1>3. ~Going(rj)'
  <2>1. Active(rj) => active_tasks[rj] \in Workers
    BY DEF Typed, TypeOK, Active
  <2> QED BY <1>2, <2>1 DEF Going, Active, Live, StopRequested
<1>4. EntryOf(rj)'
  BY <1>2 DEF EntryOf
<1> QED BY <1>1, <1>2, <1>3, <1>4 DEF OnePlace, HeardOf

\* Nor does a step about all works; resume-all asks for what it will resume.
LEMMA WholeHeard ==
  ASSUME NothingOverlaps, Typed, OneTaskPerWork, Orderly, Heard, WholeStep
  PROVE  Heard'
<1>1. TypeOK /\ \A rj \in RJs : HeardOf(rj) /\ EntryOf(rj)
  BY DEF Typed, Heard
<1>2. CASE loop # "spin" /\ (PauseAll \/ ShutdownBegin)
  <2>1. PauseEverything /\ UNCHANGED <<active_tasks, phase, preparing_rj_ids, loop>>
    BY <1>2 DEF PauseAll, ShutdownBegin, taskVars, loopVars, opVars
  <2> QED BY <1>2, <2>1, PauseAllHeard DEF Heard
<1>3. CASE ResumeAll
  <2>1. /\ UNCHANGED <<download_queue, queued_rj_ids, user_cancelled_rjs, cancelled_rjs, works,
                       active_tasks, phase, cancelling, preparing_rj_ids>>
        /\ batch' = Restorable /\ wish' = WishedFor(Restorable, works, user_cancelled_rjs)
    BY <1>3 DEF ResumeAll, queueVars, taskVars, opVars
  <2>2. \A rj \in RJs : wish[rj] = "run" => wish'[rj] = "run"
    BY <2>1 DEF WishedFor
  <2>3. \A rj \in RJs : HeardOf(rj)' /\ EntryOf(rj)'
    BY <1>1, <2>1, <2>2 DEF HeardOf, EntryOf, Going, Active, Live
  <2>4. \A rj \in Restorable : Wanted(rj)'
    BY <2>1 DEF Restorable, WishedFor, Wanted
  <2> QED BY <2>1, <2>3, <2>4 DEF Heard
<1>4. CASE ShutdownDone \/ Crash
  <2>1. Forget
    BY <1>4 DEF ShutdownDone, Crash
  <2> QED BY <2>1 DEF Forget, Heard, HeardOf, EntryOf, Going, Active
<1>5. CASE \/ Boot \/ BatchDone \/ ShutdownJoin \/ (\E w \in Workers : WorkerExits(w))
           \/ UNCHANGED vars
  <2>1. /\ UNCHANGED <<download_queue, queued_rj_ids, user_cancelled_rjs, cancelled_rjs,
                       active_tasks, cancelling, preparing_rj_ids, wish>>
        /\ loop' = "spin" => loop = "spin" /\ UNCHANGED <<batch, works>>
    BY <1>5 DEF NothingOverlaps, Boot, BatchDone, ShutdownJoin, WorkerExits, vars, coreVars,
       queueVars, taskVars, loopVars, opVars, WholeStep, Crash, PauseAll, ResumeAll
  <2>2. \A w \in Workers : Live(w)' => Live(w)
    BY <1>1, <1>5 DEF TypeOK, Boot, BatchDone, ShutdownJoin, WorkerExits, vars, taskVars, Live
  <2>3. ASSUME NEW rj \in RJs PROVE HeardOf(rj)' /\ EntryOf(rj)'
    <3>1. Going(rj)' => Going(rj)
      BY <1>1, <2>1, <2>2 DEF TypeOK, Going, Active
    <3> QED BY <1>1, <2>1, <3>1 DEF HeardOf, EntryOf
  <2> QED BY <2>1, <2>3 DEF Heard, Wanted
<1> QED BY <1>2, <1>3, <1>4, <1>5 DEF WholeStep

\* Nothing runs at the start.
LEMMA InitHeard == Init => Heard
  BY DEF Init, Heard, HeardOf, EntryOf, Going, Active

\* Heard is inductive on top of Orderly.
LEMMA StepHeard ==
  ASSUME NothingOverlaps, ~SwallowsCancel, Typed, OneTaskPerWork, Orderly, Heard, [Next]_vars
  PROVE  Heard'
<1>1. TypeOK
  BY DEF Typed
<1>2. CASE WholeStep
  BY <1>2, WholeHeard
<1>3. ASSUME NEW rj \in RJs, WorkStep(rj) PROVE Heard'
  <2>1. loop' = loop /\ (loop = "spin" => batch' = batch \ {rj})
    BY <1>3, OwnPrompt
  <2>2. HeardOf(rj)' /\ EntryOf(rj)' /\ QueueMoves(rj)
    BY <1>3, WorkHeard
  <2>3. ASSUME NEW q \in RJs \ {rj}
        PROVE  HeardOf(q)' /\ EntryOf(q)' /\ (Wanted(q) => Wanted(q)')
    <3>1. Alone(q)
      BY <1>1, <1>3, WorkStepAlone
    <3> QED BY <1>1, <2>2, <3>1, AloneHears, OtherEntries DEF Heard
  <2>4. batch \subseteq RJs
    BY <1>1 DEF TypeOK
  <2> QED BY <2>1, <2>2, <2>3, <2>4 DEF Heard
<1> QED BY <1>2, <1>3, PromptSteps DEF Orderly

\* Where no resume is ever suspended and Python loses no cancellation, a transfer that
\* goes on is one the user's last command asked for: no order of queueing, pausing and
\* cancelling one work or all of them, around a metadata request, an old queue entry, a
\* stop or a restart, lets a worker run a work against it.
THEOREM RunsAreWanted ==
  ASSUME NothingOverlaps, ~SwallowsCancel PROVE Spec => []RunsOnlyWanted
<1>1. Typed /\ OneTaskPerWork /\ Orderly /\ [Next]_vars => Orderly'
  BY StepOrder
<1>2. Typed /\ OneTaskPerWork /\ Orderly /\ Heard /\ [Next]_vars => Heard'
  BY StepHeard
<1> QED
  BY <1>1, <1>2, InitTyped, StepTyped, InitOneTask, StepOneTask, InitOrder, InitHeard,
     HeardRuns, PTL DEF Spec

-----------------------------------------------------------------------------
(* What is completed is done.                                               *)

\* The site lists a work completely or, now and then, not at all.
WholeLists == Catalogues \subseteq {{}, Tracks}

\* A task of the work may still write rows.
Runs(rj) == Active(rj) /\ Live(active_tasks[rj])

\* A completed work has no file to fetch and nothing that could give it one.
CompletedOf(rj) ==
  /\ cache[rj] \in {None, {}, Tracks}
  /\ works[rj] = "completed" =>
       ~HasRow(rj, Unfinished \union {"cancelled"}) /\ rj \notin queued_rj_ids /\ ~Runs(rj)

\* The batch of resume-all holds no completed work.
CompletedInv ==
  /\ \A rj \in RJs : CompletedOf(rj)
  /\ loop = "spin" => \A rj \in batch : works[rj] # "completed"

\* The steps about other works write nothing of a completed one.
LEMMA AloneCompleted ==
  ASSUME NEW q \in RJs, Alone(q), CompletedOf(q)
  PROVE  CompletedOf(q)'
  BY DEF Alone, CompletedOf, HasRow, Runs, Active, Live

\* What is prepared again is not completed.
LEMMA QueueWithCompleted ==
  ASSUME TypeOK, NEW rj \in RJs, NEW listed, NEW goal, QueueWith(rj, listed, goal)
  PROVE  works'[rj] # "completed"
<1>1. ~AlreadyTerminal("prepared", PreparedRows(rj, listed))
  BY DEF AlreadyTerminal
<1>2. CASE PrepareRefused(rj, listed, goal)
  BY <1>2 DEF TypeOK, PrepareRefused, Write
<1> QED
  BY <1>1, <1>2 DEF TypeOK, QueueWith, CancelWith, PauseWith, Write, Updated, PausedWork

\* A resume completes a work when it found every file of its list complete.
LEMMA SettleCompleted ==
  ASSUME TypeOK, NEW rj \in RJs, NEW s, s # "completed", NEW r, NEW listed, listed \in {{}, Tracks},
         NEW goal, SettleWith(rj, s, r, listed, goal), works'[rj] = "completed"
  PROVE  (\A t \in Tracks : row'[rj][t] \in Done) /\ UNCHANGED queueVars
<1>1. PICK broken \in SUBSET FaultyTracks : LET J(verdict) == Judged(rj, r, listed, broken, verdict) IN
        /\ row' = [row EXCEPT ![rj] = ReconciledRows(rj, r, listed, broken)]
        /\ \/ works' = [works EXCEPT ![rj] = Updated(s, "queued")]
           \/ /\ J("fetch") = {}
              /\ works' = [works EXCEPT ![rj] =
                             IF J("complete") # {} /\ J("review") \union J("skip") = {}
                             THEN Updated(s, "completed") ELSE s]
              /\ UNCHANGED queueVars
  BY DEF SettleWith
<1>2. /\ Judged(rj, r, listed, broken, "fetch") = {} /\ UNCHANGED queueVars
      /\ Judged(rj, r, listed, broken, "complete") # {}
      /\ Judged(rj, r, listed, broken, "review") = {} /\ Judged(rj, r, listed, broken, "skip") = {}
  BY <1>1 DEF TypeOK, Updated
<1>3. listed = Tracks
  BY <1>2 DEF Judged
<1>4. ASSUME NEW t \in Tracks PROVE row'[rj][t] \in Done
  <2>1. Verdict(rj, r, t, broken) = "complete"
    BY <1>2, <1>3 DEF Judged, Verdict
  <2>2. row'[rj][t] = ReconciledRow(rj, r, t, broken)
    BY <1>1, <1>3 DEF TypeOK, ReconciledRows
  <2> QED BY <2>1, <2>2 DEF ReconciledRow, Done
<1> QED BY <1>2, <1>4

\* A task completes its work with its last word.
LEMMA OwnStepCompleted ==
  ASSUME Typed, OneTaskPerWork, Orderly, CompletedInv, NEW rj \in RJs, NEW w \in Workers,
         OwnStep(rj, w)
  PROVE  CompletedOf(rj)'
<1>1. TypeOK /\ OnePlace(rj) /\ CompletedOf(rj) /\ active_tasks[rj] = w /\ job[w] = rj
  BY DEF Typed, Orderly, CompletedInv, OwnStep
<1>2. UNCHANGED cache
  BY RunnersKeep
<1>3. CASE WorkerReaps(w)
  <2>1. UNCHANGED <<works, row, queued_rj_ids>> /\ ~Runs(rj)'
    BY <1>1, <1>3 DEF TypeOK, WorkerReaps, Runs, Active, queueVars
  <2> QED BY <1>1, <1>2, <2>1 DEF CompletedOf, HasRow
<1>4. CASE TaskAnalyses(w)
  <2>1. Active(rj) /\ rj \notin queued_rj_ids' /\ ~Runs(rj)'
    BY <1>1, <1>4, OrchestratorAssumption DEF OrchestratorAssumption, TypeOK, TaskAnalyses, OnePlace,
       Runs, Active, Live, queueVars
  <2>2. works[rj] # "completed"
    BY <1>1, <1>4, <2>1 DEF TaskAnalyses, CompletedOf, Runs, Live
  <2>3. ASSUME works'[rj] = "completed"
        PROVE  ~HasRow(rj, Unfinished \union {"cancelled"})'
    <3>1. AllDone(w)
      BY <1>1, <1>4, <2>2, <2>3 DEF TypeOK, TaskAnalyses
    <3>2. \A t \in Tracks : row'[rj][t] \in {row[rj][t], "registered"}
      BY <1>1, <1>4 DEF TypeOK, TaskAnalyses
    <3> QED BY <1>1, <3>1, <3>2 DEF AllDone, HasRow, Unfinished
  <2> QED BY <1>1, <1>2, <2>1, <2>3 DEF CompletedOf
<1>5. ASSUME \/ CoverDone(w) \/ CoverFails(w) \/ TaskCancelled(w)
             \/ \E t \in Tracks : FileStep(w, t)
      PROVE  CompletedOf(rj)'
  <2>1. Runs(rj)
    BY <1>1, <1>5, OrchestratorAssumption DEF OrchestratorAssumption, CoverDone, CoverFails,
       TaskCancelled, FileStep, FileEnds, FileWrites, FileSucceeds, FileFails, FileRetries,
       FileCancelled, Transferring, Runs, Active, Live
  <2>2. UNCHANGED works
    BY <1>5 DEF CoverDone, CoverFails, TaskCancelled, FileStep, FileEnds, FileWrites, FileSucceeds,
       FileFails, FileRetries, FileCancelled, coreVars
  <2> QED BY <1>1, <1>2, <2>1, <2>2 DEF CompletedOf
<1> QED BY <1>3, <1>4, <1>5 DEF OwnStep, TaskStep

\* A step about a work completes it only with its last file.
LEMMA WorkCompleted ==
  ASSUME WholeLists, Typed, OneTaskPerWork, Orderly, CompletedInv, NEW rj \in RJs, WorkStep(rj)
  PROVE  CompletedOf(rj)'
<1>1. TypeOK /\ OnePlace(rj) /\ CompletedOf(rj)
  BY DEF Typed, Orderly, CompletedInv
<1>2. CASE PlainStep(rj)
  <2>1. UNCHANGED <<active_tasks, phase>>
    BY <1>2 DEF PlainStep, QueueAgain, QueueCached, QueueFetching, Pause, Cancel, LoseCache,
       DeleteFile, QueueAnswered, QueueFails, taskVars
  <2>2. cache'[rj] \in {None, {}, Tracks}
    BY <1>1, <1>2 DEF TypeOK, WholeLists, CompletedOf, PlainStep, QueueAgain, QueueCached,
       QueueFetching, Pause, Cancel, LoseCache, DeleteFile, QueueAnswered, QueueFails, FetchFails
  <2>3. CASE QueueCached(rj) \/ QueueAnswered(rj)
    <3>1. \E listed, goal : QueueWith(rj, listed, goal)
      BY <2>3 DEF QueueCached, QueueAnswered
    <3>2. works'[rj] # "completed"
      BY <1>1, <3>1, QueueWithCompleted
    <3> QED BY <2>2, <3>2 DEF CompletedOf
  <2>4. CASE Pause(rj)
    <3>1. /\ UNCHANGED queued_rj_ids /\ row'[rj] = PausedRows(row[rj])
          /\ works'[rj] = PausedWork(works[rj])
      BY <1>1, <2>4 DEF TypeOK, Pause, PauseWith, Write, queueVars
    <3>2. works'[rj] = "completed" => works[rj] = "completed"
      BY <3>1 DEF PausedWork, Updated
    <3> QED BY <1>1, <2>1, <2>2, <3>1, <3>2 DEF CompletedOf, HasRow, PausedRows, Unfinished, Runs,
          Active, Live
  <2>5. CASE Cancel(rj)
    <3>1. CASE AlreadyTerminal(works[rj], row[rj])
      <4>1. UNCHANGED queued_rj_ids /\ row'[rj] = row[rj] /\ works'[rj] = works[rj]
        BY <1>1, <2>5, <3>1 DEF TypeOK, Cancel, CancelWith, Write
      <4> QED BY <1>1, <2>1, <2>2, <4>1 DEF CompletedOf, HasRow, Runs, Active, Live
    <3>2. CASE ~AlreadyTerminal(works[rj], row[rj])
      <4>1. works'[rj] # "completed"
        BY <1>1, <2>5, <3>2 DEF TypeOK, Cancel, CancelWith, Write, Updated
      <4> QED BY <2>2, <4>1 DEF CompletedOf
    <3> QED BY <3>1, <3>2
  <2>6. CASE \/ QueueAgain(rj) \/ QueueFetching(rj) \/ LoseCache(rj) \/ QueueFails(rj)
             \/ \E t \in Tracks : DeleteFile(rj, t)
    <3>1. UNCHANGED <<queued_rj_ids, row>> /\ (works'[rj] = "completed" => works[rj] = "completed")
      BY <1>1, <2>6 DEF TypeOK, QueueAgain, QueueFetching, LoseCache, QueueFails, FetchFails,
         DeleteFile, Updated, coreVars, queueVars
    <3> QED BY <1>1, <2>1, <2>2, <3>1 DEF CompletedOf, HasRow, Runs, Active, Live
  <2> QED BY <1>2, <2>3, <2>4, <2>5, <2>6 DEF PlainStep
<1>3. CASE loop = "spin" /\ BatchNext(rj)
  <2>1. /\ works[rj] # "completed" /\ ~Active(rj) /\ rj \notin queued_rj_ids
        /\ cache[rj] \in {{}, Tracks} /\ UNCHANGED <<cache, active_tasks>>
    BY <1>1, <1>3 DEF BatchNext, CompletedInv, CompletedOf, Orderly, Waits, taskVars
  <2>2. ASSUME works'[rj] = "completed"
        PROVE  ~HasRow(rj, Unfinished \union {"cancelled"})' /\ UNCHANGED queueVars
    <3>1. SettleWith(rj, works[rj], row[rj], cache[rj], wish[rj])
      BY <1>1, <1>3, <2>1, <2>2 DEF TypeOK, BatchNext, ResumeWith, SettleRefused, Write
    <3>2. (\A t \in Tracks : row'[rj][t] \in Done) /\ UNCHANGED queueVars
      BY <1>1, <2>1, <2>2, <3>1, SettleCompleted
    <3> QED BY <3>2 DEF HasRow, Unfinished, Done
  <2> QED BY <1>1, <2>1, <2>2 DEF CompletedOf, Runs, Active, queueVars
<1>4. CASE QueueHead(rj)
  <2>1. UNCHANGED <<cache, works, row>> /\ rj \notin queued_rj_ids'
    BY <1>4 DEF QueueHead, WorkerSkips, WorkerStarts, Unqueue
  <2>2. CASE \E w \in Workers : WorkerSkips(w)
    BY <1>1, <2>1, <2>2 DEF WorkerSkips, CompletedOf, HasRow, Runs, Active, Live, taskVars
  <2>3. CASE \E w \in Workers : WorkerStarts(w)
    <3>1. rj \in queued_rj_ids
      BY <1>4, <2>3 DEF QueueHead, WorkerStarts, MayStart
    <3> QED BY <1>1, <2>1, <3>1 DEF CompletedOf
  <2> QED BY <1>4, <2>2, <2>3 DEF QueueHead
<1> QED BY <1>2, <1>3, <1>4, OwnStepCompleted DEF WorkStep

\* Steps about all works that run, and what they leave of it.
LEMMA WholeRuns ==
  ASSUME Typed, WholeStep, NEW rj \in RJs
  PROVE  /\ Runs(rj)' => Runs(rj)
         /\ rj \in queued_rj_ids' => rj \in queued_rj_ids
         /\ UNCHANGED cache
<1>1. TypeOK
  BY DEF Typed
<1>2. CASE ShutdownDone \/ Crash
  BY <1>2 DEF ShutdownDone, Crash, Forget, Runs, Active
<1>3. CASE PauseAll \/ ResumeAll \/ ShutdownBegin \/ Boot \/ BatchDone \/ UNCHANGED vars
  <2>1. UNCHANGED <<active_tasks, phase, cache>> /\ (rj \in queued_rj_ids' => rj \in queued_rj_ids)
    BY <1>3 DEF PauseAll, ResumeAll, ShutdownBegin, Boot, BatchDone, PauseEverything, vars, coreVars,
       queueVars, taskVars
  <2> QED BY <2>1 DEF Runs, Active, Live
<1>4. CASE ShutdownJoin \/ \E w \in Workers : WorkerExits(w)
  <2>1. UNCHANGED <<active_tasks, cache, queued_rj_ids>> /\ \A w \in Workers : Live(w)' => Live(w)
    BY <1>1, <1>4 DEF TypeOK, ShutdownJoin, WorkerExits, Live, coreVars, queueVars
  <2> QED BY <1>1, <2>1 DEF TypeOK, Runs, Active
<1> QED BY <1>2, <1>3, <1>4 DEF WholeStep

\* The rows and the status such a step gives a work.
WholeRow(rj) ==
  \/ works'[rj] = works[rj] /\ row'[rj] = row[rj]
  \/ works'[rj] = PausedWork(works[rj]) /\ row'[rj] = PausedRows(row[rj])
  \/ /\ works'[rj] \in {works[rj], "paused"}
     /\ row'[rj] = [t \in Tracks |-> IF row[rj][t] = "downloading" THEN "paused" ELSE row[rj][t]]

\* Only pausing everything and the boot write rows of all works.
LEMMA WholeRows ==
  ASSUME Typed, WholeStep, NEW rj \in RJs
  PROVE  WholeRow(rj)
<1>1. CASE PauseAll \/ ShutdownBegin
  BY <1>1 DEF PauseAll, ShutdownBegin, PauseEverything, WholeRow
<1>2. CASE Boot
  BY <1>2 DEF Boot, WholeRow
<1>3. CASE UNCHANGED <<works, row>>
  BY <1>3 DEF WholeRow
<1> QED
  BY <1>1, <1>2, <1>3 DEF WholeStep, ResumeAll, ShutdownJoin, ShutdownDone, WorkerExits, BatchDone,
     Crash, vars, coreVars

\* A pause, a stop or a start completes no work; resume-all takes up no completed one.
LEMMA WholeCompleted ==
  ASSUME Typed, CompletedInv, WholeStep
  PROVE  CompletedInv'
<1>1. ASSUME NEW rj \in RJs PROVE CompletedOf(rj)' /\ (works'[rj] = "completed" => works[rj] = "completed")
  <2>1. WholeRow(rj) /\ (Runs(rj)' => Runs(rj)) /\ (rj \in queued_rj_ids' => rj \in queued_rj_ids)
        /\ UNCHANGED cache
    BY WholeRows, WholeRuns
  <2>2. works'[rj] = "completed" => works[rj] = "completed"
    BY <2>1 DEF WholeRow, PausedWork, Updated
  <2>3. ~HasRow(rj, Unfinished \union {"cancelled"}) => ~HasRow(rj, Unfinished \union {"cancelled"})'
    BY <2>1 DEF WholeRow, PausedRows, HasRow, Unfinished
  <2> QED BY <2>1, <2>2, <2>3 DEF CompletedInv, CompletedOf
<1>2. CASE ResumeAll
  <2>1. batch' = Restorable /\ UNCHANGED works
    BY <1>2 DEF ResumeAll
  <2>2. \A rj \in Restorable : works[rj] # "completed"
    BY DEF Restorable, CompletedInv, CompletedOf, HasRow
  <2> QED BY <1>1, <2>1, <2>2 DEF CompletedInv
<1>3. CASE loop' = "spin" => loop = "spin" /\ UNCHANGED batch
  <2>1. batch \subseteq RJs
    BY DEF Typed, TypeOK
  <2> QED BY <1>1, <1>3, <2>1 DEF CompletedInv
<1>4. WholeStep /\ ~ResumeAll => (loop' = "spin" => loop = "spin" /\ UNCHANGED batch)
  BY DEF WholeStep, PauseAll, ShutdownBegin, ShutdownJoin, ShutdownDone, Boot, WorkerExits, BatchDone,
     Crash, Forget, vars, loopVars
<1> QED BY <1>2, <1>3, <1>4

\* No work is completed at the start.
LEMMA InitCompleted == Init => CompletedInv
  BY DEF Init, CompletedInv, CompletedOf

\* CompletedInv is inductive on top of Orderly.
LEMMA StepCompleted ==
  ASSUME NothingOverlaps, WholeLists, Typed, OneTaskPerWork, Orderly, CompletedInv, [Next]_vars
  PROVE  CompletedInv'
<1>1. CASE WholeStep
  BY <1>1, WholeCompleted
<1>2. ASSUME NEW rj \in RJs, WorkStep(rj) PROVE CompletedInv'
  <2>1. loop' = loop /\ (loop = "spin" => batch' = batch \ {rj}) /\ CompletedOf(rj)'
    BY <1>2, OwnPrompt, WorkCompleted
  <2>2. \A q \in RJs \ {rj} : Alone(q)
    BY <1>2, WorkStepAlone DEF Typed
  <2>3. \A q \in RJs \ {rj} : CompletedOf(q)' /\ works'[q] = works[q]
    BY <2>2, AloneCompleted DEF CompletedInv, Alone
  <2>4. batch \subseteq RJs
    BY DEF Typed, TypeOK
  <2> QED BY <2>1, <2>3, <2>4 DEF CompletedInv
<1> QED BY <1>1, <1>2, PromptSteps DEF Orderly

-----------------------------------------------------------------------------
(* Commands that overlap, where nothing is lost.                            *)

\* Cached lists stay readable, the OS refuses no file and no tags are written.
NothingLost == "loseCache" \notin Commands /\ FaultyTracks = {} /\ TaggedTracks = {}

\* No resume is suspended for metadata, and none of the loop's will be.
Unsuspended ==
  /\ resuming_rj_ids = {} /\ loop # "await"
  /\ loop # "off" => \A rj \in batch : cache[rj] # None

\* A work has a row for every file of it, or it has none and nothing to fetch.
Entire(rj) ==
  /\ cache[rj] \in {None, {}, Tracks}
  /\ (\/ work_data[rj] # {} \/ Active(rj) \/ works[rj] = "completed"
      \/ \E t \in Tracks : row[rj][t] # "none")
       => \A t \in Tracks : row[rj][t] # "none"

\* A completed work may be queued again, but it will not be started.
Finished(rj) ==
  works[rj] = "completed" => (\A t \in Tracks : row[rj][t] \in Done) /\ ~Runs(rj)

\* Nothing but its loss takes a cached list away.
LEMMA CachesStay ==
  ASSUME "loseCache" \notin Commands, Typed, [Next]_vars, NEW rj \in RJs, cache[rj] # None
  PROVE  cache'[rj] # None
<1>1. TypeOK /\ \A listed \in Catalogues : listed # None
  BY OrchestratorAssumption DEF OrchestratorAssumption, Typed
<1>2. ASSUME NEW q \in RJs, Answer(q) PROVE cache'[rj] # None
  <2>1. UNCHANGED cache \/ \E listed \in Catalogues : cache' = [cache EXCEPT ![q] = listed]
    BY <1>2 DEF Answer, QueueAnswered, QueueFails, ResumeAnswered, ResumeAnswerRefused, ResumeFails,
       FetchFails, ReconnectResumes, ReconnectTimesOut
  <2> QED BY <1>1, <2>1 DEF TypeOK
<1>3. CASE UserStep
  BY <1>3 DEF UserStep, QueueAgain, QueueCached, QueueFetching, Pause, Cancel, Retry, Resume,
     ReconnectIdle, ReconnectActive, LoseCache, DeleteFile, PauseAll, ResumeAll, ShutdownBegin, May
<1>4. ASSUME NEW w \in Workers, WorkerStep(w) \/ TaskStep(w) PROVE UNCHANGED cache
  BY <1>4 DEF WorkerStep, WorkerSkips, WorkerStarts, WorkerReaps, WorkerExits, TaskStep, CoverDone,
     CoverFails, TaskCancelled, TaskAnalyses
<1>5. ASSUME NEW w \in Workers, NEW t \in Tracks, FileStep(w, t) PROVE UNCHANGED cache
  BY <1>5 DEF FileStep, FileEnds, FileWrites, FileSucceeds, FileFails, FileRetries, FileCancelled
<1>6. CASE Spinning \/ BatchWakes \/ ShutdownStep \/ Boot \/ Crash \/ UNCHANGED vars
  BY <1>6 DEF Spinning, BatchNext, BatchDone, BatchWakes, ShutdownStep, ShutdownJoin, ShutdownDone,
     Boot, Crash, vars
<1> QED BY <1>2, <1>3, <1>4, <1>5, <1>6 DEF Next, Yielding

\* What is resumed has a list.
LEMMA ResumedListed ==
  ASSUME NEW rj \in RJs, Listed(rj), Unsuspended,
         Retry(rj) \/ Resume(rj) \/ ReconnectIdle(rj) \/ ReconnectResumes(rj) \/ BatchNext(rj)
  PROVE  cache[rj] # None
  BY DEF Listed, Unsuspended, Retry, Resume, ReconnectIdle, ReconnectResumes, BatchNext, HasRow,
     Known

\* Unsuspended is inductive as long as every known work keeps its list.
LEMMA StepUnsuspended ==
  ASSUME "loseCache" \notin Commands, Typed, OneTaskPerWork, \A rj \in RJs : Listed(rj), Unsuspended,
         [Next]_vars
  PROVE  Unsuspended'
<1>1. TypeOK /\ batch \subseteq RJs
  BY DEF Typed, TypeOK
<1>2. \A rj \in RJs : cache[rj] # None => cache'[rj] # None
  BY CachesStay
<1>3. CASE UNCHANGED resuming_rj_ids /\ batch' \subseteq batch /\ loop' \in {loop, "off"}
  BY <1>1, <1>2, <1>3 DEF Unsuspended
<1>4. ASSUME NEW rj \in RJs, OneStep(rj) PROVE Unsuspended'
  <2>1. CASE PlainStep(rj) \/ ReconnectActive(rj) \/ ReconnectTimesOut(rj)
    BY <1>3, <2>1 DEF PlainStep, QueueAgain, QueueCached, QueueFetching, Pause, Cancel, LoseCache,
       DeleteFile, QueueAnswered, QueueFails, ReconnectActive, ReconnectTimesOut, loopVars, opVars
  <2>2. CASE QueueHead(rj) \/ \E w \in Workers : OwnStep(rj, w)
    <3>1. UNCHANGED <<loop, batch, resuming_rj_ids>>
      BY <2>2, RunnersKeep DEF loopVars, opVars
    <3> QED BY <1>3, <3>1
  <2>3. CASE Retry(rj) \/ Resume(rj) \/ ReconnectIdle(rj) \/ ReconnectResumes(rj) \/ BatchNext(rj)
    <3>1. cache[rj] # None
      BY <2>3, ResumedListed
    <3>2. \A s, stopped : ~Suspends(rj, s, stopped)
      BY <3>1 DEF Suspends
    <3>3. UNCHANGED resuming_rj_ids
      BY <2>3, <3>2 DEF Retry, Resume, ReconnectIdle, ReconnectResumes, BatchNext, ResumeWith
    <3>4. batch' \subseteq batch /\ loop' \in {loop, "off"}
      BY <2>3, <3>2 DEF Retry, Resume, ReconnectIdle, ReconnectResumes, BatchNext, BatchThrows,
         loopVars
    <3> QED BY <1>3, <3>3, <3>4
  <2>4. CASE ResumeAnswered(rj) \/ ResumeAnswerRefused(rj) \/ ResumeFails(rj)
    BY <2>4 DEF ResumeAnswered, ResumeAnswerRefused, ResumeFails, Unsuspended
  <2> QED BY <1>4, <2>1, <2>2, <2>3, <2>4 DEF OneStep, WorkStep, ResumeStep
<1>5. CASE ResumeAll
  <2>1. batch' = Restorable /\ UNCHANGED <<cache, resuming_rj_ids>> /\ loop' = "spin"
    BY <1>5 DEF ResumeAll, opVars
  <2>2. \A rj \in Restorable : cache[rj] # None
    BY DEF Restorable, HasRow, Unfinished, Listed
  <2> QED BY <2>1, <2>2 DEF Unsuspended
<1>6. CASE Boot
  <2>1. UNCHANGED <<cache, resuming_rj_ids>>
        /\ \/ loop' = "sleep" /\ batch' \subseteq Resumable
           \/ UNCHANGED <<loop, batch>>
    BY <1>6 DEF Boot, opVars
  <2> QED BY <2>1 DEF Unsuspended, Resumable
<1>7. CASE ShutdownDone \/ Crash
  BY <1>7 DEF ShutdownDone, Crash, Forget, Unsuspended
<1>8. CASE BatchWakes
  <2>1. UNCHANGED <<cache, resuming_rj_ids, batch>> /\ loop = "sleep" /\ loop' = "spin"
    BY <1>8 DEF BatchWakes, opVars
  <2> QED BY <2>1 DEF Unsuspended
<1>9. CASE PauseAll \/ ShutdownBegin \/ ShutdownJoin \/ BatchDone \/ UNCHANGED vars
           \/ \E w \in Workers : WorkerExits(w)
  BY <1>3, <1>9 DEF PauseAll, ShutdownBegin, ShutdownJoin, BatchDone, WorkerExits, vars, loopVars,
     opVars
<1> QED BY <1>4, <1>5, <1>6, <1>7, <1>8, <1>9, StepsByWork DEF WholeStep

-----------------------------------------------------------------------------

\* The steps about other works change none of it.
LEMMA AloneEntire ==
  ASSUME NEW q \in RJs, Alone(q)
  PROVE  (Entire(q) => Entire(q)') /\ (Finished(q) => Finished(q)')
  BY DEF Alone, Entire, Finished, Runs, Active, Live

\* What writes no file a row it had not, and gives the work nothing to fetch.
LEMMA KeptEntire ==
  ASSUME NEW rj \in RJs, Entire(rj), cache'[rj] \in {None, {}, Tracks},
         \A t \in Tracks : row'[rj][t] = "none" <=> row[rj][t] = "none",
         work_data'[rj] # {} => work_data[rj] # {},
         Active(rj)' => work_data[rj] # {} \/ Active(rj),
         works'[rj] = "completed" => works[rj] = "completed"
  PROVE  Entire(rj)'
  BY DEF Entire

\* A work whose files all have rows has all of them.
LEMMA FilledEntire ==
  ASSUME NEW rj \in RJs, cache'[rj] \in {None, {}, Tracks}, \A t \in Tracks : row'[rj][t] # "none"
  PROVE  Entire(rj)'
  BY DEF Entire

\* Preparing a work gives each file of its list a row.
LEMMA QueueWithEntire ==
  ASSUME NothingLost, TypeOK, NEW rj \in RJs, NEW listed, listed \in {{}, Tracks}, NEW goal,
         QueueWith(rj, listed, goal), Entire(rj), cache'[rj] \in {None, {}, Tracks},
         UNCHANGED active_tasks
  PROVE  Entire(rj)'
<1> DEFINE r == PreparedRows(rj, listed)
<1>0. ~PrepareRefused(rj, listed, goal)
  BY DEF NothingLost, PrepareRefused
<1>1. CASE listed = {}
  <2>1. row'[rj] = r /\ works'[rj] = "prepared" /\ UNCHANGED queueVars
    BY <1>0, <1>1 DEF TypeOK, QueueWith, Write
  <2>2. \A t \in Tracks : row'[rj][t] = row[rj][t]
    BY <1>1, <2>1 DEF PreparedRows
  <2> QED BY <2>1, <2>2, KeptEntire DEF queueVars, Active
<1>2. CASE listed = Tracks /\ listed # {}
  <2>1. row'[rj] \in {r, PausedRows(r), CancelledRows(r)}
    BY <1>0, <1>2 DEF TypeOK, QueueWith, Write, CancelWith, PauseWith
  <2>2. \A t \in Tracks : r[t] \in {"completed", "queued"}
    BY <1>2 DEF PreparedRows
  <2>3. \A t \in Tracks : row'[rj][t] # "none"
    BY <2>1, <2>2 DEF PausedRows, CancelledRows
  <2> QED BY <2>3, FilledEntire
<1> QED BY <1>1, <1>2

\* The rows and the status that a resume starts from.
Sound(rj, s, r) ==
  /\ s = "completed" => works[rj] = "completed" /\ \A t \in Tracks : r[t] \in Done
  /\ \A t \in Tracks : r[t] = "none" <=> row[rj][t] = "none"

\* A resume reconciles every file of the list, or there is no list.
LEMMA SettleEntire ==
  ASSUME TypeOK, NEW rj \in RJs, NEW s, NEW r, NEW listed, listed \in {{}, Tracks}, NEW goal,
         Sound(rj, s, r), SettleWith(rj, s, r, listed, goal), Entire(rj),
         UNCHANGED <<active_tasks, cache>>
  PROVE  Entire(rj)'
<1>1. PICK broken \in SUBSET FaultyTracks : LET J(verdict) == Judged(rj, r, listed, broken, verdict) IN
        /\ row' = [row EXCEPT ![rj] = ReconciledRows(rj, r, listed, broken)]
        /\ \/ J("fetch") # {}
           \/ /\ works' = [works EXCEPT ![rj] =
                             IF J("complete") # {} /\ J("review") \union J("skip") = {}
                             THEN Updated(s, "completed") ELSE s]
              /\ UNCHANGED queueVars
  BY DEF SettleWith
<1>2. cache'[rj] \in {None, {}, Tracks}
  BY DEF Entire
<1>3. CASE listed = Tracks
  <2>1. ASSUME NEW t \in Tracks PROVE row'[rj][t] # "none"
    <3>1. row'[rj][t] = ReconciledRow(rj, r, t, broken)
      BY <1>1, <1>3 DEF TypeOK, ReconciledRows
    <3>2. \/ Verdict(rj, r, t, broken) = "skip" /\ r[t] = "cancelled"
          \/ Verdict(rj, r, t, broken) \in {"review", "complete", "fetch"}
      BY DEF Verdict
    <3> QED BY <3>1, <3>2 DEF ReconciledRow
  <2> QED BY <1>2, <2>1, FilledEntire
<1>4. CASE listed = {}
  <2>1. \A verdict : Judged(rj, r, listed, broken, verdict) = {}
    BY <1>4 DEF Judged
  <2>2. works'[rj] = s /\ UNCHANGED queueVars
    BY <1>1, <2>1 DEF TypeOK
  <2>3. \A t \in Tracks : row'[rj][t] = r[t]
    BY <1>1, <1>4 DEF TypeOK, ReconciledRows
  <2> QED BY <1>2, <2>2, <2>3, KeptEntire DEF Sound, queueVars, Active
<1> QED BY <1>3, <1>4

\* A completed work that is resumed stays done, or has a file to fetch again.
LEMMA SettleFinished ==
  ASSUME NothingLost, Typed, DoneInv, NEW rj \in RJs, NEW s, NEW r, NEW listed,
         listed \in {{}, Tracks}, NEW goal, Sound(rj, s, r), SettleWith(rj, s, r, listed, goal),
         Finished(rj), works'[rj] = "completed"
  PROVE  \A t \in Tracks : row'[rj][t] \in Done
<1>1. TypeOK
  BY DEF Typed
<1>2. CASE s # "completed"
  BY <1>1, <1>2, SettleCompleted
<1>3. CASE s = "completed"
  <2>1. PICK broken \in SUBSET FaultyTracks : LET J(verdict) == Judged(rj, r, listed, broken, verdict) IN
          /\ row' = [row EXCEPT ![rj] = ReconciledRows(rj, r, listed, broken)]
          /\ J("fetch") = {} \/ works' = [works EXCEPT ![rj] = Updated(s, "queued")]
    BY DEF SettleWith
  <2>2. Judged(rj, r, listed, broken, "fetch") = {}
    BY <1>1, <1>3, <2>1 DEF TypeOK, Updated
  <2>3. ASSUME NEW t \in Tracks PROVE row'[rj][t] \in Done
    <3>1. r[t] \in Done /\ row[rj][t] \in Done
      BY <1>3 DEF Sound, Finished
    <3>2. disk[rj][t] # "over" /\ t \notin broken
      BY <3>1 DEF NothingLost, DoneInv, DoneThere, WholeSizes
    <3>3. CASE t \in listed
      <4>1. Verdict(rj, r, t, broken) = "complete"
        BY <2>2, <3>1, <3>2, <3>3 DEF Judged, Verdict, TooLong, Done
      <4>2. row'[rj][t] = ReconciledRow(rj, r, t, broken)
        BY <1>1, <2>1, <3>3 DEF TypeOK, ReconciledRows
      <4> QED BY <4>1, <4>2 DEF ReconciledRow, Done
    <3>4. CASE t \notin listed
      BY <1>1, <2>1, <3>1, <3>4 DEF TypeOK, ReconciledRows
    <3> QED BY <3>3, <3>4
  <2> QED BY <2>3
<1> QED BY <1>2, <1>3

\* So a resume keeps the work's rows complete, and a completed work done.
LEMMA ResumeEntire ==
  ASSUME NothingLost, Typed, DoneInv, NEW rj \in RJs, NEW s, NEW r, NEW marked, NEW stopped, NEW goal,
         ResumeWith(rj, s, r, marked, stopped, goal), Sound(rj, s, r), cache[rj] # None,
         Entire(rj), Finished(rj), UNCHANGED <<taskVars, cache>>
  PROVE  Entire(rj)' /\ Finished(rj)'
<1>1. TypeOK /\ cache[rj] \in {{}, Tracks} /\ UNCHANGED <<active_tasks, phase>>
  BY DEF Typed, Entire, taskVars
<1>2. CASE Write(rj, s, r) /\ UNCHANGED queueVars
  <2>1. works'[rj] = s /\ row'[rj] = r
    BY <1>1, <1>2 DEF TypeOK, Write
  <2>2. Entire(rj)'
    BY <1>1, <1>2, <2>1, KeptEntire DEF Sound, queueVars, Active
  <2> QED BY <1>1, <2>1, <2>2 DEF Sound, Finished, Runs, Active, Live
<1>3. CASE ~Refused(rj, s, stopped) /\ SettleWith(rj, s, r, cache[rj], goal)
  <2>1. Entire(rj)'
    BY <1>1, <1>3, SettleEntire
  <2>2. works'[rj] = "completed" => \A t \in Tracks : row'[rj][t] \in Done
    BY <1>1, <1>3, SettleFinished
  <2>3. ~Runs(rj)'
    BY <1>1, <1>3 DEF Refused, Runs, Active
  <2> QED BY <2>1, <2>2, <2>3 DEF Finished
<1>4. ~SettleRefused(rj, s, r, cache[rj], goal)
  BY DEF NothingLost, SettleRefused
<1> QED BY <1>2, <1>3, <1>4 DEF ResumeWith

\* Retrying and pausing leave the sound rows of a work sound.
LEMMA ResumeStepEntire ==
  ASSUME NothingLost, Typed, DoneInv, Unsuspended, NEW rj \in RJs, Listed(rj),
         ResumeStep(rj) \/ BatchNext(rj), Entire(rj), Finished(rj)
  PROVE  Entire(rj)' /\ Finished(rj)'
<1>1. TypeOK
  BY DEF Typed
<1>2. Sound(rj, works[rj], row[rj])
  BY DEF Sound, Finished
<1>3. CASE Retry(rj) \/ Resume(rj) \/ ReconnectIdle(rj) \/ ReconnectResumes(rj) \/ BatchNext(rj)
  <2>1. cache[rj] # None /\ UNCHANGED <<taskVars, cache>>
    BY <1>3, ResumedListed DEF Retry, Resume, ReconnectIdle, ReconnectResumes, BatchNext
  <2>2. CASE Retry(rj)
    <3>1. works[rj] # "completed"
      BY <2>2 DEF Retry, HasRow, Finished, Done
    <3>2. Sound(rj, IF works[rj] = "cancelled" THEN "partial" ELSE works[rj], RetriedRows(row[rj]))
      BY <3>1 DEF Sound, RetriedRows
    <3> QED BY <2>1, <2>2, <3>2, ResumeEntire DEF Retry
  <2>3. CASE Resume(rj) \/ ReconnectResumes(rj) \/ BatchNext(rj)
    BY <1>2, <2>1, <2>3, ResumeEntire DEF Resume, ReconnectResumes, BatchNext
  <2>4. CASE ReconnectIdle(rj)
    <3>1. Sound(rj, PausedWork(works[rj]), PausedRows(row[rj]))
      BY DEF Sound, PausedWork, Updated, PausedRows, Finished, Done
    <3> QED BY <2>1, <2>4, <3>1, ResumeEntire DEF ReconnectIdle
  <2> QED BY <1>3, <2>2, <2>3, <2>4
<1>4. CASE ReconnectActive(rj)
  <2>1. /\ UNCHANGED <<cache, active_tasks, phase, work_data>>
        /\ works'[rj] = PausedWork(works[rj]) /\ row'[rj] = PausedRows(row[rj])
    BY <1>1, <1>4 DEF TypeOK, ReconnectActive, PauseWith, Write, queueVars, taskVars
  <2>2. works'[rj] = "completed" => works[rj] = "completed"
    BY <2>1 DEF PausedWork, Updated
  <2>3. \A t \in Tracks : /\ row'[rj][t] = "none" <=> row[rj][t] = "none"
                          /\ row[rj][t] \in Done => row'[rj][t] \in Done
    BY <2>1 DEF PausedRows, Done
  <2>4. Entire(rj)'
    BY <2>1, <2>2, <2>3, KeptEntire DEF Entire, Active
  <2> QED BY <2>1, <2>2, <2>3, <2>4 DEF Finished, Runs, Active, Live
<1>5. CASE ReconnectTimesOut(rj)
  <2>1. UNCHANGED <<cache, active_tasks, phase, work_data, works, row>>
    BY <1>5 DEF ReconnectTimesOut, coreVars, queueVars, taskVars
  <2> QED BY <2>1 DEF Entire, Finished, Runs, Active, Live
<1>6. ~ResumeAnswered(rj) /\ ~ResumeAnswerRefused(rj) /\ ~ResumeFails(rj)
  BY DEF ResumeAnswered, ResumeAnswerRefused, ResumeFails, Unsuspended
<1> QED BY <1>3, <1>4, <1>5, <1>6 DEF ResumeStep

\* So do the other commands on the work and the answers to its queue_job.
LEMMA PlainStepEntire ==
  ASSUME NothingLost, WholeLists, Typed, NEW rj \in RJs, PlainStep(rj), Entire(rj), Finished(rj)
  PROVE  Entire(rj)' /\ Finished(rj)'
<1>1. TypeOK /\ UNCHANGED <<active_tasks, phase>>
  BY DEF Typed, PlainStep, QueueAgain, QueueCached, QueueFetching, Pause, Cancel, LoseCache,
     DeleteFile, QueueAnswered, QueueFails, taskVars
<1>2. cache'[rj] \in {None, {}, Tracks}
  BY <1>1 DEF TypeOK, WholeLists, Entire, PlainStep, QueueAgain, QueueCached, QueueFetching, Pause,
     Cancel, LoseCache, DeleteFile, QueueAnswered, QueueFails, FetchFails
<1>3. CASE QueueCached(rj) \/ QueueAnswered(rj)
  <2>1. PICK listed, goal : listed \in {{}, Tracks} /\ QueueWith(rj, listed, goal)
    BY <1>3 DEF WholeLists, Entire, QueueCached, QueueAnswered
  <2>2. works'[rj] # "completed"
    BY <1>1, <2>1, QueueWithCompleted
  <2>3. Entire(rj)'
    BY <1>1, <1>2, <2>1, QueueWithEntire
  <2> QED BY <2>2, <2>3 DEF Finished
<1>4. CASE Pause(rj) \/ Cancel(rj)
  <2>1. /\ work_data'[rj] # {} => work_data[rj] # {}
        /\ \/ works'[rj] = works[rj] /\ row'[rj] = row[rj]
           \/ works'[rj] = PausedWork(works[rj]) /\ row'[rj] = PausedRows(row[rj])
           \/ works'[rj] = Updated(works[rj], "cancelled") /\ row'[rj] = CancelledRows(row[rj])
    BY <1>1, <1>4 DEF TypeOK, Pause, Cancel, PauseWith, CancelWith, Write, Unqueue, queueVars
  <2>2. works'[rj] = "completed" => works[rj] = "completed"
    BY <2>1 DEF PausedWork, Updated
  <2>3. \A t \in Tracks : /\ row'[rj][t] = "none" <=> row[rj][t] = "none"
                          /\ row[rj][t] \in Done => row'[rj][t] \in Done
    BY <2>1 DEF PausedRows, CancelledRows, Unfinished, Done
  <2>4. Entire(rj)'
    BY <1>1, <1>2, <2>1, <2>2, <2>3, KeptEntire DEF Active
  <2> QED BY <1>1, <2>2, <2>3, <2>4 DEF Finished, Runs, Active, Live
<1>5. CASE \/ QueueAgain(rj) \/ QueueFetching(rj) \/ LoseCache(rj) \/ QueueFails(rj)
           \/ \E t \in Tracks : DeleteFile(rj, t)
  <2>1. UNCHANGED <<work_data, row>> /\ (works'[rj] = "completed" => works[rj] = "completed")
    BY <1>1, <1>5 DEF TypeOK, QueueAgain, QueueFetching, LoseCache, QueueFails, FetchFails,
       DeleteFile, Updated, coreVars, queueVars
  <2>2. Entire(rj)'
    BY <1>1, <1>2, <2>1, KeptEntire DEF Active
  <2> QED BY <1>1, <2>1, <2>2 DEF Finished, Runs, Active, Live
<1> QED BY <1>3, <1>4, <1>5 DEF PlainStep

\* Only a work with a file to fetch is started.
LEMMA HeadEntire ==
  ASSUME Typed, NEW rj \in RJs, QueueHead(rj), Entire(rj), Finished(rj)
  PROVE  Entire(rj)' /\ Finished(rj)'
<1>1. /\ UNCHANGED <<cache, works, row>> /\ work_data'[rj] = {}
  BY DEF Typed, TypeOK, QueueHead, WorkerSkips, WorkerStarts, Unqueue
<1>2. CASE \E w \in Workers : WorkerSkips(w)
  <2>1. UNCHANGED <<active_tasks, phase>>
    BY <1>2 DEF WorkerSkips, taskVars
  <2> QED BY <1>1, <2>1 DEF Entire, Finished, Runs, Active, Live
<1>3. CASE \E w \in Workers : WorkerStarts(w)
  <2>1. work_data[rj] # {} /\ HasRow(rj, {"queued", "downloading"})
    BY <1>3 DEF QueueHead, WorkerStarts, MayStart, _is_ready_to_download
  <2>2. works[rj] # "completed"
    BY <2>1 DEF HasRow, Finished, Done
  <2> QED BY <1>1, <2>1, <2>2 DEF Entire, Finished
<1> QED BY <1>2, <1>3 DEF QueueHead

\* A running work has all its rows, and is completed with the last of them.
LEMMA OwnStepEntire ==
  ASSUME Typed, OneTaskPerWork, NEW rj \in RJs, NEW w \in Workers, OwnStep(rj, w), Entire(rj),
         Finished(rj)
  PROVE  Entire(rj)' /\ Finished(rj)'
<1>1. TypeOK /\ active_tasks[rj] = w /\ job[w] = rj /\ Active(rj) /\ UNCHANGED cache
      /\ \A t \in Tracks : row[rj][t] # "none"
  BY RunnersKeep, OrchestratorAssumption DEF OrchestratorAssumption, Typed, OwnStep, Active, Entire
<1>2. CASE WorkerReaps(w)
  <2>1. UNCHANGED <<works, row, work_data>> /\ ~Runs(rj)'
    BY <1>1, <1>2 DEF TypeOK, WorkerReaps, Runs, Active, queueVars
  <2> QED BY <1>1, <2>1 DEF Entire, Finished
<1>3. CASE TaskAnalyses(w)
  <2>1. works[rj] # "completed" /\ ~Runs(rj)'
    BY <1>1, <1>3 DEF TypeOK, TaskAnalyses, Finished, Runs, Active, Live
  <2>2. \A t \in Tracks : row'[rj][t] \in {row[rj][t], "registered"}
    BY <1>1, <1>3 DEF TypeOK, TaskAnalyses
  <2>3. ASSUME works'[rj] = "completed", NEW t \in Tracks PROVE row'[rj][t] \in Done
    <3>1. AllDone(w)
      BY <1>1, <1>3, <2>1, <2>3 DEF TypeOK, TaskAnalyses
    <3>2. row[rj][t] \in Done
      BY <1>1, <3>1 DEF TypeOK, RowStatus, AllDone, HasRow, Unfinished, Done
    <3> QED BY <2>2, <3>2 DEF Done
  <2> QED BY <1>1, <2>1, <2>2, <2>3, FilledEntire DEF Entire, Finished
<1>4. ASSUME \/ CoverDone(w) \/ CoverFails(w) \/ TaskCancelled(w)
             \/ \E t \in Tracks : FileStep(w, t)
      PROVE  Entire(rj)' /\ Finished(rj)'
  <2>1. Runs(rj)
    BY <1>1, <1>4 DEF CoverDone, CoverFails, TaskCancelled, FileStep, FileEnds, FileWrites,
       FileSucceeds, FileFails, FileRetries, FileCancelled, Transferring, Runs, Live
  <2>2. UNCHANGED works
    BY <1>4 DEF CoverDone, CoverFails, TaskCancelled, FileStep, FileEnds, FileWrites, FileSucceeds,
       FileFails, FileRetries, FileCancelled, coreVars
  <2>3. \A t \in Tracks : row'[rj][t] # "none"
    <3>1. CASE CoverDone(w)
      BY <1>1, <3>1 DEF TypeOK, CoverDone
    <3>2. CASE CoverFails(w) \/ TaskCancelled(w)
      BY <1>1, <3>2 DEF CoverFails, TaskCancelled, coreVars
    <3>3. ASSUME NEW t \in Tracks, FileStep(w, t) PROVE \A u \in Tracks : row'[rj][u] # "none"
      <4>1. UNCHANGED row \/ \E st : st # "none" /\ row' = [row EXCEPT ![rj][t] = st]
        BY <1>1, <3>3 DEF FileStep, FileEnds, FileWrites, FileSucceeds, FileFails, FileRetries,
           FileCancelled, RowBecomes
      <4> QED BY <1>1, <4>1 DEF TypeOK
    <3> QED BY <1>4, <3>1, <3>2, <3>3
  <2> QED BY <1>1, <2>1, <2>2, <2>3, FilledEntire DEF Entire, Finished
<1> QED BY <1>2, <1>3, <1>4 DEF OwnStep, TaskStep

\* Pausing everything, a stop and a start keep the rows that there are.
LEMMA WholeEntire ==
  ASSUME Typed, WholeStep \/ BatchWakes, NEW rj \in RJs, Entire(rj), Finished(rj)
  PROVE  Entire(rj)' /\ Finished(rj)'
<1>1. TypeOK
  BY DEF Typed
<1>2. CASE BatchWakes
  BY <1>2 DEF BatchWakes, coreVars, queueVars, taskVars, Entire, Finished, Runs, Active, Live
<1>3. CASE WholeStep
  <2>1. WholeRow(rj) /\ (Runs(rj)' => Runs(rj)) /\ UNCHANGED cache
    BY <1>3, WholeRows, WholeRuns
  <2>2. works'[rj] = "completed" => works[rj] = "completed"
    BY <2>1 DEF WholeRow, PausedWork, Updated
  <2>3. \A t \in Tracks : /\ row'[rj][t] = "none" <=> row[rj][t] = "none"
                          /\ row[rj][t] \in Done => row'[rj][t] \in Done
    BY <2>1 DEF WholeRow, PausedRows, Done
  <2>4. (work_data'[rj] # {} => work_data[rj] # {}) /\ (Active(rj)' => Active(rj))
    BY <1>1, <1>3 DEF TypeOK, WholeStep, PauseAll, ResumeAll, ShutdownBegin, ShutdownJoin,
       ShutdownDone, Boot, WorkerExits, BatchDone, Crash, PauseEverything, Forget, vars, coreVars,
       queueVars, taskVars, Active
  <2>5. Entire(rj)'
    BY <2>1, <2>2, <2>3, <2>4, KeptEntire DEF Entire
  <2> QED BY <2>1, <2>2, <2>3, <2>5 DEF Finished
<1> QED BY <1>2, <1>3

\* What holds of a resume that is never suspended, and of every work then.
Settled ==
  /\ Unsuspended
  /\ \A rj \in RJs : Listed(rj) /\ Entire(rj) /\ Finished(rj)

\* At the start there are no rows and nothing is suspended.
LEMMA InitSettled == Init => Settled
  BY DEF Init, Settled, Unsuspended, Listed, Entire, Finished, Active

\* Settled is inductive on top of DoneInv.
LEMMA StepSettled ==
  ASSUME NothingLost, WholeLists, Typed, OneTaskPerWork, DoneInv, Settled, [Next]_vars
  PROVE  Settled'
<1>1. Unsuspended' /\ \A rj \in RJs : Listed(rj)'
  BY StepUnsuspended, StepListed DEF NothingLost, Settled
<1>2. ASSUME NEW rj \in RJs, OneStep(rj) PROVE \A q \in RJs : Entire(q)' /\ Finished(q)'
  <2>1. Entire(rj)' /\ Finished(rj)'
    BY <1>2, ResumeStepEntire, PlainStepEntire, HeadEntire, OwnStepEntire
       DEF Settled, OneStep, WorkStep
  <2>2. \A q \in RJs \ {rj} : Entire(q)' /\ Finished(q)'
    BY <1>2, OneStepAlone, AloneEntire DEF Typed, Settled
  <2> QED BY <2>1, <2>2
<1>3. WholeStep \/ BatchWakes => \A rj \in RJs : Entire(rj)' /\ Finished(rj)'
  BY WholeEntire DEF Settled
<1> QED BY <1>1, <1>2, <1>3, StepsByWork DEF Settled

\* Where the site lists a work whole or not at all, a completed work has no file left to
\* fetch, under either of two assumptions: that no resume is ever suspended, whatever the
\* OS refuses, tags lengthen or the user deletes; or that nothing is lost, refused or
\* lengthened, whatever retries, resumes, reconnects and auto-resumes overlap.
\* _analyze_completion and _reconcile_existing_before_resume write the status only when
\* the rows bear it out, and nothing that pauses, queues or restarts the work later
\* brings a row back without taking the status away.
THEOREM CompletedIsDone ==
  ASSUME WholeLists, NothingOverlaps \/ NothingLost PROVE Spec => []CompletedMeansDone
<1>1. ASSUME NothingOverlaps PROVE Spec => []CompletedMeansDone
  <2>1. Typed /\ OneTaskPerWork /\ Orderly /\ [Next]_vars => Orderly'
    BY <1>1, StepOrder
  <2>2. Typed /\ OneTaskPerWork /\ Orderly /\ CompletedInv /\ [Next]_vars => CompletedInv'
    BY <1>1, StepCompleted
  <2>3. CompletedInv => CompletedMeansDone
    BY DEF CompletedInv, CompletedOf, CompletedMeansDone
  <2> QED
    BY <2>1, <2>2, <2>3, InitTyped, StepTyped, InitOneTask, StepOneTask, InitOrder, InitCompleted,
       PTL DEF Spec
<1>2. ASSUME NothingLost PROVE Spec => []CompletedMeansDone
  <2>1. Typed /\ OneTaskPerWork /\ DoneInv /\ [Next]_vars => DoneInv'
    BY StepRows
  <2>2. Typed /\ OneTaskPerWork /\ DoneInv /\ Settled /\ [Next]_vars => Settled'
    BY <1>2, StepSettled
  <2>3. Settled => CompletedMeansDone
    BY DEF Settled, Finished, CompletedMeansDone, HasRow, Unfinished, Done
  <2>4. Init => DoneInv
    BY InitRows
  <2> QED
    BY <2>1, <2>2, <2>3, <2>4, InitTyped, StepTyped, InitOneTask, StepOneTask, InitSettled,
       PTL DEF Spec
<1> QED BY <1>1, <1>2

-----------------------------------------------------------------------------
(* A card always has a command that its work accepts.                       *)

\* A cancelled work has no file to fetch, and unless the user cancelled it in this
\* session nothing that could give it one.
CancelledOf(rj) ==
  /\ works[rj] = "cancelled" \/ rj \in user_cancelled_rjs => ~HasRow(rj, Unfinished)
  /\ works[rj] = "cancelled" /\ rj \notin user_cancelled_rjs =>
       rj \notin queued_rj_ids /\ ~Runs(rj)

CancelledInv == \A rj \in RJs : CancelledOf(rj)

\* The button of a card goes by the rows, its command by the status and the marks.
LEMMA CardOf ==
  ASSUME NEW rj \in RJs, CancelledOf(rj), Idle(rj), HasRow(rj, Unfinished \union {"cancelled"}),
         works[rj] # "completed"
  PROVE  \E b \in Buttons(Shown(queue_state(rj))) \ {"cancel"} : Accepted(rj, b)
<1> DEFINE state == queue_state(rj)
           cancelled == /\ works[rj] = "cancelled" \/ HasRow(rj, {"cancelled"})
                        /\ ~HasRow(rj, {"paused", "failed"})
<1>2. CASE HasRow(rj, {"downloading"})
  <2>1. Shown(state) = "downloading"
    BY <1>2 DEF queue_state, Shown
  <2>2. "pause" \in Buttons(Shown(state)) \ {"cancel"} /\ Accepted(rj, "pause")
    BY <2>1 DEF Buttons, Accepted
  <2> QED BY <2>2
<1>3. CASE ~HasRow(rj, {"downloading"}) /\ HasRow(rj, {"queued"})
  <2>1. Shown(state) = "queued"
    BY <1>3 DEF queue_state, Shown
  <2>2. "pause" \in Buttons(Shown(state)) \ {"cancel"} /\ Accepted(rj, "pause")
    BY <2>1 DEF Buttons, Accepted
  <2> QED BY <2>2
<1>4. CASE ~HasRow(rj, {"downloading"}) /\ ~HasRow(rj, {"queued"}) /\ cancelled
  <2>1. Shown(state) = "cancelled"
    BY <1>4 DEF queue_state, Shown
  <2>2. "retry" \in Buttons(Shown(state)) \ {"cancel"} /\ Accepted(rj, "retry")
    BY <1>4, <2>1 DEF Buttons, Accepted
  <2> QED BY <2>2
<1>5. CASE ~HasRow(rj, {"downloading"}) /\ ~HasRow(rj, {"queued"}) /\ ~cancelled
  <2>1. HasRow(rj, {"paused", "failed"})
    BY <1>5 DEF HasRow, Unfinished
  <2>2. ~Refused(rj, works[rj], user_cancelled_rjs)
    BY <2>1 DEF CancelledOf, HasRow, Unfinished, Refused, Idle
  <2>3. Shown(state) \in {"paused", "failed"}
    <3>1. HasRow(rj, {"paused"}) \/ HasRow(rj, {"failed"})
      BY <2>1 DEF HasRow
    <3>2. state = IF HasRow(rj, {"paused"}) THEN "paused" ELSE "failed"
      BY <1>5, <3>1 DEF queue_state
    <3> QED BY <3>2 DEF Shown
  <2>4. "resume" \in Buttons(Shown(state)) \ {"cancel"} /\ Accepted(rj, "resume")
    BY <2>2, <2>3 DEF Buttons, Accepted
  <2> QED BY <2>4
<1> QED BY <1>2, <1>3, <1>4, <1>5

\* The steps about other works write nothing of a cancelled one.
LEMMA AloneCancelled ==
  ASSUME NEW q \in RJs, Alone(q), CancelledOf(q)
  PROVE  CancelledOf(q)'
  BY DEF Alone, CancelledOf, HasRow, Runs, Active, Live

\* Steps that keep the work stopped and its rows as they are, or paused.
LEMMA KeptCancelled ==
  ASSUME NEW rj \in RJs, CancelledOf(rj), row'[rj] \in {row[rj], PausedRows(row[rj])},
         works'[rj] = "cancelled" => works[rj] = "cancelled",
         rj \in user_cancelled_rjs' <=> rj \in user_cancelled_rjs,
         rj \in queued_rj_ids' => rj \in queued_rj_ids,
         Runs(rj)' => Runs(rj)
  PROVE  CancelledOf(rj)'
<1>1. ~HasRow(rj, Unfinished) => ~HasRow(rj, Unfinished)'
  BY DEF HasRow, Unfinished, PausedRows
<1> QED BY <1>1 DEF CancelledOf

\* Cancelling leaves nothing to fetch.
LEMMA CancelledNow ==
  ASSUME TypeOK, NEW rj \in RJs, NEW s, NEW r, ~AlreadyTerminal(s, r), CancelWith(rj, s, r)
  PROVE  CancelledOf(rj)'
<1>1. rj \in user_cancelled_rjs' /\ row'[rj] = CancelledRows(r)
  BY DEF TypeOK, CancelWith, Write
<1>2. ~HasRow(rj, Unfinished)'
  BY <1>1 DEF CancelledRows, HasRow, Unfinished
<1> QED BY <1>1, <1>2 DEF CancelledOf

\* Preparing a work again gives a cancelled one no file to fetch.
LEMMA QueueWithCancelled ==
  ASSUME FaultyTracks = {}, TypeOK, NEW rj \in RJs, NEW listed, NEW goal, QueueWith(rj, listed, goal),
         CancelledOf(rj), UNCHANGED <<active_tasks, phase>>
  PROVE  CancelledOf(rj)'
<1> DEFINE r == PreparedRows(rj, listed)
<1>1. ~AlreadyTerminal("prepared", r)
  BY DEF AlreadyTerminal
<1>2. CASE CancelWith(rj, "prepared", r)
  BY <1>1, <1>2, CancelledNow
<1>3. CASE listed = {} /\ Write(rj, "prepared", r) /\ UNCHANGED <<user_cancelled_rjs, queueVars>>
  <2>1. \A t \in Tracks : row'[rj][t] = row[rj][t]
    BY <1>3 DEF TypeOK, Write, PreparedRows
  <2>2. works'[rj] = "prepared"
    BY <1>3 DEF TypeOK, Write
  <2> QED BY <1>3, <2>1, <2>2 DEF CancelledOf, HasRow
<1>4. CASE PauseWith(rj, "prepared", r, "stop") /\ rj \notin user_cancelled_rjs
  BY <1>4 DEF TypeOK, PauseWith, Write, PausedWork, Updated, CancelledOf
<1>5. CASE /\ rj \notin user_cancelled_rjs /\ UNCHANGED user_cancelled_rjs
           /\ Write(rj, "prepared", r)
  BY <1>5 DEF TypeOK, Write, CancelledOf
<1>6. ~PrepareRefused(rj, listed, goal)
  BY DEF PrepareRefused
<1> QED BY <1>2, <1>3, <1>4, <1>5, <1>6 DEF QueueWith

\* A task that goes on is not one of a cancelled work; one that was told to stop
\* gives a cancelled work no file to fetch.
LEMMA OwnStepCancelled ==
  ASSUME ~SwallowsCancel, Typed, OneTaskPerWork, CancelHolds, CancelledInv, NEW rj \in RJs,
         NEW w \in Workers, OwnStep(rj, w)
  PROVE  CancelledOf(rj)'
<1>1. TypeOK /\ CancelledOf(rj) /\ active_tasks[rj] = w /\ job[w] = rj /\ Active(rj)
      /\ UNCHANGED user_cancelled_rjs
  BY OrchestratorAssumption, RunnersKeep
     DEF OrchestratorAssumption, Typed, CancelledInv, OwnStep, Active
<1>2. CASE WorkerReaps(w)
  <2>1. UNCHANGED <<works, row, queued_rj_ids>> /\ ~Runs(rj)'
    BY <1>1, <1>2 DEF TypeOK, WorkerReaps, Runs, Active, queueVars
  <2> QED BY <1>1, <2>1, KeptCancelled
<1>3. CASE ~WorkerReaps(w) /\ rj \notin user_cancelled_rjs
  <2>1. Live(w)
    BY <1>3 DEF OwnStep, TaskStep, CoverDone, CoverFails, TaskCancelled, TaskAnalyses, FileStep,
       FileEnds, FileWrites, FileSucceeds, FileFails, FileRetries, FileCancelled, Transferring, Live
  <2>2. works[rj] # "cancelled"
    BY <1>1, <1>3, <2>1 DEF CancelledOf, Runs
  <2>3. works'[rj] \in {works[rj], "completed", "partial"}
    <3>1. CASE TaskAnalyses(w)
      BY <1>1, <3>1 DEF TypeOK, TaskAnalyses
    <3>2. CASE ~TaskAnalyses(w)
      <4>1. UNCHANGED works
        BY <1>3, <3>2 DEF OwnStep, TaskStep, CoverDone, CoverFails, TaskCancelled, FileStep,
           FileEnds, FileWrites, FileSucceeds, FileFails, FileRetries, FileCancelled, coreVars
      <4> QED BY <4>1
    <3> QED BY <3>1, <3>2
  <2> QED BY <1>1, <1>3, <2>2, <2>3 DEF CancelledOf
<1>4. CASE ~WorkerReaps(w) /\ rj \in user_cancelled_rjs
  <2>1. cancelling[w] \/ ~Live(w)
    BY <1>1, <1>4 DEF CancelHolds
  <2>2. TaskCancelled(w) \/ \E t \in Tracks : FileCancelled(w, t)
    BY <1>4, <2>1 DEF OwnStep, TaskStep, CoverDone, CoverFails, TaskAnalyses, FileStep, FileEnds,
       FileWrites, FileSucceeds, FileFails, FileRetries, Transferring, Live
  <2>3. CASE TaskCancelled(w)
    BY <1>1, <1>4, <2>3 DEF TaskCancelled, coreVars, CancelledOf, HasRow
  <2>4. ASSUME NEW t \in Tracks, FileCancelled(w, t) PROVE CancelledOf(rj)'
    <3>1. \A u \in Tracks : row'[rj][u] \in {row[rj][u], "cancelled"}
      BY <1>1, <1>4, <2>4 DEF TypeOK, FileCancelled, RowBecomes
    <3> QED BY <1>1, <1>4, <3>1 DEF CancelledOf, HasRow, Unfinished
  <2> QED BY <2>2, <2>3, <2>4
<1> QED BY <1>2, <1>3, <1>4

\* A resume is refused to a cancelled work, unless it is a retry.
LEMMA ResumeCancelled ==
  ASSUME FaultyTracks = {}, TypeOK, NEW rj \in RJs, NEW s, NEW r, NEW marked, NEW stopped, NEW goal,
         ResumeWith(rj, s, r, marked, stopped, goal), CancelledOf(rj), UNCHANGED taskVars,
         \/ s # "cancelled" /\ rj \notin stopped
         \/ /\ stopped = user_cancelled_rjs /\ (s = "cancelled" => works[rj] = "cancelled")
            /\ r = row[rj] \/ r = PausedRows(row[rj])
  PROVE  CancelledOf(rj)'
<1>1. user_cancelled_rjs' = stopped /\ (Runs(rj)' => Runs(rj))
  BY DEF ResumeWith, taskVars, Runs, Active, Live
<1>2. CASE UNCHANGED queueVars /\ Write(rj, s, r)
  <2>1. row'[rj] = r /\ works'[rj] = s /\ UNCHANGED queued_rj_ids
    BY <1>2 DEF TypeOK, Write, queueVars
  <2>2. CASE s # "cancelled" /\ rj \notin stopped
    BY <1>1, <2>1, <2>2 DEF CancelledOf
  <2>3. CASE /\ stopped = user_cancelled_rjs /\ (s = "cancelled" => works[rj] = "cancelled")
             /\ r = row[rj] \/ r = PausedRows(row[rj])
    <3>1. row'[rj] \in {row[rj], PausedRows(row[rj])}
      BY <2>1, <2>3
    <3> QED BY <1>1, <2>1, <2>3, <3>1, KeptCancelled
  <2> QED BY <2>2, <2>3
<1>3. CASE ~Refused(rj, s, stopped) /\ SettleWith(rj, s, r, cache[rj], goal)
  <2>1. works'[rj] \in {s, "queued", "completed", "none"}
    BY <1>3 DEF TypeOK, SettleWith, Updated
  <2>2. s # "cancelled" /\ rj \notin stopped
    BY <1>3 DEF Refused
  <2> QED BY <1>1, <2>1, <2>2 DEF CancelledOf
<1>4. ~SettleRefused(rj, s, r, cache[rj], goal)
  BY DEF SettleRefused
<1> QED BY <1>2, <1>3, <1>4 DEF ResumeWith

\* No resume takes up a work that was cancelled meanwhile, before or after its request.
LEMMA ResumeStepCancelled ==
  ASSUME FaultyTracks = {}, TypeOK, NEW rj \in RJs, ResumeStep(rj), CancelledOf(rj)
  PROVE  CancelledOf(rj)'
<1>1. UNCHANGED taskVars /\ (Runs(rj)' => Runs(rj))
  BY DEF ResumeStep, Retry, Resume, ReconnectIdle, ReconnectActive, ResumeAnswered,
     ResumeAnswerRefused, ResumeFails, ResumeReturns, ResumeThrows, ReconnectResumes,
     ReconnectTimesOut, taskVars, Runs, Active, Live
<1>2. CASE Retry(rj)
  <2>1. (IF works[rj] = "cancelled" THEN "partial" ELSE works[rj]) # "cancelled"
    OBVIOUS
  <2>2. rj \notin user_cancelled_rjs \ {rj}
    OBVIOUS
  <2> QED BY <1>1, <1>2, <2>1, <2>2, ResumeCancelled DEF Retry
<1>3. CASE Resume(rj) \/ ReconnectResumes(rj)
  BY <1>1, <1>3, ResumeCancelled DEF Resume, ReconnectResumes
<1>4. PausedWork(works[rj]) = "cancelled" => works[rj] = "cancelled"
  BY DEF PausedWork, Updated
<1>5. CASE ReconnectIdle(rj)
  BY <1>1, <1>4, <1>5, ResumeCancelled DEF ReconnectIdle
<1>6. CASE ReconnectActive(rj)
  <2>1. /\ UNCHANGED <<queued_rj_ids, user_cancelled_rjs>> /\ row'[rj] = PausedRows(row[rj])
        /\ works'[rj] = PausedWork(works[rj])
    BY <1>6 DEF TypeOK, ReconnectActive, PauseWith, Write, queueVars
  <2> QED BY <1>1, <1>4, <2>1, KeptCancelled
<1>7. CASE ResumeAnswered(rj)
  <2>1. PICK listed \in Catalogues : LET r == PreparedRows(rj, listed) IN
          \/ /\ listed = {} /\ Write(rj, "prepared", r)
             /\ UNCHANGED <<queueVars, user_cancelled_rjs>>
          \/ CancelWith(rj, "prepared", r)
          \/ rj \notin user_cancelled_rjs /\ PauseWith(rj, "prepared", r, "stop")
          \/ /\ rj \notin user_cancelled_rjs /\ UNCHANGED user_cancelled_rjs
             /\ SettleWith(rj, "prepared", r, listed, wish[rj])
    BY <1>7 DEF ResumeAnswered
  <2> DEFINE r == PreparedRows(rj, listed)
  <2>2. CASE listed = {} /\ Write(rj, "prepared", r) /\ UNCHANGED <<queueVars, user_cancelled_rjs>>
    <3>1. \A t \in Tracks : row'[rj][t] = row[rj][t]
      BY <2>2 DEF TypeOK, Write, PreparedRows
    <3>2. works'[rj] = "prepared"
      BY <2>2 DEF TypeOK, Write
    <3> QED BY <2>2, <3>1, <3>2 DEF CancelledOf, HasRow
  <2>3. CASE CancelWith(rj, "prepared", r)
    <3>1. ~AlreadyTerminal("prepared", r)
      BY DEF AlreadyTerminal
    <3> QED BY <2>3, <3>1, CancelledNow
  <2>4. CASE rj \notin user_cancelled_rjs /\ PauseWith(rj, "prepared", r, "stop")
    BY <2>4 DEF TypeOK, PauseWith, Write, PausedWork, Updated, CancelledOf
  <2>5. CASE /\ rj \notin user_cancelled_rjs /\ UNCHANGED user_cancelled_rjs
             /\ SettleWith(rj, "prepared", r, listed, wish[rj])
    <3>1. works'[rj] \in {"prepared", "queued", "completed"}
      BY <2>5 DEF TypeOK, SettleWith, Updated
    <3> QED BY <2>5, <3>1 DEF CancelledOf
  <2> QED BY <2>1, <2>2, <2>3, <2>4, <2>5
<1>8. CASE ResumeFails(rj) \/ ReconnectTimesOut(rj)
  <2>1. /\ UNCHANGED <<queued_rj_ids, user_cancelled_rjs, row>>
        /\ works'[rj] = "cancelled" => works[rj] = "cancelled"
    BY <1>8 DEF TypeOK, ResumeFails, FetchFails, ReconnectTimesOut, Updated, coreVars, queueVars
  <2> QED BY <1>1, <2>1, KeptCancelled
<1>9. ~ResumeAnswerRefused(rj)
  BY DEF ResumeAnswerRefused, PrepareRefused, SettleRefused
<1> QED BY <1>2, <1>3, <1>5, <1>6, <1>7, <1>8, <1>9 DEF ResumeStep

\* A step about a work that is cancelled gives it nothing to fetch.
LEMMA WorkCancelled ==
  ASSUME FaultyTracks = {}, ~SwallowsCancel, Typed, OneTaskPerWork, CancelHolds, CancelledInv, NEW rj \in RJs,
         WorkStep(rj)
  PROVE  CancelledOf(rj)'
<1>1. TypeOK /\ CancelledOf(rj)
  BY DEF Typed, CancelledInv
<1>2. CASE PlainStep(rj)
  <2>1. UNCHANGED <<active_tasks, phase>> /\ (Runs(rj)' => Runs(rj))
    BY <1>2 DEF PlainStep, QueueAgain, QueueCached, QueueFetching, Pause, Cancel, LoseCache,
       DeleteFile, QueueAnswered, QueueFails, taskVars, Runs, Active, Live
  <2>2. CASE QueueCached(rj) \/ QueueAnswered(rj)
    <3>1. \E listed, goal : QueueWith(rj, listed, goal)
      BY <2>2 DEF QueueCached, QueueAnswered
    <3> QED BY <1>1, <2>1, <3>1, QueueWithCancelled
  <2>3. CASE Pause(rj)
    <3>1. /\ UNCHANGED <<queued_rj_ids, user_cancelled_rjs>> /\ row'[rj] = PausedRows(row[rj])
          /\ works'[rj] = PausedWork(works[rj])
      BY <1>1, <2>3 DEF TypeOK, Pause, PauseWith, Write, queueVars
    <3>2. works'[rj] = "cancelled" => works[rj] = "cancelled"
      BY <3>1 DEF PausedWork, Updated
    <3> QED BY <1>1, <2>1, <3>1, <3>2, KeptCancelled
  <2>4. CASE Cancel(rj)
    <3>1. CASE AlreadyTerminal(works[rj], row[rj])
      <4>1. /\ UNCHANGED <<queued_rj_ids, user_cancelled_rjs>>
            /\ row'[rj] = row[rj] /\ works'[rj] = works[rj]
        BY <1>1, <2>4, <3>1 DEF TypeOK, Cancel, CancelWith, Write
      <4> QED BY <1>1, <2>1, <4>1, KeptCancelled
    <3>2. CASE ~AlreadyTerminal(works[rj], row[rj])
      BY <1>1, <2>4, <3>2, CancelledNow DEF Cancel
    <3> QED BY <3>1, <3>2
  <2>5. CASE \/ QueueAgain(rj) \/ QueueFetching(rj) \/ LoseCache(rj) \/ QueueFails(rj)
             \/ \E t \in Tracks : DeleteFile(rj, t)
    <3>1. /\ UNCHANGED <<queued_rj_ids, user_cancelled_rjs, row>>
          /\ works'[rj] = "cancelled" => works[rj] = "cancelled"
      BY <1>1, <2>5 DEF TypeOK, QueueAgain, QueueFetching, LoseCache, QueueFails, FetchFails,
         DeleteFile, Updated, coreVars, queueVars
    <3> QED BY <1>1, <2>1, <3>1, KeptCancelled
  <2> QED BY <1>2, <2>2, <2>3, <2>4, <2>5 DEF PlainStep
<1>3. CASE loop = "spin" /\ BatchNext(rj)
  <2>1. UNCHANGED taskVars
    BY <1>3 DEF BatchNext
  <2> QED BY <1>1, <1>3, <2>1, ResumeCancelled DEF BatchNext
<1>4. CASE QueueHead(rj)
  <2>1. UNCHANGED <<works, row, user_cancelled_rjs>> /\ rj \notin queued_rj_ids'
    BY <1>4 DEF QueueHead, WorkerSkips, WorkerStarts, Unqueue
  <2>2. CASE \E w \in Workers : WorkerSkips(w)
    <3>1. Runs(rj)' => Runs(rj)
      BY <2>2 DEF WorkerSkips, Runs, Active, Live, taskVars
    <3> QED BY <1>1, <2>1, <3>1, KeptCancelled
  <2>3. CASE \E w \in Workers : WorkerStarts(w)
    <3>1. rj \in queued_rj_ids
      BY <1>4, <2>3 DEF QueueHead, WorkerStarts, MayStart
    <3>2. rj \notin user_cancelled_rjs /\ works[rj] # "cancelled"
      BY <1>1, <3>1 DEF CancelHolds, CancelledOf
    <3> QED BY <2>1, <3>2 DEF CancelledOf
  <2> QED BY <1>4, <2>2, <2>3 DEF QueueHead
<1> QED BY <1>2, <1>3, <1>4, OwnStepCancelled DEF WorkStep

\* Nor do a pause of everything, a stop or a start.
LEMMA WholeCancelled ==
  ASSUME Typed, CancelledInv, WholeStep
  PROVE  CancelledInv'
<1> SUFFICES ASSUME NEW rj \in RJs PROVE CancelledOf(rj)'
  BY DEF CancelledInv
<1>1. /\ CancelledOf(rj) /\ WholeRow(rj)
      /\ Runs(rj)' => Runs(rj)
      /\ rj \in queued_rj_ids' => rj \in queued_rj_ids
  BY WholeRows, WholeRuns DEF CancelledInv
<1>2. works'[rj] = "cancelled" => works[rj] = "cancelled"
  BY <1>1 DEF WholeRow, PausedWork, Updated
<1>3. ~HasRow(rj, Unfinished) => ~HasRow(rj, Unfinished)'
  BY <1>1 DEF WholeRow, PausedRows, HasRow, Unfinished
<1>4. CASE UNCHANGED user_cancelled_rjs
  BY <1>1, <1>2, <1>3, <1>4 DEF CancelledOf
<1>5. CASE ShutdownDone \/ Crash
  <2>1. user_cancelled_rjs' = {} /\ queued_rj_ids' = {} /\ ~Runs(rj)'
    BY <1>5 DEF ShutdownDone, Crash, Forget, Runs, Active
  <2> QED BY <1>1, <1>2, <1>3, <2>1 DEF CancelledOf
<1> QED
  BY <1>4, <1>5 DEF WholeStep, PauseAll, ResumeAll, ShutdownBegin, ShutdownJoin, Boot, WorkerExits,
     BatchDone, PauseEverything, vars, coreVars

\* No work is cancelled at the start.
LEMMA InitCancelled == Init => CancelledInv
  BY DEF Init, CancelledInv, CancelledOf, HasRow, Unfinished

\* CancelledInv is inductive on top of CancelHolds, whatever commands overlap.
LEMMA StepCancelled ==
  ASSUME FaultyTracks = {}, ~SwallowsCancel, Typed, OneTaskPerWork, CancelHolds, CancelledInv, [Next]_vars
  PROVE  CancelledInv'
<1>1. ASSUME NEW rj \in RJs, OneStep(rj) PROVE CancelledInv'
  <2>1. CancelledOf(rj)'
    BY <1>1, WorkCancelled, ResumeStepCancelled DEF OneStep, Typed, CancelledInv
  <2>2. \A q \in RJs \ {rj} : CancelledOf(q)'
    BY <1>1, OneStepAlone, AloneCancelled DEF Typed, CancelledInv
  <2> QED BY <2>1, <2>2 DEF CancelledInv
<1>2. CASE BatchWakes
  BY <1>2 DEF BatchWakes, coreVars, queueVars, taskVars, CancelledInv, CancelledOf, HasRow, Runs,
     Active, Live
<1> QED BY <1>1, <1>2, WholeCancelled, StepsByWork

\* Under the same assumptions, if Python loses no cancellation and the OS refuses no file,
\* a work that rests with a file to fetch has a button whose command is accepted, whatever
\* stopped it: the status and the rows that _queue_state reads never contradict the marks
\* and the status that resume_job and retry_job go by.  A refusal half-way through
\* prepare_work leaves such a contradiction: queued rows under the mark of a cancel.
THEOREM CardsCanAct ==
  ASSUME WholeLists, NothingOverlaps \/ NothingLost, FaultyTracks = {}, ~SwallowsCancel
  PROVE  Spec => []CardsAct
<1>1. Typed /\ OneTaskPerWork /\ CancelHolds /\ [Next]_vars => CancelHolds'
  BY StepCancel
<1>2. Typed /\ OneTaskPerWork /\ CancelHolds /\ CancelledInv /\ [Next]_vars => CancelledInv'
  BY StepCancelled
<1>3. CompletedMeansDone /\ CancelledInv => CardsAct
  BY CardOf DEF CompletedMeansDone, CancelledInv, CardsAct
<1>4. Spec => []CompletedMeansDone
  BY CompletedIsDone
<1> QED
  BY <1>1, <1>2, <1>3, <1>4, InitTyped, StepTyped, InitOneTask, StepOneTask, InitCancel,
     InitCancelled, PTL DEF Spec
=============================================================================
