--------------------------- MODULE MetadataScheduler ---------------------------
(***************************************************************************)
(* MetadataScheduler (core/metadata_scheduler.py): requests wait in one    *)
(* queue for a bounded number of workers, apart from the downloads; the    *)
(* factory of a request is ARSMKernel.fetch (core/network.py), which ends  *)
(* with an answer or, after every mirror has failed, without one.          *)
(*                                                                         *)
(* A request is a caller of submit; it may call again once the job of its  *)
(* earlier call has left the scheduler.                                    *)
(***************************************************************************)
EXTENDS Naturals, Sequences, FiniteSets

CONSTANTS
  Requests,     \* callers of submit
  Slots         \* max(1, min(concurrency, 8))

ASSUME SchedulerAssumption == Slots \in 1..8

VARIABLES
  line,         \* jobs on _queue
  pending,      \* requests whose future is not done
  active,       \* jobs whose factory runs
  closing,      \* _closing: no, stopping while shutdown awaits the workers, closed
  workers       \* tasks of _worker still running

scheduler == <<line, pending, active, closing, workers>>

OnLine == {line[i] : i \in DOMAIN line}

SchedulerTypeOK ==
  /\ line \in Seq(Requests)
  /\ pending \subseteq Requests
  /\ active \subseteq Requests /\ Cardinality(active) <= workers
  /\ closing \in {"no", "stopping", "closed"}
  /\ workers \in {0, Slots}

SchedulerInit ==
  /\ line = << >> /\ pending = {} /\ active = {}
  /\ closing = "no" /\ workers = 0

\* submit starts the workers; a closing scheduler refuses.
Submit(r) ==
  /\ closing = "no" /\ r \notin pending \union OnLine \union active
  /\ pending' = pending \union {r}
  /\ line' = Append(line, r)
  /\ workers' = Slots
  /\ UNCHANGED <<active, closing>>

\* The caller is cancelled while it awaits the future.
Abandon(r) ==
  /\ r \in pending
  /\ pending' = pending \ {r}
  /\ UNCHANGED <<line, active, closing, workers>>

\* A worker takes the next job, and drops one whose future is cancelled.
Take ==
  /\ closing = "no"
  /\ line # << >> /\ Cardinality(active) < workers
  /\ line' = Tail(line)
  /\ active' = active \union ({Head(line)} \intersect pending)
  /\ UNCHANGED <<pending, closing, workers>>

\* Mutant: an error of the factory does not reach the future.
AnswerOnly(r, end) ==
  /\ r \in active
  /\ active' = active \ {r}
  /\ pending' = IF end = "answered" THEN pending \ {r} ELSE pending
  /\ UNCHANGED <<line, closing, workers>>

\* The factory ends with a result or an error, and the future with it.
Answer(r, end) ==
  /\ r \in active
  /\ active' = active \ {r}
  /\ pending' = pending \ {r}
  /\ UNCHANGED <<line, closing, workers>>

\* Mutant: the jobs on the queue are forgotten.
CloseUnsettled ==
  /\ closing = "no"
  /\ closing' = IF workers = 0 THEN "closed" ELSE "stopping"
  /\ line' = << >>
  /\ UNCHANGED <<pending, active, workers>>

\* shutdown up to its first await: submit refuses from here, and every job on
\* the queue is cancelled.
Close ==
  /\ closing = "no"
  /\ closing' = IF workers = 0 THEN "closed" ELSE "stopping"
  /\ pending' = pending \ OnLine
  /\ line' = << >>
  /\ UNCHANGED <<active, workers>>

\* A cancelled worker cancels the future of its job.
WorkerStops(r) ==
  /\ closing = "stopping" /\ r \in active
  /\ active' = active \ {r}
  /\ pending' = pending \ {r}
  /\ UNCHANGED <<line, closing, workers>>

Stopped ==
  /\ closing = "stopping" /\ active = {}
  /\ closing' = "closed" /\ workers' = 0
  /\ UNCHANGED <<line, pending, active>>

-----------------------------------------------------------------------------
(* The scheduler alone *)

SchedulerNext ==
  \/ \E r \in Requests : Submit(r) \/ Abandon(r) \/ WorkerStops(r)
  \/ \E r \in Requests, end \in {"answered", "failed"} : Answer(r, end)
  \/ Take \/ Close \/ Stopped

SchedulerSpec == SchedulerInit /\ [][SchedulerNext]_scheduler

\* A request that is not done has its job on the queue or in a worker, so a
\* future that nobody will settle never waits: neither an abandoned request
\* taken off the queue nor the shutdown loses one (submit, _worker, shutdown).
NoRequestLost ==
  /\ pending \subseteq OnLine \union active
  /\ closing # "no" => line = << >>
  /\ closing = "closed" => pending = {}
================================================================================
