------------------------ MODULE MetadataSchedulerProofs ------------------------
(***************************************************************************)
(* For any number of requests and workers: the types of the scheduler and  *)
(* NoRequestLost.  The invariant that carries both adds that a closed      *)
(* scheduler has no job left in a worker.                                  *)
(***************************************************************************)
EXTENDS MetadataScheduler, FiniteSetTheorems, TLAPS

Drained == closing = "closed" => active = {}

SchedulerInv ==
  /\ SchedulerTypeOK
  /\ IsFiniteSet(active)
  /\ NoRequestLost
  /\ Drained

LEMMA SlotsType == Slots \in Nat /\ Slots > 0
BY SchedulerAssumption

-----------------------------------------------------------------------------
(* The queue as a set *)

\* Appending adds one job to those on the queue.
LEMMA OnLineAppend ==
  ASSUME line \in Seq(Requests), NEW r, line' = Append(line, r)
  PROVE  OnLine' = OnLine \union {r}
<1>1. /\ DOMAIN line = 1..Len(line) /\ Len(line) \in Nat
      /\ DOMAIN line' = 1..(Len(line) + 1)
      /\ line'[Len(line) + 1] = r
      /\ \A i \in 1..Len(line) : line'[i] = line[i]
  OBVIOUS
<1>2. OnLine' \subseteq OnLine \union {r}
  BY <1>1 DEF OnLine
<1>3. OnLine \union {r} \subseteq OnLine'
  <2>1. r \in OnLine'
    BY <1>1 DEF OnLine
  <2>2. OnLine \subseteq OnLine'
    BY <1>1 DEF OnLine
  <2> QED BY <2>1, <2>2
<1> QED BY <1>2, <1>3

\* Of the jobs on the queue only the first goes with it.
LEMMA OnLineTail ==
  ASSUME line \in Seq(Requests), line # << >>, line' = Tail(line)
  PROVE  /\ line' \in Seq(Requests)
         /\ Head(line) \in Requests
         /\ OnLine \subseteq OnLine' \union {Head(line)}
<1>1. /\ DOMAIN line = 1..Len(line) /\ Len(line) \in Nat \ {0}
      /\ DOMAIN line' = 1..(Len(line) - 1)
      /\ line[1] = Head(line)
      /\ \A i \in 1..(Len(line) - 1) : line'[i] = line[i + 1]
      /\ line' \in Seq(Requests) /\ Head(line) \in Requests
  OBVIOUS
<1>2. ASSUME NEW i \in DOMAIN line PROVE line[i] \in OnLine' \union {Head(line)}
  <2>1. CASE i = 1
    BY <1>1, <2>1
  <2>2. CASE i # 1
    <3>1. i - 1 \in 1..(Len(line) - 1) /\ (i - 1) + 1 = i
      BY <1>1, <2>2
    <3> QED BY <1>1, <3>1 DEF OnLine
  <2> QED BY <2>1, <2>2
<1> QED BY <1>1, <1>2 DEF OnLine

-----------------------------------------------------------------------------
(* Every step *)

LEMMA SchedulerInitHolds == SchedulerInit => SchedulerInv
<1> SUFFICES ASSUME SchedulerInit PROVE SchedulerInv
  OBVIOUS
<1>1. IsFiniteSet(active) /\ Cardinality(active) = 0
  BY FS_EmptySet DEF SchedulerInit
<1> QED BY <1>1, SlotsType
     DEF SchedulerInit, SchedulerInv, SchedulerTypeOK, NoRequestLost, Drained, OnLine

LEMMA SubmitKeeps ==
  ASSUME SchedulerInv, NEW r \in Requests, Submit(r)
  PROVE  SchedulerInv'
<1> USE DEF Submit, SchedulerInv
<1>1. OnLine' = OnLine \union {r}
  BY OnLineAppend DEF SchedulerTypeOK
<1>2. Cardinality(active) \in Nat
  BY FS_CardinalityType
<1>3. SchedulerTypeOK'
  BY <1>2, SlotsType DEF SchedulerTypeOK
<1>4. NoRequestLost'
  BY <1>1 DEF NoRequestLost
<1> QED BY <1>3, <1>4 DEF Drained

LEMMA AbandonKeeps ==
  ASSUME SchedulerInv, NEW r \in Requests, Abandon(r)
  PROVE  SchedulerInv'
BY DEF Abandon, SchedulerInv, SchedulerTypeOK, NoRequestLost, Drained, OnLine

\* A set to which one element may be added.
LEMMA AtMostOneMore ==
  ASSUME NEW S, IsFiniteSet(S), NEW x, NEW P, NEW T, T = S \union ({x} \intersect P)
  PROVE  IsFiniteSet(T) /\ Cardinality(T) <= Cardinality(S) + 1
<1>1. Cardinality(S) \in Nat
  BY FS_CardinalityType
<1>2. CASE x \in P
  <2>1. T = S \union {x}
    BY <1>2
  <2>2. /\ IsFiniteSet(S \union {x})
        /\ Cardinality(S \union {x}) \in {Cardinality(S), Cardinality(S) + 1}
    BY FS_AddElement
  <2>3. IsFiniteSet(T) /\ Cardinality(T) \in {Cardinality(S), Cardinality(S) + 1}
    BY <2>1, <2>2, Zenon
  <2> QED BY <1>1, <2>3
<1>3. CASE x \notin P
  <2>1. T = S
    BY <1>3
  <2>2. IsFiniteSet(T) /\ Cardinality(T) = Cardinality(S)
    BY <2>1, Zenon
  <2> QED BY <1>1, <2>2
<1> QED BY <1>2, <1>3

LEMMA TakeKeeps ==
  ASSUME SchedulerInv, Take
  PROVE  SchedulerInv'
<1> USE DEF Take, SchedulerInv
<1>1. /\ line' \in Seq(Requests) /\ Head(line) \in Requests
      /\ OnLine \subseteq OnLine' \union {Head(line)}
  BY OnLineTail DEF SchedulerTypeOK
<1>3. /\ IsFiniteSet(active')
      /\ Cardinality(active') <= Cardinality(active) + 1
  BY AtMostOneMore
<1>4. Cardinality(active) \in Nat /\ Cardinality(active') \in Nat
  BY <1>3, FS_CardinalityType
<1>5. SchedulerTypeOK'
  <2>1. Cardinality(active') <= workers'
    BY <1>3, <1>4, SlotsType DEF SchedulerTypeOK
  <2> QED BY <1>1, <2>1 DEF SchedulerTypeOK
<1>6. NoRequestLost'
  BY <1>1 DEF NoRequestLost
<1> QED BY <1>3, <1>5, <1>6 DEF Drained

\* A job leaves its worker, and its request ends: Answer and WorkerStops.
LEMMA LeavesKeeps ==
  ASSUME SchedulerInv, NEW r \in active,
         active' = active \ {r}, pending' = pending \ {r},
         UNCHANGED <<line, closing, workers>>
  PROVE  SchedulerInv'
<1> USE DEF SchedulerInv
<1>1. /\ IsFiniteSet(active')
      /\ Cardinality(active') = Cardinality(active) - 1
  BY FS_RemoveElement
<1>2. Cardinality(active) \in Nat
  BY FS_CardinalityType
<1>3. SchedulerTypeOK'
  BY <1>1, <1>2, SlotsType DEF SchedulerTypeOK
<1>4. NoRequestLost'
  BY DEF NoRequestLost, OnLine
<1> QED BY <1>1, <1>3, <1>4 DEF Drained

LEMMA CloseKeeps ==
  ASSUME SchedulerInv, Close
  PROVE  SchedulerInv'
<1> USE DEF Close, SchedulerInv
<1>1. SchedulerTypeOK'
  BY DEF SchedulerTypeOK
<1>2. closing' = "closed" => active = {}
  <2> SUFFICES ASSUME workers = 0 PROVE active = {}
    BY DEF SchedulerTypeOK
  <2>1. Cardinality(active) \in Nat
    BY FS_CardinalityType
  <2>2. Cardinality(active) = 0
    BY <2>1 DEF SchedulerTypeOK
  <2> QED BY <2>2, FS_EmptySet
<1>3. OnLine' = {}
  BY DEF OnLine
<1>4. pending' \subseteq active
  BY DEF NoRequestLost
<1>5. NoRequestLost'
  BY <1>2, <1>3, <1>4 DEF NoRequestLost
<1> QED BY <1>1, <1>2, <1>5 DEF Drained

LEMMA StoppedKeeps ==
  ASSUME SchedulerInv, Stopped
  PROVE  SchedulerInv'
<1> USE DEF Stopped, SchedulerInv
<1>1. OnLine = {} /\ OnLine' = {}
  BY DEF NoRequestLost, OnLine
<1>2. Cardinality(active') = 0
  BY FS_EmptySet
<1>3. SchedulerTypeOK'
  BY <1>2 DEF SchedulerTypeOK
<1>4. NoRequestLost'
  BY <1>1 DEF NoRequestLost
<1> QED BY <1>3, <1>4 DEF Drained

\* Every step of the scheduler keeps the invariant.
LEMMA SchedulerStepKeeps == SchedulerInv /\ [SchedulerNext]_scheduler => SchedulerInv'
<1> SUFFICES ASSUME SchedulerInv, [SchedulerNext]_scheduler PROVE SchedulerInv'
  OBVIOUS
<1>1. ASSUME NEW r \in Requests, Submit(r) PROVE SchedulerInv'
  BY <1>1, SubmitKeeps
<1>2. ASSUME NEW r \in Requests, Abandon(r) PROVE SchedulerInv'
  BY <1>2, AbandonKeeps
<1>3. ASSUME NEW r \in Requests, WorkerStops(r) PROVE SchedulerInv'
  BY <1>3, LeavesKeeps DEF WorkerStops
<1>4. ASSUME NEW r \in Requests, NEW end \in {"answered", "failed"}, Answer(r, end)
      PROVE  SchedulerInv'
  BY <1>4, LeavesKeeps DEF Answer
<1>5. CASE Take
  BY <1>5, TakeKeeps
<1>6. CASE Close
  BY <1>6, CloseKeeps
<1>7. CASE Stopped
  BY <1>7, StoppedKeeps
<1>8. CASE UNCHANGED scheduler
  BY <1>8 DEF scheduler, SchedulerInv, SchedulerTypeOK, NoRequestLost, Drained, OnLine
<1> QED BY <1>1, <1>2, <1>3, <1>4, <1>5, <1>6, <1>7, <1>8 DEF SchedulerNext

LEMMA SchedulerInvariant == SchedulerSpec => []SchedulerInv
<1>1. SchedulerInit => SchedulerInv
  BY SchedulerInitHolds
<1>2. SchedulerInv /\ [SchedulerNext]_scheduler => SchedulerInv'
  BY SchedulerStepKeeps
<1> QED BY <1>1, <1>2, PTL DEF SchedulerSpec

\* The scheduler keeps its types, and never runs more jobs than it has workers,
\* for every number of requests and workers (start, submit, _worker, shutdown).
THEOREM SchedulerTypeCorrect == SchedulerSpec => []SchedulerTypeOK
<1>1. SchedulerInv => SchedulerTypeOK
  BY DEF SchedulerInv
<1> QED BY <1>1, SchedulerInvariant, PTL

\* No request is ever left without a job that will settle it, whatever is
\* abandoned, answered or shut down meanwhile (submit, _worker, shutdown).
THEOREM SchedulerLosesNone == SchedulerSpec => []NoRequestLost
<1>1. SchedulerInv => NoRequestLost
  BY DEF SchedulerInv
<1> QED BY <1>1, SchedulerInvariant, PTL
================================================================================
