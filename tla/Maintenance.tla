------------------------------ MODULE Maintenance ------------------------------
(***************************************************************************)
(* Tools that write the tables beside the downloader, each as the worker   *)
(* threads of tools_view run it: the cleanup of the metadata cache         *)
(* (core/tools_maintenance.py), the return of rows that were given up to   *)
(* the queue (tools/backlog_reenable.py), and the closeout that gives rows *)
(* up (core/unfinished_closeout.py).  A tool reads, decides, and writes in *)
(* a transaction of its own later.                                         *)
(***************************************************************************)
EXTENDS LibraryState

VARIABLES
  cleaning,     \* idle, preview, compare or delete
  candidates,   \* works whose cache row is to go
  enabling,     \* idle, selected, ask, read or write
  selected,     \* _backlog_candidate_ids
  preimage      \* rows of the selected works that were given up

maintenance == <<cleaning, candidates, enabling, selected, preimage>>
clearing == <<cleaning, candidates>>
backlog == <<enabling, selected, preimage>>

GivenUp == {"stale", "ignored"}

MaintenanceTypeOK ==
  /\ cleaning \in {"idle", "preview", "compare", "delete"}
  /\ candidates \subseteq Works
  /\ enabling \in {"idle", "selected", "ask", "read", "write"}
  /\ selected \subseteq Works
  /\ preimage \in [Works -> UNION {[files -> RowStatuses] : files \in SUBSET Tracks}]

NoPreimage == [w \in Works |-> << >>]

MaintenanceInit ==
  /\ cleaning = "idle" /\ candidates = {}
  /\ enabling = "idle" /\ selected = {} /\ preimage = NoPreimage

-----------------------------------------------------------------------------
(* Cleanup of the metadata cache *)

Removable == {w \in Works : cache[w] = "expired" /\ ~Protected(db[w])}

ClearCache ==
  /\ cleaning = "idle" /\ cleaning' = "preview"
  /\ UNCHANGED <<candidates, backlog, shared, bounds>>

PreviewCache ==
  /\ cleaning = "preview"
  /\ candidates' = Removable /\ cleaning' = "compare"
  /\ UNCHANGED <<backlog, shared, bounds>>

\* preview_changed, or nothing to delete.
CompareCache ==
  /\ cleaning = "compare"
  /\ IF Removable = candidates /\ candidates # {}
       THEN cleaning' = "delete" /\ UNCHANGED candidates
       ELSE cleaning' = "idle" /\ candidates' = {}
  /\ UNCHANGED <<backlog, shared, bounds>>

\* Mutant: what was removable at the preview is deleted.
DeletePreviewed ==
  /\ cleaning = "delete"
  /\ cache' = [w \in Works |-> IF w \in candidates THEN "none" ELSE cache[w]]
  /\ cleaning' = "idle" /\ candidates' = {}
  /\ UNCHANGED <<disk, db, running, preserved, backlog, bounds>>

\* The rows of downloads are looked at again, the age of the cache row is not:
\* a row that was fetched again meanwhile is deleted.
DeleteCache ==
  /\ cleaning = "delete"
  /\ cache' = [w \in Works |->
       IF w \in candidates /\ ~Protected(db[w]) THEN "none" ELSE cache[w]]
  /\ cleaning' = "idle" /\ candidates' = {}
  /\ UNCHANGED <<disk, db, running, preserved, backlog, bounds>>

-----------------------------------------------------------------------------
(* Rows that were given up *)

GivenUpRows(e) ==
  LET files == {f \in DOMAIN e.rows : e.rows[f].status \in GivenUp}
  IN  [f \in files |-> e.rows[f].status]

\* backlog_preview.
SelectBacklog ==
  /\ enabling \in {"idle", "selected"}
  /\ \E works \in SUBSET {w \in Works : GivenUpRows(db[w]) # << >>} :
       /\ works # {} /\ selected' = works
       /\ selected # works
  /\ enabling' = "selected"
  /\ UNCHANGED <<preimage, clearing, shared, bounds>>

\* The dialog of backlog_reenable opens while the downloader has no work.
AskReenable ==
  /\ enabling = "selected" /\ running = {}
  /\ enabling' = "ask"
  /\ UNCHANGED <<selected, preimage, clearing, shared, bounds>>

Answered(s) == enabling = "ask" /\ enabling' = s
               /\ UNCHANGED <<selected, preimage, clearing, shared, bounds>>
ConfirmReenable == Answered("read")
CancelReenable  == Answered("selected")

QueueIdle == \A w \in Works : ~HasPending(db[w])
Preimage == [w \in Works |-> IF w \in selected THEN GivenUpRows(db[w]) ELSE << >>]

\* safety_checks and _rows_for_ids, then the backup.
ReadBacklog ==
  /\ enabling = "read"
  /\ IF QueueIdle /\ Preimage # NoPreimage
       THEN preimage' = Preimage /\ enabling' = "write"
       ELSE enabling' = "selected" /\ UNCHANGED preimage
  /\ UNCHANGED <<selected, clearing, shared, bounds>>

Requeued(e) ==
  [e EXCEPT !.rows = [f \in DOMAIN @ |->
     IF @[f].status \in GivenUp THEN [@[f] EXCEPT !.status = "queued"] ELSE @[f]]]

\* Both checks again under BEGIN IMMEDIATE.
WriteBacklog ==
  /\ enabling = "write"
  /\ db' = IF QueueIdle /\ Preimage = preimage
             THEN [w \in Works |-> IF w \in selected THEN Requeued(db[w]) ELSE db[w]]
             ELSE db
  /\ enabling' = "selected" /\ preimage' = NoPreimage
  /\ UNCHANGED <<selected, disk, cache, running, preserved, clearing, bounds>>

\* classify_download_row: what the plan suggests for a row.
CloseoutStatus(e, f) ==
  LET row == e.rows[f]
      active == \E g \in DOMAIN e.rows : e.rows[g].status \in {"queued", "downloading"}
  IN
  CASE row.status \in {"failed", "paused"} /\ (row.at = NoFolder \/ ~Present(row.at))
         -> "stale"
    [] row.status = "registered" /\ ~active -> "ignored"
    [] OTHER -> row.status

\* The plan is a preview in SQL; a user applies it.
CloseOut(w) ==
  /\ running = {} /\ DOMAIN db[w].rows # {}
  /\ db' = [db EXCEPT ![w].rows = [f \in DOMAIN @ |->
       [@[f] EXCEPT !.status = CloseoutStatus(db[w], f)]]]
  /\ db' # db
  /\ UNCHANGED <<disk, cache, running, preserved, maintenance, bounds>>

\* A tool that was begun goes on.
Cleanup == PreviewCache \/ CompareCache \/ DeleteCache
Reenable == ReadBacklog \/ WriteBacklog
================================================================================
