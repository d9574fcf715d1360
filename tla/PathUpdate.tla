------------------------------ MODULE PathUpdate ------------------------------
(***************************************************************************)
(* The one transaction that changes where a work is                        *)
(* (LibraryVault.update_external_intake_paths over core/intake_db.py), and *)
(* the tables it reads.  It is used by IntakeExecutor and by               *)
(* MigrationEngine.                                                        *)
(*                                                                         *)
(* The four tables are one record per work: its row of works (status       *)
(* "none" when there is no row), its row of library_items, its rows of     *)
(* library_index and its rows of downloads, one per track file.  A path is *)
(* the folder it lies in; the columns that nothing compares are left out.  *)
(* A snapshot token is equal when the rows are, so the rows stand for it.  *)
(***************************************************************************)
CONSTANTS
  Works,
  Folders,      \* folders of works
  NoFolder,     \* an empty path column
  Tracks        \* names of track files

ASSUME FolderAssumption == NoFolder \notin Folders

WorkStatuses == {"none", "prepared", "queued", "paused", "cancelled", "external", "indexed", "missing",
                 "partial", "verified", "completed"}
RowStatuses  == {"queued", "downloading", "paused", "failed", "completed",
                 "registered", "cancelled", "stale", "ignored"}
\* PENDING_DOWNLOAD_STATUSES; resuming is written by no code in src/.
Pending == {"queued", "paused", "downloading", "failed"}

Row == [at : Folders \union {NoFolder}, status : RowStatuses]
Entry ==
  [ status : WorkStatuses,
    path   : Folders \union {NoFolder},
    item   : Folders \union {NoFolder},
    index  : SUBSET Folders,
    rows   : UNION {[files -> Row] : files \in SUBSET Tracks} ]

HasPending(e) == \E f \in DOMAIN e.rows : e.rows[f].status \in Pending

\* The rows that a move from src rewrites: with mappings only the mapped
\* files, without any every file under src.
MovedRows(e, src, mapped) ==
  {f \in DOMAIN e.rows : e.rows[f].at = src /\ (mapped = {} \/ f \in mapped)}

\* The whole folder of another work's row.
OwnedByOther(db, w, folder) ==
  \E v \in Works \ {w} : folder \in {db[v].path, db[v].item} \union db[v].index

\* validate_path_update returns no error.
PathUpdateAllowed(db, w, src, dst, token, mapped) ==
  LET e == db[w] IN
  /\ src # dst
  /\ token = e
  /\ ~HasPending(e)
  /\ mapped # {} =>
       \A f \in DOMAIN e.rows : \/ e.rows[f].at \in {NoFolder, dst}
                                \/ e.rows[f].at = src /\ f \in mapped
  /\ e.status # "none" => e.path = src
  /\ e.item \in {NoFolder, src, dst}
  /\ ~ {src, dst} \subseteq e.index
  /\ ~OwnedByOther(db, w, dst)
  /\ \/ src \in {e.path, e.item} \union e.index
     \/ MovedRows(e, src, mapped) # {}

\* Mutant: an index row under src loses its folder.
PathsMovedNowhere(e, src, dst, mapped) ==
  [e EXCEPT !.path  = IF @ = src THEN dst ELSE @,
            !.index = {IF p = src THEN NoFolder ELSE p : p \in @}]

\* apply_path_update: every reference to src, and an index row if the work has
\* none under either folder.
PathsMoved(e, src, dst, mapped) ==
  LET to(p)  == IF p = src THEN dst ELSE p
      listed == src \in e.index \/ e.path = src
  IN  [ status |-> e.status,
        path   |-> to(e.path),
        item   |-> to(e.item),
        index  |-> (e.index \ {src}) \union (IF listed THEN {dst} ELSE {}),
        rows   |-> [f \in DOMAIN e.rows |->
                     IF f \in MovedRows(e, src, mapped)
                       THEN [e.rows[f] EXCEPT !.at = dst] ELSE e.rows[f]] ]
===============================================================================
