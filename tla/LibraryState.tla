----------------------------- MODULE LibraryState -----------------------------
(***************************************************************************)
(* What the tools of the library share: the folders on the disks, the      *)
(* tables (PathUpdate), the metadata cache, the works that the downloader  *)
(* has in its queue.                                                       *)
(*                                                                         *)
(* A work lies in "old" (a disk of the library) or "out" (output_dir, the  *)
(* target of migrations and the place of new downloads); "copying" is a    *)
(* staging folder beside "out".  A folder's contents are a tree: absent, a *)
(* whole version of the work (v1, or edited by the user), or less.         *)
(***************************************************************************)
EXTENDS PathUpdate, Naturals, FiniteSets

CONSTANTS
  Roots,        \* places under library_paths
  MaxFaults,    \* file operations and transactions that fail
  MaxEdits      \* changes of a folder by the user

ASSUME LibraryAssumption ==
  /\ Folders = Works \X {"old", "out", "copying"}
  /\ Roots \subseteq {"old", "out"}
  /\ MaxFaults \in Nat /\ MaxEdits \in Nat

VARIABLES
  disk,         \* tree of each folder
  db,           \* tables
  cache,        \* row of metadata_cache: none, fresh or expired
  running,      \* queued_rj_ids and active_tasks
  preserved,    \* works with an entry in the cleanup plan
  faults, edits

shared == <<disk, db, cache, running, preserved>>
bounds == <<faults, edits>>

Whole == {"v1", "edited"}
Tree  == {"none", "partial"} \union Whole

Old(w)     == <<w, "old">>
Out(w)     == <<w, "out">>
Copying(w) == <<w, "copying">>
FoldersOf(w) == {Old(w), Out(w), Copying(w)}
\* The root a folder lies under.
RootOf(folder) == IF folder[2] = "old" THEN "old" ELSE "out"

Present(folder) == disk[folder] # "none"
Fault == faults < MaxFaults /\ faults' = faults + 1

\* Statuses that keep a row of metadata_cache.
Protected(e) ==
  \E f \in DOMAIN e.rows :
    e.rows[f].status \in Pending \union {"stale", "ignored", "cancelled"}

SharedTypeOK ==
  /\ disk \in [Folders -> Tree]
  /\ db \in [Works -> Entry]
  /\ cache \in [Works -> {"none", "fresh", "expired"}]
  /\ running \subseteq Works /\ preserved \subseteq Works
  /\ faults \in 0..MaxFaults /\ edits \in 0..MaxEdits

-----------------------------------------------------------------------------
(* A work as the tools find it: downloaded, verified without rows, found by  *)
(* a scan, or closed out with a row that was given up.                       *)

FoundEntries(w) ==
  LET e(status, item, index, rows) ==
        [status |-> status, path |-> Old(w), item |-> item,
         index |-> index, rows |-> rows]
      rows(status) == [f \in Tracks |-> [at |-> Old(w), status |-> status]]
  IN  { e("completed", NoFolder, {}, rows("registered")),
        e("verified", Old(w), {Old(w)}, << >>),
        e("external", Old(w), {Old(w)}, << >>),
        e("completed", NoFolder, {Old(w)}, rows("stale")) }

SharedInit ==
  /\ disk = [p \in Folders |-> IF p[2] = "old" THEN "v1" ELSE "none"]
  /\ db \in {d \in [Works -> UNION {FoundEntries(w) : w \in Works}] :
               \A w \in Works : d[w] \in FoundEntries(w)}
  /\ cache = [w \in Works |-> "fresh"]
  /\ running = {} /\ preserved = {}
  /\ faults = 0 /\ edits = 0
===============================================================================
