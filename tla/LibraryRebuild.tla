---------------------------- MODULE LibraryRebuild ----------------------------
(***************************************************************************)
(* LibraryVault.rebuild_library (core/database.py over                     *)
(* core/library_rebuild.py): the roots are scanned one after the other     *)
(* without any lock, one entry per work is chosen with the paths that the  *)
(* tables know, then one transaction replaces library_index and            *)
(* library_items and corrects the rows of works.                           *)
(***************************************************************************)
EXTENDS LibraryState

VARIABLES
  stage,        \* idle, scan, check, choose or replace
  unread,       \* roots still to scan
  seen,         \* folders found
  chosen        \* canonical entry of each work, NoFolder without one

rebuild == <<stage, unread, seen, chosen>>

RebuildTypeOK ==
  /\ stage \in {"idle", "scan", "check", "choose", "replace"}
  /\ unread \subseteq Roots /\ seen \subseteq Folders
  /\ chosen \in [Works -> Folders \union {NoFolder}]

RebuildInit ==
  /\ stage = "idle" /\ unread = {} /\ seen = {}
  /\ chosen = [w \in Works |-> NoFolder]

Reset == stage' = "idle" /\ unread' = {} /\ seen' = {} /\ chosen' = [w \in Works |-> NoFolder]
ReadOnly == UNCHANGED <<shared, bounds>>

StartRebuild ==
  /\ stage = "idle"
  /\ stage' = "scan" /\ unread' = Roots
  /\ UNCHANGED <<seen, chosen>> /\ ReadOnly

\* _discover_rj_directories finds every folder with a number in its name, the
\* staging folder of a migration too.
ScanRoot(r) ==
  /\ stage = "scan" /\ r \in unread
  /\ unread' = unread \ {r}
  /\ seen' = seen \union {p \in Folders : RootOf(p) = r /\ Present(p)}
  /\ stage' = IF unread' = {} THEN "check" ELSE "scan"
  /\ UNCHANGED chosen /\ ReadOnly

\* A folder changes under the walk: LibraryScanError.
ScanFails ==
  /\ stage = "scan" /\ Fault
  /\ Reset
  /\ UNCHANGED <<shared, edits>>

\* scan_changed.
CheckSeen ==
  /\ stage = "check"
  /\ IF \A p \in seen : Present(p)
       THEN stage' = "choose" /\ UNCHANGED <<unread, seen, chosen>>
       ELSE Reset
  /\ ReadOnly

\* choose_canonical_entries: the path of the work, then that of its item, then
\* the first by name.
Canonical(w) ==
  LET found == seen \intersect FoldersOf(w) IN
  IF found = {} THEN {NoFolder}
  ELSE IF db[w].path \in found THEN {db[w].path}
  ELSE IF db[w].item \in found THEN {db[w].item}
  ELSE found

Choose ==
  /\ stage = "choose"
  /\ chosen' \in {c \in [Works -> Folders \union {NoFolder}] :
                    \A w \in Works : c[w] \in Canonical(w)}
  /\ stage' = "replace"
  /\ UNCHANGED <<unread, seen>> /\ ReadOnly

\* Mutant: rows of works are corrected whatever their downloads do.
ReindexedAlways(w) ==
  LET e == db[w] c == chosen[w]
      indexed == [e EXCEPT !.index = seen \intersect FoldersOf(w), !.item = c]
  IN IF c = NoFolder THEN [indexed EXCEPT !.status = "missing"]
     ELSE [indexed EXCEPT !.status = "indexed", !.path = c]

\* What _replace makes of the rows of one work.
Reindexed(w) ==
  LET e       == db[w]
      c       == chosen[w]
      indexed == [e EXCEPT !.index = seen \intersect FoldersOf(w), !.item = c]
  IN
  IF c # NoFolder /\ e.status = "none"
    THEN [indexed EXCEPT !.status = "external", !.path = c]
  ELSE IF HasPending(e) THEN indexed
  ELSE IF c # NoFolder /\ e.status \in {"external", "indexed", "prepared", "missing"}
    THEN [indexed EXCEPT !.status = "indexed", !.path = c]
  ELSE IF c # NoFolder /\ e.status = "verified" THEN [indexed EXCEPT !.path = c]
  ELSE IF /\ c = NoFolder /\ e.path # NoFolder /\ RootOf(e.path) \in Roots
          /\ e.status \in {"external", "indexed", "prepared", "missing", "verified"}
    THEN [indexed EXCEPT !.status = "missing"]
  ELSE indexed

Replace ==
  /\ stage = "replace"
  /\ db' = [w \in Works |-> Reindexed(w)]
  /\ Reset
  /\ UNCHANGED <<disk, cache, running, preserved, bounds>>

\* The transaction fails and the old rows stay.
ReplaceFails ==
  /\ stage = "replace" /\ Fault
  /\ Reset
  /\ UNCHANGED <<shared, edits>>

Rebuild ==
  \/ \E r \in Roots : ScanRoot(r)
  \/ ScanFails \/ CheckSeen \/ Choose \/ Replace \/ ReplaceFails
===============================================================================
