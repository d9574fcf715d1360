---------------------------- MODULE PathUpdateProofs ----------------------------
(***************************************************************************)
(* Lemmas about the rows of a work (PathUpdate) that the proofs of         *)
(* IntakeExecutor and of Library share: an entry stays an entry when its   *)
(* paths are moved and when its rows change.                               *)
(***************************************************************************)
EXTENDS PathUpdate, TLAPS

RowTables == UNION {[files -> Row] : files \in SUBSET Tracks}

\* A table of rows is a function from track files to rows ...
LEMMA RowTableIs ==
  ASSUME NEW r \in RowTables
  PROVE  /\ DOMAIN r \subseteq Tracks
         /\ r = [f \in DOMAIN r |-> r[f]]
         /\ \A f \in DOMAIN r : r[f] \in Row
BY DEF RowTables

\* ... and every such function is one.
LEMMA IsRowTable ==
  ASSUME NEW files \in SUBSET Tracks, NEW r \in [files -> Row]
  PROVE  r \in RowTables
BY DEF RowTables

LEMMA EntryIs ==
  Entry = [ status : WorkStatuses, path : Folders \union {NoFolder},
            item : Folders \union {NoFolder}, index : SUBSET Folders,
            rows : RowTables ]
BY DEF Entry, RowTables

\* The entry after a move is an entry.
LEMMA MovedEntry ==
  ASSUME NEW e \in Entry, NEW src \in Folders, NEW dst \in Folders, NEW mapped
  PROVE  PathsMoved(e, src, dst, mapped) \in Entry
<1> DEFINE r == [f \in DOMAIN e.rows |->
                   IF f \in MovedRows(e, src, mapped)
                     THEN [e.rows[f] EXCEPT !.at = dst] ELSE e.rows[f]]
<1>1. e.rows \in RowTables
  BY EntryIs
<1>2. r \in RowTables
  <2>1. DOMAIN e.rows \in SUBSET Tracks /\ \A f \in DOMAIN e.rows : e.rows[f] \in Row
    BY <1>1, RowTableIs
  <2>2. r \in [DOMAIN e.rows -> Row]
    BY <2>1 DEF Row
  <2> QED BY <2>1, <2>2, IsRowTable
<1> HIDE DEF r
<1>3. PathsMoved(e, src, dst, mapped) =
        [ status |-> e.status,
          path   |-> IF e.path = src THEN dst ELSE e.path,
          item   |-> IF e.item = src THEN dst ELSE e.item,
          index  |-> (e.index \ {src}) \union
                       (IF src \in e.index \/ e.path = src THEN {dst} ELSE {}),
          rows   |-> r ]
  BY DEF PathsMoved, r
<1> QED BY <1>2, <1>3, EntryIs

\* Other rows for an entry.
LEMMA RowsReplaced ==
  ASSUME NEW e \in Entry, NEW r \in RowTables
  PROVE  [e EXCEPT !.rows = r] \in Entry
BY EntryIs

\* The rows of an entry: their files, their types.
LEMMA EntryRows ==
  ASSUME NEW e \in Entry
  PROVE  /\ e.rows \in RowTables
         /\ DOMAIN e.rows \in SUBSET Tracks
         /\ \A f \in DOMAIN e.rows :
              /\ e.rows[f] \in Row
              /\ e.rows[f].at \in Folders \union {NoFolder}
              /\ e.rows[f].status \in RowStatuses
BY EntryIs, RowTableIs DEF Row

\* A row with another status.
LEMMA RowRestated ==
  ASSUME NEW r \in Row, NEW s \in RowStatuses
  PROVE  [r EXCEPT !.status = s] \in Row
BY DEF Row

-----------------------------------------------------------------------------
(* What a move does                                                         *)

\* Some column of the tables names the folder p for the work.
References(e, p) ==
  \/ p \in {e.path, e.item} \union e.index
  \/ \E f \in DOMAIN e.rows : e.rows[f].at = p

\* An update of paths needs a reference to its source ...
LEMMA MoveNeedsSource ==
  ASSUME NEW db, NEW w, NEW src, NEW dst, NEW token, NEW mapped,
         PathUpdateAllowed(db, w, src, dst, token, mapped)
  PROVE  References(db[w], src)
BY DEF PathUpdateAllowed, References, MovedRows

\* ... and leaves none, and brings the work to its destination.
LEMMA MoveLeavesSource ==
  ASSUME NEW db, NEW w, db[w] \in Entry, NEW src \in Folders, NEW dst \in Folders,
         NEW token, NEW mapped,
         PathUpdateAllowed(db, w, src, dst, token, mapped)
  PROVE  ~References(PathsMoved(db[w], src, dst, mapped), src)
<1> DEFINE e == db[w]
           r == [f \in DOMAIN e.rows |->
                   IF f \in MovedRows(e, src, mapped)
                     THEN [e.rows[f] EXCEPT !.at = dst] ELSE e.rows[f]]
           n == PathsMoved(e, src, dst, mapped)
<1>1. /\ src # dst
      /\ mapped # {} =>
           \A f \in DOMAIN e.rows : \/ e.rows[f].at \in {NoFolder, dst}
                                    \/ e.rows[f].at = src /\ f \in mapped
      /\ e.status # "none" => e.path = src
      /\ e.item \in {NoFolder, src, dst}
  BY DEF PathUpdateAllowed
<1>2. src \notin {n.path, n.item} \union n.index
  BY <1>1 DEF PathsMoved
<1>3. n.rows = r
  BY DEF PathsMoved
<1>4. ASSUME NEW f \in DOMAIN e.rows PROVE r[f].at # src
  <2>1. e.rows[f] \in Row
    BY EntryRows
  <2>2. CASE f \in MovedRows(e, src, mapped)
    BY <1>1, <1>4, <2>1, <2>2 DEF Row
  <2>3. CASE f \notin MovedRows(e, src, mapped)
    BY <1>1, <1>4, <2>3, FolderAssumption DEF MovedRows
  <2> QED BY <2>2, <2>3
<1>5. DOMAIN r = DOMAIN e.rows
  OBVIOUS
<1> HIDE DEF r, n
<1> QED BY <1>2, <1>3, <1>4, <1>5 DEF References, n
=================================================================================
