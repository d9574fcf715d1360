----------------------------- MODULE IntakePlanner -----------------------------
(***************************************************************************)
(* The read-only planner (tools/external_intake.py): a scan of the intake  *)
(* root classifies each folder by its name and shape, an annotation with   *)
(* the rows of the tables makes some actions fatal or due for review, and  *)
(* request_from_plan_action takes the ones the executor may run.           *)
(***************************************************************************)
EXTENDS PathUpdate, Naturals

\* What the scan sees of a folder: its name (untitled: an RJ number in a longer
\* name of which nothing remains as a title), what it is and what it holds.
Shape ==
  [ name     : {"canonical", "titled", "untitled", "unmatched"},
    kind     : {"directory", "link"},
    twin     : BOOLEAN,       \* another folder of the root has the same number
    readable : BOOLEAN,
    links    : BOOLEAN,       \* a symbolic link in the tree
    part     : BOOLEAN,       \* a .part file in the tree
    files    : BOOLEAN,       \* files directly in the folder
    titles   : 0..2 ]         \* its directories; 2 stands for more

Classification ==
  {"already_normalized", "needs_title_layer", "needs_rename_top_level",
   "quarantine_candidate", "duplicate_review", "fatal"}
Action == [class : Classification, review : BOOLEAN]

Classified(class)  == [class |-> class, review |-> FALSE]
ForReview(class, issues) == [class |-> class, review |-> issues]

\* _classify_unique_dir: taken is a folder at the canonical place.
UniqueDir(shape, taken) ==
  IF ~shape.readable \/ shape.links THEN Classified("fatal")
  ELSE IF shape.part \/ (~shape.files /\ shape.titles = 0)
    THEN Classified("quarantine_candidate")
  ELSE IF shape.name # "canonical"
    THEN IF taken THEN Classified("fatal")
         ELSE ForReview("needs_rename_top_level", shape.name = "untitled")
  ELSE IF shape.files
    THEN ForReview("needs_title_layer", shape.titles # 1)
  ELSE ForReview("already_normalized", shape.titles > 1)

\* _attach_file_plan: a tree that has no manifest cannot be planned.
WithManifest(action, shape) ==
  IF shape.links THEN Classified("fatal") ELSE action

\* build_external_intake_plan, for one folder of the root.
Scanned(shape, taken) ==
  IF shape.kind = "link" THEN Classified("fatal")
  ELSE IF shape.name = "unmatched"
    THEN WithManifest(Classified("quarantine_candidate"), shape)
  ELSE IF shape.twin THEN ForReview("duplicate_review", TRUE)
  ELSE WithManifest(UniqueDir(shape, taken), shape)

\* annotate_plan_with_database.
Annotated(action, entry, src, dst) ==
  IF action.class = "fatal" THEN action
  ELSE IF HasPending(entry) THEN Classified("fatal")
  ELSE IF \/ entry.path \notin {NoFolder, src}
          \/ entry.item \notin {NoFolder, src, dst}
          \/ \E p, q \in entry.index : p # q
    THEN ForReview("duplicate_review", TRUE)
  ELSE action

\* request_from_plan_action raises no error.
Executable(action) == action.class = "needs_rename_top_level" /\ ~action.review
=============================================================================
