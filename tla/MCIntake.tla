------------------------------- MODULE MCIntake -------------------------------
(* Instances of IntakeExecutor for TLC. *)
EXTENDS IntakeExecutor

CONSTANTS w1, t1, t2

WorkFolders == Works \X {"source", "target", "elsewhere"}
\* A batch of two, and a single request made again for what the first left.
SmallBatches == {<<t1, t2>>, <<t2>>}
\* A folder as the executor takes it, and the ones that it does not.
Plain == [name |-> "titled", kind |-> "directory", twin |-> FALSE, readable |-> TRUE,
          links |-> FALSE, part |-> FALSE, files |-> TRUE, titles |-> 1]
FoundShapes ==
  { Plain,
    [Plain EXCEPT !.name = "untitled"], [Plain EXCEPT !.name = "unmatched"],
    [Plain EXCEPT !.name = "canonical"],
    [Plain EXCEPT !.name = "canonical", !.files = FALSE],
    [Plain EXCEPT !.kind = "link"], [Plain EXCEPT !.twin = TRUE],
    [Plain EXCEPT !.links = TRUE], [Plain EXCEPT !.part = TRUE],
    [Plain EXCEPT !.readable = FALSE] }
PlainOnly == {Plain}
\* v2 has a track more.
HeldFiles == [v1 |-> {"a"}, edited |-> {"a"}, v2 |-> {"a", "z"}]
===============================================================================
