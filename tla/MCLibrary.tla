------------------------------- MODULE MCLibrary -------------------------------
(***************************************************************************)
(* One work with one file, two calls of the metadata scheduler and one     *)
(* worker: every pair of tools meets over the same folder and rows.        *)
(***************************************************************************)
EXTENDS Library

MCWorks    == {"w"}
MCFolders  == MCWorks \X {"old", "out", "copying"}
MCRequests == MCWorks \X {1, 2}
================================================================================
