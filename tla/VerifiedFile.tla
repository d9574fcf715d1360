----------------------------- MODULE VerifiedFile -----------------------------
(***************************************************************************)
(* What a download of one file promises, whatever the server, the listing  *)
(* and crashes do: the bytes held are always a beginning of the source     *)
(* (held of them, in order), more arrive or some are given up, and the     *)
(* file is reported complete only while all of them are held.              *)
(* TrackTransfer implements it.                                            *)
(***************************************************************************)
EXTENDS Naturals

CONSTANT Size      \* bytes of the source

VARIABLES held, complete

Init == held \in 0..Size /\ complete = FALSE

\* The next bytes arrive.
Gain ==
  /\ ~complete
  /\ held' \in (held + 1)..Size
  /\ UNCHANGED complete

\* Bytes are given up: the transfer will start again further back.
GiveUp ==
  /\ ~complete
  /\ held' < held
  /\ held' \in Nat
  /\ UNCHANGED complete

\* The file is reported, the report is withdrawn.
Report   == held = Size /\ complete' = TRUE /\ UNCHANGED held
Withdraw == complete' = FALSE /\ UNCHANGED held

Next == Gain \/ GiveUp \/ Report \/ Withdraw

Spec == Init /\ [][Next]_<<held, complete>>
===============================================================================
