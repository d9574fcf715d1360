----------------------------- MODULE DownloadCards -----------------------------
(***************************************************************************)
(* The cards of the download view: what DownloadService reads out of the   *)
(* tables about each work (core/services/download_service.py), the buttons *)
(* that the view puts on its card (ui/views/download_view_base.py) and the *)
(* command of the orchestrator behind each button.  A card is the one of   *)
(* the last refresh; it holds no state of its own.                         *)
(***************************************************************************)
EXTENDS Orchestrator

\* _queue_state of the aggregated rows of a work.
queue_state(rj) ==
  LET cancelled == /\ works[rj] = "cancelled" \/ HasRow(rj, {"cancelled"})
                   /\ ~HasRow(rj, {"paused", "failed"})
  IN
  IF HasRow(rj, {"downloading"})  THEN "active"
  ELSE IF HasRow(rj, {"queued"})  THEN "queued"
  ELSE IF cancelled               THEN "cancelled"
  ELSE IF works[rj] = "completed" THEN "completed"
  ELSE IF HasRow(rj, {"paused"})  THEN "paused"
  ELSE IF HasRow(rj, {"failed"})  THEN "failed"
  ELSE IF HasRow(rj, {"completed", "registered"}) THEN "completed"
  ELSE works[rj]

\* The label that _ui_status gives a state, as WorkStatus.normalize reads it
\* back: what it does not know is queued.
Shown(state) ==
  CASE state = "active" -> "downloading"
    [] state = "none"   -> "queued"
    [] OTHER            -> state

\* The buttons of build_queue_item, named for the command that each submits; a
\* work that is prepared or partial without a row to fetch has none.
Buttons(ns) ==
  CASE ns = "downloading"         -> {"pause", "cancel", "reconnect"}
    [] ns = "queued"              -> {"pause", "cancel"}
    [] ns \in {"paused", "failed"} -> {"resume", "cancel"}
    [] ns = "cancelled"           -> {"retry"}
    [] ns = "metadata_failed"     -> {"queue", "cancel"}
    [] OTHER                      -> {}

\* The command behind a button does not come back with a refusal.
Accepted(rj, button) ==
  CASE button = "resume" -> ~Refused(rj, works[rj], user_cancelled_rjs)
    [] button = "retry"  -> works[rj] = "cancelled" \/ HasRow(rj, {"cancelled"})
    [] OTHER             -> TRUE

\* Nothing is on its way for the work.
Idle(rj) == ~Active(rj) /\ ~Busy(rj) /\ rj \notin preparing_rj_ids \union reconnecting

\* A work with a file still to fetch that nothing fetches has a button that
\* moves it on: a stop, a failure or a restart never leaves it with a card
\* whose only command is refused.
CardsAct ==
  \A rj \in RJs :
    Idle(rj) /\ HasRow(rj, Unfinished \union {"cancelled"}) =>
      \E b \in Buttons(Shown(queue_state(rj))) \ {"cancel"} : Accepted(rj, b)
================================================================================
