------------------------------ MODULE AtomicMove ------------------------------
(***************************************************************************)
(* What a journalled move of a work promises: the tables follow the work   *)
(* from its source to its target at most once and never back, by the act   *)
(* of one transaction; a transaction ends as moved only if it was the one, *)
(* and as kept only if it was not; an end is final.  IntakeExecutor        *)
(* implements it, save for the transactions it undoes blindly, whose end   *)
(* is torn.                                                                *)
(***************************************************************************)
CONSTANTS Works, Tx, NoTx

VARIABLES
  mover,       \* by work: the transaction the tables have followed
  verdict      \* by transaction: open, moved, kept or torn

Init ==
  /\ mover = [w \in Works |-> NoTx]
  /\ verdict = [t \in Tx |-> "open"]

Move(t, w) ==
  /\ verdict[t] = "open" /\ mover[w] = NoTx
  /\ \A v \in Works : mover[v] # t
  /\ mover' = [mover EXCEPT ![w] = t]
  /\ UNCHANGED verdict

\* moved is said by the mover only, kept by the others.
Close(t, end) ==
  /\ verdict[t] = "open"
  /\ end = "moved" => \E w \in Works : mover[w] = t
  /\ end = "kept"  => \A w \in Works : mover[w] # t
  /\ verdict' = [verdict EXCEPT ![t] = end]
  /\ UNCHANGED mover

Next == \E t \in Tx : \/ \E w \in Works : Move(t, w)
                      \/ \E end \in {"moved", "kept", "torn"} : Close(t, end)

Spec == Init /\ [][Next]_<<mover, verdict>>
===============================================================================
