-------------------------------- MODULE Gate --------------------------------
(***************************************************************************)
(* What the human-review queue promises: an artifact that needs a person   *)
(* is held until a person approves it, is released at most once, and only  *)
(* then delivered.  Whatever is not yet delivered may be lost, a post for  *)
(* the reason that its run failed or that the process restarted; nothing   *)
(* returns to the queue, and nothing is handed on without being held.      *)
(***************************************************************************)
CONSTANT Items   \* artifacts a node drafts for review

VARIABLE stage   \* how far each of them has come

Stages == {"none", "drafted", "waiting", "released", "delivered", "lost"}

Init == stage = [i \in Items |-> "none"]

Move(batch, from, to) ==
  /\ batch # {}
  /\ \A i \in batch : stage[i] \in from
  /\ stage' = [i \in Items |-> IF i \in batch THEN to ELSE stage[i]]

Draft(batch) == Move(batch, {"none"}, "drafted")
Hold(i)      == Move({i}, {"drafted"}, "waiting")
Release(i)   == Move({i}, {"waiting"}, "released")
Deliver(i)   == Move({i}, {"released"}, "delivered")
Lose(batch)  == Move(batch, {"drafted", "waiting", "released"}, "lost")

Next ==
  \/ \E batch \in SUBSET Items : Draft(batch) \/ Lose(batch)
  \/ \E i \in Items : Hold(i) \/ Release(i) \/ Deliver(i)

Spec == Init /\ [][Next]_stage
=============================================================================
