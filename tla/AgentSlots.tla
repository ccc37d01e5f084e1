----------------------------- MODULE AgentSlots -----------------------------
(***************************************************************************)
(* What the engine promises about concurrent agent runs: a pool with Bound *)
(* slots (`general.max_concurrent_workflows`).  A runner takes a slot only *)
(* when one is free and gives it back later; nothing else changes the set  *)
(* of runners that are busy.                                               *)
(***************************************************************************)
EXTENDS Integers, FiniteSets

CONSTANTS Runners, Bound

VARIABLE busy

Init == busy = {}

Acquire(r) == /\ r \notin busy
              /\ Cardinality(busy) < Bound
              /\ busy' = busy \cup {r}

Release(r) == /\ r \in busy
              /\ busy' = busy \ {r}

Next == \E r \in Runners : Acquire(r) \/ Release(r)

Spec == Init /\ [][Next]_busy
=============================================================================
