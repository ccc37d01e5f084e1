-------------------------- MODULE MCWorkflowEngine --------------------------
(* Small instances of WorkflowEngine for TLC.                              *)
EXTENDS WorkflowEngine, TLC

CONSTANTS d1, d2

NoJira == <<"CreatingWorktree">>
WithJira == <<"Assigning", "RetrievingDetails", "CreatingWorktree">>

Independent == [d \in Defs |-> {}]
Chain == [d \in Defs |-> IF d = d2 THEN {d1} ELSE {}]

(* Driver and request slots are interchangeable (safety runs only).        *)
SlotSymmetry == Permutations(Drivers) \cup Permutations(Reqs)
=============================================================================
