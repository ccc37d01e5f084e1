---------------------------- MODULE MCWorkspaces ----------------------------
(* Workspaces and PortForwards share no variable: the run explores them    *)
(* one at a time, the forwards without the fairness that only their        *)
(* liveness needs.                                                         *)
EXTENDS Workspaces, PortForwards, TLC

VARIABLE part

MCSpares == <<11>>
MCInit == part \in {"workspaces", "forwards"} /\ WsInit /\ FwdInit
MCNext ==
    \/ part = "workspaces" /\ WsNext /\ UNCHANGED <<part, fVars>>
    \/ part = "forwards" /\ FwdNext /\ UNCHANGED <<part, wsVars>>
MCSpec == MCInit /\ [][MCNext]_<<part, wsVars, fVars>>

MCSymmetry == Permutations(WReqs)
=============================================================================
