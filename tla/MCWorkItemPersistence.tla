----------------------- MODULE MCWorkItemPersistence -----------------------
(***************************************************************************)
(* One ticket in the map, the table and the snapshot, and the snapshot     *)
(* files of several workspaces.  The two modules share no variable: the    *)
(* run explores them one at a time.                                        *)
(***************************************************************************)
EXTENDS WorkItemPersistence, SnapshotFiles, TLC

VARIABLE part

MCInit ==
    /\ part \in {"ticket", "files"}
    /\ Init /\ SnInit
    /\ part # "files" => /\ snGlobal = NoSnFile /\ snInRepo[SnDefault] = NoSnFile
                         /\ \A w \in SnSpaces : snFile[w] = NoSnFile
MCNext ==
    \/ part = "ticket" /\ Next /\ UNCHANGED <<part, snVars>>
    \/ part = "files" /\ SnNext /\ UNCHANGED <<part, vars>>
MCSpec == MCInit /\ [][MCNext]_<<part, vars, snVars>>

(* Requests and writers of snapshots are interchangeable; only one part    *)
(* moves, so one permutation may swap both.                                *)
Swap(S, on) == CHOOSE f \in Permutations(S) : \A x \in S : (f[x] # x) <=> on
MCSymmetry == {Swap(Requests, on) @@ Swap(SnTasks, on) : on \in BOOLEAN}
=============================================================================
