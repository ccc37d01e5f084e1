--------------------------- MODULE TicketWorktree ---------------------------
(***************************************************************************)
(* The git worktree of a ticket on disk.  Three parties touch it: the      *)
(* background preparation spawned when a ticket is added, the bootstrap of *)
(* every flow that is started, and delete and retry of the work item.  The *)
(* worktree_lock of the work item is meant to keep the first two apart.    *)
(*                                                                         *)
(* A path on disk is a function of the branch name, and the n-th run of a  *)
(* ticket has the branch of index n, so branches stand for paths too (the  *)
(* ticket is of the default type, whose prefix everybody derives alike).   *)
(* What is left out: pause, stop and cancellation (module WorkflowEngine;  *)
(* a cancelled flow ends here like one that fails), and a second add of    *)
(* the same ticket before the first is done.                               *)
(***************************************************************************)
EXTENDS Integers, FiniteSets

CONSTANTS
    Preps,    \* slots for prepare_worktree_for_ticket tasks
    Flows,    \* flows of the ticket; each has one driver task at a time
    MaxRuns,  \* bound: work items created for the ticket
    Ops       \* subset of {"add", "start", "retry", "delete"}

ASSUME WorktreeAssumption ==
    /\ MaxRuns \in Nat \ {0}
    /\ Ops \subseteq {"add", "start", "retry", "delete"}
    /\ Preps \cap Flows = {}

VARIABLES
    rows,  \* work_items rows of the ticket, soft-deleted ones included
    item,  \* the entry of the map
    tree,  \* [Branches -> "none" or "there"], the disk
    task,  \* [Tasks -> where it is, whose lock it uses and its branch]
    op     \* an add, retry or delete request between two awaits

vars == <<rows, item, tree, task, op>>

Tasks == Preps \cup Flows
Runs == 1..MaxRuns
Branches == Runs
Canonical == 1   \* branch_name_for_ticket
None == 0        \* no path recorded, no branch chosen

NoItem == [live |-> FALSE]
Item == [live : {TRUE}, id : Runs, br : Branches \cup {None},
         path : Branches \cup {None}, boot : BOOLEAN, started : BOOLEAN,
         ended : BOOLEAN]
NewItem(id, br) ==
    [live |-> TRUE, id |-> id, br |-> br, path |-> None, boot |-> FALSE,
     started |-> FALSE, ended |-> FALSE]

(* The worktree_lock is held in LockedPcs; id None means that the item was *)
(* gone and there was no lock to take.                                     *)
LockedPcs == {"check", "clear", "add", "record", "setup"}
Pcs == {"idle", "spawned", "enter", "lock", "agent"} \cup LockedPcs
Task == [pc : Pcs, id : Runs \cup {None}, br : Branches \cup {None}]
IdleTask == [pc |-> "idle", id |-> None, br |-> None]

NoOp == [op |-> "none"]
Request == [op : {"add", "start"}, br : Branches \cup {None}]
           \cup [op : {"deleteTree", "deleteItem"}, path : Branches \cup {None}]

Init ==
    /\ rows = 0
    /\ item = NoItem
    /\ tree = [b \in Branches |-> "none"]
    /\ task = [x \in Tasks |-> IdleTask]
    /\ op = NoOp

At(x, pc) == task[x].pc = pc
Goto(x, pc) == task' = [task EXCEPT ![x].pc = pc]
ChosenBranch == IF item.br = None THEN Canonical ELSE item.br
-----------------------------------------------------------------------------
(* Mutant of AddCount: the suffix is two ahead of the earlier runs.        *)
AddCountTwoAhead ==
    /\ "add" \in Ops /\ op = NoOp /\ ~item.live /\ rows < MaxRuns
    /\ op' = [op |-> "add", br |-> rows + 2]
    /\ UNCHANGED <<rows, item, tree, task>>

(* add_to_dashboard counts the earlier runs to derive the branch; without  *)
(* the count (an error) the branch stays empty.                            *)
AddCount ==
    /\ "add" \in Ops /\ op = NoOp /\ ~item.live /\ rows < MaxRuns
    /\ \E br \in {rows + 1, None} : op' = [op |-> "add", br |-> br]
    /\ UNCHANGED <<rows, item, tree, task>>

(* start_workflow (a poller, or retry) never chooses a branch.             *)
StartRun ==
    /\ "start" \in Ops /\ op = NoOp /\ ~item.live /\ rows < MaxRuns
    /\ op' = [op |-> "start", br |-> None]
    /\ UNCHANGED <<rows, item, tree, task>>

(* The row is inserted, then the entry; only add_to_dashboard spawns the   *)
(* preparation.                                                            *)
Insert ==
    /\ op.op \in {"add", "start"}
    /\ rows' = rows + 1
    /\ item' = NewItem(rows + 1, op.br)
    /\ op' = NoOp
    /\ IF op.op = "start" THEN UNCHANGED task
       ELSE \E x \in Preps : At(x, "idle") /\ Goto(x, "spawned")
    /\ UNCHANGED tree

(* retry_workflow of a terminal item removes it and starts a fresh run.    *)
Retry ==
    /\ "retry" \in Ops /\ op = NoOp /\ item.live /\ item.ended
    /\ rows < MaxRuns
    /\ item' = NoItem
    /\ op' = [op |-> "start", br |-> None]
    /\ UNCHANGED <<rows, tree, task>>

(* delete_workflow reads the recorded path, removes that tree if it can,   *)
(* and removes the entry by key.  It does not take the worktree_lock.      *)
(* (mark_work_done of a Done item takes the same steps, and keeps the item *)
(* when the tree could not be removed.)                                    *)
DeleteRead ==
    /\ "delete" \in Ops /\ op = NoOp /\ item.live
    /\ item.started => item.ended
    /\ op' = [op |-> "deleteTree", path |-> item.path]
    /\ UNCHANGED <<rows, item, tree, task>>

DeleteTree ==
    /\ op.op = "deleteTree"
    /\ \/ op.path # None /\ tree' = [tree EXCEPT ![op.path] = "none"]
       \/ UNCHANGED tree
    /\ op' = [op EXCEPT !.op = "deleteItem"]
    /\ UNCHANGED <<rows, item, task>>

DeleteItem ==
    /\ op.op = "deleteItem"
    /\ item' = NoItem
    /\ op' = NoOp
    /\ UNCHANGED <<rows, tree, task>>
-----------------------------------------------------------------------------
(* prepare_worktree_for_ticket looks the item up once; the branch and the  *)
(* lock it read then are the ones it uses to the end.                      *)
PrepRead(x) ==
    /\ At(x, "spawned")
    /\ task' = [task EXCEPT ![x] =
          IF item.live
          THEN [pc |-> "lock", id |-> item.id, br |-> ChosenBranch]
          ELSE IdleTask]
    /\ UNCHANGED <<rows, item, tree, op>>

(* start_workflow_def: the bootstrap is skipped when it has completed and  *)
(* the recorded path exists.                                               *)
FlowStart(x) ==
    /\ At(x, "idle") /\ item.live
    /\ item' = [item EXCEPT !.started = TRUE]
    /\ task' = [task EXCEPT ![x] =
          IF item.boot /\ item.path # None /\ tree[item.path] # "none"
          THEN [pc |-> "agent", id |-> None, br |-> item.path]
          ELSE [pc |-> "enter", id |-> None, br |-> None]]
    /\ UNCHANGED <<rows, tree, op>>

(* bootstrap_new_workflow up to the lock: transition(CreatingWorktree) and *)
(* the look-up of the lock, which is None when the item is gone.           *)
FlowEnter(x) ==
    /\ At(x, "enter")
    /\ item' = IF item.live THEN [item EXCEPT !.ended = FALSE] ELSE item
    /\ task' = [task EXCEPT ![x] =
          IF item.live THEN [@ EXCEPT !.pc = "lock", !.id = item.id]
          ELSE [@ EXCEPT !.pc = "check"]]
    /\ UNCHANGED <<rows, tree, op>>

(* Mutant of LockIsFree: the lock is not awaited.                          *)
LockIsFreeAlways(id) == TRUE

LockIsFree(id) == \A y \in Tasks : task[y].pc \in LockedPcs => task[y].id # id

(* The preparation goes on to create_worktree without looking whether the  *)
(* worktree exists by now; the bootstrap looks.                            *)
TakeLock(x) ==
    /\ At(x, "lock") /\ LockIsFree(task[x].id)
    /\ Goto(x, IF x \in Preps THEN "clear" ELSE "check")
    /\ UNCHANGED <<rows, item, tree, op>>

(* Mutant of PreCreated: the bootstrap does not look again.                *)
PreCreatedNever == FALSE

PreCreated == item.live /\ item.path # None /\ tree[item.path] # "none"

Check(x) ==
    /\ At(x, "check")
    /\ task' = [task EXCEPT ![x] =
          IF PreCreated THEN [@ EXCEPT !.pc = "setup", !.br = item.path]
          ELSE [@ EXCEPT !.pc = "clear",
                         !.br = IF item.live THEN ChosenBranch ELSE Canonical]]
    /\ UNCHANGED <<rows, item, tree, op>>

(* create_worktree: clear_worktree_path_for_recreate, then fetch and       *)
(* `git worktree add`, which needs an empty path.                          *)
Clear(x) ==
    /\ At(x, "clear")
    /\ tree' = [tree EXCEPT ![task[x].br] = "none"]
    /\ Goto(x, "add")
    /\ UNCHANGED <<rows, item, op>>

AddTree(x) ==
    /\ At(x, "add") /\ tree[task[x].br] = "none"
    /\ tree' = [tree EXCEPT ![task[x].br] = "there"]
    /\ Goto(x, "record")
    /\ UNCHANGED <<rows, item, op>>

(* The path and the branch are recorded in whatever item has the key now.  *)
Record(x) ==
    /\ At(x, "record")
    /\ item' = IF item.live
               THEN [item EXCEPT !.path = task[x].br, !.br = task[x].br]
               ELSE item
    /\ task' = [task EXCEPT ![x] = IF x \in Preps THEN IdleTask
                                   ELSE [@ EXCEPT !.pc = "setup"]]
    /\ UNCHANGED <<rows, tree, op>>

(* mise install and the init commands, the end of the locked section.      *)
SetupOk(x) ==
    /\ At(x, "setup")
    /\ item' = IF item.live THEN [item EXCEPT !.boot = TRUE] ELSE item
    /\ Goto(x, "agent")
    /\ UNCHANGED <<rows, tree, op>>

(* A flow ends: the agent is done, or any step of the bootstrap failed.    *)
FlowEnds(x) ==
    /\ x \in Flows /\ task[x].pc \in {"clear", "add", "setup", "agent"}
    /\ item' = IF item.live THEN [item EXCEPT !.ended = TRUE] ELSE item
    /\ task' = [task EXCEPT ![x] = IdleTask]
    /\ UNCHANGED <<rows, tree, op>>

(* Mutant of PrepFails: a failed preparation begins again at once, and     *)
(* keeps the lock.                                                         *)
PrepFailsRetries(x) ==
    /\ x \in Preps /\ task[x].pc \in {"clear", "add"}
    /\ Goto(x, "check")
    /\ UNCHANGED <<rows, item, tree, op>>

PrepFails(x) ==
    /\ x \in Preps /\ task[x].pc \in {"clear", "add"}
    /\ task' = [task EXCEPT ![x] = IdleTask]
    /\ UNCHANGED <<rows, item, tree, op>>

TaskNext(x) ==
    \/ TakeLock(x) \/ Check(x) \/ Clear(x) \/ AddTree(x) \/ Record(x)
    \/ SetupOk(x) \/ PrepRead(x) \/ PrepFails(x) \/ FlowEnter(x) \/ FlowEnds(x)

Next ==
    \/ AddCount \/ StartRun \/ Insert \/ Retry
    \/ DeleteRead \/ DeleteTree \/ DeleteItem
    \/ \E x \in Flows : FlowStart(x)
    \/ \E x \in Tasks : TaskNext(x)

Spec == Init /\ [][Next]_vars

(* Where a task runs git worktree remove, fetch and add, mise install and  *)
(* the init commands: no timeout ends them.                                *)
Untimed == {"clear", "add", "setup"}

(* Some such command never returns.                                        *)
CommandHangs == \E x \in Tasks : <>[](task[x].pc \in Untimed)

(* The runtime polls every spawned task, and tokio's mutex serves its      *)
(* waiters in order.  Nothing is assumed of the untimed commands.          *)
FairSpec ==
    Spec /\ \A x \in Tasks : /\ WF_vars(task[x].pc \notin Untimed /\ TaskNext(x))
                            /\ SF_vars(TakeLock(x))
-----------------------------------------------------------------------------
TypeOK ==
    /\ rows \in 0..MaxRuns
    /\ item \in Item \cup {NoItem}
    /\ tree \in [Branches -> {"none", "there"}]
    /\ task \in [Tasks -> Task]
    /\ op \in Request \cup {NoOp}

(* The ticket has one run, which nobody has begun to delete or to retry.   *)
FirstRun ==
    /\ IF rows = 0 THEN ~item.live ELSE rows = 1 /\ item.live
    /\ op.op \notin {"deleteTree", "deleteItem"}

(* The init commands of a bootstrap run in a worktree that is there, until *)
(* the item is deleted or retried: neither a preparation nor the bootstrap *)
(* of a sibling flow takes it away under them.                             *)
SetupTreeComplete ==
    FirstRun => \A x \in Flows : At(x, "setup") => tree[task[x].br] # "none"

(* "Re-read AFTER taking the lock": a bootstrap that is about to clear the *)
(* path for a new worktree never does so to a tree in which the agent of a *)
(* sibling flow is at work, until the item is deleted or retried.          *)
BootstrapSparesAgents ==
    FirstRun => \A x, y \in Flows :
        At(x, "clear") /\ At(y, "agent") /\ task[x].br = task[y].br
          => tree[task[x].br] = "none"

(* Whoever waits for the worktree_lock gets it: every holder gives it back *)
(* on success and on failure, unless its command never returns.            *)
LockIsGranted ==
    CommandHangs \/ \A x \in Tasks : At(x, "lock") ~> ~At(x, "lock")
-----------------------------------------------------------------------------
(* Statements of the documentation about this code.                        *)

(* types.rs: the preparation and the bootstrap "cannot fight over the same *)
(* on-disk path": no preparation clears the tree an agent works in.        *)
PreparationSparesAgents ==
    \A x \in Preps, y \in Flows :
        At(x, "clear") /\ At(y, "agent") /\ task[x].br = task[y].br
          => tree[task[x].br] = "none"

(* lifecycle.rs: "Derive a unique branch for this run so a re-add opens    *)
(* its OWN PR": an item that was added with a branch of its own never      *)
(* changes to the branch of an earlier run.                                *)
ReAddKeepsItsBranch ==
    [][item.live /\ item'.live /\ item.id = item'.id /\ item.br = item.id
         => item'.br = item.id]_vars

(* REQUIREMENTS.md: "If the branch already exists (e.g., from a previous   *)
(* attempt), the existing worktree is reused", so the tree of an attempt   *)
(* that ended is not cleared by the bootstrap of the next one.             *)
PreviousWorkIsReused ==
    \A x \in Flows : At(x, "clear") => tree[task[x].br] = "none"
=============================================================================
