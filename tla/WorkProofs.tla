----------------------------- MODULE WorkProofs -----------------------------
(***************************************************************************)
(* Proofs about what the work on a ticket needs: the worktree and its      *)
(* lock, the agent session, the log, the marks of merged pull requests and *)
(* the locks of the handlers, for every number of flows, runs, lines,      *)
(* items and tasks.                                                        *)
(***************************************************************************)
EXTENDS TicketWorktree, AgentSession, ServerTasks, SequenceTheorems,
        WellFoundedInduction, NaturalsInduction, TLAPS

----------------------------------------------------------------------------
(* The worktree: until somebody deletes or retries the work item, the      *)
(* worktree_lock protects the bootstraps from each other and from the      *)
(* preparation.  A run that was deleted or retried never becomes the first *)
(* one again, so IInv has to be kept along FirstRun only.                  *)

Locked(x) == task[x].pc \in LockedPcs

(* The types, and the bound a request has checked.                         *)
TypeInv == TypeOK /\ (op.op \in {"add", "start"} => rows < MaxRuns)

(* Tasks exist for the item that is in the map, and never another one.     *)
OneItem ==
    /\ item.live => op = NoOp
    /\ op.op \in {"none", "add", "start"}
    /\ \A x \in Tasks : ~At(x, "idle") => item.live
    /\ \A x \in Tasks : task[x].pc \in LockedPcs \cup {"lock"}
                          => task[x].id = item.id

(* The kinds of tasks keep to their own steps.                             *)
Kinds ==
    /\ \A x \in Preps : task[x].pc \in {"idle", "spawned", "lock", "clear",
                                        "add", "record"}
    /\ \A x \in Flows : task[x].pc # "spawned"

(* At most one task is in the section that the worktree_lock protects.     *)
Mutex == \A x, y \in Tasks : Locked(x) /\ Locked(y) => x = y

(* All tasks agree on the branch.                                          *)
OneBranch ==
    /\ item.live => item.path \in {None, ChosenBranch}
    /\ \A x \in Tasks : task[x].pc \in {"clear", "add", "record", "setup", "agent"}
                          => task[x].br = ChosenBranch
    /\ \A x \in Preps : At(x, "lock") => task[x].br = ChosenBranch
    /\ \A x \in Flows : task[x].pc \in {"setup", "agent"}
                          => item.path = ChosenBranch

(* What the holder of the lock knows of the disk.                          *)
HolderKnows ==
    /\ \A x \in Tasks : task[x].pc \in {"record", "setup"}
                          => tree[task[x].br] # "none"
    /\ \A x \in Flows : At(x, "clear")
                          => item.path = None \/ tree[item.path] = "none"

IInv == OneItem /\ Kinds /\ Mutex /\ OneBranch /\ HolderKnows
-----------------------------------------------------------------------------
(* Every step, a delete or a retry included, keeps the types.              *)
LEMMA TypeStep == TypeInv /\ [Next]_vars => TypeInv'
<1> SUFFICES ASSUME TypeInv, [Next]_vars PROVE TypeInv'
  OBVIOUS
<1> USE WorktreeAssumption DEF TypeInv, TypeOK, Branches, Runs, None, Canonical
<1>a. item.live => item \in Item
  BY DEF NoItem
<1>b. item.live => ChosenBranch \in Branches
  BY <1>a DEF ChosenBranch, Item
<1>c. \A x \in Tasks : task[x] \in Task /\ task[x].br \in Branches \cup {None}
  BY DEF Task
<1>d. \A x \in Tasks, pc \in Pcs : Goto(x, pc) => task' \in [Tasks -> Task]
  BY DEF Goto, Task
<1>e. \A x \in Tasks, t \in Task : [task EXCEPT ![x] = t] \in [Tasks -> Task]
  OBVIOUS
<1>f. IdleTask \in Task
  BY DEF IdleTask, Task, Pcs
<1>1. CASE AddCount
  BY <1>1 DEF AddCount, Request
<1>2. CASE StartRun
  BY <1>2 DEF StartRun, Request
<1>3. CASE Insert
  <2>1. op.br \in Branches \cup {None} /\ rows + 1 \in Runs
    BY <1>3 DEF Insert, Request, NoOp
  <2>2. item' \in Item
    BY <1>3, <2>1 DEF Insert, Item, NewItem
  <2>3. task' \in [Tasks -> Task]
    BY <1>3, <1>d DEF Insert, Tasks, Pcs
  <2> QED BY <1>3, <2>1, <2>2, <2>3 DEF Insert, NoOp
<1>4. CASE Retry
  BY <1>4 DEF Retry, Request
<1>5. CASE DeleteRead
  BY <1>5, <1>a DEF DeleteRead, Request, Item
<1>6. CASE DeleteTree
  <2>1. op \in [op : {"deleteTree", "deleteItem"}, path : Branches \cup {None}]
    BY <1>6 DEF DeleteTree, Request, NoOp
  <2>2. op' \in Request /\ op'.op = "deleteItem"
    BY <1>6, <2>1 DEF DeleteTree, Request
  <2> QED BY <1>6, <2>1, <2>2 DEF DeleteTree
<1>7. CASE DeleteItem
  BY <1>7 DEF DeleteItem, NoOp
<1>8. ASSUME NEW x \in Flows, FlowStart(x) PROVE TypeInv'
  <2>1. item' \in Item
    BY <1>8, <1>a DEF FlowStart, Item
  <2>2. task' \in [Tasks -> Task]
    BY <1>8, <1>a, <1>e DEF FlowStart, Task, Tasks, Pcs, Item
  <2> QED BY <1>8, <2>1, <2>2 DEF FlowStart
<1>10. ASSUME NEW x \in Tasks, TakeLock(x) PROVE TypeInv'
  BY <1>10, <1>d DEF TakeLock, Pcs, LockedPcs
<1>11. ASSUME NEW x \in Tasks, Check(x) PROVE TypeInv'
  <2>1. PreCreated => item.path \in Branches
    BY <1>a DEF PreCreated, Item
  <2>2. task' \in [Tasks -> Task]
    <3>1. PreCreated =>
            [task[x] EXCEPT !.pc = "setup", !.br = item.path] \in Task
      BY <1>c, <2>1 DEF Task, Pcs, LockedPcs
    <3>2. [task[x] EXCEPT !.pc = "clear",
                          !.br = IF item.live THEN ChosenBranch ELSE Canonical]
            \in Task
      <4> DEFINE b == IF item.live THEN ChosenBranch ELSE Canonical
      <4>1. b \in Branches
        BY <1>b
      <4> HIDE DEF b
      <4>2. [task[x] EXCEPT !.pc = "clear", !.br = b] \in Task
        BY <1>c, <4>1 DEF Task, Pcs, LockedPcs
      <4> QED BY <4>2 DEF b
    <3>3. CASE PreCreated
      BY <1>11, <3>1, <3>3, <1>e DEF Check
    <3>4. CASE ~PreCreated
      <4> DEFINE t == [task[x] EXCEPT !.pc = "clear",
                          !.br = IF item.live THEN ChosenBranch ELSE Canonical]
      <4>1. task' = [task EXCEPT ![x] = t]
        BY <1>11, <3>4 DEF Check
      <4>2. t \in Task
        BY <3>2
      <4> HIDE DEF t
      <4> QED BY <4>1, <4>2
    <3> QED BY <3>3, <3>4
  <2> QED BY <1>11, <2>2 DEF Check
<1>12. ASSUME NEW x \in Tasks, Clear(x) PROVE TypeInv'
  BY <1>12, <1>d DEF Clear, Pcs, LockedPcs
<1>13. ASSUME NEW x \in Tasks, AddTree(x) PROVE TypeInv'
  BY <1>13, <1>d DEF AddTree, Pcs, LockedPcs
<1>14. ASSUME NEW x \in Tasks, Record(x) PROVE TypeInv'
  <2>1. item' \in Item \cup {NoItem}
    BY <1>14, <1>a, <1>c DEF Record, Item
  <2>2. task' \in [Tasks -> Task]
    <3>1. [task[x] EXCEPT !.pc = "setup"] \in Task
      BY <1>c DEF Task, Pcs, LockedPcs
    <3> QED BY <1>14, <3>1, <1>e, <1>f DEF Record
  <2> QED BY <1>14, <2>1, <2>2 DEF Record
<1>15. ASSUME NEW x \in Tasks, SetupOk(x) PROVE TypeInv'
  <2>1. item' \in Item \cup {NoItem}
    BY <1>15, <1>a DEF SetupOk, Item
  <2> QED BY <1>15, <1>d, <2>1 DEF SetupOk, Pcs
<1>16. ASSUME NEW x \in Tasks, PrepRead(x) PROVE TypeInv'
  <2>1. task' \in [Tasks -> Task]
    BY <1>16, <1>a, <1>b, <1>e, <1>f DEF PrepRead, Task, Pcs, Item
  <2> QED BY <1>16, <2>1 DEF PrepRead
<1>17. ASSUME NEW x \in Tasks, PrepFails(x) PROVE TypeInv'
  BY <1>17, <1>e, <1>f DEF PrepFails
<1>18. ASSUME NEW x \in Tasks, FlowEnter(x) PROVE TypeInv'
  <2>1. item' \in Item \cup {NoItem}
    BY <1>18, <1>a DEF FlowEnter, Item
  <2>2. task' \in [Tasks -> Task]
    <3>1. item.live => [task[x] EXCEPT !.pc = "lock", !.id = item.id] \in Task
      BY <1>a, <1>c DEF Task, Pcs, Item
    <3>2. [task[x] EXCEPT !.pc = "check"] \in Task
      BY <1>c DEF Task, Pcs, LockedPcs
    <3> QED BY <1>18, <3>1, <3>2, <1>e DEF FlowEnter
  <2> QED BY <1>18, <2>1, <2>2 DEF FlowEnter
<1>19. ASSUME NEW x \in Tasks, FlowEnds(x) PROVE TypeInv'
  <2>1. item' \in Item \cup {NoItem}
    BY <1>19, <1>a DEF FlowEnds, Item
  <2> QED BY <1>19, <1>e, <1>f, <2>1 DEF FlowEnds
<1>20. CASE UNCHANGED vars
  BY <1>20 DEF vars
<1> QED
  BY <1>1, <1>2, <1>3, <1>4, <1>5, <1>6, <1>7, <1>8, <1>10, <1>11,
     <1>12, <1>13, <1>14, <1>15, <1>16, <1>17, <1>18, <1>19, <1>20
     DEF Next, TaskNext

LEMMA TypeInit == Init => TypeInv
BY WorktreeAssumption
   DEF Init, TypeInv, TypeOK, Task, IdleTask, Pcs, LockedPcs, None, Branches,
       Runs, NoOp

(* The types are kept by every step, deletes and retries included.         *)
THEOREM TypeCorrect == Spec => []TypeOK
<1>1. Spec => []TypeInv
  BY TypeInit, TypeStep, PTL DEF Spec
<1>2. TypeInv => TypeOK
  BY DEF TypeInv
<1> QED BY <1>1, <1>2, PTL
-----------------------------------------------------------------------------
(* An item in the map, or one that is being deleted, has its row.          *)
RowFirst == item.live \/ op.op \in {"deleteTree", "deleteItem"} => rows # 0

(* The steps of a task.                                                    *)
TaskStep == (\E x \in Flows : FlowStart(x)) \/ (\E x \in Tasks : TaskNext(x))

LEMMA TaskStepsKeepTheItem ==
    ASSUME TypeInv, TaskStep
    PROVE  rows' = rows /\ op' = op /\ (item'.live <=> item.live)
<1>a. item.live => item \in Item
  BY DEF TypeInv, TypeOK, NoItem
<1>1. ASSUME NEW x \in Flows, FlowStart(x)
      PROVE  rows' = rows /\ op' = op /\ (item'.live <=> item.live)
  BY <1>1, <1>a DEF FlowStart, Item
<1>2. ASSUME NEW x \in Tasks,
             TakeLock(x) \/ Check(x) \/ Clear(x) \/ AddTree(x) \/ PrepRead(x)
               \/ PrepFails(x)
      PROVE  rows' = rows /\ op' = op /\ (item'.live <=> item.live)
  BY <1>2 DEF TakeLock, Check, Clear, AddTree, PrepRead, PrepFails
<1>3. ASSUME NEW x \in Tasks, Record(x) \/ SetupOk(x) \/ FlowEnter(x) \/ FlowEnds(x)
      PROVE  rows' = rows /\ op' = op /\ (item'.live <=> item.live)
  <2>1. CASE Record(x)
    BY <2>1, <1>a DEF Record, Item
  <2>2. CASE SetupOk(x)
    BY <2>2, <1>a DEF SetupOk, Item
  <2>3. CASE FlowEnter(x)
    BY <2>3, <1>a DEF FlowEnter, Item
  <2>4. CASE FlowEnds(x)
    BY <2>4, <1>a DEF FlowEnds, Item
  <2> QED BY <1>3, <2>1, <2>2, <2>3, <2>4
<1> QED BY <1>1, <1>2, <1>3 DEF TaskStep, TaskNext

LEMMA RowStep ==
    ASSUME TypeInv, RowFirst, [Next]_vars
    PROVE  RowFirst'
<1>0. rows \in Nat
  BY WorktreeAssumption DEF TypeInv, TypeOK
<1>1. CASE AddCount \/ StartRun \/ DeleteRead \/ DeleteTree
  BY <1>1 DEF AddCount, StartRun, DeleteRead, DeleteTree, RowFirst
<1>2. CASE Insert
  BY <1>0, <1>2 DEF Insert, RowFirst
<1>3. CASE Retry \/ DeleteItem
  BY <1>3 DEF Retry, DeleteItem, NoItem, NoOp, RowFirst
<1>4. CASE TaskStep
  BY <1>4, TaskStepsKeepTheItem DEF RowFirst
<1>5. CASE UNCHANGED vars
  BY <1>5 DEF vars, RowFirst
<1> QED BY <1>1, <1>2, <1>3, <1>4, <1>5 DEF Next, TaskStep

(* Nothing leads back to the first run.                                    *)
LEMMA FirstRunPast ==
    ASSUME TypeInv, RowFirst, [Next]_vars, FirstRun'
    PROVE  FirstRun /\ ~Retry /\ ~DeleteRead /\ ~DeleteTree /\ ~DeleteItem
<1>0. rows \in Nat /\ NoOp.op = "none" /\ ~NoItem.live
  BY WorktreeAssumption DEF TypeInv, TypeOK, NoOp, NoItem
<1>1. ~Retry
  BY <1>0 DEF FirstRun, RowFirst, Retry
<1>2. ~DeleteRead
  BY DEF FirstRun, DeleteRead
<1>3. ~DeleteTree
  <2>1. DeleteTree => op'.op = "deleteItem"
    BY DEF DeleteTree, TypeInv, TypeOK, Request, NoOp
  <2> QED BY <2>1 DEF FirstRun
<1>4. ~DeleteItem
  BY <1>0 DEF FirstRun, RowFirst, DeleteItem
<1>5. ASSUME Insert PROVE FirstRun
  BY <1>0, <1>5 DEF Insert, FirstRun, RowFirst
<1>6. ASSUME AddCount \/ StartRun PROVE FirstRun
  BY <1>0, <1>6 DEF AddCount, StartRun, FirstRun
<1>7. ASSUME TaskStep PROVE FirstRun
  BY <1>7, TaskStepsKeepTheItem DEF FirstRun
<1>8. ASSUME UNCHANGED vars PROVE FirstRun
  BY <1>8 DEF vars, FirstRun
<1> QED
  BY <1>1, <1>2, <1>3, <1>4, <1>5, <1>6, <1>7, <1>8 DEF Next, TaskStep

(* A step of one task leaves the others alone; what it does to its own     *)
(* task, to the item and to the disk decides the invariant.                *)
LEMMA InvStep ==
    ASSUME TypeInv, IInv, [Next]_vars,
           ~Retry, ~DeleteRead, ~DeleteTree, ~DeleteItem
    PROVE  IInv'
<1> USE WorktreeAssumption
<1>a. /\ item.live => item \in Item
      /\ task \in [Tasks -> Task]
      /\ tree \in [Branches -> {"none", "there"}]
  BY DEF TypeInv, TypeOK, NoItem
<1>b. OneItem /\ Kinds /\ Mutex /\ OneBranch /\ HolderKnows
  BY DEF IInv
<1>c. \A x \in Tasks : ~Locked(x) => At(x, "idle") \/ task[x].pc \in {"spawned", "enter", "lock", "agent"}
  BY <1>a DEF Locked, At, Task, Pcs
<1>d. Preps \subseteq Tasks /\ Flows \subseteq Tasks
  BY DEF Tasks
<1>1. CASE AddCount
  BY <1>1, <1>b DEF AddCount, IInv, OneItem, Kinds, Mutex, OneBranch, HolderKnows,
     Locked, At, ChosenBranch
<1>2. CASE StartRun
  BY <1>2, <1>b DEF StartRun, IInv, OneItem, Kinds, Mutex, OneBranch, HolderKnows,
     Locked, At, ChosenBranch
<1>3. CASE Insert
  <2>1. ~item.live /\ \A x \in Tasks : task[x].pc = "idle"
    BY <1>3, <1>b DEF Insert, OneItem, NoOp, At
  <2>2. item'.live /\ item'.path = None /\ op' = NoOp /\ NoOp.op = "none"
    BY <1>3 DEF Insert, NewItem, NoOp
  <2>3. \A x \in Tasks : task'[x].pc = "idle" \/ (x \in Preps /\ task'[x].pc = "spawned")
    BY <1>3, <2>1, <1>a, <1>d DEF Insert, Goto, Task
  <2> QED BY <2>2, <2>3, <1>d DEF IInv, OneItem, Kinds, Mutex, OneBranch,
             HolderKnows, Locked, LockedPcs, At
<1>5. ASSUME NEW x \in Flows, FlowStart(x) PROVE IInv'
  <2>0. item.live /\ item \in Item /\ ~Locked(x) /\ task[x].pc = "idle"
    BY <1>5, <1>a DEF FlowStart, Locked, LockedPcs, At
  <2>1. /\ item'.live /\ item'.id = item.id /\ item'.br = item.br
        /\ item'.path = item.path /\ ChosenBranch' = ChosenBranch
    BY <1>5, <2>0 DEF FlowStart, Item, ChosenBranch
  <2>2. \A y \in Tasks : y # x => task'[y] = task[y]
    BY <1>5, <1>a DEF FlowStart
  <2>3. \/ task'[x].pc = "enter"
        \/ task'[x].pc = "agent" /\ task'[x].br = item.path /\ item.path # None
           /\ tree[item.path] # "none"
    BY <1>5, <1>a, <1>d DEF FlowStart
  <2>4. tree' = tree /\ op' = op
    BY <1>5 DEF FlowStart
  <2>5. OneItem' /\ Kinds' /\ Mutex'
    BY <2>0, <2>1, <2>2, <2>3, <2>4, <1>b, <1>d DEF OneItem, Kinds, Mutex, Locked, LockedPcs, At
  <2>6. OneBranch'
    BY <2>0, <2>1, <2>2, <2>3, <2>4, <1>b, <1>d DEF OneBranch, At
  <2>7. HolderKnows'
    BY <2>0, <2>1, <2>2, <2>3, <2>4, <1>b, <1>d DEF HolderKnows, At
  <2> QED BY <2>5, <2>6, <2>7 DEF IInv
<1>7. ASSUME NEW x \in Tasks, TakeLock(x) PROVE IInv'
  <2>1. task[x].pc = "lock" /\ item.live /\ task[x].id = item.id
    BY <1>7, <1>b DEF TakeLock, OneItem, At
  <2>2. \A y \in Tasks : ~Locked(y)
    BY <1>7, <2>1, <1>b DEF TakeLock, LockIsFree, OneItem, Locked, LockedPcs
  <2>3. item' = item /\ tree' = tree /\ op' = op /\ ChosenBranch' = ChosenBranch
    BY <1>7 DEF TakeLock, ChosenBranch
  <2>4. \A y \in Tasks : y # x => task'[y] = task[y]
    BY <1>7, <1>a DEF TakeLock, Goto
  <2>5. task'[x].id = task[x].id /\ task'[x].br = task[x].br
        /\ task'[x].pc = (IF x \in Preps THEN "clear" ELSE "check")
    BY <1>7, <1>a DEF TakeLock, Goto, Task
  <2>6. OneItem' /\ Kinds' /\ Mutex'
    BY <2>1, <2>2, <2>3, <2>4, <2>5, <1>b, <1>d
       DEF OneItem, Kinds, Mutex, Locked, LockedPcs, At
  <2>7. OneBranch' /\ HolderKnows'
    BY <2>1, <2>2, <2>3, <2>4, <2>5, <1>b, <1>d DEF OneBranch, HolderKnows, At
  <2> QED BY <2>6, <2>7 DEF IInv
<1>8. ASSUME NEW x \in Tasks, Check(x) PROVE IInv'
  <2>1. task[x].pc = "check" /\ item.live /\ item \in Item /\ x \in Flows
    BY <1>8, <1>a, <1>b DEF Check, OneItem, At, Kinds, Tasks
  <2>2. \A y \in Tasks : Locked(y) => y = x
    BY <2>1, <1>b DEF Mutex, Locked, LockedPcs
  <2>3. item' = item /\ tree' = tree /\ op' = op /\ ChosenBranch' = ChosenBranch
    BY <1>8 DEF Check, ChosenBranch
  <2>4. \A y \in Tasks : y # x => task'[y] = task[y]
    BY <1>8, <1>a DEF Check
  <2>5. CASE PreCreated
    <3>1. task'[x].pc = "setup" /\ task'[x].br = item.path
          /\ task'[x].id = task[x].id
      BY <1>8, <1>a, <2>5 DEF Check, Task
    <3>2. item.path = ChosenBranch /\ tree[item.path] # "none"
      BY <2>1, <2>5, <1>b DEF PreCreated, OneBranch
    <3>3. OneItem' /\ Kinds' /\ Mutex'
      BY <3>1, <2>1, <2>2, <2>3, <2>4, <1>b, <1>d
         DEF OneItem, Kinds, Mutex, Locked, LockedPcs, At
    <3>4. OneBranch' /\ HolderKnows'
      BY <3>1, <3>2, <2>1, <2>3, <2>4, <1>b, <1>d DEF OneBranch, HolderKnows, At
    <3> QED BY <3>3, <3>4 DEF IInv
  <2>6. CASE ~PreCreated
    <3>1. task'[x].pc = "clear" /\ task'[x].br = ChosenBranch
          /\ task'[x].id = task[x].id
      BY <1>8, <1>a, <2>1, <2>6 DEF Check, Task
    <3>2. item.path = None \/ tree[item.path] = "none"
      BY <2>1, <2>6 DEF PreCreated
    <3>3. OneItem' /\ Kinds' /\ Mutex'
      BY <3>1, <2>1, <2>2, <2>3, <2>4, <1>b, <1>d
         DEF OneItem, Kinds, Mutex, Locked, LockedPcs, At
    <3>4. OneBranch' /\ HolderKnows'
      BY <3>1, <3>2, <2>1, <2>3, <2>4, <1>b, <1>d DEF OneBranch, HolderKnows, At
    <3> QED BY <3>3, <3>4 DEF IInv
  <2> QED BY <2>5, <2>6
<1>9. ASSUME NEW x \in Tasks, Clear(x) PROVE IInv'
  <2>1. task[x].pc = "clear" /\ item.live
    BY <1>9, <1>b DEF Clear, OneItem, At
  <2>2. \A y \in Tasks : Locked(y) => y = x
    BY <2>1, <1>b DEF Mutex, Locked, LockedPcs
  <2>3. item' = item /\ op' = op /\ ChosenBranch' = ChosenBranch
    BY <1>9 DEF Clear, ChosenBranch
  <2>4. \A y \in Tasks : y # x => task'[y] = task[y]
    BY <1>9, <1>a DEF Clear, Goto
  <2>5. task'[x].pc = "add" /\ task'[x].br = task[x].br /\ task'[x].id = task[x].id
    BY <1>9, <1>a DEF Clear, Goto, Task
  <2>6. OneItem' /\ Kinds' /\ Mutex'
    BY <2>1, <2>2, <2>3, <2>4, <2>5, <1>b, <1>d
       DEF OneItem, Kinds, Mutex, Locked, LockedPcs, At
  <2>7. OneBranch'
    BY <2>1, <2>3, <2>4, <2>5, <1>b, <1>d DEF OneBranch, At
  <2>8. HolderKnows'
    BY <2>1, <2>2, <2>4, <2>5, <1>d DEF HolderKnows, At, Locked, LockedPcs
  <2> QED BY <2>6, <2>7, <2>8 DEF IInv
<1>10. ASSUME NEW x \in Tasks, AddTree(x) PROVE IInv'
  <2>1. task[x].pc = "add" /\ item.live /\ item \in Item
    BY <1>10, <1>a, <1>b DEF AddTree, OneItem, At
  <2>2. \A y \in Tasks : Locked(y) => y = x
    BY <2>1, <1>b DEF Mutex, Locked, LockedPcs
  <2>3. item' = item /\ op' = op /\ ChosenBranch' = ChosenBranch
    BY <1>10 DEF AddTree, ChosenBranch
  <2>4. \A y \in Tasks : y # x => task'[y] = task[y]
    BY <1>10, <1>a DEF AddTree, Goto
  <2>5. task'[x].pc = "record" /\ task'[x].br = task[x].br /\ task'[x].id = task[x].id
    BY <1>10, <1>a DEF AddTree, Goto, Task
  <2>6. OneItem' /\ Kinds' /\ Mutex'
    BY <2>1, <2>2, <2>3, <2>4, <2>5, <1>b, <1>d
       DEF OneItem, Kinds, Mutex, Locked, LockedPcs, At
  <2>7. OneBranch'
    BY <2>1, <2>3, <2>4, <2>5, <1>b, <1>d DEF OneBranch, At
  <2>8. ChosenBranch \in Branches
    BY <2>1 DEF ChosenBranch, Item, Canonical, Branches, Runs
  <2>9. tree'[task'[x].br] # "none"
    BY <1>10, <2>1, <2>5, <2>8, <1>a, <1>b DEF AddTree, OneBranch
  <2>10. HolderKnows'
    BY <2>1, <2>2, <2>4, <2>5, <2>9, <1>d DEF HolderKnows, At, Locked, LockedPcs
  <2> QED BY <2>6, <2>7, <2>10 DEF IInv
<1>11. ASSUME NEW x \in Tasks, Record(x) PROVE IInv'
  <2>1. task[x].pc = "record" /\ item.live /\ item \in Item
        /\ task[x].br = ChosenBranch
    BY <1>11, <1>a, <1>b DEF Record, OneItem, OneBranch, At
  <2>2. \A y \in Tasks : Locked(y) => y = x
    BY <2>1, <1>b DEF Mutex, Locked, LockedPcs
  <2>3. item' = [item EXCEPT !.path = ChosenBranch, !.br = ChosenBranch]
        /\ tree' = tree /\ op' = op
    BY <1>11, <2>1 DEF Record
  <2>4. item'.live /\ item'.id = item.id /\ item'.path = ChosenBranch
        /\ ChosenBranch' = ChosenBranch
    BY <2>1, <2>3 DEF Item, ChosenBranch, Canonical, None
  <2>5. \A y \in Tasks : y # x => task'[y] = task[y]
    BY <1>11, <1>a DEF Record
  <2>6. \/ x \in Preps /\ task'[x].pc = "idle"
        \/ x \in Flows /\ task'[x].pc = "setup" /\ task'[x].br = task[x].br
           /\ task'[x].id = task[x].id
    BY <1>11, <1>a DEF Record, Task, Tasks, IdleTask
  <2>7. OneItem' /\ Kinds' /\ Mutex'
    BY <2>1, <2>2, <2>3, <2>4, <2>5, <2>6, <1>b, <1>d
       DEF OneItem, Kinds, Mutex, Locked, LockedPcs, At
  <2>8. OneBranch'
    BY <2>1, <2>4, <2>5, <2>6, <1>b, <1>d DEF OneBranch, At
  <2>9. HolderKnows'
    BY <2>1, <2>2, <2>3, <2>5, <2>6, <1>b, <1>d
       DEF HolderKnows, At, Locked, LockedPcs
  <2> QED BY <2>7, <2>8, <2>9 DEF IInv
<1>12. ASSUME NEW x \in Tasks, SetupOk(x) PROVE IInv'
  <2>1. task[x].pc = "setup" /\ item.live /\ item \in Item /\ x \in Flows
    BY <1>12, <1>a, <1>b DEF SetupOk, OneItem, Kinds, Tasks, At
  <2>2. \A y \in Tasks : Locked(y) => y = x
    BY <2>1, <1>b DEF Mutex, Locked, LockedPcs
  <2>3. /\ item'.live /\ item'.id = item.id /\ item'.path = item.path
        /\ ChosenBranch' = ChosenBranch /\ tree' = tree /\ op' = op
    BY <1>12, <2>1 DEF SetupOk, Item, ChosenBranch
  <2>4. \A y \in Tasks : y # x => task'[y] = task[y]
    BY <1>12, <1>a DEF SetupOk, Goto
  <2>5. task'[x].pc = "agent" /\ task'[x].br = task[x].br
    BY <1>12, <1>a DEF SetupOk, Goto, Task
  <2>6. OneItem' /\ Kinds' /\ Mutex'
    BY <2>1, <2>2, <2>3, <2>4, <2>5, <1>b, <1>d
       DEF OneItem, Kinds, Mutex, Locked, LockedPcs, At
  <2>7. OneBranch' /\ HolderKnows'
    BY <2>1, <2>3, <2>4, <2>5, <1>b, <1>d DEF OneBranch, HolderKnows, At
  <2> QED BY <2>6, <2>7 DEF IInv
<1>13. ASSUME NEW x \in Tasks, PrepRead(x) PROVE IInv'
  <2>1. task[x].pc = "spawned" /\ item.live /\ x \in Preps
    BY <1>13, <1>b DEF PrepRead, OneItem, Kinds, Tasks, At
  <2>2. item' = item /\ tree' = tree /\ op' = op /\ ChosenBranch' = ChosenBranch
    BY <1>13 DEF PrepRead, ChosenBranch
  <2>3. \A y \in Tasks : y # x => task'[y] = task[y]
    BY <1>13, <1>a DEF PrepRead
  <2>4. task'[x].pc = "lock" /\ task'[x].id = item.id /\ task'[x].br = ChosenBranch
    BY <1>13, <1>a, <2>1 DEF PrepRead
  <2>5. OneItem' /\ Kinds' /\ Mutex'
    BY <2>1, <2>2, <2>3, <2>4, <1>b, <1>d
       DEF OneItem, Kinds, Mutex, Locked, LockedPcs, At
  <2>6. OneBranch' /\ HolderKnows'
    BY <2>1, <2>2, <2>3, <2>4, <1>b, <1>d DEF OneBranch, HolderKnows, At
  <2> QED BY <2>5, <2>6 DEF IInv
<1>14. ASSUME NEW x \in Tasks, PrepFails(x) PROVE IInv'
  <2>1. item' = item /\ tree' = tree /\ op' = op /\ ChosenBranch' = ChosenBranch
    BY <1>14 DEF PrepFails, ChosenBranch
  <2>2. \A y \in Tasks : y # x => task'[y] = task[y]
    BY <1>14, <1>a DEF PrepFails
  <2>3. task'[x].pc = "idle"
    BY <1>14, <1>a DEF PrepFails, IdleTask
  <2>4. OneItem' /\ Kinds' /\ Mutex'
    BY <2>1, <2>2, <2>3, <1>b, <1>d DEF OneItem, Kinds, Mutex, Locked, LockedPcs, At
  <2>5. OneBranch' /\ HolderKnows'
    BY <2>1, <2>2, <2>3, <1>b, <1>d DEF OneBranch, HolderKnows, At
  <2> QED BY <2>4, <2>5 DEF IInv
<1>15. ASSUME NEW x \in Tasks, FlowEnter(x) PROVE IInv'
  <2>1. task[x].pc = "enter" /\ item.live /\ item \in Item /\ x \in Flows
    BY <1>15, <1>a, <1>b DEF FlowEnter, OneItem, Kinds, Tasks, At
  <2>2. /\ item'.live /\ item'.id = item.id /\ item'.path = item.path
        /\ ChosenBranch' = ChosenBranch /\ tree' = tree /\ op' = op
    BY <1>15, <2>1 DEF FlowEnter, Item, ChosenBranch
  <2>3. \A y \in Tasks : y # x => task'[y] = task[y]
    BY <1>15, <1>a DEF FlowEnter
  <2>4. task'[x].pc = "lock" /\ task'[x].id = item.id
    BY <1>15, <1>a, <2>1 DEF FlowEnter, Task
  <2>5. OneItem' /\ Kinds' /\ Mutex'
    BY <2>1, <2>2, <2>3, <2>4, <1>b, <1>d
       DEF OneItem, Kinds, Mutex, Locked, LockedPcs, At
  <2>6. x \notin Preps
    BY <2>1
  <2>7. OneBranch' /\ HolderKnows'
    BY <2>1, <2>2, <2>3, <2>4, <2>6, <1>b, <1>d DEF OneBranch, HolderKnows, At
  <2> QED BY <2>5, <2>7 DEF IInv
<1>16. ASSUME NEW x \in Tasks, FlowEnds(x) PROVE IInv'
  <2>1. item.live /\ item \in Item
    BY <1>16, <1>a, <1>b DEF FlowEnds, OneItem, At
  <2>2. /\ item'.live /\ item'.id = item.id /\ item'.path = item.path
        /\ ChosenBranch' = ChosenBranch /\ tree' = tree /\ op' = op
    BY <1>16, <2>1 DEF FlowEnds, Item, ChosenBranch
  <2>3. \A y \in Tasks : y # x => task'[y] = task[y]
    BY <1>16, <1>a DEF FlowEnds
  <2>4. task'[x].pc = "idle"
    BY <1>16, <1>a DEF FlowEnds, IdleTask
  <2>5. OneItem' /\ Kinds' /\ Mutex'
    BY <2>1, <2>2, <2>3, <2>4, <1>b, <1>d
       DEF OneItem, Kinds, Mutex, Locked, LockedPcs, At
  <2>6. OneBranch' /\ HolderKnows'
    BY <2>1, <2>2, <2>3, <2>4, <1>b, <1>d DEF OneBranch, HolderKnows, At
  <2> QED BY <2>5, <2>6 DEF IInv
<1>17. CASE UNCHANGED vars
  BY <1>17, <1>b DEF vars, IInv, OneItem, Kinds, Mutex, OneBranch, HolderKnows,
     Locked, At, ChosenBranch
<1> QED
  BY <1>1, <1>2, <1>3, <1>5, <1>7, <1>8, <1>9, <1>10, <1>11,
     <1>12, <1>13, <1>14, <1>15, <1>16, <1>17
     DEF Next, TaskNext

LEMMA InvInit == Init => IInv
BY DEF Init, IInv, OneItem, Kinds, Mutex, OneBranch, HolderKnows, Locked,
       LockedPcs, At, IdleTask, NoItem, NoOp, Tasks

Inv == TypeInv /\ RowFirst /\ (FirstRun => IInv)

LEMMA Invariance == Spec => []Inv
<1>1. Init => Inv
  BY TypeInit, InvInit DEF Inv, RowFirst, Init, NoItem, NoOp
<1>2. Inv /\ [Next]_vars => Inv'
  <2> SUFFICES ASSUME Inv, [Next]_vars PROVE Inv'
    OBVIOUS
  <2>1. TypeInv' /\ RowFirst'
    BY TypeStep, RowStep DEF Inv
  <2>2. FirstRun' => IInv'
    BY FirstRunPast, InvStep DEF Inv
  <2> QED BY <2>1, <2>2 DEF Inv
<1> QED BY <1>1, <1>2, PTL DEF Spec

(* Until the work item is deleted or retried, a bootstrap never loses its  *)
(* worktree before the init commands are through.                          *)
THEOREM SetupKeepsItsTree == Spec => []SetupTreeComplete
<1>1. Inv => SetupTreeComplete
  BY DEF Inv, IInv, HolderKnows, SetupTreeComplete, At, Tasks
<1> QED BY <1>1, Invariance, PTL

(* Until the work item is deleted or retried, no bootstrap clears the tree *)
(* in which the agent of a sibling flow works.                             *)
THEOREM BootstrapsSpareAgents == Spec => []BootstrapSparesAgents
<1>1. Inv => BootstrapSparesAgents
  <2> SUFFICES ASSUME TypeInv, IInv, NEW x \in Flows, NEW y \in Flows,
                      At(x, "clear"), At(y, "agent"), task[x].br = task[y].br
               PROVE  tree[task[x].br] = "none"
    BY DEF BootstrapSparesAgents, Inv
  <2>1. item.live /\ item \in Item
    BY DEF TypeInv, TypeOK, IInv, OneItem, NoItem, At, Tasks
  <2>2. item.path = ChosenBranch /\ task[y].br = ChosenBranch
    BY DEF IInv, OneBranch, At, Tasks
  <2>3. ChosenBranch # None
    BY <2>1 DEF ChosenBranch, Item, Canonical, None
  <2> QED BY <2>2, <2>3 DEF IInv, HolderKnows
<1> QED BY <1>1, Invariance, PTL

----------------------------------------------------------------------------
(* The agent session.                                                      *)

LineKinds == {"init", "a", "result", "error", "tool", "odd", "toolend", "long"}
Verdicts == {"ok", "nonzero", "empty", "failed"}

Finished == {"done", "reaped", "unreaped"}

AsCtl ==
    /\ asProvider \in {"claude", "codex", "cursor", "opencode"}
    /\ asPc \in {"start", "read", "drain", "grace", "join"} \cup Finished
    /\ asSup \in {"on", "off"} /\ asRelay \in {"on", "trip", "off"}
    /\ asNudges \in Nat /\ asClock \in Nat
    /\ asResult \in Verdicts \cup {"none", "cancelled", "timeout"}

AsFlags ==
    /\ asStream \in BOOLEAN /\ asUser \in BOOLEAN /\ asStep \in BOOLEAN
    /\ asSeen \in BOOLEAN /\ asResume \in BOOLEAN /\ asFired \in BOOLEAN /\ asSignal \in BOOLEAN

AsQueues ==
    /\ asPipe \in Seq(LineKinds) /\ asRead \in Seq(LineKinds) /\ asLog \in Seq(LineKinds)
    /\ asLines \in Seq(LineKinds) /\ asInner \in Seq(LineKinds)

(* Every attempt has the deadline of the session.                          *)
OneDeadline == Waiting => asDeadline = Timeout

(* Who cancels an attempt, and what it knows: the operator, the relay      *)
(* after it has set the signal, or the idle timer while nudges are left.   *)
Cancellers ==
    /\ asStep => asSignal
    /\ asRelay = "trip" => asSignal
    /\ asFired /\ Waiting => asNudges < CursorMaxNudges
    /\ asResult = "cancelled" /\ asPc # "start" =>
          asUser \/ asStep \/ (asFired /\ asNudges < CursorMaxNudges)
    /\ asSession = "cancelled" => asUser \/ asSignal \/ (asFired /\ ~asSeen /\ ~asResume)

(* The supervisor of a Cursor session listens until the waiter has         *)
(* returned, but for an attempt it gave up, and nobody else has one.       *)
Supervised ==
    /\ asProvider = "cursor" /\ asStream /\ Waiting /\ ~asFired => asSup = "on"
    /\ asSup = "on" => asProvider = "cursor" /\ asStream /\ asPc # "start"
    /\ asSup = "off" /\ ~asFired => asInner = << >>
    /\ asPc = "start" /\ asNudges = 0 => ~asFired
    /\ asOutcome # "none" => asPc \in Finished
    /\ asSession # "none" \/ asPc \in Finished => asSup = "off" /\ asPc \in Finished \cup {"join"}

(* A container is up while its client lives, and the client only while the *)
(* session waits; each attempt leaves at most one container behind.        *)
Procs ==
    /\ asChild \in {"none", "alive", "ok", "bad", "killed"} /\ asBox \in {"none", "up"} /\ asLeft \in Nat
    /\ asBox = "up" => asChild = "alive"
    /\ asChild = "alive" => Waiting
    /\ asLeft + (IF asChild = "alive" THEN 1 ELSE 0) <= asNudges + (IF asPc = "start" THEN 0 ELSE 1)

AsInv == AsCtl /\ AsFlags /\ AsQueues /\ OneDeadline /\ Cancellers /\ Supervised /\ Procs /\ AgentSessionSafe

----------------------------------------------------------------------------
LEMMA FinalizeIsVerdict ==
    ASSUME NEW p, NEW exit, NEW out, p \in {"claude", "codex", "cursor", "opencode"}
    PROVE  Finalize(p, exit, out) \in Verdicts
<1>1. ExitVerdict(exit, out) \in Verdicts
  BY DEF ExitVerdict, Verdicts
<1>2. QED
  BY <1>1 DEF Finalize, FinalizeClaude, FinalizeCodex, FinalizeCursor, FinalizeOpencode,
     Verdicts

(* A line that goes from one queue to the next stays in its place.         *)
LEMMA LineMovesOn ==
    ASSUME NEW S, NEW s \in Seq(S), NEW t \in Seq(S), t # << >>
    PROVE  /\ Head(t) \in S /\ Tail(t) \in Seq(S)
           /\ Append(s, Head(t)) \in Seq(S)
           /\ Append(s, Head(t)) \o Tail(t) = s \o t
<1>1. Head(t) \in S /\ Tail(t) \in Seq(S) /\ Len(Tail(t)) = Len(t) - 1
      /\ \A i \in 1 .. Len(Tail(t)) : Tail(t)[i] = t[i + 1]
  BY HeadTailProperties
<1>2. /\ Append(s, Head(t)) \in Seq(S) /\ Len(Append(s, Head(t))) = Len(s) + 1
      /\ \A i \in 1 .. Len(s) : Append(s, Head(t))[i] = s[i]
      /\ Append(s, Head(t))[Len(s) + 1] = t[1]
  BY <1>1, AppendProperties
<1> DEFINE a == Append(s, Head(t))
           b == Tail(t)
<1>3. a \in Seq(S) /\ b \in Seq(S) /\ Len(a) \in Nat /\ Len(b) \in Nat /\ Len(s) \in Nat /\ Len(t) \in Nat
  BY <1>1, <1>2, LenProperties
<1>4. /\ a \o b \in Seq(S) /\ Len(a \o b) = Len(a) + Len(b)
      /\ \A i \in 1 .. Len(a) + Len(b) : (a \o b)[i] = IF i <= Len(a) THEN a[i] ELSE b[i - Len(a)]
  BY <1>3, ConcatProperties
<1>5. /\ s \o t \in Seq(S) /\ Len(s \o t) = Len(s) + Len(t)
      /\ \A i \in 1 .. Len(s) + Len(t) : (s \o t)[i] = IF i <= Len(s) THEN s[i] ELSE t[i - Len(s)]
  BY ConcatProperties
<1>6. Len(a \o b) = Len(s \o t)
  BY <1>1, <1>2, <1>3, <1>4, <1>5
<1>7. ASSUME NEW i \in 1 .. Len(a \o b) PROVE (a \o b)[i] = (s \o t)[i]
  <2>1. i \in 1 .. Len(a) + Len(b) /\ i \in 1 .. Len(s) + Len(t)
    BY <1>4, <1>5, <1>6
  <2>2. CASE i <= Len(s)
    BY <2>1, <2>2, <1>2, <1>3, <1>4, <1>5
  <2>3. CASE i = Len(s) + 1
    BY <2>1, <2>3, <1>2, <1>3, <1>4, <1>5
  <2>4. CASE i > Len(s) + 1
    <3>1. i - Len(a) \in 1 .. Len(b) /\ b[i - Len(a)] = t[i - Len(a) + 1]
      BY <2>1, <2>4, <1>1, <1>2, <1>3
    <3>2. (a \o b)[i] = b[i - Len(a)] /\ (s \o t)[i] = t[i - Len(s)]
      BY <2>1, <2>4, <1>2, <1>3, <1>4, <1>5
    <3> QED BY <3>1, <3>2, <2>1, <1>2, <1>3
  <2> QED BY <2>1, <2>2, <2>3, <2>4, <1>3
<1>8. a \o b = s \o t
  BY <1>4, <1>5, <1>6, <1>7, SeqEqual
<1> QED BY <1>1, <1>2, <1>8

(* A line that is written to the end of the last queue.                    *)
LEMMA LineComes ==
    \A s \in Seq(LineKinds) : \A t \in Seq(LineKinds) : \A e \in LineKinds :
        /\ Append(t, e) \in Seq(LineKinds)
        /\ Append(s \o t, e) = s \o Append(t, e)
<1> SUFFICES ASSUME NEW s \in Seq(LineKinds), NEW t \in Seq(LineKinds), NEW e \in LineKinds
             PROVE  Append(t, e) \in Seq(LineKinds) /\ Append(s \o t, e) = s \o Append(t, e)
  OBVIOUS
<1>1. Append(t, e) \in Seq(LineKinds) /\ s \o t \in Seq(LineKinds) /\ <<e>> \in Seq(LineKinds)
  BY AppendProperties, ConcatProperties
<1>2. Append(t, e) = t \o <<e>> /\ Append(s \o t, e) = (s \o t) \o <<e>>
  BY <1>1, AppendIsConcat
<1> QED BY <1>1, <1>2, ConcatAssociative

LEMMA SessInitOK == SessInit => AsInv
<1> SUFFICES ASSUME SessInit PROVE AsInv
  OBVIOUS
<1>0. << >> \in Seq(LineKinds)
  OBVIOUS
<1>1. AsCtl /\ AsFlags
  BY SessionAssumption DEF SessInit, AsCtl, AsFlags, Finished
<1>2. AsQueues
  BY <1>0 DEF SessInit, AsQueues
<1>3. OneDeadline /\ Cancellers /\ Supervised /\ Procs
  BY DEF SessInit, OneDeadline, Cancellers, Supervised, Procs, Waiting, Finished
<1>4. HardCap /\ NoAgentLeft /\ CancelHasCause
  BY SessionAssumption DEF SessInit, HardCap, NoAgentLeft, Working, CancelHasCause
<1>5. NoLineLost
  <2>1. << >> \o << >> = << >>
    BY <1>0, ConcatEmptySeq, Zenon
  <2> QED BY <2>1 DEF SessInit, NoLineLost
<1> QED BY <1>1, <1>2, <1>3, <1>4, <1>5 DEF AsInv, AgentSessionSafe

LEMMA SessBegins ==
    ASSUME AsInv, StartClaude \/ StartCodex \/ StartOpencode \/ StartCursor
    PROVE  AsInv'
<1>0. StartAttempt /\ asPc' = "read" /\ asFired' = FALSE /\ asInner' = << >>
      /\ asSup' = IF asProvider = "cursor" /\ asStream THEN "on" ELSE "off"
  BY DEF StartClaude, StartCodex, StartOpencode, StartCursor, StartAttempt
<1>1. AsCtl'
  BY <1>0 DEF AsInv, AsCtl, StartAttempt, SpawnGroup, Finished, asAttempt, asRelayVars
<1>2. AsFlags'
  BY <1>0 DEF AsInv, AsFlags, StartAttempt, asAttempt, asRelayVars, asTokens
<1>3. AsQueues'
  BY <1>0 DEF AsInv, AsQueues, StartAttempt, SpawnGroup, asRelayVars
<1>4. OneDeadline'
  BY <1>0 DEF OneDeadline, Waiting, StartAttempt, RemainingUntil
<1>5. Cancellers'
  <2>1. asSession = "none"
    BY <1>0 DEF AsInv, Supervised, Finished, StartAttempt
  <2>2. /\ asResult' = "none" /\ asSession' = asSession
        /\ asStep' = asStep /\ asSignal' = asSignal /\ asRelay' = asRelay
    BY <1>0 DEF StartAttempt, asRelayVars, asTokens
  <2> QED BY <1>0, <2>1, <2>2 DEF AsInv, Cancellers
<1>6. Supervised'
  BY <1>0 DEF AsInv, AsCtl, AsFlags, Supervised, Waiting, StartAttempt, Finished
<1>7. HardCap' /\ CancelHasCause'
  BY <1>0 DEF AsInv, AgentSessionSafe, HardCap, CancelHasCause, StartAttempt, Supervised,
     Finished, asAttempt, asRelayVars, asTokens
<1>8. NoLineLost'
  <2>1. asNudges = 0 => asInner = << >> /\ ~asFired
    BY <1>0 DEF AsInv, AsCtl, AsFlags, Supervised, StartAttempt
  <2> QED BY <1>0, <2>1 DEF AsInv, AgentSessionSafe, NoLineLost, StartAttempt, asAttempt,
             asRelayVars
<1>9. Procs' /\ NoAgentLeft'
  BY <1>0 DEF AsInv, AsCtl, AsFlags, Supervised, Procs, AgentSessionSafe, NoAgentLeft, Working,
     Waiting, Finished, StartAttempt, SpawnGroup, asTask, asProc, asSupVars, asAttempt,
     asRelayVars, asTokens
<1> QED BY <1>1, <1>2, <1>3, <1>4, <1>5, <1>6, <1>7, <1>8, <1>9 DEF AsInv, AgentSessionSafe

LEMMA SessNoTimeLeft ==
    ASSUME AsInv, NoTimeLeft
    PROVE  AsInv'
<1>1. AsCtl'
  BY DEF AsInv, AsCtl, NoTimeLeft, Finished, asSupVars, asAttempt, asRelayVars, asTokens, asProc
<1>2. AsFlags'
  BY DEF AsInv, AsFlags, NoTimeLeft, asSupVars, asAttempt, asRelayVars, asTokens, asProc
<1>3. AsQueues'
  BY DEF AsInv, AsQueues, NoTimeLeft, asSupVars, asAttempt, asRelayVars, asTokens, asProc
<1>4. OneDeadline'
  BY DEF AsInv, OneDeadline, Waiting, NoTimeLeft, asSupVars, asAttempt, asRelayVars,
     asTokens, asProc
<1>5. Cancellers'
  BY DEF AsInv, AsCtl, AsFlags, Cancellers, Supervised, Waiting, NoTimeLeft, Finished,
     asSupVars, asAttempt, asRelayVars, asTokens, asProc
<1>6. Supervised'
  BY DEF AsInv, AsCtl, AsFlags, Supervised, Waiting, NoTimeLeft, Finished, asSupVars, asAttempt,
     asRelayVars, asTokens, asProc
<1>7. HardCap' /\ CancelHasCause'
  BY DEF AsInv, AsCtl, AsFlags, AgentSessionSafe, HardCap, CancelHasCause, Supervised, Waiting,
     NoTimeLeft, Finished, asSupVars, asAttempt, asRelayVars, asTokens, asProc
<1>8. NoLineLost'
  BY DEF AsInv, AsCtl, AgentSessionSafe, NoLineLost, Supervised, NoTimeLeft, asSupVars,
     asAttempt, asRelayVars, asTokens, asProc
<1>9. Procs' /\ NoAgentLeft'
  BY DEF AsInv, AsCtl, AsFlags, Supervised, Procs, AgentSessionSafe, NoAgentLeft, Working,
     Waiting, Finished, NoTimeLeft, asTask, asProc, asSupVars, asAttempt, asRelayVars, asTokens
<1> QED BY <1>1, <1>2, <1>3, <1>4, <1>5, <1>6, <1>7, <1>8, <1>9 DEF AsInv, AgentSessionSafe

LEMMA SessReads ==
    ASSUME AsInv, ReadLine
    PROVE  AsInv'
<1>0. /\ Head(asPipe) \in LineKinds /\ Tail(asPipe) \in Seq(LineKinds)
      /\ Append(asLines, Head(asPipe)) \in Seq(LineKinds)
      /\ Append(asInner, Head(asPipe)) \in Seq(LineKinds)
      /\ Append(asRead, Head(asPipe)) \in Seq(LineKinds)
  <2>1. Head(asPipe) \in LineKinds /\ Tail(asPipe) \in Seq(LineKinds)
    BY HeadTailProperties DEF AsInv, AsQueues, ReadLine
  <2> QED BY <2>1, AppendProperties DEF AsInv, AsQueues
<1>1. AsCtl'
  BY DEF AsInv, AsCtl, ReadLine, Finished, asAttempt, asTokens
<1>2. AsFlags'
  BY DEF AsInv, AsFlags, ReadLine, asAttempt, asTokens
<1>3. AsQueues'
  BY <1>0 DEF AsInv, AsQueues, ReadLine
<1>4. OneDeadline'
  BY DEF AsInv, OneDeadline, Waiting, ReadLine, asAttempt, asTokens
<1>5. Cancellers'
  BY DEF AsInv, AsCtl, AsFlags, Cancellers, Supervised, Waiting, ReadLine, Finished, asAttempt,
     asTokens
<1>6. Supervised'
  BY DEF AsInv, AsCtl, AsFlags, Supervised, Waiting, ReadLine, Finished, asAttempt, asTokens
<1>7. HardCap' /\ CancelHasCause'
  BY DEF AsInv, AsCtl, AsFlags, AgentSessionSafe, HardCap, CancelHasCause, Supervised, Waiting,
     ReadLine, Finished, asAttempt, asTokens
<1>8. NoLineLost'
  <2> SUFFICES ASSUME asStream, asRelay = "on", asNudges = 0, ~asFired
               PROVE  asRead' = asLog' \o asLines' \o asInner'
    BY DEF NoLineLost, ReadLine, asAttempt
  <2>1. /\ asRead = asLog \o asLines \o asInner
        /\ asLog \in Seq(LineKinds) /\ asLines \in Seq(LineKinds) /\ asInner \in Seq(LineKinds)
    BY DEF AsInv, AsQueues, AgentSessionSafe, NoLineLost
  <2>2. asLog \o asLines \in Seq(LineKinds)
    BY <2>1, ConcatProperties
  <2>3. asRead' = Append(asRead, Head(asPipe)) /\ asLog' = asLog
    BY DEF ReadLine
  <2>4. CASE asProvider = "cursor"
    <3>1. asInner' = Append(asInner, Head(asPipe)) /\ asLines' = asLines
      BY <2>4 DEF ReadLine, AsInv, Supervised, Waiting
    <3>2. Append((asLog \o asLines) \o asInner, Head(asPipe)) = (asLog \o asLines) \o Append(asInner, Head(asPipe))
      BY <2>1, <2>2, <1>0, LineComes, Zenon
    <3> QED BY <3>1, <3>2, <2>1, <2>3
  <2>5. CASE asProvider # "cursor"
    <3>1. asLines' = Append(asLines, Head(asPipe)) /\ asInner' = asInner /\ asInner = << >>
      BY <2>5 DEF ReadLine, AsInv, AsCtl, Supervised
    <3>2. /\ Append(asLines, Head(asPipe)) \in Seq(LineKinds)
          /\ Append(asLog \o asLines, Head(asPipe)) = asLog \o Append(asLines, Head(asPipe))
      BY <2>1, <1>0, LineComes, Zenon
    <3>3. asLog \o Append(asLines, Head(asPipe)) \in Seq(LineKinds)
      BY <2>1, <3>2, ConcatProperties
    <3>4. /\ (asLog \o asLines) \o << >> = asLog \o asLines
          /\ (asLog \o Append(asLines, Head(asPipe))) \o << >> = asLog \o Append(asLines, Head(asPipe))
      BY <2>2, <3>3, ConcatEmptySeq
    <3> QED BY <3>1, <3>2, <3>4, <2>1, <2>3
  <2> QED BY <2>4, <2>5
<1>9. Procs' /\ NoAgentLeft'
  BY DEF AsInv, AsCtl, AsFlags, Supervised, Procs, AgentSessionSafe, NoAgentLeft, Working,
     Waiting, Finished, ReadLine, asTask, asProc, asSupVars, asAttempt, asRelayVars, asTokens
<1> QED BY <1>1, <1>2, <1>3, <1>4, <1>5, <1>6, <1>7, <1>8, <1>9 DEF AsInv, AgentSessionSafe

LEMMA SessStdoutEnds ==
    ASSUME AsInv, StdoutEnds
    PROVE  AsInv'
<1>1. AsCtl'
  BY DEF AsInv, AsCtl, StdoutEnds, Finished, asSupVars, asAttempt, asRelayVars, asTokens, asProc
<1>2. AsFlags'
  BY DEF AsInv, AsFlags, StdoutEnds, asSupVars, asAttempt, asRelayVars, asTokens, asProc
<1>3. AsQueues'
  BY DEF AsInv, AsQueues, StdoutEnds, asSupVars, asAttempt, asRelayVars, asTokens, asProc
<1>4. OneDeadline'
  BY DEF AsInv, OneDeadline, Waiting, StdoutEnds, asSupVars, asAttempt, asRelayVars,
     asTokens, asProc
<1>5. Cancellers'
  BY DEF AsInv, AsCtl, AsFlags, Cancellers, Supervised, Waiting, StdoutEnds, Finished,
     asSupVars, asAttempt, asRelayVars, asTokens, asProc
<1>6. Supervised'
  BY DEF AsInv, AsCtl, AsFlags, Supervised, Waiting, StdoutEnds, Finished, asSupVars, asAttempt,
     asRelayVars, asTokens, asProc
<1>7. HardCap' /\ CancelHasCause'
  BY DEF AsInv, AsCtl, AsFlags, AgentSessionSafe, HardCap, CancelHasCause, Supervised, Waiting,
     StdoutEnds, Finished, asSupVars, asAttempt, asRelayVars, asTokens, asProc
<1>8. NoLineLost'
  BY DEF AsInv, AsCtl, AgentSessionSafe, NoLineLost, Supervised, StdoutEnds, asSupVars,
     asAttempt, asRelayVars, asTokens, asProc
<1>9. Procs' /\ NoAgentLeft'
  BY DEF AsInv, AsCtl, AsFlags, Supervised, Procs, AgentSessionSafe, NoAgentLeft, Working,
     Waiting, Finished, StdoutEnds, asTask, asProc, asSupVars, asAttempt, asRelayVars, asTokens
<1> QED BY <1>1, <1>2, <1>3, <1>4, <1>5, <1>6, <1>7, <1>8, <1>9 DEF AsInv, AgentSessionSafe

LEMMA SessReaped ==
    ASSUME AsInv, ChildReaped \/ GraceEnds
    PROVE  AsInv'
<1>0. /\ asPc \in {"drain", "grace"} /\ asPc' = "join" /\ asResult' \in Verdicts
      /\ UNCHANGED asPipe /\ WaiterReturns(asResult')
  <2>1. asProvider \in {"claude", "codex", "cursor", "opencode"}
    BY DEF AsInv, AsCtl, Finished
  <2> QED BY <2>1, FinalizeIsVerdict DEF ChildReaped, GraceEnds, WaiterReturns, KillGroup,
             KillProcess, ProcessEnds, asProc
<1>1. AsCtl'
  BY <1>0 DEF AsInv, AsCtl, WaiterReturns, Finished, asSupVars, asAttempt, asRelayVars, asTokens
<1>2. AsFlags'
  BY <1>0 DEF AsInv, AsFlags, WaiterReturns, asSupVars, asAttempt, asRelayVars, asTokens
<1>3. AsQueues'
  BY <1>0 DEF AsInv, AsQueues, WaiterReturns, asSupVars, asAttempt, asRelayVars, asTokens
<1>4. OneDeadline'
  BY <1>0 DEF AsInv, OneDeadline, Waiting, WaiterReturns, asSupVars, asAttempt, asRelayVars,
     asTokens
<1>5. Cancellers'
  BY <1>0 DEF AsInv, AsCtl, AsFlags, Cancellers, Supervised, Waiting, Verdicts, WaiterReturns,
     Finished, asSupVars, asAttempt, asRelayVars, asTokens
<1>6. Supervised'
  BY <1>0 DEF AsInv, AsCtl, AsFlags, Supervised, Waiting, WaiterReturns, Finished, asSupVars,
     asAttempt, asRelayVars, asTokens
<1>7. HardCap' /\ CancelHasCause'
  BY <1>0 DEF AsInv, AsCtl, AsFlags, AgentSessionSafe, HardCap, CancelHasCause, Supervised,
     Verdicts, WaiterReturns, Finished, asSupVars, asAttempt, asRelayVars, asTokens
<1>8. NoLineLost'
  BY <1>0 DEF AsInv, AsCtl, AgentSessionSafe, NoLineLost, Supervised, WaiterReturns, Finished,
     asSupVars, asAttempt, asRelayVars, asTokens
<1>9. Procs' /\ NoAgentLeft'
  <2>1. asNudges' = asNudges /\ asStream' = asStream
    BY <1>0 DEF WaiterReturns, asAttempt
  <2>2. asResult' \notin {"cancelled", "timeout"}
    BY <1>0 DEF Verdicts
  <2>3. CASE ChildReaped
    BY <1>0, <2>1, <2>2, <2>3 DEF AsInv, AsCtl, Procs, NoAgentLeft, Working, Waiting,
       ChildReaped, asProc
  <2>4. CASE GraceEnds
    BY <1>0, <2>1, <2>2, <2>4 DEF AsInv, AsCtl, Procs, NoAgentLeft, Working, Waiting, GraceEnds,
       KillGroup, KillProcess, ProcessEnds, asProc
  <2> QED BY <2>3, <2>4
<1> QED BY <1>1, <1>2, <1>3, <1>4, <1>5, <1>6, <1>7, <1>8, <1>9 DEF AsInv, AgentSessionSafe

LEMMA SessCancelled ==
    ASSUME AsInv, WaiterCancelled
    PROVE  AsInv'
<1>1. AsCtl'
  BY DEF AsInv, AsCtl, WaiterCancelled, WaiterReturns, KillGroup, Finished, KillProcess,
     ProcessEnds, asSupVars, asAttempt, asRelayVars, asTokens
<1>2. AsFlags'
  BY DEF AsInv, AsFlags, KillProcess, ProcessEnds, WaiterCancelled, WaiterReturns, KillGroup,
     asSupVars, asAttempt, asRelayVars, asTokens
<1>3. AsQueues'
  BY DEF AsInv, AsQueues, KillProcess, ProcessEnds, WaiterCancelled, WaiterReturns, KillGroup,
     asSupVars, asAttempt, asRelayVars, asTokens
<1>4. OneDeadline'
  BY DEF AsInv, OneDeadline, KillProcess, ProcessEnds, Waiting, WaiterCancelled, WaiterReturns,
     KillGroup, asSupVars, asAttempt, asRelayVars, asTokens
<1>5. Cancellers'
  BY DEF AsInv, AsCtl, AsFlags, Cancellers, Supervised, Waiting, WaiterCancelled, WaiterReturns,
     KillGroup, Finished, KillProcess, ProcessEnds, asSupVars, asAttempt, asRelayVars, asTokens
<1>6. Supervised'
  BY DEF AsInv, AsCtl, AsFlags, Supervised, Waiting, WaiterCancelled, WaiterReturns, KillGroup,
     Finished, KillProcess, ProcessEnds, asSupVars, asAttempt, asRelayVars, asTokens
<1>7. HardCap' /\ CancelHasCause'
  BY DEF AsInv, AsCtl, AsFlags, AgentSessionSafe, HardCap, CancelHasCause, Supervised, Waiting,
     WaiterCancelled, WaiterReturns, KillGroup, Finished, KillProcess, ProcessEnds, asSupVars,
     asAttempt, asRelayVars, asTokens
<1>8. NoLineLost'
  BY DEF AsInv, AsCtl, AgentSessionSafe, NoLineLost, KillProcess, ProcessEnds, Supervised,
     WaiterCancelled, WaiterReturns, KillGroup, asSupVars, asAttempt, asRelayVars, asTokens
<1>9. Procs' /\ NoAgentLeft'
  BY DEF AsInv, AsCtl, AsFlags, Supervised, Procs, AgentSessionSafe, NoAgentLeft, Working,
     Waiting, Finished, WaiterCancelled, WaiterReturns, KillGroup, KillProcess, ProcessEnds,
     asTask, asProc, asSupVars, asAttempt, asRelayVars, asTokens
<1> QED BY <1>1, <1>2, <1>3, <1>4, <1>5, <1>6, <1>7, <1>8, <1>9 DEF AsInv, AgentSessionSafe

LEMMA SessTimesOut ==
    ASSUME AsInv, WaiterTimesOut
    PROVE  AsInv'
<1>1. AsCtl'
  BY DEF AsInv, AsCtl, WaiterTimesOut, WaiterReturns, KillGroup, Finished, KillProcess,
     ProcessEnds, asSupVars, asAttempt, asRelayVars, asTokens
<1>2. AsFlags'
  BY DEF AsInv, AsFlags, KillProcess, ProcessEnds, WaiterTimesOut, WaiterReturns, KillGroup,
     asSupVars, asAttempt, asRelayVars, asTokens
<1>3. AsQueues'
  BY DEF AsInv, AsQueues, KillProcess, ProcessEnds, WaiterTimesOut, WaiterReturns, KillGroup,
     asSupVars, asAttempt, asRelayVars, asTokens
<1>4. OneDeadline'
  BY DEF AsInv, OneDeadline, KillProcess, ProcessEnds, Waiting, WaiterTimesOut, WaiterReturns,
     KillGroup, asSupVars, asAttempt, asRelayVars, asTokens
<1>5. Cancellers'
  BY DEF AsInv, AsCtl, AsFlags, Cancellers, Supervised, Waiting, WaiterTimesOut, WaiterReturns,
     KillGroup, Finished, KillProcess, ProcessEnds, asSupVars, asAttempt, asRelayVars, asTokens
<1>6. Supervised'
  BY DEF AsInv, AsCtl, AsFlags, Supervised, Waiting, WaiterTimesOut, WaiterReturns, KillGroup,
     Finished, KillProcess, ProcessEnds, asSupVars, asAttempt, asRelayVars, asTokens
<1>7. HardCap' /\ CancelHasCause'
  BY DEF AsInv, AsCtl, AsFlags, AgentSessionSafe, HardCap, CancelHasCause, Supervised, Waiting,
     WaiterTimesOut, WaiterReturns, KillGroup, Finished, KillProcess, ProcessEnds, asSupVars,
     asAttempt, asRelayVars, asTokens
<1>8. NoLineLost'
  BY DEF AsInv, AsCtl, AgentSessionSafe, NoLineLost, KillProcess, ProcessEnds, Supervised,
     WaiterTimesOut, WaiterReturns, KillGroup, asSupVars, asAttempt, asRelayVars, asTokens
<1>9. Procs' /\ NoAgentLeft'
  BY DEF AsInv, AsCtl, AsFlags, Supervised, Procs, AgentSessionSafe, NoAgentLeft, Working,
     Waiting, Finished, WaiterTimesOut, WaiterReturns, KillGroup, KillProcess, ProcessEnds,
     asTask, asProc, asSupVars, asAttempt, asRelayVars, asTokens
<1> QED BY <1>1, <1>2, <1>3, <1>4, <1>5, <1>6, <1>7, <1>8, <1>9 DEF AsInv, AgentSessionSafe

LEMMA SessReceives ==
    ASSUME AsInv, SupReceives
    PROVE  AsInv'
<1>0. Tail(asInner) \in Seq(LineKinds) /\ Append(asLines, Head(asInner)) \in Seq(LineKinds)
  BY LineMovesOn DEF AsInv, AsQueues, SupReceives
<1>1. AsCtl'
  BY DEF AsInv, AsCtl, SupReceives, Finished, asTask, asProc, asSupVars, asAttempt, asRelayVars,
     asTokens
<1>2. AsFlags'
  BY DEF AsInv, AsFlags, SupReceives, asTask, asProc, asSupVars, asAttempt, asRelayVars,
     asTokens
<1>3. AsQueues'
  BY <1>0 DEF AsInv, AsQueues, SupReceives, asTask, asProc
<1>4. OneDeadline'
  BY DEF AsInv, OneDeadline, Waiting, SupReceives, asTask, asProc, asSupVars, asAttempt,
     asRelayVars, asTokens
<1>5. Cancellers'
  BY DEF AsInv, AsCtl, AsFlags, Cancellers, Supervised, Waiting, SupReceives, Finished, asTask,
     asProc, asSupVars, asAttempt, asRelayVars, asTokens
<1>6. Supervised'
  BY DEF AsInv, AsCtl, AsFlags, Supervised, Waiting, SupReceives, Finished, asTask, asProc,
     asSupVars, asAttempt, asRelayVars, asTokens
<1>7. HardCap' /\ CancelHasCause'
  BY DEF AsInv, AsCtl, AsFlags, AgentSessionSafe, HardCap, CancelHasCause, Supervised, Waiting,
     SupReceives, Finished, asTask, asProc, asSupVars, asAttempt, asRelayVars, asTokens
<1>8. NoLineLost'
  <2> SUFFICES ASSUME asStream, asRelay = "on", asNudges = 0, ~asFired
               PROVE  asRead' = asLog' \o asLines' \o asInner'
    BY DEF NoLineLost, SupReceives, asTask, asAttempt
  <2>1. /\ asRead = asLog \o asLines \o asInner
        /\ asLog \in Seq(LineKinds) /\ asLines \in Seq(LineKinds) /\ asInner \in Seq(LineKinds)
    BY DEF AsInv, AsQueues, AgentSessionSafe, NoLineLost
  <2>2. asLines' = Append(asLines, Head(asInner)) /\ asInner' = Tail(asInner) /\ asLog' = asLog /\ asRead' = asRead
    BY DEF SupReceives, asTask
  <2>3. asLines' \o asInner' = asLines \o asInner
    BY <2>1, <2>2, LineMovesOn DEF SupReceives
  <2>4. asLog \in Seq(LineKinds) /\ asLines' \in Seq(LineKinds) /\ asInner' \in Seq(LineKinds)
    BY <2>1, <2>2, <1>0
  <2>5. (asLog \o asLines) \o asInner = asLog \o (asLines \o asInner)
    BY <2>1, ConcatAssociative
  <2>6. (asLog \o asLines') \o asInner' = asLog \o (asLines' \o asInner')
    BY <2>4, ConcatAssociative
  <2> QED BY <2>1, <2>2, <2>3, <2>5, <2>6
<1>9. Procs' /\ NoAgentLeft'
  BY DEF AsInv, AsCtl, AsFlags, Supervised, Procs, AgentSessionSafe, NoAgentLeft, Working,
     Waiting, Finished, SupReceives, asTask, asProc, asSupVars, asAttempt, asRelayVars, asTokens
<1> QED BY <1>1, <1>2, <1>3, <1>4, <1>5, <1>6, <1>7, <1>8, <1>9 DEF AsInv, AgentSessionSafe

LEMMA SessIdle ==
    ASSUME AsInv, SupIdle
    PROVE  AsInv'
<1>1. AsCtl'
  BY DEF AsInv, AsCtl, SupIdle, IdleDue, Nudging, Finished, asTask, asProc, asSupVars,
     asAttempt, asRelayVars, asTokens
<1>2. AsFlags'
  BY DEF AsInv, AsFlags, SupIdle, IdleDue, Nudging, asTask, asProc, asSupVars, asAttempt,
     asRelayVars, asTokens
<1>3. AsQueues'
  BY DEF AsInv, AsQueues, SupIdle, IdleDue, Nudging, asTask, asProc, asSupVars, asAttempt,
     asRelayVars, asTokens
<1>4. OneDeadline'
  BY DEF AsInv, OneDeadline, Waiting, SupIdle, IdleDue, Nudging, asTask, asProc, asSupVars,
     asAttempt, asRelayVars, asTokens
<1>5. Cancellers'
  BY DEF AsInv, AsCtl, AsFlags, Cancellers, Supervised, Waiting, SupIdle, IdleDue, Nudging,
     Finished, asTask, asProc, asSupVars, asAttempt, asRelayVars, asTokens
<1>6. Supervised'
  BY DEF AsInv, AsCtl, AsFlags, Supervised, Waiting, SupIdle, IdleDue, Nudging, Finished,
     asTask, asProc, asSupVars, asAttempt, asRelayVars, asTokens
<1>7. HardCap' /\ CancelHasCause'
  BY DEF AsInv, AsCtl, AsFlags, AgentSessionSafe, HardCap, CancelHasCause, Supervised, Waiting,
     SupIdle, IdleDue, Nudging, Finished, asTask, asProc, asSupVars, asAttempt, asRelayVars,
     asTokens
<1>8. NoLineLost'
  BY DEF AsInv, AsCtl, AgentSessionSafe, NoLineLost, Supervised, SupIdle, IdleDue, Nudging,
     asTask, asProc, asSupVars, asAttempt, asRelayVars, asTokens
<1>9. Procs' /\ NoAgentLeft'
  BY DEF AsInv, AsCtl, AsFlags, Supervised, Procs, AgentSessionSafe, NoAgentLeft, Working,
     Waiting, Finished, SupIdle, asTask, asProc, asSupVars, asAttempt, asRelayVars, asTokens
<1> QED BY <1>1, <1>2, <1>3, <1>4, <1>5, <1>6, <1>7, <1>8, <1>9 DEF AsInv, AgentSessionSafe

LEMMA SessSupEnds ==
    ASSUME AsInv, SupEnds
    PROVE  AsInv'
<1>1. AsCtl'
  BY DEF AsInv, AsCtl, SupEnds, SupDone, Finished, asTask, asProc, asSupVars, asAttempt,
     asRelayVars, asTokens
<1>2. AsFlags'
  BY DEF AsInv, AsFlags, SupEnds, SupDone, asTask, asProc, asSupVars, asAttempt,
     asRelayVars, asTokens
<1>3. AsQueues'
  <2>1. << >> \in Seq(LineKinds)
    OBVIOUS
  <2> QED BY <2>1 DEF AsInv, AsQueues, SupEnds, asTask, asProc, asRelayVars
<1>4. OneDeadline'
  BY DEF AsInv, OneDeadline, Waiting, SupEnds, SupDone, asTask, asProc, asSupVars,
     asAttempt, asRelayVars, asTokens
<1>5. Cancellers'
  BY DEF AsInv, AsCtl, AsFlags, Cancellers, Supervised, Waiting, SupEnds, SupDone, Finished,
     asTask, asProc, asSupVars, asAttempt, asRelayVars, asTokens
<1>6. Supervised'
  BY DEF AsInv, AsCtl, AsFlags, Supervised, Waiting, SupEnds, SupDone, Finished, asTask, asProc,
     asSupVars, asAttempt, asRelayVars, asTokens
<1>7. HardCap' /\ CancelHasCause'
  BY DEF AsInv, AsCtl, AsFlags, AgentSessionSafe, HardCap, CancelHasCause, Supervised, Waiting,
     SupEnds, SupDone, Finished, asTask, asProc, asSupVars, asAttempt, asRelayVars, asTokens
<1>8. NoLineLost'
  BY DEF AsInv, AsCtl, AgentSessionSafe, NoLineLost, Supervised, SupEnds, SupDone, asTask,
     asProc, asSupVars, asAttempt, asRelayVars, asTokens
<1>9. Procs' /\ NoAgentLeft'
  BY DEF AsInv, AsCtl, AsFlags, Supervised, Procs, AgentSessionSafe, NoAgentLeft, Working,
     Waiting, Finished, SupEnds, asTask, asProc, asSupVars, asAttempt, asRelayVars, asTokens
<1> QED BY <1>1, <1>2, <1>3, <1>4, <1>5, <1>6, <1>7, <1>8, <1>9 DEF AsInv, AgentSessionSafe

LEMMA SessJoined ==
    ASSUME AsInv, SessionJoins
    PROVE  AsInv'
<1>1. AsCtl'
  BY DEF AsInv, AsCtl, SessionJoins, Resumes, Finished, asTask, asProc, asSupVars, asAttempt,
     asRelayVars, asTokens
<1>2. AsFlags'
  BY DEF AsInv, AsFlags, SessionJoins, Resumes, asTask, asProc, asSupVars, asAttempt,
     asRelayVars, asTokens
<1>3. AsQueues'
  BY DEF AsInv, AsQueues, SessionJoins, Resumes, asTask, asProc, asSupVars, asAttempt,
     asRelayVars, asTokens
<1>4. OneDeadline'
  BY DEF AsInv, OneDeadline, Waiting, SessionJoins, Resumes, asTask, asProc, asSupVars,
     asAttempt, asRelayVars, asTokens
<1>5. Cancellers'
  BY DEF AsInv, AsCtl, AsFlags, Cancellers, Supervised, Waiting, SessionJoins, Resumes,
     Finished, asTask, asProc, asSupVars, asAttempt, asRelayVars, asTokens
<1>6. Supervised'
  BY DEF AsInv, AsCtl, AsFlags, Supervised, Waiting, SessionJoins, Resumes, Finished, asTask,
     asProc, asSupVars, asAttempt, asRelayVars, asTokens
<1>7. HardCap' /\ CancelHasCause'
  BY DEF AsInv, AsCtl, AsFlags, AgentSessionSafe, HardCap, CancelHasCause, Supervised, Waiting,
     SessionJoins, Resumes, Finished, asTask, asProc, asSupVars, asAttempt, asRelayVars,
     asTokens
<1>8. NoLineLost'
  BY DEF AsInv, AsCtl, AgentSessionSafe, NoLineLost, Supervised, SessionJoins, Resumes,
     asTask, asProc, asSupVars, asAttempt, asRelayVars, asTokens
<1>9. Procs' /\ NoAgentLeft'
  BY DEF AsInv, AsCtl, AsFlags, Supervised, Procs, AgentSessionSafe, NoAgentLeft, Working,
     Waiting, Finished, SessionJoins, Resumes, asTask, asProc, asSupVars, asAttempt,
     asRelayVars, asTokens
<1> QED BY <1>1, <1>2, <1>3, <1>4, <1>5, <1>6, <1>7, <1>8, <1>9 DEF AsInv, AgentSessionSafe

LEMMA SessStepEnds ==
    ASSUME AsInv, StepEnds
    PROVE  AsInv'
<1>1. AsCtl'
  BY DEF AsInv, AsCtl, StepEnds, Finished, asTask, asProc, asSupVars, asAttempt, asRelayVars,
     asTokens
<1>2. AsFlags'
  BY DEF AsInv, AsFlags, StepEnds, asTask, asProc, asSupVars, asAttempt, asRelayVars, asTokens
<1>3. AsQueues'
  BY DEF AsInv, AsQueues, StepEnds, asTask, asProc, asSupVars, asAttempt, asRelayVars, asTokens
<1>4. OneDeadline'
  BY DEF AsInv, OneDeadline, Waiting, StepEnds, asTask, asProc, asSupVars, asAttempt,
     asRelayVars, asTokens
<1>5. Cancellers'
  BY DEF AsInv, AsCtl, AsFlags, Cancellers, Supervised, Waiting, StepEnds, Finished, asTask,
     asProc, asSupVars, asAttempt, asRelayVars, asTokens
<1>6. Supervised'
  BY DEF AsInv, AsCtl, AsFlags, Supervised, Waiting, StepEnds, Finished, asTask, asProc,
     asSupVars, asAttempt, asRelayVars, asTokens
<1>7. HardCap' /\ CancelHasCause'
  BY DEF AsInv, AsFlags, AgentSessionSafe, HardCap, CancelHasCause, Cancellers, Supervised,
     StepEnds, Finished, asProc, asSupVars, asAttempt, asRelayVars, asTokens
<1>8. NoLineLost'
  BY DEF AsInv, AsCtl, AgentSessionSafe, NoLineLost, Supervised, StepEnds, asTask, asProc,
     asSupVars, asAttempt, asRelayVars, asTokens
<1>9. Procs' /\ NoAgentLeft'
  BY DEF AsInv, AsCtl, AsFlags, Supervised, Procs, AgentSessionSafe, NoAgentLeft, Working,
     Waiting, Finished, StepEnds, asTask, asProc, asSupVars, asAttempt, asRelayVars, asTokens
<1> QED BY <1>1, <1>2, <1>3, <1>4, <1>5, <1>6, <1>7, <1>8, <1>9 DEF AsInv, AgentSessionSafe

LEMMA SessRelays ==
    ASSUME AsInv, RelayLine
    PROVE  AsInv'
<1>0. Tail(asLines) \in Seq(LineKinds) /\ Append(asLog, Head(asLines)) \in Seq(LineKinds)
  BY LineMovesOn DEF AsInv, AsQueues, RelayLine
<1>1. AsCtl'
  BY DEF AsInv, AsCtl, RelayLine, Finished, asTask, asProc, asSupVars, asAttempt, asRelayVars,
     asTokens
<1>2. AsFlags'
  BY DEF AsInv, AsFlags, RelayLine, asTask, asProc, asSupVars, asAttempt, asRelayVars, asTokens
<1>3. AsQueues'
  BY <1>0 DEF AsInv, AsQueues, RelayLine, asTask, asProc, asSupVars
<1>4. OneDeadline'
  BY DEF AsInv, OneDeadline, Waiting, RelayLine, asTask, asProc, asSupVars, asAttempt,
     asRelayVars, asTokens
<1>5. Cancellers'
  BY DEF AsInv, AsCtl, AsFlags, Cancellers, Supervised, Waiting, RelayLine, Finished, asTask,
     asProc, asSupVars, asAttempt, asRelayVars, asTokens
<1>6. Supervised'
  BY DEF AsInv, AsCtl, AsFlags, Supervised, Waiting, RelayLine, Finished, asTask, asProc,
     asSupVars, asAttempt, asRelayVars, asTokens
<1>7. HardCap' /\ CancelHasCause'
  BY DEF AsInv, AsCtl, AsFlags, AgentSessionSafe, HardCap, CancelHasCause, Supervised, Waiting,
     RelayLine, Finished, asTask, asProc, asSupVars, asAttempt, asRelayVars, asTokens
<1>8. NoLineLost'
  <2> SUFFICES ASSUME asStream, asRelay = "on", asNudges = 0, ~asFired
               PROVE  asRead' = asLog' \o asLines' \o asInner'
    BY DEF NoLineLost, RelayLine, asTask, asSupVars, asAttempt
  <2>1. /\ asRead = asLog \o asLines \o asInner
        /\ asLog \in Seq(LineKinds) /\ asLines \in Seq(LineKinds)
    BY DEF AsInv, AsQueues, AgentSessionSafe, NoLineLost
  <2>2. asLog' = Append(asLog, Head(asLines)) /\ asLines' = Tail(asLines) /\ asInner' = asInner /\ asRead' = asRead
    BY DEF RelayLine, asTask, asSupVars
  <2>3. asLog' \o asLines' = asLog \o asLines
    BY <2>1, <2>2, LineMovesOn DEF RelayLine
  <2> QED BY <2>1, <2>2, <2>3
<1>9. Procs' /\ NoAgentLeft'
  BY DEF AsInv, AsCtl, AsFlags, Supervised, Procs, AgentSessionSafe, NoAgentLeft, Working,
     Waiting, Finished, RelayLine, asTask, asProc, asSupVars, asAttempt, asRelayVars, asTokens
<1> QED BY <1>1, <1>2, <1>3, <1>4, <1>5, <1>6, <1>7, <1>8, <1>9 DEF AsInv, AgentSessionSafe

LEMMA SessRelayCancels ==
    ASSUME AsInv, RelayCancels
    PROVE  AsInv'
<1>1. AsCtl'
  BY DEF AsInv, AsCtl, RelayCancels, Finished, asTask, asProc, asSupVars, asAttempt,
     asRelayVars, asTokens
<1>2. AsFlags'
  BY DEF AsInv, AsFlags, RelayCancels, asTask, asProc, asSupVars, asAttempt, asRelayVars,
     asTokens
<1>3. AsQueues'
  <2>1. << >> \in Seq(LineKinds)
    OBVIOUS
  <2> QED BY <2>1 DEF AsInv, AsQueues, RelayCancels, asTask, asProc, asSupVars
<1>4. OneDeadline'
  BY DEF AsInv, OneDeadline, Waiting, RelayCancels, asTask, asProc, asSupVars, asAttempt,
     asRelayVars, asTokens
<1>5. Cancellers'
  BY DEF AsInv, AsCtl, AsFlags, Cancellers, Supervised, Waiting, RelayCancels, Finished, asTask,
     asProc, asSupVars, asAttempt, asRelayVars, asTokens
<1>6. Supervised'
  BY DEF AsInv, AsCtl, AsFlags, Supervised, Waiting, RelayCancels, Finished, asTask, asProc,
     asSupVars, asAttempt, asRelayVars, asTokens
<1>7. HardCap' /\ CancelHasCause'
  BY DEF AsInv, AsCtl, AsFlags, AgentSessionSafe, HardCap, CancelHasCause, Supervised, Waiting,
     RelayCancels, Finished, asTask, asProc, asSupVars, asAttempt, asRelayVars, asTokens
<1>8. NoLineLost'
  BY DEF AsInv, AsCtl, AgentSessionSafe, NoLineLost, Supervised, RelayCancels, asTask,
     asProc, asSupVars, asAttempt, asRelayVars, asTokens
<1>9. Procs' /\ NoAgentLeft'
  BY DEF AsInv, AsCtl, AsFlags, Supervised, Procs, AgentSessionSafe, NoAgentLeft, Working,
     Waiting, Finished, RelayCancels, asTask, asProc, asSupVars, asAttempt, asRelayVars,
     asTokens
<1> QED BY <1>1, <1>2, <1>3, <1>4, <1>5, <1>6, <1>7, <1>8, <1>9 DEF AsInv, AgentSessionSafe

LEMMA SessWritten ==
    ASSUME AsInv, NEW k \in LineKinds, ChildWrites(k)
    PROVE  AsInv'
<1>1. AsCtl'
  BY DEF AsInv, AsCtl, ChildWrites, Finished, CliRuns, NotProc, asTask, asProc, asSupVars,
     asAttempt, asRelayVars, asTokens
<1>2. AsFlags'
  BY DEF AsInv, AsFlags, NotProc, ChildWrites, asTask, asProc, asSupVars, asAttempt,
     asRelayVars, asTokens
<1>3. AsQueues'
  <2>1. Append(asPipe, k) \in Seq(LineKinds)
    BY AppendProperties DEF AsInv, AsQueues, NotProc
  <2> QED BY <2>1 DEF AsInv, AsQueues, NotProc, ChildWrites, asTask, asSupVars, asRelayVars
<1>4. OneDeadline'
  BY DEF AsInv, OneDeadline, NotProc, Waiting, ChildWrites, asTask, asProc, asSupVars,
     asAttempt, asRelayVars, asTokens
<1>5. Cancellers'
  BY DEF AsInv, AsCtl, AsFlags, Cancellers, Supervised, Waiting, ChildWrites, Finished, CliRuns,
     NotProc, asTask, asProc, asSupVars, asAttempt, asRelayVars, asTokens
<1>6. Supervised'
  BY DEF AsInv, AsCtl, AsFlags, Supervised, Waiting, ChildWrites, Finished, CliRuns, NotProc,
     asTask, asProc, asSupVars, asAttempt, asRelayVars, asTokens
<1>7. HardCap' /\ CancelHasCause'
  BY DEF AsInv, AsCtl, AsFlags, AgentSessionSafe, HardCap, CancelHasCause, Supervised, Waiting,
     ChildWrites, Finished, CliRuns, NotProc, asTask, asProc, asSupVars, asAttempt, asRelayVars,
     asTokens
<1>8. NoLineLost'
  BY DEF AsInv, AsCtl, AgentSessionSafe, NoLineLost, NotProc, Supervised, ChildWrites, asTask,
     asProc, asSupVars, asAttempt, asRelayVars, asTokens
<1>9. Procs' /\ NoAgentLeft'
  BY DEF AsInv, AsCtl, AsFlags, Supervised, Procs, AgentSessionSafe, NoAgentLeft, Working,
     Waiting, Finished, ChildWrites, CliRuns, NotProc, asTask, asProc, asSupVars, asAttempt,
     asRelayVars, asTokens
<1> QED BY <1>1, <1>2, <1>3, <1>4, <1>5, <1>6, <1>7, <1>8, <1>9 DEF AsInv, AgentSessionSafe

LEMMA SessDetached ==
    ASSUME AsInv, NEW d, ChildDetaches(d)
    PROVE  AsInv'
<1>1. AsCtl'
  BY DEF AsInv, AsCtl, ChildDetaches, Finished, CliRuns, NotProc, asTask, asProc, asSupVars,
     asAttempt, asRelayVars, asTokens
<1>2. AsFlags'
  BY DEF AsInv, AsFlags, NotProc, ChildDetaches, asTask, asProc, asSupVars, asAttempt,
     asRelayVars, asTokens
<1>3. AsQueues'
  BY DEF AsInv, AsQueues, NotProc, ChildDetaches, asTask, asProc, asSupVars, asAttempt,
     asRelayVars, asTokens
<1>4. OneDeadline'
  BY DEF AsInv, OneDeadline, NotProc, Waiting, ChildDetaches, asTask, asProc, asSupVars,
     asAttempt, asRelayVars, asTokens
<1>5. Cancellers'
  BY DEF AsInv, AsCtl, AsFlags, Cancellers, Supervised, Waiting, ChildDetaches, Finished,
     CliRuns, NotProc, asTask, asProc, asSupVars, asAttempt, asRelayVars, asTokens
<1>6. Supervised'
  BY DEF AsInv, AsCtl, AsFlags, Supervised, Waiting, ChildDetaches, Finished, CliRuns, NotProc,
     asTask, asProc, asSupVars, asAttempt, asRelayVars, asTokens
<1>7. HardCap' /\ CancelHasCause'
  BY DEF AsInv, AsCtl, AsFlags, AgentSessionSafe, HardCap, CancelHasCause, Supervised, Waiting,
     ChildDetaches, Finished, CliRuns, NotProc, asTask, asProc, asSupVars, asAttempt,
     asRelayVars, asTokens
<1>8. NoLineLost'
  BY DEF AsInv, AsCtl, AgentSessionSafe, NoLineLost, NotProc, Supervised, ChildDetaches, asTask,
     asProc, asSupVars, asAttempt, asRelayVars, asTokens
<1>9. Procs' /\ NoAgentLeft'
  BY DEF AsInv, AsCtl, AsFlags, Supervised, Procs, AgentSessionSafe, NoAgentLeft, Working,
     Waiting, Finished, ChildDetaches, CliRuns, NotProc, asTask, asProc, asSupVars, asAttempt,
     asRelayVars, asTokens
<1> QED BY <1>1, <1>2, <1>3, <1>4, <1>5, <1>6, <1>7, <1>8, <1>9 DEF AsInv, AgentSessionSafe

LEMMA SessExited ==
    ASSUME AsInv, NEW c \in {"ok", "bad"}, ChildExits(c)
    PROVE  AsInv'
<1>1. AsCtl'
  BY DEF AsInv, AsCtl, ChildExits, Finished, CliRuns, NotProc, asTask, asProc, asSupVars,
     asAttempt, asRelayVars, asTokens
<1>2. AsFlags'
  BY DEF AsInv, AsFlags, NotProc, ChildExits, asTask, asProc, asSupVars, asAttempt, asRelayVars,
     asTokens
<1>3. AsQueues'
  BY DEF AsInv, AsQueues, NotProc, ChildExits, asTask, asProc, asSupVars, asAttempt,
     asRelayVars, asTokens
<1>4. OneDeadline'
  BY DEF AsInv, OneDeadline, NotProc, Waiting, ChildExits, asTask, asProc, asSupVars, asAttempt,
     asRelayVars, asTokens
<1>5. Cancellers'
  BY DEF AsInv, AsCtl, AsFlags, Cancellers, Supervised, Waiting, ChildExits, Finished, CliRuns,
     NotProc, asTask, asProc, asSupVars, asAttempt, asRelayVars, asTokens
<1>6. Supervised'
  BY DEF AsInv, AsCtl, AsFlags, Supervised, Waiting, ChildExits, Finished, CliRuns, NotProc,
     asTask, asProc, asSupVars, asAttempt, asRelayVars, asTokens
<1>7. HardCap' /\ CancelHasCause'
  BY DEF AsInv, AsCtl, AsFlags, AgentSessionSafe, HardCap, CancelHasCause, Supervised, Waiting,
     ChildExits, Finished, CliRuns, NotProc, asTask, asProc, asSupVars, asAttempt, asRelayVars,
     asTokens
<1>8. NoLineLost'
  BY DEF AsInv, AsCtl, AgentSessionSafe, NoLineLost, NotProc, Supervised, ChildExits, asTask,
     asProc, asSupVars, asAttempt, asRelayVars, asTokens
<1>9. Procs' /\ NoAgentLeft'
  BY DEF AsInv, AsCtl, AsFlags, Supervised, Procs, AgentSessionSafe, NoAgentLeft, Working,
     Waiting, Finished, ChildExits, CliRuns, NotProc, asTask, asProc, asSupVars, asAttempt,
     asRelayVars, asTokens
<1> QED BY <1>1, <1>2, <1>3, <1>4, <1>5, <1>6, <1>7, <1>8, <1>9 DEF AsInv, AgentSessionSafe

LEMMA SessUserCancels ==
    ASSUME AsInv, UserCancels
    PROVE  AsInv'
<1>1. AsCtl'
  BY DEF AsInv, AsCtl, UserCancels, Finished, asTask, asProc, asSupVars, asAttempt, asRelayVars,
     asTokens
<1>2. AsFlags'
  BY DEF AsInv, AsFlags, UserCancels, asTask, asProc, asSupVars, asAttempt, asRelayVars,
     asTokens
<1>3. AsQueues'
  BY DEF AsInv, AsQueues, UserCancels, asTask, asProc, asSupVars, asAttempt, asRelayVars,
     asTokens
<1>4. OneDeadline'
  BY DEF AsInv, OneDeadline, Waiting, UserCancels, asTask, asProc, asSupVars, asAttempt,
     asRelayVars, asTokens
<1>5. Cancellers'
  BY DEF AsInv, AsCtl, AsFlags, Cancellers, Supervised, Waiting, UserCancels, Finished, asTask,
     asProc, asSupVars, asAttempt, asRelayVars, asTokens
<1>6. Supervised'
  BY DEF AsInv, AsCtl, AsFlags, Supervised, Waiting, UserCancels, Finished, asTask, asProc,
     asSupVars, asAttempt, asRelayVars, asTokens
<1>7. HardCap' /\ CancelHasCause'
  BY DEF AsInv, AsCtl, AsFlags, AgentSessionSafe, HardCap, CancelHasCause, Supervised, Waiting,
     UserCancels, Finished, asTask, asProc, asSupVars, asAttempt, asRelayVars, asTokens
<1>8. NoLineLost'
  BY DEF AsInv, AsCtl, AgentSessionSafe, NoLineLost, Supervised, UserCancels, asTask,
     asProc, asSupVars, asAttempt, asRelayVars, asTokens
<1>9. Procs' /\ NoAgentLeft'
  BY DEF AsInv, AsCtl, AsFlags, Supervised, Procs, AgentSessionSafe, NoAgentLeft, Working,
     Waiting, Finished, UserCancels, asTask, asProc, asSupVars, asAttempt, asRelayVars, asTokens
<1> QED BY <1>1, <1>2, <1>3, <1>4, <1>5, <1>6, <1>7, <1>8, <1>9 DEF AsInv, AgentSessionSafe

LEMMA SessTick ==
    ASSUME AsInv, Tick
    PROVE  AsInv'
<1>1. AsCtl'
  BY DEF AsInv, AsCtl, Tick, Finished, asTask, asProc, asSupVars, asAttempt, asRelayVars,
     asTokens
<1>2. AsFlags'
  BY DEF AsInv, AsFlags, Tick, asTask, asProc, asSupVars, asAttempt, asRelayVars, asTokens
<1>3. AsQueues'
  BY DEF AsInv, AsQueues, Tick, asTask, asProc, asSupVars, asAttempt, asRelayVars, asTokens
<1>4. OneDeadline'
  BY DEF AsInv, OneDeadline, Waiting, Tick, asTask, asProc, asSupVars, asAttempt,
     asRelayVars, asTokens
<1>5. Cancellers'
  BY DEF AsInv, AsCtl, AsFlags, Cancellers, Supervised, Waiting, Tick, Finished, asTask, asProc,
     asSupVars, asAttempt, asRelayVars, asTokens
<1>6. Supervised'
  BY DEF AsInv, AsCtl, AsFlags, Supervised, Waiting, Tick, Finished, asTask, asProc, asSupVars,
     asAttempt, asRelayVars, asTokens
<1>7. HardCap' /\ CancelHasCause'
  BY SessionAssumption DEF AsInv, AsCtl, AgentSessionSafe, HardCap, CancelHasCause, OneDeadline,
     Tick, Finished, asTask, asProc, asSupVars, asAttempt, asTokens
<1>8. NoLineLost'
  BY DEF AsInv, AsCtl, AgentSessionSafe, NoLineLost, Supervised, Tick, asTask, asProc,
     asSupVars, asAttempt, asRelayVars, asTokens
<1>9. Procs' /\ NoAgentLeft'
  BY DEF AsInv, AsCtl, AsFlags, Supervised, Procs, AgentSessionSafe, NoAgentLeft, Working,
     Waiting, Finished, Tick, asTask, asProc, asSupVars, asAttempt, asRelayVars, asTokens
<1> QED BY <1>1, <1>2, <1>3, <1>4, <1>5, <1>6, <1>7, <1>8, <1>9 DEF AsInv, AgentSessionSafe

LEMMA SessBoxes ==
    ASSUME AsInv, BoxStarts \/ ClientFails
    PROVE  AsInv'
<1>1. AsCtl'
  BY DEF AsInv, AsCtl, Finished, BoxStarts, ClientFails, ProcessEnds, NotProc, asTask, asProc,
     asSupVars, asAttempt, asRelayVars, asTokens
<1>2. AsFlags'
  BY DEF AsInv, AsFlags, BoxStarts, ClientFails, ProcessEnds, NotProc, asTask, asProc,
     asSupVars, asAttempt, asRelayVars, asTokens
<1>3. AsQueues'
  BY DEF AsInv, AsQueues, BoxStarts, ClientFails, ProcessEnds, NotProc, asTask, asProc,
     asSupVars, asAttempt, asRelayVars, asTokens
<1>4. OneDeadline'
  BY DEF AsInv, OneDeadline, Waiting, BoxStarts, ClientFails, ProcessEnds, NotProc, asTask,
     asProc, asSupVars, asAttempt, asRelayVars, asTokens
<1>5. Cancellers'
  BY DEF AsInv, AsCtl, AsFlags, Cancellers, Supervised, Waiting, Finished, BoxStarts,
     ClientFails, ProcessEnds, NotProc, asTask, asProc, asSupVars, asAttempt, asRelayVars,
     asTokens
<1>6. Supervised'
  BY DEF AsInv, AsCtl, AsFlags, Supervised, Waiting, Finished, BoxStarts, ClientFails,
     ProcessEnds, NotProc, asTask, asProc, asSupVars, asAttempt, asRelayVars, asTokens
<1>7. HardCap' /\ CancelHasCause'
  BY DEF AsInv, AsCtl, AsFlags, AgentSessionSafe, HardCap, CancelHasCause, Supervised, Waiting,
     Finished, BoxStarts, ClientFails, ProcessEnds, NotProc, asTask, asProc, asSupVars,
     asAttempt, asRelayVars, asTokens
<1>8. NoLineLost'
  BY DEF AsInv, AsCtl, AgentSessionSafe, NoLineLost, Supervised, BoxStarts, ClientFails,
     ProcessEnds, NotProc, asTask, asProc, asSupVars, asAttempt, asRelayVars, asTokens
<1>9. Procs' /\ NoAgentLeft'
  BY DEF AsInv, AsCtl, AsFlags, Supervised, Procs, AgentSessionSafe, NoAgentLeft, Working,
     Waiting, Finished, BoxStarts, ClientFails, ProcessEnds, NotProc, asTask, asProc, asSupVars,
     asAttempt, asRelayVars, asTokens
<1> QED BY <1>1, <1>2, <1>3, <1>4, <1>5, <1>6, <1>7, <1>8, <1>9 DEF AsInv, AgentSessionSafe

LEMMA SessLeftBehind ==
    ASSUME AsInv, LeftBehindEnds \/ OthersCleanUp
    PROVE  AsInv'
<1>1. AsCtl'
  BY DEF AsInv, AsCtl, Finished, LeftBehindEnds, OthersCleanUp, RemoveContainers, NotProc,
     asTask, asProc, asSupVars, asAttempt, asRelayVars, asTokens
<1>2. AsFlags'
  BY DEF AsInv, AsFlags, LeftBehindEnds, OthersCleanUp, RemoveContainers, NotProc, asTask,
     asProc, asSupVars, asAttempt, asRelayVars, asTokens
<1>3. AsQueues'
  BY DEF AsInv, AsQueues, LeftBehindEnds, OthersCleanUp, RemoveContainers, NotProc, asTask,
     asProc, asSupVars, asAttempt, asRelayVars, asTokens
<1>4. OneDeadline'
  BY DEF AsInv, OneDeadline, Waiting, LeftBehindEnds, OthersCleanUp, RemoveContainers, NotProc,
     asTask, asProc, asSupVars, asAttempt, asRelayVars, asTokens
<1>5. Cancellers'
  BY DEF AsInv, AsCtl, AsFlags, Cancellers, Supervised, Waiting, Finished, LeftBehindEnds,
     OthersCleanUp, RemoveContainers, NotProc, asTask, asProc, asSupVars, asAttempt,
     asRelayVars, asTokens
<1>6. Supervised'
  BY DEF AsInv, AsCtl, AsFlags, Supervised, Waiting, Finished, LeftBehindEnds, OthersCleanUp,
     RemoveContainers, NotProc, asTask, asProc, asSupVars, asAttempt, asRelayVars, asTokens
<1>7. HardCap' /\ CancelHasCause'
  BY DEF AsInv, AsCtl, AsFlags, AgentSessionSafe, HardCap, CancelHasCause, Supervised, Waiting,
     Finished, LeftBehindEnds, OthersCleanUp, RemoveContainers, NotProc, asTask, asProc,
     asSupVars, asAttempt, asRelayVars, asTokens
<1>8. NoLineLost'
  BY DEF AsInv, AsCtl, AgentSessionSafe, NoLineLost, Supervised, LeftBehindEnds, OthersCleanUp,
     RemoveContainers, NotProc, asTask, asProc, asSupVars, asAttempt, asRelayVars, asTokens
<1>9. Procs' /\ NoAgentLeft'
  <2>1. UNCHANGED <<asPc, asStream, asNudges, asResult, asDaemon>>
    BY DEF LeftBehindEnds, OthersCleanUp, RemoveContainers, NotProc, asTask, asAttempt
  <2>2. CASE LeftBehindEnds
    BY <2>1, <2>2 DEF AsInv, AsCtl, Procs, AgentSessionSafe, NoAgentLeft, Working, Waiting,
       LeftBehindEnds
  <2>3. CASE OthersCleanUp
    <3>1. asLeft' = 0 /\ asBox' = "none" /\ (asChild' = asChild \/ (asBox = "up" /\ asChild' = "bad"))
      BY <2>3 DEF OthersCleanUp, RemoveContainers
    <3> QED BY <2>1, <3>1 DEF AsInv, AsCtl, Procs, AgentSessionSafe, NoAgentLeft, Working, Waiting
  <2> QED BY <2>2, <2>3
<1> QED BY <1>1, <1>2, <1>3, <1>4, <1>5, <1>6, <1>7, <1>8, <1>9 DEF AsInv, AgentSessionSafe

LEMMA SessCleansUp ==
    ASSUME AsInv, NEW ok \in BOOLEAN, DriverCleansUp(ok)
    PROVE  AsInv'
<1>1. AsCtl'
  BY DEF AsInv, AsCtl, Finished, DriverCleansUp, RemoveContainers, asTask, asProc, asSupVars,
     asAttempt, asRelayVars, asTokens
<1>2. AsFlags'
  BY DEF AsInv, AsFlags, DriverCleansUp, RemoveContainers, asTask, asProc, asSupVars, asAttempt,
     asRelayVars, asTokens
<1>3. AsQueues'
  BY DEF AsInv, AsQueues, DriverCleansUp, RemoveContainers, asTask, asProc, asSupVars,
     asAttempt, asRelayVars, asTokens
<1>4. OneDeadline'
  BY DEF AsInv, OneDeadline, Waiting, DriverCleansUp, RemoveContainers, asTask, asProc,
     asSupVars, asAttempt, asRelayVars, asTokens
<1>5. Cancellers'
  BY DEF AsInv, AsCtl, AsFlags, Cancellers, Supervised, Waiting, Finished, DriverCleansUp,
     RemoveContainers, asTask, asProc, asSupVars, asAttempt, asRelayVars, asTokens
<1>6. Supervised'
  BY DEF AsInv, AsCtl, AsFlags, Supervised, Waiting, Finished, DriverCleansUp, RemoveContainers,
     asTask, asProc, asSupVars, asAttempt, asRelayVars, asTokens
<1>7. HardCap' /\ CancelHasCause'
  BY DEF AsInv, AsCtl, AsFlags, AgentSessionSafe, HardCap, CancelHasCause, Supervised, Waiting,
     Finished, DriverCleansUp, RemoveContainers, asTask, asProc, asSupVars, asAttempt,
     asRelayVars, asTokens
<1>8. NoLineLost'
  BY DEF AsInv, AsCtl, AgentSessionSafe, NoLineLost, Supervised, DriverCleansUp,
     RemoveContainers, asTask, asProc, asSupVars, asAttempt, asRelayVars, asTokens
<1>9. Procs' /\ NoAgentLeft'
  BY DEF AsInv, AsCtl, AsFlags, Supervised, Procs, AgentSessionSafe, NoAgentLeft, Working,
     Waiting, Finished, DriverCleansUp, RemoveContainers, asTask, asProc, asSupVars, asAttempt,
     asRelayVars, asTokens
<1> QED BY <1>1, <1>2, <1>3, <1>4, <1>5, <1>6, <1>7, <1>8, <1>9 DEF AsInv, AgentSessionSafe

LEMMA SessDropped ==
    ASSUME AsInv, ImproveDropped
    PROVE  AsInv'
<1>1. AsCtl'
  BY DEF AsInv, AsCtl, Finished, ImproveDropped, KillChildOnly, KillProcess, ProcessEnds,
     asTask, asProc, asSupVars, asAttempt, asRelayVars, asTokens
<1>2. AsFlags'
  BY DEF AsInv, AsFlags, ImproveDropped, KillChildOnly, KillProcess, ProcessEnds, asTask,
     asProc, asSupVars, asAttempt, asRelayVars, asTokens
<1>3. AsQueues'
  BY DEF AsInv, AsQueues, ImproveDropped, KillChildOnly, KillProcess, ProcessEnds, asTask,
     asProc, asSupVars, asAttempt, asRelayVars, asTokens
<1>4. OneDeadline'
  BY DEF AsInv, OneDeadline, Waiting, ImproveDropped, KillChildOnly, KillProcess, ProcessEnds,
     asTask, asProc, asSupVars, asAttempt, asRelayVars, asTokens
<1>5. Cancellers'
  BY DEF AsInv, AsCtl, AsFlags, Cancellers, Supervised, Waiting, Finished, ImproveDropped,
     KillChildOnly, KillProcess, ProcessEnds, asTask, asProc, asSupVars, asAttempt, asRelayVars,
     asTokens
<1>6. Supervised'
  BY DEF AsInv, AsCtl, AsFlags, Supervised, Waiting, Finished, ImproveDropped, KillChildOnly,
     KillProcess, ProcessEnds, asTask, asProc, asSupVars, asAttempt, asRelayVars, asTokens
<1>7. HardCap' /\ CancelHasCause'
  BY DEF AsInv, AsCtl, AsFlags, AgentSessionSafe, HardCap, CancelHasCause, Supervised, Waiting,
     Finished, ImproveDropped, KillChildOnly, KillProcess, ProcessEnds, asTask, asProc,
     asSupVars, asAttempt, asRelayVars, asTokens
<1>8. NoLineLost'
  BY DEF AsInv, AsCtl, AgentSessionSafe, NoLineLost, Supervised, ImproveDropped, KillChildOnly,
     KillProcess, ProcessEnds, asTask, asProc, asSupVars, asAttempt, asRelayVars, asTokens
<1>9. Procs' /\ NoAgentLeft'
  BY DEF AsInv, AsCtl, AsFlags, Supervised, Procs, AgentSessionSafe, NoAgentLeft, Working,
     Waiting, Finished, ImproveDropped, KillChildOnly, KillProcess, ProcessEnds, asTask, asProc,
     asSupVars, asAttempt, asRelayVars, asTokens
<1> QED BY <1>1, <1>2, <1>3, <1>4, <1>5, <1>6, <1>7, <1>8, <1>9 DEF AsInv, AgentSessionSafe

LEMMA SessStutters ==
    ASSUME AsInv, UNCHANGED asVars
    PROVE  AsInv'
<1>1. AsCtl'
  BY DEF AsInv, AsCtl, asVars, Finished, asTask, asProc, asSupVars, asAttempt, asRelayVars,
     asTokens
<1>2. AsFlags'
  BY DEF AsInv, AsFlags, asVars, asTask, asProc, asSupVars, asAttempt, asRelayVars, asTokens
<1>3. AsQueues'
  BY DEF AsInv, AsQueues, asVars, asTask, asProc, asSupVars, asAttempt, asRelayVars, asTokens
<1>4. OneDeadline'
  BY DEF AsInv, OneDeadline, Waiting, asVars, asTask, asProc, asSupVars, asAttempt,
     asRelayVars, asTokens
<1>5. Cancellers'
  BY DEF AsInv, AsCtl, AsFlags, Cancellers, Supervised, Waiting, asVars, Finished, asTask,
     asProc, asSupVars, asAttempt, asRelayVars, asTokens
<1>6. Supervised'
  BY DEF AsInv, AsCtl, AsFlags, Supervised, Waiting, asVars, Finished, asTask, asProc,
     asSupVars, asAttempt, asRelayVars, asTokens
<1>7. HardCap' /\ CancelHasCause'
  BY DEF AsInv, AsCtl, AsFlags, AgentSessionSafe, HardCap, CancelHasCause, Supervised, Waiting,
     asVars, Finished, asTask, asProc, asSupVars, asAttempt, asRelayVars, asTokens
<1>8. NoLineLost'
  BY DEF AsInv, AsCtl, AgentSessionSafe, NoLineLost, Supervised, asVars, asTask, asProc,
     asSupVars, asAttempt, asRelayVars, asTokens
<1>9. Procs' /\ NoAgentLeft'
  BY DEF AsInv, AsCtl, AsFlags, Supervised, Procs, AgentSessionSafe, NoAgentLeft, Working,
     Waiting, Finished, asVars, asTask, asProc, asSupVars, asAttempt, asRelayVars, asTokens
<1> QED BY <1>1, <1>2, <1>3, <1>4, <1>5, <1>6, <1>7, <1>8, <1>9 DEF AsInv, AgentSessionSafe

(* A session ends in time over all its attempts, leaves no process of its  *)
(* group and at most one container an attempt behind, and none after the   *)
(* clean-up, is cancelled only for a cause and loses no line, for any      *)
(* timeout, idle limit and number of nudges and of lines                   *)
(* (run_cursor_agent_session, wait_with_streaming_until,                   *)
(* cleanup_for_ticket).                                                    *)
THEOREM SessionsAreSafe == SessSpec => []AgentSessionSafe
<1>1. SessInit => AsInv
  BY SessInitOK
<1>2. AsInv /\ [SessNext]_asVars => AsInv'
  <2> SUFFICES ASSUME AsInv, [SessNext]_asVars PROVE AsInv'
    OBVIOUS
  <2>1. CASE SessStep
    BY <2>1, SessBegins, SessNoTimeLeft, SessReads, SessStdoutEnds, SessReaped, SessCancelled,
       SessTimesOut, SessReceives, SessIdle, SessSupEnds, SessJoined, SessStepEnds,
       SessCleansUp DEF SessStep
  <2>2. CASE RelayLine \/ RelayCancels \/ UserCancels \/ Tick
    BY <2>2, SessRelays, SessRelayCancels, SessUserCancels, SessTick
  <2>3. CASE \E k \in LineKinds : ChildWrites(k)
    BY <2>3, SessWritten
  <2>4. CASE \E d \in {"pipes", "quiet"} : ChildDetaches(d)
    BY <2>4, SessDetached
  <2>5. CASE \E c \in {"ok", "bad"} : ChildExits(c)
    BY <2>5, SessExited
  <2>6. CASE UNCHANGED asVars
    BY <2>6, SessStutters
  <2>7. CASE BoxStarts \/ ClientFails \/ LeftBehindEnds \/ OthersCleanUp \/ ImproveDropped
    BY <2>7, SessBoxes, SessLeftBehind, SessDropped
  <2> QED BY <2>1, <2>2, <2>3, <2>4, <2>5, <2>6, <2>7 DEF SessNext, LineKinds
<1>3. AsInv => AgentSessionSafe
  BY DEF AsInv
<1> QED BY <1>1, <1>2, <1>3, PTL DEF SessSpec

----------------------------------------------------------------------------
(* The log.                                                                *)

LogLine == [w : Writers, by : LogTasks, n : Nat \ {0}, at : Nat]
LogRow == [id : Nat \ {0}, w : Writers, by : LogTasks, n : Nat \ {0}, at : Nat]

LogType ==
    /\ lgNow \in Nat /\ lgNextId \in Nat \ {0}
    /\ lgSent \in [Writers -> Nat] /\ lgPend \in [Writers -> [LogTasks -> SUBSET Nat]]
    /\ lgChan \in [Writers -> Seq(LogLine)] /\ lgBuf \in [Writers -> Seq(LogLine)]
    /\ lgPc \in [Writers -> {"idle", "linger", "flush", "last", "gone"}]
    /\ lgRows \in SUBSET LogRow /\ lgDropped \in SUBSET LogLine

(* The lines of a writer that its batcher is done with.                    *)
Settled(w) == lgSent[w] - Len(lgChan[w]) - Len(lgBuf[w])

(* The buffer holds the lines after those, the channel the ones after it.  *)
LogLinedUp ==
    \A w \in Writers :
        /\ Settled(w) >= 0
        /\ lgPc[w] \in {"idle", "gone"} => lgBuf[w] = << >>
        /\ \A i \in DOMAIN lgBuf[w] : lgBuf[w][i].w = w /\ lgBuf[w][i].n = Settled(w) + i
        /\ \A i \in DOMAIN lgChan[w] : lgChan[w][i].w = w /\ lgChan[w][i].n = Settled(w) + Len(lgBuf[w]) + i

(* A line that is settled is in the table or was removed.                  *)
InTable(w, n) == \E r \in lgRows : r.w = w /\ r.n = n
Removed(w, n) == \E l \in lgDropped : l.w = w /\ l.n = n
LogSettled ==
    /\ \A r \in lgRows : r.n <= Settled(r.w) /\ ~Removed(r.w, r.n)
    /\ \A l \in lgDropped : l.n <= Settled(l.w)
    /\ \A w \in Writers : \A n \in 1 .. Settled(w) : InTable(w, n) \/ Removed(w, n)

(* Lines carry the time they were stamped at, which for the lines of one   *)
(* task follows the order in which it sends them.                          *)
Known(w) ==
    {lgChan[w][i] : i \in DOMAIN lgChan[w]} \cup {lgBuf[w][i] : i \in DOMAIN lgBuf[w]}
    \cup {Line(r) : r \in {s \in lgRows : s.w = w}} \cup {l \in lgDropped : l.w = w}
LogTimed ==
    \A w \in Writers :
        /\ \A l \in Known(w) : l.at <= lgNow /\ l.n <= lgSent[w]
        /\ \A l, m \in Known(w) : /\ l.n < m.n /\ l.by = m.by => l.at <= m.at
                                  /\ l.n = m.n => l = m
        /\ \A t \in LogTasks : \A at \in lgPend[w][t] :
              at <= lgNow /\ \A l \in Known(w) : l.by = t => l.at <= at

(* The ids of the rows of a writer follow its lines.                       *)
LogIds ==
    /\ \A r \in lgRows : r.id < lgNextId
    /\ \A r, s \in lgRows : /\ r.id = s.id => r = s
                            /\ r.w = s.w /\ r.n < s.n => r.id < s.id
                            /\ r.w = s.w /\ r.n = s.n => r = s

LogInv == LogType /\ LogLinedUp /\ LogSettled /\ LogTimed /\ LogIds
LEMMA LogInitOK == LogInit => LogInv
<1> SUFFICES ASSUME LogInit PROVE LogInv
  OBVIOUS
<1> USE DEF LogInit
<1>1. LogType
  BY DEF LogType
<1>2. \A w \in Writers : Settled(w) = 0 /\ lgChan[w] = << >> /\ lgBuf[w] = << >>
  BY DEF Settled
<1>3. LogLinedUp
  BY <1>2 DEF LogLinedUp
<1>4. LogSettled /\ LogIds
  BY <1>2 DEF LogSettled, LogIds
<1>5. LogTimed
  BY <1>2 DEF LogTimed, Known
<1> QED BY <1>1, <1>3, <1>4, <1>5 DEF LogInv

LEMMA LogFields ==
    ASSUME LogInv, NEW w \in Writers
    PROVE  /\ lgSent[w] \in Nat /\ lgChan[w] \in Seq(LogLine) /\ lgBuf[w] \in Seq(LogLine)
           /\ Len(lgChan[w]) \in Nat /\ Len(lgBuf[w]) \in Nat /\ Settled(w) \in Nat
           /\ DOMAIN lgChan[w] = 1 .. Len(lgChan[w]) /\ DOMAIN lgBuf[w] = 1 .. Len(lgBuf[w])
           /\ \A i \in 1 .. Len(lgChan[w]) : lgChan[w][i] \in LogLine
           /\ \A i \in 1 .. Len(lgBuf[w]) : lgBuf[w][i] \in LogLine
<1>1. lgSent[w] \in Nat /\ lgChan[w] \in Seq(LogLine) /\ lgBuf[w] \in Seq(LogLine)
  BY DEF LogInv, LogType
<1>2. Len(lgChan[w]) \in Nat /\ Len(lgBuf[w]) \in Nat
  BY <1>1
<1>3. Settled(w) \in Nat
  BY <1>1, <1>2 DEF LogInv, LogLinedUp, Settled
<1> QED BY <1>1, <1>2, <1>3

LEMMA KnownFields ==
    ASSUME LogInv, NEW w \in Writers, NEW l \in Known(w)
    PROVE  l \in LogLine /\ l.at \in Nat /\ l.n \in Nat \ {0} /\ l.by \in LogTasks /\ l.w = w /\ l.at <= lgNow /\ l.n <= lgSent[w]
<1>1. l \in LogLine /\ l.w = w
  <2>1. CASE l \in {lgChan[w][i] : i \in DOMAIN lgChan[w]}
    BY <2>1, LogFields DEF LogInv, LogLinedUp
  <2>2. CASE l \in {lgBuf[w][i] : i \in DOMAIN lgBuf[w]}
    BY <2>2, LogFields DEF LogInv, LogLinedUp
  <2>3. CASE l \in {Line(r) : r \in {s \in lgRows : s.w = w}}
    BY <2>3 DEF LogInv, LogType, LogRow, LogLine, Line
  <2>4. CASE l \in {d \in lgDropped : d.w = w}
    BY <2>4 DEF LogInv, LogType
  <2> QED BY <2>1, <2>2, <2>3, <2>4 DEF Known
<1>2. l.at <= lgNow /\ l.n <= lgSent[w]
  BY DEF LogInv, LogTimed
<1> QED BY <1>1, <1>2 DEF LogLine

LEMMA RowFields ==
    ASSUME LogInv, NEW r \in lgRows
    PROVE  /\ r.w \in Writers /\ r.by \in LogTasks /\ r.n \in Nat \ {0} /\ r.id \in Nat \ {0} /\ r.at \in Nat
           /\ Line(r) \in Known(r.w) /\ Line(r) \in LogLine
           /\ Line(r).w = r.w /\ Line(r).by = r.by /\ Line(r).n = r.n /\ Line(r).at = r.at
           /\ r = [id |-> r.id, w |-> r.w, by |-> r.by, n |-> r.n, at |-> r.at]
<1>1. r \in LogRow
  BY DEF LogInv, LogType
<1>2. /\ r.w \in Writers /\ r.by \in LogTasks /\ r.n \in Nat \ {0} /\ r.id \in Nat \ {0} /\ r.at \in Nat
      /\ r = [id |-> r.id, w |-> r.w, by |-> r.by, n |-> r.n, at |-> r.at]
  BY <1>1 DEF LogRow
<1>3. Line(r) \in Known(r.w)
  BY DEF Known
<1> QED BY <1>2, <1>3 DEF Line, LogLine

LEMMA DroppedFields ==
    ASSUME LogInv, NEW l \in lgDropped
    PROVE  l.w \in Writers /\ l.n \in Nat \ {0} /\ l \in Known(l.w) /\ l \in LogLine
BY DEF LogInv, LogType, LogLine, Known

(* Lines that only change places keep their times.                         *)
LEMMA TimesStay ==
    ASSUME LogInv, lgNow' \in Nat, lgNow' >= lgNow, UNCHANGED <<lgSent, lgPend>>,
           \A w \in Writers : Known(w)' \subseteq Known(w)
    PROVE  LogTimed'
<1>1. \A w \in Writers : \A l \in Known(w) : l.at \in Nat
  BY KnownFields
<1>2. lgNow \in Nat /\ \A w \in Writers : \A t \in LogTasks : lgPend[w][t] \subseteq Nat
  BY DEF LogInv, LogType
<1> QED BY <1>1, <1>2 DEF LogInv, LogTimed

(* A task takes the time of its next line.                                 *)
LEMMA LogStamps == ASSUME LogInv, NEW w \in Writers, NEW t \in LogTasks, StampLine(w, t) PROVE LogInv'
<1>1. lgPend' = [lgPend EXCEPT ![w][t] = {lgNow}] /\ UNCHANGED <<lgNow, lgSent, lgChan, lgBuf, lgPc, lgRows, lgNextId, lgDropped>>
  BY DEF StampLine, lgTable
<1>2. \A u : Known(u)' = Known(u) /\ Settled(u)' = Settled(u)
  BY <1>1 DEF Known, Settled
<1>3. /\ lgNow \in Nat /\ lgPend' \in [Writers -> [LogTasks -> SUBSET Nat]]
      /\ \A u \in Writers : \A x \in LogTasks :
            lgPend'[u][x] = IF u = w /\ x = t THEN {lgNow} ELSE lgPend[u][x]
  BY <1>1 DEF LogInv, LogType
<1>4. LogType' /\ LogIds'
  BY <1>1, <1>3 DEF LogInv, LogType, LogIds
<1>5. LogLinedUp' /\ LogSettled'
  BY <1>1, <1>2 DEF LogInv, LogLinedUp, LogSettled, InTable, Removed
<1>6. LogTimed'
  <2>1. ASSUME NEW u \in Writers, NEW x \in LogTasks, NEW at \in lgPend'[u][x]
        PROVE  at <= lgNow /\ \A l \in Known(u) : l.by = x => l.at <= at
    <3>1. CASE u = w /\ x = t
      BY <3>1, <1>3 DEF LogInv, LogTimed
    <3>2. CASE ~(u = w /\ x = t)
      BY <3>2, <1>3 DEF LogInv, LogTimed
    <3> QED BY <3>1, <3>2
  <2> QED BY <2>1, <1>1, <1>2 DEF LogInv, LogTimed
<1> QED BY <1>4, <1>5, <1>6 DEF LogInv

(* The newest line of a task is sent.                                      *)
LEMMA LogEmits == ASSUME LogInv, NEW w \in Writers, NEW t \in LogTasks, EmitToSink(w, t) PROVE LogInv'
<1>0. PICK at \in lgPend[w][t] :
          lgChan' = [lgChan EXCEPT ![w] = Append(@, [w |-> w, by |-> t, n |-> lgSent[w] + 1, at |-> at])]
  BY DEF EmitToSink
<1> DEFINE l == [w |-> w, by |-> t, n |-> lgSent[w] + 1, at |-> at]
           c == Len(lgChan[w])
<1>1. /\ lgSent' = [lgSent EXCEPT ![w] = @ + 1] /\ lgChan' = [lgChan EXCEPT ![w] = Append(lgChan[w], l)]
      /\ lgPend' = [lgPend EXCEPT ![w][t] = {}]
      /\ UNCHANGED <<lgNow, lgBuf, lgPc, lgRows, lgNextId, lgDropped>>
  BY <1>0 DEF EmitToSink, lgTable
<1>a. /\ lgNow \in Nat /\ lgSent[w] \in Nat /\ lgSent[w] + 1 \in Nat \ {0}
      /\ at \in Nat /\ at <= lgNow /\ \A m \in Known(w) : m.by = t => m.at <= at
  <2>1. lgNow \in Nat /\ lgSent[w] \in Nat /\ at \in Nat
    BY LogFields DEF LogInv, LogType
  <2> QED BY <2>1 DEF LogInv, LogTimed
<1>b. /\ lgPend' \in [Writers -> [LogTasks -> SUBSET Nat]]
      /\ \A u \in Writers : \A x \in LogTasks :
            lgPend'[u][x] = IF u = w /\ x = t THEN {} ELSE lgPend[u][x]
  BY <1>1 DEF LogInv, LogType
<1>2. l \in LogLine /\ l.w = w /\ l.by = t /\ l.n = lgSent[w] + 1 /\ l.at = at
  BY <1>a DEF LogLine
<1> HIDE DEF l
<1>3. /\ lgSent'[w] = lgSent[w] + 1 /\ lgChan'[w] \in Seq(LogLine) /\ DOMAIN lgChan'[w] = 1 .. c + 1
      /\ Len(lgChan'[w]) = c + 1 /\ lgChan'[w][c + 1] = l
      /\ \A i \in 1 .. c : lgChan'[w][i] = lgChan[w][i]
      /\ \A u \in Writers : u # w => lgSent'[u] = lgSent[u] /\ lgChan'[u] = lgChan[u]
  BY <1>1, <1>2, LogFields DEF LogInv, LogType
<1>4. LogType'
  BY <1>1, <1>3, <1>b DEF LogInv, LogType
<1>5. \A u \in Writers : Settled(u)' = Settled(u)
  BY <1>1, <1>3, LogFields DEF Settled
<1>6. LogLinedUp'
  <2> SUFFICES ASSUME NEW u \in Writers
               PROVE  /\ Settled(u) >= 0
                      /\ lgPc[u] \in {"idle", "gone"} => lgBuf[u] = << >>
                      /\ \A i \in DOMAIN lgBuf[u] : lgBuf[u][i].w = u /\ lgBuf[u][i].n = Settled(u) + i
                      /\ \A i \in DOMAIN lgChan'[u] : lgChan'[u][i].w = u /\ lgChan'[u][i].n = Settled(u) + Len(lgBuf[u]) + i
    BY <1>1, <1>5 DEF LogLinedUp
  <2>1. CASE u # w
    BY <2>1, <1>3 DEF LogInv, LogLinedUp
  <2>2. CASE u = w
    <3>1. Settled(w) + Len(lgBuf[w]) + (c + 1) = lgSent[w] + 1
      BY LogFields DEF Settled
    <3>2. ASSUME NEW i \in 1 .. c + 1
          PROVE  lgChan'[w][i].w = w /\ lgChan'[w][i].n = Settled(w) + Len(lgBuf[w]) + i
      <4>1. CASE i = c + 1
        BY <4>1, <3>1, <1>2, <1>3
      <4>2. CASE i \in 1 .. c
        <5>1. lgChan[w][i].w = w /\ lgChan[w][i].n = Settled(w) + Len(lgBuf[w]) + i
          BY <4>2, LogFields DEF LogInv, LogLinedUp
        <5> QED BY <4>2, <5>1, <1>3
      <4> QED BY <4>1, <4>2, LogFields
    <3> QED BY <3>2, <2>2, <1>3 DEF LogInv, LogLinedUp
  <2> QED BY <2>1, <2>2
<1>7. LogSettled'
  <2>1. \A r \in lgRows : r.w \in Writers
    BY RowFields
  <2>2. \A m \in lgDropped : m.w \in Writers
    BY DroppedFields
  <2> QED BY <2>1, <2>2, <1>1, <1>5 DEF LogInv, LogSettled, InTable, Removed
<1>8. LogTimed'
  <2>1. \A u \in Writers : u # w => Known(u)' = Known(u)
    BY <1>1, <1>3 DEF Known
  <2>2. Known(w)' \subseteq Known(w) \cup {l}
    <3>1. {lgChan'[w][i] : i \in DOMAIN lgChan'[w]}
             \subseteq {lgChan[w][i] : i \in DOMAIN lgChan[w]} \cup {l}
      <4> SUFFICES ASSUME NEW i \in 1 .. c + 1
                   PROVE  lgChan'[w][i] \in {lgChan[w][j] : j \in DOMAIN lgChan[w]} \cup {l}
        BY <1>3
      <4>1. CASE i = c + 1
        BY <4>1, <1>3
      <4>2. CASE i \in 1 .. c
        BY <4>2, <1>3, LogFields
      <4>3. c \in Nat
        BY LogFields
      <4> QED BY <4>1, <4>2, <4>3
    <3> QED BY <3>1, <1>1 DEF Known
  <2>3. \A m \in Known(w) : m.at \in Nat /\ m.at <= lgNow /\ m.n \in Nat /\ m.n <= lgSent[w]
    BY KnownFields
  <2>4. \A m \in Known(w)' : /\ m.at <= lgNow /\ m.n <= lgSent[w] + 1
                             /\ \A k \in Known(w)' : /\ m.n < k.n /\ m.by = k.by => m.at <= k.at
                                                     /\ m.n = k.n => m = k
    <3>1. \A m, k \in Known(w) : (m.n < k.n /\ m.by = k.by => m.at <= k.at) /\ (m.n = k.n => m = k)
      BY DEF LogInv, LogTimed
    <3> QED BY <2>2, <2>3, <3>1, <1>2, <1>a
  <2>5. ASSUME NEW x \in LogTasks, NEW y \in lgPend'[w][x]
        PROVE  y <= lgNow /\ \A m \in Known(w)' : m.by = x => m.at <= y
    <3>1. x # t /\ y \in lgPend[w][x]
      BY <2>5, <1>b
    <3>2. y <= lgNow /\ \A m \in Known(w) : m.by = x => m.at <= y
      BY <3>1 DEF LogInv, LogTimed
    <3> QED BY <3>1, <3>2, <2>2, <1>2
  <2>6. \A u \in Writers : u # w => \A x \in LogTasks : lgPend'[u][x] = lgPend[u][x]
    BY <1>b
  <2> QED BY <2>1, <2>4, <2>5, <2>6, <1>1, <1>3 DEF LogInv, LogTimed
<1>9. LogIds'
  BY <1>1 DEF LogInv, LogIds
<1> QED BY <1>4, <1>6, <1>7, <1>8, <1>9 DEF LogInv

(* A batcher's step that moves lines from the channel to its buffer.       *)
LEMMA LinesMove ==
    ASSUME LogInv, NEW w \in Writers, UNCHANGED <<lgNow, lgSent, lgPend, lgRows, lgNextId, lgDropped>>,
           lgBuf' \in [Writers -> Seq(LogLine)], lgChan' \in [Writers -> Seq(LogLine)],
           lgPc' \in [Writers -> {"idle", "linger", "flush", "last", "gone"}],
           \A u \in Writers : u # w => lgBuf'[u] = lgBuf[u] /\ lgChan'[u] = lgChan[u] /\ lgPc'[u] = lgPc[u],
           Len(lgBuf'[w]) + Len(lgChan'[w]) = Len(lgBuf[w]) + Len(lgChan[w]),
           lgPc'[w] \in {"idle", "gone"} => lgBuf'[w] = << >>,
           \A i \in 1 .. Len(lgBuf'[w]) : lgBuf'[w][i] \in Known(w) /\ lgBuf'[w][i].n = Settled(w) + i,
           \A i \in 1 .. Len(lgChan'[w]) :
               lgChan'[w][i] \in Known(w) /\ lgChan'[w][i].n = Settled(w) + Len(lgBuf'[w]) + i
    PROVE  LogInv'
<1>0. /\ Len(lgBuf'[w]) \in Nat /\ DOMAIN lgBuf'[w] = 1 .. Len(lgBuf'[w])
      /\ Len(lgChan'[w]) \in Nat /\ DOMAIN lgChan'[w] = 1 .. Len(lgChan'[w])
  OBVIOUS
<1>1. LogType'
  BY DEF LogInv, LogType
<1>2. \A u \in Writers : Settled(u)' = Settled(u)
  <2>1. Settled(w)' = Settled(w)
    <3>1. lgSent[w] \in Nat /\ Len(lgChan[w]) \in Nat /\ Len(lgBuf[w]) \in Nat
      BY LogFields
    <3>2. lgSent'[w] - Len(lgChan'[w]) - Len(lgBuf'[w]) = lgSent[w] - Len(lgChan[w]) - Len(lgBuf[w])
      <4>1. lgSent'[w] = lgSent[w]
        OBVIOUS
      <4> DEFINE s == lgSent[w]
                 b == Len(lgBuf[w])
                 c == Len(lgChan[w])
                 b2 == Len(lgBuf'[w])
                 c2 == Len(lgChan'[w])
      <4>a. s \in Int /\ b \in Int /\ c \in Int /\ b2 \in Int /\ c2 \in Int
        BY <3>1, <1>0
      <4>b. b2 + c2 = b + c
        BY Zenon
      <4> HIDE DEF s, b, c, b2, c2
      <4>3. s - c2 - b2 = s - c - b
        BY <4>a, <4>b
      <4> QED BY <4>1, <4>3 DEF s, b, c, b2, c2
    <3> QED BY <3>2 DEF Settled
  <2>2. \A u \in Writers : u # w => Settled(u)' = Settled(u)
    BY DEF Settled
  <2> QED BY <2>1, <2>2
<1>3. LogLinedUp'
  <2> SUFFICES ASSUME NEW u \in Writers
               PROVE  /\ Settled(u) >= 0
                      /\ lgPc'[u] \in {"idle", "gone"} => lgBuf'[u] = << >>
                      /\ \A i \in DOMAIN lgBuf'[u] : lgBuf'[u][i].w = u /\ lgBuf'[u][i].n = Settled(u) + i
                      /\ \A i \in DOMAIN lgChan'[u] :
                            lgChan'[u][i].w = u /\ lgChan'[u][i].n = Settled(u) + Len(lgBuf'[u]) + i
    BY <1>2 DEF LogLinedUp
  <2>1. CASE u # w
    <3>1. lgBuf'[u] = lgBuf[u] /\ lgChan'[u] = lgChan[u] /\ lgPc'[u] = lgPc[u]
      BY <2>1
    <3> QED BY <3>1 DEF LogInv, LogLinedUp
  <2>2. CASE u = w
    <3>1. \A m \in Known(w) : m.w = w
      BY KnownFields
    <3>2. Settled(w) >= 0
      BY LogFields
    <3> QED BY <3>1, <3>2, <2>2, <1>0
  <2> QED BY <2>1, <2>2
<1>4. LogSettled'
  <2>1. \A r \in lgRows : r.w \in Writers
    BY RowFields
  <2>2. \A m \in lgDropped : m.w \in Writers
    BY DroppedFields
  <2> QED BY <2>1, <2>2, <1>2 DEF LogInv, LogSettled, InTable, Removed
<1>5. LogTimed'
  <2>1. \A u \in Writers : u # w => Known(u)' = Known(u)
    BY DEF Known
  <2>2. {lgChan'[w][i] : i \in DOMAIN lgChan'[w]} \subseteq Known(w)
    BY <1>0
  <2>3. {lgBuf'[w][i] : i \in DOMAIN lgBuf'[w]} \subseteq Known(w)
    BY <1>0
  <2>4. Known(w)' \subseteq Known(w)
    BY <2>2, <2>3 DEF Known
  <2>5. lgNow' \in Nat /\ lgNow' >= lgNow
    BY DEF LogInv, LogType
  <2> QED BY <2>1, <2>4, <2>5, TimesStay
<1>6. LogIds'
  BY DEF LogInv, LogIds
<1> QED BY <1>1, <1>3, <1>4, <1>5, <1>6 DEF LogInv

(* The lines in the channel and in the buffer.                             *)
LEMMA PendingFields ==
    ASSUME LogInv, NEW w \in Writers
    PROVE  /\ \A i \in 1 .. Len(lgBuf[w]) :
                 lgBuf[w][i] \in Known(w) /\ lgBuf[w][i].w = w /\ lgBuf[w][i].n = Settled(w) + i
           /\ \A i \in 1 .. Len(lgChan[w]) :
                 /\ lgChan[w][i] \in Known(w) /\ lgChan[w][i].w = w
                 /\ lgChan[w][i].n = Settled(w) + Len(lgBuf[w]) + i
<1>1. DOMAIN lgBuf[w] = 1 .. Len(lgBuf[w]) /\ DOMAIN lgChan[w] = 1 .. Len(lgChan[w])
  BY LogFields
<1> QED BY <1>1 DEF LogInv, LogLinedUp, Known

LEMMA LogGathers == ASSUME LogInv, NEW w \in Writers, GatherBatch(w) PROVE LogInv'
<1> DEFINE c == Len(lgChan[w])
           n == IF c < BatchSize THEN c ELSE BatchSize
           pc == CASE n = BatchSize -> "flush" [] n < BatchSize /\ ~lgOpen[w] -> "last" [] OTHER -> "linger"
<1>0. n \in 1 .. c /\ c \in Nat /\ n \in Nat
  <2>1. lgChan[w] # << >> /\ lgChan[w] \in Seq(LogLine)
    BY LogFields DEF GatherBatch
  <2>2. c \in Nat /\ c # 0
    BY <2>1, EmptySeq
  <2> QED BY <2>2, LogAssumption
<1>1. /\ lgPc[w] = "idle" /\ lgBuf' = [lgBuf EXCEPT ![w] = SubSeq(lgChan[w], 1, n)]
      /\ lgChan' = [lgChan EXCEPT ![w] = SubSeq(lgChan[w], n + 1, c)]
      /\ lgPc' = [lgPc EXCEPT ![w] = pc]
      /\ UNCHANGED <<lgNow, lgSent, lgPend, lgRows, lgNextId, lgDropped>>
  BY DEF GatherBatch, lgTable
<1>a. pc \in {"flush", "last", "linger"}
  OBVIOUS
<1> HIDE DEF n, pc
<1>2. /\ SubSeq(lgChan[w], 1, n) \in Seq(LogLine) /\ Len(SubSeq(lgChan[w], 1, n)) = n
      /\ \A i \in 1 .. n : SubSeq(lgChan[w], 1, n)[i] = lgChan[w][i]
  <2>1. \A i \in 1 .. n : lgChan[w][i] \in LogLine /\ i \in 1 .. c
    BY <1>0, LogFields
  <2> QED BY <2>1, <1>0
<1>3. /\ SubSeq(lgChan[w], n + 1, c) \in Seq(LogLine) /\ Len(SubSeq(lgChan[w], n + 1, c)) = c - n
      /\ \A i \in 1 .. c - n : SubSeq(lgChan[w], n + 1, c)[i] = lgChan[w][n + i]
  <2>1. \A i \in n + 1 .. c : lgChan[w][i] \in LogLine
    BY <1>0, LogFields
  <2> QED BY <2>1, <1>0
<1>4. /\ Len(lgBuf'[w]) = n /\ \A i \in 1 .. n : lgBuf'[w][i] = lgChan[w][i]
      /\ Len(lgChan'[w]) = c - n /\ \A i \in 1 .. c - n : lgChan'[w][i] = lgChan[w][n + i]
      /\ lgPc'[w] \in {"flush", "last", "linger"}
      /\ \A u \in Writers : u # w => lgBuf'[u] = lgBuf[u] /\ lgChan'[u] = lgChan[u] /\ lgPc'[u] = lgPc[u]
  BY <1>1, <1>a, <1>2, <1>3 DEF LogInv, LogType
<1>5. /\ lgBuf' \in [Writers -> Seq(LogLine)] /\ lgChan' \in [Writers -> Seq(LogLine)]
      /\ lgPc' \in [Writers -> {"idle", "linger", "flush", "last", "gone"}]
  BY <1>1, <1>a, <1>2, <1>3 DEF LogInv, LogType
<1>6. Len(lgBuf[w]) = 0
  BY <1>1 DEF LogInv, LogLinedUp
<1>7. \A i \in 1 .. n : lgBuf'[w][i] \in Known(w) /\ lgBuf'[w][i].n = Settled(w) + i
  <2> SUFFICES ASSUME NEW i \in 1 .. n
               PROVE  lgBuf'[w][i] \in Known(w) /\ lgBuf'[w][i].n = Settled(w) + i
    OBVIOUS
  <2>1. i \in 1 .. c
    BY <1>0
  <2>2. lgChan[w][i] \in Known(w) /\ lgChan[w][i].n = Settled(w) + 0 + i
    BY <2>1, <1>6, PendingFields
  <2> QED BY <2>2, <1>4, LogFields
<1>8. \A i \in 1 .. c - n : lgChan'[w][i] \in Known(w) /\ lgChan'[w][i].n = Settled(w) + n + i
  <2> SUFFICES ASSUME NEW i \in 1 .. c - n
               PROVE  lgChan'[w][i] \in Known(w) /\ lgChan'[w][i].n = Settled(w) + n + i
    OBVIOUS
  <2>1. n + i \in 1 .. c
    BY <1>0
  <2>2. lgChan[w][n + i] \in Known(w) /\ lgChan[w][n + i].n = Settled(w) + 0 + (n + i)
    BY <2>1, <1>6, PendingFields
  <2> QED BY <2>2, <1>0, <1>4, LogFields
<1>9. Len(lgBuf'[w]) + Len(lgChan'[w]) = Len(lgBuf[w]) + Len(lgChan[w])
  BY <1>0, <1>4, <1>6
<1>10. /\ \A i \in 1 .. Len(lgBuf'[w]) : lgBuf'[w][i] \in Known(w) /\ lgBuf'[w][i].n = Settled(w) + i
       /\ \A i \in 1 .. Len(lgChan'[w]) :
             lgChan'[w][i] \in Known(w) /\ lgChan'[w][i].n = Settled(w) + Len(lgBuf'[w]) + i
       /\ lgPc'[w] \notin {"idle", "gone"}
  BY <1>4, <1>7, <1>8
<1>11. \A u \in Writers : u # w => lgBuf'[u] = lgBuf[u] /\ lgChan'[u] = lgChan[u] /\ lgPc'[u] = lgPc[u]
  BY <1>4
<1>12. UNCHANGED <<lgNow, lgSent, lgPend, lgRows, lgNextId, lgDropped>>
  BY <1>1
<1> QED BY <1>5, <1>9, <1>10, <1>11, <1>12, LinesMove

LEMMA LogStraggles == ASSUME LogInv, NEW w \in Writers, Straggler(w) PROVE LogInv'
<1> DEFINE c == Len(lgChan[w])
           b == Len(lgBuf[w])
           pc == IF b + 1 >= BatchSize THEN "flush" ELSE lgPc[w]
<1>0. c \in Nat /\ c > 0 /\ b \in Nat /\ lgChan[w] \in Seq(LogLine) /\ lgBuf[w] \in Seq(LogLine)
  <2>1. lgChan[w] # << >> /\ lgChan[w] \in Seq(LogLine)
    BY LogFields DEF Straggler
  <2> QED BY <2>1, EmptySeq, LogFields
<1>1. /\ lgPc[w] = "linger" /\ lgBuf' = [lgBuf EXCEPT ![w] = Append(lgBuf[w], Head(lgChan[w]))]
      /\ lgChan' = [lgChan EXCEPT ![w] = Tail(lgChan[w])]
      /\ lgPc' = [lgPc EXCEPT ![w] = pc]
      /\ UNCHANGED <<lgNow, lgSent, lgPend, lgRows, lgNextId, lgDropped>>
  BY DEF Straggler, lgTable
<1>a. pc \in {"flush", "linger"}
  BY <1>1
<1> HIDE DEF pc
<1>2. /\ Append(lgBuf[w], Head(lgChan[w])) \in Seq(LogLine) /\ Len(Append(lgBuf[w], Head(lgChan[w]))) = b + 1
      /\ \A i \in 1 .. b : Append(lgBuf[w], Head(lgChan[w]))[i] = lgBuf[w][i]
      /\ Append(lgBuf[w], Head(lgChan[w]))[b + 1] = lgChan[w][1]
  BY <1>0
<1>3. /\ Tail(lgChan[w]) \in Seq(LogLine) /\ Len(Tail(lgChan[w])) = c - 1
      /\ \A i \in 1 .. c - 1 : Tail(lgChan[w])[i] = lgChan[w][i + 1]
  BY <1>0
<1>4. /\ Len(lgBuf'[w]) = b + 1 /\ \A i \in 1 .. b : lgBuf'[w][i] = lgBuf[w][i]
      /\ lgBuf'[w][b + 1] = lgChan[w][1]
      /\ Len(lgChan'[w]) = c - 1 /\ \A i \in 1 .. c - 1 : lgChan'[w][i] = lgChan[w][i + 1]
      /\ lgPc'[w] \in {"flush", "linger"}
      /\ \A u \in Writers : u # w => lgBuf'[u] = lgBuf[u] /\ lgChan'[u] = lgChan[u] /\ lgPc'[u] = lgPc[u]
  BY <1>1, <1>a, <1>2, <1>3 DEF LogInv, LogType
<1>5. /\ lgBuf' \in [Writers -> Seq(LogLine)] /\ lgChan' \in [Writers -> Seq(LogLine)]
      /\ lgPc' \in [Writers -> {"idle", "linger", "flush", "last", "gone"}]
  BY <1>1, <1>a, <1>2, <1>3 DEF LogInv, LogType
<1>7. \A i \in 1 .. b + 1 : lgBuf'[w][i] \in Known(w) /\ lgBuf'[w][i].n = Settled(w) + i
  <2> SUFFICES ASSUME NEW i \in 1 .. b + 1
               PROVE  lgBuf'[w][i] \in Known(w) /\ lgBuf'[w][i].n = Settled(w) + i
    OBVIOUS
  <2>1. CASE i \in 1 .. b
    BY <2>1, <1>4, PendingFields
  <2>2. CASE i = b + 1
    <3>1. 1 \in 1 .. c
      BY <1>0
    <3>2. lgChan[w][1] \in Known(w) /\ lgChan[w][1].n = Settled(w) + b + 1
      BY <3>1, PendingFields
    <3> QED BY <3>2, <2>2, <1>0, <1>4, LogFields
  <2> QED BY <2>1, <2>2, <1>0
<1>8. \A i \in 1 .. c - 1 : lgChan'[w][i] \in Known(w) /\ lgChan'[w][i].n = Settled(w) + (b + 1) + i
  <2> SUFFICES ASSUME NEW i \in 1 .. c - 1
               PROVE  lgChan'[w][i] \in Known(w) /\ lgChan'[w][i].n = Settled(w) + (b + 1) + i
    OBVIOUS
  <2>1. i + 1 \in 1 .. c
    BY <1>0
  <2>2. lgChan[w][i + 1] \in Known(w) /\ lgChan[w][i + 1].n = Settled(w) + b + (i + 1)
    BY <2>1, PendingFields
  <2>3. Settled(w) \in Nat /\ lgChan'[w][i] = lgChan[w][i + 1]
    BY <1>4, LogFields
  <2> DEFINE s == Settled(w)
             k == lgChan'[w][i].n
  <2>4. k = s + b + (i + 1) /\ s \in Int /\ b \in Int /\ i \in Int
    BY <2>2, <2>3, <1>0
  <2> HIDE DEF s, b, k
  <2>5. k = s + (b + 1) + i
    BY <2>4
  <2> QED BY <2>2, <2>3, <2>5 DEF s, b, k
<1>9. Len(lgBuf'[w]) + Len(lgChan'[w]) = Len(lgBuf[w]) + Len(lgChan[w])
  <2> DEFINE b2 == Len(lgBuf'[w])
             c2 == Len(lgChan'[w])
  <2>1. b2 = b + 1 /\ c2 = c - 1 /\ b \in Int /\ c \in Int
    BY <1>0, <1>4
  <2> HIDE DEF b, c, b2, c2
  <2>2. b2 + c2 = b + c
    BY <2>1
  <2> QED BY <2>2 DEF b, c, b2, c2
<1>10. /\ \A i \in 1 .. Len(lgBuf'[w]) : lgBuf'[w][i] \in Known(w) /\ lgBuf'[w][i].n = Settled(w) + i
       /\ \A i \in 1 .. Len(lgChan'[w]) :
             lgChan'[w][i] \in Known(w) /\ lgChan'[w][i].n = Settled(w) + Len(lgBuf'[w]) + i
       /\ lgPc'[w] \notin {"idle", "gone"}
  BY <1>4, <1>7, <1>8
<1>11. \A u \in Writers : u # w => lgBuf'[u] = lgBuf[u] /\ lgChan'[u] = lgChan[u] /\ lgPc'[u] = lgPc[u]
  BY <1>4
<1>12. UNCHANGED <<lgNow, lgSent, lgPend, lgRows, lgNextId, lgDropped>>
  BY <1>1
<1> QED BY <1>5, <1>9, <1>10, <1>11, <1>12, LinesMove

(* The flush interval, the end of the senders and a dropped sink.          *)
LEMMA LogWaits == ASSUME LogInv, NEW w \in Writers, FlushDue(w) \/ SendersGone(w) PROVE LogInv'
<1>1. PICK pc \in {"flush", "last"} : lgPc' = [lgPc EXCEPT ![w] = pc]
  BY DEF FlushDue, SendersGone
<1>2. UNCHANGED <<lgNow, lgSent, lgPend, lgRows, lgNextId, lgDropped, lgBuf, lgChan>>
  BY DEF FlushDue, SendersGone, lgTable
<1>3. /\ lgPc' \in [Writers -> {"idle", "linger", "flush", "last", "gone"}] /\ lgPc'[w] \in {"flush", "last"}
      /\ \A u \in Writers : u # w => lgPc'[u] = lgPc[u]
  BY <1>1 DEF LogInv, LogType
<1>4. lgBuf \in [Writers -> Seq(LogLine)] /\ lgChan \in [Writers -> Seq(LogLine)]
  BY DEF LogInv, LogType
<1> QED BY <1>2, <1>3, <1>4, PendingFields, LinesMove

LEMMA LogStays == ASSUME LogInv, UNCHANGED <<lgNow, lgSent, lgPend, lgChan, lgBuf, lgPc, lgTable, lgDropped>> PROVE LogInv'
<1>1. UNCHANGED <<lgNow, lgSent, lgPend, lgChan, lgBuf, lgPc, lgRows, lgNextId, lgDropped>>
  BY DEF lgTable
<1>2. \A w : Known(w)' = Known(w) /\ Settled(w)' = Settled(w)
  BY <1>1 DEF Known, Settled
<1>3. LogType' /\ LogIds'
  BY <1>1 DEF LogInv, LogType, LogIds
<1>4. LogLinedUp'
  BY <1>1, <1>2 DEF LogInv, LogLinedUp
<1>5. LogSettled'
  BY <1>1, <1>2 DEF LogInv, LogSettled, InTable, Removed
<1>6. LogTimed'
  BY <1>1, <1>2 DEF LogInv, LogTimed
<1> QED BY <1>3, <1>4, <1>5, <1>6 DEF LogInv

LEMMA LogTicks == ASSUME LogInv, LogClock PROVE LogInv'
<1>1. lgNow' = lgNow + 1 /\ UNCHANGED <<lgSent, lgPend, lgChan, lgBuf, lgPc, lgRows, lgNextId, lgDropped>>
  BY DEF LogClock, lgTable
<1>2. lgNow \in Nat /\ lgNow' \in Nat /\ lgNow' >= lgNow
  BY <1>1 DEF LogInv, LogType
<1>3. \A w : Known(w)' = Known(w) /\ Settled(w)' = Settled(w)
  BY <1>1 DEF Known, Settled
<1>4. LogType' /\ LogIds'
  BY <1>1, <1>2 DEF LogInv, LogType, LogIds
<1>5. LogLinedUp'
  BY <1>1, <1>3 DEF LogInv, LogLinedUp
<1>6. LogSettled'
  BY <1>1, <1>3 DEF LogInv, LogSettled, InTable, Removed
<1>7. LogTimed'
  BY <1>1, <1>2, <1>3, TimesStay
<1> QED BY <1>4, <1>5, <1>6, <1>7 DEF LogInv

(* What a flush does to the buffer, whether the transaction commits or not. *)
LEMMA FlushFields ==
    ASSUME LogInv, NEW w \in Writers, NEW ok \in BOOLEAN, FlushBatch(w, ok)
    PROVE  /\ UNCHANGED <<lgNow, lgSent, lgPend, lgChan>>
           /\ lgBuf' \in [Writers -> Seq(LogLine)] /\ lgBuf'[w] = << >> /\ Len(lgBuf'[w]) = 0 /\ DOMAIN lgBuf'[w] = {}
           /\ lgPc' \in [Writers -> {"idle", "linger", "flush", "last", "gone"}]
           /\ \A u \in Writers : u # w => lgBuf'[u] = lgBuf[u] /\ lgPc'[u] = lgPc[u] /\ Settled(u)' = Settled(u)
           /\ Settled(w)' = Settled(w) + Len(lgBuf[w])
           /\ \A u \in Writers : Settled(u) \in Nat /\ Settled(u)' \in Nat /\ Settled(u) <= Settled(u)'
           /\ LogLinedUp'
<1> DEFINE pc == IF lgPc[w] = "last" THEN "gone" ELSE "idle"
<1>1. /\ lgBuf' = [lgBuf EXCEPT ![w] = << >>] /\ lgPc' = [lgPc EXCEPT ![w] = pc]
      /\ UNCHANGED <<lgNow, lgSent, lgPend, lgChan>>
  BY DEF FlushBatch
<1>2. pc \in {"gone", "idle"}
  OBVIOUS
<1> HIDE DEF pc
<1>3. /\ lgBuf' \in [Writers -> Seq(LogLine)] /\ lgBuf'[w] = << >>
      /\ lgPc' \in [Writers -> {"idle", "linger", "flush", "last", "gone"}]
      /\ \A u \in Writers : u # w => lgBuf'[u] = lgBuf[u] /\ lgPc'[u] = lgPc[u]
  BY <1>1, <1>2 DEF LogInv, LogType
<1>4. Len(lgBuf'[w]) = 0 /\ DOMAIN lgBuf'[w] = {}
  BY <1>3
<1>5. \A u \in Writers : u # w => Settled(u)' = Settled(u)
  BY <1>1, <1>3 DEF Settled
<1>6. Settled(w)' = Settled(w) + Len(lgBuf[w])
  <2>1. Settled(w)' = lgSent[w] - Len(lgChan[w]) - 0
    BY <1>1, <1>4 DEF Settled
  <2>2. lgSent[w] \in Nat /\ Len(lgChan[w]) \in Nat /\ Len(lgBuf[w]) \in Nat
    BY LogFields
  <2> QED BY <2>1, <2>2 DEF Settled
<1>7. \A u \in Writers : Settled(u) \in Nat /\ Settled(u)' \in Nat /\ Settled(u) <= Settled(u)'
  <2>1. \A u \in Writers : Settled(u) \in Nat /\ Len(lgBuf[w]) \in Nat
    BY LogFields
  <2> QED BY <2>1, <1>5, <1>6
<1>8. LogLinedUp'
  <2> SUFFICES ASSUME NEW u \in Writers
               PROVE  /\ Settled(u)' >= 0
                      /\ lgPc'[u] \in {"idle", "gone"} => lgBuf'[u] = << >>
                      /\ \A i \in DOMAIN lgBuf'[u] : lgBuf'[u][i].w = u /\ lgBuf'[u][i].n = Settled(u)' + i
                      /\ \A i \in DOMAIN lgChan[u] :
                            lgChan[u][i].w = u /\ lgChan[u][i].n = Settled(u)' + Len(lgBuf'[u]) + i
    BY <1>1 DEF LogLinedUp
  <2>1. CASE u # w
    BY <2>1, <1>3, <1>5 DEF LogInv, LogLinedUp
  <2>2. CASE u = w
    <3>1. ASSUME NEW i \in DOMAIN lgChan[w]
          PROVE  lgChan[w][i].w = w /\ lgChan[w][i].n = Settled(w)' + 0 + i
      <4>1. i \in 1 .. Len(lgChan[w]) /\ i \in Nat /\ Settled(w) \in Nat /\ Len(lgBuf[w]) \in Nat
        BY LogFields
      <4>2. lgChan[w][i].w = w /\ lgChan[w][i].n = Settled(w) + Len(lgBuf[w]) + i
        BY <4>1, PendingFields
      <4> QED BY <4>1, <4>2, <1>6
    <3> QED BY <3>1, <2>2, <1>3, <1>4, <1>7
  <2> QED BY <2>1, <2>2
<1> QED BY <1>1, <1>3, <1>4, <1>5, <1>6, <1>7, <1>8

LEMMA FlushFails == ASSUME LogInv, NEW w \in Writers, FlushBatch(w, FALSE) PROVE LogInv'
<1> DEFINE b == Len(lgBuf[w])
<1>1. lgDropped' = lgDropped \cup ToSet(lgBuf[w]) /\ UNCHANGED <<lgRows, lgNextId>>
  BY DEF FlushBatch, lgTable
<1>2. /\ UNCHANGED <<lgNow, lgSent, lgPend, lgChan>>
      /\ lgBuf' \in [Writers -> Seq(LogLine)] /\ lgBuf'[w] = << >> /\ Len(lgBuf'[w]) = 0 /\ DOMAIN lgBuf'[w] = {}
      /\ lgPc' \in [Writers -> {"idle", "linger", "flush", "last", "gone"}]
      /\ \A u \in Writers : u # w => lgBuf'[u] = lgBuf[u] /\ lgPc'[u] = lgPc[u] /\ Settled(u)' = Settled(u)
      /\ Settled(w)' = Settled(w) + Len(lgBuf[w])
      /\ \A u \in Writers : Settled(u) \in Nat /\ Settled(u)' \in Nat /\ Settled(u) <= Settled(u)'
      /\ LogLinedUp'
  BY FlushFields
<1>3. \A l : l \in ToSet(lgBuf[w]) <=> \E i \in 1 .. b : l = lgBuf[w][i]
  BY LogFields DEF ToSet
<1>4. \A i \in 1 .. b : lgBuf[w][i] \in Known(w) /\ lgBuf[w][i].w = w /\ lgBuf[w][i].n = Settled(w) + i
  BY PendingFields
<1>5. LogType'
  <2>1. ToSet(lgBuf[w]) \subseteq LogLine
    BY <1>3, LogFields
  <2> QED BY <2>1, <1>1, <1>2 DEF LogInv, LogType
<1>6. LogSettled'
  <2>1. \A r \in lgRows : r.w \in Writers /\ r.n \in Nat /\ r.n <= Settled(r.w) /\ ~Removed(r.w, r.n)
    BY RowFields DEF LogInv, LogSettled
  <2>2. \A l \in lgDropped : l.w \in Writers /\ l.n \in Nat /\ l.n <= Settled(l.w)
    BY DroppedFields DEF LogInv, LogSettled
  <2>3. \A r \in lgRows : r.n <= Settled(r.w)'
    BY <2>1, <1>2
  <2>4. \A l \in lgDropped' : l.n <= Settled(l.w)'
    <3>1. \A l \in lgDropped : l.n <= Settled(l.w)'
      BY <2>2, <1>2
    <3>2. ASSUME NEW l \in ToSet(lgBuf[w]) PROVE l.n <= Settled(l.w)'
      <4>1. PICK i \in 1 .. b : l = lgBuf[w][i]
        BY <1>3
      <4>2. l.w = w /\ l.n = Settled(w) + i /\ b \in Nat /\ Settled(w) \in Nat
        BY <4>1, <1>4, LogFields
      <4>3. Settled(w)' = Settled(w) + b /\ i <= b /\ i \in Nat
        BY <4>2, <1>2
      <4> QED BY <4>2, <4>3
    <3> QED BY <3>1, <3>2, <1>1
  <2>5. \A r \in lgRows : ~Removed(r.w, r.n)'
    <3> SUFFICES ASSUME NEW r \in lgRows, NEW l \in lgDropped', l.w = r.w, l.n = r.n PROVE FALSE
      BY DEF Removed
    <3>1. l \notin lgDropped
      BY <2>1 DEF Removed
    <3>2. PICK i \in 1 .. b : l = lgBuf[w][i]
      BY <3>1, <1>1, <1>3
    <3>3. r.w = w /\ r.n = Settled(w) + i /\ r.n <= Settled(w) /\ b \in Nat /\ Settled(w) \in Nat
      BY <3>2, <1>4, <2>1, LogFields
    <3> QED BY <3>3
  <2>6. ASSUME NEW u \in Writers, NEW n \in 1 .. Settled(u)' PROVE InTable(u, n) \/ Removed(u, n)'
    <3>1. CASE n \in 1 .. Settled(u)
      BY <3>1, <1>1 DEF LogInv, LogSettled, Removed
    <3>2. CASE n \notin 1 .. Settled(u)
      <4>1. u = w
        BY <3>2, <1>2
      <4>2. n \in Nat /\ n > Settled(w) /\ n <= Settled(w) + b /\ Settled(w) \in Nat /\ b \in Nat
        BY <4>1, <3>2, <1>2, LogFields
      <4>3. n - Settled(w) \in 1 .. b /\ Settled(w) + (n - Settled(w)) = n
        BY <4>2
      <4>4. lgBuf[w][n - Settled(w)] \in lgDropped' /\ lgBuf[w][n - Settled(w)].w = w /\ lgBuf[w][n - Settled(w)].n = n
        BY <4>3, <1>1, <1>3, <1>4
      <4> QED BY <4>1, <4>4 DEF Removed
    <3> QED BY <3>1, <3>2
  <2>7. \A u, n : InTable(u, n)' = InTable(u, n)
    BY <1>1 DEF InTable
  <2> QED BY <2>3, <2>4, <2>5, <2>6, <2>7, <1>1 DEF LogSettled
<1>7. LogTimed'
  <2>1. ASSUME NEW u \in Writers PROVE Known(u)' \subseteq Known(u)
    <3>1. {lgBuf'[u][i] : i \in DOMAIN lgBuf'[u]} \subseteq Known(u)
      <4>1. CASE u = w
        BY <4>1, <1>2
      <4>2. CASE u # w
        BY <4>2, <1>2 DEF Known
      <4> QED BY <4>1, <4>2
    <3>2. {l \in lgDropped' : l.w = u} \subseteq Known(u)
      <4> SUFFICES ASSUME NEW l \in lgDropped', l.w = u PROVE l \in Known(u)
        OBVIOUS
      <4>1. CASE l \in lgDropped
        BY <4>1 DEF Known
      <4>2. CASE l \in ToSet(lgBuf[w])
        BY <4>2, <1>3, <1>4
      <4> QED BY <4>1, <4>2, <1>1
    <3> QED BY <3>1, <3>2, <1>1, <1>2 DEF Known
  <2>2. lgNow' \in Nat /\ lgNow' >= lgNow
    BY <1>2 DEF LogInv, LogType
  <2> QED BY <2>1, <2>2, <1>2, TimesStay
<1>8. LogIds'
  BY <1>1 DEF LogInv, LogIds
<1> QED BY <1>2, <1>5, <1>6, <1>7, <1>8 DEF LogInv

LEMMA FlushCommits == ASSUME LogInv, NEW w \in Writers, FlushBatch(w, TRUE) PROVE LogInv'
<1> DEFINE b == Len(lgBuf[w])
           New(i) == RowAt(lgNextId + i - 1, lgBuf[w][i])
<1>1. /\ lgRows' = lgRows \cup {New(i) : i \in 1 .. b}
      /\ lgNextId' = lgNextId + b /\ UNCHANGED lgDropped
  BY LogFields DEF FlushBatch
<1>2. /\ UNCHANGED <<lgNow, lgSent, lgPend, lgChan>>
      /\ lgBuf' \in [Writers -> Seq(LogLine)] /\ lgBuf'[w] = << >> /\ Len(lgBuf'[w]) = 0 /\ DOMAIN lgBuf'[w] = {}
      /\ lgPc' \in [Writers -> {"idle", "linger", "flush", "last", "gone"}]
      /\ \A u \in Writers : u # w => lgBuf'[u] = lgBuf[u] /\ lgPc'[u] = lgPc[u] /\ Settled(u)' = Settled(u)
      /\ Settled(w)' = Settled(w) + Len(lgBuf[w])
      /\ \A u \in Writers : Settled(u) \in Nat /\ Settled(u)' \in Nat /\ Settled(u) <= Settled(u)'
      /\ LogLinedUp'
  BY FlushFields
<1>3. b \in Nat /\ lgNextId \in Nat /\ lgNextId > 0 /\ Settled(w) \in Nat
  BY LogFields DEF LogInv, LogType
<1>4. ASSUME NEW i \in 1 .. b
      PROVE  /\ New(i).id = lgNextId + i - 1 /\ New(i).w = w /\ New(i).n = Settled(w) + i
             /\ New(i) \in LogRow /\ Line(New(i)) \in Known(w)
  <2>1. lgBuf[w][i] \in Known(w) /\ lgBuf[w][i].w = w /\ lgBuf[w][i].n = Settled(w) + i
    BY PendingFields
  <2>2. lgBuf[w][i] \in LogLine
    BY LogFields
  <2>3. lgNextId + i - 1 \in Nat \ {0}
    BY <1>3
  <2>4. Line(New(i)) = lgBuf[w][i]
    BY <2>2 DEF Line, RowAt, LogLine
  <2>5. New(i) \in LogRow
    BY <2>2, <2>3 DEF RowAt, LogLine, LogRow
  <2> QED BY <2>1, <2>4, <2>5 DEF RowAt
<1> HIDE DEF New
<1>5. LogType'
  <2>1. {New(i) : i \in 1 .. b} \subseteq LogRow
    BY <1>4
  <2>2. lgNextId' \in Nat \ {0}
    BY <1>1, <1>3
  <2> QED BY <2>1, <2>2, <1>1, <1>2 DEF LogInv, LogType
<1>6. LogSettled'
  <2>1. \A r \in lgRows : r.w \in Writers /\ r.n \in Nat /\ r.n <= Settled(r.w) /\ ~Removed(r.w, r.n)
    BY RowFields DEF LogInv, LogSettled
  <2>2. \A l \in lgDropped : l.w \in Writers /\ l.n \in Nat /\ l.n <= Settled(l.w)
    BY DroppedFields DEF LogInv, LogSettled
  <2>3. \A u, n : Removed(u, n)' = Removed(u, n)
    BY <1>1 DEF Removed
  <2>4. \A l \in lgDropped : l.n <= Settled(l.w)'
    BY <2>2, <1>2
  <2>5. ASSUME NEW r \in lgRows' PROVE r.n <= Settled(r.w)' /\ ~Removed(r.w, r.n)
    <3>1. CASE r \in lgRows
      BY <3>1, <2>1, <1>2
    <3>2. CASE r \notin lgRows
      <4>1. PICK i \in 1 .. b : r = New(i)
        BY <3>2, <1>1
      <4>2. r.w = w /\ r.n = Settled(w) + i /\ i \in Nat /\ i >= 1 /\ i <= b
        BY <4>1, <1>3, <1>4
      <4>3. r.n <= Settled(w)'
        BY <4>2, <1>2, <1>3
      <4>4. ~Removed(w, r.n)
        <5> SUFFICES ASSUME NEW l \in lgDropped, l.w = w, l.n = r.n PROVE FALSE
          BY DEF Removed
        <5> QED BY <2>2, <4>2, <1>3
      <4> QED BY <4>2, <4>3, <4>4
    <3> QED BY <3>1, <3>2
  <2>6. ASSUME NEW u \in Writers, NEW n \in 1 .. Settled(u)' PROVE InTable(u, n)' \/ Removed(u, n)
    <3>1. CASE n \in 1 .. Settled(u)
      BY <3>1, <1>1 DEF LogInv, LogSettled, InTable
    <3>2. CASE n \notin 1 .. Settled(u)
      <4>1. u = w
        BY <3>2, <1>2
      <4>2. n \in Nat /\ n > Settled(w) /\ n <= Settled(w) + b
        BY <4>1, <3>2, <1>2, <1>3
      <4>3. n - Settled(w) \in 1 .. b /\ Settled(w) + (n - Settled(w)) = n
        BY <4>2, <1>3
      <4>4. New(n - Settled(w)) \in lgRows' /\ New(n - Settled(w)).w = w /\ New(n - Settled(w)).n = n
        BY <4>3, <1>1, <1>4
      <4> QED BY <4>1, <4>4 DEF InTable
    <3> QED BY <3>1, <3>2
  <2> QED BY <2>3, <2>4, <2>5, <2>6, <1>1 DEF LogSettled
<1>7. LogTimed'
  <2>1. ASSUME NEW u \in Writers PROVE Known(u)' \subseteq Known(u)
    <3>1. {lgBuf'[u][i] : i \in DOMAIN lgBuf'[u]} \subseteq Known(u)
      <4>1. CASE u = w
        BY <4>1, <1>2
      <4>2. CASE u # w
        BY <4>2, <1>2 DEF Known
      <4> QED BY <4>1, <4>2
    <3>2. {Line(r) : r \in {s \in lgRows' : s.w = u}} \subseteq Known(u)
      <4> SUFFICES ASSUME NEW r \in lgRows', r.w = u PROVE Line(r) \in Known(u)
        OBVIOUS
      <4>1. CASE r \in lgRows
        BY <4>1, RowFields
      <4>2. CASE r \in {New(i) : i \in 1 .. b}
        BY <4>2, <1>4
      <4> QED BY <4>1, <4>2, <1>1
    <3> QED BY <3>1, <3>2, <1>1, <1>2 DEF Known
  <2>2. lgNow' \in Nat /\ lgNow' >= lgNow
    BY <1>2 DEF LogInv, LogType
  <2> QED BY <2>1, <2>2, <1>2, TimesStay
<1>8. LogIds'
  <2>1. \A r \in lgRows : /\ r.w \in Writers /\ r.n \in Nat /\ r.id \in Nat /\ r.n <= Settled(r.w) /\ r.id < lgNextId
    BY RowFields DEF LogInv, LogSettled, LogIds
  <2>2. \A r \in lgRows' : r.id < lgNextId + b
    <3> SUFFICES ASSUME NEW r \in lgRows' PROVE r.id < lgNextId + b
      OBVIOUS
    <3>1. CASE r \in lgRows
      BY <3>1, <2>1, <1>3
    <3>2. CASE r \in {New(i) : i \in 1 .. b}
      <4>1. PICK i \in 1 .. b : r = New(i)
        BY <3>2
      <4> QED BY <4>1, <1>3, <1>4
    <3> QED BY <3>1, <3>2, <1>1
  <2>3. ASSUME NEW r \in lgRows', NEW s \in lgRows'
        PROVE  /\ r.id = s.id => r = s
               /\ r.w = s.w /\ r.n < s.n => r.id < s.id
               /\ r.w = s.w /\ r.n = s.n => r = s
    <3>1. CASE r \in lgRows /\ s \in lgRows
      BY <3>1 DEF LogInv, LogIds
    <3>2. ASSUME NEW i \in 1 .. b, NEW x \in lgRows
          PROVE  /\ x.id < New(i).id
                 /\ x.w = New(i).w => x.n < New(i).n
      <4>1. New(i).id = lgNextId + i - 1 /\ New(i).w = w /\ New(i).n = Settled(w) + i /\ i \in Nat /\ i >= 1
        BY <1>3, <1>4
      <4>2. x.id \in Nat /\ x.id < lgNextId /\ x.n \in Nat /\ x.n <= Settled(x.w)
        BY <2>1
      <4>3. x.id < New(i).id
        BY <4>1, <4>2, <1>3
      <4>4. ASSUME x.w = New(i).w PROVE x.n < New(i).n
        <5>1. x.n <= Settled(w)
          BY <4>1, <4>2, <4>4
        <5> QED BY <5>1, <4>1, <4>2, <1>3
      <4> QED BY <4>3, <4>4
    <3>3. \A i \in 1 .. b : New(i).id \in Nat /\ New(i).n \in Nat
      BY <1>4 DEF LogRow
    <3>4. CASE r \in lgRows /\ s \notin lgRows
      <4>1. PICK j \in 1 .. b : s = New(j)
        BY <3>4, <1>1
      <4>2. r.id < s.id /\ (r.w = s.w => r.n < s.n)
        BY <4>1, <3>2, <3>4
      <4>3. r.id \in Nat /\ r.n \in Nat /\ s.id \in Nat /\ s.n \in Nat
        BY <4>1, <3>3, <3>4, <2>1
      <4> QED BY <4>2, <4>3
    <3>5. CASE r \notin lgRows /\ s \in lgRows
      <4>1. PICK j \in 1 .. b : r = New(j)
        BY <3>5, <1>1
      <4>2. s.id < r.id /\ (r.w = s.w => s.n < r.n)
        BY <4>1, <3>2, <3>5
      <4>3. r.id \in Nat /\ r.n \in Nat /\ s.id \in Nat /\ s.n \in Nat
        BY <4>1, <3>3, <3>5, <2>1
      <4> QED BY <4>2, <4>3
    <3>6. CASE r \notin lgRows /\ s \notin lgRows
      <4>1. PICK i \in 1 .. b : r = New(i)
        BY <3>6, <1>1
      <4>2. PICK j \in 1 .. b : s = New(j)
        BY <3>6, <1>1
      <4>3. /\ r.id = lgNextId + i - 1 /\ r.n = Settled(w) + i /\ i \in Nat
            /\ s.id = lgNextId + j - 1 /\ s.n = Settled(w) + j /\ j \in Nat
        BY <4>1, <4>2, <1>3, <1>4
      <4>4. /\ r.id = s.id => i = j
            /\ r.n = s.n => i = j
            /\ r.n < s.n => r.id < s.id
        BY <4>3, <1>3
      <4> QED BY <4>1, <4>2, <4>4
    <3> QED BY <3>1, <3>4, <3>5, <3>6
  <2> QED BY <2>2, <2>3, <1>1 DEF LogIds
<1> QED BY <1>2, <1>5, <1>6, <1>7, <1>8 DEF LogInv

LEMMA LogPurges == ASSUME LogInv, PurgeOldLines PROVE LogInv'
<1>1. PICK old \in SUBSET lgRows : lgRows' = lgRows \ old /\ lgDropped' = lgDropped \cup {Line(r) : r \in old}
  <2> DEFINE old == {r \in lgRows : r.at < lgNow - Retention}
  <2>1. lgRows' = lgRows \ old /\ lgDropped' = lgDropped \cup {Line(r) : r \in old}
    BY DEF PurgeOldLines
  <2>2. old \in SUBSET lgRows
    OBVIOUS
  <2> HIDE DEF old
  <2> QED BY <2>1, <2>2
<1>2. UNCHANGED <<lgNow, lgSent, lgPend, lgChan, lgBuf, lgPc, lgNextId>>
  BY DEF PurgeOldLines
<1>3. \A u : Settled(u)' = Settled(u)
  BY <1>2 DEF Settled
<1>4. \A r \in lgRows : /\ r.w \in Writers /\ r.n \in Nat /\ r.n <= Settled(r.w) /\ ~Removed(r.w, r.n)
                       /\ Line(r) \in LogLine /\ Line(r) \in Known(r.w) /\ Line(r).w = r.w /\ Line(r).n = r.n
  BY RowFields DEF LogInv, LogSettled
<1>5. LogType'
  <2>1. {Line(r) : r \in old} \subseteq LogLine
    BY <1>4
  <2> QED BY <2>1, <1>1, <1>2 DEF LogInv, LogType
<1>6. LogLinedUp'
  BY <1>2, <1>3 DEF LogInv, LogLinedUp
<1>7. LogSettled'
  <2>1. \A r \in lgRows' : r.n <= Settled(r.w)
    BY <1>1, <1>4
  <2>2. ASSUME NEW r \in lgRows', Removed(r.w, r.n)' PROVE FALSE
    <3>1. PICK l \in lgDropped' : l.w = r.w /\ l.n = r.n
      BY <2>2 DEF Removed
    <3>2. r \in lgRows /\ r \notin old /\ l \notin lgDropped
      BY <3>1, <1>1, <1>4 DEF Removed
    <3>3. PICK q \in old : l = Line(q)
      BY <3>2, <1>1
    <3>4. q \in lgRows /\ q.w = r.w /\ q.n = r.n
      BY <3>1, <3>3, <1>1, <1>4
    <3> QED BY <3>2, <3>4 DEF LogInv, LogIds
  <2>3. \A l \in lgDropped' : l.n <= Settled(l.w)
    <3>1. \A l \in lgDropped : l.n <= Settled(l.w)
      BY DEF LogInv, LogSettled
    <3>2. \A r \in old : Line(r).n <= Settled(Line(r).w)
      BY <1>1, <1>4
    <3> QED BY <3>1, <3>2, <1>1
  <2>4. ASSUME NEW u \in Writers, NEW n \in 1 .. Settled(u) PROVE InTable(u, n)' \/ Removed(u, n)'
    <3>1. CASE Removed(u, n)
      BY <3>1, <1>1 DEF Removed
    <3>2. CASE InTable(u, n)
      <4>1. PICK r \in lgRows : r.w = u /\ r.n = n
        BY <3>2 DEF InTable
      <4>2. CASE r \in old
        <5>1. Line(r) \in lgDropped' /\ Line(r).w = u /\ Line(r).n = n
          BY <4>1, <4>2, <1>1, <1>4
        <5> QED BY <5>1 DEF Removed
      <4>3. CASE r \notin old
        BY <4>1, <4>3, <1>1 DEF InTable
      <4> QED BY <4>2, <4>3
    <3> QED BY <3>1, <3>2 DEF LogInv, LogSettled
  <2> QED BY <2>1, <2>2, <2>3, <2>4, <1>3 DEF LogSettled
<1>8. LogTimed'
  <2>1. ASSUME NEW u \in Writers PROVE Known(u)' \subseteq Known(u)
    <3>1. {Line(r) : r \in {s \in lgRows' : s.w = u}} \subseteq Known(u)
      BY <1>1, <1>4
    <3>2. {l \in lgDropped' : l.w = u} \subseteq Known(u)
      <4> SUFFICES ASSUME NEW l \in lgDropped', l.w = u PROVE l \in Known(u)
        OBVIOUS
      <4>1. CASE l \in lgDropped
        BY <4>1 DEF Known
      <4>2. CASE l \in {Line(r) : r \in old}
        BY <4>2, <1>1, <1>4
      <4> QED BY <4>1, <4>2, <1>1
    <3> QED BY <3>1, <3>2, <1>2 DEF Known
  <2>2. lgNow' \in Nat /\ lgNow' >= lgNow
    BY <1>2 DEF LogInv, LogType
  <2> QED BY <2>1, <2>2, <1>2, TimesStay
<1>9. LogIds'
  BY <1>1, <1>2 DEF LogInv, LogIds
<1> QED BY <1>5, <1>6, <1>7, <1>8, <1>9 DEF LogInv

LEMMA LogStep == LogInv /\ [LogNext]_lgVars => LogInv'
<1> SUFFICES ASSUME LogInv, [LogNext]_lgVars PROVE LogInv'
  OBVIOUS
<1>1. ASSUME NEW w \in Writers, NEW t \in LogTasks, StampLine(w, t) \/ EmitToSink(w, t) PROVE LogInv'
  BY <1>1, LogStamps, LogEmits
<1>2. ASSUME NEW w \in Writers, DropSink(w) PROVE LogInv'
  BY <1>2, LogStays DEF DropSink
<1>3. ASSUME NEW w \in Writers, BatcherStep(w) PROVE LogInv'
  <2>1. CASE GatherBatch(w)
    BY <2>1, LogGathers
  <2>2. CASE Straggler(w)
    BY <2>2, LogStraggles
  <2>3. CASE FlushDue(w) \/ SendersGone(w)
    BY <2>3, LogWaits
  <2>4. CASE FlushBatch(w, TRUE) \/ FlushBatch(w, FALSE)
    BY <2>4, FlushCommits, FlushFails
  <2> QED BY <1>3, <2>1, <2>2, <2>3, <2>4 DEF BatcherStep
<1>4. CASE PurgeOldLines
  BY <1>4, LogPurges
<1>5. CASE LogClock
  BY <1>5, LogTicks
<1>6. CASE UNCHANGED lgVars
  BY <1>6, LogStays DEF lgVars
<1> QED BY <1>1, <1>2, <1>3, <1>4, <1>5, <1>6 DEF LogNext

LEMMA LogShowsInOrder == LogInv => LogInOrder
<1> SUFFICES ASSUME LogInv, NEW r \in lgRows, NEW s \in lgRows, r # s
             PROVE  /\ FetchesBefore(r, s) \/ FetchesBefore(s, r)
                    /\ FetchesBefore(r, s) => r.at <= s.at /\ (r.w = s.w /\ r.by = s.by => r.n < s.n)
  BY DEF LogInOrder
<1>1. /\ r.at \in Nat /\ s.at \in Nat /\ r.id \in Nat /\ s.id \in Nat /\ r.n \in Nat /\ s.n \in Nat
      /\ r.w \in Writers /\ Line(r) \in Known(r.w) /\ Line(s) \in Known(s.w)
      /\ Line(r).n = r.n /\ Line(s).n = s.n /\ Line(r).at = r.at /\ Line(s).at = s.at
      /\ Line(r).by = r.by /\ Line(s).by = s.by
  BY RowFields
<1>2. r.id # s.id
  BY DEF LogInv, LogIds
<1>3. FetchesBefore(r, s) \/ FetchesBefore(s, r)
  BY <1>1, <1>2 DEF FetchesBefore
<1>4. ASSUME FetchesBefore(r, s) PROVE r.at <= s.at
  BY <1>1, <1>4 DEF FetchesBefore
<1>5. ASSUME FetchesBefore(r, s), r.w = s.w, r.by = s.by PROVE r.n < s.n
  <2>1. r.n # s.n
    BY <1>5 DEF LogInv, LogIds
  <2>2. ASSUME s.n < r.n PROVE FALSE
    <3>1. s.id < r.id
      BY <1>5, <2>2 DEF LogInv, LogIds
    <3>2. s.at <= r.at
      <4>1. Line(r) \in Known(r.w) /\ Line(s) \in Known(r.w) /\ Line(s).n < Line(r).n /\ Line(s).by = Line(r).by
        BY <1>1, <1>5, <2>2
      <4>2. Line(s).at <= Line(r).at
        BY <4>1, <1>1 DEF LogInv, LogTimed
      <4> QED BY <4>2, <1>1
    <3> QED BY <3>1, <3>2, <1>1, <1>5 DEF FetchesBefore
  <2> QED BY <2>1, <2>2, <1>1
<1> QED BY <1>3, <1>4, <1>5

LEMMA LogLosesNothing == LogInv => LineAccounted
<1> SUFFICES ASSUME LogInv, NEW w \in Writers, NEW n \in 1 .. lgSent[w]
             PROVE  \E p \in Places(w, n) : Places(w, n) = {p}
  BY DEF LineAccounted
<1> DEFINE b == Len(lgBuf[w])
           c == Len(lgChan[w])
           S == Settled(w)
<1>1. b \in Nat /\ c \in Nat /\ S \in Nat /\ n \in Nat /\ n >= 1 /\ n <= S + b + c
      /\ DOMAIN lgBuf[w] = 1 .. b /\ DOMAIN lgChan[w] = 1 .. c
  <2>1. b \in Nat /\ c \in Nat /\ S \in Nat /\ lgSent[w] \in Nat /\ DOMAIN lgBuf[w] = 1 .. b /\ DOMAIN lgChan[w] = 1 .. c
    BY LogFields
  <2>2. S + b + c = lgSent[w]
    BY <2>1 DEF Settled
  <2> QED BY <2>1, <2>2
<1>2. \A j \in 1 .. c : lgChan[w][j].n = S + b + j
  BY PendingFields
<1>3. \A j \in 1 .. b : lgBuf[w][j].n = S + j
  BY PendingFields
<1>4. \A r \in lgRows : r.w = w /\ r.n = n => n <= S /\ ~Removed(w, n)
  BY DEF LogInv, LogSettled
<1>5. \A l \in lgDropped : l.w = w /\ l.n = n => n <= S /\ Removed(w, n)
  BY DEF LogInv, LogSettled, Removed
<1> DEFINE inChan == {j \in DOMAIN lgChan[w] : lgChan[w][j].n = n}
           inBuf == {j \in DOMAIN lgBuf[w] : lgBuf[w][j].n = n}
           inTable == {s \in lgRows : s.w = w /\ s.n = n}
           gone == {m \in lgDropped : m.w = w /\ m.n = n}
<1>6. Places(w, n) = {<<"channel", i>> : i \in inChan} \cup {<<"buffer", i>> : i \in inBuf}
                     \cup {<<"table", r.id>> : r \in inTable} \cup {<<"removed", l.at>> : l \in gone}
  BY DEF Places
<1> HIDE DEF S, b, c
<1>7. CASE n <= S
  <2>1. inChan = {}
    BY <1>1, <1>2, <1>7
  <2>2. inBuf = {}
    BY <1>1, <1>3, <1>7
  <2>3. InTable(w, n) \/ Removed(w, n)
    <3>1. n \in 1 .. Settled(w)
      BY <1>1, <1>7 DEF S
    <3> QED BY <3>1 DEF LogInv, LogSettled
  <2>4. CASE InTable(w, n)
    <3>1. PICK r \in lgRows : r.w = w /\ r.n = n
      BY <2>4 DEF InTable
    <3>2. inTable = {r}
      BY <3>1 DEF LogInv, LogIds
    <3>3. gone = {}
      BY <3>1, <1>4, <1>5
    <3> HIDE DEF inChan, inBuf, inTable, gone
    <3>4. Places(w, n) = {<<"table", r.id>>}
      BY <3>2, <3>3, <2>1, <2>2, <1>6
    <3> QED BY <3>4
  <2>5. CASE Removed(w, n)
    <3>1. PICK l \in lgDropped : l.w = w /\ l.n = n
      BY <2>5 DEF Removed
    <3>2. gone = {l}
      <4> SUFFICES ASSUME NEW m \in gone PROVE m = l
        BY <3>1
      <4>1. m \in Known(w) /\ l \in Known(w) /\ m.n = l.n
        BY <3>1, DroppedFields
      <4> QED BY <4>1 DEF LogInv, LogTimed
    <3>3. inTable = {}
      BY <2>5, <1>4
    <3> HIDE DEF inChan, inBuf, inTable, gone
    <3>4. Places(w, n) = {<<"removed", l.at>>}
      BY <3>2, <3>3, <2>1, <2>2, <1>6
    <3> QED BY <3>4
  <2> QED BY <2>3, <2>4, <2>5
<1>8. CASE n > S
  <2>1. inTable = {} /\ gone = {}
    BY <1>1, <1>4, <1>5, <1>8
  <2>2. CASE n <= S + b
    <3>1. n - S \in 1 .. b
      BY <1>1, <1>8, <2>2
    <3>2. \A j \in 1 .. b : lgBuf[w][j].n = n <=> j = n - S
      BY <1>1, <1>3
    <3>3. inBuf = {n - S}
      BY <3>1, <3>2, <1>1
    <3>4. inChan = {}
      BY <1>1, <1>2, <2>2
    <3> HIDE DEF inChan, inBuf, inTable, gone
    <3>5. Places(w, n) = {<<"buffer", n - S>>}
      BY <3>3, <3>4, <2>1, <1>6
    <3> QED BY <3>5
  <2>3. CASE n > S + b
    <3>1. n - S - b \in 1 .. c
      BY <1>1, <1>8, <2>3
    <3>2. ASSUME NEW j \in 1 .. c PROVE lgChan[w][j].n = n <=> j = n - S - b
      <4>1. lgChan[w][j].n = S + b + j /\ j \in Nat
        BY <1>1, <1>2
      <4>2. S + b + j = n <=> j = n - S - b
        BY <4>1, <1>1
      <4> QED BY <4>1, <4>2
    <3>3. inChan = {n - S - b}
      BY <3>1, <3>2, <1>1
    <3>4. inBuf = {}
      BY <1>1, <1>3, <2>3
    <3> HIDE DEF inChan, inBuf, inTable, gone
    <3>5. Places(w, n) = {<<"channel", n - S - b>>}
      BY <3>3, <3>4, <2>1, <1>6
    <3> QED BY <3>5
  <2> QED BY <2>2, <2>3, <1>1
<1> QED BY <1>1, <1>7, <1>8

(* What the log view shows is in the order of the stamps, the lines of     *)
(* each task of a run keep their order and no line is lost silently, for   *)
(* any number of runs, tasks and lines and any batch size (write_output,   *)
(* run_batcher, flush, fetch_log_lines).                                   *)
THEOREM LogIsSafe == LogSpec => []LogSafe
<1>1. LogInv => LogSafe
  BY LogShowsInOrder, LogLosesNothing DEF LogSafe
<1> QED BY <1>1, LogInitOK, LogStep, PTL DEF LogSpec

----------------------------------------------------------------------------
(* The marks of merged pull requests.                                      *)

PrTexts == Prs \cup {0, Junk}
PollRec == [at : {"loop", "off", "sleep", "pass", "asked", "merged", "write"},
            todo : SUBSET [key : PrKeys, url : PrTexts], key : PrKeys \cup {"none"},
            url : PrTexts, id : Works \cup {0}]
PrType ==
    /\ prHub \in [Prs -> {"none", "open", "merged", "closed"}]
    /\ prHead \in [Prs -> PrKeys \cup {"none"}]
    /\ prWork \in [PrKeys -> [id : Works \cup {0}, url : PrTexts, flag : BOOLEAN]]
    /\ prRow \in [Works -> [key : PrKeys \cup {"none", "deleted"}, url : PrTexts, flag : BOOLEAN]]
    /\ prFile \in [PrKeys -> PrTexts]
    /\ prPoll \in PollRec

(* A pull request that is known for a ticket was opened from its branch.   *)
Belongs(k, url) == url \in Prs => prHead[url] = k /\ prHub[url] # "none"
Earned(k) == \E p \in Prs : prHead[p] = k /\ prHub[p] = "merged"

OwnUrls ==
    /\ \A k \in PrKeys : Belongs(k, prWork[k].url) /\ Belongs(k, prFile[k])
    /\ \A i \in Works : prRow[i].key \in PrKeys => Belongs(prRow[i].key, prRow[i].url)

(* Every item has its row, and every row its item.                         *)
RowsAreItems ==
    /\ \A k \in PrKeys : IF prWork[k].id = 0 THEN prWork[k] = NoWork ELSE prRow[prWork[k].id].key = k
    /\ \A i \in Works : prRow[i].key \in PrKeys => prWork[prRow[i].key].id = i

MarksEarned ==
    /\ \A k \in PrKeys : prWork[k].flag => Earned(k)
    /\ \A i \in Works : prRow[i].key \in PrKeys /\ prRow[i].flag => prWork[prRow[i].key].flag

(* What the poller has in hand stays true while it waits: the mark it      *)
(* still has to write to a row is the item's, unless that row is deleted.  *)
PollSound ==
    /\ \A e \in prPoll.todo : Belongs(e.key, e.url) /\ e.url \in Prs
    /\ prPoll.at \in {"asked", "merged"} =>
          prPoll.key \in PrKeys /\ prPoll.url \in Prs /\ Belongs(prPoll.key, prPoll.url)
    /\ prPoll.at = "merged" => prHub[prPoll.url] = "merged"
    /\ prPoll.at = "write" =>
          /\ prPoll.key \in PrKeys /\ prPoll.id \in Works
          /\ prRow[prPoll.id].key \in {prPoll.key, "deleted"}
          /\ prRow[prPoll.id].key = prPoll.key => prWork[prPoll.key].flag

PrInv == PrType /\ OwnUrls /\ RowsAreItems /\ MarksEarned /\ PollSound
LEMMA PrInitOK == PrInit => PrInv
<1> SUFFICES ASSUME PrInit PROVE PrInv
  OBVIOUS
<1> USE PullRequestAssumption DEF PrInit, NoWork, NoPrRow, PollIdle
<1>1. PrType
  BY DEF PrType, PrTexts, PollRec
<1>2. OwnUrls /\ RowsAreItems
  BY DEF OwnUrls, RowsAreItems, Belongs
<1>3. MarksEarned /\ PollSound
  BY DEF MarksEarned, PollSound
<1> QED BY <1>1, <1>2, <1>3 DEF PrInv

(* What the types say of the fields.                                       *)
LEMMA PrFields ==
    ASSUME PrInv
    PROVE  /\ 0 \notin Works /\ 0 \notin Prs /\ "none" \notin PrKeys /\ "deleted" \notin PrKeys
           /\ \A x \in PrKeys : prWork[x].id \in Works \cup {0} /\ prWork[x].url \in PrTexts /\ prWork[x].flag \in BOOLEAN
           /\ \A i \in Works : prRow[i].key \in PrKeys \cup {"none", "deleted"} /\ prRow[i].url \in PrTexts
                              /\ prRow[i].flag \in BOOLEAN
           /\ \A e \in prPoll.todo : e.key \in PrKeys /\ e.url \in PrTexts
           /\ prPoll.todo \in SUBSET [key : PrKeys, url : PrTexts] /\ prPoll.key \in PrKeys \cup {"none"}
           /\ prPoll.url \in PrTexts /\ prPoll.id \in Works \cup {0}
<1>1. 0 \notin Works /\ 0 \notin Prs /\ "none" \notin PrKeys /\ "deleted" \notin PrKeys
  BY PullRequestAssumption DEF Works
<1> QED BY <1>1 DEF PrInv, PrType, PollRec

LEMMA PrAdds ==
    ASSUME PrInv, NEW k \in PrKeys, AddWork(k)
    PROVE  PrInv'
<1>0. PICK i \in Works :
         /\ prRow[i] = NoPrRow
         /\ prWork' = [prWork EXCEPT ![k] = [NoWork EXCEPT !.id = i]]
         /\ prRow' = [prRow EXCEPT ![i] = [NoPrRow EXCEPT !.key = k]]
         /\ prWork[k] = NoWork /\ UNCHANGED <<prHub, prHead, prFile, prPoll, prInterval, prFaults>>
  BY DEF AddWork
<1>6. /\ prWork'[k].id = i /\ prWork'[k].url = 0 /\ prWork'[k].flag = FALSE
      /\ \A x \in PrKeys : x # k => prWork'[x] = prWork[x]
      /\ prWork[k].id = 0 /\ prWork[k].flag = FALSE /\ prRow[i].key = "none"
      /\ prRow'[i].key = k /\ prRow'[i].url = 0 /\ prRow'[i].flag = FALSE
      /\ \A j \in Works : j # i => prRow'[j] = prRow[j]
  BY <1>0 DEF PrInv, PrType, NoWork, NoPrRow
<1>1. PrType'
  BY <1>0, PrFields DEF PrInv, PrType, PrTexts, PollRec, NoWork, NoPrRow
<1>2. OwnUrls'
  BY <1>0, <1>6, PrFields DEF PrInv, OwnUrls, Belongs
<1>3. RowsAreItems'
  BY <1>0, <1>6, PrFields DEF PrInv, RowsAreItems
<1>4. MarksEarned'
  BY <1>0, <1>6, PrFields DEF PrInv, MarksEarned, Earned, RowsAreItems
<1>5. PollSound'
  BY <1>0, <1>6, PrFields DEF PrInv, PollSound, Belongs
<1> QED BY <1>1, <1>2, <1>3, <1>4, <1>5 DEF PrInv

LEMMA PrReports ==
    ASSUME PrInv, NEW k \in PrKeys, FlowReports(k)
    PROVE  PrInv'
<1>0. PICK p \in Prs \cup {0, Junk}, infile \in BOOLEAN :
         /\ p \in Prs => prHub[p] = "none"
         /\ prHub' = [q \in Prs |-> IF q = p THEN "open" ELSE prHub[q]]
         /\ prHead' = [q \in Prs |-> IF q = p THEN k ELSE prHead[q]]
         /\ prFile' = [prFile EXCEPT ![k] = IF infile /\ p # 0 THEN p ELSE @]
         /\ prWork' = [prWork EXCEPT ![k].url = ResolvePrUrl(prFile'[k], IF infile THEN 0 ELSE p)]
         /\ \/ prRow' = [prRow EXCEPT ![prWork[k].id].url = ResolvePrUrl(prFile'[k], IF infile THEN 0 ELSE p)]
            \/ UNCHANGED prRow
         /\ prWork[k] # NoWork /\ UNCHANGED <<prPoll, prInterval>>
  BY DEF FlowReports
<1> DEFINE url == prWork'[k].url
<1>6. /\ url \in {p, prFile[k]} /\ prFile'[k] \in {p, prFile[k]} /\ url \in PrTexts
      /\ prWork' = [prWork EXCEPT ![k] = [prWork[k] EXCEPT !.url = url]]
      /\ prWork[k].id \in Works /\ prRow[prWork[k].id].key = k
      /\ \/ prRow' = [prRow EXCEPT ![prWork[k].id] = [prRow[prWork[k].id] EXCEPT !.url = url]]
         \/ UNCHANGED prRow
  <2>1. prWork[k].id \in Works /\ prRow[prWork[k].id].key = k
    BY <1>0 DEF PrInv, PrType, RowsAreItems
  <2> QED BY <1>0, <2>1 DEF PrInv, PrType, PrTexts, ResolvePrUrl
<1>10. /\ prWork'[k].id = prWork[k].id /\ prWork'[k].flag = prWork[k].flag
       /\ \A x \in PrKeys : x # k => prWork'[x] = prWork[x]
       /\ \A x \in PrKeys : x # k => prFile'[x] = prFile[x]
       /\ \A i \in Works : \/ prRow'[i] = prRow[i]
                           \/ /\ i = prWork[k].id /\ prRow'[i].url = url
                              /\ prRow'[i].key = prRow[i].key /\ prRow'[i].flag = prRow[i].flag
  BY <1>0, <1>6 DEF PrInv, PrType
<1> HIDE DEF url
<1>7. \A q \in Prs, x \in PrKeys :
          /\ Belongs(x, q) => Belongs(x, q)'
          /\ prHead[q] = x /\ prHub[q] = "merged" => prHead'[q] = x /\ prHub'[q] = "merged"
          /\ prHub[q] = "merged" => prHub'[q] = "merged"
  BY <1>0 DEF Belongs
<1>8. \A u, x \in PrKeys : Belongs(x, u) => (Belongs(x, u))'
  BY <1>0 DEF Belongs
<1>9. /\ url \in Prs => prHead'[url] = k /\ prHub'[url] # "none"
      /\ prFile'[k] \in Prs => prHead'[prFile'[k]] = k /\ prHub'[prFile'[k]] # "none"
  BY <1>0, <1>6 DEF PrInv, OwnUrls, Belongs
<1>1. PrType'
  <2>1. prHub' \in [Prs -> {"none", "open", "merged", "closed"}] /\ prHead' \in [Prs -> PrKeys \cup {"none"}]
    BY <1>0 DEF PrInv, PrType
  <2>2. prFile' \in [PrKeys -> PrTexts]
    BY <1>0 DEF PrInv, PrType, PrTexts
  <2>3. prWork' \in [PrKeys -> [id : Works \cup {0}, url : PrTexts, flag : BOOLEAN]]
    BY <1>6 DEF PrInv, PrType
  <2>4. prRow' \in [Works -> [key : PrKeys \cup {"none", "deleted"}, url : PrTexts, flag : BOOLEAN]]
    BY <1>6 DEF PrInv, PrType
  <2> QED BY <2>1, <2>2, <2>3, <2>4, <1>0 DEF PrInv, PrType
<1>2. OwnUrls'
  <2>1. ASSUME NEW x \in PrKeys PROVE Belongs(x, prWork[x].url)' /\ Belongs(x, prFile[x])'
    <3>1. CASE x = k
      BY <3>1, <1>9 DEF url, Belongs
    <3>2. CASE x # k
      BY <3>2, <1>0, <1>10 DEF PrInv, OwnUrls, Belongs
    <3> QED BY <3>1, <3>2
  <2>2. ASSUME NEW i \in Works, prRow'[i].key \in PrKeys PROVE Belongs(prRow[i].key, prRow[i].url)'
    <3>1. CASE prRow'[i] = prRow[i]
      BY <3>1, <2>2, <1>0 DEF PrInv, OwnUrls, Belongs
    <3>2. CASE i = prWork[k].id /\ prRow'[i].url = url /\ prRow'[i].key = prRow[i].key
      BY <3>2, <1>6, <1>9 DEF Belongs
    <3> QED BY <3>1, <3>2, <1>10
  <2> QED BY <2>1, <2>2 DEF OwnUrls
<1>3. RowsAreItems'
  <2>1. prWork[k].id # 0
    BY <1>6, PrFields
  <2>2. /\ \A i \in Works : prRow'[i].key = prRow[i].key
        /\ \A x \in PrKeys : prWork'[x].id = prWork[x].id /\ (prWork[x].id = 0 => prWork'[x] = prWork[x])
    BY <2>1, <1>10
  <2>3. \A x \in PrKeys : prWork[x].id # 0 => prWork[x].id \in Works
    BY PrFields
  <2> QED BY <2>2, <2>3 DEF PrInv, RowsAreItems
<1>4. MarksEarned'
  <2>3. \A x \in PrKeys : Earned(x) => Earned(x)'
    BY <1>7 DEF Earned
  <2> QED BY <2>3, <1>10 DEF PrInv, MarksEarned
<1>5. PollSound'
  <2>1. \A i \in Works : prRow'[i].key = prRow[i].key
    BY <1>10
  <2>2. \A x \in PrKeys : prWork'[x].flag = prWork[x].flag
    BY <1>10
  <2>3. prPoll' = prPoll /\ \A e \in prPoll.todo : e.key \in PrKeys
    BY <1>0, PrFields
  <2> QED BY <2>1, <2>2, <2>3, <1>7 DEF PrInv, PollSound
<1> QED BY <1>1, <1>2, <1>3, <1>4, <1>5 DEF PrInv

LEMMA PrDeletes ==
    ASSUME PrInv, NEW k \in PrKeys, DeleteWork(k)
    PROVE  PrInv'
<1> DEFINE i == prWork[k].id
<1>0. i \in Works /\ prRow[i].key = k
  BY DEF PrInv, PrType, RowsAreItems, DeleteWork
<1>6. /\ prWork'[k] = NoWork /\ prWork'[k].id = 0 /\ prWork'[k].url = 0 /\ prWork'[k].flag = FALSE
      /\ \A x \in PrKeys : x # k => prWork'[x] = prWork[x]
      /\ prRow'[i].key = "deleted" /\ prRow'[i].url = 0 /\ prRow'[i].flag = FALSE
      /\ \A j \in Works : j # i => prRow'[j] = prRow[j]
      /\ prFile'[k] = 0 /\ \A x \in PrKeys : x # k => prFile'[x] = prFile[x]
  BY <1>0 DEF PrInv, PrType, NoWork, NoPrRow, DeleteWork
<1>7. UNCHANGED <<prHub, prHead, prPoll>>
  BY DEF DeleteWork
<1>1. PrType'
  BY <1>0, PrFields DEF PrInv, PrType, PrTexts, PollRec, NoWork, NoPrRow, DeleteWork
<1>2. OwnUrls'
  BY <1>0, <1>6, <1>7, PrFields DEF PrInv, OwnUrls, Belongs
<1>3. RowsAreItems'
  BY <1>0, <1>6, PrFields DEF PrInv, RowsAreItems
<1>4. MarksEarned'
  <2>1. \A x \in PrKeys : Earned(x)' = Earned(x)
    BY <1>7 DEF Earned
  <2> QED BY <2>1, <1>0, <1>6, PrFields DEF PrInv, MarksEarned, RowsAreItems
<1>5. PollSound'
  <2>1. prPoll.at = "write" /\ prRow'[prPoll.id].key = prPoll.key =>
            prPoll.id # i /\ prRow[prPoll.id].key = prPoll.key /\ prPoll.key # k
    BY <1>0, <1>6, PrFields DEF PrInv, PollSound, RowsAreItems
  <2> QED BY <2>1, <1>0, <1>6, <1>7, PrFields DEF PrInv, PollSound, Belongs
<1> QED BY <1>1, <1>2, <1>3, <1>4, <1>5 DEF PrInv

LEMMA PrGoes ==
    ASSUME PrInv, NEW p \in Prs, PrEnds(p)
    PROVE  PrInv'
<1>1. PrType'
  BY DEF PrInv, PrType, PrTexts, PollRec, PrEnds
<1>2. OwnUrls'
  BY DEF PrInv, PrType, OwnUrls, Belongs, PrEnds
<1>3. RowsAreItems'
  BY DEF PrInv, PrType, RowsAreItems, PrEnds
<1>4. MarksEarned'
  BY DEF PrInv, PrType, MarksEarned, Earned, PrEnds
<1>5. PollSound'
  BY DEF PrInv, PrType, PollSound, Belongs, PrEnds
<1> QED BY <1>1, <1>2, <1>3, <1>4, <1>5 DEF PrInv

LEMMA PrPolls ==
    ASSUME PrInv, PollLoop \/ PollWakes \/ PassEnds
    PROVE  PrInv'
<1>0. /\ \/ prPoll' = PollIdle
         \/ \E at \in {"off", "sleep"} : prPoll' = [PollIdle EXCEPT !.at = at]
         \/ prPoll' = [PollIdle EXCEPT !.at = "pass", !.todo = EligibleWorks]
      /\ UNCHANGED <<prHub, prHead, prWork, prRow, prFile>>
  BY DEF PollLoop, PollWakes, PassEnds, PrPoller
<1>6. \A e \in EligibleWorks : e.key \in PrKeys /\ e.url \in Prs /\ Belongs(e.key, e.url)
  BY DEF PrInv, OwnUrls, EligibleWorks, ParsePrUrl
<1>7. EligibleWorks \in SUBSET [key : PrKeys, url : PrTexts]
  BY PrFields DEF EligibleWorks
<1>8. /\ prPoll' \in PollRec /\ prPoll'.at \in {"loop", "off", "sleep", "pass"}
      /\ prPoll'.todo \in {{}, EligibleWorks}
  <2>1. 0 \in PrTexts
    BY DEF PrTexts
  <2>2. CASE prPoll' = PollIdle \/ \E at \in {"off", "sleep"} : prPoll' = [PollIdle EXCEPT !.at = at]
    BY <2>1, <2>2 DEF PollIdle, PollRec
  <2>3. CASE prPoll' = [PollIdle EXCEPT !.at = "pass", !.todo = EligibleWorks]
    BY <2>1, <2>3, <1>7 DEF PollIdle, PollRec
  <2> QED BY <2>2, <2>3, <1>0
<1>1. PrType'
  BY <1>0, <1>8 DEF PrInv, PrType
<1>2. OwnUrls'
  BY <1>0 DEF PrInv, OwnUrls, Belongs
<1>3. RowsAreItems'
  BY <1>0 DEF PrInv, RowsAreItems
<1>4. MarksEarned'
  BY <1>0 DEF PrInv, MarksEarned, Earned
<1>5. PollSound'
  BY <1>0, <1>6, <1>8 DEF PollSound, Belongs
<1> QED BY <1>1, <1>2, <1>3, <1>4, <1>5 DEF PrInv

LEMMA PrAsks ==
    ASSUME PrInv, CheckNext
    PROVE  PrInv'
<1>0. PICK e \in prPoll.todo :
         /\ PrPoller([prPoll EXCEPT !.at = "asked", !.todo = @ \ {e}, !.key = e.key, !.url = e.url])
         /\ UNCHANGED <<prWork, prRow, prFaults>>
  BY DEF CheckNext
<1>6. e \in [key : PrKeys, url : PrTexts] /\ e.key \in PrKeys /\ e.url \in PrTexts
  BY <1>0, PrFields
<1>1. PrType'
  BY <1>0, <1>6 DEF PrInv, PrType, PrTexts, PollRec, PrPoller, PollIdle
<1>2. OwnUrls'
  BY <1>0, <1>6 DEF PrInv, PrType, OwnUrls, Belongs, PrPoller, PollIdle
<1>3. RowsAreItems'
  BY <1>0, <1>6 DEF PrInv, PrType, RowsAreItems, PrPoller, PollIdle
<1>4. MarksEarned'
  BY <1>0, <1>6 DEF PrInv, PrType, MarksEarned, Earned, PrPoller, PollIdle
<1>5. PollSound'
  BY <1>0, <1>6 DEF PrInv, PrType, PollSound, Belongs, PrPoller, PollIdle
<1> QED BY <1>1, <1>2, <1>3, <1>4, <1>5 DEF PrInv

LEMMA PrAnswers ==
    ASSUME PrInv, CheckPrMerged
    PROVE  PrInv'
<1>0. /\ prPoll.at = "asked" /\ UNCHANGED <<prHub, prHead, prWork, prRow, prFile>>
      /\ \E at \in {"pass", "merged"} :
            prPoll' = [prPoll EXCEPT !.at = at] /\ (at = "merged" => prHub[prPoll.url] = "merged")
  BY DEF CheckPrMerged, Merged, AfterError, PrPoller
<1>6. /\ prPoll' \in PollRec /\ prPoll'.todo = prPoll.todo /\ prPoll'.key = prPoll.key /\ prPoll'.url = prPoll.url
      /\ prPoll'.at \in {"pass", "merged"} /\ (prPoll'.at = "merged" => prHub[prPoll.url] = "merged")
  <2>1. prPoll \in PollRec
    BY DEF PrInv, PrType
  <2> QED BY <2>1, <1>0 DEF PollRec
<1>1. PrType'
  BY <1>0, <1>6 DEF PrInv, PrType
<1>2. OwnUrls'
  BY <1>0 DEF PrInv, OwnUrls, Belongs
<1>3. RowsAreItems'
  BY <1>0 DEF PrInv, RowsAreItems
<1>4. MarksEarned'
  BY <1>0 DEF PrInv, MarksEarned, Earned
<1>5. PollSound'
  BY <1>0, <1>6 DEF PrInv, PollSound, Belongs
<1> QED BY <1>1, <1>2, <1>3, <1>4, <1>5 DEF PrInv

LEMMA PrFlags ==
    ASSUME PrInv, SetFlag
    PROVE  PrInv'
<1> DEFINE k == prPoll.key
           i == prWork[k].id
<1>0. /\ prPoll.at = "merged" /\ k \in PrKeys /\ Earned(k) /\ UNCHANGED <<prHub, prHead, prRow, prFile>>
      /\ i = 0 => prWork[k] = NoWork
      /\ i # 0 => i \in Works /\ prRow[i].key = k
  BY DEF PrInv, PrType, PollSound, RowsAreItems, SetFlag, PrPoller, Earned, Belongs
<1>6. \/ prPoll' = [prPoll EXCEPT !.at = "pass"] /\ UNCHANGED prWork
      \/ /\ prWork[k] # NoWork /\ i \in Works /\ prPoll' = [prPoll EXCEPT !.at = "write", !.id = i]
         /\ prWork' = [prWork EXCEPT ![k] = [prWork[k] EXCEPT !.flag = TRUE]]
  BY <1>0, PrFields DEF SetFlag, PrPoller, PrInv, PrType
<1>7. /\ prPoll' \in PollRec /\ prPoll'.todo = prPoll.todo
      /\ \/ prPoll'.at = "pass"
         \/ /\ prPoll'.at = "write" /\ prPoll'.id = i /\ prPoll'.key = k /\ i \in Works
            /\ prWork'[k].flag = TRUE
  <2>1. prPoll \in PollRec
    BY DEF PrInv, PrType
  <2>2. CASE prPoll' = [prPoll EXCEPT !.at = "pass"]
    BY <2>1, <2>2 DEF PollRec
  <2>3. CASE /\ i \in Works /\ prPoll' = [prPoll EXCEPT !.at = "write", !.id = i]
             /\ prWork' = [prWork EXCEPT ![k] = [prWork[k] EXCEPT !.flag = TRUE]]
    <3>1. prWork'[k].flag = TRUE
      BY <2>3, <1>0 DEF PrInv, PrType
    <3>2. prPoll' \in PollRec /\ prPoll'.todo = prPoll.todo /\ prPoll'.at = "write" /\ prPoll'.id = i /\ prPoll'.key = k
      <4> HIDE DEF i
      <4> QED BY <2>1, <2>3 DEF PollRec
    <3> QED BY <3>1, <3>2, <2>3
  <2> QED BY <2>2, <2>3, <1>6
<1>8. /\ prWork' \in [PrKeys -> [id : Works \cup {0}, url : PrTexts, flag : BOOLEAN]]
      /\ \A x \in PrKeys : /\ prWork'[x].id = prWork[x].id /\ prWork'[x].url = prWork[x].url
                           /\ \/ prWork'[x] = prWork[x]
                              \/ x = k /\ prWork'[x].flag = TRUE /\ prWork[x].id # 0
  <2>1. CASE UNCHANGED prWork
    BY <2>1 DEF PrInv, PrType
  <2>2. CASE i \in Works /\ prWork' = [prWork EXCEPT ![k] = [prWork[k] EXCEPT !.flag = TRUE]]
    <3>1. prWork[k] \in [id : Works \cup {0}, url : PrTexts, flag : BOOLEAN]
      BY <1>0 DEF PrInv, PrType
    <3>2. [prWork[k] EXCEPT !.flag = TRUE] \in [id : Works \cup {0}, url : PrTexts, flag : BOOLEAN]
      BY <3>1
    <3>3. prWork'[k] = [prWork[k] EXCEPT !.flag = TRUE] /\ \A x \in PrKeys : x # k => prWork'[x] = prWork[x]
      BY <1>0, <2>2 DEF PrInv, PrType
    <3>4. prWork'[k].id = prWork[k].id /\ prWork'[k].url = prWork[k].url /\ prWork'[k].flag = TRUE /\ prWork[k].id # 0
      BY <3>1, <3>3, <2>2, PrFields
    <3>5. prWork' \in [PrKeys -> [id : Works \cup {0}, url : PrTexts, flag : BOOLEAN]]
      BY <3>2, <2>2 DEF PrInv, PrType
    <3> HIDE DEF k, i
    <3> QED BY <3>3, <3>4, <3>5
  <2> QED BY <2>1, <2>2, <1>6
<1> HIDE DEF k, i
<1>1. PrType'
  BY <1>0, <1>7, <1>8 DEF PrInv, PrType
<1>2. OwnUrls'
  BY <1>0, <1>8 DEF PrInv, OwnUrls, Belongs
<1>3. RowsAreItems'
  BY <1>0, <1>8 DEF PrInv, RowsAreItems
<1>4. MarksEarned'
  <2>1. \A x \in PrKeys : Earned(x)' = Earned(x)
    BY <1>0 DEF Earned
  <2> QED BY <2>1, <1>0, <1>8 DEF PrInv, MarksEarned
<1>5. PollSound'
  <2>1. /\ \A e \in prPoll'.todo : Belongs(e.key, e.url)' /\ e.url \in Prs
        /\ prPoll'.at \in {"pass", "write"}
    BY <1>0, <1>7 DEF PrInv, PollSound, Belongs
  <2>2. prPoll'.at = "write" => /\ prPoll'.key \in PrKeys /\ prPoll'.id \in Works
                                /\ prRow'[prPoll'.id].key = prPoll'.key /\ prWork'[prPoll'.key].flag
    BY <1>0, <1>7, PrFields
  <2> QED BY <2>1, <2>2 DEF PollSound
<1> QED BY <1>1, <1>2, <1>3, <1>4, <1>5 DEF PrInv

LEMMA PrWrites ==
    ASSUME PrInv, UpdatePrMerged
    PROVE  PrInv'
<1> DEFINE i == prPoll.id
<1>0. /\ prPoll.at = "write" /\ i \in Works /\ prPoll.key \in PrKeys
      /\ prRow[i].key \in {prPoll.key, "deleted"} /\ (prRow[i].key = prPoll.key => prWork[prPoll.key].flag)
      /\ UNCHANGED <<prHub, prHead, prWork, prFile>> /\ prPoll' = [prPoll EXCEPT !.at = "pass"]
  BY DEF PrInv, PollSound, UpdatePrMerged, PrPoller
<1>6. /\ \A j \in Works : /\ prRow'[j].key = prRow[j].key /\ prRow'[j].url = prRow[j].url
                          /\ \/ prRow'[j] = prRow[j]
                             \/ j = i /\ prRow[j].key # "deleted" /\ prRow'[j].flag = TRUE
      /\ prRow' \in [Works -> [key : PrKeys \cup {"none", "deleted"}, url : PrTexts, flag : BOOLEAN]]
  <2>1. UNCHANGED prRow \/ (prRow[i].key # "deleted" /\ prRow' = [prRow EXCEPT ![i] = [prRow[i] EXCEPT !.flag = TRUE]])
    BY <1>0 DEF UpdatePrMerged, PrInv, PrType
  <2>2. CASE UNCHANGED prRow
    BY <2>2 DEF PrInv, PrType
  <2>3. CASE prRow[i].key # "deleted" /\ prRow' = [prRow EXCEPT ![i] = [prRow[i] EXCEPT !.flag = TRUE]]
    <3>1. prRow[i] \in [key : PrKeys \cup {"none", "deleted"}, url : PrTexts, flag : BOOLEAN]
      BY <1>0 DEF PrInv, PrType
    <3>2. [prRow[i] EXCEPT !.flag = TRUE] \in [key : PrKeys \cup {"none", "deleted"}, url : PrTexts, flag : BOOLEAN]
      BY <3>1
    <3>3. prRow'[i] = [prRow[i] EXCEPT !.flag = TRUE] /\ \A j \in Works : j # i => prRow'[j] = prRow[j]
      BY <1>0, <2>3 DEF PrInv, PrType
    <3>4. prRow'[i].key = prRow[i].key /\ prRow'[i].url = prRow[i].url /\ prRow'[i].flag = TRUE
      BY <3>1, <3>3
    <3>5. prRow' \in [Works -> [key : PrKeys \cup {"none", "deleted"}, url : PrTexts, flag : BOOLEAN]]
      BY <3>2, <2>3 DEF PrInv, PrType
    <3> HIDE DEF i
    <3> QED BY <3>3, <3>4, <3>5, <2>3
  <2> QED BY <2>1, <2>2, <2>3
<1>7. prPoll' \in PollRec /\ prPoll'.at = "pass" /\ prPoll'.todo = prPoll.todo
  <2>1. prPoll \in PollRec
    BY DEF PrInv, PrType
  <2> QED BY <2>1, <1>0 DEF PollRec
<1> HIDE DEF i
<1>1. PrType'
  BY <1>0, <1>6, <1>7 DEF PrInv, PrType
<1>2. OwnUrls'
  BY <1>0, <1>6 DEF PrInv, OwnUrls, Belongs
<1>3. RowsAreItems'
  <2>1. \A x \in PrKeys : prWork[x].id # 0 => prWork[x].id \in Works
    BY PrFields
  <2> QED BY <2>1, <1>0, <1>6 DEF PrInv, RowsAreItems
<1>4. MarksEarned'
  <2>1. \A x \in PrKeys : Earned(x)' = Earned(x)
    BY <1>0 DEF Earned
  <2> QED BY <2>1, <1>0, <1>6 DEF PrInv, MarksEarned, i
<1>5. PollSound'
  BY <1>0, <1>7 DEF PrInv, PollSound, Belongs
<1> QED BY <1>1, <1>2, <1>3, <1>4, <1>5 DEF PrInv

LEMMA PrRestarts ==
    ASSUME PrInv, RestartPolls
    PROVE  PrInv'
<1>0. ASSUME NEW k \in PrKeys
      PROVE  \/ prWork[k].id \in Works /\ prRow[prWork[k].id].key = k /\ prWork'[k] = RestoredWork(prWork[k].id)
             \/ prWork[k] = NoWork /\ prWork'[k] = NoWork /\ \A i \in Works : prRow[i].key # k
  <2>1. prWork'[k] = IF \E i \in Works : prRow[i].key = k
                     THEN RestoredWork(CHOOSE i \in Works : prRow[i].key = k) ELSE NoWork
    BY DEF RestartPolls
  <2>2. \A i \in Works : prRow[i].key = k => prWork[k].id = i
    BY DEF PrInv, RowsAreItems
  <2>3. CASE \E i \in Works : prRow[i].key = k
    <3> DEFINE i == CHOOSE i \in Works : prRow[i].key = k
    <3>1. i \in Works /\ prRow[i].key = k
      BY <2>3
    <3> QED BY <2>1, <2>2, <2>3, <3>1
  <2>4. CASE ~ \E i \in Works : prRow[i].key = k
    BY <2>1, <2>4 DEF PrInv, PrType, RowsAreItems
  <2> QED BY <2>3, <2>4
<1>6. 0 \notin Works /\ 0 \notin Prs
  BY PullRequestAssumption DEF Works
<1>8. \A k \in PrKeys :
        \/ /\ prWork[k].id \in Works /\ prRow[prWork[k].id].key = k /\ prWork'[k].id = prWork[k].id
           /\ prWork'[k].url = prRow[prWork[k].id].url /\ prWork'[k].flag = prRow[prWork[k].id].flag
        \/ /\ prWork[k].id = 0 /\ prWork'[k] = NoWork /\ prWork'[k].id = 0 /\ prWork'[k].url = 0 /\ prWork'[k].flag = FALSE
           /\ \A i \in Works : prRow[i].key # k
  <2> TAKE k \in PrKeys
  <2>1. CASE prWork[k].id \in Works /\ prRow[prWork[k].id].key = k /\ prWork'[k] = RestoredWork(prWork[k].id)
    BY <2>1 DEF RestoredWork
  <2>2. CASE prWork[k] = NoWork /\ prWork'[k] = NoWork /\ \A i \in Works : prRow[i].key # k
    <3>1. NoWork.id = 0 /\ NoWork.url = 0 /\ NoWork.flag = FALSE
      BY DEF NoWork
    <3> QED BY <2>2, <3>1
  <2> QED BY <2>1, <2>2, <1>0
<1>7. UNCHANGED <<prHub, prHead, prRow, prFile, prInterval>> /\ prPoll' = PollIdle
  BY DEF RestartPolls
<1>1. PrType'
  <2>1. prWork' = [k \in PrKeys |-> prWork'[k]]
    BY DEF RestartPolls
  <2>3. NoWork \in [id : Works \cup {0}, url : PrTexts, flag : BOOLEAN]
    BY DEF NoWork, PrTexts
  <2>2. \A k \in PrKeys : prWork'[k] \in [id : Works \cup {0}, url : PrTexts, flag : BOOLEAN]
    <3> TAKE k \in PrKeys
    <3>1. CASE prWork[k].id \in Works /\ prWork'[k] = RestoredWork(prWork[k].id)
      BY <3>1, PrFields DEF RestoredWork
    <3> QED BY <3>1, <2>3, <1>0
  <2>4. PollIdle \in PollRec
    BY DEF PollRec, PollIdle, PrTexts
  <2> QED BY <2>1, <2>2, <2>4, <1>7 DEF PrInv, PrType
<1>2. OwnUrls'
  BY <1>8, <1>6, <1>7 DEF PrInv, OwnUrls, Belongs
<1>3. RowsAreItems'
  BY <1>8, <1>6, <1>7 DEF PrInv, RowsAreItems
<1>4. MarksEarned'
  <2>1. \A x \in PrKeys : Earned(x)' = Earned(x)
    BY <1>7 DEF Earned
  <2> QED BY <2>1, <1>8, <1>6, <1>7 DEF PrInv, MarksEarned, RowsAreItems
<1>5. PollSound'
  BY <1>7 DEF PollSound, PollIdle
<1> QED BY <1>1, <1>2, <1>3, <1>4, <1>5 DEF PrInv

LEMMA PrStays ==
    ASSUME PrInv, UNCHANGED <<prHub, prHead, prWork, prRow, prFile, prPoll>>
    PROVE  PrInv'
<1>1. PrType'
  BY DEF PrInv, PrType, PrTexts, PollRec
<1>2. OwnUrls'
  BY DEF PrInv, PrType, OwnUrls, Belongs
<1>3. RowsAreItems'
  BY DEF PrInv, PrType, RowsAreItems
<1>4. MarksEarned'
  BY DEF PrInv, PrType, MarksEarned, Earned
<1>5. PollSound'
  BY DEF PrInv, PrType, PollSound, Belongs
<1> QED BY <1>1, <1>2, <1>3, <1>4, <1>5 DEF PrInv

(* The mark of a merged pull request is earned, and what a row says of it  *)
(* is shown, for any number of items, pull requests, restarts and failed   *)
(* calls (pr_merge_poller.rs, transition_to_done_with_pr_url).             *)
THEOREM MarksAreEarned == PrSpec => []PrSafe
<1>1. PrInv /\ [PrNext]_prVars => PrInv'
  <2> SUFFICES ASSUME PrInv, [PrNext]_prVars PROVE PrInv'
    OBVIOUS
  <2>1. CASE \E k \in PrKeys : AddWork(k) \/ FlowReports(k) \/ DeleteWork(k)
    BY <2>1, PrAdds, PrReports, PrDeletes
  <2>2. CASE \E p \in Prs : PrEnds(p)
    BY <2>2, PrGoes
  <2>3. CASE PrPollStep
    BY <2>3, PrPolls, PrAsks, PrAnswers, PrFlags, PrWrites DEF PrPollStep
  <2>4. CASE RestartPolls
    BY <2>4, PrRestarts
  <2>5. CASE SetInterval \/ UNCHANGED prVars
    BY <2>5, PrStays DEF SetInterval, prVars
  <2> QED BY <2>1, <2>2, <2>3, <2>4, <2>5 DEF PrNext
<1>2. PrInv => PrSafe
  BY DEF PrInv, PrType, RowsAreItems, MarksEarned, Earned, PrSafe, FlagEarned, RowFlagShown
<1> QED BY <1>1, <1>2, PrInitOK, PTL DEF PrSpec

----------------------------------------------------------------------------
(* The locks of the handlers.                                              *)

(* The order in which every job takes its locks.                           *)
Rank(l) ==
    CASE l = "worktree" -> 1
      [] l = "config" -> 2
      [] l = "items" -> 3
      [] l = "forwards" -> 4
      [] l = "runs" -> 5
      [] l = "terminals" -> 6
      [] l = "registry" -> 7

LockOps == {"read", "write", "drop"} \X Locks
Taking == {"read", "write"} \X LkTasks

(* A job may hold, at an operation, what it has taken and not dropped.     *)
MayHold(job, k) ==
    {l \in Locks : \E i \in 1 .. k - 1 :
        /\ Script(job)[i][1] # "drop" /\ Script(job)[i][2] = l
        /\ \A j \in i + 1 .. k - 1 : Script(job)[j] # D(l)}

LkType ==
    /\ lkJob \in [LkTasks -> AllJobs \cup {"idle"}]
    /\ lkPc \in [LkTasks -> Nat \ {0}]
    /\ lkHeld \in [LkTasks -> SUBSET ({"read", "write"} \X Locks)]
    /\ lkQueue \in [Locks -> Seq(Taking)]

LkHeldInv ==
    \A t \in LkTasks :
        /\ lkJob[t] = "idle" => lkPc[t] = 1 /\ lkHeld[t] = {}
        /\ lkJob[t] # "idle" =>
              lkPc[t] <= Len(Script(lkJob[t])) + 1 /\ \A h \in lkHeld[t] : h[2] \in MayHold(lkJob[t], lkPc[t])

(* Who waits in a queue is at the operation that asks for its lock, and    *)
(* waits there once.                                                       *)
LkQueueInv ==
    \A l \in Locks : \A i \in DOMAIN lkQueue[l] :
        LET t == lkQueue[l][i][2] IN
          /\ Busy(t) /\ Op(t) = <<lkQueue[l][i][1], l>>
          /\ \A j \in DOMAIN lkQueue[l] : lkQueue[l][j][2] = t => j = i

LkInv == LkType /\ LkHeldInv /\ LkQueueInv

----------------------------------------------------------------------------
LEMMA ScriptsAreOps ==
    ASSUME NEW job \in AllJobs
    PROVE  Script(job) \in Seq(LockOps) /\ Len(Script(job)) \in 1 .. 13
<1>0. \A l \in Locks : R(l) \in LockOps /\ W(l) \in LockOps /\ D(l) \in LockOps
  BY DEF LockOps, R, W, D
<1> USE <1>0 DEF Locks
<1>1. CASE job = "list"
  BY <1>1 DEF Script, ListWorkflows
<1>2. CASE job = "getUncached"
  BY <1>2 DEF Script, GetWorkflowUncached
<1>3. CASE job = "getCached"
  BY <1>3 DEF Script, GetWorkflowCached
<1>4. CASE job = "progress"
  BY <1>4 DEF Script, ProgressFields
<1>5. CASE job = "commit"
  BY <1>5 DEF Script, CommitConfig
<1>6. CASE job = "reload"
  BY <1>6 DEF Script, ReloadConfig
<1>7. CASE job = "transition"
  BY <1>7 DEF Script, TransitionItem
<1>8. CASE job = "prepare"
  BY <1>8 DEF Script, PrepareTree
<1>9. CASE job = "recreate"
  BY <1>9 DEF Script, RecreateTree
<1>10. CASE job = "forward"
  BY <1>10 DEF Script, TrackForward
<1>11. CASE job = "dropRun"
  BY <1>11 DEF Script, DropRunCommand
<1>12. CASE job = "tearDown"
  BY <1>12 DEF Script, TearDown
<1>13. CASE job = "edit"
  BY <1>13 DEF Script, EditDescription
<1> QED BY <1>1, <1>2, <1>3, <1>4, <1>5, <1>6, <1>7, <1>8, <1>9, <1>10, <1>11, <1>12, <1>13
           DEF AllJobs

LEMMA ScriptsClimb ==
    ASSUME NEW job \in AllJobs, NEW k \in 1 .. Len(Script(job)), Script(job)[k][1] # "drop",
           NEW l \in MayHold(job, k)
    PROVE  Rank(l) < Rank(Script(job)[k][2])
<1> USE DEF Locks, R, W, D, Rank, MayHold
<1>1. CASE job = "list"
  BY <1>1 DEF Script, ListWorkflows
<1>2. CASE job = "getUncached"
  BY <1>2 DEF Script, GetWorkflowUncached
<1>3. CASE job = "getCached"
  BY <1>3 DEF Script, GetWorkflowCached
<1>4. CASE job = "progress"
  BY <1>4 DEF Script, ProgressFields
<1>5. CASE job = "commit"
  BY <1>5 DEF Script, CommitConfig
<1>6. CASE job = "reload"
  BY <1>6 DEF Script, ReloadConfig
<1>7. CASE job = "transition"
  BY <1>7 DEF Script, TransitionItem
<1>8. CASE job = "prepare"
  BY <1>8 DEF Script, PrepareTree
<1>9. CASE job = "recreate"
  BY <1>9 DEF Script, RecreateTree
<1>10. CASE job = "forward"
  BY <1>10 DEF Script, TrackForward
<1>11. CASE job = "dropRun"
  BY <1>11 DEF Script, DropRunCommand
<1>12. CASE job = "tearDown"
  BY <1>12 DEF Script, TearDown
<1>13. CASE job = "edit"
  BY <1>13 DEF Script, EditDescription
<1> QED BY <1>1, <1>2, <1>3, <1>4, <1>5, <1>6, <1>7, <1>8, <1>9, <1>10, <1>11, <1>12, <1>13
           DEF AllJobs

(* What a job may hold grows with what it takes and shrinks with what it   *)
(* drops.                                                                  *)
LEMMA HoldsOn ==
    ASSUME NEW job \in AllJobs, NEW k \in 1 .. Len(Script(job))
    PROVE  /\ Script(job)[k] \in LockOps
           /\ \A l \in MayHold(job, k) : Script(job)[k] # D(l) => l \in MayHold(job, k + 1)
           /\ Script(job)[k][1] # "drop" => Script(job)[k][2] \in MayHold(job, k + 1)
<1>1. k \in Nat \ {0} /\ Script(job) \in Seq(LockOps) /\ Len(Script(job)) \in Nat
  BY ScriptsAreOps
<1>2. Script(job)[k] \in LockOps
  BY <1>1
<1>3. ASSUME NEW l \in MayHold(job, k), Script(job)[k] # D(l) PROVE l \in MayHold(job, k + 1)
  <2>1. PICK i \in 1 .. k - 1 :
            /\ Script(job)[i][1] # "drop" /\ Script(job)[i][2] = l
            /\ \A j \in i + 1 .. k - 1 : Script(job)[j] # D(l)
    BY DEF MayHold
  <2>2. i \in 1 .. (k + 1) - 1 /\ l \in Locks
    BY <1>1 DEF MayHold
  <2>3. \A j \in i + 1 .. (k + 1) - 1 : Script(job)[j] # D(l)
    <3> TAKE j \in i + 1 .. (k + 1) - 1
    <3>1. j = k \/ j \in i + 1 .. k - 1
      BY <1>1, <2>2
    <3> QED BY <3>1, <2>1, <1>3
  <2> QED BY <2>1, <2>2, <2>3 DEF MayHold
<1>4. ASSUME Script(job)[k][1] # "drop" PROVE Script(job)[k][2] \in MayHold(job, k + 1)
  <2>1. k \in 1 .. (k + 1) - 1 /\ k + 1 .. (k + 1) - 1 = {} /\ Script(job)[k][2] \in Locks
    BY <1>1, <1>2 DEF LockOps
  <2> QED BY <2>1, <1>4 DEF MayHold
<1> QED BY <1>2, <1>3, <1>4

LEMMA LkInitOK == LkInit => LkInv
<1> SUFFICES ASSUME LkInit PROVE LkInv
  OBVIOUS
<1>1. LkType
  BY DEF LkInit, LkType
<1>2. LkHeldInv /\ LkQueueInv
  BY DEF LkInit, LkHeldInv, LkQueueInv
<1> QED BY <1>1, <1>2 DEF LkInv

LEMMA BusyOps ==
    ASSUME LkInv, NEW t \in LkTasks, Busy(t)
    PROVE  /\ lkJob[t] \in AllJobs /\ lkPc[t] \in 1 .. Len(Script(lkJob[t]))
           /\ Op(t) \in LockOps /\ Op(t)[2] \in Locks
           /\ Op(t)[1] # "drop" => Op(t)[1] \in {"read", "write"}
<1>1. lkJob[t] \in AllJobs /\ lkPc[t] \in Nat \ {0} /\ lkPc[t] <= Len(Script(lkJob[t]))
  BY DEF LkInv, LkType, Busy
<1>2. Len(Script(lkJob[t])) \in Nat
  BY <1>1, ScriptsAreOps
<1>3. lkPc[t] \in 1 .. Len(Script(lkJob[t]))
  BY <1>1, <1>2
<1>4. Op(t) \in LockOps
  BY <1>1, <1>3, HoldsOn DEF Op
<1> QED BY <1>1, <1>3, <1>4 DEF LockOps

LEMMA WhoWaits ==
    ASSUME LkInv, NEW l \in Locks, NEW i \in DOMAIN lkQueue[l]
    PROVE  /\ lkQueue[l][i] \in Taking /\ lkQueue[l][i][2] \in LkTasks
           /\ Busy(lkQueue[l][i][2]) /\ Op(lkQueue[l][i][2]) = <<lkQueue[l][i][1], l>>
           /\ \A j \in DOMAIN lkQueue[l] : lkQueue[l][j][2] = lkQueue[l][i][2] => j = i
<1>1. lkQueue[l] \in Seq(Taking)
  BY DEF LkInv, LkType
<1>2. lkQueue[l][i] \in Taking
  BY <1>1
<1>3. lkQueue[l][i][2] \in LkTasks
  BY <1>2 DEF Taking
<1> QED BY <1>2, <1>3 DEF LkInv, LkQueueInv

LEMMA LkBegins == ASSUME LkInv, NEW t \in LkTasks, Begin(t) PROVE LkInv'
<1>0. PICK job \in LkJobs : lkJob' = [lkJob EXCEPT ![t] = job]
  BY DEF Begin
<1>1. job \in AllJobs /\ job # "idle" /\ lkJob[t] = "idle" /\ UNCHANGED <<lkPc, lkHeld, lkQueue>>
  BY RequestLocksAssumption DEF Begin, AllJobs
<1>2. LkType'
  BY <1>0, <1>1 DEF LkInv, LkType
<1>3. LkHeldInv'
  <2> SUFFICES ASSUME NEW u \in LkTasks PROVE
        /\ lkJob'[u] = "idle" => lkPc'[u] = 1 /\ lkHeld'[u] = {}
        /\ lkJob'[u] # "idle" =>
              lkPc'[u] <= Len(Script(lkJob'[u])) + 1 /\ \A h \in lkHeld'[u] : h[2] \in MayHold(lkJob'[u], lkPc'[u])
    BY DEF LkHeldInv
  <2>1. CASE u = t
    <3>1. lkJob'[u] = job /\ lkPc'[u] = 1 /\ lkHeld'[u] = {}
      BY <2>1, <1>0, <1>1 DEF LkInv, LkType, LkHeldInv
    <3>2. Len(Script(job)) \in Nat
      BY <1>1, ScriptsAreOps
    <3> QED BY <3>1, <3>2, <1>1
  <2>2. CASE u # t
    <3>1. lkJob'[u] = lkJob[u] /\ lkPc'[u] = lkPc[u] /\ lkHeld'[u] = lkHeld[u]
      BY <2>2, <1>0, <1>1 DEF LkInv, LkType
    <3> QED BY <3>1 DEF LkInv, LkHeldInv
  <2> QED BY <2>1, <2>2
<1>4. LkQueueInv'
  <2> SUFFICES ASSUME NEW l \in Locks, NEW i \in DOMAIN lkQueue[l] PROVE
        /\ Busy(lkQueue[l][i][2])' /\ Op(lkQueue[l][i][2])' = <<lkQueue[l][i][1], l>>
        /\ \A j \in DOMAIN lkQueue[l] : lkQueue[l][j][2] = lkQueue[l][i][2] => j = i
    BY <1>1 DEF LkQueueInv
  <2> DEFINE u == lkQueue[l][i][2]
  <2>1. /\ Busy(u) /\ Op(u) = <<lkQueue[l][i][1], l>>
        /\ \A j \in DOMAIN lkQueue[l] : lkQueue[l][j][2] = u => j = i
        /\ u \in LkTasks
    BY WhoWaits
  <2>2. u # t
    BY <2>1, <1>1 DEF Busy
  <2>3. lkJob'[u] = lkJob[u] /\ lkPc'[u] = lkPc[u]
    BY <2>1, <2>2, <1>0, <1>1 DEF LkInv, LkType
  <2> QED BY <2>1, <2>3, <1>1 DEF Busy, Op
<1> QED BY <1>2, <1>3, <1>4 DEF LkInv

(* A task that gets the lock it asked for, or drops one, goes on; the      *)
(* others stay where they are.                                             *)
LEMMA MovesOn ==
    ASSUME LkInv, NEW t \in LkTasks, Busy(t), UNCHANGED lkJob,
           lkPc' = [lkPc EXCEPT ![t] = @ + 1],
           NEW H \in SUBSET ({"read", "write"} \X Locks),
           lkHeld' = [lkHeld EXCEPT ![t] = H],
           \A h \in H : \/ h \in lkHeld[t] /\ Op(t) # D(h[2])
                        \/ Op(t)[1] # "drop" /\ h[2] = Op(t)[2]
    PROVE  /\ lkPc' \in [LkTasks -> Nat \ {0}]
           /\ lkHeld' \in [LkTasks -> SUBSET ({"read", "write"} \X Locks)]
           /\ LkHeldInv'
           /\ \A u \in LkTasks : u # t /\ Busy(u) => Busy(u)' /\ Op(u)' = Op(u)
<1>1. lkPc' \in [LkTasks -> Nat \ {0}] /\ lkHeld' \in [LkTasks -> SUBSET ({"read", "write"} \X Locks)]
  BY DEF LkInv, LkType
<1>2. /\ lkJob[t] \in AllJobs /\ lkPc[t] \in 1 .. Len(Script(lkJob[t])) /\ lkJob[t] # "idle"
      /\ Len(Script(lkJob[t])) \in Nat
  BY BusyOps, ScriptsAreOps DEF Busy
<1>3. LkHeldInv'
  <2> SUFFICES ASSUME NEW u \in LkTasks PROVE
        /\ lkJob'[u] = "idle" => lkPc'[u] = 1 /\ lkHeld'[u] = {}
        /\ lkJob'[u] # "idle" =>
              lkPc'[u] <= Len(Script(lkJob'[u])) + 1 /\ \A h \in lkHeld'[u] : h[2] \in MayHold(lkJob'[u], lkPc'[u])
    BY DEF LkHeldInv
  <2>1. CASE u = t
    <3>1. lkJob'[u] = lkJob[t] /\ lkPc'[u] = lkPc[t] + 1 /\ lkHeld'[u] = H
      BY <2>1 DEF LkInv, LkType
    <3>2. ASSUME NEW h \in H PROVE h[2] \in MayHold(lkJob[t], lkPc[t] + 1)
      <4>1. CASE h \in lkHeld[t] /\ Op(t) # D(h[2])
        <5>1. h[2] \in MayHold(lkJob[t], lkPc[t])
          BY <4>1, <1>2 DEF LkInv, LkHeldInv
        <5> QED BY <5>1, <4>1, <1>2, HoldsOn DEF Op
      <4>2. CASE Op(t)[1] # "drop" /\ h[2] = Op(t)[2]
        BY <4>2, <1>2, HoldsOn DEF Op
      <4> QED BY <4>1, <4>2
    <3> QED BY <3>1, <3>2, <1>2
  <2>2. CASE u # t
    <3>1. lkJob'[u] = lkJob[u] /\ lkPc'[u] = lkPc[u] /\ lkHeld'[u] = lkHeld[u]
      BY <2>2 DEF LkInv, LkType
    <3> QED BY <3>1 DEF LkInv, LkHeldInv
  <2> QED BY <2>1, <2>2
<1>4. ASSUME NEW u \in LkTasks, u # t, Busy(u) PROVE Busy(u)' /\ Op(u)' = Op(u)
  <2>1. lkJob'[u] = lkJob[u] /\ lkPc'[u] = lkPc[u]
    BY <1>4 DEF LkInv, LkType
  <2> QED BY <2>1, <1>4 DEF Busy, Op
<1> QED BY <1>1, <1>3, <1>4

LEMMA LkAsks == ASSUME LkInv, NEW t \in LkTasks, Ask(t) PROVE LkInv'
<1> DEFINE l == Op(t)[2]
           mode == Op(t)[1]
<1>1. /\ Busy(t) /\ mode # "drop" /\ ~Queued(t, l) /\ UNCHANGED lkJob
      /\ l \in Locks /\ mode \in {"read", "write"} /\ Op(t) = <<mode, l>>
  <2>1. Busy(t) /\ mode # "drop" /\ ~Queued(t, l) /\ UNCHANGED lkJob
    BY DEF Ask
  <2> QED BY <2>1, BusyOps DEF LockOps
<1>2. CASE Take(t, l, mode) /\ UNCHANGED lkQueue
  <2> DEFINE H == lkHeld[t] \cup {<<mode, l>>}
  <2>1. H \in SUBSET ({"read", "write"} \X Locks)
    BY <1>1 DEF LkInv, LkType
  <2>2. lkHeld' = [lkHeld EXCEPT ![t] = H] /\ lkPc' = [lkPc EXCEPT ![t] = @ + 1]
    BY <1>2 DEF Take
  <2>3. \A h \in H : \/ h \in lkHeld[t] /\ Op(t) # D(h[2])
                     \/ Op(t)[1] # "drop" /\ h[2] = Op(t)[2]
    BY <1>1 DEF D
  <2> HIDE DEF H
  <2>4. /\ lkPc' \in [LkTasks -> Nat \ {0}]
        /\ lkHeld' \in [LkTasks -> SUBSET ({"read", "write"} \X Locks)]
        /\ LkHeldInv'
        /\ \A u \in LkTasks : u # t /\ Busy(u) => Busy(u)' /\ Op(u)' = Op(u)
    BY <1>1, <2>1, <2>2, <2>3, MovesOn
  <2>5. LkQueueInv'
    <3> SUFFICES ASSUME NEW m \in Locks, NEW i \in DOMAIN lkQueue[m] PROVE
          /\ Busy(lkQueue[m][i][2])' /\ Op(lkQueue[m][i][2])' = <<lkQueue[m][i][1], m>>
          /\ \A j \in DOMAIN lkQueue[m] : lkQueue[m][j][2] = lkQueue[m][i][2] => j = i
      BY <1>2 DEF LkQueueInv
    <3>1. /\ Busy(lkQueue[m][i][2]) /\ Op(lkQueue[m][i][2]) = <<lkQueue[m][i][1], m>>
          /\ \A j \in DOMAIN lkQueue[m] : lkQueue[m][j][2] = lkQueue[m][i][2] => j = i
          /\ lkQueue[m][i][2] \in LkTasks
      BY WhoWaits
    <3>2. lkQueue[m][i][2] # t
      BY <3>1, <1>1 DEF Queued
    <3> QED BY <3>1, <3>2, <2>4, <1>2
  <2> QED BY <2>4, <2>5, <1>1, <1>2 DEF LkInv, LkType
<1>3. CASE lkQueue' = [lkQueue EXCEPT ![l] = Append(@, <<mode, t>>)] /\ UNCHANGED <<lkHeld, lkPc>>
  <2>1. <<mode, t>> \in Taking /\ lkQueue[l] \in Seq(Taking)
    BY <1>1 DEF Taking, LkInv, LkType
  <2>2. /\ lkQueue'[l] = Append(lkQueue[l], <<mode, t>>) /\ lkQueue'[l] \in Seq(Taking)
        /\ \A m \in Locks : m # l => lkQueue'[m] = lkQueue[m]
        /\ lkQueue' \in [Locks -> Seq(Taking)]
    BY <1>1, <1>3, <2>1 DEF LkInv, LkType
  <2>3. /\ DOMAIN lkQueue[l] = 1 .. Len(lkQueue[l]) /\ DOMAIN lkQueue'[l] = 1 .. Len(lkQueue[l]) + 1
        /\ Len(lkQueue[l]) \in Nat
        /\ \A i \in 1 .. Len(lkQueue[l]) : lkQueue'[l][i] = lkQueue[l][i]
        /\ lkQueue'[l][Len(lkQueue[l]) + 1] = <<mode, t>>
    BY <2>1, <2>2
  <2>4. \A u : Busy(u)' = Busy(u) /\ Op(u)' = Op(u)
    BY <1>1, <1>3 DEF Busy, Op
  <2>5. LkHeldInv'
    BY <1>1, <1>3 DEF LkInv, LkHeldInv
  <2>6. LkQueueInv'
    <3> SUFFICES ASSUME NEW m \in Locks, NEW i \in DOMAIN lkQueue'[m] PROVE
          /\ Busy(lkQueue'[m][i][2]) /\ Op(lkQueue'[m][i][2]) = <<lkQueue'[m][i][1], m>>
          /\ \A j \in DOMAIN lkQueue'[m] : lkQueue'[m][j][2] = lkQueue'[m][i][2] => j = i
      BY <2>4 DEF LkQueueInv
    <3>1. CASE m # l
      BY <3>1, <2>2, WhoWaits
    <3>2. CASE m = l
      <4> DEFINE q == lkQueue[l]
                 r == lkQueue'[l]
                 n == Len(q)
      <4>1. /\ n \in Nat /\ i \in 1 .. n + 1 /\ DOMAIN r = 1 .. n + 1
            /\ \A j \in 1 .. n : r[j] = q[j]
            /\ r[n + 1] = <<mode, t>>
        BY <3>2, <2>3
      <4>2. ASSUME NEW j \in 1 .. n
            PROVE  /\ q[j][2] # t /\ Busy(q[j][2]) /\ Op(q[j][2]) = <<q[j][1], l>>
                   /\ \A k \in 1 .. n : q[k][2] = q[j][2] => k = j
        <5>1. j \in DOMAIN lkQueue[l]
          BY <4>2, <2>3
        <5> QED BY <5>1, <1>1, <2>3, WhoWaits DEF Queued
      <4> HIDE DEF q, r, n
      <4>3. /\ Busy(r[i][2]) /\ Op(r[i][2]) = <<r[i][1], l>>
            /\ \A j \in 1 .. n + 1 : r[j][2] = r[i][2] => j = i
        <5>1. \A j \in 1 .. n + 1 : j = n + 1 \/ j \in 1 .. n
          BY <4>1
        <5>2. r[n + 1][1] = mode /\ r[n + 1][2] = t
          BY <4>1
        <5>3. CASE i = n + 1
          BY <5>1, <5>2, <5>3, <4>1, <4>2, <1>1
        <5>4. CASE i \in 1 .. n
          BY <5>1, <5>2, <5>4, <4>1, <4>2
        <5> QED BY <5>1, <5>3, <5>4, <4>1
      <4> QED BY <4>1, <4>3, <3>2 DEF r
    <3> QED BY <3>1, <3>2
  <2> QED BY <2>2, <2>5, <2>6, <1>1, <1>3 DEF LkInv, LkType
<1> QED BY <1>2, <1>3 DEF Ask

LEMMA LkDrops == ASSUME LkInv, NEW t \in LkTasks, Drop(t) PROVE LkInv'
<1> DEFINE H == {h \in lkHeld[t] : h[2] # Op(t)[2]}
<1>1. /\ Busy(t) /\ Op(t)[1] = "drop" /\ UNCHANGED <<lkJob, lkQueue>>
      /\ lkHeld' = [lkHeld EXCEPT ![t] = H] /\ lkPc' = [lkPc EXCEPT ![t] = @ + 1]
  BY DEF Drop
<1>2. H \in SUBSET ({"read", "write"} \X Locks)
  BY DEF LkInv, LkType
<1>3. \A h \in H : h \in lkHeld[t] /\ Op(t) # D(h[2])
  BY DEF D
<1> HIDE DEF H
<1>4. /\ lkPc' \in [LkTasks -> Nat \ {0}]
      /\ lkHeld' \in [LkTasks -> SUBSET ({"read", "write"} \X Locks)]
      /\ LkHeldInv'
      /\ \A u \in LkTasks : u # t /\ Busy(u) => Busy(u)' /\ Op(u)' = Op(u)
  BY <1>1, <1>2, <1>3, MovesOn
<1>5. LkQueueInv'
  <2> SUFFICES ASSUME NEW m \in Locks, NEW i \in DOMAIN lkQueue[m] PROVE
        /\ Busy(lkQueue[m][i][2])' /\ Op(lkQueue[m][i][2])' = <<lkQueue[m][i][1], m>>
        /\ \A j \in DOMAIN lkQueue[m] : lkQueue[m][j][2] = lkQueue[m][i][2] => j = i
    BY <1>1 DEF LkQueueInv
  <2>1. /\ Busy(lkQueue[m][i][2]) /\ Op(lkQueue[m][i][2]) = <<lkQueue[m][i][1], m>>
        /\ \A j \in DOMAIN lkQueue[m] : lkQueue[m][j][2] = lkQueue[m][i][2] => j = i
        /\ lkQueue[m][i][2] \in LkTasks /\ lkQueue[m][i] \in Taking
    BY WhoWaits
  <2>2. lkQueue[m][i][2] # t
    BY <2>1, <1>1 DEF Taking
  <2> QED BY <2>1, <2>2, <1>1, <1>4
<1> QED BY <1>1, <1>4, <1>5 DEF LkInv, LkType

LEMMA LkEnds == ASSUME LkInv, NEW t \in LkTasks, End(t) PROVE LkInv'
<1>1. /\ \A l \in Locks : ~Queued(t, l)
      /\ lkJob' = [lkJob EXCEPT ![t] = "idle"] /\ lkPc' = [lkPc EXCEPT ![t] = 1]
      /\ lkHeld' = [lkHeld EXCEPT ![t] = {}] /\ UNCHANGED lkQueue
  BY DEF End
<1>2. LkType'
  BY <1>1 DEF LkInv, LkType
<1>3. \A u \in LkTasks : u # t => lkJob'[u] = lkJob[u] /\ lkPc'[u] = lkPc[u] /\ lkHeld'[u] = lkHeld[u]
  BY <1>1 DEF LkInv, LkType
<1>4. lkJob'[t] = "idle" /\ lkPc'[t] = 1 /\ lkHeld'[t] = {}
  BY <1>1 DEF LkInv, LkType
<1>5. LkHeldInv'
  BY <1>3, <1>4 DEF LkInv, LkHeldInv
<1>6. LkQueueInv'
  <2> SUFFICES ASSUME NEW m \in Locks, NEW i \in DOMAIN lkQueue[m] PROVE
        /\ Busy(lkQueue[m][i][2])' /\ Op(lkQueue[m][i][2])' = <<lkQueue[m][i][1], m>>
        /\ \A j \in DOMAIN lkQueue[m] : lkQueue[m][j][2] = lkQueue[m][i][2] => j = i
    BY <1>1 DEF LkQueueInv
  <2>1. /\ Busy(lkQueue[m][i][2]) /\ Op(lkQueue[m][i][2]) = <<lkQueue[m][i][1], m>>
        /\ \A j \in DOMAIN lkQueue[m] : lkQueue[m][j][2] = lkQueue[m][i][2] => j = i
        /\ lkQueue[m][i][2] \in LkTasks
    BY WhoWaits
  <2>2. lkQueue[m][i][2] # t
    BY <2>1, <1>1 DEF Queued
  <2>3. lkJob'[lkQueue[m][i][2]] = lkJob[lkQueue[m][i][2]] /\ lkPc'[lkQueue[m][i][2]] = lkPc[lkQueue[m][i][2]]
    BY <2>1, <2>2, <1>3
  <2> QED BY <2>1, <2>3, <1>1 DEF Busy, Op
<1> QED BY <1>2, <1>5, <1>6 DEF LkInv

LEMMA LkGrants == ASSUME LkInv, NEW l \in Locks, Grant(l) PROVE LkInv'
<1> DEFINE q == lkQueue[l]
           t == q[1][2]
           H == lkHeld[t] \cup {<<q[1][1], l>>}
<1>1. q \in Seq(Taking) /\ q # << >> /\ Head(q) = q[1] /\ Len(q) \in Nat \ {0} /\ DOMAIN q = 1 .. Len(q)
  BY DEF LkInv, LkType, Grant
<1>2. /\ UNCHANGED lkJob /\ lkQueue' = [lkQueue EXCEPT ![l] = Tail(q)]
      /\ lkHeld' = [lkHeld EXCEPT ![t] = H] /\ lkPc' = [lkPc EXCEPT ![t] = @ + 1]
  <2>1. Take(q[1][2], l, q[1][1]) /\ UNCHANGED lkJob /\ lkQueue' = [lkQueue EXCEPT ![l] = Tail(q)]
    BY <1>1 DEF Grant
  <2> QED BY <2>1 DEF Take
<1>3. /\ t \in LkTasks /\ Busy(t) /\ Op(t) = <<q[1][1], l>> /\ q[1] \in Taking
      /\ \A j \in 1 .. Len(q) : q[j][2] = t => j = 1
  <2>1. 1 \in DOMAIN lkQueue[l]
    BY <1>1
  <2> QED BY <2>1, <1>1, WhoWaits
<1>4. H \in SUBSET ({"read", "write"} \X Locks)
  BY <1>3 DEF LkInv, LkType, Taking
<1>5. \A h \in H : \/ h \in lkHeld[t] /\ Op(t) # D(h[2])
                   \/ Op(t)[1] # "drop" /\ h[2] = Op(t)[2]
  BY <1>3 DEF D, Taking
<1>6. /\ Tail(q) \in Seq(Taking) /\ DOMAIN Tail(q) = 1 .. Len(q) - 1
      /\ \A i \in 1 .. Len(q) - 1 : Tail(q)[i] = q[i + 1]
  BY <1>1
<1> HIDE DEF H, t
<1>7. /\ lkPc' \in [LkTasks -> Nat \ {0}]
      /\ lkHeld' \in [LkTasks -> SUBSET ({"read", "write"} \X Locks)]
      /\ LkHeldInv'
      /\ \A u \in LkTasks : u # t /\ Busy(u) => Busy(u)' /\ Op(u)' = Op(u)
  BY <1>2, <1>3, <1>4, <1>5, MovesOn
<1>8. lkQueue' \in [Locks -> Seq(Taking)] /\ lkQueue'[l] = Tail(q) /\ \A m \in Locks : m # l => lkQueue'[m] = lkQueue[m]
  BY <1>2, <1>6 DEF LkInv, LkType
<1>9. LkQueueInv'
  <2> SUFFICES ASSUME NEW m \in Locks, NEW i \in DOMAIN lkQueue'[m] PROVE
        /\ Busy(lkQueue[m][i][2])' /\ Op(lkQueue[m][i][2])' = <<lkQueue'[m][i][1], m>>
        /\ \A j \in DOMAIN lkQueue'[m] : lkQueue'[m][j][2] = lkQueue'[m][i][2] => j = i
    BY DEF LkQueueInv
  <2>1. CASE m # l
    <3>1. /\ Busy(lkQueue[m][i][2]) /\ Op(lkQueue[m][i][2]) = <<lkQueue[m][i][1], m>>
          /\ \A j \in DOMAIN lkQueue[m] : lkQueue[m][j][2] = lkQueue[m][i][2] => j = i
          /\ lkQueue[m][i][2] \in LkTasks
      BY <2>1, <1>8, WhoWaits
    <3>2. lkQueue[m][i][2] # t
      BY <3>1, <2>1, <1>3
    <3> QED BY <3>1, <3>2, <2>1, <1>7, <1>8
  <2>2. CASE m = l
    <3>1. i \in 1 .. Len(q) - 1 /\ lkQueue'[m][i] = q[i + 1] /\ i + 1 \in 1 .. Len(q) /\ i + 1 # 1
      BY <2>2, <1>1, <1>6, <1>8
    <3>2. /\ Busy(q[i + 1][2]) /\ Op(q[i + 1][2]) = <<q[i + 1][1], l>>
          /\ \A j \in 1 .. Len(q) : q[j][2] = q[i + 1][2] => j = i + 1
          /\ q[i + 1][2] \in LkTasks
      BY <3>1, <1>1, WhoWaits
    <3>3. q[i + 1][2] # t
      BY <3>1, <1>3
    <3>4. ASSUME NEW j \in DOMAIN lkQueue'[m], lkQueue'[m][j][2] = lkQueue'[m][i][2] PROVE j = i
      <4>1. j \in 1 .. Len(q) - 1 /\ lkQueue'[m][j] = q[j + 1] /\ j + 1 \in 1 .. Len(q)
        BY <3>4, <2>2, <1>1, <1>6, <1>8
      <4>2. j + 1 = i + 1
        BY <4>1, <3>1, <3>2, <3>4
      <4> QED BY <4>1, <4>2, <3>1, <1>1
    <3> QED BY <3>1, <3>2, <3>3, <3>4, <2>2, <1>7
  <2> QED BY <2>1, <2>2
<1> QED BY <1>2, <1>7, <1>8, <1>9 DEF LkInv, LkType

LEMMA LkStep == LkInv /\ [LkNext]_lkVars => LkInv'
<1> SUFFICES ASSUME LkInv, [LkNext]_lkVars PROVE LkInv'
  OBVIOUS
<1>1. CASE \E t \in LkTasks : Begin(t) \/ Ask(t) \/ Drop(t) \/ End(t)
  BY <1>1, LkBegins, LkAsks, LkDrops, LkEnds
<1>2. CASE \E l \in Locks : Grant(l)
  BY <1>2, LkGrants
<1>3. CASE UNCHANGED lkVars
  BY <1>3 DEF lkVars, LkInv, LkType, LkHeldInv, LkQueueInv, Busy, Op
<1> QED BY <1>1, <1>2, <1>3 DEF LkNext

----------------------------------------------------------------------------
(* A nonempty set of naturals has a least element.                         *)
Smaller == {p \in Nat \X Nat : p[1] < p[2]}
LEMMA FirstOf ==
    ASSUME NEW S \in SUBSET Nat, S # {}
    PROVE  \E m \in S : \A n \in S : m <= n
<1>1. IsWellFoundedOn(Smaller, Nat)
  BY NatLessThanWellFounded, Zenon DEF OpToRel, Smaller
<1>2. PICK x \in S : \A y \in S : ~(<<y, x>> \in Smaller)
  <2>1. S \subseteq Nat
    OBVIOUS
  <2> QED BY <1>1, <2>1, WFMin, Zenon
<1>3. \A n \in S : n \in Nat /\ x \in Nat /\ ~(n < x)
  BY <1>2 DEF Smaller
<1> QED BY <1>3

(* Of the waiters, the one whose lock comes last in the order and who is   *)
(* the first of them in its queue waits for none of the others.            *)
LEMMA SomebodyGoesOn ==
    ASSUME LkInv, NEW S \in SUBSET Waiters, S # {}
    PROVE  \E t \in S : \A u \in S : ~WaitsFor(t, u)
<1> DEFINE left == {7 - Rank(Op(t)[2]) : t \in S}
<1>1. ASSUME NEW t \in S
      PROVE  /\ t \in LkTasks /\ Busy(t) /\ Op(t)[1] # "drop" /\ Op(t)[2] \in Locks /\ Rank(Op(t)[2]) \in 1 .. 7
             /\ Queued(t, Op(t)[2]) /\ \A l \in Locks : Queued(t, l) => l = Op(t)[2]
  <2>1. t \in LkTasks /\ Busy(t) /\ \E l \in Locks : Queued(t, l)
    BY DEF Waiters
  <2>2. ASSUME NEW l \in Locks, Queued(t, l) PROVE Op(t)[1] # "drop" /\ l = Op(t)[2]
    <3>1. PICK i \in DOMAIN lkQueue[l] : lkQueue[l][i][2] = t
      BY <2>2 DEF Queued
    <3>2. Op(t) = <<lkQueue[l][i][1], l>> /\ lkQueue[l][i] \in Taking
      BY <3>1, WhoWaits
    <3> QED BY <3>2 DEF Taking
  <2>3. \A l \in Locks : Rank(l) \in 1 .. 7
    BY DEF Locks, Rank
  <2> QED BY <2>1, <2>2, <2>3
<1>2. left \in SUBSET Nat /\ left # {}
  BY <1>1
<1>3. PICK t0 \in S : \A u \in S : 7 - Rank(Op(t0)[2]) <= 7 - Rank(Op(u)[2])
  <2>1. PICK m \in left : \A n \in left : m <= n
    BY <1>2, FirstOf
  <2> QED BY <2>1
<1> DEFINE l == Op(t0)[2]
<1>4. l \in Locks /\ \A u \in S : ~(Rank(l) < Rank(Op(u)[2]))
  BY <1>1, <1>3
<1> DEFINE places == {i \in DOMAIN lkQueue[l] : lkQueue[l][i][2] \in S}
<1>5. DOMAIN lkQueue[l] = 1 .. Len(lkQueue[l]) /\ Len(lkQueue[l]) \in Nat
  BY <1>4 DEF LkInv, LkType
<1>6. places \in SUBSET Nat /\ places # {}
  BY <1>1, <1>5 DEF Queued
<1>7. PICK i \in places : \A j \in places : i <= j
  BY <1>6, FirstOf
<1> DEFINE t == lkQueue[l][i][2]
<1>8. t \in S /\ Op(t)[2] = l /\ i \in DOMAIN lkQueue[l] /\ i \in Nat
      /\ \A j \in DOMAIN lkQueue[l] : lkQueue[l][j][2] = t => j = i
  BY <1>4, <1>6, <1>7, WhoWaits
<1>9. ASSUME NEW u \in S, WaitsFor(t, u) PROVE FALSE
  <2>1. Blocks(u, l, Op(t)[1]) \/ Ahead(u, t, l)
    BY <1>1, <1>8, <1>9 DEF WaitsFor
  <2>2. CASE Blocks(u, l, Op(t)[1])
    <3>1. PICK h \in lkHeld[u] : h[2] = l
      BY <2>2 DEF Blocks
    <3>2. lkJob[u] \in AllJobs /\ lkPc[u] \in 1 .. Len(Script(lkJob[u])) /\ lkJob[u] # "idle" /\ Op(u)[1] # "drop"
      BY <1>1, BusyOps DEF Busy
    <3>3. l \in MayHold(lkJob[u], lkPc[u])
      BY <1>1, <3>1, <3>2 DEF LkInv, LkHeldInv
    <3>4. Rank(l) < Rank(Op(u)[2])
      BY <3>2, <3>3, ScriptsClimb DEF Op
    <3> QED BY <3>4, <1>4
  <2>3. CASE Ahead(u, t, l)
    <3>1. PICK a \in DOMAIN lkQueue[l], b \in DOMAIN lkQueue[l] :
              a < b /\ lkQueue[l][a][2] = u /\ lkQueue[l][b][2] = t
      BY <2>3 DEF Ahead
    <3>2. b = i /\ a \in places /\ a \in Nat
      BY <3>1, <1>8, <1>6
    <3> QED BY <3>1, <3>2, <1>7, <1>8
  <2> QED BY <2>1, <2>2, <2>3
<1> QED BY <1>8, <1>9

(* No handlers and tasks wait for each other in a circle, not even through *)
(* a writer that is queued between two readers, for any number of tasks    *)
(* and any mix of jobs: every job takes its locks in one order.            *)
THEOREM NobodyWaitsInACircle == LkSpec => []NoWaitCycle
<1>1. LkInv => NoWaitCycle
  BY SomebodyGoesOn DEF NoWaitCycle
<1> QED BY <1>1, LkInitOK, LkStep, PTL DEF LkSpec

(* The server is safe: no line out of order or lost silently, no mark that *)
(* was not earned, no circle of waits, however the batchers, the poller and *)
(* the handlers are interleaved.                                           *)
THEOREM ServerIsSafe == ServerSpec => []ServerSafe
BY LogIsSafe, MarksAreEarned, NobodyWaitsInACircle, PTL DEF ServerSpec, ServerSafe

=============================================================================
