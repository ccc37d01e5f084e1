------------------------ MODULE WorkflowEngineProofs ------------------------
(***************************************************************************)
(* Theorems about WorkflowEngine for every value of its constants, and     *)
(* their proofs.  The order is: types of the helpers; TypeCore is          *)
(* preserved by requests, operator steps and drivers; how the state of an  *)
(* entry moves (Moves); who holds a permit (Undisturbed, DriverHolders);   *)
(* the inductive invariant IInv and the theorems that follow from it; who  *)
(* works for an item that is shown in progress (Driven).                   *)
(***************************************************************************)
EXTENDS WorkflowEngine, FiniteSetTheorems, TLAPS

Tasks == [Drivers -> Task \cup {IdleDriver}]

TypeCore ==
    /\ wf \in [Tickets -> Entry \cup {NoEntry}]
    /\ drv \in Tasks
    /\ req \in [Reqs -> Request \cup {IdleReq}]
    /\ permits \in Nat
    /\ prep \subseteq Tickets \X Stages
    /\ suppress \in BOOLEAN
    /\ killed \subseteq Tickets

BootIndex ==
    \A d \in Drivers :
        drv[d].pc \in {"bootState", "bootCheck"} => drv[d].n \in 1..Len(BootStates)

(* The state wrapped by Paused is an active one, so that a resume finds a  *)
(* state to restore.                                                       *)
PausedSourceActive ==
    \A t \in Tickets :
        wf[t].live /\ IsPaused(wf[t].st) => wf[t].st.src \in ActiveKinds

(* A driver that is not spawned yet is at its first step and belongs to a  *)
(* request that starts the definitions of the same ticket.                 *)
Reservation(d) ==
    /\ drv[d].pc \in {"boot", "image"} /\ drv[d].res = "none"
    /\ \E r \in Reqs : /\ drv[d].by = {r}
                       /\ req[r].op = "start" /\ req[r].tk = drv[d].tk

Reservations == \A d \in Drivers : Live(d) /\ ~Spawned(d) => Reservation(d)

LEMMA EntryWhenLive ==
    ASSUME TypeCore, NEW t \in Tickets, wf[t].live
    PROVE  wf[t] \in Entry
BY DEF TypeCore, NoEntry

LEMMA TaskWhenLive ==
    ASSUME TypeCore, NEW d \in Drivers, drv[d].pc # "idle"
    PROVE  drv[d] \in Task
BY DEF TypeCore, Tasks, IdleDriver

LEMMA RequestWhenBusy ==
    ASSUME TypeCore, NEW r \in Reqs, req[r].op # "idle"
    PROVE  req[r] \in Request
BY DEF TypeCore, IdleReq

LEMMA PlainType ==
    ASSUME NEW k \in Kinds PROVE Plain(k) \in WorkflowState
BY DEF Plain, WorkflowState

LEMMA WithStateType ==
    ASSUME NEW e \in Entry, NEW s \in WorkflowState
    PROVE  WithState(e, s) \in Entry
BY DEF WithState, Entry

LEMMA WithRunType ==
    ASSUME NEW e \in Entry, NEW d \in Defs, NEW x \in RunStates
    PROVE  WithRun(e, d, x) \in Entry
BY DEF WithRun, Entry

LEMMA NewEntryType == NewEntry \in Entry
BY DEF NewEntry, Entry, Plain, WorkflowState, Kinds, ActiveKinds, RunStates

LEMMA NewTaskType ==
    ASSUME NEW r \in Reqs, NEW t \in Tickets, NEW d \in Defs,
           NEW cx \in BOOLEAN, NEW w \in BOOLEAN
    PROVE  NewTask(r, t, d, cx, w) \in Task
BY DEF NewTask, Task, TaskPcs, Results

LEMMA MarkTypes ==
    ASSUME NEW D \in Tasks, NEW t \in Tickets
    PROVE  /\ CancelCurrent(D, t) \in Tasks
           /\ Detach(D, t) \in Tasks
           /\ Orphan(D, t) \in Tasks
           /\ Reap(D, t) \in Tasks
<1>1. CancelCurrent(D, t) \in Tasks
  BY DEF CancelCurrent, Tasks, Task, IdleDriver
<1>2. Detach(D, t) \in Tasks
  BY DEF Detach, Tasks, Task, IdleDriver
<1>3. Orphan(D, t) \in Tasks
  BY DEF Orphan, Tasks, Task, IdleDriver
<1>4. Reap(D, t) \in Tasks
  BY DEF Reap, Tasks, Task, IdleDriver
<1> QED BY <1>1, <1>2, <1>3, <1>4

-----------------------------------------------------------------------------
Entries == [Tickets -> Entry \cup {NoEntry}]

LEMMA PutType ==
    ASSUME TypeCore, NEW t \in Tickets, NEW e \in Entry \cup {NoEntry},
           Put(t, e)
    PROVE  wf' \in Entries
BY DEF TypeCore, Put, Entries

LEMMA PutIfLiveType ==
    ASSUME TypeCore, NEW t \in Tickets, NEW e,
           wf[t].live => e \in Entry, PutIfLive(t, e)
    PROVE  wf' \in Entries
BY DEF TypeCore, PutIfLive, Entries

LEMMA OrphanPrepType ==
    ASSUME TypeCore, NEW t \in Tickets
    PROVE  OrphanPrep(t) \subseteq Tickets \X Stages
BY DEF TypeCore, OrphanPrep, Stages

LEMMA GotoType ==
    ASSUME TypeCore, NEW d \in Drivers, drv[d] \in Task,
           NEW pc \in TaskPcs, Goto(d, pc)
    PROVE  drv' \in Tasks
BY DEF TypeCore, Goto, Tasks, Task

LEMMA StepType ==
    ASSUME TypeCore, NEW d \in Drivers, drv[d] \in Task,
           NEW pc \in TaskPcs, NEW n \in Nat, Step(d, pc, n)
    PROVE  drv' \in Tasks
BY DEF TypeCore, Step, Tasks, Task

LEMMA FinishType ==
    ASSUME TypeCore, NEW d \in Drivers, drv[d] \in Task,
           NEW x \in Results, Finish(d, x)
    PROVE  drv' \in Tasks
<1>1. "reap" \in TaskPcs BY DEF TaskPcs
<1> QED BY <1>1 DEF TypeCore, Finish, Tasks, Task

LEMMA ExitType ==
    ASSUME TypeCore, NEW d \in Drivers, Exit(d)
    PROVE  drv' \in Tasks
BY DEF TypeCore, Exit, Tasks

(* The type invariant is preserved by every step of a request.             *)
LEMMA RequestType ==
    ASSUME TypeCore, NEW r \in Reqs, RequestNext(r)
    PROVE  TypeCore'
<1> USE EngineAssumption DEF EngineAssumption
<1>1. CASE Insert(r)
  <2>1. req[r] \in Request BY <1>1, RequestWhenBusy DEF Insert
  <2>2. req[r].tk \in Tickets BY <2>1 DEF Request
  <2>3. wf' \in Entries BY <1>1, <2>2, NewEntryType, PutType DEF Insert
  <2>4. drv' \in Tasks BY <1>1, <2>2, MarkTypes DEF Insert, TypeCore
  <2>5. req' \in [Reqs -> Request \cup {IdleReq}]
    BY <1>1, <2>1 DEF Insert, TypeCore, Request, Reply
  <2>6. prep' \subseteq Tickets \X Stages
    BY <1>1, <2>2, OrphanPrepType DEF Insert, Stages
  <2> QED BY <1>1, <2>3, <2>4, <2>5, <2>6 DEF Insert, TypeCore, Entries
<1>2. CASE InsertFails(r)
  BY <1>2 DEF InsertFails, TypeCore, Reply
<1>3. CASE StartCommit(r)
  <2>1. req[r] \in Request BY <1>3, RequestWhenBusy DEF StartCommit, Starting
  <2>2. /\ req[r].tk \in Tickets /\ req[r].df \in Defs
        /\ req[r].todo \subseteq Defs /\ req[r].wt \in BOOLEAN
    BY <1>3, <2>1 DEF Request, StartCommit
  <2>3. req' \in [Reqs -> Request \cup {IdleReq}]
    <3>1. RequestOf("start", req[r].tk, req[r].todo \ {req[r].df}) \in Request
      BY <2>2 DEF Request, RequestOf
    <3>2. req' = [req EXCEPT ![r] = IdleReq]
          \/ req' = [req EXCEPT ![r] =
                       RequestOf("start", req[r].tk, req[r].todo \ {req[r].df})]
      BY <1>3 DEF StartCommit
    <3> QED BY <3>1, <3>2 DEF TypeCore
  <2>4. CASE ~wf[req[r].tk].live
    BY <1>3, <2>3, <2>4 DEF StartCommit, TypeCore
  <2>5. CASE wf[req[r].tk].live
    <3> DEFINE t == req[r].tk
               w == WithRun(wf[t], req[r].df, "Running")
               e == [w EXCEPT !.cx = FALSE, !.started = TRUE]
    <3>1. wf[t] \in Entry BY <2>2, <2>5, EntryWhenLive
    <3>2. w \in Entry BY <3>1, <2>2, WithRunType DEF RunStates
    <3>3. e \in Entry BY <3>2 DEF Entry
    <3>4. PICK k \in Drivers :
             /\ Put(t, e)
             /\ drv' = [Detach(drv, t) EXCEPT
                           ![k] = NewTask(r, t, req[r].df, FALSE, req[r].wt)]
      BY <1>3, <2>5 DEF StartCommit
    <3>5. wf' \in Entries BY <3>3, <3>4, <2>2, PutType
    <3>6. drv' \in Tasks
      <4>1. Detach(drv, t) \in Tasks BY <2>2, MarkTypes DEF TypeCore
      <4>2. NewTask(r, t, req[r].df, FALSE, req[r].wt) \in Task
        BY <2>2, NewTaskType
      <4> HIDE DEF t
      <4> QED BY <3>4, <4>1, <4>2 DEF Tasks
    <3> QED BY <1>3, <2>3, <3>5, <3>6 DEF StartCommit, TypeCore, Entries
  <2> QED BY <2>4, <2>5
<1>4. CASE RetryRemove(r)
  <2>1. req[r].tk \in Tickets BY <1>4, RequestWhenBusy DEF RetryRemove, Request
  <2>2. wf' \in Entries BY <1>4, <2>1, PutType DEF RetryRemove
  <2>3. drv' \in Tasks BY <1>4, <2>1, MarkTypes DEF RetryRemove, TypeCore
  <2>4. req' \in [Reqs -> Request \cup {IdleReq}]
    BY <1>4, <2>1 DEF RetryRemove, TypeCore, Request, RequestOf
  <2>5. prep' \subseteq Tickets \X Stages
    BY <1>4, <2>1, OrphanPrepType DEF RetryRemove
  <2> QED BY <1>4, <2>2, <2>3, <2>4, <2>5 DEF RetryRemove, TypeCore, Entries
<1>5. CASE RemoveByKey(r)
  <2>1. req[r].tk \in Tickets BY <1>5, RequestWhenBusy DEF RemoveByKey, Request
  <2>2. wf' \in Entries BY <1>5, <2>1, PutType DEF RemoveByKey
  <2>3. drv' \in Tasks BY <1>5, <2>1, MarkTypes DEF RemoveByKey, TypeCore
  <2>4. prep' \subseteq Tickets \X Stages
    BY <1>5, <2>1, OrphanPrepType DEF RemoveByKey
  <2> QED BY <1>5, <2>2, <2>3, <2>4 DEF RemoveByKey, TypeCore, Entries, Reply
<1>6. CASE MarkDoneKeeps(r)
  <2>1. req[r].tk \in Tickets BY <1>6, RequestWhenBusy DEF MarkDoneKeeps, Request
  <2>2. PICK gone \in BOOLEAN :
          PutIfLive(req[r].tk, [wf[req[r].tk] EXCEPT !.wt = @ /\ ~gone])
    BY <1>6 DEF MarkDoneKeeps
  <2>3. wf[req[r].tk].live => [wf[req[r].tk] EXCEPT !.wt = @ /\ ~gone] \in Entry
    <3>1. CASE ~wf[req[r].tk].live BY <3>1
    <3>2. CASE wf[req[r].tk].live
      <4>1. wf[req[r].tk] \in Entry BY <2>1, <3>2, EntryWhenLive
      <4>2. (wf[req[r].tk].wt /\ ~gone) \in BOOLEAN OBVIOUS
      <4> QED BY <4>1, <4>2 DEF Entry
    <3> QED BY <3>1, <3>2
  <2>4. wf' \in Entries BY <2>1, <2>2, <2>3, PutIfLiveType
  <2> QED BY <1>6, <2>4 DEF MarkDoneKeeps, TypeCore, Entries, Reply
<1>7. ASSUME NEW d \in Defs, StartCheck(r, d) \/ StartRefused(r, d)
      PROVE  TypeCore'
  <2>1. req[r] \in Request
    BY <1>7, RequestWhenBusy DEF StartCheck, StartRefused, Starting
  <2>2. req[r].tk \in Tickets BY <2>1 DEF Request
  <2>3. CASE StartCheck(r, d)
    <3>1. wf[req[r].tk] \in Entry
      BY <2>2, <2>3, EntryWhenLive DEF StartCheck, MayStart
    <3>2. (wf[req[r].tk].boot /\ wf[req[r].tk].wt) \in BOOLEAN OBVIOUS
    <3>3. req' \in [Reqs -> Request \cup {IdleReq}]
      BY <2>1, <2>3, <3>2 DEF StartCheck, TypeCore, Request
    <3> QED BY <2>3, <3>3 DEF StartCheck, TypeCore
  <2>4. CASE StartRefused(r, d)
    <3>1. req' \in [Reqs -> Request \cup {IdleReq}]
      BY <2>1, <2>4 DEF StartRefused, TypeCore, Request
    <3> QED BY <2>4, <3>1 DEF StartRefused, TypeCore
  <2> QED BY <1>7, <2>3, <2>4
<1>8. ASSUME NEW k \in Drivers, Spawn(r, k) PROVE TypeCore'
  <2>1. drv[k] \in Task BY <1>8, TaskWhenLive DEF Spawn, Reserved, Live
  <2>2. drv' \in Tasks BY <1>8, <2>1 DEF Spawn, TypeCore, Tasks, Task
  <2> QED BY <1>8, <2>2 DEF Spawn, TypeCore
<1> QED
  BY <1>1, <1>2, <1>3, <1>4, <1>5, <1>6, <1>7, <1>8 DEF RequestNext

(* ... by a client that hangs up ...                                       *)
LEMMA DropType ==
    ASSUME TypeCore, NEW r \in Reqs, Drop(r)
    PROVE  TypeCore'
<1>1. req[r].tk \in Tickets BY RequestWhenBusy DEF Drop, Request
<1>2. wf' \in Entries
  <2>1. CASE req[r].op = "start" /\ wf[req[r].tk].live
    <3>1. wf[req[r].tk] \in Entry BY <1>1, <2>1, EntryWhenLive
    <3>2. [wf[req[r].tk] EXCEPT !.lost = RunningDefs(req[r].tk)] \in Entry
      BY <3>1 DEF Entry, RunningDefs
    <3> QED BY <1>1, <2>1, <3>2 DEF Drop, TypeCore, Entries
  <2> QED BY <2>1 DEF Drop, TypeCore, Entries
<1>3. drv' \in Tasks BY DEF Drop, TypeCore, Tasks
<1> QED BY <1>2, <1>3 DEF Drop, Reply, TypeCore, Entries

LEMMA ActiveIsKind == ActiveKinds \subseteq Kinds
BY DEF Kinds

(* ... by every request of the operator, by the shutdown and by the task   *)
(* that prepares a worktree; resume_workflow needs PausedSourceActive.     *)
LEMMA OperatorType ==
    ASSUME TypeCore, PausedSourceActive, NEW t \in Tickets, OperatorNext(t)
    PROVE  TypeCore'
<1> USE EngineAssumption DEF EngineAssumption
<1>1. CASE Pause(t)
  <2>1. wf[t] \in Entry BY <1>1, EntryWhenLive DEF Pause
  <2> DEFINE s == [k |-> "Paused", src |-> wf[t].st.k]
             e == [WithState(wf[t], s) EXCEPT !.cx = FALSE]
  <2>2. s \in WorkflowState BY <2>1 DEF Entry, WorkflowState, Kinds
  <2>3. WithState(wf[t], s) \in Entry BY <2>1, <2>2, WithStateType
  <2>4. e \in Entry BY <2>3 DEF Entry
  <2>5. wf' \in Entries BY <1>1, <2>4, PutType DEF Pause
  <2>6. drv' \in Tasks BY <1>1, MarkTypes DEF Pause, TypeCore
  <2> QED BY <1>1, <2>5, <2>6 DEF Pause, TypeCore, Entries
<1>2. ASSUME NEW r \in Reqs, Resume(r, t) PROVE TypeCore'
  <2> DEFINE respawn == RunningDefs(t) \cap TomlDefs
             new(f, k) == NewTask(r, t, CHOOSE d \in respawn : f[d] = k,
                                  wf[t].cx, wf[t].wt)
             w == WithState(wf[t], Plain(wf[t].st.src))
             e == [w EXCEPT !.lost = @ \ respawn]
  <2>1. wf[t] \in Entry BY <1>2, EntryWhenLive DEF Resume
  <2>2. wf[t].st.src \in Kinds
    BY <1>2, ActiveIsKind DEF Resume, PausedSourceActive
  <2>3. w \in Entry BY <2>1, <2>2, PlainType, WithStateType
  <2>4. e \in Entry BY <2>3 DEF Entry
  <2>5. wf' \in Entries BY <1>2, <2>4, PutType DEF Resume
  <2>6. PICK f \in [respawn -> {k \in Drivers : ~Live(k)}] :
          drv' = [k \in Drivers |->
               IF \E d \in respawn : f[d] = k THEN new(f, k) ELSE drv[k]]
    BY <1>2 DEF Resume
  <2>7. wf[t].cx \in BOOLEAN /\ wf[t].wt \in BOOLEAN BY <2>1 DEF Entry
  <2>8. ASSUME NEW k \in Drivers, \E d \in respawn : f[d] = k
        PROVE  new(f, k) \in Task
    <3> DEFINE c == CHOOSE d \in respawn : f[d] = k
    <3>1. c \in respawn BY <2>8
    <3>2. c \in Defs BY <3>1 DEF RunningDefs
    <3>3. NewTask(r, t, c, wf[t].cx, wf[t].wt) \in Task
      <4> HIDE DEF c
      <4> QED BY <3>2, <2>7, NewTaskType
    <3> QED BY <3>3
  <2>9. \A k \in Drivers : drv[k] \in Task \cup {IdleDriver}
    BY DEF TypeCore, Tasks
  <2> HIDE DEF new
  <2>10. drv' \in Tasks BY <2>6, <2>8, <2>9 DEF Tasks
  <2>11. req' \in [Reqs -> Request \cup {IdleReq}]
    <3>1. RequestOf("start", t, {}) \in Request BY DEF Request, RequestOf
    <3> QED BY <1>2, <3>1 DEF Resume, TypeCore
  <2> QED BY <1>2, <2>5, <2>10, <2>11 DEF Resume, TypeCore, Entries
<1>3. CASE Stop(t)
  <2>1. wf[t] \in Entry BY <1>3, EntryWhenLive DEF Stop
  <2> DEFINE e == [WithState(wf[t], Plain("Stopped")) EXCEPT !.cx = TRUE]
  <2>2. WithState(wf[t], Plain("Stopped")) \in Entry
    BY <2>1, WithStateType, PlainType DEF Kinds, TerminalKinds
  <2>3. e \in Entry BY <2>2 DEF Entry
  <2>4. wf' \in Entries BY <1>3, <2>3, PutType DEF Stop
  <2>5. drv' \in Tasks BY <1>3, MarkTypes DEF Stop, TypeCore
  <2> QED BY <1>3, <2>4, <2>5 DEF Stop, TypeCore, Entries
<1>4. CASE InterruptReap(t)
  <2>1. drv' \in Tasks BY <1>4, MarkTypes DEF InterruptReap, TypeCore
  <2> QED BY <1>4, <2>1 DEF InterruptReap, TypeCore
<1>5. CASE InterruptCancel(t)
  <2>1. wf[t] \in Entry BY <1>5, EntryWhenLive DEF InterruptCancel
  <2>2. [wf[t] EXCEPT !.cx = TRUE] \in Entry BY <2>1 DEF Entry
  <2>3. wf' \in Entries BY <1>5, <2>2, PutType DEF InterruptCancel
  <2>4. drv' \in Tasks BY <1>5, MarkTypes DEF InterruptCancel, TypeCore
  <2> QED BY <1>5, <2>3, <2>4 DEF InterruptCancel, TypeCore, Entries
<1>6. CASE PrepareOk(t)
  <2>1. wf[t].live => [wf[t] EXCEPT !.wt = TRUE] \in Entry
    BY EntryWhenLive DEF Entry
  <2>2. wf' \in Entries BY <1>6, <2>1, PutIfLiveType DEF PrepareOk
  <2>3. prep' \subseteq Tickets \X Stages BY <1>6 DEF PrepareOk, TypeCore
  <2> QED BY <1>6, <2>2, <2>3 DEF PrepareOk, TypeCore, Entries
<1>7. CASE PrepareLock(t) \/ PrepareFails(t)
  <2>1. prep' \subseteq Tickets \X Stages
    BY <1>7 DEF PrepareLock, PrepareFails, TypeCore, Stages
  <2> QED BY <1>7, <2>1 DEF PrepareLock, PrepareFails, TypeCore
<1>8. ASSUME NEW r \in Reqs, AddCheck(r, t) \/ RetryCheck(r, t)
      PROVE  TypeCore'
  <2>1. CASE AddCheck(r, t)
    <3>1. PICK ds \in SUBSET Defs :
            req' = [req EXCEPT ![r] = RequestOf("insert", t, ds)]
      <4>1. {d \in Defs : DependsOn[d] = {}} \in SUBSET Defs /\ {} \in SUBSET Defs
        OBVIOUS
      <4> QED BY <2>1, <4>1 DEF AddCheck
    <3>2. RequestOf("insert", t, ds) \in Request BY DEF Request, RequestOf
    <3> QED BY <2>1, <3>1, <3>2 DEF AddCheck, TypeCore
  <2>2. CASE RetryCheck(r, t)
    <3>1. RequestOf("retry", t, {}) \in Request BY DEF Request, RequestOf
    <3> QED BY <2>2, <3>1 DEF RetryCheck, TypeCore
  <2> QED BY <1>8, <2>1, <2>2
<1>9. ASSUME NEW r \in Reqs, ResumeFromError(r, t)
      PROVE  TypeCore'
  <2> DEFINE failed == {d \in Defs : wf[t].runs[d] = "Error"}
             p == WithState(wf[t], Plain("Pending"))
             e == [p EXCEPT !.runs =
                     [d \in Defs |-> IF d \in failed THEN "Idle"
                                     ELSE wf[t].runs[d]]]
  <2>1. wf[t] \in Entry BY <1>9, EntryWhenLive DEF ResumeFromError
  <2>2. p \in Entry
    BY <2>1, WithStateType, PlainType, ActiveIsKind DEF ActiveKinds
  <2>3. [d \in Defs |-> IF d \in failed THEN "Idle" ELSE wf[t].runs[d]]
          \in [Defs -> RunStates]
    BY <2>1 DEF Entry, RunStates
  <2>4. e \in Entry BY <2>2, <2>3 DEF Entry
  <2>5. Put(t, e) BY <1>9 DEF ResumeFromError
  <2>6. wf' \in Entries BY <2>4, <2>5, PutType
  <2>7. req' \in [Reqs -> Request \cup {IdleReq}]
    BY <1>9 DEF ResumeFromError, TypeCore, Request, RequestOf
  <2> QED BY <1>9, <2>6, <2>7 DEF ResumeFromError, TypeCore, Entries
<1>10. ASSUME NEW r \in Reqs, DeleteCheck(r, t)
       PROVE  TypeCore'
  <2>1. wf[t] \in Entry BY <1>10, EntryWhenLive DEF DeleteCheck
  <2>2. PICK gone \in BOOLEAN :
          Put(t, [wf[t] EXCEPT !.cx = TRUE, !.wt = @ /\ ~gone])
    BY <1>10 DEF DeleteCheck
  <2>3. [wf[t] EXCEPT !.cx = TRUE, !.wt = @ /\ ~gone] \in Entry
    BY <2>1 DEF Entry
  <2>4. wf' \in Entries BY <2>2, <2>3, PutType
  <2>5. drv' \in Tasks BY <1>10, MarkTypes DEF DeleteCheck, TypeCore
  <2>6. req' \in [Reqs -> Request \cup {IdleReq}]
    BY <1>10 DEF DeleteCheck, TypeCore, Request, RequestOf
  <2> QED BY <1>10, <2>4, <2>5, <2>6 DEF DeleteCheck, TypeCore, Entries
<1>11. ASSUME NEW r \in Reqs, MarkDoneCheck(r, t)
       PROVE  TypeCore'
  <2>1. drv' \in Tasks BY <1>11, MarkTypes DEF MarkDoneCheck, TypeCore
  <2>2. req' \in [Reqs -> Request \cup {IdleReq}]
    BY <1>11 DEF MarkDoneCheck, TypeCore, Request, RequestOf
  <2> QED BY <1>11, <2>1, <2>2 DEF MarkDoneCheck, TypeCore
<1>12. ASSUME NEW r \in Reqs, NEW d \in Defs, StartDef(r, t, d)
       PROVE  TypeCore'
  <2>1. req' \in [Reqs -> Request \cup {IdleReq}]
    BY <1>12 DEF StartDef, TypeCore, Request, RequestOf
  <2> QED BY <1>12, <2>1 DEF StartDef, TypeCore
<1>13. ASSUME NEW r \in Reqs, NEW d \in Defs, RetryDef(r, t, d)
       PROVE  TypeCore'
  <2>1. wf[t] \in Entry BY <1>13, EntryWhenLive DEF RetryDef
  <2>2. WithRun(wf[t], d, "Idle") \in Entry
    BY <2>1, WithRunType DEF RunStates
  <2>3. wf' \in Entries BY <1>13, <2>2, PutType DEF RetryDef
  <2>4. req' \in [Reqs -> Request \cup {IdleReq}]
    BY <1>13 DEF RetryDef, TypeCore, Request, RequestOf
  <2> QED BY <1>13, <2>3, <2>4 DEF RetryDef, TypeCore, Entries
<1> QED
  BY <1>1, <1>2, <1>3, <1>4, <1>5, <1>6, <1>7, <1>8, <1>9, <1>10, <1>11,
     <1>12, <1>13 DEF OperatorNext

(* Every step of a driver is a step of a task that is running.             *)
LEMMA DriverIsLive ==
    ASSUME TypeCore, NEW d \in Drivers, DriverNext(d)
    PROVE  /\ drv[d] \in Task
           /\ drv[d].tk \in Tickets
           /\ drv[d].df \in Defs
           /\ drv[d].n \in Nat
<1>1. drv[d].pc # "idle"
  BY DEF DriverNext, At, BootEnter, BootState, BootCheck, WorktreeLock,
         Worktree, WorktreeFails, ShellAcquire, ShellOk, ShellFails,
         Bootstrapped, ImageFound, Gate, DockerUnavailable, SlotAcquire,
         AgentLabel, AgentOk, AgentFails, LastStepFails, ObserveCancel, Done,
         ReapWorkers, Completed, CancelledQuietly, CancelledAsFailure, Fail
<1>2. drv[d] \in Task BY <1>1, TaskWhenLive
<1> QED BY <1>2 DEF Task

LEMMA BootStateKind ==
    ASSUME NEW n \in 1..Len(BootStates) PROVE BootStates[n] \in ActiveKinds
BY EngineAssumption DEF EngineAssumption, ActiveKinds, Bootstraps

LEMMA FailedEntryType ==
    ASSUME NEW e \in Entry, NEW df \in Defs
    PROVE  FailedEntry(e, df) \in Entry
<1>1. WithRun(e, df, "Error") \in Entry BY WithRunType DEF RunStates
<1>2. [k |-> "Error", src |-> e.st.k] \in WorkflowState
  BY DEF Entry, WorkflowState, Kinds, TerminalKinds
<1> QED BY <1>1, <1>2, WithStateType DEF FailedEntry

(* ... and by every step of a driver.                                      *)
LEMMA DriverType ==
    ASSUME TypeCore, BootIndex, NEW d \in Drivers, DriverNext(d)
    PROVE  TypeCore'
<1> USE EngineAssumption DEF EngineAssumption
<1> DEFINE t == drv[d].tk
<1>a. /\ drv[d] \in Task /\ t \in Tickets /\ drv[d].df \in Defs
      /\ drv[d].n \in Nat
  BY DriverIsLive
<1>b. wf[t].live => wf[t] \in Entry BY <1>a, EntryWhenLive
<1>c. {"bootState", "bootCheck", "lock", "worktree", "shellSlot", "image", "gate",
       "slot", "shell", "label", "agent", "done", "completed", "cancelled",
       "fail"} \subseteq TaskPcs
  BY DEF TaskPcs, HoldPcs
<1>d. {"ok", "cancelled", "err"} \subseteq Results BY DEF Results
<1>e. \A k \in Kinds : wf[t].live => WithState(wf[t], Plain(k)) \in Entry
  BY <1>b, PlainType, WithStateType
<1> HIDE DEF t
<1>1. CASE BootEnter(d)
  <2>1. drv' \in Tasks BY <1>1, <1>a, <1>c, StepType DEF BootEnter
  <2> QED BY <1>1, <2>1 DEF BootEnter, NoChangeButDrv, TypeCore
<1>2. CASE BootState(d)
  <2>1. drv' \in Tasks BY <1>2, <1>a, <1>c, GotoType DEF BootState
  <2>2. BootStates[drv[d].n] \in Kinds
    BY <1>2, BootStateKind, ActiveIsKind DEF BootState, At, BootIndex
  <2>3. wf' \in Entries
    BY <1>2, <1>a, <1>e, <2>2, PutIfLiveType DEF BootState, t
  <2> QED BY <1>2, <2>1, <2>3 DEF BootState, TypeCore, Entries
<1>3. CASE BootCheck(d)
  <2>1. drv' \in Tasks BY <1>3, <1>a, <1>c, StepType DEF BootCheck
  <2> QED BY <1>3, <2>1 DEF BootCheck, NoChangeButDrv, TypeCore
<1>4. CASE WorktreeLock(d)
  <2>1. wf[t].live \in BOOLEAN
    <3>1. \A e \in Entry : e.live = TRUE BY DEF Entry
    <3>2. NoEntry.live = FALSE BY DEF NoEntry
    <3>3. wf[t] \in Entry \/ wf[t] = NoEntry BY <1>a DEF TypeCore
    <3> QED BY <3>1, <3>2, <3>3, Zenon
  <2>2. drv' \in Tasks
    BY <1>4, <1>a, <1>c, <2>1 DEF WorktreeLock, TypeCore, Tasks, Task, t
  <2> QED BY <1>4, <2>2 DEF WorktreeLock, NoChangeButDrv, TypeCore
<1>5. CASE Worktree(d)
  <2>1. drv' \in Tasks BY <1>5, <1>a, <1>c, StepType DEF Worktree
  <2>2. wf[t].live => [wf[t] EXCEPT !.wt = TRUE] \in Entry BY <1>b DEF Entry
  <2>3. wf' \in Entries BY <1>5, <1>a, <2>2, PutIfLiveType DEF Worktree, t
  <2> QED BY <1>5, <2>1, <2>3 DEF Worktree, TypeCore, Entries
<1>6. CASE WorktreeFails(d)
  <2>1. drv' \in Tasks BY <1>6, <1>a, <1>d, FinishType DEF WorktreeFails
  <2> QED BY <1>6, <2>1 DEF WorktreeFails, NoChangeButDrv, TypeCore
<1>7. CASE ShellAcquire(d)
  <2>1. drv' \in Tasks BY <1>7, <1>a, <1>c, GotoType DEF ShellAcquire
  <2> QED BY <1>7, <2>1 DEF ShellAcquire, TypeCore
<1>8. CASE ShellOk(d)
  <2>1. drv' \in Tasks BY <1>8, <1>a, <1>c, StepType DEF ShellOk
  <2> QED BY <1>8, <2>1 DEF ShellOk, TypeCore
<1>9. CASE ShellFails(d)
  <2>1. drv' \in Tasks BY <1>9, <1>a, <1>d, FinishType DEF ShellFails
  <2> QED BY <1>9, <2>1 DEF ShellFails, TypeCore
<1>10. CASE Bootstrapped(d)
  <2>1. drv' \in Tasks
    BY <1>10, <1>a, <1>c DEF Bootstrapped, TypeCore, Tasks, Task
  <2>2. wf[t].live => [wf[t] EXCEPT !.boot = TRUE] \in Entry BY <1>b DEF Entry
  <2>3. wf' \in Entries BY <1>10, <1>a, <2>2, PutIfLiveType DEF Bootstrapped, t
  <2> QED BY <1>10, <2>1, <2>3 DEF Bootstrapped, TypeCore, Entries
<1>11. CASE Gate(d) \/ ImageFound(d)
  <2>1. drv' \in Tasks BY <1>11, <1>a, <1>c, GotoType DEF Gate, ImageFound
  <2> QED BY <1>11, <2>1 DEF Gate, ImageFound, NoChangeButDrv, TypeCore
<1>12. CASE DockerUnavailable(d)
  <2>1. drv' \in Tasks BY <1>12, <1>a, <1>d, FinishType DEF DockerUnavailable
  <2> QED BY <1>12, <2>1 DEF DockerUnavailable, NoChangeButDrv, TypeCore
<1>13. CASE SlotAcquire(d)
  <2>1. drv' \in Tasks BY <1>13, <1>a, <1>c, GotoType DEF SlotAcquire
  <2> QED BY <1>13, <2>1 DEF SlotAcquire, TypeCore
<1>14. CASE AgentLabel(d)
  <2>1. drv' \in Tasks BY <1>14, <1>a, <1>c, GotoType DEF AgentLabel
  <2>2. "AddressingTicket" \in Kinds BY DEF Kinds, ActiveKinds
  <2>3. wf' \in Entries
    BY <1>14, <1>a, <1>e, <2>2, PutIfLiveType DEF AgentLabel, t
  <2> QED BY <1>14, <2>1, <2>3 DEF AgentLabel, TypeCore, Entries
<1>15. CASE AgentOk(d)
  <2>1. CASE drv[d].n = NumSteps
    BY <1>15, <2>1, <1>a, <1>c, StepType DEF AgentOk, NextStep, TypeCore
  <2>2. CASE drv[d].n # NumSteps
    <3>1. drv' \in Tasks
      BY <1>15, <2>2, <1>a, <1>c DEF AgentOk, NextStep, TypeCore, Tasks, Task
    <3> QED BY <1>15, <3>1 DEF AgentOk, TypeCore
  <2> QED BY <2>1, <2>2
<1>16. CASE AgentFails(d)
  <2>1. drv' \in Tasks BY <1>16, <1>a, <1>d, FinishType DEF AgentFails
  <2> QED BY <1>16, <2>1 DEF AgentFails, TypeCore
<1>17. CASE LastStepFails(d)
  <2>1. drv' \in Tasks
    BY <1>17, <1>a, <1>c DEF LastStepFails, TypeCore, Tasks, Task
  <2> QED BY <1>17, <2>1 DEF LastStepFails, TypeCore
<1>18. CASE ObserveCancel(d)
  <2>1. drv' \in Tasks BY <1>18, <1>a, <1>d, FinishType DEF ObserveCancel
  <2>2. permits' \in Nat BY <1>18 DEF ObserveCancel, TypeCore
  <2> QED BY <1>18, <2>1, <2>2 DEF ObserveCancel, TypeCore
<1>19. CASE Done(d)
  <2>1. drv' \in Tasks BY <1>19, <1>a, <1>d, FinishType DEF Done
  <2>2. "Done" \in Kinds BY DEF Kinds, TerminalKinds
  <2>3. wf' \in Entries BY <1>19, <1>a, <1>e, <2>2, PutIfLiveType DEF Done, t
  <2> QED BY <1>19, <2>1, <2>3 DEF Done, TypeCore, Entries
<1>20. CASE ReapWorkers(d)
  <2> DEFINE next == CASE drv[d].res = "ok" -> "completed"
                       [] drv[d].res = "cancelled" -> "cancelled"
                       [] OTHER -> "fail"
  <2>1. next \in TaskPcs BY <1>c
  <2>2. Reap(drv, t) \in Tasks BY <1>a, MarkTypes DEF TypeCore
  <2>3. Reap(drv, t)[d] \in Task BY <1>a DEF Reap, Task
  <2>4. drv' = [Reap(drv, t) EXCEPT ![d].pc = next]
    BY <1>20 DEF ReapWorkers, t
  <2> HIDE DEF next
  <2>5. drv' \in Tasks BY <2>1, <2>2, <2>3, <2>4 DEF Tasks, Task
  <2> QED BY <1>20, <2>5 DEF ReapWorkers, NoChangeButDrv, TypeCore
<1>21. CASE Completed(d)
  <2>1. drv' \in Tasks BY <1>21, ExitType DEF Completed
  <2>2. wf[t].live => WithRun(wf[t], drv[d].df, "Completed") \in Entry
    BY <1>a, <1>b, WithRunType DEF RunStates
  <2>3. wf' \in Entries BY <1>21, <1>a, <2>2, PutIfLiveType DEF Completed, t
  <2> QED BY <1>21, <2>1, <2>3 DEF Completed, TypeCore, Entries
<1>22. CASE CancelledQuietly(d)
  <2>1. drv' \in Tasks BY <1>22, ExitType DEF CancelledQuietly
  <2> QED BY <1>22, <2>1 DEF CancelledQuietly, NoChangeButDrv, TypeCore
<1>23. CASE CancelledAsFailure(d)
  <2>1. drv' \in Tasks BY <1>23, <1>a, <1>c, GotoType DEF CancelledAsFailure
  <2> QED BY <1>23, <2>1 DEF CancelledAsFailure, NoChangeButDrv, TypeCore
<1>24. CASE Fail(d)
  <2>1. drv' \in Tasks BY <1>24, ExitType DEF Fail
  <2>2. wf[t].live => FailedEntry(wf[t], drv[d].df) \in Entry
    BY <1>a, <1>b, FailedEntryType
  <2>3. wf' \in Entries BY <1>24, <1>a, <2>2, PutIfLiveType DEF Fail, t
  <2> QED BY <1>24, <2>1, <2>3 DEF Fail, TypeCore, Entries
<1> QED
  BY <1>1, <1>2, <1>3, <1>4, <1>5, <1>6, <1>7, <1>8, <1>9, <1>10, <1>11,
     <1>12, <1>13, <1>14, <1>15, <1>16, <1>17, <1>18, <1>19, <1>20, <1>21,
     <1>22, <1>23, <1>24 DEF DriverNext
-----------------------------------------------------------------------------
(* How the state of an entry may change from a to b in one step: it keeps  *)
(* its state, gets a plain state, or is wrapped: by Paused when it was     *)
(* active, by Error when it was not terminal.                              *)
Move(a, b) ==
    \/ ~b.live
    \/ a.live /\ b.st = a.st
    \/ b.st.k \notin {"Paused", "Error"}
    \/ a.live /\ IsActive(a.st) /\ b.st = [k |-> "Paused", src |-> a.st.k]
    \/ a.live /\ ~IsTerminal(a.st) /\ b.st = [k |-> "Error", src |-> a.st.k]

Moves == \A t \in Tickets : Move(wf[t], wf'[t])

LEMMA PutMoves ==
    ASSUME TypeCore, NEW t \in Tickets, NEW e, Put(t, e), Move(wf[t], e)
    PROVE  Moves
<1>1. \A u \in Tickets : wf'[u] = IF u = t THEN e ELSE wf[u]
  BY DEF TypeCore, Put
<1>2. \A u \in Tickets : Move(wf[u], wf[u]) BY DEF Move
<1> QED BY <1>1, <1>2 DEF Moves

LEMMA PutIfLiveMoves ==
    ASSUME TypeCore, NEW t \in Tickets, NEW e, PutIfLive(t, e),
           wf[t].live => Move(wf[t], e)
    PROVE  Moves
<1>1. \A u \in Tickets : Move(wf[u], wf[u]) BY DEF Move
<1>2. CASE wf[t].live
  <2>1. \A u \in Tickets : wf'[u] = IF u = t THEN e ELSE wf[u]
    BY <1>2 DEF TypeCore, PutIfLive
  <2> QED BY <1>1, <1>2, <2>1 DEF Moves
<1>3. CASE ~wf[t].live
  BY <1>1, <1>3 DEF PutIfLive, Moves
<1> QED BY <1>2, <1>3

LEMMA KeepMoves == ASSUME UNCHANGED wf PROVE Moves
BY DEF Moves, Move

(* What the helpers do to the state of an entry.                           *)
LEMMA EntryStates ==
    ASSUME NEW e \in Entry
    PROVE  /\ \A s \in WorkflowState : WithState(e, s).st = s
           /\ \A d \in Defs, x \in RunStates : WithRun(e, d, x).st = e.st
           /\ \A k \in Kinds : Plain(k).k = k /\ Plain(k) \in WorkflowState
<1>1. \A s \in WorkflowState : WithState(e, s).st = s BY DEF Entry, WithState
<1>2. \A d \in Defs, x \in RunStates : WithRun(e, d, x).st = e.st
  BY DEF Entry, WithRun
<1>3. \A k \in Kinds : Plain(k).k = k /\ Plain(k) \in WorkflowState
  BY PlainType DEF Plain
<1> QED BY <1>1, <1>2, <1>3

LEMMA PlainMove ==
    ASSUME NEW e \in Entry, NEW k \in Kinds \ {"Paused", "Error"}
    PROVE  Move(e, WithState(e, Plain(k)))
BY EntryStates DEF Move

LEMMA FailedEntryMove ==
    ASSUME NEW e \in Entry, NEW df \in Defs
    PROVE  Move(e, FailedEntry(e, df))
<1> DEFINE f == WithRun(e, df, "Error")
           x == [k |-> "Error", src |-> e.st.k]
<1>1. f \in Entry BY WithRunType DEF RunStates
<1>2. f.st = e.st BY EntryStates DEF RunStates
<1>3. x \in WorkflowState BY DEF Entry, WorkflowState, Kinds, TerminalKinds
<1>4. WithState(f, x).st = x BY <1>1, <1>3, EntryStates
<1>5. e.live BY DEF Entry
<1> QED BY <1>2, <1>4, <1>5 DEF FailedEntry, Move

LEMMA RequestMoves ==
    ASSUME TypeCore, NEW r \in Reqs, RequestNext(r)
    PROVE  Moves
<1>1. CASE Insert(r)
  <2>1. req[r].tk \in Tickets BY <1>1, RequestWhenBusy DEF Insert, Request
  <2>2. Move(wf[req[r].tk], NewEntry) BY DEF Move, NewEntry, Plain
  <2> QED BY <1>1, <2>1, <2>2, PutMoves DEF Insert
<1>2. CASE RetryRemove(r) \/ RemoveByKey(r)
  <2>1. req[r].tk \in Tickets
    BY <1>2, RequestWhenBusy DEF RetryRemove, RemoveByKey, Request
  <2>2. Move(wf[req[r].tk], NoEntry) BY DEF Move, NoEntry
  <2>3. Put(req[r].tk, NoEntry) BY <1>2 DEF RetryRemove, RemoveByKey
  <2> QED BY <2>1, <2>2, <2>3, PutMoves
<1>3. CASE StartCommit(r)
  <2>1. req[r].tk \in Tickets /\ req[r].df \in Defs
    BY <1>3, RequestWhenBusy DEF StartCommit, Starting, Request
  <2>2. CASE ~wf[req[r].tk].live
    BY <1>3, <2>2, KeepMoves DEF StartCommit
  <2>3. CASE wf[req[r].tk].live
    <3> DEFINE t == req[r].tk
               w == WithRun(wf[t], req[r].df, "Running")
               e == [w EXCEPT !.cx = FALSE, !.started = TRUE]
    <3>1. wf[t] \in Entry BY <2>1, <2>3, EntryWhenLive
    <3>2. w \in Entry /\ w.st = wf[t].st
      BY <3>1, <2>1, WithRunType, EntryStates DEF RunStates
    <3>3. e.st = w.st BY <3>2 DEF Entry
    <3>4. Move(wf[t], e) BY <2>3, <3>2, <3>3 DEF Move
    <3>5. Put(t, e) BY <1>3, <2>3 DEF StartCommit
    <3> QED BY <2>1, <3>4, <3>5, PutMoves
  <2> QED BY <2>2, <2>3
<1>4. CASE MarkDoneKeeps(r)
  <2>1. req[r].tk \in Tickets BY <1>4, RequestWhenBusy DEF MarkDoneKeeps, Request
  <2>2. PICK gone \in BOOLEAN :
          PutIfLive(req[r].tk, [wf[req[r].tk] EXCEPT !.wt = @ /\ ~gone])
    BY <1>4 DEF MarkDoneKeeps
  <2>3. wf[req[r].tk].live
          => Move(wf[req[r].tk], [wf[req[r].tk] EXCEPT !.wt = @ /\ ~gone])
    BY <2>1, EntryWhenLive DEF Entry, Move
  <2> QED BY <2>1, <2>2, <2>3, PutIfLiveMoves
<1>5. CASE InsertFails(r)
  BY <1>5, KeepMoves DEF InsertFails
<1>6. CASE \/ \E d \in Defs : StartCheck(r, d) \/ StartRefused(r, d)
           \/ \E k \in Drivers : Spawn(r, k)
  BY <1>6, KeepMoves DEF StartCheck, StartRefused, Spawn
<1> QED BY <1>1, <1>2, <1>3, <1>4, <1>5, <1>6 DEF RequestNext

LEMMA DropMoves ==
    ASSUME TypeCore, NEW r \in Reqs, Drop(r)
    PROVE  Moves
<1>1. req[r].tk \in Tickets BY RequestWhenBusy DEF Drop, Request
<1>2. CASE req[r].op = "start" /\ wf[req[r].tk].live
  <2> DEFINE e == [wf[req[r].tk] EXCEPT !.lost = RunningDefs(req[r].tk)]
  <2>1. Move(wf[req[r].tk], e)
    BY <1>1, <1>2, EntryWhenLive DEF Entry, Move
  <2>2. Put(req[r].tk, e) BY <1>2 DEF Drop, Put
  <2> QED BY <1>1, <2>1, <2>2, PutMoves
<1>3. CASE ~(req[r].op = "start" /\ wf[req[r].tk].live)
  BY <1>3, KeepMoves DEF Drop
<1> QED BY <1>2, <1>3

LEMMA OperatorMoves ==
    ASSUME TypeCore, PausedSourceActive, NEW t \in Tickets, OperatorNext(t)
    PROVE  Moves
<1>1. CASE Pause(t)
  <2>1. wf[t] \in Entry BY <1>1, EntryWhenLive DEF Pause
  <2> DEFINE s == [k |-> "Paused", src |-> wf[t].st.k]
             p == WithState(wf[t], s)
             e == [p EXCEPT !.cx = FALSE]
  <2>2. s \in WorkflowState BY <2>1 DEF Entry, WorkflowState, Kinds
  <2>3. p \in Entry /\ p.st = s BY <2>1, <2>2, WithStateType, EntryStates
  <2>4. e.st = s BY <2>3 DEF Entry
  <2>5. Move(wf[t], e) BY <1>1, <2>4 DEF Pause, Move
  <2>6. Put(t, e) BY <1>1 DEF Pause
  <2> QED BY <2>5, <2>6, PutMoves
<1>2. ASSUME NEW r \in Reqs, Resume(r, t) PROVE Moves
  <2> DEFINE w == WithState(wf[t], Plain(wf[t].st.src))
             e == [w EXCEPT !.lost = @ \ (RunningDefs(t) \cap TomlDefs)]
  <2>1. wf[t] \in Entry BY <1>2, EntryWhenLive DEF Resume
  <2>2. wf[t].st.src \in ActiveKinds
    BY <1>2 DEF Resume, PausedSourceActive
  <2>3. wf[t].st.src \in Kinds \ {"Paused", "Error"}
    BY <2>2 DEF ActiveKinds, Bootstraps, Kinds
  <2>4. w \in Entry /\ w.st = Plain(wf[t].st.src) /\ w.st.k = wf[t].st.src
    BY <2>1, <2>3, EntryStates, WithStateType
  <2>5. e.st = w.st BY <2>4 DEF Entry
  <2>6. Move(wf[t], e) BY <2>3, <2>4, <2>5 DEF Move
  <2>7. Put(t, e) BY <1>2 DEF Resume
  <2> QED BY <2>6, <2>7, PutMoves
<1>3. CASE Stop(t)
  <2>1. wf[t] \in Entry BY <1>3, EntryWhenLive DEF Stop
  <2> DEFINE p == WithState(wf[t], Plain("Stopped"))
             e == [p EXCEPT !.cx = TRUE]
  <2>2. "Stopped" \in Kinds BY DEF Kinds, TerminalKinds
  <2>3. p \in Entry /\ p.st.k = "Stopped"
    BY <2>1, <2>2, WithStateType, EntryStates
  <2>4. e.st.k = "Stopped" BY <2>3 DEF Entry
  <2>5. Move(wf[t], e) BY <2>4 DEF Move
  <2>6. Put(t, e) BY <1>3 DEF Stop
  <2> QED BY <2>5, <2>6, PutMoves
<1>4. CASE InterruptCancel(t)
  <2>1. wf[t] \in Entry BY <1>4, EntryWhenLive DEF InterruptCancel
  <2>2. Move(wf[t], [wf[t] EXCEPT !.cx = TRUE])
    BY <1>4, <2>1 DEF Entry, Move, InterruptCancel
  <2> QED BY <1>4, <2>2, PutMoves DEF InterruptCancel
<1>5. CASE PrepareOk(t)
  <2>1. wf[t].live => Move(wf[t], [wf[t] EXCEPT !.wt = TRUE])
    BY EntryWhenLive DEF Entry, Move
  <2> QED BY <1>5, <2>1, PutIfLiveMoves DEF PrepareOk
<1>6. ASSUME NEW r \in Reqs, ResumeFromError(r, t)
      PROVE  Moves
  <2> DEFINE failed == {d \in Defs : wf[t].runs[d] = "Error"}
             p == WithState(wf[t], Plain("Pending"))
             e == [p EXCEPT !.runs =
                     [d \in Defs |-> IF d \in failed THEN "Idle"
                                     ELSE wf[t].runs[d]]]
  <2>1. wf[t] \in Entry BY <1>6, EntryWhenLive DEF ResumeFromError
  <2>2. "Pending" \in Kinds BY DEF Kinds, ActiveKinds
  <2>3. p \in Entry /\ p.st.k = "Pending"
    BY <2>1, <2>2, WithStateType, EntryStates
  <2>4. e.st = p.st BY <2>3 DEF Entry
  <2>5. Move(wf[t], e) BY <2>3, <2>4 DEF Move
  <2>6. Put(t, e) BY <1>6 DEF ResumeFromError
  <2> QED BY <2>5, <2>6, PutMoves
<1>7. ASSUME NEW r \in Reqs, DeleteCheck(r, t)
      PROVE  Moves
  <2>1. wf[t] \in Entry BY <1>7, EntryWhenLive DEF DeleteCheck
  <2>2. PICK gone \in BOOLEAN :
          Put(t, [wf[t] EXCEPT !.cx = TRUE, !.wt = @ /\ ~gone])
    BY <1>7 DEF DeleteCheck
  <2>3. Move(wf[t], [wf[t] EXCEPT !.cx = TRUE, !.wt = @ /\ ~gone])
    BY <1>7, <2>1 DEF Entry, Move, DeleteCheck
  <2> QED BY <2>2, <2>3, PutMoves
<1>8. ASSUME NEW r \in Reqs, NEW d \in Defs, RetryDef(r, t, d)
      PROVE  Moves
  <2>1. wf[t] \in Entry BY <1>8, EntryWhenLive DEF RetryDef
  <2>2. Move(wf[t], WithRun(wf[t], d, "Idle"))
    BY <1>8, <2>1, EntryStates DEF RunStates, Move, RetryDef
  <2> QED BY <1>8, <2>2, PutMoves DEF RetryDef
<1>9. ASSUME UNCHANGED wf PROVE Moves BY <1>9, KeepMoves
<1> QED
  BY <1>1, <1>2, <1>3, <1>4, <1>5, <1>6, <1>7, <1>8, <1>9
     DEF OperatorNext, InterruptReap, PrepareLock, PrepareFails, AddCheck,
         RetryCheck, MarkDoneCheck, StartDef

LEMMA DriverMoves ==
    ASSUME TypeCore, BootIndex, NEW d \in Drivers, DriverNext(d)
    PROVE  Moves
<1> DEFINE t == drv[d].tk
<1>a. t \in Tickets /\ drv[d].df \in Defs BY DriverIsLive
<1>b. wf[t].live => wf[t] \in Entry BY <1>a, EntryWhenLive
<1>c. \A k \in Kinds \ {"Paused", "Error"} :
        wf[t].live => Move(wf[t], WithState(wf[t], Plain(k)))
  BY <1>b, PlainMove
<1>d. /\ "AddressingTicket" \in Kinds \ {"Paused", "Error"}
      /\ "Done" \in Kinds \ {"Paused", "Error"}
  BY DEF Kinds, ActiveKinds, TerminalKinds
<1> HIDE DEF t
<1>1. CASE BootState(d)
  <2>1. BootStates[drv[d].n] \in ActiveKinds
    BY <1>1, BootStateKind DEF BootState, At, BootIndex
  <2>2. BootStates[drv[d].n] \in Kinds \ {"Paused", "Error"}
    BY <2>1 DEF ActiveKinds, Bootstraps, Kinds
  <2> QED BY <1>1, <1>a, <1>c, <2>2, PutIfLiveMoves DEF BootState, t
<1>2. CASE AgentLabel(d)
  BY <1>2, <1>a, <1>c, <1>d, PutIfLiveMoves DEF AgentLabel, t
<1>3. CASE Done(d)
  BY <1>3, <1>a, <1>c, <1>d, PutIfLiveMoves DEF Done, t
<1>4. CASE Worktree(d)
  <2>1. wf[t].live => Move(wf[t], [wf[t] EXCEPT !.wt = TRUE])
    BY <1>b DEF Entry, Move
  <2> QED BY <1>4, <1>a, <2>1, PutIfLiveMoves DEF Worktree, t
<1>5. CASE Bootstrapped(d)
  <2>1. wf[t].live => Move(wf[t], [wf[t] EXCEPT !.boot = TRUE])
    BY <1>b DEF Entry, Move
  <2> QED BY <1>5, <1>a, <2>1, PutIfLiveMoves DEF Bootstrapped, t
<1>6. CASE Completed(d)
  <2>1. wf[t].live => Move(wf[t], WithRun(wf[t], drv[d].df, "Completed"))
    BY <1>a, <1>b, EntryStates DEF RunStates, Move
  <2> QED BY <1>6, <1>a, <2>1, PutIfLiveMoves DEF Completed, t
<1>7. CASE Fail(d)
  <2>1. wf[t].live => Move(wf[t], FailedEntry(wf[t], drv[d].df))
    BY <1>a, <1>b, FailedEntryMove
  <2> QED BY <1>7, <1>a, <2>1, PutIfLiveMoves DEF Fail, t
<1>8. ASSUME UNCHANGED wf PROVE Moves BY <1>8, KeepMoves
<1> QED
  BY <1>1, <1>2, <1>3, <1>4, <1>5, <1>6, <1>7, <1>8
     DEF DriverNext, NoChangeButDrv, BootEnter, BootCheck, WorktreeLock,
         WorktreeFails, ShellAcquire, ShellOk, ShellFails, ImageFound, Gate,
         DockerUnavailable, SlotAcquire, AgentOk, AgentFails, LastStepFails,
         ObserveCancel, ReapWorkers, CancelledQuietly, CancelledAsFailure
-----------------------------------------------------------------------------
(* Requests take and give back no permit, and leave the drivers where they *)
(* are; the tasks they spawn begin at "boot" or "image".                   *)
Undisturbed ==
    /\ permits' = permits
    /\ \A e \in Drivers :
         \/ drv'[e].pc = drv[e].pc /\ drv'[e].n = drv[e].n
         \/ /\ drv[e].pc \in {"idle", "boot", "image"}
            /\ drv'[e].pc \in {"idle", "boot", "image"}

LEMMA MarkUndisturbed ==
    ASSUME NEW D \in Tasks, NEW t \in Tickets, NEW e \in Drivers
    PROVE  /\ CancelCurrent(D, t)[e].pc = D[e].pc
           /\ Detach(D, t)[e].pc = D[e].pc
           /\ Orphan(D, t)[e].pc = D[e].pc
           /\ Reap(D, t)[e].pc = D[e].pc
           /\ CancelCurrent(D, t)[e].n = D[e].n
           /\ Detach(D, t)[e].n = D[e].n
           /\ Orphan(D, t)[e].n = D[e].n
           /\ Reap(D, t)[e].n = D[e].n
BY DEF CancelCurrent, Detach, Orphan, Reap, Tasks, Task, IdleDriver

LEMMA NewTaskPc ==
    ASSUME NEW r, NEW t, NEW df, NEW cx, NEW w
    PROVE  NewTask(r, t, df, cx, w).pc \in {"boot", "image"}
BY DEF NewTask

LEMMA RequestUndisturbed ==
    ASSUME TypeCore, NEW r \in Reqs, RequestNext(r)
    PROVE  Undisturbed
<1>1. CASE Insert(r) \/ RetryRemove(r) \/ RemoveByKey(r)
  <2>1. req[r].tk \in Tickets
    BY <1>1, RequestWhenBusy DEF Insert, RetryRemove, RemoveByKey, Request
  <2>2. drv' = Orphan(drv, req[r].tk) /\ permits' = permits
    BY <1>1 DEF Insert, RetryRemove, RemoveByKey
  <2> QED BY <2>1, <2>2, MarkUndisturbed DEF Undisturbed, TypeCore
<1>2. CASE StartCommit(r)
  <2>1. req[r].tk \in Tickets /\ permits' = permits
    BY <1>2, RequestWhenBusy DEF StartCommit, Starting, Request
  <2>2. CASE ~wf[req[r].tk].live
    BY <1>2, <2>1, <2>2 DEF StartCommit, Undisturbed
  <2>3. CASE wf[req[r].tk].live
    <3> DEFINE t == req[r].tk
               new == NewTask(r, t, req[r].df, FALSE, req[r].wt)
    <3>1. PICK k \in Drivers :
             drv[k].pc = "idle" /\ drv' = [Detach(drv, t) EXCEPT ![k] = new]
      BY <1>2, <2>3 DEF StartCommit, Live
    <3>2. \A e \in Drivers : drv'[e] = IF e = k THEN new ELSE Detach(drv, t)[e]
      BY <3>1 DEF Detach
    <3>3. new.pc \in {"boot", "image"} BY NewTaskPc
    <3>4. \A e \in Drivers : /\ Detach(drv, t)[e].pc = drv[e].pc
                             /\ Detach(drv, t)[e].n = drv[e].n
      BY <2>1, MarkUndisturbed DEF TypeCore
    <3> HIDE DEF new, t
    <3> QED BY <2>1, <3>1, <3>2, <3>3, <3>4 DEF Undisturbed
  <2> QED BY <2>2, <2>3
<1>3. ASSUME UNCHANGED <<drv, permits>> PROVE Undisturbed
  BY <1>3 DEF Undisturbed
<1>4. ASSUME NEW k \in Drivers, Spawn(r, k) PROVE Undisturbed
  <2>1. drv[k] \in Task BY <1>4, TaskWhenLive DEF Spawn, Reserved, Live
  <2> QED BY <1>4, <2>1 DEF Spawn, Undisturbed, TypeCore, Tasks, Task
<1> QED
  BY <1>1, <1>2, <1>3, <1>4 DEF RequestNext, InsertFails, MarkDoneKeeps,
     StartCheck, StartRefused

LEMMA DropUndisturbed ==
    ASSUME TypeCore, Reservations, NEW r \in Reqs, Drop(r)
    PROVE  Undisturbed
BY DEF Drop, Reservations, Reservation, Reserved, Spawned, Live, Undisturbed,
       IdleDriver

LEMMA OperatorUndisturbed ==
    ASSUME TypeCore, NEW t \in Tickets, OperatorNext(t)
    PROVE  Undisturbed
<1>1. CASE Pause(t)
  <2>1. CancelCurrent(drv, t) \in Tasks BY MarkTypes DEF TypeCore
  <2>2. Detach(CancelCurrent(drv, t), t) \in Tasks BY <2>1, MarkTypes
  <2> QED BY <1>1, <2>1, <2>2, MarkUndisturbed
          DEF Pause, Undisturbed, TypeCore
<1>2. CASE Stop(t) \/ \E r \in Reqs : DeleteCheck(r, t)
  <2>1. CancelCurrent(drv, t) \in Tasks BY MarkTypes DEF TypeCore
  <2>2. drv' = Reap(CancelCurrent(drv, t), t) /\ permits' = permits
    BY <1>2 DEF Stop, DeleteCheck
  <2> QED BY <2>1, <2>2, MarkUndisturbed DEF Undisturbed, TypeCore
<1>3. ASSUME NEW r \in Reqs, Resume(r, t) PROVE Undisturbed
  <2> DEFINE respawn == RunningDefs(t) \cap TomlDefs
             new(f, k) == NewTask(r, t, CHOOSE d \in respawn : f[d] = k,
                                  wf[t].cx, wf[t].wt)
  <2>1. PICK f \in [respawn -> {k \in Drivers : ~Live(k)}] :
          drv' = [k \in Drivers |->
               IF \E d \in respawn : f[d] = k THEN new(f, k) ELSE drv[k]]
    BY <1>3 DEF Resume
  <2>2. \A k \in Drivers : new(f, k).pc \in {"boot", "image"} BY NewTaskPc
  <2>3. \A k \in Drivers : (\E d \in respawn : f[d] = k) => drv[k].pc = "idle"
    BY DEF Live
  <2>4. permits' = permits BY <1>3 DEF Resume
  <2> HIDE DEF new, respawn
  <2> QED BY <2>1, <2>2, <2>3, <2>4 DEF Undisturbed
<1>4. CASE InterruptReap(t) \/ \E r \in Reqs : MarkDoneCheck(r, t)
  BY <1>4, MarkUndisturbed DEF InterruptReap, MarkDoneCheck, Undisturbed, TypeCore
<1>5. CASE InterruptCancel(t)
  BY <1>5, MarkUndisturbed DEF InterruptCancel, Undisturbed, TypeCore
<1>6. ASSUME UNCHANGED <<drv, permits>> PROVE Undisturbed
  BY <1>6 DEF Undisturbed
<1> QED
  BY <1>1, <1>2, <1>3, <1>4, <1>5, <1>6 DEF OperatorNext, PrepareLock, PrepareOk,
     PrepareFails, AddCheck, RetryCheck, ResumeFromError, StartDef, RetryDef

(* The permit a step of driver d takes or gives back is the one d begins   *)
(* or ceases to hold; the other drivers stay where they are.               *)
Holds(d) == drv[d].pc \in HoldPcs
OthersStay(d) == \A e \in Drivers \ {d} :
                    drv'[e].pc = drv[e].pc /\ drv'[e].n = drv[e].n
Keeps(d) == permits' = permits /\ (Holds(d) <=> Holds(d)')
Takes(d) == permits > 0 /\ permits' = permits - 1 /\ ~Holds(d) /\ Holds(d)'
GivesBack(d) == permits' = permits + 1 /\ Holds(d) /\ ~Holds(d)'

LEMMA DriverOthers ==
    ASSUME TypeCore, NEW d \in Drivers, DriverNext(d)
    PROVE  OthersStay(d)
<1>1. CASE ReapWorkers(d)
  <2>1. drv[d].tk \in Tickets BY DriverIsLive
  <2>2. \A e \in Drivers \ {d} : drv'[e] = Reap(drv, drv[d].tk)[e]
    BY <1>1 DEF ReapWorkers, Reap
  <2> QED BY <2>1, <2>2, MarkUndisturbed DEF OthersStay, TypeCore
<1>2. CASE ~ReapWorkers(d)
  <2>1. \A e \in Drivers \ {d} : drv'[e] = drv[e]
    BY <1>2 DEF DriverNext, TypeCore, Tasks, Goto, Step, Finish, Exit, NextStep,
         BootEnter, BootState, BootCheck, WorktreeLock, Worktree,
         WorktreeFails, ShellAcquire, ShellOk, ShellFails, Bootstrapped, ImageFound, Gate,
         DockerUnavailable, SlotAcquire, AgentLabel, AgentOk, AgentFails,
         LastStepFails, ObserveCancel, Done, Completed, CancelledQuietly,
         CancelledAsFailure, Fail
  <2> QED BY <2>1 DEF OthersStay
<1> QED BY <1>1, <1>2

LEMMA DriverPermit ==
    ASSUME TypeCore, NEW d \in Drivers, DriverNext(d)
    PROVE  Keeps(d) \/ Takes(d) \/ GivesBack(d)
<1>a. drv[d] \in Task /\ drv[d].tk \in Tickets BY DriverIsLive
<1>b. drv \in Tasks BY DEF TypeCore
<1> USE DEF At
<1>1. CASE SlotAcquire(d) \/ ShellAcquire(d)
  <2>1. drv'[d].pc \in {"label", "shell"}
    BY <1>1, <1>a, <1>b DEF SlotAcquire, ShellAcquire, Goto, Tasks, Task
  <2> QED BY <1>1, <2>1 DEF SlotAcquire, ShellAcquire, Takes, Holds, HoldPcs
<1>2. CASE ShellOk(d) \/ ShellFails(d) \/ AgentFails(d) \/ LastStepFails(d)
  <2>1. drv'[d].pc \in {"shellSlot", "reap", "done"}
    BY <1>2, <1>a, <1>b DEF ShellOk, ShellFails, AgentFails, LastStepFails,
       Step, Finish, Tasks, Task
  <2> QED BY <1>2, <2>1 DEF ShellOk, ShellFails, AgentFails, LastStepFails,
       GivesBack, Holds, HoldPcs
<1>3. CASE AgentOk(d)
  <2>1. drv'[d].pc \in {"done", "gate"}
    BY <1>3, <1>a, <1>b DEF AgentOk, NextStep, Step, Tasks, Task
  <2> QED BY <1>3, <2>1 DEF AgentOk, GivesBack, Holds, HoldPcs
<1>4. CASE ObserveCancel(d)
  <2>1. drv'[d].pc = "reap"
    BY <1>4, <1>a, <1>b DEF ObserveCancel, Finish, Tasks, Task
  <2> QED BY <1>4, <2>1 DEF ObserveCancel, GivesBack, Keeps, Holds, HoldPcs
<1>5. CASE AgentLabel(d)
  <2>1. drv'[d].pc = "agent"
    BY <1>5, <1>a, <1>b DEF AgentLabel, Goto, Tasks, Task
  <2> QED BY <1>5, <2>1 DEF AgentLabel, Keeps, Holds, HoldPcs
<1>6. CASE ReapWorkers(d)
  <2>1. drv'[d].pc \in {"completed", "cancelled", "fail"}
    BY <1>6, <1>a, <1>b DEF ReapWorkers, Reap, Tasks, Task
  <2> QED BY <1>6, <2>1 DEF ReapWorkers, NoChangeButDrv, Keeps, Holds, HoldPcs
<1>7. CASE BootEnter(d) \/ BootState(d) \/ BootCheck(d) \/ WorktreeLock(d)
          \/ Worktree(d) \/ WorktreeFails(d) \/ Bootstrapped(d)
          \/ ImageFound(d) \/ Gate(d)
          \/ DockerUnavailable(d) \/ Done(d) \/ CancelledAsFailure(d)
  <2>1. drv'[d].pc \in {"bootState", "bootCheck", "lock", "worktree",
                        "shellSlot", "reap", "image", "gate", "slot", "fail"}
    BY <1>7, <1>a, <1>b DEF BootEnter, BootState, BootCheck, WorktreeLock,
       Worktree, WorktreeFails, Bootstrapped, ImageFound, Gate, DockerUnavailable, Done,
       CancelledAsFailure, Goto, Step, Finish, Tasks, Task
  <2> QED BY <1>7, <2>1 DEF BootEnter, BootState, BootCheck, WorktreeLock,
       Worktree, WorktreeFails, Bootstrapped, ImageFound, Gate, DockerUnavailable, Done,
       CancelledAsFailure, NoChangeButDrv, Keeps, Holds, HoldPcs
<1>8. CASE Completed(d) \/ CancelledQuietly(d) \/ Fail(d)
  <2>1. drv'[d].pc = "idle"
    BY <1>8, <1>b DEF Completed, CancelledQuietly, Fail, Exit, Tasks, IdleDriver
  <2> QED BY <1>8, <2>1 DEF Completed, CancelledQuietly, Fail, NoChangeButDrv,
       Keeps, Holds, HoldPcs
<1> QED
  BY <1>1, <1>2, <1>3, <1>4, <1>5, <1>6, <1>7, <1>8 DEF DriverNext

(* The bootstrap state a driver is at is one of BootStates.                *)
LEMMA DriverBootIndex ==
    ASSUME TypeCore, BootIndex, NEW d \in Drivers, DriverNext(d)
    PROVE  BootIndex'
<1>a. drv[d] \in Task /\ drv[d].tk \in Tickets BY DriverIsLive
<1>b. drv \in Tasks BY DEF TypeCore
<1>c. Len(BootStates) \in Nat \ {0}
  BY EngineAssumption DEF EngineAssumption
<1>d. drv'[d].pc \in {"bootState", "bootCheck"}
        => drv'[d].n \in 1..Len(BootStates)
  <2>1. CASE BootEnter(d)
    BY <2>1, <1>a, <1>b, <1>c DEF BootEnter, Step, Tasks, Task
  <2>2. CASE BootState(d)
    <3>1. drv'[d].n = drv[d].n
      BY <2>2, <1>a, <1>b DEF BootState, Goto, Tasks, Task
    <3> QED BY <2>2, <3>1 DEF BootState, At, BootIndex
  <2>3. CASE BootCheck(d)
    <3>1. drv[d].n \in 1..Len(BootStates)
      BY <2>3 DEF BootCheck, At, BootIndex
    <3>2. CASE drv[d].n = Len(BootStates)
      BY <2>3, <3>2, <1>a, <1>b DEF BootCheck, Step, Tasks, Task
    <3>3. CASE drv[d].n # Len(BootStates)
      <4>1. drv'[d].n = drv[d].n + 1
        BY <2>3, <3>3, <1>a, <1>b DEF BootCheck, Step, Tasks, Task
      <4> QED BY <3>1, <3>3, <4>1, <1>c
    <3> QED BY <3>2, <3>3
  <2>4. CASE ~BootEnter(d) /\ ~BootState(d) /\ ~BootCheck(d) /\ ~ReapWorkers(d)
    <3>1. drv'[d].pc \notin {"bootState", "bootCheck"}
      BY <2>4, <1>a, <1>b DEF DriverNext, Tasks, Task, IdleDriver, Goto, Step,
         Finish, Exit, NextStep, WorktreeLock, Worktree, WorktreeFails,
         ShellAcquire, ShellOk, ShellFails, Bootstrapped, ImageFound, Gate,
         DockerUnavailable, SlotAcquire, AgentLabel, AgentOk, AgentFails,
         LastStepFails, ObserveCancel, Done, Completed, CancelledQuietly,
         CancelledAsFailure, Fail
    <3> QED BY <3>1
  <2>5. CASE ReapWorkers(d)
    <3>1. drv'[d].pc \in {"completed", "cancelled", "fail"}
      BY <2>5, <1>a, <1>b DEF ReapWorkers, Reap, Tasks, Task
    <3> QED BY <3>1
  <2> QED BY <2>1, <2>2, <2>3, <2>4, <2>5
<1>e. OthersStay(d) BY DriverOthers
<1> QED BY <1>d, <1>e DEF BootIndex, OthersStay
-----------------------------------------------------------------------------
(* What a step of the operator or of a request does to task e: it stays as *)
(* it is but for its marks, is reserved by a request that starts           *)
(* definitions of its ticket, or is spawned.                               *)
SameTask(D, E, e) ==
    /\ E[e].pc = D[e].pc
    /\ D[e].pc # "idle"
         => E[e].tk = D[e].tk /\ E[e].res = D[e].res /\ E[e].by = D[e].by

ReservedNow(e) ==
    /\ drv[e].pc = "idle"
    /\ drv'[e].pc \in {"boot", "image"} /\ drv'[e].res = "none"
    /\ \E r \in Reqs : /\ drv'[e].by = {r}
                       /\ req'[r].op = "start" /\ req'[r].tk = drv'[e].tk

SpawnedNow(e) ==
    /\ drv'[e].pc = drv[e].pc /\ drv'[e].by = {}
    /\ drv[e].pc # "idle" => drv'[e].tk = drv[e].tk /\ drv'[e].res = drv[e].res

TaskKept(e) == SameTask(drv, drv', e) \/ ReservedNow(e) \/ SpawnedNow(e)

(* A request that has reserved tasks goes on starting the same ticket,     *)
(* unless the last of them is spawned.                                     *)
RequestsKept ==
    \A q \in Reqs : req[q].op = "start" =>
        \/ req'[q].op = "start" /\ req'[q].tk = req[q].tk
        \/ \A k \in Reserved(q) : drv'[k].by = {}

LEMMA MarkKeeps ==
    ASSUME NEW D \in Tasks, NEW t \in Tickets, NEW e \in Drivers,
           NEW E \in {CancelCurrent(D, t), Detach(D, t), Orphan(D, t), Reap(D, t)}
    PROVE  SameTask(D, E, e)
<1>1. CASE E = CancelCurrent(D, t)
  BY <1>1 DEF CancelCurrent, Tasks, Task, IdleDriver, SameTask
<1>2. CASE E = Detach(D, t)
  BY <1>2 DEF Detach, Tasks, Task, IdleDriver, SameTask
<1>3. CASE E = Orphan(D, t)
  BY <1>3 DEF Orphan, Tasks, Task, IdleDriver, SameTask
<1>4. CASE E = Reap(D, t)
  BY <1>4 DEF Reap, Tasks, Task, IdleDriver, SameTask
<1> QED BY <1>1, <1>2, <1>3, <1>4

LEMMA SameTwice ==
    ASSUME NEW A, NEW B, NEW C, NEW e, SameTask(A, B, e), SameTask(B, C, e)
    PROVE  SameTask(A, C, e)
BY DEF SameTask

LEMMA NewTaskWorks ==
    ASSUME NEW r, NEW t, NEW df, NEW cx, NEW w
    PROVE  /\ NewTask(r, t, df, cx, w).pc \in {"boot", "image"}
           /\ NewTask(r, t, df, cx, w).tk = t
           /\ NewTask(r, t, df, cx, w).res = "none"
           /\ NewTask(r, t, df, cx, w).by = {r}
BY DEF NewTask

LEMMA RequestKeepsTasks ==
    ASSUME TypeCore, NEW r \in Reqs, RequestNext(r)
    PROVE  RequestsKept /\ \A e \in Drivers : TaskKept(e)
<1>a. drv \in Tasks /\ req \in [Reqs -> Request \cup {IdleReq}] BY DEF TypeCore
<1>1. CASE Insert(r) \/ RetryRemove(r) \/ RemoveByKey(r)
  <2>1. req[r].tk \in Tickets
    BY <1>1, RequestWhenBusy DEF Insert, RetryRemove, RemoveByKey, Request
  <2>2. drv' = Orphan(drv, req[r].tk)
    BY <1>1 DEF Insert, RetryRemove, RemoveByKey
  <2>3. req[r].op # "start" /\ \A q \in Reqs \ {r} : req'[q] = req[q]
    BY <1>a, <1>1 DEF Insert, RetryRemove, RemoveByKey, Reply
  <2> QED BY <1>a, <2>1, <2>2, <2>3, MarkKeeps DEF TaskKept, RequestsKept
<1>2. CASE InsertFails(r) \/ MarkDoneKeeps(r)
  BY <1>a, <1>2
     DEF InsertFails, MarkDoneKeeps, Reply, TaskKept, SameTask, RequestsKept
<1>3. ASSUME NEW d \in Defs, StartCheck(r, d) \/ StartRefused(r, d)
      PROVE  RequestsKept /\ \A e \in Drivers : TaskKept(e)
  <2>1. drv' = drv /\ Reserved(r) = {} /\ \A q \in Reqs \ {r} : req'[q] = req[q]
    BY <1>a, <1>3 DEF StartCheck, StartRefused, Starting
  <2> QED BY <2>1 DEF TaskKept, SameTask, RequestsKept
<1>4. CASE StartCommit(r)
  <2>1. req[r].tk \in Tickets
    BY <1>4, RequestWhenBusy DEF StartCommit, Starting, Request
  <2>2. Reserved(r) = {} /\ \A q \in Reqs \ {r} : req'[q] = req[q]
    BY <1>a, <1>4 DEF StartCommit, Starting
  <2>3. RequestsKept BY <2>2 DEF RequestsKept
  <2>4. CASE ~wf[req[r].tk].live
    BY <1>4, <2>3, <2>4 DEF StartCommit, TaskKept, SameTask
  <2>5. CASE wf[req[r].tk].live
    <3> DEFINE t == req[r].tk
               new == NewTask(r, t, req[r].df, FALSE, req[r].wt)
               nreq == RequestOf("start", t, req[r].todo \ {req[r].df})
    <3>1. PICK k \in Drivers :
             /\ drv[k].pc = "idle"
             /\ drv' = [Detach(drv, t) EXCEPT ![k] = new]
             /\ req' = [req EXCEPT ![r] = nreq]
      BY <1>4, <2>5 DEF StartCommit, Live
    <3>2. \A e \in Drivers : drv'[e] = IF e = k THEN new ELSE Detach(drv, t)[e]
      BY <3>1 DEF Detach
    <3>3. new.pc \in {"boot", "image"} /\ new.res = "none" /\ new.tk = t /\ new.by = {r}
      BY DEF NewTask
    <3>4. req'[r].op = "start" /\ req'[r].tk = t
      BY <1>a, <3>1 DEF RequestOf
    <3>5. \A e \in Drivers : SameTask(drv, Detach(drv, t), e)
      BY <1>a, <2>1, MarkKeeps
    <3> HIDE DEF new, t, nreq
    <3>6. ReservedNow(k) BY <3>1, <3>2, <3>3, <3>4 DEF ReservedNow
    <3>7. \A e \in Drivers \ {k} : SameTask(drv, drv', e)
      BY <3>2, <3>5 DEF SameTask
    <3> QED BY <2>3, <3>6, <3>7 DEF TaskKept
  <2> QED BY <2>4, <2>5
<1>5. ASSUME NEW k \in Drivers, Spawn(r, k)
      PROVE  RequestsKept /\ \A e \in Drivers : TaskKept(e)
  <2>1. drv[k] \in Task BY <1>5, TaskWhenLive DEF Spawn, Reserved, Live
  <2>2. SpawnedNow(k) /\ \A e \in Drivers \ {k} : drv'[e] = drv[e]
    BY <1>a, <1>5, <2>1 DEF Spawn, SpawnedNow, Tasks, Task
  <2>3. RequestsKept
    <3>1. CASE Reserved(r) = {k}
      BY <1>a, <1>5, <2>2, <3>1 DEF Spawn, RequestsKept, SpawnedNow
    <3>2. CASE Reserved(r) # {k}
      BY <1>5, <3>2 DEF Spawn, RequestsKept
    <3> QED BY <3>1, <3>2
  <2> QED BY <2>2, <2>3 DEF TaskKept, SameTask
<1> QED
  BY <1>1, <1>2, <1>3, <1>4, <1>5 DEF RequestNext

LEMMA OperatorKeepsTasks ==
    ASSUME TypeCore, NEW t \in Tickets, OperatorNext(t)
    PROVE  RequestsKept /\ \A e \in Drivers : TaskKept(e)
<1>a. drv \in Tasks /\ req \in [Reqs -> Request \cup {IdleReq}] BY DEF TypeCore
<1>b. ASSUME req' = req \/ \E r \in Reqs : req[r] = IdleReq /\ \E x : req' = [req EXCEPT ![r] = x]
      PROVE  RequestsKept
  BY <1>a, <1>b DEF RequestsKept, IdleReq
<1>1. CancelCurrent(drv, t) \in Tasks BY MarkTypes DEF TypeCore
<1>2. Detach(CancelCurrent(drv, t), t) \in Tasks BY <1>1, MarkTypes
<1>3. CASE Pause(t)
  <2> DEFINE A == CancelCurrent(drv, t)  B == Detach(A, t)
  <2>1. \A e \in Drivers : SameTask(drv, A, e) BY <1>a, MarkKeeps
  <2>2. \A e \in Drivers : SameTask(A, B, e) BY <1>1, MarkKeeps
  <2>3. \A e \in Drivers : SameTask(B, drv', e) BY <1>2, <1>3, MarkKeeps DEF Pause
  <2>4. req' = req BY <1>3 DEF Pause
  <2> HIDE DEF A, B
  <2> QED BY <1>b, <2>1, <2>2, <2>3, <2>4, SameTwice DEF TaskKept
<1>4. CASE Stop(t) \/ \E r \in Reqs : DeleteCheck(r, t)
  <2> DEFINE A == CancelCurrent(drv, t)
  <2>1. \A e \in Drivers : SameTask(drv, A, e) BY <1>a, MarkKeeps
  <2>2. drv' = Reap(A, t) BY <1>4 DEF Stop, DeleteCheck
  <2>3. \A e \in Drivers : SameTask(A, drv', e) BY <1>1, <2>2, MarkKeeps
  <2>4. RequestsKept BY <1>4, <1>b DEF Stop, DeleteCheck, Accept
  <2> HIDE DEF A
  <2> QED BY <2>1, <2>3, <2>4, SameTwice DEF TaskKept
<1>5. ASSUME NEW r \in Reqs, Resume(r, t)
      PROVE  RequestsKept /\ \A e \in Drivers : TaskKept(e)
  <2> DEFINE respawn == RunningDefs(t) \cap TomlDefs
             new(f, k) == NewTask(r, t, CHOOSE d \in respawn : f[d] = k, wf[t].cx, wf[t].wt)
  <2>1. PICK f \in [respawn -> {k \in Drivers : ~Live(k)}] :
          drv' = [k \in Drivers |->
               IF \E d \in respawn : f[d] = k THEN new(f, k) ELSE drv[k]]
    BY <1>5 DEF Resume
  <2>2. \A k : /\ new(f, k).pc \in {"boot", "image"} /\ new(f, k).res = "none"
               /\ new(f, k).tk = t /\ new(f, k).by = {r}
    BY NewTaskWorks
  <2>3. \A k \in Drivers : (\E d \in respawn : f[d] = k) => drv[k].pc = "idle" BY DEF Live
  <2>4. respawn # {} => req'[r].op = "start" /\ req'[r].tk = t
    BY <1>a, <1>5 DEF Resume, RequestOf
  <2>5. RequestsKept BY <1>5, <1>b DEF Resume, Accept
  <2> HIDE DEF new, respawn
  <2>6. \A e \in Drivers : drv'[e] = drv[e] \/ ReservedNow(e)
    BY <2>1, <2>2, <2>3, <2>4 DEF ReservedNow
  <2> QED BY <2>5, <2>6 DEF TaskKept, SameTask
<1>6. CASE InterruptReap(t) \/ \E r \in Reqs : MarkDoneCheck(r, t)
  <2>1. RequestsKept BY <1>6, <1>b DEF InterruptReap, MarkDoneCheck, Accept
  <2>2. drv' = Reap(drv, t) \/ drv' = drv BY <1>6 DEF InterruptReap, MarkDoneCheck
  <2>3. \A e \in Drivers : SameTask(drv, drv', e) BY <1>a, <2>2, MarkKeeps DEF SameTask
  <2> QED BY <2>1, <2>3 DEF TaskKept
<1>7. CASE InterruptCancel(t)
  BY <1>a, <1>7, <1>b, MarkKeeps DEF InterruptCancel, TaskKept
<1>8. ASSUME UNCHANGED drv,
             req' = req \/ \E r \in Reqs : req[r] = IdleReq /\ \E x : req' = [req EXCEPT ![r] = x]
      PROVE  RequestsKept /\ \A e \in Drivers : TaskKept(e)
  BY <1>8, <1>b DEF TaskKept, SameTask
<1>9. CASE PrepareLock(t) \/ PrepareOk(t) \/ PrepareFails(t)
  BY <1>8, <1>9 DEF PrepareLock, PrepareOk, PrepareFails
<1>10. CASE \E r \in Reqs : \/ AddCheck(r, t) \/ RetryCheck(r, t) \/ ResumeFromError(r, t)
                           \/ \E d \in Defs : StartDef(r, t, d) \/ RetryDef(r, t, d)
  BY <1>8, <1>10 DEF AddCheck, RetryCheck, ResumeFromError, StartDef, RetryDef, Accept
<1> QED
  BY <1>3, <1>4, <1>5, <1>6, <1>7, <1>9, <1>10 DEF OperatorNext

(* Reservations is preserved by every step.                                *)
LEMMA KeptReservations ==
    ASSUME Reservations, RequestsKept, \A e \in Drivers : TaskKept(e)
    PROVE  Reservations'
<1> SUFFICES ASSUME NEW e \in Drivers, drv'[e].pc # "idle", drv'[e].by # {}
             PROVE  Reservation(e)'
  BY DEF Reservations, Live, Spawned
<1>1. CASE ReservedNow(e)
  BY <1>1 DEF ReservedNow, Reservation
<1>2. CASE SameTask(drv, drv', e)
  <2>1. Reservation(e) BY <1>2 DEF SameTask, Reservations, Live, Spawned
  <2>2. PICK q \in Reqs : drv[e].by = {q} /\ req[q].op = "start" /\ req[q].tk = drv[e].tk
    BY <2>1 DEF Reservation
  <2>3. e \in Reserved(q) BY <1>2, <2>2 DEF SameTask, Reserved, Live
  <2>4. req'[q].op = "start" /\ req'[q].tk = req[q].tk
    BY <2>2, <2>3 DEF RequestsKept
  <2> QED BY <1>2, <2>1, <2>2, <2>4 DEF SameTask, Reservation
<1> QED BY <1>1, <1>2 DEF TaskKept, SpawnedNow

LEMMA DropReservations ==
    ASSUME TypeCore, Reservations, NEW r \in Reqs, Drop(r)
    PROVE  Reservations'
<1> SUFFICES ASSUME NEW e \in Drivers, drv'[e].pc # "idle", drv'[e].by # {}
             PROVE  Reservation(e)'
  BY DEF Reservations, Live, Spawned
<1>1. e \notin Reserved(r) /\ drv'[e] = drv[e] BY DEF Drop, IdleDriver
<1>2. Reservation(e) BY <1>1 DEF Reservations, Live, Spawned
<1>3. PICK q \in Reqs : drv[e].by = {q} /\ req[q].op = "start" /\ req[q].tk = drv[e].tk
  BY <1>2 DEF Reservation
<1>4. q # r BY <1>1, <1>3 DEF Reserved, Live
<1>5. req'[q] = req[q] BY <1>4 DEF Drop, Reply, TypeCore
<1> QED BY <1>1, <1>2, <1>3, <1>5 DEF Reservation

(* A driver moves only once it is spawned, and stays spawned until it      *)
(* exits; it reserves nothing.                                             *)
LEMMA DriverSame ==
    ASSUME TypeCore, NEW d \in Drivers, DriverNext(d)
    PROVE  /\ \A e \in Drivers \ {d} : SameTask(drv, drv', e)
           /\ drv'[d].pc = "idle" \/ drv'[d].by = {}
<1>a. drv[d] \in Task /\ drv[d].tk \in Tickets BY DriverIsLive
<1>b. drv \in Tasks BY DEF TypeCore
<1>c. drv[d].by = {}
  BY DEF DriverNext, At, Spawned, BootEnter, BootState, BootCheck, WorktreeLock,
     Worktree, WorktreeFails, ShellAcquire, ShellOk, ShellFails, Bootstrapped,
     ImageFound, Gate, DockerUnavailable, SlotAcquire, AgentLabel, AgentOk,
     AgentFails, LastStepFails, ObserveCancel, Done, ReapWorkers, Completed,
     CancelledQuietly, CancelledAsFailure, Fail
<1>1. CASE ReapWorkers(d)
  <2> DEFINE R == Reap(drv, drv[d].tk)
  <2>1. \A e \in Drivers \ {d} : drv'[e] = R[e] BY <1>1 DEF ReapWorkers, Reap
  <2>2. R[d] \in Task /\ R[d].by = drv[d].by BY <1>a DEF Reap, Task
  <2>3. drv'[d].by = R[d].by
    BY <1>1, <2>2 DEF ReapWorkers, Reap, Task
  <2>4. \A e \in Drivers : SameTask(drv, R, e) BY <1>a, <1>b, MarkKeeps
  <2> HIDE DEF R
  <2> QED BY <1>c, <2>1, <2>2, <2>3, <2>4 DEF SameTask
<1>2. CASE ~ReapWorkers(d)
  <2>1. \A e \in Drivers \ {d} : drv'[e] = drv[e]
    BY <1>2 DEF DriverNext, TypeCore, Tasks, Goto, Step, Finish, Exit, NextStep,
         BootEnter, BootState, BootCheck, WorktreeLock, Worktree,
         WorktreeFails, ShellAcquire, ShellOk, ShellFails, Bootstrapped, ImageFound, Gate,
         DockerUnavailable, SlotAcquire, AgentLabel, AgentOk, AgentFails,
         LastStepFails, ObserveCancel, Done, Completed, CancelledQuietly,
         CancelledAsFailure, Fail
  <2>2. drv'[d].pc = "idle" \/ drv'[d].by = drv[d].by
    BY <1>2, <1>a, <1>b
       DEF DriverNext, Tasks, Task, IdleDriver, Goto, Step, Finish, Exit, NextStep,
         BootEnter, BootState, BootCheck, WorktreeLock, Worktree,
         WorktreeFails, ShellAcquire, ShellOk, ShellFails, Bootstrapped, ImageFound, Gate,
         DockerUnavailable, SlotAcquire, AgentLabel, AgentOk, AgentFails,
         LastStepFails, ObserveCancel, Done, Completed, CancelledQuietly,
         CancelledAsFailure, Fail
  <2> QED BY <1>c, <2>1, <2>2 DEF SameTask
<1> QED BY <1>1, <1>2

LEMMA DriverReservations ==
    ASSUME TypeCore, Reservations, NEW d \in Drivers, DriverNext(d)
    PROVE  Reservations'
<1> SUFFICES ASSUME NEW e \in Drivers, drv'[e].pc # "idle", drv'[e].by # {}
             PROVE  Reservation(e)'
  BY DEF Reservations, Live, Spawned
<1>1. e # d /\ SameTask(drv, drv', e) BY DriverSame
<1>2. req' = req
  BY DEF DriverNext, NoChangeButDrv, BootEnter, BootState, BootCheck, WorktreeLock, Worktree,
         WorktreeFails, ShellAcquire, ShellOk, ShellFails, Bootstrapped, ImageFound, Gate,
         DockerUnavailable, SlotAcquire, AgentLabel, AgentOk, AgentFails,
         LastStepFails, ObserveCancel, Done, ReapWorkers, Completed, CancelledQuietly,
         CancelledAsFailure, Fail
<1> QED BY <1>1, <1>2 DEF SameTask, Reservations, Reservation, Live, Spawned
-----------------------------------------------------------------------------
(* The inductive invariant.  TypeCore alone is not inductive: resume takes *)
(* the state a pause has wrapped (PausedSourceActive) and the bootstrap    *)
(* indexes BootStates (BootIndex); the upper bound of permits in TypeOK    *)
(* follows from PermitAccounting.  A dropped request frees the slots it    *)
(* reserved, none of which holds a permit (Reservations).                  *)
IInv ==
    /\ TypeCore /\ BootIndex /\ PausedSourceActive
    /\ Reservations /\ PermitAccounting

LEMMA HoldersFinite ==
    /\ Holders \subseteq Drivers
    /\ IsFiniteSet(Holders)
    /\ Cardinality(Holders) \in Nat
<1>1. IsFiniteSet(Drivers) BY EngineAssumption DEF EngineAssumption
<1>2. Holders \subseteq Drivers BY DEF Holders
<1>3. IsFiniteSet(Holders) BY <1>1, <1>2, FS_Subset
<1> QED BY <1>2, <1>3, FS_CardinalityType

LEMMA TypeFromCore == ASSUME TypeCore, PermitAccounting PROVE TypeOK
<1>1. permits \in 0..Permits
  BY HoldersFinite, EngineAssumption
     DEF TypeCore, PermitAccounting, EngineAssumption
<1> QED BY <1>1 DEF TypeCore, TypeOK, Tasks

LEMMA MovesKeepSource ==
    ASSUME PausedSourceActive, Moves PROVE PausedSourceActive'
<1> SUFFICES ASSUME NEW t \in Tickets, wf'[t].live, IsPaused(wf'[t].st)
             PROVE  wf'[t].st.src \in ActiveKinds
  BY DEF PausedSourceActive
<1>1. Move(wf[t], wf'[t]) BY DEF Moves
<1>2. wf'[t].st.k = "Paused" BY DEF IsPaused
<1>3. CASE wf[t].live /\ wf'[t].st = wf[t].st
  BY <1>2, <1>3 DEF PausedSourceActive, IsPaused
<1>4. CASE IsActive(wf[t].st) /\ wf'[t].st = [k |-> "Paused", src |-> wf[t].st.k]
  BY <1>4 DEF IsActive
<1>5. wf'[t].st # [k |-> "Error", src |-> wf[t].st.k] BY <1>2
<1> QED BY <1>1, <1>2, <1>3, <1>4, <1>5 DEF Move

LEMMA InitInvariant == Init => IInv
<1> SUFFICES ASSUME Init PROVE IInv OBVIOUS
<1> USE EngineAssumption DEF EngineAssumption, Init
<1>1. TypeCore BY DEF TypeCore, Tasks
<1>2. BootIndex BY DEF BootIndex, IdleDriver
<1>3. PausedSourceActive BY DEF PausedSourceActive, NoEntry
<1>4. Holders = {} BY DEF Holders, IdleDriver, HoldPcs
<1>5. PermitAccounting BY <1>4, FS_EmptySet DEF PermitAccounting
<1>6. Reservations BY DEF Reservations, Live, IdleDriver
<1> QED BY <1>1, <1>2, <1>3, <1>5, <1>6 DEF IInv

(* Who holds a permit after a step, and how many permits are left.         *)
LEMMA UndisturbedHolders ==
    ASSUME Undisturbed PROVE Holders' = Holders /\ permits' = permits
BY DEF Undisturbed, Holders, HoldPcs

LEMMA DriverHolders ==
    ASSUME TypeCore, NEW d \in Drivers, DriverNext(d)
    PROVE  \/ Holders' = Holders /\ permits' = permits
           \/ /\ d \notin Holders /\ Holders' = Holders \cup {d}
              /\ permits > 0 /\ permits' = permits - 1
           \/ /\ d \in Holders /\ Holders' = Holders \ {d}
              /\ permits' = permits + 1
<1>1. OthersStay(d) BY DriverOthers
<1>2. CASE Keeps(d)
  BY <1>1, <1>2 DEF Keeps, Holds, OthersStay, Holders
<1>3. CASE Takes(d)
  BY <1>1, <1>3 DEF Takes, Holds, OthersStay, Holders
<1>4. CASE GivesBack(d)
  BY <1>1, <1>4 DEF GivesBack, Holds, OthersStay, Holders
<1> QED BY <1>2, <1>3, <1>4, DriverPermit

LEMMA DriverAccounting ==
    ASSUME TypeCore, PermitAccounting, NEW d \in Drivers, DriverNext(d)
    PROVE  PermitAccounting'
<1>a. permits \in Nat /\ Cardinality(Holders) \in Nat /\ Permits \in Nat
  BY HoldersFinite, EngineAssumption DEF TypeCore, EngineAssumption
<1>1. CASE Holders' = Holders /\ permits' = permits
  BY <1>1 DEF PermitAccounting
<1>2. CASE /\ d \notin Holders /\ Holders' = Holders \cup {d}
           /\ permits > 0 /\ permits' = permits - 1
  <2>1. Cardinality(Holders \cup {d}) = Cardinality(Holders) + 1
    BY <1>2, HoldersFinite, FS_AddElement
  <2> QED BY <1>2, <1>a, <2>1 DEF PermitAccounting
<1>3. CASE d \in Holders /\ Holders' = Holders \ {d} /\ permits' = permits + 1
  <2>1. Cardinality(Holders \ {d}) = Cardinality(Holders) - 1
    BY <1>3, HoldersFinite, FS_RemoveElement
  <2> QED BY <1>3, <1>a, <2>1 DEF PermitAccounting
<1> QED BY <1>1, <1>2, <1>3, DriverHolders

LEMMA NextInvariant == IInv /\ [Next]_vars => IInv'
<1> SUFFICES ASSUME IInv, [Next]_vars PROVE IInv' OBVIOUS
<1> USE DEF IInv
<1>0. ASSUME Undisturbed, TypeCore', Moves, Reservations' PROVE IInv'
  <2>1. PausedSourceActive' BY <1>0, MovesKeepSource
  <2>2. BootIndex' BY <1>0 DEF Undisturbed, BootIndex
  <2>3. PermitAccounting' BY <1>0, UndisturbedHolders DEF PermitAccounting
  <2> QED BY <1>0, <2>1, <2>2, <2>3
<1>1. ASSUME NEW t \in Tickets, OperatorNext(t) PROVE IInv'
  <2>1. TypeCore' /\ Moves BY <1>1, OperatorType, OperatorMoves
  <2>2. Undisturbed BY <1>1, OperatorUndisturbed
  <2>3. Reservations' BY <1>1, OperatorKeepsTasks, KeptReservations
  <2> QED BY <1>0, <2>1, <2>2, <2>3
<1>2. ASSUME NEW r \in Reqs, RequestNext(r) PROVE IInv'
  <2>1. TypeCore' /\ Moves BY <1>2, RequestType, RequestMoves
  <2>2. Undisturbed BY <1>2, RequestUndisturbed
  <2>3. Reservations' BY <1>2, RequestKeepsTasks, KeptReservations
  <2> QED BY <1>0, <2>1, <2>2, <2>3
<1>3. ASSUME NEW r \in Reqs, Drop(r) PROVE IInv'
  <2>1. TypeCore' /\ Moves BY <1>3, DropType, DropMoves
  <2> QED BY <1>0, <1>3, <2>1, DropUndisturbed, DropReservations
<1>4. ASSUME NEW d \in Drivers, DriverNext(d) PROVE IInv'
  <2>1. TypeCore' BY <1>4, DriverType
  <2>2. PausedSourceActive' BY <1>4, DriverMoves, MovesKeepSource
  <2>3. BootIndex' BY <1>4, DriverBootIndex
  <2>4. PermitAccounting' BY <1>4, DriverAccounting
  <2>5. Reservations' BY <1>4, DriverReservations
  <2> QED BY <2>1, <2>2, <2>3, <2>4, <2>5
<1>5. CASE InterruptBegin
  BY <1>5 DEF InterruptBegin, TypeCore, BootIndex, PausedSourceActive,
     PermitAccounting, Holders, Reservations, Reservation, Live, Spawned
<1>6. CASE UNCHANGED vars
  BY <1>6 DEF vars, TypeCore, BootIndex, PausedSourceActive,
     PermitAccounting, Holders, Reservations, Reservation, Live, Spawned
<1> QED BY <1>1, <1>2, <1>3, <1>4, <1>5, <1>6 DEF Next

LEMMA Invariance == Spec => []IInv
BY InitInvariant, NextInvariant, PTL DEF Spec

(* Type correctness of the engine, for every number of tickets,            *)
(* definitions, drivers, requests, permits, steps and shell tasks.         *)
THEOREM TypeCorrect == Spec => []TypeOK
<1>1. IInv => TypeOK BY TypeFromCore DEF IInv
<1> QED BY <1>1, Invariance, PTL

(* No way a driver can end loses or duplicates a permit of                 *)
(* agent_run_semaphore.                                                    *)
THEOREM PermitsAreAccounted == Spec => []PermitAccounting
<1>1. IInv => PermitAccounting BY DEF IInv
<1> QED BY <1>1, Invariance, PTL

(* A late failure or a late pause never overwrites a terminal state.       *)
THEOREM TerminalStateWins == Spec => TerminalWins
<1> DEFINE A == \A t \in Tickets :
                  wf[t].live /\ wf'[t].live /\ IsTerminal(wf[t].st)
                    => wf'[t].st = wf[t].st \/ wf'[t].st.k \notin {"Error", "Paused"}
<1>1. ASSUME IInv, [Next]_vars PROVE [A]_vars
  <2>1. Next => Moves
    <3>1. InterruptBegin => Moves BY KeepMoves DEF InterruptBegin
    <3> QED BY <1>1, <3>1, OperatorMoves, RequestMoves, DropMoves, DriverMoves
            DEF Next, IInv
  <2>2. Moves => A
    BY DEF Moves, Move, IsTerminal, IsActive, TerminalKinds, ActiveKinds,
       Bootstraps
  <2> QED BY <1>1, <2>1, <2>2
<1> QED BY <1>1, Invariance, PTL DEF Spec, TerminalWins

(* The semaphore as the engine uses it implements the pool of AgentSlots.  *)
THEOREM SlotsAreImplemented == Spec => ImplementsAgentSlots
<1>1. Init => Slots!Init
  BY DEF Init, Slots!Init, Holders, IdleDriver, HoldPcs
<1>2. ASSUME IInv, [Next]_vars PROVE [Slots!Next]_Holders
  <2>1. ASSUME NEW t \in Tickets, OperatorNext(t) PROVE Holders' = Holders
    BY <1>2, <2>1, OperatorUndisturbed, UndisturbedHolders DEF IInv
  <2>2. ASSUME NEW r \in Reqs, RequestNext(r) \/ Drop(r) PROVE Holders' = Holders
    BY <1>2, <2>2, RequestUndisturbed, DropUndisturbed, UndisturbedHolders DEF IInv
  <2>3. ASSUME NEW d \in Drivers, DriverNext(d) PROVE [Slots!Next]_Holders
    <3>1. permits > 0 => Cardinality(Holders) < Permits
      BY <1>2, HoldersFinite, EngineAssumption
         DEF IInv, TypeCore, PermitAccounting, EngineAssumption
    <3>2. TypeCore BY <1>2 DEF IInv
    <3>3. CASE Holders' = Holders BY <3>3
    <3>4. CASE permits > 0 /\ d \notin Holders /\ Holders' = Holders \cup {d}
      <4>0. Slots!Cardinality(Holders) = Cardinality(Holders)
        BY DEF Slots!Cardinality, Cardinality
      <4>1. Slots!Acquire(d) BY <3>1, <3>4, <4>0 DEF Slots!Acquire
      <4> QED BY <4>1 DEF Slots!Next
    <3>5. CASE d \in Holders /\ Holders' = Holders \ {d}
      <4>1. Slots!Release(d) BY <3>5 DEF Slots!Release
      <4> QED BY <4>1 DEF Slots!Next
    <3> QED BY <2>3, <3>2, <3>3, <3>4, <3>5, DriverHolders
  <2>4. CASE InterruptBegin BY <2>4 DEF InterruptBegin, Holders
  <2>5. CASE UNCHANGED vars BY <2>5 DEF vars, Holders
  <2> QED BY <1>2, <2>1, <2>2, <2>3, <2>4, <2>5 DEF Next
<1> QED
  BY <1>1, <1>2, Invariance, PTL DEF Spec, ImplementsAgentSlots, Slots!Spec
-----------------------------------------------------------------------------
(* Who works for a ticket: task e of D is a driver of ticket t, spawned or *)
(* about to be, that has not finished well.                                *)
Works(D, e, t) == D[e].pc # "idle" /\ D[e].tk = t /\ D[e].res # "ok"

(* A start request that will spawn a driver: its check has passed, or one  *)
(* of its definitions can still pass.                                      *)
Pledged(r, t) ==
    /\ req[r].op = "start" /\ req[r].tk = t
    /\ req[r].df # NoDef \/ \E d \in req[r].todo : wf[t].runs[d] # "Running"

CaredFor(t) == (\E e \in Drivers : Works(drv, e, t)) \/ (\E r \in Reqs : Pledged(r, t))

(* The strengthening of ActiveHasDriver that is inductive: a start request *)
(* counts only if it will not be refused.                                  *)
Driven == \A t \in Tickets : InProgress(t) /\ ~suppress => CaredFor(t)

(* Where the result of a task can be "ok": after done, until it exits.     *)
ResultAt ==
    \A d \in Drivers : drv[d].pc # "idle" =>
        /\ drv[d].res = "ok" => drv[d].pc \in {"reap", "completed"}
        /\ drv[d].pc = "completed" => drv[d].res = "ok"

(* The flows of the owner are independent of each other and every one of   *)
(* them is found on disk when a pause ends.                                *)
IndependentFlows == TomlDefs = Defs /\ \A d \in Defs : DependsOn[d] = {}

LEMMA KeptFacts ==
    ASSUME ResultAt, \A e \in Drivers : TaskKept(e)
    PROVE  ResultAt' /\ \A e \in Drivers, u \in Tickets : Works(drv, e, u) => Works(drv', e, u)
<1>1. \A e \in Drivers : drv'[e].pc # "idle" =>
         \/ drv'[e].pc \in {"boot", "image"} /\ drv'[e].res = "none"
         \/ drv[e].pc = drv'[e].pc /\ drv'[e].res = drv[e].res
  BY DEF TaskKept, SameTask, ReservedNow, SpawnedNow
<1>2. \A e \in Drivers : drv[e].pc # "idle" =>
         drv'[e].pc = drv[e].pc /\ drv'[e].tk = drv[e].tk /\ drv'[e].res = drv[e].res
  BY DEF TaskKept, SameTask, ReservedNow, SpawnedNow
<1> QED BY <1>1, <1>2 DEF ResultAt, Works

(* A ticket stays cared for when its tasks do and its pledges hold on.     *)
LEMMA StaysCaredFor ==
    ASSUME NEW u \in Tickets, CaredFor(u),
           \A e \in Drivers : Works(drv, e, u) => Works(drv', e, u),
           \A r \in Reqs : Pledged(r, u) => Pledged(r, u)'
    PROVE  CaredFor(u)'
<1>1. CASE \E e \in Drivers : Works(drv, e, u)
  BY <1>1 DEF CaredFor, Works
<1>2. CASE \E r \in Reqs : Pledged(r, u)
  BY <1>2 DEF CaredFor
<1> QED BY <1>1, <1>2 DEF CaredFor

(* Progress of an entry is read from its state and its runs.               *)
LEMMA SameProgress ==
    ASSUME NEW u \in Tickets, wf'[u].live = wf[u].live, InProgress(u)',
           wf'[u].st = wf[u].st, wf'[u].runs = wf[u].runs,
           wf'[u].lost = wf[u].lost
    PROVE  InProgress(u)
BY DEF InProgress, RunningDefs, IsActive

LEMMA ReservedByStart ==
    ASSUME Reservations, NEW r \in Reqs, NEW k \in Reserved(r)
    PROVE  req[r].op = "start" /\ req[r].tk = drv[k].tk
BY DEF Reservations, Reservation, Reserved, Live, Spawned

(* Requests keep Driven: a refused start was not the pledge, because its   *)
(* definition is Running already, and a committed one becomes a driver.    *)
LEMMA RequestDriven ==
    ASSUME IndependentFlows, TypeCore, Reservations, ResultAt, Driven,
           NEW r \in Reqs, RequestNext(r)
    PROVE  Driven'
<1> SUFFICES ASSUME NEW u \in Tickets, InProgress(u)', ~suppress'
             PROVE  CaredFor(u)'
  BY DEF Driven
<1>1. \A e \in Drivers : Works(drv, e, u) => Works(drv', e, u)
  BY RequestKeepsTasks, KeptFacts
<1>2. suppress' = suppress
  BY DEF RequestNext, Insert, InsertFails, StartCommit, RetryRemove, RemoveByKey,
         MarkDoneKeeps, StartCheck, StartRefused, Spawn
<1>3. req[r] \in Request
  BY RequestWhenBusy, ReservedByStart
     DEF RequestNext, Insert, InsertFails, StartCommit, RetryRemove, RemoveByKey,
         MarkDoneKeeps, StartCheck, StartRefused, Starting, Spawn
<1>4. PICK t \in Tickets : t = req[r].tk
  BY <1>3 DEF Request
<1>5. wf \in [Tickets -> Entry \cup {NoEntry}] /\ req \in [Reqs -> Request \cup {IdleReq}]
  BY DEF TypeCore
(* The entry of u keeps its state and its runs, and r is no pledge of u.   *)
<1>6. ASSUME wf'[u] = wf[u], ~Pledged(r, u), \A q \in Reqs \ {r} : req'[q] = req[q]
      PROVE  CaredFor(u)'
  <2>1. CaredFor(u)
    BY <1>2, <1>6, SameProgress DEF Driven
  <2>2. \A q \in Reqs : Pledged(q, u) => Pledged(q, u)'
    BY <1>6 DEF Pledged
  <2> QED BY <1>1, <2>1, <2>2, StaysCaredFor
<1>7. CASE Insert(r) \/ RetryRemove(r) \/ RemoveByKey(r)
  <2>1. (wf'[t] = NewEntry \/ wf'[t] = NoEntry) /\ (u # t => wf'[u] = wf[u])
    BY <1>4, <1>5, <1>7 DEF Insert, RetryRemove, RemoveByKey, Put
  <2>2. u # t
    BY <2>1 DEF InProgress, RunningDefs, NewEntry, NoEntry
  <2>3. ~Pledged(r, u) /\ \A q \in Reqs \ {r} : req'[q] = req[q]
    BY <1>5, <1>7 DEF Insert, RetryRemove, RemoveByKey, Reply, Pledged
  <2> QED BY <1>6, <2>1, <2>2, <2>3
<1>8. CASE InsertFails(r)
  BY <1>5, <1>6, <1>8 DEF InsertFails, Reply, Pledged
<1>9. CASE MarkDoneKeeps(r)
  <2>1. /\ wf'[u].live = wf[u].live
        /\ wf[u].live => /\ wf'[u].st = wf[u].st /\ wf'[u].runs = wf[u].runs
                         /\ wf'[u].lost = wf[u].lost
    BY <1>4, <1>5, <1>9 DEF MarkDoneKeeps, PutIfLive, Entry
  <2>2. InProgress(u)
    BY <2>1, SameProgress DEF InProgress
  <2>3. CaredFor(u) /\ wf'[u].runs = wf[u].runs
    BY <1>2, <2>1, <2>2 DEF Driven, InProgress
  <2>4. \A q \in Reqs : Pledged(q, u) => Pledged(q, u)'
    BY <1>5, <1>9, <2>3 DEF MarkDoneKeeps, Reply, Pledged
  <2> QED BY <1>1, <2>3, <2>4, StaysCaredFor
<1>10. ASSUME NEW d \in Defs, StartCheck(r, d) PROVE CaredFor(u)'
  <2>1. wf' = wf /\ req' = [req EXCEPT ![r] = [req[r] EXCEPT !.df = d, !.wt = wf[t].boot /\ wf[t].wt]]
    BY <1>4, <1>10 DEF StartCheck
  <2>2. req[r].op = "start" /\ req'[r].op = "start" /\ req'[r].tk = req[r].tk /\ req'[r].df = d
    BY <1>3, <1>5, <1>10, <2>1 DEF StartCheck, Starting, Request
  <2>3. d # NoDef
    BY EngineAssumption
  <2>4. \A q \in Reqs : Pledged(q, u) => Pledged(q, u)'
    BY <1>5, <2>1, <2>2, <2>3 DEF Pledged
  <2> QED BY <1>1, <1>2, <2>1, <2>4, SameProgress, StaysCaredFor DEF Driven
<1>11. ASSUME NEW d \in Defs, StartRefused(r, d) PROVE CaredFor(u)'
  <2>1. /\ wf' = wf /\ \A q \in Reqs \ {r} : req'[q] = req[q]
        /\ req[r].op = "start" /\ req[r].df = NoDef /\ ~MayStart(t, d)
    BY <1>4, <1>5, <1>11 DEF StartRefused, Starting
  <2>2. CASE u # t \/ req[r].todo = {d}
    <3>1. ~Pledged(r, u)
      <4>1. CASE u # t
        BY <1>4, <4>1 DEF Pledged
      <4>2. CASE u = t /\ req[r].todo = {d}
        <5>1. wf[t].runs[d] = "Running"
          BY <2>1, <4>2 DEF MayStart, DepsMet, IndependentFlows, InProgress
        <5> QED BY <2>1, <4>2, <5>1 DEF Pledged
      <4> QED BY <2>2, <4>1, <4>2
    <3> QED BY <1>6, <2>1, <3>1
  <2>3. CASE u = t /\ req[r].todo # {d}
    <3>1. req' = [req EXCEPT ![r] = [req[r] EXCEPT !.todo = @ \ {d}]]
      BY <1>11, <2>3 DEF StartRefused
    <3>2. req'[r].op = "start" /\ req'[r].tk = t /\ req'[r].todo = req[r].todo \ {d} /\ req'[r].df = NoDef
      BY <1>3, <1>4, <1>5, <2>1, <3>1 DEF Request
    <3>3. wf[t].runs[d] = "Running"
      BY <2>1, <2>3 DEF MayStart, DepsMet, IndependentFlows, InProgress
    <3>4. Pledged(r, u) => Pledged(r, u)'
      BY <2>1, <2>3, <3>2, <3>3 DEF Pledged
    <3>5. \A q \in Reqs : Pledged(q, u) => Pledged(q, u)'
      BY <2>1, <3>4 DEF Pledged
    <3> QED BY <1>1, <1>2, <2>1, <3>5, SameProgress, StaysCaredFor DEF Driven
  <2> QED BY <2>2, <2>3
<1>12. CASE StartCommit(r)
  <2>1. \A q \in Reqs \ {r} : req'[q] = req[q]
    BY <1>5, <1>12 DEF StartCommit
  <2>2. u # t => wf'[u] = wf[u]
    BY <1>4, <1>5, <1>12 DEF StartCommit, Put
  <2>3. CASE u # t
    BY <1>4, <1>6, <2>1, <2>2, <2>3 DEF Pledged
  <2>4. CASE u = t
    <3>1. wf[t].live
      BY <1>4, <1>12, <2>4 DEF StartCommit, InProgress
    <3>2. PICK k \in Drivers : drv' = [Detach(drv, t) EXCEPT ![k] = NewTask(r, t, req[r].df, FALSE, req[r].wt)]
      BY <1>4, <1>12, <3>1 DEF StartCommit
    <3>3. drv'[k] = NewTask(r, t, req[r].df, FALSE, req[r].wt)
      BY <3>2 DEF Detach
    <3>4. Works(drv', k, t)
      BY <3>3 DEF NewTask, Works
    <3> QED BY <2>4, <3>4 DEF CaredFor, Works
  <2> QED BY <2>3, <2>4
<1>13. ASSUME NEW k \in Drivers, Spawn(r, k) PROVE CaredFor(u)'
  <2>1. wf' = wf /\ \A q \in Reqs \ {r} : req'[q] = req[q]
    BY <1>5, <1>13 DEF Spawn
  <2>2. k \in Reserved(r) /\ drv[k].tk = t
    BY <1>4, <1>13, ReservedByStart DEF Spawn
  <2>3. CASE u # t
    BY <1>4, <1>6, <2>1, <2>3 DEF Pledged
  <2>4. CASE u = t /\ Works(drv, k, u)
    BY <1>1, <2>4 DEF CaredFor, Works
  <2>5. CASE u = t /\ ~Works(drv, k, u)
    <3>1. drv[k].pc \in {"boot", "image"}
      BY <2>2 DEF Reservations, Reservation, Reserved, Live, Spawned
    <3> QED BY <2>2, <2>5, <3>1 DEF Works, ResultAt
  <2> QED BY <2>3, <2>4, <2>5
<1> QED BY <1>7, <1>8, <1>9, <1>10, <1>11, <1>12, <1>13 DEF RequestNext

(* A client that hangs up while drivers are being started: the Running     *)
(* definitions of that item are history then, and nothing else changes.    *)
LEMMA DropDriven ==
    ASSUME TypeCore, Reservations, ResultAt, Driven, NEW r \in Reqs, Drop(r)
    PROVE  ResultAt' /\ Driven'
<1>a. wf \in [Tickets -> Entry \cup {NoEntry}] /\ req \in [Reqs -> Request \cup {IdleReq}]
  BY DEF TypeCore
<1>b. PICK t \in Tickets : t = req[r].tk
  BY RequestWhenBusy DEF Drop, Request
<1>1. \A e \in Drivers : drv'[e] = drv[e] \/ (e \in Reserved(r) /\ drv'[e] = IdleDriver)
  BY DEF Drop
<1>2. ResultAt' BY <1>1 DEF ResultAt, IdleDriver
<1>3. ASSUME NEW u \in Tickets, InProgress(u)', ~suppress' PROVE CaredFor(u)'
  <2>1. suppress' = suppress BY DEF Drop
  <2>2. CASE req[r].op = "start" /\ u = t
    <3>1. CASE wf[t].live
      <4>1. wf[t] \in Entry BY <3>1, EntryWhenLive
      <4>2. wf'[t] = [wf[t] EXCEPT !.lost = RunningDefs(t)]
        BY <1>a, <1>b, <2>2, <3>1 DEF Drop
      <4>3. wf'[t].runs = wf[t].runs /\ wf'[t].lost = RunningDefs(t)
        BY <4>1, <4>2 DEF Entry
      <4> QED BY <1>3, <2>2, <4>3 DEF InProgress, RunningDefs
    <3>2. CASE ~wf[t].live
      BY <1>b, <1>3, <2>2, <3>2 DEF Drop, InProgress
    <3> QED BY <3>1, <3>2
  <2>3. CASE ~(req[r].op = "start" /\ u = t)
    <3>1. wf'[u] = wf[u] BY <1>a, <1>b, <2>3 DEF Drop
    <3>2. \A e \in Drivers : Works(drv, e, u) => Works(drv', e, u)
      <4>1. \A e \in Reserved(r) : drv[e].tk # u
        BY <1>b, <2>3, ReservedByStart
      <4> QED BY <1>1, <4>1 DEF Works
    <3>3. \A q \in Reqs : Pledged(q, u) => Pledged(q, u)'
      BY <1>a, <1>b, <2>3, <3>1 DEF Drop, Reply, Pledged
    <3>4. CaredFor(u) BY <1>3, <2>1, <3>1, SameProgress DEF Driven
    <3> QED BY <3>2, <3>3, <3>4, StaysCaredFor
  <2> QED BY <2>2, <2>3
<1> QED BY <1>2, <1>3 DEF Driven

(* Operator steps keep Driven: resume spawns a driver for every Running    *)
(* definition, resume_from_error and retry leave a pledge.                 *)
LEMMA OperatorDriven ==
    ASSUME IndependentFlows, TypeCore, ResultAt, Driven, NEW t \in Tickets, OperatorNext(t)
    PROVE  Driven'
<1> SUFFICES ASSUME NEW u \in Tickets, InProgress(u)', ~suppress'
             PROVE  CaredFor(u)'
  BY DEF Driven
<1>1. \A e \in Drivers : Works(drv, e, u) => Works(drv', e, u)
  BY OperatorKeepsTasks, KeptFacts
<1>2. suppress' = suppress
  BY DEF OperatorNext, Pause, Resume, Stop, InterruptReap, InterruptCancel, PrepareLock, PrepareOk, PrepareFails,
         AddCheck, RetryCheck, ResumeFromError, DeleteCheck, MarkDoneCheck, StartDef, RetryDef
<1>3. wf \in [Tickets -> Entry \cup {NoEntry}] /\ req \in [Reqs -> Request \cup {IdleReq}]
  BY DEF TypeCore
(* The entry of u keeps its state and its runs, and no pledge changes.     *)
<1>4. ASSUME wf'[u].live = wf[u].live,
             wf[u].live => /\ wf'[u].st = wf[u].st /\ wf'[u].runs = wf[u].runs
                           /\ wf'[u].lost = wf[u].lost,
             \A q \in Reqs : req[q].op # "idle" => req'[q] = req[q]
      PROVE  CaredFor(u)'
  <2>1. wf[u].live /\ InProgress(u)
    BY <1>4, SameProgress DEF InProgress
  <2>2. CaredFor(u) /\ wf'[u].runs = wf[u].runs
    BY <1>2, <1>4, <2>1 DEF Driven
  <2>3. \A q \in Reqs : Pledged(q, u) => Pledged(q, u)'
    BY <1>4, <2>2 DEF Pledged
  <2> QED BY <1>1, <2>2, <2>3, StaysCaredFor
<1>5. CASE Pause(t) \/ Stop(t)
  <2>1. req' = req /\ (u # t => wf'[u] = wf[u])
    BY <1>3, <1>5 DEF Pause, Stop, Put
  <2>2. wf[t] \in Entry
    BY <1>5, EntryWhenLive DEF Pause, Stop
  <2>3. wf'[t].st.k \in {"Paused", "Stopped"}
    <3>1. CASE Pause(t)
      <4>1. wf'[t] = [WithState(wf[t], [k |-> "Paused", src |-> wf[t].st.k]) EXCEPT !.cx = FALSE]
        BY <1>3, <3>1 DEF Pause, Put
      <4> QED BY <2>2, <4>1 DEF WithState, Entry
    <3>2. CASE Stop(t)
      <4>1. wf'[t] = [WithState(wf[t], Plain("Stopped")) EXCEPT !.cx = TRUE]
        BY <1>3, <3>2 DEF Stop, Put
      <4> QED BY <2>2, <4>1 DEF WithState, Plain, Entry
    <3> QED BY <1>5, <3>1, <3>2
  <2>4. u # t
    BY <2>3 DEF InProgress, IsActive, ActiveKinds, Bootstraps
  <2> QED BY <1>4, <2>1, <2>4
<1>6. ASSUME NEW r \in Reqs, Resume(r, t) PROVE CaredFor(u)'
  <2>1. /\ \A q \in Reqs : req[q].op # "idle" => req'[q] = req[q]
        /\ u # t => wf'[u] = wf[u]
    BY <1>3, <1>6 DEF Resume, Put, Accept, IdleReq
  <2>2. CASE u # t
    BY <1>4, <2>1, <2>2
  <2>3. CASE u = t
    <3>1. wf[t] \in Entry
      BY <1>6, EntryWhenLive DEF Resume
    <3>2. wf'[t].runs = wf[t].runs
      BY <1>3, <1>6, <3>1 DEF Resume, Put, WithState, Entry
    <3> DEFINE respawn == RunningDefs(t) \cap TomlDefs
               new(f, k) == NewTask(r, t, CHOOSE d \in respawn : f[d] = k, wf[t].cx, wf[t].wt)
    <3>3. PICK f \in [respawn -> {k \in Drivers : ~Live(k)}] :
            drv' = [k \in Drivers |->
                 IF \E d \in respawn : f[d] = k THEN new(f, k) ELSE drv[k]]
      BY <1>6 DEF Resume
    <3>4. PICK d \in respawn : TRUE
      BY <2>3, <3>2 DEF InProgress, RunningDefs, IndependentFlows
    <3>5. \A k : new(f, k).pc \in {"boot", "image"} /\ new(f, k).tk = t /\ new(f, k).res = "none"
      BY NewTaskWorks
    <3> HIDE DEF new, respawn
    <3>6. f[d] \in Drivers /\ drv'[f[d]] = new(f, f[d])
      BY <3>3, <3>4
    <3>7. Works(drv', f[d], t)
      BY <3>5, <3>6 DEF Works
    <3> QED BY <2>3, <3>6, <3>7 DEF CaredFor, Works
  <2> QED BY <2>2, <2>3
<1>7. CASE InterruptCancel(t) \/ PrepareOk(t)
  <2>1. req' = req /\ wf'[u].live = wf[u].live
        /\ (wf[u].live => /\ wf'[u].st = wf[u].st /\ wf'[u].runs = wf[u].runs
                          /\ wf'[u].lost = wf[u].lost)
    <3>1. CASE InterruptCancel(t)
      <4>1. wf[t] \in Entry
        BY <3>1, EntryWhenLive DEF InterruptCancel
      <4> QED BY <1>3, <3>1, <4>1 DEF InterruptCancel, Put, Entry
    <3>2. CASE PrepareOk(t)
      <4>1. CASE wf[t].live
        <5>1. wf[t] \in Entry
          BY <4>1, EntryWhenLive
        <5> QED BY <1>3, <3>2, <4>1, <5>1 DEF PrepareOk, PutIfLive, Entry
      <4>2. CASE ~wf[t].live
        BY <3>2, <4>2 DEF PrepareOk, PutIfLive
      <4> QED BY <4>1, <4>2
    <3> QED BY <1>7, <3>1, <3>2
  <2> QED BY <1>4, <2>1
<1>8. CASE InterruptReap(t) \/ PrepareLock(t) \/ PrepareFails(t)
  BY <1>4, <1>8 DEF InterruptReap, PrepareLock, PrepareFails
<1>9. ASSUME NEW r \in Reqs, DeleteCheck(r, t) PROVE CaredFor(u)'
  <2>1. /\ wf'[u].live = wf[u].live
        /\ wf[u].live => /\ wf'[u].st = wf[u].st /\ wf'[u].runs = wf[u].runs
                         /\ wf'[u].lost = wf[u].lost
    BY <1>3, <1>9 DEF DeleteCheck, Put, Entry
  <2>2. \A q \in Reqs : req[q].op # "idle" => req'[q] = req[q]
    BY <1>3, <1>9 DEF DeleteCheck, Accept, IdleReq
  <2> QED BY <1>4, <2>1, <2>2
<1>10. ASSUME NEW r \in Reqs,
              AddCheck(r, t) \/ RetryCheck(r, t) \/ MarkDoneCheck(r, t) \/ \E d \in Defs : StartDef(r, t, d)
       PROVE  CaredFor(u)'
  <2>1. wf' = wf /\ \A q \in Reqs : req[q].op # "idle" => req'[q] = req[q]
    <3>1. wf' = wf /\ req[r] = IdleReq /\ \E q : req' = [req EXCEPT ![r] = q]
      BY <1>10 DEF AddCheck, RetryCheck, MarkDoneCheck, StartDef, Accept
    <3> QED BY <1>3, <3>1 DEF IdleReq
  <2> QED BY <1>4, <2>1
<1>11. ASSUME NEW r \in Reqs, ResumeFromError(r, t) PROVE CaredFor(u)'
  <2> DEFINE failed == {d \in Defs : wf[t].runs[d] = "Error"}
  <2>1. /\ \A q \in Reqs : req[q].op # "idle" => req'[q] = req[q]
        /\ u # t => wf'[u] = wf[u]
        /\ req'[r] = RequestOf("start", t, failed)
    BY <1>3, <1>11 DEF ResumeFromError, Put, Accept, IdleReq
  <2>2. CASE u # t
    BY <1>4, <2>1, <2>2
  <2>3. CASE u = t
    <3>1. wf[t] \in Entry
      BY <1>11, EntryWhenLive DEF ResumeFromError
    <3>2. wf'[t].runs = [d \in Defs |-> IF d \in failed THEN "Idle" ELSE wf[t].runs[d]]
      BY <1>3, <1>11, <3>1 DEF ResumeFromError, Put, WithState, Entry
    <3>3. PICK d \in failed : wf'[t].runs[d] # "Running"
      BY <1>11, <3>2 DEF ResumeFromError
    <3>4. Pledged(r, t)'
      BY <2>1, <3>3 DEF Pledged, RequestOf
    <3> QED BY <2>3, <3>4 DEF CaredFor
  <2> QED BY <2>2, <2>3
<1>12. ASSUME NEW r \in Reqs, NEW d \in Defs, RetryDef(r, t, d) PROVE CaredFor(u)'
  <2>1. /\ \A q \in Reqs : req[q].op # "idle" => req'[q] = req[q]
        /\ u # t => wf'[u] = wf[u]
        /\ req'[r] = RequestOf("start", t, {d})
    BY <1>3, <1>12 DEF RetryDef, Put, Accept, IdleReq
  <2>2. CASE u # t
    BY <1>4, <2>1, <2>2
  <2>3. CASE u = t
    <3>1. wf[t] \in Entry
      BY <1>12, EntryWhenLive DEF RetryDef
    <3>2. wf'[t].runs[d] = "Idle"
      BY <1>3, <1>12, <3>1 DEF RetryDef, Put, WithRun, Entry
    <3>3. Pledged(r, t)'
      BY <2>1, <3>2 DEF Pledged, RequestOf
    <3> QED BY <2>3, <3>3 DEF CaredFor
  <2> QED BY <2>2, <2>3
<1> QED
  BY <1>5, <1>6, <1>7, <1>8, <1>9, <1>10, <1>11, <1>12 DEF OperatorNext

(* The ways a step of driver d may stop working for its ticket.            *)
Leaves(d) == Done(d) \/ Completed(d) \/ CancelledQuietly(d) \/ Fail(d)
             \/ (ReapWorkers(d) /\ drv[d].res = "ok")

LEMMA DriverTasks ==
    ASSUME TypeCore, ResultAt, NEW d \in Drivers, DriverNext(d)
    PROVE  /\ ResultAt'
           /\ \A e \in Drivers \ {d} : \A u : Works(drv, e, u) => Works(drv', e, u)
           /\ Leaves(d) \/ Works(drv', d, drv[d].tk)
<1>a. drv[d] \in Task /\ drv[d].tk \in Tickets BY DriverIsLive
<1>b. drv \in Tasks BY DEF TypeCore
<1>c. drv[d].pc # "idle" BY <1>a DEF Task, TaskPcs, HoldPcs
<1> USE DEF At
<1>1. ASSUME NEW e \in Drivers \ {d}
      PROVE  /\ drv'[e].pc = drv[e].pc
             /\ drv[e].pc # "idle" => drv'[e].tk = drv[e].tk /\ drv'[e].res = drv[e].res
  BY DriverSame DEF SameTask
<1> DEFINE Well == /\ drv'[d].res = "ok" => drv'[d].pc \in {"reap", "completed"}
                   /\ drv'[d].pc = "completed" => drv'[d].res = "ok"
           Stays == drv'[d].pc # "idle" /\ drv'[d].tk = drv[d].tk /\ drv'[d].res # "ok"
           Fine == (drv'[d].pc # "idle" => Well) /\ (Leaves(d) \/ Stays)
(* Steps within the work: the result is not touched.                       *)
<1>2. ASSUME BootEnter(d) \/ BootState(d) \/ BootCheck(d) \/ WorktreeLock(d) \/ Worktree(d)
           \/ ShellAcquire(d) \/ ShellOk(d) \/ Bootstrapped(d) \/ ImageFound(d) \/ Gate(d) \/ SlotAcquire(d)
           \/ AgentLabel(d) \/ AgentOk(d) \/ LastStepFails(d) \/ CancelledAsFailure(d)
      PROVE  Fine
  <2>1. drv[d].res # "ok"
    BY <1>2, <1>c DEF ResultAt, BootEnter, BootState, BootCheck, WorktreeLock, Worktree,
       ShellAcquire, ShellOk, Bootstrapped, ImageFound, Gate, SlotAcquire, AgentLabel, AgentOk,
       LastStepFails, CancelledAsFailure
  <2>2. /\ drv'[d].res = drv[d].res /\ drv'[d].tk = drv[d].tk
        /\ drv'[d].pc \in {"bootState", "bootCheck", "lock", "worktree", "shellSlot", "shell",
                           "image", "gate", "slot", "label", "agent", "done", "fail"}
    BY <1>2, <1>a, <1>b DEF BootEnter, BootState, BootCheck, WorktreeLock, Worktree,
       ShellAcquire, ShellOk, Bootstrapped, ImageFound, Gate, SlotAcquire, AgentLabel, AgentOk,
       LastStepFails, CancelledAsFailure, NextStep, Goto, Step, Tasks, Task
  <2> QED BY <2>1, <2>2
<1>3. ASSUME WorktreeFails(d) \/ ShellFails(d) \/ DockerUnavailable(d) \/ AgentFails(d) \/ ObserveCancel(d)
      PROVE  Fine
  <2>1. drv'[d].res \in {"err", "cancelled"} /\ drv'[d].pc = "reap" /\ drv'[d].tk = drv[d].tk
    BY <1>3, <1>a, <1>b DEF WorktreeFails, ShellFails, DockerUnavailable, AgentFails, ObserveCancel,
       Finish, Tasks, Task
  <2> QED BY <2>1
<1>4. ASSUME Done(d) PROVE Fine
  <2>1. drv'[d].pc = "reap"
    BY <1>4, <1>a, <1>b DEF Done, Finish, Tasks, Task
  <2> QED BY <1>4, <2>1 DEF Leaves
<1>5. ASSUME ReapWorkers(d) PROVE Fine
  <2> DEFINE R == Reap(drv, drv[d].tk)
  <2>1. R[d] \in Task /\ R[d].res = drv[d].res /\ R[d].tk = drv[d].tk
    BY <1>a, <1>b DEF Reap, Task
  <2>2. drv'[d] = [R[d] EXCEPT !.pc = CASE drv[d].res = "ok" -> "completed"
                                        [] drv[d].res = "cancelled" -> "cancelled"
                                        [] OTHER -> "fail"]
    BY <1>5, <2>1 DEF ReapWorkers, Reap
  <2>3. /\ drv'[d].res = drv[d].res /\ drv'[d].tk = drv[d].tk
        /\ drv'[d].pc = CASE drv[d].res = "ok" -> "completed"
                          [] drv[d].res = "cancelled" -> "cancelled"
                          [] OTHER -> "fail"
    BY <2>1, <2>2 DEF Task
  <2> HIDE DEF R
  <2> QED BY <1>5, <2>3 DEF Leaves
<1>6. ASSUME Completed(d) \/ CancelledQuietly(d) \/ Fail(d) PROVE Fine
  <2>1. drv'[d] = IdleDriver
    BY <1>6, <1>b DEF Completed, CancelledQuietly, Fail, Exit, Tasks
  <2> QED BY <1>6, <2>1 DEF Leaves, IdleDriver
<1>7. Fine
  BY <1>2, <1>3, <1>4, <1>5, <1>6 DEF DriverNext
<1>8. ResultAt'
  BY <1>1, <1>7 DEF ResultAt
<1>9. \A e \in Drivers \ {d} : \A u : Works(drv, e, u) => Works(drv', e, u)
  BY <1>1 DEF Works
<1> QED BY <1>7, <1>8, <1>9 DEF Works

(* Drivers keep Driven: a driver that leaves its ticket has made the item  *)
(* Done or Error, had finished, or leaves an item that is not active.      *)
LEMMA DriverDriven ==
    ASSUME TypeCore, ResultAt, Driven, NEW d \in Drivers, DriverNext(d)
    PROVE  Driven'
<1> SUFFICES ASSUME NEW u \in Tickets, InProgress(u)', ~suppress'
             PROVE  CaredFor(u)'
  BY DEF Driven
<1>1. req' = req /\ suppress' = suppress
  BY DEF DriverNext, NoChangeButDrv, BootEnter, BootState, BootCheck, WorktreeLock, Worktree,
         WorktreeFails, ShellAcquire, ShellOk, ShellFails, Bootstrapped, ImageFound, Gate,
         DockerUnavailable, SlotAcquire, AgentLabel, AgentOk, AgentFails,
         LastStepFails, ObserveCancel, Done, ReapWorkers, Completed, CancelledQuietly,
         CancelledAsFailure, Fail
<1>2. PICK t \in Tickets : t = drv[d].tk
  BY DriverIsLive
<1>3. wf \in [Tickets -> Entry \cup {NoEntry}] /\ drv[d].df \in Defs
  BY DriverIsLive DEF TypeCore
<1>4. u # t => wf'[u] = wf[u]
  BY <1>2, <1>3 DEF DriverNext, NoChangeButDrv, PutIfLive, BootEnter, BootState, BootCheck, WorktreeLock,
         Worktree, WorktreeFails, ShellAcquire, ShellOk, ShellFails, Bootstrapped, ImageFound, Gate,
         DockerUnavailable, SlotAcquire, AgentLabel, AgentOk, AgentFails,
         LastStepFails, ObserveCancel, Done, ReapWorkers, Completed, CancelledQuietly,
         CancelledAsFailure, Fail
(* d was not the one that worked for u, and u was in progress before.      *)
<1>5. ASSUME InProgress(u), ~Works(drv, d, u),
             \A x \in Defs : wf'[u].runs[x] = "Running" => wf[u].runs[x] = "Running"
      PROVE  CaredFor(u)'
  <2>1. CaredFor(u)
    BY <1>1, <1>5 DEF Driven
  <2>2. \A e \in Drivers : Works(drv, e, u) => Works(drv', e, u)
    BY <1>5, DriverTasks
  <2>3. \A r \in Reqs : Pledged(r, u) => Pledged(r, u)'
    <3> SUFFICES ASSUME NEW r \in Reqs, Pledged(r, u) PROVE Pledged(r, u)'
      OBVIOUS
    <3>1. req[r] \in Request
      BY RequestWhenBusy DEF Pledged
    <3>2. req[r].todo \subseteq Defs
      BY <3>1 DEF Request
    <3> QED BY <1>1, <1>5, <3>2 DEF Pledged
  <2> QED BY <2>1, <2>2, <2>3, StaysCaredFor
<1>6. CASE u # t
  <2>1. InProgress(u) /\ ~Works(drv, d, u)
    BY <1>2, <1>4, <1>6, SameProgress DEF Works
  <2> QED BY <1>4, <1>5, <1>6, <2>1
<1>7. CASE u = t /\ Works(drv', d, t)
  BY <1>7 DEF CaredFor, Works
<1>8. CASE u = t /\ Done(d)
  <2>1. wf[t].live => wf[t] \in Entry
    BY EntryWhenLive
  <2>2. wf'[t].live => wf'[t].st.k = "Done"
    BY <1>2, <1>3, <1>8, <2>1 DEF Done, PutIfLive, WithState, Plain, Entry
  <2> QED BY <1>8, <2>2 DEF InProgress, IsActive, ActiveKinds, Bootstraps
<1>9. CASE u = t /\ Fail(d)
  <2>1. CASE ~wf[t].live
    BY <1>2, <1>9, <2>1 DEF Fail, PutIfLive, InProgress
  <2>2. CASE wf[t].live
    <3>1. wf[t] \in Entry
      BY <2>2, EntryWhenLive
    <3>2. wf'[t] = FailedEntry(wf[t], drv[d].df)
      BY <1>2, <1>3, <1>9, <2>2 DEF Fail, PutIfLive
    <3>3. WithRun(wf[t], drv[d].df, "Error") \in Entry
          /\ WithRun(wf[t], drv[d].df, "Error").st = wf[t].st
      BY <1>3, <3>1, WithRunType DEF WithRun, Entry, RunStates
    <3>4. wf'[t].st.k \in TerminalKinds
      BY <3>2, <3>3 DEF FailedEntry, IsTerminal, TerminalKinds, WithState, Entry
    <3> QED BY <1>9, <3>4 DEF InProgress, IsActive, ActiveKinds, Bootstraps, TerminalKinds
  <2> QED BY <2>1, <2>2
<1>10. CASE u = t /\ CancelledQuietly(d)
  <2>1. wf' = wf /\ LeaveAsIs(t)
    BY <1>2, <1>10 DEF CancelledQuietly, NoChangeButDrv
  <2> QED BY <1>1, <1>10, <2>1 DEF LeaveAsIs, InProgress, IsActive, ActiveKinds, Bootstraps
<1>11. CASE u = t /\ ReapWorkers(d) /\ drv[d].res = "ok"
  <2>1. wf' = wf /\ ~Works(drv, d, u)
    BY <1>11 DEF ReapWorkers, NoChangeButDrv, Works
  <2>2. InProgress(u)
    BY <2>1, SameProgress
  <2> QED BY <1>5, <2>1, <2>2
<1>12. CASE u = t /\ Completed(d)
  <2>1. drv[d].res = "ok"
    BY <1>12 DEF Completed, At, ResultAt
  <2>2. wf[t].live
    BY <1>2, <1>12 DEF Completed, PutIfLive, InProgress
  <2>3. wf[t] \in Entry
    BY <2>2, EntryWhenLive
  <2>4. wf'[t] = WithRun(wf[t], drv[d].df, "Completed")
    BY <1>2, <1>3, <1>12, <2>2 DEF Completed, PutIfLive
  <2>5. /\ wf'[t].st = wf[t].st /\ wf'[t].runs = [wf[t].runs EXCEPT ![drv[d].df] = "Completed"]
        /\ wf'[t].lost = wf[t].lost \ {drv[d].df}
    BY <2>3, <2>4 DEF WithRun, Entry
  <2>6. \A x \in Defs : wf'[t].runs[x] = "Running"
                         => wf[t].runs[x] = "Running" /\ x # drv[d].df
    BY <1>3, <2>3, <2>5 DEF Entry
  <2>7. InProgress(t)
    BY <1>12, <2>2, <2>5, <2>6 DEF InProgress, RunningDefs, IsActive
  <2> QED BY <1>5, <1>12, <2>1, <2>6, <2>7 DEF Works
<1> QED BY <1>2, <1>6, <1>7, <1>8, <1>9, <1>10, <1>11, <1>12, DriverTasks DEF Leaves

(* For every number of tickets, tasks, requests and flows that do not      *)
(* depend on each other and stay on disk: an item that is shown in         *)
(* progress has a driver that has not finished, or a start under way,      *)
(* unless the client that started it hung up between the map write and the *)
(* spawn (start_workflow_def and resume_workflow await in between).        *)
(* With dependencies resume_from_error can leave a Running definition      *)
(* behind and be refused, and without the TOML file resume spawns nothing: *)
(* both hypotheses are needed.                                             *)
THEOREM ActiveItemsAreDriven ==
    ASSUME IndependentFlows
    PROVE  Spec => []ActiveHasDriver
<1> DEFINE I == ResultAt /\ Driven
<1>1. Init => I
  BY DEF Init, NoEntry, IdleDriver, ResultAt, Driven, InProgress
<1>2. ASSUME IInv, I, [Next]_vars PROVE I'
  <2>1. ASSUME NEW t \in Tickets, OperatorNext(t) PROVE I'
    BY <1>2, <2>1, OperatorKeepsTasks, KeptFacts, OperatorDriven DEF IInv
  <2>2. ASSUME NEW r \in Reqs, RequestNext(r) \/ Drop(r) PROVE I'
    BY <1>2, <2>2, RequestKeepsTasks, KeptFacts, RequestDriven, DropDriven DEF IInv
  <2>3. ASSUME NEW d \in Drivers, DriverNext(d) PROVE I'
    BY <1>2, <2>3, DriverTasks, DriverDriven DEF IInv
  <2>4. CASE InterruptBegin
    BY <1>2, <2>4 DEF InterruptBegin, ResultAt, Driven
  <2>5. CASE UNCHANGED vars
    BY <1>2, <2>5 DEF vars, ResultAt, Driven, InProgress, RunningDefs, IsActive, CaredFor, Works, Pledged
  <2> QED BY <1>2, <2>1, <2>2, <2>3, <2>4, <2>5 DEF Next
<1>3. IInv /\ I => ActiveHasDriver
  <2> SUFFICES ASSUME Reservations, Driven, NEW t \in Tickets, InProgress(t), ~suppress
               PROVE  (\E d \in DriversOf(t) : Unfinished(d)) \/ BeingStarted(t)
    BY DEF ActiveHasDriver, IInv
  <2>1. CASE \E r \in Reqs : Pledged(r, t)
    BY <2>1 DEF Pledged, BeingStarted
  <2>2. ASSUME NEW e \in Drivers, Works(drv, e, t)
        PROVE  (Unfinished(e) /\ e \in DriversOf(t)) \/ BeingStarted(t)
    <3>1. CASE Spawned(e)
      BY <2>2, <3>1 DEF Works, Unfinished, DriversOf, Live
    <3>2. CASE ~Spawned(e)
      BY <2>2, <3>2 DEF Works, Reservations, Reservation, Live, BeingStarted
    <3> QED BY <3>1, <3>2
  <2> QED BY <2>1, <2>2 DEF Driven, CaredFor
<1> QED BY <1>1, <1>2, <1>3, Invariance, PTL DEF Spec
=============================================================================
