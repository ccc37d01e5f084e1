--------------------------- MODULE WorkflowEngine ---------------------------
(***************************************************************************)
(* The workflow engine of takuto-core (crates/takuto-core/src/workflow/    *)
(* engine): the in-memory map of work items, the operator's requests       *)
(* (start, pause, resume, stop, retry, delete, mark done), the driver      *)
(* tasks that run a workflow definition for a ticket, the semaphore that   *)
(* bounds concurrent agent runs, and the shutdown interrupt.               *)
(*                                                                         *)
(* One action is one critical section: the code between two awaits that    *)
(* runs under the map's lock.  A handler that unlocks the map and locks    *)
(* it again is split at that point and keeps what it read in `req`.        *)
(*                                                                         *)
(* A CancellationToken is modelled by its holders.  cx says a holder's     *)
(* token is cancelled; drv[d].cur says a driver holds the very token that  *)
(* the map entry holds.  Replacing the entry's token (pause, start of a    *)
(* definition, a new run) leaves the drivers with the old one: cur becomes *)
(* FALSE for them and no later stop or pause reaches them.                 *)
(*                                                                         *)
(* start and resume write the map, await the database and spawn the driver *)
(* afterwards.  The token that the handler holds meanwhile is that of the  *)
(* driver it is going to spawn, so the driver's slot is reserved with the  *)
(* map write (drv[d].by) and begins to run with Spawn.  A handler is       *)
(* dropped at any await when its client hangs up (Drop).                   *)
(***************************************************************************)
EXTENDS Integers, Sequences, FiniteSets

CONSTANTS
    Tickets,    \* ticket keys
    Defs,       \* workflow definitions (flows) of the owner
    DependsOn,  \* [Defs -> SUBSET Defs], the `depends_on` lists
    TomlDefs,   \* the definitions discover_workflows finds on disk
    Drivers,    \* slots for spawned drive_workflow_def tasks
    Reqs,       \* slots for requests that are being handled
    Permits,    \* max_concurrent_workflows, permits of the semaphore
    NumSteps,   \* steps of a definition, repeats counted
    ShellTasks, \* mise install and init commands of the bootstrap
    BootStates, \* states the bootstrap walks through, in order
    Ops,        \* operations the environment issues (a bound)
    NoDef       \* "no definition"

(* What the environment may ask of the engine.                             *)
AllOps == {"add", "addToDashboard", "start", "retryDef", "pause", "resume",
           "stop", "retry", "resumeFromError", "delete", "markDone",
           "interrupt"}

(* Active states: is_active() of state.rs.                                 *)
Bootstraps == {"Assigning", "RetrievingDetails", "CreatingWorktree"}
ActiveKinds == {"Pending", "AddressingTicket"} \cup Bootstraps

ASSUME EngineAssumption ==
    /\ Permits \in Nat \ {0}
    /\ NumSteps \in Nat \ {0}
    /\ ShellTasks \in Nat
    /\ BootStates \in {<<"CreatingWorktree">>,
                       <<"Assigning", "RetrievingDetails", "CreatingWorktree">>}
    /\ DependsOn \in [Defs -> SUBSET Defs]
    /\ TomlDefs \subseteq Defs
    /\ Ops \subseteq AllOps
    /\ NoDef \notin Defs
    /\ IsFiniteSet(Drivers)

VARIABLES
    wf,       \* [Tickets -> Entry or NoEntry]: WorkflowRepository's map
    drv,      \* [Drivers -> task]: the spawned driver tasks
    req,      \* [Reqs -> request]: handlers between two critical sections
    permits,  \* available permits of agent_run_semaphore
    prep,     \* prepare_worktree_for_ticket tasks in flight, see Stages
    suppress, \* suppress_cancelled_as_error
    killed    \* tickets whose containers persist_interrupt removed

vars == <<wf, drv, req, permits, prep, suppress, killed>>
-----------------------------------------------------------------------------
(* WorkflowState.  src is the state that Paused and Error wrap; only the   *)
(* source of Paused is ever read back (resume_workflow).                   *)
TerminalKinds == {"Done", "Stopped", "Error"}
Kinds == ActiveKinds \cup TerminalKinds \cup {"Paused"}
Plain(k) == [k |-> k, src |-> "none"]
WorkflowState == [k : Kinds, src : Kinds \cup {"none"}]
IsActive(s) == s.k \in ActiveKinds
IsTerminal(s) == s.k \in TerminalKinds
IsPaused(s) == s.k = "Paused"

(* WorkflowDefRunState; Idle also stands for a missing entry of the map.   *)
RunStates == {"Idle", "Running", "Completed", "Error"}

NoEntry == [live |-> FALSE]
Entry == [live : {TRUE}, st : WorkflowState, runs : [Defs -> RunStates],
          cx : BOOLEAN, started : BOOLEAN, wt : BOOLEAN, boot : BOOLEAN,
          lost : SUBSET Defs]

(* Workflow::new.  lost is history: the definitions that were Running when *)
(* a request to start or resume the item was dropped.                      *)
NewEntry == [live |-> TRUE, st |-> Plain("Pending"),
             runs |-> [d \in Defs |-> "Idle"], cx |-> FALSE,
             started |-> FALSE, wt |-> FALSE, boot |-> FALSE, lost |-> {}]

(* Where a driver task is.  The slot of the semaphore is held in HoldPcs.  *)
HoldPcs == {"shell", "label", "agent"}
TaskPcs == {"boot", "bootState", "bootCheck", "lock", "worktree",
            "shellSlot", "image", "gate", "slot", "done", "reap", "completed", "cancelled", "fail"}
           \cup HoldPcs
Results == {"none", "ok", "cancelled", "err"}
IdleDriver == [pc |-> "idle"]

(* A driver task: its ticket and definition, its cancellation token (cur,  *)
(* cx), whether it holds the worktree_lock of the entry that is in the map *)
(* (lk), the bootstrap state, shell task or step it is at (n), whether its *)
(* worker container was force-removed (hit), its result (res) and the      *)
(* request that has yet to spawn it (by, empty once it runs).              *)
Task == [pc : TaskPcs, tk : Tickets, df : Defs, cur : BOOLEAN, cx : BOOLEAN,
         lk : BOOLEAN, n : Nat, hit : BOOLEAN, res : Results,
         by : SUBSET Reqs]

(* A request between its critical sections.  `todo` are the definitions it *)
(* still has to start, `df` the one whose check passed, `wt` whether that  *)
(* check found a bootstrapped worktree.                                    *)
IdleReq == [op |-> "idle"]
Request == [op : {"insert", "retry", "start", "delete", "markDone"},
            tk : Tickets, todo : SUBSET Defs, df : Defs \cup {NoDef},
            wt : BOOLEAN]
RequestOf(op, t, ds) ==
    [op |-> op, tk |-> t, todo |-> ds, df |-> NoDef, wt |-> FALSE]

(* A preparation waits for the worktree_lock of the entry, creates the     *)
(* worktree under it, or does so for an entry that has left the map.       *)
Stages == {"waits", "creates", "stale"}

Live(d) == drv[d].pc # "idle"
Spawned(d) == Live(d) /\ drv[d].by = {}
Reserved(r) == {d \in Drivers : Live(d) /\ drv[d].by = {r}}
DriversOf(t) == {d \in Drivers : Live(d) /\ drv[d].tk = t}
Holders == {d \in Drivers : drv[d].pc \in HoldPcs}
RunningDefs(t) == {d \in Defs : wf[t].runs[d] = "Running"}

Init ==
    /\ wf = [t \in Tickets |-> NoEntry]
    /\ drv = [d \in Drivers |-> IdleDriver]
    /\ req = [r \in Reqs |-> IdleReq]
    /\ permits = Permits
    /\ prep = {}
    /\ suppress = FALSE
    /\ killed = {}
-----------------------------------------------------------------------------
(* Helpers on the shared state.                                            *)

Put(t, e) == wf' = [wf EXCEPT ![t] = e]

(* Write through the map entry if the ticket is still there.               *)
PutIfLive(t, e) == wf' = IF wf[t].live THEN [wf EXCEPT ![t] = e] ELSE wf

WithState(e, s) == [e EXCEPT !.st = s]
WithRun(e, d, r) == [e EXCEPT !.runs = [e.runs EXCEPT ![d] = r],
                              !.lost = @ \ {d}]

(* CancellationToken::cancel on the token the map entry of t holds: it     *)
(* reaches the drivers that still hold that same token.                    *)
CancelCurrent(D, t) ==
    [d \in Drivers |->
        IF D[d].pc # "idle" /\ D[d].tk = t /\ D[d].cur
        THEN [D[d] EXCEPT !.cx = TRUE] ELSE D[d]]

(* The entry's token is replaced: older drivers keep the old token.        *)
Detach(D, t) ==
    [d \in Drivers |->
        IF D[d].pc # "idle" /\ D[d].tk = t
        THEN [D[d] EXCEPT !.cur = FALSE] ELSE D[d]]

(* The entry leaves the map: nobody shares its token or its worktree_lock  *)
(* any longer.                                                             *)
Orphan(D, t) ==
    [d \in Drivers |->
        IF D[d].pc # "idle" /\ D[d].tk = t
        THEN [D[d] EXCEPT !.cur = FALSE, !.lk = FALSE] ELSE D[d]]

OrphanPrep(t) ==
    {IF p = <<t, "creates">> THEN <<t, "stale">> ELSE p : p \in prep}

(* ContainerRunner::cleanup_for_ticket: every worker container of the      *)
(* ticket is force-removed, whichever definition started it.               *)
Reap(D, t) ==
    [d \in Drivers |->
        IF D[d].pc \in {"agent", "shell"} /\ D[d].tk = t
        THEN [D[d] EXCEPT !.hit = TRUE] ELSE D[d]]

(* The arguments of drive_workflow_def, as request r holds them until the  *)
(* spawn.  haveWt: worktree_path is Some, so the bootstrap is skipped.     *)
NewTask(r, t, df, cx, haveWt) ==
    [pc |-> IF haveWt THEN "image" ELSE "boot", tk |-> t, df |-> df,
     cur |-> TRUE, cx |-> cx, lk |-> FALSE, n |-> 1, hit |-> FALSE,
     res |-> "none", by |-> {r}]

Reply(r) == req' = [req EXCEPT ![r] = IdleReq]

Accept(op, r) == op \in Ops /\ req[r] = IdleReq
-----------------------------------------------------------------------------
(* Requests.                                                               *)

(* The pollers and the manual start route look for the ticket in the map   *)
(* first; start_workflow / add_to_dashboard insert later, after the        *)
(* durable insert of the work_items row.                                   *)
AddCheck(r, t) ==
    /\ ~wf[t].live
    /\ \/ /\ Accept("add", r)
          /\ req' = [req EXCEPT ![r] =
                RequestOf("insert", t, {d \in Defs : DependsOn[d] = {}})]
       \/ /\ Accept("addToDashboard", r)
          /\ req' = [req EXCEPT ![r] = RequestOf("insert", t, {})]
    /\ UNCHANGED <<wf, drv, permits, prep, suppress, killed>>

(* The map insert of start_workflow and add_to_dashboard.  It replaces an  *)
(* entry that another request inserted meanwhile.  add_to_dashboard starts *)
(* nothing and spawns the task that creates the worktree ahead of time.    *)
Insert(r) ==
    LET t == req[r].tk IN
    /\ req[r].op = "insert"
    /\ Put(t, NewEntry)
    /\ drv' = Orphan(drv, t)
    /\ IF req[r].todo = {}
       THEN Reply(r) /\ prep' = OrphanPrep(t) \cup {<<t, "waits">>}
       ELSE /\ req' = [req EXCEPT ![r] = [req[r] EXCEPT !.op = "start"]]
            /\ prep' = OrphanPrep(t)
    /\ UNCHANGED <<permits, suppress, killed>>

(* persist_new_work_item failed three times: nothing is inserted.          *)
InsertFails(r) ==
    /\ req[r].op = "insert"
    /\ Reply(r)
    /\ UNCHANGED <<wf, drv, permits, prep, suppress, killed>>

(* The route that starts one definition.                                   *)
StartDef(r, t, d) ==
    /\ Accept("start", r)
    /\ wf[t].live
    /\ req' = [req EXCEPT ![r] = RequestOf("start", t, {d})]
    /\ UNCHANGED <<wf, drv, permits, prep, suppress, killed>>

DepsMet(t, d) == \A p \in DependsOn[d] : wf[t].runs[p] = "Completed"
MayStart(t, d) == wf[t].live /\ wf[t].runs[d] # "Running" /\ DepsMet(t, d)

(* The loops of start_workflow and resume_from_error come to the next      *)
(* definition when the last one has its driver.                            *)
Starting(r) == req[r].op = "start" /\ Reserved(r) = {}

(* start_workflow_def, first half: the checks under the read lock.         *)
StartCheck(r, d) ==
    LET t == req[r].tk IN
    /\ Starting(r) /\ req[r].df = NoDef /\ d \in req[r].todo
    /\ MayStart(t, d)
    /\ req' = [req EXCEPT ![r] =
          [req[r] EXCEPT !.df = d, !.wt = wf[t].boot /\ wf[t].wt]]
    /\ UNCHANGED <<wf, drv, permits, prep, suppress, killed>>

(* Not found, already running or dependencies not met: the error is        *)
(* returned, or logged by the loops of start_workflow, resume_from_error.  *)
StartRefused(r, d) ==
    /\ Starting(r) /\ req[r].df = NoDef /\ d \in req[r].todo
    /\ ~MayStart(req[r].tk, d)
    /\ req' = [req EXCEPT ![r] = IF req[r].todo = {d} THEN IdleReq
                                 ELSE [req[r] EXCEPT !.todo = @ \ {d}]]
    /\ UNCHANGED <<wf, drv, permits, prep, suppress, killed>>

(* start_workflow_def, second half: under the write lock only the presence *)
(* of the entry is checked again.  The handler then awaits the write of    *)
(* the run's row and comes to Spawn.                                       *)
StartCommit(r) ==
    LET t == req[r].tk
        d == req[r].df IN
    /\ Starting(r) /\ d # NoDef
    /\ IF wf[t].live
       THEN \E k \in Drivers :
              /\ ~Live(k)
              /\ Put(t, [WithRun(wf[t], d, "Running")
                            EXCEPT !.cx = FALSE, !.started = TRUE])
              /\ drv' = [Detach(drv, t) EXCEPT
                            ![k] = NewTask(r, t, d, FALSE, req[r].wt)]
              /\ req' = [req EXCEPT ![r] =
                            RequestOf("start", t, req[r].todo \ {d})]
       ELSE /\ req' = [req EXCEPT ![r] =
                  IF req[r].todo = {d} THEN IdleReq
                  ELSE RequestOf("start", t, req[r].todo \ {d})]
            /\ UNCHANGED <<wf, drv>>
    /\ UNCHANGED <<permits, prep, suppress, killed>>

(* tokio::spawn of start_workflow_def and, one definition after the other, *)
(* of resume_workflow.                                                     *)
Spawn(r, k) ==
    /\ k \in Reserved(r)
    /\ drv' = [drv EXCEPT ![k].by = {}]
    /\ req' = IF Reserved(r) = {k} /\ req[r].todo = {}
              THEN [req EXCEPT ![r] = IdleReq] ELSE req
    /\ UNCHANGED <<wf, permits, prep, suppress, killed>>

(* The client hangs up: axum drops the handler at the await it has come    *)
(* to, with the token and the driver arguments it holds.                   *)
Drop(r) ==
    LET t == req[r].tk IN
    /\ req[r].op # "idle"
    /\ wf' = IF req[r].op = "start" /\ wf[t].live
             THEN [wf EXCEPT ![t] = [@ EXCEPT !.lost = RunningDefs(t)]]
             ELSE wf
    /\ drv' = [d \in Drivers |->
                 IF d \in Reserved(r) THEN IdleDriver ELSE drv[d]]
    /\ Reply(r)
    /\ UNCHANGED <<permits, prep, suppress, killed>>

(* retry_workflow_def: Error to Idle, then start_workflow_def.             *)
RetryDef(r, t, d) ==
    /\ Accept("retryDef", r)
    /\ wf[t].live /\ wf[t].runs[d] = "Error"
    /\ Put(t, WithRun(wf[t], d, "Idle"))
    /\ req' = [req EXCEPT ![r] = RequestOf("start", t, {d})]
    /\ UNCHANGED <<drv, permits, prep, suppress, killed>>

(* pause_workflow: cancel, wrap the state, install a fresh token, and      *)
(* force-remove the ticket's worker containers.                            *)
Pause(t) ==
    /\ "pause" \in Ops
    /\ wf[t].live /\ IsActive(wf[t].st)
    /\ Put(t, [WithState(wf[t], [k |-> "Paused", src |-> wf[t].st.k])
                 EXCEPT !.cx = FALSE])
    /\ drv' = Reap(Detach(CancelCurrent(drv, t), t), t)
    /\ UNCHANGED <<req, permits, prep, suppress, killed>>

(* resume_workflow, up to the first await: restore the source state and    *)
(* take a clone of the current token for a driver of every Running         *)
(* definition that is found among the TOML files.  It passes the worktree  *)
(* whenever there is one.                                                  *)
Resume(r, t) ==
    LET respawn == RunningDefs(t) \cap TomlDefs
        free == {k \in Drivers : ~Live(k)} IN
    /\ Accept("resume", r)
    /\ wf[t].live /\ IsPaused(wf[t].st)
    /\ Put(t, [WithState(wf[t], Plain(wf[t].st.src))
                 EXCEPT !.lost = @ \ respawn])
    /\ req' = IF respawn = {} THEN req
              ELSE [req EXCEPT ![r] = RequestOf("start", t, {})]
    /\ \E f \in [respawn -> free] :
          /\ \A a, b \in respawn : f[a] = f[b] => a = b
          /\ drv' = [k \in Drivers |->
               IF \E d \in respawn : f[d] = k
               THEN NewTask(r, t, CHOOSE d \in respawn : f[d] = k,
                            wf[t].cx, wf[t].wt)
               ELSE drv[k]]
    /\ UNCHANGED <<permits, prep, suppress, killed>>

(* stop_workflow: accepted in every state; the definition runs are left as *)
(* they are.                                                               *)
Stop(t) ==
    /\ "stop" \in Ops
    /\ wf[t].live
    /\ Put(t, [WithState(wf[t], Plain("Stopped")) EXCEPT !.cx = TRUE])
    /\ drv' = Reap(CancelCurrent(drv, t), t)
    /\ UNCHANGED <<req, permits, prep, suppress, killed>>

(* retry_workflow: check under the read lock; remove the entry under the   *)
(* write lock; start_workflow (Insert or InsertFails).                     *)
RetryCheck(r, t) ==
    /\ Accept("retry", r)
    /\ wf[t].live /\ IsTerminal(wf[t].st)
    /\ req' = [req EXCEPT ![r] = RequestOf("retry", t, {})]
    /\ UNCHANGED <<wf, drv, permits, prep, suppress, killed>>

RetryRemove(r) ==
    LET t == req[r].tk IN
    /\ req[r].op = "retry"
    /\ Put(t, NoEntry)
    /\ drv' = Orphan(drv, t)
    /\ req' = [req EXCEPT ![r] =
          RequestOf("insert", t, {d \in Defs : DependsOn[d] = {}})]
    /\ prep' = OrphanPrep(t)
    /\ UNCHANGED <<permits, suppress, killed>>

(* resume_from_error: every Error definition becomes Idle, the state       *)
(* Pending, and the definitions are started one after the other.           *)
ResumeFromError(r, t) ==
    LET failed == {d \in Defs : wf[t].runs[d] = "Error"} IN
    /\ Accept("resumeFromError", r)
    /\ wf[t].live /\ wf[t].st.k \in {"Error", "Stopped"}
    /\ failed # {}
    /\ Put(t, [WithState(wf[t], Plain("Pending")) EXCEPT
         !.runs = [d \in Defs |-> IF d \in failed THEN "Idle"
                                  ELSE wf[t].runs[d]]])
    /\ req' = [req EXCEPT ![r] = RequestOf("start", t, failed)]
    /\ UNCHANGED <<drv, permits, prep, suppress, killed>>

(* delete_workflow, first half: the guard under the read lock, then the    *)
(* token it read is cancelled and the containers are removed, and (best    *)
(* effort) the worktree.                                                   *)
DeleteCheck(r, t) ==
    /\ Accept("delete", r)
    /\ wf[t].live /\ ~(IsActive(wf[t].st) /\ wf[t].started)
    /\ \E gone \in BOOLEAN :
         Put(t, [wf[t] EXCEPT !.cx = TRUE, !.wt = @ /\ ~gone])
    /\ drv' = Reap(CancelCurrent(drv, t), t)
    /\ req' = [req EXCEPT ![r] = RequestOf("delete", t, {})]
    /\ UNCHANGED <<permits, prep, suppress, killed>>

(* mark_work_done, first half: only a Done item; containers are removed.   *)
MarkDoneCheck(r, t) ==
    /\ Accept("markDone", r)
    /\ wf[t].live /\ wf[t].st.k = "Done"
    /\ drv' = Reap(drv, t)
    /\ req' = [req EXCEPT ![r] = RequestOf("markDone", t, {})]
    /\ UNCHANGED <<wf, permits, prep, suppress, killed>>

(* Second half of both: remove whatever entry has this key now.            *)
RemoveByKey(r) ==
    LET t == req[r].tk IN
    /\ req[r].op \in {"delete", "markDone"}
    /\ Put(t, NoEntry)
    /\ drv' = Orphan(drv, t)
    /\ prep' = OrphanPrep(t)
    /\ Reply(r)
    /\ UNCHANGED <<permits, suppress, killed>>

(* The ticket could not be closed or the worktree not removed: the item    *)
(* stays on the dashboard, possibly without its worktree.                  *)
MarkDoneKeeps(r) ==
    LET t == req[r].tk IN
    /\ req[r].op = "markDone"
    /\ \E gone \in BOOLEAN :
         PutIfLive(t, [wf[t] EXCEPT !.wt = @ /\ ~gone])
    /\ Reply(r)
    /\ UNCHANGED <<drv, permits, prep, suppress, killed>>

(* persist_interrupt: raise the flag; force-remove the containers of every *)
(* ticket; then cancel every ticket's current token.                       *)
InterruptBegin ==
    /\ "interrupt" \in Ops /\ ~suppress
    /\ suppress' = TRUE
    /\ UNCHANGED <<wf, drv, req, permits, prep, killed>>

InterruptReap(t) ==
    /\ suppress /\ t \notin killed
    /\ killed' = killed \cup {t}
    /\ drv' = IF wf[t].live THEN Reap(drv, t) ELSE drv
    /\ UNCHANGED <<wf, req, permits, prep, suppress>>

InterruptCancel(t) ==
    /\ killed = Tickets /\ wf[t].live /\ ~wf[t].cx
    /\ Put(t, [wf[t] EXCEPT !.cx = TRUE])
    /\ drv' = CancelCurrent(drv, t)
    /\ UNCHANGED <<req, permits, prep, suppress, killed>>
-----------------------------------------------------------------------------
(* The driver task, drive_workflow_def.                                    *)

At(d, pc) == drv[d].pc = pc /\ drv[d].by = {}
Goto(d, pc) == drv' = [drv EXCEPT ![d].pc = pc]
Step(d, pc, n) == drv' = [drv EXCEPT ![d].pc = pc, ![d].n = n]
Finish(d, res) == drv' = [drv EXCEPT ![d].pc = "reap", ![d].res = res,
                                     ![d].hit = FALSE, ![d].lk = FALSE]
Paused(t) == wf[t].live /\ IsPaused(wf[t].st)

(* wait_if_paused followed by check_cancelled (in either order): blocked   *)
(* while the item is Paused and the own token is not cancelled.            *)
PassGate(d) == ~drv[d].cx /\ ~Paused(drv[d].tk)
NoChangeButDrv == UNCHANGED <<wf, req, permits, prep, suppress, killed>>

BootEnter(d) ==
    /\ At(d, "boot") /\ PassGate(d)
    /\ Step(d, "bootState", 1)
    /\ NoChangeButDrv

(* transition(): Assigning and RetrievingDetails with Jira, and always     *)
(* CreatingWorktree.  The state is written whatever it was.                *)
BootState(d) ==
    LET t == drv[d].tk IN
    /\ At(d, "bootState")
    /\ PutIfLive(t, WithState(wf[t], Plain(BootStates[drv[d].n])))
    /\ Goto(d, "bootCheck")
    /\ UNCHANGED <<req, permits, prep, suppress, killed>>

BootCheck(d) ==
    /\ At(d, "bootCheck") /\ ~drv[d].cx
    /\ IF drv[d].n = Len(BootStates) THEN Step(d, "lock", 1)
       ELSE Step(d, "bootState", drv[d].n + 1)
    /\ NoChangeButDrv

(* The worktree_lock of the entry: one bootstrap or preparation of the     *)
(* entry at a time.  The wait does not watch the cancellation token, and   *)
(* the lock is held until the bootstrap returns.                           *)
LockFree(t) == /\ \A d \in DriversOf(t) : ~drv[d].lk
               /\ <<t, "creates">> \notin prep

WorktreeLock(d) ==
    LET t == drv[d].tk IN
    /\ At(d, "lock")
    /\ wf[t].live => LockFree(t)
    /\ drv' = [drv EXCEPT ![d].pc = "worktree", ![d].lk = wf[t].live]
    /\ NoChangeButDrv

(* A pre-created worktree is reused, otherwise one is created.             *)
Worktree(d) ==
    LET t == drv[d].tk IN
    /\ At(d, "worktree")
    /\ PutIfLive(t, [wf[t] EXCEPT !.wt = TRUE])
    /\ Step(d, "shellSlot", 1)
    /\ UNCHANGED <<req, permits, prep, suppress, killed>>

(* create_worktree failed, or Docker is not available.                     *)
WorktreeFails(d) ==
    /\ At(d, "worktree")
    /\ Finish(d, "err")
    /\ NoChangeButDrv

(* mise install and the init commands, each under a slot of the semaphore. *)
ShellAcquire(d) ==
    /\ At(d, "shellSlot") /\ drv[d].n <= ShellTasks /\ permits > 0
    /\ permits' = permits - 1
    /\ Goto(d, "shell")
    /\ UNCHANGED <<wf, req, prep, suppress, killed>>

ShellOk(d) ==
    /\ At(d, "shell") /\ ~drv[d].hit
    /\ permits' = permits + 1
    /\ Step(d, "shellSlot", drv[d].n + 1)
    /\ UNCHANGED <<wf, req, prep, suppress, killed>>

ShellFails(d) ==
    /\ At(d, "shell")
    /\ permits' = permits + 1
    /\ Finish(d, "err")
    /\ UNCHANGED <<wf, req, prep, suppress, killed>>

(* The whole bootstrap has run: worktree_bootstrapped = true.              *)
Bootstrapped(d) ==
    LET t == drv[d].tk IN
    /\ At(d, "shellSlot") /\ drv[d].n > ShellTasks
    /\ PutIfLive(t, [wf[t] EXCEPT !.boot = TRUE])
    /\ drv' = [drv EXCEPT ![d].pc = "image", ![d].n = 1, ![d].lk = FALSE]
    /\ UNCHANGED <<req, permits, prep, suppress, killed>>

(* run_workflow_def_steps: the worker image is looked up with docker       *)
(* inspect, which no token and no timeout ends.                            *)
ImageFound(d) ==
    /\ At(d, "image")
    /\ Goto(d, "gate")
    /\ NoChangeButDrv

(* ... without Docker.                                                     *)
DockerUnavailable(d) ==
    /\ At(d, "image")
    /\ Finish(d, "err")
    /\ NoChangeButDrv

(* Before every step: check_cancelled and wait_if_paused.                  *)
Gate(d) ==
    /\ At(d, "gate") /\ PassGate(d)
    /\ Goto(d, "slot")
    /\ NoChangeButDrv

(* Mutant of SlotAcquire: the permit is not awaited.                       *)
SlotAcquireUnbounded(d) ==
    /\ At(d, "slot")
    /\ permits' = permits - 1
    /\ Goto(d, "label")
    /\ UNCHANGED <<wf, req, prep, suppress, killed>>

(* acquire_agent_slot: select! takes the permit even when the token is     *)
(* cancelled at the same time.                                             *)
SlotAcquire(d) ==
    /\ At(d, "slot") /\ permits > 0
    /\ permits' = permits - 1
    /\ Goto(d, "label")
    /\ UNCHANGED <<wf, req, prep, suppress, killed>>

(* transition_to_agent_step: the state is written whatever it was.         *)
AgentLabel(d) ==
    LET t == drv[d].tk IN
    /\ At(d, "label")
    /\ PutIfLive(t, WithState(wf[t], Plain("AddressingTicket")))
    /\ Goto(d, "agent")
    /\ UNCHANGED <<req, permits, prep, suppress, killed>>

NextStep(d) == IF drv[d].n = NumSteps THEN Step(d, "done", 1)
               ELSE drv' = [drv EXCEPT ![d].pc = "gate", ![d].n = @ + 1,
                                       ![d].hit = FALSE]

(* The agent session, or the commands of a command step, ended well.       *)
AgentOk(d) ==
    /\ At(d, "agent") /\ ~drv[d].hit
    /\ permits' = permits + 1
    /\ NextStep(d)
    /\ UNCHANGED <<wf, req, prep, suppress, killed>>

(* A failure, a timeout, a no-progress loop or a removed container aborts  *)
(* the definition.                                                         *)
AgentFails(d) ==
    /\ At(d, "agent")
    /\ permits' = permits + 1
    /\ Finish(d, "err")
    /\ UNCHANGED <<wf, req, prep, suppress, killed>>

(* The last run of the last step may fail without aborting.                *)
LastStepFails(d) ==
    /\ At(d, "agent") /\ drv[d].n = NumSteps
    /\ permits' = permits + 1
    /\ drv' = [drv EXCEPT ![d].pc = "done", ![d].n = 1, ![d].hit = FALSE]
    /\ UNCHANGED <<wf, req, prep, suppress, killed>>

(* Mutants of ObserveCancel: the permit of a killed session is not given   *)
(* back; wait_if_paused does not watch the token.                          *)
ObserveCancelLeaks(d) ==
    /\ drv[d].pc \in {"boot", "bootCheck", "shellSlot", "shell", "gate",
                      "slot", "agent"}
    /\ drv[d].cx /\ Spawned(d)
    /\ At(d, "shellSlot") => drv[d].n <= ShellTasks
    /\ Finish(d, "cancelled")
    /\ NoChangeButDrv

ObserveCancelNotPaused(d) ==
    /\ drv[d].pc \in {"bootCheck", "shellSlot", "shell", "slot", "agent"}
    /\ drv[d].cx /\ Spawned(d)
    /\ At(d, "shellSlot") => drv[d].n <= ShellTasks
    /\ permits' = IF drv[d].pc \in HoldPcs THEN permits + 1 ELSE permits
    /\ Finish(d, "cancelled")
    /\ UNCHANGED <<wf, req, prep, suppress, killed>>

(* The own token is cancelled: at a check, while waiting for the pause or  *)
(* for a slot, or in the middle of a session, whose process is killed.     *)
ObserveCancel(d) ==
    /\ drv[d].pc \in {"boot", "bootCheck", "shellSlot", "shell", "gate",
                      "slot", "agent"}
    /\ drv[d].cx /\ Spawned(d)
    /\ At(d, "shellSlot") => drv[d].n <= ShellTasks
    /\ permits' = IF drv[d].pc \in HoldPcs THEN permits + 1 ELSE permits
    /\ Finish(d, "cancelled")
    /\ UNCHANGED <<wf, req, prep, suppress, killed>>

(* transition(Done) / transition_to_done_with_pr_url.                      *)
Done(d) ==
    LET t == drv[d].tk IN
    /\ At(d, "done")
    /\ PutIfLive(t, WithState(wf[t], Plain("Done")))
    /\ Finish(d, "ok")
    /\ UNCHANGED <<req, permits, prep, suppress, killed>>

(* Whatever the result, the ticket's worker containers are removed.        *)
ReapWorkers(d) ==
    /\ At(d, "reap")
    /\ drv' = [Reap(drv, drv[d].tk) EXCEPT
          ![d].pc = CASE drv[d].res = "ok" -> "completed"
                      [] drv[d].res = "cancelled" -> "cancelled"
                      [] OTHER -> "fail"]
    /\ NoChangeButDrv

Exit(d) == drv' = [drv EXCEPT ![d] = IdleDriver]

Completed(d) ==
    LET t == drv[d].tk IN
    /\ At(d, "completed")
    /\ PutIfLive(t, WithRun(wf[t], drv[d].df, "Completed"))
    /\ Exit(d)
    /\ UNCHANGED <<req, permits, prep, suppress, killed>>

(* Mutant of LeaveAsIs: a cancelled driver never reports.                  *)
LeaveAsIsAlways(t) == TRUE

(* A cancelled driver leaves everything as it is when the shutdown flag is *)
(* up, or the item is gone, Stopped or Paused...                           *)
LeaveAsIs(t) ==
    suppress \/ (wf[t].live => wf[t].st.k \in {"Stopped", "Paused"})

CancelledQuietly(d) ==
    /\ At(d, "cancelled") /\ LeaveAsIs(drv[d].tk)
    /\ Exit(d)
    /\ NoChangeButDrv

(* ... and is treated as failed in any other state.                        *)
CancelledAsFailure(d) ==
    /\ At(d, "cancelled") /\ ~LeaveAsIs(drv[d].tk)
    /\ Goto(d, "fail")
    /\ NoChangeButDrv

(* Mutant of FailedEntry: the state is not looked at again under the lock. *)
FailedEntryAlways(e, df) ==
    WithState(WithRun(e, df, "Error"), [k |-> "Error", src |-> e.st.k])

(* The definition becomes Error, and the item too unless it is terminal.   *)
FailedEntry(e, df) ==
    LET f == WithRun(e, df, "Error") IN
    IF IsTerminal(e.st) THEN f
    ELSE WithState(f, [k |-> "Error", src |-> e.st.k])

Fail(d) ==
    LET t == drv[d].tk IN
    /\ At(d, "fail")
    /\ PutIfLive(t, FailedEntry(wf[t], drv[d].df))
    /\ Exit(d)
    /\ UNCHANGED <<req, permits, prep, suppress, killed>>
-----------------------------------------------------------------------------
(* prepare_worktree_for_ticket, spawned by add_to_dashboard: under the     *)
(* worktree_lock it creates the worktree and records it in whatever entry  *)
(* has the key then; it may fail, or find the entry gone.                  *)
PrepareLock(t) ==
    /\ <<t, "waits">> \in prep
    /\ wf[t].live /\ LockFree(t)
    /\ prep' = (prep \ {<<t, "waits">>}) \cup {<<t, "creates">>}
    /\ UNCHANGED <<wf, drv, req, permits, suppress, killed>>

PrepareOk(t) ==
    /\ \E x \in {"creates", "stale"} :
          <<t, x>> \in prep /\ prep' = prep \ {<<t, x>>}
    /\ PutIfLive(t, [wf[t] EXCEPT !.wt = TRUE])
    /\ UNCHANGED <<drv, req, permits, suppress, killed>>

PrepareFails(t) ==
    /\ \E x \in Stages : <<t, x>> \in prep /\ prep' = prep \ {<<t, x>>}
    /\ UNCHANGED <<wf, drv, req, permits, suppress, killed>>
-----------------------------------------------------------------------------
RequestNext(r) ==
    \/ Insert(r) \/ InsertFails(r) \/ StartCommit(r)
    \/ RetryRemove(r) \/ RemoveByKey(r) \/ MarkDoneKeeps(r)
    \/ \E d \in Defs : StartCheck(r, d) \/ StartRefused(r, d)
    \/ \E k \in Drivers : Spawn(r, k)

DriverNext(d) ==
    \/ BootEnter(d) \/ BootState(d) \/ BootCheck(d)
    \/ WorktreeLock(d) \/ Worktree(d) \/ WorktreeFails(d)
    \/ ShellAcquire(d) \/ ShellOk(d) \/ ShellFails(d) \/ Bootstrapped(d)
    \/ ImageFound(d) \/ DockerUnavailable(d) \/ Gate(d) \/ SlotAcquire(d) \/ AgentLabel(d)
    \/ AgentOk(d) \/ AgentFails(d) \/ LastStepFails(d) \/ ObserveCancel(d)
    \/ Done(d) \/ ReapWorkers(d) \/ Completed(d)
    \/ CancelledQuietly(d) \/ CancelledAsFailure(d) \/ Fail(d)

OperatorNext(t) ==
    \/ Pause(t) \/ Stop(t)
    \/ InterruptReap(t) \/ InterruptCancel(t)
    \/ PrepareLock(t) \/ PrepareOk(t) \/ PrepareFails(t)
    \/ \E r \in Reqs :
         \/ AddCheck(r, t) \/ RetryCheck(r, t)
         \/ Resume(r, t) \/ ResumeFromError(r, t)
         \/ DeleteCheck(r, t) \/ MarkDoneCheck(r, t)
         \/ \E d \in Defs : StartDef(r, t, d) \/ RetryDef(r, t, d)

Next ==
    \/ \E t \in Tickets : OperatorNext(t)
    \/ \E r \in Reqs : RequestNext(r) \/ Drop(r)
    \/ \E d \in Drivers : DriverNext(d)
    \/ InterruptBegin

Spec == Init /\ [][Next]_vars

(* Where a driver runs a command that no timeout ends: assign and details  *)
(* of the ticket (acli, gh), git fetch and worktree add, docker inspect,   *)
(* mise install and the init commands.                                     *)
Untimed == {"bootCheck", "worktree", "shell", "image"}

(* Some such command never returns.                                        *)
CommandHangs ==
    \/ \E d \in Drivers : <>[](Spawned(d) /\ drv[d].pc \in Untimed)
    \/ \E t \in Tickets : <>[](<<t, "creates">> \in prep)

(* Every task the runtime has spawned is polled: it takes its next step    *)
(* unless that step waits for an untimed command, and a shell command ends *)
(* when its token is cancelled.  Agent sessions and command steps run      *)
(* under step_timeout_secs (never 0) and container removal is bounded.  A  *)
(* handler that starts drivers goes on or is dropped.  The semaphore and   *)
(* the mutex of tokio serve their waiters in order, so a task that waits   *)
(* for a permit or for the worktree_lock is not overtaken forever.         *)
(* Nothing is assumed of the operator or of the untimed commands.          *)
Fairness ==
    /\ \A d \in Drivers :
         /\ WF_vars(drv[d].pc \notin Untimed /\ DriverNext(d))
         /\ WF_vars(At(d, "shell") /\ ObserveCancel(d))
         /\ SF_vars(SlotAcquire(d))
         /\ SF_vars(ShellAcquire(d))
         /\ SF_vars(WorktreeLock(d))
    /\ \A r \in Reqs :
         WF_vars(req[r].op = "start" /\ (RequestNext(r) \/ Drop(r)))

FairSpec == Spec /\ Fairness
-----------------------------------------------------------------------------
TypeOK ==
    /\ wf \in [Tickets -> Entry \cup {NoEntry}]
    /\ drv \in [Drivers -> Task \cup {IdleDriver}]
    /\ req \in [Reqs -> Request \cup {IdleReq}]
    /\ permits \in 0..Permits
    /\ prep \subseteq Tickets \X Stages
    /\ suppress \in BOOLEAN
    /\ killed \subseteq Tickets

(* Permit accounting of agent_run_semaphore: across every way a step can   *)
(* end (success, failure, cancellation while running or while waiting) no  *)
(* permit is lost or created, so at most max_concurrent_workflows agent    *)
(* runs are under way and an idle engine has all its permits back.         *)
PermitAccounting == permits + Cardinality(Holders) = Permits

(* "A concurrent stop/done wins": a driver that fails after the item went  *)
(* Done, Stopped or Error, and a pause that arrives then, leave the item's *)
(* state alone.                                                            *)
TerminalWins ==
    [][\A t \in Tickets :
          wf[t].live /\ wf'[t].live /\ IsTerminal(wf[t].st)
            => wf'[t].st = wf[t].st \/ wf'[t].st.k \notin {"Error", "Paused"}]_vars

(* Running definitions but those a dropped request has left behind.        *)
InProgress(t) ==
    wf[t].live /\ IsActive(wf[t].st) /\ RunningDefs(t) \ wf[t].lost # {}
Unfinished(d) == Spawned(d) /\ drv[d].res # "ok"
BeingStarted(t) == \E r \in Reqs : req[r].op = "start" /\ req[r].tk = t

(* Work is under way for a card that shows progress: an item in an active  *)
(* state with a Running definition has a driver that runs and has not      *)
(* finished, or a request that is about to spawn one, through every order  *)
(* of starts, pauses, resumes, stops, failures and late drivers.  The one  *)
(* exception is history: a request to start or resume it was dropped (its  *)
(* client hung up) and its Running definitions were not started since.     *)
ActiveHasDriver ==
    \A t \in Tickets :
        InProgress(t) /\ ~suppress
          => (\E d \in DriversOf(t) : Unfinished(d)) \/ BeingStarted(t)

(* Once the token of a driver is cancelled (stop, pause, delete, shutdown) *)
(* the task ends, whether it was waiting for a slot, for the worktree_lock *)
(* or for the end of a pause, or running.                                  *)
CancelledDriverExits ==
    \A d \in Drivers : (Spawned(d) /\ drv[d].cx) ~> ~(Spawned(d) /\ drv[d].cx)

(* A driver that waits for a permit of the semaphore does not wait         *)
(* forever, however often the operator pauses, resumes and restarts others.*)
SlotIsGranted ==
    \A d \in Drivers : (drv[d].pc = "slot") ~> (drv[d].pc # "slot")

(* A bootstrap that waits for the worktree_lock gets it, although the one  *)
(* that holds it waits for permits, one shell command after the other.     *)
LockIsGranted ==
    \A d \in Drivers : (drv[d].pc = "lock") ~> (drv[d].pc # "lock")

(* No driver is stuck: one that was cancelled ends, one that waits for an  *)
(* agent slot gets it or gives up, one that waits for the worktree_lock    *)
(* gets it: holding the lock while waiting for a permit, and a permit      *)
(* while the command runs, never ends in a circle.  The exception is a     *)
(* command without a timeout that never returns.                           *)
NoDriverStuck ==
    CommandHangs \/ (CancelledDriverExits /\ SlotIsGranted /\ LockIsGranted)

(* No definition is shown in progress forever: while an item is active and *)
(* one of its definitions is Running, its drivers end up making the item   *)
(* Done or Error (or the operator stops, pauses or removes it, or hangs up *)
(* while starting it), unless an untimed command never returns.            *)
ActiveSettles ==
    \/ CommandHangs
    \/ \A t \in Tickets : (InProgress(t) /\ ~suppress) ~> (~InProgress(t) \/ suppress)

(* The semaphore implements the abstract pool of agent slots.              *)
Slots == INSTANCE AgentSlots WITH Runners <- Drivers, Bound <- Permits,
                                  busy <- Holders

(* Every way a driver takes and gives back its permit is a step of the     *)
(* abstract pool: one runner at a time enters or leaves, and none enters   *)
(* when max_concurrent_workflows of them are in.                           *)
ImplementsAgentSlots == Slots!Spec
=============================================================================
