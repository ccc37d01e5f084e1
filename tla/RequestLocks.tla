---------------------------- MODULE RequestLocks ----------------------------
(* The locks of the server, and the handlers and tasks that hold one of them *)
(* while they wait for another: the configuration, the map of work items,    *)
(* the maps of port forwards, run commands and terminals, the registry of    *)
(* proxy tokens, and the worktree lock of an item.                           *)
(*                                                                           *)
(* A job is the sequence of its lock operations; what it still holds at its  *)
(* end is dropped there. Calls to git, docker, the database or a tracker     *)
(* take time under whatever is held and change no lock: they are the time    *)
(* between two operations.                                                   *)
EXTENDS Integers, Sequences

CONSTANTS
    LkTasks,    \* tasks of the runtime
    LkJobs      \* the names of the jobs to consider

VARIABLES
    lkJob,      \* what each task is doing, "idle" between two jobs
    lkPc,       \* the operation it is at
    lkHeld,     \* the locks it holds, with the mode
    lkQueue     \* the tasks waiting for each lock, in order

lkVars == <<lkJob, lkPc, lkHeld, lkQueue>>

-----------------------------------------------------------------------------
Locks == {"config", "items", "forwards", "runs", "terminals", "registry", "worktree"}
R(l) == <<"read", l>>
W(l) == <<"write", l>>
D(l) == <<"drop", l>>

\* list_workflows keeps the first three to its end, over docker ps and docker exec
ListWorkflows ==
    <<R("config"), R("items"), R("runs"), R("terminals"), D("terminals"),
      R("registry"), D("registry"), W("registry"), D("registry"),
      R("registry"), D("registry"), W("registry")>>
\* Mutant of GetWorkflowUncached: the guard of the forwards is kept while they are written.
GetWorkflowKeepsGuard ==
    <<R("config"), R("items"), R("forwards"), W("registry"), D("registry"), W("forwards"),
      D("forwards"), R("terminals"), D("terminals"), R("registry"), D("registry"), R("runs")>>
\* get_workflow of an editor this process did not open: the tokens are registered on the fly
GetWorkflowUncached ==
    <<R("config"), R("items"), R("forwards"), D("forwards"), W("registry"), D("registry"),
      W("forwards"), D("forwards"), R("terminals"), D("terminals"), R("registry"),
      D("registry"), R("runs")>>
\* ... and of one it knows: the guard of the forwards lives to the end
GetWorkflowCached ==
    <<R("config"), R("items"), R("forwards"), R("terminals"), D("terminals"), R("registry"),
      D("registry"), R("runs")>>
\* progress_dashboard_fields_for_ticket, with and without the database; run_workflow_steps
\* reads its settings in the same order
ProgressFields == <<R("config"), R("items")>>
\* stage_and_commit, reload_config_from_disk
CommitConfig == <<W("config")>>
\* reload_from_path looks at the old configuration first
ReloadConfig == <<R("config"), D("config"), W("config")>>
\* a transition of the engine, and the snapshot after it
TransitionItem == <<W("items"), D("items"), R("config"), D("config"), R("items")>>
\* prepare_worktree_for_ticket
PrepareTree == <<R("items"), D("items"), W("worktree"), W("items"), D("items")>>
\* recreate_worktree: resolve_repo_for_ticket may fall back on the configuration
RecreateTree ==
    <<R("items"), D("items"), W("worktree"), R("items"), D("items"), R("items"), D("items"),
      R("config"), D("config"), W("items"), D("items")>>
\* the tracker of an editor's ports: a forward came, or went
TrackForward == <<W("forwards"), W("registry"), D("registry")>>
\* the tracker of a run command, and stop_run_command
DropRunCommand == <<R("items"), D("items"), W("runs"), W("registry"), D("registry")>>
\* teardown_editor_state, teardown_terminal_state: one lock after the other
TearDown ==
    <<W("registry"), D("registry"), W("forwards"), D("forwards"), W("registry"),
      D("registry"), W("terminals")>>
\* run_description_session, update_ticket_description
EditDescription ==
    <<R("config"), D("config"), R("items"), D("items"), W("items"), D("items"), R("items")>>

Script(job) ==
    CASE job = "list" -> ListWorkflows
      [] job = "getUncached" -> GetWorkflowUncached
      [] job = "getCached" -> GetWorkflowCached
      [] job = "progress" -> ProgressFields
      [] job = "commit" -> CommitConfig
      [] job = "reload" -> ReloadConfig
      [] job = "transition" -> TransitionItem
      [] job = "prepare" -> PrepareTree
      [] job = "recreate" -> RecreateTree
      [] job = "forward" -> TrackForward
      [] job = "dropRun" -> DropRunCommand
      [] job = "tearDown" -> TearDown
      [] job = "edit" -> EditDescription

AllJobs == {"list", "getUncached", "getCached", "progress", "commit", "reload", "transition",
            "prepare", "recreate", "forward", "dropRun", "tearDown", "edit"}
ASSUME RequestLocksAssumption == LkJobs \subseteq AllJobs

-----------------------------------------------------------------------------
(* tokio's RwLock is fair: who asks queues behind whoever waits already.     *)

Clash(m, n) == m = "write" \/ n = "write"
Blocks(u, l, mode) == \E h \in lkHeld[u] : h[2] = l /\ Clash(mode, h[1])
Grantable(l, mode) == \A u \in LkTasks : ~Blocks(u, l, mode)
Op(t) == Script(lkJob[t])[lkPc[t]]
Busy(t) == lkJob[t] # "idle" /\ lkPc[t] <= Len(Script(lkJob[t]))
Queued(t, l) == \E i \in DOMAIN lkQueue[l] : lkQueue[l][i][2] = t

LkInit ==
    /\ lkJob = [t \in LkTasks |-> "idle"] /\ lkPc = [t \in LkTasks |-> 1]
    /\ lkHeld = [t \in LkTasks |-> {}] /\ lkQueue = [l \in Locks |-> <<>>]

Begin(t) ==
    /\ lkJob[t] = "idle"
    /\ \E job \in LkJobs : lkJob' = [lkJob EXCEPT ![t] = job]
    /\ UNCHANGED <<lkPc, lkHeld, lkQueue>>

Take(t, l, mode) ==
    /\ lkHeld' = [lkHeld EXCEPT ![t] = @ \cup {<<mode, l>>}]
    /\ lkPc' = [lkPc EXCEPT ![t] = @ + 1]

\* read().await or write().await: at once when nobody waits, else behind them
Ask(t) ==
    /\ Busy(t) /\ Op(t)[1] # "drop" /\ ~Queued(t, Op(t)[2])
    /\ LET l == Op(t)[2]
           mode == Op(t)[1]
       IN  IF lkQueue[l] = <<>> /\ Grantable(l, mode)
           THEN Take(t, l, mode) /\ UNCHANGED lkQueue
           ELSE /\ lkQueue' = [lkQueue EXCEPT ![l] = Append(@, <<mode, t>>)]
                /\ UNCHANGED <<lkHeld, lkPc>>
    /\ UNCHANGED lkJob

\* Mutant: readers are let through whenever no writer holds the lock.
GrantReadersFirst(l) ==
    \E i \in DOMAIN lkQueue[l] :
        /\ Grantable(l, lkQueue[l][i][1])
        /\ lkQueue[l][i][1] = "write" => \A j \in DOMAIN lkQueue[l] : lkQueue[l][j][1] = "write"
        /\ Take(lkQueue[l][i][2], l, lkQueue[l][i][1])
        /\ lkQueue' = [lkQueue EXCEPT ![l] = SubSeq(@, 1, i - 1) \o SubSeq(@, i + 1, Len(@))]
        /\ UNCHANGED lkJob
\* the first of the queue gets the lock once nothing it clashes with is held
Grant(l) ==
    /\ lkQueue[l] # <<>> /\ Grantable(l, Head(lkQueue[l])[1])
    /\ Take(Head(lkQueue[l])[2], l, Head(lkQueue[l])[1])
    /\ lkQueue' = [lkQueue EXCEPT ![l] = Tail(@)]
    /\ UNCHANGED lkJob

Drop(t) ==
    /\ Busy(t) /\ Op(t)[1] = "drop"
    /\ lkHeld' = [lkHeld EXCEPT ![t] = {h \in @ : h[2] # Op(t)[2]}]
    /\ lkPc' = [lkPc EXCEPT ![t] = @ + 1]
    /\ UNCHANGED <<lkJob, lkQueue>>
\* the handler returns, or returns early, and its guards go out of scope
End(t) ==
    /\ lkJob[t] # "idle"
    /\ \A l \in Locks : ~Queued(t, l)
    /\ lkPc[t] > 1
    /\ lkJob' = [lkJob EXCEPT ![t] = "idle"] /\ lkPc' = [lkPc EXCEPT ![t] = 1]
    /\ lkHeld' = [lkHeld EXCEPT ![t] = {}]
    /\ UNCHANGED lkQueue

LkNext ==
    \/ \E t \in LkTasks : Begin(t) \/ Ask(t) \/ Drop(t) \/ End(t)
    \/ \E l \in Locks : Grant(l)

LkSpec == LkInit /\ [][LkNext]_lkVars

(* A released lock is handed to the first in its queue. Nothing is assumed   *)
(* of the calls a handler makes between two operations: most of those to     *)
(* git, docker and the tracker have no timeout.                              *)
LkFairness == \A l \in Locks : WF_lkVars(Grant(l))

\* a handler that waits for no lock never comes to its next operation
CallHangs(t) == <>[](lkJob[t] # "idle" /\ \A l \in Locks : ~Queued(t, l))

-----------------------------------------------------------------------------
Ahead(u, t, l) ==
    \E i, j \in DOMAIN lkQueue[l] :
        /\ i < j /\ lkQueue[l][i][2] = u /\ lkQueue[l][j][2] = t
        /\ Clash(lkQueue[l][i][1], lkQueue[l][j][1])
WaitsFor(t, u) ==
    \E l \in Locks : Queued(t, l) /\ (Blocks(u, l, Op(t)[1]) \/ Ahead(u, t, l))

Waiters == {t \in LkTasks : Busy(t) /\ \E l \in Locks : Queued(t, l)}

(* No handlers wait for each other in a circle, and none for itself: not     *)
(* even through a writer queued between two readers.                         *)
NoWaitCycle ==
    \A S \in SUBSET Waiters :
        S # {} => \E t \in S : \A u \in S : ~WaitsFor(t, u)

(* A transition of the engine gets the map although lists of the dashboard   *)
(* keep reading it, and every other request ends too, unless a call hangs.   *)
RequestsEnd ==
    \/ \E t \in LkTasks : CallHangs(t)
    \/ \A t \in LkTasks : lkJob[t] # "idle" ~> lkJob[t] = "idle"

=============================================================================
