----------------------------- MODULE Workspaces -----------------------------
(***************************************************************************)
(* The workspace container of a work item: one long-lived container that   *)
(* the browser editor, the web terminal and the run commands of the item   *)
(* execute in (container/workspace.rs, container/editor/,                  *)
(* container/terminal.rs, container/run_command.rs) and the web requests   *)
(* that bring it up, use it and take it down                               *)
(* (routes/workflows/editor.rs, run_commands.rs, lifecycle.rs).            *)
(*                                                                         *)
(* A request is a process wReq[r]: at every await another request, the     *)
(* Docker daemon or a crash of the server may step in.  Two locks exist:   *)
(* the worktree lock of an item and the lock of its container (WS_LOCKS).  *)
(* Docker is external: a container is absent, stopped or running, and its  *)
(* published ports are fixed when it is created.  A port conflict makes    *)
(* docker run and docker start fail.                                       *)
(*                                                                         *)
(* Left out: settings, extensions and scripts of the editor; the secrets   *)
(* bundles (module Credentials); the port scanner (module PortForwards).   *)
(***************************************************************************)
EXTENDS Naturals, FiniteSets

CONSTANTS WTickets,     \* work items, all of one repository
          WReqs,        \* web requests that may be in flight together
          MaxPort,      \* the highest port there is (u16::MAX)
          WPorts,       \* the range EDITOR_PORT_MIN..EDITOR_PORT_MAX
          DynamicPorts, \* editor.dynamic_ports
          NoReq,        \* nobody holds the lock
          MaxWRequests, \* bound: requests in a behaviour
          MaxWFaults    \* bound: failures of Docker, crashes of the server

ASSUME WorkspacesAssumption ==
  /\ WTickets # {}
  /\ MaxPort \in Nat
  /\ WPorts \subseteq 1..MaxPort
  /\ DynamicPorts \in Nat
  /\ NoReq \notin WReqs
  /\ MaxWRequests \in Nat
  /\ MaxWFaults \in Nat

VARIABLES
  wItems,     \* the items in the dashboard
  wTree,      \* the items whose worktree exists on disk
  wCloned,    \* the clone of the repository exists
  wCloning,   \* clone_in_progress
  treeLock,   \* worktree_lock of an item: its holder
  wCont,      \* the container of an item
  wsLock,     \* WS_LOCKS: its holder
  wAlloc,     \* ALLOCATED_PORTS
  wIde,       \* ports of the openvscode-server processes in a container
  wTty,       \* ports of the ttyd processes in a container
  wCmd,       \* process groups of the item's run command
  wTermPort,  \* terminal_ports: recorded port, 0 for none
  wRunning,   \* run_commands: entries of the run command
  wRoutes,    \* path_token_registry: what the tokens lead to
  wReq,       \* the requests
  wStray,     \* observation: items whose worktree a request for an earlier item of
              \* the ticket has made or deleted
  wRequests, wFaults \* the counters behind the bounds

wsVars == <<wItems, wTree, wCloned, wCloning, treeLock, wCont, wsLock, wAlloc,
            wIde, wTty, wCmd, wTermPort, wRunning, wRoutes, wReq, wStray,
            wRequests, wFaults>>

\* A request is old when the item it was made for has been deleted.
\* gen counts the bring-ups of a container; egress and inited say what the
\* last one has applied; cut, that it was abandoned (an observation).
NoCont == [st |-> "absent", pool |-> {}, gen |-> 0,
           egress |-> FALSE, inited |-> FALSE, cut |-> FALSE]
IdleReq(t) == [op |-> "none", tk |-> t, pc |-> "idle", pool |-> {}, gen |-> 0,
               old |-> FALSE]

WOps == {"editor", "terminal", "run", "close_editor", "close_terminal",
         "stop_run", "delete", "stop"}
WPcs == {"idle", "tree", "treelock", "recheck", "clone", "add", "ports", "lock",
         "status", "create", "egress_new", "egress_old", "init", "ready",
         "register", "kill", "release", "rm"}

WsTypeOK ==
  /\ wItems \subseteq WTickets
  /\ wTree \subseteq WTickets
  /\ wCloned \in BOOLEAN
  /\ wCloning \in BOOLEAN
  /\ treeLock \in [WTickets -> WReqs \cup {NoReq}]
  /\ wCont \in [WTickets -> [st : {"absent", "stopped", "running"},
                             pool : SUBSET WPorts,
                             gen : Nat, egress : BOOLEAN, inited : BOOLEAN,
                             cut : BOOLEAN]]
  /\ wsLock \in [WTickets -> WReqs \cup {NoReq}]
  /\ wAlloc \subseteq WPorts
  /\ wIde \in [WTickets -> SUBSET WPorts]
  /\ wTty \in [WTickets -> SUBSET WPorts]
  /\ wCmd \in [WTickets -> Nat]
  /\ wTermPort \in [WTickets -> WPorts \cup {0}]
  /\ wRunning \in [WTickets -> Nat]
  /\ wRoutes \subseteq [kind : {"editor", "terminal"}, tk : WTickets, port : WPorts]
  /\ wReq \in [WReqs -> [op : WOps \cup {"none"}, tk : WTickets, pc : WPcs,
                         pool : SUBSET WPorts, gen : Nat, old : BOOLEAN]]
  /\ wStray \subseteq WTickets
  /\ wRequests \in 0..MaxWRequests
  /\ wFaults \in 0..MaxWFaults

WsInit ==
  /\ wItems = WTickets
  /\ wTree \in {{}, WTickets}
  /\ wCloned \in BOOLEAN /\ (wTree # {} => wCloned)
  /\ wCloning = FALSE
  /\ treeLock = [t \in WTickets |-> NoReq]
  /\ wCont = [t \in WTickets |-> NoCont]
  /\ wsLock = [t \in WTickets |-> NoReq]
  /\ wAlloc = {}
  /\ wIde = [t \in WTickets |-> {}]
  /\ wTty = [t \in WTickets |-> {}]
  /\ wCmd = [t \in WTickets |-> 0]
  /\ wTermPort = [t \in WTickets |-> 0]
  /\ wRunning = [t \in WTickets |-> 0]
  /\ wRoutes = {}
  /\ wReq = [r \in WReqs |-> IdleReq(CHOOSE t \in WTickets : TRUE)]
  /\ wStray = {}
  /\ wRequests = 0
  /\ wFaults = 0

-----------------------------------------------------------------------------
(***************************************************************************)
(* Helpers.                                                                *)
(***************************************************************************)
wTk(r) == wReq[r].tk
At(r, pc) == wReq[r].pc = pc

\* The request goes on at pc / is answered.
GoTo(r, pc) == wReq' = [wReq EXCEPT ![r].pc = pc]
Answer(r) == wReq' = [wReq EXCEPT ![r] = IdleReq(wTk(r))]

Fault == wFaults < MaxWFaults /\ wFaults' = wFaults + 1

\* used_editor_ports: docker ps lists running containers only.
PublishedPorts == UNION {wCont[t].pool : t \in {u \in WTickets : wCont[u].st = "running"}}

\* allocate_editor_ports: the lowest free ports, {} when there are too few.
AllocatePorts(n) ==
  LET free == WPorts \ (wAlloc \cup PublishedPorts)
  IN IF Cardinality(free) < n THEN {}
     ELSE {x \in free : Cardinality({y \in free : y < x}) < n}

LowPort(S) == CHOOSE x \in S : \A y \in S : x <= y
HighPort(S) == CHOOSE x \in S : \A y \in S : y <= x

\* What listens inside the container: the IDE and the terminals.
Listening(t) == wIde[t] \cup wTty[t]

\* pick_terminal_port: not the first of the pool, the highest free one, or
\* the last when all are taken.
PickTerminalPort(t) ==
  LET spares == wCont[t].pool \ {LowPort(wCont[t].pool)}
      free == spares \ Listening(t)
  IN IF free # {} THEN HighPort(free) ELSE HighPort(spares)

\* Everything that runs in the container of t ends.
KillAllIn(t) ==
  /\ wIde' = [wIde EXCEPT ![t] = {}]
  /\ wTty' = [wTty EXCEPT ![t] = {}]
  /\ wCmd' = [wCmd EXCEPT ![t] = 0]

dockerVars == <<wCont, wIde, wTty, wCmd>>
repoVars == <<wTree, wCloned, wCloning, treeLock, wStray>>
mapVars == <<wItems, wTermPort, wRunning, wRoutes>>

-----------------------------------------------------------------------------
(***************************************************************************)
(* A request arrives.  Opening needs an item in the dashboard              *)
(* (can_open_editor: not active, with a branch; the model's items are      *)
(* that), and a run command needs an existing worktree and no entry.       *)
(* open_terminal looks at the container first and skips the ensure, and    *)
(* its lock, whenever it runs.                                             *)
(***************************************************************************)
FirstPc(op, t) ==
  CASE op = "editor" -> "tree"
    [] op = "terminal" -> IF wCont[t].st = "running" THEN "ready" ELSE "tree"
    [] op = "run" -> "ports"
    [] op \in {"close_editor", "close_terminal", "stop_run"} -> "kill"
    [] op \in {"delete", "stop"} -> "release"

\* What a request does to the in-memory maps before its first await.
\* close_editor drops the editor's routes, close_terminal the terminal's
\* record and routes, stop_run_command the entry; delete (and mark done)
\* drops the run commands and the item.  Nothing drops the routes and the
\* terminal record of a deleted item.
Arrive(op, t) ==
  /\ wRoutes' = {x \in wRoutes : ~ /\ x.tk = t
                                   /\ \/ op = "close_editor" /\ x.kind = "editor"
                                      \/ op = "close_terminal" /\ x.kind = "terminal"}
  /\ wTermPort' = IF op = "close_terminal" THEN [wTermPort EXCEPT ![t] = 0] ELSE wTermPort
  /\ wRunning' = IF op \in {"stop_run", "delete"}
                   THEN [wRunning EXCEPT ![t] = IF op = "stop_run" /\ @ > 0 THEN @ - 1 ELSE 0]
                   ELSE wRunning
  /\ wCmd' = IF op = "delete" /\ wRunning[t] > 0 THEN [wCmd EXCEPT ![t] = 0] ELSE wCmd
  /\ wItems' = IF op = "delete" THEN wItems \ {t} ELSE wItems
  /\ wTree' = IF op = "delete" THEN wTree \ {t} ELSE wTree

Request(r, op, t) ==
  /\ At(r, "idle") /\ t \in wItems /\ wRequests < MaxWRequests
  /\ op = "run" => t \in wTree /\ wRunning[t] = 0
  /\ op = "terminal" => wTermPort[t] = 0
  /\ wReq' = [q \in WReqs |->
                IF q = r THEN [IdleReq(t) EXCEPT !.op = op, !.pc = FirstPc(op, t)]
                ELSE [wReq[q] EXCEPT !.old = @ \/ (op = "delete" /\ wTk(q) = t /\ ~At(q, "idle"))]]
  /\ wRequests' = wRequests + 1
  /\ Arrive(op, t)
  /\ UNCHANGED <<wCloned, wCloning, treeLock, wStray, wCont, wsLock, wAlloc, wIde, wTty, wFaults>>

\* open_terminal of a terminal on record: its token again, or a new one.  The
\* container is not looked at.
ReuseTerminal(t) ==
  /\ t \in wItems /\ wTermPort[t] # 0 /\ wRequests < MaxWRequests
  /\ wRoutes' = wRoutes \cup {[kind |-> "terminal", tk |-> t, port |-> wTermPort[t]]}
  /\ wRequests' = wRequests + 1
  /\ UNCHANGED <<wItems, wTree, wCloned, wCloning, treeLock, wStray, wCont, wsLock, wAlloc, wIde,
                 wTty, wCmd, wTermPort, wRunning, wReq, wFaults>>

\* A deleted ticket is started again and prepared: a new item, with a
\* worktree lock of its own.
Restarted(t) ==
  /\ t \notin wItems /\ wRequests < MaxWRequests
  /\ wItems' = wItems \cup {t}
  /\ wTree' = wTree \cup {t} /\ wCloned' = TRUE
  /\ treeLock' = [treeLock EXCEPT ![t] = NoReq]
  /\ wRequests' = wRequests + 1
  /\ UNCHANGED <<wCloning, wStray, wCont, wsLock, wAlloc, wIde, wTty, wCmd, wTermPort,
                 wRunning, wRoutes, wReq, wFaults>>

-----------------------------------------------------------------------------
(***************************************************************************)
(* ensure_worktree: use the recorded worktree, or make it again under the  *)
(* item's worktree lock.  worktree_add_existing_branch first deletes       *)
(* whatever is at the target directory.                                    *)
(***************************************************************************)
unTree == <<wsLock, wAlloc, dockerVars, mapVars, wRequests>>

TreeExists(r) ==
  /\ At(r, "tree")
  /\ GoTo(r, IF wTk(r) \in wTree THEN "ports" ELSE "treelock")
  /\ UNCHANGED <<repoVars, unTree, wFaults>>

TakeTreeLock(r) ==
  /\ At(r, "treelock") /\ treeLock[wTk(r)] = NoReq
  /\ treeLock' = [treeLock EXCEPT ![wTk(r)] = r]
  /\ GoTo(r, "recheck")
  /\ UNCHANGED <<wTree, wCloned, wCloning, wStray, unTree, wFaults>>

UnlockTree(r) == treeLock' = [treeLock EXCEPT ![wTk(r)] = IF @ = r THEN NoReq ELSE @]

(* Mutant of Recheck: the path is not read again under the lock.           *)
RecheckNot(r) ==
  /\ At(r, "recheck") /\ wCloned
  /\ GoTo(r, "add")
  /\ UNCHANGED <<wTree, wCloned, treeLock, wCloning, wStray, unTree, wFaults>>

\* Under the lock the live path is read again: the loser of a race uses it.
\* A missing clone is fetched under clone_in_progress, or the request fails.
Recheck(r) ==
  /\ At(r, "recheck")
  /\ \/ /\ wTk(r) \in wTree /\ GoTo(r, "ports") /\ UnlockTree(r) /\ UNCHANGED wCloning
     \/ /\ wTk(r) \notin wTree /\ wCloned /\ GoTo(r, "add") /\ UNCHANGED <<treeLock, wCloning>>
     \/ /\ wTk(r) \notin wTree /\ ~wCloned /\ ~wCloning
        /\ wCloning' = TRUE /\ GoTo(r, "clone") /\ UNCHANGED treeLock
     \/ /\ wTk(r) \notin wTree /\ ~wCloned /\ wCloning
        /\ Answer(r) /\ UnlockTree(r) /\ UNCHANGED wCloning
  /\ UNCHANGED <<wTree, wCloned, wStray, unTree, wFaults>>

\* do_clone with the CloneGuard: the flag falls however the clone ends.
Clone(r) ==
  /\ At(r, "clone")
  /\ wCloning' = FALSE
  /\ \/ wCloned' = TRUE /\ GoTo(r, "add") /\ UNCHANGED <<treeLock, wFaults>>
     \/ Answer(r) /\ UnlockTree(r) /\ Fault /\ UNCHANGED wCloned
  /\ UNCHANGED <<wTree, wStray, unTree>>

\* git worktree add of the existing branch, offline or after a fetch; the new
\* path goes into the item and its row.
AddTree(r) ==
  /\ At(r, "add")
  /\ UnlockTree(r)
  /\ wStray' = IF wReq[r].old THEN wStray \cup {wTk(r)} ELSE wStray
  /\ \/ wTree' = wTree \cup ({wTk(r)} \cap wItems) /\ GoTo(r, "ports") /\ UNCHANGED wFaults
     \/ wTree' = wTree \ {wTk(r)} /\ Answer(r) /\ Fault
  /\ UNCHANGED <<wCloned, wCloning, unTree>>

-----------------------------------------------------------------------------
(***************************************************************************)
(* Ports.  start_editor returns at once when the IDE runs, and takes the   *)
(* pool from the container's label when there is one; the terminal and a   *)
(* run command always allocate.  The terminal goes on without ports when   *)
(* none are free.                                                          *)
(***************************************************************************)
unPorts == <<repoVars, wsLock, dockerVars, wItems, wTermPort, wRunning, wRequests, wFaults>>

PoolSize(op) == IF op = "run" /\ DynamicPorts = 0 THEN 1
                ELSE IF op = "run" THEN DynamicPorts ELSE 1 + DynamicPorts

\* get_editor_info: the running IDE is reused and its token registered.
EditorRuns(r) ==
  /\ At(r, "ports") /\ wReq[r].op = "editor"
  /\ wCont[wTk(r)].st = "running" /\ wIde[wTk(r)] # {}
  /\ \E p \in wIde[wTk(r)] :
       wRoutes' = wRoutes \cup {[kind |-> "editor", tk |-> wTk(r), port |-> p]}
  /\ Answer(r)
  /\ UNCHANGED <<wAlloc, unPorts>>

TakePorts(r) ==
  LET op == wReq[r].op
      label == wCont[wTk(r)].pool
      pool == IF op = "editor" /\ label # {} THEN label ELSE AllocatePorts(PoolSize(op))
  IN /\ At(r, "ports")
     /\ op = "editor" => wCont[wTk(r)].st # "running" \/ wIde[wTk(r)] = {}
     /\ IF pool = {} /\ op # "terminal" THEN Answer(r)
        ELSE wReq' = [wReq EXCEPT ![r].pc = "lock", ![r].pool = pool]
     /\ wAlloc' = IF op = "editor" /\ label # {} THEN wAlloc ELSE wAlloc \cup pool
     /\ UNCHANGED <<wRoutes, unPorts>>

-----------------------------------------------------------------------------
(***************************************************************************)
(* ensure_workspace_container, under the container lock of the item.       *)
(***************************************************************************)
unEnsure == <<repoVars, wAlloc, mapVars, wRequests>>

UnlockWs(r) == wsLock' = [wsLock EXCEPT ![wTk(r)] = NoReq]
SetCont(t, c) == wCont' = [wCont EXCEPT ![t] = c]
BroughtUp(t, pool) == [NoCont EXCEPT !.st = "running", !.pool = pool, !.gen = wCont[t].gen + 1]

(* Mutant of TakeWsLock: the lock is not waited for.                       *)
TakeWsLockFree(r) ==
  /\ At(r, "lock")
  /\ wsLock' = [wsLock EXCEPT ![wTk(r)] = r]
  /\ GoTo(r, "status")
  /\ UNCHANGED <<unEnsure, dockerVars, wFaults>>

TakeWsLock(r) ==
  /\ At(r, "lock") /\ wsLock[wTk(r)] = NoReq
  /\ wsLock' = [wsLock EXCEPT ![wTk(r)] = r]
  /\ GoTo(r, "status")
  /\ UNCHANGED <<unEnsure, dockerVars, wFaults>>

\* The container is handed back to the request: it goes on at "ready".
HandBack(r) == wReq' = [wReq EXCEPT ![r].pc = "ready", ![r].gen = wCont[wTk(r)].gen]

\* Running: the allowlist is asserted again, best effort, and no init runs.
StatusRunning(r) ==
  /\ At(r, "status") /\ wCont[wTk(r)].st = "running"
  /\ HandBack(r) /\ UnlockWs(r)
  /\ \/ SetCont(wTk(r), [wCont[wTk(r)] EXCEPT !.egress = TRUE])
        /\ UNCHANGED wFaults
     \/ UNCHANGED wCont /\ Fault
  /\ UNCHANGED <<unEnsure, wIde, wTty, wCmd>>

\* Stopped: docker start, which fails when a running container has a port.
StatusStopped(r) ==
  LET t == wTk(r)
  IN /\ At(r, "status") /\ wCont[t].st = "stopped"
     /\ \/ /\ wCont[t].pool \cap PublishedPorts = {}
           /\ SetCont(t, BroughtUp(t, wCont[t].pool))
           /\ GoTo(r, "egress_old") /\ UNCHANGED <<wsLock, wFaults>>
        \/ /\ wCont[t].pool \cap PublishedPorts # {}
           /\ Answer(r) /\ UnlockWs(r) /\ UNCHANGED <<wCont, wFaults>>
        \/ Answer(r) /\ UnlockWs(r) /\ Fault /\ UNCHANGED wCont
     /\ UNCHANGED <<unEnsure, wIde, wTty, wCmd>>

(* Mutant of StatusAbsent: a stopped container is taken for an absent one. *)
StatusNotRunning(r) ==
  /\ At(r, "status") /\ wCont[wTk(r)].st # "running"
  /\ GoTo(r, "create")
  /\ UNCHANGED <<unEnsure, wsLock, dockerVars, wFaults>>

StatusAbsent(r) ==
  /\ At(r, "status") /\ wCont[wTk(r)].st = "absent"
  /\ GoTo(r, "create")
  /\ UNCHANGED <<unEnsure, wsLock, dockerVars, wFaults>>

\* docker run with the pool published and labelled; the name or a port that
\* is taken makes it fail.
Create(r) ==
  LET t == wTk(r)
      free == wCont[t].st = "absent" /\ wReq[r].pool \cap PublishedPorts = {}
  IN /\ At(r, "create")
     /\ \/ /\ free
           /\ SetCont(t, BroughtUp(t, wReq[r].pool))
           /\ GoTo(r, "egress_new") /\ UNCHANGED <<wsLock, wFaults>>
        \/ ~free /\ Answer(r) /\ UnlockWs(r) /\ UNCHANGED <<wCont, wFaults>>
        \/ free /\ Answer(r) /\ UnlockWs(r) /\ Fault /\ UNCHANGED wCont
     /\ UNCHANGED <<unEnsure, wIde, wTty, wCmd>>

\* apply_workspace_egress; when it fails a fresh container is removed and a
\* started one is left running.
Egress(r) ==
  LET t == wTk(r)
      there == wCont[t].st = "running"
  IN /\ At(r, "egress_new") \/ At(r, "egress_old")
     /\ \/ /\ there
           /\ SetCont(t, [wCont[t] EXCEPT !.egress = TRUE])
           /\ GoTo(r, "init") /\ UNCHANGED <<wsLock, wIde, wTty, wCmd, wFaults>>
        \/ /\ (there /\ Fault) \/ (~there /\ UNCHANGED wFaults)
           /\ Answer(r) /\ UnlockWs(r)
           /\ IF At(r, "egress_new")
                THEN SetCont(t, [NoCont EXCEPT !.gen = wCont[t].gen]) /\ KillAllIn(t)
                ELSE /\ SetCont(t, IF there THEN [wCont[t] EXCEPT !.cut = TRUE] ELSE wCont[t])
                     /\ UNCHANGED <<wIde, wTty, wCmd>>
     /\ UNCHANGED unEnsure

\* run_init_commands: failing commands are logged and the others run.
InitCommands(r) ==
  LET t == wTk(r)
  IN /\ At(r, "init")
     /\ SetCont(t, IF wCont[t].st = "running" THEN [wCont[t] EXCEPT !.inited = TRUE] ELSE wCont[t])
     /\ HandBack(r) /\ UnlockWs(r)
     /\ UNCHANGED <<unEnsure, wIde, wTty, wCmd, wFaults>>

-----------------------------------------------------------------------------
(***************************************************************************)
(* The container is used.  The processes are started with docker exec,     *)
(* which fails when the container is not running.                          *)
(***************************************************************************)
unUse == <<repoVars, wsLock, wAlloc, wItems, wCont, wRequests>>

NotRunning(r) ==
  /\ At(r, "ready")
  /\ \/ wCont[wTk(r)].st # "running"
     \/ wReq[r].op = "terminal" /\ Cardinality(wCont[wTk(r)].pool) < 2
  /\ Answer(r)
  /\ UNCHANGED <<unUse, wIde, wTty, wCmd, wTermPort, wRunning, wRoutes, wFaults>>

\* start_editor: openvscode-server on the first port of the pool it was given.
\* start_terminal: ttyd on the port picked from the label; when something
\* listens there already, the probe finds that and the start counts as good.
\* start_run_command: refused while the pid file names a live group.
Launch(r) ==
  LET t == wTk(r)
      op == wReq[r].op
  IN /\ At(r, "ready") /\ wCont[t].st = "running"
     /\ \/ /\ op = "editor"
           /\ wIde' = [wIde EXCEPT ![t] = @ \cup {LowPort(wReq[r].pool)}]
           /\ wReq' = [wReq EXCEPT ![r].pc = "register"]
           /\ UNCHANGED <<wTty, wCmd, wFaults>>
        \/ /\ op = "terminal" /\ Cardinality(wCont[t].pool) >= 2
           /\ LET p == PickTerminalPort(t)
              IN /\ wTty' = [wTty EXCEPT ![t] = @ \cup {p}]
                 /\ wReq' = [wReq EXCEPT ![r].pc = "register", ![r].pool = {p}]
           /\ UNCHANGED <<wIde, wCmd, wFaults>>
        \/ /\ op = "run" /\ wCmd[t] = 0
           /\ wCmd' = [wCmd EXCEPT ![t] = 1]
           /\ wReq' = [wReq EXCEPT ![r].pc = "register"]
           /\ UNCHANGED <<wIde, wTty, wFaults>>
        \/ op = "run" /\ wCmd[t] > 0 /\ Answer(r) /\ UNCHANGED <<wIde, wTty, wCmd, wFaults>>
        \/ Answer(r) /\ Fault /\ UNCHANGED <<wIde, wTty, wCmd>>
     /\ UNCHANGED <<unUse, wTermPort, wRunning, wRoutes>>

\* The handler records what it started and answers with the token.
Register(r) ==
  LET t == wTk(r)
      op == wReq[r].op
      port == LowPort(wReq[r].pool)
  IN /\ At(r, "register")
     /\ Answer(r)
     /\ wRoutes' = IF op = "run" THEN wRoutes
                   ELSE wRoutes \cup {[kind |-> op, tk |-> t, port |-> port]}
     /\ wTermPort' = IF op = "terminal" THEN [wTermPort EXCEPT ![t] = port] ELSE wTermPort
     /\ wRunning' = IF op = "run" THEN [wRunning EXCEPT ![t] = @ + 1] ELSE wRunning
     /\ UNCHANGED <<unUse, wIde, wTty, wCmd, wFaults>>

(* Mutant of CommandEnds: the entry is dropped whether or not it was made. *)
CommandEndsEarly(t) ==
  /\ wCmd[t] > 0
  /\ wCmd' = [wCmd EXCEPT ![t] = 0]
  /\ wRunning' = [wRunning EXCEPT ![t] = @ - 1]
  /\ UNCHANGED <<unUse, wIde, wTty, wTermPort, wRoutes, wReq, wFaults>>

\* A run command ends by itself; its scanner and tracker drop the entry.
CommandEnds(t) ==
  /\ wCmd[t] > 0 /\ wRunning[t] > 0
  /\ wCmd' = [wCmd EXCEPT ![t] = 0]
  /\ wRunning' = [wRunning EXCEPT ![t] = 0]
  /\ UNCHANGED <<unUse, wIde, wTty, wTermPort, wRoutes, wReq, wFaults>>

-----------------------------------------------------------------------------
(***************************************************************************)
(* The container is given up.                                              *)
(***************************************************************************)
\* close_editor, close_terminal and stop_run_command kill their processes;
\* the container stays.
Kill(r) ==
  LET t == wTk(r)
      op == wReq[r].op
  IN /\ At(r, "kill")
     /\ Answer(r)
     /\ wIde' = IF op = "close_editor" THEN [wIde EXCEPT ![t] = {}] ELSE wIde
     /\ wTty' = IF op = "close_terminal" THEN [wTty EXCEPT ![t] = {}] ELSE wTty
     /\ wCmd' = IF op = "stop_run" THEN [wCmd EXCEPT ![t] = 0] ELSE wCmd
     /\ UNCHANGED <<unUse, wTermPort, wRunning, wRoutes, wFaults>>

\* remove_workspace_container: the ports named by the label are released
\* first, then the container is removed (best effort).
ReleasePorts(r) ==
  /\ At(r, "release")
  /\ wAlloc' = wAlloc \ wCont[wTk(r)].pool
  /\ GoTo(r, "rm")
  /\ UNCHANGED <<repoVars, wsLock, dockerVars, mapVars, wRequests, wFaults>>

RemoveContainer(r) ==
  LET t == wTk(r)
  IN /\ At(r, "rm")
     /\ Answer(r)
     /\ \/ SetCont(t, [NoCont EXCEPT !.gen = wCont[t].gen]) /\ KillAllIn(t) /\ UNCHANGED wFaults
        \/ Fault /\ UNCHANGED dockerVars
     /\ UNCHANGED <<repoVars, wsLock, wAlloc, mapVars, wRequests>>

\* The daemon stops a container: its processes end, its ports fall free.
DaemonStops(t) ==
  /\ wCont[t].st = "running" /\ Fault
  /\ SetCont(t, [wCont[t] EXCEPT !.st = "stopped"])
  /\ KillAllIn(t)
  /\ UNCHANGED <<repoVars, wsLock, wAlloc, mapVars, wReq, wRequests>>

\* The server ends and starts again: memory is empty, the requests are gone,
\* the containers live on, and those without an item are swept
\* (sweep_orphan_workspaces).
ServerRestart ==
  /\ Fault
  /\ wReq' = [r \in WReqs |-> IdleReq(wTk(r))]
  /\ wsLock' = [t \in WTickets |-> NoReq] /\ treeLock' = [t \in WTickets |-> NoReq]
  /\ wCloning' = FALSE
  /\ wAlloc' = {} /\ wRoutes' = {} /\ wStray' = {}
  /\ wTermPort' = [t \in WTickets |-> 0] /\ wRunning' = [t \in WTickets |-> 0]
  /\ wCont' = [t \in WTickets |->
                 IF t \notin wItems THEN [NoCont EXCEPT !.gen = wCont[t].gen]
                 ELSE [wCont[t] EXCEPT !.cut = @ \/ (wCont[t].st = "running" /\ ~wCont[t].inited)]]
  /\ wIde' = [t \in WTickets |-> IF t \in wItems THEN wIde[t] ELSE {}]
  /\ wTty' = [t \in WTickets |-> IF t \in wItems THEN wTty[t] ELSE {}]
  /\ wCmd' = [t \in WTickets |-> IF t \in wItems THEN wCmd[t] ELSE 0]
  /\ UNCHANGED <<wItems, wTree, wCloned, wRequests>>

WsStep(r) ==
  \/ TreeExists(r) \/ TakeTreeLock(r) \/ Recheck(r) \/ Clone(r) \/ AddTree(r)
  \/ EditorRuns(r) \/ TakePorts(r)
  \/ TakeWsLock(r) \/ StatusRunning(r) \/ StatusStopped(r) \/ StatusAbsent(r)
  \/ Create(r) \/ Egress(r) \/ InitCommands(r)
  \/ NotRunning(r) \/ Launch(r) \/ Register(r)
  \/ Kill(r) \/ ReleasePorts(r) \/ RemoveContainer(r)

WsNext ==
  \/ \E r \in WReqs, op \in WOps, t \in WTickets : Request(r, op, t)
  \/ \E r \in WReqs : WsStep(r)
  \/ \E t \in WTickets : ReuseTerminal(t) \/ Restarted(t) \/ CommandEnds(t) \/ DaemonStops(t)
  \/ ServerRestart

WsSpec == WsInit /\ [][WsNext]_wsVars

-----------------------------------------------------------------------------
(***************************************************************************)
(* Properties.                                                             *)
(***************************************************************************)
\* Two requests never create the container of an item at once: whoever is
\* about to run docker run finds the name free, because the status is read
\* and acted on under the item's container lock.
CreateFindsNone ==
  \A r \in WReqs : At(r, "create") => wCont[wTk(r)].st = "absent"

\* The allowlist is set and the init commands have run, or nobody will see to
\* that any more: a crash of the server or a failed allowlist cut it short.
Ready(c) == (c.egress /\ c.inited) \/ c.cut

\* Request q holds the container lock of t and is bringing the container up.
BringsUp(q, t) ==
  /\ wsLock[t] = q /\ wTk(q) = t
  /\ wReq[q].pc \in {"egress_new", "egress_old", "init"}

\* Whoever is about to start a process in a running container finds it ready:
\* a second request waits for the first one's bring-up.  Only those who did
\* not come through the present bring-up can meet a half-made container (a
\* terminal that found it running and skipped the ensure, a request that was
\* overtaken by a removal), and then only while another request is bringing
\* it up under the lock: it is never left half-made.
EnsureMeansReady ==
  \A r \in WReqs :
    LET t == wTk(r)
        c == wCont[t]
    IN At(r, "ready") /\ c.st = "running"
         => \/ Ready(c)
            \/ wReq[r].gen < c.gen /\ \E q \in WReqs \ {r} : BringsUp(q, t)

\* Recreating a worktree deletes what is at the target; it is never the
\* worktree of the item the request was made for, with the user's
\* uncommitted work in it, unless a request that was made for an earlier item
\* of the ticket, and waited for git meanwhile, has put it there.
LiveTreeKept ==
  \A r \in WReqs :
    At(r, "add") /\ ~wReq[r].old /\ wTk(r) \notin wStray => wTk(r) \notin wTree

(* The workspaces of the tickets, as one invariant: no second container for *)
(* an item, none used half-made but while another request is at making it,  *)
(* no live worktree deleted.                                                *)
WorkspacesSafe == CreateFindsNone /\ EnsureMeansReady /\ LiveTreeKept

-----------------------------------------------------------------------------
(* workspace.rs on the init commands: they run "before anything uses it",  *)
(* "the terminal, and the IDE alike".  A terminal that finds the container *)
(* running uses it before.                                                 *)
InitBeforeUse ==
  \A r \in WReqs :
    At(r, "ready") /\ wReq[r].op = "terminal" /\ wCont[wTk(r)].st = "running"
      => Ready(wCont[wTk(r)])

=============================================================================
