# Takuto: a verification project

Takuto runs AI coding agents on the tickets of an issue tracker. Pollers and the
web API put tickets on a dashboard; for each of them the engine creates a git
worktree, runs the steps of one or more flows in containers and opens a pull
request; operators pause, resume, stop, retry and delete what runs; a database
and snapshot files bring everything back after a restart. Around that core are
the accounts and credentials of the users, the clones of their repositories, the
workspace containers with editor, terminal and run commands, and a proxy in front
of them. Nearly all of it is concurrent: maps behind async locks, many tokio
tasks that take a lock for a moment, await something slow and take it again.

This directory holds TLA+ models of that program, the TLC instances that check
them, and TLAPS proofs. `PROJECT.json` maps every definition to the lines it
models, and lists components, runs, mutants, findings, hazards and theorems.
Paths below are relative to `src/`; `engine/` is
`crates/takuto-core/src/workflow/engine/`, `routes/` is
`crates/takuto-web/src/routes/`, other paths are of `crates/takuto-core/src/`.

## 1. Inventory

### Components

| Component | Source | State | Operations | Here |
|---|---|---|---|---|
| Workflow engine | `engine/` (mod, types, transitions, definitions, driver, lifecycle) | the map ticket key -> `Workflow` (state, runs of the flow definitions, cancel token, worktree lock) | add, start and retry a flow, pause, resume, stop, retry, resume from error, delete, mark done, interrupt; driver tasks | `WorkflowEngine` |
| Agent-run limiter | `engine/step_runner.rs` | a semaphore of `max_concurrent_workflows` | acquire with cancellation, release | `AgentSlots`, `WorkflowEngine` |
| Worktree preparation | `engine/bootstrap.rs`, `git/worktree*.rs` | directory and branch on disk, recorded path | prepare in the background, bootstrap, clear, remove | `TicketWorktree` |
| Intake | `jira/poller.rs`, `github/poller.rs`, `routes/workflows/manual.rs` | limits, the poll's counters, its set of seen keys | poll, manual start, retry, pause polling | `Intake` |
| Persistence | `engine/persistence.rs`, `db/work_items/` | table rows, the ticket's snapshot record | insert first, late writes, soft delete, sync, interrupt, restore | `WorkItemPersistence` |
| Snapshot files | `workflow/snapshot.rs` | one file per workspace, temporary file, old files | write, clean up, migrate, read at start | `SnapshotFiles` |
| Agent sessions, relay, guardrail | `claude/`, `codex/`, `cursor/`, `opencode/`, `process.rs`, `engine/step_runner.rs` | process group of the docker client, container, pipes, deadline, window of lines | run, nudge, time out, cancel, relay, abort, clean up | `AgentSession` |
| Step log | `workflow/log_sink.rs`, `log_writer.rs` | stamped lines, file, channel, batch, rows | stamp, append, send, flush, purge | `LogSink` |
| Merge poller | `github/pr_merge_poller.rs`, `workflow/outcome.rs` | `pr_merged` in memory and row | record, poll, mark | `PullRequests` |
| Flow definitions | `workflow/definitions.rs`, `routes/me_work_item_flows.rs` | files; stored flows of a user | discover, validate, order, seed, replace | `FlowGraph`, `UserSettings`, `UserRows` |
| Workspace containers | `container/workspace.rs`, `container/editor/`, `terminal.rs`, `run_command.rs` | container per item, port pool, locks | bring up, use, close, remove, sweep | `Workspaces` |
| Port forwards | `container/port_scanner.rs`, `routes/workflows/port_tracking.rs` | socat processes, list of forwards | scan, forward, track, close | `PortForwards` |
| Session proxy | `routes/sessions/`, `session_registry.rs` | token -> route, live backends, cookie | list, register, look up, forward, remove | `SessionProxy` |
| Accounts | `routes/auth/`, `routes/admin.rs`, `db/users.rs` | users, credentials, codes, sessions | register, login, recover, administer | `Accounts` |
| Lockout and session lifetime | `routes/auth/login.rs`, `middleware` | failed attempts, expiry columns | attempt, extend | `LoginLimits` |
| Credentials | `routes/credentials.rs`, `auth/`, `takuto keys` | sealed rows, audit log, master key, secrets directories | store, validate, bundle, reset | `Credentials` |
| GitHub App token | `github_app.rs` | cached token, file | refresh, write | `AppToken` |
| Configuration | `config/`, `config_watcher.rs`, `config_writer.rs` | file, lock file, value in memory | patch, write, watch, reload | `ConfigFile` |
| Repositories | `routes/repositories.rs`, `db/repositories.rs` | rows, links, clones, clone flag | add, remove, purge, reconcile | `Repositories` |
| Database start | `db/migrate.rs`, `db/importer.rs`, `takuto-cli/src/server/database.rs` | stores, schema, marker | open, fall back, migrate, import | `DatabaseStart` |
| Dashboard | `workflow/dashboard_progress.rs`, `routes/workflows/list.rs`, `routes/tickets.rs` | cards, texts, records of runs | show, record, improve, save | `Dashboard` |
| Jira | `jira/` | tickets on the site | claim, move, list; convert texts | `JiraBoard`, `JiraText` |
| Agent clients | `agent_install.rs`, `dependency_status.rs` | installed versions, status | install, probe, show | `AgentClients` |
| Shared locks | `state.rs`, all handlers | read-write locks with FIFO queues | acquire in nested order | `RequestLocks` |
| User interface | `ui/`, `e2e/` | | display | not modelled (section 8) |

### Interactions

The web routes and the pollers call the engine, which owns the map. The engine
spawns a driver task per started flow. A driver reaches back into the map by
ticket key, not by reference, so the entry it finds may belong to a later run.
A request runs in the future of its HTTP handler, which is dropped at whatever it
awaits when the client disconnects; drivers, preparations, scanners and batchers
are tasks of their own and live on.
Cancellation is a token that the entry and the drivers share until the entry
gets a fresh one (pause, start of a flow). The semaphore is shared by
all drivers, the worktree lock by the tasks of one entry. Database writes happen
after the map's lock was given back, addressed by the id of the run. The
snapshot files are written once a minute, after a delete and at shutdown, by
tasks that share a temporary file and no lock. A driver's agent step starts a
session whose lines go to the relay and the log. Requests for editors, terminals
and run commands meet at the container lock of the item; the proxy learns of
their ports through its registry. Credentials are read by builders of bundles
while requests and the key reset rewrite them.

### What is hard

- checks and writes in two critical sections with awaits between (start, add,
  retry, delete, manual start, poll, administration of users, credentials, clones);
- handlers dropped between a write of the map and the spawn that goes with it;
- look-ups by key after the entry was replaced;
- tokens that were replaced while drivers still hold the old one;
- one flow's end removing the containers of its siblings;
- a semaphore whose permit must come back on every path out of a step;
- locks held over a git clone, shell commands, docker and their failures, some of
  them without any timeout;
- a container that works on after the client that ran it was killed;
- writes that land late, in another order, or never, and a process that dies
  between any two of them;
- a restart that finds several rows of one ticket, a stale or torn snapshot, a
  half-written configuration, rows sealed with another key;
- ports, directories and tokens that pass from one owner to the next.

Each such place is an entry of `hazards` in `PROJECT.json`, with the property
that would catch it or the reason there is none.

## 2. Modules

| Module | What it is |
|---|---|
| `WorkflowEngine`, `MCWorkflowEngine`, `EngineClaims` | the map, requests, drivers, semaphore, interrupt; instances; statements of the documentation the engine does not meet |
| `AgentSlots` | abstract specification: a pool of slots, refined by the engine |
| `TicketWorktree` | the worktree of one ticket on disk |
| `Intake`, `MCIntake` | pollers, manual starts and their limits |
| `WorkItemPersistence`, `SnapshotFiles`, `MCWorkItemPersistence` | map, table and snapshot record of a ticket; the snapshot files of all workspaces |
| `Accounts`, `LoginLimits`, `MCAccounts` | accounts; what the clock decides about logins and sessions |
| `Credentials`, `AppToken`, `ConfigFile`, `MCSettings` | sealed credentials and the master key; the App's token; `config.toml` |
| `Workspaces`, `PortForwards`, `MCWorkspaces` | the container of an item and what uses it; forwards of an editor |
| `AgentSession`, `FlowGraph`, `UserSettings`, `UserRows`, `DatabaseStart`, `JiraText`, `AgentClients`, `LogSink`, `PullRequests`, `RequestLocks`, `MCWork` | what the work on a ticket needs |
| `ServerTasks` | log, merge poller and locks together: the tasks that run beside every ticket |
| `Repositories`, `Dashboard`, `JiraBoard`, `SessionProxy`, `MCPlatform` | what surrounds it |
| `MCProgress` | the liveness properties of seven modules under their fairness |
| `WorkflowEngineProofs`, `WorkProofs`, `IntakeProofs`, `WorkItemPersistenceProofs`, `SettingsProofs`, `AccountsProofs`, `PlatformProofs`, `WorkspacesProofs` | proofs |

Modules that share no variable are checked in one run: the MC module has a
variable `part` that is chosen initially and never changes, and only the module
of that name moves. A behaviour of independent modules is one of each, so a
property of one module holds of all of them together exactly when it holds in
its part.

### WorkflowEngine

`wf[t]` is the entry of a ticket: its state with the source that Paused and
Error wrap, the state of every definition, whether its token is cancelled,
`driver_started`, whether the worktree is recorded and whether it was
bootstrapped. `drv[d]` is a task running `drive_workflow_def`; `cur` says it
still holds the entry's token, `cx` that its token is cancelled, `lk` that it
holds the entry's worktree lock, `hit` that its container was removed under it.
`req[r]` is a request between two critical sections. One action is one critical
section: `StartCheck` and `StartCommit` are the halves of `start_workflow_def`
under the read and the write lock, `DeleteCheck` and `RemoveByKey` those of
`delete_workflow`. Start and resume await the database between the write of the
map and the spawn: the write reserves the driver's slot for the request (`by`),
since the entry holds the driver's token from there on, and `Spawn` lets it run.
`Drop` is a client that hangs up at any of these awaits: the reserved drivers never
come to be. What was Running then is remembered in the history field `lost` until
somebody starts it again. A driver goes through boot, the bootstrap states, the lock,
the worktree, the shell tasks, then the look for the image, and gate, slot, label and
agent for every step, and ends in done, reap and one of completed, cancelled and fail.
A preparation (`prep`) waits for the lock, creates under it, or works for an entry
that has left the map.

Abstractions: the states of an agent step are one state; a session ends well,
fails, times out or is killed; removing containers always succeeds (`AgentSession` has
the removal that fails); a lock is looked up when it is acquired; the free `Drivers` and `Reqs` slots bound how
many tasks and requests exist at once. The engine implements `AgentSlots` by the
mapping `busy <- Holders`, the drivers whose program counter is inside a permit.

### TicketWorktree, Intake, WorkItemPersistence

They keep from the map what their own state depends on and add the disk, the
limits and the database.

In `TicketWorktree`, `tree` is the disk, a branch index for every path; `item`
the entry with its recorded path and branch; `task` the preparations and the
bootstraps, with the lock of the entry they looked up; `rows` counts the runs of
the ticket, which determines the suffix of the branch; `op` is the add, retry or
delete that is under way (one at a time). `Check` is the second look of
`bootstrap_new_workflow` after it got the lock; the preparation has none.

In `Intake`, `board` has a row per key with its owner, whether it was started by
hand, its repository and whether it is open, done or ended. `poll` holds the
locals of `poll_once`; `req` the handlers of `start_manual_workflow` between
their checks and the insert, and of a retry between removal and insert. Settings
are constants of an instance: poll and request read them once. `via` is a ghost
field that remembers that a row came from a retry or was reopened, which no
limit is asked for.

`WorkItemPersistence` is one ticket with one definition. `item` is the map entry,
`rows` the `work_items` rows of its runs, `snap` the ticket's snapshot record;
runs are numbered in the order of `started_at`. Every operation changes `item` in
one step and leaves in `req` or `drv` the write it still has to make; `Written`
lets the write land or fail. The ghost field `of` of a row is the run whose state
was last written there. `Interrupt` is `persist_interrupt`, `Exit` the end of the
process, `Restore` all phases of `restore`. After `Interrupt` the server accepts
no new call; what was under way goes on until the exit.

`SnapshotFiles` has the files: what a writer lists, opens, writes and renames, one
call at a time, with failures and crashes between; the migration of files that
older releases left inside a repository or for all workspaces together; the start
that reads them. `snMixed` and `snBegun` are history: workspaces whose writes
overlapped, and the versions a restart may legitimately find.

### Accounts and settings

A handler of `Accounts`, `Credentials` or `Repositories` is a request with a
program counter at its awaits and the values it read before; a transaction is one
step. `LoginLimits` has a clock; the failures of a window are a set of times, and
a session is a row with its creation, last use and expiry. In `Credentials` a blob
opens only with the key it was sealed with; `skew` records that a server ran while
a reset was between its steps. In `ConfigFile` a configuration is a record of the
fields that validation relates, and a file is a configuration, empty or partial;
`cfBound` chooses the deployment in which rename fails and the file is rewritten
in place. In `AppToken` a token is its expiry time.

### Workspaces and platform

In `Workspaces` a request goes from the worktree through the ports, the container
lock, the steps of `ensure_workspace_container` and the start of its process to
the answer; a terminal that finds the container running skips them (`FirstPc`);
docker is external. `PortForwards` has scanner, socat processes,
broadcast and tracker of every open of one editor. `SessionProxy` numbers backends
as they start; `<<b, i>>` is the i-th token drawn for `b`, since a listing draws
another one for a forward it finds alive. `pxSeen` holds what a listing has found alive
and not yet registered, which may be after its backend was closed; a port may pass to
another backend. `Repositories` has rows, links and directories; `Dashboard` the card of
one ticket put together from map, row and steps, with `bdEnding`, the drivers that
are through with the flow and have the clean-up (`CleanedUp`) and the record of the run's
end (`RecordRun`, which may fail or never come) before them; `JiraBoard` the calls that move a ticket, each of two requests, against a
site whose transitions and languages are constants.

### The work on a ticket

`AgentSession` is one session from spawn to outcome with the relay that outlives
it. The process is the docker client of a foreground `docker run`, or the CLI itself for
"improve": `ProcessEnds` and `KillProcess` are about it and its group, `asBox` is the
client's container, and `asLeft` counts the containers whose client was killed and which
work on until the driver, or somebody else, removes the ticket's containers. The
CLI may write, hang, leave a process behind or exit at any time. `LogSink` is the channel
and batcher of every driver run, whose writer is shared by the driver and the relay:
each stamps a line, appends it to the file and sends it (`lgPend` is what is stamped and
not yet sent). `PullRequests` is the pass of the
merge poller. `RequestLocks` lists, for every handler that holds one lock while it
waits for another, its sequence of lock operations, over fair queues.
`AgentClients` installs clients while the server serves. `DatabaseStart` opens,
migrates and imports. `UserRows` has the requests for the rows of a user; what they
may store is a parameter, given by the validation in `UserSettings`. `FlowGraph` and `JiraText` are algorithms, written as
recursive operators and checked over every input of a bounded set (every graph of
three files; every document of nested blocks of a small grammar).

## 3. Runs

| Run | Instance | Shows |
|---|---|---|
| `engine_operations` | one ticket, one flow, every operation, clients that hang up, two drivers | `TypeOK`; no late failure or pause replaces a terminal state (`TerminalWins`); the semaphore refines the pool (`ImplementsAgentSlots`) |
| `engine_flows` | two flows of one ticket | no permit is lost (`PermitAccounting`); an active item with a running definition has a driver, a start under way, or lost its starting request to a client that hung up (`ActiveHasDriver`) |
| `engine_liveness` | two drivers, a shell task and a step, one permit, fairness | unless a command without a timeout never returns: a driver whose token is cancelled ends, whoever waits for a permit or the worktree lock gets it (`NoDriverStuck`), nothing is in progress for ever (`ActiveSettles`) |
| `intake` | two boards: three keys of one user with two requests; two keys of two users with retry and reopen | the poller's rows stay within `max_active_workflows` (`PollerRowsBounded`); the manual cap is overrun by less than the requests in flight (`ManualOverrunBounded`); no row without an owner comes into being (`OrphansOnlyShrink`) |
| `persistence` | one ticket with two requests, a driver, two runs, four events; two workspaces with two writers, two versions, one fault | what is on the board is found after a crash (`Recoverable`); rows show their own run (`StatesAreTheRunsOwn`); deleted rows stay deleted (`DeletionIsFinal`); restore leaves nothing in progress without a driver and drives nothing that ended (`RestoredIsDriven`); only overlapping writes tear a snapshot file and a restart reads what a write showed (`SnapshotsSafe`) |
| `accounts` | two users, names, passwords, sessions, requests; a clock of eight ticks | an active administrator remains, passwords are the ones set last, sessions have users (`AccountsSafe`); lockout, Retry-After and session lifetimes (`LimitsSafe`) |
| `settings` | two requests, two sites and tokens, three keys; two callers of the token; two requests on the file | `CredentialsSafe`, `AppTokenFresh`, `ConfigSafe` |
| `workspaces` | two items, two requests, four ports, two faults; two opens of the editor | no second container; one that is not fully made is handed out only while another request is bringing it up under the lock, never left so; no live worktree deleted (`WorkspacesSafe`); one scanner, no socat left, no spare lost (`ForwardsSafe`) |
| `work` | ten parts, one module each | a set-up keeps its tree and spares a sibling's agent (`SetupTreeComplete`, `BootstrapSparesAgents`); sessions end in time, leave no process of their group and, after the driver's clean-up, no container, cancel with a cause and lose no line (`AgentSessionSafe`); flows are ordered, seeded and stored soundly (`FlowsSafe`); clients shown as ready are installed (`ClientsSafe`); a log in the order of its lines and of each task's stamps, marks and locks (`ServerSafe`); the import is all or nothing (`ImportSafe`); saving a description again does not change it, and the first save keeps every word of its text (`TextSettles`) |
| `platform` | six parts: repositories, dashboard, its texts, Jira, sessions, pages | `RepositoriesSafe`; a card shows its own item and a finished bar changes only when the end of a run is recorded, or by a restart before any was (`BoardSafe`); tickets follow their items on the Jira board (`TicketsFollow`); a request is answered by the backend its token names, unless that ended by itself or the request meets a close (`ProxySafe`) |
| `progress` | seven parts under fairness | the poller alone keeps every repository's cap (`PollerKeepsRepoCap`); polls end when the tracker answers, and sessions end (`AttemptsEnd`); locks are granted unless a command without a timeout never returns (`LocksGranted`); forwards, log lines and merges are shown (`NewsArrives`) |
| `claim_stop` | two flows, then stop | a statement of the documentation that is refuted (section 6) |

Every property of a passing run has a mutant in `PROJECT.json`: a plausible slip
in the code (a dropped guard, a lock that is not awaited, a permit that is not
returned, a write addressed by key instead of by id) that TLC catches with the
same configuration. Where a property joins several statements, the module keeps
further mutants, marked as such in their comments, that break the others.

### Bounds, and why they are enough

- One ticket in the engine's runs: entries of different tickets share the
  semaphore only, and the semaphore does not look at whose a driver is; two
  drivers of one ticket compete for it the same way. Two drivers: a pause
  followed by a resume leaves one old and one new driver of one flow, which is
  where replaced tokens matter. Two flows in `engine_flows`, for one flow's end
  reaping its sibling and for two bootstraps at the lock. One request at a time: it
  may start several flows, wait between them, or be dropped, while operator steps
  of one critical section and drivers go on beside it.
- One permit and two drivers: the semaphore is exhausted at once. One step per
  flow; `engine_liveness` has a shell task, so that the lock is held while
  waiting for the permit. The theorems hold for every number.
- `BootStates` without Jira: the two further states add transitions of the same
  kind; the theorems cover both.
- Intake: two requests suffice for every pair of check and insert; three keys
  exceed a limit of two; two repositories have different caps in `progress`.
- Persistence: two runs (an old and a new one), two requests that overlap, one
  driver, and four requests, failed writes, syncs, shutdowns and crashes; the
  writes and driver steps between them are not bounded. One fault of the files;
  the theorem covers any number of faults, workspaces and writers.
- Accounts, credentials, repositories, configuration: two requests in flight give
  every pair of a read and a write of another; two administrators are the least
  who can remove each other. The clock of `LoginLimits` covers the window, the
  idle and the absolute lifetime once; that of `AppToken` three tokens.
- Workspaces: two items compete for four ports with pools of two; three requests
  are open, close or use, and delete. One spare port, two opens: the second
  scanner finds the first one's socat in its way.
- `work` and `platform`: two of whatever competes; a session of at most two lines
  over all attempts; two runs of two log tasks with two lines each; flows over every
  graph of three files, at most one of which does not run an agent; documents with every
  block inside every other.
- `platform` explores the dashboard twice: both flows without requests about the text,
  and those requests beside the first flow. The proxy is explored twice too. In
  "sessions" one request naming a token is in flight beside every kind of backend; only
  the first backend may get a second token. A login changes only while a request of that
  user is at its authentication, and nothing else moves beside an authentication or a
  tunnel: for the others such steps change nothing they read. In "pages" there are
  forwarded ports and their assets, with one registration each. Two backends, two tokens,
  one unregistered sighting and three requests: a token is drawn, closed, registered
  again and asked for after its port went to the other backend. The theorem
  has none of these restrictions.
- Symmetry is used in safety runs only, for slots and identities no definition
  tells apart. Where several parts are in one run, the four permutations each move
  pairs of several parts together, which is sound because one part moves.
- Deadlock checking is off where the operator may simply do nothing or where a
  bound may end a behaviour; `intake` checks it.

### Fairness, and why the code justifies it

Spawned tasks are polled by tokio until they end, so the next step of a driver, a
poll that has begun, a scanner, a tracker and a batcher is weakly fair, unless that
step waits for a command that has no timeout. These are the look for the ticket's data
with `acli` or `gh`, `git fetch` and `git worktree add`, `docker inspect`, `mise install`
and the init commands (`Untimed`). Of them nothing is assumed, not even that they end:
`NoDriverStuck`, `ActiveSettles` and `LocksGranted` hold *or such a command never returns*
(`CommandHangs`, `CallHangs`, `Slow`), and a hang in one of them does stop whoever waits for
its permit or its lock. A shell command ends when its token is cancelled, since the
driver's `select!` kills it. Agent sessions and command steps end, because
`step_timeout_secs` bounds them (0 is refused); removing containers has a timeout of its
own; the clock of a session moves.

A handler is not assumed to finish: one that starts drivers goes on or is dropped.
`ActiveSettles` and `ActiveHasDriver` therefore leave out definitions a dropped request
has left Running. Such an item stays as it is until an operator pauses, stops or retries
it; the code has nothing that would find it.

tokio's semaphore and mutex queue their waiters in order: a task that waits is not
overtaken for ever although the permit comes and goes, so acquiring a permit or the
worktree lock is strongly fair. In `RequestLocks` the queues are explicit and granting is
weakly fair. `AttemptsEnd` and `NewsArrives` assume that the calls of the pollers to the
tracker and to GitHub return, with whatever answer: `acli` and `gh` run without a timeout
and a poll that waits for one does not end. Nothing is assumed of operators, of the CLI
of an agent or of the success of anything.

## 4. What is proved

All theorems hold for every value of the constants that satisfies the module's
named assumption (positive numbers of permits, steps and runs; finite sets
where they are counted; the bounds are arbitrary). A constant that bounds the
model itself (`Drivers`, `Requests`, `MaxRuns`, `MaxEvents`) is then any set or
number.

`WorkflowEngineProofs`: the invariant `IInv` is `TypeCore` (the type without the
upper bound on permits), `BootIndex` (a driver in the bootstrap states points at
one of them, without which the state it writes has no type), `PausedSourceActive` (what a
resume restores is a state), `Reservations` (a driver not yet spawned stands at its first
step and belongs to a request for its ticket, so that dropping the request takes no
permit away) and `PermitAccounting`. The permit of a driver is tied to its program counter, so
accounting is inductive once every driver step is shown to move at most one driver in
or out of `HoldPcs` and everything else to leave the holders alone
(`RequestUndisturbed`, `OperatorUndisturbed`, `DriverPermit`). From it follow
`TypeCorrect`, `PermitsAreAccounted`, `TerminalStateWins` (an
action property; `Moves` lists the changes of an entry's state that any step can make) and
`SlotsAreImplemented`, the refinement of `AgentSlots`.
`ActiveItemsAreDriven` needs two hypotheses, `IndependentFlows`: every flow is a
TOML file and depends on no other. Both are needed. A resume re-spawns only the
flows it finds as files, and with dependencies TLC finds a behaviour of 33 states in
which a flow that completed is restarted while the one that depends on it has
failed, is stopped, and `resume_from_error` is refused because its dependency is
still marked as running: the item is pending, a definition is Running and nobody
drives it. The strengthening `Driven` counts a start request only when it is past
its check (`Pledged`), also between the map write and the spawn, and `ResultAt` ties a
driver's result to where it stands. A dropped request takes its reserved drivers with it
and leaves its Running definitions in `lost` (`DropDriven`).

`WorkProofs`: for the worktree, `Inv` is the type, `RowFirst` (an entry has a row) and,
as long as the ticket is in its first run, `IInv`: at most one holder of the
lock, every task on the one branch, and a holder past the check knows the tree
it found or made is there. The condition is needed: once an item has been deleted and
added again, tasks of the earlier run hold another lock and work on the same path.
`SetupKeepsItsTree` and `BootstrapsSpareAgents` follow.
For a session, `AsInv` adds to `AgentSessionSafe` that every attempt has the session's
deadline (`OneDeadline`), who may have cancelled and what that task did before
(`Cancellers`: the relay sets the signal first, the idle timer fires only while nudges
are left), when the supervisor listens (`Supervised`), from which no line can be
lost between it and the relay, and that a container is up only while its client lives,
an attempt leaving at most one behind (`Procs`).
For the log, `LogInv` numbers the lines: those a batcher is done with, its buffer and
its channel follow each other without a gap (`LogLinedUp`), a settled line is in the
table or was removed (`LogSettled`), the stamps of one task do not go backwards and what it
has stamped and not sent is no earlier than what it sent (`LogTimed`; the lines of the
two tasks of a writer may be sent against the order of their stamps), and the ids of a
writer do not go backwards (`LogIds`); order and accounting follow, whatever flush fails
and whatever the retention pass removes.
For the merge poller, `PrInv` says that a URL known for a ticket is of a pull request
opened from its branch (`OwnUrls`), that items and rows pair up (`RowsAreItems`), and
that what the poller has in hand stays true while it waits, or its row is deleted
(`PollSound`).
For the locks, `LkInv` says that a task holds only what its script has taken and not
dropped, and queues only where its script stands. In every script the locks are taken
by increasing `Rank`. So in every set of waiters there is one that waits for none of the
others (`SomebodyGoesOn`): of those whose lock ranks highest, the first in its queue.

`IntakeProofs`: `PollerKeepsWithinLimit` rests on `PollerSlots`, the sum of the rows
the poller has put on the board and the slots it may still use;
`ManualOverrun` on `ManualSlots`, the sum of admitted rows and of requests past
the check; `PollerKeepsTheRepoCap`, for an instance without requests and reopened
rows, on `RepoBudget`, the same sum for one repository. `OwnersAreKept` is an action
property from the type alone. `TicketsAreFollowed` is about the Jira board. Its `JbInv`
says that a call posts only a transition it has found (`CallsSound`), that no
credential has been rejected as long as a ticket was left alone
(`CredentialsGood`), and that the ticket of a running item which nobody touched or
gave back is claimed already or has a driver that has assigned it before it
moves it, with transitions it read in To Do (`DriversSound`, `RunningClaimed`). The
module's `SiteAssumption` is about the site, which is external: a transition or status that
bears a name Takuto asks for leads to a status of that meaning, and a ticket in
To Do can be put in progress in every language. On a site without it the code,
which goes by names first, moves tickets elsewhere or not at all.

`WorkItemPersistenceProofs`: `IInv` is the type and
`Issued` (a run's id is handed out once, and nothing refers to one that was not),
`Entering` (a run on its way into the map has a live row and nobody enters or
removes it), `Leaving` (a run whose row is about to be deleted is not in
the map), `Resting` (nothing in memory survives the process), `Addressed` (a
write on its way carries the id of the run its state was read from), and the two
properties. `Recoverable` alone is not inductive: the soft delete could hit
the run on the board if requests might name it, which `Leaving` and `Entering`
exclude. `BoardIsRecoverable`, `RowsShowTheirOwnRun` and the action property
`DeletedRowsStayDeleted` follow. `RestoreDrivesWhatItShows` needs no invariant: it
follows the phases of `Restore` from any table and any snapshot record, to the
reconciled definition and the driver that is spawned for it. `SnapshotsAreSafe` rests on `SnInv`: writers work
only while the server is up and two at once are recorded as mixed (`Writers`); in a
workspace that was never mixed the file shows what a write listed and a writer's
progress through list, temporary file and rename is the file's own (`Unmixed`); the
file for all workspaces is dropped after theirs are there (`GlobalFirst`). The proof
corrected the model's account of what a restart may find: an old file inside a
repository that one start passed over, because a file of another version was in
its place, is moved over by a later one.

`SettingsProofs`: `AppInv` says where the holder of the cache's lock is, how old a
stale look can be and when the file's writer wakes; `FileTokenFresh` follows from
the arithmetic of margin, interval and the longest request. `ConfigInv` adds to
`ConfigSafe` that a request holds the lock file exactly between its first and last
call, that the temporary file is whole when it is renamed, and that what a loader
has read validates. `CredInv` follows the key: who is making one, which key the
server holds, and that rows are sealed with it, through `keys reset` and its death
at any step. The proof showed that the reset must not make a second key while one of its own
is being written, which the model now states as the code does. `ClInv` follows the
installation task through its list: the clients it has passed are there whole and in
the pinned version, so `ready` can be believed (`InstallGoesOn`; `PushKeeps` shows
that the list names a client once), and the status tells of the configuration in
memory or exactly one request is about to refresh it (`StatusFollows`). `UsInv`
shows of the rows of a user (`UserRows`, whose parameter is what the validation
accepts) that before any write they hold the defaults and that a reader who has
seeded finds a row, whoever seeded it.

`AccountsProofs`: `AccountsInv` is `AccountsSafe`, `RowsDistinct` (credential rows
are not shared and numbers not used twice) and `RequestsSound` (what a request read
before its await is still a row of that user, or its write finds nothing).
`LimitsInv` bounds the failures of a window together with the attempts that have passed
the check (a pigeonhole argument gives each failure a number of its own) and relates
the columns of the session's row to its last use.

`PlatformProofs`: `PxInv` says that a registered token was drawn for its backend, its
route has that one's kind, ticket and owner, its port is still its own unless the
backend has ended or was closed, and a route of a closed backend is one that a listing put
back (`RoutesLive`, which also covers what a listing has found and not yet registered);
that pages have dynamic tokens (`PagesDynamic`), and what every
request may rely on at each of its steps (`ReqOK`). `RpInv` says that rows do
not share a directory (`RowsApart`), that the clone flag has one holder (`FlagHeld`),
that a directory being removed is nobody's (`RemovesApart`), and what a request knows
at each step (`RpSound`). `BdInv` ties the item on the board to the newest row, live
and in the same state (`Matches`, `CardRow`). The bar of a completed item is a function
of the recorded steps, the log and the cached length; the proof goes through what each
action leaves of them, and what remains are the two writes that `DoneBarStable` names: the
record of a run's end, and a restart while none with steps is recorded.
`DbInv` says that every row of
both databases and of the open transaction has the rows it refers to (`Sound`), that
the target of an import under way has no marker, that every table before the present
one is in the transaction, and that before the commit no session is live
(`Copying`); hence the order of the tables never runs into a foreign key.

`WorkspacesProofs`: `WsInv` says that whoever creates or starts a container holds its
item's lock from the look at the container to its use, so nobody else does, and that
the container is no older than the request (`HoldsLock`); that whoever works in the worktree
holds the lock of that worktree, except requests of an item that was deleted since
(`HoldsTree`); and that a running container is ready or being brought up by the
holder of its lock (`InHands`, `AtWork`), which is what a terminal that skips the lock
can rely on. The proof first failed on requests that outlive the deletion of their
item: TLC then gave the behaviour told in section 6, and `LiveTreeKept` now names
that case (`wStray`) and excludes every other. `FwInv` says that one open is past the
insertion and uncancelled (`OneScanner`), that an open not yet inserted has no
scanner, that a scanner's free and used spares are all its spares (`Account`), and that
a socat belongs to a scanner that has not ended (`Owned`).

## 5. What is only model-checked

- Liveness under fairness: `NoDriverStuck`, `ActiveSettles`, `AttemptsEnd`,
  `LocksGranted`, `NewsArrives`. The proof system does not reason about fairness or
  ENABLED.
- `FlowsSafe` and `TextSettles` speak about recursive operators (the order of the
  flows, the conversion of texts); what those compute for every input would need
  induction over data, which is out of the provers' reach. They are evaluated on
  every input of a bounded set. The part of `FlowsSafe` about concurrent requests is
  proved apart (`SeedsUndoNothing`); what is left of it is that the dependencies of
  discovered, default and accepted flows have no cycle and are listed in order.

Every other property of a passing run is stated by a theorem.

## 6. Refuted statements

The run `claim_stop` keeps a disagreement between the code and its documentation on
record, listed under `findings`: starting a second flow replaces the entry's
token, so a stop reaches only the driver that was started last, while
REQUIREMENTS.md says that it kills all sessions of the ticket
(`StopReachesEveryDriver`).

The following statements are defined beside the models with the line they come
from. TLC refutes each on a small instance; no run repeats it. Engine
instances are one ticket, one flow `d1` that is a TOML file, two drivers, one
request, one permit, one step, no shell task and `BootStates <- NoJira`, unless
said otherwise. The others are refuted by the constants of the run that checks the
module.

| Statement | Module | Instance |
|---|---|---|
| `CancellationIsNotFailure` | `EngineClaims` | `Ops = {"add", "pause", "resume"}` |
| `AgentOnlyAfterBootstrap` | `EngineClaims` | the same, `ShellTasks = 1` |
| `ResumeRespawnsEveryRunningDef` | `EngineClaims` | the same: a client that hangs up in a start or a resume; with `TomlDefs = {}` every resume |
| `PauseLetsTheAgentFinish` | `EngineClaims` | `Ops = {"add", "pause"}` |
| `InterruptPreservesRuns` | `EngineClaims` | `Ops = {"add", "interrupt"}`, `NumSteps = 2` |
| `DeleteSparesRunningItems` | `EngineClaims` | `Ops = {"add", "start", "delete"}`, two requests |
| `ResumeFromErrorRestartsWork` | `EngineClaims` | `Defs = {d1, d2}`, `DependsOn <- Chain`, `Ops = {"add", "start", "stop", "resumeFromError"}` |
| `PreparationSparesAgents` | `TicketWorktree` | one preparation, one flow, `MaxRuns = 1`, `Ops = {"add"}` |
| `ReAddKeepsItsBranch` | `TicketWorktree` | two preparations, one flow, `MaxRuns = 2`, `Ops = {"add", "delete"}` |
| `PreviousWorkIsReused` | `TicketWorktree` | one preparation, one flow, `MaxRuns = 2`, `Ops = {"start", "retry"}` |
| `PollerSkipsTheBoard` | `Intake` | as in `intake`: a ticket added by hand while the poll waits for the tracker is started again |
| `PollerStopsAtLimit` | `Intake` | as in `intake`, `MaxActive = 1` |
| `ManualReplacesOnlyDone`, `ManualCapKept`, `RefusedOnlyForOwnBoard` | `Intake` | as in `intake` |
| `RepoCapCountsTheRepo` | `Intake` | as in `intake`, two repositories |
| `RemovedStaysRemoved`, `NoZombieAfterRestore`, `StopIsDurable` | `WorkItemPersistence` | one request, two runs: a removed item returns after a restart that finds the old snapshot |
| `ImportsFollowPage` | `SessionProxy` | as in `platform` |
| `ClosedIsNotFound` | `SessionProxy` | as in `platform`: a listing that found the IDE alive registers its token after `close_editor` dropped it |
| `InitBeforeUse` | `Workspaces` | as in `workspaces`: a terminal opens while the init commands of a running container are under way |
| `KilledTogether` | `AgentSession` | as in `work`: the container outlives its killed client |
| `StopReverts`, `OldestFirst` | `JiraBoard` | as in `platform` |
| `SavedTextShown`, `FailedNeverFull`, `OwnerOnlyEdits` | `Dashboard` | as in `platform` |
| `MarkIsOfShownPr` | `PullRequests` | as in `work` |
| `CycleMembersFlagged` | `FlowGraph` | as in `work` |
| `FailFastRefuses`, `EveryTableCopied` | `DatabaseStart` | as in `work` |
| `TextRoundTrips` | `JiraText` | as in `work` |
| `StatusFollowsProvider`, `HeadlessMeansInstalled` | `AgentClients` | as in `work` |
| `PersistedSurvives` | `ConfigFile` | as in `settings` |
| `EveryRowOpens` | `Credentials` | as in `settings` |

`LiveTreeKept` of `Workspaces` has an exception: with one
ticket and four requests TLC finds a behaviour in which two requests for an item
that was deleted wait for git, one of them fails, a request for the item's successor
is told to make the worktree, and the other old one makes it first. The second
`git worktree add` then removes what it finds. `wStray` observes that case, and
the invariant says that it is the only one.

Three more behaviours are exceptions inside a property because the code has them. An
item whose starting client hung up between the map write and the spawn stays Running with
nobody at work (`lost`, in `ActiveHasDriver`). The bar of a completed item changes when the
end of its run is recorded after the item shows Done, or is never recorded and the server
restarts (`DoneBarStable`). A terminal may get a container whose egress rules or
init commands another request is still applying (`EnsureMeansReady`).

## 7. Plan

1. The persistence model with two definitions of one ticket.
2. Routes that only read (lists, exports) where they join two tables.

## 8. Not modelled, and why

- `dry_run.rs`, `dev_mock.rs`: doubles for demonstrations and tests.
- `server.rs`: the table of routes and middleware; permission checks only narrow
  who may call. The limiter of requests per address is a counter of its own.
- Prompts, skills, command lines, Docker arguments and the rest of the container
  builders are conversions without shared state, as are HTTP, SQL dialects and
  cryptography: a statement or a transaction is one step, a sealed value opens
  with its key.
- The event bus loses events by design and its receivers read the map again.
- The user interface and its end-to-end tests show what the API returns.
- Names of containers: a driver numbers its own from one again, so a container left by a
  killed client may bear the name the next driver asks for. `AgentSession` counts
  containers of one driver. A docker client that was killed is taken to start nothing any
  more. One flow's clean-up, or a pause, also removes the containers of a running
  sibling: `hit` in the engine.
- Stamps of the log come from the wall clock, which is taken not to go back; a task that
  stamped a line is taken to send it.
- In `Dashboard` the writes of steps and of the row's columns succeed and no two runs end
  in the same second. After a record of an end that was lost, the code refuses the next
  start of that flow, since its run is still Running in the table; the model allows it.
- The converter of Jira texts drops what inline nodes keep in attributes (the text of a status,
  string dates, the title of an expand). `JiraText` does the same, and `WordsKept`
  speaks of the words in text nodes.
- Two runs of one ticket with equal `started_at` (its resolution is a second), and
  tickets of two trackers that share a key.
