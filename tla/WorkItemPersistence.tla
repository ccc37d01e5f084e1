------------------------ MODULE WorkItemPersistence ------------------------
(***************************************************************************)
(* One ticket in the engine's map, in the work_items table and in the      *)
(* snapshot file of its workspace, over crashes, shutdowns and restarts.   *)
(* Operations change the map under its lock, give the lock back and then   *)
(* await a write of what they saw, addressed by the id of the run; such    *)
(* writes land in any order, and are lost with the process.                *)
(*                                                                         *)
(* Runs of the ticket are numbered in the order of started_at.  The item   *)
(* has one flow definition.  The states between Assigning and CreatingPR   *)
(* are one, "Active"; a paused state is told from the other by its source. *)
(* The cancellation token is the pair of "is it the item's present token"  *)
(* (att) and "was it cancelled" (cx) in whoever holds one.                 *)
(***************************************************************************)
EXTENDS Integers, FiniteSets

CONSTANTS
    MaxRuns,    \* runs of the ticket that are ever inserted (bound)
    Drivers,    \* driver tasks at any one time (bound)
    Requests,   \* requests in flight at any one time (bound)
    MaxEvents   \* requests, failed writes, periodic syncs and exits (bound)

ASSUME PersistenceAssumption == MaxRuns \in Nat \ {0} /\ MaxEvents \in Nat \ {0}

VARIABLES
    item,     \* the ticket's entry in the map
    tok,      \* its cancel_token has been cancelled
    rows,     \* the work_items table
    snap,     \* the snapshot file
    nextId,   \* the run that is started next
    drv,      \* driver tasks
    req,      \* requests between two awaits
    up,       \* the process
    events    \* requests, failed writes, periodic syncs and exits so far

vars == <<item, tok, rows, snap, nextId, drv, req, up, events>>

Runs == 1..MaxRuns
St == {"Pending", "Active", "PausedPending", "PausedActive",
       "Done", "Error", "Stopped"}
Terminal == {"Done", "Error", "Stopped"}
IsActive == {"Pending", "Active"}
Paused == {"PausedPending", "PausedActive"}
Def == {"Idle", "Running", "Completed", "Error"}

Item == [id : Runs \cup {0}, st : St, def : Def, started : BOOLEAN]
NoItem == [id |-> 0, st |-> "Pending", def |-> "Idle", started |-> FALSE]
NewItem(i) == [NoItem EXCEPT !.id = i]

Row == [live : {"absent", "live", "deleted"}, st : St, def : Def,
        started : BOOLEAN, of : Runs \cup {0}]
NoRow == [live |-> "absent", st |-> "Pending", def |-> "Idle",
          started |-> FALSE, of |-> 0]

Driver == [pc : {"gone", "run", "go", "write", "end", "land", "landw"},
           id : Runs \cup {0}, of : Runs \cup {0}, st : St,
           res : {"", "ok", "failed", "cancelled"},
           att : BOOLEAN, cx : BOOLEAN]
Gone == [pc |-> "gone", id |-> 0, of |-> 0, st |-> "Pending", res |-> "",
         att |-> FALSE, cx |-> FALSE]

Request == [pc : {"idle", "insert", "map", "retry", "begin", "start", "startw",
                  "statew", "remove", "soft", "sync"},
            id : Runs \cup {0}, of : Runs \cup {0}, st : St,
            then : {"", "begin", "spawn", "sync"},
            att : BOOLEAN, cx : BOOLEAN]
Idle == [pc |-> "idle", id |-> 0, of |-> 0, st |-> "Pending", then |-> "",
         att |-> FALSE, cx |-> FALSE]

Live == {i \in Runs : rows[i].live = "live"}
OnBoard == item.id # 0

(* A first start, possibly next to the snapshot of a release without a     *)
(* database (an event: its item counts as requested).                      *)
Legacy == [id |-> 1, st |-> "Active", def |-> "Running", started |-> TRUE]

Init ==
    /\ item = NoItem /\ tok = FALSE
    /\ rows = [i \in Runs |-> NoRow]
    /\ \/ snap = NoItem /\ nextId = 1 /\ events = 0
       \/ snap = Legacy /\ nextId = 2 /\ events = 1
    /\ drv = [d \in Drivers |-> Gone]
    /\ req = [r \in Requests |-> Idle]
    /\ up = "down"
-----------------------------------------------------------------------------
(* Tokens: cancelling the present one, and giving the item a fresh one.    *)
Cancelled(f) == [x \in DOMAIN f |-> [f[x] EXCEPT !.cx = @ \/ f[x].att]]
Detached(f) == [x \in DOMAIN f |-> [f[x] EXCEPT !.att = FALSE]]

(* The statements.  An UPDATE of a missing row changes nothing; a write    *)
(* that fails is logged and dropped, after its retries if it has any.      *)
WithState(i, s, o) ==
    IF i # 0 /\ rows[i].live # "absent"
    THEN [rows EXCEPT ![i].st = s, ![i].of = o] ELSE rows
WithDef(i, f) ==
    IF i # 0 /\ rows[i].live # "absent" THEN [rows EXCEPT ![i].def = f] ELSE rows
WithFinished(i, f) ==
    IF i # 0 /\ rows[i].def # "Idle" THEN WithDef(i, f) ELSE rows

Serving == up \in {"up", "stopping"}
Event == events < MaxEvents /\ events' = events + 1
Written(table) ==
    \/ rows' = table /\ UNCHANGED events
    \/ UNCHANGED rows /\ Event
Call(r) == up = "up" /\ req[r].pc = "idle" /\ Event
Set(r, fields) == req' = [req EXCEPT ![r] = fields]
Reply(r) == req' = [req EXCEPT ![r] = Idle]
Then(pc, i) == [Idle EXCEPT !.pc = pc, !.id = i]

(* Spawning a driver with the token a request holds.                       *)
Spawn(a, c) ==
    \E d \in Drivers :
        /\ drv[d].pc = "gone"
        /\ drv' = [drv EXCEPT ![d] = [Gone EXCEPT !.pc = "run", !.att = a,
                                                  !.cx = c]]
-----------------------------------------------------------------------------
(* Adding, starting and retrying a ticket.                                 *)

(* add_to_dashboard and start_workflow are called when the ticket is not   *)
(* on the board, or Done.                                                  *)
AddCheck(r) ==
    /\ ~OnBoard \/ item.st = "Done"
    /\ Call(r)
    /\ \E then \in {"", "begin"} :
        Set(r, [Then("insert", 0) EXCEPT !.then = then])
    /\ UNCHANGED <<item, tok, rows, snap, nextId, drv>>

(* The row is written first ...                                            *)
AddRow(r) ==
    /\ req[r].pc = "insert" /\ nextId \in Runs
    /\ rows' = [rows EXCEPT ![nextId] = [NoRow EXCEPT !.live = "live",
                                                     !.of = nextId]]
    /\ nextId' = nextId + 1
    /\ req' = [req EXCEPT ![r].pc = "map", ![r].id = nextId]
    /\ UNCHANGED <<item, tok, snap, drv, events>>

(* Mutant of AddRowFails: the run is added without its row.                *)
AddRowFailsAnyway(r) ==
    /\ req[r].pc = "insert" /\ nextId \in Runs
    /\ Event /\ nextId' = nextId + 1
    /\ req' = [req EXCEPT ![r].pc = "map", ![r].id = nextId]
    /\ UNCHANGED <<item, tok, rows, snap, drv>>

(* ... a run whose row cannot be written is not added ...                  *)
AddRowFails(r) ==
    /\ req[r].pc = "insert"
    /\ Event /\ Reply(r)
    /\ UNCHANGED <<item, tok, rows, snap, nextId, drv>>

(* ... and the entry replaces whatever has the key by then.  What          *)
(* start_workflow added is started at once.                                *)
AddMap(r) ==
    /\ req[r].pc = "map"
    /\ item' = NewItem(req[r].id) /\ tok' = FALSE
    /\ drv' = Detached(drv)
    /\ req' = [Detached(req) EXCEPT ![r] =
                IF req[r].then = "begin" THEN Then("begin", 0) ELSE Idle]
    /\ UNCHANGED <<rows, snap, nextId, events>>

RetryCheck(r) ==
    /\ Call(r) /\ OnBoard /\ item.st \in Terminal
    /\ Set(r, Then("retry", 0))
    /\ UNCHANGED <<item, tok, rows, snap, nextId, drv>>

(* retry_workflow removes the entry by key and leaves its row as it is.    *)
RetryRemove(r) ==
    /\ req[r].pc = "retry"
    /\ item' = NoItem /\ tok' = FALSE
    /\ drv' = Detached(drv)
    /\ req' = [Detached(req) EXCEPT ![r] = [Then("insert", 0) EXCEPT
                                                !.then = "begin"]]
    /\ UNCHANGED <<rows, snap, nextId, events>>

(* start_workflow_def looks under the read lock ...                        *)
StartCheck(r) ==
    /\ \/ Call(r)
       \/ req[r].pc = "begin" /\ UNCHANGED events
    /\ IF OnBoard /\ item.def # "Running"
       THEN Set(r, Then("start", item.id)) ELSE Reply(r)
    /\ UNCHANGED <<item, tok, rows, snap, nextId, drv>>

(* ... and writes under another, whatever it finds, with a fresh token ... *)
StartSet(r) ==
    /\ req[r].pc = "start"
    /\ IF OnBoard
       THEN /\ item' = [item EXCEPT !.def = "Running", !.started = TRUE]
            /\ tok' = FALSE /\ drv' = Detached(drv)
            /\ req' = [Detached(req) EXCEPT
                        ![r] = [Then("startw", req[r].id) EXCEPT !.att = TRUE]]
       ELSE Reply(r) /\ UNCHANGED <<item, tok, drv>>
    /\ UNCHANGED <<rows, snap, nextId, events>>

(* ... records the run in the database, and spawns the driver.             *)
StartWrite(r) ==
    /\ req[r].pc = "startw"
    /\ Written(WithDef(req[r].id, "Running"))
    /\ Spawn(req[r].att, req[r].cx)
    /\ Reply(r)
    /\ UNCHANGED <<item, tok, snap, nextId>>

(* retry_workflow_def first resets the failed definition, in the map only. *)
RetryDef(r) ==
    /\ Call(r) /\ OnBoard /\ item.def = "Error"
    /\ item' = [item EXCEPT !.def = "Idle"]
    /\ Set(r, Then("begin", 0))
    /\ UNCHANGED <<tok, rows, snap, nextId, drv>>
-----------------------------------------------------------------------------
(* Pause, resume, stop and resume_from_error.                              *)

(* The write of the state the operation has just set, and what follows it. *)
Writing(s, then) ==
    [Then("statew", item.id) EXCEPT !.of = item.id, !.st = s, !.then = then]

Pause(r) ==
    /\ Call(r) /\ OnBoard /\ item.st \in IsActive
    /\ LET s == IF item.st = "Pending" THEN "PausedPending" ELSE "PausedActive"
       IN  /\ item' = [item EXCEPT !.st = s]
           /\ req' = [Detached(Cancelled(req)) EXCEPT
                        ![r] = Writing(s, "")]
    /\ tok' = FALSE /\ drv' = Detached(Cancelled(drv))
    /\ UNCHANGED <<rows, snap, nextId>>

Resume(r) ==
    /\ Call(r) /\ OnBoard /\ item.st \in Paused
    /\ LET s == IF item.st = "PausedPending" THEN "Pending" ELSE "Active"
       IN  /\ item' = [item EXCEPT !.st = s]
           /\ Set(r, [Writing(s,
                              IF item.def = "Running" THEN "spawn" ELSE "")
                        EXCEPT !.att = TRUE, !.cx = tok])
    /\ UNCHANGED <<tok, rows, snap, nextId, drv>>

Stop(r) ==
    /\ Call(r) /\ OnBoard
    /\ item' = [item EXCEPT !.st = "Stopped"]
    /\ tok' = TRUE /\ drv' = Cancelled(drv)
    /\ req' = [Cancelled(req) EXCEPT ![r] = Writing("Stopped", "")]
    /\ UNCHANGED <<rows, snap, nextId>>

ResumeFromError(r) ==
    /\ Call(r) /\ OnBoard
    /\ item.st \in {"Error", "Stopped"} /\ item.def = "Error"
    /\ item' = [item EXCEPT !.st = "Pending", !.def = "Idle"]
    /\ Set(r, Writing("Pending", "begin"))
    /\ UNCHANGED <<tok, rows, snap, nextId, drv>>

(* A write addressed to the run, or lost; a resume then spawns the driver  *)
(* if it finds the definition, resume_from_error starts it again.          *)
StateWrite(r) ==
    /\ req[r].pc = "statew"
    /\ Written(WithState(req[r].id, req[r].st, req[r].of))
    /\ \/ req[r].then = "spawn" /\ Spawn(req[r].att, req[r].cx) /\ Reply(r)
       \/ req[r].then # "begin" /\ Reply(r) /\ UNCHANGED drv
       \/ req[r].then = "begin" /\ Set(r, Then("begin", 0)) /\ UNCHANGED drv
    /\ UNCHANGED <<item, tok, snap, nextId>>
-----------------------------------------------------------------------------
(* Delete and mark done.                                                   *)

DeleteCheck(r) ==
    /\ Call(r) /\ OnBoard
    /\ ~(item.st \in IsActive /\ item.started)
    /\ tok' = TRUE /\ drv' = Cancelled(drv)
    /\ req' = [Cancelled(req) EXCEPT
                ![r] = [Then("remove", item.id) EXCEPT !.then = "sync"]]
    /\ UNCHANGED <<item, rows, snap, nextId>>

MarkDoneCheck(r) ==
    /\ Call(r) /\ OnBoard /\ item.st = "Done"
    /\ Set(r, Then("remove", item.id))
    /\ UNCHANGED <<item, tok, rows, snap, nextId, drv>>

(* After the tracker, the containers and the worktree the entry is removed *)
(* by key.  Mark done gives up when one of them failed.                    *)
Remove(r) ==
    /\ req[r].pc = "remove"
    /\ \/ /\ item' = NoItem /\ tok' = FALSE /\ drv' = Detached(drv)
          /\ req' = [Detached(req) EXCEPT ![r].pc = "soft"]
       \/ /\ req[r].then = "" /\ Reply(r)
          /\ UNCHANGED <<item, tok, drv>>
    /\ UNCHANGED <<rows, snap, nextId, events>>

(* The row of the run that was looked at is marked deleted; only delete    *)
(* writes the snapshot afterwards.                                         *)
SoftDelete(r) ==
    /\ req[r].pc = "soft"
    /\ Written([rows EXCEPT ![req[r].id].live =
                                IF @ = "live" THEN "deleted" ELSE @])
    /\ IF req[r].then = "sync" THEN Set(r, Then("sync", 0)) ELSE Reply(r)
    /\ UNCHANGED <<item, tok, snap, nextId, drv>>

DeleteSync(r) ==
    /\ req[r].pc = "sync"
    /\ \/ snap' = item /\ UNCHANGED events
       \/ UNCHANGED snap /\ Event
    /\ Reply(r)
    /\ UNCHANGED <<item, tok, rows, nextId, drv>>
-----------------------------------------------------------------------------
(* The driver task.                                                        *)

Goes(d, pc) == drv' = [drv EXCEPT ![d].pc = pc]
Ending(res) == [Gone EXCEPT !.pc = "end", !.res = res]

(* After its last step the driver does not look at the token any more.     *)
After(d) == IF drv[d].res = "ok" THEN Ending("ok")
            ELSE [drv[d] EXCEPT !.pc = "run", !.id = 0, !.of = 0, !.st = "Pending"]

(* Between two steps, or in a session: is the token cancelled?             *)
DriverCheck(d) ==
    /\ drv[d].pc = "run"
    /\ drv' = IF drv[d].cx
              THEN [drv EXCEPT ![d] = Ending("cancelled")]
              ELSE [drv EXCEPT ![d].pc = "go"]
    /\ UNCHANGED <<item, tok, rows, snap, nextId, req, events>>

(* transition and transition_to_agent_step set the state of the entry and  *)
(* note its id and state under one lock.                                   *)
DriverTransition(d, s, res) ==
    /\ drv[d].pc = "go"
    /\ IF OnBoard
       THEN /\ item' = [item EXCEPT !.st = s]
            /\ drv' = [drv EXCEPT ![d].pc = "write", ![d].id = item.id, ![d].st = s,
                                  ![d].of = item.id, ![d].res = res]
       ELSE /\ drv' = [drv EXCEPT ![d] = IF res = "ok" THEN Ending(res)
                                         ELSE [drv[d] EXCEPT !.pc = "run"]]
            /\ UNCHANGED item
    /\ UNCHANGED <<tok, rows, snap, nextId, req, events>>

DriverStep(d) == DriverTransition(d, "Active", "")
DriverDone(d) == DriverTransition(d, "Done", "ok")

(* Mutant of DriverWrite: the run is looked up by key when it writes.      *)
DriverWriteByKey(d) ==
    /\ drv[d].pc = "write"
    /\ Written(WithState(item.id, drv[d].st, drv[d].of))
    /\ drv' = [drv EXCEPT ![d] = After(d)]
    /\ UNCHANGED <<item, tok, snap, nextId, req>>

DriverWrite(d) ==
    /\ drv[d].pc = "write"
    /\ Written(WithState(drv[d].id, drv[d].st, drv[d].of))
    /\ drv' = [drv EXCEPT ![d] = After(d)]
    /\ UNCHANGED <<item, tok, snap, nextId, req>>

DriverFails(d) ==
    /\ drv[d].pc = "run"
    /\ drv' = [drv EXCEPT ![d] = Ending("failed")]
    /\ UNCHANGED <<item, tok, rows, snap, nextId, req, events>>

(* The id is looked up by key.  A cancelled driver leaves things alone in  *)
(* a shutdown, and if the item is gone, stopped or paused.                 *)
DriverEnd(d) ==
    /\ drv[d].pc = "end"
    /\ drv' = IF /\ drv[d].res = "cancelled"
                 /\ up = "stopping" \/ ~OnBoard
                    \/ item.st \in {"Stopped"} \cup Paused
              THEN [drv EXCEPT ![d] = Gone]
              ELSE [drv EXCEPT ![d].pc = "land", ![d].id = item.id]
    /\ UNCHANGED <<item, tok, rows, snap, nextId, req, events>>

(* The result of the definition goes into the entry, again by key, ...     *)
DriverLand(d) ==
    /\ drv[d].pc = "land"
    /\ item' = IF ~OnBoard THEN item
               ELSE IF drv[d].res = "ok" THEN [item EXCEPT !.def = "Completed"]
               ELSE [item EXCEPT !.def = "Error",
                                 !.st = IF @ \in Terminal THEN @ ELSE "Error"]
    /\ Goes(d, "landw")
    /\ UNCHANGED <<tok, rows, snap, nextId, req, events>>

(* ... and into the database, where the state of the item is left alone.   *)
DriverLandWrite(d) ==
    /\ drv[d].pc = "landw"
    /\ Written(WithFinished(drv[d].id, IF drv[d].res = "ok"
                                       THEN "Completed" ELSE "Error"))
    /\ drv' = [drv EXCEPT ![d] = Gone]
    /\ UNCHANGED <<item, tok, snap, nextId, req>>
-----------------------------------------------------------------------------
(* The process.                                                            *)

(* Every minute the snapshot is written from the map.                      *)
Sync ==
    /\ up = "up" /\ Event
    /\ snap' = item
    /\ UNCHANGED <<item, tok, rows, nextId, drv, req, up>>

(* persist_interrupt: an empty map is not written.                         *)
Interrupt ==
    /\ up = "up" /\ up' = "stopping" /\ Event
    /\ IF OnBoard
       THEN /\ snap' = item /\ tok' = TRUE
            /\ drv' = Cancelled(drv) /\ req' = Cancelled(req)
       ELSE UNCHANGED <<snap, tok, drv, req>>
    /\ UNCHANGED <<item, rows, nextId>>

(* The process ends, by a crash or after the shutdown.                     *)
Exit ==
    /\ \/ up = "up" /\ Event
       \/ up = "stopping" /\ UNCHANGED events
    /\ up' = "down"
    /\ item' = NoItem /\ tok' = FALSE
    /\ drv' = [d \in Drivers |-> Gone]
    /\ req' = [r \in Requests |-> Idle]
    /\ UNCHANGED <<rows, snap, nextId>>

Newest == CHOOSE i \in Live : \A j \in Live : j <= i

(* Mutant of FromRow: the state is read from the other column.             *)
FromRowSwapped(i) == [id |-> i, st |-> rows[i].def, def |-> rows[i].def,
                      started |-> rows[i].started]

FromRow(i) == [id |-> i, st |-> rows[i].st, def |-> rows[i].def,
               started |-> rows[i].started]
ToRow(w) == [live |-> "live", st |-> w.st, def |-> "Idle",
             started |-> w.started, of |-> w.id]

(* Nothing to do for an item that ended, waits for a resume, or looks as   *)
(* if it had never been started.                                           *)
NoDriverNeeded(w) ==
    \/ w.st \in Terminal \/ w.st \in Paused
    \/ w.st = "Pending" /\ ~w.started

(* Mutant of Reconciled: the state of the item is left as it is.           *)
ReconciledDefOnly(w) ==
    [w EXCEPT !.def = IF @ = "Running" THEN "Error" ELSE @]

Reconciled(w) ==
    [w EXCEPT !.def = IF @ = "Running" THEN "Error" ELSE @, !.st = "Error"]

(* Mutant of Backfilled: any row with the id is taken over.                *)
BackfilledOver(w) == [rows EXCEPT ![w.id] = ToRow(w)]

(* The INSERT of a record the database did not have, refused if the run    *)
(* has a row, of a deleted one too.                                        *)
Backfilled(w) ==
    IF rows[w.id].live = "absent" THEN [rows EXCEPT ![w.id] = ToRow(w)] ELSE rows

(* The phases of restore on the item w that was found, with the table as   *)
(* the back-fill left it: a running definition is driven again if it is    *)
(* still there and has its worktree; an item that gets no driver fails.    *)
Respawn(w, table) ==
    \/ NoDriverNeeded(w) /\ item' = w /\ rows' = table /\ UNCHANGED drv
    \/ /\ ~NoDriverNeeded(w) /\ w.def = "Running"
       /\ item' = w /\ rows' = table /\ Spawn(TRUE, FALSE)
    \/ /\ ~NoDriverNeeded(w)
       /\ item' = Reconciled(w)
       /\ rows' \in {table, IF table[w.id].live = "absent" THEN table
                            ELSE [table EXCEPT ![w.id].st = "Error",
                                                ![w.id].of = w.id]}
       /\ UNCHANGED drv

(* restore: the newest live row wins; without one, or when the query       *)
(* fails, the snapshot is the source and is put into the database.         *)
Restore ==
    /\ up = "down" /\ up' = "up"
    /\ \/ Live # {} /\ Respawn(FromRow(Newest), rows)
       \/ snap.id = 0 /\ item' = NoItem /\ UNCHANGED <<rows, drv>>
       \/ snap.id # 0 /\ \E table \in {rows, Backfilled(snap)} : Respawn(snap, table)
    /\ tok' = FALSE
    /\ UNCHANGED <<snap, nextId, req, events>>
-----------------------------------------------------------------------------
Operation(r) ==
    \/ AddCheck(r) \/ AddRow(r) \/ AddRowFails(r) \/ AddMap(r)
    \/ RetryCheck(r) \/ RetryRemove(r)
    \/ StartCheck(r) \/ StartSet(r) \/ StartWrite(r) \/ RetryDef(r)
    \/ Pause(r) \/ Resume(r) \/ Stop(r) \/ ResumeFromError(r) \/ StateWrite(r)
    \/ DeleteCheck(r) \/ MarkDoneCheck(r) \/ Remove(r) \/ SoftDelete(r)
    \/ DeleteSync(r)

Drive(d) ==
    \/ DriverCheck(d) \/ DriverStep(d) \/ DriverDone(d) \/ DriverWrite(d)
    \/ DriverFails(d) \/ DriverEnd(d) \/ DriverLand(d) \/ DriverLandWrite(d)

Next ==
    \/ /\ Serving
       /\ \/ \E r \in Requests : Operation(r)
          \/ \E d \in Drivers : Drive(d)
       /\ UNCHANGED up
    \/ Sync \/ Interrupt \/ Exit \/ Restore

Spec == Init /\ [][Next]_vars
-----------------------------------------------------------------------------
(* Every variable keeps the shape its Rust type or its table gives it.     *)
TypeOK ==
    /\ item \in Item /\ tok \in BOOLEAN
    /\ rows \in [Runs -> Row] /\ snap \in Item /\ nextId \in 1..(MaxRuns + 1)
    /\ drv \in [Drivers -> Driver] /\ req \in [Requests -> Request]
    /\ up \in {"up", "stopping", "down"}
    /\ events \in 0..MaxEvents

(* Whatever is on the board would be found again after a crash at this     *)
(* very moment: it has a live row, or it is in the snapshot.  Adds,        *)
(* retries, deletes and syncs of the same ticket may interleave, and any   *)
(* write of theirs may fail.                                               *)
Recoverable ==
    OnBoard => rows[item.id].live = "live" \/ snap.id = item.id

(* Writes are addressed by an id that was read together with the state, so *)
(* however late they land, and whatever has the key by then, a row shows a *)
(* state its own run had in the map and never one of another run (of, the  *)
(* run whose state was written, is not in the table).                      *)
StatesAreTheRunsOwn ==
    \A i \in Runs : rows[i].live # "absent" => rows[i].of = i

(* A deleted row stays deleted: no write that is still on its way, and no  *)
(* back-fill from an older snapshot, brings a run back to life in the      *)
(* table.                                                                  *)
DeletionIsFinal ==
    [][\A i \in Runs : rows[i].live = "deleted" => rows'[i].live = "deleted"]_vars

(* restore leaves nothing that shows progress without a driver, and drives *)
(* nothing that had ended or is paused.                                    *)
RestoredIsDriven ==
    [][Restore => /\ item'.st = "Active" => \E d \in Drivers : drv'[d].pc = "run"
                  /\ \A d \in Drivers : drv'[d].pc = "run" =>
                        item'.st \in IsActive /\ item'.def = "Running"]_vars
-----------------------------------------------------------------------------
(* What the comments of persistence.rs say and the code does not do.       *)

(* Items "remain on the dashboard until explicitly deleted or marked done":*)
(* a run whose row was soft-deleted is not restored.                       *)
RemovedStaysRemoved ==
    [][Restore => item'.id = 0 \/ rows[item'.id].live # "deleted"]_vars

(* An active item that re-spawned no driver does not "linger as a zombie": *)
(* a definition that is Running after a restore is being driven.           *)
NoZombieAfterRestore ==
    [][Restore => (OnBoard' /\ item'.st \in IsActive /\ item'.def = "Running" =>
                    \E d \in Drivers : drv'[d].pc = "run")]_vars

(* The row's state is kept "in step with" the map: when nothing is under   *)
(* way and the item is Stopped, a restart finds it Stopped.                *)
StopIsDurable ==
    /\ up = "up" /\ OnBoard /\ item.st = "Stopped"
    /\ \A d \in Drivers : drv[d].pc = "gone"
    /\ \A r \in Requests : req[r].pc = "idle"
    => rows[item.id].live # "live" \/ rows[item.id].st = "Stopped"
=============================================================================
