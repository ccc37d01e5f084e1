----------------------------- MODULE Dashboard ------------------------------
(* What the dashboard shows of one ticket, and the editing of its text.      *)
(*                                                                           *)
(* A card is put together from the entry of the engine's map, from the       *)
(* newest live work_items row of the ticket, and from the steps recorded in  *)
(* the database. A user may ask the agent to improve the text and may save a *)
(* text, before or after the ticket is on the board: both authorise first,   *)
(* then talk to the outside, then look the ticket up again by its key.       *)
(*                                                                           *)
(* The entry goes through the states of the engine, one flow at a time; all  *)
(* states between the start of a flow and its end are "Running". A text is   *)
(* <<u, n>>, the n-th text u saved, and Original is the one the tracker had. *)
(* A session is named after the user whose credential opened it.             *)
EXTENDS Integers, Sequences, FiniteSets

CONSTANTS
    BdUsers,    \* users
    FlowLen,    \* FlowLen[f]: the number of steps of flow f
    Trackers,   \* the ticketing systems to consider, of "none", "github", "jira"
    MaxItems,   \* bound on the work items of the ticket
    MaxSteps,   \* bound on the steps recorded of a flow of an item
    MaxEdits    \* bound on description requests

ASSUME DashboardAssumption ==
    /\ FlowLen \in Seq(Nat \ {0})
    /\ Trackers \subseteq {"none", "github", "jira"}
    /\ MaxItems \in Nat /\ MaxSteps \in Nat /\ MaxEdits \in Nat

VARIABLES
    bdTracker,  \* general.ticketing_system
    bdTicket,   \* the text the tracker has
    bdItem,     \* the entry of the engine's map
    bdRows,     \* rows of work_items, in the order of started_at
    bdSnap,     \* [sess]: what only the snapshot file keeps
    bdMine,     \* the users who have added the repository
    bdReq,      \* description requests, one per user
    bdEdits,    \* description requests so far
    bdEnding    \* the drivers whose flow is over and whose end is not recorded yet

bdVars == <<bdTracker, bdTicket, bdItem, bdRows, bdSnap, bdMine, bdReq, bdEdits, bdEnding>>

-----------------------------------------------------------------------------
Original == <<>>
NoSess == <<>>
BdFlows == DOMAIN FlowLen
NoCard == [id |-> 0]
OnBoard == bdItem.id # 0
BdTerminal(w) == w.st \in {"Done", "Stopped", "Error"}
BdActive(w) == ~BdTerminal(w) /\ w.st # "Paused"

NewEntry(i, u, text) ==
    [id |-> i, owner |-> u, st |-> "Pending", started |-> FALSE, prep |-> TRUE, wt |-> FALSE,
     pr |-> FALSE, failed |-> FALSE, flow |-> 1, at |-> 0, log |-> 0, boot |-> 0, total |-> 0,
     desc |-> text, sess |-> NoSess]
\* insert_work_item; the text is written here and by no later statement
NewDbRow(u, text) ==
    [owner |-> u, live |-> TRUE, st |-> "Pending", desc |-> text, wt |-> FALSE, pr |-> FALSE,
     steps |-> [f \in BdFlows |-> 0], begun |-> {}, ended |-> <<>>, failed |-> FALSE, flow |-> 1]

\* get_work_item_by_ticket_key: the newest row that is not deleted, 0 when there is none
NewestRow ==
    LET live == {i \in DOMAIN bdRows : bdRows[i].live}
    IN  IF live = {} THEN 0 ELSE CHOOSE i \in live : \A j \in live : j <= i
\* the same among the caller's own rows, as list_work_items filters them
NewestOwnRow(u) ==
    LET live == {i \in DOMAIN bdRows : bdRows[i].live /\ bdRows[i].owner = u}
    IN  IF live = {} THEN 0 ELSE CHOOSE i \in live : \A j \in live : j <= i

-----------------------------------------------------------------------------
(* Progress.                                                                 *)

InFlight(w) == w.st = "Running"
\* the cached length of the running flow, or a guess from what has been logged: the set-up
\* steps (three with Jira), the rows beyond them and two more while it runs, and a last one
EstimatedTotal(w) ==
    IF w.total > 0 THEN w.total
    ELSE LET t == IF bdTracker = "jira" THEN 3 ELSE 1
             logged == w.log + w.boot
             beyond == IF logged > t THEN logged - t ELSE 0
             agent == IF BdTerminal(w) THEN beyond ELSE beyond + 2
         IN  t + (IF agent > 1 THEN agent ELSE 1) + 1
\* hundredths of done / total, rounded, a step in flight counting 0.4
Percent(w) ==
    IF w.st = "Done" THEN 100
    ELSE LET total == EstimatedTotal(w)
             tenths == 10 * w.log + (IF InFlight(w) THEN 4 ELSE 0)
             p == (200 * tenths + 10 * total) \div (20 * total)
         IN  IF p < 100 THEN p ELSE 100
\* count_steps_of_latest_completed_def: all rows recorded under the flow completed last
PersistedCount(i) ==
    IF i = 0 \/ bdRows[i].ended = <<>> THEN 0
    ELSE bdRows[i].steps[bdRows[i].ended[Len(bdRows[i].ended)]]
\* Mutant: a completed item is estimated like any other.
ProgressEstimated(w) == <<Percent(w), EstimatedTotal(w)>>
Progress(w) ==
    IF w.st = "Done" /\ PersistedCount(w.id) # 0
    THEN <<100, PersistedCount(w.id)>>
    ELSE <<Percent(w), EstimatedTotal(w)>>

(* The card.                                                                 *)

CanStart(w) == w.st = "Pending" /\ ~w.started
\* the bootstrap states are part of "Running" before the first step
PrepState(w) ==
    IF w.st = "Running" /\ w.at = 0 /\ w.boot = 0 THEN "preparing"
    ELSE IF ~CanStart(w) THEN "none"
    ELSE IF w.prep THEN "preparing" ELSE "ready"
ActionFlags(w) ==
    [address |-> w.st = "Done" /\ w.pr, mergeBase |-> w.st = "Done" /\ w.pr /\ w.wt,
     mark |-> w.st = "Done", start |-> CanStart(w), delete |-> ~BdActive(w) \/ CanStart(w),
     resume |-> w.st \in {"Error", "Stopped"} /\ w.wt]
\* a present row is used wholesale for what is durable, the entry for the rest
Durable(w, i) ==
    IF i = 0 THEN [desc |-> w.desc, pr |-> w.pr, wt |-> w.wt]
    ELSE [desc |-> bdRows[i].desc, pr |-> bdRows[i].pr, wt |-> bdRows[i].wt]
\* Mutant: only the repository decides what a user sees.
BdVisibleToTeam(u) == OnBoard /\ u \in bdMine
BdVisible(u) == OnBoard /\ bdItem.owner = u /\ u \in bdMine
Card(u) ==
    [owner |-> bdItem.owner, st |-> bdItem.st, flags |-> ActionFlags(bdItem),
     prep |-> PrepState(bdItem), bar |-> Progress(bdItem),
     text |-> Durable(bdItem, NewestOwnRow(u)).desc]
\* list_workflows and workflow_counts
ListOf(u) == IF BdVisible(u) THEN {Card(u)} ELSE {}
CountsOf(u) ==
    [k \in {"completed", "errors", "paused", "pending", "running"} |->
        IF BdVisible(u) /\ k = CASE bdItem.st = "Done" -> "completed"
                               [] bdItem.st \in {"Error", "Stopped"} -> "errors"
                               [] bdItem.st = "Paused" -> "paused"
                               [] bdItem.st = "Pending" -> "pending"
                               [] OTHER -> "running"
        THEN 1 ELSE 0]
\* require_workflow_access: the row decides, the entry only when there is no row
Access(u) ==
    IF NewestRow # 0 THEN bdRows[NewestRow].owner = u /\ u \in bdMine
    ELSE OnBoard /\ bdItem.owner = u /\ u \in bdMine
TicketExists == NewestRow # 0 \/ OnBoard
Authorized(u) == TicketExists => Access(u)

-----------------------------------------------------------------------------
NoReq == [op |-> "idle"]

BdInit ==
    /\ bdTracker \in Trackers
    /\ bdTicket = Original /\ bdItem = NoCard /\ bdRows = <<>>
    /\ bdSnap = [sess |-> NoSess]
    /\ bdMine \in SUBSET BdUsers
    /\ bdReq = [u \in BdUsers |-> NoReq] /\ bdEdits = 0 /\ bdEnding = {}

OnlyItemAndRuns == UNCHANGED <<bdTracker, bdTicket, bdSnap, bdMine, bdReq, bdEdits>>
OnlyItem == OnlyItemAndRuns /\ UNCHANGED bdEnding
PutRow(fields) == bdRows' = [bdRows EXCEPT ![bdItem.id] = fields]
Ours == bdRows[bdItem.id]

\* add_to_dashboard: the row first, then the entry
AddToBoard(u) ==
    /\ OnBoard => bdItem.st = "Done"
    /\ u \in bdMine /\ Len(bdRows) < MaxItems
    /\ bdRows' = Append(bdRows, NewDbRow(u, bdTicket))
    /\ bdItem' = NewEntry(Len(bdRows) + 1, u, bdTicket)
    /\ OnlyItem
\* the worktree is prepared beside the parked item
Prepared ==
    /\ OnBoard /\ bdItem.prep
    /\ \/ /\ bdItem' = [bdItem EXCEPT !.prep = FALSE, !.wt = TRUE]
          /\ PutRow([Ours EXCEPT !.wt = TRUE])
       \/ bdItem' = [bdItem EXCEPT !.prep = FALSE] /\ UNCHANGED bdRows
    /\ OnlyItem
\* the runs of the item's flows in the order they were completed, but for those of f
Without(ended, f) == SelectSeq(ended, LAMBDA g : g # f)
\* start_workflow_def, which takes f for running until its driver has cleaned up, the driver's
\* first statement and the set-up steps it logs. start_definition_run is best effort, and it
\* takes back that f was completed before.
StartFlow(f) ==
    /\ OnBoard /\ bdItem.st \notin {"Running", "Paused"} /\ Ours.steps[f] < MaxSteps
    /\ \A p \in bdEnding : ~(p.at = "clean" /\ p.id = bdItem.id /\ p.flow = f)
    /\ bdItem' = [bdItem EXCEPT !.st = "Running", !.started = TRUE, !.prep = FALSE, !.wt = TRUE,
                                !.failed = FALSE, !.flow = f, !.at = 0, !.boot = 1,
                                !.total = IF FlowLen[f] > 1 THEN FlowLen[f] ELSE 1]
    /\ \E written \in BOOLEAN :
        PutRow([Ours EXCEPT !.st = "Running", !.wt = TRUE, !.flow = f, !.failed = FALSE,
                            !.begun = IF written THEN @ \cup {f} ELSE @,
                            !.ended = IF written THEN Without(@, f) ELSE @])
    /\ OnlyItem
\* resume_from_error starts the flow that failed
ResumeFailed ==
    OnBoard /\ bdItem.st \in {"Error", "Stopped"} /\ bdItem.failed /\ StartFlow(bdItem.flow)
\* The end of a run of the item's flow; the steps recorded by then tell two runs apart.
RunOver(ok) ==
    [id |-> bdItem.id, flow |-> bdItem.flow, n |-> Ours.steps[bdItem.flow], ok |-> ok,
     at |-> IF ok THEN "clean" ELSE "write"]
\* add_step_log, record_step_start and record_step_end. A failed step ends the flow; the last
\* one only when its output went round in circles. The driver has removed the containers when it
\* puts the item into Error, and goes on to record the end of the run.
BdStepEnds(ok) ==
    /\ OnBoard /\ bdItem.st = "Running" /\ bdItem.at < FlowLen[bdItem.flow]
    /\ Ours.steps[bdItem.flow] < MaxSteps
    /\ \E st \in {"Running", "Error"} :
           /\ ok => st = "Running"
           /\ ~ok /\ bdItem.at + 1 < FlowLen[bdItem.flow] => st = "Error"
           /\ bdItem' = [bdItem EXCEPT !.log = @ + 1, !.at = @ + 1, !.st = st,
                                        !.failed = st = "Error"]
           /\ PutRow([Ours EXCEPT !.steps[bdItem.flow] = @ + 1,
                                  !.st = st, !.failed = st = "Error"])
           /\ bdEnding' = IF st = "Error" THEN bdEnding \cup {RunOver(FALSE)} ELSE bdEnding
    /\ OnlyItemAndRuns
\* transition_to_done_with_pr_url: the driver is not through yet
BdFlowEnds ==
    /\ OnBoard /\ bdItem.st = "Running" /\ bdItem.at = FlowLen[bdItem.flow]
    /\ \E pr \in {bdItem.pr, TRUE} :
        /\ bdItem' = [bdItem EXCEPT !.st = "Done", !.pr = pr]
        /\ PutRow([Ours EXCEPT !.st = "Done", !.pr = pr])
    /\ bdEnding' = bdEnding \cup {RunOver(TRUE)}
    /\ OnlyItemAndRuns
\* it removes the containers, and takes the id of whatever entry has the key by then
CleanedUp(p) ==
    /\ p.at = "clean"
    /\ bdEnding' = (bdEnding \ {p})
                    \cup (IF OnBoard THEN {[p EXCEPT !.at = "write", !.id = bdItem.id]} ELSE {})
    /\ UNCHANGED <<bdItem, bdRows>> /\ OnlyItemAndRuns
\* finish_definition_run updates the row of a run that has been begun
Recorded(r, p) ==
    IF p.flow \notin r.begun THEN r
    ELSE [r EXCEPT !.ended = IF p.ok THEN Append(Without(@, p.flow), p.flow)
                             ELSE Without(@, p.flow)]
\* shadow_finish_def_run, of which a failure is only logged
RecordRun(p) ==
    /\ p.at = "write"
    /\ \/ bdRows' = [bdRows EXCEPT ![p.id] = Recorded(@, p)]
       \/ UNCHANGED bdRows
    /\ bdEnding' = bdEnding \ {p}
    /\ UNCHANGED bdItem /\ OnlyItemAndRuns
PauseItem ==
    /\ OnBoard /\ bdItem.st = "Running"
    /\ bdItem' = [bdItem EXCEPT !.st = "Paused"] /\ PutRow([Ours EXCEPT !.st = "Paused"])
    /\ OnlyItem
\* the driver that is spawned caches the length again and runs what is left
ResumeItem ==
    /\ OnBoard /\ bdItem.st = "Paused"
    /\ bdItem' = [bdItem EXCEPT !.st = "Running", !.total =
                    IF FlowLen[bdItem.flow] > 1 THEN FlowLen[bdItem.flow] ELSE 1]
    /\ PutRow([Ours EXCEPT !.st = "Running"])
    /\ OnlyItem
StopItem ==
    /\ OnBoard /\ bdItem.st # "Stopped"
    /\ bdItem' = [bdItem EXCEPT !.st = "Stopped"] /\ PutRow([Ours EXCEPT !.st = "Stopped"])
    /\ OnlyItem
\* delete_workflow of what is not active, or was never started, which writes the snapshot;
\* mark_work_done of what is Done, which does not
RemoveItem ==
    /\ OnBoard
    /\ ~(BdActive(bdItem) /\ bdItem.started)
    /\ bdItem' = NoCard /\ PutRow([Ours EXCEPT !.live = FALSE])
    /\ \/ bdSnap' = [sess |-> NoSess]
       \/ bdItem.st = "Done" /\ UNCHANGED bdSnap
    /\ UNCHANGED <<bdTracker, bdTicket, bdMine, bdReq, bdEdits, bdEnding>>
\* the periodic write of the snapshot files
SyncSnapshot ==
    /\ bdSnap' = [sess |-> IF OnBoard THEN bdItem.sess ELSE NoSess]
    /\ UNCHANGED <<bdTracker, bdTicket, bdItem, bdRows, bdMine, bdReq, bdEdits, bdEnding>>
\* add_for_user and remove_for_user
ToggleRepo(u) ==
    /\ bdMine' = IF u \in bdMine THEN bdMine \ {u} ELSE bdMine \cup {u}
    /\ UNCHANGED <<bdTracker, bdTicket, bdItem, bdRows, bdSnap, bdReq, bdEdits, bdEnding>>

\* restore: the newest live row becomes the entry. The log, the cached length and driver_started
\* are not in the row, the session comes from the snapshot. A running flow is driven again, or
\* the item is put into Error when its worktree is gone. What a driver of a completed item had
\* left to record is lost.
FromRow(i) ==
    LET r == bdRows[i]
        again == r.st = "Running" /\ r.wt
    IN  [NewEntry(i, r.owner, r.desc) EXCEPT
            !.st = IF r.st = "Running" /\ ~r.wt THEN "Error" ELSE r.st,
            !.prep = FALSE, !.wt = r.wt, !.pr = r.pr, !.failed = r.failed, !.flow = r.flow,
            !.total = IF again THEN (IF FlowLen[r.flow] > 1 THEN FlowLen[r.flow] ELSE 1) ELSE 0,
            !.sess = bdSnap.sess]
RestartBoard ==
    /\ OnBoard
    /\ bdItem' = FromRow(NewestRow)
    /\ PutRow([Ours EXCEPT !.st = FromRow(NewestRow).st])
    /\ bdReq' = [u \in BdUsers |-> NoReq] /\ bdEnding' = {}
    /\ UNCHANGED <<bdTracker, bdTicket, bdSnap, bdMine, bdEdits>>

-----------------------------------------------------------------------------
(* Description requests.                                                     *)

BdSet(u, fields) == bdReq' = [bdReq EXCEPT ![u] = fields]

\* improve_ticket, prompt_ticket and update_ticket_description authorise first
AskText(u) ==
    /\ bdReq[u] = NoReq /\ bdEdits < MaxEdits /\ Authorized(u)
    /\ \/ BdSet(u, [op |-> "improve", at |-> "resume"])
       \/ BdSet(u, [op |-> "save", at |-> "patch", text |-> <<u, bdEdits>>])
    /\ bdEdits' = bdEdits + 1
    /\ UNCHANGED <<bdTracker, bdTicket, bdItem, bdRows, bdSnap, bdMine, bdEnding>>
\* run_description_session: the session to resume is that of whatever entry has the key
ReadResume(u) ==
    /\ bdReq[u].op = "improve" /\ bdReq[u].at = "resume"
    /\ BdSet(u, [op |-> "improve", at |-> "run",
                 sess |-> IF OnBoard THEN bdItem.sess ELSE NoSess])
    /\ UNCHANGED <<bdTracker, bdTicket, bdItem, bdRows, bdSnap, bdMine, bdEdits, bdEnding>>
\* the agent answers, and the session is noted on whatever entry has the key by then
SessionAnswers(u) ==
    /\ bdReq[u].op = "improve" /\ bdReq[u].at = "run"
    /\ LET sess == IF bdReq[u].sess = NoSess THEN <<u>> ELSE bdReq[u].sess
       IN  IF OnBoard THEN bdItem' = [bdItem EXCEPT !.sess = sess] /\ bdSnap' = [sess |-> sess]
           ELSE UNCHANGED <<bdItem, bdSnap>>
    /\ BdSet(u, NoReq)
    /\ UNCHANGED <<bdTracker, bdTicket, bdRows, bdMine, bdEdits, bdEnding>>
SessionFails(u) ==
    /\ bdReq[u].op = "improve" /\ bdReq[u].at = "run"
    /\ BdSet(u, NoReq)
    /\ UNCHANGED <<bdTracker, bdTicket, bdItem, bdRows, bdSnap, bdMine, bdEdits, bdEnding>>
\* gh api PATCH, or the Jira client; without a tracker there is only the entry
PatchTicket(u) ==
    /\ bdReq[u].op = "save" /\ bdReq[u].at = "patch"
    /\ IF bdTracker = "none"
       THEN /\ UNCHANGED bdTicket
            /\ BdSet(u, IF OnBoard THEN [bdReq[u] EXCEPT !.at = "store"] ELSE NoReq)
       ELSE \/ bdTicket' = bdReq[u].text /\ BdSet(u, [bdReq[u] EXCEPT !.at = "store"])
            \/ UNCHANGED bdTicket /\ BdSet(u, NoReq)
    /\ UNCHANGED <<bdTracker, bdItem, bdRows, bdSnap, bdMine, bdEdits, bdEnding>>
\* the text goes into the entry that has the key by then, and the snapshot is written
StoreText(u) ==
    /\ bdReq[u].op = "save" /\ bdReq[u].at = "store"
    /\ bdItem' = IF OnBoard THEN [bdItem EXCEPT !.desc = bdReq[u].text] ELSE bdItem
    /\ bdSnap' = IF OnBoard THEN [sess |-> bdItem.sess] ELSE bdSnap
    /\ BdSet(u, NoReq)
    /\ UNCHANGED <<bdTracker, bdTicket, bdRows, bdMine, bdEdits, bdEnding>>

BdNext ==
    \/ \E u \in BdUsers : \/ AddToBoard(u) \/ ToggleRepo(u) \/ AskText(u) \/ ReadResume(u)
                          \/ SessionAnswers(u) \/ SessionFails(u) \/ PatchTicket(u)
                          \/ StoreText(u)
    \/ \E f \in BdFlows : StartFlow(f)
    \/ \E ok \in BOOLEAN : BdStepEnds(ok)
    \/ \E p \in bdEnding : CleanedUp(p) \/ RecordRun(p)
    \/ Prepared \/ ResumeFailed \/ BdFlowEnds \/ PauseItem \/ ResumeItem \/ StopItem
    \/ RemoveItem \/ SyncSnapshot \/ RestartBoard

BdSpec == BdInit /\ [][BdNext]_bdVars

-----------------------------------------------------------------------------
(* The bar of a completed item stays as it is until the end of a run of the  *)
(* item is recorded: through second thoughts on the text, other users, and a *)
(* restart, which loses the log and the cached length (progress_fields: the  *)
(* "3/3" bug). Only a restart that comes before the end of any run with      *)
(* steps has been recorded still changes it.                                 *)
DoneBarStable ==
    [][OnBoard /\ bdItem.st = "Done" /\ bdItem'.id = bdItem.id /\ bdItem'.st = "Done"
        => \/ Progress(bdItem)' = Progress(bdItem)
           \/ \E p \in bdEnding : p.id = bdItem.id /\ RecordRun(p)
           \/ RestartBoard /\ PersistedCount(bdItem.id) = 0]_bdVars

(* Nobody is shown a card, or counted an item, of somebody else, and the     *)
(* summary counts exactly the cards of the grid.                             *)
BoardIsOwn ==
    \A u \in BdUsers :
        /\ \A c \in ListOf(u) : c.owner = u
        /\ Cardinality({k \in DOMAIN CountsOf(u) : CountsOf(u)[k] = 1}) = Cardinality(ListOf(u))

(* Statements the code makes and does not keep.                              *)

(* progress_fields: "The override is scoped to `Done` so a failed/stopped    *)
(* workflow is never shown as 100%."                                         *)
FailedNeverFull ==
    OnBoard /\ bdItem.st \in {"Error", "Stopped"} => Progress(bdItem)[1] < 100

(* update_ticket_description: the text that was saved last is what the next  *)
(* list shows.                                                               *)
SavedTextShown ==
    \A u \in BdUsers : \A c \in ListOf(u) : c.text = bdItem.desc

(* authorize_description_session: "When the ticket IS a live work item, only *)
(* its owner may touch it".                                                  *)
OwnerOnlyEdits ==
    [][\A u \in BdUsers : OnBoard /\ bdItem'.id = bdItem.id /\ bdItem'.desc # bdItem.desc
        /\ bdReq[u].op = "save" /\ bdReq'[u] = NoReq => bdItem.owner = u]_bdVars

(* The dashboard: everybody's cards are their own and counted once, and the  *)
(* bar of a completed item changes with the record of its runs only.         *)
BoardSafe == []BoardIsOwn /\ DoneBarStable

=============================================================================
