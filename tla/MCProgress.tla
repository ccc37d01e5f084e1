----------------------------- MODULE MCProgress -----------------------------
(***************************************************************************)
(* What has to happen in the end.  The modules share no variable, so a     *)
(* behaviour of them all is one of each: the run explores them one at a    *)
(* time, each under the fairness its module states.                        *)
(***************************************************************************)
EXTENDS Intake, PortForwards, AgentSession, LogSink, RequestLocks, PullRequests, TLC

CONSTANTS Preps, Flows, TreeOps
VARIABLES rows, item, tree, task, op,   \* of TicketWorktree
          part
TW == INSTANCE TicketWorktree WITH MaxRuns <- 2, Ops <- TreeOps

(* Every repository has a cap of two items, but for one with a cap of one. *)
MCCaps == [r \in Repos |-> IF r = AnyRepo THEN 1 ELSE 2]
MCSpares == <<11>>

MCInit ==
    /\ part \in {"poller", "tree", "forwards", "session", "log", "locks", "pulls"}
    /\ Init /\ (part # "poller" => \A k \in Keys : board[k] = NoRow)
    /\ asResume = FALSE /\ asStream = TRUE /\ (part # "session" => asProvider = "claude")
    /\ TW!Init /\ FwdInit /\ SessInit /\ LogInit /\ LkInit /\ PrInit

(* The variables of TicketWorktree, and those of all modules but one's.    *)
treeVars == <<rows, item, tree, task, op>>
NotPoller == <<treeVars, fVars, asVars, lgVars, lkVars, prVars>>
NotTree == <<vars, fVars, asVars, lgVars, lkVars, prVars>>
NotForwards == <<vars, treeVars, asVars, lgVars, lkVars, prVars>>
NotSession == <<vars, treeVars, fVars, lgVars, lkVars, prVars>>
NotLog == <<vars, treeVars, fVars, asVars, lkVars, prVars>>
NotLocks == <<vars, treeVars, fVars, asVars, lgVars, prVars>>
NotPulls == <<vars, treeVars, fVars, asVars, lgVars, lkVars>>

MCNext ==
    /\ UNCHANGED part
    /\ \/ part = "poller" /\ Next /\ UNCHANGED NotPoller
       \/ part = "tree" /\ TW!Next /\ UNCHANGED NotTree
       \/ part = "forwards" /\ FwdNext /\ UNCHANGED NotForwards
       \/ part = "session" /\ SessNext /\ UNCHANGED NotSession
       \/ part = "log" /\ LogNext /\ UNCHANGED NotLog
       \/ part = "locks" /\ LkNext /\ UNCHANGED NotLocks
       \/ part = "pulls" /\ PrNext /\ UNCHANGED NotPulls

----------------------------------------------------------------------------
(* Fairness.  A module that states weak fairness of several actions has    *)
(* them numbered here; as the part never changes, weak fairness of the     *)
(* i-th action of whatever part moves is that of each module's own.        *)
TreeTasks == SetToSeq(TW!Tasks)
LogWriters == SetToSeq(Writers)
LockTasks == SetToSeq(LkTasks)
LockList == SetToSeq(Locks)
AppList == SetToSeq(FApps)
WorkList == SetToSeq(PrKeys)
Nth(q, i) == IF i \in DOMAIN q THEN {q[i]} ELSE {}
PollerFair(i) == i = 1 /\ PollStep
TreeFair(i) ==
    \E x \in Nth(TreeTasks, i) : task[x].pc \notin TW!Untimed /\ TW!TaskNext(x)
ForwardsFair(i) ==
    \/ i = 1 /\ fClose # 0 /\ CloseEditor
    \/ i = 2 /\ InsertScanner(1)
    \/ i = 3 /\ StartTracker(1)
    \/ i = 4 /\ ScanStep(1)
    \/ i = 5 /\ TrackEvent(1)
    \/ i = 6 /\ TrackerEnds(1)
SessionFair(i) ==
    \/ i = 1 /\ SessStep
    \/ i = 2 /\ Tick
    \/ i = 3 /\ (RelayLine \/ RelayCancels)
LogFair(i) == \E w \in Nth(LogWriters, i) : BatcherStep(w)
LocksFair(i) == \E l \in Nth(LockList, i) : Grant(l)
PullsFair(i) == i = 1 /\ PrPollStep

Fair(i) ==
    /\ UNCHANGED part
    /\ \/ part = "poller" /\ PollerFair(i) /\ UNCHANGED NotPoller
       \/ part = "tree" /\ TreeFair(i) /\ UNCHANGED NotTree
       \/ part = "forwards" /\ ForwardsFair(i) /\ UNCHANGED NotForwards
       \/ part = "session" /\ SessionFair(i) /\ UNCHANGED NotSession
       \/ part = "log" /\ LogFair(i) /\ UNCHANGED NotLog
       \/ part = "locks" /\ LocksFair(i) /\ UNCHANGED NotLocks
       \/ part = "pulls" /\ PullsFair(i) /\ UNCHANGED NotPulls
LockTaken(x) == part = "tree" /\ TW!TakeLock(x) /\ UNCHANGED <<part, NotTree>>

mcVars == <<part, vars, NotPoller>>
MCSpec ==
    /\ MCInit /\ [][MCNext]_mcVars
    /\ \A i \in 1 .. Cardinality(Locks) : WF_mcVars(Fair(i))
    /\ \A x \in TW!Tasks : SF_mcVars(LockTaken(x))

----------------------------------------------------------------------------
(* As the part never changes, leads-to formulas of several modules are one *)
(* each below, by the number of what they are about.                       *)

(* An attempt ends: neither a refused ticket nor a repository at its cap   *)
(* keeps poll_once busy for ever; and whatever the CLI of an agent does,   *)
(* also when it leaves a process behind that holds its pipes open, the     *)
(* session ends.                                                           *)
Attempting == \/ part = "poller" /\ poll.pc # "idle"
              \/ part = "session" /\ asPc \notin {"done", "reaped", "unreaped"}
AttemptsEnd == Attempting ~> ~Attempting

(* Who waits for a lock gets it: a preparation or a bootstrap the          *)
(* worktree_lock, and a request all those of its handler, so that it ends. *)
(* The exception is a command without a timeout that never returns to the  *)
(* task that holds the lock.                                               *)
Waits(i) == \/ part = "tree" /\ \E x \in Nth(TreeTasks, i) : TW!At(x, "lock")
            \/ part = "locks" /\ \E t \in Nth(LockTasks, i) : lkJob[t] # "idle"
Slow(i) == \/ part = "tree" /\ \E x \in Nth(TreeTasks, i) : task[x].pc \in TW!Untimed
           \/ part = "locks" /\ \E t \in Nth(LockTasks, i) :
                 lkJob[t] # "idle" /\ \A l \in Locks : ~Queued(t, l)
LocksGranted ==
    \A i \in 1 .. Cardinality(LkTasks) :
        Waits(i) ~> (~Waits(i) \/ \E j \in 1 .. Cardinality(LkTasks) : []Slow(j))

(* What happened is shown: a port the scanner forwards is listed with its  *)
(* token, lines leave the channel and the buffer of the log also when no   *)
(* other line comes, and a merged pull request marks its item although     *)
(* others cannot be read.                                                  *)
News(i) ==
    \/ part = "forwards" /\ \E p \in Nth(AppList, i) : Unlisted(1, p)
    \/ part = "log" /\ \E w \in Nth(LogWriters, i) : Unsettled(w)
    \/ part = "pulls" /\ \E k \in Nth(WorkList, i) : MergedUnseen(k)
NewsArrives == \A i \in 1 .. 2 : News(i) ~> ~News(i)
=============================================================================
