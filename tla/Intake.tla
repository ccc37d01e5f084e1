------------------------------- MODULE Intake -------------------------------
(***************************************************************************)
(* How tickets get onto the board: the poller of the configured tracker    *)
(* (the Jira and the GitHub poller run the same loop, and only one of them *)
(* is started), the requests of the dashboard (start_manual_workflow) and  *)
(* retry_workflow.  Each of them reads the board through the map's lock,   *)
(* one count or lookup at a time, decides, awaits, and inserts; the caps   *)
(* of the configuration are therefore checked against a board that may     *)
(* have changed by the time the row goes in.                               *)
(*                                                                         *)
(* A row that occupies a slot ("open": running or paused) is told from a   *)
(* Done one and from a Stopped or Error one ("ended").  Settings are       *)
(* constants: both readers fetch them once per poll or per request.  A row *)
(* also carries what the code does not record, that it was retried or      *)
(* reopened (via), so that the properties can tell such rows apart.        *)
(***************************************************************************)
EXTENDS Integers, FiniteSets

CONSTANTS
    Keys,       \* ticket keys
    Users,      \* users of the dashboard
    Owner,      \* resolved_owner_id, who owns what the poller starts
    NoUser,     \* user_id = None, rows of legacy snapshots
    Repos,      \* registered repositories
    AutoRepos,  \* those with auto_polling (and, for Jira, project keys)
    MaxItems,   \* [Repos -> Nat], max_parallel_items; 0 is no limit
    PerUser,    \* max_parallel_per_user
    MaxActive,  \* effective_max_active_workflows()
    MaxManual,  \* max_concurrent_manual_workflows; 0 is no limit
    Requests,   \* requests that can be in flight at once
    Ops         \* what else happens: "settle", "reopen", "delete", "retry"

ASSUME IntakeAssumption ==
    /\ IsFiniteSet(Keys) /\ IsFiniteSet(Requests)
    /\ Owner \in Users /\ NoUser \notin Users
    /\ Repos # {} /\ AutoRepos \subseteq Repos
    /\ MaxItems \in [Repos -> Nat] /\ PerUser \in BOOLEAN
    /\ MaxActive \in Nat /\ MaxManual \in Nat
    /\ Ops \subseteq {"settle", "reopen", "delete", "retry"}

VARIABLES
    board,   \* [Keys -> Row], the engine's map
    paused,  \* polling_paused
    poll,    \* the locals of the running poll_once
    req      \* [Requests -> Request], handlers between two awaits

vars == <<board, paused, poll, req>>

Row == [st : {"absent", "open", "done", "ended"}, user : Users \cup {NoUser},
        manual : BOOLEAN, repo : Repos, via : {"start", "retry", "reopen"}]
AnyRepo == CHOOSE r \in Repos : TRUE
NoKey == "no key"
NoRow == [st |-> "absent", user |-> NoUser, manual |-> FALSE, repo |-> AnyRepo,
          via |-> "start"]
NewRow(u, m, r) ==
    [st |-> "open", user |-> u, manual |-> m, repo |-> r, via |-> "start"]
Retried(row) == [row EXCEPT !.via = "retry"]

Poll == [pc : {"idle", "seen", "repos", "list", "tickets", "start"},
         slots : Nat, seen : SUBSET Keys, started : Nat,
         left : SUBSET Repos, repo : Repos, budget : Nat, here : Nat,
         todo : SUBSET Keys, key : Keys \cup {NoKey}]
NoPoll == [pc |-> "idle", slots |-> 0, seen |-> {}, started |-> 0,
           left |-> {}, repo |-> AnyRepo, budget |-> 0, here |-> 0,
           todo |-> {}, key |-> NoKey]

Request == [pc : {"idle", "cap", "repo", "insert", "retry"},
            user : Users \cup {NoUser}, key : Keys \cup {NoKey}, repo : Repos]
NoRequest == [pc |-> "idle", user |-> NoUser, key |-> NoKey, repo |-> AnyRepo]

Rows == {k \in Keys : board[k].st # "absent"}
Open == {k \in Keys : board[k].st = "open"}

(* active_item_count: the open rows, of every repository.                  *)
InUse(u) == Cardinality({k \in Open : PerUser => board[k].user = u})
ManualOpen(u) == {k \in Open : board[k].manual /\ board[k].user = u}

(* Rows of a legacy snapshot without an owner may be on the board already. *)
Init ==
    /\ board \in [Keys -> {NoRow, [NoRow EXCEPT !.st = "open"]}]
    /\ paused = FALSE
    /\ poll = NoPoll
    /\ req = [r \in Requests |-> NoRequest]
-----------------------------------------------------------------------------
(* The poller.                                                             *)

Unlimited == Cardinality(Keys)
SlotsOf(r) ==
    IF MaxItems[r] = 0 THEN Unlimited
    ELSE IF InUse(Owner) >= MaxItems[r] THEN 0
    ELSE MaxItems[r] - InUse(Owner)
Least(a, b) == IF a <= b THEN a ELSE b

(* Mutant of PollBegin: the rows of one state only are counted.            *)
PollBeginCountsOpen ==
    /\ poll.pc = "idle" /\ ~paused
    /\ Cardinality(Open) < MaxActive
    /\ poll' = [NoPoll EXCEPT !.pc = "seen",
                              !.slots = MaxActive - Cardinality(Open)]
    /\ UNCHANGED <<board, paused, req>>

(* Mutant of PollBegin: no test for a full board before the subtraction.   *)
PollBeginUnderflows ==
    /\ poll.pc = "idle" /\ ~paused
    /\ poll' = [NoPoll EXCEPT !.pc = "seen",
                              !.slots = MaxActive - Cardinality(Rows)]
    /\ UNCHANGED <<board, paused, req>>

(* A poll starts unless polling is paused or the board is full.            *)
PollBegin ==
    /\ poll.pc = "idle" /\ ~paused
    /\ Cardinality(Rows) < MaxActive
    /\ poll' = [NoPoll EXCEPT !.pc = "seen",
                              !.slots = MaxActive - Cardinality(Rows)]
    /\ UNCHANGED <<board, paused, req>>

(* The keys on the board are read under a second acquisition of the lock.  *)
PollSeen ==
    /\ poll.pc = "seen"
    /\ poll' = [poll EXCEPT !.pc = "repos", !.seen = Rows, !.left = Repos]
    /\ UNCHANGED <<board, paused, req>>

(* The next repository, skipped when it is not polled or at its cap.       *)
PollRepo ==
    /\ poll.pc = "repos" /\ poll.started < poll.slots
    /\ \E r \in poll.left :
        poll' = IF r \in AutoRepos /\ SlotsOf(r) > 0
                THEN [poll EXCEPT
                        !.pc = "list", !.repo = r, !.left = @ \ {r}, !.here = 0,
                        !.budget = Least(poll.slots - poll.started, SlotsOf(r))]
                ELSE [poll EXCEPT !.left = @ \ {r}]
    /\ UNCHANGED <<board, paused, req>>

(* The tracker answers, after any delay, with any tickets (none when the   *)
(* call fails or the filters drop them all).                               *)
PollList ==
    /\ poll.pc = "list"
    /\ \E found \in SUBSET Keys :
        poll' = [poll EXCEPT !.pc = "tickets", !.todo = found]
    /\ UNCHANGED <<board, paused, req>>

RoomInRepo == poll.started < poll.slots /\ poll.here < poll.budget

(* The next ticket that is not in seen is handed to start_workflow ...     *)
PollPick ==
    /\ poll.pc = "tickets" /\ RoomInRepo
    /\ \E k \in poll.todo \ poll.seen :
        poll' = [poll EXCEPT !.pc = "start", !.key = k, !.todo = @ \ {k}]
    /\ UNCHANGED <<board, paused, req>>

(* Mutant of PollInsert: the repository's counter is not advanced.         *)
PollInsertUncounted ==
    /\ poll.pc = "start"
    /\ board' = [board EXCEPT ![poll.key] = NewRow(Owner, FALSE, poll.repo)]
    /\ poll' = [poll EXCEPT !.pc = "tickets", !.seen = @ \cup {poll.key},
                            !.key = NoKey, !.started = @ + 1]
    /\ UNCHANGED <<paused, req>>

(* ... which inserts it, whatever the board holds by then, ...             *)
PollInsert ==
    /\ poll.pc = "start"
    /\ board' = [board EXCEPT ![poll.key] = NewRow(Owner, FALSE, poll.repo)]
    /\ poll' = [poll EXCEPT !.pc = "tickets", !.seen = @ \cup {poll.key},
                            !.key = NoKey, !.started = @ + 1, !.here = @ + 1]
    /\ UNCHANGED <<paused, req>>

(* Mutant of PollInsertFails: the ticket goes back to the list.            *)
PollInsertFailsRequeued ==
    /\ poll.pc = "start"
    /\ poll' = [poll EXCEPT !.pc = "tickets", !.todo = @ \cup {poll.key}]
    /\ UNCHANGED <<board, paused, req>>

(* ... or fails to, when the row cannot be written.                        *)
PollInsertFails ==
    /\ poll.pc = "start"
    /\ poll' = [poll EXCEPT !.pc = "tickets", !.key = NoKey]
    /\ UNCHANGED <<board, paused, req>>

PollNextRepo ==
    /\ poll.pc = "tickets"
    /\ ~RoomInRepo \/ poll.todo \subseteq poll.seen
    /\ poll' = [poll EXCEPT !.pc = "repos", !.todo = {}, !.budget = 0,
                            !.here = 0]
    /\ UNCHANGED <<board, paused, req>>

PollEnd ==
    /\ poll.pc = "repos"
    /\ poll.started >= poll.slots \/ poll.left = {}
    /\ poll' = NoPoll
    /\ UNCHANGED <<board, paused, req>>

(* pause_polling and resume_polling.  The flag is read between polls only. *)
TogglePolling ==
    /\ paused' = ~paused
    /\ UNCHANGED <<board, poll, req>>

PollStep ==
    \/ PollSeen \/ PollRepo \/ PollList \/ PollPick
    \/ PollInsert \/ PollInsertFails \/ PollNextRepo \/ PollEnd
-----------------------------------------------------------------------------
(* start_manual_workflow.                                                  *)

(* A key on the board may be added again if its row is Done or an orphan.  *)
Replaceable(k) ==
    board[k].st \in {"absent", "done"} \/ board[k].user = NoUser

SetReq(r, pc) == req' = [req EXCEPT ![r].pc = pc]
Reply(r) == req' = [req EXCEPT ![r] = NoRequest]

ManualKey(r) ==
    /\ req[r].pc = "idle"
    /\ \E u \in Users, k \in Keys, p \in Repos :
        /\ Replaceable(k)
        /\ req' = [req EXCEPT ![r] =
                    [pc |-> "cap", user |-> u, key |-> k, repo |-> p]]
    /\ UNCHANGED <<board, paused, poll>>

UnderManualCap(u) ==
    MaxManual > 0 => Cardinality(ManualOpen(u)) < MaxManual

(* Mutant of ManualCap: the comparison admits one more.                    *)
ManualCapOffByOne(r) ==
    /\ req[r].pc = "cap"
    /\ IF MaxManual > 0 => Cardinality(ManualOpen(req[r].user)) <= MaxManual
       THEN SetReq(r, "repo") ELSE Reply(r)
    /\ UNCHANGED <<board, paused, poll>>

(* The caller's manual rows are counted; at the cap the answer is 409.     *)
ManualCap(r) ==
    /\ req[r].pc = "cap"
    /\ IF UnderManualCap(req[r].user) THEN SetReq(r, "repo") ELSE Reply(r)
    /\ UNCHANGED <<board, paused, poll>>

(* The repository's cap, against the open rows of every repository.        *)
UnderRepoCap(u, p) == MaxItems[p] > 0 => InUse(u) < MaxItems[p]

ManualRepo(r) ==
    /\ req[r].pc = "repo"
    /\ \/ UnderRepoCap(req[r].user, req[r].repo) /\ SetReq(r, "insert")
       \/ Reply(r)   \* at the cap, no access, no project keys, DB error
    /\ UNCHANGED <<board, paused, poll>>

(* add_to_dashboard writes the row and inserts it over whatever is there.  *)
ManualInsert(r) ==
    /\ req[r].pc = "insert"
    /\ board' = [board EXCEPT ![req[r].key] =
                    NewRow(req[r].user, TRUE, req[r].repo)]
    /\ Reply(r)
    /\ UNCHANGED <<paused, poll>>

ManualInsertFails(r) ==
    /\ req[r].pc = "insert"
    /\ Reply(r)
    /\ UNCHANGED <<board, paused, poll>>
-----------------------------------------------------------------------------
(* What else changes the board.                                            *)

(* retry_workflow takes a terminal row off the board ...                   *)
RetryRemove(r) ==
    /\ "retry" \in Ops /\ req[r].pc = "idle"
    /\ \E k \in Keys :
        /\ board[k].st \in {"done", "ended"}
        /\ req' = [req EXCEPT ![r] =
                    [pc |-> "retry", user |-> board[k].user, key |-> k,
                     repo |-> board[k].repo]]
        /\ board' = [board EXCEPT ![k] = NoRow]
    /\ UNCHANGED <<paused, poll>>

(* Mutant of RetryInsert: the owner is not handed to the new run.          *)
RetryInsertDropsOwner(r) ==
    /\ req[r].pc = "retry"
    /\ \/ board' = [board EXCEPT ![req[r].key] =
                        Retried(NewRow(NoUser, FALSE, req[r].repo))]
       \/ UNCHANGED board
    /\ Reply(r)
    /\ UNCHANGED <<paused, poll>>

(* ... and starts it again, no longer manual and without asking the caps;  *)
(* the row is lost when it cannot be written.                              *)
RetryInsert(r) ==
    /\ req[r].pc = "retry"
    /\ \/ board' = [board EXCEPT ![req[r].key] =
                        Retried(NewRow(req[r].user, FALSE, req[r].repo))]
       \/ UNCHANGED board
    /\ Reply(r)
    /\ UNCHANGED <<paused, poll>>

(* The engine's drivers and its users: a run ends, an ended run is started *)
(* again (resume_from_error, start_workflow_def), a row that is not        *)
(* running is deleted (an open row is paused first).                       *)
Settle ==
    /\ "settle" \in Ops
    /\ \E k \in Open, s \in {"done", "ended"} :
        board' = [board EXCEPT ![k].st = s]
    /\ UNCHANGED <<paused, poll, req>>

Reopen ==
    /\ "reopen" \in Ops
    /\ \E k \in Rows \ Open :
        board' = [board EXCEPT ![k].st = "open",
                               ![k].via = IF @ = "retry" THEN @ ELSE "reopen"]
    /\ UNCHANGED <<paused, poll, req>>

Delete ==
    /\ "delete" \in Ops
    /\ \E k \in Rows : board' = [board EXCEPT ![k] = NoRow]
    /\ UNCHANGED <<paused, poll, req>>
-----------------------------------------------------------------------------
Serve(r) ==
    \/ ManualKey(r) \/ ManualCap(r) \/ ManualRepo(r) \/ ManualInsert(r)
    \/ ManualInsertFails(r) \/ RetryRemove(r) \/ RetryInsert(r)

Next ==
    \/ PollBegin \/ PollStep \/ TogglePolling
    \/ \E r \in Requests : Serve(r)
    \/ Settle \/ Reopen \/ Delete

Spec == Init /\ [][Next]_vars

(* The poller is a task of its own, and every await in poll_once is of a   *)
(* lock, of the database or of a command that returns.                     *)
FairSpec == Spec /\ WF_vars(PollStep)
-----------------------------------------------------------------------------
(* Every variable keeps the shape its Rust type gives it.                  *)
TypeOK ==
    /\ board \in [Keys -> Row]
    /\ paused \in BOOLEAN
    /\ poll \in Poll
    /\ req \in [Requests -> Request]

(* Whatever requests, retries, deletions and pauses interleave with a poll *)
(* that decided on an old count, the rows poll_once has put on the board   *)
(* never outnumber max_active_workflows (those that retry_workflow made    *)
(* look like the poller's not counted).                                    *)
PollerRows ==
    {k \in Keys : /\ board[k].st # "absent" /\ board[k].via # "retry"
                  /\ ~board[k].manual /\ board[k].user = Owner}
PollerRowsBounded == Cardinality(PollerRows) <= MaxActive

(* The cap on manual items is checked without holding anything until the   *)
(* insert, but requests can overrun it by at most the other requests in    *)
(* flight, and not at all when served one after the other (rows that were  *)
(* reopened, which asks no cap, not counted).                              *)
Admitted(u) == {k \in ManualOpen(u) : board[k].via = "start"}
ManualOverrunBounded ==
    MaxManual > 0 =>
        \A u \in Users :
            Cardinality(Admitted(u)) < MaxManual + Cardinality(Requests)

(* A repository's budget is computed once and spent over several awaits;   *)
(* with nobody else adding or reopening rows, every row the poller inserts *)
(* still finds the repository below its max_parallel_items.                *)
PollerKeepsRepoCap ==
    [][PollInsert => UnderRepoCap(Owner, poll.repo)]_vars

(* Nobody can see a row without an owner.  Whatever is started, added and  *)
(* retried, the rows without an owner, those between the two halves of a   *)
(* retry included, only ever become fewer.                                 *)
Orphans ==
    {k \in Keys : board[k].st # "absent" /\ board[k].user = NoUser}
    \cup {req[r].key : r \in {q \in Requests : /\ req[q].pc = "retry"
                                               /\ req[q].user = NoUser}}
OrphansOnlyShrink == [][Orphans' \subseteq Orphans]_vars

(* A poll ends: neither a refused ticket nor a repository at its cap keeps *)
(* poll_once busy for ever.                                                *)
PollEnds == poll.pc # "idle" ~> poll.pc = "idle"

----------------------------------------------------------------------------
(* Statements of docs and comments that the code does not meet.            *)

(* docs/configuration.md, max_active_workflows: "The poller will not start *)
(* new tickets while at this limit."                                       *)
PollerStopsAtLimit == [][PollInsert => Cardinality(Rows) < MaxActive]_vars

(* jira/poller.rs, poll_once: "Tickets already on the board (and ones      *)
(* started earlier in this poll) must not be started twice."               *)
PollerSkipsTheBoard == [][PollInsert => board[poll.key].st = "absent"]_vars

(* workflows/manual.rs: items still on the board "are 'Already added' and  *)
(* must not be replaced; ... this guard keeps the server authoritative".   *)
ManualReplacesOnlyDone ==
    [][\A r \in Requests : ManualInsert(r) => Replaceable(req[r].key)]_vars

(* docs/configuration.md, max_concurrent_manual_workflows: "Cap on         *)
(* dashboard + manual starts that are not Done/Stopped/Error."             *)
ManualCapKept ==
    MaxManual > 0 => \A u \in Users : Cardinality(ManualOpen(u)) <= MaxManual

(* workflows/manual.rs refuses a key with "... is already on your board".  *)
RefusedOnlyForOwnBoard ==
    \A u \in Users, k \in Keys : ~Replaceable(k) => board[k].user = u

(* workflows/manual.rs refuses a ticket with "Maximum parallel items (...) *)
(* reached for this repository".                                           *)
RepoCapCountsTheRepo ==
    \A u \in Users, p \in Repos :
        ~UnderRepoCap(u, p) =>
            Cardinality({k \in Open : board[k].repo = p}) >= MaxItems[p]

=============================================================================
