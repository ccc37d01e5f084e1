---------------------------- MODULE PullRequests ----------------------------
(***************************************************************************)
(* Pull requests of work items: a finished flow records the one its agent  *)
(* reports (workflow/outcome.rs, engine/driver.rs), and the merge poller   *)
(* (github/pr_merge_poller.rs) asks GitHub about every item that has one   *)
(* and is not known to be merged, sets the item's flag by ticket key and   *)
(* writes it to the row, which a restart reads.  Pull requests are numbers *)
(* 1, 2, ...; Junk is a reported text that is no pull-request URL.         *)
(***************************************************************************)
EXTENDS Integers, FiniteSets

CONSTANTS
  PrKeys,       \* ticket keys
  Prs,          \* pull requests that may be opened
  PrUnreadable, \* those the credentials cannot read: gh fails on them
  MaxWorks,     \* bound: items added
  MaxPrFaults   \* bound: failed calls, failed writes and restarts

ASSUME PullRequestAssumption ==
  Prs \subseteq Nat \ {0} /\ PrUnreadable \subseteq Prs /\ {"none", "deleted"} \cap PrKeys = {}

VARIABLES
  prHub,       \* GitHub: what each pull request is
  prHead,      \* the ticket whose branch it was opened from
  prWork,      \* the engine's items
  prRow,       \* the rows of work_items
  prFile,      \* .takuto/outcome.toml of the ticket's worktree
  prPoll,      \* the merge poller
  prInterval,  \* pr_merge_poll_interval_secs
  prFaults

prVars == <<prHub, prHead, prWork, prRow, prFile, prPoll, prInterval, prFaults>>

Junk == -1
NoWork == [id |-> 0, url |-> 0, flag |-> FALSE]
NoPrRow == [key |-> "none", url |-> 0, flag |-> FALSE]
PollIdle == [at |-> "loop", todo |-> {}, key |-> "none", url |-> 0, id |-> 0]
Works == 1..MaxWorks

PrInit ==
  /\ prHub = [p \in Prs |-> "none"]
  /\ prHead = [p \in Prs |-> "none"]
  /\ prWork = [k \in PrKeys |-> NoWork]
  /\ prRow = [i \in Works |-> NoPrRow]
  /\ prFile = [k \in PrKeys |-> 0]
  /\ prPoll = PollIdle
  /\ prInterval = 1
  /\ prFaults = 0

Glitch == prFaults < MaxPrFaults /\ prFaults' = prFaults + 1

-----------------------------------------------------------------------------
(* Items and the pull requests their flows report.                         *)

AddWork(k) ==
  /\ prWork[k] = NoWork
  /\ \E i \in Works :
       /\ prRow[i] = NoPrRow /\ \A j \in 1..(i - 1) : prRow[j] # NoPrRow
       /\ prWork' = [prWork EXCEPT ![k] = [NoWork EXCEPT !.id = i]]
       /\ prRow' = [prRow EXCEPT ![i] = [NoPrRow EXCEPT !.key = k]]
  /\ UNCHANGED <<prHub, prHead, prFile, prPoll, prInterval, prFaults>>

\* resolve_pr_url: the outcome file when it names one, else the marker in the
\* output of the last agent step.
ResolvePrUrl(file, output) == IF file # 0 THEN file ELSE output

\* The last step of a flow is over; its agent may have opened a pull request
\* and reported it in the file or in its output, or reported something else.
\* transition_to_done_with_pr_url stores what is resolved, also what an earlier
\* flow of the item left in the file, and leaves pr_merged as it is; the write
\* to the row is tried again and may still fail.  Nothing resolved: the item
\* is Done and its URL stays, which changes nothing here.
FlowReports(k) ==
  /\ prWork[k] # NoWork
  /\ \E p \in Prs \cup {0, Junk}, infile \in BOOLEAN :
       LET url == ResolvePrUrl(prFile'[k], IF infile THEN 0 ELSE p)
       IN /\ p \in Prs => prHub[p] = "none"
          /\ prHub' = [q \in Prs |-> IF q = p THEN "open" ELSE prHub[q]]
          /\ prHead' = [q \in Prs |-> IF q = p THEN k ELSE prHead[q]]
          /\ prFile' = [prFile EXCEPT ![k] = IF infile /\ p # 0 THEN p ELSE @]
          /\ url # 0
          /\ prWork' = [prWork EXCEPT ![k].url = url]
          /\ \/ prRow' = [prRow EXCEPT ![prWork[k].id].url = url] /\ UNCHANGED prFaults
             \/ Glitch /\ UNCHANGED prRow
  /\ UNCHANGED <<prPoll, prInterval>>

\* Delete removes item, row and worktree.
DeleteWork(k) ==
  /\ prWork[k] # NoWork
  /\ prWork' = [prWork EXCEPT ![k] = NoWork]
  /\ prRow' = [prRow EXCEPT ![prWork[k].id] = [NoPrRow EXCEPT !.key = "deleted"]]
  /\ prFile' = [prFile EXCEPT ![k] = 0]
  /\ UNCHANGED <<prHub, prHead, prPoll, prInterval, prFaults>>

\* Someone merges or closes a pull request on GitHub.
PrEnds(p) ==
  /\ prHub[p] = "open"
  /\ \E s \in {"merged", "closed"} : prHub' = [prHub EXCEPT ![p] = s]
  /\ UNCHANGED <<prHead, prWork, prRow, prFile, prPoll, prInterval, prFaults>>

-----------------------------------------------------------------------------
(* The merge poller: one pass over the items after every interval.         *)

PrPoller(rec) ==
  /\ prPoll' = rec
  /\ UNCHANGED <<prHub, prHead, prFile, prInterval>>

\* parse_pr_url: only a pull-request URL names one.
ParsePrUrl(url) == url \in Prs

\* The items a pass looks at: by ticket key, with the URL they have now.
EligibleWorks ==
  {[key |-> k, url |-> prWork[k].url] :
     k \in {x \in PrKeys : ~prWork[x].flag /\ ParsePrUrl(prWork[x].url)}}

\* run: an interval of 0 ends the poller for the life of the process; without
\* eligible items the pass is over at once.
PollLoop ==
  /\ prPoll.at = "loop"
  /\ PrPoller(IF prInterval = 0 THEN [PollIdle EXCEPT !.at = "off"]
                            ELSE [PollIdle EXCEPT !.at = "sleep"])
  /\ UNCHANGED <<prWork, prRow, prFaults>>

PollWakes ==
  /\ prPoll.at = "sleep"
  /\ PrPoller(IF EligibleWorks = {} THEN PollIdle
          ELSE [PollIdle EXCEPT !.at = "pass", !.todo = EligibleWorks])
  /\ UNCHANGED <<prWork, prRow, prFaults>>

\* The next item of the pass: gh api is started with its pull request.
CheckNext ==
  /\ prPoll.at = "pass"
  /\ \E e \in prPoll.todo :
       PrPoller([prPoll EXCEPT !.at = "asked", !.todo = @ \ {e}, !.key = e.key, !.url = e.url])
  /\ UNCHANGED <<prWork, prRow, prFaults>>

PassEnds ==
  /\ prPoll.at = "pass" /\ prPoll.todo = {}
  /\ PrPoller(PollIdle)
  /\ UNCHANGED <<prWork, prRow, prFaults>>

\* Mutant of Merged: whatever is not open any more.
NotOpen(p) == prHub[p] # "open"

\* `.merged` of the answer.
Merged(p) == prHub[p] = "merged"

\* Mutant of AfterError: the pass gives up.
EndsPass == PollIdle

\* An error of gh is logged and the pass goes on.
AfterError == [prPoll EXCEPT !.at = "pass"]

\* check_pr_merged: true, false, or an error (always for what the credentials
\* cannot read).
CheckPrMerged ==
  /\ prPoll.at = "asked"
  /\ \/ /\ prPoll.url \notin PrUnreadable
        /\ PrPoller([prPoll EXCEPT !.at = IF Merged(prPoll.url) THEN "merged" ELSE "pass"])
        /\ UNCHANGED prFaults
     \/ prPoll.url \in PrUnreadable /\ PrPoller(AfterError) /\ UNCHANGED prFaults
     \/ prPoll.url \notin PrUnreadable /\ PrPoller(AfterError) /\ Glitch
  /\ UNCHANGED <<prWork, prRow>>

\* The flag goes to whichever item has the ticket's key by now.
SetFlag ==
  /\ prPoll.at = "merged"
  /\ IF prWork[prPoll.key] = NoWork
     THEN PrPoller([prPoll EXCEPT !.at = "pass"]) /\ UNCHANGED prWork
     ELSE /\ PrPoller([prPoll EXCEPT !.at = "write", !.id = prWork[prPoll.key].id])
          /\ prWork' = [prWork EXCEPT ![prPoll.key].flag = TRUE]
  /\ UNCHANGED <<prRow, prFaults>>

\* update_pr_merged of that item's row, if it is still there; a failure is
\* logged, and no later pass of this process looks at the item again.
UpdatePrMerged ==
  /\ prPoll.at = "write"
  /\ PrPoller([prPoll EXCEPT !.at = "pass"])
  /\ \/ /\ prRow' = IF prRow[prPoll.id].key = "deleted" THEN prRow
                    ELSE [prRow EXCEPT ![prPoll.id].flag = TRUE]
        /\ UNCHANGED prFaults
     \/ Glitch /\ UNCHANGED prRow
  /\ UNCHANGED prWork

\* Mutant of RestoredWork: the flag is not read back.
RestoredUnflagged(i) == [id |-> i, url |-> prRow[i].url, flag |-> FALSE]

RestoredWork(i) == [id |-> i, url |-> prRow[i].url, flag |-> prRow[i].flag]

\* A new process: the items of the rows, and a poller that is enabled again.
RestartPolls ==
  /\ Glitch
  /\ prWork' = [k \in PrKeys |->
                  IF \E i \in Works : prRow[i].key = k
                  THEN RestoredWork(CHOOSE i \in Works : prRow[i].key = k) ELSE NoWork]
  /\ prPoll' = PollIdle
  /\ UNCHANGED <<prHub, prHead, prRow, prFile, prInterval>>

SetInterval ==
  /\ Glitch
  /\ prInterval' = 1 - prInterval
  /\ UNCHANGED <<prHub, prHead, prWork, prRow, prFile, prPoll>>

PrPollStep == PollLoop \/ PollWakes \/ CheckNext \/ PassEnds \/ CheckPrMerged \/ SetFlag \/ UpdatePrMerged

PrNext ==
  \/ \E k \in PrKeys : AddWork(k) \/ FlowReports(k) \/ DeleteWork(k)
  \/ \E p \in Prs : PrEnds(p)
  \/ PrPollStep
  \/ RestartPolls \/ SetInterval

PrSpec == PrInit /\ [][PrNext]_prVars

\* The poller's task is scheduled, its timer fires, and gh ends: run_command
\* has no time limit here, so a gh that hangs is outside this assumption.
PrFairness == WF_prVars(PrPollStep)

-----------------------------------------------------------------------------
\* An item is marked merged only when a pull request of its ticket was merged,
\* whatever was deleted, added again or restarted between the question to
\* GitHub and the write.
FlagEarned ==
  \A k \in PrKeys : prWork[k].flag =>
    \E p \in Prs : prHead[p] = k /\ prHub[p] = "merged"

\* What the row says of an item in the engine, the item shows: the row is
\* written after the flag, and a restart reads it back.
RowFlagShown ==
  \A k \in PrKeys : prWork[k] # NoWork /\ prRow[prWork[k].id].flag => prWork[k].flag

\* A merged pull request that the credentials can read comes to be flagged on
\* its item, however many others cannot be read, unless the item goes, is given
\* another one, or the poller was switched off.
MergedUnseen(k) ==
  /\ \E p \in Prs \ PrUnreadable : prWork[k].url = p /\ prHub[p] = "merged"
  /\ ~prWork[k].flag /\ prPoll.at # "off"
MergedSeen == \A k \in PrKeys : MergedUnseen(k) ~> ~MergedUnseen(k)

\* The mark stands for the pull request shown beside it (IssueCardHeader.tsx
\* colours the link by pr_merged).
MarkIsOfShownPr ==
  \A k \in PrKeys : prWork[k].flag => prWork[k].url \in Prs /\ prHub[prWork[k].url] = "merged"

(* The mark on a work item is earned, and what the row says is shown.       *)
PrSafe == FlagEarned /\ RowFlagShown

=============================================================================
