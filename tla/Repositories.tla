---------------------------- MODULE Repositories ----------------------------
(* Registered repositories: the rows, who added which, and the clones under  *)
(* /workspaces. Adding one by URL clones it behind a process-wide flag;      *)
(* removing the last association deletes the row and then the clone; at      *)
(* start-up every clone found on disk is registered again. Each database     *)
(* call, git and the removal of a directory is a step of its own.            *)
(*                                                                           *)
(* A URL is <<owner, repo>>, a directory or a name <<repo, suffix>>: the     *)
(* clone of the first repository called app goes to <<"app", 1>>.            *)
EXTENDS Integers, FiniteSets

CONSTANTS
    RpReqs,         \* requests
    RpUsers,        \* users
    RpUrls,         \* well-formed URLs, <<owner, repo>>
    MaxSuffix,      \* bound on the suffixes of directories (1000 in the code)
    MaxRows,        \* bound on rows ever inserted
    MaxRpCrashes    \* bound on crashes

ASSUME RepositoriesAssumption ==
    /\ MaxSuffix \in Nat \ {0} /\ MaxRows \in Nat /\ MaxRpCrashes \in Nat
    /\ IsFiniteSet(RpUrls) /\ << >> \notin RpUrls

VARIABLES
    rpRows,     \* repositories: set of [id, name, url, dir, by]
    rpLinks,    \* user_repositories: set of <<user, id>>
    rpDirs,     \* what lies in a directory: << >>, a URL (a clone), or <<"debris">>
    rpFlag,     \* clone_in_progress
    rpItems,    \* snapshots of non-terminal work items: set of <<user, workspace name>>
    rpReq,      \* [RpReqs -> the request and where its handler is]
    rpNext,     \* ids handed out so far
    rpCrashes   \* crashes so far

rpVars == <<rpRows, rpLinks, rpDirs, rpFlag, rpItems, rpReq, rpNext, rpCrashes>>

-----------------------------------------------------------------------------
RpNames == {<<u[2], n>> : u \in RpUrls, n \in 1..MaxSuffix}
BaseName(url) == <<url[2], 1>>
RpIdle == [pc |-> "idle"]

\* validate_repo_url: anything else than https://github.com/owner/repo is refused
ValidateRepoUrl(url) == url \in RpUrls

GetRow(id) == {row \in rpRows : row.id = id}
GetByPath(d) == {row \in rpRows : row.dir = d}
GetByUrl(url) == {row \in rpRows : row.url = url}
\* get_by_name: the oldest row of that name
GetByName(rows, name) == {row \in rows : row.name = name
                             /\ \A other \in rows : other.name = name => row.id <= other.id}

\* pick_clone_target: the first suffix with nothing at that path; the first one when all are taken
PickCloneTarget(url) ==
    LET free == {k \in 1..MaxSuffix : rpDirs[<<url[2], k>>] = << >>}
    IN  IF free = {} THEN BaseName(url) ELSE <<url[2], CHOOSE k \in free : \A j \in free : k <= j>>

\* upsert: inserted unless local_path is taken
Upsert(rows, id, name, url, dir, by) ==
    IF \E row \in rows : row.dir = dir THEN rows
    ELSE rows \cup {[id |-> id, name |-> name, url |-> url, dir |-> dir, by |-> by]}

\* add_for_user: ignored when present; the foreign key refuses an id without a row
AddForUser(r) == GetRow(rpReq[r].id) # {} /\ rpLinks' = rpLinks \cup {<<rpReq[r].user, rpReq[r].id>>}

\* repository_has_active_workflow: matched by workspace_name
Blockers(id) == {item \in rpItems : \E row \in GetRow(id) : row.name = item[2]}

RpMove(r, pc) == rpReq' = [rpReq EXCEPT ![r].pc = pc]
RpAnswer(r, a) == rpReq' = [rpReq EXCEPT ![r] = [pc |-> "done", answer |-> a, id |-> @.id]]
RpKeep == UNCHANGED <<rpItems, rpCrashes>>

-----------------------------------------------------------------------------
RpInit ==
    /\ rpRows = {} /\ rpLinks = {} /\ rpItems = {} /\ rpFlag = FALSE /\ rpNext = 0 /\ rpCrashes = 0
    /\ rpDirs = [d \in RpNames |-> << >>]
    /\ rpReq = [r \in RpReqs |-> RpIdle]

(* POST /api/repositories with repository_id: get, then associate.           *)
AddExisting(r) ==
    /\ rpReq[r].pc = "idle"
    /\ \E u \in RpUsers, id \in 1..rpNext :
          rpReq' = [rpReq EXCEPT ![r] = IF GetRow(id) = {} THEN [pc |-> "done", answer |-> "not found", id |-> id]
                                        ELSE [pc |-> "link", kind |-> "existing", user |-> u, id |-> id, answer |-> "ok"]]
    /\ RpKeep /\ UNCHANGED <<rpRows, rpLinks, rpDirs, rpFlag, rpNext>>

\* Mutant: the flag is set whatever it was.
CloneFlagFreeIgnored == TRUE
CloneFlagFree == ~rpFlag

(* POST /api/repositories with repo_url: the flag is taken or the request is *)
(* refused, before anything is looked up.                                    *)
AddViaClone(r) ==
    /\ rpReq[r].pc = "idle"
    /\ \E u \in RpUsers, url \in RpUrls :
          /\ ValidateRepoUrl(url)
          /\ rpReq' = [rpReq EXCEPT ![r] =
                IF CloneFlagFree THEN [pc |-> "lookup", kind |-> "clone", user |-> u, url |-> url]
                ELSE [pc |-> "done", answer |-> "conflict", id |-> 0]]
    /\ rpFlag' = TRUE
    /\ RpKeep /\ UNCHANGED <<rpRows, rpLinks, rpDirs, rpNext>>

(* A row with that URL only needs the association; otherwise git is started. *)
LookupUrl(r) ==
    /\ rpReq[r].pc = "lookup"
    /\ \/ \E row \in GetByUrl(rpReq[r].url) :
             rpReq' = [rpReq EXCEPT ![r] = [pc |-> "link", kind |-> "clone", user |-> @.user, id |-> row.id,
                                            answer |-> "ok"]]
       \/ /\ GetByUrl(rpReq[r].url) = {}
          /\ rpReq' = [rpReq EXCEPT ![r] = [pc |-> "git", user |-> @.user, url |-> @.url, id |-> 0,
                                            dir |-> PickCloneTarget(rpReq[r].url)]]
    /\ RpKeep /\ UNCHANGED <<rpRows, rpLinks, rpDirs, rpFlag, rpNext>>

(* do_clone. git removes what it made when it fails by itself; after ten     *)
(* minutes, or when the client is gone and the handler is dropped, it is     *)
(* killed and leaves what it had written. The flag goes with the handler.    *)
GitClones(r) ==
    /\ rpReq[r].pc = "git"
    /\ rpDirs[rpReq[r].dir] = << >>
    /\ rpDirs' = [rpDirs EXCEPT ![rpReq[r].dir] = rpReq[r].url]
    /\ RpMove(r, "upsert")
    /\ RpKeep /\ UNCHANGED <<rpRows, rpLinks, rpFlag, rpNext>>

GitFails(r) ==
    /\ rpReq[r].pc = "git"
    /\ RpAnswer(r, "bad gateway") /\ rpFlag' = FALSE
    /\ RpKeep /\ UNCHANGED <<rpRows, rpLinks, rpDirs, rpNext>>

GitKilled(r) ==
    /\ rpReq[r].pc = "git"
    /\ rpDirs[rpReq[r].dir] = << >>
    /\ rpDirs' = [rpDirs EXCEPT ![rpReq[r].dir] = rpReq[r].url]
    /\ RpAnswer(r, "bad gateway") /\ rpFlag' = FALSE
    /\ RpKeep /\ UNCHANGED <<rpRows, rpLinks, rpNext>>

(* The row is inserted, or the one that has the path is taken.               *)
UpsertClone(r) ==
    LET q == rpReq[r] IN
    /\ q.pc = "upsert" /\ rpNext < MaxRows
    /\ rpRows' = Upsert(rpRows, rpNext + 1, BaseName(q.url), q.url, q.dir, q.user)
    /\ rpNext' = rpNext + 1
    /\ \E row \in rpRows' :
          /\ row.dir = q.dir
          /\ rpReq' = [rpReq EXCEPT ![r] = [pc |-> "link", kind |-> "clone", user |-> @.user, id |-> row.id,
                                            answer |-> "created"]]
    /\ RpKeep /\ UNCHANGED <<rpLinks, rpDirs, rpFlag>>

(* The association. The handler of an add by URL gives the flag back when it *)
(* answers; after a clone it first reads its row again.                      *)
Associate(r) ==
    LET q == rpReq[r] IN
    /\ q.pc = "link"
    /\ \/ /\ AddForUser(r)
          /\ IF q.answer = "created"
             THEN rpReq' = [rpReq EXCEPT ![r] = [pc |-> "reread", id |-> @.id]] /\ UNCHANGED rpFlag
             ELSE RpAnswer(r, "ok") /\ rpFlag' = (rpFlag /\ q.kind = "existing")
       \/ /\ GetRow(q.id) = {}
          /\ RpAnswer(r, "database error") /\ UNCHANGED rpLinks
          /\ rpFlag' = (rpFlag /\ q.kind = "existing")
    /\ RpKeep /\ UNCHANGED <<rpRows, rpDirs, rpNext>>

\* Mutant: the row is not read again.
RereadOmitted(r) == "created"
Reread(r) == IF GetRow(rpReq[r].id) = {} THEN "row missing" ELSE "created"

AnswerCreated(r) ==
    /\ rpReq[r].pc = "reread"
    /\ RpAnswer(r, Reread(r)) /\ rpFlag' = FALSE
    /\ RpKeep /\ UNCHANGED <<rpRows, rpLinks, rpDirs, rpNext>>

-----------------------------------------------------------------------------
(* DELETE /api/repositories/{id}: refused while the caller, or with          *)
(* force_purge anyone, has a non-terminal item of that name.                 *)
DeleteRepo(r) ==
    /\ rpReq[r].pc = "idle"
    /\ \E u \in RpUsers, id \in 1..rpNext, force \in BOOLEAN :
          rpReq' = [rpReq EXCEPT ![r] =
              IF \E item \in Blockers(id) : force \/ item[1] = u THEN [pc |-> "done", answer |-> "conflict", id |-> id]
              ELSE [pc |-> IF force THEN "getrow" ELSE "unlink", user |-> u, id |-> id, force |-> force]]
    /\ RpKeep /\ UNCHANGED <<rpRows, rpLinks, rpDirs, rpFlag, rpNext>>

RemoveForUser(r) ==
    LET link == <<rpReq[r].user, rpReq[r].id>> IN
    /\ rpReq[r].pc = "unlink"
    /\ rpLinks' = rpLinks \ {link}
    /\ IF link \in rpLinks THEN rpReq' = [rpReq EXCEPT ![r] = [pc |-> "getrow", id |-> @.id, force |-> FALSE]] ELSE RpAnswer(r, "not found")
    /\ RpKeep /\ UNCHANGED <<rpRows, rpDirs, rpFlag, rpNext>>

ReadRow(r) ==
    /\ rpReq[r].pc = "getrow"
    /\ \/ GetRow(rpReq[r].id) = {} /\ RpAnswer(r, "no content")
       \/ \E row \in GetRow(rpReq[r].id) :
             rpReq' = [rpReq EXCEPT ![r] = [pc |-> "remaining", id |-> @.id, force |-> @.force, dir |-> row.dir]]
    /\ RpKeep /\ UNCHANGED <<rpRows, rpLinks, rpDirs, rpFlag, rpNext>>

ReadRemaining(r) ==
    /\ rpReq[r].pc = "remaining"
    /\ IF rpReq[r].force \/ ~\E u \in RpUsers : <<u, rpReq[r].id>> \in rpLinks
       THEN rpReq' = [rpReq EXCEPT ![r] = [pc |-> "purge", id |-> @.id, dir |-> @.dir]] ELSE RpAnswer(r, "no content")
    /\ RpKeep /\ UNCHANGED <<rpRows, rpLinks, rpDirs, rpFlag, rpNext>>

\* Mutant: the clone is removed whether or not a row was deleted.
PurgesAnyway(r) == TRUE
Deleted(r) == GetRow(rpReq[r].id) # {}

(* The row goes, its associations with it; only who deleted it removes the   *)
(* clone.                                                                    *)
PurgeRow(r) ==
    /\ rpReq[r].pc = "purge"
    /\ rpRows' = rpRows \ GetRow(rpReq[r].id)
    /\ rpLinks' = {link \in rpLinks : link[2] # rpReq[r].id}
    /\ IF Deleted(r) THEN RpMove(r, "rm") ELSE RpAnswer(r, "no content")
    /\ RpKeep /\ UNCHANGED <<rpDirs, rpFlag, rpNext>>

(* remove_dir_all: done, or failed with all or some of the clone left.       *)
PurgeClone(r) ==
    /\ rpReq[r].pc = "rm"
    /\ \E left \in {<< >>, <<"debris">>, rpDirs[rpReq[r].dir]} : rpDirs' = [rpDirs EXCEPT ![rpReq[r].dir] = left]
    /\ RpAnswer(r, "no content")
    /\ RpKeep /\ UNCHANGED <<rpRows, rpLinks, rpFlag, rpNext>>

-----------------------------------------------------------------------------
RpForget(r) ==
    /\ rpReq[r].pc = "done" /\ rpReq' = [rpReq EXCEPT ![r] = RpIdle]
    /\ RpKeep /\ UNCHANGED <<rpRows, rpLinks, rpDirs, rpFlag, rpNext>>

(* Work items start on repositories their owner has added, and end.          *)
ItemStarts ==
    /\ \E link \in rpLinks : \E row \in GetRow(link[2]) : rpItems' = rpItems \cup {<<link[1], row.name>>}
    /\ UNCHANGED <<rpRows, rpLinks, rpDirs, rpFlag, rpReq, rpNext, rpCrashes>>
ItemEnds ==
    /\ \E item \in rpItems : rpItems' = rpItems \ {item}
    /\ UNCHANGED <<rpRows, rpLinks, rpDirs, rpFlag, rpReq, rpNext, rpCrashes>>

\* reconcile_repositories: every clone without a row is registered under its directory's name
Reconciled ==
    LET found == {d \in RpNames : rpDirs[d] \in RpUrls /\ GetByPath(d) = {}} IN
    {rows \in [found -> (rpNext + 1)..(rpNext + Cardinality(found))] : \A d, e \in found : rows[d] = rows[e] => d = e}

\* backfill_user_repositories_from_snapshots
Backfilled(rows) == UNION {{<<item[1], row.id>> : row \in GetByName(rows, item[2])} : item \in rpItems}

(* A crash with a git clone under way leaves its directory. Before the       *)
(* server answers again, the clones are reconciled, then the associations    *)
(* that the restored items imply are added.                                  *)
CrashAndReconcile ==
    /\ rpCrashes < MaxRpCrashes
    /\ rpCrashes' = rpCrashes + 1
    /\ rpReq' = [r \in RpReqs |-> RpIdle] /\ rpFlag' = FALSE
    /\ \E ids \in Reconciled :
          /\ rpNext + Cardinality(DOMAIN ids) <= MaxRows
          /\ rpNext' = rpNext + Cardinality(DOMAIN ids)
          /\ rpRows' = rpRows \cup {[id |-> ids[d], name |-> d, url |-> rpDirs[d], dir |-> d, by |-> "reconcile"]
                                       : d \in DOMAIN ids}
          /\ rpLinks' = rpLinks \cup Backfilled(rpRows')
    /\ UNCHANGED <<rpDirs, rpItems>>

RpNext ==
    \/ \E r \in RpReqs :
          \/ AddExisting(r) \/ AddViaClone(r) \/ LookupUrl(r) \/ GitClones(r) \/ GitFails(r) \/ GitKilled(r)
          \/ UpsertClone(r) \/ Associate(r) \/ AnswerCreated(r)
          \/ DeleteRepo(r) \/ RemoveForUser(r) \/ ReadRow(r) \/ ReadRemaining(r) \/ PurgeRow(r) \/ PurgeClone(r)
          \/ RpForget(r)
    \/ ItemStarts \/ ItemEnds \/ CrashAndReconcile

RpSpec == RpInit /\ [][RpNext]_rpVars

-----------------------------------------------------------------------------
(* Every registered repository has its clone on disk: the steps of a purge   *)
(* (row first, then the directory, and the directory only by who deleted the *)
(* row), the choice of a fresh directory for each clone, the flag and the    *)
(* start-up scan together never leave a row whose directory is gone.         *)
RowsHaveClones == \A row \in rpRows : rpDirs[row.dir] = row.url

(* Two requests that add the same URL share one row: of the rows that adds   *)
(* created no two have the same URL, however adds, purges and crashes        *)
(* interleave.                                                               *)
UrlAddedOnce ==
    \A a, b \in {row \in rpRows : row.by # "reconcile"} : a.url = b.url => a = b

(* An add that succeeds answers for a repository that is registered and      *)
(* whose clone is on disk at that moment, also when another user purges it   *)
(* meanwhile.                                                                *)
AddAnswersLive ==
    [][\A r \in RpReqs :
          rpReq[r].pc \in {"link", "reread"} /\ rpReq'[r].pc = "done" /\ rpReq'[r].answer \in {"ok", "created"}
             => \E row \in rpRows' : row.id = rpReq'[r].id /\ rpDirs'[row.dir] = row.url]_rpVars

(* The catalogue of repositories: every row has its clone, one row per URL  *)
(* that was added, and an add that succeeds answers for what is there.      *)
RepositoriesSafe == [](RowsHaveClones /\ UrlAddedOnce) /\ AddAnswersLive

=============================================================================
