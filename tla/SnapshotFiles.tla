--------------------------- MODULE SnapshotFiles ---------------------------
(***************************************************************************)
(* The snapshot files on disk: one per workspace, each written to a        *)
(* temporary file and renamed, by the minute's syncer, by the routes that  *)
(* edit a ticket and by the shutdown, which share the temporary file and   *)
(* no lock; the files older releases left, inside the repository or for    *)
(* all workspaces together; and the start that reads them all, moves the   *)
(* old ones over and picks the active workspace.                           *)
(*                                                                         *)
(* What the engine holds for a workspace, and what a file lists, is one    *)
(* number, the version of the item of that workspace; 0 is no item.  The   *)
(* rows of the database that a start merges with the files are the matter  *)
(* of WorkItemPersistence and left out here.                               *)
(***************************************************************************)
EXTENDS Integers, FiniteSets

CONSTANTS
    SnSpaces,    \* workspace names
    SnDefault,   \* the one git.repo_path of the configuration ends in
    SnTasks,     \* tasks that may be writing snapshots at one time
    MaxVersion,  \* changes of an item (bound)
    MaxSnFaults    \* failed calls of the file system, and crashes (bound)

NoSpace == "none"   \* no workspace

ASSUME SnapshotAssumption ==
    SnDefault \in SnSpaces /\ NoSpace \notin SnSpaces /\ MaxVersion \in Nat \ {0} /\ MaxSnFaults \in Nat

VARIABLES
    snMap,     \* the engine's items
    snFile,    \* workspaces/<name>/workflow_snapshot.json
    snTmp,     \* workspaces/<name>/workflow_snapshot.json.tmp
    snInRepo,  \* <repo>/.takuto/workflow_snapshot.json
    snGlobal,  \* <data dir>/workflow_snapshot.json
    snActive,  \* the file active_workspace, NoSpace when there is none
    snTask,    \* the tasks that write
    snPc,      \* the start: "read", "copy", "drop", "clean", "up"
    snRepo,    \* the workspace the start took for the active one
    snRead,    \* the records the start has read
    snNext,    \* the next version
    snFaults,
    snBegun,   \* history: what the last write to end lists, and those that
               \* began since
    snMixed    \* history: workspaces where two writes overlapped, or where
               \* the copy of an old file was cut off

snVars == <<snMap, snFile, snTmp, snInRepo, snGlobal, snActive,
            snTask, snPc, snRepo, snRead, snNext, snFaults, snBegun, snMixed>>
snDisk == <<snFile, snTmp, snInRepo, snGlobal, snActive>>
snStart == <<snPc, snRepo, snRead>>
snHistory == <<snBegun, snMixed>>

Versions == 1..MaxVersion
NoSnFile == 0
TornFile == -1     \* does not parse
EmptyFile == -2    \* opened for writing, nothing written: does not parse
OldFile == -3      \* parses, of another SNAPSHOT_VERSION
SnValues == Versions \cup {NoSnFile, TornFile, EmptyFile, OldFile}
NoRecords == [w \in SnSpaces |-> 0]

IdleSn == [pc |-> "idle", recs |-> NoRecords, left |-> {}, cur |-> NoSpace, at |-> NoSpace]

(* A first start after an update, with what the old release left.          *)
SnInit ==
    /\ snMap = NoRecords /\ snNext = 2 /\ snFaults = 0
    /\ snFile \in [SnSpaces -> {NoSnFile, OldFile}]
    /\ snTmp = [w \in SnSpaces |-> NoSnFile]
    /\ \E v \in {NoSnFile, 1} : snInRepo = [w \in SnSpaces |-> IF w = SnDefault THEN v ELSE NoSnFile]
    /\ snGlobal \in {NoSnFile, OldFile, 1} /\ (snGlobal = 1 => snInRepo[SnDefault] = NoSnFile)
    /\ snActive = NoSpace
    /\ snTask = [t \in SnTasks |-> IdleSn]
    /\ snPc = "read" /\ snRead = NoRecords
    /\ snRepo = SnDefault
    /\ snMixed = {}
    /\ snBegun = [w \in SnSpaces |-> {0, 1}]
----------------------------------------------------------------------------
(* The start.                                                              *)

(* The persisted name when its clone is there, else the most recently      *)
(* changed clone, whose name is persisted, else the configuration's path.  *)
(* Clones come and go between the starts, and only a start looks at them.  *)
ResolveActiveRepo(w) == \E clones \in SUBSET SnSpaces :
    \/ snActive \in clones /\ w = snActive /\ UNCHANGED snActive
    \/ snActive \notin clones /\ w \in clones /\ snActive' = w
    \/ clones = {} /\ w = SnDefault /\ UNCHANGED snActive

Loadable(f) == f \in Versions

(* Every readable file of this version, whichever clone it belongs to; a   *)
(* global file's records carry no workspace and take the active one's.     *)
ReadAll(w) == [x \in SnSpaces |->
    IF Loadable(snFile[x]) THEN snFile[x]
    ELSE IF x = w /\ Loadable(snGlobal) THEN snGlobal ELSE 0]

(* A global file that does not parse makes the whole restore fail; files   *)
(* of workspaces that do not parse are passed over.  Only when nothing was *)
(* read at all is the file inside the repository looked for.               *)
ReadSnapshots ==
    /\ snPc = "read"
    /\ \E w \in SnSpaces :
        /\ ResolveActiveRepo(w)
        /\ snRepo' = w
        /\ IF snGlobal \in {TornFile, EmptyFile}
           THEN snPc' = "up" /\ snRead' = NoRecords
           ELSE /\ snRead' = ReadAll(w)
                /\ snPc' = IF ReadAll(w) # NoRecords THEN "clean" ELSE "copy"
    /\ UNCHANGED <<snMap, snFile, snTmp, snInRepo, snGlobal, snTask,
                   snNext, snFaults, snHistory>>

(* read_workflow_snapshot, entered with no record read: a file at the new  *)
(* path ends it, by an error when it does not parse.  Otherwise the bytes  *)
(* of the old file are written to the new path directly, and the old file  *)
(* is removed afterwards; a failed copy leaves both as they were.          *)
OldPlace == IF snInRepo[snRepo] # NoSnFile THEN snInRepo[snRepo] ELSE snGlobal

MigrateOldFile ==
    /\ snPc = "copy"
    /\ IF snFile[snRepo] # NoSnFile \/ OldPlace = NoSnFile
       THEN /\ snPc' = IF snFile[snRepo] \in {TornFile, EmptyFile} THEN "up" ELSE "clean"
            /\ UNCHANGED <<snFile, snRead, snFaults, snMixed>>
       ELSE \/ /\ snFile[snRepo] = NoSnFile
               /\ snFile' = [snFile EXCEPT ![snRepo] = EmptyFile]
               /\ snPc' = "drop" /\ snMixed' = snMixed \cup {snRepo}
               /\ UNCHANGED <<snRead, snFaults>>
            \/ /\ snFaults < MaxSnFaults /\ snFaults' = snFaults + 1
               /\ snRead' = [snRead EXCEPT ![snRepo] = IF Loadable(OldPlace) THEN OldPlace ELSE 0]
               /\ snPc' = "clean" /\ UNCHANGED <<snFile, snMixed>>
    /\ UNCHANGED <<snMap, snTmp, snInRepo, snGlobal, snActive, snTask,
                   snRepo, snNext, snBegun>>

(* The copy is a write like any other.  It may come late: an old file that *)
(* was passed over, because a file of another version was at the new path, *)
(* is found again by a later start, when that file has gone.               *)
DropOldFile ==
    /\ snPc = "drop"
    /\ snFile' = [snFile EXCEPT ![snRepo] = OldPlace]
    /\ snRead' = [snRead EXCEPT ![snRepo] = IF Loadable(OldPlace) THEN OldPlace ELSE 0]
    /\ IF snInRepo[snRepo] # NoSnFile
       THEN snInRepo' = [snInRepo EXCEPT ![snRepo] = NoSnFile] /\ UNCHANGED snGlobal
       ELSE snGlobal' = NoSnFile /\ UNCHANGED snInRepo
    /\ snPc' = "clean" /\ snMixed' = snMixed \ {snRepo}
    /\ snBegun' = [snBegun EXCEPT ![snRepo] = @ \cup {snRead'[snRepo]}]
    /\ UNCHANGED <<snMap, snTmp, snActive, snTask, snRepo, snNext, snFaults>>

(* The global file goes before its records are written anywhere else.      *)
CleanupGlobal ==
    /\ snPc = "clean"
    /\ snGlobal' = NoSnFile /\ snMap' = snRead /\ snPc' = "up"
    /\ UNCHANGED <<snFile, snTmp, snInRepo, snActive, snTask, snRepo,
                   snRead, snNext, snFaults, snHistory>>
----------------------------------------------------------------------------
(* The engine's items change.                                              *)

ItemChanges(w) ==
    /\ snPc = "up"
    /\ \/ /\ snNext <= MaxVersion /\ snNext' = snNext + 1
          /\ snMap' = [snMap EXCEPT ![w] = snNext]
       \/ snMap[w] # 0 /\ snMap' = [snMap EXCEPT ![w] = 0] /\ UNCHANGED snNext
    /\ UNCHANGED <<snDisk, snTask, snStart, snFaults, snHistory>>
----------------------------------------------------------------------------
(* write_all_workspace_snapshots.                                          *)

SnSet(t, f) == snTask' = [snTask EXCEPT ![t] = f]

Listed(recs) == {w \in SnSpaces : recs[w] # 0}

Overlaps(t) == \E u \in SnTasks \ {t} : snTask[u].pc # "idle"

(* The records are read under the map's lock, which is given back.  Every  *)
(* file may from here on show them instead of what it showed.              *)
SyncBegins(t) ==
    /\ snPc = "up" /\ snTask[t].pc = "idle"
    /\ SnSet(t, [IdleSn EXCEPT !.pc = "open", !.recs = snMap, !.left = Listed(snMap)])
    /\ snBegun' = [w \in SnSpaces |-> snBegun[w] \cup {snMap[w]}]
    /\ snMixed' = IF Overlaps(t) THEN SnSpaces ELSE snMixed
    /\ UNCHANGED <<snMap, snDisk, snStart, snNext, snFaults>>

OpenTmpIsFile(t) ==
    /\ snTask[t].pc = "open"
    /\ \E w \in snTask[t].left :
        /\ snFile' = [snFile EXCEPT ![w] = EmptyFile]
        /\ SnSet(t, [snTask[t] EXCEPT !.pc = "write", !.cur = w, !.at = "file",
                                    !.left = @ \ {w}])
    /\ UNCHANGED <<snMap, snTmp, snInRepo, snGlobal, snActive, snStart,
                   snNext, snFaults, snHistory>>

(* fs::write opens and truncates the temporary file, which may be another  *)
(* writer's, ...                                                           *)
SnOpenTmp(t) ==
    /\ snTask[t].pc = "open"
    /\ \E w \in snTask[t].left :
        /\ snTmp' = [snTmp EXCEPT ![w] = EmptyFile]
        /\ SnSet(t, [snTask[t] EXCEPT !.pc = "write", !.cur = w, !.at = "tmp",
                                    !.left = @ \ {w}])
    /\ UNCHANGED <<snMap, snFile, snInRepo, snGlobal, snActive, snStart,
                   snNext, snFaults, snHistory>>

(* ... and writes from its first byte: over what another writer put there  *)
(* meanwhile, of which the end stays when it was longer.                   *)
Over(old, v) == IF old \in {EmptyFile, v} THEN {v} ELSE {v, TornFile}

WriteTmp(t) ==
    LET w == snTask[t].cur
        v == snTask[t].recs[w]
    IN  /\ snTask[t].pc = "write"
        /\ \/ /\ snTask[t].at = "tmp"
              /\ \E c \in Over(snTmp[w], v) : snTmp' = [snTmp EXCEPT ![w] = c]
              /\ UNCHANGED snFile
           \/ /\ snTask[t].at = "file"
              /\ \E c \in Over(snFile[w], v) : snFile' = [snFile EXCEPT ![w] = c]
              /\ UNCHANGED snTmp
           \/ snTask[t].at = "gone" /\ UNCHANGED <<snFile, snTmp>>
        /\ SnSet(t, [snTask[t] EXCEPT !.pc = "rename"])
        /\ UNCHANGED <<snMap, snInRepo, snGlobal, snActive, snStart,
                       snNext, snFaults, snHistory>>

Moved(at) == IF at = "tmp" THEN "file" ELSE "gone"

(* The rename takes along the file a slower writer still has open.  When   *)
(* another rename was first there is nothing to rename, and the error ends *)
(* the whole write: the workspaces left and the clean-up are not reached.  *)
SnRenameTmp(t) ==
    LET w == snTask[t].cur
    IN  /\ snTask[t].pc = "rename"
        /\ IF snTmp[w] = NoSnFile
           THEN SnSet(t, IdleSn) /\ UNCHANGED <<snFile, snTmp>>
           ELSE /\ snFile' = [snFile EXCEPT ![w] = snTmp[w]]
                /\ snTmp' = [snTmp EXCEPT ![w] = NoSnFile]
                /\ snTask' = [u \in SnTasks |->
                     IF u = t THEN [snTask[t] EXCEPT !.pc = "open", !.cur = NoSpace, !.at = NoSpace]
                     ELSE IF snTask[u].cur = w
                          THEN [snTask[u] EXCEPT !.at = Moved(@)] ELSE snTask[u]]
        /\ UNCHANGED <<snMap, snInRepo, snGlobal, snActive, snStart,
                       snNext, snFaults, snBegun, snMixed>>

(* At last the files of workspaces without an item go, one by one.         *)
StaleUnlessEmpty(t) == {w \in SnSpaces : /\ Listed(snTask[t].recs) # {}
                                         /\ snTask[t].recs[w] = 0 /\ snFile[w] # NoSnFile}

Stale(t) == {w \in SnSpaces : snTask[t].recs[w] = 0 /\ snFile[w] # NoSnFile}

RemoveStale(t) ==
    /\ snTask[t].pc = "open" /\ snTask[t].left = {}
    /\ IF Stale(t) = {}
       THEN /\ SnSet(t, IdleSn) /\ UNCHANGED snFile
            /\ snBegun' = IF Overlaps(t) THEN snBegun
                          ELSE [w \in SnSpaces |-> {snTask[t].recs[w]}]
       ELSE /\ \E w \in Stale(t) :
                /\ snFile' = [snFile EXCEPT ![w] = NoSnFile]
                /\ snTask' = [u \in SnTasks |->
                     IF snTask[u].cur = w /\ snTask[u].at = "file"
                     THEN [snTask[u] EXCEPT !.at = "gone"] ELSE snTask[u]]
            /\ UNCHANGED snBegun
    /\ UNCHANGED <<snMap, snTmp, snInRepo, snGlobal, snActive, snStart,
                   snNext, snFaults, snMixed>>

(* Any call of the file system may fail, and ends the write.               *)
SyncFails(t) ==
    /\ snFaults < MaxSnFaults /\ snFaults' = snFaults + 1
    /\ snTask[t].pc \in {"open", "write", "rename"}
    /\ SnSet(t, IdleSn)
    /\ UNCHANGED <<snMap, snDisk, snStart, snNext, snHistory>>

(* The process dies: the disk stays.                                       *)
SnCrash ==
    /\ snFaults < MaxSnFaults /\ snFaults' = snFaults + 1
    /\ snPc' = "read" /\ snRead' = NoRecords /\ snMap' = NoRecords
    /\ snTask' = [t \in SnTasks |-> IdleSn]
    /\ UNCHANGED <<snDisk, snRepo, snNext, snHistory>>

SnNext ==
    \/ ReadSnapshots \/ MigrateOldFile \/ DropOldFile \/ CleanupGlobal \/ SnCrash
    \/ \E w \in SnSpaces : ItemChanges(w)
    \/ \E t \in SnTasks : \/ SyncBegins(t) \/ SnOpenTmp(t) \/ WriteTmp(t)
                          \/ SnRenameTmp(t) \/ RemoveStale(t) \/ SyncFails(t)

SnSpec == SnInit /\ [][SnNext]_snVars
----------------------------------------------------------------------------
(* Neither a crash nor a failed call of the file system leaves a snapshot  *)
(* that does not parse, migration of an old file aside: only writes that   *)
(* overlap can do it, through the temporary file they share.               *)
TornOnlyByOverlap ==
    \A w \in SnSpaces :
        snFile[w] \in {TornFile, EmptyFile} =>
            w \in snMixed

(* While no two writes overlapped, a restart finds in every workspace what *)
(* a write showed: of the last one to end, or of one that was cut off      *)
(* since, or the file of an old release that was moved over since.  An     *)
(* item that was removed before does not come back otherwise, and none is  *)
(* lost by a write that only got to some of the workspaces.                *)
RestartsFromSync ==
    [][ReadSnapshots /\ snMixed = {} =>
         \A w \in SnSpaces : snRead'[w] \in snBegun[w]]_snVars

(* The snapshot files: only overlapping writes tear one, and a restart finds*)
(* in every workspace what a write showed.                                  *)
SnapshotsSafe == []TornOnlyByOverlap /\ RestartsFromSync

============================================================================
