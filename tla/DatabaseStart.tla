--------------------------- MODULE DatabaseStart ----------------------------
(* Opening the database at start-up: the default SQLite file or a configured *)
(* backend, the fallback when the backend does not answer, the migrations,   *)
(* and the one-shot import of the SQLite file into the backend, a single     *)
(* transaction. The server may die between any two steps, the operator may   *)
(* change the configuration while it is down, and while it is up users write *)
(* to whatever store was opened.                                             *)
(*                                                                           *)
(* A row is [t, k, o, live]: table, key, the store in which it was created,  *)
(* and whether a session is still valid. Four tables stand for the ones the  *)
(* importer copies, work_item_flows for the ones it does not.                *)
EXTENDS Integers, Sequences, FiniteSets

CONSTANTS
    DbUsers,        \* user names
    MaxSchema,      \* number of migrations
    MaxBoots        \* bound on starts of the server

ASSUME DatabaseStartAssumption == MaxSchema \in Nat \ {0} /\ MaxBoots \in Nat

VARIABLES
    dbCfg,      \* [url, failFast, import]: [database] of config.toml
    dbKind,     \* dialect of the remote backend
    dbStore,    \* [local, remote -> [exists, schema, dirty, rows, marker]]
    dbPc,       \* where start-up is; "down"; "up"
    dbTarget,   \* the store being opened or served: "local", "remote" or "none"
    dbAt,       \* next table to copy
    dbTx,       \* rows of the target as the open transaction sees them
    dbCause,    \* why the store could not be opened
    dbBoots     \* starts so far

dbVars == <<dbCfg, dbKind, dbStore, dbPc, dbTarget, dbAt, dbTx, dbCause, dbBoots>>

-----------------------------------------------------------------------------
DbTables == {"users", "repositories", "user_repositories", "sessions", "work_item_flows"}
EmptyStore == [exists |-> FALSE, schema |-> 0, dirty |-> FALSE, rows |-> {}, marker |-> FALSE]

\* Mutant: the associations before what they refer to.
CopyOrderChildrenFirst == <<"users", "user_repositories", "repositories", "sessions">>
\* TABLES: parents first
CopyOrder == <<"users", "repositories", "user_repositories", "sessions">>

\* the foreign keys: user_repositories refers to users and repositories, repositories to none
\* (created_by is set to NULL with its user), the others to users
ParentsIn(row, rows) ==
    /\ row.t \notin {"users", "repositories"} => \E u \in rows : u.t = "users" /\ u.k = row.k
    /\ row.t = "user_repositories" => \E r \in rows : r.t = "repositories" /\ r.k = row.k
Clashes(row, rows) == \E other \in rows : other.t = row.t /\ other.k = row.k
NewRow(t, k, o) == [t |-> t, k |-> k, o |-> o, live |-> t = "sessions"]

\* the last migration adds a column that the importer reads
TableReadable(store) == store.schema = MaxSchema

Target == dbStore[dbTarget]
Up(target) == dbPc' = "up" /\ dbTarget' = target
GiveUp(cause) == Up("none") /\ dbCause' = cause /\ dbTx' = {} /\ dbAt' = 1 /\ UNCHANGED dbStore

-----------------------------------------------------------------------------
DbInit ==
    /\ dbCfg = [url |-> "default", failFast |-> TRUE, import |-> TRUE]
    /\ dbKind \in {"postgres", "mysql"}
    /\ dbStore = [s \in {"local", "remote"} |-> EmptyStore]
    /\ dbPc = "down" /\ dbTarget = "none" /\ dbAt = 1 /\ dbTx = {} /\ dbCause = "none" /\ dbBoots = 0

(* config.toml or TAKUTO_DATABASE_CONNECTION between two runs.               *)
Reconfigure ==
    /\ dbPc = "down"
    /\ dbCfg' \in [url : {"default", "remote", "file"}, failFast : BOOLEAN, import : BOOLEAN]
    /\ UNCHANGED <<dbKind, dbStore, dbPc, dbTarget, dbAt, dbTx, dbCause, dbBoots>>

(* Database::connect: without a URL straight to the default file. "file" is  *)
(* a sqlite:// URL that names takuto.db itself.                              *)
Boot ==
    /\ dbPc = "down" /\ dbBoots < MaxBoots
    /\ dbBoots' = dbBoots + 1 /\ dbCause' = "none"
    /\ dbPc' = IF dbCfg.url = "default" THEN "open" ELSE "connect"
    /\ dbTarget' = IF dbCfg.url = "remote" THEN "remote" ELSE "local"
    /\ UNCHANGED <<dbCfg, dbKind, dbStore, dbAt, dbTx>>

(* pool::connect and the probe.                                              *)
Connect ==
    /\ dbPc = "connect"
    /\ dbPc' = "migrate"
    /\ dbStore' = [dbStore EXCEPT ![dbTarget].exists = TRUE]
    /\ UNCHANGED <<dbCfg, dbKind, dbTarget, dbAt, dbTx, dbCause, dbBoots>>

(* Unreachable: an error, after which the server runs without a database,    *)
(* or the local file.                                                        *)
Unreachable ==
    /\ dbPc = "connect" /\ dbTarget = "remote"
    /\ IF dbCfg.failFast THEN GiveUp("unreachable")
       ELSE dbPc' = "open" /\ dbTarget' = "local" /\ UNCHANGED <<dbStore, dbAt, dbTx, dbCause>>
    /\ UNCHANGED <<dbCfg, dbKind, dbBoots>>

(* Database::open: the file is created when missing, then migrated.          *)
OpenLocal ==
    /\ dbPc = "open"
    /\ dbPc' = "migrate-local"
    /\ dbStore' = [dbStore EXCEPT !["local"].exists = TRUE]
    /\ UNCHANGED <<dbCfg, dbKind, dbTarget, dbAt, dbTx, dbCause, dbBoots>>

(* The migrator applies the missing versions in order, each in a transaction *)
(* of its own; a version that a MySQL server left half applied is an error.  *)
ApplyMigration ==
    /\ dbPc \in {"migrate", "migrate-local"}
    /\ \/ /\ Target.dirty /\ GiveUp("dirty migration")
       \/ /\ ~Target.dirty /\ Target.schema < MaxSchema
          /\ dbStore' = [dbStore EXCEPT ![dbTarget].schema = @ + 1]
          /\ UNCHANGED <<dbPc, dbTarget, dbAt, dbTx, dbCause>>
    /\ UNCHANGED <<dbCfg, dbKind, dbBoots>>

\* Mutant: the marker is not looked at.
AlreadyCompleteIgnored == FALSE
AlreadyComplete == Target.marker

Migrated ==
    /\ dbPc \in {"migrate", "migrate-local"} /\ ~Target.dirty /\ Target.schema = MaxSchema
    /\ IF dbPc = "migrate" /\ dbCfg.import /\ dbStore["local"].exists /\ ~AlreadyComplete
       THEN dbPc' = "copy" /\ dbTx' = Target.rows
       ELSE dbPc' = "seed" /\ UNCHANGED dbTx
    /\ UNCHANGED <<dbCfg, dbKind, dbStore, dbTarget, dbAt, dbCause, dbBoots>>

\* Mutant: each table is committed when it has been copied.
CopiedCommitted(rows) == dbTx' = rows /\ dbStore' = [dbStore EXCEPT ![dbTarget].rows = rows]
Copied(rows) == dbTx' = rows /\ UNCHANGED dbStore

(* copy_table: a missing table or column, a key that the target has already  *)
(* or a missing parent ends the import, and the transaction is rolled back.  *)
CopyTable(i) ==
    LET rows == {row \in dbStore["local"].rows : row.t = CopyOrder[i]} IN
    /\ dbPc = "copy" /\ dbAt = i
    /\ \/ ~TableReadable(dbStore["local"]) /\ GiveUp("source")
       \/ TableReadable(dbStore["local"]) /\ (\E row \in rows : Clashes(row, dbTx)) /\ GiveUp("duplicate key")
       \/ TableReadable(dbStore["local"]) /\ (\E row \in rows : ~ParentsIn(row, dbTx \cup rows)) /\ GiveUp("foreign key")
       \/ /\ TableReadable(dbStore["local"])
          /\ \A row \in rows : ~Clashes(row, dbTx) /\ ParentsIn(row, dbTx \cup rows)
          /\ Copied(dbTx \cup rows)
          /\ IF i < Len(CopyOrder) THEN dbAt' = i + 1 /\ UNCHANGED dbPc ELSE dbPc' = "expire" /\ dbAt' = 1
          /\ UNCHANGED <<dbTarget, dbCause>>
    /\ UNCHANGED <<dbCfg, dbKind, dbBoots>>

\* Mutant: sessions are carried over.
ExpiredKept(rows) == rows
Expired(rows) == {[row EXCEPT !.live = FALSE] : row \in rows}

(* UPDATE sessions SET expires_at = '0', then the marker and the commit.     *)
ExpireSessions ==
    /\ dbPc = "expire"
    /\ dbTx' = Expired(dbTx) /\ dbPc' = "commit"
    /\ UNCHANGED <<dbCfg, dbKind, dbStore, dbTarget, dbAt, dbCause, dbBoots>>

CommitImport ==
    /\ dbPc = "commit"
    /\ \/ /\ dbStore' = [dbStore EXCEPT ![dbTarget].rows = dbTx, ![dbTarget].marker = TRUE]
          /\ dbTx' = {} /\ dbPc' = "seed" /\ UNCHANGED <<dbTarget, dbAt, dbCause>>
       \/ GiveUp("commit")
    /\ UNCHANGED <<dbCfg, dbKind, dbBoots>>

(* Default flows for every user that has none, then the server answers.      *)
SeedFlowRows ==
    /\ dbPc = "seed"
    /\ dbStore' = [dbStore EXCEPT ![dbTarget].rows = @ \cup
          {NewRow("work_item_flows", u.k, dbTarget) : u \in {row \in @ : row.t = "users"
              /\ ~\E f \in Target.rows : f.t = "work_item_flows" /\ f.k = row.k}}]
    /\ Up(dbTarget)
    /\ UNCHANGED <<dbCfg, dbKind, dbAt, dbTx, dbCause, dbBoots>>

-----------------------------------------------------------------------------
(* Users write to the store that is served; deleting a user or a repository  *)
(* takes the rows that refer to it along.                                    *)
InsertRow(t, k) ==
    LET row == NewRow(t, k, dbTarget) IN
    /\ dbPc = "up" /\ dbTarget # "none"
    /\ ~Clashes(row, Target.rows) /\ ParentsIn(row, Target.rows)
    /\ dbStore' = [dbStore EXCEPT ![dbTarget].rows = @ \cup {row}]
    /\ UNCHANGED <<dbCfg, dbKind, dbPc, dbTarget, dbAt, dbTx, dbCause, dbBoots>>

DeleteUser(k) ==
    /\ dbPc = "up" /\ dbTarget # "none"
    /\ \E u \in Target.rows : u.t = "users" /\ u.k = k
    /\ dbStore' = [dbStore EXCEPT ![dbTarget].rows = {row \in @ : row.k # k \/ row.t = "repositories"}]
    /\ UNCHANGED <<dbCfg, dbKind, dbPc, dbTarget, dbAt, dbTx, dbCause, dbBoots>>

(* The process ends, anywhere. MySQL commits each statement of a migration,  *)
(* so one that was under way stays half applied.                             *)
Die ==
    /\ dbPc # "down"
    /\ dbPc' = "down" /\ dbTarget' = "none" /\ dbTx' = {} /\ dbAt' = 1
    /\ \/ UNCHANGED dbStore
       \/ /\ dbPc = "migrate" /\ dbTarget = "remote" /\ dbKind = "mysql" /\ Target.schema < MaxSchema
          /\ dbStore' = [dbStore EXCEPT !["remote"].dirty = TRUE]
    /\ UNCHANGED <<dbCfg, dbKind, dbCause, dbBoots>>

DbNext ==
    \/ Reconfigure \/ Boot \/ Connect \/ Unreachable \/ OpenLocal \/ ApplyMigration \/ Migrated
    \/ \E i \in 1..Len(CopyOrder) : CopyTable(i)
    \/ ExpireSessions \/ CommitImport \/ SeedFlowRows
    \/ \E t \in DbTables, k \in DbUsers : InsertRow(t, k)
    \/ \E k \in DbUsers : DeleteUser(k)
    \/ Die

DbSpec == DbInit /\ [][DbNext]_dbVars

-----------------------------------------------------------------------------
(* A crash anywhere in the import leaves the backend untouched: rows of the  *)
(* SQLite file are in it only together with the import_complete marker.      *)
ImportAllOrNothing ==
    \A row \in dbStore["remote"].rows : row.o = "local" => dbStore["remote"].marker

(* The import is one-shot over all restarts, fallbacks and changes of        *)
(* configuration: once the marker is set no row of the file enters the       *)
(* backend, so what users deleted there does not come back.                  *)
DeletedStayDeleted ==
    [][dbStore["remote"].marker
          => \A row \in dbStore'["remote"].rows : row.o = "local" => row \in dbStore["remote"].rows]_dbVars

(* No session of the SQLite file is valid in the backend: everyone logs in   *)
(* again after the cutover, however many attempts it took.                   *)
CutoverExpires ==
    \A row \in dbStore["remote"].rows : row.t = "sessions" /\ row.o = "local" => ~row.live

(* No import ever fails on a foreign key, whatever the file and the backend  *)
(* hold: the tables are copied parents first, and no copied table refers to  *)
(* one that is not.                                                          *)
ImportOrderSound == dbCause # "foreign key"

(* [database] fail_fast: "the engine refuses to boot if the database is      *)
(* unreachable at startup".                                                  *)
FailFastRefuses == dbPc = "up" /\ dbCfg.failFast => dbTarget # "none" \/ dbCause # "unreachable"

(* The importer's header: "Copy every user-data table in FK-dependency       *)
(* order": right after the import every row of the file is in the backend.   *)
EveryTableCopied ==
    dbPc = "commit" =>
        \A row \in dbStore["local"].rows : \E r \in dbTx : r.t = row.t /\ r.k = row.k

(* The cutover to another backend: all rows or none, in the order foreign   *)
(* keys allow, without live sessions, and once only.                        *)
ImportSafe ==
    [](ImportAllOrNothing /\ CutoverExpires /\ ImportOrderSound) /\ DeletedStayDeleted

=============================================================================
