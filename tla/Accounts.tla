------------------------------ MODULE Accounts ------------------------------
(***************************************************************************)
(* The accounts of the dashboard: the tables users, credentials,           *)
(* recovery_codes and sessions, and the handlers that change them          *)
(* (register, login, logout, change_password, recover,                     *)
(* regenerate_recovery_codes and the admin routes).  A handler is a        *)
(* request that sits between two awaits of the database: what it read      *)
(* before an await may be stale after it, and a client that disconnects    *)
(* drops the handler at any await (Abandon).                               *)
(*                                                                         *)
(* A DbTransaction is one step: this is the SQLite backend, where of two   *)
(* transactions that both read and write only one commits.  Lockout and    *)
(* the lifetime of sessions, which need a clock, are in LoginLimits.       *)
(***************************************************************************)
EXTENDS Integers, FiniteSets

CONSTANTS
    Ids,        \* user ids; a deleted id never comes back
    Names,      \* usernames
    Passwords,  \* passwords of at least 12 characters
    Sessions,   \* session ids
    MaxCreds,   \* bound on the credential rows ever written
    MaxSets,    \* bound on the sets of recovery codes ever generated
    Requests,   \* requests that can be in flight at once
    NoId, NoPw, NoName,  \* no user, no password, no name
    Kick        \* web.kick_other_sessions_on_login

ASSUME AccountsAssumption ==
    /\ NoId \notin Ids /\ NoPw \notin Passwords /\ Kick \in BOOLEAN
    /\ MaxCreds \in Nat \ {0} /\ MaxSets \in Nat

VARIABLES
    users,  \* [Ids -> User]
    cred,   \* [Ids -> Cred], the password credential
    code,   \* [Ids -> Nat], the set an unused recovery code belongs to; 0: none
    sess,   \* [Sessions -> Session]
    req,    \* [Requests -> Request]
    fresh,  \* the next credential row and the next set of codes
    last    \* [Ids -> Passwords], the password that was set last

vars == <<users, cred, code, sess, req, fresh, last>>

Roles == {"admin", "user"}
User == [st : {"unused", "present", "deleted"}, name : Names \cup {NoName}, role : Roles,
         suspended : BOOLEAN]
Cred == [row : 0 .. MaxCreds, pw : Passwords \cup {NoPw}, weak : BOOLEAN]
NoCred == [row |-> 0, pw |-> NoPw, weak |-> FALSE]
Session == [st : {"unused", "live", "gone"}, user : Ids \cup {NoId}]
Request == [pc : {"idle", "create", "store", "verify", "rehash", "kick", "session",
                  "change", "recover", "update", "suspend", "delete", "purge", "import"},
            then : {"login", "change"}, user : Ids \cup {NoId}, name : Names \cup {NoName},
            pw : Passwords \cup {NoPw}, new : Passwords \cup {NoPw},
            row : 0 .. MaxCreds, set : 0 .. MaxSets,
            role : Roles, prev : Roles, susp : BOOLEAN]
NoRequest == [pc |-> "idle", then |-> "login", user |-> NoId, name |-> NoName,
              pw |-> NoPw, new |-> NoPw, row |-> 0, set |-> 0, role |-> "user",
              prev |-> "user", susp |-> FALSE]

Present == {u \in Ids : users[u].st = "present"}
Named(n) == {u \in Present : users[u].name = n}
ActiveAdmins == {u \in Present : users[u].role = "admin" /\ ~users[u].suspended}
(* Mutant of LastAdmin: suspended admins count.                            *)
LastAdminAny(u) == users[u].role = "admin" /\ {a \in Present : users[a].role = "admin"} \ {u} = {}

LastAdmin(u) == users[u].role = "admin" /\ ActiveAdmins \ {u} = {}
SetupRequired == Present = {}

Without(S) == [s \in Sessions |-> IF sess[s].user \in S /\ sess[s].st = "live"
                                  THEN [sess[s] EXCEPT !.st = "gone"] ELSE sess[s]]

(* A new database, or one an older release left behind: an admin whose     *)
(* hash has weaker parameters than today's.                                *)
Blank == [st |-> "unused", name |-> NoName, role |-> "user", suspended |-> FALSE]
Init ==
    /\ \E old \in Ids \cup {NoId}, n \in Names, pw \in Passwords :
           /\ users = [u \in Ids |-> IF u = old
                  THEN [st |-> "present", name |-> n, role |-> "admin", suspended |-> FALSE]
                  ELSE Blank]
           /\ cred = [u \in Ids |-> IF u = old THEN [row |-> 1, pw |-> pw, weak |-> TRUE]
                                   ELSE NoCred]
           /\ last = [u \in Ids |-> IF u = old THEN pw ELSE NoPw]
    /\ code = [u \in Ids |-> 0]
    /\ sess = [s \in Sessions |-> [st |-> "unused", user |-> NoId]]
    /\ req = [r \in Requests |-> NoRequest]
    /\ fresh = [cred |-> 2, set |-> 1]

At(r, pc) == req[r].pc = pc
Go(r, new) == req' = [req EXCEPT ![r] = new]
Done(r) == Go(r, NoRequest)
Tables == <<users, cred, code, sess, fresh, last>>

(* The row of a new password: the old one is deleted in the same           *)
(* transaction, and the row has an id of its own.                          *)
StorePassword(u, pw) ==
    /\ fresh.cred <= MaxCreds
    /\ cred' = [cred EXCEPT ![u] = [row |-> fresh.cred, pw |-> pw, weak |-> FALSE]]
    /\ last' = [last EXCEPT ![u] = pw]
(* Mutant of GenerateCodes: the codes get the id of a credential.          *)
CodesByCredential(u) == fresh.set <= MaxSets /\ code' = [code EXCEPT ![u] = fresh.cred]

GenerateCodes(u) ==
    /\ fresh.set <= MaxSets
    /\ code' = [code EXCEPT ![u] = fresh.set]

----------------------------------------------------------------------------
(* Registration and the creation of users.                                 *)

(* register: open while there is no user; the count is not part of the     *)
(* transaction that inserts.                                               *)
Register(r, n, pw) ==
    /\ At(r, "idle") /\ SetupRequired
    /\ Go(r, [NoRequest EXCEPT !.pc = "create", !.name = n, !.pw = pw, !.role = "admin"])
    /\ UNCHANGED Tables

(* require_admin: the session resolves to an admin who is not suspended.   *)
Admin(s) == {a \in ActiveAdmins : sess[s].st = "live" /\ sess[s].user = a}

AdminCreate(r, s, n, pw, role) ==
    /\ At(r, "idle") /\ Admin(s) # {}
    /\ Go(r, [NoRequest EXCEPT !.pc = "create", !.name = n, !.pw = pw, !.role = role])
    /\ UNCHANGED Tables

(* users::create_user: the first user is an admin whatever was asked for;  *)
(* a password, when there is one, is stored by a second transaction.       *)
CreateUser(r, u) ==
    /\ At(r, "create") /\ users[u].st = "unused"
    /\ IF Named(req[r].name) # {}
       THEN Done(r) /\ UNCHANGED users
       ELSE /\ users' = [users EXCEPT ![u] =
                  [st |-> "present", name |-> req[r].name, suspended |-> FALSE,
                   role |-> IF Present = {} THEN "admin" ELSE req[r].role]]
            /\ IF req[r].pw = NoPw THEN Done(r)
               ELSE Go(r, [NoRequest EXCEPT !.pc = "store", !.user = u, !.pw = req[r].pw])
    /\ UNCHANGED <<cred, code, sess, fresh, last>>

(* store_password and generate_recovery_codes commit together.             *)
StoreCredentials(r) ==
    LET u == req[r].user
    IN  /\ At(r, "store") /\ Done(r)
        /\ IF u \in Present
           THEN /\ StorePassword(u, req[r].pw) /\ GenerateCodes(u)
                /\ fresh' = [cred |-> fresh.cred + 1, set |-> fresh.set + 1]
           ELSE UNCHANGED <<cred, code, fresh, last>>
        /\ UNCHANGED <<users, sess>>

(* import_users: names are looked up first, the rows go in with one        *)
(* transaction that fails as a whole when a name was taken meanwhile.      *)
ImportBegin(r, s, n, role, susp) ==
    /\ At(r, "idle") /\ Admin(s) # {} /\ Named(n) = {}
    /\ Go(r, [NoRequest EXCEPT !.pc = "import", !.name = n, !.role = role, !.susp = susp])
    /\ UNCHANGED Tables
ImportInsert(r, u) ==
    /\ At(r, "import") /\ users[u].st = "unused"
    /\ users' = IF Named(req[r].name) # {} THEN users
                ELSE [users EXCEPT ![u] = [st |-> "present", name |-> req[r].name,
                          role |-> req[r].role, suspended |-> req[r].susp]]
    /\ Done(r) /\ UNCHANGED <<cred, code, sess, fresh, last>>

----------------------------------------------------------------------------
(* Login, logout, passwords.                                               *)

LoginBegin(r, n, pw) ==
    /\ At(r, "idle")
    /\ \E u \in Named(n) :
           /\ ~users[u].suspended
           /\ Go(r, [NoRequest EXCEPT !.pc = "verify", !.user = u, !.name = n, !.pw = pw])
    /\ UNCHANGED Tables

ChangeBegin(r, s, pw, new) ==
    /\ At(r, "idle") /\ sess[s].st = "live"
    /\ Go(r, [NoRequest EXCEPT !.pc = "verify", !.then = "change", !.user = sess[s].user,
                               !.pw = pw, !.new = new])
    /\ UNCHANGED Tables

(* Whose credentials are read: login looks the name up a second time       *)
(* (authenticate_db_user), change_password has the id.                     *)
Checked(r) ==
    IF req[r].then = "login" THEN {v \in Named(req[r].name) : ~users[v].suspended}
    ELSE {req[r].user}

Accepted(r) ==
    [NoRequest EXCEPT !.user = req[r].user, !.new = req[r].new,
        !.pc = IF req[r].then = "change" THEN "change" ELSE IF Kick THEN "kick" ELSE "session"]

(* verify_user_password reads the rows and compares; a wrong password ends *)
(* the request (the attempt it records is LoginLimits').                   *)
VerifyPassword(r) ==
    /\ At(r, "verify")
    /\ LET ok == {v \in Checked(r) : cred[v].row # 0 /\ cred[v].pw = req[r].pw}
       IN  IF ok = {} THEN Done(r)
           ELSE \E v \in ok :
                IF cred[v].weak
                THEN Go(r, [req[r] EXCEPT !.row = cred[v].row, !.pc = "rehash", !.name = NoName])
                ELSE Go(r, Accepted(r))
    /\ UNCHANGED Tables

(* Mutant of RehashWrite: the row is found by user.                        *)
RehashByUser(r) ==
    cred' = [cred EXCEPT ![req[r].user].pw = req[r].pw, ![req[r].user].weak = FALSE]

(* The opportunistic rehash writes the row whose id was read: when that    *)
(* row has been replaced meanwhile, nothing is written.                    *)
RehashWrite(r) ==
    cred' = [u \in Ids |-> IF cred[u].row = req[r].row
                           THEN [cred[u] EXCEPT !.pw = req[r].pw, !.weak = FALSE]
                           ELSE cred[u]]
Rehash(r) ==
    /\ At(r, "rehash") /\ RehashWrite(r)
    /\ Go(r, Accepted(r))
    /\ UNCHANGED <<users, code, sess, fresh, last>>

KickOthers(r) ==
    /\ At(r, "kick") /\ Go(r, [req[r] EXCEPT !.pc = "session"])
    /\ sess' = Without({req[r].user})
    /\ UNCHANGED <<users, cred, code, fresh, last>>

(* Mutant of CreateSession: without the foreign key.                       *)
CreateSessionUnchecked(r, s) ==
    /\ At(r, "session") /\ sess[s].st = "unused" /\ Done(r)
    /\ sess' = [sess EXCEPT ![s] = [st |-> "live", user |-> req[r].user]]
    /\ UNCHANGED <<users, cred, code, fresh, last>>

(* create_db_session: the foreign key refuses a user who is gone.          *)
CreateSession(r, s) ==
    /\ At(r, "session") /\ sess[s].st = "unused" /\ Done(r)
    /\ sess' = IF req[r].user \in Present
               THEN [sess EXCEPT ![s] = [st |-> "live", user |-> req[r].user]] ELSE sess
    /\ UNCHANGED <<users, cred, code, fresh, last>>

(* change_password: new row and deletion of every session in one           *)
(* transaction, then a session for the caller.                             *)
ChangePassword(r) ==
    LET u == req[r].user
    IN  /\ At(r, "change")
        /\ IF u \in Present
           THEN /\ StorePassword(u, req[r].new)
                /\ fresh' = [fresh EXCEPT !.cred = @ + 1]
                /\ sess' = Without({u})
                /\ Go(r, [NoRequest EXCEPT !.pc = "session", !.user = u])
           ELSE Done(r) /\ UNCHANGED <<cred, fresh, last, sess>>
        /\ UNCHANGED <<users, code>>

Logout(s) ==
    /\ sess[s].st = "live"
    /\ sess' = [sess EXCEPT ![s].st = "gone"]
    /\ UNCHANGED <<users, cred, code, req, fresh, last>>

RegenerateCodes(s) ==
    /\ sess[s].st = "live" /\ sess[s].user \in Present
    /\ GenerateCodes(sess[s].user)
    /\ fresh' = [fresh EXCEPT !.set = @ + 1]
    /\ UNCHANGED <<users, cred, sess, req, last>>

(* recover: a code of the set the user was given, and a new password.      *)
RecoverBegin(r, n, set, new) ==
    /\ At(r, "idle")
    /\ \E u \in Named(n) :
           /\ ~users[u].suspended
           /\ Go(r, [NoRequest EXCEPT !.pc = "recover", !.user = u, !.set = set, !.new = new])
    /\ UNCHANGED Tables
Recover(r) ==
    LET u == req[r].user
    IN  /\ At(r, "recover") /\ Done(r)
        /\ IF u \in Present /\ code[u] # 0 /\ code[u] = req[r].set
           THEN /\ code' = [code EXCEPT ![u] = 0]
                /\ StorePassword(u, req[r].new)
                /\ fresh' = [fresh EXCEPT !.cred = @ + 1]
                /\ sess' = Without({u})
           ELSE UNCHANGED <<cred, code, fresh, last, sess>>
        /\ UNCHANGED users

----------------------------------------------------------------------------
(* The admin routes: require_admin, the guard on the caller's own account, *)
(* and then the statements of the operation.                               *)

AdminUpdate(r, s, u, n, role) ==
    /\ At(r, "idle") /\ u \in Ids
    /\ \E a \in Admin(s) : a = u => role = users[a].role
    /\ Go(r, [NoRequest EXCEPT !.pc = "update", !.user = u, !.name = n, !.role = role,
                               !.prev = users[u].role])
    /\ UNCHANGED Tables
AdminRemove(r, s, u, op) ==
    /\ At(r, "idle") /\ op \in {"suspend", "delete"}
    /\ \E a \in Admin(s) : a # u
    /\ Go(r, [NoRequest EXCEPT !.pc = op, !.user = u])
    /\ UNCHANGED Tables

(* users::update_user: unknown user, last admin and taken name are errors. *)
UpdateUser(r) ==
    LET u == req[r].user
    IN  /\ At(r, "update")
        /\ IF \/ u \notin Present
              \/ req[r].role = "user" /\ LastAdmin(u)
              \/ Named(req[r].name) \ {u} # {}
           THEN Done(r) /\ UNCHANGED users
           ELSE /\ users' = [users EXCEPT ![u].name = req[r].name, ![u].role = req[r].role]
                /\ IF req[r].prev # req[r].role
                   THEN Go(r, [NoRequest EXCEPT !.pc = "purge", !.user = u]) ELSE Done(r)
        /\ UNCHANGED <<cred, code, sess, fresh, last>>

SuspendUser(r) ==
    LET u == req[r].user
    IN  /\ At(r, "suspend")
        /\ IF u \notin Present \/ LastAdmin(u)
           THEN Done(r) /\ UNCHANGED users
           ELSE /\ users' = [users EXCEPT ![u].suspended = TRUE]
                /\ Go(r, [NoRequest EXCEPT !.pc = "purge", !.user = u])
        /\ UNCHANGED <<cred, code, sess, fresh, last>>

PurgeSessions(r) ==
    /\ At(r, "purge") /\ Done(r)
    /\ sess' = Without({req[r].user})
    /\ UNCHANGED <<users, cred, code, fresh, last>>

(* users::delete_user, with the rows that cascade.                         *)
DeleteUser(r) ==
    LET u == req[r].user
    IN  /\ At(r, "delete") /\ Done(r)
        /\ IF u \notin Present \/ LastAdmin(u)
           THEN UNCHANGED <<users, cred, code, sess>>
           ELSE /\ users' = [users EXCEPT ![u] = [Blank EXCEPT !.st = "deleted"]]
                /\ cred' = [cred EXCEPT ![u] = NoCred]
                /\ code' = [code EXCEPT ![u] = 0]
                /\ sess' = Without({u})
        /\ UNCHANGED <<fresh, last>>

UnsuspendUser(s, u) ==
    /\ Admin(s) # {} /\ u \in Present /\ users[u].suspended
    /\ users' = [users EXCEPT ![u].suspended = FALSE]
    /\ UNCHANGED <<cred, code, sess, req, fresh, last>>

(* The client disconnects, the process dies, or a statement fails.         *)
Abandon(r) == ~At(r, "idle") /\ Done(r) /\ UNCHANGED Tables

----------------------------------------------------------------------------
Serve(r) ==
    \/ \E n \in Names, pw \in Passwords :
           Register(r, n, pw) \/ LoginBegin(r, n, pw)
           \/ \E set \in 1 .. MaxSets : RecoverBegin(r, n, set, pw)
    \/ \E s \in Sessions, n \in Names, role \in Roles :
           \/ \E pw \in Passwords \cup {NoPw} : AdminCreate(r, s, n, pw, role)
           \/ \E b \in BOOLEAN : ImportBegin(r, s, n, role, b)
           \/ \E u \in Ids : AdminUpdate(r, s, u, n, role)
    \/ \E s \in Sessions :
           \/ \E pw, new \in Passwords : ChangeBegin(r, s, pw, new)
           \/ \E u \in Ids, op \in {"suspend", "delete"} : AdminRemove(r, s, u, op)
           \/ CreateSession(r, s)
    \/ \E u \in Ids : CreateUser(r, u) \/ ImportInsert(r, u)
    \/ StoreCredentials(r) \/ VerifyPassword(r) \/ Rehash(r) \/ KickOthers(r)
    \/ ChangePassword(r) \/ Recover(r) \/ UpdateUser(r) \/ SuspendUser(r)
    \/ PurgeSessions(r) \/ DeleteUser(r) \/ Abandon(r)

Next ==
    \/ \E r \in Requests : Serve(r)
    \/ \E s \in Sessions : Logout(s) \/ RegenerateCodes(s)
                           \/ \E u \in Ids : UnsuspendUser(s, u)

Spec == Init /\ [][Next]_vars

----------------------------------------------------------------------------
TypeOK ==
    /\ users \in [Ids -> User] /\ cred \in [Ids -> Cred] /\ code \in [Ids -> 0 .. MaxSets]
    /\ sess \in [Sessions -> Session] /\ req \in [Requests -> Request]
    /\ fresh \in [cred : 1 .. MaxCreds + 1, set : 1 .. MaxSets + 1]
    /\ last \in [Ids -> Passwords \cup {NoPw}]

(* Once there is a user there is an admin who is not suspended, whatever   *)
(* admins do to each other at the same time: the guard of update_user,     *)
(* suspend_user and delete_user is evaluated where the row is written.     *)
SomeActiveAdmin == Present # {} => ActiveAdmins # {}

(* A user's stored password is the one that was set last.  The rehash of   *)
(* verify_user_password writes a password it read before an await, so it   *)
(* must not reach the row of a password that was set meanwhile.            *)
PasswordIsLastSet == \A u \in Ids : cred[u].row # 0 => cred[u].pw = last[u]

(* A live session belongs to a user who exists, also when a login was in   *)
(* flight while its user was deleted.                                      *)
SessionsHaveUsers == \A s \in Sessions : sess[s].st = "live" => sess[s].user \in Present

(* The accounts, as one invariant: some admin is active, a password is the *)
(* one set last, and live sessions have their users.                       *)
AccountsSafe == TypeOK /\ SomeActiveAdmin /\ PasswordIsLastSet /\ SessionsHaveUsers
=============================================================================
