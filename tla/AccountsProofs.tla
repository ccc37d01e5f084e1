--------------------------- MODULE AccountsProofs ---------------------------
(***************************************************************************)
(* Proofs about the accounts of the dashboard and the limits on login and  *)
(* sessions, for every number of users, sessions and requests in flight.   *)
(***************************************************************************)
EXTENDS Accounts, LoginLimits, FiniteSetTheorems, WellFoundedInduction, TLAPS

----------------------------------------------------------------------------
(* Accounts.                                                               *)

(* Credential rows have ids of their own, below the next one.              *)
RowsDistinct ==
    /\ \A u \in Ids : cred[u].row < fresh.cred
    /\ \A u, v \in Ids : u # v /\ cred[u].row # 0 => cred[u].row # cred[v].row

(* What a request in flight may rely on after an await: an import found    *)
(* users, a rehash has the password of the row whose id it read if that    *)
(* row is still there, a change of a password is for a user id.            *)
Sound(q) ==
    /\ q.row < fresh.cred
    /\ q.pc = "import" => Present # {}
    /\ q.pc = "rehash" => q.row # 0 /\ \A u \in Ids : cred[u].row = q.row => cred[u].pw = q.pw
    /\ q.pc = "verify" /\ q.then = "change" => q.user \in Ids
RequestsSound == \A r \in Requests : Sound(req[r])

AccountsInv == AccountsSafe /\ RowsDistinct /\ RequestsSound

LEMMA NoRequestSound == AccountsInv => NoRequest \in Request /\ Sound(NoRequest)
<1> SUFFICES ASSUME AccountsInv PROVE NoRequest \in Request /\ Sound(NoRequest)
  OBVIOUS
<1>1. NoRequest \in Request
  BY AccountsAssumption DEF NoRequest, Request, Roles
<1>2. fresh.cred > 0
  BY DEF AccountsInv, AccountsSafe, TypeOK
<1>3. NoRequest.row = 0 /\ NoRequest.pc = "idle"
  BY DEF NoRequest
<1> QED BY <1>1, <1>2, <1>3 DEF Sound

(* A step that only moves one request on.                                  *)
LEMMA RequestMoves ==
    ASSUME AccountsInv, NEW r \in Requests, NEW q \in Request, Go(r, q), UNCHANGED Tables, Sound(q)
    PROVE  AccountsInv'
<1> USE DEF Tables
<1>1. TypeOK'
  BY DEF AccountsInv, AccountsSafe, TypeOK, Go
<1>2. Present' = Present /\ ActiveAdmins' = ActiveAdmins
  BY DEF Present, ActiveAdmins
<1>3. SomeActiveAdmin' /\ PasswordIsLastSet' /\ SessionsHaveUsers' /\ RowsDistinct'
  BY <1>2 DEF AccountsInv, AccountsSafe, SomeActiveAdmin, PasswordIsLastSet, SessionsHaveUsers, RowsDistinct
<1>4. \A p \in Request : Sound(p)' <=> Sound(p)
  BY <1>2 DEF Sound
<1>5. \A t \in Requests : req'[t] = IF t = r THEN q ELSE req[t]
  BY DEF Go, AccountsInv, AccountsSafe, TypeOK
<1>6. RequestsSound'
  <2> SUFFICES ASSUME NEW t \in Requests PROVE Sound(req[t])'
    BY DEF RequestsSound
  <2>1. CASE t = r
    BY <2>1, <1>2, <1>5 DEF Sound
  <2>2. CASE t # r
    BY <2>2, <1>2, <1>5 DEF Sound, AccountsInv, RequestsSound
  <2> QED BY <2>1, <2>2
<1> QED BY <1>1, <1>3, <1>6 DEF AccountsInv, AccountsSafe

(* What the others rely on survives a step that keeps the ids of rows and  *)
(* does not remove the last user.                                          *)
LEMMA SoundKept ==
    ASSUME AccountsInv, NEW r \in Requests, NEW q \in Request, Go(r, q), Sound(q)',
           fresh'.cred >= fresh.cred, fresh'.cred \in Nat, Present # {} => Present' # {},
           \A u \in Ids : \/ cred'[u].row = 0 \/ cred'[u].row >= fresh.cred
                          \/ cred'[u].row = cred[u].row /\ cred'[u].pw = cred[u].pw
    PROVE  RequestsSound' /\ req' \in [Requests -> Request]
<1>1. \A t \in Requests : req'[t] = IF t = r THEN q ELSE req[t]
  BY DEF Go, AccountsInv, AccountsSafe, TypeOK
<1>2. ASSUME NEW t \in Requests, t # r PROVE Sound(req[t])'
  <2>1. Sound(req[t]) /\ req'[t] = req[t] /\ req[t].row \in Nat /\ fresh.cred \in Nat
    BY <1>1, <1>2 DEF AccountsInv, AccountsSafe, RequestsSound, TypeOK, Request
  <2> QED BY <2>1 DEF Sound
<1>3. Sound(req[r])'
  <2>1. req'[r] = q
    BY <1>1
  <2> QED BY <2>1 DEF Sound
<1>4. req' \in [Requests -> Request]
  BY DEF Go, AccountsInv, AccountsSafe, TypeOK
<1> QED BY <1>2, <1>3, <1>4 DEF RequestsSound

(* The steps that read the tables and move a request on.                   *)
LEMMA ReadingStep ==
    ASSUME AccountsInv, NEW r \in Requests,
           \/ \E n \in Names, pw \in Passwords :
                 Register(r, n, pw) \/ LoginBegin(r, n, pw)
                 \/ \E set \in 1 .. MaxSets : RecoverBegin(r, n, set, pw)
           \/ \E s \in Sessions, n \in Names, role \in Roles :
                 \/ \E pw \in Passwords \cup {NoPw} : AdminCreate(r, s, n, pw, role)
                 \/ \E b \in BOOLEAN : ImportBegin(r, s, n, role, b)
                 \/ \E u \in Ids : AdminUpdate(r, s, u, n, role)
           \/ \E s \in Sessions :
                 \/ \E pw, new \in Passwords : ChangeBegin(r, s, pw, new)
                 \/ \E u \in Ids, op \in {"suspend", "delete"} : AdminRemove(r, s, u, op)
           \/ VerifyPassword(r) \/ Abandon(r)
    PROVE  AccountsInv'
<1>0. /\ NoRequest \in Request /\ Sound(NoRequest) /\ fresh.cred > 0 /\ fresh.cred \in Nat
      /\ req[r] \in Request /\ Sound(req[r]) /\ NoRequest.row = 0 /\ NoRequest.then = "login"
      /\ users \in [Ids -> User] /\ cred \in [Ids -> Cred] /\ sess \in [Sessions -> Session]
  BY NoRequestSound, AccountsAssumption
  DEF AccountsInv, AccountsSafe, TypeOK, RequestsSound, NoRequest
<1>1. ASSUME NEW q \in Request, q.row = 0, q.pc \notin {"import", "rehash"},
             q.pc = "verify" /\ q.then = "change" => q.user \in Ids,
             Go(r, q), UNCHANGED Tables
      PROVE  AccountsInv'
  BY <1>0, <1>1, RequestMoves DEF Sound
<1>2. ASSUME NEW n \in Names, NEW pw \in Passwords, Register(r, n, pw) PROVE AccountsInv'
  <2> DEFINE q == [NoRequest EXCEPT !.pc = "create", !.name = n, !.pw = pw, !.role = "admin"]
  <2>1. q \in Request /\ q.row = 0 /\ q.pc = "create"
    BY <1>0 DEF NoRequest, Request, Roles
  <2>2. Go(r, q) /\ UNCHANGED Tables
    BY <1>2 DEF Register
  <2> HIDE DEF q
  <2> QED BY <1>1, <2>1, <2>2
<1>3. ASSUME NEW n \in Names, NEW pw \in Passwords, LoginBegin(r, n, pw) PROVE AccountsInv'
  <2>1. PICK u \in Named(n) :
            Go(r, [NoRequest EXCEPT !.pc = "verify", !.user = u, !.name = n, !.pw = pw])
    BY <1>3 DEF LoginBegin
  <2> DEFINE q == [NoRequest EXCEPT !.pc = "verify", !.user = u, !.name = n, !.pw = pw]
  <2>2. u \in Ids
    BY DEF Named, Present
  <2>3. q \in Request /\ q.row = 0 /\ q.pc = "verify" /\ q.then = "login"
    BY <1>0, <2>2 DEF NoRequest, Request
  <2>4. Go(r, q) /\ UNCHANGED Tables
    BY <1>3, <2>1 DEF LoginBegin
  <2> HIDE DEF q
  <2> QED BY <1>1, <2>3, <2>4
<1>4. ASSUME NEW n \in Names, NEW pw \in Passwords, NEW set \in 1 .. MaxSets, RecoverBegin(r, n, set, pw)
      PROVE AccountsInv'
  <2>1. PICK u \in Named(n) :
            Go(r, [NoRequest EXCEPT !.pc = "recover", !.user = u, !.set = set, !.new = pw])
    BY <1>4 DEF RecoverBegin
  <2> DEFINE q == [NoRequest EXCEPT !.pc = "recover", !.user = u, !.set = set, !.new = pw]
  <2>2. u \in Ids /\ set \in 0 .. MaxSets
    BY AccountsAssumption DEF Named, Present
  <2>3. q \in Request /\ q.row = 0 /\ q.pc = "recover"
    BY <1>0, <2>2 DEF NoRequest, Request
  <2>4. Go(r, q) /\ UNCHANGED Tables
    BY <1>4, <2>1 DEF RecoverBegin
  <2> HIDE DEF q
  <2> QED BY <1>1, <2>3, <2>4
<1>5. ASSUME NEW s \in Sessions, NEW n \in Names, NEW role \in Roles, NEW pw \in Passwords \cup {NoPw},
             AdminCreate(r, s, n, pw, role)
      PROVE AccountsInv'
  <2> DEFINE q == [NoRequest EXCEPT !.pc = "create", !.name = n, !.pw = pw, !.role = role]
  <2>1. q \in Request /\ q.row = 0 /\ q.pc = "create"
    BY <1>0 DEF NoRequest, Request
  <2>2. Go(r, q) /\ UNCHANGED Tables
    BY <1>5 DEF AdminCreate
  <2> HIDE DEF q
  <2> QED BY <1>1, <2>1, <2>2
<1>6. ASSUME NEW s \in Sessions, NEW n \in Names, NEW role \in Roles, NEW b \in BOOLEAN,
             ImportBegin(r, s, n, role, b)
      PROVE AccountsInv'
  <2> DEFINE q == [NoRequest EXCEPT !.pc = "import", !.name = n, !.role = role, !.susp = b]
  <2>1. q \in Request /\ q.row = 0 /\ q.pc = "import"
    BY <1>0 DEF NoRequest, Request
  <2>2. Go(r, q) /\ UNCHANGED Tables /\ Admin(s) # {}
    BY <1>6 DEF ImportBegin
  <2>3. Present # {}
    BY <2>2 DEF Admin, ActiveAdmins
  <2> HIDE DEF q
  <2>4. Sound(q)
    BY <1>0, <2>1, <2>3 DEF Sound
  <2> QED BY <2>1, <2>2, <2>4, RequestMoves
<1>7. ASSUME NEW s \in Sessions, NEW n \in Names, NEW role \in Roles, NEW u \in Ids,
             AdminUpdate(r, s, u, n, role)
      PROVE AccountsInv'
  <2> DEFINE q == [NoRequest EXCEPT !.pc = "update", !.user = u, !.name = n, !.role = role,
                                    !.prev = users[u].role]
  <2>1. users[u].role \in Roles
    BY <1>0 DEF User
  <2>2. q \in Request /\ q.row = 0 /\ q.pc = "update"
    BY <1>0, <2>1 DEF NoRequest, Request
  <2>3. Go(r, q) /\ UNCHANGED Tables
    BY <1>7 DEF AdminUpdate
  <2> HIDE DEF q
  <2> QED BY <1>1, <2>2, <2>3
<1>8. ASSUME NEW s \in Sessions, NEW pw \in Passwords, NEW new \in Passwords, ChangeBegin(r, s, pw, new)
      PROVE AccountsInv'
  <2> DEFINE q == [NoRequest EXCEPT !.pc = "verify", !.then = "change", !.user = sess[s].user,
                                    !.pw = pw, !.new = new]
  <2>1. sess[s].user \in Ids
    BY <1>8 DEF ChangeBegin, AccountsInv, AccountsSafe, SessionsHaveUsers, Present
  <2>2. q \in Request /\ q.row = 0 /\ q.pc = "verify" /\ q.user \in Ids
    BY <1>0, <2>1 DEF NoRequest, Request
  <2>3. Go(r, q) /\ UNCHANGED Tables
    BY <1>8 DEF ChangeBegin
  <2> HIDE DEF q
  <2> QED BY <1>1, <2>2, <2>3
<1>9. ASSUME NEW s \in Sessions, NEW u \in Ids, NEW op \in {"suspend", "delete"}, AdminRemove(r, s, u, op)
      PROVE AccountsInv'
  <2> DEFINE q == [NoRequest EXCEPT !.pc = op, !.user = u]
  <2>1. q \in Request /\ q.row = 0 /\ q.pc = op
    BY <1>0 DEF NoRequest, Request
  <2>2. Go(r, q) /\ UNCHANGED Tables
    BY <1>9 DEF AdminRemove
  <2> HIDE DEF q
  <2> QED BY <1>1, <2>1, <2>2
<1>10. CASE Abandon(r)
  <2>1. Go(r, NoRequest) /\ UNCHANGED Tables
    BY <1>10 DEF Abandon, Done
  <2> QED BY <1>0, <2>1, RequestMoves
<1>11. CASE VerifyPassword(r)
  <2>0. /\ At(r, "verify") /\ UNCHANGED Tables
        /\ \/ Go(r, NoRequest)
           \/ \E v \in Checked(r) :
                /\ cred[v].row # 0 /\ cred[v].pw = req[r].pw
                /\ \/ Go(r, Accepted(r))
                   \/ Go(r, [req[r] EXCEPT !.row = cred[v].row, !.pc = "rehash", !.name = NoName])
    BY <1>11, Zenon DEF VerifyPassword, Done
  <2>1. CASE Go(r, NoRequest)
    BY <1>0, <2>0, <2>1, RequestMoves
  <2>2. CASE Go(r, Accepted(r))
    <3>1. PICK pc \in {"change", "kick", "session"} :
              Accepted(r) = [NoRequest EXCEPT !.user = req[r].user, !.new = req[r].new, !.pc = pc]
      BY Zenon DEF Accepted
    <3>2. Accepted(r) \in Request /\ Accepted(r).row = 0 /\ Accepted(r).pc = pc
      BY <1>0, <3>1 DEF NoRequest, Request
    <3> QED BY <1>1, <2>0, <2>2, <3>2
  <2>3. ASSUME NEW v \in Checked(r), cred[v].row # 0, cred[v].pw = req[r].pw,
               Go(r, [req[r] EXCEPT !.row = cred[v].row, !.pc = "rehash", !.name = NoName])
        PROVE AccountsInv'
    <3> DEFINE q == [req[r] EXCEPT !.row = cred[v].row, !.pc = "rehash", !.name = NoName]
    <3>1. v \in Ids
      BY <1>0, <2>0 DEF Checked, Named, Present, At, Sound, Request
    <3>2. q \in Request
      BY <1>0, <3>1 DEF Request, Cred
    <3>3. q.row = cred[v].row /\ q.pc = "rehash" /\ q.pw = req[r].pw
      BY <1>0 DEF Request
    <3> HIDE DEF q
    <3>4. Sound(q)
      BY <2>3, <3>1, <3>3 DEF Sound, AccountsInv, RowsDistinct
    <3>5. Go(r, q)
      BY <2>3 DEF q
    <3> QED BY <2>0, <3>2, <3>4, <3>5, RequestMoves
  <2> QED BY <2>0, <2>1, <2>2, <2>3
<1> QED
  BY <1>2, <1>3, <1>4, <1>5, <1>6, <1>7, <1>8, <1>9, <1>10, <1>11

(* The steps that change users: the guard on the last admin is evaluated   *)
(* where the row is written, and rows keep their ids.                      *)
LEMMA UsersStep ==
    ASSUME AccountsInv, NEW r \in Requests,
           \/ \E u \in Ids : CreateUser(r, u) \/ ImportInsert(r, u)
           \/ UpdateUser(r) \/ SuspendUser(r)
    PROVE  AccountsInv'
<1>0. /\ NoRequest \in Request /\ Sound(NoRequest) /\ fresh.cred > 0 /\ fresh.cred \in Nat
      /\ req[r] \in Request /\ Sound(req[r]) /\ NoRequest.row = 0
      /\ users \in [Ids -> User] /\ cred \in [Ids -> Cred] /\ sess \in [Sessions -> Session]
      /\ SomeActiveAdmin /\ SessionsHaveUsers
  BY NoRequestSound
  DEF AccountsInv, AccountsSafe, TypeOK, RequestsSound, NoRequest
(* It suffices that no user goes and that an active admin stays.           *)
<1>1. ASSUME NEW q \in Request, q.row = 0, q.pc \notin {"import", "rehash", "verify"}, Go(r, q),
             users' \in [Ids -> User], Present \subseteq Present', ActiveAdmins' # {},
             UNCHANGED <<cred, code, sess, fresh, last>>
      PROVE  AccountsInv'
  <2>1. Sound(q)'
    BY <1>0, <1>1 DEF Sound
  <2>2. RequestsSound' /\ req' \in [Requests -> Request]
    BY <1>0, <1>1, <2>1, SoundKept
  <2>3. TypeOK' /\ PasswordIsLastSet' /\ RowsDistinct'
    BY <1>1, <2>2 DEF AccountsInv, AccountsSafe, TypeOK, PasswordIsLastSet, RowsDistinct
  <2>4. SessionsHaveUsers' /\ SomeActiveAdmin'
    BY <1>0, <1>1 DEF SessionsHaveUsers, SomeActiveAdmin
  <2> QED BY <2>2, <2>3, <2>4 DEF AccountsInv, AccountsSafe
<1>2. ASSUME Go(r, NoRequest), UNCHANGED <<users, cred, code, sess, fresh, last>> PROVE AccountsInv'
  BY <1>0, <1>2, RequestMoves DEF Tables
<1>3. ASSUME NEW u \in Ids, NEW new \in User, users' = [users EXCEPT ![u] = new], new.st = "present",
             users[u].st = "unused", Present # {} \/ new \in [st : {"present"}, name : Names \cup {NoName},
                                                               role : {"admin"}, suspended : {FALSE}]
      PROVE  users' \in [Ids -> User] /\ Present \subseteq Present' /\ ActiveAdmins' # {}
  <2>1. \A v \in Ids : users'[v] = IF v = u THEN new ELSE users[v]
    BY <1>0, <1>3
  <2>2. users' \in [Ids -> User] /\ Present \subseteq Present'
    BY <1>0, <1>3, <2>1 DEF Present
  <2>3. CASE Present # {}
    <3>1. PICK a \in ActiveAdmins : TRUE
      BY <1>0, <2>3 DEF SomeActiveAdmin
    <3>2. a \in Ids /\ a # u
      BY <1>3, <3>1 DEF ActiveAdmins, Present
    <3>3. a \in ActiveAdmins'
      BY <2>1, <2>2, <3>1, <3>2 DEF ActiveAdmins, Present
    <3> QED BY <2>2, <3>3
  <2>4. CASE Present = {}
    <3>1. new.role = "admin" /\ ~new.suspended
      BY <1>3, <2>4
    <3>2. u \in ActiveAdmins'
      BY <1>3, <2>1, <3>1 DEF ActiveAdmins, Present
    <3> QED BY <2>2, <3>2
  <2> QED BY <2>3, <2>4
<1>4. ASSUME NEW u \in Ids, CreateUser(r, u) PROVE AccountsInv'
  <2>0. users[u].st = "unused" /\ UNCHANGED <<cred, code, sess, fresh, last>>
    BY <1>4 DEF CreateUser
  <2>1. CASE Named(req[r].name) # {}
    BY <1>2, <1>4, <2>1 DEF CreateUser, Done
  <2>2. CASE Named(req[r].name) = {}
    <3> DEFINE role == IF Present = {} THEN "admin" ELSE req[r].role
               new == [st |-> "present", name |-> req[r].name, suspended |-> FALSE, role |-> role]
               q == [NoRequest EXCEPT !.pc = "store", !.user = u, !.pw = req[r].pw]
    <3>1. users' = [users EXCEPT ![u] = new] /\ (Go(r, NoRequest) \/ Go(r, q))
      BY <1>4, <2>2 DEF CreateUser, Done
    <3>2. new \in User /\ (Present # {} \/ new \in [st : {"present"}, name : Names \cup {NoName},
                                                    role : {"admin"}, suspended : {FALSE}])
      BY <1>0 DEF User, Request, Roles
    <3>3. q \in Request /\ q.row = 0 /\ q.pc = "store"
      BY <1>0 DEF Request, NoRequest
    <3>4. new.st = "present"
      OBVIOUS
    <3> HIDE DEF new, q
    <3>5. users' \in [Ids -> User] /\ Present \subseteq Present' /\ ActiveAdmins' # {}
      BY <1>3, <2>0, <3>1, <3>2, <3>4
    <3>6. NoRequest.pc = "idle"
      BY DEF NoRequest
    <3> QED BY <1>0, <1>1, <2>0, <3>1, <3>3, <3>5, <3>6
  <2> QED BY <2>1, <2>2
<1>5. ASSUME NEW u \in Ids, ImportInsert(r, u) PROVE AccountsInv'
  <2>0. /\ req[r].pc = "import" /\ users[u].st = "unused" /\ UNCHANGED <<cred, code, sess, fresh, last>>
        /\ Go(r, NoRequest)
    BY <1>5 DEF ImportInsert, Done, At
  <2>1. CASE Named(req[r].name) # {}
    BY <1>2, <1>5, <2>0, <2>1 DEF ImportInsert
  <2>2. CASE Named(req[r].name) = {}
    <3> DEFINE new == [st |-> "present", name |-> req[r].name, role |-> req[r].role,
                       suspended |-> req[r].susp]
    <3>1. users' = [users EXCEPT ![u] = new]
      BY <1>5, <2>2 DEF ImportInsert
    <3>2. new \in User /\ new.st = "present"
      BY <1>0 DEF User, Request
    <3>3. Present # {}
      BY <1>0, <2>0 DEF Sound
    <3> HIDE DEF new
    <3>4. users' \in [Ids -> User] /\ Present \subseteq Present' /\ ActiveAdmins' # {}
      BY <1>3, <2>0, <3>1, <3>2, <3>3
    <3>5. NoRequest.pc = "idle"
      BY DEF NoRequest
    <3> QED BY <1>0, <1>1, <2>0, <3>4, <3>5
  <2> QED BY <2>1, <2>2
(* A demotion or a suspension leaves another active admin.                 *)
<1>6. ASSUME NEW u \in Present, NEW new \in User, users' = [users EXCEPT ![u] = new], new.st = "present",
             ~LastAdmin(u) \/ (new.role = "admin" /\ new.suspended = users[u].suspended)
      PROVE  users' \in [Ids -> User] /\ Present \subseteq Present' /\ ActiveAdmins' # {}
  <2>0. u \in Ids
    BY DEF Present
  <2>1. \A v \in Ids : users'[v] = IF v = u THEN new ELSE users[v]
    BY <1>0, <1>6, <2>0
  <2>2. users' \in [Ids -> User] /\ Present \subseteq Present'
    BY <1>0, <1>6, <2>0, <2>1 DEF Present
  <2>3. CASE ActiveAdmins \ {u} # {}
    <3>1. PICK a \in ActiveAdmins : a # u
      BY <2>3
    <3>2. a \in ActiveAdmins'
      BY <2>1, <2>2, <3>1 DEF ActiveAdmins, Present
    <3> QED BY <2>2, <3>2
  <2>4. CASE ActiveAdmins \ {u} = {}
    <3>1. u \in ActiveAdmins
      BY <1>0, <2>4 DEF SomeActiveAdmin
    <3>2. new.role = "admin" /\ ~new.suspended
      BY <1>6, <2>4, <3>1 DEF LastAdmin, ActiveAdmins
    <3>3. u \in ActiveAdmins'
      BY <1>6, <2>0, <2>1, <3>2 DEF ActiveAdmins, Present
    <3> QED BY <2>2, <3>3
  <2> QED BY <2>3, <2>4
<1>7. CASE UpdateUser(r)
  <2> DEFINE u == req[r].user
             q == [NoRequest EXCEPT !.pc = "purge", !.user = u]
             new == [users[u] EXCEPT !.name = req[r].name, !.role = req[r].role]
  <2>0. UNCHANGED <<cred, code, sess, fresh, last>>
    BY <1>7 DEF UpdateUser
  <2>1. CASE \/ u \notin Present \/ Named(req[r].name) \ {u} # {}
             \/ req[r].role = "user" /\ LastAdmin(u)
    BY <1>2, <1>7, <2>1 DEF UpdateUser, Done
  <2>2. CASE ~(\/ u \notin Present \/ Named(req[r].name) \ {u} # {}
               \/ req[r].role = "user" /\ LastAdmin(u))
    <3>1. /\ users' = [users EXCEPT ![u].name = req[r].name, ![u].role = req[r].role]
          /\ Go(r, NoRequest) \/ Go(r, q)
      BY <1>7, <2>2 DEF UpdateUser, Done
    <3>2. u \in Present /\ u \in Ids
      BY <2>2 DEF Present
    <3>3. users' = [users EXCEPT ![u] = new]
      BY <1>0, <3>1, <3>2
    <3>a. users[u] \in User /\ users[u].st = "present"
      BY <1>0, <3>2 DEF Present
    <3>b. req[r].name \in Names \cup {NoName} /\ req[r].role \in Roles
      BY <1>0 DEF Request
    <3>4. /\ new \in User /\ new.st = "present" /\ new.role = req[r].role
          /\ new.suspended = users[u].suspended
      <4>1. new \in User
        BY <3>a, <3>b DEF User
      <4>2. new.st = "present" /\ new.role = req[r].role
        BY <3>a DEF User
      <4>3. new.suspended = users[u].suspended
        BY <3>a DEF User
      <4> QED BY <4>1, <4>2, <4>3
    <3>5. req[r].role \in {"admin", "user"}
      BY <1>0 DEF Request, Roles
    <3>6. q \in Request /\ q.row = 0 /\ q.pc = "purge" /\ NoRequest.pc = "idle"
      BY <1>0, <3>2 DEF Request, NoRequest
    <3> HIDE DEF new, q, u
    <3>7. users' \in [Ids -> User] /\ Present \subseteq Present' /\ ActiveAdmins' # {}
      BY <1>6, <2>2, <3>2, <3>3, <3>4, <3>5
    <3> QED BY <1>0, <1>1, <2>0, <3>1, <3>6, <3>7
  <2> QED BY <2>1, <2>2
<1>8. CASE SuspendUser(r)
  <2> DEFINE u == req[r].user
             q == [NoRequest EXCEPT !.pc = "purge", !.user = u]
             new == [users[u] EXCEPT !.suspended = TRUE]
  <2>0. UNCHANGED <<cred, code, sess, fresh, last>>
    BY <1>8 DEF SuspendUser
  <2>1. CASE u \notin Present \/ LastAdmin(u)
    BY <1>2, <1>8, <2>1 DEF SuspendUser, Done
  <2>2. CASE u \in Present /\ ~LastAdmin(u)
    <3>1. users' = [users EXCEPT ![u].suspended = TRUE] /\ Go(r, q)
      BY <1>8, <2>2 DEF SuspendUser
    <3>2. u \in Ids
      BY <2>2 DEF Present
    <3>3. users' = [users EXCEPT ![u] = new]
      BY <1>0, <3>1, <3>2
    <3>4. new \in User /\ new.st = "present"
      BY <1>0, <2>2, <3>2 DEF User, Present
    <3>5. q \in Request /\ q.row = 0 /\ q.pc = "purge"
      BY <1>0, <3>2 DEF Request, NoRequest
    <3> HIDE DEF new, q, u
    <3>6. users' \in [Ids -> User] /\ Present \subseteq Present' /\ ActiveAdmins' # {}
      BY <1>6, <2>2, <3>3, <3>4
    <3> QED BY <1>1, <2>0, <3>1, <3>5, <3>6
  <2> QED BY <2>1, <2>2
<1> QED BY <1>4, <1>5, <1>7, <1>8

(* Sessions of the users in S end, the others stay.                        *)
LEMMA WithoutSessions ==
    ASSUME AccountsInv, NEW S
    PROVE  /\ Without(S) \in [Sessions -> Session]
           /\ \A s \in Sessions : Without(S)[s].st = "live" =>
                  sess[s].st = "live" /\ Without(S)[s].user = sess[s].user /\ sess[s].user \notin S
<1>1. sess \in [Sessions -> Session]
  BY DEF AccountsInv, AccountsSafe, TypeOK
<1>2. \A s \in Sessions : Without(S)[s] = IF sess[s].user \in S /\ sess[s].st = "live"
                                          THEN [sess[s] EXCEPT !.st = "gone"] ELSE sess[s]
  BY DEF Without
<1>3. \A s \in Sessions : sess[s] \in Session /\ [sess[s] EXCEPT !.st = "gone"] \in Session
                          /\ [sess[s] EXCEPT !.st = "gone"].st = "gone"
  BY <1>1 DEF Session
<1>4. Without(S) \in [Sessions -> Session]
  BY <1>1, <1>3 DEF Without
<1> QED BY <1>2, <1>3, <1>4

(* A stored password gets a row of its own.                                *)
LEMMA PasswordStored ==
    ASSUME AccountsInv, NEW u \in Ids, NEW pw \in Passwords \cup {NoPw}, StorePassword(u, pw),
           fresh'.cred = fresh.cred + 1
    PROVE  /\ cred' \in [Ids -> Cred] /\ last' \in [Ids -> Passwords \cup {NoPw}]
           /\ fresh.cred + 1 \in 1 .. MaxCreds + 1 /\ PasswordIsLastSet' /\ RowsDistinct'
           /\ \A v \in Ids : \/ cred'[v].row = 0 \/ cred'[v].row >= fresh.cred
                             \/ cred'[v].row = cred[v].row /\ cred'[v].pw = cred[v].pw
<1> DEFINE new == [row |-> fresh.cred, pw |-> pw, weak |-> FALSE]
<1>1. /\ fresh.cred \in 1 .. MaxCreds + 1 /\ fresh.cred <= MaxCreds /\ MaxCreds \in Nat
      /\ cred \in [Ids -> Cred] /\ last \in [Ids -> Passwords \cup {NoPw}]
  BY AccountsAssumption DEF StorePassword, AccountsInv, AccountsSafe, TypeOK
<1>2. cred' = [cred EXCEPT ![u] = new] /\ last' = [last EXCEPT ![u] = pw]
  BY DEF StorePassword
<1>3. new \in Cred /\ new.row = fresh.cred /\ new.pw = pw
  BY <1>1 DEF Cred
<1> HIDE DEF new
<1>4. /\ cred' \in [Ids -> Cred] /\ last' \in [Ids -> Passwords \cup {NoPw}]
      /\ \A v \in Ids : /\ cred'[v] = IF v = u THEN new ELSE cred[v]
                        /\ last'[v] = IF v = u THEN pw ELSE last[v]
  BY <1>1, <1>2, <1>3
<1>5. PasswordIsLastSet'
  BY <1>3, <1>4 DEF AccountsInv, AccountsSafe, PasswordIsLastSet
<1>6. RowsDistinct'
  <2>1. \A v \in Ids : cred[v].row < fresh.cred /\ cred[v].row \in Int
    BY <1>1 DEF AccountsInv, RowsDistinct, Cred
  <2> QED BY <1>1, <1>3, <1>4, <2>1 DEF AccountsInv, RowsDistinct
<1>7. \A v \in Ids : \/ cred'[v].row = 0 \/ cred'[v].row >= fresh.cred
                     \/ cred'[v].row = cred[v].row /\ cred'[v].pw = cred[v].pw
  BY <1>1, <1>3, <1>4
<1> QED BY <1>1, <1>4, <1>5, <1>6, <1>7

(* The steps that change passwords, and those that end sessions of users.  *)
LEMMA PasswordStep ==
    ASSUME AccountsInv, NEW r \in Requests,
           StoreCredentials(r) \/ Rehash(r) \/ ChangePassword(r) \/ Recover(r)
    PROVE  AccountsInv'
<1> DEFINE u == req[r].user
<1>0. /\ NoRequest \in Request /\ Sound(NoRequest) /\ fresh.cred > 0 /\ fresh.cred \in Nat
      /\ req[r] \in Request /\ Sound(req[r]) /\ NoRequest.row = 0 /\ NoRequest.pc = "idle"
      /\ cred \in [Ids -> Cred] /\ code \in [Ids -> 0 .. MaxSets] /\ sess \in [Sessions -> Session]
      /\ fresh \in [cred : 1 .. MaxCreds + 1, set : 1 .. MaxSets + 1]
      /\ req[r].new \in Passwords \cup {NoPw} /\ req[r].pw \in Passwords \cup {NoPw}
      /\ MaxSets \in Nat /\ MaxCreds \in Nat
  BY NoRequestSound, AccountsAssumption
  DEF AccountsInv, AccountsSafe, TypeOK, RequestsSound, NoRequest, Request
<1>1. ASSUME Go(r, NoRequest), UNCHANGED <<users, cred, code, sess, fresh, last>> PROVE AccountsInv'
  BY <1>0, <1>1, RequestMoves DEF Tables
(* A new password, other sessions ended or not.                            *)
<1>2. ASSUME u \in Present, NEW pw \in Passwords \cup {NoPw}, StorePassword(u, pw),
             NEW q \in Request, q.row = 0, q.pc \in {"idle", "session"}, Go(r, q),
             fresh' \in [cred : {fresh.cred + 1}, set : 1 .. MaxSets + 1],
             code' \in [Ids -> 0 .. MaxSets], sess' \in {sess, Without({u})}, UNCHANGED users
      PROVE  AccountsInv'
  <2>1. u \in Ids /\ Present' = Present /\ ActiveAdmins' = ActiveAdmins /\ fresh'.cred = fresh.cred + 1
    BY <1>2 DEF Present, ActiveAdmins
  <2>2. /\ cred' \in [Ids -> Cred] /\ last' \in [Ids -> Passwords \cup {NoPw}]
        /\ fresh.cred + 1 \in 1 .. MaxCreds + 1 /\ PasswordIsLastSet' /\ RowsDistinct'
        /\ \A v \in Ids : \/ cred'[v].row = 0 \/ cred'[v].row >= fresh.cred
                          \/ cred'[v].row = cred[v].row /\ cred'[v].pw = cred[v].pw
    BY <1>2, <2>1, PasswordStored
  <2>3. Sound(q)'
    BY <1>0, <1>2, <2>1 DEF Sound
  <2>4. RequestsSound' /\ req' \in [Requests -> Request]
    BY <1>0, <1>2, <2>1, <2>2, <2>3, SoundKept
  <2>5. sess' \in [Sessions -> Session] /\ SessionsHaveUsers'
    BY <1>0, <1>2, <2>1, WithoutSessions DEF AccountsInv, AccountsSafe, SessionsHaveUsers
  <2>6. TypeOK'
    BY <1>2, <2>2, <2>4, <2>5 DEF AccountsInv, AccountsSafe, TypeOK
  <2>7. SomeActiveAdmin'
    BY <2>1 DEF AccountsInv, AccountsSafe, SomeActiveAdmin
  <2> QED BY <2>2, <2>4, <2>5, <2>6, <2>7 DEF AccountsInv, AccountsSafe
<1>3. CASE StoreCredentials(r)
  <2>0. Go(r, NoRequest) /\ UNCHANGED <<users, sess>>
    BY <1>3 DEF StoreCredentials, Done
  <2>1. CASE u \in Present
    <3>1. /\ StorePassword(u, req[r].pw) /\ GenerateCodes(u)
          /\ fresh' = [cred |-> fresh.cred + 1, set |-> fresh.set + 1]
      BY <1>3, <2>1 DEF StoreCredentials
    <3>2. code' \in [Ids -> 0 .. MaxSets] /\ fresh' \in [cred : {fresh.cred + 1}, set : 1 .. MaxSets + 1]
      BY <1>0, <2>1, <3>1 DEF GenerateCodes, Present
    <3> HIDE DEF u
    <3> QED BY <1>0, <1>2, <2>0, <2>1, <3>1, <3>2
  <2>2. CASE u \notin Present
    BY <1>1, <1>3, <2>0, <2>2 DEF StoreCredentials
  <2> QED BY <2>1, <2>2
<1>4. CASE Rehash(r)
  <2>0. req[r].pc = "rehash" /\ Go(r, Accepted(r)) /\ UNCHANGED <<users, code, sess, fresh, last>>
    BY <1>4 DEF Rehash, At
  <2>1. req[r].row # 0 /\ \A v \in Ids : cred[v].row = req[r].row => cred[v].pw = req[r].pw
    BY <1>0, <2>0 DEF Sound
  <2>2. cred' = [v \in Ids |-> IF cred[v].row = req[r].row
                               THEN [cred[v] EXCEPT !.pw = req[r].pw, !.weak = FALSE] ELSE cred[v]]
    BY <1>4 DEF Rehash, RehashWrite
  <2>3. \A v \in Ids : LET c == [cred[v] EXCEPT !.pw = req[r].pw, !.weak = FALSE]
                       IN  c \in Cred /\ c.row = cred[v].row /\ c.pw = req[r].pw
    BY <1>0 DEF Cred
  <2>4. /\ cred' \in [Ids -> Cred]
        /\ \A v \in Ids : cred'[v].row = cred[v].row /\ cred'[v].pw = cred[v].pw
    BY <1>0, <2>1, <2>2, <2>3
  <2>5. PICK pc \in {"change", "kick", "session"} :
            Accepted(r) = [NoRequest EXCEPT !.user = req[r].user, !.new = req[r].new, !.pc = pc]
    BY Zenon DEF Accepted
  <2>6. Accepted(r) \in Request /\ Accepted(r).row = 0 /\ Accepted(r).pc = pc
    BY <1>0, <2>5 DEF NoRequest, Request
  <2>7. Present' = Present /\ ActiveAdmins' = ActiveAdmins
    BY <2>0 DEF Present, ActiveAdmins
  <2>8. PICK q \in Request : q.row = 0 /\ q.pc \in {"change", "kick", "session"} /\ Go(r, q)
    BY <2>0, <2>6
  <2>9. Sound(q)'
    BY <1>0, <2>0, <2>8 DEF Sound
  <2>10. RequestsSound' /\ req' \in [Requests -> Request]
    BY <1>0, <2>0, <2>4, <2>7, <2>8, <2>9, SoundKept
  <2>11. TypeOK' /\ PasswordIsLastSet' /\ RowsDistinct'
    BY <2>0, <2>4, <2>10 DEF AccountsInv, AccountsSafe, TypeOK, PasswordIsLastSet, RowsDistinct
  <2>12. SomeActiveAdmin' /\ SessionsHaveUsers'
    BY <2>0, <2>7 DEF AccountsInv, AccountsSafe, SomeActiveAdmin, SessionsHaveUsers
  <2> QED BY <2>10, <2>11, <2>12 DEF AccountsInv, AccountsSafe
<1>5. CASE ChangePassword(r)
  <2>1. CASE u \in Present
    <3> DEFINE q == [NoRequest EXCEPT !.pc = "session", !.user = u]
    <3>1. /\ StorePassword(u, req[r].new) /\ fresh' = [fresh EXCEPT !.cred = @ + 1]
          /\ sess' = Without({u}) /\ Go(r, q) /\ UNCHANGED <<users, code>>
      BY <1>5, <2>1 DEF ChangePassword
    <3>2. q \in Request /\ q.row = 0 /\ q.pc = "session"
      BY <1>0 DEF NoRequest, Request
    <3>3. fresh' \in [cred : {fresh.cred + 1}, set : 1 .. MaxSets + 1] /\ code' \in [Ids -> 0 .. MaxSets]
      BY <1>0, <3>1
    <3> HIDE DEF q, u
    <3> QED BY <1>0, <1>2, <2>1, <3>1, <3>2, <3>3
  <2>2. CASE u \notin Present
    BY <1>1, <1>5, <2>2 DEF ChangePassword, Done
  <2> QED BY <2>1, <2>2
<1>6. CASE Recover(r)
  <2>0. Go(r, NoRequest) /\ UNCHANGED users
    BY <1>6 DEF Recover, Done
  <2>1. CASE u \in Present /\ code[u] # 0 /\ code[u] = req[r].set
    <3>1. /\ StorePassword(u, req[r].new) /\ fresh' = [fresh EXCEPT !.cred = @ + 1]
          /\ sess' = Without({u}) /\ code' = [code EXCEPT ![u] = 0]
      BY <1>6, <2>1 DEF Recover
    <3>a. 0 \in 0 .. MaxSets
      BY <1>0
    <3>b. code' \in [Ids -> 0 .. MaxSets]
      BY <1>0, <3>1, <3>a
    <3>2. fresh' \in [cred : {fresh.cred + 1}, set : 1 .. MaxSets + 1] /\ code' \in [Ids -> 0 .. MaxSets]
      BY <1>0, <3>1, <3>b
    <3> HIDE DEF u
    <3> QED BY <1>0, <1>2, <2>0, <2>1, <3>1, <3>2
  <2>2. CASE ~(u \in Present /\ code[u] # 0 /\ code[u] = req[r].set)
    BY <1>1, <1>6, <2>0, <2>2 DEF Recover
  <2> QED BY <2>1, <2>2
<1> QED BY <1>3, <1>4, <1>5, <1>6

(* The steps that end or create sessions, and the removal of a user.       *)
LEMMA SessionStep ==
    ASSUME AccountsInv,
           \/ \E r \in Requests : \/ KickOthers(r) \/ PurgeSessions(r) \/ DeleteUser(r)
                                  \/ \E s \in Sessions : CreateSession(r, s)
           \/ \E s \in Sessions : \/ Logout(s) \/ RegenerateCodes(s)
                                  \/ \E u \in Ids : UnsuspendUser(s, u)
    PROVE  AccountsInv'
<1>0. /\ NoRequest \in Request /\ Sound(NoRequest) /\ fresh.cred > 0 /\ fresh.cred \in Nat
      /\ NoRequest.row = 0 /\ NoRequest.pc = "idle" /\ req \in [Requests -> Request]
      /\ cred \in [Ids -> Cred] /\ code \in [Ids -> 0 .. MaxSets] /\ sess \in [Sessions -> Session]
      /\ users \in [Ids -> User] /\ RequestsSound /\ SessionsHaveUsers
      /\ fresh \in [cred : 1 .. MaxCreds + 1, set : 1 .. MaxSets + 1] /\ MaxSets \in Nat
  BY NoRequestSound, AccountsAssumption DEF AccountsInv, AccountsSafe, TypeOK, NoRequest
(* Only sessions, and the request, change.                                 *)
<1>1. ASSUME NEW r \in Requests, NEW q \in Request, Sound(q), Go(r, q), UNCHANGED <<users, cred, code, fresh, last>>,
             sess' \in [Sessions -> Session],
             \A s \in Sessions : sess'[s].st = "live" => sess'[s].user \in Present
      PROVE  AccountsInv'
  <2>1. Present' = Present /\ ActiveAdmins' = ActiveAdmins
    BY <1>1 DEF Present, ActiveAdmins
  <2>2. Sound(q)'
    BY <1>1, <2>1 DEF Sound
  <2>3. RequestsSound' /\ req' \in [Requests -> Request]
    BY <1>0, <1>1, <2>1, <2>2, SoundKept
  <2>4. TypeOK' /\ PasswordIsLastSet' /\ RowsDistinct'
    BY <1>1, <2>3 DEF AccountsInv, AccountsSafe, TypeOK, PasswordIsLastSet, RowsDistinct
  <2>5. SomeActiveAdmin' /\ SessionsHaveUsers'
    BY <1>1, <2>1 DEF AccountsInv, AccountsSafe, SomeActiveAdmin, SessionsHaveUsers
  <2> QED BY <2>3, <2>4, <2>5 DEF AccountsInv, AccountsSafe
<1>2. ASSUME NEW S
      PROVE  /\ Without(S) \in [Sessions -> Session]
             /\ \A s \in Sessions : Without(S)[s].st = "live" => Without(S)[s].user \in Present \ S
  BY <1>0, WithoutSessions DEF SessionsHaveUsers
<1>3. ASSUME NEW r \in Requests, KickOthers(r) PROVE AccountsInv'
  <2>1. PICK q : q = [req[r] EXCEPT !.pc = "session"]
    OBVIOUS
  <2>2. Go(r, q) /\ sess' = Without({req[r].user}) /\ UNCHANGED <<users, cred, code, fresh, last>>
    BY <1>3, <2>1 DEF KickOthers
  <2>3. q \in Request /\ q.pc = "session" /\ q.row = req[r].row
    BY <1>0, <2>1 DEF Request
  <2>4. Sound(q)
    BY <1>0, <2>3 DEF Sound, RequestsSound
  <2> QED BY <1>1, <1>2, <2>2, <2>3, <2>4
<1>4. ASSUME NEW r \in Requests, PurgeSessions(r) PROVE AccountsInv'
  <2>1. Go(r, NoRequest) /\ sess' = Without({req[r].user}) /\ UNCHANGED <<users, cred, code, fresh, last>>
    BY <1>4 DEF PurgeSessions, Done
  <2> QED BY <1>0, <1>1, <1>2, <2>1
<1>5. ASSUME NEW r \in Requests, NEW s \in Sessions, CreateSession(r, s) PROVE AccountsInv'
  <2>1. /\ Go(r, NoRequest) /\ UNCHANGED <<users, cred, code, fresh, last>>
        /\ sess' = IF req[r].user \in Present
                   THEN [sess EXCEPT ![s] = [st |-> "live", user |-> req[r].user]] ELSE sess
    BY <1>5 DEF CreateSession, Done
  <2>2. /\ sess' \in [Sessions -> Session]
        /\ \A t \in Sessions : sess'[t].st = "live" => sess'[t].user \in Present
    BY <1>0, <2>1 DEF Session, Present, SessionsHaveUsers
  <2> QED BY <1>0, <1>1, <2>1, <2>2
<1>6. ASSUME NEW r \in Requests, DeleteUser(r) PROVE AccountsInv'
  <2> DEFINE u == req[r].user
  <2>0. Go(r, NoRequest) /\ UNCHANGED <<fresh, last>>
    BY <1>6 DEF DeleteUser, Done
  <2>1. CASE u \notin Present \/ LastAdmin(u)
    <3>1. UNCHANGED <<users, cred, code, sess>>
      BY <1>6, <2>1 DEF DeleteUser
    <3> QED BY <1>0, <1>1, <2>0, <3>1 DEF SessionsHaveUsers
  <2>2. CASE u \in Present /\ ~LastAdmin(u)
    <3> DEFINE gone == [Blank EXCEPT !.st = "deleted"]
    <3>1. /\ users' = [users EXCEPT ![u] = gone] /\ cred' = [cred EXCEPT ![u] = NoCred]
          /\ code' = [code EXCEPT ![u] = 0] /\ sess' = Without({u})
      BY <1>6, <2>2 DEF DeleteUser
    <3>a. gone \in User /\ gone.st = "deleted"
      BY DEF Blank, User, Roles
    <3>b. 0 \in 0 .. MaxCreds /\ 0 \in 0 .. MaxSets
      BY AccountsAssumption
    <3>c. NoCred \in Cred /\ NoCred.row = 0
      BY <3>b DEF NoCred, Cred
    <3>d. u \in Ids
      BY <2>2 DEF Present
    <3>2. gone \in User /\ gone.st = "deleted" /\ NoCred \in Cred /\ NoCred.row = 0 /\ u \in Ids
      BY <3>a, <3>c, <3>d
    <3> HIDE DEF gone, u
    <3>3. /\ \A v \in Ids : users'[v] = IF v = u THEN gone ELSE users[v]
          /\ \A v \in Ids : cred'[v] = IF v = u THEN NoCred ELSE cred[v]
          /\ users' \in [Ids -> User] /\ cred' \in [Ids -> Cred]
      BY <1>0, <3>1, <3>2
    <3>4. code' \in [Ids -> 0 .. MaxSets]
      BY <1>0, <3>1, <3>b
    <3>5. Present' = Present \ {u}
      BY <3>2, <3>3 DEF Present
    <3>6. ActiveAdmins \ {u} # {}
      BY <2>2 DEF LastAdmin, ActiveAdmins, AccountsInv, AccountsSafe, SomeActiveAdmin
    <3>7. PICK a \in ActiveAdmins : a # u
      BY <3>6
    <3>8. a \in ActiveAdmins' /\ a \in Present'
      BY <3>3, <3>5, <3>7 DEF ActiveAdmins, Present
    <3>9. Sound(NoRequest)'
      BY <1>0, <2>0 DEF Sound
    <3>10. RequestsSound' /\ req' \in [Requests -> Request]
      BY <1>0, <2>0, <3>2, <3>3, <3>8, <3>9, SoundKept
    <3>11. sess' \in [Sessions -> Session] /\ SessionsHaveUsers'
      BY <1>2, <3>1, <3>5 DEF SessionsHaveUsers
    <3>12. TypeOK'
      BY <2>0, <3>3, <3>4, <3>10, <3>11 DEF AccountsInv, AccountsSafe, TypeOK
    <3>13. PasswordIsLastSet' /\ RowsDistinct'
      BY <1>0, <2>0, <3>2, <3>3 DEF AccountsInv, AccountsSafe, PasswordIsLastSet, RowsDistinct
    <3> QED BY <3>8, <3>10, <3>11, <3>12, <3>13 DEF AccountsInv, AccountsSafe, SomeActiveAdmin
  <2> QED BY <2>1, <2>2
<1>7. ASSUME UNCHANGED <<users, cred, req, last>>, fresh'.cred = fresh.cred,
             sess' \in [Sessions -> Session], code' \in [Ids -> 0 .. MaxSets],
             fresh' \in [cred : 1 .. MaxCreds + 1, set : 1 .. MaxSets + 1],
             \A s \in Sessions : sess'[s].st = "live" => sess[s].st = "live" /\ sess'[s].user = sess[s].user
      PROVE  AccountsInv'
  <2>1. Present' = Present /\ ActiveAdmins' = ActiveAdmins
    BY <1>7 DEF Present, ActiveAdmins
  <2>2. TypeOK' /\ PasswordIsLastSet' /\ RowsDistinct'
    BY <1>7 DEF AccountsInv, AccountsSafe, TypeOK, PasswordIsLastSet, RowsDistinct
  <2>3. SomeActiveAdmin' /\ SessionsHaveUsers' /\ RequestsSound'
    BY <1>7, <2>1 DEF AccountsInv, AccountsSafe, SomeActiveAdmin, SessionsHaveUsers, RequestsSound, Sound
  <2> QED BY <2>2, <2>3 DEF AccountsInv, AccountsSafe
<1>8. ASSUME NEW s \in Sessions, Logout(s) PROVE AccountsInv'
  <2>1. sess' = [sess EXCEPT ![s].st = "gone"] /\ UNCHANGED <<users, cred, code, req, fresh, last>>
    BY <1>8 DEF Logout
  <2>2. /\ sess' \in [Sessions -> Session]
        /\ \A t \in Sessions : sess'[t].st = "live" => sess[t].st = "live" /\ sess'[t].user = sess[t].user
    BY <1>0, <2>1 DEF Session
  <2> QED BY <1>0, <1>7, <2>1, <2>2
<1>9. ASSUME NEW s \in Sessions, RegenerateCodes(s) PROVE AccountsInv'
  <2>1. /\ sess[s].user \in Ids /\ fresh.set <= MaxSets /\ code' = [code EXCEPT ![sess[s].user] = fresh.set]
        /\ fresh' = [fresh EXCEPT !.set = @ + 1] /\ UNCHANGED <<users, cred, sess, req, last>>
    BY <1>9 DEF RegenerateCodes, GenerateCodes, Present
  <2>2. code' \in [Ids -> 0 .. MaxSets]
    BY <1>0, <2>1
  <2>3. fresh' \in [cred : 1 .. MaxCreds + 1, set : 1 .. MaxSets + 1] /\ fresh'.cred = fresh.cred
    BY <1>0, <2>1
  <2> QED BY <1>0, <1>7, <2>1, <2>2, <2>3
<1>10. ASSUME NEW s \in Sessions, NEW u \in Ids, UnsuspendUser(s, u) PROVE AccountsInv'
  <2>1. /\ users' = [users EXCEPT ![u].suspended = FALSE] /\ UNCHANGED <<cred, code, sess, req, fresh, last>>
        /\ Admin(s) # {}
    BY <1>10 DEF UnsuspendUser
  <2>2. /\ users' \in [Ids -> User]
        /\ \A v \in Ids : users'[v].st = users[v].st /\ users'[v].role = users[v].role
    BY <1>0, <2>1 DEF User
  <2>3. \A v \in Ids : v # u => users'[v] = users[v]
    BY <1>0, <2>1
  <2>4. users'[u].suspended = FALSE
    BY <1>0, <2>1 DEF User
  <2>5. Present' = Present
    BY <2>2 DEF Present
  <2>6. ActiveAdmins \subseteq ActiveAdmins'
    BY <2>2, <2>3, <2>4, <2>5 DEF ActiveAdmins, Present
  <2>7. SomeActiveAdmin' /\ SessionsHaveUsers' /\ RequestsSound'
    BY <2>1, <2>5, <2>6
    DEF AccountsInv, AccountsSafe, SomeActiveAdmin, SessionsHaveUsers, RequestsSound, Sound
  <2>8. TypeOK' /\ PasswordIsLastSet' /\ RowsDistinct'
    BY <2>1, <2>2 DEF AccountsInv, AccountsSafe, TypeOK, PasswordIsLastSet, RowsDistinct
  <2> QED BY <2>7, <2>8 DEF AccountsInv, AccountsSafe
<1> QED BY <1>3, <1>4, <1>5, <1>6, <1>8, <1>9, <1>10

(* For any number of users, sessions and requests in flight, with a client *)
(* gone or a statement failing at any await: once there is a user there is *)
(* an admin who can log in, the stored password is the one that was set    *)
(* last although the rehash writes after an await, and a live session      *)
(* belongs to a user who exists (users.rs, auth.rs, admin_users.rs).       *)
THEOREM AccountsAreSafe == Spec => []AccountsSafe
<1>1. Init => AccountsInv
  <2> SUFFICES ASSUME Init PROVE AccountsInv
    OBVIOUS
  <2>1. PICK old \in Ids \cup {NoId}, n \in Names, pw \in Passwords :
           /\ users = [u \in Ids |-> IF u = old
                  THEN [st |-> "present", name |-> n, role |-> "admin", suspended |-> FALSE] ELSE Blank]
           /\ cred = [u \in Ids |-> IF u = old THEN [row |-> 1, pw |-> pw, weak |-> TRUE] ELSE NoCred]
           /\ last = [u \in Ids |-> IF u = old THEN pw ELSE NoPw]
    BY DEF Init
  <2>2. /\ code = [u \in Ids |-> 0] /\ sess = [s \in Sessions |-> [st |-> "unused", user |-> NoId]]
        /\ req = [r \in Requests |-> NoRequest] /\ fresh = [cred |-> 2, set |-> 1]
    BY DEF Init
  <2>3. NoRequest \in Request /\ NoRequest.row = 0 /\ NoRequest.pc = "idle"
    BY AccountsAssumption DEF NoRequest, Request, Roles
  <2>4. users \in [Ids -> User] /\ last \in [Ids -> Passwords \cup {NoPw}]
    BY <2>1 DEF User, Blank, Roles
  <2>5. cred \in [Ids -> Cred]
    BY <2>1, AccountsAssumption DEF Cred, NoCred
  <2>6. TypeOK
    BY <2>2, <2>3, <2>4, <2>5, AccountsAssumption DEF TypeOK, Session
  <2>7. \A u \in Ids : u # old => users[u].st = "unused" /\ cred[u].row = 0
    BY <2>1 DEF Blank, NoCred
  <2>8. old \in Ids => old \in ActiveAdmins /\ cred[old].row = 1 /\ cred[old].pw = last[old]
    BY <2>1 DEF ActiveAdmins, Present
  <2>9. SomeActiveAdmin /\ PasswordIsLastSet
    BY <2>7, <2>8 DEF SomeActiveAdmin, PasswordIsLastSet, Present
  <2>10. SessionsHaveUsers
    BY <2>2 DEF SessionsHaveUsers
  <2>11. RowsDistinct /\ RequestsSound
    BY <2>2, <2>3, <2>7, <2>8 DEF RowsDistinct, RequestsSound, Sound
  <2> QED BY <2>6, <2>9, <2>10, <2>11 DEF AccountsInv, AccountsSafe
<1>2. AccountsInv /\ [Next]_vars => AccountsInv'
  <2> SUFFICES ASSUME AccountsInv, [Next]_vars PROVE AccountsInv'
    OBVIOUS
  <2>1. ASSUME NEW r \in Requests, Serve(r) PROVE AccountsInv'
    BY <2>1, ReadingStep, UsersStep, PasswordStep, SessionStep DEF Serve
  <2>2. CASE \E s \in Sessions : Logout(s) \/ RegenerateCodes(s) \/ \E u \in Ids : UnsuspendUser(s, u)
    BY <2>2, SessionStep
  <2>3. CASE UNCHANGED vars
    <3>1. Present' = Present /\ ActiveAdmins' = ActiveAdmins
      BY <2>3 DEF vars, Present, ActiveAdmins
    <3>2. TypeOK' /\ PasswordIsLastSet' /\ RowsDistinct'
      BY <2>3 DEF vars, AccountsInv, AccountsSafe, TypeOK, PasswordIsLastSet, RowsDistinct
    <3>3. SomeActiveAdmin' /\ SessionsHaveUsers' /\ RequestsSound'
      BY <2>3, <3>1 DEF vars, AccountsInv, AccountsSafe, SomeActiveAdmin, SessionsHaveUsers, RequestsSound, Sound
    <3> QED BY <3>2, <3>3 DEF AccountsInv, AccountsSafe
  <2> QED BY <2>1, <2>2, <2>3 DEF Next
<1>3. AccountsInv => AccountsSafe
  BY DEF AccountsInv
<1> QED BY <1>1, <1>2, <1>3, PTL DEF Spec

----------------------------------------------------------------------------
(* Login limits and session lifetimes.                                     *)

(* A nonempty set of naturals has a least element.                         *)
Below == {p \in Nat \X Nat : p[1] < p[2]}
LEMMA LeastOf ==
    ASSUME NEW S \in SUBSET Nat, S # {}
    PROVE  \E m \in S : \A n \in S : m <= n
<1>1. IsWellFoundedOn(Below, Nat)
  BY NatLessThanWellFounded, Zenon DEF OpToRel, Below
<1>2. \E x \in S : \A y \in S : ~(<<y, x>> \in Below)
  <2>1. S \subseteq Nat
    OBVIOUS
  <2> QED BY <1>1, <2>1, WFMin, Zenon
<1>3. \A x, y \in Nat : y < x => <<y, x>> \in Below
  BY DEF Below
<1>4. PICK x \in S : \A y \in S : ~(<<y, x>> \in Below)
  BY <1>2
<1>5. \A n \in S : x <= n
  <2> TAKE n \in S
  <2>1. n \in Nat /\ x \in Nat /\ ~(n < x)
    BY <1>3, <1>4
  <2> QED BY <2>1
<1> QED BY <1>5

(* What the extension of a session may rely on: it is written within       *)
(* Latency of the moment it was decided, when the session was not too old; *)
(* a live row expires IdleTtl after it was touched, and no request was     *)
(* accepted more than Extend after that.                                   *)
SessionFacts ==
    /\ seen <= now
    /\ \A r \in Calls : call[r].pc = "extend" =>
           /\ call[r].at <= now /\ now - call[r].at <= Latency
           /\ row.st = "live" /\ row.made > 0 => call[r].at - row.made <= AbsTtl
    /\ row.st = "live" =>
           /\ row.until = row.touched + IdleTtl /\ seen - row.touched <= Extend
           /\ row.made > 0 => seen - row.made <= AbsTtl

FailsFinite == \A k \in Kinds : IsFiniteSet(fails[k])

LimitsInv == LimitsTypeOK /\ FailsFinite /\ LockoutBounded /\ SessionFacts

(* The constants, one by one.                                              *)
LEMMA LimitsConstants ==
    /\ Threshold \in Nat /\ Threshold > 0 /\ Window \in Nat /\ Window > 0
    /\ MinRetry \in Nat /\ MinRetry > 0 /\ IdleTtl \in Nat /\ IdleTtl > 0
    /\ AbsTtl \in Nat /\ AbsTtl > 0 /\ Extend \in Nat /\ Extend > 0 /\ MaxTime \in Nat /\ MaxTime > 0
    /\ Latency \in Nat /\ Latency <= Extend /\ Extend < IdleTtl /\ IdleTtl < AbsTtl
    /\ IsFiniteSet(Calls)
  BY LimitsAssumption

(* The failures in a window are failures, finitely many; fewer rows or a   *)
(* later time make fewer.                                                  *)
LEMMA WindowFinite ==
    ASSUME FailsFinite, NEW k \in Kinds, NEW t
    PROVE  /\ IsFiniteSet(InWindow(k, t)) /\ FailedCount(k, t) \in Nat
           /\ InWindow(k, t) \subseteq fails[k]
<1>1. InWindow(k, t) \in SUBSET fails[k]
  BY DEF InWindow
<1> QED BY <1>1, FS_Subset, FS_CardinalityType DEF FailsFinite, FailedCount

LEMMA VerifyingFinite ==
    ASSUME NEW k
    PROVE  IsFiniteSet(Verifying(k)) /\ Cardinality(Verifying(k)) \in Nat /\ Cardinality(Calls) \in Nat
<1>1. Verifying(k) \in SUBSET Calls
  BY DEF Verifying
<1> QED BY <1>1, LimitsConstants, FS_Subset, FS_CardinalityType

(* There is an id no failure has: record_attempt inserts a row of its own. *)
LEMMA NewIdIsFree ==
    ASSUME FailsFinite, NEW k \in Kinds
    PROVE  NewId(k) \in Nat
<1> DEFINE n == Cardinality(fails[k])
<1>1. IsFiniteSet(fails[k]) /\ n \in Nat
  BY FS_CardinalityType DEF FailsFinite
<1>2. \E i \in 1 .. n + 1 : \A f \in fails[k] : f.id # i
  <2> SUFFICES ASSUME \A i \in 1 .. n + 1 : \E f \in fails[k] : f.id = i PROVE FALSE
    OBVIOUS
  <2> DEFINE g == [i \in 1 .. n + 1 |-> CHOOSE f \in fails[k] : f.id = i]
  <2>1. \A i \in 1 .. n + 1 : g[i] \in fails[k] /\ g[i].id = i
    OBVIOUS
  <2>2. g \in [1 .. n + 1 -> fails[k]]
    BY <2>1
  <2>3. IsFiniteSet(1 .. n + 1) /\ Cardinality(1 .. n + 1) = n + 1
    BY <1>1, FS_Interval
  <2>4. n < Cardinality(1 .. n + 1)
    BY <1>1, <2>3
  <2> HIDE DEF g
  <2>5. \E x, y \in 1 .. n + 1 : x # y /\ g[x] = g[y]
    BY <1>1, <2>2, <2>3, <2>4, FS_PigeonHole
  <2> QED BY <2>1, <2>5
<1>3. NewId(k) \in 1 .. n + 1
  BY <1>2 DEF NewId
<1> QED BY <1>1, <1>3

(* What waiting for Retry-After achieves: the oldest failure has left the  *)
(* window.                                                                 *)
LEMMA WaitingUnlocks ==
    ASSUME LimitsInv PROVE RetryAfterSuffices
<1> SUFFICES ASSUME NEW k \in Kinds, FailedCount(k, now) = Threshold
             PROVE  ~Locked(k, now + RetryAfter(k, now))
  BY DEF RetryAfterSuffices
<1> DEFINE W == InWindow(k, now)  ats == {f.at : f \in W}
<1>1. FailsFinite /\ now \in Nat /\ fails[k] \subseteq [at : Nat, id : Nat]
  BY DEF LimitsInv, LimitsTypeOK
<1>2. IsFiniteSet(W) /\ W \subseteq fails[k] /\ Cardinality(W) = Threshold
  BY <1>1, WindowFinite DEF FailedCount
<1>3. W # {}
  BY <1>2, FS_EmptySet, LimitsConstants
<1>4. ats \in SUBSET Nat /\ ats # {}
  BY <1>1, <1>2, <1>3
<1>5. \E a \in ats : \A b \in ats : a <= b
  BY <1>4, LeastOf
<1>6. Oldest(k, now) \in ats /\ \A f \in W : Oldest(k, now) <= f.at
  <2>1. \E a \in ats : \A f \in W : a <= f.at
    BY <1>5
  <2> QED BY <2>1 DEF Oldest
<1>7. PICK first \in W : first.at = Oldest(k, now)
  BY <1>6
<1> DEFINE t == now + RetryAfter(k, now)
<1>8. Oldest(k, now) \in Nat /\ t \in Int /\ t >= now /\ t >= Oldest(k, now) + Window
  <2>1. Oldest(k, now) \in Nat
    BY <1>4, <1>6
  <2>2. RetryAfter(k, now) \in Int /\ RetryAfter(k, now) >= MinRetry
        /\ RetryAfter(k, now) >= Oldest(k, now) + Window - now
    BY <1>1, <2>1, LimitsConstants DEF RetryAfter, Larger
  <2> QED BY <1>1, <2>1, <2>2, LimitsConstants
<1> HIDE DEF t
<1>9. InWindow(k, t) \in SUBSET (W \ {first})
  BY <1>1, <1>2, <1>7, <1>8, LimitsConstants DEF InWindow
<1>10. IsFiniteSet(W \ {first}) /\ Cardinality(W \ {first}) = Threshold - 1
  BY <1>2, <1>7, FS_RemoveElement
<1>11. FailedCount(k, t) <= Threshold - 1 /\ FailedCount(k, t) \in Nat
  BY <1>1, <1>9, <1>10, FS_Subset, WindowFinite DEF FailedCount
<1>12. ~Locked(k, t)
  BY <1>11, LimitsConstants DEF Locked
<1> QED BY <1>12 DEF t

(* A step that keeps the verifying requests and counts no more failures    *)
(* keeps the bound of the lockout.                                         *)
LEMMA BoundKept ==
    ASSUME LimitsInv, FailsFinite', LimitsTypeOK', now' \in {now, now + 1},
           \A k \in Kinds : Verifying(k)' \subseteq Verifying(k) /\ fails'[k] \subseteq fails[k]
    PROVE  LockoutBounded'
<1> SUFFICES ASSUME NEW k \in Kinds
             PROVE  FailedCount(k, now)' + Cardinality(Verifying(k))' < Threshold + Cardinality(Calls)
  BY DEF LockoutBounded
<1>1. FailsFinite /\ now \in Nat /\ fails[k] \subseteq [at : Nat, id : Nat]
  BY DEF LimitsInv, LimitsTypeOK
<1>2. InWindow(k, now)' \in SUBSET InWindow(k, now)
  BY <1>1, LimitsConstants DEF InWindow
<1>3. FailedCount(k, now)' <= FailedCount(k, now) /\ FailedCount(k, now)' \in Nat
  <2>1. Cardinality(InWindow(k, now)') <= Cardinality(InWindow(k, now)) /\ IsFiniteSet(InWindow(k, now)')
    BY <1>1, <1>2, WindowFinite, FS_Subset
  <2> QED BY <2>1, FS_CardinalityType DEF FailedCount
<1>4. Cardinality(Verifying(k)') <= Cardinality(Verifying(k)) /\ Cardinality(Verifying(k)') \in Nat
  <2>1. Verifying(k)' \in SUBSET Verifying(k) /\ IsFiniteSet(Verifying(k)')
    BY VerifyingFinite, FS_Subset
  <2> QED BY <2>1, VerifyingFinite, FS_Subset, FS_CardinalityType
<1> QED BY <1>1, <1>3, <1>4, VerifyingFinite, WindowFinite, LimitsConstants DEF LimitsInv, LockoutBounded

(* Time passes, or an administrator clears the failures.                   *)
LEMMA TickStep ==
    ASSUME LimitsInv, Tick \/ Unlock PROVE LimitsInv'
<1>1. /\ now' \in {now, now + 1} /\ now' \in 1 .. MaxTime /\ UNCHANGED <<row, call, seen>>
      /\ fails' \in [Kinds -> SUBSET [at : Nat, id : Nat]]
      /\ \A k \in Kinds : fails'[k] \subseteq fails[k]
  <2>0. now \in 1 .. MaxTime /\ fails \in [Kinds -> SUBSET [at : Nat, id : Nat]] /\ MaxTime \in Nat
    BY LimitsConstants DEF LimitsInv, LimitsTypeOK
  <2>1. CASE Tick
    <3>1. /\ now < MaxTime /\ now' = now + 1 /\ UNCHANGED <<row, call, seen>>
          /\ fails' = [k \in Kinds |-> InWindow(k, now + 1)]
      BY <2>1 DEF Tick
    <3>2. \A k \in Kinds : InWindow(k, now + 1) \subseteq fails[k]
      BY DEF InWindow
    <3>3. /\ fails' \in [Kinds -> SUBSET [at : Nat, id : Nat]]
          /\ \A k \in Kinds : fails'[k] \subseteq fails[k]
      BY <2>0, <3>1, <3>2
    <3> QED BY <2>0, <3>1, <3>3
  <2>2. CASE Unlock
    BY <2>0, <2>2 DEF Unlock
  <2> QED BY <2>1, <2>2
<1>2. LimitsTypeOK'
  BY <1>1 DEF LimitsInv, LimitsTypeOK
<1>3. FailsFinite'
  BY <1>1, FS_Subset DEF LimitsInv, FailsFinite
<1>4. LockoutBounded'
  BY <1>1, <1>2, <1>3, BoundKept DEF Verifying
<1>5. SessionFacts'
  <2>1. CASE Unlock
    BY <2>1 DEF Unlock, LimitsInv, SessionFacts
  <2>2. CASE Tick
    <3>1. \A r \in Calls : call[r].pc = "extend" => now - call[r].at < Latency
      BY <2>2 DEF Tick
    <3>2. now \in Nat /\ seen \in Nat /\ now' = now + 1 /\ \A r \in Calls : call[r].at \in Nat
      BY <2>2 DEF Tick, LimitsInv, LimitsTypeOK, Call
    <3> QED BY <1>1, <3>1, <3>2, LimitsConstants DEF LimitsInv, SessionFacts
  <2> QED BY <2>1, <2>2
<1> QED BY <1>2, <1>3, <1>4, <1>5 DEF LimitsInv

(* An attempt is let in below the threshold, and takes one of the places.  *)
LEMMA AttemptStep ==
    ASSUME LimitsInv, NEW r \in Calls, NEW k \in Kinds, Attempt(r, k) PROVE LimitsInv'
<1>1. PICK q : q = [NoCall EXCEPT !.pc = "verify", !.kind = k]
  OBVIOUS
<1>2. q \in Call /\ q.pc = "verify" /\ q.kind = k
  BY <1>1 DEF NoCall, Call, Kinds
<1>3. call' = [call EXCEPT ![r] = q] /\ UNCHANGED <<now, fails, row, seen>> /\ call[r].pc = "idle" /\ ~Locked(k, now)
  BY <1>1 DEF Attempt, Goto
<1>4. LimitsTypeOK' /\ FailsFinite'
  BY <1>2, <1>3 DEF LimitsInv, LimitsTypeOK, FailsFinite
<1>5. SessionFacts'
  BY <1>2, <1>3 DEF LimitsInv, LimitsTypeOK, SessionFacts
<1>6. ASSUME NEW j \in Kinds
      PROVE  FailedCount(j, now)' + Cardinality(Verifying(j))' < Threshold + Cardinality(Calls)
  <2>1. FailedCount(j, now)' = FailedCount(j, now) /\ FailedCount(j, now) \in Nat
    BY <1>3, WindowFinite DEF LimitsInv, FailedCount, InWindow
  <2>2. CASE j = k
    <3>1. Verifying(k) \in SUBSET (Calls \ {r}) /\ Verifying(k)' \in SUBSET (Verifying(k) \cup {r})
      BY <1>2, <1>3 DEF Verifying, LimitsInv, LimitsTypeOK
    <3>2. IsFiniteSet(Calls \ {r}) /\ Cardinality(Calls \ {r}) = Cardinality(Calls) - 1
      BY LimitsConstants, FS_RemoveElement
    <3>3. Cardinality(Verifying(k)) <= Cardinality(Calls) - 1
      BY <3>1, <3>2, FS_Subset
    <3>a. IsFiniteSet(Verifying(k)) /\ Cardinality(Verifying(k)) \in Nat
      BY VerifyingFinite
    <3>b. /\ IsFiniteSet(Verifying(k) \cup {r})
          /\ Cardinality(Verifying(k) \cup {r}) \in {Cardinality(Verifying(k)), Cardinality(Verifying(k)) + 1}
      BY <3>a, FS_AddElement
    <3>4. IsFiniteSet(Verifying(k) \cup {r}) /\ Cardinality(Verifying(k) \cup {r}) <= Cardinality(Verifying(k)) + 1
      BY <3>a, <3>b
    <3>5. Cardinality(Verifying(k)') <= Cardinality(Verifying(k) \cup {r}) /\ Cardinality(Verifying(k)') \in Nat
          /\ Cardinality(Verifying(k) \cup {r}) \in Nat
      BY <3>1, <3>4, FS_Subset, FS_CardinalityType
    <3>6. FailedCount(k, now) < Threshold
      BY <1>3, <2>1, <2>2, LimitsConstants DEF Locked
    <3> QED BY <2>1, <2>2, <3>3, <3>4, <3>5, <3>6, VerifyingFinite, LimitsConstants
  <2>3. CASE j # k
    <3>1. Verifying(j)' = Verifying(j)
      BY <1>2, <1>3, <2>3 DEF Verifying, LimitsInv, LimitsTypeOK
    <3> QED BY <2>1, <3>1 DEF LimitsInv, LockoutBounded
  <2> QED BY <2>2, <2>3
<1> QED BY <1>4, <1>5, <1>6 DEF LimitsInv, LockoutBounded

(* A failure is recorded: the request that verified becomes a row.         *)
LEMMA FailStep ==
    ASSUME LimitsInv, NEW r \in Calls, Fail(r) PROVE LimitsInv'
<1>1. PICK k \in Kinds : k = call[r].kind
  BY DEF LimitsInv, LimitsTypeOK, Call
<1>2. PICK new : new = [at |-> now, id |-> NewId(k)]
  OBVIOUS
<1>3. /\ call[r].pc = "verify" /\ call' = [call EXCEPT ![r] = NoCall]
      /\ fails' = [fails EXCEPT ![k] = @ \cup {new}] /\ UNCHANGED <<now, row, seen>>
  BY <1>1, <1>2 DEF Fail, Goto
<1>4. new \in [at : Nat, id : Nat] /\ NoCall \in Call /\ NoCall.pc = "idle"
  BY <1>2, NewIdIsFree DEF LimitsInv, LimitsTypeOK, NoCall, Call, Kinds
<1>5. LimitsTypeOK'
  BY <1>3, <1>4 DEF LimitsInv, LimitsTypeOK
<1>6. FailsFinite'
  BY <1>3, FS_AddElement DEF LimitsInv, FailsFinite, LimitsTypeOK
<1>7. SessionFacts'
  BY <1>3, <1>4 DEF LimitsInv, LimitsTypeOK, SessionFacts
<1>8. ASSUME NEW j \in Kinds
      PROVE  FailedCount(j, now)' + Cardinality(Verifying(j))' < Threshold + Cardinality(Calls)
  <2>1. IsFiniteSet(InWindow(j, now)) /\ FailedCount(j, now) \in Nat
    BY WindowFinite DEF LimitsInv
  <2>2. CASE j = k
    <3>1. InWindow(k, now)' \in SUBSET (InWindow(k, now) \cup {new})
      BY <1>3, <1>4 DEF InWindow, LimitsInv, LimitsTypeOK
    <3>2. Verifying(k)' = Verifying(k) \ {r} /\ r \in Verifying(k)
      BY <1>1, <1>3, <1>4 DEF Verifying, LimitsInv, LimitsTypeOK
    <3>3. IsFiniteSet(InWindow(k, now) \cup {new})
          /\ Cardinality(InWindow(k, now) \cup {new}) <= Cardinality(InWindow(k, now)) + 1
      <4>1. Cardinality(InWindow(k, now)) \in Nat
        BY <2>1, <2>2 DEF FailedCount
      <4>2. /\ IsFiniteSet(InWindow(k, now) \cup {new})
            /\ Cardinality(InWindow(k, now) \cup {new})
                   \in {Cardinality(InWindow(k, now)), Cardinality(InWindow(k, now)) + 1}
        BY <2>1, <2>2, FS_AddElement
      <4> QED BY <4>1, <4>2
    <3>4. Cardinality(InWindow(k, now)') <= Cardinality(InWindow(k, now) \cup {new})
          /\ Cardinality(InWindow(k, now)') \in Nat /\ Cardinality(InWindow(k, now) \cup {new}) \in Nat
      BY <3>1, <3>3, FS_Subset, FS_CardinalityType
    <3>5. Cardinality(Verifying(k)') = Cardinality(Verifying(k)) - 1
      BY <3>2, VerifyingFinite, FS_RemoveElement
    <3>6. FailedCount(k, now)' = Cardinality(InWindow(k, now)') /\ FailedCount(k, now) = Cardinality(InWindow(k, now))
      BY DEF FailedCount
    <3> QED BY <2>1, <2>2, <3>3, <3>4, <3>5, <3>6, VerifyingFinite, LimitsConstants DEF LimitsInv, LockoutBounded
  <2>3. CASE j # k
    <3>1. Verifying(j)' = Verifying(j)
      BY <1>1, <1>3, <1>4, <2>3 DEF Verifying, LimitsInv, LimitsTypeOK
    <3>2. FailedCount(j, now)' = FailedCount(j, now)
      BY <1>3, <2>3 DEF FailedCount, InWindow, LimitsInv, LimitsTypeOK
    <3> QED BY <3>1, <3>2 DEF LimitsInv, LockoutBounded
  <2> QED BY <2>2, <2>3
<1> QED BY <1>5, <1>6, <1>7, <1>8 DEF LimitsInv, LockoutBounded

(* Steps that add no failure and let no attempt in.                        *)
LEMMA SessionOnlyStep ==
    ASSUME LimitsInv, now' = now, row' \in SessionRow, seen' \in 1 .. MaxTime, call' \in [Calls -> Call],
           fails' \in [Kinds -> SUBSET [at : Nat, id : Nat]],
           \A k \in Kinds : fails'[k] \subseteq fails[k],
           \A c \in Calls : call'[c].pc = "verify" => call'[c] = call[c]
    PROVE  LimitsTypeOK' /\ FailsFinite' /\ LockoutBounded'
<1>1. LimitsTypeOK'
  BY DEF LimitsInv, LimitsTypeOK
<1>2. FailsFinite'
  BY FS_Subset DEF LimitsInv, FailsFinite
<1>3. LockoutBounded'
  BY <1>1, <1>2, BoundKept DEF Verifying
<1> QED BY <1>1, <1>2, <1>3

(* A right password, the validation of a cookie, its extension, the end of *)
(* a session.                                                              *)
LEMMA SessionRowStep ==
    ASSUME LimitsInv,
           EndSession \/ \E r \in Calls : Succeed(r) \/ Validate(r) \/ ExtendSession(r)
    PROVE  LimitsInv'
<1>0. /\ now \in Nat /\ now \in 1 .. MaxTime /\ seen \in Nat /\ seen \in 1 .. MaxTime
      /\ row \in SessionRow /\ call \in [Calls -> Call] /\ NoCall \in Call /\ NoCall.pc = "idle"
      /\ fails \in [Kinds -> SUBSET [at : Nat, id : Nat]]
      /\ Gone \in SessionRow /\ Gone.st = "gone" /\ SessionFacts
  BY LimitsConstants DEF LimitsInv, LimitsTypeOK, NoCall, Call, Kinds, Gone, SessionRow
<1>1. CASE EndSession
  <2>1. row' = Gone /\ UNCHANGED <<now, fails, call, seen>>
    BY <1>1 DEF EndSession
  <2>2. LimitsTypeOK' /\ FailsFinite' /\ LockoutBounded'
    BY <1>0, <2>1, SessionOnlyStep
  <2>3. SessionFacts'
    BY <1>0, <2>1 DEF SessionFacts
  <2> QED BY <2>2, <2>3 DEF LimitsInv
<1>2. ASSUME NEW r \in Calls, Succeed(r) PROVE LimitsInv'
  <2>1. PICK k \in Kinds : k = call[r].kind
    BY <1>0 DEF Call
  <2>2. /\ call' = [call EXCEPT ![r] = NoCall] /\ fails' = [fails EXCEPT ![k] = {}] /\ now' = now
        /\ \/ row.st = "none" /\ row' = NewSession /\ seen' = now
           \/ row' = Gone /\ seen' = seen
           \/ row' = row /\ seen' = seen
    BY <1>2, <2>1 DEF Succeed, Goto
  <2>3. NewSession \in SessionRow /\ NewSession.made = now /\ NewSession.touched = now
        /\ NewSession.until = now + IdleTtl
    BY <1>0, LimitsConstants DEF NewSession, SessionRow
  <2>4. row' \in SessionRow /\ seen' \in 1 .. MaxTime /\ call' \in [Calls -> Call]
        /\ fails' \in [Kinds -> SUBSET [at : Nat, id : Nat]] /\ \A j \in Kinds : fails'[j] \subseteq fails[j]
    BY <1>0, <2>2, <2>3
  <2>5. \A c \in Calls : call'[c].pc # "idle" => call'[c] = call[c]
    BY <1>0, <2>2
  <2>6. LimitsTypeOK' /\ FailsFinite' /\ LockoutBounded'
    BY <1>0, <2>2, <2>4, <2>5, SessionOnlyStep
  <2>7. SessionFacts'
    <3>1. \A c \in Calls : call[c].at \in Nat
      BY <1>0 DEF Call
    <3>2. CASE row' = NewSession /\ seen' = now
      BY <1>0, <2>2, <2>3, <2>5, <3>1, <3>2, LimitsConstants DEF SessionFacts
    <3>3. CASE row' = Gone /\ seen' = seen
      BY <1>0, <2>2, <2>5, <3>3 DEF SessionFacts
    <3>4. CASE row' = row /\ seen' = seen
      BY <1>0, <2>2, <2>5, <3>4 DEF SessionFacts
    <3> QED BY <2>2, <3>2, <3>3, <3>4
  <2> QED BY <2>6, <2>7 DEF LimitsInv
<1>3. ASSUME NEW r \in Calls, Validate(r) PROVE LimitsInv'
  <2>1. PICK q : q = [NoCall EXCEPT !.pc = "extend", !.at = now]
    OBVIOUS
  <2>2. q \in Call /\ q.pc = "extend" /\ q.at = now
    BY <1>0, <2>1 DEF NoCall, Call
  <2>3. /\ UNCHANGED <<now, fails>> /\ row.st = "live"
        /\ \/ row' = Gone /\ UNCHANGED <<call, seen>>
           \/ ~TooOld(now) /\ row' = row /\ call' = [call EXCEPT ![r] = q] /\ seen' = seen
           \/ ~TooOld(now) /\ row' = row /\ call' = call /\ seen' = now /\ ~Stale(now)
    BY <1>3, <2>1 DEF Validate, Goto
  <2>4. row' \in SessionRow /\ seen' \in 1 .. MaxTime /\ call' \in [Calls -> Call]
    BY <1>0, <2>2, <2>3
  <2>5. \A c \in Calls : call'[c].pc = "verify" => call'[c] = call[c]
    BY <1>0, <2>2, <2>3
  <2>6. LimitsTypeOK' /\ FailsFinite' /\ LockoutBounded'
    BY <1>0, <2>3, <2>4, <2>5, SessionOnlyStep
  <2>7. SessionFacts'
    <3>1. CASE row' = Gone /\ UNCHANGED <<call, seen>>
      BY <1>0, <2>3, <3>1 DEF SessionFacts
    <3>2. CASE ~TooOld(now) /\ row' = row /\ call' = [call EXCEPT ![r] = q] /\ seen' = seen
      BY <1>0, <2>2, <2>3, <3>2, LimitsConstants DEF SessionFacts, TooOld, SessionRow
    <3>3. CASE ~TooOld(now) /\ row' = row /\ call' = call /\ seen' = now /\ ~Stale(now)
      BY <1>0, <2>3, <3>3, LimitsConstants DEF SessionFacts, TooOld, Stale, SessionRow
    <3> QED BY <2>3, <3>1, <3>2, <3>3
  <2> QED BY <2>6, <2>7 DEF LimitsInv
<1>4. ASSUME NEW r \in Calls, ExtendSession(r) PROVE LimitsInv'
  <2>1. PICK t \in Nat : t = call[r].at
    BY <1>0 DEF Call
  <2>2. /\ call[r].pc = "extend" /\ call' = [call EXCEPT ![r] = NoCall] /\ UNCHANGED <<now, fails>>
        /\ seen' = Larger(seen, t)
        /\ row' = IF row.st = "live" THEN [row EXCEPT !.touched = t, !.until = t + IdleTtl] ELSE row
    BY <1>4, <2>1 DEF ExtendSession, Goto
  <2>3. t <= now /\ now - t <= Latency /\ (row.st = "live" /\ row.made > 0 => t - row.made <= AbsTtl)
    BY <1>0, <2>1, <2>2 DEF SessionFacts
  <2>4. seen' \in {seen, t} /\ seen' >= seen /\ seen' >= t /\ seen' \in 1 .. MaxTime
    <3>1. seen' = IF seen > t THEN seen ELSE t
      BY <2>2 DEF Larger
    <3>2. now <= MaxTime /\ 1 <= seen /\ seen <= MaxTime /\ MaxTime \in Nat
      BY <1>0, LimitsConstants
    <3> QED BY <1>0, <2>3, <3>1, <3>2
  <2>5. /\ row' \in SessionRow /\ row'.st = row.st /\ row'.made = row.made
        /\ row.st = "live" => row'.touched = t /\ row'.until = t + IdleTtl
    <3>1. CASE row.st = "live"
      <4>1. row' = [row EXCEPT !.touched = t, !.until = t + IdleTtl] /\ t + IdleTtl \in Nat
        BY <2>2, <3>1, LimitsConstants
      <4> QED BY <1>0, <4>1 DEF SessionRow
    <3>2. CASE row.st # "live"
      BY <1>0, <2>2, <3>2
    <3> QED BY <3>1, <3>2
  <2>6. call' \in [Calls -> Call] /\ \A c \in Calls : call'[c].pc # "idle" => call'[c] = call[c]
    BY <1>0, <2>2
  <2>7. LimitsTypeOK' /\ FailsFinite' /\ LockoutBounded'
    BY <1>0, <2>2, <2>4, <2>5, <2>6, SessionOnlyStep
  <2>8. row.made \in Nat
    BY <1>0 DEF SessionRow
  <2>9. SessionFacts'
    BY <1>0, <2>2, <2>3, <2>4, <2>5, <2>6, <2>8, LimitsConstants DEF SessionFacts
  <2> QED BY <2>7, <2>9 DEF LimitsInv
<1> QED BY <1>1, <1>2, <1>3, <1>4

(* Login attempts and session lifetimes, for every threshold, window, TTL  *)
(* and number of requests in flight: a lockout is overrun by requests in   *)
(* flight only, Retry-After suffices, a session that is used is honoured,  *)
(* and none is used beyond its cap or comes back after its end.            *)
THEOREM LimitsAreSafe == LimitsSpec => LimitsSafe
<1>1. LimitsInit => LimitsInv
  <2> SUFFICES ASSUME LimitsInit PROVE LimitsInv
    OBVIOUS
  <2>1. NoCall \in Call /\ NoCall.pc = "idle"
    BY DEF NoCall, Call, Kinds
  <2>2. row \in SessionRow /\ (row.st = "live" => row.made = 0 /\ row.touched = 0 /\ row.until = IdleTtl)
    BY LimitsConstants DEF LimitsInit, Gone, SessionRow
  <2>3. LimitsTypeOK
    BY <2>1, <2>2, LimitsConstants DEF LimitsInit, LimitsTypeOK
  <2>4. FailsFinite
    BY FS_EmptySet DEF LimitsInit, FailsFinite
  <2>5. SessionFacts
    BY <2>1, <2>2, LimitsConstants DEF LimitsInit, SessionFacts
  <2>6. LockoutBounded
    <3> SUFFICES ASSUME NEW k \in Kinds
                 PROVE  FailedCount(k, now) + Cardinality(Verifying(k)) < Threshold + Cardinality(Calls)
      BY DEF LockoutBounded
    <3>1. InWindow(k, now) = {} /\ Verifying(k) = {}
      BY <2>1 DEF LimitsInit, InWindow, Verifying
    <3>2. FailedCount(k, now) = 0 /\ Cardinality(Verifying(k)) = 0
      BY <3>1, FS_EmptySet DEF FailedCount
    <3> QED BY <3>2, VerifyingFinite, LimitsConstants
  <2> QED BY <2>3, <2>4, <2>5, <2>6 DEF LimitsInv
<1>2. LimitsInv /\ [LimitsNext]_limitsVars => LimitsInv'
  <2> SUFFICES ASSUME LimitsInv, [LimitsNext]_limitsVars PROVE LimitsInv'
    OBVIOUS
  <2>1. CASE UNCHANGED limitsVars
    <3>1. LimitsTypeOK' /\ FailsFinite' /\ SessionFacts'
      BY <2>1 DEF limitsVars, LimitsInv, LimitsTypeOK, FailsFinite, SessionFacts
    <3>2. LockoutBounded'
      BY <2>1 DEF limitsVars, LimitsInv, LockoutBounded, FailedCount, InWindow, Verifying
    <3> QED BY <3>1, <3>2 DEF LimitsInv
  <2>2. CASE LimitsNext
    BY <2>2, TickStep, AttemptStep, FailStep, SessionRowStep DEF LimitsNext
  <2> QED BY <2>1, <2>2
<1>3. LimitsInv => LimitsTypeOK /\ LockoutBounded /\ RetryAfterSuffices /\ UsedSessionsKept /\ SessionsCapped
  <2> SUFFICES ASSUME LimitsInv PROVE UsedSessionsKept /\ SessionsCapped
    BY WaitingUnlocks DEF LimitsInv
  <2>1. now \in Nat /\ seen \in Nat /\ row \in SessionRow /\ SessionFacts
    BY DEF LimitsInv, LimitsTypeOK
  <2> QED BY <2>1, LimitsConstants DEF SessionFacts, UsedSessionsKept, SessionsCapped, Idle, SessionRow
<1>4. [LimitsNext]_limitsVars => [row.st = "gone" => row'.st = "gone"]_limitsVars
  <2> SUFFICES ASSUME LimitsNext, row.st = "gone" PROVE row'.st = "gone"
    BY DEF limitsVars
  <2> QED BY DEF LimitsNext, Tick, Unlock, EndSession, Fail, Succeed, Validate, ExtendSession, Attempt
<1> QED BY <1>1, <1>2, <1>3, <1>4, PTL DEF LimitsSpec, LimitsSafe, EndedForGood
=============================================================================
