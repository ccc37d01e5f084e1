--------------------- MODULE WorkItemPersistenceProofs ---------------------
(***************************************************************************)
(* Proofs about WorkItemPersistence, for any number of runs, requests and  *)
(* drivers.  The inductive invariant is IInv: run ids are handed out once, *)
(* a run that is about to enter the map has its row and nobody is removing *)
(* it, a run whose row is about to be deleted is not in the map, and every *)
(* write on its way carries the id of the run it was read from.            *)
(***************************************************************************)
EXTENDS WorkItemPersistence, SnapshotFiles, WellFoundedInduction, TLAPS

(* What a change of tokens leaves alone in the records of a function.      *)
SameReq(f, g) ==
    \A x \in DOMAIN f : /\ g[x].pc = f[x].pc /\ g[x].id = f[x].id
                        /\ g[x].of = f[x].of /\ g[x].st = f[x].st
                        /\ g[x].then = f[x].then

LEMMA TokensOfRequests ==
    ASSUME NEW f \in [Requests -> Request]
    PROVE  /\ Cancelled(f) \in [Requests -> Request] /\ SameReq(f, Cancelled(f))
           /\ Detached(f) \in [Requests -> Request] /\ SameReq(f, Detached(f))
  BY DEF Cancelled, Detached, Request, SameReq

LEMMA TokensOfDrivers ==
    ASSUME NEW f \in [Drivers -> Driver]
    PROVE  /\ Cancelled(f) \in [Drivers -> Driver]
           /\ Detached(f) \in [Drivers -> Driver]
           /\ \A x \in Drivers :
                /\ Cancelled(f)[x].pc = f[x].pc /\ Cancelled(f)[x].id = f[x].id
                /\ Cancelled(f)[x].of = f[x].of
                /\ Detached(f)[x].pc = f[x].pc /\ Detached(f)[x].id = f[x].id
                /\ Detached(f)[x].of = f[x].of
  BY DEF Cancelled, Detached, Driver

LEMMA Shapes ==
    /\ NoItem \in Item /\ NoRow \in Row /\ Gone \in Driver /\ Idle \in Request
    /\ MaxRuns \in Nat /\ MaxEvents \in Nat
    /\ \A i \in Runs \cup {0} : NewItem(i) \in Item /\ NewItem(i).id = i
    /\ \A i \in Runs \cup {0}, pc \in {"retry", "begin", "start", "startw",
            "statew", "remove", "soft", "sync", "insert"} :
            /\ Then(pc, i) \in Request
            /\ Then(pc, i).pc = pc /\ Then(pc, i).id = i
  BY PersistenceAssumption
     DEF NoItem, Item, NoRow, Row, Gone, Driver, Idle, Request, NewItem, Then,
         Runs, St, Def

-----------------------------------------------------------------------------
(* Types.                                                                  *)

LEMMA TableTypes ==
    ASSUME rows \in [Runs -> Row], NEW i \in Runs \cup {0}
    PROVE  /\ \A s \in St, o \in Runs \cup {0} : WithState(i, s, o) \in [Runs -> Row]
           /\ \A f \in Def : /\ WithDef(i, f) \in [Runs -> Row]
                             /\ WithFinished(i, f) \in [Runs -> Row]
<1>1. CASE i = 0
  BY <1>1 DEF WithState, WithDef, WithFinished
<1>2. CASE i \in Runs
  <2>1. ASSUME NEW s \in St, NEW o \in Runs \cup {0}, NEW f \in Def
        PROVE  /\ [rows[i] EXCEPT !.st = s, !.of = o] \in Row
               /\ [rows[i] EXCEPT !.def = f] \in Row
    BY <1>2 DEF Row
  <2>2. ASSUME NEW s, NEW o, NEW f
        PROVE  /\ [rows EXCEPT ![i].st = s, ![i].of = o] =
                    [rows EXCEPT ![i] = [rows[i] EXCEPT !.st = s, !.of = o]]
               /\ [rows EXCEPT ![i].def = f] =
                    [rows EXCEPT ![i] = [rows[i] EXCEPT !.def = f]]
    BY <1>2
  <2>3. ASSUME NEW s \in St, NEW o \in Runs \cup {0}
        PROVE  WithState(i, s, o) \in [Runs -> Row]
    BY <2>1, <2>2, <1>2 DEF WithState, Def
  <2>4. ASSUME NEW f \in Def
        PROVE  WithDef(i, f) \in [Runs -> Row]
    BY <2>1, <2>2, <1>2 DEF WithDef, St
  <2>. QED  BY <2>3, <2>4 DEF WithFinished
<1>. QED  BY <1>1, <1>2

LEMMA WrittenType ==
    ASSUME TypeOK, NEW table \in [Runs -> Row], Written(table)
    PROVE  rows' \in [Runs -> Row] /\ events' \in 0..MaxEvents
  BY Shapes DEF Written, Event, TypeOK

LEMMA CallType ==
    ASSUME TypeOK, NEW r \in Requests, Call(r)
    PROVE  events' \in 0..MaxEvents
  BY Shapes DEF Call, Event, TypeOK

LEMMA SpawnType ==
    ASSUME TypeOK, NEW a \in BOOLEAN, NEW c \in BOOLEAN, Spawn(a, c)
    PROVE  /\ drv' \in [Drivers -> Driver]
           /\ \A d \in Drivers : drv'[d].pc = "write" =>
                drv[d].pc = "write" /\ drv'[d] = drv[d]
           /\ \A d \in Drivers : drv'[d].id = drv[d].id \/ drv'[d].id = 0
<1>1. PICK e \in Drivers : drv' = [drv EXCEPT ![e] =
                [Gone EXCEPT !.pc = "run", !.att = a, !.cx = c]]
  BY DEF Spawn
<1> DEFINE g == [Gone EXCEPT !.pc = "run", !.att = a, !.cx = c]
<1>2. g \in Driver /\ g.pc = "run" /\ g.id = 0
  BY DEF Gone, Driver, St
<1> HIDE DEF g
<1>. QED  BY <1>1, <1>2 DEF TypeOK, g

PCs == {"idle", "insert", "map", "retry", "begin", "start", "startw",
        "statew", "remove", "soft", "sync"}
Follows == {"", "begin", "spawn", "sync"}

LEMMA RequestFields ==
    ASSUME NEW q \in Request
    PROVE  /\ q.pc \in PCs /\ q.id \in Runs \cup {0} /\ q.of \in Runs \cup {0}
           /\ q.st \in St /\ q.then \in Follows
           /\ q.att \in BOOLEAN /\ q.cx \in BOOLEAN
  BY DEF Request, PCs, Follows

LEMMA RequestUpdates ==
    ASSUME NEW q \in Request, NEW pc \in PCs, NEW i \in Runs \cup {0},
           NEW then \in Follows
    PROVE  /\ [q EXCEPT !.pc = pc] \in Request
           /\ [q EXCEPT !.then = then] \in Request
           /\ [q EXCEPT !.att = TRUE] \in Request
           /\ [q EXCEPT !.pc = pc, !.id = i] \in Request
  BY DEF Request, PCs, Follows

LEMMA ThenFollows ==
    ASSUME NEW i \in Runs \cup {0}, NEW then \in Follows,
           NEW pc \in {"insert", "remove", "statew"}
    PROVE  /\ [Then(pc, i) EXCEPT !.then = then] \in Request
           /\ [Then(pc, i) EXCEPT !.then = then].pc = pc
           /\ [Then(pc, i) EXCEPT !.then = then].id = i
  BY DEF Then, Idle, Request, Follows, St

LEMMA WritingType ==
    ASSUME item.id \in Runs \cup {0}, NEW s \in St, NEW then \in Follows
    PROVE  /\ Writing(s, then) \in Request /\ Writing(s, then).pc = "statew"
           /\ Writing(s, then).id = item.id /\ Writing(s, then).of = item.id
  BY DEF Writing, Then, Idle, Request, Follows, St

LEMMA OperationType ==
    ASSUME TypeOK, NEW r \in Requests, Operation(r), UNCHANGED up
    PROVE  TypeOK'
<1> USE DEF TypeOK
<1>0. /\ req[r] \in Request /\ req[r].pc \in PCs
      /\ req[r].id \in Runs \cup {0} /\ req[r].of \in Runs \cup {0}
      /\ req[r].st \in St /\ req[r].then \in Follows /\ item.id \in Runs \cup {0}
      /\ req[r].att \in BOOLEAN /\ req[r].cx \in BOOLEAN
  BY RequestFields DEF Item
<1>1. CASE AddCheck(r)
  <2>1. PICK then \in {"", "begin"} : req' = [req EXCEPT ![r] = [Then("insert", 0) EXCEPT !.then = then]]
    BY <1>1 DEF AddCheck, Set
  <2>2. [Then("insert", 0) EXCEPT !.then = then] \in Request
    BY ThenFollows DEF Follows
  <2>. QED  BY <1>1, <2>1, <2>2, CallType DEF AddCheck
<1>2. CASE AddRow(r)
  <2>1. [NoRow EXCEPT !.live = "live", !.of = nextId] \in Row
    BY <1>2, Shapes DEF AddRow, NoRow, Row, St, Def
  <2>2. nextId + 1 \in 1..(MaxRuns + 1)
    BY <1>2, Shapes DEF AddRow, Runs
  <2>3. [req[r] EXCEPT !.pc = "map", !.id = nextId] \in Request
    BY <1>0, <1>2, RequestUpdates DEF AddRow, PCs
  <2>4. req' = [req EXCEPT ![r] = [req[r] EXCEPT !.pc = "map", !.id = nextId]]
    BY <1>2 DEF AddRow
  <2>. QED  BY <1>2, <2>1, <2>2, <2>3, <2>4 DEF AddRow
<1>3. CASE AddRowFails(r)
  BY <1>3, Shapes DEF AddRowFails, Reply, Event
<1>4. CASE AddMap(r)
  <2>1. Then("begin", 0) \in Request
    BY Shapes
  <2>. QED  BY <1>0, <1>4, <2>1, Shapes, TokensOfRequests, TokensOfDrivers DEF AddMap
<1>5. CASE RetryCheck(r)
  <2>1. Then("retry", 0) \in Request
    BY Shapes
  <2>. QED  BY <1>5, <2>1, CallType DEF RetryCheck, Set
<1>6. CASE RetryRemove(r)
  <2>1. [Then("insert", 0) EXCEPT !.then = "begin"] \in Request
    BY ThenFollows DEF Follows
  <2>. QED  BY <1>6, <2>1, Shapes, TokensOfRequests, TokensOfDrivers DEF RetryRemove
<1>7. CASE StartCheck(r)
  <2>1. Then("start", item.id) \in Request
    BY <1>0, Shapes
  <2>. QED  BY <1>7, <2>1, CallType, Shapes DEF StartCheck, Set, Reply
<1>8. CASE StartSet(r)
  <2>1. [Then("startw", req[r].id) EXCEPT !.att = TRUE] \in Request
    BY <1>0, Shapes, RequestUpdates
  <2>2. [item EXCEPT !.def = "Running", !.started = TRUE] \in Item
    BY DEF Item, Def
  <2>3. CASE OnBoard
    BY <1>8, <2>1, <2>2, <2>3, TokensOfRequests, TokensOfDrivers DEF StartSet
  <2>4. CASE ~OnBoard
    BY <1>8, <2>4, Shapes DEF StartSet, Reply
  <2>. QED  BY <2>3, <2>4
<1>9. CASE StartWrite(r)
  <2>1. WithDef(req[r].id, "Running") \in [Runs -> Row]
    BY <1>0, TableTypes DEF Def
  <2>. QED  BY <1>0, <1>9, <2>1, WrittenType, SpawnType, Shapes DEF StartWrite, Reply
<1>10. CASE RetryDef(r)
  <2>1. Then("begin", 0) \in Request /\ [item EXCEPT !.def = "Idle"] \in Item
    BY Shapes DEF Item, Def
  <2>. QED  BY <1>10, <2>1, CallType DEF RetryDef, Set
<1>11. CASE Pause(r)
  <2>1. ASSUME NEW s \in St
        PROVE  Writing(s, "") \in Request /\ [item EXCEPT !.st = s] \in Item
    BY <1>0, WritingType DEF Item, Follows
  <2>. QED  BY <1>11, <2>1, CallType, TokensOfRequests, TokensOfDrivers DEF Pause, St
<1>12. CASE Resume(r)
  <2>1. ASSUME NEW s \in St, NEW then \in {"", "spawn"}
        PROVE  /\ [Writing(s, then) EXCEPT !.att = TRUE, !.cx = tok] \in Request
               /\ [item EXCEPT !.st = s] \in Item
    <3>1. Writing(s, then) \in Request /\ [item EXCEPT !.st = s] \in Item
      BY <1>0, WritingType DEF Item, Follows
    <3>2. ASSUME NEW q \in Request
          PROVE  [q EXCEPT !.att = TRUE, !.cx = tok] \in Request
      BY DEF Request
    <3>. QED  BY <3>1, <3>2
  <2>. QED  BY <1>12, <2>1, CallType DEF Resume, Set, St
<1>13. CASE Stop(r)
  <2>1. Writing("Stopped", "") \in Request /\ [item EXCEPT !.st = "Stopped"] \in Item
    BY <1>0, WritingType DEF Item, Follows, St
  <2>. QED  BY <1>13, <2>1, CallType, TokensOfRequests, TokensOfDrivers DEF Stop
<1>14. CASE ResumeFromError(r)
  <2>1. /\ Writing("Pending", "begin") \in Request
        /\ [item EXCEPT !.st = "Pending", !.def = "Idle"] \in Item
    BY <1>0, WritingType DEF Item, Follows, St, Def
  <2>. QED  BY <1>14, <2>1, CallType DEF ResumeFromError, Set
<1>15. CASE StateWrite(r)
  <2>1. WithState(req[r].id, req[r].st, req[r].of) \in [Runs -> Row]
    BY <1>0, TableTypes
  <2>2. rows' \in [Runs -> Row] /\ events' \in 0..MaxEvents
    BY <1>15, <2>1, WrittenType DEF StateWrite
  <2>3. drv' \in [Drivers -> Driver]
    BY <1>0, <1>15, SpawnType DEF StateWrite
  <2>4. req' \in [Requests -> Request]
    BY <1>15, Shapes DEF StateWrite, Reply, Set
  <2>. QED  BY <1>15, <2>2, <2>3, <2>4 DEF StateWrite
<1>16. CASE DeleteCheck(r)
  <2>1. [Then("remove", item.id) EXCEPT !.then = "sync"] \in Request
    BY <1>0, ThenFollows DEF Follows
  <2>. QED  BY <1>16, <2>1, CallType, TokensOfRequests, TokensOfDrivers DEF DeleteCheck
<1>17. CASE MarkDoneCheck(r)
  <2>1. Then("remove", item.id) \in Request
    BY <1>0, Shapes
  <2>. QED  BY <1>17, <2>1, CallType DEF MarkDoneCheck, Set
<1>18. CASE Remove(r)
  <2>1. ASSUME NEW q \in Request
        PROVE  [q EXCEPT !.pc = "soft"] \in Request
    BY DEF Request
  <2>4. ASSUME NEW f \in [Requests -> Request]
        PROVE  [f EXCEPT ![r].pc = "soft"] \in [Requests -> Request]
    BY <2>1
  <2>2. req' \in [Requests -> Request]
    <3>1. Detached(req) \in [Requests -> Request]
      BY TokensOfRequests
    <3>2. [Detached(req) EXCEPT ![r].pc = "soft"] \in [Requests -> Request]
      BY <3>1, <2>4
    <3>3. CASE req' = [Detached(req) EXCEPT ![r].pc = "soft"]
      BY <3>2, <3>3, Zenon
    <3>4. CASE Reply(r)
      BY <3>4, Shapes DEF Reply
    <3>. QED  BY <1>18, <3>3, <3>4, Zenon DEF Remove
  <2>3. drv' \in [Drivers -> Driver]
    BY <1>18, TokensOfDrivers DEF Remove
  <2>. QED  BY <1>18, <2>2, <2>3, Shapes DEF Remove
<1>19. CASE SoftDelete(r)
  <2>1. [rows EXCEPT ![req[r].id].live = IF @ = "live" THEN "deleted" ELSE @]
            \in [Runs -> Row]
    <3>1. ASSUME req[r].id \in Runs
          PROVE  [rows[req[r].id] EXCEPT !.live = IF @ = "live" THEN "deleted" ELSE @]
                    \in Row
      BY <3>1 DEF Row
    <3>. QED  BY <3>1
  <2>2. rows' \in [Runs -> Row] /\ events' \in 0..MaxEvents
    BY <1>19, <2>1, WrittenType DEF SoftDelete
  <2>. QED  BY <1>19, <2>2, Shapes DEF SoftDelete, Set, Reply
<1>20. CASE DeleteSync(r)
  BY <1>20, Shapes DEF DeleteSync, Reply, Event
<1>. QED
  BY <1>1, <1>2, <1>3, <1>4, <1>5, <1>6, <1>7, <1>8, <1>9, <1>10, <1>11, <1>12,
     <1>13, <1>14, <1>15, <1>16, <1>17, <1>18, <1>19, <1>20 DEF Operation

LEMMA DriverUpdates ==
    ASSUME NEW d \in Drivers, drv \in [Drivers -> Driver], item \in Item
    PROVE  /\ \A res \in {"ok", "failed", "cancelled"} : Ending(res) \in Driver
           /\ \A pc \in {"go", "land", "landw", "run"} :
                [drv[d] EXCEPT !.pc = pc] \in Driver
           /\ [drv[d] EXCEPT !.pc = "land", !.id = item.id] \in Driver
           /\ \A s \in St, res \in {"", "ok"} :
                [drv[d] EXCEPT !.pc = "write", !.id = item.id, !.st = s,
                               !.of = item.id, !.res = res] \in Driver
           /\ [drv[d] EXCEPT !.pc = "run", !.id = 0, !.of = 0,
                              !.st = "Pending"] \in Driver
<1>1. item.id \in Runs \cup {0} /\ drv[d] \in Driver
  BY DEF Item
<1>2. \A res \in {"ok", "failed", "cancelled"} : Ending(res) \in Driver
  BY DEF Ending, Gone, Driver, St
<1>3. ASSUME NEW g \in Driver, NEW pc \in {"go", "land", "landw", "run"}
      PROVE  [g EXCEPT !.pc = pc] \in Driver
  BY DEF Driver
<1>4. ASSUME NEW g \in Driver, NEW i \in Runs \cup {0}
      PROVE  [g EXCEPT !.pc = "land", !.id = i] \in Driver
  BY DEF Driver
<1>5. ASSUME NEW g \in Driver, NEW i \in Runs \cup {0}, NEW s \in St,
             NEW res \in {"", "ok"}
      PROVE  [g EXCEPT !.pc = "write", !.id = i, !.st = s, !.of = i,
                       !.res = res] \in Driver
  BY DEF Driver
<1>6. ASSUME NEW g \in Driver
      PROVE  [g EXCEPT !.pc = "run", !.id = 0, !.of = 0, !.st = "Pending"]
                \in Driver
  BY DEF Driver, St
<1>. QED  BY <1>1, <1>2, <1>3, <1>4, <1>5, <1>6, Zenon

LEMMA DriveType ==
    ASSUME TypeOK, NEW d \in Drivers, Drive(d), UNCHANGED up
    PROVE  TypeOK'
<1> USE DEF TypeOK
<1>1. CASE DriverCheck(d)
  BY <1>1, DriverUpdates DEF DriverCheck
<1>2. ASSUME NEW s \in St, NEW res \in {"", "ok"}, DriverTransition(d, s, res)
      PROVE  TypeOK'
  <2>1. [item EXCEPT !.st = s] \in Item
    BY DEF Item
  <2>2. CASE OnBoard
    <3> DEFINE g == [drv[d] EXCEPT !.pc = "write", !.id = item.id, !.st = s,
                                   !.of = item.id, !.res = res]
    <3>1. g \in Driver
      BY DriverUpdates
    <3>2. drv' = [drv EXCEPT ![d] = g]
      BY <1>2, <2>2 DEF DriverTransition
    <3> HIDE DEF g
    <3>. QED  BY <1>2, <2>1, <2>2, <3>1, <3>2 DEF DriverTransition
  <2>3. CASE ~OnBoard
    BY <1>2, <2>3, DriverUpdates DEF DriverTransition
  <2>. QED  BY <2>2, <2>3
<1>3. CASE DriverStep(d)
  BY <1>2, <1>3 DEF DriverStep, St
<1>4. CASE DriverDone(d)
  BY <1>2, <1>4 DEF DriverDone, St
<1>5. CASE DriverWrite(d)
  <2>1. drv[d].id \in Runs \cup {0} /\ drv[d].st \in St /\ drv[d].of \in Runs \cup {0}
    BY DEF Driver
  <2>2. rows' \in [Runs -> Row] /\ events' \in 0..MaxEvents
    BY <1>5, <2>1, TableTypes, WrittenType DEF DriverWrite
  <2>3. After(d) \in Driver
    BY DriverUpdates DEF After
  <2>. QED  BY <1>5, <2>2, <2>3 DEF DriverWrite
<1>6. CASE DriverFails(d)
  BY <1>6, DriverUpdates DEF DriverFails
<1>7. CASE DriverEnd(d)
  BY <1>7, DriverUpdates, Shapes DEF DriverEnd
<1>8. CASE DriverLand(d)
  <2>1. item' \in Item
    BY <1>8 DEF DriverLand, Item, Def, St
  <2>. QED  BY <1>8, <2>1, DriverUpdates DEF DriverLand, Goes
<1>9. CASE DriverLandWrite(d)
  <2>1. drv[d].id \in Runs \cup {0}
    BY DEF Driver
  <2>2. rows' \in [Runs -> Row] /\ events' \in 0..MaxEvents
    BY <1>9, <2>1, TableTypes, WrittenType DEF DriverLandWrite, Def
  <2>. QED  BY <1>9, <2>2, Shapes DEF DriverLandWrite
<1>. QED  BY <1>1, <1>3, <1>4, <1>5, <1>6, <1>7, <1>8, <1>9 DEF Drive

(* A set of runs that is not empty has a last one.                         *)
LEMMA LastRun ==
    ASSUME NEW S, S \subseteq Runs, S # {}
    PROVE  \E i \in S : \A j \in S : j <= i
<1> DEFINE T == {MaxRuns - i : i \in S}
           R == OpToRel(<, Nat)
<1>0. \A i \in S : i \in Int /\ 1 <= i /\ i <= MaxRuns
  BY Shapes DEF Runs
<1>1. T \subseteq Nat /\ T # {}
  <2>1. ASSUME NEW i \in S PROVE MaxRuns - i \in Nat
    BY <1>0, Shapes
  <2>2. PICK i \in S : TRUE
    OBVIOUS
  <2>3. MaxRuns - i \in T
    OBVIOUS
  <2>4. T \subseteq Nat
    BY <2>1
  <2>. QED  BY <2>3, <2>4
<1>2. \A x, y \in Nat : y < x => <<y, x>> \in R
  BY DEF OpToRel
<1>3. IsWellFoundedOn(R, Nat)
  BY NatLessThanWellFounded
<1>4. PICK x \in T : \A y \in T : ~(<<y, x>> \in R)
  <2> HIDE DEF T, R
  <2>. QED  BY <1>1, <1>3, WFMin
<1>5. PICK i \in S : x = MaxRuns - i
  OBVIOUS
<1>6. ASSUME NEW j \in S PROVE j <= i
  <2>1. MaxRuns - j \in T /\ MaxRuns - j \in Nat /\ x \in Nat
    BY <1>1
  <2>2. ~(MaxRuns - j < x)
    <3> HIDE DEF R, T
    <3>. QED  BY <2>1, <1>2, <1>4
  <2>. QED  BY <2>2, <1>5, Shapes DEF Runs
<1>. QED  BY <1>6

(* Where the item of a restore comes from.                                 *)
LEMMA RestoreItem ==
    ASSUME TypeOK
    PROVE  /\ Live # {} => Newest \in Live
           /\ \A i \in Runs : FromRow(i) \in Item /\ FromRow(i).id = i
           /\ \A w \in Item : Reconciled(w) \in Item /\ Reconciled(w).id = w.id
           /\ \A w \in Item : w.id # 0 => /\ ToRow(w) \in Row
                                         /\ Backfilled(w) \in [Runs -> Row]
<1>1. Live # {} => Newest \in Live
  BY LastRun DEF Live, Newest
<1>2. ASSUME NEW i \in Runs
      PROVE  FromRow(i) \in Item /\ FromRow(i).id = i
  BY DEF FromRow, Item, Row, TypeOK
<1>3. ASSUME NEW w \in Item
      PROVE  Reconciled(w) \in Item /\ Reconciled(w).id = w.id
  BY DEF Reconciled, Item, Def, St
<1>4. ASSUME NEW w \in Item, w.id # 0
      PROVE  ToRow(w) \in Row /\ Backfilled(w) \in [Runs -> Row]
  <2>1. ToRow(w) \in Row
    BY DEF ToRow, Item, Row, Def
  <2>. QED  BY <2>1 DEF Backfilled, TypeOK
<1>. QED  BY <1>1, <1>2, <1>3, <1>4

LEMMA RespawnType ==
    ASSUME TypeOK, NEW w \in Item, w.id # 0, NEW table \in [Runs -> Row],
           Respawn(w, table)
    PROVE  /\ item' \in Item /\ item'.id = w.id
           /\ rows' \in [Runs -> Row] /\ drv' \in [Drivers -> Driver]
           /\ \A i \in Runs : /\ rows'[i].live = table[i].live
                              /\ rows'[i].of \in {table[i].of, i}
           /\ \A d \in Drivers : /\ drv'[d].pc = "write" => drv'[d] = drv[d]
                                 /\ drv'[d].id = drv[d].id \/ drv'[d].id = 0
<1>0. w.id \in Runs
  BY DEF Item
<1>1. CASE NoDriverNeeded(w) /\ item' = w /\ rows' = table /\ UNCHANGED drv
  BY <1>1 DEF TypeOK
<1>2. CASE item' = w /\ rows' = table /\ Spawn(TRUE, FALSE)
  BY <1>2, SpawnType DEF TypeOK
<1>3. CASE /\ item' = Reconciled(w) /\ UNCHANGED drv
           /\ rows' \in {table, IF table[w.id].live = "absent" THEN table
                                ELSE [table EXCEPT ![w.id].st = "Error",
                                                   ![w.id].of = w.id]}
  <2>1. item' \in Item /\ item'.id = w.id
    BY <1>3, RestoreItem
  <2>2. ASSUME NEW q \in Row
        PROVE  [q EXCEPT !.st = "Error", !.of = w.id] \in Row
    BY <1>0 DEF Row, St
  <2>3. /\ rows' \in [Runs -> Row]
        /\ \A i \in Runs : /\ rows'[i].live = table[i].live
                           /\ rows'[i].of \in {table[i].of, i}
    <3>1. CASE rows' = table
      BY <3>1
    <3>2. CASE rows' = [table EXCEPT ![w.id] = [table[w.id] EXCEPT !.st = "Error",
                                                                  !.of = w.id]]
      <4>1. [table[w.id] EXCEPT !.st = "Error", !.of = w.id] \in Row
        BY <1>0, <2>2
      <4>2. /\ [table[w.id] EXCEPT !.st = "Error", !.of = w.id].live = table[w.id].live
            /\ [table[w.id] EXCEPT !.st = "Error", !.of = w.id].of = w.id
        BY <1>0 DEF Row
      <4>. QED  BY <1>0, <3>2, <4>1, <4>2
    <3>. QED  BY <1>3, <3>1, <3>2
  <2>. QED  BY <1>3, <2>1, <2>3 DEF TypeOK
<1>. QED  BY <1>1, <1>2, <1>3 DEF Respawn

LEMMA RestoreType ==
    ASSUME TypeOK, Restore
    PROVE  TypeOK'
<1>1. CASE Live # {} /\ Respawn(FromRow(Newest), rows)
  <2>1. FromRow(Newest) \in Item /\ FromRow(Newest).id # 0
    BY <1>1, RestoreItem, Shapes DEF Live, Runs
  <2>. QED  BY <1>1, <2>1, RespawnType DEF Restore, TypeOK
<1>2. CASE item' = NoItem /\ UNCHANGED <<rows, drv>>
  BY <1>2, Shapes DEF Restore, TypeOK
<1>3. CASE snap.id # 0 /\ \E table \in {rows, Backfilled(snap)} : Respawn(snap, table)
  <2>1. snap \in Item /\ Backfilled(snap) \in [Runs -> Row] /\ rows \in [Runs -> Row]
    BY <1>3, RestoreItem DEF TypeOK
  <2>. QED  BY <1>3, <2>1, RespawnType DEF Restore, TypeOK
<1>. QED  BY <1>1, <1>2, <1>3 DEF Restore

LEMMA NextType ==
    ASSUME TypeOK, [Next]_vars
    PROVE  TypeOK'
<1>1. CASE \E r \in Requests : Operation(r) /\ UNCHANGED up
  BY <1>1, OperationType
<1>2. CASE \E d \in Drivers : Drive(d) /\ UNCHANGED up
  BY <1>2, DriveType
<1>3. CASE Sync
  BY <1>3, Shapes DEF Sync, Event, TypeOK
<1>4. CASE Interrupt
  <2>1. /\ Cancelled(req) \in [Requests -> Request]
        /\ Cancelled(drv) \in [Drivers -> Driver]
    BY TokensOfRequests, TokensOfDrivers DEF TypeOK
  <2>2. events' \in 0..MaxEvents
    BY <1>4, Shapes DEF Interrupt, Event, TypeOK
  <2>3. CASE OnBoard
    BY <1>4, <2>1, <2>2, <2>3 DEF Interrupt, TypeOK
  <2>4. CASE ~OnBoard
    BY <1>4, <2>2, <2>4 DEF Interrupt, TypeOK
  <2>. QED  BY <2>3, <2>4
<1>5. CASE Exit
  <2>1. events' \in 0..MaxEvents
    BY <1>5, Shapes DEF Exit, Event, TypeOK
  <2>. QED  BY <1>5, <2>1, Shapes DEF Exit, TypeOK
<1>6. CASE Restore
  BY <1>6, RestoreType
<1>7. CASE UNCHANGED vars
  BY <1>7 DEF vars, TypeOK
<1>. QED  BY <1>1, <1>2, <1>3, <1>4, <1>5, <1>6, <1>7 DEF Next

LEMMA InitType ==
    Init => TypeOK
<1> SUFFICES ASSUME Init PROVE TypeOK
  OBVIOUS
<1>1. snap \in Item /\ nextId \in 1..(MaxRuns + 1) /\ events \in 0..MaxEvents
  <2>1. CASE snap = NoItem /\ nextId = 1 /\ events = 0
    BY <2>1, Shapes
  <2>2. CASE snap = Legacy /\ nextId = 2 /\ events = 1
    <3>1. Legacy \in Item
      BY PersistenceAssumption DEF Legacy, Item, St, Def, Runs
    <3>. QED  BY <2>2, <3>1, PersistenceAssumption
  <2>. QED  BY <2>1, <2>2 DEF Init
<1>. QED  BY <1>1, Shapes DEF Init, TypeOK

(* Every variable keeps its shape, for any number of runs, requests,       *)
(* drivers and events.                                                     *)
THEOREM TypeInvariant ==
    Spec => []TypeOK
  BY InitType, NextType, PTL DEF Spec
-----------------------------------------------------------------------------
(* The inductive invariant.                                                *)

(* Ids are handed out in order, and each at most once.                     *)
Issued ==
    /\ item.id < nextId /\ snap.id < nextId
    /\ \A i \in Runs : i >= nextId => rows[i].live = "absent"
    /\ \A r \in Requests : req[r].id < nextId

(* A run on its way into the map has its row, and nobody else enters or    *)
(* removes it.                                                             *)
Entering ==
    \A r \in Requests : req[r].pc = "map" =>
        /\ req[r].id # 0 /\ rows[req[r].id].live = "live"
        /\ item.id # req[r].id
        /\ \A s \in Requests \ {r} : req[s].pc \in {"map", "remove", "soft"} =>
                req[s].id # req[r].id

(* A run whose row is about to be deleted has left the map.                *)
Leaving ==
    \A r \in Requests :
        /\ req[r].pc \in {"remove", "soft"} => req[r].id # 0
        /\ req[r].pc = "soft" => item.id # req[r].id

(* Nothing of the process survives it.                                     *)
Resting ==
    up = "down" => /\ item.id = 0
                   /\ \A r \in Requests : req[r].pc = "idle"

(* A write on its way is addressed to the run whose state it carries.      *)
Addressed ==
    /\ \A r \in Requests : req[r].pc = "statew" => req[r].of = req[r].id
    /\ \A d \in Drivers : drv[d].pc = "write" => drv[d].of = drv[d].id

IInv ==
    /\ TypeOK /\ Issued /\ Entering /\ Leaving /\ Resting /\ Addressed
    /\ Recoverable /\ StatesAreTheRunsOwn

(* What most requests have in common: they change neither the set of live  *)
(* rows nor which run is on the board, but for taking it off.              *)
Kept(s) == /\ req'[s].pc = req[s].pc /\ req'[s].id = req[s].id
           /\ req'[s].of = req[s].of

Quiet(r) ==
    /\ nextId' = nextId
    /\ \A i \in Runs : rows'[i].live = rows[i].live /\ rows'[i].of \in {rows[i].of, i}
    /\ item'.id \in {item.id, 0}
    /\ snap' = snap \/ (snap' = item /\ item' = item)
    /\ \A s \in Requests \ {r} : Kept(s)
    /\ req'[r].pc \notin {"map", "soft"}
    /\ req'[r].id \in {0, item.id, req[r].id}
    /\ req'[r].pc = "remove" => req'[r].id = item.id /\ item.id # 0
    /\ req'[r].pc = "statew" => req'[r].of = req'[r].id
    /\ \A d \in Drivers : drv'[d].pc = "write" =>
            drv[d].pc = "write" /\ drv'[d].id = drv[d].id /\ drv'[d].of = drv[d].of

LEMMA Numbers ==
    ASSUME TypeOK
    PROVE  /\ nextId \in Nat /\ nextId >= 1 /\ item.id \in Int /\ snap.id \in Int
           /\ item.id \in Runs \cup {0}
           /\ \A r \in Requests : req[r].id \in Int /\ req[r].id \in Runs \cup {0}
<1>1. Runs \subseteq Int /\ nextId \in Nat /\ nextId >= 1
  BY Shapes DEF TypeOK, Runs
<1>2. item.id \in Runs \cup {0} /\ snap.id \in Runs \cup {0}
  BY DEF TypeOK, Item
<1>3. \A r \in Requests : req[r].id \in Runs \cup {0}
  BY DEF TypeOK, Request
<1>4. \A i \in Runs \cup {0} : i \in Int
  BY <1>1
<1>. QED  BY <1>1, <1>2, <1>3, <1>4, Zenon

LEMMA QuietKeeps ==
    ASSUME IInv, NEW r \in Requests, Quiet(r), TypeOK', up' = up, up # "down"
    PROVE  IInv'
<1> USE DEF IInv
<1>0. /\ nextId \in Nat /\ nextId >= 1 /\ item.id \in Int /\ snap.id \in Int
      /\ item.id \in Runs \cup {0} /\ \A s \in Requests : req[s].id \in Int
  BY Numbers
<1>1. Issued'
  <2>1. item'.id < nextId' /\ snap'.id < nextId'
    BY <1>0 DEF Quiet, Issued
  <2>2. \A i \in Runs : i >= nextId' => rows'[i].live = "absent"
    BY DEF Quiet, Issued
  <2>3. ASSUME NEW s \in Requests PROVE req'[s].id < nextId'
    <3>1. CASE s = r
      BY <1>0, <3>1 DEF Quiet, Issued
    <3>2. CASE s # r
      BY <1>0, <3>2 DEF Quiet, Issued, Kept
    <3>. QED  BY <3>1, <3>2
  <2>. QED  BY <2>1, <2>2, <2>3 DEF Issued
<1>2. Entering'
  <2> SUFFICES ASSUME NEW s \in Requests, req'[s].pc = "map"
               PROVE  /\ req'[s].id # 0 /\ rows'[req'[s].id].live = "live"
                      /\ item'.id # req'[s].id
                      /\ \A t \in Requests \ {s} :
                            req'[t].pc \in {"map", "remove", "soft"} =>
                                req'[t].id # req'[s].id
    BY DEF Entering
  <2>1. s # r /\ req'[s].id = req[s].id /\ req[s].pc = "map"
    BY DEF Quiet, Kept
  <2>2. req[s].id \in Runs
    BY <2>1 DEF Entering, TypeOK, Request
  <2>. QED  BY <2>1, <2>2 DEF Entering, Quiet, Kept
<1>3. Leaving'
  BY DEF Leaving, Quiet, Kept
<1>4. Addressed'
  <2>1. ASSUME NEW s \in Requests, req'[s].pc = "statew"
        PROVE  req'[s].of = req'[s].id
    BY <2>1 DEF Addressed, Quiet, Kept
  <2>2. ASSUME NEW d \in Drivers, drv'[d].pc = "write"
        PROVE  drv'[d].of = drv'[d].id
    BY <2>2 DEF Addressed, Quiet
  <2>. QED  BY <2>1, <2>2 DEF Addressed
<1>5. Recoverable' /\ StatesAreTheRunsOwn' /\ Resting'
  BY <1>0 DEF Recoverable, StatesAreTheRunsOwn, Resting, Quiet, OnBoard, TypeOK, Item
<1>. QED  BY <1>1, <1>2, <1>3, <1>4, <1>5

(* The statements leave the set of live rows alone.                        *)
LEMMA TableKept ==
    ASSUME TypeOK, NEW i \in Runs \cup {0}, NEW s \in St, NEW f \in Def
    PROVE  /\ \A j \in Runs : /\ WithState(i, s, i)[j].live = rows[j].live
                              /\ WithState(i, s, i)[j].of \in {rows[j].of, j}
                              /\ WithDef(i, f)[j].live = rows[j].live
                              /\ WithDef(i, f)[j].of = rows[j].of
                              /\ WithFinished(i, f)[j].live = rows[j].live
                              /\ WithFinished(i, f)[j].of = rows[j].of
  BY DEF WithState, WithDef, WithFinished, TypeOK, Row

Silent(r) == AddCheck(r) \/ AddRowFails(r) \/ RetryCheck(r) \/ RetryRemove(r)
             \/ StartCheck(r) \/ StartSet(r) \/ StartWrite(r) \/ RetryDef(r)
             \/ Pause(r) \/ Resume(r) \/ Stop(r) \/ ResumeFromError(r)
             \/ StateWrite(r) \/ DeleteCheck(r) \/ MarkDoneCheck(r)
             \/ DeleteSync(r)

LEMMA SilentIsQuiet ==
    ASSUME IInv, NEW r \in Requests, Silent(r)
    PROVE  Quiet(r)
<1> USE DEF IInv, TypeOK
<1>0. /\ req[r] \in Request /\ req[r].pc \in PCs
      /\ req[r].id \in Runs \cup {0} /\ req[r].of \in Runs \cup {0}
      /\ req[r].st \in St /\ req[r].then \in Follows /\ item.id \in Runs \cup {0}
      /\ req[r].att \in BOOLEAN /\ req[r].cx \in BOOLEAN
  BY RequestFields DEF Item
<1> DEFINE Rest == /\ nextId' = nextId
                   /\ \A i \in Runs : /\ rows'[i].live = rows[i].live
                                      /\ rows'[i].of \in {rows[i].of, i}
                   /\ item'.id \in {item.id, 0}
                   /\ snap' = snap \/ (snap' = item /\ item' = item)
                   /\ \A d \in Drivers : drv'[d].pc = "write" =>
                        /\ drv[d].pc = "write" /\ drv'[d].id = drv[d].id
                        /\ drv'[d].of = drv[d].of
           Mine(q) == /\ q.pc \notin {"map", "soft"}
                      /\ q.id \in {0, item.id, req[r].id}
                      /\ q.pc = "remove" => q.id = item.id /\ item.id # 0
                      /\ q.pc = "statew" => q.of = q.id
<1>a. ASSUME NEW f \in [Requests -> Request], SameReq(req, f), NEW q, Mine(q),
             req' = [f EXCEPT ![r] = q], Rest
      PROVE  Quiet(r)
  <2>1. req'[r] = q /\ \A s \in Requests \ {r} : Kept(s)
    BY <1>a DEF SameReq, Kept
  <2>. QED  BY <1>a, <2>1 DEF Quiet
<1>b. SameReq(req, req) /\ req \in [Requests -> Request]
  BY DEF SameReq
<1>c. Mine(Idle)
  BY DEF Idle
<1>d. \A i \in {0, item.id, req[r].id}, pc \in {"retry", "begin", "start", "startw",
            "sync"} : Mine(Then(pc, i))
  BY <1>0, Shapes
<1>e. \A i \in {0}, then \in Follows : Mine([Then("insert", i) EXCEPT !.then = then])
  BY ThenFollows
<1>f. Detached(req) \in [Requests -> Request] /\ SameReq(req, Detached(req))
  BY TokensOfRequests
<1>g. /\ Cancelled(req) \in [Requests -> Request] /\ SameReq(req, Cancelled(req))
  BY TokensOfRequests
<1>h. /\ Detached(Cancelled(req)) \in [Requests -> Request]
      /\ SameReq(req, Detached(Cancelled(req)))
  <2>1. /\ Detached(Cancelled(req)) \in [Requests -> Request]
        /\ SameReq(Cancelled(req), Detached(Cancelled(req)))
    BY <1>g, TokensOfRequests
  <2>. QED  BY <1>g, <2>1 DEF SameReq
<1> DEFINE SameDrv(f) == \A d \in Drivers : /\ f[d].pc = drv[d].pc
                                            /\ f[d].id = drv[d].id /\ f[d].of = drv[d].of
<1>i. /\ SameDrv(Detached(drv)) /\ SameDrv(Cancelled(drv))
      /\ SameDrv(Detached(Cancelled(drv)))
  BY TokensOfDrivers
<1>n. drv' = drv => SameDrv(drv')
  OBVIOUS
<1>j. ASSUME nextId' = nextId, rows' = rows, snap' = snap,
             item'.id \in {item.id, 0}, SameDrv(drv')
      PROVE  Rest
  <2>1. \A d \in Drivers : drv'[d].pc = "write" =>
            drv[d].pc = "write" /\ drv'[d].id = drv[d].id /\ drv'[d].of = drv[d].of
    BY <1>j, Zenon
  <2>2. \A i \in Runs : rows'[i].live = rows[i].live /\ rows'[i].of \in {rows[i].of, i}
    BY <1>j
  <2>. QED  BY <1>j, <2>1, <2>2, Zenon
<1> HIDE DEF SameDrv
<1>k. NoItem.id = 0
  BY DEF NoItem
<1>1. CASE AddCheck(r)
  <2>1. Rest
    BY <1>1 DEF AddCheck
  <2>2. PICK then \in {"", "begin"} :
            req' = [req EXCEPT ![r] = [Then("insert", 0) EXCEPT !.then = then]]
    BY <1>1 DEF AddCheck, Set
  <2>3. Mine([Then("insert", 0) EXCEPT !.then = then])
    BY <1>e DEF Follows
  <2> HIDE DEF Mine, Rest
  <2>. QED  BY <1>a, <1>b, <2>1, <2>2, <2>3
<1>2. CASE AddRowFails(r)
  <2>1. Rest
    BY <1>2 DEF AddRowFails
  <2> HIDE DEF Mine, Rest
  <2>. QED  BY <1>2, <1>a, <1>b, <1>c, <2>1 DEF AddRowFails, Reply
<1>3. CASE RetryCheck(r)
  <2>1. Rest
    BY <1>3 DEF RetryCheck
  <2> HIDE DEF Mine, Rest
  <2>. QED  BY <1>3, <1>a, <1>b, <1>d, <2>1 DEF RetryCheck, Set
<1>4. CASE RetryRemove(r)
  <2>1. Rest
    <3>1. SameDrv(drv')
      BY <1>4, <1>i DEF RetryRemove
    <3>2. nextId' = nextId /\ rows' = rows /\ snap' = snap /\ item'.id = 0
      BY <1>4, <1>k DEF RetryRemove
    <3> HIDE DEF Rest
    <3>. QED  BY <1>j, <3>1, <3>2
  <2>2. Mine([Then("insert", 0) EXCEPT !.then = "begin"])
    BY <1>e DEF Follows
  <2> HIDE DEF Mine, Rest
  <2>. QED  BY <1>4, <1>a, <1>f, <2>1, <2>2 DEF RetryRemove
<1>5. CASE StartCheck(r)
  <2>1. Rest
    BY <1>5 DEF StartCheck
  <2> HIDE DEF Mine, Rest
  <2>. QED  BY <1>5, <1>a, <1>b, <1>c, <1>d, <2>1 DEF StartCheck, Set, Reply
<1>6. CASE StartSet(r)
  <2>1. CASE OnBoard
    <3>1. item'.id = item.id
      BY <1>6, <2>1 DEF StartSet, Item
    <3>2. Rest
      <4>1. SameDrv(drv')
        BY <1>6, <2>1, <1>i DEF StartSet
      <4>2. nextId' = nextId /\ rows' = rows /\ snap' = snap
        BY <1>6, Zenon DEF StartSet
      <4> HIDE DEF Rest
      <4>. QED  BY <1>j, <3>1, <4>1, <4>2
    <3>3. Mine([Then("startw", req[r].id) EXCEPT !.att = TRUE])
      BY DEF Then, Idle
    <3> HIDE DEF Mine, Rest
    <3>. QED  BY <1>6, <2>1, <1>a, <1>f, <3>2, <3>3 DEF StartSet
  <2>2. CASE ~OnBoard
    <3>1. Rest
      BY <1>6, <2>2 DEF StartSet
    <3> HIDE DEF Mine, Rest
    <3>. QED  BY <1>6, <2>2, <1>a, <1>b, <1>c, <3>1 DEF StartSet, Reply
  <2>. QED  BY <2>1, <2>2
<1>7. CASE StartWrite(r)
  <2>1. \A i \in Runs : rows'[i].live = rows[i].live /\ rows'[i].of \in {rows[i].of, i}
    <3>1. \A i \in Runs : /\ WithDef(req[r].id, "Running")[i].live = rows[i].live
                         /\ WithDef(req[r].id, "Running")[i].of = rows[i].of
      BY <1>0, TableKept DEF St, Def
    <3>. QED  BY <1>7, <3>1 DEF StartWrite, Written
  <2>2. Rest
    BY <1>7, <1>0, <2>1, SpawnType DEF StartWrite
  <2> HIDE DEF Mine, Rest
  <2>. QED  BY <1>7, <1>a, <1>b, <1>c, <2>2 DEF StartWrite, Reply
<1>8. CASE RetryDef(r)
  <2>1. item'.id = item.id
    BY <1>8 DEF RetryDef, Item
  <2>2. Rest
    <3>1. SameDrv(drv')
      BY <1>8, <1>n DEF RetryDef
    <3>2. nextId' = nextId /\ rows' = rows /\ snap' = snap
      BY <1>8, Zenon DEF RetryDef
    <3> HIDE DEF Rest
    <3>. QED  BY <1>j, <2>1, <3>1, <3>2
  <2> HIDE DEF Mine, Rest
  <2>. QED  BY <1>8, <1>a, <1>b, <1>d, <2>2 DEF RetryDef, Set
<1>l. ASSUME NEW s \in St, NEW then \in Follows
      PROVE  Mine(Writing(s, then))
  BY <1>0, WritingType
<1>9. CASE Pause(r)
  <2>1. item'.id = item.id
    BY <1>9 DEF Pause, Item
  <2>2. Rest
    <3>1. SameDrv(drv')
      BY <1>9, <1>i DEF Pause
    <3>2. nextId' = nextId /\ rows' = rows /\ snap' = snap
      BY <1>9, Zenon DEF Pause
    <3> HIDE DEF Rest
    <3>. QED  BY <1>j, <2>1, <3>1, <3>2
  <2>3. PICK s \in St : req' = [Detached(Cancelled(req)) EXCEPT ![r] = Writing(s, "")]
    BY <1>9 DEF Pause, St
  <2>4. Mine(Writing(s, ""))
    BY <1>l DEF Follows
  <2> HIDE DEF Mine, Rest
  <2>. QED  BY <1>a, <1>h, <2>2, <2>3, <2>4
<1>10. CASE Resume(r)
  <2>1. item'.id = item.id
    BY <1>10 DEF Resume, Item
  <2>2. Rest
    <3>1. SameDrv(drv')
      BY <1>10, <1>n DEF Resume
    <3>2. nextId' = nextId /\ rows' = rows /\ snap' = snap
      BY <1>10, Zenon DEF Resume
    <3> HIDE DEF Rest
    <3>. QED  BY <1>j, <2>1, <3>1, <3>2
  <2>3. PICK s \in St, then \in Follows :
            req' = [req EXCEPT ![r] = [Writing(s, then) EXCEPT !.att = TRUE, !.cx = tok]]
    BY <1>10 DEF Resume, St, Set, Follows
  <2>4. Mine([Writing(s, then) EXCEPT !.att = TRUE, !.cx = tok])
    BY <1>0 DEF Writing, Then, Idle
  <2> HIDE DEF Mine, Rest
  <2>. QED  BY <1>a, <1>b, <2>2, <2>3, <2>4
<1>11. CASE Stop(r)
  <2>1. item'.id = item.id
    BY <1>11 DEF Stop, Item
  <2>2. Rest
    <3>1. SameDrv(drv')
      BY <1>11, <1>i DEF Stop
    <3>2. nextId' = nextId /\ rows' = rows /\ snap' = snap
      BY <1>11, Zenon DEF Stop
    <3> HIDE DEF Rest
    <3>. QED  BY <1>j, <2>1, <3>1, <3>2
  <2>3. Mine(Writing("Stopped", ""))
    BY <1>l DEF St, Follows
  <2> HIDE DEF Mine, Rest
  <2>. QED  BY <1>11, <1>a, <1>g, <2>2, <2>3 DEF Stop
<1>12. CASE ResumeFromError(r)
  <2>1. item'.id = item.id
    BY <1>12 DEF ResumeFromError, Item
  <2>2. Rest
    <3>1. SameDrv(drv')
      BY <1>12, <1>n DEF ResumeFromError
    <3>2. nextId' = nextId /\ rows' = rows /\ snap' = snap
      BY <1>12, Zenon DEF ResumeFromError
    <3> HIDE DEF Rest
    <3>. QED  BY <1>j, <2>1, <3>1, <3>2
  <2>3. Mine(Writing("Pending", "begin"))
    BY <1>l DEF St, Follows
  <2> HIDE DEF Mine, Rest
  <2>. QED  BY <1>12, <1>a, <1>b, <2>2, <2>3 DEF ResumeFromError, Set
<1>13. CASE StateWrite(r)
  <2>1. req[r].of = req[r].id
    BY <1>13 DEF StateWrite, Addressed
  <2>2. \A i \in Runs : rows'[i].live = rows[i].live /\ rows'[i].of \in {rows[i].of, i}
    <3>1. \A i \in Runs :
            /\ WithState(req[r].id, req[r].st, req[r].of)[i].live = rows[i].live
            /\ WithState(req[r].id, req[r].st, req[r].of)[i].of \in {rows[i].of, i}
      BY <1>0, <2>1, TableKept DEF Def
    <3>. QED  BY <1>13, <3>1 DEF StateWrite, Written
  <2>3. Rest
    BY <1>13, <1>0, <2>2, SpawnType DEF StateWrite
  <2> HIDE DEF Mine, Rest
  <2>4. CASE Reply(r)
    BY <2>4, <1>a, <1>b, <1>c, <2>3 DEF Reply
  <2>5. CASE Set(r, Then("begin", 0))
    BY <2>5, <1>a, <1>b, <1>d, <2>3 DEF Set
  <2>. QED  BY <1>13, <2>4, <2>5 DEF StateWrite
<1>14. CASE DeleteCheck(r)
  <2>1. Rest
    BY <1>14, <1>i, <1>j DEF DeleteCheck
  <2>2. Mine([Then("remove", item.id) EXCEPT !.then = "sync"])
    BY <1>0, <1>14, ThenFollows DEF DeleteCheck, OnBoard, Follows
  <2> HIDE DEF Mine, Rest
  <2>. QED  BY <1>14, <1>a, <1>g, <2>1, <2>2 DEF DeleteCheck
<1>15. CASE MarkDoneCheck(r)
  <2>1. Rest
    BY <1>15 DEF MarkDoneCheck
  <2>2. Mine(Then("remove", item.id))
    BY <1>0, <1>15, Shapes DEF MarkDoneCheck, OnBoard
  <2> HIDE DEF Mine, Rest
  <2>. QED  BY <1>15, <1>a, <1>b, <2>1, <2>2 DEF MarkDoneCheck, Set
<1>16. CASE DeleteSync(r)
  <2>1. Rest
    BY <1>16 DEF DeleteSync
  <2> HIDE DEF Mine, Rest
  <2>. QED  BY <1>16, <1>a, <1>b, <1>c, <2>1 DEF DeleteSync, Reply
<1>. QED
  BY <1>1, <1>2, <1>3, <1>4, <1>5, <1>6, <1>7, <1>8, <1>9, <1>10, <1>11, <1>12,
     <1>13, <1>14, <1>15, <1>16 DEF Silent

(* The row of a new run.                                                   *)
LEMMA AddRowKeeps ==
    ASSUME IInv, NEW r \in Requests, AddRow(r), UNCHANGED up, up # "down", TypeOK'
    PROVE  IInv'
<1> USE DEF IInv
<1>0. /\ nextId \in Nat /\ nextId >= 1 /\ nextId \in Runs /\ item.id \in Int
      /\ snap.id \in Int /\ item.id \in Runs \cup {0}
      /\ \A s \in Requests : req[s].id \in Int /\ req[s].id \in Runs \cup {0}
  BY Numbers DEF AddRow
<1>1. /\ item' = item /\ snap' = snap /\ drv' = drv /\ nextId' = nextId + 1
      /\ \A s \in Requests \ {r} : Kept(s)
      /\ req'[r].pc = "map" /\ req'[r].id = nextId
  <2>1. req' = [req EXCEPT ![r] = [req[r] EXCEPT !.pc = "map", !.id = nextId]]
    BY DEF AddRow
  <2>2. /\ [req[r] EXCEPT !.pc = "map", !.id = nextId].pc = "map"
        /\ [req[r] EXCEPT !.pc = "map", !.id = nextId].id = nextId
    BY DEF TypeOK, Request
  <2>3. req'[r].pc = "map" /\ req'[r].id = nextId
    BY <2>1, <2>2 DEF TypeOK
  <2>4. \A s \in Requests \ {r} : Kept(s)
    BY <2>1 DEF TypeOK, Kept
  <2>. QED  BY <2>3, <2>4 DEF AddRow
<1>2. /\ rows'[nextId].live = "live" /\ rows'[nextId].of = nextId
      /\ \A i \in Runs \ {nextId} : rows'[i] = rows[i]
  BY <1>0 DEF AddRow, TypeOK, NoRow
<1>3. Runs \subseteq Int
  BY Shapes DEF Runs
<1>4. Issued'
  <2>1. ASSUME NEW i \in Runs, i >= nextId + 1
        PROVE  rows'[i].live = "absent"
    BY <1>0, <1>2, <1>3, <2>1 DEF Issued
  <2>2. ASSUME NEW s \in Requests
        PROVE  req'[s].id < nextId + 1
    <3>1. CASE s = r
      BY <3>1, <1>0, <1>1
    <3>2. CASE s # r
      BY <3>2, <1>0, <1>1 DEF Kept, Issued
    <3>. QED  BY <3>1, <3>2
  <2>3. item'.id < nextId + 1 /\ snap'.id < nextId + 1
    BY <1>0, <1>1 DEF Issued
  <2>. QED  BY <1>1, <2>1, <2>2, <2>3 DEF Issued
<1>5. Entering'
  <2> SUFFICES ASSUME NEW s \in Requests, req'[s].pc = "map"
               PROVE  /\ req'[s].id # 0 /\ rows'[req'[s].id].live = "live"
                      /\ item'.id # req'[s].id
                      /\ \A t \in Requests \ {s} :
                            req'[t].pc \in {"map", "remove", "soft"} =>
                                req'[t].id # req'[s].id
    BY DEF Entering
  <2>1. CASE s = r
    BY <2>1, <1>0, <1>1, <1>2 DEF Issued, Kept
  <2>2. CASE s # r
    <3>1. req'[s].id = req[s].id /\ req[s].pc = "map" /\ req[s].id < nextId
          /\ req[s].id \in Runs
      BY <2>2, <1>0, <1>1 DEF Kept, Issued, Entering
    <3>2. rows'[req[s].id].live = "live"
      BY <1>0, <1>2, <3>1 DEF Entering
    <3>3. ASSUME NEW t \in Requests \ {s}, req'[t].pc \in {"map", "remove", "soft"}
          PROVE  req'[t].id # req'[s].id
      <4>1. CASE t = r
        BY <4>1, <1>0, <1>1, <3>1
      <4>2. CASE t # r
        BY <4>2, <1>1, <3>1, <3>3 DEF Kept, Entering
      <4>. QED  BY <4>1, <4>2
    <3>. QED  BY <1>1, <3>1, <3>2, <3>3 DEF Entering
  <2>. QED  BY <2>1, <2>2
<1>6. Leaving'
  BY <1>1 DEF Leaving, Kept
<1>7. Addressed'
  <2>1. ASSUME NEW s \in Requests, req'[s].pc = "statew"
        PROVE  req'[s].of = req'[s].id
    BY <2>1, <1>1 DEF Addressed, Kept
  <2>. QED  BY <2>1, <1>1 DEF Addressed
<1>8. Recoverable'
  <2>1. item.id # 0 => item.id \in Runs \ {nextId}
    BY <1>0 DEF Issued
  <2>. QED  BY <1>1, <1>2, <2>1 DEF Recoverable, OnBoard
<1>9. StatesAreTheRunsOwn' /\ Resting'
  BY <1>0, <1>2 DEF StatesAreTheRunsOwn, Resting
<1>. QED  BY <1>4, <1>5, <1>6, <1>7, <1>8, <1>9

(* What enters the map.                                                    *)
LEMMA AddMapKeeps ==
    ASSUME IInv, NEW r \in Requests, AddMap(r), UNCHANGED up, up # "down", TypeOK'
    PROVE  IInv'
<1> USE DEF IInv
<1>0. /\ nextId \in Nat /\ nextId >= 1
      /\ \A s \in Requests : req[s].id \in Int /\ req[s].id \in Runs \cup {0}
  BY Numbers
<1>1. /\ item'.id = req[r].id /\ snap' = snap /\ rows' = rows /\ nextId' = nextId
      /\ req[r].pc = "map"
  BY <1>0, Shapes DEF AddMap
<1>2. /\ \A s \in Requests \ {r} : Kept(s)
      /\ req'[r].pc \in {"begin", "idle"} /\ req'[r].id = 0
  <2>1. Detached(req) \in [Requests -> Request] /\ SameReq(req, Detached(req))
    BY TokensOfRequests DEF TypeOK
  <2>2. DOMAIN req = Requests
    BY DEF TypeOK
  <2> DEFINE q == IF req[r].then = "begin" THEN Then("begin", 0) ELSE Idle
  <2>3. req' = [Detached(req) EXCEPT ![r] = q]
    BY DEF AddMap
  <2>4. q.pc \in {"begin", "idle"} /\ q.id = 0
    <3>1. Then("begin", 0).pc = "begin" /\ Then("begin", 0).id = 0
      BY DEF Then, Idle
    <3>2. Idle.pc = "idle" /\ Idle.id = 0
      BY DEF Idle
    <3>. QED  BY <3>1, <3>2
  <2> HIDE DEF q
  <2>. QED  BY <2>1, <2>2, <2>3, <2>4 DEF SameReq, Kept
<1>3. \A d \in Drivers : drv'[d].pc = drv[d].pc /\ drv'[d].id = drv[d].id
                         /\ drv'[d].of = drv[d].of
  BY TokensOfDrivers DEF AddMap, TypeOK
<1>4. Issued'
  <2>1. ASSUME NEW s \in Requests
        PROVE  req'[s].id < nextId
    <3>1. CASE s = r
      BY <3>1, <1>0, <1>2
    <3>2. CASE s # r
      BY <3>2, <1>2 DEF Kept, Issued
    <3>. QED  BY <3>1, <3>2
  <2>. QED  BY <2>1, <1>1 DEF Issued
<1>5. Entering'
  <2> SUFFICES ASSUME NEW s \in Requests, req'[s].pc = "map"
               PROVE  /\ req'[s].id # 0 /\ rows'[req'[s].id].live = "live"
                      /\ item'.id # req'[s].id
                      /\ \A t \in Requests \ {s} :
                            req'[t].pc \in {"map", "remove", "soft"} =>
                                req'[t].id # req'[s].id
    BY DEF Entering
  <2>1. s # r /\ req'[s].id = req[s].id /\ req[s].pc = "map"
    BY <1>2 DEF Kept
  <2>2. ASSUME NEW t \in Requests \ {s}, req'[t].pc \in {"map", "remove", "soft"}
        PROVE  req'[t].id # req'[s].id
    <3>1. t # r /\ req'[t].id = req[t].id /\ req'[t].pc = req[t].pc
      BY <1>2, <2>2 DEF Kept
    <3>. QED  BY <2>1, <2>2, <3>1 DEF Entering
  <2>. QED  BY <1>1, <2>1, <2>2 DEF Entering
<1>6. Leaving'
  <2>1. ASSUME NEW s \in Requests
        PROVE  /\ req'[s].pc \in {"remove", "soft"} => req'[s].id # 0
               /\ req'[s].pc = "soft" => item'.id # req'[s].id
    <3>1. CASE s = r
      BY <3>1, <1>2
    <3>2. CASE s # r
      BY <3>2, <1>1, <1>2 DEF Leaving, Kept, Entering
    <3>. QED  BY <3>1, <3>2
  <2>. QED  BY <2>1 DEF Leaving
<1>7. Addressed'
  <2>1. ASSUME NEW s \in Requests, req'[s].pc = "statew"
        PROVE  req'[s].of = req'[s].id
    BY <2>1, <1>2 DEF Addressed, Kept
  <2>. QED  BY <2>1, <1>3 DEF Addressed
<1>8. Recoverable' /\ StatesAreTheRunsOwn' /\ Resting'
  BY <1>1 DEF Recoverable, StatesAreTheRunsOwn, Resting, Entering
<1>. QED  BY <1>4, <1>5, <1>6, <1>7, <1>8

(* What leaves the map.                                                    *)
LEMMA RemoveKeeps ==
    ASSUME IInv, NEW r \in Requests, Remove(r), UNCHANGED up, up # "down", TypeOK'
    PROVE  IInv'
<1> USE DEF IInv
<1>0. /\ nextId \in Nat /\ nextId >= 1
      /\ \A s \in Requests : req[s].id \in Int
  BY Numbers
<1>1. CASE /\ item' = NoItem /\ drv' = Detached(drv)
           /\ req' = [Detached(req) EXCEPT ![r].pc = "soft"]
  <2>1. \A s \in Requests \ {r} : Kept(s)
    <3>1. Detached(req) \in [Requests -> Request] /\ SameReq(req, Detached(req))
      BY TokensOfRequests DEF TypeOK
    <3>2. DOMAIN req = Requests
      BY DEF TypeOK
    <3>. QED  BY <1>1, <3>1, <3>2 DEF SameReq, Kept
  <2>2. req'[r].pc = "soft" /\ req'[r].id = req[r].id /\ req[r].pc = "remove"
        /\ req[r].id # 0
    <3>1. Detached(req) \in [Requests -> Request] /\ SameReq(req, Detached(req))
      BY TokensOfRequests DEF TypeOK
    <3>2. DOMAIN req = Requests
      BY DEF TypeOK
    <3>3. req'[r] = [Detached(req)[r] EXCEPT !.pc = "soft"]
      BY <1>1, <3>1
    <3>4. ASSUME NEW q \in Request
          PROVE  [q EXCEPT !.pc = "soft"].pc = "soft" /\ [q EXCEPT !.pc = "soft"].id = q.id
      BY DEF Request
    <3>5. Detached(req)[r] \in Request /\ Detached(req)[r].id = req[r].id
      BY <3>1, <3>2 DEF SameReq
    <3>. QED  BY <3>3, <3>4, <3>5 DEF Remove, Leaving
  <2>3. item'.id = 0 /\ snap' = snap /\ rows' = rows /\ nextId' = nextId
    BY <1>1 DEF Remove, NoItem
  <2>4. \A d \in Drivers : drv'[d].pc = drv[d].pc /\ drv'[d].id = drv[d].id
                           /\ drv'[d].of = drv[d].of
    BY <1>1, TokensOfDrivers DEF TypeOK
  <2>5. Issued'
    <3>1. ASSUME NEW s \in Requests
          PROVE  req'[s].id < nextId
      BY <2>1, <2>2 DEF Kept, Issued
    <3>. QED  BY <1>0, <3>1, <2>3 DEF Issued
  <2>6. Entering'
    <3> SUFFICES ASSUME NEW s \in Requests, req'[s].pc = "map"
                 PROVE  /\ req'[s].id # 0 /\ rows'[req'[s].id].live = "live"
                        /\ item'.id # req'[s].id
                        /\ \A t \in Requests \ {s} :
                              req'[t].pc \in {"map", "remove", "soft"} =>
                                  req'[t].id # req'[s].id
      BY DEF Entering
    <3>1. s # r /\ req'[s].id = req[s].id /\ req[s].pc = "map"
      BY <2>1, <2>2 DEF Kept
    <3>2. ASSUME NEW t \in Requests \ {s}, req'[t].pc \in {"map", "remove", "soft"}
          PROVE  req'[t].id # req'[s].id
      <4>1. req'[t].id = req[t].id /\ req[t].pc \in {"map", "remove", "soft"}
        BY <2>1, <2>2, <3>2 DEF Kept
      <4>. QED  BY <3>1, <4>1 DEF Entering
    <3>. QED  BY <2>3, <3>1, <3>2 DEF Entering
  <2>7. Leaving'
    BY <2>1, <2>2, <2>3 DEF Leaving, Kept
  <2>8. Addressed'
    <3>1. ASSUME NEW s \in Requests, req'[s].pc = "statew"
          PROVE  req'[s].of = req'[s].id
      BY <3>1, <2>1, <2>2 DEF Addressed, Kept
    <3>. QED  BY <3>1, <2>4 DEF Addressed
  <2>9. Recoverable' /\ StatesAreTheRunsOwn' /\ Resting'
    BY <2>3 DEF Recoverable, OnBoard, StatesAreTheRunsOwn, Resting
  <2>. QED  BY <2>5, <2>6, <2>7, <2>8, <2>9
<1>2. CASE Reply(r) /\ UNCHANGED <<item, tok, drv>>
  <2>1. Quiet(r)
    BY <1>2 DEF Remove, Reply, Quiet, Kept, Idle, TypeOK
  <2>. QED  BY <2>1, QuietKeeps
<1>. QED  BY <1>1, <1>2 DEF Remove

(* The row of a run that left the map.                                     *)
LEMMA SoftDeleteKeeps ==
    ASSUME IInv, NEW r \in Requests, SoftDelete(r), UNCHANGED up, up # "down", TypeOK'
    PROVE  IInv'
<1> USE DEF IInv
<1>0. /\ nextId \in Nat /\ nextId >= 1
      /\ \A s \in Requests : req[s].id \in Int /\ req[s].id \in Runs \cup {0}
  BY Numbers
<1>1. /\ item' = item /\ snap' = snap /\ nextId' = nextId /\ drv' = drv
      /\ req[r].pc = "soft" /\ req[r].id \in Runs /\ req[r].id # item.id
  BY <1>0 DEF SoftDelete, Leaving
<1>2. /\ \A s \in Requests \ {r} : Kept(s)
      /\ req'[r].pc \in {"sync", "idle"} /\ req'[r].id = 0
  <2> DEFINE q == IF req[r].then = "sync" THEN Then("sync", 0) ELSE Idle
  <2>1. req' = [req EXCEPT ![r] = q]
    BY DEF SoftDelete, Set, Reply
  <2>2. q.pc \in {"sync", "idle"} /\ q.id = 0
    <3>1. Then("sync", 0).pc = "sync" /\ Then("sync", 0).id = 0
      BY DEF Then, Idle
    <3>2. Idle.pc = "idle" /\ Idle.id = 0
      BY DEF Idle
    <3>. QED  BY <3>1, <3>2
  <2> HIDE DEF q
  <2>. QED  BY <2>1, <2>2 DEF Kept, TypeOK
<1>3. \A i \in Runs : /\ rows'[i].of = rows[i].of
                     /\ \/ rows'[i].live = rows[i].live
                        \/ i = req[r].id /\ rows[i].live = "live" /\ rows'[i].live = "deleted"
  <2>1. CASE rows' = rows
    BY <2>1
  <2>2. CASE rows' = [rows EXCEPT ![req[r].id].live = IF @ = "live" THEN "deleted" ELSE @]
    BY <2>2, <1>1 DEF TypeOK, Row
  <2>. QED  BY <2>1, <2>2 DEF SoftDelete, Written
<1>4. Issued'
  <2>1. ASSUME NEW s \in Requests PROVE req'[s].id < nextId
    <3>1. CASE s = r
      BY <3>1, <1>0, <1>2
    <3>2. CASE s # r
      BY <3>2, <1>2 DEF Kept, Issued
    <3>. QED  BY <3>1, <3>2
  <2>. QED  BY <2>1, <1>1, <1>3 DEF Issued
<1>5. Entering'
  <2> SUFFICES ASSUME NEW s \in Requests, req'[s].pc = "map"
               PROVE  /\ req'[s].id # 0 /\ rows'[req'[s].id].live = "live"
                      /\ item'.id # req'[s].id
                      /\ \A t \in Requests \ {s} :
                            req'[t].pc \in {"map", "remove", "soft"} =>
                                req'[t].id # req'[s].id
    BY DEF Entering
  <2>1. /\ s # r /\ req'[s].id = req[s].id /\ req[s].pc = "map"
        /\ req[s].id \in Runs /\ req[s].id # req[r].id
    BY <1>0, <1>1, <1>2 DEF Kept, Entering
  <2>2. ASSUME NEW t \in Requests \ {s}, req'[t].pc \in {"map", "remove", "soft"}
        PROVE  req'[t].id # req'[s].id
    <3>1. t # r /\ req'[t].id = req[t].id /\ req'[t].pc = req[t].pc
      BY <1>2, <2>2 DEF Kept
    <3>. QED  BY <2>1, <2>2, <3>1 DEF Entering
  <2>. QED  BY <1>1, <1>3, <2>1, <2>2 DEF Entering
<1>6. Leaving'
  BY <1>1, <1>2 DEF Leaving, Kept
<1>7. Addressed'
  <2>1. ASSUME NEW s \in Requests, req'[s].pc = "statew"
        PROVE  req'[s].of = req'[s].id
    BY <2>1, <1>2 DEF Addressed, Kept
  <2>. QED  BY <2>1, <1>1 DEF Addressed
<1>8. Recoverable'
  <2>1. item.id # 0 => item.id \in Runs
    BY DEF TypeOK, Item
  <2>. QED  BY <1>1, <1>3, <2>1 DEF Recoverable, OnBoard
<1>9. StatesAreTheRunsOwn' /\ Resting'
  BY <1>3 DEF StatesAreTheRunsOwn, Resting
<1>. QED  BY <1>4, <1>5, <1>6, <1>7, <1>8, <1>9

LEMMA OperationKeeps ==
    ASSUME IInv, NEW r \in Requests, Operation(r), UNCHANGED up, up # "down"
    PROVE  IInv'
<1>0. TypeOK'
  BY OperationType DEF IInv
<1>1. CASE Silent(r)
  BY <1>0, <1>1, SilentIsQuiet, QuietKeeps
<1>2. CASE AddRow(r)
  BY <1>0, <1>2, AddRowKeeps
<1>3. CASE AddMap(r)
  BY <1>0, <1>3, AddMapKeeps
<1>4. CASE Remove(r)
  BY <1>0, <1>4, RemoveKeeps
<1>5. CASE SoftDelete(r)
  BY <1>0, <1>5, SoftDeleteKeeps
<1>. QED  BY <1>1, <1>2, <1>3, <1>4, <1>5 DEF Operation, Silent

(* A driver changes neither the ids nor the set of live rows.              *)
LEMMA DriveTable ==
    ASSUME IInv, NEW d \in Drivers, Drive(d)
    PROVE  \A i \in Runs : /\ rows'[i].live = rows[i].live
                           /\ rows'[i].of \in {rows[i].of, i}
<1> USE DEF IInv
<1>0. drv[d].id \in Runs \cup {0} /\ drv[d].st \in St
  BY DEF TypeOK, Driver
<1>1. CASE DriverWrite(d)
  <2>1. drv[d].of = drv[d].id
    BY <1>1 DEF DriverWrite, Addressed
  <2>2. \A i \in Runs :
          /\ WithState(drv[d].id, drv[d].st, drv[d].of)[i].live = rows[i].live
          /\ WithState(drv[d].id, drv[d].st, drv[d].of)[i].of \in {rows[i].of, i}
    <3>1. \A i \in Runs :
            /\ WithState(drv[d].id, drv[d].st, drv[d].id)[i].live = rows[i].live
            /\ WithState(drv[d].id, drv[d].st, drv[d].id)[i].of \in {rows[i].of, i}
      BY <1>0, TableKept DEF Def
    <3>. QED  BY <2>1, <3>1
  <2>. QED  BY <1>1, <2>2 DEF DriverWrite, Written
<1>2. CASE DriverLandWrite(d)
  <2>1. PICK f \in Def : Written(WithFinished(drv[d].id, f))
    BY <1>2 DEF DriverLandWrite, Def
  <2>2. \A i \in Runs : /\ WithFinished(drv[d].id, f)[i].live = rows[i].live
                       /\ WithFinished(drv[d].id, f)[i].of = rows[i].of
    BY <1>0, TableKept
  <2>. QED  BY <2>1, <2>2 DEF Written
<1>3. CASE rows' = rows
  BY <1>3
<1>. QED  BY <1>1, <1>2, <1>3 DEF Drive, DriverCheck, DriverStep, DriverDone,
            DriverTransition, DriverFails, DriverEnd, DriverLand

LEMMA DriveKeeps ==
    ASSUME IInv, NEW d \in Drivers, Drive(d), UNCHANGED up, up # "down"
    PROVE  IInv'
<1> USE DEF IInv
<1>0. TypeOK'
  BY DriveType
<1>1. req' = req /\ snap' = snap /\ nextId' = nextId
  BY DEF Drive, DriverCheck, DriverStep, DriverDone, DriverTransition, DriverWrite,
         DriverFails, DriverEnd, DriverLand, DriverLandWrite
<1>2. item'.id = item.id
  BY DEF Drive, DriverCheck, DriverStep, DriverDone, DriverTransition, DriverWrite,
         DriverFails, DriverEnd, DriverLand, DriverLandWrite, TypeOK, Item
<1>3. \A i \in Runs : rows'[i].live = rows[i].live /\ rows'[i].of \in {rows[i].of, i}
  BY DriveTable
<1>4. \A e \in Drivers : drv'[e].pc = "write" => drv'[e].of = drv'[e].id
  <2>0. drv[d] \in Driver
    BY DEF TypeOK
  <2>a. ASSUME NEW g, drv' = [drv EXCEPT ![d] = g], g.pc = "write" => g.of = g.id
        PROVE  \A e \in Drivers : drv'[e].pc = "write" => drv'[e].of = drv'[e].id
    BY <2>a DEF TypeOK, Addressed
  <2>b. \A res : Ending(res).pc = "end"
    BY DEF Ending, Gone
  <2>c. ASSUME NEW pc \in {"go", "run", "land", "landw"}
        PROVE  [drv[d] EXCEPT !.pc = pc].pc = pc
    BY <2>0 DEF Driver
  <2>1. CASE DriverCheck(d)
    BY <2>1, <2>a, <2>b, <2>c DEF DriverCheck
  <2>2. ASSUME NEW s, NEW res, DriverTransition(d, s, res)
        PROVE  \A e \in Drivers : drv'[e].pc = "write" => drv'[e].of = drv'[e].id
    <3> DEFINE g == [drv[d] EXCEPT !.pc = "write", !.id = item.id, !.st = s,
                                   !.of = item.id, !.res = res]
    <3>1. g.of = g.id
      BY <2>0 DEF Driver
    <3>2. OnBoard => drv' = [drv EXCEPT ![d] = g]
      BY <2>2 DEF DriverTransition
    <3> HIDE DEF g
    <3>3. CASE OnBoard
      BY <3>1, <3>2, <3>3, <2>a
    <3>4. CASE ~OnBoard
      BY <2>2, <3>4, <2>a, <2>b, <2>c DEF DriverTransition
    <3>. QED  BY <3>3, <3>4
  <2>3. CASE DriverStep(d) \/ DriverDone(d)
    BY <2>2, <2>3 DEF DriverStep, DriverDone
  <2>4. CASE DriverWrite(d)
    <3>1. After(d).pc \in {"end", "run"}
      BY <2>0, <2>b DEF After, Driver
    <3>. QED  BY <2>4, <2>a, <3>1 DEF DriverWrite
  <2>5. CASE DriverFails(d)
    BY <2>5, <2>a, <2>b DEF DriverFails
  <2>6. CASE DriverEnd(d)
    <3>1. Gone.pc = "gone" /\ [drv[d] EXCEPT !.pc = "land", !.id = item.id].pc = "land"
      BY <2>0 DEF Gone, Driver
    <3>. QED  BY <2>6, <2>a, <3>1 DEF DriverEnd
  <2>7. CASE DriverLand(d)
    BY <2>7, <2>a, <2>c DEF DriverLand, Goes
  <2>8. CASE DriverLandWrite(d)
    BY <2>8, <2>a DEF DriverLandWrite, Gone
  <2>. QED  BY <2>1, <2>3, <2>4, <2>5, <2>6, <2>7, <2>8 DEF Drive
<1>5. Issued' /\ Leaving' /\ Resting'
  BY <1>1, <1>2, <1>3 DEF Issued, Leaving, Resting
<1>6. Entering'
  <2>1. \A r \in Requests : req[r].id \in Runs \cup {0}
    BY Numbers
  <2>. QED  BY <1>1, <1>2, <1>3, <2>1 DEF Entering
<1>7. Addressed'
  BY <1>1, <1>4 DEF Addressed
<1>8. Recoverable' /\ StatesAreTheRunsOwn'
  BY <1>1, <1>2, <1>3 DEF Recoverable, OnBoard, StatesAreTheRunsOwn, TypeOK, Item
<1>. QED  BY <1>0, <1>5, <1>6, <1>7, <1>8

LEMMA SyncKeeps ==
    ASSUME IInv, Sync
    PROVE  IInv'
<1> USE DEF IInv
<1>1. TypeOK'
  BY NextType DEF Next
<1>. QED  BY <1>1 DEF Sync, Issued, Entering, Leaving, Resting, Addressed,
            Recoverable, StatesAreTheRunsOwn, OnBoard

LEMMA InterruptKeeps ==
    ASSUME IInv, Interrupt
    PROVE  IInv'
<1> USE DEF IInv
<1>1. TypeOK'
  BY NextType DEF Next
<1>2. /\ \A r \in Requests : Kept(r)
      /\ \A d \in Drivers : drv'[d].pc = drv[d].pc /\ drv'[d].id = drv[d].id
                            /\ drv'[d].of = drv[d].of
  <2>1. CASE OnBoard
    <3>1. SameReq(req, Cancelled(req)) /\ DOMAIN req = Requests
      BY TokensOfRequests DEF TypeOK
    <3>2. req' = Cancelled(req) /\ drv' = Cancelled(drv)
      BY <2>1 DEF Interrupt
    <3>3. \A r \in Requests : Kept(r)
      BY <3>1, <3>2 DEF SameReq, Kept
    <3>. QED  BY <3>2, <3>3, TokensOfDrivers DEF TypeOK
  <2>2. CASE ~OnBoard
    BY <2>2 DEF Interrupt, Kept
  <2>. QED  BY <2>1, <2>2
<1>3. /\ item' = item /\ rows' = rows /\ nextId' = nextId /\ up' = "stopping"
      /\ snap' = snap \/ snap' = item
  BY DEF Interrupt
<1>4. Issued' /\ Leaving' /\ Resting'
  BY <1>2, <1>3 DEF Issued, Leaving, Resting, Kept
<1>5. Entering'
  BY <1>2, <1>3 DEF Entering, Kept
<1>6. Addressed'
  BY <1>2 DEF Addressed, Kept
<1>7. Recoverable' /\ StatesAreTheRunsOwn'
  BY <1>3 DEF Recoverable, StatesAreTheRunsOwn, OnBoard
<1>. QED  BY <1>1, <1>4, <1>5, <1>6, <1>7

LEMMA ExitKeeps ==
    ASSUME IInv, Exit
    PROVE  IInv'
<1> USE DEF IInv
<1>1. TypeOK'
  BY NextType DEF Next
<1>2. /\ item'.id = 0 /\ rows' = rows /\ snap' = snap /\ nextId' = nextId
      /\ \A r \in Requests : req'[r].pc = "idle" /\ req'[r].id = 0
      /\ \A d \in Drivers : drv'[d].pc = "gone"
  BY DEF Exit, NoItem, Idle, Gone
<1>3. Issued'
  BY <1>2, Numbers DEF Issued
<1>4. Entering' /\ Leaving' /\ Resting' /\ Addressed'
  BY <1>2 DEF Entering, Leaving, Resting, Addressed
<1>5. Recoverable' /\ StatesAreTheRunsOwn'
  BY <1>2 DEF Recoverable, StatesAreTheRunsOwn, OnBoard
<1>. QED  BY <1>1, <1>3, <1>4, <1>5

LEMMA RestoreKeeps ==
    ASSUME IInv, Restore
    PROVE  IInv'
<1> USE DEF IInv
<1>0. /\ TypeOK' /\ req' = req /\ snap' = snap /\ nextId' = nextId /\ up' = "up"
      /\ \A r \in Requests : req[r].pc = "idle"
  BY RestoreType DEF Restore, Resting
<1>1. ASSUME NEW w \in Item, w.id # 0, w.id < nextId, NEW table \in [Runs -> Row],
             Respawn(w, table),
             \A i \in Runs : i >= nextId => table[i].live = "absent",
             \A i \in Runs : table[i].live # "absent" => table[i].of = i,
             w.id \in Runs => table[w.id].live = "live" \/ snap.id = w.id
      PROVE  IInv'
  <2>1. /\ item'.id = w.id /\ w.id \in Runs
        /\ \A i \in Runs : rows'[i].live = table[i].live /\ rows'[i].of \in {table[i].of, i}
        /\ \A d \in Drivers : drv'[d].pc = "write" => drv'[d] = drv[d]
    BY <1>1, RespawnType DEF Item
  <2>2. Issued'
    BY <1>0, <1>1, <2>1 DEF Issued
  <2>3. Entering' /\ Leaving' /\ Resting' /\ Addressed'
    BY <1>0, <2>1 DEF Entering, Leaving, Resting, Addressed
  <2>4. Recoverable' /\ StatesAreTheRunsOwn'
    BY <1>0, <1>1, <2>1 DEF Recoverable, StatesAreTheRunsOwn, OnBoard
  <2>. QED  BY <1>0, <2>2, <2>3, <2>4
<1>2. CASE Live # {} /\ Respawn(FromRow(Newest), rows)
  <2>1. /\ Newest \in Runs /\ rows[Newest].live = "live" /\ FromRow(Newest) \in Item
        /\ FromRow(Newest).id = Newest /\ Newest # 0
    BY <1>2, RestoreItem, Shapes DEF Live, Runs
  <2>2. Newest < nextId
    BY <2>1, Numbers, Shapes DEF Issued, Runs
  <2>3. rows \in [Runs -> Row]
    BY DEF TypeOK
  <2>. QED  BY <1>1, <1>2, <2>1, <2>2, <2>3 DEF Issued, StatesAreTheRunsOwn
<1>3. CASE item' = NoItem /\ UNCHANGED <<rows, drv>>
  <2>1. item'.id = 0
    BY <1>3 DEF NoItem
  <2>2. Issued'
    BY <1>0, <1>3, <2>1, Numbers DEF Issued
  <2>3. Entering' /\ Leaving' /\ Resting' /\ Addressed'
    BY <1>0, <1>3 DEF Entering, Leaving, Resting, Addressed
  <2>4. Recoverable' /\ StatesAreTheRunsOwn'
    BY <1>3, <2>1 DEF Recoverable, StatesAreTheRunsOwn, OnBoard
  <2>. QED  BY <1>0, <2>2, <2>3, <2>4
<1>4. CASE snap.id # 0 /\ \E table \in {rows, Backfilled(snap)} : Respawn(snap, table)
  <2>1. PICK table \in {rows, Backfilled(snap)} : Respawn(snap, table)
    BY <1>4
  <2>2. snap \in Item /\ snap.id < nextId /\ snap.id \in Runs
    BY <1>4 DEF TypeOK, Item, Issued
  <2>3. table \in [Runs -> Row]
    BY <1>4, <2>2, RestoreItem DEF TypeOK
  <2>4. \A i \in Runs : i >= nextId => table[i].live = "absent"
    <3>1. \A i \in Runs : i # snap.id => Backfilled(snap)[i] = rows[i]
      BY DEF Backfilled, TypeOK
    <3>2. \A i \in Runs : i >= nextId => i # snap.id
      BY <2>2, Numbers, Shapes DEF Runs
    <3>. QED  BY <3>1, <3>2 DEF Issued
  <2>5. \A i \in Runs : table[i].live # "absent" => table[i].of = i
    BY <2>2 DEF Backfilled, TypeOK, StatesAreTheRunsOwn, ToRow
  <2>. QED  BY <1>1, <1>4, <2>1, <2>2, <2>3, <2>4, <2>5
<1>. QED  BY <1>2, <1>3, <1>4 DEF Restore

LEMMA InitKeeps ==
    Init => IInv
<1> SUFFICES ASSUME Init PROVE IInv
  OBVIOUS
<1>1. TypeOK
  BY InitType
<1>2. Issued
  <2>1. item.id = 0 /\ \A r \in Requests : req[r].id = 0
    BY DEF Init, NoItem, Idle
  <2>2. \A i \in Runs : rows[i].live = "absent"
    BY DEF Init, NoRow
  <2>3. \/ nextId = 1 /\ snap.id = 0
        \/ nextId = 2 /\ snap.id = 1
    BY DEF Init, NoItem, Legacy
  <2>. QED  BY <2>1, <2>2, <2>3 DEF Issued
<1>3. Entering /\ Leaving /\ Resting /\ Addressed
  BY DEF Init, Entering, Leaving, Resting, Addressed, NoItem, Idle, Gone
<1>4. Recoverable /\ StatesAreTheRunsOwn
  BY DEF Init, Recoverable, StatesAreTheRunsOwn, OnBoard, NoItem, NoRow
<1>. QED  BY <1>1, <1>2, <1>3, <1>4 DEF IInv

LEMMA NextKeeps ==
    ASSUME IInv, [Next]_vars
    PROVE  IInv'
<1>1. CASE \E r \in Requests : Serving /\ Operation(r) /\ UNCHANGED up
  BY <1>1, OperationKeeps DEF Serving
<1>2. CASE \E d \in Drivers : Serving /\ Drive(d) /\ UNCHANGED up
  BY <1>2, DriveKeeps DEF Serving
<1>3. CASE Sync
  BY <1>3, SyncKeeps
<1>4. CASE Interrupt
  BY <1>4, InterruptKeeps
<1>5. CASE Exit
  BY <1>5, ExitKeeps
<1>6. CASE Restore
  BY <1>6, RestoreKeeps
<1>7. CASE UNCHANGED vars
  BY <1>7 DEF vars, IInv, TypeOK, Issued, Entering, Leaving, Resting, Addressed,
              Recoverable, StatesAreTheRunsOwn, OnBoard
<1>. QED  BY <1>1, <1>2, <1>3, <1>4, <1>5, <1>6, <1>7 DEF Next

LEMMA Invariance ==
    Spec => []IInv
  BY InitKeeps, NextKeeps, PTL DEF Spec

(* Whatever is on the board is found again after a crash, whichever adds,  *)
(* retries, deletes and syncs of the ticket interleave and whichever of    *)
(* their writes fail.                                                      *)
THEOREM BoardIsRecoverable ==
    Spec => []Recoverable
<1>1. IInv => Recoverable
  BY DEF IInv
<1>. QED  BY <1>1, Invariance, PTL

(* A row never shows the state of another run of the ticket, however late  *)
(* a write lands.                                                          *)
THEOREM RowsShowTheirOwnRun ==
    Spec => []StatesAreTheRunsOwn
<1>1. IInv => StatesAreTheRunsOwn
  BY DEF IInv
<1>. QED  BY <1>1, Invariance, PTL

(* No step brings a deleted row back, whatever lands late and whichever    *)
(* snapshot a restart finds.                                               *)
THEOREM DeletedRowsStayDeleted ==
    Spec => DeletionIsFinal
<1> DEFINE Final == \A i \in Runs :
                        rows[i].live = "deleted" => rows'[i].live = "deleted"
<1>1. ASSUME IInv, [Next]_vars PROVE Final
  <2> SUFFICES ASSUME NEW i \in Runs, rows[i].live = "deleted"
               PROVE  rows'[i].live = "deleted"
    OBVIOUS
  <2>0. TypeOK
    BY <1>1 DEF IInv
  <2>1. ASSUME NEW r \in Requests, Operation(r) PROVE rows'[i].live = "deleted"
    <3>1. CASE Silent(r)
      BY <1>1, <3>1, SilentIsQuiet DEF Quiet
    <3>2. CASE AddRow(r)
      <4>1. i # nextId
        BY <1>1, <2>0, Numbers DEF IInv, Issued
      <4>. QED  BY <3>2, <4>1, <2>0 DEF AddRow, TypeOK
    <3>3. CASE AddMap(r) \/ Remove(r)
      BY <3>3 DEF AddMap, Remove
    <3>4. CASE SoftDelete(r)
      <4>1. CASE rows' = rows
        BY <4>1
      <4>2. CASE rows' = [rows EXCEPT ![req[r].id].live =
                                        IF @ = "live" THEN "deleted" ELSE @]
        BY <4>2, <2>0 DEF TypeOK, Row
      <4>. QED  BY <3>4, <4>1, <4>2 DEF SoftDelete, Written
    <3>. QED  BY <2>1, <3>1, <3>2, <3>3, <3>4 DEF Operation, Silent
  <2>2. ASSUME NEW d \in Drivers, Drive(d) PROVE rows'[i].live = "deleted"
    BY <1>1, <2>2, DriveTable
  <2>3. CASE Sync \/ Interrupt \/ Exit \/ UNCHANGED vars
    BY <2>3 DEF Sync, Interrupt, Exit, vars
  <2>4. CASE Restore
    <3>1. CASE Live # {} /\ Respawn(FromRow(Newest), rows)
      <4>1. FromRow(Newest) \in Item /\ FromRow(Newest).id # 0
        BY <2>0, <3>1, RestoreItem, Shapes DEF Live, Runs
      <4>. QED  BY <2>0, <3>1, <4>1, RespawnType DEF TypeOK
    <3>2. CASE UNCHANGED <<rows, drv>>
      BY <3>2
    <3>3. CASE snap.id # 0 /\ \E table \in {rows, Backfilled(snap)} : Respawn(snap, table)
      <4>1. PICK table \in {rows, Backfilled(snap)} : Respawn(snap, table)
        BY <3>3
      <4>2. snap \in Item /\ table \in [Runs -> Row]
        BY <2>0, <3>3, RestoreItem DEF TypeOK
      <4>3. table[i].live = "deleted"
        BY <2>0 DEF Backfilled, TypeOK
      <4>. QED  BY <2>0, <3>3, <4>1, <4>2, <4>3, RespawnType
    <3>. QED  BY <2>4, <3>1, <3>2, <3>3 DEF Restore
  <2>. QED  BY <1>1, <2>1, <2>2, <2>3, <2>4 DEF Next
<1>2. IInv /\ [Next]_vars => [Final]_vars
  BY <1>1
<1> HIDE DEF Final
<1>3. Spec => [][Final]_vars
  BY <1>2, Invariance, PTL DEF Spec
<1>. QED  BY <1>3 DEF DeletionIsFinal, Final

(* No driver survives the process either.                                  *)
NoneDrives == up = "down" => \A d \in Drivers : drv[d].pc = "gone"

LEMMA ProcessTakesDrivers ==
    Spec => [](TypeOK /\ NoneDrives)
<1>1. ASSUME Init PROVE NoneDrives
  <2>1. drv = [d \in Drivers |-> Gone]
    BY <1>1 DEF Init
  <2>. QED  BY <2>1 DEF NoneDrives, Gone
<1>2. ASSUME TypeOK, NoneDrives, [Next]_vars PROVE NoneDrives'
  <2>1. CASE Serving /\ UNCHANGED up
    BY <2>1 DEF NoneDrives, Serving
  <2>2. CASE Sync \/ Interrupt \/ Restore
    BY <2>2 DEF Sync, Interrupt, Restore, NoneDrives
  <2>3. CASE Exit
    BY <2>3 DEF Exit, NoneDrives, Gone
  <2>4. CASE UNCHANGED vars
    BY <1>2, <2>4 DEF NoneDrives, vars
  <2>. QED  BY <1>2, <2>1, <2>2, <2>3, <2>4 DEF Next
<1>. QED  BY <1>1, <1>2, TypeInvariant, PTL DEF Spec

(* A restore drives the item it puts on the board, or the item waits, or   *)
(* has ended, or is failed.                                                *)
LEMMA RespawnDrives ==
    ASSUME TypeOK, \A d \in Drivers : drv[d].pc = "gone",
           NEW w \in Item, NEW table, Respawn(w, table)
    PROVE  /\ item'.st = "Active" => \E d \in Drivers : drv'[d].pc = "run"
           /\ \A d \in Drivers : drv'[d].pc = "run" =>
                 item'.st \in IsActive /\ item'.def = "Running"
<1>1. CASE NoDriverNeeded(w) /\ item' = w /\ UNCHANGED drv
  <2>1. w.st # "Active"
    BY <1>1 DEF NoDriverNeeded, Terminal, Paused
  <2>. QED  BY <1>1, <2>1
<1>2. CASE ~NoDriverNeeded(w) /\ w.def = "Running" /\ item' = w /\ Spawn(TRUE, FALSE)
  <2>1. w.st \in IsActive
    BY <1>2 DEF NoDriverNeeded, Item, St, Terminal, Paused, IsActive
  <2>2. \E d \in Drivers : drv'[d].pc = "run"
    BY <1>2 DEF Spawn, Gone, TypeOK
  <2>. QED  BY <1>2, <2>1, <2>2
<1>3. CASE item' = Reconciled(w) /\ UNCHANGED drv
  <2>1. Reconciled(w).st = "Error"
    BY DEF Reconciled, Item
  <2>. QED  BY <1>3, <2>1
<1>. QED  BY <1>1, <1>2, <1>3 DEF Respawn

(* After a restart nothing shows progress that nobody makes, and nothing   *)
(* that had ended or is paused is driven, whatever the table and the       *)
(* snapshot looked like.                                                   *)
THEOREM RestoreDrivesWhatItShows ==
    Spec => RestoredIsDriven
<1> DEFINE Driven ==
      Restore => /\ item'.st = "Active" => \E d \in Drivers : drv'[d].pc = "run"
                 /\ \A d \in Drivers : drv'[d].pc = "run" =>
                       item'.st \in IsActive /\ item'.def = "Running"
<1>1. ASSUME TypeOK, NoneDrives PROVE Driven
  <2> SUFFICES ASSUME Restore
               PROVE  /\ item'.st = "Active" => \E d \in Drivers : drv'[d].pc = "run"
                      /\ \A d \in Drivers : drv'[d].pc = "run" =>
                            item'.st \in IsActive /\ item'.def = "Running"
    OBVIOUS
  <2>1. \A d \in Drivers : drv[d].pc = "gone"
    BY <1>1 DEF Restore, NoneDrives
  <2>2. CASE Live # {} /\ Respawn(FromRow(Newest), rows)
    <3>1. FromRow(Newest) \in Item
      BY <1>1, <2>2, RestoreItem DEF Live
    <3>. QED  BY <1>1, <2>1, <2>2, <3>1, RespawnDrives
  <2>3. CASE item' = NoItem /\ UNCHANGED drv
    BY <2>1, <2>3 DEF NoItem
  <2>4. CASE \E table \in {rows, Backfilled(snap)} : Respawn(snap, table)
    BY <1>1, <2>1, <2>4, RespawnDrives DEF TypeOK
  <2>. QED  BY <2>2, <2>3, <2>4 DEF Restore
<1>2. TypeOK /\ NoneDrives => [Driven]_vars
  BY <1>1
<1> HIDE DEF Driven
<1>3. Spec => [][Driven]_vars
  BY <1>2, ProcessTakesDrivers, PTL
<1>. QED  BY <1>3 DEF RestoredIsDriven, Driven
-----------------------------------------------------------------------------
(* The snapshot files.                                                     *)

Recs == [SnSpaces -> 0 .. MaxVersion]
SnTask == [pc : {"idle", "open", "write", "rename"}, recs : Recs, left : SUBSET SnSpaces,
           cur : SnSpaces \cup {NoSpace}, at : {"tmp", "file", "gone", NoSpace}]

SnType ==
    /\ snMap \in Recs /\ snRead \in Recs /\ snRepo \in SnSpaces
    /\ snFile \in [SnSpaces -> SnValues] /\ snTmp \in [SnSpaces -> SnValues]
    /\ snInRepo \in [SnSpaces -> {0, 1}] /\ snGlobal \in {NoSnFile, OldFile, 1}
    /\ snTask \in [SnTasks -> SnTask] /\ snPc \in {"read", "copy", "drop", "clean", "up"}
    /\ snNext \in Nat \ {0} /\ snBegun \in [SnSpaces -> SUBSET (0 .. MaxVersion)]
    /\ snMixed \subseteq SnSpaces

Busy(t) == snTask[t].pc # "idle"

(* Writers run while the server is up; two at a time mix every file.  A    *)
(* write lists the records it was begun with.                              *)
Writers ==
    /\ \A t \in SnTasks : Busy(t) => snPc = "up"
    /\ \A t, u \in SnTasks : Busy(t) /\ Busy(u) /\ t # u => snMixed = SnSpaces
    /\ \A t \in SnTasks : Busy(t) => /\ snTask[t].left \subseteq Listed(snTask[t].recs)
                                     /\ \A w \in SnSpaces : snTask[t].recs[w] \in snBegun[w]
    /\ \A t \in SnTasks : snTask[t].pc \in {"write", "rename"} <=> snTask[t].cur # NoSpace

(* How far a write that is alone has got with workspace w: what it wrote   *)
(* is in the temporary file, then in the file.                             *)
Progress(t, w) ==
    /\ snTask[t].cur = w =>
          /\ snTask[t].recs[w] # 0
          /\ snTask[t].pc = "write" => snTask[t].at = "tmp" /\ snTmp[w] = EmptyFile
          /\ snTask[t].pc = "rename" => snTmp[w] = snTask[t].recs[w]
    /\ snTask[t].cur # w /\ w \notin snTask[t].left /\ snTask[t].recs[w] # 0
          => snFile[w] = snTask[t].recs[w]

(* What a start finds in the file of w is one of snBegun.                  *)
Shown(w) ==
    /\ snFile[w] \notin {TornFile, EmptyFile}
    /\ snFile[w] \in Versions => snFile[w] \in snBegun[w]
    /\ snFile[w] \notin Versions => 0 \in snBegun[w]

Unmixed == \A w \in SnSpaces \ snMixed :
               Shown(w) /\ \A t \in SnTasks : Busy(t) => Progress(t, w)

(* The old global file is read by the first start that comes through.      *)
GlobalFirst == snGlobal = 1 => snPc \in {"read", "clean"} /\ \A w \in SnSpaces : 0 \in snBegun[w] /\ 1 \in snBegun[w]

SnInv == SnType /\ Writers /\ Unmixed /\ GlobalFirst

LEMMA SnValuesFacts ==
    /\ MaxVersion \in Nat /\ 1 \in Versions /\ 0 \in 0 .. MaxVersion /\ Versions \subseteq 0 .. MaxVersion
    /\ 0 \notin Versions /\ TornFile \notin Versions /\ EmptyFile \notin Versions /\ OldFile \notin Versions
    /\ TornFile # EmptyFile /\ OldFile \notin {TornFile, EmptyFile, 0, 1} /\ NoSnFile = 0
    /\ 0 \notin {TornFile, EmptyFile} /\ 1 \notin {TornFile, EmptyFile}
    /\ Versions = (0 .. MaxVersion) \ {0} /\ Versions \cap {TornFile, EmptyFile} = {}
    /\ {0, 1, OldFile, TornFile, EmptyFile} \subseteq SnValues /\ Versions \subseteq SnValues
BY SnapshotAssumption DEF Versions, TornFile, EmptyFile, OldFile, NoSnFile, SnValues

LEMMA IdleSnType == IdleSn \in SnTask /\ IdleSn.pc = "idle" /\ IdleSn.cur = NoSpace /\ NoRecords \in Recs
<1>1. NoRecords \in Recs
  BY SnValuesFacts DEF NoRecords, Recs
<1> QED BY <1>1 DEF IdleSn, SnTask

(* A step that moves no file and no writer.                                *)
LEMMA FilesStay ==
    ASSUME SnInv, SnType', UNCHANGED <<snFile, snTmp, snTask, snMixed>>,
           \A w \in SnSpaces : snBegun[w] \subseteq snBegun'[w],
           (\E t \in SnTasks : Busy(t)) => snPc' = "up"
    PROVE  Writers' /\ Unmixed'
<1>1. Writers'
  BY DEF SnInv, Writers, Busy, Listed
<1>2. Unmixed'
  BY DEF SnInv, Unmixed, Shown, Progress, Busy
<1> QED BY <1>1, <1>2

(* All writers stop, the files stay.                                       *)
LEMMA WritersStop ==
    ASSUME SnInv, UNCHANGED <<snFile, snMixed, snBegun>>, snTask' = [t \in SnTasks |-> IdleSn]
    PROVE  Writers' /\ Unmixed' /\ snTask' \in [SnTasks -> SnTask]
<1>1. \A t \in SnTasks : snTask'[t] = IdleSn
  OBVIOUS
<1>2. Writers' /\ snTask' \in [SnTasks -> SnTask]
  BY <1>1, IdleSnType DEF Writers, Busy
<1>3. Unmixed'
  BY <1>1, IdleSnType DEF SnInv, Unmixed, Shown, Busy
<1> QED BY <1>2, <1>3

(* The start keeps the invariant.                                          *)
LEMMA StartStep ==
    ASSUME SnInv, ReadSnapshots \/ MigrateOldFile \/ DropOldFile \/ CleanupGlobal \/ SnCrash
                  \/ \E w \in SnSpaces : ItemChanges(w)
    PROVE  SnInv'
<1>0. SnType /\ Writers /\ Unmixed /\ GlobalFirst
  BY DEF SnInv
<1>1. CASE ReadSnapshots
  <2>1. /\ snPc = "read" /\ UNCHANGED <<snMap, snFile, snTmp, snInRepo, snGlobal, snTask, snNext, snBegun, snMixed>>
    BY <1>1 DEF ReadSnapshots, snHistory
  <2>2. PICK w \in SnSpaces : /\ snRepo' = w /\ snRead' = ReadAll(w)
                              /\ snPc' = IF ReadAll(w) # NoRecords THEN "clean" ELSE "copy"
    BY <1>0, <1>1, SnValuesFacts DEF ReadSnapshots, SnType
  <2>3. ReadAll(w) \in Recs
    BY <1>0, SnValuesFacts DEF ReadAll, Recs, Loadable
  <2>4. SnType'
    BY <1>0, <2>1, <2>2, <2>3 DEF SnType
  <2>5. ~\E t \in SnTasks : Busy(t)
    BY <1>0, <2>1 DEF Writers
  <2>6. Writers' /\ Unmixed'
    BY <2>1, <2>4, <2>5, FilesStay
  <2>7. snGlobal = 1 => ReadAll(w) # NoRecords
    <3> SUFFICES ASSUME snGlobal = 1 PROVE ReadAll(w)[w] # 0 /\ NoRecords[w] = 0
      OBVIOUS
    <3> QED BY SnValuesFacts DEF ReadAll, NoRecords, Loadable
  <2>8. GlobalFirst'
    BY <1>0, <2>1, <2>2, <2>7 DEF GlobalFirst
  <2> QED BY <2>4, <2>6, <2>8 DEF SnInv
<1>2. CASE MigrateOldFile
  <2>1. /\ snPc = "copy" /\ UNCHANGED <<snMap, snTmp, snInRepo, snGlobal, snTask, snRepo, snNext, snBegun>>
    BY <1>2 DEF MigrateOldFile
  <2>2. ~\E t \in SnTasks : Busy(t)
    BY <1>0, <2>1 DEF Writers
  <2>3. OldPlace \in {0, 1, OldFile}
    BY <1>0, SnValuesFacts DEF OldPlace, SnType
  <2>4. snGlobal # 1
    BY <1>0, <2>1 DEF GlobalFirst
  <2>5. CASE snPc' \in {"up", "clean"} /\ snRead' \in Recs /\ UNCHANGED <<snFile, snMixed>>
    <3>1. SnType'
      BY <1>0, <2>1, <2>5 DEF SnType
    <3>2. Writers' /\ Unmixed'
      BY <2>1, <2>2, <2>5, <3>1, FilesStay
    <3> QED BY <2>1, <2>4, <3>1, <3>2 DEF SnInv, GlobalFirst
  <2>6. CASE snFile' = [snFile EXCEPT ![snRepo] = EmptyFile] /\ snPc' = "drop"
             /\ snMixed' = snMixed \cup {snRepo} /\ snRead' = snRead
    <3>1. SnType'
      BY <1>0, <2>1, <2>6, SnValuesFacts DEF SnType
    <3>2. Writers'
      BY <1>0, <2>1, <2>2 DEF Writers, Busy
    <3>3. Unmixed'
      BY <1>0, <2>1, <2>2, <2>6 DEF Unmixed, Busy, Shown, SnType
    <3> QED BY <2>1, <2>4, <3>1, <3>2, <3>3 DEF SnInv, GlobalFirst
  <2>7. [snRead EXCEPT ![snRepo] = IF Loadable(OldPlace) THEN OldPlace ELSE 0] \in Recs
    BY <1>0, <2>3, SnValuesFacts DEF SnType, Recs, Loadable
  <2> QED BY <1>0, <1>2, <2>5, <2>6, <2>7 DEF MigrateOldFile, SnType
<1>3. CASE DropOldFile
  <2>1. /\ snPc = "drop" /\ snFile' = [snFile EXCEPT ![snRepo] = OldPlace]
        /\ snRead' = [snRead EXCEPT ![snRepo] = IF Loadable(OldPlace) THEN OldPlace ELSE 0]
        /\ snPc' = "clean" /\ snMixed' = snMixed \ {snRepo}
        /\ snBegun' = [snBegun EXCEPT ![snRepo] = @ \cup {snRead'[snRepo]}]
        /\ UNCHANGED <<snMap, snTmp, snActive, snTask, snRepo, snNext>>
    BY <1>3 DEF DropOldFile
  <2>2. ~\E t \in SnTasks : Busy(t)
    BY <1>0, <2>1 DEF Writers
  <2>3. OldPlace \in {0, 1, OldFile}
    BY <1>0, SnValuesFacts DEF OldPlace, SnType
  <2>4. snRead' \in Recs /\ snRead'[snRepo] = IF Loadable(OldPlace) THEN OldPlace ELSE 0
    BY <1>0, <2>1, <2>3, SnValuesFacts DEF SnType, Recs, Loadable
  <2>5. snInRepo' \in [SnSpaces -> {0, 1}] /\ snGlobal' \in {NoSnFile, snGlobal}
    BY <1>0, <1>3, SnValuesFacts DEF DropOldFile, SnType
  <2>6. snBegun' \in [SnSpaces -> SUBSET (0 .. MaxVersion)] /\ snRead'[snRepo] \in snBegun'[snRepo]
        /\ \A w \in SnSpaces : snBegun[w] \subseteq snBegun'[w]
    BY <1>0, <2>1, <2>4 DEF SnType, Recs
  <2>7. SnType'
    BY <1>0, <2>1, <2>3, <2>4, <2>5, <2>6, SnValuesFacts DEF SnType
  <2>8. Writers'
    BY <1>0, <2>1, <2>2 DEF Writers, Busy
  <2>9. Shown(snRepo)'
    BY <1>0, <2>1, <2>3, <2>4, <2>6, SnValuesFacts DEF Shown, Loadable, SnType
  <2>10. Unmixed'
    <3> SUFFICES ASSUME NEW w \in SnSpaces \ snMixed' PROVE Shown(w)'
      BY <2>1, <2>2 DEF Unmixed, Busy
    <3>1. CASE w = snRepo
      BY <2>1, <2>9, <3>1 DEF Shown
    <3>2. CASE w # snRepo
      BY <1>0, <2>1, <3>2 DEF Unmixed, Shown, SnType
    <3> QED BY <3>1, <3>2
  <2>11. GlobalFirst'
    BY <1>0, <2>1, <2>5, SnValuesFacts DEF GlobalFirst
  <2> QED BY <2>7, <2>8, <2>10, <2>11 DEF SnInv
<1>4. CASE CleanupGlobal
  <2>1. /\ snPc = "clean" /\ snGlobal' = NoSnFile /\ snMap' = snRead /\ snPc' = "up"
        /\ UNCHANGED <<snFile, snTmp, snInRepo, snTask, snRepo, snRead, snNext, snBegun, snMixed>>
    BY <1>4 DEF CleanupGlobal, snHistory
  <2>2. SnType'
    BY <1>0, <2>1 DEF SnType
  <2>3. Writers' /\ Unmixed'
    BY <2>1, <2>2, FilesStay
  <2> QED BY <2>1, <2>2, <2>3, SnValuesFacts DEF SnInv, GlobalFirst
<1>5. CASE SnCrash
  <2>1. /\ snPc' = "read" /\ snRead' = NoRecords /\ snMap' = NoRecords /\ snTask' = [t \in SnTasks |-> IdleSn]
        /\ UNCHANGED <<snFile, snTmp, snInRepo, snGlobal, snRepo, snNext, snBegun, snMixed>>
    BY <1>5 DEF SnCrash, snDisk, snHistory
  <2>2. Writers' /\ Unmixed' /\ snTask' \in [SnTasks -> SnTask]
    BY <2>1, WritersStop
  <2>3. SnType'
    BY <1>0, <2>1, <2>2, IdleSnType DEF SnType
  <2> QED BY <1>0, <2>1, <2>2, <2>3 DEF SnInv, GlobalFirst
<1>6. ASSUME NEW w \in SnSpaces, ItemChanges(w) PROVE SnInv'
  <2>1. /\ snPc = "up" /\ UNCHANGED <<snFile, snTmp, snInRepo, snGlobal, snTask, snPc, snRepo, snRead, snBegun, snMixed>>
    BY <1>6 DEF ItemChanges, snDisk, snStart, snHistory
  <2>2. snNext' \in Nat \ {0} /\ snMap' \in Recs
    BY <1>0, <1>6, SnapshotAssumption DEF ItemChanges, SnType, Recs
  <2>3. SnType'
    BY <1>0, <2>1, <2>2 DEF SnType
  <2>4. Writers' /\ Unmixed'
    BY <2>1, <2>3, FilesStay
  <2> QED BY <1>0, <2>1, <2>3, <2>4 DEF SnInv, GlobalFirst
<1> QED BY <1>1, <1>2, <1>3, <1>4, <1>5, <1>6

(* A workspace whose files are not mixed has one writer at most.           *)
LEMMA OneWriter ==
    ASSUME SnInv, NEW t \in SnTasks, NEW u \in SnTasks, Busy(t), Busy(u), NEW w \in SnSpaces \ snMixed
    PROVE  u = t
BY DEF SnInv, Writers

(* A writer's step keeps the invariant.                                    *)
LEMMA WriterStep ==
    ASSUME SnInv, NEW t \in SnTasks,
           SyncBegins(t) \/ SnOpenTmp(t) \/ WriteTmp(t) \/ SnRenameTmp(t) \/ RemoveStale(t) \/ SyncFails(t)
    PROVE  SnInv'
<1>0. SnType /\ Writers /\ Unmixed /\ GlobalFirst
  BY DEF SnInv
<1>a. /\ snTask[t] \in SnTask /\ \A u \in SnTasks : snTask[u] \in SnTask
      /\ NoSpace \notin SnSpaces
  BY <1>0, SnapshotAssumption DEF SnType
<1>1. CASE SyncBegins(t)
  <2> DEFINE r == [IdleSn EXCEPT !.pc = "open", !.recs = snMap, !.left = Listed(snMap)]
  <2>1. /\ snPc = "up" /\ snTask' = [snTask EXCEPT ![t] = r]
        /\ snBegun' = [w \in SnSpaces |-> snBegun[w] \cup {snMap[w]}]
        /\ snMixed' = IF Overlaps(t) THEN SnSpaces ELSE snMixed
        /\ UNCHANGED <<snMap, snFile, snTmp, snInRepo, snGlobal, snPc, snRepo, snRead, snNext>>
    BY <1>1 DEF SyncBegins, SnSet, snDisk, snStart
  <2>2. r \in SnTask /\ r.pc = "open" /\ r.recs = snMap /\ r.left = Listed(snMap) /\ r.cur = NoSpace
    BY <1>0 DEF IdleSn, SnTask, SnType, Listed
  <2> HIDE DEF r
  <2>3. snTask'[t] = r /\ \A u \in SnTasks \ {t} : snTask'[u] = snTask[u]
    BY <1>0, <2>1 DEF SnType
  <2>4. snBegun' \in [SnSpaces -> SUBSET (0 .. MaxVersion)] /\ \A w \in SnSpaces : snBegun'[w] = snBegun[w] \cup {snMap[w]}
    BY <1>0, <2>1 DEF SnType, Recs
  <2>5. SnType'
    BY <1>0, <2>1, <2>2, <2>4 DEF SnType
  <2>6. Writers'
    <3>1. \A u, v \in SnTasks : (Busy(u) /\ Busy(v))' /\ u # v => snMixed' = SnSpaces
      BY <1>0, <2>1, <2>3 DEF Writers, Busy, Overlaps
    <3>2. \A u \in SnTasks : Busy(u)' => /\ snTask'[u].left \subseteq Listed(snTask'[u].recs)
                                         /\ \A w \in SnSpaces : snTask'[u].recs[w] \in snBegun'[w]
      BY <1>0, <2>2, <2>3, <2>4 DEF Writers, Busy, Listed
    <3> QED BY <1>0, <2>1, <2>2, <2>3, <3>1, <3>2 DEF Writers, Busy, Listed
  <2>7. Unmixed'
    <3> SUFFICES ASSUME NEW w \in SnSpaces \ snMixed'
                 PROVE  Shown(w)' /\ \A u \in SnTasks : Busy(u)' => Progress(u, w)'
      BY DEF Unmixed
    <3>1. w \notin snMixed /\ ~Overlaps(t)
      BY <2>1
    <3>2. Shown(w)'
      BY <1>0, <2>1, <2>4, <3>1 DEF Unmixed, Shown
    <3>3. Progress(t, w)'
      BY <1>a, <2>2, <2>3 DEF Progress, Listed
    <3>4. \A u \in SnTasks : Busy(u)' => u = t
      BY <2>3, <3>1 DEF Busy, Overlaps
    <3> QED BY <3>2, <3>3, <3>4
  <2> QED BY <1>0, <2>1, <2>4, <2>5, <2>6, <2>7 DEF SnInv, GlobalFirst
<1>2. CASE SnOpenTmp(t)
  <2>1. PICK w \in snTask[t].left :
        /\ snTask[t].pc = "open" /\ snTmp' = [snTmp EXCEPT ![w] = EmptyFile]
        /\ snTask' = [snTask EXCEPT ![t] = [snTask[t] EXCEPT !.pc = "write", !.cur = w, !.at = "tmp", !.left = @ \ {w}]]
        /\ UNCHANGED <<snMap, snFile, snInRepo, snGlobal, snPc, snRepo, snRead, snNext, snBegun, snMixed>>
    BY <1>2 DEF SnOpenTmp, SnSet, snStart, snHistory
  <2>2. /\ snTask'[t] \in SnTask /\ snTask'[t].pc = "write" /\ snTask'[t].cur = w /\ snTask'[t].at = "tmp"
        /\ snTask'[t].left = snTask[t].left \ {w} /\ snTask'[t].recs = snTask[t].recs
        /\ \A u \in SnTasks \ {t} : snTask'[u] = snTask[u]
        /\ w \in SnSpaces
    BY <1>0, <1>a, <2>1 DEF SnType, SnTask
  <2>3. SnType'
    BY <1>0, <2>1, <2>2, SnValuesFacts DEF SnType
  <2>4. Busy(t) /\ \A u \in SnTasks : Busy(u)' <=> Busy(u)
    BY <2>1, <2>2 DEF Busy
  <2>5. Writers'
    <3>1. \A u \in SnTasks : Busy(u)' => /\ snTask'[u].left \subseteq Listed(snTask'[u].recs)
                                         /\ \A x \in SnSpaces : snTask'[u].recs[x] \in snBegun'[x]
      BY <1>0, <2>1, <2>2, <2>4 DEF Writers, Listed
    <3>2. \A u \in SnTasks : snTask'[u].pc \in {"write", "rename"} <=> snTask'[u].cur # NoSpace
      BY <1>0, <1>a, <2>2 DEF Writers
    <3> QED BY <1>0, <2>1, <2>4, <3>1, <3>2 DEF Writers, Listed
  <2>6. Unmixed'
    <3> SUFFICES ASSUME NEW x \in SnSpaces \ snMixed'
                 PROVE  Shown(x)' /\ \A u \in SnTasks : Busy(u)' => Progress(u, x)'
      BY DEF Unmixed
    <3>1. x \notin snMixed /\ Shown(x) /\ Progress(t, x)
      BY <1>0, <2>1, <2>4 DEF Unmixed
    <3>2. \A u \in SnTasks : Busy(u)' => u = t
      BY <2>4, <3>1, OneWriter
    <3>3. snTask[t].recs[w] # 0 /\ snTask[t].cur = NoSpace
      BY <1>0, <2>1, <2>4 DEF Writers, Listed
    <3>4. Progress(t, x)'
      BY <1>0, <1>a, <2>1, <2>2, <3>1, <3>3 DEF Progress, SnType
    <3> QED BY <2>1, <3>1, <3>2, <3>4 DEF Shown
  <2> QED BY <1>0, <2>1, <2>3, <2>5, <2>6 DEF SnInv, GlobalFirst
<1>3. CASE WriteTmp(t)
  <2> DEFINE w == snTask[t].cur
             v == snTask[t].recs[w]
  <2>1. /\ snTask[t].pc = "write" /\ snTask' = [snTask EXCEPT ![t] = [snTask[t] EXCEPT !.pc = "rename"]]
        /\ UNCHANGED <<snMap, snInRepo, snGlobal, snPc, snRepo, snRead, snNext, snBegun, snMixed>>
    BY <1>3 DEF WriteTmp, SnSet, snStart, snHistory
  <2>2. \/ /\ snTask[t].at = "tmp" /\ UNCHANGED snFile
           /\ \E c \in Over(snTmp[w], v) : snTmp' = [snTmp EXCEPT ![w] = c]
        \/ /\ snTask[t].at # "tmp" /\ UNCHANGED snTmp
           /\ \/ UNCHANGED snFile
              \/ \E c \in Over(snFile[w], v) : snFile' = [snFile EXCEPT ![w] = c]
    BY <1>3 DEF WriteTmp
  <2>3. /\ snTask'[t] \in SnTask /\ snTask'[t].pc = "rename" /\ snTask'[t].cur = w
        /\ snTask'[t].left = snTask[t].left /\ snTask'[t].recs = snTask[t].recs
        /\ \A u \in SnTasks \ {t} : snTask'[u] = snTask[u]
    BY <1>0, <1>a, <2>1 DEF SnType, SnTask
  <2>4. w \in SnSpaces /\ v \in 0 .. MaxVersion
    BY <1>0, <1>a, <2>1 DEF Writers, SnTask, Recs
  <2> HIDE DEF w, v
  <2>5. \A old : Over(old, v) \subseteq SnValues /\ Over(EmptyFile, v) = {v}
    BY <2>4, SnValuesFacts DEF Over
  <2>6. snFile' \in [SnSpaces -> SnValues] /\ snTmp' \in [SnSpaces -> SnValues]
    BY <1>0, <2>2, <2>5 DEF SnType
  <2>7. SnType'
    BY <1>0, <2>1, <2>3, <2>6 DEF SnType
  <2>8. Busy(t) /\ \A u \in SnTasks : Busy(u)' <=> Busy(u)
    BY <2>1, <2>3 DEF Busy
  <2>9. Writers'
    <3>1. \A u \in SnTasks : Busy(u)' => /\ snTask'[u].left \subseteq Listed(snTask'[u].recs)
                                         /\ \A x \in SnSpaces : snTask'[u].recs[x] \in snBegun'[x]
      BY <1>0, <2>1, <2>3, <2>8 DEF Writers, Listed
    <3>2. \A u \in SnTasks : snTask'[u].pc \in {"write", "rename"} <=> snTask'[u].cur # NoSpace
      BY <1>0, <1>a, <2>3, <2>4 DEF Writers
    <3> QED BY <1>0, <2>1, <2>8, <3>1, <3>2 DEF Writers, Listed
  <2>10. Unmixed'
    <3> SUFFICES ASSUME NEW x \in SnSpaces \ snMixed'
                 PROVE  Shown(x)' /\ \A u \in SnTasks : Busy(u)' => Progress(u, x)'
      BY DEF Unmixed
    <3>1. x \notin snMixed /\ Shown(x) /\ Progress(t, x)
      BY <1>0, <2>1, <2>8 DEF Unmixed
    <3>2. \A u \in SnTasks : Busy(u)' => u = t
      BY <2>8, <3>1, OneWriter
    <3>3. x = w => snTask[t].at = "tmp" /\ snTmp[w] = EmptyFile /\ v # 0
      BY <2>1, <3>1 DEF Progress, w, v
    <3>4. x = w => snTmp'[w] = v /\ snFile' = snFile
      BY <1>0, <2>2, <2>4, <2>5, <3>3 DEF SnType
    <3>5. x # w => snFile'[x] = snFile[x]
      BY <1>0, <2>2 DEF SnType
    <3>6. Progress(t, x)'
      <4>1. CASE x = w
        BY <2>3, <3>3, <3>4, <4>1 DEF Progress, v
      <4>2. CASE x # w
        BY <2>3, <3>1, <3>5, <4>2 DEF Progress, w
      <4> QED BY <4>1, <4>2
    <3> QED BY <2>1, <3>1, <3>2, <3>4, <3>5, <3>6 DEF Shown
  <2> QED BY <1>0, <2>1, <2>7, <2>9, <2>10 DEF SnInv, GlobalFirst
(* A writer that gives up, or is through.                                  *)
<1>b. ASSUME snTask' = [snTask EXCEPT ![t] = IdleSn],
             UNCHANGED <<snMap, snFile, snTmp, snInRepo, snGlobal, snPc, snRepo, snRead, snNext, snBegun, snMixed>>
      PROVE  SnInv'
  <2>1. snTask'[t] = IdleSn /\ \A u \in SnTasks \ {t} : snTask'[u] = snTask[u]
    BY <1>0, <1>b DEF SnType
  <2>2. SnType'
    BY <1>0, <1>b, IdleSnType DEF SnType
  <2>3. ~Busy(t)' /\ \A u \in SnTasks : Busy(u)' => Busy(u) /\ u # t
    BY <2>1, IdleSnType DEF Busy
  <2>4. Writers'
    BY <1>0, <1>b, <2>1, <2>3, IdleSnType DEF Writers, Listed
  <2>5. Unmixed'
    BY <1>0, <1>b, <2>1, <2>3 DEF Unmixed, Shown, Progress
  <2> QED BY <1>0, <1>b, <2>2, <2>4, <2>5 DEF SnInv, GlobalFirst
<1>4. CASE SnRenameTmp(t)
  <2> DEFINE w == snTask[t].cur
  <2>1. /\ snTask[t].pc = "rename"
        /\ UNCHANGED <<snMap, snInRepo, snGlobal, snPc, snRepo, snRead, snNext, snBegun, snMixed>>
    BY <1>4 DEF SnRenameTmp, snStart
  <2>2. CASE snTmp[w] = NoSnFile
    BY <1>4, <1>b, <2>1, <2>2 DEF SnRenameTmp, SnSet
  <2>3. CASE snTmp[w] # NoSnFile
    <3>1. /\ snFile' = [snFile EXCEPT ![w] = snTmp[w]]
          /\ snTmp' = [snTmp EXCEPT ![w] = NoSnFile]
          /\ snTask' = [u \in SnTasks |->
                 IF u = t THEN [snTask[t] EXCEPT !.pc = "open", !.cur = NoSpace, !.at = NoSpace]
                 ELSE IF snTask[u].cur = w THEN [snTask[u] EXCEPT !.at = Moved(@)] ELSE snTask[u]]
      BY <1>4, <2>3 DEF SnRenameTmp
    <3>2. /\ snTask'[t] \in SnTask /\ snTask'[t].pc = "open" /\ snTask'[t].cur = NoSpace
          /\ snTask'[t].left = snTask[t].left /\ snTask'[t].recs = snTask[t].recs
      BY <1>a, <3>1 DEF SnTask
    <3>3. ASSUME NEW u \in SnTasks \ {t}
          PROVE  snTask'[u] \in SnTask /\ snTask'[u].pc = snTask[u].pc /\ snTask'[u].cur = snTask[u].cur
                 /\ snTask'[u].left = snTask[u].left /\ snTask'[u].recs = snTask[u].recs
      <4>1. snTask[u] \in SnTask /\ Moved(snTask[u].at) \in {"file", "gone"}
        BY <1>a DEF Moved
      <4>2. [snTask[u] EXCEPT !.at = Moved(@)] \in SnTask
        BY <4>1 DEF SnTask
      <4> QED BY <3>1, <4>1, <4>2 DEF SnTask
    <3>4. w \in SnSpaces
      BY <1>0, <1>a, <2>1 DEF Writers, SnTask
    <3> HIDE DEF w
    <3>5. snTask' \in [SnTasks -> SnTask]
      <4>1. \A u \in SnTasks : snTask'[u] \in SnTask
        BY <3>2, <3>3
      <4> QED BY <3>1, <4>1
    <3>6. snTmp[w] \in SnValues
      BY <1>0, <3>4 DEF SnType
    <3>7. SnType'
      BY <1>0, <2>1, <3>1, <3>5, <3>6, SnValuesFacts DEF SnType
    <3>8. Busy(t) /\ \A u \in SnTasks : Busy(u)' <=> Busy(u)
      BY <2>1, <3>2, <3>3 DEF Busy
    <3>9. Writers'
      <4>1. \A u \in SnTasks : snTask'[u].left = snTask[u].left /\ snTask'[u].recs = snTask[u].recs
        BY <3>2, <3>3
      <4>2. \A u \in SnTasks : snTask'[u].pc \in {"write", "rename"} <=> snTask'[u].cur # NoSpace
        BY <1>0, <3>2, <3>3 DEF Writers
      <4> QED BY <1>0, <2>1, <3>8, <4>1, <4>2 DEF Writers, Listed
    <3>10. Unmixed'
      <4> SUFFICES ASSUME NEW x \in SnSpaces \ snMixed'
                   PROVE  Shown(x)' /\ \A u \in SnTasks : Busy(u)' => Progress(u, x)'
        BY DEF Unmixed
      <4>1. x \notin snMixed /\ Shown(x) /\ Progress(t, x)
        BY <1>0, <2>1, <3>8 DEF Unmixed
      <4>2. \A u \in SnTasks : Busy(u)' => u = t
        BY <3>8, <4>1, OneWriter
      <4>3. x = w => snTmp[w] = snTask[t].recs[w] /\ snTask[t].recs[w] # 0
        BY <2>1, <4>1 DEF Progress, w
      <4>4. snFile'[x] = IF x = w THEN snTmp[w] ELSE snFile[x]
        BY <1>0, <3>1 DEF SnType
      <4>5. snTask[t].recs[x] \in snBegun[x] /\ snTask[t].recs[x] \in 0 .. MaxVersion
        BY <1>0, <1>a, <3>8 DEF Writers, SnTask, Recs
      <4>6. Shown(x)'
        <5>1. CASE x = w
          <6>1. snTask[t].recs[x] \in Versions
            BY <4>3, <4>5, <5>1, SnValuesFacts
          <6> QED BY <2>1, <4>3, <4>4, <4>5, <5>1, <6>1, SnValuesFacts DEF Shown
        <5>2. CASE x # w
          BY <2>1, <4>1, <4>4, <5>2 DEF Shown
        <5> QED BY <5>1, <5>2
      <4>7. Progress(t, x)'
        <5>1. CASE x = w
          BY <1>a, <3>2, <4>3, <4>4, <5>1 DEF Progress
        <5>2. CASE x # w
          BY <1>a, <3>2, <4>1, <4>4, <5>2 DEF Progress, w
        <5> QED BY <5>1, <5>2
      <4> QED BY <4>2, <4>6, <4>7
    <3> QED BY <1>0, <2>1, <3>7, <3>9, <3>10 DEF SnInv, GlobalFirst
  <2> QED BY <2>2, <2>3
<1>5. CASE RemoveStale(t)
  <2>1. /\ snTask[t].pc = "open" /\ snTask[t].left = {}
        /\ UNCHANGED <<snMap, snTmp, snInRepo, snGlobal, snPc, snRepo, snRead, snNext, snMixed>>
    BY <1>5 DEF RemoveStale, snStart
  <2>2. Busy(t) /\ snTask[t].cur = NoSpace
    BY <1>0, <2>1 DEF Busy, Writers
  <2>3. CASE Stale(t) = {} /\ Overlaps(t)
    BY <1>5, <1>b, <2>1, <2>3 DEF RemoveStale, SnSet
  <2>4. CASE Stale(t) = {} /\ ~Overlaps(t)
    <3>1. snTask' = [snTask EXCEPT ![t] = IdleSn] /\ snBegun' = [w \in SnSpaces |-> {snTask[t].recs[w]}]
          /\ snFile' = snFile
      BY <1>5, <2>4 DEF RemoveStale, SnSet
    <3>2. snTask' \in [SnTasks -> SnTask] /\ \A u \in SnTasks : ~Busy(u)' /\ snTask'[u].pc = "idle" /\ snTask'[u].cur = NoSpace
      BY <1>0, <2>4, <3>1, IdleSnType DEF SnType, Busy, Overlaps, Writers
    <3>3. snBegun' \in [SnSpaces -> SUBSET (0 .. MaxVersion)]
      BY <1>a, <3>1 DEF SnTask, Recs
    <3>4. SnType'
      BY <1>0, <2>1, <3>1, <3>2, <3>3 DEF SnType
    <3>5. Writers'
      BY <3>2 DEF Writers, Busy
    <3>6. Unmixed'
      <4> SUFFICES ASSUME NEW w \in SnSpaces \ snMixed' PROVE Shown(w)'
        BY <3>2 DEF Unmixed
      <4>1. Shown(w) /\ Progress(t, w)
        BY <1>0, <2>1, <2>2 DEF Unmixed
      <4>2. snTask[t].recs[w] # 0 => snFile[w] = snTask[t].recs[w]
        BY <1>a, <2>1, <2>2, <4>1 DEF Progress
      <4>3. snTask[t].recs[w] = 0 => snFile[w] = 0
        BY <2>4, SnValuesFacts DEF Stale
      <4>4. snTask[t].recs[w] \in 0 .. MaxVersion /\ snBegun'[w] = {snTask[t].recs[w]}
        BY <1>a, <3>1 DEF SnTask, Recs
      <4> QED BY <3>1, <4>1, <4>2, <4>3, <4>4, SnValuesFacts DEF Shown
    <3>7. GlobalFirst'
      BY <1>0, <2>1, <2>2 DEF GlobalFirst, Writers
    <3> QED BY <3>4, <3>5, <3>6, <3>7 DEF SnInv
  <2>5. CASE Stale(t) # {}
    <3>1. PICK w \in Stale(t) :
            /\ snFile' = [snFile EXCEPT ![w] = NoSnFile]
            /\ snTask' = [u \in SnTasks |->
                  IF snTask[u].cur = w /\ snTask[u].at = "file"
                  THEN [snTask[u] EXCEPT !.at = "gone"] ELSE snTask[u]]
            /\ snBegun' = snBegun
      BY <1>5, <2>5 DEF RemoveStale
    <3>2. ASSUME NEW u \in SnTasks
          PROVE  snTask'[u] \in SnTask /\ snTask'[u].pc = snTask[u].pc /\ snTask'[u].cur = snTask[u].cur
                 /\ snTask'[u].left = snTask[u].left /\ snTask'[u].recs = snTask[u].recs
      <4>1. [snTask[u] EXCEPT !.at = "gone"] \in SnTask
        BY <1>a DEF SnTask
      <4> QED BY <1>a, <3>1, <4>1 DEF SnTask
    <3>3. snTask' \in [SnTasks -> SnTask]
      BY <3>1, <3>2
    <3>4. w \in SnSpaces /\ snTask[t].recs[w] = 0
      BY DEF Stale
    <3>5. SnType'
      BY <1>0, <2>1, <3>1, <3>3, SnValuesFacts DEF SnType
    <3>6. \A u \in SnTasks : Busy(u)' <=> Busy(u)
      BY <3>2 DEF Busy
    <3>7. Writers'
      BY <1>0, <2>1, <3>1, <3>2, <3>6 DEF Writers, Listed
    <3>8. Unmixed'
      <4> SUFFICES ASSUME NEW x \in SnSpaces \ snMixed'
                   PROVE  Shown(x)' /\ \A u \in SnTasks : Busy(u)' => Progress(u, x)'
        BY DEF Unmixed
      <4>1. x \notin snMixed /\ Shown(x) /\ Progress(t, x)
        BY <1>0, <2>1, <2>2 DEF Unmixed
      <4>2. \A u \in SnTasks : Busy(u)' => u = t
        BY <2>2, <3>6, <4>1, OneWriter
      <4>3. snFile'[x] = IF x = w THEN NoSnFile ELSE snFile[x]
        BY <1>0, <3>1 DEF SnType
      <4>4. snTask[t].recs[x] \in snBegun[x]
        BY <1>0, <2>2 DEF Writers
      <4>5. Shown(x)'
        <5>1. CASE x = w
          BY <3>1, <3>4, <4>3, <4>4, <5>1, SnValuesFacts DEF Shown
        <5>2. CASE x # w
          BY <3>1, <4>1, <4>3, <5>2 DEF Shown
        <5> QED BY <5>1, <5>2
      <4>6. Progress(t, x)'
        BY <1>a, <2>1, <2>2, <3>2, <3>4, <4>1, <4>3 DEF Progress
      <4> QED BY <4>2, <4>5, <4>6
    <3>9. GlobalFirst'
      BY <1>0, <2>1, <3>1 DEF GlobalFirst
    <3> QED BY <3>5, <3>7, <3>8, <3>9 DEF SnInv
  <2> QED BY <2>3, <2>4, <2>5
<1>6. CASE SyncFails(t)
  BY <1>6, <1>b DEF SyncFails, SnSet, snDisk, snStart, snHistory
<1> QED BY <1>1, <1>2, <1>3, <1>4, <1>5, <1>6

LEMMA SnInitOK == SnInit => SnInv
<1> SUFFICES ASSUME SnInit PROVE SnInv
  OBVIOUS
<1>1. /\ snMap = NoRecords /\ snNext = 2 /\ snFile \in [SnSpaces -> {NoSnFile, OldFile}]
      /\ snTmp = [w \in SnSpaces |-> NoSnFile] /\ snGlobal \in {NoSnFile, OldFile, 1}
      /\ snTask = [t \in SnTasks |-> IdleSn] /\ snPc = "read" /\ snRead = NoRecords /\ snRepo = SnDefault
      /\ snMixed = {} /\ snBegun = [w \in SnSpaces |-> {0, 1}] /\ snInRepo \in [SnSpaces -> {0, 1}]
  BY SnValuesFacts DEF SnInit
<1>2. \A t \in SnTasks : snTask[t] = IdleSn
  BY <1>1
<1>3. SnType
  <2>1. snFile \in [SnSpaces -> SnValues] /\ snTmp \in [SnSpaces -> SnValues]
    BY <1>1, SnValuesFacts
  <2>2. snBegun \in [SnSpaces -> SUBSET (0 .. MaxVersion)]
    BY <1>1, SnValuesFacts DEF Versions
  <2> QED BY <1>1, <2>1, <2>2, SnapshotAssumption, SnValuesFacts, IdleSnType DEF SnType
<1>4. Writers
  BY <1>2, IdleSnType DEF Writers, Busy
<1>5. Unmixed
  BY <1>1, <1>2, IdleSnType, SnValuesFacts DEF Unmixed, Shown, Busy
<1> QED BY <1>1, <1>3, <1>4, <1>5 DEF SnInv, GlobalFirst

LEMMA SnNextOK == SnInv /\ [SnNext]_snVars => SnInv'
<1>1. SnInv /\ SnNext => SnInv'
  BY StartStep, WriterStep DEF SnNext
<1>2. SnInv /\ UNCHANGED snVars => SnInv'
  BY DEF snVars, SnInv, SnType, Writers, Unmixed, GlobalFirst, Shown, Progress, Busy, Listed
<1> QED BY <1>1, <1>2

(* What a start reads, with no file mixed, is what a write showed.          *)
LEMMA StartReadsShown ==
    ASSUME SnInv, ReadSnapshots, snMixed = {}
    PROVE  \A x \in SnSpaces : snRead'[x] \in snBegun[x]
<1>1. SnType /\ Unmixed /\ GlobalFirst
  BY DEF SnInv
<1>2. PICK w \in SnSpaces : snRead' = ReadAll(w)
  BY <1>1, SnValuesFacts DEF ReadSnapshots, SnType
<1> SUFFICES ASSUME NEW x \in SnSpaces PROVE ReadAll(w)[x] \in snBegun[x]
  BY <1>2
<1>3. Shown(x)
  BY <1>1 DEF Unmixed
<1>4. ReadAll(w)[x] = IF Loadable(snFile[x]) THEN snFile[x]
                      ELSE IF x = w /\ Loadable(snGlobal) THEN snGlobal ELSE 0
  BY DEF ReadAll
<1>5. Loadable(snGlobal) => snGlobal = 1
  BY <1>1, SnValuesFacts DEF SnType, Loadable
<1> QED BY <1>1, <1>3, <1>4, <1>5 DEF Shown, Loadable, GlobalFirst

(* Snapshot files, for any number of workspaces, writers, versions and     *)
(* faults: write_workflow_snapshot_at leaves a file that does not parse    *)
(* only through the temporary file two writers share, and a start whose    *)
(* files were never mixed reads in every workspace what a write showed.    *)
THEOREM SnapshotsAreSafe == SnSpec => SnapshotsSafe
<1>1. SnInv => TornOnlyByOverlap
  BY DEF SnInv, Unmixed, Shown, TornOnlyByOverlap
<1> DEFINE ReadsShown == ReadSnapshots /\ snMixed = {} => \A w \in SnSpaces : snRead'[w] \in snBegun[w]
<1>2. SnInv /\ [SnNext]_snVars => [ReadsShown]_snVars
  BY StartReadsShown
<1> HIDE DEF ReadsShown
<1>3. SnSpec => []TornOnlyByOverlap /\ [][ReadsShown]_snVars
  BY SnInitOK, SnNextOK, <1>1, <1>2, PTL DEF SnSpec
<1> QED BY <1>3 DEF SnapshotsSafe, RestartsFromSync, ReadsShown
=============================================================================
