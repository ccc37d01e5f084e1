---------------------------- MODULE IntakeProofs ----------------------------
(***************************************************************************)
(* What holds of the tickets that come in.                                 *)
(*                                                                         *)
(* The caps of Intake for any number of keys, users, repositories and      *)
(* concurrent requests.  The invariants add to each       *)
(* count of the board what has been granted and not yet been used: the     *)
(* slots of the running poll, its budget in the current repository, and    *)
(* the requests that are past the check.                                   *)
(*                                                                         *)
(* The tickets on a Jira site (JiraBoard), for any site that means what    *)
(* its names say: the driver of an item, whatever runs beside it, takes    *)
(* the ticket out of To Do.                                                *)
(***************************************************************************)
EXTENDS Intake, JiraBoard, FiniteSetTheorems, WellFoundedInduction, TLAPS

USE IntakeAssumption

(* Cardinality of a subset of a finite set.                                *)
LEMMA CardSubset ==
    ASSUME NEW T, IsFiniteSet(T), NEW S \in SUBSET T
    PROVE  /\ IsFiniteSet(S)
           /\ Cardinality(S) \in Nat /\ Cardinality(T) \in Nat
           /\ Cardinality(S) <= Cardinality(T)
  BY FS_Subset, FS_CardinalityType

(* A set that grew by at most one element.                                 *)
LEMMA CardGrow ==
    ASSUME NEW T, IsFiniteSet(T), NEW x, NEW S \in SUBSET (T \cup {x})
    PROVE  Cardinality(S) <= Cardinality(T) + 1
<1>1. IsFiniteSet(T \cup {x}) /\ Cardinality(T \cup {x}) <= Cardinality(T) + 1
  <2>1. Cardinality(T) \in Nat
    BY FS_CardinalityType
  <2>2. /\ IsFiniteSet(T \cup {x})
        /\ Cardinality(T \cup {x}) =
            IF x \in T THEN Cardinality(T) ELSE Cardinality(T) + 1
    BY FS_AddElement
  <2> QED
    BY <2>1, <2>2
<1>2. Cardinality(T) \in Nat /\ Cardinality(T \cup {x}) \in Nat
  BY <1>1, FS_CardinalityType
<1> QED
  BY <1>1, <1>2, CardSubset

(* A set that lost a given element.                                        *)
LEMMA CardDrop ==
    ASSUME NEW T, IsFiniteSet(T), NEW x \in T, NEW S \in SUBSET (T \ {x})
    PROVE  Cardinality(S) + 1 <= Cardinality(T)
<1>1. IsFiniteSet(T \ {x}) /\ Cardinality(T \ {x}) = Cardinality(T) - 1
  BY FS_RemoveElement
<1>2. Cardinality(T) \in Nat /\ Cardinality(T \ {x}) \in Nat
  BY <1>1, FS_CardinalityType
<1> QED
  BY <1>1, <1>2, CardSubset

(* Every set of keys or requests counted by the model is finite.           *)
LEMMA CountsAreNat ==
    /\ \A S \in SUBSET Keys : IsFiniteSet(S) /\ Cardinality(S) \in Nat
    /\ \A S \in SUBSET Requests : IsFiniteSet(S) /\ Cardinality(S) \in Nat
  BY CardSubset
-----------------------------------------------------------------------------
(* The type invariant, and that a chosen ticket and a caller are known.    *)
KeyChosen ==
    /\ poll.pc = "start" => poll.key \in Keys
    /\ \A r \in Requests : req[r].pc # "idle" => req[r].key \in Keys
    /\ \A r \in Requests :
        req[r].pc \in {"cap", "repo", "insert"} => req[r].user \in Users

Typed == TypeOK /\ KeyChosen

LEMMA RowTypes ==
    /\ AnyRepo \in Repos /\ NoRow \in Row /\ NoPoll \in Poll
    /\ NoRequest \in Request /\ NoUser \notin Users
    /\ [NoRow EXCEPT !.st = "open"] \in Row
    /\ \A u \in Users \cup {NoUser}, m \in BOOLEAN, r \in Repos :
        NewRow(u, m, r) \in Row /\ Retried(NewRow(u, m, r)) \in Row
<1>1. AnyRepo \in Repos
  BY DEF AnyRepo
<1> QED
  BY <1>1 DEF NoRow, Row, NoPoll, Poll, NoRequest, Request, NewRow,
              Retried

LEMMA SlotsAreNat ==
    ASSUME TypeOK
    PROVE  \A r \in Repos : SlotsOf(r) \in Nat
<1>1. \A u : InUse(u) \in Nat
  BY CountsAreNat DEF InUse, Open
<1>2. Unlimited \in Nat
  BY CountsAreNat DEF Unlimited
<1> QED
  BY <1>1, <1>2 DEF SlotsOf

LEMMA TypedInit == Init => Typed
<1> SUFFICES ASSUME Init PROVE Typed
  OBVIOUS
<1>1. board \in [Keys -> Row]
  BY RowTypes DEF Init
<1>2. req \in [Requests -> Request] /\ poll \in Poll /\ paused \in BOOLEAN
  BY RowTypes DEF Init
<1>3. KeyChosen
  BY DEF Init, KeyChosen, NoPoll, NoRequest
<1> QED
  BY <1>1, <1>2, <1>3 DEF Typed, TypeOK

(* Ending a run and starting it again keep the row's owner and origin.     *)
LEMMA StateSteps ==
    ASSUME board \in [Keys -> Row], Settle \/ Reopen
    PROVE  \E k \in Rows : \E row \in Row :
              /\ board' = [board EXCEPT ![k] = row] /\ row.st # "absent"
              /\ row.user = board[k].user /\ row.manual = board[k].manual
              /\ row.via = "retry" <=> board[k].via = "retry"
              /\ row.st = "open" /\ row.via = "start" =>
                    board[k].st = "open" /\ board[k].via = "start"
<1> DEFINE Keeps(k, row) ==
      /\ board' = [board EXCEPT ![k] = row] /\ row.st # "absent"
      /\ row.user = board[k].user /\ row.manual = board[k].manual
      /\ row.via = "retry" <=> board[k].via = "retry"
      /\ row.st = "open" /\ row.via = "start" =>
            board[k].st = "open" /\ board[k].via = "start"
<1>1. CASE Settle
  <2>1. PICK k \in Open, s \in {"done", "ended"} :
          board' = [board EXCEPT ![k].st = s]
    BY <1>1 DEF Settle
  <2> DEFINE row == [board[k] EXCEPT !.st = s]
  <2>2. k \in Rows /\ k \in Keys /\ board[k] \in Row
    BY DEF Open, Rows
  <2>3. row \in Row /\ Keeps(k, row)
    BY <2>1, <2>2 DEF Row
  <2> QED
    BY <2>2, <2>3
<1>2. CASE Reopen
  <2>1. PICK k \in Rows :
          board' = [board EXCEPT ![k].st = "open",
                                 ![k].via = IF @ = "retry" THEN @ ELSE "reopen"]
    BY <1>2 DEF Reopen
  <2> DEFINE row == [board[k] EXCEPT !.st = "open",
                       !.via = IF @ = "retry" THEN @ ELSE "reopen"]
  <2>2. k \in Keys /\ board[k] \in Row
    BY DEF Rows
  <2>3. row \in Row /\ Keeps(k, row)
    BY <2>1, <2>2 DEF Row
  <2> QED
    BY <2>3
<1> QED
  BY <1>1, <1>2

LEMMA TypedNext == Typed /\ [Next]_vars => Typed'
<1> SUFFICES ASSUME Typed, [Next]_vars PROVE Typed'
  OBVIOUS
<1> USE DEF Typed, TypeOK
<1>1. CASE UNCHANGED vars
  BY <1>1 DEF vars, KeyChosen
<1>2. CASE PollBegin
  <2>1. MaxActive - Cardinality(Rows) \in Nat
    BY <1>2, CountsAreNat DEF PollBegin, Rows
  <2>2. poll' \in Poll
    BY <1>2, <2>1, RowTypes DEF PollBegin, Poll, NoPoll
  <2> QED
    BY <1>2, <2>2 DEF PollBegin, KeyChosen, NoPoll
<1>3. CASE PollSeen
  BY <1>3 DEF PollSeen, Poll, Rows, KeyChosen
<1>4. CASE PollRepo
  <2>1. PICK r \in poll.left :
          poll' = IF r \in AutoRepos /\ SlotsOf(r) > 0
                  THEN [poll EXCEPT
                          !.pc = "list", !.repo = r, !.left = @ \ {r}, !.here = 0,
                          !.budget = Least(poll.slots - poll.started, SlotsOf(r))]
                  ELSE [poll EXCEPT !.left = @ \ {r}]
    BY <1>4 DEF PollRepo
  <2>2. r \in Repos /\ SlotsOf(r) \in Nat
    BY SlotsAreNat DEF Poll
  <2>3. Least(poll.slots - poll.started, SlotsOf(r)) \in Nat
    BY <1>4, <2>2 DEF PollRepo, Poll, Least
  <2>4. poll' \in Poll /\ poll'.pc # "start"
    BY <1>4, <2>1, <2>2, <2>3 DEF PollRepo, Poll
  <2> QED
    BY <1>4, <2>4 DEF PollRepo, KeyChosen
<1>5. CASE PollList
  BY <1>5 DEF PollList, Poll, KeyChosen
<1>6. CASE PollPick
  <2>1. PICK k \in poll.todo \ poll.seen :
          poll' = [poll EXCEPT !.pc = "start", !.key = k, !.todo = @ \ {k}]
    BY <1>6 DEF PollPick
  <2>2. k \in Keys
    BY DEF Poll
  <2>3. poll' \in Poll /\ poll'.key \in Keys
    BY <2>1, <2>2 DEF Poll
  <2> QED
    BY <1>6, <2>3 DEF PollPick, KeyChosen
<1>7. CASE PollInsert
  <2>1. NewRow(Owner, FALSE, poll.repo) \in Row
    BY RowTypes DEF Poll
  <2>2. poll' \in Poll /\ poll'.pc = "tickets"
    <3>1. poll.key \in Keys
      BY <1>7 DEF PollInsert, KeyChosen
    <3>2. poll.seen \cup {poll.key} \in SUBSET Keys
      BY <3>1 DEF Poll
    <3>3. poll.started + 1 \in Nat /\ poll.here + 1 \in Nat
      BY DEF Poll
    <3> QED
      BY <1>7, <3>2, <3>3 DEF PollInsert, Poll
  <2> QED
    BY <1>7, <2>1, <2>2 DEF PollInsert, KeyChosen
<1>8. CASE PollInsertFails
  BY <1>8 DEF PollInsertFails, Poll, KeyChosen
<1>9. CASE PollNextRepo
  BY <1>9 DEF PollNextRepo, Poll, KeyChosen
<1>10. CASE PollEnd
  BY <1>10, RowTypes DEF PollEnd, NoPoll, KeyChosen
<1>11. CASE TogglePolling
  BY <1>11 DEF TogglePolling, KeyChosen
<1>12. ASSUME NEW r \in Requests, ManualKey(r) PROVE Typed'
  BY <1>12 DEF ManualKey, Request, KeyChosen
<1>13. ASSUME NEW r \in Requests, Reply(r), UNCHANGED poll PROVE
         req' \in [Requests -> Request] /\ KeyChosen'
  BY <1>13, RowTypes DEF Reply, NoRequest, KeyChosen
<1>14. ASSUME NEW r \in Requests, ManualCap(r) \/ ManualRepo(r) PROVE Typed'
  <2>1. CASE Reply(r)
    BY <1>13, <1>14, <2>1 DEF ManualCap, ManualRepo
  <2>2. CASE SetReq(r, "repo") \/ SetReq(r, "insert")
    BY <1>14, <2>2 DEF ManualCap, ManualRepo, SetReq, Request, KeyChosen
  <2> QED
    BY <1>14, <2>1, <2>2 DEF ManualCap, ManualRepo
<1>15. ASSUME NEW r \in Requests,
              ManualInsert(r) \/ ManualInsertFails(r) \/ RetryInsert(r)
       PROVE  Typed'
  <2>1. \A m \in BOOLEAN : /\ NewRow(req[r].user, m, req[r].repo) \in Row
                            /\ Retried(NewRow(req[r].user, m, req[r].repo)) \in Row
    BY RowTypes DEF Request
  <2>2. board' \in [Keys -> Row]
    BY <1>15, <2>1 DEF ManualInsert, ManualInsertFails, RetryInsert
  <2> QED
    BY <1>13, <1>15, <2>2 DEF ManualInsert, ManualInsertFails, RetryInsert
<1>16. ASSUME NEW r \in Requests, RetryRemove(r) PROVE Typed'
  <2>1. PICK k \in Keys :
          /\ req' = [req EXCEPT ![r] =
                      [pc |-> "retry", user |-> board[k].user, key |-> k,
                       repo |-> board[k].repo]]
          /\ board' = [board EXCEPT ![k] = NoRow]
    BY <1>16 DEF RetryRemove
  <2>2. board[k] \in Row
    OBVIOUS
  <2> QED
    BY <1>16, <2>1, <2>2, RowTypes DEF RetryRemove, Row, Request, KeyChosen
<1>17. CASE Settle \/ Reopen
  <2>1. board' \in [Keys -> Row]
    BY <1>17, StateSteps DEF Rows
  <2> QED
    BY <1>17, <2>1 DEF Settle, Reopen, KeyChosen
<1>18. CASE Delete
  BY <1>18, RowTypes DEF Delete, Rows, KeyChosen
<1> QED
  BY <1>1, <1>2, <1>3, <1>4, <1>5, <1>6, <1>7, <1>8, <1>9, <1>10, <1>11,
     <1>12, <1>14, <1>15, <1>16, <1>17, <1>18 DEF Next, PollStep, Serve

(* The variables keep their types, whatever is configured.                 *)
THEOREM TypeCorrect == Spec => []TypeOK
<1>1. Spec => []Typed
  BY TypedInit, TypedNext, PTL DEF Spec
<1> QED
  BY <1>1, PTL DEF Typed
-----------------------------------------------------------------------------
(* The slots that the running poll still has, on top of what it started.   *)
PollerSlots ==
    /\ poll.started <= poll.slots
    /\ poll.pc = "start" => poll.started < poll.slots
    /\ Cardinality(PollerRows) + (poll.slots - poll.started) <= MaxActive

LEMMA PollerSlotsInit == Init => PollerSlots
<1> SUFFICES ASSUME Init PROVE PollerSlots
  OBVIOUS
<1>1. PollerRows = {}
  BY RowTypes DEF Init, PollerRows, NoRow
<1>2. Cardinality(PollerRows) = 0
  BY <1>1, FS_EmptySet
<1> QED
  BY <1>2 DEF Init, NoPoll, PollerSlots

LEMMA PollerSlotsNext ==
    ASSUME Typed, Typed', PollerSlots, [Next]_vars
    PROVE  PollerSlots'
<1> USE DEF Typed, TypeOK
<1>1. /\ IsFiniteSet(PollerRows) /\ Cardinality(PollerRows) \in Nat
      /\ Cardinality(PollerRows') \in Nat
  BY CountsAreNat DEF PollerRows
<1>2. /\ poll.started \in Nat /\ poll.slots \in Nat
      /\ poll'.started \in Nat /\ poll'.slots \in Nat
  BY DEF Poll
(* Whatever only takes rows of the poller away, or leaves them alone.      *)
<1>3. ASSUME PollerRows' \subseteq PollerRows,
             poll'.started = poll.started, poll'.slots = poll.slots,
             poll'.pc = "start" => poll.started < poll.slots
      PROVE  PollerSlots'
  <2>1. Cardinality(PollerRows') <= Cardinality(PollerRows)
    BY <1>1, <1>3, CardSubset
  <2> QED
    BY <1>1, <1>2, <1>3, <2>1 DEF PollerSlots
<1>4. ASSUME board' = board PROVE PollerRows' = PollerRows
  BY <1>4 DEF PollerRows
<1>5. CASE UNCHANGED vars
  BY <1>3, <1>4, <1>5 DEF vars, PollerSlots
<1>6. CASE PollBegin
  <2>1. PollerRows \subseteq Rows /\ Rows \subseteq Keys
    BY DEF PollerRows, Rows
  <2>2. /\ Cardinality(Rows) \in Nat
        /\ Cardinality(PollerRows) <= Cardinality(Rows)
    BY <2>1, CountsAreNat, CardSubset
  <2>3. PollerRows' = PollerRows
    BY <1>4, <1>6 DEF PollBegin
  <2>4. /\ poll'.started = 0 /\ poll'.pc = "seen"
        /\ poll'.slots = MaxActive - Cardinality(Rows)
    BY <1>6 DEF PollBegin, NoPoll
  <2> QED
    BY <1>1, <1>2, <1>6, <2>2, <2>3, <2>4 DEF PollerSlots, PollBegin
<1>7. CASE PollSeen \/ PollList \/ PollInsertFails \/ PollNextRepo
  <2>1. /\ board' = board /\ poll'.started = poll.started
        /\ poll'.slots = poll.slots /\ poll'.pc # "start"
    BY <1>7 DEF PollSeen, PollList, PollInsertFails, PollNextRepo, Poll
  <2> QED
    BY <1>3, <1>4, <2>1
<1>8. CASE PollRepo
  <2>1. /\ board' = board /\ poll'.started = poll.started
        /\ poll'.slots = poll.slots /\ poll'.pc # "start"
    BY <1>8 DEF PollRepo, Poll
  <2> QED
    BY <1>3, <1>4, <2>1
<1>9. CASE PollPick
  <2>1. /\ board' = board /\ poll'.started = poll.started
        /\ poll'.slots = poll.slots /\ poll.started < poll.slots
    BY <1>9 DEF PollPick, Poll, RoomInRepo
  <2> QED
    BY <1>3, <1>4, <2>1
<1>10. CASE PollInsert
  <2>1. PollerRows' \subseteq PollerRows \cup {poll.key}
    BY <1>10 DEF PollInsert, PollerRows
  <2>2. Cardinality(PollerRows') <= Cardinality(PollerRows) + 1
    BY <1>1, <2>1, CardGrow
  <2>3. /\ poll'.started = poll.started + 1 /\ poll'.slots = poll.slots
        /\ poll.started < poll.slots /\ poll'.pc = "tickets"
    BY <1>10 DEF PollInsert, Poll, PollerSlots
  <2> QED
    BY <1>1, <1>2, <2>2, <2>3 DEF PollerSlots
<1>11. CASE PollEnd
  <2>1. /\ PollerRows' = PollerRows
        /\ poll'.started = 0 /\ poll'.slots = 0 /\ poll'.pc = "idle"
    BY <1>4, <1>11 DEF PollEnd, NoPoll
  <2> QED
    BY <1>1, <1>2, <2>1 DEF PollerSlots
<1>12. CASE TogglePolling
  BY <1>3, <1>4, <1>12 DEF TogglePolling, PollerSlots
<1>13. ASSUME NEW r \in Requests, Serve(r) PROVE PollerSlots'
  <2>1. poll' = poll /\ PollerRows' \subseteq PollerRows
    <3>1. CASE ManualKey(r) \/ ManualCap(r) \/ ManualRepo(r) \/ ManualInsertFails(r)
      BY <1>4, <3>1 DEF ManualKey, ManualCap, ManualRepo, ManualInsertFails
    <3>2. CASE ManualInsert(r)
      BY <3>2 DEF ManualInsert, PollerRows, NewRow
    <3>3. CASE RetryRemove(r)
      BY <3>3 DEF RetryRemove, PollerRows, NoRow
    <3>4. CASE RetryInsert(r)
      BY <3>4 DEF RetryInsert, PollerRows, NewRow, Retried
    <3> QED
      BY <1>13, <3>1, <3>2, <3>3, <3>4 DEF Serve
  <2> QED
    BY <1>3, <2>1 DEF PollerSlots
<1>14. CASE Settle \/ Reopen
  <2>1. \A j \in Keys :
          /\ board'[j].manual = board[j].manual
          /\ board'[j].user = board[j].user
          /\ board'[j].st # "absent" <=> board[j].st # "absent"
          /\ board'[j].via = "retry" <=> board[j].via = "retry"
    BY <1>14, StateSteps DEF Rows
  <2>2. PollerRows' = PollerRows
    BY <2>1 DEF PollerRows
  <2> QED
    BY <1>3, <1>14, <2>2 DEF Settle, Reopen, PollerSlots
<1>15. CASE Delete
  <2>1. PollerRows' \subseteq PollerRows
    BY <1>15 DEF Delete, PollerRows, NoRow
  <2> QED
    BY <1>3, <1>15, <2>1 DEF Delete, PollerSlots
<1> QED
  BY <1>5, <1>6, <1>7, <1>8, <1>9, <1>10, <1>11, <1>12, <1>13, <1>14, <1>15
     DEF Next, PollStep

(* Nothing that happens during a poll, and no number of requests, lets     *)
(* poll_once put more rows on the board than max_active_workflows.         *)
THEOREM PollerKeepsWithinLimit == Spec => []PollerRowsBounded
<1> DEFINE Inv == Typed /\ PollerSlots
<1>1. Init => Inv
  BY TypedInit, PollerSlotsInit
<1>2. Inv /\ [Next]_vars => Inv'
  BY TypedNext, PollerSlotsNext
<1>3. Inv => PollerRowsBounded
  <2> SUFFICES ASSUME Inv PROVE PollerRowsBounded
    OBVIOUS
  <2>1. Cardinality(PollerRows) \in Nat
    BY CountsAreNat DEF PollerRows
  <2>2. poll.started \in Nat /\ poll.slots \in Nat
    BY DEF Typed, TypeOK, Poll
  <2> QED
    BY <2>1, <2>2 DEF PollerSlots, PollerRowsBounded
<1> QED
  BY <1>1, <1>2, <1>3, PTL DEF Spec
-----------------------------------------------------------------------------
(* The requests of u that have passed the check of the manual cap.         *)
Passed(u) ==
    {r \in Requests : req[r].pc \in {"repo", "insert"} /\ req[r].user = u}

ManualSlots ==
    MaxManual > 0 =>
        \A u \in Users : Cardinality(Admitted(u)) + Cardinality(Passed(u))
                            < MaxManual + Cardinality(Requests)

LEMMA ManualCounts ==
    \A u : /\ IsFiniteSet(Admitted(u)) /\ Cardinality(Admitted(u)) \in Nat
           /\ IsFiniteSet(Passed(u)) /\ Cardinality(Passed(u)) \in Nat
           /\ Cardinality(Passed(u)) <= Cardinality(Requests)
           /\ Cardinality(Requests) \in Nat
  BY CountsAreNat, CardSubset DEF Admitted, ManualOpen, Open, Passed

LEMMA ManualSlotsInit == Init => ManualSlots
<1> SUFFICES ASSUME Init, NEW u \in Users, MaxManual > 0
             PROVE  Cardinality(Admitted(u)) + Cardinality(Passed(u))
                      < MaxManual + Cardinality(Requests)
  BY DEF ManualSlots
<1>1. Admitted(u) = {}
  BY RowTypes DEF Init, Admitted, ManualOpen, Open, NoRow
<1>2. Passed(u) = {}
  BY DEF Init, Passed, NoRequest
<1> QED
  BY <1>1, <1>2, FS_EmptySet, ManualCounts

LEMMA ManualSlotsNext ==
    ASSUME Typed, ManualSlots, [Next]_vars
    PROVE  ManualSlots'
<1> SUFFICES ASSUME NEW u \in Users, MaxManual > 0
             PROVE  Cardinality(Admitted(u)') + Cardinality(Passed(u)')
                      < MaxManual + Cardinality(Requests)
  BY DEF ManualSlots
<1> USE DEF Typed, TypeOK
<1>1. /\ IsFiniteSet(Admitted(u)) /\ Cardinality(Admitted(u)) \in Nat
      /\ Cardinality(Admitted(u)') \in Nat
      /\ IsFiniteSet(Passed(u)) /\ Cardinality(Passed(u)) \in Nat
      /\ Cardinality(Passed(u)') \in Nat /\ Cardinality(Requests) \in Nat
      /\ Cardinality(Passed(u)') <= Cardinality(Requests)
  BY CountsAreNat, CardSubset DEF Admitted, ManualOpen, Open, Passed
<1>2. Cardinality(Admitted(u)) + Cardinality(Passed(u))
        < MaxManual + Cardinality(Requests)
  BY DEF ManualSlots
<1>3. ASSUME Admitted(u)' \subseteq Admitted(u), Passed(u)' \subseteq Passed(u)
      PROVE  Cardinality(Admitted(u)') + Cardinality(Passed(u)')
               < MaxManual + Cardinality(Requests)
  <2>1. /\ Cardinality(Admitted(u)') <= Cardinality(Admitted(u))
        /\ Cardinality(Passed(u)') <= Cardinality(Passed(u))
    BY <1>1, <1>3, CardSubset
  <2> QED
    BY <1>1, <1>2, <2>1
<1>4. ASSUME board' = board PROVE Admitted(u)' = Admitted(u)
  BY <1>4 DEF Admitted, ManualOpen, Open
<1>5. ASSUME req' = req PROVE Passed(u)' = Passed(u)
  BY <1>5 DEF Passed
<1>6. ASSUME NEW r \in Requests, Reply(r) PROVE Passed(u)' \subseteq Passed(u) \ {r}
  BY <1>6 DEF Reply, NoRequest, Passed
<1>7. CASE UNCHANGED vars
  BY <1>3, <1>4, <1>5, <1>7 DEF vars
<1>8. CASE PollBegin \/ PollSeen \/ PollRepo \/ PollList \/ PollPick
           \/ PollInsertFails \/ PollNextRepo \/ PollEnd \/ TogglePolling
  BY <1>3, <1>4, <1>5, <1>8 DEF PollBegin, PollSeen, PollRepo, PollList,
       PollPick, PollInsertFails, PollNextRepo, PollEnd, TogglePolling
<1>9. CASE PollInsert
  <2>1. Admitted(u)' \subseteq Admitted(u)
    BY <1>9 DEF PollInsert, NewRow, Admitted, ManualOpen, Open
  <2> QED
    BY <1>3, <1>5, <1>9, <2>1 DEF PollInsert
<1>10. CASE Settle
  <2>1. Admitted(u)' \subseteq Admitted(u)
    BY <1>10 DEF Settle, Admitted, ManualOpen, Open, Row
  <2> QED
    BY <1>3, <1>5, <1>10, <2>1 DEF Settle
<1>11. CASE Delete
  <2>1. Admitted(u)' \subseteq Admitted(u)
    BY <1>11 DEF Delete, NoRow, Admitted, ManualOpen, Open
  <2> QED
    BY <1>3, <1>5, <1>11, <2>1 DEF Delete
<1>12. CASE Reopen
  <2>1. Admitted(u)' \subseteq Admitted(u)
    BY <1>12, StateSteps DEF Rows, Admitted, ManualOpen, Open
  <2> QED
    BY <1>3, <1>5, <1>12, <2>1 DEF Reopen
<1>13. ASSUME NEW r \in Requests, ManualKey(r)
       PROVE  Cardinality(Admitted(u)') + Cardinality(Passed(u)')
                < MaxManual + Cardinality(Requests)
  <2>1. Passed(u)' \subseteq Passed(u)
    BY <1>13 DEF ManualKey, Passed
  <2> QED
    BY <1>3, <1>4, <1>13, <2>1 DEF ManualKey
<1>14. ASSUME NEW r \in Requests, ManualCap(r)
       PROVE  Cardinality(Admitted(u)') + Cardinality(Passed(u)')
                < MaxManual + Cardinality(Requests)
  <2>1. CASE Reply(r)
    BY <1>3, <1>4, <1>6, <1>14, <2>1 DEF ManualCap
  <2>2. CASE SetReq(r, "repo") /\ UnderManualCap(req[r].user) /\ req[r].user = u
    <3>1. Cardinality(Admitted(u)) < MaxManual
      <4>1. Cardinality(ManualOpen(u)) < MaxManual
        BY <2>2 DEF UnderManualCap
      <4>2. Admitted(u) \subseteq ManualOpen(u) /\ ManualOpen(u) \subseteq Keys
        BY DEF Admitted, ManualOpen, Open
      <4>3. /\ Cardinality(Admitted(u)) <= Cardinality(ManualOpen(u))
            /\ Cardinality(ManualOpen(u)) \in Nat
        BY <4>2, CountsAreNat, CardSubset
      <4> QED
        BY <1>1, <4>1, <4>3
    <3>2. Admitted(u)' = Admitted(u)
      BY <1>4, <1>14 DEF ManualCap
    <3> QED
      BY <1>1, <3>1, <3>2
  <2>3. CASE SetReq(r, "repo") /\ req[r].user # u
    <3>1. Passed(u)' \subseteq Passed(u)
      BY <2>3 DEF SetReq, Passed, Request
    <3> QED
      BY <1>3, <1>4, <1>14, <3>1 DEF ManualCap
  <2> QED
    BY <1>14, <2>1, <2>2, <2>3 DEF ManualCap
<1>15. ASSUME NEW r \in Requests, ManualRepo(r)
       PROVE  Cardinality(Admitted(u)') + Cardinality(Passed(u)')
                < MaxManual + Cardinality(Requests)
  <2>1. Passed(u)' \subseteq Passed(u)
    <3>1. CASE Reply(r)
      BY <1>6, <3>1
    <3>2. CASE SetReq(r, "insert")
      BY <1>15, <3>2 DEF ManualRepo, SetReq, Passed, Request
    <3> QED
      BY <1>15, <3>1, <3>2 DEF ManualRepo
  <2> QED
    BY <1>3, <1>4, <1>15, <2>1 DEF ManualRepo
<1>16. ASSUME NEW r \in Requests, ManualInsert(r)
       PROVE  Cardinality(Admitted(u)') + Cardinality(Passed(u)')
                < MaxManual + Cardinality(Requests)
  <2>1. CASE req[r].user = u
    <3>1. r \in Passed(u)
      BY <1>16, <2>1 DEF ManualInsert, Passed
    <3>2. Cardinality(Passed(u)') + 1 <= Cardinality(Passed(u))
      BY <1>1, <1>6, <1>16, <3>1, CardDrop DEF ManualInsert
    <3>3. Admitted(u)' \subseteq Admitted(u) \cup {req[r].key}
      BY <1>16 DEF ManualInsert, Admitted, ManualOpen, Open
    <3>4. Cardinality(Admitted(u)') <= Cardinality(Admitted(u)) + 1
      BY <1>1, <3>3, CardGrow
    <3> QED
      BY <1>1, <1>2, <3>2, <3>4
  <2>2. CASE req[r].user # u
    <3>1. Admitted(u)' \subseteq Admitted(u)
      BY <1>16, <2>2 DEF ManualInsert, NewRow, Admitted, ManualOpen, Open
    <3> QED
      BY <1>3, <1>6, <1>16, <3>1 DEF ManualInsert
  <2> QED
    BY <2>1, <2>2
<1>17. ASSUME NEW r \in Requests, ManualInsertFails(r)
       PROVE  Cardinality(Admitted(u)') + Cardinality(Passed(u)')
                < MaxManual + Cardinality(Requests)
  BY <1>3, <1>4, <1>6, <1>17 DEF ManualInsertFails
<1>18. ASSUME NEW r \in Requests, RetryRemove(r)
       PROVE  Cardinality(Admitted(u)') + Cardinality(Passed(u)')
                < MaxManual + Cardinality(Requests)
  <2>1. Admitted(u)' \subseteq Admitted(u)
    BY <1>18 DEF RetryRemove, NoRow, Admitted, ManualOpen, Open
  <2>2. Passed(u)' \subseteq Passed(u)
    BY <1>18 DEF RetryRemove, Passed
  <2> QED
    BY <1>3, <2>1, <2>2
<1>19. ASSUME NEW r \in Requests, RetryInsert(r)
       PROVE  Cardinality(Admitted(u)') + Cardinality(Passed(u)')
                < MaxManual + Cardinality(Requests)
  <2>1. Admitted(u)' \subseteq Admitted(u)
    BY <1>19 DEF RetryInsert, NewRow, Retried, Admitted, ManualOpen, Open
  <2> QED
    BY <1>3, <1>6, <1>19, <2>1 DEF RetryInsert
<1> QED
  BY <1>7, <1>8, <1>9, <1>10, <1>11, <1>12, <1>13, <1>14, <1>15, <1>16, <1>17,
     <1>18, <1>19 DEF Next, PollStep, Serve

(* The manual cap is overrun by at most the number of other requests in    *)
(* flight, however they interleave.                                        *)
THEOREM ManualOverrun == Spec => []ManualOverrunBounded
<1> DEFINE Inv == Typed /\ ManualSlots
<1>1. Init => Inv
  BY TypedInit, ManualSlotsInit
<1>2. Inv /\ [Next]_vars => Inv'
  BY TypedNext, ManualSlotsNext
<1>3. Inv => ManualOverrunBounded
  <2> SUFFICES ASSUME Inv, MaxManual > 0, NEW u \in Users
               PROVE  Cardinality(Admitted(u)) < MaxManual + Cardinality(Requests)
    BY DEF ManualOverrunBounded
  <2> QED
    BY ManualCounts DEF ManualSlots
<1> QED
  BY <1>1, <1>2, <1>3, PTL DEF Spec
-----------------------------------------------------------------------------
(* No step makes an owner of a row disappear, nor a row without one.       *)
LEMMA OrphansNext ==
    ASSUME Typed, [Next]_vars
    PROVE  Orphans' \subseteq Orphans
<1> USE DEF Typed, TypeOK
<1> DEFINE Lost(b) == {k \in Keys : b[k].st # "absent" /\ b[k].user = NoUser}
           Kept(q) == {q[r].key : r \in {x \in Requests : /\ q[x].pc = "retry"
                                                         /\ q[x].user = NoUser}}
<1>1. Orphans = Lost(board) \cup Kept(req) /\ Orphans' = Lost(board') \cup Kept(req')
  BY DEF Orphans
<1>2. ASSUME NEW r \in Requests, Reply(r) PROVE Kept(req') \subseteq Kept(req)
  BY <1>2 DEF Reply, NoRequest
<1>3. ASSUME NEW r \in Requests, NEW pc, pc # "retry", SetReq(r, pc)
      PROVE  Kept(req') \subseteq Kept(req)
  BY <1>3 DEF SetReq, Request
<1>4. CASE UNCHANGED <<board, req>>
  BY <1>1, <1>4
<1>5. CASE PollInsert
  <2>1. Lost(board') \subseteq Lost(board) /\ Kept(req') = Kept(req)
    BY <1>5 DEF PollInsert, NewRow
  <2> QED
    BY <1>1, <2>1
<1>6. ASSUME NEW r \in Requests, ManualKey(r) PROVE Orphans' \subseteq Orphans
  <2>1. Lost(board') = Lost(board) /\ Kept(req') \subseteq Kept(req)
    BY <1>6 DEF ManualKey
  <2> QED
    BY <1>1, <2>1
<1>7. ASSUME NEW r \in Requests,
             ManualCap(r) \/ ManualRepo(r) \/ ManualInsertFails(r)
      PROVE  Orphans' \subseteq Orphans
  <2>1. Lost(board') = Lost(board) /\ Kept(req') \subseteq Kept(req)
    BY <1>2, <1>3, <1>7 DEF ManualCap, ManualRepo, ManualInsertFails
  <2> QED
    BY <1>1, <2>1
<1>9. ASSUME NEW r \in Requests, RetryRemove(r) PROVE Orphans' \subseteq Orphans
  <2>1. PICK k \in Keys :
          /\ board[k].st \in {"done", "ended"}
          /\ req' = [req EXCEPT ![r] =
                      [pc |-> "retry", user |-> board[k].user, key |-> k,
                       repo |-> board[k].repo]]
          /\ board' = [board EXCEPT ![k] = NoRow]
    BY <1>9 DEF RetryRemove
  <2>2. Lost(board') \subseteq Lost(board)
    BY <2>1 DEF NoRow
  <2>3. Kept(req') \subseteq Kept(req) \cup Lost(board)
    BY <2>1
  <2> QED
    BY <1>1, <2>2, <2>3
<1>10. ASSUME NEW r \in Requests, RetryInsert(r) PROVE Orphans' \subseteq Orphans
  <2>1. Kept(req') \subseteq Kept(req)
    BY <1>2, <1>10 DEF RetryInsert
  <2>2. Lost(board') \subseteq Lost(board) \cup Kept(req)
    BY <1>10 DEF RetryInsert, NewRow, Retried
  <2> QED
    BY <1>1, <2>1, <2>2
<1>11. CASE Settle \/ Reopen
  <2>1. Lost(board') \subseteq Lost(board)
    BY <1>11, StateSteps DEF Rows
  <2> QED
    BY <1>1, <1>11, <2>1 DEF Settle, Reopen
<1>12. CASE Delete
  <2>1. Lost(board') \subseteq Lost(board) /\ Kept(req') = Kept(req)
    BY <1>12 DEF Delete, NoRow
  <2> QED
    BY <1>1, <2>1
<1>13. ASSUME NEW r \in Requests, ManualInsert(r) PROVE Orphans' \subseteq Orphans
  <2>1. Lost(board') \subseteq Lost(board)
    BY <1>13 DEF ManualInsert, NewRow, KeyChosen
  <2>2. Kept(req') \subseteq Kept(req)
    BY <1>2, <1>13 DEF ManualInsert
  <2> QED
    BY <1>1, <2>1, <2>2
<1> QED
  <2>1. CASE \/ PollBegin \/ PollSeen \/ PollRepo \/ PollList \/ PollPick
             \/ PollInsertFails \/ PollNextRepo \/ PollEnd \/ TogglePolling
             \/ UNCHANGED vars
    BY <1>4, <2>1 DEF PollBegin, PollSeen, PollRepo, PollList, PollPick,
         PollInsertFails, PollNextRepo, PollEnd, TogglePolling, vars
  <2> QED
    BY <2>1, <1>5, <1>6, <1>7, <1>9, <1>10, <1>11, <1>12, <1>13
       DEF Next, PollStep, Serve

(* Neither the poller, nor a request, nor a retry ever puts a row on the   *)
(* board that has no owner, for any number of them at once.                *)
THEOREM OwnersAreKept == Spec => OrphansOnlyShrink
<1>1. Typed /\ [Next]_vars => [Orphans' \subseteq Orphans]_vars
  BY OrphansNext
<1> QED
  BY <1>1, TypedInit, TypedNext, PTL DEF Spec, OrphansOnlyShrink
-----------------------------------------------------------------------------
(* The budget the poll still has in the repository it is in.               *)
Counted == {k \in Open : PerUser => board[k].user = Owner}

RepoBudget ==
    poll.pc \in {"list", "tickets", "start"} =>
        /\ poll.here <= poll.budget
        /\ poll.pc = "start" => poll.here < poll.budget
        /\ MaxItems[poll.repo] > 0 =>
            Cardinality(Counted) + (poll.budget - poll.here) <= MaxItems[poll.repo]

LEMMA RepoBudgetNext ==
    ASSUME Requests = {}, "reopen" \notin Ops, Typed, Typed', RepoBudget, [Next]_vars
    PROVE  RepoBudget'
<1> USE DEF Typed, TypeOK
<1>1. /\ IsFiniteSet(Counted) /\ Cardinality(Counted) \in Nat
      /\ Cardinality(Counted') \in Nat
  BY CountsAreNat DEF Counted, Open
<1>2. /\ poll.here \in Nat /\ poll.budget \in Nat /\ poll.repo \in Repos
      /\ poll'.here \in Nat /\ poll'.budget \in Nat /\ poll'.repo \in Repos
      /\ MaxItems[poll.repo] \in Nat /\ MaxItems[poll'.repo] \in Nat
  BY DEF Poll
<1>3. ASSUME board' = board PROVE Counted' = Counted
  BY <1>3 DEF Counted, Open
<1>4. ASSUME Counted' \subseteq Counted, poll' = poll PROVE RepoBudget'
  <2>1. Cardinality(Counted') <= Cardinality(Counted)
    BY <1>1, <1>4, CardSubset
  <2> QED
    BY <1>1, <1>2, <1>4, <2>1 DEF RepoBudget
<1>5. CASE UNCHANGED vars
  BY <1>3, <1>4, <1>5 DEF vars
<1>6. CASE PollBegin \/ PollSeen \/ PollNextRepo \/ PollEnd
  <2>1. poll'.pc \notin {"list", "tickets", "start"}
    <3>1. CASE PollBegin
      BY <3>1 DEF PollBegin, NoPoll
    <3>2. CASE PollSeen \/ PollNextRepo
      BY <3>2 DEF PollSeen, PollNextRepo, Poll
    <3>3. CASE PollEnd
      BY <3>3 DEF PollEnd, NoPoll
    <3> QED
      BY <1>6, <3>1, <3>2, <3>3
  <2> QED
    BY <2>1 DEF RepoBudget
<1>7. CASE PollRepo
  <2>1. PICK r \in poll.left :
          poll' = IF r \in AutoRepos /\ SlotsOf(r) > 0
                  THEN [poll EXCEPT
                          !.pc = "list", !.repo = r, !.left = @ \ {r}, !.here = 0,
                          !.budget = Least(poll.slots - poll.started, SlotsOf(r))]
                  ELSE [poll EXCEPT !.left = @ \ {r}]
    BY <1>7 DEF PollRepo
  <2>2. CASE ~(r \in AutoRepos /\ SlotsOf(r) > 0)
    BY <1>7, <2>1, <2>2 DEF PollRepo, RepoBudget, Poll
  <2>3. CASE r \in AutoRepos /\ SlotsOf(r) > 0
    <3>1. /\ poll'.pc = "list" /\ poll'.repo = r /\ poll'.here = 0
          /\ poll'.budget = Least(poll.slots - poll.started, SlotsOf(r))
      BY <2>1, <2>3 DEF Poll
    <3>2. /\ r \in Repos /\ SlotsOf(r) \in Nat /\ MaxItems[r] \in Nat
          /\ poll.slots - poll.started \in Nat
      <4>1. /\ r \in Repos /\ poll.slots \in Nat /\ poll.started \in Nat
            /\ poll.started < poll.slots
        BY <1>7 DEF PollRepo, Poll
      <4> QED
        BY <4>1, SlotsAreNat
    <3>3. poll'.budget <= SlotsOf(r)
      BY <3>1, <3>2 DEF Least
    <3>4. MaxItems[r] > 0 => SlotsOf(r) + Cardinality(Counted) <= MaxItems[r]
      <4>1. InUse(Owner) = Cardinality(Counted)
        BY DEF InUse, Counted
      <4> QED
        BY <1>1, <2>3, <3>2, <4>1 DEF SlotsOf
    <3>5. Counted' = Counted
      BY <1>3, <1>7 DEF PollRepo
    <3> QED
      BY <1>1, <1>2, <3>1, <3>2, <3>3, <3>4, <3>5 DEF RepoBudget
  <2> QED
    BY <2>2, <2>3
<1>8. CASE PollList \/ PollInsertFails
  <2>1. /\ poll'.here = poll.here /\ poll'.budget = poll.budget
        /\ poll'.repo = poll.repo /\ poll'.pc = "tickets"
        /\ poll.pc \in {"list", "start"} /\ Counted' = Counted
    BY <1>3, <1>8 DEF PollList, PollInsertFails, Poll
  <2> QED
    BY <2>1 DEF RepoBudget
<1>9. CASE PollPick
  <2>1. /\ poll'.here = poll.here /\ poll'.budget = poll.budget
        /\ poll'.repo = poll.repo /\ poll'.pc = "start"
        /\ poll.pc = "tickets" /\ poll.here < poll.budget /\ Counted' = Counted
    BY <1>3, <1>9 DEF PollPick, Poll, RoomInRepo
  <2> QED
    BY <2>1 DEF RepoBudget
<1>10. CASE PollInsert
  <2>1. Counted' \subseteq Counted \cup {poll.key}
    BY <1>10 DEF PollInsert, Counted, Open
  <2>2. Cardinality(Counted') <= Cardinality(Counted) + 1
    BY <1>1, <2>1, CardGrow
  <2>3. /\ poll'.here = poll.here + 1 /\ poll'.budget = poll.budget
        /\ poll'.repo = poll.repo /\ poll'.pc = "tickets" /\ poll.pc = "start"
    BY <1>10 DEF PollInsert, Poll
  <2> QED
    BY <1>1, <1>2, <2>2, <2>3 DEF RepoBudget
<1>11. CASE TogglePolling
  BY <1>3, <1>4, <1>11 DEF TogglePolling
<1>12. CASE Settle
  <2>1. Counted' \subseteq Counted
    BY <1>12 DEF Settle, Counted, Open, Row
  <2> QED
    BY <1>4, <1>12, <2>1 DEF Settle
<1>13. CASE Delete
  <2>1. Counted' \subseteq Counted
    BY <1>13 DEF Delete, Counted, Open, NoRow
  <2> QED
    BY <1>4, <1>13, <2>1 DEF Delete
<1>14. ~Reopen /\ ~(\E r \in Requests : Serve(r))
  BY DEF Reopen
<1> QED
  BY <1>5, <1>6, <1>7, <1>8, <1>9, <1>10, <1>11, <1>12, <1>13, <1>14
     DEF Next, PollStep

(* With nobody else adding or reopening rows, the poller never inserts a   *)
(* row in a repository that is at its max_parallel_items, for any number   *)
(* of repositories with any caps, counted per user or over all users.      *)
THEOREM PollerKeepsTheRepoCap ==
    ASSUME Requests = {}, "reopen" \notin Ops
    PROVE  Spec => PollerKeepsRepoCap
<1> DEFINE Inv == Typed /\ RepoBudget
<1>1. Init => Inv
  BY TypedInit DEF Init, NoPoll, RepoBudget
<1>2. Inv /\ [Next]_vars => Inv'
  BY TypedNext, RepoBudgetNext
<1>3. Inv => (PollInsert => UnderRepoCap(Owner, poll.repo))
  <2> SUFFICES ASSUME Inv, PollInsert PROVE UnderRepoCap(Owner, poll.repo)
    OBVIOUS
  <2>1. Cardinality(Counted) \in Nat /\ InUse(Owner) = Cardinality(Counted)
    BY CountsAreNat DEF Counted, Open, InUse
  <2>2. /\ poll.here \in Nat /\ poll.budget \in Nat
        /\ MaxItems[poll.repo] \in Nat
    BY DEF Typed, TypeOK, Poll
  <2> QED
    BY <2>1, <2>2 DEF PollInsert, RepoBudget, UnderRepoCap
<1>4. Inv /\ [Next]_vars => [PollInsert => UnderRepoCap(Owner, poll.repo)]_vars
  BY <1>3
<1> QED
  BY <1>1, <1>2, <1>4, PTL DEF Spec, PollerKeepsRepoCap
----------------------------------------------------------------------------
(* The tickets on the Jira board (JiraBoard).                              *)

HIDE IntakeAssumption

(* What the site lists first is one of what was found.                     *)
LEMMA FirstIsFound ==
    ASSUME NEW found \in SUBSET JbFlow, found # {}
    PROVE  Listed1st(found) \in found
<1> DEFINE ids == {tr.id : tr \in found}
<1>1. ids \subseteq Nat /\ ids # {}
  <2>1. \A tr \in found : tr.id \in Nat
    BY SiteAssumption
  <2>2. PICK tr \in found : TRUE
    OBVIOUS
  <2> QED BY <2>1, <2>2
<1>2. PICK i \in ids : \A j \in ids : ~(<<j, i>> \in OpToRel(<, Nat))
  <2>1. IsWellFoundedOn(OpToRel(<, Nat), Nat)
    BY NatLessThanWellFounded
  <2> HIDE DEF ids
  <2> QED BY <1>1, <2>1, WFMin, Zenon
<1>3. PICK tr \in found : tr.id = i
  OBVIOUS
<1>4. \A other \in found : tr.id <= other.id
  <2> SUFFICES ASSUME NEW other \in found PROVE tr.id <= other.id
    OBVIOUS
  <2>1. other.id \in ids /\ other.id \in Nat /\ i \in Nat
    BY <1>1
  <2>2. ~(other.id < i)
    BY <1>2, <2>1 DEF OpToRel
  <2> QED BY <1>3, <2>1, <2>2
<1> QED BY <1>3, <1>4 DEF Listed1st

Picked(seen, s, lang) == Listed1st(PickTransition(seen, s, lang))

(* What a request picks leads to the status of that name, if one of those  *)
(* it saw does, and to one that means the same otherwise.                  *)
LEMMA PickedIsMeant ==
    ASSUME NEW seen \in SUBSET JbFlow, NEW s \in JbTargets, NEW lang \in DOMAIN JbShown,
           PickTransition(seen, s, lang) # {}
    PROVE  LET tr == Picked(seen, s, lang)
           IN  /\ tr \in seen /\ tr.to \in DOMAIN JbCategory
               /\ \/ JbShown[lang][tr.to] = s
                  \/ /\ \A o \in seen : JbShown[lang][o.to] # s
                     /\ JbCategory[tr.to] = TargetCategory(s)
<1> DEFINE tr == Picked(seen, s, lang)
<1>1. PickTransition(seen, s, lang) \in SUBSET JbFlow
  BY DEF PickTransition, ByStatus, ByName, ByCategory
<1>2. tr \in PickTransition(seen, s, lang)
  BY <1>1, FirstIsFound DEF Picked
<1>3. tr \in seen /\ tr.to \in DOMAIN JbCategory
  BY <1>2, SiteAssumption DEF PickTransition, ByStatus, ByName, ByCategory
<1>4. CASE ByStatus(seen, s, lang) # {}
  BY <1>2, <1>3, <1>4 DEF PickTransition, ByStatus
<1>5. CASE ByStatus(seen, s, lang) = {}
  <2>1. \A o \in seen : JbShown[lang][o.to] # s
    BY <1>5 DEF ByStatus
  <2>2. tr.name = s \/ JbCategory[tr.to] = TargetCategory(s)
    BY <1>2, <1>5 DEF PickTransition, ByName, ByCategory
  <2>3. JbCategory[tr.to] = TargetCategory(s)
    BY <2>2, <1>3, SiteAssumption
  <2> QED BY <2>1, <2>3, <1>3
<1> QED BY <1>4, <1>5

DoneStatus(st) == st = JbDone \/ (st \in DOMAIN JbCategory /\ JbCategory[st] = "done")

(* A request for a target other than To Do does not move a ticket there,   *)
(* and one that closes it moves it to a done status.                       *)
LEMMA PickedLeavesToDo ==
    ASSUME NEW seen \in SUBSET JbFlow, NEW s \in {"In Progress", JbDone},
           NEW lang \in DOMAIN JbShown, PickTransition(seen, s, lang) # {}
    PROVE  /\ Picked(seen, s, lang).to # "To Do"
           /\ s = JbDone => DoneStatus(Picked(seen, s, lang).to)
<1> DEFINE to == Picked(seen, s, lang).to
<1>1. /\ to \in DOMAIN JbCategory
      /\ JbShown[lang][to] = s \/ JbCategory[to] = TargetCategory(s)
  BY PickedIsMeant DEF JbTargets
<1> HIDE DEF to
<1> SUFFICES to # "To Do" /\ (s = JbDone => DoneStatus(to))
  BY DEF to
<1>2. CASE JbShown[lang][to] = s
  <2>1. /\ JbShown[lang][to] = "In Progress" => to # "To Do"
        /\ JbShown[lang][to] = JbDone => to = JbDone \/ JbCategory[to] = "done"
    BY <1>1, SiteAssumption
  <2> QED BY <1>1, <1>2, <2>1, SiteAssumption DEF DoneStatus
<1>3. CASE JbCategory[to] = TargetCategory(s)
  BY <1>1, <1>3, SiteAssumption DEF DoneStatus, TargetCategory
<1> QED BY <1>1, <1>2, <1>3

----------------------------------------------------------------------------
(* The invariant.                                                          *)

Kinds == {"claim", "drive", "revert", "undo", "drop", "close"}
JbPcs == {"idle", "check", "assign", "move", "post", "details", "end"}
Statuses == DOMAIN JbCategory
Issues == [JbKeys -> [st : Statuses, who : JbUsers \cup {"", Host}]]
Items == [JbKeys -> [st : {"none", "added", "running", "stopped", "done"},
                     owner : JbUsers \cup {""}]]
Call == [pc : JbPcs, kind : Kinds \cup {""}, key : JbKeys \cup {0}, owner : JbUsers \cup {""},
         seen : SUBSET JbFlow, to : Statuses \cup {""}, ok : BOOLEAN]
BoardType ==
    /\ jbIssue \in Issues /\ jbItem \in Items /\ jbTask \in [JbTasks -> Call]
    /\ jbCred \in [JbUsers -> {"none", "good", "revoked", "unreadable"}]
    /\ jbLang \in [JbUsers -> DOMAIN JbShown]
    /\ jbTouched \in SUBSET JbKeys /\ jbReverted \in SUBSET JbKeys

(* An item has an owner.                                                   *)
ItemsOwned == \A k \in JbKeys : jbItem[k].st # "none" => jbItem[k].owner \in JbUsers

(* A call is about a ticket and an owner; it gives a ticket back only for  *)
(* a stop or a delete; what it posts it has picked; what closed a ticket   *)
(* moved it to a done status.                                              *)
CallSound(a, reverted, lang) ==
    /\ a.pc = "idle" => a.kind = ""
    /\ a.pc # "idle" => a.kind \in Kinds /\ a.key \in JbKeys /\ a.owner \in JbUsers
    /\ a.kind \in {"revert", "undo"} => a.key \in reverted
    /\ a.pc \in {"check", "details"} => a.kind = "drive"
    /\ a.pc = "end" => a.kind # "drive"
    /\ a.kind = "drop" => a.pc = "end"
    /\ a.pc = "post" => PickTransition(a.seen, JbTarget(a.kind), lang[a.owner]) # {}
    /\ a.kind = "close" /\ a.pc = "end" /\ a.ok => DoneStatus(a.to)
CallsSound == \A t \in JbTasks : CallSound(jbTask[t], jbReverted, jbLang)

(* As long as one ticket is untouched, no credential has been rejected.    *)
CredentialsGood ==
    (\E k \in JbKeys : k \notin jbTouched) => \A u \in JbUsers : jbCred[u] \in {"none", "good"}

(* A ticket nobody touched or gave back: its driver takes it out of To Do, *)
(* or it has been taken out already.                                       *)
Kept(k) == k \notin jbTouched \cup jbReverted
Drives(t, k) == jbTask[t].kind = "drive" /\ jbTask[t].key = k
DriverSound(a, issue) ==
    /\ a.pc \in {"move", "post", "details"} => issue.who # ""
    /\ a.pc = "details" => issue.st # "To Do"
    /\ a.pc = "post" /\ issue.st = "To Do" => a.seen = Available("To Do")
DriversSound ==
    \A t \in JbTasks, k \in JbKeys :
        Kept(k) /\ Drives(t, k) => DriverSound(jbTask[t], jbIssue[k])
Claimed(k) == jbIssue[k].st # "To Do" /\ jbIssue[k].who # ""
RunningClaimed ==
    \A k \in JbKeys : Kept(k) /\ jbItem[k].st = "running" =>
        Claimed(k) \/ \E t \in JbTasks : Drives(t, k)

JbInv == BoardType /\ ItemsOwned /\ CallsSound /\ CredentialsGood /\ DriversSound /\ RunningClaimed

LEMMA BoardStart == JbInit => JbInv
<1> SUFFICES ASSUME JbInit PROVE JbInv
  OBVIOUS
<1>1. BoardType
  BY SiteAssumption DEF JbInit, BoardType, Issues, Items, Call, NoItemJb, IdleJb, JbPcs,
                         Statuses
<1>2. ItemsOwned /\ CallsSound /\ CredentialsGood
  BY DEF JbInit, ItemsOwned, CallsSound, CallSound, CredentialsGood, NoItemJb, IdleJb
<1>3. DriversSound /\ RunningClaimed
  BY DEF JbInit, DriversSound, RunningClaimed, Drives, NoItemJb, IdleJb
<1> QED BY <1>1, <1>2, <1>3 DEF JbInv

(* Another ticket given back takes nothing from a call.                    *)
LEMMA StaysSound ==
    ASSUME NEW a, NEW b, b = a, NEW reverted, NEW more, reverted \subseteq more,
           NEW lang, NEW same, same = lang, CallSound(a, reverted, lang)
    PROVE  CallSound(b, more, same)
  BY DEF CallSound

(* A ticket out of To Do and assigned takes nothing from a driver.         *)
LEMMA StaysDriver ==
    ASSUME NEW a, NEW b, b = a, NEW old, NEW new, DriverSound(a, old),
           old.who # "" => new.who # "", old.st # "To Do" => new.st # "To Do"
    PROVE  DriverSound(b, new)
  BY DEF DriverSound

(* What a step of one call, or one that begins a call, has to keep.        *)
LEMMA CallStep ==
    ASSUME JbInv, BoardType', ItemsOwned', NEW t \in JbTasks,
           jbTask' = [jbTask EXCEPT ![t] = jbTask'[t]],
           CallSound(jbTask'[t], jbReverted', jbLang'),
           UNCHANGED <<jbLang, jbCred>>,
           jbTouched \subseteq jbTouched', jbReverted \subseteq jbReverted',
           \A k \in JbKeys : Kept(k)' =>
              /\ jbIssue[k].who # "" => jbIssue'[k].who # ""
              /\ jbIssue[k].st # "To Do" => jbIssue'[k].st # "To Do"
              /\ Drives(t, k)' => DriverSound(jbTask'[t], jbIssue'[k])
              /\ jbItem'[k].st = "running" =>
                   /\ jbItem[k].st = "running" \/ Drives(t, k)'
                   /\ Drives(t, k) => Drives(t, k)' \/ Claimed(k)'
    PROVE  JbInv'
<1>1. \A s \in JbTasks : s # t => jbTask'[s] = jbTask[s]
  BY DEF BoardType
<1>2. \A k \in JbKeys : Kept(k)' => Kept(k)
  BY DEF Kept
<1>3. CallsSound'
  <2> SUFFICES ASSUME NEW s \in JbTasks, s # t
               PROVE  CallSound(jbTask'[s], jbReverted', jbLang')
    BY DEF CallsSound
  <2>1. CallSound(jbTask[s], jbReverted, jbLang) /\ jbTask'[s] = jbTask[s]
    BY <1>1 DEF JbInv, CallsSound
  <2> QED BY <2>1, StaysSound
<1>4. CredentialsGood'
  BY DEF JbInv, CredentialsGood
<1>5. DriversSound'
  <2> SUFFICES ASSUME NEW s \in JbTasks, NEW k \in JbKeys, Kept(k)', Drives(s, k)'
               PROVE  DriverSound(jbTask'[s], jbIssue'[k])
    BY DEF DriversSound
  <2>1. CASE s = t
    BY <2>1
  <2>2. CASE s # t
    <3>1. Drives(s, k) /\ Kept(k) /\ jbTask'[s] = jbTask[s]
      BY <1>1, <1>2, <2>2 DEF Drives
    <3>2. DriverSound(jbTask[s], jbIssue[k])
      BY <3>1 DEF JbInv, DriversSound
    <3>3. /\ jbIssue[k].who # "" => jbIssue'[k].who # ""
          /\ jbIssue[k].st # "To Do" => jbIssue'[k].st # "To Do"
      OBVIOUS
    <3> QED BY <3>1, <3>2, <3>3, StaysDriver
  <2> QED BY <2>1, <2>2
<1>6. RunningClaimed'
  <2> SUFFICES ASSUME NEW k \in JbKeys, Kept(k)', jbItem'[k].st = "running"
               PROVE  Claimed(k)' \/ \E s \in JbTasks : Drives(s, k)'
    BY DEF RunningClaimed
  <2>1. CASE jbItem[k].st # "running"
    BY <2>1
  <2>2. CASE jbItem[k].st = "running" /\ Claimed(k)
    BY <2>2 DEF Claimed
  <2>3. CASE jbItem[k].st = "running" /\ ~Claimed(k)
    <3>1. PICK s \in JbTasks : Drives(s, k)
      BY <1>2, <2>3 DEF JbInv, RunningClaimed
    <3>2. CASE s = t
      BY <3>1, <3>2
    <3>3. CASE s # t
      BY <1>1, <3>1, <3>3 DEF Drives
    <3> QED BY <3>2, <3>3
  <2> QED BY <2>1, <2>2, <2>3
<1> QED BY <1>3, <1>4, <1>5, <1>6 DEF JbInv

(* A call begins.                                                          *)
LEMMA SpawnStep ==
    ASSUME JbInv, ItemsOwned', NEW t \in JbTasks, NEW kind \in Kinds, NEW k \in JbKeys,
           NEW u \in JbUsers, JbFree(t), Spawn(t, kind, k, u),
           jbItem' \in Items,
           jbReverted' \in {jbReverted, jbReverted \cup {k}},
           kind \in {"revert", "undo"} => k \in jbReverted',
           \A q \in JbKeys : jbItem'[q].st = "running" =>
                jbItem[q].st = "running" \/ (q = k /\ kind = "drive"),
           UNCHANGED JbOthers
    PROVE  JbInv'
<1> DEFINE a == [IdleJb EXCEPT !.pc = IF kind = "drive" THEN "check"
                              ELSE IF kind = "close" THEN "move"
                              ELSE IF kind = "drop" THEN "end" ELSE "assign",
                       !.kind = kind, !.key = k, !.owner = u]
<1>1. /\ jbTask' = [jbTask EXCEPT ![t] = a] /\ jbTask'[t] = a /\ jbTask[t].kind = ""
      /\ jbTask[t].pc = "idle"
  BY DEF JbInv, BoardType, CallsSound, CallSound, Spawn, JbFree
<1>2. /\ a.pc = (IF kind = "drive" THEN "check" ELSE IF kind = "close" THEN "move"
                 ELSE IF kind = "drop" THEN "end" ELSE "assign")
      /\ a.kind = kind /\ a.key = k /\ a.owner = u /\ a.seen = {} /\ a.to = "" /\ a.ok = TRUE
      /\ a \in Call
  BY DEF IdleJb, Call, JbPcs, Kinds
<1> HIDE DEF a
<1>3. BoardType'
  <2>1. jbTask' \in [JbTasks -> Call]
    BY <1>1, <1>2 DEF JbInv, BoardType
  <2>2. jbReverted' \in SUBSET JbKeys
    BY DEF JbInv, BoardType
  <2> QED BY <2>1, <2>2 DEF JbInv, BoardType, JbOthers
<1>4. CallSound(jbTask'[t], jbReverted', jbLang')
  BY <1>1, <1>2 DEF CallSound, Kinds
<1>5. \A q \in JbKeys : Drives(t, q)' => DriverSound(jbTask'[t], jbIssue'[q])
  BY <1>1, <1>2 DEF Drives, DriverSound
<1>6. \A q \in JbKeys : ~Drives(t, q) /\ (Drives(t, q)' <=> q = k /\ kind = "drive")
  BY <1>1, <1>2 DEF Drives
<1>7. /\ jbTask' = [jbTask EXCEPT ![t] = jbTask'[t]] /\ UNCHANGED <<jbLang, jbCred, jbIssue>>
      /\ jbTouched \subseteq jbTouched' /\ jbReverted \subseteq jbReverted'
  BY <1>1 DEF JbOthers
<1> QED BY <1>3, <1>4, <1>5, <1>6, <1>7, CallStep

LEMMA ItemSteps ==
    ASSUME JbInv, NEW t \in JbTasks, NEW k \in JbKeys,
           \/ \E u \in JbUsers : AddItem(t, k, u)
           \/ StartItem(t, k) \/ StopJbItem(t, k) \/ DeleteItem(t, k) \/ MarkDone(t, k)
    PROVE  JbInv'
<1>0. jbItem \in Items /\ ItemsOwned
  BY DEF JbInv, BoardType
<1>1. ASSUME NEW u \in JbUsers, AddItem(t, k, u) PROVE JbInv'
  <2>1. jbItem' = [jbItem EXCEPT ![k] = [st |-> "added", owner |-> u]]
    BY <1>1 DEF AddItem
  <2>2. jbItem' \in Items /\ ItemsOwned'
    BY <1>0, <2>1 DEF Items, ItemsOwned
  <2>3. \A q \in JbKeys : jbItem'[q].st = "running" => jbItem[q].st = "running"
    BY <1>0, <2>1 DEF Items
  <2> QED BY <1>1, <2>2, <2>3, SpawnStep DEF AddItem, Kinds
<1>2. ASSUME NEW st \in {"running", "stopped"}, jbItem[k].st # "none", SetItem(k, st)
      PROVE  /\ jbItem' \in Items /\ ItemsOwned' /\ jbItem[k].owner \in JbUsers
             /\ \A q \in JbKeys : jbItem'[q].st = "running" =>
                   jbItem[q].st = "running" \/ (q = k /\ st = "running")
  BY <1>0, <1>2 DEF SetItem, Items, ItemsOwned
<1>3. ASSUME jbItem[k].st # "none", UNCHANGED jbItem
      PROVE  jbItem' \in Items /\ ItemsOwned' /\ jbItem[k].owner \in JbUsers
  BY <1>0, <1>3 DEF ItemsOwned
<1>4. CASE StartItem(t, k)
  <2>1. jbItem[k].st # "none" /\ SetItem(k, "running") /\ JbFree(t)
    BY <1>4 DEF StartItem
  <2> QED BY <1>2, <1>4, <2>1, SpawnStep DEF StartItem, Kinds
<1>5. CASE StopJbItem(t, k)
  <2>1. jbItem[k].st # "none" /\ SetItem(k, "stopped") /\ JbFree(t)
    BY <1>5 DEF StopJbItem
  <2> QED BY <1>2, <1>5, <2>1, SpawnStep DEF StopJbItem, Kinds
<1>6. CASE DeleteItem(t, k)
  <2>1. jbItem[k].st # "none" /\ UNCHANGED jbItem /\ JbFree(t)
    BY <1>6 DEF DeleteItem
  <2> QED BY <1>3, <1>6, <2>1, SpawnStep DEF DeleteItem, Kinds
<1>7. CASE MarkDone(t, k)
  <2>1. jbItem[k].st # "none" /\ UNCHANGED jbItem /\ JbFree(t)
    BY <1>7 DEF MarkDone
  <2> QED BY <1>3, <1>7, <2>1, SpawnStep DEF MarkDone, Kinds
<1> QED BY <1>1, <1>4, <1>5, <1>6, <1>7

(* What is known of a call that has begun and not ended.                   *)
LEMMA CallKnown ==
    ASSUME JbInv, NEW t \in JbTasks, jbTask[t].pc # "idle"
    PROVE  /\ jbTask[t] \in Call /\ jbTask[t].kind \in Kinds
           /\ jbTask[t].key \in JbKeys /\ jbTask[t].owner \in JbUsers
           /\ CallSound(jbTask[t], jbReverted, jbLang)
           /\ jbLang[jbTask[t].owner] \in DOMAIN JbShown
           /\ jbIssue[jbTask[t].key].st \in Statuses
  BY DEF JbInv, BoardType, CallsSound, CallSound, Call, Issues

LEMMA IssueAssigned ==
    ASSUME jbIssue \in Issues, NEW k \in JbKeys, NEW who \in JbUsers \cup {"", Host},
           jbIssue' = [jbIssue EXCEPT ![k].who = who]
    PROVE  /\ jbIssue' \in Issues /\ jbIssue'[k].who = who /\ jbIssue'[k].st = jbIssue[k].st
           /\ \A q \in JbKeys : q # k => jbIssue'[q] = jbIssue[q]
  BY DEF Issues

LEMMA IssueMoved ==
    ASSUME jbIssue \in Issues, NEW k \in JbKeys, NEW st \in Statuses,
           jbIssue' = [jbIssue EXCEPT ![k].st = st]
    PROVE  /\ jbIssue' \in Issues /\ jbIssue'[k].st = st /\ jbIssue'[k].who = jbIssue[k].who
           /\ \A q \in JbKeys : q # k => jbIssue'[q] = jbIssue[q]
  BY DEF Issues

(* A call goes on.                                                         *)
LEMMA CallMoves ==
    ASSUME JbInv, NEW t \in JbTasks, NEW b \in Call, jbTask[t].pc # "idle",
           jbTask' = [jbTask EXCEPT ![t] = b], b.kind = jbTask[t].kind, b.key = jbTask[t].key,
           jbIssue' \in Issues,
           UNCHANGED <<jbItem, jbCred, jbLang, jbReverted>>,
           jbTouched \subseteq jbTouched', jbTouched' \in SUBSET JbKeys,
           CallSound(b, jbReverted, jbLang),
           \A k \in JbKeys : Kept(k)' =>
              /\ jbIssue[k].who # "" => jbIssue'[k].who # ""
              /\ jbIssue[k].st # "To Do" => jbIssue'[k].st # "To Do",
           b.kind = "drive" /\ Kept(b.key)' => DriverSound(b, jbIssue'[b.key])
    PROVE  JbInv'
<1>1. jbTask'[t] = b
  BY DEF JbInv, BoardType
<1>2. BoardType'
  <2>1. jbTask' \in [JbTasks -> Call]
    BY DEF JbInv, BoardType, Call
  <2> QED BY <2>1 DEF JbInv, BoardType, Call
<1>3. ItemsOwned'
  BY DEF JbInv, ItemsOwned
<1>4. \A k \in JbKeys : Drives(t, k)' <=> Drives(t, k)
  BY <1>1 DEF Drives
<1>5. CallSound(jbTask'[t], jbReverted', jbLang')
  BY <1>1, StaysSound
<1>6. \A k \in JbKeys : Kept(k)' /\ Drives(t, k)' => DriverSound(jbTask'[t], jbIssue'[k])
  BY <1>1 DEF Drives
<1>7. jbTask' = [jbTask EXCEPT ![t] = jbTask'[t]] /\ jbReverted \subseteq jbReverted'
  BY <1>1
<1> QED BY <1>2, <1>3, <1>4, <1>5, <1>6, <1>7, CallStep

(* A call ends; the driver of an item that runs has claimed its ticket.    *)
LEMMA CallCloses ==
    ASSUME JbInv, NEW t \in JbTasks, jbTask' = [jbTask EXCEPT ![t] = IdleJb],
           UNCHANGED <<jbIssue, jbCred, jbLang, jbTouched, jbReverted>>,
           \/ UNCHANGED jbItem
           \/ \E k \in JbKeys : jbItem' = [jbItem EXCEPT ![k] = NoItemJb],
           \A k \in JbKeys : Kept(k) /\ Drives(t, k) /\ jbItem[k].st = "running" => Claimed(k)
    PROVE  JbInv'
<1>1. jbTask'[t] = IdleJb
  BY DEF JbInv, BoardType
<1>2. IdleJb \in Call /\ IdleJb.kind = "" /\ CallSound(IdleJb, jbReverted, jbLang)
  BY DEF IdleJb, Call, JbPcs, CallSound
<1>3. /\ jbItem' \in Items
      /\ ItemsOwned'
      /\ \A k \in JbKeys : jbItem'[k].st = "running" => jbItem[k].st = "running"
  <2>1. CASE UNCHANGED jbItem
    BY <2>1 DEF JbInv, BoardType, ItemsOwned
  <2>2. ASSUME NEW k \in JbKeys, jbItem' = [jbItem EXCEPT ![k] = NoItemJb]
        PROVE  \A q \in JbKeys : jbItem'[q] = IF q = k THEN NoItemJb ELSE jbItem[q]
    BY <2>2 DEF JbInv, BoardType, Items
  <2>3. /\ NoItemJb.st = "none"
        /\ NoItemJb \in [st : {"none", "added", "running", "stopped", "done"},
                         owner : JbUsers \cup {""}]
    BY DEF NoItemJb
  <2>4. ASSUME NEW k \in JbKeys, jbItem' = [jbItem EXCEPT ![k] = NoItemJb]
        PROVE  <1>3!1 /\ <1>3!2 /\ <1>3!3
    BY <2>2, <2>3, <2>4 DEF JbInv, BoardType, Items, ItemsOwned
  <2> QED BY <2>1, <2>4
<1>4. BoardType'
  <2>1. jbTask' \in [JbTasks -> Call]
    BY <1>2 DEF JbInv, BoardType, Call
  <2> QED BY <1>3, <2>1 DEF JbInv, BoardType, Call
<1>5. CallSound(jbTask'[t], jbReverted', jbLang')
  BY <1>1, <1>2, StaysSound
<1>6. \A k \in JbKeys : ~Drives(t, k)'
  BY <1>1, <1>2 DEF Drives
<1>7. \A k \in JbKeys : (Kept(k)' <=> Kept(k)) /\ (Claimed(k)' <=> Claimed(k))
  BY DEF Kept, Claimed
<1>8. jbTask' = [jbTask EXCEPT ![t] = jbTask'[t]] /\ jbReverted \subseteq jbReverted'
      /\ jbTouched \subseteq jbTouched'
  BY <1>1
<1> QED BY <1>3, <1>4, <1>5, <1>6, <1>7, <1>8, CallStep

(* A site whose credentials were not rejected: the owner of a call about a *)
(* ticket nobody touched is one whose requests the site takes.             *)
LEMMA OwnerGood ==
    ASSUME JbInv, NEW t \in JbTasks, jbTask[t].pc # "idle", Kept(jbTask[t].key)
    PROVE  CheckStatus(jbTask[t].owner)
<1>1. jbTask[t].key \in JbKeys /\ jbTask[t].owner \in JbUsers
  BY CallKnown
<1> QED BY <1>1 DEF JbInv, CredentialsGood, Kept, CheckStatus

LEMMA CheckStep ==
    ASSUME JbInv, NEW t \in JbTasks, CheckCancelled(t) PROVE JbInv'
<1> DEFINE a == jbTask[t]
<1>1. /\ a.pc = "check" /\ a \in Call /\ a.kind = "drive" /\ a.key \in JbKeys
      /\ CallSound(a, jbReverted, jbLang)
  BY CallKnown DEF CheckCancelled, CallSound
<1>2. UNCHANGED <<jbItem, jbIssue, jbCred, jbLang, jbTouched, jbReverted>>
  BY DEF CheckCancelled, JbOthers
<1>3. CASE jbItem[a.key].st = "running"
  <2> DEFINE b == [a EXCEPT !.pc = "assign"]
  <2>1. jbTask' = [jbTask EXCEPT ![t] = b]
    BY <1>3 DEF CheckCancelled, JbStep, JbInv, BoardType
  <2>2. b \in Call /\ b.kind = a.kind /\ b.key = a.key /\ b.pc = "assign"
    BY <1>1 DEF Call, JbPcs
  <2>3. CallSound(b, jbReverted, jbLang)
    BY <1>1 DEF CallSound, Call, JbPcs
  <2>4. DriverSound(b, jbIssue'[b.key])
    BY <2>2 DEF DriverSound
  <2> HIDE DEF a, b
  <2> QED BY <1>1, <1>2, <2>1, <2>2, <2>3, <2>4, CallMoves DEF a, JbInv, BoardType
<1>4. CASE jbItem[a.key].st # "running"
  <2>1. jbTask' = [jbTask EXCEPT ![t] = IdleJb]
    BY <1>4 DEF CheckCancelled
  <2>2. \A k \in JbKeys : ~(Drives(t, k) /\ jbItem[k].st = "running")
    BY <1>4 DEF Drives
  <2> QED BY <1>2, <2>1, <2>2, CallCloses
<1> QED BY <1>3, <1>4

LEMMA AssignStep ==
    ASSUME JbInv, NEW t \in JbTasks, Assign(t) \/ Unassign(t) PROVE JbInv'
<1>0. jbTask[t].pc = "assign"
  BY DEF Assign, Unassign, Assigns
<1>a. PICK a \in Call : a = jbTask[t]
  BY <1>0, CallKnown
<1>2. a.key \in JbKeys /\ a.owner \in JbUsers /\ CallSound(a, jbReverted, jbLang)
  BY <1>0, <1>a, CallKnown
<1>k. PICK k \in JbKeys : k = a.key
  BY <1>2
<1>1. PICK who \in JbUsers \cup {"", Host} :
        /\ Assigns(t, who) /\ (a.kind \in {"claim", "drive"} => who # "")
        /\ a.kind \in {"claim", "drive", "revert", "undo"}
  BY <1>a, <1>2, SiteAssumption DEF Assign, Unassign, Host
<1>4. UNCHANGED <<jbItem, jbCred, jbLang, jbTouched, jbReverted>>
  BY <1>1 DEF Assigns
<1>5. ASSUME Kept(k)'
      PROVE  a.kind \in {"claim", "drive"} /\ CheckStatus(a.owner)
  <2>1. Kept(k)
    BY <1>4, <1>5 DEF Kept
  <2>2. a.kind \notin {"revert", "undo"}
    BY <1>2, <1>k, <2>1 DEF CallSound, Kept
  <2>3. CheckStatus(a.owner)
    BY <1>0, <1>a, <1>k, <2>1, OwnerGood
  <2> QED BY <1>1, <2>2, <2>3
<1>6. CASE RestCredential(a.owner) /\ ~CheckStatus(a.owner)
  <2> DEFINE b == [a EXCEPT !.pc = "move", !.ok = FALSE]
  <2>1. jbTask' = [jbTask EXCEPT ![t] = b] /\ UNCHANGED jbIssue
    BY <1>1, <1>6, <1>a DEF Assigns, JbFails, JbInv, BoardType
  <2>2. b \in Call /\ b.kind = a.kind /\ b.key = k /\ b.pc = "move"
    BY <1>k DEF Call, JbPcs
  <2>3. CallSound(b, jbReverted, jbLang)
    BY <1>0, <1>a, <1>1, <1>2 DEF CallSound, Call, JbPcs
  <2>4. ~Kept(k)'
    BY <1>5, <1>6, <2>2
  <2> HIDE DEF b
  <2> QED BY <1>0, <1>a, <1>k, <1>2, <1>4, <2>1, <2>2, <2>3, <2>4, CallMoves DEF JbInv, BoardType
<1>7. CASE ~(RestCredential(a.owner) /\ ~CheckStatus(a.owner))
  <2> DEFINE b == [a EXCEPT !.pc = "move"]
  <2>1. /\ jbTask' = [jbTask EXCEPT ![t] = b]
        /\ jbIssue' = [jbIssue EXCEPT ![k].who = who]
    BY <1>1, <1>7, <1>a, <1>k DEF Assigns, JbStep, JbInv, BoardType
  <2>2. b \in Call /\ b.kind = a.kind /\ b.key = k /\ b.pc = "move"
    BY <1>k DEF Call, JbPcs
  <2>3. CallSound(b, jbReverted, jbLang)
    BY <1>0, <1>a, <1>1, <1>2 DEF CallSound, Call, JbPcs
  <2>4. /\ jbIssue' \in Issues
        /\ jbIssue'[k].who = who /\ jbIssue'[k].st = jbIssue[k].st
        /\ \A q \in JbKeys : q # k => jbIssue'[q] = jbIssue[q]
    <3>1. jbIssue \in Issues /\ jbIssue' = [jbIssue EXCEPT ![k].who = who]
      BY <2>1 DEF JbInv, BoardType
    <3> QED BY <3>1, IssueAssigned
  <2>5. Kept(k)' => DriverSound(b, jbIssue'[k])
    BY <1>1, <1>5, <2>2, <2>4 DEF DriverSound
  <2>6. \A q \in JbKeys : Kept(q)' =>
              /\ jbIssue[q].who # "" => jbIssue'[q].who # ""
              /\ jbIssue[q].st # "To Do" => jbIssue'[q].st # "To Do"
    BY <1>1, <1>5, <2>4
  <2> HIDE DEF b
  <2> QED
    BY <1>0, <1>a, <1>k, <1>2, <1>4, <2>1, <2>2, <2>3, <2>4, <2>5, <2>6, CallMoves
    DEF JbInv, BoardType
<1> QED BY <1>6, <1>7

(* A call whose request failed goes on to its next one.                    *)
Following(a) == IF a.pc = "assign" THEN "move" ELSE AfterMove(a.kind)
LEMMA CallFails ==
    ASSUME JbInv, NEW t \in JbTasks, jbTask[t].pc \in {"assign", "move", "post"},
           JbFails(t, Following(jbTask[t])), UNCHANGED <<jbItem, jbIssue, jbCred, jbLang, jbReverted>>,
           jbTouched \subseteq jbTouched', jbTouched' \in SUBSET JbKeys,
           \A k \in JbKeys : Kept(k)' /\ Drives(t, k) =>
              jbTask[t].pc \in {"move", "post"} /\ jbIssue[k].st # "To Do"
    PROVE  JbInv'
<1>a. PICK a \in Call : a = jbTask[t]
  BY CallKnown
<1>1. a.key \in JbKeys /\ a.owner \in JbUsers /\ CallSound(a, jbReverted, jbLang) /\ a.kind \in Kinds
  BY <1>a, CallKnown
<1>k. PICK k \in JbKeys : k = a.key
  BY <1>1
<1>p. PICK pc : pc = Following(a)
  OBVIOUS
<1> DEFINE b == [a EXCEPT !.pc = pc, !.ok = FALSE]
<1>2. jbTask' = [jbTask EXCEPT ![t] = b]
  BY <1>a, <1>p DEF JbFails, JbInv, BoardType
<1>3. pc \in {"move", "details", "end"}
  BY <1>p DEF AfterMove, Following
<1>4. /\ b \in Call /\ b.kind = a.kind /\ b.key = k /\ b.pc = pc /\ b.owner = a.owner
      /\ b.ok = FALSE
  BY <1>3, <1>k DEF Call, JbPcs
<1> HIDE DEF b
<1>5. CallSound(b, jbReverted, jbLang)
  BY <1>a, <1>1, <1>3, <1>4, <1>k, <1>p DEF CallSound, AfterMove, Following
<1>6. ASSUME b.kind = "drive", Kept(k)' PROVE DriverSound(b, jbIssue'[k])
  <2>1. Kept(k) /\ Drives(t, k)
    BY <1>a, <1>4, <1>6, <1>k DEF Kept, Drives
  <2>2. DriverSound(a, jbIssue[k])
    BY <2>1, <1>a DEF JbInv, DriversSound
  <2>3. a.pc \in {"move", "post"} /\ jbIssue[k].st # "To Do"
    BY <2>1, <1>6, <1>a
  <2> QED BY <2>2, <2>3, <1>3, <1>4 DEF DriverSound
<1> QED BY <1>a, <1>k, <1>1, <1>2, <1>4, <1>5, <1>6, CallMoves DEF JbInv, BoardType

LEMMA TargetMeant ==
    ASSUME NEW kind \in Kinds
    PROVE  /\ JbTarget(kind) \in JbTargets
           /\ kind \notin {"revert", "undo", "drop"} => JbTarget(kind) \in {"In Progress", JbDone}
           /\ kind = "drive" => JbTarget(kind) = "In Progress"
           /\ kind = "close" => JbTarget(kind) = JbDone
  BY DEF JbTarget, JbTargets, Kinds

LEMMA GetStep ==
    ASSUME JbInv, NEW t \in JbTasks, GetTransitions(t) PROVE JbInv'
<1>0. jbTask[t].pc = "move"
  BY DEF GetTransitions
<1>a. PICK a \in Call : a = jbTask[t]
  BY <1>0, CallKnown
<1>1. /\ a.key \in JbKeys /\ a.owner \in JbUsers /\ CallSound(a, jbReverted, jbLang)
      /\ a.kind \in Kinds /\ jbLang[a.owner] \in DOMAIN JbShown
  BY <1>0, <1>a, CallKnown
<1>k. PICK k \in JbKeys : k = a.key
  BY <1>1
<1>2. UNCHANGED <<jbItem, jbIssue, jbCred, jbLang, jbTouched, jbReverted>>
  BY DEF GetTransitions, JbOthers
<1>s. PICK seen \in SUBSET JbFlow : seen = Available(jbIssue[k].st)
  BY DEF Available
<1> DEFINE none == \/ ~CheckStatus(a.owner)
                   \/ PickTransition(seen, JbTarget(a.kind), jbLang[a.owner]) = {}
<1>3. CASE none
  <2>1. JbFails(t, AfterMove(a.kind))
    BY <1>3, <1>a, <1>k, <1>s DEF GetTransitions
  <2>2. ASSUME NEW q \in JbKeys, Kept(q)', Drives(t, q) PROVE jbIssue[q].st # "To Do"
    <3>1. Kept(q) /\ q = k /\ a.kind = "drive"
      BY <2>2, <1>2, <1>a, <1>k DEF Kept, Drives
    <3>2. CheckStatus(a.owner)
      BY <3>1, <1>0, <1>a, <1>k, OwnerGood
    <3>3. PickTransition(seen, "In Progress", jbLang[a.owner]) = {}
      BY <3>1, <3>2, <1>1, <1>3, TargetMeant
    <3>4. PickTransition(Available("To Do"), "In Progress", jbLang[a.owner]) # {}
      BY <1>1, SiteAssumption
    <3> QED BY <3>1, <3>3, <3>4, <1>s
  <2> HIDE DEF none
  <2>3. Following(jbTask[t]) = AfterMove(a.kind)
    BY <1>0, <1>a DEF Following
  <2>4. \A q \in JbKeys : Kept(q)' /\ Drives(t, q) =>
              jbTask[t].pc \in {"move", "post"} /\ jbIssue[q].st # "To Do"
    BY <1>0, <2>2
  <2>5. jbTouched \subseteq jbTouched' /\ jbTouched' \in SUBSET JbKeys
    BY <1>2 DEF JbInv, BoardType
  <2> QED BY <2>1, <2>3, <2>4, <2>5, <1>0, <1>2, CallFails
<1>4. CASE ~none
  <2> DEFINE b == [a EXCEPT !.pc = "post", !.seen = seen]
  <2>1. jbTask' = [jbTask EXCEPT ![t] = b]
    BY <1>4, <1>a, <1>k, <1>s DEF GetTransitions, JbInv, BoardType
  <2>2. /\ b \in Call /\ b.kind = a.kind /\ b.key = k /\ b.pc = "post" /\ b.owner = a.owner
        /\ b.seen = seen
    BY <1>k DEF Call, JbPcs
  <2>3. PickTransition(b.seen, JbTarget(b.kind), jbLang[b.owner]) # {}
    BY <1>4, <2>2
  <2> HIDE DEF b, none
  <2>4. CallSound(b, jbReverted, jbLang)
    BY <1>0, <1>a, <1>1, <1>k, <2>2, <2>3 DEF CallSound
  <2>5. ASSUME b.kind = "drive", Kept(k)' PROVE DriverSound(b, jbIssue'[k])
    <3>1. Kept(k) /\ Drives(t, k)
      BY <1>2, <1>a, <1>k, <2>2, <2>5 DEF Kept, Drives
    <3>2. DriverSound(a, jbIssue[k])
      BY <3>1, <1>a DEF JbInv, DriversSound
    <3> QED BY <3>2, <1>0, <1>2, <1>a, <1>s, <2>2 DEF DriverSound
  <2> QED BY <1>0, <1>a, <1>k, <1>1, <1>2, <2>1, <2>2, <2>4, <2>5, CallMoves DEF JbInv, BoardType
<1> QED BY <1>3, <1>4

(* The ticket is moved.                                                    *)
LEMMA MoveStep ==
    ASSUME JbInv, NEW t \in JbTasks, jbTask[t].pc \in {"move", "post"}, NEW st \in Statuses,
           MovesTo(t, st), UNCHANGED <<jbItem, jbCred, jbLang, jbTouched, jbReverted>>,
           jbTask[t].kind \notin {"revert", "undo", "drop"} => st # "To Do",
           jbTask[t].kind = "close" => DoneStatus(st)
    PROVE  JbInv'
<1>a. PICK a \in Call : a = jbTask[t]
  BY CallKnown
<1>1. a.key \in JbKeys /\ a.owner \in JbUsers /\ CallSound(a, jbReverted, jbLang) /\ a.kind \in Kinds
  BY <1>a, CallKnown
<1>k. PICK k \in JbKeys : k = a.key
  BY <1>1
<1> DEFINE pc == AfterMove(a.kind)
           b == [a EXCEPT !.pc = pc, !.to = st]
<1>2. jbTask' = [jbTask EXCEPT ![t] = b] /\ jbIssue' = [jbIssue EXCEPT ![k].st = st]
  BY <1>a, <1>k DEF MovesTo, JbInv, BoardType
<1>3. pc \in {"details", "end"}
  BY DEF AfterMove
<1>4. /\ b \in Call /\ b.kind = a.kind /\ b.key = k /\ b.pc = pc /\ b.owner = a.owner
      /\ b.to = st
  BY <1>3, <1>k DEF Call, JbPcs
<1>5. pc = "details" <=> a.kind = "drive"
  BY DEF AfterMove
<1> HIDE DEF b, pc
<1>6. CallSound(b, jbReverted, jbLang)
  BY <1>a, <1>1, <1>3, <1>4, <1>5, <1>k DEF CallSound
<1>7. /\ jbIssue' \in Issues /\ jbIssue'[k].st = st /\ jbIssue'[k].who = jbIssue[k].who
      /\ \A q \in JbKeys : q # k => jbIssue'[q] = jbIssue[q]
  <2>1. jbIssue \in Issues /\ jbIssue' = [jbIssue EXCEPT ![k].st = st]
    BY <1>2 DEF JbInv, BoardType
  <2> QED BY <2>1, IssueMoved
<1>8. ASSUME Kept(k)' PROVE st # "To Do"
  <2>1. a.kind \notin {"revert", "undo"}
    BY <1>1, <1>k, <1>8 DEF CallSound, Kept
  <2>2. a.kind # "drop"
    BY <1>1, <1>a DEF CallSound
  <2> QED BY <2>1, <2>2, <1>a
<1>9. ASSUME b.kind = "drive", Kept(k)' PROVE DriverSound(b, jbIssue'[k])
  <2>1. Kept(k) /\ Drives(t, k)
    BY <1>a, <1>4, <1>9, <1>k DEF Kept, Drives
  <2>2. DriverSound(a, jbIssue[k])
    BY <2>1, <1>a DEF JbInv, DriversSound
  <2> QED BY <2>2, <1>3, <1>4, <1>7, <1>8, <1>9, <1>a DEF DriverSound
<1>10. \A q \in JbKeys : Kept(q)' =>
              /\ jbIssue[q].who # "" => jbIssue'[q].who # ""
              /\ jbIssue[q].st # "To Do" => jbIssue'[q].st # "To Do"
  BY <1>7, <1>8
<1> QED BY <1>a, <1>k, <1>2, <1>4, <1>6, <1>7, <1>9, <1>10, CallMoves DEF JbInv, BoardType

(* What is posted has been picked.                                         *)
LEMMA PostPicked ==
    ASSUME JbInv, NEW t \in JbTasks, jbTask[t].pc = "post"
    PROVE  LET a == jbTask[t]
           IN  /\ a.seen \in SUBSET JbFlow /\ a.key \in JbKeys /\ a.owner \in JbUsers
               /\ JbTarget(a.kind) \in JbTargets /\ jbLang[a.owner] \in DOMAIN JbShown
               /\ PickTransition(a.seen, JbTarget(a.kind), jbLang[a.owner]) # {}
  BY CallKnown, TargetMeant DEF CallSound, Call

LEMMA PostStep ==
    ASSUME JbInv, NEW t \in JbTasks, PostTransition(t) PROVE JbInv'
<1>0. jbTask[t].pc = "post"
  BY DEF PostTransition
<1>a. PICK a \in Call : a = jbTask[t]
  BY <1>0, CallKnown
<1>1. /\ a.key \in JbKeys /\ a.owner \in JbUsers /\ a.kind \in Kinds
      /\ a.seen \in SUBSET JbFlow /\ jbLang[a.owner] \in DOMAIN JbShown
      /\ PickTransition(a.seen, JbTarget(a.kind), jbLang[a.owner]) # {}
  BY <1>0, <1>a, CallKnown, PostPicked
<1>k. PICK k \in JbKeys : k = a.key
  BY <1>1
<1>2. PICK tr : tr = Picked(a.seen, JbTarget(a.kind), jbLang[a.owner])
  OBVIOUS
<1>3. /\ tr \in a.seen /\ tr.to \in Statuses
  BY <1>1, <1>2, PickedIsMeant, TargetMeant DEF Statuses
<1>4. /\ a.kind \notin {"revert", "undo", "drop"} => tr.to # "To Do"
      /\ a.kind = "close" => DoneStatus(tr.to)
  <2>1. ASSUME a.kind \notin {"revert", "undo", "drop"}
        PROVE  tr.to # "To Do" /\ (JbTarget(a.kind) = JbDone => DoneStatus(tr.to))
    BY <1>1, <1>2, <2>1, TargetMeant, PickedLeavesToDo
  <2>2. a.kind = "close" => JbTarget(a.kind) = JbDone
    BY <1>1, TargetMeant
  <2> QED BY <2>1, <2>2
<1>5. UNCHANGED <<jbItem, jbCred, jbLang, jbTouched, jbReverted>>
  BY DEF PostTransition
<1>6. CASE CheckStatus(a.owner) /\ jbIssue[k].st \in tr.from
  <2>1. MovesTo(t, tr.to)
    BY <1>6, <1>a, <1>k, <1>2 DEF PostTransition, Picked
  <2> QED BY <2>1, <1>0, <1>a, <1>3, <1>4, <1>5, MoveStep
<1>7. CASE ~(CheckStatus(a.owner) /\ jbIssue[k].st \in tr.from)
  <2>1. JbFails(t, AfterMove(a.kind)) /\ UNCHANGED jbIssue
    BY <1>7, <1>a, <1>k, <1>2 DEF PostTransition, Picked
  <2>2. ASSUME NEW q \in JbKeys, Kept(q)', Drives(t, q) PROVE jbIssue[q].st # "To Do"
    <3>1. Kept(q) /\ q = k /\ a.kind = "drive"
      BY <2>2, <1>5, <1>a, <1>k DEF Kept, Drives
    <3>2. jbIssue[k].st \notin tr.from
      BY <3>1, <1>0, <1>7, <1>a, <1>k, OwnerGood
    <3>3. DriverSound(a, jbIssue[k])
      BY <2>2, <3>1, <1>a DEF JbInv, DriversSound
    <3> QED BY <3>1, <3>2, <3>3, <1>0, <1>3, <1>a DEF DriverSound, Available
  <2>3. Following(jbTask[t]) = AfterMove(a.kind)
    BY <1>0, <1>a DEF Following
  <2>4. \A q \in JbKeys : Kept(q)' /\ Drives(t, q) =>
              jbTask[t].pc \in {"move", "post"} /\ jbIssue[q].st # "To Do"
    BY <1>0, <2>2
  <2>5. jbTouched \subseteq jbTouched' /\ jbTouched' \in SUBSET JbKeys
    BY <1>5 DEF JbInv, BoardType
  <2> QED BY <2>1, <2>3, <2>4, <2>5, <1>0, <1>5, CallFails
<1> QED BY <1>6, <1>7

LEMMA AcliStep ==
    ASSUME JbInv, NEW t \in JbTasks, AcliTransition(t) PROVE JbInv'
<1>0. jbTask[t].pc = "move"
  BY DEF AcliTransition
<1>a. PICK a \in Call : a = jbTask[t]
  BY <1>0, CallKnown
<1>1. a.key \in JbKeys /\ a.kind \in Kinds
  BY <1>0, <1>a, CallKnown
<1>k. PICK k \in JbKeys : k = a.key
  BY <1>1
<1>2. UNCHANGED <<jbItem, jbCred, jbLang, jbTouched, jbReverted>>
  BY DEF AcliTransition
<1>s. PICK s : s = JbTarget(a.kind)
  OBVIOUS
<1>3. CASE \E tr \in Available(jbIssue[k].st) : tr.to = s
  <2>1. MovesTo(t, s)
    BY <1>3, <1>a, <1>k, <1>s DEF AcliTransition
  <2>2. s \in Statuses
    BY <1>3, SiteAssumption DEF Available, Statuses
  <2>3. /\ a.kind \notin {"revert", "undo", "drop"} => s # "To Do"
        /\ a.kind = "close" => DoneStatus(s)
    BY <1>1, <1>s, TargetMeant, SiteAssumption DEF DoneStatus
  <2> QED BY <2>1, <2>2, <2>3, <1>0, <1>2, <1>a, MoveStep
<1>4. CASE ~\E tr \in Available(jbIssue[k].st) : tr.to = s
  <2>1. JbFails(t, AfterMove(a.kind)) /\ UNCHANGED jbIssue
    BY <1>4, <1>a, <1>k, <1>s DEF AcliTransition
  <2>2. ASSUME NEW q \in JbKeys, Drives(t, q) PROVE jbIssue[q].st # "To Do"
    <3>1. q = k /\ a.kind = "drive" /\ s = "In Progress"
      BY <2>2, <1>1, <1>a, <1>k, <1>s, TargetMeant DEF Drives
    <3>2. \E tr \in Available("To Do") : tr.to = "In Progress"
      BY SiteAssumption
    <3> QED BY <3>1, <3>2, <1>4
  <2>3. Following(jbTask[t]) = AfterMove(a.kind)
    BY <1>0, <1>a DEF Following
  <2>4. \A q \in JbKeys : Kept(q)' /\ Drives(t, q) =>
              jbTask[t].pc \in {"move", "post"} /\ jbIssue[q].st # "To Do"
    BY <1>0, <2>2
  <2>5. jbTouched \subseteq jbTouched' /\ jbTouched' \in SUBSET JbKeys
    BY <1>2 DEF JbInv, BoardType
  <2> QED BY <2>1, <2>3, <2>4, <2>5, <1>0, <1>2, CallFails
<1> QED BY <1>3, <1>4

LEMMA DetailsStep ==
    ASSUME JbInv, NEW t \in JbTasks, RestDetails(t) \/ AcliDetails(t) PROVE JbInv'
<1>1. /\ jbTask[t].pc = "details" /\ jbTask' = [jbTask EXCEPT ![t] = IdleJb]
      /\ UNCHANGED <<jbItem, jbIssue, jbCred, jbLang, jbTouched, jbReverted>>
  BY DEF RestDetails, AcliDetails, Learns
<1>2. ASSUME NEW k \in JbKeys, Kept(k), Drives(t, k) PROVE Claimed(k)
  <2>1. DriverSound(jbTask[t], jbIssue[k])
    BY <1>2 DEF JbInv, DriversSound
  <2> QED BY <1>1, <2>1 DEF DriverSound, Claimed
<1> QED BY <1>1, <1>2, CallCloses

LEMMA EndStep ==
    ASSUME JbInv, NEW t \in JbTasks, CallsEnd(t) PROVE JbInv'
<1>1. /\ jbTask[t].pc = "end" /\ jbTask' = [jbTask EXCEPT ![t] = IdleJb]
      /\ UNCHANGED <<jbIssue, jbCred, jbLang, jbTouched, jbReverted>>
  BY DEF CallsEnd, JbOthers
<1>2. jbTask[t].kind # "drive" /\ jbTask[t].key \in JbKeys
  BY <1>1, CallKnown DEF CallSound
<1>3. \/ UNCHANGED jbItem
      \/ \E k \in JbKeys : jbItem' = [jbItem EXCEPT ![k] = NoItemJb]
  BY <1>2 DEF CallsEnd
<1>4. \A k \in JbKeys : ~Drives(t, k)
  BY <1>2 DEF Drives
<1> QED BY <1>1, <1>3, <1>4, CallCloses

LEMMA FailStep ==
    ASSUME JbInv, NEW t \in JbTasks, RequestFails(t) PROVE JbInv'
<1>1. /\ jbTask[t].pc \in {"assign", "move", "post"}
      /\ JbFails(t, Following(jbTask[t])) /\ jbTouched' = jbTouched \cup {jbTask[t].key}
      /\ UNCHANGED <<jbItem, jbIssue, jbCred, jbLang, jbReverted>>
  BY DEF RequestFails, Following, JbFails
<1>2. jbTask[t].key \in JbKeys
  BY <1>1, CallKnown
<1>3. jbTouched \subseteq jbTouched' /\ jbTouched' \in SUBSET JbKeys
  BY <1>1, <1>2 DEF JbInv, BoardType
<1>4. \A k \in JbKeys : ~(Kept(k)' /\ Drives(t, k))
  BY <1>1 DEF Kept, Drives
<1> QED BY <1>1, <1>3, <1>4, CallFails

(* The tickets and items change, or a credential does, and no call.        *)
LEMMA OtherSteps ==
    ASSUME JbInv,
           \/ \E u \in JbUsers : ListTickets(u) \/ PickerLists(u) \/ CredentialChanges(u)
           \/ \E k \in JbKeys : FlowCompletes(k) \/ PersonMoves(k)
           \/ UNCHANGED jbVars
    PROVE  JbInv'
<1>0. BoardType /\ ItemsOwned /\ CallsSound /\ CredentialsGood /\ DriversSound /\ RunningClaimed
  BY DEF JbInv
<1>1. ASSUME UNCHANGED <<jbIssue, jbItem, jbTask, jbCred, jbLang, jbTouched, jbReverted>>
      PROVE  JbInv'
  <2>1. BoardType' /\ ItemsOwned' /\ CallsSound' /\ CredentialsGood'
    BY <1>0, <1>1 DEF BoardType, ItemsOwned, CallsSound, CredentialsGood
  <2>2. DriversSound' /\ RunningClaimed'
    BY <1>0, <1>1 DEF DriversSound, RunningClaimed, Kept, Drives, Claimed
  <2> QED BY <2>1, <2>2 DEF JbInv
<1>2. ASSUME NEW u \in JbUsers, CredentialChanges(u) PROVE JbInv'
  <2>1. /\ jbCred' \in [JbUsers -> {"none", "good", "revoked", "unreadable"}] /\ jbTouched' = JbKeys
        /\ UNCHANGED <<jbIssue, jbItem, jbTask, jbLang, jbReverted>>
    BY <1>0, <1>2 DEF CredentialChanges, BoardType
  <2>2. BoardType' /\ ItemsOwned' /\ CallsSound' /\ CredentialsGood'
    BY <1>0, <2>1 DEF BoardType, ItemsOwned, CallsSound, CredentialsGood
  <2>3. \A k \in JbKeys : ~Kept(k)'
    BY <2>1 DEF Kept
  <2> QED BY <2>2, <2>3 DEF JbInv, DriversSound, RunningClaimed
<1>3. ASSUME NEW k \in JbKeys, PersonMoves(k) PROVE JbInv'
  <2>1. PICK tr \in Available(jbIssue[k].st) : jbIssue' = [jbIssue EXCEPT ![k].st = tr.to]
    BY <1>3 DEF PersonMoves
  <2>2. PICK st \in Statuses : st = tr.to
    BY SiteAssumption DEF Available, Statuses
  <2>3. jbIssue' \in Issues /\ \A q \in JbKeys : q # k => jbIssue'[q] = jbIssue[q]
    BY <1>0, <2>1, <2>2, IssueMoved DEF BoardType
  <2>4. /\ jbTouched' = jbTouched \cup {k} /\ UNCHANGED <<jbItem, jbTask, jbCred, jbLang, jbReverted>>
    BY <1>3 DEF PersonMoves
  <2>5. BoardType' /\ ItemsOwned' /\ CallsSound' /\ CredentialsGood'
    BY <1>0, <2>3, <2>4 DEF BoardType, ItemsOwned, CallsSound, CredentialsGood
  <2>6. \A q \in JbKeys : Kept(q)' => Kept(q) /\ jbIssue'[q] = jbIssue[q]
    BY <2>3, <2>4 DEF Kept
  <2>7. DriversSound'
    BY <1>0, <2>4, <2>6 DEF DriversSound, Drives
  <2>8. RunningClaimed'
    BY <1>0, <2>4, <2>6 DEF RunningClaimed, Drives, Claimed
  <2> QED BY <2>5, <2>7, <2>8 DEF JbInv
<1>4. ASSUME NEW k \in JbKeys, FlowCompletes(k) PROVE JbInv'
  <2>1. /\ jbItem' = [jbItem EXCEPT ![k].st = "done"] /\ jbItem[k].st = "running"
        /\ UNCHANGED <<jbIssue, jbTask, jbCred, jbLang, jbTouched, jbReverted>>
    BY <1>4 DEF FlowCompletes, SetItem, JbOthers
  <2>2. /\ jbItem' \in Items /\ ItemsOwned'
        /\ \A q \in JbKeys : jbItem'[q].st = "running" => jbItem[q].st = "running"
    BY <1>0, <2>1 DEF BoardType, Items, ItemsOwned
  <2>3. BoardType' /\ CallsSound' /\ CredentialsGood'
    BY <1>0, <2>1, <2>2 DEF BoardType, CallsSound, CredentialsGood
  <2>4. DriversSound' /\ RunningClaimed'
    BY <1>0, <2>1, <2>2 DEF DriversSound, RunningClaimed, Kept, Drives, Claimed
  <2> QED BY <2>2, <2>3, <2>4 DEF JbInv
<1>5. ASSUME NEW u \in JbUsers, ListTickets(u) \/ PickerLists(u) PROVE JbInv'
  BY <1>1, <1>5 DEF ListTickets, PickerLists
<1>6. CASE UNCHANGED jbVars
  BY <1>1, <1>6 DEF jbVars
<1> QED BY <1>2, <1>3, <1>4, <1>5, <1>6

LEMMA BoardKept == JbInv /\ [JbNext]_jbVars => JbInv'
<1> SUFFICES ASSUME JbInv, [JbNext]_jbVars PROVE JbInv'
  OBVIOUS
<1>1. ASSUME NEW t \in JbTasks, NEW k \in JbKeys,
             \/ StartItem(t, k) \/ StopJbItem(t, k) \/ DeleteItem(t, k) \/ MarkDone(t, k)
             \/ \E u \in JbUsers : AddItem(t, k, u)
      PROVE  JbInv'
  BY <1>1, ItemSteps
<1>2. ASSUME NEW t \in JbTasks,
             \/ CheckCancelled(t) \/ Assign(t) \/ Unassign(t) \/ GetTransitions(t)
             \/ PostTransition(t) \/ AcliTransition(t) \/ RestDetails(t) \/ AcliDetails(t)
             \/ CallsEnd(t) \/ RequestFails(t)
      PROVE  JbInv'
  BY <1>2, CheckStep, AssignStep, GetStep, PostStep, AcliStep, DetailsStep, EndStep, FailStep
<1> QED BY <1>1, <1>2, OtherSteps DEF JbNext

(* What the invariant says of the items that run.                          *)
LEMMA BoardClaimed == JbInv => RunningIsClaimed
<1> SUFFICES ASSUME JbInv, NEW k \in JbKeys, jbItem[k].st = "running", Quiet(k),
                    k \notin jbTouched \cup jbReverted
             PROVE  Claimed(k)
  BY DEF RunningIsClaimed, Claimed
<1>1. ASSUME NEW t \in JbTasks, Drives(t, k) PROVE FALSE
  <2>1. jbTask[t].pc = "idle"
    BY <1>1 DEF Quiet, Drives
  <2>2. jbTask[t].kind = ""
    BY <2>1 DEF JbInv, CallsSound, CallSound
  <2> QED BY <1>1, <2>2 DEF Drives
<1> QED BY <1>1 DEF JbInv, RunningClaimed, Kept

(* A ticket is moved where it was asked to be.                             *)
LEMMA BoardMoves ==
    ASSUME JbInv, NEW t \in JbTasks, PostTransition(t),
           jbIssue'[jbTask[t].key] # jbIssue[jbTask[t].key]
    PROVE  LET k == jbTask[t].key
               s == JbTarget(jbTask[t].kind)
               shown == JbShown[jbLang[jbTask[t].owner]]
           IN  \/ shown[jbIssue'[k].st] = s
               \/ /\ \A tr \in jbTask[t].seen : shown[tr.to] # s
                  /\ JbCategory[jbIssue'[k].st] = TargetCategory(s)
<1>0. jbTask[t].pc = "post"
  BY DEF PostTransition
<1>a. PICK a \in Call : a = jbTask[t]
  BY <1>0, CallKnown
<1>1. /\ a.seen \in SUBSET JbFlow /\ a.key \in JbKeys /\ a.owner \in JbUsers
      /\ JbTarget(a.kind) \in JbTargets /\ jbLang[a.owner] \in DOMAIN JbShown
      /\ PickTransition(a.seen, JbTarget(a.kind), jbLang[a.owner]) # {}
  BY <1>0, <1>a, PostPicked
<1>k. PICK k \in JbKeys : k = a.key
  BY <1>1
<1>2. PICK tr : tr = Picked(a.seen, JbTarget(a.kind), jbLang[a.owner])
  OBVIOUS
<1>3. /\ tr.to \in Statuses
      /\ \/ JbShown[jbLang[a.owner]][tr.to] = JbTarget(a.kind)
         \/ /\ \A o \in a.seen : JbShown[jbLang[a.owner]][o.to] # JbTarget(a.kind)
            /\ JbCategory[tr.to] = TargetCategory(JbTarget(a.kind))
  BY <1>1, <1>2, PickedIsMeant DEF Statuses
<1>4. MovesTo(t, tr.to)
  BY <1>a, <1>2 DEF PostTransition, Picked
<1>5. jbIssue'[k].st = tr.to
  <2>1. jbIssue \in Issues /\ jbIssue' = [jbIssue EXCEPT ![k].st = tr.to]
    BY <1>4, <1>a, <1>k DEF MovesTo, JbInv, BoardType
  <2> QED BY <2>1, <1>3, IssueMoved
<1> QED BY <1>3, <1>5, <1>a, <1>k

(* An item marked done that leaves the board had its ticket moved.         *)
LEMMA BoardDone ==
    ASSUME JbInv, NEW t \in JbTasks, CallsEnd(t), jbTask[t].kind = "close", jbItem' # jbItem
    PROVE  jbTask[t].to \in {JbDone} \cup {s \in DOMAIN JbCategory : JbCategory[s] = "done"}
<1>1. jbTask[t].pc = "end" /\ ~KeepsItem(t)
  BY DEF CallsEnd
<1>2. jbTask[t].ok
  BY <1>1 DEF KeepsItem
<1>3. CallSound(jbTask[t], jbReverted, jbLang)
  BY DEF JbInv, CallsSound
<1> QED BY <1>1, <1>2, <1>3 DEF CallSound, DoneStatus

(* Every ticket follows its item, for any number of tickets, users, calls   *)
(* and failures, and any site where a status or transition that bears a     *)
(* name asked for means it and a ticket to do can be put in progress        *)
(* (transition_ticket, bootstrap_ticket, mark_work_done).                   *)
THEOREM TicketsAreFollowed == JbSpec => TicketsFollow
<1>1. JbInit => JbInv
  BY BoardStart
<1>2. JbInv /\ [JbNext]_jbVars => JbInv'
  BY BoardKept
<1>3. JbInv => RunningIsClaimed
  BY BoardClaimed
<1>4. JbInv /\ [JbNext]_jbVars =>
        [\A t \in JbTasks :
           LET k == jbTask[t].key
               s == JbTarget(jbTask[t].kind)
               shown == JbShown[jbLang[jbTask[t].owner]]
           IN  PostTransition(t) /\ jbIssue'[k] # jbIssue[k] =>
                 \/ shown[jbIssue'[k].st] = s
                 \/ /\ \A tr \in jbTask[t].seen : shown[tr.to] # s
                    /\ JbCategory[jbIssue'[k].st] = TargetCategory(s)]_jbVars
  BY BoardMoves
<1>5. JbInv /\ [JbNext]_jbVars =>
        [\A t \in JbTasks :
           CallsEnd(t) /\ jbTask[t].kind = "close" /\ jbItem' # jbItem =>
             jbTask[t].to \in
               {JbDone} \cup {s \in DOMAIN JbCategory : JbCategory[s] = "done"}]_jbVars
  BY BoardDone
<1> QED
  BY <1>1, <1>2, <1>3, <1>4, <1>5, PTL
  DEF JbSpec, TicketsFollow, MovesAsAsked, RemovedMeansDone
=============================================================================
