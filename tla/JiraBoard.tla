----------------------------- MODULE JiraBoard -----------------------------
(***************************************************************************)
(* Takuto on the Jira board: what adding, starting, stopping, deleting and *)
(* marking an item done does to the ticket, by calls that run beside each  *)
(* other and that nothing orders or cancels.  Each call is made with the   *)
(* stored REST credential of the item's owner or, when there is none that  *)
(* can be opened, with the login of the acli tool on the host.  Moving a   *)
(* ticket over REST is two requests, and people and other items of the     *)
(* same board act between them.                                            *)
(*                                                                         *)
(* The Jira site is external: issues, the transitions of its workflow and  *)
(* the names the account's language gives to statuses are constants.       *)
(***************************************************************************)
EXTENDS Integers, FiniteSets, Sequences, SequencesExt

CONSTANTS
    JbKeys,      \* numbers of tickets, of one project
    JbType,      \* the issue type of every ticket
    JbTypes,     \* item types the poller asks for
    JbLinks,     \* tickets a ticket is linked to; 0 is one of a foreign project
    JbUsers,     \* users, who are also accounts of the site
    JbFlow,      \* the site's transitions: [id, name, from, to], listed by id
    JbCategory,  \* status category of every status
    JbShown,     \* name of a status in a language
    JbDone,      \* [jira] done_status
    JbTasks,     \* calls that may be under way at one time
    ListLimit,   \* maxResults of a search: 50
    MaxJbFaults    \* failed requests, revoked credentials, moves by people (bound)

VARIABLES
    jbIssue,    \* the site: status and assignee of every ticket
    jbItem,     \* the items of the engine
    jbTask,     \* sequences of calls under way
    jbCred,     \* stored credential of a user
    jbLang,     \* language of the user's account
    jbList,     \* the last answer of a search
    jbDetail,   \* what the driver learnt of a ticket
    jbFaults,
    jbTouched,  \* history: tickets people moved or a failed request was about
    jbReverted  \* history: tickets some call gave back

jbVars == <<jbIssue, jbItem, jbTask, jbCred, jbLang, jbList, jbDetail, jbFaults,
            jbTouched, jbReverted>>

Host == "host"       \* the account acli is logged in with
NoItemJb == [st |-> "none", owner |-> ""]
IdleJb == [pc |-> "idle", kind |-> "", key |-> 0, owner |-> "", seen |-> {},
           to |-> "", ok |-> TRUE]
NoDetail == [got |-> FALSE, links |-> {}]

JbInit ==
    /\ jbIssue = [k \in JbKeys |-> [st |-> "To Do", who |-> ""]]
    /\ jbItem = [k \in JbKeys |-> NoItemJb]
    /\ jbTask = [t \in JbTasks |-> IdleJb]
    /\ jbCred \in [JbUsers -> {"none", "good"}]
    /\ jbLang \in [JbUsers -> DOMAIN JbShown]
    /\ jbList = <<>> /\ jbDetail = [k \in JbKeys |-> NoDetail] /\ jbFaults = 0
    /\ jbTouched = {} /\ jbReverted = {}
----------------------------------------------------------------------------
(* Searches.                                                               *)

(* Keys are compared as text, where PROJ-10 comes before PROJ-9.           *)
KeyDigits(k) == IF k < 10 THEN <<k, -1>> ELSE <<k \div 10, k % 10>>
TextLess(a, b) == \/ KeyDigits(a)[1] < KeyDigits(b)[1]
                  \/ KeyDigits(a)[1] = KeyDigits(b)[1] /\ KeyDigits(a)[2] < KeyDigits(b)[2]

ToDo(types) == {k \in JbKeys : jbIssue[k].st = "To Do" /\ JbType[k] \in types}
FirstPage(s) == SubSeq(s, 1, IF Len(s) < ListLimit THEN Len(s) ELSE ListLimit)

(* One query for all types, whose first page is sorted again by the text.  *)
RestListTodo(types) ==
    SetToSortSeq(Range(FirstPage(SetToSortSeq(ToDo(types), <))), TextLess)

(* A query for each type, each with a page of its own in whatever order; a *)
(* query that fails is passed over.                                        *)
AcliListTodo(types, failed) ==
    {SetToSortSeq(UNION {pages[y] : y \in types}, TextLess) :
        pages \in {p \in [types -> SUBSET JbKeys] : \A y \in types :
            /\ p[y] \subseteq ToDo({y})
            /\ y \in failed => p[y] = {}
            /\ y \notin failed =>
                 Cardinality(p[y]) = Len(FirstPage(SetToSeq(ToDo({y}))))}}

(* The picker's search: by the rank of the board, for every type but       *)
(* epics; acli's answer is rid of tickets that come twice.                 *)
NoEpics == {JbType[k] : k \in JbKeys} \ {"Epic"}
RestListByRank == {FirstPage(s) : s \in SetToSeqs(ToDo(NoEpics))}
AcliListByRank == {SetToSeq(k) : k \in SUBSET ToDo(NoEpics)}

RestCredential(u) == jbCred[u] \in {"good", "revoked"}

(* The poller lists with the credential of the poller's owner; a search    *)
(* the site rejects or does not answer changes nothing.                    *)
ListTickets(u) ==
    /\ \/ jbCred[u] = "good" /\ jbList' = RestListTodo(JbTypes)
       \/ ~RestCredential(u) /\ \E f \in SUBSET JbTypes : jbList' \in AcliListTodo(JbTypes, f)
    /\ UNCHANGED <<jbIssue, jbItem, jbTask, jbCred, jbLang, jbDetail, jbFaults,
                   jbTouched, jbReverted>>

(* The picker of the dashboard, with the credential of who asks.           *)
PickerLists(u) ==
    /\ \/ jbCred[u] = "good" /\ jbList' \in RestListByRank
       \/ ~RestCredential(u) /\ jbList' \in AcliListByRank
    /\ UNCHANGED <<jbIssue, jbItem, jbTask, jbCred, jbLang, jbDetail, jbFaults,
                   jbTouched, jbReverted>>
----------------------------------------------------------------------------
(* Items.                                                                  *)

JbFree(t) == jbTask[t].pc = "idle"

Spawn(t, kind, k, u) ==
    jbTask' = [jbTask EXCEPT ![t] =
        [IdleJb EXCEPT !.pc = IF kind = "drive" THEN "check"
                              ELSE IF kind = "close" THEN "move"
                              ELSE IF kind = "drop" THEN "end" ELSE "assign",
                       !.kind = kind, !.key = k, !.owner = u]]

SetItem(k, st) == jbItem' = [jbItem EXCEPT ![k].st = st]

JbOthers == <<jbIssue, jbCred, jbLang, jbList, jbDetail, jbFaults, jbTouched>>

(* Onto the dashboard, from a search that may be old by now: the ticket is *)
(* assigned and moved by a task of its own.                                *)
AddItem(t, k, u) ==
    /\ JbFree(t) /\ k \in Range(jbList) /\ jbItem[k] = NoItemJb
    /\ jbItem' = [jbItem EXCEPT ![k] = [st |-> "added", owner |-> u]]
    /\ Spawn(t, "claim", k, u)
    /\ UNCHANGED <<JbOthers, jbReverted>>

(* Start, or retry after a stop: the driver assigns and moves, inline.     *)
StartItem(t, k) ==
    /\ JbFree(t) /\ jbItem[k].st \in {"added", "stopped"}
    /\ SetItem(k, "running") /\ Spawn(t, "drive", k, jbItem[k].owner)
    /\ UNCHANGED <<JbOthers, jbReverted>>

FlowCompletes(k) ==
    /\ jbItem[k].st = "running" /\ \A t \in JbTasks : jbTask[t].kind = "drive" => jbTask[t].key # k
    /\ SetItem(k, "done")
    /\ UNCHANGED <<jbTask, JbOthers, jbReverted>>

(* Stop: the state at once, the ticket by a task of its own.               *)
StopJbItem(t, k) ==
    /\ JbFree(t) /\ jbItem[k].st = "running"
    /\ SetItem(k, "stopped") /\ Spawn(t, "revert", k, jbItem[k].owner)
    /\ jbReverted' = jbReverted \cup {k}
    /\ UNCHANGED JbOthers

(* Deleting an item that was never started gives its ticket back first.    *)
DeleteItem(t, k) ==
    /\ JbFree(t)
    /\ \/ /\ jbItem[k].st = "added"
          /\ Spawn(t, "undo", k, jbItem[k].owner)
          /\ jbReverted' = jbReverted \cup {k}
       \/ /\ jbItem[k].st \in {"stopped", "done"}
          /\ Spawn(t, "drop", k, jbItem[k].owner)
          /\ UNCHANGED jbReverted
    /\ UNCHANGED <<jbItem, JbOthers>>

MarkDone(t, k) ==
    /\ JbFree(t) /\ jbItem[k].st = "done"
    /\ Spawn(t, "close", k, jbItem[k].owner)
    /\ UNCHANGED <<jbItem, JbOthers, jbReverted>>
----------------------------------------------------------------------------
(* Calls.                                                                  *)

JbTarget(kind) == IF kind = "close" THEN JbDone
                ELSE IF kind \in {"claim", "drive"} THEN "In Progress" ELSE "To Do"

(* The next call of the sequence; errors of all but the last kind are      *)
(* logged and passed over.                                                 *)
AfterMove(kind) == IF kind = "drive" THEN "details" ELSE "end"

JbStep(t, pc) == jbTask' = [jbTask EXCEPT ![t].pc = pc]
JbFails(t, pc) == jbTask' = [jbTask EXCEPT ![t].pc = pc, ![t].ok = FALSE]

(* The driver looks at its cancellation once, before the two calls.        *)
CheckCancelled(t) ==
    /\ jbTask[t].pc = "check"
    /\ IF jbItem[jbTask[t].key].st = "running" THEN JbStep(t, "assign")
       ELSE jbTask' = [jbTask EXCEPT ![t] = IdleJb]
    /\ UNCHANGED <<jbItem, JbOthers, jbReverted>>

(* check_rest_status: 401 and 403 are a rejected credential, an error that *)
(* is not retried as the host.                                             *)
CheckStatus(u) == jbCred[u] # "revoked"

Assigns(t, who) ==
    LET k == jbTask[t].key
        u == jbTask[t].owner
    IN  /\ jbTask[t].pc = "assign"
        /\ IF RestCredential(u) /\ ~CheckStatus(u)
           THEN UNCHANGED jbIssue /\ JbFails(t, "move")
           ELSE jbIssue' = [jbIssue EXCEPT ![k].who = who] /\ JbStep(t, "move")
        /\ UNCHANGED <<jbItem, jbCred, jbLang, jbList, jbDetail, jbFaults, jbTouched,
                       jbReverted>>

(* PUT assignee, with the owner's account; acli's @me is the account of    *)
(* the host, whoever owns the item.                                        *)
Assign(t) ==
    /\ jbTask[t].kind \in {"claim", "drive"}
    /\ Assigns(t, IF RestCredential(jbTask[t].owner) THEN jbTask[t].owner ELSE Host)

Unassign(t) == jbTask[t].kind \in {"revert", "undo"} /\ Assigns(t, "")

Available(st) == {tr \in JbFlow : st \in tr.from}

(* What the wanted name is taken to mean, whatever language it is in: the  *)
(* code looks for parts of words.                                          *)
TargetCategory(s) ==
    IF s \in {"Done", "Closed", "Completed"} THEN "done"
    ELSE IF s \in {"In Progress"} THEN "indeterminate"
    ELSE IF s = "To Do" THEN "new" ELSE "none"

ByStatus(seen, s, lang) == {tr \in seen : JbShown[lang][tr.to] = s}
ByName(seen, s) == {tr \in seen : tr.name = s}
ByCategory(seen, s) == {tr \in seen : JbCategory[tr.to] = TargetCategory(s)}

PickByCategoryFirst(seen, s, lang) == ByCategory(seen, s)

(* By the name of the status it leads to, then by its own name, then by    *)
(* the category of the status it leads to; the first of each.              *)
PickTransition(seen, s, lang) ==
    IF ByStatus(seen, s, lang) # {} THEN ByStatus(seen, s, lang)
    ELSE IF ByName(seen, s) # {} THEN ByName(seen, s) ELSE ByCategory(seen, s)

Listed1st(found) == CHOOSE tr \in found : \A other \in found : tr.id <= other.id

(* The site: whatever bears the name of a status that is asked for means   *)
(* it, and from To Do a ticket can be put in progress, by its English name *)
(* and in every language.                                                  *)
JbTargets == {"To Do", "In Progress", JbDone}
ASSUME SiteAssumption ==
    /\ "To Do" \in DOMAIN JbCategory /\ JbCategory["To Do"] = "new"
    /\ \A st \in DOMAIN JbCategory : JbCategory[st] \in {"new", "indeterminate", "done"}
    /\ JbDone \notin {"To Do", "In Progress"} /\ "" \notin JbUsers
    /\ \A tr \in JbFlow :
          /\ tr.id \in Nat /\ tr.to \in DOMAIN JbCategory
          /\ tr.name \in JbTargets => JbCategory[tr.to] = TargetCategory(tr.name)
    /\ \A l \in DOMAIN JbShown, st \in DOMAIN JbCategory :
          /\ JbShown[l][st] = "In Progress" => st # "To Do"
          /\ JbShown[l][st] = JbDone => st = JbDone \/ JbCategory[st] = "done"
    /\ \E tr \in Available("To Do") : tr.to = "In Progress"
    /\ \A l \in DOMAIN JbShown : PickTransition(Available("To Do"), "In Progress", l) # {}

(* GET transitions: those that lead out of the present status.             *)
GetTransitions(t) ==
    LET k == jbTask[t].key
        u == jbTask[t].owner
        seen == Available(jbIssue[k].st)
    IN  /\ jbTask[t].pc = "move" /\ RestCredential(u)
        /\ IF ~CheckStatus(u)
              \/ PickTransition(seen, JbTarget(jbTask[t].kind), jbLang[u]) = {}
           THEN JbFails(t, AfterMove(jbTask[t].kind))
           ELSE jbTask' = [jbTask EXCEPT ![t].pc = "post", ![t].seen = seen]
        /\ UNCHANGED <<jbItem, JbOthers, jbReverted>>

MovesTo(t, st) ==
    /\ jbIssue' = [jbIssue EXCEPT ![jbTask[t].key].st = st]
    /\ jbTask' = [jbTask EXCEPT ![t].pc = AfterMove(jbTask[t].kind), ![t].to = st]

(* POST the transition that was picked: the site refuses one that does not *)
(* lead out of the status the ticket has by now.                           *)
PostTransition(t) ==
    LET k == jbTask[t].key
        u == jbTask[t].owner
        tr == Listed1st(PickTransition(jbTask[t].seen, JbTarget(jbTask[t].kind), jbLang[u]))
    IN  /\ jbTask[t].pc = "post"
        /\ IF CheckStatus(u) /\ jbIssue[k].st \in tr.from
           THEN MovesTo(t, tr.to)
           ELSE JbFails(t, AfterMove(jbTask[t].kind)) /\ UNCHANGED jbIssue
        /\ UNCHANGED <<jbItem, jbCred, jbLang, jbList, jbDetail, jbFaults, jbTouched,
                       jbReverted>>

(* acli moves by the name of the status, in the host account's language,   *)
(* which is English here; no such transition is an error.                  *)
AcliTransition(t) ==
    LET k == jbTask[t].key
        s == JbTarget(jbTask[t].kind)
    IN  /\ jbTask[t].pc = "move" /\ ~RestCredential(jbTask[t].owner)
        /\ IF \E tr \in Available(jbIssue[k].st) : tr.to = s
           THEN MovesTo(t, s)
           ELSE JbFails(t, AfterMove(jbTask[t].kind)) /\ UNCHANGED jbIssue
        /\ UNCHANGED <<jbItem, jbCred, jbLang, jbList, jbDetail, jbFaults, jbTouched,
                       jbReverted>>

Learns(t, detail) ==
    /\ jbDetail' = [jbDetail EXCEPT ![jbTask[t].key] = detail]
    /\ jbTask' = [jbTask EXCEPT ![t] = IdleJb]
    /\ UNCHANGED <<jbItem, jbIssue, jbCred, jbLang, jbList, jbFaults, jbTouched, jbReverted>>

(* Linked tickets, inward and outward, of the configured projects.         *)
LinkedKeys(k) == JbLinks[k] \ {0}

(* The details, and each linked ticket one level deep, the ones that       *)
(* cannot be read left out.  Without details the driver goes on with       *)
(* little context.                                                         *)
RestDetails(t) ==
    LET u == jbTask[t].owner
    IN  /\ jbTask[t].pc = "details" /\ RestCredential(u)
        /\ IF ~CheckStatus(u) THEN Learns(t, NoDetail)
           ELSE \E l \in SUBSET LinkedKeys(jbTask[t].key) : Learns(t, [got |-> TRUE, links |-> l])

(* acli is asked for fields the links are not among: there are none.       *)
AcliLinks(k) == {}

AcliDetails(t) ==
    /\ jbTask[t].pc = "details" /\ ~RestCredential(jbTask[t].owner)
    /\ \E got \in BOOLEAN : Learns(t, [got |-> got, links |-> AcliLinks(jbTask[t].key)])

KeepsNothing(t) == jbTask[t].kind \notin {"undo", "drop", "close"}

KeepsItem(t) ==
    /\ jbTask[t].kind \notin {"undo", "drop"}
    /\ jbTask[t].kind = "close" => ~jbTask[t].ok

(* The sequence ends.  Mark-as-done takes the item off the board when the  *)
(* site took the move and the worktree could be removed, and else reports  *)
(* the error; a delete takes it off in any case.                           *)
CallsEnd(t) ==
    LET k == jbTask[t].key
    IN  /\ jbTask[t].pc = "end"
        /\ \/ KeepsItem(t) /\ UNCHANGED jbItem
           \/ ~KeepsItem(t) /\ jbItem' = [jbItem EXCEPT ![k] = NoItemJb]
           \/ jbTask[t].kind = "close" /\ UNCHANGED jbItem
        /\ jbTask' = [jbTask EXCEPT ![t] = IdleJb]
        /\ UNCHANGED <<JbOthers, jbReverted>>
----------------------------------------------------------------------------
(* The world.                                                              *)

Fault == jbFaults < MaxJbFaults /\ jbFaults' = jbFaults + 1

(* A request that gets no answer, or a status that is neither 2xx nor 401  *)
(* or 403; it may have been carried out.                                   *)
RequestFails(t) ==
    LET k == jbTask[t].key
    IN  /\ Fault /\ jbTask[t].pc \in {"assign", "move", "post"}
        /\ JbFails(t, IF jbTask[t].pc = "assign" THEN "move" ELSE AfterMove(jbTask[t].kind))
        /\ jbTouched' = jbTouched \cup {k}
        /\ UNCHANGED <<jbItem, jbIssue, jbCred, jbLang, jbList, jbDetail, jbReverted>>

CredentialChanges(u) ==
    /\ Fault /\ \E c \in {"none", "good", "revoked", "unreadable"} : jbCred' = [jbCred EXCEPT ![u] = c]
    /\ jbTouched' = JbKeys
    /\ UNCHANGED <<jbItem, jbIssue, jbTask, jbLang, jbList, jbDetail, jbReverted>>

PersonMoves(k) ==
    /\ Fault /\ \E tr \in Available(jbIssue[k].st) :
                    jbIssue' = [jbIssue EXCEPT ![k].st = tr.to]
    /\ jbTouched' = jbTouched \cup {k}
    /\ UNCHANGED <<jbItem, jbTask, jbCred, jbLang, jbList, jbDetail, jbReverted>>

JbNext ==
    \/ \E u \in JbUsers : ListTickets(u) \/ PickerLists(u) \/ CredentialChanges(u)
    \/ \E k \in JbKeys : FlowCompletes(k) \/ PersonMoves(k)
    \/ \E t \in JbTasks :
        \/ \E k \in JbKeys : \/ StartItem(t, k) \/ StopJbItem(t, k)
                             \/ DeleteItem(t, k) \/ MarkDone(t, k)
                             \/ \E u \in JbUsers : AddItem(t, k, u)
        \/ CheckCancelled(t) \/ Assign(t) \/ Unassign(t) \/ GetTransitions(t)
        \/ PostTransition(t) \/ AcliTransition(t) \/ RestDetails(t) \/ AcliDetails(t)
        \/ CallsEnd(t) \/ RequestFails(t)

JbSpec == JbInit /\ [][JbNext]_jbVars
----------------------------------------------------------------------------
Quiet(k) == \A t \in JbTasks : jbTask[t].pc = "idle" \/ jbTask[t].key # k

(* A ticket is moved where it was asked to be: to the status of that name  *)
(* when one of the transitions seen leads there, and otherwise, if at all, *)
(* to one that means the same - also in an account of another language,    *)
(* and when somebody moves the ticket between the two requests.            *)
MovesAsAsked ==
    [][\A t \in JbTasks :
         LET k == jbTask[t].key
             s == JbTarget(jbTask[t].kind)
             shown == JbShown[jbLang[jbTask[t].owner]]
         IN  PostTransition(t) /\ jbIssue'[k] # jbIssue[k] =>
               \/ shown[jbIssue'[k].st] = s
               \/ /\ \A tr \in jbTask[t].seen : shown[tr.to] # s
                  /\ JbCategory[jbIssue'[k].st] = TargetCategory(s)]_jbVars

(* "The workflow row is removed only if both succeed": an item that is     *)
(* marked done leaves the board only after the site accepted a move of its *)
(* ticket to a done status.                                                *)
RemovedMeansDone ==
    [][\A t \in JbTasks : CallsEnd(t) /\ jbTask[t].kind = "close" /\ jbItem' # jbItem =>
         jbTask[t].to \in {JbDone} \cup {s \in DOMAIN JbCategory : JbCategory[s] = "done"}]_jbVars

(* While nothing failed and nobody interfered, an item that runs and was   *)
(* never stopped or deleted has its ticket out of To Do and assigned, so   *)
(* that no search finds it again.                                          *)
RunningIsClaimed ==
    \A k \in JbKeys :
        jbItem[k].st = "running" /\ Quiet(k) /\ k \notin jbTouched \cup jbReverted =>
            /\ jbIssue[k].st # "To Do"
            /\ jbIssue[k].who # ""

(* "On stop: active sessions killed, ticket reverted to To Do."  A stop    *)
(* that overtakes the driver's own calls, which nothing cancels, leaves    *)
(* the ticket in progress.                                                 *)
StopReverts ==
    \A k \in JbKeys :
        jbItem[k].st = "stopped" /\ Quiet(k) /\ k \notin jbTouched =>
            jbIssue[k].st = "To Do" /\ jbIssue[k].who = ""

(* "Sort by key to ensure oldest-first deterministic ordering": keys are   *)
(* compared as text.                                                       *)
OldestFirst == \A i, j \in 1..Len(jbList) : i < j => jbList[i] < jbList[j]

(* The tickets on the site: one that runs is out of To Do and assigned, each*)
(* is moved where it was asked to be, and an item marked done had its ticket*)
(* moved before.                                                            *)
TicketsFollow == []RunningIsClaimed /\ MovesAsAsked /\ RemovedMeansDone

============================================================================
