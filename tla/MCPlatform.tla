----------------------------- MODULE MCPlatform -----------------------------
(***************************************************************************)
(* What surrounds the work on tickets: the repositories, the dashboard,    *)
(* the tickets on the Jira site and the proxied sessions.  The modules     *)
(* share no variable, so a behaviour of them all is one of each: the run   *)
(* explores them one at a time, with the others in one initial state.      *)
(***************************************************************************)
EXTENDS Repositories, Dashboard, JiraBoard, SessionProxy, TLC

VARIABLE part
Parts == <<rpVars, bdVars, jbVars, pxVars>>

----------------------------------------------------------------------------
MCUrls == {<<"o1", "app">>}

(* A flow of one step and one of two.                                      *)
MCLen == <<1, 2>>

(* A board of Jira whose names are those of the transitions in part only.  *)
MCType == [k \in JbKeys |-> "Task"]
MCLinks == [k \in JbKeys |-> {0}]
MCFlow == {[id |-> 1, name |-> "Begin", from |-> {"To Do"}, to |-> "Review"],
           [id |-> 2, name |-> "Start", from |-> {"To Do", "Review"}, to |-> "In Progress"],
           [id |-> 3, name |-> "Reopen", from |-> {"In Progress", "Review", "Closed"},
            to |-> "To Do"],
           [id |-> 4, name |-> "Resolve", from |-> {"In Progress"}, to |-> "Closed"],
           [id |-> 5, name |-> "Done", from |-> {"In Progress", "Review"}, to |-> "Done"]}
MCCategory ==
    [s \in {"To Do", "In Progress", "Review", "Done", "Closed"} |->
        CASE s = "To Do" -> "new"
          [] s \in {"Done", "Closed"} -> "done"
          [] OTHER -> "indeterminate"]
MCShown == [en |-> [s \in DOMAIN MCCategory |-> s],
            fr |-> [s \in DOMAIN MCCategory |-> "fr " \o s]]

(* Each ticket has an owner of its own, who stands for it.                 *)
MCOwner == [t \in PxTickets |-> t]

(* The runs of both flows are explored without requests about the text,    *)
(* and those requests beside the runs of the first flow.                   *)
OneFlow == OnBoard => bdItem.flow = 1

(* Requests that name a session are explored one at a time beside all kinds *)
(* of them, and the pages of forwarded ports, with their assets, beside no  *)
(* other kind and without a second registration of a port.  A login is only *)
(* looked at, and only changes, while a request of the user is to be        *)
(* authenticated; for a session that is over before anything else happens,  *)
(* and nothing happens beside a tunnel.                                     *)
NoPages == pxPages = {} /\ pxCookie = [u \in PxUsers |-> NoToken]
FewTokens == \A b \in 1..pxNext : b = 1 \/ pxDrawn[b] <= 1
OnlyPages ==
    /\ \A b \in 1..pxNext : pxKind[b].kind = "dynamic" /\ pxDrawn[b] <= 1
    /\ \A f \in pxSeen : pxDrawn[f.of] = 0
Unanswered == pxAsks = 0 \/ \E r \in PxReqs : pxReq[r].at \notin {"idle", "done"}
AtAuth(u) == \E r \in PxReqs : pxReq[r].at = "auth" /\ pxReq[r].by = u
LoginAsked == \A u \in PxUsers : (u \in pxLogin) # (u \in pxLogin') => AtAuth(u)
Alone ==
    (\E r \in PxReqs : pxReq[r].at \in {"auth", "tunnel"}) => pxReq' # pxReq \/ pxLogin' # pxLogin

----------------------------------------------------------------------------
MCInit ==
    /\ part \in {"repositories", "dashboard", "texts", "jira", "sessions", "pages"}
    /\ RpInit
    /\ BdInit /\ (part \notin {"dashboard", "texts"} => bdTracker = "none" /\ bdMine = {})
    /\ JbInit /\ (part # "jira" => \A u \in JbUsers : jbCred[u] = "none" /\ jbLang[u] = "en")
    /\ PxInit

MCNext ==
    \/ part = "repositories" /\ RpNext
          /\ UNCHANGED <<part, bdVars, jbVars, pxVars>>
    \/ part = "dashboard" /\ BdNext /\ bdEdits' = 0
          /\ UNCHANGED <<part, rpVars, jbVars, pxVars>>
    \/ part = "texts" /\ BdNext /\ OneFlow'
          /\ UNCHANGED <<part, rpVars, jbVars, pxVars>>
    \/ part = "jira" /\ JbNext
          /\ UNCHANGED <<part, rpVars, bdVars, pxVars>>
    \/ part = "sessions" /\ PxNextStep /\ NoPages' /\ FewTokens'
          /\ Unanswered /\ LoginAsked /\ Alone
          /\ UNCHANGED <<part, rpVars, bdVars, jbVars>>
    \/ part = "pages" /\ PxNextStep /\ OnlyPages' /\ LoginAsked
          /\ UNCHANGED <<part, rpVars, bdVars, jbVars>>
MCSpec == MCInit /\ [][MCNext]_<<part, Parts>>

(* Requests, users, tasks and ports are interchangeable.  Only one part    *)
(* moves, so one permutation may swap a pair of every part together.       *)
Swap(S, on) == CHOOSE f \in Permutations(S) : \A x \in S : (f[x] # x) <=> on
MCSymmetry ==
    {Swap(RpReqs, one) @@ Swap(RpUsers, two) @@ Swap(BdUsers, one) @@ Swap(JbTasks, one)
       @@ Swap(PxPorts, one) @@ Swap(PxUsers, two) : one, two \in BOOLEAN}
=============================================================================
