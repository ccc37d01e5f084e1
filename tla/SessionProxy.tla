---------------------------- MODULE SessionProxy ----------------------------
(***************************************************************************)
(* The reverse proxy in front of editors, terminals and forwarded ports    *)
(* (routes/sessions, session_registry.rs).  A path token leads to a host   *)
(* port; /s/{token}/... is forwarded to that port for the token's owner,   *)
(* and a root-relative request of a proxied page is sent after that page   *)
(* by its Referer or by the takuto_dynamic_port cookie.                    *)
(* Backends are numbered as they start, and <<b, i>> is the i-th token that *)
(* was drawn for b: a request that has started b, or has found it alive,   *)
(* registers it afterwards, an editor under the token of its command line, *)
(* anything else under a fresh one.                                        *)
(* Paths, queries and headers other than these two are abstracted away.    *)
(***************************************************************************)
EXTENDS Naturals, FiniteSets

CONSTANTS
  PxTickets,   \* work items
  PxUsers,     \* users
  PxOwner,     \* PxOwner[t]: the user the item and its sessions belong to
  PxPorts,     \* host ports of the session range
  PxReqs,      \* requests under way at one time
  MaxBackends, \* bound: backends started
  MaxTokens,   \* bound: tokens drawn for one backend
  MaxSeen,     \* bound: backends found alive and not registered yet
  MaxAsks      \* bound: requests

ASSUME ProxyAssumption ==
  /\ PxOwner \in [PxTickets -> PxUsers]
  /\ "nobody" \notin PxUsers /\ MaxBackends \in Nat
  /\ MaxTokens \in Nat \ {0} /\ MaxSeen \in Nat

VARIABLES
  pxReg,      \* path_token_registry: token -> route
  pxListen,   \* the backend listening on each port, 0: none
  pxNext,     \* backends started so far
  pxKind,     \* what each backend started is, and for which item
  pxDrawn,    \* tokens drawn for each backend
  pxSeen,     \* backends, with their ports, that a request is about to register
  pxClosed,   \* backends that close_editor or close_terminal took down
  pxEnded,    \* backends that went without a close: crashed, item deleted
  pxLogin,    \* users with a valid session cookie
  pxCookie,   \* each user's takuto_dynamic_port cookie, or NoToken
  pxPages,    \* pages of forwarded ports open in a tab of the user
  pxReq,      \* the requests
  pxAsks      \* how many there were

pxVars == <<pxReg, pxListen, pxNext, pxKind, pxDrawn, pxSeen, pxClosed, pxEnded, pxLogin,
            pxCookie, pxPages, pxReq, pxAsks>>

PxBackends == 1..MaxBackends
PxTokens == PxBackends \X (1..MaxTokens)
NoToken == <<0, 0>>
Of(n) == n[1]
PxKinds == {"editor", "terminal", "dynamic"}
NoRoute == [kind |-> "none"]
IdleReq == [at |-> "idle"]

Registered(n) == n \in PxTokens /\ pxReg[n] # NoRoute

PxInit ==
  /\ pxReg = [n \in PxTokens |-> NoRoute]
  /\ pxListen = [p \in PxPorts |-> 0]
  /\ pxNext = 0
  /\ pxKind = [b \in PxBackends |-> NoRoute]
  /\ pxDrawn = [b \in PxBackends |-> 0]
  /\ pxSeen = {} /\ pxClosed = {} /\ pxEnded = {}
  /\ pxLogin = PxUsers
  /\ pxCookie = [u \in PxUsers |-> NoToken]
  /\ pxPages = {}
  /\ pxReq = [r \in PxReqs |-> IdleReq]
  /\ pxAsks = 0

-----------------------------------------------------------------------------
(* The registry and the sessions behind it.                                *)

\* The route to a backend at its port, and whether it comes after a close.
RouteOf(f) ==
  [kind |-> pxKind[f.of].kind, port |-> f.port, ticket |-> pxKind[f.of].ticket,
   user |-> PxOwner[pxKind[f.of].ticket], back |-> f.of \in pxClosed]

BackendsOf(t, k) ==
  {b \in 1..pxNext : /\ pxKind[b].ticket = t
                     /\ pxKind[b].kind \in IF k = "editor" THEN {"editor", "dynamic"}
                                                           ELSE {k}}
Listening == {pxListen[p] : p \in PxPorts} \ {0}

\* start_editor, start_terminal, start_socat: a backend starts on a free port,
\* an editor with its token in the command line
StartBackend(t, k) ==
  /\ pxNext < MaxBackends
  /\ k = "dynamic" \/ \A b \in BackendsOf(t, k) \cap Listening : pxKind[b].kind # k
  /\ \E p \in PxPorts :
       /\ pxListen[p] = 0
       /\ pxListen' = [pxListen EXCEPT ![p] = pxNext + 1]
       /\ pxSeen' = pxSeen \cup {[of |-> pxNext + 1, port |-> p]}
  /\ pxNext' = pxNext + 1
  /\ pxKind' = [pxKind EXCEPT ![pxNext + 1] = [kind |-> k, ticket |-> t]]
  /\ pxDrawn' = [pxDrawn EXCEPT ![pxNext + 1] = IF k = "editor" THEN 1 ELSE 0]
  /\ UNCHANGED <<pxReg, pxClosed, pxEnded, pxLogin, pxCookie, pxPages, pxReq, pxAsks>>

\* list_workflows, open_editor and open_terminal look into the container, or
\* into terminal_ports, and find a session alive
FoundAlive(p) ==
  /\ pxListen[p] # 0 /\ Cardinality(pxSeen) < MaxSeen
  /\ pxSeen' = pxSeen \cup {[of |-> pxListen[p], port |-> p]}
  /\ UNCHANGED <<pxReg, pxListen, pxNext, pxKind, pxDrawn, pxClosed, pxEnded, pxLogin,
                 pxCookie, pxPages, pxReq, pxAsks>>

\* register_with_token: an editor goes by its own token, unless that is taken
RegisterWithToken(f) ==
  /\ pxKind[f.of].kind = "editor"
  /\ pxReg' = IF Registered(<<f.of, 1>>) THEN pxReg
              ELSE [pxReg EXCEPT ![<<f.of, 1>>] = RouteOf(f)]
  /\ pxSeen' = pxSeen \ {f}
  /\ UNCHANGED <<pxListen, pxNext, pxKind, pxDrawn, pxClosed, pxEnded, pxLogin, pxCookie,
                 pxPages, pxReq, pxAsks>>
\* register: a terminal and a forwarded port get a fresh one
Register(f) ==
  /\ pxKind[f.of].kind # "editor" /\ pxDrawn[f.of] < MaxTokens
  /\ pxDrawn' = [pxDrawn EXCEPT ![f.of] = @ + 1]
  /\ pxReg' = [pxReg EXCEPT ![<<f.of, pxDrawn[f.of] + 1>>] = RouteOf(f)]
  /\ pxSeen' = pxSeen \ {f}
  /\ UNCHANGED <<pxListen, pxNext, pxKind, pxClosed, pxEnded, pxLogin, pxCookie, pxPages,
                 pxReq, pxAsks>>
\* or the registry had a token for it when the request looked, or the request is dropped
NotRegistered(f) ==
  /\ pxSeen' = pxSeen \ {f}
  /\ UNCHANGED <<pxReg, pxListen, pxNext, pxKind, pxDrawn, pxClosed, pxEnded, pxLogin,
                 pxCookie, pxPages, pxReq, pxAsks>>

\* Mutant of RoutesTornDown: the forwarded ports keep their routes.
RoutesEditorOnly(t, k) ==
  {n \in PxTokens : Registered(n) /\ pxReg[n].ticket = t /\ pxReg[n].kind = k}

\* Mutant of RoutesTornDown: remove_for_ticket, every route of the item.
RoutesAnyKind(t, k) == {n \in PxTokens : Registered(n) /\ pxReg[n].ticket = t}

\* teardown_editor_state drops the routes of the editor and of the ports its
\* scanner forwarded, teardown_terminal_state those of the terminal.
RoutesTornDown(t, k) ==
  {n \in PxTokens : /\ Registered(n) /\ pxReg[n].ticket = t
                    /\ pxReg[n].kind \in IF k = "editor" THEN {"editor", "dynamic"}
                                                         ELSE {k}}

\* Mutant of Close: the backends go first, the routes when they are gone.
CloseBackendFirst(t, k) ==
  /\ k \in {"editor", "terminal"}
  /\ pxListen' = [p \in PxPorts |-> IF pxListen[p] \in BackendsOf(t, k) THEN 0
                                                                       ELSE pxListen[p]]
  /\ pxClosed' = pxClosed \cup (BackendsOf(t, k) \cap Listening)
  /\ UNCHANGED <<pxReg, pxNext, pxKind, pxDrawn, pxSeen, pxEnded, pxLogin, pxCookie, pxPages, pxReq, pxAsks>>

\* close_editor and close_terminal: the routes are dropped first ...
Close(t, k) ==
  /\ k \in {"editor", "terminal"}
  /\ pxReg' = [n \in PxTokens |-> IF n \in RoutesTornDown(t, k) THEN NoRoute ELSE pxReg[n]]
  /\ pxClosed' = pxClosed \cup (BackendsOf(t, k) \cap Listening)
  /\ UNCHANGED <<pxListen, pxNext, pxKind, pxDrawn, pxSeen, pxEnded, pxLogin, pxCookie, pxPages, pxReq, pxAsks>>

\* ... then the backend is stopped and its port is free again.
BackendStopped(p) ==
  /\ pxListen[p] \in pxClosed
  /\ pxListen' = [pxListen EXCEPT ![p] = 0]
  /\ UNCHANGED <<pxReg, pxNext, pxKind, pxDrawn, pxSeen, pxClosed, pxEnded, pxLogin, pxCookie, pxPages, pxReq, pxAsks>>

\* A backend dies, or its item is deleted or marked done with its container:
\* nothing drops the route.
BackendEnds(p) ==
  /\ pxListen[p] \notin pxClosed \cup {0}
  /\ pxEnded' = pxEnded \cup {pxListen[p]}
  /\ pxListen' = [pxListen EXCEPT ![p] = 0]
  /\ UNCHANGED <<pxReg, pxNext, pxKind, pxDrawn, pxSeen, pxClosed, pxLogin, pxCookie, pxPages, pxReq, pxAsks>>

\* The server starts again: the registry is empty, containers and cookies are
\* still there, and a close that was under way is forgotten.
RestartProxy ==
  /\ pxReg' = [n \in PxTokens |-> NoRoute]
  /\ pxClosed' = pxClosed \ Listening
  /\ pxReq' = [r \in PxReqs |-> IdleReq] /\ pxSeen' = {}
  /\ UNCHANGED <<pxListen, pxNext, pxKind, pxDrawn, pxEnded, pxLogin, pxCookie, pxPages, pxAsks>>

SignInOrOut(u) ==
  /\ pxLogin' = IF u \in pxLogin THEN pxLogin \ {u} ELSE pxLogin \cup {u}
  /\ UNCHANGED <<pxReg, pxListen, pxNext, pxKind, pxDrawn, pxSeen, pxClosed, pxEnded, pxCookie, pxPages, pxReq, pxAsks>>

-----------------------------------------------------------------------------
(* A request for /s/{token}/..., and one of a proxied page for an asset.   *)

PxMove(r, rec) ==
  /\ pxReq' = [pxReq EXCEPT ![r] = rec]
  /\ UNCHANGED <<pxReg, pxListen, pxNext, pxKind, pxDrawn, pxSeen, pxClosed, pxEnded, pxLogin>>

\* user_owns_route: without a known user the check is skipped.
UserOwnsRoute(user, route) == user = "nobody" \/ route.user = user

\* authenticate_request of the user whose browser asks.
Authenticated(u) == u \in pxLogin

\* The request ends with an answer of the proxy itself.
Refuse(r, c) == PxMove(r, [pxReq[r] EXCEPT !.at = "done", !.code = c])

AskSession(r, u, n) ==
  /\ pxReq[r].at \in {"idle", "done"} /\ n[2] <= pxDrawn[Of(n)]
  /\ pxAsks < MaxAsks /\ pxAsks' = pxAsks + 1
  /\ PxMove(r, [at |-> "auth", path |-> "session", by |-> u, tok |-> n, page |-> n,
                ref |-> FALSE, late |-> FALSE, route |-> NoRoute,
                got |-> 0, code |-> "ok"])
  /\ UNCHANGED <<pxCookie, pxPages>>

\* proxy_session: the cookie is validated ...
SessionAuth(r) ==
  /\ pxReq[r].at = "auth" /\ pxReq[r].path = "session"
  /\ IF Authenticated(pxReq[r].by)
     THEN PxMove(r, [pxReq[r] EXCEPT !.at = "look"])
     ELSE Refuse(r, "401")
  /\ UNCHANGED <<pxCookie, pxPages, pxAsks>>

Found(r, n) ==
  [pxReq[r] EXCEPT !.tok = n, !.route = pxReg[n], !.late = Of(n) \in pxClosed]

\* ... then the token is looked up and its owner compared.
SessionLookup(r) ==
  /\ pxReq[r].at = "look" /\ pxReq[r].path = "session"
  /\ LET n == pxReq[r].tok
     IN IF Registered(n) /\ UserOwnsRoute(pxReq[r].by, pxReg[n])
        THEN PxMove(r, [Found(r, n) EXCEPT !.at = "send"])
        ELSE Refuse(r, "404")
  /\ UNCHANGED <<pxCookie, pxPages, pxAsks>>

\* A page of a forwarded port asks for a root-relative path; the Referer names
\* the page's token, or a module that was itself loaded from the root.
AskAsset(r, u, ref) ==
  /\ pxReq[r].at \in {"idle", "done"}
  /\ pxAsks < MaxAsks /\ pxAsks' = pxAsks + 1
  /\ \E n \in PxTokens :
       /\ <<u, n>> \in pxPages
       /\ PxMove(r, [at |-> "look", path |-> "asset", by |-> u, tok |-> NoToken, page |-> n,
                     ref |-> ref, late |-> FALSE, route |-> NoRoute,
                got |-> 0, code |-> "ok"])
  /\ UNCHANGED <<pxCookie, pxPages>>

Dynamic(n) == Registered(n) /\ pxReg[n].kind = "dynamic"

\* Mutant of DynamicPortRoute: the cookie before the Referer.
CookieFirst(q) ==
  IF Dynamic(pxCookie[q.by]) THEN {pxCookie[q.by]}
  ELSE {n \in {q.page} : q.ref /\ Dynamic(n)}

\* find_dynamic_port_route: the Referer's token, else the cookie's.
DynamicPortRoute(q) ==
  IF q.ref /\ Dynamic(q.page) THEN {q.page}
  ELSE {n \in {pxCookie[q.by]} : Dynamic(n)}

\* proxy_or_static_fallback: no route, the static files answer.
AssetLookup(r) ==
  /\ pxReq[r].at = "look" /\ pxReq[r].path = "asset"
  /\ IF DynamicPortRoute(pxReq[r]) = {} THEN Refuse(r, "static")
     ELSE \E n \in DynamicPortRoute(pxReq[r]) :
            PxMove(r, [Found(r, n) EXCEPT !.at = "auth"])
  /\ UNCHANGED <<pxCookie, pxPages, pxAsks>>

\* A failed authentication counts as no user, and the check is skipped.
AssetAuth(r) ==
  /\ pxReq[r].at = "auth" /\ pxReq[r].path = "asset"
  /\ LET user == IF Authenticated(pxReq[r].by) THEN pxReq[r].by ELSE "nobody"
     IN IF UserOwnsRoute(user, pxReq[r].route)
        THEN PxMove(r, [pxReq[r] EXCEPT !.at = "send"])
        ELSE Refuse(r, "static")
  /\ UNCHANGED <<pxCookie, pxPages, pxAsks>>

\* forward_http: whoever listens on the route's port answers.  An HTML answer
\* of a forwarded port sets the cookie and is a page in the browser.
ForwardHttp(r) ==
  /\ pxReq[r].at = "send"
  /\ LET q == pxReq[r]
         n == pxListen[q.route.port]
     IN IF n = 0 THEN Refuse(r, "502") /\ UNCHANGED <<pxCookie, pxPages>>
        ELSE /\ PxMove(r, [q EXCEPT !.at = "done", !.got = n])
             /\ \E html \in BOOLEAN :
                  IF html /\ q.route.kind = "dynamic"
                  THEN /\ pxCookie' = [pxCookie EXCEPT ![q.by] = q.tok]
                       /\ pxPages' = IF q.path = "session" /\ n = Of(q.tok)
                                     THEN pxPages \cup {<<q.by, q.tok>>} ELSE pxPages
                  ELSE UNCHANGED <<pxCookie, pxPages>>
  /\ UNCHANGED pxAsks

\* forward_websocket, when the headers ask for an upgrade: the tunnel lasts
\* until one end goes away, whatever becomes of the token or of the login.
ForwardWebsocket(r) ==
  /\ pxReq[r].at = "send" /\ pxReq[r].path = "session"
  /\ LET n == pxListen[pxReq[r].route.port]
     IN IF n = 0 THEN Refuse(r, "502")
        ELSE PxMove(r, [pxReq[r] EXCEPT !.at = "tunnel", !.got = n])
  /\ UNCHANGED <<pxCookie, pxPages, pxAsks>>

TunnelEnds(r) ==
  /\ pxReq[r].at = "tunnel"
  /\ PxMove(r, [pxReq[r] EXCEPT !.at = "done"])
  /\ UNCHANGED <<pxCookie, pxPages, pxAsks>>

PxNextStep ==
  \/ \E t \in PxTickets, k \in PxKinds : StartBackend(t, k) \/ Close(t, k)
  \/ \E p \in PxPorts : BackendStopped(p) \/ BackendEnds(p) \/ FoundAlive(p)
  \/ \E f \in pxSeen : RegisterWithToken(f) \/ Register(f) \/ NotRegistered(f)
  \/ RestartProxy
  \/ \E u \in PxUsers : SignInOrOut(u)
  \/ \E r \in PxReqs :
       \/ \E u \in PxUsers, n \in PxTokens : AskSession(r, u, n)
       \/ \E u \in PxUsers, ref \in BOOLEAN : AskAsset(r, u, ref)
       \/ SessionAuth(r) \/ SessionLookup(r) \/ AssetLookup(r) \/ AssetAuth(r)
       \/ ForwardHttp(r) \/ ForwardWebsocket(r) \/ TunnelEnds(r)

PxSpec == PxInit /\ [][PxNextStep]_pxVars

-----------------------------------------------------------------------------
\* The backend that answers is the one the token was drawn for, and for a
\* /s/{token} path one of the asking user's; anything else (a 502, or the new
\* tenant of a port) means that the backend had gone without a close, or that
\* it was closed.  Then the look-up came before the close, or it found a route
\* that was put there only after the close, by a request that had seen the
\* backend alive: `remove` must come before the port goes, and leave nothing.
AnsweredByNamed ==
  \A r \in PxReqs :
    LET q == pxReq[r]
    IN q.at \in {"done", "tunnel"} /\ (q.got # 0 \/ q.code = "502") =>
         \/ q.got = Of(q.tok)
            /\ (q.path = "session" => PxOwner[pxKind[Of(q.tok)].ticket] = q.by)
         \/ Of(q.tok) \in pxEnded
         \/ Of(q.tok) \in pxClosed /\ (q.late => q.route.back)

\* With the page's token in the Referer an asset comes from the page's own
\* application as long as that application runs, whichever page set the cookie
\* last (two forwarded ports open in two tabs).
AssetFollowsPage ==
  \A r \in PxReqs :
    LET q == pxReq[r]
    IN q.at = "done" /\ q.path = "asset" /\ q.ref /\ q.got # 0 =>
         q.got = Of(q.page) \/ Of(q.page) \in pxClosed \cup pxEnded \/ ~Registered(q.page)

\* Closing the editor never takes the terminal's route away, nor closing the
\* terminal the editor's: they share the container and are closed one by one
\* (only a restart, which closes nothing, empties the registry).
CloseSparesOther ==
  [][\A n \in PxTokens :
       Registered(n) /\ pxReg'[n] = NoRoute =>
         Of(n) \in pxClosed' \cup pxEnded \/ RestartProxy]_pxVars

\* session_registry.rs: the cookie lets the fallback "route root-relative JS
\* imports to the correct upstream".  Without a Referer naming the page the
\* cookie of the page loaded last decides.
ImportsFollowPage ==
  \A r \in PxReqs :
    LET q == pxReq[r]
    IN q.at = "done" /\ q.path = "asset" /\ q.got # 0 =>
         q.got = Of(q.page) \/ Of(q.page) \in pxClosed \cup pxEnded \/ ~Registered(q.page)

\* close_editor: the mapping is dropped "BEFORE the IDE process is killed so
\* any in-flight request gets a clean 404".  A request that saw the process
\* alive before can put the mapping back.
ClosedIsNotFound ==
  \A r \in PxReqs : pxReq[r] # IdleReq => ~pxReq[r].late

(* The session proxy: a request is answered by the backend it names, an     *)
(* asset by that of its page, and closing one session leaves the others.    *)
ProxySafe == [](AnsweredByNamed /\ AssetFollowsPage) /\ CloseSparesOther

=============================================================================
