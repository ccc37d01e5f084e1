--------------------------- MODULE PlatformProofs ---------------------------
(***************************************************************************)
(* Proofs about the proxied sessions, the registered repositories, the     *)
(* dashboard and the import of the database, for every number of users,    *)
(* items, flows, ports, backends, requests and crashes.                    *)
(***************************************************************************)
EXTENDS Repositories, SessionProxy, Dashboard, DatabaseStart, FiniteSetTheorems,
        WellFoundedInduction, TLAPS

----------------------------------------------------------------------------
(* The session proxy.                                                      *)

PxRoutes ==
  [kind : PxKinds, port : PxPorts, ticket : PxTickets, user : PxUsers, back : BOOLEAN]
PxSessions == [kind : PxKinds, ticket : PxTickets]
PxSightings == [of : 1 .. pxNext, port : PxPorts]
SomeToken == PxTokens \cup {NoToken}
PxRequest == [at : {"auth", "look", "send", "done", "tunnel"}, path : {"session", "asset"},
              by : PxUsers, tok : SomeToken, page : PxTokens, ref : BOOLEAN, late : BOOLEAN,
              route : PxRoutes \cup {NoRoute}, got : 0 .. MaxBackends,
              code : {"ok", "401", "404", "502", "static"}]

PxType ==
  /\ pxReg \in [PxTokens -> PxRoutes \cup {NoRoute}]
  /\ pxListen \in [PxPorts -> 0 .. pxNext] /\ pxNext \in 0 .. MaxBackends
  /\ pxKind \in [PxBackends -> PxSessions \cup {NoRoute}]
  /\ \A b \in 1 .. pxNext : pxKind[b] \in PxSessions
  /\ pxDrawn \in [PxBackends -> 0 .. MaxTokens]
  /\ pxSeen \subseteq PxSightings
  /\ pxClosed \subseteq 1 .. pxNext /\ pxEnded \subseteq 1 .. pxNext
  /\ pxLogin \subseteq PxUsers /\ pxCookie \in [PxUsers -> SomeToken]
  /\ pxReq \in [PxReqs -> PxRequest \cup {IdleReq}]

(* The registry names the owner and the port of each backend; a route      *)
(* outlives its backend only when that went without a close, and comes     *)
(* after a close only from a request that had found the backend before.    *)
Lost(b) == b \in pxEnded \/ b \in pxClosed
WasDrawn(n) == n \in PxTokens /\ Of(n) \in 1 .. pxNext /\ n[2] <= pxDrawn[Of(n)]
RouteLives(n) ==
  /\ WasDrawn(n)
  /\ pxReg[n].kind = pxKind[Of(n)].kind /\ pxReg[n].ticket = pxKind[Of(n)].ticket
  /\ pxReg[n].user = PxOwner[pxKind[Of(n)].ticket]
  /\ pxListen[pxReg[n].port] = Of(n) \/ Lost(Of(n))
  /\ Of(n) \in pxClosed => pxReg[n].back
RoutesLive ==
  /\ \A n \in PxTokens : Registered(n) => RouteLives(n)
  /\ \A b \in 1 .. pxNext : pxKind[b].kind = "editor" => pxDrawn[b] = 1
  /\ \A f \in pxSeen : pxListen[f.port] = f.of \/ Lost(f.of)

IsPage(n) == WasDrawn(n) /\ pxKind[Of(n)].kind = "dynamic"
PagesDynamic == \A page \in pxPages : page[1] \in PxUsers /\ IsPage(page[2])

(* A request that was let through names a token, its route and its owner;  *)
(* the port is still the backend's unless that has gone.                   *)
NamesOwn(q) == q.path = "session" => PxOwner[pxKind[Of(q.tok)].ticket] = q.by
FollowsPage(q) == q.path = "asset" /\ q.ref => q.tok = q.page \/ ~Registered(q.page)
Looked(q) ==
  /\ WasDrawn(q.tok) /\ q.route \in PxRoutes /\ q.route.kind = pxKind[Of(q.tok)].kind
  /\ q.late => q.route.back
  /\ NamesOwn(q) /\ FollowsPage(q)
  /\ pxListen[q.route.port] = Of(q.tok) \/ Lost(Of(q.tok))
Answered(q) ==
  q.got # 0 \/ q.code = "502" =>
    /\ WasDrawn(q.tok) /\ FollowsPage(q) /\ (q.late => q.route.back)
    /\ (q.got = Of(q.tok) /\ NamesOwn(q)) \/ Lost(Of(q.tok))
ReqOK(q) ==
  q # IdleReq =>
    /\ q.path = "asset" => IsPage(q.page)
    /\ q.at \in {"auth", "look", "send"} => q.got = 0 /\ q.code = "ok"
    /\ q.at = "send" \/ (q.at = "auth" /\ q.path = "asset") => Looked(q)
    /\ q.at \in {"done", "tunnel"} => Answered(q)

PxInv == PxType /\ RoutesLive /\ PagesDynamic /\ \A r \in PxReqs : ReqOK(pxReq[r])

LEMMA NotNoRoute == \A x \in PxRoutes \cup PxSessions : x # NoRoute
BY DEF PxRoutes, PxSessions, PxKinds, NoRoute

LEMMA TokenParts ==
  /\ \A n \in PxTokens : Of(n) \in 1 .. MaxBackends /\ Of(n) \in PxBackends /\ n[2] \in 1 .. MaxTokens
                        /\ n = <<Of(n), n[2]>>
  /\ \A b \in PxBackends, i \in 1 .. MaxTokens : <<b, i>> \in PxTokens /\ Of(<<b, i>>) = b /\ <<b, i>>[2] = i
BY DEF PxTokens, PxBackends, Of

LEMMA PxBounds ==
  ASSUME PxInv
  PROVE  /\ pxNext \in Nat /\ MaxBackends \in Nat /\ MaxTokens \in Nat /\ 1 <= MaxTokens /\ pxNext <= MaxBackends
         /\ 1 .. pxNext \subseteq PxBackends /\ 0 .. pxNext \subseteq 0 .. MaxBackends /\ 0 \notin 1 .. pxNext
BY ProxyAssumption DEF PxInv, PxType, PxBackends

(* What was drawn and who was lost stays so as long as nothing restarts.   *)
LEMMA DrawnStays ==
  ASSUME PxInv, pxNext' \in Nat, pxNext <= pxNext',
         pxDrawn' \in [PxBackends -> 0 .. MaxTokens],
         \A b \in 1 .. pxNext : pxKind'[b] = pxKind[b] /\ pxDrawn[b] <= pxDrawn'[b]
  PROVE  \A n : /\ WasDrawn(n) => WasDrawn(n)' /\ pxKind'[Of(n)] = pxKind[Of(n)]
                /\ IsPage(n) => IsPage(n)'
<1>1. \A b \in 1 .. pxNext : b \in 1 .. pxNext' /\ pxDrawn[b] \in Nat /\ pxDrawn'[b] \in Nat
  BY PxBounds DEF PxInv, PxType
<1>2. \A n : WasDrawn(n) => WasDrawn(n)'
  BY <1>1, TokenParts DEF WasDrawn
<1> QED BY <1>2 DEF WasDrawn, IsPage

(* A step of the registry or of a backend that spares the requests.        *)
LEMMA RequestsStay ==
  ASSUME PxInv, pxNext' \in Nat, pxNext <= pxNext', UNCHANGED pxReq,
         pxDrawn' \in [PxBackends -> 0 .. MaxTokens],
         \A b \in 1 .. pxNext : pxKind'[b] = pxKind[b] /\ pxDrawn[b] <= pxDrawn'[b],
         pxClosed \subseteq pxClosed', pxEnded \subseteq pxEnded',
         \A p \in PxPorts : pxListen'[p] = pxListen[p] \/ pxListen[p] \in {0} \cup pxEnded' \cup pxClosed',
         \A n \in PxTokens : IsPage(n) /\ Registered(n)' => Registered(n)
  PROVE  \A r \in PxReqs : ReqOK(pxReq[r])'
<1>0. PxType /\ \A r \in PxReqs : ReqOK(pxReq[r])
  BY DEF PxInv
<1> SUFFICES ASSUME NEW r \in PxReqs, pxReq[r] # IdleReq PROVE ReqOK(pxReq[r])'
  BY DEF ReqOK
<1>2. PICK q \in PxRequest : q = pxReq[r] /\ ReqOK(q)
  BY <1>0 DEF PxType
<1>3. \A n : /\ WasDrawn(n) => WasDrawn(n)' /\ pxKind'[Of(n)] = pxKind[Of(n)]
             /\ IsPage(n) => IsPage(n)'
  BY DrawnStays
<1>4. \A b : Lost(b) => Lost(b)'
  BY DEF Lost
<1>5. WasDrawn(q.tok) /\ NamesOwn(q) => NamesOwn(q)'
  BY <1>3 DEF NamesOwn
<1>6. (q.path = "asset" => IsPage(q.page)) /\ FollowsPage(q) => FollowsPage(q)'
  BY <1>2 DEF FollowsPage, IsPage, WasDrawn
<1>7. (q.path = "asset" => IsPage(q.page)) /\ Looked(q) => Looked(q)'
  <2> SUFFICES ASSUME q.path = "asset" => IsPage(q.page), Looked(q) PROVE Looked(q)'
    OBVIOUS
  <2>1. q.route.port \in PxPorts /\ Of(q.tok) # 0
    BY PxBounds DEF Looked, PxRoutes, WasDrawn
  <2>2. pxListen'[q.route.port] = Of(q.tok) \/ Lost(Of(q.tok))'
    BY <1>4, <2>1 DEF Looked, Lost
  <2> QED BY <1>3, <1>5, <1>6, <2>2 DEF Looked
<1>8. (q.path = "asset" => IsPage(q.page)) /\ Answered(q) => Answered(q)'
  BY <1>3, <1>4, <1>5, <1>6 DEF Answered
<1>9. ReqOK(q)'
  BY <1>2, <1>3, <1>7, <1>8 DEF ReqOK
<1> QED BY <1>2, <1>9

(* A step that moves one request on.                                       *)
LEMMA RequestGoes ==
  ASSUME PxInv, NEW r \in PxReqs, NEW q \in PxRequest \cup {IdleReq}, pxReq' = [pxReq EXCEPT ![r] = q], ReqOK(q),
         UNCHANGED <<pxReg, pxListen, pxNext, pxKind, pxDrawn, pxSeen, pxClosed, pxEnded, pxLogin>>,
         pxCookie' \in [PxUsers -> SomeToken], PagesDynamic'
  PROVE  PxInv'
<1>0. PxType /\ RoutesLive /\ PagesDynamic /\ \A x \in PxReqs : ReqOK(pxReq[x])
  BY DEF PxInv
<1>1. PxType' /\ RoutesLive'
  BY <1>0 DEF PxType, RoutesLive, RouteLives, WasDrawn, Registered, Lost, PxSightings
<1>2. \A x : ReqOK(x) => ReqOK(x)'
  BY DEF ReqOK, IsPage, WasDrawn, Looked, Answered, Lost, NamesOwn, FollowsPage, Registered
<1>3. \A x \in PxReqs : pxReq'[x] = IF x = r THEN q ELSE pxReq[x]
  BY <1>0 DEF PxType
<1> HIDE DEF ReqOK
<1>4. \A x \in PxReqs : ReqOK(pxReq[x])'
  <2> SUFFICES ASSUME NEW x \in PxReqs PROVE ReqOK(pxReq[x])'
    OBVIOUS
  <2>1. PICK y : y = IF x = r THEN q ELSE pxReq[x]
    OBVIOUS
  <2>2. ReqOK(y)
    BY <1>0, <2>1
  <2>3. ReqOK(y)' /\ pxReq'[x] = y
    BY <1>2, <1>3, <2>1, <2>2
  <2> QED BY <2>3
<1> QED BY <1>1, <1>4 DEF PxInv

(* A route for what a request has found.                                   *)
LEMMA RouteComes ==
  ASSUME PxInv, NEW f \in pxSeen
  PROVE  /\ f.of \in 1 .. pxNext /\ f.of \in PxBackends /\ f.port \in PxPorts /\ pxKind[f.of] \in PxSessions
         /\ RouteOf(f) \in PxRoutes
<1>1. f.of \in 1 .. pxNext /\ f.of \in PxBackends /\ f.port \in PxPorts /\ pxKind[f.of] \in PxSessions
  BY PxBounds DEF PxInv, PxType, PxSightings
<1> QED BY <1>1, ProxyAssumption DEF RouteOf, PxRoutes, PxSessions

(* The token <<f.of, i>> is registered, one that no page was opened by.    *)
LEMMA Registers ==
  ASSUME PxInv, NEW f \in pxSeen, NEW i \in 1 .. MaxTokens, ~IsPage(<<f.of, i>>),
         pxReg' = [pxReg EXCEPT ![<<f.of, i>>] = RouteOf(f)],
         pxDrawn' \in [PxBackends -> 0 .. MaxTokens], pxSeen' \subseteq pxSeen,
         \A b \in 1 .. pxNext : pxDrawn[b] <= pxDrawn'[b] /\ (pxKind[b].kind = "editor" => pxDrawn'[b] = pxDrawn[b]),
         i <= pxDrawn'[f.of],
         UNCHANGED <<pxListen, pxNext, pxKind, pxClosed, pxEnded, pxLogin, pxCookie, pxPages, pxReq>>
  PROVE  PxInv'
<1>0. PxType /\ RoutesLive /\ PagesDynamic
  BY DEF PxInv
<1>1. /\ f.of \in 1 .. pxNext /\ f.of \in PxBackends /\ f.port \in PxPorts /\ pxKind[f.of] \in PxSessions
      /\ RouteOf(f) \in PxRoutes
  BY RouteComes
<1>2. PICK n \in PxTokens : n = <<f.of, i>> /\ Of(n) = f.of /\ n[2] = i
  BY <1>1, TokenParts
<1>3. pxReg'[n] = RouteOf(f) /\ \A m \in PxTokens \ {n} : pxReg'[m] = pxReg[m]
  BY <1>0, <1>2 DEF PxType
<1>4. \A m : /\ WasDrawn(m) => WasDrawn(m)' /\ pxKind'[Of(m)] = pxKind[Of(m)]
             /\ IsPage(m) => IsPage(m)'
  BY DrawnStays, PxBounds
<1>5. PxType'
  BY <1>0, <1>1, <1>2, <1>3 DEF PxType, PxSightings
<1>6. ASSUME NEW m \in PxTokens, Registered(m)' PROVE RouteLives(m)'
  <2>1. CASE m = n
    <3>1. WasDrawn(m)'
      BY <1>1, <1>2, <2>1 DEF WasDrawn
    <3>2. /\ pxReg'[m].kind = pxKind[f.of].kind /\ pxReg'[m].port = f.port
          /\ pxReg'[m].ticket = pxKind[f.of].ticket /\ pxReg'[m].user = PxOwner[pxKind[f.of].ticket]
          /\ pxReg'[m].back = (f.of \in pxClosed)
      BY <1>3, <2>1 DEF RouteOf
    <3>3. pxListen[f.port] = f.of \/ Lost(f.of)
      BY <1>0 DEF RoutesLive
    <3> QED BY <1>2, <2>1, <3>1, <3>2, <3>3 DEF RouteLives, Lost
  <2>2. CASE m # n
    <3>1. pxReg'[m] = pxReg[m] /\ RouteLives(m)
      BY <1>0, <1>3, <1>6, <2>2 DEF Registered, RoutesLive
    <3> QED BY <1>4, <3>1 DEF RouteLives, Lost
  <2> QED BY <2>1, <2>2
<1>7. RoutesLive'
  BY <1>0, <1>6 DEF RoutesLive, Lost
<1>8. PagesDynamic'
  BY <1>0, <1>4 DEF PagesDynamic
<1>9. \A r \in PxReqs : ReqOK(pxReq[r])'
  <2>1. \A m \in PxTokens : IsPage(m) /\ Registered(m)' => Registered(m)
    BY <1>2, <1>3 DEF Registered
  <2> QED BY <2>1, RequestsStay, PxBounds
<1> QED BY <1>5, <1>7, <1>8, <1>9 DEF PxInv

LEMMA BackendStarts ==
  ASSUME PxInv, NEW t \in PxTickets, NEW k \in PxKinds, StartBackend(t, k)
  PROVE  PxInv'
<1>0. PxType /\ RoutesLive /\ PagesDynamic
  BY DEF PxInv
<1>1. PICK b : b = pxNext + 1
  OBVIOUS
<1>2. PICK p \in PxPorts :
        /\ pxNext < MaxBackends /\ pxListen[p] = 0 /\ pxNext' = b
        /\ pxListen' = [pxListen EXCEPT ![p] = b]
        /\ pxSeen' = pxSeen \cup {[of |-> b, port |-> p]}
        /\ pxKind' = [pxKind EXCEPT ![b] = [kind |-> k, ticket |-> t]]
        /\ pxDrawn' = [pxDrawn EXCEPT ![b] = IF k = "editor" THEN 1 ELSE 0]
        /\ UNCHANGED <<pxReg, pxClosed, pxEnded, pxLogin, pxCookie, pxPages, pxReq>>
  BY <1>1 DEF StartBackend
<1>3. b \in PxBackends /\ b \in Nat /\ b \notin 1 .. pxNext /\ b # 0 /\ 1 .. b = (1 .. pxNext) \cup {b}
      /\ 0 .. b = (0 .. pxNext) \cup {b} /\ b \in 0 .. MaxBackends
  BY <1>1, <1>2, PxBounds DEF PxBackends
<1>4. [kind |-> k, ticket |-> t] \in PxSessions /\ pxKind'[b] = [kind |-> k, ticket |-> t]
      /\ \A a \in PxBackends \ {b} : pxKind'[a] = pxKind[a] /\ pxDrawn'[a] = pxDrawn[a]
  BY <1>0, <1>2, <1>3 DEF PxSessions, PxType
<1>5. pxDrawn' \in [PxBackends -> 0 .. MaxTokens] /\ pxDrawn'[b] = IF k = "editor" THEN 1 ELSE 0
  BY <1>0, <1>2, <1>3, PxBounds DEF PxType
<1>6. \A a \in 1 .. pxNext : a # b /\ a \in PxBackends /\ pxKind'[a] = pxKind[a] /\ pxDrawn'[a] = pxDrawn[a]
                             /\ pxDrawn[a] <= pxDrawn'[a]
  <2>1. \A a \in 1 .. pxNext : a # b /\ a \in PxBackends /\ pxDrawn[a] \in Nat
    BY <1>0, <1>3, PxBounds DEF PxType
  <2> QED BY <1>4, <2>1
<1>7. \A m : /\ WasDrawn(m) => WasDrawn(m)' /\ pxKind'[Of(m)] = pxKind[Of(m)]
             /\ IsPage(m) => IsPage(m)'
  BY <1>1, <1>2, <1>3, <1>5, <1>6, PxBounds, DrawnStays
<1>8. PxType'
  <2>1. pxKind' \in [PxBackends -> PxSessions \cup {NoRoute}] /\ \A m \in 1 .. pxNext' : pxKind'[m] \in PxSessions
    BY <1>0, <1>2, <1>3, <1>4, <1>6 DEF PxType
  <2>2. pxListen' \in [PxPorts -> 0 .. pxNext'] /\ pxNext' \in 0 .. MaxBackends
    BY <1>0, <1>2, <1>3 DEF PxType
  <2>3. pxSeen' \subseteq PxSightings'
    BY <1>0, <1>2, <1>3 DEF PxType, PxSightings
  <2>4. pxReg' \in [PxTokens -> PxRoutes \cup {NoRoute}] /\ pxClosed' \subseteq 1 .. pxNext' /\ pxEnded' \subseteq 1 .. pxNext'
        /\ pxLogin' \subseteq PxUsers /\ pxCookie' \in [PxUsers -> SomeToken]
        /\ pxReq' \in [PxReqs -> PxRequest \cup {IdleReq}]
    BY <1>0, <1>2, <1>3 DEF PxType
  <2> QED BY <1>5, <2>1, <2>2, <2>3, <2>4 DEF PxType
<1>9. \A q \in PxPorts : pxListen'[q] = IF q = p THEN b ELSE pxListen[q]
  BY <1>0, <1>2 DEF PxType
<1>10. RoutesLive'
  <2>1. ASSUME NEW m \in PxTokens, Registered(m)' PROVE RouteLives(m)'
    <3>1. RouteLives(m) /\ pxReg'[m] = pxReg[m] /\ pxReg[m].port \in PxPorts
      BY <1>0, <1>2, <2>1 DEF Registered, RoutesLive, PxType, PxRoutes
    <3>2. Of(m) # 0
      BY <3>1, PxBounds DEF RouteLives, WasDrawn
    <3>3. pxListen'[pxReg[m].port] = Of(m) \/ Lost(Of(m))
      BY <1>2, <1>9, <3>1, <3>2 DEF RouteLives
    <3> QED BY <1>2, <1>7, <3>1, <3>3 DEF RouteLives, Lost
  <2>2. \A a \in 1 .. pxNext' : pxKind'[a].kind = "editor" => pxDrawn'[a] = 1
    BY <1>0, <1>2, <1>3, <1>4, <1>5, <1>6 DEF RoutesLive
  <2>3. ASSUME NEW f \in pxSeen' PROVE pxListen'[f.port] = f.of \/ Lost(f.of)'
    <3>1. CASE f \in pxSeen
      <4>1. f.of # 0 /\ f.port \in PxPorts /\ (pxListen[f.port] = f.of \/ Lost(f.of))
        BY <1>0, <3>1, PxBounds DEF PxType, PxSightings, RoutesLive
      <4> QED BY <1>2, <1>9, <4>1 DEF Lost
    <3>2. CASE f = [of |-> b, port |-> p]
      BY <1>9, <3>2
    <3> QED BY <1>2, <3>1, <3>2
  <2> QED BY <2>1, <2>2, <2>3 DEF RoutesLive
<1>11. PagesDynamic'
  BY <1>0, <1>2, <1>7 DEF PagesDynamic
<1>12. \A r \in PxReqs : ReqOK(pxReq[r])'
  <2>1. \A q \in PxPorts : pxListen'[q] = pxListen[q] \/ pxListen[q] \in {0} \cup pxEnded' \cup pxClosed'
    BY <1>2, <1>9
  <2> QED BY <1>1, <1>2, <1>3, <1>5, <1>6, <2>1, RequestsStay, PxBounds DEF Registered
<1> QED BY <1>8, <1>10, <1>11, <1>12 DEF PxInv

(* What a close takes down is closed, or has gone already.                 *)
LEMMA TornDown ==
  ASSUME PxInv, NEW t \in PxTickets, NEW k \in PxKinds, NEW n \in PxTokens, Registered(n)
  PROVE  /\ n \in RoutesTornDown(t, k) <=> Of(n) \in BackendsOf(t, k)
         /\ Of(n) \in Listening \/ Lost(Of(n))
<1>1. RouteLives(n) /\ pxReg[n].port \in PxPorts
  BY DEF PxInv, RoutesLive, PxType, PxRoutes, Registered
<1>2. Of(n) \in 1 .. pxNext /\ Of(n) # 0
  BY <1>1, PxBounds DEF RouteLives, WasDrawn
<1>3. n \in RoutesTornDown(t, k) <=> Of(n) \in BackendsOf(t, k)
  BY <1>1, <1>2 DEF RouteLives, RoutesTornDown, BackendsOf
<1> QED BY <1>1, <1>2, <1>3 DEF RouteLives, Listening

LEMMA CloseStep ==
  ASSUME PxInv, NEW t \in PxTickets, NEW k \in PxKinds, Close(t, k)
  PROVE  PxInv'
<1>0. PxType /\ RoutesLive /\ PagesDynamic
  BY DEF PxInv
<1>1. /\ pxReg' = [n \in PxTokens |-> IF n \in RoutesTornDown(t, k) THEN NoRoute ELSE pxReg[n]]
      /\ pxClosed' = pxClosed \cup (BackendsOf(t, k) \cap Listening)
      /\ UNCHANGED <<pxListen, pxNext, pxKind, pxDrawn, pxSeen, pxEnded, pxLogin, pxCookie, pxPages, pxReq>>
  BY DEF Close
<1>2. PxType'
  BY <1>0, <1>1 DEF PxType, PxSightings, BackendsOf
<1>3. \A n \in PxTokens : Registered(n)' => pxReg'[n] = pxReg[n] /\ Registered(n) /\ n \notin RoutesTornDown(t, k)
  BY <1>1 DEF Registered
<1>4. RoutesLive'
  <2>1. ASSUME NEW n \in PxTokens, Registered(n)' PROVE RouteLives(n)'
    <3>1. pxReg'[n] = pxReg[n] /\ RouteLives(n) /\ (Of(n) \in pxClosed' <=> Of(n) \in pxClosed)
      BY <1>0, <1>1, <1>3, <2>1, TornDown DEF RoutesLive
    <3> QED BY <1>1, <3>1 DEF RouteLives, WasDrawn, Lost
  <2> QED BY <1>0, <1>1, <2>1 DEF RoutesLive, Lost
<1>5. PagesDynamic'
  BY <1>0, <1>1 DEF PagesDynamic, IsPage, WasDrawn
<1>6. \A r \in PxReqs : ReqOK(pxReq[r])'
  <2>1. pxDrawn \in [PxBackends -> 0 .. MaxTokens] /\ \A b \in 1 .. pxNext : pxDrawn[b] <= pxDrawn[b]
    BY <1>0, PxBounds DEF PxType
  <2> QED BY <1>1, <1>3, <2>1, RequestsStay, PxBounds
<1> QED BY <1>2, <1>4, <1>5, <1>6 DEF PxInv

LEMMA GoneStep ==
  ASSUME PxInv, NEW p \in PxPorts, BackendStopped(p) \/ BackendEnds(p)
  PROVE  PxInv'
<1>0. PxType /\ RoutesLive /\ PagesDynamic
  BY DEF PxInv
<1>1. /\ pxListen' = [pxListen EXCEPT ![p] = 0] /\ pxListen[p] # 0
      /\ pxEnded' \in {pxEnded, pxEnded \cup {pxListen[p]}}
      /\ pxListen[p] \in pxClosed \cup pxEnded'
      /\ UNCHANGED <<pxReg, pxNext, pxKind, pxDrawn, pxSeen, pxClosed, pxLogin, pxCookie, pxPages, pxReq>>
  <2>1. 0 \notin pxClosed
    BY <1>0, PxBounds DEF PxType
  <2> QED BY <2>1 DEF BackendStopped, BackendEnds
<1>2. \A q \in PxPorts : pxListen'[q] = IF q = p THEN 0 ELSE pxListen[q]
  BY <1>0, <1>1 DEF PxType
<1>3. PxType'
  <2>1. pxListen[p] \in 1 .. pxNext /\ 0 \in 0 .. pxNext
    BY <1>0, <1>1, PxBounds DEF PxType
  <2> QED BY <1>0, <1>1, <2>1 DEF PxType, PxSightings
<1>4. \A b : \A q \in PxPorts : pxListen[q] = b \/ Lost(b) => pxListen'[q] = b \/ Lost(b)'
  BY <1>1, <1>2 DEF Lost
<1>5. RoutesLive'
  <2>1. ASSUME NEW n \in PxTokens, Registered(n)' PROVE RouteLives(n)'
    <3>1. pxReg'[n] = pxReg[n] /\ RouteLives(n) /\ pxReg[n].port \in PxPorts
      BY <1>0, <1>1, <2>1 DEF RoutesLive, Registered, PxType, PxRoutes
    <3> QED BY <1>1, <1>4, <3>1 DEF RouteLives, WasDrawn
  <2>2. \A f \in pxSeen : f.port \in PxPorts
    BY <1>0 DEF PxType, PxSightings
  <2> QED BY <1>0, <1>1, <1>4, <2>1, <2>2 DEF RoutesLive
<1>6. PagesDynamic'
  BY <1>0, <1>1 DEF PagesDynamic, IsPage, WasDrawn
<1>7. \A r \in PxReqs : ReqOK(pxReq[r])'
  <2>1. \A q \in PxPorts : pxListen'[q] = pxListen[q] \/ pxListen[q] \in {0} \cup pxEnded' \cup pxClosed'
    BY <1>1, <1>2
  <2>2. pxDrawn \in [PxBackends -> 0 .. MaxTokens] /\ \A b \in 1 .. pxNext : pxDrawn[b] <= pxDrawn[b]
    BY <1>0, PxBounds DEF PxType
  <2> QED BY <1>1, <2>1, <2>2, RequestsStay, PxBounds DEF Registered
<1> QED BY <1>3, <1>5, <1>6, <1>7 DEF PxInv

(* A request finds a backend, registers it, or leaves it.                  *)
LEMMA SeenStep ==
  ASSUME PxInv,
         \/ \E p \in PxPorts : FoundAlive(p)
         \/ \E f \in pxSeen : RegisterWithToken(f) \/ Register(f) \/ NotRegistered(f)
  PROVE  PxInv'
<1>0. PxType /\ RoutesLive /\ PagesDynamic /\ \A x \in PxReqs : ReqOK(pxReq[x])
  BY DEF PxInv
<1>1. ASSUME pxSeen' \subseteq PxSightings, \A f \in pxSeen' : pxListen[f.port] = f.of \/ Lost(f.of),
             UNCHANGED <<pxReg, pxListen, pxNext, pxKind, pxDrawn, pxClosed, pxEnded, pxLogin,
                         pxCookie, pxPages, pxReq>>
      PROVE  PxInv'
  <2>1. PxType' /\ RoutesLive' /\ PagesDynamic'
    BY <1>0, <1>1 DEF PxType, PxSightings, RoutesLive, RouteLives, WasDrawn, Lost, Registered, PagesDynamic, IsPage
  <2>2. \A b \in 1 .. pxNext : pxDrawn[b] <= pxDrawn[b]
    BY <1>0, PxBounds DEF PxType
  <2>3. \A x \in PxReqs : ReqOK(pxReq[x])'
    BY <1>0, <1>1, <2>2, RequestsStay, PxBounds DEF Registered, PxType
  <2> QED BY <2>1, <2>3 DEF PxInv
<1>2. ASSUME NEW p \in PxPorts, FoundAlive(p) PROVE PxInv'
  <2>1. pxSeen' = pxSeen \cup {[of |-> pxListen[p], port |-> p]} /\ pxListen[p] \in 1 .. pxNext
        /\ UNCHANGED <<pxReg, pxListen, pxNext, pxKind, pxDrawn, pxClosed, pxEnded, pxLogin,
                       pxCookie, pxPages, pxReq>>
    BY <1>0, <1>2, PxBounds DEF FoundAlive, PxType
  <2>2. pxSeen' \subseteq PxSightings /\ \A f \in pxSeen' : pxListen[f.port] = f.of \/ Lost(f.of)
    BY <1>0, <2>1 DEF PxType, PxSightings, RoutesLive
  <2> QED BY <1>1, <2>1, <2>2
<1>3. ASSUME NEW f \in pxSeen, NotRegistered(f) PROVE PxInv'
  BY <1>0, <1>1, <1>3 DEF NotRegistered, PxType, RoutesLive
<1>4. ASSUME NEW f \in pxSeen, RegisterWithToken(f) PROVE PxInv'
  <2>1. /\ pxKind[f.of].kind = "editor" /\ pxSeen' = pxSeen \ {f}
        /\ pxReg' = IF Registered(<<f.of, 1>>) THEN pxReg ELSE [pxReg EXCEPT ![<<f.of, 1>>] = RouteOf(f)]
        /\ UNCHANGED <<pxListen, pxNext, pxKind, pxDrawn, pxClosed, pxEnded, pxLogin, pxCookie, pxPages, pxReq>>
    BY <1>4 DEF RegisterWithToken
  <2>2. CASE Registered(<<f.of, 1>>)
    BY <1>0, <1>1, <2>1, <2>2 DEF PxType, RoutesLive
  <2>3. CASE ~Registered(<<f.of, 1>>)
    <3>1. f.of \in 1 .. pxNext /\ f.of \in PxBackends
      BY RouteComes
    <3>2. 1 \in 1 .. MaxTokens /\ pxDrawn[f.of] = 1 /\ Of(<<f.of, 1>>) = f.of
      BY <1>0, <2>1, <3>1, PxBounds DEF RoutesLive, Of
    <3>3. ~IsPage(<<f.of, 1>>)
      BY <2>1, <3>2 DEF IsPage
    <3>4. pxDrawn \in [PxBackends -> 0 .. MaxTokens] /\ \A b \in 1 .. pxNext : pxDrawn[b] <= pxDrawn[b]
      BY <1>0, PxBounds DEF PxType
    <3>5. 1 <= pxDrawn'[f.of]
      BY <2>1, <3>2
    <3> QED BY <2>1, <2>3, <3>2, <3>3, <3>4, <3>5, Registers
  <2> QED BY <2>2, <2>3
<1>5. ASSUME NEW f \in pxSeen, Register(f) PROVE PxInv'
  <2>1. PICK i : i = pxDrawn[f.of] + 1
    OBVIOUS
  <2>2. /\ pxKind[f.of].kind # "editor" /\ pxDrawn[f.of] < MaxTokens /\ pxSeen' = pxSeen \ {f}
        /\ pxDrawn' = [pxDrawn EXCEPT ![f.of] = i]
        /\ pxReg' = [pxReg EXCEPT ![<<f.of, i>>] = RouteOf(f)]
        /\ UNCHANGED <<pxListen, pxNext, pxKind, pxClosed, pxEnded, pxLogin, pxCookie, pxPages, pxReq>>
    BY <1>5, <2>1 DEF Register
  <2>3. f.of \in 1 .. pxNext /\ f.of \in PxBackends /\ pxDrawn[f.of] \in 0 .. MaxTokens
    BY <1>0, RouteComes DEF PxType
  <2>4. i \in 1 .. MaxTokens /\ i \in 0 .. MaxTokens /\ pxDrawn[f.of] < i /\ ~(i <= pxDrawn[f.of])
    BY <2>1, <2>2, <2>3, PxBounds
  <2>5. ~IsPage(<<f.of, i>>)
    BY <2>3, <2>4, TokenParts DEF IsPage, WasDrawn
  <2>6. pxDrawn' \in [PxBackends -> 0 .. MaxTokens] /\ pxDrawn'[f.of] = i
        /\ \A b \in PxBackends \ {f.of} : pxDrawn'[b] = pxDrawn[b]
    BY <1>0, <2>2, <2>3, <2>4 DEF PxType
  <2>7. \A b \in 1 .. pxNext : pxDrawn[b] <= pxDrawn'[b] /\ (pxKind[b].kind = "editor" => pxDrawn'[b] = pxDrawn[b])
    <3>1. \A b \in 1 .. pxNext : pxDrawn[b] \in Nat /\ b \in PxBackends
      BY <1>0, PxBounds DEF PxType
    <3> QED BY <2>2, <2>4, <2>6, <3>1, PxBounds
  <2>8. i <= pxDrawn'[f.of]
    BY <2>4, <2>6
  <2> QED BY <2>2, <2>4, <2>5, <2>6, <2>7, <2>8, Registers
<1> QED BY <1>2, <1>3, <1>4, <1>5

(* The registry and the backends keep the invariant.                       *)
LEMMA BackendStep ==
  ASSUME PxInv,
         \/ \E t \in PxTickets, k \in PxKinds : StartBackend(t, k) \/ Close(t, k)
         \/ \E p \in PxPorts : BackendStopped(p) \/ BackendEnds(p) \/ FoundAlive(p)
         \/ \E f \in pxSeen : RegisterWithToken(f) \/ Register(f) \/ NotRegistered(f)
         \/ RestartProxy
         \/ \E u \in PxUsers : SignInOrOut(u)
  PROVE  PxInv'
<1>0. PxType /\ RoutesLive /\ PagesDynamic /\ \A x \in PxReqs : ReqOK(pxReq[x])
  BY DEF PxInv
<1>1. CASE RestartProxy
  <2>1. /\ pxReg' = [n \in PxTokens |-> NoRoute] /\ pxClosed' = pxClosed \ Listening
        /\ pxReq' = [r \in PxReqs |-> IdleReq] /\ pxSeen' = {}
        /\ UNCHANGED <<pxListen, pxNext, pxKind, pxDrawn, pxEnded, pxLogin, pxCookie, pxPages>>
    BY <1>1 DEF RestartProxy
  <2>2. PxType' /\ PagesDynamic' /\ \A x \in PxReqs : ReqOK(pxReq[x])'
    BY <1>0, <2>1 DEF PxType, PagesDynamic, IsPage, WasDrawn, ReqOK
  <2>3. RoutesLive'
    BY <1>0, <2>1 DEF RoutesLive, Registered
  <2> QED BY <2>2, <2>3 DEF PxInv
<1>2. ASSUME NEW u \in PxUsers, SignInOrOut(u) PROVE PxInv'
  <2>1. pxLogin' \subseteq PxUsers
        /\ UNCHANGED <<pxReg, pxListen, pxNext, pxKind, pxDrawn, pxSeen, pxClosed, pxEnded, pxCookie, pxPages, pxReq>>
    BY <1>0, <1>2 DEF SignInOrOut, PxType
  <2>2. pxDrawn \in [PxBackends -> 0 .. MaxTokens] /\ \A b \in 1 .. pxNext : pxDrawn[b] <= pxDrawn[b]
    BY <1>0, PxBounds DEF PxType
  <2>3. \A x \in PxReqs : ReqOK(pxReq[x])'
    BY <2>1, <2>2, RequestsStay, PxBounds DEF Registered
  <2> QED BY <1>0, <2>1, <2>3 DEF PxInv, PxType, PxSightings, RoutesLive, RouteLives, WasDrawn, Lost, PagesDynamic,
                                  IsPage, Registered
<1> QED BY <1>1, <1>2, BackendStarts, CloseStep, GoneStep, SeenStep

(* The requests keep the invariant.                                        *)
LEMMA RequestStep ==
  ASSUME PxInv, NEW r \in PxReqs,
         \/ \E u \in PxUsers, n \in PxTokens : AskSession(r, u, n)
         \/ \E u \in PxUsers, ref \in BOOLEAN : AskAsset(r, u, ref)
         \/ SessionAuth(r) \/ SessionLookup(r) \/ AssetLookup(r) \/ AssetAuth(r)
         \/ ForwardHttp(r) \/ ForwardWebsocket(r) \/ TunnelEnds(r)
  PROVE  PxInv'
<1>0. PxType /\ RoutesLive /\ PagesDynamic /\ ReqOK(pxReq[r])
  BY DEF PxInv
<1>a. pxNext \in Nat /\ MaxBackends \in Nat /\ 0 .. pxNext \subseteq 0 .. MaxBackends /\ 0 \in 0 .. MaxBackends
  BY PxBounds
<1>p. ASSUME UNCHANGED <<pxPages, pxNext, pxKind, pxDrawn>> PROVE PagesDynamic'
  BY <1>0, <1>p DEF PagesDynamic, IsPage, WasDrawn
<1>c. pxCookie \in [PxUsers -> SomeToken]
  BY <1>0 DEF PxType
<1>1. ASSUME NEW u \in PxUsers, NEW n \in PxTokens, AskSession(r, u, n) PROVE PxInv'
  <2> DEFINE q == [at |-> "auth", path |-> "session", by |-> u, tok |-> n, page |-> n,
                   ref |-> FALSE, late |-> FALSE, route |-> NoRoute, got |-> 0, code |-> "ok"]
  <2>1. q \in PxRequest
    BY <1>a DEF PxRequest, SomeToken
  <2>2. ReqOK(q)
    BY <1>1 DEF ReqOK, AskSession
  <2> QED BY <1>1, <1>c, <1>p, <2>1, <2>2, RequestGoes DEF AskSession, PxMove
<1>2. ASSUME NEW u \in PxUsers, NEW ref \in BOOLEAN, AskAsset(r, u, ref) PROVE PxInv'
  <2>1. PICK n \in PxTokens : /\ <<u, n>> \in pxPages
            /\ PxMove(r, [at |-> "look", path |-> "asset", by |-> u, tok |-> NoToken, page |-> n, ref |-> ref, late |-> FALSE,
                          route |-> NoRoute, got |-> 0, code |-> "ok"])
            /\ UNCHANGED <<pxCookie, pxPages>>
    BY <1>2 DEF AskAsset
  <2> DEFINE q == [at |-> "look", path |-> "asset", by |-> u, tok |-> NoToken, page |-> n, ref |-> ref, late |-> FALSE,
                   route |-> NoRoute, got |-> 0, code |-> "ok"]
  <2>2. q \in PxRequest
    BY <1>a DEF PxRequest, SomeToken
  <2>3. ReqOK(q)
    BY <1>0, <2>1 DEF ReqOK, PagesDynamic
  <2> QED BY <1>c, <1>p, <2>1, <2>2, <2>3, RequestGoes DEF PxMove
(* What a request under way looks like.                                    *)
<1> DEFINE q == pxReq[r]
<1>b. ASSUME q.at \in {"auth", "look", "send", "done", "tunnel"} PROVE q \in PxRequest /\ q # IdleReq
  BY <1>0, <1>b DEF PxType, IdleReq
<1>r. ASSUME NEW c \in {"401", "404", "static"}, q.at \in {"auth", "look"}, Refuse(r, c), UNCHANGED <<pxCookie, pxPages>>
      PROVE  PxInv'
  <2>1. PICK x : x = [q EXCEPT !.at = "done", !.code = c]
    OBVIOUS
  <2>2. x \in PxRequest /\ x.at = "done" /\ x.code = c /\ x.got = 0 /\ x.path = q.path /\ x.page = q.page
    BY <1>0, <1>b, <1>r, <2>1 DEF PxRequest, ReqOK
  <2>3. ReqOK(x)
    BY <1>0, <1>b, <1>r, <2>2 DEF ReqOK, Answered
  <2>4. pxReq' = [pxReq EXCEPT ![r] = x]
    BY <1>r, <2>1 DEF Refuse, PxMove
  <2> QED BY <1>c, <1>p, <1>r, <2>2, <2>3, <2>4, RequestGoes DEF Refuse, PxMove
<1>3. CASE SessionAuth(r)
  <2>1. CASE Authenticated(q.by)
    <3>1. PICK x : x = [q EXCEPT !.at = "look"]
      OBVIOUS
    <3>2. x \in PxRequest /\ x.at = "look" /\ x.path = "session" /\ x.tok = q.tok /\ x.got = q.got /\ x.code = q.code
      BY <1>3, <1>b, <3>1 DEF SessionAuth, PxRequest
    <3>3. ReqOK(x)
      BY <1>0, <1>3, <1>b, <3>2 DEF ReqOK, SessionAuth
    <3> QED BY <1>3, <1>c, <1>p, <2>1, <3>1, <3>2, <3>3, RequestGoes DEF SessionAuth, PxMove
  <2>2. CASE ~Authenticated(q.by)
    BY <1>3, <1>r, <2>2 DEF SessionAuth
  <2> QED BY <2>1, <2>2
(* What a look-up finds.                                                   *)
<1>f. ASSUME q \in PxRequest, NEW n \in PxTokens, Registered(n), NEW s \in {"auth", "send"},
             q.at = "look", q.path = "session" => s = "send" /\ pxReg[n].user = q.by,
             q.path = "asset" /\ q.ref => n = q.page \/ ~Registered(q.page),
             PxMove(r, [Found(r, n) EXCEPT !.at = s]), UNCHANGED <<pxCookie, pxPages>>
      PROVE  PxInv'
  <2>1. PICK x : x = [Found(r, n) EXCEPT !.at = s]
    OBVIOUS
  <2>2. /\ WasDrawn(n) /\ pxReg[n] \in PxRoutes /\ pxReg[n].kind = pxKind[Of(n)].kind
        /\ pxReg[n].user = PxOwner[pxKind[Of(n)].ticket]
        /\ pxListen[pxReg[n].port] = Of(n) \/ Lost(Of(n))
        /\ Of(n) \in pxClosed => pxReg[n].back
    BY <1>0, <1>f DEF RoutesLive, RouteLives, Registered, PxType
  <2>0. (Of(n) \in pxClosed) \in BOOLEAN
    OBVIOUS
  <2>3. PICK late \in BOOLEAN : late = (Of(n) \in pxClosed)
    BY <2>0, Zenon
  <2>9. x = [q EXCEPT !.tok = n, !.route = pxReg[n], !.late = late, !.at = s]
    BY <1>f, <2>1, <2>3 DEF PxRequest, Found
  <2>4. /\ x \in PxRequest /\ x.at = s /\ x.tok = n /\ x.route = pxReg[n] /\ x.late = late
        /\ x.path = q.path /\ x.by = q.by /\ x.page = q.page /\ x.got = q.got /\ x.code = q.code
    BY <1>f, <1>a, <2>2, <2>9 DEF PxRequest, SomeToken
  <2>5. x.ref = q.ref
    BY <1>f, <2>9 DEF PxRequest
  <2>6. NamesOwn(x) /\ FollowsPage(x)
    BY <1>f, <2>2, <2>4, <2>5 DEF NamesOwn, FollowsPage
  <2>7. Looked(x)
    BY <2>2, <2>3, <2>4, <2>6 DEF Looked
  <2>8. ReqOK(x)
    BY <1>0, <1>b, <1>f, <2>2, <2>4, <2>7 DEF ReqOK
  <2> QED BY <1>c, <1>f, <1>p, <2>1, <2>4, <2>8, RequestGoes DEF PxMove
<1>4. CASE SessionLookup(r)
  <2>0. q.at = "look" /\ q.path = "session" /\ q \in PxRequest /\ q.by # "nobody" /\ UNCHANGED <<pxCookie, pxPages>>
    BY <1>4, <1>b, ProxyAssumption DEF SessionLookup, PxRequest
  <2>1. CASE Registered(q.tok) /\ UserOwnsRoute(q.by, pxReg[q.tok])
    <3>1. q.tok \in PxTokens /\ pxReg[q.tok].user = q.by
      BY <2>0, <2>1 DEF Registered, UserOwnsRoute
    <3>2. PxMove(r, [Found(r, q.tok) EXCEPT !.at = "send"])
      BY <1>4, <2>1 DEF SessionLookup
    <3> QED BY <1>f, <2>0, <2>1, <3>1, <3>2
  <2>2. CASE ~(Registered(q.tok) /\ UserOwnsRoute(q.by, pxReg[q.tok]))
    BY <1>4, <1>r, <2>0, <2>2 DEF SessionLookup
  <2> QED BY <2>1, <2>2
<1>5. CASE AssetLookup(r)
  <2>0. q.at = "look" /\ q.path = "asset" /\ q \in PxRequest /\ UNCHANGED <<pxCookie, pxPages>>
    BY <1>5, <1>b DEF AssetLookup
  <2>1. CASE DynamicPortRoute(q) = {}
    BY <1>5, <1>r, <2>0, <2>1 DEF AssetLookup
  <2>2. ASSUME NEW n \in DynamicPortRoute(q), PxMove(r, [Found(r, n) EXCEPT !.at = "auth"]) PROVE PxInv'
    <3>1. Registered(n) /\ n \in PxTokens
      BY DEF DynamicPortRoute, Dynamic, Registered
    <3>2. q.ref => n = q.page \/ ~Dynamic(q.page)
      BY DEF DynamicPortRoute
    <3>3. IsPage(q.page) /\ q.page \in PxTokens
      BY <1>0, <1>b, <2>0 DEF ReqOK, IsPage, WasDrawn
    <3>4. ~Dynamic(q.page) => ~Registered(q.page)
      BY <1>0, <3>3 DEF Dynamic, RoutesLive, RouteLives, IsPage
    <3> QED BY <1>f, <2>0, <2>2, <3>1, <3>2, <3>4
  <2> QED BY <1>5, <2>1, <2>2 DEF AssetLookup
<1>6. CASE AssetAuth(r)
  <2>0. q.at = "auth" /\ q.path = "asset" /\ q \in PxRequest /\ UNCHANGED <<pxCookie, pxPages>>
    BY <1>6, <1>b DEF AssetAuth
  <2>1. CASE Refuse(r, "static")
    BY <1>r, <2>0, <2>1
  <2>2. CASE PxMove(r, [q EXCEPT !.at = "send"])
    <3>1. PICK x : x = [q EXCEPT !.at = "send"]
      OBVIOUS
    <3>2. /\ x \in PxRequest /\ x.at = "send" /\ x.tok = q.tok /\ x.route = q.route /\ x.late = q.late
          /\ x.path = q.path /\ x.by = q.by /\ x.page = q.page /\ x.got = q.got /\ x.code = q.code
      BY <2>0, <3>1 DEF PxRequest
    <3>3. x.ref = q.ref
      BY <2>0, <3>1 DEF PxRequest
    <3>4. Looked(q)
      BY <1>0, <1>b, <2>0 DEF ReqOK
    <3>5. Looked(x)
      BY <3>2, <3>3, <3>4 DEF Looked, NamesOwn, FollowsPage
    <3>6. ReqOK(x)
      BY <1>0, <1>b, <2>0, <3>2, <3>5 DEF ReqOK
    <3> QED BY <1>c, <1>p, <2>0, <2>2, <3>1, <3>2, <3>6, RequestGoes DEF PxMove
  <2> QED BY <1>6, <2>1, <2>2 DEF AssetAuth
(* What a forwarded request comes back with.                               *)
<1>s. ASSUME q.at = "send", NEW x, pxReq' = [pxReq EXCEPT ![r] = x],
             UNCHANGED <<pxReg, pxListen, pxNext, pxKind, pxDrawn, pxSeen, pxClosed, pxEnded, pxLogin>>,
             \/ pxListen[q.route.port] = 0 /\ x = [q EXCEPT !.at = "done", !.code = "502"]
             \/ pxListen[q.route.port] # 0
                /\ x \in {[q EXCEPT !.at = s, !.got = pxListen[q.route.port]] : s \in {"done", "tunnel"}},
             pxCookie' \in [PxUsers -> SomeToken], PagesDynamic'
      PROVE  PxInv'
  <2>1. q \in PxRequest /\ Looked(q) /\ (q.path = "asset" => IsPage(q.page)) /\ q.got = 0
    BY <1>0, <1>b, <1>s DEF ReqOK
  <2>2. pxListen[q.route.port] \in 0 .. pxNext
    BY <1>0, <2>1 DEF Looked, PxRoutes, PxType
  <2>3. /\ x \in PxRequest /\ x.at \in {"done", "tunnel"} /\ x.tok = q.tok /\ x.late = q.late
        /\ x.path = q.path /\ x.by = q.by /\ x.page = q.page /\ x.got = pxListen[q.route.port]
        /\ x.route = q.route
    <3>1. PICK m \in 0 .. MaxBackends : m = pxListen[q.route.port]
      BY <1>a, <2>2
    <3>2. CASE m = 0 /\ x = [q EXCEPT !.at = "done", !.code = "502"]
      BY <2>1, <3>1, <3>2 DEF PxRequest
    <3>3. ASSUME NEW s \in {"done", "tunnel"}, x = [q EXCEPT !.at = s, !.got = m]
          PROVE  /\ x \in PxRequest /\ x.at \in {"done", "tunnel"} /\ x.tok = q.tok /\ x.late = q.late
                 /\ x.path = q.path /\ x.by = q.by /\ x.page = q.page /\ x.got = m
                 /\ x.route = q.route
      BY <2>1, <3>3 DEF PxRequest
    <3> QED BY <1>s, <3>1, <3>2, <3>3
  <2>4. x.ref = q.ref
    BY <1>s, <2>1 DEF PxRequest
  <2>5. Answered(x)
    BY <1>a, <2>1, <2>3, <2>4 DEF Answered, Looked, NamesOwn, FollowsPage
  <2>6. ReqOK(x)
    BY <2>1, <2>3, <2>5 DEF ReqOK
  <2> QED BY <1>s, <2>3, <2>6, RequestGoes
<1>7. CASE ForwardHttp(r)
  <2>0. q.at = "send" /\ q \in PxRequest /\ Looked(q)
    BY <1>0, <1>7, <1>b DEF ForwardHttp, ReqOK
  <2>1. CASE pxListen[q.route.port] = 0
    <3>1. pxReq' = [pxReq EXCEPT ![r] = [q EXCEPT !.at = "done", !.code = "502"]]
          /\ UNCHANGED <<pxReg, pxListen, pxNext, pxKind, pxDrawn, pxSeen, pxClosed, pxEnded, pxLogin, pxCookie, pxPages>>
      BY <1>7, <2>1 DEF ForwardHttp, Refuse, PxMove
    <3> QED BY <1>c, <1>p, <1>s, <2>0, <2>1, <3>1
  <2>2. CASE pxListen[q.route.port] # 0
    <3>1. pxReq' = [pxReq EXCEPT ![r] = [q EXCEPT !.at = "done", !.got = pxListen[q.route.port]]]
          /\ UNCHANGED <<pxReg, pxListen, pxNext, pxKind, pxDrawn, pxSeen, pxClosed, pxEnded, pxLogin>>
      BY <1>7, <2>2 DEF ForwardHttp, PxMove
    <3>2. \/ UNCHANGED <<pxCookie, pxPages>>
          \/ /\ q.route.kind = "dynamic" /\ pxCookie' = [pxCookie EXCEPT ![q.by] = q.tok]
             /\ pxPages' \in {pxPages, pxPages \cup {<<q.by, q.tok>>}}
      BY <1>7, <2>2 DEF ForwardHttp
    <3>3. pxCookie' \in [PxUsers -> SomeToken]
      BY <1>c, <2>0, <3>2 DEF PxRequest
    <3>4. q.route.kind = "dynamic" => IsPage(q.tok) /\ q.by \in PxUsers
      BY <2>0 DEF Looked, IsPage, PxRequest
    <3>5. PagesDynamic'
      BY <1>0, <3>1, <3>2, <3>4 DEF PagesDynamic, IsPage, WasDrawn
    <3> QED BY <1>s, <2>0, <2>2, <3>1, <3>3, <3>5
  <2> QED BY <2>1, <2>2
<1>8. CASE ForwardWebsocket(r)
  <2>0. q.at = "send" /\ UNCHANGED <<pxReg, pxListen, pxNext, pxKind, pxDrawn, pxSeen, pxClosed, pxEnded, pxLogin, pxCookie, pxPages>>
    BY <1>8 DEF ForwardWebsocket, Refuse, PxMove
  <2>1. CASE pxListen[q.route.port] = 0
    <3>1. pxReq' = [pxReq EXCEPT ![r] = [q EXCEPT !.at = "done", !.code = "502"]]
      BY <1>8, <2>1 DEF ForwardWebsocket, Refuse, PxMove
    <3> QED BY <1>c, <1>p, <1>s, <2>0, <2>1, <3>1
  <2>2. CASE pxListen[q.route.port] # 0
    <3>1. pxReq' = [pxReq EXCEPT ![r] = [q EXCEPT !.at = "tunnel", !.got = pxListen[q.route.port]]]
      BY <1>8, <2>2 DEF ForwardWebsocket, PxMove
    <3> QED BY <1>c, <1>p, <1>s, <2>0, <2>2, <3>1
  <2> QED BY <2>1, <2>2
<1>9. CASE TunnelEnds(r)
  <2>1. PICK x : x = [q EXCEPT !.at = "done"]
    OBVIOUS
  <2>2. q.at = "tunnel" /\ q \in PxRequest /\ q # IdleReq
    BY <1>9, <1>b DEF TunnelEnds
  <2>3. /\ x \in PxRequest /\ x.at = "done" /\ x.tok = q.tok /\ x.route = q.route /\ x.late = q.late
        /\ x.path = q.path /\ x.by = q.by /\ x.page = q.page /\ x.got = q.got /\ x.code = q.code
    BY <2>1, <2>2 DEF PxRequest
  <2>4. x.ref = q.ref
    BY <2>1, <2>2 DEF PxRequest
  <2>5. ReqOK(x)
    BY <1>0, <2>2, <2>3, <2>4 DEF ReqOK, Answered, NamesOwn, FollowsPage
  <2> QED BY <1>9, <1>c, <1>p, <2>1, <2>3, <2>5, RequestGoes DEF TunnelEnds, PxMove
<1> QED BY <1>1, <1>2, <1>3, <1>4, <1>5, <1>6, <1>7, <1>8, <1>9

(* The proxy's tokens, for every number of users, items, ports, backends,  *)
(* registrations and requests: a request for /s/{token} or for an asset is *)
(* answered by the backend that the token was drawn for, and a session's   *)
(* by the asker's own, unless that backend ended by itself or was closed,  *)
(* after the look-up or before the registration it found; an asset follows *)
(* its Referer; a close spares the routes of other sessions.               *)
THEOREM ProxyIsSafe == PxSpec => ProxySafe
<1>1. PxInit => PxInv
  <2> SUFFICES ASSUME PxInit PROVE PxInv
    OBVIOUS
  <2>1. PxType
    BY ProxyAssumption DEF PxInit, PxType, PxBackends, SomeToken
  <2>2. RoutesLive /\ PagesDynamic /\ \A r \in PxReqs : ReqOK(pxReq[r])
    BY DEF PxInit, RoutesLive, PagesDynamic, ReqOK, Registered
  <2> QED BY <2>1, <2>2 DEF PxInv
<1>2. PxInv /\ [PxNextStep]_pxVars => PxInv'
  <2>1. PxInv /\ PxNextStep => PxInv'
    BY BackendStep, RequestStep DEF PxNextStep
  <2>2. PxInv /\ UNCHANGED pxVars => PxInv'
    BY DEF pxVars, PxInv, PxType, PxSightings, RoutesLive, RouteLives, WasDrawn, PagesDynamic, IsPage, ReqOK,
           Looked, Answered, Lost, NamesOwn, FollowsPage, Registered
  <2> QED BY <2>1, <2>2
<1>3. PxInv => AnsweredByNamed /\ AssetFollowsPage
  <2> SUFFICES ASSUME PxInv, NEW r \in PxReqs, NEW q, q = pxReq[r], q.at \in {"done", "tunnel"}
               PROVE  /\ q.got # 0 \/ q.code = "502" =>
                           \/ q.got = Of(q.tok)
                              /\ (q.path = "session" => PxOwner[pxKind[Of(q.tok)].ticket] = q.by)
                           \/ Of(q.tok) \in pxEnded
                           \/ Of(q.tok) \in pxClosed /\ (q.late => q.route.back)
                      /\ q.path = "asset" /\ q.ref /\ q.got # 0 =>
                           q.got = Of(q.page) \/ Of(q.page) \in pxClosed \cup pxEnded \/ ~Registered(q.page)
    BY DEF AnsweredByNamed, AssetFollowsPage
  <2>1. Answered(q)
    BY DEF PxInv, ReqOK, IdleReq
  <2> QED BY <2>1 DEF Answered, NamesOwn, FollowsPage, Lost
<1> DEFINE Spared == \A n \in PxTokens : Registered(n) /\ pxReg'[n] = NoRoute =>
                        Of(n) \in pxClosed' \cup pxEnded \/ RestartProxy
<1>4. PxInv /\ [PxNextStep]_pxVars => [Spared]_pxVars
  <2> SUFFICES ASSUME PxInv, PxNextStep, NEW n \in PxTokens, Registered(n), pxReg'[n] = NoRoute
               PROVE  Of(n) \in pxClosed' \cup pxEnded \/ RestartProxy
    OBVIOUS
  <2>1. ASSUME NEW t \in PxTickets, NEW k \in PxKinds, Close(t, k) PROVE Of(n) \in pxClosed' \cup pxEnded
    <3>1. n \in RoutesTornDown(t, k)
      BY <2>1 DEF Close, Registered
    <3>2. Of(n) \in BackendsOf(t, k) /\ (Of(n) \in Listening \/ Lost(Of(n)))
      BY <3>1, TornDown
    <3> QED BY <2>1, <3>2 DEF Close, Lost
  <2>2. ASSUME NEW f \in pxSeen, RegisterWithToken(f) \/ Register(f) PROVE FALSE
    <3>1. RouteOf(f) # NoRoute
      BY RouteComes, NotNoRoute
    <3>2. pxReg \in [PxTokens -> PxRoutes \cup {NoRoute}]
      BY DEF PxInv, PxType
    <3>3. pxReg'[n] \in {pxReg[n], RouteOf(f)}
      BY <2>2, <3>2 DEF RegisterWithToken, Register
    <3> QED BY <3>1, <3>3 DEF Registered
  <2>3. ASSUME UNCHANGED pxReg PROVE FALSE
    BY <2>3 DEF Registered
  <2> QED
    BY <2>1, <2>2, <2>3 DEF PxNextStep, StartBackend, BackendStopped, BackendEnds, FoundAlive, NotRegistered,
       SignInOrOut, AskSession, AskAsset, SessionAuth, SessionLookup, AssetLookup, AssetAuth, ForwardHttp,
       ForwardWebsocket, TunnelEnds, Refuse, PxMove
<1> HIDE DEF Spared
<1>5. PxSpec => [](AnsweredByNamed /\ AssetFollowsPage) /\ [][Spared]_pxVars
  BY <1>1, <1>2, <1>3, <1>4, PTL DEF PxSpec
<1> QED BY <1>5 DEF ProxySafe, CloseSparesOther, Spared

----------------------------------------------------------------------------
(* The registered repositories.                                            *)

RpRow == [id : Nat, name : RpNames, url : RpUrls, dir : RpNames, by : RpUsers \cup {"reconcile"}]
CloneReq == [pc : {"git", "upsert"}, user : RpUsers, url : RpUrls, id : {0}, dir : RpNames]
PurgeReq == [pc : {"purge", "rm"}, id : Nat, dir : RpNames]

RpType ==
    /\ rpNext \in Nat /\ rpFlag \in BOOLEAN
    /\ rpRows \subseteq RpRow /\ \A row \in rpRows : row.id <= rpNext
    /\ rpDirs \in [RpNames -> RpUrls \cup {<< >>, <<"debris">>}]
    /\ rpReq = [r \in RpReqs |-> rpReq[r]]

(* No two rows have the id or the directory in common.                     *)
RowsApart == \A a, b \in rpRows : a.id = b.id \/ a.dir = b.dir => a = b

(* What a request may rely on between two of its steps.                    *)
RpSound(q) ==
    /\ q.pc = "lookup" => q.user \in RpUsers /\ q.url \in RpUrls
    /\ q.pc \in {"git", "upsert"} => q \in CloneReq /\ GetByUrl(q.url) = {}
    /\ q.pc = "upsert" => rpDirs[q.dir] = q.url /\ GetByPath(q.dir) = {}
    /\ q.pc = "link" => q.kind \in {"existing", "clone"} /\ (q.answer = "created" => q.kind = "clone")
    /\ q.pc \in {"remaining", "purge"} =>
          q.id \in Nat /\ q.id <= rpNext /\ q.dir \in RpNames /\ \A row \in GetRow(q.id) : row.dir = q.dir
    /\ q.pc \in {"purge", "rm"} => q \in PurgeReq
    /\ q.pc = "rm" => GetByPath(q.dir) = {} /\ rpDirs[q.dir] # << >>

(* clone_in_progress has one holder; a directory that is being removed is  *)
(* nobody else's.                                                          *)
Holder(q) == q.pc \in {"lookup", "git", "upsert", "reread"} \/ (q.pc = "link" /\ q.kind = "clone")
FlagHeld == \A r \in RpReqs : Holder(rpReq[r]) => rpFlag /\ \A s \in RpReqs : Holder(rpReq[s]) => s = r
RemovesApart ==
    \A r, s \in RpReqs : rpReq[r].pc = "rm" /\ rpReq[s].pc \in {"rm", "upsert"} /\ rpReq[r].dir = rpReq[s].dir => r = s

RpInv == /\ RpType /\ RowsApart /\ RowsHaveClones /\ UrlAddedOnce
         /\ FlagHeld /\ RemovesApart /\ \A r \in RpReqs : RpSound(rpReq[r])

(* A nonempty set of naturals has a least element.                         *)
Below == {p \in Nat \X Nat : p[1] < p[2]}
LEMMA Least ==
    ASSUME NEW S \in SUBSET Nat, S # {}
    PROVE  \E m \in S : \A n \in S : m <= n
<1>1. IsWellFoundedOn(Below, Nat)
  BY NatLessThanWellFounded, Zenon DEF OpToRel, Below
<1>2. PICK x \in S : \A y \in S : ~(<<y, x>> \in Below)
  <2>1. S \subseteq Nat
    OBVIOUS
  <2> QED BY <1>1, <2>1, WFMin, Zenon
<1>3. \A n \in S : n \in Nat /\ x \in Nat /\ ~(n < x)
  BY <1>2 DEF Below
<1> QED BY <1>3

(* pick_clone_target names a directory under /workspaces.                  *)
LEMMA PickedIsName == ASSUME NEW url \in RpUrls PROVE PickCloneTarget(url) \in RpNames /\ BaseName(url) \in RpNames
<1>0. 1 \in 1 .. MaxSuffix
  BY RepositoriesAssumption
<1>1. \A k \in 1 .. MaxSuffix : <<url[2], k>> \in RpNames
  BY DEF RpNames
<1> DEFINE free == {k \in 1..MaxSuffix : rpDirs[<<url[2], k>>] = << >>}
<1>2. free \in SUBSET Nat
  BY RepositoriesAssumption
<1>3. free # {} => (CHOOSE k \in free : \A j \in free : k <= j) \in 1 .. MaxSuffix
  <2> SUFFICES ASSUME free # {} PROVE (CHOOSE k \in free : \A j \in free : k <= j) \in free
    OBVIOUS
  <2>1. \E k \in free : \A j \in free : k <= j
    BY <1>2, Least
  <2> HIDE DEF free
  <2> QED BY <2>1
<1> QED BY <1>0, <1>1, <1>3 DEF PickCloneTarget, BaseName

LEMMA NamesFinite == IsFiniteSet(RpNames)
<1> DEFINE f == [p \in RpUrls \X (1 .. MaxSuffix) |-> <<p[1][2], p[2]>>]
<1>1. IsFiniteSet(RpUrls \X (1 .. MaxSuffix))
  <2>1. MaxSuffix \in Int /\ 1 \in Int /\ IsFiniteSet(RpUrls)
    BY RepositoriesAssumption
  <2>2. IsFiniteSet(1 .. MaxSuffix)
    BY <2>1, FS_Interval, Zenon
  <2> QED BY <2>1, <2>2, FS_Product, Zenon
<1>2. f \in [RpUrls \X (1 .. MaxSuffix) -> RpNames]
  BY DEF RpNames
<1>3. \A d \in RpNames : \E p \in RpUrls \X (1 .. MaxSuffix) : f[p] = d
  <2> SUFFICES ASSUME NEW d \in RpNames PROVE \E p \in RpUrls \X (1 .. MaxSuffix) : f[p] = d
    OBVIOUS
  <2>0. PICK u \in RpUrls, n \in 1 .. MaxSuffix : d = <<u[2], n>>
    BY DEF RpNames
  <2>1. <<u, n>> \in RpUrls \X (1 .. MaxSuffix) /\ f[<<u, n>>] = <<u[2], n>>
    OBVIOUS
  <2> QED BY <2>0, <2>1
<1> HIDE DEF f
<1>4. f \in Surjection(RpUrls \X (1 .. MaxSuffix), RpNames)
  BY <1>2, <1>3 DEF Surjection
<1> QED BY <1>1, <1>4, FS_Surjection

(* A request that holds the flag afterwards held it before, or found it    *)
(* free; only its holder gives it back.                                    *)
LEMMA FlagKept ==
    ASSUME FlagHeld, NEW r \in RpReqs, \A s \in RpReqs \ {r} : rpReq'[s] = rpReq[s],
           Holder(rpReq'[r]) => rpFlag' /\ (Holder(rpReq[r]) \/ ~rpFlag),
           rpFlag /\ ~rpFlag' => Holder(rpReq[r])
    PROVE  FlagHeld'
<1> SUFFICES ASSUME NEW a \in RpReqs, Holder(rpReq'[a]) PROVE rpFlag' /\ \A b \in RpReqs : Holder(rpReq'[b]) => b = a
  BY DEF FlagHeld, Holder
<1> HIDE DEF Holder
<1>1. CASE a = r
  <2>1. \A b \in RpReqs \ {r} : ~Holder(rpReq[b])
    BY <1>1 DEF FlagHeld
  <2> QED BY <1>1, <2>1
<1>2. CASE a # r
  <2>1. Holder(rpReq[a]) /\ rpFlag /\ ~Holder(rpReq[r])
    BY <1>2 DEF FlagHeld
  <2> QED BY <1>2, <2>1 DEF FlagHeld
<1> QED BY <1>1, <1>2

(* A step that moves one request on and changes no row and no directory.   *)
LEMMA RpGoes ==
    ASSUME RpInv, NEW r \in RpReqs, NEW q, rpReq' = [rpReq EXCEPT ![r] = q],
           RpSound(q), q.pc \notin {"rm", "upsert"},
           Holder(q) => rpFlag' /\ (Holder(rpReq[r]) \/ ~rpFlag),
           rpFlag /\ ~rpFlag' => Holder(rpReq[r]), rpFlag' \in BOOLEAN,
           UNCHANGED <<rpRows, rpDirs, rpNext>>
    PROVE  RpInv'
<1>0. RpType /\ RowsApart /\ RowsHaveClones /\ UrlAddedOnce /\ FlagHeld /\ RemovesApart
  BY DEF RpInv
<1>1. rpReq'[r] = q /\ \A s \in RpReqs \ {r} : rpReq'[s] = rpReq[s]
  BY <1>0 DEF RpType
<1>2. RpType'
  <2>1. rpReq' = [s \in RpReqs |-> rpReq'[s]]
    BY <1>0 DEF RpType
  <2> QED BY <1>0, <2>1 DEF RpType
<1>3. RowsApart' /\ RowsHaveClones' /\ UrlAddedOnce'
  BY <1>0 DEF RowsApart, RowsHaveClones, UrlAddedOnce
<1>4. FlagHeld'
  BY <1>0, <1>1, FlagKept
<1>5. RemovesApart'
  BY <1>0, <1>1 DEF RemovesApart
<1>6. ASSUME NEW s \in RpReqs PROVE RpSound(rpReq[s])'
  <2>1. PICK y : y = rpReq'[s] /\ RpSound(y)
    BY <1>1 DEF RpInv
  <2>2. RpSound(y)'
    BY <2>1 DEF RpSound, GetByUrl, GetByPath, GetRow
  <2> QED BY <2>1, <2>2
<1> QED BY <1>2, <1>3, <1>4, <1>5, <1>6 DEF RpInv

(* A request with nothing to rely on.                                      *)
Free(q) == q.pc \in {"idle", "done", "unlink", "getrow"}

(* The steps of a request that change no row and no directory.             *)
LEMMA RpQuietStep ==
    ASSUME RpInv, NEW r \in RpReqs,
           \/ AddExisting(r) \/ AddViaClone(r) \/ LookupUrl(r) \/ GitFails(r) \/ Associate(r) \/ AnswerCreated(r)
           \/ DeleteRepo(r) \/ RemoveForUser(r) \/ ReadRow(r) \/ ReadRemaining(r) \/ RpForget(r)
    PROVE  RpInv'
<1>0. RpType /\ RowsApart /\ FlagHeld /\ RpSound(rpReq[r])
  BY DEF RpInv
<1>a. rpFlag \in BOOLEAN /\ rpNext \in Nat
  BY <1>0 DEF RpType
<1>b. \A e : rpReq' = [rpReq EXCEPT ![r] = e] => rpReq'[r] = e
  BY <1>0 DEF RpType
(* A request that ends, or reads on, and leaves the flag.                  *)
<1>c. ASSUME NEW q, rpReq' = [rpReq EXCEPT ![r] = q], UNCHANGED <<rpRows, rpDirs, rpNext, rpFlag>>,
             RpSound(q), q.pc \notin {"rm", "upsert"}, Holder(q) => Holder(rpReq[r])
      PROVE  RpInv'
  <2>1. Holder(q) => rpFlag'
    BY <1>0, <1>c DEF FlagHeld
  <2> QED BY <1>a, <1>c, <2>1, RpGoes
<1>d. ASSUME NEW q, Free(q) PROVE RpSound(q) /\ ~Holder(q) /\ q.pc \notin {"rm", "upsert"}
  BY <1>d DEF RpSound, Holder, Free
<1>e. ASSUME NEW q, Free(q), rpReq' = [rpReq EXCEPT ![r] = q], UNCHANGED <<rpRows, rpDirs, rpNext>>,
             Holder(rpReq[r]), rpFlag' = FALSE
      PROVE  RpInv'
  <2>1. RpSound(q) /\ ~Holder(q) /\ q.pc \notin {"rm", "upsert"} /\ rpFlag' \in BOOLEAN
    BY <1>d, <1>e
  <2> QED BY <1>e, <2>1, RpGoes
<1>g. ASSUME NEW q, Free(q), rpReq' = [rpReq EXCEPT ![r] = q],
             UNCHANGED <<rpRows, rpDirs, rpNext, rpFlag>>
      PROVE  RpInv'
  <2>1. RpSound(q) /\ ~Holder(q) /\ q.pc \notin {"rm", "upsert"}
    BY <1>d, <1>g
  <2> QED BY <1>c, <1>g, <2>1
<1>1. CASE AddExisting(r)
  <2>1. PICK u \in RpUsers, id \in 1 .. rpNext :
          rpReq' = [rpReq EXCEPT ![r] = IF GetRow(id) = {} THEN [pc |-> "done", answer |-> "not found", id |-> id]
                                        ELSE [pc |-> "link", kind |-> "existing", user |-> u, id |-> id, answer |-> "ok"]]
    BY <1>1 DEF AddExisting
  <2> DEFINE l == [pc |-> "link", kind |-> "existing", user |-> u, id |-> id, answer |-> "ok"]
  <2>2. RpSound(l) /\ ~Holder(l) /\ l.pc = "link"
    BY DEF RpSound, Holder
  <2>3. UNCHANGED <<rpRows, rpDirs, rpNext, rpFlag>>
    BY <1>1 DEF AddExisting
  <2> HIDE DEF l
  <2>4. CASE GetRow(id) = {}
    <3>1. PICK q : q = [pc |-> "done", answer |-> "not found", id |-> id] /\ Free(q)
      <4>1. Free([pc |-> "done", answer |-> "not found", id |-> id])
        BY DEF Free
      <4> QED BY <4>1
    <3> QED BY <1>g, <2>1, <2>3, <2>4, <3>1
  <2>5. CASE GetRow(id) # {}
    BY <1>c, <2>1, <2>2, <2>3, <2>5 DEF l
  <2> QED BY <2>4, <2>5
<1>2. CASE AddViaClone(r)
  <2>1. PICK u \in RpUsers, url \in RpUrls :
          rpReq' = [rpReq EXCEPT ![r] =
                IF CloneFlagFree THEN [pc |-> "lookup", kind |-> "clone", user |-> u, url |-> url]
                ELSE [pc |-> "done", answer |-> "conflict", id |-> 0]]
    BY <1>2 DEF AddViaClone
  <2>2. rpFlag' = TRUE /\ UNCHANGED <<rpRows, rpDirs, rpNext>>
    BY <1>2 DEF AddViaClone
  <2>3. CASE CloneFlagFree
    <3> DEFINE l == [pc |-> "lookup", kind |-> "clone", user |-> u, url |-> url]
    <3>1. RpSound(l) /\ l.pc = "lookup"
      BY DEF RpSound
    <3>2. rpReq' = [rpReq EXCEPT ![r] = l]
      BY <2>1, <2>3
    <3>3. ~rpFlag /\ rpFlag' /\ rpFlag' \in BOOLEAN
      BY <2>2, <2>3 DEF CloneFlagFree
    <3> HIDE DEF l
    <3> QED BY <2>2, <3>1, <3>2, <3>3, RpGoes
  <2>4. CASE ~CloneFlagFree
    <3>1. rpFlag' = rpFlag
      BY <1>a, <2>2, <2>4 DEF CloneFlagFree
    <3>2. PICK q : q = [pc |-> "done", answer |-> "conflict", id |-> 0] /\ Free(q)
      <4>1. Free([pc |-> "done", answer |-> "conflict", id |-> 0])
        BY DEF Free
      <4> QED BY <4>1
    <3> QED BY <1>g, <2>1, <2>2, <2>4, <3>1, <3>2
  <2> QED BY <2>3, <2>4
<1>3. CASE LookupUrl(r)
  <2>1. rpReq[r].pc = "lookup" /\ rpReq[r].url \in RpUrls /\ rpReq[r].user \in RpUsers /\ Holder(rpReq[r])
        /\ UNCHANGED <<rpRows, rpDirs, rpNext, rpFlag>>
    BY <1>0, <1>3 DEF LookupUrl, RpSound, Holder
  <2>2. ASSUME NEW row \in rpRows,
               rpReq' = [rpReq EXCEPT ![r] = [pc |-> "link", kind |-> "clone", user |-> @.user, id |-> row.id, answer |-> "ok"]]
        PROVE  RpInv'
    <3>1. PICK l : l = [pc |-> "link", kind |-> "clone", user |-> rpReq[r].user, id |-> row.id, answer |-> "ok"]
      OBVIOUS
    <3>2. RpSound(l) /\ l.pc = "link"
      BY <3>1 DEF RpSound
    <3> QED BY <1>c, <2>1, <2>2, <3>1, <3>2
  <2>3. ASSUME GetByUrl(rpReq[r].url) = {},
               rpReq' = [rpReq EXCEPT ![r] = [pc |-> "git", user |-> @.user, url |-> @.url, id |-> 0,
                                              dir |-> PickCloneTarget(rpReq[r].url)]]
        PROVE  RpInv'
    <3>0. PICK d \in RpNames : d = PickCloneTarget(rpReq[r].url)
      BY <2>1, PickedIsName
    <3>1. PICK l : l = [pc |-> "git", user |-> rpReq[r].user, url |-> rpReq[r].url, id |-> 0, dir |-> d]
      OBVIOUS
    <3>2. l \in CloneReq /\ l.pc = "git" /\ l.url = rpReq[r].url
      BY <2>1, <3>1 DEF CloneReq
    <3>3. RpSound(l)
      BY <2>3, <3>2 DEF RpSound
    <3> QED BY <1>c, <2>1, <2>3, <3>0, <3>1, <3>2, <3>3
  <2> QED BY <1>3, <2>2, <2>3 DEF LookupUrl, GetByUrl
<1>4. CASE GitFails(r)
  <2>1. Holder(rpReq[r]) /\ rpFlag' = FALSE /\ UNCHANGED <<rpRows, rpDirs, rpNext>>
        /\ rpReq' = [rpReq EXCEPT ![r] = [pc |-> "done", answer |-> "bad gateway", id |-> rpReq[r].id]]
        /\ Free([pc |-> "done", answer |-> "bad gateway", id |-> rpReq[r].id])
    BY <1>4 DEF GitFails, RpAnswer, Holder, Free
  <2> QED BY <1>e, <2>1
<1>5. CASE Associate(r)
  <2>0. rpReq[r].pc = "link" /\ UNCHANGED <<rpRows, rpDirs, rpNext>>
    BY <1>5 DEF Associate
  <2>1. CASE rpReq[r].answer = "created" /\ rpReq' = [rpReq EXCEPT ![r] = [pc |-> "reread", id |-> @.id]] /\ UNCHANGED rpFlag
    <3>1. PICK l : l = [pc |-> "reread", id |-> rpReq[r].id]
      OBVIOUS
    <3>2. RpSound(l) /\ l.pc = "reread" /\ Holder(rpReq[r])
      BY <1>0, <2>0, <2>1, <3>1 DEF RpSound, Holder
    <3> QED BY <1>c, <2>0, <2>1, <3>1, <3>2
  <2>2. ASSUME NEW a, RpAnswer(r, a), rpFlag' = (rpFlag /\ rpReq[r].kind = "existing") PROVE RpInv'
    <3>1. PICK l : l = [pc |-> "done", answer |-> a, id |-> rpReq[r].id] /\ Free(l)
      <4>1. Free([pc |-> "done", answer |-> a, id |-> rpReq[r].id])
        BY DEF Free
      <4> QED BY <4>1
    <3>2. rpReq' = [rpReq EXCEPT ![r] = l] /\ Free(l)
      BY <2>2, <3>1 DEF RpAnswer
    <3>3. CASE rpReq[r].kind = "existing"
      <4>1. rpFlag' = rpFlag
        BY <1>a, <2>2, <3>3
      <4> QED BY <1>g, <2>0, <3>2, <4>1
    <3>4. CASE rpReq[r].kind # "existing"
      <4>1. rpFlag' = FALSE
        BY <2>2, <3>4
      <4>2. CASE rpReq[r].kind = "clone"
        BY <1>e, <2>0, <3>2, <4>1, <4>2 DEF Holder
      <4>3. CASE rpReq[r].kind # "clone"
        BY <1>0, <2>0, <3>4, <4>3 DEF RpSound
      <4> QED BY <4>2, <4>3
    <3> QED BY <3>3, <3>4
  <2> QED BY <1>5, <2>1, <2>2 DEF Associate
<1>6. CASE AnswerCreated(r)
  <2>1. Holder(rpReq[r]) /\ rpFlag' = FALSE /\ UNCHANGED <<rpRows, rpDirs, rpNext>>
        /\ rpReq' = [rpReq EXCEPT ![r] = [pc |-> "done", answer |-> Reread(r), id |-> rpReq[r].id]]
        /\ Free([pc |-> "done", answer |-> Reread(r), id |-> rpReq[r].id])
    BY <1>6 DEF AnswerCreated, RpAnswer, Holder, Free
  <2> QED BY <1>e, <2>1
<1>7. CASE DeleteRepo(r)
  <2>1. PICK q : rpReq' = [rpReq EXCEPT ![r] = q] /\ Free(q)
                 /\ UNCHANGED <<rpRows, rpDirs, rpNext, rpFlag>>
    <3>1. PICK u \in RpUsers, id \in 1..rpNext, force \in BOOLEAN :
            rpReq' = [rpReq EXCEPT ![r] =
              IF \E item \in Blockers(id) : force \/ item[1] = u THEN [pc |-> "done", answer |-> "conflict", id |-> id]
              ELSE [pc |-> IF force THEN "getrow" ELSE "unlink", user |-> u, id |-> id, force |-> force]]
      BY <1>7 DEF DeleteRepo
    <3>2. PICK q : q = IF \E item \in Blockers(id) : force \/ item[1] = u THEN [pc |-> "done", answer |-> "conflict", id |-> id]
                       ELSE [pc |-> IF force THEN "getrow" ELSE "unlink", user |-> u, id |-> id, force |-> force]
      OBVIOUS
    <3>3. Free(q)
      BY <3>2 DEF Free
    <3> QED BY <1>7, <3>1, <3>2, <3>3 DEF DeleteRepo
  <2> QED BY <1>g, <2>1
<1>8. CASE RemoveForUser(r)
  <2>1. PICK q : rpReq' = [rpReq EXCEPT ![r] = q] /\ Free(q)
    <3>1. Free([pc |-> "getrow", id |-> rpReq[r].id, force |-> FALSE])
          /\ Free([pc |-> "done", answer |-> "not found", id |-> rpReq[r].id])
      BY DEF Free
    <3> QED BY <1>8, <3>1 DEF RemoveForUser, RpAnswer
  <2>2. UNCHANGED <<rpRows, rpDirs, rpNext, rpFlag>>
    BY <1>8 DEF RemoveForUser
  <2> QED BY <1>g, <2>1, <2>2
<1>9. CASE ReadRow(r)
  <2>0. UNCHANGED <<rpRows, rpDirs, rpNext, rpFlag>>
    BY <1>9 DEF ReadRow
  <2>1. CASE RpAnswer(r, "no content")
    <3>1. PICK l : l = [pc |-> "done", answer |-> "no content", id |-> rpReq[r].id] /\ Free(l)
      <4>1. Free([pc |-> "done", answer |-> "no content", id |-> rpReq[r].id])
        BY DEF Free
      <4> QED BY <4>1
    <3> QED BY <1>g, <2>0, <2>1, <3>1 DEF RpAnswer
  <2>2. ASSUME NEW row \in rpRows, row.id = rpReq[r].id,
               rpReq' = [rpReq EXCEPT ![r] = [pc |-> "remaining", id |-> @.id, force |-> @.force, dir |-> row.dir]]
        PROVE  RpInv'
    <3>1. PICK l : l = [pc |-> "remaining", id |-> rpReq[r].id, force |-> rpReq[r].force, dir |-> row.dir]
      OBVIOUS
    <3>2. row \in RpRow /\ row.id <= rpNext
      BY <1>0 DEF RpType
    <3>3. l.pc = "remaining" /\ l.id = row.id /\ l.dir = row.dir
      BY <2>2, <3>1
    <3>4. RpSound(l)
      BY <1>0, <3>2, <3>3 DEF RpSound, GetRow, RowsApart, RpRow
    <3>5. ~Holder(l)
      BY <3>3 DEF Holder
    <3> QED BY <1>c, <2>0, <2>2, <3>1, <3>3, <3>4, <3>5
  <2> QED BY <1>9, <2>1, <2>2 DEF ReadRow, GetRow
<1>10. CASE ReadRemaining(r)
  <2>0. rpReq[r].pc = "remaining" /\ UNCHANGED <<rpRows, rpDirs, rpNext, rpFlag>>
    BY <1>10 DEF ReadRemaining
  <2>1. CASE RpAnswer(r, "no content")
    <3>1. PICK l : l = [pc |-> "done", answer |-> "no content", id |-> rpReq[r].id] /\ Free(l)
      <4>1. Free([pc |-> "done", answer |-> "no content", id |-> rpReq[r].id])
        BY DEF Free
      <4> QED BY <4>1
    <3> QED BY <1>g, <2>0, <2>1, <3>1 DEF RpAnswer
  <2>2. CASE rpReq' = [rpReq EXCEPT ![r] = [pc |-> "purge", id |-> @.id, dir |-> @.dir]]
    <3>1. PICK l : l = [pc |-> "purge", id |-> rpReq[r].id, dir |-> rpReq[r].dir]
      OBVIOUS
    <3>2. l.pc = "purge" /\ l.id = rpReq[r].id /\ l.dir = rpReq[r].dir
      BY <3>1
    <3>3. l \in PurgeReq
      BY <1>0, <2>0, <3>1 DEF RpSound, PurgeReq
    <3>4. RpSound(l) /\ ~Holder(l)
      BY <1>0, <2>0, <3>2, <3>3 DEF RpSound, Holder
    <3> QED BY <1>c, <2>0, <2>2, <3>1, <3>2, <3>4
  <2> QED BY <1>10, <2>1, <2>2 DEF ReadRemaining
<1>11. CASE RpForget(r)
  <2>1. Free(RpIdle)
    BY DEF Free, RpIdle
  <2> QED BY <1>11, <1>g, <2>1 DEF RpForget
<1> QED BY <1>1, <1>2, <1>3, <1>4, <1>5, <1>6, <1>7, <1>8, <1>9, <1>10, <1>11

(* What the other requests rely on, when one puts a clone in a directory   *)
(* that was free.                                                          *)
LEMMA CloneAppears ==
    ASSUME RpInv, NEW r \in RpReqs, rpReq[r].pc = "git", rpDirs[rpReq[r].dir] = << >>,
           rpDirs' = [rpDirs EXCEPT ![rpReq[r].dir] = rpReq[r].url], UNCHANGED <<rpRows, rpNext>>,
           NEW q, rpReq' = [rpReq EXCEPT ![r] = q],
           Holder(q) => rpFlag', rpFlag' \in BOOLEAN,
           Free(q) \/ (q = [rpReq[r] EXCEPT !.pc = "upsert"])
    PROVE  RpInv'
<1>0. RpType /\ RowsApart /\ RowsHaveClones /\ UrlAddedOnce /\ FlagHeld /\ RemovesApart /\ RpSound(rpReq[r])
  BY DEF RpInv
<1>1. rpReq'[r] = q /\ (\A s \in RpReqs \ {r} : rpReq'[s] = rpReq[s]) /\ rpReq' = [s \in RpReqs |-> rpReq'[s]]
  BY <1>0 DEF RpType
<1>2. PICK d \in RpNames, url \in RpUrls : d = rpReq[r].dir /\ url = rpReq[r].url
  BY <1>0 DEF RpSound, CloneReq
<1>3. rpReq[r] \in CloneReq /\ GetByUrl(url) = {}
  BY <1>0, <1>2 DEF RpSound
<1>4. \A x \in RpNames : rpDirs'[x] = IF x = d THEN url ELSE rpDirs[x]
  BY <1>0, <1>2 DEF RpType
<1>5. \A row \in rpRows : row \in RpRow /\ row.dir # d
  <2> SUFFICES ASSUME NEW row \in rpRows PROVE row \in RpRow /\ rpDirs[row.dir] # << >>
    BY <1>2
  <2>1. row \in RpRow /\ row.url \in RpUrls
    BY <1>0 DEF RpType, RpRow
  <2> QED BY <1>0, <2>1, RepositoriesAssumption DEF RowsHaveClones
<1>6. RpType' /\ RowsApart' /\ UrlAddedOnce'
  BY <1>0, <1>1, <1>2 DEF RpType, RowsApart, UrlAddedOnce
<1>7. RowsHaveClones'
  <2>1. \A row \in rpRows : row.dir \in RpNames
    BY <1>5 DEF RpRow
  <2> QED BY <1>0, <1>4, <1>5, <2>1 DEF RowsHaveClones
<1>8. Holder(rpReq[r]) /\ \A s \in RpReqs : Holder(rpReq[s]) => s = r
  BY <1>0 DEF FlagHeld, Holder
<1>9. FlagHeld'
  BY <1>0, <1>1, <1>8, FlagKept
<1>10. \A s \in RpReqs \ {r} : rpReq[s].pc = "rm" => rpReq[s].dir # d /\ rpReq[s].dir \in RpNames
  BY <1>2 DEF RpInv, RpSound, PurgeReq
<1>11. ASSUME NEW s \in RpReqs \ {r} PROVE RpSound(rpReq[s])'
  <2>1. PICK y : y = rpReq[s] /\ RpSound(y)
    BY DEF RpInv
  <2>2. y.pc \notin {"git", "upsert"}
    BY <1>8, <2>1 DEF Holder
  <2>3. y.pc = "rm" => rpDirs'[y.dir] # << >>
    BY <1>4, <1>10, <2>1 DEF RpSound
  <2>4. RpSound(y)'
    BY <2>1, <2>2, <2>3 DEF RpSound, GetByPath, GetRow
  <2> QED BY <1>1, <2>1, <2>4
<1>12. CASE Free(q)
  <2>1. RpSound(rpReq[r])' /\ rpReq'[r].pc \notin {"rm", "upsert"}
    BY <1>1, <1>12 DEF RpSound, Free
  <2>2. RemovesApart'
    BY <1>0, <1>1, <2>1 DEF RemovesApart
  <2> QED BY <1>6, <1>7, <1>9, <1>11, <2>1, <2>2 DEF RpInv
<1>13. CASE q = [rpReq[r] EXCEPT !.pc = "upsert"]
  <2>1. q \in CloneReq /\ q.pc = "upsert" /\ q.dir = d /\ q.url = url
    BY <1>2, <1>3, <1>13 DEF CloneReq
  <2>2. RpSound(q)'
    BY <1>2, <1>3, <1>4, <1>5, <2>1 DEF RpSound, GetByPath, GetByUrl
  <2>3. RpSound(rpReq[r])'
    BY <1>1, <2>2
  <2>4. RemovesApart'
    BY <1>0, <1>1, <1>10, <2>1 DEF RemovesApart
  <2> QED BY <1>6, <1>7, <1>9, <1>11, <2>3, <2>4 DEF RpInv
<1> QED BY <1>12, <1>13

(* The steps of a request that change a row or a directory.                *)
LEMMA RpDiskStep ==
    ASSUME RpInv, NEW r \in RpReqs,
           GitClones(r) \/ GitKilled(r) \/ UpsertClone(r) \/ PurgeRow(r) \/ PurgeClone(r)
    PROVE  RpInv'
<1>0. RpType /\ RowsApart /\ RowsHaveClones /\ UrlAddedOnce /\ FlagHeld /\ RemovesApart /\ RpSound(rpReq[r])
  BY DEF RpInv
<1>a. rpFlag \in BOOLEAN /\ rpNext \in Nat
  BY <1>0 DEF RpType
<1>b. ASSUME NEW q, rpReq' = [rpReq EXCEPT ![r] = q]
      PROVE  rpReq'[r] = q /\ (\A s \in RpReqs \ {r} : rpReq'[s] = rpReq[s]) /\ rpReq' = [s \in RpReqs |-> rpReq'[s]]
  BY <1>0, <1>b DEF RpType
<1>1. CASE GitClones(r)
  <2>1. /\ rpReq[r].pc = "git" /\ rpDirs[rpReq[r].dir] = << >>
        /\ rpDirs' = [rpDirs EXCEPT ![rpReq[r].dir] = rpReq[r].url] /\ UNCHANGED <<rpRows, rpNext, rpFlag>>
        /\ rpReq' = [rpReq EXCEPT ![r] = [rpReq[r] EXCEPT !.pc = "upsert"]]
    BY <1>1 DEF GitClones, RpMove
  <2>2. PICK q : q = [rpReq[r] EXCEPT !.pc = "upsert"]
    OBVIOUS
  <2>3. rpFlag'
    BY <1>0, <2>1 DEF FlagHeld, Holder
  <2> QED BY <1>a, <2>1, <2>2, <2>3, CloneAppears
<1>2. CASE GitKilled(r)
  <2>1. /\ rpReq[r].pc = "git" /\ rpDirs[rpReq[r].dir] = << >>
        /\ rpDirs' = [rpDirs EXCEPT ![rpReq[r].dir] = rpReq[r].url] /\ UNCHANGED <<rpRows, rpNext>> /\ rpFlag' = FALSE
        /\ rpReq' = [rpReq EXCEPT ![r] = [pc |-> "done", answer |-> "bad gateway", id |-> rpReq[r].id]]
    BY <1>2 DEF GitKilled, RpAnswer
  <2>2. PICK q : q = [pc |-> "done", answer |-> "bad gateway", id |-> rpReq[r].id]
    OBVIOUS
  <2>3. Free(q) /\ ~Holder(q) /\ rpFlag' \in BOOLEAN
    BY <2>1, <2>2 DEF Free, Holder
  <2> QED BY <2>1, <2>2, <2>3, CloneAppears
<1>3. CASE UpsertClone(r)
  <2>1. PICK p : p = rpReq[r]
    OBVIOUS
  <2>2. p.pc = "upsert" /\ p \in CloneReq /\ GetByUrl(p.url) = {} /\ GetByPath(p.dir) = {} /\ rpDirs[p.dir] = p.url
    BY <1>0, <1>3, <2>1 DEF UpsertClone, RpSound
  <2>3. p.user \in RpUsers /\ p.url \in RpUrls /\ p.dir \in RpNames
    BY <2>2 DEF CloneReq
  <2>4. PICK new : new = [id |-> rpNext + 1, name |-> BaseName(p.url), url |-> p.url, dir |-> p.dir, by |-> p.user]
    OBVIOUS
  <2>5. new \in RpRow /\ new.id = rpNext + 1 /\ new.dir = p.dir /\ new.url = p.url
    BY <1>a, <2>3, <2>4, PickedIsName DEF RpRow
  <2>6. rpRows' = rpRows \cup {new} /\ rpNext' = rpNext + 1 /\ UNCHANGED <<rpDirs, rpFlag>>
    BY <1>3, <2>1, <2>2, <2>4 DEF UpsertClone, Upsert, GetByPath
  <2>7. PICK q : rpReq' = [rpReq EXCEPT ![r] = q] /\ q.pc = "link" /\ q.kind = "clone"
    <3>1. PICK row \in rpRows' : rpReq' = [rpReq EXCEPT ![r] = [pc |-> "link", kind |-> "clone", user |-> @.user,
                                                                id |-> row.id, answer |-> "created"]]
      BY <1>3 DEF UpsertClone
    <3>2. PICK q : q = [pc |-> "link", kind |-> "clone", user |-> rpReq[r].user, id |-> row.id, answer |-> "created"]
      OBVIOUS
    <3>3. q.pc = "link" /\ q.kind = "clone" /\ rpReq' = [rpReq EXCEPT ![r] = q]
      BY <3>1, <3>2
    <3> QED BY <3>3
  <2>8. rpReq'[r] = q /\ (\A s \in RpReqs \ {r} : rpReq'[s] = rpReq[s]) /\ rpReq' = [s \in RpReqs |-> rpReq'[s]]
    BY <1>b, <2>7
  <2>9. \A row \in rpRows : row \in RpRow /\ row.id <= rpNext /\ row.dir # p.dir /\ row.url # p.url
    BY <1>0, <2>2 DEF RpType, GetByPath, GetByUrl
  <2>10. RpType'
    <3>1. \A row \in rpRows' : row \in RpRow /\ row.id <= rpNext'
      BY <1>a, <2>5, <2>6, <2>9 DEF RpRow
    <3> QED BY <1>0, <1>a, <2>6, <2>8, <3>1 DEF RpType
  <2>11. RowsApart'
    BY <1>0, <1>a, <2>5, <2>6, <2>9 DEF RowsApart, RpRow
  <2>12. RowsHaveClones' /\ UrlAddedOnce'
    BY <1>0, <2>2, <2>5, <2>6, <2>9 DEF RowsHaveClones, UrlAddedOnce
  <2>13. Holder(rpReq[r]) /\ \A s \in RpReqs : Holder(rpReq[s]) => s = r
    BY <1>0, <2>1, <2>2 DEF FlagHeld, Holder
  <2>14. FlagHeld'
    <3>1. rpFlag
      BY <1>0, <2>13 DEF FlagHeld
    <3> QED BY <1>0, <2>6, <2>8, <2>13, <3>1, FlagKept
  <2>15. RemovesApart'
    BY <1>0, <2>7, <2>8 DEF RemovesApart
  <2>16. ASSUME NEW s \in RpReqs \ {r} PROVE RpSound(rpReq[s])'
    <3>1. PICK y : y = rpReq[s] /\ RpSound(y)
      BY DEF RpInv
    <3>2. y.pc \notin {"git", "upsert"}
      BY <2>13, <3>1 DEF Holder
    <3>3. y.pc = "rm" => y.dir # p.dir
      BY <1>0, <2>1, <2>2, <3>1 DEF RemovesApart
    <3>4. y.pc \in {"remaining", "purge"} => y.id # rpNext + 1 /\ y.id <= rpNext + 1
      BY <1>a, <3>1 DEF RpSound
    <3>5. RpSound(y)'
      BY <2>5, <2>6, <3>1, <3>2, <3>3, <3>4 DEF RpSound, GetByPath, GetRow
    <3> QED BY <2>8, <3>1, <3>5
  <2>17. RpSound(rpReq[r])'
    BY <2>7, <2>8 DEF RpSound
  <2> QED BY <2>10, <2>11, <2>12, <2>14, <2>15, <2>16, <2>17 DEF RpInv
<1>4. CASE PurgeRow(r)
  <2>1. rpReq[r].pc = "purge" /\ rpRows' = rpRows \ GetRow(rpReq[r].id) /\ UNCHANGED <<rpDirs, rpFlag, rpNext>>
    BY <1>4 DEF PurgeRow
  <2>2. PICK q : rpReq' = [rpReq EXCEPT ![r] = q] /\ (Free(q) \/ (Deleted(r) /\ q = [rpReq[r] EXCEPT !.pc = "rm"]))
    <3>1. PICK x : x = [pc |-> "done", answer |-> "no content", id |-> rpReq[r].id]
      OBVIOUS
    <3>2. Free(x)
      BY <3>1 DEF Free
    <3> QED BY <1>4, <3>1, <3>2 DEF PurgeRow, RpMove, RpAnswer
  <2>3. rpReq'[r] = q /\ (\A s \in RpReqs \ {r} : rpReq'[s] = rpReq[s]) /\ rpReq' = [s \in RpReqs |-> rpReq'[s]]
    BY <1>b, <2>2
  <2>4. RpType' /\ RowsApart' /\ RowsHaveClones' /\ UrlAddedOnce'
    BY <1>0, <2>1, <2>3 DEF RpType, RowsApart, RowsHaveClones, UrlAddedOnce
  <2>5. rpReq[r] \in PurgeReq /\ \A row \in GetRow(rpReq[r].id) : row.dir = rpReq[r].dir
    BY <1>0, <2>1 DEF RpSound
  <2>6. q.pc = "rm" => q \in PurgeReq /\ q.dir = rpReq[r].dir /\ Deleted(r)
    BY <2>2, <2>5 DEF Free, PurgeReq
  <2>7. q.pc \in {"idle", "done", "unlink", "getrow", "rm"}
    BY <2>2, <2>5 DEF Free, PurgeReq
  <2>8. FlagHeld'
    <3>1. ~Holder(q)
      BY <2>7 DEF Holder
    <3> QED BY <1>0, <2>1, <2>3, <3>1, FlagKept
  <2>9. q.pc = "rm" => /\ \A row \in rpRows' : row.dir # q.dir
                       /\ \E row \in rpRows : row.dir = q.dir
    BY <1>0, <2>1, <2>5, <2>6 DEF GetRow, Deleted, RowsApart
  <2>10. q.pc = "rm" => rpDirs[q.dir] # << >>
    <3>1. \A row \in rpRows : row.url # << >>
      BY <1>0, RepositoriesAssumption DEF RpType, RpRow
    <3> QED BY <1>0, <2>9, <3>1 DEF RowsHaveClones
  <2>11. RpSound(rpReq[r])'
    BY <2>1, <2>3, <2>6, <2>7, <2>9, <2>10 DEF RpSound, GetByPath
  <2>12. ASSUME NEW s \in RpReqs \ {r} PROVE RpSound(rpReq[s])' /\ (q.pc = "rm" /\ rpReq[s].pc \in {"rm", "upsert"} => rpReq[s].dir # q.dir)
    <3>1. PICK y : y = rpReq[s] /\ RpSound(y)
      BY DEF RpInv
    <3>2. RpSound(y)'
      BY <2>1, <3>1 DEF RpSound, GetByPath, GetByUrl, GetRow
    <3>3. q.pc = "rm" /\ y.pc \in {"rm", "upsert"} => y.dir # q.dir
      BY <2>9, <3>1 DEF RpSound, GetByPath
    <3> QED BY <2>3, <3>1, <3>2, <3>3
  <2>13. RemovesApart'
    BY <1>0, <2>3, <2>7, <2>12 DEF RemovesApart
  <2> QED BY <2>4, <2>8, <2>11, <2>12, <2>13 DEF RpInv
<1>5. CASE PurgeClone(r)
  <2>1. PICK d \in RpNames : d = rpReq[r].dir /\ GetByPath(d) = {}
    BY <1>0, <1>5 DEF PurgeClone, RpSound, PurgeReq
  <2>2. PICK left \in {<< >>, <<"debris">>, rpDirs[d]} : rpDirs' = [rpDirs EXCEPT ![d] = left]
    BY <1>5, <2>1 DEF PurgeClone
  <2>3. rpReq[r].pc = "rm" /\ UNCHANGED <<rpRows, rpFlag, rpNext>>
        /\ rpReq' = [rpReq EXCEPT ![r] = [pc |-> "done", answer |-> "no content", id |-> rpReq[r].id]]
    BY <1>5 DEF PurgeClone, RpAnswer
  <2>4. PICK q : q = [pc |-> "done", answer |-> "no content", id |-> rpReq[r].id]
    OBVIOUS
  <2>5. q.pc = "done" /\ rpReq'[r] = q /\ (\A s \in RpReqs \ {r} : rpReq'[s] = rpReq[s]) /\ rpReq' = [s \in RpReqs |-> rpReq'[s]]
    BY <1>b, <2>3, <2>4
  <2>6. \A x \in RpNames \ {d} : rpDirs'[x] = rpDirs[x]
    BY <1>0, <2>2 DEF RpType
  <2>7. RpType'
    <3>1. rpDirs' \in [RpNames -> RpUrls \cup {<< >>, <<"debris">>}]
      BY <1>0, <2>2 DEF RpType
    <3> QED BY <1>0, <2>3, <2>5, <3>1 DEF RpType
  <2>8. RowsHaveClones' /\ RowsApart' /\ UrlAddedOnce'
    BY <1>0, <2>1, <2>3, <2>6 DEF RowsHaveClones, RowsApart, UrlAddedOnce, GetByPath, RpType, RpRow
  <2>9. FlagHeld'
    <3>1. ~Holder(q)
      BY <2>5 DEF Holder
    <3> QED BY <1>0, <2>3, <2>5, <3>1, FlagKept
  <2>10. RemovesApart'
    BY <1>0, <2>5 DEF RemovesApart
  <2>11. RpSound(rpReq[r])'
    BY <2>5 DEF RpSound
  <2>12. ASSUME NEW s \in RpReqs \ {r} PROVE RpSound(rpReq[s])'
    <3>1. PICK y : y = rpReq[s] /\ RpSound(y)
      BY DEF RpInv
    <3>2. y.pc \in {"rm", "upsert"} => y.dir # d /\ y.dir \in RpNames
      BY <1>0, <2>1, <2>3, <3>1 DEF RemovesApart, RpSound, PurgeReq, CloneReq
    <3>3. RpSound(y)'
      BY <2>3, <2>6, <3>1, <3>2 DEF RpSound, GetByPath, GetByUrl, GetRow
    <3> QED BY <2>5, <3>1, <3>3
  <2> QED BY <2>7, <2>8, <2>9, <2>10, <2>11, <2>12 DEF RpInv
<1> QED BY <1>1, <1>2, <1>3, <1>4, <1>5

(* A crash and the start after it: the clones without a row are registered *)
(* under ids of their own.                                                 *)
LEMMA RpCrashStep == ASSUME RpInv, CrashAndReconcile PROVE RpInv'
<1>0. RpType /\ RowsApart /\ RowsHaveClones /\ UrlAddedOnce
  BY DEF RpInv
<1> DEFINE found == {d \in RpNames : rpDirs[d] \in RpUrls /\ GetByPath(d) = {}}
<1>1. PICK ids \in Reconciled :
        /\ rpReq' = [r \in RpReqs |-> RpIdle] /\ rpFlag' = FALSE
        /\ rpNext' = rpNext + Cardinality(DOMAIN ids)
        /\ rpRows' = rpRows \cup {[id |-> ids[d], name |-> d, url |-> rpDirs[d], dir |-> d, by |-> "reconcile"]
                                     : d \in DOMAIN ids}
        /\ rpDirs' = rpDirs
  BY DEF CrashAndReconcile
<1>2. /\ ids \in [found -> (rpNext + 1)..(rpNext + Cardinality(found))] /\ DOMAIN ids = found
      /\ \A d, e \in found : ids[d] = ids[e] => d = e
  BY DEF Reconciled
<1>3. PICK n \in Nat : n = Cardinality(found)
  <2>1. found \in SUBSET RpNames
    OBVIOUS
  <2> HIDE DEF found
  <2>2. IsFiniteSet(found)
    BY <2>1, NamesFinite, FS_Subset
  <2> QED BY <2>2, FS_CardinalityType
<1>4. rpNext \in Nat /\ rpNext' = rpNext + n
  BY <1>0, <1>1, <1>2, <1>3 DEF RpType
<1>5. \A d \in found : /\ d \in RpNames /\ rpDirs[d] \in RpUrls /\ ids[d] \in Nat /\ ids[d] > rpNext /\ ids[d] <= rpNext'
                       /\ \A row \in rpRows : row.dir # d
  BY <1>2, <1>3, <1>4 DEF GetByPath
<1> HIDE DEF found
<1>6. ASSUME NEW row \in rpRows', row \notin rpRows
      PROVE  \E d \in found : /\ row \in RpRow /\ row.id = ids[d] /\ row.dir = d /\ row.url = rpDirs[d] /\ row.by = "reconcile"
                              /\ row = [id |-> ids[d], name |-> d, url |-> rpDirs[d], dir |-> d, by |-> "reconcile"]
  <2>1. PICK d \in found : row = [id |-> ids[d], name |-> d, url |-> rpDirs[d], dir |-> d, by |-> "reconcile"]
    BY <1>1, <1>2, <1>6
  <2>2. row \in RpRow
    BY <1>5, <2>1 DEF RpRow
  <2> QED BY <2>1, <2>2
<1>7. \A row \in rpRows : row \in RpRow /\ row.id \in Nat /\ row.id <= rpNext
  BY <1>0 DEF RpType, RpRow
<1>8. RpType'
  <2>1. \A row \in rpRows' : row \in RpRow /\ row.id <= rpNext'
    <3> SUFFICES ASSUME NEW row \in rpRows' PROVE row \in RpRow /\ row.id <= rpNext'
      OBVIOUS
    <3>1. CASE row \in rpRows
      BY <1>3, <1>4, <1>7, <3>1
    <3>2. CASE row \notin rpRows
      BY <1>5, <1>6, <3>2
    <3> QED BY <3>1, <3>2
  <2>2. rpFlag' \in BOOLEAN
    BY <1>1, Zenon
  <2>3. rpNext' \in Nat
    BY <1>3, <1>4
  <2>4. rpReq' = [r \in RpReqs |-> rpReq'[r]]
    BY <1>1
  <2> QED BY <1>0, <1>1, <2>1, <2>2, <2>3, <2>4 DEF RpType
<1>9. RowsApart'
  <2> SUFFICES ASSUME NEW a \in rpRows', NEW b \in rpRows', a.id = b.id \/ a.dir = b.dir PROVE a = b
    BY DEF RowsApart
  <2>1. CASE a \in rpRows /\ b \in rpRows
    BY <1>0, <2>1 DEF RowsApart
  <2>2. CASE a \in rpRows /\ b \notin rpRows
    BY <1>4, <1>5, <1>6, <1>7, <2>2
  <2>3. CASE a \notin rpRows /\ b \in rpRows
    BY <1>4, <1>5, <1>6, <1>7, <2>3
  <2>4. CASE a \notin rpRows /\ b \notin rpRows
    <3>1. PICK d \in found : a.id = ids[d] /\ a.dir = d
                /\ a = [id |-> ids[d], name |-> d, url |-> rpDirs[d], dir |-> d, by |-> "reconcile"]
      BY <1>6, <2>4
    <3>2. PICK e \in found : b.id = ids[e] /\ b.dir = e
                /\ b = [id |-> ids[e], name |-> e, url |-> rpDirs[e], dir |-> e, by |-> "reconcile"]
      BY <1>6, <2>4
    <3>3. d = e
      BY <1>2, <3>1, <3>2
    <3> QED BY <3>1, <3>2, <3>3
  <2> QED BY <2>1, <2>2, <2>3, <2>4
<1>10. RowsHaveClones'
  BY <1>0, <1>1, <1>6 DEF RowsHaveClones
<1>11. UrlAddedOnce'
  BY <1>0, <1>6 DEF UrlAddedOnce
<1>12. \A r \in RpReqs : rpReq'[r].pc = "idle"
  BY <1>1 DEF RpIdle
<1>13. FlagHeld' /\ RemovesApart' /\ \A r \in RpReqs : RpSound(rpReq[r])'
  BY <1>12 DEF FlagHeld, RemovesApart, RpSound, Holder
<1> QED BY <1>8, <1>9, <1>10, <1>11, <1>13 DEF RpInv

(* The catalogue of repositories, for every number of requests, users,     *)
(* URLs, rows and crashes: add_repository and delete_repository, the clone *)
(* flag and reconcile_repositories together keep a clone behind every row  *)
(* and one added row per URL, and an add that succeeds answers for a       *)
(* repository that is there.                                               *)
THEOREM RepositoriesAreSafe == RpSpec => RepositoriesSafe
<1>1. RpInit => RpInv
  <2> SUFFICES ASSUME RpInit PROVE RpInv
    OBVIOUS
  <2>1. RpType
    BY DEF RpInit, RpType
  <2>2. \A r \in RpReqs : rpReq[r].pc = "idle"
    BY DEF RpInit, RpIdle
  <2>3. RowsApart /\ RowsHaveClones /\ UrlAddedOnce
    BY DEF RpInit, RowsApart, RowsHaveClones, UrlAddedOnce
  <2>4. FlagHeld /\ RemovesApart /\ \A r \in RpReqs : RpSound(rpReq[r])
    BY <2>2 DEF FlagHeld, RemovesApart, RpSound, Holder
  <2> QED BY <2>1, <2>3, <2>4 DEF RpInv
<1>2. RpInv /\ [RpNext]_rpVars => RpInv'
  <2>1. ASSUME RpInv, UNCHANGED <<rpRows, rpDirs, rpFlag, rpReq, rpNext>> PROVE RpInv'
    BY <2>1 DEF RpInv, RpType, RowsApart, RowsHaveClones, UrlAddedOnce, FlagHeld, RemovesApart, RpSound, Holder, GetByUrl,
            GetByPath, GetRow
  <2>2. RpInv /\ (ItemStarts \/ ItemEnds \/ UNCHANGED rpVars) => RpInv'
    BY <2>1 DEF ItemStarts, ItemEnds, rpVars
  <2> QED BY <2>2, RpQuietStep, RpDiskStep, RpCrashStep DEF RpNext
<1> DEFINE Live(r) == rpReq[r].pc \in {"link", "reread"} /\ rpReq'[r].pc = "done" /\ rpReq'[r].answer \in {"ok", "created"}
                         => \E row \in rpRows' : row.id = rpReq'[r].id /\ rpDirs'[row.dir] = row.url
<1>3. ASSUME RpInv, RpNext, NEW r \in RpReqs PROVE Live(r)
  <2>0. RpType /\ RowsHaveClones
    BY <1>3 DEF RpInv
  <2>1. CASE Associate(r)
    <3>1. UNCHANGED <<rpRows, rpDirs>>
      BY <2>1 DEF Associate
    <3>2. CASE GetRow(rpReq[r].id) = {}
      <4>1. rpReq' = [rpReq EXCEPT ![r] = [pc |-> "done", answer |-> "database error", id |-> rpReq[r].id]]
        BY <2>1, <3>2 DEF Associate, AddForUser, RpAnswer
      <4>2. rpReq'[r].answer = "database error"
        BY <2>0, <4>1 DEF RpType
      <4> QED BY <4>2
    <3>3. CASE GetRow(rpReq[r].id) # {} /\ rpReq'[r].pc = "done"
      <4>1. rpReq'[r].id = rpReq[r].id
        <5>1. PICK q : rpReq' = [rpReq EXCEPT ![r] = q] /\ q.id = rpReq[r].id
          <6>1. \/ rpReq' = [rpReq EXCEPT ![r] = [pc |-> "reread", id |-> rpReq[r].id]]
                \/ \E a : rpReq' = [rpReq EXCEPT ![r] = [pc |-> "done", answer |-> a, id |-> rpReq[r].id]]
            BY <2>1 DEF Associate, RpAnswer
          <6>2. \A a : /\ [pc |-> "reread", id |-> rpReq[r].id].id = rpReq[r].id
                       /\ [pc |-> "done", answer |-> a, id |-> rpReq[r].id].id = rpReq[r].id
            OBVIOUS
          <6> QED BY <6>1, <6>2
        <5> QED BY <2>0, <5>1 DEF RpType
      <4> QED BY <2>0, <3>1, <3>3, <4>1 DEF GetRow, RowsHaveClones
    <3> QED BY <3>2, <3>3
  <2>2. CASE AnswerCreated(r)
    <3>1. UNCHANGED <<rpRows, rpDirs>>
      BY <2>2 DEF AnswerCreated
    <3>2. rpReq'[r] = [pc |-> "done", answer |-> Reread(r), id |-> rpReq[r].id]
      BY <2>0, <2>2 DEF AnswerCreated, RpAnswer, RpType
    <3>3. rpReq'[r].id = rpReq[r].id /\ rpReq'[r].answer = Reread(r)
      BY <3>2
    <3>4. Reread(r) = "created" \/ Reread(r) = "row missing"
      BY DEF Reread
    <3>5. Reread(r) = "created" => GetRow(rpReq[r].id) # {}
      BY DEF Reread
    <3> QED BY <2>0, <3>1, <3>3, <3>4, <3>5 DEF GetRow, RowsHaveClones
  <2>3. CASE \E s \in RpReqs \ {r} : \E q : rpReq' = [rpReq EXCEPT ![s] = q]
    BY <2>0, <2>3 DEF RpType
  <2>4. CASE rpReq' = rpReq \/ CrashAndReconcile
    BY <2>4 DEF CrashAndReconcile, RpIdle
  <2>5. CASE rpReq[r].pc \notin {"link", "reread"}
    BY <2>5
  <2>6. ASSUME NEW s \in RpReqs,
               \/ AddExisting(s) \/ AddViaClone(s) \/ LookupUrl(s) \/ GitClones(s) \/ GitFails(s) \/ GitKilled(s)
               \/ UpsertClone(s) \/ Associate(s) \/ AnswerCreated(s)
               \/ DeleteRepo(s) \/ RemoveForUser(s) \/ ReadRow(s) \/ ReadRemaining(s) \/ PurgeRow(s) \/ PurgeClone(s)
               \/ RpForget(s)
        PROVE  Live(r)
    <3>1. \E q : rpReq' = [rpReq EXCEPT ![s] = q]
      BY <2>6 DEF AddExisting, AddViaClone, LookupUrl, GitClones, GitFails, GitKilled, UpsertClone, Associate, AnswerCreated,
         DeleteRepo, RemoveForUser, ReadRow, ReadRemaining, PurgeRow, PurgeClone, RpForget, RpMove, RpAnswer
    <3>2. s # r => Live(r)
      BY <2>3, <3>1
    <3>3. s = r /\ ~(Associate(r) \/ AnswerCreated(r)) => rpReq[r].pc \notin {"link", "reread"}
      BY <2>6 DEF AddExisting, AddViaClone, LookupUrl, GitClones, GitFails, GitKilled, UpsertClone,
         DeleteRepo, RemoveForUser, ReadRow, ReadRemaining, PurgeRow, PurgeClone, RpForget
    <3> QED BY <2>1, <2>2, <2>5, <3>2, <3>3
  <2> HIDE DEF Live
  <2> QED BY <1>3, <2>4, <2>6 DEF RpNext, ItemStarts, ItemEnds
<1> DEFINE AllLive == \A r \in RpReqs : Live(r)
<1>4. RpInv /\ [RpNext]_rpVars => [AllLive]_rpVars
  BY <1>3
<1> HIDE DEF AllLive
<1>5. RpInv => RowsHaveClones /\ UrlAddedOnce
  BY DEF RpInv
<1>6. RpSpec => [](RowsHaveClones /\ UrlAddedOnce) /\ [][AllLive]_rpVars
  BY <1>1, <1>2, <1>4, <1>5, PTL DEF RpSpec
<1> QED BY <1>6 DEF RepositoriesSafe, AddAnswersLive, AllLive

-----------------------------------------------------------------------------
(***************************************************************************)
(* The dashboard.                                                          *)
(***************************************************************************)
BdStates == {"Pending", "Running", "Paused", "Done", "Stopped", "Error"}
EntryFields == {"id", "owner", "st", "started", "prep", "wt", "pr", "failed", "flow", "at", "log",
                "boot", "total", "desc", "sess"}
CardRowFields ==
  {"owner", "live", "st", "desc", "wt", "pr", "steps", "begun", "ended", "failed", "flow"}

Entry(w) == w = [x \in EntryFields |-> w[x]] /\ w.id \in Nat \ {0} /\ w.st \in BdStates
CardRow(r) == r = [x \in CardRowFields |-> r[x]] /\ r.st \in BdStates

(* The entry and the row of one item.                                      *)
Matches(w, r) == r.live /\ r.st = w.st

BdInv ==
  /\ \E R : bdRows \in Seq(R)
  /\ \A i \in 1..Len(bdRows) : CardRow(bdRows[i])
  /\ OnBoard => /\ Entry(bdItem) /\ bdItem.id = Len(bdRows)
                /\ Matches(bdItem, bdRows[bdItem.id])

(* What DoneBarStable says of a step.                                      *)
BarKept ==
  OnBoard /\ bdItem.st = "Done" /\ bdItem'.id = bdItem.id /\ bdItem'.st = "Done"
    => \/ Progress(bdItem)' = Progress(bdItem)
       \/ \E p \in bdEnding : p.id = bdItem.id /\ RecordRun(p)
       \/ RestartBoard /\ PersistedCount(bdItem.id) = 0

(* The bar of a completed item is the recorded steps of the flow completed *)
(* last, else it follows from the log and the cached length.               *)
SameLog(w, v) == v.log = w.log /\ v.boot = w.boot /\ v.total = w.total

LEMMA BarFromRows ==
  ASSUME OnBoard /\ bdItem.st = "Done" /\ bdItem'.id = bdItem.id /\ bdItem'.st = "Done" =>
           \/ \E p \in bdEnding : p.id = bdItem.id /\ RecordRun(p)
           \/ /\ bdRows'[bdItem.id].steps = bdRows[bdItem.id].steps
              /\ bdRows'[bdItem.id].ended = bdRows[bdItem.id].ended
              /\ RestartBoard \/ (bdTracker' = bdTracker /\ SameLog(bdItem, bdItem'))
  PROVE  BarKept
<1> SUFFICES ASSUME OnBoard, bdItem.st = "Done", bdItem'.id = bdItem.id, bdItem'.st = "Done",
                    bdRows'[bdItem.id].steps = bdRows[bdItem.id].steps,
                    bdRows'[bdItem.id].ended = bdRows[bdItem.id].ended,
                    RestartBoard \/ (bdTracker' = bdTracker /\ SameLog(bdItem, bdItem'))
             PROVE  \/ Progress(bdItem)' = Progress(bdItem)
                    \/ RestartBoard /\ PersistedCount(bdItem.id) = 0
  BY DEF BarKept
<1>1. PersistedCount(bdItem.id)' = PersistedCount(bdItem.id)
  BY DEF PersistedCount
<1>2. CASE PersistedCount(bdItem.id) # 0
  BY <1>1, <1>2 DEF Progress
<1>3. CASE bdTracker' = bdTracker /\ SameLog(bdItem, bdItem')
  <2>1. EstimatedTotal(bdItem)' = EstimatedTotal(bdItem)
    BY <1>3 DEF EstimatedTotal, SameLog, BdTerminal
  <2>2. Percent(bdItem)' = Percent(bdItem)
    BY DEF Percent
  <2> QED BY <1>1, <2>1, <2>2 DEF Progress
<1> QED BY <1>2, <1>3

(* A step that gives the item another entry and its row other columns.     *)
LEMMA ItemMoves ==
  ASSUME BdInv, OnBoard, NEW v, NEW r, bdItem' = v,
         bdRows' = [bdRows EXCEPT ![bdItem.id] = r], Entry(v), CardRow(r), v.id = bdItem.id,
         Matches(v, r),
         bdItem.st = "Done" /\ v.st = "Done" =>
           /\ r.steps = bdRows[bdItem.id].steps /\ r.ended = bdRows[bdItem.id].ended
           /\ RestartBoard \/ (bdTracker' = bdTracker /\ SameLog(bdItem, v))
  PROVE  BdInv' /\ BarKept
<1>1. PICK R : bdRows \in Seq(R)
  BY DEF BdInv
<1>2. Len(bdRows) \in Nat /\ bdItem.id = Len(bdRows) /\ bdItem.id \in 1..Len(bdRows)
  BY <1>1 DEF BdInv, Entry
<1>3. bdRows' \in Seq(R \cup {r}) /\ Len(bdRows') = Len(bdRows) /\ bdRows'[bdItem.id] = r
      /\ \A i \in 1..Len(bdRows) : i # bdItem.id => bdRows'[i] = bdRows[i]
  BY <1>1, <1>2
<1>4. \A i \in 1..Len(bdRows') : CardRow(bdRows'[i])
  BY <1>3 DEF BdInv
<1>5. Entry(bdItem)' /\ bdItem'.id = Len(bdRows') /\ Matches(bdItem', bdRows'[bdItem'.id])
  <2>1. Entry(bdItem')
    OBVIOUS
  <2>2. Entry(bdItem)'
    BY <2>1 DEF Entry
  <2> QED BY <2>2, <1>2, <1>3
<1>6. BdInv'
  <2>1. (\E S : bdRows \in Seq(S))'
    BY <1>3
  <2>2. (\A i \in 1..Len(bdRows) : CardRow(bdRows[i]))'
    BY <1>4 DEF CardRow
  <2>3. Matches(bdItem, bdRows[bdItem.id])'
    BY <1>5 DEF Matches
  <2> QED BY <1>5, <2>1, <2>2, <2>3 DEF BdInv
<1> QED BY <1>3, <1>6, BarFromRows

(* A step that leaves rows, state and log of the item alone.               *)
LEMMA ItemStays ==
  ASSUME BdInv, bdRows' = bdRows, bdTracker' = bdTracker,
         \/ bdItem' = bdItem
         \/ /\ OnBoard /\ Entry(bdItem') /\ bdItem'.id = bdItem.id /\ bdItem'.st = bdItem.st
            /\ SameLog(bdItem, bdItem')
  PROVE  BdInv' /\ BarKept
<1>1. BdInv'
  <2>1. (\E S : bdRows \in Seq(S))'
    BY DEF BdInv
  <2>2. (\A i \in 1..Len(bdRows) : CardRow(bdRows[i]))'
    BY DEF BdInv, CardRow
  <2>3. CASE bdItem' = bdItem
    BY <2>1, <2>2, <2>3 DEF BdInv, OnBoard, Entry, Matches
  <2>4. CASE OnBoard /\ Entry(bdItem') /\ bdItem'.id = bdItem.id /\ bdItem'.st = bdItem.st
    BY <2>1, <2>2, <2>4 DEF BdInv, Entry, Matches
  <2> QED BY <2>3, <2>4
<1>2. bdTracker' = bdTracker /\ SameLog(bdItem, bdItem')
  BY DEF SameLog
<1> QED BY <1>1, <1>2, BarFromRows

(* The item's row, for the steps that write it.                            *)
LEMMA OwnRow ==
  ASSUME BdInv, OnBoard
  PROVE  /\ Entry(bdItem) /\ CardRow(Ours) /\ Matches(bdItem, Ours)
         /\ Ours = bdRows[bdItem.id] /\ bdItem.id \in 1..Len(bdRows)
<1>1. Len(bdRows) \in Nat
  BY DEF BdInv
<1> QED BY <1>1 DEF BdInv, Entry, Ours

LEMMA PreparedStep == ASSUME BdInv, Prepared PROVE BdInv' /\ BarKept
<1>0. OnBoard
  BY DEF Prepared
<1>1. CASE /\ bdItem' = [bdItem EXCEPT !.prep = FALSE, !.wt = TRUE]
           /\ PutRow([Ours EXCEPT !.wt = TRUE])
  <2>1. PICK v : v = [bdItem EXCEPT !.prep = FALSE, !.wt = TRUE]
    OBVIOUS
  <2>2. PICK r : r = [Ours EXCEPT !.wt = TRUE]
    OBVIOUS
  <2>3. /\ v = [x \in EntryFields |-> v[x]] /\ v.id = bdItem.id /\ v.st = bdItem.st
        /\ SameLog(bdItem, v)
    BY <1>0, <2>1, OwnRow DEF Entry, EntryFields, SameLog
  <2>4. /\ r = [x \in CardRowFields |-> r[x]] /\ r.st = Ours.st /\ r.live = Ours.live
        /\ r.steps = Ours.steps /\ r.ended = Ours.ended
    BY <1>0, <2>2, OwnRow DEF CardRow, CardRowFields
  <2>5. Entry(v) /\ CardRow(r) /\ Matches(v, r)
    BY <1>0, <2>3, <2>4, OwnRow DEF Entry, CardRow, Matches
  <2>6. bdItem' = v /\ bdRows' = [bdRows EXCEPT ![bdItem.id] = r]
    BY <1>1, <2>1, <2>2 DEF PutRow
  <2>7. bdTracker' = bdTracker
    BY DEF Prepared, OnlyItem, OnlyItemAndRuns
  <2> QED BY <1>0, <2>7, <2>3, <2>4, <2>5, <2>6, ItemMoves, OwnRow
<1>2. CASE bdItem' = [bdItem EXCEPT !.prep = FALSE] /\ UNCHANGED bdRows
  <2>1. PICK v : v = [bdItem EXCEPT !.prep = FALSE]
    OBVIOUS
  <2>3. /\ v = [x \in EntryFields |-> v[x]] /\ v.id = bdItem.id /\ v.st = bdItem.st
        /\ SameLog(bdItem, v)
    BY <1>0, <2>1, OwnRow DEF Entry, EntryFields, SameLog
  <2>5. Entry(v)
    BY <1>0, <2>3, OwnRow DEF Entry
  <2>6. bdTracker' = bdTracker
    BY DEF Prepared, OnlyItem, OnlyItemAndRuns
  <2> QED BY <1>0, <1>2, <2>1, <2>3, <2>5, <2>6, ItemStays
<1> QED BY <1>1, <1>2 DEF Prepared

LEMMA StartStep ==
  ASSUME BdInv, NEW f, StartFlow(f) PROVE BdInv' /\ BarKept
<1>0. OnBoard
  BY DEF StartFlow
<1>1. PICK written \in BOOLEAN :
        PutRow([Ours EXCEPT !.st = "Running", !.wt = TRUE, !.flow = f, !.failed = FALSE,
                            !.begun = IF written THEN @ \cup {f} ELSE @,
                            !.ended = IF written THEN Without(@, f) ELSE @])
  BY DEF StartFlow
<1>2. PICK v : v = [bdItem EXCEPT !.st = "Running", !.started = TRUE, !.prep = FALSE, !.wt = TRUE,
                                !.failed = FALSE, !.flow = f, !.at = 0, !.boot = 1,
                                !.total = IF FlowLen[f] > 1 THEN FlowLen[f] ELSE 1]
  OBVIOUS
<1>3. PICK b, e : /\ b = IF written THEN Ours.begun \cup {f} ELSE Ours.begun
                  /\ e = IF written THEN Without(Ours.ended, f) ELSE Ours.ended
  OBVIOUS
<1>4. PICK r : r = [Ours EXCEPT !.st = "Running", !.wt = TRUE, !.flow = f, !.failed = FALSE,
                                !.begun = b, !.ended = e]
  OBVIOUS
<1>5. v = [x \in EntryFields |-> v[x]] /\ v.id = bdItem.id /\ v.st = "Running"
  BY <1>0, <1>2, OwnRow DEF Entry, EntryFields
<1>6. r = [x \in CardRowFields |-> r[x]] /\ r.st = "Running" /\ r.live = Ours.live
  BY <1>0, <1>4, OwnRow DEF CardRow, CardRowFields
<1>7. Entry(v) /\ CardRow(r) /\ Matches(v, r)
  BY <1>0, <1>5, <1>6, OwnRow DEF Entry, CardRow, Matches, BdStates
<1>8. bdItem' = v
  BY <1>2 DEF StartFlow
<1>9. bdRows' = [bdRows EXCEPT ![bdItem.id] = r]
  <2>1. r = [Ours EXCEPT !.st = "Running", !.wt = TRUE, !.flow = f, !.failed = FALSE,
                         !.begun = IF written THEN @ \cup {f} ELSE @,
                         !.ended = IF written THEN Without(@, f) ELSE @]
    BY <1>3, <1>4, Zenon
  <2> QED BY <1>1, <2>1, Zenon DEF PutRow
<1> QED BY <1>0, <1>5, <1>7, <1>8, <1>9, ItemMoves

(* Pause, resume and stop write the state, and a resume the length.        *)
LEMMA StateWritten ==
  ASSUME BdInv, OnBoard, NEW st \in BdStates, st # "Done",
         \/ bdItem' = [bdItem EXCEPT !.st = st]
         \/ \E n : bdItem' = [bdItem EXCEPT !.st = st, !.total = n],
         PutRow([Ours EXCEPT !.st = st])
  PROVE  BdInv' /\ BarKept
<1>1. PICK v : v = bdItem'
  OBVIOUS
<1>2. PICK r : r = [Ours EXCEPT !.st = st]
  OBVIOUS
<1>3. v = [x \in EntryFields |-> v[x]] /\ v.id = bdItem.id /\ v.st = st
  <2>1. CASE bdItem' = [bdItem EXCEPT !.st = st]
    BY <1>1, <2>1, OwnRow DEF Entry, EntryFields
  <2>2. CASE \E n : bdItem' = [bdItem EXCEPT !.st = st, !.total = n]
    <3>1. PICK n : bdItem' = [bdItem EXCEPT !.st = st, !.total = n]
      BY <2>2
    <3> QED BY <1>1, <3>1, OwnRow DEF Entry, EntryFields
  <2> QED BY <2>1, <2>2
<1>4. r = [x \in CardRowFields |-> r[x]] /\ r.st = st /\ r.live = Ours.live
  BY <1>2, OwnRow DEF CardRow, CardRowFields
<1>5. Entry(v) /\ CardRow(r)
  BY <1>3, <1>4, OwnRow DEF Entry, CardRow
<1>6. Matches(v, r)
  <2>1. Ours.live
    BY OwnRow DEF Matches
  <2> QED BY <2>1, <1>3, <1>4, OwnRow DEF Matches
<1>7. bdItem' = v /\ bdRows' = [bdRows EXCEPT ![bdItem.id] = r]
  BY <1>1, <1>2 DEF PutRow
<1> QED BY <1>3, <1>5, <1>6, <1>7, ItemMoves

LEMMA StepEndsStep ==
  ASSUME BdInv, NEW ok \in BOOLEAN, BdStepEnds(ok) PROVE BdInv' /\ BarKept
<1>0. OnBoard /\ bdItem.st = "Running"
  BY DEF BdStepEnds
<1>1. PICK st \in {"Running", "Error"} :
        /\ bdItem' = [bdItem EXCEPT !.log = @ + 1, !.at = @ + 1, !.st = st,
                                        !.failed = st = "Error"]
        /\ PutRow([Ours EXCEPT !.steps[bdItem.flow] = @ + 1,
                                  !.st = st, !.failed = st = "Error"])
  BY DEF BdStepEnds
<1>2. PICK b : b = (st = "Error")
  OBVIOUS
<1>3. PICK m : m = [Ours.steps EXCEPT ![bdItem.flow] = @ + 1]
  OBVIOUS
<1>4. PICK v : v = [bdItem EXCEPT !.log = @ + 1, !.at = @ + 1, !.st = st, !.failed = b]
  OBVIOUS
<1>5. PICK r : r = [Ours EXCEPT !.steps = m, !.st = st, !.failed = b]
  OBVIOUS
<1>6. bdItem' = v
  BY <1>1, <1>2, <1>4, Zenon
<1>7. bdRows' = [bdRows EXCEPT ![bdItem.id] = r]
  <2>1. r = [Ours EXCEPT !.steps[bdItem.flow] = @ + 1, !.st = st, !.failed = st = "Error"]
    BY <1>2, <1>3, <1>5, Zenon
  <2> QED BY <1>1, <2>1, Zenon DEF PutRow
<1>8. v = [x \in EntryFields |-> v[x]] /\ v.id = bdItem.id /\ v.st = st
  BY <1>0, <1>4, OwnRow DEF Entry, EntryFields
<1>9. r = [x \in CardRowFields |-> r[x]] /\ r.st = st /\ r.live = Ours.live
  BY <1>0, <1>5, OwnRow DEF CardRow, CardRowFields
<1>10. Entry(v) /\ CardRow(r) /\ Matches(v, r)
  BY <1>0, <1>8, <1>9, OwnRow DEF Entry, CardRow, Matches, BdStates
<1> QED BY <1>0, <1>6, <1>7, <1>8, <1>10, ItemMoves

LEMMA FlowEndsStep == ASSUME BdInv, BdFlowEnds PROVE BdInv' /\ BarKept
<1>0. OnBoard /\ bdItem.st = "Running"
  BY DEF BdFlowEnds
<1>1. PICK pr : /\ bdItem' = [bdItem EXCEPT !.st = "Done", !.pr = pr]
                /\ PutRow([Ours EXCEPT !.st = "Done", !.pr = pr])
  BY DEF BdFlowEnds
<1>2. PICK v : v = [bdItem EXCEPT !.st = "Done", !.pr = pr]
  OBVIOUS
<1>3. PICK r : r = [Ours EXCEPT !.st = "Done", !.pr = pr]
  OBVIOUS
<1>4. v = [x \in EntryFields |-> v[x]] /\ v.id = bdItem.id /\ v.st = "Done"
  BY <1>0, <1>2, OwnRow DEF Entry, EntryFields
<1>5. r = [x \in CardRowFields |-> r[x]] /\ r.st = "Done" /\ r.live = Ours.live
  BY <1>0, <1>3, OwnRow DEF CardRow, CardRowFields
<1>6. Entry(v) /\ CardRow(r) /\ Matches(v, r)
  BY <1>0, <1>4, <1>5, OwnRow DEF Entry, CardRow, Matches, BdStates
<1>7. bdItem' = v /\ bdRows' = [bdRows EXCEPT ![bdItem.id] = r]
  BY <1>1, <1>2, <1>3 DEF PutRow
<1> QED BY <1>0, <1>4, <1>6, <1>7, ItemMoves

(* The record of a run's end touches the row of that run alone.            *)
LEMMA RecordStep ==
  ASSUME BdInv, NEW p \in bdEnding, RecordRun(p) PROVE BdInv' /\ BarKept
<1>1. bdItem' = bdItem /\ bdTracker' = bdTracker
  BY DEF RecordRun, OnlyItemAndRuns
<1>2. CASE bdRows' = bdRows
  BY <1>1, <1>2, ItemStays
<1>3. CASE bdRows' = [bdRows EXCEPT ![p.id] = Recorded(@, p)]
  <2>1. PICK R : bdRows \in Seq(R)
    BY DEF BdInv
  <2>2. PICK r : r = Recorded(bdRows[p.id], p)
    OBVIOUS
  <2>3. bdRows' = [bdRows EXCEPT ![p.id] = r]
    BY <1>3, <2>2, Zenon
  <2>4. bdRows' \in Seq(R \cup {r}) /\ Len(bdRows') = Len(bdRows)
        /\ \A i \in 1..Len(bdRows) : bdRows'[i] = IF i = p.id THEN r ELSE bdRows[i]
    <3>1. CASE p.id \in 1..Len(bdRows)
      BY <2>1, <2>3, <3>1
    <3>2. CASE p.id \notin 1..Len(bdRows)
      <4>1. bdRows' = bdRows
        BY <2>1, <2>3, <3>2
      <4> QED BY <2>1, <3>2, <4>1
    <3> QED BY <3>1, <3>2
  <2>5. CardRow(bdRows[p.id]) => CardRow(r) /\ r.live = bdRows[p.id].live /\ r.st = bdRows[p.id].st
    <3>1. PICK o : o = bdRows[p.id]
      OBVIOUS
    <3>2. CASE p.flow \notin o.begun
      BY <2>2, <3>1, <3>2 DEF Recorded
    <3>3. CASE p.flow \in o.begun
      <4>1. PICK e : e = IF p.ok THEN Append(Without(o.ended, p.flow), p.flow) ELSE Without(o.ended, p.flow)
        OBVIOUS
      <4>2. r = [o EXCEPT !.ended = e]
        BY <2>2, <3>1, <3>3, <4>1, Zenon DEF Recorded
      <4> QED BY <3>1, <4>2 DEF CardRow, CardRowFields
    <3> QED BY <3>2, <3>3
  <2>6. \A i \in 1..Len(bdRows) : /\ CardRow(bdRows'[i]) /\ bdRows'[i].live = bdRows[i].live
                                  /\ bdRows'[i].st = bdRows[i].st
    BY <2>4, <2>5 DEF BdInv
  <2>7. BdInv'
    <3>1. (\E S : bdRows \in Seq(S))' /\ (\A i \in 1..Len(bdRows) : CardRow(bdRows[i]))'
      BY <2>4, <2>6 DEF CardRow
    <3>2. OnBoard => bdItem.id \in 1..Len(bdRows)
      BY OwnRow
    <3> QED BY <1>1, <2>4, <2>6, <3>1, <3>2 DEF BdInv, OnBoard, Entry, Matches
  <2>8. OnBoard /\ p.id # bdItem.id => bdRows'[bdItem.id] = bdRows[bdItem.id]
    BY <2>4, OwnRow
  <2>9. BarKept
    BY <1>1, <2>8, BarFromRows DEF SameLog
  <2> QED BY <2>7, <2>9
<1> QED BY <1>2, <1>3 DEF RecordRun

LEMMA AddStep ==
  ASSUME BdInv, NEW u \in BdUsers, AddToBoard(u) PROVE BdInv' /\ BarKept
<1>1. PICK R : bdRows \in Seq(R)
  BY DEF BdInv
<1>2. PICK r : r = NewDbRow(u, bdTicket)
  OBVIOUS
<1>3. PICK n : n = Len(bdRows) + 1
  OBVIOUS
<1>4. PICK v : v = NewEntry(n, u, bdTicket)
  OBVIOUS
<1>5. bdItem' = v /\ bdRows' = Append(bdRows, r)
  BY <1>2, <1>3, <1>4 DEF AddToBoard
<1>6. n \in Nat \ {0} /\ n = Len(bdRows) + 1 /\ Len(bdRows) \in Nat
  BY <1>1, <1>3
<1>7. Entry(v) /\ v.id = n /\ v.st = "Pending"
  BY <1>4, <1>6 DEF Entry, EntryFields, NewEntry, BdStates
<1>8. CardRow(r) /\ r.st = "Pending" /\ r.live
  BY <1>2 DEF CardRow, CardRowFields, NewDbRow, BdStates
<1>9. Matches(v, r)
  BY <1>7, <1>8 DEF Matches
<1>10. bdRows' \in Seq(R \cup {r}) /\ Len(bdRows') = n /\ bdRows'[n] = r
       /\ \A i \in 1..Len(bdRows) : bdRows'[i] = bdRows[i]
  BY <1>1, <1>5, <1>6
<1>11. \A i \in 1..n : CardRow(bdRows'[i])
  <2>1. \A i \in 1..n : i = n \/ i \in 1..Len(bdRows)
    BY <1>6
  <2> QED BY <2>1, <1>8, <1>10 DEF BdInv
<1>12. BdInv'
  <2>1. (\E S : bdRows \in Seq(S))'
    BY <1>10
  <2>2. (\A i \in 1..Len(bdRows) : CardRow(bdRows[i]))'
    BY <1>10, <1>11 DEF CardRow
  <2>3. Matches(bdItem, bdRows[bdItem.id])'
    BY <1>5, <1>7, <1>9, <1>10 DEF Matches
  <2>4. Entry(bdItem)' /\ (bdItem.id = Len(bdRows))'
    BY <1>5, <1>7, <1>10 DEF Entry
  <2> QED BY <2>1, <2>2, <2>3, <2>4 DEF BdInv
<1> QED BY <1>5, <1>7, <1>12 DEF BarKept

LEMMA RemoveStep == ASSUME BdInv, RemoveItem PROVE BdInv' /\ BarKept
<1>0. OnBoard
  BY DEF RemoveItem
<1>1. PICK r : r = [Ours EXCEPT !.live = FALSE]
  OBVIOUS
<1>2. bdItem' = NoCard /\ bdRows' = [bdRows EXCEPT ![bdItem.id] = r]
  BY <1>1 DEF RemoveItem, PutRow
<1>3. r = [x \in CardRowFields |-> r[x]] /\ r.st = Ours.st
  BY <1>0, <1>1, OwnRow DEF CardRow, CardRowFields
<1>4. CardRow(r)
  BY <1>0, <1>3, OwnRow DEF CardRow
<1>5. PICK R : bdRows \in Seq(R)
  BY DEF BdInv
<1>6. bdRows' \in Seq(R \cup {r}) /\ Len(bdRows') = Len(bdRows)
      /\ \A i \in 1..Len(bdRows) : bdRows'[i] \in {bdRows[i], r}
  BY <1>0, <1>2, <1>5, OwnRow
<1>7. (\A i \in 1..Len(bdRows) : CardRow(bdRows[i]))'
  <2>1. \A i \in 1..Len(bdRows) : CardRow(bdRows'[i])
    BY <1>4, <1>6 DEF BdInv
  <2> QED BY <1>6, <2>1 DEF CardRow
<1>8. (\E S : bdRows \in Seq(S))'
  BY <1>6
<1>9. ~OnBoard' /\ bdItem'.id # bdItem.id
  BY <1>0, <1>2 DEF OnBoard, NoCard
<1> QED BY <1>7, <1>8, <1>9 DEF BdInv, BarKept

(* The newest live row is that of the item on the board.                   *)
LEMMA NewestIsOwn ==
  ASSUME BdInv, OnBoard PROVE NewestRow = bdItem.id
<1> DEFINE live == {i \in DOMAIN bdRows : bdRows[i].live}
<1>1. DOMAIN bdRows = 1..Len(bdRows) /\ Len(bdRows) \in Nat
  BY DEF BdInv
<1>2. bdItem.id \in live /\ bdItem.id = Len(bdRows)
  BY <1>1, OwnRow DEF Matches, BdInv
<1>3. \A j \in live : j \in Nat /\ j <= bdItem.id
  BY <1>1, <1>2
<1>4. NewestRow = CHOOSE i \in live : \A j \in live : j <= i
  BY <1>2 DEF NewestRow
<1> HIDE DEF live
<1>5. \A i \in live : (\A j \in live : j <= i) => i = bdItem.id
  BY <1>2, <1>3
<1> QED BY <1>2, <1>3, <1>4, <1>5

LEMMA RestartStep == ASSUME BdInv, RestartBoard PROVE BdInv' /\ BarKept
<1>0. OnBoard /\ NewestRow = bdItem.id
  BY NewestIsOwn DEF RestartBoard
<1>1. PICK v : v = FromRow(bdItem.id)
  OBVIOUS
<1>2. PICK r : r = [Ours EXCEPT !.st = v.st]
  OBVIOUS
<1>3. bdItem' = v /\ bdRows' = [bdRows EXCEPT ![bdItem.id] = r]
  BY <1>0, <1>1, <1>2 DEF RestartBoard, PutRow
<1>4. PICK o : o = Ours
  OBVIOUS
<1>5. o = bdRows[bdItem.id] /\ CardRow(o) /\ Matches(bdItem, o) /\ bdItem.id \in Nat \ {0}
  BY <1>0, <1>4, OwnRow DEF Entry
<1>6. PICK n : n = IF o.st = "Running" /\ o.wt THEN (IF FlowLen[o.flow] > 1 THEN FlowLen[o.flow] ELSE 1) ELSE 0
  OBVIOUS
<1>7. PICK st : st = IF o.st = "Running" /\ ~o.wt THEN "Error" ELSE o.st
  OBVIOUS
<1>8. v = [NewEntry(bdItem.id, o.owner, o.desc) EXCEPT
            !.st = st, !.prep = FALSE, !.wt = o.wt, !.pr = o.pr, !.failed = o.failed,
            !.flow = o.flow, !.total = n, !.sess = bdSnap.sess]
  BY <1>1, <1>5, <1>6, <1>7 DEF FromRow
<1>9. PICK e : e = NewEntry(bdItem.id, o.owner, o.desc)
  OBVIOUS
<1>10. Entry(e) /\ e.id = bdItem.id
  BY <1>5, <1>9 DEF Entry, EntryFields, NewEntry, BdStates
<1>11. v = [x \in EntryFields |-> v[x]] /\ v.st = st /\ v.id = bdItem.id
  BY <1>8, <1>9, <1>10 DEF Entry, EntryFields
<1>12. st \in BdStates /\ (st = o.st \/ st = "Error")
  BY <1>5, <1>7 DEF CardRow, BdStates
<1>13. /\ r = [x \in CardRowFields |-> r[x]] /\ r.st = st
       /\ r.steps = o.steps /\ r.ended = o.ended /\ r.live = o.live
  BY <1>2, <1>4, <1>5, <1>11 DEF CardRow, CardRowFields
<1>14. Entry(v) /\ CardRow(r) /\ Matches(v, r)
  BY <1>5, <1>11, <1>12, <1>13 DEF Entry, CardRow, Matches
<1> QED BY <1>0, <1>3, <1>5, <1>11, <1>13, <1>14, ItemMoves

(* The other steps leave the board alone or write one field of the entry.  *)
LEMMA EditStep ==
  ASSUME BdInv, bdRows' = bdRows, bdTracker' = bdTracker,
         \/ bdItem' = bdItem
         \/ OnBoard /\ \E x : bdItem' \in {[bdItem EXCEPT !.sess = x], [bdItem EXCEPT !.desc = x]}
  PROVE  BdInv' /\ BarKept
<1>1. CASE bdItem' = bdItem
  BY <1>1, ItemStays
<1>2. CASE OnBoard /\ \E x : bdItem' \in {[bdItem EXCEPT !.sess = x], [bdItem EXCEPT !.desc = x]}
  <2>1. PICK x : bdItem' \in {[bdItem EXCEPT !.sess = x], [bdItem EXCEPT !.desc = x]}
    BY <1>2
  <2>2. PICK v : v = bdItem'
    OBVIOUS
  <2>3. v = [y \in EntryFields |-> v[y]] /\ v.id = bdItem.id /\ v.st = bdItem.st /\ SameLog(bdItem, v)
    <3>1. CASE bdItem' = [bdItem EXCEPT !.sess = x]
      BY <1>2, <2>2, <3>1, OwnRow DEF Entry, EntryFields, SameLog
    <3>2. CASE bdItem' = [bdItem EXCEPT !.desc = x]
      BY <1>2, <2>2, <3>2, OwnRow DEF Entry, EntryFields, SameLog
    <3> QED BY <2>1, <3>1, <3>2
  <2>4. Entry(v)
    BY <1>2, <2>3, OwnRow DEF Entry
  <2> QED BY <1>2, <2>2, <2>3, <2>4, ItemStays
<1> QED BY <1>1, <1>2

LEMMA BdStep ==
  ASSUME BdInv, [BdNext]_bdVars PROVE BdInv' /\ BarKept
<1>1. CASE UNCHANGED bdVars \/ SyncSnapshot
           \/ \E u \in BdUsers : ToggleRepo(u) \/ AskText(u) \/ ReadResume(u) \/ SessionFails(u)
                                 \/ PatchTicket(u)
  <2>1. bdItem' = bdItem /\ bdRows' = bdRows /\ bdTracker' = bdTracker
    BY <1>1 DEF bdVars, SyncSnapshot, ToggleRepo, AskText, ReadResume, SessionFails, PatchTicket
  <2> QED BY <2>1, EditStep
<1>2. ASSUME NEW u \in BdUsers, SessionAnswers(u) PROVE BdInv' /\ BarKept
  BY <1>2, EditStep DEF SessionAnswers
<1>3. ASSUME NEW u \in BdUsers, StoreText(u) PROVE BdInv' /\ BarKept
  BY <1>3, EditStep DEF StoreText
<1>4. CASE ResumeFailed
  BY <1>4, StartStep DEF ResumeFailed
<1>5. CASE PauseItem \/ StopItem \/ ResumeItem
  <2>1. CASE PauseItem
    BY <2>1, StateWritten DEF PauseItem, BdStates
  <2>2. CASE StopItem
    BY <2>2, StateWritten DEF StopItem, BdStates
  <2>3. CASE ResumeItem
    <3>1. OnBoard /\ bdItem.st = "Paused" /\ PutRow([Ours EXCEPT !.st = "Running"])
          /\ \E n : bdItem' = [bdItem EXCEPT !.st = "Running", !.total = n]
      BY <2>3 DEF ResumeItem
    <3> QED BY <3>1, StateWritten DEF BdStates
  <2> QED BY <1>5, <2>1, <2>2, <2>3
<1>6. ASSUME NEW p \in bdEnding, CleanedUp(p) \/ RecordRun(p) PROVE BdInv' /\ BarKept
  <2>1. CleanedUp(p) => bdItem' = bdItem /\ bdRows' = bdRows /\ bdTracker' = bdTracker
    BY DEF CleanedUp, OnlyItemAndRuns
  <2> QED BY <1>6, <2>1, RecordStep, EditStep
<1>7. ASSUME NEW f \in BdFlows, StartFlow(f) PROVE BdInv' /\ BarKept
  BY <1>7, StartStep
<1>8. ASSUME NEW ok \in BOOLEAN, BdStepEnds(ok) PROVE BdInv' /\ BarKept
  BY <1>8, StepEndsStep
<1>9. ASSUME NEW u \in BdUsers, AddToBoard(u) PROVE BdInv' /\ BarKept
  BY <1>9, AddStep
<1> QED BY <1>1, <1>2, <1>3, <1>4, <1>5, <1>6, <1>7, <1>8, <1>9, PreparedStep, FlowEndsStep,
       RemoveStep, RestartStep DEF BdNext

(* A card is counted under the one name of its state.                      *)
LEMMA CountedOnce ==
  ASSUME BdInv PROVE BoardIsOwn
<1> SUFFICES ASSUME NEW u \in BdUsers
             PROVE  /\ \A c \in ListOf(u) : c.owner = u
                    /\ Cardinality({k \in DOMAIN CountsOf(u) : CountsOf(u)[k] = 1})
                         = Cardinality(ListOf(u))
  BY DEF BoardIsOwn
<1> DEFINE names == {"completed", "errors", "paused", "pending", "running"}
           name == CASE bdItem.st = "Done" -> "completed"
                     [] bdItem.st \in {"Error", "Stopped"} -> "errors"
                     [] bdItem.st = "Paused" -> "paused"
                     [] bdItem.st = "Pending" -> "pending"
                     [] OTHER -> "running"
           counted == {k \in DOMAIN CountsOf(u) : CountsOf(u)[k] = 1}
<1>1. CountsOf(u) = [k \in names |-> IF BdVisible(u) /\ k = name THEN 1 ELSE 0]
  BY DEF CountsOf
<1>2. CASE BdVisible(u)
  <2>1. bdItem.st \in BdStates /\ bdItem.owner = u
    BY <1>2 DEF BdVisible, BdInv, Entry
  <2>2. name \in names
    BY <2>1 DEF BdStates
  <2>3. ListOf(u) = {Card(u)} /\ Card(u).owner = u
    BY <1>2, <2>1 DEF ListOf, Card
  <2> HIDE DEF name
  <2>4. counted = {name}
    BY <1>1, <1>2, <2>2
  <2>5. Cardinality(counted) = 1 /\ Cardinality({Card(u)}) = 1
    BY <2>4, FS_Singleton
  <2> QED BY <2>3, <2>5
<1>3. CASE ~BdVisible(u)
  <2>1. ListOf(u) = {}
    BY <1>3 DEF ListOf
  <2> HIDE DEF name
  <2>2. counted = {}
    BY <1>1, <1>3
  <2> QED BY <2>1, <2>2
<1> QED BY <1>2, <1>3

(* For every set of users, flows and trackers: the cards and counts a user *)
(* gets are the user's own, and the bar of a completed item changes only   *)
(* when the end of one of its runs is recorded, or is lost in a restart    *)
(* before any was (dashboard cards and progress_fields).                   *)
THEOREM BoardIsSafe == BdSpec => BoardSafe
<1>1. BdInit => BdInv
  <2> SUFFICES ASSUME BdInit PROVE BdInv
    OBVIOUS
  <2>1. bdRows = <<>> /\ bdRows \in Seq({}) /\ Len(bdRows) = 0
    BY DEF BdInit
  <2>2. ~OnBoard
    BY DEF BdInit, OnBoard, NoCard
  <2> QED BY <2>1, <2>2 DEF BdInv
<1>2. BdInv /\ [BdNext]_bdVars => BdInv'
  BY BdStep
<1>3. BdInv /\ [BdNext]_bdVars =>
        [OnBoard /\ bdItem.st = "Done" /\ bdItem'.id = bdItem.id /\ bdItem'.st = "Done"
           => \/ Progress(bdItem)' = Progress(bdItem)
              \/ \E p \in bdEnding : p.id = bdItem.id /\ RecordRun(p)
              \/ RestartBoard /\ PersistedCount(bdItem.id) = 0]_bdVars
  BY BdStep DEF BarKept
<1>4. BdInv => BoardIsOwn
  BY CountedOnce
<1> QED BY <1>1, <1>2, <1>3, <1>4, PTL DEF BdSpec, BoardSafe, DoneBarStable

-----------------------------------------------------------------------------
(***************************************************************************)
(* The import of the SQLite file.                                          *)
(***************************************************************************)
Sites == {"local", "remote"}
DbRow == [t : DbTables, k : DbUsers, o : Sites, live : BOOLEAN]
Opening == {"connect", "open", "migrate", "migrate-local", "copy", "expire", "commit", "seed"}

DbStore == [exists : BOOLEAN, schema : Nat, dirty : BOOLEAN, rows : SUBSET DbRow, marker : BOOLEAN]

DbShape ==
  /\ dbStore \in [Sites -> DbStore]
  /\ dbTx \in SUBSET DbRow
  /\ dbPc \in {"down", "up"} \cup Opening
  /\ dbTarget \in Sites \cup {"none"}
  /\ dbAt \in 1..4

(* Every row has the rows it refers to.                                    *)
Sound(rows) == \A row \in rows : ParentsIn(row, rows)

(* While the tables are copied the target has no marker yet, and what was  *)
(* copied before is in the transaction, as it is in the file.              *)
Copying ==
  /\ dbPc \in {"copy", "expire", "commit"} => ~dbStore[dbTarget].marker
  /\ dbPc = "copy" =>
       \A row \in dbStore["local"].rows : \A j \in 1..4 :
          j < dbAt /\ row.t = CopyOrder[j] => row \in dbTx
  /\ dbPc = "commit" => \A row \in dbTx : row.live = FALSE

(* The copy begins with the first table.                                   *)
AtStart == dbPc # "copy" => dbAt = 1

DbInv ==
  /\ DbShape /\ AtStart
  /\ dbPc \in Opening => dbTarget \in Sites
  /\ Sound(dbStore["local"].rows) /\ Sound(dbStore["remote"].rows) /\ Sound(dbTx)
  /\ Copying
  /\ ImportAllOrNothing /\ CutoverExpires /\ ImportOrderSound

LEMMA CopyOrderIs ==
  /\ Len(CopyOrder) = 4
  /\ CopyOrder[1] = "users" /\ CopyOrder[2] = "repositories"
  /\ CopyOrder[3] = "user_repositories" /\ CopyOrder[4] = "sessions"
BY DEF CopyOrder

(* The last two tables refer to the first two only.                        *)
LEMMA ParentsAreCopied ==
  ASSUME DbInv, dbPc = "copy", NEW i \in 1..4, dbAt = i,
         NEW row \in dbStore["local"].rows, row.t = CopyOrder[i]
  PROVE  ParentsIn(row, dbTx)
<1>1. ParentsIn(row, dbStore["local"].rows)
  BY DEF DbInv, Sound
<1>2. \A r \in dbStore["local"].rows : \A j \in 1..4 :
          j < i /\ r.t = CopyOrder[j] => r \in dbTx
  BY DEF DbInv, Copying
<1>3. CASE i \in {1, 2}
  <2>1. row.t \in {"users", "repositories"}
    BY <1>3, CopyOrderIs
  <2> QED BY <2>1 DEF ParentsIn
<1>4. CASE i \in {3, 4}
  <2>1. \E u \in dbStore["local"].rows : u.t = "users" /\ u.k = row.k
    BY <1>1, <1>4, CopyOrderIs DEF ParentsIn
  <2>2. \E u \in dbTx : u.t = "users" /\ u.k = row.k
    BY <2>1, <1>2, <1>4, CopyOrderIs
  <2>3. row.t = "user_repositories" => \E r \in dbTx : r.t = "repositories" /\ r.k = row.k
    <3> SUFFICES ASSUME row.t = "user_repositories"
                 PROVE  \E r \in dbTx : r.t = "repositories" /\ r.k = row.k
      OBVIOUS
    <3>1. PICK r \in dbStore["local"].rows : r.t = "repositories" /\ r.k = row.k
      BY <1>1 DEF ParentsIn
    <3> QED BY <3>1, <1>2, <1>4, CopyOrderIs
  <2> QED BY <2>2, <2>3 DEF ParentsIn
<1> QED BY <1>3, <1>4

LEMMA ParentsStay ==
  ASSUME NEW R, NEW S, R \subseteq S, NEW row, ParentsIn(row, R)
  PROVE  ParentsIn(row, S)
BY DEF ParentsIn

(* Sessions are expired and nothing else.                                  *)
LEMMA ExpiredRows ==
  ASSUME NEW R \in SUBSET DbRow, Sound(R)
  PROVE  /\ Expired(R) \in SUBSET DbRow /\ Sound(Expired(R))
         /\ \A row \in Expired(R) : row.live = FALSE
<1>1. ASSUME NEW row \in DbRow
      PROVE  LET e == [row EXCEPT !.live = FALSE]
             IN e \in DbRow /\ e.t = row.t /\ e.k = row.k /\ e.live = FALSE
  BY DEF DbRow
<1>2. \A e \in Expired(R) : \E row \in R : e = [row EXCEPT !.live = FALSE]
  BY DEF Expired
<1>3. \A row \in R : [row EXCEPT !.live = FALSE] \in Expired(R)
  BY DEF Expired
<1>4. ASSUME NEW e \in Expired(R) PROVE e \in DbRow /\ e.live = FALSE
  <2>1. PICK row \in R : e = [row EXCEPT !.live = FALSE]
    BY <1>2
  <2> QED BY <2>1, <1>1
<1>5. ASSUME NEW e \in Expired(R) PROVE ParentsIn(e, Expired(R))
  <2>1. PICK row \in R : e = [row EXCEPT !.live = FALSE]
    BY <1>2
  <2>2. ParentsIn(row, R) /\ e.t = row.t /\ e.k = row.k
    BY <2>1, <1>1 DEF Sound
  <2>3. \A r \in R : \E f \in Expired(R) : f.t = r.t /\ f.k = r.k
    BY <1>1, <1>3
  <2> QED BY <2>2, <2>3 DEF ParentsIn
<1> QED BY <1>4, <1>5 DEF Sound

LEMMA DbStarts == DbInit => DbInv
<1> SUFFICES ASSUME DbInit PROVE DbInv
  OBVIOUS
<1>1. DbShape
  BY DEF DbInit, DbShape, DbStore, EmptyStore, Sites, Opening
<1>2. \A s \in Sites : dbStore[s].rows = {}
  BY DEF DbInit, EmptyStore, Sites
<1> QED BY <1>1, <1>2 DEF DbInit, DbInv, AtStart, Sound, Copying, Opening, Sites,
           ImportAllOrNothing, CutoverExpires, ImportOrderSound

(* A step that leaves the rows and markers of the stores alone.            *)
RowsKept == \A s \in Sites : dbStore'[s].rows = dbStore[s].rows /\ dbStore'[s].marker = dbStore[s].marker

LEMMA RowsKeptSound ==
  ASSUME DbInv, RowsKept
  PROVE  /\ Sound(dbStore["local"].rows)' /\ Sound(dbStore["remote"].rows)'
         /\ ImportAllOrNothing' /\ CutoverExpires'
<1>1. /\ dbStore'["local"].rows = dbStore["local"].rows
      /\ dbStore'["remote"].rows = dbStore["remote"].rows
      /\ dbStore'["remote"].marker = dbStore["remote"].marker
  BY DEF RowsKept, Sites
<1> QED BY <1>1 DEF DbInv, Sound, ParentsIn, ImportAllOrNothing, CutoverExpires

LEMMA FirstTable == 1 \in 1..4
OBVIOUS

(* A start that is given up serves nothing.                                *)
LEMMA GivenUp ==
  ASSUME DbInv, NEW c, c # "foreign key", GiveUp(c)
  PROVE  DbInv' /\ dbStore' = dbStore
<1>1. /\ dbStore' = dbStore /\ dbPc' = "up" /\ dbTarget' = "none" /\ dbTx' = {}
      /\ dbAt' = 1 /\ dbCause' = c
  BY DEF GiveUp, Up
<1>2. RowsKept
  BY <1>1 DEF RowsKept
<1>4. DbShape'
  BY <1>1, FirstTable, Zenon DEF DbInv, DbShape, Opening
<1> QED BY <1>1, <1>2, <1>4, RowsKeptSound DEF DbInv, AtStart, Copying, Opening, Sound, ImportOrderSound

(* Changes of one store.                                                   *)
WithRows(st, s, R) == [st EXCEPT ![s].rows = R]
WithImport(st, s, R) == [st EXCEPT ![s].rows = R, ![s].marker = TRUE]


LEMMA StoreWritten ==
  ASSUME NEW st \in [Sites -> DbStore], NEW s \in Sites, NEW R \in SUBSET DbRow
  PROVE  LET new == WithRows(st, s, R)
         IN /\ new \in [Sites -> DbStore]
            /\ new[s].rows = R
            /\ \A x \in Sites : new[x].marker = st[x].marker /\ (x # s => new[x] = st[x])
BY DEF DbStore, WithRows

LEMMA StoreMarked ==
  ASSUME NEW st \in [Sites -> DbStore], NEW s \in Sites, NEW R \in SUBSET DbRow
  PROVE  /\ WithImport(st, s, R) \in [Sites -> DbStore]
         /\ WithImport(st, s, R)[s].rows = R /\ WithImport(st, s, R)[s].marker
         /\ \A x \in Sites : x # s => WithImport(st, s, R)[x] = st[x]
BY DEF DbStore, WithImport

LEMMA StoreOpened ==
  ASSUME NEW st \in [Sites -> DbStore], NEW s \in Sites
  PROVE  LET new == [st EXCEPT ![s].exists = TRUE]
         IN /\ new \in [Sites -> DbStore]
            /\ \A x \in Sites : new[x].rows = st[x].rows /\ new[x].marker = st[x].marker
BY DEF DbStore

LEMMA StoreMigrated ==
  ASSUME NEW st \in [Sites -> DbStore], NEW s \in Sites
  PROVE  LET new == [st EXCEPT ![s].schema = @ + 1]
         IN /\ new \in [Sites -> DbStore]
            /\ \A x \in Sites : new[x].rows = st[x].rows /\ new[x].marker = st[x].marker
BY DEF DbStore

LEMMA StoreDirty ==
  ASSUME NEW st \in [Sites -> DbStore], NEW s \in Sites
  PROVE  LET new == [st EXCEPT ![s].dirty = TRUE]
         IN /\ new \in [Sites -> DbStore]
            /\ \A x \in Sites : new[x].rows = st[x].rows /\ new[x].marker = st[x].marker
BY DEF DbStore

(* Steps that change no row and no marker, and stay out of the import.     *)
LEMMA OutsideImport ==
  ASSUME DbInv, DbShape', RowsKept, dbTx' \in {dbTx, {}}, dbCause' \in {dbCause, "none"},
         dbPc' \in Opening => dbTarget' \in Sites, dbPc' \notin {"copy", "expire", "commit"},
         dbAt' = 1
  PROVE  DbInv'
<1>1. Sound(dbTx)' /\ ImportOrderSound'
  BY DEF DbInv, Sound, ParentsIn, ImportOrderSound
<1>2. Copying'
  BY DEF Copying
<1> QED BY <1>1, <1>2, RowsKeptSound DEF DbInv, AtStart

LEMMA CopyTableStep ==
  ASSUME DbInv, NEW i \in 1..Len(CopyOrder), CopyTable(i)
  PROVE  DbInv' /\ dbStore' = dbStore
<1> DEFINE rows == {row \in dbStore["local"].rows : row.t = CopyOrder[i]}
<1>0. i \in 1..4 /\ dbPc = "copy" /\ dbAt = i
  BY CopyOrderIs DEF CopyTable
<1>1. \A row \in rows : ParentsIn(row, dbTx \cup rows)
  <2> SUFFICES ASSUME NEW row \in rows PROVE ParentsIn(row, dbTx \cup rows)
    OBVIOUS
  <2>1. ParentsIn(row, dbTx)
    BY <1>0, ParentsAreCopied
  <2> QED BY <2>1, ParentsStay
<1>2. CASE \E c \in {"source", "duplicate key"} : GiveUp(c)
  <2>1. PICK c \in {"source", "duplicate key"} : GiveUp(c)
    BY <1>2
  <2>2. c # "foreign key"
    OBVIOUS
  <2> QED BY <2>1, <2>2, GivenUp
<1>3. CASE /\ Copied(dbTx \cup rows)
           /\ IF i < Len(CopyOrder) THEN dbAt' = i + 1 /\ UNCHANGED dbPc
              ELSE dbPc' = "expire" /\ dbAt' = 1
           /\ UNCHANGED <<dbTarget, dbCause>>
  <2>1. dbTx' = dbTx \cup rows /\ dbStore' = dbStore /\ dbTarget' = dbTarget /\ dbCause' = dbCause
    BY <1>3 DEF Copied
  <2>2. (dbPc' = "copy" /\ dbAt' = i + 1 /\ dbAt' \in 1..4) \/ (dbPc' = "expire" /\ dbAt' = 1)
    BY <1>0, <1>3, CopyOrderIs
  <2>3. rows \subseteq DbRow /\ dbTarget \in Sites
    <3>1. dbStore["local"] \in DbStore
      BY DEF DbInv, DbShape, Sites
    <3> QED BY <3>1, <1>0 DEF DbStore, DbInv, Opening
  <2>4. DbShape'
    <3>1. dbTx' \in SUBSET DbRow
      BY <2>1, <2>3 DEF DbInv, DbShape
    <3>2. dbAt' \in 1..4
      BY <2>2, FirstTable
    <3>3. dbPc' \in Opening
      BY <2>2 DEF Opening
    <3> QED BY <3>1, <3>2, <3>3, <2>1, Zenon DEF DbInv, DbShape
  <2>5. Sound(dbTx)'
    <3>1. \A row \in dbTx : ParentsIn(row, dbTx \cup rows)
      <4> SUFFICES ASSUME NEW row \in dbTx PROVE ParentsIn(row, dbTx \cup rows)
        OBVIOUS
      <4>1. ParentsIn(row, dbTx)
        BY DEF DbInv, Sound
      <4> QED BY <4>1, ParentsStay
    <3>2. \A row \in dbTx \cup rows : ParentsIn(row, dbTx \cup rows)
      BY <3>1, <1>1
    <3> HIDE DEF rows
    <3>3. Sound(dbTx \cup rows)
      BY <3>2 DEF Sound
    <3>4. PICK T : T = dbTx \cup rows
      OBVIOUS
    <3>5. dbTx' = T /\ Sound(T)
      BY <2>1, <3>3, <3>4
    <3> QED BY <3>5 DEF Sound
  <2>6. Copying'
    <3>1. ~dbStore[dbTarget].marker
      BY <1>0 DEF DbInv, Copying
    <3>2. ASSUME dbPc' = "copy", NEW row \in dbStore["local"].rows, NEW j \in 1..4, j < i + 1,
                 row.t = CopyOrder[j]
          PROVE  row \in dbTx \cup rows
      <4>1. CASE j = i
        BY <4>1, <3>2
      <4>2. CASE j # i
        <5>1. j < i
          BY <4>2, <3>2, <1>0
        <5> QED BY <5>1, <3>2, <1>0 DEF DbInv, Copying
      <4> QED BY <4>1, <4>2
    <3>3. dbPc' # "commit"
      BY <2>2
    <3> HIDE DEF rows
    <3> QED BY <2>1, <2>2, <3>1, <3>2, <3>3 DEF Copying
  <2>7. RowsKept
    BY <2>1 DEF RowsKept
  <2>8. AtStart'
    BY <2>2 DEF AtStart
  <2> QED BY <2>1, <2>3, <2>4, <2>5, <2>6, <2>7, <2>8, RowsKeptSound DEF DbInv, ImportOrderSound
<1> QED BY <1>1, <1>2, <1>3 DEF CopyTable

(* What DeletedStayDeleted says of a step.                                 *)
NoneReturns ==
  dbStore["remote"].marker =>
    \A row \in dbStore'["remote"].rows : row.o = "local" => row \in dbStore["remote"].rows

LEMMA RowsKeptNoneReturns == ASSUME RowsKept PROVE NoneReturns
BY DEF RowsKept, NoneReturns, Sites

(* The server writes rows of its own into the store it serves.             *)
LEMMA Served ==
  ASSUME DbInv, NEW R \in SUBSET DbRow, Sound(R), dbTarget \in Sites,
         dbStore' = [dbStore EXCEPT ![dbTarget].rows = R],
         \A row \in R : row \in dbStore[dbTarget].rows \/ row.o = dbTarget,
         dbTx' = dbTx, dbCause' = dbCause, dbTarget' = dbTarget, dbAt' = dbAt, dbPc' = "up",
         dbPc # "copy"
  PROVE  DbInv' /\ NoneReturns
<1>1. /\ dbStore' \in [Sites -> DbStore]
      /\ dbStore'[dbTarget].rows = R
      /\ \A x \in Sites : dbStore'[x].marker = dbStore[x].marker
                           /\ (x # dbTarget => dbStore'[x] = dbStore[x])
  <2>1. dbStore' = WithRows(dbStore, dbTarget, R) /\ dbStore \in [Sites -> DbStore]
    BY DEF WithRows, DbInv, DbShape
  <2> QED BY <2>1, StoreWritten
<1>2. DbShape'
  BY <1>1, Zenon DEF DbInv, DbShape
<1>3. \A x \in Sites : \A row \in dbStore'[x].rows : row \in dbStore[x].rows \/ row.o = x
  BY <1>1
<1>4. /\ \A row \in dbStore'["remote"].rows : row.o = "local" => row \in dbStore["remote"].rows
      /\ dbStore'["remote"].marker = dbStore["remote"].marker
  BY <1>1, <1>3 DEF Sites
<1>5. ImportAllOrNothing' /\ CutoverExpires' /\ NoneReturns
  BY <1>4 DEF DbInv, ImportAllOrNothing, CutoverExpires, NoneReturns
<1>6. \A x \in Sites : \A row \in dbStore'[x].rows : ParentsIn(row, dbStore'[x].rows)
  <2> SUFFICES ASSUME NEW x \in Sites PROVE \A row \in dbStore'[x].rows : ParentsIn(row, dbStore'[x].rows)
    OBVIOUS
  <2>1. CASE x = dbTarget
    BY <2>1, <1>1 DEF Sound
  <2>2. CASE x # dbTarget
    BY <2>2, <1>1 DEF DbInv, Sound, Sites
  <2> QED BY <2>1, <2>2
<1>7. Sound(dbStore["local"].rows)' /\ Sound(dbStore["remote"].rows)' /\ Sound(dbTx)'
  BY <1>6 DEF Sound, Sites, DbInv, ParentsIn
<1>8. Copying' /\ ImportOrderSound' /\ AtStart'
  BY DEF Copying, DbInv, ImportOrderSound, AtStart
<1> QED BY <1>2, <1>5, <1>7, <1>8 DEF DbInv

LEMMA CommitStep ==
  ASSUME DbInv, CommitImport
  PROVE  DbInv' /\ NoneReturns
<1>1. CASE GiveUp("commit")
  <2>1. DbInv' /\ dbStore' = dbStore
    BY <1>1, GivenUp
  <2> QED BY <2>1 DEF NoneReturns
<1>2. CASE ~GiveUp("commit")
  <2>1. /\ dbStore' = [dbStore EXCEPT ![dbTarget].rows = dbTx, ![dbTarget].marker = TRUE]
        /\ dbTx' = {} /\ dbPc' = "seed" /\ dbTarget' = dbTarget /\ dbAt' = dbAt
        /\ dbCause' = dbCause /\ dbPc = "commit"
    BY <1>2 DEF CommitImport
  <2>2. dbTarget \in Sites /\ dbTx \in SUBSET DbRow /\ ~dbStore[dbTarget].marker
        /\ \A row \in dbTx : row.live = FALSE
    BY <2>1 DEF DbInv, DbShape, Opening, Copying
  <2>3. /\ dbStore' \in [Sites -> DbStore]
        /\ dbStore'[dbTarget].rows = dbTx /\ dbStore'[dbTarget].marker
        /\ \A x \in Sites : x # dbTarget => dbStore'[x] = dbStore[x]
    <3>1. dbStore' = WithImport(dbStore, dbTarget, dbTx) /\ dbStore \in [Sites -> DbStore]
      BY <2>1 DEF WithImport, DbInv, DbShape
    <3>2. dbTarget \in Sites /\ dbTx \in SUBSET DbRow
      BY <2>2
    <3>3. PICK new : new = WithImport(dbStore, dbTarget, dbTx)
      OBVIOUS
    <3>4. /\ new \in [Sites -> DbStore] /\ new[dbTarget].rows = dbTx /\ new[dbTarget].marker
          /\ \A x \in Sites : x # dbTarget => new[x] = dbStore[x]
      <4>1. new[dbTarget].marker
        BY <3>1, <3>2, <3>3 DEF WithImport, DbStore
      <4>2. new \in [Sites -> DbStore] /\ new[dbTarget].rows = dbTx
        BY <3>1, <3>2, <3>3, StoreMarked
      <4>3. \A x \in Sites : x # dbTarget => new[x] = dbStore[x]
        BY <3>1, <3>2, <3>3, StoreMarked
      <4> QED BY <4>1, <4>2, <4>3, Zenon
    <3>5. dbStore' = new
      BY <3>1, <3>3
    <3> QED BY <3>4, <3>5, Zenon
  <2>4. DbShape'
    <3>1. dbPc' \in Opening /\ dbTx' \in SUBSET DbRow
      BY <2>1 DEF Opening
    <3> QED BY <3>1, <2>1, <2>3, Zenon DEF DbInv, DbShape
  <2>5. ImportAllOrNothing' /\ CutoverExpires' /\ NoneReturns
    <3>1. CASE dbTarget = "remote"
      BY <3>1, <2>2, <2>3 DEF ImportAllOrNothing, CutoverExpires, NoneReturns
    <3>2. CASE dbTarget # "remote"
      <4>1. dbStore'["remote"] = dbStore["remote"]
        BY <3>2, <2>3 DEF Sites
      <4> QED BY <4>1 DEF DbInv, ImportAllOrNothing, CutoverExpires, NoneReturns
    <3> QED BY <3>1, <3>2
  <2>6. \A x \in Sites : \A row \in dbStore'[x].rows : ParentsIn(row, dbStore'[x].rows)
    <3> SUFFICES ASSUME NEW x \in Sites
                 PROVE  \A row \in dbStore'[x].rows : ParentsIn(row, dbStore'[x].rows)
      OBVIOUS
    <3>1. CASE x = dbTarget
      BY <3>1, <2>3 DEF DbInv, Sound
    <3>2. CASE x # dbTarget
      BY <3>2, <2>3 DEF DbInv, Sound, Sites
    <3> QED BY <3>1, <3>2
  <2>7. Sound(dbStore["local"].rows)' /\ Sound(dbStore["remote"].rows)' /\ Sound(dbTx)'
    BY <2>1, <2>6 DEF Sound, Sites
  <2>8. Copying' /\ ImportOrderSound' /\ AtStart'
    BY <2>1 DEF Copying, DbInv, ImportOrderSound, AtStart
  <2>9. dbTarget' \in Sites
    BY <2>1, <2>2
  <2> QED BY <2>4, <2>5, <2>7, <2>8, <2>9 DEF DbInv
<1> QED BY <1>1, <1>2

LEMMA SeedStep ==
  ASSUME DbInv, SeedFlowRows
  PROVE  DbInv' /\ NoneReturns
<1> DEFINE old == dbStore[dbTarget].rows
           new == {NewRow("work_item_flows", u.k, dbTarget) : u \in {row \in old : row.t = "users"
                     /\ ~\E f \in Target.rows : f.t = "work_item_flows" /\ f.k = row.k}}
<1>1. dbTarget \in Sites /\ old \in SUBSET DbRow
  <2>1. dbTarget \in Sites
    BY DEF SeedFlowRows, DbInv, Opening
  <2>2. dbStore[dbTarget] \in DbStore
    BY <2>1 DEF DbInv, DbShape
  <2> QED BY <2>1, <2>2 DEF DbStore
<1>2. dbStore' = [dbStore EXCEPT ![dbTarget].rows = old \cup new]
  BY <1>1 DEF SeedFlowRows, DbInv, DbShape, DbStore
<1>3. ASSUME NEW row \in new
      PROVE  row \in DbRow /\ row.o = dbTarget /\ ParentsIn(row, old)
  <2>1. PICK u \in old : u.t = "users" /\ row = NewRow("work_item_flows", u.k, dbTarget)
    OBVIOUS
  <2>2. row = [t |-> "work_item_flows", k |-> u.k, o |-> dbTarget, live |-> FALSE]
    BY <2>1 DEF NewRow
  <2>3. u.k \in DbUsers
    BY <1>1, <2>1 DEF DbRow
  <2>4. row \in DbRow
    BY <2>2, <2>3, <1>1 DEF DbRow, DbTables
  <2> QED BY <2>1, <2>2, <2>4 DEF ParentsIn
<1>4. Sound(old)
  BY <1>1 DEF DbInv, Sites
<1> HIDE DEF old, new
<1>5. Sound(old \cup new)
  <2> SUFFICES ASSUME NEW row \in old \cup new PROVE ParentsIn(row, old \cup new)
    BY DEF Sound
  <2>1. ParentsIn(row, old)
    BY <1>3, <1>4 DEF Sound
  <2> QED BY <2>1, ParentsStay
<1>6. old \cup new \in SUBSET DbRow
  BY <1>1, <1>3
<1>7. \A row \in old \cup new : row \in dbStore[dbTarget].rows \/ row.o = dbTarget
  BY <1>3 DEF old
<1>8. dbTx' = dbTx /\ dbCause' = dbCause /\ dbTarget' = dbTarget /\ dbAt' = dbAt /\ dbPc' = "up"
      /\ dbPc # "copy"
  BY DEF SeedFlowRows, Up
<1> QED BY <1>1, <1>2, <1>5, <1>6, <1>7, <1>8, Served

LEMMA InsertRowStep ==
  ASSUME DbInv, NEW t \in DbTables, NEW k \in DbUsers, InsertRow(t, k)
  PROVE  DbInv' /\ NoneReturns
<1> DEFINE old == dbStore[dbTarget].rows
           row == NewRow(t, k, dbTarget)
<1>1. dbTarget \in Sites /\ old \in SUBSET DbRow
  <2>1. dbTarget \in Sites
    BY DEF InsertRow, DbInv, DbShape
  <2>2. dbStore[dbTarget] \in DbStore
    BY <2>1 DEF DbInv, DbShape
  <2> QED BY <2>1, <2>2 DEF DbStore
<1>2. dbStore' = [dbStore EXCEPT ![dbTarget].rows = old \cup {row}]
  BY <1>1 DEF InsertRow, DbInv, DbShape, DbStore
<1>3. row \in DbRow /\ row.o = dbTarget
  <2>1. PICK b \in BOOLEAN : b = (t = "sessions")
    OBVIOUS
  <2>2. row = [t |-> t, k |-> k, o |-> dbTarget, live |-> b]
    BY <2>1, Zenon DEF NewRow
  <2>3. row \in DbRow
    BY <2>2, <1>1 DEF DbRow
  <2> QED BY <2>2, <2>3
<1>4. Sound(old) /\ ParentsIn(row, old)
  BY <1>1 DEF DbInv, Sites, InsertRow, Target
<1>5. /\ dbTx' = dbTx /\ dbCause' = dbCause /\ dbTarget' = dbTarget /\ dbAt' = dbAt
      /\ dbPc' = "up" /\ dbPc # "copy"
  BY DEF InsertRow
<1> HIDE DEF old, row
<1>6. Sound(old \cup {row})
  <2> SUFFICES ASSUME NEW r \in old \cup {row} PROVE ParentsIn(r, old \cup {row})
    BY DEF Sound
  <2>1. ParentsIn(r, old)
    BY <1>4 DEF Sound
  <2> QED BY <2>1, ParentsStay
<1>7. old \cup {row} \in SUBSET DbRow
  BY <1>1, <1>3
<1>8. \A r \in old \cup {row} : r \in dbStore[dbTarget].rows \/ r.o = dbTarget
  BY <1>3 DEF old
<1> QED BY <1>1, <1>2, <1>5, <1>6, <1>7, <1>8, Served

LEMMA DeleteUserStep ==
  ASSUME DbInv, NEW k \in DbUsers, DeleteUser(k)
  PROVE  DbInv' /\ NoneReturns
<1> DEFINE old == dbStore[dbTarget].rows
           kept == {row \in old : row.k # k \/ row.t = "repositories"}
<1>1. dbTarget \in Sites /\ old \in SUBSET DbRow
  <2>1. dbTarget \in Sites
    BY DEF DeleteUser, DbInv, DbShape
  <2>2. dbStore[dbTarget] \in DbStore
    BY <2>1 DEF DbInv, DbShape
  <2> QED BY <2>1, <2>2 DEF DbStore
<1>2. dbStore' = [dbStore EXCEPT ![dbTarget].rows = kept]
  BY <1>1 DEF DeleteUser, DbInv, DbShape, DbStore
<1>3. Sound(old)
  BY <1>1 DEF DbInv, Sites
<1>4. Sound(kept)
  <2> SUFFICES ASSUME NEW row \in kept PROVE ParentsIn(row, kept)
    BY DEF Sound
  <2>1. ParentsIn(row, old) /\ (row.k # k \/ row.t = "repositories")
    BY <1>3 DEF Sound
  <2> QED BY <2>1 DEF ParentsIn
<1>5. /\ dbTx' = dbTx /\ dbCause' = dbCause /\ dbTarget' = dbTarget /\ dbAt' = dbAt
      /\ dbPc' = "up" /\ dbPc # "copy"
  BY DEF DeleteUser
<1>6. kept \in SUBSET DbRow /\ \A row \in kept : row \in dbStore[dbTarget].rows
  BY <1>1
<1> HIDE DEF kept, old
<1> QED BY <1>1, <1>2, <1>4, <1>5, <1>6, Served

(* Every step keeps the invariant and brings nothing back.                 *)
LEMMA DbStep ==
  ASSUME DbInv, [DbNext]_dbVars
  PROVE  DbInv' /\ NoneReturns
<1>0. dbStore \in [Sites -> DbStore] /\ DbShape
  BY DEF DbInv, DbShape
<1>a. dbPc # "copy" => dbAt = 1
  BY DEF DbInv, AtStart
<1>1. CASE UNCHANGED dbVars \/ Reconfigure
  <2>1. /\ dbStore' = dbStore /\ dbPc' = dbPc /\ dbTarget' = dbTarget /\ dbAt' = dbAt
        /\ dbTx' = dbTx /\ dbCause' = dbCause
    BY <1>1 DEF dbVars, Reconfigure
  <2> QED BY <2>1 DEF DbInv, DbShape, AtStart, Copying, Sound, ParentsIn, ImportAllOrNothing,
          CutoverExpires, ImportOrderSound, NoneReturns
<1>2. CASE Boot
  <2>1. /\ dbStore' = dbStore /\ dbPc' \in {"open", "connect"} /\ dbTarget' \in Sites
        /\ dbAt' = 1 /\ dbAt = 1 /\ dbTx' = dbTx /\ dbCause' = "none"
    BY <1>2, <1>a DEF Boot, Sites
  <2>2. DbShape' /\ RowsKept
    <3>1. dbPc' \in Opening
      BY <2>1 DEF Opening
    <3> QED BY <1>0, <2>1, <3>1, Zenon DEF DbShape, RowsKept
  <2> QED BY <2>1, <2>2, OutsideImport, RowsKeptNoneReturns
<1>3. CASE Connect \/ OpenLocal
  <2>1. PICK s \in Sites : dbStore' = [dbStore EXCEPT ![s].exists = TRUE]
    BY <1>3 DEF Connect, OpenLocal, DbInv, Opening, Sites
  <2>2. RowsKept /\ dbStore' \in [Sites -> DbStore]
    BY <2>1, <1>0, StoreOpened DEF RowsKept
  <2>3. /\ dbPc' \in {"migrate", "migrate-local"} /\ dbTarget' = dbTarget /\ dbTarget \in Sites
        /\ dbAt' = 1 /\ dbAt = 1 /\ dbTx' = dbTx /\ dbCause' = dbCause
    BY <1>3, <1>a DEF Connect, OpenLocal, DbInv, Opening
  <2>4. DbShape'
    <3>1. dbPc' \in Opening
      BY <2>3 DEF Opening
    <3> QED BY <1>0, <2>2, <2>3, <3>1, Zenon DEF DbShape
  <2> QED BY <2>2, <2>3, <2>4, OutsideImport, RowsKeptNoneReturns
<1>4. CASE Unreachable
  <2>1. CASE GiveUp("unreachable")
    <3>1. DbInv' /\ dbStore' = dbStore
      BY <2>1, GivenUp
    <3> QED BY <3>1 DEF NoneReturns
  <2>2. CASE ~GiveUp("unreachable")
    <3>1. /\ dbPc' = "open" /\ dbTarget' = "local" /\ dbStore' = dbStore /\ dbAt' = 1
          /\ dbAt = 1 /\ dbTx' = dbTx /\ dbCause' = dbCause
      BY <1>4, <1>a, <2>2 DEF Unreachable
    <3>2. DbShape' /\ RowsKept
      <4>1. dbPc' \in Opening /\ dbTarget' \in Sites
        BY <3>1 DEF Opening, Sites
      <4> QED BY <1>0, <3>1, <4>1, Zenon DEF DbShape, RowsKept
    <3>3. dbTarget' \in Sites
      BY <3>1 DEF Sites
    <3> QED BY <3>1, <3>2, <3>3, OutsideImport, RowsKeptNoneReturns
  <2> QED BY <2>1, <2>2
<1>5. CASE ApplyMigration
  <2>1. CASE GiveUp("dirty migration")
    <3>1. DbInv' /\ dbStore' = dbStore
      BY <2>1, GivenUp
    <3> QED BY <3>1 DEF NoneReturns
  <2>2. CASE ~GiveUp("dirty migration")
    <3>1. /\ dbStore' = [dbStore EXCEPT ![dbTarget].schema = @ + 1]
          /\ dbPc' = dbPc /\ dbPc \in {"migrate", "migrate-local"} /\ dbTarget' = dbTarget
          /\ dbAt' = 1 /\ dbAt = 1 /\ dbTx' = dbTx /\ dbCause' = dbCause
      BY <1>5, <1>a, <2>2 DEF ApplyMigration
    <3>2. dbTarget \in Sites
      BY <3>1 DEF DbInv, Opening
    <3>3. RowsKept /\ dbStore' \in [Sites -> DbStore]
      BY <3>1, <3>2, <1>0, StoreMigrated DEF RowsKept
    <3>4. DbShape'
      BY <1>0, <3>1, <3>3, Zenon DEF DbShape
    <3> QED BY <3>1, <3>2, <3>3, <3>4, OutsideImport, RowsKeptNoneReturns
  <2> QED BY <2>1, <2>2
<1>6. CASE Migrated
  <2>1. /\ dbStore' = dbStore /\ dbTarget' = dbTarget /\ dbAt' = 1 /\ dbAt = 1
        /\ dbCause' = dbCause /\ dbPc \in {"migrate", "migrate-local"}
    BY <1>6, <1>a DEF Migrated
  <2>2. dbTarget \in Sites
    BY <2>1 DEF DbInv, Opening
  <2>3. CASE dbPc' = "seed" /\ dbTx' = dbTx
    <3>1. DbShape' /\ RowsKept
      <4>1. dbPc' \in Opening
        BY <2>3 DEF Opening
      <4> QED BY <1>0, <2>1, <2>3, <4>1, Zenon DEF DbShape, RowsKept
    <3> QED BY <2>1, <2>2, <2>3, <3>1, OutsideImport, RowsKeptNoneReturns
  <2>4. CASE dbPc' = "copy" /\ dbTx' = dbStore[dbTarget].rows /\ ~dbStore[dbTarget].marker
    <3>1. dbTx' \in SUBSET DbRow
      <4>1. dbStore[dbTarget] \in DbStore
        BY <1>0, <2>2
      <4> QED BY <4>1, <2>4 DEF DbStore
    <3>2. DbShape' /\ RowsKept
      <4>1. dbPc' \in Opening
        BY <2>4 DEF Opening
      <4> QED BY <1>0, <2>1, <3>1, <4>1, Zenon DEF DbShape, RowsKept
    <3>3. Sound(dbTx)'
      <4>1. Sound(dbStore[dbTarget].rows)
        BY <2>2 DEF DbInv, Sites
      <4> QED BY <4>1, <2>4 DEF Sound
    <3>4. dbAt = 1 /\ AtStart'
      BY <2>1 DEF AtStart
    <3>5. Copying'
      <4>1. \A j \in 1..4 : ~(j < 1)
        OBVIOUS
      <4> QED BY <2>1, <2>4, <3>4, <4>1 DEF Copying
    <3> QED BY <2>1, <2>2, <3>2, <3>3, <3>4, <3>5, RowsKeptSound, RowsKeptNoneReturns DEF DbInv, ImportOrderSound
  <2> QED BY <1>6, <2>3, <2>4 DEF Migrated, AlreadyComplete, Target
<1>7. CASE \E i \in 1..Len(CopyOrder) : CopyTable(i)
  BY <1>7, CopyTableStep DEF NoneReturns
<1>8. CASE ExpireSessions
  <2>1. /\ dbStore' = dbStore /\ dbTarget' = dbTarget /\ dbAt' = dbAt /\ dbCause' = dbCause
        /\ dbPc = "expire" /\ dbPc' = "commit" /\ dbTx' = Expired(dbTx)
    BY <1>8 DEF ExpireSessions
  <2>2. dbTx \in SUBSET DbRow /\ Sound(dbTx)
    BY DEF DbInv, DbShape
  <2>3. PICK T : T = Expired(dbTx)
    OBVIOUS
  <2>4. dbTx' = T /\ T \in SUBSET DbRow /\ Sound(T) /\ \A row \in T : row.live = FALSE
    BY <2>1, <2>2, <2>3, ExpiredRows
  <2>5. DbShape' /\ RowsKept
    <3>1. dbPc' \in Opening
      BY <2>1 DEF Opening
    <3> QED BY <1>0, <2>1, <2>4, <3>1, Zenon DEF DbShape, RowsKept
  <2>6. Sound(dbTx)'
    BY <2>4 DEF Sound
  <2>7. dbTarget \in Sites /\ ~dbStore[dbTarget].marker
    BY <2>1 DEF DbInv, Opening, Copying
  <2>8. Copying' /\ AtStart'
    BY <2>1, <2>4, <2>7, <1>a DEF Copying, AtStart
  <2> QED BY <2>1, <2>5, <2>6, <2>7, <2>8, RowsKeptSound, RowsKeptNoneReturns DEF DbInv, ImportOrderSound
<1>9. CASE Die
  <2>1. dbPc' = "down" /\ dbTarget' = "none" /\ dbTx' = {} /\ dbAt' = 1 /\ dbCause' = dbCause
    BY <1>9 DEF Die
  <2>2. RowsKept /\ dbStore' \in [Sites -> DbStore]
    <3>1. CASE dbStore' = dbStore
      BY <3>1, <1>0 DEF RowsKept
    <3>2. CASE dbStore' # dbStore
      <4>1. dbStore' = [dbStore EXCEPT !["remote"].dirty = TRUE] /\ "remote" \in Sites
        BY <3>2, <1>9 DEF Die, Sites
      <4> QED BY <4>1, <1>0, StoreDirty DEF RowsKept
    <3> QED BY <3>1, <3>2
  <2>3. DbShape'
    BY <2>1, <2>2, FirstTable, Zenon DEF DbShape
  <2>4. dbPc' \notin Opening
    BY <2>1 DEF Opening
  <2> QED BY <2>1, <2>2, <2>3, <2>4, OutsideImport, RowsKeptNoneReturns
<1> QED BY <1>1, <1>2, <1>3, <1>4, <1>5, <1>6, <1>7, <1>8, <1>9, CommitStep, SeedStep,
       InsertRowStep, DeleteUserStep DEF DbNext

(* The cutover is all or nothing, copies parents first, carries no live    *)
(* session over and happens once (db/migrate.rs), whatever the file and    *)
(* the backend hold and wherever the server dies.                          *)
THEOREM ImportIsSafe == DbSpec => ImportSafe
<1>1. DbInv => ImportAllOrNothing /\ CutoverExpires /\ ImportOrderSound
  BY DEF DbInv
<1>2. DbInv /\ [DbNext]_dbVars => DbInv'
  BY DbStep
<1>3. DbInv /\ [DbNext]_dbVars =>
        [dbStore["remote"].marker
          => \A row \in dbStore'["remote"].rows : row.o = "local" => row \in dbStore["remote"].rows]_dbVars
  BY DbStep DEF NoneReturns
<1> QED BY <1>1, <1>2, <1>3, DbStarts, PTL DEF DbSpec, ImportSafe, DeletedStayDeleted

=============================================================================
