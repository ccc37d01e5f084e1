-------------------------- MODULE WorkspacesProofs --------------------------
(***************************************************************************)
(* Proofs about the workspace container of an item and about the port      *)
(* forwards of its editor.                                                 *)
(***************************************************************************)
EXTENDS Workspaces, PortForwards, SequenceTheorems, FiniteSetTheorems,
        WellFoundedInduction, TLAPS

(***************************************************************************)
(* Workspaces.                                                             *)
(***************************************************************************)
WsRequest == [op : WOps \cup {"none"}, tk : WTickets, pc : WPcs,
              pool : SUBSET WPorts, gen : Nat, old : BOOLEAN]
WsContainer == [st : {"absent", "stopped", "running"}, pool : SUBSET WPorts,
                gen : Nat, egress : BOOLEAN, inited : BOOLEAN, cut : BOOLEAN]

(* What the argument needs of the types.                                   *)
WsShape ==
  /\ wReq \in [WReqs -> WsRequest]
  /\ wCont \in [WTickets -> WsContainer]
  /\ treeLock \in [WTickets -> WReqs \cup {NoReq}]
  /\ wsLock \in [WTickets -> WReqs \cup {NoReq}]

Ensuring == {"status", "create", "egress_new", "egress_old", "init"}
TreePcs == {"recheck", "clone", "add"}

(* The container lock of the item is held from the look at the container   *)
(* to its use, so that nobody else creates or starts it meanwhile; a       *)
(* request knows of no bring-up after the present one.                     *)
HoldsLock(r) ==
  LET q == wReq[r]
      c == wCont[q.tk]
  IN /\ q.pc \in Ensuring => wsLock[q.tk] = r
     /\ q.pc = "create" => c.st = "absent"
     /\ q.pc = "init" /\ c.st = "running" => c.egress
     /\ q.gen <= c.gen
     /\ q.pc = "ready" /\ c.st = "running" /\ q.gen = c.gen => Ready(c)

(* The worktree lock is that of the item the request was made for: an item *)
(* that is gone has only old requests on their way to its worktree.        *)
HoldsTree(r) ==
  LET q == wReq[r]
  IN ~q.old =>
       /\ q.pc \in {"tree", "treelock"} \cup TreePcs => q.tk \in wItems
       /\ q.pc \in TreePcs => treeLock[q.tk] = r
       /\ q.pc \in {"clone", "add"} /\ q.tk \notin wStray => q.tk \notin wTree

(* A running container that may not be used yet is being brought up by the *)
(* holder of its lock.                                                     *)
AtWork(r, t) ==
  r # NoReq /\ wReq[r].tk = t /\ wReq[r].pc \in {"egress_new", "egress_old", "init"}
InHands(t) ==
  LET c == wCont[t]
  IN c.st = "running" => /\ c.gen > 0 /\ (c.inited => c.egress)
                         /\ Ready(c) \/ AtWork(wsLock[t], t)

WsInv ==
  /\ WsShape
  /\ \A r \in WReqs : HoldsLock(r) /\ HoldsTree(r)
  /\ \A t \in WTickets : InHands(t)

-----------------------------------------------------------------------------
Below == {p \in Nat \X Nat : p[1] < p[2]}

(* Ports are bounded, so that of some there is a highest one.              *)
LEMMA HighestPort ==
  ASSUME NEW S \in SUBSET WPorts, S # {}
  PROVE  HighPort(S) \in S
<1> DEFINE top == MaxPort
<1>0. top \in Nat /\ WPorts \subseteq 1..top
  BY WorkspacesAssumption
<1> HIDE DEF top
<1> DEFINE D == {top - x : x \in S}
<1>1. \A x \in S : x \in 1..top
  BY <1>0
<1>2. D \in SUBSET Nat /\ D # {}
  <2>1. \A x \in 1..top : top - x \in Nat
    BY <1>0
  <2>2. \A x \in S : top - x \in Nat
    BY <1>1, <2>1
  <2> QED BY <2>2
<1>3. PICK d \in D : \A e \in D : ~(<<e, d>> \in Below)
  <2>1. D \subseteq Nat
    BY <1>2
  <2>2. IsWellFoundedOn(Below, Nat)
    BY NatLessThanWellFounded, Zenon DEF OpToRel, Below
  <2> QED BY <1>2, <2>1, <2>2, WFMin, Zenon
<1>a. \A x, y \in Nat : y < x => <<y, x>> \in Below
  BY DEF Below
<1>4. PICK x \in S : d = top - x
  BY <1>3
<1>5. \A y \in S : y <= x
  <2> TAKE y \in S
  <2>1. top - y \in D /\ top - y \in Nat /\ d \in Nat
    BY <1>1, <1>2
  <2>2. ~(top - y < d)
    BY <1>3, <1>a, <2>1
  <2>3. top \in Nat /\ x \in Nat /\ y \in Nat
    BY <1>0, <1>1
  <2> QED BY <1>4, <2>2, <2>3
<1> QED BY <1>4, <1>5 DEF HighPort

(* pick_terminal_port picks a port of the pool.                            *)
LEMMA PickedPort ==
  ASSUME WsShape, NEW t \in WTickets, Cardinality(wCont[t].pool) >= 2
  PROVE  PickTerminalPort(t) \in WPorts
<1> DEFINE pool == wCont[t].pool
           spares == pool \ {LowPort(pool)}
           free == spares \ Listening(t)
<1>1. pool \in SUBSET WPorts
  BY DEF WsShape, WsContainer
<1>2. spares # {}
  <2> SUFFICES ASSUME pool \subseteq {LowPort(pool)} PROVE FALSE
    OBVIOUS
  <2>1. pool = {} \/ pool = {LowPort(pool)}
    OBVIOUS
  <2>2. Cardinality(pool) \in {0, 1}
    BY <2>1, FS_EmptySet, FS_Singleton
  <2> QED BY <2>2
<1>3. HighPort(spares) \in WPorts /\ (free # {} => HighPort(free) \in WPorts)
  BY <1>1, <1>2, HighestPort
<1> QED BY <1>3 DEF PickTerminalPort

-----------------------------------------------------------------------------
LEMMA WsInitOK == WsInit => WsInv
<1> SUFFICES ASSUME WsInit PROVE WsInv
  OBVIOUS
<1>1. PICK t0 \in WTickets : \A r \in WReqs : wReq[r] = IdleReq(t0)
  BY WorkspacesAssumption DEF WsInit
<1>2. IdleReq(t0) \in WsRequest
  BY DEF IdleReq, WsRequest, WPcs
<1>3. NoCont \in WsContainer /\ \A t \in WTickets : wCont[t] = NoCont
  BY DEF NoCont, WsContainer, WsInit
<1>4. wReq \in [WReqs -> WsRequest]
  BY <1>1, <1>2, WorkspacesAssumption DEF WsInit
<1>5. wCont \in [WTickets -> WsContainer]
  BY <1>3 DEF WsInit
<1>6. WsShape
  BY <1>4, <1>5 DEF WsInit, WsShape
<1>7. \A r \in WReqs : HoldsLock(r) /\ HoldsTree(r)
  BY <1>1, <1>3 DEF HoldsLock, HoldsTree, IdleReq, NoCont, Ensuring, TreePcs
<1>8. \A t \in WTickets : InHands(t)
  BY <1>3 DEF InHands, NoCont
<1> QED BY <1>6, <1>7, <1>8 DEF WsInv

-----------------------------------------------------------------------------
(* What a step of a request leaves in wReq and in wCont.                   *)
After(r, pc, gen, old) ==
  /\ wReq' \in [WReqs -> WsRequest]
  /\ \A s \in WReqs \ {r} : wReq'[s] = wReq[s]
  /\ wReq'[r].tk = wReq[r].tk
  /\ wReq'[r].pc = pc
  /\ wReq'[r].gen = gen
  /\ wReq'[r].old = old

Becomes(t, c) ==
  /\ wCont' \in [WTickets -> WsContainer]
  /\ wCont'[t] = c
  /\ \A u \in WTickets \ {t} : wCont'[u] = wCont[u]

LEMMA GoingOn ==
  ASSUME WsShape, NEW r \in WReqs, NEW pc \in WPcs, GoTo(r, pc)
  PROVE  After(r, pc, wReq[r].gen, wReq[r].old)
<1>1. wReq[r] \in WsRequest
  BY DEF WsShape
<1>2. [wReq[r] EXCEPT !.pc = pc] \in WsRequest
  BY <1>1 DEF WsRequest
<1>3. wReq' = [wReq EXCEPT ![r] = [wReq[r] EXCEPT !.pc = pc]]
  BY DEF GoTo, WsShape
<1>4. wReq'[r] = [wReq[r] EXCEPT !.pc = pc]
  BY <1>3 DEF WsShape
<1>5. wReq' \in [WReqs -> WsRequest] /\ \A s \in WReqs \ {r} : wReq'[s] = wReq[s]
  BY <1>2, <1>3 DEF WsShape
<1>6. /\ wReq'[r].tk = wReq[r].tk
      /\ wReq'[r].pc = pc
      /\ wReq'[r].gen = wReq[r].gen
      /\ wReq'[r].old = wReq[r].old
  BY <1>1, <1>4, Zenon DEF WsRequest
<1> QED BY <1>5, <1>6 DEF After

LEMMA Answering ==
  ASSUME WsShape, NEW r \in WReqs, Answer(r)
  PROVE  After(r, "idle", 0, FALSE)
<1>1. wReq[r] \in WsRequest /\ wTk(r) \in WTickets
  BY DEF WsShape, WsRequest, wTk
<1>2. IdleReq(wTk(r)) \in WsRequest
  BY <1>1 DEF WsRequest, IdleReq, WPcs
<1>3. wReq'[r] = IdleReq(wTk(r))
  BY DEF Answer, WsShape
<1>4. wReq' \in [WReqs -> WsRequest] /\ \A s \in WReqs \ {r} : wReq'[s] = wReq[s]
  BY <1>2 DEF WsShape, Answer
<1>5. /\ wReq'[r].tk = wReq[r].tk /\ wReq'[r].pc = "idle"
      /\ wReq'[r].gen = 0 /\ wReq'[r].old = FALSE
  BY <1>3 DEF IdleReq, wTk
<1> QED BY <1>4, <1>5 DEF After

LEMMA HandingBack ==
  ASSUME WsShape, NEW r \in WReqs, HandBack(r)
  PROVE  After(r, "ready", wCont[wTk(r)].gen, wReq[r].old)
<1> DEFINE q == [wReq[r] EXCEPT !.pc = "ready", !.gen = wCont[wTk(r)].gen]
<1>1. wReq[r] \in WsRequest /\ wTk(r) \in WTickets
  BY DEF WsShape, WsRequest, wTk
<1>0. wCont[wTk(r)].gen \in Nat
  BY <1>1 DEF WsShape, WsContainer
<1>2. q \in WsRequest
  BY <1>1, <1>0 DEF WsRequest, WPcs
<1>3. wReq' = [wReq EXCEPT ![r] = q]
  BY DEF HandBack, WsShape
<1>4. wReq'[r] = q
  BY <1>3 DEF WsShape
<1>5. wReq' \in [WReqs -> WsRequest] /\ \A s \in WReqs \ {r} : wReq'[s] = wReq[s]
  BY <1>2, <1>3 DEF WsShape
<1>6. /\ wReq'[r].tk = wReq[r].tk
      /\ wReq'[r].pc = "ready"
      /\ wReq'[r].gen = wCont[wTk(r)].gen
      /\ wReq'[r].old = wReq[r].old
  BY <1>1, <1>4, Zenon DEF WsRequest
<1> QED BY <1>5, <1>6 DEF After

(* A request that goes on with other ports.                                *)
LEMMA Repooling ==
  ASSUME WsShape, NEW r \in WReqs, NEW pc \in WPcs, NEW pool \in SUBSET WPorts,
         wReq' = [wReq EXCEPT ![r].pc = pc, ![r].pool = pool]
  PROVE  After(r, pc, wReq[r].gen, wReq[r].old)
<1> DEFINE q == [wReq[r] EXCEPT !.pc = pc, !.pool = pool]
<1>1. wReq[r] \in WsRequest
  BY DEF WsShape
<1>2. q \in WsRequest
  BY <1>1 DEF WsRequest, WPcs
<1>3. wReq' = [wReq EXCEPT ![r] = q]
  BY DEF WsShape
<1>4. wReq'[r] = q
  BY <1>3 DEF WsShape
<1>5. wReq' \in [WReqs -> WsRequest] /\ \A s \in WReqs \ {r} : wReq'[s] = wReq[s]
  BY <1>2, <1>3 DEF WsShape
<1>6. /\ wReq'[r].tk = wReq[r].tk
      /\ wReq'[r].pc = pc
      /\ wReq'[r].gen = wReq[r].gen
      /\ wReq'[r].old = wReq[r].old
  BY <1>1, <1>4, Zenon DEF WsRequest
<1> QED BY <1>5, <1>6 DEF After

LEMMA Setting ==
  ASSUME WsShape, NEW t \in WTickets, NEW c \in WsContainer, SetCont(t, c)
  PROVE  Becomes(t, c)
  BY DEF WsShape, SetCont, Becomes

(* The containers that the steps put in the place of one.                  *)
StartedAs(c, pool, g) == [c EXCEPT !.st = "running", !.pool = pool, !.gen = g]

LEMMA Started ==
  ASSUME NEW c \in WsContainer, NEW pool \in SUBSET WPorts, NEW g \in Nat
  PROVE  /\ StartedAs(c, pool, g) \in WsContainer
         /\ StartedAs(c, pool, g).st = "running"
         /\ StartedAs(c, pool, g).gen = g
         /\ StartedAs(c, pool, g).inited = c.inited
<1>1. StartedAs(c, pool, g) \in WsContainer
  BY DEF WsContainer, StartedAs
<1>2. StartedAs(c, pool, g).inited = c.inited
  BY Zenon DEF WsContainer, StartedAs
<1>3. StartedAs(c, pool, g).st = "running" /\ StartedAs(c, pool, g).gen = g
  BY Zenon DEF WsContainer, StartedAs
<1> QED BY <1>1, <1>2, <1>3

LEMMA Fresh ==
  ASSUME WsShape, NEW t \in WTickets, NEW pool \in SUBSET WPorts
  PROVE  /\ BroughtUp(t, pool) \in WsContainer
         /\ BroughtUp(t, pool).st = "running"
         /\ BroughtUp(t, pool).gen = wCont[t].gen + 1
         /\ BroughtUp(t, pool).inited = FALSE
<1>1. wCont[t].gen + 1 \in Nat
  BY DEF WsShape, WsContainer
<1>2. NoCont \in WsContainer /\ NoCont.inited = FALSE
  BY DEF NoCont, WsContainer
<1>3. BroughtUp(t, pool) = StartedAs(NoCont, pool, wCont[t].gen + 1)
  BY Zenon DEF BroughtUp, StartedAs
<1> QED BY <1>1, <1>2, <1>3, Started

LEMMA Gone ==
  ASSUME WsShape, NEW t \in WTickets
  PROVE  /\ [NoCont EXCEPT !.gen = wCont[t].gen] \in WsContainer
         /\ [NoCont EXCEPT !.gen = wCont[t].gen].st = "absent"
         /\ [NoCont EXCEPT !.gen = wCont[t].gen].gen = wCont[t].gen
<1>1. wCont[t].gen \in Nat
  BY DEF WsShape, WsContainer
<1>2. NoCont \in WsContainer /\ NoCont.st = "absent"
  BY DEF NoCont, WsContainer
<1>3. [NoCont EXCEPT !.gen = wCont[t].gen] \in WsContainer
  BY <1>1, <1>2 DEF WsContainer
<1> QED BY <1>2, <1>3, Zenon DEF WsContainer

LEMMA Allowed ==
  ASSUME NEW c \in WsContainer
  PROVE  LET d == [c EXCEPT !.egress = TRUE]
         IN d \in WsContainer /\ d.st = c.st /\ d.gen = c.gen /\ d.egress
            /\ d.inited = c.inited /\ d.cut = c.cut
<1>1. [c EXCEPT !.egress = TRUE] \in WsContainer
  BY DEF WsContainer
<1> QED BY <1>1, Zenon DEF WsContainer

LEMMA Initialised ==
  ASSUME NEW c \in WsContainer
  PROVE  LET d == [c EXCEPT !.inited = TRUE]
         IN d \in WsContainer /\ d.st = c.st /\ d.gen = c.gen /\ d.inited
            /\ d.egress = c.egress /\ d.cut = c.cut
<1>1. [c EXCEPT !.inited = TRUE] \in WsContainer
  BY DEF WsContainer
<1> QED BY <1>1, Zenon DEF WsContainer

LEMMA GivenUp ==
  ASSUME NEW c \in WsContainer
  PROVE  LET d == [c EXCEPT !.cut = TRUE]
         IN d \in WsContainer /\ d.st = c.st /\ d.gen = c.gen /\ d.cut
            /\ d.egress = c.egress /\ d.inited = c.inited
<1>1. [c EXCEPT !.cut = TRUE] \in WsContainer
  BY DEF WsContainer
<1> QED BY <1>1, Zenon DEF WsContainer

LEMMA Stopping ==
  ASSUME NEW c \in WsContainer
  PROVE  LET d == [c EXCEPT !.st = "stopped"]
         IN d \in WsContainer /\ d.st = "stopped" /\ d.gen = c.gen
  BY DEF WsContainer

-----------------------------------------------------------------------------
(* Steps that concern neither the container nor its lock.                  *)
LEMMA LockQuiet ==
  ASSUME WsInv, NEW r \in WReqs, NEW pc, NEW gen, NEW old, After(r, pc, gen, old),
         pc \notin Ensuring \cup {"ready"}, gen \in {0, wReq[r].gen},
         wReq[r].pc \notin Ensuring, UNCHANGED <<wCont, wsLock>>
  PROVE  /\ \A s \in WReqs : HoldsLock(s)'
         /\ \A t \in WTickets : InHands(t)'
<1>1. ASSUME NEW s \in WReqs PROVE HoldsLock(s)'
  <2>1. HoldsLock(s) /\ wReq[r].tk \in WTickets /\ wCont[wReq[r].tk].gen \in Nat
    BY DEF WsInv, WsShape, WsRequest, WsContainer
  <2>2. CASE s = r
    BY <2>1, <2>2 DEF HoldsLock, After, Ensuring
  <2>3. CASE s # r
    BY <2>1, <2>3 DEF HoldsLock, After
  <2> QED BY <2>2, <2>3
<1>2. ASSUME NEW t \in WTickets PROVE InHands(t)'
  <2>1. wsLock[t] \in WReqs \cup {NoReq} /\ NoReq \notin WReqs /\ InHands(t)
    BY WorkspacesAssumption DEF WsInv, WsShape
  <2>2. AtWork(wsLock[t], t) => AtWork(wsLock[t], t)'
    BY <2>1 DEF AtWork, After, Ensuring
  <2> QED BY <2>1, <2>2 DEF InHands
<1> QED BY <1>1, <1>2

(* Steps that concern neither the worktree nor its lock.                   *)
LEMMA TreeQuiet ==
  ASSUME WsInv, NEW r \in WReqs, NEW pc, NEW gen, NEW old, After(r, pc, gen, old),
         pc \notin {"tree", "treelock"} \cup TreePcs,
         UNCHANGED <<wItems, wTree, treeLock, wStray>>
  PROVE  \A s \in WReqs : HoldsTree(s)'
<1> SUFFICES ASSUME NEW s \in WReqs PROVE HoldsTree(s)'
  OBVIOUS
<1>1. HoldsTree(s)
  BY DEF WsInv
<1>2. CASE s = r
  BY <1>2 DEF HoldsTree, After, TreePcs
<1>3. CASE s # r
  BY <1>1, <1>3 DEF HoldsTree, After
<1> QED BY <1>2, <1>3

LEMMA Quiet ==
  ASSUME WsInv, NEW r \in WReqs, NEW pc, NEW gen, NEW old, After(r, pc, gen, old),
         pc \notin {"tree", "treelock", "ready"} \cup TreePcs \cup Ensuring,
         gen \in {0, wReq[r].gen}, wReq[r].pc \notin Ensuring,
         UNCHANGED <<wItems, wTree, treeLock, wStray, wCont, wsLock>>
  PROVE  WsInv'
<1>1. WsShape'
  BY DEF WsInv, WsShape, After
<1>2. \A s \in WReqs : HoldsTree(s)'
  BY TreeQuiet
<1>3. (\A s \in WReqs : HoldsLock(s)') /\ (\A t \in WTickets : InHands(t)')
  BY LockQuiet
<1> QED BY <1>1, <1>2, <1>3 DEF WsInv

LEMMA UseKept ==
  ASSUME WsInv, NEW r \in WReqs,
         EditorRuns(r) \/ TakePorts(r) \/ NotRunning(r) \/ Launch(r)
           \/ Register(r) \/ Kill(r) \/ ReleasePorts(r)
  PROVE  WsInv'
<1>0. WsShape /\ wReq[r] \in WsRequest /\ wTk(r) \in WTickets
  BY DEF WsInv, WsShape, WsRequest, wTk
<1>1. /\ UNCHANGED <<wItems, wTree, treeLock, wStray, wCont, wsLock>>
      /\ wReq[r].pc \in {"ports", "ready", "register", "kill", "release"}
  BY DEF EditorRuns, TakePorts, NotRunning, Launch, Register, Kill, ReleasePorts,
         At, unPorts, unUse, repoVars, dockerVars, mapVars
<1>2. CASE Answer(r)
  <2>1. After(r, "idle", 0, FALSE)
    BY <1>0, <1>2, Answering
  <2> QED BY <1>1, <2>1, Quiet DEF Ensuring, TreePcs
<1>3. CASE TakePorts(r) /\ ~Answer(r)
  <2>1. PICK pool \in SUBSET WPorts :
          wReq' = [wReq EXCEPT ![r].pc = "lock", ![r].pool = pool]
    <3>1. AllocatePorts(PoolSize(wReq[r].op)) \in SUBSET WPorts
      BY DEF AllocatePorts
    <3>2. wCont[wTk(r)].pool \in SUBSET WPorts
      BY <1>0 DEF WsShape, WsContainer
    <3> QED BY <1>3, <3>1, <3>2 DEF TakePorts
  <2>2. After(r, "lock", wReq[r].gen, wReq[r].old)
    BY <1>0, <2>1, Repooling DEF WPcs
  <2> QED BY <1>1, <2>2, Quiet DEF Ensuring, TreePcs
<1>4. CASE Launch(r) /\ ~Answer(r)
  <2>1. After(r, "register", wReq[r].gen, wReq[r].old)
    <3>1. CASE wReq' = [wReq EXCEPT ![r].pc = "register"]
      <4>1. GoTo(r, "register")
        BY <3>1 DEF GoTo
      <4> QED BY <1>0, <4>1, GoingOn DEF WPcs
    <3>2. CASE /\ Cardinality(wCont[wTk(r)].pool) >= 2
               /\ wReq' = [wReq EXCEPT ![r].pc = "register",
                                       ![r].pool = {PickTerminalPort(wTk(r))}]
      <4>1. {PickTerminalPort(wTk(r))} \in SUBSET WPorts
        BY <1>0, <3>2, PickedPort
      <4> QED BY <1>0, <3>2, <4>1, Repooling DEF WPcs
    <3> QED BY <1>4, <3>1, <3>2 DEF Launch
  <2> QED BY <1>1, <2>1, Quiet DEF Ensuring, TreePcs
<1>5. CASE ReleasePorts(r)
  <2>1. After(r, "rm", wReq[r].gen, wReq[r].old)
    BY <1>0, <1>5, GoingOn DEF ReleasePorts, WPcs
  <2> QED BY <1>1, <2>1, Quiet DEF Ensuring, TreePcs
<1> QED BY <1>2, <1>3, <1>4, <1>5 DEF EditorRuns, NotRunning, Register, Kill

-----------------------------------------------------------------------------
(* The worktree.                                                           *)
LEMMA Unlocking ==
  ASSUME WsShape, NEW r \in WReqs, UnlockTree(r)
  PROVE  /\ treeLock' \in [WTickets -> WReqs \cup {NoReq}]
         /\ \A t \in WTickets : treeLock[t] # r => treeLock'[t] = treeLock[t]
<1>1. wTk(r) \in WTickets
  BY DEF WsShape, WsRequest, wTk
<1> QED BY <1>1 DEF UnlockTree, WsShape

LEMMA TreeKept ==
  ASSUME WsInv, NEW r \in WReqs,
         TreeExists(r) \/ TakeTreeLock(r) \/ Recheck(r) \/ Clone(r) \/ AddTree(r)
  PROVE  WsInv'
<1> DEFINE t == wReq[r].tk
<1>0. WsShape /\ wReq[r] \in WsRequest /\ t \in WTickets /\ NoReq \notin WReqs
      /\ HoldsTree(r) /\ wTk(r) = t
  BY WorkspacesAssumption DEF WsInv, WsShape, WsRequest, wTk
<1>1. /\ UNCHANGED <<wItems, wCont, wsLock>>
      /\ wReq[r].pc \in {"tree", "treelock"} \cup TreePcs
  BY DEF TreeExists, TakeTreeLock, Recheck, Clone, AddTree, At, unTree, repoVars, dockerVars,
         mapVars, TreePcs
<1>a. PICK pc \in {"idle", "ports", "treelock"} \cup TreePcs :
        \E gen, old : /\ After(r, pc, gen, old)
                      /\ gen \in {0, wReq[r].gen}
                      /\ \/ GoTo(r, pc) /\ old = wReq[r].old
                         \/ Answer(r) /\ pc = "idle"
  <2>1. CASE Answer(r)
    <3>1. After(r, "idle", 0, FALSE)
      BY <1>0, <2>1, Answering
    <3> QED BY <2>1, <3>1
  <2>2. CASE ~Answer(r)
    <3>1. PICK pc \in {"ports", "treelock"} \cup TreePcs : GoTo(r, pc)
      BY <2>2 DEF TreeExists, TakeTreeLock, Recheck, Clone, AddTree, TreePcs
    <3>2. After(r, pc, wReq[r].gen, wReq[r].old)
      BY <1>0, <3>1, GoingOn DEF WPcs, TreePcs
    <3> QED BY <3>1, <3>2
  <2> QED BY <2>1, <2>2
<1>2. PICK gen, old : /\ After(r, pc, gen, old)
                      /\ gen \in {0, wReq[r].gen}
                      /\ \/ GoTo(r, pc) /\ old = wReq[r].old
                         \/ Answer(r) /\ pc = "idle"
  BY <1>a
<1>3. (\A s \in WReqs : HoldsLock(s)') /\ (\A u \in WTickets : InHands(u)')
  BY <1>1, <1>2, LockQuiet DEF Ensuring, TreePcs
<1>4. treeLock' \in [WTickets -> WReqs \cup {NoReq}]
  <2>1. CASE UnlockTree(r)
    BY <1>0, <2>1, Unlocking
  <2>2. CASE ~UnlockTree(r)
    BY <1>0, <2>2 DEF TreeExists, TakeTreeLock, Recheck, Clone, AddTree, repoVars, WsShape
  <2> QED BY <2>1, <2>2
<1>5. WsShape'
  BY <1>0, <1>1, <1>2, <1>4 DEF After, WsShape
(* The others: the lock they hold is not the one that r gives back.        *)
<1>6. ASSUME NEW s \in WReqs, s # r PROVE HoldsTree(s)'
  <2>1. HoldsTree(s) /\ wReq'[s] = wReq[s] /\ wReq[s].tk \in WTickets
    BY <1>0, <1>2, <1>6 DEF After, WsInv, WsShape, WsRequest
  <2> SUFFICES ASSUME ~wReq[s].old,
                      wReq[s].pc \in TreePcs
               PROVE  /\ treeLock'[wReq[s].tk] = s
                      /\ wReq[s].pc \in {"clone", "add"} /\ wReq[s].tk \notin wStray'
                           => wReq[s].tk \notin wTree'
    BY <1>1, <2>1 DEF HoldsTree, TreePcs
  <2>2. treeLock[wReq[s].tk] = s
    BY <2>1 DEF HoldsTree
  <2>3. treeLock'[wReq[s].tk] = s
    <3>1. CASE UnlockTree(r)
      BY <1>0, <1>6, <2>1, <2>2, <3>1, Unlocking
    <3>2. CASE ~UnlockTree(r)
      BY <1>0, <2>1, <2>2, <3>2 DEF TreeExists, TakeTreeLock, Recheck, Clone, AddTree, repoVars, WsShape
    <3> QED BY <3>1, <3>2
  <2>4. CASE ~AddTree(r)
    <3>1. UNCHANGED <<wTree, wStray>>
      BY <2>4 DEF TreeExists, TakeTreeLock, Recheck, Clone, repoVars
    <3> QED BY <2>1, <2>3, <3>1 DEF HoldsTree
  <2>5. CASE AddTree(r)
    <3>1. wReq[r].pc = "add" /\ wTree' \subseteq wTree \cup {t} /\ wStray \subseteq wStray'
          /\ (wReq[r].old => t \in wStray')
      BY <1>0, <2>5 DEF AddTree, At
    <3>2. wReq[s].tk = t => wReq[r].old
      BY <1>0, <1>6, <2>2, <3>1 DEF HoldsTree, TreePcs
    <3> QED BY <2>1, <2>3, <3>1, <3>2 DEF HoldsTree
  <2> QED BY <2>4, <2>5
<1>7. HoldsTree(r)'
  <2>0. wReq'[r].tk = t /\ wReq'[r].pc = pc /\ wReq'[r].old = old
    BY <1>2 DEF After
  <2>1. CASE pc \in {"idle", "ports"}
    BY <2>0, <2>1 DEF HoldsTree, TreePcs
  <2>2. CASE pc \in {"treelock"} \cup TreePcs
    <3>0. GoTo(r, pc) /\ old = wReq[r].old
      BY <1>2, <2>2 DEF TreePcs
    <3> SUFFICES ASSUME ~wReq[r].old
                 PROVE  /\ t \in wItems
                        /\ pc \in TreePcs => treeLock'[t] = r
                        /\ pc \in {"clone", "add"} /\ t \notin wStray' => t \notin wTree'
      BY <1>1, <2>0, <3>0 DEF HoldsTree
    <3>1. t \in wItems /\ (wReq[r].pc \in TreePcs => treeLock[t] = r)
      BY <1>0, <1>1 DEF HoldsTree
    <3>2. CASE TreeExists(r)
      <4>1. pc \in {"ports", "treelock"}
        BY <1>0, <2>0, <3>0, <3>2, GoingOn DEF TreeExists, WPcs, After
      <4> QED BY <3>1, <4>1 DEF TreePcs
    <3>3. CASE TakeTreeLock(r)
      <4>1. pc = "recheck"
        BY <1>0, <2>0, <3>3, GoingOn DEF TakeTreeLock, WPcs, After
      <4> QED BY <1>0, <3>1, <3>3, <4>1 DEF TakeTreeLock, WsShape
    <3>4. CASE Recheck(r)
      <4>1. wReq[r].pc = "recheck" /\ UNCHANGED <<wTree, wStray>>
        BY <3>4 DEF Recheck, At
      <4>2. CASE wTk(r) \in wTree
        <5>1. pc = "ports"
          BY <1>0, <2>0, <3>4, <4>2, GoingOn DEF Recheck, WPcs, After
        <5> QED BY <2>2, <5>1 DEF TreePcs
      <4>3. CASE wTk(r) \notin wTree
        <5>1. UNCHANGED treeLock
          <6>1. ~Answer(r)
            BY <1>0, <2>0, <2>2, Answering DEF After, TreePcs
          <6> QED BY <3>4, <4>3, <6>1 DEF Recheck
        <5> QED BY <1>0, <3>1, <4>1, <4>3, <5>1 DEF TreePcs
      <4> QED BY <4>2, <4>3
    <3>5. CASE Clone(r)
      <4>1. ~Answer(r)
        BY <1>0, <2>0, <2>2, Answering DEF After, TreePcs
      <4>2. wReq[r].pc = "clone" /\ UNCHANGED <<treeLock, wTree, wStray>>
        BY <3>5, <4>1 DEF Clone, At
      <4> QED BY <1>0, <3>1, <4>2 DEF HoldsTree, TreePcs
    <3>6. CASE AddTree(r)
      <4>1. ~Answer(r)
        BY <1>0, <2>0, <2>2, Answering DEF After, TreePcs
      <4>2. pc = "ports"
        BY <1>0, <2>0, <3>6, <4>1, GoingOn DEF AddTree, WPcs, After
      <4> QED BY <2>2, <4>2 DEF TreePcs
    <3> QED BY <3>2, <3>3, <3>4, <3>5, <3>6
  <2> QED BY <2>1, <2>2
<1> QED BY <1>3, <1>5, <1>6, <1>7 DEF WsInv

-----------------------------------------------------------------------------
(* The container.  What the holder of its lock may make of it: a container *)
(* that was handed out stays usable until it is started again, and one     *)
(* that runs is usable or still being brought up.                          *)
Fits(c0, c, pc, gen) ==
  /\ c.gen >= c0.gen
  /\ c.st = "running" /\ c.gen = c0.gen => c0.st = "running" /\ (Ready(c0) => Ready(c))
  /\ pc = "create" => c.st = "absent"
  /\ pc = "init" /\ c.st = "running" => c.egress
  /\ gen <= c.gen
  /\ pc = "ready" /\ c.st = "running" /\ gen = c.gen => Ready(c)
  /\ c.st = "running" => /\ c.gen > 0 /\ (c.inited => c.egress)
                         /\ Ready(c) \/ pc \in {"egress_new", "egress_old", "init"}

LEMMA LockStep ==
  ASSUME WsInv, NEW r \in WReqs, NEW pc, NEW gen \in Nat, NEW old, NEW c,
         After(r, pc, gen, old), Becomes(wTk(r), c), wsLock[wTk(r)] \in {r, NoReq},
         \A u \in WTickets \ {wTk(r)} : wsLock'[u] = wsLock[u],
         pc \in Ensuring => wsLock'[wTk(r)] = r,
         Fits(wCont[wTk(r)], c, pc, gen)
  PROVE  /\ \A s \in WReqs : HoldsLock(s)'
         /\ \A t \in WTickets : InHands(t)'
<1>t. PICK t \in WTickets : t = wTk(r)
  BY DEF WsInv, WsShape, WsRequest, wTk
<1>0. /\ t = wTk(r) /\ t = wReq[r].tk /\ NoReq \notin WReqs
      /\ wCont[t].gen \in Nat /\ c.gen \in Nat
  BY <1>t, WorkspacesAssumption DEF WsInv, WsShape, WsRequest, WsContainer, wTk, HoldsLock, Becomes
<1>1. ASSUME NEW s \in WReqs, s # r PROVE HoldsLock(s)'
  <2>1. HoldsLock(s) /\ wReq'[s] = wReq[s] /\ wReq[s].tk \in WTickets
        /\ wReq[s].gen \in Nat
    BY <1>1 DEF After, WsInv, WsShape, WsRequest
  <2>2. CASE wReq[s].tk = t
    <3>1. wReq[s].pc \notin Ensuring
      BY <1>0, <1>1, <2>1, <2>2 DEF HoldsLock
    <3>2. wCont'[t] = c
      BY <1>0 DEF Becomes
    <3>3. wReq[s].gen <= wCont[t].gen /\ wReq[s].gen <= c.gen
      BY <1>0, <2>1, <2>2 DEF HoldsLock, Fits
    <3>4. ASSUME wReq[s].pc = "ready", c.st = "running", wReq[s].gen = c.gen
          PROVE  Ready(c)
      <4>1. c.gen = wCont[t].gen
        BY <1>0, <2>1, <3>3, <3>4 DEF Fits
      <4>2. wCont[t].st = "running" /\ (Ready(wCont[t]) => Ready(c))
        BY <1>0, <3>4, <4>1 DEF Fits
      <4>3. Ready(wCont[t])
        BY <2>1, <2>2, <3>4, <4>1, <4>2 DEF HoldsLock
      <4> QED BY <4>2, <4>3
    <3> QED BY <2>1, <2>2, <3>1, <3>2, <3>3, <3>4 DEF HoldsLock, Ensuring
  <2>3. CASE wReq[s].tk # t
    BY <1>0, <2>1, <2>3 DEF HoldsLock, Becomes
  <2> QED BY <2>2, <2>3
<1>2. HoldsLock(r)'
  <2>1. wReq'[r].tk = t /\ wReq'[r].pc = pc /\ wReq'[r].gen = gen /\ wCont'[t] = c
    BY <1>0 DEF After, Becomes
  <2> QED BY <1>0, <2>1 DEF HoldsLock, Fits, wTk
<1>3. ASSUME NEW u \in WTickets PROVE InHands(u)'
  <2>1. InHands(u) /\ wsLock[u] \in WReqs \cup {NoReq}
    BY DEF WsInv, WsShape
  <2>2. CASE u = t
    <3>1. wCont'[t] = c
      BY <1>0 DEF Becomes
    <3>2. pc \in {"egress_new", "egress_old", "init"} => AtWork(wsLock[t], t)'
      BY <1>0 DEF AtWork, After, Ensuring
    <3> QED BY <1>0, <2>2, <3>1, <3>2 DEF InHands, Fits
  <2>3. CASE u # t
    <3>1. wCont'[u] = wCont[u] /\ wsLock'[u] = wsLock[u]
      BY <1>0, <2>3 DEF Becomes
    <3>2. AtWork(wsLock[u], u) => AtWork(wsLock[u], u)'
      BY <1>0, <2>1, <2>3, <3>1 DEF AtWork, After
    <3> QED BY <2>1, <3>1, <3>2 DEF InHands
  <2> QED BY <2>2, <2>3
<1> QED BY <1>1, <1>2, <1>3

(* From here it is enough to say what becomes of the container.            *)
LEMMA Ensured ==
  ASSUME WsInv, NEW r \in WReqs, NEW pc, NEW gen \in Nat, NEW old, NEW c,
         NEW h \in {r, NoReq},
         After(r, pc, gen, old), Becomes(wTk(r), c), wsLock[wTk(r)] \in {r, NoReq},
         pc \in Ensuring \cup {"ready", "idle"},
         wsLock' = [wsLock EXCEPT ![wTk(r)] = h], pc \in Ensuring => h = r,
         UNCHANGED <<wItems, wTree, treeLock, wStray>>,
         Fits(wCont[wTk(r)], c, pc, gen)
  PROVE  WsInv'
<1>1. wTk(r) \in WTickets
  BY DEF WsInv, WsShape, WsRequest, wTk
<1>2. /\ wsLock' \in [WTickets -> WReqs \cup {NoReq}]
      /\ \A u \in WTickets \ {wTk(r)} : wsLock'[u] = wsLock[u]
      /\ pc \in Ensuring => wsLock'[wTk(r)] = r
  BY <1>1 DEF WsInv, WsShape
<1>3. WsShape'
  BY <1>2 DEF WsInv, WsShape, After, Becomes
<1>4. \A s \in WReqs : HoldsTree(s)'
  BY TreeQuiet DEF TreePcs, Ensuring
<1>5. (\A s \in WReqs : HoldsLock(s)') /\ (\A t \in WTickets : InHands(t)')
  BY <1>2, LockStep
<1> QED BY <1>3, <1>4, <1>5 DEF WsInv

LEMMA TakeWsLockKept ==
  ASSUME WsInv, NEW r \in WReqs, TakeWsLock(r)
  PROVE  WsInv'
<1> DEFINE t == wTk(r)
           c0 == wCont[t]
<1>0. WsShape /\ t \in WTickets /\ InHands(t) /\ HoldsLock(r) /\ t = wReq[r].tk
  BY DEF WsInv, WsShape, WsRequest, wTk
<1>1. /\ wsLock[t] = NoReq /\ wsLock' = [wsLock EXCEPT ![t] = r]
      /\ UNCHANGED <<wItems, wTree, treeLock, wStray, wCont>> /\ GoTo(r, "status")
  BY DEF TakeWsLock, unEnsure, repoVars, mapVars, dockerVars
<1>2. After(r, "status", wReq[r].gen, wReq[r].old) /\ Becomes(t, c0)
  BY <1>0, <1>1, GoingOn DEF WPcs, Becomes, WsShape
<1>3. c0.gen \in Nat /\ wReq[r].gen \in Nat /\ wReq[r].gen <= c0.gen
  BY <1>0 DEF WsShape, WsContainer, WsRequest, HoldsLock
<1>4. c0.st = "running" => Ready(c0) /\ c0.gen > 0 /\ (c0.inited => c0.egress)
  BY <1>0, <1>1 DEF InHands, AtWork
<1>5. Fits(c0, c0, "status", wReq[r].gen)
  BY <1>3, <1>4 DEF Fits
<1> QED BY <1>1, <1>2, <1>3, <1>5, Ensured DEF Ensuring

LEMMA EnsureKept ==
  ASSUME WsInv, NEW r \in WReqs,
         StatusRunning(r) \/ StatusStopped(r) \/ StatusAbsent(r) \/ Create(r)
           \/ Egress(r) \/ InitCommands(r)
  PROVE  WsInv'
<1> DEFINE t == wTk(r)
           c0 == wCont[t]
<1>0. /\ WsShape /\ wReq[r] \in WsRequest /\ t \in WTickets /\ t = wReq[r].tk
      /\ HoldsLock(r) /\ c0 \in WsContainer
  BY DEF WsInv, WsShape, WsRequest, wTk
<1>1. /\ UNCHANGED <<wItems, wTree, treeLock, wStray>>
      /\ wReq[r].pc \in Ensuring
  BY DEF StatusRunning, StatusStopped, StatusAbsent, Create, Egress, InitCommands, At,
         unEnsure, repoVars, mapVars, Ensuring
<1>2. /\ wsLock[t] = r /\ r # NoReq /\ InHands(t)
      /\ c0.gen \in Nat /\ wReq[r].gen \in Nat /\ wReq[r].gen <= c0.gen
  BY <1>0, <1>1, WorkspacesAssumption DEF WsInv, HoldsLock, WsContainer, WsRequest
<1>3. UNCHANGED wCont => Becomes(t, c0)
  BY <1>0 DEF Becomes, WsShape
<1>a. /\ UNCHANGED wsLock => wsLock' = [wsLock EXCEPT ![t] = r]
      /\ UnlockWs(r) => wsLock' = [wsLock EXCEPT ![t] = NoReq]
  BY <1>0, <1>2 DEF UnlockWs, WsShape
(* An answer leaves what does not run, or is usable, as it is.             *)
<1>4. ASSUME Answer(r), UnlockWs(r), UNCHANGED wCont, c0.st # "running"
      PROVE  WsInv'
  <2>1. After(r, "idle", 0, FALSE) /\ Becomes(t, c0)
    BY <1>0, <1>3, <1>4, Answering
  <2>2. Fits(c0, c0, "idle", 0)
    BY <1>2, <1>4 DEF Fits
  <2> QED BY <1>a, <1>1, <1>2, <1>4, <2>1, <2>2, Ensured DEF Ensuring
<1>5. CASE StatusRunning(r)
  <2>1. c0.st = "running" /\ wReq[r].pc = "status" /\ UnlockWs(r)
    BY <1>5 DEF StatusRunning, At
  <2>2. Ready(c0) /\ c0.gen > 0 /\ (c0.inited => c0.egress)
    BY <1>0, <1>2, <2>1 DEF InHands, AtWork
  <2>3. After(r, "ready", c0.gen, wReq[r].old)
    BY <1>0, <1>5, HandingBack DEF StatusRunning
  <2>4. PICK c \in {c0, [c0 EXCEPT !.egress = TRUE]} : Becomes(t, c)
    BY <1>0, <1>3, <1>5, Allowed, Setting DEF StatusRunning
  <2>5. Fits(c0, c, "ready", c0.gen)
    <3>1. c.gen = c0.gen /\ c.st = c0.st
      BY <1>0, <2>4, Allowed
    <3>2. Ready(c) /\ (c.inited => c.egress)
      <4>1. CASE c = c0
        BY <2>2, <4>1
      <4>2. CASE c = [c0 EXCEPT !.egress = TRUE]
        BY <1>0, <2>2, <4>2, Allowed DEF Ready
      <4> QED BY <2>4, <4>1, <4>2
    <3> QED BY <1>2, <2>1, <2>2, <3>1, <3>2 DEF Fits
  <2> QED BY <1>a, <1>1, <1>2, <2>1, <2>3, <2>4, <2>5, Ensured DEF Ensuring
<1>6. CASE StatusStopped(r)
  <2>1. c0.st = "stopped"
    BY <1>6 DEF StatusStopped
  <2>2. CASE Answer(r)
    <3>1. ~GoTo(r, "egress_old")
      BY <1>0, <2>2, Answering, GoingOn DEF After, WPcs
    <3>2. UnlockWs(r) /\ UNCHANGED wCont
      BY <1>6, <3>1 DEF StatusStopped
    <3> QED BY <1>4, <2>1, <2>2, <3>2
  <2>3. CASE ~Answer(r)
    <3> DEFINE c == BroughtUp(t, c0.pool)
    <3>1. GoTo(r, "egress_old") /\ SetCont(t, c) /\ UNCHANGED wsLock
      BY <1>6, <2>3 DEF StatusStopped
    <3>2. /\ c \in WsContainer /\ c.st = "running" /\ c.gen = c0.gen + 1 /\ c.inited = FALSE
      BY <1>0, Fresh DEF WsContainer
    <3>3. Becomes(t, c) /\ After(r, "egress_old", wReq[r].gen, wReq[r].old)
      BY <1>0, <3>1, <3>2, Setting, GoingOn DEF WPcs
    <3> HIDE DEF c
    <3>4. Fits(c0, c, "egress_old", wReq[r].gen)
      BY <1>2, <3>2 DEF Fits
    <3> QED BY <1>a, <1>1, <1>2, <3>1, <3>3, <3>4, Ensured DEF Ensuring
  <2> QED BY <2>2, <2>3
<1>7. CASE StatusAbsent(r)
  <2>1. c0.st = "absent" /\ UNCHANGED <<wCont, wsLock>> /\ GoTo(r, "create")
    BY <1>7 DEF StatusAbsent, dockerVars
  <2>2. After(r, "create", wReq[r].gen, wReq[r].old)
    BY <1>0, <2>1, GoingOn DEF WPcs
  <2>3. Fits(c0, c0, "create", wReq[r].gen)
    BY <1>2, <2>1 DEF Fits
  <2> QED BY <1>a, <1>1, <1>2, <1>3, <2>1, <2>2, <2>3, Ensured DEF Ensuring
<1>8. CASE Create(r)
  <2>1. c0.st = "absent"
    BY <1>0, <1>8 DEF Create, HoldsLock, At
  <2>2. CASE Answer(r)
    <3>1. ~GoTo(r, "egress_new")
      BY <1>0, <2>2, Answering, GoingOn DEF After, WPcs
    <3>2. UnlockWs(r) /\ UNCHANGED wCont
      BY <1>8, <3>1 DEF Create
    <3> QED BY <1>4, <2>1, <2>2, <3>2
  <2>3. CASE ~Answer(r)
    <3> DEFINE c == BroughtUp(t, wReq[r].pool)
    <3>1. GoTo(r, "egress_new") /\ SetCont(t, c) /\ UNCHANGED wsLock
      BY <1>8, <2>3 DEF Create
    <3>2. /\ c \in WsContainer /\ c.st = "running" /\ c.gen = c0.gen + 1 /\ c.inited = FALSE
      <4>1. wReq[r].pool \in SUBSET WPorts
        BY <1>0 DEF WsRequest
      <4> QED BY <1>0, <4>1, Fresh
    <3>3. Becomes(t, c) /\ After(r, "egress_new", wReq[r].gen, wReq[r].old)
      BY <1>0, <3>1, <3>2, Setting, GoingOn DEF WPcs
    <3> HIDE DEF c
    <3>4. Fits(c0, c, "egress_new", wReq[r].gen)
      BY <1>2, <3>2 DEF Fits
    <3> QED BY <1>a, <1>1, <1>2, <3>1, <3>3, <3>4, Ensured DEF Ensuring
  <2> QED BY <2>2, <2>3
<1>9. CASE Egress(r)
  <2>1. CASE Answer(r)
    <3>1. ~GoTo(r, "init")
      BY <1>0, <2>1, Answering, GoingOn DEF After, WPcs
    <3>2. UnlockWs(r) /\ After(r, "idle", 0, FALSE)
      BY <1>0, <1>9, <2>1, <3>1, Answering DEF Egress
    <3>3. PICK c \in WsContainer : SetCont(t, c) /\ Fits(c0, c, "idle", 0)
      <4>1. CASE At(r, "egress_new")
        <5> DEFINE c == [NoCont EXCEPT !.gen = c0.gen]
        <5>1. SetCont(t, c)
          BY <1>9, <3>1, <4>1 DEF Egress
        <5>2. c \in WsContainer /\ c.st = "absent" /\ c.gen = c0.gen
          BY <1>0, Gone
        <5> HIDE DEF c
        <5>3. Fits(c0, c, "idle", 0)
          BY <1>2, <5>2 DEF Fits
        <5> QED BY <5>1, <5>2, <5>3
      <4>2. CASE ~At(r, "egress_new") /\ c0.st # "running"
        <5>1. SetCont(t, c0)
          BY <1>9, <3>1, <4>2 DEF Egress
        <5>2. Fits(c0, c0, "idle", 0)
          BY <1>2, <4>2 DEF Fits
        <5> QED BY <1>0, <5>1, <5>2
      <4>3. CASE ~At(r, "egress_new") /\ c0.st = "running"
        <5> DEFINE c == [c0 EXCEPT !.cut = TRUE]
        <5>1. SetCont(t, c)
          BY <1>9, <3>1, <4>3 DEF Egress
        <5>2. c \in WsContainer /\ c.st = "running" /\ c.gen = c0.gen /\ Ready(c)
          BY <1>0, <4>3, GivenUp DEF Ready
        <5>3. c0.gen > 0 /\ (c.inited => c.egress)
          BY <1>0, <1>2, <4>3, GivenUp DEF InHands
        <5> HIDE DEF c
        <5>4. Fits(c0, c, "idle", 0)
          BY <1>2, <4>3, <5>2, <5>3 DEF Fits
        <5> QED BY <5>1, <5>2, <5>4
      <4> QED BY <4>1, <4>2, <4>3
    <3>4. Becomes(t, c)
      BY <1>0, <3>3, Setting
    <3> QED BY <1>a, <1>1, <1>2, <3>2, <3>3, <3>4, Ensured DEF Ensuring
  <2>2. CASE ~Answer(r)
    <3> DEFINE c == [c0 EXCEPT !.egress = TRUE]
    <3>1. c0.st = "running" /\ SetCont(t, c) /\ GoTo(r, "init") /\ UNCHANGED wsLock
      BY <1>9, <2>2 DEF Egress
    <3>2. c \in WsContainer /\ c.st = "running" /\ c.gen = c0.gen /\ c.egress
          /\ (Ready(c0) => Ready(c)) /\ c0.gen > 0
      BY <1>0, <1>2, <3>1, Allowed DEF Ready, InHands
    <3>3. Becomes(t, c) /\ After(r, "init", wReq[r].gen, wReq[r].old)
      BY <1>0, <3>1, <3>2, Setting, GoingOn DEF WPcs
    <3> HIDE DEF c
    <3>4. Fits(c0, c, "init", wReq[r].gen)
      BY <1>2, <3>1, <3>2 DEF Fits
    <3> QED BY <1>a, <1>1, <1>2, <3>1, <3>3, <3>4, Ensured DEF Ensuring
  <2> QED BY <2>1, <2>2
<1>10. CASE InitCommands(r)
  <2>1. UnlockWs(r) /\ After(r, "ready", c0.gen, wReq[r].old)
    BY <1>0, <1>10, HandingBack DEF InitCommands
  <2>2. PICK c \in WsContainer : SetCont(t, c) /\ Fits(c0, c, "ready", c0.gen)
    <3>1. CASE c0.st = "running"
      <4> DEFINE c == [c0 EXCEPT !.inited = TRUE]
      <4>1. SetCont(t, c)
        BY <1>10, <3>1 DEF InitCommands
      <4>2. c0.egress
        BY <1>0, <1>10, <3>1 DEF InitCommands, At, HoldsLock
      <4>3. c \in WsContainer /\ c.st = "running" /\ c.gen = c0.gen /\ c.egress /\ Ready(c)
            /\ c0.gen > 0
        BY <1>0, <1>2, <3>1, <4>2, Initialised DEF Ready, InHands
      <4> HIDE DEF c
      <4>4. Fits(c0, c, "ready", c0.gen)
        BY <1>2, <3>1, <4>3 DEF Fits
      <4> QED BY <4>1, <4>3, <4>4
    <3>2. CASE c0.st # "running"
      <4>1. SetCont(t, c0) /\ Fits(c0, c0, "ready", c0.gen)
        BY <1>2, <1>10, <3>2 DEF InitCommands, Fits
      <4> QED BY <1>0, <4>1
    <3> QED BY <3>1, <3>2
  <2>3. Becomes(t, c)
    BY <1>0, <2>2, Setting
  <2> QED BY <1>a, <1>1, <1>2, <2>1, <2>2, <2>3, Ensured DEF Ensuring
<1> QED BY <1>5, <1>6, <1>7, <1>8, <1>9, <1>10

-----------------------------------------------------------------------------
(* A container that is removed or stops.                                   *)
LEMMA Falling ==
  ASSUME WsInv, NEW t \in WTickets, NEW c, Becomes(t, c),
         c.st # "running", c.gen = wCont[t].gen,
         wCont[t].st = "absent" => c.st = "absent",
         UNCHANGED <<wsLock, wItems, wTree, treeLock, wStray>>,
         wReq' \in [WReqs -> WsRequest],
         \A s \in WReqs : \/ wReq'[s] = wReq[s]
                          \/ /\ wReq[s].pc = "rm" /\ wReq'[s].tk = wReq[s].tk
                             /\ wReq'[s].pc = "idle" /\ wReq'[s].gen = 0
  PROVE  WsInv'
<1>0. wCont'[t] = c /\ wCont[t].gen \in Nat
  BY DEF Becomes, WsInv, WsShape, WsContainer
<1>1. WsShape'
  BY DEF WsInv, WsShape, Becomes
<1>2. ASSUME NEW s \in WReqs PROVE HoldsLock(s)'
  <2>1. HoldsLock(s) /\ wReq[s].tk \in WTickets /\ wCont[wReq[s].tk].gen \in Nat
    BY DEF WsInv, WsShape, WsRequest, WsContainer
  <2>2. wCont'[wReq[s].tk].gen = wCont[wReq[s].tk].gen
    BY <1>0, <2>1 DEF Becomes
  <2>3. CASE wReq'[s] = wReq[s]
    <3>1. CASE wReq[s].tk = t
      BY <1>0, <2>1, <2>2, <2>3, <3>1 DEF HoldsLock
    <3>2. CASE wReq[s].tk # t
      BY <2>1, <2>3, <3>2 DEF HoldsLock, Becomes
    <3> QED BY <3>1, <3>2
  <2>4. CASE wReq'[s].tk = wReq[s].tk /\ wReq'[s].pc = "idle" /\ wReq'[s].gen = 0
    BY <2>1, <2>2, <2>4 DEF HoldsLock, Ensuring
  <2> QED BY <2>3, <2>4
<1>3. ASSUME NEW s \in WReqs PROVE HoldsTree(s)'
  <2>1. HoldsTree(s)
    BY DEF WsInv
  <2>2. CASE wReq'[s] = wReq[s]
    BY <2>1, <2>2 DEF HoldsTree
  <2>3. CASE wReq'[s].pc = "idle"
    BY <2>3 DEF HoldsTree, TreePcs
  <2> QED BY <2>2, <2>3
<1>4. ASSUME NEW u \in WTickets PROVE InHands(u)'
  <2>1. InHands(u) /\ wsLock[u] \in WReqs \cup {NoReq} /\ NoReq \notin WReqs
    BY WorkspacesAssumption DEF WsInv, WsShape
  <2>2. CASE u = t
    BY <1>0, <2>2 DEF InHands
  <2>3. CASE u # t
    <3>1. wCont'[u] = wCont[u]
      BY <2>3 DEF Becomes
    <3>2. AtWork(wsLock[u], u) => AtWork(wsLock[u], u)'
      BY <2>1 DEF AtWork
    <3> QED BY <2>1, <3>1, <3>2 DEF InHands
  <2> QED BY <2>2, <2>3
<1> QED BY <1>1, <1>2, <1>3, <1>4 DEF WsInv

LEMMA RemoveKept ==
  ASSUME WsInv, NEW r \in WReqs, RemoveContainer(r)
  PROVE  WsInv'
<1> DEFINE t == wTk(r)
<1>0. WsShape /\ t \in WTickets
  BY DEF WsInv, WsShape, WsRequest, wTk
<1>1. After(r, "idle", 0, FALSE)
  BY <1>0, Answering DEF RemoveContainer
<1>2. UNCHANGED <<wsLock, wItems, wTree, treeLock, wStray>> /\ wReq[r].pc = "rm"
  BY DEF RemoveContainer, repoVars, mapVars, At
<1>3. CASE UNCHANGED wCont
  BY <1>1, <1>2, <1>3, Quiet DEF TreePcs, Ensuring
<1>4. CASE SetCont(t, [NoCont EXCEPT !.gen = wCont[t].gen])
  <2> DEFINE c == [NoCont EXCEPT !.gen = wCont[t].gen]
  <2>1. c \in WsContainer /\ c.st = "absent" /\ c.gen = wCont[t].gen
    BY <1>0, Gone
  <2>2. Becomes(t, c)
    BY <1>0, <1>4, <2>1, Setting
  <2> HIDE DEF c
  <2> QED BY <1>0, <1>1, <1>2, <2>1, <2>2, Falling DEF After
<1> QED BY <1>3, <1>4 DEF RemoveContainer, dockerVars

LEMMA DaemonKept ==
  ASSUME WsInv, NEW t \in WTickets, DaemonStops(t)
  PROVE  WsInv'
<1> DEFINE c == [wCont[t] EXCEPT !.st = "stopped"]
<1>0. WsShape /\ wCont[t] \in WsContainer
  BY DEF WsInv, WsShape
<1>1. c \in WsContainer /\ c.st = "stopped" /\ c.gen = wCont[t].gen
  BY <1>0, Stopping
<1>2. Becomes(t, c)
  BY <1>0, <1>1, Setting DEF DaemonStops
<1>3. UNCHANGED <<wsLock, wItems, wTree, treeLock, wStray, wReq>> /\ wCont[t].st = "running"
  BY DEF DaemonStops, repoVars, mapVars
<1> HIDE DEF c
<1> QED BY <1>0, <1>1, <1>2, <1>3, Falling DEF WsShape

-----------------------------------------------------------------------------
(* Requests arrive; items come back; the server starts again.              *)
LEMMA RequestKept ==
  ASSUME WsInv, NEW r \in WReqs, NEW op \in WOps, NEW t \in WTickets, Request(r, op, t)
  PROVE  WsInv'
<1> DEFINE q0 == [IdleReq(t) EXCEPT !.op = op, !.pc = FirstPc(op, t)]
           q(s) == [wReq[s] EXCEPT !.old = @ \/ (op = "delete" /\ wTk(s) = t /\ ~At(s, "idle"))]
<1>0. /\ WsShape /\ t \in wItems /\ wReq[r].pc = "idle" /\ InHands(t)
      /\ UNCHANGED <<treeLock, wStray, wCont, wsLock>>
  BY DEF WsInv, Request, At
<1>1. /\ FirstPc(op, t) \in {"tree", "ready", "ports", "kill", "release"}
      /\ FirstPc(op, t) = "tree" => op # "delete"
      /\ FirstPc(op, t) = "ready" => wCont[t].st = "running"
  BY DEF FirstPc, WOps
<1>2. q0 \in WsRequest /\ q0.tk = t /\ q0.pc = FirstPc(op, t) /\ q0.gen = 0
  BY <1>1 DEF WsRequest, IdleReq, WPcs
<1>3. ASSUME NEW s \in WReqs
      PROVE  /\ q(s) \in WsRequest /\ q(s).tk = wReq[s].tk /\ q(s).pc = wReq[s].pc
             /\ q(s).gen = wReq[s].gen
             /\ ~q(s).old => ~wReq[s].old
             /\ op = "delete" /\ wReq[s].tk = t /\ wReq[s].pc # "idle" => q(s).old
  <2>1. wReq[s] \in WsRequest
    BY <1>0 DEF WsShape
  <2>2. (wReq[s].old \/ (op = "delete" /\ wTk(s) = t /\ ~At(s, "idle"))) \in BOOLEAN
    BY Zenon
  <2>3. q(s) \in WsRequest
    BY <2>1, <2>2 DEF WsRequest
  <2>4. q(s).old = (wReq[s].old \/ (op = "delete" /\ wTk(s) = t /\ ~At(s, "idle")))
    BY <2>1, Zenon DEF WsRequest
  <2> QED BY <2>1, <2>3, <2>4, Zenon DEF WsRequest, wTk, At
<1>4. /\ wReq'[r] = q0
      /\ \A s \in WReqs \ {r} : wReq'[s] = q(s)
      /\ wReq' \in [WReqs -> WsRequest]
  <2>1. wReq' = [s \in WReqs |-> IF s = r THEN q0 ELSE q(s)]
    BY DEF Request
  <2> HIDE DEF q0, q
  <2> QED BY <1>2, <1>3, <2>1
<1> HIDE DEF q0, q
<1>5. /\ wItems' \subseteq wItems /\ (op # "delete" => wItems' = wItems)
      /\ wItems \ {t} \subseteq wItems' /\ wTree' \subseteq wTree
  BY DEF Request, Arrive
<1>6. WsShape'
  BY <1>0, <1>4 DEF WsShape
<1>7. HoldsLock(r)'
  <2>1. wCont[t].gen \in Nat /\ (wCont[t].st = "running" => wCont[t].gen > 0)
    BY <1>0 DEF InHands, WsShape, WsContainer
  <2> QED BY <1>0, <1>1, <1>2, <1>4, <2>1 DEF HoldsLock, Ensuring
<1>8. HoldsTree(r)'
  BY <1>0, <1>1, <1>2, <1>4, <1>5 DEF HoldsTree, TreePcs
<1>9. ASSUME NEW s \in WReqs, s # r PROVE HoldsLock(s)' /\ HoldsTree(s)'
  <2>0. wReq'[s] = q(s) /\ HoldsLock(s) /\ HoldsTree(s) /\ wReq[s].tk \in WTickets
    BY <1>0, <1>4, <1>9 DEF WsInv, WsShape, WsRequest
  <2>1. HoldsLock(s)'
    BY <1>0, <1>3, <2>0 DEF HoldsLock
  <2>2. HoldsTree(s)'
    <3> SUFFICES ASSUME ~q(s).old, wReq[s].pc \in {"tree", "treelock"} \cup TreePcs
                 PROVE  /\ wReq[s].tk \in wItems'
                        /\ wReq[s].pc \in TreePcs => treeLock[wReq[s].tk] = s
                        /\ wReq[s].pc \in {"clone", "add"} /\ wReq[s].tk \notin wStray
                             => wReq[s].tk \notin wTree'
      BY <1>0, <1>3, <2>0 DEF HoldsTree, TreePcs
    <3>1. ~wReq[s].old /\ ~(op = "delete" /\ wReq[s].tk = t)
      BY <1>3 DEF TreePcs
    <3> QED BY <1>5, <2>0, <3>1 DEF HoldsTree
  <2> QED BY <2>1, <2>2
<1>10. ASSUME NEW u \in WTickets PROVE InHands(u)'
  <2>1. InHands(u) /\ wsLock[u] \in WReqs \cup {NoReq} /\ NoReq \notin WReqs
    BY WorkspacesAssumption DEF WsInv, WsShape
  <2>2. AtWork(wsLock[u], u) => AtWork(wsLock[u], u)'
    BY <1>0, <1>3, <1>4, <2>1 DEF AtWork
  <2> QED BY <1>0, <2>1, <2>2 DEF InHands
<1> QED BY <1>6, <1>7, <1>8, <1>9, <1>10 DEF WsInv

LEMMA RestartedKept ==
  ASSUME WsInv, NEW t \in WTickets, Restarted(t)
  PROVE  WsInv'
<1>1. /\ t \notin wItems /\ wItems \subseteq wItems' /\ wTree' = wTree \cup {t}
      /\ UNCHANGED <<wStray, wCont, wsLock, wReq>>
      /\ treeLock' = [treeLock EXCEPT ![t] = NoReq]
  BY DEF Restarted
<1>2. WsShape'
  BY <1>1 DEF WsInv, WsShape
<1>3. ASSUME NEW s \in WReqs PROVE HoldsTree(s)'
  <2>1. HoldsTree(s)
    BY DEF WsInv
  <2>2. ~wReq[s].old /\ wReq[s].pc \in {"tree", "treelock"} \cup TreePcs => wReq[s].tk # t
    BY <1>1, <2>1 DEF HoldsTree
  <2>3. \A u \in WTickets : u # t => treeLock'[u] = treeLock[u]
    BY <1>1 DEF WsInv, WsShape
  <2>4. wReq[s].tk \in WTickets
    BY DEF WsInv, WsShape, WsRequest
  <2> QED BY <1>1, <2>1, <2>2, <2>3, <2>4 DEF HoldsTree, TreePcs
<1>4. ASSUME NEW s \in WReqs PROVE HoldsLock(s)'
  BY <1>1 DEF WsInv, HoldsLock
<1>5. ASSUME NEW u \in WTickets PROVE InHands(u)'
  <2>1. InHands(u)
    BY DEF WsInv
  <2> QED BY <1>1, <2>1 DEF InHands, AtWork
<1> QED BY <1>2, <1>3, <1>4, <1>5 DEF WsInv

LEMMA ServerRestartKept ==
  ASSUME WsInv, ServerRestart
  PROVE  WsInv'
<1> DEFINE c(t) == [wCont[t] EXCEPT !.cut = @ \/ (wCont[t].st = "running" /\ ~wCont[t].inited)]
           g(t) == [NoCont EXCEPT !.gen = wCont[t].gen]
<1>0. WsShape
  BY DEF WsInv
<1>1. ASSUME NEW t \in WTickets
      PROVE  /\ c(t) \in WsContainer /\ c(t).st = wCont[t].st /\ c(t).gen = wCont[t].gen
             /\ c(t).egress = wCont[t].egress /\ c(t).inited = wCont[t].inited
             /\ c(t).st = "running" /\ ~c(t).inited => c(t).cut
  <2>1. wCont[t] \in WsContainer
    BY <1>0 DEF WsShape
  <2>2. (wCont[t].cut \/ (wCont[t].st = "running" /\ ~wCont[t].inited)) \in BOOLEAN
    BY Zenon
  <2>3. c(t) \in WsContainer
    BY <2>1, <2>2 DEF WsContainer
  <2> QED BY <2>1, <2>3, Zenon DEF WsContainer
<1>2. ASSUME NEW t \in WTickets
      PROVE  g(t) \in WsContainer /\ g(t).st = "absent" /\ g(t).gen = wCont[t].gen
  BY <1>0, Gone
<1>3. /\ \A t \in WTickets : wCont'[t] \in {c(t), g(t)}
      /\ wCont' \in [WTickets -> WsContainer]
  <2>1. wCont' = [t \in WTickets |-> IF t \notin wItems THEN g(t) ELSE c(t)]
    BY DEF ServerRestart
  <2> HIDE DEF c, g
  <2> QED BY <1>1, <1>2, <2>1
<1> HIDE DEF c, g
<1>4. /\ wReq' \in [WReqs -> WsRequest]
      /\ \A s \in WReqs : wReq'[s].pc = "idle" /\ wReq'[s].gen = 0 /\ wReq'[s].tk \in WTickets
  <2>1. ASSUME NEW s \in WReqs PROVE IdleReq(wTk(s)) \in WsRequest
    BY <1>0 DEF WsShape, WsRequest, IdleReq, WPcs, wTk
  <2>2. wReq' = [s \in WReqs |-> IdleReq(wTk(s))]
    BY DEF ServerRestart
  <2>3. \A s \in WReqs : wReq'[s] = IdleReq(wTk(s))
    BY <2>2
  <2>4. \A s \in WReqs : IdleReq(wTk(s)).pc = "idle" /\ IdleReq(wTk(s)).gen = 0
    BY DEF IdleReq
  <2>5. wReq' \in [WReqs -> WsRequest]
    BY <2>1, <2>2
  <2> QED BY <2>3, <2>4, <2>5 DEF WsRequest
<1>5. WsShape'
  BY <1>3, <1>4 DEF WsShape, ServerRestart
<1>6. ASSUME NEW s \in WReqs PROVE HoldsLock(s)' /\ HoldsTree(s)'
  <2>1. wCont'[wReq'[s].tk].gen \in Nat
    BY <1>3, <1>4 DEF WsContainer
  <2> QED BY <1>4, <2>1 DEF HoldsLock, HoldsTree, Ensuring, TreePcs
<1>7. ASSUME NEW t \in WTickets PROVE InHands(t)'
  <2>1. InHands(t)
    BY DEF WsInv
  <2>2. CASE wCont'[t] = g(t)
    BY <1>2, <2>2 DEF InHands
  <2>3. CASE wCont'[t] = c(t)
    <3> SUFFICES ASSUME c(t).st = "running"
                 PROVE  c(t).gen > 0 /\ (c(t).inited => c(t).egress) /\ Ready(c(t))
      BY <2>3 DEF InHands
    <3>1. wCont[t].gen > 0 /\ (wCont[t].inited => wCont[t].egress)
      BY <1>1, <2>1 DEF InHands
    <3> QED BY <1>1, <3>1 DEF Ready
  <2> QED BY <1>3, <2>2, <2>3
<1> QED BY <1>5, <1>6, <1>7 DEF WsInv

LEMMA WsNextKept == WsInv /\ [WsNext]_wsVars => WsInv'
<1> SUFFICES ASSUME WsInv, [WsNext]_wsVars PROVE WsInv'
  OBVIOUS
<1>1. CASE \E t \in WTickets : ReuseTerminal(t) \/ CommandEnds(t)
  <2>1. UNCHANGED <<wItems, wTree, treeLock, wStray, wCont, wsLock, wReq>>
    BY <1>1 DEF ReuseTerminal, CommandEnds, unUse, repoVars
  <2> QED BY <2>1 DEF WsInv, WsShape, HoldsLock, HoldsTree, InHands, AtWork
<1>2. CASE UNCHANGED wsVars
  BY <1>2 DEF wsVars, WsInv, WsShape, HoldsLock, HoldsTree, InHands, AtWork
<1>3. CASE \E r \in WReqs : WsStep(r)
  BY <1>3, UseKept, TreeKept, TakeWsLockKept, EnsureKept, RemoveKept DEF WsStep
<1> QED BY <1>1, <1>2, <1>3, RequestKept, RestartedKept, DaemonKept, ServerRestartKept DEF WsNext

(* Two requests never create the container of one item, whoever starts a   *)
(* process in a half-made one skipped or outlived its bring-up, which is   *)
(* going on, and recreating a worktree deletes no live one, for any number *)
(* of items, requests, ports and failures.                                 *)
THEOREM WorkspacesAreSafe == WsSpec => []WorkspacesSafe
<1>1. ASSUME WsInv PROVE WorkspacesSafe
  <2>1. CreateFindsNone /\ LiveTreeKept
    BY <1>1 DEF WsInv, CreateFindsNone, LiveTreeKept, HoldsLock, HoldsTree, At, wTk, TreePcs
  <2>2. ASSUME NEW r \in WReqs, At(r, "ready"), wCont[wTk(r)].st = "running",
               ~Ready(wCont[wTk(r)])
        PROVE  /\ wReq[r].gen < wCont[wTk(r)].gen
               /\ \E q \in WReqs \ {r} : BringsUp(q, wTk(r))
    <3>1. wReq[r] \in WsRequest /\ wTk(r) \in WTickets
      BY <1>1 DEF WsInv, WsShape, WsRequest, wTk
    <3>2. /\ wReq[r].gen \in Nat /\ wCont[wTk(r)].gen \in Nat
          /\ wReq[r].gen <= wCont[wTk(r)].gen /\ wReq[r].gen # wCont[wTk(r)].gen
      BY <1>1, <2>2, <3>1 DEF WsInv, WsShape, WsRequest, WsContainer, HoldsLock, At, wTk
    <3>3. AtWork(wsLock[wTk(r)], wTk(r))
      BY <1>1, <2>2, <3>1 DEF WsInv, InHands
    <3>4. wsLock[wTk(r)] \in WReqs
      BY <1>1, <3>1, <3>3 DEF WsInv, WsShape, AtWork
    <3>5. wsLock[wTk(r)] # r
      BY <2>2, <3>3 DEF AtWork, At
    <3>6. BringsUp(wsLock[wTk(r)], wTk(r))
      BY <3>3 DEF AtWork, BringsUp, wTk
    <3> QED BY <3>2, <3>4, <3>5, <3>6
  <2> QED BY <2>1, <2>2 DEF WorkspacesSafe, EnsureMeansReady
<1> QED BY <1>1, WsInitOK, WsNextKept, PTL DEF WsSpec

-----------------------------------------------------------------------------
(***************************************************************************)
(* Port forwards.                                                          *)
(***************************************************************************)
FwScan == [st : {"none", "new", "wait", "scan", "gone"}, base : SUBSET FApps,
           snap : SUBSET FApps, act : [FApps -> SpareSet \cup {0}], free : Seq(SpareSet)]

FwShape ==
  /\ fApps \subseteq FApps
  /\ fSocat \in [SpareSet -> FApps \cup {0}]
  /\ fOpen \in [FOpens -> {"none", "seeded", "inserted", "done"}]
  /\ fScan \in [FOpens -> FwScan]

Works(k) == fScan[k].st \in {"new", "wait", "scan"}
UsedBy(q) == {p \in FApps : q.act[p] # 0}

(* The account of one scanner.                                             *)
Account(q) ==
  /\ IsFiniteSet(UsedBy(q))
  /\ Len(q.free) + Cardinality(UsedBy(q)) = Len(FSpares)
  /\ Range(q.free) \cup {q.act[p] : p \in UsedBy(q)} = SpareSet

(* A socat belongs to a scanner that has not ended and will kill it.       *)
Owned(s) == fSocat[s] # 0 => \E k \in FOpens : Works(k) /\ s \in Range(fScan[k].act)

FwInv ==
  /\ FwShape
  /\ OneScanner
  /\ \A k \in FOpens : fOpen[k] \in {"none", "seeded"} => fScan[k] = NoScan
  /\ \A k \in FOpens : Works(k) => Account(fScan[k])
  /\ \A s \in SpareSet : Owned(s)

(* Sequences of spares.                                                    *)
LEMMA FrontAndLast ==
  ASSUME NEW S, NEW q \in Seq(S), Len(q) # 0
  PROVE  /\ Last(q) \in S /\ Front(q) \in Seq(S) /\ Len(Front(q)) = Len(q) - 1
         /\ Range(q) = Range(Front(q)) \cup {Last(q)}
<1>1. Len(q) \in Nat \ {0} /\ DOMAIN q = 1..Len(q) /\ \A i \in 1..Len(q) : q[i] \in S
  OBVIOUS
<1>2. /\ Front(q) \in Seq(S) /\ Len(Front(q)) = Len(q) - 1
      /\ \A i \in 1..(Len(q) - 1) : Front(q)[i] = q[i]
  BY <1>1 DEF Front
<1>3. Last(q) = q[Len(q)] /\ Last(q) \in S
  BY <1>1 DEF Last
<1>4. DOMAIN Front(q) = 1..(Len(q) - 1)
  BY <1>2
<1>5. \A i \in 1..Len(q) : i = Len(q) \/ i \in 1..(Len(q) - 1)
  <2>1. \A n \in Nat \ {0} : \A i \in 1..n : i = n \/ i \in 1..(n - 1)
    OBVIOUS
  <2> QED BY <1>1, <2>1
<1>6. 1..(Len(q) - 1) \subseteq 1..Len(q) /\ Len(q) \in 1..Len(q)
  BY <1>1
<1>7. Range(q) = Range(Front(q)) \cup {Last(q)}
  BY <1>1, <1>2, <1>3, <1>4, <1>5, <1>6 DEF Range
<1> QED BY <1>2, <1>3, <1>7

LEMMA Appended ==
  ASSUME NEW S, NEW q \in Seq(S), NEW x \in S
  PROVE  /\ Append(q, x) \in Seq(S) /\ Len(Append(q, x)) = Len(q) + 1
         /\ Range(Append(q, x)) = Range(q) \cup {x}
<1>1. Len(q) \in Nat /\ DOMAIN q = 1..Len(q)
  OBVIOUS
<1>2. /\ Append(q, x) \in Seq(S) /\ Len(Append(q, x)) = Len(q) + 1
      /\ \A i \in 1..Len(q) : Append(q, x)[i] = q[i]
      /\ Append(q, x)[Len(q) + 1] = x
  OBVIOUS
<1>3. DOMAIN Append(q, x) = 1..(Len(q) + 1)
  BY <1>2
<1>4. 1..(Len(q) + 1) = 1..Len(q) \cup {Len(q) + 1}
  BY <1>1
<1>5. Range(Append(q, x)) = Range(q) \cup {x}
  BY <1>1, <1>2, <1>3, <1>4 DEF Range
<1> QED BY <1>2, <1>5

LEMMA SparesArePorts == SpareSet \subseteq Nat \ {0} /\ FSpares \in Seq(SpareSet)
<1>1. FSpares \in Seq(Nat \ {0})
  BY ForwardsAssumption
<1>2. DOMAIN FSpares = 1..Len(FSpares) /\ \A i \in 1..Len(FSpares) : FSpares[i] \in Nat \ {0}
  BY <1>1
<1>4. SpareSet \subseteq Nat \ {0}
  BY <1>2 DEF SpareSet, Range
<1> QED BY <1>1, <1>4, SeqOfRange DEF SpareSet

WithSpare(q, p, s, f) == [q EXCEPT !.act = [q.act EXCEPT ![p] = s], !.free = f]

(* A forward takes the last free spare, and gives it back at the end.      *)
LEMMA TakesSpare ==
  ASSUME NEW q \in FwScan, Account(q), NEW p \in FApps, q.act[p] = 0, Len(q.free) # 0,
         NEW s, s = Last(q.free), NEW f, f = Front(q.free),
         NEW d, d = WithSpare(q, p, s, f)
  PROVE  d \in FwScan /\ Account(d) /\ d.st = q.st
         /\ s \in SpareSet /\ s \in Range(d.act)
         /\ Range(q.act) \subseteq Range(d.act) \cup {0}
<1> DEFINE act == [q.act EXCEPT ![p] = s]
<1>1. q.free \in Seq(SpareSet) /\ q.act \in [FApps -> SpareSet \cup {0}]
  BY DEF FwScan
<1>2. /\ s \in SpareSet /\ f \in Seq(SpareSet)
      /\ Len(f) = Len(q.free) - 1 /\ Range(q.free) = Range(f) \cup {s}
  BY <1>1, FrontAndLast
<1>3. s # 0 /\ act \in [FApps -> SpareSet \cup {0}] /\ act[p] = s
      /\ \A x \in FApps \ {p} : act[x] = q.act[x]
  BY <1>1, <1>2, SparesArePorts
<1> HIDE DEF act
<1>4. d \in FwScan /\ d.act = act /\ d.free = f /\ d.st = q.st
  BY <1>2, <1>3 DEF FwScan, act, WithSpare
<1>5. UsedBy(d) = UsedBy(q) \cup {p} /\ p \notin UsedBy(q)
  BY <1>3, <1>4 DEF UsedBy
<1>6. IsFiniteSet(UsedBy(d)) /\ Cardinality(UsedBy(d)) = Cardinality(UsedBy(q)) + 1
  BY <1>5, FS_AddElement DEF Account
<1>7. Len(q.free) \in Nat /\ Cardinality(UsedBy(q)) \in Nat /\ Len(FSpares) \in Nat
  BY <1>1, FS_CardinalityType, ForwardsAssumption DEF Account
<1>8. Len(d.free) + Cardinality(UsedBy(d)) = Len(FSpares)
  BY <1>2, <1>4, <1>6, <1>7 DEF Account
<1>9. {d.act[x] : x \in UsedBy(d)} = {q.act[x] : x \in UsedBy(q)} \cup {s}
  BY <1>3, <1>4, <1>5 DEF UsedBy
<1>10. Range(d.free) \cup {d.act[x] : x \in UsedBy(d)} = SpareSet
  BY <1>2, <1>4, <1>9 DEF Account
<1>11. s \in Range(d.act)
  BY <1>3, <1>4 DEF Range
<1>12. Range(q.act) \subseteq Range(d.act) \cup {0}
  BY <1>1, <1>3, <1>4 DEF Range
<1> QED BY <1>2, <1>4, <1>6, <1>8, <1>10, <1>11, <1>12 DEF Account

LEMMA ReturnsSpare ==
  ASSUME NEW q \in FwScan, Account(q), NEW p \in FApps, q.act[p] # 0,
         NEW d, d = [q EXCEPT !.act = [q.act EXCEPT ![p] = 0], !.free = Append(q.free, q.act[p])]
  PROVE  d \in FwScan /\ Account(d) /\ d.st = q.st /\ q.act[p] \in SpareSet
         /\ Range(q.act) \subseteq Range(d.act) \cup {q.act[p]}
<1> DEFINE s == q.act[p]
           act == [q.act EXCEPT ![p] = 0]
<1>1. q.free \in Seq(SpareSet) /\ q.act \in [FApps -> SpareSet \cup {0}]
  BY DEF FwScan
<1>2. s \in SpareSet
  BY <1>1
<1>3. act \in [FApps -> SpareSet \cup {0}] /\ act[p] = 0
      /\ \A x \in FApps \ {p} : act[x] = q.act[x]
  BY <1>1
<1>a. /\ Append(q.free, s) \in Seq(SpareSet) /\ Len(Append(q.free, s)) = Len(q.free) + 1
      /\ Range(Append(q.free, s)) = Range(q.free) \cup {s}
  BY <1>1, <1>2, Appended
<1> HIDE DEF act
<1>4. d \in FwScan /\ d.act = act /\ d.free = Append(q.free, s) /\ d.st = q.st
  BY <1>a, <1>3 DEF FwScan, act
<1>5. UsedBy(d) = UsedBy(q) \ {p} /\ p \in UsedBy(q)
  BY <1>3, <1>4 DEF UsedBy
<1>6. IsFiniteSet(UsedBy(d)) /\ Cardinality(UsedBy(d)) = Cardinality(UsedBy(q)) - 1
  BY <1>5, FS_RemoveElement DEF Account
<1>7. Len(q.free) \in Nat /\ Cardinality(UsedBy(q)) \in Nat /\ Len(FSpares) \in Nat
  BY <1>1, FS_CardinalityType, ForwardsAssumption DEF Account
<1>8. Len(d.free) + Cardinality(UsedBy(d)) = Len(FSpares)
  BY <1>a, <1>4, <1>6, <1>7 DEF Account
<1>9. {q.act[x] : x \in UsedBy(q)} = {d.act[x] : x \in UsedBy(d)} \cup {s}
  BY <1>3, <1>4, <1>5
<1>10. Range(d.free) \cup {d.act[x] : x \in UsedBy(d)} = SpareSet
  BY <1>a, <1>4, <1>9 DEF Account
<1>11. Range(q.act) \subseteq Range(d.act) \cup {s}
  BY <1>1, <1>3, <1>4 DEF Range
<1> QED BY <1>2, <1>4, <1>6, <1>8, <1>10, <1>11 DEF Account

-----------------------------------------------------------------------------
LEMMA NoScanFits == NoScan \in FwScan /\ [NoScan EXCEPT !.st = "gone"] \in FwScan
                    /\ [NoScan EXCEPT !.st = "gone"].st = "gone" /\ NoScan.st = "none"
<1>1. [p \in FApps |-> 0] \in [FApps -> SpareSet \cup {0}] /\ <<>> \in Seq(SpareSet)
  OBVIOUS
<1>2. NoScan \in FwScan /\ NoScan.st = "none"
  BY <1>1 DEF NoScan, FwScan
<1>3. [NoScan EXCEPT !.st = "gone"] \in FwScan
  BY <1>2 DEF FwScan
<1> QED BY <1>2, <1>3, Zenon DEF FwScan

LEMMA FwInitOK == FwdInit => FwInv
<1> SUFFICES ASSUME FwdInit PROVE FwInv
  OBVIOUS
<1>1. \A k \in FOpens : fScan[k] = NoScan /\ ~Works(k)
  BY NoScanFits DEF FwdInit, Works
<1>2. FwShape
  BY NoScanFits DEF FwdInit, FwShape
<1>3. OneScanner
  BY <1>1 DEF OneScanner, Works
<1>4. \A s \in SpareSet : Owned(s)
  BY DEF FwdInit, Owned
<1> QED BY <1>1, <1>2, <1>3, <1>4 DEF FwInv

(* A scanner changes its own record; the records of the others stay, and   *)
(* what it used and no longer does has no socat.                           *)
LEMMA ScannerMoves ==
  ASSUME FwInv, NEW k \in FOpens, NEW d \in FwScan,
         fScan' = [fScan EXCEPT ![k] = d],
         UNCHANGED <<fOpen, fCurrent, fCancel>>, fApps' = fApps,
         fSocat' \in [SpareSet -> FApps \cup {0}],
         Works(k), d.st \in {"new", "wait", "scan", "gone"},
         d.st # "gone" => Account(d),
         \A s \in SpareSet : fSocat'[s] # 0 =>
           \/ d.st # "gone" /\ s \in Range(d.act)
           \/ fSocat[s] # 0 /\ s \notin Range(fScan[k].act)
  PROVE  FwInv'
<1>1. fScan'[k] = d /\ (\A j \in FOpens \ {k} : fScan'[j] = fScan[j])
      /\ fScan' \in [FOpens -> FwScan]
  BY DEF FwInv, FwShape
<1>2. FwShape'
  BY <1>1 DEF FwInv, FwShape
<1>3. OneScanner'
  BY <1>1 DEF FwInv, OneScanner, Works
<1>4. \A j \in FOpens : fOpen'[j] \in {"none", "seeded"} => fScan'[j] = NoScan
  <2>1. fOpen[k] \notin {"none", "seeded"}
    BY NoScanFits DEF FwInv, Works
  <2> QED BY <1>1, <2>1 DEF FwInv
<1>5. ASSUME NEW j \in FOpens, Works(j)' PROVE Account(fScan[j])'
  <2>1. CASE j = k
    BY <1>1, <1>5, <2>1 DEF Works, Account, UsedBy
  <2>2. CASE j # k
    <3>1. Account(fScan[j])
      BY <1>1, <1>5, <2>2 DEF FwInv, Works
    <3> QED BY <1>1, <2>2, <3>1 DEF Account, UsedBy
  <2> QED BY <2>1, <2>2
<1>6. ASSUME NEW s \in SpareSet PROVE Owned(s)'
  <2> SUFFICES ASSUME fSocat'[s] # 0
               PROVE  \E j \in FOpens : Works(j)' /\ s \in Range(fScan'[j].act)
    BY DEF Owned
  <2>1. CASE d.st # "gone" /\ s \in Range(d.act)
    <3>1. Works(k)' /\ s \in Range(fScan'[k].act)
      BY <1>1, <2>1 DEF Works
    <3> QED BY <3>1
  <2>2. CASE fSocat[s] # 0 /\ s \notin Range(fScan[k].act)
    <3>1. PICK j \in FOpens : Works(j) /\ s \in Range(fScan[j].act)
      BY <2>2 DEF FwInv, Owned
    <3>2. Works(j)' /\ s \in Range(fScan'[j].act)
      BY <1>1, <2>2, <3>1 DEF Works
    <3> QED BY <3>2
  <2> QED BY <2>1, <2>2
<1> QED BY <1>2, <1>3, <1>4, <1>5, <1>6 DEF FwInv

(* A scanner that looks keeps its account.                                 *)
LEMMA Looking ==
  ASSUME FwInv, NEW k \in FOpens, Works(k), NEW d \in FwScan,
         fScan' = [fScan EXCEPT ![k] = d], UNCHANGED <<fOpen, fCurrent, fCancel, fApps, fSocat>>,
         d.st \in {"new", "wait", "scan"}, d.act = fScan[k].act, d.free = fScan[k].free
  PROVE  FwInv'
<1>1. Account(d)
  BY DEF FwInv, Account, UsedBy
<1>2. \A s \in SpareSet : s \in Range(d.act) \/ s \notin Range(fScan[k].act)
  OBVIOUS
<1>3. fSocat' \in [SpareSet -> FApps \cup {0}]
  BY DEF FwInv, FwShape
<1> QED BY <1>1, <1>2, <1>3, ScannerMoves

LEMMA LookKept ==
  ASSUME FwInv, NEW k \in FOpens,
         Baseline(k) \/ ScanPorts(k) \/ ScanDone(k) \/ (\E p \in FApps : StartFails(k, p))
  PROVE  FwInv'
<1>0. fScan[k] \in FwScan /\ fApps \in SUBSET FApps /\ fScan \in [FOpens -> FwScan]
  BY DEF FwInv, FwShape
<1>1. UNCHANGED <<fOpen, fCurrent, fCancel, fApps, fSocat>> /\ Works(k)
  BY DEF Baseline, ScanPorts, ScanDone, StartFails, unScan, Works
<1>3. PICK st \in {"wait", "scan"}, b \in SUBSET FApps, n \in SUBSET FApps :
        fScan' = [fScan EXCEPT ![k] = [fScan[k] EXCEPT !.st = st, !.base = b, !.snap = n]]
  <2>1. CASE Baseline(k)
    <3>1. fScan' = [fScan EXCEPT ![k] = [fScan[k] EXCEPT !.st = "wait", !.base = fApps,
                                                         !.snap = fScan[k].snap]]
      BY <1>0, <2>1 DEF Baseline, FwScan
    <3>2. fScan[k].snap \in SUBSET FApps
      BY <1>0 DEF FwScan
    <3> QED BY <1>0, <3>1, <3>2
  <2>2. CASE ScanPorts(k)
    <3>1. fScan' = [fScan EXCEPT ![k] = [fScan[k] EXCEPT !.st = "scan", !.base = fScan[k].base,
                                                         !.snap = fApps]]
      BY <1>0, <2>2 DEF ScanPorts, FwScan
    <3>2. fScan[k].base \in SUBSET FApps
      BY <1>0 DEF FwScan
    <3> QED BY <1>0, <3>1, <3>2
  <2>3. CASE ScanDone(k)
    <3>1. fScan' = [fScan EXCEPT ![k] = [fScan[k] EXCEPT !.st = "wait", !.base = fScan[k].base,
                                                         !.snap = {}]]
      BY <1>0, <2>3 DEF ScanDone, FwScan
    <3>2. fScan[k].base \in SUBSET FApps
      BY <1>0 DEF FwScan
    <3> QED BY <1>0, <3>1, <3>2
  <2>4. CASE \E p \in FApps : StartFails(k, p)
    <3>0. PICK p \in FApps : StartFails(k, p)
      BY <2>4
    <3>1. fScan' = [fScan EXCEPT ![k] = [fScan[k] EXCEPT !.st = "scan", !.base = fScan[k].base,
                                                         !.snap = fScan[k].snap \ {p}]]
      BY <1>0, <3>0 DEF StartFails, FwScan
    <3>2. fScan[k].base \in SUBSET FApps /\ fScan[k].snap \ {p} \in SUBSET FApps
      BY <1>0 DEF FwScan
    <3> QED BY <3>1, <3>2
  <2> QED BY <2>1, <2>2, <2>3, <2>4
<1> DEFINE d == [fScan[k] EXCEPT !.st = st, !.base = b, !.snap = n]
<1>4. d \in FwScan /\ d.st = st /\ d.act = fScan[k].act /\ d.free = fScan[k].free
  BY <1>0 DEF FwScan
<1>5. fScan' = [fScan EXCEPT ![k] = d]
  BY <1>3
<1> HIDE DEF d
<1> QED BY <1>1, <1>4, <1>5, Looking

LEMMA ForwardKept ==
  ASSUME FwInv, NEW k \in FOpens, NEW p \in FApps, StartForward(k, p)
  PROVE  FwInv'
<1> DEFINE q == fScan[k]
<1>0. q \in FwScan /\ Works(k) /\ Account(q)
  BY DEF FwInv, FwShape, StartForward, Works
<1>1. q.act[p] = 0 /\ Len(q.free) # 0
  BY DEF StartForward, NewPorts
<1>s. PICK s, f : s = Last(q.free) /\ f = Front(q.free)
  OBVIOUS
<1>d. PICK d : d = WithSpare(q, p, s, f)
  OBVIOUS
<1>2. d \in FwScan /\ Account(d) /\ d.st = q.st /\ s \in SpareSet /\ s \in Range(d.act)
      /\ Range(q.act) \subseteq Range(d.act) \cup {0}
  BY <1>0, <1>1, <1>s, <1>d, TakesSpare
<1>3. fScan' = [fScan EXCEPT ![k] = d]
  BY <1>0, <1>s, <1>d DEF StartForward, FwInv, FwShape, FwScan, WithSpare
<1>4. /\ fSocat' \in [SpareSet -> FApps \cup {0}]
      /\ \A u \in SpareSet \ {s} : fSocat'[u] = fSocat[u]
  BY <1>2, <1>s DEF StartForward, FwInv, FwShape
<1>5. UNCHANGED <<fOpen, fCurrent, fCancel, fApps>> /\ d.st = "scan"
  BY <1>2 DEF StartForward, unScan
<1>6. \A u \in SpareSet : fSocat'[u] # 0 =>
        u \in Range(d.act) \/ (fSocat[u] # 0 /\ u \notin Range(q.act))
  BY <1>2, <1>4, SparesArePorts
<1> QED BY <1>0, <1>2, <1>3, <1>4, <1>5, <1>6, ScannerMoves

LEMMA UnforwardKept ==
  ASSUME FwInv, NEW k \in FOpens, NEW p \in FApps, StopForward(k, p)
  PROVE  FwInv'
<1> DEFINE q == fScan[k]
           s == q.act[p]
           d == [q EXCEPT !.act = [q.act EXCEPT ![p] = 0], !.free = Append(q.free, s)]
<1>0. fScan[k] \in FwScan /\ Works(k) /\ Account(q)
  BY DEF FwInv, FwShape, StopForward, Works
<1>1. q.act[p] # 0
  BY DEF StopForward, GonePorts
<1>2. d \in FwScan /\ Account(d) /\ d.st = q.st /\ s \in SpareSet
      /\ Range(q.act) \subseteq Range(d.act) \cup {s}
  BY <1>0, <1>1, ReturnsSpare
<1>3. fScan' = [fScan EXCEPT ![k] = d]
  BY <1>0 DEF StopForward, FwInv, FwShape, FwScan
<1>4. /\ fSocat' \in [SpareSet -> FApps \cup {0}] /\ fSocat'[s] = 0
      /\ \A u \in SpareSet \ {s} : fSocat'[u] = fSocat[u]
  BY <1>2 DEF StopForward, FwInv, FwShape
<1>5. UNCHANGED <<fOpen, fCurrent, fCancel, fApps>> /\ d.st = "scan"
  BY <1>2 DEF StopForward, unScan
<1> HIDE DEF d, s
<1>6. \A u \in SpareSet : fSocat'[u] # 0 =>
        u \in Range(d.act) \/ (fSocat[u] # 0 /\ u \notin Range(q.act))
  BY <1>2, <1>4
<1> QED BY <1>0, <1>2, <1>3, <1>4, <1>5, <1>6, ScannerMoves

LEMMA EndKept ==
  ASSUME FwInv, NEW k \in FOpens, ScannerEnds(k)
  PROVE  FwInv'
<1> DEFINE d == [NoScan EXCEPT !.st = "gone"]
<1>1. d \in FwScan /\ d.st = "gone"
  BY NoScanFits
<1>2. fScan' = [fScan EXCEPT ![k] = d] /\ Works(k)
      /\ UNCHANGED <<fOpen, fCurrent, fCancel, fApps>>
  BY DEF ScannerEnds, Works, unScan
<1>3. \A s \in SpareSet : fSocat'[s] = IF s \in Range(fScan[k].act) THEN 0 ELSE fSocat[s]
  BY DEF ScannerEnds
<1>4. fSocat' \in [SpareSet -> FApps \cup {0}]
  BY DEF ScannerEnds, FwInv, FwShape
<1> HIDE DEF d
<1> QED BY <1>1, <1>2, <1>3, <1>4, ScannerMoves

LEMMA InsertKept ==
  ASSUME FwInv, NEW k \in FOpens, InsertScanner(k)
  PROVE  FwInv'
<1> DEFINE d == [NoScan EXCEPT !.st = "new", !.free = FSpares]
<1>0. fScan[k] = NoScan /\ FwShape
  BY DEF FwInv, InsertScanner
<1>1. d \in FwScan /\ d.st = "new" /\ d.free = FSpares /\ d.act = NoScan.act
  <2>1. NoScan \in FwScan /\ FSpares \in Seq(SpareSet)
    BY NoScanFits, SparesArePorts
  <2>2. d \in FwScan
    BY <2>1 DEF FwScan
  <2> QED BY <2>1, <2>2, Zenon DEF FwScan
<1>2. d \in FwScan /\ d.st = "new" /\ Account(d)
  <2>1. d \in FwScan /\ d.st = "new" /\ d.free = FSpares
    BY <1>1
  <2>2. UsedBy(d) = {}
    <3>1. \A p \in FApps : NoScan.act[p] = 0
      BY DEF NoScan
    <3> HIDE DEF d
    <3> QED BY <1>1, <3>1 DEF UsedBy
  <2>3. Len(FSpares) \in Nat
    BY ForwardsAssumption
  <2> HIDE DEF d
  <2>4. IsFiniteSet(UsedBy(d)) /\ Cardinality(UsedBy(d)) = 0
    BY <2>2, FS_EmptySet
  <2>5. Range(d.free) \cup {d.act[p] : p \in UsedBy(d)} = SpareSet
    BY <2>1, <2>2 DEF SpareSet
  <2> QED BY <2>1, <2>3, <2>4, <2>5 DEF Account
<1>3. fScan' = [fScan EXCEPT ![k] = d]
  BY <1>0 DEF InsertScanner, FwShape
<1> HIDE DEF d
<1>4. fScan'[k] = d /\ (\A j \in FOpens \ {k} : fScan'[j] = fScan[j])
      /\ fScan' \in [FOpens -> FwScan]
  BY <1>0, <1>2, <1>3 DEF FwShape
<1>5. /\ fOpen' \in [FOpens -> {"none", "seeded", "inserted", "done"}]
      /\ fOpen'[k] = "inserted" /\ \A j \in FOpens \ {k} : fOpen'[j] = fOpen[j]
      /\ UNCHANGED <<fApps, fSocat>>
  BY <1>0 DEF InsertScanner, FwShape
<1>6. FwShape'
  BY <1>0, <1>4, <1>5 DEF FwShape
<1>7. OneScanner'
  <2>1. ASSUME NEW j \in FOpens, Works(j)', j \notin fCancel' PROVE j = fCurrent'
    <3>1. CASE j = k
      BY <3>1 DEF InsertScanner
    <3>2. CASE j # k
      <4>1. j # 0 /\ fCancel' = fCancel \cup ({fCurrent} \ {0})
        BY DEF FOpens, InsertScanner
      <4>2. Works(j)
        BY <1>4, <2>1, <3>2 DEF Works
      <4> QED BY <2>1, <4>1, <4>2 DEF FwInv, OneScanner, Works
    <3> QED BY <3>1, <3>2
  <2> QED BY <2>1 DEF OneScanner, Works
<1>8. \A j \in FOpens : fOpen'[j] \in {"none", "seeded"} => fScan'[j] = NoScan
  BY <1>4, <1>5 DEF FwInv
<1>9. ASSUME NEW j \in FOpens, Works(j)' PROVE Account(fScan[j])'
  <2>1. CASE j = k
    BY <1>2, <1>4, <2>1 DEF Account, UsedBy
  <2>2. CASE j # k
    <3>1. Account(fScan[j])
      BY <1>4, <1>9, <2>2 DEF FwInv, Works
    <3> QED BY <1>4, <2>2, <3>1 DEF Account, UsedBy
  <2> QED BY <2>1, <2>2
<1>10. ASSUME NEW s \in SpareSet PROVE Owned(s)'
  <2> SUFFICES ASSUME fSocat'[s] # 0
               PROVE  \E j \in FOpens : Works(j)' /\ s \in Range(fScan'[j].act)
    BY DEF Owned
  <2>1. PICK j \in FOpens : Works(j) /\ s \in Range(fScan[j].act)
    BY <1>5 DEF FwInv, Owned
  <2>2. j # k
    BY <1>0, <2>1, NoScanFits DEF Works
  <2>3. Works(j)' /\ s \in Range(fScan'[j].act)
    BY <1>4, <2>1, <2>2 DEF Works
  <2> QED BY <2>3
<1> QED BY <1>6, <1>7, <1>8, <1>9, <1>10 DEF FwInv

(* The rest leaves scanners and socats alone; more are cancelled.          *)
LEMMA RestKept ==
  ASSUME FwInv, UNCHANGED <<fSocat, fScan>>, fApps' \subseteq FApps,
         fOpen' \in [FOpens -> {"none", "seeded", "inserted", "done"}],
         \A k \in FOpens : fOpen'[k] \in {"none", "seeded"} => fOpen[k] \in {"none", "seeded"},
         \/ UNCHANGED <<fCurrent, fCancel>>
         \/ fCancel' = fCancel \cup ({fCurrent} \ {0})
  PROVE  FwInv'
<1>1. FwShape'
  BY DEF FwInv, FwShape
<1>2. OneScanner'
  BY DEF FwInv, OneScanner, FOpens
<1>3. \A k \in FOpens : Works(k)' => Account(fScan[k])'
  BY DEF FwInv, Works, Account, UsedBy
<1>4. \A s \in SpareSet : Owned(s)'
  BY DEF FwInv, Owned, Works
<1> QED BY <1>1, <1>2, <1>3, <1>4 DEF FwInv

LEMMA FwNextKept == FwInv /\ [FwdNext]_fVars => FwInv'
<1> SUFFICES ASSUME FwInv, [FwdNext]_fVars PROVE FwInv'
  OBVIOUS
<1>0. FwShape
  BY DEF FwInv
<1>1. CASE \E k \in FOpens : SeedForwards(k) \/ StartTracker(k)
  <2>1. PICK k \in FOpens : SeedForwards(k) \/ StartTracker(k)
    BY <1>1
  <2>2. UNCHANGED <<fSocat, fScan, fApps, fCurrent, fCancel>>
    BY <2>1 DEF SeedForwards, StartTracker
  <2>3. PICK st \in {"seeded", "done"} :
          fOpen' = [fOpen EXCEPT ![k] = st] /\ (st = "seeded" => fOpen[k] = "none")
    BY <2>1 DEF SeedForwards, StartTracker
  <2>4. fOpen' \in [FOpens -> {"none", "seeded", "inserted", "done"}]
        /\ \A j \in FOpens : fOpen'[j] \in {"none", "seeded"} => fOpen[j] \in {"none", "seeded"}
    BY <1>0, <2>3 DEF FwShape
  <2> QED BY <1>0, <2>2, <2>4, RestKept DEF FwShape
<1>2. CASE \/ \E k \in FOpens : TrackEvent(k) \/ TrackLag(k) \/ TrackerEnds(k)
           \/ UNCHANGED fVars
  <2>1. UNCHANGED <<fSocat, fScan, fApps, fOpen, fCurrent, fCancel>>
    BY <1>2 DEF TrackEvent, TrackLag, TrackerEnds, unTrack, fVars
  <2> QED BY <1>0, <2>1, RestKept DEF FwShape
<1>3. CASE CloseEditor \/ \E p \in FApps : AppListens(p) \/ AppCloses(p)
  <2>1. /\ UNCHANGED <<fSocat, fScan, fOpen>> /\ fApps' \subseteq FApps
        /\ \/ UNCHANGED <<fCurrent, fCancel>>
           \/ fCancel' = fCancel \cup ({fCurrent} \ {0})
    BY <1>0, <1>3 DEF CloseEditor, AppListens, AppCloses, FwShape
  <2> QED BY <1>0, <2>1, RestKept DEF FwShape
<1>4. CASE \E k \in FOpens : ScanStep(k)
  BY <1>4, LookKept, EndKept, ForwardKept, UnforwardKept DEF ScanStep
<1>5. CASE \E k \in FOpens, p \in FApps : StartFails(k, p)
  BY <1>5, LookKept
<1>6. CASE \E k \in FOpens : InsertScanner(k)
  BY <1>6, InsertKept
<1> QED BY <1>1, <1>2, <1>3, <1>4, <1>5, <1>6 DEF FwdNext

(* At most one scanner works uncancelled, none leaves a socat behind, and  *)
(* each accounts for all spares, for any number of opens, applications and *)
(* spare ports.                                                            *)
THEOREM ForwardsAreSafe == FwdSpec => []ForwardsSafe
<1>1. FwInv => ForwardsSafe
  <2> SUFFICES ASSUME FwInv PROVE ForwardsSafe
    OBVIOUS
  <2>1. NoSocatLeft
    BY DEF NoSocatLeft, FwInv, Owned, Works
  <2>2. SparesKept
    BY DEF SparesKept, FwInv, Works, Account, UsedBy
  <2> QED BY <2>1, <2>2 DEF ForwardsSafe, FwInv
<1> QED BY <1>1, FwInitOK, FwNextKept, PTL DEF FwdSpec
=============================================================================
