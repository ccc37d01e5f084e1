---------------------------- MODULE PortForwards ----------------------------
(***************************************************************************)
(* Dynamic port forwarding of an open editor: every open of the editor     *)
(* starts a port scanner (container/port_scanner.rs) that finds ports      *)
(* listening in the workspace container and forwards each to a spare       *)
(* published port with a socat process, and a tracker                      *)
(* (routes/workflows/port_tracking.rs) that follows the scanner's events   *)
(* and keeps the list of forwards and their proxy tokens.  One work item;  *)
(* an open is numbered, and so are its scanner and its tracker.            *)
(*                                                                         *)
(* The scanner of a run command (container/run_command.rs) is the same     *)
(* loop with an end of its own: it also stops when the command has ended.  *)
(***************************************************************************)
EXTENDS Naturals, Sequences, FiniteSets, SequencesExt

CONSTANTS FApps,      \* ports the user's applications may listen on
          FSpares,    \* the spare ports of the container's pool, a sequence
          MaxOpens,   \* bound: opens of the editor
          MaxListens, \* bound: how often an application starts to listen
          MaxLags     \* bound: events a tracker loses, socat starts that fail

ASSUME ForwardsAssumption ==
  /\ FApps \subseteq Nat \ {0}
  /\ FSpares \in Seq(Nat \ {0})
  /\ Cardinality(Range(FSpares)) = Len(FSpares)
  /\ {MaxOpens, MaxListens, MaxLags} \subseteq Nat

FOpens == 1..MaxOpens

VARIABLES
  fApps,     \* application ports listening in the container
  fSocat,    \* what the socat on a spare leads to, 0 for no process
  fOpen,     \* progress of an open request
  fCurrent,  \* editor_scanners: the open whose scanner is registered, 0 none
  fCancel,   \* opens whose cancellation token is cancelled
  fScan,     \* the scanners
  fTrack,    \* the trackers: subscribed, cancellation token (0: none), queue
  fChips,    \* dynamic_forwards of the item
  fTokens,   \* its DynamicPort routes in the path-token registry
  fClose,    \* progress of the one close_editor
  fTorn,     \* observation: opens under way or done when that close ended
  fListens, fLags \* the counters behind the bounds

fVars == <<fApps, fSocat, fOpen, fCurrent, fCancel, fScan, fTrack, fChips,
           fTokens, fClose, fTorn, fListens, fLags>>

SpareSet == Range(FSpares)
Forward == [cp : FApps, hp : SpareSet]
FEvent == [type : {"port_forwarded", "port_unforwarded"}, cp : FApps, hp : SpareSet]
NoScan == [st |-> "none", base |-> {}, snap |-> {}, act |-> [p \in FApps |-> 0],
           free |-> <<>>]
NoTrack == [sub |-> FALSE, token |-> 0, queue |-> <<>>]

FwdTypeOK ==
  /\ fApps \subseteq FApps
  /\ fSocat \in [SpareSet -> FApps \cup {0}]
  /\ fOpen \in [FOpens -> {"none", "seeded", "inserted", "done"}]
  /\ fCurrent \in FOpens \cup {0}
  /\ fCancel \subseteq FOpens
  /\ fScan \in [FOpens -> [st : {"none", "new", "wait", "scan", "gone"},
                           base : SUBSET FApps, snap : SUBSET FApps,
                           act : [FApps -> SpareSet \cup {0}], free : Seq(SpareSet)]]
  /\ fTrack \in [FOpens -> [sub : BOOLEAN, token : FOpens \cup {0}, queue : Seq(FEvent)]]
  /\ fChips \subseteq Forward
  /\ fTokens \subseteq Forward
  /\ fClose \in 0..3
  /\ fTorn \subseteq FOpens
  /\ fListens \in 0..MaxListens
  /\ fLags \in 0..MaxLags

FwdInit ==
  /\ fApps = {}
  /\ fSocat = [s \in SpareSet |-> 0]
  /\ fOpen = [k \in FOpens |-> "none"]
  /\ fCurrent = 0
  /\ fCancel = {}
  /\ fScan = [k \in FOpens |-> NoScan]
  /\ fTrack = [k \in FOpens |-> NoTrack]
  /\ fChips = {}
  /\ fTokens = {}
  /\ fClose = 0
  /\ fTorn = {}
  /\ fListens = 0
  /\ fLags = 0

-----------------------------------------------------------------------------
(***************************************************************************)
(* The tail of open_editor: the list of forwards is emptied, the new       *)
(* scanner's token takes the place of the old one, which is cancelled, the *)
(* scanner starts, the tracker's channel subscribes, and the tracker gets  *)
(* the token that is in the map by then.                                   *)
(***************************************************************************)
SeedForwards(k) ==
  /\ fOpen[k] = "none" /\ \A j \in FOpens : j < k => fOpen[j] # "none"
  /\ fOpen' = [fOpen EXCEPT ![k] = "seeded"]
  /\ fChips' = {}
  /\ UNCHANGED <<fApps, fSocat, fCurrent, fCancel, fScan, fTrack, fTokens, fClose, fTorn,
                 fListens, fLags>>

(* Mutant of InsertScanner: the scanner on record before is not cancelled. *)
InsertScannerBeside(k) ==
  /\ fOpen[k] = "seeded"
  /\ fOpen' = [fOpen EXCEPT ![k] = "inserted"]
  /\ fCurrent' = k
  /\ fScan' = [fScan EXCEPT ![k].st = "new", ![k].free = FSpares]
  /\ fTrack' = [fTrack EXCEPT ![k].sub = TRUE]
  /\ UNCHANGED <<fApps, fSocat, fCancel, fChips, fTokens, fClose, fTorn, fListens, fLags>>

(* Mutant of InsertScanner: a token that is not on record is cancelled.    *)
InsertScannerNone(k) ==
  /\ fOpen[k] = "seeded"
  /\ fOpen' = [fOpen EXCEPT ![k] = "inserted"]
  /\ fCancel' = fCancel \cup {fCurrent}
  /\ fCurrent' = k
  /\ fScan' = [fScan EXCEPT ![k].st = "new", ![k].free = FSpares]
  /\ fTrack' = [fTrack EXCEPT ![k].sub = TRUE]
  /\ UNCHANGED <<fApps, fSocat, fChips, fTokens, fClose, fTorn, fListens, fLags>>

InsertScanner(k) ==
  /\ fOpen[k] = "seeded"
  /\ fOpen' = [fOpen EXCEPT ![k] = "inserted"]
  /\ fCancel' = fCancel \cup ({fCurrent} \ {0})
  /\ fCurrent' = k
  /\ fScan' = [fScan EXCEPT ![k].st = "new", ![k].free = FSpares]
  /\ fTrack' = [fTrack EXCEPT ![k].sub = TRUE]
  /\ UNCHANGED <<fApps, fSocat, fChips, fTokens, fClose, fTorn, fListens, fLags>>

(* Mutant of StartTracker: the channel subscribes when the tracker starts. *)
StartTrackerLate(k) ==
  /\ fOpen[k] = "inserted"
  /\ fOpen' = [fOpen EXCEPT ![k] = "done"]
  /\ fTrack' = [fTrack EXCEPT ![k] = IF fCurrent = 0 THEN NoTrack
                                      ELSE [@ EXCEPT !.token = fCurrent, !.queue = <<>>]]
  /\ UNCHANGED <<fApps, fSocat, fCurrent, fCancel, fScan, fChips, fTokens, fClose, fTorn,
                 fListens, fLags>>

StartTracker(k) ==
  /\ fOpen[k] = "inserted"
  /\ fOpen' = [fOpen EXCEPT ![k] = "done"]
  /\ fTrack' = [fTrack EXCEPT ![k] = IF fCurrent = 0 THEN NoTrack
                                      ELSE [@ EXCEPT !.token = fCurrent]]
  /\ UNCHANGED <<fApps, fSocat, fCurrent, fCancel, fScan, fChips, fTokens, fClose, fTorn,
                 fListens, fLags>>

\* close_editor: teardown_editor_state drops the tokens, cancels and removes
\* the scanner, and drops the list, each under a lock of its own.
CloseEditor ==
  /\ \/ fClose = 0 /\ (\E k \in FOpens : fOpen[k] = "done") /\ fTokens' = {}
        /\ UNCHANGED <<fCancel, fCurrent, fChips, fTorn>>
     \/ fClose = 1 /\ fCancel' = fCancel \cup ({fCurrent} \ {0}) /\ fCurrent' = 0
        /\ UNCHANGED <<fTokens, fChips, fTorn>>
     \/ fClose = 2 /\ fChips' = {} /\ fTorn' = {k \in FOpens : fOpen[k] # "none"}
        /\ UNCHANGED <<fTokens, fCancel, fCurrent>>
  /\ fClose' = fClose + 1
  /\ UNCHANGED <<fApps, fSocat, fOpen, fScan, fTrack, fListens, fLags>>

-----------------------------------------------------------------------------
(***************************************************************************)
(* The container: applications come and go.                                *)
(***************************************************************************)
AppListens(p) ==
  /\ p \notin fApps /\ fListens < MaxListens
  /\ fApps' = fApps \cup {p}
  /\ fListens' = fListens + 1
  /\ UNCHANGED <<fSocat, fOpen, fCurrent, fCancel, fScan, fTrack, fChips, fTokens, fClose, fTorn,
                 fLags>>

AppCloses(p) ==
  /\ p \in fApps
  /\ fApps' = fApps \ {p}
  /\ UNCHANGED <<fSocat, fOpen, fCurrent, fCancel, fScan, fTrack, fChips, fTokens, fClose, fTorn,
                 fListens, fLags>>

-----------------------------------------------------------------------------
(***************************************************************************)
(* run_port_scanner.                                                       *)
(***************************************************************************)
unScan == <<fApps, fOpen, fCurrent, fCancel, fChips, fTokens, fClose, fTorn, fListens>>

\* An event reaches every tracker that has subscribed.
Send(e) == fTrack' = [k \in FOpens |->
                       IF fTrack[k].sub
                         THEN [fTrack[k] EXCEPT !.queue = Append(@, e)] ELSE fTrack[k]]

\* The baseline: what listens already is never forwarded.
Baseline(k) ==
  /\ fScan[k].st = "new"
  /\ fScan' = [fScan EXCEPT ![k].st = "wait", ![k].base = fApps]
  /\ UNCHANGED <<unScan, fSocat, fTrack, fLags>>

(* Mutant of ScannerEnds: the socat processes are left behind.             *)
ScannerEndsQuietly(k) ==
  /\ fScan[k].st = "wait" /\ k \in fCancel
  /\ fScan' = [fScan EXCEPT ![k] = [NoScan EXCEPT !.st = "gone"]]
  /\ UNCHANGED <<unScan, fSocat, fTrack, fLags>>

\* The cancellation is seen between two scans: the scanner kills the socat of
\* every spare it has in use and ends.
ScannerEnds(k) ==
  /\ fScan[k].st = "wait" /\ k \in fCancel
  /\ fSocat' = [s \in SpareSet |-> IF s \in Range(fScan[k].act) THEN 0 ELSE fSocat[s]]
  /\ fScan' = [fScan EXCEPT ![k] = [NoScan EXCEPT !.st = "gone"]]
  /\ UNCHANGED <<unScan, fTrack, fLags>>

\* Three seconds have passed: scan_listening_ports.
ScanPorts(k) ==
  /\ fScan[k].st = "wait" /\ k \notin fCancel
  /\ fScan' = [fScan EXCEPT ![k].st = "scan", ![k].snap = fApps]
  /\ UNCHANGED <<unScan, fSocat, fTrack, fLags>>

\* The new ports of a scan, which are forwarded while spares last.
NewPorts(k) == IF Len(fScan[k].free) = 0 THEN {}
               ELSE {p \in fScan[k].snap \ fScan[k].base : fScan[k].act[p] = 0}
GonePorts(k) == {p \in FApps \ fScan[k].snap : fScan[k].act[p] # 0}

\* start_socat on the last free spare.  docker exec -d succeeds although a
\* socat that still holds the spare makes the new one end at once.
StartForward(k, p) ==
  LET s == Last(fScan[k].free)
  IN /\ fScan[k].st = "scan" /\ p \in NewPorts(k)
     /\ fScan' = [fScan EXCEPT ![k].act[p] = s, ![k].free = Front(@)]
     /\ fSocat' = [fSocat EXCEPT ![s] = IF @ = 0 THEN p ELSE @]
     /\ Send([type |-> "port_forwarded", cp |-> p, hp |-> s])
     /\ UNCHANGED <<unScan, fLags>>

(* Mutant of StartFails: the spare is not given back.                      *)
StartFailsSpent(k, p) ==
  /\ fScan[k].st = "scan" /\ p \in NewPorts(k) /\ fLags < MaxLags
  /\ fScan' = [fScan EXCEPT ![k].snap = @ \ {p}, ![k].free = Front(@)]
  /\ fLags' = fLags + 1
  /\ UNCHANGED <<unScan, fSocat, fTrack>>

\* docker exec fails: the spare goes back and the port waits for the next scan.
StartFails(k, p) ==
  /\ fScan[k].st = "scan" /\ p \in NewPorts(k) /\ fLags < MaxLags
  /\ fScan' = [fScan EXCEPT ![k].snap = @ \ {p}]
  /\ fLags' = fLags + 1
  /\ UNCHANGED <<unScan, fSocat, fTrack>>

\* A forwarded port no longer listens: its socat is killed, the spare freed.
StopForward(k, p) ==
  LET s == fScan[k].act[p]
  IN /\ fScan[k].st = "scan" /\ NewPorts(k) = {} /\ p \in GonePorts(k)
     /\ fScan' = [fScan EXCEPT ![k].act[p] = 0, ![k].free = Append(@, s)]
     /\ fSocat' = [fSocat EXCEPT ![s] = 0]
     /\ Send([type |-> "port_unforwarded", cp |-> p, hp |-> s])
     /\ UNCHANGED <<unScan, fLags>>

ScanDone(k) ==
  /\ fScan[k].st = "scan" /\ NewPorts(k) = {} /\ GonePorts(k) = {}
  /\ fScan' = [fScan EXCEPT ![k].st = "wait", ![k].snap = {}]
  /\ UNCHANGED <<unScan, fSocat, fTrack, fLags>>

-----------------------------------------------------------------------------
(***************************************************************************)
(* track_port_forwards.                                                    *)
(***************************************************************************)
unTrack == <<fApps, fSocat, fOpen, fCurrent, fCancel, fScan, fClose, fTorn, fListens>>

\* An event under the lock of the list: a new container port gets a token and
\* an entry; a port that is gone loses both.
TrackEvent(k) ==
  LET e == Head(fTrack[k].queue)
      known == {c \in fChips : c.cp = e.cp}
      entry == [cp |-> e.cp, hp |-> e.hp]
  IN /\ fTrack[k].token # 0 /\ fTrack[k].queue # <<>>
     /\ fTrack' = [fTrack EXCEPT ![k].queue = Tail(@)]
     /\ IF e.type = "port_forwarded"
          THEN IF known = {} THEN fChips' = fChips \cup {entry} /\ fTokens' = fTokens \cup {entry}
               ELSE UNCHANGED <<fChips, fTokens>>
          ELSE fChips' = fChips \ known /\ fTokens' = fTokens \ known
     /\ UNCHANGED <<unTrack, fLags>>

\* The broadcast channel ran over: the oldest event is lost.
TrackLag(k) ==
  /\ fTrack[k].token # 0 /\ fTrack[k].queue # <<>> /\ fLags < MaxLags
  /\ fTrack' = [fTrack EXCEPT ![k].queue = Tail(@)]
  /\ fLags' = fLags + 1
  /\ UNCHANGED <<unTrack, fChips, fTokens>>

TrackerEnds(k) ==
  /\ fTrack[k].token # 0 /\ fTrack[k].token \in fCancel
  /\ fTrack' = [fTrack EXCEPT ![k] = NoTrack]
  /\ UNCHANGED <<unTrack, fChips, fTokens, fLags>>

ScanStep(k) ==
  \/ Baseline(k) \/ ScannerEnds(k) \/ ScanPorts(k) \/ ScanDone(k)
  \/ \E p \in FApps : StartForward(k, p) \/ StopForward(k, p)

FwdNext ==
  \/ \E k \in FOpens : \/ SeedForwards(k) \/ InsertScanner(k)
                       \/ StartTracker(k) \/ ScanStep(k)
                       \/ TrackEvent(k) \/ TrackLag(k) \/ TrackerEnds(k)
  \/ \E k \in FOpens, p \in FApps : StartFails(k, p)
  \/ \E p \in FApps : AppListens(p) \/ AppCloses(p)
  \/ CloseEditor

\* Spawned tasks run on: scanners scan every three seconds, trackers receive,
\* a request in progress completes.
FwdFairness ==
  /\ WF_fVars(fClose # 0 /\ CloseEditor)
  /\ \A k \in FOpens :
    /\ WF_fVars(InsertScanner(k)) /\ WF_fVars(StartTracker(k))
    /\ WF_fVars(ScanStep(k))
    /\ WF_fVars(TrackEvent(k)) /\ WF_fVars(TrackerEnds(k))

FwdSpec == FwdInit /\ [][FwdNext]_fVars /\ FwdFairness

-----------------------------------------------------------------------------
(***************************************************************************)
(* Properties.                                                             *)
(***************************************************************************)
\* However often the editor is opened and closed, at most one scanner works
\* uncancelled, the one on record: a new open cancels the one before it.
OneScanner ==
  \A k \in FOpens : fScan[k].st \in {"new", "wait", "scan"} /\ k \notin fCancel => k = fCurrent

\* When the last scanner has ended no socat is left holding a spare port.
NoSocatLeft ==
  (\A k \in FOpens : fScan[k].st \in {"none", "gone"}) => \A s \in SpareSet : fSocat[s] = 0

\* A scanner keeps account of its spares: each is free once or in use once.
SparesKept ==
  \A k \in FOpens : fScan[k].st \in {"new", "wait", "scan"} =>
    LET used == {p \in FApps : fScan[k].act[p] # 0}
    IN /\ Len(fScan[k].free) + Cardinality(used) = Len(FSpares)
       /\ Range(fScan[k].free) \cup {fScan[k].act[p] : p \in used} = SpareSet

\* The list and the tokens follow the scanner: a port that the scanner of the
\* only open so far forwards comes to be listed with its token, unless the
\* editor is closed or opened anew, the port goes away, or the tracker lost an
\* event.  (After a second open it may not: an event of the cancelled scanner,
\* which ends its scan first, reaches the tracker of the new one.)
Unlisted(k, p) ==
  /\ fOpen[k] = "done" /\ fScan[k].st # "gone" /\ fScan[k].act[p] # 0
  /\ k \notin fCancel \cup fTorn /\ fLags = 0
  /\ \A j \in FOpens \ {k} : fOpen[j] = "none"
  /\ ~\E c \in fChips : c.cp = p /\ c \in fTokens
ForwardListed == \A k \in FOpens, p \in FApps : Unlisted(k, p) ~> ~Unlisted(k, p)

(* The port forwards, as one invariant: one scanner at most, no socat after *)
(* the last, no spare port lost or given twice.                             *)
ForwardsSafe == OneScanner /\ NoSocatLeft /\ SparesKept

=============================================================================
