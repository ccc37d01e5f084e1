---------------------------- MODULE AgentClients ----------------------------
(***************************************************************************)
(* The clients of the agents (claude, codex, opencode, cursor) and acli    *)
(* are not in the image: the server installs them at each start, while it  *)
(* already serves, into a volume that outlives it.  What it tells of the   *)
(* deployment (which provider, what is not authenticated) is probed at     *)
(* start and after each change of the agent settings, kept, and filtered   *)
(* for the user who asks.                                                  *)
(*                                                                         *)
(* A version is a number; 0 stands for no pin, no client, and the numbers  *)
(* up to clLatest have been released.                                      *)
(***************************************************************************)
EXTENDS Integers, Sequences

CONSTANTS
    ClProviders,   \* providers the deployment may enable
    ClUsers,
    ClReqs,        \* PUT /api/config/agent requests
    MaxRelease,    \* releases of a client (bound)
    MaxClBoots,    \* starts of the server (bound)
    MaxClChanges   \* settings, logins and expiries (bound)

ASSUME ClientsAssumption == ClProviders \subseteq {"claude", "codex", "opencode", "cursor"}

VARIABLES
    clConf,     \* the configuration in memory: provider, providers enabled, pins
    clBin,      \* the tools volume: version of each client; -1 is a torn one
    clLatest,   \* the latest release
    clInst,     \* the installation task: snapshot of the configuration, position
    clPhase,    \* DependencyInstallStatus
    clUp,       \* "down", "booting", "up"
    clHost,     \* logins of the host: clients, files of Cursor, gh
    clPlat,     \* what is wrong with the deployment itself
    clRows,     \* credential rows: <<user, provider>>, <<user, "github">>
    clStatus,   \* engine.system_status
    clReq,      \* PUT requests under way
    clWizard,   \* completed_at of a user's onboarding; 0 for NULL
    clBoots, clChanges,
    clStale     \* history: the status may be older than what it tells of

clVars == <<clConf, clBin, clLatest, clInst, clPhase, clUp, clHost, clPlat, clRows,
            clStatus, clReq, clWizard, clBoots, clChanges, clStale>>

Clients == ClProviders \cup {"acli"}
Torn == -1
IdleInst == [pc |-> "idle", specs |-> <<>>, pins |-> [c \in Clients |-> 0], i |-> 0, want |-> 0]
IdlePhase == [phase |-> "idle", done |-> 0, total |-> 0]
IdlePut == [pc |-> "idle", snap |-> ""]
NoStatus == [prov |-> "", headless |-> FALSE, gh |-> "missing", warnings |-> {}]
CursorFiles == {"auth json", "state db", "other json", "small file"}
PlatformWarnings == {"master_key_unavailable", "config_dir_not_writable"}
AuthWarnings == [claude |-> "claude_not_authenticated", codex |-> "codex_not_authenticated",
                 opencode |-> "opencode_not_authenticated", cursor |-> "cursor_not_authenticated"]
AuthWarning(p) == AuthWarnings[p]

ClInit ==
    /\ clConf \in {[prov |-> p, avail |-> ClProviders, pins |-> [c \in Clients |-> 0]] :
                     p \in ClProviders}
    /\ clBin = [c \in Clients |-> 0] /\ clLatest = 1
    /\ clInst = IdleInst /\ clPhase = IdlePhase /\ clUp = "down"
    /\ clHost \in {[login |-> {"claude"}, env |-> {}, files |-> {"small file"}, gh |-> g] :
                     g \in {"none", "expired, a personal token too"}}
                  \cup {[login |-> {}, env |-> {"claude"}, files |-> {"auth json"}, gh |-> "valid"]}
    /\ clPlat \in {{}, PlatformWarnings}
    /\ clRows = {} /\ clStatus = NoStatus /\ clReq = [r \in ClReqs |-> IdlePut]
    /\ clWizard = [u \in ClUsers |-> 0] /\ clBoots = 0 /\ clChanges = 0
    /\ clStale = TRUE
----------------------------------------------------------------------------
(* Probes.                                                                 *)

(* Signs of a Cursor login on disk: fields that look like a token, a state *)
(* database, or any file that is not small.                                *)
CursorOnDisk(files) == files \cap {"auth json", "state db", "other json"} # {}

(* A client answers its auth status only where it is installed.            *)
HostUsable(p, bin, host) ==
    \/ p \in host.env
    \/ p = "cursor" /\ CursorOnDisk(host.files)
    \/ p = "claude" /\ p \in host.login /\ bin[p] > 0
    \/ p \in {"codex", "opencode"}

(* The probe of gh repairs what it finds: it switches to a personal token. *)
GhAfterProbe(gh) == IF gh = "expired, a personal token too" THEN "valid" ELSE gh

ProviderWarnings(p, bin, host) ==
    IF HostUsable(p, bin, host) THEN {} ELSE {AuthWarning(p)}

GhWarnings(gh) == IF GhAfterProbe(gh) = "valid" THEN {} ELSE {"gh_auth_missing"}

AcliWarnings(bin, host) ==
    IF "acli" \in host.login /\ bin["acli"] > 0 THEN {} ELSE {"acli_not_authenticated"}

(* collect_system_status_with_db, and the probe of the configuration's     *)
(* directory the callers add.                                              *)
Collect(p, plat) ==
    [prov |-> p, headless |-> HostUsable(p, clBin, clHost),
     gh |-> IF GhAfterProbe(clHost.gh) = "valid" THEN "pat_required" ELSE "missing",
     warnings |-> plat \cup GhWarnings(clHost.gh) \cup AcliWarnings(clBin, clHost)
                       \cup ProviderWarnings(p, clBin, clHost)]

ProbeGh == clHost' = [clHost EXCEPT !.gh = GhAfterProbe(@)]

(* `takuto preflight`, before the server starts.                           *)
Preflight ==
    /\ clUp = "down" /\ ProbeGh
    /\ UNCHANGED <<clConf, clBin, clLatest, clInst, clPhase, clUp, clPlat, clRows, clStatus,
                   clReq, clWizard, clBoots, clChanges, clStale>>

(* The start: a first status without the database, then the installation   *)
(* as a task of its own.                                                   *)
BootClients ==
    /\ clUp = "down" /\ clBoots < MaxClBoots
    /\ clUp' = "booting" /\ clBoots' = clBoots + 1
    /\ clStatus' = Collect(clConf.prov, {}) /\ ProbeGh
    /\ clInst' = [IdleInst EXCEPT !.pc = "spawned"]
    /\ clPhase' = [IdlePhase EXCEPT !.phase = "installing"]
    /\ UNCHANGED <<clConf, clBin, clLatest, clPlat, clRows, clReq, clWizard, clChanges, clStale>>

(* ... and a second one with it, before the first request is served.       *)
Recollect ==
    /\ clUp = "booting" /\ clUp' = "up"
    /\ clStatus' = Collect(clConf.prov, clPlat) /\ ProbeGh
    /\ clStale' = FALSE
    /\ UNCHANGED <<clConf, clBin, clLatest, clInst, clPhase, clPlat, clRows, clReq, clWizard,
                   clBoots, clChanges>>
----------------------------------------------------------------------------
(* The installation.                                                       *)

(* specs_from_config: the clients of the enabled providers, and acli.      *)
PushIf(wanted, specs, c) == IF wanted THEN Append(specs, c) ELSE specs
SpecsFromConfig(conf) ==
    LET claude == PushIf("claude" \in conf.avail, <<>>, "claude")
        codex == PushIf("codex" \in conf.avail, claude, "codex")
        opencode == PushIf("opencode" \in conf.avail, codex, "opencode")
    IN  Append(PushIf("cursor" \in conf.avail, opencode, "cursor"), "acli")

(* --version of a torn client fails, and names no version.                 *)
Detected(c) == IF clBin[c] > 0 THEN clBin[c] ELSE 0

PlanSkipsAny(c, pin, found) == found = 0

(* Unpinned is installed at every start, pinned unless it is there.        *)
PlanOne(c, pin, found) == pin = 0 \/ found # pin

(* Only the latest acli can be had, whatever is pinned.                    *)
TargetVersion(c, pin) == IF pin = 0 \/ c = "acli" THEN clLatest ELSE pin

InstOthers == <<clConf, clLatest, clUp, clHost, clPlat, clRows, clStatus, clReq, clWizard,
                clBoots, clChanges, clStale>>

ReadSpecs ==
    /\ clInst.pc = "spawned"
    /\ clInst' = [pc |-> "detect", specs |-> SpecsFromConfig(clConf), pins |-> clConf.pins,
                  i |-> 1, want |-> 0]
    /\ UNCHANGED <<clBin, clPhase, InstOthers>>

DetectClient ==
    LET c == clInst.specs[clInst.i]
        pin == clInst.pins[c]
    IN  /\ clInst.pc = "detect" /\ clInst.i <= Len(clInst.specs)
        /\ clPhase' = [phase |-> "installing", done |-> clInst.i - 1, total |-> Len(clInst.specs)]
        /\ clInst' = IF PlanOne(c, pin, Detected(c))
                     THEN [clInst EXCEPT !.pc = "install", !.want = TargetVersion(c, pin)]
                     ELSE [clInst EXCEPT !.i = @ + 1]
        /\ UNCHANGED <<clBin, InstOthers>>

InstallOne ==
    LET c == clInst.specs[clInst.i]
    IN  /\ clInst.pc = "install"
        /\ clBin' = [clBin EXCEPT ![c] = clInst.want]
        /\ clInst' = [clInst EXCEPT !.pc = "detect", !.i = @ + 1]
        /\ UNCHANGED <<clPhase, InstOthers>>

(* What a failed or interrupted installation leaves: what was there, or a  *)
(* tree or a download cut short - acli and Cursor are written in place.    *)
Leftover(c) == {clBin[c], Torn}

(* The first failure ends it, and the clients after it are left out.       *)
InstallFails ==
    LET c == clInst.specs[clInst.i]
    IN  /\ clInst.pc = "install"
        /\ \E v \in Leftover(c) : clBin' = [clBin EXCEPT ![c] = v]
        /\ clPhase' = [clPhase EXCEPT !.phase = "error"] /\ clInst' = IdleInst
        /\ UNCHANGED InstOthers

InstallFinished ==
    /\ clInst.pc = "detect" /\ clInst.i > Len(clInst.specs)
    /\ clPhase' = [clPhase EXCEPT !.phase = "ready", !.done = clPhase.total]
    /\ clInst' = [clInst EXCEPT !.pc = "idle"]
    /\ UNCHANGED <<clBin, InstOthers>>
----------------------------------------------------------------------------
(* Settings, logins, restarts.                                             *)

ClChange == clChanges < MaxClChanges /\ clChanges' = clChanges + 1
PutIdle == \A r \in ClReqs : clReq[r].pc = "idle"

(* PUT /api/config/agent: the settings are swapped in under the lock ...   *)
PutAgent(r) ==
    /\ clUp = "up" /\ clReq[r].pc = "idle" /\ ClChange
    /\ \E p \in ClProviders, c \in Clients, v \in 0..clLatest :
         /\ clConf' = [clConf EXCEPT !.prov = p, !.pins[c] = v]
         /\ clReq' = [clReq EXCEPT ![r] = [pc |-> "probe", snap |-> p]]
    /\ clStale' = (clStale \/ ~PutIdle)
    /\ UNCHANGED <<clBin, clLatest, clInst, clPhase, clUp, clHost, clPlat, clRows, clStatus,
                   clWizard, clBoots>>

RefreshWithoutDb(r) ==
    /\ clReq[r].pc = "probe"
    /\ clStatus' = Collect(clReq[r].snap, {}) /\ ProbeGh
    /\ clReq' = [clReq EXCEPT ![r] = IdlePut]
    /\ UNCHANGED <<clConf, clBin, clLatest, clInst, clPhase, clUp, clPlat, clRows, clWizard,
                   clBoots, clChanges, clStale>>

(* ... and the status is probed for that snapshot and put in place later.  *)
RefreshAgentStatus(r) ==
    /\ clReq[r].pc = "probe"
    /\ clStatus' = Collect(clReq[r].snap, clPlat) /\ ProbeGh
    /\ clReq' = [clReq EXCEPT ![r] = IdlePut]
    /\ UNCHANGED <<clConf, clBin, clLatest, clInst, clPhase, clUp, clPlat, clRows, clWizard,
                   clBoots, clChanges, clStale>>

(* The file was edited: the watcher swaps it in, and nothing else.         *)
HotReload ==
    /\ clUp = "up" /\ ClChange
    /\ \E p \in ClProviders : \E a \in {ClProviders, {p}} :
         clConf' = [clConf EXCEPT !.prov = p, !.avail = a]
    /\ clStale' = TRUE
    /\ UNCHANGED <<clBin, clLatest, clInst, clPhase, clUp, clHost, clPlat, clRows, clStatus,
                   clReq, clWizard, clBoots>>

HostLogin ==
    /\ ClChange
    /\ clHost' \in {[clHost EXCEPT !.gh = "expired"], [clHost EXCEPT !.login = {"claude", "acli"}],
                    [clHost EXCEPT !.login = {}], [clHost EXCEPT !.files = CursorFiles]}
    /\ clStale' = TRUE
    /\ UNCHANGED <<clConf, clBin, clLatest, clInst, clPhase, clUp, clPlat, clRows, clStatus,
                   clReq, clWizard, clBoots>>

UserCredential(u) ==
    /\ clUp = "up" /\ ClChange
    /\ \E p \in ClProviders \cup {"github"} :
         clRows' \in {clRows \cup {<<u, p>>}, clRows \ {<<u, p>>}}
    /\ UNCHANGED <<clConf, clBin, clLatest, clInst, clPhase, clUp, clHost, clPlat, clStatus,
                   clReq, clWizard, clBoots, clStale>>

(* The time of the first completion is kept.                               *)
MarkCompleted(u) ==
    /\ clUp = "up" /\ clWizard[u] = 0
    /\ clWizard' = [clWizard EXCEPT ![u] = clBoots]
    /\ UNCHANGED <<clConf, clBin, clLatest, clInst, clPhase, clUp, clHost, clPlat, clRows,
                   clStatus, clReq, clBoots, clChanges, clStale>>

Published ==
    /\ clLatest < MaxRelease /\ clLatest' = clLatest + 1
    /\ UNCHANGED <<clConf, clBin, clInst, clPhase, clUp, clHost, clPlat, clRows, clStatus,
                   clReq, clWizard, clBoots, clChanges, clStale>>

(* A crash or a stop, at any time: the volume and the rows stay.           *)
StopServer ==
    /\ clUp # "down" /\ clUp' = "down"
    /\ IF clInst.pc = "install"
       THEN \E v \in Leftover(clInst.specs[clInst.i]) :
              clBin' = [clBin EXCEPT ![clInst.specs[clInst.i]] = v]
       ELSE UNCHANGED clBin
    /\ clInst' = IdleInst /\ clPhase' = IdlePhase /\ clStatus' = NoStatus
    /\ clReq' = [r \in ClReqs |-> IdlePut] /\ clStale' = TRUE
    /\ UNCHANGED <<clConf, clLatest, clHost, clPlat, clRows, clWizard, clBoots, clChanges>>

ClNext ==
    \/ Preflight \/ BootClients \/ Recollect \/ StopServer
    \/ ReadSpecs \/ DetectClient \/ InstallOne \/ InstallFails \/ InstallFinished
    \/ \E r \in ClReqs : PutAgent(r) \/ RefreshAgentStatus(r)
    \/ HotReload \/ HostLogin \/ Published
    \/ \E u \in ClUsers : UserCredential(u) \/ MarkCompleted(u)

ClSpec == ClInit /\ [][ClNext]_clVars
----------------------------------------------------------------------------
(* What a user is shown: warnings of a provider that is not the active one *)
(* are dropped, and those the user's own credentials answer.               *)
Filterable == {AuthWarning(p) : p \in ClProviders} \cup {"gh_auth_missing"}

ShownByProvider(u) ==
    {w \in clStatus.warnings :
        w \in Filterable => /\ w = "gh_auth_missing" => <<u, "github">> \notin clRows
                            /\ \A p \in ClProviders : w = AuthWarning(p) => <<u, p>> \notin clRows
                                                                            /\ p # clStatus.prov}

Shown(u) ==
    {w \in clStatus.warnings :
        \/ w \notin Filterable
        \/ w = "gh_auth_missing" /\ <<u, "github">> \notin clRows
        \/ w = AuthWarning(clStatus.prov) /\ <<u, clStatus.prov>> \notin clRows}

(* When the dashboard says the clients are ready, each client the task was *)
(* to install is there whole, in the version that was pinned - whatever an *)
(* earlier start left behind, and whatever was pinned then.                *)
ReadyMeansInstalled ==
    clPhase.phase = "ready" =>
        \A i \in 1..Len(clInst.specs) :
            LET c == clInst.specs[i]
            IN  /\ clBin[c] > 0
                /\ clInst.pins[c] > 0 /\ c # "acli" => clBin[c] = clInst.pins[c]

(* Unless settings or logins changed behind the status, a user who is not  *)
(* warned about the active provider, or about GitHub, has a credential for *)
(* it or the host does - also while a change of provider is under way.     *)
UnwarnedIsUsable ==
    clUp = "up" /\ ~clStale =>
        \A u \in ClUsers :
            /\ \/ AuthWarning(clStatus.prov) \in Shown(u)
               \/ <<u, clStatus.prov>> \in clRows
               \/ HostUsable(clStatus.prov, clBin, clHost)
               \/ clBin[clStatus.prov] <= 0
            /\ \/ "gh_auth_missing" \in Shown(u) \/ <<u, "github">> \in clRows
               \/ clHost.gh = "valid"
            /\ PutIdle => clStatus.prov = clConf.prov

(* What is wrong with the deployment itself stays in front of every user,  *)
(* through every refresh of the status.                                    *)
PlatformShown == clUp = "up" => \A u \in ClUsers : clPlat \subseteq Shown(u)

(* "... reflect the new provider / degraded state without a process        *)
(* restart": of two changes at one time the older may have the last word.  *)
StatusFollowsProvider ==
    [][\A r \in ClReqs : RefreshAgentStatus(r) /\ (\A q \in ClReqs \ {r} : clReq[q].pc = "idle")
          => clStatus'.prov = clConf.prov]_clVars

(* "... true when there's a CLI binary on PATH in the worker image (both   *)
(* are baked into the takuto image today)": codex and opencode are said to *)
(* be capable before, and also when they never are, installed.             *)
HeadlessMeansInstalled ==
    clPhase.phase = "ready" /\ clUp = "up" /\ ~clStale =>
        (clStatus.prov \in {"codex", "opencode"} /\ clStatus.headless => clBin[clStatus.prov] > 0)

(* The clients, as one invariant: ready means installed, who is not warned  *)
(* can work, and what is wrong with the deployment stays in sight.          *)
ClientsSafe == ReadyMeansInstalled /\ UnwarnedIsUsable /\ PlatformShown

============================================================================
