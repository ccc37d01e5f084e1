----------------------------- MODULE ConfigFile -----------------------------
(* config.toml: the copy in memory, the file, and everything that moves one  *)
(* to the other. An admin's patch is validated and committed to memory under *)
(* the write lock and written to the file after the lock is given back; the  *)
(* writer goes through a lock file and one temporary file, or rewrites the   *)
(* file in place when it is bind-mounted; the watcher and the reload request *)
(* read the file and then replace the copy in memory. Handlers run on        *)
(* several threads, so file operations of two of them interleave.            *)
(*                                                                           *)
(* Of the configuration the fields that validation looks at are kept; an     *)
(* empty string is "blank".                                                  *)
EXTENDS Integers, Sequences, FiniteSets

CONSTANTS
    CfReqs,         \* requests
    CfPatches,      \* [section, set]: the patches admins send
    CfEdits,        \* contents an operator may give the file by hand
    SkipWindow,     \* SELF_WRITE_SKIP_WINDOW_MS, in ticks
    MaxTick,        \* bound on the clock
    MaxCrashes      \* bound on crashes

ASSUME ConfigFileAssumption == SkipWindow \in Nat /\ MaxTick \in Nat /\ MaxCrashes \in Nat

VARIABLES
    cfMem,      \* the configuration in memory
    cfUp,       \* "up", "down", or "failed": the file did not load at start-up
    cfDisk,     \* config.toml: a configuration, or <<"empty">>, <<"partial">>, <<"invalid">>
    cfTmp,      \* config.toml.tmp: << >> or a content
    cfBound,    \* config.toml is bind-mounted: rename answers EBUSY
    cfLock,     \* who holds config.toml.lock: {} or {request}
    cfMtime,    \* modification time of the file
    cfStamp,    \* last_write_epoch_ms: << >> or the time
    cfNow,      \* clock
    cfSeen,     \* the watcher's last_mtime
    cfWatch,    \* the watcher: "wait", "check", "load", or <<"swap", c>>
    cfPc,       \* [CfReqs -> where the handler is]
    cfReq,      \* [CfReqs -> the request]
    cfSnap,     \* [CfReqs -> config_snapshot]
    cfStatus,   \* system_status: the provider it was computed from
    cfCrashes,  \* crashes so far
    cfOnlyOwn   \* observation: the file and memory were changed by patches only

cfFile == <<cfDisk, cfTmp, cfMtime, cfStamp, cfLock>>
cfVars == <<cfMem, cfUp, cfFile, cfBound, cfNow, cfSeen, cfWatch, cfPc, cfReq, cfSnap,
            cfStatus, cfCrashes, cfOnlyOwn>>

-----------------------------------------------------------------------------
GeneralDefault == [interval |-> 60, conc |-> 1, active |-> 0]
WebDefault == [port |-> 8080, cors |-> "none"]
JiraDefault == [done |-> "Done"]
AgentDefault == [provider |-> "claude", timeout |-> 1800, available |-> {"claude", "cursor", "codex", "opencode"}]
ProvidersDefault == [url |-> "blank", model |-> "blank", limit |-> 32768, args |-> "none", cursorurl |-> "blank"]
GitDefault == [remote |-> "origin", branch |-> "main"]
GithubDefault == [app |-> "none"]

(* The fields of c with those of set written over them.                      *)
Patched(c, set) ==
    [f \in DOMAIN set \cup DOMAIN c |-> IF f \in DOMAIN set THEN set[f] ELSE c[f]]

CfDefault ==
    Patched(Patched(Patched(GeneralDefault, WebDefault), Patched(JiraDefault, AgentDefault)),
            Patched(Patched(ProvidersDefault, GitDefault), GithubDefault))

(* What an operator saves is text that does not parse, or a configuration.   *)
ASSUME CfEditsAssumption ==
    \A c \in CfEdits : c = <<"invalid">> \/ DOMAIN CfDefault \subseteq DOMAIN c

CfProviders == {"claude", "cursor", "codex", "opencode"}
ParseProvider(p) == p \in CfProviders
EffectiveMaxActive(c) == IF c.active = 0 THEN c.conc ELSE c.active
ExtraArgsOk(args) == args # "denied"

(* validate_cors_origin accepts and gives the normal form *)
CorsOk(o) == o \in {"none", "origin", "origin:80"}
NormalCors(o) == IF o = "origin:80" THEN "origin" ELSE o

GeneralValid(c) == c.interval >= 10 /\ c.conc # 0 /\ EffectiveMaxActive(c) >= 1 /\ c.port # 0 /\ CorsOk(c.cors) /\ c.done # "blank"

AgentValid(c) ==
    /\ c.timeout # 0 /\ c.cursorurl = "blank"
    /\ c.provider = "opencode" => c.url # "blank" /\ c.model # "blank"
    /\ c.limit # 0 /\ ExtraArgsOk(c.args) /\ \A p \in c.available : ParseProvider(p)

GithubValid(c) == c.remote # "blank" /\ c.app \in {"none", "complete"}

CfValid(c) == GeneralValid(c) /\ AgentValid(c) /\ GithubValid(c)

(* Config::load: an empty file is one without any of the optional tables. *)
Parses(content) == content # <<"partial">> /\ content # <<"invalid">>
Parsed(content) == IF content = <<"empty">> THEN CfDefault ELSE [content EXCEPT !.cors = NormalCors(@)]
Loads(content) == Parses(content) /\ CfValid(Parsed(content))

-----------------------------------------------------------------------------
CfInit ==
    /\ cfMem = [CfDefault EXCEPT !.url = "u", !.model = "m"] /\ cfDisk = cfMem /\ cfUp = "up"
    /\ cfTmp = << >> /\ cfBound \in BOOLEAN /\ cfLock = {}
    /\ cfMtime = 0 /\ cfStamp = << >> /\ cfNow = 0 /\ cfSeen = 0 /\ cfWatch = <<"wait">>
    /\ cfPc = [r \in CfReqs |-> "idle"] /\ cfReq = [r \in CfReqs |-> << >>] /\ cfSnap = [r \in CfReqs |-> << >>]
    /\ cfStatus = cfMem.provider /\ cfCrashes = 0 /\ cfOnlyOwn = TRUE

cfRest == <<cfUp, cfBound, cfCrashes>>
CfGoto(r, pc) == cfPc' = [cfPc EXCEPT ![r] = pc]

(* What the handlers refuse before they ask for the lock. *)
PreGeneral(p) == p.section = "general" => DOMAIN p.set \subseteq {"conc", "active"} /\ DOMAIN p.set # {}
PrePolling(p) == p.section = "polling" => DOMAIN p.set \subseteq {"interval"}
PreJira(p) == p.section = "jira" => DOMAIN p.set \subseteq {"done"}
PreGit(p) == p.section = "git" => DOMAIN p.set # {} /\ \A f \in DOMAIN p.set : p.set[f] # "blank"
PreAgent(p) ==
    p.section = "agent" =>
        /\ "args" \in DOMAIN p.set => ExtraArgsOk(p.set.args)
        /\ "provider" \in DOMAIN p.set => ParseProvider(p.set.provider)
        /\ "available" \in DOMAIN p.set => \A a \in p.set.available : ParseProvider(a)

(* A mutant: the patch is judged by itself, not together with what is there. *)
StagePatchAlone(r, p) == cfMem' = Patched(cfMem, p.set) /\ CfValid(Patched([CfDefault EXCEPT !.url = "u", !.model = "m"], p.set))

(* stage_and_commit: patch a copy, validate it, commit it *)
StageAndCommit(r, p) == cfMem' = Patched(cfMem, p.set) /\ CfValid(cfMem')

UpdateConfig(r) ==
    /\ cfUp = "up" /\ cfPc[r] = "idle"
    /\ \E p \in CfPatches :
         /\ PreGeneral(p) /\ PrePolling(p) /\ PreJira(p) /\ PreGit(p) /\ PreAgent(p)
         /\ StageAndCommit(r, p)
         /\ cfReq' = [cfReq EXCEPT ![r] = <<p.section>>]
    /\ cfSnap' = [cfSnap EXCEPT ![r] = cfMem'] /\ CfGoto(r, "lock")
    /\ UNCHANGED <<cfFile, cfRest, cfNow, cfSeen, cfWatch, cfStatus, cfOnlyOwn>>

(* onboarding_complete writes a copy of what is in memory *)
OnboardingComplete(r) ==
    /\ cfUp = "up" /\ cfPc[r] = "idle" /\ CfGoto(r, "lock")
    /\ cfReq' = [cfReq EXCEPT ![r] = <<"onboarding">>] /\ cfSnap' = [cfSnap EXCEPT ![r] = cfMem]
    /\ UNCHANGED <<cfMem, cfFile, cfRest, cfNow, cfSeen, cfWatch, cfStatus, cfOnlyOwn>>

cfMemRest == <<cfMem, cfRest, cfNow, cfSeen, cfWatch, cfReq, cfSnap, cfStatus, cfOnlyOwn>>

(* A mutant: the lock file is not taken. *)
LockIgnored == TRUE

LockFree == cfLock = {}

(* write_config: lock, temporary file (truncated, then filled), rename *)
AcquireLock(r) ==
    /\ cfPc[r] = "lock" /\ LockFree /\ cfLock' = {r} /\ CfGoto(r, "open")
    /\ UNCHANGED <<cfDisk, cfTmp, cfMtime, cfStamp, cfMemRest>>

OpenTmp(r) ==
    /\ cfPc[r] = "open" /\ cfTmp' = <<"partial">> /\ CfGoto(r, "fill")
    /\ UNCHANGED <<cfDisk, cfMtime, cfStamp, cfLock, cfMemRest>>

FillTmp(r) ==
    /\ cfPc[r] = "fill" /\ cfTmp' = cfSnap[r] /\ CfGoto(r, "rename")
    /\ UNCHANGED <<cfDisk, cfMtime, cfStamp, cfLock, cfMemRest>>

RenameTmp(r) ==
    /\ cfPc[r] = "rename" /\ ~cfBound /\ cfTmp # << >>
    /\ cfDisk' = cfTmp /\ cfTmp' = << >> /\ cfMtime' = cfMtime + 1 /\ CfGoto(r, "stamp")
    /\ UNCHANGED <<cfStamp, cfLock, cfMemRest>>

(* EBUSY: truncate and fill in place; nothing ever reads the .bak copy *)
TruncateInPlace(r) ==
    /\ cfPc[r] = "rename" /\ cfBound
    /\ cfDisk' = <<"empty">> /\ cfMtime' = cfMtime + 1 /\ CfGoto(r, "inplace")
    /\ UNCHANGED <<cfTmp, cfStamp, cfLock, cfMemRest>>

WriteInPlace(r) ==
    /\ cfPc[r] = "inplace"
    /\ cfDisk' \in {<<"partial">>, cfSnap[r]} /\ cfMtime' = cfMtime + 1
    /\ IF cfDisk' = cfSnap[r] THEN cfTmp' = << >> /\ CfGoto(r, "stamp") ELSE UNCHANGED <<cfTmp, cfPc>>
    /\ cfDisk' # cfDisk
    /\ UNCHANGED <<cfStamp, cfLock, cfMemRest>>

RecordWrite(r) ==
    /\ cfPc[r] = "stamp" /\ cfStamp' = <<cfNow>> /\ cfLock' = cfLock \ {r} /\ CfGoto(r, "persisted")
    /\ UNCHANGED <<cfDisk, cfTmp, cfMtime, cfMemRest>>

(* A mutant: the early return after a failed rename keeps the lock. *)
UnlockForgotten(r) == UNCHANGED cfLock

UnlockAfterError(r) == cfLock' = cfLock \ {r}

(* The temporary file cannot be written, or the rename or the rewrite fails. *)
WriteFails(r) ==
    /\ cfPc[r] \in {"fill", "rename", "inplace"} /\ UnlockAfterError(r) /\ CfGoto(r, "warned")
    /\ cfTmp' = IF cfPc[r] = "fill" THEN cfTmp ELSE << >>
    /\ UNCHANGED <<cfDisk, cfMtime, cfStamp, cfMemRest>>

(* put_agent_config refreshes system_status from its snapshot, other         *)
(* handlers answer.                                                          *)
RefreshStatus(r) ==
    /\ cfPc[r] \in {"persisted", "warned"} /\ cfReq[r] = <<"agent">>
    /\ cfStatus' = cfSnap[r].provider /\ cfReq' = [cfReq EXCEPT ![r] = <<"agent", "refreshed">>]
    /\ UNCHANGED <<cfMem, cfFile, cfRest, cfNow, cfSeen, cfWatch, cfPc, cfSnap, cfOnlyOwn>>

-----------------------------------------------------------------------------
(* The watcher: a changed mtime, unless the last write of the server is      *)
(* young, makes it load the file and replace the copy in memory.             *)
WatcherPolls ==
    /\ cfUp = "up" /\ cfWatch = <<"wait">> /\ cfMtime # cfSeen
    /\ cfSeen' = cfMtime /\ cfWatch' = <<"check">>
    /\ UNCHANGED <<cfMem, cfFile, cfRest, cfNow, cfPc, cfReq, cfSnap, cfStatus, cfOnlyOwn>>

SelfAuthored == cfStamp # << >> /\ cfNow - cfStamp[1] < SkipWindow

WatcherChecks ==
    /\ cfWatch = <<"check">> /\ cfWatch' = IF SelfAuthored THEN <<"wait">> ELSE <<"load">>
    /\ UNCHANGED <<cfMem, cfFile, cfRest, cfNow, cfSeen, cfPc, cfReq, cfSnap, cfStatus, cfOnlyOwn>>

WatcherLoads ==
    /\ cfWatch = <<"load">> /\ cfWatch' = IF Loads(cfDisk) THEN <<"swap", Parsed(cfDisk)>> ELSE <<"wait">>
    /\ UNCHANGED <<cfMem, cfFile, cfRest, cfNow, cfSeen, cfPc, cfReq, cfSnap, cfStatus, cfOnlyOwn>>

WatcherSwaps ==
    /\ cfWatch[1] = "swap" /\ cfMem' = cfWatch[2] /\ cfWatch' = <<"wait">> /\ cfOnlyOwn' = FALSE
    /\ UNCHANGED <<cfFile, cfRest, cfNow, cfSeen, cfPc, cfReq, cfSnap, cfStatus>>

(* reload_config *)
ReloadConfig(r) ==
    /\ cfUp = "up" /\ cfPc[r] = "idle"
    /\ IF Loads(cfDisk) THEN CfGoto(r, "swap") /\ cfSnap' = [cfSnap EXCEPT ![r] = Parsed(cfDisk)]
                        ELSE CfGoto(r, "refused") /\ UNCHANGED cfSnap
    /\ cfReq' = [cfReq EXCEPT ![r] = <<"reload">>]
    /\ UNCHANGED <<cfMem, cfFile, cfRest, cfNow, cfSeen, cfWatch, cfStatus, cfOnlyOwn>>

ReloadSwaps(r) ==
    /\ cfPc[r] = "swap" /\ cfMem' = cfSnap[r] /\ cfOnlyOwn' = FALSE /\ CfGoto(r, "reloaded")
    /\ UNCHANGED <<cfFile, cfRest, cfNow, cfSeen, cfWatch, cfReq, cfSnap, cfStatus>>

-----------------------------------------------------------------------------
(* The operator replaces the file by hand. *)
OperatorEdits ==
    /\ cfOnlyOwn /\ \E c \in CfEdits : cfDisk' = c
    /\ cfMtime' = cfMtime + 1 /\ cfOnlyOwn' = FALSE
    /\ UNCHANGED <<cfMem, cfTmp, cfStamp, cfLock, cfRest, cfNow, cfSeen, cfWatch, cfPc, cfReq, cfSnap, cfStatus>>

CfTick ==
    /\ cfNow < MaxTick /\ cfNow' = cfNow + 1
    /\ UNCHANGED <<cfMem, cfFile, cfRest, cfSeen, cfWatch, cfPc, cfReq, cfSnap, cfStatus, cfOnlyOwn>>

(* A crash drops the requests and the lock; files stay as they are. *)
CfCrash ==
    /\ cfUp = "up" /\ cfCrashes < MaxCrashes /\ cfCrashes' = cfCrashes + 1 /\ cfUp' = "down"
    /\ cfPc' = [r \in CfReqs |-> IF cfPc[r] = "idle" THEN "idle" ELSE "dropped"]
    /\ cfLock' = {} /\ cfWatch' = <<"wait">> /\ cfStamp' = << >>
    /\ UNCHANGED <<cfMem, cfDisk, cfTmp, cfMtime, cfBound, cfNow, cfSeen, cfReq, cfSnap, cfStatus, cfOnlyOwn>>

(* Start-up loads the file or gives up. *)
CfStart ==
    /\ cfUp # "up"
    /\ IF Loads(cfDisk)
       THEN cfUp' = "up" /\ cfMem' = Parsed(cfDisk) /\ cfSeen' = cfMtime /\ cfStatus' = cfMem'.provider
       ELSE cfUp' = "failed" /\ UNCHANGED <<cfMem, cfSeen, cfStatus>>
    /\ UNCHANGED <<cfFile, cfBound, cfNow, cfWatch, cfPc, cfReq, cfSnap, cfCrashes, cfOnlyOwn>>

CfNext ==
    \/ \E r \in CfReqs :
         \/ UpdateConfig(r) \/ OnboardingComplete(r) \/ ReloadConfig(r) \/ ReloadSwaps(r)
         \/ AcquireLock(r) \/ OpenTmp(r) \/ FillTmp(r) \/ RenameTmp(r) \/ TruncateInPlace(r)
         \/ WriteInPlace(r) \/ RecordWrite(r) \/ WriteFails(r) \/ RefreshStatus(r)
    \/ WatcherPolls \/ WatcherChecks \/ WatcherLoads \/ WatcherSwaps
    \/ OperatorEdits \/ CfTick \/ CfCrash \/ CfStart

CfSpec == CfInit /\ [][CfNext]_cfVars

-----------------------------------------------------------------------------
(* No sequence of patches, reloads and restarts leaves a configuration in    *)
(* memory that validate() would refuse: two patches that are each fine (the  *)
(* provider set to opencode, the endpoint cleared) are judged together.      *)
MemoryValid == CfValid(cfMem)

(* Where rename works, the file is always a whole configuration: neither a   *)
(* crash at any step of a write nor a second writer with the same temporary  *)
(* file ever leaves or publishes a partial one (write_config).               *)
DiskWhole == ~cfBound => cfDisk # <<"empty">> /\ cfDisk # <<"partial">>

(* The lock file is held only by a request that is writing: no error path    *)
(* keeps it, or every later save would wait for ever.                        *)
LockNotLeaked ==
    \A r \in cfLock : cfPc[r] \in {"open", "fill", "rename", "inplace", "stamp"} /\ cfLock = {r}

(* The documented meaning of "persisted": the change is on disk and will     *)
(* survive a restart. Stated for the quiet states of a server whose file     *)
(* nobody else touched and whose saves all succeeded.                        *)
PersistedSurvives ==
    cfOnlyOwn /\ cfCrashes = 0 /\ (\A r \in CfReqs : cfPc[r] \in {"idle", "persisted"}) => cfDisk = cfMem

(* The configuration, as one invariant: valid in memory, whole on disk, and *)
(* the lock file never kept.                                                *)
ConfigSafe == MemoryValid /\ DiskWhole /\ LockNotLeaked

=============================================================================
