--------------------------- MODULE SettingsProofs ---------------------------
(***************************************************************************)
(* Proofs about what the server keeps for its users and for itself, for    *)
(* every number of tasks, requests and bundles and every value of the      *)
(* bounds: the token of the GitHub App, config.toml, the sealed            *)
(* credentials, the clients of the agents, and the rows of a user.         *)
(***************************************************************************)
EXTENDS Credentials, AppToken, ConfigFile, AgentClients, UserRows, TLAPS

----------------------------------------------------------------------------
(* AppToken.                                                               *)

(* A fetch holds the write lock, runs no longer than --max-time, and the   *)
(* cached token it replaces stays nearly due.                              *)
FetchHolds ==
    \A c \in Tasks : /\ task[c].pc = "fetch" <=> holder = c
                     /\ task[c].pc = "fetch" => /\ task[c].at <= clock
                                                /\ clock <= task[c].at + FetchMax
                                                /\ ~FreshAt(cached, clock)

(* The file's token outlives the writer's next look, and that look is not  *)
(* late: with the lock free the writer's time has not passed, or the cache *)
(* was refilled while it waited; a fetch began before that time.           *)
WriterInTime ==
    fileToken # 0 /\ ~failed =>
        /\ wake < fileToken
        /\ holder = "free" => \/ clock <= wake
                              \/ FreshAt(cached, clock) /\ clock <= wake + FetchMax
        /\ \A c \in Tasks : task[c].pc = "fetch" => task[c].at <= wake

AppInv == AppTypeOK /\ FetchHolds /\ WriterInTime

(* What get_installation_token hands out is fresh when it does: a fetched  *)
(* token too, since the request took at most FetchMax.                     *)
LEMMA FetchedIsFresh ==
    ASSUME NEW c \in Tasks, AppInv, task[c].pc = "fetch",
           NEW issued \in task[c].at .. clock
    PROVE  FreshAt(issued + Life, clock) /\ issued + Life \in Nat
<1>1. /\ task[c].at \in Nat /\ task[c].at <= clock /\ clock <= task[c].at + FetchMax
      /\ clock \in Nat
  BY DEF AppInv, AppTypeOK, FetchHolds
<1>2. issued \in Int /\ issued >= task[c].at
  BY <1>1
<1> QED
  BY <1>1, <1>2, AppTokenAssumption DEF FreshAt

(* A task that ends with a fresh token, or with none, keeps the invariant  *)
(* of the file: the writer's next look is before the token's expiry.       *)
LEMMA ReturnKeeps ==
    ASSUME NEW c \in Tasks, AppInv, NEW exp \in Nat, Return(c, exp),
           exp = 0 \/ FreshAt(exp, clock), UNCHANGED clock, cached' \in Nat,
           holder' = "free", holder \in {"free", c},
           exp # 0 => FreshAt(cached', clock)
    PROVE  AppInv'
<1>1. AppTypeOK'
  <2>1. failed' \in BOOLEAN
    BY Zenon DEF AppInv, AppTypeOK, Return
  <2>2. /\ wake' \in Nat /\ fileToken' \in Nat
        /\ task' \in [Tasks -> [pc : {"idle", "wait", "fetch"}, at : Nat]]
    BY AppTokenAssumption DEF AppInv, AppTypeOK, Return, Idle0
  <2> QED BY <2>1, <2>2 DEF AppInv, AppTypeOK
<1>2. FetchHolds'
  <2>1. \A d \in Tasks : task'[d].pc = IF d = c THEN "idle" ELSE task[d].pc
    BY DEF AppInv, AppTypeOK, Return, Idle0
  <2>2. \A d \in Tasks : d # "free" /\ (d # c => task[d].pc # "fetch")
    BY AppTokenAssumption DEF AppInv, FetchHolds, Tasks
  <2> QED BY <2>1, <2>2 DEF FetchHolds
<1>3. WriterInTime'
  <2>1. CASE exp = 0
    BY <2>1, <1>2 DEF Return, WriterInTime, AppInv, AppTypeOK
  <2>2. CASE exp # 0
    <3>1. FreshAt(cached', clock')
      BY <2>2
    <3>2. \A d \in Tasks : task'[d].pc # "fetch"
      BY <1>2, AppTokenAssumption DEF FetchHolds, Tasks
    <3>3. CASE c = FileWriter
      BY <3>1, <3>2, <3>3, <2>2, AppTokenAssumption
      DEF Return, WriterInTime, AppInv, AppTypeOK, FreshAt
    <3>4. CASE c # FileWriter
      <4>1. UNCHANGED <<fileToken, wake>> /\ (~failed' => ~failed)
        BY <3>4 DEF Return
      <4>2. fileToken # 0 /\ ~failed => clock <= wake + FetchMax
        BY AppTokenAssumption DEF AppInv, AppTypeOK, FetchHolds, WriterInTime
      <4> QED BY <3>1, <3>2, <4>1, <4>2 DEF WriterInTime, AppInv
    <3> QED BY <3>3, <3>4
  <2> QED BY <2>1, <2>2
<1> QED BY <1>1, <1>2, <1>3 DEF AppInv

LEMMA AppStep == AppInv /\ [AppNext]_appVars => AppInv'
<1> SUFFICES ASSUME AppInv, [AppNext]_appVars PROVE AppInv'
  OBVIOUS
<1>1. CASE ClockTick
  <2>1. AppTypeOK'
    BY <1>1, AppTokenAssumption DEF AppInv, AppTypeOK, ClockTick
  <2>2. FetchHolds'
    BY <1>1, AppTokenAssumption DEF AppInv, AppTypeOK, FetchHolds, ClockTick, Prompt, FreshAt
  <2>3. WriterInTime'
    <3>1. FileWriter \in Tasks /\ Prompt(FileWriter)
      BY <1>1 DEF ClockTick, Tasks
    <3>2. holder = "free" => clock < wake
      BY <3>1, AppTokenAssumption DEF Prompt, AppInv, FetchHolds, Tasks
    <3> QED
      BY <3>2, <1>1 DEF ClockTick, WriterInTime, AppInv, AppTypeOK
  <2> QED BY <2>1, <2>2, <2>3 DEF AppInv
<1>2. ASSUME NEW c \in Tasks, Ask(c) PROVE AppInv'
  <2>1. CASE FreshAt(cached, clock)
    <3>1. cached \in Nat /\ Return(c, cached) /\ UNCHANGED <<clock, cached, holder>> /\ holder = "free"
      BY <1>2, <2>1 DEF Ask, AppInv, AppTypeOK
    <3> QED BY <3>1, <2>1, ReturnKeeps
  <2>2. CASE ~FreshAt(cached, clock)
    <3>1. /\ task' = [task EXCEPT ![c].pc = "wait"]
          /\ UNCHANGED <<fileToken, wake, failed, clock, cached, holder>>
          /\ task[c].pc = "idle"
      BY <1>2, <2>2 DEF Ask
    <3>2. AppTypeOK'
      BY <3>1 DEF AppInv, AppTypeOK
    <3>3. \A d \in Tasks : task'[d].at = task[d].at /\ (task'[d].pc = "fetch" <=> task[d].pc = "fetch")
      BY <3>1 DEF AppInv, AppTypeOK
    <3>4. FetchHolds' /\ WriterInTime'
      BY <3>1, <3>3 DEF AppInv, FetchHolds, WriterInTime, FreshAt
    <3> QED BY <3>2, <3>4 DEF AppInv
  <2> QED BY <2>1, <2>2
<1>3. ASSUME NEW c \in Tasks, Lock(c) PROVE AppInv'
  <2>1. CASE FreshAt(cached, clock)
    <3>1. cached \in Nat /\ Return(c, cached) /\ UNCHANGED <<clock, cached, holder>> /\ holder = "free"
      BY <1>3, <2>1 DEF Lock, AppInv, AppTypeOK
    <3> QED BY <3>1, <2>1, ReturnKeeps
  <2>2. CASE ~FreshAt(cached, clock)
    <3>1. /\ holder = "free" /\ holder' = c /\ task' = [task EXCEPT ![c] = [pc |-> "fetch", at |-> clock]]
          /\ UNCHANGED <<fileToken, wake, failed, clock, cached>>
      BY <1>3, <2>2 DEF Lock
    <3>2. AppTypeOK'
      BY <3>1 DEF AppInv, AppTypeOK
    <3>3. \A d \in Tasks : task'[d] = IF d = c THEN [pc |-> "fetch", at |-> clock] ELSE task[d]
      BY <3>1 DEF AppInv, AppTypeOK
    <3>4. \A d \in Tasks : task[d].pc # "fetch"
      BY <3>1, AppTokenAssumption DEF AppInv, FetchHolds, Tasks
    <3>5. FetchHolds'
      BY <2>2, <3>1, <3>3, <3>4, AppTokenAssumption DEF AppInv, AppTypeOK, FetchHolds
    <3>6. WriterInTime'
      BY <3>1, <3>3, <3>4, <2>2, AppTokenAssumption DEF AppInv, WriterInTime, Tasks
    <3> QED BY <3>2, <3>5, <3>6 DEF AppInv
  <2> QED BY <2>1, <2>2
<1>4. ASSUME NEW c \in Tasks, Fetched(c) PROVE AppInv'
  <2>1. PICK issued \in task[c].at .. clock :
            cached' = issued + Life /\ Return(c, issued + Life)
    BY <1>4 DEF Fetched
  <2>2. FreshAt(issued + Life, clock) /\ issued + Life \in Nat
    BY <1>4, FetchedIsFresh DEF Fetched
  <2>3. holder = c /\ holder' = "free" /\ UNCHANGED clock
    BY <1>4 DEF Fetched, AppInv, FetchHolds
  <2> QED BY <2>1, <2>2, <2>3, ReturnKeeps
<1>5. ASSUME NEW c \in Tasks, FetchFailed(c) PROVE AppInv'
  <2>1. holder = c /\ holder' = "free" /\ UNCHANGED <<clock, cached>> /\ Return(c, 0)
    BY <1>5 DEF FetchFailed, AppInv, FetchHolds
  <2>2. cached \in Nat
    BY DEF AppInv, AppTypeOK
  <2> QED BY <2>1, <2>2, ReturnKeeps
<1>6. CASE UNCHANGED appVars
  BY <1>6 DEF appVars, AppInv, AppTypeOK, FetchHolds, WriterInTime, FreshAt
<1> QED BY <1>1, <1>2, <1>3, <1>4, <1>5, <1>6 DEF AppNext

LEMMA AppInvHolds == AppSpec => []AppInv
<1>1. AppInit => AppInv
  <2> SUFFICES ASSUME AppInit PROVE AppInv
    OBVIOUS
  <2>1. failed \in BOOLEAN /\ fileToken = 0 /\ holder = "free"
    BY DEF AppInit
  <2>2. AppTypeOK
    BY <2>1, AppTokenAssumption DEF AppInit, AppTypeOK, Idle0
  <2>3. FetchHolds /\ WriterInTime
    BY <2>1, AppTokenAssumption DEF AppInit, FetchHolds, WriterInTime, Idle0, Tasks
  <2> QED BY <2>2, <2>3 DEF AppInv
<1> QED BY <1>1, AppStep, PTL DEF AppSpec

(* The token in the file works: with no failed request it is replaced at   *)
(* most FetchMax after it expires, and a token that is not nearly due is   *)
(* not fetched again (get_installation_token, start_token_file_writer),    *)
(* for any number of callers, any margin and any lifetime.                 *)
THEOREM AppTokenIsFresh == AppSpec => AppTokenFresh
<1>1. AppInv => AppTypeOK /\ FileTokenFresh
  <2> SUFFICES ASSUME AppInv, fileToken # 0, ~failed PROVE clock < fileToken + FetchMax
    BY DEF AppInv, FileTokenFresh
  <2>1. clock \in Nat /\ fileToken \in Nat /\ wake \in Nat /\ wake < fileToken
    BY DEF AppInv, AppTypeOK, WriterInTime
  <2>2. CASE \E c \in Tasks : task[c].pc = "fetch"
    <3>1. PICK c \in Tasks : task[c].pc = "fetch"
      BY <2>2
    <3>2. task[c].at \in Nat /\ clock <= task[c].at + FetchMax /\ task[c].at <= wake
      BY <3>1 DEF AppInv, AppTypeOK, FetchHolds, WriterInTime
    <3> QED BY <3>2, <2>1, AppTokenAssumption
  <2>3. CASE holder = "free"
    BY <2>1, <2>3, AppTokenAssumption DEF AppInv, WriterInTime
  <2> QED BY <2>2, <2>3 DEF AppInv, AppTypeOK, FetchHolds
<1>2. AppInv /\ [AppNext]_appVars => [cached' # cached => ~FreshAt(cached, clock)]_appVars
  <2> SUFFICES ASSUME AppInv, AppNext, cached' # cached PROVE ~FreshAt(cached, clock)
    BY DEF appVars
  <2>1. PICK c \in Tasks : Fetched(c)
    BY DEF AppNext, ClockTick, Ask, Lock, FetchFailed
  <2> QED BY <2>1 DEF AppInv, FetchHolds, Fetched
<1> QED BY <1>1, <1>2, AppInvHolds, PTL DEF AppSpec, AppTokenFresh, OneFetchPerToken

----------------------------------------------------------------------------
(* ConfigFile.                                                             *)

CfWriting == {"open", "fill", "rename", "inplace", "stamp"}
IsConfig(c) == DOMAIN CfDefault \subseteq DOMAIN c

(* What a handler or the watcher is about to publish is a configuration,   *)
(* and a valid one where it goes to memory without another look.           *)
SnapshotsValid ==
    /\ \A r \in CfReqs : /\ cfPc[r] \in {"lock", "swap"} \cup CfWriting => IsConfig(cfSnap[r])
                         /\ cfPc[r] = "swap" => CfValid(cfSnap[r])
    /\ cfWatch[1] = "swap" => IsConfig(cfWatch[2]) /\ CfValid(cfWatch[2])

(* Whoever is past the lock holds it, so the temporary file is its own.    *)
WriterHasLock ==
    /\ cfLock \subseteq CfReqs
    /\ \A r \in CfReqs : /\ cfPc[r] \in CfWriting <=> r \in cfLock
                         /\ cfPc[r] \in CfWriting => cfLock = {r}
                         /\ cfPc[r] = "rename" => cfTmp = cfSnap[r]
                         /\ cfPc[r] = "inplace" => cfBound

(* The file is a configuration, text that does not parse, or, where it is  *)
(* rewritten in place, half a configuration.                               *)
DiskContents ==
    \/ IsConfig(cfDisk) \/ cfDisk = <<"invalid">>
    \/ cfBound /\ cfDisk \in {<<"empty">>, <<"partial">>}

ConfigInv ==
    /\ DOMAIN cfPc = CfReqs /\ DOMAIN cfSnap = CfReqs
    /\ IsConfig(cfMem) /\ CfValid(cfMem)
    /\ SnapshotsValid /\ WriterHasLock /\ DiskContents

LEMMA DefaultFields == {"provider", "url"} \subseteq DOMAIN CfDefault
BY DEF CfDefault, GeneralDefault, WebDefault, JiraDefault, AgentDefault, ProvidersDefault,
       GitDefault, GithubDefault, Patched

(* A configuration has several fields, a marker for damaged text is a      *)
(* sequence of one element.                                                *)
LEMMA ConfigIsWhole ==
    ASSUME NEW c, IsConfig(c), NEW m PROVE c # <<m>>
<1>1. "provider" \in DOMAIN c /\ "url" \in DOMAIN c
  BY DefaultFields DEF IsConfig
<1>2. DOMAIN <<m>> = 1 .. 1
  OBVIOUS
<1>3. ASSUME c = <<m>> PROVE FALSE
  <2>1. "provider" \in 1 .. 1 /\ "url" \in 1 .. 1
    BY <1>1, <1>2, <1>3
  <2>2. "provider" = 1 /\ "url" = 1
    BY <2>1
  <2> QED BY <2>2
<1> QED BY <1>3

(* Config::load gives a valid configuration or an error.                   *)
LEMMA LoadedIsValid ==
    ASSUME DiskContents, Loads(cfDisk)
    PROVE  IsConfig(Parsed(cfDisk)) /\ CfValid(Parsed(cfDisk))
<1>1. CfValid(Parsed(cfDisk))
  BY DEF Loads
<1>2. cfDisk # <<"partial">> /\ cfDisk # <<"invalid">>
  BY DEF Loads, Parses
<1>3. CASE cfDisk = <<"empty">>
  BY <1>3, <1>1 DEF Parsed, IsConfig
<1>4. CASE cfDisk # <<"empty">>
  BY <1>1, <1>2, <1>4 DEF DiskContents, Parsed, IsConfig
<1> QED BY <1>3, <1>4

(* The fields of the defaults that validation looks at.                    *)
LEMMA DefaultValues ==
    /\ {"interval", "conc", "active", "port", "cors", "done", "provider", "timeout", "available",
        "limit", "args", "cursorurl", "remote", "app"} \subseteq DOMAIN CfDefault
    /\ CfDefault.interval = 60 /\ CfDefault.conc = 1 /\ CfDefault.active = 0
    /\ CfDefault.port = 8080 /\ CfDefault.cors = "none" /\ CfDefault.done = "Done"
    /\ CfDefault.provider = "claude" /\ CfDefault.timeout = 1800
    /\ CfDefault.available = {"claude", "cursor", "codex", "opencode"}
    /\ CfDefault.limit = 32768 /\ CfDefault.args = "none" /\ CfDefault.cursorurl = "blank"
    /\ CfDefault.remote = "origin" /\ CfDefault.app = "none"
<1> USE DEF CfDefault, GeneralDefault, WebDefault, JiraDefault, AgentDefault, ProvidersDefault,
         GitDefault, GithubDefault, Patched
<1>1. {"interval", "conc", "active", "port", "cors", "done", "provider", "timeout", "available",
       "limit", "args", "cursorurl", "remote", "app"} \subseteq DOMAIN CfDefault
  OBVIOUS
<1>2. CfDefault.interval = 60 /\ CfDefault.conc = 1 /\ CfDefault.active = 0
  OBVIOUS
<1>3. CfDefault.port = 8080 /\ CfDefault.cors = "none" /\ CfDefault.done = "Done"
  OBVIOUS
<1>4. CfDefault.provider = "claude" /\ CfDefault.timeout = 1800
  OBVIOUS
<1>5. CfDefault.available = {"claude", "cursor", "codex", "opencode"}
  OBVIOUS
<1>6. CfDefault.limit = 32768 /\ CfDefault.args = "none" /\ CfDefault.cursorurl = "blank"
  OBVIOUS
<1>7. CfDefault.remote = "origin" /\ CfDefault.app = "none"
  OBVIOUS
<1> HIDE DEF CfDefault
<1> QED BY <1>1, <1>2, <1>3, <1>4, <1>5, <1>6, <1>7

LEMMA InitialIsValid ==
    ASSUME NEW c, c = [CfDefault EXCEPT !.url = "u", !.model = "m"]
    PROVE  IsConfig(c) /\ CfValid(c)
<1>1. DOMAIN c = DOMAIN CfDefault
  OBVIOUS
<1>2. /\ c.interval = 60 /\ c.conc = 1 /\ c.active = 0 /\ c.port = 8080 /\ c.cors = "none"
      /\ c.done = "Done" /\ c.provider = "claude" /\ c.timeout = 1800
      /\ c.available = {"claude", "cursor", "codex", "opencode"}
      /\ c.limit = 32768 /\ c.args = "none" /\ c.cursorurl = "blank" /\ c.remote = "origin"
      /\ c.app = "none"
  BY DefaultValues
<1> QED
  BY <1>1, <1>2 DEF IsConfig, CfValid, GeneralValid, AgentValid, GithubValid,
     EffectiveMaxActive, ExtraArgsOk, CorsOk, ParseProvider, CfProviders

(* The requests: the step of one request moves no other, so what the       *)
(* invariant says of the others stays.                                     *)
LEMMA ConfigRequestStep ==
    ASSUME NEW r \in CfReqs, ConfigInv,
           \/ UpdateConfig(r) \/ OnboardingComplete(r) \/ ReloadConfig(r) \/ ReloadSwaps(r)
           \/ AcquireLock(r) \/ OpenTmp(r) \/ FillTmp(r) \/ RenameTmp(r) \/ TruncateInPlace(r)
           \/ WriteInPlace(r) \/ RecordWrite(r) \/ WriteFails(r) \/ RefreshStatus(r)
    PROVE  ConfigInv'
<1> USE DEF CfGoto, cfFile, cfRest, cfMemRest
<1>1. CASE UpdateConfig(r)
  <2>1. PICK p \in CfPatches : cfMem' = Patched(cfMem, p.set) /\ CfValid(cfMem')
    BY <1>1 DEF UpdateConfig, StageAndCommit
  <2>2. IsConfig(cfMem')
    BY <2>1 DEF Patched, IsConfig, ConfigInv
  <2>3. /\ cfPc[r] = "idle" /\ cfPc' = [cfPc EXCEPT ![r] = "lock"]
        /\ cfSnap' = [cfSnap EXCEPT ![r] = cfMem']
        /\ UNCHANGED <<cfDisk, cfTmp, cfLock, cfWatch, cfBound>>
    BY <1>1 DEF UpdateConfig
  <2>4. SnapshotsValid'
    BY <2>2, <2>3 DEF ConfigInv, SnapshotsValid, CfWriting
  <2>5. WriterHasLock' /\ DiskContents'
    BY <2>3 DEF ConfigInv, WriterHasLock, DiskContents, CfWriting
  <2> QED BY <2>1, <2>2, <2>3, <2>4, <2>5 DEF ConfigInv
<1>2. CASE OnboardingComplete(r)
  <2>1. /\ cfPc[r] = "idle" /\ cfPc' = [cfPc EXCEPT ![r] = "lock"]
        /\ cfSnap' = [cfSnap EXCEPT ![r] = cfMem]
        /\ UNCHANGED <<cfMem, cfDisk, cfTmp, cfLock, cfWatch, cfBound>>
    BY <1>2 DEF OnboardingComplete
  <2>2. SnapshotsValid'
    BY <2>1 DEF ConfigInv, SnapshotsValid, CfWriting
  <2>3. WriterHasLock' /\ DiskContents'
    BY <2>1 DEF ConfigInv, WriterHasLock, DiskContents, CfWriting
  <2> QED BY <2>1, <2>2, <2>3 DEF ConfigInv
<1>3. CASE ReloadConfig(r)
  <2>1. /\ cfPc[r] = "idle"
        /\ UNCHANGED <<cfMem, cfDisk, cfTmp, cfLock, cfWatch, cfBound>>
        /\ \/ /\ Loads(cfDisk) /\ cfPc' = [cfPc EXCEPT ![r] = "swap"]
              /\ cfSnap' = [cfSnap EXCEPT ![r] = Parsed(cfDisk)]
           \/ cfPc' = [cfPc EXCEPT ![r] = "refused"] /\ UNCHANGED cfSnap
    BY <1>3 DEF ReloadConfig
  <2>2. Loads(cfDisk) => IsConfig(Parsed(cfDisk)) /\ CfValid(Parsed(cfDisk))
    BY LoadedIsValid DEF ConfigInv
  <2>3. SnapshotsValid'
    BY <2>1, <2>2 DEF ConfigInv, SnapshotsValid, CfWriting
  <2>4. WriterHasLock' /\ DiskContents'
    BY <2>1 DEF ConfigInv, WriterHasLock, DiskContents, CfWriting
  <2> QED BY <2>1, <2>3, <2>4 DEF ConfigInv
<1>4. CASE ReloadSwaps(r)
  <2>1. /\ cfPc[r] = "swap" /\ cfPc' = [cfPc EXCEPT ![r] = "reloaded"] /\ cfMem' = cfSnap[r]
        /\ UNCHANGED <<cfSnap, cfDisk, cfTmp, cfLock, cfWatch, cfBound>>
    BY <1>4 DEF ReloadSwaps
  <2>2. IsConfig(cfMem') /\ CfValid(cfMem')
    BY <2>1 DEF ConfigInv, SnapshotsValid
  <2>3. SnapshotsValid' /\ WriterHasLock' /\ DiskContents'
    BY <2>1 DEF ConfigInv, SnapshotsValid, WriterHasLock, DiskContents, CfWriting
  <2> QED BY <2>1, <2>2, <2>3 DEF ConfigInv
<1>5. CASE AcquireLock(r)
  <2>1. /\ cfPc[r] = "lock" /\ cfPc' = [cfPc EXCEPT ![r] = "open"] /\ cfLock = {} /\ cfLock' = {r}
        /\ UNCHANGED <<cfMem, cfSnap, cfDisk, cfTmp, cfWatch, cfBound>>
    BY <1>5 DEF AcquireLock, LockFree
  <2>2. SnapshotsValid' /\ WriterHasLock' /\ DiskContents'
    BY <2>1 DEF ConfigInv, SnapshotsValid, WriterHasLock, DiskContents, CfWriting
  <2> QED BY <2>1, <2>2 DEF ConfigInv
<1>6. CASE OpenTmp(r) \/ FillTmp(r)
  <2>1. /\ \/ cfPc[r] = "open" /\ cfPc' = [cfPc EXCEPT ![r] = "fill"]
           \/ cfPc[r] = "fill" /\ cfPc' = [cfPc EXCEPT ![r] = "rename"] /\ cfTmp' = cfSnap[r]
        /\ UNCHANGED <<cfMem, cfSnap, cfDisk, cfLock, cfWatch, cfBound>>
    BY <1>6 DEF OpenTmp, FillTmp
  <2>2. SnapshotsValid' /\ WriterHasLock' /\ DiskContents'
    BY <2>1 DEF ConfigInv, SnapshotsValid, WriterHasLock, DiskContents, CfWriting
  <2> QED BY <2>1, <2>2 DEF ConfigInv
<1>7. CASE RenameTmp(r)
  <2>1. /\ cfPc[r] = "rename" /\ cfPc' = [cfPc EXCEPT ![r] = "stamp"] /\ cfDisk' = cfTmp
        /\ UNCHANGED <<cfMem, cfSnap, cfLock, cfWatch, cfBound>>
    BY <1>7 DEF RenameTmp
  <2>2. IsConfig(cfDisk')
    BY <2>1 DEF ConfigInv, SnapshotsValid, WriterHasLock, CfWriting
  <2>3. SnapshotsValid' /\ WriterHasLock'
    BY <2>1 DEF ConfigInv, SnapshotsValid, WriterHasLock, CfWriting
  <2> QED BY <2>1, <2>2, <2>3 DEF ConfigInv, DiskContents
<1>8. CASE TruncateInPlace(r)
  <2>1. /\ cfPc[r] = "rename" /\ cfPc' = [cfPc EXCEPT ![r] = "inplace"] /\ cfDisk' = <<"empty">>
        /\ cfBound /\ UNCHANGED <<cfMem, cfSnap, cfTmp, cfLock, cfWatch, cfBound>>
    BY <1>8 DEF TruncateInPlace
  <2>2. SnapshotsValid' /\ WriterHasLock'
    BY <2>1 DEF ConfigInv, SnapshotsValid, WriterHasLock, CfWriting
  <2> QED BY <2>1, <2>2 DEF ConfigInv, DiskContents
<1>9. CASE WriteInPlace(r)
  <2>1. /\ cfPc[r] = "inplace" /\ cfDisk' \in {<<"partial">>, cfSnap[r]}
        /\ UNCHANGED <<cfMem, cfSnap, cfLock, cfWatch, cfBound>>
        /\ \/ cfPc' = [cfPc EXCEPT ![r] = "stamp"]
           \/ UNCHANGED <<cfPc, cfTmp>>
    BY <1>9 DEF WriteInPlace
  <2>2. cfBound /\ IsConfig(cfSnap[r])
    BY <2>1 DEF ConfigInv, SnapshotsValid, WriterHasLock, CfWriting
  <2>3. DiskContents'
    BY <2>1, <2>2 DEF DiskContents
  <2>4. SnapshotsValid' /\ WriterHasLock'
    BY <2>1 DEF ConfigInv, SnapshotsValid, WriterHasLock, CfWriting
  <2> QED BY <2>1, <2>3, <2>4 DEF ConfigInv
<1>10. CASE RecordWrite(r)
  <2>1. /\ cfPc[r] = "stamp" /\ cfPc' = [cfPc EXCEPT ![r] = "persisted"] /\ cfLock' = cfLock \ {r}
        /\ UNCHANGED <<cfMem, cfSnap, cfDisk, cfTmp, cfWatch, cfBound>>
    BY <1>10 DEF RecordWrite
  <2>2. SnapshotsValid' /\ WriterHasLock' /\ DiskContents'
    BY <2>1 DEF ConfigInv, SnapshotsValid, WriterHasLock, DiskContents, CfWriting
  <2> QED BY <2>1, <2>2 DEF ConfigInv
<1>11. CASE WriteFails(r)
  <2>1. /\ cfPc[r] \in {"fill", "rename", "inplace"} /\ cfPc' = [cfPc EXCEPT ![r] = "warned"]
        /\ cfLock' = cfLock \ {r} /\ UNCHANGED <<cfMem, cfSnap, cfDisk, cfWatch, cfBound>>
    BY <1>11 DEF WriteFails, UnlockAfterError
  <2>2. SnapshotsValid' /\ WriterHasLock' /\ DiskContents'
    BY <2>1 DEF ConfigInv, SnapshotsValid, WriterHasLock, DiskContents, CfWriting
  <2> QED BY <2>1, <2>2 DEF ConfigInv
<1>12. CASE RefreshStatus(r)
  BY <1>12 DEF RefreshStatus, ConfigInv, SnapshotsValid, WriterHasLock, DiskContents
<1> QED BY <1>1, <1>2, <1>3, <1>4, <1>5, <1>6, <1>7, <1>8, <1>9, <1>10, <1>11, <1>12

LEMMA ConfigStep == ConfigInv /\ [CfNext]_cfVars => ConfigInv'
<1> SUFFICES ASSUME ConfigInv, [CfNext]_cfVars PROVE ConfigInv'
  OBVIOUS
<1> USE DEF cfFile, cfRest
<1>1. ASSUME NEW r \in CfReqs,
             \/ UpdateConfig(r) \/ OnboardingComplete(r) \/ ReloadConfig(r) \/ ReloadSwaps(r)
             \/ AcquireLock(r) \/ OpenTmp(r) \/ FillTmp(r) \/ RenameTmp(r) \/ TruncateInPlace(r)
             \/ WriteInPlace(r) \/ RecordWrite(r) \/ WriteFails(r) \/ RefreshStatus(r)
      PROVE  ConfigInv'
  BY <1>1, ConfigRequestStep
<1>2. CASE WatcherPolls \/ WatcherChecks
  <2>1. cfWatch'[1] # "swap" /\ UNCHANGED <<cfMem, cfDisk, cfTmp, cfLock, cfBound, cfPc, cfSnap>>
    BY <1>2 DEF WatcherPolls, WatcherChecks
  <2> QED BY <2>1 DEF ConfigInv, SnapshotsValid, WriterHasLock, DiskContents
<1>3. CASE WatcherLoads
  <2>1. /\ UNCHANGED <<cfMem, cfDisk, cfTmp, cfLock, cfBound, cfPc, cfSnap>>
        /\ cfWatch' = IF Loads(cfDisk) THEN <<"swap", Parsed(cfDisk)>> ELSE <<"wait">>
    BY <1>3 DEF WatcherLoads
  <2>2. Loads(cfDisk) => IsConfig(Parsed(cfDisk)) /\ CfValid(Parsed(cfDisk))
    BY LoadedIsValid DEF ConfigInv
  <2>3. cfWatch'[1] = "swap" => IsConfig(cfWatch'[2]) /\ CfValid(cfWatch'[2])
    BY <2>1, <2>2
  <2> QED BY <2>1, <2>3 DEF ConfigInv, SnapshotsValid, WriterHasLock, DiskContents
<1>4. CASE WatcherSwaps
  <2>1. /\ cfWatch'[1] # "swap" /\ UNCHANGED <<cfDisk, cfTmp, cfLock, cfBound, cfPc, cfSnap>>
        /\ IsConfig(cfMem') /\ CfValid(cfMem')
    BY <1>4 DEF WatcherSwaps, ConfigInv, SnapshotsValid
  <2> QED BY <2>1 DEF ConfigInv, SnapshotsValid, WriterHasLock, DiskContents
<1>5. CASE OperatorEdits
  <2>1. cfDisk' \in CfEdits /\ UNCHANGED <<cfMem, cfTmp, cfLock, cfBound, cfPc, cfSnap, cfWatch>>
    BY <1>5 DEF OperatorEdits
  <2>2. DiskContents'
    BY <2>1, CfEditsAssumption DEF DiskContents, IsConfig
  <2> QED BY <2>1, <2>2 DEF ConfigInv, SnapshotsValid, WriterHasLock
<1>6. CASE CfTick
  BY <1>6 DEF CfTick, ConfigInv, SnapshotsValid, WriterHasLock, DiskContents
<1>7. CASE CfCrash
  <2>1. /\ DOMAIN cfPc' = CfReqs /\ \A r \in CfReqs : cfPc'[r] \in {"idle", "dropped"}
        /\ cfLock' = {} /\ cfWatch'[1] # "swap" /\ UNCHANGED <<cfMem, cfDisk, cfBound, cfSnap>>
    BY <1>7 DEF CfCrash
  <2> QED BY <2>1 DEF ConfigInv, SnapshotsValid, WriterHasLock, DiskContents, CfWriting
<1>8. CASE CfStart
  <2>1. /\ UNCHANGED <<cfDisk, cfTmp, cfLock, cfBound, cfPc, cfSnap, cfWatch>>
        /\ (Loads(cfDisk) /\ cfMem' = Parsed(cfDisk)) \/ UNCHANGED cfMem
    BY <1>8 DEF CfStart
  <2>2. IsConfig(cfMem') /\ CfValid(cfMem')
    BY <2>1, LoadedIsValid DEF ConfigInv
  <2> QED BY <2>1, <2>2 DEF ConfigInv, SnapshotsValid, WriterHasLock, DiskContents
<1>9. CASE UNCHANGED cfVars
  BY <1>9 DEF cfVars, ConfigInv, SnapshotsValid, WriterHasLock, DiskContents
<1> QED BY <1>1, <1>2, <1>3, <1>4, <1>5, <1>6, <1>7, <1>8, <1>9 DEF CfNext

(* For any number of requests, patches and crashes: the configuration in   *)
(* memory is one validate() accepts, config.toml is never published half   *)
(* written where rename works, and the lock file is given back on every    *)
(* path (stage_and_commit, write_config, the watcher, reload_config).      *)
THEOREM ConfigIsSafe == CfSpec => []ConfigSafe
<1>1. CfInit => ConfigInv
  <2> SUFFICES ASSUME CfInit PROVE ConfigInv
    OBVIOUS
  <2>1. IsConfig(cfMem) /\ CfValid(cfMem) /\ cfDisk = cfMem
    BY InitialIsValid DEF CfInit
  <2>2. SnapshotsValid /\ WriterHasLock /\ DiskContents
    BY <2>1 DEF CfInit, SnapshotsValid, WriterHasLock, DiskContents, CfWriting
  <2> QED BY <2>1, <2>2 DEF ConfigInv, CfInit
<1>2. ConfigInv => ConfigSafe
  <2> SUFFICES ASSUME ConfigInv PROVE DiskWhole /\ LockNotLeaked
    BY DEF ConfigSafe, MemoryValid, ConfigInv
  <2>1. DiskWhole
    BY ConfigIsWhole DEF ConfigInv, DiskContents, DiskWhole
  <2>2. LockNotLeaked
    BY DEF ConfigInv, WriterHasLock, LockNotLeaked, CfWriting
  <2> QED BY <2>1, <2>2
<1> QED BY <1>1, <1>2, ConfigStep, PTL DEF CfSpec

----------------------------------------------------------------------------
(* Credentials.                                                            *)

(* Who makes a key made the file and left it short, one that is up has the *)
(* key of the environment or, unless it ran between the halves of a reset, *)
(* that of the file; a reset that has cleared the rows finds none.         *)
KeyFacts ==
    /\ keyMaker # "nobody" => keyfile = Partial /\ keysMade < MaxKey /\ ~env
    /\ keyMaker = "server" => ~server.up
    /\ keyMaker = "reset" => reset = "removed"
    /\ env => reset = "idle" /\ (server.up => server.key = 1)
    /\ server.up /\ ~skew => server.key \in {0, CurrentKey}
    /\ reset = "cleared" /\ ~skew => ~server.up /\ \A k \in Cleared : ~Present(k)

(* A row that is there was sealed with some key.                           *)
RowsSealed == \A k \in RowKinds : Present(k) => stored[k].key # 0

(* A request in flight belongs to a server with a key; before the write of *)
(* a Jira row, Jira has accepted what will be written.                     *)
PostFacts ==
    \A r \in Posts :
        /\ post[r].pc # "idle" => server.up /\ server.key # 0
        /\ post[r].pc # "idle" /\ post[r].kind = "jira"
               => post[r].site \in Sites /\ post[r].val \in Secrets
        /\ post[r].pc = "write" /\ post[r].kind = "jira"
               => <<post[r].site, post[r].val>> \in accepted

CredInv == CredentialsSafe /\ KeyFacts /\ RowsSealed /\ PostFacts

(* The requests that write rows.                                           *)
CredRequest ==
    \/ \E k \in AiKinds : PostProvider(k)
    \/ \E ks \in SUBSET AiKinds \ {{}} : DeleteProvider(ks)
    \/ \E r \in Posts :
          \/ Refused(r) \/ Accepted(r) \/ GithubWrite(r) \/ JiraWrite(r) \/ GithubBegin(r)
          \/ \E s \in Sites, v \in Secrets \cup {Nothing} : JiraBegin(r, s, v)
    \/ DeleteGithubPat \/ DeleteJiraCredential \/ PatchAttribution

(* A row sealed by a server that is up with a key.                         *)
LEMMA SealedRow ==
    ASSUME CredInv, server.up, server.key # 0,
           NEW v \in Secrets \cup {Nothing, Pasted}, NEW s \in Sites \cup {Nothing}
    PROVE  /\ Sealed(v, s) \in Row /\ Sealed(v, s) # Absent /\ Sealed(v, s).key # 0
           /\ Sealed(v, s).val = v /\ Sealed(v, s).site = s
           /\ ~skew => Sealed(v, s).key = CurrentKey
<1>1. server.key \in Nat
  BY DEF CredInv, CredentialsSafe, CredTypeOK
<1>2. ~skew => server.key = CurrentKey
  BY DEF CredInv, KeyFacts
<1> QED BY <1>1, <1>2 DEF Sealed, Row, Absent

(* What a request leaves alone, and what it may do to a row: replace it by *)
(* a sealed one, or remove it.                                             *)
LEMMA CredRequestKeeps ==
    ASSUME CredInv, RestUnchanged, stored' \in [RowKinds -> Row],
           \A k \in RowKinds : \/ stored'[k] \in {stored[k], Absent}
                               \/ /\ server.up /\ server.key # 0
                                  /\ stored'[k].key = server.key
    PROVE  KeyFacts' /\ RowsSealed' /\ RowsOpen' /\ SecretsSwept'
<1> USE DEF RestUnchanged
<1>1. CurrentKey' = CurrentKey
  BY DEF CurrentKey
<1>2. RowsSealed'
  BY DEF CredInv, RowsSealed, Present
<1>3. server.up /\ server.key # 0 /\ ~skew => server.key = CurrentKey
  BY DEF CredInv, KeyFacts
<1>4. RowsOpen'
  BY <1>1, <1>3 DEF CredInv, CredentialsSafe, RowsOpen, Present, RowKinds, Tokens
<1>5. SecretsSwept'
  BY DEF CredInv, CredentialsSafe, SecretsSwept
<1>6. KeyFacts'
  <2>1. reset = "cleared" /\ ~skew => \A k \in Cleared : ~Present(k)'
    BY DEF CredInv, KeyFacts, Present, Cleared, RowKinds, Tokens
  <2> QED BY <1>1, <2>1 DEF CredInv, KeyFacts
<1> QED BY <1>2, <1>4, <1>5, <1>6

LEMMA CredRequestStep == CredInv /\ CredRequest => CredInv'
<1> SUFFICES ASSUME CredInv, CredRequest PROVE CredInv'
  OBVIOUS
<1> USE DEF RestUnchanged
<1>0. /\ stored \in [RowKinds -> Row] /\ audit \in [Tokens -> Event] /\ post \in [Posts -> Post]
      /\ server.key \in Nat /\ accepted \subseteq Sites \X Secrets /\ writes \in Nat
      /\ AuditTellsRow /\ JiraPairValidated /\ PostFacts
      /\ Absent \in Row /\ NoPost \in Post
      /\ Tokens \subseteq RowKinds /\ AiKinds \subseteq RowKinds /\ AiKinds \cap Tokens = {}
  BY DEF CredInv, CredentialsSafe, CredTypeOK, Row, Absent, NoPost, Post, Tokens, RowKinds, AiKinds
<1> DEFINE Done == /\ stored' \in [RowKinds -> Row] /\ audit' \in [Tokens -> Event]
                   /\ post' \in [Posts -> Post] /\ accepted' \subseteq Sites \X Secrets
                   /\ writes' \in 0 .. MaxWrites /\ RestUnchanged
                   /\ AuditTellsRow' /\ JiraPairValidated' /\ PostFacts'
                   /\ \A k \in RowKinds : \/ stored'[k] \in {stored[k], Absent}
                                          \/ /\ server.up /\ server.key # 0
                                             /\ stored'[k].key = server.key
<1>1. ASSUME Done PROVE CredInv'
  <2>1. KeyFacts' /\ RowsSealed' /\ RowsOpen' /\ SecretsSwept'
    BY <1>1, CredRequestKeeps
  <2>2. CredTypeOK'
    BY <1>1 DEF CredInv, CredentialsSafe, CredTypeOK
  <2> QED BY <1>1, <2>1, <2>2 DEF CredInv, CredentialsSafe
<1>2. ASSUME NEW k \in AiKinds, PostProvider(k) PROVE CredInv'
  <2>1. /\ server.up /\ server.key # 0 /\ stored' = [stored EXCEPT ![k] = Sealed(Pasted, Nothing)]
        /\ writes < MaxWrites /\ writes' = writes + 1 /\ UNCHANGED <<audit, post, accepted>> /\ RestUnchanged
    BY <1>2 DEF PostProvider, CanSeal
  <2>2. Sealed(Pasted, Nothing) \in Row /\ Sealed(Pasted, Nothing).key = server.key
    BY <2>1, SealedRow DEF Sealed
  <2>3. AuditTellsRow' /\ JiraPairValidated'
    BY <1>0, <2>1 DEF AuditTellsRow, JiraPairValidated, Present, Tokens
  <2>4. writes' \in 0 .. MaxWrites
    BY <1>0, <2>1, CredentialsAssumption
  <2>5. Done
    BY <1>0, <2>1, <2>2, <2>3, <2>4 DEF PostFacts
  <2> QED BY <2>5, <1>1
<1>3. ASSUME NEW ks \in SUBSET AiKinds, DeleteProvider(ks) PROVE CredInv'
  <2>1. /\ stored' = [k \in RowKinds |-> IF k \in ks THEN Absent ELSE stored[k]]
        /\ UNCHANGED <<audit, post, writes, accepted>> /\ RestUnchanged
    BY <1>3 DEF DeleteProvider
  <2>2. AuditTellsRow' /\ JiraPairValidated'
    BY <1>0, <2>1 DEF AuditTellsRow, JiraPairValidated, Present, Tokens
  <2>3. writes' \in 0 .. MaxWrites
    BY <2>1 DEF CredInv, CredentialsSafe, CredTypeOK
  <2>4. Done
    BY <1>0, <2>1, <2>2, <2>3 DEF PostFacts
  <2> QED BY <2>4, <1>1
<1>4. ASSUME NEW r \in Posts, GithubBegin(r) PROVE CredInv'
  <2>1. /\ server.up /\ server.key # 0
        /\ post' = [post EXCEPT ![r] = [NoPost EXCEPT !.pc = "validate", !.val = Pasted]]
        /\ UNCHANGED <<stored, audit, writes, accepted>> /\ RestUnchanged
    BY <1>4 DEF GithubBegin, CanSeal
  <2>2. post' \in [Posts -> Post] /\ PostFacts'
    BY <1>0, <2>1 DEF PostFacts, NoPost, Post, Tokens
  <2>3. Done
    BY <1>0, <2>1, <2>2 DEF CredInv, CredentialsSafe, CredTypeOK, AuditTellsRow, JiraPairValidated, Present
  <2> QED BY <2>3, <1>1
<1>5. ASSUME NEW r \in Posts, NEW s \in Sites, NEW v \in Secrets \cup {Nothing}, JiraBegin(r, s, v)
      PROVE CredInv'
  <2> DEFINE val == IF v = Nothing THEN stored["jira"].val ELSE v
  <2>1. /\ server.up /\ server.key # 0 /\ (v = Nothing => Present("jira"))
        /\ post' = [post EXCEPT ![r] = [pc |-> "validate", kind |-> "jira", site |-> s,
                                        val |-> val, present |-> FALSE]]
        /\ UNCHANGED <<stored, audit, writes, accepted>> /\ RestUnchanged
    BY <1>5 DEF JiraBegin, CanSeal
  <2>2. val \in Secrets
    BY <1>0, <2>1 DEF JiraPairValidated
  <2> HIDE DEF val
  <2>3. post' \in [Posts -> Post] /\ PostFacts'
    BY <1>0, <2>1, <2>2 DEF PostFacts, Post, Tokens
  <2>4. Done
    BY <1>0, <2>1, <2>3 DEF CredInv, CredentialsSafe, CredTypeOK, AuditTellsRow, JiraPairValidated, Present
  <2> QED BY <2>4, <1>1
<1>6. ASSUME NEW r \in Posts, Refused(r) PROVE CredInv'
  <2>1. /\ post' = [post EXCEPT ![r] = NoPost]
        /\ UNCHANGED <<stored, audit, writes, accepted>> /\ RestUnchanged
    BY <1>6 DEF Refused
  <2>2. post' \in [Posts -> Post] /\ PostFacts'
    BY <1>0, <2>1 DEF PostFacts, NoPost
  <2>3. Done
    BY <1>0, <2>1, <2>2 DEF CredInv, CredentialsSafe, CredTypeOK, AuditTellsRow, JiraPairValidated, Present
  <2> QED BY <2>3, <1>1
<1>7. ASSUME NEW r \in Posts, Accepted(r) PROVE CredInv'
  <2> DEFINE k == post[r].kind
  <2>1. /\ post[r].pc = "validate"
        /\ post' = [post EXCEPT ![r].pc = "write", ![r].present = Present(k)]
        /\ accepted' = IF k = "jira" THEN accepted \cup {<<post[r].site, post[r].val>>} ELSE accepted
        /\ UNCHANGED <<stored, audit, writes>> /\ RestUnchanged
    BY <1>7 DEF Accepted
  <2>2. Present(k) \in BOOLEAN
    BY DEF Present
  <2>3. post' \in [Posts -> Post]
    BY <1>0, <2>1, <2>2 DEF Post
  <2>4. \A q \in Posts : /\ post'[q].kind = post[q].kind /\ post'[q].site = post[q].site
                         /\ post'[q].val = post[q].val
                         /\ post'[q].pc = IF q = r THEN "write" ELSE post[q].pc
    BY <1>0, <2>1 DEF Post
  <2>5. accepted' \subseteq Sites \X Secrets /\ accepted \subseteq accepted'
    BY <1>0, <2>1 DEF PostFacts
  <2>6. PostFacts'
    BY <1>0, <2>1, <2>4, <2>5 DEF PostFacts
  <2>7. AuditTellsRow' /\ JiraPairValidated'
    BY <1>0, <2>1, <2>5 DEF AuditTellsRow, JiraPairValidated, Present
  <2>8. Done
    BY <1>0, <2>1, <2>3, <2>5, <2>6, <2>7 DEF CredInv, CredentialsSafe, CredTypeOK
  <2> QED BY <2>8, <1>1
<1>8. ASSUME NEW r \in Posts, PostWrite(r) PROVE CredInv'
  <2> DEFINE k == post[r].kind
             new == Sealed(post[r].val, post[r].site)
  <2>1. /\ post[r].pc = "write" /\ writes < MaxWrites /\ writes' = writes + 1
        /\ post' = [post EXCEPT ![r] = NoPost] /\ stored' = [stored EXCEPT ![k] = new]
        /\ UNCHANGED accepted /\ RestUnchanged
    BY <1>8 DEF PostWrite, SealedPost
  <2>ev. \E ev \in {"rotated", "created"} : audit' = [audit EXCEPT ![k] = ev]
    BY <1>8, Zenon DEF PostWrite
  <2>2. /\ server.up /\ server.key # 0 /\ k \in Tokens
        /\ post[r].val \in Secrets \cup {Nothing, Pasted} /\ post[r].site \in Sites \cup {Nothing}
    BY <1>0, <2>1 DEF PostFacts, Post
  <2>3. /\ new \in Row /\ new # Absent /\ new.key = server.key
        /\ new.val = post[r].val /\ new.site = post[r].site
    BY <2>2, SealedRow DEF Sealed
  <2> HIDE DEF new
  <2>4. audit' \in [Tokens -> Event] /\ writes' \in 0 .. MaxWrites
    BY <1>0, <2>1, <2>2, <2>ev, CredentialsAssumption DEF Event
  <2>5. post' \in [Posts -> Post] /\ PostFacts'
    BY <1>0, <2>1 DEF PostFacts, NoPost
  <2>6. AuditTellsRow'
    BY <1>0, <2>1, <2>2, <2>3, <2>ev DEF AuditTellsRow, Present
  <2>7. JiraPairValidated'
    BY <1>0, <2>1, <2>2, <2>3 DEF JiraPairValidated, Present, PostFacts, Tokens
  <2>8. Done
    BY <1>0, <2>1, <2>2, <2>3, <2>4, <2>5, <2>6, <2>7
  <2> QED BY <2>8, <1>1
<1>9. ASSUME NEW k \in Tokens, DeleteToken(k) PROVE CredInv'
  <2>1. /\ stored' = [stored EXCEPT ![k] = Absent] /\ audit' = [audit EXCEPT ![k] = "deleted"]
        /\ UNCHANGED <<post, writes, accepted>> /\ RestUnchanged
    BY <1>9 DEF DeleteToken
  <2>2. audit' \in [Tokens -> Event] /\ writes' \in 0 .. MaxWrites
    BY <1>0, <2>1 DEF Event, CredInv, CredentialsSafe, CredTypeOK
  <2>3. AuditTellsRow' /\ JiraPairValidated'
    BY <1>0, <2>1 DEF AuditTellsRow, JiraPairValidated, Present
  <2>4. Done
    BY <1>0, <2>1, <2>2, <2>3 DEF PostFacts
  <2> QED BY <2>4, <1>1
<1>10. CASE PatchAttribution
  <2>1. /\ Present("github") /\ audit' = [audit EXCEPT !["github"] = "rotated"]
        /\ UNCHANGED <<stored, post, writes, accepted>> /\ RestUnchanged
    BY <1>10 DEF PatchAttribution
  <2>2. audit' \in [Tokens -> Event] /\ writes' \in 0 .. MaxWrites
    BY <1>0, <2>1 DEF Event, CredInv, CredentialsSafe, CredTypeOK
  <2>3. AuditTellsRow' /\ JiraPairValidated'
    BY <1>0, <2>1 DEF AuditTellsRow, JiraPairValidated, Present
  <2>4. Done
    BY <1>0, <2>1, <2>2, <2>3 DEF PostFacts
  <2> QED BY <2>4, <1>1
<1> HIDE DEF Done
<1> QED
  BY <1>2, <1>3, <1>4, <1>5, <1>6, <1>7, <1>8, <1>9, <1>10
  DEF CredRequest, GithubWrite, JiraWrite, DeleteGithubPat, DeleteJiraCredential, Tokens

(* A step of a bundle moves its directory with it.                         *)
LEMMA CredBuildStep ==
    ASSUME CredInv, NEW b \in Builds, NEW pc \in BuildPc, BuildTo(b, pc)
    PROVE  CredInv'
<1>1. /\ build' = [build EXCEPT ![b] = pc]
      /\ dirs' = IF pc = "idle" THEN dirs \ {b} ELSE dirs \cup {b}
      /\ UNCHANGED <<stored, audit, env, autoGen, keyfile, server, keyMaker, reset, post,
                     keysMade, writes, accepted, skew, unswept>>
  BY DEF BuildTo
<1>2. CredTypeOK'
  BY <1>1 DEF CredInv, CredentialsSafe, CredTypeOK
<1>3. SecretsSwept'
  BY <1>1 DEF CredInv, CredentialsSafe, CredTypeOK, SecretsSwept
<1>4. AuditTellsRow' /\ JiraPairValidated' /\ RowsOpen'
  BY <1>1 DEF CredInv, CredentialsSafe, AuditTellsRow, JiraPairValidated, RowsOpen, Present, CurrentKey
<1>5. KeyFacts' /\ RowsSealed' /\ PostFacts'
  BY <1>1 DEF CredInv, KeyFacts, RowsSealed, PostFacts, Present, CurrentKey
<1> QED BY <1>2, <1>3, <1>4, <1>5 DEF CredInv, CredentialsSafe

(* The process comes up with the key it loaded: one made now, that of the  *)
(* environment or of the file, or none.                                    *)
LEMMA CredBoot ==
    ASSUME CredInv, NEW key \in 0 .. MaxKey, Boot(key), ~server.up,
           UNCHANGED <<stored, audit, env, autoGen, reset, post, build, writes, accepted>>,
           keyfile' \in {NoFile, Partial} \cup 1 .. MaxKey, keysMade' \in 1 .. MaxKey,
           keyMaker' \in {"nobody", "reset"}, keyMaker' = "reset" => UNCHANGED <<keyMaker, keyfile, keysMade>>,
           key \in {0, CurrentKey'}, env => key = 1,
           keyfile' = keyfile \/ (keyfile = Partial /\ ~env)
    PROVE  CredInv'
<1>1. /\ server' = [up |-> TRUE, key |-> key] /\ dirs' \subseteq dirs /\ unswept' = dirs'
      /\ server'.up /\ server'.key = key
  BY DEF Boot
<1>2. skew' = (skew \/ reset = "cleared")
  BY DEF Boot
<1>3. CredTypeOK'
  <2>1. skew' \in BOOLEAN
    BY <1>2
  <2> QED BY <1>1, <2>1 DEF CredInv, CredentialsSafe, CredTypeOK
<1>4. SecretsSwept'
  BY <1>1 DEF SecretsSwept
<1>5. AuditTellsRow' /\ JiraPairValidated' /\ RowsSealed' /\ PostFacts'
  BY DEF CredInv, CredentialsSafe, AuditTellsRow, JiraPairValidated, RowsSealed, PostFacts, Present
<1>6. RowsOpen'
  <2> SUFFICES ASSUME ~skew', NEW k \in AiKinds \cup {"github"}, Present(k)'
               PROVE  stored'[k].key = CurrentKey'
    BY DEF RowsOpen
  <2>1. stored[k].key = CurrentKey /\ k \in RowKinds /\ Present(k)
    BY <1>2 DEF CredInv, CredentialsSafe, RowsOpen, Present, RowKinds, Tokens
  <2>2. stored[k].key # 0 /\ stored[k].key \in Nat
    BY <2>1 DEF CredInv, CredentialsSafe, CredTypeOK, RowsSealed, Row
  <2>3. CurrentKey' = CurrentKey
    BY <2>1, <2>2 DEF CurrentKey, Partial
  <2> QED BY <2>1, <2>3
<1>7. KeyFacts'
  <2>1. reset = "cleared" => skew'
    BY <1>2
  <2> QED BY <1>1, <2>1 DEF CredInv, KeyFacts
<1> QED BY <1>3, <1>4, <1>5, <1>6, <1>7 DEF CredInv, CredentialsSafe

LEMMA CredProcessStep ==
    CredInv /\ (ServerStart \/ WriteKeyfile \/ Killed \/ Stopped) => CredInv'
<1> SUFFICES ASSUME CredInv, ServerStart \/ WriteKeyfile \/ Killed \/ Stopped PROVE CredInv'
  OBVIOUS
<1>0. /\ keyfile \in {NoFile, Partial} \cup 1 .. MaxKey /\ keysMade \in 1 .. MaxKey
      /\ env \in BOOLEAN /\ MaxKey \in Nat \ {0} /\ keyMaker \in {"nobody", "server", "reset"}
      /\ server \in [up : BOOLEAN, key : 0 .. MaxKey]
  BY CredentialsAssumption DEF CredInv, CredentialsSafe, CredTypeOK
<1>1. CASE ServerStart
  <2>0. /\ ~server.up /\ keyMaker # "server"
        /\ UNCHANGED <<stored, audit, env, autoGen, reset, post, build, keysMade, writes, accepted>>
    BY <1>1 DEF ServerStart
  <2>1. CASE env /\ Boot(1) /\ UNCHANGED <<keyfile, keyMaker>>
    <3>1. 1 \in 0 .. MaxKey /\ 1 \in {0, CurrentKey'} /\ keyMaker' \in {"nobody", "reset"}
      BY <1>0, <2>0, <2>1 DEF CurrentKey
    <3> QED BY <1>0, <2>0, <2>1, <3>1, CredBoot
  <2>2. CASE ~env /\ keyfile # NoFile /\ Boot(IF keyfile = Partial THEN 0 ELSE keyfile)
             /\ UNCHANGED <<keyfile, keyMaker>>
    <3> DEFINE key == IF keyfile = Partial THEN 0 ELSE keyfile
    <3>1. key \in 0 .. MaxKey /\ key \in {0, CurrentKey'} /\ keyMaker' \in {"nobody", "reset"}
      BY <1>0, <2>0, <2>2 DEF CurrentKey, NoFile, Partial
    <3>2. Boot(key)
      BY <2>2
    <3> HIDE DEF key
    <3> QED BY <1>0, <2>0, <2>2, <3>1, <3>2, CredBoot
  <2>3. CASE ~env /\ Boot(0) /\ UNCHANGED <<keyfile, keyMaker>>
    <3>1. 0 \in 0 .. MaxKey /\ 0 \in {0, CurrentKey'} /\ keyMaker' \in {"nobody", "reset"}
      BY <1>0, <2>0, <2>3
    <3> QED BY <1>0, <2>0, <2>3, <3>1, CredBoot
  <2>4. CASE /\ ~env /\ keyfile = NoFile /\ keysMade < MaxKey /\ keyfile' = Partial
             /\ keyMaker' = "server" /\ UNCHANGED <<server, dirs, unswept, skew>>
    <3>1. CredTypeOK'
      BY <2>0, <2>4 DEF CredInv, CredentialsSafe, CredTypeOK
    <3>2. ~skew => \A k \in AiKinds \cup {"github"} : ~Present(k)
      BY <2>4 DEF CredInv, CredentialsSafe, RowsOpen, RowsSealed, CurrentKey, NoFile, RowKinds, Tokens
    <3>3. RowsOpen'
      BY <2>0, <2>4, <3>2 DEF RowsOpen, Present
    <3>4. AuditTellsRow' /\ JiraPairValidated' /\ SecretsSwept' /\ RowsSealed' /\ PostFacts'
      BY <2>0, <2>4 DEF CredInv, CredentialsSafe, AuditTellsRow, JiraPairValidated, SecretsSwept,
         RowsSealed, PostFacts, Present
    <3>5. KeyFacts'
      BY <2>0, <2>4 DEF CredInv, KeyFacts, Present
    <3> QED BY <3>1, <3>3, <3>4, <3>5 DEF CredInv, CredentialsSafe
  <2> QED BY <1>1, <2>1, <2>2, <2>3, <2>4 DEF ServerStart
<1>2. CASE WriteKeyfile
  <2>0. /\ keyMaker # "nobody" /\ keyMaker' = "nobody" /\ keyfile = Partial /\ ~env
        /\ keysMade + 1 \in 1 .. MaxKey /\ keysMade' = keysMade + 1 /\ keyfile' = keysMade + 1
        /\ UNCHANGED <<stored, audit, env, autoGen, post, build, writes, accepted>>
    BY <1>0, <1>2 DEF WriteKeyfile, CredInv, KeyFacts
  <2>1. CASE keyMaker = "server"
    <3>1. Boot(keysMade + 1) /\ UNCHANGED reset /\ ~server.up
      BY <1>2, <2>1 DEF WriteKeyfile, CredInv, KeyFacts
    <3>2. keysMade + 1 \in 0 .. MaxKey /\ keysMade + 1 \in {0, CurrentKey'}
      BY <1>0, <2>0 DEF CurrentKey
    <3>3. keyfile' \in {NoFile, Partial} \cup 1 .. MaxKey /\ keysMade' \in 1 .. MaxKey
      BY <2>0
    <3>4. keyMaker' \in {"nobody", "reset"} /\ keyMaker' # "reset"
      BY <2>0
    <3> HIDE DEF CredInv
    <3> QED BY <2>0, <3>1, <3>2, <3>3, <3>4, CredBoot
  <2>2. CASE keyMaker # "server"
    <3>1. reset' = "idle" /\ UNCHANGED <<server, dirs, unswept, skew>>
      BY <1>2, <2>2 DEF WriteKeyfile
    <3>2. CredTypeOK'
      BY <2>0, <3>1 DEF CredInv, CredentialsSafe, CredTypeOK
    <3>3. ~skew => \A k \in AiKinds \cup {"github"} : ~Present(k)
      BY <2>0 DEF CredInv, CredentialsSafe, CredTypeOK, RowsOpen, Row, CurrentKey, Partial, RowKinds, Tokens
    <3>4. RowsOpen'
      BY <2>0, <3>1, <3>3 DEF RowsOpen, Present
    <3>5. AuditTellsRow' /\ JiraPairValidated' /\ SecretsSwept' /\ RowsSealed' /\ PostFacts'
      BY <2>0, <3>1 DEF CredInv, CredentialsSafe, AuditTellsRow, JiraPairValidated, SecretsSwept,
         RowsSealed, PostFacts, Present
    <3>6. server.up /\ ~skew => server.key = 0
      BY <1>0, <2>0 DEF CredInv, KeyFacts, CurrentKey, Partial
    <3>7. KeyFacts'
      BY <2>0, <3>1, <3>6 DEF CredInv, KeyFacts
    <3> QED BY <3>2, <3>4, <3>5, <3>7 DEF CredInv, CredentialsSafe
  <2> QED BY <2>1, <2>2
<1>3. CASE Killed \/ Stopped
  <2>1. /\ Ended /\ dirs' \subseteq dirs
    BY <1>3 DEF Killed, Stopped
  <2>2. /\ server' = [up |-> FALSE, key |-> 0] /\ post' = [r \in Posts |-> NoPost]
        /\ build' = [b \in Builds |-> "idle"]
        /\ keyMaker' = IF keyMaker = "server" THEN "nobody" ELSE keyMaker
        /\ UNCHANGED <<stored, audit, env, autoGen, keyfile, reset, keysMade, writes, accepted, skew,
                       unswept>>
    BY <2>1 DEF Ended
  <2>3. ~server'.up
    BY <2>2
  <2>4. CredTypeOK'
    BY <1>0, <2>1, <2>2 DEF CredInv, CredentialsSafe, CredTypeOK, NoPost, Post, Tokens, BuildPc
  <2>5. AuditTellsRow' /\ JiraPairValidated' /\ RowsSealed' /\ RowsOpen' /\ SecretsSwept'
    BY <2>2, <2>3 DEF CredInv, CredentialsSafe, AuditTellsRow, JiraPairValidated, RowsSealed, RowsOpen,
       SecretsSwept, Present, CurrentKey
  <2>6. PostFacts'
    BY <2>2 DEF PostFacts, NoPost
  <2>7. KeyFacts'
    BY <2>2, <2>3 DEF CredInv, KeyFacts, Present
  <2> QED BY <2>4, <2>5, <2>6, <2>7 DEF CredInv, CredentialsSafe
<1> QED BY <1>1, <1>2, <1>3

LEMMA CredResetStep ==
    CredInv /\ (ResetClear \/ ResetRemove \/ ResetGenerate \/ ResetKilled) => CredInv'
<1> SUFFICES ASSUME CredInv, ResetClear \/ ResetRemove \/ ResetGenerate \/ ResetKilled PROVE CredInv'
  OBVIOUS
<1>1. CASE ResetClear
  <2>1. /\ reset = "idle" /\ keyMaker # "reset" /\ skew' = server.up
        /\ stored' = [k \in RowKinds |-> IF k \in Cleared THEN Absent ELSE stored[k]]
        /\ audit' = [k \in Tokens |-> "none"]
        /\ UNCHANGED <<env, autoGen, keyfile, server, keyMaker, post, build, dirs, keysMade, writes,
                       accepted, unswept>>
    BY <1>1 DEF ResetClear
  <2>2. reset' = IF env THEN "idle" ELSE "cleared"
    BY <1>1 DEF ResetClear
  <2>3. \A k \in Cleared : ~Present(k)'
    BY <2>1 DEF Present, Cleared, RowKinds, Tokens
  <2>4. CredTypeOK'
    <3>1. skew' \in BOOLEAN /\ reset' \in {"idle", "cleared", "removed"}
      BY <2>1, <2>2 DEF CredInv, CredentialsSafe, CredTypeOK
    <3> QED BY <2>1, <3>1 DEF CredInv, CredentialsSafe, CredTypeOK, Row, Absent, Event
  <2>5. AuditTellsRow'
    BY <2>1 DEF AuditTellsRow
  <2>6. JiraPairValidated'
    BY <2>1 DEF CredInv, CredentialsSafe, JiraPairValidated, Present, Cleared, AiKinds, RowKinds, Tokens
  <2>7. RowsOpen' /\ SecretsSwept' /\ PostFacts'
    BY <2>1, <2>3 DEF CredInv, CredentialsSafe, RowsOpen, SecretsSwept, PostFacts, Cleared
  <2>8. RowsSealed'
    BY <2>1 DEF CredInv, RowsSealed, Present
  <2>9. KeyFacts'
    BY <2>1, <2>2, <2>3 DEF CredInv, KeyFacts
  <2> QED BY <2>4, <2>5, <2>6, <2>7, <2>8, <2>9 DEF CredInv, CredentialsSafe
<1>2. CASE ResetRemove \/ ResetGenerate \/ ResetKilled
  <2>0. UNCHANGED <<stored, audit, env, autoGen, server, post, build, dirs, keysMade, writes,
                    accepted, unswept, skew>>
    BY <1>2 DEF ResetRemove, ResetGenerate, ResetKilled, ResetRest
  <2>1. CredTypeOK' /\ KeyFacts' /\ RowsOpen'
    <3>1. CASE ResetRemove
      <4>1. /\ reset = "cleared" /\ keyMaker # "server" /\ keyfile' = NoFile /\ reset' = "removed"
            /\ UNCHANGED keyMaker
        BY <3>1 DEF ResetRemove
      <4>2. keyMaker = "nobody"
        BY <4>1 DEF CredInv, CredentialsSafe, CredTypeOK, KeyFacts
      <4>3. RowsOpen'
        BY <2>0, <4>1 DEF CredInv, KeyFacts, RowsOpen, Present, Cleared
      <4> QED BY <2>0, <4>1, <4>2, <4>3 DEF CredInv, CredentialsSafe, CredTypeOK, KeyFacts
    <3>2. CASE ResetGenerate /\ keyfile = NoFile /\ autoGen
      <4>1. /\ reset = "removed" /\ keysMade < MaxKey /\ keyfile' = Partial /\ keyMaker' = "reset"
            /\ UNCHANGED reset
        BY <3>2 DEF ResetGenerate
      <4>2. ~env /\ keyMaker # "server"
        BY <3>2, <4>1 DEF CredInv, KeyFacts, NoFile, Partial
      <4>3. ~skew => \A k \in AiKinds \cup {"github"} : ~Present(k)
        BY <3>2, <4>2 DEF CredInv, CredentialsSafe, RowsOpen, RowsSealed, CurrentKey, NoFile, RowKinds, Tokens
      <4>4. RowsOpen'
        BY <2>0, <4>3 DEF RowsOpen, Present
      <4>5. server.up /\ ~skew => server.key = 0
        BY <3>2, <4>2 DEF CredInv, KeyFacts, CurrentKey, NoFile
      <4> QED BY <2>0, <4>1, <4>2, <4>4, <4>5 DEF CredInv, CredentialsSafe, CredTypeOK, KeyFacts
    <3>3. CASE ResetGenerate /\ ~(keyfile = NoFile /\ autoGen)
      <4>1. /\ reset = "removed" /\ reset' = "idle" /\ keyMaker # "reset"
            /\ UNCHANGED <<keyfile, keyMaker>>
        BY <3>3 DEF ResetGenerate
      <4> QED
        BY <2>0, <4>1 DEF CredInv, CredentialsSafe, CredTypeOK, KeyFacts, RowsOpen, Present, CurrentKey
    <3>4. CASE ResetKilled
      <4>1. /\ reset # "idle" /\ reset' = "idle" /\ UNCHANGED keyfile
            /\ keyMaker' = IF keyMaker = "reset" THEN "nobody" ELSE keyMaker
        BY <3>4 DEF ResetKilled
      <4> QED
        BY <2>0, <4>1 DEF CredInv, CredentialsSafe, CredTypeOK, KeyFacts, RowsOpen, Present, CurrentKey
    <3> QED BY <1>2, <3>1, <3>2, <3>3, <3>4
  <2>2. AuditTellsRow' /\ JiraPairValidated' /\ SecretsSwept' /\ RowsSealed' /\ PostFacts'
    BY <2>0 DEF CredInv, CredentialsSafe, AuditTellsRow, JiraPairValidated, SecretsSwept, RowsSealed,
       PostFacts, Present
  <2> QED BY <2>1, <2>2 DEF CredInv, CredentialsSafe
<1> QED BY <1>1, <1>2

(* For any number of requests, bundles, keys and writes, with the server   *)
(* and `takuto keys reset` killed at any step: the audit log tells which   *)
(* rows there are, a Jira row holds a pair Jira accepted, the AI and       *)
(* GitHub rows open with the key the next start loads unless a server ran  *)
(* between the halves of a reset, and no directory of secrets outlives its *)
(* bundle (credentials.rs, secrets_bundle.rs, master_key.rs, keys.rs).     *)
THEOREM CredentialsAreSafe == CredSpec => []CredentialsSafe
<1>1. CredInit => CredInv
  <2> SUFFICES ASSUME CredInit PROVE CredInv
    OBVIOUS
  <2>1. /\ ~server.up /\ server.key = 0 /\ \A k \in RowKinds : ~Present(k)
        /\ keyMaker = "nobody" /\ reset = "idle"
    BY DEF CredInit, Present
  <2>2. CredTypeOK
    <3>1. post \in [Posts -> Post] /\ build \in [Builds -> BuildPc] /\ audit \in [Tokens -> Event]
      BY DEF CredInit, Post, NoPost, BuildPc, Tokens, Event
    <3>2. stored \in [RowKinds -> Row]
      BY DEF CredInit, Row, Absent
    <3>3. env \in BOOLEAN /\ autoGen \in BOOLEAN /\ skew \in BOOLEAN
      BY Zenon DEF CredInit
    <3>4. server \in [up : BOOLEAN, key : 0 .. MaxKey]
      BY CredentialsAssumption DEF CredInit
    <3> QED
      BY <3>1, <3>2, <3>3, <3>4, CredentialsAssumption DEF CredInit, CredTypeOK, NoFile
  <2>3. AuditTellsRow /\ JiraPairValidated /\ RowsOpen /\ SecretsSwept
    BY <2>1 DEF CredInit, AuditTellsRow, JiraPairValidated, RowsOpen, SecretsSwept, RowKinds, Tokens
  <2>4. KeyFacts /\ RowsSealed /\ PostFacts
    BY <2>1 DEF CredInit, KeyFacts, RowsSealed, PostFacts, NoPost
  <2> QED BY <2>2, <2>3, <2>4 DEF CredInv, CredentialsSafe
<1>2. CredInv /\ [CredNext]_credVars => CredInv'
  <2> SUFFICES ASSUME CredInv, [CredNext]_credVars PROVE CredInv'
    OBVIOUS
  <2>1. CASE CredRequest
    BY <2>1, CredRequestStep
  <2>2. CASE ServerStart \/ WriteKeyfile \/ Killed \/ Stopped
    BY <2>2, CredProcessStep
  <2>3. CASE ResetClear \/ ResetRemove \/ ResetGenerate \/ ResetKilled
    BY <2>3, CredResetStep
  <2>4. ASSUME NEW b \in Builds,
               \/ BuildBegin(b) \/ ReadProvider(b) \/ ReadSession(b) \/ ReadMode(b)
               \/ Unseal(b) \/ ReadAuthor(b) \/ Release(b)
        PROVE CredInv'
    <3>1. \E pc \in BuildPc : BuildTo(b, pc)
      BY <2>4, Zenon
      DEF BuildBegin, ReadProvider, ReadSession, ReadMode, Unseal, ReadAuthor, Release, BuildPc
    <3> QED BY <3>1, CredBuildStep
  <2>5. CASE UNCHANGED credVars
    <3>1. CredTypeOK' /\ AuditTellsRow' /\ JiraPairValidated'
      BY <2>5 DEF credVars, CredInv, CredentialsSafe, CredTypeOK, AuditTellsRow, JiraPairValidated, Present
    <3>2. RowsOpen' /\ SecretsSwept'
      BY <2>5 DEF credVars, CredInv, CredentialsSafe, RowsOpen, SecretsSwept, Present, CurrentKey
    <3>3. KeyFacts' /\ RowsSealed' /\ PostFacts'
      BY <2>5 DEF credVars, CredInv, KeyFacts, RowsSealed, PostFacts, Present, CurrentKey
    <3> QED BY <3>1, <3>2, <3>3 DEF CredInv, CredentialsSafe
  <2> QED BY <2>1, <2>2, <2>3, <2>4, <2>5 DEF CredNext, CredRequest
<1>3. CredInv => CredentialsSafe
  BY DEF CredInv
<1> QED BY <1>1, <1>2, <1>3, PTL DEF CredSpec

----------------------------------------------------------------------------
(* The clients of the agents.                                              *)

InstallRecord ==
    [pc : {"idle", "spawned", "detect", "install"}, specs : Seq(Clients), pins : [Clients -> Nat],
     i : Nat, want : Nat]

PhaseRecord == [phase : {"idle", "installing", "ready", "error"}, done : Nat, total : Nat]
GhStates == {"none", "expired", "expired, a personal token too", "valid"}
HostRecord ==
    [login : SUBSET {"claude", "acli"}, env : SUBSET {"claude"}, files : SUBSET CursorFiles, gh : GhStates]

ClType ==
    /\ clConf \in [prov : ClProviders, avail : SUBSET ClProviders, pins : [Clients -> Nat]]
    /\ clBin \in [Clients -> Int] /\ clLatest \in Nat \ {0}
    /\ clInst \in InstallRecord
    /\ clPhase \in PhaseRecord /\ clHost \in HostRecord
    /\ clPlat \in {{}, PlatformWarnings}
    /\ clReq \in [ClReqs -> [pc : {"idle", "probe"}, snap : ClProviders \cup {""}]]
    /\ \A r \in ClReqs : clReq[r].pc = "probe" => clReq[r].snap \in ClProviders

(* A client the task has passed is there whole, in the pinned version.     *)
InPlace(bin, pins, c) == bin[c] > 0 /\ (pins[c] > 0 /\ c # "acli" => bin[c] = pins[c])
Distinct(s) == \A i, j \in 1 .. Len(s) : s[i] = s[j] => i = j

InstallGoesOn ==
    /\ Distinct(clInst.specs)
    /\ clInst.pc \in {"spawned", "detect", "install"} => clPhase.phase = "installing"
    /\ clInst.pc \in {"detect", "install"} =>
         /\ clInst.i >= 1
         /\ \A j \in 1 .. Len(clInst.specs) : j < clInst.i => InPlace(clBin, clInst.pins, clInst.specs[j])
    /\ clInst.pc = "install" =>
         LET c == clInst.specs[clInst.i]
         IN  /\ clInst.i <= Len(clInst.specs) /\ clInst.want > 0
             /\ clInst.pins[c] > 0 /\ c # "acli" => clInst.want = clInst.pins[c]
    /\ clPhase.phase = "ready" =>
         clInst.pc = "idle" /\ \A j \in 1 .. Len(clInst.specs) : InPlace(clBin, clInst.pins, clInst.specs[j])

(* What lets the provider work once its client is installed.               *)
Loggable(p) ==
    \/ p \in clHost.env \/ p \in {"codex", "opencode"}
    \/ p = "cursor" /\ CursorOnDisk(clHost.files)
    \/ p = "claude" /\ p \in clHost.login

(* The status tells of the configuration, or one request is to refresh it. *)
StatusFollows ==
    /\ clUp # "up" => PutIdle
    /\ clUp = "up" => clPlat \subseteq clStatus.warnings
    /\ clUp = "up" /\ ~clStale =>
         /\ \A r, q \in ClReqs : clReq[r].pc = "probe" /\ clReq[q].pc = "probe" => r = q
         /\ \A r \in ClReqs : clReq[r].pc = "probe" => clReq[r].snap = clConf.prov
         /\ PutIdle => clStatus.prov = clConf.prov
         /\ AuthWarning(clStatus.prov) \in clStatus.warnings \/ Loggable(clStatus.prov)
         /\ "gh_auth_missing" \in clStatus.warnings \/ clHost.gh = "valid"
         /\ clStatus.prov \in ClProviders

ClInv == ClType /\ InstallGoesOn /\ StatusFollows

(* The list of clients to install names each once.                         *)
Pushed(s, names) == s \in Seq(Clients) /\ Distinct(s) /\ \A i \in 1 .. Len(s) : s[i] \in names

LEMMA PushKeeps ==
    ASSUME NEW names, NEW s, Pushed(s, names), NEW c, c \notin names, NEW wanted,
           wanted => c \in Clients
    PROVE  Pushed(PushIf(wanted, s, c), names \cup {c})
<1>1. CASE ~wanted
  BY <1>1 DEF Pushed, PushIf
<1>2. CASE wanted
  <2>1. s \in Seq(Clients) /\ c \in Clients /\ Len(s) \in Nat
    BY <1>2 DEF Pushed
  <2>2. /\ Append(s, c) \in Seq(Clients) /\ Len(Append(s, c)) = Len(s) + 1
        /\ \A i \in 1 .. Len(s) : Append(s, c)[i] = s[i]
        /\ Append(s, c)[Len(s) + 1] = c
    BY <2>1
  <2>3. \A i \in 1 .. Len(s) + 1 : i \in 1 .. Len(s) \/ i = Len(s) + 1
    BY <2>1
  <2>4. \A i \in 1 .. Len(s) : s[i] \in names /\ s[i] # c
    BY DEF Pushed
  <2>5. \A i, j \in 1 .. Len(s) : s[i] = s[j] => i = j
    BY DEF Pushed, Distinct
  <2>6. \A i, j \in 1 .. Len(s) + 1 : Append(s, c)[i] = Append(s, c)[j] => i = j
    BY <2>2, <2>3, <2>4, <2>5
  <2>7. \A i \in 1 .. Len(s) + 1 : Append(s, c)[i] \in names \cup {c}
    BY <2>2, <2>3, <2>4
  <2> QED BY <1>2, <2>2, <2>6, <2>7 DEF Pushed, PushIf, Distinct
<1> QED BY <1>1, <1>2

LEMMA SpecsAreDistinct ==
    ASSUME NEW conf, conf.avail \subseteq ClProviders
    PROVE  SpecsFromConfig(conf) \in Seq(Clients) /\ Distinct(SpecsFromConfig(conf))
<1> DEFINE a == PushIf("claude" \in conf.avail, <<>>, "claude")
           b == PushIf("codex" \in conf.avail, a, "codex")
           c == PushIf("opencode" \in conf.avail, b, "opencode")
           d == PushIf("cursor" \in conf.avail, c, "cursor")
<1>0. Pushed(<<>>, {})
  BY DEF Pushed, Distinct
<1>1. Pushed(a, {"claude"})
  <2>1. Pushed(a, {} \cup {"claude"})
    <3>1. "claude" \in conf.avail => "claude" \in Clients
      BY DEF Clients
    <3>2. "claude" \notin {}
      OBVIOUS
    <3> QED BY <3>1, <3>2, <1>0, PushKeeps
  <2> QED BY <2>1
<1> HIDE DEF a
<1>2. Pushed(b, {"claude", "codex"})
  <2>1. Pushed(b, {"claude"} \cup {"codex"})
    <3>1. "codex" \in conf.avail => "codex" \in Clients
      BY DEF Clients
    <3>2. "codex" \notin {"claude"}
      OBVIOUS
    <3> QED BY <3>1, <3>2, <1>1, PushKeeps
  <2>2. {"claude"} \cup {"codex"} = {"claude", "codex"}
    OBVIOUS
  <2> QED BY <2>1, <2>2
<1> HIDE DEF b
<1>3. Pushed(c, {"claude", "codex", "opencode"})
  <2>1. Pushed(c, {"claude", "codex"} \cup {"opencode"})
    <3>1. "opencode" \in conf.avail => "opencode" \in Clients
      BY DEF Clients
    <3>2. "opencode" \notin {"claude", "codex"}
      OBVIOUS
    <3> QED BY <3>1, <3>2, <1>2, PushKeeps
  <2>2. {"claude", "codex"} \cup {"opencode"} = {"claude", "codex", "opencode"}
    OBVIOUS
  <2> QED BY <2>1, <2>2
<1> HIDE DEF c
<1>4. Pushed(d, {"claude", "codex", "opencode", "cursor"})
  <2>1. Pushed(d, {"claude", "codex", "opencode"} \cup {"cursor"})
    <3>1. "cursor" \in conf.avail => "cursor" \in Clients
      BY DEF Clients
    <3>2. "cursor" \notin {"claude", "codex", "opencode"}
      OBVIOUS
    <3> QED BY <3>1, <3>2, <1>3, PushKeeps
  <2>2. {"claude", "codex", "opencode"} \cup {"cursor"} = {"claude", "codex", "opencode", "cursor"}
    OBVIOUS
  <2> QED BY <2>1, <2>2
<1> HIDE DEF d
<1>5. Pushed(PushIf(TRUE, d, "acli"), {"claude", "codex", "opencode", "cursor"} \cup {"acli"})
  BY <1>4, PushKeeps DEF Clients
<1>6. PushIf(TRUE, d, "acli") = SpecsFromConfig(conf)
  BY DEF PushIf, SpecsFromConfig, a, b, c, d
<1> QED BY <1>5, <1>6 DEF Pushed

----------------------------------------------------------------------------
LEMMA InstallStays == ASSUME ClInv, UNCHANGED <<clBin, clInst, clPhase>> PROVE InstallGoesOn'
BY DEF ClInv, InstallGoesOn, InPlace, Distinct

LEMMA StatusStays ==
    ASSUME ClInv, UNCHANGED <<clUp, clReq, clStatus, clStale, clConf, clPlat, clHost>>
    PROVE  StatusFollows'
BY DEF ClInv, StatusFollows, PutIdle, Loggable

(* The fields of the installation task.                                    *)
LEMMA InstallFields ==
    ASSUME ClInv
    PROVE  /\ clInst.specs \in Seq(Clients) /\ Len(clInst.specs) \in Nat
           /\ clInst.pins \in [Clients -> Nat] /\ clInst.i \in Nat /\ clInst.want \in Nat
           /\ clInst.pc \in {"idle", "spawned", "detect", "install"}
           /\ \A j \in 1 .. Len(clInst.specs) : /\ clInst.specs[j] \in Clients
                                                /\ clInst.pins[clInst.specs[j]] \in Nat
                                                /\ clBin[clInst.specs[j]] \in Int
           /\ clBin \in [Clients -> Int] /\ clLatest \in Nat /\ clLatest > 0
<1>1. /\ clInst.specs \in Seq(Clients) /\ clInst.pins \in [Clients -> Nat]
      /\ clInst.i \in Nat /\ clInst.want \in Nat
      /\ clInst.pc \in {"idle", "spawned", "detect", "install"}
      /\ clBin \in [Clients -> Int] /\ clLatest \in Nat /\ clLatest > 0
  <2>1. clInst \in InstallRecord /\ clBin \in [Clients -> Int] /\ clLatest \in Nat \ {0}
    BY DEF ClInv, ClType
  <2>2. /\ clInst.specs \in Seq(Clients) /\ clInst.pins \in [Clients -> Nat]
        /\ clInst.i \in Nat /\ clInst.want \in Nat
        /\ clInst.pc \in {"idle", "spawned", "detect", "install"}
    BY <2>1 DEF InstallRecord
  <2> QED BY <2>1, <2>2
<1>2. \A j \in 1 .. Len(clInst.specs) : clInst.specs[j] \in Clients
  BY <1>1
<1> QED BY <1>1, <1>2

LEMMA IdleRecord ==
    /\ IdleInst \in InstallRecord /\ IdleInst.pc = "idle" /\ IdleInst.specs = <<>>
    /\ Distinct(<<>>)
<1>1. [c \in Clients |-> 0] \in [Clients -> Nat]
  OBVIOUS
<1>2. <<>> \in Seq(Clients)
  OBVIOUS
<1> HIDE DEF Clients
<1> QED BY <1>1, <1>2 DEF IdleInst, InstallRecord, Distinct

LEMMA ClInitOK == ClInit => ClInv
<1> SUFFICES ASSUME ClInit PROVE ClInv
  OBVIOUS
<1>0. [c \in Clients |-> 0] \in [Clients -> Nat] /\ [c \in Clients |-> 0] \in [Clients -> Int]
  OBVIOUS
<1>1. IdleInst \in InstallRecord
  BY IdleRecord
<1>2. ClType
  <2>1. clConf \in [prov : ClProviders, avail : SUBSET ClProviders, pins : [Clients -> Nat]]
    <3>1. PICK p \in ClProviders :
            clConf = [prov |-> p, avail |-> ClProviders, pins |-> [c \in Clients |-> 0]]
      BY DEF ClInit
    <3> QED BY <3>1, <1>0
  <2>2. clBin \in [Clients -> Int]
    BY <1>0 DEF ClInit
  <2>3. clLatest \in Nat \ {0}
    <3>1. clLatest = 1
      BY DEF ClInit
    <3> QED BY <3>1
  <2>4. clPlat \in {{}, PlatformWarnings}
    BY DEF ClInit
  <2>5. /\ clReq \in [ClReqs -> [pc : {"idle", "probe"}, snap : ClProviders \cup {""}]]
        /\ \A r \in ClReqs : clReq[r].pc = "probe" => clReq[r].snap \in ClProviders
    BY DEF ClInit, IdlePut
  <2>6. clInst \in InstallRecord
    BY <1>1 DEF ClInit
  <2>7. clPhase \in PhaseRecord
    BY DEF ClInit, IdlePhase, PhaseRecord
  <2>8. clHost \in HostRecord
    <3>1. CASE \E g \in {"none", "expired, a personal token too"} :
                 clHost = [login |-> {"claude"}, env |-> {}, files |-> {"small file"}, gh |-> g]
      <4>1. PICK g \in GhStates :
              clHost = [login |-> {"claude"}, env |-> {}, files |-> {"small file"}, gh |-> g]
        BY <3>1 DEF GhStates
      <4>2. {"claude"} \in SUBSET {"claude", "acli"} /\ {} \in SUBSET {"claude"} /\ {"small file"} \in SUBSET CursorFiles
        BY DEF CursorFiles
      <4> QED BY <4>1, <4>2 DEF HostRecord
    <3>2. CASE clHost = [login |-> {}, env |-> {"claude"}, files |-> {"auth json"}, gh |-> "valid"]
      BY <3>2 DEF HostRecord, GhStates, CursorFiles
    <3> QED BY <3>1, <3>2 DEF ClInit
  <2> QED BY <2>1, <2>2, <2>3, <2>4, <2>5, <2>6, <2>7, <2>8 DEF ClType
<1>3. InstallGoesOn
  <2>1. clInst.pc = "idle" /\ clInst.specs = <<>> /\ clPhase.phase = "idle"
    BY DEF ClInit, IdleInst, IdlePhase
  <2> QED BY <2>1 DEF InstallGoesOn, Distinct
<1>4. StatusFollows
  BY DEF StatusFollows, PutIdle, IdlePut, ClInit
<1> QED BY <1>2, <1>3, <1>4 DEF ClInv

----------------------------------------------------------------------------
(* The installation.                                                       *)
LEMMA ReadsSpecs == ASSUME ClInv, ReadSpecs PROVE ClInv'
<1>1. /\ clInst' = [pc |-> "detect", specs |-> SpecsFromConfig(clConf), pins |-> clConf.pins,
                    i |-> 1, want |-> 0]
      /\ clInst.pc = "spawned"
      /\ UNCHANGED <<clBin, clPhase, InstOthers>>
  BY DEF ReadSpecs
<1>2. SpecsFromConfig(clConf) \in Seq(Clients) /\ Distinct(SpecsFromConfig(clConf))
  <2>1. clConf.avail \subseteq ClProviders
    BY DEF ClInv, ClType
  <2> QED BY <2>1, SpecsAreDistinct
<1>3. clInst' \in InstallRecord
  BY <1>1, <1>2 DEF ClInv, ClType, InstallRecord
<1>4. ClType'
  BY <1>1, <1>3 DEF ClInv, ClType, InstOthers
<1>5. InstallGoesOn'
  <2>1. clInst'.pc = "detect" /\ clInst'.i = 1 /\ Distinct(clInst'.specs)
    BY <1>1, <1>2
  <2>2. clPhase' = clPhase /\ clPhase.phase = "installing"
    BY <1>1 DEF ClInv, InstallGoesOn
  <2>3. \A j \in 1 .. Len(clInst'.specs) : ~(j < 1)
    OBVIOUS
  <2> QED BY <2>1, <2>2, <2>3 DEF InstallGoesOn
<1>6. StatusFollows'
  BY <1>1, StatusStays DEF InstOthers
<1> QED BY <1>4, <1>5, <1>6 DEF ClInv

LEMMA Detects == ASSUME ClInv, DetectClient PROVE ClInv'
<1> DEFINE c == clInst.specs[clInst.i]
           pin == clInst.pins[c]
<1>1. /\ clInst.pc = "detect" /\ clInst.i <= Len(clInst.specs)
      /\ clPhase' = [phase |-> "installing", done |-> clInst.i - 1, total |-> Len(clInst.specs)]
      /\ UNCHANGED <<clBin, InstOthers>>
      /\ clInst' = IF PlanOne(c, pin, Detected(c))
                   THEN [clInst EXCEPT !.pc = "install", !.want = TargetVersion(c, pin)]
                   ELSE [clInst EXCEPT !.i = @ + 1]
  BY DEF DetectClient
<1>2. clInst.i \in 1 .. Len(clInst.specs) /\ clInst.i \in Nat /\ clInst.i >= 1 /\ Len(clInst.specs) \in Nat
  BY <1>1, InstallFields DEF ClInv, InstallGoesOn
<1>3. c \in Clients /\ pin \in Nat /\ clBin[c] \in Int
  BY <1>2, InstallFields
<1>4. clPhase' \in PhaseRecord
  <2>1. clInst.i - 1 \in Nat
    BY <1>2
  <2> QED BY <2>1, <1>1, <1>2 DEF PhaseRecord
<1>5. clInst \in InstallRecord
  BY DEF ClInv, ClType
<1>6. StatusFollows'
  BY <1>1, StatusStays DEF InstOthers
<1>7. \A j \in 1 .. Len(clInst.specs) : j < clInst.i => InPlace(clBin, clInst.pins, clInst.specs[j])
  BY <1>1 DEF ClInv, InstallGoesOn
<1>8. Distinct(clInst.specs)
  BY DEF ClInv, InstallGoesOn
<1>9. CASE PlanOne(c, pin, Detected(c))
  <2>1. /\ clInst'.pc = "install" /\ clInst'.want = TargetVersion(c, pin) /\ clInst'.i = clInst.i
        /\ clInst'.specs = clInst.specs /\ clInst'.pins = clInst.pins
    BY <1>1, <1>5, <1>9 DEF InstallRecord
  <2>2. TargetVersion(c, pin) \in Nat /\ TargetVersion(c, pin) > 0 /\ (pin > 0 /\ c # "acli" => TargetVersion(c, pin) = pin)
    BY <1>3, InstallFields DEF TargetVersion
  <2>3. clInst' \in InstallRecord
    BY <1>1, <1>5, <1>9, <2>2 DEF InstallRecord
  <2>4. ClType'
    BY <2>3, <1>1, <1>4 DEF ClInv, ClType, InstOthers
  <2>5. InstallGoesOn'
    BY <1>1, <1>2, <1>7, <1>8, <2>1, <2>2 DEF InstallGoesOn
  <2> QED BY <2>4, <2>5, <1>6 DEF ClInv
<1>10. CASE ~PlanOne(c, pin, Detected(c))
  <2>1. /\ clInst'.pc = "detect" /\ clInst'.i = clInst.i + 1 /\ clInst'.want = clInst.want
        /\ clInst'.specs = clInst.specs /\ clInst'.pins = clInst.pins
    BY <1>1, <1>5, <1>10 DEF InstallRecord
  <2>2. InPlace(clBin, clInst.pins, c)
    BY <1>3, <1>10 DEF InPlace, PlanOne, Detected
  <2>3. clInst' \in InstallRecord
    <3>1. clInst.i + 1 \in Nat /\ clInst' = [clInst EXCEPT !.i = clInst.i + 1]
      BY <1>1, <1>2, <1>10
    <3> QED BY <3>1, <1>5 DEF InstallRecord
  <2>4. ClType'
    BY <2>3, <1>1, <1>4 DEF ClInv, ClType, InstOthers
  <2>5. ASSUME NEW j \in 1 .. Len(clInst.specs), j < clInst.i + 1 PROVE InPlace(clBin, clInst.pins, clInst.specs[j])
    <3>1. j < clInst.i \/ j = clInst.i
      BY <2>5, <1>2
    <3> QED BY <3>1, <2>2, <1>7
  <2>6. clPhase'.phase = "installing" /\ clInst'.i >= 1
    BY <1>1, <1>2, <2>1
  <2>7. InstallGoesOn'
    BY <1>1, <1>8, <2>1, <2>5, <2>6 DEF InstallGoesOn
  <2> QED BY <2>4, <2>7, <1>6 DEF ClInv
<1> QED BY <1>9, <1>10

LEMMA Installs == ASSUME ClInv, InstallOne PROVE ClInv'
<1> DEFINE c == clInst.specs[clInst.i]
<1>1. /\ clInst.pc = "install" /\ clBin' = [clBin EXCEPT ![c] = clInst.want]
      /\ clInst' = [clInst EXCEPT !.pc = "detect", !.i = @ + 1]
      /\ UNCHANGED <<clPhase, InstOthers>>
  BY DEF InstallOne
<1>2. /\ clInst.i \in 1 .. Len(clInst.specs) /\ clInst.i \in Nat /\ clInst.i >= 1 /\ Len(clInst.specs) \in Nat
      /\ clInst.want > 0 /\ (clInst.pins[c] > 0 /\ c # "acli" => clInst.want = clInst.pins[c])
      /\ clPhase.phase = "installing" /\ Distinct(clInst.specs)
      /\ \A j \in 1 .. Len(clInst.specs) : j < clInst.i => InPlace(clBin, clInst.pins, clInst.specs[j])
  BY <1>1, InstallFields DEF ClInv, InstallGoesOn
<1>3. c \in Clients /\ clInst.want \in Int /\ clBin \in [Clients -> Int]
  BY <1>2, InstallFields
<1>4. clInst \in InstallRecord
  BY DEF ClInv, ClType
<1>5. /\ clInst'.pc = "detect" /\ clInst'.i = clInst.i + 1
      /\ clInst'.specs = clInst.specs /\ clInst'.pins = clInst.pins
  BY <1>1, <1>4 DEF InstallRecord
<1>6. clBin' \in [Clients -> Int] /\ clBin'[c] = clInst.want /\ \A d \in Clients : d # c => clBin'[d] = clBin[d]
  BY <1>1, <1>3
<1>7. ASSUME NEW j \in 1 .. Len(clInst.specs), j < clInst.i + 1
      PROVE  InPlace(clBin', clInst.pins, clInst.specs[j])
  <2>1. CASE j = clInst.i
    BY <2>1, <1>2, <1>6 DEF InPlace
  <2>2. CASE j # clInst.i
    <3>1. j < clInst.i
      BY <1>2, <1>7, <2>2
    <3>2. clInst.specs[j] # c
      BY <1>2, <2>2 DEF Distinct
    <3>3. clInst.specs[j] \in Clients
      BY InstallFields
    <3> QED BY <3>1, <3>2, <3>3, <1>2, <1>6 DEF InPlace
  <2> QED BY <2>1, <2>2
<1>8. clInst' \in InstallRecord
  <2>1. clInst.i + 1 \in Nat
    BY <1>2
  <2> QED BY <2>1, <1>1, <1>4 DEF InstallRecord
<1>9. ClType'
  BY <1>1, <1>6, <1>8 DEF ClInv, ClType, InstOthers
<1>10. clInst'.i >= 1
  BY <1>2, <1>5
<1>11. InstallGoesOn'
  BY <1>1, <1>2, <1>5, <1>7, <1>10 DEF InstallGoesOn
<1>12. StatusFollows'
  BY <1>1, StatusStays DEF InstOthers
<1> QED BY <1>9, <1>11, <1>12 DEF ClInv

(* An installation that is over, or was interrupted.                       *)
LEMMA IdleInstall ==
    ASSUME ClInv, clInst' = IdleInst, clBin' \in [Clients -> Int], clPhase' \in PhaseRecord,
           clPhase'.phase \in {"idle", "error"},
           UNCHANGED <<clConf, clLatest, clPlat, clHost>>,
           clReq' \in [ClReqs -> [pc : {"idle", "probe"}, snap : ClProviders \cup {""}]],
           \A r \in ClReqs : clReq'[r].pc = "probe" => clReq'[r].snap \in ClProviders
    PROVE  ClType' /\ InstallGoesOn'
<1>1. clInst' \in InstallRecord /\ clInst'.pc = "idle" /\ Distinct(clInst'.specs)
  BY IdleRecord
<1>2. ClType'
  BY <1>1 DEF ClInv, ClType
<1>4. InstallGoesOn'
  BY <1>1 DEF InstallGoesOn
<1> QED BY <1>2, <1>4

LEMMA Fails == ASSUME ClInv, InstallFails PROVE ClInv'
<1> DEFINE c == clInst.specs[clInst.i]
<1>1. PICK v \in {clBin[c], Torn} : clBin' = [clBin EXCEPT ![c] = v]
  BY DEF InstallFails, Leftover
<1>2. /\ clInst.pc = "install" /\ clInst' = IdleInst /\ clPhase' = [clPhase EXCEPT !.phase = "error"]
      /\ UNCHANGED InstOthers
  BY DEF InstallFails
<1>3. clInst.i \in 1 .. Len(clInst.specs)
  BY <1>2, InstallFields DEF ClInv, InstallGoesOn
<1>4. c \in Clients /\ clBin[c] \in Int /\ clBin \in [Clients -> Int]
  BY <1>3, InstallFields
<1>5. clBin' \in [Clients -> Int]
  BY <1>1, <1>4 DEF Torn
<1>6. clPhase' \in PhaseRecord /\ clPhase'.phase = "error"
  BY <1>2 DEF ClInv, ClType, PhaseRecord
<1>7. ClType' /\ InstallGoesOn'
  BY <1>2, <1>5, <1>6, IdleInstall DEF InstOthers, ClInv, ClType
<1>8. StatusFollows'
  BY <1>2, StatusStays DEF InstOthers
<1> QED BY <1>7, <1>8 DEF ClInv

LEMMA Finishes == ASSUME ClInv, InstallFinished PROVE ClInv'
<1>1. /\ clInst.pc = "detect" /\ clInst.i > Len(clInst.specs)
      /\ clPhase' = [clPhase EXCEPT !.phase = "ready", !.done = clPhase.total]
      /\ clInst' = [clInst EXCEPT !.pc = "idle"] /\ UNCHANGED <<clBin, InstOthers>>
  BY DEF InstallFinished
<1>2. clInst \in InstallRecord /\ clPhase \in PhaseRecord
  BY DEF ClInv, ClType
<1>3. clPhase' \in PhaseRecord /\ clPhase'.phase = "ready"
  BY <1>1, <1>2 DEF PhaseRecord
<1>4. clInst' \in InstallRecord /\ clInst'.pc = "idle" /\ clInst'.specs = clInst.specs /\ clInst'.pins = clInst.pins
  BY <1>1, <1>2 DEF InstallRecord
<1>5. ASSUME NEW j \in 1 .. Len(clInst.specs) PROVE InPlace(clBin, clInst.pins, clInst.specs[j])
  <2>1. j < clInst.i
    BY <1>1, InstallFields
  <2> QED BY <2>1, <1>1 DEF ClInv, InstallGoesOn
<1>6. ClType'
  BY <1>1, <1>3, <1>4 DEF ClInv, ClType, InstOthers
<1>7. InstallGoesOn'
  BY <1>1, <1>3, <1>4, <1>5 DEF ClInv, InstallGoesOn
<1>8. StatusFollows'
  BY <1>1, StatusStays DEF InstOthers
<1> QED BY <1>6, <1>7, <1>8 DEF ClInv

----------------------------------------------------------------------------
(* The status.                                                             *)

(* The probe of gh changes nothing else of the host.                       *)
LEMMA GhProbed ==
    ASSUME ClInv, ProbeGh
    PROVE  /\ clHost' \in HostRecord /\ clHost'.gh = GhAfterProbe(clHost.gh)
           /\ \A p : Loggable(p)' = Loggable(p)
<1>1. clHost \in HostRecord
  BY DEF ClInv, ClType
<1>2. GhAfterProbe(clHost.gh) \in GhStates
  BY <1>1 DEF GhAfterProbe, HostRecord, GhStates
<1>3. clHost' = [clHost EXCEPT !.gh = GhAfterProbe(clHost.gh)]
  BY DEF ProbeGh
<1>4. /\ clHost' \in HostRecord /\ clHost'.gh = GhAfterProbe(clHost.gh)
      /\ clHost'.login = clHost.login /\ clHost'.env = clHost.env /\ clHost'.files = clHost.files
  BY <1>1, <1>2, <1>3 DEF HostRecord
<1> QED BY <1>4 DEF Loggable

(* What a status collected with the database says.                         *)
LEMMA Collected ==
    ASSUME ClInv, ProbeGh, NEW p \in ClProviders, NEW plat, clStatus' = Collect(p, plat)
    PROVE  /\ clStatus'.prov = p /\ plat \subseteq clStatus'.warnings
           /\ AuthWarning(p) \in clStatus'.warnings \/ Loggable(p)'
           /\ "gh_auth_missing" \in clStatus'.warnings \/ clHost'.gh = "valid"
<1>1. /\ clStatus'.prov = p
      /\ clStatus'.warnings = plat \cup GhWarnings(clHost.gh) \cup AcliWarnings(clBin, clHost)
                                   \cup ProviderWarnings(p, clBin, clHost)
  BY DEF Collect
<1>2. AuthWarning(p) \in clStatus'.warnings \/ Loggable(p)
  BY <1>1 DEF ProviderWarnings, HostUsable, Loggable
<1>3. "gh_auth_missing" \in clStatus'.warnings \/ clHost'.gh = "valid"
  BY <1>1, GhProbed DEF GhWarnings
<1> QED BY <1>1, <1>2, <1>3, GhProbed

LEMMA Preflights == ASSUME ClInv, Preflight PROVE ClInv'
<1>1. /\ clUp = "down" /\ ProbeGh
      /\ UNCHANGED <<clConf, clBin, clLatest, clInst, clPhase, clUp, clPlat, clStatus, clReq, clStale>>
  BY DEF Preflight
<1>2. ClType'
  BY <1>1, GhProbed DEF ClInv, ClType
<1>3. InstallGoesOn'
  BY <1>1, InstallStays
<1>4. StatusFollows'
  BY <1>1 DEF ClInv, StatusFollows, PutIdle
<1> QED BY <1>2, <1>3, <1>4 DEF ClInv

LEMMA Boots == ASSUME ClInv, BootClients PROVE ClInv'
<1>1. /\ clUp = "down" /\ clUp' = "booting" /\ ProbeGh
      /\ clInst' = [IdleInst EXCEPT !.pc = "spawned"]
      /\ clPhase' = [IdlePhase EXCEPT !.phase = "installing"]
      /\ UNCHANGED <<clConf, clBin, clLatest, clPlat, clReq, clStale>>
  BY DEF BootClients
<1>2. clInst' = [pc |-> "spawned", specs |-> <<>>, pins |-> [c \in Clients |-> 0], i |-> 0, want |-> 0]
  BY <1>1 DEF IdleInst
<1>3. clInst' \in InstallRecord
  <2>1. [c \in Clients |-> 0] \in [Clients -> Nat]
    OBVIOUS
  <2>2. <<>> \in Seq(Clients)
    OBVIOUS
  <2> HIDE DEF Clients
  <2> QED BY <1>2, <2>1, <2>2 DEF InstallRecord
<1>4. clPhase' \in PhaseRecord /\ clPhase'.phase = "installing"
  BY <1>1 DEF IdlePhase, PhaseRecord
<1>5. ClType'
  BY <1>1, <1>3, <1>4, GhProbed DEF ClInv, ClType
<1>6. clInst'.pc = "spawned" /\ clInst'.specs = <<>>
  BY <1>2
<1>7. InstallGoesOn'
  BY <1>4, <1>6 DEF InstallGoesOn, Distinct
<1>8. StatusFollows'
  BY <1>1 DEF ClInv, StatusFollows, PutIdle
<1> QED BY <1>5, <1>7, <1>8 DEF ClInv

LEMMA Recollects == ASSUME ClInv, Recollect PROVE ClInv'
<1>1. /\ clUp = "booting" /\ clUp' = "up" /\ ProbeGh /\ clStatus' = Collect(clConf.prov, clPlat)
      /\ UNCHANGED <<clConf, clBin, clLatest, clInst, clPhase, clPlat, clReq>>
  BY DEF Recollect
<1>2. clConf.prov \in ClProviders
  BY DEF ClInv, ClType
<1>3. ClType'
  BY <1>1, GhProbed DEF ClInv, ClType
<1>4. InstallGoesOn'
  BY <1>1, InstallStays
<1>5. /\ clStatus'.prov = clConf.prov /\ clPlat \subseteq clStatus'.warnings
      /\ AuthWarning(clConf.prov) \in clStatus'.warnings \/ Loggable(clStatus.prov)'
      /\ "gh_auth_missing" \in clStatus'.warnings \/ clHost'.gh = "valid"
  <2> DEFINE p == clConf.prov
  <2>1. /\ clStatus'.prov = p /\ clPlat \subseteq clStatus'.warnings
        /\ AuthWarning(p) \in clStatus'.warnings \/ Loggable(p)
        /\ "gh_auth_missing" \in clStatus'.warnings \/ clHost'.gh = "valid"
    BY <1>1, <1>2, Collected, GhProbed
  <2>2. Loggable(clStatus.prov)' = Loggable(clStatus'.prov)
    BY <1>1, GhProbed DEF Loggable
  <2> QED BY <2>1, <2>2
<1>6. PutIdle'
  BY <1>1 DEF ClInv, StatusFollows, PutIdle
<1>7. StatusFollows'
  BY <1>1, <1>2, <1>5, <1>6 DEF StatusFollows, PutIdle
<1> QED BY <1>3, <1>4, <1>7 DEF ClInv

LEMMA Stops == ASSUME ClInv, StopServer PROVE ClInv'
<1>1. /\ clUp' = "down" /\ clInst' = IdleInst /\ clPhase' = IdlePhase
      /\ clReq' = [r \in ClReqs |-> IdlePut]
      /\ UNCHANGED <<clConf, clLatest, clHost, clPlat>>
  BY DEF StopServer
<1>2. clBin' \in [Clients -> Int]
  <2>1. CASE clInst.pc = "install"
    <3> DEFINE c == clInst.specs[clInst.i]
    <3>1. clInst.i \in 1 .. Len(clInst.specs)
      BY <2>1, InstallFields DEF ClInv, InstallGoesOn
    <3>2. c \in Clients /\ clBin[c] \in Int /\ clBin \in [Clients -> Int]
      BY <3>1, InstallFields
    <3>3. PICK v \in {clBin[c], Torn} : clBin' = [clBin EXCEPT ![c] = v]
      BY <2>1 DEF StopServer, Leftover
    <3> QED BY <3>2, <3>3 DEF Torn
  <2>2. CASE clInst.pc # "install"
    BY <2>2, InstallFields DEF StopServer
  <2> QED BY <2>1, <2>2
<1>3. clPhase' \in PhaseRecord /\ clPhase'.phase = "idle"
  BY <1>1 DEF IdlePhase, PhaseRecord
<1>4. /\ clReq' \in [ClReqs -> [pc : {"idle", "probe"}, snap : ClProviders \cup {""}]]
      /\ \A r \in ClReqs : clReq'[r].pc = "idle"
  BY <1>1 DEF IdlePut
<1>5. ClType' /\ InstallGoesOn'
  BY <1>1, <1>2, <1>3, <1>4, IdleInstall
<1>6. StatusFollows'
  BY <1>1, <1>4 DEF StatusFollows, PutIdle
<1> QED BY <1>5, <1>6 DEF ClInv

LEMMA Puts == ASSUME ClInv, NEW r \in ClReqs, PutAgent(r) PROVE ClInv'
<1>1. PICK p \in ClProviders, c \in Clients, v \in 0 .. clLatest :
        /\ clConf' = [clConf EXCEPT !.prov = p, !.pins[c] = v]
        /\ clReq' = [clReq EXCEPT ![r] = [pc |-> "probe", snap |-> p]]
  BY DEF PutAgent
<1>2. /\ clUp = "up" /\ clReq[r].pc = "idle" /\ clStale' = (clStale \/ ~PutIdle)
      /\ UNCHANGED <<clBin, clLatest, clInst, clPhase, clUp, clHost, clPlat, clStatus>>
  BY DEF PutAgent
<1>3. clConf' \in [prov : ClProviders, avail : SUBSET ClProviders, pins : [Clients -> Nat]] /\ clConf'.prov = p
  <2>1. v \in Nat
    BY InstallFields
  <2>2. clConf \in [prov : ClProviders, avail : SUBSET ClProviders, pins : [Clients -> Nat]]
    BY DEF ClInv, ClType
  <2> HIDE DEF Clients
  <2> QED BY <2>1, <2>2, <1>1
<1>4. /\ clReq' \in [ClReqs -> [pc : {"idle", "probe"}, snap : ClProviders \cup {""}]]
      /\ clReq'[r].pc = "probe" /\ clReq'[r].snap = p
      /\ \A q \in ClReqs : q # r => clReq'[q] = clReq[q]
  BY <1>1 DEF ClInv, ClType
<1>5. ClType'
  <2>1. \A q \in ClReqs : clReq'[q].pc = "probe" => clReq'[q].snap \in ClProviders
    BY <1>4 DEF ClInv, ClType
  <2> QED BY <2>1, <1>2, <1>3, <1>4 DEF ClInv, ClType
<1>6. InstallGoesOn'
  BY <1>2, InstallStays
<1>7. StatusFollows'
  <2>1. ASSUME ~clStale' PROVE ~clStale /\ \A q \in ClReqs : q # r => clReq'[q].pc = "idle"
    BY <2>1, <1>2, <1>4 DEF PutIdle
  <2>2. ~PutIdle'
    BY <1>4 DEF PutIdle
  <2>3. Loggable(clStatus.prov)' = Loggable(clStatus.prov)
    BY <1>2 DEF Loggable
  <2> QED BY <2>1, <2>2, <2>3, <1>2, <1>3, <1>4 DEF ClInv, StatusFollows
<1> QED BY <1>5, <1>6, <1>7 DEF ClInv

LEMMA Refreshes == ASSUME ClInv, NEW r \in ClReqs, RefreshAgentStatus(r) PROVE ClInv'
<1>1. /\ clReq[r].pc = "probe" /\ clStatus' = Collect(clReq[r].snap, clPlat) /\ ProbeGh
      /\ clReq' = [clReq EXCEPT ![r] = IdlePut]
      /\ UNCHANGED <<clConf, clBin, clLatest, clInst, clPhase, clUp, clPlat, clStale>>
  BY DEF RefreshAgentStatus
<1>2. /\ clReq' \in [ClReqs -> [pc : {"idle", "probe"}, snap : ClProviders \cup {""}]]
      /\ clReq'[r].pc = "idle" /\ \A q \in ClReqs : q # r => clReq'[q] = clReq[q]
  BY <1>1 DEF ClInv, ClType, IdlePut
<1>3. ClType'
  <2>1. \A q \in ClReqs : clReq'[q].pc = "probe" => clReq'[q].snap \in ClProviders
    BY <1>2 DEF ClInv, ClType
  <2> QED BY <2>1, <1>1, <1>2, GhProbed DEF ClInv, ClType
<1>4. InstallGoesOn'
  BY <1>1, InstallStays
<1>5. PICK p \in ClProviders : p = clReq[r].snap
  BY <1>1 DEF ClInv, ClType
<1>6. /\ clStatus'.prov = p /\ clPlat \subseteq clStatus'.warnings
      /\ AuthWarning(p) \in clStatus'.warnings \/ Loggable(clStatus.prov)'
      /\ "gh_auth_missing" \in clStatus'.warnings \/ clHost'.gh = "valid"
  <2>1. /\ clStatus'.prov = p /\ clPlat \subseteq clStatus'.warnings
        /\ AuthWarning(p) \in clStatus'.warnings \/ Loggable(p)'
        /\ "gh_auth_missing" \in clStatus'.warnings \/ clHost'.gh = "valid"
    BY <1>1, <1>5, Collected
  <2>2. Loggable(clStatus.prov)' = Loggable(p)'
    BY <2>1 DEF Loggable
  <2> QED BY <2>1, <2>2
<1>7. StatusFollows'
  <2>1. ASSUME clUp' # "up" PROVE PutIdle'
    BY <2>1, <1>1, <1>2 DEF ClInv, StatusFollows, PutIdle
  <2>2. ASSUME clUp' = "up", ~clStale' PROVE p = clConf'.prov /\ \A q \in ClReqs : clReq'[q].pc # "probe"
    <3>1. clUp = "up" /\ ~clStale
      BY <2>2, <1>1
    <3>2. p = clConf.prov
      BY <3>1, <1>1, <1>5 DEF ClInv, StatusFollows
    <3>3. ASSUME NEW q \in ClReqs, q # r PROVE clReq[q].pc # "probe"
      BY <3>1, <3>3, <1>1 DEF ClInv, StatusFollows
    <3> QED BY <3>2, <3>3, <1>1, <1>2
  <2> QED BY <2>1, <2>2, <1>1, <1>6 DEF StatusFollows
<1> QED BY <1>3, <1>4, <1>7 DEF ClInv

LEMMA Reloads == ASSUME ClInv, HotReload PROVE ClInv'
<1>1. PICK p \in ClProviders : \E a \in {ClProviders, {p}} : clConf' = [clConf EXCEPT !.prov = p, !.avail = a]
  BY DEF HotReload
<1>2. /\ clUp = "up" /\ clStale' = TRUE
      /\ UNCHANGED <<clBin, clLatest, clInst, clPhase, clUp, clHost, clPlat, clStatus, clReq>>
  BY DEF HotReload
<1>3. clConf' \in [prov : ClProviders, avail : SUBSET ClProviders, pins : [Clients -> Nat]]
  <2>1. PICK a \in SUBSET ClProviders : clConf' = [clConf EXCEPT !.prov = p, !.avail = a]
    BY <1>1
  <2>2. clConf \in [prov : ClProviders, avail : SUBSET ClProviders, pins : [Clients -> Nat]]
    BY DEF ClInv, ClType
  <2> HIDE DEF Clients
  <2> QED BY <2>1, <2>2
<1>4. ClType'
  BY <1>2, <1>3 DEF ClInv, ClType
<1>5. InstallGoesOn'
  BY <1>2, InstallStays
<1>6. StatusFollows'
  BY <1>2 DEF ClInv, StatusFollows
<1> QED BY <1>4, <1>5, <1>6 DEF ClInv

LEMMA LogsIn == ASSUME ClInv, HostLogin PROVE ClInv'
<1>1. /\ clHost' \in {[clHost EXCEPT !.gh = "expired"], [clHost EXCEPT !.login = {"claude", "acli"}],
                      [clHost EXCEPT !.login = {}], [clHost EXCEPT !.files = CursorFiles]}
      /\ clStale' = TRUE
      /\ UNCHANGED <<clConf, clBin, clLatest, clInst, clPhase, clUp, clPlat, clStatus, clReq>>
  BY DEF HostLogin
<1>2. clHost' \in HostRecord
  <2>1. clHost \in HostRecord
    BY DEF ClInv, ClType
  <2>2. "expired" \in GhStates /\ {"claude", "acli"} \in SUBSET {"claude", "acli"} /\ {} \in SUBSET {"claude", "acli"}
    BY DEF GhStates
  <2>3. CASE clHost' = [clHost EXCEPT !.gh = "expired"]
    BY <2>1, <2>2, <2>3 DEF HostRecord
  <2>4. CASE clHost' = [clHost EXCEPT !.login = {"claude", "acli"}]
    BY <2>1, <2>2, <2>4 DEF HostRecord
  <2>5. CASE clHost' = [clHost EXCEPT !.login = {}]
    BY <2>1, <2>2, <2>5 DEF HostRecord
  <2>6. CASE clHost' = [clHost EXCEPT !.files = CursorFiles]
    BY <2>1, <2>6 DEF HostRecord
  <2> QED BY <1>1, <2>3, <2>4, <2>5, <2>6
<1>3. ClType'
  BY <1>1, <1>2 DEF ClInv, ClType
<1>4. InstallGoesOn'
  BY <1>1, InstallStays
<1>5. StatusFollows'
  BY <1>1 DEF ClInv, StatusFollows, PutIdle
<1> QED BY <1>3, <1>4, <1>5 DEF ClInv

LEMMA ClientsStay ==
    ASSUME ClInv, clLatest' \in Nat \ {0},
           UNCHANGED <<clConf, clBin, clInst, clPhase, clUp, clHost, clPlat, clStatus, clReq, clStale>>
    PROVE  ClInv'
<1>1. ClType'
  BY DEF ClInv, ClType
<1> QED BY <1>1, InstallStays, StatusStays DEF ClInv

LEMMA ClStep == ClInv /\ [ClNext]_clVars => ClInv'
<1> SUFFICES ASSUME ClInv, [ClNext]_clVars PROVE ClInv'
  OBVIOUS
<1>1. clLatest \in Nat \ {0}
  BY DEF ClInv, ClType
<1>2. CASE Preflight \/ BootClients \/ Recollect \/ StopServer
  BY <1>2, Preflights, Boots, Recollects, Stops
<1>3. CASE ReadSpecs \/ DetectClient \/ InstallOne \/ InstallFails \/ InstallFinished
  BY <1>3, ReadsSpecs, Detects, Installs, Fails, Finishes
<1>4. ASSUME NEW r \in ClReqs, PutAgent(r) \/ RefreshAgentStatus(r) PROVE ClInv'
  BY <1>4, Puts, Refreshes
<1>5. CASE HotReload \/ HostLogin
  BY <1>5, Reloads, LogsIn
<1>6. CASE Published
  <2>1. clLatest' \in Nat \ {0}
    BY <1>1, <1>6 DEF Published
  <2> QED BY <2>1, <1>6, ClientsStay DEF Published
<1>7. ASSUME NEW u \in ClUsers, UserCredential(u) \/ MarkCompleted(u) PROVE ClInv'
  <2>1. UNCHANGED <<clConf, clBin, clLatest, clInst, clPhase, clUp, clHost, clPlat, clStatus, clReq, clStale>>
    BY <1>7 DEF UserCredential, MarkCompleted
  <2> QED BY <2>1, <1>1, ClientsStay
<1>8. CASE UNCHANGED clVars
  BY <1>1, <1>8, ClientsStay DEF clVars
<1> QED BY <1>2, <1>3, <1>4, <1>5, <1>6, <1>7, <1>8 DEF ClNext

----------------------------------------------------------------------------
LEMMA ReadyClients == ClInv => ReadyMeansInstalled
BY DEF ClInv, InstallGoesOn, ReadyMeansInstalled, InPlace

LEMMA UnwarnedClients == ClInv => UnwarnedIsUsable
<1> SUFFICES ASSUME ClInv, clUp = "up", ~clStale, NEW u \in ClUsers
             PROVE  /\ \/ AuthWarning(clStatus.prov) \in Shown(u)
                       \/ <<u, clStatus.prov>> \in clRows
                       \/ HostUsable(clStatus.prov, clBin, clHost)
                       \/ clBin[clStatus.prov] <= 0
                    /\ \/ "gh_auth_missing" \in Shown(u) \/ <<u, "github">> \in clRows
                       \/ clHost.gh = "valid"
                    /\ PutIdle => clStatus.prov = clConf.prov
  BY DEF UnwarnedIsUsable
<1>1. /\ PutIdle => clStatus.prov = clConf.prov
      /\ AuthWarning(clStatus.prov) \in clStatus.warnings \/ Loggable(clStatus.prov)
      /\ "gh_auth_missing" \in clStatus.warnings \/ clHost.gh = "valid"
      /\ clStatus.prov \in ClProviders
  BY DEF ClInv, StatusFollows
<1>2. clBin[clStatus.prov] \in Int
  BY <1>1 DEF ClInv, ClType, Clients
<1>3. CASE AuthWarning(clStatus.prov) \in clStatus.warnings
  BY <1>1, <1>3 DEF Shown
<1>4. CASE Loggable(clStatus.prov)
  BY <1>1, <1>2, <1>4 DEF Loggable, HostUsable, Shown
<1> QED BY <1>1, <1>3, <1>4

LEMMA PlatformClients == ClInv => PlatformShown
<1> SUFFICES ASSUME ClInv, clUp = "up", NEW u \in ClUsers, NEW w \in clPlat
             PROVE  w \in Shown(u)
  BY DEF PlatformShown
<1>1. w \in clStatus.warnings /\ w \in PlatformWarnings
  BY DEF ClInv, StatusFollows, ClType
<1>2. w \notin Filterable
  <2>1. \A p \in ClProviders : AuthWarning(p) \in {"claude_not_authenticated", "codex_not_authenticated",
                                                    "opencode_not_authenticated", "cursor_not_authenticated"}
    BY ClientsAssumption DEF AuthWarning, AuthWarnings
  <2> QED BY <1>1, <2>1 DEF Filterable, PlatformWarnings
<1> QED BY <1>1, <1>2 DEF Shown

(* Clients shown as ready are installed in the pinned version, who is not  *)
(* warned can work, and what is wrong with the deployment stays in sight,  *)
(* for any number of users, requests, releases and starts                  *)
(* (agent_install.rs, collect_system_status_with_db, onboarding.rs).       *)
THEOREM ClientsAreSafe == ClSpec => []ClientsSafe
<1>1. ClInv => ClientsSafe
  BY ReadyClients, UnwarnedClients, PlatformClients DEF ClientsSafe
<1> QED BY <1>1, ClInitOK, ClStep, PTL DEF ClSpec

----------------------------------------------------------------------------
(* The rows of a user.                                                     *)

(* The row is absent or holds one list that was accepted; a request that   *)
(* is about to write one carries it; before any write there are only the   *)
(* defaults; and a read that has seeded finds a row.                       *)
Storable == ValidLists \cup {Defaults}
UsInv ==
    /\ usPc = [r \in UsReqs |-> usPc[r]]
    /\ usReq = [r \in UsReqs |-> usReq[r]]
    /\ usAnswer = [r \in UsReqs |-> usAnswer[r]]
    /\ usFlows = << >> \/ \E fl \in Storable : usFlows = <<fl>>
    /\ \A r \in UsReqs : usPc[r] = "idle" => usReq[r] = <<"none">>
    /\ \A r \in UsReqs : usPc[r] = "set" => usReq[r][2] \in Storable
    /\ usLast # << >> => usFlows = usLast
    /\ usLast = << >> => usFlows = << >> \/ usFlows = <<Defaults>>
    /\ \A r \in UsReqs : usPc[r] = "back" /\ usReq[r][1] = "get" => usFlows # << >>
    /\ ReadsSeeDefaults

LEMMA UsKept ==
    ASSUME UsInv, NEW r \in UsReqs, UNCHANGED <<usFlows, usLast>>,
           usPc' = [usPc EXCEPT ![r] = usPc'[r]], usReq' = [usReq EXCEPT ![r] = usReq'[r]],
           usAnswer' = [usAnswer EXCEPT ![r] = usAnswer'[r]],
           usPc'[r] # "idle",
           usPc'[r] = "set" => usReq'[r][2] \in Storable,
           usPc'[r] = "back" => usReq'[r][1] # "get",
           usPc'[r] = "done" => usReq'[r][1] # "get" \/ usAnswer'[r] # <<"flows", << >>>> \/ usLast # << >>
    PROVE  UsInv'
BY DEF UsInv, Storable, ReadsSeeDefaults

LEMMA UsMoves ==
    ASSUME UsInv, NEW r \in UsReqs,
           \/ GetFlows(r) \/ ResolveFlows(r) \/ PutFlows(r) \/ ReseedFlows(r)
           \/ ReadFlows(r) \/ ReadBack(r)
           \/ PutCommands(r) \/ PutPolling(r) \/ UpsertCommands(r) \/ SetPolling(r) \/ FetchRow(r)
           \/ DeletePolling(r) \/ DeleteCommands(r) \/ DeleteCommandsRow(r)
           \/ ResolveInitCommands(r) \/ ResolveGenerateReport(r) \/ ResolvePolling(r) \/ QueryFails(r)
    PROVE  UsInv'
<1> USE DEF Arrives, UsGoto, Answer
<1>1. usPc = [q \in UsReqs |-> usPc[q]] /\ usReq = [q \in UsReqs |-> usReq[q]]
      /\ usAnswer = [q \in UsReqs |-> usAnswer[q]]
  BY DEF UsInv
<1>2. CASE GetFlows(r) \/ ResolveFlows(r)
  <2>1. usPc' = [usPc EXCEPT ![r] = "read"] /\ usReq'[r][1] \in {"get", "resolve"}
        /\ usReq' = [usReq EXCEPT ![r] = usReq'[r]] /\ UNCHANGED <<usFlows, usLast, usAnswer>>
    BY <1>1, <1>2 DEF GetFlows, ResolveFlows
  <2> QED BY <1>1, <2>1, UsKept
<1>3. CASE PutFlows(r) \/ ReseedFlows(r)
  BY <1>1, <1>3, UsKept DEF PutFlows, ReseedFlows, Storable
<1>4. CASE ReadFlows(r)
  <2>1. usPc' = [usPc EXCEPT ![r] = usPc'[r]] /\ usPc'[r] \in {"seed", "done"}
        /\ usAnswer' = [usAnswer EXCEPT ![r] = usAnswer'[r]]
        /\ UNCHANGED <<usFlows, usLast, usReq>>
    BY <1>1, <1>4 DEF ReadFlows
  <2>2. usPc'[r] = "done" => usFlows # << >> /\ usAnswer'[r] = <<"flows", usFlows[1]>>
    BY <1>1, <1>4 DEF ReadFlows
  <2>3. usPc'[r] = "done" /\ usLast = << >> => usAnswer'[r] # <<"flows", << >>>>
    BY <2>2, UserRowsAssumption DEF UsInv
  <2> QED BY <1>1, <2>1, <2>3, UsKept
<1>5. CASE ReadBack(r)
  <2>1. usPc' = [usPc EXCEPT ![r] = "done"] /\ UNCHANGED <<usFlows, usLast, usReq>>
        /\ usAnswer' = [usAnswer EXCEPT ![r] = usAnswer'[r]]
    BY <1>1, <1>5 DEF ReadBack
  <2>2. usReq[r][1] = "get" => usFlows # << >> /\ usAnswer'[r] = <<"flows", usFlows[1]>>
    BY <1>1, <1>5 DEF ReadBack, UsInv
  <2>3. usReq[r][1] = "get" /\ usLast = << >> => usAnswer'[r] # <<"flows", << >>>>
    BY <2>2, UserRowsAssumption DEF UsInv
  <2> QED BY <1>1, <2>1, <2>3, UsKept
<1>6. CASE PutCommands(r) \/ PutPolling(r) \/ UpsertCommands(r) \/ SetPolling(r)
  BY <1>1, <1>6, UsKept DEF PutCommands, PutPolling, UpsertCommands, SetPolling, UpsertRow
<1>7. CASE FetchRow(r)
  BY <1>1, <1>7, UsKept DEF FetchRow
<1>8. CASE DeletePolling(r) \/ DeleteCommands(r) \/ DeleteCommandsRow(r)
  <2>1. CASE DeletePolling(r)
    <3>1. usPc[r] = "idle" /\ usPc' = [usPc EXCEPT ![r] = "done"] /\ UNCHANGED <<usFlows, usLast, usReq>>
          /\ usAnswer' = [usAnswer EXCEPT ![r] = usAnswer'[r]]
      BY <1>1, <2>1 DEF DeletePolling
    <3>2. usReq'[r] = <<"none">>
      BY <3>1 DEF UsInv
    <3>3. usReq'[r][1] # "get"
      BY <3>2
    <3> QED BY <1>1, <3>1, <3>3, UsKept
  <2>2. CASE DeleteCommands(r)
    BY <1>1, <2>2, UsKept DEF DeleteCommands
  <2>3. CASE DeleteCommandsRow(r)
    BY <1>1, <2>3, UsKept DEF DeleteCommandsRow
  <2> QED BY <1>8, <2>1, <2>2, <2>3
<1>9. CASE ResolveInitCommands(r) \/ ResolveGenerateReport(r) \/ ResolvePolling(r)
  <2>1. CASE ResolveInitCommands(r)
    BY <1>1, <2>1, UsKept DEF ResolveInitCommands
  <2>2. CASE ResolveGenerateReport(r)
    BY <1>1, <2>2, UsKept DEF ResolveGenerateReport
  <2>3. CASE ResolvePolling(r)
    <3>1. usPc[r] = "idle" /\ usPc' = [usPc EXCEPT ![r] = "done"] /\ UNCHANGED <<usFlows, usLast, usReq>>
          /\ usAnswer' = [usAnswer EXCEPT ![r] = usAnswer'[r]]
      BY <1>1, <2>3 DEF ResolvePolling
    <3>2. usReq'[r] = <<"none">>
      BY <3>1 DEF UsInv
    <3>3. usReq'[r][1] # "get"
      BY <3>2
    <3> QED BY <1>1, <3>1, <3>3, UsKept
  <2> QED BY <1>9, <2>1, <2>2, <2>3
<1>10. CASE QueryFails(r)
  <2>1. usPc' = [usPc EXCEPT ![r] = usPc'[r]] /\ usPc'[r] \in {"back", "done"}
        /\ UNCHANGED <<usFlows, usLast, usReq>>
    BY <1>1, <1>10 DEF QueryFails
  <2>2. usAnswer' = [usAnswer EXCEPT ![r] = usAnswer'[r]]
    BY <1>1, <1>10 DEF QueryFails
  <2>3. usPc'[r] = "back" => usReq[r][1] = "resolve"
    BY <1>1, <1>10 DEF QueryFails
  <2>4. usPc'[r] = "done" /\ usReq[r][1] = "get" => usAnswer'[r] = <<"error">>
    BY <1>1, <1>10 DEF QueryFails
  <2>5. usPc'[r] = "done" => usReq'[r][1] # "get" \/ usAnswer'[r] # <<"flows", << >>>>
    BY <2>1, <2>4
  <2>6. usReq' = [usReq EXCEPT ![r] = usReq'[r]] /\ (usPc'[r] = "back" => usReq'[r][1] # "get")
    BY <1>1, <2>1, <2>3
  <2>7. usPc'[r] # "idle" /\ usPc'[r] # "set"
    BY <2>1
  <2> HIDE DEF Answer, UsGoto
  <2> QED BY <2>1, <2>2, <2>5, <2>6, <2>7, UsKept
<1> QED BY <1>2, <1>3, <1>4, <1>5, <1>6, <1>7, <1>8, <1>9, <1>10

LEMMA UsStep == ASSUME UsInv, [UsNext]_usVars PROVE UsInv'
<1>1. ASSUME NEW r \in UsReqs, SeedFlows(r) PROVE UsInv'
  BY <1>1 DEF SeedFlows, SeedIfAbsent, UsGoto, UsInv, Storable, ReadsSeeDefaults
<1>2. ASSUME NEW r \in UsReqs, SetFlows(r) PROVE UsInv'
  BY <1>2 DEF SetFlows, UsGoto, UsInv, Storable, ReadsSeeDefaults
<1>3. CASE UNCHANGED usVars
  BY <1>3 DEF usVars, UsInv, Storable, ReadsSeeDefaults
<1> QED BY <1>1, <1>2, <1>3, UsMoves DEF UsNext

(* A seed never undoes a list that was written meanwhile, a read is        *)
(* answered with the defaults or a list somebody put, and what is stored   *)
(* was accepted, for any number of requests and whatever the validation    *)
(* accepts (me_flows.rs, seed_if_absent).                                  *)
THEOREM SeedsUndoNothing ==
    UsSpec => [](StoredWasAccepted /\ SeedNeverOverwrites /\ ReadsSeeDefaults)
<1>1. UsInit => UsInv
  BY DEF UsInit, UsInv, Storable, ReadsSeeDefaults
<1>2. UsInv /\ [UsNext]_usVars => UsInv'
  BY UsStep
<1>3. UsInv => StoredWasAccepted /\ SeedNeverOverwrites /\ ReadsSeeDefaults
  BY DEF UsInv, StoredWasAccepted, SeedNeverOverwrites, Storable
<1> QED BY <1>1, <1>2, <1>3, PTL DEF UsSpec

=============================================================================
