---------------------------- MODULE AgentSession ----------------------------
(* One agent step: the session of a provider (Claude, Codex, Cursor or      *)
(* OpenCode) starts the CLI, a waiter reads its output until the pipe ends, *)
(* the terminal event comes (Cursor), the wall-clock cap passes or the      *)
(* token is cancelled, and a relay task that outlives the session logs and  *)
(* shows each line and watches for a loop.                                  *)
(*                                                                          *)
(* A step's CLI is the first process of a container of its own: what the    *)
(* server has started, as a process group, is only the foreground client    *)
(* `docker run --rm --name`.  Killing the group kills the client, and the   *)
(* container works on until the CLI is done or containers of the ticket are *)
(* removed.  "Improve with AI" runs the CLI itself as the group.            *)
(*                                                                          *)
(* A line is its kind: "init" names the session, "a" is a text,             *)
(* "result" is the terminal event, "error" a failure of the turn, "tool"    *)
(* (described) or "odd" (not) and "toolend" bracket a tool call, "long" is a shell command whose       *)
(* 120th byte is inside a character.                                        *)
EXTENDS Integers, Sequences, SequencesExt

CONSTANTS
    Providers,      \* the providers the instance tries
    Streams,        \* whether a line channel is given: steps do, and have a container; "improve" has neither
    Timeout,        \* session timeout, in ticks
    IdleNudge,      \* session_idle_nudge_secs, in ticks; 0 is off
    MaxRepeats,     \* max_repeated_output_lines; 0 is off
    CursorMaxNudges,
    MaxLines        \* bound: lines the CLI writes over all attempts

ASSUME SessionAssumption ==
    /\ Providers \subseteq {"claude", "codex", "cursor", "opencode"}
    /\ Streams \subseteq BOOLEAN
    /\ Timeout \in Nat \ {0}
    /\ {IdleNudge, MaxRepeats, CursorMaxNudges, MaxLines} \subseteq Nat

VARIABLES
    asProvider, asStream,
    asPc,        \* the waiter: "start", "read", "drain", "grace", "join", "done"; the driver: "reaped", "unreaped"
    asChild,     \* the docker client or the CLI: "none", "alive", "ok", "bad" (exit status), "killed"
    asBox,       \* the CLI's container, while its client lives: "none" or "up"
    asLeft,      \* containers of this step that work on although their client is gone
    asDaemon,    \* a background process of the group: "none", "pipes" (holds stdout and stderr), "quiet", "dead"
    asPipe,      \* lines written and not read yet
    asOut,       \* stdout_lines of this attempt
    asRead,      \* observation: lines read, over all attempts
    asWritten,   \* observation: lines written, over all attempts
    asInner,     \* Cursor's inner channel
    asSup,       \* Cursor's supervisor: "on" or "off"
    asIdle,      \* ticks since the supervisor received a line
    asDepth,     \* tool_depth
    asSeen,      \* seen_session is set
    asResume,    \* cur_resume is set
    asNudges,    \* nudges_used
    asFired,     \* idle_fired of this attempt
    asClock,     \* ticks since the session started
    asDeadline,  \* when the wall-clock cap of this attempt expires
    asUser,      \* the work item's token is cancelled
    asStep,      \* step_cancel is cancelled
    asResult,    \* what the waiter returned
    asSession,   \* what the session returned
    asOutcome,   \* what the step made of it
    asName,      \* the session id kept for the next step: "none", "real", "made up"
    asOutput,    \* last_agent_output
    asLines,     \* the relay's channel
    asLog,       \* lines the relay has logged
    asRelay,     \* "on", "trip" (signal set, token not yet cancelled), "off"
    asLast, asCount,     \* last_signal and repeat_count
    asSignal     \* loop_signal is set

asTask == <<asProvider, asStream, asPc, asOut, asRead, asResult, asSession, asOutcome, asName,
            asOutput, asDeadline>>
asProc == <<asChild, asDaemon, asBox, asLeft, asPipe, asWritten>>
asSupVars == <<asInner, asSup, asIdle, asDepth, asSeen, asFired>>
asAttempt == <<asResume, asNudges>>
asRelayVars == <<asLines, asLog, asRelay, asLast, asCount, asSignal>>
asTokens == <<asUser, asStep>>
asVars == <<asTask, asProc, asSupVars, asAttempt, asRelayVars, asTokens, asClock>>

-----------------------------------------------------------------------------
(* What the providers' streams mean *)

Emits(p) ==
    CASE p = "claude" -> {"init", "a", "result", "long"}
      [] p = "codex" -> {"init", "a", "error"}
      [] p = "opencode" -> {"a", "error"}
      [] p = "cursor" -> {"init", "a", "result", "tool", "odd", "toolend"}

(* The humanizers: what the dashboard shows of a line, "none" when nothing.  *)
HumanizeClaude(k) ==
    CASE k = "init" -> "lifecycle" [] k = "result" -> "lifecycle"
      [] k = "tool" -> "tool" [] k \in {"toolend", "error"} -> "none" [] OTHER -> k

(* A tool call the summary cannot describe collapses to one placeholder. *)
CursorToolText(k) == CASE k = "tool" -> "tool" [] k = "odd" -> "placeholder" [] k = "toolend" -> "none"

HumanizeCursor(k) ==
    CASE k = "init" -> "initialized" [] k = "result" -> "lifecycle"
      [] k \in {"tool", "odd", "toolend"} -> CursorToolText(k) [] k = "error" -> "none" [] OTHER -> k

HumanizeCodex(k) == IF k \in {"init", "result"} THEN "lifecycle" ELSE k

HumanizeOpencode(k) ==
    CASE k \in {"init", "result"} -> "lifecycle" [] k \in {"tool", "toolend"} -> "none" [] OTHER -> k

Humanize(p, k) ==
    CASE p = "claude" -> HumanizeClaude(k)
      [] p = "cursor" -> HumanizeCursor(k)
      [] p = "codex" -> HumanizeCodex(k)
      [] p = "opencode" -> HumanizeOpencode(k)

NoProgressExempt(text) == text \in {"lifecycle", "placeholder"}

(* The id a finished session is resumed by is the one its stream names, or   *)
(* one made up on the spot.                                                  *)
NamedByInit(out) == IF Contains(out, "init") THEN "real" ELSE "made up"
NamedByThread(out) == IF Contains(out, "init") THEN "real" ELSE "made up"
NamedByAnyEvent(out) == IF out # << >> THEN "real" ELSE "made up"

SessionId(p, out) ==
    CASE p = "codex" -> NamedByThread(out) [] p = "opencode" -> NamedByAnyEvent(out) [] OTHER -> NamedByInit(out)

(* The texts of a stream; the raw stream when it has none. *)
TextsOrRaw(out, kinds) ==
    LET texts == SelectSeq(out, LAMBDA k : k \in kinds) IN IF texts = << >> THEN out ELSE texts
ParseClaude(out) == TextsOrRaw(out, {"a", "result"})
ParseCursor(out) == TextsOrRaw(out, {"a", "result"})
ParseCodex(out) == TextsOrRaw(out, {"a"})
ParseOpencode(out) == TextsOrRaw(out, {"a"})

ParseOutput(p, out) ==
    CASE p = "claude" -> ParseClaude(out) [] p = "cursor" -> ParseCursor(out)
      [] p = "codex" -> ParseCodex(out) [] p = "opencode" -> ParseOpencode(out)

(* The verdict on an attempt that ended by itself: the exit status, then an   *)
(* empty stream, then a turn that failed inside the stream.                  *)
ExitVerdict(exit, out) ==
    CASE exit # "ok" -> "nonzero" [] exit = "ok" /\ out = << >> -> "empty" [] OTHER -> "ok"
CodexTurnFailure(out) == Contains(out, "error")
OpencodeError(out) == Contains(out, "error")

FinalizeClaude(exit, out) == ExitVerdict(exit, out)
FinalizeCursor(exit, out) == ExitVerdict(exit, out)
FinalizeCodex(exit, out) ==
    IF ExitVerdict(exit, out) = "ok" /\ CodexTurnFailure(out) THEN "failed" ELSE ExitVerdict(exit, out)
FinalizeOpencode(exit, out) ==
    IF ExitVerdict(exit, out) = "ok" /\ OpencodeError(out) THEN "failed" ELSE ExitVerdict(exit, out)

Finalize(p, exit, out) ==
    CASE p = "claude" -> FinalizeClaude(exit, out) [] p = "cursor" -> FinalizeCursor(exit, out)
      [] p = "codex" -> FinalizeCodex(exit, out) [] p = "opencode" -> FinalizeOpencode(exit, out)

-----------------------------------------------------------------------------
SessInit ==
    /\ asProvider \in Providers /\ asStream \in Streams
    /\ asPc = "start" /\ asChild = "none" /\ asDaemon = "none" /\ asPipe = << >>
    /\ asBox = "none" /\ asLeft = 0
    /\ asOut = << >> /\ asRead = << >> /\ asWritten = 0
    /\ asInner = << >> /\ asSup = "off" /\ asIdle = 0 /\ asDepth = 0
    /\ asSeen = FALSE /\ asResume \in BOOLEAN /\ asNudges = 0 /\ asFired = FALSE
    /\ asClock = 0 /\ asDeadline = 0 /\ asUser = FALSE /\ asStep = FALSE
    /\ asResult = "none" /\ asSession = "none" /\ asOutcome = "none"
    /\ asName = "none" /\ asOutput = << >>
    /\ asLines = << >> /\ asLog = << >> /\ asRelay = "on"
    /\ asLast = "none" /\ asCount = 0 /\ asSignal = FALSE

Waiting == asPc \in {"read", "drain", "grace"}
Nudging == IdleNudge > 0 /\ asNudges < CursorMaxNudges
StdoutEnded == asPipe = << >> /\ asChild # "alive" /\ asDaemon # "pipes"

(* The end of the process the server has started; the container of a client, *)
(* if it is up, is left behind.                                              *)
ProcessEnds(status) ==
    /\ asChild' = status /\ asBox' = "none"
    /\ asLeft' = asLeft + (IF asBox = "up" THEN 1 ELSE 0)

KillProcess ==
    IF asChild = "alive" THEN ProcessEnds("killed") ELSE UNCHANGED <<asChild, asBox, asLeft>>

KillChildOnly == KillProcess /\ UNCHANGED <<asDaemon, asPipe, asWritten>>

(* kill_process_group: SIGKILL to every process of the group, what the CLI   *)
(* left in it included, but to nothing in a container.                       *)
KillGroup ==
    /\ KillProcess
    /\ asDaemon' = IF asDaemon \in {"pipes", "quiet"} THEN "dead" ELSE asDaemon
    /\ UNCHANGED <<asPipe, asWritten>>

NotProc == <<asTask, asSupVars, asAttempt, asRelayVars, asTokens, asClock>>

(* docker run creates and starts the container; a killed client starts none. *)
BoxStarts ==
    /\ asStream /\ asChild = "alive" /\ asBox = "none" /\ asBox' = "up"
    /\ UNCHANGED <<NotProc, asChild, asDaemon, asLeft, asPipe, asWritten>>

(* The client cannot start its container, or loses the daemon.               *)
ClientFails ==
    /\ asStream /\ asChild = "alive" /\ ProcessEnds("bad")
    /\ UNCHANGED <<NotProc, asDaemon, asPipe, asWritten>>

(* The CLI and what it leaves behind; in a container that dies with it.      *)
CliRuns == IF asStream THEN asBox = "up" ELSE asChild = "alive"

ChildWrites(k) ==
    /\ CliRuns /\ asWritten < MaxLines /\ k \in Emits(asProvider)
    /\ asPipe' = Append(asPipe, k) /\ asWritten' = asWritten + 1
    /\ UNCHANGED <<NotProc, asChild, asDaemon, asBox, asLeft>>

ChildDetaches(d) ==
    /\ ~asStream /\ CliRuns /\ asDaemon \in {"none", "dead"} /\ asDaemon' = d
    /\ UNCHANGED <<NotProc, asChild, asBox, asLeft, asPipe, asWritten>>

ChildExits(code) ==
    /\ CliRuns /\ asChild' = code /\ asBox' = "none"
    /\ UNCHANGED <<NotProc, asDaemon, asLeft, asPipe, asWritten>>

LeftBehindEnds ==
    /\ asLeft > 0 /\ asLeft' = asLeft - 1
    /\ UNCHANGED <<NotProc, asChild, asDaemon, asBox, asPipe, asWritten>>

(* cleanup_for_ticket removes all containers of the ticket that are there.   *)
RemoveContainers ==
    /\ asLeft' = 0 /\ asBox' = "none"
    /\ asChild' = IF asBox = "up" THEN "bad" ELSE asChild
    /\ UNCHANGED <<asDaemon, asPipe, asWritten>>

(* It is called at the end of a flow, of another flow of the ticket too, and *)
(* by a pause, a stop or a deletion.                                         *)
OthersCleanUp ==
    /\ asStream /\ (asLeft > 0 \/ asBox = "up") /\ RemoveContainers
    /\ UNCHANGED NotProc

-----------------------------------------------------------------------------
(* The session: one attempt, and for Cursor the nudged ones after it *)

FullTimeoutEachAttempt == asClock + Timeout

RemainingUntil == Timeout

(* spawn: a process group of its own with both pipes *)
SpawnGroup ==
    /\ asChild' = "alive" /\ asDaemon' = "none" /\ asPipe' = << >>
    /\ UNCHANGED <<asBox, asLeft, asWritten>>

StartAttempt ==
    /\ asPc = "start" /\ asClock < Timeout
    /\ asPc' = "read" /\ asDeadline' = RemainingUntil
    /\ SpawnGroup /\ asOut' = << >> /\ asResult' = "none"
    /\ asInner' = << >> /\ asIdle' = 0 /\ asDepth' = 0 /\ asSeen' = FALSE /\ asFired' = FALSE
    /\ UNCHANGED <<asProvider, asStream, asRead, asSession, asOutcome, asName, asOutput, asAttempt,
                   asRelayVars, asTokens, asClock>>

StartClaude == asProvider = "claude" /\ StartAttempt /\ asSup' = "off"
StartCodex == asProvider = "codex" /\ StartAttempt /\ asSup' = "off"
StartOpencode == asProvider = "opencode" /\ StartAttempt /\ asSup' = "off"
StartCursor == asProvider = "cursor" /\ StartAttempt /\ asSup' = IF asStream THEN "on" ELSE "off"

NoTimeLeft ==
    /\ asPc = "start" /\ asClock >= Timeout
    /\ asPc' = "join" /\ asResult' = "timeout"
    /\ UNCHANGED <<asProvider, asStream, asOut, asRead, asSession, asOutcome, asName, asOutput, asDeadline, asProc,
                   asSupVars, asAttempt, asRelayVars, asTokens, asClock>>

(* next_line: the line goes to the channel and to stdout_lines; the terminal  *)
(* event ends the wait for Cursor.                                           *)
ReadLine ==
    /\ asPc \in {"read", "grace"} /\ asPipe # << >>
    /\ LET k == Head(asPipe)
           direct == asStream /\ asProvider # "cursor"
           inner == asSup = "on" IN
         /\ asPipe' = Tail(asPipe)
         /\ asOut' = Append(asOut, k) /\ asRead' = Append(asRead, k)
         /\ asLines' = IF direct /\ asRelay = "on" THEN Append(asLines, k) ELSE asLines
         /\ asInner' = IF inner THEN Append(asInner, k) ELSE asInner
         /\ asPc' = IF asProvider = "cursor" /\ asStream /\ k = "result" THEN "grace" ELSE asPc
    /\ UNCHANGED <<asProvider, asStream, asResult, asSession, asOutcome, asName, asOutput, asDeadline, asChild,
                   asDaemon, asBox, asLeft, asWritten, asSup, asIdle, asDepth, asSeen, asFired, asAttempt,
                   asLog, asRelay, asLast, asCount, asSignal, asTokens, asClock>>

StdoutEnds ==
    /\ asPc = "read" /\ StdoutEnded /\ asPc' = "drain"
    /\ UNCHANGED <<asProvider, asStream, asOut, asRead, asResult, asSession, asOutcome, asName, asOutput, asDeadline,
                   asProc, asSupVars, asAttempt, asRelayVars, asTokens, asClock>>

WaiterReturns(r) ==
    /\ asPc' = "join" /\ asResult' = r
    /\ UNCHANGED <<asProvider, asStream, asOut, asRead, asSession, asOutcome, asName, asOutput, asDeadline,
                   asSupVars, asAttempt, asRelayVars, asTokens, asClock>>

(* The rest of stderr, then wait: neither watches the token. *)
ChildReaped ==
    /\ asPc = "drain" /\ asChild # "alive" /\ asDaemon # "pipes"
    /\ WaiterReturns(Finalize(asProvider, asChild, asOut))
    /\ UNCHANGED asProc

(* The two seconds after the terminal event are over, or stdout ended: a     *)
(* child that has exited is reaped with its code, another is killed and      *)
(* counts as 0.                                                              *)
GraceEnds ==
    /\ asPc = "grace"
    /\ IF asChild = "alive"
       THEN WaiterReturns(Finalize(asProvider, "ok", asOut)) /\ KillGroup
       ELSE WaiterReturns(Finalize(asProvider, asChild, asOut)) /\ UNCHANGED asProc

WaiterCancelled ==
    /\ asPc = "read" /\ (asUser \/ asStep \/ asFired)
    /\ WaiterReturns("cancelled") /\ KillGroup

TimeoutNotWatched == FALSE /\ UNCHANGED asVars

WaiterTimesOut ==
    /\ Waiting /\ asClock >= asDeadline
    /\ WaiterReturns("timeout") /\ KillGroup

-----------------------------------------------------------------------------
(* Cursor's supervisor *)

SupReceives ==
    /\ asSup = "on" /\ asInner # << >>
    /\ LET k == Head(asInner) IN
         /\ asSeen' = (asSeen \/ k \in {"init", "a", "result"})
         /\ asDepth' = CASE k \in {"tool", "odd"} -> asDepth + 1
                         [] k = "toolend" /\ asDepth > 0 -> asDepth - 1
                         [] OTHER -> asDepth
         /\ asLines' = IF asRelay = "on" THEN Append(asLines, k) ELSE asLines
    /\ asInner' = Tail(asInner) /\ asIdle' = 0
    /\ UNCHANGED <<asTask, asProc, asSup, asFired, asAttempt, asLog, asRelay, asLast, asCount,
                   asSignal, asTokens, asClock>>

IdleDueOneNudgeMore ==
    asSup = "on" /\ IdleNudge > 0 /\ asNudges <= CursorMaxNudges /\ asInner = << >> /\ Waiting /\ asIdle >= IdleNudge

IdleDue == asSup = "on" /\ Nudging /\ asInner = << >> /\ Waiting /\ asIdle >= IdleNudge

(* Idle: with no tool in flight only this attempt is cancelled. *)
SupIdle ==
    /\ IdleDue
    /\ IF asDepth = 0
       THEN asFired' = TRUE /\ asSup' = "off" /\ UNCHANGED asIdle
       ELSE asIdle' = 0 /\ UNCHANGED <<asFired, asSup>>
    /\ UNCHANGED <<asTask, asProc, asInner, asDepth, asSeen, asAttempt, asRelayVars, asTokens, asClock>>

SupDone == asPc = "join" /\ asInner = << >>
SupDoneAtOnce == asPc = "join"

SupEnds ==
    /\ asSup = "on" /\ SupDone
    /\ asSup' = "off" /\ asInner' = << >>
    /\ UNCHANGED <<asTask, asProc, asIdle, asDepth, asSeen, asFired, asAttempt, asRelayVars, asTokens, asClock>>

(* After the join: a cancelled attempt is resumed with a nudge when it was   *)
(* the idle timer, not the operator, and the session has a name.             *)
Resumes == asResult = "cancelled" /\ ~asUser /\ ~asStep /\ asFired
               /\ asNudges < CursorMaxNudges /\ (asSeen \/ asResume)

SessionJoins ==
    /\ asPc = "join" /\ asSup = "off" /\ asSession = "none"
    /\ IF Resumes
       THEN /\ asPc' = "start" /\ asNudges' = asNudges + 1 /\ asResume' = TRUE
            /\ UNCHANGED asSession
       ELSE /\ asSession' = asResult
            /\ UNCHANGED <<asPc, asNudges, asResume>>
    /\ UNCHANGED <<asProvider, asStream, asOut, asRead, asResult, asOutcome, asName, asOutput, asDeadline, asProc,
                   asSupVars, asRelayVars, asTokens, asClock>>

(* The step reads the signal once, after the session: a loop takes           *)
(* precedence over what the session returned.                                *)
StepEnds ==
    /\ asPc = "join" /\ asSession # "none"
    /\ asPc' = "done"
    /\ asOutcome' = IF asSignal THEN "loop" ELSE asSession
    /\ LET kept == ~asSignal /\ asSession = "ok" IN
         /\ asName' = IF kept THEN SessionId(asProvider, asOut) ELSE asName
         /\ asOutput' = IF kept THEN ParseOutput(asProvider, asOut) ELSE asOutput
    /\ UNCHANGED <<asProvider, asStream, asOut, asRead, asResult, asSession, asDeadline, asProc,
                   asSupVars, asAttempt, asRelayVars, asTokens, asClock>>

(* After its last step the driver removes the containers of the ticket;     *)
(* every docker command of that is bounded, and may fail.                   *)
DriverCleansUp(ok) ==
    /\ asPc = "done" /\ asStream
    /\ IF ok THEN asPc' = "reaped" /\ RemoveContainers ELSE asPc' = "unreaped" /\ UNCHANGED asProc
    /\ UNCHANGED <<asProvider, asStream, asOut, asRead, asResult, asSession, asOutcome, asName, asOutput, asDeadline,
                   asSupVars, asAttempt, asRelayVars, asTokens, asClock>>

(* The client of "improve" goes away: the handler is dropped and with it the *)
(* waiter, which kills the CLI (kill_on_drop) but not its group.             *)
ImproveDropped ==
    /\ ~asStream /\ Waiting /\ asPc' = "done" /\ KillChildOnly
    /\ UNCHANGED <<asProvider, asStream, asOut, asRead, asResult, asSession, asOutcome, asName, asOutput, asDeadline,
                   asSupVars, asAttempt, asRelayVars, asTokens, asClock>>

-----------------------------------------------------------------------------
(* The relay task *)

RelayLine ==
    /\ asRelay = "on" /\ asLines # << >>
    /\ LET k == Head(asLines)
           text == Humanize(asProvider, k)
           counted == MaxRepeats > 0 /\ text # "none" /\ ~NoProgressExempt(text)
           n == IF asLast = text THEN asCount + 1 ELSE 1 IN
         /\ asLines' = Tail(asLines) /\ asLog' = Append(asLog, k)
         /\ asLast' = IF counted THEN text ELSE asLast
         /\ asCount' = IF counted THEN n ELSE asCount
         /\ asSignal' = (asSignal \/ (counted /\ n >= MaxRepeats))
         /\ asRelay' = CASE k = "long" -> "off"   \* the slice of the command panics
                         [] k # "long" /\ counted /\ n >= MaxRepeats -> "trip"
                         [] OTHER -> "on"
    /\ UNCHANGED <<asTask, asProc, asSupVars, asAttempt, asTokens, asClock>>

RelayCancels ==
    /\ asRelay = "trip" /\ asRelay' = "off" /\ asStep' = TRUE /\ asLines' = << >>
    /\ UNCHANGED <<asTask, asProc, asSupVars, asAttempt, asLog, asLast, asCount, asSignal, asUser, asClock>>

-----------------------------------------------------------------------------
(* The environment: the operator's pause or stop, and time ("improve" has a *)
(* token nobody cancels).  Timers that are due fire before the next tick.   *)
UserCancels ==
    /\ asStream /\ asPc \notin {"done", "reaped", "unreaped"} /\ ~asUser /\ asUser' = TRUE
    /\ UNCHANGED <<asTask, asProc, asSupVars, asAttempt, asRelayVars, asStep, asClock>>

Tick ==
    /\ Waiting /\ asClock < asDeadline /\ ~IdleDue
    /\ asClock' = asClock + 1
    /\ asIdle' = IF asSup = "on" /\ asInner = << >> /\ asIdle < IdleNudge THEN asIdle + 1 ELSE asIdle
    /\ UNCHANGED <<asTask, asProc, asInner, asSup, asDepth, asSeen, asFired, asAttempt, asRelayVars, asTokens>>

SessStep ==
    \/ StartClaude \/ StartCodex \/ StartOpencode \/ StartCursor \/ NoTimeLeft \/ ReadLine \/ StdoutEnds \/ ChildReaped \/ GraceEnds
    \/ WaiterCancelled \/ WaiterTimesOut
    \/ SupReceives \/ SupIdle \/ SupEnds \/ SessionJoins \/ StepEnds
    \/ \E ok \in BOOLEAN : DriverCleansUp(ok)

SessNext ==
    \/ SessStep
    \/ RelayLine \/ RelayCancels
    \/ \E k \in {"init", "a", "result", "error", "tool", "odd", "toolend", "long"} : ChildWrites(k)
    \/ \E d \in {"pipes", "quiet"} : ChildDetaches(d)
    \/ \E c \in {"ok", "bad"} : ChildExits(c)
    \/ BoxStarts \/ ClientFails \/ LeftBehindEnds \/ OthersCleanUp \/ ImproveDropped
    \/ UserCancels \/ Tick

(* The runtime schedules the tasks and its timers; the CLI owes nothing. *)
SessFairness == WF_asVars(SessStep) /\ WF_asVars(Tick) /\ WF_asVars(RelayLine \/ RelayCancels)

SessSpec == SessInit /\ [][SessNext]_asVars /\ SessFairness

-----------------------------------------------------------------------------
SessTypeOK ==
    /\ asPc \in {"start", "read", "drain", "grace", "join", "done", "reaped", "unreaped"}
    /\ asBox \in {"none", "up"} /\ asLeft \in Nat
    /\ asChild \in {"none", "alive", "ok", "bad", "killed"}
    /\ asDaemon \in {"none", "pipes", "quiet", "dead"}
    /\ {asUser, asStep, asSeen, asResume, asFired, asSignal, asStream} \subseteq BOOLEAN
    /\ asSup \in {"on", "off"} /\ asRelay \in {"on", "trip", "off"}
    /\ asNudges \in 0..CursorMaxNudges /\ asDepth \in 0..MaxLines
    /\ asWritten \in 0..MaxLines /\ Len(asPipe) <= MaxLines
    /\ {asResult, asSession} \subseteq {"none", "ok", "nonzero", "empty", "failed", "cancelled", "timeout"}

(* The timeout of a session is a cap on the wall clock over all attempts: a  *)
(* nudged attempt gets what is left, never a fresh timeout                   *)
(* (run_cursor_agent_session, remaining_secs).                               *)
HardCap == asClock <= Timeout

(* Containers in which an agent of this step works in the worktree. *)
Working == asLeft + (IF asBox = "up" THEN 1 ELSE 0)

(* What a session leaves at work.  When it was cancelled or timed out, and   *)
(* before a nudged attempt starts, no process of the group it started is     *)
(* left, a background process of "improve" included (kill_process_group).    *)
(* Containers that outlive their killed client are at most one for each      *)
(* attempt, and after the clean-up of the driver there is none               *)
(* (next_container_name, cleanup_for_ticket).                                *)
NoAgentLeft ==
    /\ asPc = "start" \/ asResult \in {"cancelled", "timeout"} =>
          asChild # "alive" /\ asDaemon \notin {"pipes", "quiet"}
    /\ Working <= asNudges + 1
    /\ asPc = "reaped" => asChild # "alive" /\ Working = 0

(* process.rs:74 says of the group "This ensures all child processes can     *)
(* be killed together": not of the CLI of a step.  After the client is       *)
(* killed its container works on, beside a nudged second attempt too.        *)
KilledTogether == asResult \in {"cancelled", "timeout"} => Working = 0

(* A step is reported as cancelled, which the engine takes for a pause or a  *)
(* stop and runs again, only when the operator cancelled, or when Cursor was *)
(* idle before it named its session: a loop is never mistaken for a pause    *)
(* (the relay sets the signal before it cancels) and a nudged session is     *)
(* never given up while nudges are left.                                     *)
CancelHasCause ==
    asOutcome = "cancelled" => asUser \/ (asFired /\ ~asSeen /\ ~asResume)

(* While the relay lives and no attempt was given up as idle, every line     *)
(* read from the CLI is logged, in order, or still on its way                *)
(* (wait_with_streaming_until, the supervisor and spawn_output_relay).       *)
NoLineLost ==
    asStream /\ asRelay = "on" /\ asNudges = 0 /\ ~asFired =>
        asRead = asLog \o asLines \o asInner

(* Every session ends: whatever the CLI does, and also when it leaves a      *)
(* process behind that holds its pipes open.                                 *)
SessionEnds == <>(asPc \in {"done", "reaped", "unreaped"})

(* A session, as one invariant: it ends in time over all its attempts, it   *)
(* leaves no process behind and no container after the clean-up, a          *)
(* cancellation has a cause and no line is lost.                            *)
AgentSessionSafe == HardCap /\ NoAgentLeft /\ CancelHasCause /\ NoLineLost

=============================================================================
