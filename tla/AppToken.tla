------------------------------ MODULE AppToken ------------------------------
(***************************************************************************)
(* The installation token of the GitHub App: a cache behind a read-write   *)
(* lock that is refilled when the token has less than a margin to live,    *)
(* the callers that ask for it, and the task that copies it into a file    *)
(* for the workers every polling interval.  A token is its expiry time.    *)
(***************************************************************************)
EXTENDS Integers, FiniteSets

CONSTANTS
    Life,       \* lifetime of an installation token
    Margin,     \* a token with no more to live is refreshed (5 minutes)
    PollEvery,  \* TOKEN_REFRESH_POLL_SECS
    FetchMax,   \* --max-time of the request
    Callers,    \* tasks that ask for the token, besides the file writer
    FileWriter, \* the task of start_token_file_writer
    MaxClock    \* bound on the clock

ASSUME AppTokenAssumption ==
    /\ {Life, Margin, PollEvery, FetchMax, MaxClock} \subseteq Nat
    /\ PollEvery <= Margin /\ FetchMax > 0 /\ Margin + FetchMax < Life /\ MaxClock > 0
    /\ FileWriter \notin Callers /\ "free" \notin Callers \cup {FileWriter}
    /\ IsFiniteSet(Callers)

VARIABLES
    clock,
    cached,     \* expiry of the cached token, 0 when there is none
    holder,     \* the task with the write lock, or "free"
    task,       \* [Tasks -> [pc, at]]
    fileToken,  \* expiry of the token in the file, 0 when there is none
    wake,       \* when the file writer looks again
    failed      \* ghost: a fetch failed since the file was written

appVars == <<clock, cached, holder, task, fileToken, wake, failed>>

Tasks == Callers \cup {FileWriter}
(* Mutant of Idle0: a task does not come back to where it may ask.         *)
Idle0Done == [pc |-> "done", at |-> 0]

Idle0 == [pc |-> "idle", at |-> 0]

AppInit ==
    /\ clock = 1 /\ cached = 0 /\ holder = "free" /\ fileToken = 0 /\ wake = 1
    /\ task = [c \in Tasks |-> Idle0] /\ failed = FALSE

(* Mutant of FreshAt: a token that is not expired yet will do.             *)
FreshAlive(exp, t) == exp > t

(* expires_at > now + 5 minutes.                                           *)
FreshAt(exp, t) == exp > t + Margin

(* What the task does with the token: the writer renames a new file into   *)
(* place and sleeps, an error only makes it sleep.                         *)
Return(c, exp) ==
    /\ task' = [task EXCEPT ![c] = Idle0]
    /\ IF c = FileWriter
       THEN /\ wake' = clock + PollEvery
            /\ IF exp = 0 THEN UNCHANGED fileToken /\ failed' = TRUE
               ELSE fileToken' = exp /\ failed' = FALSE
       ELSE failed' = (failed \/ exp = 0) /\ UNCHANGED <<fileToken, wake>>

(* The fast path of get_installation_token, under the read lock.           *)
Ask(c) ==
    /\ task[c].pc = "idle" /\ holder = "free"
    /\ c = FileWriter => clock >= wake
    /\ IF FreshAt(cached, clock) THEN Return(c, cached)
       ELSE task' = [task EXCEPT ![c].pc = "wait"] /\ UNCHANGED <<fileToken, wake, failed>>
    /\ UNCHANGED <<clock, cached, holder>>

(* Mutant of Lock: the cache is not looked at again.                       *)
LockUnchecked(c) ==
    /\ task[c].pc = "wait" /\ holder = "free" /\ holder' = c
    /\ task' = [task EXCEPT ![c] = [pc |-> "fetch", at |-> clock]]
    /\ UNCHANGED <<clock, cached, fileToken, wake, failed>>

(* The write lock; another task may have refreshed the token meanwhile.    *)
Lock(c) ==
    /\ task[c].pc = "wait" /\ holder = "free"
    /\ IF FreshAt(cached, clock) THEN Return(c, cached) /\ UNCHANGED holder
       ELSE /\ holder' = c /\ task' = [task EXCEPT ![c] = [pc |-> "fetch", at |-> clock]]
            /\ UNCHANGED <<fileToken, wake, failed>>
    /\ UNCHANGED <<clock, cached>>

(* fetch_installation_token: GitHub issues a token while the request runs. *)
Fetched(c) ==
    /\ task[c].pc = "fetch" /\ holder' = "free"
    /\ \E issued \in task[c].at .. clock :
          cached' = issued + Life /\ Return(c, issued + Life)
    /\ UNCHANGED clock
FetchFailed(c) ==
    /\ task[c].pc = "fetch" /\ holder' = "free" /\ Return(c, 0)
    /\ UNCHANGED <<clock, cached>>

(* Time passes while a request runs, for at most --max-time; the tasks     *)
(* that need not wait for one are prompt.                                  *)
Prompt(c) == IF task[c].pc = "fetch" THEN clock - task[c].at < FetchMax
             ELSE holder # "free" \/ (task[c].pc = "idle" /\ (c = FileWriter => clock < wake))
ClockTick ==
    /\ clock < MaxClock /\ \A c \in Tasks : Prompt(c)
    /\ clock' = clock + 1 /\ UNCHANGED <<cached, holder, task, fileToken, wake, failed>>

AppNext == ClockTick \/ \E c \in Tasks : Ask(c) \/ Lock(c) \/ Fetched(c) \/ FetchFailed(c)

AppSpec == AppInit /\ [][AppNext]_appVars

----------------------------------------------------------------------------
AppTypeOK ==
    /\ clock \in 1 .. MaxClock /\ cached \in Nat /\ fileToken \in Nat /\ wake \in Nat
    /\ holder \in Tasks \cup {"free"} /\ failed \in BOOLEAN
    /\ task \in [Tasks -> [pc : {"idle", "wait", "fetch"}, at : Nat]]

(* A worker finds a token in the file that works: as long as no request    *)
(* failed, it is replaced no later than one request after it expires,      *)
(* though it was nearly due for refresh when the writer last looked and    *)
(* other tasks refresh the cache in between.                               *)
FileTokenFresh == fileToken # 0 /\ ~failed => clock < fileToken + FetchMax

(* Tasks that found the token stale together fetch one token, not one      *)
(* each: a cached token is only replaced when it is nearly due.            *)
OneFetchPerToken == [][cached' # cached => ~FreshAt(cached, clock)]_appVars

(* The tokens, as one property: the file never holds one long expired, and *)
(* tasks that find the token stale together fetch one.                     *)
AppTokenFresh == [](AppTypeOK /\ FileTokenFresh) /\ OneFetchPerToken
=============================================================================
