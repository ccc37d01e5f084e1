---------------------------- MODULE LoginLimits ----------------------------
(***************************************************************************)
(* What the clock decides for one account: the lockout of login and        *)
(* recover (login_attempts), and how long a session cookie is honoured     *)
(* (validate_db_session).  The failures are counted by one query and the   *)
(* outcome of an attempt is recorded by another, with the verification of  *)
(* the password between them; a session is read by one query and extended  *)
(* by another.  Other requests, and the clock, move in between.            *)
(***************************************************************************)
EXTENDS Integers, FiniteSets

CONSTANTS
    Threshold,  \* LOCKOUT_THRESHOLD
    Window,     \* LOCKOUT_WINDOW_SECS
    MinRetry,   \* the least Retry-After, 60 seconds
    IdleTtl,    \* SESSION_IDLE_TTL_SECS
    AbsTtl,     \* SESSION_ABSOLUTE_TTL_SECS
    Extend,     \* SESSION_EXTEND_THRESHOLD_SECS
    Latency,    \* how long the statement that extends a session may take
    Calls,      \* requests that can be in flight at once
    MaxTime     \* bound on the clock

ASSUME LimitsAssumption ==
    /\ {Threshold, Window, MinRetry, IdleTtl, AbsTtl, Extend, MaxTime} \subseteq Nat \ {0}
    /\ Latency \in Nat
    /\ Latency <= Extend /\ Extend < IdleTtl /\ IdleTtl < AbsTtl
    /\ IsFiniteSet(Calls)

VARIABLES
    now,    \* now_unix
    fails,  \* [Kinds -> SUBSET Failure], rows of login_attempts with success = 0
    row,    \* the row of the session the model follows
    call,   \* [Calls -> Call]
    seen    \* when the last request that was accepted with the session came in

limitsVars == <<now, fails, row, call, seen>>

Kinds == {"password", "recovery"}
SessionRow == [st : {"none", "live", "gone"}, made : Nat, touched : Nat, until : Nat]
Gone == [st |-> "gone", made |-> 0, touched |-> 0, until |-> 0]
Call == [pc : {"idle", "verify", "extend"}, kind : Kinds, at : Nat]
NoCall == [pc |-> "idle", kind |-> "password", at |-> 0]

(* Mutant of InWindow: the window is closed on the left.                   *)
InWindowClosed(k, t) == {f \in fails[k] : f.at >= t - Window}

(* failed_count_in_window and oldest_failure_ts_in_window, at time t.      *)
InWindow(k, t) == {f \in fails[k] : f.at > t - Window}
FailedCount(k, t) == Cardinality(InWindow(k, t))
Oldest(k, t) == CHOOSE a \in {f.at : f \in InWindow(k, t)} :
                    \A f \in InWindow(k, t) : a <= f.at
Larger(a, b) == IF a > b THEN a ELSE b
RetryAfter(k, t) == Larger(Oldest(k, t) + Window - t, MinRetry)
(* Mutant of Locked: one more failure is let through.                      *)
LockedLate(k, t) == FailedCount(k, t) > Threshold

Locked(k, t) == FailedCount(k, t) >= Threshold

(* There may be a session from before created_at_unix was a column (0).    *)
LimitsInit ==
    /\ now = 1 /\ fails = [k \in Kinds |-> {}] /\ seen = 1
    /\ row \in {[Gone EXCEPT !.st = "none"],
                 [st |-> "live", made |-> 0, touched |-> 0, until |-> IdleTtl]}
    /\ call = [r \in Calls |-> NoCall]

Goto(r, new) == call' = [call EXCEPT ![r] = new]

(* Statements answer in time, so the clock does not outrun them.  A row    *)
(* that has left the window is never counted again and is forgotten.       *)
Tick ==
    /\ now < MaxTime /\ now' = now + 1
    /\ \A r \in Calls : call[r].pc = "extend" => now - call[r].at < Latency
    /\ fails' = [k \in Kinds |-> InWindow(k, now + 1)]
    /\ UNCHANGED <<row, call, seen>>

(* login or recover up to the verification: 429 when the account is locked.*)
Attempt(r, k) ==
    /\ call[r].pc = "idle" /\ ~Locked(k, now)
    /\ Goto(r, [NoCall EXCEPT !.pc = "verify", !.kind = k])
    /\ UNCHANGED <<now, fails, row, seen>>

(* The password or the code was wrong: record_attempt.                     *)
NewId(k) == CHOOSE i \in 1 .. Cardinality(fails[k]) + 1 : \A f \in fails[k] : f.id # i
Fail(r) ==
    LET k == call[r].kind
    IN  /\ call[r].pc = "verify" /\ Goto(r, NoCall)
        /\ fails' = [fails EXCEPT ![k] = @ \cup {[at |-> now, id |-> NewId(k)]}]
        /\ UNCHANGED <<now, row, seen>>

(* Mutant of NewSession: the expiry has the wrong sign.                    *)
NewSessionExpired == [st |-> "live", made |-> now, touched |-> now, until |-> now - IdleTtl]

(* It was right: the failures of this kind are cleared; a login creates    *)
(* the session the model follows, a recovery deletes every session.        *)
NewSession == [st |-> "live", made |-> now, touched |-> now, until |-> now + IdleTtl]
Succeed(r) ==
    LET k == call[r].kind
    IN  /\ call[r].pc = "verify" /\ Goto(r, NoCall)
        /\ fails' = [fails EXCEPT ![k] = {}]
        /\ IF k = "password" /\ row.st = "none" THEN row' = NewSession /\ seen' = now
           ELSE IF k = "recovery" /\ row.st = "live" THEN row' = Gone /\ UNCHANGED seen
           ELSE UNCHANGED <<row, seen>>
        /\ UNCHANGED now

(* unlock_user, clear_attempts: the rows of both kinds.                    *)
Unlock ==
    /\ \E k \in Kinds : fails[k] # {}
    /\ fails' = [k \in Kinds |-> {}]
    /\ UNCHANGED <<now, row, call, seen>>

(* Mutant of TooOld: measured from the last extension.                     *)
TooOldByUse(t) == row.made > 0 /\ t - row.touched > AbsTtl

(* validate_db_session: past the absolute TTL the row is deleted, past the *)
(* idle TTL it is refused; otherwise the request is accepted, at once or,  *)
(* when the row was touched long enough ago, after it has been extended.   *)
TooOld(t) == row.made > 0 /\ t - row.made > AbsTtl
Idle(t) == row.until <= t
(* Mutant of Stale: the age of the session decides.                        *)
StaleByAge(t) == t - row.made > IdleTtl

Stale(t) == t - row.touched > Extend
Validate(r) ==
    /\ call[r].pc = "idle" /\ row.st = "live"
    /\ IF TooOld(now) THEN row' = Gone /\ UNCHANGED <<call, seen>>
       ELSE /\ ~Idle(now) /\ UNCHANGED row
            /\ IF Stale(now)
               THEN Goto(r, [NoCall EXCEPT !.pc = "extend", !.at = now]) /\ UNCHANGED seen
               ELSE seen' = now /\ UNCHANGED call
    /\ UNCHANGED <<now, fails>>
(* Mutant of ExtendSession: the row is inserted when it is missing.        *)
ExtendUpsert(r) ==
    LET t == call[r].at
    IN  /\ call[r].pc = "extend" /\ Goto(r, NoCall)
        /\ seen' = Larger(seen, t)
        /\ row' = [row EXCEPT !.st = "live", !.touched = t, !.until = t + IdleTtl]
        /\ UNCHANGED <<now, fails>>

ExtendSession(r) ==
    LET t == call[r].at
    IN  /\ call[r].pc = "extend" /\ Goto(r, NoCall)
        /\ seen' = Larger(seen, t)
        /\ row' = IF row.st = "live" THEN [row EXCEPT !.touched = t, !.until = t + IdleTtl]
                   ELSE row
        /\ UNCHANGED <<now, fails>>

(* logout, a password change, a suspension: the row is deleted.            *)
EndSession == row.st = "live" /\ row' = Gone /\ UNCHANGED <<now, fails, call, seen>>

LimitsNext ==
    \/ Tick \/ Unlock \/ EndSession
    \/ \E r \in Calls : Fail(r) \/ Succeed(r) \/ Validate(r) \/ ExtendSession(r)
                           \/ \E k \in Kinds : Attempt(r, k)

LimitsSpec == LimitsInit /\ [][LimitsNext]_limitsVars

----------------------------------------------------------------------------
LimitsTypeOK ==
    /\ now \in 1 .. MaxTime /\ seen \in 1 .. MaxTime
    /\ fails \in [Kinds -> SUBSET [at : Nat, id : Nat]]
    /\ row \in SessionRow /\ call \in [Calls -> Call]

(* Attempts that passed the lockout check together can overrun it, but     *)
(* only by the requests in flight: the failures of a window stay below the *)
(* threshold plus the number of requests served at once.                   *)
Verifying(k) == {r \in Calls : call[r].pc = "verify" /\ call[r].kind = k}
LockoutBounded ==
    \A k \in Kinds : FailedCount(k, now) + Cardinality(Verifying(k))
                         < Threshold + Cardinality(Calls)

(* A client that was locked out at the threshold and waits for Retry-After *)
(* finds the account unlocked, if nothing else failed meanwhile.           *)
RetryAfterSuffices ==
    \A k \in Kinds : FailedCount(k, now) = Threshold
                         => ~Locked(k, now + RetryAfter(k, now))

(* A session that is used is honoured: within the idle TTL, less the       *)
(* interval at which the row is written, after an accepted request the     *)
(* cookie still works, though extensions race and may be written in the    *)
(* wrong order.                                                            *)
UsedSessionsKept ==
    row.st = "live" /\ now - seen < IdleTtl - Extend => ~Idle(now)

(* No request is accepted with a session older than the absolute TTL.      *)
SessionsCapped == row.st = "live" /\ row.made > 0 => seen - row.made <= AbsTtl

(* A session that was ended does not come back, though an extension that   *)
(* was decided before may be written after.                                *)
EndedForGood == [][row.st = "gone" => row'.st = "gone"]_limitsVars

(* Login attempts and session lifetimes, as one property: a lockout is     *)
(* overrun by requests in flight only, Retry-After suffices, sessions that *)
(* are used last, and none is used beyond its cap or comes back.           *)
LimitsSafe ==
    /\ [](LimitsTypeOK /\ LockoutBounded /\ RetryAfterSuffices
              /\ UsedSessionsKept /\ SessionsCapped)
    /\ EndedForGood
=============================================================================
