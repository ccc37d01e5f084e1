------------------------------ MODULE LogSink -------------------------------
(* The log lines of a work item in the database. Every driver run has its   *)
(* own writer and batcher task. The driver and the output relays of its     *)
(* steps share the writer: each stamps a line, appends it to a file and     *)
(* then sends it to an unbounded channel, so that lines of two tasks may    *)
(* be sent in another order than they were stamped. The batcher gathers up  *)
(* to BatchSize lines or what came within the flush interval, and writes    *)
(* them in one transaction. A failed flush drops its lines; an hourly pass  *)
(* purges old ones.                                                         *)
EXTENDS Integers, Sequences, FiniteSets, SequencesExt

CONSTANTS
    Writers,        \* driver runs of one work item
    LogTasks,       \* tasks that share the writer of a run: the driver, relays
    BatchSize,      \* BATCH_SIZE
    Retention,      \* retention in clock units; 0 keeps everything
    MaxSends,       \* bound: lines a writer sends
    MaxClock        \* bound: milliseconds that pass

ASSUME LogAssumption ==
    /\ BatchSize \in Nat \ {0} /\ {Retention, MaxSends, MaxClock} \subseteq Nat

VARIABLES
    lgNow,       \* the clock
    lgOpen,      \* [Writers -> BOOLEAN]: a LogSink clone is alive
    lgPend,      \* [Writers -> [LogTasks -> {} or {stamp}]]: a line stamped and not sent yet
    lgSent,      \* [Writers -> Nat]: lines sent
    lgChan,      \* [Writers -> Seq(line)]
    lgBuf,       \* [Writers -> Seq(line)]: the batcher's buffer
    lgPc,        \* [Writers -> "idle", "linger", "flush", "last", "gone"]
    lgRows,      \* work_item_log_lines: the lines with their ids
    lgNextId,    \* the id AUTOINCREMENT gives out next
    lgDropped    \* observation: lines of failed flushes and purged lines

lgTable == <<lgRows, lgNextId>>
lgVars == <<lgNow, lgOpen, lgPend, lgSent, lgChan, lgBuf, lgPc, lgTable, lgDropped>>

LogInit ==
    /\ lgNow = 0 /\ lgRows = {} /\ lgNextId = 1 /\ lgDropped = {}
    /\ lgOpen = [w \in Writers |-> TRUE] /\ lgSent = [w \in Writers |-> 0]
    /\ lgChan = [w \in Writers |-> << >>] /\ lgBuf = [w \in Writers |-> << >>]
    /\ lgPc = [w \in Writers |-> "idle"] /\ lgPend = [w \in Writers |-> [t \in LogTasks |-> {}]]

Pending(w) == {t \in LogTasks : lgPend[w][t] # {}}

(* write, write_step and write_output: the time is taken, then the file is   *)
(* appended to,                                                              *)
StampLine(w, t) ==
    /\ lgOpen[w] /\ lgPend[w][t] = {} /\ lgSent[w] + Cardinality(Pending(w)) < MaxSends
    /\ lgPend' = [lgPend EXCEPT ![w][t] = {lgNow}]
    /\ UNCHANGED <<lgNow, lgOpen, lgSent, lgChan, lgBuf, lgPc, lgTable, lgDropped>>

(* and only then is the line sent.                                           *)
EmitToSink(w, t) ==
    /\ \E at \in lgPend[w][t] :
          lgChan' = [lgChan EXCEPT ![w] = Append(@, [w |-> w, by |-> t, n |-> lgSent[w] + 1, at |-> at])]
    /\ lgSent' = [lgSent EXCEPT ![w] = @ + 1] /\ lgPend' = [lgPend EXCEPT ![w][t] = {}]
    /\ UNCHANGED <<lgNow, lgOpen, lgBuf, lgPc, lgTable, lgDropped>>

(* The last task that held the writer drops it.                              *)
DropSink(w) ==
    /\ lgOpen[w] /\ Pending(w) = {} /\ lgOpen' = [lgOpen EXCEPT ![w] = FALSE]
    /\ UNCHANGED <<lgNow, lgPend, lgSent, lgChan, lgBuf, lgPc, lgTable, lgDropped>>

(* The first line of a batch and what else sits in the channel. *)
GatherBatch(w) ==
    /\ lgPc[w] = "idle" /\ lgChan[w] # << >>
    /\ LET n == IF Len(lgChan[w]) < BatchSize THEN Len(lgChan[w]) ELSE BatchSize
           rest == SubSeq(lgChan[w], n + 1, Len(lgChan[w])) IN
         /\ lgBuf' = [lgBuf EXCEPT ![w] = SubSeq(lgChan[w], 1, n)]
         /\ lgChan' = [lgChan EXCEPT ![w] = rest]
         /\ lgPc' = [lgPc EXCEPT ![w] = CASE n = BatchSize -> "flush"
                                          [] n < BatchSize /\ ~lgOpen[w] -> "last"
                                          [] OTHER -> "linger"]
    /\ UNCHANGED <<lgNow, lgOpen, lgPend, lgSent, lgTable, lgDropped>>

Straggler(w) ==
    /\ lgPc[w] = "linger" /\ lgChan[w] # << >>
    /\ lgBuf' = [lgBuf EXCEPT ![w] = Append(@, Head(lgChan[w]))]
    /\ lgChan' = [lgChan EXCEPT ![w] = Tail(@)]
    /\ lgPc' = [lgPc EXCEPT ![w] = IF Len(lgBuf[w]) + 1 >= BatchSize THEN "flush" ELSE @]
    /\ UNCHANGED <<lgNow, lgOpen, lgPend, lgSent, lgTable, lgDropped>>

(* A batcher that only a full batch or the end of its writer makes flush. *)
FlushDueNever(w) == FALSE /\ UNCHANGED lgVars

(* The flush interval is over, *)
FlushDue(w) ==
    /\ lgPc[w] = "linger" /\ lgPc' = [lgPc EXCEPT ![w] = "flush"]
    /\ UNCHANGED <<lgNow, lgOpen, lgPend, lgSent, lgChan, lgBuf, lgTable, lgDropped>>

(* A batcher that exits when the senders are gone without a last flush. *)
SendersGoneNoFlush(w) ==
    /\ lgPc[w] \in {"idle", "linger"} /\ lgChan[w] = << >> /\ ~lgOpen[w]
    /\ lgPc' = [lgPc EXCEPT ![w] = "gone"] /\ lgBuf' = [lgBuf EXCEPT ![w] = << >>]
    /\ UNCHANGED <<lgNow, lgOpen, lgPend, lgSent, lgChan, lgTable, lgDropped>>

(* or every sender is gone. *)
SendersGone(w) ==
    /\ lgPc[w] \in {"idle", "linger"} /\ lgChan[w] = << >> /\ ~lgOpen[w]
    /\ lgPc' = [lgPc EXCEPT ![w] = "last"]
    /\ UNCHANGED <<lgNow, lgOpen, lgPend, lgSent, lgChan, lgBuf, lgTable, lgDropped>>

RowAt(i, l) == [id |-> i, w |-> l.w, by |-> l.by, n |-> l.n, at |-> l.at]
Line(r) == [w |-> r.w, by |-> r.by, n |-> r.n, at |-> r.at]

(* One transaction: all lines or none; the buffer is cleared either way. *)
FlushBatch(w, ok) ==
    /\ lgPc[w] \in {"flush", "last"}
    /\ IF ok
       THEN /\ lgRows' = lgRows \cup {RowAt(lgNextId + i - 1, lgBuf[w][i]) : i \in DOMAIN lgBuf[w]}
            /\ lgNextId' = lgNextId + Len(lgBuf[w]) /\ UNCHANGED lgDropped
       ELSE lgDropped' = lgDropped \cup ToSet(lgBuf[w]) /\ UNCHANGED lgTable
    /\ lgBuf' = [lgBuf EXCEPT ![w] = << >>]
    /\ lgPc' = [lgPc EXCEPT ![w] = IF @ = "last" THEN "gone" ELSE "idle"]
    /\ UNCHANGED <<lgNow, lgOpen, lgPend, lgSent, lgChan>>

(* The hourly retention pass *)
PurgeOldLines ==
    /\ Retention > 0
    /\ LET old == {r \in lgRows : r.at < lgNow - Retention} IN
         /\ old # {} /\ lgRows' = lgRows \ old
         /\ lgDropped' = lgDropped \cup {Line(r) : r \in old}
    /\ UNCHANGED <<lgNow, lgOpen, lgPend, lgSent, lgChan, lgBuf, lgPc, lgNextId>>

LogClock ==
    /\ lgNow < MaxClock /\ lgNow' = lgNow + 1
    /\ UNCHANGED <<lgOpen, lgPend, lgSent, lgChan, lgBuf, lgPc, lgTable, lgDropped>>

BatcherStep(w) ==
    GatherBatch(w) \/ Straggler(w) \/ FlushDue(w) \/ SendersGone(w) \/ \E ok \in BOOLEAN : FlushBatch(w, ok)

LogNext ==
    \/ \E w \in Writers : DropSink(w) \/ BatcherStep(w)
    \/ \E w \in Writers, t \in LogTasks : StampLine(w, t) \/ EmitToSink(w, t)
    \/ PurgeOldLines \/ LogClock

LogSpec == LogInit /\ [][LogNext]_lgVars /\ \A w \in Writers : WF_lgVars(BatcherStep(w))

-----------------------------------------------------------------------------
FetchesByIdOnly(r, s) == r.id < s.id

(* fetch_log_lines shows r above s: ORDER BY emitted_at, id *)
FetchesBefore(r, s) == r.at < s.at \/ (r.at = s.at /\ r.id < s.id)

(* What the log view shows is in the order of the stamps across the driver   *)
(* runs, whose batchers flush independently, and a task's own lines are      *)
(* never swapped or shown twice.  Nothing of the kind holds of two tasks     *)
(* that share a writer: of lines of one millisecond the one sent first comes *)
(* first (fetch_log_lines, run_batcher).                                     *)
LogInOrder ==
    \A r, s \in lgRows : r # s =>
        /\ FetchesBefore(r, s) \/ FetchesBefore(s, r)
        /\ FetchesBefore(r, s) => r.at <= s.at /\ (r.w = s.w /\ r.by = s.by => r.n < s.n)

(* No line is lost silently: every line a writer sent is in exactly one of   *)
(* the channel, the buffer, the table and the lines a failed flush or the    *)
(* retention pass removed, also when the writers are dropped.                *)
Places(w, n) ==
    {<<"channel", i>> : i \in {j \in DOMAIN lgChan[w] : lgChan[w][j].n = n}}
    \cup {<<"buffer", i>> : i \in {j \in DOMAIN lgBuf[w] : lgBuf[w][j].n = n}}
    \cup {<<"table", r.id>> : r \in {s \in lgRows : s.w = w /\ s.n = n}}
    \cup {<<"removed", l.at>> : l \in {m \in lgDropped : m.w = w /\ m.n = n}}
LineAccounted ==
    \A w \in Writers : \A n \in 1..lgSent[w] : \E p \in Places(w, n) : Places(w, n) = {p}

(* Every line leaves the channel and the buffer: a short batch is flushed    *)
(* also when no other line ever comes (FLUSH_INTERVAL).                      *)
Unsettled(w) == lgChan[w] # << >> \/ lgBuf[w] # << >>
LogSettles == \A w \in Writers : Unsettled(w) ~> ~Unsettled(w)

(* What is logged is shown in order, each line once.                        *)
LogSafe == LogInOrder /\ LineAccounted

=============================================================================
