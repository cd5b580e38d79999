------------------------------- MODULE UsageLog -------------------------------
(***************************************************************************)
(* The record every finished request leaves: a line in the usage log of    *)
(* the day (UsageRecorder), a count in the chart kept in memory            *)
(* (UsageAggregator), and a trace with its attempts in traces.db           *)
(* (RequestTracer::finalize, TraceStore).                                  *)
(*                                                                         *)
(* Time is a number of days.  Hour and day buckets are kept by one         *)
(* function, so the chart has one kind of bucket.  A record is taken to    *)
(* weigh 1 in every total.                                                 *)
(***************************************************************************)
EXTENDS Naturals, FiniteSets, FiniteSetsExt, SequencesExt, Subsequences

CONSTANTS
    RetentionDays,  \* RETENTION_DAYS: what a start reads back
    DayBuckets,     \* DAY_BUCKETS
    FlushEvery,     \* USAGE_FLUSH_EVERY_RECORDS
    Retentions,     \* values an administrator gives usage_log_retention_days
    MaxDay,         \* bound of the model
    MaxRecords      \* bound of the model: requests ever recorded

VARIABLES
    day,
    log,            \* lines of the files: [n, ts, file], file a date
    writer,         \* RecorderState: [date, lines, pending]; date 0 is None
    retention,      \* retention_days
    buckets,        \* day_buckets: day -> calls, 0 where there is no bucket
    traces,         \* table traces: [n, ts]
    attempts,       \* table trace_attempts: [n, ok]
    recorded,       \* requests recorded so far
    unlogged,       \* history: records in the chart whose line was not written
    erased          \* history: no file before this date is left

vars == <<day, log, writer, retention, buckets, traces, attempts, recorded, unlogged, erased>>

Days == 1 .. MaxDay
Closed == [date |-> 0, lines |-> {}, pending |-> 0]

-----------------------------------------------------------------------------
\* Mutant: the bucket that was just filled is the one dropped.
UpsertDroppingNewest(b, rec) ==
    LET c == [b EXCEPT ![rec.ts] = @ + 1]
        live == {d \in Days : c[d] > 0}
    IN  IF Cardinality(live) > DayBuckets THEN [c EXCEPT ![Max(live)] = 0] ELSE c

\* upsert_bucket: with too many buckets the oldest one goes.
UpsertBucket(b, rec) ==
    LET c == [b EXCEPT ![rec.ts] = @ + 1]
        live == {d \in Days : c[d] > 0}
    IN  IF Cardinality(live) > DayBuckets THEN [c EXCEPT ![Min(live)] = 0] ELSE c

NoBuckets == [d \in Days |-> 0]

\* The orders in which the lines can be read: the files in the order of the
\* directory, each from its first line to its last.
Readings(lines) ==
    {s \in SetToSeqs(lines) : \A i, k \in DOMAIN s :
        i < k /\ s[i].file = s[k].file =>
            s[i].n < s[k].n /\ \A j \in i .. k : s[j].file = s[i].file}

\* rebuild_from_logs.
Rebuilt(reading) ==
    LET rebuilt[n \in 0 .. Len(reading)] ==
            IF n = 0 THEN NoBuckets ELSE UpsertBucket(rebuilt[n - 1], reading[n])
    IN rebuilt[Len(reading)]

\* query_timeseries, query_by_model, query_by_credential and overview sum the
\* buckets that are not older than the range.
Chart(range) == Total([d \in Days |-> IF d + range >= day THEN buckets[d] ELSE 0])

-----------------------------------------------------------------------------
\* UsageRecorder::record: a new day opens a new file, and dropping the writer of
\* the day before writes what it still held.  Lines reach the file when enough
\* are pending or the last flush was long ago.  writable is FALSE when the file
\* cannot be opened.
RecordLine(rec, writable) ==
    LET opening == writer.date # day
        held    == IF opening THEN {} ELSE writer.lines
        lines   == held \cup {rec}
        pending == writer.pending + 1
    IN  IF opening /\ ~writable
        THEN UNCHANGED <<log, writer>>
        ELSE \E late \in BOOLEAN :
               IF late \/ pending >= FlushEvery
               THEN /\ log' = log \cup lines \cup writer.lines
                    /\ writer' = [date |-> day, lines |-> {}, pending |-> 0]
               ELSE /\ log' = IF opening THEN log \cup writer.lines ELSE log
                    /\ writer' = [date |-> day, lines |-> lines, pending |-> pending]

\* TraceStore::insert: the trace and its attempts in one transaction; stored is
\* FALSE when tracing is off or SQLite fails.
InsertTrace(n, ts, stored) ==
    IF stored
    THEN /\ traces' = traces \cup {[n |-> n, ts |-> ts]}
         /\ attempts' = attempts \cup {[n |-> n, ok |-> ok] : ok \in BOOLEAN}
    ELSE UNCHANGED <<traces, attempts>>

\* The end of a request: UsageRecordHook::record and RequestTracer::finalize.
\* The record may carry a time just before midnight when it is written after.
Record(ts, writable, stored) ==
    LET rec == [n |-> recorded, ts |-> ts, file |-> day]
    IN  /\ recorded < MaxRecords
        /\ recorded' = recorded + 1
        /\ ts \in {day, day - 1} \cap Days
        /\ RecordLine(rec, writable)
        /\ unlogged' = IF rec \in log' \cup writer'.lines THEN unlogged ELSE unlogged \cup {rec}
        /\ buckets' = UpsertBucket(buckets, rec)
        /\ InsertTrace(recorded, ts, stored)
        /\ UNCHANGED <<day, retention, erased>>

-----------------------------------------------------------------------------
\* TraceStore::cleanup, one transaction.
CleanupTraces(cutoff) ==
    /\ traces' = {t \in traces : t.ts >= cutoff}
    /\ attempts' = {a \in attempts : \E t \in traces' : t.n = a.n}

\* UsageRecorder::cleanup_old_logs.  A writer of a deleted file goes on
\* writing to it, and what it writes is gone.
CleanupOldLogs(cutoff) ==
    /\ log' = {rec \in log : rec.file >= cutoff}
    /\ writer' = IF writer.date >= cutoff THEN writer ELSE [writer EXCEPT !.lines = {}]
    /\ erased' = IF cutoff > erased THEN cutoff ELSE erased

Before(days) == IF day > days THEN day - days ELSE 0

\* The daily task of main.
Cleanup ==
    /\ CleanupOldLogs(Before(retention))
    /\ CleanupTraces(Before(retention))
    /\ UNCHANGED <<day, retention, buckets, recorded, unlogged>>

\* set_retention_days, from the settings page.
SetRetention(d) ==
    /\ retention' = d
    /\ UNCHANGED <<day, log, writer, buckets, traces, attempts, recorded, unlogged, erased>>

-----------------------------------------------------------------------------
NextDay ==
    /\ day < MaxDay
    /\ day' = day + 1
    /\ UNCHANGED <<log, writer, retention, buckets, traces, attempts, recorded, unlogged, erased>>

\* The process ends, by process::exit or a crash, with lines in the writer.
Restart ==
    /\ \E reading \in Readings({rec \in log : rec.file >= Before(RetentionDays)}) :
         buckets' = Rebuilt(reading)
    /\ writer' = Closed
    /\ unlogged' = {}
    /\ UNCHANGED <<day, log, retention, traces, attempts, recorded, erased>>

Init ==
    /\ day = 1 /\ log = {} /\ writer = Closed
    /\ retention \in Retentions
    /\ buckets = NoBuckets
    /\ traces = {} /\ attempts = {}
    /\ recorded = 0 /\ unlogged = {} /\ erased = 0

Next ==
    \/ \E ts \in Days, writable, stored \in BOOLEAN : Record(ts, writable, stored)
    \/ \E d \in Retentions : SetRetention(d)
    \/ Cleanup \/ NextDay \/ Restart

Spec == Init /\ [][Next]_vars
-----------------------------------------------------------------------------
\* The lines of the days a range covers: in a file, in the writer or, for lack
\* of a file, only in the chart.
LinesOf(range) == {rec \in log \cup writer.lines \cup unlogged : rec.ts + range >= day}

\* The chart agrees with the log: a range that has buckets and that no cleanup
\* touched counts every line of it once, whichever file the line went to, after
\* any number of restarts, days without traffic and changes of the retention.
\* And no attempt is counted against a credential for a trace that is gone.
\* (record, ingest, upsert_bucket, rebuild_from_logs, cleanup_old_logs,
\* failure_stats.)
ChartMatchesLog ==
    /\ \A range \in 0 .. DayBuckets - 1 :
         day >= erased + range => Chart(range) = Cardinality(LinesOf(range))
    /\ {a.n : a \in attempts} \subseteq {t.n : t \in traces}
=============================================================================
