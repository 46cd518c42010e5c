------------------------------ MODULE JobReports ------------------------------
(***************************************************************************)
(* What is reported of a run of a job: the middlewares of                  *)
(* pkg/job/middleware.go nest, from the outside, recovery, tracing,        *)
(* metrics and logging around the body.  All runs of all jobs share the    *)
(* instruments of otel/metrics.go and the one logger variable of           *)
(* logging.go; which runs overlap is up to the policies and the ticks.     *)
(***************************************************************************)
EXTENDS Integers, FiniteSets

CONSTANTS
    Jobs,
    Runs,
    NoRun,
    MaxReloads      \* bound: how often the configuration or the hook changes

VARIABLES
    jobOf,          \* the job each run is of
    pc,             \* where the middlewares of each run are
    err,            \* the error the deferred functions of each run see
    spans,          \* runs with a span that has not ended
    total,          \* cron_job_runs_total{job, status}
    gauge,          \* cron_job_running{job}
    log,            \* the shared logger, named by the run that derived it
    version,        \* of the configuration and the hook
    seen,           \* the version each logger's cache was built for
    top,            \* the run whose context each logger's cached top layer adds
    lines,          \* <<run, which line, whose context>> of every line logged
    met             \* runs that were under way at the same time (ghost)

metricVars == <<total, gauge>>
cacheVars == <<version, seen, top>>
logVars == <<log, cacheVars, lines>>
vars == <<jobOf, pc, err, spans, metricVars, logVars, met>>

Statuses == {"success", "failure"}
States == {"none", "span", "metrics", "derived", "logger", "body", "ended", "logged", "counted",
           "reported", "done"}

\* NoRun stands for the logger NewMiddleware was given, which has no context.
Loggers == Runs \cup {NoRun}
UnderWay == {r \in Runs : pc[r] \notin {"none", "done"}}

TypeOK ==
    /\ jobOf \in [Runs -> Jobs]
    /\ pc \in [Runs -> States]
    /\ err \in [Runs -> {"nil", "error"}]
    /\ spans \subseteq Runs
    /\ total \in [Jobs -> [Statuses -> 0..Cardinality(Runs)]]
    /\ gauge \in [Jobs -> {-1, 0, 1}]
    /\ log \in Loggers
    /\ version \in 0..MaxReloads
    /\ seen \in [Loggers -> 0..MaxReloads] /\ top \in [Loggers -> Loggers]
    /\ lines \subseteq Runs \X {"start", "done"} \X Loggers
    /\ met \subseteq Runs \X Runs

Init ==
    /\ jobOf \in [Runs -> Jobs]
    /\ pc = [r \in Runs |-> "none"]
    /\ err = [r \in Runs |-> "nil"]
    /\ spans = {}
    /\ total = [j \in Jobs |-> [s \in Statuses |-> 0]]
    /\ gauge = [j \in Jobs |-> 0]
    /\ log = NoRun
    /\ version = 0
    /\ seen = [l \in Loggers |-> 0] /\ top = [l \in Loggers |-> NoRun]
    /\ lines = {}
    /\ met = {}

Goto(r, from, to) == pc[r] = from /\ pc' = [pc EXCEPT ![r] = to]

\* tracing: RecordStart.
RecordStart(r) ==
    /\ Goto(r, "none", "span")
    /\ spans' = spans \cup {r}
    /\ met' = met \cup (UnderWay \X {r}) \cup ({r} \X UnderWay)
    /\ UNCHANGED <<jobOf, err, metricVars, logVars>>

\* metrics: ReportStart records the value 1.
ReportStart(r) ==
    /\ Goto(r, "span", "metrics")
    /\ gauge' = [gauge EXCEPT ![jobOf[r]] = 1]
    /\ UNCHANGED <<jobOf, err, spans, total, logVars, met>>

\* An update of the configuration or a field for the hook: every cache of a
\* logger is out of date from now on.
Reload ==
    /\ version < MaxReloads
    /\ version' = version + 1
    /\ UNCHANGED <<jobOf, pc, err, spans, metricVars, log, seen, top, lines, met>>

\* logging: log.WithContext(ctx) copies the shared logger.  The copy keeps the
\* cached top layer, with the context that has, unless it is out of date.
DeriveLogger(r) ==
    /\ Goto(r, "metrics", "derived")
    /\ top' = [top EXCEPT ![r] = IF seen[log] = version THEN top[log] ELSE r]
    /\ seen' = [seen EXCEPT ![r] = version]
    /\ UNCHANGED <<jobOf, err, spans, metricVars, log, version, lines, met>>

\* Mutant: only the first run's logger is kept.
KeepLogger(r) ==
    /\ Goto(r, "derived", "logger")
    /\ log' = IF log = NoRun THEN r ELSE log
    /\ UNCHANGED <<jobOf, err, spans, metricVars, cacheVars, lines, met>>

\* The copy is assigned to the variable that every run of every job shares.
AssignLogger(r) ==
    /\ Goto(r, "derived", "logger")
    /\ log' = r
    /\ UNCHANGED <<jobOf, err, spans, metricVars, cacheVars, lines, met>>

\* The line before the body is written through the cache of the shared logger;
\* one that is out of date is rebuilt first and then adds that logger's context.
LogStart(r) ==
    /\ Goto(r, "logger", "body")
    /\ top' = [top EXCEPT ![log] = IF seen[log] = version THEN @ ELSE log]
    /\ seen' = [seen EXCEPT ![log] = version]
    /\ lines' = lines \cup {<<r, "start", top'[log]>>}
    /\ UNCHANGED <<jobOf, err, spans, metricVars, log, version, met>>

\* The body returns an error or nil, or panics: the deferred functions run
\* either way, and a panic leaves their err nil.
BodyEnds(r) ==
    /\ Goto(r, "body", "ended")
    /\ \E e \in {"nil", "error"} : err' = [err EXCEPT ![r] = e]
    /\ UNCHANGED <<jobOf, spans, metricVars, logVars, met>>

\* The line after it has a field more, so that the top layer is built anew, with
\* the context of the logger that is shared by then.
LogDone(r) ==
    /\ Goto(r, "ended", "logged")
    /\ lines' = lines \cup {<<r, "done", log>>}
    /\ UNCHANGED <<jobOf, err, spans, metricVars, log, cacheVars, met>>

Status(r) == IF err[r] = "nil" THEN "success" ELSE "failure"

\* metrics: ReportDone counts the run and then records the value -1.
ReportDone(r) ==
    /\ Goto(r, "logged", "counted")
    /\ total' = [total EXCEPT ![jobOf[r]][Status(r)] = @ + 1]
    /\ UNCHANGED <<jobOf, err, spans, gauge, logVars, met>>

ReportRunning(r) ==
    /\ Goto(r, "counted", "reported")
    /\ gauge' = [gauge EXCEPT ![jobOf[r]] = -1]
    /\ UNCHANGED <<jobOf, err, spans, total, logVars, met>>

\* tracing: RecordEnd.  Recovery, around all of it, ends a panicking run without
\* an error, too.
RecordEnd(r) ==
    /\ Goto(r, "reported", "done")
    /\ spans' = spans \ {r}
    /\ UNCHANGED <<jobOf, err, metricVars, logVars, met>>

RunStep(r) ==
    \/ RecordStart(r) \/ ReportStart(r) \/ DeriveLogger(r) \/ AssignLogger(r) \/ LogStart(r)
    \/ BodyEnds(r) \/ LogDone(r) \/ ReportDone(r) \/ ReportRunning(r) \/ RecordEnd(r)

Next == Reload \/ \E r \in Runs : RunStep(r)

Spec == Init /\ [][Next]_vars

-----------------------------------------------------------------------------
\* The line that ends a run carries its own context or, because the logger is
\* shared, that of a run that was under way at the same time: never that of a
\* run that was over (logging.go:15-23).  The line before the body carries no
\* context, or for good that of the run whose logger was rebuilt after a reload.
EndLinesOfTheTime ==
    \A line \in lines : line[2] = "done" =>
        line[1] = line[3] \/ <<line[1], line[3]>> \in met

\* What otel/metrics.go:31 and :130 say of the gauge, that it is the number of
\* running jobs: with no run of a job under way it is back to 0.
GaugeCounts ==
    \A j \in Jobs : (\A r \in UnderWay : jobOf[r] # j) => gauge[j] = 0
=============================================================================
