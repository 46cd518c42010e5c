------------------------------ MODULE MCServers ------------------------------
(***************************************************************************)
(* One run for what kratos starts and stops: the job server, the life of   *)
(* the application and the reports of the runs are independent state       *)
(* machines here; a behaviour is one of the first of them, chosen at the   *)
(* start, while the variables of the others keep their initial values.     *)
(***************************************************************************)
EXTENDS JobServer

CONSTANTS Hooks, Runs, NoRun, MaxReloads

VARIABLES
    part,           \* the state machine of this behaviour
    disabled, delayed, run, called, failure, signal, root, group, registry,
    start, stop, stopper,
    jobOf, rpc, err, spans, total, gauge, log, version, seen, top, lines, met

App == INSTANCE AppLifecycle
Reports == INSTANCE JobReports WITH pc <- rpc

appVars == <<disabled, delayed, run, called, failure, signal, root, group, registry,
             start, stop, stopper>>
reportVars == <<jobOf, rpc, err, spans, total, gauge, log, version, seen, top,
               lines, met>>
allVars == <<part, vars, appVars, reportVars>>

\* Jobs that differ in their policies, HTTP and gRPC servers that differ in
\* being disabled: one state stands for those that exchange them.
Rank == [SERVER |-> 0, OVERLAP |-> 1, DELAY |-> 2, SKIP |-> 3]

Ordered ==
    /\ \A i, j \in Jobs : i < j => Rank[policy[i]] < Rank[policy[j]]
    /\ "grpc" \in disabled => "http" \in disabled
    /\ delayed \/ disabled = {"http"}

Inits ==
    /\ part \in {"jobs", "app", "reports"}
    /\ Init /\ (part # "jobs" => \A j \in Jobs : policy[j] \in {"SERVER", "OVERLAP"})
    /\ App!Init /\ (part # "app" => disabled = {})
    /\ Ordered
    /\ Reports!Init /\ (part # "reports" => jobOf = [r \in Runs |-> CHOOSE j \in Jobs : TRUE])

NextPart ==
    \/ part = "jobs" /\ Next /\ UNCHANGED <<part, appVars, reportVars>>
    \/ part = "app" /\ App!Next /\ UNCHANGED <<part, vars, reportVars>>
    \/ part = "reports" /\ Reports!Next /\ UNCHANGED <<part, vars, appVars>>

\* The fairness of the job server and of the application, each asked where it
\* is the chosen one (a disjunction of them would double the work of TLC).
JobsFairness ==
    /\ WF_vars(part = "jobs" /\ StopStep)
    /\ \A j \in Jobs, n \in RunIds : WF_vars(part = "jobs" /\ Proceed(j, n))

AppFairness ==
    /\ WF_appVars(part = "app" /\ App!CancelRoot)
    /\ WF_appVars(part = "app" /\ App!RunStep)
    /\ WF_appVars(part = "app" /\ App!StopperStep)
    /\ \A s \in App!Servers : WF_appVars(part = "app" /\ App!ServerStep(s))

Parts ==
    /\ Inits /\ [][NextPart]_allVars
    /\ JobsFairness /\ AppFairness

\* The types of every part.
TypesOK == TypeOK /\ App!TypeOK /\ Reports!TypeOK

\* Hooks run when their stage says (hook.go:74 and 102).
HookOrder == App!HookOrder
\* A signal or a failed server ends App.Run (graceful_shutdown.go:24-34).
RunEnds == App!RunEnds
\* The line that ends a run carries the context of a run of its time
\* (logging.go:15-23).
EndLinesOfTheTime == Reports!EndLinesOfTheTime
=============================================================================
