------------------------------- MODULE MCSafety ------------------------------
(***************************************************************************)
(* One run for the models that have safety properties only: one logger     *)
(* step by step while the configuration is replaced, the tree of derived   *)
(* loggers, the named instruments, and the two lookups of a request.  They *)
(* are independent state machines; a behaviour is one of them, chosen at   *)
(* the start, while the variables of the others keep their initial values. *)
(***************************************************************************)
EXTENDS LogUpdate

CONSTANTS
    Fields, FilterNames, Contexts, NoCtx, Levels, CanDisable,
    MaxLoggers, MaxTreeUpdates, MaxHooks, MaxDepth,
    Names, MaxInstruments,
    Paths, Operations, MaxRoutes,
    MaxNodes

VARIABLES
    part,           \* the state machine of this behaviour
    treeClock, treeGlobal, hook, loggers, arrays, forked,
    kind, invalid, table, made, instPc, name, inst, got,
    side, routes, fallback, operation, timeout,
    appEnv, protocol, version, nodes, asked, picked

Tree == INSTANCE LogTree WITH
    MaxUpdates <- MaxTreeUpdates, clock <- treeClock, global <- treeGlobal
Metrics == INSTANCE Instruments WITH pc <- instPc
Route == INSTANCE RouteTimeout
Filters == INSTANCE NodeFilters

MCPaths == {<<>>, <<"a">>, <<"a", "b">>}
MCOperations == {<<"a">>, <<"b">>, <<"a", "b">>, <<"a", "b", "c">>}

treeVars == <<treeClock, treeGlobal, hook, loggers, arrays, forked>>
metricVars == <<kind, invalid, table, made, instPc, name, inst, got>>
routeVars == <<side, routes, fallback, operation, timeout>>
filterVars == <<appEnv, protocol, version, nodes, asked, picked>>
allVars == <<part, vars, treeVars, metricVars, routeVars, filterVars>>

\* The parts that do not run have one initial state.
Pinned ==
    /\ part # "update" => plain = {}
    /\ \/ part = "metrics"
       \/ part # "metrics" /\ kind = "gauge" /\ invalid = {}
          /\ name = [t \in Threads |-> CHOOSE n \in Names : TRUE]
    /\ \/ part = "route"
       \/ part # "route" /\ side = "server" /\ routes = <<>> /\ fallback = 0
    /\ \/ part = "filters"
       \/ part # "filters" /\ appEnv = "prod" /\ protocol = "grpc" /\ version = "" /\ nodes = <<>>

Inits ==
    /\ part \in {"update", "tree", "metrics", "route", "filters"}
    /\ Pinned
    /\ Tree!Init /\ (part # "tree" => treeGlobal.hasCaller /\ treeGlobal.level = 0)
    /\ Init /\ Metrics!Init /\ Route!Init /\ Filters!Init

NextPart ==
    \/ /\ part = "update" /\ Next
       /\ UNCHANGED <<part, treeVars, metricVars, routeVars, filterVars>>
    \/ /\ part = "tree" /\ Tree!Next
       /\ UNCHANGED <<part, vars, metricVars, routeVars, filterVars>>
    \/ /\ part = "metrics" /\ Metrics!Next
       /\ UNCHANGED <<part, vars, treeVars, routeVars, filterVars>>
    \/ /\ part = "route" /\ Route!Next
       /\ UNCHANGED <<part, vars, treeVars, metricVars, filterVars>>
    \/ /\ part = "filters" /\ Filters!Next
       /\ UNCHANGED <<part, vars, treeVars, metricVars, routeVars>>

Parts == Inits /\ [][NextPart]_allVars

\* The types of every part.
TypesOK == TypeOK /\ Tree!TypeOK /\ Metrics!TypeOK /\ Route!TypeOK /\ Filters!TypeOK

\* A logger writes with the configuration in force (logger.go:176 and 396).
FreshGeneration == Tree!FreshGeneration
\* A logger writes with its own filter, depth and fields (logger.go:365-461).
OwnSettings == Tree!OwnSettings
\* The registry of instruments is linearizable (metrics.go:100-153).
AtomicRegistry == Metrics!AtomicRegistry
\* A request gets the timeout of the most specific route (timeout.go:41-100).
MostSpecific == Route!MostSpecific
\* Exactly the matching nodes of the nearest class are left (env.go:11-42).
NearestClass == Filters!NearestClass
=============================================================================
