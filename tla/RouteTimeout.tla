---------------------------- MODULE RouteTimeout -----------------------------
(***************************************************************************)
(* internal/middleware/timeout: which timeout a request gets.  The routes  *)
(* are compiled once into a map of paths and a tree of prefixes; a request *)
(* is looked up in both.  A path is a sequence of letters, a timeout a     *)
(* number of seconds, 0 for one that is missing or not positive.           *)
(***************************************************************************)
EXTENDS Integers, Sequences, SequencesExt

CONSTANTS
    Paths,          \* what the routes of a configuration name, "" included
    Operations,     \* what is requested
    MaxRoutes       \* bound: the length of a configuration

VARIABLES
    side,           \* "server" or "client"
    routes,         \* the routes of the configuration
    fallback,       \* its default
    operation,      \* the last request, <<>> for one without a transport
    timeout         \* what it was given, 0 before the first request

vars == <<side, routes, fallback, operation, timeout>>

\* Timeouts differ, so that the answer tells which route gave it.
Routes(i) == [kind : {"path", "prefix"}, key : Paths, timeout : {0, 10 + i}]

Configurations(n) ==
    {rs \in [1..n -> UNION {Routes(i) : i \in 1..n}] : \A i \in 1..n : rs[i] \in Routes(i)}

TypeOK ==
    /\ side \in {"server", "client"}
    /\ DOMAIN routes \subseteq 1..MaxRoutes /\ \A i \in DOMAIN routes : routes[i] \in Routes(i)
    /\ fallback \in {0, 5}
    /\ operation \in Operations \cup {<<>>}
    /\ timeout \in Nat /\ (operation # <<>> => timeout > 0)

Init ==
    /\ side \in {"server", "client"}
    /\ \E n \in 0..MaxRoutes : routes \in Configurations(n)
    /\ fallback \in {0, 5}
    /\ operation = <<>> /\ timeout = 0

\* table[key] = seconds
Put(table, key, seconds) ==
    [k \in DOMAIN table \cup {key} |-> IF k = key THEN seconds ELSE table[k]]

\* One turn of the loop over the routes; a later route replaces an earlier one.
Insert(tables, r) ==
    IF r.timeout <= 0 \/ r.key = <<>>
    THEN tables
    ELSE [tables EXCEPT ![r.kind] = Put(@, r.key, r.timeout)]

\* pathHash and tree.
Tables ==
    LET filled[i \in 0..Len(routes)] ==
            IF i = 0 THEN [path |-> <<>>, prefix |-> <<>>]
            ELSE Insert(filled[i - 1], routes[i])
    IN  filled[Len(routes)]

\* Mutant: the shortest prefix.
ShortestPrefix(tree, op) ==
    CHOOSE p \in DOMAIN tree :
        IsPrefix(p, op) /\ \A q \in DOMAIN tree : IsPrefix(q, op) => Len(p) <= Len(q)

LongestPrefix(tree, op) ==
    CHOOSE p \in DOMAIN tree :
        IsPrefix(p, op) /\ \A q \in DOMAIN tree : IsPrefix(q, op) => Len(q) <= Len(p)

DefaultTimeout == IF fallback > 0 THEN fallback ELSE IF side = "server" THEN 1 ELSE 2

\* A request to op that carries its transport.
TimeoutOf(op) ==
    LET tables == Tables
    IN  IF op \in DOMAIN tables.path THEN tables.path[op]
        ELSE IF \E p \in DOMAIN tables.prefix : IsPrefix(p, op)
             THEN tables.prefix[LongestPrefix(tables.prefix, op)]
             ELSE DefaultTimeout

Request(op) ==
    /\ timeout = 0
    /\ operation' = op
    /\ timeout' = TimeoutOf(op)
    /\ UNCHANGED <<side, routes, fallback>>

RequestOutside ==
    /\ timeout = 0
    /\ timeout' = DefaultTimeout
    /\ UNCHANGED <<side, routes, fallback, operation>>

Next == RequestOutside \/ \E op \in Operations : Request(op)

Spec == Init /\ [][Next]_vars

-----------------------------------------------------------------------------
Matches(r) ==
    /\ r.timeout > 0
    /\ r.key # <<>>
    /\ IF r.kind = "path" THEN r.key = operation ELSE IsPrefix(r.key, operation)

\* Route i counts more than route j: middleware.proto promises path over
\* prefix, the code adds the longer prefix and the later of two equal routes.
Over(i, j) ==
    \/ routes[i].kind = "path" /\ routes[j].kind = "prefix"
    \/ routes[i].kind = routes[j].kind /\ Len(routes[i].key) > Len(routes[j].key)
    \/ routes[i].kind = routes[j].kind /\ routes[i].key = routes[j].key /\ i > j

\* A request gets the timeout of the one matching route no other counts more
\* than, whatever the order of the routes and the invalid ones among them, and
\* the default only if no route matches (timeout.go:44-101).
MostSpecific ==
    timeout > 0 /\ operation # <<>> =>
        LET matching == {i \in DOMAIN routes : Matches(routes[i])}
        IN  \/ \E i \in matching :
                 /\ \A j \in matching \ {i} : Over(i, j)
                 /\ timeout = routes[i].timeout
            \/ matching = {} /\ timeout = DefaultTimeout
=============================================================================
