------------------------------- MODULE LogTree -------------------------------
(***************************************************************************)
(* The loggers a program derives from one another with With, FilterKeys,   *)
(* WithContext, WithCallerDepth, AddCallerDepth, FilterLevel and Disable,  *)
(* while the configuration and the hook change between the calls           *)
(* (pkg/log/logger.go).  One call at a time; LogUpdate interleaves them.   *)
(***************************************************************************)
EXTENDS LogLayers

CONSTANTS
    Fields,         \* fields With can add
    FilterNames,    \* keys FilterKeys can hide
    Contexts,       \* contexts WithContext can attach
    Levels,         \* levels a logger or a configuration can ask for
    CanDisable,     \* whether Disable is called
    MaxLoggers,     \* bound: how many loggers there are
    MaxUpdates,     \* bound: how many configurations follow one another
    MaxDepth        \* bound: the caller depth

VARIABLES
    clock,          \* time.Now, advanced by each reading of it
    global,         \* *globalLogger
    hook,           \* the hook: how many fields, last change
    loggers,        \* every logger the program holds
    arrays,         \* the backing arrays of the kv slices, [cap, elems]
    forked          \* With has extended one slice twice (ghost)

vars == <<clock, global, hook, loggers, arrays, forked>>

NoLevel == -1

\* A slice is the first len elements of its backing array; array 1 is empty
\* and stands for nil.
Contents(arrs, kv) == SubSeq(arrs[kv.arr].elems, 1, kv.len)

\* NewLogger: the hook exists, Update(nil) has run, the cache is built.
Init ==
    /\ clock = 3
    /\ hook = [n |-> 0, ts |-> 1]
    /\ \E hasCaller \in BOOLEAN, level \in Levels :
         global = [gen |-> 1, ts |-> 2, level |-> level, hooks |-> 0, hasCaller |-> hasCaller]
    /\ arrays = <<[cap |-> 0, elems |-> <<>>]>>
    /\ LET nil == [arr |-> 1, len |-> 0]
           l == [filter |-> {}, depth |-> 0, kv |-> nil, ctx |-> NoCtx]
           cache == BuildCache(l, <<>>, <<>>, global, hook, <<>>, clock)
       IN  loggers = <<[disable |-> FALSE, level |-> NoLevel, filter |-> {}, depth |-> 0,
                        kv |-> nil, ctx |-> NoCtx, cache |-> cache,
                        asked |-> <<>>, deaf |-> FALSE]>>
    /\ forked = FALSE

-----------------------------------------------------------------------------
\* The end of every deriving method: buildCache on the copy l, return it.  A
\* disabled copy keeps the cache of the logger it was copied from (deaf, ghost).
Rebuilt(l, arrs, now) ==
    IF l.disable
    THEN [l EXCEPT !.deaf = TRUE]
    ELSE LET ll == [l EXCEPT !.depth = Depth(l, global), !.deaf = FALSE]
         IN  [ll EXCEPT !.cache = BuildCache(ll, Contents(arrs, ll.kv),
                            Contents(arrs, l.cache.kv), global, hook, l.cache, now)]

Derive(l) ==
    /\ Len(loggers) < MaxLoggers
    /\ clock' = clock + 1
    /\ loggers' = Append(loggers, Rebuilt(l, arrays, clock'))
    /\ UNCHANGED <<global, hook, arrays, forked>>

\* append(ll.kv, kv...): into the backing array while it has room, over what
\* another append has put there; into a new one of twice the capacity otherwise.
Appended(kv, f) ==
    LET array == arrays[kv.arr]
        elems == IF kv.len < Len(array.elems)
                 THEN [array.elems EXCEPT ![kv.len + 1] = f]
                 ELSE Append(array.elems, f)
    IN  IF kv.len < array.cap
        THEN [arrays |-> [arrays EXCEPT ![kv.arr].elems = elems],
              kv |-> [arr |-> kv.arr, len |-> kv.len + 1]]
        ELSE [arrays |-> Append(arrays, [cap |-> IF kv.len = 0 THEN 1 ELSE 2 * kv.len,
                                         elems |-> elems]),
              kv |-> [arr |-> Len(arrays) + 1, len |-> kv.len + 1]]

With(i, f) ==
    LET l == loggers[i]
        result == Appended(l.kv, f)
        ll == [l EXCEPT !.kv = result.kv, !.asked = Append(@, f)]
    IN  /\ Len(loggers) < MaxLoggers
        /\ clock' = clock + 1
        /\ arrays' = result.arrays
        /\ loggers' = Append(loggers, Rebuilt(ll, arrays', clock'))
        /\ forked' = (forked \/ l.kv.len < Len(arrays[l.kv.arr].elems))
        /\ UNCHANGED <<global, hook>>

FilterKeys(i, name) == Derive([loggers[i] EXCEPT !.filter = @ \cup {name}])

WithContext(i, ctx) == Derive([loggers[i] EXCEPT !.ctx = ctx])

WithCallerDepth(i, d) == Derive([loggers[i] EXCEPT !.depth = d])

\* Depth 1 stands for the default depth that an undecided logger adds to.
AddCallerDepth(i) ==
    LET depth == IF loggers[i].depth = 0 THEN 2 ELSE loggers[i].depth + 1
    IN  depth <= MaxDepth /\ Derive([loggers[i] EXCEPT !.depth = depth])

\* FilterLevel and Disable copy the logger with its cache.
FilterLevel(i, level) ==
    /\ Len(loggers) < MaxLoggers
    /\ loggers' = Append(loggers, [loggers[i] EXCEPT !.level = level])
    /\ UNCHANGED <<clock, global, hook, arrays, forked>>

Disable(i, disable) ==
    /\ CanDisable
    /\ Len(loggers) < MaxLoggers
    /\ loggers' = Append(loggers, [loggers[i] EXCEPT !.disable = disable])
    /\ UNCHANGED <<clock, global, hook, arrays, forked>>

-----------------------------------------------------------------------------
Update(hasCaller, level) ==
    /\ global.gen < MaxUpdates
    /\ clock' = clock + 1
    /\ global' = [gen |-> global.gen + 1, ts |-> clock', level |-> level,
                  hooks |-> hook.n, hasCaller |-> hasCaller]
    /\ UNCHANGED <<hook, loggers, arrays, forked>>

HookWith ==
    /\ hook.n < MaxHooks
    /\ clock' = clock + 1
    /\ hook' = [n |-> hook.n + 1, ts |-> clock']
    /\ UNCHANGED <<global, loggers, arrays, forked>>

\* The early returns of Log.
Passes(l, level) ==
    /\ ~l.disable
    /\ IF l.level # NoLevel THEN level >= l.level ELSE level >= global.level

\* Log as far as it changes the logger: a stale cache is rebuilt.
Log(i, level) ==
    LET l == loggers[i]
    IN  /\ Passes(l, level)
        /\ Stale(l.cache, global, hook)
        /\ clock' = clock + 1
        /\ loggers' = [loggers EXCEPT ![i] = Rebuilt(l, arrays, clock')]
        /\ UNCHANGED <<global, hook, arrays, forked>>

Next ==
    \/ \E i \in DOMAIN loggers :
         \/ \E f \in Fields : With(i, f)
         \/ \E name \in FilterNames : FilterKeys(i, name)
         \/ \E ctx \in Contexts : WithContext(i, ctx)
         \/ \E d \in 1..MaxDepth : WithCallerDepth(i, d)
         \/ AddCallerDepth(i)
         \/ \E level \in Levels : FilterLevel(i, level)
         \/ \E disable \in BOOLEAN : Disable(i, disable)
         \/ \E level \in Levels : Log(i, level)
    \/ \E hasCaller \in BOOLEAN, level \in Levels : Update(hasCaller, level)
    \/ HookWith

Spec == Init /\ [][Next]_vars

-----------------------------------------------------------------------------
\* What a record logged through logger i is given: Log rebuilds a stale cache
\* before it writes through it.
Effective(l) ==
    IF Stale(l.cache, global, hook) THEN Rebuilt(l, arrays, clock + 1).cache.out ELSE l.cache.out

\* The variables and the loggers keep their types; no slice is longer than
\* its array, no time is in the future (logger.go:51-99).
TypeOK ==
    /\ clock \in Nat /\ forked \in BOOLEAN
    /\ global.gen \in 1..MaxUpdates /\ global.ts <= clock /\ global.hooks <= hook.n
    /\ hook.n \in 0..MaxHooks /\ hook.ts <= clock
    /\ \A i \in DOMAIN loggers :
         LET l == loggers[i]
         IN  /\ l.disable \in BOOLEAN /\ l.level \in {NoLevel} \cup Levels
             /\ l.filter \subseteq FilterNames /\ l.depth \in 0..MaxDepth
             /\ l.ctx \in {NoCtx} \cup Contexts
             /\ l.kv.len <= Len(arrays[l.kv.arr].elems)
             /\ l.cache.ts <= clock /\ l.cache.out.gen \in 1..MaxUpdates
    /\ \A a \in DOMAIN arrays : Len(arrays[a].elems) <= arrays[a].cap

\* An enabled logger, however it was derived, writes to the sinks of the
\* configuration in force and with every hook field the last Update found.  A
\* field given to the hook since then is on every record of a logger that
\* filters keys or sets the caller depth; the hook promises it for all records
\* (hook.go:12, 26 and 113), but one with neither, or only derived from such a
\* one by With or WithContext, reuses the layers of the last Update and may
\* miss it (the tests of logger.go:176 and 396, the fast path of 378).
FreshGeneration ==
    \A i \in DOMAIN loggers : ~loggers[i].disable =>
        LET out == Effective(loggers[i])
        IN  /\ out.gen = global.gen
            /\ \A h \in 1..global.hooks : out.hooks[h] > 0
            /\ out.filter # {} \/ out.depth # 0 => \A h \in 1..hook.n : out.hooks[h] > 0

\* An enabled logger writes its own fields, filter and caller depth, whatever
\* was derived in between, as long as no slice of fields has been extended twice
\* (by With on a logger, or on copies of it that share its slice) and it was not
\* disabled while they changed (the incremental rebuild of buildCache).
OwnSettings ==
    \A i \in DOMAIN loggers :
        LET l == loggers[i]
            out == Effective(l)
        IN  (~l.disable /\ ~l.deaf /\ ~forked) =>
                /\ out.kv = l.asked
                /\ out.filter = l.filter
                /\ global.hasCaller => out.depth = l.depth

\* The comment of logger.go:83-84 and the interface (logger.go:21-22): With
\* returns a new instance and leaves the others as they are, so every enabled
\* logger writes exactly the fields it was given.
AskedFields ==
    \A i \in DOMAIN loggers : ~loggers[i].disable =>
        Effective(loggers[i]).kv = loggers[i].asked

\* The comments of logger.go:364 and 414: a changed context rebuilds layer 4, so a
\* logger writes with the context it was given.
ContextFollows ==
    \A i \in DOMAIN loggers : ~loggers[i].disable =>
        Effective(loggers[i]).ctx = loggers[i].ctx
=============================================================================
