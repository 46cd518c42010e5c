------------------------------ MODULE LogUpdate ------------------------------
(***************************************************************************)
(* Goroutines that log through one shared logger while its configuration   *)
(* is replaced (Log, buildCache and Update of pkg/log/logger.go).  The     *)
(* atomic values global, release and cache are read and written in steps   *)
(* of their own, and so is the clock.  A generation stands for what one    *)
(* Update built.  Its release function closes a plain file; it only syncs  *)
(* a rotating one, which goes on taking records.                           *)
(***************************************************************************)
EXTENDS Integers, FiniteSets

CONSTANTS
    Threads,        \* goroutines that log
    MaxUpdates      \* bound: how many configurations follow one another

ASSUME UpdateAssumption == MaxUpdates \in Nat \ {0}

VARIABLES
    clock,          \* time.Now, advanced by each reading of it
    global,         \* the configuration in force, [gen, ts]
    release,        \* the generation whose release function is stored
    released,       \* how often that of each generation has been called
    plain,          \* the generations that write to a plain file
    shut,           \* the cleanup function of NewLogger has been called
    cache,          \* the logger's cache, [gen, ts]
    pc,             \* where each goroutine is
    view,           \* what a goroutine has read: [global, base, cache, gen, ts]
    upc,            \* where Update is
    new,            \* the generation Update builds, and its time
    raced           \* a rebuild overlapped the end of an Update (ghost)

logVars == <<cache, pc, view>>
updateVars == <<global, release, released, plain, shut, upc, new>>
vars == <<clock, logVars, updateVars, raced>>

Config == [gen : 1..MaxUpdates, ts : Nat]

Rebuilding == {"compare", "stamp", "store"}

TypeOK ==
    /\ clock \in Nat
    /\ global \in Config /\ cache \in Config /\ cache.ts <= clock
    /\ release \in 1..MaxUpdates /\ released \in [1..MaxUpdates -> Nat]
    /\ plain \subseteq 1..MaxUpdates /\ shut \in BOOLEAN
    /\ pc \in [Threads -> {"idle", "check", "load", "reload", "write"} \cup Rebuilding]
    /\ view \in [Threads -> [global : Config, base : Config, cache : Config,
                             gen : 1..MaxUpdates, ts : Nat]]
    /\ upc \in {"idle", "release", "close", "stamp", "store"}
    /\ new \in [gen : 1..MaxUpdates, ts : Nat, old : 1..MaxUpdates]
    /\ raced \in BOOLEAN

\* NewLogger has returned: Update(nil) is in force and the cache is built.
Init ==
    LET first == [gen |-> 1, ts |-> 1]
        built == [gen |-> 1, ts |-> 2]
    IN  /\ clock = 2
        /\ global = first /\ release = 1 /\ cache = built
        /\ released = [g \in 1..MaxUpdates |-> 0]
        /\ plain \in SUBSET {1} /\ shut = FALSE
        /\ pc = [t \in Threads |-> "idle"]
        /\ view = [t \in Threads |-> [global |-> first, base |-> first, cache |-> built,
                                      gen |-> 1, ts |-> 2]]
        /\ upc = "idle" /\ new = [gen |-> 1, ts |-> 1, old |-> 1]
        /\ raced = FALSE

Goto(t, from, to) == pc[t] = from /\ pc' = [pc EXCEPT ![t] = to]

-----------------------------------------------------------------------------
\* Log: load the configuration, then the cache, and rebuild a stale cache.
LoadGlobal(t) ==
    /\ Goto(t, "idle", "check")
    /\ view' = [view EXCEPT ![t].global = global]
    /\ UNCHANGED <<clock, cache, updateVars, raced>>

\* Mutant: the times are compared the wrong way round.
FreshReversed(c, g) == c.ts <= g.ts \/ c.gen = g.gen

Fresh(c, g) == c.ts >= g.ts

LoadCache(t) ==
    /\ Goto(t, "check", IF Fresh(cache, view[t].global) THEN "write" ELSE "load")
    /\ view' = [view EXCEPT ![t].cache = cache]
    /\ UNCHANGED <<clock, cache, updateVars, raced>>

\* buildCache: load the configuration again, reuse the cached layers if they
\* are newer or build from the configuration, read the clock, store.
LoadBase(t) ==
    /\ Goto(t, "load", "compare")
    /\ view' = [view EXCEPT ![t].base = global]
    /\ raced' = (raced \/ upc = "store")
    /\ UNCHANGED <<clock, cache, updateVars>>

Compare(t) ==
    /\ Goto(t, "compare", "stamp")
    /\ view' = [view EXCEPT ![t].gen =
                   IF cache.ts > view[t].base.ts THEN cache.gen ELSE view[t].base.gen]
    /\ UNCHANGED <<clock, cache, updateVars, raced>>

\* Mutant: the time of the cache is set ahead of the clock.
StampAhead(t) ==
    /\ Goto(t, "stamp", "store")
    /\ clock' = clock + 1
    /\ view' = [view EXCEPT ![t].ts = clock + 2]
    /\ UNCHANGED <<cache, updateVars, raced>>

StampCache(t) ==
    /\ Goto(t, "stamp", "store")
    /\ clock' = clock + 1
    /\ view' = [view EXCEPT ![t].ts = clock']
    /\ UNCHANGED <<cache, updateVars, raced>>

StoreCache(t) ==
    /\ Goto(t, "store", "reload")
    /\ cache' = [gen |-> view[t].gen, ts |-> view[t].ts]
    /\ UNCHANGED <<clock, view, updateVars, raced>>

Reload(t) ==
    /\ Goto(t, "reload", "write")
    /\ view' = [view EXCEPT ![t].cache = cache]
    /\ UNCHANGED <<clock, cache, updateVars, raced>>

Write(t) ==
    /\ Goto(t, "write", "idle")
    /\ UNCHANGED <<clock, cache, view, updateVars, raced>>

-----------------------------------------------------------------------------
\* NewFileLogger: Update opens the file of the next generation, plain or (the
\* default) rotating; a plain one may fail to open, and then nothing changes.
Open ==
    /\ upc = "idle" /\ ~shut
    /\ global.gen < MaxUpdates
    /\ upc' = "release"
    /\ new' = [new EXCEPT !.gen = global.gen + 1]
    /\ plain' \in {plain, plain \cup {global.gen + 1}}
    /\ UNCHANGED <<clock, global, release, released, shut, logVars, raced>>

\* Mutant: the release function is read and not replaced.
SwapLoadOnly ==
    /\ upc = "release"
    /\ upc' = "close"
    /\ new' = [new EXCEPT !.old = release]
    /\ UNCHANGED <<clock, global, release, released, plain, shut, logVars, raced>>

\* release.Swap.
SwapRelease ==
    /\ upc = "release"
    /\ upc' = "close"
    /\ new' = [new EXCEPT !.old = release]
    /\ release' = new.gen
    /\ UNCHANGED <<clock, global, released, plain, shut, logVars, raced>>

CallRelease(g) == released' = [released EXCEPT ![g] = @ + 1]

\* Mutant: the new generation is released instead of the one it replaces.
ReleaseNew ==
    /\ upc = "close"
    /\ upc' = "stamp"
    /\ CallRelease(release)
    /\ UNCHANGED <<clock, global, release, plain, shut, new, logVars, raced>>

ReleaseOld ==
    /\ upc = "close"
    /\ upc' = "stamp"
    /\ CallRelease(new.old)
    /\ UNCHANGED <<clock, global, release, plain, shut, new, logVars, raced>>

Overlapped == \E t \in Threads : pc[t] \in Rebuilding

StampGlobal ==
    /\ upc = "stamp"
    /\ upc' = "store"
    /\ clock' = clock + 1
    /\ new' = [new EXCEPT !.ts = clock']
    /\ raced' = (raced \/ Overlapped)
    /\ UNCHANGED <<global, release, released, plain, shut, logVars>>

StoreGlobal ==
    /\ upc = "store"
    /\ upc' = "idle"
    /\ global' = [gen |-> new.gen, ts |-> new.ts]
    /\ raced' = (raced \/ Overlapped)
    /\ UNCHANGED <<clock, release, released, plain, shut, new, logVars>>

\* The cleanup function of NewLogger, which the program calls last.
CleanUp ==
    /\ upc = "idle" /\ ~shut
    /\ shut' = TRUE
    /\ CallRelease(release)
    /\ UNCHANGED <<clock, global, release, plain, upc, new, logVars, raced>>

-----------------------------------------------------------------------------
LogStep(t) ==
    \/ LoadGlobal(t) \/ LoadCache(t)
    \/ LoadBase(t) \/ Compare(t) \/ StampCache(t) \/ StoreCache(t)
    \/ Reload(t) \/ Write(t)

UpdateStep ==
    Open \/ SwapRelease \/ ReleaseOld \/ StampGlobal \/ StoreGlobal \/ CleanUp

Next == UpdateStep \/ \E t \in Threads : LogStep(t)

Spec == Init /\ [][Next]_vars

-----------------------------------------------------------------------------
\* The release functions: whenever no Update is under way each generation that
\* has been replaced was released once, the one in force not at all, or once by
\* the cleanup, which therefore leaves nothing unreleased and releases nothing
\* twice (logger.go:574-593 and 146-148).
ReleasedOnce ==
    upc = "idle" => \A g \in 1..MaxUpdates :
        released[g] = IF g < global.gen \/ (shut /\ g = global.gen) THEN 1 ELSE 0

\* A record goes to the configuration its Log call loaded or to a later one,
\* unless a rebuild of the cache overlapped the end of an Update (Log and
\* buildCache, logger.go:168-178 and 371-461).
FreshWrites ==
    ~raced => \A t \in Threads :
        pc[t] = "write" => view[t].cache.gen >= view[t].global.gen

\* Whether records still reach the sinks: a plain file takes them until it is
\* closed, a rotating file always.
Takes(g) == g \in plain => released[g] = 0

\* A cache that Log will use again reaches sinks that take records once the
\* Update is over, under the same condition and until the cleanup: no record
\* is then written to a closed file.
SettledSinks ==
    (~raced /\ upc = "idle" /\ ~shut /\ Fresh(cache, global)) => Takes(cache.gen)

\* The comment of logger.go:70: the time of the cache is that of the
\* configuration it was built from and tells whether it is valid, so a cache
\* that passes the test of Log is one of the configuration in force.
ValidCache ==
    (upc = "idle" /\ Fresh(cache, global)) => cache.gen = global.gen
=============================================================================
