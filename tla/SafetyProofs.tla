----------------------------- MODULE SafetyProofs -----------------------------
(***************************************************************************)
(* Proofs about MCSafety: the logger that is used while its configuration  *)
(* is replaced (LogUpdate), here; and, through the proofs about LogTree    *)
(* and Instruments, what the run checks of the derived loggers and of the  *)
(* registry, for any values of the constants.                              *)
(*                                                                         *)
(* The inductive invariant of LogUpdate has two parts: how often  *)
(* the release function of each generation has been called at each step of *)
(* Update, and, as long as no rebuild has overlapped the end of an Update, *)
(* how the cache and what the goroutines have read relate to the           *)
(* configuration in force.                                                 *)
(***************************************************************************)
EXTENDS MCSafety, Sequences, WellFoundedInduction, TLAPS

\* The types of TypeOK, those of the sinks by themselves.
Typed ==
    /\ clock \in Nat
    /\ global \in Config /\ cache \in Config /\ cache.ts <= clock
    /\ pc \in [Threads -> {"idle", "check", "load", "reload", "write"} \cup Rebuilding]
    /\ view \in [Threads -> [global : Config, base : Config, cache : Config,
                             gen : 1..MaxUpdates, ts : Nat]]
    /\ upc \in {"idle", "release", "close", "stamp", "store"}
    /\ new \in [gen : 1..MaxUpdates, ts : Nat, old : 1..MaxUpdates]
    /\ release \in 1..MaxUpdates /\ raced \in BOOLEAN

SinkTypes ==
    /\ released \in [1..MaxUpdates -> Nat]
    /\ plain \subseteq 1..MaxUpdates /\ shut \in BOOLEAN

LEMMA Types == TypeOK <=> Typed /\ SinkTypes
BY DEF TypeOK, Typed, SinkTypes

\* The release function that is stored, and those that have been called, at
\* each step of Update and after the cleanup.
Gone(g) ==
    \/ g < global.gen
    \/ g = global.gen /\ (shut \/ upc \in {"stamp", "store"})

Sinks ==
    /\ upc # "idle" => new.gen = global.gen + 1 /\ ~shut
    /\ release = IF upc \in {"idle", "release"} THEN global.gen ELSE new.gen
    /\ upc = "close" => new.old = global.gen
    /\ \A g \in 1..MaxUpdates : released[g] = IF Gone(g) THEN 1 ELSE 0

\* Times that have been read from the clock are not ahead of it.
Times ==
    /\ \A t \in Threads : view[t].ts <= clock
    /\ (~raced /\ upc = "store") => cache.ts < new.ts

\* A rebuild works on the configuration in force and ends before the next one
\* is stamped.
Rebuild ==
    \A t \in Threads : pc[t] \in Rebuilding =>
        /\ view[t].base = global /\ upc # "store"
        /\ pc[t] \in {"stamp", "store"} => view[t].gen = global.gen

\* What the cache holds, for the configuration in force and for the one a
\* goroutine has loaded.
Valid == Fresh(cache, global) => cache.gen = global.gen

Loaded ==
    \A t \in Threads :
        /\ view[t].global.gen <= global.gen
        /\ Fresh(cache, view[t].global) => cache.gen >= view[t].global.gen
        /\ pc[t] = "reload" => cache.gen >= view[t].global.gen
        /\ pc[t] = "write" => view[t].cache.gen >= view[t].global.gen

Settled == Rebuild /\ Valid /\ Loaded

IInv == Typed /\ SinkTypes /\ Sinks /\ Times /\ (~raced => Settled)

Views == [global : Config, base : Config, cache : Config, gen : 1..MaxUpdates, ts : Nat]

LEMMA InitInv == Init => IInv
<1> SUFFICES ASSUME Init PROVE IInv
    OBVIOUS
<1> USE UpdateAssumption DEF Init
<1>1. Typed /\ SinkTypes
    <2>1. 1 \in 1..MaxUpdates /\ {1} \subseteq 1..MaxUpdates
        OBVIOUS
    <2>2. [gen |-> 1, ts |-> 1] \in Config /\ [gen |-> 1, ts |-> 2] \in Config
        BY <2>1 DEF Config
    <2>3. view \in [Threads -> Views]
        BY <2>1, <2>2 DEF Views
    <2>4. new \in [gen : 1..MaxUpdates, ts : Nat, old : 1..MaxUpdates]
        BY <2>1
    <2>5. cache \in Config /\ cache.ts <= clock /\ clock \in Nat
        BY <2>2
    <2>6. pc \in [Threads -> {"idle", "check", "load", "reload", "write"} \cup Rebuilding]
        OBVIOUS
    <2>8. SinkTypes
        BY <2>1 DEF SinkTypes
    <2>7. view \in [Threads -> [global : Config, base : Config, cache : Config,
                                gen : 1..MaxUpdates, ts : Nat]]
        BY <2>3 DEF Views
    <2> QED BY <2>1, <2>2, <2>4, <2>5, <2>6, <2>7, <2>8 DEF Typed
<1>2. Sinks /\ Times
    BY DEF Sinks, Gone, Times
<1>3. Settled
    BY DEF Settled, Rebuild, Valid, Loaded, Fresh, Rebuilding
<1> QED
    BY <1>1, <1>2, <1>3 DEF IInv

-----------------------------------------------------------------------------
\* What a step of a goroutine does to the goroutines' places and views.
LEMMA Moves ==
    ASSUME Typed, NEW t \in Threads, NEW from, NEW to, Goto(t, from, to)
    PROVE  /\ pc[t] = from
           /\ \A u \in Threads : pc'[u] = IF u = t THEN to ELSE pc[u]
BY DEF Typed, Goto

\* Fields of the views, each as its reading leaves it.
LEMMA ReadGlobal ==
    ASSUME Typed, NEW t \in Threads, LoadGlobal(t)
    PROVE  \A u \in Threads :
             /\ view'[u].global = IF u = t THEN global ELSE view[u].global
             /\ view'[u].base = view[u].base /\ view'[u].cache = view[u].cache
             /\ view'[u].gen = view[u].gen /\ view'[u].ts = view[u].ts
BY DEF Typed, LoadGlobal

LEMMA ReadCache ==
    ASSUME Typed, NEW t \in Threads, LoadCache(t) \/ Reload(t)
    PROVE  \A u \in Threads :
             /\ view'[u].cache = IF u = t THEN cache ELSE view[u].cache
             /\ view'[u].base = view[u].base /\ view'[u].global = view[u].global
             /\ view'[u].gen = view[u].gen /\ view'[u].ts = view[u].ts
BY DEF Typed, LoadCache, Reload

LEMMA ReadBase ==
    ASSUME Typed, NEW t \in Threads, LoadBase(t)
    PROVE  \A u \in Threads :
             /\ view'[u].base = IF u = t THEN global ELSE view[u].base
             /\ view'[u].cache = view[u].cache /\ view'[u].global = view[u].global
             /\ view'[u].gen = view[u].gen /\ view'[u].ts = view[u].ts
BY DEF Typed, LoadBase

LEMMA ChooseGen ==
    ASSUME Typed, NEW t \in Threads, Compare(t)
    PROVE  \A u \in Threads :
             /\ view'[u].gen = IF u # t THEN view[u].gen
                               ELSE IF cache.ts > view[t].base.ts THEN cache.gen
                               ELSE view[t].base.gen
             /\ view'[u].cache = view[u].cache /\ view'[u].global = view[u].global
             /\ view'[u].base = view[u].base /\ view'[u].ts = view[u].ts
BY DEF Typed, Compare

LEMMA ReadClock ==
    ASSUME Typed, NEW t \in Threads, StampCache(t)
    PROVE  \A u \in Threads :
             /\ view'[u].ts = IF u = t THEN clock + 1 ELSE view[u].ts
             /\ view'[u].cache = view[u].cache /\ view'[u].global = view[u].global
             /\ view'[u].base = view[u].base /\ view'[u].gen = view[u].gen
BY DEF Typed, StampCache

-----------------------------------------------------------------------------
LEMMA TypeStep == IInv /\ [Next]_vars => Typed'
<1> SUFFICES ASSUME IInv, [Next]_vars PROVE Typed'
    OBVIOUS
<1> USE UpdateAssumption DEF IInv, Typed
<1>1. CASE UpdateStep
    <2> USE DEF Config, logVars
    <2>1. CASE Open
        <3>1. global.gen + 1 \in 1..MaxUpdates
            BY <2>1 DEF Open
        <3>2. new' \in [gen : 1..MaxUpdates, ts : Nat, old : 1..MaxUpdates]
            BY <2>1, <3>1 DEF Open
        <3> QED BY <2>1, <3>1, <3>2 DEF Open
    <2>2. CASE SwapRelease
        BY <2>2 DEF SwapRelease
    <2>3. CASE ReleaseOld \/ CleanUp
        BY <2>3 DEF ReleaseOld, CleanUp
    <2>4. CASE StampGlobal
        <3>1. new' \in [gen : 1..MaxUpdates, ts : Nat, old : 1..MaxUpdates]
            BY <2>4 DEF StampGlobal
        <3> QED BY <2>4, <3>1 DEF StampGlobal
    <2>5. CASE StoreGlobal
        BY <2>5 DEF StoreGlobal
    <2> QED BY <1>1, <2>1, <2>2, <2>3, <2>4, <2>5 DEF UpdateStep
<1>2. ASSUME NEW t \in Threads, LogStep(t) PROVE Typed'
    <2>0. view[t] \in Views /\ view \in [Threads -> Views]
        BY DEF Views
    <2> USE DEF Goto, Rebuilding, updateVars
    <2>1. CASE LoadGlobal(t)
        <3>1. [view[t] EXCEPT !.global = global] \in Views
            BY <2>0 DEF Views
        <3>2. view' \in [Threads -> Views]
            BY <2>0, <2>1, <3>1 DEF LoadGlobal
        <3> QED BY <2>1, <3>2 DEF LoadGlobal, Views
    <2>2. CASE LoadCache(t) \/ Reload(t)
        <3>1. [view[t] EXCEPT !.cache = cache] \in Views
            BY <2>0 DEF Views
        <3>2. view' \in [Threads -> Views]
            BY <2>0, <2>2, <3>1 DEF LoadCache, Reload
        <3> QED BY <2>2, <3>2 DEF LoadCache, Reload, Views
    <2>3. CASE LoadBase(t)
        <3>1. [view[t] EXCEPT !.base = global] \in Views
            BY <2>0 DEF Views
        <3>2. view' \in [Threads -> Views]
            BY <2>0, <2>3, <3>1 DEF LoadBase
        <3> QED BY <2>3, <3>2 DEF LoadBase, Views
    <2>4. CASE Compare(t)
        <3>1. PICK g \in 1..MaxUpdates : view' = [view EXCEPT ![t].gen = g]
            BY <2>0, <2>4 DEF Compare, Views, Config
        <3>2. [view[t] EXCEPT !.gen = g] \in Views
            BY <2>0 DEF Views
        <3>3. view' \in [Threads -> Views]
            BY <2>0, <3>1, <3>2
        <3> QED BY <2>4, <3>3 DEF Compare, Views
    <2>5. CASE StampCache(t)
        <3>1. [view[t] EXCEPT !.ts = clock + 1] \in Views
            BY <2>0 DEF Views
        <3>2. view' \in [Threads -> Views]
            BY <2>0, <2>5, <3>1 DEF StampCache
        <3>3. cache.ts <= clock'
            BY <2>5 DEF StampCache, Config
        <3> QED BY <2>5, <3>2, <3>3 DEF StampCache, Views
    <2>6. CASE StoreCache(t)
        <3>1. cache' \in Config /\ cache'.ts <= clock
            BY <2>0, <2>6 DEF StoreCache, Views, Config, Times
        <3> QED BY <2>6, <3>1 DEF StoreCache
    <2>7. CASE Write(t)
        BY <2>7 DEF Write
    <2> QED BY <1>2, <2>1, <2>2, <2>3, <2>4, <2>5, <2>6, <2>7 DEF LogStep
<1>3. CASE UNCHANGED vars
    BY <1>3 DEF vars, logVars, updateVars
<1> QED
    BY <1>1, <1>2, <1>3 DEF Next

\* Calling a release function counts it.
LEMMA Called ==
    ASSUME SinkTypes, NEW g \in 1..MaxUpdates, CallRelease(g)
    PROVE  /\ released' \in [1..MaxUpdates -> Nat]
           /\ \A h \in 1..MaxUpdates :
                released'[h] = IF h = g THEN released[h] + 1 ELSE released[h]
BY DEF SinkTypes, CallRelease

LEMMA SinkTypesStep == IInv /\ [Next]_vars => SinkTypes'
<1> SUFFICES ASSUME IInv, [Next]_vars PROVE SinkTypes'
    OBVIOUS
<1> USE UpdateAssumption DEF IInv, Typed, SinkTypes, Config
<1>1. CASE Open
    BY <1>1 DEF Open
<1>2. CASE ReleaseOld \/ CleanUp
    <2>1. released' \in [1..MaxUpdates -> Nat]
        BY <1>2, Called DEF ReleaseOld, CleanUp
    <2> QED BY <1>2, <2>1 DEF ReleaseOld, CleanUp
<1>3. CASE UNCHANGED <<released, plain, shut>>
    BY <1>3
<1>4. SwapRelease \/ StampGlobal \/ StoreGlobal => UNCHANGED <<released, plain, shut>>
    BY DEF SwapRelease, StampGlobal, StoreGlobal
<1>5. ASSUME NEW t \in Threads, LogStep(t) PROVE UNCHANGED <<released, plain, shut>>
    BY <1>5 DEF LogStep, LoadGlobal, LoadCache, LoadBase, Compare, StampCache,
                StoreCache, Reload, Write, updateVars
<1> QED
    BY <1>1, <1>2, <1>3, <1>4, <1>5 DEF Next, UpdateStep, vars, updateVars

\* The sinks follow Update step by step; goroutines that log do not touch them.
LEMMA SinksStep == IInv /\ [Next]_vars => Sinks'
<1> SUFFICES ASSUME IInv, [Next]_vars PROVE Sinks'
    OBVIOUS
<1>1. CASE UpdateStep
    <2> USE UpdateAssumption DEF IInv, Typed, SinkTypes, Config, Sinks, Gone
    <2>1. CASE Open BY <2>1 DEF Open
    <2>2. CASE SwapRelease BY <2>2 DEF SwapRelease
    <2>3. CASE ReleaseOld
        <3>1. /\ upc = "close" /\ upc' = "stamp" /\ CallRelease(new.old) /\ new.old = global.gen
              /\ UNCHANGED <<global, release, shut, new>>
            BY <2>3 DEF ReleaseOld
        <3>2. \A g \in 1..MaxUpdates :
                released'[g] = IF g = global.gen THEN released[g] + 1 ELSE released[g]
            <4>1. global.gen \in 1..MaxUpdates
                OBVIOUS
            <4> QED BY <3>1, <4>1, Called
        <3> QED BY <3>1, <3>2
    <2>4. CASE StampGlobal BY <2>4 DEF StampGlobal
    <2>5. CASE StoreGlobal
        <3>1. /\ upc = "store" /\ upc' = "idle" /\ ~shut /\ ~shut' /\ global'.gen = global.gen + 1
              /\ UNCHANGED <<release, released>> /\ release' = global'.gen
            BY <2>5 DEF StoreGlobal
        <3>2. \A g \in 1..MaxUpdates : Gone(g)' <=> Gone(g)
            BY <3>1
        <3> QED BY <3>1, <3>2
    <2>6. CASE CleanUp
        <3>1. /\ upc = "idle" /\ upc' = "idle" /\ ~shut /\ shut' = TRUE
              /\ CallRelease(release) /\ release = global.gen
              /\ UNCHANGED <<global, release, new>>
            BY <2>6 DEF CleanUp
        <3>2. \A g \in 1..MaxUpdates :
                released'[g] = IF g = global.gen THEN released[g] + 1 ELSE released[g]
            <4>1. global.gen \in 1..MaxUpdates
                OBVIOUS
            <4> QED BY <3>1, <4>1, Called
        <3> QED BY <3>1, <3>2
    <2> QED BY <1>1, <2>1, <2>2, <2>3, <2>4, <2>5, <2>6 DEF UpdateStep
<1>2. CASE UNCHANGED updateVars
    BY <1>2 DEF IInv, Sinks, Gone, updateVars
<1>3. ASSUME NEW t \in Threads, LogStep(t) PROVE UNCHANGED updateVars
    BY <1>3 DEF LogStep, LoadGlobal, LoadCache, LoadBase, Compare, StampCache,
                StoreCache, Reload, Write
<1> QED
    BY <1>1, <1>2, <1>3 DEF Next, vars

-----------------------------------------------------------------------------
\* The steps of Update and the times: a configuration that is stamped is newer
\* than every cache, and stays so while no rebuild goes on.
LEMMA TimesStep == IInv /\ [Next]_vars => Times'
<1> SUFFICES ASSUME IInv, [Next]_vars PROVE Times'
    OBVIOUS
<1> USE DEF IInv, Typed, Config, Times
<1>1. CASE UpdateStep
    <2> USE DEF logVars
    <2>1. CASE Open \/ SwapRelease \/ ReleaseOld \/ StoreGlobal \/ CleanUp
        BY <2>1 DEF Open, SwapRelease, ReleaseOld, StoreGlobal, CleanUp
    <2>2. CASE StampGlobal
        <3>1. clock' = clock + 1 /\ new'.ts = clock + 1 /\ cache' = cache /\ view' = view
            BY <2>2 DEF StampGlobal
        <3>2. \A t \in Threads : view[t].ts \in Nat
            OBVIOUS
        <3> QED BY <3>1, <3>2
    <2> QED BY <1>1, <2>1, <2>2 DEF UpdateStep
<1>2. ASSUME NEW t \in Threads, LogStep(t) PROVE Times'
    <2> USE DEF updateVars
    <2>1. CASE LoadGlobal(t)
        BY <2>1, ReadGlobal DEF LoadGlobal
    <2>2. CASE LoadCache(t) \/ Reload(t)
        BY <2>2, ReadCache DEF LoadCache, Reload
    <2>3. CASE LoadBase(t)
        BY <2>3, ReadBase DEF LoadBase
    <2>4. CASE Compare(t)
        BY <2>4, ChooseGen DEF Compare
    <2>5. CASE StampCache(t)
        <3>1. \A u \in Threads : view[u].ts \in Nat
            OBVIOUS
        <3> QED BY <2>5, <3>1, ReadClock DEF StampCache
    <2>6. CASE StoreCache(t)
        <3>1. ~raced => upc # "store"
            BY <2>6 DEF StoreCache, Goto, Settled, Rebuild, Rebuilding
        <3> QED BY <2>6, <3>1 DEF StoreCache
    <2>7. CASE Write(t)
        BY <2>7 DEF Write
    <2> QED BY <1>2, <2>1, <2>2, <2>3, <2>4, <2>5, <2>6, <2>7 DEF LogStep
<1>3. CASE UNCHANGED vars
    BY <1>3 DEF vars, logVars, updateVars
<1> QED
    BY <1>1, <1>2, <1>3 DEF Next

\* An Update that no rebuild overlaps leaves the cache behind it.
LEMMA SettledUpdate ==
    ASSUME IInv, UpdateStep, ~raced' PROVE Settled'
<1> USE DEF IInv, Typed, Config, logVars
<1>1. CASE Open \/ SwapRelease \/ ReleaseOld \/ CleanUp
    BY <1>1 DEF Open, SwapRelease, ReleaseOld, CleanUp, Settled, Rebuild, Valid, Loaded, Fresh
<1>2. CASE StampGlobal
    BY <1>2 DEF StampGlobal, Overlapped, Settled, Rebuild, Valid, Loaded, Fresh
<1>3. CASE StoreGlobal
    <2>1. ~raced /\ \A t \in Threads : pc[t] \notin Rebuilding
        BY <1>3 DEF StoreGlobal, Overlapped
    <2>2. /\ UNCHANGED <<cache, pc, view>>
          /\ global' = [gen |-> new.gen, ts |-> new.ts]
          /\ new.gen = global.gen + 1 /\ cache.ts < new.ts
        BY <1>3, <2>1 DEF StoreGlobal, Sinks, Times
    <2>3. Rebuild'
        BY <2>1, <2>2 DEF Rebuild
    <2>4. Valid'
        BY <2>2 DEF Valid, Fresh
    <2>5. Loaded'
        <3> SUFFICES ASSUME NEW t \in Threads
                     PROVE  /\ view[t].global.gen <= global'.gen
                            /\ Fresh(cache, view[t].global) => cache.gen >= view[t].global.gen
                            /\ pc[t] = "reload" => cache.gen >= view[t].global.gen
                            /\ pc[t] = "write" => view[t].cache.gen >= view[t].global.gen
            BY <2>2 DEF Loaded, Fresh
        <3> QED BY <2>1, <2>2 DEF Settled, Loaded
    <2> QED BY <2>3, <2>4, <2>5 DEF Settled
<1> QED
    BY <1>1, <1>2, <1>3 DEF UpdateStep

\* What a goroutine reads and stores is right for the configuration it has
\* loaded and for the one in force.
LEMMA SettledLog ==
    ASSUME IInv, NEW t \in Threads, LogStep(t), ~raced' PROVE Settled'
<1> USE DEF IInv, Typed, Config, updateVars, Rebuilding
<1>0. ~raced /\ Settled /\ UNCHANGED updateVars
    BY DEF LogStep, LoadGlobal, LoadCache, LoadBase, Compare, StampCache, StoreCache,
           Reload, Write
<1>1. CASE LoadGlobal(t)
    <2>1. cache' = cache /\ \A u \in Threads : pc'[u] = IF u = t THEN "check" ELSE pc[u]
        BY <1>1, Moves DEF LoadGlobal
    <2>2. Rebuild' /\ Valid'
        BY <1>0, <1>1, <2>1, ReadGlobal DEF Settled, Rebuild, Valid, Fresh
    <2>3. Loaded'
        BY <1>0, <1>1, <2>1, ReadGlobal DEF Settled, Loaded, Valid, Fresh
    <2> QED BY <2>2, <2>3 DEF Settled
<1>2. CASE LoadCache(t)
    <2>1. /\ cache' = cache
          /\ \A u \in Threads : u # t => pc'[u] = pc[u]
          /\ pc'[t] \in {"write", "load"}
          /\ pc'[t] = "write" => Fresh(cache, view[t].global)
        BY <1>2, Moves DEF LoadCache
    <2>2. Rebuild' /\ Valid'
        BY <1>0, <1>2, <2>1, ReadCache DEF Settled, Rebuild, Valid, Fresh
    <2>3. Loaded'
        BY <1>0, <1>2, <2>1, ReadCache DEF Settled, Loaded, Fresh
    <2> QED BY <2>2, <2>3 DEF Settled
<1>3. CASE LoadBase(t)
    <2>1. /\ cache' = cache /\ upc # "store"
          /\ \A u \in Threads : pc'[u] = IF u = t THEN "compare" ELSE pc[u]
        BY <1>3, Moves DEF LoadBase
    <2>2. Rebuild' /\ Valid'
        BY <1>0, <1>3, <2>1, ReadBase DEF Settled, Rebuild, Valid, Fresh
    <2>3. Loaded'
        BY <1>0, <1>3, <2>1, ReadBase DEF Settled, Loaded, Fresh
    <2> QED BY <2>2, <2>3 DEF Settled
<1>4. CASE Compare(t)
    <2>1. /\ cache' = cache /\ pc[t] = "compare"
          /\ \A u \in Threads : pc'[u] = IF u = t THEN "stamp" ELSE pc[u]
        BY <1>4, Moves DEF Compare
    <2>2. view'[t].gen = global.gen
        BY <1>0, <1>4, <2>1, ChooseGen DEF Settled, Rebuild, Valid, Fresh
    <2>3. Rebuild' /\ Valid'
        BY <1>0, <1>4, <2>1, <2>2, ChooseGen DEF Settled, Rebuild, Valid, Fresh
    <2>4. Loaded'
        BY <1>0, <1>4, <2>1, ChooseGen DEF Settled, Loaded, Fresh
    <2> QED BY <2>3, <2>4 DEF Settled
<1>5. CASE StampCache(t)
    <2>1. /\ cache' = cache /\ pc[t] = "stamp"
          /\ \A u \in Threads : pc'[u] = IF u = t THEN "store" ELSE pc[u]
        BY <1>5, Moves DEF StampCache
    <2>2. Rebuild' /\ Valid'
        BY <1>0, <1>5, <2>1, ReadClock DEF Settled, Rebuild, Valid, Fresh
    <2>3. Loaded'
        BY <1>0, <1>5, <2>1, ReadClock DEF Settled, Loaded, Fresh
    <2> QED BY <2>2, <2>3 DEF Settled
<1>6. CASE StoreCache(t)
    <2>1. /\ view' = view /\ pc[t] = "store"
          /\ \A u \in Threads : pc'[u] = IF u = t THEN "reload" ELSE pc[u]
        BY <1>6, Moves DEF StoreCache
    <2>2. cache'.gen = global.gen
        BY <1>0, <1>6, <2>1 DEF StoreCache, Settled, Rebuild
    <2>3. Rebuild' /\ Valid'
        BY <1>0, <2>1, <2>2 DEF Settled, Rebuild, Valid
    <2>4. Loaded'
        BY <1>0, <2>1, <2>2 DEF Settled, Loaded
    <2> QED BY <2>3, <2>4 DEF Settled
<1>7. CASE Reload(t)
    <2>1. /\ cache' = cache /\ pc[t] = "reload"
          /\ \A u \in Threads : pc'[u] = IF u = t THEN "write" ELSE pc[u]
        BY <1>7, Moves DEF Reload
    <2>2. Rebuild' /\ Valid'
        BY <1>0, <1>7, <2>1, ReadCache DEF Settled, Rebuild, Valid, Fresh
    <2>3. Loaded'
        BY <1>0, <1>7, <2>1, ReadCache DEF Settled, Loaded, Fresh
    <2> QED BY <2>2, <2>3 DEF Settled
<1>8. CASE Write(t)
    <2>1. /\ UNCHANGED <<cache, view>>
          /\ \A u \in Threads : pc'[u] = IF u = t THEN "idle" ELSE pc[u]
        BY <1>8, Moves DEF Write
    <2> QED BY <1>0, <2>1 DEF Settled, Rebuild, Valid, Loaded, Fresh
<1> QED
    BY <1>1, <1>2, <1>3, <1>4, <1>5, <1>6, <1>7, <1>8 DEF LogStep

LEMMA StepInv == IInv /\ [Next]_vars => IInv'
<1> SUFFICES ASSUME IInv, [Next]_vars PROVE IInv'
    OBVIOUS
<1>1. Typed' /\ SinkTypes' /\ Sinks' /\ Times'
    BY TypeStep, SinkTypesStep, SinksStep, TimesStep
<1>2. ~raced' => Settled'
    <2>1. CASE UNCHANGED vars
        BY <2>1 DEF vars, logVars, updateVars, IInv, Settled, Rebuild, Valid, Loaded, Fresh
    <2> QED BY <2>1, SettledUpdate, SettledLog DEF Next
<1> QED
    BY <1>1, <1>2 DEF IInv

LEMMA Invariance == Spec => []IInv
BY InitInv, StepInv, PTL DEF Spec

-----------------------------------------------------------------------------
\* The variables keep their types (Log, buildCache and Update of logger.go).
THEOREM TypeCorrect == Spec => []TypeOK
<1>1. IInv => TypeOK
    BY Types DEF IInv
<1> QED
    BY <1>1, Invariance, PTL

\* Between updates every generation that was replaced has been released once,
\* the one in force not at all, or once by the cleanup (logger.go:574-593 and
\* 146-148).
THEOREM ReleasedOnceCorrect == Spec => []ReleasedOnce
<1>1. IInv => ReleasedOnce
    BY DEF IInv, Sinks, Gone, ReleasedOnce
<1> QED
    BY <1>1, Invariance, PTL

\* A record goes to the configuration its call loaded or a later one, unless a
\* rebuild has overlapped the end of an Update.
THEOREM FreshWritesCorrect == Spec => []FreshWrites
<1>1. IInv => FreshWrites
    BY DEF IInv, Settled, Loaded, FreshWrites
<1> QED
    BY <1>1, Invariance, PTL

\* Under the same condition a cache that will be used again writes to no closed
\* file: its generation has not been released (file.go:34-80).
THEOREM SettledSinksCorrect == Spec => []SettledSinks
<1>1. IInv => SettledSinks
    BY DEF IInv, Typed, Config, Settled, Valid, Sinks, Gone, Takes, SettledSinks
<1> QED
    BY <1>1, Invariance, PTL

-----------------------------------------------------------------------------
(* The timeout of a request. *)
\* What is asked of the constants: paths and operations are sequences.
Letters == UNION {Route!ToSet(w) : w \in Paths \cup Operations}

RouteConstants == Paths \cup Operations \subseteq Seq(Letters) /\ MaxRoutes \in Nat

Kinds == {"path", "prefix"}

AnyRoute == [kind : Kinds, key : Paths, timeout : Nat]

RouteInv ==
    /\ Route!TypeOK
    /\ routes \in Seq(AnyRoute)
    /\ timeout = 0 => operation = <<>>
    /\ Route!MostSpecific

-----------------------------------------------------------------------------
(* Induction: a set of numbers that is not empty has a least one. *)
LEMMA LeastNumber ==
    ASSUME NEW S \in SUBSET Nat, S # {}
    PROVE  \E n \in S : \A m \in S : n <= m
<1> DEFINE Less == OpToRel(<, Nat)
<1>1. \E n \in S : \A m \in S : <<m, n>> \notin Less
    <2> HIDE DEF Less
    <2>1. IsWellFoundedOn(Less, Nat)
        BY NatLessThanWellFounded, Zenon DEF Less
    <2> QED BY <2>1, WFMin
<1>2. \E n \in S : \A m \in S : ~(m < n)
    BY <1>1 DEF OpToRel
<1> QED
    BY <1>2

(* The loop over a list of routes has a meaning: the tables after each turn *)
(* exist.                                                                   *)
Empty == [path |-> <<>>, prefix |-> <<>>]

IsFilled(f, rs, n) ==
    f = [i \in 0..n |-> IF i = 0 THEN Empty ELSE Route!Insert(f[i - 1], rs[i])]

LEMMA FilledExists ==
    ASSUME NEW rs, NEW n \in Nat
    PROVE  \E f : IsFilled(f, rs, n)
<1> DEFINE Bad == {m \in Nat : ~ \E f : IsFilled(f, rs, m)}
<1>1. SUFFICES ASSUME n \in Bad PROVE FALSE
    OBVIOUS
<1>2. PICK m \in Bad : \A k \in Bad : m <= k
    <2> HIDE DEF Bad
    <2>1. Bad \in SUBSET Nat
        BY DEF Bad
    <2> QED BY <1>1, <2>1, LeastNumber
<1>3. CASE m = 0
    <2>1. IsFilled([i \in 0..0 |-> Empty], rs, 0)
        BY DEF IsFilled
    <2> QED BY <1>2, <1>3, <2>1
<1>4. CASE m # 0
    <2>1. m \in Nat /\ m - 1 \in Nat /\ m - 1 \notin Bad
        BY <1>2, <1>4
    <2>2. PICK f : IsFilled(f, rs, m - 1)
        BY <2>1
    <2> DEFINE Turn(i) == IF i = 0 THEN Empty ELSE Route!Insert(f[i - 1], rs[i])
               g == [i \in 0..m |-> Turn(i)]
    <2>3. \A i \in 0..m - 1 : f[i] = Turn(i)
        BY <2>2 DEF IsFilled
    <2> HIDE DEF Turn
    <2>4. \A i \in 0..m - 1 : g[i] = f[i]
        BY <2>1, <2>3
    <2>5. \A i \in 0..m : g[i] = IF i = 0 THEN Empty ELSE Route!Insert(g[i - 1], rs[i])
        <3> TAKE i \in 0..m
        <3>1. i # 0 => g[i - 1] = f[i - 1]
            BY <2>1, <2>4
        <3>2. g[i] = Turn(i)
            OBVIOUS
        <3> HIDE DEF g
        <3> QED BY <3>1, <3>2, Zenon DEF Turn
    <2>6. IsFilled(g, rs, m)
        <3>1. g = [i \in 0..m |-> IF i = 0 THEN Empty ELSE Route!Insert(g[i - 1], rs[i])]
            <4> DEFINE R(i) == IF i = 0 THEN Empty ELSE Route!Insert(g[i - 1], rs[i])
            <4>1. \A i \in 0..m : Turn(i) = R(i)
                BY <2>5
            <4> HIDE DEF R, Turn
            <4>2. [i \in 0..m |-> Turn(i)] = [i \in 0..m |-> R(i)]
                BY <4>1
            <4> QED BY <4>2 DEF R
        <3> QED BY <3>1 DEF IsFilled
    <2> QED BY <1>2, <2>6
<1> QED
    BY <1>3, <1>4
-----------------------------------------------------------------------------
(* What the tables hold after n turns: the keys of the valid routes so far, *)
(* each with the timeout of the last one that has it.                       *)
Entered(r, k) == r.timeout > 0 /\ r.key # <<>> /\ r.kind = k

LastWith(rs, n, k, key, i) ==
    /\ i \in 1..n /\ Entered(rs[i], k) /\ rs[i].key = key
    /\ \A j \in 1..n : Entered(rs[j], k) /\ rs[j].key = key => j <= i

CompiledKind(t, rs, n, k) ==
    /\ \A i \in 1..n : Entered(rs[i], k) => rs[i].key \in DOMAIN t
    /\ \A key \in DOMAIN t : \E i \in 1..n :
          LastWith(rs, n, k, key, i) /\ t[key] = rs[i].timeout

Compiled(t, rs, n) ==
    /\ t = [path |-> t.path, prefix |-> t.prefix]
    /\ CompiledKind(t.path, rs, n, "path")
    /\ CompiledKind(t.prefix, rs, n, "prefix")

LEMMA TurnOther ==
    ASSUME NEW t, NEW rs, NEW n \in Nat, NEW k \in Kinds,
           CompiledKind(t, rs, n, k), ~Entered(rs[n + 1], k)
    PROVE  CompiledKind(t, rs, n + 1, k)
<1>1. \A i \in 1..n + 1 : i \in 1..n \/ i = n + 1
    OBVIOUS
<1>2. \A key, i : LastWith(rs, n, k, key, i) => LastWith(rs, n + 1, k, key, i)
    BY <1>1 DEF LastWith
<1>3. \A i \in 1..n : i \in 1..n + 1
    OBVIOUS
<1> QED
    BY <1>1, <1>2, <1>3 DEF CompiledKind

LEMMA TurnSame ==
    ASSUME NEW t, NEW rs, NEW n \in Nat, NEW k \in Kinds,
           CompiledKind(t, rs, n, k), Entered(rs[n + 1], k)
    PROVE  CompiledKind(Route!Put(t, rs[n + 1].key, rs[n + 1].timeout), rs, n + 1, k)
<1> DEFINE added == rs[n + 1].key
           u == Route!Put(t, added, rs[n + 1].timeout)
<1>1. \A i \in 1..n + 1 : i \in 1..n \/ i = n + 1
    OBVIOUS
<1>2. DOMAIN u = DOMAIN t \cup {added} /\ u[added] = rs[n + 1].timeout
      /\ \A key \in DOMAIN t \ {added} : u[key] = t[key]
    BY DEF Route!Put
<1> HIDE DEF u
<1>3. LastWith(rs, n + 1, k, added, n + 1)
    BY DEF LastWith
<1>4. \A key, i : key # added /\ LastWith(rs, n, k, key, i) => LastWith(rs, n + 1, k, key, i)
    BY <1>1 DEF LastWith
<1>5. \A i \in 1..n + 1 : Entered(rs[i], k) => rs[i].key \in DOMAIN u
    BY <1>1, <1>2 DEF CompiledKind
<1>6. ASSUME NEW key \in DOMAIN u
      PROVE  \E i \in 1..n + 1 : LastWith(rs, n + 1, k, key, i) /\ u[key] = rs[i].timeout
    <2>1. CASE key = added
        BY <1>2, <1>3, <2>1
    <2>2. CASE key # added
        <3>1. PICK i \in 1..n : LastWith(rs, n, k, key, i) /\ t[key] = rs[i].timeout
            BY <1>2, <2>2 DEF CompiledKind
        <3>2. i \in 1..n + 1
            OBVIOUS
        <3> QED BY <1>2, <1>4, <2>2, <3>1, <3>2
    <2> QED BY <2>1, <2>2
<1>7. CompiledKind(u, rs, n + 1, k)
    BY <1>5, <1>6 DEF CompiledKind
<1> QED
    BY <1>7 DEF u

LEMMA TurnCompiled ==
    ASSUME NEW t, NEW rs, NEW n \in Nat, rs[n + 1] \in AnyRoute, Compiled(t, rs, n)
    PROVE  Compiled(Route!Insert(t, rs[n + 1]), rs, n + 1)
<1> DEFINE r == rs[n + 1]
           u == Route!Insert(t, r)
<1>0. r.kind \in Kinds /\ r.timeout \in Nat
    BY DEF AnyRoute
<1>1. CASE ~(r.timeout > 0 /\ r.key # <<>>)
    <2>1. u = t
        BY <1>0, <1>1 DEF Route!Insert
    <2>2. ~Entered(r, "path") /\ ~Entered(r, "prefix")
        BY <1>1 DEF Entered
    <2> QED BY <2>1, <2>2, TurnOther DEF Compiled, Kinds
<1>2. CASE r.timeout > 0 /\ r.key # <<>> /\ r.kind = "path"
    <2>1. u = [path |-> Route!Put(t.path, r.key, r.timeout), prefix |-> t.prefix]
        <3>1. u = [t EXCEPT !["path"] = Route!Put(@, r.key, r.timeout)]
            BY <1>0, <1>2 DEF Route!Insert
        <3> QED BY <3>1 DEF Compiled
    <2>2. Entered(r, "path") /\ ~Entered(r, "prefix")
        BY <1>2 DEF Entered
    <2> QED BY <2>1, <2>2, TurnOther, TurnSame DEF Compiled, Kinds
<1>3. CASE r.timeout > 0 /\ r.key # <<>> /\ r.kind = "prefix"
    <2>1. u = [path |-> t.path, prefix |-> Route!Put(t.prefix, r.key, r.timeout)]
        <3>1. u = [t EXCEPT !["prefix"] = Route!Put(@, r.key, r.timeout)]
            BY <1>0, <1>3 DEF Route!Insert
        <3> QED BY <3>1 DEF Compiled
    <2>2. Entered(r, "prefix") /\ ~Entered(r, "path")
        BY <1>3 DEF Entered
    <2> QED BY <2>1, <2>2, TurnOther, TurnSame DEF Compiled, Kinds
<1> QED
    BY <1>0, <1>1, <1>2, <1>3 DEF Kinds

LEMMA FilledCompiled ==
    ASSUME NEW rs \in Seq(AnyRoute), NEW f, IsFilled(f, rs, Len(rs))
    PROVE  \A n \in 0..Len(rs) : Compiled(f[n], rs, n)
<1> DEFINE Bad == {n \in 0..Len(rs) : ~Compiled(f[n], rs, n)}
<1>1. SUFFICES ASSUME Bad # {} PROVE FALSE
    OBVIOUS
<1>2. PICK n \in Bad : \A k \in Bad : n <= k
    <2>1. Bad \in SUBSET Nat
        OBVIOUS
    <2> HIDE DEF Bad
    <2> QED BY <1>1, <2>1, LeastNumber
<1>3. \A i \in 0..Len(rs) : f[i] = IF i = 0 THEN Empty ELSE Route!Insert(f[i - 1], rs[i])
    BY DEF IsFilled
<1>4. CASE n = 0
    <2>1. f[0] = Empty
        BY <1>3
    <2> QED BY <1>2, <1>4, <2>1 DEF Compiled, CompiledKind, Empty
<1>5. CASE n # 0
    <2>1. n \in 1..Len(rs) /\ n - 1 \in 0..Len(rs) /\ n - 1 \notin Bad
        BY <1>2, <1>5
    <2>2. f[n] = Route!Insert(f[n - 1], rs[n])
        BY <1>3, <1>5, <2>1
    <2>3. Compiled(f[n - 1], rs, n - 1) /\ rs[n] \in AnyRoute
        BY <2>1
    <2>4. n - 1 \in Nat /\ (n - 1) + 1 = n
        BY <2>1
    <2>5. Compiled(Route!Insert(f[n - 1], rs[n]), rs, n)
        BY <2>3, <2>4, TurnCompiled
    <2> QED BY <1>2, <2>2, <2>5
<1> QED
    BY <1>4, <1>5

LEMMA TablesCompiled ==
    ASSUME routes \in Seq(AnyRoute)
    PROVE  Compiled(Route!Tables, routes, Len(routes))
<1> DEFINE filled == CHOOSE f : IsFilled(f, routes, Len(routes))
<1>1. Len(routes) \in Nat /\ Len(routes) \in 0..Len(routes)
    OBVIOUS
<1>2. IsFilled(filled, routes, Len(routes))
    BY <1>1, FilledExists
<1>3. Route!Tables = filled[Len(routes)]
    BY DEF Route!Tables, IsFilled, Empty
<1> HIDE DEF filled
<1> QED
    BY <1>1, <1>2, <1>3, FilledCompiled
-----------------------------------------------------------------------------
(* Prefixes of one operation: two of one length are one, and a set of them *)
(* that is not empty has a longest.                                        *)
LEMMA SamePrefix ==
    ASSUME NEW op \in Seq(Letters), NEW p \in Seq(Letters), NEW q \in Seq(Letters),
           Route!IsPrefix(p, op), Route!IsPrefix(q, op), Len(p) = Len(q)
    PROVE  p = q
<1>1. SubSeq(p, 1, Len(p)) = p /\ SubSeq(q, 1, Len(q)) = q
    OBVIOUS
<1> QED
    BY <1>1 DEF Route!IsPrefix

LEMMA LongestExists ==
    ASSUME NEW op \in Seq(Letters), NEW tree, DOMAIN tree \subseteq Seq(Letters),
           \E p \in DOMAIN tree : Route!IsPrefix(p, op)
    PROVE  /\ Route!LongestPrefix(tree, op) \in DOMAIN tree
           /\ Route!IsPrefix(Route!LongestPrefix(tree, op), op)
           /\ \A q \in DOMAIN tree :
                 Route!IsPrefix(q, op) => Len(q) <= Len(Route!LongestPrefix(tree, op))
<1> DEFINE Rest == {Len(op) - Len(p) : p \in {q \in DOMAIN tree : Route!IsPrefix(q, op)}}
<1>1. \A p \in DOMAIN tree : Len(p) \in Nat /\ (Route!IsPrefix(p, op) => Len(p) <= Len(op))
    BY DEF Route!IsPrefix
<1>2. Rest \in SUBSET Nat /\ Rest # {}
    BY <1>1
<1>3. PICK n \in Rest : \A m \in Rest : n <= m
    <2> HIDE DEF Rest
    <2> QED BY <1>2, LeastNumber
<1>4. PICK p \in DOMAIN tree : Route!IsPrefix(p, op) /\ n = Len(op) - Len(p)
    BY <1>3
<1>5. ASSUME NEW q \in DOMAIN tree, Route!IsPrefix(q, op) PROVE Len(q) <= Len(p)
    <2>1. Len(op) - Len(q) \in Rest
        BY <1>5
    <2>2. n <= Len(op) - Len(q)
        BY <1>3, <2>1
    <2> HIDE DEF Rest
    <2> QED BY <1>1, <1>4, <1>5, <2>2
<1> QED
    BY <1>4, <1>5, Zenon DEF Route!LongestPrefix

(* What a request to op matches, and what it is given. *)
MatchedBy(r, op) ==
    /\ r.timeout > 0
    /\ r.key # <<>>
    /\ IF r.kind = "path" THEN r.key = op ELSE Route!IsPrefix(r.key, op)

Matching(op) == {i \in DOMAIN routes : MatchedBy(routes[i], op)}

Wins(i, op) == i \in Matching(op) /\ \A j \in Matching(op) \ {i} : Route!Over(i, j)

LEMMA TimeoutIs ==
    ASSUME RouteConstants, Route!TypeOK, routes \in Seq(AnyRoute), NEW op \in Operations
    PROVE  \/ \E i \in Matching(op) : Wins(i, op) /\ Route!TimeoutOf(op) = routes[i].timeout
           \/ Matching(op) = {} /\ Route!TimeoutOf(op) = Route!DefaultTimeout
<1> DEFINE paths == Route!Tables.path
           tree == Route!Tables.prefix
           n == Len(routes)
           Found == \E p \in DOMAIN tree : Route!IsPrefix(p, op)
<1>1. CompiledKind(paths, routes, n, "path") /\ CompiledKind(tree, routes, n, "prefix")
    BY TablesCompiled DEF Compiled
<1>2. n \in Nat /\ DOMAIN routes = 1..n
      /\ \A i \in 1..n : routes[i] \in AnyRoute
    OBVIOUS
<1>3. op \in Seq(Letters) /\ \A i \in 1..n : routes[i].key \in Seq(Letters)
    BY <1>2 DEF RouteConstants, AnyRoute
<1>4. Route!TimeoutOf(op) = IF op \in DOMAIN paths THEN paths[op]
                      ELSE IF Found THEN tree[Route!LongestPrefix(tree, op)]
                      ELSE Route!DefaultTimeout
    BY Zenon DEF Route!TimeoutOf
<1> HIDE DEF paths, tree, n
<1>5. CASE op \in DOMAIN paths
    <2>1. PICK i \in 1..n : LastWith(routes, n, "path", op, i) /\ paths[op] = routes[i].timeout
        BY <1>1, <1>5 DEF CompiledKind
    <2>2. i \in Matching(op)
        BY <1>2, <2>1 DEF Matching, MatchedBy, LastWith, Entered
    <2>3. ASSUME NEW j \in Matching(op) \ {i} PROVE Route!Over(i, j)
        <3>1. j \in 1..n /\ MatchedBy(routes[j], op) /\ routes[j].kind \in Kinds
            BY <1>2 DEF Matching, AnyRoute
        <3>2. CASE routes[j].kind = "path"
            <4>1. routes[j].key = op /\ Entered(routes[j], "path")
                BY <3>1, <3>2 DEF MatchedBy, Entered
            <4>2. i > j
                BY <1>2, <2>1, <3>1, <4>1 DEF LastWith
            <4> QED BY <2>1, <3>2, <4>1, <4>2 DEF Route!Over, LastWith, Entered
        <3>3. CASE routes[j].kind = "prefix"
            BY <2>1, <3>3 DEF Route!Over, LastWith, Entered
        <3> QED BY <3>1, <3>2, <3>3 DEF Kinds
    <2> QED BY <1>4, <1>5, <2>1, <2>2, <2>3 DEF Wins
<1>6. \A p \in DOMAIN tree : p \in Seq(Letters)
    BY <1>1, <1>3 DEF CompiledKind, LastWith
<1>7. ASSUME op \notin DOMAIN paths, NEW j \in Matching(op)
      PROVE  /\ j \in 1..n /\ Entered(routes[j], "prefix") /\ Route!IsPrefix(routes[j].key, op)
             /\ routes[j].key \in DOMAIN tree
    <2>1. j \in 1..n /\ MatchedBy(routes[j], op) /\ routes[j].kind \in Kinds
        BY <1>2 DEF Matching, AnyRoute
    <2>2. routes[j].kind # "path"
        BY <1>1, <1>7, <2>1 DEF CompiledKind, MatchedBy, Entered
    <2> QED BY <1>1, <2>1, <2>2 DEF CompiledKind, MatchedBy, Entered, Kinds
<1>8. CASE op \notin DOMAIN paths /\ Found
    <2> DEFINE p == Route!LongestPrefix(tree, op)
    <2>1. /\ p \in DOMAIN tree /\ Route!IsPrefix(p, op)
          /\ \A q \in DOMAIN tree : Route!IsPrefix(q, op) => Len(q) <= Len(p)
        BY <1>3, <1>6, <1>8, LongestExists
    <2> HIDE DEF p
    <2>2. PICK i \in 1..n : LastWith(routes, n, "prefix", p, i) /\ tree[p] = routes[i].timeout
        BY <1>1, <2>1 DEF CompiledKind
    <2>3. i \in Matching(op)
        BY <1>2, <2>1, <2>2 DEF Matching, MatchedBy, LastWith, Entered
    <2>4. ASSUME NEW j \in Matching(op) \ {i} PROVE Route!Over(i, j)
        <3>1. /\ j \in 1..n /\ Entered(routes[j], "prefix") /\ Route!IsPrefix(routes[j].key, op)
              /\ routes[j].key \in DOMAIN tree
            BY <1>7, <1>8
        <3>2. Len(routes[j].key) <= Len(p) /\ Len(routes[j].key) \in Nat /\ Len(p) \in Nat
            BY <1>6, <2>1, <3>1
        <3>3. routes[i].kind = "prefix" /\ routes[i].key = p /\ routes[j].kind = "prefix"
            BY <2>2, <3>1 DEF LastWith, Entered
        <3>4. CASE Len(routes[j].key) < Len(p)
            BY <3>2, <3>3, <3>4 DEF Route!Over
        <3>5. CASE Len(routes[j].key) = Len(p)
            <4>1. routes[j].key = p
                BY <1>3, <1>6, <2>1, <3>1, <3>5, SamePrefix
            <4>2. i > j
                BY <1>2, <2>2, <3>1, <4>1 DEF LastWith
            <4> QED BY <3>3, <4>1, <4>2 DEF Route!Over
        <3> QED BY <3>2, <3>4, <3>5
    <2> QED BY <1>4, <1>8, <2>2, <2>3, <2>4 DEF Wins, p
<1>9. CASE op \notin DOMAIN paths /\ ~Found
    BY <1>4, <1>7, <1>9
<1> QED
    BY <1>5, <1>8, <1>9

-----------------------------------------------------------------------------
LEMMA RouteInit == RouteConstants /\ Route!Init => RouteInv
<1> SUFFICES ASSUME RouteConstants, Route!Init PROVE RouteInv
    OBVIOUS
<1>1. PICK n \in 0..MaxRoutes : routes \in Route!Configurations(n)
    BY DEF Route!Init
<1>2. /\ DOMAIN routes = 1..n /\ n \in Nat /\ n <= MaxRoutes
      /\ \A i \in 1..n : routes[i] \in Route!Routes(i)
      /\ routes = [i \in 1..n |-> routes[i]]
    BY <1>1 DEF Route!Configurations, RouteConstants
<1>3. \A i \in 1..n : Route!Routes(i) \subseteq AnyRoute
    BY DEF Route!Routes, AnyRoute, Kinds
<1>4. routes \in Seq(AnyRoute)
    BY <1>2, <1>3
<1> QED
    BY <1>2, <1>4 DEF Route!Init, RouteInv, Route!TypeOK, Route!MostSpecific, RouteConstants

LEMMA RouteStep == ASSUME RouteConstants PROVE RouteInv /\ [Route!Next]_(Route!vars) => RouteInv'
<1> SUFFICES ASSUME RouteInv, [Route!Next]_(Route!vars) PROVE RouteInv'
    OBVIOUS
<1> USE DEF RouteInv
<1>0. Route!DefaultTimeout \in Nat /\ Route!DefaultTimeout > 0
    BY DEF Route!TypeOK, Route!DefaultTimeout
<1>1. ASSUME NEW op \in Operations, Route!Request(op)
      PROVE  RouteInv'
    <2>1. /\ operation' = op /\ timeout' = Route!TimeoutOf(op)
          /\ UNCHANGED <<side, routes, fallback>>
        BY <1>1 DEF Route!Request
    <2>2. Matching(op) = {i \in DOMAIN routes' : Route!Matches(routes[i])'}
        BY <2>1 DEF Matching, MatchedBy, Route!Matches
    <2>3. \A i, j : Route!Over(i, j)' <=> Route!Over(i, j)
        BY <2>1 DEF Route!Over
    <2>4. Route!DefaultTimeout' = Route!DefaultTimeout
        BY <2>1 DEF Route!DefaultTimeout
    <2>5. timeout' \in Nat /\ timeout' > 0
        <3>1. \A i \in Matching(op) : routes[i] \in AnyRoute /\ routes[i].timeout > 0
            BY DEF Matching, MatchedBy
        <3>2. \A i \in Matching(op) : routes[i].timeout \in Nat
            BY <3>1 DEF AnyRoute
        <3> QED BY <1>0, <2>1, <3>1, <3>2, TimeoutIs
    <2>6. Route!MostSpecific'
        BY <2>1, <2>2, <2>3, <2>4, TimeoutIs DEF Route!MostSpecific, Wins
    <2> QED BY <2>1, <2>5, <2>6 DEF Route!TypeOK, Route!Routes
<1>2. CASE Route!RequestOutside
    BY <1>0, <1>2 DEF Route!RequestOutside, Route!TypeOK, Route!MostSpecific,
                      Route!DefaultTimeout, Route!Routes
<1>3. CASE UNCHANGED Route!vars
    <2>1. \A i, j : Route!Over(i, j)' <=> Route!Over(i, j)
        BY <1>3 DEF Route!vars, Route!Over
    <2>2. \A r : Route!Matches(r)' <=> Route!Matches(r)
        BY <1>3 DEF Route!vars, Route!Matches
    <2> QED BY <1>3, <2>1, <2>2 DEF Route!vars, Route!TypeOK, Route!MostSpecific,
                                    Route!DefaultTimeout, Route!Routes
<1> QED
    BY <1>1, <1>2, <1>3 DEF Route!Next

LEMMA RouteInvariance == ASSUME RouteConstants PROVE Route!Spec => []RouteInv
BY RouteInit, RouteStep, PTL DEF Route!Spec

-----------------------------------------------------------------------------
(* The nodes: lists of indices in increasing order. *)
Sorted(list) ==
    /\ list \in Seq(Nat)
    /\ \A i, j \in 1..Len(list) : i < j => list[i] < list[j]

KeptUpTo(f, list, passing, n) ==
    f = [i \in 0..n |->
            IF i = 0 THEN <<>>
            ELSE IF list[i] \in passing THEN Append(f[i - 1], list[i])
            ELSE f[i - 1]]

LEMMA KeptExists ==
    ASSUME NEW list, NEW passing, NEW n \in Nat
    PROVE  \E f : KeptUpTo(f, list, passing, n)
<1> DEFINE Bad == {m \in Nat : ~ \E f : KeptUpTo(f, list, passing, m)}
<1>1. SUFFICES ASSUME n \in Bad PROVE FALSE
    OBVIOUS
<1>2. PICK m \in Bad : \A k \in Bad : m <= k
    <2> HIDE DEF Bad
    <2>1. Bad \in SUBSET Nat
        BY DEF Bad
    <2> QED BY <1>1, <2>1, LeastNumber
<1>3. CASE m = 0
    <2>1. KeptUpTo([i \in 0..0 |-> <<>>], list, passing, 0)
        BY DEF KeptUpTo
    <2> QED BY <1>2, <1>3, <2>1
<1>4. CASE m # 0
    <2>1. m \in Nat /\ m - 1 \in Nat /\ m - 1 \notin Bad
        BY <1>2, <1>4
    <2>2. PICK f : KeptUpTo(f, list, passing, m - 1)
        BY <2>1
    <2> DEFINE Turn(h, i) == IF i = 0 THEN <<>>
                             ELSE IF list[i] \in passing THEN Append(h[i - 1], list[i])
                             ELSE h[i - 1]
               g == [i \in 0..m |-> Turn(f, i)]
    <2>3. \A i \in 0..m - 1 : f[i] = Turn(f, i)
        BY <2>2 DEF KeptUpTo
    <2>4. \A i \in 0..m : g[i] = Turn(f, i)
        OBVIOUS
    <2> HIDE DEF g
    <2>5. \A i \in 0..m - 1 : g[i] = f[i]
        <3> HIDE DEF Turn
        <3> QED BY <2>1, <2>3, <2>4
    <2>6. \A i \in 0..m : Turn(f, i) = Turn(g, i)
        BY <2>1, <2>5
    <2>7. g = [i \in 0..m |-> Turn(g, i)]
        <3> HIDE DEF Turn
        <3>1. [i \in 0..m |-> Turn(f, i)] = [i \in 0..m |-> Turn(g, i)]
            BY <2>6
        <3> QED BY <3>1 DEF g
    <2>8. KeptUpTo(g, list, passing, m)
        BY <2>7 DEF KeptUpTo
    <2> QED BY <1>2, <2>8
<1> QED
    BY <1>3, <1>4

LEMMA KeptTurns ==
    ASSUME NEW list, NEW passing, Sorted(list), NEW f, KeptUpTo(f, list, passing, Len(list))
    PROVE  \A n \in 0..Len(list) :
             /\ Sorted(f[n])
             /\ Filters!ToSet(f[n]) = {list[i] : i \in {j \in 1..n : list[j] \in passing}}
<1> DEFINE Good(n) == /\ Sorted(f[n])
                      /\ Filters!ToSet(f[n]) = {list[i] : i \in {j \in 1..n : list[j] \in passing}}
           Bad == {n \in 0..Len(list) : ~Good(n)}
<1>1. SUFFICES ASSUME Bad # {} PROVE FALSE
    OBVIOUS
<1>2. PICK n \in Bad : \A k \in Bad : n <= k
    <2>1. Bad \in SUBSET Nat
        BY DEF Sorted
    <2> HIDE DEF Bad
    <2> QED BY <1>1, <2>1, LeastNumber
<1>3. \A i \in 0..Len(list) :
        f[i] = IF i = 0 THEN <<>>
               ELSE IF list[i] \in passing THEN Append(f[i - 1], list[i])
               ELSE f[i - 1]
    BY DEF KeptUpTo
<1>4. CASE n = 0
    <2>1. f[0] = <<>>
        BY <1>3 DEF Sorted
    <2>2. Sorted(<<>>)
        BY DEF Sorted
    <2>3. Filters!ToSet(<<>>) = {}
        BY DEF Filters!ToSet
    <2>4. {list[i] : i \in {j \in 1..0 : list[j] \in passing}} = {}
        OBVIOUS
    <2>5. Good(0)
        BY <2>1, <2>2, <2>3, <2>4
    <2> HIDE DEF Good
    <2> QED BY <1>2, <1>4, <2>5
<1>5. CASE n # 0
    <2>1. n \in 1..Len(list) /\ n - 1 \in 0..Len(list) /\ n - 1 \notin Bad /\ Len(list) \in Nat
        <3> HIDE DEF Good
        <3>1. Len(list) \in Nat
            BY DEF Sorted
        <3> QED BY <1>2, <1>5, <3>1
    <2>2. Good(n - 1)
        BY <2>1
    <2>3. f[n] = IF list[n] \in passing THEN Append(f[n - 1], list[n]) ELSE f[n - 1]
        BY <1>3, <1>5, <2>1
    <2> DEFINE s == f[n - 1]
    <2>4. /\ s \in Seq(Nat) /\ Len(s) \in Nat /\ list[n] \in Nat
          /\ \A i, j \in 1..Len(s) : i < j => s[i] < s[j]
        BY <2>1, <2>2 DEF Sorted
    <2>5. \A i \in 1..Len(s) : s[i] \in Filters!ToSet(s)
        BY <2>4 DEF Filters!ToSet
    <2>6. \A i \in 1..Len(s) : s[i] < list[n]
        <3> TAKE i \in 1..Len(s)
        <3>1. PICK j \in 1..n - 1 : s[i] = list[j]
            BY <2>2, <2>5
        <3>2. j \in 1..Len(list) /\ j < n
            BY <2>1
        <3> QED BY <2>1, <3>1, <3>2 DEF Sorted
    <2>7. \A j \in 1..n : j \in 1..n - 1 \/ j = n
        BY <2>1
    <2>8. \A j \in 1..n - 1 : j \in 1..n
        BY <2>1
    <2>9. CASE list[n] \in passing
        <3> DEFINE t == Append(s, list[n])
        <3>1. t \in Seq(Nat) /\ Len(t) = Len(s) + 1 /\ t[Len(s) + 1] = list[n]
              /\ \A i \in 1..Len(s) : t[i] = s[i]
            BY <2>4
        <3>2. \A i \in 1..Len(t) : i \in 1..Len(s) \/ i = Len(s) + 1
            BY <2>4, <3>1
        <3> HIDE DEF t
        <3>3. Sorted(t)
            <4>1. ASSUME NEW i \in 1..Len(t), NEW j \in 1..Len(t), i < j
                  PROVE  t[i] < t[j]
                <5>1. i \in 1..Len(s)
                    BY <2>4, <3>1, <4>1
                <5>2. j \in 1..Len(s) \/ j = Len(s) + 1
                    BY <3>2
                <5> HIDE DEF s
                <5> QED BY <2>4, <2>6, <3>1, <4>1, <5>1, <5>2
            <4> QED BY <3>1, <4>1 DEF Sorted
        <3>4. Filters!ToSet(t) = Filters!ToSet(s) \cup {list[n]}
            <4>1. DOMAIN t = 1..Len(s) + 1 /\ DOMAIN s = 1..Len(s)
                BY <2>4, <3>1
            <4>2. \A i \in 1..Len(s) : i \in DOMAIN t /\ i \in DOMAIN s
                BY <2>4, <4>1
            <4>3. Len(s) + 1 \in DOMAIN t
                BY <2>4, <4>1
            <4>4. \A i \in DOMAIN t : t[i] \in Filters!ToSet(s) \cup {list[n]}
                BY <3>1, <4>1, <4>2, <3>2 DEF Filters!ToSet
            <4>5. \A i \in DOMAIN s : s[i] \in Filters!ToSet(t)
                BY <3>1, <4>1, <4>2 DEF Filters!ToSet
            <4>6. list[n] \in Filters!ToSet(t)
                BY <3>1, <4>3 DEF Filters!ToSet
            <4> QED BY <4>4, <4>5, <4>6 DEF Filters!ToSet
        <3>5. {list[i] : i \in {j \in 1..n : list[j] \in passing}}
              = {list[i] : i \in {j \in 1..n - 1 : list[j] \in passing}} \cup {list[n]}
            BY <2>1, <2>7, <2>8, <2>9
        <3>6. f[n] = t
            BY <2>3, <2>9 DEF t
        <3>7. Good(n)
            BY <2>2, <3>3, <3>4, <3>5, <3>6
        <3> QED BY <1>2, <3>7
    <2>10. CASE list[n] \notin passing
        <3>1. {list[i] : i \in {j \in 1..n : list[j] \in passing}}
              = {list[i] : i \in {j \in 1..n - 1 : list[j] \in passing}}
            BY <2>7, <2>8, <2>10
        <3>2. Good(n)
            BY <2>2, <2>3, <2>10, <3>1
        <3> QED BY <1>2, <3>2
    <2> QED BY <2>9, <2>10
<1> QED
    BY <1>4, <1>5

LEMMA KeptIs ==
    ASSUME NEW list, NEW passing, Sorted(list)
    PROVE  /\ Sorted(Filters!Kept(list, passing))
           /\ Filters!ToSet(Filters!Kept(list, passing)) = Filters!ToSet(list) \cap passing
<1> DEFINE kept == CHOOSE f : KeptUpTo(f, list, passing, Len(list))
           n == Len(list)
<1>1. n \in Nat /\ n \in 0..n /\ DOMAIN list = 1..n
    BY DEF Sorted
<1>2. KeptUpTo(kept, list, passing, n)
    BY <1>1, KeptExists
<1>3. Filters!Kept(list, passing) = kept[n]
    BY DEF Filters!Kept, KeptUpTo
<1> HIDE DEF kept
<1>4. Sorted(kept[n]) /\ Filters!ToSet(kept[n]) = {list[i] : i \in {j \in 1..n : list[j] \in passing}}
    BY <1>1, <1>2, KeptTurns
<1>5. Filters!ToSet(list) \cap passing = {list[i] : i \in {j \in 1..n : list[j] \in passing}}
    BY <1>1 DEF Filters!ToSet
<1> QED
    BY <1>3, <1>4, <1>5
-----------------------------------------------------------------------------
(* What each filter leaves of a list of nodes. *)
Has(entries) ==
    {n \in DOMAIN nodes : /\ nodes[n].md # Filters!NoMetadata
                          /\ \A k \in DOMAIN entries : nodes[n].md[k] = entries[k]}

Local == {n \in DOMAIN nodes : nodes[n].md # Filters!NoMetadata /\ nodes[n].md.env = appEnv}
Near == {n \in Local : nodes[n].md.hostname = "here"}

LEMMA EntriesAre ==
    ASSUME NEW host, NEW v
    PROVE  /\ Has([env |-> appEnv]) = Local
           /\ Has([env |-> appEnv, hostname |-> host]) = {n \in Local : nodes[n].md.hostname = host}
           /\ Has([version |-> v])
                = {n \in DOMAIN nodes : nodes[n].md # Filters!NoMetadata /\ nodes[n].md.version = v}
BY DEF Has, Local

LEMMA MetadataIs ==
    ASSUME NEW list, Sorted(list), NEW entries
    PROVE  /\ Sorted(Filters!WithMetadata(entries, list))
           /\ Filters!ToSet(Filters!WithMetadata(entries, list))
                = Filters!ToSet(list) \cap Has(entries)
BY KeptIs DEF Filters!WithMetadata, Has

LEMMA EmptyList ==
    ASSUME NEW list, Sorted(list)
    PROVE  list = <<>> <=> Filters!ToSet(list) = {}
<1>1. Len(list) \in Nat /\ DOMAIN list = 1..Len(list) /\ list \in Seq(Nat)
    BY DEF Sorted
<1>2. list # <<>> => 1 \in DOMAIN list
    BY <1>1
<1>3. list # <<>> => list[1] \in Filters!ToSet(list)
    BY <1>2 DEF Filters!ToSet
<1>4. Filters!ToSet(<<>>) = {}
    BY DEF Filters!ToSet
<1> QED
    BY <1>3, <1>4

LEMMA MinIs ==
    ASSUME NEW S \in SUBSET Int, NEW m \in S, \A n \in S : m <= n
    PROVE  Filters!Min(S) = m
<1>1. Filters!Min(S) \in S /\ \A n \in S : Filters!Min(S) <= n
    BY Zenon DEF Filters!Min
<1>2. Filters!Min(S) <= m /\ m <= Filters!Min(S) /\ Filters!Min(S) \in Int /\ m \in Int
    BY <1>1
<1> QED
    BY <1>2

(* The first of two lists that is not empty. *)
LEMMA FirstOf ==
    ASSUME NEW a, NEW b, NEW list
    PROVE  Filters!SelectFirstOrFallbackAll(<<a, b>>, list)
             = IF a # <<>> THEN a ELSE IF b # <<>> THEN b ELSE list
<1> DEFINE lists == <<a, b>>
           leaving == {i \in DOMAIN lists : lists[i] # <<>>}
<1>1. DOMAIN lists = {1, 2} /\ lists[1] = a /\ lists[2] = b
    OBVIOUS
<1> HIDE DEF lists
<1>2. CASE a # <<>>
    <2>1. 1 \in leaving /\ leaving \subseteq {1, 2}
        BY <1>1, <1>2
    <2>2. Filters!Min(leaving) = 1
        <3> HIDE DEF leaving
        <3> QED BY <2>1, MinIs
    <2> QED BY <1>1, <1>2, <2>1, <2>2 DEF Filters!SelectFirstOrFallbackAll, lists
<1>3. CASE a = <<>> /\ b # <<>>
    <2>1. leaving = {2}
        BY <1>1, <1>3
    <2>2. Filters!Min(leaving) = 2
        <3> HIDE DEF leaving
        <3> QED BY <2>1, MinIs
    <2> QED BY <1>1, <1>3, <2>1, <2>2 DEF Filters!SelectFirstOrFallbackAll, lists
<1>4. CASE a = <<>> /\ b = <<>>
    <2>1. leaving = {}
        BY <1>1, <1>4
    <2> QED BY <1>4, <2>1 DEF Filters!SelectFirstOrFallbackAll, lists
<1> QED
    BY <1>2, <1>3, <1>4

NearestFar ==
    IF appEnv = "local" /\ nodes # <<>> THEN Filters!Min({Filters!Far(n) : n \in DOMAIN nodes})
    ELSE 2

Class == {n \in DOMAIN nodes : Filters!Far(n) = NearestFar}

LEMMA FarIs ==
    ASSUME Filters!TypeOK, NEW n \in DOMAIN nodes
    PROVE  /\ Filters!Far(n) \in 1..3
           /\ Filters!Far(n) = 1 <=> appEnv = "local" /\ n \in Near
           /\ Filters!Far(n) = 3 <=> n \notin Local
<1>1. nodes[n] \in Filters!Nodes
    BY DEF Filters!TypeOK
<1>2. Local \subseteq DOMAIN nodes /\ Near \subseteq Local
    BY DEF Local, Near
<1>3. n \notin Local <=> nodes[n].md = Filters!NoMetadata \/ nodes[n].md.env # appEnv
    BY DEF Local
<1>4. n \in Near <=> n \in Local /\ nodes[n].md.hostname = "here"
    BY DEF Near
<1>5. Filters!Far(n) = IF n \notin Local THEN 3
                       ELSE IF appEnv = "local" /\ nodes[n].md.hostname = "here" THEN 1 ELSE 2
    BY <1>3 DEF Filters!Far
<1> QED
    BY <1>2, <1>4, <1>5

LEMMA EnvIs ==
    ASSUME Filters!TypeOK, NEW list, Sorted(list), Filters!ToSet(list) = DOMAIN nodes
    PROVE  Sorted(Filters!Env(list)) /\ Filters!ToSet(Filters!Env(list)) = Class
<1> DEFINE here == Filters!WithMetadata([env |-> appEnv, hostname |-> "here"], list)
           there == Filters!WithMetadata([env |-> appEnv], list)
           Fars == {Filters!Far(n) : n \in DOMAIN nodes}
<1>1. /\ Sorted(here) /\ Filters!ToSet(here) = Near
      /\ Sorted(there) /\ Filters!ToSet(there) = Local
    <2>1. Near \subseteq DOMAIN nodes /\ Local \subseteq DOMAIN nodes
        BY DEF Near, Local
    <2>2. Has([env |-> appEnv]) = Local /\ Has([env |-> appEnv, hostname |-> "here"]) = Near
        BY EntriesAre DEF Near
    <2>3. /\ Sorted(here)
          /\ Filters!ToSet(here) = DOMAIN nodes \cap Has([env |-> appEnv, hostname |-> "here"])
        BY MetadataIs
    <2>4. /\ Sorted(there)
          /\ Filters!ToSet(there) = DOMAIN nodes \cap Has([env |-> appEnv])
        BY MetadataIs
    <2> HIDE DEF here, there
    <2> QED BY <2>1, <2>2, <2>3, <2>4
<1>2. /\ here = <<>> <=> Near = {}
      /\ there = <<>> <=> Local = {}
      /\ list = <<>> <=> DOMAIN nodes = {}
    BY <1>1, EmptyList
<1>3. appEnv \in {"local", "prod"} /\ (nodes = <<>> <=> DOMAIN nodes = {})
    <2>1. nodes \in Seq(Filters!Nodes)
        BY DEF Filters!TypeOK
    <2> QED BY <2>1 DEF Filters!TypeOK
<1>4. Near \subseteq Local /\ Local \subseteq DOMAIN nodes
    BY DEF Near, Local
<1>5. Fars \in SUBSET Int
    BY FarIs
<1>6. CASE appEnv = "prod"
    <2>1. Filters!Env(list) = there
        BY <1>6 DEF Filters!Env
    <2>2. Class = Local
        BY <1>4, <1>6, FarIs DEF Class, NearestFar
    <2> QED BY <1>1, <2>1, <2>2
<1>7. CASE appEnv = "local"
    <2>1. Filters!Env(list) = IF here # <<>> THEN here ELSE IF there # <<>> THEN there ELSE list
        BY <1>7, FirstOf DEF Filters!Env
    <2> HIDE DEF here, there
    <2>2. CASE Near # {}
        <3>1. nodes # <<>> /\ 1 \in Fars /\ \A m \in Fars : 1 <= m
            BY <1>3, <1>4, <1>7, <2>2, FarIs
        <3>2. NearestFar = 1
            <4> HIDE DEF Fars
            <4>1. Filters!Min(Fars) = 1
                BY <1>5, <3>1, MinIs
            <4> QED BY <1>7, <3>1, <4>1 DEF NearestFar, Fars
        <3>3. Class = Near
            BY <1>4, <1>7, <3>2, FarIs DEF Class
        <3> QED BY <1>1, <1>2, <2>1, <2>2, <3>3
    <2>3. CASE Near = {} /\ Local # {}
        <3>1. nodes # <<>> /\ 2 \in Fars /\ \A m \in Fars : 2 <= m
            <4>1. \A n \in Local : Filters!Far(n) = 2
                BY <1>4, <2>3, FarIs
            <4>2. \A n \in DOMAIN nodes : Filters!Far(n) \in {2, 3}
                BY <2>3, FarIs
            <4> QED BY <1>3, <1>4, <2>3, <4>1, <4>2
        <3>2. NearestFar = 2
            <4> HIDE DEF Fars
            <4>1. Filters!Min(Fars) = 2
                BY <1>5, <3>1, MinIs
            <4> QED BY <1>7, <3>1, <4>1 DEF NearestFar, Fars
        <3>3. Class = Local
            BY <1>4, <2>3, <3>2, FarIs DEF Class
        <3> QED BY <1>1, <1>2, <2>1, <2>3, <3>3
    <2>4. CASE Local = {}
        <3>1. Near = {}
            BY <1>4, <2>4
        <3>2. Filters!Env(list) = list
            BY <1>2, <2>1, <2>4, <3>1
        <3>3. CASE nodes = <<>>
            BY <1>3, <3>2, <3>3 DEF Class
        <3>4. CASE nodes # <<>>
            <4>1. \A n \in DOMAIN nodes : Filters!Far(n) = 3
                BY <2>4, FarIs
            <4>2. 3 \in Fars /\ \A m \in Fars : 3 <= m
                BY <1>3, <3>4, <4>1
            <4>3. NearestFar = 3
                <5> HIDE DEF Fars
                <5>1. Filters!Min(Fars) = 3
                    BY <1>5, <4>2, MinIs
                <5> QED BY <1>7, <3>4, <5>1 DEF NearestFar, Fars
            <4>4. Class = DOMAIN nodes
                BY <4>1, <4>3 DEF Class
            <4> QED BY <3>2, <4>4
        <3> QED BY <3>3, <3>4
    <2> QED BY <1>4, <2>2, <2>3, <2>4
<1> QED
    BY <1>3, <1>6, <1>7

-----------------------------------------------------------------------------
LEMMA Classes ==
    /\ Filters!NearestClass <=>
         (asked =>
            /\ Filters!ToSet(picked) =
                 {n \in Class : nodes[n].scheme = protocol
                      /\ (version # Filters!Absent =>
                             nodes[n].md # Filters!NoMetadata /\ nodes[n].md.version = version)}
            /\ \A i, j \in DOMAIN picked : i < j => picked[i] < picked[j])
    /\ Filters!NearestClass' <=>
         (asked' =>
            /\ Filters!ToSet(picked)' =
                 {n \in Class' : nodes'[n].scheme = protocol'
                      /\ (version' # Filters!Absent =>
                             nodes'[n].md # Filters!NoMetadata /\ nodes'[n].md.version = version')}
            /\ \A i, j \in DOMAIN picked' : i < j => picked'[i] < picked'[j])
BY DEF Filters!NearestClass, Class, NearestFar

FiltersInv == Filters!TypeOK /\ Filters!NearestClass

LEMMA FiltersInit == Filters!Init /\ MaxNodes \in Nat => FiltersInv
<1> SUFFICES ASSUME Filters!Init, MaxNodes \in Nat PROVE FiltersInv
    OBVIOUS
<1>1. PICK n \in 0..MaxNodes : nodes \in [1..n -> Filters!Nodes]
    BY DEF Filters!Init
<1>2. nodes \in Seq(Filters!Nodes) /\ Len(nodes) = n
    BY <1>1
<1>3. Filters!ToSet(picked) = {}
    BY DEF Filters!Init, Filters!ToSet
<1>4. Filters!TypeOK
    <2>1. Filters!ToSet(picked) \subseteq DOMAIN nodes /\ Len(nodes) <= MaxNodes
        BY <1>1, <1>2, <1>3
    <2> QED BY <1>2, <2>1 DEF Filters!Init, Filters!TypeOK
<1>5. Filters!NearestClass
    BY Zenon DEF Filters!Init, Filters!NearestClass
<1> QED
    BY <1>4, <1>5 DEF FiltersInv

LEMMA SelectIs ==
    ASSUME FiltersInv, Filters!Select
    PROVE  FiltersInv'
<1> DEFINE all == [n \in DOMAIN nodes |-> n]
           env == Filters!Env(all)
           scheme == Filters!Scheme(env)
           target == Filters!Target(scheme)
           Speaking == {n \in DOMAIN nodes : nodes[n].scheme = protocol}
           Asked == {n \in DOMAIN nodes : version # Filters!Absent =>
                         nodes[n].md # Filters!NoMetadata /\ nodes[n].md.version = version}
<1>1. /\ asked' = TRUE /\ picked' = target
      /\ UNCHANGED <<appEnv, protocol, version, nodes>>
    BY DEF Filters!Select
<1>2. Sorted(all) /\ Filters!ToSet(all) = DOMAIN nodes
    <2>1. DOMAIN nodes = 1..Len(nodes) /\ Len(nodes) \in Nat
        BY DEF FiltersInv, Filters!TypeOK
    <2>2. all \in Seq(Nat) /\ Len(all) = Len(nodes)
        BY <2>1
    <2> QED BY <2>1, <2>2 DEF Sorted, Filters!ToSet
<1>3. Sorted(env) /\ Filters!ToSet(env) = Class
    BY <1>2, EnvIs DEF FiltersInv
<1> HIDE DEF env
<1>4. Sorted(scheme) /\ Filters!ToSet(scheme) = Class \cap Speaking
    BY <1>3, KeptIs DEF Filters!Scheme
<1> HIDE DEF scheme
<1>5. Sorted(target) /\ Filters!ToSet(target) = Class \cap Speaking \cap Asked
    <2>1. Class \subseteq DOMAIN nodes
        BY DEF Class
    <2>2. CASE version = Filters!Absent
        BY <1>4, <2>1, <2>2 DEF Filters!Target
    <2>3. CASE version # Filters!Absent
        <3>1. target = Filters!WithMetadata([version |-> version], scheme)
            BY <2>3 DEF Filters!Target
        <3>2. Sorted(target) /\ Filters!ToSet(target) = Class \cap Speaking \cap Has([version |-> version])
            BY <1>4, <3>1, MetadataIs
        <3>3. Has([version |-> version]) = Asked
            BY <2>3, EntriesAre
        <3> HIDE DEF target, Asked
        <3> QED BY <3>2, <3>3
    <2> QED BY <2>2, <2>3
<1> HIDE DEF target
<1>6. Class' = Class /\ Speaking' = Speaking /\ Asked' = Asked
    BY <1>1 DEF Class, NearestFar, Filters!Far
<1>7. Filters!NearestClass'
    <2>1. /\ Filters!ToSet(picked)' = Class' \cap Speaking' \cap Asked'
        BY <1>1, <1>5, <1>6 DEF Filters!ToSet
    <2>2. \A i, j \in DOMAIN picked' : i < j => picked'[i] < picked'[j]
        BY <1>1, <1>5 DEF Sorted
    <2>3. Class \subseteq DOMAIN nodes
        BY DEF Class
    <2> QED BY <1>1, <1>6, <2>1, <2>2, <2>3, Classes
<1>8. Filters!TypeOK'
    <2>1. Filters!ToSet(picked)' \subseteq DOMAIN nodes'
        BY <1>1, <1>5, <1>6 DEF Filters!ToSet, Class
    <2> QED BY <1>1, <2>1 DEF FiltersInv, Filters!TypeOK
<1> QED
    BY <1>7, <1>8 DEF FiltersInv

LEMMA FiltersStutter == FiltersInv /\ UNCHANGED Filters!vars => FiltersInv'
<1> SUFFICES ASSUME FiltersInv, UNCHANGED Filters!vars PROVE FiltersInv'
    OBVIOUS
<1> USE DEF Filters!vars
<1>1. Filters!TypeOK'
    BY DEF FiltersInv, Filters!TypeOK, Filters!ToSet
<1>2. NearestFar' = NearestFar /\ Class' = Class
    BY DEF NearestFar, Class, Filters!Far
<1>3. Filters!NearestClass'
    <2>1. Filters!ToSet(picked)' = Filters!ToSet(picked)
        BY DEF Filters!ToSet
    <2> QED BY <1>2, <2>1, Classes DEF FiltersInv
<1> QED
    BY <1>1, <1>3 DEF FiltersInv



LEMMA FiltersInvariance == ASSUME MaxNodes \in Nat PROVE Filters!Spec => []FiltersInv
<1>1. FiltersInv /\ [Filters!Next]_(Filters!vars) => FiltersInv'
    BY SelectIs, FiltersStutter DEF Filters!Next
<1> QED
    BY <1>1, FiltersInit, PTL DEF Filters!Spec

-----------------------------------------------------------------------------
(* The parts together. *)
TreeP == INSTANCE LogTreeProofs WITH
    MaxUpdates <- MaxTreeUpdates, clock <- treeClock, global <- treeGlobal
MetricsP == INSTANCE InstrumentsProofs WITH pc <- instPc

\* Every part takes the steps of its own specification, or none.
LEMMA PartsAre ==
    Parts => Spec /\ Tree!Spec /\ Metrics!Spec /\ Route!Spec /\ Filters!Spec
<1>1. Inits => Init /\ Tree!Init /\ Metrics!Init /\ Route!Init /\ Filters!Init
    BY DEF Inits
<1>2. [NextPart]_allVars => [Next]_vars
    BY DEF NextPart, allVars
<1>3. [NextPart]_allVars => [Tree!Next]_(Tree!vars)
    BY DEF NextPart, allVars, treeVars, Tree!vars
<1>4. [NextPart]_allVars => [Metrics!Next]_(Metrics!vars)
    BY DEF NextPart, allVars, metricVars, Metrics!vars, Metrics!callVars
<1>5. [NextPart]_allVars => [Route!Next]_(Route!vars)
    BY DEF NextPart, allVars, routeVars, Route!vars
<1>6. [NextPart]_allVars => [Filters!Next]_(Filters!vars)
    BY DEF NextPart, allVars, filterVars, Filters!vars
<1> QED
    BY <1>1, <1>2, <1>3, <1>4, <1>5, <1>6, PTL
        DEF Parts, Spec, Tree!Spec, Metrics!Spec, Route!Spec, Filters!Spec

\* The instance of the component and the one of its proofs are the same.
LEMMA SameTree ==
    /\ Tree!Init <=> TreeP!Init
    /\ [Tree!Next]_(Tree!vars) <=> [TreeP!Next]_(TreeP!vars)
    /\ Tree!TypeOK <=> TreeP!TypeOK
    /\ Tree!FreshGeneration <=> TreeP!FreshGeneration
    /\ Tree!OwnSettings <=> TreeP!OwnSettings
BY DEF
       Tree!Once, TreeP!Once, Tree!Twice, TreeP!Twice, Tree!Core, TreeP!Core, Tree!KvLogger,
       TreeP!KvLogger, Tree!Plain, TreeP!Plain, Tree!Layer1, TreeP!Layer1, Tree!Layer2,
       TreeP!Layer2, Tree!Layer3, TreeP!Layer3, Tree!Layer4, TreeP!Layer4, Tree!Depth,
       TreeP!Depth, Tree!IsPlain, TreeP!IsPlain, Tree!CacheEntry, TreeP!CacheEntry,
       Tree!FullBuild, TreeP!FullBuild, Tree!Reusable, TreeP!Reusable, Tree!IncrementalBuild,
       TreeP!IncrementalBuild, Tree!BuildCache, TreeP!BuildCache, Tree!Stale, TreeP!Stale,
       Tree!vars, TreeP!vars, Tree!NoLevel, TreeP!NoLevel, Tree!Contents, TreeP!Contents,
       Tree!Init, TreeP!Init, Tree!Rebuilt, TreeP!Rebuilt, Tree!Derive, TreeP!Derive,
       Tree!Appended, TreeP!Appended, Tree!With, TreeP!With, Tree!FilterKeys, TreeP!FilterKeys,
       Tree!WithContext, TreeP!WithContext, Tree!WithCallerDepth, TreeP!WithCallerDepth,
       Tree!AddCallerDepth, TreeP!AddCallerDepth, Tree!FilterLevel, TreeP!FilterLevel,
       Tree!Disable, TreeP!Disable, Tree!Update, TreeP!Update, Tree!HookWith, TreeP!HookWith,
       Tree!Passes, TreeP!Passes, Tree!Log, TreeP!Log, Tree!Next, TreeP!Next, Tree!Effective,
       TreeP!Effective, Tree!TypeOK, TreeP!TypeOK, Tree!FreshGeneration, TreeP!FreshGeneration,
       Tree!OwnSettings, TreeP!OwnSettings

LEMMA TreeIs == Tree!Spec <=> TreeP!Spec
BY SameTree, PTL DEF Tree!Spec, TreeP!Spec

LEMMA SameMetrics ==
    /\ Metrics!Init <=> MetricsP!Init
    /\ [Metrics!Next]_(Metrics!vars) <=> [MetricsP!Next]_(MetricsP!vars)
    /\ Metrics!TypeOK <=> MetricsP!TypeOK
    /\ Metrics!Registry!Init <=> MetricsP!Registry!Init
    /\ [Metrics!Registry!Next]_(Metrics!Registry!vars)
         <=> [MetricsP!Registry!Next]_(MetricsP!Registry!vars)
BY DEF
       Metrics!callVars, MetricsP!callVars, Metrics!vars, MetricsP!vars, Metrics!None,
       MetricsP!None, Metrics!Failed, MetricsP!Failed, Metrics!Exists, MetricsP!Exists,
       Metrics!Invalid, MetricsP!Invalid, Metrics!Insts, MetricsP!Insts, Metrics!TypeOK,
       MetricsP!TypeOK, Metrics!Init, MetricsP!Init, Metrics!Move, MetricsP!Move,
       Metrics!Answer, MetricsP!Answer, Metrics!Make, MetricsP!Make, Metrics!CallAdd,
       MetricsP!CallAdd, Metrics!LookUp, MetricsP!LookUp, Metrics!Refused, MetricsP!Refused,
       Metrics!Create, MetricsP!Create, Metrics!CreateFails, MetricsP!CreateFails,
       Metrics!ReadAgain, MetricsP!ReadAgain, Metrics!Use, MetricsP!Use, Metrics!CallRegister,
       MetricsP!CallRegister, Metrics!RegisterOwn, MetricsP!RegisterOwn, Metrics!RegisterNew,
       MetricsP!RegisterNew, Metrics!CallStep, MetricsP!CallStep, Metrics!Next, MetricsP!Next,
       Metrics!AtomicGot, MetricsP!AtomicGot, Metrics!Registry!Init, MetricsP!Registry!Init,
       Metrics!Registry!Next, MetricsP!Registry!Next, Metrics!Registry!vars,
       MetricsP!Registry!vars, Metrics!Registry!Ask, MetricsP!Registry!Ask,
       Metrics!Registry!Hit, MetricsP!Registry!Hit, Metrics!Registry!Create,
       MetricsP!Registry!Create, Metrics!Registry!Fail, MetricsP!Registry!Fail,
       Metrics!Registry!Evict, MetricsP!Registry!Evict

LEMMA MetricsIs ==
    /\ Metrics!Spec <=> MetricsP!Spec
    /\ Metrics!AtomicRegistry <=> MetricsP!AtomicRegistry
BY SameMetrics, PTL DEF Metrics!Spec, MetricsP!Spec, Metrics!AtomicRegistry,
    MetricsP!AtomicRegistry, Metrics!Registry!Spec, MetricsP!Registry!Spec

\* An enabled logger writes to the sinks of the configuration in force and with
\* the hook fields its Update found, and with all of them if it filters keys or
\* sets the caller depth, for any number of loggers derived from one another,
\* fields, updates and hook calls (logger.go:176 and 396).
THEOREM FreshGenerationCorrect ==
    ASSUME MaxHooks \in Nat, MaxTreeUpdates \in Nat \ {0}, MaxDepth \in Nat
    PROVE  Parts => []FreshGeneration
<1>1. TreeP!Spec => []TreeP!FreshGeneration
    BY TreeP!FreshGenerationCorrect DEF TreeP!TreeBounds
<1> QED
    BY <1>1, PartsAre, TreeIs, SameTree, PTL DEF FreshGeneration

\* A logger writes its own fields, filter and caller depth, whatever was derived
\* from the loggers it was derived from, as long as no slice has been extended
\* twice (logger.go:365-461).
THEOREM OwnSettingsCorrect ==
    ASSUME MaxHooks \in Nat, MaxTreeUpdates \in Nat \ {0}, MaxDepth \in Nat
    PROVE  Parts => []OwnSettings
<1>1. TreeP!Spec => []TreeP!OwnSettings
    BY TreeP!OwnSettingsCorrect DEF TreeP!TreeBounds
<1> QED
    BY <1>1, PartsAre, TreeIs, SameTree, PTL DEF OwnSettings

\* The registry of instruments implements the one that answers in one step, for
\* any goroutines and names (metrics.go:100-153).
THEOREM AtomicRegistryCorrect ==
    ASSUME MaxInstruments \in Nat
    PROVE  Parts => AtomicRegistry
<1>1. MetricsP!Spec => MetricsP!AtomicRegistry
    BY MetricsP!AtomicRegistryCorrect
<1> QED
    BY <1>1, PartsAre, MetricsIs, PTL DEF AtomicRegistry

\* The most specific route decides, for any paths and operations and any length
\* of a configuration (timeout.go:41-100).
THEOREM MostSpecificCorrect ==
    ASSUME RouteConstants
    PROVE  Parts => []MostSpecific
<1>1. RouteInv => MostSpecific
    BY DEF RouteInv, MostSpecific
<1> QED
    BY <1>1, PartsAre, RouteInvariance, PTL

\* Of any number of nodes exactly those of the nearest class that speak the
\* protocol and have the metadata pass, in order (env.go:11-42,
\* client_config.go:36-64).
THEOREM NearestClassCorrect ==
    ASSUME MaxNodes \in Nat
    PROVE  Parts => []NearestClass
<1>1. FiltersInv => NearestClass
    BY DEF FiltersInv, NearestClass
<1> QED
    BY <1>1, PartsAre, FiltersInvariance, PTL

\* The types of every part, for any values of the constants.
THEOREM TypesCorrect ==
    ASSUME MaxHooks \in Nat, MaxTreeUpdates \in Nat \ {0}, MaxDepth \in Nat,
           MaxInstruments \in Nat, RouteConstants, MaxNodes \in Nat
    PROVE  Parts => []TypesOK
<1>1. TreeP!Spec => []TreeP!TypeOK
    BY TreeP!TypeCorrect DEF TreeP!TreeBounds
<1>2. MetricsP!Spec => []MetricsP!TypeOK
    BY MetricsP!TypeCorrect
<1>3. RouteInv => Route!TypeOK
    BY DEF RouteInv
<1>4. FiltersInv => Filters!TypeOK
    BY DEF FiltersInv
<1>5. TypeOK /\ Tree!TypeOK /\ Metrics!TypeOK /\ Route!TypeOK /\ Filters!TypeOK => TypesOK
    BY DEF TypesOK
<1> QED
    BY <1>1, <1>2, <1>3, <1>4, <1>5, PartsAre, TypeCorrect, TreeIs, SameTree, MetricsIs, SameMetrics,
       RouteInvariance, FiltersInvariance, PTL
=============================================================================
