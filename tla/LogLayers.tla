------------------------------ MODULE LogLayers ------------------------------
(***************************************************************************)
(* The layered, cached loggers of pkg/log/logger.go as operators.  A layer *)
(* is represented by what a record that passes through it is given: the    *)
(* generation of the sinks it reaches (one per Update), the keys filtered, *)
(* how often each hook field is added, the caller depth, the logger's own  *)
(* fields, the context and the level filter on top.                        *)
(***************************************************************************)
EXTENDS Integers, Sequences

CONSTANTS
    MaxHooks,       \* bound: the number of fields the hook may receive
    NoCtx           \* the nil context

Once(n) == [h \in 1..MaxHooks |-> IF h <= n THEN 1 ELSE 0]

Twice(n, m) == [h \in 1..MaxHooks |-> Once(n)[h] + Once(m)[h]]

\* global.coreLogger, global.kvLogger and global.logger after an Update that
\* found global.hooks fields in the hook.
Core(global) ==
    [gen |-> global.gen, filter |-> {}, hooks |-> Once(0), depth |-> 0,
     kv |-> <<>>, ctx |-> NoCtx, level |-> 0]

KvLogger(global) == [Core(global) EXCEPT !.hooks = Once(global.hooks)]

Plain(global) == [KvLogger(global) EXCEPT !.level = global.level]

\* The four layers.  Layer 2 adds the preset fields of the Update, the hook
\* fields it found among them, and the hook's fields again.
Layer1(l, global) == [Core(global) EXCEPT !.filter = l.filter]

Layer2(l, global, hook, layer1) ==
    [layer1 EXCEPT !.hooks = Twice(global.hooks, hook.n), !.depth = l.depth]

Layer3(kv, layer2) == [layer2 EXCEPT !.kv = kv]

Layer4(l, layer3) == [layer3 EXCEPT !.ctx = l.ctx]

\* The caller depth buildCache leaves in the logger.
Depth(l, global) == IF global.hasCaller THEN l.depth ELSE 0

IsPlain(l, kv) == kv = <<>> /\ l.filter = {} /\ l.depth = 0 /\ l.ctx = NoCtx

\* The entry keeps the slice of the fields, not a copy of them.
CacheEntry(l, layer1, layer2, layer3, out, now) ==
    [out |-> out, ts |-> now, layer1 |-> layer1, layer2 |-> layer2, layer3 |-> layer3,
     filter |-> l.filter, depth |-> l.depth, kv |-> l.kv, ctx |-> l.ctx]

FullBuild(l, kv, global, hook, now) ==
    LET layer1 == Layer1(l, global)
        layer2 == Layer2(l, global, hook, layer1)
        layer3 == Layer3(kv, layer2)
    IN  CacheEntry(l, layer1, layer2, layer3, Layer4(l, layer3), now)

\* Mutant: the time of the configuration is not compared.
ReusableUntimed(l, global, hook, cache) ==
    cache.ts > hook.ts /\ l.filter = cache.filter

\* The cached layers are those of the current configuration.
Reusable(l, global, hook, cache) ==
    /\ cache.ts > global.ts
    /\ cache.ts > hook.ts
    /\ l.filter = cache.filter

\* Mutant: a change of the fields is taken for no change.
BuildSameFields(l, kv, cachedKv, global, hook, cache, now) ==
    LET deeper == Layer2(l, global, hook, cache.layer1)
    IN  IF l.depth # cache.depth
        THEN CacheEntry(l, cache.layer1, deeper, Layer3(kv, deeper),
                        Layer4(l, Layer3(kv, deeper)), now)
        ELSE CacheEntry(l, cache.layer1, cache.layer2, cache.layer3, cache.out, now)

\* The layers above the first change are rebuilt; a new context alone finds
\* the top layer cached and keeps it.
IncrementalBuild(l, kv, cachedKv, global, hook, cache, now) ==
    LET deeper == Layer2(l, global, hook, cache.layer1)
        dressed == Layer3(kv, cache.layer2)
    IN  IF l.depth # cache.depth
        THEN CacheEntry(l, cache.layer1, deeper, Layer3(kv, deeper),
                        Layer4(l, Layer3(kv, deeper)), now)
        ELSE IF kv # cachedKv
        THEN CacheEntry(l, cache.layer1, cache.layer2, dressed, Layer4(l, dressed), now)
        ELSE CacheEntry(l, cache.layer1, cache.layer2, cache.layer3, cache.out, now)

\* buildCache of an enabled logger whose own fields are kv.
BuildCache(l, kv, cachedKv, global, hook, cache, now) ==
    IF IsPlain(l, kv)
    THEN CacheEntry(l, Core(global), KvLogger(global), KvLogger(global), Plain(global), now)
    ELSE IF Reusable(l, global, hook, cache)
    THEN IncrementalBuild(l, kv, cachedKv, global, hook, cache, now)
    ELSE FullBuild(l, kv, global, hook, now)

\* Log's test whether the cache must be rebuilt first.
Stale(cache, global, hook) == cache.ts < global.ts \/ cache.ts < hook.ts
=============================================================================
