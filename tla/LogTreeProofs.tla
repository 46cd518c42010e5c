---------------------------- MODULE LogTreeProofs ----------------------------
(***************************************************************************)
(* Loggers derived from one another, for any number of loggers, fields,    *)
(* updates and hook calls.  What makes the invariant inductive is what it  *)
(* says of a cache that Log would not rebuild: all its layers, not only    *)
(* the top one, belong to the configuration and the hook in force and      *)
(* carry the settings the cache was built for.  That is why buildCache may *)
(* put new layers on the cached ones.                                      *)
(***************************************************************************)
EXTENDS LogTree, SequenceTheorems, TLAPS

\* What the theorems ask of the bounds.
TreeBounds == MaxHooks \in Nat /\ MaxUpdates \in Nat \ {0} /\ MaxDepth \in Nat

Contextual == {NoCtx} \cup Contexts
Slices == [arr : Nat, len : Nat]
Arrays == Seq([cap : Nat, elems : Seq(Fields)])
Globals == [gen : 1..MaxUpdates, ts : Nat, level : Levels, hooks : 0..MaxHooks,
            hasCaller : BOOLEAN]
Hooks == [n : 0..MaxHooks, ts : Nat]
Layers ==
    [gen : 1..MaxUpdates, filter : SUBSET FilterNames, hooks : [1..MaxHooks -> Nat],
     depth : 0..MaxDepth, kv : Seq(Fields), ctx : Contextual, level : {0} \cup Levels]
Caches ==
    [out : Layers, ts : Nat, layer1 : Layers, layer2 : Layers, layer3 : Layers,
     filter : SUBSET FilterNames, depth : 0..MaxDepth, kv : Slices, ctx : Contextual]
Loggers ==
    [disable : BOOLEAN, level : {NoLevel} \cup Levels, filter : SUBSET FilterNames,
     depth : 0..MaxDepth, kv : Slices, ctx : Contextual, cache : Caches,
     asked : Seq(Fields), deaf : BOOLEAN]

Types ==
    /\ clock \in Nat /\ forked \in BOOLEAN
    /\ global \in Globals /\ hook \in Hooks
    /\ global.ts <= clock /\ hook.ts <= clock /\ global.hooks <= hook.n
    /\ loggers \in Seq(Loggers) /\ arrays \in Arrays
    /\ \A a \in DOMAIN arrays : Len(arrays[a].elems) <= arrays[a].cap

\* A slice lies within its backing array.
Fits(kv, arrs) == kv.arr \in DOMAIN arrs /\ kv.len <= Len(arrs[kv.arr].elems)

\* Every layer of the cache belongs to configuration g and hook h, and has the
\* filter and the caller depth of the cache.
Dressed(c, g, h) ==
    /\ c.layer1.gen = g.gen /\ c.layer2.gen = g.gen /\ c.layer3.gen = g.gen /\ c.out.gen = g.gen
    /\ c.layer1.filter = c.filter /\ c.layer2.filter = c.filter
    /\ c.layer3.filter = c.filter /\ c.out.filter = c.filter
    /\ c.layer2.depth = c.depth /\ c.layer3.depth = c.depth /\ c.out.depth = c.depth
    /\ c.layer2.hooks \in {Once(g.hooks), Twice(g.hooks, h.n)}
    /\ c.filter # {} \/ c.depth # 0 => c.layer2.hooks = Twice(g.hooks, h.n)
    /\ c.layer3.hooks = c.layer2.hooks /\ c.out.hooks = c.layer2.hooks

\* The upper layers add the fields kv.
Wears(c, kv) == c.layer3.kv = kv /\ c.out.kv = kv

\* A logger as the configuration g and the hook h have it: its slices are in
\* place, and a cache that Log would not rebuild is of g and h.
Sound(l, g, h, arrs, fork, now) ==
    /\ Fits(l.kv, arrs) /\ Fits(l.cache.kv, arrs) /\ l.cache.ts <= now
    /\ ~Stale(l.cache, g, h) => Dressed(l.cache, g, h)
    /\ ~fork =>
         /\ Contents(arrs, l.kv) = l.asked
         /\ ~Stale(l.cache, g, h) => Wears(l.cache, Contents(arrs, l.cache.kv))

\* The cache was built for the settings the logger has.
Matches(l) ==
    ~l.deaf => /\ l.cache.filter = l.filter /\ l.cache.depth = l.depth
               /\ l.cache.kv = l.kv

TreeInv ==
    /\ Types
    /\ \A i \in DOMAIN loggers :
         Sound(loggers[i], global, hook, arrays, forked, clock) /\ Matches(loggers[i])

-----------------------------------------------------------------------------
(* The operators that build a cache. *)

\* Fields that have been added once or twice.
LEMMA OnceAdded ==
    ASSUME NEW n, NEW m, NEW h, n \in Nat, m \in Nat, h \in 1..MaxHooks, MaxHooks \in Nat,
           h <= m
    PROVE  Once(m)[h] > 0 /\ Twice(m, n)[h] > 0 /\ Twice(n, m)[h] > 0
<1>1. Once(m)[h] = 1
    BY DEF Once
<1>2. Once(n)[h] = 0 \/ Once(n)[h] = 1
    BY DEF Once
<1>3. /\ Twice(n, m)[h] = Once(n)[h] + Once(m)[h]
      /\ Twice(m, n)[h] = Once(m)[h] + Once(n)[h]
    BY DEF Twice
<1>4. CASE Once(n)[h] = 0
    BY <1>1, <1>3, <1>4
<1>5. CASE Once(n)[h] = 1
    BY <1>1, <1>3, <1>5
<1> QED
    BY <1>2, <1>4, <1>5

LEMMA HookCounts ==
    ASSUME TreeBounds, NEW n \in Nat, NEW m \in Nat
    PROVE  Once(n) \in [1..MaxHooks -> Nat] /\ Twice(n, m) \in [1..MaxHooks -> Nat]
<1>1. Once(n) \in [1..MaxHooks -> Nat] /\ Once(m) \in [1..MaxHooks -> Nat]
    BY DEF Once
<1> QED
    BY <1>1 DEF Twice

\* The settings of a logger or of the copy it is rebuilt from.
Set(l) ==
    /\ l.filter \in SUBSET FilterNames /\ l.depth \in 0..MaxDepth /\ l.kv \in Slices
    /\ l.ctx \in Contextual

LEMMA GlobalLayers ==
    ASSUME TreeBounds, NEW g \in Globals
    PROVE  /\ Core(g) \in Layers /\ KvLogger(g) \in Layers /\ Plain(g) \in Layers
           /\ Core(g).gen = g.gen /\ Core(g).filter = {}
           /\ KvLogger(g).gen = g.gen /\ KvLogger(g).filter = {} /\ KvLogger(g).depth = 0
           /\ KvLogger(g).hooks = Once(g.hooks) /\ KvLogger(g).kv = <<>>
           /\ Plain(g).gen = g.gen /\ Plain(g).filter = {} /\ Plain(g).depth = 0
           /\ Plain(g).hooks = Once(g.hooks) /\ Plain(g).kv = <<>>
<1>1. Once(0) \in [1..MaxHooks -> Nat] /\ Once(g.hooks) \in [1..MaxHooks -> Nat]
    BY HookCounts DEF Globals
<1>2. <<>> \in Seq(Fields) /\ 0 \in 0..MaxDepth
    BY DEF TreeBounds
<1>3. Core(g) \in Layers /\ Core(g).gen = g.gen /\ Core(g).filter = {} /\ Core(g).depth = 0
      /\ Core(g).kv = <<>>
    BY <1>1, <1>2 DEF Core, Layers, Globals, Contextual
<1>4. /\ KvLogger(g) \in Layers
      /\ KvLogger(g).gen = g.gen /\ KvLogger(g).filter = {} /\ KvLogger(g).depth = 0
      /\ KvLogger(g).hooks = Once(g.hooks) /\ KvLogger(g).kv = <<>>
    BY <1>1, <1>3 DEF KvLogger, Layers
<1>5. g.level \in {0} \cup Levels
    BY DEF Globals
<1> QED
    BY <1>3, <1>4, <1>5 DEF Plain, Layers

LEMMA Layer1Is ==
    ASSUME TreeBounds, NEW g \in Globals, NEW l, Set(l)
    PROVE  /\ Layer1(l, g) \in Layers /\ Layer1(l, g).gen = g.gen
           /\ Layer1(l, g).filter = l.filter
<1>1. Core(g) \in Layers /\ Core(g).gen = g.gen
    BY GlobalLayers
<1> QED
    BY <1>1 DEF Layer1, Layers, Set

LEMMA Layer2Is ==
    ASSUME NEW g, NEW h, NEW l, NEW layer,
           TreeBounds, g \in Globals, h \in Hooks, Set(l), layer \in Layers
    PROVE  /\ Layer2(l, g, h, layer) \in Layers
           /\ Layer2(l, g, h, layer).gen = layer.gen
           /\ Layer2(l, g, h, layer).filter = layer.filter
           /\ Layer2(l, g, h, layer).hooks = Twice(g.hooks, h.n)
           /\ Layer2(l, g, h, layer).depth = l.depth
<1>1. Twice(g.hooks, h.n) \in [1..MaxHooks -> Nat]
    BY HookCounts DEF Globals, Hooks
<1> QED
    BY <1>1 DEF Layer2, Layers, Set

LEMMA Layer3Is ==
    ASSUME NEW layer \in Layers, NEW kv \in Seq(Fields)
    PROVE  /\ Layer3(kv, layer) \in Layers /\ Layer3(kv, layer).kv = kv
           /\ Layer3(kv, layer).gen = layer.gen /\ Layer3(kv, layer).filter = layer.filter
           /\ Layer3(kv, layer).hooks = layer.hooks /\ Layer3(kv, layer).depth = layer.depth
BY DEF Layer3, Layers

LEMMA Layer4Is ==
    ASSUME NEW l, Set(l), NEW layer \in Layers
    PROVE  /\ Layer4(l, layer) \in Layers /\ Layer4(l, layer).kv = layer.kv
           /\ Layer4(l, layer).gen = layer.gen /\ Layer4(l, layer).filter = layer.filter
           /\ Layer4(l, layer).hooks = layer.hooks /\ Layer4(l, layer).depth = layer.depth
BY DEF Layer4, Layers, Set

LEMMA EntryFields ==
    ASSUME NEW l, NEW a, NEW b, NEW d, NEW o, NEW now
    PROVE  LET c == CacheEntry(l, a, b, d, o, now)
           IN  /\ c.out = o /\ c.ts = now /\ c.layer1 = a /\ c.layer2 = b /\ c.layer3 = d
               /\ c.filter = l.filter /\ c.depth = l.depth /\ c.kv = l.kv
BY DEF CacheEntry

LEMMA EntryType ==
    ASSUME NEW l, Set(l), NEW a \in Layers, NEW b \in Layers, NEW d \in Layers, NEW o \in Layers,
           NEW now \in Nat
    PROVE  CacheEntry(l, a, b, d, o, now) \in Caches
BY DEF CacheEntry, Caches, Set

\* What buildCache stores is of the configuration in force, for the settings
\* of the logger and with its fields.
Built(c, l, kv, g, h, now) ==
    /\ c \in Caches /\ c.ts = now
    /\ c.filter = l.filter /\ c.depth = l.depth /\ c.kv = l.kv
    /\ Dressed(c, g, h)

LEMMA PlainBuild ==
    ASSUME TreeBounds, NEW g \in Globals, NEW h \in Hooks, NEW l, Set(l), NEW kv, IsPlain(l, kv),
           NEW now \in Nat, NEW c,
           c = CacheEntry(l, Core(g), KvLogger(g), KvLogger(g), Plain(g), now)
    PROVE  Built(c, l, kv, g, h, now) /\ Wears(c, kv)
<1>1. /\ c \in Caches /\ c.out = Plain(g) /\ c.ts = now
      /\ c.layer1 = Core(g) /\ c.layer2 = KvLogger(g) /\ c.layer3 = KvLogger(g)
      /\ c.filter = l.filter /\ c.depth = l.depth /\ c.kv = l.kv
    <2>1. /\ c.out = Plain(g) /\ c.ts = now
          /\ c.layer1 = Core(g) /\ c.layer2 = KvLogger(g) /\ c.layer3 = KvLogger(g)
          /\ c.filter = l.filter /\ c.depth = l.depth /\ c.kv = l.kv
        BY EntryFields
    <2>2. c \in Caches
        BY GlobalLayers, EntryType
    <2> QED
        BY <2>1, <2>2
<1> QED
    BY <1>1, GlobalLayers DEF Built, Wears, Dressed, IsPlain

LEMMA FullBuildIs ==
    ASSUME NEW g, NEW h, NEW l, NEW kv, NEW now, NEW c,
           TreeBounds, g \in Globals, h \in Hooks, Set(l), kv \in Seq(Fields), now \in Nat,
           c = FullBuild(l, kv, g, h, now)
    PROVE  Built(c, l, kv, g, h, now) /\ Wears(c, kv)
<1> DEFINE a == Layer1(l, g)
           b == Layer2(l, g, h, a)
           d == Layer3(kv, b)
           o == Layer4(l, d)
<1>1. a \in Layers /\ a.gen = g.gen /\ a.filter = l.filter
    BY Layer1Is
<1>2. /\ b \in Layers /\ b.gen = a.gen /\ b.filter = a.filter /\ b.depth = l.depth
      /\ b.hooks = Twice(g.hooks, h.n)
    BY <1>1, Layer2Is
<1>3. /\ d \in Layers /\ d.gen = b.gen /\ d.filter = b.filter /\ d.depth = b.depth
      /\ d.hooks = b.hooks /\ d.kv = kv
    BY <1>2, Layer3Is
<1>4. /\ o \in Layers /\ o.gen = d.gen /\ o.filter = d.filter /\ o.depth = d.depth
      /\ o.hooks = d.hooks /\ o.kv = d.kv
    BY <1>3, Layer4Is
<1>5. c = CacheEntry(l, a, b, d, o, now)
    BY DEF FullBuild
<1> HIDE DEF a, b, d, o
<1>6. /\ c \in Caches /\ c.out = o /\ c.ts = now
      /\ c.layer1 = a /\ c.layer2 = b /\ c.layer3 = d
      /\ c.filter = l.filter /\ c.depth = l.depth /\ c.kv = l.kv
    <2>1. /\ c.out = o /\ c.ts = now
          /\ c.layer1 = a /\ c.layer2 = b /\ c.layer3 = d
          /\ c.filter = l.filter /\ c.depth = l.depth /\ c.kv = l.kv
        BY <1>5, EntryFields
    <2>2. c \in Caches
        BY <1>1, <1>2, <1>3, <1>4, <1>5, EntryType
    <2> QED
        BY <2>1, <2>2
<1> QED
    BY <1>1, <1>2, <1>3, <1>4, <1>6 DEF Built, Wears, Dressed

LEMMA IncrementalIs ==
    ASSUME NEW g, NEW h, NEW l, NEW kv, NEW cachedKv, NEW cache, NEW now, NEW c,
           TreeBounds, g \in Globals, h \in Hooks, Set(l), kv \in Seq(Fields), cache \in Caches,
           now \in Nat, Dressed(cache, g, h), l.filter = cache.filter,
           c = IncrementalBuild(l, kv, cachedKv, g, h, cache, now)
    PROVE  /\ Built(c, l, kv, g, h, now)
           /\ Wears(cache, cachedKv) => Wears(c, kv)
<1> DEFINE b == Layer2(l, g, h, cache.layer1)
           d == Layer3(kv, b)
           o == Layer4(l, d)
           e == Layer3(kv, cache.layer2)
           p == Layer4(l, e)
<1>0. /\ cache.layer1 \in Layers /\ cache.layer2 \in Layers /\ cache.layer3 \in Layers
      /\ cache.out \in Layers
    BY DEF Caches
<1>1. /\ b \in Layers /\ b.gen = cache.layer1.gen /\ b.filter = cache.layer1.filter
      /\ b.depth = l.depth /\ b.hooks = Twice(g.hooks, h.n)
    BY <1>0, Layer2Is
<1>2. /\ d \in Layers /\ d.gen = b.gen /\ d.filter = b.filter /\ d.depth = b.depth
      /\ d.hooks = b.hooks /\ d.kv = kv
    BY <1>1, Layer3Is
<1>3. /\ o \in Layers /\ o.gen = d.gen /\ o.filter = d.filter /\ o.depth = d.depth
      /\ o.hooks = d.hooks /\ o.kv = d.kv
    BY <1>2, Layer4Is
<1>4. /\ e \in Layers /\ e.gen = cache.layer2.gen /\ e.filter = cache.layer2.filter
      /\ e.depth = cache.layer2.depth /\ e.hooks = cache.layer2.hooks /\ e.kv = kv
    <2>1. cache.layer2 \in Layers
        BY <1>0
    <2> QED
        BY <2>1, Layer3Is
<1>5. /\ p \in Layers /\ p.gen = e.gen /\ p.filter = e.filter /\ p.depth = e.depth
      /\ p.hooks = e.hooks /\ p.kv = e.kv
    BY <1>4, Layer4Is
<1>6. c =
        IF l.depth # cache.depth
        THEN CacheEntry(l, cache.layer1, b, d, o, now)
        ELSE IF kv # cachedKv
        THEN CacheEntry(l, cache.layer1, cache.layer2, e, p, now)
        ELSE CacheEntry(l, cache.layer1, cache.layer2, cache.layer3, cache.out, now)
    BY DEF IncrementalBuild
<1> HIDE DEF b, d, o, e, p
<1>7. CASE l.depth # cache.depth
    <2>1. /\ c \in Caches /\ c.out = o /\ c.ts = now
          /\ c.layer1 = cache.layer1 /\ c.layer2 = b /\ c.layer3 = d
          /\ c.filter = l.filter /\ c.depth = l.depth /\ c.kv = l.kv
        <3>1. /\ c.out = o /\ c.ts = now
              /\ c.layer1 = cache.layer1 /\ c.layer2 = b /\ c.layer3 = d
              /\ c.filter = l.filter /\ c.depth = l.depth /\ c.kv = l.kv
            BY <1>6, <1>7, EntryFields
        <3>2. c \in Caches
            BY <1>0, <1>1, <1>2, <1>3, <1>6, <1>7, EntryType
        <3> QED
            BY <3>1, <3>2
    <2> QED
        BY <1>1, <1>2, <1>3, <2>1 DEF Built, Wears, Dressed
<1>8. CASE l.depth = cache.depth /\ kv # cachedKv
    <2>1. /\ c \in Caches /\ c.out = p /\ c.ts = now
          /\ c.layer1 = cache.layer1 /\ c.layer2 = cache.layer2 /\ c.layer3 = e
          /\ c.filter = l.filter /\ c.depth = l.depth /\ c.kv = l.kv
        <3>1. /\ c.out = p /\ c.ts = now
              /\ c.layer1 = cache.layer1 /\ c.layer2 = cache.layer2 /\ c.layer3 = e
              /\ c.filter = l.filter /\ c.depth = l.depth /\ c.kv = l.kv
            BY <1>6, <1>8, EntryFields
        <3>2. c \in Caches
            BY <1>0, <1>4, <1>5, <1>6, <1>8, EntryType
        <3> QED
            BY <3>1, <3>2
    <2> QED
        BY <1>4, <1>5, <1>8, <2>1 DEF Built, Wears, Dressed
<1>9. CASE l.depth = cache.depth /\ kv = cachedKv
    <2>1. /\ c \in Caches /\ c.out = cache.out /\ c.ts = now
          /\ c.layer1 = cache.layer1 /\ c.layer2 = cache.layer2 /\ c.layer3 = cache.layer3
          /\ c.filter = l.filter /\ c.depth = l.depth /\ c.kv = l.kv
        <3>1. /\ c.out = cache.out /\ c.ts = now
              /\ c.layer1 = cache.layer1 /\ c.layer2 = cache.layer2 /\ c.layer3 = cache.layer3
              /\ c.filter = l.filter /\ c.depth = l.depth /\ c.kv = l.kv
            BY <1>6, <1>9, EntryFields
        <3>2. c \in Caches
            BY <1>0, <1>6, <1>9, EntryType
        <3> QED
            BY <3>1, <3>2
    <2> QED
        BY <1>9, <2>1 DEF Built, Wears, Dressed
<1> QED
    BY <1>7, <1>8, <1>9

LEMMA BuildIs ==
    ASSUME NEW g, NEW h, NEW l, NEW kv, NEW cachedKv, NEW cache, NEW now, NEW c,
           TreeBounds, g \in Globals, h \in Hooks, Set(l), kv \in Seq(Fields), cache \in Caches,
           now \in Nat, Stale(cache, g, h) \/ Dressed(cache, g, h),
           c = BuildCache(l, kv, cachedKv, g, h, cache, now)
    PROVE  /\ Built(c, l, kv, g, h, now)
           /\ Stale(cache, g, h) \/ Wears(cache, cachedKv) => Wears(c, kv)
<1>1. CASE IsPlain(l, kv)
    BY <1>1, PlainBuild DEF BuildCache
<1>2. CASE ~IsPlain(l, kv) /\ Reusable(l, g, h, cache)
    <2>1. ~Stale(cache, g, h) /\ l.filter = cache.filter
        BY <1>2 DEF Reusable, Stale, Caches, Globals, Hooks
    <2>2. c = IncrementalBuild(l, kv, cachedKv, g, h, cache, now)
        BY <1>2 DEF BuildCache
    <2>3. Dressed(cache, g, h)
        BY <2>1
    <2> QED
        BY <2>1, <2>2, <2>3, IncrementalIs
<1>3. CASE ~IsPlain(l, kv) /\ ~Reusable(l, g, h, cache)
    BY <1>3, FullBuildIs DEF BuildCache
<1> QED
    BY <1>1, <1>2, <1>3

-----------------------------------------------------------------------------
(* Rebuilding a logger. *)
LEMMA ContentsType ==
    ASSUME NEW arrs \in Arrays, NEW kv \in Slices, Fits(kv, arrs)
    PROVE  Contents(arrs, kv) \in Seq(Fields)
<1>1. arrs[kv.arr] \in [cap : Nat, elems : Seq(Fields)]
    BY ElementOfSeq, LenProperties DEF Arrays, Fits
<1>2. arrs[kv.arr].elems \in Seq(Fields) /\ kv.len \in 0..Len(arrs[kv.arr].elems)
    BY <1>1, LenProperties DEF Fits, Slices
<1> QED
    BY <1>2, SubSeqProperties DEF Contents

LEMMA RebuiltIs ==
    ASSUME TreeBounds, global \in Globals, hook \in Hooks,
           NEW l \in Loggers, NEW arrs \in Arrays, NEW now \in Nat,
           Fits(l.kv, arrs), Fits(l.cache.kv, arrs),
           ~Stale(l.cache, global, hook) => Dressed(l.cache, global, hook),
           NEW r, r = Rebuilt(l, arrs, now)
    PROVE  /\ r \in Loggers /\ r.kv = l.kv /\ r.asked = l.asked /\ r.disable = l.disable
           /\ r.filter = l.filter /\ (global.hasCaller => r.depth = l.depth)
           /\ l.disable => r.cache = l.cache /\ r.deaf
           /\ ~l.disable =>
                /\ r.cache.ts = now /\ Dressed(r.cache, global, hook)
                /\ r.cache.filter = r.filter /\ r.cache.depth = r.depth /\ r.cache.kv = r.kv
                /\ (~Stale(l.cache, global, hook)
                      => Wears(l.cache, Contents(arrs, l.cache.kv)))
                     => Wears(r.cache, Contents(arrs, l.kv))
<1>1. CASE l.disable
    BY <1>1, r = [l EXCEPT !.deaf = TRUE] DEF Rebuilt, Loggers
<1>2. CASE ~l.disable
    <2> DEFINE ll == [l EXCEPT !.depth = Depth(l, global), !.deaf = FALSE]
               c == BuildCache(ll, Contents(arrs, ll.kv), Contents(arrs, l.cache.kv), global,
                               hook, l.cache, now)
    <2>1. r = [ll EXCEPT !.cache = c]
        BY <1>2 DEF Rebuilt
    <2>2. Depth(l, global) \in 0..MaxDepth /\ (global.hasCaller => Depth(l, global) = l.depth)
        BY DEF Depth, Loggers, TreeBounds
    <2>3. /\ ll \in Loggers /\ ll.kv = l.kv /\ ll.asked = l.asked /\ ~ll.deaf
          /\ ll.filter = l.filter /\ ll.depth = Depth(l, global) /\ ll.disable = l.disable
        BY <2>2 DEF Loggers
    <2> HIDE DEF ll
    <2>4. Set(ll) /\ ll.kv \in Slices /\ l.cache \in Caches
        BY <2>3 DEF Set, Loggers
    <2>5. Contents(arrs, ll.kv) \in Seq(Fields)
        BY <2>3, <2>4, ContentsType
    <2>6. c = BuildCache(ll, Contents(arrs, ll.kv), Contents(arrs, l.cache.kv), global,
                         hook, l.cache, now)
        OBVIOUS
    <2>u. Stale(l.cache, global, hook) \/ Dressed(l.cache, global, hook)
        OBVIOUS
    <2> HIDE DEF c
    <2>7. /\ Built(c, ll, Contents(arrs, ll.kv), global, hook, now)
          /\ Stale(l.cache, global, hook) \/ Wears(l.cache, Contents(arrs, l.cache.kv))
               => Wears(c, Contents(arrs, ll.kv))
        BY <2>4, <2>5, <2>6, <2>u, BuildIs
    <2>8. /\ r \in Loggers /\ r.cache = c /\ r.kv = ll.kv /\ r.asked = ll.asked
          /\ r.filter = ll.filter /\ r.depth = ll.depth /\ r.disable = ll.disable
        BY <2>1, <2>3, <2>7 DEF Built, Loggers
    <2> QED
        BY <1>2, <2>2, <2>3, <2>7, <2>8 DEF Built
<1> QED
    BY <1>1, <1>2 DEF Loggers

\* A rebuilt logger is sound, and matches its cache.
LEMMA RebuiltSound ==
    ASSUME TreeBounds, global \in Globals, hook \in Hooks, NEW fork \in BOOLEAN,
           NEW l \in Loggers, NEW arrs \in Arrays, NEW now \in Nat,
           Sound(l, global, hook, arrs, fork, now),
           NEW r, r = Rebuilt(l, arrs, now)
    PROVE  r \in Loggers /\ Sound(r, global, hook, arrs, fork, now) /\ Matches(r)
<1>0. Fits(l.kv, arrs) /\ Fits(l.cache.kv, arrs) /\ l.cache.ts <= now
      /\ (~Stale(l.cache, global, hook) => Dressed(l.cache, global, hook))
    BY DEF Sound
<1>1. /\ r \in Loggers /\ r.kv = l.kv /\ r.asked = l.asked /\ r.disable = l.disable
      /\ l.disable => r.cache = l.cache /\ r.deaf
      /\ ~l.disable =>
           /\ r.cache.ts = now /\ Dressed(r.cache, global, hook)
           /\ r.cache.filter = r.filter /\ r.cache.depth = r.depth /\ r.cache.kv = r.kv
           /\ (~Stale(l.cache, global, hook)
                 => Wears(l.cache, Contents(arrs, l.cache.kv)))
                => Wears(r.cache, Contents(arrs, l.kv))
    BY <1>0, RebuiltIs
<1>2. CASE l.disable
    BY <1>1, <1>2 DEF Sound, Matches
<1>3. CASE ~l.disable
    <2>1. Fits(r.kv, arrs) /\ Fits(r.cache.kv, arrs) /\ r.cache.ts <= now
        BY <1>0, <1>1, <1>3
    <2>2. Dressed(r.cache, global, hook) /\ Matches(r)
        BY <1>1, <1>3 DEF Matches
    <2>3. ~fork => /\ Contents(arrs, r.kv) = r.asked
                   /\ Wears(r.cache, Contents(arrs, r.cache.kv))
        BY <1>1, <1>3 DEF Sound
    <2> QED
        BY <1>1, <2>1, <2>2, <2>3 DEF Sound
<1> QED
    BY <1>2, <1>3 DEF Loggers

-----------------------------------------------------------------------------
(* Slices that share backing arrays. *)

\* A sequence extended at its end keeps its prefixes.
LEMMA PrefixKept ==
    ASSUME NEW S, NEW s \in Seq(S), NEW e \in S
    PROVE  /\ \A m \in 0..Len(s) : SubSeq(Append(s, e), 1, m) = SubSeq(s, 1, m)
           /\ SubSeq(Append(s, e), 1, Len(s) + 1) = Append(SubSeq(s, 1, Len(s)), e)
<1> DEFINE t == Append(s, e)
<1>1. /\ t \in Seq(S) /\ Len(t) = Len(s) + 1 /\ Len(s) \in Nat
      /\ \A i \in 1..Len(s) : t[i] = s[i]
      /\ t[Len(s) + 1] = e
    BY AppendProperties, LenProperties
<1> HIDE DEF t
<1>2. ASSUME NEW m \in 0..Len(s)
      PROVE  SubSeq(t, 1, m) = SubSeq(s, 1, m)
    <2>1. /\ SubSeq(t, 1, m) \in Seq(S) /\ Len(SubSeq(t, 1, m)) = m
          /\ \A i \in 1..m : SubSeq(t, 1, m)[i] = t[i]
        BY <1>1, SubSeqProperties
    <2>2. /\ SubSeq(s, 1, m) \in Seq(S) /\ Len(SubSeq(s, 1, m)) = m
          /\ \A i \in 1..m : SubSeq(s, 1, m)[i] = s[i]
        BY <1>1, SubSeqProperties
    <2>3. \A i \in 1..m : SubSeq(t, 1, m)[i] = SubSeq(s, 1, m)[i]
        BY <1>1, <2>1, <2>2
    <2> QED
        BY <2>1, <2>2, <2>3, SeqEqual
<1>3. SubSeq(s, 1, Len(s)) = s
    <2>1. /\ SubSeq(s, 1, Len(s)) \in Seq(S) /\ Len(SubSeq(s, 1, Len(s))) = Len(s)
          /\ \A i \in 1..Len(s) : SubSeq(s, 1, Len(s))[i] = s[i]
        BY <1>1, SubSeqProperties
    <2> QED
        BY <2>1, SeqEqual
<1>4. SubSeq(t, 1, Len(s) + 1) = t
    <2>1. /\ SubSeq(t, 1, Len(t)) \in Seq(S) /\ Len(SubSeq(t, 1, Len(t))) = Len(t)
          /\ \A i \in 1..Len(t) : SubSeq(t, 1, Len(t))[i] = t[i]
        BY <1>1, SubSeqProperties
    <2>2. SubSeq(t, 1, Len(t)) = t
        BY <1>1, <2>1, SeqEqual
    <2> QED
        BY <1>1, <2>2
<1>5. t = Append(s, e)
    BY DEF t
<1> QED
    BY <1>2, <1>3, <1>4, <1>5

\* What the append of With leaves behind: every slice still fits; and unless the
\* slice had been extended before, the new slice has the new field at its end and
\* no other slice has changed.
Extended(kv, f, new) ==
    /\ new.arrays \in Arrays /\ new.kv \in Slices
    /\ \A a \in DOMAIN new.arrays : Len(new.arrays[a].elems) <= new.arrays[a].cap
    /\ Fits(new.kv, new.arrays)
    /\ \A other \in Slices : Fits(other, arrays) => Fits(other, new.arrays)
    /\ ~(kv.len < Len(arrays[kv.arr].elems)) =>
         /\ Contents(new.arrays, new.kv) = Append(Contents(arrays, kv), f)
         /\ \A other \in Slices :
              Fits(other, arrays) => Contents(new.arrays, other) = Contents(arrays, other)

LEMMA AppendedIs ==
    ASSUME arrays \in Arrays, \A a \in DOMAIN arrays : Len(arrays[a].elems) <= arrays[a].cap,
           NEW kv \in Slices, Fits(kv, arrays), NEW f \in Fields
    PROVE  Extended(kv, f, Appended(kv, f))
<1> DEFINE n == kv.len
           k == kv.arr
           array == arrays[k]
           E == array.elems
           elems == IF n < Len(E) THEN [E EXCEPT ![n + 1] = f] ELSE Append(E, f)
           new == Appended(kv, f)
<1>1. /\ n \in Nat /\ k \in DOMAIN arrays /\ DOMAIN arrays = 1..Len(arrays)
      /\ Len(arrays) \in Nat /\ arrays \in [1..Len(arrays) -> [cap : Nat, elems : Seq(Fields)]]
    BY LenProperties DEF Arrays, Fits, Slices
<1>2. array \in [cap : Nat, elems : Seq(Fields)] /\ k \in 1..Len(arrays)
    BY <1>1
<1>3. /\ E \in Seq(Fields) /\ array.cap \in Nat /\ Len(E) \in Nat /\ n <= Len(E)
      /\ Len(E) <= array.cap
    BY <1>1, <1>2, LenProperties DEF Fits
<1>4. /\ elems \in Seq(Fields) /\ Len(elems) = IF n < Len(E) THEN Len(E) ELSE n + 1
      /\ n < Len(E) \/ (n = Len(E) /\ elems = Append(E, f))
    <2>1. CASE n < Len(E)
        <3>1. n + 1 \in 1..Len(E)
            BY <1>1, <1>3, <2>1
        <3> QED
            BY <1>3, <2>1, <3>1, ExceptSeq
    <2>2. CASE ~(n < Len(E))
        BY <1>1, <1>3, <2>2, AppendProperties
    <2> QED
        BY <2>1, <2>2
<1>5. n = Len(E) =>
        /\ \A m \in 0..Len(E) : SubSeq(elems, 1, m) = SubSeq(E, 1, m)
        /\ SubSeq(elems, 1, n + 1) = Append(SubSeq(E, 1, n), f)
    <2>1. /\ \A m \in 0..Len(E) : SubSeq(Append(E, f), 1, m) = SubSeq(E, 1, m)
          /\ SubSeq(Append(E, f), 1, Len(E) + 1) = Append(SubSeq(E, 1, Len(E)), f)
        BY <1>3, PrefixKept
    <2>2. n = Len(E) => elems = Append(E, f)
        BY <1>3, <1>4
    <2> HIDE DEF elems, E
    <2> QED
        BY <2>1, <2>2
<1>6. new = IF n < array.cap
            THEN [arrays |-> [arrays EXCEPT ![k].elems = elems],
                  kv |-> [arr |-> k, len |-> n + 1]]
            ELSE [arrays |-> Append(arrays, [cap |-> IF n = 0 THEN 1 ELSE 2 * n,
                                             elems |-> elems]),
                  kv |-> [arr |-> Len(arrays) + 1, len |-> n + 1]]
    BY DEF Appended
<1>7. \A other \in Slices : Fits(other, arrays) =>
        /\ other.arr \in 1..Len(arrays) /\ other.len \in 0..Len(arrays[other.arr].elems)
        /\ arrays[other.arr].elems \in Seq(Fields)
    BY <1>1, LenProperties DEF Fits, Slices
<1>0. ~(n < Len(E)) => n = Len(E)
    BY <1>3, <1>4
<1> SUFFICES Extended(kv, f, new)
    OBVIOUS
<1> HIDE DEF elems, new
<1>8. CASE n < array.cap
    <2> DEFINE arrs == [arrays EXCEPT ![k].elems = elems]
    <2>1. /\ new.arrays = arrs /\ new.kv = [arr |-> k, len |-> n + 1]
          /\ new.kv.arr = k /\ new.kv.len = n + 1
        BY <1>6, <1>8
    <2>2. /\ arrs \in Arrays /\ DOMAIN arrs = DOMAIN arrays /\ arrs[k].elems = elems
          /\ arrs[k].cap = array.cap
          /\ \A a \in DOMAIN arrays : a # k => arrs[a] = arrays[a]
        <3>1. [array EXCEPT !.elems = elems] \in [cap : Nat, elems : Seq(Fields)]
            BY <1>2, <1>4
        <3>2. arrs = [arrays EXCEPT ![k] = [array EXCEPT !.elems = elems]]
            OBVIOUS
        <3>3. arrs \in Arrays
            BY <1>2, <3>1, <3>2, ExceptSeq DEF Arrays
        <3> QED
            BY <1>1, <1>2, <3>1, <3>2, <3>3
    <2> HIDE DEF arrs
    <2>3. \A a \in DOMAIN arrs : Len(arrs[a].elems) <= arrs[a].cap
        BY <1>3, <1>4, <1>8, <2>2
    <2>4. n + 1 <= Len(elems) /\ Len(E) <= Len(elems)
        BY <1>1, <1>3, <1>4
    <2>5. ASSUME NEW other \in Slices, Fits(other, arrays)
          PROVE  /\ Fits(other, arrs)
                 /\ n = Len(E) => Contents(arrs, other) = Contents(arrays, other)
        <3>1. CASE other.arr = k
            <4>1. arrs[other.arr].elems = elems /\ arrays[other.arr].elems = E
                  /\ other.len \in 0..Len(E) /\ other.arr \in DOMAIN arrs
                BY <1>1, <1>7, <2>2, <2>5, <3>1
            <4>2. Fits(other, arrs)
                BY <1>3, <1>4, <2>4, <4>1 DEF Fits
            <4>3. n = Len(E) => SubSeq(elems, 1, other.len) = SubSeq(E, 1, other.len)
                BY <1>5, <4>1
            <4> QED
                BY <4>1, <4>2, <4>3 DEF Contents
        <3>2. CASE other.arr # k
            BY <1>1, <1>7, <2>2, <2>5, <3>2 DEF Fits, Contents
        <3> QED
            BY <3>1, <3>2
    <2>6. Fits(new.kv, arrs) /\ new.kv \in Slices
        BY <1>1, <2>1, <2>2, <2>4 DEF Fits, Slices
    <2>7. n = Len(E) => Contents(arrs, new.kv) = Append(Contents(arrays, kv), f)
        BY <1>5, <2>1, <2>2 DEF Contents
    <2> QED
        BY <1>0, <2>1, <2>2, <2>3, <2>5, <2>6, <2>7 DEF Extended
<1>9. CASE ~(n < array.cap)
    <2> DEFINE top == [cap |-> IF n = 0 THEN 1 ELSE 2 * n, elems |-> elems]
               arrs == Append(arrays, top)
    <2>1. n = Len(E) /\ Len(elems) = n + 1
        BY <1>1, <1>3, <1>4, <1>9
    <2>2. top \in [cap : Nat, elems : Seq(Fields)] /\ Len(top.elems) <= top.cap
          /\ top.elems = elems
        BY <1>1, <1>4, <2>1
    <2>3. /\ new.arrays = arrs /\ new.kv = [arr |-> Len(arrays) + 1, len |-> n + 1]
          /\ new.kv.arr = Len(arrays) + 1 /\ new.kv.len = n + 1
        BY <1>6, <1>9
    <2> HIDE DEF top
    <2>4. /\ arrs \in Arrays /\ DOMAIN arrs = 1..(Len(arrays) + 1)
          /\ arrs[Len(arrays) + 1] = top
          /\ \A a \in 1..Len(arrays) : arrs[a] = arrays[a]
        BY <1>1, <2>2, AppendProperties, LenProperties DEF Arrays
    <2> HIDE DEF arrs
    <2>5. \A a \in DOMAIN arrs : Len(arrs[a].elems) <= arrs[a].cap
        BY <1>1, <2>2, <2>4
    <2>6. \A other \in Slices : Fits(other, arrays) =>
            Fits(other, arrs) /\ Contents(arrs, other) = Contents(arrays, other)
        BY <1>1, <1>7, <2>4 DEF Fits, Contents
    <2>7. Fits(new.kv, arrs) /\ new.kv \in Slices
        BY <1>1, <2>1, <2>2, <2>3, <2>4 DEF Fits, Slices
    <2>8. Contents(arrs, new.kv) = Append(Contents(arrays, kv), f)
        BY <1>5, <2>1, <2>2, <2>3, <2>4 DEF Contents
    <2> QED
        BY <1>0, <2>3, <2>4, <2>5, <2>6, <2>7, <2>8 DEF Extended
<1> QED
    BY <1>8, <1>9 DEF new

-----------------------------------------------------------------------------
(* The inductive invariant. *)
LEMMA TreeStart ==
    ASSUME TreeBounds, Init
    PROVE  TreeInv
<1> DEFINE nil == [arr |-> 1, len |-> 0]
           l == [filter |-> {}, depth |-> 0, kv |-> nil, ctx |-> NoCtx]
           c == BuildCache(l, <<>>, <<>>, global, hook, <<>>, clock)
           one == [disable |-> FALSE, level |-> NoLevel, filter |-> {}, depth |-> 0,
                   kv |-> nil, ctx |-> NoCtx, cache |-> c, asked |-> <<>>, deaf |-> FALSE]
<1>1. /\ clock = 3 /\ forked = FALSE
      /\ arrays = <<[cap |-> 0, elems |-> <<>>]>> /\ loggers = <<one>>
    BY DEF Init
<1>2. global \in Globals /\ global.ts = 2 /\ global.hooks = 0
      /\ hook \in Hooks /\ hook.n = 0 /\ hook.ts = 1
    BY DEF Init, TreeBounds, Globals, Hooks
<1>3. Set(l) /\ IsPlain(l, <<>>) /\ l.filter = {} /\ l.depth = 0 /\ l.kv = nil
    BY DEF Set, IsPlain, TreeBounds, Slices, Contextual
<1>4. c = CacheEntry(l, Core(global), KvLogger(global), KvLogger(global), Plain(global), clock)
    BY <1>3 DEF BuildCache
<1>5. nil.arr = 1 /\ nil.len = 0 /\ nil \in Slices
    BY DEF Slices
<1> HIDE DEF l, c, nil
<1>6. Built(c, l, <<>>, global, hook, clock) /\ Wears(c, <<>>)
    BY <1>1, <1>2, <1>3, <1>4, PlainBuild
<1>7. /\ c \in Caches /\ c.ts = clock /\ c.filter = {} /\ c.depth = 0 /\ c.kv = nil
      /\ Dressed(c, global, hook)
    BY <1>3, <1>6 DEF Built
<1>8. one \in Loggers
    BY <1>5, <1>7 DEF Loggers, TreeBounds, Contextual
<1>9. arrays[1].elems = <<>> /\ arrays[1].cap = 0 /\ DOMAIN arrays = {1} /\ arrays \in Arrays
    BY <1>1 DEF Arrays
<1>10. Fits(nil, arrays) /\ Contents(arrays, nil) = <<>>
    BY <1>5, <1>9 DEF Fits, Contents
<1>11. /\ one.kv = nil /\ one.cache = c /\ one.asked = <<>> /\ one.filter = {} /\ one.depth = 0
    OBVIOUS
<1>12. DOMAIN loggers = {1} /\ loggers[1] = one /\ loggers \in Seq(Loggers)
    BY <1>1, <1>8
<1> HIDE DEF one
<1>13. Sound(one, global, hook, arrays, forked, clock)
    BY <1>1, <1>6, <1>7, <1>10, <1>11 DEF Sound
<1>14. Matches(one)
    BY <1>7, <1>11 DEF Matches
<1>15. Types
    <2>1. \A a \in DOMAIN arrays : Len(arrays[a].elems) <= arrays[a].cap
        BY <1>9
    <2>2. global.ts <= clock /\ hook.ts <= clock /\ global.hooks <= hook.n
        BY <1>1, <1>2
    <2> QED
        BY <1>1, <1>2, <1>9, <1>12, <2>1, <2>2 DEF Types
<1> QED
    BY <1>12, <1>13, <1>14, <1>15 DEF TreeInv

\* Loggers that a step leaves alone stay sound when the arrays and the clock grow.
LEMMA SoundLater ==
    ASSUME NEW l, NEW g, NEW h, NEW a, NEW b, NEW f, NEW e, NEW now, NEW later,
           Sound(l, g, h, a, f, now), l \in Loggers, now \in Nat, later \in Nat, now <= later,
           e \in BOOLEAN, f => e,
           \A kv \in Slices : Fits(kv, a) => Fits(kv, b),
           ~e => \A kv \in Slices : Fits(kv, a) => Contents(b, kv) = Contents(a, kv)
    PROVE  Sound(l, g, h, b, e, later)
<1>1. l.kv \in Slices /\ l.cache.kv \in Slices /\ l.cache.ts \in Nat
    BY DEF Loggers, Caches
<1>2. Fits(l.kv, b) /\ Fits(l.cache.kv, b) /\ l.cache.ts <= later
    BY <1>1 DEF Sound
<1>3. ~e => Contents(b, l.kv) = Contents(a, l.kv)
             /\ Contents(b, l.cache.kv) = Contents(a, l.cache.kv)
    BY <1>1 DEF Sound
<1> QED
    BY <1>2, <1>3 DEF Sound

\* Adding a sound logger to those there are.
LEMMA Added ==
    ASSUME TreeInv, NEW l \in Loggers, Matches(l), Types',
           Sound(l, global, hook, arrays', forked', clock'), loggers' = Append(loggers, l),
           global' = global, hook' = hook, forked => forked', clock <= clock',
           \A kv \in Slices : Fits(kv, arrays) => Fits(kv, arrays'),
           ~forked' => \A kv \in Slices :
                         Fits(kv, arrays) => Contents(arrays', kv) = Contents(arrays, kv)
    PROVE  TreeInv'
<1>1. clock \in Nat /\ clock' \in Nat /\ forked' \in BOOLEAN /\ loggers \in Seq(Loggers)
    BY DEF TreeInv, Types
<1>2. ASSUME NEW i \in DOMAIN loggers'
      PROVE  Sound(loggers'[i], global', hook', arrays', forked', clock') /\ Matches(loggers'[i])
    <2>1. CASE i \in DOMAIN loggers
        <3>1. loggers'[i] = loggers[i] /\ loggers[i] \in Loggers
            BY <1>1, <2>1
        <3>2. Sound(loggers[i], global, hook, arrays, forked, clock) /\ Matches(loggers[i])
            BY <2>1 DEF TreeInv
        <3>3. Sound(loggers[i], global, hook, arrays', forked', clock')
            BY <1>1, <3>1, <3>2, SoundLater
        <3> QED
            BY <3>1, <3>2, <3>3
    <2>2. CASE i \notin DOMAIN loggers
        <3>1. loggers'[i] = l
            BY <1>1, <1>2, <2>2
        <3> QED
            BY <3>1
    <2> QED
        BY <2>1, <2>2
<1> QED
    BY <1>2 DEF TreeInv

\* The calls that rebuild the cache of a copy and touch nothing else.
LEMMA DeriveKeeps ==
    ASSUME TreeBounds, TreeInv, NEW l \in Loggers,
           Sound(l, global, hook, arrays, forked, clock), Derive(l)
    PROVE  TreeInv'
<1> DEFINE r == Rebuilt(l, arrays, clock')
<1>1. /\ global \in Globals /\ hook \in Hooks /\ forked \in BOOLEAN /\ arrays \in Arrays
      /\ clock \in Nat /\ clock' = clock + 1 /\ global' = global /\ hook' = hook
      /\ arrays' = arrays /\ forked' = forked /\ loggers' = Append(loggers, r)
      /\ loggers \in Seq(Loggers)
    BY DEF TreeInv, Types, Derive
<1>2. Sound(l, global, hook, arrays, forked, clock')
    BY <1>1, SoundLater
<1>3. clock' \in Nat
    BY <1>1
<1>4. r \in Loggers /\ Sound(r, global, hook, arrays, forked, clock') /\ Matches(r)
    BY <1>1, <1>2, <1>3, RebuiltSound
<1> HIDE DEF r
<1>5. Types'
    <2>1. loggers' \in Seq(Loggers)
        BY <1>1, <1>4, AppendProperties
    <2>2. global.ts \in Nat /\ hook.ts \in Nat
        BY <1>1 DEF Globals, Hooks
    <2>3. global.ts <= clock' /\ hook.ts <= clock' /\ global.hooks <= hook.n
        BY <1>1, <2>2 DEF TreeInv, Types
    <2> QED
        BY <1>1, <1>3, <2>1, <2>3 DEF TreeInv, Types
<1> QED
    BY <1>1, <1>4, <1>5, Added

LEMMA WithKeeps ==
    ASSUME TreeBounds, TreeInv, NEW i \in DOMAIN loggers, NEW f \in Fields, With(i, f)
    PROVE  TreeInv'
<1> DEFINE l == loggers[i]
           new == Appended(l.kv, f)
           ll == [l EXCEPT !.kv = new.kv, !.asked = Append(@, f)]
           r == Rebuilt(ll, arrays', clock')
<1>1. /\ global \in Globals /\ hook \in Hooks /\ forked \in BOOLEAN /\ arrays \in Arrays
      /\ clock \in Nat /\ clock' = clock + 1 /\ global' = global /\ hook' = hook
      /\ arrays' = new.arrays /\ loggers' = Append(loggers, r) /\ loggers \in Seq(Loggers)
      /\ forked' = (forked \/ l.kv.len < Len(arrays[l.kv.arr].elems))
      /\ \A a \in DOMAIN arrays : Len(arrays[a].elems) <= arrays[a].cap
    BY DEF TreeInv, Types, With
<1>2. l \in Loggers /\ Sound(l, global, hook, arrays, forked, clock)
    BY <1>1 DEF TreeInv
<1>3. l.kv \in Slices /\ Fits(l.kv, arrays) /\ l.asked \in Seq(Fields) /\ l.cache.kv \in Slices
    BY <1>2 DEF Loggers, Sound, Caches
<1>4. Extended(l.kv, f, new)
    BY <1>1, <1>3, AppendedIs
<1> HIDE DEF new
<1>5. /\ arrays' \in Arrays /\ Fits(new.kv, arrays') /\ new.kv \in Slices
      /\ \A a \in DOMAIN arrays' : Len(arrays'[a].elems) <= arrays'[a].cap
      /\ \A kv \in Slices : Fits(kv, arrays) => Fits(kv, arrays')
      /\ ~forked' => /\ Contents(arrays', new.kv) = Append(Contents(arrays, l.kv), f)
                     /\ \A kv \in Slices :
                          Fits(kv, arrays) => Contents(arrays', kv) = Contents(arrays, kv)
    BY <1>1, <1>4 DEF Extended
<1>6. clock' \in Nat /\ clock <= clock' /\ forked' \in BOOLEAN /\ (forked => forked')
    BY <1>1
<1>7. Sound(l, global, hook, arrays', forked', clock')
    BY <1>1, <1>2, <1>5, <1>6, SoundLater
<1>8. /\ ll \in Loggers /\ ll.kv = new.kv /\ ll.asked = Append(l.asked, f) /\ ll.cache = l.cache
    <2>1. Append(l.asked, f) \in Seq(Fields)
        BY <1>3, AppendProperties
    <2> QED
        BY <1>2, <1>5, <2>1 DEF Loggers
<1> HIDE DEF ll
<1>9. ~forked' => Contents(arrays', ll.kv) = ll.asked
    BY <1>2, <1>5, <1>6, <1>8 DEF Sound
<1>10. Sound(ll, global, hook, arrays', forked', clock')
    BY <1>5, <1>7, <1>8, <1>9 DEF Sound
<1>11. r \in Loggers /\ Sound(r, global, hook, arrays', forked', clock') /\ Matches(r)
    BY <1>1, <1>5, <1>6, <1>8, <1>10, RebuiltSound
<1> HIDE DEF r, l
<1>12. Types'
    <2>1. loggers' \in Seq(Loggers)
        BY <1>1, <1>11, AppendProperties
    <2>2. global.ts \in Nat /\ hook.ts \in Nat
        BY <1>1 DEF Globals, Hooks
    <2>3. global.ts <= clock' /\ hook.ts <= clock' /\ global.hooks <= hook.n
        BY <1>1, <2>2 DEF TreeInv, Types
    <2> QED
        BY <1>1, <1>5, <1>6, <2>1, <2>3 DEF Types
<1> QED
    BY <1>1, <1>5, <1>6, <1>11, <1>12, Added

\* FilterLevel and Disable copy a logger with its cache.
LEMMA CopyKeeps ==
    ASSUME TreeBounds, TreeInv, NEW i \in DOMAIN loggers, NEW l \in Loggers,
           l.kv = loggers[i].kv, l.asked = loggers[i].asked, l.cache = loggers[i].cache,
           l.filter = loggers[i].filter, l.depth = loggers[i].depth, l.deaf = loggers[i].deaf,
           loggers' = Append(loggers, l), UNCHANGED <<clock, global, hook, arrays, forked>>
    PROVE  TreeInv'
<1>1. loggers \in Seq(Loggers) /\ clock \in Nat /\ forked \in BOOLEAN
    BY DEF TreeInv, Types
<1>2. Sound(loggers[i], global, hook, arrays, forked, clock) /\ Matches(loggers[i])
    BY DEF TreeInv
<1>3. Sound(l, global, hook, arrays, forked, clock)
    BY <1>2 DEF Sound
<1>4. Matches(l)
    BY <1>2 DEF Matches
<1>5. loggers' \in Seq(Loggers)
    BY <1>1, AppendProperties
<1>6. Types'
    BY <1>5 DEF TreeInv, Types
<1>7. /\ Sound(l, global, hook, arrays', forked', clock') /\ global' = global /\ hook' = hook
      /\ arrays' = arrays /\ (forked => forked') /\ clock <= clock'
    BY <1>1, <1>3
<1>8. /\ \A kv \in Slices : Fits(kv, arrays) => Fits(kv, arrays')
      /\ ~forked' => \A kv \in Slices :
                       Fits(kv, arrays) => Contents(arrays', kv) = Contents(arrays, kv)
    BY <1>7
<1> QED
    BY <1>4, <1>6, <1>7, <1>8, Added

\* A change of the configuration or of the hook makes every cache stale.
LEMMA ChangeKeeps ==
    ASSUME TreeBounds, TreeInv, global' \in Globals, hook' \in Hooks,
           clock' = clock + 1, global'.ts = clock' \/ hook'.ts = clock',
           global'.ts <= clock', hook'.ts <= clock', global'.hooks <= hook'.n,
           UNCHANGED <<loggers, arrays, forked>>
    PROVE  TreeInv'
<1>1. /\ loggers \in Seq(Loggers) /\ clock \in Nat /\ clock' \in Nat /\ forked \in BOOLEAN
      /\ clock <= clock'
    BY DEF TreeInv, Types
<1>2. Types'
    BY <1>1 DEF TreeInv, Types
<1>3. ASSUME NEW i \in DOMAIN loggers
      PROVE  Sound(loggers[i], global', hook', arrays, forked, clock') /\ Matches(loggers[i])
    <2>1. Sound(loggers[i], global, hook, arrays, forked, clock) /\ Matches(loggers[i])
        BY DEF TreeInv
    <2>2. loggers[i].cache.ts \in Nat
        <3>1. loggers[i] \in Loggers
            BY <1>1
        <3> QED
            BY <3>1 DEF Loggers, Caches
    <2>3. Stale(loggers[i].cache, global', hook')
        <3>1. loggers[i].cache.ts < clock'
            BY <1>1, <2>1, <2>2 DEF Sound
        <3> QED
            BY <3>1 DEF Stale
    <2>4. Sound(loggers[i], global', hook', arrays, forked, clock')
        BY <1>1, <2>1, <2>2, <2>3 DEF Sound
    <2> QED
        BY <2>1, <2>4
<1> QED
    BY <1>2, <1>3 DEF TreeInv

\* Log rebuilds the cache of the logger it is called on.
LEMMA LogKeeps ==
    ASSUME TreeBounds, TreeInv, NEW i \in DOMAIN loggers, NEW level, Log(i, level)
    PROVE  TreeInv'
<1> DEFINE l == loggers[i]
           r == Rebuilt(l, arrays, clock')
<1>1. /\ global \in Globals /\ hook \in Hooks /\ forked \in BOOLEAN /\ arrays \in Arrays
      /\ clock \in Nat /\ clock' = clock + 1 /\ clock' \in Nat /\ global' = global
      /\ hook' = hook /\ arrays' = arrays /\ forked' = forked
      /\ loggers' = [loggers EXCEPT ![i] = r] /\ loggers \in Seq(Loggers) /\ clock <= clock'
    BY DEF TreeInv, Types, Log
<1>2. \A j \in DOMAIN loggers :
        /\ loggers[j] \in Loggers /\ Matches(loggers[j])
        /\ Sound(loggers[j], global, hook, arrays, forked, clock)
    BY <1>1 DEF TreeInv
<1>3. \A j \in DOMAIN loggers : Sound(loggers[j], global, hook, arrays, forked, clock')
    BY <1>1, <1>2, SoundLater
<1>4. r \in Loggers /\ Sound(r, global, hook, arrays, forked, clock') /\ Matches(r)
    BY <1>1, <1>2, <1>3, RebuiltSound
<1> HIDE DEF r
<1>5. /\ loggers' \in Seq(Loggers) /\ DOMAIN loggers' = DOMAIN loggers
      /\ \A j \in DOMAIN loggers : loggers'[j] = IF j = i THEN r ELSE loggers[j]
    BY <1>1, <1>4, ExceptSeq, LenProperties
<1>6. Types'
    <2>1. global.ts \in Nat /\ hook.ts \in Nat
        BY <1>1 DEF Globals, Hooks
    <2>2. global.ts <= clock' /\ hook.ts <= clock' /\ global.hooks <= hook.n
        BY <1>1, <2>1 DEF TreeInv, Types
    <2> QED
        BY <1>1, <1>5, <2>2 DEF TreeInv, Types
<1>7. \A j \in DOMAIN loggers' :
        Sound(loggers'[j], global', hook', arrays', forked', clock') /\ Matches(loggers'[j])
    BY <1>1, <1>2, <1>3, <1>4, <1>5
<1> QED
    BY <1>6, <1>7 DEF TreeInv

LEMMA TreeStep == ASSUME TreeBounds, TreeInv, [Next]_vars PROVE TreeInv'
<1>0. /\ loggers \in Seq(Loggers) /\ clock \in Nat /\ global \in Globals /\ hook \in Hooks
      /\ \A i \in DOMAIN loggers : loggers[i] \in Loggers
    BY DEF TreeInv, Types
<1>1. ASSUME NEW i \in DOMAIN loggers, NEW f \in Fields, With(i, f) PROVE TreeInv'
    BY <1>1, WithKeeps
<1>2. ASSUME NEW i \in DOMAIN loggers, NEW l \in Loggers, Derive(l), l.kv = loggers[i].kv,
             l.asked = loggers[i].asked, l.cache = loggers[i].cache
      PROVE  TreeInv'
    <2>1. Sound(loggers[i], global, hook, arrays, forked, clock)
        BY DEF TreeInv
    <2>2. Sound(l, global, hook, arrays, forked, clock)
        BY <1>2, <2>1 DEF Sound
    <2> QED
        BY <1>2, <2>2, DeriveKeeps
<1>3. ASSUME NEW i \in DOMAIN loggers, NEW name \in FilterNames, FilterKeys(i, name)
      PROVE  TreeInv'
    <2> DEFINE l == [loggers[i] EXCEPT !.filter = @ \cup {name}]
    <2>1. /\ l \in Loggers /\ l.kv = loggers[i].kv /\ l.asked = loggers[i].asked
          /\ l.cache = loggers[i].cache
        BY <1>0 DEF Loggers
    <2>2. Derive(l)
        BY <1>3 DEF FilterKeys
    <2> QED
        BY <1>2, <2>1, <2>2
<1>4. ASSUME NEW i \in DOMAIN loggers, NEW ctx \in Contexts, WithContext(i, ctx) PROVE TreeInv'
    <2> DEFINE l == [loggers[i] EXCEPT !.ctx = ctx]
    <2>1. /\ l \in Loggers /\ l.kv = loggers[i].kv /\ l.asked = loggers[i].asked
          /\ l.cache = loggers[i].cache
        BY <1>0 DEF Loggers, Contextual
    <2>2. Derive(l)
        BY <1>4 DEF WithContext
    <2> QED
        BY <1>2, <2>1, <2>2
<1>5. ASSUME NEW i \in DOMAIN loggers, NEW d \in 0..MaxDepth,
             Derive([loggers[i] EXCEPT !.depth = d])
      PROVE  TreeInv'
    <2> DEFINE l == [loggers[i] EXCEPT !.depth = d]
    <2>1. /\ l \in Loggers /\ l.kv = loggers[i].kv /\ l.asked = loggers[i].asked
          /\ l.cache = loggers[i].cache
        BY <1>0 DEF Loggers
    <2> QED
        BY <1>2, <1>5, <2>1
<1>6. ASSUME NEW i \in DOMAIN loggers, NEW d \in 1..MaxDepth, WithCallerDepth(i, d)
      PROVE  TreeInv'
    BY <1>5, <1>6 DEF WithCallerDepth, TreeBounds
<1>7. ASSUME NEW i \in DOMAIN loggers, AddCallerDepth(i) PROVE TreeInv'
    <2> DEFINE d == IF loggers[i].depth = 0 THEN 2 ELSE loggers[i].depth + 1
    <2>1. d \in 0..MaxDepth
        BY <1>0, <1>7 DEF AddCallerDepth, Loggers, TreeBounds
    <2>2. Derive([loggers[i] EXCEPT !.depth = d])
        BY <1>7 DEF AddCallerDepth
    <2> QED
        BY <1>5, <2>1, <2>2
<1>8. ASSUME NEW i \in DOMAIN loggers, NEW level \in Levels, FilterLevel(i, level)
      PROVE  TreeInv'
    <2> DEFINE l == [loggers[i] EXCEPT !.level = level]
    <2>1. /\ l \in Loggers /\ l.kv = loggers[i].kv /\ l.asked = loggers[i].asked
          /\ l.cache = loggers[i].cache /\ l.filter = loggers[i].filter
          /\ l.depth = loggers[i].depth /\ l.deaf = loggers[i].deaf
        BY <1>0 DEF Loggers
    <2>2. loggers' = Append(loggers, l) /\ UNCHANGED <<clock, global, hook, arrays, forked>>
        BY <1>8 DEF FilterLevel
    <2> QED
        BY <2>1, <2>2, CopyKeeps
<1>9. ASSUME NEW i \in DOMAIN loggers, NEW disable \in BOOLEAN, Disable(i, disable)
      PROVE  TreeInv'
    <2> DEFINE l == [loggers[i] EXCEPT !.disable = disable]
    <2>1. /\ l \in Loggers /\ l.kv = loggers[i].kv /\ l.asked = loggers[i].asked
          /\ l.cache = loggers[i].cache /\ l.filter = loggers[i].filter
          /\ l.depth = loggers[i].depth /\ l.deaf = loggers[i].deaf
        BY <1>0 DEF Loggers
    <2>2. loggers' = Append(loggers, l) /\ UNCHANGED <<clock, global, hook, arrays, forked>>
        BY <1>9 DEF Disable
    <2> QED
        BY <2>1, <2>2, CopyKeeps
<1>10. ASSUME NEW i \in DOMAIN loggers, NEW level \in Levels, Log(i, level) PROVE TreeInv'
    BY <1>10, LogKeeps
<1>11. ASSUME NEW hasCaller \in BOOLEAN, NEW level \in Levels, Update(hasCaller, level)
       PROVE  TreeInv'
    <2>1. /\ clock' = clock + 1 /\ global.gen < MaxUpdates /\ hook' = hook
          /\ global' = [gen |-> global.gen + 1, ts |-> clock + 1, level |-> level,
                        hooks |-> hook.n, hasCaller |-> hasCaller]
          /\ UNCHANGED <<loggers, arrays, forked>>
        BY <1>11 DEF Update
    <2>2. /\ global' \in Globals /\ global'.ts = clock + 1 /\ global'.hooks = hook.n
          /\ hook.n \in Nat /\ hook.ts \in Nat
        BY <1>0, <2>1 DEF Globals, Hooks, TreeBounds
    <2>3. hook'.ts <= clock' /\ global'.ts <= clock' /\ global'.hooks <= hook'.n
        BY <1>0, <2>1, <2>2 DEF TreeInv, Types
    <2> QED
        BY <1>0, <2>1, <2>2, <2>3, ChangeKeeps
<1>12. CASE HookWith
    <2>1. /\ clock' = clock + 1 /\ hook.n < MaxHooks /\ hook' = [n |-> hook.n + 1, ts |-> clock + 1]
          /\ UNCHANGED <<global, loggers, arrays, forked>>
        BY <1>12 DEF HookWith
    <2>2. /\ hook' \in Hooks /\ hook'.ts = clock + 1 /\ hook'.n = hook.n + 1
          /\ global.hooks \in Nat /\ global.ts \in Nat
        BY <1>0, <2>1 DEF Globals, Hooks, TreeBounds
    <2>3. hook'.ts <= clock' /\ global'.ts <= clock' /\ global'.hooks <= hook'.n
        <3>1. global.ts <= clock /\ global.hooks <= hook.n /\ hook.n \in Nat
            BY <1>0 DEF TreeInv, Types, Hooks
        <3> QED
            BY <1>0, <2>1, <2>2, <3>1
    <2>4. global' \in Globals
        BY <1>0, <2>1
    <2> QED
        BY <2>1, <2>2, <2>3, <2>4, ChangeKeeps
<1>13. CASE UNCHANGED vars
    <2>1. UNCHANGED <<clock, global, hook, loggers, arrays, forked>>
        BY <1>13 DEF vars
    <2> QED
        BY <2>1 DEF TreeInv, Types
<1> QED
    BY <1>1, <1>3, <1>4, <1>6, <1>7, <1>8, <1>9, <1>10, <1>11, <1>12, <1>13 DEF Next

LEMMA TreeInvariance == ASSUME TreeBounds PROVE Spec => []TreeInv
BY TreeStart, TreeStep, PTL DEF Spec

-----------------------------------------------------------------------------
(* What the invariant says of a record. *)

\* A record that is written now goes through what Rebuilt leaves or through the
\* cache, which is of the configuration and the hook in force.
LEMMA EffectiveIs ==
    ASSUME TreeBounds, TreeInv, NEW i \in DOMAIN loggers, ~loggers[i].disable
    PROVE  /\ Effective(loggers[i]).gen = global.gen
           /\ Effective(loggers[i]).hooks \in {Once(global.hooks), Twice(global.hooks, hook.n)}
           /\ Effective(loggers[i]).filter # {} \/ Effective(loggers[i]).depth # 0 =>
                Effective(loggers[i]).hooks = Twice(global.hooks, hook.n)
           /\ ~loggers[i].deaf /\ ~forked =>
                /\ Effective(loggers[i]).kv = loggers[i].asked
                /\ Effective(loggers[i]).filter = loggers[i].filter
                /\ global.hasCaller => Effective(loggers[i]).depth = loggers[i].depth
<1> DEFINE l == loggers[i]
           r == Rebuilt(l, arrays, clock + 1)
<1>1. /\ global \in Globals /\ hook \in Hooks /\ arrays \in Arrays /\ clock + 1 \in Nat
      /\ l \in Loggers /\ Sound(l, global, hook, arrays, forked, clock) /\ Matches(l)
    BY DEF TreeInv, Types
<1>2. /\ Fits(l.kv, arrays) /\ Fits(l.cache.kv, arrays)
      /\ ~Stale(l.cache, global, hook) => Dressed(l.cache, global, hook)
      /\ ~forked =>
           /\ Contents(arrays, l.kv) = l.asked
           /\ ~Stale(l.cache, global, hook) => Wears(l.cache, Contents(arrays, l.cache.kv))
    BY <1>1 DEF Sound
<1>3. CASE Stale(l.cache, global, hook)
    <2>1. /\ r.filter = l.filter /\ (global.hasCaller => r.depth = l.depth)
          /\ Dressed(r.cache, global, hook)
          /\ r.cache.filter = r.filter /\ r.cache.depth = r.depth
          /\ Wears(r.cache, Contents(arrays, l.kv))
        BY <1>1, <1>2, <1>3, RebuiltIs
    <2>2. Effective(l) = r.cache.out
        BY <1>3 DEF Effective
    <2> HIDE DEF r, l
    <2> QED
        BY <1>2, <2>1, <2>2 DEF Dressed, Wears, l
<1>4. CASE ~Stale(l.cache, global, hook)
    <2>1. Effective(l) = l.cache.out
        BY <1>4 DEF Effective
    <2> QED
        BY <1>1, <1>2, <1>4, <2>1 DEF Dressed, Wears, Matches
<1> QED
    BY <1>3, <1>4

\* The variables and the loggers keep their types, for any number of loggers.
THEOREM TypeCorrect == ASSUME TreeBounds PROVE Spec => []TypeOK
<1>1. TreeInv => TypeOK
    <2> SUFFICES ASSUME TreeInv PROVE TypeOK
        OBVIOUS
    <2>1. /\ clock \in Nat /\ forked \in BOOLEAN /\ global \in Globals /\ hook \in Hooks
          /\ global.ts <= clock /\ hook.ts <= clock /\ global.hooks <= hook.n
          /\ \A a \in DOMAIN arrays : Len(arrays[a].elems) <= arrays[a].cap
        BY DEF TreeInv, Types
    <2>2. ASSUME NEW i \in DOMAIN loggers
          PROVE  LET l == loggers[i]
                 IN  /\ l.disable \in BOOLEAN /\ l.level \in {NoLevel} \cup Levels
                     /\ l.filter \subseteq FilterNames /\ l.depth \in 0..MaxDepth
                     /\ l.ctx \in {NoCtx} \cup Contexts
                     /\ l.kv.len <= Len(arrays[l.kv.arr].elems)
                     /\ l.cache.ts <= clock /\ l.cache.out.gen \in 1..MaxUpdates
        <3>1. loggers[i] \in Loggers /\ Sound(loggers[i], global, hook, arrays, forked, clock)
            BY DEF TreeInv, Types
        <3>2. loggers[i].cache.out.gen \in 1..MaxUpdates
            BY <3>1 DEF Loggers, Caches, Layers
        <3> QED
            BY <3>1, <3>2 DEF Loggers, Sound, Fits, Contextual
    <2>3. global.gen \in 1..MaxUpdates /\ hook.n \in 0..MaxHooks
        BY <2>1 DEF Globals, Hooks
    <2> QED
        BY <2>1, <2>2, <2>3 DEF TypeOK
<1> QED
    BY <1>1, TreeInvariance, PTL

\* An enabled logger writes to the sinks of the configuration in force and with
\* the hook fields its last Update found, however the loggers were derived,
\* updated and used before; with all fields if it filters keys or sets a depth.
THEOREM FreshGenerationCorrect == ASSUME TreeBounds PROVE Spec => []FreshGeneration
<1>1. ASSUME TreeInv, NEW i \in DOMAIN loggers, ~loggers[i].disable,
             NEW out, out = Effective(loggers[i])
      PROVE  /\ out.gen = global.gen
             /\ \A h \in 1..global.hooks : out.hooks[h] > 0
             /\ out.filter # {} \/ out.depth # 0 => \A h \in 1..hook.n : out.hooks[h] > 0
    <2>1. /\ out.gen = global.gen
          /\ out.hooks \in {Once(global.hooks), Twice(global.hooks, hook.n)}
          /\ out.filter # {} \/ out.depth # 0 => out.hooks = Twice(global.hooks, hook.n)
        BY <1>1, EffectiveIs
    <2>2. /\ global.hooks \in 0..MaxHooks /\ hook.n \in 0..MaxHooks /\ MaxHooks \in Nat
          /\ global.hooks \in Nat /\ hook.n \in Nat
        BY <1>1 DEF TreeInv, Types, Globals, Hooks, TreeBounds
    <2>3. ASSUME NEW h \in 1..global.hooks PROVE out.hooks[h] > 0
        <3>1. h \in 1..MaxHooks /\ h <= global.hooks
            BY <2>2
        <3>2. Once(global.hooks)[h] > 0 /\ Twice(global.hooks, hook.n)[h] > 0
            BY <2>2, <3>1, OnceAdded
        <3> QED BY <2>1, <3>2
    <2>4. ASSUME NEW h \in 1..hook.n, out.filter # {} \/ out.depth # 0 PROVE out.hooks[h] > 0
        <3>1. h \in 1..MaxHooks /\ h <= hook.n
            BY <2>2
        <3>2. Twice(global.hooks, hook.n)[h] > 0
            BY <2>2, <3>1, OnceAdded
        <3> QED BY <2>1, <2>4, <3>2
    <2> QED BY <2>1, <2>3, <2>4
<1>2. TreeInv => FreshGeneration
    BY <1>1 DEF FreshGeneration
<1> QED
    BY <1>2, TreeInvariance, PTL

\* As long as no slice has been extended twice, a logger that was not disabled
\* while they changed writes its own fields, filter and depth.
THEOREM OwnSettingsCorrect == ASSUME TreeBounds PROVE Spec => []OwnSettings
<1>1. TreeInv => OwnSettings
    BY EffectiveIs DEF OwnSettings
<1> QED
    BY <1>1, TreeInvariance, PTL
=============================================================================
