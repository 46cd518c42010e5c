# kratos-foundation in TLA+

kratos-foundation is a Go library that assembles a service on top of the
kratos framework: configuration from files and Consul, hot-updated logging,
scheduled jobs, HTTP, gRPC and WebSocket servers, cached clients for Redis and
other services, metrics, tracing, and the life cycle that starts and stops all
of it. This directory holds TLA+ models of the parts of it that keep state
which several goroutines share, the TLC configurations that check them, and
proofs that TLAPS checks.

- [1. The system](#1-the-system)
- [2. The modules](#2-the-modules)
- [3. The runs](#3-the-runs)
- [4. Fairness](#4-fairness)
- [5. What is proved](#5-what-is-proved)
- [6. Where the code and its comments disagree](#6-where-the-code-and-its-comments-disagree)
- [7. Observations without a run](#7-observations-without-a-run)
- [8. What is not modelled](#8-what-is-not-modelled)
- [9. What could come next](#9-what-could-come-next)

Paths are relative to the repository's root. `PROJECT.json` has the machine
readable side: the lines each definition stands for, the runs, the mutant that
breaks each property, the hazards and the theorems.

To check a model and the proofs:

    tlc -workers 2 -config MCShared.cfg MCShared
    tlapm ConfigProofs.tla

## 1. The system

A service calls wire-generated constructors. `NewConfig` loads the
configuration; the logger, the job server, the clients and the servers read
their settings from it (the logger is updated from the initial configuration, and
again whenever its owner calls `Update`); `App` hands the servers to
kratos, which runs `Start` of each in a goroutine, and `Stop` of each on a
signal; the cleanup functions of the constructors then run in reverse order.

### Parts whose state is shared

**Configuration** (`src/pkg/config`).
State: per priority source the map of cached documents, a mutex, one
unbuffered channel and one goroutine per underlying source; in kratos' config
the merged view. Operations: `Load` (parallel), `Watch` (opens the watchers in
order, starts the goroutines), the goroutines' loop, `Next` and `Stop` of the
watcher. `NewConfig` builds two such sources, one for files and one for Consul,
and wraps them in a third, so a goroutine may hold one mutex while the receiver
of its channel waits for another. Hard: interleaved updates, sends under a
mutex, retries, a stop at any moment, a second layer. Correct when the view is
the priority merge of what the sources said, never goes back to an older value,
converges to what the sources hold, and when cleaning up ends the goroutines.

**Logging** (`src/pkg/log`, `src/internal/logger`).
State: the global configuration with its time (an atomic pointer), the release
function of its sinks, the hook with its fields and time, and in each logger a
cache of four layers with the time it was built. Operations: the deriving
methods (`With`, `FilterKeys`, `WithContext`, ...), `Log`, `Update`, the hook's
`With`. Settings reach the sinks through the cache only, so each call must
decide whether it is still good. Hard: which layers an incremental rebuild may
keep, slices that share a backing array, a configuration that is replaced
between two reads. Correct when a record has the fields, filter and context its
logger was given and reaches the sinks in force, and the release function of
every replaced configuration is called once.

**Jobs** (`src/pkg/job`).
State: the cancel function, the cron library's scheduler, one mutex or token
per DELAY or SKIP job, the runs; the instruments, spans and the logger variable
that report them. Operations: `Start`, `Stop`, ticks, runs through policy,
recovery, tracing, metrics and logging. kratos calls `Start` and `Stop` from
different goroutines. Hard: ticks faster than runs, panics and errors between
taking and giving back a token, a stop while runs wait for each other, runs
that share what reports them. Correct when exclusive runs never overlap, no
token is lost, piled-up runs are dropped on cancellation, no body of a cron run
begins after `Stop`, and what is reported when a run ends is of the time.

**Client caches** (`src/pkg/redis/manager.go`, `src/pkg/client/factory.go`).
State: a `sync.Map` from names to clients and a mutex for creation; redis also
has a release function that closes everything. Operations: get-or-create by
double-checked locking, release. Hard: two first calls, failures under the
mutex, calls during a release. Correct when there is one open client per key,
none is lost, every call returns, and answers are open clients.

**WebSocket server** (`src/pkg/server/websocket.go`, `websocket_client.go`).
State: a connection, its write lock, the `sync.Once` of its close. Operations:
the read loop, one goroutine per message, `Send`, `Close`, the callbacks, on a
connection whose peer reads, stalls, closes or breaks. Hard: read errors that
are retried, a write without a deadline under the lock that a close needs,
calls that come after `OnClose`. Correct when one goroutine writes at a time,
no `Send` that begins after a `Close` succeeds, a broken connection ends the
loop with the connection closed and `OnClose` called once, and that frees every
call.

**Redis subscription** (`src/pkg/redis/subscribe.go`).
One goroutine between the Redis channel and two bounded channels, ended by a
context. Hard: a parser that fails or panics, channels that are closed between
sends, a full channel nobody reads after the cancellation. Correct when each
message has one outcome, in order, and the end of the context closes both
channels.

**Application life cycle** (`src/pkg/app`, `src/pkg/utils/graceful_shutdown.go`,
`src/pkg/server/register.go`, `disable.go`).
State: the root context, kratos' error group, the hooks of four stages, the
registered servers, the entry in the registry. Operations: hooks, start,
register, a signal that two listeners receive, the delayed stop, deregister.
Hard: a failing hook or server, a signal and the end of a delay at the same
time. Correct when hooks run when their stage says and a signal or a failed
server ends the application.

**Metrics instruments** (`src/pkg/metrics`).
A map of instruments under a read-write mutex with a second look-up. Hard: two
first calls, a name the meter refuses. Correct when looking up and registering
are linearizable and no value is recorded on an instrument that was lost.

**Goroutine pool** (`src/pkg/utils/goroutine_pool.go`).
A semaphore channel and a wait group. Hard: submitting from inside a function
of the pool, the last function ending while `Wait` looks. Correct when `Wait`
covers every function, no more run than there are slots, and the pool empties.

**Timeouts of routes** (`src/internal/middleware/timeout`) **and node filters**
(`src/internal/filter`, `src/pkg/client/client_config.go`).
Pure look-ups at each request: which route's timeout, which nodes. Hard:
overlapping routes in any order, empty keys, filters that fall back. Correct
when the answer is the one a definition without maps and loops gives.

### Parts without shared state of their own

Middleware chains, transports, database, registry, discovery, Consul, tracing,
environment, errors, code generators. They are
constructors of library objects, pure functions, or tools that run at build
time. Each is listed in `PROJECT.json` with the reason it has no module.

## 2. The modules

| Module | Models | Extends or instantiates |
|---|---|---|
| `KeyValues` | a list of documents as what its merge defines | |
| `PriorityWatch` | the watch goroutines of one priority source | `KeyValues` |
| `Config` | `NewConfig` over one priority source: load, watch, read, clean up | `PriorityWatch`, `AtomicConfig` |
| `AtomicConfig` | the promise: documents and view change in one step | `KeyValues` |
| `LayeredConfig` | the file and Consul groups inside a third source | `PriorityWatch` three times |
| `LogLayers` | `buildCache` as operators on layers | |
| `LogTree` | loggers derived from one another, one call at a time | `LogLayers` |
| `LogUpdate` | `Log` and `Update` step by step, concurrently | |
| `JobServer` | `Start`, `Stop`, cron's runs and the policies | |
| `JobReports` | what tracing, metrics and logging report of overlapping runs | |
| `AppLifecycle` | `App.Run`: hooks, servers, signals, registry, delayed stop | |
| `ClientCache` | the double-checked cache with its release | `AtomicCache` |
| `Instruments` | register and record by name | `AtomicCache` |
| `AtomicCache` | the promise: a call is answered in one step | |
| `WebSocket` | one connection: `resolve`, handlers, `Send`, `Close` | |
| `Subscription` | the goroutine of `Subscribe`, its channels, its subscriber | |
| `GoroutinePool` | `Go` and `Wait`, with functions that submit functions | |
| `RouteTimeout` | the timeout of a request against the routes | |
| `NodeFilters` | the nodes a client may pick | |
| `MCLayers`, `MCSafety`, `MCServers`, `MCShared` | what TLC runs | the modules above |
| `ConfigProofs` | theorems about one priority source | `Config` |
| `LayeredProofs` | theorems about the nested sources | `MCLayers` |
| `LogTreeProofs`, `InstrumentsProofs`, `WebSocketProofs` | theorems about one component | the module they are named after |
| `SafetyProofs` | `LogUpdate`, `RouteTimeout`, `NodeFilters`, and what the run `safety` checks | `MCSafety`, `LogTreeProofs`, `InstrumentsProofs` |
| `ServersProofs` | `JobServer`, `AppLifecycle`, `JobReports`, and what the run `servers` checks | `MCServers` |
| `SharedProofs` | `ClientCache`, `Subscription`, `GoroutinePool`, and what the run `shared` checks | `MCShared`, `WebSocketProofs` |

Actions whose comment begins with "Mutant" are no part of a specification: they
are the plausible mistakes that show a property can fail.

### Configuration

A document is a function from keys to values, `[src, ver]`: which source wrote
the value and when. What a string looks like cannot matter to a merge that
replaces whole values, but who wrote it does. kratos' reader is external; it
merges what it receives key by key and never removes a key, which is
`Overlay`. A list of documents is represented by what its merge defines, so Go's
`append` of lists becomes `Overlay` or `Concat`.

| `PriorityWatch`, `Config` | `priority_config_source.go`, `config.go` |
|---|---|
| `cached[i]` | `p.kvs[i]`, the last documents of source `i` |
| `lock` | `p.lock`; the value says who holds it |
| `pc[i]`, `kvs[i]` | the goroutine of `watch` for source `i`: in `Next`, sleeping after an error, waiting for the mutex, in `ch <- kvs` |
| `phase`, `loaded` | how far `NewConfig` has come; the `errgroup` of `Load` |
| `stopped[i]` | `Stop` of the source's own watcher has been called |
| `content`, `pending` | the file or Consul key, and whether its watcher knows of a change (external) |
| `rpc`, `rbuf`, `view` | kratos' reader goroutine, what it received, the values the program reads |
| `Publish` | lock, store, append the documents of this source and all after it; the mutex stays held |
| `Handoff` | the send is received, the deferred unlock runs |

Sources in `Replaying` report what they find when their watcher opens, as the
Consul watcher does; the others only report later changes, as the file watcher
does. The steps between `Next` and the mutex, and between the send and the
merge, are separate because another goroutine may run there. Lock, store and
append are one action: they touch only what the mutex protects.

`LayeredConfig` begins when `NewConfig` has succeeded. Three instances of
`PriorityWatch` share no variable: the `Handoff` of a group is the
`NextReturns` of the top source's goroutine for that group (`PassOn`), since
the group's channel is unbuffered.

### Logging

In `LogLayers` a layer is what a record that passes through it is given:
generation of sinks, filter, hook fields (counted, because layer 2 adds those
of the update and the hook's own), caller depth, fields, context, level. The
operators follow the branches of `buildCache`: the fast path for plain loggers,
the incremental path for a cache newer than configuration and hook, the full
build.

`LogTree` keeps every logger the program has derived in `loggers`. Slices are
`[arr, len]` into `arrays`, with a capacity, because `With` appends to the slice
of the logger it copies: the doubled capacity of Go's `append` decides whether
two loggers share an element. `clock` is `time.Now`; every reading is later than
the one before. Ghosts are `asked`, the fields the caller asked for; `deaf`,
whether the logger was derived while disabled; and `forked`, whether `With` has
extended one slice twice. The last follows the slice and not the logger:
`FilterKeys`, `WithContext` and the others return a logger that shares the slice
of the one they copy, so extending both is the same accident as extending one
twice. An earlier `OwnSettings` looked at the logger only, and the attempt to
prove it found the difference, which needs seven loggers and no run reached.

`LogUpdate` takes one logger, several goroutines and the steps between two
atomic operations: `LoadGlobal` and `LoadCache` in `Log`; `LoadBase`,
`Compare`, `StampCache` and `StoreCache` in `buildCache`; `Open`,
`SwapRelease`, `ReleaseOld`, `StampGlobal` and `StoreGlobal` in `Update`; and
`CleanUp`, the cleanup function of `NewLogger`. A generation is what one `Update`
built. `plain` are those that write to a plain file, whose release function closes
it; that of a rotating file (the default) only syncs it, and without a file there is
nothing to release: both go on taking records (`Takes`). `released` counts the calls, so that a second one would show. Updates
follow one another (`upc`), and the cleanup comes after them: the constructors call
`Update` in sequence (`logger.go:141`, `kratos_foundation_config.go:20`), and two at
once, which no mutex prevents, are outside the model. The ghost `raced` becomes
true when a rebuild is under way while an `Update` stamps or stores.

### Jobs

`policy` gives each job one of the three policies, or `SERVER` for a job
without a schedule, which `Start` runs once in a goroutine. `pc[j][n]` follows
run `n` of job `j`: at the policy, past the mutex and about to look at the
context, about to begin, in the body, back with a result. `gate[j]` is the run
that holds the job's mutex (DELAY) or its one-element channel (SKIP). Tracing,
metrics and logging change no state of the server and are the step between
`start` and `body`. Recovery, the outermost of those, sits below the policy: it ends
the panic, the run returns without an error, and the policy gives back what it
holds (`Leave`). `ctx = "none"` while
`s.cancel` is nil: a `Stop` that early calls a nil function (`crashed`). The
ghosts `late` and `orderly` remember bodies that began under a cancelled context
and whether `Stop` was called after `Start` had returned.

`JobReports` takes the middlewares of a run one by one, with any runs
overlapping: which may is the business of the policies. `log` is the one
variable `logging.go:15` reads (`DeriveLogger`) and assigns (`AssignLogger`); its
value names the run that derived the logger, and `NoRun` is the one the middleware
was given. That a logger was derived with the context of a run does not mean that
it writes with it: `seen` and `top` stand for each logger's cache, and `WithContext`
copies the cached top layer with the context that has, unless a `Reload` (an update
of the configuration, a field for the hook) has made it stale. `LogStart` writes
through that layer, so its line has no context, or after a reload that of one run for
good. `LogDone` writes through `log.With("duration", ...)`, for which the top layer is
built anew, with the context of the logger that is shared by then. `lines` remembers
who wrote which line with whose context. A panic and a nil error are the same outcome
of `BodyEnds`: the deferred reports run while the panic unwinds, and see a nil error.

### The application

`run` is the place of kratos' `App.Run` (external), which calls the hooks and
servers of the repository; `start` and `stop` are the two goroutines it has for
each server, `stopper` the one that waits for a signal. `signal` is "sent" when
it came before kratos listened (then only `GracefulShutdownCtx` has it) and
"queued" when both have. `root` is the context `CancelRoot` cancels, `group`
the one that ends when any goroutine of the group fails or `App.Stop` cancels
it. `Wrapped` is the delay of `RegisterServer`; no clock is modelled, so a delay
takes any time, longer than `StopTimeout` too. The job server is one of the
servers: its `Start` returns at once, and its `Stop` before it crashes the
process (`Awaken`), the same step that `JobServer` calls `crashed`.

### Client caches and instruments

`conn` is the `sync.Map`, `lock` the mutex, `pc` the place of a call: first
look-up, waiting, second look-up, creation, store, unlock. Clients are numbers in
the order of creation, `open` those that are not closed. Redis and RPC clients
have the same code; `Reject` (an unknown protocol) is only the factory's,
`Release` and its steps only the redis manager's. `Range` takes no lock, so it
visits the keys that were there all the time (`must`) and perhaps others.
`AtomicCache` is the promise; its `used` are the clients that have been stored.

In `Instruments`, `kind` is "counter" or "gauge" (histograms have the code of
gauges): `RegisterNewCounter` asks the meter before it takes the lock, the others
after. `LookUp`, `Create` and `ReadAgain` are the three critical sections of
`AddCounter`; between them anyone may register the name. The answer `AtomicGot`
gives at each place is the refinement mapping to the same `AtomicCache`.

### Connections, subscriptions, pool

`WebSocket` has the goroutine of `resolve` (`loop`) and `Handlers`, one for a
message; all of them call `Send` and `Close` (`pc`), `resolve` from its
callbacks. gorilla's connection is external: `writeErr` is its sticky write
error, which a close frame sets as well, `readErr` the sticky read error, and
`MaxRepeats` stands for the thousand failed reads after which it panics.
`PeerStep` is the other side. The ghosts `closed` and `after` remember that a
`Close` has returned and whose `Send` began later.

`Subscription` is `select`, parse and send of `subscribe.go`, then its deferred
functions in their order. `reader` is the subscriber: the loop the doc comment
shows, which leaves at the first channel it finds closed, or one that reads both
to their end.

In `GoroutinePool`, `parent` says who submits a function: the caller or another
function. `Acquire` is the send on the semaphore, `Launch` is `Add` and `go`,
`Done` and `Release` are the deferred calls in the order they run.

### Look-ups

`RouteTimeout` compiles every list of up to `MaxRoutes` routes over `Paths` as the
constructor does (`Put`: a later route replaces an earlier one of its key; a route
with an empty key is left out) and looks a request for one of `Operations` up.
The loop of the constructor is the recursive function `filled`, one turn for each
route. A path is a sequence of letters, so that one may be a prefix of another.
`NodeFilters` runs the chain of filters for every list of up to `MaxNodes` nodes;
a filter is `Kept`, the loop that appends the nodes that pass. Each states the
answer again by quantifiers, without tables, loops or filters (`MostSpecific`,
`NearestClass`).

## 3. The runs

Each property of a passing run has a mutant in `PROJECT.json`: a definition
changed the way a slip in that code would change it, for which TLC finds the
property violated under the same configuration.

The modules that share no state run together. An `MC` module extends one
component and instantiates others with variables of their own; `part` chooses one
of them in the initial state, only that one takes steps, and the initial states
of the others are pinned to one, so the states of the run are the sum of
the components' and not the product. A property of a component that is
not chosen is then a statement about its initial state, and says nothing more.
The fairness of a run is that of the chosen part: each condition is asked of
the step and of `part`. Where several initial states differ only by a renaming,
one stands for them: `Ordered` has the two jobs in the order of their policies and
HTTP disabled rather than gRPC, `Pinned` fixes local variables whose first value
nothing reads. For two jobs of one policy, and for the application without the
delay and with another server disabled, safety is left to the theorems, which cover
every choice, and liveness is not checked.

| Run | Instance | Distinct states | Shows |
|---|---|---|---|
| `config_safety` (`Config`) | 3 sources, 1 key, 2 changes, 1 failure | 1.4 million | `SettledPriority`, `NoRegression`, and that `Config` implements `AtomicConfig` |
| `config_live` (`MCLayers`) | one source over 2 that replay; 1 low and 2 high paths; 2 changes, 1 failure | 167 thousand | `Converges`, `ReaderEnds`, `GroupPriority`, `Drains` |
| `safety` (`MCSafety`) | `LogUpdate`: 2 goroutines, 3 configurations; `LogTree`: 3 loggers, 2 configurations, 1 hook field, 2 levels; 2 goroutines on 2 instruments; 3 routes; 3 nodes | 696 thousand | `ReleasedOnce`, `FreshWrites`, `SettledSinks`, `FreshGeneration`, `OwnSettings`, `AtomicRegistry`, `MostSpecific`, `NearestClass` |
| `servers` (`MCServers`) | 2 jobs of different policies, 2 runs each; 3 servers, with and without delay, 2 hooks a stage; 2 reported runs, 1 reload | 239 thousand | `AtMostOne`, `GateKept`, `PileDiscarded`, `NoneBegins`, `StopEnds`, `HookOrder`, `RunEnds`, `EndLinesOfTheTime` |
| `shared` (`MCShared`) | cache: 2 goroutines, 2 keys, 2 clients; 2 handlers and the loop, 3 reads; 3 messages over channels of 1; 4 functions on 2 slots | 43 thousand | `OneClient`, `NoneLost`, `CallsReturn`, `AtomicAnswers`, `OneWriter`, `ClosedMeansRefused`, `LoopEnds`, `CallsEnd`, `Accounted`, `SubscriptionEnds`, `WaitCovers`, `PoolDrains` |
| `config_cleanup` (`Config`) | 2 sources | | `CleanupReleases` is violated |
| `layered_priority` (`LayeredConfig`) | 1 low and 2 high paths | | `DocumentedPriority` is violated |
| `log_siblings` (`LogTree`) | 6 loggers, 2 fields | | `AskedFields` is violated |
| `log_context` (`LogTree`) | 3 loggers, 2 contexts | | `ContextFollows` is violated |
| `log_valid` (`LogUpdate`) | 1 goroutine | | `ValidCache` is violated |
| `app_hooks` (`AppLifecycle`) | 2 hooks a stage | | `BeforeStopFirst` is violated |
| `job_gauge` (`JobReports`) | 2 jobs, 2 runs | | `GaugeCounts` is violated |

Why the bounds are enough for the questions asked:

- *Configuration.* With three sources there is one above and one below the
  source that changes; with two changes two goroutines can be between `Next` and
  the mutex at once, and one source can change twice. One key is enough for
  priorities and versions because the merge treats keys one by one. One failure
  is enough for a retry to race a later change. The safety theorems hold for
  any number of sources and keys (section 5). The liveness runs have two sources,
  which is the smallest number that can block one another.
- *Layers.* Two paths in the high group are what it takes for a group to announce
  a part of itself; one below is enough to be shadowed or to shadow.
- *Loggers.* Three loggers are a chain of two derivations or two siblings, and
  each of them can be logged through, so a cache is built, goes stale and is
  rebuilt on either side of an update and of a hook field. The shared array
  needs one logger with spare capacity and two children, which six loggers reach.
- *Updates.* Three configurations let a goroutine sleep through a whole `Update`
  and wake in the next, and let plain and rotating files follow one another either
  way.
- *Jobs.* Two runs are the smallest number that can overlap or pile up; two jobs
  show that `Stop` waits for all of them and that policies do not interfere; jobs
  of one policy share no more than those of two. One reload, before or after any
  assignment of the shared logger, makes one cache stale and the copies of another
  not.
- *Application.* Two hooks let one of a stage have run and the other not; the
  three servers are one with a delay, one that may be disabled, and the one whose
  `Start` returns at once.
- *Caches.* Two goroutines can miss the same key or different keys. With two
  clients each key may have one, or one key a second after a release; longer
  histories are left to the theorems. Two instruments and two names let one
  name be refused while the other is raced for.
- *Connection.* Two handlers and the loop are three callers: one holds the lock,
  one waits for it, and one comes after a `Close`. Three failed reads stand for a
  thousand: before the last one nothing depends on the number.
- *Subscription.* With channels of one element three messages fill a channel and
  leave one at the goroutine and one in the PubSub.
- *Pool.* Four functions on two slots allow one that nests in one that nests,
  and as many nesting functions as slots, the case `PoolDrains` has to exclude.
- *Look-ups.* Three routes are a path and two prefixes, or a route that is replaced
  and one that is invalid; three nodes are one of each class of distance.

Deadlock is not checked (`CHECK_DEADLOCK FALSE`) except in `log_valid`, because
the systems may come to rest: the sources need not change again, every bound may
be used up, the cleanup, `Stop` or `App.Run` may have finished, the request was
answered, or the process has crashed. What must not come to rest is stated
by the liveness properties instead.

## 4. Fairness

Fairness is assumed only for what the Go runtime or the code guarantees.

- Every goroutine that can take a step eventually takes one: weak fairness for
  the steps of goroutines, of a run of a job (`Proceed`) or of one caller as a
  whole where it has one step at a time (`Config`, `LayeredConfig`, `JobServer`, `ClientCache`,
  `AppLifecycle`, `WebSocket`, `Subscription`, `GoroutinePool`). `NewConfig`, a
  cleanup and a `Stop`, once called, run on.
- The environment owes nothing: no fairness for changes of a source, failures,
  the call of the cleanup or of `Stop`, ticks, calls of the cache, a release, a
  signal, a peer, messages, or the cancellation of a subscription.
- `ClientCache` has strong fairness for `Lock`. `sync.Mutex` switches to handing
  over in order when a waiter has waited a millisecond, so a waiter is not
  overtaken for ever. `LayeredConfig` and `Config` need only weak fairness there,
  because changes are finite in a run.
- A job's body ends once its context is cancelled. `bootstrap.go` asks jobs to
  watch their context; a body that ignores it makes `Stop` wait for good.
  Before the cancellation a body need not end at all.
- `AppLifecycle`: hooks, the registry and each server's `Stop` return. `Stop` is
  called under a timeout, and the delay of `RegisterServer` is a finite sleep.
- `WebSocket`: strong fairness for taking the write lock, as above, and for
  leaving a callback, because a callback does not call `Send` for ever. A write
  is only sure to end while `PeerLets`: the peer reads, or is gone, or the
  connection is closed on this side; a stalled peer owes nothing.
- `Subscription`: strong fairness for seeing the end of the context, because
  `select` chooses at random among what is ready; weak fairness for each of the
  subscriber's reads. The subscriber reads on, which the doc comment of
  `Subscribe` demands.
- `GoroutinePool`: a function ends once it has submitted what it submits.
- In `Config` a failing source does not fail for ever: failures are bounded by
  `MaxFails`.

## 5. What is proved

The theorems hold for every value of the constants that the named assumptions
allow: any number of sources, paths, keys, goroutines, jobs, runs, clients,
updates, loggers, instruments, handlers, messages, functions, slots, routes and
nodes, including the bounds (`MaxChanges`, `MaxRuns`, ...), which are arbitrary
natural numbers. Every invariant, action property and refinement that a passing
run checks is stated by a theorem. In each module the safety part goes the same way:
an inductive invariant, `Init` implies it, every step keeps it, and it implies the
property.

**`ConfigProofs`** (`NAssumption`, `ConfigAssumption`).
`TypeCorrect`; `PriorityCorrect`: `Spec => []SettledPriority`;
`AtomicUpdatesCorrect`: `Spec => AtomicUpdates`; `NoRegressionCorrect`:
`Spec => NoRegression`.
`SettledPriority` speaks only of moments when nothing is in flight, so it is not
inductive. The invariant follows the view *as it will be*: `EventualView`
adds what the reader has received and what the holder of the mutex is sending.
`Respects(EventualView, cached, Sources)` is then preserved by every step,
because storing a document and committing to announce it happen in the same
critical section. It needs that a source's documents carry its own name (`Own`)
and that nothing runs before `Load` is done (`Quiet`). The lemmas
`GreatestIsGreatest` and `ConcatValue` say what `Concat` yields, and
`AnnouncementRespects` that overlaying an announcement establishes the
priorities for the source and those above it. The same `EventualView` is the
refinement mapping: `Publish` is the abstract `Update`, `LoadDone` is `Ready`, and
the send and the merge are stutters.
For `NoRegression`, documents travel from the source to its goroutine, the map,
the channel, the reader and the view. `Order` says that at each stage a value is
at least as new as the one of the same source at every later stage; all pairs are
needed, because a removed key makes a stage say nothing. `Bounded` makes a change
newer than all there is. The step that matters is `Store`: what it announces is
built from the map under the mutex, so it is behind every source and ahead of
what the reader has.

**`LayeredProofs`** (`LayeredAssumption`).
`TypeCorrect`, `GroupPriorityCorrect`: `Spec => []GroupPriority`.
What a group has announced is in up to four places: with the goroutine of a path,
with the top source's goroutine that waits, with the one that sends, with the
reader. `Ahead` is the view with what the top source sends and the reader holds;
`LowAhead` and `HighAhead` add what is on its way from a group. The invariant says
that they respect the group's documents at every step, and so does what the top
source will hold for the group (`LowKept`, `HighKept`). The second half is needed
because the top source repeats what it holds of the high group each time the low
one announces something. Every hand-over leaves the four documents as they are
(`OverlayIs`); a path that publishes overlays all of them by its announcement
(`Announced`); and a group that the top source stores leaves, under each key, the
value of one of two documents that respect the group (`RespectsFrom`). All this
is about the values of one group. Between the groups the argument fails, since
what is kept for a group may be a suffix of it: that is `DocumentedPriority`, which
the run `layered_priority` refutes.

**`LogTreeProofs`** (`TreeBounds`: the bounds are natural numbers, with at least
one update). `TypeCorrect`, `FreshGenerationCorrect`, `OwnSettingsCorrect`.
The properties speak of what a logger writes, the invariant (`TreeInv`) of its
cache: if `Log` would not rebuild it, then *all* its layers are of the
configuration and the hook in force (`Dressed`) and the upper ones carry the
fields (`Wears`). Otherwise the incremental path of `buildCache` could put good
layers on stale ones. `Fits` keeps slices within their arrays, and `AppendedIs`
says what `append` does to all slices: those of other loggers are unchanged
(`PrefixKept`) unless the slice has been extended before, which is what `forked`
remembers. `BuildIs` collects the three paths of `buildCache`.

**`SafetyProofs`** (`UpdateAssumption`; for the other parts the bounds are natural
numbers, and `RouteConstants`: paths and operations are sequences).
`TypeCorrect`, `ReleasedOnceCorrect`, `FreshWritesCorrect`, `SettledSinksCorrect` of
`LogUpdate`. `Sinks` says how often each generation has been released at each step
of an `Update` and after the cleanup; which generations have plain files is left
open. `Times` that no time is ahead of the clock. Under `~raced`, `Rebuild` says that a
rebuild works on the configuration in force, `Valid` that a cache which passes
the test is the one of that configuration, and `Loaded` what the goroutines
that have read an older configuration may still meet. `Valid` is the property
the comment at `logger.go:70` promises; it holds as long as no rebuild overlaps
the end of an `Update`, and the run `log_valid` shows that it fails otherwise.
`MostSpecificCorrect` proves the loop of the constructor for lists of any length:
a least counterexample (`LeastNumber`) shows that the tables of every turn exist
(`FilledExists`) and that after each turn they hold the valid routes so far, each
key with its last timeout (`FilledCompiled`). The longest matching prefix exists
and is unique, because prefixes of one operation are told apart by their lengths
(`LongestExists`, `SamePrefix`). `NearestClassCorrect` does the same for the loops
of the filters (`KeptExists`, `KeptIs`): what is kept is again in order and holds
exactly the nodes that pass, so the chain of filters is an intersection, and the
nearest class is the one of the least distance.
`FreshGenerationCorrect`, `OwnSettingsCorrect`, `AtomicRegistryCorrect` carry the
theorems of `LogTreeProofs` and `InstrumentsProofs` over to the run, and
`TypesCorrect` puts the types of all parts together.

**`ServersProofs`** (`JobAssumption`; `Hooks` a natural number, `Runs` finite).
`TypeCorrect`, `AtMostOneCorrect`, `GateCorrect`, `PileCorrect`,
`NoneBeginsCorrect` of `JobServer`. `Held` says that a run is inside the policy
exactly when it holds the mutex or token, which gives both mutual exclusion and
that nothing is lost. `OneDoomed` counts the run that passed the test of the
context before the cancellation but has not begun its body. `StopOrder` ties the
scheduler to the place of `Stop`.
`HookOrderCorrect` rests on `AppStages`: what the servers and the hooks have done
says how far `Run` has come, also when it has failed or was cancelled between two
stages; and where the signal goroutine is, which hooks before the stop have been
called. `EndLinesCorrect` needs that the ghost `met` has every pair of runs under
way (`Meetings`) and that the shared variable holds the logger of the run that
reads it or of one it has met (`LoggerShared`). `TotalsCorrect` is not checked by a
run: for every job and status `cron_job_runs_total` is the number of the runs
that have reported it, so that counter is exact although the gauge is not (`job_gauge`).
These are theorems about the specifications of the three components, and
`PartsCorrect` draws them together for the run, whose initial states are
representatives.

**`SharedProofs`** (`CacheAssumption`; the sizes of channels, pool and bounds are
natural numbers; `Nobody` is not a caller).
`TypeCorrect`, `OneClientCorrect`, `NoneLostCorrect`, `AnswersCorrect`,
`AtomicAnswersCorrect` of `ClientCache`. `Making` says that the holder of the mutex
works on a key that has no client; `Mapped` that the map never has a client twice
and that only the entry release is about to delete may be closed. For the
refinement a client counts as used from the moment it is stored, so `Make` is a
stutter and `Store` the abstract `Create`.
`AccountedCorrect`: `Accounted` says that each message that was taken has one
outcome, and that each list is in order. To keep it, the message at the goroutine
must be newer than all it has dealt with and what is still to come newer than what
was taken (`Newest`); reading and sending move an element from one sequence to
another and leave their concatenation alone (`ReadKeeps`, `HeadAndTail`).
`SendsToOpenCorrect` is the safety half of `SubscriptionEnds`.
`PoolTypeCorrect`, `PoolWaitCorrect`, `PoolMostCorrect`: the counter and the
semaphore are the cardinalities of the functions between `Add` and `Done` and
between the two operations on the channel (`PoolCounters`). `PoolPending` says that
as long as a function is not submitted, the one that submits it has not returned.
When `Wait` finds the counter at zero, the first function still to be submitted
would therefore have a submitter that is itself still to be submitted, and is
numbered before it: there is none (`NothingLeft`).
`OneWriterCorrect` and `ClosedMeansRefusedCorrect` carry the theorems of
`WebSocketProofs` over to the run.

**`InstrumentsProofs`** (`MaxInstruments \in Nat`).
`TypeCorrect`, `OneInstrumentCorrect`, `AtomicRegistryCorrect`: the registry
implements `AtomicCache`. The invariant adds `Named`: once a call has created or
found its name, the map has it, so the second look-up finds it. The refinement
is proved thread by thread: `OneAnswer` says that a step changes the abstract
answer of the thread that takes it and of no other, because entries of the map are
never replaced.

**`WebSocketProofs`** (`Nobody` is not a caller, `MaxRepeats > 0`).
`TypeCorrect`, `OneWriterCorrect`, `ClosedCorrect`, `ReleasedCorrect`. `Locked`
says that whoever is between locking and unlocking holds the lock, `Refusing` that
the sticky write error is set before any `Close` returns, through the `sync.Once`
for those that came later, and where a `Send` that began afterwards can be.
`Reading` bounds the reads that failed. `ReleasedCorrect` is the safety half of
`LoopEnds`: a loop that is done has closed the connection and called `OnClose`
once.

*How the compositions are covered.* `PartsAre` shows that every behaviour of an
`MC` module is, for each component, a behaviour of that component's specification
that may stutter. Where a component's theorems stand in a module of their own, that
module is instantiated with the variables of the composition, and a lemma
(`SameTree`, `SameMetrics`, `SameSocket`) shows its definitions equal to the
component's.

*Data.* A property of a loop over a list cannot be proved with the library's
induction theorems, which take an operator as parameter. The loops are recursive
functions instead, and both that the function exists and what it yields follow from
the well-foundedness of the numbers: a least turn at which the claim fails does
not fail.

*Only model-checked* are the liveness properties: `Converges`, `ReaderEnds`,
`Drains`, `StopEnds`, `RunEnds`, `CallsReturn`, `LoopEnds`, `CallsEnd`,
`SubscriptionEnds`, `PoolDrains`. They need fairness and `ENABLED`, which the
prover does not handle. That a property fails (section 6) is shown by TLC's
counterexample.

## 6. Where the code and its comments disagree

Seven runs end in a counterexample. Each checks one sentence of the repository.

- `config_cleanup`: "清理函数，用于关闭配置和释放资源" (`pkg/config/config.go:19`). `Stop`
  cancels the context `Next` selects on, but the send `ch <- kvs`
  (`priority_config_source.go:92`) selects on nothing. A goroutine that publishes
  when the reader has gone stays blocked with the mutex held, and the others
  behind it.
- `layered_priority`: "本地环境（env.IsLocal()）：文件配置 > Consul 配置"
  (`pkg/config/config.go:23-26`). A group announces the changed path and those
  after it; the outer source caches that suffix as the whole group. If then the
  lower group changes, what is appended for the higher group lacks its earlier
  paths, and the lower group's value wins until the next change.
- `log_siblings`: copy-on-write (`pkg/log/logger.go:84`). `With` appends to a
  shared slice (`logger.go:207`). Two loggers derived from one with spare
  capacity share the element; the first writes the second's field as soon as it
  is rebuilt.
- `log_context`: "ctx 变化：重建 layer4" (`pkg/log/logger.go:364`). The branch reuses
  `cache.Logger` and rebuilds only when that is nil, which it never is.
- `log_valid`: "对应 global 的 timestamp，用于判断缓存是否有效"
  (`pkg/log/logger.go:70`). The time stored is that of the rebuild, so an old
  configuration can be stamped newer than the one that replaces it, and is kept.
- `app_hooks`: "这些函数在应用停止服务器之前执行" (`pkg/app/hook.go:92`), of
  `BeforeStop`. The context given to kratos is cancelled by the same signal
  (`graceful_shutdown.go:25`), so servers are stopped while the hooks have not
  begun, or, if the context is seen first, the hooks do not run at all.
- `job_gauge`: "运行任务数" (`pkg/job/otel/metrics.go:31`) and "运行中任务数-1" (`:130`).
  `Record` sets the gauge to 1 at a start and to -1 at an end.

## 7. Observations without a run

Met while reading; no property is claimed for them.

- `Watch` that fails on a later source leaves the goroutines of the earlier ones
  running (`priority_config_source.go:64`), although `config.go:29` says the
  resources are cleaned up. The model has the step (`OpenFails`).
- A source that does not replay and changes between `Load` and `Watch` shows its
  change only with the next one; `Converges` is stated for replaying sources.
- Fields added to a disabled logger are not in its cache; after
  `Disable(false)` they are missing until the next update. `OwnSettings`
  excludes these loggers (`deaf`).
- `FilterLevel` on a plain logger does not replace the filter of the global
  level it already passes through, so it can only raise it.
- A field added to the hook after an update is promised for all later records
  (`pkg/log/hook.go:12`, `:26`, `:113`, and the repository's `README.md:99`). A plain
  logger misses it until the next update: it takes the fast path, which reuses the
  logger the update built (`logger.go:378`). So may the loggers derived from it by
  `With` and `WithContext` alone, whose layer 2 is the cached one if that is newer
  than the field. One that filters keys or sets the caller depth has it.
  `FreshGeneration` states what holds: every logger has the fields the last update
  found, and those of the last kind all of them.
- Releasing is said to close file handles (`logger.go:573`). The release function of
  a rotating file, the default, only syncs zap's core
  (`internal/logger/file.go:77`); nothing closes the lumberjack file, neither an
  update nor the cleanup. An update to another path leaves the old file open, and
  the loggers that still have it in their caches go on writing to it. `ReleasedOnce`
  is about the calls of the release functions and no more.
- Records logged while an `Update` runs may go to a closed file if it is a plain
  one, because the old sinks are released before the new configuration is stored
  (`logger.go:581`).
- A `Stop` before `Start` has set `s.cancel` calls a nil function, and a `Stop`
  that overlaps `Start` can leave a scheduler that starts afterwards. The model
  has both; `NoneBegins` and `StopEnds` are stated for a `Stop` after `Start`.
- The comment of `Stop` says it does not wait for running jobs
  (`bootstrap.go:186`). For the jobs without a schedule that is so; for the cron
  runs it is not, as the scheduler's stop waits for them (`cron.go:68`). No property
  claims either: `NoneBegins` says that no body of a cron run begins after `Stop`,
  which both readings ask for.
- A run that panics is counted as a success
  (`internal/middleware/metrics/metrics.go:16`), because its deferred report reads a
  nil error.
- Overlapping runs of any jobs assign one captured logger
  (`internal/middleware/logging/logging.go:15`). The line that ends a run may carry
  another run's context, but (`EndLinesOfTheTime`) one of the same time. The line
  before the body does not carry the run's context at all: the cached top layer is
  kept (`log_context`), so what reads the job's name from the context finds none, or,
  once the logger of some run has been rebuilt, that run's for all that follow.
- `AfterStart` hooks are said to run when the servers have finished starting and
  accept requests (`hook.go:83`, `:126`, `:355`, `app.go:189`). kratos calls them when
  the goroutines of the servers have been launched: a server may not listen yet, or
  have failed. `HookOrder` claims nothing of them but that all of them come before
  those of `BeforeStop`, and after those of `BeforeStart`.
- A signal while the application starts can stop the job server before its
  `Start`, which crashes it (`AppLifecycle!Awaken`); `RunEnds` counts that as an
  end.
- kratos returns at the first failing `AfterStart` hook, and `App.Run` with it, although
  `hook.go:134` and `:221` say that the others are still called and `:356` that the
  application goes on (`StartHook`). `NewHook` is
  documented as safe for concurrent use (`hook.go:179`), the registration appends
  without a lock.
- The delayed stop sleeps without looking at the context (`register.go:185`): it may
  outlast the stop timeout, and the server's `Stop` is then called with an expired
  context. Without a registrar an error of the last `BeforeStop` hook is what
  `App.Stop` returns, and the hooks after the stop are skipped.
- A `Send` without a deadline to a peer that reads nothing holds the lock that
  `Close` needs (`websocket_client.go:150`); while such a peer neither reads nor
  goes away its goroutines stay, and stopping the HTTP server does not end an
  upgraded connection. Messages of one client are handled in no order
  (`websocket_client.go:122`).
- The loop the comment of `Subscribe` shows leaves when the error channel is closed,
  and the messages still in the other one are not read. `subscribe_option.go:51`
  says an error may be dropped when the channel is full; the code waits for room.
- A subscriber that stops reading leaves the goroutine of `Subscribe` behind.
- `RegisterNewCounter` with a name the meter refuses answers an error also when the
  name has been registered meanwhile; gauges and histograms do not.
- A route with an empty key is left out (`timeout.go`), so there is no prefix for
  all requests. The environment filter runs before the protocol and metadata
  filters: a near node that lacks what is asked for hides a farther one that has it.
- Functions of the pool that submit functions can take all slots and wait for ever;
  a pool of size 0 never runs one.
- `config.example.yaml:158` documents the server's metadata prefix as `x-md-` and
  the client's as `x-md-global-`; both middlewares use `x-md-`
  (`internal/middleware/metadata/client.go:15`).
- `WithHttpCallOption` and `WithGrpcCallOption` append to the slice of the parent
  context (`pkg/client/context.go:61`, `:72`), as `With` of the logger does.
- `config.example.yaml:250` offers `postgres`, which falls through to MySQL
  (`pkg/database/connection.go:49`).
- A connection created while or after the redis manager's release runs is stored
  and nobody closes it (`manager.go:175`).

## 8. What is not modelled

Left out of the modelled parts, each because it holds no state that others see:

- *Configuration*: stopping the layered configuration; reading files and Consul
  keys, parsing, typed settings.
- *Logging*: rotation and encoding of log files, wording. The hook is changed at
  once in `LogTree`; the code writes it without synchronisation, and the words of
  that race are not modelled. Two `Update`s at once are not modelled either: the
  constructors call it in sequence.
- *Jobs*: the merge of job configurations and the cron expression parser.
- *Servers*: the options handed to kratos' HTTP and gRPC servers, the routing of
  WebSocket paths, the key-value store of a WebSocket client; the middlewares other
  than the timeout, which pass a configuration on to kratos.
- *Clients*: what a connection or client does once it is built; transports.

Components without a module, with the reason:

- *Database*: the constructor of gorm's connections and plugins; which connection a
  query uses is data in a context. Pools and transactions are gorm's.
- *Registry, discovery, Consul, tracing, environment*: constructors of library
  objects and values that are set once before anything starts.
- *Errors and HTTP encoding*: pure conversions, with the wording as their point.
- *Redis package-level functions* (`default_client.go`): 2969 lines, each of which
  delegates a method to the default client.
- *Utilities* other than the pool and the graceful shutdown: functions of a few lines
  over slices and maps, and wrappers of library calls.
- *Code generators* and *generated code*.

The map covers a small share of the repository's lines for that reason: of
about 37 600 lines of Go, 18 400 are generated from the `.proto` files, 5 200 are the
code generators under `cmd`, 3 000 are the delegating functions of redis. What keeps
state is in the files the map names, and comments are a good part of those.

## 9. What could come next

- `JobServer` inside `AppLifecycle` in place of its two-step summary, and the job
  server's `Start` after `Stop` under the signals of the application.
- Abstract specifications for the nested sources and for the loggers, as
  `AtomicConfig` and `AtomicCache` are for one source and the caches, and the
  refinements proved.
- The safety halves of the remaining liveness properties: what is true at the end
  of `Drains` or `RunEnds` once the system is at rest.
- The propagation of metadata between servers and clients as a function on
  headers, against a definition by sets of keys.
