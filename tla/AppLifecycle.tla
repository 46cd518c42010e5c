---------------------------- MODULE AppLifecycle ----------------------------
(***************************************************************************)
(* The application NewApp builds (pkg/app/app.go): kratos' App (external)  *)
(* runs the hooks of hook.go and the servers of pkg/server/register.go     *)
(* under a root context that pkg/utils/graceful_shutdown.go cancels by     *)
(* itself when a signal comes.  kratos listens to the same signals, but    *)
(* only once everything has started.                                       *)
(***************************************************************************)
EXTENDS Integers

CONSTANT Hooks      \* how many functions are registered for each stage

VARIABLES
    disabled,       \* the servers DisableState switches off
    delayed,        \* stop_delay is positive
    run,            \* where App.Run is
    called,         \* called[stage]: how many of its hooks have been called
    failure,        \* why Run will not return nil, or "none"
    signal,         \* where the operator's signal has arrived
    root,           \* the root context has been cancelled
    group,          \* the errgroup's context has been cancelled by kratos
    registry,       \* the instance in the service registry
    start, stop,    \* each server's Start, and the goroutine that stops it
    stopper         \* where kratos' signal goroutine is

mainVars == <<run, called, failure>>
serverVars == <<start, stop>>
confVars == <<disabled, delayed>>
vars == <<confVars, mainVars, signal, root, group, registry, serverVars, stopper>>

Servers == {"http", "grpc", "job"}

\* The servers that have an address others connect to.
Endpoints == {"http", "grpc"}

Stages == {"beforeStart", "afterStart", "beforeStop", "afterStop"}

\* Mutant: the hooks of the two ends of the stop are mixed up.
RegisteredSwapped(stage) ==
    CASE stage = "beforeStop" -> "afterStop"
      [] stage = "afterStop" -> "beforeStop"
      [] OTHER -> stage

\* The stage whose hooks NewApp hands to each option of kratos.
RegisteredAs(stage) == stage

\* GetServers: what is registered, less what is disabled, wrapped or not.
GetServers == Servers \ disabled

\* RegisterServer wraps a server with an address when there is a delay.
Wrapped(s) == delayed /\ s \in Endpoints

TypeOK ==
    /\ disabled \subseteq Endpoints /\ delayed \in BOOLEAN
    /\ run \in {"beforeStart", "launch", "register", "afterStart", "listen", "wait",
                "afterStop", "returned", "crashed"}
    /\ called \in [Stages -> 0..Hooks]
    /\ failure \in {"none", "cancelled", "hook", "server", "registry"}
    /\ signal \in {"none", "sent", "queued"}
    /\ root \in BOOLEAN /\ group \in BOOLEAN
    /\ registry \in {"absent", "listed", "removed"}
    /\ start \in [Servers -> {"none", "called", "serving", "returned", "failed"}]
    /\ stop \in [Servers -> {"none", "waiting", "delay", "stopping", "stopped"}]
    /\ stopper \in {"none", "select", "hooks", "deregister", "cancel", "done"}

Init ==
    /\ disabled \in SUBSET Endpoints /\ delayed \in BOOLEAN
    /\ run = "beforeStart"
    /\ called = [stage \in Stages |-> 0]
    /\ failure = "none"
    /\ signal = "none" /\ root = FALSE /\ group = FALSE
    /\ registry = "absent"
    /\ start = [s \in Servers |-> "none"]
    /\ stop = [s \in Servers |-> "none"]
    /\ stopper = "none"

Running == run \notin {"returned", "crashed"}

\* What the goroutines of the group wait for.
Done == root \/ group

\* The group keeps the first error.
Fails(why) ==
    /\ failure' = IF failure = "none" THEN why ELSE failure
    /\ group' = TRUE

-----------------------------------------------------------------------------
(* The signal reaches the channel of GracefulShutdownCtx at any time, and  *)
(* kratos' channel if Run has got as far as listening.                     *)
Signal ==
    /\ Running
    /\ signal = "none"
    /\ signal' = IF stopper = "none" THEN "sent" ELSE "queued"
    /\ UNCHANGED <<confVars, mainVars, root, group, registry, serverVars, stopper>>

\* Mutant: the goroutine of GracefulShutdownCtx leaves without cancelling.
IgnoreSignal == signal # "none" /\ UNCHANGED vars

CancelRoot ==
    /\ Running
    /\ signal # "none" /\ ~root
    /\ root' = TRUE
    /\ UNCHANGED <<confVars, mainVars, signal, group, registry, serverVars, stopper>>

-----------------------------------------------------------------------------
(* Run.  A hook before or after the start that fails ends it at once.      *)
CallHook(stage) == called' = [called EXCEPT ![RegisteredAs(stage)] = @ + 1]

StartHook(stage) ==
    /\ run = stage /\ stage \in {"beforeStart", "afterStart"}
    /\ called[stage] < Hooks
    /\ CallHook(stage)
    /\ \/ UNCHANGED <<run, failure>>
       \/ run' = "returned" /\ failure' = "hook"
    /\ UNCHANGED <<confVars, signal, root, group, registry, serverVars, stopper>>

\* Two goroutines for every server: one to stop it and one to start it.
Launch ==
    /\ run = "beforeStart" /\ called["beforeStart"] = Hooks
    /\ run' = "register"
    /\ start' = [s \in Servers |-> IF s \in GetServers THEN "called" ELSE "none"]
    /\ stop' = [s \in Servers |-> IF s \in GetServers THEN "waiting" ELSE "none"]
    /\ UNCHANGED <<confVars, called, failure, signal, root, group, registry, stopper>>

\* Without a registrar the step changes nothing in the registry.
Register ==
    /\ run = "register"
    /\ \/ run' = "afterStart" /\ registry' \in {"absent", "listed"} /\ UNCHANGED failure
       \/ run' = "returned" /\ failure' = "registry" /\ UNCHANGED registry
    /\ UNCHANGED <<confVars, called, signal, root, group, serverVars, stopper>>

Listen ==
    /\ run = "afterStart" /\ called["afterStart"] = Hooks
    /\ run' = "wait"
    /\ stopper' = "select"
    /\ UNCHANGED <<confVars, called, failure, signal, root, group, registry, serverVars>>

\* eg.Wait: every goroutine has returned.  A cancelled context is no error.
GroupEnds ==
    /\ run = "wait"
    /\ stopper = "done"
    /\ \A s \in GetServers : start[s] \in {"returned", "failed"} /\ stop[s] = "stopped"
    /\ IF failure \in {"none", "cancelled"}
       THEN run' = "afterStop" /\ failure' = "none"
       ELSE run' = "returned" /\ UNCHANGED failure
    /\ UNCHANGED <<confVars, called, signal, root, group, registry, serverVars, stopper>>

\* Every hook after the stop is called; Run returns the error of the last.
StopHook ==
    /\ run = "afterStop" /\ called[RegisteredAs("afterStop")] < Hooks
    /\ CallHook("afterStop")
    /\ failure' \in {"none", "hook"}
    /\ UNCHANGED <<confVars, run, signal, root, group, registry, serverVars, stopper>>

Return ==
    /\ run = "afterStop" /\ called[RegisteredAs("afterStop")] = Hooks
    /\ run' = "returned"
    /\ UNCHANGED <<confVars, called, failure, signal, root, group, registry, serverVars, stopper>>

-----------------------------------------------------------------------------
(* The servers.  The job server returns from Start at once and stays       *)
(* active; the others return when they have been stopped, or fail.         *)
Serve(s) ==
    /\ Running
    /\ start[s] = "called"
    /\ start' = [start EXCEPT ![s] = IF s = "job" THEN "returned" ELSE "serving"]
    /\ UNCHANGED <<confVars, mainVars, signal, root, group, registry, stop, stopper>>

StartFails(s) ==
    /\ Running
    /\ start[s] = "called" /\ s \in Endpoints
    /\ start' = [start EXCEPT ![s] = "failed"]
    /\ Fails("server")
    /\ UNCHANGED <<confVars, run, called, signal, root, registry, stop, stopper>>

StartReturns(s) ==
    /\ Running
    /\ start[s] = "serving" /\ stop[s] \in {"stopping", "stopped"}
    /\ start' = [start EXCEPT ![s] = "returned"]
    /\ UNCHANGED <<confVars, mainVars, signal, root, group, registry, stop, stopper>>

\* Stop of the wrapper sleeps first; Stop of the job server calls a function
\* that only its Start sets.
Awaken(s) ==
    /\ Running /\ Done
    /\ stop[s] = "waiting"
    /\ stop' = [stop EXCEPT ![s] = IF Wrapped(s) THEN "delay" ELSE "stopping"]
    /\ run' = IF s = "job" /\ start[s] = "called" THEN "crashed" ELSE run
    /\ UNCHANGED <<confVars, called, failure, signal, root, group, registry, start, stopper>>

DelayOver(s) ==
    /\ Running
    /\ stop[s] = "delay"
    /\ stop' = [stop EXCEPT ![s] = "stopping"]
    /\ UNCHANGED <<confVars, mainVars, signal, root, group, registry, start, stopper>>

StopReturns(s) ==
    /\ Running
    /\ stop[s] = "stopping"
    /\ stop' = [stop EXCEPT ![s] = "stopped"]
    /\ \/ UNCHANGED <<failure, group>>
       \/ s \in Endpoints /\ Fails("server")
    /\ UNCHANGED <<confVars, run, called, signal, root, registry, start, stopper>>

-----------------------------------------------------------------------------
(* kratos' signal goroutine: it selects between the signal and the end of  *)
(* the context, and only the signal leads to App.Stop.                     *)
StopperSees ==
    /\ Running
    /\ stopper = "select"
    /\ \/ Done /\ stopper' = "done"
       \/ signal = "queued" /\ stopper' = "hooks"
    /\ UNCHANGED <<confVars, mainVars, signal, root, group, registry, serverVars>>

\* App.Stop calls every hook, whatever the ones before returned.
BeforeStopHook ==
    /\ Running
    /\ stopper = "hooks" /\ called[RegisteredAs("beforeStop")] < Hooks
    /\ CallHook("beforeStop")
    /\ UNCHANGED <<confVars, run, failure, signal, root, group, registry, serverVars, stopper>>

\* Then it removes the instance, under a context that the signal cancels; an
\* error ends App.Stop here.
Deregister ==
    /\ Running
    /\ stopper = "hooks" /\ called[RegisteredAs("beforeStop")] = Hooks
    /\ \/ /\ stopper' = "cancel"
          /\ registry' = IF registry = "listed" THEN "removed" ELSE registry
          /\ UNCHANGED <<failure, group>>
       \/ /\ registry = "listed"
          /\ stopper' = "done"
          /\ Fails(IF root THEN "cancelled" ELSE "registry")
          /\ UNCHANGED registry
    /\ UNCHANGED <<confVars, run, called, signal, root, serverVars>>

\* At last it cancels the context; without a registrar the error of the last
\* hook is what it returns.
CancelApp ==
    /\ Running
    /\ stopper = "cancel"
    /\ stopper' = "done"
    /\ group' = TRUE
    /\ failure' \in IF registry = "absent" /\ Hooks > 0 /\ failure = "none"
                    THEN {"none", "hook"} ELSE {failure}
    /\ UNCHANGED <<confVars, run, called, signal, root, registry, serverVars>>

-----------------------------------------------------------------------------
RunStep ==
    \/ \E stage \in Stages : StartHook(stage)
    \/ Launch \/ Register \/ Listen \/ GroupEnds \/ StopHook \/ Return

ServerStep(s) ==
    \/ Serve(s) \/ StartFails(s) \/ StartReturns(s)
    \/ Awaken(s) \/ DelayOver(s) \/ StopReturns(s)

StopperStep == StopperSees \/ BeforeStopHook \/ Deregister \/ CancelApp

Next ==
    \/ Signal \/ CancelRoot \/ RunStep \/ StopperStep
    \/ \E s \in Servers : ServerStep(s)

Spec == Init /\ [][Next]_vars

\* Every goroutine is scheduled and what it calls returns: hooks, the registry,
\* and each server's Stop, which has a deadline.  Nobody needs to send a signal.
Fairness ==
    /\ WF_vars(CancelRoot) /\ WF_vars(RunStep) /\ WF_vars(StopperStep)
    /\ \A s \in Servers : WF_vars(ServerStep(s))

FairSpec == Spec /\ Fairness

-----------------------------------------------------------------------------
\* The stages in their order, even if a signal, a failing server, a hook and the
\* end of a delay come at the same time: no server starts before the hooks
\* before the start are over (hook.go:74); the signal goroutine calls the hooks
\* before the stop when those after the start are over; and the hooks after the
\* stop are called when the ones before it have all been called, or the context
\* was cancelled and none is, and no server is running or being stopped
\* (hook.go:102).  That the servers are up when the hooks after the start run
\* (hook.go:83) is not so: kratos has only launched them by then.
HookOrder ==
    /\ ((\E s \in Servers : start[s] # "none") \/ called["afterStart"] > 0)
          => called["beforeStart"] = Hooks
    /\ called["beforeStop"] > 0 => called["afterStart"] = Hooks
    /\ called["afterStop"] > 0 =>
          /\ called["beforeStop"] \in {0, Hooks}
          /\ \A s \in GetServers : stop[s] = "stopped" /\ start[s] \in {"returned", "failed"}

\* A signal at any moment, also while hooks run and before kratos listens, and
\* a server that cannot start, end App.Run (graceful_shutdown.go:24-34 and
\* register.go:183-188).
RunEnds ==
    (signal # "none" \/ \E s \in Servers : start[s] = "failed") ~> ~Running

\* What hook.go:92 says of BeforeStop, that its hooks run before the servers
\* are stopped: a server that is being stopped by a signal finds them done.
BeforeStopFirst ==
    (failure = "none" /\ \E s \in Servers : stop[s] \in {"stopping", "stopped"})
        => called["beforeStop"] = Hooks
=============================================================================
