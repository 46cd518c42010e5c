---------------------------- MODULE GoroutinePool ----------------------------
(***************************************************************************)
(* pkg/utils/goroutine_pool.go: a channel as semaphore and a WaitGroup.  A *)
(* caller submits its functions one after the other and waits; a function  *)
(* of the pool may itself submit functions to it.                          *)
(***************************************************************************)
EXTENDS Integers, FiniteSets

CONSTANTS
    Max,            \* NewGoroutinePool(max)
    NTasks          \* bound: how many functions are submitted

Tasks == 1..NTasks
Caller == 0

VARIABLES
    parent,         \* who submits a function: the caller, or another function
    state,          \* where a function is
    sem,            \* how full the channel is
    count,          \* the counter of the WaitGroup
    waited          \* the caller's Wait has returned

vars == <<parent, state, sem, count, waited>>

Stages == {"new", "held", "ready", "running", "returned", "done", "gone"}

TypeOK ==
    /\ parent \in [Tasks -> {Caller} \cup Tasks]
    /\ state \in [Tasks -> Stages]
    /\ sem \in 0..Max
    /\ count \in 0..NTasks
    /\ waited \in BOOLEAN

Init ==
    /\ parent \in {p \in [Tasks -> {Caller} \cup Tasks] : \A t \in Tasks : p[t] < t}
    /\ state = [t \in Tasks |-> "new"]
    /\ sem = 0 /\ count = 0 /\ waited = FALSE

Move(t, from, to) == state[t] = from /\ state' = [state EXCEPT ![t] = to]

Submitted(t) == state[t] \notin {"new", "held"}

Before(t) == {s \in Tasks : parent[s] = parent[t] /\ s < t}

Children(t) == {s \in Tasks : parent[s] = t}

-----------------------------------------------------------------------------
\* Go, first line: blocks while the channel is full.
Acquire(t) ==
    /\ Move(t, "new", "held")
    /\ IF parent[t] = Caller THEN ~waited ELSE state[parent[t]] = "running"
    /\ \A s \in Before(t) : Submitted(s)
    /\ sem < Max
    /\ sem' = sem + 1
    /\ UNCHANGED <<parent, count, waited>>

\* Mutant: the goroutine itself calls Add.
LaunchUncounted(t) ==
    /\ \/ Move(t, "held", "ready") /\ UNCHANGED count
       \/ Move(t, "ready", "running") /\ count' = count + 1
    /\ UNCHANGED <<parent, sem, waited>>

\* Add, and the go statement.
Launch(t) ==
    /\ Move(t, "held", "ready")
    /\ count' = count + 1
    /\ UNCHANGED <<parent, sem, waited>>

Begin(t) ==
    /\ Move(t, "ready", "running")
    /\ UNCHANGED <<parent, sem, count, waited>>

\* f returns: it has submitted all it submits.
Return(t) ==
    /\ Move(t, "running", "returned")
    /\ \A s \in Children(t) : Submitted(s)
    /\ UNCHANGED <<parent, sem, count, waited>>

\* The deferred calls run in the opposite order: Done, then the slot.
Done(t) ==
    /\ Move(t, "returned", "done")
    /\ count' = count - 1
    /\ UNCHANGED <<parent, sem, waited>>

\* Mutant: the slot is kept.
ReleaseNothing(t) ==
    /\ Move(t, "done", "gone")
    /\ UNCHANGED <<parent, sem, count, waited>>

Release(t) ==
    /\ Move(t, "done", "gone")
    /\ sem' = sem - 1
    /\ UNCHANGED <<parent, count, waited>>

\* The caller waits when it has submitted all of its functions.
Wait ==
    /\ ~waited
    /\ \A t \in Children(Caller) : Submitted(t)
    /\ count = 0
    /\ waited' = TRUE
    /\ UNCHANGED <<parent, state, sem, count>>

TaskStep(t) == Acquire(t) \/ Launch(t) \/ Begin(t) \/ Return(t) \/ Done(t) \/ Release(t)

Next == Wait \/ \E t \in Tasks : TaskStep(t)

Spec == Init /\ [][Next]_vars

\* The runtime schedules every goroutine that can take a step; a function
\* returns once it has submitted what it submits.
Fairness == WF_vars(Wait) /\ \A t \in Tasks : WF_vars(TaskStep(t))

FairSpec == Spec /\ Fairness

-----------------------------------------------------------------------------
\* No more than max functions run at a time, those submitted by functions of
\* the pool included (goroutine_pool.go:16, :26).
AtMostMax == Cardinality({t \in Tasks : state[t] \in {"running", "returned"}}) <= Max

\* When Wait has returned every function has returned, also those that were
\* submitted by functions of the pool while the caller already waited
\* (goroutine_pool.go:36: Add is called before the goroutine starts).
WaitCovers == waited => \A t \in Tasks : state[t] \in {"done", "gone"}

\* A function that submits others holds a slot while it waits for one: the
\* pool empties and Wait returns whenever fewer functions than slots do that.
Nesting == {t \in Tasks : Children(t) # {}}

PoolDrains == Cardinality(Nesting) < Max => <>(waited /\ sem = 0)
=============================================================================
