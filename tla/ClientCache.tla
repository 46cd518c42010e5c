----------------------------- MODULE ClientCache -----------------------------
(***************************************************************************)
(* The double-checked cache of clients: GetConnection of pkg/redis/        *)
(* manager.go and resolveClient of pkg/client/factory.go, step by step,    *)
(* with the release of all connections that the redis manager's cleanup    *)
(* runs, perhaps while calls are under way.                                *)
(***************************************************************************)
EXTENDS Integers

CONSTANTS
    Threads,
    Keys,           \* connection names, or client names with a protocol
    NoThread,       \* the mutex is unlocked
    MaxClients      \* bound: how many clients are made

ASSUME CacheAssumption == MaxClients \in Nat /\ NoThread \notin Threads

VARIABLES
    conn,           \* the sync.Map
    made,           \* clients are numbered in the order they are made
    open,           \* clients that have not been closed
    lock,           \* the goroutine that holds the mutex, or NoThread
    pc, key,        \* where a call is and what it asks for
    new,            \* the client a call has made and not yet stored
    got,            \* what a call returns
    relPc, visited, must, closing  \* release: its Range over the map

callVars == <<lock, pc, key, new, got>>
relVars == <<relPc, visited, must, closing>>
vars == <<conn, made, open, callVars, relVars>>

None == 0
Failed == -1
Clients == 1..MaxClients

Critical == {"again", "make", "store", "unlock"}

TypeOK ==
    /\ conn \in [Keys -> {None} \cup Clients]
    /\ made \in 0..MaxClients
    /\ open \subseteq 1..made
    /\ lock \in Threads \cup {NoThread}
    /\ pc \in [Threads -> {"idle", "load", "lock", "again", "make", "store", "unlock", "done"}]
    /\ key \in [Threads -> Keys]
    /\ new \in [Threads -> {None} \cup Clients]
    /\ got \in [Threads -> {None, Failed} \cup Clients]
    /\ relPc \in {"idle", "range", "close", "delete", "done"}
    /\ visited \subseteq Keys /\ must \subseteq Keys /\ closing \in Keys
    /\ \A t \in Threads : pc[t] \in Critical <=> lock = t

Init ==
    /\ conn = [k \in Keys |-> None]
    /\ made = 0 /\ open = {} /\ lock = NoThread
    /\ pc = [t \in Threads |-> "idle"]
    /\ key \in [Threads -> Keys]
    /\ new = [t \in Threads |-> None]
    /\ got = [t \in Threads |-> None]
    /\ relPc = "idle" /\ visited = {} /\ must = {} /\ closing \in Keys

Goto(t, from, to) == pc[t] = from /\ pc' = [pc EXCEPT ![t] = to]

Answer(t, c) == got' = [got EXCEPT ![t] = c]

-----------------------------------------------------------------------------
Call(t, k) ==
    /\ Goto(t, "idle", "load")
    /\ key' = [key EXCEPT ![t] = k]
    /\ Answer(t, None)
    /\ UNCHANGED <<conn, made, open, lock, new, relVars>>

LoadHit(t) ==
    /\ conn[key[t]] # None
    /\ Goto(t, "load", "done")
    /\ Answer(t, conn[key[t]])
    /\ UNCHANGED <<conn, made, open, lock, key, new, relVars>>

LoadMiss(t) ==
    /\ conn[key[t]] = None
    /\ Goto(t, "load", "lock")
    /\ UNCHANGED <<conn, made, open, lock, key, new, got, relVars>>

\* resolveClient: an unknown protocol is an error before the lock is taken.
Reject(t) ==
    /\ conn[key[t]] = None
    /\ Goto(t, "load", "done")
    /\ Answer(t, Failed)
    /\ UNCHANGED <<conn, made, open, lock, key, new, relVars>>

Lock(t) ==
    /\ lock = NoThread
    /\ Goto(t, "lock", "again")
    /\ lock' = t
    /\ UNCHANGED <<conn, made, open, key, new, got, relVars>>

AgainHit(t) ==
    /\ conn[key[t]] # None
    /\ Goto(t, "again", "unlock")
    /\ Answer(t, conn[key[t]])
    /\ UNCHANGED <<conn, made, open, lock, key, new, relVars>>

\* Mutant: the map is not read again under the lock.
AgainNever(t) ==
    /\ Goto(t, "again", "make")
    /\ UNCHANGED <<conn, made, open, lock, key, new, got, relVars>>

AgainMiss(t) ==
    /\ conn[key[t]] = None
    /\ Goto(t, "again", "make")
    /\ UNCHANGED <<conn, made, open, lock, key, new, got, relVars>>

Make(t) ==
    /\ made < MaxClients
    /\ Goto(t, "make", "store")
    /\ made' = made + 1
    /\ new' = [new EXCEPT ![t] = made + 1]
    /\ open' = open \cup {made + 1}
    /\ UNCHANGED <<conn, lock, key, got, relVars>>

\* Mutant: an error returns without unlocking.
MakeFailsLocked(t) ==
    /\ Goto(t, "make", "done")
    /\ Answer(t, Failed)
    /\ UNCHANGED <<conn, made, open, lock, key, new, relVars>>

MakeFails(t) ==
    /\ Goto(t, "make", "unlock")
    /\ Answer(t, Failed)
    /\ UNCHANGED <<conn, made, open, lock, key, new, relVars>>

Store(t) ==
    /\ Goto(t, "store", "unlock")
    /\ conn' = [conn EXCEPT ![key[t]] = new[t]]
    /\ Answer(t, new[t])
    /\ new' = [new EXCEPT ![t] = None]
    /\ UNCHANGED <<made, open, lock, key, relVars>>

Unlock(t) ==
    /\ Goto(t, "unlock", "done")
    /\ lock' = NoThread
    /\ UNCHANGED <<conn, made, open, key, new, got, relVars>>

Return(t) ==
    /\ Goto(t, "done", "idle")
    /\ UNCHANGED <<conn, made, open, lock, key, new, got, relVars>>

-----------------------------------------------------------------------------
\* release: Range visits every key that is there all the time, and perhaps
\* others; it takes no lock.  It is given to the caller by NewManager, which
\* has stored the default connection before.
Release ==
    /\ relPc = "idle"
    /\ \E k \in Keys : conn[k] # None
    /\ relPc' = "range"
    /\ must' = {k \in Keys : conn[k] # None}
    /\ UNCHANGED <<conn, made, open, callVars, visited, closing>>

Visit(k) ==
    /\ relPc = "range"
    /\ k \notin visited /\ conn[k] # None
    /\ relPc' = "close"
    /\ visited' = visited \cup {k}
    /\ closing' = k
    /\ UNCHANGED <<conn, made, open, callVars, must>>

\* Mutant: the entry is deleted and its client not closed.
CloseForgotten ==
    /\ relPc = "close"
    /\ relPc' = "delete"
    /\ UNCHANGED <<conn, made, open, callVars, visited, must, closing>>

CloseClient ==
    /\ relPc = "close"
    /\ relPc' = "delete"
    /\ open' = open \ {conn[closing]}
    /\ UNCHANGED <<conn, made, callVars, visited, must, closing>>

Delete ==
    /\ relPc = "delete"
    /\ relPc' = "range"
    /\ conn' = [conn EXCEPT ![closing] = None]
    /\ UNCHANGED <<made, open, callVars, visited, must, closing>>

ReleaseReturns ==
    /\ relPc = "range"
    /\ must \subseteq visited
    /\ relPc' = "done"
    /\ UNCHANGED <<conn, made, open, callVars, visited, must, closing>>

-----------------------------------------------------------------------------
Step(t) ==
    \/ LoadHit(t) \/ LoadMiss(t) \/ Reject(t) \/ Lock(t)
    \/ AgainHit(t) \/ AgainMiss(t) \/ Make(t) \/ MakeFails(t) \/ Store(t)
    \/ Unlock(t) \/ Return(t)

ReleaseStep ==
    \/ Release \/ CloseClient \/ Delete \/ ReleaseReturns
    \/ \E k \in Keys : Visit(k)

Next ==
    \/ \E t \in Threads : Step(t) \/ \E k \in Keys : Call(t, k)
    \/ ReleaseStep

Spec == Init /\ [][Next]_vars

\* The goroutines are scheduled, a client is made or refused in finite time,
\* and the mutex is fair: sync.Mutex hands over to a waiter it has starved.
Fairness == \A t \in Threads : WF_vars(Step(t)) /\ SF_vars(Lock(t))

FairSpec == Spec /\ Fairness

-----------------------------------------------------------------------------
\* A client that is in the map for a key, or on its way there.
KeyOf(c, k) == conn[k] = c \/ \E t \in Threads : new[t] = c /\ key[t] = k

\* No key ever has two open clients, not even one that two calls asked for
\* first at the same time or that is asked for during the release
\* (manager.go:78-92, factory.go:106-122).

OneClient ==
    \A k \in Keys : \A c, d \in open : (KeyOf(c, k) /\ KeyOf(d, k)) => c = d

\* Every open client is in the map, where a release finds it, or on its way
\* there: none is overwritten or dropped while open.
NoneLost == \A c \in open : \E k \in Keys : KeyOf(c, k)

\* Until a release begins, what a call returns is the open client of its key.
AnswersOpen ==
    relPc = "idle" =>
        \A t \in Threads : (pc[t] = "done" /\ got[t] \in Clients) =>
            got[t] \in open /\ conn[key[t]] = got[t]

\* Every call returns: no error path keeps the mutex.
CallsReturn == \A t \in Threads : pc[t] # "idle" ~> pc[t] = "idle"

\* The cache implements the one that answers in one step.  A client counts as
\* made when it is stored.
Atomic == INSTANCE AtomicCache
              WITH used <- (1..made) \ {new[t] : t \in Threads}

AtomicAnswers == Atomic!Spec
=============================================================================
