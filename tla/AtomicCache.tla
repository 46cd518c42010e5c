----------------------------- MODULE AtomicCache -----------------------------
(***************************************************************************)
(* What the client caches of pkg/redis and pkg/client promise: a call gets *)
(* the client of its key, a client made for it if the key has none, or an  *)
(* error that leaves nothing behind, each in one step.                     *)
(***************************************************************************)
EXTENDS Integers

CONSTANTS
    Threads,
    Keys,
    Clients,        \* the clients that can be made
    None,           \* no client, no answer yet
    Failed          \* the answer of a call that failed

VARIABLES
    conn,           \* the client of each key, or None
    used,           \* the clients ever made
    got             \* what each thread's last call was answered

vars == <<conn, used, got>>

Init == conn = [k \in Keys |-> None] /\ used = {} /\ got = [t \in Threads |-> None]

Ask(t) == got' = [got EXCEPT ![t] = None] /\ UNCHANGED <<conn, used>>

Hit(t, k) ==
    /\ conn[k] # None
    /\ got' = [got EXCEPT ![t] = conn[k]]
    /\ UNCHANGED <<conn, used>>

Create(t, k) ==
    /\ conn[k] = None
    /\ \E c \in Clients \ used :
         /\ conn' = [conn EXCEPT ![k] = c]
         /\ used' = used \cup {c}
         /\ got' = [got EXCEPT ![t] = c]

Fail(t, k) ==
    /\ conn[k] = None
    /\ got' = [got EXCEPT ![t] = Failed]
    /\ UNCHANGED <<conn, used>>

\* A client that is released.
Evict(k) == conn' = [conn EXCEPT ![k] = None] /\ UNCHANGED <<used, got>>

Next ==
    \/ \E t \in Threads :
         Ask(t) \/ \E k \in Keys : Hit(t, k) \/ Create(t, k) \/ Fail(t, k)
    \/ \E k \in Keys : Evict(k)

Spec == Init /\ [][Next]_vars
=============================================================================
