---------------------------- MODULE AtomicConfig ----------------------------
(***************************************************************************)
(* The promise of a priority configuration: the documents of the sources   *)
(* and the merged view change together.                                    *)
(***************************************************************************)
EXTENDS KeyValues

CONSTANT N

VARIABLES docs, view, ready

vars == <<docs, view, ready>>

Sources == 1..N

Init ==
    /\ docs = [i \in Sources |-> [k \in Keys |-> Absent]]
    /\ view = [k \in Keys |-> Absent]
    /\ ready = FALSE

Replaces(i) == docs'[i] \in Document /\ docs' = [docs EXCEPT ![i] = docs'[i]]

\* Documents fetched before the configuration is ready show nowhere yet.
Fetch ==
    /\ ~ready
    /\ \E i \in Sources : Replaces(i)
    /\ UNCHANGED <<view, ready>>

Ready ==
    /\ ~ready
    /\ ready' = TRUE
    /\ view' = Overlay(view, Concat(docs, 1, N))
    /\ UNCHANGED docs

Update ==
    /\ ready
    /\ \E i \in Sources : Replaces(i) /\ view' = Overlay(view, Concat(docs', i, N))
    /\ UNCHANGED ready

Next == Fetch \/ Ready \/ Update

Spec == Init /\ [][Next]_vars
=============================================================================
