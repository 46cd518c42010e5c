--------------------------- MODULE PriorityWatch ---------------------------
(***************************************************************************)
(* priorityConfigSource (pkg/config/priority_config_source.go) while it is *)
(* watched: one goroutine per source runs watch, all of them share the     *)
(* mutex, the map of cached documents and one unbuffered channel.  Source  *)
(* i overrides the sources before it.  The receiver of the channel and the *)
(* watchers of the sources are the environment: a module that composes     *)
(* this one says what Next returns and who takes the documents.            *)
(***************************************************************************)
EXTENDS KeyValues

CONSTANT N          \* the number of sources, in order of priority

ASSUME NAssumption == N \in Nat \ {0}

Sources == 1..N

VARIABLES
    cached,         \* cached[i]: the documents source i returned last
    lock,           \* the goroutine that holds the mutex, 0 when it is free
    pc,             \* pc[i]: where the watch goroutine of source i is
    kvs             \* kvs[i]: the local variable of that goroutine

watchVars == <<cached, lock, pc, kvs>>

PCs == {"none",     \* the goroutine does not exist
        "next",     \* in ww.Next
        "sleep",    \* in time.Sleep after a failed Next
        "got",      \* Next returned, waiting for the mutex
        "send",     \* in ch <- kvs, holding the mutex
        "done"}     \* returned

Free == 0

\* The types, and who holds the mutex: exactly the goroutine that is sending.
WatchTypeOK ==
    /\ cached \in [Sources -> Document]
    /\ lock \in {Free} \cup Sources
    /\ pc \in [Sources -> PCs]
    /\ kvs \in [Sources -> Document]
    /\ \A i \in Sources : pc[i] = "send" <=> lock = i

-----------------------------------------------------------------------------
NextReturns(i, doc) ==
    /\ pc[i] = "next"
    /\ pc' = [pc EXCEPT ![i] = "got"]
    /\ kvs' = [kvs EXCEPT ![i] = doc]
    /\ UNCHANGED <<cached, lock>>

NextFails(i) ==
    /\ pc[i] = "next"
    /\ pc' = [pc EXCEPT ![i] = "sleep"]
    /\ UNCHANGED <<cached, lock, kvs>>

\* Mutant: any error ends the goroutine.
RetryNever(i) ==
    /\ pc[i] = "sleep"
    /\ pc' = [pc EXCEPT ![i] = "done"]
    /\ UNCHANGED <<cached, lock, kvs>>

Retry(i) ==
    /\ pc[i] = "sleep"
    /\ pc' = [pc EXCEPT ![i] = "next"]
    /\ UNCHANGED <<cached, lock, kvs>>

NextCanceled(i) ==
    /\ pc[i] = "next"
    /\ pc' = [pc EXCEPT ![i] = "done"]
    /\ UNCHANGED <<cached, lock, kvs>>

\* Mutant: the sources of higher priority are forgotten.
AnnouncementAlone(docs, i) == docs[i]

\* What source i's goroutine sends: the source's own documents and those of
\* every source of higher priority.
Announcement(docs, i) == Concat(docs, i, N)

\* Mutant: the mutex is released before the send.
PublishUnlocked(i) ==
    /\ pc[i] = "got"
    /\ lock = Free
    /\ cached' = [cached EXCEPT ![i] = kvs[i]]
    /\ kvs' = [kvs EXCEPT ![i] = Announcement(cached', i)]
    /\ pc' = [pc EXCEPT ![i] = "send"]
    /\ UNCHANGED lock

\* Mutant: the announcement is built before the new documents are stored.
PublishStale(i) ==
    /\ pc[i] = "got"
    /\ lock = Free
    /\ lock' = i
    /\ cached' = [cached EXCEPT ![i] = kvs[i]]
    /\ kvs' = [kvs EXCEPT ![i] = Announcement(cached, i)]
    /\ pc' = [pc EXCEPT ![i] = "send"]

\* Lock, store, build the announcement; the mutex stays held for the send.
Publish(i) ==
    /\ pc[i] = "got"
    /\ lock = Free
    /\ lock' = i
    /\ cached' = [cached EXCEPT ![i] = kvs[i]]
    /\ kvs' = [kvs EXCEPT ![i] = Announcement(cached', i)]
    /\ pc' = [pc EXCEPT ![i] = "send"]

\* Mutant: the mutex stays locked after the send.
HandoffLocked(i) ==
    /\ pc[i] = "send"
    /\ pc' = [pc EXCEPT ![i] = "next"]
    /\ UNCHANGED <<cached, lock, kvs>>

\* The receiver takes kvs[i]; the deferred Unlock runs and the loop goes on.
Handoff(i) ==
    /\ pc[i] = "send"
    /\ lock' = Free
    /\ pc' = [pc EXCEPT ![i] = "next"]
    /\ UNCHANGED <<cached, kvs>>
=============================================================================
