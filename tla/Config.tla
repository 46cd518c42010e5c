------------------------------- MODULE Config -------------------------------
(***************************************************************************)
(* A configuration over one priorityConfigSource: Load fetches the sources *)
(* in parallel, Watch starts the watch goroutines one by one, the reader   *)
(* goroutine of kratos' config (external) merges what they announce, and   *)
(* the cleanup function of NewConfig stops everything.  The sources        *)
(* themselves (files, Consul keys) change on their own.                    *)
(***************************************************************************)
EXTENDS PriorityWatch

CONSTANTS
    Replaying,      \* sources whose watcher first reports what it finds (Consul)
    MaxChanges,     \* bound: how often the sources change
    MaxFails        \* bound: how many calls of a source fail

ASSUME ConfigAssumption ==
    /\ Replaying \subseteq Sources
    /\ MaxChanges \in Nat
    /\ MaxFails \in Nat

VARIABLES
    phase,          \* how far NewConfig, and later the cleanup, has come
    loaded,         \* loaded[i]: the result of source i's Load
    stopped,        \* stopped[i]: the watcher of source i has been stopped
    content,        \* content[i]: what source i holds now
    pending,        \* pending[i]: source i's watcher has something to report
    rpc,            \* where the reader goroutine is
    rbuf,           \* the documents it has received and not merged yet
    view,           \* the merged configuration
    changes, fails  \* counters for the bounds

lifeVars == <<phase, loaded, stopped>>
envVars == <<content, pending, changes>>
readVars == <<rpc, rbuf, view>>
vars == <<watchVars, lifeVars, envVars, readVars, fails>>

Phases == {"loading", "opening", "running", "stopping", "stopped",
           "loadFailed", "watchFailed"}

Empty == [k \in Keys |-> Absent]

TypeOK ==
    /\ WatchTypeOK
    /\ phase \in Phases
    /\ loaded \in [Sources -> {"running", "ok", "failed"}]
    /\ stopped \in [Sources -> BOOLEAN]
    /\ content \in [Sources -> Document]
    /\ pending \in [Sources -> BOOLEAN]
    /\ rpc \in {"none", "next", "merge", "done"}
    /\ rbuf \in Document
    /\ view \in Document
    /\ changes \in 0..MaxChanges
    /\ fails \in 0..MaxFails

Init ==
    /\ cached = [i \in Sources |-> Empty]
    /\ lock = Free
    /\ pc = [i \in Sources |-> "none"]
    /\ kvs = [i \in Sources |-> Empty]
    /\ phase = "loading"
    /\ loaded = [i \in Sources |-> "running"]
    /\ stopped = [i \in Sources |-> FALSE]
    /\ \E defined \in SUBSET (Sources \X Keys) :
         content = [i \in Sources |-> [k \in Keys |->
                      IF <<i, k>> \in defined THEN [src |-> i, ver |-> 0] ELSE Absent]]
    /\ pending = [i \in Sources |-> FALSE]
    /\ rpc = "none"
    /\ rbuf = Empty
    /\ view = Empty
    /\ changes = 0
    /\ fails = 0

-----------------------------------------------------------------------------
(* The sources: somebody edits or removes a key.  A watcher that is open   *)
(* will report it; before that nobody is told.                             *)
Change(i, k) ==
    /\ changes < MaxChanges
    /\ changes' = changes + 1
    /\ \E v \in {Absent, [src |-> i, ver |-> changes']} :
         content' = [content EXCEPT ![i][k] = v]
    /\ pending' = [pending EXCEPT ![i] = @ \/ pc[i] \in PCs \ {"none"}]
    /\ UNCHANGED <<watchVars, lifeVars, readVars, fails>>

-----------------------------------------------------------------------------
(* Load: one goroutine per source stores what it fetched under the mutex;  *)
(* the documents are concatenated when all of them are back.               *)
LoadSource(i) ==
    /\ phase = "loading"
    /\ loaded[i] = "running"
    /\ \/ /\ loaded' = [loaded EXCEPT ![i] = "ok"]
          /\ cached' = [cached EXCEPT ![i] = content[i]]
          /\ UNCHANGED fails
       \/ /\ fails < MaxFails
          /\ fails' = fails + 1
          /\ loaded' = [loaded EXCEPT ![i] = "failed"]
          /\ UNCHANGED cached
    /\ UNCHANGED <<lock, pc, kvs, phase, stopped, envVars, readVars>>

LoadDone ==
    /\ phase = "loading"
    /\ \A i \in Sources : loaded[i] # "running"
    /\ IF \E i \in Sources : loaded[i] = "failed"
       THEN phase' = "loadFailed" /\ UNCHANGED view
       ELSE phase' = "opening" /\ view' = Overlay(view, Concat(cached, 1, N))
    /\ UNCHANGED <<watchVars, loaded, stopped, envVars, rpc, rbuf, fails>>

(* Watch: the watchers are opened in order; the first that cannot be       *)
(* opened ends the call and leaves the earlier goroutines as they are.     *)
NextToOpen(i) ==
    /\ phase = "opening"
    /\ pc[i] = "none"
    /\ \A j \in Sources : j < i => pc[j] # "none"

OpenWatch(i) ==
    /\ NextToOpen(i)
    /\ pc' = [pc EXCEPT ![i] = "next"]
    /\ pending' = [pending EXCEPT ![i] = i \in Replaying]
    /\ IF i = N
       THEN phase' = "running" /\ rpc' = "next"
       ELSE UNCHANGED <<phase, rpc>>
    /\ UNCHANGED <<cached, lock, kvs, loaded, stopped, content, changes, rbuf, view, fails>>

OpenFails(i) ==
    /\ NextToOpen(i)
    /\ fails < MaxFails
    /\ fails' = fails + 1
    /\ phase' = "watchFailed"
    /\ UNCHANGED <<watchVars, loaded, stopped, envVars, readVars>>

-----------------------------------------------------------------------------
(* The watch goroutines. *)
SourceNext(i) ==
    /\ pending[i]
    /\ NextReturns(i, content[i])
    /\ pending' = [pending EXCEPT ![i] = FALSE]
    /\ UNCHANGED <<lifeVars, content, changes, readVars, fails>>

SourceError(i) ==
    /\ fails < MaxFails
    /\ fails' = fails + 1
    /\ NextFails(i)
    /\ UNCHANGED <<lifeVars, envVars, readVars>>

SourceRetry(i) == Retry(i) /\ UNCHANGED <<lifeVars, envVars, readVars, fails>>

SourceCanceled(i) ==
    /\ stopped[i]
    /\ NextCanceled(i)
    /\ UNCHANGED <<lifeVars, envVars, readVars, fails>>

Store(i) == Publish(i) /\ UNCHANGED <<lifeVars, envVars, readVars, fails>>

-----------------------------------------------------------------------------
(* The reader goroutine: watcher.Next selects between the channel and the  *)
(* cancelled context, then the documents are merged into the view.         *)
Receive(i) ==
    /\ rpc = "next"
    /\ Handoff(i)
    /\ rbuf' = kvs[i]
    /\ rpc' = "merge"
    /\ UNCHANGED <<lifeVars, envVars, view, fails>>

Merge ==
    /\ rpc = "merge"
    /\ view' = Overlay(view, rbuf)
    /\ rpc' = "next"
    /\ UNCHANGED <<watchVars, lifeVars, envVars, rbuf, fails>>

ReaderExit ==
    /\ rpc = "next"
    /\ phase = "stopped"
    /\ rpc' = "done"
    /\ UNCHANGED <<watchVars, lifeVars, envVars, rbuf, view, fails>>

-----------------------------------------------------------------------------
(* watcher.Stop: the watchers of the sources in any order, then cancel. *)
Cleanup ==
    /\ phase = "running"
    /\ phase' = "stopping"
    /\ UNCHANGED <<watchVars, loaded, stopped, envVars, readVars, fails>>

StopSource(i) ==
    /\ phase = "stopping"
    /\ ~stopped[i]
    /\ stopped' = [stopped EXCEPT ![i] = TRUE]
    /\ UNCHANGED <<watchVars, phase, loaded, envVars, readVars, fails>>

\* Mutant: the context of the watcher is not cancelled.
CancelForgotten ==
    /\ phase = "stopping"
    /\ \A i \in Sources : stopped[i]
    /\ UNCHANGED vars

Cancel ==
    /\ phase = "stopping"
    /\ \A i \in Sources : stopped[i]
    /\ phase' = "stopped"
    /\ UNCHANGED <<watchVars, loaded, stopped, envVars, readVars, fails>>

-----------------------------------------------------------------------------
Next ==
    \/ \E i \in Sources, k \in Keys : Change(i, k)
    \/ \E i \in Sources : LoadSource(i)
    \/ LoadDone
    \/ \E i \in Sources : OpenWatch(i)
    \/ \E i \in Sources : OpenFails(i)
    \/ \E i \in Sources : SourceNext(i)
    \/ \E i \in Sources : SourceError(i)
    \/ \E i \in Sources : SourceRetry(i)
    \/ \E i \in Sources : SourceCanceled(i)
    \/ \E i \in Sources : Store(i)
    \/ \E i \in Sources : Receive(i)
    \/ Merge
    \/ ReaderExit
    \/ Cleanup
    \/ \E i \in Sources : StopSource(i)
    \/ Cancel

Spec == Init /\ [][Next]_vars

(* Go schedules every goroutine that can run.  Nothing obliges a source to *)
(* change, a call to fail or the program to clean up; the call of NewConfig*)
(* and a cleanup once begun do run on.                                     *)
Fairness ==
    /\ \A i \in Sources :
         /\ WF_vars(LoadSource(i))
         /\ WF_vars(OpenWatch(i))
         /\ WF_vars(SourceNext(i))
         /\ WF_vars(SourceRetry(i))
         /\ WF_vars(SourceCanceled(i))
         /\ WF_vars(Store(i))
         /\ WF_vars(Receive(i))
         /\ WF_vars(StopSource(i))
    /\ WF_vars(LoadDone) /\ WF_vars(Merge) /\ WF_vars(ReaderExit) /\ WF_vars(Cancel)

FairSpec == Spec /\ Fairness

-----------------------------------------------------------------------------
(* A view respects the priorities of some documents when no key of any     *)
(* source is shadowed by a source of lower priority or shown in an older   *)
(* version.  (A key shown from a source of higher priority stays shown     *)
(* when that source drops it: the reader removes nothing.)                 *)
Respects(v, docs, S) ==
    \A i \in S, k \in Keys :
        Defines(docs[i], k) => v[k].src > i \/ v[k] = docs[i][k]

Loaded == phase \notin {"loading", "loadFailed"}

Failed == phase \in {"loadFailed", "watchFailed"}

\* Whenever nothing is in flight, the configuration the program reads is the
\* priority merge of the documents the source last handed out, whatever the
\* watch goroutines of several sources did at the same time
\* (priority_config_source.go:84-92).
SettledPriority ==
    (Loaded /\ lock = Free /\ rpc # "merge") => Respects(view, cached, Sources)

\* No step replaces a key's value by an older value of the same source: an
\* announcement built before another source's update may not be merged after
\* it (the send inside the critical section, priority_config_source.go:92).
NoRegression ==
    [][\A k \in Keys : view'[k].src = view[k].src => view'[k].ver >= view[k].ver]_view

\* As long as nobody cleans up and NewConfig succeeds, the configuration ends
\* up showing what the sources hold, although calls fail and are retried
\* (priority_config_source.go:76-83).  Only of sources whose watcher reports
\* what it finds when it opens: what another one changed between Load and
\* Watch stays unknown until its next change.
Converges ==
    [](~Failed /\ phase \notin {"stopping", "stopped"})
        => <>[]Respects(view, content, Replaying)

\* The cleanup function ends the goroutine that reads the configuration,
\* whatever the watch goroutines are doing at that moment
\* (priority_config_source.go:108-123).
ReaderEnds == phase = "stopping" ~> rpc = "done"

\* What NewConfig documents of its cleanup function, that it releases the
\* resources (pkg/config/config.go:19): every watch goroutine ends.
CleanupReleases == phase = "stopped" ~> \A i \in Sources : pc[i] = "done"

-----------------------------------------------------------------------------
(* What the goroutines together amount to: each source replaces its        *)
(* documents and the view in one step.  The view of the abstract           *)
(* specification already contains what is on its way to the reader.        *)
Received == IF rpc = "merge" THEN Overlay(view, rbuf) ELSE view

EventualView == IF lock = Free THEN Received ELSE Overlay(Received, kvs[lock])

Atomic == INSTANCE AtomicConfig WITH
    docs <- cached, view <- EventualView, ready <- Loaded

\* The watched priority source is linearizable: taking the mutex is the point
\* at which an update takes effect.
AtomicUpdates == Atomic!Spec
=============================================================================
