---------------------------- MODULE LayeredConfig ----------------------------
(***************************************************************************)
(* The configuration NewConfig really builds: NewFileSource and            *)
(* NewConsulSource each return a priorityConfigSource over their paths,    *)
(* and NewConfig wraps the two in a third one (pkg/config/config.go).      *)
(* Three instances of PriorityWatch share the work: the channel of a group *)
(* feeds the watch goroutine the top source runs for that group.  Load and *)
(* Watch have succeeded; Config covers them.                               *)
(*                                                                         *)
(* The groups are named by their place in the list of NewConfig: the file  *)
(* group is the high one in a local environment, the Consul group is       *)
(* elsewhere.  A path is a leaf; leaves are numbered by documented         *)
(* priority: 1..NLow in the low group, then NHigh in the high group.       *)
(***************************************************************************)
EXTENDS KeyValues

CONSTANTS
    NLow, NHigh,    \* the number of paths of the two groups
    MaxChanges, MaxFails

ASSUME LayeredAssumption ==
    NLow \in Nat \ {0} /\ NHigh \in Nat \ {0} /\ MaxChanges \in Nat /\ MaxFails \in Nat

VARIABLES
    lowCached, lowLock, lowPc, lowKvs,
    highCached, highLock, highPc, highKvs,
    topCached, topLock, topPc, topKvs,
    content,        \* content[l]: what leaf l holds
    pending,        \* pending[l]: its watcher has something to report
    rpc, rbuf, view,
    changes, fails

lowVars == <<lowCached, lowLock, lowPc, lowKvs>>
highVars == <<highCached, highLock, highPc, highKvs>>
topVars == <<topCached, topLock, topPc, topKvs>>
readVars == <<rpc, rbuf, view>>
envVars == <<content, pending, changes, fails>>
vars == <<lowVars, highVars, topVars, readVars, envVars>>

Low == INSTANCE PriorityWatch WITH N <- NLow,
         cached <- lowCached, lock <- lowLock, pc <- lowPc, kvs <- lowKvs
High == INSTANCE PriorityWatch WITH N <- NHigh,
         cached <- highCached, lock <- highLock, pc <- highPc, kvs <- highKvs
Top == INSTANCE PriorityWatch WITH N <- 2,
         cached <- topCached, lock <- topLock, pc <- topPc, kvs <- topKvs

LowGroup == 1
HighGroup == 2
LowLeaves == 1..NLow
HighLeaves == NLow + 1 .. NLow + NHigh
Leaves == LowLeaves \cup HighLeaves

TypeOK ==
    /\ Low!WatchTypeOK /\ High!WatchTypeOK /\ Top!WatchTypeOK
    /\ content \in [Leaves -> Document]
    /\ pending \in [Leaves -> BOOLEAN]
    /\ rpc \in {"next", "merge"}
    /\ rbuf \in Document
    /\ view \in Document
    /\ changes \in 0..MaxChanges
    /\ fails \in 0..MaxFails

\* NewConfig once Load has merged and Watch has started every goroutine.
Init ==
    /\ \E defined \in SUBSET (Leaves \X Keys) :
         content = [l \in Leaves |-> [k \in Keys |->
                      IF <<l, k>> \in defined THEN [src |-> l, ver |-> 0] ELSE Absent]]
    /\ lowCached = [i \in LowLeaves |-> content[i]]
    /\ highCached = [i \in 1..NHigh |-> content[NLow + i]]
    /\ topCached = <<Concat(lowCached, 1, NLow), Concat(highCached, 1, NHigh)>>
    /\ view = Concat(topCached, 1, 2)
    /\ lowLock = 0 /\ highLock = 0 /\ topLock = 0
    /\ lowPc = [i \in LowLeaves |-> "next"]
    /\ highPc = [i \in 1..NHigh |-> "next"]
    /\ topPc = [g \in 1..2 |-> "next"]
    /\ rbuf = [k \in Keys |-> Absent]
    /\ lowKvs = [i \in LowLeaves |-> rbuf]
    /\ highKvs = [i \in 1..NHigh |-> rbuf]
    /\ topKvs = [g \in 1..2 |-> rbuf]
    /\ pending = [l \in Leaves |-> FALSE]
    /\ rpc = "next"
    /\ changes = 0
    /\ fails = 0

-----------------------------------------------------------------------------
Change(l, k) ==
    /\ changes < MaxChanges
    /\ changes' = changes + 1
    /\ \E v \in {Absent, [src |-> l, ver |-> changes']} :
         content' = [content EXCEPT ![l][k] = v]
    /\ pending' = [pending EXCEPT ![l] = TRUE]
    /\ UNCHANGED <<lowVars, highVars, topVars, readVars, fails>>

(* The watchers of the paths: watch of the two groups. *)
LeafNext(l) ==
    /\ pending[l]
    /\ pending' = [pending EXCEPT ![l] = FALSE]
    /\ \/ l \in LowLeaves /\ Low!NextReturns(l, content[l]) /\ UNCHANGED highVars
       \/ l \in HighLeaves /\ High!NextReturns(l - NLow, content[l]) /\ UNCHANGED lowVars
    /\ UNCHANGED <<topVars, readVars, content, changes, fails>>

LeafError(l) ==
    /\ fails < MaxFails
    /\ fails' = fails + 1
    /\ \/ l \in LowLeaves /\ Low!NextFails(l) /\ UNCHANGED highVars
       \/ l \in HighLeaves /\ High!NextFails(l - NLow) /\ UNCHANGED lowVars
    /\ UNCHANGED <<topVars, readVars, content, pending, changes>>

LeafRetry(l) ==
    /\ \/ l \in LowLeaves /\ Low!Retry(l) /\ UNCHANGED highVars
       \/ l \in HighLeaves /\ High!Retry(l - NLow) /\ UNCHANGED lowVars
    /\ UNCHANGED <<topVars, readVars, envVars>>

LeafStore(l) ==
    /\ \/ l \in LowLeaves /\ Low!Publish(l) /\ UNCHANGED highVars
       \/ l \in HighLeaves /\ High!Publish(l - NLow) /\ UNCHANGED lowVars
    /\ UNCHANGED <<topVars, readVars, envVars>>

(* A group's goroutine hands its documents to Next of the group's watcher, *)
(* which the top source's goroutine for the group has called.              *)
PassOn(l) ==
    /\ \/ /\ l \in LowLeaves
          /\ Low!Handoff(l)
          /\ Top!NextReturns(LowGroup, lowKvs[l])
          /\ UNCHANGED highVars
       \/ /\ l \in HighLeaves
          /\ High!Handoff(l - NLow)
          /\ Top!NextReturns(HighGroup, highKvs[l - NLow])
          /\ UNCHANGED lowVars
    /\ UNCHANGED <<readVars, envVars>>

GroupStore(g) == Top!Publish(g) /\ UNCHANGED <<lowVars, highVars, readVars, envVars>>

Receive(g) ==
    /\ rpc = "next"
    /\ Top!Handoff(g)
    /\ rbuf' = topKvs[g]
    /\ rpc' = "merge"
    /\ UNCHANGED <<lowVars, highVars, view, envVars>>

Merge ==
    /\ rpc = "merge"
    /\ view' = Overlay(view, rbuf)
    /\ rpc' = "next"
    /\ UNCHANGED <<lowVars, highVars, topVars, rbuf, envVars>>

Next ==
    \/ \E l \in Leaves, k \in Keys : Change(l, k)
    \/ \E l \in Leaves : LeafNext(l)
    \/ \E l \in Leaves : LeafError(l)
    \/ \E l \in Leaves : LeafRetry(l)
    \/ \E l \in Leaves : LeafStore(l)
    \/ \E l \in Leaves : PassOn(l)
    \/ \E g \in 1..2 : GroupStore(g)
    \/ \E g \in 1..2 : Receive(g)
    \/ Merge

Spec == Init /\ [][Next]_vars

(* Every goroutine that can run does.  Weak fairness asks less than Go's   *)
(* mutexes give (waiters are served in turn).                              *)
Fairness ==
    /\ \A l \in Leaves :
         WF_vars(LeafNext(l)) /\ WF_vars(LeafRetry(l)) /\ WF_vars(LeafStore(l))
         /\ WF_vars(PassOn(l))
    /\ \A g \in 1..2 : WF_vars(GroupStore(g)) /\ WF_vars(Receive(g))
    /\ WF_vars(Merge)

FairSpec == Spec /\ Fairness

-----------------------------------------------------------------------------
LeafDocs == [l \in Leaves |->
    IF l \in LowLeaves THEN lowCached[l] ELSE highCached[l - NLow]]

GroupOf(l) == IF l \in LowLeaves THEN LowLeaves ELSE HighLeaves

\* Nothing is on its way from a path to the reader.
Settled ==
    /\ \A i \in LowLeaves : lowPc[i] \in {"next", "sleep"}
    /\ \A i \in 1..NHigh : highPc[i] \in {"next", "sleep"}
    /\ \A g \in 1..2 : topPc[g] = "next"
    /\ rpc = "next"

\* Among the paths of one group the later one wins, as NewConsulSource
\* documents (pkg/config/consul_source.go:31), although the group's updates
\* travel through two mutexes and two channels and the other group's
\* announcements repeat them.
GroupPriority ==
    Settled =>
        \A l \in Leaves, k \in Keys :
            Defines(LeafDocs[l], k) /\ view[k].src \in GroupOf(l) =>
                view[k].src > l \/ view[k] = LeafDocs[l][k]

\* What NewConfig documents (pkg/config/config.go:23-26): a key of the high
\* group is never shadowed by the low group.
DocumentedPriority ==
    Settled =>
        \A l \in HighLeaves, k \in Keys :
            Defines(LeafDocs[l], k) => view[k].src \notin LowLeaves

\* The two layers of mutexes, each held over a send on an unbuffered channel,
\* never block one another for good: every change of a path reaches the
\* reader (priority_config_source.go:73-99).
Drains == <>[](Settled /\ \A l \in Leaves : ~pending[l] /\ LeafDocs[l] = content[l])
=============================================================================
