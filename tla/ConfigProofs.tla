---------------------------- MODULE ConfigProofs ----------------------------
(***************************************************************************)
(* Theorems about Config, for every number of sources and every set of     *)
(* keys: types, the priority of a settled configuration, that it           *)
(* implements AtomicConfig, and the order of updates.                      *)
(***************************************************************************)
EXTENDS Config, WellFoundedInduction, TLAPS

-----------------------------------------------------------------------------
(* The operators on documents. *)

\* A nonempty set of indices has a greatest element, and Greatest finds it.
LEMMA GreatestIsGreatest ==
    ASSUME NEW n \in Nat, NEW S \in SUBSET (1..n), S # {}
    PROVE  Greatest(S) \in S /\ \A m \in S : m <= Greatest(S)
<1> DEFINE T == {n - x : x \in S}
<1>1. T \subseteq Nat
  OBVIOUS
<1>2. PICK t \in T : \A u \in T : ~ (<<u, t>> \in OpToRel(<, Nat))
  <2>1. PICK s \in S : TRUE
    OBVIOUS
  <2>2. T # {}
    BY <2>1
  <2> QED
    BY <1>1, <2>2, NatLessThanWellFounded, WFMin
<1>3. \A u \in T : ~ (u < t)
  BY <1>1, <1>2 DEF OpToRel
<1>4. PICK x \in S : t = n - x
  OBVIOUS
<1>5. \A y \in S : y <= x
  <2> TAKE y \in S
  <2>1. ~ (n - y < n - x)
    BY <1>3, <1>4
  <2> QED
    BY <2>1
<1> QED
  BY <1>5 DEF Greatest

\* What Concat holds under a key: nothing if none of the documents defines it,
\* otherwise what the last document that defines it holds.
LEMMA ConcatValue ==
    ASSUME NEW docs, NEW i \in Sources, NEW k \in Keys
    PROVE  \/ /\ \A j \in i..N : ~ Defines(docs[j], k)
              /\ Concat(docs, i, N)[k] = Absent
           \/ \E m \in i..N :
                /\ Defines(docs[m], k)
                /\ \A j \in i..N : Defines(docs[j], k) => j <= m
                /\ Concat(docs, i, N)[k] = docs[m][k]
<1> DEFINE D == {j \in i..N : Defines(docs[j], k)}
<1>1. Concat(docs, i, N)[k] = IF D = {} THEN Absent ELSE docs[Greatest(D)][k]
  BY DEF Concat
<1>2. CASE D = {}
  BY <1>1, <1>2
<1>3. CASE D # {}
  <2>1. D \in SUBSET (1..N) /\ N \in Nat
    BY NAssumption DEF Sources
  <2>2. Greatest(D) \in D /\ \A m \in D : m <= Greatest(D)
    BY <1>3, <2>1, GreatestIsGreatest
  <2> HIDE DEF D
  <2>3. Concat(docs, i, N)[k] = docs[Greatest(D)][k]
    BY <1>1, <1>3
  <2> QED
    BY <2>2, <2>3 DEF D
<1> QED
  BY <1>2, <1>3

LEMMA ConcatType ==
    ASSUME NEW docs \in [Sources -> Document], NEW i \in Sources
    PROVE  Concat(docs, i, N) \in Document
<1>1. Absent \in Value
  BY DEF Absent, Value
<1>2. \A k \in Keys : Concat(docs, i, N)[k] \in Value
  <2> TAKE k \in Keys
  <2> QED
    BY <1>1, ConcatValue, NAssumption DEF Document, Sources
<1>3. Concat(docs, i, N) = [k \in Keys |-> Concat(docs, i, N)[k]]
  BY DEF Concat
<1> QED
  BY <1>2, <1>3 DEF Document

LEMMA OverlayType ==
    ASSUME NEW base \in Document, NEW doc \in Document
    PROVE  Overlay(base, doc) \in Document
  BY DEF Overlay, Document

\* The documents whose values name source i as the one they come from.
Own(i) == {d \in Document : \A k \in Keys : d[k].src \in {0, i}}

\* Merging the announcement of source i leaves a view that respects every
\* source, if before it respected those of lower priority than i.
LEMMA AnnouncementRespects ==
    ASSUME NEW docs \in [Sources -> Document],
           \A j \in Sources : docs[j] \in Own(j),
           NEW i \in Sources,
           NEW v \in Document,
           \A j \in Sources, k \in Keys :
             j < i /\ Defines(docs[j], k) => v[k].src > j \/ v[k] = docs[j][k]
    PROVE  Respects(Overlay(v, Concat(docs, i, N)), docs, Sources)
<1> DEFINE A == Concat(docs, i, N)
<1> SUFFICES ASSUME NEW j \in Sources, NEW k \in Keys, Defines(docs[j], k)
             PROVE  Overlay(v, A)[k].src > j \/ Overlay(v, A)[k] = docs[j][k]
  BY DEF Respects
<1>1. Overlay(v, A)[k] = IF Defines(A, k) THEN A[k] ELSE v[k]
  BY DEF Overlay
<1>2. N \in Nat /\ i \in 1..N /\ j \in 1..N
  BY NAssumption DEF Sources
<1>3. CASE \A m \in i..N : ~ Defines(docs[m], k)
  <2>1. j < i
    BY <1>2, <1>3
  <2>2. A[k] = Absent
    BY <1>3, ConcatValue
  <2> QED
    BY <1>1, <2>1, <2>2 DEF Defines, Absent
<1>4. CASE \E m \in i..N : Defines(docs[m], k)
  <2>1. PICK m \in i..N : /\ Defines(docs[m], k)
                          /\ \A l \in i..N : Defines(docs[l], k) => l <= m
                          /\ A[k] = docs[m][k]
    BY <1>4, ConcatValue
  <2>2. m \in Sources /\ docs[m][k].src = m
    BY <2>1, <1>2 DEF Own, Defines, Sources
  <2>3. Overlay(v, A)[k] = docs[m][k]
    BY <1>1, <2>1 DEF Defines
  <2>4. j <= m
    BY <1>2, <2>1
  <2> QED
    BY <1>2, <2>2, <2>3, <2>4
<1> QED
  BY <1>3, <1>4

-----------------------------------------------------------------------------
(* Type correctness, with the mutual exclusion of the watch goroutines. *)

LEMMA EmptyType == Empty \in Document
  BY DEF Empty, Document, Value, Absent

LEMMA InitType == Init => TypeOK
<1> SUFFICES ASSUME Init PROVE TypeOK
  OBVIOUS
<1>1. content \in [Sources -> Document]
  BY DEF Init, Document, Value, Absent, Sources
<1>2. WatchTypeOK
  BY EmptyType DEF Init, WatchTypeOK, PCs, Free, Sources
<1>3. changes \in 0..MaxChanges /\ fails \in 0..MaxFails
  BY ConfigAssumption DEF Init
<1> QED
  BY <1>1, <1>2, <1>3, EmptyType DEF Init, TypeOK, Phases

LEMMA NextType == TypeOK /\ [Next]_vars => TypeOK'
<1> SUFFICES ASSUME TypeOK, [Next]_vars PROVE TypeOK'
  OBVIOUS
<1> USE NAssumption, ConfigAssumption DEF TypeOK, WatchTypeOK, Phases, PCs, Free
<1>1. ASSUME NEW i \in Sources, NEW k \in Keys, Change(i, k) PROVE TypeOK'
  <2>1. PICK v \in {Absent, [src |-> i, ver |-> changes']} :
          content' = [content EXCEPT ![i][k] = v]
    BY <1>1 DEF Change
  <2>2. v \in Value
    BY <1>1, <2>1 DEF Change, Absent, Value, Sources
  <2>3. [content[i] EXCEPT ![k] = v] \in Document
    BY <2>2 DEF Document
  <2>4. content' \in [Sources -> Document]
    BY <2>1, <2>3
  <2> QED
    BY <1>1, <2>4 DEF Change, watchVars, lifeVars, readVars
<1>2. ASSUME NEW i \in Sources, LoadSource(i) PROVE TypeOK'
  BY <1>2 DEF LoadSource, envVars, readVars
<1>3. CASE LoadDone
  <2>1. 1 \in Sources
    BY DEF Sources
  <2>2. Overlay(view, Concat(cached, 1, N)) \in Document
    BY <2>1, ConcatType, OverlayType
  <2> QED
    BY <1>3, <2>2 DEF LoadDone, watchVars, envVars
<1>4. ASSUME NEW i \in Sources, OpenWatch(i) PROVE TypeOK'
  BY <1>4 DEF OpenWatch, NextToOpen
<1>5. ASSUME NEW i \in Sources, OpenFails(i) PROVE TypeOK'
  BY <1>5 DEF OpenFails, NextToOpen, watchVars, envVars, readVars
<1>6. ASSUME NEW i \in Sources, SourceNext(i) PROVE TypeOK'
  BY <1>6 DEF SourceNext, NextReturns, lifeVars, readVars
<1>7. ASSUME NEW i \in Sources, SourceError(i) PROVE TypeOK'
  BY <1>7 DEF SourceError, NextFails, lifeVars, envVars, readVars
<1>8. ASSUME NEW i \in Sources, SourceRetry(i) PROVE TypeOK'
  BY <1>8 DEF SourceRetry, Retry, lifeVars, envVars, readVars
<1>9. ASSUME NEW i \in Sources, SourceCanceled(i) PROVE TypeOK'
  BY <1>9 DEF SourceCanceled, NextCanceled, lifeVars, envVars, readVars
<1>10. ASSUME NEW i \in Sources, Store(i) PROVE TypeOK'
  <2>1. cached' \in [Sources -> Document]
    BY <1>10 DEF Store, Publish
  <2>2. Announcement(cached', i) \in Document
    BY <2>1, ConcatType DEF Announcement
  <2> QED
    BY <1>10, <2>1, <2>2 DEF Store, Publish, lifeVars, envVars, readVars, Sources
<1>11. ASSUME NEW i \in Sources, Receive(i) PROVE TypeOK'
  BY <1>11 DEF Receive, Handoff, lifeVars, envVars, Sources
<1>12. CASE Merge
  <2>1. Overlay(view, rbuf) \in Document
    BY OverlayType
  <2> QED
    BY <1>12, <2>1 DEF Merge, watchVars, lifeVars, envVars
<1>13. CASE ReaderExit
  BY <1>13 DEF ReaderExit, watchVars, lifeVars, envVars
<1>14. CASE Cleanup
  BY <1>14 DEF Cleanup, watchVars, envVars, readVars
<1>15. ASSUME NEW i \in Sources, StopSource(i) PROVE TypeOK'
  BY <1>15 DEF StopSource, watchVars, envVars, readVars
<1>16. CASE Cancel
  BY <1>16 DEF Cancel, watchVars, envVars, readVars
<1>17. CASE UNCHANGED vars
  BY <1>17 DEF vars, watchVars, lifeVars, envVars, readVars
<1> QED
  BY <1>1, <1>2, <1>3, <1>4, <1>5, <1>6, <1>7, <1>8, <1>9, <1>10, <1>11, <1>12,
     <1>13, <1>14, <1>15, <1>16, <1>17 DEF Next

\* Every state of NewConfig's configuration is well typed, and the mutex of
\* the priority source is held exactly by the goroutine that sends
\* (priority_config_source.go:84-92).
THEOREM TypeCorrect == Spec => []TypeOK
  BY InitType, NextType, PTL DEF Spec

-----------------------------------------------------------------------------
(* The priorities.  SettledPriority speaks only of the moments when nothing *)
(* is in flight; the inductive invariant says the same of the view the     *)
(* reader will have once it has merged what is on its way.                 *)

Quiet == lock = Free /\ rpc = "none" /\ \A i \in Sources : pc[i] = "none"

IInv ==
    /\ TypeOK
    /\ \A i \in Sources : cached[i] \in Own(i) /\ content[i] \in Own(i)
    /\ \A i \in Sources : pc[i] = "got" => kvs[i] \in Own(i)
    /\ ~Loaded => Quiet
    /\ phase = "opening" => rpc = "none"
    /\ Loaded => Respects(EventualView, cached, Sources)

LEMMA InitIInv == Init => IInv
<1> SUFFICES ASSUME Init PROVE IInv
  OBVIOUS
<1>1. TypeOK
  BY InitType
<1>2. \A i \in Sources : cached[i] \in Own(i)
  BY <1>1 DEF Init, Own, Empty, Absent, TypeOK, WatchTypeOK
<1>3. \A i \in Sources : content[i] \in Own(i)
  <2> SUFFICES ASSUME NEW i \in Sources PROVE content[i] \in Own(i)
    OBVIOUS
  <2>1. \A k \in Keys : content[i][k] \in {Absent, [src |-> i, ver |-> 0]}
    BY DEF Init
  <2>2. Absent.src = 0 /\ [src |-> i, ver |-> 0].src = i
    BY DEF Absent
  <2>3. content[i] \in Document
    BY <1>1 DEF TypeOK
  <2>4. \A k \in Keys : content[i][k].src \in {0, i}
    BY <2>1, <2>2
  <2> QED
    BY <2>3, <2>4 DEF Own
<1> QED
  BY <1>1, <1>2, <1>3 DEF Init, IInv, Quiet, Loaded, Free

LEMMA EventualViewType == TypeOK => EventualView \in Document
  BY OverlayType DEF TypeOK, WatchTypeOK, EventualView, Received, Free

\* A step that leaves the cached documents and the eventual view alone.
LEMMA SameEventualView ==
    ASSUME IInv, TypeOK', UNCHANGED <<cached, content, EventualView>>,
           \A i \in Sources : pc'[i] = "got" => kvs'[i] \in Own(i),
           Loaded' <=> Loaded,
           ~Loaded' => Quiet',
           phase' = "opening" => rpc' = "none"
    PROVE  IInv'
<1>1. \A i \in Sources : cached'[i] \in Own(i) /\ content'[i] \in Own(i)
  BY DEF IInv
<1>2. Loaded' => Respects(EventualView, cached, Sources)'
  BY DEF IInv, Respects
<1> QED
  BY <1>1, <1>2 DEF IInv

LEMMA NextIInv == IInv /\ [Next]_vars => IInv'
<1> SUFFICES ASSUME IInv, [Next]_vars PROVE IInv'
  OBVIOUS
<1>0. TypeOK /\ TypeOK'
  BY NextType DEF IInv
<1> USE DEF Loaded, Quiet, Free
<1>1. ASSUME NEW i \in Sources, NEW k \in Keys, Change(i, k) PROVE IInv'
  <2>1. PICK v \in {Absent, [src |-> i, ver |-> changes']} :
          content' = [content EXCEPT ![i][k] = v]
    BY <1>1 DEF Change
  <2>2. \A j \in Sources : content'[j] \in Own(j)
    <3> SUFFICES ASSUME NEW j \in Sources PROVE content'[j] \in Own(j)
      OBVIOUS
    <3>1. content'[j] \in Document /\ content[j] \in Document
      BY <1>0 DEF TypeOK
    <3>2. ASSUME NEW l \in Keys
          PROVE  content'[j][l] = content[j][l] \/ (j = i /\ content'[j][l] = v)
      <4>1. content' = [content EXCEPT ![i] = [content[i] EXCEPT ![k] = v]]
        BY <2>1
      <4>2. content \in [Sources -> Document] /\ content[i] \in [Keys -> Value]
        BY <1>0 DEF TypeOK, Document
      <4>3. content'[j] = IF j = i THEN [content[i] EXCEPT ![k] = v] ELSE content[j]
        BY <4>1, <4>2
      <4> QED
        BY <4>2, <4>3
    <3>3. \A l \in Keys : content[j][l].src \in {0, j}
      BY DEF IInv, Own
    <3>4. v.src \in {0, i}
      BY <2>1 DEF Absent
    <3> QED
      BY <3>1, <3>2, <3>3, <3>4 DEF Own
  <2>3. UNCHANGED <<cached, EventualView>>
    BY <1>1 DEF Change, watchVars, readVars, EventualView, Received
  <2>4. Loaded' => Respects(EventualView, cached, Sources)'
    BY <1>1, <2>3 DEF IInv, Respects, Change, lifeVars
  <2> QED
    BY <1>0, <1>1, <2>2, <2>4 DEF IInv, Change, watchVars, lifeVars, readVars
<1>2. ASSUME NEW i \in Sources, LoadSource(i) PROVE IInv'
  <2>1. \A j \in Sources : cached'[j] \in Own(j)
    BY <1>0, <1>2 DEF LoadSource, IInv, TypeOK, WatchTypeOK
  <2> QED
    BY <1>0, <1>2, <2>1 DEF LoadSource, IInv, envVars, readVars
<1>3. CASE LoadDone
  <2>1. CASE phase' = "loadFailed"
    BY <1>0, <1>3, <2>1 DEF LoadDone, IInv, watchVars, envVars
  <2>2. CASE phase' = "opening" /\ view' = Overlay(view, Concat(cached, 1, N))
    <3>1. EventualView' = view'
      BY <1>3, <2>2 DEF LoadDone, IInv, watchVars, EventualView, Received
    <3>2. 1 \in Sources /\ N \in Nat
      BY NAssumption DEF Sources
    <3>3. Respects(view', cached, Sources)
      <4>1. \A j \in Sources : ~ (j < 1)
        BY <3>2 DEF Sources
      <4>2. view \in Document /\ cached \in [Sources -> Document]
        BY <1>0 DEF TypeOK, WatchTypeOK
      <4>3. \A j \in Sources : cached[j] \in Own(j)
        BY DEF IInv
      <4> QED
        BY <2>2, <3>2, <4>1, <4>2, <4>3, AnnouncementRespects
    <3>4. Loaded' => Respects(EventualView, cached, Sources)'
      BY <1>3, <3>1, <3>3 DEF LoadDone, watchVars, Respects
    <3> QED
      BY <1>0, <1>3, <2>2, <3>4 DEF LoadDone, IInv, watchVars, envVars
  <2> QED
    BY <1>3, <2>1, <2>2 DEF LoadDone
<1>4. ASSUME NEW i \in Sources, OpenWatch(i) PROVE IInv'
  <2>1. UNCHANGED <<cached, content, EventualView>>
    BY <1>4 DEF OpenWatch, NextToOpen, IInv, EventualView, Received
  <2>2. \A j \in Sources : pc'[j] = "got" => pc[j] = "got"
    BY <1>0, <1>4 DEF OpenWatch, TypeOK, WatchTypeOK
  <2> QED
    BY <1>0, <1>4, <2>1, <2>2, SameEventualView DEF OpenWatch, NextToOpen, IInv
<1>5. ASSUME NEW i \in Sources, OpenFails(i) PROVE IInv'
  BY <1>0, <1>5, SameEventualView
  DEF OpenFails, NextToOpen, IInv, watchVars, envVars, readVars, EventualView, Received
<1>6. ASSUME NEW i \in Sources, SourceNext(i) PROVE IInv'
  <2>1. lock # i
    BY <1>0, <1>6 DEF SourceNext, NextReturns, TypeOK, WatchTypeOK
  <2>2. UNCHANGED <<cached, content, EventualView>>
    BY <1>0, <1>6, <2>1
    DEF SourceNext, NextReturns, TypeOK, WatchTypeOK, readVars, EventualView, Received
  <2>3. \A j \in Sources : pc'[j] = "got" => kvs'[j] \in Own(j)
    BY <1>0, <1>6 DEF SourceNext, NextReturns, IInv, TypeOK, WatchTypeOK
  <2> QED
    BY <1>0, <1>6, <2>2, <2>3, SameEventualView
    DEF SourceNext, NextReturns, IInv, lifeVars, readVars
<1>7. ASSUME NEW i \in Sources, SourceError(i) \/ SourceRetry(i) \/ SourceCanceled(i) PROVE IInv'
  <2>1. \A j \in Sources : pc'[j] = "got" => pc[j] = "got"
    BY <1>0, <1>7
    DEF SourceError, NextFails, SourceRetry, Retry, SourceCanceled, NextCanceled, TypeOK, WatchTypeOK
  <2>2. UNCHANGED <<cached, lock, kvs, lifeVars, content, readVars>> /\ pc[i] # "none"
    BY <1>7
    DEF SourceError, NextFails, SourceRetry, Retry, SourceCanceled, NextCanceled, envVars
  <2>3. UNCHANGED EventualView
    BY <2>2 DEF readVars, EventualView, Received
  <2> QED
    BY <1>0, <2>1, <2>2, <2>3, SameEventualView DEF IInv, lifeVars, readVars
<1>8. ASSUME NEW i \in Sources, Store(i) PROVE IInv'
  <2>1. /\ pc[i] = "got" /\ lock = 0 /\ lock' = i
        /\ cached' = [cached EXCEPT ![i] = kvs[i]]
        /\ kvs' = [kvs EXCEPT ![i] = Concat(cached', i, N)]
        /\ pc' = [pc EXCEPT ![i] = "send"]
        /\ UNCHANGED <<phase, content, rpc, rbuf, view>>
    BY <1>8 DEF Store, Publish, Announcement, lifeVars, envVars, readVars
  <2>2. Loaded
    BY <2>1 DEF IInv
  <2>3. \A j \in Sources : cached'[j] \in Own(j)
    BY <1>0, <2>1 DEF IInv, TypeOK, WatchTypeOK
  <2>4. EventualView = Received /\ Received' = Received
    BY <2>1 DEF EventualView, Received
  <2>5. EventualView' = Overlay(Received, Concat(cached', i, N))
    BY <1>0, <2>1, <2>4 DEF EventualView, TypeOK, WatchTypeOK, Sources
  <2>6. \A j \in Sources, k \in Keys :
          j < i /\ Defines(cached'[j], k) => Received[k].src > j \/ Received[k] = cached'[j][k]
    BY <1>0, <2>1, <2>2, <2>4 DEF IInv, Respects, TypeOK, WatchTypeOK, Sources
  <2>7. Received \in Document /\ cached' \in [Sources -> Document]
    BY <1>0, <2>4, EventualViewType DEF TypeOK, WatchTypeOK
  <2>8. Respects(EventualView', cached', Sources)
    BY <2>3, <2>5, <2>6, <2>7, AnnouncementRespects
  <2>9. Respects(EventualView, cached, Sources)'
    BY <2>8 DEF Respects
  <2>10. \A j \in Sources : pc'[j] = "got" => kvs'[j] \in Own(j)
    BY <1>0, <2>1 DEF IInv, TypeOK, WatchTypeOK
  <2> QED
    BY <1>0, <2>1, <2>2, <2>3, <2>9, <2>10 DEF IInv
<1>9. ASSUME NEW i \in Sources, Receive(i) PROVE IInv'
  <2>1. lock = i /\ i # 0
    BY <1>0, <1>9 DEF Receive, Handoff, TypeOK, WatchTypeOK, Sources
  <2>2. EventualView = Overlay(view, kvs[i]) /\ EventualView' = Overlay(view, kvs[i])
    BY <1>9, <2>1 DEF Receive, Handoff, EventualView, Received
  <2>3. \A j \in Sources : pc'[j] = "got" => pc[j] = "got" /\ kvs'[j] = kvs[j]
    BY <1>0, <1>9 DEF Receive, Handoff, TypeOK, WatchTypeOK
  <2> QED
    BY <1>0, <1>9, <2>2, <2>3, SameEventualView
    DEF Receive, Handoff, IInv, lifeVars, envVars
<1>10. CASE Merge
  <2>1. Received' = Received
    BY <1>10 DEF Merge, Received
  <2>2. UNCHANGED EventualView
    BY <1>10, <2>1 DEF Merge, watchVars, EventualView
  <2> QED
    BY <1>0, <1>10, <2>2, SameEventualView DEF Merge, IInv, watchVars, lifeVars, envVars
<1>11. CASE ReaderExit
  BY <1>0, <1>11, SameEventualView
  DEF ReaderExit, IInv, watchVars, lifeVars, envVars, EventualView, Received
<1>12. ASSUME NEW i \in Sources, Cleanup \/ StopSource(i) \/ Cancel PROVE IInv'
  <2>1. UNCHANGED <<watchVars, envVars, readVars>> /\ phase' # "opening"
        /\ (Loaded' <=> Loaded)
    BY <1>12 DEF Cleanup, StopSource, Cancel
  <2>2. UNCHANGED EventualView
    BY <2>1 DEF watchVars, readVars, EventualView, Received
  <2> QED
    BY <1>0, <2>1, <2>2, SameEventualView DEF IInv, watchVars, envVars, readVars
<1>13. CASE UNCHANGED vars
  BY <1>0, <1>13, SameEventualView
  DEF IInv, vars, watchVars, lifeVars, envVars, readVars, EventualView, Received
<1>14. \E i \in Sources : TRUE
  BY NAssumption DEF Sources
<1> QED
  BY <1>1, <1>2, <1>3, <1>4, <1>5, <1>6, <1>7, <1>8, <1>9, <1>10, <1>11, <1>12,
     <1>13, <1>14 DEF Next

\* Whatever the sources, the goroutines and the cleanup do, the configuration
\* the program reads is the priority merge of what the sources handed out
\* whenever nothing is in flight (priority_config_source.go:73-99).
THEOREM PriorityCorrect == Spec => []SettledPriority
<1>1. IInv => SettledPriority
  BY DEF IInv, SettledPriority, EventualView, Received
<1> QED
  BY <1>1, InitIInv, NextIInv, PTL DEF Spec

-----------------------------------------------------------------------------
(* The refinement. *)

LEMMA SameDocuments == Atomic!Document = Document /\ Atomic!Sources = Sources
  BY DEF Atomic!Document, Document, Atomic!Value, Value, Atomic!Sources, Sources

LEMMA SameConcat ==
    ASSUME NEW docs, NEW i, NEW n
    PROVE  Atomic!Concat(docs, i, n) = Concat(docs, i, n)
  BY DEF Atomic!Concat, Concat, Atomic!Greatest, Greatest, Atomic!Defines, Defines,
         Atomic!Absent, Absent

LEMMA SameOverlay ==
    ASSUME NEW base, NEW doc
    PROVE  Atomic!Overlay(base, doc) = Overlay(base, doc)
  BY DEF Atomic!Overlay, Overlay, Atomic!Defines, Defines

LEMMA InitImplements == Init => Atomic!Init
  BY DEF Init, Atomic!Init, Atomic!Sources, Sources, Atomic!Absent, Absent, Empty, Loaded,
         EventualView, Received

LEMMA StepImplements ==
    ASSUME IInv, [Next]_vars
    PROVE  [Atomic!Next]_(Atomic!vars)
<1>0. TypeOK /\ TypeOK'
  BY NextType DEF IInv
<1> USE DEF Loaded, Quiet, Free
<1> DEFINE Stutter == UNCHANGED <<cached, EventualView>> /\ Loaded' = Loaded
<1>s. Stutter => [Atomic!Next]_(Atomic!vars)
  BY DEF Atomic!vars
<1>1. ASSUME NEW i \in Sources, LoadSource(i) PROVE [Atomic!Next]_(Atomic!vars)
  <2>1. CASE UNCHANGED cached
    BY <1>1, <1>s, <2>1 DEF LoadSource, readVars, EventualView, Received
  <2>2. CASE cached' = [cached EXCEPT ![i] = content[i]]
    <3>1. Atomic!Replaces(i)
      BY <1>0, <2>2, SameDocuments DEF Atomic!Replaces, TypeOK, WatchTypeOK
    <3>2. ~ Loaded /\ Loaded' = Loaded /\ UNCHANGED EventualView
      BY <1>1 DEF LoadSource, readVars, EventualView, Received
    <3> QED
      BY <3>1, <3>2, SameDocuments DEF Atomic!Next, Atomic!Fetch
  <2> QED
    BY <1>1, <2>1, <2>2 DEF LoadSource
<1>2. CASE LoadDone
  <2>1. CASE phase' = "loadFailed" /\ UNCHANGED view
    BY <1>2, <1>s, <2>1 DEF LoadDone, watchVars, EventualView, Received
  <2>2. CASE phase' = "opening" /\ view' = Overlay(view, Concat(cached, 1, N))
    <3>1. EventualView = view /\ EventualView' = view'
      BY <1>2, <2>2 DEF LoadDone, IInv, watchVars, EventualView, Received
    <3>2. EventualView' = Atomic!Overlay(EventualView, Atomic!Concat(cached, 1, N))
      BY <2>2, <3>1, SameConcat, SameOverlay
    <3>3. ~ Loaded /\ Loaded' = TRUE /\ UNCHANGED cached
      BY <1>2, <2>2 DEF LoadDone, watchVars
    <3> QED
      BY <3>2, <3>3 DEF Atomic!Next, Atomic!Ready
  <2> QED
    BY <1>2, <2>1, <2>2 DEF LoadDone
<1>3. ASSUME NEW i \in Sources, Store(i) PROVE [Atomic!Next]_(Atomic!vars)
  <2>1. /\ pc[i] = "got" /\ lock = 0 /\ lock' = i
        /\ cached' = [cached EXCEPT ![i] = kvs[i]]
        /\ kvs' = [kvs EXCEPT ![i] = Concat(cached', i, N)]
        /\ UNCHANGED <<phase, rpc, rbuf, view>>
    BY <1>3 DEF Store, Publish, Announcement, lifeVars, envVars, readVars
  <2>2. Loaded /\ Loaded' = Loaded
    BY <2>1 DEF IInv
  <2>3. Atomic!Replaces(i)
    BY <1>0, <2>1, SameDocuments DEF Atomic!Replaces, TypeOK, WatchTypeOK
  <2>4. EventualView = Received /\ Received' = Received
    BY <2>1 DEF EventualView, Received
  <2>5. EventualView' = Overlay(EventualView, Concat(cached', i, N))
    BY <1>0, <2>1, <2>4 DEF EventualView, TypeOK, WatchTypeOK, Sources
  <2>6. EventualView' = Atomic!Overlay(EventualView, Atomic!Concat(cached', i, N))
    BY <2>5, SameConcat, SameOverlay
  <2> QED
    BY <2>2, <2>3, <2>6, SameDocuments DEF Atomic!Next, Atomic!Update
<1>4. ASSUME NEW i \in Sources, NEW k \in Keys, Change(i, k) PROVE Stutter
  BY <1>4 DEF Change, watchVars, lifeVars, readVars, EventualView, Received
<1>5. ASSUME NEW i \in Sources, OpenWatch(i) PROVE Stutter
  BY <1>5 DEF OpenWatch, NextToOpen, IInv, EventualView, Received
<1>6. ASSUME NEW i \in Sources, OpenFails(i) PROVE Stutter
  BY <1>6 DEF OpenFails, NextToOpen, watchVars, readVars, EventualView, Received
<1>7. ASSUME NEW i \in Sources, SourceNext(i) PROVE Stutter
  <2>1. lock # i
    BY <1>0, <1>7 DEF SourceNext, NextReturns, TypeOK, WatchTypeOK
  <2> QED
    BY <1>0, <1>7, <2>1
    DEF SourceNext, NextReturns, TypeOK, WatchTypeOK, lifeVars, readVars, EventualView, Received
<1>8. ASSUME NEW i \in Sources, SourceError(i) \/ SourceRetry(i) \/ SourceCanceled(i) PROVE Stutter
  BY <1>8 DEF SourceError, NextFails, SourceRetry, Retry, SourceCanceled, NextCanceled,
              lifeVars, readVars, EventualView, Received
<1>9. ASSUME NEW i \in Sources, Receive(i) PROVE Stutter
  <2>1. lock = i /\ i # 0
    BY <1>0, <1>9 DEF Receive, Handoff, TypeOK, WatchTypeOK, Sources
  <2>2. EventualView = Overlay(view, kvs[i]) /\ EventualView' = Overlay(view, kvs[i])
    BY <1>9, <2>1 DEF Receive, Handoff, EventualView, Received
  <2> QED
    BY <1>9, <2>2 DEF Receive, Handoff, lifeVars
<1>10. CASE Merge
  <2>1. Received' = Received
    BY <1>10 DEF Merge, Received
  <2>2. Stutter
    BY <1>10, <2>1 DEF Merge, watchVars, lifeVars, EventualView
  <2> QED
    BY <1>s, <2>2
<1>11. CASE ReaderExit
  BY <1>s, <1>11 DEF ReaderExit, watchVars, lifeVars, EventualView, Received
<1>12. ASSUME NEW i \in Sources, Cleanup \/ StopSource(i) \/ Cancel PROVE Stutter
  BY <1>12 DEF Cleanup, StopSource, Cancel, watchVars, readVars, EventualView, Received
<1>13. CASE UNCHANGED vars
  BY <1>s, <1>13 DEF vars, watchVars, lifeVars, readVars, EventualView, Received
<1>14. \E i \in Sources : TRUE
  BY NAssumption DEF Sources
<1> QED
  BY <1>s, <1>1, <1>2, <1>3, <1>4, <1>5, <1>6, <1>7, <1>8, <1>9, <1>10, <1>11, <1>12,
     <1>13, <1>14 DEF Next

\* The goroutines, the mutex and the channel of the priority source implement
\* the specification in which a source's update and its effect on the merged
\* configuration are one step (priority_config_source.go:84-92).
THEOREM AtomicUpdatesCorrect == Spec => AtomicUpdates
<1>1. Spec => []IInv
  BY InitIInv, NextIInv, PTL DEF Spec
<1>2. Init => Atomic!Init
  BY InitImplements
<1>3. IInv /\ [Next]_vars => [Atomic!Next]_(Atomic!vars)
  BY StepImplements
<1> QED
  BY <1>1, <1>2, <1>3, PTL DEF Spec, AtomicUpdates, Atomic!Spec

-----------------------------------------------------------------------------
(* The order of updates: documents move from a source to its goroutine, to  *)
(* the map, to the channel, to the reader and to the view, and none of them *)
(* overtakes a newer one of the same source.                                *)

\* No value of b is newer than the value a has from the same source.
Newer(a, b) ==
    \A k \in Keys : (Defines(b, k) /\ a[k].src = b[k].src) => a[k].ver >= b[k].ver

Merged(a) == Newer(a, rbuf) /\ Newer(a, view)

Later(a) == Merged(a) /\ \A j \in Sources : pc[j] = "send" => Newer(a, kvs[j])

Order ==
    /\ \A i \in Sources :
         /\ Newer(content[i], cached[i]) /\ Later(content[i]) /\ Later(cached[i])
         /\ pc[i] = "got" =>
              Newer(content[i], kvs[i]) /\ Newer(kvs[i], cached[i]) /\ Later(kvs[i])
         /\ pc[i] = "send" => Merged(kvs[i])
    /\ rpc = "merge" => Newer(rbuf, view)

\* A new version is newer than everything on its way.
Within(d, n) == \A k \in Keys : d[k].ver <= n

Bounded ==
    /\ Within(rbuf, changes) /\ Within(view, changes)
    /\ \A i \in Sources :
         /\ Within(content[i], changes) /\ Within(cached[i], changes)
         /\ Within(kvs[i], changes)

OInv == IInv /\ Order /\ Bounded

-----------------------------------------------------------------------------
(* The order on documents. *)

LEMMA NewerReflexive == ASSUME NEW a \in Document PROVE Newer(a, a)
  BY DEF Newer, Document, Value

LEMMA NewerOverlay ==
    ASSUME NEW a, NEW v, NEW d, Newer(a, v), Newer(a, d)
    PROVE  Newer(a, Overlay(v, d))
  BY DEF Newer, Overlay, Defines

\* What a concatenation shows of source i is what source i holds.
LEMMA ConcatOwn ==
    ASSUME NEW docs, \A j \in Sources : docs[j] \in Own(j),
           NEW i \in Sources, NEW k \in Keys, Defines(Concat(docs, i, N), k)
    PROVE  \E m \in Sources : Concat(docs, i, N)[k] = docs[m][k] /\ docs[m][k].src = m
<1>1. \A m \in i..N : m \in Sources
  BY NAssumption DEF Sources
<1>2. \A m \in Sources : Defines(docs[m], k) => docs[m][k].src = m
  BY DEF Own, Defines
<1> QED
  BY <1>1, <1>2, ConcatValue DEF Defines, Absent

LEMMA NewerThanConcat ==
    ASSUME NEW docs, \A j \in Sources : docs[j] \in Own(j),
           NEW i \in Sources, NEW s \in Sources, NEW a \in Own(s), Newer(a, docs[s])
    PROVE  Newer(a, Concat(docs, i, N))
<1> SUFFICES ASSUME NEW k \in Keys, Defines(Concat(docs, i, N), k),
                    a[k].src = Concat(docs, i, N)[k].src
             PROVE  a[k].ver >= Concat(docs, i, N)[k].ver
  BY DEF Newer
<1>1. PICK m \in Sources : Concat(docs, i, N)[k] = docs[m][k] /\ docs[m][k].src = m
  BY ConcatOwn
<1>2. a[k].src \in {0, s} /\ m # 0
  BY NAssumption DEF Own, Sources
<1>3. m = s
  BY <1>1, <1>2
<1> QED
  BY <1>1, <1>3 DEF Newer, Defines

LEMMA ConcatIsNewer ==
    ASSUME NEW docs, \A j \in Sources : docs[j] \in Own(j),
           NEW i \in Sources, NEW b, \A j \in Sources : Newer(docs[j], b)
    PROVE  Newer(Concat(docs, i, N), b)
<1> SUFFICES ASSUME NEW k \in Keys, Defines(b, k),
                    Concat(docs, i, N)[k].src = b[k].src
             PROVE  Concat(docs, i, N)[k].ver >= b[k].ver
  BY DEF Newer
<1>1. PICK m \in Sources : Concat(docs, i, N)[k] = docs[m][k]
  BY ConcatOwn DEF Defines
<1> QED
  BY <1>1 DEF Newer

LEMMA ConcatWithin ==
    ASSUME NEW docs, \A j \in Sources : docs[j] \in Own(j) /\ Within(docs[j], changes'),
           changes' \in Nat, NEW i \in Sources
    PROVE  Within(Concat(docs, i, N), changes')
<1> SUFFICES ASSUME NEW k \in Keys PROVE Concat(docs, i, N)[k].ver <= changes'
  BY DEF Within
<1>1. CASE Defines(Concat(docs, i, N), k)
  BY <1>1, ConcatOwn DEF Within
<1>2. CASE ~Defines(Concat(docs, i, N), k)
  <2>1. Concat(docs, i, N)[k] = Absent
    BY <1>2, ConcatValue DEF Defines
  <2> QED
    BY <2>1 DEF Absent
<1> QED
  BY <1>1, <1>2

LEMMA OverlayWithin ==
    ASSUME NEW v, NEW d, NEW n, Within(v, n), Within(d, n)
    PROVE  Within(Overlay(v, d), n)
  BY DEF Within, Overlay

-----------------------------------------------------------------------------
(* The invariant. *)

LEMMA InitOrder == Init => OInv
<1> SUFFICES ASSUME Init PROVE OInv
  OBVIOUS
<1>1. IInv
  BY InitIInv
<1>2. \A k \in Keys : ~Defines(Empty, k) /\ Empty[k].ver = 0
  BY DEF Empty, Defines, Absent
<1>3. Order
  BY <1>2 DEF Init, Order, Later, Merged, Newer
<1>4. \A i \in Sources, k \in Keys : content[i][k].ver <= 0
  BY DEF Init, Absent
<1>5. Bounded
  BY <1>2, <1>4 DEF Init, Bounded, Within
<1> QED
  BY <1>1, <1>3, <1>5 DEF OInv

\* A step that moves no document.
LEMMA StillOrdered ==
    ASSUME OInv, IInv', UNCHANGED <<content, cached, kvs, changes, rbuf, view>>,
           \A i \in Sources : /\ pc'[i] = "got" => pc[i] = "got"
                              /\ pc'[i] = "send" => pc[i] = "send",
           rpc' = "merge" => rpc = "merge"
    PROVE  OInv'
<1>1. Order'
  BY DEF OInv, Order, Later, Merged, Newer
<1>2. Bounded'
  BY DEF OInv, Bounded, Within
<1> QED
  BY <1>1, <1>2 DEF OInv

\* Somebody edits a source: its new value is newer than all there is.
LEMMA ChangeOrder ==
    ASSUME OInv, IInv', NEW i \in Sources, NEW k \in Keys, Change(i, k)
    PROVE  OInv'
<1>1. changes \in Nat /\ changes' = changes + 1
  BY ConfigAssumption DEF Change, OInv, IInv, TypeOK
<1>2. UNCHANGED <<cached, kvs, rbuf, view, pc, rpc>>
  BY DEF Change, watchVars, readVars
<1>3. \A j \in Sources, l \in Keys :
        \/ content'[j][l] = content[j][l]
        \/ content'[j][l].src = 0 /\ content'[j][l].ver = 0
        \/ content'[j][l].ver = changes'
  <2>1. PICK v \in {Absent, [src |-> i, ver |-> changes']} :
          content' = [content EXCEPT ![i][k] = v]
    BY DEF Change
  <2>2. (v.src = 0 /\ v.ver = 0) \/ v.ver = changes'
    BY DEF Absent
  <2>3. content \in [Sources -> [Keys -> Value]]
    BY DEF OInv, IInv, TypeOK, Document
  <2>4. content' = [content EXCEPT ![i] = [content[i] EXCEPT ![k] = v]]
    BY <2>1
  <2> TAKE j \in Sources, l \in Keys
  <2>5. content'[j][l] = content[j][l] \/ content'[j][l] = v
    BY <2>3, <2>4
  <2> QED
    BY <2>2, <2>5
<1>4. \A d : (Within(d, changes) /\ \A l \in Keys : d[l].ver \in Nat) =>
        /\ Within(d, changes')
        /\ \A j \in Sources : Newer(content[j], d) => Newer(content'[j], d)
  <2> SUFFICES ASSUME NEW d, Within(d, changes), \A l \in Keys : d[l].ver \in Nat
               PROVE  /\ Within(d, changes')
                      /\ \A j \in Sources : Newer(content[j], d) => Newer(content'[j], d)
    OBVIOUS
  <2>1. \A l \in Keys : d[l].ver <= changes'
    BY <1>1 DEF Within
  <2> QED
    BY <1>3, <2>1 DEF Newer, Defines, Within
<1>5. /\ \A l \in Keys : rbuf[l].ver \in Nat /\ view[l].ver \in Nat
      /\ \A j \in Sources, l \in Keys : /\ cached[j][l].ver \in Nat
                                        /\ kvs[j][l].ver \in Nat
                                        /\ content[j][l].ver \in Nat
  BY DEF OInv, IInv, TypeOK, WatchTypeOK, Document, Value
<1>6. Bounded'
  <2>1. \A j \in Sources : Within(content'[j], changes')
    BY <1>1, <1>3, <1>4, <1>5 DEF OInv, Bounded, Within
  <2> QED
    BY <1>2, <1>4, <1>5, <2>1 DEF OInv, Bounded
<1>7. Order'
  <2>1. \A j \in Sources : /\ Newer(content'[j], cached[j])
                           /\ Newer(content'[j], rbuf) /\ Newer(content'[j], view)
                           /\ pc[j] = "got" => Newer(content'[j], kvs[j])
                           /\ \A l \in Sources : pc[l] = "send" => Newer(content'[j], kvs[l])
    BY <1>4, <1>5 DEF OInv, Bounded, Order, Later, Merged
  <2> QED
    BY <1>2, <2>1 DEF OInv, Order, Later, Merged, Newer, Defines
<1> QED
  BY <1>6, <1>7 DEF OInv

\* A source is fetched: nothing has been handed out yet.
LEMMA LoadOrder ==
    ASSUME OInv, IInv', NEW i \in Sources, LoadSource(i)
    PROVE  OInv'
<1>1. UNCHANGED <<content, kvs, changes, rbuf, view, pc, rpc>>
  BY DEF LoadSource, envVars, readVars
<1>2. \A j \in Sources : pc[j] = "none"
  BY DEF OInv, IInv, Loaded, Quiet, LoadSource
<1>3. \A j \in Sources : cached'[j] = cached[j] \/ cached'[j] = content[j]
  BY DEF LoadSource, OInv, IInv, TypeOK, WatchTypeOK
<1>4. \A j \in Sources : Newer(content[j], content[j])
  BY NewerReflexive DEF OInv, IInv, TypeOK
<1>5. Order'
  <2>1. \A j \in Sources : /\ Newer(content[j], cached'[j])
                           /\ Merged(content[j]) /\ Merged(cached'[j])
    BY <1>3, <1>4 DEF OInv, Order, Later
  <2>2. rpc = "merge" => Newer(rbuf, view)
    BY DEF OInv, Order
  <2> QED
    BY <1>1, <1>2, <2>1, <2>2 DEF Order, Later, Merged, Newer
<1>6. Bounded'
  BY <1>1, <1>3 DEF OInv, Bounded, Within
<1> QED
  BY <1>5, <1>6 DEF OInv

\* The view begins with what the sources held.
LEMMA LoadedOrder ==
    ASSUME OInv, IInv', LoadDone
    PROVE  OInv'
<1>1. UNCHANGED <<content, cached, kvs, changes, rbuf, pc, rpc>>
  BY DEF LoadDone, watchVars, envVars
<1>2. rpc = "none" /\ \A j \in Sources : pc[j] = "none"
  BY DEF OInv, IInv, Loaded, Quiet, LoadDone
<1>3. CASE view' = view
  BY <1>1, <1>3, StillOrdered
<1>4. CASE view' = Overlay(view, Concat(cached, 1, N))
  <2>1. 1 \in Sources /\ \A j \in Sources : cached[j] \in Own(j) /\ content[j] \in Own(j)
    BY NAssumption DEF OInv, IInv, Sources
  <2>2. \A j \in Sources : Newer(cached[j], cached[j])
    BY NewerReflexive DEF OInv, IInv, TypeOK, WatchTypeOK
  <2>3. \A j \in Sources : Newer(content[j], view') /\ Newer(cached[j], view')
    BY <1>4, <2>1, <2>2, NewerThanConcat, NewerOverlay DEF OInv, Order, Later, Merged
  <2>4. Order'
    BY <1>1, <1>2, <2>3 DEF OInv, Order, Later, Merged, Newer
  <2>5. changes' \in Nat /\ \A j \in Sources : Within(cached[j], changes')
    BY <1>1, ConfigAssumption DEF OInv, IInv, TypeOK, Bounded
  <2>6. Within(view', changes')
    BY <1>1, <1>4, <2>1, <2>5, ConcatWithin, OverlayWithin DEF OInv, Bounded
  <2>7. Bounded'
    BY <1>1, <2>6 DEF OInv, Bounded, Within
  <2> QED
    BY <2>4, <2>7 DEF OInv
<1> QED
  BY <1>3, <1>4 DEF LoadDone

\* A goroutine comes back from Next with what its source holds.
LEMMA NextOrder ==
    ASSUME OInv, IInv', NEW i \in Sources, SourceNext(i)
    PROVE  OInv'
<1>1. UNCHANGED <<content, cached, changes, rbuf, view, rpc>>
  BY DEF SourceNext, NextReturns, readVars
<1>2. /\ pc' = [pc EXCEPT ![i] = "got"] /\ kvs' = [kvs EXCEPT ![i] = content[i]]
      /\ pc[i] = "next"
      /\ pc \in [Sources -> PCs] /\ kvs \in [Sources -> Document]
  BY DEF SourceNext, NextReturns, OInv, IInv, TypeOK, WatchTypeOK
<1>3. kvs'[i] = content[i] /\ Newer(content[i], content[i])
  BY <1>2, NewerReflexive DEF OInv, IInv, TypeOK
<1>4. \A j \in Sources : j # i => kvs'[j] = kvs[j] /\ pc'[j] = pc[j]
  BY <1>2
<1>5. pc'[i] = "got"
  BY <1>2
<1>6. \A a : Later(a) => Later(a)'
  BY <1>1, <1>4, <1>5 DEF Later, Merged, Newer
<1>7. Order'
  <2>1. ASSUME NEW j \in Sources, j # i
        PROVE  /\ pc'[j] = "got" =>
                    Newer(content[j], kvs'[j]) /\ Newer(kvs'[j], cached[j]) /\ Later(kvs'[j])
               /\ pc'[j] = "send" => Merged(kvs'[j])
    BY <1>4, <2>1 DEF OInv, Order
  <2>2. /\ Newer(content[i], kvs'[i]) /\ Newer(kvs'[i], cached[i])
        /\ Later(kvs'[i])
    BY <1>3 DEF OInv, Order
  <2>3. \A j \in Sources : /\ Newer(content[j], cached[j])
                           /\ Later(content[j])' /\ Later(cached[j])'
    BY <1>1, <1>6 DEF OInv, Order, Later, Merged, Newer
  <2>4. \A j \in Sources : Later(kvs'[j]) => Later(kvs[j])'
    BY <1>1, <1>4, <1>5 DEF Later, Merged, Newer
  <2>5. \A j \in Sources : Merged(kvs'[j]) => Merged(kvs[j])'
    BY <1>1 DEF Merged, Newer
  <2>6. (rpc = "merge" => Newer(rbuf, view))'
    BY <1>1 DEF OInv, Order, Newer
  <2> QED
    BY <1>1, <1>5, <2>1, <2>2, <2>3, <2>4, <2>5, <2>6 DEF Order, Newer
<1>8. Bounded'
  BY <1>1, <1>3, <1>4 DEF OInv, Bounded, Within
<1> QED
  BY <1>7, <1>8 DEF OInv

\* The critical section: the announcement shows the stored documents, each the
\* newest its goroutine has handed in, so it is behind every source and ahead
\* of what the reader has.
LEMMA StoreOrder ==
    ASSUME OInv, IInv', NEW i \in Sources, Store(i)
    PROVE  OInv'
<1>1. UNCHANGED <<content, changes, rbuf, view, rpc>>
  BY DEF Store, envVars, readVars
<1>2. /\ pc' = [pc EXCEPT ![i] = "send"]
      /\ cached' = [cached EXCEPT ![i] = kvs[i]]
      /\ kvs' = [kvs EXCEPT ![i] = Concat(cached', i, N)]
      /\ pc[i] = "got" /\ lock = Free
  BY DEF Store, Publish, Announcement
<1>3. /\ pc \in [Sources -> PCs] /\ kvs \in [Sources -> Document]
      /\ cached \in [Sources -> Document] /\ content \in [Sources -> Document]
  BY DEF OInv, IInv, TypeOK, WatchTypeOK
<1>4. /\ cached'[i] = kvs[i] /\ pc'[i] = "send" /\ kvs'[i] = Concat(cached', i, N)
      /\ \A j \in Sources : j # i =>
           kvs'[j] = kvs[j] /\ pc'[j] = pc[j] /\ cached'[j] = cached[j]
  BY <1>2, <1>3
<1>5. \A j \in Sources : pc[j] # "send"
  BY <1>2 DEF OInv, IInv, TypeOK, WatchTypeOK, Free, Sources
<1>6. \A j \in Sources : cached'[j] \in Own(j) /\ content[j] \in Own(j)
  BY DEF OInv, IInv
<1>7. \A j \in Sources : /\ Newer(content[j], cached'[j])
                         /\ Newer(cached'[j], cached'[j])
                         /\ Merged(content[j]) /\ Merged(cached'[j])
  <2>1. \A j \in Sources : Newer(cached'[j], cached'[j])
    BY NewerReflexive DEF IInv, TypeOK, WatchTypeOK
  <2>2. /\ Newer(content[i], kvs[i]) /\ Merged(kvs[i])
    BY <1>2 DEF OInv, Order, Later
  <2>3. \A j \in Sources : /\ Newer(content[j], cached[j])
                           /\ Merged(content[j]) /\ Merged(cached[j])
    BY DEF OInv, Order, Later
  <2> QED
    BY <1>4, <2>1, <2>2, <2>3
<1>8. \A j \in Sources : Newer(content[j], kvs'[i]) /\ Newer(cached'[j], kvs'[i])
  BY <1>4, <1>6, <1>7, NewerThanConcat
<1>9. Merged(kvs'[i])
  BY <1>4, <1>6, <1>7, ConcatIsNewer DEF Merged
<1>10. ASSUME NEW j \in Sources, j # i, pc[j] = "got"
       PROVE  /\ Newer(content[j], kvs[j]) /\ Newer(kvs[j], cached[j])
              /\ Newer(kvs[j], kvs'[i]) /\ Merged(kvs[j])
  <2>1. Newer(content[j], kvs[j]) /\ Newer(kvs[j], cached[j]) /\ Merged(kvs[j])
    BY <1>10 DEF OInv, Order, Later
  <2>2. kvs[j] \in Own(j) /\ Newer(kvs[j], cached'[j])
    BY <1>4, <1>10, <2>1 DEF OInv, IInv
  <2> QED
    BY <1>4, <1>6, <2>1, <2>2, NewerThanConcat
<1>11. Order'
  <2>1. \A a : (Merged(a) /\ Newer(a, kvs'[i])) =>
               (Merged(a)' /\ \A j \in Sources : pc'[j] = "send" => Newer(a, kvs'[j]))
    BY <1>1, <1>4, <1>5 DEF Merged, Newer
  <2>2. \A j \in Sources : /\ Newer(content[j], cached'[j])
                           /\ Later(content[j])' /\ Later(cached[j])'
    BY <1>1, <1>4, <1>5, <1>7, <1>8 DEF Later, Merged, Newer
  <2>3. ASSUME NEW j \in Sources, pc'[j] = "got"
        PROVE  (Newer(content[j], kvs[j]) /\ Newer(kvs[j], cached[j]) /\ Later(kvs[j]))'
    <3>1. j # i /\ kvs'[j] = kvs[j] /\ cached'[j] = cached[j] /\ pc[j] = "got"
      BY <1>4, <2>3
    <3> QED
      BY <1>1, <1>4, <1>5, <1>10, <3>1 DEF Later, Merged, Newer
  <2>4. ASSUME NEW j \in Sources, pc'[j] = "send" PROVE Merged(kvs[j])'
    <3>1. j = i
      BY <1>4, <1>5, <2>4
    <3> QED
      BY <1>1, <1>9, <3>1 DEF Merged, Newer
  <2>5. (rpc = "merge" => Newer(rbuf, view))'
    BY <1>1 DEF OInv, Order, Newer
  <2> QED
    BY <1>1, <2>2, <2>3, <2>4, <2>5 DEF Order, Newer
<1>12. Bounded'
  <2>1. \A j \in Sources : Within(cached'[j], changes')
    BY <1>1, <1>4 DEF OInv, Bounded
  <2>2. changes' \in Nat
    BY <1>1, ConfigAssumption DEF OInv, IInv, TypeOK
  <2>3. Within(kvs'[i], changes')
    BY <1>4, <1>6, <2>1, <2>2, ConcatWithin
  <2> QED
    BY <1>1, <1>4, <2>1, <2>3 DEF OInv, Bounded, Within
<1> QED
  BY <1>11, <1>12 DEF OInv

\* The reader takes what the holder of the mutex sends.
LEMMA ReceiveOrder ==
    ASSUME OInv, IInv', NEW i \in Sources, Receive(i)
    PROVE  OInv'
<1>1. UNCHANGED <<content, cached, kvs, changes, view>>
  BY DEF Receive, Handoff, envVars
<1>2. pc' = [pc EXCEPT ![i] = "next"] /\ rbuf' = kvs[i] /\ pc[i] = "send"
  BY DEF Receive, Handoff
<1>3. pc \in [Sources -> PCs] /\ \A j \in Sources : pc[j] = "send" => j = i
  BY <1>2 DEF OInv, IInv, TypeOK, WatchTypeOK
<1>4. \A j \in Sources : pc'[j] # "send" /\ (pc'[j] = "got" => pc[j] = "got")
  BY <1>2, <1>3
<1>5. \A a : Later(a) => (Newer(a, rbuf') /\ Newer(a, view))
  BY <1>2 DEF Later, Merged
<1>6. Order'
  <2>1. \A j \in Sources :
          /\ Newer(content[j], cached[j])
          /\ Newer(content[j], rbuf') /\ Newer(content[j], view)
          /\ Newer(cached[j], rbuf') /\ Newer(cached[j], view)
          /\ pc[j] = "got" => /\ Newer(content[j], kvs[j]) /\ Newer(kvs[j], cached[j])
                              /\ Newer(kvs[j], rbuf') /\ Newer(kvs[j], view)
    BY <1>5 DEF OInv, Order
  <2>2. Newer(rbuf', view)
    BY <1>2 DEF OInv, Order, Merged
  <2> QED
    BY <1>1, <1>4, <2>1, <2>2 DEF Order, Later, Merged, Newer
<1>7. Bounded'
  BY <1>1, <1>2 DEF OInv, Bounded, Within
<1> QED
  BY <1>6, <1>7 DEF OInv

\* The reader merges what it has received, which is newer than the view.
LEMMA MergeOrder ==
    ASSUME OInv, IInv', Merge
    PROVE  OInv'
<1>1. UNCHANGED <<content, cached, kvs, changes, rbuf, pc>>
  BY DEF Merge, watchVars, envVars
<1>2. view' = Overlay(view, rbuf) /\ rpc' # "merge"
  BY DEF Merge
<1>3. \A a : Merged(a) => (Newer(a, rbuf) /\ Newer(a, view'))
  BY <1>2, NewerOverlay DEF Merged
<1>4. Order'
  <2>1. \A a : Merged(a) => Merged(a)'
    BY <1>1, <1>3 DEF Merged, Newer
  <2>2. \A j \in Sources : /\ Newer(content[j], rbuf) /\ Newer(content[j], view')
                           /\ Newer(cached[j], rbuf) /\ Newer(cached[j], view')
                           /\ pc[j] \in {"got", "send"} =>
                                Newer(kvs[j], rbuf) /\ Newer(kvs[j], view')
    BY <1>3 DEF OInv, Order, Later
  <2> QED
    BY <1>1, <1>2, <2>2 DEF OInv, Order, Later, Merged, Newer
<1>5. Bounded'
  BY <1>1, <1>2, OverlayWithin DEF OInv, Bounded, Within
<1> QED
  BY <1>4, <1>5 DEF OInv

LEMMA NextOInv == OInv /\ [Next]_vars => OInv'
<1> SUFFICES ASSUME OInv, [Next]_vars PROVE OInv'
  OBVIOUS
<1>0. IInv' /\ TypeOK
  BY NextIInv DEF OInv, IInv
<1> USE <1>0
<1>1. ASSUME NEW i \in Sources, NEW k \in Keys, Change(i, k) PROVE OInv'
  BY <1>1, ChangeOrder
<1>2. ASSUME NEW i \in Sources, LoadSource(i) PROVE OInv'
  BY <1>2, LoadOrder
<1>3. CASE LoadDone
  BY <1>3, LoadedOrder
<1>4. ASSUME NEW i \in Sources,
             OpenWatch(i) \/ SourceError(i) \/ SourceRetry(i) \/ SourceCanceled(i)
      PROVE  OInv'
  <2>1. UNCHANGED <<content, cached, kvs, changes, rbuf, view>>
    BY <1>4 DEF OpenWatch, SourceError, SourceRetry, SourceCanceled,
                NextFails, Retry, NextCanceled, envVars, readVars
  <2>2. \E p \in {"next", "sleep", "done"} : pc' = [pc EXCEPT ![i] = p]
    BY <1>4 DEF OpenWatch, SourceError, SourceRetry, SourceCanceled,
                NextFails, Retry, NextCanceled
  <2>3. \A j \in Sources : pc'[j] = pc[j] \/ pc'[j] \in {"next", "sleep", "done"}
    BY <2>2 DEF TypeOK, WatchTypeOK
  <2>4. rpc' = "merge" => rpc = "merge"
    BY <1>4 DEF OpenWatch, SourceError, SourceRetry, SourceCanceled, readVars
  <2> QED
    BY <2>1, <2>3, <2>4, StillOrdered
<1>5. ASSUME NEW i \in Sources, SourceNext(i) PROVE OInv'
  BY <1>5, NextOrder
<1>6. ASSUME NEW i \in Sources, Store(i) PROVE OInv'
  BY <1>6, StoreOrder
<1>7. ASSUME NEW i \in Sources, Receive(i) PROVE OInv'
  BY <1>7, ReceiveOrder
<1>8. CASE Merge
  BY <1>8, MergeOrder
<1>9. ASSUME NEW i \in Sources, OpenFails(i) \/ StopSource(i) PROVE OInv'
  BY <1>9, StillOrdered DEF OpenFails, StopSource, watchVars, envVars, readVars
<1>10. CASE ReaderExit \/ Cleanup \/ Cancel \/ UNCHANGED vars
  BY <1>10, StillOrdered
  DEF ReaderExit, Cleanup, Cancel, vars, watchVars, envVars, readVars
<1> QED
  BY <1>1, <1>2, <1>3, <1>4, <1>5, <1>6, <1>7, <1>8, <1>9, <1>10 DEF Next

-----------------------------------------------------------------------------
\* Whatever the goroutines of the sources do at the same time, the reader never
\* replaces a value by an older one of the same source (the send inside the
\* critical section, priority_config_source.go:84-92).
THEOREM NoRegressionCorrect == Spec => NoRegression
<1>1. OInv /\ [Next]_vars =>
        [\A k \in Keys : view'[k].src = view[k].src => view'[k].ver >= view[k].ver]_view
  <2> SUFFICES ASSUME OInv, [Next]_vars, view' # view, NEW k \in Keys,
                      view'[k].src = view[k].src
               PROVE  view'[k].ver >= view[k].ver
    OBVIOUS
  <2>1. view[k].ver \in Nat
    BY DEF OInv, IInv, TypeOK, Document, Value
  <2>2. PICK d : view' = Overlay(view, d) /\ Newer(d, view)
    <3>1. CASE Merge
      BY <3>1 DEF Merge, OInv, Order
    <3>2. CASE LoadDone
      <4>1. 1 \in Sources /\ \A j \in Sources : cached[j] \in Own(j)
        BY NAssumption DEF OInv, IInv, Sources
      <4>2. \A j \in Sources : Newer(cached[j], view)
        BY DEF OInv, Order, Later, Merged
      <4> QED
        BY <3>2, <4>1, <4>2, ConcatIsNewer DEF LoadDone
    <3>3. Merge \/ LoadDone
      BY DEF Next, vars, readVars, Change, LoadSource, OpenWatch, OpenFails, SourceNext,
             SourceError, SourceRetry, SourceCanceled, Store, Receive, ReaderExit,
             Cleanup, StopSource, Cancel
    <3> QED
      BY <3>1, <3>2, <3>3
  <2>3. view'[k] = IF Defines(d, k) THEN d[k] ELSE view[k]
    BY <2>2 DEF Overlay
  <2>4. CASE ~Defines(d, k)
    BY <2>1, <2>3, <2>4
  <2>5. CASE Defines(d, k)
    BY <2>2, <2>3, <2>5 DEF Newer, Defines
  <2> QED
    BY <2>4, <2>5
<1> QED
  BY <1>1, InitOrder, NextOInv, PTL DEF Spec, NoRegression
=============================================================================
